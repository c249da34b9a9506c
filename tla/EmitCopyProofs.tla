--------------------------- MODULE EmitCopyProofs ---------------------------
(***************************************************************************)
(* Proofs about EmitCopy, for any number of processes, whatever they make  *)
(* of the library and however many writes its file takes.                  *)
(***************************************************************************)
EXTENDS EmitCopy, TLAPS

\* None is no file.
LEMMA NoFile == None \notin File
BY CopyAssumption

\* A new file has no more bytes than it may have.
LEMMA NewIsFile ==
  ASSUME NEW p \in Procs, NEW n \in 0..Whole
  PROVE  New(p, n) \in File /\ New(p, n).len = n /\ ~New(p, n).old
BY DEF New, File

\* Its age is all that a day changes of a file.
LEMMA AgedIsFile ==
  ASSUME NEW x \in File, NEW o \in BOOLEAN
  PROVE  Aged(x, o) \in File /\ Aged(x, o).len = x.len /\ Aged(x, o).old = o
BY DEF Aged, File
-----------------------------------------------------------------------------
\* The invariant holds of an empty directory and of processes that have not
\* begun.
LEMMA InitInv == Init => TypeOK /\ NeverTorn /\ Written
<1> SUFFICES ASSUME Init PROVE TypeOK /\ NeverTorn /\ Written
  OBVIOUS
<1>1. Whole \in Nat /\ Whole \in 0..Whole /\ 0 \in 0..Whole
  BY CopyAssumption
<1>2. final = None \/ (final \in File /\ final.len = Whole)
  <2>1. CASE final # None
    <3>1. PICK p \in Procs, o \in BOOLEAN : final = Aged(New(p, Whole), o)
      BY <2>1 DEF Init
    <3>2. New(p, Whole) \in File /\ New(p, Whole).len = Whole
      BY <1>1, NewIsFile
    <3> QED BY <3>1, <3>2, AgedIsFile
  <2> QED BY <2>1
<1>3. pc \in [Procs -> {"start", "ready"}]
  BY DEF Init
<1> QED BY <1>1, <1>2, <1>3 DEF Init, TypeOK, PCs, NeverTorn, Written

\* One step per action.
LEMMA NextType == TypeOK /\ Written /\ [Next]_vars => TypeOK'
<1> SUFFICES ASSUME TypeOK, Written, [Next]_vars PROVE TypeOK'
  OBVIOUS
<1> USE DEF TypeOK, PCs, Goto
<1>1. ASSUME NEW p \in Procs, SweepLooks(p) PROVE TypeOK'
  BY <1>1 DEF SweepLooks
<1>2. ASSUME NEW p \in Procs, SweepRemoves(p) PROVE TypeOK'
  BY <1>2 DEF SweepRemoves
<1>3. ASSUME NEW p \in Procs, Unlink(p) PROVE TypeOK'
  BY <1>3, CopyAssumption DEF Unlink
<1>4. ASSUME NEW p \in Procs, OpenTmpfile(p) PROVE TypeOK'
  BY <1>4 DEF OpenTmpfile
<1>5. ASSUME NEW p \in Procs, Write(p) PROVE TypeOK'
  <2>1. buf[p] < Whole => buf[p] + 1 \in 0..Whole
    BY CopyAssumption
  <2>2. pc' \in [Procs -> PCs]
    BY <1>5 DEF Write
  <2>3. buf' \in [Procs -> 0..Whole]
    <3>1. UNCHANGED buf \/ (buf[p] < Whole /\ buf' = [buf EXCEPT ![p] = buf[p] + 1])
      BY <1>5 DEF Write
    <3> QED BY <2>1, <3>1
  <2>4. UNCHANGED <<tmpfile, final, temps, seen, got>>
    BY <1>5 DEF Write
  <2> QED BY <2>2, <2>3, <2>4
<1>6. ASSUME NEW p \in Procs, Link(p) PROVE TypeOK'
  <2>1. New(p, buf[p]) \in File
    BY NewIsFile
  <2>2. pc' \in [Procs -> PCs]
    BY <1>6 DEF Link
  <2>3. final' \in File \cup {None}
    <3>1. UNCHANGED final \/ final' = New(p, buf[p])
      BY <1>6, Zenon DEF Link
    <3> QED BY <2>1, <3>1, Zenon
  <2>4. UNCHANGED <<tmpfile, temps, buf, seen, got>>
    BY <1>6 DEF Link
  <2> QED BY <2>2, <2>3, <2>4
<1>7. ASSUME NEW p \in Procs, Mkstemp(p) PROVE TypeOK'
  <2>1. 0 \in 0..Whole /\ New(p, 0) \in File
    BY CopyAssumption, NewIsFile
  <2>2. pc' \in [Procs -> PCs]
    BY <1>7 DEF Mkstemp
  <2>3. temps' \in [Procs -> File \cup {None}] /\ buf' \in [Procs -> 0..Whole]
    <3>1. \/ UNCHANGED <<temps, buf>>
          \/ temps' = [temps EXCEPT ![p] = New(p, 0)] /\ buf' = [buf EXCEPT ![p] = 0]
      BY <1>7 DEF Mkstemp
    <3> QED BY <2>1, <3>1
  <2>4. UNCHANGED <<tmpfile, final, seen, got>>
    BY <1>7 DEF Mkstemp
  <2> QED BY <2>2, <2>3, <2>4
<1>8. ASSUME NEW p \in Procs, Rewrite(p) PROVE TypeOK'
  <2>1. buf[p] < Whole => buf[p] + 1 \in 0..Whole /\ New(p, buf[p] + 1) \in File
    BY CopyAssumption, NewIsFile
  <2>2. pc' \in [Procs -> PCs]
    BY <1>8 DEF Rewrite
  <2>3. temps' \in [Procs -> File \cup {None}] /\ buf' \in [Procs -> 0..Whole]
    <3>1. \/ UNCHANGED <<temps, buf>>
          \/ /\ buf[p] < Whole
             /\ temps' = [temps EXCEPT ![p] = New(p, buf[p] + 1)]
             /\ buf' = [buf EXCEPT ![p] = buf[p] + 1]
      BY <1>8 DEF Rewrite
    <3> QED BY <2>1, <3>1
  <2>4. UNCHANGED <<tmpfile, final, seen, got>>
    BY <1>8 DEF Rewrite
  <2> QED BY <2>2, <2>3, <2>4
<1>9. ASSUME NEW p \in Procs, Rename(p) PROVE TypeOK'
  <2>1. temps[p] \in File
    BY <1>9 DEF Rename, Written
  <2>2. pc' \in [Procs -> PCs]
    BY <1>9 DEF Rename
  <2>3. final' \in File \cup {None}
    BY <2>1, <1>9 DEF Rename
  <2>4. temps' \in [Procs -> File \cup {None}]
    BY <1>9 DEF Rename
  <2>5. UNCHANGED <<tmpfile, buf, seen, got>>
    BY <1>9 DEF Rename
  <2> QED BY <2>2, <2>3, <2>4, <2>5
<1>10. ASSUME NEW p \in Procs, Dlopen(p) PROVE TypeOK'
  BY <1>10 DEF Dlopen
<1>11. ASSUME NEW p \in Procs, Crash(p) PROVE TypeOK'
  BY <1>11 DEF Crash
<1>12. CASE DayPasses
  BY <1>12, AgedIsFile DEF DayPasses
<1>13. CASE UNCHANGED vars
  BY <1>13 DEF vars
<1> QED BY <1>1, <1>2, <1>3, <1>4, <1>5, <1>6, <1>7, <1>8, <1>9, <1>10, <1>11, <1>12, <1>13
         DEF Next, Step

\* What a process has written where it stands, whatever step is taken.
LEMMA NextWritten == TypeOK /\ Written /\ [Next]_vars => Written'
<1> SUFFICES ASSUME TypeOK, Written, [Next]_vars PROVE Written'
  OBVIOUS
<1> USE CopyAssumption, NoFile, NewIsFile, AgedIsFile DEF TypeOK, PCs, Goto, Written
<1>1. ASSUME NEW p \in Procs, SweepLooks(p) PROVE Written'
  BY <1>1 DEF SweepLooks
<1>2. ASSUME NEW p \in Procs, SweepRemoves(p) PROVE Written'
  <2>1. \A q \in Procs : pc'[q] \in {"link", "rewrite", "rename"} => pc[q] = pc'[q]
    BY <1>2 DEF SweepRemoves
  <2>2. \A q \in Procs : temps'[q] = IF temps[q] # None /\ temps[q].old THEN None ELSE temps[q]
    BY <1>2 DEF SweepRemoves
  <2>3. \A q \in Procs : temps'[q] # None => temps'[q] = temps[q] /\ ~temps[q].old
    BY <2>2, Zenon
  <2>4. ASSUME NEW q \in Procs, pc[q] \in {"link", "rewrite", "rename"}
        PROVE  temps'[q] = temps[q]
    <3>1. temps[q] = None \/ ~temps[q].old
      BY <2>4
    <3> QED BY <2>2, <3>1, Zenon
  <2>5. \A q \in Procs : buf'[q] = buf[q]
    BY <1>2 DEF SweepRemoves
  <2>6. ASSUME NEW q \in Procs
        PROVE  /\ temps'[q] # None /\ temps'[q].old => pc'[q] \in {"failed", "crashed"}
               /\ pc'[q] = "link" => buf'[q] = Whole
               /\ pc'[q] = "rewrite" => temps'[q] # None /\ temps'[q].len = buf'[q]
               /\ pc'[q] = "rename" => temps'[q] # None /\ temps'[q].len = Whole
    <3>1. temps'[q] # None /\ temps'[q].old => pc'[q] \in {"failed", "crashed"}
      BY <2>3, Zenon
    <3>2. pc'[q] = "link" => buf'[q] = Whole
      BY <2>1, <2>5
    <3>3. pc'[q] = "rewrite" => temps'[q] # None /\ temps'[q].len = buf'[q]
      BY <2>1, <2>4, <2>5
    <3>4. pc'[q] = "rename" => temps'[q] # None /\ temps'[q].len = Whole
      BY <2>1, <2>4
    <3> QED BY <3>1, <3>2, <3>3, <3>4
  <2> QED BY <2>6
<1>3. ASSUME NEW p \in Procs, Unlink(p) PROVE Written'
  BY <1>3 DEF Unlink
<1>4. ASSUME NEW p \in Procs, OpenTmpfile(p) PROVE Written'
  BY <1>4 DEF OpenTmpfile
<1>5. ASSUME NEW p \in Procs, Write(p) PROVE Written'
  <2>1. temps' = temps /\ \A q \in Procs : q # p => pc'[q] = pc[q] /\ buf'[q] = buf[q]
    BY <1>5 DEF Write
  <2>2. pc[p] = "write" /\ pc'[p] \in {"write", "mkstemp", "link"}
    BY <1>5 DEF Write
  <2>3. pc'[p] = "link" => buf'[p] = Whole
    BY <1>5 DEF Write
  <2> QED BY <2>1, <2>2, <2>3
<1>6. ASSUME NEW p \in Procs, Link(p) PROVE Written'
  BY <1>6 DEF Link
<1>7. ASSUME NEW p \in Procs, Mkstemp(p) PROVE Written'
  <2>1. \A q \in Procs : q # p => /\ pc'[q] = pc[q] /\ buf'[q] = buf[q]
                                 /\ temps'[q] = temps[q]
    BY <1>7 DEF Mkstemp
  <2>2. 0 \in 0..Whole /\ New(p, 0) # None /\ New(p, 0).len = 0 /\ ~New(p, 0).old
    OBVIOUS
  <2>3. CASE temps' = [temps EXCEPT ![p] = New(p, 0)] /\ buf' = [buf EXCEPT ![p] = 0]
             /\ Goto(p, "rewrite")
    <3>1. temps'[p] = New(p, 0) /\ buf'[p] = 0 /\ pc'[p] = "rewrite"
      BY <2>3
    <3>2. ASSUME NEW q \in Procs
          PROVE  /\ temps'[q] # None /\ temps'[q].old => pc'[q] \in {"failed", "crashed"}
                 /\ pc'[q] = "link" => buf'[q] = Whole
                 /\ pc'[q] = "rewrite" => temps'[q] # None /\ temps'[q].len = buf'[q]
                 /\ pc'[q] = "rename" => temps'[q] # None /\ temps'[q].len = Whole
      <4>1. CASE q = p
        <5>1. temps'[q] # None /\ temps'[q].len = 0 /\ ~temps'[q].old
          BY <2>2, <3>1, <4>1, Zenon
        <5>2. pc'[q] = "rewrite" /\ buf'[q] = 0
          BY <3>1, <4>1
        <5>3. pc'[q] # "link" /\ pc'[q] # "rename"
          BY <5>2
        <5>4. temps'[q] # None /\ temps'[q].old => pc'[q] \in {"failed", "crashed"}
          BY <5>1, Zenon
        <5>5. pc'[q] = "rewrite" => temps'[q] # None /\ temps'[q].len = buf'[q]
          BY <5>1, <5>2
        <5> QED BY <5>3, <5>4, <5>5, Zenon
      <4>2. CASE q # p
        <5>1. pc'[q] = pc[q] /\ buf'[q] = buf[q] /\ temps'[q] = temps[q]
          BY <2>1, <4>2
        <5>2. temps[q] # None /\ temps[q].old => pc[q] \in {"failed", "crashed"}
          BY Zenon DEF Written
        <5>3. /\ pc[q] = "link" => buf[q] = Whole
              /\ pc[q] = "rewrite" => temps[q] # None /\ temps[q].len = buf[q]
              /\ pc[q] = "rename" => temps[q] # None /\ temps[q].len = Whole
          BY Zenon DEF Written
        <5>4. temps'[q] # None /\ temps'[q].old => pc'[q] \in {"failed", "crashed"}
          BY <5>1, <5>2, Zenon
        <5>5. /\ pc'[q] = "link" => buf'[q] = Whole
              /\ pc'[q] = "rewrite" => temps'[q] # None /\ temps'[q].len = buf'[q]
              /\ pc'[q] = "rename" => temps'[q] # None /\ temps'[q].len = Whole
          BY <5>1, <5>3, Zenon
        <5> QED BY <5>4, <5>5, Zenon
      <4> QED BY <4>1, <4>2
    <3> QED BY <3>2
  <2>4. CASE Goto(p, "failed") /\ UNCHANGED <<temps, buf>>
    BY <2>4
  <2> QED BY <1>7, <2>3, <2>4 DEF Mkstemp
<1>8. ASSUME NEW p \in Procs, Rewrite(p) PROVE Written'
  <2>1. buf[p] < Whole => /\ buf[p] + 1 \in 0..Whole
                          /\ New(p, buf[p] + 1) \in File
                          /\ New(p, buf[p] + 1).len = buf[p] + 1
                          /\ ~New(p, buf[p] + 1).old
    OBVIOUS
  <2>2. CASE buf[p] < Whole /\ UNCHANGED pc
    BY <1>8, <2>1, <2>2, NoFile DEF Rewrite
  <2>3. CASE UNCHANGED <<buf, temps>>
    BY <1>8, <2>3 DEF Rewrite
  <2> QED BY <1>8, <2>2, <2>3 DEF Rewrite
<1>9. ASSUME NEW p \in Procs, Rename(p) PROVE Written'
  BY <1>9 DEF Rename
<1>10. ASSUME NEW p \in Procs, Dlopen(p) PROVE Written'
  BY <1>10 DEF Dlopen
<1>11. ASSUME NEW p \in Procs, Crash(p) PROVE Written'
  BY <1>11 DEF Crash
<1>12. CASE DayPasses
  BY <1>12 DEF DayPasses
<1>13. CASE UNCHANGED vars
  BY <1>13 DEF vars
<1> QED BY <1>1, <1>2, <1>3, <1>4, <1>5, <1>6, <1>7, <1>8, <1>9, <1>10, <1>11, <1>12, <1>13
         DEF Next, Step

\* No step puts a part of a copy under the name: what is linked or renamed is
\* whole.
LEMMA NextNeverTorn == TypeOK /\ Written /\ NeverTorn /\ [Next]_vars => NeverTorn'
<1> SUFFICES ASSUME TypeOK, Written, NeverTorn, [Next]_vars PROVE NeverTorn'
  OBVIOUS
<1> USE CopyAssumption, NoFile, NewIsFile, AgedIsFile DEF TypeOK, PCs, Goto, Written, NeverTorn
<1>1. ASSUME NEW p \in Procs, SweepLooks(p) PROVE NeverTorn'
  BY <1>1 DEF SweepLooks
<1>2. ASSUME NEW p \in Procs, SweepRemoves(p) PROVE NeverTorn'
  BY <1>2 DEF SweepRemoves
<1>3. ASSUME NEW p \in Procs, Unlink(p) PROVE NeverTorn'
  BY <1>3 DEF Unlink
<1>4. ASSUME NEW p \in Procs, OpenTmpfile(p) PROVE NeverTorn'
  BY <1>4 DEF OpenTmpfile
<1>5. ASSUME NEW p \in Procs, Write(p) PROVE NeverTorn'
  BY <1>5 DEF Write
<1>6. ASSUME NEW p \in Procs, Link(p) PROVE NeverTorn'
  BY <1>6 DEF Link
<1>7. ASSUME NEW p \in Procs, Mkstemp(p) PROVE NeverTorn'
  BY <1>7 DEF Mkstemp
<1>8. ASSUME NEW p \in Procs, Rewrite(p) PROVE NeverTorn'
  BY <1>8 DEF Rewrite
<1>9. ASSUME NEW p \in Procs, Rename(p) PROVE NeverTorn'
  BY <1>9 DEF Rename
<1>10. ASSUME NEW p \in Procs, Dlopen(p) PROVE NeverTorn'
  BY <1>10 DEF Dlopen
<1>11. ASSUME NEW p \in Procs, Crash(p) PROVE NeverTorn'
  BY <1>11 DEF Crash
<1>12. CASE DayPasses
  BY <1>12 DEF DayPasses
<1>13. CASE UNCHANGED vars
  BY <1>13 DEF vars
<1> QED BY <1>1, <1>2, <1>3, <1>4, <1>5, <1>6, <1>7, <1>8, <1>9, <1>10, <1>11, <1>12, <1>13
         DEF Next, Step

\* A step leaves only unfinished files: who is about to give a file a name of
\* its own has none yet, and who gives up was short of the whole of it.
LEMMA NextUnfinished ==
  TypeOK /\ Written /\ OnlyUnfinishedRemain /\ [Next]_vars => OnlyUnfinishedRemain'
<1> SUFFICES ASSUME TypeOK, Written, OnlyUnfinishedRemain, [Next]_vars
             PROVE  OnlyUnfinishedRemain'
  OBVIOUS
<1> USE CopyAssumption, NoFile, NewIsFile, AgedIsFile
    DEF TypeOK, PCs, Goto, Written, OnlyUnfinishedRemain
<1>1. ASSUME NEW p \in Procs, SweepLooks(p) PROVE OnlyUnfinishedRemain'
  BY <1>1 DEF SweepLooks
<1>2. ASSUME NEW p \in Procs, SweepRemoves(p) PROVE OnlyUnfinishedRemain'
  BY <1>2 DEF SweepRemoves
<1>3. ASSUME NEW p \in Procs, Unlink(p) PROVE OnlyUnfinishedRemain'
  BY <1>3 DEF Unlink
<1>4. ASSUME NEW p \in Procs, OpenTmpfile(p) PROVE OnlyUnfinishedRemain'
  BY <1>4 DEF OpenTmpfile
<1>5. ASSUME NEW p \in Procs, Write(p) PROVE OnlyUnfinishedRemain'
  BY <1>5 DEF Write
<1>6. ASSUME NEW p \in Procs, Link(p) PROVE OnlyUnfinishedRemain'
  <2>1. pc[p] = "link" /\ temps' = temps
    BY <1>6 DEF Link
  <2>2. \A q \in Procs : q # p => pc'[q] = pc[q]
    <3>1. (\E l \in PCs : pc' = [pc EXCEPT ![p] = l])
      BY <1>6, Zenon DEF Link
    <3> QED BY <3>1
  <2>3. temps[p] = None
    BY <2>1
  <2> QED BY <2>1, <2>2, <2>3, Zenon
<1>7. ASSUME NEW p \in Procs, Mkstemp(p) PROVE OnlyUnfinishedRemain'
  <2>1. \A q \in Procs : q # p => pc'[q] = pc[q] /\ temps'[q] = temps[q]
    BY <1>7 DEF Mkstemp
  <2>2. temps[p] = None
    BY <1>7 DEF Mkstemp
  <2>3. temps'[p] = None \/ pc'[p] = "rewrite"
    BY <1>7, <2>2 DEF Mkstemp
  <2> SUFFICES ASSUME NEW q \in Procs, temps'[q] # None
               PROVE  \/ pc'[q] \in {"rewrite", "rename", "crashed"}
                      \/ pc'[q] = "failed" /\ temps'[q].len < Whole
    OBVIOUS
  <2>4. CASE q = p
    BY <2>3, <2>4
  <2>5. CASE q # p
    BY <2>1, <2>5, Zenon
  <2> QED BY <2>4, <2>5
<1>8. ASSUME NEW p \in Procs, Rewrite(p) PROVE OnlyUnfinishedRemain'
  BY <1>8 DEF Rewrite
<1>9. ASSUME NEW p \in Procs, Rename(p) PROVE OnlyUnfinishedRemain'
  BY <1>9 DEF Rename
<1>10. ASSUME NEW p \in Procs, Dlopen(p) PROVE OnlyUnfinishedRemain'
  BY <1>10 DEF Dlopen
<1>11. ASSUME NEW p \in Procs, Crash(p) PROVE OnlyUnfinishedRemain'
  BY <1>11 DEF Crash
<1>12. CASE DayPasses
  <2> SUFFICES ASSUME NEW q \in Procs, temps'[q] # None
               PROVE  \/ pc[q] = "crashed"
                      \/ pc[q] = "failed" /\ temps'[q].len < Whole
    BY <1>12 DEF DayPasses
  <2>1. temps[q] # None /\ temps'[q] = Aged(temps[q], TRUE) /\ pc[q] \in {"failed", "crashed"}
    BY <1>12 DEF DayPasses
  <2>2. temps'[q].len = temps[q].len
    <3>1. temps[q] \in File
      BY <2>1
    <3>2. Aged(temps[q], TRUE).len = temps[q].len
      BY ONLY <3>1, AgedIsFile
    <3> QED BY <2>1, <3>2, Zenon
  <2>3. pc[q] = "crashed" \/ (pc[q] = "failed" /\ temps[q].len < Whole)
    BY <2>1
  <2> QED BY <2>2, <2>3, Zenon
<1>13. CASE UNCHANGED vars
  BY <1>13 DEF vars
<1> QED BY <1>1, <1>2, <1>3, <1>4, <1>5, <1>6, <1>7, <1>8, <1>9, <1>10, <1>11, <1>12, <1>13
         DEF Next, Step

-----------------------------------------------------------------------------
\* The three are inductive together.
LEMMA Inductive == Spec => [](TypeOK /\ Written /\ NeverTorn)
<1>1. TypeOK /\ Written /\ NeverTorn /\ [Next]_vars => (TypeOK /\ Written /\ NeverTorn)'
  BY NextType, NextWritten, NextNeverTorn
<1> QED BY <1>1, InitInv, PTL DEF Spec

\* No write of a copy goes past its end.
THEOREM TypeCorrect == Spec => []TypeOK
BY Inductive, PTL

\* No process ever loads a torn copy.
THEOREM CopiesAreWhole == Spec => []NeverTorn
BY Inductive, PTL

\* Whatever is killed or falls short, the only files that stay under a name of
\* their own are those of writers that were killed or ran out of space.
THEOREM LittleRemains == Spec => []OnlyUnfinishedRemain
<1>1. Init => OnlyUnfinishedRemain
  BY DEF Init, OnlyUnfinishedRemain
<1> QED BY <1>1, NextUnfinished, Inductive, PTL DEF Spec
=============================================================================
