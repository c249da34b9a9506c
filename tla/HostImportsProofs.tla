------------------------- MODULE HostImportsProofs -------------------------
(***************************************************************************)
(* What TLAPS proves of the imports of a rewritten object.  Of             *)
(* VersionCompat, for any number of threads, names, versions and faults:   *)
(* the type with the bound on nested calls, that in a trustworthy process  *)
(* every call reaches the default definition, and that what a slot holds   *)
(* never changes.  Of ElfRewrite, for files and renames of any size: that  *)
(* a rename changes the names it is to change and no others.               *)
(***************************************************************************)
EXTENDS HostImports, SequenceTheorems, InductionLemmas, TLAPS

\* The thread-local flag is set while a call of the thread is at the lookup of
\* a version, and only then; a second call is nested in such a lookup.
FlagInv ==
  \A t \in Threads :
    /\ busy[t] <=> calls[t] # <<>> /\ calls[t][1].pc = "version"
    /\ Len(calls[t]) = 2 => /\ calls[t][1].pc = "version" /\ calls[t][2].pc # "version"
                            /\ world.nested # None

TypeInv == TypeOK /\ FlagInv

\* The definition that every call of n goes to in a trustworthy process.
Right(n) == IF world.default[n] # None THEN world.default[n] ELSE world.obsolete[n]

RightFrame(f) ==
  /\ f.pc = "find" => f.ver = world.inFile[f.name]
  /\ f.pc \in {"store", "call"} => f.ptr = Right(f.name)

RightCalls == \A t \in Threads : calls[t] # <<>> => RightFrame(calls[t][1])

RightInv ==
  /\ faults = 0 => readable
  /\ Trustworthy =>
       /\ \A n \in Names : slot[n] \in {None, Right(n)} /\ reached[n] \subseteq {Right(n)}
       /\ RightCalls
-----------------------------------------------------------------------------
\* The places in a stack of at most two calls.
LEMMA OneOrTwo ==
  ASSUME NEW k \in Nat \ {0}, k <= 2
  PROVE  k \in {1, 2}
OBVIOUS

\* What Goto and Outer do to the sequences of at most two calls there are.
LEMMA GotoFacts ==
  ASSUME TypeOK, NEW t \in Threads, NEW pc, At(t, pc), NEW f \in Frame
  PROVE  /\ Len(calls[t]) \in {1, 2}
         /\ Top(t) \in Frame /\ Top(t).pc = pc /\ Top(t) = calls[t][Len(calls[t])]
         /\ Append(Outer(t), f) \in Seq(Frame)
         /\ Len(Append(Outer(t), f)) = Len(calls[t])
         /\ Append(Outer(t), f)[Len(calls[t])] = f
         /\ Len(calls[t]) = 2 => Append(Outer(t), f)[1] = calls[t][1]
         /\ Append(Outer(t), f) # <<>>
         /\ Outer(t) \in Seq(Frame) /\ Len(Outer(t)) = Len(calls[t]) - 1
         /\ Len(calls[t]) = 2 => Outer(t)[1] = calls[t][1] /\ Outer(t) # <<>>
         /\ Len(calls[t]) = 1 => Outer(t) = <<>>
<1> DEFINE s == calls[t]
           o == SubSeq(s, 1, Len(s) - 1)
           p == Append(o, f)
<1>1. s \in Seq(Frame) /\ Len(s) <= 2 /\ s # <<>> /\ s[Len(s)].pc = pc
  BY DEF TypeOK, At
<1> HIDE DEF s
<1>2. Len(s) \in {1, 2}
  <2>1. Len(s) \in Nat \ {0}
    BY <1>1, EmptySeq, Zenon
  <2>2. Len(s) <= 2
    BY <1>1
  <2> QED
    BY <2>1, <2>2, OneOrTwo, Zenon
<1>3. s[Len(s)] \in Frame
  BY <1>1, <1>2
<1>4. o \in Seq(Frame) /\ Len(o) = Len(s) - 1 /\ \A i \in 1..Len(s) - 1 : o[i] = s[i]
  BY <1>1, <1>2, SubSeqProperties
<1> HIDE DEF o
<1>5. p \in Seq(Frame) /\ Len(p) = Len(o) + 1 /\ p[Len(o) + 1] = f /\ \A i \in 1..Len(o) : p[i] = o[i]
  BY <1>4
<1>6. p # <<>>
  BY <1>4, <1>5, EmptySeq
<1>7. Len(s) = 2 => o[1] = s[1] /\ o # <<>> /\ p[1] = s[1]
  BY <1>4, <1>5, EmptySeq
<1>8. Len(s) = 1 => o = <<>>
  BY <1>4, EmptySeq
<1>9. Len(p) = Len(s) /\ p[Len(s)] = f
  BY <1>2, <1>4, <1>5
<1>10. Top(t) = s[Len(s)] /\ Outer(t) = o
  BY DEF Top, Outer, s, o
<1> HIDE DEF p
<1>11. Append(Outer(t), f) = p
  BY <1>10 DEF p
<1> QED
  BY <1>1, <1>2, <1>3, <1>4, <1>5, <1>6, <1>7, <1>8, <1>9, <1>10, <1>11 DEF s

\* A new call on top of at most one.
LEMMA PushFacts ==
  ASSUME NEW s \in Seq(Frame), NEW f \in Frame
  PROVE  /\ Append(s, f) \in Seq(Frame) /\ Len(Append(s, f)) = Len(s) + 1
         /\ Append(s, f)[Len(s) + 1] = f /\ Append(s, f) # <<>>
         /\ \A i \in 1..Len(s) : Append(s, f)[i] = s[i]
BY AppendProperties

\* A step of thread t that replaces its call by frame f keeps the type of the
\* calls and the flag, when f and the flag agree.
LEMMA GotoKeeps ==
  ASSUME TypeInv, NEW t \in Threads, NEW pc, At(t, pc), NEW f \in Frame, Goto(t, f),
         NEW b \in BOOLEAN, busy' = [busy EXCEPT ![t] = b], world' = world,
         IF Len(calls[t]) = 1 THEN b <=> f.pc = "version"
         ELSE b /\ f.pc # "version"
  PROVE  /\ calls' \in [Threads -> Seq(Frame)] /\ \A u \in Threads : Len(calls'[u]) <= 2
         /\ busy' \in [Threads -> BOOLEAN]
         /\ FlagInv'
<1> DEFINE s == Append(Outer(t), f)
<1>1. calls \in [Threads -> Seq(Frame)] /\ busy \in [Threads -> BOOLEAN]
      /\ \A u \in Threads : Len(calls[u]) <= 2
  BY DEF TypeInv, TypeOK
<1>2. /\ Len(calls[t]) \in {1, 2} /\ s \in Seq(Frame) /\ Len(s) = Len(calls[t]) /\ s # <<>>
      /\ s[Len(calls[t])] = f /\ (Len(calls[t]) = 2 => s[1] = calls[t][1])
  BY GotoFacts DEF TypeInv
<1>3. calls' = [calls EXCEPT ![t] = s]
  BY DEF Goto
<1> HIDE DEF s
<1>4. calls' \in [Threads -> Seq(Frame)] /\ \A u \in Threads : Len(calls'[u]) <= 2
  BY <1>1, <1>2, <1>3
<1>5. busy' \in [Threads -> BOOLEAN]
  BY <1>1
<1>6. ASSUME NEW u \in Threads
      PROVE  /\ busy'[u] <=> calls'[u] # <<>> /\ calls'[u][1].pc = "version"
             /\ Len(calls'[u]) = 2 => /\ calls'[u][1].pc = "version" /\ calls'[u][2].pc # "version"
                                      /\ world'.nested # None
  <2>1. CASE u # t
    <3>1. calls'[u] = calls[u] /\ busy'[u] = busy[u]
      BY <1>1, <1>3, <2>1
    <3> QED
      BY <3>1 DEF TypeInv, FlagInv
  <2>2. CASE u = t /\ Len(calls[t]) = 1
    <3>1. calls'[t] = s /\ busy'[t] = b
      BY <1>1, <1>3
    <3>2. Len(s) = 1 /\ s[1] = f /\ s # <<>> /\ (b <=> f.pc = "version")
      BY <1>2, <2>2
    <3> QED
      BY <3>1, <3>2, <2>2
  <2>3. CASE u = t /\ Len(calls[t]) = 2
    <3>1. calls'[t] = s /\ busy'[t] = b
      BY <1>1, <1>3
    <3>2. s[1] = calls[t][1] /\ s[2] = f /\ s # <<>> /\ b /\ f.pc # "version"
      BY <1>2, <2>3
    <3>3. calls[t][1].pc = "version" /\ world.nested # None
      BY <2>3 DEF TypeInv, FlagInv
    <3> QED
      BY <3>1, <3>2, <3>3, <2>3
  <2> QED
    BY <1>2, <2>1, <2>2, <2>3
<1> QED
  BY <1>4, <1>5, <1>6 DEF FlagInv
\* Where the flag is when a thread is somewhere.
LEMMA FlagAt ==
  ASSUME TypeInv, NEW t \in Threads, NEW pc, At(t, pc)
  PROVE  /\ Top(t) \in Frame /\ Top(t).pc = pc /\ Top(t).name \in Names
         /\ Len(calls[t]) \in {1, 2} /\ Top(t) = calls[t][Len(calls[t])]
         /\ Len(calls[t]) = 1 => (busy[t] <=> pc = "version")
         /\ Len(calls[t]) = 2 => busy[t] /\ pc # "version" /\ world.nested # None
<1>1. Frame # {} => Top(t) \in Frame /\ Top(t).pc = pc
                    /\ Len(calls[t]) \in {1, 2} /\ Top(t) = calls[t][Len(calls[t])]
  BY GotoFacts DEF TypeInv
<1>2. calls[t] \in Seq(Frame) /\ calls[t] # <<>>
  BY DEF TypeInv, TypeOK, At
<1>3. Frame # {}
  BY <1>2
<1>4. Top(t).name \in Names
  BY <1>1, <1>3 DEF Frame
<1>5. Len(calls[t]) = 1 => (busy[t] <=> pc = "version")
  BY <1>1, <1>2, <1>3, Zenon DEF TypeInv, FlagInv
<1>6. Len(calls[t]) = 2 => busy[t] /\ pc # "version" /\ world.nested # None
  BY <1>1, <1>2, <1>3, Zenon DEF TypeInv, FlagInv
<1> QED
  BY <1>1, <1>3, <1>4, <1>5, <1>6
-----------------------------------------------------------------------------
\* What a step makes of the record of a call.
LEMMA FrameUpdates ==
  ASSUME NEW g \in Frame, NEW d \in Defined
  PROVE  /\ [g EXCEPT !.pc = "resolve", !.ptr = d] \in Frame
         /\ [g EXCEPT !.pc = "resolve", !.ptr = d].pc = "resolve"
         /\ d # None => /\ [g EXCEPT !.pc = "call", !.ptr = d] \in Frame
                         /\ [g EXCEPT !.pc = "call", !.ptr = d].pc = "call"
                         /\ [g EXCEPT !.pc = "store", !.ptr = d] \in Frame
                         /\ [g EXCEPT !.pc = "store", !.ptr = d].pc = "store"
         /\ [g EXCEPT !.pc = "find", !.ver = d] \in Frame
         /\ [g EXCEPT !.pc = "find", !.ver = d].pc = "find"
BY DEF Frame

\* What dlsym picks is a definition of the name, or none.
LEMMA DlsymDefined ==
  ASSUME world \in World, NEW n \in Names
  PROVE  Dlsym(n) \in Versions
BY DEF World, Dlsym, Defined

\* The initial state has the types, and no thread is in a call.
LEMMA InitTypeInv == Init => TypeInv
<1> SUFFICES ASSUME Init PROVE TypeInv
  OBVIOUS
<1>1. calls \in [Threads -> Seq(Frame)] /\ \A t \in Threads : Len(calls[t]) <= 2
  BY DEF Init
<1>2. world \in World
  BY WorldsAssumption DEF Init
<1>3. slot \in [Names -> Defined] /\ reached \in [Names -> SUBSET Versions]
  BY DEF Init, Defined
<1>4. busy \in [Threads -> BOOLEAN] /\ readable \in BOOLEAN /\ died \in BOOLEAN
  BY DEF Init
<1>5. faults \in 0..MaxFaults
  BY FaultsAssumption DEF Init
<1>6. TypeOK
  BY <1>1, <1>2, <1>3, <1>4, <1>5, Zenon DEF TypeOK
<1>7. ASSUME NEW t \in Threads PROVE calls[t] = <<>> /\ ~busy[t] /\ Len(calls[t]) # 2
  BY DEF Init
<1>8. FlagInv
  BY <1>7, Zenon DEF FlagInv
<1> QED
  BY <1>6, <1>8 DEF TypeInv

\* The steps that move a thread's call on.
LEMMA MoveTypeInv ==
  ASSUME TypeInv, NEW t \in Threads,
         LoadSlot(t) \/ EnterResolve(t) \/ ReadVersion(t) \/ Find(t) \/ StoreSlot(t)
  PROVE  TypeInv'
<1>0. /\ world \in World /\ readable \in BOOLEAN /\ faults \in 0..MaxFaults /\ died \in BOOLEAN
      /\ slot \in [Names -> Defined] /\ busy \in [Threads -> BOOLEAN]
      /\ reached \in [Names -> SUBSET Versions]
  BY DEF TypeInv, TypeOK
<1> DEFINE Moves(f, b) ==
      /\ f \in Frame /\ Goto(t, f) /\ b \in BOOLEAN /\ busy' = [busy EXCEPT ![t] = b]
      /\ IF Len(calls[t]) = 1 THEN b <=> f.pc = "version" ELSE b /\ f.pc # "version"
      /\ UNCHANGED <<world, readable, faults, reached, died>>
      /\ slot' \in [Names -> Defined]
<1>1. ASSUME NEW pc, At(t, pc), NEW f, NEW b, Moves(f, b) PROVE TypeInv'
  <2>1. /\ calls' \in [Threads -> Seq(Frame)] /\ \A u \in Threads : Len(calls'[u]) <= 2
        /\ busy' \in [Threads -> BOOLEAN] /\ FlagInv'
    BY <1>1, GotoKeeps
  <2> QED
    BY <1>0, <1>1, <2>1 DEF TypeInv, TypeOK
<1>2. CASE LoadSlot(t)
  <2> DEFINE p == slot[Top(t).name]
             f == [Top(t) EXCEPT !.pc = IF p = None THEN "resolve" ELSE "call", !.ptr = p]
  <2>1. At(t, "load") /\ Goto(t, f)
        /\ UNCHANGED <<world, readable, faults, slot, busy, reached, died>>
    BY <1>2 DEF LoadSlot
  <2>a. Top(t) \in Frame /\ p \in Defined
    BY <1>0, <2>1, FlagAt
  <2>2. f \in Frame /\ f.pc # "version"
    <3>1. CASE p = None
      BY <2>a, <3>1, FrameUpdates
    <3>2. CASE p # None
      BY <2>a, <3>2, FrameUpdates
    <3> QED
      BY <3>1, <3>2
  <2>3. Moves(f, busy[t])
    BY <1>0, <2>1, <2>2, FlagAt
  <2> QED
    BY <1>1, <2>1, <2>3
<1>3. CASE EnterResolve(t)
  <2>0. At(t, "resolve") /\ UNCHANGED <<world, readable, faults, slot, reached, died>>
    BY <1>3 DEF EnterResolve
  <2>1. CASE busy[t]
    <3> DEFINE f == [Top(t) EXCEPT !.pc = "find"]
    <3>1. Goto(t, f) /\ UNCHANGED busy
      BY <1>3, <2>1 DEF EnterResolve
    <3>2. f \in Frame /\ f.pc = "find"
      BY <2>0, FlagAt DEF Frame
    <3>3. Moves(f, busy[t])
      BY <1>0, <2>0, <2>1, <3>1, <3>2, FlagAt
    <3> QED
      BY <1>1, <2>0, <3>3
  <2>2. CASE ~busy[t]
    <3> DEFINE f == [Top(t) EXCEPT !.pc = "version"]
    <3>1. Goto(t, f) /\ busy' = [busy EXCEPT ![t] = TRUE]
      BY <1>3, <2>2 DEF EnterResolve
    <3>2. f \in Frame /\ f.pc = "version"
      BY <2>0, FlagAt DEF Frame
    <3>3. Moves(f, TRUE)
      BY <1>0, <2>0, <2>2, <3>1, <3>2, FlagAt
    <3> QED
      BY <1>1, <2>0, <3>3
  <2> QED
    BY <2>1, <2>2
<1>4. CASE ReadVersion(t)
  <2> DEFINE f == [Top(t) EXCEPT !.pc = "find", !.ver = DefaultVersion(Top(t).name)]
  <2>1. /\ At(t, "version") /\ Goto(t, f) /\ busy' = [busy EXCEPT ![t] = FALSE]
        /\ UNCHANGED <<world, readable, faults, slot, reached, died>>
    BY <1>4 DEF ReadVersion
  <2>2. DefaultVersion(Top(t).name) \in Defined
    BY <1>0, <2>1, FlagAt DEF DefaultVersion, World, Defined
  <2>a. Top(t) \in Frame
    BY <2>1, FlagAt
  <2>3. f \in Frame /\ f.pc = "find"
    BY <2>a, <2>2, FrameUpdates, Zenon
  <2>4. Moves(f, FALSE)
    BY <1>0, <2>1, <2>3, FlagAt
  <2> QED
    BY <1>1, <2>1, <2>4
<1>5. CASE Find(t)
  <2>0. At(t, "find") /\ UNCHANGED <<world, readable, faults, slot, busy, reached>>
    BY <1>5 DEF Find
  <2>1. Found(Top(t)) \in Versions
    BY <1>0, <2>0, FlagAt, DlsymDefined DEF Found, Dlvsym, World, Defined
  <2> DEFINE f == [Top(t) EXCEPT !.pc = "store", !.ptr = Found(Top(t))]
  <2>2. Goto(t, f) /\ UNCHANGED died
    BY <1>5, <2>1, NoneAssumption DEF Find
  <2>a. Top(t) \in Frame /\ Found(Top(t)) \in Defined /\ Found(Top(t)) # None
    BY <2>0, <2>1, FlagAt, NoneAssumption DEF Defined
  <2>3. f \in Frame /\ f.pc = "store"
    BY <2>a, FrameUpdates, Zenon
  <2>4. Moves(f, busy[t])
    BY <1>0, <2>0, <2>2, <2>3, FlagAt
  <2> QED
    BY <1>1, <2>0, <2>4
<1>6. CASE StoreSlot(t)
  <2> DEFINE f == [Top(t) EXCEPT !.pc = "call"]
  <2>1. /\ At(t, "store") /\ Goto(t, f) /\ slot' = [slot EXCEPT ![Top(t).name] = Top(t).ptr]
        /\ UNCHANGED <<world, readable, faults, busy, reached, died>>
    BY <1>6 DEF StoreSlot
  <2>2. f \in Frame /\ f.pc = "call" /\ Top(t).ptr \in Defined
    BY <2>1, FlagAt DEF Frame
  <2>3. Moves(f, busy[t])
    BY <1>0, <2>1, <2>2, FlagAt
  <2> QED
    BY <1>1, <2>1, <2>3
<1> QED
  BY <1>2, <1>3, <1>4, <1>5, <1>6
\* Another thread's calls and flag, and what is said of them, are left alone.
LEMMA OthersKeep ==
  ASSUME TypeInv, NEW t \in Threads, NEW s \in Seq(Frame), Len(s) <= 2,
         calls' = [calls EXCEPT ![t] = s], UNCHANGED <<world, busy>>,
         busy[t] <=> s # <<>> /\ s[1].pc = "version",
         Len(s) = 2 => s[1].pc = "version" /\ s[2].pc # "version" /\ world.nested # None
  PROVE  /\ calls' \in [Threads -> Seq(Frame)] /\ \A u \in Threads : Len(calls'[u]) <= 2
         /\ FlagInv'
<1>0. calls \in [Threads -> Seq(Frame)] /\ \A u \in Threads : Len(calls[u]) <= 2
  BY DEF TypeInv, TypeOK
<1>1. calls'[t] = s /\ \A u \in Threads \ {t} : calls'[u] = calls[u]
  BY <1>0
<1>2. calls' \in [Threads -> Seq(Frame)] /\ \A u \in Threads : Len(calls'[u]) <= 2
  BY <1>0, <1>1
<1>3. ASSUME NEW u \in Threads
      PROVE  /\ busy'[u] <=> calls'[u] # <<>> /\ calls'[u][1].pc = "version"
             /\ Len(calls'[u]) = 2 => /\ calls'[u][1].pc = "version" /\ calls'[u][2].pc # "version"
                                      /\ world'.nested # None
  <2>1. CASE u = t
    BY <1>1, <2>1
  <2>2. CASE u # t
    BY <1>1, <2>2 DEF TypeInv, FlagInv
  <2> QED
    BY <2>1, <2>2
<1> QED
  BY <1>2, <1>3 DEF FlagInv

\* A call starts at the load of its slot.
LEMMA NewCallFrame ==
  ASSUME NEW n \in Names
  PROVE  NewCall(n) \in Frame /\ NewCall(n).pc = "load"
BY DEF NewCall, Frame, Defined

\* A call of the application.
LEMMA CallTypeInv ==
  ASSUME TypeInv, NEW t \in Threads, NEW n \in Names, Call(t, n)
  PROVE  TypeInv'
<1> DEFINE f == NewCall(n)
<1>1. f \in Frame /\ f.pc = "load"
  BY NewCallFrame
<1> HIDE DEF f
<1> DEFINE s == <<f>>
<1>2. s \in Seq(Frame) /\ Len(s) = 1 /\ s[1] = f /\ s # <<>>
  BY <1>1
<1>3. calls' = [calls EXCEPT ![t] = s] /\ calls[t] = <<>>
      /\ UNCHANGED <<world, readable, faults, slot, busy, reached, died>>
  BY DEF Call, f
<1>4. ~busy[t]
  BY <1>3 DEF TypeInv, FlagInv
<1> HIDE DEF s
<1>5. /\ calls' \in [Threads -> Seq(Frame)] /\ \A u \in Threads : Len(calls'[u]) <= 2
      /\ FlagInv'
  <2>1. Len(s) <= 2 /\ Len(s) # 2
    BY <1>2
  <2>2. busy[t] <=> s # <<>> /\ s[1].pc = "version"
    BY <1>1, <1>2, <1>4
  <2> QED
    BY <1>2, <1>3, <2>1, <2>2, OthersKeep
<1> QED
  BY <1>3, <1>5 DEF TypeInv, TypeOK

\* A call nested in the lookup of a version.
LEMMA NestTypeInv ==
  ASSUME TypeInv, NEW t \in Threads, Nest(t)
  PROVE  TypeInv'
<1> DEFINE g == [Top(t) EXCEPT !.nests = 1]
           f == NewCall(world.nested)
           o == Append(Outer(t), g)
           s == Append(o, f)
<1>0. At(t, "version") /\ world.nested # None /\ calls' = [calls EXCEPT ![t] = s]
      /\ UNCHANGED <<world, readable, faults, slot, busy, reached, died>>
  BY DEF Nest
<1>1. Len(calls[t]) = 1 /\ busy[t] /\ Top(t) \in Frame /\ Top(t).pc = "version"
  BY <1>0, FlagAt
<1>2. g \in Frame /\ g.pc = "version"
  BY <1>1 DEF Frame
<1>3. world.nested \in Names
  BY <1>0 DEF TypeInv, TypeOK, World
<1>4. f \in Frame /\ f.pc = "load"
  BY <1>3, NewCallFrame
<1> HIDE DEF g, f
<1>5. o \in Seq(Frame) /\ Len(o) = 1 /\ o[1] = g
  BY <1>0, <1>1, <1>2, GotoFacts DEF TypeInv
<1> HIDE DEF o
<1>6. s \in Seq(Frame) /\ Len(s) = 2 /\ s[1] = g /\ s[2] = f /\ s # <<>>
  <2>1. s \in Seq(Frame) /\ Len(s) = Len(o) + 1 /\ s[Len(o) + 1] = f /\ s # <<>>
        /\ \A i \in 1..Len(o) : s[i] = o[i]
    BY <1>4, <1>5, PushFacts
  <2> HIDE DEF s
  <2> QED
    BY <1>5, <2>1
<1> HIDE DEF s
<1>7. /\ calls' \in [Threads -> Seq(Frame)] /\ \A u \in Threads : Len(calls'[u]) <= 2
      /\ FlagInv'
  <2>1. Len(s) <= 2
    BY <1>6
  <2>2. busy[t] <=> s # <<>> /\ s[1].pc = "version"
    BY <1>1, <1>2, <1>6
  <2>3. s[2].pc # "version"
    BY <1>4, <1>6
  <2> QED
    BY <1>0, <1>2, <1>6, <2>1, <2>2, <2>3, OthersKeep
<1> QED
  BY <1>0, <1>7 DEF TypeInv, TypeOK

\* A call handed on to what was found.
LEMMA ForwardTypeInv ==
  ASSUME TypeInv, NEW t \in Threads, Forward(t)
  PROVE  TypeInv'
<1> DEFINE s == Outer(t)
<1>0. /\ At(t, "call") /\ calls' = [calls EXCEPT ![t] = s]
      /\ reached' = [reached EXCEPT ![Top(t).name] = @ \cup {Top(t).ptr}]
      /\ UNCHANGED <<world, readable, faults, slot, busy, died>>
  BY DEF Forward
<1>1. Top(t) \in Frame /\ Top(t).pc = "call" /\ Len(calls[t]) \in {1, 2}
      /\ (Len(calls[t]) = 1 => ~busy[t]) /\ (Len(calls[t]) = 2 => busy[t])
  BY <1>0, FlagAt
<1>2. Top(t).name \in Names /\ Top(t).ptr \in Versions
  BY <1>1 DEF Frame, Defined
<1>3. reached' \in [Names -> SUBSET Versions]
  BY <1>0, <1>2 DEF TypeInv, TypeOK
<1>4. /\ s \in Seq(Frame) /\ Len(s) = Len(calls[t]) - 1
      /\ Len(calls[t]) = 2 => s[1] = calls[t][1] /\ s # <<>>
      /\ Len(calls[t]) = 1 => s = <<>>
  BY <1>0, <1>1, GotoFacts DEF TypeInv
<1> HIDE DEF s
<1>5. Len(calls[t]) = 2 => calls[t][1].pc = "version"
  BY DEF TypeInv, FlagInv
<1>6. /\ calls' \in [Threads -> Seq(Frame)] /\ \A u \in Threads : Len(calls'[u]) <= 2
      /\ FlagInv'
  <2>1. Len(s) <= 2 /\ Len(s) # 2
    <3>1. CASE Len(calls[t]) = 1
      BY <1>4, <3>1
    <3>2. CASE Len(calls[t]) = 2
      BY <1>4, <3>2
    <3> QED
      BY <1>1, <3>1, <3>2
  <2>2. busy[t] <=> s # <<>> /\ s[1].pc = "version"
    BY <1>1, <1>4, <1>5
  <2> QED
    BY <1>0, <1>4, <2>1, <2>2, OthersKeep
<1> QED
  BY <1>0, <1>3, <1>6 DEF TypeInv, TypeOK

\* The file going out of reach, or coming back.
LEMMA FaultTypeInv == TypeInv /\ Fault => TypeInv'
BY FaultsAssumption DEF TypeInv, TypeOK, FlagInv, Fault

\* The type, with the flag and the bound on nesting, is inductive.
LEMMA NextTypeInv == TypeInv /\ [Next]_vars => TypeInv'
<1> SUFFICES ASSUME TypeInv, [Next]_vars PROVE TypeInv'
  OBVIOUS
<1>1. ASSUME NEW t \in Threads, Step(t) PROVE TypeInv'
  BY <1>1, MoveTypeInv, NestTypeInv, ForwardTypeInv DEF Step
<1>2. ASSUME NEW t \in Threads, NEW n \in Names, Call(t, n) PROVE TypeInv'
  BY <1>2, CallTypeInv
<1>3. CASE UNCHANGED vars
  BY <1>3 DEF vars, TypeInv, TypeOK, FlagInv
<1> QED
  BY <1>1, <1>2, <1>3, FaultTypeInv DEF Next

\* The type: no call goes through a slot that holds nothing, and no thread is
\* ever more than one call deep in the lookup of a version.
THEOREM TypeCorrect == Spec => []TypeOK
<1>1. TypeInv => TypeOK
  BY DEF TypeInv
<1> QED
  BY InitTypeInv, NextTypeInv, <1>1, PTL DEF Spec
-----------------------------------------------------------------------------
\* Every slot is empty.
LEMMA InitRightInv == Init => RightInv
<1> SUFFICES ASSUME Init PROVE RightInv
  OBVIOUS
<1>1. readable /\ \A n \in Names : slot[n] = None /\ reached[n] = {}
  BY DEF Init
<1>2. \A t \in Threads : calls[t] = <<>>
  BY DEF Init
<1> QED
  BY <1>1, <1>2 DEF RightInv, RightCalls

\* Nobody's process becomes trustworthy.
LEMMA TrustLost == TypeInv /\ Next /\ Trustworthy' => Trustworthy /\ UNCHANGED <<world, faults, readable>>
<1> SUFFICES ASSUME TypeInv, Next, Trustworthy' PROVE Trustworthy /\ UNCHANGED <<world, faults, readable>>
  OBVIOUS
<1>1. ~Fault
  BY FaultsAssumption DEF Fault, Trustworthy, TypeInv, TypeOK
<1>2. UNCHANGED <<world, faults, readable>>
  BY <1>1 DEF Next, Step, Call, LoadSlot, EnterResolve, Nest, ReadVersion, Find, StoreSlot, Forward
<1> QED
  BY <1>2 DEF Trustworthy

\* In a trustworthy process no call is nested, so a thread has one.
LEMMA OneCall ==
  ASSUME TypeInv, Trustworthy, NEW t \in Threads, NEW pc, At(t, pc)
  PROVE  /\ Len(calls[t]) = 1 /\ Top(t) = calls[t][1] /\ calls[t] # <<>>
         /\ Top(t) \in Frame /\ Top(t).pc = pc /\ Top(t).name \in Names
         /\ busy[t] <=> pc = "version"
<1>1. Len(calls[t]) = 1
  BY FlagAt DEF Trustworthy
<1>2. calls[t] # <<>>
  BY DEF At
<1> QED
  BY <1>1, <1>2, FlagAt

\* Its calls stay right when one of them moves on to a right frame.
LEMMA MoveStaysRight ==
  ASSUME TypeInv, RightInv, Trustworthy, NEW t \in Threads, NEW pc, At(t, pc), world' = world,
         NEW f \in Frame, Goto(t, f), RightFrame(f)
  PROVE  RightCalls'
<1>0. calls \in [Threads -> Seq(Frame)]
  BY DEF TypeInv, TypeOK
<1> DEFINE s == Append(Outer(t), f)
<1>1. s[1] = f
  BY OneCall, GotoFacts DEF TypeInv
<1>2. calls' = [calls EXCEPT ![t] = s]
  BY DEF Goto
<1> HIDE DEF s
<1>3. ASSUME NEW u \in Threads, calls'[u] # <<>> PROVE RightFrame(calls'[u][1])
  <2>1. calls'[u] = IF u = t THEN s ELSE calls[u]
    BY <1>0, <1>2
  <2>2. CASE u = t
    BY <1>1, <2>1, <2>2
  <2>3. CASE u # t
    BY <1>3, <2>1, <2>3 DEF RightInv, RightCalls
  <2> QED
    BY <2>2, <2>3
<1> QED
  BY <1>3 DEF RightCalls, RightFrame, Right

\* What the resolution finds is right: with the version, or by dlsym when the
\* name has no default.
LEMMA FoundRight ==
  ASSUME TypeInv, Trustworthy, NEW f \in Frame, f.ver = world.inFile[f.name]
  PROVE  Found(f) = Right(f.name)
<1>1. world \in World /\ f.name \in Names
  BY DEF TypeInv, TypeOK, Frame
<1>2. f.ver = world.default[f.name]
  BY <1>1 DEF Trustworthy
<1> QED
  BY <1>1, <1>2 DEF Found, Dlvsym, Dlsym, Right, World

\* Whatever races, a slot gets what every call finds.
LEMMA NextRightInv == TypeInv /\ RightInv /\ [Next]_vars => RightInv'
<1> SUFFICES ASSUME TypeInv, RightInv, [Next]_vars PROVE RightInv'
  OBVIOUS
<1>1. CASE UNCHANGED vars
  BY <1>1 DEF vars, RightInv, Trustworthy, RightCalls, RightFrame, Right
<1>2. CASE Next /\ ~Trustworthy'
  <2>1. faults' = 0 => readable'
    <3>1. CASE Fault
      BY <3>1, FaultsAssumption DEF Fault, TypeInv, TypeOK
    <3>2. CASE ~Fault
      <4>1. UNCHANGED <<faults, readable>>
        BY <1>2, <3>2 DEF Next, Step, Call, LoadSlot, EnterResolve, Nest, ReadVersion, Find,
                          StoreSlot, Forward
      <4> QED
        BY <4>1 DEF RightInv
    <3> QED
      BY <3>1, <3>2
  <2> QED
    BY <1>2, <2>1 DEF RightInv
<1>3. CASE Next /\ Trustworthy'
  <2>0. Trustworthy /\ UNCHANGED <<world, faults, readable>>
    BY <1>3, TrustLost
  <2>1. /\ readable /\ RightCalls
        /\ \A n \in Names : slot[n] \in {None, Right(n)} /\ reached[n] \subseteq {Right(n)}
    BY <2>0 DEF RightInv, Trustworthy
  <2>2. SUFFICES /\ RightCalls'
                 /\ \A n \in Names : slot'[n] \in {None, Right(n)} /\ reached'[n] \subseteq {Right(n)}
    BY <2>0, <2>1 DEF RightInv, Right
  <2>3. ASSUME NEW t \in Threads, NEW n \in Names, Call(t, n)
        PROVE  RightCalls' /\ UNCHANGED <<slot, reached>>
    <3>1. calls' = [calls EXCEPT ![t] = <<NewCall(n)>>] /\ UNCHANGED <<slot, reached>>
      BY <2>3 DEF Call
    <3>2. ASSUME NEW u \in Threads, calls'[u] # <<>> PROVE RightFrame(calls'[u][1])
      <4>1. calls'[u] = IF u = t THEN <<NewCall(n)>> ELSE calls[u]
        BY <3>1 DEF TypeInv, TypeOK
      <4>2. CASE u = t
        BY <4>1, <4>2 DEF RightFrame, NewCall
      <4>3. CASE u # t
        BY <2>1, <3>2, <4>1, <4>3 DEF RightCalls
      <4> QED
        BY <4>2, <4>3
    <3> QED
      BY <2>0, <3>1, <3>2 DEF RightCalls, RightFrame, Right
  <2>4. ASSUME NEW t \in Threads, LoadSlot(t)
        PROVE  RightCalls' /\ UNCHANGED <<slot, reached>>
    <3> DEFINE p == slot[Top(t).name]
               f == [Top(t) EXCEPT !.pc = IF p = None THEN "resolve" ELSE "call", !.ptr = p]
    <3>1. At(t, "load") /\ Goto(t, f) /\ UNCHANGED <<slot, reached>>
      BY <2>4 DEF LoadSlot
    <3>2. Top(t) \in Frame /\ Top(t).name \in Names
      BY <2>0, <3>1, OneCall
    <3>3. p \in Defined /\ p \in {None, Right(Top(t).name)}
      BY <2>1, <3>2 DEF TypeInv, TypeOK
    <3>4. f \in Frame /\ RightFrame(f)
      <4>1. CASE p = None
        BY <3>2, <3>3, <4>1, FrameUpdates DEF RightFrame
      <4>2. CASE p # None
        <5>1. f = [Top(t) EXCEPT !.pc = "call", !.ptr = p]
          BY <4>2
        <5>2. f \in Frame
          BY <3>2, <3>3, <4>2, <5>1, FrameUpdates
        <5>3. f.pc = "call" /\ f.ptr = p /\ f.name = Top(t).name
          BY <3>2, <5>1 DEF Frame
        <5> QED
          BY <3>3, <4>2, <5>2, <5>3 DEF RightFrame
      <4> QED
        BY <4>1, <4>2
    <3> QED
      BY <2>0, <3>1, <3>4, MoveStaysRight
  <2>5. ASSUME NEW t \in Threads, EnterResolve(t)
        PROVE  RightCalls' /\ UNCHANGED <<slot, reached>>
    <3> DEFINE f == [Top(t) EXCEPT !.pc = "version"]
    <3>1. At(t, "resolve") /\ UNCHANGED <<slot, reached>>
      BY <2>5 DEF EnterResolve
    <3>2. ~busy[t] /\ Top(t) \in Frame
      BY <2>0, <3>1, OneCall
    <3>3. Goto(t, f)
      BY <2>5, <3>2 DEF EnterResolve
    <3>4. f \in Frame /\ RightFrame(f)
      BY <3>2 DEF Frame, RightFrame
    <3> QED
      BY <2>0, <3>1, <3>3, <3>4, MoveStaysRight
  <2>6. ASSUME NEW t \in Threads, ReadVersion(t)
        PROVE  RightCalls' /\ UNCHANGED <<slot, reached>>
    <3> DEFINE v == DefaultVersion(Top(t).name)
               f == [Top(t) EXCEPT !.pc = "find", !.ver = v]
    <3>1. At(t, "version") /\ Goto(t, f) /\ UNCHANGED <<slot, reached>>
      BY <2>6 DEF ReadVersion
    <3>2. Top(t) \in Frame /\ Top(t).name \in Names
      BY <2>0, <3>1, OneCall
    <3>3. v = world.inFile[Top(t).name] /\ v \in Defined
      BY <2>1, <3>2 DEF DefaultVersion, TypeInv, TypeOK, World
    <3>4. f \in Frame /\ f.pc = "find" /\ f.ver = v /\ f.name = Top(t).name
      BY <3>2, <3>3 DEF Frame
    <3>5. RightFrame(f)
      BY <3>3, <3>4 DEF RightFrame
    <3> QED
      BY <2>0, <3>1, <3>4, <3>5, MoveStaysRight
  <2>7. ASSUME NEW t \in Threads, Find(t)
        PROVE  RightCalls' /\ UNCHANGED <<slot, reached>>
    <3> DEFINE p == Found(Top(t))
               f == [Top(t) EXCEPT !.pc = "store", !.ptr = p]
    <3>1. At(t, "find") /\ UNCHANGED <<slot, reached>>
      BY <2>7 DEF Find
    <3>2. Top(t) \in Frame /\ Top(t).name \in Names /\ Top(t) = calls[t][1] /\ calls[t] # <<>>
          /\ Top(t).pc = "find"
      BY <2>0, <3>1, OneCall
    <3>3. p = Right(Top(t).name)
      BY <2>0, <2>1, <3>2, FoundRight DEF RightCalls, RightFrame
    <3>4. p \in Defined /\ p # None
      BY <3>2, <3>3, NoneAssumption DEF Right, TypeInv, TypeOK, World
    <3>5. Goto(t, f)
      BY <2>7, <3>4 DEF Find
    <3>6. f \in Frame /\ f.pc = "store" /\ f.ptr = p /\ f.name = Top(t).name
      BY <3>2, <3>4 DEF Frame
    <3>7. RightFrame(f)
      BY <3>3, <3>6 DEF RightFrame
    <3> QED
      BY <2>0, <3>1, <3>5, <3>6, <3>7, MoveStaysRight
  <2>8. ASSUME NEW t \in Threads, StoreSlot(t)
        PROVE  /\ RightCalls' /\ UNCHANGED reached
               /\ \A n \in Names : slot'[n] \in {None, Right(n)}
    <3> DEFINE f == [Top(t) EXCEPT !.pc = "call"]
    <3>1. At(t, "store") /\ Goto(t, f) /\ UNCHANGED reached
          /\ slot' = [slot EXCEPT ![Top(t).name] = Top(t).ptr]
      BY <2>8 DEF StoreSlot
    <3>2. Top(t) \in Frame /\ Top(t).name \in Names /\ Top(t) = calls[t][1] /\ calls[t] # <<>>
          /\ Top(t).pc = "store"
      BY <2>0, <3>1, OneCall
    <3>3. Top(t).ptr = Right(Top(t).name) /\ Top(t).ptr # None
      BY <2>1, <3>2 DEF RightCalls, RightFrame, Frame
    <3>4. f \in Frame /\ f.pc = "call" /\ f.ptr = Top(t).ptr /\ f.name = Top(t).name
      BY <3>2, <3>3 DEF Frame
    <3>5. RightFrame(f)
      BY <3>3, <3>4 DEF RightFrame
    <3>6. \A n \in Names : slot'[n] \in {None, Right(n)}
      BY <2>1, <3>1, <3>3 DEF TypeInv, TypeOK
    <3> QED
      BY <2>0, <3>1, <3>4, <3>5, <3>6, MoveStaysRight
  <2>9. ASSUME NEW t \in Threads, Forward(t)
        PROVE  /\ RightCalls' /\ UNCHANGED slot
               /\ \A n \in Names : reached'[n] \subseteq {Right(n)}
    <3>1. At(t, "call") /\ calls' = [calls EXCEPT ![t] = Outer(t)] /\ UNCHANGED slot
          /\ reached' = [reached EXCEPT ![Top(t).name] = @ \cup {Top(t).ptr}]
      BY <2>9 DEF Forward
    <3>2. Top(t) \in Frame /\ Top(t).name \in Names /\ Top(t) = calls[t][1] /\ calls[t] # <<>>
          /\ Top(t).pc = "call" /\ Len(calls[t]) = 1
      BY <2>0, <3>1, OneCall
    <3>3. Top(t).ptr = Right(Top(t).name)
      BY <2>1, <3>2 DEF RightCalls, RightFrame
    <3>4. \A n \in Names : reached'[n] \subseteq {Right(n)}
      BY <2>1, <3>1, <3>3 DEF TypeInv, TypeOK
    <3>5. Outer(t) = <<>>
      BY <3>1, <3>2, GotoFacts DEF TypeInv
    <3>6. ASSUME NEW u \in Threads, calls'[u] # <<>> PROVE RightFrame(calls'[u][1])
      <4>1. calls'[u] = IF u = t THEN <<>> ELSE calls[u]
        BY <3>1, <3>5 DEF TypeInv, TypeOK
      <4> QED
        BY <2>1, <3>6, <4>1 DEF RightCalls
    <3> QED
      BY <2>0, <3>1, <3>4, <3>6 DEF RightCalls, RightFrame, Right
  <2>10. ~\E t \in Threads : Nest(t)
    BY <2>0 DEF Nest, Trustworthy
  <2>11. ~Fault
    BY <1>3, FaultsAssumption DEF Fault, Trustworthy, TypeInv, TypeOK
  <2> QED
    BY <1>3, <2>1, <2>3, <2>4, <2>5, <2>6, <2>7, <2>8, <2>9, <2>10, <2>11 DEF Next, Step
<1> QED
  BY <1>1, <1>2, <1>3

\* In a trustworthy process every call reaches the default definition, however
\* many threads resolve at once and whatever dlsym would have answered.
THEOREM DefaultsReached == Spec => []CallsReachDefault
<1>1. RightInv => CallsReachDefault
  BY DEF RightInv, CallsReachDefault, Right
<1> QED
  BY InitTypeInv, NextTypeInv, InitRightInv, NextRightInv, <1>1, PTL DEF Spec

\* And a slot once filled stays as it is, although it is filled without a lock.
THEOREM SlotsStay == Spec => SlotsNeverChange
<1>1. ASSUME TypeInv, RightInv, TypeInv', RightInv', [Next]_vars,
             Trustworthy', NEW n \in Names, slot[n] # None
      PROVE  slot'[n] = slot[n]
  <2>1. CASE UNCHANGED vars
    BY <2>1 DEF vars
  <2>2. CASE Next
    <3>1. Trustworthy /\ UNCHANGED world
      BY <1>1, <2>2, TrustLost
    <3>2. slot[n] = Right(n)
      BY <1>1, <3>1 DEF RightInv
    <3>3. slot'[n] \in {None, Right(n)}
      BY <1>1, <3>1 DEF RightInv, Right
    <3>4. slot'[n] # None
      <4>1. ASSUME NEW t \in Threads, StoreSlot(t) PROVE slot'[n] # None
        <5>1. Top(t) \in Frame /\ Top(t).pc = "store"
          BY <1>1, <4>1, FlagAt DEF StoreSlot
        <5>2. Top(t).ptr # None
          BY <5>1 DEF Frame
        <5> QED
          BY <1>1, <4>1, <5>2 DEF StoreSlot, TypeInv, TypeOK
      <4>2. CASE UNCHANGED slot
        BY <1>1, <4>2
      <4> QED
        BY <2>2, <4>1, <4>2 DEF Next, Step, Call, LoadSlot, EnterResolve, Nest, ReadVersion,
                                Find, Forward, Fault
    <3> QED
      BY <3>2, <3>3, <3>4
  <2> QED
    BY <1>1, <2>1, <2>2
<1>2. TypeInv /\ RightInv /\ TypeInv' /\ RightInv' /\ [Next]_vars
        => [Trustworthy' => \A n \in Names : slot[n] # None => slot'[n] = slot[n]]_vars
  BY <1>1
<1> QED
  BY InitTypeInv, NextTypeInv, InitRightInv, NextRightInv, <1>2, PTL DEF Spec, SlotsNeverChange
-----------------------------------------------------------------------------
(* Strings in a table.                                                     *)

\* A set of naturals that has a member has a greatest one when none is above a
\* bound.
LEMMA GreatestExists ==
  ASSUME NEW S \in SUBSET Nat, S # {}, NEW n \in Nat, \A x \in S : x <= n
  PROVE  \E m \in S : \A x \in S : x <= m
<1> DEFINE Above == {k \in Nat : \A x \in S : x <= k}
<1>1. Above \in SUBSET Nat /\ n \in Above
  OBVIOUS
<1>2. PICK m \in Above : \A k \in Above : m <= k
  <2> HIDE DEF Above
  <2> QED BY <1>1, LeastExists
<1>3. m \in Nat /\ \A x \in S : x <= m
  BY <1>2
<1>4. m \in S
  <2> SUFFICES ASSUME m \notin S PROVE FALSE
    OBVIOUS
  <2>1. \A x \in S : x <= m - 1
    BY <1>3
  <2>2. m - 1 \in Nat
    <3>1. PICK x \in S : TRUE
      OBVIOUS
    <3>2. x \in Nat /\ x <= m - 1
      BY <2>1, <3>1
    <3> QED BY <1>3, <3>2
  <2>3. m - 1 \in Above
    BY <2>1, <2>2
  <2> QED BY <1>2, <1>3, <2>3
<1> QED BY <1>3, <1>4

\* The string at o ends at e.
EndsAt(str, o, e) == e \in o..Len(str) /\ str[e] = Nul /\ \A j \in o..e - 1 : str[j] # Nul

\* A string is what is from its offset to the first Nul.
LEMMA StringIs ==
  ASSUME NEW C, NEW str \in Seq(C), NEW o \in 1..Len(str), NEW e, EndsAt(str, o, e)
  PROVE  /\ IsString(str, o) /\ StringAt(str, o) \in Seq(C) /\ Len(StringAt(str, o)) = e - o
         /\ \A i \in 1..e - o : StringAt(str, o)[i] = str[o + i - 1]
<1>1. DOMAIN str = 1..Len(str) /\ Len(str) \in Nat /\ e \in Int /\ o \in Int /\ o <= e
  BY LenProperties DEF EndsAt
<1>2. \A k \in o..Len(str) : (str[k] = Nul /\ \A j \in o..k - 1 : str[j] # Nul) <=> k = e
  BY <1>1 DEF EndsAt
<1>3. e = CHOOSE k \in o..Len(str) : str[k] = Nul /\ \A j \in o..k - 1 : str[j] # Nul
  BY <1>1, <1>2 DEF EndsAt
<1>4. StringAt(str, o) = SubSeq(str, o, e - 1)
  BY <1>3 DEF StringAt
<1>5. IsString(str, o)
  BY <1>1 DEF IsString, EndsAt
<1>6. \A i \in o..e - 1 : str[i] \in C
  BY <1>1, ElementOfSeq DEF EndsAt
<1>7. /\ SubSeq(str, o, e - 1) \in Seq(C)
      /\ Len(SubSeq(str, o, e - 1)) = IF o <= e - 1 THEN (e - 1) - o + 1 ELSE 0
      /\ \A i \in 1..(e - 1) - o + 1 : SubSeq(str, o, e - 1)[i] = str[o + i - 1]
  BY <1>1, <1>6, SubSeqProperties
<1> QED BY <1>1, <1>4, <1>5, <1>7

\* Every string ends, and its letters are those of the table.
LEMMA StringEnds ==
  ASSUME NEW C, NEW str \in Seq(C), NEW o, IsString(str, o)
  PROVE  /\ o \in 1..Len(str) /\ StringAt(str, o) \in Seq(C)
         /\ Len(StringAt(str, o)) \in Nat /\ EndsAt(str, o, o + Len(StringAt(str, o)))
         /\ \A i \in 1..Len(StringAt(str, o)) : StringAt(str, o)[i] = str[o + i - 1]
<1>1. DOMAIN str = 1..Len(str) /\ Len(str) \in Nat /\ o \in 1..Len(str)
  BY LenProperties DEF IsString
<1> DEFINE S == {k \in o..Len(str) : str[k] = Nul}
<1>2. S \in SUBSET Nat /\ S # {}
  BY <1>1 DEF IsString
<1>3. PICK e \in S : \A x \in S : e <= x
  <2> HIDE DEF S
  <2> QED BY <1>2, LeastExists
<1>4. EndsAt(str, o, e)
  BY <1>1, <1>3 DEF EndsAt
<1>5. e \in Nat /\ o <= e
  BY <1>1, <1>3
<1>6. /\ StringAt(str, o) \in Seq(C) /\ Len(StringAt(str, o)) = e - o
      /\ \A i \in 1..e - o : StringAt(str, o)[i] = str[o + i - 1]
  <2> HIDE DEF S
  <2> QED BY <1>1, <1>4, StringIs
<1>7. o + (e - o) = e
  BY <1>1, <1>5
<1> QED BY <1>1, <1>4, <1>5, <1>6, <1>7

\* A table changed elsewhere has the same string there.
LEMMA SameString ==
  ASSUME NEW C, NEW str \in Seq(C), NEW new \in Seq(C), Len(new) = Len(str),
         NEW o, IsString(str, o),
         \A k \in o..o + Len(StringAt(str, o)) : new[k] = str[k]
  PROVE  IsString(new, o) /\ StringAt(new, o) = StringAt(str, o)
<1> DEFINE s == StringAt(str, o)
<1>1. /\ o \in 1..Len(str) /\ s \in Seq(C) /\ Len(s) \in Nat /\ EndsAt(str, o, o + Len(s))
      /\ \A i \in 1..Len(s) : s[i] = str[o + i - 1]
  BY StringEnds
<1>2. EndsAt(new, o, o + Len(s))
  <2>1. \A k \in o..o + Len(s) : new[k] = str[k]
    OBVIOUS
  <2> HIDE DEF s
  <2>2. o + Len(s) \in o..Len(new) /\ new[o + Len(s)] = Nul
    BY <1>1, <2>1 DEF EndsAt
  <2>3. \A j \in o..(o + Len(s)) - 1 : j \in o..o + Len(s)
    BY <1>1
  <2> QED BY <1>1, <2>1, <2>2, <2>3 DEF EndsAt
<1>3. /\ IsString(new, o) /\ StringAt(new, o) \in Seq(C)
      /\ Len(StringAt(new, o)) = (o + Len(s)) - o
      /\ \A i \in 1..(o + Len(s)) - o : StringAt(new, o)[i] = new[o + i - 1]
  <2> HIDE DEF s
  <2> QED BY <1>1, <1>2, StringIs
<1>4. (o + Len(s)) - o = Len(s)
  BY <1>1
<1>5. \A i \in 1..Len(s) : s[i] = StringAt(new, o)[i]
  <2> HIDE DEF s
  <2>1. ASSUME NEW i \in 1..Len(s) PROVE new[o + i - 1] = str[o + i - 1]
    <3>1. o + i - 1 \in o..o + Len(s)
      BY <1>1
    <3> QED BY <3>1 DEF s
  <2> QED BY <1>1, <1>3, <1>4, <2>1
<1>6. s = StringAt(new, o)
  <2> HIDE DEF s
  <2> QED BY <1>1, <1>3, <1>4, <1>5, SeqEqual
<1> QED BY <1>3, <1>6

\* Strings share their tails: at an offset into one is what is left of it.
LEMMA TailString ==
  ASSUME NEW C, NEW str \in Seq(C), NEW o, IsString(str, o),
         NEW t \in 0..Len(StringAt(str, o))
  PROVE  /\ o + Len(StringAt(str, o)) - t \in Nat
         /\ IsString(str, o + Len(StringAt(str, o)) - t)
         /\ StringAt(str, o + Len(StringAt(str, o)) - t) =
              SubSeq(StringAt(str, o), Len(StringAt(str, o)) - t + 1, Len(StringAt(str, o)))
<1> DEFINE s == StringAt(str, o)
           n == Len(s)
           p == o + n - t
<1>1. /\ o \in 1..Len(str) /\ s \in Seq(C) /\ n \in Nat /\ EndsAt(str, o, o + n)
      /\ \A i \in 1..n : s[i] = str[o + i - 1]
  BY StringEnds
<1>2. Len(str) \in Nat /\ t \in Nat /\ t <= n /\ o + n <= Len(str)
  BY <1>1, LenProperties DEF EndsAt
<1> HIDE DEF s
<1>3. p \in 1..Len(str) /\ p <= o + n /\ (o + n) - p = t
  BY <1>1, <1>2
<1>4. EndsAt(str, p, o + n)
  BY <1>1, <1>2, <1>3 DEF EndsAt
<1>5. /\ IsString(str, p) /\ StringAt(str, p) \in Seq(C) /\ Len(StringAt(str, p)) = t
      /\ \A i \in 1..t : StringAt(str, p)[i] = str[p + i - 1]
  <2> HIDE DEF p
  <2> QED BY <1>3, <1>4, StringIs
<1>6. /\ SubSeq(s, n - t + 1, n) \in Seq(C)
      /\ Len(SubSeq(s, n - t + 1, n)) = t
      /\ \A i \in 1..t : SubSeq(s, n - t + 1, n)[i] = s[(n - t + 1) + i - 1]
  <2>1. \A i \in n - t + 1..n : s[i] \in C
    <3>1. \A i \in n - t + 1..n : i \in 1..n
      BY <1>1, <1>2
    <3> QED BY <1>1, <3>1, ElementOfSeq
  <2>2. n - (n - t + 1) + 1 = t
    BY <1>1, <1>2
  <2>3. n - t + 1 \in Int /\ n \in Int /\ (IF n - t + 1 <= n THEN n - (n - t + 1) + 1 ELSE 0) = t
    BY <1>1, <1>2
  <2> QED BY <2>1, <2>2, <2>3, SubSeqProperties
<1>7. \A i \in 1..t : StringAt(str, p)[i] = SubSeq(s, n - t + 1, n)[i]
  <2> SUFFICES ASSUME NEW i \in 1..t
               PROVE  StringAt(str, p)[i] = SubSeq(s, n - t + 1, n)[i]
    OBVIOUS
  <2>1. (n - t + 1) + i - 1 \in 1..n
    BY <1>1, <1>2
  <2>2. o + ((n - t + 1) + i - 1) - 1 = p + i - 1
    BY <1>1, <1>2
  <2> QED BY <1>1, <1>5, <1>6, <2>1, <2>2
<1>8. StringAt(str, p) = SubSeq(s, n - t + 1, n)
  <2> HIDE DEF n, p
  <2> QED BY <1>5, <1>6, <1>7, SeqEqual
<1>9. p \in Nat
  BY <1>3
<1> QED BY <1>5, <1>8, <1>9 DEF s

\* The table with a name written over what is at an offset.
Written(str, o, name) ==
  [k \in DOMAIN str |-> IF k \in o..o + Len(name) - 1 THEN name[k - o + 1]
                        ELSE IF k = o + Len(name) THEN Nul ELSE str[k]]

\* It has that string there, and is as it was outside.
LEMMA WrittenString ==
  ASSUME NEW C, Nul \in C, NEW str \in Seq(C), NEW name \in Seq(C \ {Nul}),
         NEW o \in 1..Len(str), o + Len(name) <= Len(str)
  PROVE  /\ Written(str, o, name) \in Seq(C) /\ Len(Written(str, o, name)) = Len(str)
         /\ IsString(Written(str, o, name), o) /\ StringAt(Written(str, o, name), o) = name
         /\ \A k \in 1..Len(str) : k < o \/ k > o + Len(name) => Written(str, o, name)[k] = str[k]
<1> DEFINE w == Written(str, o, name)
           n == Len(name)
<1>1. /\ DOMAIN str = 1..Len(str) /\ Len(str) \in Nat /\ n \in Nat
      /\ \A k \in 1..Len(str) : str[k] \in C
      /\ \A k \in 1..n : name[k] \in C \ {Nul}
  <2>1. \A k \in 1..n : name[k] \in C \ {Nul}
    BY ElementOfSeq
  <2>2. \A k \in 1..Len(str) : str[k] \in C
    BY ElementOfSeq
  <2> QED BY <2>1, <2>2, LenProperties
<1>2. \A k \in o..o + n - 1 : k - o + 1 \in 1..n
  BY <1>1
<1>3. w \in [1..Len(str) -> C]
  BY <1>1, <1>2 DEF Written
<1>4. w \in Seq(C) /\ Len(w) = Len(str)
  <2> HIDE DEF w
  <2> QED BY <1>1, <1>3
<1>5. EndsAt(w, o, o + n)
  <2>1. o + n \in o..Len(w) /\ w[o + n] = Nul
    BY <1>1, <1>4 DEF Written
  <2>2. \A j \in o..o + n - 1 : w[j] # Nul
    BY <1>1, <1>2 DEF Written
  <2> HIDE DEF w
  <2> QED BY <2>1, <2>2 DEF EndsAt
<1>6. \A k \in 1..Len(str) : k < o \/ k > o + n => w[k] = str[k]
  BY <1>1 DEF Written
<1>7. \A i \in 1..n : w[o + i - 1] = name[i]
  <2> SUFFICES ASSUME NEW i \in 1..n PROVE w[o + i - 1] = name[i]
    OBVIOUS
  <2>1. o + i - 1 \in o..o + n - 1 /\ o + i - 1 \in 1..Len(str) /\ (o + i - 1) - o + 1 = i
    BY <1>1
  <2> QED BY <1>1, <2>1 DEF Written
<1>8. /\ IsString(w, o) /\ StringAt(w, o) \in Seq(C) /\ Len(StringAt(w, o)) = (o + n) - o
      /\ \A i \in 1..(o + n) - o : StringAt(w, o)[i] = w[o + i - 1]
  <2> HIDE DEF w, n
  <2> QED BY <1>4, <1>5, StringIs
<1>9. (o + n) - o = n
  BY <1>1
<1>10. name \in Seq(C)
  <2>1. C \ {Nul} \subseteq C
    OBVIOUS
  <2> QED BY <2>1, SeqMonotonic
<1>11. StringAt(w, o) = name
  <2> HIDE DEF w
  <2> QED BY <1>7, <1>8, <1>9, <1>10, SeqEqual
<1> QED BY <1>4, <1>6, <1>8, <1>11
-----------------------------------------------------------------------------
(* The count of symbols.                                                   *)

\* What the assumption on files says of one, part by part.
LEMMA FileFacts ==
  ASSUME NEW f \in Files
  PROVE  /\ f \in File(Letters(f.str)) /\ f.str \in Seq(Letters(f.str))
         /\ f.entries \in Seq([name : Nat, undef : BOOLEAN]) /\ Len(f.entries) \in Nat
         /\ f.n \in Nat /\ f.n <= Len(f.entries) /\ f.symoffset \in Nat /\ f.symoffset <= f.n + 1
         /\ f.sysv \in BOOLEAN /\ Letters(f.starts) \subseteq Nat
         /\ \A i \in 1..Len(f.entries) : f.entries[i] \in [name : Nat, undef : BOOLEAN]
         /\ \A i \in 1..f.n : IsString(f.str, f.entries[i].name)
         /\ \A o \in f.others : IsString(f.str, o)
<1>1. /\ f \in File(Letters(f.str)) /\ f.n <= Len(f.entries) /\ f.symoffset <= f.n + 1
      /\ \A o \in Refs(f) : IsString(f.str, o)
  BY FilesAssumption
<1>2. /\ f.str \in Seq(Letters(f.str)) /\ f.entries \in Seq([name : Nat, undef : BOOLEAN])
      /\ f.n \in Nat /\ f.symoffset \in Nat /\ f.sysv \in BOOLEAN /\ f.starts \in Seq(Nat)
  BY <1>1 DEF File
<1>3. Letters(f.starts) \subseteq Nat
  BY <1>2, LenProperties, ElementOfSeq DEF Letters
<1>4. \A i \in 1..Len(f.entries) : f.entries[i] \in [name : Nat, undef : BOOLEAN]
  BY <1>2, ElementOfSeq
<1>5. Len(f.entries) \in Nat
  BY <1>2, LenProperties
<1>6. \A i \in 1..f.n : IsString(f.str, f.entries[i].name)
  BY <1>1 DEF Refs
<1>7. \A o \in f.others : IsString(f.str, o)
  BY <1>1 DEF Refs
<1> QED BY <1>1, <1>2, <1>3, <1>4, <1>5, <1>6, <1>7

\* The last chain starts at a hashed symbol, or where the first would be.
LEMMA LastChain ==
  ASSUME NEW f \in Files, f.symoffset # 0
  PROVE  LET last == LargestOf({f.symoffset} \cup {f.starts[b] : b \in DOMAIN f.starts})
         IN  /\ last \in Nat /\ f.symoffset <= last
             /\ \A x \in Chains(f) : x <= last
             /\ last \in Hashed(f) \/ last = f.symoffset
<1> DEFINE S == {f.symoffset} \cup {f.starts[b] : b \in DOMAIN f.starts}
<1>1. S = {f.symoffset} \cup Letters(f.starts)
  BY DEF Letters
<1>2. f.symoffset \in Nat /\ f.n \in Nat /\ Letters(f.starts) \subseteq Nat /\ f.symoffset <= f.n + 1
  BY FileFacts
<1>3. Chains(f) \subseteq Hashed(f) /\ Hashed(f) \subseteq f.symoffset..f.n
  BY FilesAssumption DEF Hashed
<1>4. \A x \in S : x <= f.n + 1
  <2>1. \A x \in Letters(f.starts) : x = 0 \/ x \in Chains(f)
    BY DEF Chains
  <2> HIDE DEF S
  <2> QED BY <1>1, <1>2, <1>3, <2>1
<1>5. S \in SUBSET Nat /\ S # {} /\ f.n + 1 \in Nat
  BY <1>1, <1>2
<1>6. \E m \in S : \A x \in S : x <= m
  <2> HIDE DEF S
  <2> QED BY <1>4, <1>5, GreatestExists
<1>7. LargestOf(S) \in S /\ \A x \in S : x <= LargestOf(S)
  <2> HIDE DEF S
  <2> QED BY <1>6 DEF LargestOf
<1>8. /\ LargestOf(S) \in Nat /\ f.symoffset <= LargestOf(S)
      /\ \A x \in Chains(f) : x <= LargestOf(S)
  <2>1. Chains(f) \subseteq S /\ f.symoffset \in S
    BY <1>1 DEF Chains
  <2> HIDE DEF S
  <2> QED BY <1>5, <1>7, <2>1
<1>9. LargestOf(S) \in Chains(f) \/ LargestOf(S) = f.symoffset
  <2>1. LargestOf(S) = f.symoffset \/ LargestOf(S) \in Letters(f.starts)
    BY <1>1, <1>7
  <2>2. LargestOf(S) # 0
    <3> HIDE DEF S
    <3> QED BY <1>2, <1>8
  <2> HIDE DEF S
  <2> QED BY <2>1, <2>2 DEF Chains
<1>10. LargestOf(S) \in Hashed(f) \/ LargestOf(S) = f.symoffset
  BY <1>3, <1>9
<1> QED BY <1>8, <1>10

\* The count is exact wherever a symbol is hashed or a DT_HASH says it.  Else it is
\* unknown or what the words past the table make it: not too small unless the
\* table says 1, and too large only where there is a table.
LEMMA Counted ==
  ASSUME NEW f \in Files
  PROVE  /\ SymbolCount(f) \in 0..Len(f.entries)
         /\ f.sysv \/ Chains(f) # {} => SymbolCount(f) = f.n
         /\ SymbolCount(f) # 0 /\ f.symoffset # 1 => f.n <= SymbolCount(f)
         /\ f.n < SymbolCount(f) => f.symoffset # 0
<1>1. /\ f.n \in Nat /\ Len(f.entries) \in Nat /\ f.n <= Len(f.entries) /\ f.sysv \in BOOLEAN
      /\ f.symoffset \in Nat /\ f.symoffset <= f.n + 1
  BY FileFacts
<1>2. CASE f.sysv
  BY <1>1, <1>2 DEF SymbolCount
<1>3. CASE ~f.sysv /\ Chains(f) = {} /\ f.symoffset = 0
  BY <1>1, <1>3 DEF SymbolCount
<1> DEFINE last == LargestOf({f.symoffset} \cup {f.starts[b] : b \in DOMAIN f.starts})
           stop == {i \in last..Len(f.entries) : f.ends[i]}
<1>4. f.symoffset # 0 =>
        /\ last \in Nat /\ f.symoffset <= last
        /\ \A x \in Chains(f) : x <= last
        /\ last \in Hashed(f) \/ last = f.symoffset
  BY LastChain
<1>5. LastHashed(f) = IF stop = {} THEN Len(f.entries) + 1 ELSE CHOOSE i \in stop : \A j \in stop : i <= j
  BY DEF LastHashed
<1> HIDE DEF last
<1>6. CASE ~f.sysv /\ Chains(f) # {}
  <2>0. f.symoffset \in 1..f.n
    <3>1. f.symoffset \in Chains(f) /\ Chains(f) \subseteq Hashed(f)
      BY <1>6, FilesAssumption
    <3>2. f.symoffset # 0
      BY <3>1 DEF Chains
    <3> QED BY <1>1, <1>6, <3>1, <3>2 DEF Hashed
  <2>1. Hashed(f) = f.symoffset..f.n /\ last \in f.symoffset..f.n
    BY <1>1, <1>4, <1>6, <2>0 DEF Hashed
  <2>2. \A i \in Hashed(f) : f.ends[i] <=> i = f.n \/ i + 1 \in Chains(f)
    BY FilesAssumption
  <2>3. f.n \in stop
    BY <1>1, <2>1, <2>2
  <2>4. \A i \in stop : f.n <= i
    <3> SUFFICES ASSUME NEW i \in stop, i < f.n PROVE FALSE
      BY <1>1, <2>1
    <3>1. i \in Hashed(f) /\ last <= i /\ i \in Nat
      BY <1>1, <2>1
    <3>2. i + 1 \in Chains(f)
      BY <1>1, <2>2, <3>1
    <3> QED BY <1>4, <2>0, <2>1, <3>1, <3>2
  <2>5. \A i \in stop : i \in Nat
    BY <1>1, <2>1
  <2> HIDE DEF stop
  <2>6. f.n = CHOOSE i \in stop : \A j \in stop : i <= j
    <3>1. \A i \in stop : (\A j \in stop : i <= j) <=> i = f.n
      BY <1>1, <2>3, <2>4, <2>5
    <3> QED BY <2>3, <3>1
  <2>7. LastHashed(f) = f.n
    BY <1>5, <2>3, <2>6
  <2> QED BY <1>1, <1>6, <2>0, <2>7 DEF SymbolCount
<1>7. CASE ~f.sysv /\ Chains(f) = {} /\ f.symoffset \in {1, f.n + 1}
  <2>1. last = f.symoffset
    BY <1>1, <1>4, <1>7 DEF Hashed
  <2>2. f.symoffset <= LastHashed(f) /\ LastHashed(f) \in Nat
    <3>1. CASE stop = {}
      BY <1>1, <1>5, <3>1
    <3>2. CASE stop # {}
      <4>1. stop \in SUBSET Nat /\ \A i \in stop : f.symoffset <= i
        BY <1>1, <2>1
      <4> HIDE DEF stop
      <4>2. \E i \in stop : \A j \in stop : i <= j
        BY <3>2, <4>1, LeastExists
      <4>3. LastHashed(f) \in stop
        BY <1>5, <3>2, <4>2
      <4> QED BY <4>1, <4>3
    <3> QED BY <3>1, <3>2
  <2>3. \/ SymbolCount(f) = 0
        \/ SymbolCount(f) = LastHashed(f) /\ LastHashed(f) <= Len(f.entries)
    BY <1>1, <1>7, <2>2 DEF SymbolCount
  <2> QED BY <1>1, <1>7, <2>2, <2>3
<1>8. /\ Chains(f) = {} => f.symoffset \in {0, 1, f.n + 1}
      /\ Chains(f) # {} => f.symoffset # 0
  <2>1. IF Chains(f) = {} THEN f.symoffset \in {0, 1, f.n + 1} ELSE f.symoffset \in Chains(f)
    BY FilesAssumption
  <2> QED BY <2>1 DEF Chains
<1> QED BY <1>2, <1>3, <1>6, <1>7, <1>8
-----------------------------------------------------------------------------
(* The turns of the rename.                                                *)

Alphabet(f, r) == Letters(f.str) \cup Letters(r.to) \cup {Nul}

\* A file of the same size and tables, with the same hash tables and tags.
Like(f, h) ==
  /\ Len(h.str) = Len(f.str) /\ Len(h.entries) = Len(f.entries)
  /\ h.n = f.n /\ h.others = f.others /\ h.sysv = f.sysv /\ h.symoffset = f.symoffset
  /\ h.starts = f.starts /\ h.ends = f.ends
Turned(f, r) == {h \in File(Alphabet(f, r)) : Like(f, h)}

\* The file itself is one, and the new name is of its letters.
LEMMA TurnedFacts ==
  ASSUME NEW f \in Files, NEW r \in Renames
  PROVE  /\ f \in Turned(f, r)
         /\ r.to \in Seq(Alphabet(f, r) \ {Nul}) /\ Len(r.to) \in Nat /\ Len(r.from) \in Nat
         /\ Nul \in Alphabet(f, r)
         /\ \A h \in Turned(f, r) :
              /\ h.str \in Seq(Alphabet(f, r)) /\ Len(h.str) = Len(f.str)
              /\ h.entries \in Seq([name : Nat, undef : BOOLEAN])
              /\ Len(h.entries) = Len(f.entries) /\ DOMAIN h.entries = 1..Len(f.entries)
              /\ \A i \in 1..Len(f.entries) : h.entries[i] \in [name : Nat, undef : BOOLEAN]
              /\ SymbolCount(h) = SymbolCount(f) /\ h.symoffset = f.symoffset
              /\ h.n = f.n /\ h.others = f.others
<1>1. f \in File(Letters(f.str)) /\ Letters(f.str) \subseteq Alphabet(f, r)
  BY FilesAssumption DEF Alphabet
<1>2. f.str \in Seq(Alphabet(f, r))
  <2>1. f.str \in Seq(Letters(f.str))
    BY FileFacts
  <2> QED BY <1>1, <2>1, SeqMonotonic
<1>3. f \in File(Alphabet(f, r))
  BY <1>1, <1>2 DEF File
<1>4. f \in Turned(f, r)
  BY <1>3 DEF Turned, Like
<1>5. r.to \in Seq(Letters(r.to) \ {Nul}) /\ r.from \in Seq(Letters(r.from) \ {Nul})
  BY RenamesAssumption
<1>6. r.to \in Seq(Alphabet(f, r) \ {Nul})
  <2>1. Letters(r.to) \ {Nul} \subseteq Alphabet(f, r) \ {Nul}
    BY DEF Alphabet
  <2> QED BY <1>5, <2>1, SeqMonotonic
<1>7. Len(r.to) \in Nat /\ Len(r.from) \in Nat
  BY <1>5, LenProperties
<1>8. Nul \in Alphabet(f, r)
  BY DEF Alphabet
<1>9. ASSUME NEW h \in Turned(f, r)
      PROVE  /\ h.str \in Seq(Alphabet(f, r)) /\ Len(h.str) = Len(f.str)
             /\ h.entries \in Seq([name : Nat, undef : BOOLEAN])
             /\ Len(h.entries) = Len(f.entries) /\ DOMAIN h.entries = 1..Len(f.entries)
             /\ \A i \in 1..Len(f.entries) : h.entries[i] \in [name : Nat, undef : BOOLEAN]
             /\ SymbolCount(h) = SymbolCount(f) /\ h.symoffset = f.symoffset
             /\ h.n = f.n /\ h.others = f.others
  <2>1. h \in File(Alphabet(f, r)) /\ Like(f, h)
    BY DEF Turned
  <2>2. h.str \in Seq(Alphabet(f, r)) /\ h.entries \in Seq([name : Nat, undef : BOOLEAN])
    BY <2>1 DEF File
  <2>3. Len(h.entries) = Len(f.entries) /\ DOMAIN h.entries = 1..Len(f.entries)
    BY <2>1, <2>2, LenProperties DEF Like
  <2>4. \A i \in 1..Len(f.entries) : h.entries[i] \in [name : Nat, undef : BOOLEAN]
    BY <2>2, <2>3, ElementOfSeq
  <2>5. LastHashed(h) = LastHashed(f)
    BY <2>1 DEF LastHashed, Like
  <2>6. SymbolCount(h) = SymbolCount(f)
    BY <2>1, <2>5 DEF SymbolCount, Like
  <2> QED BY <2>1, <2>2, <2>3, <2>4, <2>6 DEF Like
<1> QED BY <1>4, <1>6, <1>7, <1>8, <1>9

\* What a symbol that is renamed is called.
LEMMA RenamableFacts ==
  ASSUME NEW f \in Files, NEW r \in Renames, Len(r.to) <= Len(r.from),
         NEW h \in Turned(f, r), NEW i \in 1..Len(f.entries), Renamable(h, r, i)
  PROVE  LET o == h.entries[i].name
         IN  /\ o \in 1..Len(h.str) /\ o + Len(r.from) <= Len(h.str) /\ Len(h.str) \in Nat
             /\ IsString(h.str, o) /\ StringAt(h.str, o) = r.from
             /\ o + Len(r.from) - Len(r.to) \in Nat
             /\ IsString(h.str, o + Len(r.from) - Len(r.to))
             /\ StringAt(h.str, o + Len(r.from) - Len(r.to)) =
                  SubSeq(r.from, Len(r.from) - Len(r.to) + 1, Len(r.from))
<1> DEFINE o == h.entries[i].name
           C == Alphabet(f, r)
<1>1. IsString(h.str, o) /\ StringAt(h.str, o) = r.from
  BY DEF Renamable
<1>2. h.str \in Seq(C) /\ Len(r.to) \in 0..Len(r.from) /\ Len(r.from) \in Nat
  <2>1. h.str \in Seq(C)
    BY TurnedFacts
  <2>2. Len(r.to) \in Nat /\ Len(r.from) \in Nat
    BY TurnedFacts
  <2> QED BY <2>1, <2>2
<1>3. o \in 1..Len(h.str) /\ EndsAt(h.str, o, o + Len(r.from)) /\ Len(h.str) \in Nat
  <2> HIDE DEF o, C
  <2> QED BY <1>1, <1>2, StringEnds, LenProperties
<1>4. o + Len(r.from) <= Len(h.str)
  BY <1>2, <1>3 DEF EndsAt
<1>5. /\ o + Len(r.from) - Len(r.to) \in Nat
      /\ IsString(h.str, o + Len(r.from) - Len(r.to))
      /\ StringAt(h.str, o + Len(r.from) - Len(r.to)) =
           SubSeq(r.from, Len(r.from) - Len(r.to) + 1, Len(r.from))
  <2> HIDE DEF o, C
  <2> QED BY <1>1, <1>2, TailString
<1> QED BY <1>1, <1>3, <1>4, <1>5

\* A rename to the tail of the name moves the reference; no other does, and
\* writes over the string, if at all.
LEMMA TurnMoves ==
  ASSUME NEW f \in Files, NEW r \in Renames, Len(r.to) <= Len(r.from),
         NEW h \in Turned(f, r), NEW i \in 1..Len(f.entries)
  PROVE  LET o == h.entries[i].name
         IN  RenameAt(h, r, i) =
               IF ~Renamable(h, r, i) THEN h
               ELSE IF IsTail(r) THEN [h EXCEPT !.entries[i].name = o + Len(r.from) - Len(r.to)]
               ELSE IF Occupied(h, o + 1, o + Len(r.from) + 1, o) THEN h
               ELSE [h EXCEPT !.str = Written(h.str, o, r.to)]
<1> DEFINE o == h.entries[i].name
<1>1. CASE ~Renamable(h, r, i)
  BY <1>1 DEF RenameAt
<1>2. CASE Renamable(h, r, i)
  <2>1. StringAt(h.str, o + Len(r.from) - Len(r.to)) = r.to <=> IsTail(r)
    BY <1>2, RenamableFacts DEF IsTail
  <2>2. RenameAt(h, r, i) =
          IF StringAt(h.str, o + Len(r.from) - Len(r.to)) = r.to
          THEN [h EXCEPT !.entries[i].name = o + Len(r.from) - Len(r.to)]
          ELSE IF Occupied(h, o + 1, o + Len(r.from) + 1, o) THEN h
          ELSE [h EXCEPT !.str = Written(h.str, o, r.to)]
    BY <1>2 DEF RenameAt, Written
  <2>3. RenameAt(h, r, i) =
          IF IsTail(r) THEN [h EXCEPT !.entries[i].name = o + Len(r.from) - Len(r.to)]
          ELSE IF Occupied(h, o + 1, o + Len(r.from) + 1, o) THEN h
          ELSE [h EXCEPT !.str = Written(h.str, o, r.to)]
    <3> HIDE DEF o
    <3> QED BY <2>1, <2>2
  <2> QED BY <1>2, <2>3
<1> QED BY <1>1, <1>2

\* A turn leaves a file of that kind.
LEMMA TurnStays ==
  ASSUME NEW f \in Files, NEW r \in Renames, Len(r.to) <= Len(r.from),
         NEW h \in Turned(f, r), NEW i \in 1..Len(f.entries)
  PROVE  RenameAt(h, r, i) \in Turned(f, r)
<1> DEFINE o == h.entries[i].name
           C == Alphabet(f, r)
           g == RenameAt(h, r, i)
<1>1. h \in File(C) /\ Like(f, h)
  BY DEF Turned
<1>2. g = h \/ \/ /\ g = [h EXCEPT !.entries[i].name = o + Len(r.from) - Len(r.to)]
                  /\ Renamable(h, r, i)
               \/ /\ g = [h EXCEPT !.str = Written(h.str, o, r.to)]
                  /\ Renamable(h, r, i)
  <2>1. g = IF ~Renamable(h, r, i) THEN h
            ELSE IF IsTail(r) THEN [h EXCEPT !.entries[i].name = o + Len(r.from) - Len(r.to)]
            ELSE IF Occupied(h, o + 1, o + Len(r.from) + 1, o) THEN h
            ELSE [h EXCEPT !.str = Written(h.str, o, r.to)]
    BY TurnMoves
  <2> HIDE DEF g, o
  <2> QED BY <2>1
<1>3. CASE g = h
  BY <1>1, <1>3 DEF Turned
<1>4. CASE /\ g = [h EXCEPT !.entries[i].name = o + Len(r.from) - Len(r.to)]
           /\ Renamable(h, r, i)
  <2>1. o + Len(r.from) - Len(r.to) \in Nat
    BY <1>4, RenamableFacts
  <2>2. /\ h.entries \in Seq([name : Nat, undef : BOOLEAN])
        /\ Len(h.entries) = Len(f.entries) /\ DOMAIN h.entries = 1..Len(f.entries)
        /\ h.entries[i] \in [name : Nat, undef : BOOLEAN]
    BY TurnedFacts
  <2> DEFINE e == [h.entries[i] EXCEPT !.name = o + Len(r.from) - Len(r.to)]
  <2>3. e \in [name : Nat, undef : BOOLEAN]
    BY <2>1, <2>2
  <2>4. g = [h EXCEPT !.entries = [h.entries EXCEPT ![i] = e]]
    BY <1>4
  <2>5. /\ [h.entries EXCEPT ![i] = e] \in Seq([name : Nat, undef : BOOLEAN])
        /\ Len([h.entries EXCEPT ![i] = e]) = Len(h.entries)
    <3> HIDE DEF e
    <3> QED BY <2>2, <2>3, ExceptSeq
  <2> HIDE DEF e, g
  <2>6. g \in File(C)
    BY <1>1, <2>4, <2>5 DEF File
  <2>7. Like(f, g)
    BY <1>1, <2>4, <2>5 DEF Like, File
  <2> QED BY <2>6, <2>7 DEF Turned, g
<1>5. CASE g = [h EXCEPT !.str = Written(h.str, o, r.to)] /\ Renamable(h, r, i)
  <2>1. /\ o \in 1..Len(h.str) /\ o + Len(r.from) <= Len(h.str) /\ Len(h.str) \in Nat
        /\ h.str \in Seq(C) /\ r.to \in Seq(C \ {Nul}) /\ Nul \in C
        /\ Len(r.to) \in Nat /\ Len(r.from) \in Nat
    BY <1>5, RenamableFacts, TurnedFacts
  <2>2. o + Len(r.to) <= Len(h.str)
    BY <2>1
  <2>3. Written(h.str, o, r.to) \in Seq(C) /\ Len(Written(h.str, o, r.to)) = Len(h.str)
    <3> HIDE DEF o, C
    <3> QED BY <2>1, <2>2, WrittenString
  <2> HIDE DEF o, C, g
  <2>4. g \in File(C)
    BY <1>1, <1>5, <2>3 DEF File
  <2>5. Like(f, g)
    BY <1>1, <1>5, <2>3 DEF Like, File
  <2> QED BY <2>4, <2>5 DEF Turned, C, g
<1> QED BY <1>2, <1>3, <1>4, <1>5

\* The turns of a rename: files of that kind, from the one given.
Turns(f, r, c) ==
  /\ \A k \in 0..SymbolCount(f) : c[k] \in Turned(f, r)
  /\ c[0] = f /\ \A k \in 1..SymbolCount(f) : c[k] = RenameAt(c[k-1], r, k)

\* The recursion defines them, and the last is what the rename leaves.
LEMMA RenameTurns ==
  ASSUME NEW f \in Files, NEW r \in Renames, Len(r.to) <= Len(r.from)
  PROVE  \E c : Turns(f, r, c) /\ Rename(f, r) = c[SymbolCount(f)]
<1> DEFINE m == SymbolCount(f)
           X == Turned(f, r)
           step == [p \in (1..m) \X X |-> RenameAt(p[2], r, p[1])]
           P(g) == g = [i \in 0..m |-> IF i = 0 THEN f ELSE RenameAt(g[i - 1], r, i)]
           c == CHOOSE g : P(g)
<1>1. m \in Nat /\ m <= Len(f.entries) /\ Len(f.entries) \in Nat
  BY Counted, FileFacts
<1>2. \A h \in X, k \in 1..m : RenameAt(h, r, k) \in X
  <2>1. \A k \in 1..m : k \in 1..Len(f.entries)
    BY <1>1
  <2> QED BY <2>1, TurnStays
<1>3. f \in X
  BY TurnedFacts
<1>4. step \in [(1..m) \X X -> X]
  <2> HIDE DEF m, X
  <2> QED BY <1>2
<1>5. PICK g : g \in [0..m -> X] /\ g[0] = f /\ \A k \in 1..m : g[k] = step[<<k, g[k-1]>>]
  <2> HIDE DEF step, m, X
  <2>1. \E g : Iterates(g, X, f, m, step)
    BY <1>1, <1>3, <1>4, IterationExists
  <2> QED BY <2>1 DEF Iterates
<1>6. \A k \in 1..m : g[k] = RenameAt(g[k-1], r, k)
  <2> SUFFICES ASSUME NEW k \in 1..m PROVE g[k] = RenameAt(g[k-1], r, k)
    OBVIOUS
  <2>1. k - 1 \in 0..m
    BY <1>1
  <2>2. <<k, g[k-1]>> \in (1..m) \X X
    BY <1>5, <2>1
  <2> HIDE DEF X, m
  <2> QED BY <1>5, <2>2
<1>7. P(g)
  <2> HIDE DEF m, X
  <2> QED BY <1>1, <1>5, <1>6
<1>8. P(c)
  <2> HIDE DEF P
  <2> QED BY <1>7
<1>9. Rename(f, r) = c[m]
  <2>1. ~(Len(r.to) > Len(r.from))
    BY TurnedFacts
  <2> QED BY <2>1 DEF Rename
<1>10. c[0] = f /\ \A k \in 1..m : c[k] = RenameAt(c[k-1], r, k)
  <2> HIDE DEF c, m
  <2> QED BY <1>1, <1>8
<1>11. \A k \in 0..m : c[k] \in X
  <2> DEFINE In == {k \in Nat : k <= m => c[k] \in X}
  <2> HIDE DEF c, m, X
  <2>1. 0 \in In
    BY <1>3, <1>10
  <2>2. ASSUME NEW k \in Nat, k \in In PROVE k + 1 \in In
    <3> SUFFICES ASSUME k + 1 <= m PROVE c[k+1] \in X
      OBVIOUS
    <3>1. c[k] \in X /\ k + 1 \in 1..m /\ (k + 1) - 1 = k
      BY <1>1, <2>2
    <3>2. c[k+1] = RenameAt(c[k], r, k + 1)
      BY <1>10, <3>1
    <3> QED BY <1>2, <3>1, <3>2
  <2>3. Nat \subseteq In
    <3> HIDE DEF In
    <3> QED BY <2>1, <2>2, SetInduction
  <2> QED BY <1>1, <2>3
<1> HIDE DEF c
<1> QED BY <1>9, <1>10, <1>11 DEF Turns
-----------------------------------------------------------------------------
(* A rename to the tail of a name.                                         *)

\* Only the symbols of the table are ever renamed: where too many are counted,
\* those past it are not below the first that would be hashed.
LEMMA RenamableIsSymbol ==
  ASSUME NEW f \in Files, NEW r \in Renames, NEW h \in Turned(f, r),
         NEW i \in 1..SymbolCount(f), Renamable(h, r, i)
  PROVE  i \in 1..f.n /\ f.n <= SymbolCount(f) /\ f.symoffset # 1
<1>1. h.symoffset = f.symoffset
  BY TurnedFacts
<1>2. f.symoffset = 0 \/ i < f.symoffset
  BY <1>1 DEF Renamable
<1>3. /\ SymbolCount(f) \in 0..Len(f.entries)
      /\ SymbolCount(f) # 0 /\ f.symoffset # 1 => f.n <= SymbolCount(f)
      /\ f.n < SymbolCount(f) => f.symoffset # 0
  BY Counted
<1>4. f.n \in Nat /\ Len(f.entries) \in Nat /\ f.symoffset \in Nat /\ f.symoffset <= f.n + 1
  BY FileFacts
<1> QED BY <1>2, <1>3, <1>4

\* After k turns the references meant are moved as far as they have come.
TailMoved(f, r, k, h) ==
  /\ h.str = f.str
  /\ \A i \in 1..Len(f.entries) :
       h.entries[i] = IF i <= k /\ Renamable(f, r, i)
                      THEN [f.entries[i] EXCEPT !.name = f.entries[i].name + Len(r.from) - Len(r.to)]
                      ELSE f.entries[i]

\* A reference moved to an offset.
Moved(h, i, o) == [h EXCEPT !.entries[i].name = o]

\* A turn moves the reference it is for, if it is one to rename, and no other.
LEMMA TailMoves ==
  ASSUME NEW f \in Files, NEW r \in Renames, Len(r.to) <= Len(r.from),
         NEW h \in Turned(f, r), NEW i \in 1..Len(f.entries)
  PROVE  IsTail(r) =>
           RenameAt(h, r, i) =
             IF ~Renamable(h, r, i) THEN h
             ELSE Moved(h, i, h.entries[i].name + Len(r.from) - Len(r.to))
<1> DEFINE o == h.entries[i].name
           g == RenameAt(h, r, i)
<1>1. g = IF ~Renamable(h, r, i) THEN h
          ELSE IF IsTail(r) THEN [h EXCEPT !.entries[i].name = o + Len(r.from) - Len(r.to)]
          ELSE IF Occupied(h, o + 1, o + Len(r.from) + 1, o) THEN h
          ELSE [h EXCEPT !.str = Written(h.str, o, r.to)]
  BY TurnMoves
<1> HIDE DEF g
<1>2. IsTail(r) => g = IF ~Renamable(h, r, i) THEN h
                       ELSE [h EXCEPT !.entries[i].name = o + Len(r.from) - Len(r.to)]
  <2> HIDE DEF o
  <2> QED BY <1>1
<1> QED BY <1>2 DEF g, Moved

\* A turn goes one further.
LEMMA TailTurn ==
  ASSUME NEW f \in Files, NEW r \in Renames, Len(r.to) <= Len(r.from), IsTail(r),
         NEW i \in 1..Len(f.entries),
         NEW h \in Turned(f, r), TailMoved(f, r, i - 1, h)
  PROVE  TailMoved(f, r, i, RenameAt(h, r, i))
<1> DEFINE g == RenameAt(h, r, i)
<1>1. Len(f.entries) \in Nat /\ ~(i <= i - 1)
  BY FileFacts
<1>2. /\ DOMAIN h.entries = 1..Len(f.entries) /\ h.symoffset = f.symoffset
      /\ h.str = f.str /\ h.entries[i] = f.entries[i]
  BY <1>1, TurnedFacts DEF TailMoved
<1>3. Renamable(h, r, i) <=> Renamable(f, r, i)
  BY <1>2 DEF Renamable
<1>4. g = IF ~Renamable(h, r, i) THEN h
          ELSE Moved(h, i, h.entries[i].name + Len(r.from) - Len(r.to))
  BY TailMoves
<1>5. \A x \in 1..Len(f.entries) : (x <= i) <=> (x <= i - 1 \/ x = i)
  BY <1>1
<1>6. CASE ~Renamable(h, r, i)
  <2>1. g = h
    BY <1>4, <1>6
  <2> HIDE DEF g
  <2>2. TailMoved(f, r, i, g)
    BY <1>2, <1>3, <1>5, <1>6, <2>1 DEF TailMoved
  <2> QED BY <1>1, <2>2 DEF g
<1>7. CASE Renamable(h, r, i)
  <2> DEFINE e == [h.entries[i] EXCEPT !.name = h.entries[i].name + Len(r.from) - Len(r.to)]
  <2>1. g = [h EXCEPT !.entries = [h.entries EXCEPT ![i] = e]]
    BY <1>4, <1>7 DEF Moved
  <2>2. h \in File(Alphabet(f, r))
    BY DEF Turned
  <2> HIDE DEF g, e
  <2>3. g.str = f.str /\ g.entries = [h.entries EXCEPT ![i] = e]
    BY <1>2, <2>1, <2>2 DEF File
  <2>4. g.entries[i] = e /\ \A x \in 1..Len(f.entries) : x # i => g.entries[x] = h.entries[x]
    BY <1>1, <1>2, <2>3
  <2>5. e = [f.entries[i] EXCEPT !.name = f.entries[i].name + Len(r.from) - Len(r.to)]
    BY <1>2 DEF e
  <2>6. TailMoved(f, r, i, g)
    BY <1>1, <1>2, <1>3, <1>5, <1>7, <2>3, <2>4, <2>5 DEF TailMoved
  <2> QED BY <1>1, <2>6 DEF g
<1> QED BY <1>6, <1>7

\* All of them, when it is over, and nothing else.
LEMMA TailRename ==
  ASSUME NEW f \in Files, NEW r \in Renames, IsTail(r)
  PROVE  TailMoved(f, r, SymbolCount(f), Rename(f, r))
<1>1. Len(r.to) <= Len(r.from)
  BY DEF IsTail
<1>2. SymbolCount(f) \in Nat /\ SymbolCount(f) <= Len(f.entries) /\ Len(f.entries) \in Nat
  BY Counted, FileFacts
<1>3. PICK c : Turns(f, r, c) /\ Rename(f, r) = c[SymbolCount(f)]
  BY <1>1, RenameTurns
<1> DEFINE m == SymbolCount(f)
           In == {k \in Nat : k <= m => TailMoved(f, r, k, c[k])}
<1>4. 0 \in In
  <2>1. c[0] = f
    BY <1>3 DEF Turns
  <2>2. \A i \in 1..Len(f.entries) : ~(i <= 0)
    BY <1>2
  <2> QED BY <2>1, <2>2 DEF TailMoved
<1>5. ASSUME NEW k \in Nat, k \in In PROVE k + 1 \in In
  <2> SUFFICES ASSUME k + 1 <= m PROVE TailMoved(f, r, k + 1, c[k+1])
    OBVIOUS
  <2>1. k \in 0..m /\ k + 1 \in 1..m /\ (k + 1) - 1 = k /\ k + 1 <= Len(f.entries)
    BY <1>2
  <2>2. c[k] \in Turned(f, r) /\ c[k+1] = RenameAt(c[k], r, k + 1)
    BY <1>3, <2>1 DEF Turns
  <2>3. TailMoved(f, r, (k + 1) - 1, c[k]) /\ k + 1 \in 1..Len(f.entries)
    BY <1>2, <1>5, <2>1
  <2> QED BY <1>1, <2>1, <2>2, <2>3, TailTurn
<1>6. Nat \subseteq In
  <2> HIDE DEF In
  <2> QED BY <1>4, <1>5, SetInduction
<1> QED BY <1>2, <1>3, <1>6

\* Which symbols a rename means.
Meant(f, r, i) ==
  /\ f.entries[i].undef /\ NameIn(f, i) = r.from
  /\ f.symoffset = 0 \/ i < f.symoffset

\* What RenamesRight says of one file, one rename and what it leaves.
Exact(f, r, g) ==
  /\ \A i \in 1..f.n :
       \/ NameIn(g, i) = NameIn(f, i) /\ ~(Meant(f, r, i) /\ IsTail(r) /\ SymbolCount(f) # 0)
       \/ NameIn(g, i) = r.to /\ Meant(f, r, i)
  /\ \A i \in f.n + 1..Len(f.entries) : g.entries[i] = f.entries[i]
  /\ \A o \in f.others : StringAt(g.str, o) = StringAt(f.str, o)

\* A rename to the tail of the name renames every symbol it means and no other.
LEMMA TailExact ==
  ASSUME NEW f \in Files, NEW r \in Renames, IsTail(r)
  PROVE  Exact(f, r, Rename(f, r))
<1> DEFINE g == Rename(f, r)
           m == SymbolCount(f)
<1>1. TailMoved(f, r, m, g)
  BY TailRename
<1>2. /\ Len(r.to) <= Len(r.from) /\ f \in Turned(f, r)
      /\ f.n \in Nat /\ f.n <= Len(f.entries) /\ Len(f.entries) \in Nat
      /\ m \in Nat /\ m <= Len(f.entries) /\ (m # 0 /\ f.symoffset # 1 => f.n <= m)
  <2>1. Len(r.to) <= Len(r.from)
    BY DEF IsTail
  <2>2. f \in Turned(f, r)
    BY TurnedFacts
  <2>3. f.n \in Nat /\ f.n <= Len(f.entries) /\ Len(f.entries) \in Nat
    BY FileFacts
  <2>4. m \in 0..Len(f.entries) /\ (m # 0 /\ f.symoffset # 1 => f.n <= m)
    BY Counted
  <2> QED BY <2>1, <2>2, <2>3, <2>4
<1>3. \A i \in 1..f.n : Meant(f, r, i) <=> Renamable(f, r, i)
  <2>1. \A i \in 1..f.n : IsString(f.str, f.entries[i].name)
    BY FileFacts
  <2> QED BY <2>1 DEF Meant, Renamable, NameIn
<1> HIDE DEF g, m
<1>4. ASSUME NEW i \in 1..f.n
      PROVE  \/ NameIn(g, i) = NameIn(f, i) /\ ~(Meant(f, r, i) /\ IsTail(r) /\ SymbolCount(f) # 0)
             \/ NameIn(g, i) = r.to /\ Meant(f, r, i)
  <2>1. i \in 1..Len(f.entries)
    BY <1>2
  <2>2. CASE i <= m /\ Renamable(f, r, i)
    <3> DEFINE o == f.entries[i].name
               p == o + Len(r.from) - Len(r.to)
    <3>1. g.str = f.str /\ g.entries[i] = [f.entries[i] EXCEPT !.name = p]
      BY <1>1, <2>1, <2>2 DEF TailMoved
    <3>2. StringAt(f.str, p) = SubSeq(r.from, Len(r.from) - Len(r.to) + 1, Len(r.from))
      BY <1>2, <2>1, <2>2, RenamableFacts
    <3>3. StringAt(f.str, p) = r.to
      BY <3>2 DEF IsTail
    <3>4. f.entries[i] \in [name : Nat, undef : BOOLEAN]
      BY <2>1, FileFacts
    <3> HIDE DEF p
    <3>5. NameIn(g, i) = r.to
      BY <3>1, <3>3, <3>4 DEF NameIn
    <3> QED BY <1>3, <2>2, <3>5
  <2>3. CASE ~(i <= m /\ Renamable(f, r, i))
    <3>1. g.str = f.str /\ g.entries[i] = f.entries[i]
      BY <1>1, <2>1, <2>3 DEF TailMoved
    <3>2. NameIn(g, i) = NameIn(f, i)
      BY <3>1 DEF NameIn
    <3>3. ~(Meant(f, r, i) /\ IsTail(r) /\ SymbolCount(f) # 0)
      BY <1>2, <1>3, <2>3 DEF m, Meant
    <3> QED BY <3>2, <3>3
  <2> QED BY <2>2, <2>3
<1>5. ASSUME NEW i \in f.n + 1..Len(f.entries) PROVE g.entries[i] = f.entries[i]
  <2>1. i \in 1..Len(f.entries) /\ ~(i \in 1..f.n)
    BY <1>2
  <2>2. ~(i <= m /\ Renamable(f, r, i))
    <3> SUFFICES ASSUME i <= m, Renamable(f, r, i) PROVE FALSE
      OBVIOUS
    <3>1. i \in 1..SymbolCount(f)
      BY <1>2, <2>1 DEF m
    <3> QED BY <1>2, <2>1, <3>1, RenamableIsSymbol
  <2> QED BY <1>1, <2>1, <2>2 DEF TailMoved
<1>6. \A o \in f.others : StringAt(g.str, o) = StringAt(f.str, o)
  BY <1>1 DEF TailMoved
<1> QED BY <1>4, <1>5, <1>6 DEF Exact, g
-----------------------------------------------------------------------------
(* A rename that writes over the string.                                   *)

\* A turn writes over the string, unless something refers to the rest of it.
LEMMA PlaceMoves ==
  ASSUME NEW f \in Files, NEW r \in Renames, Len(r.to) <= Len(r.from),
         NEW h \in Turned(f, r), NEW i \in 1..Len(f.entries)
  PROVE  LET o == h.entries[i].name
         IN  ~IsTail(r) =>
               \/ RenameAt(h, r, i) = h
               \/ /\ Renamable(h, r, i) /\ ~Occupied(h, o + 1, o + Len(r.from) + 1, o)
                  /\ RenameAt(h, r, i) = [h EXCEPT !.str = Written(h.str, o, r.to)]
<1> DEFINE o == h.entries[i].name
           g == RenameAt(h, r, i)
<1>1. g = IF ~Renamable(h, r, i) THEN h
          ELSE IF IsTail(r) THEN [h EXCEPT !.entries[i].name = o + Len(r.from) - Len(r.to)]
          ELSE IF Occupied(h, o + 1, o + Len(r.from) + 1, o) THEN h
          ELSE [h EXCEPT !.str = Written(h.str, o, r.to)]
  BY TurnMoves
<1> HIDE DEF g
<1>2. ~IsTail(r) => \/ g = h
                    \/ /\ Renamable(h, r, i) /\ ~Occupied(h, o + 1, o + Len(r.from) + 1, o)
                       /\ g = [h EXCEPT !.str = Written(h.str, o, r.to)]
  <2> HIDE DEF o
  <2> QED BY <1>1
<1> QED BY <1>2 DEF g

\* May a rename change the name at an offset: only undefined symbols refer to it,
\* and the table does not say that all of them are hashed.
MayChange(f, r, p) ==
  /\ StringAt(f.str, p) = r.from /\ p \notin f.others /\ f.symoffset # 1
  /\ \A i \in 1..f.n : f.entries[i].name = p => f.entries[i].undef

\* Every reference is where it was and to the string that was there, but for
\* those to the new name at an offset a rename may change.
Kept(f, r, h) ==
  /\ h.entries = f.entries
  /\ \A p \in Refs(f) :
       /\ IsString(h.str, p)
       /\ \/ StringAt(h.str, p) = StringAt(f.str, p)
          \/ StringAt(h.str, p) = r.to /\ MayChange(f, r, p)

\* Where the name is not shared nothing else refers to it, and no string that
\* starts below reaches it.
LEMMA Unshared ==
  ASSUME NEW f \in Files, NEW r \in Renames, ~FromShared(f, r),
         NEW i \in 1..f.n, f.entries[i].undef, NameIn(f, i) = r.from, f.symoffset # 1
  PROVE  LET at == f.entries[i].name
         IN  /\ MayChange(f, r, at)
             /\ \A p \in Refs(f) : ~(p < at /\ at <= p + Len(StringAt(f.str, p)))
<1> DEFINE at == f.entries[i].name
           Into(o) == o < at /\ at <= o + Len(StringAt(f.str, o))
<1>1. ~ \/ \E o \in f.others : o = at \/ Into(o)
        \/ \E j \in 1..f.n : \/ Into(f.entries[j].name)
                             \/ ~f.entries[j].undef /\ f.entries[j].name = at
  BY DEF FromShared
<1>2. MayChange(f, r, at)
  BY <1>1 DEF MayChange, NameIn
<1>3. ASSUME NEW p \in Refs(f) PROVE ~Into(p)
  <2>1. p \in f.others \/ \E j \in 1..f.n : p = f.entries[j].name
    BY DEF Refs
  <2> HIDE DEF Into
  <2> QED BY <1>1, <2>1
<1> QED BY <1>2, <1>3

\* A turn keeps what was.
LEMMA PlaceTurn ==
  ASSUME NEW f \in Files, NEW r \in Renames, Len(r.to) <= Len(r.from),
         NEW h \in Turned(f, r), NEW i \in 1..Len(f.entries), i <= SymbolCount(f),
         ~IsTail(r), ~FromShared(f, r), Kept(f, r, h)
  PROVE  Kept(f, r, RenameAt(h, r, i))
<1> DEFINE g == RenameAt(h, r, i)
           o == h.entries[i].name
           w == Written(h.str, o, r.to)
           C == Alphabet(f, r)
<1>1. \/ g = h
      \/ /\ Renamable(h, r, i) /\ ~Occupied(h, o + 1, o + Len(r.from) + 1, o)
         /\ g = [h EXCEPT !.str = w]
  BY PlaceMoves
<1>2. CASE g = h
  BY <1>2
<1>3. CASE /\ Renamable(h, r, i) /\ ~Occupied(h, o + 1, o + Len(r.from) + 1, o)
           /\ g = [h EXCEPT !.str = w]
  <2>1. /\ i \in 1..f.n /\ f.n <= SymbolCount(f) /\ f.symoffset # 1
        /\ f.n \in Nat /\ SymbolCount(f) \in Nat
    <3>1. SymbolCount(f) \in 0..Len(f.entries) /\ f.n \in Nat /\ Len(f.entries) \in Nat
      BY Counted, FileFacts
    <3>2. i \in 1..SymbolCount(f)
      BY <3>1
    <3> QED BY <1>3, <3>1, <3>2, RenamableIsSymbol
  <2>2. h.entries = f.entries /\ o = f.entries[i].name /\ o \in Refs(f)
    BY <2>1 DEF Kept, Refs
  <2>3. /\ o \in 1..Len(h.str) /\ o + Len(r.from) <= Len(h.str) /\ Len(h.str) \in Nat
        /\ StringAt(h.str, o) = r.from
    BY <1>3, RenamableFacts
  <2>4. /\ h.str \in Seq(C) /\ r.to \in Seq(C \ {Nul}) /\ Nul \in C
        /\ Len(r.to) \in Nat /\ Len(r.from) \in Nat
        /\ SymbolCount(h) = SymbolCount(f) /\ h.others = f.others
    BY TurnedFacts
  <2>5. f.entries[i].undef /\ NameIn(f, i) = r.from
    <3>1. f.entries[i].undef
      BY <1>3, <2>2 DEF Renamable
    <3>2. StringAt(f.str, o) = r.from
      BY <2>2, <2>3 DEF Kept, MayChange
    <3> QED BY <2>2, <3>1, <3>2 DEF NameIn
  <2>6. /\ MayChange(f, r, o)
        /\ \A p \in Refs(f) : ~(p < o /\ o <= p + Len(StringAt(f.str, p)))
    BY <2>1, <2>2, <2>5, Unshared
  <2> HIDE DEF o, C
  <2>7. /\ w \in Seq(C) /\ Len(w) = Len(h.str) /\ IsString(w, o) /\ StringAt(w, o) = r.to
        /\ \A k \in 1..Len(h.str) : k < o \/ k > o + Len(r.to) => w[k] = h.str[k]
    <3>1. o + Len(r.to) <= Len(h.str)
      BY <2>3, <2>4
    <3> QED BY <2>3, <2>4, <3>1, WrittenString
  <2> HIDE DEF w
  <2>8. ASSUME NEW p \in Refs(f), p # o
        PROVE  IsString(w, p) /\ StringAt(w, p) = StringAt(h.str, p)
    <3>1. p \notin o + 1..o + Len(r.from)
      <4>1. o + 1..(o + Len(r.from) + 1) - 1 = o + 1..o + Len(r.from)
        BY <2>3, <2>4
      <4>2. CASE p \in f.others
        BY <1>3, <2>4, <4>1, <4>2 DEF Occupied
      <4>3. CASE \E j \in 1..f.n : p = f.entries[j].name
        <5>1. PICK j \in 1..f.n : p = h.entries[j].name
          BY <2>2, <4>3
        <5>2. j \in 1..SymbolCount(h)
          BY <2>1, <2>4
        <5> QED BY <1>3, <2>8, <4>1, <5>1, <5>2 DEF Occupied
      <4> QED BY <4>2, <4>3 DEF Refs
    <3>2. IsString(h.str, p) /\ IsString(f.str, p)
      BY FilesAssumption DEF Kept
    <3>3. /\ p \in 1..Len(h.str) /\ Len(StringAt(h.str, p)) \in Nat
          /\ p + Len(StringAt(h.str, p)) <= Len(h.str)
      <4>1. /\ p \in 1..Len(h.str) /\ Len(StringAt(h.str, p)) \in Nat
            /\ EndsAt(h.str, p, p + Len(StringAt(h.str, p)))
        BY <2>4, <3>2, StringEnds
      <4> QED BY <2>3, <4>1 DEF EndsAt
    <3>4. Len(StringAt(h.str, p)) <= Len(StringAt(f.str, p)) /\ Len(StringAt(f.str, p)) \in Nat
      <4>1. Len(StringAt(f.str, p)) \in Nat
        <5>1. f.str \in Seq(Letters(f.str))
          BY FileFacts
        <5> QED BY <3>2, <5>1, StringEnds
      <4>2. CASE StringAt(h.str, p) = StringAt(f.str, p)
        BY <4>1, <4>2
      <4>3. CASE StringAt(h.str, p) = r.to /\ StringAt(f.str, p) = r.from
        BY <2>4, <4>3
      <4> QED BY <4>1, <4>2, <4>3 DEF Kept, MayChange
    <3>5. ~(p < o /\ o <= p + Len(StringAt(f.str, p)))
      BY <2>6
    <3>6. \A k \in p..p + Len(StringAt(h.str, p)) : w[k] = h.str[k]
      <4> SUFFICES ASSUME NEW k \in p..p + Len(StringAt(h.str, p)) PROVE w[k] = h.str[k]
        OBVIOUS
      <4>1. k \in 1..Len(h.str)
        BY <2>3, <3>3
      <4>2. k < o \/ k > o + Len(r.to)
        BY <2>3, <2>4, <2>8, <3>1, <3>3, <3>4, <3>5
      <4> QED BY <2>7, <4>1, <4>2
    <3> QED BY <2>4, <2>7, <3>2, <3>6, SameString
  <2>9. g.str = w /\ g.entries = f.entries
    <3>1. h \in File(C)
      BY DEF Turned, C
    <3> HIDE DEF g
    <3> QED BY <1>3, <2>2, <3>1 DEF File
  <2> HIDE DEF g
  <2>10. ASSUME NEW p \in Refs(f)
         PROVE  /\ IsString(g.str, p)
                /\ \/ StringAt(g.str, p) = StringAt(f.str, p)
                   \/ StringAt(g.str, p) = r.to /\ MayChange(f, r, p)
    <3>1. CASE p = o
      BY <2>6, <2>7, <2>9, <3>1
    <3>2. CASE p # o
      BY <2>8, <2>9, <3>2 DEF Kept
    <3> QED BY <3>1, <3>2
  <2>11. Kept(f, r, g)
    BY <2>9, <2>10 DEF Kept
  <2> QED BY <2>11 DEF g
<1> QED BY <1>1, <1>2, <1>3

\* A rename that writes the string over, where nothing else has it, changes no
\* name but of symbols it means.
LEMMA PlaceExact ==
  ASSUME NEW f \in Files, NEW r \in Renames, ~IsTail(r), ~FromShared(f, r)
  PROVE  Exact(f, r, Rename(f, r))
<1> DEFINE m == SymbolCount(f)
           g == Rename(f, r)
<1>1. CASE Len(r.to) > Len(r.from)
  <2>1. Rename(f, r) = f
    BY <1>1 DEF Rename
  <2> QED BY <2>1 DEF Exact
<1>2. CASE Len(r.to) <= Len(r.from)
  <2>1. m \in Nat /\ m <= Len(f.entries) /\ Len(f.entries) \in Nat /\ f.n \in Nat
    BY Counted, FileFacts
  <2>2. PICK c : Turns(f, r, c) /\ g = c[m]
    BY <1>2, RenameTurns
  <2> DEFINE In == {k \in Nat : k <= m => Kept(f, r, c[k])}
  <2>3. 0 \in In
    <3>1. c[0] = f
      BY <2>2 DEF Turns
    <3>2. \A p \in Refs(f) : IsString(f.str, p)
      BY FilesAssumption
    <3> QED BY <3>1, <3>2 DEF Kept
  <2>4. ASSUME NEW k \in Nat, k \in In PROVE k + 1 \in In
    <3> SUFFICES ASSUME k + 1 <= m PROVE Kept(f, r, c[k+1])
      OBVIOUS
    <3>1. k \in 0..m /\ k + 1 \in 1..m /\ (k + 1) - 1 = k /\ k + 1 \in 1..Len(f.entries)
      BY <2>1
    <3>2. c[k] \in Turned(f, r) /\ c[k+1] = RenameAt(c[k], r, k + 1)
      BY <2>2, <3>1 DEF Turns
    <3>3. Kept(f, r, c[k])
      BY <2>1, <2>4, <3>1
    <3> QED BY <1>2, <3>1, <3>2, <3>3, PlaceTurn
  <2>5. Nat \subseteq In
    <3> HIDE DEF In
    <3> QED BY <2>3, <2>4, SetInduction
  <2>6. Kept(f, r, g)
    BY <2>1, <2>2, <2>5
  <2> HIDE DEF g, m
  <2>7. ASSUME NEW i \in 1..f.n
        PROVE  \/ NameIn(g, i) = NameIn(f, i)
               \/ NameIn(g, i) = r.to /\ Meant(f, r, i)
    <3> DEFINE p == f.entries[i].name
    <3>1. p \in Refs(f) /\ g.entries = f.entries
      BY <2>6 DEF Refs, Kept
    <3>2. CASE StringAt(g.str, p) = StringAt(f.str, p)
      BY <3>1, <3>2 DEF NameIn
    <3>3. CASE StringAt(g.str, p) = r.to /\ MayChange(f, r, p)
      <4>1. f.entries[i].undef /\ NameIn(f, i) = r.from /\ NameIn(g, i) = r.to
        BY <3>1, <3>3 DEF MayChange, NameIn
      <4>2. f.symoffset = 0 \/ i < f.symoffset
        <5> SUFFICES ASSUME f.symoffset # 0, ~(i < f.symoffset) PROVE FALSE
          OBVIOUS
        <5>1. f.symoffset \in Nat /\ f.symoffset # 1
          BY <3>3, FileFacts DEF MayChange
        <5>2. Chains(f) # {}
          BY <2>1, <5>1, FilesAssumption
        <5>3. i \in Hashed(f)
          BY <2>1, <5>1, <5>2 DEF Hashed
        <5> QED BY <4>1, <5>3, FilesAssumption
      <4> QED BY <4>1, <4>2 DEF Meant
    <3> QED BY <2>6, <3>1, <3>2, <3>3 DEF Kept
  <2>8. \A i \in f.n + 1..Len(f.entries) : g.entries[i] = f.entries[i]
    BY <2>6 DEF Kept
  <2>9. \A o \in f.others : StringAt(g.str, o) = StringAt(f.str, o)
    BY <2>6 DEF Kept, Refs, MayChange
  <2>10. Exact(f, r, g)
    BY <2>7, <2>8, <2>9 DEF Exact
  <2> QED BY <2>10 DEF g
<1>3. Len(r.to) \in Nat /\ Len(r.from) \in Nat
  BY TurnedFacts
<1> QED BY <1>1, <1>2, <1>3

\* The count is exact wherever a symbol is hashed or a DT_HASH says it; a rename
\* to the tail of the name renames all the symbols meant, one that writes the
\* string over no other, where the name is not shared.
LEMMA RenamesAreRight == RenamesRight
<1>1. ASSUME NEW f \in Files
      PROVE  f.sysv \/ Chains(f) # {} => SymbolCount(f) = f.n
  BY Counted
<1>2. ASSUME NEW f \in Files, NEW r \in Renames, IsTail(r) \/ ~FromShared(f, r)
      PROVE  Exact(f, r, Rename(f, r))
  BY <1>2, TailExact, PlaceExact
<1>3. \A f \in Files, r \in Renames :
        IsTail(r) \/ ~FromShared(f, r) => Exact(f, r, Rename(f, r))
  BY <1>2
<1>4. ASSUME NEW f \in Files, NEW r \in Renames, IsTail(r) \/ ~FromShared(f, r)
      PROVE  LET g == Rename(f, r)
                 Means(i) == /\ f.entries[i].undef /\ NameIn(f, i) = r.from
                             /\ f.symoffset = 0 \/ i < f.symoffset
             IN /\ \A i \in 1..f.n :
                     \/ NameIn(g, i) = NameIn(f, i) /\ ~(Means(i) /\ IsTail(r) /\ SymbolCount(f) # 0)
                     \/ NameIn(g, i) = r.to /\ Means(i)
                /\ \A i \in f.n + 1..Len(f.entries) : g.entries[i] = f.entries[i]
                /\ \A o \in f.others : StringAt(g.str, o) = StringAt(f.str, o)
  <2>1. Exact(f, r, Rename(f, r))
    BY <1>2, <1>4
  <2> QED BY <2>1 DEF Exact, Meant
<1> QED BY <1>1, <1>4 DEF RenamesRight

\* An object that is rewritten has the names changed that are to be, and no
\* others: RewriteExact, of cld_locate_dynsym and cld_rename_undef_symbol.
THEOREM RewriteIsExact == Spec => []RewriteExact
<1>1. RewriteExact
  BY RenamesAreRight DEF RewriteExact
<1> QED BY <1>1, PTL
=============================================================================
