------------------------------ MODULE EmitCopy ------------------------------
(***************************************************************************)
(* The private copies of one host library in the runtime directory         *)
(* (cld_emit_copy, sweep_stale_cld_tmp and the dlopen of what was emitted, *)
(* cross-libc-dlopen.c).  The copy's name is a hash of the library's path  *)
(* and of the file's length, so every process of the user, and every       *)
(* thread of a process, that rewrites this library uses the same name.     *)
(***************************************************************************)
EXTENDS Integers, FiniteSets

CONSTANTS Procs,     \* who rewrites the library
          Content,   \* Content[p]: what p's rewriting makes of it
          None,      \* no file
          Whole,     \* the length of the file, in writes
          Crashes,   \* may a process be killed on the way?
          FullDisk,  \* may a write fall short?
          Sweeps     \* does one sweep the directory when it starts?

\* A file: its bytes, how many of them are there, and is it older than a day?
File == [content : {Content[p] : p \in Procs}, len : 0..Whole, old : BOOLEAN]
New(p, n) == [content |-> Content[p], len |-> n, old |-> FALSE]
Aged(f, o) == [content |-> f.content, len |-> f.len, old |-> o]

ASSUME CopyAssumption == Whole \in Nat \ {0} /\ None \notin File

VARIABLES pc,
          tmpfile,   \* can the directory have a nameless file, and may it be given a name?
          final,     \* what the deterministic name names
          temps,     \* the files mkstemp made, by who made them
          buf,       \* how much of its file a process has written
          seen,      \* what a sweep found when it looked at the name
          got        \* what the linker opened for a process, None if there was nothing

vars == <<pc, tmpfile, final, temps, buf, seen, got>>

PCs == {"start", "sweep", "ready", "open", "write", "link", "mkstemp", "rewrite",
        "rename", "dlopen", "failed", "done", "crashed"}

Init == /\ pc = [p \in Procs |-> IF Sweeps THEN "start" ELSE "ready"]
        /\ tmpfile \in {"no", "unlinkable", "yes"}
        /\ final \in {None} \cup {Aged(New(p, Whole), o) : p \in Procs, o \in BOOLEAN}
        /\ temps = [p \in Procs |-> None]
        /\ buf = [p \in Procs |-> 0]
        /\ seen = [p \in Procs |-> FALSE]
        /\ got = [p \in Procs |-> None]

Goto(p, l) == pc' = [pc EXCEPT ![p] = l]
-----------------------------------------------------------------------------
\* The constructor's sweep looks at a name's age, ...
SweepLooks(p) ==
  /\ pc[p] = "start"
  /\ seen' = [seen EXCEPT ![p] = final # None /\ final.old]
  /\ Goto(p, "sweep")
  /\ UNCHANGED <<tmpfile, final, temps, buf, got>>

\* ... and removes what was older than a day; what crashed processes left goes too.
SweepRemoves(p) ==
  /\ pc[p] = "sweep"
  /\ final' = IF seen[p] THEN None ELSE final
  /\ temps' = [q \in Procs |-> IF temps[q] # None /\ temps[q].old THEN None ELSE temps[q]]
  /\ Goto(p, "ready")
  /\ UNCHANGED <<tmpfile, buf, seen, got>>

\* unlink(final)
Unlink(p) ==
  /\ pc[p] = "ready"
  /\ final' = None
  /\ buf' = [buf EXCEPT ![p] = 0]
  /\ Goto(p, "open")
  /\ UNCHANGED <<tmpfile, temps, seen, got>>

OpenTmpfile(p) ==
  /\ pc[p] = "open"
  /\ Goto(p, IF tmpfile = "no" THEN "mkstemp" ELSE "write")
  /\ UNCHANGED <<tmpfile, final, temps, buf, seen, got>>

Write_PastEnd(p) ==
  /\ pc[p] = "write"
  /\ \/ buf' = [buf EXCEPT ![p] = @ + 1] /\ UNCHANGED pc
     \/ buf[p] >= Whole /\ Goto(p, "link") /\ UNCHANGED buf
  /\ UNCHANGED <<tmpfile, final, temps, seen, got>>

\* The nameless file is written; short, it is given up for a named one.
Write(p) ==
  /\ pc[p] = "write"
  /\ \/ /\ buf[p] < Whole
        /\ buf' = [buf EXCEPT ![p] = @ + 1] /\ UNCHANGED pc
     \/ /\ FullDisk /\ buf[p] < Whole
        /\ Goto(p, "mkstemp") /\ UNCHANGED buf
     \/ /\ buf[p] = Whole
        /\ Goto(p, "link") /\ UNCHANGED buf
  /\ UNCHANGED <<tmpfile, final, temps, seen, got>>

\* linkat gives it the name, unless somebody else has it by now or the process
\* may not name a nameless file.
Link(p) ==
  /\ pc[p] = "link"
  /\ IF final = None /\ tmpfile = "yes" THEN final' = New(p, buf[p]) /\ Goto(p, "dlopen")
                     ELSE UNCHANGED final /\ Goto(p, "mkstemp")
  /\ UNCHANGED <<tmpfile, temps, buf, seen, got>>

Mkstemp(p) ==
  /\ pc[p] = "mkstemp"
  /\ \/ /\ temps' = [temps EXCEPT ![p] = New(p, 0)]
        /\ buf' = [buf EXCEPT ![p] = 0]
        /\ Goto(p, "rewrite")
     \/ FullDisk /\ Goto(p, "failed") /\ UNCHANGED <<temps, buf>>
  /\ UNCHANGED <<tmpfile, final, seen, got>>

Rewrite_IgnoresShort(p) ==
  /\ pc[p] = "rewrite"
  /\ \/ /\ buf[p] < Whole
        /\ buf' = [buf EXCEPT ![p] = @ + 1]
        /\ temps' = [temps EXCEPT ![p] = New(p, buf[p] + 1)]
        /\ UNCHANGED pc
     \/ /\ FullDisk \/ buf[p] = Whole
        /\ Goto(p, "rename") /\ UNCHANGED <<buf, temps>>
  /\ UNCHANGED <<tmpfile, final, seen, got>>

\* The named one is written; short, the copy is given up and the file stays.
Rewrite(p) ==
  /\ pc[p] = "rewrite"
  /\ \/ /\ buf[p] < Whole
        /\ buf' = [buf EXCEPT ![p] = @ + 1]
        /\ temps' = [temps EXCEPT ![p] = New(p, buf[p] + 1)]
        /\ UNCHANGED pc
     \/ /\ FullDisk /\ buf[p] < Whole
        /\ Goto(p, "failed") /\ UNCHANGED <<buf, temps>>
     \/ /\ buf[p] = Whole
        /\ Goto(p, "rename") /\ UNCHANGED <<buf, temps>>
  /\ UNCHANGED <<tmpfile, final, seen, got>>

Rename_Copies(p) ==
  /\ pc[p] = "rename"
  /\ final' = temps[p]
  /\ Goto(p, "dlopen")
  /\ UNCHANGED <<tmpfile, temps, buf, seen, got>>

\* rename replaces whatever has the name, at once; or fails and the file goes.
Rename(p) ==
  /\ pc[p] = "rename"
  /\ temps' = [temps EXCEPT ![p] = None]
  /\ \/ final' = temps[p] /\ Goto(p, "dlopen")
     \/ FullDisk /\ UNCHANGED final /\ Goto(p, "failed")
  /\ UNCHANGED <<tmpfile, buf, seen, got>>

\* The linker opens what the name names by now.
Dlopen(p) ==
  /\ pc[p] = "dlopen"
  /\ got' = [got EXCEPT ![p] = final]
  /\ Goto(p, "done")
  /\ UNCHANGED <<tmpfile, final, temps, buf, seen>>

\* A process is killed: a nameless file goes with it, a named one stays.
Crash(p) ==
  /\ Crashes /\ pc[p] \notin {"done", "failed", "crashed"}
  /\ Goto(p, "crashed")
  /\ UNCHANGED <<tmpfile, final, temps, buf, seen, got>>

\* A day passes, while nobody is writing a named file or about to open his.
DayPasses ==
  /\ \/ final # None /\ ~final.old
     \/ \E p \in Procs : temps[p] # None /\ ~temps[p].old
  /\ final' = IF final = None THEN None ELSE Aged(final, TRUE)
  /\ \A p \in Procs : temps[p] # None => pc[p] \in {"failed", "crashed"}
  /\ \A p \in Procs : pc[p] # "dlopen"
  /\ temps' = [p \in Procs |-> IF temps[p] = None THEN None ELSE Aged(temps[p], TRUE)]
  /\ UNCHANGED <<pc, tmpfile, buf, seen, got>>

Step(p) == \/ SweepLooks(p) \/ SweepRemoves(p) \/ Unlink(p) \/ OpenTmpfile(p) \/ Write(p)
           \/ Link(p) \/ Mkstemp(p) \/ Rewrite(p) \/ Rename(p) \/ Dlopen(p) \/ Crash(p)

Next == (\E p \in Procs : Step(p)) \/ DayPasses

Spec == Init /\ [][Next]_vars
-----------------------------------------------------------------------------
\* A copy is of the file's length, and no more of one is written.
TypeOK ==
  /\ pc \in [Procs -> PCs] /\ tmpfile \in {"no", "unlinkable", "yes"}
  /\ final \in File \cup {None}
  /\ temps \in [Procs -> File \cup {None}]
  /\ buf \in [Procs -> 0..Whole] /\ seen \in [Procs -> BOOLEAN]
  /\ got \in [Procs -> File \cup {None}]

\* "atomically place it under the deterministic name": whatever the others do,
\* run out of space or are killed at, the name never names a torn file, and no
\* process loads one.
NeverTorn ==
  /\ final # None => final.len = Whole
  /\ \A p \in Procs : got[p] # None => got[p].len = Whole

\* Why: a file is only given the name once it is written to the end, and none
\* that is being written gets old enough for a sweep.
Written ==
  \A p \in Procs :
    /\ temps[p] # None /\ temps[p].old => pc[p] \in {"failed", "crashed"}
    /\ pc[p] = "link" => buf[p] = Whole
    /\ pc[p] = "rewrite" => temps[p] # None /\ temps[p].len = buf[p]
    /\ pc[p] = "rename" => temps[p] # None /\ temps[p].len = Whole

\* "repeated runs overwrite instead of filling up the runtime dir": a file
\* under another name is one being written, or its writer was killed or had no
\* room for all of it.
OnlyUnfinishedRemain ==
  \A p \in Procs : temps[p] # None =>
    \/ pc[p] \in {"rewrite", "rename", "crashed"}
    \/ pc[p] = "failed" /\ temps[p].len < Whole
=============================================================================
