--------------------------- MODULE VersionCompat ---------------------------
(***************************************************************************)
(* The forwarders of version-compat.c.  Once a host object's version tags  *)
(* are stripped its references are plain names, and for the few names      *)
(* glibc still exports at an obsolete version a plain name reaches the     *)
(* wrong definition.  The preload defines those names; each forwards to    *)
(* the DEFAULT definition, whose version cld_default_version_of reads out  *)
(* of the file that defines the name.  What was found is kept in one slot  *)
(* per name, without a lock.                                               *)
(*                                                                         *)
(* A definition is known by its version.  The loaded object has, of each   *)
(* name, a default definition, an obsolete one, or both; the file on disk  *)
(* may be out of reach for a while (no descriptor or memory left, another  *)
(* root directory) and may have been replaced since it was loaded.         *)
(***************************************************************************)
EXTENDS Integers, Sequences

CONSTANTS Threads,   \* the threads of the process
          Names,     \* the forwarded names
          Versions,  \* version names
          None,      \* no version, no definition, no name
          Worlds,    \* what is installed, records of the fields below
          MaxFaults  \* how often the file goes out of reach, or comes back

ASSUME NoneAssumption == None \notin Versions \cup Names
ASSUME FaultsAssumption == MaxFaults \in Nat

(***************************************************************************)
(* A world: default[n] and obsolete[n], the definitions of n in the object *)
(* after the preload, at least one of them; inFile[n], the version the     *)
(* file gives as n's default; newest, whether dlsym(RTLD_NEXT) picks the   *)
(* default; nested, the name that something which runs in the middle of    *)
(* the version's lookup calls (an allocator, a signal handler), or None.   *)
(***************************************************************************)
Defined == Versions \cup {None}
World == {w \in [default : [Names -> Defined], obsolete : [Names -> Defined],
                 inFile : [Names -> Defined], newest : BOOLEAN, nested : Names \cup {None}] :
            \A n \in Names : w.default[n] # None \/ w.obsolete[n] # None}

ASSUME WorldsAssumption == Worlds \subseteq World

VARIABLES world,
          readable, \* can the file be read now?
          faults,   \* how often that changed
          slot,     \* vc_slot_<name>
          busy,     \* vc_resolve's thread-local flag
          calls,    \* per thread, the calls in progress, the innermost last
          reached,  \* the definitions the calls of each name went to
          died      \* did vc_fatal abort the process?

vars == <<world, readable, faults, slot, busy, calls, reached, died>>

Frame == {f \in [name : Names, ver : Defined, ptr : Defined, nests : 0..1,
                  pc : {"load", "resolve", "version", "find", "store", "call"}] :
            f.pc \in {"store", "call"} => f.ptr # None}

Init == /\ world \in Worlds
        /\ readable = TRUE /\ faults = 0 /\ died = FALSE
        /\ slot = [n \in Names |-> None]
        /\ busy = [t \in Threads |-> FALSE]
        /\ calls = [t \in Threads |-> <<>>]
        /\ reached = [n \in Names |-> {}]
-----------------------------------------------------------------------------
\* The dynamic linker's lookups in the objects after the preload.
Dlsym(n) == IF world.obsolete[n] = None \/ (world.newest /\ world.default[n] # None)
            THEN world.default[n] ELSE world.obsolete[n]
Dlvsym(n, v) == IF v \in {world.default[n], world.obsolete[n]} THEN v ELSE None

\* cld_default_version_of: the entry of the name without the hidden bit in the
\* tables of the file dlsym's answer lives in; None without file or entry.
DefaultVersion(n) == IF readable THEN world.inFile[n] ELSE None
-----------------------------------------------------------------------------
At(t, pc) == calls[t] # <<>> /\ calls[t][Len(calls[t])].pc = pc /\ ~died
Top(t) == calls[t][Len(calls[t])]
Outer(t) == SubSeq(calls[t], 1, Len(calls[t]) - 1)
Goto(t, frame) == calls' = [calls EXCEPT ![t] = Append(Outer(t), frame)]
NewCall(n) == [name |-> n, pc |-> "load", ver |-> None, ptr |-> None, nests |-> 0]

\* A host object, or a bundled one, calls the name: the forwarder runs.
Call(t, n) ==
  /\ calls[t] = <<>> /\ ~died
  /\ calls' = [calls EXCEPT ![t] = <<NewCall(n)>>]
  /\ UNCHANGED <<world, readable, faults, slot, busy, reached, died>>

\* vc_get_<name>: the acquire load.
LoadSlot(t) ==
  /\ At(t, "load")
  /\ LET p == slot[Top(t).name]
     IN Goto(t, [Top(t) EXCEPT !.pc = IF p = None THEN "resolve" ELSE "call", !.ptr = p])
  /\ UNCHANGED <<world, readable, faults, slot, busy, reached, died>>

EnterResolve_NoGuard(t) ==
  /\ At(t, "resolve")
  /\ busy' = [busy EXCEPT ![t] = TRUE]
  /\ Goto(t, [Top(t) EXCEPT !.pc = "version"])
  /\ UNCHANGED <<world, readable, faults, slot, reached, died>>

EnterResolve_SharedGuard(t) ==
  /\ At(t, "resolve")
  /\ IF \E u \in Threads : busy[u]
     THEN Goto(t, [Top(t) EXCEPT !.pc = "find"]) /\ UNCHANGED busy
     ELSE Goto(t, [Top(t) EXCEPT !.pc = "version"]) /\ busy' = [busy EXCEPT ![t] = TRUE]
  /\ UNCHANGED <<world, readable, faults, slot, reached, died>>

\* vc_resolve asks for the version unless this thread is asking already.
EnterResolve(t) ==
  /\ At(t, "resolve")
  /\ IF busy[t] THEN Goto(t, [Top(t) EXCEPT !.pc = "find"]) /\ UNCHANGED busy
     ELSE Goto(t, [Top(t) EXCEPT !.pc = "version"]) /\ busy' = [busy EXCEPT ![t] = TRUE]
  /\ UNCHANGED <<world, readable, faults, slot, reached, died>>

\* Something called while the file is opened and parsed calls a forwarder.
Nest(t) ==
  /\ At(t, "version") /\ world.nested # None /\ Top(t).nests = 0
  /\ calls' = [calls EXCEPT ![t] =
                 Append(Append(Outer(t), [Top(t) EXCEPT !.nests = 1]), NewCall(world.nested))]
  /\ UNCHANGED <<world, readable, faults, slot, busy, reached, died>>

ReadVersion(t) ==
  /\ At(t, "version")
  /\ Goto(t, [Top(t) EXCEPT !.pc = "find", !.ver = DefaultVersion(Top(t).name)])
  /\ busy' = [busy EXCEPT ![t] = FALSE]
  /\ UNCHANGED <<world, readable, faults, slot, reached, died>>

Found_NoFallback(f) == IF f.ver # None THEN Dlvsym(f.name, f.ver) ELSE Dlsym(f.name)

\* dlvsym with the version, dlsym when there is none or nothing has it.
Found(f) == IF f.ver # None /\ Dlvsym(f.name, f.ver) # None
            THEN Dlvsym(f.name, f.ver) ELSE Dlsym(f.name)

Find(t) ==
  /\ At(t, "find")
  /\ IF Found(Top(t)) = None THEN died' = TRUE /\ UNCHANGED calls
     ELSE UNCHANGED died /\ Goto(t, [Top(t) EXCEPT !.pc = "store", !.ptr = Found(Top(t))])
  /\ UNCHANGED <<world, readable, faults, slot, busy, reached>>

\* The release store; a later one of another thread replaces it.
StoreSlot(t) ==
  /\ At(t, "store")
  /\ slot' = [slot EXCEPT ![Top(t).name] = Top(t).ptr]
  /\ Goto(t, [Top(t) EXCEPT !.pc = "call"])
  /\ UNCHANGED <<world, readable, faults, busy, reached, died>>

\* The call through the pointer, and its return.
Forward(t) ==
  /\ At(t, "call")
  /\ reached' = [reached EXCEPT ![Top(t).name] = @ \cup {Top(t).ptr}]
  /\ calls' = [calls EXCEPT ![t] = Outer(t)]
  /\ UNCHANGED <<world, readable, faults, slot, busy, died>>

\* The environment's: the file goes out of reach, or comes back.
Fault ==
  /\ faults < MaxFaults
  /\ readable' = ~readable /\ faults' = faults + 1
  /\ UNCHANGED <<world, slot, busy, calls, reached, died>>

Step(t) == \/ LoadSlot(t) \/ EnterResolve(t) \/ Nest(t) \/ ReadVersion(t)
           \/ Find(t) \/ StoreSlot(t) \/ Forward(t)

Next == (\E t \in Threads : Step(t) \/ \E n \in Names : Call(t, n)) \/ Fault

Spec == Init /\ [][Next]_vars

\* A thread inside a forwarder runs on.
FairSpec == Spec /\ \A t \in Threads : WF_vars(Step(t))
-----------------------------------------------------------------------------
\* The type, and the depth the flag holds a thread to: a call made in the
\* middle of a version's lookup is not interrupted by a lookup of its own.
TypeOK ==
  /\ world \in World
  /\ readable \in BOOLEAN /\ faults \in 0..MaxFaults /\ died \in BOOLEAN
  /\ slot \in [Names -> Defined]
  /\ busy \in [Threads -> BOOLEAN]
  /\ calls \in [Threads -> Seq(Frame)] /\ \A t \in Threads : Len(calls[t]) <= 2
  /\ reached \in [Names -> SUBSET Versions]

\* Every call of a forwarded name goes to the default definition if there is
\* one, whichever threads resolve it at once and whatever dlsym would answer,
\* unless the file was out of reach once, is not the file that was loaded, or
\* something calls a forwarder in the middle of a lookup.
Trustworthy == /\ faults = 0 /\ world.nested = None
               /\ \A n \in Names : world.inFile[n] = world.default[n]
CallsReachDefault ==
  Trustworthy =>
    \A n \in Names : world.default[n] # None => reached[n] \subseteq {world.default[n]}

\* What a slot holds never changes in such a process, also of a name without a
\* default: all calls of a name go to one definition.
SlotsNeverChange ==
  [][Trustworthy' => \A n \in Names : slot[n] # None => slot'[n] = slot[n]]_vars

\* "Cannot happen: every name here is one this libc exports": no call aborts,
\* whatever can and cannot be read, and every call gets through.
EveryCallGetsThrough == \A t \in Threads : calls[t] # <<>> ~> calls[t] = <<>>
=============================================================================
