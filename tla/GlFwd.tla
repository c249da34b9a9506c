------------------------------- MODULE GlFwd -------------------------------
(***************************************************************************)
(* The lazy resolution of one forwarding shim (gl-fwd.c, built as          *)
(* gl-fwd.so, egl-fwd.so and gles-fwd.so), reached by several threads.     *)
(*                                                                         *)
(* Every exported entry point is a trampoline through a slot of glfwd_tab. *)
(* A slot starts at the resolver.  The first call in the process loads the *)
(* host stack under a three-valued state word, one dlsym pass fills the    *)
(* address table, and each name's first caller moves its slot off the      *)
(* resolver with a compare-and-swap.  The load runs dlopen, which takes    *)
(* the dynamic linker's own lock and runs the host's constructors, and     *)
(* those may call an entry point of this very shim on the same thread.     *)
(*                                                                         *)
(* An address is named by the entry point it implements: Own stands for    *)
(* the shim's own trampolines, the address nothing may ever jump to.       *)
(***************************************************************************)
EXTENDS Integers, FiniteSets

CONSTANTS Threads,      \* threads of the process
          Main,         \* the thread that runs the shim's constructor
          Names,        \* the entry points of the table
          Resolver, Absent, Own, Null, None, \* addresses that name no entry point
          Lookers       \* threads whose own lookups may leave a dlerror() message

ASSUME ThreadAssumption ==
  IsFiniteSet(Threads) /\ Main \in Threads /\ Lookers \subseteq Threads

\* The addresses that implement no entry point are told apart from each other
\* and from those that do; no thread is called None.
ASSUME AddressAssumption ==
  /\ IsFiniteSet(Names)
  /\ {Resolver, Absent, Own, Null, None} \cap Names = {}
  /\ Resolver \notin {Absent, Own, Null, None}
  /\ Absent \notin {Own, Null, None}
  /\ Own \notin {Null, None} /\ Null # None
  /\ None \notin Threads \cup [Names -> Names \cup {Absent}]

VARIABLES
  eager,        \* CROSS_LIBC_DLOPEN_GL_EAGER, read by the constructor
  slot,         \* glfwd_tab
  addr,         \* glfwd_addr, all Null before the pass and when calloc failed
  loadState,    \* glfwd_load_state: 0 untried, 1 a thread is inside, 2 done
  inLoad,       \* glfwd_in_load, thread local
  target,       \* the object opened: "none", "shim" (refused or not), "host"
  refusedSelf,  \* glfwd_refused_self
  resolved,     \* glfwd_resolved_count
  calledFwd, calledAbsent, \* the two counters the exit report prints
  pc, cur, ret, \* each thread: where it is, the name called, where it returns to
  outer,        \* the call a loading thread was making when it entered the load
  todo,         \* names the eager loop has not stored yet
  reply,        \* the last <<name, answer>> a thread got
  dlOwner,      \* owner of the dynamic linker's recursive lock, or None
  inCtor,       \* thread is in a constructor run by the application's own dlopen
  dlmsg         \* what dlerror() would return on each thread

binding == <<slot, addr, loadState, target, refusedSelf, resolved>>
counters == <<calledFwd, calledAbsent>>
control == <<pc, cur, ret, outer, todo, inLoad>>
linker == <<dlOwner, inCtor>>
vars == <<eager, binding, counters, control, reply, linker, dlmsg>>

PCs == {"init", "idle", "ensure", "open", "ctors", "fill", "publish", "wait",
        "resolve", "count", "eager"}

Init ==
  /\ eager \in BOOLEAN
  /\ slot = [n \in Names |-> Resolver]
  /\ addr = [n \in Names |-> Null]
  /\ loadState = 0 /\ target = "none" /\ refusedSelf = FALSE /\ resolved = -1
  /\ calledFwd = 0 /\ calledAbsent = 0
  /\ pc = [t \in Threads |-> IF t = Main THEN "init" ELSE "idle"]
  /\ cur = [t \in Threads |-> None]
  /\ outer = [t \in Threads |-> None]
  /\ ret = [t \in Threads |-> "idle"]
  /\ inLoad = [t \in Threads |-> FALSE]
  /\ todo = {}
  /\ reply = [t \in Threads |-> {}]
  /\ dlOwner = None /\ inCtor = [t \in Threads |-> FALSE]
  /\ dlmsg = [t \in Threads |-> "none"]
-----------------------------------------------------------------------------
Goto(t, l) == pc' = [pc EXCEPT ![t] = l]

\* The dynamic linker's lock is recursive: free, or already this thread's.
DlFree(t) == dlOwner \in {None, t}

\* The tail jump: thread t's call to n lands on address a.
JumpTo(t, n, a) == reply' = [reply EXCEPT ![t] = {<<n, a>>}]

\* glfwd_resolve_one returns a: restore the arguments, jump, be back in the caller.
ReturnAndJump(t, a) == /\ JumpTo(t, cur[t], a)
                       /\ Goto(t, ret[t])

\* The constructor reads the environment; lazy mode does nothing else.
GlfwdInit(t) ==
  /\ pc[t] = "init"
  /\ Goto(t, IF eager THEN "ensure" ELSE "idle")
  /\ ret' = [ret EXCEPT ![t] = IF eager THEN "eager" ELSE "idle"]
  /\ UNCHANGED <<eager, binding, counters, cur, outer, todo, inLoad, reply, linker, dlmsg>>

\* A call through a trampoline: from the application, from a constructor of a
\* library it dlopens, or from a constructor of the host stack being loaded.
Trampoline(t, n) ==
  /\ pc[t] \in {"idle", "ctors"}
  /\ \/ /\ slot[n] = Resolver
        /\ cur' = [cur EXCEPT ![t] = n]
        /\ ret' = [ret EXCEPT ![t] = pc[t]]
        /\ Goto(t, "ensure")
        /\ UNCHANGED reply
     \/ /\ slot[n] # Resolver
        /\ JumpTo(t, n, slot[n])
        /\ UNCHANGED <<pc, cur, ret>>
  /\ UNCHANGED <<eager, binding, counters, outer, todo, inLoad, linker, dlmsg>>
-----------------------------------------------------------------------------
\* What a thread whose target is ready does next: the constructor's thread
\* goes on to its eager loop, a call goes on to its slot.
AfterEnsure(t) == IF ret[t] = "eager" THEN "eager" ELSE "resolve"

\* glfwd_ensure_target finds the load finished.
EnsureReady(t) ==
  /\ pc[t] \in {"ensure", "wait"}
  /\ loadState = 2
  /\ Goto(t, AfterEnsure(t))
  /\ todo' = IF AfterEnsure(t) = "eager" THEN Names ELSE todo
  /\ UNCHANGED <<eager, binding, counters, cur, ret, outer, inLoad, reply, linker, dlmsg>>

EnsureReentered_Cached(t) ==
  /\ pc[t] = "ensure" /\ loadState # 2 /\ inLoad[t]
  /\ ReturnAndJump(t, Absent)
  /\ slot' = [slot EXCEPT ![cur[t]] = Absent]
  /\ UNCHANGED <<eager, addr, loadState, target, refusedSelf, resolved, counters, cur,
                 ret, outer, todo, inLoad, linker, dlmsg>>

\* ... finds itself inside its own load: this one call gets zero and the slot
\* is left at the resolver.
EnsureReentered(t) ==
  /\ pc[t] = "ensure" /\ loadState # 2 /\ inLoad[t]
  /\ ReturnAndJump(t, Absent)
  /\ UNCHANGED <<eager, binding, counters, cur, ret, outer, todo, inLoad, linker, dlmsg>>

EnsureLoad_NoCas(t) ==
  /\ pc[t] = "ensure" /\ loadState # 2 /\ ~inLoad[t]
  /\ loadState' = 1
  /\ inLoad' = [inLoad EXCEPT ![t] = TRUE]
  /\ outer' = [outer EXCEPT ![t] = cur[t]]
  /\ Goto(t, "open")
  /\ UNCHANGED <<eager, slot, addr, target, refusedSelf, resolved, counters, cur, ret,
                 todo, reply, linker, dlmsg>>

\* ... wins the compare-and-swap and becomes the loading thread.
EnsureLoad(t) ==
  /\ pc[t] = "ensure" /\ loadState = 0 /\ ~inLoad[t]
  /\ loadState' = 1
  /\ inLoad' = [inLoad EXCEPT ![t] = TRUE]
  /\ outer' = [outer EXCEPT ![t] = cur[t]]
  /\ Goto(t, "open")
  /\ UNCHANGED <<eager, slot, addr, target, refusedSelf, resolved, counters, cur, ret,
                 todo, reply, linker, dlmsg>>

EnsureWait_NoReentry(t) ==
  /\ pc[t] = "ensure" /\ loadState = 1
  /\ Goto(t, "wait")
  /\ UNCHANGED <<eager, binding, counters, cur, ret, outer, todo, inLoad, reply, linker,
                 dlmsg>>

\* ... loses it: yield until the winner is done.
EnsureWait(t) ==
  /\ pc[t] = "ensure" /\ loadState = 1 /\ ~inLoad[t]
  /\ Goto(t, "wait")
  /\ UNCHANGED <<eager, binding, counters, cur, ret, outer, todo, inLoad, reply, linker,
                 dlmsg>>
-----------------------------------------------------------------------------
\* glfwd_open_target up to its dlopen of the chosen object: the query for
\* cross_libc_dlopen_init_now, whose miss is cleared with dlerror(), then
\* dlopen, which holds the linker's lock while the constructors run.
OpenTarget(t) ==
  /\ pc[t] = "open" /\ DlFree(t)
  /\ dlOwner' = t
  /\ dlmsg' = [dlmsg EXCEPT ![t] = "none"]
  /\ Goto(t, "ctors")
  /\ UNCHANGED <<eager, binding, counters, cur, ret, outer, todo, inLoad, reply, inCtor>>

LoadTarget_NoSelfCheck(t) ==
  /\ pc[t] = "ctors"
  /\ target' \in {"none", "shim", "host"}
  /\ dlOwner' = IF inCtor[t] THEN t ELSE None
  /\ dlmsg' = [dlmsg EXCEPT ![t] = "none"]
  /\ Goto(t, "fill")
  /\ UNCHANGED <<eager, slot, addr, loadState, refusedSelf, resolved, counters, cur, ret,
                 outer, todo, inLoad, reply, inCtor>>

\* The dlopen returns and releases the lock; an object that resolves back to
\* this shim is refused.  Every way out of glfwd_load_target reads dlerror().
LoadTarget(t) ==
  /\ pc[t] = "ctors"
  /\ \E opened \in {"none", "shim", "host"} :
       /\ target' = IF opened = "shim" THEN "none" ELSE opened
       /\ refusedSelf' = (opened = "shim")
  /\ dlOwner' = IF inCtor[t] THEN t ELSE None
  /\ dlmsg' = [dlmsg EXCEPT ![t] = "none"]
  /\ Goto(t, "fill")
  /\ UNCHANGED <<eager, slot, addr, loadState, resolved, counters, cur, ret, outer,
                 todo, inLoad, reply, inCtor>>

\* One dlsym pass over every name: from the target (or its GetProcAddress),
\* from the next provider in scope when there is no target, from nothing after
\* a refusal or when the table cannot be allocated.  Needs the linker's lock.
FillAddr(t) ==
  /\ pc[t] = "fill" /\ DlFree(t)
  /\ \/ UNCHANGED <<addr, resolved>>
     \/ \E found \in SUBSET Names :
          /\ refusedSelf => found = {}
          /\ addr' = [n \in Names |-> IF n \notin found THEN Null
                                      ELSE IF target = "shim" THEN Own ELSE n]
          /\ resolved' = Cardinality(found)
  /\ dlmsg' = [dlmsg EXCEPT ![t] = "none"]
  /\ Goto(t, "publish")
  /\ UNCHANGED <<eager, slot, loadState, target, refusedSelf, counters, cur, ret, outer,
                 todo, inLoad, reply, linker>>

Publish_NoStore(t) ==
  /\ pc[t] = "publish"
  /\ inLoad' = [inLoad EXCEPT ![t] = FALSE]
  /\ Goto(t, "idle")
  /\ UNCHANGED <<eager, binding, counters, cur, ret, outer, todo, reply, linker, dlmsg>>

\* glfwd_ensure_target leaves the load: clear the guard, publish with release.
Publish(t) ==
  /\ pc[t] = "publish"
  /\ inLoad' = [inLoad EXCEPT ![t] = FALSE]
  /\ loadState' = 2
  /\ cur' = [cur EXCEPT ![t] = outer[t]]
  /\ outer' = [outer EXCEPT ![t] = None]
  /\ ret' = [ret EXCEPT ![t] = IF outer[t] = None THEN "eager" ELSE "idle"]
  /\ Goto(t, IF outer[t] = None THEN "eager" ELSE "resolve")
  /\ todo' = IF outer[t] = None THEN Names ELSE todo
  /\ UNCHANGED <<eager, slot, addr, target, refusedSelf, resolved, counters, reply, linker,
                 dlmsg>>
-----------------------------------------------------------------------------
\* What the resolver answers for n once the table is filled.
Answer(n) == IF addr[n] = Null THEN Absent ELSE addr[n]

Resolve_CountAlways(t) ==
  /\ pc[t] = "resolve"
  /\ slot' = [slot EXCEPT ![cur[t]] = Answer(cur[t])]
  /\ Goto(t, "count")
  /\ UNCHANGED <<eager, addr, loadState, target, refusedSelf, resolved, counters, cur,
                 ret, outer, todo, inLoad, reply, linker, dlmsg>>

Resolve_DlsymPerName(t) ==
  /\ pc[t] = "resolve"
  /\ IF slot[cur[t]] = Resolver
     THEN /\ slot' = [slot EXCEPT ![cur[t]] = Answer(cur[t])]
          /\ Goto(t, "count")
          /\ UNCHANGED reply
     ELSE ReturnAndJump(t, Answer(cur[t])) /\ UNCHANGED slot
  /\ dlmsg' = [dlmsg EXCEPT ![t] = "none"]
  /\ UNCHANGED <<eager, addr, loadState, target, refusedSelf, resolved, counters, cur,
                 ret, outer, todo, inLoad, linker>>

\* glfwd_resolve_one moves the slot off the resolver, or finds that another
\* thread has: only the one that moved it goes on to count.
Resolve(t) ==
  /\ pc[t] = "resolve"
  /\ \/ /\ slot[cur[t]] = Resolver
        /\ slot' = [slot EXCEPT ![cur[t]] = Answer(cur[t])]
        /\ Goto(t, "count")
        /\ UNCHANGED reply
     \/ /\ slot[cur[t]] # Resolver
        /\ ReturnAndJump(t, Answer(cur[t]))
        /\ UNCHANGED slot
  /\ UNCHANGED <<eager, addr, loadState, target, refusedSelf, resolved, counters, cur,
                 ret, outer, todo, inLoad, linker, dlmsg>>

\* The counters, one atomic add after the compare-and-swap.
CountCall(t) ==
  /\ pc[t] = "count"
  /\ \/ /\ addr[cur[t]] # Null
        /\ calledFwd' = calledFwd + 1 /\ UNCHANGED calledAbsent
     \/ /\ addr[cur[t]] = Null
        /\ calledAbsent' = calledAbsent + 1 /\ UNCHANGED calledFwd
  /\ ReturnAndJump(t, Answer(cur[t]))
  /\ UNCHANGED <<eager, binding, cur, ret, outer, todo, inLoad, linker, dlmsg>>

\* One plain store of the eager loop: only the names that resolved.
EagerStore(t) ==
  /\ pc[t] = "eager"
  /\ \E n \in todo :
       /\ slot' = IF addr[n] = Null THEN slot ELSE [slot EXCEPT ![n] = addr[n]]
       /\ todo' = todo \ {n}
  /\ UNCHANGED <<eager, addr, loadState, target, refusedSelf, resolved, counters, pc, cur,
                 ret, outer, inLoad, reply, linker, dlmsg>>

EagerDone(t) ==
  /\ pc[t] = "eager" /\ todo = {}
  /\ Goto(t, "idle")
  /\ ret' = [ret EXCEPT ![t] = "idle"]
  /\ UNCHANGED <<eager, binding, counters, cur, outer, todo, inLoad, reply, linker, dlmsg>>
-----------------------------------------------------------------------------
\* The application's own use of the dynamic linker (not the shim's code).
AppDlopen(t) ==
  /\ pc[t] = "idle" /\ dlOwner = None
  /\ dlOwner' = t
  /\ inCtor' = [inCtor EXCEPT ![t] = TRUE]
  /\ UNCHANGED <<eager, binding, counters, control, reply, dlmsg>>

AppDlopenReturns(t) ==
  /\ pc[t] = "idle" /\ inCtor[t]
  /\ dlOwner' = None
  /\ inCtor' = [inCtor EXCEPT ![t] = FALSE]
  /\ UNCHANGED <<eager, binding, counters, control, reply, dlmsg>>

\* A lookup of the application's fails and leaves it a message to read.
AppLookupFails(t) ==
  /\ t \in Lookers
  /\ pc[t] = "idle" /\ ~inCtor[t] /\ dlmsg[t] = "none"
  /\ dlmsg' = [dlmsg EXCEPT ![t] = "app"]
  /\ UNCHANGED <<eager, binding, counters, control, reply, linker>>

AppReadsDlerror(t) ==
  /\ pc[t] = "idle" /\ ~inCtor[t] /\ dlmsg[t] = "app"
  /\ dlmsg' = [dlmsg EXCEPT ![t] = "none"]
  /\ UNCHANGED <<eager, binding, counters, control, reply, linker>>
-----------------------------------------------------------------------------
Load(t) == OpenTarget(t) \/ LoadTarget(t) \/ FillAddr(t) \/ Publish(t)

Shim(t) == \/ GlfwdInit(t)
           \/ EnsureReady(t) \/ EnsureReentered(t) \/ EnsureLoad(t) \/ EnsureWait(t)
           \/ Load(t)
           \/ Resolve(t) \/ CountCall(t) \/ EagerStore(t) \/ EagerDone(t)

App(t) == \/ \E n \in Names : Trampoline(t, n)
          \/ AppDlopen(t) \/ AppDlopenReturns(t)
          \/ AppLookupFails(t) \/ AppReadsDlerror(t)

Next == \E t \in Threads : Shim(t) \/ App(t)

Spec == Init /\ [][Next]_vars

\* Every thread inside the shim keeps running; the linker's lock is handed to
\* a thread that keeps asking for it; a constructor that is run comes to its
\* end, however many entry points it calls on the way.
Fairness ==
  \A t \in Threads :
    /\ WF_vars(Shim(t))
    /\ SF_vars(OpenTarget(t)) /\ SF_vars(LoadTarget(t)) /\ SF_vars(FillAddr(t))
    /\ SF_vars(AppDlopenReturns(t))

FairSpec == Spec /\ Fairness
-----------------------------------------------------------------------------
\* Type invariant.
TypeOK ==
  /\ eager \in BOOLEAN
  /\ slot \in [Names -> Names \cup {Resolver, Absent}]
  /\ addr \in [Names -> Names \cup {Null}]
  /\ loadState \in 0..2
  /\ inLoad \in [Threads -> BOOLEAN]
  /\ target \in {"none", "host"}
  /\ refusedSelf \in BOOLEAN
  /\ resolved \in -1..Cardinality(Names)
  /\ calledFwd \in Nat /\ calledAbsent \in Nat
  /\ pc \in [Threads -> PCs]
  /\ cur \in [Threads -> Names \cup {None}]
  /\ ret \in [Threads -> {"idle", "ctors", "eager"}]
  /\ outer \in [Threads -> Names \cup {None}]
  /\ todo \in SUBSET Names
  /\ reply \in [Threads -> SUBSET (Names \X (Names \cup {Absent}))]
  /\ dlOwner \in Threads \cup {None}
  /\ inCtor \in [Threads -> BOOLEAN]
  /\ dlmsg \in [Threads -> {"none", "app"}]

\* At most one thread is ever inside the load, and loadState says so.
OneLoader == /\ \A t, u \in Threads : inLoad[t] /\ inLoad[u] => t = u
             /\ \A t \in Threads : inLoad[t] => loadState = 1

\* Where a thread can be, given the load: only the loading thread is between
\* open and publish, only a finished load lets a call near its slot, and a call
\* carries the name it is for.
Placed(t) ==
  /\ pc[t] \in {"init", "idle"} => ~inLoad[t]
  /\ pc[t] \in {"open", "ctors", "fill", "publish"} => inLoad[t]
  /\ pc[t] \in {"resolve", "count", "eager"} => loadState = 2
  /\ pc[t] \in {"resolve", "count"} => cur[t] \in Names /\ ret[t] = "idle"
  /\ pc[t] \in {"ensure", "wait"} => cur[t] \in Names \/ ret[t] = "eager"
  /\ pc[t] = "ensure" => (inLoad[t] <=> ret[t] = "ctors")
  /\ pc[t] = "wait" => ~inLoad[t] /\ ret[t] # "ctors"
  /\ pc[t] = "count" => slot[cur[t]] = Answer(cur[t])

\* Nothing is bound before the load is over, and what is bound after it is what
\* the table answers.
BoundToAnswer ==
  \A n \in Names : slot[n] = Resolver \/ (loadState = 2 /\ slot[n] = Answer(n))

\* Why the answers are stable: together the three are inductive.
LoadInv == OneLoader /\ (\A t \in Threads : Placed(t)) /\ BoundToAnswer

\* The shim implements the promise of LazyBinding: one provider per process, a
\* slot that moves once and to that provider's answer, and two threads that
\* race on a name sent to the same address.  (The zero a re-entrant call gets
\* is an answer of the undecided phase: it is never written to the slot.)
LB == INSTANCE LazyBinding WITH
        Answers <- Names \cup {Absent}, Undecided <- None, Unbound <- Resolver,
        provider <- IF loadState = 2 THEN [n \in Names |-> Answer(n)] ELSE None,
        bound <- slot

ImplementsLazyBinding == LB!Spec

\* The report's numbers can be divided by each other: no more names were called
\* through than the one dlsym pass resolved, eager mode or not.
CalledWithinResolved ==
  calledFwd <= Cardinality({n \in Names : addr[n] # Null})

\* A message the application has not read is only ever taken by the one load,
\* on the loading thread; no other GL call costs it one.
DlerrorTakenOnlyByLoad ==
  [][\A t \in Threads :
       dlmsg[t] = "app" /\ dlmsg'[t] # "app" => inLoad[t] \/ AppReadsDlerror(t)]_vars

\* "Another thread got there first. It is inside a dlopen, which finishes."
LoadFinishes == (loadState = 1) ~> (loadState = 2)

\* Who runs constructors has the linker's lock.
LinkerInv ==
  \A t \in Threads :
    inCtor[t] \/ pc[t] = "ctors" \/ (pc[t] = "ensure" /\ ret[t] = "ctors") => dlOwner = t

\* The crossed waits: the loading thread asks for the linker's lock while the
\* thread that holds it, drawing in a constructor of a library it dlopens,
\* waits for the load.
CrossedBy(t, u) ==
  /\ loadState = 1 /\ inLoad[t] /\ pc[t] \in {"open", "fill"}
  /\ t # u /\ dlOwner = u /\ pc[u] \in {"ensure", "wait"}

Crossed == \E t, u \in Threads : CrossedBy(t, u)

\* That is the only way in which a load does not finish ...
LoadFinishesUnlessCrossed == (loadState = 1) ~> (loadState = 2 \/ Crossed)

\* ... or a call that enters the shim does not leave it again, whoever loads.
CallsReturnUnlessCrossed ==
  \A t \in Threads : (pc[t] # "idle") ~> (pc[t] = "idle" \/ Crossed)

\* And there is no way out of it: the two threads wait for each other for good.
CrossedForGood == [][Crossed => Crossed']_vars
=============================================================================
