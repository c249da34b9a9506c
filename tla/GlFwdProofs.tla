---------------------------- MODULE GlFwdProofs ----------------------------
(* Proofs about GlFwd for every set of threads and entry points. *)
EXTENDS GlFwd, FiniteSetTheorems, TLAPS

\* The number of entry points that resolve is one the report can print.
LEMMA FoundCount ==
  ASSUME NEW found \in SUBSET Names
  PROVE  Cardinality(found) \in 0..Cardinality(Names)
<1>1. /\ IsFiniteSet(found) /\ Cardinality(found) <= Cardinality(Names)
      /\ Cardinality(Names) \in Nat
  BY AddressAssumption, FS_Subset, FS_CardinalityType
<1> QED BY <1>1, FS_CardinalityType

-----------------------------------------------------------------------------
\* The initial state has the types.
LEMMA InitType == Init => TypeOK
<1> USE ThreadAssumption, AddressAssumption
<1> SUFFICES ASSUME Init PROVE TypeOK
  OBVIOUS
<1>1. Cardinality(Names) \in Nat
  BY FS_CardinalityType
<1>2. pc \in [Threads -> PCs]
  BY DEF Init, PCs
<1>3. resolved \in -1..Cardinality(Names)
  BY <1>1 DEF Init
<1>4. reply \in [Threads -> SUBSET (Names \X (Names \cup {Absent}))]
  BY DEF Init
<1>5. /\ slot \in [Names -> Names \cup {Resolver, Absent}]
      /\ addr \in [Names -> Names \cup {Null}]
      /\ dlOwner \in Threads \cup {None} /\ inCtor \in [Threads -> BOOLEAN]
      /\ dlmsg \in [Threads -> {"none", "app"}]
  BY DEF Init
<1>6. /\ inLoad \in [Threads -> BOOLEAN]
      /\ ret \in [Threads -> {"idle", "ctors", "eager"}]
      /\ cur \in [Threads -> Names \cup {None}]
      /\ outer \in [Threads -> Names \cup {None}]
  BY DEF Init
<1>7. eager \in BOOLEAN /\ refusedSelf \in BOOLEAN
  BY DEF Init
<1>8. /\ loadState \in 0..2 /\ target \in {"none", "host"} /\ todo \in SUBSET Names
      /\ calledFwd \in Nat /\ calledAbsent \in Nat
  BY DEF Init
<1> QED BY <1>2, <1>3, <1>4, <1>5, <1>6, <1>7, <1>8 DEF TypeOK

\* One step per action: what it assigns stays in its type.
LEMMA NextType == TypeOK /\ LoadInv /\ [Next]_vars => TypeOK'
<1> SUFFICES ASSUME TypeOK, LoadInv, [Next]_vars PROVE TypeOK'
  OBVIOUS
<1> USE ThreadAssumption, AddressAssumption
    DEF TypeOK, PCs, Goto, JumpTo, ReturnAndJump, binding, counters, control, linker
<1>1. ASSUME NEW t \in Threads, GlfwdInit(t) PROVE TypeOK'
  BY <1>1 DEF GlfwdInit
<1>2. ASSUME NEW t \in Threads, EnsureReady(t) PROVE TypeOK'
  BY <1>2 DEF EnsureReady, AfterEnsure
<1>3. ASSUME NEW t \in Threads, EnsureReentered(t) PROVE TypeOK'
  BY <1>3 DEF EnsureReentered, LoadInv, OneLoader, Placed
<1>4. ASSUME NEW t \in Threads, EnsureLoad(t) PROVE TypeOK'
  BY <1>4 DEF EnsureLoad
<1>5. ASSUME NEW t \in Threads, EnsureWait(t) PROVE TypeOK'
  BY <1>5 DEF EnsureWait
<1>6. ASSUME NEW t \in Threads, OpenTarget(t) PROVE TypeOK'
  BY <1>6 DEF OpenTarget
<1>7. ASSUME NEW t \in Threads, LoadTarget(t) PROVE TypeOK'
  BY <1>7 DEF LoadTarget
<1>8. ASSUME NEW t \in Threads, FillAddr(t) PROVE TypeOK'
  BY <1>8, FoundCount DEF FillAddr
<1>9. ASSUME NEW t \in Threads, Publish(t) PROVE TypeOK'
  BY <1>9 DEF Publish
<1>10. ASSUME NEW t \in Threads, Resolve(t) PROVE TypeOK'
  BY <1>10 DEF Resolve, LoadInv, OneLoader, Placed, Answer
<1>11. ASSUME NEW t \in Threads, CountCall(t) PROVE TypeOK'
  BY <1>11 DEF CountCall, LoadInv, OneLoader, Placed, Answer
<1>12. ASSUME NEW t \in Threads, EagerStore(t) PROVE TypeOK'
  BY <1>12 DEF EagerStore
<1>13. ASSUME NEW t \in Threads, EagerDone(t) PROVE TypeOK'
  BY <1>13 DEF EagerDone
<1>14. ASSUME NEW t \in Threads, AppDlopen(t) PROVE TypeOK'
  BY <1>14 DEF AppDlopen
<1>15. ASSUME NEW t \in Threads, AppDlopenReturns(t) PROVE TypeOK'
  BY <1>15 DEF AppDlopenReturns
<1>16. ASSUME NEW t \in Threads, AppLookupFails(t) PROVE TypeOK'
  BY <1>16 DEF AppLookupFails
<1>17. ASSUME NEW t \in Threads, AppReadsDlerror(t) PROVE TypeOK'
  BY <1>17 DEF AppReadsDlerror
<1>18. ASSUME NEW t \in Threads, NEW n \in Names, Trampoline(t, n) PROVE TypeOK'
  BY <1>18 DEF Trampoline
<1>19. CASE UNCHANGED vars
  BY <1>19 DEF vars
<1> QED BY <1>1, <1>2, <1>3, <1>4, <1>5, <1>6, <1>7, <1>8, <1>9, <1>10, <1>11, <1>12, <1>13, <1>14, <1>15, <1>16, <1>17, <1>18, <1>19
         DEF Next, Shim, Load, App
-----------------------------------------------------------------------------
\* Nobody loads and every slot is at the resolver.
LEMMA InitLoadInv == Init => LoadInv
<1> SUFFICES ASSUME Init PROVE LoadInv
  OBVIOUS
<1>1. OneLoader /\ BoundToAnswer
  BY DEF Init, OneLoader, BoundToAnswer
<1>2. ASSUME NEW t \in Threads PROVE Placed(t)
  BY AddressAssumption DEF Init, Placed
<1> QED BY <1>1, <1>2 DEF LoadInv

\* One step per action.
LEMMA NextLoadInv == TypeOK /\ LoadInv /\ [Next]_vars => LoadInv'
<1> SUFFICES ASSUME TypeOK, LoadInv, [Next]_vars PROVE LoadInv'
  OBVIOUS
<1> USE AddressAssumption
    DEF TypeOK, PCs, LoadInv, OneLoader, Placed, BoundToAnswer, Answer, Goto, JumpTo,
        ReturnAndJump, AfterEnsure, binding, counters, control, linker
<1>1. ASSUME NEW t \in Threads, GlfwdInit(t) PROVE LoadInv'
  BY <1>1 DEF GlfwdInit
<1>2. ASSUME NEW t \in Threads, EnsureReady(t) PROVE LoadInv'
  BY <1>2 DEF EnsureReady
<1>3. ASSUME NEW t \in Threads, EnsureReentered(t) PROVE LoadInv'
  BY <1>3 DEF EnsureReentered
<1>4. ASSUME NEW t \in Threads, EnsureLoad(t) PROVE LoadInv'
  BY <1>4 DEF EnsureLoad
<1>5. ASSUME NEW t \in Threads, EnsureWait(t) PROVE LoadInv'
  BY <1>5 DEF EnsureWait
<1>6. ASSUME NEW t \in Threads, OpenTarget(t) PROVE LoadInv'
  BY <1>6 DEF OpenTarget
<1>7. ASSUME NEW t \in Threads, LoadTarget(t) PROVE LoadInv'
  BY <1>7 DEF LoadTarget
<1>8. ASSUME NEW t \in Threads, FillAddr(t) PROVE LoadInv'
  BY <1>8 DEF FillAddr
<1>9. ASSUME NEW t \in Threads, Publish(t) PROVE LoadInv'
  BY <1>9 DEF Publish
<1>10. ASSUME NEW t \in Threads, Resolve(t) PROVE LoadInv'
  BY <1>10 DEF Resolve
<1>11. ASSUME NEW t \in Threads, CountCall(t) PROVE LoadInv'
  BY <1>11 DEF CountCall
<1>12. ASSUME NEW t \in Threads, EagerStore(t) PROVE LoadInv'
  BY <1>12 DEF EagerStore
<1>13. ASSUME NEW t \in Threads, EagerDone(t) PROVE LoadInv'
  BY <1>13 DEF EagerDone
<1>14. ASSUME NEW t \in Threads, AppDlopen(t) PROVE LoadInv'
  BY <1>14 DEF AppDlopen
<1>15. ASSUME NEW t \in Threads, AppDlopenReturns(t) PROVE LoadInv'
  BY <1>15 DEF AppDlopenReturns
<1>16. ASSUME NEW t \in Threads, AppLookupFails(t) PROVE LoadInv'
  BY <1>16 DEF AppLookupFails
<1>17. ASSUME NEW t \in Threads, AppReadsDlerror(t) PROVE LoadInv'
  BY <1>17 DEF AppReadsDlerror
<1>18. ASSUME NEW t \in Threads, NEW n \in Names, Trampoline(t, n) PROVE LoadInv'
  BY <1>18 DEF Trampoline
<1>19. CASE UNCHANGED vars
  BY <1>19 DEF vars
<1> QED BY <1>1, <1>2, <1>3, <1>4, <1>5, <1>6, <1>7, <1>8, <1>9, <1>10, <1>11, <1>12, <1>13, <1>14, <1>15, <1>16, <1>17, <1>18, <1>19
         DEF Next, Shim, Load, App

\* Every variable keeps its type; in particular no slot and no entry of the
\* address table is ever the address of one of the shim's own trampolines.
THEOREM TypeCorrect == Spec => []TypeOK
<1>1. TypeOK /\ LoadInv /\ [Next]_vars => (TypeOK /\ LoadInv)'
  BY NextType, NextLoadInv
<1> QED BY InitType, InitLoadInv, <1>1, PTL DEF Spec

\* One load per process, nothing bound before it ends, and every bound slot
\* holds the answer of the finished table.
THEOREM LoadInvariant == Spec => []LoadInv
<1>1. TypeOK /\ LoadInv /\ [Next]_vars => (TypeOK /\ LoadInv)'
  BY NextType, NextLoadInv
<1> QED BY InitType, InitLoadInv, <1>1, PTL DEF Spec
-----------------------------------------------------------------------------
\* Nobody runs constructors.
LEMMA InitLinkerInv == Init => LinkerInv
BY DEF Init, LinkerInv

\* One step per action.
LEMMA NextLinkerInv == TypeOK /\ LoadInv /\ LinkerInv /\ [Next]_vars => LinkerInv'
<1> SUFFICES ASSUME TypeOK, LoadInv, LinkerInv, [Next]_vars PROVE LinkerInv'
  OBVIOUS
<1> USE AddressAssumption
    DEF TypeOK, PCs, LoadInv, OneLoader, Placed, LinkerInv, Goto, JumpTo, DlFree,
        ReturnAndJump, AfterEnsure, binding, counters, control, linker
<1>1. ASSUME NEW t \in Threads, GlfwdInit(t) PROVE LinkerInv'
  BY <1>1 DEF GlfwdInit
<1>2. ASSUME NEW t \in Threads, EnsureReady(t) PROVE LinkerInv'
  BY <1>2 DEF EnsureReady
<1>3. ASSUME NEW t \in Threads, EnsureReentered(t) PROVE LinkerInv'
  BY <1>3 DEF EnsureReentered
<1>4. ASSUME NEW t \in Threads, EnsureLoad(t) PROVE LinkerInv'
  BY <1>4 DEF EnsureLoad
<1>5. ASSUME NEW t \in Threads, EnsureWait(t) PROVE LinkerInv'
  BY <1>5 DEF EnsureWait
<1>6. ASSUME NEW t \in Threads, OpenTarget(t) PROVE LinkerInv'
  BY <1>6 DEF OpenTarget
<1>7. ASSUME NEW t \in Threads, LoadTarget(t) PROVE LinkerInv'
  BY <1>7 DEF LoadTarget
<1>8. ASSUME NEW t \in Threads, FillAddr(t) PROVE LinkerInv'
  BY <1>8 DEF FillAddr
<1>9. ASSUME NEW t \in Threads, Publish(t) PROVE LinkerInv'
  BY <1>9 DEF Publish
<1>10. ASSUME NEW t \in Threads, Resolve(t) PROVE LinkerInv'
  BY <1>10 DEF Resolve
<1>11. ASSUME NEW t \in Threads, CountCall(t) PROVE LinkerInv'
  BY <1>11 DEF CountCall
<1>12. ASSUME NEW t \in Threads, EagerStore(t) PROVE LinkerInv'
  BY <1>12 DEF EagerStore
<1>13. ASSUME NEW t \in Threads, EagerDone(t) PROVE LinkerInv'
  BY <1>13 DEF EagerDone
<1>14. ASSUME NEW t \in Threads, AppDlopen(t) PROVE LinkerInv'
  BY <1>14 DEF AppDlopen
<1>15. ASSUME NEW t \in Threads, AppDlopenReturns(t) PROVE LinkerInv'
  BY <1>15 DEF AppDlopenReturns
<1>16. ASSUME NEW t \in Threads, AppLookupFails(t) PROVE LinkerInv'
  BY <1>16 DEF AppLookupFails
<1>17. ASSUME NEW t \in Threads, AppReadsDlerror(t) PROVE LinkerInv'
  BY <1>17 DEF AppReadsDlerror
<1>18. ASSUME NEW t \in Threads, NEW n \in Names, Trampoline(t, n) PROVE LinkerInv'
  BY <1>18 DEF Trampoline
<1>19. CASE UNCHANGED vars
  BY <1>19 DEF vars
<1> QED BY <1>1, <1>2, <1>3, <1>4, <1>5, <1>6, <1>7, <1>8, <1>9, <1>10, <1>11, <1>12, <1>13, <1>14, <1>15, <1>16, <1>17, <1>18, <1>19
         DEF Next, Shim, Load, App

\* A load and a constructor that draws, once they wait for each other, wait for
\* good, whatever the other threads do.
THEOREM CrossedStays == Spec => CrossedForGood
<1>1. ASSUME TypeOK, LoadInv, LinkerInv, [Next]_vars,
             NEW t \in Threads, NEW u \in Threads, CrossedBy(t, u)
      PROVE  CrossedBy(t, u)'
  <2> USE AddressAssumption
      DEF TypeOK, LoadInv, OneLoader, Placed, LinkerInv, CrossedBy, Goto, JumpTo, DlFree,
          ReturnAndJump, binding, counters, control, linker
  <2>1. ASSUME NEW k \in Threads, GlfwdInit(k) PROVE CrossedBy(t, u)'
    BY <1>1, <2>1 DEF GlfwdInit
  <2>2. ASSUME NEW k \in Threads, EnsureReady(k) PROVE CrossedBy(t, u)'
    BY <1>1, <2>2 DEF EnsureReady
  <2>3. ASSUME NEW k \in Threads, EnsureReentered(k) PROVE CrossedBy(t, u)'
    BY <1>1, <2>3 DEF EnsureReentered
  <2>4. ASSUME NEW k \in Threads, EnsureLoad(k) PROVE CrossedBy(t, u)'
    BY <1>1, <2>4 DEF EnsureLoad
  <2>5. ASSUME NEW k \in Threads, EnsureWait(k) PROVE CrossedBy(t, u)'
    BY <1>1, <2>5 DEF EnsureWait
  <2>6. ASSUME NEW k \in Threads, OpenTarget(k) PROVE CrossedBy(t, u)'
    BY <1>1, <2>6 DEF OpenTarget
  <2>7. ASSUME NEW k \in Threads, LoadTarget(k) PROVE CrossedBy(t, u)'
    BY <1>1, <2>7 DEF LoadTarget
  <2>8. ASSUME NEW k \in Threads, FillAddr(k) PROVE CrossedBy(t, u)'
    BY <1>1, <2>8 DEF FillAddr
  <2>9. ASSUME NEW k \in Threads, Publish(k) PROVE CrossedBy(t, u)'
    BY <1>1, <2>9 DEF Publish
  <2>10. ASSUME NEW k \in Threads, Resolve(k) PROVE CrossedBy(t, u)'
    BY <1>1, <2>10 DEF Resolve
  <2>11. ASSUME NEW k \in Threads, CountCall(k) PROVE CrossedBy(t, u)'
    BY <1>1, <2>11 DEF CountCall
  <2>12. ASSUME NEW k \in Threads, EagerStore(k) PROVE CrossedBy(t, u)'
    BY <1>1, <2>12 DEF EagerStore
  <2>13. ASSUME NEW k \in Threads, EagerDone(k) PROVE CrossedBy(t, u)'
    BY <1>1, <2>13 DEF EagerDone
  <2>14. ASSUME NEW k \in Threads, AppDlopen(k) PROVE CrossedBy(t, u)'
    BY <1>1, <2>14 DEF AppDlopen
  <2>15. ASSUME NEW k \in Threads, AppDlopenReturns(k) PROVE CrossedBy(t, u)'
    BY <1>1, <2>15 DEF AppDlopenReturns
  <2>16. ASSUME NEW k \in Threads, AppLookupFails(k) PROVE CrossedBy(t, u)'
    BY <1>1, <2>16 DEF AppLookupFails
  <2>17. ASSUME NEW k \in Threads, AppReadsDlerror(k) PROVE CrossedBy(t, u)'
    BY <1>1, <2>17 DEF AppReadsDlerror
  <2>18. ASSUME NEW k \in Threads, NEW n \in Names, Trampoline(k, n) PROVE CrossedBy(t, u)'
    BY <1>1, <2>18 DEF Trampoline
  <2>19. CASE UNCHANGED vars
    BY <1>1, <2>19 DEF vars
  <2> QED BY <1>1, <2>1, <2>2, <2>3, <2>4, <2>5, <2>6, <2>7, <2>8, <2>9, <2>10, <2>11, <2>12, <2>13, <2>14, <2>15, <2>16, <2>17, <2>18, <2>19
           DEF Next, Shim, Load, App
<1>2. TypeOK /\ LoadInv /\ LinkerInv /\ [Next]_vars => [Crossed => Crossed']_vars
  BY <1>1 DEF Crossed
<1>3. TypeOK /\ LoadInv /\ LinkerInv /\ [Next]_vars => (TypeOK /\ LoadInv /\ LinkerInv)'
  BY NextType, NextLoadInv, NextLinkerInv
<1> QED BY InitType, InitLoadInv, InitLinkerInv, <1>2, <1>3, PTL DEF Spec, CrossedForGood
-----------------------------------------------------------------------------
\* What lets a thread that is in the shim, or in a constructor of a library the
\* application opens, take its next step.
CanStep(t) ==
  \/ pc[t] \in {"init", "ensure", "ctors", "publish", "resolve", "count", "eager"}
  \/ pc[t] = "wait" /\ loadState = 2
  \/ pc[t] \in {"open", "fill"} /\ DlFree(t)
  \/ pc[t] = "idle" /\ inCtor[t]

\* A load that is announced is under way on some thread, nobody waits for one
\* that is not, and whoever has the linker's lock runs constructors.
WaitInv ==
  /\ loadState = 1 => \E t \in Threads : inLoad[t]
  /\ \A t \in Threads :
       /\ inLoad[t] => pc[t] \in {"open", "ctors", "ensure", "fill", "publish"}
       /\ pc[t] = "wait" => loadState # 0
       /\ dlOwner = t => inCtor[t] \/ (inLoad[t] /\ pc[t] \in {"ctors", "ensure"})

LEMMA InitWaitInv == Init => WaitInv
BY AddressAssumption DEF Init, WaitInv

\* One step per action: the lock is given up, and the load announced over, by the
\* thread that has it.
LEMMA NextWaitInv == TypeOK /\ LoadInv /\ WaitInv /\ [Next]_vars => WaitInv'
<1> SUFFICES ASSUME TypeOK, LoadInv, WaitInv, [Next]_vars PROVE WaitInv'
  OBVIOUS
<1> USE AddressAssumption
    DEF TypeOK, PCs, LoadInv, OneLoader, Placed, WaitInv, Goto, JumpTo, DlFree,
        ReturnAndJump, AfterEnsure, binding, counters, control, linker
<1>1. ASSUME NEW t \in Threads, GlfwdInit(t) PROVE WaitInv'
  BY <1>1 DEF GlfwdInit
<1>2. ASSUME NEW t \in Threads, EnsureReady(t) PROVE WaitInv'
  BY <1>2 DEF EnsureReady
<1>3. ASSUME NEW t \in Threads, EnsureReentered(t) PROVE WaitInv'
  BY <1>3 DEF EnsureReentered
<1>4. ASSUME NEW t \in Threads, EnsureLoad(t) PROVE WaitInv'
  BY <1>4 DEF EnsureLoad
<1>5. ASSUME NEW t \in Threads, EnsureWait(t) PROVE WaitInv'
  BY <1>5 DEF EnsureWait
<1>6. ASSUME NEW t \in Threads, OpenTarget(t) PROVE WaitInv'
  BY <1>6 DEF OpenTarget
<1>7. ASSUME NEW t \in Threads, LoadTarget(t) PROVE WaitInv'
  BY <1>7 DEF LoadTarget
<1>8. ASSUME NEW t \in Threads, FillAddr(t) PROVE WaitInv'
  BY <1>8 DEF FillAddr
<1>9. ASSUME NEW t \in Threads, Publish(t) PROVE WaitInv'
  BY <1>9 DEF Publish
<1>10. ASSUME NEW t \in Threads, Resolve(t) PROVE WaitInv'
  BY <1>10 DEF Resolve
<1>11. ASSUME NEW t \in Threads, CountCall(t) PROVE WaitInv'
  BY <1>11 DEF CountCall
<1>12. ASSUME NEW t \in Threads, EagerStore(t) PROVE WaitInv'
  BY <1>12 DEF EagerStore
<1>13. ASSUME NEW t \in Threads, EagerDone(t) PROVE WaitInv'
  BY <1>13 DEF EagerDone
<1>14. ASSUME NEW t \in Threads, AppDlopen(t) PROVE WaitInv'
  BY <1>14 DEF AppDlopen
<1>15. ASSUME NEW t \in Threads, AppDlopenReturns(t) PROVE WaitInv'
  BY <1>15 DEF AppDlopenReturns
<1>16. ASSUME NEW t \in Threads, AppLookupFails(t) PROVE WaitInv'
  BY <1>16 DEF AppLookupFails
<1>17. ASSUME NEW t \in Threads, AppReadsDlerror(t) PROVE WaitInv'
  BY <1>17 DEF AppReadsDlerror
<1>18. ASSUME NEW t \in Threads, NEW n \in Names, Trampoline(t, n) PROVE WaitInv'
  BY <1>18 DEF Trampoline
<1>19. CASE UNCHANGED vars
  BY <1>19 DEF vars
<1> QED BY <1>1, <1>2, <1>3, <1>4, <1>5, <1>6, <1>7, <1>8, <1>9, <1>10, <1>11, <1>12, <1>13, <1>14, <1>15, <1>16, <1>17, <1>18, <1>19
         DEF Next, Shim, Load, App


\* The load waits for the linker's lock, and its holder for the load.
LEMMA StuckIsCrossed ==
  ASSUME TypeOK, LoadInv, WaitInv, \A t \in Threads : ~CanStep(t),
         NEW t \in Threads, pc[t] # "idle"
  PROVE  Crossed
<1> USE AddressAssumption DEF TypeOK, PCs, LoadInv, OneLoader, Placed, WaitInv, DlFree, CanStep
\* A call that waits, waits for a load; the load is on the thread found here.
<1>1. PICK u \in Threads : inLoad[u] /\ loadState = 1
  <2>1. CASE pc[t] = "wait"
    <3>1. loadState = 1
      BY <2>1
    <3> QED BY <3>1
  <2>2. CASE pc[t] \in {"open", "fill"}
    BY <2>2
  <2> QED BY <2>1, <2>2
<1>2. pc[u] \in {"open", "fill"} /\ dlOwner \notin {None, u}
  BY <1>1
<1>3. PICK v \in Threads : v = dlOwner
  BY <1>2
<1>4. v # u /\ ~inLoad[v] /\ inCtor[v]
  BY <1>1, <1>2, <1>3
<1>5. pc[v] = "wait"
  BY <1>4
<1>6. CrossedBy(u, v)
  BY <1>1, <1>2, <1>3, <1>4, <1>5 DEF CrossedBy
<1> QED BY <1>6 DEF Crossed

\* While a thread is inside the shim some thread can take its next step, unless
\* a load and a constructor that draws have crossed: the announced load, the
\* threads that yield until it is over and the linker's lock leave no other way
\* for everybody to wait, however many threads there are.
THEOREM OnlyCrossedBlocks ==
  Spec => []((\E t \in Threads : pc[t] # "idle") => Crossed \/ \E t \in Threads : CanStep(t))
<1>1. TypeOK /\ LoadInv /\ WaitInv
        => ((\E t \in Threads : pc[t] # "idle") => Crossed \/ \E t \in Threads : CanStep(t))
  BY StuckIsCrossed
<1>2. TypeOK /\ LoadInv /\ WaitInv /\ [Next]_vars => (TypeOK /\ LoadInv /\ WaitInv)'
  BY NextType, NextLoadInv, NextWaitInv
<1> QED BY InitType, InitLoadInv, InitWaitInv, <1>1, <1>2, PTL DEF Spec
-----------------------------------------------------------------------------
\* The provider as LazyBinding sees it.
Provider == IF loadState = 2 THEN [n \in Names |-> Answer(n)] ELSE None

\* The abstract provider is undecided until the load is over.
LEMMA ProviderUndecided ==
  ASSUME TypeOK
  PROVE  Provider = None <=> loadState # 2
BY AddressAssumption DEF Provider, TypeOK, Answer

\* Each step of the shim is a step of LazyBinding or leaves its variables alone.
LEMMA StepRefines == TypeOK /\ LoadInv /\ TypeOK' /\ [Next]_vars => [LB!Next]_(LB!vars)
<1> SUFFICES ASSUME TypeOK, LoadInv, TypeOK', [Next]_vars PROVE [LB!Next]_(LB!vars)
  OBVIOUS
<1> USE DEF binding, counters, control, linker, Goto, JumpTo, ReturnAndJump
<1>1. ASSUME UNCHANGED <<slot, reply>>,
             UNCHANGED <<loadState, addr>> \/ (loadState # 2 /\ loadState' # 2)
      PROVE  UNCHANGED LB!vars
  BY <1>1 DEF LB!vars, Answer
\* The steps that bind nothing and answer nothing.
<1>2. ASSUME NEW t \in Threads,
             \/ GlfwdInit(t) \/ EnsureReady(t) \/ EnsureLoad(t) \/ EnsureWait(t)
             \/ OpenTarget(t) \/ LoadTarget(t) \/ FillAddr(t) \/ EagerDone(t)
             \/ AppDlopen(t) \/ AppDlopenReturns(t) \/ AppLookupFails(t)
             \/ AppReadsDlerror(t)
      PROVE  UNCHANGED LB!vars
  <2>1. CASE FillAddr(t)
    BY <1>1, <2>1 DEF FillAddr, LoadInv, OneLoader, Placed
  <2>2. CASE EnsureLoad(t)
    BY <1>1, <2>2 DEF EnsureLoad
  <2> QED BY <1>1, <1>2, <2>1, <2>2
         DEF GlfwdInit, EnsureReady, EnsureWait, OpenTarget, LoadTarget, EagerDone,
             AppDlopen, AppDlopenReturns, AppLookupFails, AppReadsDlerror
\* The end of the load decides the provider.
<1>3. ASSUME NEW t \in Threads, Publish(t) PROVE LB!Next
  <2>1. loadState # 2 /\ loadState' = 2 /\ UNCHANGED <<slot, reply, addr>>
    BY <1>3 DEF Publish, LoadInv, OneLoader, Placed
  <2>2. Provider = None /\ Provider' \in [Names -> Names \cup {Absent}]
    BY <2>1, AddressAssumption DEF Provider, Answer, TypeOK
  <2> QED BY <2>1, <2>2 DEF LB!Next, LB!Decide, Provider
\* The compare-and-swap that wins, and the eager store that comes first, bind.
<1>4. ASSUME NEW n \in Names, loadState = 2, slot[n] = Resolver,
             slot' = [slot EXCEPT ![n] = Answer(n)], UNCHANGED <<loadState, addr, reply>>
      PROVE  LB!Next
  <2>1. Provider # None /\ Provider[n] = Answer(n) /\ UNCHANGED Provider
    BY <1>4, ProviderUndecided DEF Provider, Answer
  <2> QED BY <1>4, <2>1 DEF LB!Next, LB!Bind, Provider
\* A call that ends is an answer of the provider, or zero before there is one.
<1>5. ASSUME NEW t \in Threads, NEW n \in Names, UNCHANGED <<slot, loadState, addr>>,
             \/ loadState # 2 /\ JumpTo(t, n, Absent)
             \/ loadState = 2 /\ JumpTo(t, n, Answer(n))
      PROVE  LB!Next
  <2>1. UNCHANGED Provider /\ (Provider = None <=> loadState # 2)
        /\ (loadState = 2 => Provider[n] = Answer(n))
    BY <1>5, ProviderUndecided DEF Provider, Answer
  <2> QED BY <1>5, <2>1 DEF LB!Next, LB!Answer, Provider
<1>6. ASSUME NEW t \in Threads, EnsureReentered(t) PROVE LB!Next
  <2>1. cur[t] \in Names /\ loadState # 2
    BY <1>6 DEF EnsureReentered, LoadInv, Placed
  <2> QED BY <1>5, <1>6, <2>1 DEF EnsureReentered
<1>7. ASSUME NEW t \in Threads, Resolve(t) PROVE LB!Next
  <2>1. cur[t] \in Names /\ loadState = 2
    BY <1>7 DEF Resolve, LoadInv, Placed
  <2> QED BY <1>4, <1>5, <1>7, <2>1 DEF Resolve
<1>8. ASSUME NEW t \in Threads, CountCall(t) PROVE LB!Next
  <2>1. cur[t] \in Names /\ loadState = 2
    BY <1>8 DEF CountCall, LoadInv, Placed
  <2> QED BY <1>5, <1>8, <2>1 DEF CountCall
<1>9. ASSUME NEW t \in Threads, EagerStore(t)
      PROVE  [LB!Next]_(LB!vars)
  <2>1. PICK n \in todo : slot' = IF addr[n] = Null THEN slot
                                  ELSE [slot EXCEPT ![n] = addr[n]]
    BY <1>9 DEF EagerStore
  <2>2. n \in Names /\ loadState = 2 /\ UNCHANGED <<loadState, addr, reply>>
    BY <1>9, <2>1 DEF EagerStore, LoadInv, Placed, TypeOK
  <2>3. CASE addr[n] # Null /\ slot[n] = Resolver
    BY <1>4, <2>1, <2>2, <2>3 DEF Answer
  <2>4. CASE addr[n] # Null /\ slot[n] # Resolver
    <3>1. slot[n] = addr[n]
      BY <2>2, <2>4 DEF LoadInv, BoundToAnswer, Answer
    <3>2. slot' = slot
      BY <2>1, <2>2, <2>4, <3>1 DEF TypeOK
    <3> QED BY <1>1, <2>2, <3>2
  <2>5. CASE addr[n] = Null
    BY <1>1, <2>1, <2>2, <2>5
  <2> QED BY <2>3, <2>4, <2>5
<1>10. ASSUME NEW t \in Threads, NEW n \in Names, Trampoline(t, n)
       PROVE  [LB!Next]_(LB!vars)
  <2>1. CASE slot[n] = Resolver
    BY <1>1, <1>10, <2>1 DEF Trampoline
  <2>2. CASE slot[n] # Resolver
    BY <1>5, <1>10, <2>2 DEF Trampoline, LoadInv, BoundToAnswer
  <2> QED BY <2>1, <2>2
<1>11. CASE UNCHANGED vars
  BY <1>1, <1>11 DEF vars
<1> QED
  BY <1>2, <1>3, <1>6, <1>7, <1>8, <1>9, <1>10, <1>11 DEF Next, Shim, Load, App

\* The shim implements the promise of LazyBinding, for every set of threads and
\* entry points: one provider, slots that move once, one answer per name.
THEOREM Refinement == Spec => ImplementsLazyBinding
<1>1. Init => LB!Init
  BY AddressAssumption DEF Init, LB!Init
<1>2. TypeOK /\ LoadInv /\ TypeOK' /\ [Next]_vars => [LB!Next]_(LB!vars)
  BY StepRefines
<1> QED BY <1>1, <1>2, TypeCorrect, LoadInvariant, PTL DEF Spec, LB!Spec, ImplementsLazyBinding
-----------------------------------------------------------------------------
(***************************************************************************)
(* The exit report's numbers.                                              *)
(***************************************************************************)
\* The threads that have moved a slot to an address and not counted it yet, and
\* the slots that have been moved to one.
Counting == {t \in Threads : pc[t] = "count" /\ addr[cur[t]] # Null}
Moved == {n \in Names : slot[n] # Resolver /\ addr[n] # Null}

\* No slot is counted twice: whoever moved it counts it, once.
CountInv == calledFwd + Cardinality(Counting) <= Cardinality(Moved)

\* Both are finite, and the moved slots are among the names that resolved.
LEMMA CountFinite ==
  /\ IsFiniteSet(Counting) /\ IsFiniteSet(Moved)
  /\ Cardinality(Counting) \in Nat /\ Cardinality(Moved) \in Nat
  /\ Cardinality(Moved) <= Cardinality({n \in Names : addr[n] # Null})
<1>1. Counting \subseteq Threads /\ Moved \subseteq Names
  BY DEF Counting, Moved
<1>2. Moved \subseteq {n \in Names : addr[n] # Null} /\ {n \in Names : addr[n] # Null} \subseteq Names
  BY DEF Moved
<1> QED BY <1>1, <1>2, ThreadAssumption, AddressAssumption, FS_Subset, FS_CardinalityType

\* The same for the next state.
LEMMA CountFiniteNext ==
  IsFiniteSet(Counting') /\ IsFiniteSet(Moved')
  /\ Cardinality(Counting') \in Nat /\ Cardinality(Moved') \in Nat
<1>1. Counting' \subseteq Threads /\ Moved' \subseteq Names
  BY DEF Counting, Moved
<1> QED BY <1>1, ThreadAssumption, AddressAssumption, FS_Subset, FS_CardinalityType

\* A step that counts nothing, moves no slot back and leaves nobody new to count.
LEMMA CountQuiet ==
  ASSUME TypeOK, CountInv, calledFwd' = calledFwd, Counting' \subseteq Counting,
         Moved \subseteq Moved'
  PROVE  CountInv'
<1>1. Cardinality(Counting') <= Cardinality(Counting) /\ Cardinality(Moved) <= Cardinality(Moved')
  BY CountFinite, CountFiniteNext, FS_Subset
<1> QED BY <1>1, CountFinite, CountFiniteNext DEF CountInv, TypeOK

\* Nobody counts and nothing is moved before the load is over.
LEMMA CountLater ==
  ASSUME TypeOK, LoadInv, loadState # 2
  PROVE  Counting = {} /\ Moved = {}
BY DEF Counting, Moved, LoadInv, Placed, BoundToAnswer

\* One step per action that moves a slot or counts, the others together.
LEMMA CountStep ==
  ASSUME TypeOK, LoadInv, CountInv, [Next]_vars
  PROVE  CountInv'
<1> USE DEF binding, counters, control, linker, Goto, JumpTo, ReturnAndJump
<1>1. ASSUME NEW t \in Threads, NEW p \in PCs \ {"count"}, pc' = [pc EXCEPT ![t] = p],
             UNCHANGED <<slot, addr, calledFwd>>,
             \A u \in Threads \ {t} : cur'[u] = cur[u]
      PROVE  CountInv'
  <2>1. \A u \in Threads : u \in Counting' => u \in Counting
    BY <1>1 DEF Counting, TypeOK
  <2>2. Counting' \subseteq Counting /\ Moved' = Moved
    BY <1>1, <2>1 DEF Counting, Moved
  <2> QED BY <1>1, <2>2, CountQuiet
<1>2. ASSUME UNCHANGED <<slot, addr, calledFwd, pc, cur>> PROVE CountInv'
  BY <1>2 DEF CountInv, Counting, Moved
<1>3. ASSUME NEW t \in Threads, GlfwdInit(t) \/ EagerDone(t) PROVE CountInv'
  BY <1>1, <1>3 DEF GlfwdInit, EagerDone, PCs
<1>4. ASSUME NEW t \in Threads, EnsureReady(t) PROVE CountInv'
  BY <1>1, <1>4 DEF EnsureReady, AfterEnsure, PCs
<1>5. ASSUME NEW t \in Threads, EnsureReentered(t) PROVE CountInv'
  <2>1. ret[t] \in PCs \ {"count"}
    BY DEF TypeOK, PCs
  <2> QED BY <1>1, <1>5, <2>1 DEF EnsureReentered
<1>6. ASSUME NEW t \in Threads, EnsureLoad(t) \/ EnsureWait(t) \/ OpenTarget(t) \/ LoadTarget(t)
      PROVE  CountInv'
  BY <1>1, <1>6 DEF EnsureLoad, EnsureWait, OpenTarget, LoadTarget, PCs
<1>7. ASSUME NEW t \in Threads, FillAddr(t) PROVE CountInv'
  <2>1. loadState # 2 /\ loadState' = loadState /\ slot' = slot /\ calledFwd' = calledFwd
        /\ pc' = [pc EXCEPT ![t] = "publish"]
    BY <1>7 DEF FillAddr, LoadInv, OneLoader, Placed
  <2>2. Counting = {} /\ Moved = {}
    BY <2>1, CountLater
  <2>3. \A u \in Threads : pc'[u] # "count"
    BY <2>1 DEF LoadInv, Placed, TypeOK
  <2>4. Counting' = {}
    BY <2>3 DEF Counting
  <2> QED BY <2>1, <2>2, <2>4, CountQuiet
<1>8. ASSUME NEW t \in Threads, Publish(t) PROVE CountInv'
  <2>1. \A u \in Threads \ {t} : cur'[u] = cur[u]
    BY <1>8 DEF Publish, TypeOK
  <2> QED BY <1>1, <1>8, <2>1 DEF Publish, PCs
<1>9. ASSUME NEW t \in Threads, Resolve(t) PROVE CountInv'
  <2>1. cur[t] \in Names /\ ret[t] = "idle" /\ pc[t] = "resolve"
    BY <1>9 DEF Resolve, LoadInv, Placed
  <2>2. CASE slot[cur[t]] # Resolver
    BY <1>1, <1>9, <2>1, <2>2 DEF Resolve, PCs
  <2>3. CASE slot[cur[t]] = Resolver
    <3> DEFINE n == cur[t]
    <3>1. /\ slot' = [slot EXCEPT ![n] = Answer(n)] /\ pc' = [pc EXCEPT ![t] = "count"]
          /\ UNCHANGED <<addr, cur, calledFwd>>
      BY <1>9, <2>3 DEF Resolve
    <3>2. addr[n] \in Names \cup {Null} /\ (addr[n] # Null => Answer(n) # Resolver)
      BY <2>1, AddressAssumption DEF TypeOK, Answer
    <3>3. CASE addr[n] = Null
      <4>1. Counting' \subseteq Counting
        BY <3>1, <3>3 DEF Counting, TypeOK
      <4>2. Moved \subseteq Moved'
        BY <3>1, <3>3 DEF Moved, TypeOK
      <4> QED BY <3>1, <4>1, <4>2, CountQuiet
    <3>4. CASE addr[n] # Null
      <4>1. Counting' = Counting \cup {t} /\ t \notin Counting
        BY <2>1, <3>1, <3>4 DEF Counting, TypeOK
      <4>2. Moved' = Moved \cup {n} /\ n \notin Moved
        BY <2>1, <2>3, <3>1, <3>2, <3>4 DEF Moved, TypeOK
      <4>3. /\ Cardinality(Counting') = Cardinality(Counting) + 1
            /\ Cardinality(Moved') = Cardinality(Moved) + 1
        BY <4>1, <4>2, CountFinite, FS_AddElement
      <4> QED BY <3>1, <4>3, CountFinite DEF CountInv, TypeOK
    <3> QED BY <3>3, <3>4
  <2> QED BY <2>2, <2>3
<1>10. ASSUME NEW t \in Threads, CountCall(t) PROVE CountInv'
  <2>1. /\ ret[t] = "idle" /\ pc[t] = "count" /\ pc' = [pc EXCEPT ![t] = "idle"]
        /\ UNCHANGED <<slot, addr, cur>>
    BY <1>10 DEF CountCall, LoadInv, Placed
  <2>2. CASE addr[cur[t]] = Null
    BY <1>1, <1>10, <2>1, <2>2 DEF CountCall, PCs
  <2>3. CASE addr[cur[t]] # Null
    <3>1. calledFwd' = calledFwd + 1
      BY <1>10, <2>3 DEF CountCall
    <3>2. Counting' = Counting \ {t} /\ t \in Counting /\ Moved' = Moved
      BY <2>1, <2>3 DEF Counting, Moved, TypeOK
    <3>3. Cardinality(Counting') = Cardinality(Counting) - 1
      BY <3>2, CountFinite, FS_RemoveElement
    <3> QED BY <3>1, <3>2, <3>3, CountFinite DEF CountInv, TypeOK
  <2> QED BY <2>2, <2>3
<1>11. ASSUME NEW t \in Threads, EagerStore(t) PROVE CountInv'
  <2>1. PICK n \in todo : slot' = IF addr[n] = Null THEN slot ELSE [slot EXCEPT ![n] = addr[n]]
    BY <1>11 DEF EagerStore
  <2>2. UNCHANGED <<addr, calledFwd, pc, cur>> /\ n \in Names
    BY <1>11, <2>1 DEF EagerStore, TypeOK
  <2>3. addr[n] = Null \/ addr[n] # Resolver
    BY <2>2, AddressAssumption DEF TypeOK
  <2>4. Moved \subseteq Moved'
    BY <2>1, <2>2, <2>3 DEF Moved, TypeOK
  <2>5. Counting' = Counting
    BY <2>2 DEF Counting
  <2> QED BY <2>2, <2>4, <2>5, CountQuiet
<1>12. ASSUME NEW t \in Threads, AppDlopen(t) \/ AppDlopenReturns(t) \/ AppLookupFails(t) \/ AppReadsDlerror(t)
       PROVE  CountInv'
  BY <1>2, <1>12 DEF AppDlopen, AppDlopenReturns, AppLookupFails, AppReadsDlerror
<1>13. ASSUME NEW t \in Threads, NEW n \in Names, Trampoline(t, n) PROVE CountInv'
  <2>1. CASE slot[n] # Resolver
    BY <1>2, <1>13, <2>1 DEF Trampoline
  <2>2. CASE slot[n] = Resolver
    <3>1. \A u \in Threads \ {t} : cur'[u] = cur[u]
      BY <1>13, <2>2 DEF Trampoline, TypeOK
    <3> QED BY <1>1, <1>13, <2>2, <3>1 DEF Trampoline, PCs
  <2> QED BY <2>1, <2>2
<1>14. CASE UNCHANGED vars
  BY <1>2, <1>14 DEF vars
<1> QED BY <1>3, <1>4, <1>5, <1>6, <1>7, <1>8, <1>9, <1>10, <1>11, <1>12, <1>13, <1>14
        DEF Next, Shim, Load, App

\* No more names are counted as called through than the pass resolved, however
\* many threads race on them.
THEOREM CalledAreResolved == Spec => []CalledWithinResolved
<1>1. Init => CountInv
  <2> SUFFICES ASSUME Init PROVE CountInv
    OBVIOUS
  <2>1. Counting = {} /\ calledFwd = 0
    BY DEF Init, Counting
  <2>2. Cardinality(Counting) = 0
    BY <2>1, FS_EmptySet
  <2>3. Cardinality(Moved) \in Nat
    BY CountFinite, FS_CardinalityType
  <2> QED BY <2>1, <2>2, <2>3 DEF CountInv
<1>2. TypeOK /\ LoadInv /\ CountInv /\ [Next]_vars => CountInv'
  BY CountStep
<1>3. TypeOK /\ CountInv => CalledWithinResolved
  <2>1. IsFiniteSet({n \in Names : addr[n] # Null})
    BY AddressAssumption, FS_Subset
  <2> QED BY <2>1, CountFinite, FS_CardinalityType DEF CountInv, CalledWithinResolved, TypeOK
<1> QED BY <1>1, <1>2, <1>3, TypeCorrect, LoadInvariant, PTL DEF Spec
-----------------------------------------------------------------------------
\* The application's unread message is taken by nobody but the loading thread,
\* on that thread.
THEOREM OnlyLoadTakesMessages == Spec => DlerrorTakenOnlyByLoad
<1> DEFINE Takes ==
      \A t \in Threads :
        dlmsg[t] = "app" /\ dlmsg'[t] # "app" => inLoad[t] \/ AppReadsDlerror(t)
<1>1. ASSUME TypeOK, LoadInv, [Next]_vars PROVE Takes
  <2>1. ASSUME NEW k \in Threads, OpenTarget(k) \/ LoadTarget(k) \/ FillAddr(k) PROVE Takes
    <3>1. inLoad[k] /\ dlmsg' = [dlmsg EXCEPT ![k] = "none"]
      BY <1>1, <2>1 DEF OpenTarget, LoadTarget, FillAddr, LoadInv, Placed
    <3> QED BY <1>1, <3>1 DEF TypeOK
  <2>2. ASSUME NEW k \in Threads, AppReadsDlerror(k) PROVE Takes
    BY <1>1, <2>2 DEF AppReadsDlerror, TypeOK
  <2>3. ASSUME NEW k \in Threads, AppLookupFails(k) PROVE Takes
    BY <1>1, <2>3 DEF AppLookupFails, TypeOK
  <2>4. CASE dlmsg' = dlmsg
    BY <2>4
  <2> QED BY <1>1, <2>1, <2>2, <2>3, <2>4
          DEF Next, Shim, Load, App, GlfwdInit, EnsureReady, EnsureReentered, EnsureLoad,
              EnsureWait, Publish, Resolve, CountCall, EagerStore, EagerDone, Trampoline,
              AppDlopen, AppDlopenReturns, vars
<1>2. TypeOK /\ LoadInv /\ [Next]_vars => [Takes]_vars
  BY <1>1
<1> QED
  <2> HIDE DEF Takes
  <2>1. Spec => [][TypeOK /\ LoadInv /\ [Next]_vars]_vars
    BY TypeCorrect, LoadInvariant, PTL DEF Spec
  <2>2. [][TypeOK /\ LoadInv /\ [Next]_vars]_vars => [][Takes]_vars
    BY <1>2, PTL
  <2> QED BY <2>1, <2>2 DEF DlerrorTakenOnlyByLoad, Takes
=============================================================================
