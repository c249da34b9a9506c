------------------------ MODULE RuntimeSelectProofs ------------------------
(***************************************************************************)
(* What the launches of one user owe each other's farm, for any number of  *)
(* launches, any runtime set and any contents of the disk.                 *)
(***************************************************************************)
EXTENDS RuntimeSelect, InductionLemmas

Domains ==
  /\ DOMAIN plan = Launches /\ DOMAIN pc = Launches /\ DOMAIN hole = Launches
  /\ DOMAIN got = Launches /\ \A l \in Launches : DOMAIN got[l] = Names
  /\ next \in [Launches -> Nat \ {0}]

\* A launch that runs under the host has verified every member the bundle ships.
PlanComplete ==
  \A l \in Launches :
    /\ pc[l] = "start" => ~plan[l].host
    /\ plan[l].host => /\ Has(opts[l].app, "libc")
                       /\ \A m \in Names \ {"ld"} : Has(opts[l].app, m) => Has(plan[l].dir, m)

\* Where a launch stands, by its program counter.
Stands ==
  \A l \in Launches :
    /\ pc[l] \in {"mkdir", "unlink", "symlink", "test", "exec", "host"} => plan[l].host
    /\ pc[l] \in {"start", "mkdir", "unlink", "test", "exec", "host"} => hole[l] = None
    /\ pc[l] \in {"start", "mkdir"} => next[l] = 1
    /\ pc[l] = "symlink" => next[l] <= Len(RuntimeSet) /\ hole[l] = Due(l)
    /\ pc[l] \in {"test", "exec", "host"} => next[l] > Len(RuntimeSet)

\* Somebody else has m's link removed and has not linked it again.
Relinking(l, m) ==
  \E k \in Launches \ {l} : hole[k] = m /\ plan[k].release = plan[l].release

Held(l, m) == Linked(plan[l].release, m) \/ Relinking(l, m)
Active == {"unlink", "symlink", "test", "exec", "host"}

\* What a launch has linked stays linked, but for that.
LinksStay ==
  \A l \in Launches : pc[l] \in Active =>
    \A k \in 1..next[l] - 1 : k \in DOMAIN RuntimeSet /\ Links(l, RuntimeSet[k]) =>
       Held(l, RuntimeSet[k])

\* Every link leads where a launch of its release has planned to go.
LinksPlanned ==
  \A t \in farm : \E k \in Launches : /\ plan[k].host /\ plan[k].release = t[1]
                                      /\ plan[k].dir = t[3]

FarmInv == Domains /\ PlanComplete /\ Stands /\ LinksStay /\ LinksPlanned

USE DEF vars, world, Has, Goto, Due

\* A decision for the host names a directory that holds every member shipped.
LEMMA DecisionComplete ==
  ASSUME NEW o, Decision(o).host
  PROVE  /\ Has(o.app, "libc")
         /\ \A m \in Names \ {"ld"} : Has(o.app, m) => Has(Decision(o).dir, m)
<1> DEFINE d == CHOOSE d \in HostDirs(o) : TRUE
<1>1. Has(o.app, "libc") /\ HostDirs(o) # {} /\ Decision(o).dir = d
  BY DEF Decision, Bundled
<1>2. d \in HostDirs(o)
  BY <1>1
<1>3. Complete(o, d)
  BY <1>2 DEF HostDirs, Usable
<1> QED
  BY <1>1, <1>3 DEF Complete, Shipped

\* The farm is empty before the first launch.
LEMMA InitFarm == Init => FarmInv
BY DEF Init, FarmInv, Domains, PlanComplete, Stands, LinksStay, LinksPlanned, Bundled

\* Who has decided nothing yet has linked nothing and planned nothing.
LEMMA DecideKeeps ==
  ASSUME FarmInv, NEW l \in Launches, Decide(l)
  PROVE  FarmInv'
<1> USE SelectAssumption DEF FarmInv, Decide
<1>0. plan'[l] = Decision(opts[l]) /\ ~plan[l].host /\ hole[l] = None
  BY DEF Domains, PlanComplete, Stands
<1>1. Domains'
  BY DEF Domains
<1>2. PlanComplete'
  BY <1>0, DecisionComplete DEF Domains, PlanComplete
<1>3. Stands'
  BY <1>0 DEF Domains, Stands
<1>4. LinksStay'
  <2> SUFFICES ASSUME NEW p \in Launches, pc'[p] \in Active, NEW k \in 1..next'[p] - 1,
                      k \in DOMAIN RuntimeSet, Links(p, RuntimeSet[k])'
               PROVE  Held(p, RuntimeSet[k])'
    BY DEF LinksStay
  <2>1. p # l /\ pc[p] \in Active /\ plan'[p] = plan[p] /\ next'[p] = next[p]
    BY DEF Domains, Active
  <2>2. Links(p, RuntimeSet[k])
    BY <2>1 DEF Links
  <2>3. Held(p, RuntimeSet[k])
    BY <2>1, <2>2 DEF LinksStay
  <2>4. RuntimeSet[k] \in Names
    BY DEF Names
  <2> QED BY <1>0, <2>1, <2>3, <2>4 DEF Held, Linked, Relinking, Domains
<1>5. LinksPlanned'
  BY <1>0 DEF Domains, LinksPlanned
<1> QED BY <1>1, <1>2, <1>3, <1>4, <1>5

\* Whoever loses a link to another launch's unlink finds that launch relinking.
LEMMA UnlinkKeeps ==
  ASSUME FarmInv, NEW l \in Launches, Unlink(l)
  PROVE  FarmInv'
<1> USE SelectAssumption DEF FarmInv, Unlink
<1>1. Domains' /\ PlanComplete' /\ Stands'
  BY DEF Domains, PlanComplete, Stands
<1>2. LinksStay'
  <2> SUFFICES ASSUME NEW p \in Launches, pc'[p] \in Active, NEW k \in 1..next'[p] - 1,
                      k \in DOMAIN RuntimeSet, Links(p, RuntimeSet[k])'
               PROVE  Held(p, RuntimeSet[k])'
    BY DEF LinksStay
  <2>1. pc[p] \in Active /\ Links(p, RuntimeSet[k])
    BY DEF Links, Domains, Active
  <2>2. Held(p, RuntimeSet[k])
    BY <2>1 DEF LinksStay
  <2>3. hole[l] = None /\ hole'[l] = RuntimeSet[next[l]]
    BY DEF Stands, Domains
  <2>4. RuntimeSet[k] \in Names
    BY DEF Names
  <2>5. next[l] \in DOMAIN RuntimeSet
    BY DEF Domains
  <2>6. CASE RuntimeSet[k] = RuntimeSet[next[l]] /\ plan[p].release = plan[l].release
    <3>1. p # l
      BY <2>5, <2>6 DEF Domains
    <3> QED BY <2>3, <2>6, <3>1 DEF Held, Relinking
  <2>7. CASE RuntimeSet[k] # RuntimeSet[next[l]] \/ plan[p].release # plan[l].release
    <3>1. CASE Linked(plan[p].release, RuntimeSet[k])
      BY <2>7, <3>1 DEF Linked, Held
    <3>2. CASE Relinking(p, RuntimeSet[k])
      BY <2>3, <2>4, <3>2 DEF Relinking, Held, Domains
    <3> QED BY <2>2, <3>1, <3>2 DEF Held
  <2> QED BY <2>6, <2>7
<1>3. LinksPlanned'
  BY DEF LinksPlanned
<1> QED BY <1>1, <1>2, <1>3

\* A launch is done relinking only when the link is there again.
LEMMA SymlinkKeeps ==
  ASSUME FarmInv, NEW l \in Launches, Symlink(l)
  PROVE  FarmInv'
<1> USE SelectAssumption DEF FarmInv, Symlink, Onward
<1>1. Domains' /\ PlanComplete'
  BY DEF Domains, PlanComplete
<1>2. Stands'
  BY DEF Domains, Stands
<1>3. LinksStay'
  <2> SUFFICES ASSUME NEW p \in Launches, pc'[p] \in Active, NEW k \in 1..next'[p] - 1,
                      k \in DOMAIN RuntimeSet, Links(p, RuntimeSet[k])'
               PROVE  Held(p, RuntimeSet[k])'
    BY DEF LinksStay
  <2>1. pc[p] \in Active /\ Links(p, RuntimeSet[k])
    BY DEF Links, Domains, Active
  <2>2. Held(p, RuntimeSet[k]) \/ (p = l /\ k = next[l] /\ next'[l] = next[l] + 1)
    BY <2>1 DEF LinksStay, Domains
  <2>3. \A r, m : Linked(r, m) => Linked(r, m)'
    BY DEF Linked
  <2>4. hole'[l] = None => \E t \in farm' : t[1] = plan[l].release /\ t[2] = RuntimeSet[next[l]]
    <3>1. CASE hole' = hole
      <4>1. next[l] \in DOMAIN RuntimeSet /\ hole[l] = RuntimeSet[next[l]]
        BY DEF Stands, Domains
      <4> QED BY <3>1, <4>1 DEF Names
    <3>2. CASE Linked(plan[l].release, RuntimeSet[next[l]]) /\ farm' = farm
      BY <3>2 DEF Linked
    <3>3. CASE farm' = farm \cup {Link(l)}
      <4>1. Link(l) \in farm' /\ Link(l)[1] = plan[l].release /\ Link(l)[2] = RuntimeSet[next[l]]
        BY <3>3 DEF Link
      <4> QED BY <4>1
    <3> QED BY <3>1, <3>2, <3>3
  <2>5. hole[l] = RuntimeSet[next[l]] /\ hole'[l] \in {None, hole[l]}
    BY DEF Stands, Domains
  <2>6. next'[l] = next[l] + 1 => hole'[l] = None
    BY DEF Domains
  <2>7. CASE Linked(plan[p].release, RuntimeSet[k])
    BY <2>3, <2>7 DEF Held, Linked
  <2>8. CASE Relinking(p, RuntimeSet[k])
    BY <2>4, <2>5, <2>8 DEF Held, Relinking, Domains, Linked
  <2>9. CASE p = l /\ k = next[l] /\ next'[l] = next[l] + 1
    BY <2>4, <2>6, <2>9 DEF Held, Linked
  <2> QED BY <2>2, <2>7, <2>8, <2>9 DEF Held
<1>4. LinksPlanned'
  BY DEF LinksPlanned, Link, Stands, Domains
<1> QED BY <1>1, <1>2, <1>3, <1>4

\* What leaves the links, and what is being linked, alone.
LEMMA OthersKeep ==
  ASSUME FarmInv, NEW l \in Launches,
         \/ Mkdir(l) \/ PassOver(l) \/ FarmBuilt(l) \/ SelfTest(l) \/ Exec(l) \/ Kill(l)
         \/ \E m \in Names : LoadMember(l, m)
  PROVE  FarmInv'
<1> USE SelectAssumption DEF FarmInv
<1>1. Domains'
  BY DEF Mkdir, PassOver, FarmBuilt, SelfTest, Exec, Kill, LoadMember, Domains
<1>4. PlanComplete'
  <2>1. UNCHANGED <<disk, opts, plan>> /\ \A p \in Launches : pc'[p] = "start" => pc[p] = "start"
    BY DEF Mkdir, PassOver, FarmBuilt, SelfTest, Exec, Kill, LoadMember, Domains
  <2> QED BY <2>1 DEF PlanComplete
<1>5. LinksPlanned'
  <2>1. UNCHANGED <<farm, plan>>
    BY DEF Mkdir, PassOver, FarmBuilt, SelfTest, Exec, Kill, LoadMember
  <2> QED BY <2>1 DEF LinksPlanned
<1>2. Stands'
  BY DEF Mkdir, PassOver, FarmBuilt, SelfTest, Exec, Kill, LoadMember, Domains, Stands
<1>3. LinksStay'
  <2> SUFFICES ASSUME NEW p \in Launches, pc'[p] \in Active, NEW k \in 1..next'[p] - 1,
                      k \in DOMAIN RuntimeSet, Links(p, RuntimeSet[k])'
               PROVE  Held(p, RuntimeSet[k])'
    BY DEF LinksStay
  <2>1. UNCHANGED <<disk, opts, plan, hole, farm>>
    BY DEF Mkdir, PassOver, FarmBuilt, SelfTest, Exec, Kill, LoadMember
  <2>2. Links(p, RuntimeSet[k])
    BY <2>1 DEF Links
  <2>3. pc[p] \in Active \/ pc[p] = "mkdir"
    BY DEF Mkdir, PassOver, FarmBuilt, SelfTest, Exec, Kill, LoadMember, Domains, Active
  <2>4. pc[p] \in Active /\ k \in 1..next[p] - 1
    <3>1. CASE PassOver(l)
      BY <2>2, <3>1 DEF PassOver, Domains, Active
    <3>2. CASE next' = next
      BY <2>3, <3>2 DEF Stands, Domains
    <3> QED BY <3>1, <3>2 DEF Mkdir, FarmBuilt, SelfTest, Exec, Kill, LoadMember
  <2>5. Held(p, RuntimeSet[k])
    BY <2>2, <2>4 DEF LinksStay
  <2> QED BY <2>1, <2>5 DEF Held, Linked, Relinking
<1> QED BY <1>1, <1>2, <1>3, <1>4, <1>5

\* FarmInv is inductive.
LEMMA FarmStep == FarmInv /\ [Next]_vars => FarmInv'
<1> SUFFICES ASSUME FarmInv, [Next]_vars PROVE FarmInv'
  OBVIOUS
<1>1. CASE Next
  BY <1>1, DecideKeeps, UnlinkKeeps, SymlinkKeeps, OthersKeep DEF Next, Launch
<1>2. CASE UNCHANGED vars
  BY <1>2 DEF FarmInv, Domains, PlanComplete, Stands, LinksStay, LinksPlanned,
              Links, Held, Linked, Relinking
<1> QED BY <1>1, <1>2

\* What a launch is found a member at: a directory of its release, or else
\* somebody is relinking the member.
LEMMA FoundWhere ==
  ASSUME FarmInv, NEW l \in Launches, NEW m \in Names \ {"ld"},
         pc[l] \in {"exec", "host"}, Has(opts[l].app, m)
  PROVE  \/ \E k \in Launches : /\ plan[k].host /\ plan[k].release = plan[l].release
                                /\ Found(l, m) = plan[k].dir
         \/ Relinking(l, m)
<1> USE SelectAssumption DEF FarmInv
<1>1. CASE Linked(plan[l].release, m)
  <2> DEFINE t == CHOOSE k \in farm : k[1] = plan[l].release /\ k[2] = m
  <2>1. t \in farm /\ t[1] = plan[l].release /\ Found(l, m) = t[3]
    BY <1>1 DEF Found, Linked
  <2> QED BY <2>1 DEF LinksPlanned
<1>2. CASE ~Linked(plan[l].release, m)
  <2>1. PICK k \in DOMAIN RuntimeSet : RuntimeSet[k] = m
    BY DEF Names
  <2>2. Links(l, RuntimeSet[k]) /\ k \in 1..next[l] - 1
    BY <2>1 DEF Domains, Stands, PlanComplete, Links
  <2> QED BY <1>2, <2>1, <2>2 DEF LinksStay, Held, Active
<1> QED BY <1>1, <1>2

\* A launch that uses the host's runtime has every member of it from a directory
\* that a launch has verified for that release, except one it loads while
\* another launch, alive or dead, has unlinked it (rs_build_farm).
THEOREM MixedOnlyWhileRelinked == Spec => MixedOnlyUnderRelink
<1>1. FarmInv /\ [Next]_vars =>
        [\A l \in Launches : \A m \in Names :
           got[l][m] = None /\ got'[l][m] # None
             => \/ \E k \in Launches : plan[k].host /\ plan[k].release = plan[l].release
                                       /\ got'[l][m] = plan[k].dir
                \/ \E k \in Launches \ {l} : hole[k] = m /\ plan[k].release = plan[l].release]_vars
  <2> SUFFICES ASSUME FarmInv, Next, NEW l \in Launches, NEW m \in Names,
                      got[l][m] = None, got'[l][m] # None
               PROVE  \/ \E k \in Launches : plan[k].host /\ plan[k].release = plan[l].release
                                             /\ got'[l][m] = plan[k].dir
                      \/ Relinking(l, m)
    BY DEF Relinking
  <2>1. PICK n \in Launches : Launch(n)
    BY DEF Next
  <2>2. CASE Exec(n)
    <3>1. l = n /\ m = "libc" /\ got'[l][m] = Found(l, m) /\ pc[l] = "exec"
      BY <2>2 DEF Exec, FarmInv, Domains
    <3>2. Has(opts[l].app, m)
      BY <3>1 DEF FarmInv, Stands, PlanComplete
    <3> QED BY <3>1, <3>2, FoundWhere
  <2>3. CASE \E o \in Names : LoadMember(n, o)
    <3>1. PICK o \in Names : LoadMember(n, o)
      BY <2>3
    <3>2. /\ l = n /\ m = o /\ got'[l][m] = Found(l, m) /\ pc[l] = "host"
          /\ m # "ld" /\ Has(opts[l].app, m)
      BY <3>1 DEF LoadMember, FarmInv, Domains, Shipped
    <3> QED BY <3>2, FoundWhere
  <2>4. CASE UNCHANGED got
    BY <2>4
  <2> QED
    BY <2>1, <2>2, <2>3, <2>4
       DEF Launch, Decide, Mkdir, PassOver, Unlink, Symlink, Onward, FarmBuilt, SelfTest, Kill
<1> QED BY <1>1, InitFarm, FarmStep, PTL DEF Spec, MixedOnlyUnderRelink
-----------------------------------------------------------------------------
(***************************************************************************)
(* Types.                                                                  *)
(***************************************************************************)
\* A finite set of integers that is not empty has a greatest.
LEMMA HasGreatest ==
  ASSUME NEW R \in SUBSET Int, IsFiniteSet(R), R # {}
  PROVE  \E n \in R : \A k \in R : k <= n
<1> DEFINE Good == {c \in Nat : \A T \in SUBSET Int :
                      IsFiniteSet(T) /\ Cardinality(T) = c /\ T # {}
                        => \E n \in T : \A k \in T : k <= n}
<1>1. 0 \in Good
  BY FS_EmptySet
<1>2. ASSUME NEW c \in Nat, c \in Good PROVE c + 1 \in Good
  <2> SUFFICES ASSUME NEW T \in SUBSET Int, IsFiniteSet(T), Cardinality(T) = c + 1, T # {}
               PROVE  \E n \in T : \A k \in T : k <= n
    OBVIOUS
  <2>1. PICK e \in T : TRUE
    OBVIOUS
  <2>2. IsFiniteSet(T \ {e}) /\ Cardinality(T \ {e}) = c
    <3>1. IsFiniteSet(T \ {e}) /\ Cardinality(T \ {e}) = Cardinality(T) - 1
      BY <2>1, FS_RemoveElement, Zenon
    <3> QED BY <3>1
  <2>3. CASE T \ {e} = {}
    BY <2>1, <2>3
  <2>4. CASE T \ {e} # {}
    <3>1. PICK n \in T \ {e} : \A k \in T \ {e} : k <= n
      BY <1>2, <2>2, <2>4
    <3>2. CASE n <= e
      BY <2>1, <3>1, <3>2
    <3>3. CASE ~ n <= e
      BY <2>1, <3>1, <3>3
    <3> QED BY <3>2, <3>3
  <2> QED BY <2>3, <2>4
<1>3. Nat \subseteq Good
  <2> HIDE DEF Good
  <2> QED BY <1>1, <1>2, SetInduction
<1>4. Cardinality(R) \in Nat
  BY FS_CardinalityType
<1> QED BY <1>3, <1>4

\* The runtime set has finitely many names.
LEMMA NamesFinite == IsFiniteSet(Names)
<1>1. IsFiniteSet(1..Len(RuntimeSet))
  BY SelectAssumption, FS_Interval
<1>2. RuntimeSet \in [1..Len(RuntimeSet) -> Names]
  BY SelectAssumption
<1>3. RuntimeSet \in Surjection(1..Len(RuntimeSet), Names)
  BY <1>2 DEF Surjection, Names
<1> QED BY <1>1, <1>3, FS_Surjection

\* What a launch may be asked for, in the world there is.
LEMMA WorldIs ==
  ASSUME disk \in DOMAIN Worlds
  PROVE  /\ world.search \in Seq(Places)
         /\ \A o \in Options : o.app \in Places /\ o.hostDir \in Places \cup {None}
         /\ \A x \in Places : \A m \in Names : Has(x, m) =>
              File(x, m).defines \subseteq Int /\ IsFiniteSet(File(x, m).defines)
BY WorldsAssumption DEF Places, File

\* The release of a set of files is an integer.
LEMMA ReleaseTyped ==
  ASSUME disk \in DOMAIN Worlds, NEW x \in Places, NEW ms \in SUBSET Names
  PROVE  Release(x, ms) \in Int
<1> DEFINE S == {File(x, m).defines : m \in {m \in ms : Has(x, m)}}
           R == {n \in UNION S : n > 0}
<1>1. \A D \in S : D \subseteq Int /\ IsFiniteSet(D)
  BY WorldIs
<1>2. IsFiniteSet(S)
  <2> DEFINE P == {m \in ms : Has(x, m)}
             f == [m \in P |-> File(x, m).defines]
  <2>1. IsFiniteSet(P)
    BY NamesFinite, FS_Subset
  <2>2. f \in Surjection(P, S)
    BY DEF Surjection
  <2> HIDE DEF f, P, S
  <2> QED BY <2>1, <2>2, FS_Surjection
<1>3. IsFiniteSet(UNION S)
  <2> HIDE DEF S
  <2> QED BY <1>1, <1>2, FS_UNION
<1>4. IsFiniteSet(R) /\ R \in SUBSET Int
  BY <1>1, <1>3, FS_Subset
<1>5. Release(x, ms) = IF R = {} THEN -1 ELSE CHOOSE n \in R : \A k \in R : k <= n
  BY DEF Release
<1>6. CASE R # {}
  <2>1. \E n \in R : \A k \in R : k <= n
    BY <1>4, <1>6, HasGreatest
  <2> HIDE DEF R
  <2> QED BY <1>4, <1>5, <1>6, <2>1
<1>7. CASE R = {}
  BY <1>5, <1>7
<1> QED BY <1>6, <1>7

\* A decision for the host names a directory and a release.
LEMMA DecisionTyped ==
  ASSUME disk \in DOMAIN Worlds, NEW o \in Options, Decision(o).host
  PROVE  Decision(o).dir \in Places /\ Decision(o).release \in Int
<1> DEFINE d == CHOOSE d \in HostDirs(o) : TRUE
<1>1. /\ HostDirs(o) # {} /\ Decision(o).dir = d
      /\ Decision(o).release = Release(d, Shipped(o))
  BY DEF Decision, Bundled
<1>2. d \in HostDirs(o)
  BY <1>1
<1>3. Search(o) \in Seq(Places)
  BY WorldIs DEF Search
<1>4. d \in Places
  <2> HIDE DEF d
  <2> QED BY <1>2, <1>3 DEF HostDirs
<1>5. Shipped(o) \in SUBSET Names
  BY DEF Shipped
<1> HIDE DEF d
<1> QED BY <1>1, <1>4, <1>5, ReleaseTyped

\* A launch's plan is what rs_decide says, from when it has asked.
PlanInv ==
  \A l \in Launches : plan[l] = IF pc[l] = "start" THEN Bundled ELSE Decision(opts[l])

TypeInv == FarmInv /\ PlanInv /\ TypeOK

\* A plan once made is kept, and the options and the disk with it.
LEMMA PlanStep == FarmInv /\ PlanInv /\ [Next]_vars => PlanInv'
<1> SUFFICES ASSUME FarmInv, PlanInv, [Next]_vars PROVE PlanInv'
  OBVIOUS
<1> USE DEF FarmInv, Domains
<1>1. \A o : Decision(o)' = Decision(o)
  <2>1. disk' = disk
    BY DEF Next, Launch, Decide, Mkdir, PassOver, Unlink, Symlink, FarmBuilt, SelfTest, Exec,
           LoadMember, Kill
  <2> QED BY <2>1 DEF Decision, HostDirs, Usable, LoaderDirs, FirstWithLoader, Complete, Search,
                      Release, Shipped, Consistent, NamesAgree, SymbolsAgree, Exported, File
<1>2. CASE UNCHANGED vars
  BY <1>1, <1>2 DEF PlanInv
<1>3. ASSUME NEW l \in Launches, Decide(l) PROVE PlanInv'
  BY <1>1, <1>3 DEF Decide, PlanInv
<1>4. ASSUME NEW l \in Launches,
             \/ Mkdir(l) \/ PassOver(l) \/ Unlink(l) \/ Symlink(l) \/ FarmBuilt(l) \/ SelfTest(l)
             \/ Exec(l) \/ Kill(l) \/ \E m \in Names : LoadMember(l, m)
      PROVE  PlanInv'
  <2>1. UNCHANGED <<opts, plan>> /\ \A p \in Launches : pc'[p] = "start" <=> pc[p] = "start"
    BY <1>4 DEF Mkdir, PassOver, Unlink, Symlink, Onward, FarmBuilt, SelfTest, Exec, Kill, LoadMember
  <2> QED BY <1>1, <2>1 DEF PlanInv
<1> QED BY <1>2, <1>3, <1>4 DEF Next, Launch

\* Where a member is found is a place there is.
LEMMA FoundTyped ==
  ASSUME TypeInv, NEW l \in Launches, pc[l] \in {"exec", "host"}, NEW m \in Names
  PROVE  Found(l, m) \in Places
<1> USE DEF TypeInv, TypeOK
<1>1. plan[l].host /\ plan[l].dir \in Places
  BY DecisionTyped DEF FarmInv, Stands, PlanInv, Domains
<1>2. opts[l].app \in Places
  BY WorldIs
<1>3. CASE Linked(plan[l].release, m)
  <2> DEFINE t == CHOOSE k \in farm : k[1] = plan[l].release /\ k[2] = m
  <2>1. t \in farm /\ Found(l, m) = t[3]
    BY <1>3 DEF Found, Linked
  <2> QED BY <2>1
<1>4. CASE ~Linked(plan[l].release, m)
  BY <1>1, <1>2, <1>4 DEF Found
<1> QED BY <1>3, <1>4

\* TypeOK holds at the start.
LEMMA InitTypes == Init => PlanInv /\ TypeOK
<1>1. Len(RuntimeSet) \in Nat
  BY SelectAssumption
<1> QED BY <1>1 DEF Init, PlanInv, TypeOK, PCs

\* A launch's step keeps the types: what it links is named by its plan, and one
\* link at a time is made for a name and a release.
LEMMA TypeStep == TypeInv /\ [Next]_vars => TypeOK'
<1> SUFFICES ASSUME TypeInv, [Next]_vars PROVE TypeOK'
  OBVIOUS
<1> USE DEF TypeInv, TypeOK
<1>1. UNCHANGED <<disk, opts>>
  BY DEF Next, Launch, Decide, Mkdir, PassOver, Unlink, Symlink, FarmBuilt, SelfTest, Exec,
         LoadMember, Kill
<1>2. Places' = Places
  BY <1>1 DEF Places
<1>3. Len(RuntimeSet) \in Nat
  BY SelectAssumption
<1>4. CASE UNCHANGED vars
  BY <1>1, <1>2, <1>4
<1>5. ASSUME NEW l \in Launches,
             Decide(l) \/ Mkdir(l) \/ PassOver(l) \/ FarmBuilt(l) \/ SelfTest(l) \/ Kill(l)
      PROVE  TypeOK'
  <2>1. UNCHANGED <<hole, farm, got>>
    BY <1>5 DEF Decide, Mkdir, PassOver, FarmBuilt, SelfTest, Kill
  <2>2. pc' \in [Launches -> PCs]
    BY <1>5 DEF Decide, Mkdir, PassOver, FarmBuilt, SelfTest, Kill, PCs
  <2>3. next' \in [Launches -> 1..Len(RuntimeSet) + 1]
    BY <1>3, <1>5 DEF Decide, Mkdir, PassOver, FarmBuilt, SelfTest, Kill
  <2> QED BY <1>1, <1>2, <2>1, <2>2, <2>3
<1>6. ASSUME NEW l \in Launches, Unlink(l) PROVE TypeOK'
  <2>1. Due(l) \in Names \ {"ld"}
    BY <1>6, SelectAssumption DEF Unlink, Links, Names
  <2>2. pc' \in [Launches -> PCs]
    BY <1>6 DEF Unlink, PCs
  <2>3. hole' \in [Launches -> (Names \ {"ld"}) \cup {None}]
    BY <1>6, <2>1 DEF Unlink
  <2>4. farm' \subseteq farm /\ UNCHANGED <<next, got>>
    BY <1>6 DEF Unlink
  <2> QED BY <1>1, <1>2, <2>2, <2>3, <2>4
<1>7. ASSUME NEW l \in Launches, Symlink(l) PROVE TypeOK'
  <2>1. /\ plan[l].dir \in Places /\ plan[l].release \in Int
        /\ Due(l) \in Names \ {"ld"} /\ next[l] <= Len(RuntimeSet)
    <3>1. pc[l] = "symlink"
      BY <1>7 DEF Symlink
    <3>2. plan[l].host /\ plan[l] = Decision(opts[l])
      BY <3>1 DEF FarmInv, Stands, PlanInv
    <3>3. hole[l] = Due(l) /\ next[l] <= Len(RuntimeSet) /\ next[l] \in 1..Len(RuntimeSet)
      BY <1>3, <3>1 DEF FarmInv, Stands
    <3>4. Due(l) \in Names
      BY <3>3, SelectAssumption DEF Names
    <3> QED BY <3>2, <3>3, <3>4, DecisionTyped, SelectAssumption
  <2>2. pc' \in [Launches -> PCs]
    BY <1>7 DEF Symlink, Onward, PCs
  <2>3. next' \in [Launches -> 1..Len(RuntimeSet) + 1]
    BY <1>3, <1>7, <2>1 DEF Symlink, Onward
  <2>4. hole' \in [Launches -> (Names \ {"ld"}) \cup {None}] /\ got' = got
    BY <1>7 DEF Symlink, Onward
  <2>5. \/ farm' = farm
        \/ farm' = farm \cup {Link(l)} /\ ~Linked(plan[l].release, Due(l))
    BY <1>7 DEF Symlink
  <2>6. Link(l) \in Int \X (Names \ {"ld"}) \X Places
        /\ Link(l)[1] = plan[l].release /\ Link(l)[2] = Due(l)
    BY <2>1 DEF Link
  <2>7. farm' \subseteq Int \X (Names \ {"ld"}) \X Places
    BY <2>5, <2>6
  <2>8. \A j, k \in farm' : j[1] = k[1] /\ j[2] = k[2] => j = k
    BY <2>5, <2>6 DEF Linked
  <2> QED BY <1>1, <1>2, <2>2, <2>3, <2>4, <2>7, <2>8
<1>8. ASSUME NEW l \in Launches, Exec(l) PROVE TypeOK'
  <2>1. Found(l, "libc") \in Places
    BY <1>8, FoundTyped, SelectAssumption DEF Exec
  <2>2. pc' \in [Launches -> PCs]
    BY <1>8 DEF Exec, PCs
  <2>3. \A p \in Launches : got'[p] \in [Names -> Places \cup {None}]
    BY <1>8, <2>1, SelectAssumption DEF Exec, FarmInv, Domains
  <2> QED BY <1>1, <1>2, <1>8, <2>2, <2>3 DEF Exec
<1>9. ASSUME NEW l \in Launches, NEW m \in Names, LoadMember(l, m) PROVE TypeOK'
  <2>1. Found(l, m) \in Places
    BY <1>9, FoundTyped DEF LoadMember
  <2>2. \A p \in Launches : got'[p] \in [Names -> Places \cup {None}]
    BY <1>9, <2>1 DEF LoadMember, FarmInv, Domains
  <2> QED BY <1>1, <1>2, <1>9, <2>2 DEF LoadMember
<1> QED BY <1>4, <1>5, <1>6, <1>7, <1>8, <1>9 DEF Next, Launch

\* FarmInv, PlanInv and TypeOK hold throughout.
THEOREM TypeInvariant == Spec => []TypeInv
<1>1. Init => TypeInv
  BY InitFarm, InitTypes DEF TypeInv
<1>2. TypeInv /\ [Next]_vars => TypeInv'
  BY FarmStep, PlanStep, TypeStep DEF TypeInv
<1> QED BY <1>1, <1>2, PTL DEF Spec

\* Every link leads from a name of the set to a directory there is, one per name
\* and release, and every member an application has is from such a directory.
THEOREM TypeCorrect == Spec => []TypeOK
BY TypeInvariant, PTL DEF TypeInv
-----------------------------------------------------------------------------
(***************************************************************************)
(* The choice.                                                             *)
(***************************************************************************)
\* What a launch decides for: a directory and a loader's directory of those it
\* looks at, whole and consistent, and newer unless it was told to.
LEMMA DecisionIs ==
  ASSUME disk \in DOMAIN Worlds, NEW o \in Options, NEW d, NEW l, Decision(o).host,
         d = Decision(o).dir, l = Decision(o).ld
  PROVE  /\ {d, l} \subseteq HostPlaces(world) /\ {d, l} \subseteq {Search(o)[k] : k \in DOMAIN Search(o)}
         /\ Complete(o, d) /\ Has(l, "ld") /\ Consistent(o, d, l) /\ "libc" \in Shipped(o)
<1> DEFINE d0 == CHOOSE x \in HostDirs(o) : TRUE
           l0 == CHOOSE x \in LoaderDirs(o, d0) : TRUE
<1>1. /\ HostDirs(o) # {} /\ d = d0 /\ l = l0 /\ Consistent(o, d, l)
      /\ Has(o.app, "libc")
  BY DEF Decision, Bundled
<1>2. d \in HostDirs(o)
  <2> HIDE DEF l0
  <2> QED BY <1>1
<1>3. Complete(o, d) /\ LoaderDirs(o, d) # {} /\ d \in {Search(o)[k] : k \in DOMAIN Search(o)}
  BY <1>2 DEF HostDirs, Usable
<1>4. l \in LoaderDirs(o, d)
  <2> HIDE DEF d0
  <2> QED BY <1>1, <1>3
<1>5. Has(l, "ld") /\ l \in {Search(o)[k] : k \in DOMAIN Search(o)}
  BY <1>3, <1>4 DEF LoaderDirs, FirstWithLoader
<1>6. {Search(o)[k] : k \in DOMAIN Search(o)} \subseteq HostPlaces(world)
  <2>1. None \notin Places /\ world.search \in Seq(Places)
    BY WorldsAssumption DEF Places
  <2>2. CASE o.hostDir # None
    BY <2>2 DEF Search, HostPlaces
  <2>3. CASE o.hostDir = None
    BY <2>1, <2>3 DEF Search, HostPlaces
  <2> QED BY <2>2, <2>3
<1> QED BY <1>1, <1>3, <1>5, <1>6, SelectAssumption DEF Shipped

\* What a launch decides for loads, where what the check leaves out follows.
LEMMA DecisionLoads ==
  ASSUME disk \in DOMAIN Worlds, UnreadFollows(world), ShipsLibm(world),
         NEW o \in Options, Decision(o).host
  PROVE  Accepts(Decision(o).ld, {<<Decision(o).dir, m>> : m \in Shipped(o) \ {"ld"}})
<1> DEFINE d == Decision(o).dir
           l == Decision(o).ld
           of(m) == world.at[IF m = "ld" THEN l ELSE d][m]
           there == {m \in Names : of(m) # None}
           peers == there \cap {"ld", "libc", "libm"}
           mine == (Shipped(o) \ {"ld"}) \cup {"ld"}
           at(m) == <<IF m = "ld" THEN l ELSE d, m>>
           set == {<<d, m>> : m \in Shipped(o) \ {"ld"}} \cup {<<l, "ld">>}
           exported == UNION {File(f[1], f[2]).exports : f \in set}
<1>1. /\ {d, l} \subseteq HostPlaces(world) /\ Complete(o, d) /\ Has(l, "ld")
      /\ Consistent(o, d, l) /\ "libc" \in Shipped(o)
  BY DecisionIs
<1>2. "libm" \in Shipped(o)
  BY SelectAssumption DEF ShipsLibm, Shipped
<1>3. set = {at(m) : m \in mine}
  OBVIOUS
<1>4. \A m : File(at(m)[1], at(m)[2]) = of(m) /\ at(m)[2] = m
  BY DEF File
<1>5. mine \subseteq there
  BY <1>1, SelectAssumption DEF Complete, Shipped
<1>6. {"ld", "libc", "libm"} \subseteq mine
  BY <1>1, <1>2
<1>7. of("libc").needs["ld"] \subseteq of("ld").defines
  BY <1>1 DEF Consistent, NamesAgree, File
<1>8. /\ \A m \in peers : of(m).imports \subseteq UNION {of(n).exports : n \in peers}
      /\ \A m, n \in there : \/ m = "libc" /\ n = "ld"
                             \/ m \notin {"ld", "libc"} /\ n = "libc"
                             \/ of(m).needs[n] \subseteq of(n).defines
  <2> HIDE DEF d, l
  <2> QED BY <1>1, <1>5, <1>6, <1>7 DEF UnreadFollows
<1> HIDE DEF d, l, of, there, mine, at, set
<1>9. \A m \in mine : of(m).exports \subseteq exported
  BY <1>3, <1>4
<1>10. ASSUME NEW m \in mine PROVE of(m).imports \subseteq exported
  <2>1. CASE m \in {"ld", "libc", "libm"}
    <3>1. m \in peers /\ peers \subseteq mine
      BY <1>5, <1>6, <2>1
    <3> QED BY <1>8, <1>9, <3>1
  <2>2. CASE m \notin {"ld", "libc", "libm"}
    <3>1. m \in Shipped(o) \ {"ld", "libc", "libm"}
      BY <2>2 DEF mine
    <3>2. of(m).imports \subseteq Exported(d, l)
      BY <1>1, <2>2, <3>1 DEF Consistent, SymbolsAgree, File, of
    <3>3. Exported(d, l) \subseteq exported
      <4>1. /\ of("libc") = File(d, "libc") /\ of("libm") = File(d, "libm")
            /\ of("ld") = File(l, "ld")
        BY DEF of, File
      <4>2. of("libc").exports \subseteq exported /\ of("libm").exports \subseteq exported
            /\ of("ld").exports \subseteq exported
        BY <1>6, <1>9
      <4> HIDE DEF exported
      <4> SUFFICES ASSUME NEW e \in Exported(d, l) PROVE e \in exported
        OBVIOUS
      <4>3. \/ e \in File(d, "libc").exports \/ e \in File(d, "libm").exports
            \/ e \in File(l, "ld").exports
        BY DEF Exported
      <4> QED BY <4>1, <4>2, <4>3
    <3> QED BY <3>2, <3>3
  <2> QED BY <2>1, <2>2
<1>11. ASSUME NEW m \in mine, NEW n \in mine PROVE of(m).needs[n] \subseteq of(n).defines
  <2>1. CASE m = "libc" /\ n = "ld"
    BY <1>7, <2>1
  <2>2. CASE m \notin {"ld", "libc"} /\ n = "libc"
    BY <1>1, <2>2 DEF Consistent, NamesAgree, File, of, mine
  <2>3. CASE ~(m = "libc" /\ n = "ld") /\ ~(m \notin {"ld", "libc"} /\ n = "libc")
    BY <1>5, <1>8, <2>3
  <2> QED BY <2>1, <2>2, <2>3
<1>12. \A f \in set :
         /\ File(f[1], f[2]).imports \subseteq exported
         /\ \A g \in set : File(f[1], f[2]).needs[g[2]] \subseteq File(g[1], g[2]).defines
  <2> HIDE DEF exported
  <2> QED BY <1>3, <1>4, <1>10, <1>11
<1> QED BY <1>12 DEF Accepts, set, d, l

\* Whatever set a launch settles for, the loader it is paired with accepts it, on
\* a host where what rs_set_consistent does not read follows from what it reads.
THEOREM PlannedSetsLoad ==
  ASSUME \A k \in DOMAIN Worlds : UnreadFollows(Worlds[k]) /\ ShipsLibm(Worlds[k])
  PROVE  Spec => []PlannedSetLoads
<1>1. TypeInv => PlannedSetLoads
  <2> SUFFICES ASSUME TypeInv, NEW l \in Launches, plan[l].host
               PROVE  Accepts(plan[l].ld, {<<plan[l].dir, m>> : m \in Shipped(opts[l]) \ {"ld"}})
    BY DEF PlannedSetLoads
  <2>1. disk \in DOMAIN Worlds /\ opts[l] \in Options /\ plan[l] = Decision(opts[l])
    BY DEF TypeInv, TypeOK, PlanInv, Bundled
  <2>2. UnreadFollows(world) /\ ShipsLibm(world)
    BY <2>1
  <2> QED BY <2>1, <2>2, DecisionLoads
<1> QED BY <1>1, TypeInvariant, PTL

\* A decision for a host of one release, in a bundle of one: the newer is taken.
LEMMA DecisionSwitches ==
  ASSUME disk \in DOMAIN Worlds, OneReleaseFits(world), ReleaseNamed(world),
         NEW o \in Options, o.runtime = "auto", HostDirs(o) # {},
         NEW r, r # 0,
         \A x \in {Search(o)[k] : k \in DOMAIN Search(o)} :
           (\E m \in Names : Has(x, m)) => world.built[x] = r
  PROVE  Decision(o).host <=> r > world.built[o.app]
<1> DEFINE d == CHOOSE x \in HostDirs(o) : TRUE
           l == CHOOSE x \in LoaderDirs(o, d) : TRUE
           of(m) == world.at[IF m = "ld" THEN l ELSE d][m]
           there == {m \in Names : of(m) # None}
           provided == UNION {of(n).exports : n \in there \cap {"ld", "libc", "libm"}}
           dirs == {Search(o)[k] : k \in DOMAIN Search(o)}
<1>1. d \in HostDirs(o)
  OBVIOUS
<1>2. Complete(o, d) /\ LoaderDirs(o, d) # {} /\ d \in dirs
  <2> HIDE DEF d
  <2> QED BY <1>1 DEF HostDirs, Usable
<1>3. l \in LoaderDirs(o, d)
  <2> HIDE DEF d
  <2> QED BY <1>2
<1>4. Has(l, "ld") /\ l \in dirs
  <2> HIDE DEF d, l
  <2> QED BY <1>2, <1>3 DEF LoaderDirs, FirstWithLoader
<1>5. dirs \subseteq Places /\ o.app \in Places
  BY WorldIs DEF Search
<1> HIDE DEF d, l
<1>6. Has(d, "libc") /\ world.built[d] = r /\ world.built[l] = r
  BY <1>2, <1>4, SelectAssumption DEF Complete
<1>7. ASSUME NEW x \in Places, world.built[x] # 0, \A m \in Shipped(o) \ {"ld"} : Has(x, m)
      PROVE  world.built[x] > 0 /\ Release(x, Shipped(o)) = world.built[x]
  <2> DEFINE named == UNION {File(x, m).defines : m \in {m \in Shipped(o) : Has(x, m)}}
             R == {n \in named : n > 0}
             b == world.built[x]
  <2>1. b > 0 /\ b \in named /\ \A n \in named : n <= b
    BY <1>7 DEF ReleaseNamed, Shipped, File, Places
  <2>2. named \subseteq Int
    BY WorldIs DEF Shipped
  <2>3. Release(x, Shipped(o)) = IF R = {} THEN -1 ELSE CHOOSE n \in R : \A k \in R : k <= n
    BY DEF Release
  <2> HIDE DEF named, b
  <2>4. b \in R /\ \A n \in R : n <= b
    BY <2>1, <2>2
  <2>5. \A n \in R : (\A k \in R : k <= n) => n = b
    BY <2>1, <2>2, <2>4
  <2> HIDE DEF R
  <2>6. (CHOOSE n \in R : \A k \in R : k <= n) = b
    BY <2>4, <2>5
  <2> QED BY <2>1, <2>3, <2>4, <2>6 DEF b
<1>8. /\ Release(o.app, Shipped(o)) = world.built[o.app] /\ world.built[o.app] > 0
      /\ Has(o.app, "libc")
  <2>1. "libc" \in Shipped(o) /\ world.built[o.app] > 0
    BY <1>5, SelectAssumption DEF ReleaseNamed, Shipped, Places
  <2> QED BY <1>5, <1>7, <2>1 DEF Shipped
<1>9. Release(d, Shipped(o)) = r /\ r > 0
  BY <1>2, <1>5, <1>6, <1>7 DEF Complete
<1>10. /\ of("ld").defines # {} /\ of("libc").defines # {} /\ provided # {}
       /\ of("libc").needs["ld"] \subseteq of("ld").defines
       /\ \A m \in there \ {"ld", "libc"} : of(m).needs["libc"] \subseteq of("libc").defines
       /\ \A m \in there \ {"ld", "libc", "libm"} : of(m).imports \subseteq provided
  <2>1. {"ld", "libc"} \subseteq there
    BY <1>4, <1>6, SelectAssumption
  <2>2. d \in Places /\ l \in Places
    BY <1>2, <1>4, <1>5
  <2> QED BY <1>6, <2>1, <2>2, Zenon DEF OneReleaseFits, Places
<1>11. Consistent(o, d, l)
  <2>1. of("ld") = File(l, "ld") /\ \A m \in Names \ {"ld"} : of(m) = File(d, m)
    BY DEF File
  <2>2. Shipped(o) \ {"ld"} \subseteq there
    BY <1>2 DEF Complete, Shipped
  <2>3. {"libc", "libm"} \subseteq Names
    BY SelectAssumption
  <2>4. provided \subseteq Exported(d, l)
    <3> SUFFICES ASSUME NEW n \in there \cap {"ld", "libc", "libm"}
                 PROVE  of(n).exports \subseteq Exported(d, l)
      OBVIOUS
    <3>1. CASE n = "ld"
      BY <2>1, <3>1 DEF Exported
    <3>2. CASE n # "ld"
      <4>1. n \in {"libc", "libm"} /\ Has(d, n) /\ of(n) = File(d, n)
        BY <2>1, <2>3, <3>2
      <4> QED BY <4>1 DEF Exported
    <3> QED BY <3>1, <3>2
  <2> HIDE DEF of, there, provided
  <2>5. File(l, "ld").defines # {} /\ File(d, "libc").defines # {}
    BY <1>10, <2>1, <2>3
  <2>6. NamesAgree(o, d, l)
    BY <1>10, <2>1, <2>2, <2>3 DEF NamesAgree, Shipped
  <2>7. SymbolsAgree(o, d, l)
    BY <1>10, <2>1, <2>2, <2>4 DEF SymbolsAgree, Shipped
  <2> QED BY <2>5, <2>6, <2>7 DEF Consistent
<1> HIDE DEF of, there, provided, dirs
<1>12. Decision(o) = IF r > world.built[o.app]
                     THEN [host |-> TRUE, dir |-> d, ld |-> l, release |-> r] ELSE Bundled
  <2>1. r \in Int /\ world.built[o.app] \in Int
    BY <1>2, <1>5, <1>8, <1>9, ReleaseTyped DEF Shipped, dirs
  <2>2. Decision(o) = IF /\ Release(d, Shipped(o)) >= 0
                         /\ \/ Release(d, Shipped(o)) > Release(o.app, Shipped(o))
                            \/ o.runtime = "host"
                         /\ Consistent(o, d, l)
                      THEN [host |-> TRUE, dir |-> d, ld |-> l, release |-> Release(d, Shipped(o))]
                      ELSE Bundled
    <3>1. o.runtime \in {"auto", "host"} /\ ~(Release(o.app, Shipped(o)) < 0)
      BY <1>8, <2>1
    <3> QED BY <1>8, <3>1 DEF Decision, d, l
  <2> QED BY <1>8, <1>9, <1>11, <2>1, <2>2
<1> QED BY <1>12 DEF Bundled

\* A launch left the choice takes the host's glibc exactly when it is newer,
\* where the host has one glibc, of a release whose files fit each other and one
\* of which tells it: wherever the code finds the members, and the loader.
THEOREM NewerIsTaken ==
  ASSUME \A k \in DOMAIN Worlds : OneReleaseFits(Worlds[k]) /\ ReleaseNamed(Worlds[k])
  PROVE  Spec => []SwitchesWhenNewer
<1>1. TypeInv => SwitchesWhenNewer
  <2> SUFFICES ASSUME TypeInv, NEW l \in Launches,
                      pc[l] # "start", opts[l].runtime = "auto", HostDirs(opts[l]) # {},
                      NEW hosts,
                      hosts = {world.built[d] : d \in {d \in {Search(opts[l])[k] : k \in DOMAIN Search(opts[l])} :
                                                        \E m \in Names : Has(d, m)}},
                      0 \notin hosts, Cardinality(hosts) = 1
               PROVE  plan[l].host <=> \E r \in hosts : r > world.built[opts[l].app]
    BY DEF SwitchesWhenNewer
  <2>1. disk \in DOMAIN Worlds /\ opts[l] \in Options /\ plan[l] = Decision(opts[l])
    BY DEF TypeInv, TypeOK, PlanInv
  <2>2. OneReleaseFits(world) /\ ReleaseNamed(world)
    BY <2>1
  <2>3. PICK r : hosts = {r}
    <3>1. IsFiniteSet(hosts)
      <4> DEFINE dirs == {d \in {Search(opts[l])[k] : k \in DOMAIN Search(opts[l])} :
                           \E m \in Names : Has(d, m)}
      <4>1. Search(opts[l]) \in Seq(Places)
        BY <2>1, WorldIs DEF Search
      <4>2. DOMAIN Search(opts[l]) = 1..Len(Search(opts[l])) /\ Len(Search(opts[l])) \in Nat
        BY <4>1
      <4>3. IsFiniteSet(DOMAIN Search(opts[l]))
        BY <4>2, FS_Interval
      <4> DEFINE all == {Search(opts[l])[k] : k \in DOMAIN Search(opts[l])}
                 f == [k \in DOMAIN Search(opts[l]) |-> Search(opts[l])[k]]
                 g == [d \in dirs |-> world.built[d]]
      <4>4. f \in Surjection(DOMAIN Search(opts[l]), all)
        BY DEF Surjection
      <4>5. IsFiniteSet(all)
        <5> HIDE DEF f, all
        <5> QED BY <4>3, <4>4, FS_Surjection
      <4>6. IsFiniteSet(dirs)
        BY <4>5, FS_Subset
      <4>7. g \in Surjection(dirs, hosts)
        BY DEF Surjection
      <4> HIDE DEF g, dirs
      <4> QED BY <4>6, <4>7, FS_Surjection
    <3> QED BY <3>1, FS_Singleton
  <2>4. /\ r # 0
        /\ \A x \in {Search(opts[l])[k] : k \in DOMAIN Search(opts[l])} :
             (\E m \in Names : Has(x, m)) => world.built[x] = r
    BY <2>3
  <2>5. plan[l].host <=> r > world.built[opts[l].app]
    BY <2>1, <2>2, <2>4, DecisionSwitches
  <2> QED BY <2>3, <2>5
<1> QED BY <1>1, TypeInvariant, PTL
=============================================================================
