--------------------------- MODULE RuntimeSelect ---------------------------
(***************************************************************************)
(* runtime-select.c: which glibc a launch of the application runs under.   *)
(* rs_decide compares the bundle's with the host's and verifies the host's *)
(* set statically; rs_build_farm links that set under the user's runtime   *)
(* directory; the self-test tries it; the application is executed under it *)
(* and finds each member of the set in the farm, else in the bundle, else  *)
(* in the host's directory.  The farm is named after the host's release    *)
(* only, so every launch of the user, of whatever bundle, shares it.       *)
(*                                                                         *)
(* A file is what the static check reads of it: the versions it defines    *)
(* and needs of its peers (0 is GLIBC_PRIVATE and whatever else is no      *)
(* release), the symbols it exports and imports.                           *)
(***************************************************************************)
EXTENDS Integers, Sequences, FiniteSets

CONSTANTS Launches,
          RuntimeSet, \* rs_runtime_set, "ld", "libc" and "libm" among them
          Worlds,     \* what may be on disk, a sequence of records:
                      \* at[place][name], the file there; search, the host's directories
                      \* in order; inside[app], those of them below the bundle;
                      \* built[place], the release its files are of, 0 if of several:
                      \* the truth, which nothing in the code reads
          Options,    \* what a launch is asked for: records of app, runtime, hostDir, test
          None

Names == {RuntimeSet[k] : k \in DOMAIN RuntimeSet}

ASSUME SelectAssumption ==
  /\ {"ld", "libc", "libm"} \subseteq Names /\ None \notin Names
  /\ RuntimeSet \in Seq(Names)
  /\ \A j, k \in DOMAIN RuntimeSet : RuntimeSet[j] = RuntimeSet[k] => j = k

\* A launch looks at directories there are, and a file defines so many versions.
ASSUME WorldsAssumption ==
  \A k \in DOMAIN Worlds :
    LET at == Worlds[k].at
    IN /\ None \notin DOMAIN at /\ Worlds[k].search \in Seq(DOMAIN at)
       /\ \A o \in Options : o.app \in DOMAIN at /\ o.hostDir \in DOMAIN at \cup {None}
       /\ \A x \in DOMAIN at : \A m \in Names : at[x][m] # None =>
            at[x][m].defines \subseteq Int /\ IsFiniteSet(at[x][m].defines)

VARIABLES disk,    \* which of the worlds it is
          opts, plan, pc,
          next,    \* the place in rs_runtime_set of the member it links next
          hole,    \* the member it has unlinked and not linked again
          farm,    \* the links: <<release, name, the directory it points into>>
          got      \* got[l][name], the place the running application has it from

world == Worlds[disk]
Places == DOMAIN world.at

vars == <<disk, opts, plan, pc, next, hole, farm, got>>

PCs == {"start", "mkdir", "unlink", "symlink", "test", "exec", "host", "bundled", "killed"}
-----------------------------------------------------------------------------
Has(x, m) == world.at[x][m] # None
File(x, m) == world.at[x][m]

\* The members the bundle ships: only they are required of the host.
Shipped(o) == {m \in Names : Has(o.app, m)}

\* The highest release any of the files defines, -1 if none does.
Release_OfLibc(x, ms) ==
  LET R == {n \in File(x, "libc").defines : n > 0}
  IN IF R = {} THEN -1 ELSE CHOOSE n \in R : \A k \in R : k <= n
Release(x, ms) ==
  LET R == {n \in UNION {File(x, m).defines : m \in {m \in ms : Has(x, m)}} : n > 0}
  IN IF R = {} THEN -1 ELSE CHOOSE n \in R : \A k \in R : k <= n

Search(o) == IF o.hostDir # None THEN <<o.hostDir>> ELSE world.search

\* A directory that holds the whole set, and the directory of the loader that
\* goes with it: the same, or the first on the list that has one.
Complete(o, d) == /\ Has(d, "libc") /\ d \notin world.inside[o.app]
                  /\ \A m \in Shipped(o) \ {"ld"} : Has(d, m)
FirstWithLoader(o, k) ==
  Has(Search(o)[k], "ld") /\ \A j \in 1..k - 1 : ~Has(Search(o)[j], "ld")
LoaderDirs(o, d) == IF Has(d, "ld") THEN {d}
                    ELSE {Search(o)[k] : k \in {k \in DOMAIN Search(o) : FirstWithLoader(o, k)}}
Usable(o, d) == Complete(o, d) /\ LoaderDirs(o, d) # {}
HostDirs(o) == {Search(o)[k] : k \in {k \in DOMAIN Search(o) :
                  Usable(o, Search(o)[k]) /\ \A j \in 1..k - 1 : ~Usable(o, Search(o)[j])}}

\* rs_set_consistent, by version names and then by symbols.
NamesAgree_LdUnasked(o, d, l) ==
  \A m \in Shipped(o) \ {"ld", "libc"} : File(d, m).needs["libc"] \subseteq File(d, "libc").defines
NamesAgree(o, d, l) ==
  /\ File(d, "libc").needs["ld"] \subseteq File(l, "ld").defines
  /\ \A m \in Shipped(o) \ {"ld", "libc"} : File(d, m).needs["libc"] \subseteq File(d, "libc").defines
\* What the loader, libc and libm export between them.  rs_symset has room for
\* 4096 names, and those it drops count as missing: a glibc's are fewer.
Exported(d, l) == File(l, "ld").exports
                  \cup (UNION {File(d, m).exports : m \in {m \in {"libc", "libm"} : Has(d, m)}})
SymbolsAgree(o, d, l) ==
  /\ Exported(d, l) # {}
  /\ \A m \in Shipped(o) \ {"ld", "libc", "libm"} : File(d, m).imports \subseteq Exported(d, l)
Consistent(o, d, l) ==
  /\ File(l, "ld").defines # {} /\ File(d, "libc").defines # {}
  /\ NamesAgree(o, d, l) /\ SymbolsAgree(o, d, l)

Bundled == [host |-> FALSE, dir |-> None, ld |-> None, release |-> 0]

\* rs_decide.
Decision(o) ==
  IF \/ o.runtime \notin {"auto", "host"}
     \/ ~Has(o.app, "libc") \/ Release(o.app, Shipped(o)) < 0
     \/ HostDirs(o) = {}
  THEN Bundled
  ELSE LET d == CHOOSE d \in HostDirs(o) : TRUE
           l == CHOOSE l \in LoaderDirs(o, d) : TRUE
           r == Release(d, Shipped(o))
       IN IF /\ r >= 0
             /\ r > Release(o.app, Shipped(o)) \/ o.runtime = "host"
             /\ Consistent(o, d, l)
          THEN [host |-> TRUE, dir |-> d, ld |-> l, release |-> r]
          ELSE Bundled
-----------------------------------------------------------------------------
Init == /\ disk \in DOMAIN Worlds
        /\ opts \in [Launches -> Options]
        /\ plan = [l \in Launches |-> Bundled]
        /\ pc = [l \in Launches |-> "start"]
        /\ next = [l \in Launches |-> 1]
        /\ hole = [l \in Launches |-> None]
        /\ farm = {}
        /\ got = [l \in Launches |-> [m \in Names |-> None]]

Goto(l, s) == pc' = [pc EXCEPT ![l] = s]

Decide(l) ==
  /\ pc[l] = "start"
  /\ plan' = [plan EXCEPT ![l] = Decision(opts[l])]
  /\ Goto(l, IF plan'[l].host THEN "mkdir" ELSE "bundled")
  /\ UNCHANGED <<disk, opts, next, hole, farm, got>>

\* The farm's directory, which may be there already.  Without one the launch
\* stays with the bundle.
Mkdir(l) ==
  /\ pc[l] = "mkdir"
  /\ Goto(l, "unlink") \/ Goto(l, "bundled")
  /\ UNCHANGED <<disk, opts, plan, next, hole, farm, got>>

\* What is linked: the loader is named directly.
Links_LoaderToo(l, m) == Has(opts[l].app, m) /\ Has(plan[l].dir, m)
Links(l, m) == m # "ld" /\ Has(opts[l].app, m) /\ Has(plan[l].dir, m)
Due(l) == RuntimeSet[next[l]]

PassOver(l) ==
  /\ pc[l] = "unlink" /\ next[l] <= Len(RuntimeSet) /\ ~Links(l, Due(l))
  /\ next' = [next EXCEPT ![l] = @ + 1]
  /\ UNCHANGED <<disk, opts, plan, pc, hole, farm, got>>

\* A member's link is removed ...
Link(l) == <<plan[l].release, Due(l), plan[l].dir>>
Linked(r, m) == \E k \in farm : k[1] = r /\ k[2] = m

Unlink(l) ==
  /\ pc[l] = "unlink" /\ next[l] <= Len(RuntimeSet) /\ Links(l, Due(l))
  /\ farm' = {k \in farm : k[1] # plan[l].release \/ k[2] # Due(l)}
  /\ hole' = [hole EXCEPT ![l] = Due(l)]
  /\ Goto(l, "symlink")
  /\ UNCHANGED <<disk, opts, plan, next, got>>

Onward(l) == /\ next' = [next EXCEPT ![l] = @ + 1]
             /\ hole' = [hole EXCEPT ![l] = None]
             /\ Goto(l, "unlink")

Symlink_Unchecked(l) ==
  /\ pc[l] = "symlink"
  /\ \/ Linked(plan[l].release, Due(l)) /\ Onward(l) /\ UNCHANGED farm
     \/ ~Linked(plan[l].release, Due(l)) /\ farm' = farm \cup {Link(l)} /\ Onward(l)
     \/ ~Linked(plan[l].release, Due(l)) /\ Onward(l) /\ UNCHANGED farm
  /\ UNCHANGED <<disk, opts, plan, got>>

\* ... and made again, unless another launch has been faster.  Any other
\* failure gives the host's runtime up, with the farm as it is.
Symlink(l) ==
  /\ pc[l] = "symlink"
  /\ \/ Linked(plan[l].release, Due(l)) /\ Onward(l) /\ UNCHANGED farm
     \/ ~Linked(plan[l].release, Due(l)) /\ farm' = farm \cup {Link(l)} /\ Onward(l)
     \/ ~Linked(plan[l].release, Due(l)) /\ Goto(l, "bundled") /\ UNCHANGED <<next, hole, farm>>
  /\ UNCHANGED <<disk, opts, plan, got>>

FarmBuilt(l) ==
  /\ pc[l] = "unlink" /\ next[l] > Len(RuntimeSet)
  /\ Goto(l, IF opts[l].test THEN "test" ELSE "exec")
  /\ UNCHANGED <<disk, opts, plan, next, hole, farm, got>>
-----------------------------------------------------------------------------
(***************************************************************************)
(* --library-path is the farm, the bundle's directory, the host's: where a *)
(* process that starts now finds m.                                        *)
(***************************************************************************)
Found(l, m) ==
  IF Linked(plan[l].release, m) THEN (CHOOSE k \in farm : k[1] = plan[l].release /\ k[2] = m)[3]
  ELSE IF Has(opts[l].app, m) THEN opts[l].app ELSE plan[l].dir

\* Does the loader at ld accept these files, every version and every strong
\* import provided?
Accepts(ld, files) ==
  LET set == files \cup {<<ld, "ld">>}
      exported == UNION {File(f[1], f[2]).exports : f \in set}
  IN \A f \in set :
       /\ File(f[1], f[2]).imports \subseteq exported
       /\ \A g \in set : File(f[1], f[2]).needs[g[2]] \subseteq File(g[1], g[2]).defines

\* This very program is run under the plan, libc being what it needs; it is
\* skipped when it cannot be.
SelfTest(l) ==
  /\ pc[l] = "test"
  /\ \/ Goto(l, "exec")
     \/ ~Accepts(plan[l].ld, {<<Found(l, "libc"), "libc">>}) /\ Goto(l, "bundled")
  /\ UNCHANGED <<disk, opts, plan, next, hole, farm, got>>

Exec(l) ==
  /\ pc[l] = "exec"
  /\ got' = [got EXCEPT ![l]["libc"] = Found(l, "libc")]
  /\ Goto(l, "host")
  /\ UNCHANGED <<disk, opts, plan, next, hole, farm>>

\* The application loads another member of the set, at its start or later.
LoadMember(l, m) ==
  /\ pc[l] = "host" /\ m \in Shipped(opts[l]) \ {"ld"} /\ got[l][m] = None
  /\ got' = [got EXCEPT ![l][m] = Found(l, m)]
  /\ UNCHANGED <<disk, opts, plan, pc, next, hole, farm>>

\* A launch is killed, its links as they are.
Kill(l) ==
  /\ pc[l] \in {"mkdir", "unlink", "symlink", "test"}
  /\ Goto(l, "killed")
  /\ UNCHANGED <<disk, opts, plan, next, hole, farm, got>>

Launch(l) == \/ Decide(l) \/ Mkdir(l) \/ PassOver(l) \/ Unlink(l) \/ Symlink(l) \/ FarmBuilt(l)
             \/ SelfTest(l) \/ Exec(l) \/ (\E m \in Names : LoadMember(l, m)) \/ Kill(l)

Next == \E l \in Launches : Launch(l)

Spec == Init /\ [][Next]_vars
-----------------------------------------------------------------------------
TypeOK ==
  /\ disk \in DOMAIN Worlds /\ opts \in [Launches -> Options]
  /\ pc \in [Launches -> PCs]
  /\ next \in [Launches -> 1..Len(RuntimeSet) + 1]
  /\ hole \in [Launches -> (Names \ {"ld"}) \cup {None}]
  /\ farm \subseteq Int \X (Names \ {"ld"}) \X Places
  /\ \A j, k \in farm : j[1] = k[1] /\ j[2] = k[2] => j = k
  /\ \A l \in Launches : got[l] \in [Names -> Places \cup {None}]

(***************************************************************************)
(* What glibc is, as far as rs_set_consistent and rs_set_release count on  *)
(* it without reading it: the hypotheses under which the next two hold.    *)
(***************************************************************************)
\* The directories a launch may take a runtime from.
HostPlaces(w) == ({w.search[k] : k \in DOMAIN w.search} \cup {o.hostDir : o \in Options}) \ {None}

\* What the check does not read of the host follows from what it reads: a loader with the
\* names a libc needs has the rest too, and no other member needs much.
UnreadFollows(w) ==
  \A d, l \in HostPlaces(w) :
    LET of(m) == w.at[IF m = "ld" THEN l ELSE d][m]
        there == {m \in Names : of(m) # None}
        peers == there \cap {"ld", "libc", "libm"}
    IN {"ld", "libc"} \subseteq there /\ of("libc").needs["ld"] \subseteq of("ld").defines =>
         /\ \A m \in peers : of(m).imports \subseteq UNION {of(n).exports : n \in peers}
         /\ \A m, n \in there : \/ m = "libc" /\ n = "ld"
                                \/ m \notin {"ld", "libc"} /\ n = "libc"
                                \/ of(m).needs[n] \subseteq of(n).defines

\* ... with libm among the members the bundle ships.
ShipsLibm(w) == \A o \in Options : w.at[o.app]["libm"] # None

\* The files of one release, wherever they are, fit each other ...
OneReleaseFits(w) ==
  \A d, l \in DOMAIN w.at :
    LET of(m) == w.at[IF m = "ld" THEN l ELSE d][m]
        there == {m \in Names : of(m) # None}
        provided == UNION {of(n).exports : n \in there \cap {"ld", "libc", "libm"}}
    IN w.built[d] = w.built[l] /\ w.built[d] # 0 /\ {"ld", "libc"} \subseteq there =>
         /\ of("ld").defines # {} /\ of("libc").defines # {} /\ provided # {}
         /\ of("libc").needs["ld"] \subseteq of("ld").defines
         /\ \A m \in there \ {"ld", "libc"} : of(m).needs["libc"] \subseteq of("libc").defines
         /\ \A m \in there \ {"ld", "libc", "libm"} : of(m).imports \subseteq provided

\* ... and among the members a bundle ships is one that tells the release.
ReleaseNamed(w) ==
  \A o \in Options : \A d \in DOMAIN w.at :
    LET shipped == {m \in Names : w.at[o.app][m] # None}
        named == UNION {w.at[d][m].defines : m \in {m \in shipped : w.at[d][m] # None}}
    IN /\ "libc" \in shipped /\ w.built[o.app] > 0
       /\ w.built[d] # 0 /\ (\A m \in shipped \ {"ld"} : w.at[d][m] # None) =>
            w.built[d] > 0 /\ w.built[d] \in named /\ \A n \in named : n <= w.built[d]

\* "every STRONG undefined symbol of every member must be defined by the libc
\* and ld.so it will be paired with", and "each member's VERNEED on its peers
\* fall inside what those peers DEFINE": the loader accepts every set a launch
\* settles for.
PlannedSetLoads ==
  \A l \in Launches : plan[l].host =>
    Accepts(plan[l].ld, {<<plan[l].dir, m>> : m \in Shipped(opts[l]) \ {"ld"}})

\* The members of what a launch runs under come from the one directory it has
\* verified, or one another launch of the same release has, except for those
\* loaded while another launch had their link removed: that is being relinked,
\* or its launch was killed or had its symlink fail there.
MixedOnlyUnderRelink ==
  [][\A l \in Launches : \A m \in Names :
       got[l][m] = None /\ got'[l][m] # None
         => \/ \E k \in Launches : plan[k].host /\ plan[k].release = plan[l].release
                                   /\ got'[l][m] = plan[k].dir
            \/ \E k \in Launches \ {l} : hole[k] = m /\ plan[k].release = plan[l].release]_vars

\* "if the host's glibc is newer than the one we bundle and a complete matched
\* set is present": whatever the order of the directories, the members the bundle
\* ships and the release that libc's own versions tell, a launch that is left the
\* choice takes the host's runtime when the host has one newer glibc, complete.
SwitchesWhenNewer ==
  \A l \in Launches :
    LET o == opts[l]
        dirs == {Search(o)[k] : k \in DOMAIN Search(o)}
        hosts == {world.built[d] : d \in {d \in dirs : \E m \in Names : Has(d, m)}}
    IN /\ pc[l] # "start" /\ o.runtime = "auto"
       /\ HostDirs(o) # {} /\ 0 \notin hosts /\ Cardinality(hosts) = 1
       => (plan[l].host <=> \E r \in hosts : r > world.built[o.app])
=============================================================================
