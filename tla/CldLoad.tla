------------------------------ MODULE CldLoad ------------------------------
(***************************************************************************)
(* One thread's cross-libc dlopen (cross-libc-dlopen.c): the dlopen hook,  *)
(* cld_attempt and cld_load, which walks the DT_NEEDED closure of a host   *)
(* library, opens bundled copies first, recurses into what the linker      *)
(* refuses, and loads a private copy with its version tags stripped and    *)
(* its musl libc edge dropped when the library cannot be loaded as it is.  *)
(*                                                                         *)
(* A library is known by its soname, and has one host file.  An IMAGE is   *)
(* one mapping of it: the bundle's copy, the host's file unchanged, or the *)
(* private rewritten copy of the host's file.  The world a process runs in *)
(* (who needs whom, who was built how, what the bundle ships, where the    *)
(* linker looks) is drawn from Worlds at the start and never changes.      *)
(* Edges to libc, libm and the linker itself are left out of needed: the   *)
(* walk skips them and the process has them already.                       *)
(***************************************************************************)
EXTENDS Integers, Sequences, FiniteSets

CONSTANTS Libs,     \* host libraries
          Worlds,   \* the environments checked, records of the fields below
          None,     \* no library
          MaxDepth, \* the longest cld_active_stack checked, 16 in the code
          CacheMax, \* CLD_CACHE_MAX, 128 in the code
          TableMax  \* CLD_PROV_FILES, 16 in the code

ASSUME BoundAssumption == /\ MaxDepth \in Nat \ {0} /\ {CacheMax, TableMax} \subseteq Nat
                          /\ None \notin Libs /\ IsFiniteSet(Libs)

(***************************************************************************)
(* A world: needed[l], the sequence of sonames l asks for; musl, those     *)
(* linked against musl libc; newer, those that want a version no library   *)
(* here has; asks[l], those l asks versions of, and wants[l], those of them *)
(* it wants one of that the host's copy has and the bundle's has not;      *)
(* entries, what cld_providers has room for beside the names of libc's own *)
(* files, of which the flat set answers listed or not: that they come      *)
(* first is one of the orders, told from the others by what is left when   *)
(* the table is full; unbindable, those with an import our runtime does    *)
(* not provide; core and opaque, the never-touch names and the files       *)
(* the parser gives up on; bundled, broken, the bundle's sonames and those *)
(* of them that do not load; dir[l] and searched, where the host's file is *)
(* and where the linker looks; muslLibc, whether it would find musl libc;  *)
(* ctor[l], a host library a constructor of l dlopens, or None; emitFails, *)
(* whether writing a private copy may fail; room, the length of            *)
(* cld_active_stack; debug and dryrun.                                     *)
(***************************************************************************)
Elems(s) == {s[k] : k \in DOMAIN s}

ASSUME WorldsAssumption ==
  \A w \in Worlds :
    /\ w.needed \in [Libs -> Seq(Libs)]
    /\ w.asks \in [Libs -> SUBSET Libs] /\ w.wants \in [Libs -> SUBSET Libs]
    /\ \A l \in Libs : w.wants[l] \subseteq w.asks[l] /\ w.asks[l] \subseteq Elems(w.needed[l])
    /\ w.entries \in 0..TableMax
    /\ w.musl \subseteq Libs /\ w.newer \subseteq Libs /\ w.unbindable \subseteq Libs
    /\ w.bundled \subseteq Libs /\ w.broken \subseteq w.bundled
    /\ w.ctor \in [Libs -> Libs \cup {None}] /\ w.room \in 1..MaxDepth
    /\ {w.muslLibc, w.emitFails, w.debug, w.dryrun} \subseteq BOOLEAN

VARIABLES world,
          loaded,   \* the images mapped in the process
          first,    \* what the linker finds under a soname: the image mapped first
          muslIn,   \* is musl libc mapped?
          provides, \* cld_providers: the file whose versions it lists under a soname
          cache,    \* paths cld_cache holds a handle for
          active,   \* cld_active_stack, None where the path was freed
          frames,   \* the C stack: one record per cld_load in progress
          msg,      \* what dlerror() would return: the library whose open failed,
                    \* "report" (a dlsym miss of the report's) or "none"
          answer    \* the last <<library, handle?>> the application got

vars == <<world, loaded, first, muslIn, provides, cache, active, frames, msg, answer>>

Forms == {"bundled", "host", "copy"}
Frame == [lib : Libs, depth : 0..MaxDepth, i : Nat, ctor : BOOLEAN, got : BOOLEAN,
          pc : {"enter", "walk", "decide", "emit", "fallback", "keep", "leave"}]

Init == /\ world \in Worlds
        /\ loaded = {} /\ first = [s \in Libs |-> "none"] /\ muslIn = FALSE /\ cache = {}
        /\ provides = [d \in Libs |-> "unasked"]
        /\ active = [d \in 0..world.room - 1 |-> None]
        /\ frames = <<>> /\ msg = "none" /\ answer = <<>>
-----------------------------------------------------------------------------
(***************************************************************************)
(* The dynamic linker's own dlopen, dlopen_orig in the code.  It maps the  *)
(* image and, breadth first, every soname needed that no image in the      *)
(* process already answers to, from the bundle before the host.            *)
(***************************************************************************)
InProcess(s, L) == \E f \in Forms : <<s, f>> \in L

ByName(s) == IF s \in world.bundled THEN <<s, "bundled">> ELSE <<s, "host">>

\* A level of the closure: S and what the files in it need and nothing provides.
NeededBy(S) == UNION {Elems(world.needed[j[1]]) : j \in {j \in S : j[2] # "bundled"}}
Grown(S) == S \cup {ByName(s) : s \in {s \in NeededBy(S) : ~InProcess(s, loaded \cup S)}}

\* What is mapped within n levels of img, which is not in the process yet.
Within(img, n) ==
  LET grow[k \in 0..n] == IF k = 0 THEN {img} ELSE UNION {Grown(S) : S \in {grow[k-1]}}
  IN grow[n]

Pulled(img) == IF img \in loaded THEN {} ELSE Within(img, Cardinality(Libs))

AsIs(P) == {j[1] : j \in {j \in P : j[2] = "host"}}

\* Something is not where the linker looks for it; sought is what it looks for.
Missing(P, sought) ==
  \/ \E l \in AsIs(sought) : world.dir[l] \notin world.searched
  \/ AsIs(P) \cap world.musl # {} /\ ~world.muslLibc
  \/ \E l \in world.broken : <<l, "bundled">> \in P

\* What answers to the sonames once P is mapped too: it has one image of each
\* that nothing answered to.
Answering(P) ==
  [s \in Libs |-> IF first[s] # "none" \/ \A f \in Forms : <<s, f>> \notin P THEN first[s]
                  ELSE CHOOSE f \in Forms : <<s, f>> \in P]

\* The unchanged files in P refused over a version.
Refused(P) == {l \in AsIs(P) : \/ l \in world.newer
                               \/ \E d \in world.wants[l] : Answering(P)[d] = "bundled"}

\* An import of a host's file nobody provides; musl libc provides every import
\* of its own guests.
Unbound(P) == \E j \in P : /\ j[1] \in world.unbindable /\ j[2] # "bundled"
                           /\ ~(j[2] = "host" /\ j[1] \in world.musl)

Opens(P, sought) == ~Missing(P, sought) /\ Refused(P) = {} /\ ~Unbound(P)
OpensPath(img) == LET P == Pulled(img) IN Opens(P, P \ {img})
OpensName(s) == InProcess(s, loaded) \/ LET P == Pulled(ByName(s)) IN Opens(P, P)

\* dlopen returns a handle and no message, what it pulled is mapped.
Mapped(P) == /\ loaded' = loaded \cup P
             /\ first' = Answering(P)
             /\ muslIn' = (muslIn \/ AsIs(P) \cap world.musl # {})
             /\ msg' = "none"

NotMapped(l) == msg' = l /\ UNCHANGED <<loaded, first, muslIn>>
-----------------------------------------------------------------------------
Top == frames[Len(frames)]
At(pc) == frames # <<>> /\ Top.pc = pc
Chain == SubSeq(frames, 1, Len(frames) - 1)
Call(l, d, isCtor) ==
  [lib |-> l, depth |-> d, i |-> 1, ctor |-> isCtor, got |-> FALSE, pc |-> "enter"]
Goto(pc) == frames' = Append(Chain, [Top EXCEPT !.pc = pc])

\* The linker has mapped P and runs its constructors before the walk goes on
\* as top: one of them may dlopen a host library, a load of its own.
Resume(P, top) ==
  LET calls == {world.ctor[j[1]] : j \in {j \in P : j[2] # "bundled"}} \ {None}
  IN IF calls = {} THEN frames' = Append(Chain, top)
     ELSE \E c \in calls : frames' = Append(Append(Chain, top), Call(c, 0, TRUE))

\* cld_load returns h with the message m pending, and its caller frees the
\* path.  The dlopen a constructor ran under goes on and succeeds: no message.
Return(h, m) ==
  /\ frames' = Chain
  /\ answer' = IF Len(frames) = 1 THEN <<Top.lib, h>> ELSE answer
  /\ active' = [d \in DOMAIN active |->
                  IF d = Top.depth /\ Top.pc # "enter" /\ active[d] = Top.lib
                  THEN None ELSE active[d]]
  /\ msg' = IF Top.ctor THEN "none" ELSE m

\* dlopen(path) of a host library by the application.
Dlopen(l) ==
  /\ frames = <<>>
  /\ frames' = <<Call(l, 0, FALSE)>>
  /\ answer' = <<>>
  /\ UNCHANGED <<world, loaded, first, muslIn, provides, cache, active, msg>>

Shallow_OffByOne == Top.depth <= world.room
Shallow == Top.depth < world.room

TooDeep ==
  /\ At("enter") /\ ~Shallow
  /\ Return(FALSE, msg)
  /\ UNCHANGED <<world, loaded, first, muslIn, provides, cache>>

\* A handle handed out before, or a file the process has mapped as it is.
Known(l) == l \in cache \/ <<l, "host">> \in loaded

AlreadyOpen ==
  /\ At("enter") /\ Shallow /\ Known(Top.lib)
  /\ Return(TRUE, IF Top.lib \in cache THEN msg ELSE "none")
  /\ UNCHANGED <<world, loaded, first, muslIn, provides, cache>>

Fresh == At("enter") /\ Shallow /\ ~Known(Top.lib)

\* The names nothing may rewrite, what the parser makes sense of, and who asks
\* for musl libc.
IsCore(l) == l \in world.core
Parses(l) == l \notin world.opaque
MuslGuest(l) == l \in world.musl

OnChain_Never(l) == FALSE
OnChain(l) == \E d \in 0..Top.depth - 1 : active[d] = l

\* A path freed under the walk, by a constructor's dlopen, compares as anything.
Freed == \E d \in 0..Top.depth - 1 : active[d] = None

Cycle ==
  /\ Fresh /\ ~IsCore(Top.lib) /\ (OnChain(Top.lib) \/ Freed)
  /\ Return(FALSE, "none")
  /\ UNCHANGED <<world, loaded, first, muslIn, provides, cache>>

\* The linker's own open of the host's file, and where the load goes from it.
PlainOpen(opened, refused) ==
  LET img == <<Top.lib, "host">>
  IN \/ /\ OpensPath(img)
        /\ Mapped(Pulled(img))
        /\ Resume(Pulled(img), [Top EXCEPT !.pc = opened, !.got = TRUE])
     \/ ~OpensPath(img) /\ NotMapped(Top.lib) /\ Goto(refused)

\* libc, the linker and files the parser gives up on are opened as they are
\* and not remembered.
OpenUntouched ==
  /\ Fresh
  /\ \/ IsCore(Top.lib) /\ UNCHANGED active
     \/ /\ ~IsCore(Top.lib) /\ ~OnChain(Top.lib) /\ ~Parses(Top.lib)
        /\ active' = [active EXCEPT ![Top.depth] = Top.lib]
  /\ PlainOpen("leave", "leave")
  /\ UNCHANGED <<world, provides, cache, answer>>

StartWalk_JudgesFirst ==
  /\ Fresh /\ ~IsCore(Top.lib) /\ ~OnChain(Top.lib) /\ Parses(Top.lib)
  /\ active' = [active EXCEPT ![Top.depth] = Top.lib]
  /\ Goto("decide")
  /\ msg' = "none"
  /\ UNCHANGED <<world, loaded, first, muslIn, provides, cache, answer>>

StartWalk ==
  /\ Fresh /\ ~IsCore(Top.lib) /\ ~OnChain(Top.lib) /\ Parses(Top.lib)
  /\ active' = [active EXCEPT ![Top.depth] = Top.lib]
  /\ Goto("walk")
  /\ msg' = "none"
  /\ UNCHANGED <<world, loaded, first, muslIn, provides, cache, answer>>
-----------------------------------------------------------------------------
(***************************************************************************)
(* The closure walk: every soname needed, in order.                        *)
(***************************************************************************)
Needed == world.needed[Top.lib]
Walking == At("walk") /\ Top.i <= Len(Needed)
Dep == Needed[Top.i]
Onward == [Top EXCEPT !.i = @ + 1]

Bundled(s) == <<s, "bundled">>
BundledDepOpens_GlibcGuestsOnly(s) ==
  s \in world.bundled /\ ~MuslGuest(Top.lib) /\ OpensPath(Bundled(s))
BundledDepOpens(s) == s \in world.bundled /\ OpensPath(Bundled(s))

OpenBundledDep ==
  /\ Walking /\ BundledDepOpens(Dep)
  /\ Mapped(Pulled(Bundled(Dep))) /\ Resume(Pulled(Bundled(Dep)), Onward)
  /\ UNCHANGED <<world, provides, cache, active, answer>>

\* Guests of musl are never probed: their closure would bring its libc in.
Probes_MuslToo(l) == TRUE
Probes(l) == ~MuslGuest(l)

ProbeDep ==
  /\ Walking /\ ~BundledDepOpens(Dep)
  /\ Probes(Top.lib) /\ OpensName(Dep)
  /\ LET P == IF InProcess(Dep, loaded) THEN {} ELSE Pulled(ByName(Dep))
     IN Mapped(P) /\ Resume(P, Onward)
  /\ UNCHANGED <<world, provides, cache, active, answer>>

Unopened == /\ Walking /\ ~BundledDepOpens(Dep)
            /\ Probes(Top.lib) => ~OpensName(Dep)

\* cld_path_from_dlerror: who is refused over a version, the first of them
\* the linker meets, when that is what the probe failed of.
Harvest ==
  LET img == ByName(Dep)
      P == Pulled(img)
  IN IF ~Probes(Top.lib) \/ Missing(P, P) THEN {}
     ELSE {l \in Refused(P) : \E n \in 0..Cardinality(Libs) :
             /\ <<l, "host">> \in Within(img, n)
             /\ \A m \in 0..n - 1 : Refused(P) \cap AsIs(Within(img, m)) = {}}

\* cld_find_candidate: is the dependency's file next to one of the chain's?
\* A path freed under the walk reads as anything.
NextToChain(s) ==
  \/ \E d \in 0..Top.depth : active[d] # None /\ world.dir[active[d]] = world.dir[s]
  \/ \E d \in 0..Top.depth : active[d] = None
NotNextToChain(s) ==
  \A d \in 0..Top.depth : active[d] # None => world.dir[active[d]] # world.dir[s]

\* dlerror() was taken on the way, unless nothing was probed.
Taken == IF Probes(Top.lib) THEN "none" ELSE IF Dep \in world.bundled THEN Dep ELSE msg

RecurseDep_Again ==
  /\ Unopened
  /\ \E c \in IF Harvest # {} THEN Harvest ELSE {Dep} :
       /\ Harvest # {} \/ NextToChain(Dep)
       /\ frames' = Append(frames, Call(c, Top.depth + 1, FALSE))
  /\ msg' = Taken
  /\ UNCHANGED <<world, loaded, first, muslIn, provides, cache, active, answer>>

RecurseDep ==
  /\ Unopened
  /\ \E c \in IF Harvest # {} THEN Harvest ELSE {Dep} :
       /\ Harvest # {} \/ NextToChain(Dep)
       /\ frames' = Append(Append(Chain, Onward), Call(c, Top.depth + 1, FALSE))
  /\ msg' = Taken
  /\ UNCHANGED <<world, loaded, first, muslIn, provides, cache, active, answer>>

SkipDep ==
  /\ Unopened /\ Harvest = {} /\ NotNextToChain(Dep)
  /\ frames' = Append(Chain, Onward)
  /\ msg' = Taken
  /\ UNCHANGED <<world, loaded, first, muslIn, provides, cache, active, answer>>

WalkDone ==
  /\ At("walk") /\ Top.i > Len(Needed)
  /\ Goto("decide")
  /\ UNCHANGED <<world, loaded, first, muslIn, provides, cache, active, msg, answer>>
-----------------------------------------------------------------------------
(***************************************************************************)
(* The verdict, asked once the closure is loaded.  The file asked about is *)
(* looked up once: it is the bundle's if that owns the soname, else what   *)
(* the linker finds under it (a copy has no versions left); what is listed *)
(* never changes.  Of a file the full table has no entry for, our libc's   *)
(* set answers, which has no version of a library.                         *)
(***************************************************************************)
Listed == {d \in Libs : provides[d] # "unasked"}
TableFull == Cardinality(Listed) >= world.entries

Provider(d) == IF d \in Listed THEN provides[d]
               ELSE IF d \in world.bundled THEN "bundle"
               ELSE IF first[d] = "host" THEN "host" ELSE "none"

Provides_AnyImage(l, d) == InProcess(d, loaded)
Provides(l, d) == \/ Provider(d) = "host"
                  \/ Provider(d) = "bundle" /\ d \notin world.wants[l]

Fits(S) == Cardinality(Listed \cup S) <= world.entries

Satisfied(l) == /\ l \notin world.newer /\ Fits(world.asks[l])
                /\ \A d \in world.asks[l] : Provides(l, d)

\* What l asks about and has an entry of its own in the end: all of it, or what
\* comes up to the first question that fails: about a version that is not there,
\* or about a file that there is no entry left for.
Asked(l) ==
  IF Satisfied(l) THEN {world.asks[l]}
  ELSE {S \in SUBSET world.asks[l] :
          /\ Fits(S)
          /\ \/ Cardinality({d \in S : ~Provides(l, d)}) = 1
             \/ /\ \A d \in S : Provides(l, d)
                /\ \/ l \in world.newer
                   \/ \E d \in world.asks[l] : d \notin Listed \cup S /\ ~Fits(S \cup {d})}

Report(m) == {m, "none", "report"}

Decide ==
  /\ At("decide")
  /\ LET strip == MuslGuest(Top.lib) \/ ~Satisfied(Top.lib)
     IN /\ IF MuslGuest(Top.lib) THEN UNCHANGED provides
           ELSE \E S \in Asked(Top.lib) :
                  provides' = [d \in Libs |-> IF d \in S THEN Provider(d) ELSE provides[d]]
        /\ IF world.dryrun THEN \E m \in Report(msg) : Return(FALSE, m)
           ELSE Goto(IF strip THEN "emit" ELSE "fallback") /\ UNCHANGED <<active, msg, answer>>
  /\ UNCHANGED <<world, loaded, first, muslIn, cache>>

Copy(l) == <<l, "copy">>

OpenCopy_ThenPlain ==
  /\ At("emit") /\ OpensPath(Copy(Top.lib))
  /\ Mapped(Pulled(Copy(Top.lib)))
  /\ Resume(Pulled(Copy(Top.lib)), [Top EXCEPT !.pc = "fallback"])
  /\ UNCHANGED <<world, provides, cache, active, answer>>

\* The rewritten copy is written and the linker loads it.
OpenCopy ==
  /\ At("emit") /\ OpensPath(Copy(Top.lib))
  /\ Mapped(Pulled(Copy(Top.lib)))
  /\ Resume(Pulled(Copy(Top.lib)), [Top EXCEPT !.pc = "keep"])
  /\ UNCHANGED <<world, provides, cache, active, answer>>

\* It is not written, or not loaded; a trace takes the message and reports.
CopyFails ==
  /\ At("emit")
  /\ \/ world.emitFails /\ UNCHANGED msg
     \/ /\ ~OpensPath(Copy(Top.lib))
        /\ IF world.debug THEN msg' \in {"none", "report"} ELSE msg' = Top.lib
  /\ Goto("fallback")
  /\ UNCHANGED <<world, loaded, first, muslIn, provides, cache, active, answer>>

Fallback_NoRetry ==
  /\ At("fallback")
  /\ LET img == <<Top.lib, "host">>
     IN \/ /\ OpensPath(img) /\ Mapped(Pulled(img))
           /\ Resume(Pulled(img), [Top EXCEPT !.pc = "keep"])
        \/ /\ ~OpensPath(img) /\ Goto("leave")
           /\ IF world.debug THEN msg' \in {"none", "report"} ELSE msg' = Top.lib
           /\ UNCHANGED <<loaded, first, muslIn>>
  /\ UNCHANGED <<world, provides, cache, active, answer>>

\* The file as it is.  When that fails under debug, the report's dlsym calls
\* replace the message and the open is repeated to have it back.
Fallback ==
  /\ At("fallback")
  /\ PlainOpen("keep", "leave")
  /\ UNCHANGED <<world, provides, cache, active, answer>>

\* cld_cache_put, and the handle goes out even when the cache is full.
KeepHandle ==
  /\ At("keep")
  /\ cache' = IF Cardinality(cache) < CacheMax THEN cache \cup {Top.lib} ELSE cache
  /\ Return(TRUE, msg)
  /\ UNCHANGED <<world, loaded, first, muslIn, provides>>

Leave ==
  /\ At("leave")
  /\ Return(Top.got, msg)
  /\ UNCHANGED <<world, loaded, first, muslIn, provides, cache>>

Load == \/ TooDeep \/ AlreadyOpen \/ Cycle \/ OpenUntouched \/ StartWalk
        \/ OpenBundledDep \/ ProbeDep \/ RecurseDep \/ SkipDep \/ WalkDone
        \/ Decide \/ OpenCopy \/ CopyFails \/ Fallback \/ KeepHandle \/ Leave

Next == (\E l \in Libs : Dlopen(l)) \/ Load

Spec == Init /\ [][Next]_vars

\* A load in progress takes its next step; the application need not call.
FairSpec == Spec /\ WF_vars(Load)
-----------------------------------------------------------------------------
TypeOK ==
  /\ loaded \subseteq Libs \X Forms /\ muslIn \in BOOLEAN
  /\ first \in [Libs -> Forms \cup {"none"}]
  /\ provides \in [Libs -> {"unasked", "bundle", "host", "none"}]
  /\ cache \subseteq Libs /\ Cardinality(cache) <= CacheMax
  /\ active \in [0..world.room - 1 -> Libs \cup {None}]
  /\ frames \in Seq(Frame) /\ \A k \in DOMAIN frames : frames[k].depth <= world.room
  /\ msg \in Libs \cup {"none", "report"}
  /\ answer = <<>> \/ answer \in Libs \X BOOLEAN
-----------------------------------------------------------------------------
\* The unchanged files the linker refuses over a version, when those of B are
\* the sonames the bundle's copies answer to.
RefusedOver(B) == world.newer \cup {l \in Libs : world.wants[l] \cap B # {}}
Answered == SUBSET (world.bundled \ world.broken)

\* No two libraries that are refused hide below one that is not and that
\* another needs: the walk recovers one file from the linker's message and asks
\* no second time.  hides[l] is the one below l.
OneHidden ==
  \A B \in Answered :
    LET R == RefusedOver(B)
    IN \E hides \in [Libs -> Libs \cup {None}] :
         \A k \in Libs : \A l \in Elems(world.needed[k]) \ R :
           \A d \in Elems(world.needed[l]) :
             IF d \in R THEN hides[l] = d ELSE hides[d] \in {None, hides[l]}

\* No cycle in a closure.
Layered ==
  \E rank \in [Libs -> 1..Cardinality(Libs)] :
    \A l \in Libs : \A d \in Elems(world.needed[l]) : rank[d] < rank[l]

\* A world of one libc whose files are all in reach and can be read, whose
\* imports all bind, with room for every closure and every copy.
Benign ==
  /\ world.unbindable \cup world.core \cup world.opaque = {}
  /\ ~world.emitFails /\ ~world.dryrun
  /\ \A l, d \in Libs : world.dir[l] = world.dir[d]
  /\ world.room >= Cardinality(Libs) /\ Layered
  /\ \A l \in Libs : world.ctor[l] = None
  /\ world.musl \in {{}, Libs}
  /\ world.musl = {} => OneHidden

\* Every dlopen of a host library succeeds in a benign world: whatever has to
\* be rewritten, in whatever order the libraries are asked for and with the
\* cache full, each library that refuses the bundled runtime is found and
\* loaded by the walk.
LoadSucceeds == answer # <<>> /\ ~answer[2] => ~Benign

\* "Exactly one libc family in the process": musl libc is never mapped.
NoSecondLibc == ~muslIn

\* What holds of it: musl libc is never mapped in a benign world.
NoSecondLibcWhenBenign == muslIn => ~Benign

\* Bundled beats host: the host's version of a soname whose bundled copy loads
\* is only ever mapped for a caller that asked for that very file.
BundledWins ==
  [][\A j \in loaded' \ loaded :
       j[2] # "bundled" /\ j[1] \in world.bundled \ world.broken
         => \E k \in DOMAIN frames : frames[k].depth = 0 /\ frames[k].lib = j[1]]_vars

\* A host library is mapped once in a benign world: never the file and its
\* private copy both (a cycle can end in both), also when the cache no longer
\* remembers that it was loaded.
OneImage == (\E l \in Libs : {<<l, "host">>, <<l, "copy">>} \subseteq loaded) => ~Benign

\* In a benign world where whoever needs a library that has to be rewritten has
\* to be rewritten too, a copy is only made of a library that needs one: built
\* against musl, asking for a version nothing has, or for one that what it is
\* bound to lacks; or of one that asks about a file the table was full for.
Uniform ==
  \A B \in Answered : \A l \in Libs :
    Elems(world.needed[l]) \cap RefusedOver(B) # {} => l \in RefusedOver(B)
StrippedOnlyForCause ==
  [][\A l \in Libs \ (world.musl \cup world.newer) :
       /\ <<l, "copy">> \in loaded' \ loaded
       /\ \A d \in world.asks[l] : /\ d \in Listed \/ ~TableFull
                                  /\ IF d \in world.bundled THEN d \notin world.wants[l]
                                     ELSE <<d, "host">> \in loaded'
       => ~(Benign /\ Uniform)]_vars

\* The loads of a chain never work on the same file twice, whatever the cycles
\* between the libraries, as long as no constructor dlopens: such a load writes
\* over the places of the chain it runs under.
ChainDistinct ==
  (\A l \in Libs : world.ctor[l] = None) =>
    \A k \in DOMAIN frames : frames[k].pc # "enter" =>
      \A j \in 1..k - 1 : frames[j].lib # frames[k].lib

\* A failed dlopen leaves the linker's message about that very library for the
\* caller's dlerror(), also when a trace has read messages on the way.
FailureExplained == answer # <<>> /\ ~answer[2] /\ ~world.dryrun => msg = answer[1]

\* Every dlopen returns, whatever the cycles.
EveryDlopenReturns == frames # <<>> ~> frames = <<>>
=============================================================================
