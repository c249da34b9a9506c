--------------------------- MODULE CldLoadProofs ---------------------------
(***************************************************************************)
(* What TLAPS proves of CldLoad, for any number of host libraries that need *)
(* each other in any way, in any world.                                     *)
(***************************************************************************)
EXTENDS CldLoad, InductionLemmas, SequenceTheorems

(***************************************************************************)
(* The closure the dynamic linker walks.                                   *)
(***************************************************************************)
\* g lists the levels of the closure of img, the recursion of Within.
Levels(g, img, n) ==
  g = [k \in 0..n |-> IF k = 0 THEN {img} ELSE UNION {Grown(S) : S \in {g[k-1]}}]

\* The levels start at the image and each grows from the one before.
LEMMA LevelsStep ==
  ASSUME NEW g, NEW img, NEW n \in Nat, Levels(g, img, n)
  PROVE  g[0] = {img} /\ \A k \in 1..n : g[k] = Grown(g[k-1])
<1>1. \A k \in 0..n : g[k] = IF k = 0 THEN {img} ELSE UNION {Grown(S) : S \in {g[k-1]}}
  BY DEF Levels
<1>2. g[0] = {img}
  <2>1. 0 \in 0..n
    OBVIOUS
  <2> QED BY <1>1, <2>1
<1>3. ASSUME NEW k \in 1..n PROVE g[k] = Grown(g[k-1])
  <2>1. g[k] = UNION {Grown(S) : S \in {g[k-1]}}
    BY <1>1
  <2>2. ASSUME NEW X PROVE UNION {Grown(S) : S \in {X}} = Grown(X)
    OBVIOUS
  <2> QED BY <2>1, <2>2
<1> QED BY <1>2, <1>3

\* Two lists of the same levels agree as far as both go.
LEMMA LevelsUnique ==
  ASSUME NEW g, NEW h, NEW img, NEW n \in Nat, NEW m \in Nat, NEW i \in Nat,
         Levels(g, img, n), Levels(h, img, m), i <= n, i <= m
  PROVE  g[i] = h[i]
<1> DEFINE Same == {k \in Nat : k <= n /\ k <= m => g[k] = h[k]}
<1>1. 0 \in Same
  BY LevelsStep
<1>2. ASSUME NEW k \in Nat, k \in Same PROVE k + 1 \in Same
  <2>1. SUFFICES ASSUME k + 1 <= n, k + 1 <= m PROVE g[k+1] = h[k+1]
    OBVIOUS
  <2>2. k + 1 \in 1..n /\ k + 1 \in 1..m /\ (k + 1) - 1 = k
    BY <2>1
  <2>3. g[k+1] = Grown(g[k]) /\ h[k+1] = Grown(h[k])
    BY <2>2, LevelsStep
  <2>4. g[k] = h[k]
    BY <2>1, <1>2
  <2> QED BY <2>3, <2>4
<1>3. Nat \subseteq Same
  <2> HIDE DEF Same
  <2> QED BY <1>1, <1>2, SetInduction
<1> QED BY <1>3

\* There is a list of any number of levels, so the recursion defines one.
LEMMA LevelsExist ==
  ASSUME NEW img, NEW n \in Nat
  PROVE  \E g : Levels(g, img, n)
<1> DEFINE Has == {k \in Nat : \E g : Levels(g, img, k)}
<1>1. 0 \in Has
  <2>1. Levels([k \in 0..0 |-> {img}], img, 0)
    BY DEF Levels
  <2> QED BY <2>1
<1>2. ASSUME NEW k \in Nat, k \in Has PROVE k + 1 \in Has
  <2>1. PICK g : Levels(g, img, k)
    BY <1>2
  <2> DEFINE h == [i \in 0..k+1 |-> IF i = k + 1 THEN Grown(g[k]) ELSE g[i]]
  <2>2. Levels(h, img, k + 1)
    <3>1. h[0] = {img}
      BY <2>1, LevelsStep
    <3>2. ASSUME NEW i \in 1..k+1 PROVE h[i] = Grown(h[i-1])
      <4>1. CASE i = k + 1
        <5>1. h[i] = Grown(g[k]) /\ h[i-1] = g[k]
          BY <4>1
        <5> QED BY <5>1
      <4>2. CASE i # k + 1
        <5>1. i \in 1..k
          BY <4>2
        <5>2. h[i] = g[i] /\ h[i-1] = g[i-1]
          BY <5>1
        <5>3. g[i] = Grown(g[i-1])
          BY <5>1, <2>1, LevelsStep
        <5> QED BY <5>2, <5>3
      <4> QED BY <4>1, <4>2
    <3>3. ASSUME NEW X PROVE UNION {Grown(S) : S \in {X}} = Grown(X)
      OBVIOUS
    <3>4. ASSUME NEW i \in 0..k+1
          PROVE  h[i] = IF i = 0 THEN {img} ELSE UNION {Grown(S) : S \in {h[i-1]}}
      <4> HIDE DEF h
      <4>1. CASE i = 0
        BY <4>1, <3>1
      <4>2. CASE i \in 1..k+1
        <5>1. UNION {Grown(S) : S \in {h[i-1]}} = Grown(h[i-1])
          BY <3>3
        <5>2. i # 0
          BY <4>2
        <5> QED BY <4>2, <5>1, <5>2, <3>2
      <4>3. i = 0 \/ i \in 1..k+1
        OBVIOUS
      <4> QED BY <4>1, <4>2, <4>3
    <3>5. h = [i \in 0..k+1 |-> h[i]]
      OBVIOUS
    <3> QED
      <4> HIDE DEF h
      <4> QED BY <3>4, <3>5 DEF Levels
  <2> QED BY <2>2
<1>3. Nat \subseteq Has
  <2> HIDE DEF Has
  <2> QED BY <1>1, <1>2, SetInduction
<1> QED BY <1>3

\* Within picks the last of such a list.
LEMMA WithinLevels ==
  ASSUME NEW img, NEW n \in Nat
  PROVE  \E g : Levels(g, img, n) /\ Within(img, n) = g[n]
<1>1. Within(img, n) = (CHOOSE g : Levels(g, img, n))[n]
  BY DEF Within, Levels
<1> QED BY <1>1, LevelsExist

\* What a level of the linker's walk of the closure adds to the one before.
LEMMA WithinStep ==
  ASSUME NEW img, NEW n \in Nat
  PROVE  /\ Within(img, 0) = {img}
         /\ Within(img, n + 1) = Grown(Within(img, n))
<1>1. Within(img, 0) = {img}
  BY WithinLevels, LevelsStep
<1>2. PICK g : Levels(g, img, n) /\ Within(img, n) = g[n]
  BY WithinLevels
<1>3. PICK h : Levels(h, img, n + 1) /\ Within(img, n + 1) = h[n + 1]
  BY WithinLevels
<1>4. h[n + 1] = Grown(h[n])
  BY <1>3, LevelsStep
<1>5. h[n] = g[n]
  BY <1>2, <1>3, LevelsUnique
<1> QED BY <1>1, <1>2, <1>3, <1>4, <1>5

Image == Libs \X Forms

\* The number of levels Pulled asks for is a number.
LEMMA LevelsNat == Cardinality(Libs) \in Nat
  BY BoundAssumption, FS_CardinalityType

\* The linker finds each soname needed under a name of its own: what a level
\* adds are images by name, of sonames that nothing in the process answers to.
LEMMA GrownFacts ==
  ASSUME world \in Worlds, NEW S \in SUBSET Image
  PROVE  /\ Grown(S) \in SUBSET Image /\ S \subseteq Grown(S)
         /\ \A j \in Grown(S) \ S : j = ByName(j[1]) /\ ~InProcess(j[1], loaded)
<1>1. NeededBy(S) \subseteq Libs
  <2>1. \A j \in S : j[1] \in Libs /\ Elems(world.needed[j[1]]) \subseteq Libs
    BY WorldsAssumption DEF Image, Elems
  <2> QED BY <2>1 DEF NeededBy
<1>2. \A s \in Libs : ByName(s) \in Image /\ ByName(s)[1] = s
  BY DEF ByName, Image, Forms
<1>3. \A s : ~InProcess(s, loaded \cup S) => ~InProcess(s, loaded)
  BY DEF InProcess
<1> QED BY <1>1, <1>2, <1>3 DEF Grown

\* What the linker maps for an image: it and, by name, what was missing.
LEMMA PulledFacts ==
  ASSUME world \in Worlds, NEW img \in Image
  PROVE  /\ Pulled(img) \in SUBSET Image
         /\ \A j \in Pulled(img) : j = img \/ (j = ByName(j[1]) /\ ~InProcess(j[1], loaded))
<1> DEFINE Good == {n \in Nat : /\ Within(img, n) \in SUBSET Image
                                /\ \A j \in Within(img, n) :
                                     j = img \/ (j = ByName(j[1]) /\ ~InProcess(j[1], loaded))}
<1>1. 0 \in Good
  BY WithinStep
<1>2. ASSUME NEW n \in Nat, n \in Good PROVE n + 1 \in Good
  BY <1>2, WithinStep, GrownFacts
<1>3. Nat \subseteq Good
  <2> HIDE DEF Good
  <2> QED BY <1>1, <1>2, SetInduction
<1> QED BY <1>3, LevelsNat DEF Pulled

\* A bundled image pulls nothing in: what it needs is in the process already.
LEMMA PulledBundled ==
  ASSUME world \in Worlds, NEW s \in Libs
  PROVE  Pulled(<<s, "bundled">>) \subseteq {<<s, "bundled">>}
<1> DEFINE img == <<s, "bundled">>
           Good == {n \in Nat : Within(img, n) = {img}}
<1>1. 0 \in Good
  BY WithinStep
<1>2. ASSUME NEW n \in Nat, n \in Good PROVE n + 1 \in Good
  <2>1. NeededBy({img}) = {}
    BY DEF NeededBy
  <2>2. Grown({img}) = {img}
    BY <2>1 DEF Grown
  <2> QED BY <1>2, <2>2, WithinStep
<1>3. Nat \subseteq Good
  <2> HIDE DEF Good
  <2> QED BY <1>1, <1>2, SetInduction
<1> QED BY <1>3, LevelsNat DEF Pulled
-----------------------------------------------------------------------------
(***************************************************************************)
(* The stack of loads in progress.                                         *)
(***************************************************************************)
\* What holds of every load by itself: it has a place on cld_active_stack once
\* it has begun, it only works on a library it may rewrite, and a load the walk
\* asked for is not of a library whose bundled copy loads.
GoodFrame ==
  {f \in Frame : /\ f.i # 0 /\ f.depth <= world.room
                 /\ f.pc # "enter" => f.depth < world.room
                 /\ f.pc \notin {"enter", "leave"} => ~IsCore(f.lib)
                 /\ f.depth # 0 => f.lib \notin world.bundled \ world.broken}

\* The type, part by part.
Message == Libs \cup {"none", "report"}
LinkerOK == /\ loaded \subseteq Image /\ muslIn \in BOOLEAN
            /\ first \in [Libs -> Forms \cup {"none"}]
ChainOK == /\ active \in [0..world.room - 1 -> Libs \cup {None}]
           /\ msg \in Message /\ answer \in {<<>>} \cup (Libs \X BOOLEAN)
CacheOK == cache \subseteq Libs /\ Cardinality(cache) <= CacheMax
ProvidesOK == provides \in [Libs -> {"unasked", "bundle", "host", "none"}]

TypeInv == /\ world \in Worlds /\ LinkerOK /\ ChainOK /\ CacheOK /\ ProvidesOK
           /\ frames \in Seq(GoodFrame)

\* The top of the stack, and what is under it.
LEMMA TopFacts ==
  ASSUME frames \in Seq(GoodFrame), frames # <<>>
  PROVE  /\ Len(frames) \in Nat /\ Len(frames) # 0
         /\ Top \in GoodFrame
         /\ Chain \in Seq(GoodFrame) /\ Len(Chain) = Len(frames) - 1
         /\ \A k \in 1..Len(frames) - 1 : Chain[k] = frames[k]
<1>1. Len(frames) \in Nat /\ Len(frames) # 0 /\ DOMAIN frames = 1..Len(frames)
  BY EmptySeq, LenProperties
<1>2. Top \in GoodFrame
  BY <1>1, ElementOfSeq DEF Top
<1>3. Chain \in Seq(GoodFrame) /\ Len(Chain) = Len(frames) - 1
  BY <1>1, SubSeqProperties DEF Chain
<1>4. \A k \in 1..Len(frames) - 1 : Chain[k] = frames[k]
  BY <1>1, SubSeqProperties DEF Chain
<1> QED BY <1>1, <1>2, <1>3, <1>4

\* A load put on a stack.
LEMMA PushFacts ==
  ASSUME NEW S, NEW s \in Seq(S), NEW f \in S
  PROVE  /\ Append(s, f) \in Seq(S) /\ Len(Append(s, f)) = Len(s) + 1
         /\ Append(s, f)[Len(s) + 1] = f
         /\ \A k \in 1..Len(s) : Append(s, f)[k] = s[k]
  BY AppendProperties

\* The load on top going on with its next step.
LEMMA GotoGood ==
  ASSUME TypeInv, frames # <<>>, NEW p \in {"walk", "decide", "emit", "fallback", "keep", "leave"},
         Top.depth < world.room, p # "leave" => ~IsCore(Top.lib)
  PROVE  [Top EXCEPT !.pc = p] \in GoodFrame /\ [Top EXCEPT !.pc = p, !.got = TRUE] \in GoodFrame
<1>1. Top \in GoodFrame
  BY TopFacts DEF TypeInv
<1> QED BY <1>1 DEF GoodFrame, Frame

\* A load that is asked for.
LEMMA CallGood ==
  ASSUME TypeInv, NEW l \in Libs, NEW d \in 0..world.room, NEW c \in BOOLEAN,
         d # 0 => l \notin world.bundled \ world.broken
  PROVE  Call(l, d, c) \in GoodFrame
<1>1. world.room \in 1..MaxDepth /\ MaxDepth \in Nat
  BY WorldsAssumption, BoundAssumption DEF TypeInv
<1>2. Call(l, d, c) \in Frame
  BY <1>1 DEF Call, Frame
<1> QED BY <1>1, <1>2 DEF GoodFrame, Call

-----------------------------------------------------------------------------
(***************************************************************************)
(* Types.                                                                  *)
(***************************************************************************)
\* The invariant is as strong as the types that are checked.
LEMMA TypeInvOK ==
  ASSUME TypeInv
  PROVE  TypeOK
<1>1. frames \in Seq(Frame)
  <2>1. GoodFrame \subseteq Frame
    BY DEF GoodFrame
  <2> QED BY <2>1, SeqMonotonic DEF TypeInv
<1>2. \A k \in DOMAIN frames : frames[k] \in GoodFrame
  BY ElementOfSeq, LenProperties DEF TypeInv
<1> QED
  BY <1>1, <1>2
  DEF TypeInv, TypeOK, LinkerOK, ChainOK, CacheOK, ProvidesOK, Message, Image, GoodFrame

\* A mapping keeps the linker's state typed.
LEMMA MappedType ==
  ASSUME TypeInv, NEW P \in SUBSET Image, Mapped(P)
  PROVE  LinkerOK' /\ msg' \in Message
<1>1. \A s \in Libs : Answering(P)[s] \in Forms \cup {"none"}
  BY DEF TypeInv, Answering, LinkerOK
<1>2. Answering(P) \in [Libs -> Forms \cup {"none"}]
  BY <1>1 DEF Answering
<1> QED BY <1>2 DEF TypeInv, Mapped, LinkerOK, Message

\* The load goes on, under a constructor's load if one dlopens.
LEMMA ResumeType ==
  ASSUME TypeInv, frames # <<>>, NEW P \in SUBSET Image, NEW t \in GoodFrame, Resume(P, t)
  PROVE  frames' \in Seq(GoodFrame)
<1>1. Append(Chain, t) \in Seq(GoodFrame)
  BY TopFacts, PushFacts DEF TypeInv
<1>2. ASSUME NEW c \in Libs
      PROVE  Append(Append(Chain, t), Call(c, 0, TRUE)) \in Seq(GoodFrame)
  <2>1. 0 \in 0..world.room
    BY WorldsAssumption DEF TypeInv
  <2>2. Call(c, 0, TRUE) \in GoodFrame
    BY <2>1, CallGood
  <2> QED BY <1>1, <2>2, PushFacts
<1>3. \A j \in P : world.ctor[j[1]] \in Libs \cup {None}
  BY WorldsAssumption DEF TypeInv, Image
<1> QED BY <1>1, <1>2, <1>3 DEF Resume

\* A load returns to its caller.
LEMMA ReturnType ==
  ASSUME TypeInv, frames # <<>>, NEW h \in BOOLEAN, NEW m \in Message, Return(h, m),
         world' = world
  PROVE  ChainOK' /\ frames' \in Seq(GoodFrame)
<1>1. Top \in GoodFrame /\ Chain \in Seq(GoodFrame)
  BY TopFacts DEF TypeInv
<1>2. Top.lib \in Libs
  BY <1>1 DEF GoodFrame, Frame
<1>3. active' \in [0..world.room - 1 -> Libs \cup {None}]
  BY DEF TypeInv, Return, ChainOK
<1>4. msg' \in Message /\ answer' \in {<<>>} \cup (Libs \X BOOLEAN)
  BY <1>2 DEF TypeInv, Return, ChainOK, Message
<1> QED BY <1>1, <1>3, <1>4 DEF Return, ChainOK

\* The load on top takes a place on cld_active_stack.
LEMMA PlaceType ==
  ASSUME TypeInv, frames # <<>>, active' = [active EXCEPT ![Top.depth] = Top.lib]
  PROVE  active' \in [0..world.room - 1 -> Libs \cup {None}]
<1>1. Top.lib \in Libs
  BY TopFacts DEF TypeInv, GoodFrame, Frame
<1> QED BY <1>1 DEF TypeInv, ChainOK

\* The load on top goes on where it is told to.
LEMMA GotoType ==
  ASSUME TypeInv, frames # <<>>, NEW p \in {"walk", "decide", "emit", "fallback", "keep", "leave"},
         Top.depth < world.room, p # "leave" => ~IsCore(Top.lib), Goto(p)
  PROVE  frames' \in Seq(GoodFrame)
<1>1. [Top EXCEPT !.pc = p] \in GoodFrame
  BY GotoGood
<1> QED BY <1>1, TopFacts, PushFacts DEF TypeInv, Goto

\* The linker's own open of the host's file.
LEMMA PlainOpenType ==
  ASSUME TypeInv, frames # <<>>, Top.depth < world.room,
         NEW p \in {"keep", "leave"}, p # "leave" => ~IsCore(Top.lib), PlainOpen(p, "leave")
  PROVE  LinkerOK' /\ msg' \in Message /\ frames' \in Seq(GoodFrame)
<1> DEFINE img == <<Top.lib, "host">>
<1>1. Top.lib \in Libs /\ img \in Image
  BY TopFacts DEF TypeInv, GoodFrame, Frame, Image, Forms
<1>2. Pulled(img) \in SUBSET Image
  BY <1>1, PulledFacts DEF TypeInv
<1>3. CASE Mapped(Pulled(img)) /\ Resume(Pulled(img), [Top EXCEPT !.pc = p, !.got = TRUE])
  <2>1. [Top EXCEPT !.pc = p, !.got = TRUE] \in GoodFrame
    BY GotoGood
  <2> HIDE DEF img
  <2> QED BY <1>2, <1>3, <2>1, MappedType, ResumeType
<1>4. CASE NotMapped(Top.lib) /\ Goto("leave")
  <2>1. frames' \in Seq(GoodFrame)
    BY <1>4, GotoType
  <2> QED BY <1>1, <1>4, <2>1 DEF TypeInv, NotMapped, LinkerOK, Message
<1> QED BY <1>3, <1>4 DEF PlainOpen

\* A bundled copy that is not broken loads: it asks for nothing of the host's.
LEMMA BundledLoads ==
  ASSUME world \in Worlds, NEW s \in world.bundled \ world.broken
  PROVE  OpensPath(<<s, "bundled">>)
<1> DEFINE img == <<s, "bundled">>
           P == Pulled(img)
<1>1. s \in Libs
  BY WorldsAssumption
<1>2. P \subseteq {img}
  BY <1>1, PulledBundled
<1> HIDE DEF P
<1>3. AsIs(P) = {} /\ AsIs(P \ {img}) = {}
  BY <1>2 DEF AsIs
<1>4. ~Missing(P, P \ {img})
  BY <1>2, <1>3 DEF Missing
<1>5. Refused(P) = {}
  BY <1>3 DEF Refused
<1>6. ~Unbound(P)
  BY <1>2 DEF Unbound
<1> QED BY <1>4, <1>5, <1>6 DEF OpensPath, Opens, P

\* The dependency the walk has come to.
LEMMA DepFacts ==
  ASSUME TypeInv, Walking
  PROVE  /\ frames # <<>> /\ Top.pc = "walk" /\ Top.depth < world.room
         /\ Dep \in Libs /\ Dep \in Elems(Needed) /\ Top.lib \in Libs /\ ~IsCore(Top.lib)
         /\ Onward \in GoodFrame
<1>1. frames # <<>> /\ Top.pc = "walk" /\ Top.i <= Len(Needed)
  BY DEF Walking, At
<1>2. Top \in GoodFrame
  BY <1>1, TopFacts DEF TypeInv
<1>3. Top.lib \in Libs /\ Top.i \in Nat \ {0} /\ Top.depth < world.room /\ ~IsCore(Top.lib)
  BY <1>1, <1>2 DEF GoodFrame, Frame
<1>4. Needed \in Seq(Libs)
  BY <1>3, WorldsAssumption DEF TypeInv, Needed
<1>5. Top.i \in DOMAIN Needed
  BY <1>1, <1>3, <1>4, LenProperties
<1>6. Dep \in Libs /\ Dep \in Elems(Needed)
  BY <1>4, <1>5, ElementOfSeq, LenProperties DEF Dep, Elems
<1>7. Onward \in GoodFrame
  BY <1>2 DEF Onward, GoodFrame, Frame
<1> QED BY <1>1, <1>3, <1>6, <1>7

\* A library the walk recurses into is one the linker would take from the host.
LEMMA RecursedIsHost ==
  ASSUME TypeInv, Unopened,
         NEW c \in IF Harvest # {} THEN Harvest ELSE {Dep}
  PROVE  c \in Libs /\ c \notin world.bundled \ world.broken
<1>1. Dep \in Libs
  BY DepFacts DEF Unopened
<1>2. CASE Harvest # {}
  <2> DEFINE img == ByName(Dep)
  <2>1. img \in Image /\ img = ByName(img[1])
    BY <1>1 DEF ByName, Image, Forms
  <2>2. Harvest \subseteq AsIs(Pulled(img))
    BY DEF Harvest, Refused
  <2> HIDE DEF img
  <2>3. \A j \in Pulled(img) : j \in Image /\ j = ByName(j[1])
    BY <2>1, PulledFacts DEF TypeInv
  <2>4. <<c, "host">> \in Pulled(img)
    <3>1. PICK j \in Pulled(img) : c = j[1] /\ j[2] = "host"
      BY <1>2, <2>2 DEF AsIs
    <3>2. j = <<j[1], j[2]>>
      BY <2>3 DEF Image
    <3> QED BY <3>1, <3>2
  <2>5. <<c, "host">> \in Image /\ <<c, "host">> = ByName(c)
    BY <2>3, <2>4
  <2> QED BY <2>5 DEF ByName, Image
<1>3. CASE Harvest = {}
  <2>1. c = Dep
    BY <1>3
  <2>2. ASSUME Dep \in world.bundled \ world.broken PROVE FALSE
    <3>1. OpensPath(Bundled(Dep))
      BY <2>2, BundledLoads DEF TypeInv, Bundled
    <3> QED BY <2>2, <3>1 DEF Unopened, BundledDepOpens
  <2> QED BY <1>1, <2>1, <2>2
<1> QED BY <1>2, <1>3

\* A cache with room for one more.
LEMMA CacheType ==
  ASSUME TypeInv, NEW l \in Libs,
         cache' = IF Cardinality(cache) < CacheMax THEN cache \cup {l} ELSE cache
  PROVE  CacheOK'
<1>1. IsFiniteSet(cache) /\ cache \subseteq Libs /\ Cardinality(cache) <= CacheMax
  BY BoundAssumption, FS_Subset DEF TypeInv, CacheOK
<1>2. Cardinality(cache) \in Nat
  BY <1>1, FS_CardinalityType
<1>3. Cardinality(cache \cup {l}) = IF l \in cache THEN Cardinality(cache) ELSE Cardinality(cache) + 1
  BY <1>1, FS_AddElement
<1> QED BY <1>1, <1>2, <1>3, BoundAssumption DEF CacheOK

\* Every step of a load keeps the types.
LEMMA LoadType ==
  ASSUME TypeInv, Load
  PROVE  TypeInv'
<1> USE DEF Message
<1>1. frames # <<>>
  BY DEF Load, TooDeep, AlreadyOpen, Cycle, OpenUntouched, StartWalk, Fresh, OpenBundledDep,
         ProbeDep, RecurseDep, SkipDep, WalkDone, Decide, OpenCopy, CopyFails, Fallback,
         KeepHandle, Leave, Unopened, Walking, At
<1>2. Top \in GoodFrame /\ Top.lib \in Libs /\ msg \in Message /\ Top.got \in BOOLEAN
  BY <1>1, TopFacts DEF TypeInv, GoodFrame, Frame, ChainOK
<1>3. \A p : At(p) /\ p \notin {"enter", "leave"} => Top.depth < world.room /\ ~IsCore(Top.lib)
  BY <1>2 DEF GoodFrame, At
<1>4. SUFFICES /\ world' = world /\ LinkerOK' /\ ChainOK' /\ CacheOK' /\ ProvidesOK'
               /\ frames' \in Seq(GoodFrame)
  <2>1. ASSUME world' = world PROVE GoodFrame' = GoodFrame
    BY <2>1 DEF GoodFrame, IsCore
  <2>2. world \in Worlds
    BY DEF TypeInv
  <2> QED BY <2>1, <2>2 DEF TypeInv
<1>5. CASE TooDeep
  BY <1>1, <1>2, <1>5, ReturnType DEF TypeInv, TooDeep, LinkerOK, CacheOK, ProvidesOK
<1>6. CASE AlreadyOpen
  BY <1>1, <1>2, <1>6, ReturnType DEF TypeInv, AlreadyOpen, LinkerOK, CacheOK, ProvidesOK
<1>7. CASE Cycle
  BY <1>1, <1>2, <1>7, ReturnType DEF TypeInv, Cycle, LinkerOK, CacheOK, ProvidesOK
<1>8. CASE OpenUntouched
  <2>1. Top.depth < world.room
    BY <1>8 DEF OpenUntouched, Fresh, Shallow
  <2>2. PlainOpen("leave", "leave")
    BY <1>8 DEF OpenUntouched
  <2>3. LinkerOK' /\ msg' \in Message /\ frames' \in Seq(GoodFrame)
    BY <1>1, <2>1, <2>2, PlainOpenType
  <2>4. active' \in [0..world.room - 1 -> Libs \cup {None}]
    BY <1>1, <1>8, PlaceType DEF TypeInv, OpenUntouched, ChainOK
  <2> QED BY <1>8, <2>3, <2>4 DEF TypeInv, OpenUntouched, ChainOK, CacheOK, ProvidesOK
<1>9. CASE StartWalk
  <2>1. Top.depth < world.room /\ ~IsCore(Top.lib)
    BY <1>9 DEF StartWalk, Fresh, Shallow
  <2>2. frames' \in Seq(GoodFrame)
    BY <1>1, <1>9, <2>1, GotoType DEF StartWalk
  <2>3. active' \in [0..world.room - 1 -> Libs \cup {None}]
    BY <1>1, <1>9, PlaceType DEF StartWalk
  <2> QED BY <1>9, <2>2, <2>3 DEF TypeInv, StartWalk, LinkerOK, ChainOK, CacheOK, ProvidesOK
<1>10. CASE OpenBundledDep
  <2>1. Dep \in Libs /\ Onward \in GoodFrame
    BY <1>10, DepFacts DEF OpenBundledDep
  <2>2. Pulled(Bundled(Dep)) \in SUBSET Image
    BY <2>1, PulledFacts DEF TypeInv, Bundled, Image, Forms
  <2>3. LinkerOK' /\ msg' \in Message
    BY <1>10, <2>2, MappedType DEF OpenBundledDep
  <2>4. frames' \in Seq(GoodFrame)
    BY <1>1, <1>10, <2>1, <2>2, ResumeType DEF OpenBundledDep
  <2> QED BY <1>10, <2>3, <2>4 DEF TypeInv, OpenBundledDep, ChainOK, CacheOK, ProvidesOK
<1>11. CASE ProbeDep
  <2>1. Dep \in Libs /\ Onward \in GoodFrame
    BY <1>11, DepFacts DEF ProbeDep
  <2> DEFINE P == IF InProcess(Dep, loaded) THEN {} ELSE Pulled(ByName(Dep))
  <2>2. P \in SUBSET Image
    <3>1. ByName(Dep) \in Image
      BY <2>1 DEF ByName, Image, Forms
    <3> QED BY <3>1, PulledFacts DEF TypeInv
  <2>3. Mapped(P) /\ Resume(P, Onward)
    BY <1>11 DEF ProbeDep
  <2> HIDE DEF P
  <2>4. LinkerOK' /\ msg' \in Message
    BY <2>2, <2>3, MappedType
  <2>5. frames' \in Seq(GoodFrame)
    BY <1>1, <2>1, <2>2, <2>3, ResumeType
  <2> QED BY <1>11, <2>4, <2>5 DEF TypeInv, ProbeDep, ChainOK, CacheOK, ProvidesOK
<1>12. CASE RecurseDep
  <2>1. Dep \in Libs /\ Onward \in GoodFrame /\ Top.depth < world.room
    BY <1>12, DepFacts DEF RecurseDep, Unopened
  <2>2. PICK c \in IF Harvest # {} THEN Harvest ELSE {Dep} :
               frames' = Append(Append(Chain, Onward), Call(c, Top.depth + 1, FALSE))
    BY <1>12 DEF RecurseDep
  <2>3. c \in Libs /\ c \notin world.bundled \ world.broken
    BY <1>12, <2>2, RecursedIsHost DEF RecurseDep
  <2>4. Top.depth + 1 \in 0..world.room
    BY <1>2, <2>1, WorldsAssumption DEF TypeInv, GoodFrame, Frame
  <2>5. Call(c, Top.depth + 1, FALSE) \in GoodFrame
    BY <2>3, <2>4, CallGood
  <2>6. frames' \in Seq(GoodFrame)
    <3>1. Append(Chain, Onward) \in Seq(GoodFrame)
      BY <1>1, <2>1, TopFacts, PushFacts DEF TypeInv
    <3> QED BY <2>2, <2>5, <3>1, PushFacts
  <2>7. msg' \in Message
    BY <1>2, <1>12, <2>1 DEF RecurseDep, Taken
  <2> QED BY <1>12, <2>6, <2>7 DEF TypeInv, RecurseDep, LinkerOK, ChainOK, CacheOK, ProvidesOK
<1>13. CASE SkipDep
  <2>1. Dep \in Libs /\ Onward \in GoodFrame
    BY <1>13, DepFacts DEF SkipDep, Unopened
  <2>2. frames' \in Seq(GoodFrame)
    BY <1>1, <1>13, <2>1, TopFacts, PushFacts DEF TypeInv, SkipDep
  <2>3. msg' \in Message
    BY <1>2, <1>13, <2>1 DEF SkipDep, Taken
  <2> QED BY <1>13, <2>2, <2>3 DEF TypeInv, SkipDep, LinkerOK, ChainOK, CacheOK, ProvidesOK
<1>14. CASE WalkDone
  <2>1. frames' \in Seq(GoodFrame)
    BY <1>1, <1>3, <1>14, GotoType DEF WalkDone
  <2> QED BY <1>14, <2>1 DEF TypeInv, WalkDone, LinkerOK, ChainOK, CacheOK, ProvidesOK
<1>15. CASE Decide
  <2>1. ProvidesOK'
    BY <1>15 DEF TypeInv, Decide, ProvidesOK, Provider, Listed
  <2>2. ChainOK' /\ frames' \in Seq(GoodFrame)
    <3>1. CASE world.dryrun
      <4>1. PICK m \in Report(msg) : Return(FALSE, m)
        BY <1>15, <3>1 DEF Decide
      <4>2. m \in Message
        BY <1>2 DEF Report
      <4> QED BY <1>1, <1>15, <4>1, <4>2, ReturnType DEF Decide
    <3>2. CASE ~world.dryrun
      <4>1. PICK p \in {"emit", "fallback"} : Goto(p) /\ UNCHANGED <<active, msg, answer>>
        BY <1>15, <3>2 DEF Decide
      <4>2. frames' \in Seq(GoodFrame)
        BY <1>1, <1>3, <1>15, <4>1, GotoType DEF Decide
      <4> QED BY <1>15, <4>1, <4>2 DEF TypeInv, ChainOK, Decide
    <3> QED BY <3>1, <3>2
  <2> QED BY <1>15, <2>1, <2>2 DEF TypeInv, Decide, LinkerOK, CacheOK
<1>16. CASE OpenCopy
  <2>1. Pulled(Copy(Top.lib)) \in SUBSET Image
    BY <1>2, PulledFacts DEF TypeInv, Copy, Image, Forms
  <2>2. [Top EXCEPT !.pc = "keep"] \in GoodFrame
    BY <1>1, <1>3, <1>16, GotoGood DEF OpenCopy
  <2>3. LinkerOK' /\ msg' \in Message
    BY <1>16, <2>1, MappedType DEF OpenCopy
  <2>4. frames' \in Seq(GoodFrame)
    BY <1>1, <1>16, <2>1, <2>2, ResumeType DEF OpenCopy
  <2> QED BY <1>16, <2>3, <2>4 DEF TypeInv, OpenCopy, ChainOK, CacheOK, ProvidesOK
<1>17. CASE CopyFails
  <2>1. frames' \in Seq(GoodFrame)
    BY <1>1, <1>3, <1>17, GotoType DEF CopyFails
  <2>2. msg' \in Message
    BY <1>2, <1>17 DEF CopyFails
  <2> QED BY <1>17, <2>1, <2>2 DEF TypeInv, CopyFails, LinkerOK, ChainOK, CacheOK, ProvidesOK
<1>18. CASE Fallback
  <2>1. LinkerOK' /\ msg' \in Message /\ frames' \in Seq(GoodFrame)
    BY <1>1, <1>3, <1>18, PlainOpenType DEF Fallback
  <2> QED BY <1>18, <2>1 DEF TypeInv, Fallback, ChainOK, CacheOK, ProvidesOK
<1>19. CASE KeepHandle
  <2>1. CacheOK'
    BY <1>2, <1>19, CacheType DEF KeepHandle
  <2> QED BY <1>1, <1>2, <1>19, <2>1, ReturnType DEF TypeInv, KeepHandle, LinkerOK, ProvidesOK
<1>20. CASE Leave
  BY <1>1, <1>2, <1>20, ReturnType DEF TypeInv, Leave, LinkerOK, CacheOK, ProvidesOK
<1> QED
  BY <1>5, <1>6, <1>7, <1>8, <1>9, <1>10, <1>11, <1>12, <1>13, <1>14, <1>15, <1>16, <1>17,
     <1>18, <1>19, <1>20 DEF Load

\* The types hold at the start.
LEMMA InitType ==
  ASSUME Init
  PROVE  TypeInv
<1>1. Cardinality({}) = 0
  BY FS_EmptySet
<1>2. frames \in Seq(GoodFrame)
  BY EmptySeq DEF Init
<1>3. LinkerOK /\ ProvidesOK
  BY DEF Init, LinkerOK, ProvidesOK, Forms
<1>4. ChainOK
  BY DEF Init, ChainOK, Message
<1>5. CacheOK
  BY <1>1, BoundAssumption DEF Init, CacheOK
<1> QED
  BY <1>2, <1>3, <1>4, <1>5 DEF Init, TypeInv

\* The application's call keeps them.
LEMMA DlopenType ==
  ASSUME TypeInv, NEW l \in Libs, Dlopen(l)
  PROVE  TypeInv'
<1>1. GoodFrame' = GoodFrame
  BY DEF Dlopen, GoodFrame, IsCore
<1>2. 0 \in 0..world.room
  BY WorldsAssumption DEF TypeInv
<1>3. Call(l, 0, FALSE) \in GoodFrame
  BY <1>2, CallGood
<1>4. frames' \in Seq(GoodFrame)
  <2>1. <<Call(l, 0, FALSE)>> = Append(<<>>, Call(l, 0, FALSE)) /\ <<>> \in Seq(GoodFrame)
    BY EmptySeq
  <2> QED BY <1>3, <2>1, PushFacts DEF Dlopen
<1> QED
  BY <1>1, <1>4 DEF TypeInv, Dlopen, LinkerOK, ChainOK, CacheOK, ProvidesOK, Message

\* Nothing changes when no load is going on.
LEMMA StutterType ==
  ASSUME TypeInv, UNCHANGED vars
  PROVE  TypeInv'
<1>1. GoodFrame' = GoodFrame
  BY DEF vars, GoodFrame, IsCore
<1> QED
  BY <1>1 DEF TypeInv, vars, LinkerOK, ChainOK, CacheOK, ProvidesOK, Message

\* The types, and what holds of each load by itself, always hold.
THEOREM TypeInvariant == Spec => []TypeInv
<1>1. Init => TypeInv
  BY InitType
<1>2. TypeInv /\ [Next]_vars => TypeInv'
  BY LoadType, DlopenType, StutterType DEF Next
<1> QED BY <1>1, <1>2, PTL DEF Spec

\* Every variable of the loader has its type: a cache that never holds more than
\* it has places, a chain no deeper than cld_active_stack, images of libraries.
THEOREM TypeCorrect == Spec => []TypeOK
BY TypeInvariant, TypeInvOK, PTL
-----------------------------------------------------------------------------
(***************************************************************************)
(* The bundle's copies.                                                    *)
(***************************************************************************)
\* A library whose bundled copy loads is mapped as the host's file, or as a copy
\* of it, by nobody but the load of that very file.
LEMMA PulledByName ==
  ASSUME TypeInv, NEW img \in Image, NEW j \in Pulled(img),
         j[2] # "bundled", j[1] \in world.bundled
  PROVE  j = img
<1>1. j = img \/ j = ByName(j[1])
  BY PulledFacts DEF TypeInv
<1> QED BY <1>1 DEF ByName

\* Bundled beats host (comment at the top of cld_load): whatever the order of
\* the dlopens, the rewriting and the recursion, a host's version of a soname
\* that the bundle ships is mapped for the caller that asked for that file.
THEOREM BundledBeatsHost == Spec => BundledWins
<1> DEFINE Wins ==
      \A j \in loaded' \ loaded :
        j[2] # "bundled" /\ j[1] \in world.bundled \ world.broken
          => \E k \in DOMAIN frames : frames[k].depth = 0 /\ frames[k].lib = j[1]
<1>1. ASSUME TypeInv, [Next]_vars PROVE Wins
  <2>1. CASE UNCHANGED loaded
    BY <2>1
  <2>2. CASE Load
    <3>1. ASSUME frames # <<>>, NEW img \in Image, loaded' = loaded \cup Pulled(img),
                 img = ByName(img[1]) \/ img[2] = "bundled" \/ img[1] = Top.lib
          PROVE  Wins
      <4>1. Top \in GoodFrame /\ Len(frames) \in DOMAIN frames /\ Top = frames[Len(frames)]
        BY <1>1, <3>1, TopFacts, LenProperties DEF TypeInv, Top
      <4>2. Top.lib \in world.bundled \ world.broken => Top.depth = 0
        BY <4>1 DEF GoodFrame
      <4>3. ASSUME NEW j \in loaded' \ loaded, j[2] # "bundled",
                   j[1] \in world.bundled \ world.broken
            PROVE  j[1] = Top.lib
        <5>1. j = img
          BY <1>1, <3>1, <4>3, PulledByName
        <5> QED BY <3>1, <4>3, <5>1 DEF ByName
      <4> QED BY <4>1, <4>2, <4>3
    <3>2. frames # <<>> => Top.lib \in Libs
      BY <1>1, TopFacts DEF TypeInv, GoodFrame, Frame
    <3>3. CASE OpenUntouched \/ Fallback
      <4> DEFINE img == <<Top.lib, "host">>
      <4>1. frames # <<>> /\ (loaded' = loaded \/ loaded' = loaded \cup Pulled(img))
        BY <3>3 DEF OpenUntouched, Fallback, PlainOpen, Mapped, NotMapped, Fresh, At
      <4>2. img \in Image /\ img[1] = Top.lib
        BY <3>2, <4>1 DEF Image, Forms
      <4> HIDE DEF img
      <4> QED BY <2>1, <3>1, <4>1, <4>2
    <3>4. CASE OpenCopy
      <4> DEFINE img == Copy(Top.lib)
      <4>1. frames # <<>> /\ loaded' = loaded \cup Pulled(img)
        BY <3>4 DEF OpenCopy, Mapped, At
      <4>2. img \in Image /\ img[1] = Top.lib
        BY <3>2, <4>1 DEF Copy, Image, Forms
      <4> HIDE DEF img
      <4> QED BY <3>1, <4>1, <4>2
    <3>5. CASE OpenBundledDep
      <4> DEFINE img == Bundled(Dep)
      <4>1. frames # <<>> /\ loaded' = loaded \cup Pulled(img)
        BY <3>5 DEF OpenBundledDep, Walking, Mapped, At
      <4>2. img \in Image /\ img[2] = "bundled"
        BY <1>1, <3>5, DepFacts DEF OpenBundledDep, Bundled, Image, Forms
      <4> HIDE DEF img
      <4> QED BY <3>1, <4>1, <4>2
    <3>6. CASE ProbeDep
      <4> DEFINE img == ByName(Dep)
      <4>1. frames # <<>> /\ (loaded' = loaded \/ loaded' = loaded \cup Pulled(img))
        BY <3>6 DEF ProbeDep, Walking, Mapped, At
      <4>2. img \in Image /\ img = ByName(img[1])
        BY <1>1, <3>6, DepFacts DEF ProbeDep, ByName, Image, Forms
      <4> HIDE DEF img
      <4> QED BY <2>1, <3>1, <4>1, <4>2
    <3>7. CASE UNCHANGED loaded
      BY <2>1, <3>7
    <3> QED
      BY <2>2, <3>3, <3>4, <3>5, <3>6, <3>7
      DEF Load, TooDeep, AlreadyOpen, Cycle, StartWalk, RecurseDep, SkipDep, WalkDone, Decide,
          CopyFails, KeepHandle, Leave
  <2> QED BY <1>1, <2>1, <2>2 DEF Next, Dlopen, vars
<1>2. TypeInv /\ [Next]_vars => [Wins]_vars
  BY <1>1
<1> QED
  <2> HIDE DEF Wins
  <2>1. Spec => [][TypeInv /\ [Next]_vars]_vars
    BY TypeInvariant, PTL DEF Spec
  <2>2. [][TypeInv /\ [Next]_vars]_vars => [][Wins]_vars
    BY <1>2, PTL
  <2> QED BY <2>1, <2>2 DEF BundledWins, Wins
-----------------------------------------------------------------------------
(***************************************************************************)
(* The chain of loads, when no constructor dlopens.                        *)
(***************************************************************************)
NoCtors == \A l \in Libs : world.ctor[l] = None

\* The load on top going on as t.
GoesOn(t) == t.lib = Top.lib /\ t.depth = Top.depth /\ t.ctor = Top.ctor /\ t.pc # "enter"

\* Each load of the chain is one deeper than the one below it, which waits in
\* its walk; one that rewrites has its path on cld_active_stack; and no two that
\* have begun work on the same library.
ChainInv ==
  \A k \in 1..Len(frames) :
    /\ frames[k].depth = k - 1 /\ ~frames[k].ctor
    /\ k < Len(frames) => frames[k].pc = "walk"
    /\ frames[k].pc # "enter" /\ ~IsCore(frames[k].lib) => active[k-1] = frames[k].lib
    /\ frames[k].pc # "enter" => \A j \in 1..k - 1 : frames[j].lib # frames[k].lib

\* Without constructors a load goes on by itself.
LEMMA ResumeAlone ==
  ASSUME TypeInv, NoCtors, NEW P \in SUBSET Image, NEW t, Resume(P, t)
  PROVE  frames' = Append(Chain, t)
<1>1. \A j \in P : world.ctor[j[1]] = None
  BY DEF NoCtors, Image
<1> QED BY <1>1 DEF Resume

\* The shapes the stack takes: the load on top returns, goes on, or starts
\* another for what it needs.
ReturnShape == /\ frames' = Chain
               /\ active' \in [DOMAIN active -> Libs \cup {None}]
               /\ \A d \in DOMAIN active : d # Top.depth => active'[d] = active[d]
GoShape == \E t : /\ GoesOn(t) /\ frames' = Append(Chain, t)
                  /\ \/ Top.pc # "enter" /\ active' = active
                     \/ IsCore(Top.lib) /\ active' = active
                     \/ /\ ~IsCore(Top.lib) /\ ~OnChain(Top.lib)
                        /\ active' = [active EXCEPT ![Top.depth] = Top.lib]
CallShape == \E c \in Libs : /\ frames' = Append(Append(Chain, Onward), Call(c, Top.depth + 1, FALSE))
                             /\ Top.pc = "walk" /\ active' = active

\* A load returns, and nobody else's place on cld_active_stack changes.
LEMMA ReturnShapes ==
  ASSUME TypeInv, frames # <<>>, NEW h, NEW m, Return(h, m)
  PROVE  ReturnShape
<1>1. active \in [0..world.room - 1 -> Libs \cup {None}]
  BY DEF TypeInv, ChainOK
<1> QED BY <1>1 DEF Return, ReturnShape

\* The linker opens the host's file, and the load goes on.
LEMMA PlainOpenShape ==
  ASSUME TypeInv, NoCtors, frames # <<>>, NEW p \in {"keep", "leave"}, PlainOpen(p, "leave")
  PROVE  \E t : GoesOn(t) /\ frames' = Append(Chain, t)
<1>1. Top \in Frame
  BY TopFacts DEF TypeInv, GoodFrame
<1>2. Pulled(<<Top.lib, "host">>) \in SUBSET Image
  BY <1>1, PulledFacts DEF TypeInv, Frame, Image, Forms
<1>3. GoesOn([Top EXCEPT !.pc = p, !.got = TRUE]) /\ GoesOn([Top EXCEPT !.pc = "leave"])
  BY <1>1 DEF GoesOn, Frame
<1>4. \/ frames' = Append(Chain, [Top EXCEPT !.pc = p, !.got = TRUE])
      \/ frames' = Append(Chain, [Top EXCEPT !.pc = "leave"])
  BY <1>2, ResumeAlone DEF PlainOpen, Goto
<1> QED BY <1>3, <1>4

\* Every step of a load has one of the shapes.
LEMMA LoadShape ==
  ASSUME TypeInv, NoCtors, Load
  PROVE  /\ frames # <<>> /\ world' = world
         /\ ReturnShape \/ GoShape \/ CallShape
<1>1. frames # <<>> /\ world' = world
  BY DEF Load, TooDeep, AlreadyOpen, Cycle, OpenUntouched, StartWalk, Fresh, OpenBundledDep,
         ProbeDep, RecurseDep, SkipDep, WalkDone, Decide, OpenCopy, CopyFails, Fallback,
         KeepHandle, Leave, Unopened, Walking, At
<1>2. Top \in Frame /\ Top.lib \in Libs
  BY <1>1, TopFacts DEF TypeInv, GoodFrame, Frame
<1>3. \A p : p # "enter" => GoesOn([Top EXCEPT !.pc = p])
  BY <1>2 DEF GoesOn, Frame
<1>4. \A p : p # "enter" /\ Top.pc # "enter" /\ Goto(p) /\ active' = active => GoShape
  BY <1>3 DEF Goto, GoShape
<1>5. Top.pc = "walk" => GoesOn(Onward)
  BY <1>2 DEF GoesOn, Onward, Frame
<1>6. ASSUME NEW P \in SUBSET Image, NEW t, GoesOn(t), Resume(P, t),
             Top.pc # "enter", active' = active
      PROVE  GoShape
  BY <1>6, ResumeAlone DEF GoShape
<1>7. CASE TooDeep \/ AlreadyOpen \/ Cycle \/ KeepHandle \/ Leave
  BY <1>1, <1>7, ReturnShapes DEF TooDeep, AlreadyOpen, Cycle, KeepHandle, Leave
<1>8. CASE OpenUntouched
  <2>1. \E t : GoesOn(t) /\ frames' = Append(Chain, t)
    BY <1>1, <1>8, PlainOpenShape DEF OpenUntouched
  <2> QED BY <1>1, <1>8, <2>1 DEF OpenUntouched, GoShape
<1>9. CASE StartWalk
  BY <1>1, <1>3, <1>9 DEF StartWalk, Goto, GoShape
<1>10. CASE OpenBundledDep
  <2>1. Pulled(Bundled(Dep)) \in SUBSET Image
    BY <1>10, DepFacts, PulledFacts DEF OpenBundledDep, TypeInv, Bundled, Image, Forms
  <2> QED BY <1>1, <1>5, <1>6, <1>10, <2>1, DepFacts DEF OpenBundledDep
<1>11. CASE ProbeDep
  <2> DEFINE P == IF InProcess(Dep, loaded) THEN {} ELSE Pulled(ByName(Dep))
  <2>1. P \in SUBSET Image
    <3>1. ByName(Dep) \in Image
      BY <1>11, DepFacts DEF ProbeDep, ByName, Image, Forms
    <3> QED BY <3>1, PulledFacts DEF TypeInv
  <2>2. Resume(P, Onward) /\ active' = active /\ Top.pc = "walk"
    BY <1>11, DepFacts DEF ProbeDep
  <2> HIDE DEF P
  <2> QED BY <1>1, <1>5, <1>6, <2>1, <2>2
<1>12. CASE RecurseDep
  <2>1. \A c \in IF Harvest # {} THEN Harvest ELSE {Dep} : c \in Libs
    BY <1>12, RecursedIsHost DEF RecurseDep
  <2>2. Top.pc = "walk"
    BY <1>12, DepFacts DEF RecurseDep, Unopened
  <2> QED BY <1>1, <1>12, <2>1, <2>2 DEF RecurseDep, CallShape
<1>13. CASE SkipDep
  BY <1>1, <1>5, <1>13, DepFacts DEF SkipDep, Unopened, GoShape
<1>14. CASE WalkDone \/ CopyFails
  BY <1>1, <1>4, <1>14 DEF WalkDone, CopyFails, At
<1>15. CASE Decide
  <2>1. CASE world.dryrun
    BY <1>1, <1>15, <2>1, ReturnShapes DEF Decide
  <2>2. CASE ~world.dryrun
    <3>1. \E p \in {"emit", "fallback"} : Goto(p) /\ active' = active /\ Top.pc = "decide"
      BY <1>15, <2>2 DEF Decide, At
    <3> QED BY <1>1, <1>4, <3>1
  <2> QED BY <2>1, <2>2
<1>16. CASE OpenCopy
  <2>1. Pulled(Copy(Top.lib)) \in SUBSET Image
    BY <1>2, PulledFacts DEF TypeInv, Copy, Image, Forms
  <2> QED BY <1>1, <1>3, <1>6, <1>16, <2>1 DEF OpenCopy, At
<1>17. CASE Fallback
  <2>1. \E t : GoesOn(t) /\ frames' = Append(Chain, t)
    BY <1>1, <1>17, PlainOpenShape DEF Fallback
  <2> QED BY <1>1, <1>17, <2>1 DEF Fallback, At, GoShape
<1> QED
  BY <1>7, <1>8, <1>9, <1>10, <1>11, <1>12, <1>13, <1>14, <1>15, <1>16, <1>17 DEF Load

\* cld_active_stack has a place for every load that has begun.
LEMMA HasPlace ==
  ASSUME TypeInv, NEW f \in GoodFrame, f.pc # "enter"
  PROVE  f.depth \in DOMAIN active
<1>1. world.room \in Nat
  BY WorldsAssumption, BoundAssumption DEF TypeInv
<1> QED BY <1>1 DEF GoodFrame, Frame, TypeInv, ChainOK

\* A load that returns leaves the chain as it was.
LEMMA ChainReturn ==
  ASSUME TypeInv, ChainInv, frames # <<>>, world' = world, ReturnShape
  PROVE  ChainInv'
<1>1. /\ Len(frames) \in Nat /\ Len(frames') = Len(frames) - 1
      /\ \A k \in 1..Len(frames') : frames'[k] = frames[k]
      /\ Top = frames[Len(frames)] /\ Len(frames) # 0
  BY TopFacts DEF TypeInv, ReturnShape, Top
<1>2. Top.depth = Len(frames) - 1
  BY <1>1 DEF ChainInv
<1>3. \A k \in 1..Len(frames') : frames[k].pc # "enter" => k - 1 \in DOMAIN active
  <2>1. \A k \in 1..Len(frames) : frames[k] \in GoodFrame
    BY ElementOfSeq DEF TypeInv
  <2>2. \A k \in 1..Len(frames) : frames[k].pc # "enter" => frames[k].depth \in DOMAIN active
    BY <2>1, HasPlace
  <2> QED BY <1>1, <2>2 DEF ChainInv
<1>4. \A k \in 1..Len(frames') : frames[k].pc # "enter" => active'[k-1] = active[k-1]
  BY <1>1, <1>2, <1>3 DEF ReturnShape
<1>5. \A l : IsCore(l)' <=> IsCore(l)
  BY DEF IsCore
<1> DEFINE m == Len(frames')
<1>6. m \in Nat /\ \A k \in 1..m : k \in 1..Len(frames) /\ k < Len(frames)
  BY <1>1
<1> HIDE DEF m
<1>7. ASSUME NEW k \in 1..m
      PROVE  /\ frames'[k].depth = k - 1 /\ ~frames'[k].ctor
             /\ k < m => frames'[k].pc = "walk"
             /\ frames'[k].pc # "enter" /\ ~IsCore(frames'[k].lib) => active'[k-1] = frames'[k].lib
             /\ frames'[k].pc # "enter" => \A j \in 1..k - 1 : frames'[j].lib # frames'[k].lib
  <2>1. frames'[k] = frames[k] /\ \A j \in 1..k - 1 : frames'[j] = frames[j]
    BY <1>1, <1>6 DEF m
  <2>2. frames'[k].pc # "enter" => active'[k-1] = active[k-1]
    BY <1>4, <2>1 DEF m
  <2> QED BY <1>6, <2>1, <2>2 DEF ChainInv
<1> QED BY <1>5, <1>7 DEF ChainInv, m

\* A load that goes on is on no other's file: that was checked when it began.
LEMMA ChainGo ==
  ASSUME TypeInv, ChainInv, frames # <<>>, world' = world, GoShape, frames' \in Seq(GoodFrame)
  PROVE  ChainInv'
<1>1. PICK t : /\ GoesOn(t) /\ frames' = Append(Chain, t)
               /\ \/ Top.pc # "enter" /\ active' = active
                  \/ IsCore(Top.lib) /\ active' = active
                  \/ /\ ~IsCore(Top.lib) /\ ~OnChain(Top.lib)
                     /\ active' = [active EXCEPT ![Top.depth] = Top.lib]
  BY DEF GoShape
<1> DEFINE n == Len(frames)
<1>2. /\ n \in Nat /\ n # 0 /\ Len(frames') = n
      /\ \A k \in 1..n - 1 : frames'[k] = frames[k]
      /\ frames'[n] = t /\ Top = frames[n] /\ n \in 1..n
  BY <1>1, TopFacts, AppendProperties DEF TypeInv, Top
<1>3. \A k \in 1..n : frames[k] \in GoodFrame
  BY ElementOfSeq DEF TypeInv
<1>4. Top.depth = n - 1 /\ ~Top.ctor
  BY <1>2 DEF ChainInv
<1>5. \A k \in 1..n - 1 : /\ frames[k].pc = "walk" /\ ~IsCore(frames[k].lib)
                          /\ active[k-1] = frames[k].lib
  BY <1>2, <1>3 DEF ChainInv, GoodFrame
<1>6. \A k \in 1..n - 1 : active'[k-1] = active[k-1]
  <2>1. \A k \in 1..n - 1 : k - 1 # Top.depth /\ k - 1 \in DOMAIN active
    BY <1>2, <1>3, <1>4, <1>5, HasPlace DEF ChainInv
  <2> QED BY <1>1, <2>1
<1>7. \A j \in 1..n - 1 : frames[j].lib # Top.lib
  <2>1. CASE Top.pc # "enter"
    BY <1>2, <2>1 DEF ChainInv
  <2>2. CASE IsCore(Top.lib)
    BY <1>5, <2>2
  <2>3. CASE ~OnChain(Top.lib)
    BY <1>2, <1>4, <1>5, <2>3 DEF OnChain
  <2> QED BY <1>1, <2>1, <2>2, <2>3
<1>8. ~IsCore(t.lib) => active'[n-1] = t.lib
  <2>1. CASE Top.pc # "enter" /\ active' = active
    BY <1>1, <1>2, <2>1 DEF ChainInv, GoesOn
  <2>2. CASE IsCore(Top.lib)
    BY <1>1, <2>2 DEF GoesOn
  <2>3. CASE active' = [active EXCEPT ![Top.depth] = Top.lib] /\ Top.depth \in DOMAIN active
    BY <1>1, <1>4, <2>3 DEF GoesOn
  <2>4. Top.depth \in DOMAIN active
    <3>1. t \in GoodFrame
      BY <1>2, ElementOfSeq
    <3> QED BY <1>1, <3>1, HasPlace DEF GoesOn
  <2> QED BY <1>1, <2>1, <2>2, <2>3, <2>4
<1>9. \A l : IsCore(l)' <=> IsCore(l)
  BY DEF IsCore
<1>10. n \in Nat /\ \A k \in 1..n : k = n \/ (k \in 1..n - 1 /\ k < n)
  BY <1>2
<1> HIDE DEF n
<1>11. ASSUME NEW k \in 1..n
       PROVE  /\ frames'[k].depth = k - 1 /\ ~frames'[k].ctor
              /\ k < n => frames'[k].pc = "walk"
              /\ frames'[k].pc # "enter" /\ ~IsCore(frames'[k].lib) => active'[k-1] = frames'[k].lib
              /\ frames'[k].pc # "enter" => \A j \in 1..k - 1 : frames'[j].lib # frames'[k].lib
  <2>1. CASE k = n
    BY <1>1, <1>2, <1>4, <1>7, <1>8, <2>1 DEF GoesOn
  <2>2. CASE k \in 1..n - 1 /\ k < n
    <3>1. \A j \in 1..k - 1 : j \in 1..n - 1
      BY <1>10, <2>2
    <3>2. frames'[k] = frames[k] /\ \A j \in 1..k - 1 : frames'[j] = frames[j]
      BY <1>2, <2>2, <3>1
    <3> QED BY <1>5, <1>6, <1>10, <2>2, <3>2 DEF ChainInv, n
  <2> QED BY <1>10, <2>1, <2>2
<1> QED BY <1>2, <1>9, <1>11 DEF ChainInv

\* A load that is asked for stands on the one that asks.
LEMMA ChainCall ==
  ASSUME TypeInv, ChainInv, frames # <<>>, world' = world, CallShape
  PROVE  ChainInv'
<1>1. PICK c \in Libs : /\ frames' = Append(Append(Chain, Onward), Call(c, Top.depth + 1, FALSE))
                        /\ Top.pc = "walk" /\ active' = active
  BY DEF CallShape
<1> DEFINE n == Len(frames)
           t == Call(c, Top.depth + 1, FALSE)
<1>2. /\ n \in Nat /\ n # 0 /\ Chain \in Seq(GoodFrame) /\ Len(Chain) = n - 1
      /\ \A k \in 1..n - 1 : Chain[k] = frames[k]
      /\ Top = frames[n] /\ n \in 1..n /\ Top \in GoodFrame
  BY TopFacts DEF TypeInv, Top
<1>3. /\ Onward.lib = Top.lib /\ Onward.depth = Top.depth /\ Onward.pc = "walk"
      /\ Onward.ctor = Top.ctor
  BY <1>1, <1>2 DEF Onward, GoodFrame, Frame
<1> HIDE DEF t
<1>4. /\ Append(Chain, Onward) \in Seq({Onward} \cup GoodFrame) /\ Len(Append(Chain, Onward)) = n
      /\ Append(Chain, Onward)[n] = Onward
      /\ \A k \in 1..n - 1 : Append(Chain, Onward)[k] = frames[k]
  <2>1. Chain \in Seq({Onward} \cup GoodFrame)
    BY <1>2, SeqMonotonic
  <2> QED BY <1>2, <2>1, AppendProperties
<1>5. /\ Len(frames') = n + 1 /\ frames'[n + 1] = t /\ frames'[n] = Onward
      /\ \A k \in 1..n - 1 : frames'[k] = frames[k]
  <2>1. /\ Append(Chain, Onward) \in Seq({t, Onward} \cup GoodFrame)
    BY <1>4, SeqMonotonic
  <2>2. frames' = Append(Append(Chain, Onward), t)
    BY <1>1 DEF t
  <2> QED BY <1>2, <1>4, <2>1, <2>2, AppendProperties
<1>6. t.pc = "enter" /\ t.depth = n /\ ~t.ctor
  BY <1>2 DEF t, Call, ChainInv
<1>7. \A l : IsCore(l)' <=> IsCore(l)
  BY DEF IsCore
<1>8. \A k \in 1..n : /\ frames'[k].lib = frames[k].lib /\ frames'[k].depth = frames[k].depth
                       /\ frames'[k].pc = frames[k].pc /\ frames'[k].ctor = frames[k].ctor
                       /\ frames'[k].pc = "walk"
  <2>1. ASSUME NEW k \in 1..n - 1 PROVE frames'[k] = frames[k] /\ frames[k].pc = "walk"
    BY <1>2, <1>5 DEF ChainInv
  <2>2. \A k \in 1..n : k = n \/ k \in 1..n - 1
    BY <1>2
  <2> HIDE DEF n
  <2> QED BY <1>1, <1>2, <1>3, <1>5, <2>1, <2>2
<1>9. \A k \in 1..n + 1 : k \in 1..n \/ k = n + 1
  BY <1>2
<1> HIDE DEF n
<1>10. ASSUME NEW k \in 1..Len(frames')
       PROVE  /\ frames'[k].depth = k - 1 /\ ~frames'[k].ctor
              /\ k < Len(frames') => frames'[k].pc = "walk"
              /\ frames'[k].pc # "enter" /\ ~IsCore(frames'[k].lib) => active'[k-1] = frames'[k].lib
              /\ frames'[k].pc # "enter" => \A j \in 1..k - 1 : frames'[j].lib # frames'[k].lib
  <2>1. CASE k = n + 1
    BY <1>2, <1>5, <1>6, <2>1
  <2>2. CASE k \in 1..n
    <3>1. \A j \in 1..k - 1 : j \in 1..n
      BY <1>2, <2>2
    <3>2. /\ frames[k].depth = k - 1 /\ ~frames[k].ctor
          /\ frames[k].pc # "enter" /\ ~IsCore(frames[k].lib) => active[k-1] = frames[k].lib
          /\ frames[k].pc # "enter" => \A j \in 1..k - 1 : frames[j].lib # frames[k].lib
      BY <2>2 DEF ChainInv, n
    <3>3. \A j \in 1..k - 1 : frames'[j].lib = frames[j].lib
      BY <1>8, <3>1
    <3> QED BY <1>1, <1>8, <2>2, <3>2, <3>3
  <2> QED BY <1>5, <1>9, <2>1, <2>2
<1> QED BY <1>7, <1>10 DEF ChainInv

\* The loads of a chain never work on the same file twice (cld_active_stack is
\* "used both to cut off cycles" and to find what is next to the chain's files):
\* whatever the cycles between any number of libraries, as long as no
\* constructor dlopens.
THEOREM ChainsAreDistinct == Spec => []ChainDistinct
<1> DEFINE Inv == NoCtors => ChainInv
<1>1. Init => Inv
  <2>1. Init => Len(frames) = 0
    BY EmptySeq DEF Init
  <2> QED BY <2>1 DEF ChainInv
<1>2. ASSUME TypeInv, TypeInv', Inv, [Next]_vars PROVE Inv'
  <2>1. world' = world /\ (NoCtors' <=> NoCtors) /\ \A l : IsCore(l)' <=> IsCore(l)
    <3>1. Load => world' = world
      BY DEF Load, TooDeep, AlreadyOpen, Cycle, OpenUntouched, StartWalk, OpenBundledDep,
         ProbeDep, RecurseDep, SkipDep, WalkDone, Decide, OpenCopy, CopyFails, Fallback,
         KeepHandle, Leave
    <3>2. world' = world
      BY <1>2, <3>1 DEF Next, Dlopen, vars
    <3> QED BY <3>2 DEF NoCtors, IsCore
  <2>2. SUFFICES ASSUME NoCtors, ChainInv PROVE ChainInv'
    BY <1>2, <2>1
  <2>3. CASE Load
    <3>1. frames # <<>> /\ (ReturnShape \/ GoShape \/ CallShape)
      BY <1>2, <2>2, <2>3, LoadShape
    <3>2. frames' \in Seq(GoodFrame)
      <4>1. GoodFrame' = GoodFrame
        BY <2>1 DEF GoodFrame
      <4> QED BY <1>2, <4>1 DEF TypeInv
    <3> QED BY <1>2, <2>1, <2>2, <3>1, <3>2, ChainReturn, ChainGo, ChainCall
  <2>4. ASSUME NEW l \in Libs, Dlopen(l) PROVE ChainInv'
    <3>1. Len(frames') = 1 /\ frames'[1] = Call(l, 0, FALSE)
      BY <2>4 DEF Dlopen
    <3> QED BY <3>1 DEF ChainInv, Call
  <2>5. CASE UNCHANGED vars
    BY <2>1, <2>2, <2>5 DEF vars, ChainInv
  <2> QED BY <1>2, <2>3, <2>4, <2>5 DEF Next
<1>3. TypeInv /\ Inv => ChainDistinct
  <2>1. TypeInv => DOMAIN frames = 1..Len(frames)
    BY LenProperties DEF TypeInv
  <2> QED BY <2>1 DEF NoCtors, ChainInv, ChainDistinct
<1> QED
  <2> HIDE DEF Inv
  <2> QED BY <1>1, <1>2, <1>3, TypeInvariant, PTL DEF Spec
-----------------------------------------------------------------------------
(***************************************************************************)
(* What a failed dlopen leaves for the caller's dlerror().                 *)
(***************************************************************************)
\* An answer stands while no load is going on.  The application's own load is at
\* the bottom of the stack; when it is about to fail, nothing runs above it and
\* the linker's message about it is pending.
FailInv ==
  /\ answer # <<>> => frames = <<>> /\ FailureExplained
  /\ frames # <<>> =>
       /\ frames[1].depth = 0 /\ ~frames[1].ctor
       /\ frames[1].pc = "leave" /\ ~frames[1].got => Len(frames) = 1 /\ msg = frames[1].lib

\* The load on top goes on as t, by itself or under another load that it or a
\* constructor asks for; it fails only with the linker's message pending.
MovesOn ==
  \E t \in GoodFrame :
    /\ t.lib = Top.lib /\ t.depth = Top.depth /\ t.ctor = Top.ctor /\ answer' = answer
    /\ \/ frames' = Append(Chain, t) /\ (t.pc = "leave" /\ ~t.got => msg' = t.lib)
       \/ /\ \E f \in GoodFrame : frames' = Append(Append(Chain, t), f)
          /\ t.pc = "leave" => t.got

\* It returns; when it fails, that is because of a dry run, as a load within
\* another, or as it was about to.
Returns ==
  \E h \in BOOLEAN, m \in Message :
    /\ Return(h, m)
    /\ ~h => world.dryrun \/ Top.depth # 0 \/ (Top.pc = "leave" /\ ~Top.got /\ m = msg)

\* A load that goes on after the linker's open.
LEMMA ResumeMoves ==
  ASSUME TypeInv, frames # <<>>, NEW P \in SUBSET Image, NEW t \in GoodFrame, Resume(P, t),
         t.lib = Top.lib, t.depth = Top.depth, t.ctor = Top.ctor, t.pc = "leave" => t.got,
         answer' = answer
  PROVE  MovesOn
<1>1. \A j \in P : world.ctor[j[1]] \in Libs \cup {None}
  BY WorldsAssumption DEF TypeInv, Image
<1>2. 0 \in 0..world.room
  BY WorldsAssumption, BoundAssumption DEF TypeInv
<1>3. \A c \in Libs : Call(c, 0, TRUE) \in GoodFrame
  BY <1>2, CallGood
<1>4. frames' = Append(Chain, t) \/ \E f \in GoodFrame : frames' = Append(Append(Chain, t), f)
  BY <1>1, <1>3 DEF Resume
<1> QED BY <1>4 DEF MovesOn

\* A load that goes on by itself, with any step but the last.
LEMMA GotoMoves ==
  ASSUME TypeInv, frames # <<>>, NEW p \in {"walk", "decide", "emit", "fallback", "keep"},
         Top.depth < world.room, ~IsCore(Top.lib), Goto(p), answer' = answer
  PROVE  MovesOn
<1>1. [Top EXCEPT !.pc = p] \in GoodFrame
  BY GotoGood
<1>2. Top \in Frame
  BY TopFacts DEF TypeInv, GoodFrame
<1> QED BY <1>1, <1>2 DEF MovesOn, Goto, Frame

\* The linker's own open of the host's file leaves its message when it fails.
LEMMA PlainOpenMoves ==
  ASSUME TypeInv, frames # <<>>, Top.depth < world.room, answer' = answer,
         NEW p \in {"keep", "leave"}, p # "leave" => ~IsCore(Top.lib), PlainOpen(p, "leave")
  PROVE  MovesOn
<1> DEFINE img == <<Top.lib, "host">>
<1>1. Top \in Frame /\ img \in Image
  BY TopFacts DEF TypeInv, GoodFrame, Frame, Image, Forms
<1>2. Pulled(img) \in SUBSET Image
  BY <1>1, PulledFacts DEF TypeInv
<1>3. CASE Resume(Pulled(img), [Top EXCEPT !.pc = p, !.got = TRUE])
  <2> DEFINE t == [Top EXCEPT !.pc = p, !.got = TRUE]
  <2>1. t \in GoodFrame
    BY GotoGood
  <2>2. t.lib = Top.lib /\ t.depth = Top.depth /\ t.ctor = Top.ctor /\ t.got
    BY <1>1 DEF Frame
  <2>3. Resume(Pulled(img), t)
    BY <1>3
  <2> HIDE DEF img, t
  <2> QED BY <1>2, <2>1, <2>2, <2>3, ResumeMoves
<1>4. CASE NotMapped(Top.lib) /\ Goto("leave")
  <2> DEFINE t == [Top EXCEPT !.pc = "leave"]
  <2>1. t \in GoodFrame
    BY GotoGood
  <2>2. t.lib = Top.lib /\ t.depth = Top.depth /\ t.ctor = Top.ctor
    BY <1>1 DEF Frame
  <2>3. frames' = Append(Chain, t) /\ msg' = t.lib
    BY <1>4, <2>2 DEF Goto, NotMapped
  <2> HIDE DEF t
  <2> QED BY <2>1, <2>2, <2>3 DEF MovesOn
<1> QED BY <1>3, <1>4 DEF PlainOpen

\* Every step of a load returns or moves on.
LEMMA LoadMoves ==
  ASSUME TypeInv, Load
  PROVE  frames # <<>> /\ world' = world /\ (Returns \/ MovesOn)
<1>1. frames # <<>> /\ world' = world
  BY DEF Load, TooDeep, AlreadyOpen, Cycle, OpenUntouched, StartWalk, Fresh, OpenBundledDep,
         ProbeDep, RecurseDep, SkipDep, WalkDone, Decide, OpenCopy, CopyFails, Fallback,
         KeepHandle, Leave, Unopened, Walking, At
<1>0. SUFFICES Returns \/ MovesOn
  BY <1>1
<1>2. Top \in GoodFrame /\ Top \in Frame /\ msg \in Message /\ Top.lib \in Libs
  BY <1>1, TopFacts DEF TypeInv, GoodFrame, Frame, ChainOK
<1>3. Top.depth \in Nat /\ world.room \in Nat \ {0}
  BY <1>2, BoundAssumption, WorldsAssumption DEF Frame, TypeInv
<1>4. \A p : At(p) /\ p \notin {"enter", "leave"} => Top.depth < world.room /\ ~IsCore(Top.lib)
  BY <1>2 DEF GoodFrame, At
<1>5. CASE TooDeep
  <2>1. Return(FALSE, msg)
    BY <1>5 DEF TooDeep
  <2>2. Top.depth # 0
    BY <1>3, <1>5 DEF TooDeep, Shallow
  <2> QED BY <1>2, <2>1, <2>2 DEF Returns
<1>6. CASE AlreadyOpen
  <2>1. (IF Top.lib \in cache THEN msg ELSE "none") \in Message
    BY <1>2 DEF Message
  <2> QED BY <1>6, <2>1 DEF AlreadyOpen, Returns
<1>7. CASE Cycle
  <2>1. Top.depth # 0
    BY <1>7 DEF Cycle, OnChain, Freed
  <2>2. "none" \in Message
    BY DEF Message
  <2> QED BY <1>7, <2>1, <2>2 DEF Cycle, Returns
<1>8. CASE OpenUntouched
  BY <1>1, <1>8, PlainOpenMoves DEF OpenUntouched, Fresh, Shallow
<1>9. CASE StartWalk
  BY <1>1, <1>9, GotoMoves DEF StartWalk, Fresh, Shallow
<1>10. Top.pc = "walk" => /\ Onward.lib = Top.lib /\ Onward.depth = Top.depth
                          /\ Onward.ctor = Top.ctor /\ Onward.pc = "walk"
  BY <1>2 DEF Onward, Frame
<1>11. CASE OpenBundledDep
  <2>1. Pulled(Bundled(Dep)) \in SUBSET Image
    BY <1>11, DepFacts, PulledFacts DEF OpenBundledDep, TypeInv, Bundled, Image, Forms
  <2> QED BY <1>1, <1>10, <1>11, <2>1, DepFacts, ResumeMoves DEF OpenBundledDep
<1>12. CASE ProbeDep
  <2> DEFINE P == IF InProcess(Dep, loaded) THEN {} ELSE Pulled(ByName(Dep))
  <2>1. P \in SUBSET Image
    <3>1. ByName(Dep) \in Image
      BY <1>12, DepFacts DEF ProbeDep, ByName, Image, Forms
    <3> QED BY <3>1, PulledFacts DEF TypeInv
  <2>2. Resume(P, Onward) /\ answer' = answer /\ Top.pc = "walk" /\ Onward \in GoodFrame
    BY <1>12, DepFacts DEF ProbeDep
  <2> HIDE DEF P
  <2> QED BY <1>1, <1>10, <2>1, <2>2, ResumeMoves
<1>13. CASE RecurseDep
  <2>1. PICK c \in IF Harvest # {} THEN Harvest ELSE {Dep} :
               frames' = Append(Append(Chain, Onward), Call(c, Top.depth + 1, FALSE))
    BY <1>13 DEF RecurseDep
  <2>2. c \in Libs /\ c \notin world.bundled \ world.broken
    BY <1>13, <2>1, RecursedIsHost DEF RecurseDep
  <2>3. Top.pc = "walk" /\ Onward \in GoodFrame /\ Top.depth + 1 \in 0..world.room
    BY <1>3, <1>13, DepFacts DEF RecurseDep, Unopened
  <2>4. Call(c, Top.depth + 1, FALSE) \in GoodFrame
    BY <2>2, <2>3, CallGood
  <2> QED BY <1>10, <1>13, <2>1, <2>3, <2>4 DEF RecurseDep, MovesOn
<1>14. CASE SkipDep
  BY <1>10, <1>14, DepFacts DEF SkipDep, Unopened, MovesOn
<1>15. CASE WalkDone \/ CopyFails
  BY <1>1, <1>4, <1>15, GotoMoves DEF WalkDone, CopyFails
<1>16. CASE Decide
  <2>1. CASE world.dryrun
    <3>1. \A m \in Report(msg) : m \in Message
      BY <1>2 DEF Report, Message
    <3> QED BY <1>16, <2>1, <3>1 DEF Decide, Returns
  <2>2. CASE ~world.dryrun
    <3>1. \E p \in {"emit", "fallback"} : Goto(p) /\ answer' = answer
      BY <1>16, <2>2 DEF Decide
    <3>2. Top.depth < world.room /\ ~IsCore(Top.lib)
      BY <1>4, <1>16 DEF Decide
    <3> QED BY <1>1, <3>1, <3>2, GotoMoves
  <2> QED BY <2>1, <2>2
<1>17. CASE OpenCopy
  <2>1. Pulled(Copy(Top.lib)) \in SUBSET Image
    BY <1>2, PulledFacts DEF TypeInv, Copy, Image, Forms
  <2> DEFINE t == [Top EXCEPT !.pc = "keep"]
  <2>2. t \in GoodFrame
    BY <1>1, <1>4, <1>17, GotoGood DEF OpenCopy
  <2>3. t.lib = Top.lib /\ t.depth = Top.depth /\ t.ctor = Top.ctor /\ t.pc = "keep"
    BY <1>2 DEF Frame
  <2>4. Resume(Pulled(Copy(Top.lib)), t) /\ answer' = answer
    BY <1>17 DEF OpenCopy
  <2> HIDE DEF t
  <2> QED BY <1>1, <2>1, <2>2, <2>3, <2>4, ResumeMoves
<1>18. CASE Fallback
  BY <1>1, <1>4, <1>18, PlainOpenMoves DEF Fallback
<1>19. CASE KeepHandle
  BY <1>2, <1>19 DEF KeepHandle, Returns
<1>20. CASE Leave
  <2>1. Top.got \in BOOLEAN
    BY <1>2 DEF Frame
  <2> QED BY <1>2, <1>20, <2>1 DEF Leave, Returns, At
<1> QED
  BY <1>1, <1>5, <1>6, <1>7, <1>8, <1>9, <1>11, <1>12, <1>13, <1>14, <1>15, <1>16, <1>17,
     <1>18, <1>19, <1>20 DEF Load

\* A step of a load keeps what the caller of dlerror() relies on.
LEMMA FailStep ==
  ASSUME TypeInv, FailInv, Load
  PROVE  FailInv'
<1>1. frames # <<>> /\ world' = world /\ answer = <<>>
  BY LoadMoves DEF FailInv
<1>2. /\ Len(frames) \in Nat /\ Len(frames) # 0 /\ Chain \in Seq(GoodFrame)
      /\ Len(Chain) = Len(frames) - 1 /\ Top = frames[Len(frames)] /\ Top \in GoodFrame
      /\ \A k \in 1..Len(frames) - 1 : Chain[k] = frames[k]
  BY <1>1, TopFacts DEF TypeInv, Top
<1>3. frames[1].depth = 0 /\ ~frames[1].ctor
  BY <1>1 DEF FailInv
<1>4. CASE Returns
  <2>1. PICK h \in BOOLEAN, m \in Message :
          /\ Return(h, m)
          /\ ~h => world.dryrun \/ Top.depth # 0 \/ (Top.pc = "leave" /\ ~Top.got /\ m = msg)
    BY <1>4 DEF Returns
  <2>2. CASE Len(frames) = 1
    <3>1. Top = frames[1] /\ frames' = <<>> /\ answer' = <<Top.lib, h>> /\ msg' = m
      BY <1>2, <1>3, <2>1, <2>2, EmptySeq DEF Return
    <3>2. ~h /\ ~world.dryrun => msg' = Top.lib
      BY <1>1, <1>3, <2>1, <3>1 DEF FailInv
    <3>3. answer'[1] = Top.lib /\ answer'[2] = h
      BY <3>1
    <3> QED BY <1>1, <3>1, <3>2, <3>3 DEF FailInv, FailureExplained
  <2>3. CASE Len(frames) # 1
    <3>1. answer' = <<>> /\ frames' = Chain /\ 1 \in 1..Len(frames) - 1 /\ Chain # <<>>
      BY <1>1, <1>2, <2>1, <2>3 DEF Return
    <3>2. frames'[1] = frames[1]
      BY <1>2, <3>1
    <3>3. ~(frames[1].pc = "leave" /\ ~frames[1].got)
      BY <1>1, <2>3 DEF FailInv
    <3> QED BY <1>3, <3>1, <3>2, <3>3 DEF FailInv
  <2> QED BY <2>2, <2>3
<1>5. CASE MovesOn
  <2>1. PICK t \in GoodFrame :
          /\ t.lib = Top.lib /\ t.depth = Top.depth /\ t.ctor = Top.ctor /\ answer' = answer
          /\ \/ frames' = Append(Chain, t) /\ (t.pc = "leave" /\ ~t.got => msg' = t.lib)
             \/ /\ \E f \in GoodFrame : frames' = Append(Append(Chain, t), f)
                /\ t.pc = "leave" => t.got
    BY <1>5 DEF MovesOn
  <2> DEFINE s == Append(Chain, t)
  <2>2. /\ s \in Seq(GoodFrame) /\ Len(s) = Len(frames) /\ s[Len(frames)] = t
        /\ \A k \in 1..Len(frames) - 1 : s[k] = frames[k]
    BY <1>2, PushFacts
  <2>3. s[1].depth = 0 /\ ~s[1].ctor /\ s[1] = IF Len(frames) = 1 THEN t ELSE frames[1]
    BY <1>2, <1>3, <2>1, <2>2
  <2>4. Len(frames) # 1 => ~(frames[1].pc = "leave" /\ ~frames[1].got)
    BY <1>1 DEF FailInv
  <2> HIDE DEF s
  <2>5. CASE frames' = s /\ (t.pc = "leave" /\ ~t.got => msg' = t.lib)
    BY <1>1, <2>1, <2>2, <2>3, <2>4, <2>5 DEF FailInv
  <2>6. CASE (\E f \in GoodFrame : frames' = Append(s, f)) /\ (t.pc = "leave" => t.got)
    <3>1. frames'[1] = s[1]
      BY <1>2, <2>2, <2>6, PushFacts
    <3> QED BY <1>1, <2>1, <2>3, <2>4, <2>6, <3>1 DEF FailInv
  <2> QED BY <2>1, <2>5, <2>6 DEF s
<1> QED BY <1>4, <1>5, LoadMoves

\* A failed dlopen leaves the linker's message about that very library for the
\* caller's dlerror() (the comment at the retry in cld_load: "Re-running the load
\* puts the right message back"), whatever the closure, the constructors and the
\* traces on the way.
THEOREM FailuresAreExplained == Spec => []FailureExplained
<1>1. Init => FailInv
  BY DEF Init, FailInv
<1>2. ASSUME TypeInv, FailInv, [Next]_vars PROVE FailInv'
  <2>1. ASSUME NEW l \in Libs, Dlopen(l) PROVE FailInv'
    <3>1. Len(frames') = 1 /\ frames'[1] = Call(l, 0, FALSE) /\ answer' = <<>>
      BY <2>1 DEF Dlopen
    <3> QED BY <3>1 DEF FailInv, Call
  <2>2. CASE UNCHANGED vars
    BY <1>2, <2>2 DEF vars, FailInv, FailureExplained
  <2> QED BY <1>2, <2>1, <2>2, FailStep DEF Next
<1>3. FailInv => FailureExplained
  BY DEF FailInv, FailureExplained
<1> QED BY <1>1, <1>2, <1>3, TypeInvariant, PTL DEF Spec
-----------------------------------------------------------------------------
(***************************************************************************)
(* More of the closure: it is complete, and what it is made of.            *)
(***************************************************************************)
\* To show something of all that is pulled in, it is enough to show it of the
\* image and of what an image it holds of asks for by name.
ClosureInduction ==
  \A img \in Image : \A G :
    /\ img \in G
    /\ \A j \in G : j[2] # "bundled" =>
         \A s \in Elems(world.needed[j[1]]) : ~InProcess(s, loaded) => ByName(s) \in G
    => \A n \in Nat : Within(img, n) \subseteq G

\* By induction over the levels of the walk.
LEMMA ClosureInduct == ClosureInduction
<1>1. SUFFICES ASSUME NEW img \in Image, NEW G, img \in G,
                      \A j \in G : j[2] # "bundled" =>
                        \A s \in Elems(world.needed[j[1]]) : ~InProcess(s, loaded) => ByName(s) \in G
               PROVE  \A n \in Nat : Within(img, n) \subseteq G
  BY DEF ClosureInduction
<1> DEFINE Good == {n \in Nat : Within(img, n) \subseteq G}
<1>2. 0 \in Good
  BY <1>1, WithinStep
<1>3. ASSUME NEW n \in Nat, n \in Good PROVE n + 1 \in Good
  <2>1. \A S : \A s : ~InProcess(s, loaded \cup S) => ~InProcess(s, loaded)
    BY DEF InProcess
  <2>2. ASSUME NEW S, S \subseteq G PROVE Grown(S) \subseteq G
    BY <1>1, <2>1, <2>2 DEF Grown, NeededBy
  <2> QED BY <1>3, <2>2, WithinStep
<1>4. Nat \subseteq Good
  <2> HIDE DEF Good
  <2> QED BY <1>2, <1>3, SetInduction
<1> QED BY <1>4

\* The walk stops when it finds nothing more: every soname a pulled file asks
\* for answers once the whole is mapped.
ClosureComplete ==
  \A img \in Image \ loaded :
    /\ img \in Pulled(img)
    /\ \A j \in Pulled(img) : j[2] # "bundled" =>
         \A s \in Elems(world.needed[j[1]]) : InProcess(s, loaded \cup Pulled(img))

\* A level that adds nothing is reached after as many levels as there are
\* libraries.
LEMMA ClosureCompletes == world \in Worlds => ClosureComplete
<1>1. SUFFICES ASSUME world \in Worlds, NEW img \in Image \ loaded
               PROVE  /\ img \in Pulled(img)
                      /\ \A j \in Pulled(img) : j[2] # "bundled" =>
                           \A s \in Elems(world.needed[j[1]]) : InProcess(s, loaded \cup Pulled(img))
  BY DEF ClosureComplete
<1> DEFINE W(n) == Within(img, n)
           names(n) == {j[1] : j \in W(n)}
           Good == {n \in Nat : W(n) \in SUBSET Image /\ img \in W(n)}
           Full == {n \in Nat : W(n + 1) = W(n) \/ Cardinality(names(n)) >= n + 1}
<1>2. \A n \in Nat : W(n + 1) = Grown(W(n))
  BY WithinStep
<1>3. Nat \subseteq Good
  <2>1. 0 \in Good
    BY WithinStep
  <2>2. ASSUME NEW n \in Nat, n \in Good PROVE n + 1 \in Good
    <3> HIDE DEF W
    <3> QED BY <1>1, <1>2, <2>2, GrownFacts
  <2> HIDE DEF Good
  <2> QED BY <2>1, <2>2, SetInduction
<1> HIDE DEF W
<1>4. \A n \in Nat : names(n) \subseteq Libs /\ IsFiniteSet(names(n)) /\ Cardinality(names(n)) \in Nat
                     /\ Cardinality(names(n)) <= Cardinality(Libs)
  <2>1. \A n \in Nat : names(n) \subseteq Libs
    BY <1>3 DEF Image
  <2> QED BY <2>1, BoundAssumption, FS_Subset, FS_CardinalityType
<1>5. Nat \subseteq Full
  <2>1. 0 \in Full
    <3>1. names(0) = {img[1]}
      BY WithinStep DEF W
    <3>2. Cardinality(names(0)) = 1
      BY <3>1, FS_Singleton
    <3> QED BY <3>2
  <2>2. ASSUME NEW n \in Nat, n \in Full PROVE n + 1 \in Full
    <3>1. CASE W(n + 1) = W(n)
      <4>1. W((n + 1) + 1) = W(n + 1)
        BY <1>2, <3>1
      <4> QED BY <4>1
    <3>2. CASE W(n + 1) # W(n)
      <4>1. W(n) \subseteq W(n + 1)
        BY <1>1, <1>2, <1>3, GrownFacts
      <4>2. PICK j \in W(n + 1) : j \notin W(n)
        BY <3>2, <4>1
      <4>3. PICK s : j = ByName(s) /\ ~InProcess(s, loaded \cup W(n))
        BY <1>2, <4>2 DEF Grown
      <4>4. j[1] = s
        BY <4>3 DEF ByName
      <4>5. s \notin names(n)
        <5>1. ASSUME NEW i \in W(n), i[1] = s PROVE FALSE
          <6>1. i \in Image
            BY <1>3, <5>1
          <6>2. i = <<s, i[2]>> /\ i[2] \in Forms
            BY <5>1, <6>1 DEF Image
          <6> QED BY <4>3, <5>1, <6>2 DEF InProcess
        <5> QED BY <5>1
      <4>6. s \in names(n + 1) /\ names(n) \subseteq names(n + 1)
        BY <4>1, <4>2, <4>4
      <4> HIDE DEF names
      <4>7. Cardinality(names(n)) < Cardinality(names(n + 1))
        <5>1. /\ Cardinality(names(n)) <= Cardinality(names(n + 1))
              /\ Cardinality(names(n)) = Cardinality(names(n + 1)) => names(n) = names(n + 1)
          BY <1>4, <4>6, FS_Subset
        <5> QED BY <1>4, <4>5, <4>6, <5>1
      <4> QED BY <1>4, <2>2, <3>2, <4>7
    <3> QED BY <3>1, <3>2
  <2> HIDE DEF Full
  <2> QED BY <2>1, <2>2, SetInduction
<1>6. Pulled(img) = W(Cardinality(Libs))
  BY <1>1 DEF Pulled, W
<1>7. Grown(Pulled(img)) = Pulled(img)
  <2> DEFINE N == Cardinality(Libs)
  <2> HIDE DEF names
  <2>1. W(N + 1) = W(N) \/ Cardinality(names(N)) >= N + 1
    BY <1>5, LevelsNat
  <2>2. Cardinality(names(N)) \in Nat /\ Cardinality(names(N)) <= N /\ N \in Nat
    BY <1>4, LevelsNat
  <2> HIDE DEF N
  <2>3. W(N + 1) = W(N)
    BY <2>1, <2>2
  <2>4. W(N + 1) = Grown(W(N))
    BY <1>2, <2>2
  <2> QED BY <1>6, <2>3, <2>4 DEF N
<1>8. img \in Pulled(img) /\ Pulled(img) \in SUBSET Image
  BY <1>3, <1>6, LevelsNat
<1>9. ASSUME NEW j \in Pulled(img), j[2] # "bundled", NEW s \in Elems(world.needed[j[1]]),
             ~InProcess(s, loaded \cup Pulled(img))
      PROVE  FALSE
  <2>1. ByName(s) \in Pulled(img)
    BY <1>7, <1>9 DEF Grown, NeededBy
  <2>2. \E f \in Forms : ByName(s) = <<s, f>>
    BY DEF ByName, Forms
  <2> QED BY <1>9, <2>1, <2>2 DEF InProcess
<1> QED BY <1>8, <1>9
-----------------------------------------------------------------------------
(***************************************************************************)
(* Benign worlds: what the linker finds and refuses there.                 *)
(***************************************************************************)
\* The libraries in layers: each needs only lower ones.
Ranked(rank) == /\ rank \in [Libs -> 1..Cardinality(Libs)]
                /\ \A l \in Libs : \A d \in Elems(world.needed[l]) : rank[d] < rank[l]

\* Whatever an image pulls in is of a lower layer.
LEMMA PulledRank ==
  ASSUME world \in Worlds, NEW rank, Ranked(rank), NEW img \in Image
  PROVE  \A j \in Pulled(img) : j = img \/ rank[j[1]] < rank[img[1]]
<1> DEFINE G == {j \in Image : j = img \/ rank[j[1]] < rank[img[1]]}
<1>1. \A l \in Libs : rank[l] \in Int
  BY LevelsNat DEF Ranked
<1>2. img \in G
  OBVIOUS
<1>3. ASSUME NEW j \in G, NEW s \in Elems(world.needed[j[1]]) PROVE ByName(s) \in G
  <2>1. j[1] \in Libs /\ img[1] \in Libs
    BY DEF Image
  <2>2. s \in Libs
    BY <2>1, WorldsAssumption DEF Elems
  <2>3. ByName(s) \in Image /\ ByName(s)[1] = s
    BY <2>2 DEF ByName, Image, Forms
  <2>4. rank[s] < rank[j[1]]
    BY <2>1 DEF Ranked
  <2>5. rank[s] < rank[img[1]]
    BY <1>1, <2>1, <2>2, <2>4
  <2> QED BY <2>3, <2>5
<1>4. Pulled(img) \subseteq G
  <2> HIDE DEF G
  <2>1. \A n \in Nat : Within(img, n) \subseteq G
    BY <1>2, <1>3, ClosureInduct DEF ClosureInduction
  <2> QED BY <2>1, LevelsNat DEF Pulled
<1> QED BY <1>4

\* What a host's file or its copy pulls in is what the sonames it asks for do.
LEMMA PathPulled ==
  ASSUME world \in Worlds, NEW l \in Libs, NEW f \in {"host", "copy"}
  PROVE  \A j \in Pulled(<<l, f>>) :
           \/ j = <<l, f>>
           \/ \E d \in Elems(world.needed[l]) : ~InProcess(d, loaded) /\ j \in Pulled(ByName(d))
<1> DEFINE img == <<l, f>>
           G == {img} \cup UNION {Pulled(ByName(d)) : d \in {d \in Elems(world.needed[l]) : ~InProcess(d, loaded)}}
<1>1. img \in Image /\ Elems(world.needed[l]) \subseteq Libs
  BY WorldsAssumption DEF Image, Forms, Elems
<1>2. \A d \in Libs : ByName(d) \in Image /\ ByName(d)[1] = d /\ ByName(ByName(d)[1]) = ByName(d)
  BY DEF ByName, Image, Forms
<1>3. \A d \in Libs : ~InProcess(d, loaded) => ByName(d) \notin loaded
  BY DEF InProcess, ByName, Forms
<1>4. ASSUME NEW j \in G, j[2] # "bundled", NEW s \in Elems(world.needed[j[1]]), ~InProcess(s, loaded)
      PROVE  ByName(s) \in G
  <2>1. CASE j = img
    <3>1. s \in Elems(world.needed[l])
      BY <1>4, <2>1
    <3>2. ByName(s) \in Pulled(ByName(s))
      BY <1>1, <1>2, <1>3, <1>4, <3>1, ClosureCompletes DEF ClosureComplete
    <3> QED BY <1>4, <3>1, <3>2
  <2>2. ASSUME NEW d \in Elems(world.needed[l]), ~InProcess(d, loaded), j \in Pulled(ByName(d))
        PROVE  ByName(s) \in Pulled(ByName(d))
    <3>1. ByName(d) \in Image \ loaded
      BY <1>1, <1>2, <1>3, <2>2
    <3>2. InProcess(s, loaded \cup Pulled(ByName(d)))
      BY <1>4, <2>2, <3>1, ClosureCompletes DEF ClosureComplete
    <3>3. PICK i \in Pulled(ByName(d)) : i[1] = s
      BY <1>4, <3>2 DEF InProcess
    <3>4. i = ByName(d) \/ i = ByName(i[1])
      BY <3>1, PulledFacts
    <3>5. i = ByName(s)
      BY <1>1, <1>2, <3>3, <3>4
    <3> QED BY <3>3, <3>5
  <2> QED BY <2>1, <2>2
<1>5. Pulled(img) \subseteq G
  <2>0. img \in G
    OBVIOUS
  <2> HIDE DEF G
  <2>1. \A n \in Nat : Within(img, n) \subseteq G
    BY <1>1, <1>4, <2>0, ClosureInduct DEF ClosureInduction
  <2> QED BY <2>1, LevelsNat DEF Pulled
<1> QED BY <1>5

\* What the linker finds under a soname is in the process, and nothing is there
\* that it does not find; the bundle's images are of the bundle and load.
LinkInv ==
  /\ \A s \in Libs : IF first[s] = "none" THEN ~InProcess(s, loaded) ELSE <<s, first[s]>> \in loaded
  /\ \A s \in Libs : <<s, "bundled">> \in loaded => s \in world.bundled \ world.broken

\* The sonames the bundle's copies answer to, or will once they are asked for.
FromBundle == {d \in world.bundled \ world.broken : first[d] \notin {"host", "copy"}}

Unbroken(P) == \A s \in Libs : <<s, "bundled">> \in P => s \in world.bundled \ world.broken

\* The linker refuses nothing but what wants a version of those sonames.
LEMMA RefusedOnly ==
  ASSUME world \in Worlds, LinkInv, NEW P \in SUBSET Image, Unbroken(P)
  PROVE  Refused(P) \subseteq AsIs(P) \cap RefusedOver(FromBundle)
<1>1. SUFFICES ASSUME NEW l \in AsIs(P), NEW e \in world.wants[l], Answering(P)[e] = "bundled"
               PROVE  e \in FromBundle
  <2>1. AsIs(P) \subseteq Libs
    BY DEF AsIs, Image
  <2> QED BY <2>1 DEF Refused, RefusedOver
<1>2. l \in Libs /\ e \in Libs
  <2>1. l \in Libs
    BY DEF AsIs, Image
  <2> QED BY <2>1, WorldsAssumption
<1>3. CASE first[e] # "none"
  <2>1. first[e] = "bundled"
    BY <1>1, <1>2, <1>3 DEF Answering
  <2> QED BY <1>2, <2>1 DEF LinkInv, FromBundle
<1>4. CASE first[e] = "none"
  <2>1. ~(\A f \in Forms : <<e, f>> \notin P)
    BY <1>1, <1>2, <1>4 DEF Answering
  <2>2. (CHOOSE f \in Forms : <<e, f>> \in P) = "bundled"
    BY <1>1, <1>2, <1>4, <2>1 DEF Answering
  <2>3. <<e, "bundled">> \in P
    BY <2>1, <2>2
  <2> QED BY <1>2, <1>4, <2>3 DEF Unbroken, FromBundle
<1> QED BY <1>3, <1>4

\* And of a closure asked for by name it refuses all of them.
LEMMA RefusedAll ==
  ASSUME world \in Worlds, LinkInv, LinkerOK, NEW d \in Libs, ~InProcess(d, loaded)
  PROVE  AsIs(Pulled(ByName(d))) \cap RefusedOver(FromBundle) \subseteq Refused(Pulled(ByName(d)))
<1> DEFINE img == ByName(d)
           P == Pulled(img)
<1>1. img \in Image \ loaded /\ img = ByName(img[1])
  BY DEF ByName, Image, Forms, InProcess
<1>2. P \in SUBSET Image /\ \A j \in P : j = ByName(j[1])
  BY <1>1, PulledFacts
<1> HIDE DEF img
<1>3. SUFFICES ASSUME NEW l \in AsIs(P), NEW e \in world.wants[l] \cap FromBundle
               PROVE  Answering(P)[e] = "bundled"
  BY DEF Refused, RefusedOver, img
<1>4. <<l, "host">> \in P /\ l \in Libs
  <2>1. PICK j \in P : j[1] = l /\ j[2] = "host"
    BY DEF AsIs
  <2> QED BY <1>2, <2>1 DEF Image
<1>5. e \in Libs /\ e \in Elems(world.needed[l]) /\ e \in world.bundled
  BY <1>4, WorldsAssumption DEF FromBundle
<1>6. InProcess(e, loaded \cup P)
  <2>1. <<l, "host">>[2] # "bundled" /\ <<l, "host">>[1] = l
    OBVIOUS
  <2> QED BY <1>1, <1>4, <1>5, <2>1, ClosureCompletes DEF ClosureComplete
<1>7. CASE first[e] # "none"
  <2>1. first[e] = "bundled"
    BY <1>3, <1>5, <1>7 DEF FromBundle, LinkerOK, Forms
  <2> QED BY <1>5, <2>1 DEF Answering
<1>8. CASE first[e] = "none"
  <2>1. ~InProcess(e, loaded)
    BY <1>5, <1>8 DEF LinkInv
  <2>2. PICK f \in Forms : <<e, f>> \in P
    BY <1>6, <2>1 DEF InProcess
  <2>3. \A g \in Forms : <<e, g>> \in P => g = "bundled"
    <3>1. ASSUME NEW g \in Forms, <<e, g>> \in P PROVE g = "bundled"
      <4>1. <<e, g>> = ByName(e)
        BY <1>2, <3>1
      <4> QED BY <1>5, <4>1 DEF ByName
    <3> QED BY <3>1
  <2>4. (CHOOSE g \in Forms : <<e, g>> \in P) = "bundled"
    BY <2>2, <2>3
  <2> QED BY <1>5, <1>8, <2>2, <2>4 DEF Answering
<1> QED BY <1>7, <1>8

\* One libc, nothing out of reach, and a ranking.
LEMMA BenignFacts ==
  ASSUME Benign
  PROVE  /\ world.unbindable = {} /\ world.core = {} /\ world.opaque = {}
         /\ ~world.emitFails /\ ~world.dryrun /\ NoCtors
         /\ world.room >= Cardinality(Libs) /\ world.musl \in {{}, Libs}
         /\ \A l, d \in Libs : world.dir[l] = world.dir[d]
         /\ world.musl = {} => OneHidden
         /\ \E rank : Ranked(rank)
  BY DEF Benign, Layered, Ranked, NoCtors

\* In such a world a soname nothing answers to opens by name unless something in
\* its closure is missing, or refused.
LEMMA NameOpens ==
  ASSUME world \in Worlds, Benign, LinkInv, LinkerOK, NEW d \in Libs, ~InProcess(d, loaded)
  PROVE  LET P == Pulled(ByName(d))
         IN /\ OpensName(d) <=> ~Missing(P, P) /\ AsIs(P) \cap RefusedOver(FromBundle) = {}
            /\ ~Missing(P, P) => Refused(P) = AsIs(P) \cap RefusedOver(FromBundle)
<1> DEFINE P == Pulled(ByName(d))
<1>1. P \in SUBSET Image /\ \A j \in P : j = ByName(j[1])
  <2>1. ByName(d) \in Image /\ ByName(d) = ByName(ByName(d)[1])
    BY DEF ByName, Image, Forms
  <2> QED BY <2>1, PulledFacts
<1>2. AsIs(P) \cap RefusedOver(FromBundle) \subseteq Refused(P)
  BY RefusedAll
<1> HIDE DEF P
<1>3. ~Unbound(P)
  BY BenignFacts DEF Unbound
<1>4. ASSUME ~Missing(P, P) PROVE Refused(P) = AsIs(P) \cap RefusedOver(FromBundle)
  <2>1. \A s \in Libs : <<s, "bundled">> \in P => s \in world.bundled
    <3>1. ASSUME NEW s \in Libs, <<s, "bundled">> \in P PROVE s \in world.bundled
      <4>1. <<s, "bundled">> = ByName(s)
        BY <1>1, <3>1
      <4> QED BY <4>1 DEF ByName
    <3> QED BY <3>1
  <2>2. Unbroken(P)
    BY <1>4, <2>1 DEF Missing, Unbroken
  <2> QED BY <1>1, <1>2, <2>2, RefusedOnly
<1>5. OpensName(d) <=> Opens(P, P)
  BY DEF OpensName, P
<1> QED BY <1>3, <1>4, <1>5 DEF Opens, P

\* A dependency the walk is done with: it is in the process, or the linker will
\* find nothing to refuse when it asks for it.  The latter is left by a recovered
\* file further down, and only where one can hide.
Settled(d) == \/ InProcess(d, loaded)
              \/ world.musl = {} /\ ~Uniform /\ OpensName(d)

\* When all that a library needs is settled, its copy opens; so does its own file
\* when every version it wants is the host's.
LEMMA OpenReady ==
  ASSUME world \in Worlds, Benign, LinkInv, LinkerOK, NEW l \in Libs, NEW f \in {"host", "copy"},
         \A d \in Elems(world.needed[l]) : Settled(d),
         f = "host" => /\ world.musl = {} /\ l \notin world.newer
                       /\ \A d \in world.wants[l] : first[d] = "host"
  PROVE  /\ OpensPath(<<l, f>>)
         /\ Unbroken(Pulled(<<l, f>>)) /\ AsIs(Pulled(<<l, f>>)) \cap world.musl = {}
<1> DEFINE img == <<l, f>>
           P == Pulled(img)
           E == {d \in Elems(world.needed[l]) : ~InProcess(d, loaded)}
<1>1. Elems(world.needed[l]) \subseteq Libs
  BY WorldsAssumption DEF Elems
<1>2. img \in Image
  BY DEF Image, Forms
<1>3. P \in SUBSET Image
  BY <1>2, PulledFacts
<1>4. \A j \in P : j = img \/ \E d \in E : j \in Pulled(ByName(d))
  BY PathPulled
<1>5. ASSUME NEW d \in E
      PROVE  /\ d \in Libs /\ world.musl = {} /\ ~Missing(Pulled(ByName(d)), Pulled(ByName(d)))
             /\ AsIs(Pulled(ByName(d))) \cap RefusedOver(FromBundle) = {}
             /\ \A j \in Pulled(ByName(d)) : j = ByName(j[1])
  <2>1. d \in Libs /\ world.musl = {} /\ OpensName(d) /\ ~InProcess(d, loaded)
    BY <1>1 DEF Settled
  <2>2. ByName(d) \in Image /\ ByName(d) = ByName(ByName(d)[1])
    BY <2>1 DEF ByName, Image, Forms
  <2> QED BY <2>1, <2>2, NameOpens, PulledFacts
<1> HIDE DEF P, E
<1>6. Unbroken(P)
  <2>1. ASSUME NEW s \in Libs, <<s, "bundled">> \in P PROVE s \in world.bundled \ world.broken
    <3>1. PICK d \in E : <<s, "bundled">> \in Pulled(ByName(d))
      BY <1>4, <2>1
    <3>2. <<s, "bundled">> = ByName(s)
      BY <1>5, <3>1
    <3>3. s \in world.bundled
      BY <3>2 DEF ByName
    <3> QED BY <1>5, <3>1, <3>3 DEF Missing
  <2> QED BY <2>1 DEF Unbroken
<1>7. AsIs(P) \cap world.musl = {}
  <2>1. CASE world.musl = {}
    BY <2>1
  <2>2. CASE world.musl # {}
    <3>1. E = {} /\ f = "copy"
      BY <1>5, <2>2
    <3>2. \A j \in P : j[2] = "copy"
      BY <1>4, <3>1
    <3> QED BY <3>2 DEF AsIs
  <2> QED BY <2>1, <2>2
<1>8. ~Missing(P, P \ {img})
  <2>1. ASSUME NEW x \in AsIs(P \ {img}) PROVE world.dir[x] \in world.searched
    <3>1. PICK j \in P \ {img} : j[1] = x /\ j[2] = "host"
      BY DEF AsIs
    <3>2. PICK d \in E : j \in Pulled(ByName(d))
      BY <1>4, <3>1
    <3>3. x \in AsIs(Pulled(ByName(d)))
      BY <3>1, <3>2 DEF AsIs
    <3> QED BY <1>5, <3>3 DEF Missing
  <2>2. \A s \in world.broken : <<s, "bundled">> \notin P
    BY <1>6, WorldsAssumption DEF Unbroken
  <2> QED BY <1>7, <2>1, <2>2 DEF Missing
<1>9. Refused(P) = {}
  <2>1. Refused(P) \subseteq AsIs(P) \cap RefusedOver(FromBundle)
    BY <1>3, <1>6, RefusedOnly
  <2>2. ASSUME NEW x \in Refused(P) PROVE FALSE
    <3>1. PICK j \in P : j[1] = x /\ j[2] = "host"
      BY <2>1 DEF AsIs
    <3>2. CASE j = img
      <4>1. x = l /\ f = "host"
        BY <3>1, <3>2
      <4>2. ASSUME NEW e \in world.wants[l] PROVE Answering(P)[e] # "bundled"
        <5>1. e \in Libs /\ first[e] = "host"
          BY <4>1, WorldsAssumption
        <5> QED BY <5>1 DEF Answering
      <4> QED BY <2>2, <4>1, <4>2 DEF Refused
    <3>3. ASSUME NEW d \in E, j \in Pulled(ByName(d)) PROVE FALSE
      <4>1. x \in AsIs(Pulled(ByName(d)))
        BY <3>1, <3>3 DEF AsIs
      <4> QED BY <1>5, <2>1, <2>2, <4>1
    <3> QED BY <1>4, <3>2, <3>3
  <2> QED BY <2>2
<1>10. ~Unbound(P)
  BY BenignFacts DEF Unbound
<1> QED BY <1>6, <1>7, <1>8, <1>9, <1>10 DEF OpensPath, Opens, P
-----------------------------------------------------------------------------
(***************************************************************************)
(* A dependency whose refused file is being loaded in its stead.           *)
(***************************************************************************)
\* hides tells of each library which refused one it hides.
Hiding(B, hides) ==
  \A k \in Libs : \A l \in Elems(world.needed[k]) \ RefusedOver(B) :
    \A d \in Elems(world.needed[l]) :
      IF d \in RefusedOver(B) THEN hides[l] = d ELSE hides[d] \in {None, hides[l]}

\* The one refused file in the closure of d is c.
Hidden(d, c) ==
  /\ world.musl = {} /\ ~Uniform /\ ~Missing(Pulled(ByName(d)), Pulled(ByName(d)))
  /\ \E k \in Libs : d \in Elems(world.needed[k])
  /\ \E B \in Answered : \E hides \in [Libs -> Libs \cup {None}] :
       /\ FromBundle \subseteq B /\ d \notin RefusedOver(B)
       /\ Hiding(B, hides) /\ hides[d] = c

\* d will be settled once c is in the process.
Waits(d, c) == c = d \/ Settled(d) \/ Hidden(d, c)

\* Once it is, d is settled.
LEMMA WaitsEnds ==
  ASSUME world \in Worlds, Benign, LinkInv, LinkerOK, NEW d \in Libs, NEW c,
         Waits(d, c), InProcess(c, loaded)
  PROVE  Settled(d)
<1>1. SUFFICES ASSUME Hidden(d, c), ~InProcess(d, loaded) PROVE OpensName(d)
  BY DEF Waits, Settled, Hidden
<1>2. PICK B \in Answered, hides \in [Libs -> Libs \cup {None}] :
        FromBundle \subseteq B /\ d \notin RefusedOver(B) /\ Hiding(B, hides) /\ hides[d] = c
  BY <1>1 DEF Hidden
<1> DEFINE R == RefusedOver(B)
           P == Pulled(ByName(d))
           IsNeeded(l) == \E k \in Libs : l \in Elems(world.needed[k])
           G == {j \in Image : /\ j = ByName(j[1])
                               /\ j[2] # "bundled" => /\ j[1] \notin R /\ hides[j[1]] \in {None, c}
                                                      /\ IsNeeded(j[1])}
<1>3. \A s \in Libs : /\ ByName(s) \in Image /\ ByName(s)[1] = s
                      /\ Elems(world.needed[s]) \subseteq Libs
  BY WorldsAssumption DEF ByName, Image, Forms, Elems
<1>4. ByName(d) \in G
  BY <1>1, <1>2, <1>3 DEF Hidden
<1>5. ASSUME NEW j \in G, j[2] # "bundled", NEW s \in Elems(world.needed[j[1]]), ~InProcess(s, loaded)
      PROVE  ByName(s) \in G
  <2>1. j[1] \in Libs /\ s \in Libs
    BY <1>3 DEF Image
  <2>2. IsNeeded(s)
    BY <2>1
  <2>3. j[1] \notin R /\ hides[j[1]] \in {None, c} /\ IsNeeded(j[1])
    BY <1>5
  <2> HIDE DEF G
  <2>4. IF s \in R THEN hides[j[1]] = s ELSE hides[s] \in {None, hides[j[1]]}
    BY <1>2, <1>5, <2>1, <2>3 DEF Hiding
  <2>5. s \notin R
    BY <1>5, <2>1, <2>3, <2>4, BoundAssumption
  <2>6. hides[s] \in {None, c}
    BY <2>3, <2>4, <2>5
  <2> QED BY <1>3, <2>1, <2>2, <2>5, <2>6 DEF G
<1>6. P \subseteq G
  <2> HIDE DEF G
  <2>1. \A n \in Nat : Within(ByName(d), n) \subseteq G
    BY <1>3, <1>4, <1>5, ClosureInduct DEF ClosureInduction
  <2> QED BY <2>1, LevelsNat DEF Pulled
<1>7. AsIs(P) \cap R = {}
  <2> HIDE DEF P, R
  <2> QED BY <1>6 DEF AsIs
<1>8. RefusedOver(FromBundle) \subseteq R
  BY <1>2 DEF RefusedOver
<1>9. ~Missing(P, P)
  BY <1>1 DEF Hidden
<1> QED BY <1>1, <1>7, <1>8, <1>9, NameOpens

\* In what a soname pulls in, everything goes by its name, and every level of the
\* linker's walk is part of the whole.
LEMMA LevelsInPulled ==
  ASSUME world \in Worlds, NEW d \in Libs, ~InProcess(d, loaded)
  PROVE  /\ ByName(d) \in Pulled(ByName(d)) /\ Pulled(ByName(d)) \in SUBSET Image
         /\ \A j \in Pulled(ByName(d)) : j = ByName(j[1])
         /\ \A n \in Nat : Within(ByName(d), n) \subseteq Pulled(ByName(d))
         /\ \A j \in Pulled(ByName(d)) : j[2] # "bundled" =>
              \A s \in Elems(world.needed[j[1]]) : ~InProcess(s, loaded) => ByName(s) \in Pulled(ByName(d))
<1> DEFINE img == ByName(d)
           P == Pulled(img)
<1>1. img \in Image \ loaded /\ img = ByName(img[1])
  BY DEF ByName, Image, Forms, InProcess
<1>2. P \in SUBSET Image /\ \A j \in P : j = ByName(j[1])
  BY <1>1, PulledFacts
<1>3. /\ img \in P
      /\ \A j \in P : j[2] # "bundled" =>
           \A s \in Elems(world.needed[j[1]]) : InProcess(s, loaded \cup P)
  BY <1>1, ClosureCompletes DEF ClosureComplete
<1>4. ASSUME NEW j \in P, j[2] # "bundled", NEW s \in Elems(world.needed[j[1]]), ~InProcess(s, loaded)
      PROVE  ByName(s) \in P
  <2>1. InProcess(s, loaded \cup P)
    BY <1>3, <1>4
  <2>2. PICK f \in Forms : <<s, f>> \in P
    BY <1>4, <2>1 DEF InProcess
  <2>3. <<s, f>> = ByName(s)
    BY <1>2, <2>2
  <2> QED BY <2>2, <2>3
<1> HIDE DEF P
<1>5. \A n \in Nat : Within(img, n) \subseteq P
  BY <1>1, <1>3, <1>4, ClosureInduct DEF ClosureInduction
<1> QED BY <1>2, <1>3, <1>4, <1>5 DEF P

\* The file recovered from the linker's message is the dependency itself, or the
\* one file it hides.
LEMMA HarvestWaits ==
  ASSUME TypeInv, Benign, LinkInv, Unopened, NEW c \in Harvest
  PROVE  Waits(Dep, c)
<1> DEFINE d == Dep
           img == ByName(d)
           P == Pulled(img)
           R == RefusedOver(FromBundle)
<1>1. d \in Libs /\ d \in Elems(world.needed[Top.lib]) /\ Top.lib \in Libs
  BY DepFacts DEF Unopened, Needed
<1>2. Probes(Top.lib) /\ ~Missing(P, P) /\ Harvest = {l \in Refused(P) : \E n \in 0..Cardinality(Libs) :
             /\ <<l, "host">> \in Within(img, n)
             /\ \A m \in 0..n - 1 : Refused(P) \cap AsIs(Within(img, m)) = {}}
  BY DEF Harvest
<1>3. PICK n \in 0..Cardinality(Libs) :
        /\ <<c, "host">> \in Within(img, n)
        /\ \A m \in 0..n - 1 : Refused(P) \cap AsIs(Within(img, m)) = {}
  BY <1>2
<1>4. c \in Refused(P) /\ c \in Libs
  BY <1>2, RecursedIsHost
<1>5. ~InProcess(d, loaded) /\ world.musl = {}
  <2>1. ~OpensName(d)
    BY <1>2 DEF Unopened
  <2>2. Top.lib \notin world.musl
    BY <1>2 DEF Probes, MuslGuest
  <2> QED BY <1>1, <2>1, <2>2, BenignFacts DEF OpensName
<1>6. SUFFICES ASSUME c # d PROVE Hidden(d, c)
  BY DEF Waits
<1> HIDE DEF d
<1>7. world \in Worlds /\ LinkerOK /\ n \in Nat
  BY LevelsNat DEF TypeInv
<1>8. /\ img \in P /\ P \in SUBSET Image /\ \A j \in P : j = ByName(j[1])
      /\ \A m \in Nat : Within(img, m) \subseteq P
      /\ \A j \in P : j[2] # "bundled" =>
           \A s \in Elems(world.needed[j[1]]) : ~InProcess(s, loaded) => ByName(s) \in P
  BY <1>1, <1>5, <1>7, LevelsInPulled
<1>9. Refused(P) = AsIs(P) \cap R
  BY <1>1, <1>2, <1>5, <1>7, NameOpens
<1>10. img = <<d, "host">>
  <2>1. d \notin world.bundled \ world.broken
    BY BundledLoads, <1>7 DEF Unopened, BundledDepOpens, Bundled, d
  <2>2. d \notin world.broken
    <3>1. ASSUME d \in world.broken PROVE FALSE
      <4>1. img = <<d, "bundled">>
        BY <1>7, <3>1, WorldsAssumption DEF ByName
      <4> HIDE DEF P
      <4> QED BY <1>2, <1>8, <3>1, <4>1 DEF Missing
    <3> QED BY <3>1
  <2> QED BY <2>1, <2>2 DEF ByName
<1>11. Within(img, 0) = {img} /\ \A m \in Nat : Within(img, m + 1) = Grown(Within(img, m))
  BY WithinStep
<1>12. n # 0
  <2>1. <<c, "host">> # img
    BY <1>6, <1>10
  <2> HIDE DEF img
  <2> QED BY <1>3, <1>11, <2>1
<1>13. d \notin R
  <2>1. d \in AsIs(P) /\ d \in AsIs(Within(img, 0))
    <3> HIDE DEF P, img
    <3> QED BY <1>8, <1>10, <1>11 DEF AsIs
  <2>2. 0 \in 0..n - 1
    BY <1>7, <1>12
  <2> QED BY <1>3, <1>9, <2>1, <2>2
<1> HIDE DEF P, img, R
<1>14. FromBundle \in Answered
  BY DEF FromBundle, Answered
<1>15. \A j \in Image : j[2] = "host" => j[1] \in Libs /\ j = <<j[1], "host">>
  BY DEF Image
<1>16. ~Uniform
  <2>1. SUFFICES ASSUME Uniform PROVE FALSE
    OBVIOUS
  <2> DEFINE G == {j \in Image : j[1] \notin R}
  <2>2. ASSUME NEW j \in G, NEW s \in Elems(world.needed[j[1]]) PROVE ByName(s) \in G
    <3>1. j[1] \in Libs /\ s \in Libs
      BY <1>7, WorldsAssumption DEF Image, Elems
    <3>2. s \notin R
      BY <1>14, <2>1, <2>2, <3>1 DEF Uniform, R
    <3> QED BY <3>1, <3>2 DEF ByName, Image, Forms
  <2>3. img \in G /\ img \in Image
    BY <1>1, <1>10, <1>13 DEF Image, Forms
  <2> HIDE DEF G
  <2>4. \A m \in Nat : Within(img, m) \subseteq G
    BY <2>2, <2>3, ClosureInduct DEF ClosureInduction
  <2>5. c \notin R
    BY <1>3, <1>7, <2>4 DEF G
  <2> QED BY <1>4, <1>9, <2>5
<1>17. PICK hides \in [Libs -> Libs \cup {None}] : Hiding(FromBundle, hides)
  BY <1>5, <1>14, BenignFacts DEF OneHidden, Hiding
<1> DEFINE IsNeeded(l) == \E k \in Libs : l \in Elems(world.needed[k])
           OK(j) == j[2] # "bundled" => /\ j[1] \notin R /\ hides[j[1]] \in {None, hides[d]} /\ IsNeeded(j[1])
           Lev == {m \in Nat : m < n => \A j \in Within(img, m) : OK(j)}
<1>18. ASSUME NEW m \in Nat, m < n, NEW j \in Within(img, m), OK(j), j[2] # "bundled",
              NEW s \in Elems(world.needed[j[1]])
       PROVE  /\ j[1] \in Libs /\ s \in Libs /\ IsNeeded(s)
              /\ s \in R => s = hides[d]
              /\ s \notin R => hides[s] \in {None, hides[d]}
  <2>1. j \in Image
    BY <1>8, <1>18
  <2>2. j[1] \in Libs /\ s \in Libs
    BY <1>7, <2>1, WorldsAssumption DEF Image, Elems
  <2>3. IF s \in R THEN hides[j[1]] = s ELSE hides[s] \in {None, hides[j[1]]}
    BY <1>17, <1>18, <2>2 DEF Hiding, R
  <2>4. s # None
    BY <2>2, BoundAssumption
  <2> QED BY <1>18, <2>2, <2>3, <2>4
<1>19. Nat \subseteq Lev
  <2>1. 0 \in Lev
    BY <1>1, <1>10, <1>11, <1>13
  <2>2. ASSUME NEW m \in Nat, m \in Lev PROVE m + 1 \in Lev
    <3>1. SUFFICES ASSUME m + 1 < n, NEW j \in Within(img, m + 1), j[2] # "bundled"
                   PROVE  j[1] \notin R /\ hides[j[1]] \in {None, hides[d]} /\ IsNeeded(j[1])
      OBVIOUS
    <3>2. m < n /\ \A i \in Within(img, m) : OK(i)
      BY <1>7, <2>2, <3>1
    <3>3. CASE j \in Within(img, m)
      BY <3>1, <3>2, <3>3
    <3>4. CASE j \notin Within(img, m)
      <4>1. PICK s : s \in NeededBy(Within(img, m)) /\ j = ByName(s)
        <5>1. j \in Grown(Within(img, m)) /\ j \notin Within(img, m)
          BY <1>11, <3>1, <3>4
        <5> QED BY <5>1 DEF Grown
      <4>2. PICK i \in Within(img, m) : i[2] # "bundled" /\ s \in Elems(world.needed[i[1]])
        BY <4>1 DEF NeededBy
      <4>3. s \in Libs /\ IsNeeded(s) /\ (s \notin R => hides[s] \in {None, hides[d]})
        BY <1>18, <3>2, <4>2
      <4>4. j[1] = s /\ j = <<s, "host">>
        BY <3>1, <4>1 DEF ByName
      <4>5. s \notin R
        <5>1. j \in P
          BY <1>8
        <5>2. s \in AsIs(P) /\ s \in AsIs(Within(img, m + 1))
          BY <4>4, <5>1 DEF AsIs
        <5>3. m + 1 \in 0..n - 1
          BY <1>7, <3>1
        <5> QED BY <1>3, <1>9, <5>2, <5>3 DEF P
      <4> QED BY <4>3, <4>4, <4>5
    <3> QED BY <3>3, <3>4
  <2> HIDE DEF Lev
  <2> QED BY <2>1, <2>2, SetInduction
<1>20. hides[d] = c
  <2>1. n - 1 \in Nat /\ n - 1 < n /\ (n - 1) + 1 = n /\ n - 1 \in 0..n - 1
    BY <1>7, <1>12
  <2>2. \A j \in Within(img, n - 1) : OK(j)
    BY <1>19, <2>1
  <2>3. <<c, "host">> \notin Within(img, n - 1)
    <3>1. ASSUME <<c, "host">> \in Within(img, n - 1) PROVE FALSE
      <4>1. c \in AsIs(Within(img, n - 1))
        BY <3>1 DEF AsIs
      <4> QED BY <1>3, <1>4, <2>1, <4>1
    <3> QED BY <3>1
  <2>4. Within(img, n) = Grown(Within(img, n - 1))
    BY <1>11, <2>1
  <2>5. PICK s : s \in NeededBy(Within(img, n - 1)) /\ <<c, "host">> = ByName(s)
    BY <1>3, <2>3, <2>4 DEF Grown
  <2>6. s = c
    BY <2>5 DEF ByName
  <2>7. PICK i \in Within(img, n - 1) : i[2] # "bundled" /\ c \in Elems(world.needed[i[1]])
    BY <2>5, <2>6 DEF NeededBy
  <2>8. c \in R
    BY <1>4, <1>9
  <2> QED BY <1>18, <2>1, <2>2, <2>7, <2>8
<1> QED
  BY <1>1, <1>2, <1>5, <1>13, <1>14, <1>16, <1>17, <1>20 DEF Hidden, P, img, R
-----------------------------------------------------------------------------
(***************************************************************************)
(* What a step may do to the linker's state, and what that keeps.          *)
(***************************************************************************)
\* The world stays what it is.
LEMMA WorldStays ==
  ASSUME world' = world
  PROVE  /\ Benign' <=> Benign
         /\ Uniform' <=> Uniform
         /\ \A rank : Ranked(rank)' <=> Ranked(rank)
         /\ \A B, hides : Hiding(B, hides)' <=> Hiding(B, hides)
         /\ \A B : RefusedOver(B)' = RefusedOver(B)
         /\ \A s : ByName(s)' = ByName(s)
         /\ Answered' = Answered
  BY DEF Benign, Layered, OneHidden, Uniform, RefusedOver, Answered, Ranked, Hiding, ByName

\* What is in the process stays there, and what answers to a soname answers to it
\* for good.
Grows == /\ world' = world /\ loaded \subseteq loaded'
         /\ \A s \in Libs : first[s] # "none" => first'[s] = first[s]

\* A mapping of images of which the bundle's load keeps the linker's state sound.
LEMMA MappedLink ==
  ASSUME LinkInv, LinkerOK, NEW P \in SUBSET Image, Unbroken(P), Mapped(P), world' = world
  PROVE  LinkInv' /\ LinkerOK' /\ Grows
<1>1. loaded' = loaded \cup P /\ first' = Answering(P)
  BY DEF Mapped
<1>2. \A s \in Libs : first'[s] = IF first[s] # "none" \/ \A f \in Forms : <<s, f>> \notin P
                                  THEN first[s] ELSE CHOOSE f \in Forms : <<s, f>> \in P
  BY <1>1 DEF Answering
<1>3. LinkerOK'
  <2>1. \A s \in Libs : Answering(P)[s] \in Forms \cup {"none"}
    BY DEF Answering, LinkerOK
  <2>2. Answering(P) \in [Libs -> Forms \cup {"none"}]
    BY <2>1 DEF Answering
  <2> QED BY <2>2 DEF Mapped, LinkerOK
<1>4. ASSUME NEW s \in Libs
      PROVE  IF first'[s] = "none" THEN ~InProcess(s, loaded') ELSE <<s, first'[s]>> \in loaded'
  <2>1. CASE first[s] # "none"
    BY <1>1, <1>2, <2>1 DEF LinkInv
  <2>2. CASE first[s] = "none" /\ \A f \in Forms : <<s, f>> \notin P
    BY <1>1, <1>2, <2>2 DEF LinkInv, InProcess
  <2>3. CASE first[s] = "none" /\ \E f \in Forms : <<s, f>> \in P
    <3>1. first'[s] = CHOOSE f \in Forms : <<s, f>> \in P
      BY <1>2, <2>3
    <3>2. first'[s] \in Forms /\ <<s, first'[s]>> \in P
      BY <2>3, <3>1
    <3>3. first'[s] # "none"
      BY <3>2 DEF Forms
    <3> QED BY <1>1, <3>2, <3>3
  <2> QED BY <2>1, <2>2, <2>3
<1>5. \A s \in Libs : <<s, "bundled">> \in loaded' => s \in world'.bundled \ world'.broken
  BY <1>1 DEF LinkInv, Unbroken
<1>6. LinkInv'
  BY <1>4, <1>5 DEF LinkInv
<1>7. Grows
  BY <1>1, <1>2 DEF Grows
<1> QED BY <1>3, <1>6, <1>7

\* The sonames the bundle answers to only get fewer.
LEMMA FirstStays ==
  ASSUME world \in Worlds, Grows
  PROVE  FromBundle' \subseteq FromBundle
<1>1. world' = world
  BY DEF Grows
<1>2. ASSUME NEW d \in world.bundled \ world.broken, first'[d] \notin {"host", "copy"}
      PROVE  first[d] \notin {"host", "copy"}
  <2>1. d \in Libs
    BY <1>2, WorldsAssumption
  <2> QED BY <1>2, <2>1 DEF Grows
<1> QED BY <1>1, <1>2 DEF FromBundle

\* The facts above, of the state a step leads to.
NameOpensFact ==
  world \in Worlds /\ Benign /\ LinkInv /\ LinkerOK =>
    \A d \in Libs : ~InProcess(d, loaded) =>
      LET P == Pulled(ByName(d))
      IN OpensName(d) <=> ~Missing(P, P) /\ AsIs(P) \cap RefusedOver(FromBundle) = {}

\* It holds in every state, so in the one after a step too.
LEMMA NameOpensHolds == NameOpensFact
  BY NameOpens DEF NameOpensFact

\* As the process grows, a soname pulls in less, and less is missing.
LEMMA PulledShrinks ==
  ASSUME world \in Worlds, Grows, NEW d \in Libs, ~InProcess(d, loaded'),
         ~Missing(Pulled(ByName(d)), Pulled(ByName(d)))
  PROVE  /\ Pulled(ByName(d))' \subseteq Pulled(ByName(d))
         /\ ~Missing(Pulled(ByName(d)), Pulled(ByName(d)))'
<1> DEFINE img == ByName(d)
           P == Pulled(img)
<1>1. ~InProcess(d, loaded) /\ world' = world
  BY DEF Grows, InProcess
<1>2. /\ img \in P /\ P \in SUBSET Image
      /\ \A j \in P : j[2] # "bundled" =>
           \A s \in Elems(world.needed[j[1]]) : ~InProcess(s, loaded) => ByName(s) \in P
  BY <1>1, LevelsInPulled
<1>3. img' = img /\ \A s : ByName(s)' = ByName(s)
  BY <1>1, WorldStays
<1>4. ClosureInduction'
  BY ClosureInduct, PTL
<1>5. \A i \in Image : \A G :
        /\ i \in G
        /\ \A j \in G : j[2] # "bundled" =>
             \A s \in Elems(world.needed[j[1]]) : ~InProcess(s, loaded') => ByName(s) \in G
        => \A n \in Nat : Within(i, n)' \subseteq G
  BY <1>1, <1>3, <1>4 DEF ClosureInduction, Image
<1>6. \A s : ~InProcess(s, loaded') => ~InProcess(s, loaded)
  BY DEF Grows, InProcess
<1> HIDE DEF P, img
<1>7. \A n \in Nat : Within(img, n)' \subseteq P
  BY <1>2, <1>3, <1>5, <1>6
<1>8. Pulled(img)' \subseteq P
  <2>1. Cardinality(Libs) \in Nat
    BY LevelsNat
  <2>2. Pulled(img)' = IF img' \in loaded' THEN {} ELSE Within(img, Cardinality(Libs))'
    BY DEF Pulled
  <2> QED BY <1>7, <2>1, <2>2
<1>9. ~Missing(P, P)
  BY DEF P, img
<1>10. Pulled(ByName(d))' \subseteq P
  BY <1>8 DEF img
<1>11. ~Missing(Pulled(ByName(d)), Pulled(ByName(d)))'
  <2>1. \A Q : Q \subseteq P => AsIs(Q) \subseteq AsIs(P)
    BY DEF AsIs
  <2>2. AsIs(Pulled(ByName(d))') \subseteq AsIs(P)
    BY <1>10, <2>1
  <2> QED BY <1>1, <1>9, <1>10, <2>2 DEF Missing, AsIs
<1> QED BY <1>10, <1>11 DEF P, img

\* What is settled stays settled.
LEMMA SettledStays ==
  ASSUME world \in Worlds, Benign, LinkInv, LinkerOK, Grows, LinkInv', LinkerOK',
         NEW d \in Libs, Settled(d)
  PROVE  Settled(d)'
<1>1. world' = world /\ (Benign' <=> Benign) /\ (Uniform' <=> Uniform)
      /\ \A B : RefusedOver(B)' = RefusedOver(B)
  BY WorldStays DEF Grows
<1>2. CASE InProcess(d, loaded')
  BY <1>2 DEF Settled
<1>3. CASE ~InProcess(d, loaded')
  <2>1. ~InProcess(d, loaded) /\ world.musl = {} /\ ~Uniform /\ OpensName(d)
    BY <1>3 DEF Settled, Grows, InProcess
  <2>2. ~Missing(Pulled(ByName(d)), Pulled(ByName(d)))
        /\ AsIs(Pulled(ByName(d))) \cap RefusedOver(FromBundle) = {}
    BY <2>1, NameOpens
  <2>3. /\ Pulled(ByName(d))' \subseteq Pulled(ByName(d))
        /\ ~Missing(Pulled(ByName(d)), Pulled(ByName(d)))'
    BY <1>3, <2>2, PulledShrinks
  <2>4. FromBundle' \subseteq FromBundle
    BY <1>1, FirstStays
  <2>5. AsIs(Pulled(ByName(d))') \cap RefusedOver(FromBundle') = {}
    <3>1. AsIs(Pulled(ByName(d))') \subseteq AsIs(Pulled(ByName(d)))
      BY <2>3 DEF AsIs
    <3>2. RefusedOver(FromBundle') \subseteq RefusedOver(FromBundle)
      BY <2>4 DEF RefusedOver
    <3> QED BY <2>2, <3>1, <3>2
  <2>6. NameOpensFact'
    BY NameOpensHolds, PTL
  <2>7. OpensName(d)'
    BY <1>1, <1>3, <2>3, <2>5, <2>6 DEF NameOpensFact, AsIs, RefusedOver
  <2> QED BY <1>1, <2>1, <2>7 DEF Settled
<1> QED BY <1>2, <1>3

\* What waits goes on waiting, or is settled.
LEMMA WaitsStays ==
  ASSUME world \in Worlds, Benign, LinkInv, LinkerOK, Grows, LinkInv', LinkerOK',
         NEW d \in Libs, NEW c \in Libs, Waits(d, c)
  PROVE  Waits(d, c)'
<1>1. SUFFICES ASSUME Hidden(d, c), ~InProcess(d, loaded') PROVE Hidden(d, c)'
  BY SettledStays DEF Waits, Settled
<1>2. /\ world' = world /\ (Uniform' <=> Uniform) /\ Answered' = Answered
      /\ \A B : RefusedOver(B)' = RefusedOver(B)
      /\ \A B, hides : Hiding(B, hides)' <=> Hiding(B, hides)
  BY WorldStays DEF Grows
<1>3. ~Missing(Pulled(ByName(d)), Pulled(ByName(d)))'
  BY <1>1, PulledShrinks DEF Hidden
<1>4. FromBundle' \subseteq FromBundle
  BY <1>2, FirstStays
<1>5. PICK B \in Answered, hides \in [Libs -> Libs \cup {None}] :
        FromBundle \subseteq B /\ d \notin RefusedOver(B) /\ Hiding(B, hides) /\ hides[d] = c
  BY <1>1 DEF Hidden
<1>6. FromBundle' \subseteq B /\ d \notin RefusedOver(B)' /\ Hiding(B, hides)'
  BY <1>2, <1>4, <1>5
<1> QED BY <1>1, <1>2, <1>3, <1>5, <1>6 DEF Hidden
-----------------------------------------------------------------------------
(***************************************************************************)
(* The invariant of benign worlds.                                         *)
(***************************************************************************)
\* What l asks of d is there, or is not: by the entry for d, or because the full
\* table has none.
Granted(l, d) == provides[d] = "host" \/ (provides[d] = "bundle" /\ d \notin world.wants[l])
Denied(l, d) == \/ provides[d] = "none"
                \/ provides[d] = "bundle" /\ d \in world.wants[l]
                \/ provides[d] = "unasked" /\ TableFull

\* What makes a load strip a library.
Strips(l) == l \in world.musl \cup world.newer \/ \E d \in world.asks[l] : Denied(l, d)

\* A load by itself: the file it may rewrite is not in the process before it is
\* opened, it judges when all that the library needs is settled, takes the file
\* as it is only when all its versions are there, and never fails.
FrameOK(f) ==
  /\ f.pc = "enter" => f.i = 1
  /\ f.pc \in {"walk", "decide", "emit", "fallback"} => <<f.lib, "host">> \notin loaded
  /\ f.pc \in {"decide", "emit", "fallback"} => \A d \in Elems(world.needed[f.lib]) : Settled(d)
  /\ f.pc = "emit" => Strips(f.lib)
  /\ f.pc = "fallback" => /\ world.musl = {} /\ f.lib \notin world.newer
                          /\ \A d \in world.asks[f.lib] : Granted(f.lib, d)
  /\ f.pc = "keep" => InProcess(f.lib, loaded)
  /\ f.pc # "leave"

\* The dependencies the walk f has passed are settled, but the one that the load
\* above it, of the library above, is for.
WalkOK(f, above) ==
  \A m \in DOMAIN world.needed[f.lib] : m < f.i =>
    \/ Settled(world.needed[f.lib][m])
    \/ above # None /\ m = f.i - 1 /\ Waits(world.needed[f.lib][m], above)

Above(k) == IF k < Len(frames) THEN frames[k+1].lib ELSE None
LoadsOK == \A k \in 1..Len(frames) :
             FrameOK(frames[k]) /\ (frames[k].pc = "walk" => WalkOK(frames[k], Above(k)))

\* The deeper a load, the lower its library.
RanksOK ==
  \A rank : Ranked(rank) =>
    \A k \in 1..Len(frames) :
      /\ rank[frames[k].lib] + frames[k].depth <= Cardinality(Libs)
      /\ \A j \in 1..k - 1 : rank[frames[k].lib] < rank[frames[j].lib]

\* The images and the verdicts: no library twice, a copy of none that its verdict
\* does not strip, musl libc not there.
ImagesOK ==
  /\ LinkInv /\ ~muslIn
  /\ \A l \in cache : InProcess(l, loaded)
  /\ \A d \in Libs : /\ provides[d] = "host" => d \notin world.bundled /\ first[d] = "host"
                     /\ provides[d] = "bundle" => d \in world.bundled
                     /\ provides[d] = "none" => d \notin world.bundled
  /\ Uniform => \A d \in Libs : provides[d] = "none" => first[d] = "copy"
  /\ \A l \in Libs : <<l, "copy">> \in loaded => <<l, "host">> \notin loaded /\ Strips(l)

BenignInv ==
  Benign => /\ ChainInv /\ ImagesOK /\ LoadsOK /\ RanksOK
            /\ answer = <<>> \/ answer[2]

\* What is stripped stays so while no question is asked.
LEMMA StripsStays ==
  ASSUME world' = world, provides' = provides
  PROVE  /\ \A l : Strips(l)' <=> Strips(l)
         /\ \A l, d : Granted(l, d)' <=> Granted(l, d)
  BY DEF Strips, Denied, Granted, TableFull, Listed

\* A mapping keeps the images sound when it brings no musl libc, no image of what
\* has another, and copies only of what is to be stripped.
LEMMA MappedImages ==
  ASSUME TypeInv, ImagesOK, NEW P \in SUBSET Image, Mapped(P), Unbroken(P),
         world' = world, cache' = cache, provides' = provides,
         AsIs(P) \cap world.musl = {},
         \A l \in Libs : <<l, "copy">> \in P => Strips(l) /\ <<l, "host">> \notin loaded \cup P,
         \A l \in Libs : <<l, "host">> \in P => <<l, "copy">> \notin loaded \cup P
  PROVE  ImagesOK' /\ Grows /\ LinkInv' /\ LinkerOK'
<1>1. LinkInv' /\ LinkerOK' /\ Grows
  BY MappedLink DEF TypeInv, ImagesOK
<1>2. loaded' = loaded \cup P /\ ~muslIn'
  BY DEF Mapped, ImagesOK
<1>3. \A l \in cache' : InProcess(l, loaded')
  BY <1>2 DEF ImagesOK, InProcess
<1>4. \A d \in Libs : first[d] \in {"host", "copy"} => first'[d] = first[d]
  BY <1>1 DEF Grows
<1>5. \A d \in Libs :
        /\ provides'[d] = "host" => d \notin world'.bundled /\ first'[d] = "host"
        /\ provides'[d] = "bundle" => d \in world'.bundled
        /\ provides'[d] = "none" => d \notin world'.bundled
  BY <1>4 DEF ImagesOK
<1>6. Uniform' => \A d \in Libs : provides'[d] = "none" => first'[d] = "copy"
  BY <1>4, WorldStays DEF ImagesOK
<1>7. \A l : Strips(l)' <=> Strips(l)
  BY StripsStays
<1>8. \A l \in Libs : <<l, "copy">> \in loaded' => <<l, "host">> \notin loaded' /\ Strips(l)'
  BY <1>2, <1>7 DEF ImagesOK
<1> QED BY <1>1, <1>2, <1>3, <1>5, <1>6, <1>8 DEF ImagesOK

\* A walk keeps what it has settled.
LEMMA WalkStays ==
  ASSUME world \in Worlds, Benign, LinkInv, LinkerOK, Grows, LinkInv', LinkerOK',
         NEW f, f.lib \in Libs, NEW above \in Libs \cup {None}, WalkOK(f, above)
  PROVE  WalkOK(f, above)'
<1>1. world' = world
  BY DEF Grows
<1>2. ASSUME NEW m \in DOMAIN world.needed[f.lib], m < f.i,
             NEW d, d = world.needed[f.lib][m]
      PROVE  Settled(d)' \/ (above # None /\ m = f.i - 1 /\ Waits(d, above)')
  <2>1. d \in Libs
    <3>1. world.needed[f.lib] \in Seq(Libs)
      BY WorldsAssumption
    <3> QED BY <1>2, <3>1, ElementOfSeq, LenProperties
  <2>2. Settled(d) \/ (above # None /\ m = f.i - 1 /\ Waits(d, above))
    BY <1>2 DEF WalkOK
  <2>3. Settled(d) => Settled(d)'
    BY <2>1, SettledStays
  <2>4. above # None /\ Waits(d, above) => Waits(d, above)'
    BY <2>1, WaitsStays
  <2> QED BY <2>2, <2>3, <2>4
<1> QED BY <1>1, <1>2 DEF WalkOK

\* The ranks, when the loads are of the same libraries or fewer.
LEMMA RanksStay ==
  ASSUME RanksOK, world' = world, NEW n \in Nat, n <= Len(frames), Len(frames) \in Nat,
         Len(frames') = n,
         \A k \in 1..n : frames'[k].lib = frames[k].lib /\ frames'[k].depth = frames[k].depth
  PROVE  RanksOK'
<1>1. \A rank : Ranked(rank)' <=> Ranked(rank)
  BY WorldStays
<1>2. ASSUME NEW rank, Ranked(rank), NEW k \in 1..n
      PROVE  /\ rank[frames'[k].lib] + frames'[k].depth <= Cardinality(Libs)
             /\ \A j \in 1..k - 1 : rank[frames'[k].lib] < rank[frames'[j].lib]
  <2>1. k \in 1..Len(frames) /\ \A j \in 1..k - 1 : j \in 1..n
    OBVIOUS
  <2>2. /\ rank[frames[k].lib] + frames[k].depth <= Cardinality(Libs)
        /\ \A j \in 1..k - 1 : rank[frames[k].lib] < rank[frames[j].lib]
    BY <1>2, <2>1 DEF RanksOK
  <2> QED BY <2>1, <2>2
<1> QED BY <1>1, <1>2 DEF RanksOK

\* The loads when the one on top goes on.
LEMMA LoadsGo ==
  ASSUME TypeInv, Benign, ChainInv, ImagesOK, LoadsOK, RanksOK, frames # <<>>,
         Grows, LinkInv', LinkerOK',
         NEW t, GoesOn(t), frames' = Append(Chain, t), FrameOK(t)',
         t.pc = "walk" => WalkOK(t, None)',
         \A k \in 1..Len(frames) - 1 : <<frames[k].lib, "host">> \notin loaded'
  PROVE  LoadsOK' /\ RanksOK'
<1> DEFINE n == Len(frames)
<1>1. /\ n \in Nat /\ n # 0 /\ Len(frames') = n
      /\ \A k \in 1..n - 1 : frames'[k] = frames[k]
      /\ frames'[n] = t /\ Top = frames[n] /\ n \in 1..n
  BY TopFacts, AppendProperties DEF TypeInv, Top
<1>2. \A k \in 1..n : frames[k] \in GoodFrame
  BY ElementOfSeq DEF TypeInv
<1>3. world' = world /\ world \in Worlds /\ LinkInv /\ LinkerOK
  BY DEF Grows, TypeInv, ImagesOK
<1>4. \A k \in 1..n : frames'[k].lib = frames[k].lib /\ frames'[k].depth = frames[k].depth
  <2>1. \A k \in 1..n : k = n \/ k \in 1..n - 1
    BY <1>1
  <2> HIDE DEF n
  <2> QED BY <1>1, <2>1 DEF GoesOn
<1>5. RanksOK'
  BY <1>1, <1>3, <1>4, RanksStay
<1>6. ASSUME NEW k \in 1..n, NEW f, f = frames'[k], NEW a, a = Above(k)'
      PROVE  FrameOK(f)' /\ (f.pc = "walk" => WalkOK(f, a)')
  <2>1. CASE k = n
    <3>1. f = t /\ a = None
      BY <1>1, <1>6, <2>1 DEF Above
    <3> QED BY <3>1
  <2>2. CASE k \in 1..n - 1
    <3>1. k \in 1..n /\ k < n /\ k + 1 \in 1..n
      BY <1>1, <2>2
    <3>2. /\ f = frames[k] /\ f.pc = "walk" /\ f.lib \in Libs
          /\ a = frames[k+1].lib /\ a \in Libs /\ a = Above(k)
      BY <1>1, <1>2, <1>4, <1>6, <2>2, <3>1 DEF ChainInv, GoodFrame, Frame, Above
    <3>3. WalkOK(f, a) /\ <<f.lib, "host">> \notin loaded'
      BY <2>2, <3>1, <3>2 DEF LoadsOK
    <3>4. FrameOK(f)'
      BY <3>2, <3>3 DEF FrameOK
    <3>5. WalkOK(f, a)'
      BY <1>3, <3>2, <3>3, WalkStays
    <3> QED BY <3>4, <3>5
  <2> QED BY <1>1, <2>1, <2>2
<1> QED BY <1>1, <1>5, <1>6 DEF LoadsOK

\* The loads when the one on top returns with its library in the process.
LEMMA LoadsReturn ==
  ASSUME TypeInv, Benign, ChainInv, ImagesOK, LoadsOK, RanksOK, frames # <<>>,
         frames' = Chain, InProcess(Top.lib, loaded),
         UNCHANGED <<world, loaded, first, muslIn, provides>>
  PROVE  LoadsOK' /\ RanksOK'
<1> DEFINE n == Len(frames)
<1>1. /\ n \in Nat /\ n # 0 /\ Len(frames') = n - 1
      /\ \A k \in 1..n - 1 : frames'[k] = frames[k]
      /\ Top = frames[n] /\ n \in 1..n
  BY TopFacts DEF TypeInv, Top
<1>2. \A k \in 1..n : frames[k] \in GoodFrame
  BY ElementOfSeq DEF TypeInv
<1>3. world' = world /\ world \in Worlds /\ LinkInv /\ LinkerOK
  BY DEF TypeInv, ImagesOK
<1>4. Grows /\ LinkInv' /\ LinkerOK'
  BY <1>3 DEF Grows, LinkInv, LinkerOK
<1>5. RanksOK'
  <2>1. n - 1 \in Nat /\ n - 1 <= Len(frames)
    BY <1>1
  <2> QED BY <1>1, <1>3, <2>1, RanksStay
<1>6. ASSUME NEW k \in 1..n - 1, NEW f, f = frames'[k], NEW a, a = Above(k)'
      PROVE  FrameOK(f)' /\ (f.pc = "walk" => WalkOK(f, a)')
  <2>1. k \in 1..n /\ k < n /\ k + 1 \in 1..n
    BY <1>1
  <2>2. f = frames[k] /\ f.pc = "walk" /\ f.lib \in Libs /\ Above(k) \in Libs
        /\ FrameOK(f) /\ WalkOK(f, Above(k))
    BY <1>1, <1>2, <1>6, <2>1 DEF ChainInv, GoodFrame, Frame, Above, LoadsOK
  <2>3. FrameOK(f)'
    BY <2>2 DEF FrameOK
  <2>4. CASE k < n - 1
    <3>1. a = Above(k)
      BY <1>1, <1>6, <2>1, <2>4 DEF Above
    <3> QED BY <1>3, <1>4, <2>2, <2>3, <3>1, WalkStays
  <2>5. CASE k = n - 1
    <3>1. a = None /\ Above(k) = Top.lib
      BY <1>1, <1>6, <2>5 DEF Above
    <3>2. WalkOK(f, None)
      <4>1. ASSUME NEW m \in DOMAIN world.needed[f.lib], m < f.i,
                   NEW d, d = world.needed[f.lib][m]
            PROVE  Settled(d)
        <5>1. d \in Libs
          <6>1. world.needed[f.lib] \in Seq(Libs)
            BY <1>3, <2>2, WorldsAssumption
          <6> QED BY <4>1, <6>1, ElementOfSeq, LenProperties
        <5>2. Settled(d) \/ Waits(d, Top.lib)
          BY <2>2, <3>1, <4>1 DEF WalkOK
        <5> QED BY <1>3, <5>1, <5>2, WaitsEnds
      <4> QED BY <4>1 DEF WalkOK
    <3>3. WalkOK(f, None)'
      BY <1>3, <1>4, <2>2, <3>2, WalkStays
    <3> QED BY <2>3, <3>1, <3>3
  <2> QED BY <1>1, <2>4, <2>5
<1> QED BY <1>1, <1>5, <1>6 DEF LoadsOK

\* The loads when the one on top asks for another.
LEMMA LoadsCall ==
  ASSUME TypeInv, Benign, ChainInv, ImagesOK, LoadsOK, RanksOK, Walking,
         NEW c \in Libs, Waits(Dep, c), \A rank : Ranked(rank) => rank[c] < rank[Top.lib],
         frames' = Append(Append(Chain, Onward), Call(c, Top.depth + 1, FALSE)),
         UNCHANGED <<world, loaded, first, muslIn, provides>>
  PROVE  LoadsOK' /\ RanksOK'
<1> DEFINE n == Len(frames)
           t == Call(c, Top.depth + 1, FALSE)
<1>0. frames # <<>> /\ Top.pc = "walk" /\ Dep \in Libs /\ Top.lib \in Libs /\ Onward \in GoodFrame
  BY DepFacts
<1>1. /\ n \in Nat /\ n # 0 /\ Chain \in Seq(GoodFrame) /\ Len(Chain) = n - 1
      /\ \A k \in 1..n - 1 : Chain[k] = frames[k]
      /\ Top = frames[n] /\ n \in 1..n /\ Top \in GoodFrame
  BY <1>0, TopFacts DEF TypeInv, Top
<1>2. \A k \in 1..n : frames[k] \in GoodFrame
  BY ElementOfSeq DEF TypeInv
<1>3. world' = world /\ world \in Worlds /\ LinkInv /\ LinkerOK
  BY DEF TypeInv, ImagesOK
<1>4. Grows /\ LinkInv' /\ LinkerOK'
  BY <1>3 DEF Grows, LinkInv, LinkerOK
<1>5. /\ Len(frames') = n + 1 /\ frames'[n + 1] = t /\ frames'[n] = Onward
      /\ \A k \in 1..n - 1 : frames'[k] = frames[k]
  <2> DEFINE s == Append(Chain, Onward)
  <2>1. /\ s \in Seq(GoodFrame \cup {t}) /\ Len(s) = n /\ s[n] = Onward
        /\ \A k \in 1..n - 1 : s[k] = frames[k]
    <3> HIDE DEF t
    <3>1. Chain \in Seq(GoodFrame \cup {t})
      BY <1>1, SeqMonotonic
    <3> QED BY <1>0, <1>1, <3>1, AppendProperties
  <2>2. frames' = Append(s, t)
    BY DEF s, t
  <2>3. t \in GoodFrame \cup {t}
    OBVIOUS
  <2> HIDE DEF s, t
  <2>4. /\ Len(Append(s, t)) = n + 1 /\ Append(s, t)[n + 1] = t
        /\ \A k \in 1..n : Append(s, t)[k] = s[k]
    BY <2>1, <2>3, AppendProperties
  <2>5. n \in 1..n /\ \A k \in 1..n - 1 : k \in 1..n
    BY <1>1
  <2> HIDE DEF n
  <2> QED BY <2>1, <2>2, <2>4, <2>5
<1>6. /\ Onward.lib = Top.lib /\ Onward.depth = Top.depth /\ Onward.pc = "walk"
      /\ Onward.i = Top.i + 1 /\ Top.i \in Nat
  BY <1>0, <1>1 DEF Onward, GoodFrame, Frame
<1>7. t.lib = c /\ t.depth = Top.depth + 1 /\ t.pc = "enter" /\ t.i = 1
  BY DEF Call
<1> HIDE DEF t
<1>8. RanksOK'
  <2>1. \A rank : Ranked(rank)' <=> Ranked(rank)
    BY <1>3, WorldStays
  <2>2. ASSUME NEW rank, Ranked(rank), NEW k \in 1..n + 1
        PROVE  /\ rank[frames'[k].lib] + frames'[k].depth <= Cardinality(Libs)
               /\ \A j \in 1..k - 1 : rank[frames'[k].lib] < rank[frames'[j].lib]
    <3>0. \A j \in 1..n : j = n \/ j \in 1..n - 1
      BY <1>1
    <3>1. \A j \in 1..n : frames'[j].lib = frames[j].lib /\ frames'[j].depth = frames[j].depth
      <4> HIDE DEF n
      <4> QED BY <1>1, <1>5, <1>6, <3>0
    <3>2. \A j \in 1..n : /\ rank[frames[j].lib] + frames[j].depth <= Cardinality(Libs)
                           /\ \A i \in 1..j - 1 : rank[frames[j].lib] < rank[frames[i].lib]
      BY <2>2 DEF RanksOK
    <3>3. \A l \in Libs : rank[l] \in Int
      BY <2>2, LevelsNat DEF Ranked
    <3>4. \A j \in 1..n : frames[j].lib \in Libs /\ frames[j].depth \in Nat
      BY <1>2, BoundAssumption DEF GoodFrame, Frame
    <3>5. rank[c] < rank[Top.lib]
      BY <2>2
    <3> HIDE DEF n
    <3>6. CASE k \in 1..n
      <4>1. \A j \in 1..k - 1 : j \in 1..n
        BY <1>1, <3>6
      <4>2. frames'[k].lib = frames[k].lib /\ frames'[k].depth = frames[k].depth
        BY <3>1, <3>6
      <4>3. rank[frames[k].lib] + frames[k].depth <= Cardinality(Libs)
        BY <3>2, <3>6
      <4>4. \A j \in 1..k - 1 : rank[frames'[k].lib] < rank[frames'[j].lib]
        <5>1. \A j \in 1..k - 1 : rank[frames[k].lib] < rank[frames[j].lib]
          BY <3>2, <3>6
        <5>2. \A j \in 1..k - 1 : frames'[j].lib = frames[j].lib
          BY <3>1, <4>1
        <5> QED BY <4>2, <5>1, <5>2
      <4> QED BY <4>2, <4>3, <4>4
    <3>7. CASE k = n + 1
      <4>1. \A j \in 1..k - 1 : j \in 1..n
        BY <1>1, <3>7
      <4>2. frames'[k].lib = c /\ frames'[k].depth = Top.depth + 1
        BY <1>5, <1>7, <3>7
      <4>3. rank[Top.lib] + Top.depth <= Cardinality(Libs) /\ Top.depth \in Nat
        BY <1>1, <3>2, <3>4
      <4>4. rank[c] + (Top.depth + 1) <= Cardinality(Libs)
        BY <1>0, <3>3, <3>5, <4>3, LevelsNat
      <4>5. ASSUME NEW j \in 1..n PROVE rank[c] < rank[frames[j].lib]
        <5>1. j = n \/ rank[Top.lib] < rank[frames[j].lib]
          <6>1. j = n \/ j \in 1..n - 1
            BY <3>0
          <6> QED BY <1>1, <3>2, <6>1
        <5> QED BY <1>0, <1>1, <3>3, <3>4, <3>5, <5>1
      <4>6. \A j \in 1..k - 1 : frames'[j].lib = frames[j].lib
        BY <3>1, <4>1
      <4>7. \A j \in 1..k - 1 : rank[frames'[k].lib] < rank[frames'[j].lib]
        BY <4>1, <4>2, <4>5, <4>6
      <4> QED BY <4>2, <4>4, <4>7
    <3>8. k \in 1..n \/ k = n + 1
      BY <1>1
    <3> QED BY <3>6, <3>7, <3>8
  <2> QED BY <1>5, <2>1, <2>2 DEF RanksOK
<1>9. ASSUME NEW k \in 1..n + 1, NEW f, f = frames'[k], NEW a, a = Above(k)'
      PROVE  FrameOK(f)' /\ (f.pc = "walk" => WalkOK(f, a)')
  <2>1. CASE k = n + 1
    <3>1. f.pc = "enter" /\ f.i = 1
      BY <1>5, <1>7, <1>9, <2>1
    <3> QED BY <3>1 DEF FrameOK
  <2>2. CASE k = n
    <3>1. f = Onward /\ a = c
      <4>1. n < Len(frames')
        BY <1>1, <1>5
      <4> HIDE DEF n
      <4>2. a = IF n < Len(frames') THEN frames'[n + 1].lib ELSE None
        BY <1>9, <2>2 DEF Above
      <4> QED BY <1>5, <1>7, <1>9, <2>2, <4>1, <4>2
    <3>2. WalkOK(Top, None) /\ FrameOK(Top)
      BY <1>0, <1>1 DEF LoadsOK, Above
    <3>3. WalkOK(f, a)
      <4>1. ASSUME NEW m \in DOMAIN world.needed[f.lib], m < f.i
            PROVE  \/ Settled(world.needed[f.lib][m])
                   \/ a # None /\ m = f.i - 1 /\ Waits(world.needed[f.lib][m], a)
        <5>1. DOMAIN world.needed[f.lib] \subseteq Nat /\ f.lib = Top.lib
          <6>1. f.lib = Top.lib
            BY <1>6, <3>1
          <6>2. world.needed[f.lib] \in Seq(Libs)
            BY <1>0, <1>3, <6>1, WorldsAssumption
          <6> QED BY <6>1, <6>2, LenProperties
        <5>2. CASE m < Top.i
          BY <3>2, <4>1, <5>1, <5>2 DEF WalkOK
        <5>3. CASE m = Top.i
          <6>1. world.needed[f.lib][m] = Dep
            BY <5>1, <5>3 DEF Dep, Needed
          <6>2. c # None
            BY BoundAssumption
          <6> QED BY <1>6, <3>1, <5>3, <6>1, <6>2
        <5> QED BY <1>6, <3>1, <4>1, <5>1, <5>2, <5>3
      <4> QED BY <4>1 DEF WalkOK
    <3>4. WalkOK(f, a)'
      BY <1>0, <1>3, <1>4, <1>6, <3>1, <3>3, WalkStays
    <3>5. FrameOK(f)'
      BY <1>0, <1>6, <3>1, <3>2 DEF FrameOK
    <3> QED BY <3>4, <3>5
  <2>3. CASE k \in 1..n - 1
    <3>1. k \in 1..n /\ k < n /\ k + 1 \in 1..n
      BY <1>1, <2>3
    <3>2. /\ f = frames[k] /\ f.pc = "walk" /\ f.lib \in Libs /\ FrameOK(f)
          /\ WalkOK(f, Above(k)) /\ Above(k) \in Libs
      BY <1>2, <1>5, <1>9, <2>3, <3>1 DEF ChainInv, GoodFrame, Frame, Above, LoadsOK
    <3>3. frames'[k+1].lib = frames[k+1].lib
      <4>1. k + 1 = n \/ k + 1 \in 1..n - 1
        BY <1>1, <3>1
      <4> HIDE DEF n
      <4> QED BY <1>1, <1>5, <1>6, <4>1
    <3>4. a = Above(k)
      <4>1. k < Len(frames') /\ k < Len(frames)
        BY <1>1, <1>5, <3>1
      <4>2. a = IF k < Len(frames') THEN frames'[k + 1].lib ELSE None
        BY <1>9 DEF Above
      <4> HIDE DEF n
      <4> QED BY <3>3, <4>1, <4>2 DEF Above
    <3>5. FrameOK(f)'
      BY <3>2 DEF FrameOK
    <3> QED BY <1>3, <1>4, <3>2, <3>4, <3>5, WalkStays
  <2> QED BY <1>1, <2>1, <2>2, <2>3
<1> QED BY <1>5, <1>8, <1>9 DEF LoadsOK
-----------------------------------------------------------------------------
(***************************************************************************)
(* The steps in a benign world.                                            *)
(***************************************************************************)
BenignOK == ChainInv /\ ImagesOK /\ LoadsOK /\ RanksOK

\* The load on top there: it has room, its library is its own and not one of the
\* chain's, and it waits for nothing.
LEMMA BenignTop ==
  ASSUME TypeInv, Benign, BenignOK, frames # <<>>
  PROVE  /\ Top \in GoodFrame /\ Top.lib \in Libs /\ Top.depth \in Nat /\ ~Top.ctor
         /\ FrameOK(Top) /\ (Top.pc = "walk" => WalkOK(Top, None))
         /\ Shallow /\ ~IsCore(Top.lib) /\ Parses(Top.lib)
         /\ Top.pc # "enter" => active[Top.depth] = Top.lib
         /\ ~OnChain(Top.lib) /\ ~Freed
         /\ \A k \in 1..Len(frames) - 1 :
              /\ frames[k].lib \in Libs /\ <<frames[k].lib, "host">> \notin loaded
              /\ \A rank : Ranked(rank) => rank[Top.lib] < rank[frames[k].lib]
<1> DEFINE n == Len(frames)
<1>1. n \in Nat /\ n # 0 /\ n \in 1..n /\ Top = frames[n] /\ Top \in GoodFrame
  BY TopFacts DEF TypeInv, Top
<1>2. Top.lib \in Libs /\ Top.depth \in Nat
  BY <1>1, BoundAssumption DEF GoodFrame, Frame
<1>3. ~IsCore(Top.lib) /\ Parses(Top.lib) /\ \A l : ~IsCore(l)
  BY BenignFacts DEF IsCore, Parses
<1>4. /\ FrameOK(Top) /\ (Top.pc = "walk" => WalkOK(Top, None))
      /\ ~Top.ctor /\ Top.depth = n - 1
      /\ Top.pc # "enter" => active[n-1] = Top.lib
  BY <1>1, <1>3 DEF BenignOK, LoadsOK, Above, ChainInv
<1>5. PICK rank : Ranked(rank)
  BY BenignFacts
<1>6. \A l \in Libs : rank[l] \in 1..Cardinality(Libs)
  BY <1>5 DEF Ranked
<1>7. Shallow
  <2>1. rank[Top.lib] + Top.depth <= Cardinality(Libs)
    BY <1>1, <1>5 DEF BenignOK, RanksOK
  <2>2. world.room >= Cardinality(Libs) /\ world.room \in Nat
    BY BenignFacts, WorldsAssumption, BoundAssumption DEF TypeInv
  <2> QED BY <1>2, <1>6, <2>1, <2>2, LevelsNat DEF Shallow
<1>8. ASSUME NEW k \in 1..n - 1
      PROVE  /\ frames[k].lib \in Libs /\ <<frames[k].lib, "host">> \notin loaded
             /\ frames[k].pc = "walk" /\ active[k-1] = frames[k].lib
             /\ \A r : Ranked(r) => r[Top.lib] < r[frames[k].lib]
  <2>1. k \in 1..n /\ k < n
    BY <1>1
  <2>2. frames[k] \in GoodFrame
    BY <2>1, ElementOfSeq DEF TypeInv
  <2>3. frames[k].lib \in Libs /\ frames[k].pc = "walk" /\ active[k-1] = frames[k].lib
    BY <1>3, <2>1, <2>2 DEF GoodFrame, Frame, BenignOK, ChainInv
  <2>4. FrameOK(frames[k])
    BY <2>1 DEF BenignOK, LoadsOK
  <2>5. <<frames[k].lib, "host">> \notin loaded
    BY <2>3, <2>4 DEF FrameOK
  <2>6. \A r : Ranked(r) => r[Top.lib] < r[frames[k].lib]
    BY <1>1 DEF BenignOK, RanksOK
  <2> QED BY <2>3, <2>5, <2>6
<1>9. ~OnChain(Top.lib) /\ ~Freed
  <2>1. ASSUME NEW d \in 0..Top.depth - 1 PROVE active[d] # Top.lib /\ active[d] # None
    <3>1. d + 1 \in 1..n - 1 /\ (d + 1) - 1 = d
      BY <1>1, <1>4
    <3>2. active[d] = frames[d+1].lib /\ active[d] \in Libs
          /\ rank[Top.lib] < rank[frames[d+1].lib]
      BY <1>5, <1>8, <3>1
    <3>3. rank[Top.lib] \in Int
      BY <1>2, <1>6
    <3> QED BY <3>2, <3>3, BoundAssumption
  <2> QED BY <2>1 DEF OnChain, Freed
<1> QED BY <1>1, <1>2, <1>3, <1>4, <1>7, <1>8, <1>9

\* The linker maps img for the load on top, and what it pulls in: the images stay
\* sound, and no file of the chain's is among them.
LEMMA MapImages ==
  ASSUME TypeInv, Benign, BenignOK, NEW img \in Image, NEW P \in SUBSET Pulled(img),
         Mapped(P), Unbroken(P), AsIs(P) \cap world.musl = {},
         img[2] = "copy" => Strips(img[1]) /\ <<img[1], "host">> \notin loaded,
         img[2] = "host" => <<img[1], "copy">> \notin loaded,
         world' = world, cache' = cache, provides' = provides
  PROVE  /\ ImagesOK' /\ Grows /\ LinkInv' /\ LinkerOK'
         /\ \A l \in Libs : <<l, "host">> \notin loaded
              /\ (\A rank : Ranked(rank) => rank[img[1]] < rank[l]) => <<l, "host">> \notin loaded'
<1>1. PICK rank : Ranked(rank)
  BY BenignFacts
<1>2. \A l \in Libs : rank[l] \in Int
  BY <1>1, LevelsNat DEF Ranked
<1>3. \A j \in P : /\ j \in Image
                   /\ j = img \/ (j = ByName(j[1]) /\ ~InProcess(j[1], loaded))
                   /\ j = img \/ rank[j[1]] < rank[img[1]]
  BY <1>1, PulledFacts, PulledRank DEF TypeInv
<1>4. img[1] \in Libs
  BY DEF Image
<1>5. \A l \in Libs : <<l, "copy">> \in P => img = <<l, "copy">>
  <2>1. \A l : ByName(l)[2] # "copy"
    BY DEF ByName
  <2> QED BY <1>3, <2>1
<1>6. ASSUME NEW l \in Libs, <<l, "copy">> \in P
      PROVE  Strips(l) /\ <<l, "host">> \notin loaded \cup P
  <2>1. img[1] = l /\ img[2] = "copy"
    BY <1>5, <1>6
  <2>2. Strips(l) /\ <<l, "host">> \notin loaded
    BY <2>1
  <2>3. <<l, "host">> \notin P
    <3>1. ~(rank[l] < rank[l])
      BY <1>2
    <3> QED BY <1>3, <2>1, <3>1
  <2> QED BY <2>2, <2>3
<1>7. ASSUME NEW l \in Libs, <<l, "host">> \in P PROVE <<l, "copy">> \notin loaded \cup P
  <2>1. <<l, "copy">> \notin P
    BY <1>6, <1>7
  <2>2. CASE img = <<l, "host">>
    BY <2>1, <2>2
  <2>3. CASE ~InProcess(l, loaded)
    BY <2>1, <2>3 DEF InProcess, Forms
  <2> QED BY <1>3, <1>7, <2>2, <2>3
<1>8. P \in SUBSET Image
  BY <1>3
<1>9. ImagesOK' /\ Grows /\ LinkInv' /\ LinkerOK'
  BY <1>6, <1>7, <1>8, MappedImages DEF BenignOK
<1>10. ASSUME NEW l \in Libs, <<l, "host">> \notin loaded,
              \A r : Ranked(r) => r[img[1]] < r[l]
       PROVE  <<l, "host">> \notin loaded'
  <2>1. rank[img[1]] < rank[l] /\ rank[img[1]] \in Int /\ rank[l] \in Int
    BY <1>1, <1>2, <1>4, <1>10
  <2>2. <<l, "host">> \notin P
    <3>1. SUFFICES ASSUME <<l, "host">> \in P PROVE FALSE
      OBVIOUS
    <3>2. img = <<l, "host">> \/ rank[l] < rank[img[1]]
      BY <1>3, <3>1
    <3> QED BY <2>1, <3>2
  <2> QED BY <1>10, <2>2 DEF Mapped
<1> QED BY <1>9, <1>10

\* An image the linker is asked for is in the process afterwards.
LEMMA MappedIn ==
  ASSUME world \in Worlds, NEW img \in Image, Mapped(Pulled(img))
  PROVE  img \in loaded' /\ InProcess(img[1], loaded')
<1>1. img \in loaded \cup Pulled(img)
  BY ClosureCompletes DEF ClosureComplete
<1>2. img \in loaded' /\ img = <<img[1], img[2]>> /\ img[2] \in Forms
  BY <1>1 DEF Mapped, Image
<1> QED BY <1>2 DEF InProcess

\* The walk goes on past a dependency that is settled.
LEMMA WalkGoesOn ==
  ASSUME world \in Worlds, Benign, LinkInv, LinkerOK, Grows, LinkInv', LinkerOK',
         Top \in GoodFrame, WalkOK(Top, None), NEW d, d = Dep, Settled(d)', NEW t, t = Onward
  PROVE  WalkOK(t, None)'
<1>1. t.lib = Top.lib /\ t.i = Top.i + 1 /\ Top.i \in Nat /\ Top.lib \in Libs
  BY DEF Onward, GoodFrame, Frame
<1>2. world' = world
  BY DEF Grows
<1>3. PICK f : f = Top
  OBVIOUS
<1>4. WalkOK(f, None)'
  BY <1>1, <1>3, WalkStays
<1>5. ASSUME NEW m \in DOMAIN world.needed[t.lib], m < t.i,
             NEW e, e = world.needed[t.lib][m]
      PROVE  Settled(e)'
  <2>1. m \in Nat
    BY <1>1, WorldsAssumption, LenProperties
  <2>2. CASE m < Top.i
    BY <1>1, <1>2, <1>3, <1>4, <1>5, <2>2 DEF WalkOK
  <2>3. CASE m = Top.i
    BY <1>1, <1>5, <2>3 DEF Dep, Needed
  <2> QED BY <1>1, <1>5, <2>1, <2>2, <2>3
<1> QED BY <1>2, <1>5 DEF WalkOK

\* A benign step, but for the chain.
KeepsBenign == ImagesOK' /\ LoadsOK' /\ RanksOK'

\* When nothing is mapped the images are what they were.
LEMMA Unmapped ==
  ASSUME TypeInv, ImagesOK, UNCHANGED <<world, loaded, first, muslIn>>
  PROVE  /\ Grows /\ LinkInv' /\ LinkerOK' /\ world \in Worlds /\ LinkInv /\ LinkerOK
         /\ UNCHANGED <<cache, provides>> => ImagesOK'
<1>1. Grows /\ LinkInv' /\ LinkerOK'
  BY DEF TypeInv, ImagesOK, Grows, LinkInv, LinkerOK
<1>2. ASSUME UNCHANGED <<cache, provides>> PROVE ImagesOK'
  <2>1. Uniform' <=> Uniform
    BY WorldStays
  <2>2. \A l : Strips(l)' <=> Strips(l)
    BY <1>2, StripsStays
  <2> QED BY <1>1, <1>2, <2>1, <2>2 DEF ImagesOK, InProcess
<1> QED BY <1>1, <1>2 DEF TypeInv, ImagesOK

\* The load on top begins its walk.
LEMMA BenignStartWalk ==
  ASSUME TypeInv, Benign, BenignOK, StartWalk
  PROVE  KeepsBenign
<1>1. frames # <<>> /\ Top.pc = "enter" /\ ~Known(Top.lib)
  BY DEF StartWalk, Fresh, At
<1>2. Grows /\ LinkInv' /\ LinkerOK' /\ ImagesOK'
  BY Unmapped DEF StartWalk, BenignOK
<1>3. PICK t : t = [Top EXCEPT !.pc = "walk"]
  OBVIOUS
<1>4. /\ Top \in GoodFrame /\ FrameOK(Top) /\ \A k \in 1..Len(frames) - 1 : <<frames[k].lib, "host">> \notin loaded
  BY <1>1, BenignTop
<1>5. GoesOn(t) /\ t.lib = Top.lib /\ t.i = Top.i /\ t.pc = "walk" /\ frames' = Append(Chain, t)
  BY <1>3, <1>4 DEF GoesOn, GoodFrame, Frame, StartWalk, Goto
<1>6. t.i = 1
  BY <1>1, <1>4, <1>5 DEF FrameOK
<1>7. loaded' = loaded /\ world' = world
  BY DEF StartWalk
<1>8. FrameOK(t)'
  BY <1>1, <1>5, <1>7 DEF FrameOK, Known
<1>9. WalkOK(t, None)'
  <2>1. \A m \in DOMAIN world.needed[t.lib] : ~(m < t.i)
    <3>1. t.lib \in Libs
      BY <1>4, <1>5 DEF GoodFrame, Frame
    <3> QED BY <1>6, <3>1, WorldsAssumption, LenProperties DEF TypeInv
  <2> QED BY <1>7, <2>1 DEF WalkOK
<1> QED BY <1>1, <1>2, <1>4, <1>5, <1>7, <1>8, <1>9, LoadsGo DEF KeepsBenign, BenignOK

\* The walk opens a dependency: the bundle's file, or what goes by its name.
LEMMA BenignWalkOn ==
  ASSUME TypeInv, Benign, BenignOK, Walking, NEW img \in Image, img[1] = Dep, img[2] # "copy",
         NEW P \in SUBSET Pulled(img), Mapped(P), Resume(P, Onward), Unbroken(P),
         AsIs(P) \cap world.musl = {}, img[2] = "host" => ~InProcess(Dep, loaded),
         InProcess(Dep, loaded'), UNCHANGED <<world, provides, cache>>
  PROVE  KeepsBenign
<1>1. frames # <<>> /\ Top.pc = "walk" /\ Dep \in Libs /\ Dep \in Elems(Needed) /\ Onward \in GoodFrame
  BY DepFacts
<1>2. /\ Top \in GoodFrame /\ Top.lib \in Libs /\ FrameOK(Top) /\ WalkOK(Top, None)
      /\ \A k \in 1..Len(frames) - 1 :
           /\ frames[k].lib \in Libs /\ <<frames[k].lib, "host">> \notin loaded
           /\ \A rank : Ranked(rank) => rank[Top.lib] < rank[frames[k].lib]
  BY <1>1, BenignTop
<1>3. \A rank : Ranked(rank) => rank[Dep] < rank[Top.lib] /\ \A l \in Libs : rank[l] \in Int
  BY <1>1, <1>2, LevelsNat DEF Ranked, Needed
<1>4. /\ ImagesOK' /\ Grows /\ LinkInv' /\ LinkerOK'
      /\ \A l \in Libs : <<l, "host">> \notin loaded
           /\ (\A rank : Ranked(rank) => rank[Dep] < rank[l]) => <<l, "host">> \notin loaded'
  <2>1. img[2] = "host" => <<img[1], "copy">> \notin loaded
    BY DEF InProcess, Forms
  <2> QED BY <2>1, MapImages
<1>5. \A k \in 1..Len(frames) - 1 : <<frames[k].lib, "host">> \notin loaded'
  <2>1. ASSUME NEW k \in 1..Len(frames) - 1, NEW rank, Ranked(rank)
        PROVE  rank[Dep] < rank[frames[k].lib]
    <3>1. rank[Top.lib] < rank[frames[k].lib] /\ frames[k].lib \in Libs
      BY <1>2, <2>1
    <3>2. rank[Dep] < rank[Top.lib] /\ \A l \in Libs : rank[l] \in Int
      BY <1>3, <2>1
    <3> QED BY <1>1, <1>2, <3>1, <3>2
  <2> QED BY <1>2, <1>4, <2>1
<1>6. <<Top.lib, "host">> \notin loaded'
  <2>1. <<Top.lib, "host">> \notin loaded
    BY <1>1, <1>2 DEF FrameOK
  <2> QED BY <1>2, <1>3, <1>4, <2>1
<1>7. PICK t : t = Onward
  OBVIOUS
<1>8. GoesOn(t) /\ t.pc = "walk" /\ t.lib = Top.lib /\ frames' = Append(Chain, t)
  <2>1. GoesOn(t) /\ t.pc = "walk" /\ t.lib = Top.lib
    BY <1>1, <1>2, <1>7 DEF GoesOn, Onward, GoodFrame, Frame
  <2>2. P \in SUBSET Image
    BY PulledFacts DEF TypeInv
  <2> QED BY <1>7, <2>1, <2>2, ResumeAlone, BenignFacts
<1>9. FrameOK(t)'
  BY <1>6, <1>8 DEF FrameOK
<1>10. WalkOK(t, None)'
  <2>1. PICK d : d = Dep
    OBVIOUS
  <2>2. Settled(d)'
    BY <2>1 DEF Settled
  <2>3. world \in Worlds /\ LinkInv /\ LinkerOK
    BY DEF TypeInv, BenignOK, ImagesOK
  <2> QED BY <1>2, <1>4, <1>7, <2>1, <2>2, <2>3, WalkGoesOn
<1> QED BY <1>1, <1>4, <1>5, <1>8, <1>9, <1>10, LoadsGo DEF KeepsBenign, BenignOK

\* The bundled copy of a dependency.
LEMMA BenignBundledDep ==
  ASSUME TypeInv, Benign, BenignOK, OpenBundledDep
  PROVE  KeepsBenign
<1> DEFINE img == Bundled(Dep)
           P == Pulled(img)
<1>1. Walking /\ Dep \in Libs /\ world \in Worlds
  BY DepFacts DEF OpenBundledDep, TypeInv
<1>2. img \in Image /\ img[1] = Dep /\ img[2] = "bundled"
  BY <1>1 DEF Bundled, Image, Forms
<1>3. P \subseteq {img} /\ AsIs(P) = {}
  BY <1>1, PulledBundled DEF Bundled, AsIs
<1>4. Unbroken(P)
  <2>1. Dep \in world.bundled /\ (Dep \in world.broken => <<Dep, "bundled">> \notin P)
    BY DEF OpenBundledDep, BundledDepOpens, OpensPath, Opens, Missing
  <2> QED BY <1>3, <2>1 DEF Unbroken, Bundled
<1>5. Mapped(P) /\ Resume(P, Onward) /\ UNCHANGED <<world, provides, cache>>
  BY DEF OpenBundledDep
<1>6. InProcess(Dep, loaded')
  BY <1>1, <1>2, <1>5, MappedIn
<1> HIDE DEF img, P
<1>7. P \in SUBSET Pulled(img)
  BY DEF P
<1> QED BY <1>1, <1>2, <1>3, <1>4, <1>5, <1>6, <1>7, BenignWalkOn

\* What goes by its name.
LEMMA BenignProbeDep ==
  ASSUME TypeInv, Benign, BenignOK, ProbeDep
  PROVE  KeepsBenign
<1> DEFINE img == ByName(Dep)
           P == IF InProcess(Dep, loaded) THEN {} ELSE Pulled(img)
<1>1. Walking /\ Dep \in Libs /\ world \in Worlds /\ Top.lib \in Libs
  BY DepFacts DEF ProbeDep, TypeInv
<1>2. img \in Image /\ img[1] = Dep /\ img = ByName(img[1])
  BY <1>1 DEF ByName, Image, Forms
<1>3. world.musl = {}
  BY <1>1, BenignFacts DEF ProbeDep, Probes, MuslGuest
<1>4. Mapped(P) /\ Resume(P, Onward) /\ UNCHANGED <<world, provides, cache>>
  BY DEF ProbeDep
<1>5. Unbroken(P)
  <2>1. CASE InProcess(Dep, loaded)
    BY <2>1 DEF Unbroken
  <2>2. CASE ~InProcess(Dep, loaded)
    <3>1. ~Missing(P, P)
      BY <2>2 DEF ProbeDep, OpensName, Opens
    <3>2. \A j \in P : j = ByName(j[1])
      BY <1>1, <1>2, PulledFacts
    <3>3. ASSUME NEW s \in Libs, <<s, "bundled">> \in P PROVE s \in world.bundled \ world.broken
      <4>1. <<s, "bundled">> = ByName(s)
        BY <3>2, <3>3
      <4>2. s \in world.bundled
        BY <4>1 DEF ByName
      <4> QED BY <3>1, <3>3, <4>2 DEF Missing
    <3> QED BY <3>3 DEF Unbroken
  <2> QED BY <2>1, <2>2
<1>6. InProcess(Dep, loaded')
  <2>1. CASE InProcess(Dep, loaded)
    BY <1>4, <2>1 DEF Mapped, InProcess
  <2>2. CASE ~InProcess(Dep, loaded)
    BY <1>1, <1>2, <1>4, <2>2, MappedIn
  <2> QED BY <2>1, <2>2
<1>7. P \in SUBSET Pulled(img)
  OBVIOUS
<1> HIDE DEF P
<1>8. CASE InProcess(Dep, loaded)
  <2>1. P = {}
    BY <1>8 DEF P
  <2>2. Bundled(Dep) \in Image /\ Bundled(Dep)[1] = Dep /\ Bundled(Dep)[2] = "bundled"
    BY <1>1 DEF Bundled, Image, Forms
  <2>3. P \in SUBSET Pulled(Bundled(Dep)) /\ AsIs(P) = {}
    BY <2>1 DEF AsIs
  <2> QED BY <1>1, <1>4, <1>5, <1>6, <2>2, <2>3, BenignWalkOn
<1>9. CASE ~InProcess(Dep, loaded)
  <2>1. img[2] # "copy"
    BY DEF ByName
  <2> HIDE DEF img
  <2> QED BY <1>1, <1>2, <1>3, <1>4, <1>5, <1>6, <1>7, <1>9, <2>1, BenignWalkOn
<1> QED BY <1>8, <1>9

\* The walk asks for a load: of the file recovered from the linker's message, or
\* of the dependency's, which is next to the library's own.
LEMMA BenignRecurseDep ==
  ASSUME TypeInv, Benign, BenignOK, RecurseDep
  PROVE  KeepsBenign
<1>1. /\ Unopened /\ Walking /\ UNCHANGED <<world, loaded, first, muslIn, provides, cache>>
  BY DEF RecurseDep, Unopened
<1>2. PICK c \in IF Harvest # {} THEN Harvest ELSE {Dep} :
        frames' = Append(Append(Chain, Onward), Call(c, Top.depth + 1, FALSE))
  BY DEF RecurseDep
<1>3. /\ c \in Libs /\ Dep \in Libs /\ Top.lib \in Libs /\ Dep \in Elems(Needed)
  BY <1>1, <1>2, RecursedIsHost, DepFacts
<1>4. CASE Harvest = {}
  <2>1. c = Dep
    BY <1>2, <1>4
  <2>2. Waits(Dep, c)
    BY <2>1 DEF Waits
  <2>3. \A rank : Ranked(rank) => rank[c] < rank[Top.lib]
    BY <1>3, <2>1 DEF Ranked, Needed
  <2> QED BY <1>1, <1>2, <1>3, <2>2, <2>3, Unmapped, LoadsCall DEF KeepsBenign, BenignOK
<1>5. CASE Harvest # {}
  <2>1. c \in Harvest
    BY <1>2, <1>5
  <2>2. Waits(Dep, c)
    BY <1>1, <2>1, HarvestWaits DEF BenignOK, ImagesOK
  <2>3. PICK j \in Pulled(ByName(Dep)) : j[1] = c
    BY <2>1 DEF Harvest, Refused, AsIs
  <2>4. ASSUME NEW rank, Ranked(rank) PROVE rank[c] < rank[Top.lib]
    <3>1. ByName(Dep) \in Image /\ ByName(Dep)[1] = Dep
      BY <1>3 DEF ByName, Image, Forms
    <3>2. c = Dep \/ rank[c] < rank[Dep]
      BY <2>3, <2>4, <3>1, PulledRank DEF TypeInv
    <3>3. rank[Dep] < rank[Top.lib]
      BY <1>3, <2>4 DEF Ranked, Needed
    <3>4. rank[c] \in Int /\ rank[Dep] \in Int /\ rank[Top.lib] \in Int
      BY <1>3, <2>4, LevelsNat DEF Ranked
    <3> QED BY <3>2, <3>3, <3>4
  <2> QED BY <1>1, <1>2, <1>3, <2>2, <2>4, Unmapped, LoadsCall DEF KeepsBenign, BenignOK
<1> QED BY <1>4, <1>5

\* The walk is done: all that the library needs is settled.
LEMMA BenignWalkDone ==
  ASSUME TypeInv, Benign, BenignOK, WalkDone
  PROVE  KeepsBenign
<1>1. frames # <<>> /\ Top.pc = "walk" /\ Top.i > Len(Needed)
  BY DEF WalkDone, At
<1>2. /\ Top \in GoodFrame /\ Top.lib \in Libs /\ FrameOK(Top) /\ WalkOK(Top, None)
      /\ \A k \in 1..Len(frames) - 1 : <<frames[k].lib, "host">> \notin loaded
  BY <1>1, BenignTop
<1>3. /\ Grows /\ LinkInv' /\ LinkerOK' /\ ImagesOK' /\ world \in Worlds /\ LinkInv /\ LinkerOK
      /\ loaded' = loaded /\ world' = world
  BY Unmapped DEF WalkDone, BenignOK
<1>4. PICK t : t = [Top EXCEPT !.pc = "decide"]
  OBVIOUS
<1>5. GoesOn(t) /\ t.lib = Top.lib /\ t.pc = "decide" /\ frames' = Append(Chain, t)
  BY <1>2, <1>4 DEF GoesOn, GoodFrame, Frame, WalkDone, Goto
<1>6. ASSUME NEW d \in Elems(world.needed[t.lib]) PROVE Settled(d)'
  <2>1. PICK m \in DOMAIN world.needed[Top.lib] : d = world.needed[Top.lib][m]
    BY <1>5 DEF Elems
  <2>2. world.needed[Top.lib] \in Seq(Libs) /\ Top.i \in Nat
    BY <1>2, <1>3, WorldsAssumption DEF GoodFrame, Frame
  <2>3. m < Top.i /\ d \in Libs
    BY <1>1, <2>1, <2>2, LenProperties, ElementOfSeq DEF Needed
  <2>4. Settled(d)
    BY <1>2, <2>1, <2>3 DEF WalkOK
  <2> QED BY <1>3, <2>3, <2>4, SettledStays
<1>7. <<t.lib, "host">> \notin loaded
  BY <1>1, <1>2, <1>5 DEF FrameOK
<1>8. FrameOK(t)'
  BY <1>3, <1>5, <1>6, <1>7 DEF FrameOK
<1> QED BY <1>1, <1>2, <1>3, <1>5, <1>8, LoadsGo DEF KeepsBenign, BenignOK

\* The table takes what there is room for, and a question it has no room for
\* leaves it full.
LEMMA TableFacts ==
  ASSUME TypeInv, NEW S \in SUBSET Libs, Fits(S), world' = world,
         provides' = [d \in Libs |-> IF d \in S THEN Provider(d) ELSE provides[d]]
  PROVE  /\ Listed' = Listed \cup S
         /\ TableFull => TableFull' /\ Listed' = Listed
         /\ \A d \in Libs \ (Listed \cup S) : ~Fits(S \cup {d}) => TableFull'
<1>1. Listed' = Listed \cup S
  BY DEF Listed, Provider, TypeInv, ProvidesOK
<1>2. /\ IsFiniteSet(Listed') /\ world.entries \in Nat
      /\ Cardinality(Listed) \in Nat /\ Cardinality(Listed') \in Nat
      /\ Cardinality(Listed) <= Cardinality(Listed')
      /\ Cardinality(Listed) = Cardinality(Listed') => Listed = Listed'
  <2>1. Listed' \subseteq Libs /\ Listed \subseteq Listed'
    BY <1>1 DEF Listed
  <2>2. IsFiniteSet(Listed')
    BY <2>1, BoundAssumption, FS_Subset
  <2>3. world.entries \in 0..TableMax /\ TableMax \in Nat
    BY BoundAssumption, WorldsAssumption DEF TypeInv
  <2>4. world.entries \in Nat
    BY <2>3
  <2>5. /\ IsFiniteSet(Listed) /\ Cardinality(Listed) <= Cardinality(Listed')
        /\ Cardinality(Listed) = Cardinality(Listed') => Listed = Listed'
    BY <2>1, <2>2, FS_Subset
  <2> QED BY <2>2, <2>4, <2>5, FS_CardinalityType
<1>3. TableFull => TableFull' /\ Listed' = Listed
  <2>1. Cardinality(Listed') <= world.entries
    BY <1>1 DEF Fits
  <2> QED BY <1>2, <2>1 DEF TableFull
<1>4. ASSUME NEW d \in Libs \ (Listed \cup S), ~Fits(S \cup {d}) PROVE TableFull'
  <2>1. Listed \cup (S \cup {d}) = Listed' \cup {d}
    BY <1>1
  <2>2. Cardinality(Listed' \cup {d}) = Cardinality(Listed') + 1
    BY <1>1, <1>2, <1>4, FS_AddElement
  <2>3. ~(Cardinality(Listed') + 1 <= world.entries)
    BY <1>4, <2>1, <2>2 DEF Fits
  <2> QED BY <1>2, <2>3 DEF TableFull
<1> QED BY <1>1, <1>3, <1>4

\* The questions of a verdict, and what they leave answered.
LEMMA VerdictAnswers ==
  ASSUME TypeInv, Decide, ~world.dryrun, NEW l, l = Top.lib
  PROVE  /\ \A d \in Libs : provides[d] # "unasked" => provides'[d] = provides[d]
         /\ \A d \in Libs : provides[d] = "unasked" /\ provides'[d] # "unasked" =>
              d \in world.asks[l] /\ provides'[d] = Provider(d)
         /\ TableFull => TableFull' /\ Listed' = Listed
         /\ \/ /\ Goto("emit")
               /\ \/ l \in world.musl \cup world.newer
                  \/ \E d \in world.asks[l] : Denied(l, d)'
            \/ /\ Goto("fallback") /\ l \notin world.musl \cup world.newer
               /\ \A d \in world.asks[l] : Granted(l, d)'
<1>1. l \in Libs /\ provides \in [Libs -> {"unasked", "bundle", "host", "none"}]
  BY TopFacts DEF TypeInv, GoodFrame, Frame, ProvidesOK, Decide, At
<1>2. world.asks[l] \subseteq Libs
  BY <1>1, WorldsAssumption DEF TypeInv
<1>3. world' = world /\ Goto(IF MuslGuest(l) \/ ~Satisfied(l) THEN "emit" ELSE "fallback")
  BY DEF Decide
<1>4. CASE MuslGuest(l)
  <2>1. provides' = provides /\ Goto("emit") /\ l \in world.musl
    BY <1>3, <1>4 DEF Decide, MuslGuest
  <2>2. (TableFull' <=> TableFull) /\ Listed' = Listed
    BY <1>3, <2>1 DEF TableFull, Listed
  <2> QED BY <2>1, <2>2
<1>5. CASE ~MuslGuest(l)
  <2>1. PICK S \in Asked(l) :
          provides' = [d \in Libs |-> IF d \in S THEN Provider(d) ELSE provides[d]]
    BY <1>5 DEF Decide
  <2>2. S \subseteq world.asks[l] /\ Fits(S)
    BY <2>1 DEF Asked, Satisfied
  <2>3. \A d \in Libs : provides'[d] = IF d \in S THEN Provider(d) ELSE provides[d]
    BY <2>1
  <2>4. /\ Listed' = Listed \cup S /\ (TableFull => TableFull' /\ Listed' = Listed)
        /\ \A d \in Libs \ (Listed \cup S) : ~Fits(S \cup {d}) => TableFull'
    BY <1>2, <1>3, <2>1, <2>2, TableFacts
  <2>5. \A d \in Libs : provides[d] # "unasked" => provides'[d] = provides[d]
    BY <2>3 DEF Provider, Listed
  <2>6. \A d \in Libs : provides[d] = "unasked" /\ provides'[d] # "unasked" =>
          d \in world.asks[l] /\ provides'[d] = Provider(d)
    BY <2>2, <2>3
  <2>7. \A d \in Libs : Provider(d) \in {"bundle", "host", "none"}
    BY <1>1 DEF Provider, Listed
  <2>8. \A d \in S : /\ Provides(l, d) => Granted(l, d)'
                     /\ ~Provides(l, d) => Denied(l, d)'
    BY <1>2, <1>3, <2>2, <2>3, <2>7 DEF Provides, Granted, Denied
  <2>9. CASE Satisfied(l)
    <3>1. Goto("fallback") /\ S = world.asks[l] /\ l \notin world.newer /\ \A d \in S : Provides(l, d)
      BY <1>3, <1>5, <2>1, <2>9 DEF Asked, Satisfied
    <3>2. l \notin world.musl
      BY <1>5 DEF MuslGuest
    <3> QED BY <2>4, <2>5, <2>6, <2>8, <3>1, <3>2
  <2>10. CASE ~Satisfied(l)
    <3>1. Goto("emit")
      BY <1>3, <2>10
    <3>2. l \in world.newer \/ \E d \in world.asks[l] : Denied(l, d)'
      <4>1. CASE l \in world.newer
        BY <4>1
      <4>2. CASE Cardinality({d \in S : ~Provides(l, d)}) = 1
        <5>1. {d \in S : ~Provides(l, d)} # {}
          BY <4>2, FS_EmptySet
        <5>2. PICK d \in S : ~Provides(l, d)
          BY <5>1
        <5> QED BY <2>2, <2>8, <5>2
      <4>3. ASSUME NEW d \in world.asks[l], d \notin Listed \cup S, ~Fits(S \cup {d})
            PROVE  Denied(l, d)'
        <5>1. TableFull' /\ provides'[d] = "unasked"
          BY <1>2, <2>3, <2>4, <4>3 DEF Listed
        <5> QED BY <5>1 DEF Denied
      <4> QED BY <2>1, <2>10, <4>1, <4>2, <4>3 DEF Asked
    <3> QED BY <2>4, <2>5, <2>6, <3>1, <3>2
  <2> QED BY <2>9, <2>10
<1> QED BY <1>4, <1>5

\* The verdict, in a benign world: what has to be stripped is, the rest not.
LEMMA BenignDecide ==
  ASSUME TypeInv, Benign, BenignOK, Decide
  PROVE  KeepsBenign /\ answer' = answer
<1>1. frames # <<>> /\ Top.pc = "decide" /\ ~world.dryrun
  BY BenignFacts DEF Decide, At
<1>2. /\ Top \in GoodFrame /\ Top.lib \in Libs /\ FrameOK(Top)
      /\ \A k \in 1..Len(frames) - 1 : <<frames[k].lib, "host">> \notin loaded
  BY <1>1, BenignTop
<1>3. /\ Grows /\ LinkInv' /\ LinkerOK' /\ world \in Worlds /\ LinkInv /\ LinkerOK
      /\ UNCHANGED <<world, loaded, first, muslIn, cache, answer>>
  BY <1>1, Unmapped DEF Decide, BenignOK
<1>0. PICK own : own = Top.lib
  OBVIOUS
<1>4. PICK p \in {"emit", "fallback"} :
        /\ Goto(p)
        /\ p = "emit" => \/ own \in world.musl \cup world.newer
                         \/ \E d \in world.asks[own] : Denied(own, d)'
        /\ p = "fallback" => /\ own \notin world.musl \cup world.newer
                             /\ \A d \in world.asks[own] : Granted(own, d)'
  BY <1>0, <1>1, VerdictAnswers
<1>5. /\ \A d \in Libs : provides[d] # "unasked" => provides'[d] = provides[d]
      /\ \A d \in Libs : provides[d] = "unasked" /\ provides'[d] # "unasked" =>
              d \in world.asks[Top.lib] /\ provides'[d] = Provider(d)
      /\ TableFull => TableFull' /\ Listed' = Listed
  BY <1>0, <1>1, VerdictAnswers
<1>6. \A d \in Elems(world.needed[Top.lib]) : Settled(d)
  BY <1>1, <1>2 DEF FrameOK
<1>7. /\ \A l \in Libs : Strips(l) => Strips(l)'
      /\ world.asks[Top.lib] \subseteq Elems(world.needed[Top.lib])
  <2>1. /\ \A l \in Libs : world.asks[l] \subseteq Libs
        /\ world.asks[Top.lib] \subseteq Elems(world.needed[Top.lib])
    BY <1>2, <1>3, WorldsAssumption
  <2>2. ASSUME NEW l \in Libs, NEW d \in Libs, Denied(l, d) PROVE Denied(l, d)'
    BY <1>3, <1>5, <2>2 DEF Denied, Listed
  <2>3. \A l \in Libs : Strips(l) => Strips(l)'
    BY <1>3, <2>1, <2>2 DEF Strips
  <2> QED BY <2>1, <2>3
<1>8. ImagesOK'
  <2>1. ASSUME NEW d \in Libs
        PROVE  /\ provides'[d] = "host" => d \notin world'.bundled /\ first'[d] = "host"
               /\ provides'[d] = "bundle" => d \in world'.bundled
               /\ provides'[d] = "none" => d \notin world'.bundled
    <3>1. CASE provides[d] # "unasked"
      BY <1>3, <1>5, <2>1, <3>1 DEF BenignOK, ImagesOK
    <3>2. CASE provides[d] = "unasked"
      BY <1>3, <1>5, <2>1, <3>2 DEF Provider, Listed
    <3> QED BY <3>1, <3>2
  <2>2. ASSUME Uniform, NEW d \in Libs, provides'[d] = "none"
        PROVE  first'[d] = "copy"
    <3>1. CASE provides[d] # "unasked"
      BY <1>3, <1>5, <2>2, <3>1 DEF BenignOK, ImagesOK
    <3>2. CASE provides[d] = "unasked"
      <4>1. d \in Elems(world.needed[Top.lib]) /\ first[d] # "host" /\ d \notin world.bundled
        BY <1>5, <1>7, <2>2, <3>2 DEF Provider, Listed
      <4>2. InProcess(d, loaded)
        BY <1>6, <2>2, <4>1 DEF Settled
      <4>3. <<d, first[d]>> \in loaded
        BY <1>3, <4>2 DEF LinkInv
      <4>4. first[d] # "bundled" /\ first[d] \in Forms
        BY <1>3, <2>2, <4>1, <4>3 DEF LinkInv, LinkerOK, Image
      <4> QED BY <1>3, <4>1, <4>4 DEF Forms
    <3> QED BY <3>1, <3>2
  <2>3. Uniform' <=> Uniform
    BY <1>3, WorldStays
  <2>4. \A l \in cache' : InProcess(l, loaded')
    BY <1>3 DEF BenignOK, ImagesOK, InProcess
  <2>5. \A l \in Libs : <<l, "copy">> \in loaded' => <<l, "host">> \notin loaded' /\ Strips(l)'
    BY <1>3, <1>7 DEF BenignOK, ImagesOK
  <2>6. ~muslIn'
    BY <1>3 DEF BenignOK, ImagesOK
  <2> QED BY <1>3, <2>1, <2>2, <2>3, <2>4, <2>5, <2>6 DEF ImagesOK
<1>9. PICK t : t = [Top EXCEPT !.pc = p]
  OBVIOUS
<1>10. GoesOn(t) /\ t.lib = Top.lib /\ t.pc = p /\ frames' = Append(Chain, t)
  BY <1>2, <1>4, <1>9 DEF GoesOn, GoodFrame, Frame, Goto
<1>11. FrameOK(t)'
  <2>1. ASSUME NEW d \in Elems(world.needed[t.lib]) PROVE Settled(d)'
    <3>1. Settled(d) /\ d \in Libs
      BY <1>2, <1>3, <1>6, <1>10, WorldsAssumption DEF Elems
    <3> QED BY <1>3, <3>1, SettledStays
  <2>2. <<t.lib, "host">> \notin loaded'
    BY <1>1, <1>2, <1>3, <1>10 DEF FrameOK
  <2>3. p = "emit" => Strips(t.lib)'
    BY <1>0, <1>3, <1>4, <1>10 DEF Strips
  <2>4. p = "fallback" => world'.musl = {}
    BY <1>0, <1>2, <1>3, <1>4, BenignFacts
  <2> QED BY <1>0, <1>3, <1>4, <1>10, <2>1, <2>2, <2>3, <2>4 DEF FrameOK
<1> QED BY <1>1, <1>2, <1>3, <1>4, <1>8, <1>10, <1>11, LoadsGo DEF KeepsBenign, BenignOK

\* The linker opens the load's own file, or its copy, and the load keeps it.
LEMMA BenignKept ==
  ASSUME TypeInv, Benign, BenignOK, frames # <<>>, Top.pc \in {"emit", "fallback"},
         NEW f \in {"host", "copy"}, NEW img, img = <<Top.lib, f>>, Mapped(Pulled(img)),
         Unbroken(Pulled(img)), AsIs(Pulled(img)) \cap world.musl = {},
         NEW t, GoesOn(t), t.pc = "keep", Resume(Pulled(img), t),
         f = "copy" => Strips(Top.lib), f = "host" => ~Strips(Top.lib),
         UNCHANGED <<world, provides, cache>>
  PROVE  KeepsBenign
<1>1. /\ Top \in GoodFrame /\ Top.lib \in Libs /\ FrameOK(Top) /\ world \in Worlds
      /\ \A k \in 1..Len(frames) - 1 :
           /\ frames[k].lib \in Libs /\ <<frames[k].lib, "host">> \notin loaded
           /\ \A rank : Ranked(rank) => rank[Top.lib] < rank[frames[k].lib]
  BY BenignTop DEF TypeInv
<1>2. img \in Image /\ img[1] = Top.lib /\ img[2] = f
  BY <1>1 DEF Image, Forms
<1>3. <<Top.lib, "host">> \notin loaded /\ (f = "host" => <<Top.lib, "copy">> \notin loaded)
  BY <1>1 DEF FrameOK, BenignOK, ImagesOK
<1>4. /\ ImagesOK' /\ Grows /\ LinkInv' /\ LinkerOK'
      /\ \A l \in Libs : <<l, "host">> \notin loaded
           /\ (\A rank : Ranked(rank) => rank[Top.lib] < rank[l]) => <<l, "host">> \notin loaded'
  BY <1>2, <1>3, MapImages
<1>5. \A k \in 1..Len(frames) - 1 : <<frames[k].lib, "host">> \notin loaded'
  BY <1>1, <1>4
<1>6. frames' = Append(Chain, t)
  BY <1>1, <1>2, PulledFacts, ResumeAlone, BenignFacts
<1>7. FrameOK(t)'
  <2>1. InProcess(t.lib, loaded')
    BY <1>1, <1>2, MappedIn DEF GoesOn
  <2> QED BY <2>1 DEF FrameOK
<1> QED BY <1>4, <1>5, <1>6, <1>7, LoadsGo DEF KeepsBenign, BenignOK

\* The copy opens.
LEMMA BenignCopyReady ==
  ASSUME TypeInv, Benign, BenignOK, At("emit")
  PROVE  /\ OpensPath(Copy(Top.lib)) /\ Unbroken(Pulled(Copy(Top.lib)))
         /\ AsIs(Pulled(Copy(Top.lib))) \cap world.musl = {} /\ Strips(Top.lib)
<1>1. frames # <<>> /\ Top.pc = "emit"
  BY DEF At
<1>2. Top.lib \in Libs /\ FrameOK(Top)
  BY <1>1, BenignTop
<1>3. /\ Strips(Top.lib) /\ \A d \in Elems(world.needed[Top.lib]) : Settled(d)
      /\ world \in Worlds /\ LinkInv /\ LinkerOK
  BY <1>1, <1>2 DEF FrameOK, TypeInv, BenignOK, ImagesOK
<1> QED BY <1>2, <1>3, OpenReady DEF Copy

\* So does the file as it is, when it is not to be stripped.
LEMMA BenignPlainReady ==
  ASSUME TypeInv, Benign, BenignOK, At("fallback"), NEW img, img = <<Top.lib, "host">>
  PROVE  /\ OpensPath(img) /\ Unbroken(Pulled(img))
         /\ AsIs(Pulled(img)) \cap world.musl = {} /\ ~Strips(Top.lib)
<1>1. frames # <<>> /\ Top.pc = "fallback"
  BY DEF At
<1>2. Top.lib \in Libs /\ FrameOK(Top)
  BY <1>1, BenignTop
<1>3. /\ world.musl = {} /\ Top.lib \notin world.newer
      /\ \A d \in world.asks[Top.lib] : Granted(Top.lib, d)
      /\ \A d \in Elems(world.needed[Top.lib]) : Settled(d)
      /\ world \in Worlds /\ LinkInv /\ LinkerOK
  BY <1>1, <1>2 DEF FrameOK, TypeInv, BenignOK, ImagesOK
<1>4. \A d \in world.wants[Top.lib] : first[d] = "host"
  <2>1. world.wants[Top.lib] \subseteq world.asks[Top.lib] /\ world.wants[Top.lib] \subseteq Libs
    BY <1>2, <1>3, WorldsAssumption
  <2>2. \A d \in world.wants[Top.lib] : provides[d] = "host"
    BY <1>3, <2>1 DEF Granted
  <2> QED BY <2>1, <2>2 DEF BenignOK, ImagesOK
<1>5. ~Strips(Top.lib)
  BY <1>3 DEF Strips, Granted, Denied
<1> QED BY <1>2, <1>3, <1>4, <1>5, OpenReady

\* A load that returns its library does no harm.
LEMMA BenignReturn ==
  ASSUME TypeInv, Benign, BenignOK, frames # <<>>, NEW m, Return(TRUE, m),
         InProcess(Top.lib, loaded), cache' \subseteq cache \cup {Top.lib},
         UNCHANGED <<world, loaded, first, muslIn, provides>>
  PROVE  KeepsBenign /\ (answer' = answer \/ answer'[2])
<1>1. frames' = Chain /\ (answer' = answer \/ answer' = <<Top.lib, TRUE>>)
  BY DEF Return
<1>2. LoadsOK' /\ RanksOK'
  BY <1>1, LoadsReturn DEF BenignOK
<1>3. ImagesOK'
  <2>1. LinkInv' /\ (Uniform' <=> Uniform)
    BY WorldStays, Unmapped DEF BenignOK
  <2>2. \A l : Strips(l)' <=> Strips(l)
    BY StripsStays
  <2>3. \A l \in cache' : InProcess(l, loaded')
    BY DEF BenignOK, ImagesOK
  <2> QED BY <2>1, <2>2, <2>3 DEF ImagesOK, BenignOK
<1>4. answer' = <<Top.lib, TRUE>> => answer'[2]
  <2>1. <<Top.lib, TRUE>>[2] = TRUE
    OBVIOUS
  <2>2. answer' = <<Top.lib, TRUE>> => answer'[2] = TRUE
    BY <2>1
  <2> QED BY <2>2, Zenon
<1> QED BY <1>1, <1>2, <1>3, <1>4 DEF KeepsBenign

\* Every step of a load in a benign world keeps the invariant, and none fails.
LEMMA BenignLoad ==
  ASSUME TypeInv, Benign, BenignOK, Load
  PROVE  KeepsBenign /\ (answer' = answer \/ answer'[2])
<1>1. CASE TooDeep \/ Cycle \/ OpenUntouched \/ Leave \/ CopyFails
  <2>1. frames # <<>>
    BY <1>1 DEF TooDeep, Cycle, OpenUntouched, Leave, CopyFails, Fresh, At
  <2>2. Top.pc # "leave"
    BY <2>1, BenignTop DEF FrameOK
  <2>3. ~CopyFails
    BY BenignCopyReady, BenignFacts DEF CopyFails
  <2> QED BY <1>1, <2>1, <2>2, <2>3, BenignTop DEF TooDeep, Cycle, OpenUntouched, Leave, At
<1>2. CASE AlreadyOpen
  <2>1. frames # <<>> /\ Known(Top.lib) /\ \E m : Return(TRUE, m)
    BY <1>2 DEF AlreadyOpen, At
  <2>2. InProcess(Top.lib, loaded)
    BY <2>1 DEF Known, BenignOK, ImagesOK, InProcess, Forms
  <2> QED BY <1>2, <2>1, <2>2, BenignReturn DEF AlreadyOpen
<1>3. CASE StartWalk
  BY <1>3, BenignStartWalk DEF StartWalk
<1>4. CASE OpenBundledDep
  BY <1>4, BenignBundledDep DEF OpenBundledDep
<1>5. CASE ProbeDep
  BY <1>5, BenignProbeDep DEF ProbeDep
<1>6. CASE RecurseDep
  BY <1>6, BenignRecurseDep DEF RecurseDep
<1>7. CASE SkipDep
  <2>1. frames # <<>> /\ Top.pc = "walk" /\ Dep \in Libs
    BY <1>7, DepFacts DEF SkipDep, Unopened
  <2>2. Top.depth \in 0..Top.depth /\ active[Top.depth] = Top.lib /\ Top.lib \in Libs
    BY <2>1, BenignTop
  <2>3. active[Top.depth] # None /\ world.dir[active[Top.depth]] = world.dir[Dep]
    BY <2>1, <2>2, BenignFacts, BoundAssumption
  <2> QED BY <1>7, <2>2, <2>3 DEF SkipDep, NotNextToChain
<1>8. CASE WalkDone
  BY <1>8, BenignWalkDone DEF WalkDone
<1>9. CASE Decide
  BY <1>9, BenignDecide
<1>10. CASE OpenCopy
  <2> DEFINE t == [Top EXCEPT !.pc = "keep"]
  <2>1. frames # <<>> /\ Top.pc = "emit"
    BY <1>10 DEF OpenCopy, At
  <2>2. GoesOn(t) /\ t.pc = "keep"
    BY <2>1, BenignTop DEF GoesOn, GoodFrame, Frame
  <2>3. /\ Mapped(Pulled(Copy(Top.lib))) /\ Resume(Pulled(Copy(Top.lib)), t)
        /\ UNCHANGED <<world, provides, cache, answer>>
    BY <1>10 DEF OpenCopy
  <2>4. /\ Unbroken(Pulled(Copy(Top.lib))) /\ AsIs(Pulled(Copy(Top.lib))) \cap world.musl = {}
        /\ Strips(Top.lib)
    BY <1>10, BenignCopyReady DEF OpenCopy
  <2> HIDE DEF t
  <2> QED BY <2>1, <2>2, <2>3, <2>4, BenignKept DEF Copy
<1>11. CASE Fallback
  <2> DEFINE t == [Top EXCEPT !.pc = "keep", !.got = TRUE]
             img == <<Top.lib, "host">>
  <2>1. frames # <<>> /\ Top.pc = "fallback"
    BY <1>11 DEF Fallback, At
  <2>2. GoesOn(t) /\ t.pc = "keep"
    BY <2>1, BenignTop DEF GoesOn, GoodFrame, Frame
  <2>3. /\ OpensPath(img) /\ Unbroken(Pulled(img)) /\ AsIs(Pulled(img)) \cap world.musl = {}
        /\ ~Strips(Top.lib)
    BY <1>11, BenignPlainReady DEF Fallback
  <2>4. /\ Mapped(Pulled(img)) /\ Resume(Pulled(img), t)
        /\ UNCHANGED <<world, provides, cache, answer>>
    BY <1>11, <2>3 DEF Fallback, PlainOpen
  <2> HIDE DEF t
  <2> QED BY <2>1, <2>2, <2>3, <2>4, BenignKept
<1>12. CASE KeepHandle
  <2>1. /\ frames # <<>> /\ Top.pc = "keep" /\ Return(TRUE, msg)
        /\ cache' = (IF Cardinality(cache) < CacheMax THEN cache \cup {Top.lib} ELSE cache)
        /\ UNCHANGED <<world, loaded, first, muslIn, provides>>
    BY <1>12 DEF KeepHandle, At
  <2>2. InProcess(Top.lib, loaded)
    BY <2>1, BenignTop DEF FrameOK
  <2>3. cache' \subseteq cache \cup {Top.lib}
    BY <2>1
  <2> QED BY <2>1, <2>2, <2>3, BenignReturn
<1> QED
  BY <1>1, <1>2, <1>3, <1>4, <1>5, <1>6, <1>7, <1>8, <1>9, <1>10, <1>11, <1>12 DEF Load

\* The chain, when a load takes a step.
LEMMA ChainLoad ==
  ASSUME TypeInv, TypeInv', NoCtors, ChainInv, Load
  PROVE  ChainInv'
<1>1. /\ frames # <<>> /\ world' = world
      /\ ReturnShape \/ GoShape \/ CallShape
  BY LoadShape
<1>2. GoodFrame' = GoodFrame
  BY <1>1 DEF GoodFrame, IsCore
<1> QED BY <1>1, <1>2, ChainReturn, ChainGo, ChainCall DEF TypeInv

\* The application's call finds the process as sound as it left it.
LEMMA BenignDlopen ==
  ASSUME TypeInv, Benign, BenignOK, NEW l \in Libs, Dlopen(l)
  PROVE  BenignOK' /\ answer' = <<>>
<1>1. /\ Len(frames') = 1 /\ frames'[1] = Call(l, 0, FALSE) /\ answer' = <<>>
      /\ UNCHANGED <<world, loaded, first, muslIn, provides, cache>>
  BY DEF Dlopen
<1>2. ImagesOK'
  BY <1>1, Unmapped DEF BenignOK
<1>3. PICK f : f = Call(l, 0, FALSE)
  OBVIOUS
<1>4. f.lib = l /\ f.depth = 0 /\ f.pc = "enter" /\ f.i = 1 /\ ~f.ctor
  BY <1>3 DEF Call
<1>0. \A k \in 1..Len(frames') : k = 1 /\ frames'[k] = f
  <2>1. \A k \in 1..1 : k = 1
    OBVIOUS
  <2> QED BY <1>1, <1>3, <2>1
<1>5. ChainInv'
  <2>1. ~(1 < 1) /\ 1 - 1 = 0 /\ 1..0 = {}
    OBVIOUS
  <2> QED BY <1>0, <1>1, <1>4, <2>1 DEF ChainInv
<1>6. LoadsOK'
  <2>1. FrameOK(f)'
    BY <1>4 DEF FrameOK
  <2> QED BY <1>0, <1>4, <2>1 DEF LoadsOK
<1>7. RanksOK'
  <2>1. \A rank : Ranked(rank)' <=> Ranked(rank)
    BY <1>1, WorldStays
  <2>2. \A rank : Ranked(rank) => rank[l] \in 1..Cardinality(Libs)
    BY DEF Ranked
  <2>3. \A rank : Ranked(rank) => rank[f.lib] + f.depth <= Cardinality(Libs)
    BY <1>4, <2>2, LevelsNat
  <2>4. 1 - 1 = 0 /\ 1..0 = {}
    OBVIOUS
  <2> QED BY <1>0, <2>1, <2>3, <2>4 DEF RanksOK
<1> QED BY <1>1, <1>2, <1>5, <1>6, <1>7 DEF BenignOK

\* The invariant of benign worlds, kept by every step.
LEMMA BenignStep ==
  ASSUME TypeInv, TypeInv', BenignInv, [Next]_vars
  PROVE  BenignInv'
<1>1. Load => world' = world
  BY DEF Load, TooDeep, AlreadyOpen, Cycle, OpenUntouched, StartWalk, OpenBundledDep,
         ProbeDep, RecurseDep, SkipDep, WalkDone, Decide, OpenCopy, CopyFails, Fallback,
         KeepHandle, Leave
<1>2. world' = world
  BY <1>1 DEF Next, Dlopen, vars
<1>3. SUFFICES ASSUME Benign, BenignOK, answer = <<>> \/ answer[2]
               PROVE  BenignOK' /\ (answer' = <<>> \/ answer'[2])
  BY <1>2, WorldStays DEF BenignInv, BenignOK
<1>4. CASE Load
  <2>1. ChainInv'
    BY <1>3, <1>4, ChainLoad, BenignFacts DEF BenignOK
  <2>2. KeepsBenign /\ (answer' = answer \/ answer'[2])
    BY <1>3, <1>4, BenignLoad
  <2> QED BY <1>3, <2>1, <2>2 DEF KeepsBenign, BenignOK
<1>5. ASSUME NEW l \in Libs, Dlopen(l) PROVE BenignOK' /\ answer' = <<>>
  BY <1>3, <1>5, BenignDlopen
<1>6. CASE UNCHANGED vars
  <2>1. ImagesOK'
    BY <1>3, <1>6, Unmapped DEF vars, BenignOK
  <2>2. ChainInv'
    BY <1>3, <1>6 DEF vars, BenignOK, ChainInv, IsCore
  <2>3. RanksOK'
    <3>1. \A rank : Ranked(rank)' <=> Ranked(rank)
      BY <1>2, WorldStays
    <3> QED BY <1>3, <1>6, <3>1 DEF vars, BenignOK, RanksOK
  <2>4. LoadsOK'
    <3>1. Grows /\ LinkInv' /\ LinkerOK' /\ LinkInv /\ LinkerOK /\ world \in Worlds
          /\ frames' = frames /\ loaded' = loaded /\ provides' = provides
      BY <1>3, <1>6, Unmapped DEF vars, BenignOK
    <3>2. ASSUME NEW k \in 1..Len(frames), NEW f, f = frames[k], NEW a, a = Above(k)
          PROVE  FrameOK(f)' /\ (f.pc = "walk" => WalkOK(f, a)')
      <4>1. frames[k] \in GoodFrame /\ (k < Len(frames) => frames[k+1] \in GoodFrame)
        <5>1. Len(frames) \in Nat
          BY LenProperties DEF TypeInv
        <5> QED BY <5>1, ElementOfSeq DEF TypeInv
      <4>2. f.lib \in Libs /\ a \in Libs \cup {None}
        BY <3>2, <4>1 DEF GoodFrame, Frame, Above
      <4>3. FrameOK(f) /\ (f.pc = "walk" => WalkOK(f, a))
        BY <1>3, <3>2 DEF BenignOK, LoadsOK
      <4>4. f.pc = "walk" => WalkOK(f, a)'
        BY <1>3, <3>1, <4>2, <4>3, WalkStays
      <4>5. \A d \in Elems(world.needed[f.lib]) : Settled(d) => Settled(d)'
        <5>1. \A d \in Elems(world.needed[f.lib]) : d \in Libs
          BY <3>1, <4>2, WorldsAssumption DEF Elems
        <5>2. ASSUME NEW d \in Libs, Settled(d) PROVE Settled(d)'
          BY <1>3, <3>1, <5>2, SettledStays
        <5> QED BY <5>1, <5>2
      <4>6. FrameOK(f)'
        BY <1>2, <3>1, <4>3, <4>5, StripsStays DEF FrameOK, InProcess
      <4> QED BY <4>4, <4>6
    <3> QED BY <3>1, <3>2 DEF LoadsOK, Above
  <2> QED BY <1>3, <1>6, <2>1, <2>2, <2>3, <2>4 DEF vars, BenignOK
<1> QED BY <1>4, <1>5, <1>6 DEF Next

\* A process starts sound.
LEMMA BenignInit ==
  ASSUME Init
  PROVE  BenignInv
<1>1. Len(frames) = 0 /\ answer = <<>> /\ loaded = {} /\ cache = {} /\ ~muslIn
      /\ \A s \in Libs : first[s] = "none" /\ provides[s] = "unasked"
  BY EmptySeq DEF Init
<1>2. ChainInv /\ LoadsOK /\ RanksOK
  BY <1>1 DEF ChainInv, LoadsOK, RanksOK
<1>3. ImagesOK
  BY <1>1 DEF ImagesOK, LinkInv, InProcess
<1> QED BY <1>1, <1>2, <1>3 DEF BenignInv

\* The invariant of benign worlds.
THEOREM BenignInvariant == Spec => []BenignInv
<1>1. Init => BenignInv
  BY BenignInit
<1>2. TypeInv /\ TypeInv' /\ BenignInv /\ [Next]_vars => BenignInv'
  BY BenignStep
<1> QED BY <1>1, <1>2, TypeInvariant, PTL DEF Spec

\* Every dlopen of a host library succeeds in a benign world, however many
\* libraries there are and however they need one another.
THEOREM LoadsSucceed == Spec => []LoadSucceeds
<1>1. BenignInv => LoadSucceeds
  BY DEF BenignInv, LoadSucceeds
<1> QED BY <1>1, BenignInvariant, PTL

\* Musl libc is never mapped in a benign world: the process keeps its one libc.
THEOREM OneLibc == Spec => []NoSecondLibcWhenBenign
<1>1. BenignInv => NoSecondLibcWhenBenign
  BY DEF BenignInv, ImagesOK, NoSecondLibcWhenBenign
<1> QED BY <1>1, BenignInvariant, PTL

\* No host library is mapped both as it is and as a copy in a benign world.
THEOREM ImagesAreOne == Spec => []OneImage
<1>1. BenignInv => OneImage
  BY DEF BenignInv, ImagesOK, OneImage
<1> QED BY <1>1, BenignInvariant, PTL

\* In a benign uniform world a copy is only made of a library that needs one, or
\* of one that asks about a file the full table has no entry for.
THEOREM StripsForCause == Spec => StrippedOnlyForCause
<1> DEFINE Cause ==
      \A l \in Libs \ (world.musl \cup world.newer) :
        /\ <<l, "copy">> \in loaded' \ loaded
        /\ \A d \in world.asks[l] : /\ d \in Listed \/ ~TableFull
                                   /\ IF d \in world.bundled THEN d \notin world.wants[l]
                                      ELSE <<d, "host">> \in loaded'
        => ~(Benign /\ Uniform)
<1>1. ASSUME TypeInv, BenignInv, BenignInv', [Next]_vars PROVE Cause
  <2>1. SUFFICES ASSUME NEW l \in Libs \ (world.musl \cup world.newer),
                        <<l, "copy">> \in loaded' \ loaded,
                        \A d \in world.asks[l] :
                          /\ d \in Listed \/ ~TableFull
                          /\ IF d \in world.bundled THEN d \notin world.wants[l]
                             ELSE <<d, "host">> \in loaded',
                        Benign, Uniform
                 PROVE  FALSE
    OBVIOUS
  <2>2. BenignOK
    BY <1>1, <2>1 DEF BenignInv, BenignOK
  <2>3. Load /\ world' = world
    <3>1. loaded' # loaded
      BY <2>1
    <3>2. Load
      BY <1>1, <3>1 DEF Next, Dlopen, vars
    <3> QED BY <3>2 DEF Load, TooDeep, AlreadyOpen, Cycle, OpenUntouched, StartWalk, OpenBundledDep,
         ProbeDep, RecurseDep, SkipDep, WalkDone, Decide, OpenCopy, CopyFails, Fallback,
         KeepHandle, Leave
  <2>4. ASSUME NEW img \in Image, <<l, "copy">> \in Pulled(img) PROVE img = <<l, "copy">>
    BY <1>1, <2>4, PulledFacts DEF TypeInv, ByName
  <2>5. OpenCopy /\ Top.lib = l
    <3>1. \A P : Mapped(P) => <<l, "copy">> \in P
      BY <2>1 DEF Mapped
    <3>2. ~OpenBundledDep
      <4>1. SUFFICES ASSUME OpenBundledDep PROVE FALSE
        OBVIOUS
      <4>2. Bundled(Dep) \in Image /\ Mapped(Pulled(Bundled(Dep)))
        BY <1>1, <4>1, DepFacts DEF OpenBundledDep, Bundled, Image, Forms
      <4> QED BY <2>4, <3>1, <4>2 DEF Bundled
    <3>3. ~ProbeDep
      <4>1. SUFFICES ASSUME ProbeDep PROVE FALSE
        OBVIOUS
      <4>2. ByName(Dep) \in Image /\ ByName(Dep)[2] # "copy"
        BY <1>1, <4>1, DepFacts DEF ProbeDep, ByName, Image, Forms
      <4>3. Mapped(IF InProcess(Dep, loaded) THEN {} ELSE Pulled(ByName(Dep)))
        BY <4>1 DEF ProbeDep
      <4>4. <<l, "copy">> \in Pulled(ByName(Dep))
        BY <3>1, <4>3
      <4> QED BY <2>4, <4>2, <4>4
    <3>4. \A p, r : ~PlainOpen(p, r) \/ loaded' = loaded \/ frames = <<>>
      <4>1. SUFFICES ASSUME NEW p, NEW r, PlainOpen(p, r), loaded' # loaded, frames # <<>> PROVE FALSE
        OBVIOUS
      <4>2. Mapped(Pulled(<<Top.lib, "host">>))
        BY <4>1 DEF PlainOpen, NotMapped
      <4>3. <<Top.lib, "host">> \in Image
        BY <1>1, <4>1, TopFacts DEF TypeInv, GoodFrame, Frame, Image, Forms
      <4>4. <<Top.lib, "host">> = <<l, "copy">>
        BY <2>4, <3>1, <4>2, <4>3
      <4> QED BY <4>4
    <3>5. ~OpenUntouched /\ ~Fallback
      BY <2>1, <3>4 DEF OpenUntouched, Fallback, Fresh, At
    <3>6. OpenCopy
      BY <2>1, <2>3, <3>2, <3>3, <3>5
      DEF Load, TooDeep, AlreadyOpen, Cycle, StartWalk, RecurseDep, SkipDep, WalkDone, Decide,
          CopyFails, KeepHandle, Leave
    <3>7. <<l, "copy">> \in Pulled(Copy(Top.lib)) /\ Copy(Top.lib) \in Image
      BY <1>1, <3>1, <3>6, TopFacts DEF OpenCopy, At, TypeInv, GoodFrame, Frame, Copy, Image, Forms
    <3> QED BY <2>4, <3>6, <3>7 DEF Copy
  <2>6. Strips(l)
    BY <1>1, <2>1, <2>2, <2>5, BenignCopyReady DEF OpenCopy
  <2>7. PICK d \in world.asks[l] : Denied(l, d)
    BY <2>1, <2>6 DEF Strips
  <2>0. d \in Libs /\ provides[d] = "none"
    <3>1. d \in Libs
      BY <1>1, <2>1, <2>7, WorldsAssumption DEF TypeInv
    <3>2. provides[d] = "bundle" => d \in world.bundled
      BY <2>2, <3>1 DEF BenignOK, ImagesOK
    <3> QED BY <2>1, <2>7, <3>1, <3>2 DEF Denied, Listed
  <2>8. d \notin world.bundled /\ <<d, "host">> \in loaded'
    BY <2>0, <2>1, <2>2, <2>7 DEF BenignOK, ImagesOK
  <2>9. first[d] = "copy"
    BY <2>0, <2>1, <2>2 DEF BenignOK, ImagesOK
  <2>10. <<d, "copy">> \in loaded /\ loaded \subseteq loaded'
    BY <2>0, <2>2, <2>5, <2>9 DEF BenignOK, ImagesOK, LinkInv, OpenCopy, Mapped
  <2>11. ImagesOK'
    BY <1>1, <2>1, <2>3, WorldStays DEF BenignInv
  <2> QED BY <2>0, <2>8, <2>10, <2>11 DEF ImagesOK
<1>2. TypeInv /\ BenignInv /\ BenignInv' /\ [Next]_vars => [Cause]_vars
  BY <1>1
<1> QED
  <2> HIDE DEF Cause
  <2>1. Spec => [][TypeInv /\ BenignInv /\ BenignInv' /\ [Next]_vars]_vars
    BY TypeInvariant, BenignInvariant, PTL DEF Spec
  <2>2. [][TypeInv /\ BenignInv /\ BenignInv' /\ [Next]_vars]_vars => [][Cause]_vars
    BY <1>2, PTL
  <2> QED BY <2>1, <2>2 DEF StrippedOnlyForCause, Cause
=============================================================================
