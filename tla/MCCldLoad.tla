----------------------------- MODULE MCCldLoad -----------------------------
(***************************************************************************)
(* The worlds CldLoad is checked in.                                       *)
(***************************************************************************)
EXTENDS CldLoad

CONSTANTS a, b, c, d, d1, d2

All(x) == [l \in Libs |-> x]

\* Three libraries, a above b above c: every acyclic closure, in both orders.
\* The fourth stands alone but in the deep worlds.
Three == {a, b, c}
Acyclic == {[l \in Libs |-> CASE l = a -> sa [] l = b -> sb [] OTHER -> <<>>] :
              sa \in {<<b>>, <<c>>, <<b, c>>, <<c, b>>}, sb \in {<<>>, <<c>>}}

\* Nothing wrong with any of them, nothing bundled.
Plain == [needed |-> All(<<>>), musl |-> {}, newer |-> {}, asks |-> All({}),
          wants |-> All({}), entries |-> TableMax, unbindable |-> {},
          core |-> {}, opaque |-> {}, bundled |-> {}, broken |-> {},
          dir |-> All(d1), searched |-> {d1}, muslLibc |-> TRUE, ctor |-> All(None),
          emitFails |-> FALSE, room |-> MaxDepth, debug |-> FALSE, dryrun |-> FALSE]

\* The versions a library asks for, or wants of what it needs.
AllOf(n) == [l \in Libs |-> Elems(n[l])]
WantsOf(n) == {[l \in Libs |-> IF l \in S THEN Elems(n[l]) ELSE {}] : S \in SUBSET {a, b}}

\* Hosts with another glibc than the bundle's: all that a closure can want and
\* the bundle break; all that is refused and bundled, the rest wanted or not; and
\* the same where the linker does not find the files.
GlibcWorlds ==
  (UNION {{[Plain EXCEPT !.needed = n, !.asks = w, !.wants = w, !.bundled = bu, !.broken = br \cap bu] :
             w \in WantsOf(n), bu \in SUBSET Three, br \in {{}, {b}, {c}}} : n \in Acyclic})
  \cup (UNION {{[Plain EXCEPT !.needed = n, !.newer = nw, !.asks = AllOf(n), !.wants = w, !.bundled = bu] :
             w \in {All({}), AllOf(n)},
             nw \in {{a}, {b}, {c}, {b, c}}, bu \in SUBSET Three} : n \in Acyclic})
  \cup {[Plain EXCEPT !.needed = n, !.newer = nw, !.bundled = bu, !.searched = {}] :
            n \in Acyclic, nw \in SUBSET Three, bu \in {{}, {b}, {c}}}

\* Four libraries, with two or three levels below the one opened.
Deep == {[l \in Libs |-> CASE l = a -> sa [] l = b -> sb [] l = c -> sc [] OTHER -> <<>>] :
           sa \in {<<b>>, <<b, c>>}, sb \in {<<c, d>>, <<d>>}, sc \in {<<>>, <<d>>}}
DeepWorlds ==
  (UNION {{[Plain EXCEPT !.needed = n, !.newer = nw, !.asks = AllOf(n), !.wants = w, !.bundled = bu] :
             w \in {All({}), AllOf(n)},
             nw \in SUBSET {b, c, d}, bu \in {{}, {c}, {d}}} : n \in Deep})
  \cup {[Plain EXCEPT !.needed = n, !.asks = AllOf(n), !.wants = [l \in Libs |-> IF l \in {a, c} THEN Elems(n[l]) ELSE {}],
                      !.bundled = bu] : n \in Deep, bu \in {{c}, {d}}}

\* The same with a table too small for the files asked about.
TableWorlds ==
  UNION {{[Plain EXCEPT !.needed = n, !.asks = AllOf(n), !.wants = w, !.newer = nw,
                        !.bundled = bu, !.entries = e] :
            w \in {All({}), AllOf(n)}, nw \in {{}, {c}}, bu \in {{}, {b}, {c}}, e \in {0, 1}} :
         n \in Acyclic}

\* Hosts with musl.
MuslWorlds ==
  {[Plain EXCEPT !.needed = n, !.musl = Libs, !.bundled = bu, !.searched = se, !.muslLibc = ml] :
     n \in Acyclic, bu \in SUBSET Three, se \in {{}, {d1}}, ml \in BOOLEAN}

SoundWorlds == GlibcWorlds \cup DeepWorlds \cup TableWorlds \cup MuslWorlds

\* Musl guests with an import the bundled glibc has not, or no room for a copy.
MuslTroubleWorlds ==
  {[Plain EXCEPT !.musl = Libs, !.unbindable = u, !.emitFails = u = {}] : u \in {{}, {a}}}

\* Closures with cycles, and all that can go wrong.
Cyclic == {[l \in Libs |-> CASE l = a -> <<b>> [] l = b -> sb [] OTHER -> sc] :
             sb \in {<<c>>, <<a, c>>, <<c, a>>}, sc \in {<<>>, <<a>>, <<b>>}}
Troubles ==
  {Plain} \cup {[Plain EXCEPT !.unbindable = {l}, !.debug = TRUE] : l \in Three}
  \cup {[Plain EXCEPT !.musl = Libs, !.unbindable = u, !.muslLibc = ml, !.debug = de] :
          u \in {{}, {a}, {c}}, ml \in BOOLEAN, de \in BOOLEAN}
  \cup {[Plain EXCEPT !.newer = nw, !.dir = [All(d1) EXCEPT ![c] = x], !.searched = {}] :
          nw \in {{}, {a}, {b, c}}, x \in {d1, d2}}
  \cup {[Plain EXCEPT !.newer = nw, !.emitFails = TRUE, !.debug = TRUE] :
          nw \in {{a}, {b}, Three}}
  \cup {[Plain EXCEPT !.newer = nw, !.dryrun = TRUE] : nw \in {{}, {a}, {c}}}
  \cup {[Plain EXCEPT !.opaque = {b}, !.core = {c}, !.unbindable = u] : u \in {{}, {b}, {c}}}
  \cup {[Plain EXCEPT !.newer = nw, !.ctor = [All(None) EXCEPT ![b] = l]] :
          nw \in {{}, {b}}, l \in {a, c}}
HardWorlds ==
  {[t EXCEPT !.needed = n, !.room = 2] : t \in Troubles, n \in Cyclic}
  \cup {[Plain EXCEPT !.needed = n, !.newer = {a, c}, !.ctor = [All(None) EXCEPT ![b] = l]] :
          n \in {[All(<<>>) EXCEPT ![a] = <<b, c>>, ![c] = sc] : sc \in {<<>>, <<a>>}}, l \in {c, d}}

AllWorlds == SoundWorlds \cup HardWorlds
=============================================================================
