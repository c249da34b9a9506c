------------------------------ MODULE MCGlFwd ------------------------------
(* Small instances of GlFwd for TLC. *)
EXTENDS GlFwd, Trampolines, TLC

\* Entry points are interchangeable, and so are the threads that did not run
\* the constructor.  Used by the runs without liveness properties only.
Symmetry == Permutations(Names) \cup Permutations(Threads \ {Main})

\* "It saves everything an argument can arrive in, calls a C function, puts it
\* all back": whatever a slot holds when its entry point is called, the call
\* arrives as it was made, and the resolver is asked for that entry point.
CallsArriveIntact ==
  \A n \in Names :
    /\ slot[n] = Resolver => ThroughResolver
    /\ slot[n] = Absent => ThroughAbsent
    /\ slot[n] \notin {Resolver, Absent} => ThroughSlot
=============================================================================
