-------------------------- MODULE MCRuntimeSelect --------------------------
(***************************************************************************)
(* Bundles of one glibc on hosts of another.                               *)
(***************************************************************************)
EXTENDS RuntimeSelect, TLC

CONSTANTS x, y,   \* two bundles; y ships no libdl
          d1, d2  \* the host's directories

MCRuntimeSet == <<"ld", "libc", "libm", "libdl">>

\* What glibc of release r builds: libc needs the newest name of its own loader
\* (E8), the old libdl's version names never go away but the private symbols it
\* imports do (E11), and a release may give libc no version of its own (lags).
Versions(r) == 0..r
Built(r, m, lags) ==
  LET top == IF lags THEN r - 1 ELSE r
  IN [defines |-> Versions(IF m = "libc" THEN top ELSE r),
      needs |-> [n \in Names |-> CASE m = "libc" /\ n = "ld" -> {0, top}
                                 [] m \in {"libm", "libdl"} /\ n = "libc" -> {0, 1}
                                 [] OTHER -> {}],
      exports |-> IF m \in {"ld", "libc"} THEN {<<m, r>>} ELSE {},
      imports |-> CASE m = "libc" -> {<<"ld", r>>} [] m = "libdl" -> {<<"libc", r>>} [] OTHER -> {}]

Whole(r, lags) == [m \in Names |-> Built(r, m, lags)]
Without(place, ms) == [m \in Names |-> IF m \in ms THEN None ELSE place[m]]
Nothing == [m \in Names |-> None]

\* Bundles of release 2, before two host directories and what those are built from.
On(first, second, b1, b2) ==
  [at |-> (x :> Whole(2, FALSE)) @@ (y :> Without(Whole(2, FALSE), {"libdl"}))
          @@ (d1 :> first) @@ (d2 :> second),
   built |-> (x :> 2) @@ (y :> 2) @@ (d1 :> b1) @@ (d2 :> b2),
   search |-> <<d1, d2>>, inside |-> (x :> {}) @@ (y :> {})]

\* One glibc, older, as old or newer: all in one place, in two, with a member
\* missing in the first; none; in the bundle itself.
Old == Whole(1, FALSE)
New == Whole(3, FALSE)
OneGlibc ==
  <<On(Old, Nothing, 1, 0), On(Whole(2, FALSE), Nothing, 2, 0), On(Nothing, Nothing, 0, 0),
    On(New, Nothing, 3, 0), On(Whole(3, TRUE), Nothing, 3, 0),
    On(Without(New, {"ld"}), New, 3, 3),
    On(Without(New, {"ld"}), Without(New, {"libc", "libm", "libdl"}), 3, 3),
    On(Without(New, {"libm"}), New, 3, 3), On(Without(New, {"libdl"}), New, 3, 3),
    [On(New, New, 3, 3) EXCEPT !.inside[x] = {d1}]>>

\* The two mixed sets that were measured to crash.
Measured ==
  <<On([New EXCEPT !["ld"] = Built(2, "ld", FALSE)], Nothing, 0, 0),
    On([New EXCEPT !["libdl"] = Built(2, "libdl", FALSE)], Nothing, 0, 0)>>

Hosts == OneGlibc \o Measured

\* All of them are what glibc is.
ASSUME HostsAssumption ==
  Worlds = Hosts => \A k \in DOMAIN Worlds :
    UnreadFollows(Worlds[k]) /\ ShipsLibm(Worlds[k]) /\ OneReleaseFits(Worlds[k]) /\ ReleaseNamed(Worlds[k])

\* libc and its peers of one glibc, the loader of a newer one in another place.
NewerLoader == <<On(Without(New, {"ld"}), Whole(4, FALSE), 3, 4)>>

Asked(a, r, h, t) == [app |-> a, runtime |-> r, hostDir |-> h, test |-> t]
Asks == {Asked(a, "auto", None, t) : a \in {x, y}, t \in BOOLEAN}
        \cup {Asked(x, "host", None, TRUE), Asked(x, "bundled", None, TRUE),
              Asked(x, "auto", d2, FALSE)}
=============================================================================
