----------------------------- MODULE MCEmitCopy -----------------------------
(***************************************************************************)
(* Three processes that rewrite the same library.  p runs with             *)
(* CROSS_LIBC_DLOPEN_NOSTRIP=1, which changes no byte's place.             *)
(***************************************************************************)
EXTENDS EmitCopy, TLC

CONSTANTS p, q, r

Rewritings == [x \in Procs |-> IF x = p THEN "kept" ELSE "stripped"]
Symmetry == Permutations(Procs \ {p})
=============================================================================
