--------------------------- MODULE MCLoaderLocks ---------------------------
(***************************************************************************)
(* Small processes for LoaderLocks.                                        *)
(***************************************************************************)
EXTENDS LoaderLocks, TLC
=============================================================================
