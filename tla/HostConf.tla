------------------------------ MODULE HostConf ------------------------------
(***************************************************************************)
(* A host whose library directories are those its ld.so.conf names: the    *)
(* search for the target (HostStack) hands over what the walk of the conf  *)
(* files (LdConf) finds.                                                   *)
(***************************************************************************)
EXTENDS HostStack, LdConf

ASSUME ConfAssumption ==
  \A w \in Worlds : IsTree(w.fs) /\ w.conf = EachDir(w.fs, {}).named

\* What the search for the target walks, just before it begins, is right,
\* whatever cycles the host's conf files have.
WalkNamesAll ==
  \A t \in Threads : At(t, "host") => WalkRight(world.fs, Dirs)
=============================================================================
