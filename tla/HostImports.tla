---------------------------- MODULE HostImports ----------------------------
(***************************************************************************)
(* What becomes of a rewritten object's imports: the rewrite itself        *)
(* (ElfRewrite), and the forwarders its plain references to versioned      *)
(* names reach (VersionCompat).                                            *)
(***************************************************************************)
EXTENDS VersionCompat, ElfRewrite

\* A call reaches a forwarder from an object that was rewritten: that changed
\* the names it was to change and no others, see RenamesRight.
RewriteExact == (\E t \in Threads : calls[t] # <<>>) => RenamesRight
=============================================================================
