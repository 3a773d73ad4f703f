---------------------------- MODULE MCNotionSync ----------------------------
(***************************************************************************)
(* Small instances of NotionSync for TLC; the .cfg files choose the lines, *)
(* the writers, who edits and how much may fail.                           *)
(***************************************************************************)
EXTENDS NotionSync, TLC

\* Nothing tells two ordinary lines, or two rows, apart.  Only for runs without
\* liveness properties.
Symmetry == Permutations(Lines \ Directives) \cup Permutations(Rows)

=============================================================================
