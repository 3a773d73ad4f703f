---------------------------- MODULE MCWorkEvents ----------------------------
(***************************************************************************)
(* Small instances of WorkEvents for TLC.                                  *)
(***************************************************************************)
EXTENDS WorkEvents

\* Linear issues that are done or canceled.  The other sources are alike, with
\* one status each.
LinearOnly == [linear |-> {"Done", "Canceled"}]

=============================================================================
