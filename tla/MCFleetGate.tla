----------------------------- MODULE MCFleetGate ----------------------------
(***************************************************************************)
(* Small instances of FleetGate for TLC.                                   *)
(***************************************************************************)
EXTENDS FleetGate, TLC

\* Nothing tells two managers with specialists, or two consoles apart.
\* Only for runs without liveness properties.
Symmetry == Permutations(Managers \ (Direct \cup Gated)) \cup Permutations(Consoles)

=============================================================================
