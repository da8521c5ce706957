---------------------------- MODULE MCDriftStore ----------------------------
(* Instances of DriftStore for TLC.                                        *)
EXTENDS DriftStore, TLC

\* Replicas are alike.
Symmetry == Permutations(Workers)

=============================================================================
