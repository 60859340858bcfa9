--------------------------- MODULE MCSnapshotStore ---------------------------
(* One collector that skips unchanged configurations and two pruners, so that *)
(* three retention runs overlap; up to four captures of two configurations    *)
(* and one hand-written file, listed after every capture.                     *)
EXTENDS SnapshotStore, TLC

\* Neither the pruners nor the configurations are told apart, and every property is one
\* of states and steps.
Symmetry == Permutations(Pruners) \union Permutations(Configs)
=============================================================================
