-------------------------- MODULE MCTurfLifecycle --------------------------
(* Instances of TurfLifecycle for TLC. *)
EXTENDS TurfLifecycle, TLC

Symmetry == Permutations(Canvassers)
=============================================================================
