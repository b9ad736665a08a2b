--------------------------- MODULE MCTurfRequests ---------------------------
(* Instances of TurfRequests for TLC. *)
EXTENDS TurfRequests, TLC

Symmetry == Permutations(Slots)
SerialSymmetry == Permutations(Canvassers)
=============================================================================
