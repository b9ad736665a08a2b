---------------------------- MODULE MCOrganization ----------------------------
(* A small organization for TLC. *)
EXTENDS Organization, TLC

Symmetry == Permutations(Nodes) \cup Permutations(TeamIds) \cup Permutations(Regions)
=============================================================================
