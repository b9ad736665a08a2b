------------------------------ MODULE MCSettings ------------------------------
(* An organization, its campaigns and small settings for TLC. *)
EXTENDS Settings, TLC

ArchiveOnly == [archive |-> 1, purge |-> Unset, fallback |-> Unset]

Symmetry == Permutations(Definitions) \cup Permutations(Savers)
=============================================================================
