------------------------------ MODULE MCRetention ------------------------------
(* Instances of RetentionCleanup for TLC: two export batches, which do not fit *)
(* one run, in the scope of an administrator, and a deleted user outside it.   *)
EXTENDS RetentionCleanup, Sequences

TypeOfDef == <<"exportBatches", "exportBatches", "users">>
ScopesDef == {{1, 2}}
=============================================================================
