---------------------------- MODULE MCVisitIngest ----------------------------
(* Finite instances of VisitIngest: every visit is about one household;     *)
(* ann's device captures them, and a visit is                              *)
(* posted with either token (the device may have changed hands) or, where   *)
(* noted, with its author's only.                                           *)
EXTENDS VisitIngest, TLC

CONSTANTS v1, v2, v3, ann, bob, house

AuthorOf == [v \in Visits |-> ann]
TargetOf == [v \in Visits |-> house]
AnyToken == [v \in Visits |-> Canvassers]
OwnToken == [v \in Visits |-> {AuthorOf[v]}]

SlotSymmetry == Permutations(Slots)
=============================================================================
