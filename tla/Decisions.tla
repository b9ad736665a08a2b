------------------------------ MODULE Decisions ------------------------------
(***************************************************************************)
(* What every review in the system promises: an item waits for a decision  *)
(* and is decided at most once.  An item that is decided in one            *)
(* transaction with its effect (recovery cases, address requests) has it   *)
(* exactly when accepted.  One whose effect is a write of its own, before  *)
(* the decision is written (import rows held for review), has it before it *)
(* is accepted, and never after a decision; should the handler die between *)
(* the two, the item waits again and may still be refused.                 *)
(***************************************************************************)
EXTENDS Naturals

CONSTANTS Items,
          Atomic     \* the items whose effect and verdict are one write

VARIABLES verdict,   \* what has become of each item
          effects    \* how often the effect of each item has happened; a write that
                     \* is repeated before its decision counts once

vars == <<verdict, effects>>

Init == /\ verdict = [i \in Items |-> "absent"]
        /\ effects = [i \in Items |-> 0]

\* Items are submitted one by one or, as the rows of a file, together.
Submit(new) == /\ \A i \in new : verdict[i] = "absent"
               /\ verdict' = [i \in Items |-> IF i \in new THEN "open" ELSE verdict[i]]
               /\ UNCHANGED effects

Apply(i) == /\ verdict[i] = "open" /\ i \notin Atomic
            /\ effects' = [effects EXCEPT ![i] = 1]
            /\ UNCHANGED verdict

Accept(i) == /\ verdict[i] = "open"
             /\ verdict' = [verdict EXCEPT ![i] = "accepted"]
             /\ IF i \in Atomic THEN effects' = [effects EXCEPT ![i] = 1]
                ELSE effects[i] > 0 /\ UNCHANGED effects

Refuse(i) == /\ verdict[i] = "open"
             /\ verdict' = [verdict EXCEPT ![i] = "refused"]
             /\ UNCHANGED effects

Next == \/ \E new \in SUBSET Items : Submit(new)
        \/ \E i \in Items : Apply(i) \/ Accept(i) \/ Refuse(i)

Spec == Init /\ [][Next]_vars
=============================================================================
