----------------------------- MODULE VisitLedger -----------------------------
(***************************************************************************)
(* What POST /visits/log promises to a device that may lose its answer and *)
(* send the same record again: a visit, named by its local record uuid, is *)
(* recorded at most once, a recorded visit is never lost, and an answer    *)
(* that acknowledges a visit is given only for a recorded one.  Nothing is *)
(* said here of how the service decides (VisitIngest does), so the         *)
(* promise covers retries, duplicates and requests handled side by side.   *)
(* Definitions named ...Mutant are plausible bugs in the definition that   *)
(* follows them, used to show that the properties can fail.                *)
(***************************************************************************)
CONSTANT Visits           \* local record uuids

VARIABLES ledger,         \* what the service holds of each visit
          reply           \* its last answer: the visit and what was said

vars == <<ledger, reply>>

Holdings == {"absent", "synced", "conflict"}
Replies == {"none", "stored", "conflict", "refused"}

TypeOK == /\ ledger \in [Visits -> Holdings]
          /\ reply \in [visit : Visits, answer : Replies]

Init == /\ ledger = [v \in Visits |-> "absent"]
        /\ reply \in [visit : Visits, answer : {"none"}]

Answer(v, answer) == reply' = [visit |-> v, answer |-> answer]

(* The visit is new and is recorded. *)
Store(v) == /\ ledger[v] = "absent"
            /\ ledger' = [ledger EXCEPT ![v] = "synced"]
            /\ Answer(v, "stored")

(* The visit is recorded already: the record is returned, nothing changes. *)
Repeat(v) == /\ ledger[v] # "absent"
             /\ Answer(v, "stored")
             /\ UNCHANGED ledger

(* The visit is recorded for review, or was and is still (or again) held. *)
Hold(v) == /\ ledger' = [ledger EXCEPT ![v] = "conflict"]
           /\ Answer(v, "conflict")

(* A validation or server error: nothing changes. *)
Refuse(v) == /\ Answer(v, "refused")
             /\ UNCHANGED ledger

(* Staff clear a held visit. *)
Resolve(v) == /\ ledger[v] = "conflict"
              /\ ledger' = [ledger EXCEPT ![v] = "synced"]
              /\ UNCHANGED reply

Handle(v) == Store(v) \/ Repeat(v) \/ Hold(v) \/ Refuse(v)

Next == \E v \in Visits : Handle(v) \/ Resolve(v)

Spec == Init /\ [][Next]_vars

(* A visit a device was told is stored or under review is on record. *)
AcknowledgedIsRecorded ==
    reply.answer \in {"stored", "conflict"} => ledger[reply.visit] # "absent"

(* A recorded visit stays recorded. *)
StaysRecorded == \A v \in Visits : ledger[v] # "absent" => ledger'[v] # "absent"
RecordsAreKept == [][StaysRecorded]_vars

=============================================================================
