-------------------------- MODULE VisitIngest_proofs --------------------------
(***************************************************************************)
(* VisitIngest implements VisitLedger, for any number of devices, visits,  *)
(* concurrent requests and staff actions.  The invariant needed is that a  *)
(* request which found its visit on record still finds it there when it    *)
(* answers: no step deletes a row.                                         *)
(***************************************************************************)
EXTENDS VisitIngest, FiniteSetTheorems, TLAPS

FoundIsRecorded ==
    \A r \in Slots : request[r].at # "idle" /\ request[r].found # "none"
                     => Recorded(request[r].visit)

OpenIsStarted == \A c \in open : started[c] > 0

Inv == TypeOK /\ FoundIsRecorded /\ OpenIsStarted

USE NoVisitAssumption, MaxSessionsAssumption

LEMMA InitInv == Init => Inv
BY DEF Init, Inv, TypeOK, FoundIsRecorded, OpenIsStarted, OptionalSession, Idle

(* A busy slot holds a request record.                                     *)
LEMMA Busy ==
    ASSUME TypeOK, NEW r \in Slots, request[r].at # "idle"
    PROVE  request[r] \in Requests
BY DEF TypeOK, Idle

LEMMA OpenSessionType ==
    ASSUME Inv, NEW c \in Canvassers
    PROVE  OpenSession(c) \in OptionalSession
<1>1. CASE c \in open
  <2>1. started[c] \in 1 .. MaxSessions
    BY <1>1 DEF Inv, TypeOK, OpenIsStarted
  <2> QED BY <1>1, <2>1 DEF OpenSession, OptionalSession, SessionIds
<1>2. CASE c \notin open
  BY <1>2 DEF OpenSession, OptionalSession
<1> QED BY <1>1, <1>2

-----------------------------------------------------------------------------
(* A step of the handler that only moves its own request on, or starts one. *)
LEMMA MoveOn ==
    ASSUME Inv, NEW r \in Slots, NEW q \in Requests,
           q.found # "none" => Recorded(q.visit),
           request' = [request EXCEPT ![r] = q],
           UNCHANGED <<visits, reply, payload, assigned, started, open>>
    PROVE  Inv' /\ UNCHANGED Ledger!vars
<1>1. TypeOK'
  BY DEF Inv, TypeOK
<1>2. FoundIsRecorded'
  BY DEF Inv, TypeOK, FoundIsRecorded, Recorded
<1>3. UNCHANGED Ledger!vars
  BY DEF Ledger!vars, Holding, Recorded
<1> QED BY <1>1, <1>2, <1>3 DEF Inv, OpenIsStarted

(* An answer that leaves the rows alone. *)
LEMMA AnswerOnly ==
    ASSUME Inv, NEW r \in Slots, NEW v \in Visits,
           NEW answer \in {"stored", "conflict", "refused"},
           Finish(r, v, answer), UNCHANGED visits, TurfUnchanged
    PROVE  /\ Inv'
           /\ reply' = [visit |-> v, answer |-> answer]
           /\ UNCHANGED [w \in Visits |-> Holding(w)]
<1>1. TypeOK'
  BY DEF Inv, TypeOK, Finish, TurfUnchanged
<1>2. FoundIsRecorded'
  BY DEF Inv, TypeOK, FoundIsRecorded, Recorded, Finish, Idle
<1> QED BY <1>1, <1>2 DEF Inv, OpenIsStarted, Finish, Holding, Recorded, TurfUnchanged

(* A step that writes a row and keeps every row that was there. *)
LEMMA WriteRow ==
    ASSUME Inv, NEW v \in Visits, NEW row \in Rows,
           visits' = [visits EXCEPT ![v] = row], TurfUnchanged
    PROVE  /\ visits' \in [Visits -> Rows \cup {NoVisit}]
           /\ \A w \in Visits : Recorded(w) => Recorded(w)'
           /\ [w \in Visits |-> Holding(w)]'
                = [[w \in Visits |-> Holding(w)] EXCEPT ![v] = row.status]
BY DEF Inv, TypeOK, Recorded, Holding

LEMMA WriteAndFinish ==
    ASSUME Inv, NEW r \in Slots, NEW v \in Visits, NEW row \in Rows,
           NEW answer \in {"stored", "conflict"},
           visits' = [visits EXCEPT ![v] = row],
           Finish(r, v, answer), TurfUnchanged
    PROVE  Inv'
<1>1. TypeOK'
  BY WriteRow DEF Inv, TypeOK, Finish, TurfUnchanged
<1>2. FoundIsRecorded'
  <2> SUFFICES ASSUME NEW s \in Slots, (request[s].at # "idle")',
                      (request[s].found # "none")'
               PROVE  Recorded(request[s].visit)'
    BY DEF FoundIsRecorded
  <2>1. s # r /\ request'[s] = request[s]
    BY DEF Inv, TypeOK, Finish, Idle
  <2>2. request[s] \in Requests
    BY <2>1, Busy DEF Inv
  <2>3. Recorded(request[s].visit)
    BY <2>1 DEF Inv, FoundIsRecorded
  <2> QED BY <2>1, <2>2, <2>3, WriteRow DEF Requests
<1> QED BY <1>1, <1>2 DEF Inv, OpenIsStarted, TurfUnchanged

-----------------------------------------------------------------------------
(* The handler, step by step. *)
LedgerStep == Ledger!Next \/ UNCHANGED Ledger!vars

LEMMA RefuseStep ==
    ASSUME Inv, NEW r \in Slots, NEW v \in Visits,
           Finish(r, v, "refused"), UNCHANGED visits, TurfUnchanged
    PROVE  Inv' /\ LedgerStep
<1>1. /\ Inv'
      /\ Ledger!Refuse(v)
  BY AnswerOnly DEF Ledger!Refuse, Ledger!Answer
<1> QED BY <1>1 DEF LedgerStep, Ledger!Next, Ledger!Handle

LEMMA AdvanceStep ==
    ASSUME Inv, NEW r \in Slots, request[r].at # "idle", NEW stage \in Stages,
           Advance(r, stage), UNCHANGED <<visits, reply>>, TurfUnchanged
    PROVE  Inv' /\ LedgerStep
<1> DEFINE q == [request[r] EXCEPT !.at = stage]
<1>1. q \in Requests /\ request[r] \in Requests
  BY Busy DEF Inv, Requests
<1>2. q.found # "none" => Recorded(q.visit)
  BY <1>1 DEF Inv, FoundIsRecorded, Requests
<1>3. request' = [request EXCEPT ![r] = q]
  BY DEF Advance
<1> QED BY <1>1, <1>2, <1>3, MoveOn DEF LedgerStep, TurfUnchanged

LEMMA BeginStep ==
    ASSUME Inv, NEW r \in Slots, NEW v \in Visits, NEW c \in Canvassers, Begin(r, v, c)
    PROVE  Inv' /\ LedgerStep
<1> DEFINE q == [at |-> "lookup", visit |-> v, by |-> c,
                 found |-> "none", session |-> payload[v]]
<1>1. q \in Requests
  BY DEF Inv, TypeOK, Begin, Requests, Stages, OptionalSession
<1>2. request' = [request EXCEPT ![r] = q]
  BY DEF Begin
<1> QED BY <1>1, <1>2, MoveOn DEF Begin, LedgerStep, TurfUnchanged

LEMMA LookupStep ==
    ASSUME Inv, NEW r \in Slots, Lookup(r)
    PROVE  Inv' /\ LedgerStep
<1> DEFINE v == request[r].visit
<1>1. request[r] \in Requests /\ v \in Visits
  BY Busy DEF Inv, Lookup, Requests
<1>2. CASE KnownConflict(v)
  <2>1. Inv' /\ Ledger!Hold(v)
    <3>1. Inv' /\ reply' = [visit |-> v, answer |-> "conflict"]
          /\ UNCHANGED [w \in Visits |-> Holding(w)]
      BY <1>1, <1>2, AnswerOnly DEF Lookup, RowUnchanged
    <3>2. [w \in Visits |-> Holding(w)]
             = [[w \in Visits |-> Holding(w)] EXCEPT ![v] = "conflict"]
      BY <1>1, <1>2 DEF KnownConflict, Held, Holding
    <3> QED BY <3>1, <3>2 DEF Ledger!Hold, Ledger!Answer
  <2> QED BY <1>1, <2>1 DEF LedgerStep, Ledger!Next, Ledger!Handle
<1>3. CASE ~KnownConflict(v)
  <2> DEFINE q == [request[r] EXCEPT !.at = "attempts", !.found = Outcome(v)]
  <2>1. q \in Requests
    BY <1>1 DEF Requests, Stages, Outcome
  <2>2. q.found # "none" => Recorded(q.visit)
    BY <1>1 DEF Outcome, Requests
  <2>3. request' = [request EXCEPT ![r] = q]
    BY <1>3 DEF Lookup
  <2> QED BY <1>3, <2>1, <2>2, <2>3, MoveOn
          DEF Lookup, LedgerStep, TurfUnchanged, RowUnchanged
<1> QED BY <1>2, <1>3

(* The checks refuse the visit or move on. *)
LEMMA CheckStep ==
    ASSUME Inv, NEW r \in Slots,
           RejectContent(r) \/ CheckAttempts(r) \/ CheckCooldown(r) \/ CheckAssignment(r)
    PROVE  Inv' /\ LedgerStep
<1>1. request[r].at # "idle" /\ request[r].visit \in Visits
  BY Busy DEF Inv, RejectContent, CheckAttempts, CheckCooldown, CheckAssignment, Requests
<1>2. CASE RejectContent(r)
  BY <1>1, <1>2, RefuseStep DEF RejectContent, RowUnchanged
<1>3. CASE CheckAttempts(r)
  BY <1>1, <1>3, RefuseStep, AdvanceStep DEF CheckAttempts, RowUnchanged, Stages
<1>4. CASE CheckCooldown(r)
  BY <1>1, <1>4, RefuseStep, AdvanceStep DEF CheckCooldown, RowUnchanged, Stages
<1>5. CASE CheckAssignment(r)
  BY <1>1, <1>5, AdvanceStep DEF CheckAssignment, RowUnchanged, Stages
<1> QED BY <1>2, <1>3, <1>4, <1>5

LEMMA SessionStep ==
    ASSUME Inv, NEW r \in Slots, CheckSession(r)
    PROVE  Inv' /\ LedgerStep
<1>1. request[r].at # "idle" /\ request[r] \in Requests
  BY Busy DEF Inv, CheckSession
<1>2. CASE request[r].session = NoSession
  <2> DEFINE q == [request[r] EXCEPT !.at = "store", !.session = OpenSession(request[r].by)]
  <2>1. q \in Requests
    BY <1>1, OpenSessionType DEF Requests, Stages
  <2>2. q.found # "none" => Recorded(q.visit)
    BY <1>1 DEF Inv, FoundIsRecorded, Requests
  <2>3. request' = [request EXCEPT ![r] = q]
    BY <1>2 DEF CheckSession
  <2> QED BY <2>1, <2>2, <2>3, MoveOn
          DEF CheckSession, LedgerStep, TurfUnchanged, RowUnchanged
<1>3. CASE request[r].session # NoSession
  BY <1>1, <1>3, AdvanceStep DEF CheckSession, RowUnchanged, Stages
<1> QED BY <1>2, <1>3

LEMMA InsertStep ==
    ASSUME Inv, NEW r \in Slots, request[r].at # "idle", TurfUnchanged,
           \/ Insert(r, "conflict", "conflict")
           \/ Insert(r, "synced", "stored")
    PROVE  Inv' /\ LedgerStep
<1> DEFINE v == request[r].visit
<1>1. request[r] \in Requests /\ v \in Visits
  BY Busy DEF Inv, Requests
<1>2. CASE Recorded(v)
  BY <1>1, <1>2, RefuseStep DEF Insert, RowUnchanged
<1>3. ASSUME ~Recorded(v), Insert(r, "conflict", "conflict")
      PROVE  Inv' /\ LedgerStep
  <2> DEFINE row == NewRow(request[r], "conflict")
  <2>1. row \in Rows /\ row.status = "conflict"
    BY <1>1 DEF NewRow, Rows, Requests
  <2>2. visits' = [visits EXCEPT ![v] = row] /\ Finish(r, v, "conflict")
    BY <1>3 DEF Insert
  <2>3. Inv'
    BY <1>1, <2>1, <2>2, WriteAndFinish
  <2>4. Ledger!Hold(v)
    BY <1>1, <2>1, <2>2, WriteRow DEF Ledger!Hold, Ledger!Answer, Finish
  <2> QED BY <1>1, <2>3, <2>4 DEF LedgerStep, Ledger!Next, Ledger!Handle
<1>4. ASSUME ~Recorded(v), Insert(r, "synced", "stored")
      PROVE  Inv' /\ LedgerStep
  <2> DEFINE row == NewRow(request[r], "synced")
  <2>1. row \in Rows /\ row.status = "synced"
    BY <1>1 DEF NewRow, Rows, Requests
  <2>2. visits' = [visits EXCEPT ![v] = row] /\ Finish(r, v, "stored")
    BY <1>4 DEF Insert
  <2>3. Inv'
    BY <1>1, <2>1, <2>2, WriteAndFinish
  <2>4. Ledger!Store(v)
    BY <1>1, <1>4, <2>1, <2>2, WriteRow DEF Ledger!Store, Ledger!Answer, Finish, Holding
  <2> QED BY <1>1, <2>3, <2>4 DEF LedgerStep, Ledger!Next, Ledger!Handle
<1> QED BY <1>2, <1>3, <1>4

(* A request that found its row at the lookup answers from it or marks it.  *)
LEMMA DuplicateStep ==
    ASSUME Inv, NEW r \in Slots, RepeatVisit(r) \/ MarkExistingVisitConflict(r)
    PROVE  Inv' /\ LedgerStep
<1> DEFINE v == request[r].visit
<1>1. request[r].at # "idle" /\ request[r].found # "none" /\ v \in Visits
  BY Busy DEF Inv, RepeatVisit, MarkExistingVisitConflict, Requests
<1>2. Recorded(v) /\ visits[v] \in Rows
  BY <1>1 DEF Inv, FoundIsRecorded, TypeOK, Recorded
<1>3. CASE RepeatVisit(r)
  <2>1. Inv' /\ Ledger!Repeat(v)
    <3>1. Holding(v) # "absent"
      BY <1>2 DEF Holding, Rows
    <3> QED BY <1>1, <1>3, <3>1, AnswerOnly
            DEF RepeatVisit, RowUnchanged, Ledger!Repeat, Ledger!Answer
  <2> QED BY <1>1, <2>1 DEF LedgerStep, Ledger!Next, Ledger!Handle
<1>4. CASE MarkExistingVisitConflict(r)
  <2> DEFINE row == [visits[v] EXCEPT !.status = "conflict"]
  <2>1. row \in Rows /\ row.status = "conflict"
    BY <1>2 DEF Rows
  <2>2. visits' = [visits EXCEPT ![v] = row] /\ Finish(r, v, "conflict") /\ TurfUnchanged
    BY <1>4 DEF MarkExistingVisitConflict
  <2>3. Inv'
    BY <1>1, <2>1, <2>2, WriteAndFinish
  <2>4. Ledger!Hold(v)
    BY <1>1, <2>1, <2>2, WriteRow DEF Ledger!Hold, Ledger!Answer, Finish
  <2> QED BY <1>1, <2>3, <2>4 DEF LedgerStep, Ledger!Next, Ledger!Handle
<1> QED BY <1>3, <1>4

-----------------------------------------------------------------------------
(* Staff actions, time and the work on the turf. *)
LEMMA ReviewStep ==
    ASSUME Inv, NEW v \in Visits, Review(v)
    PROVE  Inv' /\ LedgerStep
<1>1. ASSUME NEW row \in Rows, Recorded(v),
             visits' = [visits EXCEPT ![v] = row], TurfUnchanged, UNCHANGED <<request, reply>>
      PROVE  Inv'
  <2>1. TypeOK' /\ OpenIsStarted'
    BY <1>1, WriteRow DEF Inv, TypeOK, OpenIsStarted, TurfUnchanged
  <2>2. FoundIsRecorded'
    BY <1>1, WriteRow, Busy DEF Inv, FoundIsRecorded, Requests
  <2> QED BY <2>1, <2>2 DEF Inv
<1>2. CASE ResolveSyncConflict(v)
  <2> DEFINE row == [visits[v] EXCEPT !.status = "synced", !.reviewed = TRUE]
  <2>1. row \in Rows /\ row.status = "synced" /\ Recorded(v)
        /\ visits' = [visits EXCEPT ![v] = row] /\ TurfUnchanged
    BY <1>2 DEF Inv, TypeOK, Rows, ResolveSyncConflict, Held, Recorded
  <2>2. Ledger!Resolve(v)
    <3>1. Holding(v) = "conflict"
      BY <1>2 DEF ResolveSyncConflict, Held, Holding
    <3>2. [w \in Visits |-> Holding(w)]'
            = [[w \in Visits |-> Holding(w)] EXCEPT ![v] = "synced"]
      BY <2>1, WriteRow
    <3> QED BY <1>2, <3>1, <3>2 DEF ResolveSyncConflict, Ledger!Resolve
  <2> QED BY <1>1, <1>2, <2>1, <2>2 DEF ResolveSyncConflict, LedgerStep, Ledger!Next
<1>3. ASSUME NEW row \in Rows, Recorded(v), row.status = visits[v].status,
             visits' = [visits EXCEPT ![v] = row], TurfUnchanged, UNCHANGED <<request, reply>>
      PROVE  Inv' /\ LedgerStep
  <2>1. UNCHANGED [w \in Visits |-> Holding(w)]
    BY <1>3, WriteRow DEF Holding
  <2> QED BY <1>1, <1>3, <2>1 DEF LedgerStep, Ledger!vars
<1>4. CASE CorrectVisit(v)
  <2> DEFINE row == [visits[v] EXCEPT !.corrected = ~@]
  <2>1. row \in Rows /\ row.status = visits[v].status /\ Recorded(v)
        /\ visits' = [visits EXCEPT ![v] = row]
    BY <1>4 DEF Inv, TypeOK, Rows, CorrectVisit, Synced, Recorded
  <2> QED BY <1>3, <1>4, <2>1 DEF CorrectVisit
<1>5. CASE CooldownEnds(v)
  <2> DEFINE row == [visits[v] EXCEPT !.cooling = FALSE]
  <2>1. row \in Rows /\ row.status = visits[v].status
        /\ visits' = [visits EXCEPT ![v] = row]
    BY <1>5 DEF Inv, TypeOK, Rows, CooldownEnds, Recorded
  <2> QED BY <1>3, <1>5, <2>1 DEF CooldownEnds
<1>6. CASE Capture(v)
  <2>1. TypeOK'
    <3>1. PICK s \in {NoSession} \cup {<<Author[v], n>> : n \in 1 .. started[Author[v]]} :
             payload' = [payload EXCEPT ![v] = s]
      BY <1>6 DEF Capture
    <3>2. Author[v] \in Canvassers
      BY AuthorAssumption
    <3>3. started[Author[v]] \in 0 .. MaxSessions
      BY <3>2 DEF Inv, TypeOK
    <3>4. s \in OptionalSession
      BY <3>2, <3>3 DEF OptionalSession, SessionIds
    <3> QED BY <1>6, <3>1, <3>4 DEF Inv, TypeOK, Capture
  <2> QED BY <1>6, <2>1 DEF Inv, Capture, FoundIsRecorded, OpenIsStarted, Recorded,
             LedgerStep, Ledger!vars, Holding
<1> QED BY <1>2, <1>4, <1>5, <1>6 DEF Review

LEMMA TurfWorkStep ==
    ASSUME Inv, NEW c \in Canvassers, TurfWork(c)
    PROVE  Inv' /\ LedgerStep
<1>1. UNCHANGED <<visits, request, reply, payload>>
  BY DEF TurfWork, Reassign, StartSession, CompleteSession
<1>2. TypeOK' /\ OpenIsStarted'
  BY DEF Inv, TypeOK, OpenIsStarted, TurfWork, Reassign, StartSession, CompleteSession
<1> QED BY <1>1, <1>2 DEF Inv, FoundIsRecorded, Recorded, LedgerStep, Ledger!vars, Holding

LEMMA NextStep ==
    ASSUME Inv, [Next]_vars
    PROVE  Inv' /\ LedgerStep
<1>1. CASE UNCHANGED vars
  BY <1>1 DEF vars, Inv, TypeOK, FoundIsRecorded, OpenIsStarted, Recorded,
              LedgerStep, Ledger!vars, Holding
<1>2. ASSUME NEW r \in Slots, LogVisit(r) PROVE Inv' /\ LedgerStep
  <2>1. ASSUME NEW v \in Visits, NEW c \in Posters[v], Begin(r, v, c)
        PROVE  Inv' /\ LedgerStep
    BY <2>1, BeginStep, PostersAssumption
  <2>2. CASE CreateConflictVisit(r) \/ CreateVisit(r)
    BY <2>2, InsertStep DEF CreateConflictVisit, CreateVisit
  <2> QED BY <1>2, <2>1, <2>2, LookupStep, CheckStep, SessionStep, DuplicateStep
          DEF LogVisit
<1> QED BY <1>1, <1>2, ReviewStep, TurfWorkStep DEF Next

-----------------------------------------------------------------------------
(* Every column and every request in progress has its type.                *)
THEOREM TypeCorrect == Spec => []TypeOK
<1>1. Inv /\ [Next]_vars => Inv'
  BY NextStep
<1>2. Inv => TypeOK
  BY DEF Inv
<1> QED BY InitInv, <1>1, <1>2, PTL DEF Spec

(* logVisit with the review actions implements the ledger: whatever the    *)
(* interleaving, a visit is recorded at most once, never lost, and         *)
(* acknowledged only when recorded.                                        *)
THEOREM LogVisitKeepsThePromise == Spec => ImplementsLedger
<1>1. Init => Ledger!Init
  BY DEF Init, Ledger!Init, Holding, Recorded
<1>2. Inv /\ [Next]_vars => Inv' /\ [Ledger!Next]_(Ledger!vars)
  BY NextStep DEF LedgerStep
<1> QED BY InitInv, <1>1, <1>2, PTL DEF Spec, ImplementsLedger, Ledger!Spec

(* The promise itself, of any ledger that keeps to the actions of          *)
(* VisitLedger, and so of logVisit.                                        *)
Promised == Ledger!TypeOK /\ Ledger!AcknowledgedIsRecorded

LEMMA InitPromised == Ledger!Init => Promised
BY DEF Ledger!Init, Promised, Ledger!TypeOK, Ledger!AcknowledgedIsRecorded, Ledger!Holdings, Ledger!Replies

\* An acknowledgement is given by the step that records the visit or for a
\* recorded one, and no step takes a visit off the record.
LEMMA ActionPromised ==
    ASSUME Promised, NEW v \in Visits, Ledger!Handle(v) \/ Ledger!Resolve(v)
    PROVE  Promised' /\ Ledger!StaysRecorded
<1> USE DEF Promised, Ledger!TypeOK, Ledger!AcknowledgedIsRecorded, Ledger!Holdings, Ledger!Replies,
            Ledger!Answer, Ledger!StaysRecorded
<1>1. CASE Ledger!Store(v)
  BY <1>1 DEF Ledger!Store
<1>2. CASE Ledger!Repeat(v)
  BY <1>2 DEF Ledger!Repeat
<1>3. CASE Ledger!Hold(v)
  BY <1>3 DEF Ledger!Hold
<1>4. CASE Ledger!Refuse(v)
  BY <1>4 DEF Ledger!Refuse
<1>5. CASE Ledger!Resolve(v)
  BY <1>5 DEF Ledger!Resolve
<1> QED BY <1>1, <1>2, <1>3, <1>4, <1>5 DEF Ledger!Handle

LEMMA StepPromised ==
    ASSUME Promised, [Ledger!Next]_(Ledger!vars)
    PROVE  Promised' /\ [Ledger!StaysRecorded]_(Ledger!vars)
<1>1. CASE UNCHANGED Ledger!vars
  BY <1>1 DEF Ledger!vars, Promised, Ledger!TypeOK, Ledger!AcknowledgedIsRecorded
<1>2. CASE Ledger!Next
  BY <1>2, ActionPromised DEF Ledger!Next
<1> QED BY <1>1, <1>2

(* A visit a device was told is stored or held is on record.               *)
THEOREM Acknowledged == Spec => []Ledger!AcknowledgedIsRecorded
<1>1. Promised /\ [Ledger!Next]_(Ledger!vars) => Promised'
  BY StepPromised
<1>2. Promised => Ledger!AcknowledgedIsRecorded
  BY DEF Promised
<1> QED BY LogVisitKeepsThePromise, InitPromised, <1>1, <1>2, PTL DEF ImplementsLedger, Ledger!Spec

(* No visit ever leaves the record.                                        *)
THEOREM Kept == Spec => Ledger!RecordsAreKept
<1>1. Promised /\ [Ledger!Next]_(Ledger!vars) => Promised'
  BY StepPromised
<1>2. Promised /\ [Ledger!Next]_(Ledger!vars)
        => [Ledger!StaysRecorded]_(Ledger!vars)
  BY StepPromised
<1> QED BY LogVisitKeepsThePromise, InitPromised, <1>1, <1>2, PTL
        DEF ImplementsLedger, Ledger!Spec, Ledger!RecordsAreKept

(* No step hands a recorded visit to another canvasser or session.         *)
THEOREM Attribution == Spec => WorkStaysAttributed
<1>1. Inv /\ [Next]_vars
        => [\A v \in Visits : Recorded(v) =>
               /\ visits'[v] # NoVisit
               /\ visits'[v].by = visits[v].by
               /\ visits'[v].session = visits[v].session]_vars
  <2> SUFFICES ASSUME Inv, Next, NEW v \in Visits, Recorded(v)
               PROVE  /\ visits'[v] # NoVisit
                      /\ visits'[v].by = visits[v].by
                      /\ visits'[v].session = visits[v].session
    OBVIOUS
  <2> DEFINE Same == /\ visits'[v] # NoVisit
                     /\ visits'[v].by = visits[v].by
                     /\ visits'[v].session = visits[v].session
  <2>1. visits[v] \in Rows
    BY DEF Inv, TypeOK, Recorded
  <2>2. ASSUME visits'[v] \in {visits[v], [visits[v] EXCEPT !.status = "conflict"],
                               [visits[v] EXCEPT !.status = "synced", !.reviewed = TRUE],
                               [visits[v] EXCEPT !.corrected = ~@],
                               [visits[v] EXCEPT !.cooling = FALSE]}
        PROVE  Same
    <3>1. visits'[v] \in Rows
      BY <2>1, <2>2 DEF Rows
    <3> QED BY <2>1, <2>2, <3>1 DEF Rows
  <2>3. ASSUME NEW r \in Slots, LogVisit(r) PROVE Same
    <3>1. CASE CreateConflictVisit(r) \/ CreateVisit(r)
      <4>1. CASE Recorded(request[r].visit)
        BY <3>1, <4>1, <2>2 DEF CreateConflictVisit, CreateVisit, Insert, RowUnchanged
      <4>2. CASE ~Recorded(request[r].visit)
        <5>1. request[r].visit # v
          BY <4>2
        <5>2. \E row : visits' = [visits EXCEPT ![request[r].visit] = row]
          BY <3>1, <4>2 DEF CreateConflictVisit, CreateVisit, Insert
        <5>3. visits'[v] = visits[v]
          BY <5>1, <5>2 DEF Inv, TypeOK
        <5> QED BY <5>3, <2>2
      <4> QED BY <4>1, <4>2
    <3>2. CASE MarkExistingVisitConflict(r)
      BY <3>2, <2>1, <2>2 DEF MarkExistingVisitConflict, Inv, TypeOK
    <3>3. CASE UNCHANGED visits
      BY <3>3, <2>2
    <3> QED BY <2>3, <3>1, <3>2, <3>3
            DEF LogVisit, Begin, Lookup, RejectContent, CheckAttempts, CheckCooldown,
                CheckAssignment, CheckSession, RepeatVisit, RowUnchanged
  <2>4. ASSUME NEW w \in Visits, Review(w) PROVE Same
    BY <2>4, <2>2 DEF Review, ResolveSyncConflict, CorrectVisit, CooldownEnds, Capture,
                      Inv, TypeOK
  <2>5. ASSUME NEW c \in Canvassers, TurfWork(c) PROVE Same
    BY <2>5, <2>2 DEF TurfWork, Reassign, StartSession, CompleteSession
  <2> QED BY <2>3, <2>4, <2>5 DEF Next
<1>2. Inv /\ [Next]_vars => Inv'
  BY NextStep
<1> QED BY InitInv, <1>1, <1>2, PTL DEF Spec, WorkStaysAttributed

-----------------------------------------------------------------------------
(* One request at a time.  The limits are checked against rows and the     *)
(* visit is inserted later: what a check established must still be so when *)
(* the row is written, although staff clear, correct and age visits        *)
(* meanwhile.  Nothing they do adds a visit that counts unreviewed.        *)

Counts(v) == Synced(v) /\ ~visits[v].reviewed
CountedAt(h) == {v \in AttemptsAt(h) : ~visits[v].reviewed}

\* Rows are only ever added one by one, so that they can be counted.
FinitelyRecorded == IsFiniteSet({v \in Visits : Recorded(v)})

\* What the stages a request has passed established.
Room(q) == q.at \in {"cooldown", "assignment", "session", "store"}
           => Cardinality(CountedAt(Target[q.visit])) < MaxAttempts
Apart(q) == q.at \in {"assignment", "session", "store"}
            => \A v \in CountedAt(Target[q.visit]) : visits[v].by = q.by => ~visits[v].cooling
Known(q) == q.at # "idle" /\ q.found # "none" => Synced(q.visit)

Established == \A r \in Slots : Room(request[r]) /\ Apart(request[r]) /\ Known(request[r])

SerialInv == Inv /\ FinitelyRecorded /\ AttemptsCapped /\ CooldownKept /\ Established

LEMMA InitSerial == Init => SerialInv
<1> SUFFICES ASSUME Init PROVE SerialInv
  OBVIOUS
<1>1. \A v \in Visits : ~Recorded(v)
  BY DEF Init, Recorded
<1>2. {v \in Visits : Recorded(v)} = {} /\ \A h \in Households : CountedAt(h) = {}
  BY <1>1 DEF CountedAt, AttemptsAt, Synced
<1>3. FinitelyRecorded
  BY <1>2, FS_EmptySet DEF FinitelyRecorded
<1>4. AttemptsCapped
  BY <1>2, FS_EmptySet, MaxAttemptsAssumption DEF AttemptsCapped, CountedAt
<1>5. CooldownKept
  BY <1>1 DEF CooldownKept, Synced
<1>6. Established
  BY DEF Init, Established, Room, Apart, Known, Idle
<1> QED BY InitInv, <1>3, <1>4, <1>5, <1>6 DEF SerialInv

\* What counts at a household is some of what is recorded, so it is finite.
LEMMA CountedFinite ==
    ASSUME FinitelyRecorded, NEW h
    PROVE  /\ IsFiniteSet(CountedAt(h)) /\ CountedAt(h) \subseteq AttemptsAt(h)
           /\ IsFiniteSet(AttemptsAt(h))
<1>1. CountedAt(h) \subseteq AttemptsAt(h)
  BY DEF CountedAt
<1>2. AttemptsAt(h) \subseteq {v \in Visits : Recorded(v)}
  BY DEF AttemptsAt, Synced
<1>3. IsFiniteSet(AttemptsAt(h))
  BY <1>2, FS_Subset DEF FinitelyRecorded
<1> QED BY <1>1, <1>3, FS_Subset

\* The visits that count, and those of them that are cooling down, become fewer.
Eases == \A v \in Visits :
    Counts(v)' => /\ Counts(v) /\ visits'[v].by = visits[v].by
                  /\ visits'[v].cooling => visits[v].cooling

LEMMA Easing ==
    ASSUME SerialInv, Eases
    PROVE  /\ AttemptsCapped' /\ CooldownKept'
           /\ \A q : (Room(q) => Room(q)') /\ (Apart(q) => Apart(q)')
<1>1. ASSUME NEW h
      PROVE  /\ CountedAt(h)' \subseteq CountedAt(h)
             /\ Cardinality(CountedAt(h)') \in Nat /\ Cardinality(CountedAt(h)) \in Nat
             /\ Cardinality(CountedAt(h)') <= Cardinality(CountedAt(h))
  <2>1. CountedAt(h)' \subseteq CountedAt(h)
    BY DEF Eases, CountedAt, AttemptsAt, Counts
  <2>2. IsFiniteSet(CountedAt(h))
    BY CountedFinite DEF SerialInv
  <2> QED BY <2>1, <2>2, FS_Subset, FS_CardinalityType
<1>2. AttemptsCapped'
  <2>1. \A h \in Households : Cardinality(CountedAt(h)) <= MaxAttempts
    BY DEF SerialInv, AttemptsCapped, CountedAt
  <2>2. \A h \in Households : Cardinality(CountedAt(h)') <= MaxAttempts
    BY <1>1, <2>1, MaxAttemptsAssumption
  <2> QED BY <2>2 DEF AttemptsCapped, CountedAt
<1>3. CooldownKept'
  BY DEF SerialInv, CooldownKept, Eases, Counts
<1>4. ASSUME NEW q, Room(q) PROVE Room(q)'
  <2> SUFFICES ASSUME q.at \in {"cooldown", "assignment", "session", "store"}
               PROVE  Cardinality(CountedAt(Target[q.visit]))' < MaxAttempts
    BY DEF Room
  <2>1. Cardinality(CountedAt(Target[q.visit])) < MaxAttempts
    BY <1>4 DEF Room
  <2> QED BY <1>1, <2>1, MaxAttemptsAssumption
<1>5. ASSUME NEW q, Apart(q) PROVE Apart(q)'
  BY <1>1, <1>5 DEF Apart, Eases, CountedAt, AttemptsAt, Counts
<1> QED BY <1>2, <1>3, <1>4, <1>5

LEMMA Establish ==
    ASSUME NEW only, Slots = {only}, NEW q, request'[only] = q, Room(q)', Apart(q)', Known(q)'
    PROVE  Established'
BY DEF Established, Room, Apart, Known

LEMMA Finished ==
    ASSUME NEW only, Slots = {only}, TypeOK, NEW v, NEW answer, Finish(only, v, answer)
    PROVE  Established'
<1>1. request'[only] = Idle
  BY DEF TypeOK, Finish
<1> QED BY <1>1 DEF Established, Room, Apart, Known, Idle

\* A step that writes no row leaves what was established for a request with
\* the same visit and canvasser.
LEMMA RowsUnchanged ==
    ASSUME SerialInv, UNCHANGED visits
    PROVE  Eases /\ \A q : Known(q) <=> Known(q)'
BY DEF Eases, Counts, Synced, Recorded, Known

\* The request of the only slot with its stage advanced.
LEMMA Advanced ==
    ASSUME SerialInv, NEW r \in Slots, request[r].at # "idle", NEW stage \in Stages, Advance(r, stage)
    PROVE  \E q \in Requests : /\ request'[r] = q /\ q.at = stage
                               /\ q.visit = request[r].visit /\ q.by = request[r].by
                               /\ q.found = request[r].found
<1> DEFINE q == [request[r] EXCEPT !.at = stage]
<1>1. request[r] \in Requests /\ request \in [Slots -> Requests \cup {Idle}]
  BY Busy DEF SerialInv, Inv, TypeOK
<1>2. request'[r] = q
  BY <1>1 DEF Advance
<1>3. q \in Requests /\ q.at = stage /\ q.visit = request[r].visit /\ q.by = request[r].by
      /\ q.found = request[r].found
  BY <1>1 DEF Requests
<1> QED BY <1>2, <1>3

\* The check of the attempts makes room: reviewed visits only add to what it counts.
LEMMA UnderLimit ==
    ASSUME FinitelyRecorded, NEW h, ~AtLimit(h)
    PROVE  Cardinality(CountedAt(h)) < MaxAttempts
<1>1. Cardinality(CountedAt(h)) <= Cardinality(AttemptsAt(h))
      /\ Cardinality(CountedAt(h)) \in Nat /\ Cardinality(AttemptsAt(h)) \in Nat
  BY CountedFinite, FS_Subset, FS_CardinalityType
<1> QED BY <1>1, MaxAttemptsAssumption DEF AtLimit

LEMMA HandlerStep ==
    ASSUME NEW only, Slots = {only}, SerialInv, UNCHANGED visits,
           \/ \E v \in Visits : \E c \in Posters[v] : Begin(only, v, c)
           \/ Lookup(only) \/ RejectContent(only) \/ CheckAttempts(only) \/ CheckCooldown(only)
           \/ CheckAssignment(only) \/ CheckSession(only)
    PROVE  Established'
<1> DEFINE old == request[only]
<1>1. TypeOK /\ only \in Slots /\ request \in [Slots -> Requests \cup {Idle}]
  BY DEF SerialInv, Inv, TypeOK
<1>2. Room(old) /\ Apart(old) /\ Known(old)
  BY DEF SerialInv, Established
<1>3. ASSUME NEW q \in Requests, request'[only] = q,
             q.visit = old.visit, q.by = old.by, q.found = old.found, old.at # "idle",
             q.at \in {"cooldown", "assignment", "session", "store"}
               => Cardinality(CountedAt(Target[old.visit])) < MaxAttempts,
             q.at \in {"assignment", "session", "store"}
               => \A v \in CountedAt(Target[old.visit]) : visits[v].by = old.by => ~visits[v].cooling
      PROVE  Established'
  <2>1. Room(q) /\ Apart(q) /\ Known(q)
    BY <1>2, <1>3 DEF Room, Apart, Known
  <2>2. Room(q)' /\ Apart(q)' /\ Known(q)'
    BY <2>1, Easing, RowsUnchanged
  <2> QED BY <1>3, <2>2, Establish
<1>4. CASE \E v \in Visits : \E c \in Posters[v] : Begin(only, v, c)
  <2>1. PICK v \in Visits : \E c \in Posters[v] : Begin(only, v, c)
    BY <1>4
  <2>0. PICK c \in Posters[v] : Begin(only, v, c)
    BY <2>1
  <2>2. PICK q : q = [at |-> "lookup", visit |-> v, by |-> c, found |-> "none", session |-> payload[v]]
    OBVIOUS
  <2>3. request'[only] = q
    BY <1>1, <2>0, <2>2 DEF Begin
  <2>4. Room(q)' /\ Apart(q)' /\ Known(q)'
    BY <2>2 DEF Room, Apart, Known
  <2> QED BY <2>3, <2>4, Establish
<1>5. CASE Lookup(only)
  <2>1. CASE KnownConflict(old.visit)
    BY <1>1, <1>5, <2>1, Finished DEF Lookup
  <2>2. CASE ~KnownConflict(old.visit)
    <3>1. old \in Requests /\ old.visit \in Visits
      BY <1>1, <1>5, Busy DEF Lookup, Requests
    <3>2. PICK q : q = [old EXCEPT !.at = "attempts", !.found = Outcome(old.visit)]
      OBVIOUS
    <3>3. request'[only] = q
      BY <1>1, <1>5, <2>2, <3>2 DEF Lookup
    <3>4. q.at = "attempts" /\ q.visit = old.visit /\ q.found = Outcome(old.visit)
      BY <3>1, <3>2 DEF Requests
    <3>5. Outcome(old.visit) # "none" => Synced(old.visit)
      BY <1>1, <2>2, <3>1 DEF Outcome, KnownConflict, Held, Synced, Recorded, TypeOK, Rows
    <3>6. Known(q)
      BY <3>4, <3>5 DEF Known
    <3>7. Room(q)' /\ Apart(q)' /\ Known(q)'
      BY <3>4, <3>6, RowsUnchanged DEF Room, Apart
    <3> QED BY <3>3, <3>7, Establish
  <2> QED BY <2>1, <2>2
<1>6. CASE RejectContent(only)
  BY <1>1, <1>6, Finished DEF RejectContent
<1>7. CASE CheckAttempts(only)
  <2>1. CASE AtLimit(Target[old.visit])
    BY <1>1, <1>7, <2>1, Finished DEF CheckAttempts
  <2>2. CASE ~AtLimit(Target[old.visit])
    <3>1. PICK q \in Requests : /\ request'[only] = q /\ q.at = "cooldown"
                                /\ q.visit = old.visit /\ q.by = old.by /\ q.found = old.found
      BY <1>1, <1>7, <2>2, Advanced DEF CheckAttempts, Stages
    <3>2. Cardinality(CountedAt(Target[old.visit])) < MaxAttempts
      BY <2>2, UnderLimit DEF SerialInv
    <3> QED BY <1>3, <1>7, <3>1, <3>2 DEF CheckAttempts
  <2> QED BY <2>1, <2>2
<1>8. CASE CheckCooldown(only)
  <2>1. CASE TooSoon(only)
    BY <1>1, <1>8, <2>1, Finished DEF CheckCooldown
  <2>2. CASE ~TooSoon(only)
    <3>1. PICK q \in Requests : /\ request'[only] = q /\ q.at = "assignment"
                                /\ q.visit = old.visit /\ q.by = old.by /\ q.found = old.found
      BY <1>1, <1>8, <2>2, Advanced DEF CheckCooldown, Stages
    <3>2. \A v \in CountedAt(Target[old.visit]) : visits[v].by = old.by => ~visits[v].cooling
      BY <2>2 DEF TooSoon, InCooldown, CountedAt
    <3> QED BY <1>2, <1>3, <1>8, <3>1, <3>2 DEF CheckCooldown, Room
  <2> QED BY <2>1, <2>2
<1>9. CASE CheckAssignment(only)
  <2>1. PICK q \in Requests : /\ request'[only] = q /\ q.at \in {"session", "held"}
                              /\ q.visit = old.visit /\ q.by = old.by /\ q.found = old.found
    BY <1>1, <1>9, Advanced DEF CheckAssignment, Stages
  <2> QED BY <1>2, <1>3, <1>9, <2>1 DEF CheckAssignment, Room, Apart
<1>10. CASE CheckSession(only)
  <2>1. old \in Requests /\ old.at = "session"
    BY <1>1, <1>10, Busy DEF CheckSession
  <2>2. PICK q \in Requests : /\ request'[only] = q
                              /\ q.visit = old.visit /\ q.by = old.by /\ q.found = old.found
    <3>1. CASE old.session = NoSession
      <4> DEFINE q == [old EXCEPT !.at = "store", !.session = OpenSession(old.by)]
      <4>1. request'[only] = q
        BY <1>1, <1>10, <3>1 DEF CheckSession
      <4>2. q \in Requests /\ q.visit = old.visit /\ q.by = old.by /\ q.found = old.found
        BY <2>1, OpenSessionType DEF Requests, Stages, SerialInv
      <4> QED BY <4>1, <4>2
    <3>2. CASE old.session # NoSession
      BY <1>1, <1>10, <3>2, Advanced DEF CheckSession, Stages
    <3> QED BY <3>1, <3>2
  <2> QED BY <1>2, <1>3, <2>1, <2>2 DEF Room, Apart
<1> QED BY <1>4, <1>5, <1>6, <1>7, <1>8, <1>9, <1>10

\* Every step writes at most one row.
LEMMA OneRow ==
    ASSUME Inv, Next
    PROVE  \/ UNCHANGED visits
           \/ \E v, row : visits' = [visits EXCEPT ![v] = row]
<1>1. ASSUME NEW r \in Slots, LogVisit(r)
      PROVE  UNCHANGED visits \/ \E v, row : visits' = [visits EXCEPT ![v] = row]
  BY <1>1 DEF LogVisit, Begin, Lookup, RejectContent, CheckAttempts, CheckCooldown, CheckAssignment,
     CheckSession, RepeatVisit, MarkExistingVisitConflict, CreateConflictVisit, CreateVisit, Insert,
     RowUnchanged
<1>2. ASSUME NEW v \in Visits, Review(v)
      PROVE  UNCHANGED visits \/ \E w, row : visits' = [visits EXCEPT ![w] = row]
  BY <1>2 DEF Review, ResolveSyncConflict, CorrectVisit, CooldownEnds, Capture
<1>3. ASSUME NEW c \in Canvassers, TurfWork(c)
      PROVE  UNCHANGED visits
  BY <1>3 DEF TurfWork, Reassign, StartSession, CompleteSession
<1> QED BY <1>1, <1>2, <1>3 DEF Next

LEMMA StaysFinite == Inv /\ FinitelyRecorded /\ [Next]_vars => FinitelyRecorded'
<1> SUFFICES ASSUME Inv, FinitelyRecorded, [Next]_vars PROVE FinitelyRecorded'
  OBVIOUS
<1>1. UNCHANGED visits \/ \E v, row : visits' = [visits EXCEPT ![v] = row]
  BY OneRow DEF vars
<1>2. \E v : {w \in Visits : Recorded(w)}' \subseteq {w \in Visits : Recorded(w)} \cup {v}
  BY <1>1 DEF Recorded, Inv, TypeOK
<1> QED BY <1>2, FS_AddElement, FS_Subset DEF FinitelyRecorded

(* A visit is stored only while there is room for it and none of its       *)
(* canvasser's visits there is cooling down.                               *)
LEMMA StoreStep ==
    ASSUME SerialInv, NEW only, Slots = {only}, request[only].at = "store",
           NEW row \in Rows, row.by = request[only].by,
           visits' = [visits EXCEPT ![request[only].visit] = row]
    PROVE  AttemptsCapped' /\ CooldownKept'
<1> DEFINE v == request[only].visit
           h == Target[v]
<1>1. /\ v \in Visits /\ visits \in [Visits -> Rows \cup {NoVisit}]
      /\ Room(request[only]) /\ Apart(request[only])
  BY Busy DEF SerialInv, Inv, TypeOK, Requests, Established
<1>2. visits'[v] = row /\ \A w \in Visits \ {v} : visits'[w] = visits[w]
  BY <1>1
<1>3. Cardinality(CountedAt(h)) < MaxAttempts
  BY <1>1 DEF Room
<1>4. \A w \in CountedAt(h) : visits[w].by = row.by => ~visits[w].cooling
  BY <1>1 DEF Apart
<1> HIDE DEF v
<1>5. AttemptsCapped'
  <2> SUFFICES ASSUME NEW g \in Households
               PROVE  Cardinality(CountedAt(g)') <= MaxAttempts
    BY DEF AttemptsCapped, CountedAt
  <2>1. /\ IsFiniteSet(CountedAt(g)) /\ Cardinality(CountedAt(g)) \in Nat
        /\ Cardinality(CountedAt(g)) <= MaxAttempts
    BY CountedFinite, FS_CardinalityType DEF SerialInv, AttemptsCapped, CountedAt
  <2>2. CASE g = h
    <3>1. CountedAt(g)' \subseteq CountedAt(g) \cup {v}
      BY <1>2 DEF CountedAt, AttemptsAt, Synced, Recorded
    <3>2. /\ IsFiniteSet(CountedAt(g) \cup {v})
          /\ Cardinality(CountedAt(g) \cup {v}) <= Cardinality(CountedAt(g)) + 1
          /\ Cardinality(CountedAt(g) \cup {v}) \in Nat
      <4>1. /\ IsFiniteSet(CountedAt(g) \cup {v})
            /\ \/ Cardinality(CountedAt(g) \cup {v}) = Cardinality(CountedAt(g))
               \/ Cardinality(CountedAt(g) \cup {v}) = Cardinality(CountedAt(g)) + 1
        BY <2>1, FS_AddElement
      <4> QED BY <2>1, <4>1
    <3>3. /\ Cardinality(CountedAt(g)') <= Cardinality(CountedAt(g) \cup {v})
          /\ Cardinality(CountedAt(g)') \in Nat
      BY <3>1, <3>2, FS_Subset, FS_CardinalityType
    <3>4. Cardinality(CountedAt(g)) < MaxAttempts
      BY <1>3, <2>2
    <3> HIDE DEF h
    <3> QED BY <2>1, <3>2, <3>3, <3>4, MaxAttemptsAssumption
  <2>3. CASE g # h
    <3>1. CountedAt(g)' \subseteq CountedAt(g)
      BY <1>1, <1>2, <2>3 DEF CountedAt, AttemptsAt, Synced, Recorded
    <3>2. Cardinality(CountedAt(g)') <= Cardinality(CountedAt(g)) /\ Cardinality(CountedAt(g)') \in Nat
      BY <2>1, <3>1, FS_Subset, FS_CardinalityType
    <3> QED BY <2>1, <3>2, MaxAttemptsAssumption
  <2> QED BY <2>2, <2>3
<1>6. CooldownKept'
  <2> SUFFICES ASSUME NEW w \in Visits, NEW x \in Visits, w # x, Target[w] = Target[x],
                      Synced(w)', Synced(x)', ~visits'[w].reviewed, ~visits'[x].reviewed,
                      visits'[w].cooling, visits'[x].cooling,
                      visits'[w].by = visits'[x].by
               PROVE  FALSE
    BY DEF CooldownKept
  <2>1. ASSUME NEW u \in Visits \ {v}, Target[u] = h, Synced(u)', ~visits'[u].reviewed,
               visits'[u].cooling, visits'[u].by = row.by
        PROVE  FALSE
    <3>1. u \in CountedAt(h)
      BY <1>2, <2>1 DEF CountedAt, AttemptsAt, Synced, Recorded
    <3> QED BY <1>2, <1>4, <2>1, <3>1
  <2>2. CASE w = v
    BY <1>2, <2>1, <2>2
  <2>3. CASE x = v
    BY <1>2, <2>1, <2>3
  <2>4. CASE w # v /\ x # v
    BY <1>2, <2>4 DEF SerialInv, CooldownKept, Synced, Recorded
  <2> QED BY <2>2, <2>3, <2>4
<1> QED BY <1>5, <1>6

LEMMA StepSerial ==
    ASSUME NEW only, Slots = {only}
    PROVE  SerialInv /\ [Next]_vars => SerialInv'
<1> SUFFICES ASSUME SerialInv, [Next]_vars PROVE SerialInv'
  OBVIOUS
<1>1. Inv' /\ FinitelyRecorded'
  BY NextStep, StaysFinite DEF SerialInv
<1>2. ASSUME Eases, Established' PROVE SerialInv'
  BY <1>1, <1>2, Easing DEF SerialInv
<1>3. ASSUME UNCHANGED request, Eases, \A v \in Visits : Synced(v) => Synced(v)' PROVE SerialInv'
  <2>1. \A r \in Slots : request[r] \in Requests \cup {Idle}
    BY DEF SerialInv, Inv, TypeOK
  <2>2. PICK q : request[only] = q
    OBVIOUS
  <2>3. Known(q)'
    BY <1>3, <2>1, <2>2 DEF SerialInv, Established, Known, Requests, Idle
  <2>4. Room(q)' /\ Apart(q)'
    BY <1>3, <2>2, Easing DEF SerialInv, Established
  <2>5. Established'
    BY <1>3, <2>2, <2>3, <2>4, Establish
  <2> QED BY <1>2, <1>3, <2>5
<1>4. ASSUME UNCHANGED <<visits, request>> PROVE SerialInv'
  BY <1>3, <1>4, RowsUnchanged DEF Synced, Recorded
<1>5. ASSUME LogVisit(only) PROVE SerialInv'
  <2> DEFINE v == request[only].visit
  <2>0. TypeOK
    BY DEF SerialInv, Inv
  <2>1. CASE UNCHANGED visits /\ ~RepeatVisit(only) /\ ~CreateVisit(only) /\ ~CreateConflictVisit(only)
             /\ ~MarkExistingVisitConflict(only)
    BY <1>2, <1>5, <2>1, HandlerStep, RowsUnchanged DEF LogVisit
  <2>2. ASSUME NEW answer, Finish(only, v, answer), UNCHANGED visits PROVE SerialInv'
    BY <1>2, <2>0, <2>2, Finished, RowsUnchanged
  <2>3. ASSUME NEW answer, Finish(only, v, answer), NEW row \in Rows,
               row.status = "conflict", visits' = [visits EXCEPT ![v] = row]
        PROVE  SerialInv'
    <3>1. Eases
      BY <2>0, <2>3 DEF Eases, Counts, Synced, Recorded, TypeOK
    <3> QED BY <1>2, <2>0, <2>3, <3>1, Finished
  <2>4. CASE CreateConflictVisit(only) \/ CreateVisit(only)
    <3>1. request[only] \in Requests
      BY <2>0, <2>4, Busy DEF CreateConflictVisit, CreateVisit
    <3>2. CASE Recorded(v)
      BY <2>2, <2>4, <3>2 DEF CreateConflictVisit, CreateVisit, Insert, RowUnchanged
    <3>3. CASE ~Recorded(v) /\ CreateConflictVisit(only)
      <4> DEFINE row == NewRow(request[only], "conflict")
      <4>1. row \in Rows /\ row.status = "conflict"
        BY <3>1 DEF NewRow, Rows, Requests
      <4>2. visits' = [visits EXCEPT ![v] = row] /\ Finish(only, v, "conflict")
        BY <3>3 DEF CreateConflictVisit, Insert
      <4> HIDE DEF row
      <4> QED BY <2>3, <4>1, <4>2
    <3>4. CASE ~Recorded(v) /\ CreateVisit(only)
      <4> DEFINE row == NewRow(request[only], "synced")
      <4>1. row \in Rows /\ row.by = request[only].by
        BY <3>1 DEF NewRow, Rows, Requests
      <4>2. /\ visits' = [visits EXCEPT ![v] = row] /\ Finish(only, v, "stored")
            /\ request[only].at = "store"
        BY <3>4 DEF CreateVisit, Insert
      <4> HIDE DEF row
      <4>3. AttemptsCapped' /\ CooldownKept'
        BY <4>1, <4>2, StoreStep
      <4>4. Established'
        BY <2>0, <4>2, Finished
      <4> QED BY <1>1, <4>3, <4>4 DEF SerialInv
    <3> QED BY <2>4, <3>2, <3>3, <3>4
  <2>5. CASE RepeatVisit(only)
    BY <2>2, <2>5 DEF RepeatVisit, RowUnchanged
  <2>6. CASE MarkExistingVisitConflict(only)
    <3> DEFINE row == [visits[v] EXCEPT !.status = "conflict"]
    <3>1. visits[v] \in Rows /\ v \in Visits
      BY <2>0, <2>6, Busy DEF MarkExistingVisitConflict, SerialInv, Inv, FoundIsRecorded, Recorded,
         TypeOK, Requests
    <3>2. row \in Rows /\ row.status = "conflict"
      BY <3>1 DEF Rows
    <3>3. visits' = [visits EXCEPT ![v] = row] /\ Finish(only, v, "conflict")
      BY <2>6 DEF MarkExistingVisitConflict
    <3> HIDE DEF row
    <3> QED BY <2>3, <3>2, <3>3
  <2>7. UNCHANGED visits \/ CreateConflictVisit(only) \/ CreateVisit(only) \/ MarkExistingVisitConflict(only)
    BY <1>5 DEF LogVisit, Begin, Lookup, RejectContent, CheckAttempts, CheckCooldown, CheckAssignment,
       CheckSession, RepeatVisit, RowUnchanged
  <2> QED BY <2>1, <2>4, <2>5, <2>6, <2>7
<1>6. ASSUME NEW v \in Visits, Review(v) PROVE SerialInv'
  <2>1. CASE ResolveSyncConflict(v)
    <3>1. visits \in [Visits -> Rows \cup {NoVisit}] /\ visits[v] \in Rows
      BY <2>1 DEF SerialInv, Inv, TypeOK, ResolveSyncConflict, Held, Recorded
    <3>2. /\ visits'[v].reviewed /\ visits'[v].status = "synced" /\ visits'[v] \in Rows
          /\ \A w \in Visits \ {v} : visits'[w] = visits[w]
      BY <2>1, <3>1 DEF ResolveSyncConflict, Rows
    <3>3. Eases /\ \A w \in Visits : Synced(w) => Synced(w)'
      BY <3>2 DEF Eases, Counts, Synced, Recorded
    <3> QED BY <1>3, <2>1, <3>3 DEF ResolveSyncConflict
  <2>2. ASSUME NEW row \in Rows, visits' = [visits EXCEPT ![v] = row], Recorded(v), UNCHANGED request,
               row.status = visits[v].status, row.by = visits[v].by, row.reviewed = visits[v].reviewed,
               row.cooling => visits[v].cooling
        PROVE  SerialInv'
    <3>1. /\ visits'[v] = row /\ \A w \in Visits \ {v} : visits'[w] = visits[w]
      BY <2>2 DEF SerialInv, Inv, TypeOK
    <3>2. Eases /\ \A w \in Visits : Synced(w) => Synced(w)'
      BY <2>2, <3>1 DEF Eases, Counts, Synced, Recorded
    <3> QED BY <1>3, <2>2, <3>2
  <2>3. Recorded(v) => visits[v] \in Rows
    BY DEF SerialInv, Inv, TypeOK, Recorded
  <2>4. CASE CorrectVisit(v)
    <3> DEFINE row == [visits[v] EXCEPT !.corrected = ~@]
    <3>1. Recorded(v) /\ visits' = [visits EXCEPT ![v] = row] /\ UNCHANGED request
      BY <2>4 DEF CorrectVisit, Synced
    <3>2. row \in Rows /\ row.status = visits[v].status /\ row.by = visits[v].by
          /\ row.reviewed = visits[v].reviewed /\ row.cooling = visits[v].cooling
      BY <2>3, <3>1 DEF Rows
    <3> HIDE DEF row
    <3> QED BY <2>2, <3>1, <3>2
  <2>5. CASE CooldownEnds(v)
    <3> DEFINE row == [visits[v] EXCEPT !.cooling = FALSE]
    <3>1. Recorded(v) /\ visits' = [visits EXCEPT ![v] = row] /\ UNCHANGED request
      BY <2>5 DEF CooldownEnds
    <3>2. row \in Rows /\ row.status = visits[v].status /\ row.by = visits[v].by
          /\ row.reviewed = visits[v].reviewed /\ ~row.cooling
      BY <2>3, <3>1 DEF Rows
    <3> HIDE DEF row
    <3> QED BY <2>2, <3>1, <3>2
  <2>6. CASE Capture(v)
    BY <1>4, <2>6 DEF Capture
  <2> QED BY <1>6, <2>1, <2>4, <2>5, <2>6 DEF Review
<1>7. ASSUME NEW c \in Canvassers, TurfWork(c) PROVE SerialInv'
  BY <1>4, <1>7 DEF TurfWork, Reassign, StartSession, CompleteSession
<1> QED BY <1>4, <1>5, <1>6, <1>7 DEF Next, vars

(* A service that handles one visit at a time never lets more visits count *)
(* at a household than the policy allows, reviewed conflicts aside, for    *)
(* any number of visits, households and canvassers.                        *)
THEOREM LimitHolds == ASSUME NEW only, Slots = {only} PROVE Spec => []AttemptsCapped
<1>1. SerialInv => AttemptsCapped
  BY DEF SerialInv
<1> QED BY InitSerial, StepSerial, <1>1, PTL DEF Spec

(* Nor two visits of one canvasser within the cooldown.                    *)
THEOREM CooldownHolds == ASSUME NEW only, Slots = {only} PROVE Spec => []CooldownKept
<1>1. SerialInv => CooldownKept
  BY DEF SerialInv
<1> QED BY InitSerial, StepSerial, <1>1, PTL DEF Spec

(* And it says "stored" only of a visit that counts: a row found at the    *)
(* lookup and not held is still counted when the request is answered.      *)
THEOREM StoredIsCounted == ASSUME NEW only, Slots = {only} PROVE Spec => StoredMeansSynced
<1>1. SerialInv /\ [Next]_vars
        => [\A r \in Slots : /\ request[r] # Idle /\ request'[r] = Idle
                             /\ reply'.answer = "stored"
                             => visits'[request[r].visit].status = "synced"]_vars
  <2> SUFFICES ASSUME SerialInv, Next, request[only] # Idle, request'[only] = Idle,
                      reply'.answer = "stored"
               PROVE  visits'[request[only].visit].status = "synced"
    OBVIOUS
  <2> DEFINE v == request[only].visit
  <2>0. TypeOK /\ request[only] \in Requests
    BY DEF SerialInv, Inv, TypeOK
  <2>1. LogVisit(only)
    <3>1. ~UNCHANGED request
      OBVIOUS
    <3> QED BY <3>1 DEF Next, Review, TurfWork, ResolveSyncConflict, CorrectVisit, CooldownEnds, Capture,
               Reassign, StartSession, CompleteSession
  <2>2. request[only].at # "idle" /\ request \in [Slots -> Requests \cup {Idle}] /\ v \in Visits
    BY <2>0 DEF TypeOK, Requests, Stages
  <2>3. ASSUME NEW answer, answer # "stored", Finish(only, v, answer) PROVE FALSE
    BY <2>3 DEF Finish
  <2>4. ASSUME NEW q, q \in Requests, request'[only] = q PROVE FALSE
    BY <2>4 DEF Requests, Stages, Idle
  <2>5. ASSUME NEW stage \in Stages, Advance(only, stage) PROVE FALSE
    BY <2>2, <2>4, <2>5, Advanced
  <2>6. CASE Lookup(only)
    <3>1. CASE KnownConflict(v)
      BY <2>3, <2>6, <3>1 DEF Lookup
    <3>2. CASE ~KnownConflict(v)
      <4>1. request'[only].at = "attempts"
        BY <2>0, <2>2, <2>6, <3>2 DEF Lookup, Requests
      <4> QED BY <4>1 DEF Idle
    <3> QED BY <3>1, <3>2
  <2>7. CASE RejectContent(only) \/ CheckAttempts(only) \/ CheckCooldown(only) \/ CheckAssignment(only)
    BY <2>3, <2>5, <2>7 DEF RejectContent, CheckAttempts, CheckCooldown, CheckAssignment, Stages
  <2>8. CASE CheckSession(only)
    <3>1. CASE request[only].session = NoSession
      <4>1. request'[only].at = "store"
        BY <2>0, <2>2, <2>8, <3>1 DEF CheckSession, Requests
      <4> QED BY <4>1 DEF Idle
    <3>2. CASE request[only].session # NoSession
      BY <2>5, <2>8, <3>2 DEF CheckSession, Stages
    <3> QED BY <3>1, <3>2
  <2>9. CASE CreateConflictVisit(only) \/ MarkExistingVisitConflict(only)
    BY <2>3, <2>9 DEF CreateConflictVisit, MarkExistingVisitConflict, Insert
  <2>10. CASE CreateVisit(only)
    <3>1. visits' = [visits EXCEPT ![v] = NewRow(request[only], "synced")]
      BY <2>3, <2>10 DEF CreateVisit, Insert
    <3>2. visits'[v] = NewRow(request[only], "synced")
      BY <2>0, <2>2, <3>1 DEF TypeOK
    <3> QED BY <3>2 DEF NewRow
  <2>11. CASE RepeatVisit(only)
    <3>1. Synced(v)
      BY <2>2, <2>11 DEF RepeatVisit, SerialInv, Established, Known
    <3> QED BY <2>11, <3>1 DEF RepeatVisit, RowUnchanged, Synced
  <2>12. CASE \E w \in Visits : \E c \in Posters[w] : Begin(only, w, c)
    BY <2>12 DEF Begin
  <2> QED BY <2>1, <2>6, <2>7, <2>8, <2>9, <2>10, <2>11, <2>12 DEF LogVisit
<1> QED BY InitSerial, StepSerial, <1>1, PTL DEF Spec, StoredMeansSynced
=============================================================================
