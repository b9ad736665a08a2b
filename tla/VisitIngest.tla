----------------------------- MODULE VisitIngest -----------------------------
(***************************************************************************)
(* VisitsService.logVisit (backend/src/visits/visits.service.ts) on the    *)
(* households of one turf, with the staff actions that touch the same      *)
(* rows.  The handler is a sequence of awaited statements outside any      *)
(* transaction: each is a step here, so requests interleave between a read *)
(* and the write that relies on it.  A visit row is keyed by its local     *)
(* record uuid (the device sends the uuid as the idempotency key too);     *)
(* creating a second row for a uuid fails on the unique index.             *)
(*                                                                         *)
(* Time is abstracted to one bit a row: whether the cooldown between two   *)
(* attempts is still running.  Definitions named ...Mutant are plausible   *)
(* bugs in the definition that follows them, used to show that the         *)
(* properties can fail.                                                    *)
(***************************************************************************)
EXTENDS Naturals, FiniteSets

CONSTANTS Visits,          \* local record uuids
          Canvassers,
          Author,          \* the canvasser whose device captured a visit
          Households,
          Target,          \* the household a visit is about
          Slots,           \* requests the service handles at once
          MaxAttempts,     \* policy.maxAttemptsPerHousehold
          NoVisit, NoSession, Uncaptured

ASSUME AuthorAssumption == Author \in [Visits -> Canvassers]
ASSUME TargetAssumption == Target \in [Visits -> Households]
ASSUME MaxAttemptsAssumption == MaxAttempts \in Nat \ {0}

CONSTANTS Posters,         \* the canvassers whose token may post a visit
          MaxSessions      \* bound: sessions a canvasser starts on the turf
ASSUME PostersAssumption == Posters \in [Visits -> SUBSET Canvassers]
ASSUME MaxSessionsAssumption == MaxSessions \in Nat
ASSUME NoSessionAssumption == {NoSession, Uncaptured} \cap (Canvassers \X Nat) = {}

VARIABLES visits,     \* visit_logs rows
          payload,    \* the session each captured submission carries
          request,    \* requests being handled
          reply,      \* the service's last answer
          assigned,   \* canvassers with an open assignment on the turf
          started,    \* sessions each canvasser has started on the turf
          open        \* canvassers whose newest session is open

vars == <<visits, payload, request, reply, assigned, started, open>>

SessionIds == Canvassers \X (1 .. MaxSessions)
OptionalSession == SessionIds \cup {NoSession}

Rows == [by : Canvassers, session : OptionalSession,
         status : {"synced", "conflict"},
         corrected : BOOLEAN,   \* the outcome differs from the one submitted
         reviewed : BOOLEAN,    \* a conflict_resolved event exists
         cooling : BOOLEAN]     \* visitTime is within minMinutesBetweenAttempts

ASSUME NoVisitAssumption == NoVisit \notin Rows

Idle == [at |-> "idle"]
Stages == {"lookup", "attempts", "cooldown", "assignment", "session", "held", "store"}
Requests == [at : Stages, visit : Visits, by : Canvassers,
             found : {"none", "original", "corrected"},
             session : OptionalSession]

TypeOK == /\ visits \in [Visits -> Rows \cup {NoVisit}]
          /\ payload \in [Visits -> OptionalSession \cup {Uncaptured}]
          /\ request \in [Slots -> Requests \cup {Idle}]
          /\ reply \in [visit : Visits,
                       answer : {"none", "stored", "conflict", "refused"}]
          /\ assigned \subseteq Canvassers
          /\ started \in [Canvassers -> 0 .. MaxSessions]
          /\ open \subseteq Canvassers

(* The turf is assigned, nobody has started, nothing is captured.          *)
Init == /\ visits = [v \in Visits |-> NoVisit]
        /\ payload = [v \in Visits |-> Uncaptured]
        /\ request = [r \in Slots |-> Idle]
        /\ reply \in [visit : Visits, answer : {"none"}]
        /\ assigned = Canvassers
        /\ started = [c \in Canvassers |-> 0]
        /\ open = {}

-----------------------------------------------------------------------------
Recorded(v) == visits[v] # NoVisit
Synced(v) == Recorded(v) /\ visits[v].status = "synced"
Held(v) == Recorded(v) /\ visits[v].status = "conflict"

OpenSession(c) == IF c \in open THEN <<c, started[c]>> ELSE NoSession

AttemptsAt(h) == {v \in Visits : Target[v] = h /\ Synced(v)}

(* The newest counted visit of the canvasser decides; it is cooling down   *)
(* when any of them is.                                                    *)
InCooldown(c, h) ==
    \E v \in AttemptsAt(h) : visits[v].by = c /\ visits[v].cooling

Advance(r, stage) == request' = [request EXCEPT ![r].at = stage]
Finish(r, v, answer) == /\ request' = [request EXCEPT ![r] = Idle]
                        /\ reply' = [visit |-> v, answer |-> answer]

RowUnchanged == UNCHANGED visits
TurfUnchanged == UNCHANGED <<payload, assigned, started, open>>

-----------------------------------------------------------------------------
(* A device posts a visit: for the first time, again after a lost answer,  *)
(* or from two places at once; the token may be another canvasser's.       *)
Begin(r, v, c) ==
    /\ request[r] = Idle
    /\ payload[v] # Uncaptured
    /\ request' = [request EXCEPT ![r] =
           [at |-> "lookup", visit |-> v, by |-> c,
            found |-> "none", session |-> payload[v]]]
    /\ UNCHANGED <<visits, reply>> /\ TurfUnchanged

(* findUnique by localRecordUuid and idempotencyKey; a held row answers    *)
(* 409 at once.                                                            *)
KnownConflictMutant(v) == FALSE
KnownConflict(v) == Held(v)

Outcome(v) == IF ~Recorded(v) THEN "none"
              ELSE IF visits[v].corrected THEN "corrected" ELSE "original"

Lookup(r) ==
    /\ request[r].at = "lookup"
    /\ LET v == request[r].visit IN
       IF KnownConflict(v)
       THEN Finish(r, v, "conflict")
       ELSE /\ request' = [request EXCEPT ![r].at = "attempts",
                                          ![r].found = Outcome(v)]
            /\ UNCHANGED reply
    /\ RowUnchanged /\ TurfUnchanged

(* The household, the outcome or the required note is not accepted.        *)
RejectContent(r) ==
    /\ request[r].at = "attempts"
    /\ Finish(r, request[r].visit, "refused")
    /\ RowUnchanged /\ TurfUnchanged

(* visitLog.count: conflict rows are not attempts. *)
AtLimitMutant(h) == Cardinality(AttemptsAt(h)) > MaxAttempts
AtLimit(h) == Cardinality(AttemptsAt(h)) >= MaxAttempts

CheckAttempts(r) ==
    /\ request[r].at = "attempts"
    /\ IF AtLimit(Target[request[r].visit])
       THEN Finish(r, request[r].visit, "refused")
       ELSE Advance(r, "cooldown") /\ UNCHANGED reply
    /\ RowUnchanged /\ TurfUnchanged

TooSoonMutant(r) == FALSE
TooSoon(r) == InCooldown(request[r].by, Target[request[r].visit])

CheckCooldown(r) ==
    /\ request[r].at = "cooldown"
    /\ IF TooSoon(r)
       THEN Finish(r, request[r].visit, "refused")
       ELSE Advance(r, "assignment") /\ UNCHANGED reply
    /\ RowUnchanged /\ TurfUnchanged

CheckAssignment(r) ==
    /\ request[r].at = "assignment"
    /\ Advance(r, IF request[r].by \in assigned THEN "session" ELSE "held")
    /\ UNCHANGED reply /\ RowUnchanged /\ TurfUnchanged

(* A session id must be one of the caller's on this turf, ended or not;    *)
(* without one the caller's open session is used.                          *)
OwnSession(c, s) == s \in {<<c, n>> : n \in 1 .. started[c]}

CheckSession(r) ==
    /\ request[r].at = "session"
    /\ LET q == request[r] IN
       IF q.session = NoSession
       THEN request' = [request EXCEPT ![r].at = "store",
                                       ![r].session = OpenSession(q.by)]
       ELSE Advance(r, IF OwnSession(q.by, q.session) THEN "store" ELSE "held")
    /\ UNCHANGED reply /\ RowUnchanged /\ TurfUnchanged

-----------------------------------------------------------------------------
NewRow(q, status) ==
    [by |-> q.by, session |-> q.session, status |-> status,
     corrected |-> FALSE, reviewed |-> FALSE, cooling |-> TRUE]

(* The insert of a row whose uuid exists violates the unique index: 500.   *)
InsertMutant(r, status, answer) ==
    /\ visits' = [visits EXCEPT ![request[r].visit] = NewRow(request[r], status)]
    /\ Finish(r, request[r].visit, answer)
Insert(r, status, answer) ==
    LET v == request[r].visit IN
    IF Recorded(v)
    THEN Finish(r, v, "refused") /\ RowUnchanged
    ELSE /\ visits' = [visits EXCEPT ![v] = NewRow(request[r], status)]
         /\ Finish(r, v, answer)

CreateConflictVisitMutant(r) ==
    /\ request[r].at = "held"
    /\ Finish(r, request[r].visit, "conflict")
    /\ RowUnchanged /\ TurfUnchanged
CreateConflictVisit(r) ==
    /\ request[r].at = "held"
    /\ Insert(r, "conflict", "conflict")
    /\ TurfUnchanged

CreateVisit(r) ==
    /\ request[r].at = "store"
    /\ request[r].found = "none"
    /\ Insert(r, "synced", "stored")
    /\ TurfUnchanged

(* visitMatchesIncomingSubmission, on the row Lookup read: its author and  *)
(* session never change, its outcome may have been corrected since.        *)
SameSubmission(q) ==
    /\ visits[q.visit].by = q.by
    /\ visits[q.visit].session = q.session
    /\ q.found = "original"

RepeatVisit(r) ==
    /\ request[r].at = "store"
    /\ request[r].found # "none"
    /\ SameSubmission(request[r])
    /\ Finish(r, request[r].visit, "stored")
    /\ RowUnchanged /\ TurfUnchanged

MarkExistingVisitConflict(r) ==
    /\ request[r].at = "store"
    /\ request[r].found # "none"
    /\ ~SameSubmission(request[r])
    /\ visits' = [visits EXCEPT ![request[r].visit].status = "conflict"]
    /\ Finish(r, request[r].visit, "conflict")
    /\ TurfUnchanged

-----------------------------------------------------------------------------
(* AdminService.resolveSyncConflict. *)
ResolveSyncConflict(v) ==
    /\ Held(v)
    /\ visits' = [visits EXCEPT ![v].status = "synced", ![v].reviewed = TRUE]
    /\ UNCHANGED <<request, reply>> /\ TurfUnchanged

(* VisitsService.correctVisit: a held row is locked; the new outcome may   *)
(* also be the one first submitted.                                        *)
CorrectVisit(v) ==
    /\ Synced(v)
    /\ visits' = [visits EXCEPT ![v].corrected = ~@]
    /\ UNCHANGED <<request, reply>> /\ TurfUnchanged

(* minMinutesBetweenAttempts have passed since the visit. *)
CooldownEnds(v) ==
    /\ Recorded(v) /\ visits[v].cooling
    /\ visits' = [visits EXCEPT ![v].cooling = FALSE]
    /\ UNCHANGED <<request, reply>> /\ TurfUnchanged

-----------------------------------------------------------------------------
(* What the rest of the system does meanwhile.  The device captures a      *)
(* visit with the session it knows of, possibly none or an ended one.      *)
Capture(v) ==
    /\ payload[v] = Uncaptured
    /\ \E s \in {NoSession} \cup {<<Author[v], n>> : n \in 1 .. started[Author[v]]} :
           payload' = [payload EXCEPT ![v] = s]
    /\ UNCHANGED <<visits, request, reply, assigned, started, open>>

(* The turf is assigned to, or taken from, a canvasser with no open        *)
(* session there.                                                          *)
Reassign(c) ==
    /\ c \notin open
    /\ assigned' \in {assigned \cup {c}, assigned \ {c}} \ {assigned}
    /\ UNCHANGED <<visits, payload, request, reply, started, open>>

StartSession(c) ==
    /\ c \in assigned \ open
    /\ started[c] < MaxSessions
    /\ started' = [started EXCEPT ![c] = @ + 1]
    /\ open' = open \cup {c}
    /\ UNCHANGED <<visits, payload, request, reply, assigned>>

(* Completing ends the session and the canvasser's assignment. *)
CompleteSession(c) ==
    /\ c \in open
    /\ open' = open \ {c}
    /\ assigned' = assigned \ {c}
    /\ UNCHANGED <<visits, payload, request, reply, started>>

-----------------------------------------------------------------------------
LogVisit(r) ==
    \/ \E v \in Visits : \E c \in Posters[v] : Begin(r, v, c)
    \/ Lookup(r) \/ RejectContent(r) \/ CheckAttempts(r) \/ CheckCooldown(r)
    \/ CheckAssignment(r) \/ CheckSession(r) \/ CreateConflictVisit(r)
    \/ CreateVisit(r) \/ RepeatVisit(r) \/ MarkExistingVisitConflict(r)

Review(v) == ResolveSyncConflict(v) \/ CorrectVisit(v) \/ CooldownEnds(v) \/ Capture(v)

TurfWork(c) == Reassign(c) \/ StartSession(c) \/ CompleteSession(c)

Next == \/ \E r \in Slots : LogVisit(r)
        \/ \E v \in Visits : Review(v)
        \/ \E c \in Canvassers : TurfWork(c)

Spec == Init /\ [][Next]_vars

-----------------------------------------------------------------------------
(* The service keeps the promise of VisitLedger, whatever the              *)
(* interleaving: a visit is recorded at most once, is never lost, and is   *)
(* acknowledged only when recorded.                                        *)
Holding(v) == IF Recorded(v) THEN visits[v].status ELSE "absent"
Ledger == INSTANCE VisitLedger WITH ledger <- [v \in Visits |-> Holding(v)]
ImplementsLedger == Ledger!Spec

(* A recorded visit keeps the canvasser and the session it was recorded    *)
(* with, through retries, retries under another token, reassignment and    *)
(* review: "existing work remains attributed to the original canvasser".   *)
WorkStaysAttributed ==
    [][\A v \in Visits : Recorded(v) =>
          /\ visits'[v] # NoVisit
          /\ visits'[v].by = visits[v].by
          /\ visits'[v].session = visits[v].session]_vars

(* Visits that counted when they were sent never exceed the limit for a    *)
(* household; only a reviewed conflict may add to it.                      *)
AttemptsCapped ==
    \A h \in Households :
        Cardinality({v \in AttemptsAt(h) : ~visits[v].reviewed}) <= MaxAttempts

(* Two attempts of one canvasser at one household are at least the         *)
(* cooldown apart, reviewed conflicts aside.                               *)
CooldownKept ==
    \A v, w \in Visits :
        /\ v # w /\ Target[v] = Target[w]
        /\ Synced(v) /\ Synced(w)
        /\ ~visits[v].reviewed /\ ~visits[w].reviewed
        /\ visits[v].cooling /\ visits[w].cooling
        => visits[v].by # visits[w].by

(* The device is told a visit is stored only when it counts: a visit under *)
(* review is never reported as stored.                                     *)
StoredMeansSynced ==
    [][\A r \in Slots :
          /\ request[r] # Idle /\ request'[r] = Idle
          /\ reply'.answer = "stored"
          => visits'[request[r].visit].status = "synced"]_vars

(* A visit sent again under the token it was recorded for is not refused,  *)
(* unless for its content: "same local record sent twice: deduplicate".    *)
RetryIsNotRefused ==
    [][\A r \in Slots :
          /\ request[r].at \notin {"idle", "lookup"}
          /\ request[r].found # "none"
          /\ request[r].by = visits[request[r].visit].by
          /\ request'[r] = Idle
          /\ ~RejectContent(r)
          => reply'.answer # "refused"]_vars

(* Sending a stored visit again does not turn it into a conflict. *)
RetryKeepsTheVisit ==
    [][\A r \in Slots :
          /\ request[r].at = "store"
          /\ Synced(request[r].visit)
          /\ request[r].by = visits[request[r].visit].by
          /\ request'[r] = Idle
          => visits'[request[r].visit].status = "synced"]_vars
=============================================================================
