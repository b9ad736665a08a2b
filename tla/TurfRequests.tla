---------------------------- MODULE TurfRequests ----------------------------
(***************************************************************************)
(* The handlers of turfs.service.ts as the database runs them: interactive *)
(* transactions at Postgres' default isolation, READ COMMITTED, without a  *)
(* lock and without a constraint on open sessions or assignments.  A       *)
(* request first reads (Begin) and later writes and commits (Commit), and  *)
(* other requests commit in between.  Rows read by id are updated by id,   *)
(* whatever happened to them since; updateMany selects again at the write. *)
(*                                                                         *)
(* All reads of a handler are one step and all its writes are another: the *)
(* interleavings inside each are left out, so every behaviour here is one  *)
(* the server can show.                                                    *)
(***************************************************************************)
EXTENDS Naturals, Sequences

CONSTANTS
  Turfs, Canvassers, SharedTurfs,
  Slots,       \* requests the server can have in flight at once
  MaxRows      \* bound: no request that adds a row begins beyond this many

ASSUME TurfRequestsAssumption ==
  /\ SharedTurfs \subseteq Turfs
  /\ MaxRows \in Nat

VARIABLES
  status, deleted, account,   \* as in TurfLifecycle
  assignments,                \* the turf_assignments table, oldest row first
  sessions,                   \* the turf_sessions table, oldest row first
  request                     \* request[s]: what slot s is working on

vars == <<status, deleted, account, assignments, sessions, request>>

TurfOps == {"reopen", "archive", "delete"}
AccountOps == {"archiveUser", "deleteUser"}
WorkOps == {"assign", "start", "pause", "resume", "complete"}
NoRequest == [op |-> "none"]

Rows(table) == DOMAIN table
\* The assignment rows of t to c that are still assigned or active.
OpenAssignments(t, c) ==
  {i \in Rows(assignments) : /\ assignments[i].turf = t
                             /\ assignments[i].canvasser = c
                             /\ assignments[i].status \in {"assigned", "active"}}
\* The sessions of c on t whose endTime is null.
OpenSessions(t, c) ==
  {i \in Rows(sessions) : /\ sessions[i].turf = t
                          /\ sessions[i].canvasser = c
                          /\ sessions[i].open}
OpenSessionsIn(t, c, state) == {i \in OpenSessions(t, c) : sessions[i].status = state}
InUse(t) == \E c \in Canvassers : OpenSessions(t, c) # {}
Newest(rows) == CHOOSE i \in rows : \A j \in rows : j <= i
Scoped(t) == status[t] # "absent" /\ t \notin deleted

Init ==
  /\ status = [t \in Turfs |-> "absent"]
  /\ deleted = {}
  /\ account = [c \in Canvassers |-> "active"]
  /\ assignments = <<>>
  /\ sessions = <<>>
  /\ request = [s \in Slots |-> NoRequest]

----------------------------------------------------------------------------
(* Reads: what each handler checks before its first write, and the rows it *)
(* keeps for later.  A request that fails its checks changes nothing.      *)

NoCrossTurfOpenSession(t, c) == \A u \in Turfs \ {t} : OpenSessions(u, c) = {}

SessionAvailable(t, c) ==
  /\ NoCrossTurfOpenSession(t, c)
  /\ t \in SharedTurfs \/ \A d \in Canvassers \ {c} : OpenSessions(t, d) = {}

Idle(c) == \A t \in Turfs : OpenSessions(t, c) = {} /\ OpenAssignments(t, c) = {}

\* row: the assignment read; session: the session read; 0 where there is none.
Anyone == "-"
Anywhere == "-"
Request(op, t, c, row, sess) ==
  [op |-> op, turf |-> t, canvasser |-> c, row |-> row, session |-> sess]

Send(s, r) ==
  /\ request' = [request EXCEPT ![s] = r]
  /\ UNCHANGED <<status, deleted, account, assignments, sessions>>

BeginTurfOp(s, op, t) ==
  /\ Scoped(t)
  /\ ~InUse(t)
  /\ Send(s, Request(op, t, Anyone, 0, 0))

BeginAccountOp(s, op, c) ==
  /\ account[c] # "deleted"
  /\ Idle(c)
  /\ Send(s, Request(op, Anywhere, c, 0, 0))

BeginAssign(s, t, c) ==
  /\ Len(assignments) < MaxRows
  /\ Scoped(t)
  /\ account[c] = "active"
  /\ NoCrossTurfOpenSession(t, c)
  /\ InUse(t) => OpenSessions(t, c) # {}
  /\ Send(s, Request("assign", t, c, 0, 0))

BeginStart(s, t, c) ==
  /\ Len(sessions) < MaxRows
  /\ SessionAvailable(t, c)
  /\ OpenSessions(t, c) = {}
  /\ \E row \in OpenAssignments(t, c) : Send(s, Request("start", t, c, row, 0))

BeginPause(s, t, c) ==
  /\ OpenSessionsIn(t, c, "active") # {}
  /\ Send(s, Request("pause", t, c, 0, Newest(OpenSessionsIn(t, c, "active"))))

BeginResume(s, t, c) ==
  /\ SessionAvailable(t, c)
  /\ OpenSessionsIn(t, c, "paused") # {}
  /\ \E row \in OpenAssignments(t, c) :
       Send(s, Request("resume", t, c, row, Newest(OpenSessionsIn(t, c, "paused"))))

BeginComplete(s, t, c) ==
  /\ OpenSessions(t, c) # {}
  /\ Send(s, Request("complete", t, c, 0, Newest(OpenSessions(t, c))))

Begin(s) ==
  /\ request[s] = NoRequest
  /\ \/ \E t \in Turfs, op \in TurfOps : BeginTurfOp(s, op, t)
     \/ \E c \in Canvassers, op \in AccountOps : BeginAccountOp(s, op, c)
     \/ \E t \in Turfs, c \in Canvassers :
          \/ BeginAssign(s, t, c)
          \/ BeginStart(s, t, c)
          \/ BeginPause(s, t, c)
          \/ BeginResume(s, t, c)
          \/ BeginComplete(s, t, c)

----------------------------------------------------------------------------
(* Writes. *)

\* updateMany: the open assignments among rows, as they are at the write.
Close(rows, newStatus) ==
  [i \in Rows(assignments) |->
     IF i \in rows /\ assignments[i].status \in {"assigned", "active"}
     THEN [assignments[i] EXCEPT !.status = newStatus]
     ELSE assignments[i]]

TurfRows(t) == {i \in Rows(assignments) : assignments[i].turf = t}
CanvasserRows(c) == {i \in Rows(assignments) : assignments[i].canvasser = c}

SetTurf(t, newStatus) == status' = [status EXCEPT ![t] = newStatus]

CommitTurfOp(op, t) ==
  /\ SetTurf(t, IF op = "reopen" THEN "reopened" ELSE "archived")
  /\ assignments' = IF op = "reopen" THEN assignments ELSE Close(TurfRows(t), "removed")
  /\ deleted' = IF op = "delete" THEN deleted \cup {t} ELSE deleted
  /\ UNCHANGED <<account, sessions>>

CommitAccountOp(op, c) ==
  /\ account' = [account EXCEPT ![c] = IF op = "archiveUser" THEN "archived" ELSE "deleted"]
  /\ UNCHANGED <<status, deleted, assignments, sessions>>

CommitAssignMutant(t, c) ==
  /\ assignments' = Append(Close(TurfRows(t), "removed"),
                           [turf |-> t, canvasser |-> c, status |-> "assigned"])
  /\ SetTurf(t, "assigned")
  /\ UNCHANGED <<deleted, account, sessions>>

CommitAssign(t, c) ==
  /\ assignments' = Append(Close(TurfRows(t) \cup CanvasserRows(c), "removed"),
                           [turf |-> t, canvasser |-> c, status |-> "assigned"])
  /\ SetTurf(t, "assigned")
  /\ UNCHANGED <<deleted, account, sessions>>

CommitStart(t, c, row) ==
  /\ assignments' = [assignments EXCEPT ![row].status = "active"]
  /\ SetTurf(t, "in_progress")
  /\ sessions' = Append(sessions,
       [turf |-> t, canvasser |-> c, status |-> "active", open |-> TRUE])
  /\ UNCHANGED <<deleted, account>>

CommitPause(t, sess) ==
  /\ sessions' = [sessions EXCEPT ![sess].status = "paused"]
  /\ SetTurf(t, "paused")
  /\ UNCHANGED <<deleted, account, assignments>>

CommitResume(t, row, sess) ==
  /\ assignments' = [assignments EXCEPT ![row].status = "active"]
  /\ SetTurf(t, "in_progress")
  /\ sessions' = [sessions EXCEPT ![sess].status = "active"]
  /\ UNCHANGED <<deleted, account>>

Ended == "ended"

CommitComplete(t, c, sess) ==
  /\ assignments' = Close(TurfRows(t) \cap CanvasserRows(c), "completed")
  /\ sessions' = [sessions EXCEPT ![sess].status = Ended, ![sess].open = FALSE]
  /\ SetTurf(t,
       IF \/ \E i \in DOMAIN sessions' : sessions'[i].turf = t /\ sessions'[i].open
          \/ \E i \in DOMAIN assignments' :
               /\ assignments'[i].turf = t
               /\ assignments'[i].status \in {"assigned", "active"}
       THEN "in_progress" ELSE "completed")
  /\ UNCHANGED <<deleted, account>>

Commit(s) ==
  /\ request[s] # NoRequest
  /\ LET r == request[s] IN
     \/ r.op \in TurfOps /\ CommitTurfOp(r.op, r.turf)
     \/ r.op \in AccountOps /\ CommitAccountOp(r.op, r.canvasser)
     \/ r.op = "assign" /\ CommitAssign(r.turf, r.canvasser)
     \/ r.op = "start" /\ CommitStart(r.turf, r.canvasser, r.row)
     \/ r.op = "pause" /\ CommitPause(r.turf, r.session)
     \/ r.op = "resume" /\ CommitResume(r.turf, r.row, r.session)
     \/ r.op = "complete" /\ CommitComplete(r.turf, r.canvasser, r.session)
  /\ request' = [request EXCEPT ![s] = NoRequest]

\* createTurf and updateCanvasser write one row and decide nothing on others;
\* like every request they need a slot.
CreateTurf(t) ==
  /\ \E s \in Slots : request[s] = NoRequest
  /\ status[t] = "absent"
  /\ SetTurf(t, "unassigned")
  /\ UNCHANGED <<deleted, account, assignments, sessions, request>>

UpdateCanvasser(c, isActive) ==
  /\ \E s \in Slots : request[s] = NoRequest
  /\ account[c] # "deleted"
  /\ account' = [account EXCEPT ![c] = IF isActive THEN "active" ELSE "inactive"]
  /\ UNCHANGED <<status, deleted, assignments, sessions, request>>

Next ==
  \/ \E s \in Slots : Begin(s) \/ Commit(s)
  \/ \E t \in Turfs : CreateTurf(t)
  \/ \E c \in Canvassers, isActive \in BOOLEAN : UpdateCanvasser(c, isActive)

Spec == Init /\ [][Next]_vars

----------------------------------------------------------------------------
(* Requests that do not overlap. *)

LatestAssignment(t, c) ==
  LET rows == {i \in Rows(assignments) : /\ assignments[i].turf = t
                                         /\ assignments[i].canvasser = c}
  IN IF rows = {} THEN "none" ELSE assignments[Newest(rows)].status

LatestSession(t, c) ==
  LET rows == {i \in Rows(sessions) : sessions[i].turf = t /\ sessions[i].canvasser = c}
  IN IF rows = {} THEN "none" ELSE sessions[Newest(rows)].status

Lifecycle == INSTANCE TurfLifecycle WITH
  assignment <- [t \in Turfs |-> [c \in Canvassers |-> LatestAssignment(t, c)]],
  session <- [t \in Turfs |-> [c \in Canvassers |-> LatestSession(t, c)]]

\* With one request in flight at a time the handlers implement TurfLifecycle:
\* each commit is one of its steps, on the newest rows of each pair.
ImplementsLifecycle == Lifecycle!Spec

\* Every row and request is well formed.
TypeOK ==
  /\ status \in [Turfs -> Lifecycle!TurfStatus]
  /\ deleted \subseteq Turfs
  /\ account \in [Canvassers -> Lifecycle!AccountStatus]
  /\ assignments \in Seq([turf : Turfs, canvasser : Canvassers,
                          status : Lifecycle!AssignmentStatus])
  /\ sessions \in Seq([turf : Turfs, canvasser : Canvassers,
                       status : Lifecycle!SessionStatus, open : BOOLEAN])
  /\ \A s \in Slots : request[s] = NoRequest \/
       request[s] \in [op : TurfOps \cup AccountOps \cup WorkOps,
                       turf : Turfs \cup {Anywhere}, canvasser : Canvassers \cup {Anyone},
                       row : 0..Len(assignments),
                       session : 0..Len(sessions)]

----------------------------------------------------------------------------
(* Rules the documentation states, refuted when two requests overlap. *)

\* "A canvasser may have only one active turf session at a time": two starts
\* of one canvasser (a double tap, a retry) both find no open session.
OneSessionPerCanvasser ==
  \A i, j \in Rows(sessions) :
    /\ sessions[i].open /\ sessions[j].open
    /\ sessions[i].canvasser = sessions[j].canvasser
    => i = j

\* "A turf has one primary assignee at a time": a start that has read its
\* assignment row sets it active again after a reassignment removed it.
OnePrimaryAssignee ==
  \A t \in Turfs \ SharedTurfs : \A c, d \in Canvassers :
    OpenAssignments(t, c) # {} /\ OpenAssignments(t, d) # {} => c = d

\* "Completed and archived turfs are read-only to canvassers": a pause, start
\* or resume that was checked before the turf was closed is written after.
ClosedTurfReadOnly ==
  [][\A s \in Slots :
       /\ request[s] # NoRequest /\ request'[s] = NoRequest
       /\ request[s].op \in WorkOps \ {"assign"}
       /\ status[request[s].turf] \in {"completed", "archived"}
       => status'[request[s].turf] = status[request[s].turf]]_vars

\* "Close active sessions and assignments before archiving this field user":
\* an assignment that was checked before the user was archived is written after.
ArchivedUserIsIdle ==
  \A c \in Canvassers : account[c] \in {"archived", "deleted"} => Idle(c)
=============================================================================
