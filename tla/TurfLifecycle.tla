--------------------------- MODULE TurfLifecycle ---------------------------
(***************************************************************************)
(* Turfs, their assignments to canvassers and the work sessions on them    *)
(* (backend/src/turfs/turfs.service.ts), together with the account changes *)
(* that depend on them (admin.service.ts, users.service.ts).  Each request *)
(* is one step: the reads and the writes of its handler happen at once.    *)
(* TurfRequests takes the handlers apart and refines this module when      *)
(* requests do not overlap.                                                *)
(*                                                                         *)
(* A definition named ...Mutant is a plausible bug in the definition that  *)
(* follows it; PROJECT.json pairs it with the property that excludes it.   *)
(***************************************************************************)
CONSTANTS
  Turfs,         \* turf ids
  Canvassers,    \* ids of users with role canvasser, all in one organization
  SharedTurfs    \* the turfs whose column is_shared is set

ASSUME SharedTurfsAssumption == SharedTurfs \subseteq Turfs

VARIABLES
  status,        \* status[t]: Turf.status, "absent" before the turf is created
  deleted,       \* turfs whose deletedAt is set
  assignment,    \* assignment[t][c]: status of the newest TurfAssignment of t to c
  session,       \* session[t][c]: status of the newest TurfSession of c on t
  account        \* account[c]: the user row's status

vars == <<status, deleted, assignment, session, account>>

TurfStatus == {"absent", "unassigned", "assigned", "in_progress", "paused",
               "completed", "reopened", "archived"}
AssignmentStatus == {"none", "assigned", "active", "completed", "removed"}
SessionStatus == {"none", "active", "paused", "ended"}
\* "inactive" stands for every status that cannot be assigned work and is
\* neither archived nor deleted (invited, inactive, locked).
AccountStatus == {"active", "inactive", "archived", "deleted"}

\* c holds t: an assignment row of t to c is still assigned or active.
Holds(t, c) == assignment[t][c] \in {"assigned", "active"}
\* c has a session on t whose endTime is null.
Working(t, c) == session[t][c] \in {"active", "paused"}
InUse(t) == \E c \in Canvassers : Working(t, c)
\* findScopedTurf: the turf exists and is not soft-deleted.
Scoped(t) == status[t] # "absent" /\ t \notin deleted

Init ==
  /\ status = [t \in Turfs |-> "absent"]
  /\ deleted = {}
  /\ assignment = [t \in Turfs |-> [c \in Canvassers |-> "none"]]
  /\ session = [t \in Turfs |-> [c \in Canvassers |-> "none"]]
  /\ account = [c \in Canvassers |-> "active"]

\* getMyTurf: the turfs a canvasser's phone can be given; it is given one.
MyTurf(c) == {t \in Turfs : Scoped(t) /\ Holds(t, c)}

\* activeCanvassers: the dashboard's open sessions, whatever became of the turf;
\* dashboardSummary: the turfs that are left, each with the sessions open on it.
ActiveCanvassers == {w \in Turfs \X Canvassers : Working(w[1], w[2])}
DashboardTurfs == [t \in {t \in Turfs : Scoped(t)} |-> {c \in Canvassers : Working(t, c)}]

----------------------------------------------------------------------------
(* Guards shared by the handlers. *)

NoCrossTurfOpenSessionMutant(t, c) == TRUE
NoCrossTurfOpenSession(t, c) == \A u \in Turfs \ {t} : ~Working(u, c)

TurfSessionAvailable(t, c) ==
  t \in SharedTurfs \/ \A d \in Canvassers \ {c} : ~Working(t, d)

\* The assignment lookup of startSession and resumeSession.
HasAssignmentMutant(t, c) == assignment[t][c] # "none"
HasAssignment(t, c) == Holds(t, c)

\* assignTurf goes on when the session it finds on the turf is the assignee's.
OpenSessionAllowsMutant(t, c) == TRUE
OpenSessionAllows(t, c) == InUse(t) => Working(t, c)

\* Assigning t to c closes the open assignment of u to d.
SupersededMutant(t, c, u, d) == u = t /\ Holds(u, d)
SupersededElsewhereMutant(t, c, u, d) == d = c /\ Holds(u, d)
Superseded(t, c, u, d) == (u = t \/ d = c) /\ Holds(u, d)

RemoveAssignmentsMutant(t) == UNCHANGED assignment
RemoveAssignments(t) ==
  assignment' = [assignment EXCEPT ![t] =
    [c \in Canvassers |-> IF Holds(t, c) THEN "removed" ELSE assignment[t][c]]]

\* What archiveFieldUser and deleteFieldUser count before they go on.
IdleMutant(c) == \A t \in Turfs : ~Working(t, c)
Idle(c) == \A t \in Turfs : ~Working(t, c) /\ ~Holds(t, c)

----------------------------------------------------------------------------
(* Requests of administrators and supervisors. *)

CreateTurf(t) ==
  /\ status[t] = "absent"
  /\ status' = [status EXCEPT ![t] = "unassigned"]
  /\ UNCHANGED <<deleted, assignment, session, account>>

\* The turf's status is not read: a completed or archived turf is assignable.
AssignTurf(t, c) ==
  /\ Scoped(t)
  /\ account[c] = "active"
  /\ NoCrossTurfOpenSession(t, c)
  /\ OpenSessionAllows(t, c)
  /\ assignment' =
       [u \in Turfs |-> [d \in Canvassers |->
          IF u = t /\ d = c THEN "assigned"
          ELSE IF Superseded(t, c, u, d) THEN "removed"
          ELSE assignment[u][d]]]
  /\ status' = [status EXCEPT ![t] = "assigned"]
  /\ UNCHANGED <<deleted, session, account>>

ReopenTurfMutant(t) ==
  /\ Scoped(t)
  /\ status' = [status EXCEPT ![t] = "reopened"]
  /\ UNCHANGED <<deleted, assignment, session, account>>

ReopenTurf(t) ==
  /\ Scoped(t)
  /\ ~InUse(t)
  /\ status' = [status EXCEPT ![t] = "reopened"]
  /\ UNCHANGED <<deleted, assignment, session, account>>

ArchiveTurf(t) ==
  /\ Scoped(t)
  /\ ~InUse(t)
  /\ RemoveAssignments(t)
  /\ status' = [status EXCEPT ![t] = "archived"]
  /\ UNCHANGED <<deleted, session, account>>

DeleteTurf(t) ==
  /\ Scoped(t)
  /\ ~InUse(t)
  /\ RemoveAssignments(t)
  /\ status' = [status EXCEPT ![t] = "archived"]
  /\ deleted' = deleted \cup {t}
  /\ UNCHANGED <<session, account>>

CloseFieldUser(c, closed) ==
  /\ account[c] # "deleted"
  /\ Idle(c)
  /\ account' = [account EXCEPT ![c] = closed]
  /\ UNCHANGED <<status, deleted, assignment, session>>

ArchiveFieldUser(c) == CloseFieldUser(c, "archived")
DeleteFieldUser(c) == CloseFieldUser(c, "deleted")

\* updateCanvasser with isActive: no check of the canvasser's open work.
UpdateCanvasser(c, isActive) ==
  /\ account[c] # "deleted"
  /\ account' = [account EXCEPT ![c] = IF isActive THEN "active" ELSE "inactive"]
  /\ UNCHANGED <<status, deleted, assignment, session>>

----------------------------------------------------------------------------
(* Requests of a canvasser's app.  None of them looks at the account (the  *)
(* access token outlives it), at the turf's status or at its deletedAt.    *)

\* With a session already open the request returns it and changes nothing.
StartSession(t, c) ==
  /\ HasAssignment(t, c)
  /\ NoCrossTurfOpenSession(t, c)
  /\ TurfSessionAvailable(t, c)
  /\ ~Working(t, c)
  /\ assignment' = [assignment EXCEPT ![t][c] = "active"]
  /\ status' = [status EXCEPT ![t] = "in_progress"]
  /\ session' = [session EXCEPT ![t][c] = "active"]
  /\ UNCHANGED <<deleted, account>>

PauseSession(t, c) ==
  /\ session[t][c] = "active"
  /\ session' = [session EXCEPT ![t][c] = "paused"]
  /\ status' = [status EXCEPT ![t] = "paused"]
  /\ UNCHANGED <<deleted, assignment, account>>

ResumeSession(t, c) ==
  /\ HasAssignment(t, c)
  /\ NoCrossTurfOpenSession(t, c)
  /\ TurfSessionAvailable(t, c)
  /\ session[t][c] = "paused"
  /\ assignment' = [assignment EXCEPT ![t][c] = "active"]
  /\ status' = [status EXCEPT ![t] = "in_progress"]
  /\ session' = [session EXCEPT ![t][c] = "active"]
  /\ UNCHANGED <<deleted, account>>

\* The status of a session that completeSession closes.
Ended == "ended"

\* The turf is completed when the handler, having closed the canvasser's own
\* rows, counts no open session and no open assignment on it.
StatusAfterCompletion(asg, ses) ==
  IF \E c \in DOMAIN ses : ses[c] \in {"active", "paused"} \/ asg[c] \in {"assigned", "active"}
  THEN "in_progress" ELSE "completed"

\* completeSession, which endSession calls too.
CompleteSession(t, c) ==
  /\ Working(t, c)
  /\ assignment' = [assignment EXCEPT ![t][c] =
                      IF Holds(t, c) THEN "completed" ELSE assignment[t][c]]
  /\ session' = [session EXCEPT ![t][c] = Ended]
  /\ status' = [status EXCEPT ![t] =
                  StatusAfterCompletion(assignment'[t], session'[t])]
  /\ UNCHANGED <<deleted, account>>

TurfStep(t) ==
  CreateTurf(t) \/ ReopenTurf(t) \/ ArchiveTurf(t) \/ DeleteTurf(t)

AccountStep(c) ==
  \/ ArchiveFieldUser(c)
  \/ DeleteFieldUser(c)
  \/ \E isActive \in BOOLEAN : UpdateCanvasser(c, isActive)

WorkStep(t, c) ==
  \/ AssignTurf(t, c)
  \/ StartSession(t, c)
  \/ PauseSession(t, c)
  \/ ResumeSession(t, c)
  \/ CompleteSession(t, c)

Next ==
  \/ \E t \in Turfs : TurfStep(t)
  \/ \E c \in Canvassers : AccountStep(c)
  \/ \E t \in Turfs, c \in Canvassers : WorkStep(t, c)

Spec == Init /\ [][Next]_vars

----------------------------------------------------------------------------
(* Properties. *)

\* Every column holds one of its enum's values (TurfStatus, AssignmentStatus,
\* SessionStatus of the schema).
TypeOK ==
  /\ status \in [Turfs -> TurfStatus]
  /\ deleted \in SUBSET Turfs
  /\ assignment \in [Turfs -> [Canvassers -> AssignmentStatus]]
  /\ session \in [Turfs -> [Canvassers -> SessionStatus]]
  /\ account \in [Canvassers -> AccountStatus]

\* A turf never has two assignees, and a canvasser never holds two turfs:
\* assignTurf closes both kinds of older assignment before it creates one.
OneAssignee ==
  \A t, u \in Turfs : \A c, d \in Canvassers :
    Holds(t, c) /\ Holds(u, d) => (t = u <=> c = d)

\* Work is always covered by an assignment: no reassignment, archiving or
\* completion leaves a canvasser with a session on a turf that is no longer
\* theirs (the visits logged in such a session would all become conflicts).
SessionCovered ==
  \A t \in Turfs, c \in Canvassers : Working(t, c) => Holds(t, c)

\* The phone of a canvasser at work is given the turf of that session and no
\* other, whatever was assigned, reopened or deleted meanwhile: getMyTurf picks
\* the newest assignment and looks for a session only there.  The dashboard
\* lists everyone it counts as at work under one of its turfs.
SnapshotShowsWork ==
  /\ \A t \in Turfs, c \in Canvassers : Working(t, c) => MyTurf(c) = {t}
  /\ \A w \in ActiveCanvassers : w[1] \in DOMAIN DashboardTurfs /\ w[2] \in DashboardTurfs[w[1]]

\* At most one session is open per canvasser and per turf.  This holds for
\* shared turfs too: assignTurf admits only one assignee, so the availability
\* check that is_shared relaxes is never the one that decides.
OneOpenSession ==
  \A t, u \in Turfs : \A c, d \in Canvassers :
    Working(t, c) /\ Working(u, d) => (t = u <=> c = d)

\* A turf that is open to nobody (not created, not assigned yet, completed,
\* archived or deleted) has neither an assignee nor a session, although the
\* session handlers look at neither its status nor its deletedAt.
ClosedTurfIsFree ==
  \A t \in Turfs :
    \/ status[t] \in {"absent", "unassigned", "completed", "archived"}
    \/ t \in deleted
    => \A c \in Canvassers : ~Holds(t, c) /\ ~Working(t, c)

\* The status the dashboard shows for a turf in work is earned: in_progress
\* only with an active session on it, paused only with a paused one.
StatusEarned ==
  \A t \in Turfs :
    /\ status[t] = "in_progress" => \E c \in Canvassers : session[t][c] = "active"
    /\ status[t] = "paused" => \E c \in Canvassers : session[t][c] = "paused"

\* An archived or deleted user has no open assignment and no open session,
\* although neither the session handlers nor the guard of an access token
\* looks at the account again.
ClosedUserIsIdle ==
  \A c \in Canvassers : account[c] \in {"archived", "deleted"} =>
    \A t \in Turfs : ~Working(t, c) /\ ~Holds(t, c)

\* A canvasser resumes work only on a turf that is assigned, in_progress or
\* paused: resumeSession itself never reads the status.
ResumeOnlyOpenTurf ==
  [][\A t \in Turfs, c \in Canvassers :
       session[t][c] = "paused" /\ session'[t][c] = "active"
         => status[t] \in {"assigned", "in_progress", "paused"}]_vars

\* Completed and archived turfs are read-only to canvassers: only assignTurf,
\* reopenTurf and archiving move such a turf, and none of them opens work on it.
ClosedTurfIsReadOnly ==
  [][\A t \in Turfs :
       status[t] \in {"completed", "archived"} /\ status'[t] # status[t]
         => /\ status'[t] \in {"assigned", "reopened", "archived"}
            /\ session'[t] = session[t]]_vars

\* The rule "Starting work moves turf to in_progress": while a session is
\* active its turf is in_progress.  Refuted: assigning the turf again to the
\* canvasser who is working on it moves it back to assigned.
ActiveSessionShowsInProgress ==
  \A t \in Turfs, c \in Canvassers :
    session[t][c] = "active" => status[t] = "in_progress"
=============================================================================
