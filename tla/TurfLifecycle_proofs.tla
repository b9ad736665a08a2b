------------------------ MODULE TurfLifecycle_proofs ------------------------
(***************************************************************************)
(* Proofs about TurfLifecycle, for every set of turfs and canvassers.  The *)
(* safety invariants are not inductive one by one: a session is covered    *)
(* only because nobody else can be assigned while it is open, a turf gets  *)
(* completed only because its assignee is unique, and so on.  Inv is the   *)
(* conjunction that supports itself.                                       *)
(***************************************************************************)
EXTENDS TurfLifecycle, TLAPS

(* The statuses a turf can have while a session on it is open. *)
WorkStatus ==
  \A t \in Turfs, c \in Canvassers :
    Working(t, c) => status[t] \in {"assigned", "in_progress", "paused"}

(* The strengthened invariant: each part uses the others. *)
Inv ==
  /\ TypeOK
  /\ OneAssignee
  /\ SessionCovered
  /\ ClosedTurfIsFree
  /\ WorkStatus
  /\ StatusEarned
  /\ ClosedUserIsIdle

LEMMA InitInv == Init => Inv
  BY DEF Init, Inv, TypeOK, OneAssignee, SessionCovered, ClosedTurfIsFree, WorkStatus,
         StatusEarned, ClosedUserIsIdle, Holds, Working, TurfStatus, AssignmentStatus,
         SessionStatus, AccountStatus

(* The type invariant is inductive on its own. *)
LEMMA NextTypeOK == TypeOK /\ [Next]_vars => TypeOK'
<1> SUFFICES ASSUME TypeOK, [Next]_vars PROVE TypeOK'
  OBVIOUS
<1> USE DEF TypeOK, TurfStatus, AssignmentStatus, SessionStatus, AccountStatus
<1>1. ASSUME NEW t \in Turfs, TurfStep(t) PROVE TypeOK'
  <2>1. CASE CreateTurf(t)
    BY <2>1 DEF CreateTurf
  <2>2. CASE ReopenTurf(t)
    BY <2>2 DEF ReopenTurf
  <2>3. CASE ArchiveTurf(t)
    BY <2>3 DEF ArchiveTurf, RemoveAssignments
  <2>4. CASE DeleteTurf(t)
    BY <2>4 DEF DeleteTurf, RemoveAssignments
  <2> QED BY <1>1, <2>1, <2>2, <2>3, <2>4 DEF TurfStep
<1>2. ASSUME NEW c \in Canvassers, AccountStep(c) PROVE TypeOK'
  BY <1>2 DEF AccountStep, ArchiveFieldUser, DeleteFieldUser, CloseFieldUser, UpdateCanvasser
<1>3. ASSUME NEW t \in Turfs, NEW c \in Canvassers, WorkStep(t, c) PROVE TypeOK'
  <2>1. CASE AssignTurf(t, c)
    BY <2>1 DEF AssignTurf
  <2>2. CASE StartSession(t, c)
    BY <2>2 DEF StartSession
  <2>3. CASE PauseSession(t, c)
    BY <2>3 DEF PauseSession
  <2>4. CASE ResumeSession(t, c)
    BY <2>4 DEF ResumeSession
  <2>5. CASE CompleteSession(t, c)
    BY <2>5 DEF CompleteSession, StatusAfterCompletion, Ended
  <2> QED BY <1>3, <2>1, <2>2, <2>3, <2>4, <2>5 DEF WorkStep
<1>4. CASE UNCHANGED vars
  BY <1>4 DEF vars
<1> QED BY <1>1, <1>2, <1>3, <1>4 DEF Next

(* Every column of a reachable state holds a value of its enum. *)
THEOREM TypeCorrect == Spec => []TypeOK
<1>1. Init => TypeOK
  BY InitInv DEF Inv
<1> QED BY <1>1, NextTypeOK, PTL DEF Spec

----------------------------------------------------------------------------
(* The safety invariant, one lemma per kind of step.  In each, a part of   *)
(* Inv that the step cannot disturb follows from the parts it leaves alone. *)

(* Requests on one turf by administrators: nothing can be open on the turf   *)
(* they reopen, archive or delete, so closing its assignments frees it.      *)
LEMMA TurfStepInv ==
  ASSUME Inv, NEW t \in Turfs, TurfStep(t), TypeOK'
  PROVE  Inv'
<1> USE DEF Inv, TypeOK, Holds, Working, InUse, Scoped
<1>1. CASE CreateTurf(t)
  BY <1>1 DEF CreateTurf, OneAssignee, SessionCovered, ClosedTurfIsFree, WorkStatus,
              StatusEarned, ClosedUserIsIdle
<1>2. CASE ReopenTurf(t)
  BY <1>2 DEF ReopenTurf, OneAssignee, SessionCovered, ClosedTurfIsFree, WorkStatus,
              StatusEarned, ClosedUserIsIdle
<1>3. ASSUME ~InUse(t), RemoveAssignments(t), status' = [status EXCEPT ![t] = "archived"],
             deleted' \in {deleted, deleted \cup {t}}, UNCHANGED <<session, account>>
      PROVE  Inv'
  <2>1. \A u \in Turfs, c \in Canvassers :
           Holds(u, c)' <=> u # t /\ Holds(u, c)
    BY <1>3 DEF RemoveAssignments
  <2>2. \A u \in Turfs, c \in Canvassers : Working(u, c)' => u # t /\ Working(u, c)
    BY <1>3
  <2>3. OneAssignee' /\ SessionCovered'
    BY <2>1, <2>2 DEF OneAssignee, SessionCovered
  <2>4. ClosedTurfIsFree'
    BY <1>3, <2>1, <2>2 DEF ClosedTurfIsFree
  <2>5. WorkStatus' /\ StatusEarned'
    BY <1>3, <2>2 DEF WorkStatus, StatusEarned
  <2>6. ClosedUserIsIdle'
    BY <1>3, <2>1, <2>2 DEF ClosedUserIsIdle
  <2> QED BY <2>3, <2>4, <2>5, <2>6
<1>4. CASE ArchiveTurf(t)
  BY <1>3, <1>4 DEF ArchiveTurf
<1>5. CASE DeleteTurf(t)
  BY <1>3, <1>5 DEF DeleteTurf
<1> QED BY <1>1, <1>2, <1>4, <1>5 DEF TurfStep

(* Account changes touch no work; an account is closed only when it is idle. *)
LEMMA AccountStepInv ==
  ASSUME Inv, NEW c \in Canvassers, AccountStep(c), TypeOK'
  PROVE  Inv'
<1>1. UNCHANGED <<status, deleted, assignment, session>>
  BY DEF AccountStep, ArchiveFieldUser, DeleteFieldUser, CloseFieldUser, UpdateCanvasser
<1>2. OneAssignee' /\ SessionCovered' /\ ClosedTurfIsFree' /\ WorkStatus' /\ StatusEarned'
  BY <1>1 DEF Inv, OneAssignee, SessionCovered, ClosedTurfIsFree, WorkStatus, StatusEarned,
              Holds, Working
<1>3. \A d \in Canvassers :
         account'[d] \in {"archived", "deleted"} => account'[d] = account[d] \/ Idle(d)
  BY DEF AccountStep, ArchiveFieldUser, DeleteFieldUser, CloseFieldUser, UpdateCanvasser,
         Inv, TypeOK
<1>4. ClosedUserIsIdle'
  BY <1>1, <1>3 DEF Inv, ClosedUserIsIdle, Idle, Holds, Working
<1> QED BY <1>2, <1>4 DEF Inv

(* assignTurf: after it, c holds t and nothing else, and t has no other holder. *)
LEMMA AssignTurfInv ==
  ASSUME Inv, NEW t \in Turfs, NEW c \in Canvassers, AssignTurf(t, c), TypeOK'
  PROVE  Inv'
<1> USE DEF Inv, TypeOK
<1>1. \A u \in Turfs, d \in Canvassers :
         Holds(u, d)' <=> (u = t /\ d = c) \/ (u # t /\ d # c /\ Holds(u, d))
  BY DEF AssignTurf, Superseded, Holds
<1>2. \A u \in Turfs, d \in Canvassers : Working(u, d)' <=> Working(u, d)
  BY DEF AssignTurf, Working
<1>3. \A u \in Turfs, d \in Canvassers :
         Working(u, d) => (u = t /\ d = c) \/ (u # t /\ d # c)
  BY DEF AssignTurf, NoCrossTurfOpenSession, OpenSessionAllows, InUse, OneAssignee, SessionCovered
<1>4. OneAssignee'
  <2> SUFFICES ASSUME NEW u \in Turfs, NEW v \in Turfs, NEW d \in Canvassers,
                      NEW e \in Canvassers, Holds(u, d)', Holds(v, e)'
               PROVE  u = v <=> d = e
    BY DEF OneAssignee
  <2>1. CASE u = t /\ d = c
    BY <1>1, <2>1
  <2>2. CASE u # t /\ d # c /\ Holds(u, d)
    BY <1>1, <2>2 DEF OneAssignee
  <2> QED BY <1>1, <2>1, <2>2
<1>5. SessionCovered'
  BY <1>1, <1>2, <1>3 DEF SessionCovered
<1>6. ClosedTurfIsFree'
  BY <1>1, <1>2 DEF AssignTurf, Scoped, ClosedTurfIsFree
<1>7. WorkStatus' /\ StatusEarned'
  BY DEF AssignTurf, WorkStatus, StatusEarned, Working
<1>8. ClosedUserIsIdle'
  BY <1>1, <1>2 DEF AssignTurf, ClosedUserIsIdle
<1> QED BY <1>4, <1>5, <1>6, <1>7, <1>8

(* startSession and resumeSession put c, who holds t, to work on it. *)
LEMMA BeginWorkInv ==
  ASSUME Inv, NEW t \in Turfs, NEW c \in Canvassers, Holds(t, c), TypeOK',
         assignment' = [assignment EXCEPT ![t][c] = "active"],
         status' = [status EXCEPT ![t] = "in_progress"],
         session' = [session EXCEPT ![t][c] = "active"],
         UNCHANGED <<deleted, account>>
  PROVE  Inv'
<1> USE DEF Inv, TypeOK
<1>1. \A u \in Turfs, d \in Canvassers : Holds(u, d)' <=> Holds(u, d)
  BY DEF Holds
<1>2. \A u \in Turfs, d \in Canvassers :
         Working(u, d)' <=> Working(u, d) \/ (u = t /\ d = c)
  BY DEF Working
<1>3. OneAssignee' /\ SessionCovered'
  BY <1>1, <1>2 DEF OneAssignee, SessionCovered
<1>4. ClosedTurfIsFree'
  BY <1>1, <1>2 DEF ClosedTurfIsFree
<1>5. WorkStatus' /\ StatusEarned'
  BY <1>2 DEF WorkStatus, StatusEarned
<1>6. ClosedUserIsIdle'
  BY <1>1, <1>2 DEF ClosedUserIsIdle
<1> QED BY <1>3, <1>4, <1>5, <1>6

(* completeSession: c was the only holder, so the turf ends up completed. *)
LEMMA CompleteSessionInv ==
  ASSUME Inv, NEW t \in Turfs, NEW c \in Canvassers, CompleteSession(t, c), TypeOK'
  PROVE  Inv'
<1> USE DEF Inv, TypeOK
<1>1. \A u \in Turfs, d \in Canvassers :
         Holds(u, d)' <=> Holds(u, d) /\ ~(u = t /\ d = c)
  BY DEF CompleteSession, Holds
<1>2. \A u \in Turfs, d \in Canvassers :
         Working(u, d)' <=> Working(u, d) /\ ~(u = t /\ d = c)
  BY DEF CompleteSession, Working, Ended
<1>3. \A d \in Canvassers : ~Holds(t, d)' /\ ~Working(t, d)'
  BY <1>1, <1>2 DEF CompleteSession, OneAssignee, SessionCovered
<1>4. status' = [status EXCEPT ![t] = "completed"]
  <2>1. DOMAIN session'[t] = Canvassers
    OBVIOUS
  <2> QED BY <1>3, <2>1 DEF CompleteSession, StatusAfterCompletion, Holds, Working
<1>5. OneAssignee' /\ SessionCovered'
  BY <1>1, <1>2 DEF OneAssignee, SessionCovered
<1>6. ClosedTurfIsFree'
  BY <1>1, <1>2, <1>3, <1>4 DEF CompleteSession, ClosedTurfIsFree
<1>7. WorkStatus'
  BY <1>2, <1>3, <1>4 DEF WorkStatus
<1>8. StatusEarned'
  BY <1>4 DEF CompleteSession, StatusEarned
<1>9. ClosedUserIsIdle'
  BY <1>1, <1>2 DEF CompleteSession, ClosedUserIsIdle
<1> QED BY <1>5, <1>6, <1>7, <1>8, <1>9

LEMMA PauseSessionInv ==
  ASSUME Inv, NEW t \in Turfs, NEW c \in Canvassers, PauseSession(t, c), TypeOK'
  PROVE  Inv'
<1> USE DEF Inv, TypeOK
<1>1. \A u \in Turfs, d \in Canvassers :
         (Holds(u, d)' <=> Holds(u, d)) /\ (Working(u, d)' <=> Working(u, d))
  BY DEF PauseSession, Holds, Working
<1>2. OneAssignee' /\ SessionCovered'
  BY <1>1 DEF OneAssignee, SessionCovered
<1>3. ClosedTurfIsFree'
  BY <1>1 DEF PauseSession, ClosedTurfIsFree
<1>4. WorkStatus' /\ StatusEarned'
  BY <1>1 DEF PauseSession, WorkStatus, StatusEarned
<1>5. ClosedUserIsIdle'
  BY <1>1 DEF PauseSession, ClosedUserIsIdle
<1> QED BY <1>2, <1>3, <1>4, <1>5

LEMMA NextInv == Inv /\ [Next]_vars => Inv'
<1> SUFFICES ASSUME Inv, [Next]_vars PROVE Inv'
  OBVIOUS
<1>1. TypeOK'
  BY NextTypeOK DEF Inv
<1>2. ASSUME NEW t \in Turfs, TurfStep(t) PROVE Inv'
  BY <1>1, <1>2, TurfStepInv
<1>3. ASSUME NEW c \in Canvassers, AccountStep(c) PROVE Inv'
  BY <1>1, <1>3, AccountStepInv
<1>4. ASSUME NEW t \in Turfs, NEW c \in Canvassers, WorkStep(t, c) PROVE Inv'
  <2>1. CASE AssignTurf(t, c)
    BY <1>1, <2>1, AssignTurfInv
  <2>2. CASE StartSession(t, c)
    BY <1>1, <2>2, BeginWorkInv DEF StartSession, HasAssignment
  <2>3. CASE PauseSession(t, c)
    BY <1>1, <2>3, PauseSessionInv
  <2>4. CASE ResumeSession(t, c)
    BY <1>1, <2>4, BeginWorkInv DEF ResumeSession, HasAssignment
  <2>5. CASE CompleteSession(t, c)
    BY <1>1, <2>5, CompleteSessionInv
  <2> QED BY <1>4, <2>1, <2>2, <2>3, <2>4, <2>5 DEF WorkStep
<1>5. CASE UNCHANGED vars
  BY <1>5 DEF vars, Inv, TypeOK, OneAssignee, SessionCovered, ClosedTurfIsFree, WorkStatus,
              StatusEarned, ClosedUserIsIdle, Holds, Working
<1> QED BY <1>2, <1>3, <1>4, <1>5 DEF Next

THEOREM InvHolds == Spec => []Inv
  BY InitInv, NextInv, PTL DEF Spec

----------------------------------------------------------------------------
(* The results. *)

(* No turf has two assignees and no canvasser holds two turfs. *)
THEOREM AssigneeUnique == Spec => []OneAssignee
<1>1. Inv => OneAssignee
  BY DEF Inv
<1> QED BY <1>1, InvHolds, PTL

(* Every open session is covered by an open assignment. *)
THEOREM WorkIsCovered == Spec => []SessionCovered
<1>1. Inv => SessionCovered
  BY DEF Inv
<1> QED BY <1>1, InvHolds, PTL

(* The phone of a canvasser at work is given the turf of the session, and  *)
(* the dashboard lists the canvasser under that turf.                      *)
THEOREM SnapshotIsWork == Spec => []SnapshotShowsWork
<1>1. ASSUME Inv, NEW t \in Turfs, NEW c \in Canvassers, Working(t, c)
      PROVE  MyTurf(c) = {t}
  <2>1. Holds(t, c) /\ Scoped(t)
    BY <1>1 DEF Inv, SessionCovered, ClosedTurfIsFree, Scoped
  <2>2. \A u \in Turfs : Holds(u, c) => u = t
    BY <1>1, <2>1 DEF Inv, OneAssignee
  <2> QED BY <2>1, <2>2 DEF MyTurf
<1>2. ASSUME Inv, NEW w \in ActiveCanvassers
      PROVE  w[1] \in DOMAIN DashboardTurfs /\ w[2] \in DashboardTurfs[w[1]]
  <2>1. w[1] \in Turfs /\ w[2] \in Canvassers /\ Working(w[1], w[2])
    BY <1>2 DEF ActiveCanvassers
  <2>2. Scoped(w[1])
    BY <1>2, <2>1 DEF Inv, ClosedTurfIsFree, Scoped
  <2> QED BY <2>1, <2>2 DEF DashboardTurfs
<1>3. Inv => SnapshotShowsWork
  BY <1>1, <1>2 DEF SnapshotShowsWork
<1> QED BY <1>3, InvHolds, PTL

(* One open session per canvasser and per turf, shared turfs included. *)
THEOREM SessionUnique == Spec => []OneOpenSession
<1>1. Inv => OneOpenSession
  BY DEF Inv, OneOpenSession, OneAssignee, SessionCovered
<1> QED BY <1>1, InvHolds, PTL

(* Nobody is assigned to, or at work on, a turf that is closed. *)
THEOREM ClosedTurfs == Spec => []ClosedTurfIsFree
<1>1. Inv => ClosedTurfIsFree
  BY DEF Inv
<1> QED BY <1>1, InvHolds, PTL

(* A turf is in_progress or paused only with such a session on it. *)
THEOREM StatusIsEarned == Spec => []StatusEarned
<1>1. Inv => StatusEarned
  BY DEF Inv
<1> QED BY <1>1, InvHolds, PTL

(* Archived and deleted users have no work left open. *)
THEOREM ClosedUsers == Spec => []ClosedUserIsIdle
<1>1. Inv => ClosedUserIsIdle
  BY DEF Inv
<1> QED BY <1>1, InvHolds, PTL

(* Work is resumed only on a turf that is assigned, in_progress or paused. *)
THEOREM ResumeIsOnOpenTurf == Spec => ResumeOnlyOpenTurf
<1> DEFINE A == \A t \in Turfs, c \in Canvassers :
                  session[t][c] = "paused" /\ session'[t][c] = "active"
                    => status[t] \in {"assigned", "in_progress", "paused"}
<1>1. Inv => A
  BY DEF Inv, WorkStatus, Working
<1>2. Inv /\ [Next]_vars => [A]_vars
  BY <1>1
<1> QED BY <1>2, InvHolds, PTL DEF Spec, ResumeOnlyOpenTurf

(* Canvassers change nothing on a completed or archived turf. *)
THEOREM ClosedTurfsAreReadOnly == Spec => ClosedTurfIsReadOnly
<1> DEFINE A == \A t \in Turfs :
       status[t] \in {"completed", "archived"} /\ status'[t] # status[t]
         => /\ status'[t] \in {"assigned", "reopened", "archived"}
            /\ session'[t] = session[t]
<1>1. ASSUME Inv, NEW t \in Turfs, TurfStep(t) PROVE A
  BY <1>1 DEF TurfStep, CreateTurf, ReopenTurf, ArchiveTurf, DeleteTurf, Inv, TypeOK
<1>2. ASSUME NEW c \in Canvassers, AccountStep(c) PROVE A
  BY <1>2 DEF AccountStep, ArchiveFieldUser, DeleteFieldUser, CloseFieldUser, UpdateCanvasser
<1>3. ASSUME Inv, NEW t \in Turfs, NEW c \in Canvassers, WorkStep(t, c) PROVE A
  <2>1. CASE AssignTurf(t, c)
    BY <1>3, <2>1 DEF AssignTurf, Inv, TypeOK
  <2>2. ASSUME ~AssignTurf(t, c) PROVE Holds(t, c) \/ Working(t, c)
    BY <1>3, <2>2 DEF WorkStep, StartSession, PauseSession, ResumeSession, CompleteSession,
                      HasAssignment, Working
  <2>3. ASSUME ~AssignTurf(t, c)
        PROVE  /\ status[t] \notin {"completed", "archived"}
               /\ \A u \in Turfs \ {t} : status'[u] = status[u]
    BY <1>3, <2>2, <2>3 DEF WorkStep, StartSession, PauseSession, ResumeSession, CompleteSession,
                      Inv, ClosedTurfIsFree, TypeOK
  <2> QED BY <2>1, <2>3
<1>4. Inv /\ [Next]_vars => [A]_vars
  BY <1>1, <1>2, <1>3 DEF Next
<1> QED BY <1>4, InvHolds, PTL DEF Spec, ClosedTurfIsReadOnly
=============================================================================
