--------------------------- MODULE RetentionCleanup ---------------------------
(***************************************************************************)
(* RetentionService and the settings that switch its timer.  A run of the  *)
(* clean-up selects the due rows of every entity type, at most BatchSize   *)
(* of each, notes its plan in the audit log, cleans them in one database   *)
(* transaction and notes the end.  Only one run is in progress (running).  *)
(* A run that fails for an administrator answers with an error; when a     *)
(* timer's run fails nothing handles its rejection, and Node stops.        *)
(*                                                                         *)
(* Only what a run can find is modelled: deleted users, import and export  *)
(* batches (nothing in the code deletes a visit or sets the purge date of  *)
(* an address request).  The credentials it deletes are in AuthTokens.     *)
(***************************************************************************)
EXTENDS Naturals, FiniteSets

CONSTANTS Types,        \* entity types
          Rows,         \* their rows, in the order of their ids: 1 .. n
          TypeOf,       \* [Rows -> Types]
          Scopes,       \* sets of rows an administrator can see
          BatchSize,    \* RETENTION_BATCH_SIZE
          Excluded,     \* RETENTION_EXCLUDED_ENTITY_TYPES
          Disabled,     \* DISABLE_RETENTION_AUTOMATION
          JobDefault,   \* RETENTION_JOB_ENABLED, for want of stored settings
          Operators,    \* administrators' changes of the settings at once
          MaxFaults     \* bound: how often something fails

ASSUME RowsAssumption == Rows \subseteq Nat /\ IsFiniteSet(Rows) /\ TypeOf \in [Rows -> Types]
ASSUME BatchSizeAssumption == BatchSize \in Nat \ {0}
ASSUME SwitchesAssumption == {Disabled, JobDefault} \subseteq BOOLEAN /\ Excluded \subseteq Types

ASSUME MaxFaultsAssumption == MaxFaults \in Nat

VARIABLES due,       \* rows: absent; kept without a purge date, before or after it; cleaned
          stored,    \* the retentionJobEnabled of the settings, if any are stored
          timers,    \* intervals that run
          timer,     \* this.timer refers to one of them
          refreshed, \* history: the last change of the settings, or start, got
                     \* through refreshSchedule
          running,   \* the guard of runCleanup
          job,       \* the run in progress
          operator,  \* requests that change the settings
          up,        \* the process runs
          faults     \* history: how often something failed

schedule == <<stored, timers, timer, operator, refreshed>>
retention == <<due, schedule, running, job, up, faults>>

Ready == [at |-> "ready"]
Jobs == [at : {"select", "plan", "clean", "report", "failed"}, manual : BOOLEAN,
         scope : SUBSET Rows, ids : SUBSET Rows]

RetentionOK ==
  /\ due \in [Rows -> {"absent", "kept", "later", "now", "cleaned"}]
  /\ stored \subseteq BOOLEAN /\ {timer, refreshed} \subseteq BOOLEAN /\ running \in BOOLEAN
  /\ timers \in 0 .. Cardinality(Operators) + 1
  /\ job = Ready \/ job \in Jobs
  /\ operator \in [Operators -> {"ready", "stop", "read", "arm", "leave"}]
  /\ up \in BOOLEAN /\ faults \in 0 .. MaxFaults

\* getEffectiveSettings: the stored row, or the defaults of the environment.
Enabled == IF stored = {} THEN JobDefault ELSE TRUE \in stored

\* The intervals that refreshSchedule means to leave.
Scheduled == IF Enabled /\ ~Disabled THEN 1 ELSE 0

RetentionInit ==
  /\ due = [r \in Rows |-> "absent"]
  /\ stored \in {{}, {TRUE}, {FALSE}}
  /\ timers = Scheduled
  /\ timer = (timers = 1) /\ refreshed = TRUE
  /\ up = TRUE /\ faults = 0
  /\ running = FALSE /\ job = Ready
  /\ operator = [o \in Operators |-> "ready"]

\* A user is deleted, an import or an export recorded: with the purge date that
\* the policy gives it, or with none.
Appear(r) ==
  /\ due[r] = "absent"
  /\ due' \in {[due EXCEPT ![r] = d] : d \in {"kept", "later"}}
  /\ UNCHANGED <<schedule, running, job>>

FallDue(r) ==
  /\ due[r] = "later"
  /\ due' = [due EXCEPT ![r] = "now"]
  /\ UNCHANGED <<schedule, running, job>>

----------------------------------------------------------------------------
(* upsertSystemSettings and clearSystemSettings read the settings again    *)
(* once they are saved, and then call refreshSchedule, which reads them,    *)
(* too.  Either read may fail: the request ends with an error.              *)

SaveSettings(o, settings) ==
  /\ operator[o] = "ready"
  /\ stored' = settings
  /\ operator' = [operator EXCEPT ![o] = "stop"]
  /\ refreshed' = FALSE
  /\ UNCHANGED <<due, timers, timer, running, job>>

StopTimerMutant(o) ==
  /\ operator[o] = "stop"
  /\ timer' = FALSE
  /\ operator' = [operator EXCEPT ![o] = IF Disabled THEN "ready" ELSE "read"]
  /\ refreshed' = Disabled
  /\ UNCHANGED <<due, stored, timers, running, job>>

StopTimer(o) ==
  /\ operator[o] = "stop"
  /\ timers' = IF timer THEN timers - 1 ELSE timers
  /\ timer' = FALSE
  /\ operator' = [operator EXCEPT ![o] = IF Disabled THEN "ready" ELSE "read"]
  /\ refreshed' = Disabled
  /\ UNCHANGED <<due, stored, running, job>>

ReadSettings(o) ==
  /\ operator[o] = "read"
  /\ operator' = [operator EXCEPT ![o] = IF Enabled THEN "arm" ELSE "leave"]
  /\ UNCHANGED <<due, stored, timers, timer, refreshed, running, job>>

\* The read before the old interval is stopped, or the one after it.
FailRead(o) ==
  /\ operator[o] \in {"stop", "read"}
  /\ operator' = [operator EXCEPT ![o] = "ready"]
  /\ UNCHANGED <<due, stored, timers, timer, refreshed, running, job>>

ArmTimer(o) ==
  /\ operator[o] \in {"arm", "leave"}
  /\ IF operator[o] = "arm" THEN timers' = timers + 1 /\ timer' = TRUE
                            ELSE UNCHANGED <<timers, timer>>
  /\ operator' = [operator EXCEPT ![o] = "ready"]
  /\ refreshed' = TRUE
  /\ UNCHANGED <<due, stored, running, job>>

----------------------------------------------------------------------------
(* runCleanup. *)

BeginCleanup(manual, scope) ==
  /\ ~running      \* otherwise it is skipped
  /\ running' = TRUE
  /\ job' = [at |-> "select", manual |-> manual, scope |-> scope, ids |-> {}]
  /\ UNCHANGED <<due, schedule>>

Tick == timers > 0 /\ BeginCleanup(FALSE, Rows)

\* The rows that are due, and of each type the first BatchSize by id.
Due(scope) == {r \in scope : due[r] = "now" /\ TypeOf[r] \notin Excluded}

\* getSummary: how many rows of each type wait for a clean-up.
Summary(scope) == [t \in Types |-> Cardinality({r \in Due(scope) : TypeOf[r] = t})]

First(rows) ==
  {r \in rows : Cardinality({q \in rows : TypeOf[q] = TypeOf[r] /\ q < r}) < BatchSize}

SelectRows ==
  /\ job.at = "select"
  /\ job' = [job EXCEPT !.at = "plan", !.ids = First(Due(job.scope))]
  /\ UNCHANGED <<due, running, schedule>>

NotePlan ==
  /\ job.at = "plan"
  /\ job' = [job EXCEPT !.at = "clean"]
  /\ UNCHANGED <<due, running, schedule>>

\* The statements of the transaction check again what may have changed.
CleanRows ==
  /\ job.at = "clean"
  /\ due' = [r \in Rows |-> IF r \in job.ids /\ due[r] = "now" THEN "cleaned" ELSE due[r]]
  /\ job' = [job EXCEPT !.at = "report"]
  /\ UNCHANGED <<running, schedule>>

Release == running' = FALSE /\ job' = Ready

ReportCleanup == job.at = "report" /\ Release /\ UNCHANGED <<due, schedule>>

\* Any of its statements fails; the transaction leaves nothing behind.
FailCleanup ==
  /\ job.at \in {"select", "plan", "clean", "report"}
  /\ job' = [job EXCEPT !.at = "failed"]
  /\ UNCHANGED <<due, running, schedule>>

AnswerFailureMutant ==
  /\ job.at = "failed" /\ job.manual
  /\ job' = Ready
  /\ UNCHANGED <<due, running, schedule>>

\* The catch and finally of a run that an administrator waits for.
AnswerFailure ==
  /\ job.at = "failed" /\ job.manual
  /\ Release
  /\ UNCHANGED <<due, schedule>>

----------------------------------------------------------------------------
(* The process. *)

\* Every request ends with the process, wherever it was.
Stop ==
  /\ up' = FALSE
  /\ operator' = [o \in Operators |-> "ready"]
  /\ timers' = 0 /\ timer' = FALSE
  /\ Release
  /\ UNCHANGED <<due, stored, refreshed>>

\* onModuleInit: the schedule is set up before a request is served; if that fails,
\* so does the start, and the deployment tries again.
Restart ==
  /\ ~up /\ up' = TRUE
  /\ timers' = Scheduled /\ timer' = (timers' = 1) /\ refreshed' = TRUE
  /\ UNCHANGED <<due, stored, operator, running, job, faults>>

\* The rejection of a timer's run, which nothing handles.
DieUnhandled == up /\ job.at = "failed" /\ ~job.manual /\ Stop /\ UNCHANGED faults

Refresh(o) == StopTimer(o) \/ ReadSettings(o) \/ ArmTimer(o)
Proceed == SelectRows \/ NotePlan \/ CleanRows \/ ReportCleanup \/ AnswerFailure

Step ==
  \/ \E r \in Rows : Appear(r) \/ FallDue(r)
  \/ \E o \in Operators : (\E s \in {{}, {TRUE}, {FALSE}} : SaveSettings(o, s)) \/ Refresh(o)
  \/ \E scope \in Scopes : BeginCleanup(TRUE, scope)
  \/ Tick
  \/ Proceed

RetentionNext ==
  \/ up /\ Step /\ UNCHANGED <<up, faults>>
  \/ DieUnhandled
  \/ Restart
  \/ /\ up /\ faults < MaxFaults /\ faults' = faults + 1
     /\ \/ Stop
        \/ FailCleanup /\ UNCHANGED up
        \/ (\E o \in Operators : FailRead(o)) /\ UNCHANGED up

\* The event loop goes on with what it awaits, an interval fires in the end
\* between other runs, and the deployment restarts a process that stopped.
Fairness ==
  LET Fair(A) == up /\ A /\ UNCHANGED <<up, faults>>
  IN /\ WF_retention(Restart) /\ WF_retention(DieUnhandled) /\ WF_retention(Fair(Proceed))
     /\ \A o \in Operators : WF_retention(Fair(Refresh(o)))
     /\ SF_retention(Fair(Tick))

RetentionSpec == RetentionInit /\ [][RetentionNext]_retention /\ Fairness

----------------------------------------------------------------------------
(* Properties. *)

\* Between changes of the settings there is never more than one interval, and once
\* the last change got through (or the process was started again) one runs exactly
\* when automation is on, over failures and restarts.  A change whose read fails
\* leaves the old interval or none until the next change or start.  (Two changes at
\* once can leave an interval that nothing stops.)
ScheduleFollowsSettings ==
  up /\ (\A o \in Operators : operator[o] = "ready") =>
    timers <= 1 /\ (refreshed => timers = Scheduled)

\* Once the settings are left alone with automation on, and their last change got
\* through, the timer works off any backlog that the summary shows, however much
\* larger than a batch, and whichever clean-ups failed before.
LeftOn == Scheduled = 1 /\ refreshed /\ \A o \in Operators : operator[o] = "ready"
DueIsCleaned ==
  <>[]LeftOn => \A t \in Types : Summary(Rows)[t] > 0 ~> Summary(Rows)[t] = 0
=============================================================================
