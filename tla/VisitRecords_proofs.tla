------------------------- MODULE VisitRecords_proofs -------------------------
(***************************************************************************)
(* What marking exports said, proved for any visits, filters and batches   *)
(* of a service that handles one request at a time; the timer of           *)
(* the clean-up, for any rows, failures and restarts; and, of the reports, *)
(* the days they show and the numbers of attempts, for any visits.         *)
(***************************************************************************)
EXTENDS Reports, RetentionCleanup, FiniteSetTheorems, TLAPS

\* What a request has read is still so.
RequestOK(r) ==
  /\ r.at \in {"idle", "mark", "record", "correct"}
  /\ r.at \in {"mark", "record"} => {"at", "mark", "sent"} \subseteq DOMAIN r
  /\ r.at = "mark" => r.mark
  /\ r.at \in {"mark", "record"} /\ r.mark =>
       /\ DOMAIN r.sent \subseteq Visits
       /\ \A v \in DOMAIN r.sent : /\ r.sent[v] = visit[v].outcome
                                   /\ MarkedIn(v) = {}
                                   /\ r.at = "record" => visit[v].exported
  /\ r.at = "correct" => r.visit \in Visits /\ r.to \in Outcomes /\ ~visit[r.visit].exported

VisitsOK == /\ visit \in [Visits -> VisitRows]
            /\ batch = [b \in Batches |-> batch[b]]
            /\ \A b \in Batches : batch[b] # None /\ batch[b].mark => DOMAIN batch[b].sent \subseteq Visits

\* A visit in an export that marks is marked, in no other such export, and has the
\* outcome that it says.
InOne(v) == /\ \A b, c \in MarkedIn(v) : b = c
            /\ \A b \in MarkedIn(v) : visit[v].exported /\ batch[b].sent[v] = visit[v].outcome

Inv == /\ VisitsOK
       /\ handling = [s \in Slots |-> handling[s]]
       /\ \A s \in Slots : RequestOK(handling[s])
       /\ \A v \in Visits : InOne(v)

LEMMA InitInv == Init => Inv
<1> SUFFICES ASSUME Init PROVE Inv
  OBVIOUS
<1>1. visit \in [Visits -> VisitRows]
  BY DEF Init
<1>2. \A v \in Visits : MarkedIn(v) = {}
  BY DEF Init, MarkedIn
<1> QED BY <1>1, <1>2 DEF Init, Inv, VisitsOK, RequestOK, Idle, InOne

\* What a step does to the visits and batches, when no correction is made.
LEMMA Unchanged ==
  ASSUME Inv, NEW s \in Slots, NEW r, handling' = [handling EXCEPT ![s] = r],
         UNCHANGED <<visit, batch>>, RequestOK(r)
  PROVE  Inv'
<1>1. handling' = [t \in Slots |-> handling'[t]] /\ \A t \in Slots : handling'[t] = IF t = s THEN r ELSE handling[t]
  BY DEF Inv
<1>2. \A v : MarkedIn(v)' = MarkedIn(v)
  BY DEF MarkedIn
<1>3. ASSUME NEW t \in Slots PROVE RequestOK(handling[t])'
  <2>1. RequestOK(handling'[t])
    BY <1>1 DEF Inv
  <2> QED BY <2>1, <1>2 DEF RequestOK
<1>4. \A v \in Visits : InOne(v)'
  BY <1>2 DEF Inv, InOne
<1> QED BY <1>1, <1>3, <1>4 DEF Inv, VisitsOK

LEMMA StepInv ==
  ASSUME NEW only, Slots = {only}
  PROVE  Inv /\ [Next]_vars => Inv'
<1> SUFFICES ASSUME Inv, [Next]_vars PROVE Inv'
  OBVIOUS
<1>0. /\ RequestOK(handling[only]) /\ VisitsOK /\ \A v \in Visits : InOne(v)
      /\ handling = [s \in Slots |-> handling[s]] /\ DOMAIN handling = {only}
  BY DEF Inv
<1>1. RequestOK(Idle)
  BY DEF Idle, RequestOK
<1>2. ASSUME NEW s \in Slots, NEW asked \in Filters, NEW mark \in BOOLEAN, BeginExport(s, asked, mark)
      PROVE  Inv'
  <2> DEFINE loaded == Exportable(asked, mark)
             r == [at |-> IF mark /\ loaded # {} THEN "mark" ELSE "record", mark |-> mark,
                   sent |-> [v \in loaded |-> visit[v].outcome]]
  <2>1. loaded \subseteq Visits /\ \A v \in loaded : mark => ~visit[v].exported
    BY FiltersAssumption DEF Exportable
  <2>2. mark => \A v \in loaded : MarkedIn(v) = {}
    BY <1>0, <2>1 DEF InOne
  <2>3. mark /\ r.at = "record" => loaded = {}
    OBVIOUS
  <2>4. RequestOK(r)
    BY <2>1, <2>2, <2>3 DEF RequestOK
  <2> QED BY <1>2, <2>4, Unchanged DEF BeginExport, Begin
<1>3. ASSUME NEW s \in Slots, MarkExported(s) PROVE Inv'
  <2> DEFINE r == handling[only]
  <2>1. /\ r.at = "mark" /\ r.mark /\ DOMAIN r.sent \subseteq Visits
        /\ \A v \in DOMAIN r.sent : r.sent[v] = visit[v].outcome /\ MarkedIn(v) = {}
        /\ {"at", "mark", "sent"} \subseteq DOMAIN r
    BY <1>0, <1>3 DEF MarkExported, RequestOK
  <2>2. /\ \A v \in Visits : visit'[v] = IF v \in DOMAIN r.sent THEN [visit[v] EXCEPT !.exported = TRUE] ELSE visit[v]
        /\ visit' = [v \in Visits |-> visit'[v]] /\ batch' = batch
    BY <1>3 DEF MarkExported
  <2>3. \A v \in Visits : /\ visit'[v] \in VisitRows /\ visit'[v].outcome = visit[v].outcome
                          /\ visit[v].exported \/ v \in DOMAIN r.sent => visit'[v].exported
    BY <1>0, <2>2 DEF VisitsOK, VisitRows
  <2>4. \A v : MarkedIn(v)' = MarkedIn(v)
    BY <2>2 DEF MarkedIn
  <2>5. handling' = [handling EXCEPT ![only].at = "record"]
    BY <1>3 DEF MarkExported, Goto
  <2>6. /\ handling'[only].at = "record" /\ handling'[only].mark = r.mark /\ handling'[only].sent = r.sent
        /\ DOMAIN handling'[only] = DOMAIN r /\ handling' = [t \in Slots |-> handling'[t]]
    BY <1>0, <2>1, <2>5
  <2>7. RequestOK(handling[only])'
    BY <2>1, <2>3, <2>4, <2>6 DEF RequestOK
  <2>8. visit' \in [Visits -> VisitRows]
    BY <2>2, <2>3
  <2>9. \A v \in Visits : InOne(v)'
    BY <1>0, <2>2, <2>3, <2>4 DEF InOne
  <2> QED BY <1>0, <2>2, <2>6, <2>7, <2>8, <2>9 DEF Inv, VisitsOK
<1>4. ASSUME NEW s \in Slots, NEW b \in Batches, RecordExport(s, b) PROVE Inv'
  <2> DEFINE r == handling[only]
             new == [mark |-> r.mark, sent |-> r.sent]
  <2>1. /\ r.at = "record" /\ batch[b] = None /\ visit' = visit
        /\ batch' = [batch EXCEPT ![b] = new] /\ handling' = [handling EXCEPT ![only] = Idle]
    BY <1>4 DEF RecordExport, Done
  <2>2. \A c \in Batches : batch'[c] = IF c = b THEN new ELSE batch[c]
    BY <1>0, <2>1 DEF VisitsOK
  <2>3. ASSUME NEW v \in Visits, r.mark, v \in DOMAIN r.sent PROVE InOne(v)'
    <3>1. MarkedIn(v) = {} /\ visit[v].exported /\ r.sent[v] = visit[v].outcome
      BY <1>0, <2>1, <2>3 DEF RequestOK
    <3>2. \A c \in MarkedIn(v)' : c = b
      BY <2>2, <3>1 DEF MarkedIn
    <3> QED BY <2>1, <2>2, <3>1, <3>2 DEF InOne
  <2>4. ASSUME NEW v \in Visits, ~(r.mark /\ v \in DOMAIN r.sent) PROVE InOne(v)'
    <3>1. \A c \in MarkedIn(v)' : c \in MarkedIn(v) /\ c # b
      BY <2>1, <2>2, <2>4 DEF MarkedIn
    <3>2. \A c \in MarkedIn(v)' : batch'[c] = batch[c]
      BY <2>2, <3>1 DEF MarkedIn
    <3> QED BY <1>0, <2>1, <3>1, <3>2 DEF InOne
  <2>5. batch' = [c \in Batches |-> batch'[c]]
    BY <1>0, <2>1 DEF VisitsOK
  <2>6. handling'[only] = Idle /\ handling' = [t \in Slots |-> handling'[t]]
    BY <1>0, <2>1
  <2>7. RequestOK(handling[only])'
    BY <2>6 DEF Idle, RequestOK
  <2>8. \A v \in Visits : InOne(v)'
    BY <2>3, <2>4
  <2>9. r.mark => DOMAIN r.sent \subseteq Visits
    BY <1>0, <2>1 DEF RequestOK
  <2>10. \A c \in Batches : batch'[c] # None /\ batch'[c].mark => DOMAIN batch'[c].sent \subseteq Visits
    BY <1>0, <2>2, <2>9 DEF VisitsOK
  <2> QED BY <1>0, <2>1, <2>5, <2>6, <2>7, <2>8, <2>10 DEF Inv, VisitsOK
<1>5. ASSUME NEW s \in Slots, NEW v \in Visits, NEW o \in Outcomes, BeginCorrection(s, v, o) PROVE Inv'
  <2> DEFINE r == [at |-> "correct", visit |-> v, to |-> o]
  <2>1. RequestOK(r)
    BY <1>5 DEF BeginCorrection, Locked, RequestOK
  <2> QED BY <1>5, <2>1, Unchanged DEF BeginCorrection, Begin
<1>6. ASSUME NEW s \in Slots, Abandon(s) PROVE Inv'
  BY <1>1, <1>6, Unchanged DEF Abandon, Done
\* The remaining steps write a visit: none that is marked changes its outcome.
<1>7. ASSUME batch' = batch, NEW w \in Visits, NEW new \in VisitRows,
             visit' = [visit EXCEPT ![w] = new], new.exported = visit[w].exported,
             visit[w].exported => new.outcome = visit[w].outcome
      PROVE  /\ VisitsOK'
             /\ \A v \in Visits : InOne(v)' /\ MarkedIn(v)' = MarkedIn(v)
                                  /\ visit'[v].exported = visit[v].exported
  <2>1. \A v : MarkedIn(v)' = MarkedIn(v)
    BY <1>7 DEF MarkedIn
  <2>2. visit' \in [Visits -> VisitRows] /\ \A v \in Visits : visit'[v] = IF v = w THEN new ELSE visit[v]
    BY <1>0, <1>7 DEF VisitsOK
  <2>3. \A v \in Visits : InOne(v)'
    BY <1>0, <1>7, <2>1, <2>2 DEF InOne
  <2> QED BY <1>0, <1>7, <2>1, <2>2, <2>3 DEF VisitsOK
<1>8. ASSUME NEW s \in Slots, Correct(s) PROVE Inv'
  <2> DEFINE r == handling[only]
             new == [visit[r.visit] EXCEPT !.outcome = r.to]
  <2>1. /\ r.at = "correct" /\ ~visit[r.visit].exported /\ r.visit \in Visits /\ r.to \in Outcomes
        /\ batch' = batch /\ handling' = [handling EXCEPT ![only] = Idle]
    BY <1>0, <1>8 DEF Correct, Done, RequestOK
  <2>2. new \in VisitRows /\ new.exported = visit[r.visit].exported
    BY <1>0, <2>1 DEF VisitsOK, VisitRows
  <2>3. visit' = [visit EXCEPT ![r.visit] = new]
    BY <1>0, <1>8, <2>1 DEF Correct, VisitsOK
  <2>4. VisitsOK' /\ \A v \in Visits : InOne(v)'
    BY <1>7, <2>1, <2>2, <2>3
  <2>5. handling'[only] = Idle /\ handling' = [t \in Slots |-> handling'[t]]
    BY <1>0, <2>1
  <2>6. RequestOK(handling[only])'
    BY <2>5 DEF Idle, RequestOK
  <2> QED BY <2>4, <2>5, <2>6 DEF Inv
<1>9. ASSUME NEW v \in Visits, OverrideGps(v) \/ ResolveConflict(v) PROVE Inv'
  <2>1. PICK new \in VisitRows : /\ visit' = [visit EXCEPT ![v] = new]
                                 /\ new.exported = visit[v].exported /\ new.outcome = visit[v].outcome
    <3>1. CASE OverrideGps(v)
      <4> DEFINE new == [visit[v] EXCEPT !.overridden = TRUE]
      <4>1. new \in VisitRows /\ new.exported = visit[v].exported /\ new.outcome = visit[v].outcome
        BY <1>0 DEF VisitsOK, VisitRows
      <4>2. visit' = [visit EXCEPT ![v] = new]
        BY <1>0, <3>1 DEF OverrideGps, VisitsOK
      <4> QED BY <4>1, <4>2
    <3>2. CASE ResolveConflict(v)
      <4> DEFINE new == [visit[v] EXCEPT !.held = FALSE]
      <4>1. new \in VisitRows /\ new.exported = visit[v].exported /\ new.outcome = visit[v].outcome
        BY <1>0 DEF VisitsOK, VisitRows
      <4>2. visit' = [visit EXCEPT ![v] = new]
        BY <1>0, <3>2 DEF ResolveConflict, VisitsOK
      <4> QED BY <4>1, <4>2
    <3> QED BY <1>9, <3>1, <3>2
  <2>2. batch' = batch /\ handling' = handling
    BY <1>9 DEF OverrideGps, ResolveConflict
  <2>3. /\ VisitsOK'
        /\ \A w \in Visits : InOne(w)' /\ MarkedIn(w)' = MarkedIn(w)
                             /\ visit'[w].exported = visit[w].exported
    BY <1>7, <2>1, <2>2
  <2>4. \A w \in Visits : visit'[w].outcome = visit[w].outcome
    BY <1>0, <2>1 DEF VisitsOK
  <2>5. RequestOK(handling[only])'
    BY <1>0, <2>2, <2>3, <2>4 DEF RequestOK
  <2> QED BY <1>0, <2>2, <2>3, <2>5 DEF Inv
<1>10. CASE UNCHANGED vars
  <2>1. \A v : MarkedIn(v)' = MarkedIn(v)
    BY <1>10 DEF vars, MarkedIn
  <2> QED BY <1>10, <2>1 DEF vars, Inv, VisitsOK, RequestOK, InOne
<1> QED BY <1>2, <1>3, <1>4, <1>5, <1>6, <1>8, <1>9, <1>10 DEF Next, VanResultsCsv, InternalMasterCsv

(* With one export or correction at a time, a visit is in at most one      *)
(* export that marks it, whatever dies half-way and is asked for again.    *)
(* (Two exports at once can both take it; one that does not mark counts    *)
(* for nothing here and may be repeated.)                                  *)
THEOREM MarkedAtMostOnce == ASSUME NEW only, Slots = {only} PROVE Spec => []MarkedOnce
<1>1. Inv => MarkedOnce
  <2> SUFFICES ASSUME Inv, NEW v \in Visits PROVE Cardinality(MarkedIn(v)) <= 1
    BY DEF MarkedOnce
  <2>1. \A b, c \in MarkedIn(v) : b = c
    BY DEF Inv, InOne
  <2>2. CASE MarkedIn(v) = {}
    BY <2>2, FS_EmptySet
  <2>3. ASSUME NEW b \in MarkedIn(v) PROVE Cardinality(MarkedIn(v)) <= 1
    <3>1. MarkedIn(v) = {b}
      BY <2>1
    <3>2. Cardinality({b}) = 1
      BY FS_Singleton
    <3> QED BY <3>1, <3>2
  <2> QED BY <2>2, <2>3
<1> QED BY InitInv, StepInv, <1>1, PTL DEF Spec

(* Then nothing that can happen to a visit makes its outcome differ from   *)
(* what the export that marked it said.                                    *)
THEOREM MarkedIsRight == ASSUME NEW only, Slots = {only} PROVE Spec => []MarkedStaysTrue
<1>1. Inv => MarkedStaysTrue
  BY DEF Inv, InOne, MarkedStaysTrue
<1> QED BY InitInv, StepInv, <1>1, PTL DEF Spec

----------------------------------------------------------------------------
(* The timer of the clean-up.                                              *)

\* What the intervals are at each stage of the request that may change them.
AtStage(stage) ==
  /\ stage \in {"ready", "stop", "read", "arm", "leave"}
  /\ stage = "ready" /\ refreshed => timers = Scheduled
  /\ stage # "ready" => ~refreshed
  /\ stage \in {"read", "arm", "leave"} => timers = 0 /\ ~Disabled
  /\ stage = "arm" => Enabled
  /\ stage = "leave" => ~Enabled

TimerInv ==
  /\ timers \in {0, 1}
  /\ timer \in BOOLEAN /\ (timer <=> timers = 1)
  /\ up \in BOOLEAN /\ refreshed \in BOOLEAN
  /\ DOMAIN operator = Operators
  /\ \A o \in Operators : IF up THEN AtStage(operator[o]) ELSE operator[o] = "ready" /\ timers = 0

LEMMA TimerInit == RetentionInit => TimerInv
BY DEF RetentionInit, TimerInv, AtStage, Scheduled

LEMMA TimerStep ==
  ASSUME NEW only, Operators = {only}
  PROVE  TimerInv /\ [RetentionNext]_retention => TimerInv'
<1> SUFFICES ASSUME TimerInv, [RetentionNext]_retention PROVE TimerInv'
  OBVIOUS
<1> Disabled \in BOOLEAN
  BY SwitchesAssumption
\* What it takes for a step of the running process to keep the invariant.
<1>0. ASSUME up' = TRUE, DOMAIN operator' = Operators, timers' \in {0, 1},
             timer' \in BOOLEAN, timer' <=> timers' = 1, refreshed' \in BOOLEAN, AtStage(operator[only])'
      PROVE  TimerInv'
  BY <1>0 DEF TimerInv, AtStage
<1>1. ASSUME UNCHANGED schedule, UNCHANGED up PROVE TimerInv'
  BY <1>1 DEF schedule, TimerInv, AtStage, Scheduled, Enabled
<1>2. ASSUME NEW o \in Operators, NEW settings, up, SaveSettings(o, settings), up' = up
      PROVE  TimerInv'
  BY <1>2 DEF SaveSettings, TimerInv, AtStage
<1>3. ASSUME NEW o \in Operators, up, StopTimer(o), up' = up PROVE TimerInv'
  <2>1. timers' = 0 /\ timer' = FALSE /\ stored' = stored
    BY <1>3 DEF StopTimer, TimerInv
  <2>2. operator'[only] = IF Disabled THEN "ready" ELSE "read"
    BY <1>3 DEF StopTimer, TimerInv
  <2>3. DOMAIN operator' = Operators
    BY <1>3 DEF StopTimer, TimerInv
  <2>9. refreshed' = Disabled
    BY <1>3 DEF StopTimer
  <2>4. AtStage(operator[only])'
    BY <2>1, <2>2, <2>9 DEF AtStage, Scheduled
  <2>5. up' = TRUE
    BY <1>3 DEF TimerInv
  <2>6. timers' \in {0, 1}
    BY <2>1
  <2>7. timer' \in BOOLEAN
    BY <2>1
  <2>8. timer' <=> timers' = 1
    BY <2>1
  <2> QED BY <2>3, <2>4, <2>5, <2>6, <2>7, <2>8, <2>9, <1>0
<1>4. ASSUME NEW o \in Operators, up, ReadSettings(o), up' = up PROVE TimerInv'
  <2>1. /\ operator[only] = "read" /\ operator'[only] = IF Enabled THEN "arm" ELSE "leave"
        /\ DOMAIN operator' = Operators /\ UNCHANGED <<stored, timers, timer, refreshed>>
    BY <1>4 DEF ReadSettings, TimerInv
  <2> QED BY <1>4, <2>1 DEF TimerInv, AtStage, Enabled
<1>5. ASSUME NEW o \in Operators, up, ArmTimer(o), up' = up PROVE TimerInv'
  <2>1. /\ operator[only] \in {"arm", "leave"} /\ operator'[only] = "ready"
        /\ DOMAIN operator' = Operators /\ stored' = stored
        /\ timers' = (IF operator[only] = "arm" THEN timers + 1 ELSE timers)
        /\ timer' = (IF operator[only] = "arm" THEN TRUE ELSE timer)
    BY <1>5 DEF ArmTimer, TimerInv
  <2>2. timers = 0 /\ ~Disabled /\ (operator[only] = "arm" <=> Enabled)
    BY <1>5, <2>1 DEF TimerInv, AtStage
  <2>3. timers' = Scheduled' /\ Scheduled' \in {0, 1}
    <3>1. Scheduled' = IF Enabled THEN 1 ELSE 0
      BY <2>1, <2>2 DEF Scheduled, Enabled
    <3> QED BY <2>1, <2>2, <3>1
  <2>4. timer' \in BOOLEAN /\ (timer' <=> timers' = 1)
    <3>1. CASE operator[only] = "arm"
      BY <2>1, <2>2, <3>1
    <3>2. CASE operator[only] # "arm"
      BY <2>1, <2>2, <3>2 DEF TimerInv
    <3> QED BY <3>1, <3>2
  <2>11. refreshed' = TRUE
    BY <1>5 DEF ArmTimer
  <2>5. AtStage(operator[only])'
    BY <2>1, <2>3, <2>11 DEF AtStage
  <2>6. up' = TRUE
    BY <1>5 DEF TimerInv
  <2>7. DOMAIN operator' = Operators
    BY <2>1
  <2>8. timers' \in {0, 1}
    BY <2>3
  <2>9. timer' \in BOOLEAN
    BY <2>4
  <2>10. timer' <=> timers' = 1
    BY <2>4
  <2> QED BY <2>5, <2>6, <2>7, <2>8, <2>9, <2>10, <2>11, <1>0
<1>6. ASSUME Stop PROVE TimerInv'
  <2>1. /\ up' = FALSE /\ timers' = 0 /\ timer' = FALSE
        /\ operator' = [o \in Operators |-> "ready"]
    BY <1>6 DEF Stop
  <2>2. timers' = 0 /\ timers' \in {0, 1} /\ timer' \in BOOLEAN /\ up' \in BOOLEAN /\ ~up' /\ refreshed' \in BOOLEAN
    BY <2>1, <1>6 DEF Stop, TimerInv
  <2>3. timer' <=> timers' = 1
    BY <2>1
  <2>4. DOMAIN operator' = Operators /\ \A o \in Operators : operator'[o] = "ready"
    BY <2>1
  <2> QED BY <2>2, <2>3, <2>4 DEF TimerInv, AtStage
<1>7. CASE Restart
  BY <1>7 DEF Restart, TimerInv, AtStage, Scheduled, Enabled
<1>8. CASE up /\ Step /\ UNCHANGED <<up, faults>>
  <2>1. ASSUME NEW r \in Rows, Appear(r) \/ FallDue(r) PROVE UNCHANGED schedule
    BY <2>1 DEF Appear, FallDue
  <2>2. ASSUME NEW manual, NEW scope, BeginCleanup(manual, scope) PROVE UNCHANGED schedule
    BY <2>2 DEF BeginCleanup
  <2>3. ASSUME Tick \/ Proceed PROVE UNCHANGED schedule
    BY <2>2, <2>3 DEF Tick, Proceed, SelectRows, NotePlan,
                      CleanRows, ReportCleanup, AnswerFailure
  <2> QED BY <1>1, <1>2, <1>3, <1>4, <1>5, <1>8, <2>1, <2>2, <2>3 DEF Step, Refresh
<1>9. CASE FailCleanup /\ UNCHANGED up
  BY <1>1, <1>9 DEF FailCleanup
<1>10. ASSUME NEW o \in Operators, up, FailRead(o), UNCHANGED up PROVE TimerInv'
  <2>1. /\ operator[only] \in {"stop", "read"} /\ operator'[only] = "ready"
        /\ DOMAIN operator' = Operators /\ UNCHANGED <<stored, timers, timer, refreshed>>
    BY <1>10 DEF FailRead, TimerInv
  <2>2. ~refreshed
    BY <1>10, <2>1 DEF TimerInv, AtStage
  <2>3. AtStage(operator[only])'
    BY <2>1, <2>2 DEF AtStage
  <2> QED BY <1>10, <2>1, <2>3 DEF TimerInv
<1> QED BY <1>1, <1>6, <1>7, <1>8, <1>9, <1>10 DEF RetentionNext, DieUnhandled, retention

(* Between changes of the settings there is at most one interval, and once *)
(* the last change, or the start of the process, got through the schedule, *)
(* one runs exactly when automation is on, whatever fails and however      *)
(* often the process restarts.  (A change that failed leaves what it had   *)
(* reached; two at once can leave an interval that nothing stops.)         *)
THEOREM TimerFollows ==
  ASSUME NEW only, Operators = {only}
  PROVE  RetentionSpec => []ScheduleFollowsSettings
<1>1. TimerInv => ScheduleFollowsSettings
  BY DEF TimerInv, AtStage, ScheduleFollowsSettings
<1> QED BY TimerInit, TimerStep, <1>1, PTL DEF RetentionSpec

(***************************************************************************)
(* The days of the reports.                                                *)
(***************************************************************************)

\* No clock shows the local time h twice, or skips it.
Plain(h) == h \notin (Change + Before .. Change + After - 1) \cup (Change + After .. Change + Before - 1)

LEMMA DayTypes ==
  ASSUME NEW d \in Int
  PROVE  24 * d \in Int /\ Plain(24 * d) /\ Plain(24 * d + 23)
<1>1. (24 * d) % 24 = 0 /\ (24 * d + 23) % 24 = 23
  OBVIOUS
<1> DEFINE shifted == (Change + Before .. Change + After - 1) \cup (Change + After .. Change + Before - 1)
<1>2. \A h \in shifted : h % 24 # 0 /\ h % 24 # 23
  BY ZoneAssumption
<1>3. 24 * d \notin shifted /\ 24 * d + 23 \notin shifted
  <2> HIDE DEF shifted
  <2> QED BY <1>1, <1>2
<1> QED BY <1>3 DEF Plain

\* The second guess is already the instant that was asked for.
LEMMA GuessIsRight ==
  ASSUME NEW h \in Int, Plain(h)
  PROVE  /\ ZonedToUtc(h) \in Int
         /\ ZonedToUtc(h) + Offset(ZonedToUtc(h)) = h
<1>1. Before \in Int /\ After \in Int /\ Change \in Int
  BY ZoneAssumption
<1>2. ~(Change + Before <= h /\ h <= Change + After - 1) /\ ~(Change + After <= h /\ h <= Change + Before - 1)
  BY <1>1 DEF Plain
<1> DEFINE g1 == h - Offset(h)
           g2 == h - Offset(g1)
           g3 == h - Offset(g2)
<1>3. ZonedToUtc(h) = g3
  BY DEF ZonedToUtc
<1>4. CASE h < Change + Before /\ h < Change + After
  <2>1. g1 \in Int /\ g1 < Change
    BY <1>1, <1>4 DEF Offset
  <2>2. g2 = h - Before /\ g2 < Change
    BY <1>1, <1>4, <2>1 DEF Offset
  <2> HIDE DEF g1, g2
  <2>3. g3 = h - Before
    BY <1>1, <2>2 DEF Offset
  <2> HIDE DEF g3
  <2> QED BY <1>1, <1>3, <1>4, <2>3 DEF Offset
<1>5. CASE h >= Change + Before /\ h >= Change + After
  <2>1. g1 \in Int /\ ~(g1 < Change)
    BY <1>1, <1>5 DEF Offset
  <2>2. g2 = h - After /\ ~(g2 < Change)
    BY <1>1, <1>5, <2>1 DEF Offset
  <2> HIDE DEF g1, g2
  <2>3. g3 = h - After
    BY <1>1, <2>2 DEF Offset
  <2> HIDE DEF g3
  <2> QED BY <1>1, <1>3, <1>5, <2>3 DEF Offset
<1> QED BY <1>1, <1>2, <1>4, <1>5

\* Around a plain local time the clocks keep the order of instants.
LEMMA PlainKeepsOrder ==
  ASSUME NEW s \in Int, NEW t \in Int, Plain(s + Offset(s))
  PROVE  /\ s <= t <=> s + Offset(s) <= t + Offset(t)
         /\ t <= s <=> t + Offset(t) <= s + Offset(s)
<1>1. Before \in Int /\ After \in Int /\ Change \in Int
  BY ZoneAssumption
<1>2. LET h == s + Offset(s)
      IN ~(Change + Before <= h /\ h <= Change + After - 1) /\ ~(Change + After <= h /\ h <= Change + Before - 1)
  BY <1>1 DEF Plain, Offset
<1> QED BY <1>1, <1>2 DEF Offset

(* A report for certain days shows exactly the visits that the report time *)
(* zone puts on those days (getReportDateBoundary, getReportBucketDate),   *)
(* for any zone that changes its clocks once, by any amount, as long as    *)
(* not at an hour next to midnight: no visit falls between two reports, and*)
(* none is shown under a day that was not asked for.                       *)
THEOREM DaysAreExact ==
  ASSUME NEW from \in Int, NEW to \in Int, NEW t \in Int
  PROVE  StartOf(from) <= t /\ t <= EndOf(to) <=> LocalDay(t) \in from .. to
<1> DEFINE local == t + Offset(t)
<1>1. local \in Int
  BY ZoneAssumption DEF Offset
<1>2. StartOf(from) <= t <=> 24 * from <= local
  <2>1. StartOf(from) \in Int /\ StartOf(from) + Offset(StartOf(from)) = 24 * from
    BY DayTypes, GuessIsRight DEF StartOf
  <2> QED BY <2>1, DayTypes, PlainKeepsOrder
<1>3. t <= EndOf(to) <=> local <= 24 * to + 23
  <2>1. EndOf(to) \in Int /\ EndOf(to) + Offset(EndOf(to)) = 24 * to + 23
    <3>1. 24 * to + 23 \in Int
      OBVIOUS
    <3> QED BY <3>1, DayTypes, GuessIsRight DEF EndOf
  <2> QED BY <2>1, DayTypes, PlainKeepsOrder
<1>4. LocalDay(t) = local \div 24
  BY DEF LocalDay
<1> HIDE DEF local
<1>5. 24 * from <= local <=> from <= local \div 24
  BY <1>1
<1>6. local <= 24 * to + 23 <=> local \div 24 <= to
  BY <1>1
<1> QED BY <1>1, <1>2, <1>3, <1>4, <1>5, <1>6

\* Visits have different places in the order of sortVisits.
LEMMA PlacesDiffer ==
  ASSUME NEW S \in SUBSET Visits, NEW v \in S, NEW w \in S,
         Cardinality(S \cap UpTo(v)) = Cardinality(S \cap UpTo(w))
  PROVE  v = w
<1>1. \A x, y \in S : x \in UpTo(y) => S \cap UpTo(x) \in SUBSET (S \cap UpTo(y))
  BY VisitsAssumption DEF UpTo
<1>2. \A x \in S : IsFiniteSet(S \cap UpTo(x)) /\ x \in UpTo(x)
  BY VisitsAssumption, FS_Subset DEF UpTo
<1>3. v \in UpTo(w) \/ w \in UpTo(v)
  BY VisitsAssumption DEF UpTo
<1>4. S \cap UpTo(v) = S \cap UpTo(w)
  BY <1>1, <1>2, <1>3, FS_Subset
<1>5. v \in UpTo(w) /\ w \in UpTo(v)
  BY <1>2, <1>4
<1> QED BY <1>5, VisitsAssumption DEF UpTo

\* The places of visits are 1, 2, and so on.
LEMMA Ranks ==
  ASSUME NEW S \in SUBSET Visits
  PROVE  {Cardinality(S \cap UpTo(v)) : v \in S} = 1 .. Cardinality(S)
<1> DEFINE n == Cardinality(S)
           Place(v) == Cardinality(S \cap UpTo(v))
           f == [v \in S |-> Place(v)]
<1>1. IsFiniteSet(S) /\ n \in Nat
  BY VisitsAssumption, FS_Subset, FS_CardinalityType
<1>2. ASSUME NEW v \in S PROVE Place(v) \in 1 .. n
  <2>1. S \cap UpTo(v) \in SUBSET S /\ v \in S \cap UpTo(v)
    BY VisitsAssumption DEF UpTo
  <2>2. IsFiniteSet(S \cap UpTo(v)) /\ Place(v) \in Nat /\ Place(v) <= n
    BY <1>1, <2>1, FS_Subset, FS_CardinalityType
  <2>3. Place(v) # 0
    BY <2>1, <2>2, FS_EmptySet
  <2> HIDE DEF Place, n
  <2> QED BY <1>1, <2>2, <2>3
<1>3. ASSUME NEW v \in S, NEW w \in S, Place(v) = Place(w) PROVE v = w
  BY <1>3, PlacesDiffer
<1>4. IsFiniteSet(1 .. n) /\ Cardinality(1 .. n) = n
  BY <1>1, FS_Interval
<1> HIDE DEF Place, n
<1>5. f \in Injection(S, 1 .. n)
  BY <1>2, <1>3 DEF Injection, IsInjective
<1>6. f \in Surjection(S, 1 .. n)
  BY <1>4, <1>5, FS_Injection DEF n
<1> QED BY <1>2, <1>6 DEF Surjection, Place, n

\* A table that counts the visits of a set by a key sums up to their number.
LEMMA SumOfParts ==
  ASSUME NEW S \in SUBSET Visits, NEW key, NEW table,
         \A v \in S : key[v] \in DOMAIN table,
         \A k \in DOMAIN table : table[k] = Cardinality({v \in S : key[v] = k})
  PROVE  Sum(table) = Cardinality(S)
<1> DEFINE Part(k) == {v \in S : key[v] = k}
           Place(v) == Cardinality(Part(key[v]) \cap UpTo(v))
           T == UNION {{k} \X (1 .. table[k]) : k \in DOMAIN table}
           f == [v \in S |-> <<key[v], Place(v)>>]
<1>1. IsFiniteSet(S)
  BY VisitsAssumption, FS_Subset
<1>2. \A k \in DOMAIN table : {Cardinality(Part(k) \cap UpTo(v)) : v \in Part(k)} = 1 .. table[k]
  BY Ranks
<1>3. ASSUME NEW v \in S, NEW w \in S, key[v] = key[w], Place(v) = Place(w) PROVE v = w
  <2>1. PICK P : P = Part(key[v])
    OBVIOUS
  <2>2. P \in SUBSET Visits /\ v \in P /\ w \in P /\ Cardinality(P \cap UpTo(v)) = Cardinality(P \cap UpTo(w))
    BY <1>3, <2>1
  <2> QED BY <2>2, PlacesDiffer
<1>4. ASSUME NEW v \in S PROVE key[v] \in DOMAIN table /\ Place(v) \in 1 .. table[key[v]]
  BY <1>2
<1>5. ASSUME NEW k \in DOMAIN table, NEW i \in 1 .. table[k] PROVE \E v \in S : key[v] = k /\ Place(v) = i
  <2>1. PICK v \in Part(k) : i = Cardinality(Part(k) \cap UpTo(v))
    BY <1>2
  <2> QED BY <2>1
<1> HIDE DEF Place
<1>6. \A v \in S : <<key[v], Place(v)>> \in T
  BY <1>4
<1>7. \A t \in T : \E v \in S : <<key[v], Place(v)>> = t
  BY <1>5
<1> HIDE DEF T
<1>8. f \in Bijection(S, T)
  BY <1>3, <1>6, <1>7 DEF Bijection, Injection, Surjection, IsInjective
<1>9. Cardinality(T) = Cardinality(S)
  BY <1>1, <1>8, FS_Bijection DEF ExistsBijection
<1> QED BY <1>9 DEF T, Sum

\* Whether a visit is in the history does not depend on the report.
LEMMA NumberOf ==
  ASSUME NEW loaded \in SUBSET Visits, NEW v \in loaded
  PROVE  AttemptNumber(v, loaded) =
           IF visit[v].held THEN 1
           ELSE Cardinality({w \in UpTo(v) : ~visit[w].held /\ AddressOf[w] = AddressOf[v]})
<1>1. v \in History(loaded) <=> ~visit[v].held
  BY DEF History
<1>2. {w \in History(loaded) \cap UpTo(v) : AddressOf[w] = AddressOf[v]}
        = {w \in UpTo(v) : ~visit[w].held /\ AddressOf[w] = AddressOf[v]}
  BY DEF History, UpTo
<1> QED BY <1>1, <1>2 DEF AttemptNumber

\* A report of all days and canvassers leaves no visit out.
LEMMA AllLoaded == \A f \in Everything : Loaded(f) = Visits
<1> SUFFICES ASSUME NEW f \in Everything PROVE Loaded(f) = Visits
  OBVIOUS
<1>1. f.from \in Int /\ f.to \in Int /\ f.by = Anyone
  BY SpanAssumption DEF Everything, ReportFilters
<1>2. ASSUME NEW v \in Visits PROVE v \in Loaded(f)
  <2>1. LocalDay(TimeOf[v]) \in DaySpan /\ LocalDay(TimeOf[v]) \in Int
    BY SpanAssumption
  <2>2. LocalDay(TimeOf[v]) \in f.from .. f.to /\ TimeOf[v] \in Int
    BY <1>1, <2>1, VisitsAssumption DEF Everything
  <2> QED BY <1>1, <2>2, DaysAreExact DEF Loaded
<1> QED BY <1>2 DEF Loaded

(* However visits are exported, corrected, held and settled, the attempts  *)
(* at a household have the same numbers in every report, numbered from one *)
(* without gaps, for any visits: also for those of the same time.          *)
THEOREM NumberedOnce == Spec => []AttemptsNumbered
<1>1. AttemptsNumbered
  <2>1. ASSUME NEW f \in ReportFilters, NEW g \in ReportFilters, NEW v \in Loaded(f) \cap Loaded(g)
        PROVE  AttemptNumber(v, Loaded(f)) = AttemptNumber(v, Loaded(g))
    <3>1. Loaded(f) \in SUBSET Visits /\ Loaded(g) \in SUBSET Visits
      BY DEF Loaded
    <3> QED BY <3>1, NumberOf
  <2>2. ASSUME NEW f \in Everything, NEW h
        PROVE  LET counted == {v \in Loaded(f) : AddressOf[v] = h /\ ~visit[v].held}
               IN {AttemptNumber(v, Loaded(f)) : v \in counted} = 1 .. Cardinality(counted)
    <3> DEFINE counted == {v \in Loaded(f) : AddressOf[v] = h /\ ~visit[v].held}
    <3>1. Loaded(f) = Visits
      BY AllLoaded
    <3>2. counted \in SUBSET Visits
      BY <3>1
    <3>3. ASSUME NEW v \in counted
          PROVE  AttemptNumber(v, Loaded(f)) = Cardinality(counted \cap UpTo(v))
      <4>1. {w \in UpTo(v) : ~visit[w].held /\ AddressOf[w] = AddressOf[v]} = counted \cap UpTo(v)
        BY <3>1 DEF UpTo
      <4> QED BY <3>1, <4>1, NumberOf
    <3>4. {AttemptNumber(v, Loaded(f)) : v \in counted} = {Cardinality(counted \cap UpTo(v)) : v \in counted}
      BY <3>3
    <3> HIDE DEF counted
    <3>5. {AttemptNumber(v, Loaded(f)) : v \in counted} = 1 .. Cardinality(counted)
      BY <3>2, <3>4, Ranks
    <3> QED BY <3>5 DEF counted
  <2> QED BY <2>1, <2>2 DEF AttemptsNumbered
<1> QED BY <1>1, PTL

\* A report of all days counts what is in the review queues.
LEMMA QueuesShown ==
  ASSUME NEW f \in Everything
  PROVE  /\ GpsExceptions(f) = GpsReviewQueue
         /\ Overview(f).conflicts = Cardinality(SyncConflictQueue)
<1>1. GpsExceptions(f) = GpsReviewQueue
  BY AllLoaded DEF GpsExceptions, GpsReviewQueue
<1>2. Overview(f).conflicts = Count(Loaded(f), LAMBDA v : visit[v].held)
  BY DEF Overview
<1> QED BY <1>1, <1>2, AllLoaded DEF Count, SyncConflictQueue

\* A report of certain days shows no other, and of those it shows the same as
\* a report of all.
LEMMA DaysShown == \A f \in ReportFilters : DaysFit(f)
<1> SUFFICES ASSUME NEW f \in ReportFilters PROVE DaysFit(f)
  OBVIOUS
<1> DEFINE Day(v) == LocalDay(TimeOf[v])
           Shown(g) == {Day(v) : v \in Loaded(g)}
<1>1. f.from \in Int /\ f.to \in Int
  BY SpanAssumption DEF ReportFilters
<1>2. \A v \in Visits : StartOf(f.from) <= TimeOf[v] /\ TimeOf[v] <= EndOf(f.to) <=> Day(v) \in f.from .. f.to
  BY <1>1, DaysAreExact, VisitsAssumption
<1>3. \A g : /\ DOMAIN Trend(g).byDay = Shown(g)
             /\ \A d \in Shown(g) : Trend(g).byDay[d] = Cardinality({v \in Loaded(g) : Day(v) = d})
  BY DEF Trend, Count
<1> HIDE DEF Day
<1>4. Shown(f) \subseteq f.from .. f.to
  BY <1>2 DEF Loaded
<1>5. ASSUME NEW all \in Everything, f.by = Anyone, NEW d \in f.from .. f.to, d \in Shown(all)
      PROVE  d \in Shown(f) /\ {v \in Loaded(f) : Day(v) = d} = {v \in Loaded(all) : Day(v) = d}
  BY <1>2, <1>5, AllLoaded DEF Loaded
<1>6. ASSUME NEW all \in Everything, f.by = Anyone, NEW d \in f.from .. f.to, d \in DOMAIN Trend(all).byDay
      PROVE  d \in DOMAIN Trend(f).byDay /\ Trend(f).byDay[d] = Trend(all).byDay[d]
  <2>1. d \in Shown(all)
    BY <1>3, <1>6
  <2>2. d \in Shown(f) /\ {v \in Loaded(f) : Day(v) = d} = {v \in Loaded(all) : Day(v) = d}
    BY <1>5, <1>6, <2>1
  <2> HIDE DEF Shown
  <2>3. Trend(f).byDay[d] = Cardinality({v \in Loaded(f) : Day(v) = d})
    BY <1>3, <2>2
  <2>4. Trend(all).byDay[d] = Cardinality({v \in Loaded(all) : Day(v) = d})
    BY <1>3, <2>1
  <2> QED BY <1>3, <2>2, <2>3, <2>4
<1> QED BY <1>3, <1>4, <1>6 DEF DaysFit

FinalOf(L) == {v \in L : visit[v].outcome \in Final}
WithStatus(L, status) == {v \in L : GpsOf[v] = status}
By(S, c) == {v \in S : CanvasserOf[v] = c}

\* What the rows of the productivity report count.
LEMMA RowsCount ==
  ASSUME NEW f
  PROVE  /\ DOMAIN Productivity(f) = {CanvasserOf[v] : v \in Loaded(f)}
         /\ \A c \in DOMAIN Productivity(f) :
              /\ Productivity(f)[c]["total"] = Cardinality(By(Loaded(f), c))
              /\ Productivity(f)[c]["revisits"] = Cardinality(By(Revisits(Loaded(f), Loaded(f)), c))
              /\ Productivity(f)[c]["final"] = Cardinality(By(FinalOf(Loaded(f)), c))
              /\ \A status \in {"verified", "flagged"} :
                   Productivity(f)[c][status] = Cardinality(By(WithStatus(Loaded(f), status), c))
<1> DEFINE L == Loaded(f)
<1>1. DOMAIN Productivity(f) = {CanvasserOf[v] : v \in L}
  BY DEF Productivity
<1>2. ASSUME NEW c \in DOMAIN Productivity(f)
      PROVE  /\ Productivity(f)[c]["total"] = Cardinality(By(L, c))
             /\ Productivity(f)[c]["revisits"] = Cardinality(By(Revisits(L, L), c))
             /\ Productivity(f)[c]["final"] = Cardinality(By(FinalOf(L), c))
             /\ \A status \in {"verified", "flagged"} :
                  Productivity(f)[c][status] = Cardinality(By(WithStatus(L, status), c))
  <2>1. Productivity(f)[c] = [total |-> Cardinality(By(L, c)), revisits |-> Cardinality(Revisits(L, By(L, c))),
                  final |-> Cardinality(FinalOf(By(L, c))),
                  verified |-> Cardinality(WithStatus(By(L, c), "verified")),
                  flagged |-> Cardinality(WithStatus(By(L, c), "flagged"))]
    BY <1>1 DEF Productivity, Count, By, FinalOf, WithStatus
  <2>2. /\ Revisits(L, By(L, c)) = By(Revisits(L, L), c)
        /\ FinalOf(By(L, c)) = By(FinalOf(L), c)
        /\ \A status : WithStatus(By(L, c), status) = By(WithStatus(L, status), c)
    BY DEF Revisits, By, FinalOf, WithStatus
  <2> HIDE DEF L
  <2>3. /\ Productivity(f)[c]["total"] = Cardinality(By(L, c))
        /\ Productivity(f)[c]["revisits"] = Cardinality(Revisits(L, By(L, c)))
        /\ Productivity(f)[c]["final"] = Cardinality(FinalOf(By(L, c)))
        /\ Productivity(f)[c]["verified"] = Cardinality(WithStatus(By(L, c), "verified"))
        /\ Productivity(f)[c]["flagged"] = Cardinality(WithStatus(By(L, c), "flagged"))
    BY <2>1
  <2> QED BY <2>2, <2>3
<1> QED BY <1>1, <1>2

LEMMA AddUp == \A f \in ReportFilters : RowsAddUp(f)
<1> SUFFICES ASSUME NEW f \in ReportFilters PROVE RowsAddUp(f)
  OBVIOUS
<1> DEFINE L == Loaded(f)
           o == Overview(f)
           rows == Productivity(f)
           trend == Trend(f)
<1>1. /\ L \in SUBSET Visits /\ Revisits(L, L) \in SUBSET L /\ FinalOf(L) \in SUBSET L
      /\ \A status : WithStatus(L, status) \in SUBSET L
  BY DEF Loaded, Revisits, FinalOf, WithStatus
<1>2. /\ o.total = Cardinality(L) /\ o.revisits = Cardinality(Revisits(L, L)) /\ o.final = Cardinality(FinalOf(L))
      /\ o.gps = [g \in GpsStatuses |-> Cardinality(WithStatus(L, g))]
  BY DEF Overview, Count, FinalOf, WithStatus
<1>3. /\ trend.revisits = Cardinality(Revisits(L, L))
      /\ trend.byDay = [d \in {LocalDay(TimeOf[v]) : v \in L} |-> Cardinality({v \in L : LocalDay(TimeOf[v]) = d})]
      /\ trend.byOutcome = [x \in {visit[v].outcome : v \in L} |-> Cardinality({v \in L : visit[v].outcome = x})]
  BY DEF Trend, Count
<1>4. ASSUME NEW S \in SUBSET L, NEW field,
             \A c \in DOMAIN rows : rows[c][field] = Cardinality(By(S, c))
      PROVE  Sum(Column(rows, field)) = Cardinality(S)
  <2>1. DOMAIN Column(rows, field) = DOMAIN rows /\ \A c \in DOMAIN rows : Column(rows, field)[c] = rows[c][field]
    BY DEF Column
  <2>2. \A v \in S : CanvasserOf[v] \in DOMAIN rows
    BY RowsCount
  <2> HIDE DEF rows
  <2> QED BY <1>1, <1>4, <2>1, <2>2, SumOfParts DEF By
<1> HIDE DEF L, o, rows, trend
<1>5. /\ Sum(Column(rows, "total")) = o.total /\ Sum(Column(rows, "revisits")) = o.revisits
      /\ Sum(Column(rows, "final")) = o.final
  <2>1. \A c \in DOMAIN rows :
          /\ rows[c]["total"] = Cardinality(By(L, c))
          /\ rows[c]["revisits"] = Cardinality(By(Revisits(L, L), c))
          /\ rows[c]["final"] = Cardinality(By(FinalOf(L), c))
    BY RowsCount DEF L, rows
  <2> QED BY <1>1, <1>2, <1>4, <2>1
<1>6. ASSUME NEW status \in {"verified", "flagged"} PROVE Sum(Column(rows, status)) = o.gps[status]
  <2>1. \A c \in DOMAIN rows : rows[c][status] = Cardinality(By(WithStatus(L, status), c))
    BY RowsCount DEF L, rows
  <2> QED BY <1>1, <1>2, <1>4, <2>1 DEF GpsStatuses
<1>7. Sum(o.gps) = o.total
  <2>1. \A v \in L : GpsOf[v] \in DOMAIN o.gps
    BY <1>1, <1>2, GpsAssumption
  <2>2. \A g \in DOMAIN o.gps : o.gps[g] = Cardinality({v \in L : GpsOf[v] = g})
    BY <1>2 DEF WithStatus
  <2> QED BY <1>1, <1>2, <2>1, <2>2, SumOfParts
<1>8. Sum(trend.byDay) = o.total
  <2> DEFINE key == [v \in Visits |-> LocalDay(TimeOf[v])]
  <2>1. \A v \in L : key[v] = LocalDay(TimeOf[v])
    BY <1>1
  <2>2. \A v \in L : key[v] \in DOMAIN trend.byDay
    BY <1>3, <2>1
  <2>3. \A d \in DOMAIN trend.byDay : trend.byDay[d] = Cardinality({v \in L : key[v] = d})
    <3>1. \A d : {v \in L : key[v] = d} = {v \in L : LocalDay(TimeOf[v]) = d}
      BY <2>1
    <3> QED BY <1>3, <3>1
  <2> HIDE DEF key
  <2> QED BY <1>1, <1>2, <2>2, <2>3, SumOfParts
<1>9. Sum(trend.byOutcome) = o.total
  <2> DEFINE key == [v \in Visits |-> visit[v].outcome]
  <2>1. \A v \in L : key[v] = visit[v].outcome
    BY <1>1
  <2>2. \A v \in L : key[v] \in DOMAIN trend.byOutcome
    BY <1>3, <2>1
  <2>3. \A x \in DOMAIN trend.byOutcome : trend.byOutcome[x] = Cardinality({v \in L : key[v] = x})
    <3>1. \A x : {v \in L : key[v] = x} = {v \in L : visit[v].outcome = x}
      BY <2>1
    <3> QED BY <1>3, <3>1
  <2> HIDE DEF key
  <2> QED BY <1>1, <1>2, <2>2, <2>3, SumOfParts
<1> QED BY <1>2, <1>3, <1>5, <1>6, <1>7, <1>8, <1>9 DEF RowsAddUp, o, rows, trend

LEMMA ExceptionsShown == \A f \in ReportFilters : ExceptionsFollow(f)
<1> SUFFICES ASSUME NEW f \in ReportFilters PROVE ExceptionsFollow(f)
  OBVIOUS
<1> DEFINE L == Loaded(f)
           Verified == {v \in L : GpsOf[v] = "verified"}
           Rest == L \ Verified
           Overridden == {v \in L : visit[v].overridden}
<1>1. IsFiniteSet(L) /\ IsFiniteSet(Verified) /\ IsFiniteSet(Rest) /\ IsFiniteSet(Overridden)
  <2>1. L \in SUBSET Visits
    BY DEF Loaded
  <2>2. Verified \in SUBSET L /\ Rest \in SUBSET L /\ Overridden \in SUBSET L
    OBVIOUS
  <2> HIDE DEF L, Verified, Rest, Overridden
  <2> QED BY <2>1, <2>2, VisitsAssumption, FS_Subset
<1>2. /\ Overview(f).total = Cardinality(L) /\ Overview(f).gps["verified"] = Cardinality(Verified)
      /\ Overview(f).overrides = Cardinality(Overridden)
  BY DEF Overview, Count, GpsStatuses
<1>3. GpsExceptions(f) = Rest \cup Overridden
  BY DEF GpsExceptions
<1>4. Verified = L \ Rest
  OBVIOUS
<1>5. Rest \cap Verified = {} /\ Rest \cup Verified = L
  OBVIOUS
<1> HIDE DEF L, Verified, Rest, Overridden
<1>6. Cardinality(Rest) = Cardinality(L) - Cardinality(Verified)
  <2>1. Cardinality(Rest \cup Verified) = Cardinality(Rest) + Cardinality(Verified) - Cardinality(Rest \cap Verified)
    BY <1>1, FS_Union
  <2>2. Cardinality(Rest) \in Nat /\ Cardinality(Verified) \in Nat /\ Cardinality(Rest \cap Verified) = 0
    BY <1>1, <1>5, FS_CardinalityType, FS_EmptySet
  <2> QED BY <1>5, <2>1, <2>2
<1>7. /\ Cardinality(Rest) <= Cardinality(Rest \cup Overridden)
      /\ Cardinality(Rest \cup Overridden) <= Cardinality(Rest) + Cardinality(Overridden)
  <2>1. /\ IsFiniteSet(Rest \cup Overridden)
        /\ Cardinality(Rest \cup Overridden)
             = Cardinality(Rest) + Cardinality(Overridden) - Cardinality(Rest \cap Overridden)
    BY <1>1, FS_Union
  <2>2. IsFiniteSet(Rest \cap Overridden)
    BY <1>1, FS_Intersection
  <2>3. Cardinality(Rest) \in Nat /\ Cardinality(Overridden) \in Nat /\ Cardinality(Rest \cap Overridden) \in Nat
    BY <1>1, <2>2, FS_CardinalityType
  <2>4. Cardinality(Rest) <= Cardinality(Rest \cup Overridden)
    BY <2>1, FS_Subset
  <2> QED BY <2>1, <2>3, <2>4
<1> QED BY <1>2, <1>3, <1>6, <1>7 DEF ExceptionsFollow

\* No visit is in two batches that marked, so their rows are no more than the
\* marked visits.
LEMMA RowsAreMarked ==
  ASSUME Inv
  PROVE  Sum(MarkedRows) <= Cardinality({v \in Visits : visit[v].exported})
<1> DEFINE S == {v \in Visits : MarkedIn(v) # {}}
           Marked == {v \in Visits : visit[v].exported}
           key == [v \in Visits |-> CHOOSE b \in Batches : b \in MarkedIn(v)]
<1>1. \A v \in S : key[v] \in MarkedIn(v) /\ \A b \in MarkedIn(v) : b = key[v]
  BY DEF Inv, InOne, MarkedIn
<1>2. DOMAIN MarkedRows = {b \in Batches : batch[b] # None /\ batch[b].mark}
  BY DEF MarkedRows, ExportBatchAnalytics
<1>3. ASSUME NEW b \in DOMAIN MarkedRows PROVE MarkedRows[b] = Cardinality({v \in S : key[v] = b})
  <2>1. MarkedRows[b] = Cardinality(DOMAIN batch[b].sent)
    BY <1>2 DEF MarkedRows, ExportBatchAnalytics
  <2>2. DOMAIN batch[b].sent \subseteq Visits
    BY <1>2 DEF Inv, VisitsOK
  <2>3. \A v \in Visits : v \in DOMAIN batch[b].sent <=> b \in MarkedIn(v)
    BY <1>2 DEF MarkedIn
  <2>4. DOMAIN batch[b].sent = {v \in S : key[v] = b}
    BY <1>1, <2>2, <2>3
  <2> QED BY <2>1, <2>4
<1>4. \A v \in S : key[v] \in DOMAIN MarkedRows
  BY <1>1, <1>2 DEF MarkedIn
<1>5. Sum(MarkedRows) = Cardinality(S)
  <2> HIDE DEF key
  <2> QED BY <1>3, <1>4, SumOfParts
<1>6. S \in SUBSET Marked /\ Marked \in SUBSET Visits
  BY DEF Inv, InOne
<1> QED BY <1>5, <1>6, VisitsAssumption, FS_Subset

(* However visits are exported, corrected, held and settled, one request at*)
(* a time, the reports agree: rows sum up to totals, days and statuses     *)
(* divide the visits, a report of all days shows the review queues, and    *)
(* batches that mark take no more than is marked, for any visits and days. *)
THEOREM ReportsAreConsistent ==
  ASSUME NEW only, Slots = {only}
  PROVE  Spec => []ReportsAgree
<1>1. Inv => ReportsAgree
  BY RowsAreMarked, QueuesShown, AddUp, ExceptionsShown, DaysShown DEF ReportsAgree
<1> QED BY InitInv, StepInv, <1>1, PTL DEF Spec
=============================================================================
