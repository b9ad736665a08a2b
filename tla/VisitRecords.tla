---------------------------- MODULE VisitRecords ----------------------------
(***************************************************************************)
(* What happens to a stored visit: staff settle a conflict, override its   *)
(* GPS result or correct its outcome, and exports send it to VAN.  An      *)
(* export (ExportsService) loads visits, marks them, and only then records *)
(* the batch that says where they went; a correction (VisitsService) loads *)
(* a visit, checks that it is not locked, and then writes it by id.        *)
(***************************************************************************)
EXTENDS Naturals, FiniteSets

CONSTANTS Visits,
          Outcomes,     \* outcome codes a visit can have
          Filters,      \* sets of visits an export can ask for: all, or a turf's
          MaxRows,      \* MAX_EXPORT_ROWS
          Batches,      \* ids of export batches: bounds how many are recorded
          Slots,        \* requests handled at once
          None

ASSUME FiltersAssumption == Filters \subseteq SUBSET Visits
ASSUME MaxRowsAssumption == MaxRows \in Nat \ {0}

VARIABLES visit,     \* visit_logs rows
          batch,     \* export_batches rows and their links to visits
          handling   \* requests between two of their statements

vars == <<visit, batch, handling>>
Idle == [at |-> "idle"]

VisitRows == [held : BOOLEAN,         \* syncStatus conflict and its flag
              outcome : Outcomes,
              exported : BOOLEAN,     \* vanExported
              overridden : BOOLEAN]   \* geofenceResult.overrideFlag
\* A batch links the visits it sent and keeps what it said of each.
Sent == UNION {[sel -> Outcomes] : sel \in SUBSET Visits}
BatchRows == [mark : BOOLEAN, sent : Sent]

Requests == [at : {"mark", "record"}, mark : BOOLEAN, sent : Sent]
            \cup [at : {"correct"}, visit : Visits, to : Outcomes]

TypeOK == /\ visit \in [Visits -> VisitRows]
          /\ batch \in [Batches -> BatchRows \cup {None}]
          /\ handling \in [Slots -> Requests \cup {Idle}]

\* Visits arrive synced, or held when they disagree with the record.
Init ==
  /\ visit \in [Visits -> {r \in VisitRows : ~r.exported /\ ~r.overridden}]
  /\ batch = [b \in Batches |-> None]
  /\ handling = [s \in Slots |-> Idle]

Begin(s, request) == handling[s] = Idle /\ handling' = [handling EXCEPT ![s] = request]
Goto(s, label) == handling' = [handling EXCEPT ![s].at = label]
Done(s) == handling' = [handling EXCEPT ![s] = Idle]

----------------------------------------------------------------------------
(* Exports. *)

\* fetchVisits: an export that marks leaves out what was exported before.
Exportable(asked, mark) ==
  {v \in asked : ~visit[v].held /\ (mark => ~visit[v].exported)}

BeginExport(s, asked, mark) ==
  LET loaded == Exportable(asked, mark)
  IN /\ Cardinality(loaded) <= MaxRows
     /\ Begin(s, [at |-> IF mark /\ loaded # {} THEN "mark" ELSE "record", mark |-> mark,
                  sent |-> [v \in loaded |-> visit[v].outcome]])
     /\ UNCHANGED <<visit, batch>>

VanResultsCsv(s, asked, mark) == BeginExport(s, asked, mark)

\* Prints more of each visit, takes also what was exported, and never marks.
InternalMasterCsv(s, asked) == BeginExport(s, asked, FALSE)

MarkExportedMutant(s) ==
  /\ handling[s].at = "mark"
  /\ Goto(s, "record")
  /\ UNCHANGED <<visit, batch>>

MarkExported(s) ==
  /\ handling[s].at = "mark"
  /\ visit' = [v \in Visits |-> IF v \in DOMAIN handling[s].sent
                                THEN [visit[v] EXCEPT !.exported = TRUE] ELSE visit[v]]
  /\ Goto(s, "record")
  /\ UNCHANGED batch

RecordExport(s, b) ==
  /\ handling[s].at = "record"
  /\ batch[b] = None
  /\ batch' = [batch EXCEPT ![b] = [mark |-> handling[s].mark, sent |-> handling[s].sent]]
  /\ Done(s)
  /\ UNCHANGED visit

----------------------------------------------------------------------------
(* Corrections and reviews.  Staff may always correct; a canvasser only an *)
(* own and recent visit, which changes who asks and not what happens.      *)

LockedMutant(v) == visit[v].held \/ visit[v].overridden

Locked(v) == visit[v].exported \/ visit[v].held \/ visit[v].overridden

BeginCorrection(s, v, outcome) ==
  /\ ~Locked(v)
  /\ outcome # visit[v].outcome
  /\ Begin(s, [at |-> "correct", visit |-> v, to |-> outcome])
  /\ UNCHANGED <<visit, batch>>

Correct(s) ==
  /\ handling[s].at = "correct"
  /\ visit' = [visit EXCEPT ![handling[s].visit].outcome = handling[s].to]
  /\ Done(s)
  /\ UNCHANGED batch

OverrideGps(v) ==
  /\ visit' = [visit EXCEPT ![v].overridden = TRUE]
  /\ UNCHANGED <<batch, handling>>

ResolveConflict(v) ==
  /\ visit[v].held
  /\ visit' = [visit EXCEPT ![v].held = FALSE]
  /\ UNCHANGED <<batch, handling>>

\* A request fails, or the process stops, between two of its statements.
Abandon(s) == handling[s] # Idle /\ Done(s) /\ UNCHANGED <<visit, batch>>

Next ==
  \/ \E s \in Slots : \/ \E asked \in Filters, mark \in BOOLEAN : VanResultsCsv(s, asked, mark)
                      \/ \E asked \in Filters : InternalMasterCsv(s, asked)
                      \/ MarkExported(s)
                      \/ \E b \in Batches : RecordExport(s, b)
                      \/ \E v \in Visits, o \in Outcomes : BeginCorrection(s, v, o)
                      \/ Correct(s)
                      \/ Abandon(s)
  \/ \E v \in Visits : OverrideGps(v) \/ ResolveConflict(v)

Spec == Init /\ [][Next]_vars

----------------------------------------------------------------------------
(* Properties. *)

\* The exports that took v and were told to mark it.  An export that does not mark
\* writes the same rows, but locks nothing and may be repeated at will.
MarkedIn(v) == {b \in Batches : batch[b] # None /\ batch[b].mark /\ v \in DOMAIN batch[b].sent}

\* A visit is in at most one export that marks, also when one dies half-way and
\* is asked for again.  (Two exports at once can both take it.)
MarkedOnce == \A v \in Visits : Cardinality(MarkedIn(v)) <= 1

\* What an export that marks said of a visit is what is on record, for good: nothing
\* that can happen to a visit changes its outcome afterwards.  (A correction that
\* overlaps the export breaks it.)
MarkedStaysTrue == \A v \in Visits : \A b \in MarkedIn(v) : batch[b].sent[v] = visit[v].outcome

\* What is marked as exported is found in a batch that says so, unless the
\* export that marked it is still at work.
MarkedIsTraced ==
  \A v \in Visits : visit[v].exported =>
    \/ MarkedIn(v) # {}
    \/ \E s \in Slots : handling[s] # Idle /\ handling[s].at = "record" /\ v \in DOMAIN handling[s].sent
=============================================================================
