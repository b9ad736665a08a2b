------------------------------- MODULE Reports -------------------------------
(***************************************************************************)
(* ReportsService over the records of VisitRecords: every report queries   *)
(* the visits anew by its filters, numbers the attempts of each household  *)
(* and counts in its own way.  Sessions, and who may ask for which filter, *)
(* are left out.                                                           *)
(***************************************************************************)
EXTENDS VisitRecords, BucketTime

CONSTANTS AddressOf, CanvasserOf, GpsOf,   \* of each visit: household, author, GPS status
          TimeOf, IdOf,                    \* when it took place, and its id as a number
          Final,                           \* outcomes that are final dispositions
          DaySpan                          \* days a report can be asked for

ASSUME VisitsAssumption ==
  /\ IsFiniteSet(Visits)
  /\ TimeOf \in [Visits -> Int]
  /\ IdOf \in [Visits -> Nat]
  /\ \A v, w \in Visits : IdOf[v] = IdOf[w] => v = w
ASSUME SpanAssumption == DaySpan \subseteq Int /\ \A v \in Visits : LocalDay(TimeOf[v]) \in DaySpan

GpsStatuses == {"verified", "flagged", "missing", "low_accuracy"}
ASSUME GpsAssumption == GpsOf \in [Visits -> GpsStatuses]

Anyone == "anyone"
ReportFilters == [from : DaySpan, to : DaySpan, by : {CanvasserOf[v] : v \in Visits} \cup {Anyone}]
Everything == {f \in ReportFilters : f.by = Anyone /\ \A d \in DaySpan : f.from <= d /\ d <= f.to}

\* buildVisitWhere, with the boundaries of getRange.
Loaded(f) == {v \in Visits : /\ StartOf(f.from) <= TimeOf[v] /\ TimeOf[v] <= EndOf(f.to)
                             /\ f.by \in {Anyone, CanvasserOf[v]}}

\* loadVisitAttemptHistory: whatever counts at the households of the visits.
HistoryMutant(loaded) == {v \in loaded : ~visit[v].held}
History(loaded) == {v \in Visits : ~visit[v].held /\ \E w \in loaded : AddressOf[w] = AddressOf[v]}

\* sortVisits: by time, and visits of one time by id.
UpTo(v) == {w \in Visits : \/ TimeOf[w] < TimeOf[v]
                           \/ TimeOf[w] = TimeOf[v] /\ IdOf[w] <= IdOf[v]}

\* attachVisitAttemptMetrics: a held visit is not in the history, and counts as
\* a first attempt.
AttemptNumber(v, loaded) ==
  IF v \in History(loaded)
  THEN Cardinality({w \in History(loaded) \cap UpTo(v) : AddressOf[w] = AddressOf[v]})
  ELSE 1

Revisits(loaded, among) == {v \in among : AttemptNumber(v, loaded) > 1}

Count(S, P(_)) == Cardinality({v \in S : P(v)})

Overview(f) ==
  LET L == Loaded(f)
  IN [total |-> Cardinality(L), revisits |-> Cardinality(Revisits(L, L)),
      addresses |-> Cardinality({AddressOf[v] : v \in L}),
      conflicts |-> Count(L, LAMBDA v : visit[v].held),
      overrides |-> Count(L, LAMBDA v : visit[v].overridden),
      final |-> Count(L, LAMBDA v : visit[v].outcome \in Final),
      gps |-> [g \in GpsStatuses |-> Count(L, LAMBDA v : GpsOf[v] = g)]]

\* getProductivity: a row for each canvasser with visits.
Productivity(f) ==
  LET L == Loaded(f)
      Row(c) == LET own == {v \in L : CanvasserOf[v] = c}
                IN [total |-> Cardinality(own), revisits |-> Cardinality(Revisits(L, own)),
                    final |-> Count(own, LAMBDA v : visit[v].outcome \in Final),
                    verified |-> Count(own, LAMBDA v : GpsOf[v] = "verified"),
                    flagged |-> Count(own, LAMBDA v : GpsOf[v] = "flagged")]
  IN [c \in {CanvasserOf[v] : v \in L} |-> Row(c)]

GpsExceptions(f) == {v \in Loaded(f) : GpsOf[v] # "verified" \/ visit[v].overridden}

\* The dashboard's queues ask the tables on their own: AdminService.gpsReviewQueue
\* and syncConflictQueue.
GpsReviewQueue == {v \in Visits : GpsOf[v] # "verified" \/ visit[v].overridden}
SyncConflictQueue == {v \in Visits : visit[v].held}

\* getTrendSummary: visits by the day of the report time zone.
Trend(f) ==
  LET L == Loaded(f)
  IN [revisits |-> Cardinality(Revisits(L, L)),
      byDay |-> [d \in {LocalDay(TimeOf[v]) : v \in L} |-> Count(L, LAMBDA v : LocalDay(TimeOf[v]) = d)],
      byOutcome |-> [o \in {visit[v].outcome : v \in L} |-> Count(L, LAMBDA v : visit[v].outcome = o)]]

\* getExportBatchAnalytics: a row for each batch.
ExportBatchAnalytics ==
  [b \in {b \in Batches : batch[b] # None} |->
     [rowCount |-> Cardinality(DOMAIN batch[b].sent), markExported |-> batch[b].mark]]

----------------------------------------------------------------------------

(* The number of an attempt does not depend on the filters of the report   *)
(* that shows it, and the counted attempts of a household are numbered     *)
(* from one without gaps.                                                  *)
AttemptsNumbered ==
  /\ \A f, g \in ReportFilters : \A v \in Loaded(f) \cap Loaded(g) :
       AttemptNumber(v, Loaded(f)) = AttemptNumber(v, Loaded(g))
  /\ \A f \in Everything, h \in {AddressOf[v] : v \in Visits} :
       LET counted == {v \in Loaded(f) : AddressOf[v] = h /\ ~visit[v].held}
       IN {AttemptNumber(v, Loaded(f)) : v \in counted} = 1 .. Cardinality(counted)

\* The sum of a table of numbers: how many there are of 1 .. table[k], for all
\* k.  (Counted out and not folded, so that it can be reasoned about.)
Sum(table) == Cardinality(UNION {{k} \X (1 .. table[k]) : k \in DOMAIN table})
Column(rows, field) == [k \in DOMAIN rows |-> rows[k][field]]

\* The rows of the batches that marked what they took.
MarkedRows == [b \in {c \in DOMAIN ExportBatchAnalytics : ExportBatchAnalytics[c].markExported} |->
                ExportBatchAnalytics[b].rowCount]

\* The rows of one report sum up to the totals of another.
RowsAddUp(f) ==
  LET o == Overview(f)
      rows == Productivity(f)
      trend == Trend(f)
  IN /\ Sum(Column(rows, "total")) = o.total /\ Sum(o.gps) = o.total
     /\ Sum(trend.byDay) = o.total /\ Sum(trend.byOutcome) = o.total
     /\ Sum(Column(rows, "revisits")) = o.revisits /\ o.revisits = trend.revisits
     /\ Sum(Column(rows, "final")) = o.final
     /\ \A status \in {"verified", "flagged"} : Sum(Column(rows, status)) = o.gps[status]

\* Whatever is not verified is an exception, and so is what was overridden.
ExceptionsFollow(f) ==
  LET o == Overview(f)
      unverified == o.total - o.gps["verified"]
  IN unverified <= Cardinality(GpsExceptions(f)) /\ Cardinality(GpsExceptions(f)) <= unverified + o.overrides

\* Asking for certain days gives exactly the visits shown under those days.
DaysFit(f) ==
  /\ DOMAIN Trend(f).byDay \subseteq f.from .. f.to
  /\ \A all \in Everything : f.by = Anyone =>
       \A d \in f.from .. f.to : d \in DOMAIN Trend(all).byDay =>
         d \in DOMAIN Trend(f).byDay /\ Trend(f).byDay[d] = Trend(all).byDay[d]

(* The reports agree: the rows of one sum up to the totals of another, and *)
(* asking for certain days gives exactly the visits shown under those days,*)
(* on the days the clocks change too.  A report of all days counts what is *)
(* in the review queues.  The rows of the exports that mark theirs are     *)
(* no more than the visits that are marked.                                *)
ReportsAgree ==
  /\ Sum(MarkedRows) <= Cardinality({v \in Visits : visit[v].exported})
  /\ \A f \in Everything : /\ GpsExceptions(f) = GpsReviewQueue
                            /\ Overview(f).conflicts = Cardinality(SyncConflictQueue)
  /\ \A f \in ReportFilters : RowsAddUp(f) /\ ExceptionsFollow(f) /\ DaysFit(f)
=============================================================================
