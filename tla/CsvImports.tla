----------------------------- MODULE CsvImports -----------------------------
(***************************************************************************)
(* ImportsService: a file is imported turf by turf and row by row, without *)
(* a transaction, and the batch that records it is written at the end.     *)
(* Rows that duplicate an address may be held for review, and staff merge  *)
(* or skip them later.  The rows of a file come grouped by turf.           *)
(***************************************************************************)
EXTENDS Households, Integers

CONSTANTS Batches,     \* ids of import batches: bounds how many are recorded
          Lines,       \* row indexes of a file: 1 .. the longest file
          Files        \* files that can be imported: sequences of Rows

ASSUME FilesAssumption == \A f \in Files : f \in Seq(Rows) /\ f # <<>> /\ Len(f) \in Lines
ASSUME LinesAssumption == Lines \subseteq Nat /\ \A n \in Lines : 1 .. n \subseteq Lines

VARIABLES batches,
          applied      \* history: the held rows that were written to their address

Modes == {"create_only", "upsert", "replace_turf_membership"}
Strategies == {"skip", "error", "merge", "review"}
Statuses == {"created", "merged", "skipped_duplicate", "skipped_invalid", "pending_review"}

\* What the request, the profile and the policy settle on, in this order.
Settings == [mode : Modes, strategy : Strategies]

RowResults == [status : Statuses, row : Rows, candidate : OrNone(Places),
               decided : 0 .. 2]      \* history: how often it was resolved
BatchRows == [rows : Seq(RowResults), counts : [Statuses -> Int]]
BatchesOK == /\ batches \in [Batches -> OrNone(BatchRows)]
             /\ \A b \in Batches : batches[b] # None => Len(batches[b].rows) \in Lines

HeldRows == Batches \X Lines
AppliedOK == applied \in SUBSET HeldRows

ASSUME NoBatchAssumption == None \notin BatchRows

Count(results, status) == Cardinality({i \in DOMAIN results : results[i].status = status})

\* previewCsv: what an import of the file will meet, and what it lacks.
Preview(file) == [rowsReady |-> Cardinality({i \in DOMAIN file : file[i].text # None}),
                  rowsMissingRequired |-> Cardinality({i \in DOMAIN file : file[i].text = None}),
                  turfNames |-> {file[i].name : i \in DOMAIN file}]

Held(b) == {i \in DOMAIN batches[b].rows : batches[b].rows[i].status = "pending_review"}
ImportReviewQueue == UNION {{b} \X Held(b) : b \in {c \in Batches : batches[c] # None}}

----------------------------------------------------------------------------
(* importCsv. *)

BeginImport(s, settings, file) ==
  /\ Send(s, [at |-> "turf", mode |-> settings.mode, strategy |-> settings.strategy, rows |-> file,
              turf |-> None, found |-> FALSE, seen |-> {}, home |-> None, duplicate |-> None,
              results |-> <<>>])
  /\ UNCHANGED <<tables, batches, applied>>

Continue(s, job) == handling' = [handling EXCEPT ![s] = job]

\* The turf of the next rows: one with that name, or a new one.
BeginTurf(s) ==
  LET job == handling[s]
      name == Head(job.rows).name
      named == IF job.mode = "create_only" THEN {} ELSE {t \in Turfs : turfs[t] = name}
  IN /\ job.at = "turf"
     /\ \E t \in IF named # {} THEN named ELSE {u \in Turfs : turfs[u] = None} :
          /\ turfs' = [turfs EXCEPT ![t] = name]
          /\ Continue(s, [job EXCEPT !.at = "row", !.turf = t, !.found = (named # {}), !.seen = {}])
     /\ UNCHANGED <<homes, places, batches, applied>>

MoreRows(job) == job.rows # <<>> /\ Head(job.rows).name = turfs[job.turf]

Settle(job, status, candidate) ==
  [job EXCEPT !.at = "row", !.rows = Tail(@), !.home = None, !.duplicate = None,
     !.results = Append(@, [status |-> status, row |-> Head(job.rows), candidate |-> candidate,
                            decided |-> 0])]

ImportRow(s) ==
  LET job == handling[s]
  IN /\ job.at = "row" /\ MoreRows(job)
     /\ IF Head(job.rows).text = None
        THEN /\ Continue(s, Settle(job, "skipped_invalid", None))
             /\ UNCHANGED homes
        ELSE \E h \in Homes : /\ EnsureHousehold(Head(job.rows), h)
                              /\ Continue(s, [job EXCEPT !.at = "find", !.home = h])
     /\ UNCHANGED <<turfs, places, batches, applied>>

\* Is the household on the turf?  Nothing keeps another request from putting it
\* there before this one acts on the answer.
FindDuplicate(s) ==
  LET job == handling[s]
      duplicates == {a \in LiveOn(job.turf) : places[a].home = job.home}
  IN /\ job.at = "find"
     /\ \E d \in IF duplicates = {} THEN {None} ELSE duplicates :
          Continue(s, [job EXCEPT !.at = "place", !.duplicate = d])
     /\ UNCHANGED <<tables, batches, applied>>

\* The household was on the turf: what happens to the row is the strategy's.
PlaceDuplicate(s, job, d) ==
  CASE job.strategy = "error"  -> Done(s) /\ UNCHANGED places
    [] job.strategy = "review" -> Continue(s, Settle(job, "pending_review", d)) /\ UNCHANGED places
    [] job.strategy = "merge"  -> /\ Continue(s, Settle(job, "merged", d))
                                  /\ places' = [places EXCEPT ![d].key = KeyOf[Head(job.rows).text]]
    [] OTHER -> Continue(s, Settle(job, "skipped_duplicate", d)) /\ UNCHANGED places

PlaceNew(s, job, a) ==
  /\ Continue(s, Settle(job, "created", None))
  /\ places' = Placed(a, job.turf, job.home, Head(job.rows).text, FALSE)

Seen(s) == [handling[s] EXCEPT !.seen = @ \cup {handling[s].home}]

PlaceRowMutant(s) ==
  LET job == Seen(s)
  IN /\ handling[s].at = "place"
     /\ \E a \in Vacant : PlaceNew(s, job, a)
     /\ UNCHANGED <<turfs, homes, batches, applied>>

PlaceRow(s) ==
  LET job == Seen(s)
  IN /\ handling[s].at = "place"
     /\ \/ job.duplicate # None /\ PlaceDuplicate(s, job, job.duplicate)
        \/ job.duplicate = None /\ \E a \in Vacant : PlaceNew(s, job, a)
     /\ UNCHANGED <<turfs, homes, batches, applied>>

LeaveTurf(job) == IF job.rows # <<>> THEN [job EXCEPT !.at = "turf"]
                  ELSE [at |-> "batch", results |-> job.results]

\* After the last row of a turf, a replacement removes who was not in the file.
EndTurfMutant(s) ==
  LET job == handling[s]
      gone == IF job.mode = "replace_turf_membership" /\ job.found /\ job.seen # {}
              THEN {a \in LiveOn(job.turf) : places[a].home \notin job.seen /\ ~places[a].field}
              ELSE {}
  IN /\ job.at = "row" /\ ~MoreRows(job)
     /\ places' = [a \in Places |-> IF a \in gone THEN [places[a] EXCEPT !.live = FALSE]
                                    ELSE places[a]]
     /\ Continue(s, LeaveTurf(job))
     /\ UNCHANGED <<turfs, homes, batches, applied>>

EndTurf(s) ==
  LET job == handling[s]
      gone == IF job.mode = "replace_turf_membership" /\ job.found /\ job.seen # {}
              THEN {a \in LiveOn(job.turf) : places[a].home \notin job.seen}
              ELSE {}
  IN /\ job.at = "row" /\ ~MoreRows(job)
     /\ places' = [a \in Places |-> IF a \in gone THEN [places[a] EXCEPT !.live = FALSE]
                                    ELSE places[a]]
     /\ Continue(s, LeaveTurf(job))
     /\ UNCHANGED <<turfs, homes, batches, applied>>

RecordBatch(s) ==
  LET results == handling[s].results
  IN /\ handling[s].at = "batch"
     /\ \E b \in Batches :
          /\ batches[b] = None
          /\ batches' = [batches EXCEPT ![b] =
               [rows |-> results, counts |-> [status \in Statuses |-> Count(results, status)]]]
     /\ Done(s)
     /\ UNCHANGED <<tables, applied>>

----------------------------------------------------------------------------
(* resolveImportReview: the address, the row and the counters, one by one. *)

\* The write to the address is forgotten.
ResolutionMutant(action, b, i) == [at |-> "skip", batch |-> b, row |-> i,
                                   to |-> IF action = "merge" THEN "merged" ELSE "skipped_duplicate"]

Resolution(action, b, i) == [at |-> action, batch |-> b, row |-> i,
                             to |-> IF action = "merge" THEN "merged" ELSE "skipped_duplicate"]

BeginResolve(s, action, b, i) ==
  /\ i \in Held(b)
  /\ Send(s, Resolution(action, b, i))
  /\ UNCHANGED <<tables, batches, applied>>

MergeAddress(s) ==
  LET result == batches[handling[s].batch].rows[handling[s].row]
  IN /\ handling[s].at = "merge"
     /\ places' = [places EXCEPT ![result.candidate].key = KeyOf[result.row.text]]
     /\ applied' = applied \cup {<<handling[s].batch, handling[s].row>>}
     /\ Continue(s, [handling[s] EXCEPT !.at = "skip"])
     /\ UNCHANGED <<turfs, homes, batches>>

Decided(result, to) == [result EXCEPT !.status = to, !.decided = IF @ = 2 THEN 2 ELSE @ + 1]

ResolveRow(s) ==
  LET job == handling[s]
  IN /\ job.at = "skip"
     /\ batches' = [batches EXCEPT ![job.batch].rows[job.row] = Decided(@, job.to)]
     /\ Continue(s, [job EXCEPT !.at = "count"])
     /\ UNCHANGED <<tables, applied>>

CountRowMutant(s) ==
  LET job == handling[s]
  IN /\ job.at = "count"
     /\ batches' = [batches EXCEPT ![job.batch].counts["pending_review"] = @ - 1]
     /\ Done(s)
     /\ UNCHANGED <<tables, applied>>

CountRow(s) ==
  LET job == handling[s]
  IN /\ job.at = "count"
     /\ batches' = [batches EXCEPT ![job.batch].counts["pending_review"] = @ - 1,
                                   ![job.batch].counts[job.to] = @ + 1]
     /\ Done(s)
     /\ UNCHANGED <<tables, applied>>

ImportsNext ==
  \E s \in Loaders :
    \/ \E settings \in Settings, file \in Files : BeginImport(s, settings, file)
    \/ BeginTurf(s) \/ ImportRow(s) \/ FindDuplicate(s) \/ PlaceRow(s) \/ EndTurf(s) \/ RecordBatch(s)
    \/ \E b \in {c \in Batches : batches[c] # None}, action \in {"merge", "skip"} :
         \E i \in DOMAIN batches[b].rows : BeginResolve(s, action, b, i)
    \/ MergeAddress(s) \/ ResolveRow(s) \/ CountRow(s)
=============================================================================
