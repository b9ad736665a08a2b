----------------------------- MODULE AddressBook -----------------------------
(***************************************************************************)
(* Address requests and imports over the same turfs and households: the    *)
(* canvassers add addresses while files replace the membership of a turf,  *)
(* and any handler may die between two of its writes.                      *)
(***************************************************************************)
EXTENDS AddressRequests, CsvImports

vars == <<turfs, homes, places, handling, asked, batches, applied>>

RowsOK == TablesOK /\ AskedOK /\ BatchesOK
TypeOK == RowsOK /\ AppliedOK

Init ==
  /\ turfs = TurfsBefore
  /\ homes = [h \in Homes |-> None]
  /\ places = [a \in Places |-> None]
  /\ asked = [q \in Asks |-> None]
  /\ batches = [b \in Batches |-> None]
  /\ applied = {}
  /\ handling = [s \in Slots \cup Loaders |-> Idle]

\* A handler fails, or the process stops, between two of its writes.
Abandon(s) == handling[s] # Idle /\ Done(s) /\ UNCHANGED <<tables, asked, batches, applied>>

Next == \/ RequestsNext /\ UNCHANGED <<batches, applied>>
        \/ ImportsNext /\ UNCHANGED asked
        \/ \E s \in Slots \cup Loaders : Abandon(s)

Spec == Init /\ [][Next]_vars

----------------------------------------------------------------------------
(* Properties. *)

\* An address request and a row held for review are decided once.  A request adds
\* its address exactly when approved; a held row is recorded as merged only after it
\* was written to the address it duplicates, and none is once decided (Decisions).
Recorded(i) == batches[i[1]] # None /\ i[2] \in DOMAIN batches[i[1]].rows
Result(i) == batches[i[1]].rows[i[2]]
WasHeld(i) == Recorded(i) /\ (Result(i).status = "pending_review" \/ Result(i).decided > 0)

Reviewed == Asks \cup HeldRows
Verdict(i) ==
  IF i \in Asks
  THEN IF asked[i] = None THEN "absent"
       ELSE [pending |-> "open", approved |-> "accepted", rejected |-> "refused"][asked[i].status]
  ELSE IF ~WasHeld(i) THEN "absent"
       ELSE IF Result(i).status = "pending_review" THEN "open"
       ELSE IF Result(i).decided > 1 THEN "decided again"
       ELSE IF Result(i).status = "merged" THEN "accepted" ELSE "refused"
Effects(i) ==
  IF i \in Asks THEN IF asked[i] = None THEN 0 ELSE asked[i].made
  ELSE IF i \in applied THEN 1 ELSE 0

Review == INSTANCE Decisions WITH
  Items <- Reviewed,
  Atomic <- Asks,
  verdict <- [i \in Reviewed |-> Verdict(i)],
  effects <- [i \in Reviewed |-> Effects(i)]
ImplementsReview == Review!Spec

\* When an import that replaces the membership of a turf it found leaves that turf, the
\* households on it are those of the file, whatever was approved meanwhile.
ReplacementIsAuthoritative ==
  [][\A s \in Loaders :
       /\ handling[s].at = "row" /\ handling'[s].at \in {"turf", "batch"}
       /\ handling[s].mode = "replace_turf_membership"
       /\ handling[s].found /\ handling[s].seen # {}
       => {places'[a].home : a \in On(places', handling[s].turf)} = handling[s].seen]_vars

\* Imports put a household on a turf once: of two addresses it has there, one
\* was added in the field.
ImportedOnce ==
  \A t \in Turfs : \A a, b \in LiveOn(t) :
    a # b /\ places[a].home = places[b].home => places[a].field \/ places[b].field

Total(counts) == counts["created"] + counts["merged"] + counts["skipped_duplicate"]
                   + counts["skipped_invalid"] + counts["pending_review"]

\* The counters of a batch add up, to what a preview of its file promised, and
\* never hide a row that is still in the review queue, even if a resolution
\* stops half-way.
CountsHideNothing ==
  \A b \in Batches : batches[b] # None =>
    LET counts == batches[b].counts
        preview == Preview([i \in DOMAIN batches[b].rows |-> Result(<<b, i>>).row])
    IN /\ Cardinality({r \in ImportReviewQueue : r[1] = b}) <= counts["pending_review"]
       /\ Total(counts) = Len(batches[b].rows)
       /\ counts["skipped_invalid"] = preview.rowsMissingRequired
       /\ Total(counts) - counts["skipped_invalid"] = preview.rowsReady

\* Duplicates are found by external id and then by address: one address is on a
\* turf twice only for households that external ids tell apart.
Known(home) == home.house # None \/ home.person # None
MatchedInTurn ==
  \A t \in Turfs : \A a, b \in LiveOn(t) :
    a # b /\ places[a].key = places[b].key
      => Known(homes[places[a].home]) /\ Known(homes[places[b].home])
=============================================================================
