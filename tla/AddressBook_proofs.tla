-------------------------- MODULE AddressBook_proofs --------------------------
(***************************************************************************)
(* The address book, proved for any files, households and crashes: what    *)
(* imports and approvals add, what replacements remove and what becomes of *)
(* what waits for a review.                                                *)
(***************************************************************************)
EXTENDS AddressBook, FiniteSetTheorems, SequenceTheorems, TLAPS

(* What a slot can be doing, and what it has established.                  *)

Submitting == [at : {"submit"}, turf : Turfs, text : Texts]
Reviewing == [at : {"approve", "reject"}, ask : Asks]
Importing == [at : {"turf", "row", "find", "place"}, mode : Modes, strategy : Strategies,
              rows : Seq(Rows), turf : OrNone(Turfs), found : BOOLEAN, seen : SUBSET Homes,
              home : OrNone(Homes), duplicate : OrNone(Places), results : Seq(RowResults)]
Recording == [at : {"batch"}, results : Seq(RowResults)]
Resolving == [at : {"merge", "skip", "count"}, batch : Batches, row : Nat,
              to : {"merged", "skipped_duplicate"}]
Work == {Idle} \cup Submitting \cup Reviewing \cup Importing \cup Recording \cup Resolving

\* A row without an address is invalid, and no other; one that waits for a review
\* names an address on record, and nobody has decided it.
Judged(r) == r.status = "skipped_invalid" <=> r.row.text = None
Waits(r) == r.status = "pending_review" =>
              r.decided = 0 /\ r.candidate \in Places /\ places[r.candidate] # None
Sensible(results) == \A i \in DOMAIN results : Judged(results[i]) /\ Waits(results[i])

JobOK(j) ==
  /\ j.at \in {"approve", "reject"} => asked[j.ask] # None
  /\ j.at = "turf" => j.rows # <<>>
  /\ j.at \in {"row", "find", "place"} => j.turf \in Turfs /\ turfs[j.turf] # None
  /\ j.at \in {"find", "place"} => j.rows # <<>> /\ Head(j.rows).text # None /\ j.home \in Homes
  /\ j.at = "place" /\ j.duplicate # None => j.duplicate \in Places /\ places[j.duplicate] # None
  /\ j.at \in {"turf", "row", "find", "place"} => Len(j.results) + Len(j.rows) \in Lines
  /\ j.at = "batch" => Len(j.results) \in Lines
  /\ j.at \in {"turf", "row", "find", "place", "batch"} =>
       Sensible(j.results) /\ \A i \in DOMAIN j.results : j.results[i].decided = 0
  /\ j.at \in {"merge", "skip", "count"} =>
       batches[j.batch] # None /\ j.row \in DOMAIN batches[j.batch].rows
  /\ j.at = "merge" => LET result == batches[j.batch].rows[j.row]
                       IN result.candidate \in Places /\ places[result.candidate] # None
  /\ j.at \in {"merge", "skip"} => batches[j.batch].rows[j.row].row.text # None

Inv == /\ RowsOK
       /\ handling \in [Slots \cup Loaders -> Work]
       /\ \A s \in Slots \cup Loaders : JobOK(handling[s])
       /\ \A b \in Batches : batches[b] # None => Sensible(batches[b].rows)

LEMMA Labels ==
  ASSUME NEW j \in Work
  PROVE  /\ j.at = "submit" => j \in Submitting
         /\ j.at \in {"approve", "reject"} => j \in Reviewing
         /\ j.at \in {"turf", "row", "find", "place"} => j \in Importing
         /\ j.at = "batch" => j \in Recording
         /\ j.at \in {"merge", "skip", "count"} => j \in Resolving
BY DEF Work, Idle, Submitting, Reviewing, Importing, Recording, Resolving

LEMMA InitInv == Init => Inv
<1> SUFFICES ASSUME Init PROVE Inv
  OBVIOUS
<1>1. TablesOK
  BY TurfsAssumption DEF Init, TablesOK, OrNone
<1>2. AskedOK
  BY DEF Init, AskedOK, OrNone
<1>3. BatchesOK /\ \A b \in Batches : batches[b] = None
  BY DEF Init, BatchesOK, OrNone
<1>4. \A s \in Slots \cup Loaders : handling[s] = Idle
  BY DEF Init
<1>5. handling \in [Slots \cup Loaders -> Work]
  BY DEF Init, Work
<1>6. JobOK(Idle)
  BY DEF JobOK, Idle
<1> QED BY <1>1, <1>2, <1>3, <1>4, <1>5, <1>6 DEF Inv, RowsOK

(* What others may rely on: no step removes a row.                         *)
RowsRemain ==
  /\ \A t \in Turfs : turfs[t] # None => turfs'[t] # None
  /\ \A a \in Places : places[a] # None => places'[a] # None
  /\ \A q \in Asks : asked[q] # None => asked'[q] # None
  /\ \A b \in Batches : batches[b] # None =>
       /\ batches'[b] # None /\ DOMAIN batches'[b].rows = DOMAIN batches[b].rows
       /\ \A i \in DOMAIN batches[b].rows :
            /\ batches'[b].rows[i].candidate = batches[b].rows[i].candidate
            /\ batches'[b].rows[i].row = batches[b].rows[i].row

LEMMA StillSensible ==
  ASSUME RowsRemain, NEW results, Sensible(results)
  PROVE  Sensible(results)'
BY DEF RowsRemain, Sensible, Judged, Waits

LEMMA Lasting ==
  ASSUME RowsRemain, NEW j \in Work, JobOK(j)
  PROVE  JobOK(j)'
<1>1. j.at \in {"approve", "reject"} => asked'[j.ask] # None
  BY Labels DEF JobOK, RowsRemain, Reviewing
<1>2. j.at \in {"row", "find", "place"} => turfs'[j.turf] # None
  BY DEF JobOK, RowsRemain
<1>3. j.at \in {"turf", "row", "find", "place", "batch"} => Sensible(j.results)'
  BY StillSensible DEF JobOK
<1>4. ASSUME j.at \in {"merge", "skip", "count"}
      PROVE  /\ batches'[j.batch] # None /\ j.row \in DOMAIN batches'[j.batch].rows
             /\ batches'[j.batch].rows[j.row].candidate = batches[j.batch].rows[j.row].candidate
             /\ batches'[j.batch].rows[j.row].row = batches[j.batch].rows[j.row].row
  <2>1. j.batch \in Batches
    BY <1>4, Labels DEF Resolving
  <2> QED BY <1>4, <2>1 DEF JobOK, RowsRemain
<1>5. j.at = "merge" => LET result == batches[j.batch].rows[j.row]
                        IN result.candidate \in Places /\ places'[result.candidate] # None
  BY DEF JobOK, RowsRemain
<1>6. j.at = "place" /\ j.duplicate # None => places'[j.duplicate] # None
  BY DEF JobOK, RowsRemain
<1> QED BY <1>1, <1>2, <1>3, <1>4, <1>5, <1>6 DEF JobOK

LEMMA SlotStep ==
  ASSUME Inv, RowsRemain, RowsOK', NEW s \in Slots \cup Loaders, NEW j \in Work,
         handling' = [handling EXCEPT ![s] = j], JobOK(j)',
         \A b \in Batches : batches'[b] # None =>
           (batches[b] # None /\ batches'[b] = batches[b]) \/ Sensible(batches[b].rows)'
  PROVE  Inv'
<1>1. handling' \in [Slots \cup Loaders -> Work]
  BY DEF Inv
<1>2. ASSUME NEW r \in Slots \cup Loaders PROVE JobOK(handling[r])'
  <2>1. r # s => handling'[r] = handling[r] /\ handling[r] \in Work /\ JobOK(handling[r])
    BY DEF Inv
  <2>2. r # s => JobOK(handling[r])'
    <3> DEFINE old == handling[r]
    <3>1. r # s => old \in Work /\ JobOK(old)
      BY <2>1
    <3>2. ASSUME NEW k \in Work, JobOK(k) PROVE JobOK(k)'
      BY <3>2, Lasting
    <3>3. ASSUME NEW k, k = old, r # s PROVE JobOK(handling[r])'
      <4>1. JobOK(k)'
        BY <3>1, <3>2, <3>3
      <4>2. handling'[r] = k
        BY <3>3, <2>1
      <4> QED BY <4>1, <4>2 DEF JobOK
    <3> QED BY <3>3
  <2>3. r = s => JobOK(handling[r])'
    <3>1. r = s => handling'[r] = j
      BY DEF Inv
    <3> QED BY <3>1 DEF JobOK
  <2> QED BY <2>2, <2>3
<1>3. ASSUME NEW b \in Batches, batches'[b] # None PROVE Sensible(batches[b].rows)'
  <2>1. CASE batches[b] # None /\ batches'[b] = batches[b]
    <3>1. Sensible(batches[b].rows)
      BY <2>1 DEF Inv
    <3>2. PICK rows : rows = batches[b].rows
      OBVIOUS
    <3>3. Sensible(rows)'
      BY <3>1, <3>2, StillSensible
    <3> QED BY <2>1, <3>2, <3>3
  <2> QED BY <1>3, <2>1
<1> QED BY <1>1, <1>2, <1>3 DEF Inv

(* The tables.                                                             *)

\* A step of slot s to the work j that adds or changes no batch.
LEMMA Goes ==
  ASSUME Inv, NEW s \in Slots \cup Loaders, NEW j \in Work,
         handling' = [handling EXCEPT ![s] = j], JobOK(j),
         RowsRemain, TablesOK', AskedOK', UNCHANGED batches
  PROVE  Inv'
<1>1. JobOK(j)'
  BY Lasting
<1>2. RowsOK'
  BY DEF RowsOK, Inv, BatchesOK
<1> QED BY <1>1, <1>2, SlotStep

LEMMA GoesOn ==
  ASSUME Inv, NEW s \in Slots \cup Loaders, NEW j \in Work,
         handling' = [handling EXCEPT ![s] = j], JobOK(j), UNCHANGED <<tables, asked, batches>>
  PROVE  Inv'
<1>1. RowsRemain
  BY DEF RowsRemain, tables
<1>2. TablesOK' /\ AskedOK'
  BY DEF Inv, RowsOK, tables, TablesOK, AskedOK
<1> QED BY <1>1, <1>2, Goes DEF tables

LEMMA IdleOK == Idle \in Work /\ JobOK(Idle)
BY DEF Work, JobOK, Idle

\* A row an address can come from.
AddressRows == [text : Texts, house : OrNone(VanHouses), person : OrNone(VanPersons), located : BOOLEAN]

LEMMA KeyType == \A x \in Texts : KeyOf[x] \in Keys
BY DEF Keys

LEMMA HomesKept ==
  ASSUME TablesOK, NEW row, row.text \in Texts, row.house \in OrNone(VanHouses),
         row.person \in OrNone(VanPersons), row.located \in BOOLEAN,
         NEW h \in Homes, EnsureHousehold(row, h)
  PROVE  homes' \in [Homes -> OrNone(HomeRows)]
<1>1. KeyOf[row.text] \in Keys
  BY KeyType
<1>2. CASE Matches(row) # {}
  <2>1. h \in Existing /\ homes[h] \in HomeRows
    BY <1>2 DEF EnsureHousehold, Matches, Existing, TablesOK, OrNone
  <2>2. Learned(homes[h], row) \in HomeRows
    BY <1>1, <2>1 DEF Learned, HomeRows, OrElse, OrNone
  <2> QED BY <1>2, <2>1, <2>2 DEF EnsureHousehold, TablesOK, OrNone
<1>3. CASE Matches(row) = {}
  <2> DEFINE new == [key |-> KeyOf[row.text], house |-> row.house, person |-> row.person,
                     located |-> row.located]
  <2>1. new \in HomeRows
    BY <1>1 DEF HomeRows
  <2>2. homes' = [homes EXCEPT ![h] = new]
    BY <1>3 DEF EnsureHousehold
  <2> QED BY <2>1, <2>2 DEF TablesOK, OrNone
<1> QED BY <1>2, <1>3

LEMMA PlaceAdded ==
  ASSUME TablesOK, NEW a \in Vacant, NEW t \in Turfs, NEW h \in Homes, NEW x \in Texts,
         NEW field \in BOOLEAN, places' = Placed(a, t, h, x, field)
  PROVE  /\ places' \in [Places -> OrNone(PlaceRows)]
         /\ a \in Places /\ places[a] = None /\ places'[a] # None
         /\ places'[a].turf = t /\ places'[a].home = h /\ places'[a].live /\ places'[a].field = field
         /\ \A b \in Places : b # a => places'[b] = places[b]
<1> DEFINE new == [turf |-> t, home |-> h, key |-> KeyOf[x], live |-> TRUE, field |-> field]
<1>1. new \in PlaceRows
  BY KeyType DEF PlaceRows
<1>2. places' = [places EXCEPT ![a] = new]
  BY DEF Placed
<1>3. a \in Places /\ places[a] = None
  BY DEF Vacant
<1>4. places'[a] = new
  BY <1>2, <1>3 DEF TablesOK
<1>5. new # None
  BY <1>1, NoneAssumption
<1> QED BY <1>1, <1>2, <1>3, <1>4, <1>5 DEF TablesOK, OrNone

LEMMA PlaceRekeyed ==
  ASSUME TablesOK, NEW d \in Places, places[d] # None, NEW x \in Texts,
         places' = [places EXCEPT ![d].key = KeyOf[x]]
  PROVE  /\ places' \in [Places -> OrNone(PlaceRows)]
         /\ \A b \in Places : /\ places[b] # None => places'[b] # None
                              /\ places[b] = None => places'[b] = None
                              /\ places[b] # None => /\ places'[b].turf = places[b].turf
                                                     /\ places'[b].home = places[b].home
                                                     /\ places'[b].live = places[b].live
                                                     /\ places'[b].field = places[b].field
<1>1. places[d] \in PlaceRows
  BY DEF TablesOK, OrNone
<1> DEFINE new == [places[d] EXCEPT !.key = KeyOf[x]]
<1>2. /\ new \in PlaceRows /\ new.turf = places[d].turf /\ new.home = places[d].home
      /\ new.live = places[d].live /\ new.field = places[d].field
  BY <1>1, KeyType DEF PlaceRows
<1>3. new # None
  BY <1>2, NoneAssumption
<1>4. places' = [places EXCEPT ![d] = new]
  OBVIOUS
<1> HIDE DEF new
<1>5. \A b \in Places : places'[b] = IF b = d THEN new ELSE places[b]
  BY <1>4 DEF TablesOK
<1>6. places' \in [Places -> OrNone(PlaceRows)]
  BY <1>4, <1>2 DEF TablesOK, OrNone
<1> QED BY <1>2, <1>3, <1>5, <1>6

(* The handlers of address requests.                                       *)

LEMMA SubmitStep ==
  ASSUME Inv, NEW s \in Slots, UNCHANGED batches, SubmitRequest(s)
  PROVE  Inv'
<1>1. handling[s] \in Submitting
  BY Labels DEF Inv, SubmitRequest
<1>2. PICK q \in Asks :
        /\ asked[q] = None
        /\ asked' = [asked EXCEPT ![q] = [turf |-> handling[s].turf, text |-> handling[s].text,
                                          status |-> "pending", made |-> 0]]
  BY DEF SubmitRequest
<1>3. [turf |-> handling[s].turf, text |-> handling[s].text, status |-> "pending", made |-> 0] \in AskRows
  BY <1>1 DEF Submitting, AskRows
<1>4. AskedOK'
  BY <1>2, <1>3 DEF Inv, RowsOK, AskedOK, OrNone
<1>5. UNCHANGED tables /\ handling' = [handling EXCEPT ![s] = Idle]
  BY DEF SubmitRequest, Done
<1>6. RowsRemain
  BY <1>2, <1>5 DEF RowsRemain, tables, Inv, RowsOK, AskedOK
<1>7. TablesOK'
  BY <1>5 DEF Inv, RowsOK, TablesOK, tables
<1> QED BY <1>4, <1>5, <1>6, <1>7, IdleOK, Goes

LEMMA AskRowType ==
  ASSUME Inv, NEW q \in Asks, asked[q] # None
  PROVE  /\ asked[q] \in AskRows
         /\ AsRow(q).text \in Texts /\ AsRow(q).house \in OrNone(VanHouses)
         /\ AsRow(q).person \in OrNone(VanPersons) /\ AsRow(q).located \in BOOLEAN
<1>1. asked[q] \in AskRows
  BY DEF Inv, RowsOK, AskedOK, OrNone
<1> QED BY <1>1 DEF AskRows, AsRow, OrNone

LEMMA Asked ==
  ASSUME Inv, NEW s \in Slots, handling[s].at \in {"approve", "reject"}
  PROVE  handling[s].ask \in Asks /\ asked[handling[s].ask] # None /\ asked[handling[s].ask] \in AskRows
<1>1. handling[s] \in Work /\ JobOK(handling[s])
  BY DEF Inv
<1>2. handling[s] \in Reviewing
  BY <1>1, Labels
<1>3. handling[s].ask \in Asks /\ asked[handling[s].ask] # None
  BY <1>1, <1>2 DEF Reviewing, JobOK
<1> QED BY <1>3, AskRowType

\* What an approval adds.
LEMMA Approving ==
  ASSUME Inv, NEW s \in Slots, ApproveRequest(s)
  PROVE  /\ handling[s].ask \in Asks /\ asked[handling[s].ask] \in AskRows
         /\ TablesOK' /\ turfs' = turfs
         /\ handling' = [handling EXCEPT ![s] = Idle]
         /\ \A b \in Places : places[b] # None => places'[b] = places[b]
         /\ \A b \in Places : places[b] = None /\ places'[b] # None => places'[b].field
         /\ asked' = [asked EXCEPT ![handling[s].ask].status = "approved",
                                   ![handling[s].ask].made = IF @ = 2 THEN 2 ELSE @ + 1]
<1> DEFINE q == handling[s].ask
<1>1. q \in Asks /\ asked[q] # None
  BY Asked DEF ApproveRequest
<1>2. PICK h \in Homes, a \in Vacant :
        EnsureHousehold(AsRow(q), h) /\ places' = Placed(a, asked[q].turf, h, asked[q].text, TRUE)
  BY DEF ApproveRequest
<1>3. TablesOK
  BY DEF Inv, RowsOK
<1>4. homes' \in [Homes -> OrNone(HomeRows)]
  BY <1>1, <1>2, <1>3, AskRowType, HomesKept
<1>5. asked[q].turf \in Turfs /\ asked[q].text \in Texts
  BY <1>1, AskRowType DEF AskRows
<1>6. /\ places' \in [Places -> OrNone(PlaceRows)] /\ places[a] = None /\ places'[a].field = TRUE
      /\ \A b \in Places : b # a => places'[b] = places[b]
  BY <1>2, <1>3, <1>5, PlaceAdded
<1>7. turfs' = turfs /\ handling' = [handling EXCEPT ![s] = Idle]
  BY DEF ApproveRequest, Done
<1> QED BY <1>1, <1>3, <1>4, <1>6, <1>7, AskRowType DEF ApproveRequest, TablesOK

LEMMA ApproveStep ==
  ASSUME Inv, NEW s \in Slots, UNCHANGED batches, ApproveRequest(s)
  PROVE  Inv'
<1> DEFINE q == handling[s].ask
           new == [asked[q] EXCEPT !.status = "approved", !.made = IF @ = 2 THEN 2 ELSE @ + 1]
<1>0. asked[q] \in AskRows
  BY Approving
<1>1. new \in AskRows
  <2>1. new.made \in 0 .. 2 /\ new.status = "approved" /\ new.turf = asked[q].turf /\ new.text = asked[q].text
    BY <1>0 DEF AskRows
  <2> QED BY <1>0, <2>1 DEF AskRows
<1>2. asked' = [asked EXCEPT ![q] = new]
  BY Approving
<1>3. q \in Asks /\ new # None
  BY <1>1, Approving, NoAskAssumption
<1> HIDE DEF new
<1>4. AskedOK' /\ \A p \in Asks : asked[p] # None => asked'[p] # None
  BY <1>1, <1>2, <1>3 DEF Inv, RowsOK, AskedOK, OrNone
<1>5. RowsRemain
  BY <1>4, Approving DEF RowsRemain
<1> QED BY <1>4, <1>5, Approving, IdleOK, Goes

LEMMA RejectStep ==
  ASSUME Inv, NEW s \in Slots, UNCHANGED batches, RejectRequest(s)
  PROVE  Inv'
<1> DEFINE q == handling[s].ask
           new == [asked[q] EXCEPT !.status = "rejected"]
<1>1. q \in Asks /\ asked[q] \in AskRows
  BY Asked DEF RejectRequest
<1>2. new \in AskRows
  BY <1>1 DEF AskRows
<1>3. asked' = [asked EXCEPT ![q] = new] /\ handling' = [handling EXCEPT ![s] = Idle]
      /\ UNCHANGED tables
  BY DEF RejectRequest, Done
<1>4. new # None
  BY <1>2, NoAskAssumption
<1> HIDE DEF new
<1>5. AskedOK' /\ \A p \in Asks : asked[p] # None => asked'[p] # None
  BY <1>1, <1>2, <1>3, <1>4 DEF Inv, RowsOK, AskedOK, OrNone
<1>6. RowsRemain /\ TablesOK'
  BY <1>3, <1>5 DEF RowsRemain, tables, TablesOK, Inv, RowsOK
<1> QED BY <1>3, <1>5, <1>6, IdleOK, Goes

LEMMA RequestsStep ==
  ASSUME Inv, RequestsNext, UNCHANGED batches
  PROVE  Inv'
<1>1. ASSUME NEW s \in Slots, NEW t \in Turfs, NEW x \in Texts, BeginSubmit(s, t, x) PROVE Inv'
  <2> DEFINE j == [at |-> "submit", turf |-> t, text |-> x]
  <2>1. j \in Work /\ JobOK(j)
    BY DEF Work, Submitting, JobOK
  <2>2. handling' = [handling EXCEPT ![s] = j] /\ UNCHANGED <<tables, asked, batches>>
    BY <1>1 DEF BeginSubmit, Send
  <2> QED BY <2>1, <2>2, GoesOn
<1>2. ASSUME NEW s \in Slots, NEW q \in {p \in Asks : asked[p] # None},
             NEW verdict \in {"approve", "reject"}, BeginReview(s, q, verdict)
      PROVE  Inv'
  <2> DEFINE j == [at |-> verdict, ask |-> q]
  <2>1. j \in Work /\ JobOK(j)
    BY DEF Work, Reviewing, JobOK
  <2>2. handling' = [handling EXCEPT ![s] = j] /\ UNCHANGED <<tables, asked, batches>>
    BY <1>2 DEF BeginReview, Send
  <2> QED BY <2>1, <2>2, GoesOn
<1>3. ASSUME NEW s \in Slots, ApprovalFails(s) PROVE Inv'
  <2>1. handling[s].ask \in Asks /\ asked[handling[s].ask] # None
    BY <1>3, Asked DEF ApprovalFails
  <2>2. TablesOK
    BY DEF Inv, RowsOK
  <2>3. PICK h \in Homes : EnsureHousehold(AsRow(handling[s].ask), h)
    BY <1>3 DEF ApprovalFails
  <2>4. homes' \in [Homes -> OrNone(HomeRows)]
    BY <2>1, <2>2, <2>3, AskRowType, HomesKept
  <2>5. UNCHANGED <<turfs, places, asked>> /\ handling' = [handling EXCEPT ![s] = Idle]
    BY <1>3 DEF ApprovalFails, Done
  <2>6. RowsRemain /\ TablesOK' /\ AskedOK'
    BY <2>4, <2>5 DEF RowsRemain, TablesOK, Inv, RowsOK, AskedOK
  <2> QED BY <2>5, <2>6, IdleOK, Goes
<1> QED BY <1>1, <1>2, <1>3, SubmitStep, ApproveStep, RejectStep DEF RequestsNext

----------------------------------------------------------------------------
(* The handlers of imports.                                                *)

LEMMA Job ==
  ASSUME Inv, NEW s \in Loaders
  PROVE  handling[s] \in Work /\ JobOK(handling[s])
BY DEF Inv

LEMMA BeginImportOK ==
  ASSUME NEW settings \in Settings, NEW file \in Files
  PROVE  LET j == [at |-> "turf", mode |-> settings.mode, strategy |-> settings.strategy, rows |-> file,
                   turf |-> None, found |-> FALSE, seen |-> {}, home |-> None, duplicate |-> None,
                   results |-> <<>>]
         IN j \in Work /\ JobOK(j)
<1> DEFINE j == [at |-> "turf", mode |-> settings.mode, strategy |-> settings.strategy, rows |-> file,
                 turf |-> None, found |-> FALSE, seen |-> {}, home |-> None, duplicate |-> None,
                 results |-> <<>>]
<1>1. file \in Seq(Rows) /\ file # <<>> /\ Len(file) \in Lines
  BY FilesAssumption
<1>2. <<>> \in Seq(RowResults) /\ Len(<<>>) = 0 /\ DOMAIN <<>> = {}
  BY EmptySeq
<1>3. j \in Importing
  BY <1>1, <1>2 DEF Importing, Settings, OrNone
<1>4. Len(j.results) + Len(j.rows) = Len(file)
  BY <1>1, <1>2, LenProperties
<1>5. JobOK(j)
  BY <1>1, <1>2, <1>4 DEF JobOK, Sensible
<1> QED BY <1>3, <1>5 DEF Work

LEMMA BeginTurfStep ==
  ASSUME Inv, NEW s \in Loaders, UNCHANGED asked, BeginTurf(s)
  PROVE  Inv'
<1> DEFINE job == handling[s]
           name == Head(job.rows).name
<1>1. job \in Importing /\ JobOK(job) /\ job.at = "turf" /\ job.rows # <<>>
  BY Job, Labels DEF BeginTurf, JobOK
<1>2. name \in Names /\ name # None
  <2>1. job.rows \in Seq(Rows)
    BY <1>1 DEF Importing
  <2>2. Head(job.rows) \in Rows
    BY <1>1, <2>1, HeadTailProperties
  <2> QED BY <2>2, NoneAssumption DEF Rows
<1>3. PICK t \in Turfs, found \in BOOLEAN :
        /\ turfs' = [turfs EXCEPT ![t] = name]
        /\ handling' = [handling EXCEPT ![s] =
             [job EXCEPT !.at = "row", !.turf = t, !.found = found, !.seen = {}]]
  BY DEF BeginTurf, Continue
<1>4. PICK j : j = [job EXCEPT !.at = "row", !.turf = t, !.found = found, !.seen = {}]
  OBVIOUS
<1>5. /\ j \in Importing /\ j.at = "row" /\ j.rows = job.rows /\ j.results = job.results /\ j.turf = t
  BY <1>1, <1>4 DEF Importing, OrNone
<1>6. UNCHANGED <<homes, places, asked, batches>>
  BY DEF BeginTurf
<1>7. turfs' \in [Turfs -> OrNone(Names)] /\ turfs'[t] # None
      /\ \A u \in Turfs : turfs[u] # None => turfs'[u] # None
  BY <1>2, <1>3 DEF Inv, RowsOK, TablesOK, OrNone
<1>8. RowsRemain /\ TablesOK' /\ AskedOK' /\ BatchesOK'
  BY <1>6, <1>7 DEF RowsRemain, Inv, RowsOK, TablesOK, AskedOK, BatchesOK
<1>9. JobOK(j)'
  <2>1. Sensible(j.results) /\ \A i \in DOMAIN j.results : j.results[i].decided = 0
    BY <1>1, <1>5 DEF JobOK
  <2>2. Sensible(j.results)'
    BY <1>8, <2>1, StillSensible
  <2>3. Len(j.results) + Len(j.rows) \in Lines
    BY <1>1, <1>5 DEF JobOK
  <2> QED BY <1>5, <1>7, <2>1, <2>2, <2>3 DEF JobOK
<1>10. j \in Work /\ handling' = [handling EXCEPT ![s] = j]
  BY <1>3, <1>4, <1>5 DEF Work
<1> QED BY <1>6, <1>8, <1>9, <1>10, SlotStep DEF RowsOK

\* The results after a row is settled.
LEMMA Settling ==
  ASSUME NEW job \in Importing, JobOK(job), job.at \in {"row", "find", "place"}, job.rows # <<>>,
         NEW status \in Statuses, NEW candidate \in OrNone(Places),
         status = "skipped_invalid" <=> Head(job.rows).text = None,
         status = "pending_review" => candidate \in Places /\ places[candidate] # None,
         NEW j, j = Settle(job, status, candidate)
  PROVE  /\ j \in Work /\ JobOK(j)
         /\ j.at = "row" /\ j.turf = job.turf /\ j.seen = job.seen /\ j.mode = job.mode
         /\ j.found = job.found
<1> DEFINE result == [status |-> status, row |-> Head(job.rows), candidate |-> candidate, decided |-> 0]
<1>1. job.rows \in Seq(Rows) /\ job.results \in Seq(RowResults)
  BY DEF Importing
<1>2. /\ Head(job.rows) \in Rows /\ Tail(job.rows) \in Seq(Rows)
      /\ Len(Tail(job.rows)) = Len(job.rows) - 1 /\ Len(job.rows) \in Nat
  BY <1>1, HeadTailProperties, LenProperties
<1>3. result \in RowResults
  BY <1>2 DEF RowResults
<1>4. Judged(result) /\ Waits(result) /\ result.decided = 0
  BY DEF Judged, Waits
<1> HIDE DEF result
<1>5. PICK new : new = Append(job.results, result)
  OBVIOUS
<1>6. /\ new \in Seq(RowResults) /\ Len(new) = Len(job.results) + 1 /\ Len(job.results) \in Nat
      /\ DOMAIN new = 1 .. Len(job.results) + 1 /\ DOMAIN job.results = 1 .. Len(job.results)
      /\ \A i \in DOMAIN new : new[i] = IF i \in DOMAIN job.results THEN job.results[i] ELSE result
  BY <1>1, <1>3, <1>5, AppendProperties, LenProperties
<1>7. j = [job EXCEPT !.at = "row", !.rows = Tail(@), !.home = None, !.duplicate = None, !.results = new]
  BY <1>5 DEF Settle, result
<1>8. /\ j \in Importing /\ j.at = "row" /\ j.rows = Tail(job.rows) /\ j.results = new /\ j.turf = job.turf
      /\ j.seen = job.seen /\ j.mode = job.mode /\ j.found = job.found
  BY <1>2, <1>6, <1>7 DEF Importing, OrNone
<1>9. Sensible(new) /\ \A i \in DOMAIN new : new[i].decided = 0
  BY <1>4, <1>6 DEF Sensible, JobOK
<1>10. Len(j.results) + Len(j.rows) = Len(job.results) + Len(job.rows)
  <2>1. Len(j.results) = Len(job.results) + 1
    BY <1>6, <1>8
  <2>2. Len(j.rows) = Len(job.rows) - 1
    BY <1>2, <1>8
  <2>3. \A m, n \in Nat : m + 1 + (n - 1) = m + n
    OBVIOUS
  <2> QED BY <1>2, <1>6, <2>1, <2>2, <2>3
<1>11. JobOK(j)
  BY <1>8, <1>9, <1>10 DEF JobOK
<1> QED BY <1>8, <1>11 DEF Work

LEMMA ImportRowStep ==
  ASSUME Inv, NEW s \in Loaders, UNCHANGED asked, ImportRow(s)
  PROVE  Inv'
<1>1. PICK job : job = handling[s]
  OBVIOUS
<1>2. job \in Importing /\ JobOK(job) /\ job.at = "row" /\ job.rows # <<>>
  BY <1>1, Job, Labels DEF ImportRow, MoreRows
<1>3. job.rows \in Seq(Rows) /\ Head(job.rows) \in Rows
  BY <1>2, HeadTailProperties DEF Importing
<1>4. CASE Head(job.rows).text = None
  <2>1. PICK j : j = Settle(job, "skipped_invalid", None)
    OBVIOUS
  <2>2. j \in Work /\ JobOK(j)
    BY <1>2, <1>4, <2>1, Settling DEF Statuses, OrNone
  <2>3. handling' = [handling EXCEPT ![s] = j] /\ UNCHANGED <<tables, asked, batches>>
    BY <1>1, <1>4, <2>1 DEF ImportRow, Continue, tables
  <2> QED BY <2>2, <2>3, GoesOn
<1>5. CASE Head(job.rows).text # None
  <2>1. PICK h \in Homes : /\ EnsureHousehold(Head(job.rows), h)
                           /\ handling' = [handling EXCEPT ![s] = [job EXCEPT !.at = "find", !.home = h]]
    BY <1>1, <1>5 DEF ImportRow, Continue
  <2>2. homes' \in [Homes -> OrNone(HomeRows)]
    BY <1>3, <1>5, <2>1, HomesKept DEF Rows, OrNone, Inv, RowsOK
  <2>3. PICK j : j = [job EXCEPT !.at = "find", !.home = h]
    OBVIOUS
  <2>4. j \in Importing /\ j.at = "find" /\ j.home = h /\ j.rows = job.rows /\ j.results = job.results
        /\ j.turf = job.turf
    BY <1>2, <2>3 DEF Importing, OrNone
  <2>5. j \in Work /\ JobOK(j)
    BY <1>2, <1>5, <2>4 DEF JobOK, Work
  <2>6. UNCHANGED <<turfs, places, batches>>
    BY DEF ImportRow
  <2>7. RowsRemain /\ TablesOK' /\ AskedOK'
    BY <2>2, <2>6 DEF RowsRemain, Inv, RowsOK, TablesOK, AskedOK
  <2> QED BY <2>1, <2>3, <2>5, <2>6, <2>7, Goes
<1> QED BY <1>4, <1>5

\* What a lookup finds: the household is not on the turf, or at this address.
Finds(j) ==
  /\ j.duplicate = None => \A a \in LiveOn(j.turf) : places[a].home = j.home => places[a].field
  /\ j.duplicate # None => j.duplicate \in LiveOn(j.turf) /\ places[j.duplicate].home = j.home

LEMMA Finding ==
  ASSUME Inv, NEW s \in Loaders, FindDuplicate(s), NEW old, old = handling[s]
  PROVE  /\ old.at = "find" /\ UNCHANGED <<tables, batches>>
         /\ \E j \in Importing :
              /\ handling' = [handling EXCEPT ![s] = j] /\ JobOK(j) /\ Finds(j)
              /\ j.at = "place" /\ j.turf = old.turf /\ j.seen = old.seen
<1>1. old \in Importing /\ JobOK(old) /\ old.at = "find"
  BY Job, Labels DEF FindDuplicate
<1> DEFINE duplicates == {a \in LiveOn(old.turf) : places[a].home = old.home}
<1>2. PICK d \in IF duplicates = {} THEN {None} ELSE duplicates :
        handling' = [handling EXCEPT ![s] = [old EXCEPT !.at = "place", !.duplicate = d]]
  BY DEF FindDuplicate, Continue
<1>3. duplicates \subseteq Places /\ None \notin Places /\ \A a \in duplicates : places[a] # None
  BY NoneAssumption DEF LiveOn, On
<1>4. PICK j : j = [old EXCEPT !.at = "place", !.duplicate = d]
  OBVIOUS
<1>5. /\ j \in Importing /\ j.at = "place" /\ j.duplicate = d /\ j.rows = old.rows
      /\ j.results = old.results /\ j.turf = old.turf /\ j.home = old.home /\ j.seen = old.seen
  BY <1>1, <1>2, <1>3, <1>4 DEF Importing, OrNone
<1>6. d # None => d \in duplicates
  BY <1>2
<1>7. d = None => duplicates = {}
  BY <1>2, <1>3
<1>8. JobOK(j)
  BY <1>1, <1>3, <1>5, <1>6 DEF JobOK
<1>9. Finds(j)
  BY <1>5, <1>6, <1>7 DEF Finds
<1>10. UNCHANGED <<tables, batches>>
  BY DEF FindDuplicate
<1> QED BY <1>1, <1>2, <1>4, <1>5, <1>8, <1>9, <1>10

LEMMA FindDuplicateStep ==
  ASSUME Inv, NEW s \in Loaders, UNCHANGED asked, FindDuplicate(s)
  PROVE  Inv'
<1>1. PICK j \in Importing : handling' = [handling EXCEPT ![s] = j] /\ JobOK(j)
  BY Finding
<1>2. UNCHANGED <<tables, asked, batches>>
  BY DEF FindDuplicate
<1> QED BY <1>1, <1>2, GoesOn DEF Work

\* What placing a row does to the addresses and to the request.
Rekeyed(d) == \E x \in Texts : places' = [places EXCEPT ![d].key = KeyOf[x]]
Added(t, h) == \E a \in Vacant, x \in Texts : places' = Placed(a, t, h, x, FALSE)
Lands(old) == IF old.duplicate = None THEN Added(old.turf, old.home)
              ELSE places' = places \/ Rekeyed(old.duplicate)
Follows(old, j) ==
  j # Idle => /\ j.at = "row" /\ j.turf = old.turf /\ j.mode = old.mode /\ j.found = old.found
              /\ j.seen = old.seen \cup {old.home}
Goal(s, old) == \E j \in Work : JobOK(j) /\ handling' = [handling EXCEPT ![s] = j] /\ Follows(old, j)

LEMMA Placing ==
  ASSUME Inv, NEW s \in Loaders, PlaceRow(s), NEW old, old = handling[s]
  PROVE  /\ Goal(s, old) /\ Lands(old)
         /\ old.at = "place" /\ old.turf \in Turfs /\ old.home \in Homes
         /\ old.duplicate # None => old.duplicate \in Places /\ places[old.duplicate] # None
<1>2. old \in Importing /\ JobOK(old) /\ old.at = "place" /\ old.rows # <<>> /\ Head(old.rows).text # None
  BY Job, Labels DEF PlaceRow, JobOK
<1>3. PICK job : job = Seen(s)
  OBVIOUS
<1>4. /\ job \in Importing /\ job.at = "place" /\ job.rows = old.rows /\ job.results = old.results
      /\ job.turf = old.turf /\ job.mode = old.mode /\ job.found = old.found /\ job.home = old.home
      /\ job.seen = old.seen \cup {old.home} /\ job.duplicate = old.duplicate
  BY <1>2, <1>3 DEF Seen, Importing, JobOK
<1>5. JobOK(job)
  BY <1>2, <1>4 DEF JobOK
<1>6. Head(job.rows) \in Rows /\ Head(job.rows).text \in Texts
  <2>1. Head(job.rows) \in Rows
    BY <1>2, <1>4, HeadTailProperties DEF Importing
  <2> QED BY <2>1, <1>2, <1>4 DEF Rows, OrNone
<1>7. ASSUME NEW status \in Statuses \ {"skipped_invalid"}, NEW candidate \in OrNone(Places),
             status = "pending_review" => candidate \in Places /\ places[candidate] # None,
             handling' = [handling EXCEPT ![s] = Settle(job, status, candidate)]
      PROVE  Goal(s, old)
  <2>1. PICK j : j = Settle(job, status, candidate)
    OBVIOUS
  <2>2. j \in Work /\ JobOK(j) /\ j.at = "row" /\ j.turf = job.turf /\ j.seen = job.seen
        /\ j.mode = job.mode /\ j.found = job.found
    BY <1>2, <1>4, <1>5, <1>7, <2>1, Settling
  <2>3. Follows(old, j)
    BY <1>4, <2>2 DEF Follows
  <2> QED BY <1>7, <2>1, <2>2, <2>3 DEF Goal
<1>8. ASSUME NEW d, d = old.duplicate, d # None, PlaceDuplicate(s, job, d)
      PROVE  Goal(s, old) /\ Lands(old)
  <2>0. d \in Places /\ places[d] # None /\ d \in OrNone(Places)
    BY <1>2, <1>8 DEF JobOK, OrNone
  <2>1. places' = places => Lands(old)
    BY <1>8 DEF Lands
  <2>2. CASE job.strategy = "error"
    <3>1. handling' = [handling EXCEPT ![s] = Idle] /\ places' = places
      BY <1>8, <2>2 DEF PlaceDuplicate, Done
    <3> QED BY <2>1, <3>1, IdleOK DEF Goal, Follows
  <2>3. CASE job.strategy = "review"
    <3>1. handling' = [handling EXCEPT ![s] = Settle(job, "pending_review", d)] /\ places' = places
      BY <1>8, <2>3 DEF PlaceDuplicate, Continue
    <3> QED BY <1>7, <2>0, <2>1, <3>1 DEF Statuses
  <2>4. CASE job.strategy = "merge"
    <3>1. /\ handling' = [handling EXCEPT ![s] = Settle(job, "merged", d)]
          /\ places' = [places EXCEPT ![d].key = KeyOf[Head(job.rows).text]]
      BY <1>8, <2>4 DEF PlaceDuplicate, Continue
    <3>2. Lands(old)
      BY <1>6, <1>8, <3>1 DEF Lands, Rekeyed
    <3> QED BY <1>7, <2>0, <3>1, <3>2 DEF Statuses
  <2>5. CASE job.strategy \notin {"error", "review", "merge"}
    <3>1. handling' = [handling EXCEPT ![s] = Settle(job, "skipped_duplicate", d)] /\ places' = places
      BY <1>8, <2>5 DEF PlaceDuplicate, Continue
    <3> QED BY <1>7, <2>0, <2>1, <3>1 DEF Statuses
  <2> QED BY <2>2, <2>3, <2>4, <2>5
<1>9. ASSUME NEW a \in Vacant, PlaceNew(s, job, a), old.duplicate = None
      PROVE  Goal(s, old) /\ Lands(old)
  <2>1. /\ handling' = [handling EXCEPT ![s] = Settle(job, "created", None)]
        /\ places' = Placed(a, old.turf, old.home, Head(job.rows).text, FALSE)
    BY <1>4, <1>9 DEF PlaceNew, Continue
  <2>2. Goal(s, old)
    BY <1>7, <2>1 DEF Statuses, OrNone
  <2>3. Lands(old)
    BY <1>6, <1>9, <2>1 DEF Lands, Added
  <2> QED BY <2>2, <2>3
<1>10. \/ old.duplicate # None /\ PlaceDuplicate(s, job, old.duplicate)
       \/ old.duplicate = None /\ \E a \in Vacant : PlaceNew(s, job, a)
  BY <1>3, <1>4 DEF PlaceRow
<1>11. Goal(s, old) /\ Lands(old)
  BY <1>8, <1>9, <1>10
<1> QED BY <1>2, <1>11 DEF JobOK

LEMMA PlaceRowStep ==
  ASSUME Inv, NEW s \in Loaders, UNCHANGED asked, PlaceRow(s)
  PROVE  Inv'
<1>1. handling[s].turf \in Turfs /\ handling[s].home \in Homes
  BY Job DEF PlaceRow, JobOK
<1>2. TablesOK
  BY DEF Inv, RowsOK
<1>3. UNCHANGED <<turfs, homes, asked, batches>>
  BY DEF PlaceRow
<1>4. PICK old : old = handling[s]
  OBVIOUS
<1>5. /\ places' \in [Places -> OrNone(PlaceRows)]
      /\ \A a \in Places : places[a] # None => places'[a] # None
  <2>1. CASE places' = places
    BY <1>2, <2>1 DEF TablesOK
  <2>2. CASE old.duplicate # None /\ Rekeyed(old.duplicate)
    BY <1>2, <1>4, <2>2, Placing, PlaceRekeyed DEF Rekeyed
  <2>3. CASE Added(old.turf, old.home)
    BY <1>1, <1>2, <1>4, <2>3, PlaceAdded DEF Added
  <2> QED BY <1>4, <2>1, <2>2, <2>3, Placing DEF Lands
<1>6. RowsRemain /\ TablesOK' /\ AskedOK'
  BY <1>3, <1>5 DEF RowsRemain, Inv, RowsOK, TablesOK, AskedOK
<1>7. PICK j \in Work : JobOK(j) /\ handling' = [handling EXCEPT ![s] = j]
  BY <1>4, Placing DEF Goal
<1> QED BY <1>3, <1>6, <1>7, Goes

LEMMA EndTurfStep ==
  ASSUME Inv, NEW s \in Loaders, UNCHANGED asked, EndTurf(s)
  PROVE  Inv'
<1>1. PICK job : job = handling[s]
  OBVIOUS
<1>2. job \in Importing /\ JobOK(job) /\ job.at = "row"
  BY <1>1, Job, Labels DEF EndTurf
<1>3. PICK j : j = LeaveTurf(job)
  OBVIOUS
<1>4. j \in Work /\ JobOK(j)
  <2>1. CASE job.rows # <<>>
    <3>1. j = [job EXCEPT !.at = "turf"]
      BY <1>3, <2>1 DEF LeaveTurf
    <3>2. j \in Importing /\ j.at = "turf" /\ j.rows = job.rows /\ j.results = job.results
      BY <1>2, <3>1 DEF Importing
    <3> QED BY <1>2, <2>1, <3>2 DEF JobOK, Work
  <2>2. CASE job.rows = <<>>
    <3>1. j = [at |-> "batch", results |-> job.results]
      BY <1>3, <2>2 DEF LeaveTurf
    <3>2. j \in Recording /\ j.at = "batch" /\ j.results = job.results
      BY <1>2, <3>1 DEF Importing, Recording
    <3>3. Len(job.results) \in Lines
      <4>1. Len(job.rows) = 0 /\ Len(job.results) \in Nat
        BY <1>2, <2>2, EmptySeq, LenProperties DEF Importing
      <4> QED BY <1>2, <4>1 DEF JobOK
    <3> QED BY <1>2, <3>2, <3>3 DEF JobOK, Work
  <2> QED BY <2>1, <2>2
<1>5. UNCHANGED <<turfs, homes, asked, batches>> /\ handling' = [handling EXCEPT ![s] = j]
  BY <1>1, <1>3 DEF EndTurf, Continue
<1>6. PICK gone \in SUBSET Places :
        /\ places' = [a \in Places |-> IF a \in gone THEN [places[a] EXCEPT !.live = FALSE] ELSE places[a]]
        /\ \A a \in gone : places[a] # None
  <2> DEFINE gone == IF job.mode = "replace_turf_membership" /\ job.found /\ job.seen # {}
                     THEN {a \in LiveOn(job.turf) : places[a].home \notin job.seen} ELSE {}
  <2>1. gone \in SUBSET Places /\ \A a \in gone : places[a] # None
    BY DEF LiveOn, On
  <2>2. places' = [a \in Places |-> IF a \in gone THEN [places[a] EXCEPT !.live = FALSE] ELSE places[a]]
    BY <1>1 DEF EndTurf
  <2> QED BY <2>1, <2>2
<1>7. /\ places' \in [Places -> OrNone(PlaceRows)]
      /\ \A a \in Places : places[a] # None => places'[a] # None
  <2>1. ASSUME NEW a \in gone PROVE [places[a] EXCEPT !.live = FALSE] \in PlaceRows
    BY <1>6 DEF Inv, RowsOK, TablesOK, OrNone, PlaceRows
  <2> QED BY <1>6, <2>1, NoneAssumption DEF Inv, RowsOK, TablesOK, OrNone
<1>8. RowsRemain /\ TablesOK' /\ AskedOK'
  BY <1>5, <1>7 DEF RowsRemain, Inv, RowsOK, TablesOK, AskedOK
<1> QED BY <1>4, <1>5, <1>8, Goes

\* The results of a file can be counted.
LEMMA Countable ==
  ASSUME NEW results \in Seq(RowResults), NEW status
  PROVE  IsFiniteSet({i \in DOMAIN results : results[i].status = status})
<1>1. DOMAIN results = 1 .. Len(results) /\ Len(results) \in Nat
  BY LenProperties
<1>2. IsFiniteSet(DOMAIN results)
  BY <1>1, FS_Interval
<1> QED BY <1>2, FS_Subset

LEMMA Counted ==
  ASSUME NEW results \in Seq(RowResults), NEW status
  PROVE  Count(results, status) \in Nat
BY Countable, FS_CardinalityType DEF Count

Records(b, new, results) ==
  /\ b \in Batches /\ new \in BatchRows /\ new # None
  /\ new.rows = results /\ new.counts = [status \in Statuses |-> Count(results, status)]
  /\ batches[b] = None /\ batches' = [batches EXCEPT ![b] = new]

LEMMA BatchRecorded ==
  ASSUME Inv, NEW s \in Loaders, RecordBatch(s), NEW results, results = handling[s].results
  PROVE  /\ results \in Seq(RowResults) /\ Len(results) \in Lines /\ Sensible(results)
         /\ \A i \in DOMAIN results : results[i].decided = 0
         /\ \E b, new : Records(b, new, results)
         /\ handling' = [handling EXCEPT ![s] = Idle] /\ UNCHANGED tables
<1>1. handling[s] \in Recording /\ JobOK(handling[s]) /\ handling[s].at = "batch"
  BY Job, Labels DEF RecordBatch
<1>2. /\ results \in Seq(RowResults) /\ Len(results) \in Lines /\ Sensible(results)
      /\ \A i \in DOMAIN results : results[i].decided = 0
  BY <1>1 DEF Recording, JobOK
<1> DEFINE counts == [status \in Statuses |-> Count(results, status)]
           new == [rows |-> results, counts |-> counts]
<1>3. PICK b \in Batches : batches[b] = None /\ batches' = [batches EXCEPT ![b] = new]
  BY DEF RecordBatch
<1>4. counts \in [Statuses -> Int]
  <2>1. ASSUME NEW status \in Statuses PROVE Count(results, status) \in Int
    <3>1. Count(results, status) \in Nat
      BY <1>2, Counted
    <3> QED BY <3>1
  <2> QED BY <2>1
<1>5. new \in BatchRows /\ new.rows = results /\ new.counts = counts
  BY <1>2, <1>4 DEF BatchRows
<1>6. new # None
  BY <1>5, NoBatchAssumption
<1>7. handling' = [handling EXCEPT ![s] = Idle] /\ UNCHANGED tables
  BY DEF RecordBatch, Done
<1>8. Records(b, new, results)
  BY <1>3, <1>5, <1>6 DEF Records
<1> QED BY <1>2, <1>7, <1>8

LEMMA RecordBatchStep ==
  ASSUME Inv, NEW s \in Loaders, UNCHANGED asked, RecordBatch(s)
  PROVE  Inv'
<1>1. PICK results : results = handling[s].results
  OBVIOUS
<1>0. PICK b, new : Records(b, new, results)
  BY <1>1, BatchRecorded
<1>2. /\ b \in Batches /\ new \in BatchRows /\ new.rows = results
      /\ new # None /\ batches[b] = None /\ batches' = [batches EXCEPT ![b] = new]
  BY <1>0 DEF Records
<1>3. /\ Len(results) \in Lines /\ Sensible(results) /\ UNCHANGED tables
      /\ handling' = [handling EXCEPT ![s] = Idle]
  BY <1>1, BatchRecorded
<1>4. \A c \in Batches : batches'[c] = IF c = b THEN new ELSE batches[c]
  BY <1>2 DEF Inv, RowsOK, BatchesOK
<1>5. RowsRemain
  BY <1>2, <1>3, <1>4 DEF RowsRemain, tables
<1>6. TablesOK' /\ AskedOK'
  BY <1>3 DEF Inv, RowsOK, TablesOK, AskedOK, tables
<1>7. BatchesOK'
  <2>1. batches' \in [Batches -> OrNone(BatchRows)]
    BY <1>2 DEF Inv, RowsOK, BatchesOK, OrNone
  <2> QED BY <1>2, <1>3, <1>4, <2>1 DEF Inv, RowsOK, BatchesOK
<1>8. Sensible(results)'
  BY <1>3, <1>5, StillSensible
<1>9. \A c \in Batches : batches'[c] # None =>
        (batches[c] # None /\ batches'[c] = batches[c]) \/ Sensible(batches[c].rows)'
  BY <1>2, <1>4, <1>8 DEF Sensible
<1>10. JobOK(Idle)'
  BY DEF JobOK, Idle
<1>11. RowsOK'
  BY <1>6, <1>7 DEF RowsOK
<1> QED BY <1>3, <1>5, <1>9, <1>10, <1>11, IdleOK, SlotStep

(* Resolutions. *)

LEMMA Resolved ==
  ASSUME Inv, NEW s \in Loaders, handling[s].at \in {"merge", "skip", "count"},
         NEW b, b = handling[s].batch, NEW i, i = handling[s].row
  PROVE  /\ handling[s] \in Resolving /\ b \in Batches /\ batches[b] # None /\ batches[b] \in BatchRows
         /\ batches[b].rows \in Seq(RowResults) /\ Len(batches[b].rows) \in Nat
         /\ DOMAIN batches[b].rows = 1 .. Len(batches[b].rows) /\ Len(batches[b].rows) \in Lines
         /\ i \in DOMAIN batches[b].rows /\ batches[b].rows[i] \in RowResults
         /\ handling[s].to \in {"merged", "skipped_duplicate"}
<1>1. handling[s] \in Resolving /\ JobOK(handling[s])
  BY Job, Labels
<1>2. b \in Batches /\ batches[b] # None /\ i \in DOMAIN batches[b].rows
      /\ handling[s].to \in {"merged", "skipped_duplicate"}
  BY <1>1 DEF Resolving, JobOK
<1>3. batches[b] \in BatchRows /\ Len(batches[b].rows) \in Lines
  BY <1>2 DEF Inv, RowsOK, BatchesOK, OrNone
<1>4. batches[b].rows \in Seq(RowResults)
  BY <1>3 DEF BatchRows
<1> QED BY <1>1, <1>2, <1>3, <1>4, LenProperties, ElementOfSeq

\* The row and nothing else of its batch is decided.
Decides(b, i, to) ==
  /\ batches'[b] \in BatchRows /\ batches'[b].counts = batches[b].counts
  /\ DOMAIN batches'[b].rows = DOMAIN batches[b].rows /\ Len(batches'[b].rows) = Len(batches[b].rows)
  /\ \A k \in DOMAIN batches[b].rows : k # i => batches'[b].rows[k] = batches[b].rows[k]
  /\ batches'[b].rows[i].status = to
  /\ batches'[b].rows[i].row = batches[b].rows[i].row
  /\ batches'[b].rows[i].candidate = batches[b].rows[i].candidate
  /\ batches'[b].rows[i].decided = IF batches[b].rows[i].decided = 2 THEN 2 ELSE batches[b].rows[i].decided + 1
  /\ batches'[b] # None
  /\ \A c \in Batches : c # b => batches'[c] = batches[c]
  /\ batches' \in [Batches -> OrNone(BatchRows)]
Counting(s, b, i, to) ==
  \E job \in Resolving : /\ job.at = "count" /\ job.batch = b /\ job.row = i /\ job.to = to
                         /\ handling' = [handling EXCEPT ![s] = job]

LEMMA RowDecided ==
  ASSUME Inv, NEW s \in Loaders, ResolveRow(s), NEW b, b = handling[s].batch, NEW i, i = handling[s].row
  PROVE  Decides(b, i, handling[s].to) /\ Counting(s, b, i, handling[s].to)
<1> DEFINE rows == batches[b].rows
           result == rows[i]
           new == Decided(result, handling[s].to)
           table == [rows EXCEPT ![i] = new]
           record == [batches[b] EXCEPT !.rows = table]
<1>1. /\ handling[s] \in Resolving /\ b \in Batches /\ batches[b] \in BatchRows
      /\ rows \in Seq(RowResults) /\ DOMAIN rows = 1 .. Len(rows) /\ i \in DOMAIN rows
      /\ result \in RowResults /\ handling[s].to \in {"merged", "skipped_duplicate"}
  BY Resolved DEF ResolveRow
<1>2. /\ new \in RowResults /\ new.status = handling[s].to /\ new.row = result.row
      /\ new.candidate = result.candidate /\ new.decided = IF result.decided = 2 THEN 2 ELSE result.decided + 1
  <2>1. (IF result.decided = 2 THEN 2 ELSE result.decided + 1) \in 0 .. 2
    BY <1>1 DEF RowResults
  <2> QED BY <1>1, <2>1 DEF Decided, RowResults, Statuses
<1>3. batches' = [batches EXCEPT ![b] = record]
  BY DEF ResolveRow
<1> HIDE DEF new
<1>4. table \in Seq(RowResults) /\ Len(table) = Len(rows) /\ DOMAIN table = DOMAIN rows
      /\ \A k \in DOMAIN rows : table[k] = IF k = i THEN new ELSE rows[k]
  BY <1>1, <1>2, ExceptSeq, LenProperties
<1> HIDE DEF table
<1>5. record \in BatchRows /\ record.rows = table /\ record.counts = batches[b].counts
  BY <1>1, <1>4 DEF BatchRows
<1>6. record # None
  BY <1>5, NoBatchAssumption
<1> HIDE DEF record
<1>7. \A c \in Batches : batches'[c] = IF c = b THEN record ELSE batches[c]
  BY <1>3 DEF Inv, RowsOK, BatchesOK
<1>8. batches' \in [Batches -> OrNone(BatchRows)]
  BY <1>3, <1>5 DEF Inv, RowsOK, BatchesOK, OrNone
<1>9. PICK job : job = [handling[s] EXCEPT !.at = "count"]
  OBVIOUS
<1>10. job \in Resolving /\ job.at = "count" /\ job.batch = b /\ job.row = i /\ job.to = handling[s].to
  BY <1>1, <1>9 DEF Resolving
<1>11. handling' = [handling EXCEPT ![s] = job]
  BY <1>9 DEF ResolveRow, Continue
<1>12. Decides(b, i, handling[s].to)
  BY <1>1, <1>2, <1>4, <1>5, <1>6, <1>7, <1>8 DEF Decides
<1> QED BY <1>10, <1>11, <1>12 DEF Counting

LEMMA ResolveRowStep ==
  ASSUME Inv, NEW s \in Loaders, UNCHANGED asked, ResolveRow(s)
  PROVE  Inv'
<1>1. PICK b, i : b = handling[s].batch /\ i = handling[s].row
  OBVIOUS
<1>2. /\ b \in Batches /\ batches[b] # None /\ i \in DOMAIN batches[b].rows
      /\ handling[s].to \in {"merged", "skipped_duplicate"} /\ Len(batches[b].rows) \in Lines
  BY <1>1, Resolved DEF ResolveRow
<1>0. Decides(b, i, handling[s].to) /\ Counting(s, b, i, handling[s].to)
  BY <1>1, RowDecided
<1>3. /\ DOMAIN batches'[b].rows = DOMAIN batches[b].rows /\ Len(batches'[b].rows) = Len(batches[b].rows)
      /\ \A k \in DOMAIN batches[b].rows : k # i => batches'[b].rows[k] = batches[b].rows[k]
      /\ batches'[b].rows[i].status = handling[s].to
      /\ batches'[b].rows[i].row = batches[b].rows[i].row
      /\ batches'[b].rows[i].candidate = batches[b].rows[i].candidate
      /\ batches'[b] # None
      /\ \A c \in Batches : c # b => batches'[c] = batches[c]
      /\ batches' \in [Batches -> OrNone(BatchRows)]
  BY <1>0 DEF Decides
<1>4. PICK job \in Resolving : /\ job.at = "count" /\ job.batch = b /\ job.row = i
                               /\ handling' = [handling EXCEPT ![s] = job]
  BY <1>0 DEF Counting
<1>5. UNCHANGED tables
  BY DEF ResolveRow
<1>6. RowsRemain
  BY <1>3, <1>5 DEF RowsRemain, tables
<1>7. RowsOK'
  BY <1>2, <1>3, <1>5 DEF Inv, RowsOK, TablesOK, AskedOK, BatchesOK, tables
<1>8. JobOK(job)'
  BY <1>2, <1>3, <1>4 DEF JobOK
<1>9. job \in Work
  BY <1>4 DEF Work
<1>10. Sensible(batches[b].rows)'
  <2>1. Sensible(batches[b].rows)
    BY <1>2 DEF Inv
  <2>2. handling[s].to # "pending_review" /\ handling[s].to # "skipped_invalid"
    BY <1>2
  <2>3. batches[b].rows[i].row.text # None
    BY <1>1, <1>2, Job DEF ResolveRow, JobOK
  <2>4. \A a : a \in Places /\ places[a] # None => places'[a] # None
    BY <1>5 DEF tables
  <2>5. Judged(batches[b].rows[i])' /\ Waits(batches[b].rows[i])'
    BY <1>3, <2>2, <2>3 DEF Judged, Waits
  <2>6. ASSUME NEW k \in DOMAIN batches[b].rows, k # i
        PROVE  Judged(batches[b].rows[k])' /\ Waits(batches[b].rows[k])'
    BY <1>3, <2>1, <2>4, <2>6 DEF Judged, Waits, Sensible
  <2> QED BY <1>3, <2>5, <2>6 DEF Sensible
<1>11. \A c \in Batches : batches'[c] # None =>
         (batches[c] # None /\ batches'[c] = batches[c]) \/ Sensible(batches[c].rows)'
  BY <1>3, <1>10 DEF Sensible
<1> QED BY <1>4, <1>6, <1>7, <1>8, <1>9, <1>11, SlotStep

LEMMA BeginResolveStep ==
  ASSUME Inv, NEW s \in Loaders, UNCHANGED asked, NEW b \in {c \in Batches : batches[c] # None},
         NEW action \in {"merge", "skip"}, NEW i \in DOMAIN batches[b].rows, BeginResolve(s, action, b, i)
  PROVE  Inv'
<1>1. PICK j : j = Resolution(action, b, i)
  OBVIOUS
<1>2. batches[b] \in BatchRows /\ Sensible(batches[b].rows)
  BY DEF Inv, RowsOK, BatchesOK, OrNone
<1>3. i \in Nat /\ batches[b].rows[i].status = "pending_review"
  <2>1. i \in Held(b)
    BY DEF BeginResolve
  <2>2. batches[b].rows \in Seq(RowResults)
    BY <1>2 DEF BatchRows
  <2> QED BY <2>1, <2>2, LenProperties DEF Held
<1>4. /\ batches[b].rows[i].candidate \in Places /\ places[batches[b].rows[i].candidate] # None
      /\ batches[b].rows[i].row.text # None
  BY <1>2, <1>3 DEF Sensible, Judged, Waits
<1>5. j \in Resolving /\ j.at = action /\ j.batch = b /\ j.row = i
  BY <1>1, <1>3 DEF Resolution, Resolving
<1>6. j \in Work /\ JobOK(j)
  BY <1>4, <1>5 DEF Work, JobOK
<1>7. handling' = [handling EXCEPT ![s] = j] /\ UNCHANGED <<tables, asked, batches>>
  BY <1>1 DEF BeginResolve, Send
<1> QED BY <1>6, <1>7, GoesOn

LEMMA Merging ==
  ASSUME Inv, NEW s \in Loaders, MergeAddress(s)
  PROVE  \E d \in Places, x \in Texts :
           places[d] # None /\ places' = [places EXCEPT ![d].key = KeyOf[x]]
<1>1. PICK b, i : b = handling[s].batch /\ i = handling[s].row
  OBVIOUS
<1>2. batches[b].rows[i] \in RowResults
  BY <1>1, Resolved DEF MergeAddress
<1>3. PICK result : result = batches[b].rows[i]
  OBVIOUS
<1>4. result.candidate \in Places /\ places[result.candidate] # None /\ result.row.text # None
  <2>1. JobOK(handling[s]) /\ handling[s].at = "merge"
    BY Job DEF MergeAddress
  <2> QED BY <2>1, <1>1, <1>3 DEF JobOK
<1>5. result.row.text \in Texts
  BY <1>2, <1>3, <1>4 DEF RowResults, Rows, OrNone
<1>6. places' = [places EXCEPT ![result.candidate].key = KeyOf[result.row.text]]
  BY <1>1, <1>3 DEF MergeAddress
<1> QED BY <1>4, <1>5, <1>6

LEMMA MergeAddressStep ==
  ASSUME Inv, NEW s \in Loaders, UNCHANGED asked, MergeAddress(s)
  PROVE  Inv'
<1>1. PICK j : j = [handling[s] EXCEPT !.at = "skip"]
  OBVIOUS
<1>2. handling[s] \in Resolving /\ JobOK(handling[s]) /\ handling[s].at = "merge"
  BY Job, Labels DEF MergeAddress
<1>3. j \in Resolving /\ j.at = "skip" /\ j.batch = handling[s].batch /\ j.row = handling[s].row
  BY <1>1, <1>2 DEF Resolving
<1>4. j \in Work /\ JobOK(j)
  BY <1>2, <1>3 DEF Work, JobOK
<1>5. UNCHANGED <<turfs, homes, batches>> /\ handling' = [handling EXCEPT ![s] = j]
  BY <1>1 DEF MergeAddress, Continue
<1>6. PICK d \in Places, x \in Texts : places[d] # None /\ places' = [places EXCEPT ![d].key = KeyOf[x]]
  BY Merging
<1>7. TablesOK
  BY DEF Inv, RowsOK
<1>8. /\ places' \in [Places -> OrNone(PlaceRows)]
      /\ \A a \in Places : places[a] # None => places'[a] # None
  BY <1>6, <1>7, PlaceRekeyed
<1>9. RowsRemain /\ TablesOK' /\ AskedOK'
  BY <1>5, <1>8 DEF RowsRemain, TablesOK, AskedOK, Inv, RowsOK
<1> QED BY <1>4, <1>5, <1>9, Goes

\* The counters of a batch after a row of it was decided.
Recounts(b, to) ==
  \E new \in BatchRows :
    /\ batches' = [batches EXCEPT ![b] = new] /\ new # None
    /\ new.rows = batches[b].rows
    /\ \A status \in Statuses :
         new.counts[status] = IF status = "pending_review" THEN batches[b].counts[status] - 1
                              ELSE IF status = to THEN batches[b].counts[status] + 1
                              ELSE batches[b].counts[status]

LEMMA Recounted ==
  ASSUME Inv, NEW s \in Loaders, CountRow(s), NEW b, b = handling[s].batch, NEW to, to = handling[s].to
  PROVE  Recounts(b, to)
<1> DEFINE counts == [batches[b].counts EXCEPT !["pending_review"] = @ - 1, ![to] = @ + 1]
           new == [batches[b] EXCEPT !.counts = counts]
<1>1. batches[b] \in BatchRows /\ b \in Batches /\ to \in {"merged", "skipped_duplicate"}
  BY Resolved DEF CountRow
<1>2. batches' = [batches EXCEPT ![b].counts["pending_review"] = @ - 1, ![b].counts[to] = @ + 1]
  BY DEF CountRow
<1>3. batches' = [batches EXCEPT ![b] = new]
  BY <1>1, <1>2 DEF BatchRows, Inv, RowsOK, BatchesOK
<1>4. batches[b].counts \in [Statuses -> Int]
  BY <1>1 DEF BatchRows
<1>5. counts \in [Statuses -> Int]
  BY <1>1, <1>4 DEF Statuses
<1>6. \A status \in Statuses :
        counts[status] = IF status = "pending_review" THEN batches[b].counts[status] - 1
                         ELSE IF status = to THEN batches[b].counts[status] + 1
                         ELSE batches[b].counts[status]
  BY <1>1, <1>4 DEF Statuses
<1> HIDE DEF counts
<1>7. new \in BatchRows /\ new.rows = batches[b].rows /\ new.counts = counts
  BY <1>1, <1>5 DEF BatchRows
<1>8. new # None
  BY <1>7, NoBatchAssumption
<1>9. \A status \in Statuses :
        new.counts[status] = IF status = "pending_review" THEN batches[b].counts[status] - 1
                             ELSE IF status = to THEN batches[b].counts[status] + 1
                             ELSE batches[b].counts[status]
  BY <1>6, <1>7
<1> HIDE DEF new
<1> QED BY <1>3, <1>7, <1>8, <1>9 DEF Recounts

LEMMA CountRowStep ==
  ASSUME Inv, NEW s \in Loaders, UNCHANGED asked, CountRow(s)
  PROVE  Inv'
<1>1. PICK b, to : b = handling[s].batch /\ to = handling[s].to
  OBVIOUS
<1>2. b \in Batches /\ batches[b] # None /\ Len(batches[b].rows) \in Lines
  BY <1>1, Resolved DEF CountRow
<1>3. PICK new \in BatchRows : /\ batches' = [batches EXCEPT ![b] = new] /\ new # None
                               /\ new.rows = batches[b].rows
  BY <1>1, Recounted DEF Recounts
<1>4. \A c \in Batches : batches'[c] = IF c = b THEN new ELSE batches[c]
  BY <1>3 DEF Inv, RowsOK, BatchesOK
<1>5. UNCHANGED tables /\ handling' = [handling EXCEPT ![s] = Idle]
  BY DEF CountRow, Done
<1>6. RowsRemain
  BY <1>2, <1>3, <1>4, <1>5 DEF RowsRemain, tables
<1>7. BatchesOK'
  <2>1. batches' \in [Batches -> OrNone(BatchRows)]
    BY <1>3 DEF Inv, RowsOK, BatchesOK, OrNone
  <2> QED BY <1>2, <1>3, <1>4, <2>1 DEF Inv, RowsOK, BatchesOK
<1>8. RowsOK'
  BY <1>5, <1>7 DEF Inv, RowsOK, TablesOK, AskedOK, tables
<1>9. Sensible(batches[b].rows)'
  <2>1. PICK rows : rows = batches[b].rows
    OBVIOUS
  <2>2. Sensible(rows)
    BY <1>2, <2>1 DEF Inv
  <2>3. Sensible(rows)'
    BY <1>6, <2>2, StillSensible
  <2>4. batches'[b].rows = rows
    BY <1>2, <1>3, <1>4, <2>1
  <2> QED BY <2>3, <2>4 DEF Sensible
<1>10. \A c \in Batches : batches'[c] # None =>
         (batches[c] # None /\ batches'[c] = batches[c]) \/ Sensible(batches[c].rows)'
  BY <1>4, <1>9 DEF Sensible
<1>11. JobOK(Idle)'
  BY DEF JobOK, Idle
<1> QED BY <1>5, <1>6, <1>8, <1>10, <1>11, IdleOK, SlotStep

LEMMA ImportsStep ==
  ASSUME Inv, ImportsNext, UNCHANGED asked
  PROVE  Inv'
<1>1. ASSUME NEW s \in Loaders, NEW settings \in Settings, NEW file \in Files, BeginImport(s, settings, file)
      PROVE  Inv'
  <2>1. PICK j : j = [at |-> "turf", mode |-> settings.mode, strategy |-> settings.strategy, rows |-> file,
                      turf |-> None, found |-> FALSE, seen |-> {}, home |-> None, duplicate |-> None,
                      results |-> <<>>]
    OBVIOUS
  <2>2. j \in Work /\ JobOK(j)
    BY <2>1, BeginImportOK
  <2>3. handling' = [handling EXCEPT ![s] = j] /\ UNCHANGED <<tables, asked, batches>>
    BY <1>1, <2>1 DEF BeginImport, Send
  <2> QED BY <2>2, <2>3, GoesOn
<1> QED BY <1>1, BeginTurfStep, ImportRowStep, FindDuplicateStep, PlaceRowStep, EndTurfStep, RecordBatchStep,
           BeginResolveStep, MergeAddressStep, ResolveRowStep, CountRowStep DEF ImportsNext

LEMMA Invariance == Inv /\ [Next]_vars => Inv'
<1> SUFFICES ASSUME Inv, [Next]_vars PROVE Inv'
  OBVIOUS
<1>1. ASSUME NEW s \in Slots \cup Loaders, Abandon(s) PROVE Inv'
  BY <1>1, IdleOK, GoesOn DEF Abandon, Done
<1>2. CASE UNCHANGED vars
  <2>1. RowsRemain
    BY <1>2 DEF RowsRemain, vars
  <2>2. RowsOK' /\ handling' \in [Slots \cup Loaders -> Work]
    BY <1>2 DEF vars, Inv, RowsOK, TablesOK, AskedOK, BatchesOK
  <2>3. \A s \in Slots \cup Loaders : JobOK(handling[s])'
    BY <1>2 DEF vars, Inv, JobOK, Sensible, Judged, Waits
  <2>4. \A b \in Batches : batches'[b] # None => Sensible(batches[b].rows)'
    BY <1>2 DEF vars, Inv, Sensible, Judged, Waits
  <2> QED BY <2>2, <2>3, <2>4 DEF Inv
<1> QED BY <1>1, <1>2, RequestsStep, ImportsStep DEF Next

\* Only a merge writes a held row to its address.
LEMMA Applying ==
  ASSUME [Next]_vars
  PROVE  UNCHANGED applied \/ \E s \in Loaders : MergeAddress(s)
<1>1. ASSUME ImportsNext PROVE UNCHANGED applied \/ \E s \in Loaders : MergeAddress(s)
  BY <1>1 DEF ImportsNext, BeginImport, BeginTurf, ImportRow, FindDuplicate, PlaceRow, EndTurf, RecordBatch,
              BeginResolve, ResolveRow, CountRow
<1> QED BY <1>1 DEF Next, Abandon, vars

(* Every row, counter and request stays well formed.                       *)
THEOREM TypeCorrect == Spec => []TypeOK
<1>1. Init => AppliedOK
  BY DEF Init, AppliedOK
<1>2. Inv /\ AppliedOK /\ [Next]_vars => AppliedOK'
  <2> SUFFICES ASSUME Inv, AppliedOK, [Next]_vars PROVE AppliedOK'
    OBVIOUS
  <2>1. CASE UNCHANGED applied
    BY <2>1 DEF AppliedOK
  <2>2. ASSUME NEW s \in Loaders, MergeAddress(s) PROVE AppliedOK'
    <3>0. PICK b, i : b = handling[s].batch /\ i = handling[s].row
      OBVIOUS
    <3>1. handling[s].at \in {"merge", "skip", "count"}
      BY <2>2 DEF MergeAddress
    <3>2. b \in Batches /\ i \in 1 .. Len(batches[b].rows) /\ Len(batches[b].rows) \in Lines
      BY <3>0, <3>1, Resolved
    <3>3. <<b, i>> \in HeldRows
      BY <3>2, LinesAssumption DEF HeldRows
    <3>4. applied' = applied \cup {<<b, i>>}
      BY <2>2, <3>0 DEF MergeAddress
    <3> QED BY <3>3, <3>4 DEF AppliedOK
  <2> QED BY <2>1, <2>2, Applying
<1>3. Inv /\ AppliedOK => TypeOK
  BY DEF Inv, TypeOK
<1> QED BY InitInv, Invariance, <1>1, <1>2, <1>3, PTL DEF Spec

----------------------------------------------------------------------------
(* What becomes of the addresses.                                          *)

\* Addresses keep their turf and household, are not taken up again once removed,
\* and the new ones were added in the field.
FieldOnly ==
  \A a \in Places : places'[a] # None =>
    \/ places[a] = None /\ places'[a].field
    \/ /\ places[a] # None
       /\ places'[a].turf = places[a].turf /\ places'[a].home = places[a].home
       /\ places'[a].field = places[a].field
       /\ places'[a].live => places[a].live

LEMMA SameIsFieldOnly == ASSUME places' = places PROVE FieldOnly
BY DEF FieldOnly

LEMMA RekeyedIsFieldOnly ==
  ASSUME Inv, NEW d \in Places, places[d] # None, NEW x \in Texts,
         places' = [places EXCEPT ![d].key = KeyOf[x]]
  PROVE  FieldOnly
<1>1. TablesOK
  BY DEF Inv, RowsOK
<1> QED BY <1>1, PlaceRekeyed DEF FieldOnly

LEMMA Ending ==
  ASSUME Inv, NEW s \in Loaders, EndTurf(s), NEW job, job = handling[s]
  PROVE  /\ FieldOnly
         /\ job.mode = "replace_turf_membership" /\ job.found /\ job.seen # {}
              => \A a \in On(places', job.turf) : a \in LiveOn(job.turf) /\ places[a].home \in job.seen
         /\ \A a \in Places : places[a] # None /\ places[a].live /\ places[a].home \in job.seen
              => places'[a] = places[a]
<1> DEFINE gone == IF job.mode = "replace_turf_membership" /\ job.found /\ job.seen # {}
                   THEN {a \in LiveOn(job.turf) : places[a].home \notin job.seen} ELSE {}
<1>1. gone \in SUBSET Places /\ \A a \in gone : places[a] # None /\ places[a].home \notin job.seen
  BY DEF LiveOn, On
<1>2. \A a \in Places : places'[a] = IF a \in gone THEN [places[a] EXCEPT !.live = FALSE] ELSE places[a]
  BY DEF EndTurf
<1>3. job.mode = "replace_turf_membership" /\ job.found /\ job.seen # {} =>
        \A a \in LiveOn(job.turf) : places[a].home \notin job.seen => a \in gone
  OBVIOUS
<1> HIDE DEF gone
<1>4. \A a \in Places : places[a] # None => places[a] \in PlaceRows
  BY DEF Inv, RowsOK, TablesOK, OrNone
<1>5. \A a \in gone : /\ places'[a].turf = places[a].turf /\ places'[a].home = places[a].home
                     /\ places'[a].field = places[a].field /\ places'[a].live = FALSE
  BY <1>1, <1>2, <1>4 DEF PlaceRows
<1>6. \A a \in Places \ gone : places'[a] = places[a]
  BY <1>2
<1>7. FieldOnly
  BY <1>1, <1>5, <1>6 DEF FieldOnly
<1>8. ASSUME job.mode = "replace_turf_membership" /\ job.found /\ job.seen # {},
             NEW a \in On(places', job.turf)
      PROVE  a \in LiveOn(job.turf) /\ places[a].home \in job.seen
  <2>1. a \in Places /\ a \notin gone /\ places'[a] # None /\ places'[a].turf = job.turf /\ places'[a].live
    BY <1>5 DEF On
  <2>2. a \in LiveOn(job.turf)
    BY <1>6, <2>1 DEF LiveOn, On
  <2> QED BY <1>3, <1>8, <2>1, <2>2
<1> QED BY <1>1, <1>6, <1>7, <1>8

\* A row whose household was not found is given an address.
Creates(s) == LET old == handling[s]
              IN /\ old.at = "place" /\ old.duplicate = None
                 /\ old.turf \in Turfs /\ old.home \in Homes /\ Added(old.turf, old.home)

LEMMA Fieldwork ==
  ASSUME Inv, [Next]_vars
  PROVE  FieldOnly \/ \E s \in Loaders : Creates(s)
<1>1. ASSUME NEW s \in Slots, ApproveRequest(s) PROVE FieldOnly
  BY <1>1, Approving DEF FieldOnly
<1>2. ASSUME NEW s \in Loaders, PlaceRow(s)
      PROVE  FieldOnly \/ Creates(s)
  <2>1. PICK old : old = handling[s]
    OBVIOUS
  <2>2. /\ Lands(old) /\ old.at = "place" /\ old.turf \in Turfs /\ old.home \in Homes
        /\ old.duplicate # None => old.duplicate \in Places /\ places[old.duplicate] # None
    BY <1>2, <2>1, Placing
  <2>3. CASE old.duplicate = None
    BY <2>1, <2>2, <2>3 DEF Lands, Creates
  <2>4. CASE old.duplicate # None
    BY <2>2, <2>4, RekeyedIsFieldOnly, SameIsFieldOnly DEF Lands, Rekeyed
  <2> QED BY <2>3, <2>4
<1>3. ASSUME NEW s \in Loaders, EndTurf(s) PROVE FieldOnly
  <2>1. PICK job : job = handling[s]
    OBVIOUS
  <2> QED BY <1>3, <2>1, Ending
<1>4. ASSUME NEW s \in Loaders, MergeAddress(s) PROVE FieldOnly
  BY <1>4, Merging, RekeyedIsFieldOnly
<1>5. ASSUME RequestsNext PROVE FieldOnly
  <2>1. places' = places \/ \E s \in Slots : ApproveRequest(s)
    BY <1>5 DEF RequestsNext, BeginSubmit, BeginReview, SubmitRequest, ApprovalFails, RejectRequest, tables
  <2> QED BY <1>1, <2>1, SameIsFieldOnly
<1>6. ASSUME ImportsNext PROVE FieldOnly \/ \E s \in Loaders : Creates(s)
  <2>1. places' = places \/ \E s \in Loaders : PlaceRow(s) \/ EndTurf(s) \/ MergeAddress(s)
    BY <1>6 DEF ImportsNext, BeginImport, BeginTurf, ImportRow, FindDuplicate, RecordBatch, BeginResolve,
                ResolveRow, CountRow, tables
  <2> QED BY <1>2, <1>3, <1>4, <2>1, SameIsFieldOnly
<1> QED BY <1>5, <1>6, SameIsFieldOnly DEF Next, Abandon, tables, vars

(* What a step of another handler may do while the only loader works.      *)

LEMMA RequestKeepsPlace ==
  ASSUME Inv, RequestsNext, NEW s \in Loaders
  PROVE  handling'[s] = handling[s] \/ handling'[s].at \in {"idle", "submit", "approve", "reject"}
<1>1. PICK r \in Slots, j \in {Idle} \cup Submitting \cup Reviewing : handling' = [handling EXCEPT ![r] = j]
  <2>1. ASSUME NEW r \in Slots, NEW t \in Turfs, NEW x \in Texts, BeginSubmit(r, t, x)
        PROVE  \E j \in {Idle} \cup Submitting \cup Reviewing : handling' = [handling EXCEPT ![r] = j]
    BY <2>1 DEF BeginSubmit, Send, Submitting
  <2>2. ASSUME NEW r \in Slots, NEW q \in Asks, NEW verdict \in {"approve", "reject"}, BeginReview(r, q, verdict)
        PROVE  \E j \in {Idle} \cup Submitting \cup Reviewing : handling' = [handling EXCEPT ![r] = j]
    BY <2>2 DEF BeginReview, Send, Reviewing
  <2>3. ASSUME NEW r \in Slots, SubmitRequest(r) \/ ApproveRequest(r) \/ ApprovalFails(r) \/ RejectRequest(r)
        PROVE  handling' = [handling EXCEPT ![r] = Idle]
    BY <2>3 DEF SubmitRequest, ApproveRequest, ApprovalFails, RejectRequest, Done
  <2> QED BY <2>1, <2>2, <2>3 DEF RequestsNext
<1>2. j.at \in {"idle", "submit", "approve", "reject"}
  BY DEF Idle, Submitting, Reviewing
<1> QED BY <1>1, <1>2 DEF Inv

LEMMA LeavesTurf ==
  ASSUME Inv, [Next]_vars, NEW s \in Loaders,
         handling[s].at = "row", handling'[s].at \in {"turf", "batch"}
  PROVE  EndTurf(s)
<1>1. ~RequestsNext
  BY RequestKeepsPlace
<1>2. ASSUME NEW r \in Slots \cup Loaders PROVE ~Abandon(r)
  BY DEF Abandon, Done, Idle, Inv
<1>3. ~UNCHANGED vars
  BY DEF vars
<1>4. PICK r \in Loaders :
        \/ \E settings \in Settings, file \in Files : BeginImport(r, settings, file)
        \/ BeginTurf(r) \/ ImportRow(r) \/ FindDuplicate(r) \/ PlaceRow(r) \/ EndTurf(r) \/ RecordBatch(r)
        \/ \E b \in {c \in Batches : batches[c] # None}, action \in {"merge", "skip"} :
             \E i \in DOMAIN batches[b].rows : BeginResolve(r, action, b, i)
        \/ MergeAddress(r) \/ ResolveRow(r) \/ CountRow(r)
  BY <1>1, <1>2, <1>3 DEF Next, ImportsNext
<1>5. PICK j : handling' = [handling EXCEPT ![r] = j]
  <2>1. ASSUME PlaceRow(r) PROVE \E j : handling' = [handling EXCEPT ![r] = j]
    <3>1. PICK old : old = handling[r]
      OBVIOUS
    <3> QED BY <2>1, <3>1, Placing DEF Goal
  <2>2. ASSUME ImportRow(r) PROVE \E j : handling' = [handling EXCEPT ![r] = j]
    BY <2>2 DEF ImportRow, Continue
  <2> QED BY <1>4, <2>1, <2>2 DEF BeginImport, BeginTurf, FindDuplicate, EndTurf, RecordBatch, BeginResolve,
            MergeAddress, ResolveRow, CountRow, Send, Done, Continue
<1>6. r = s
  BY <1>5 DEF Inv
<1>7. /\ ~BeginTurf(s) /\ ~FindDuplicate(s) /\ ~PlaceRow(s) /\ ~RecordBatch(s)
      /\ ~MergeAddress(s) /\ ~ResolveRow(s) /\ ~CountRow(s)
  BY DEF BeginTurf, FindDuplicate, PlaceRow, RecordBatch, MergeAddress, ResolveRow, CountRow
<1>8. \A k : ~Send(s, k)
  BY DEF Send, Idle
<1>9. ASSUME ImportRow(s) PROVE FALSE
  <2>1. \/ handling' = [handling EXCEPT ![s] = Settle(handling[s], "skipped_invalid", None)]
        \/ \E h \in Homes : handling' = [handling EXCEPT ![s] = [handling[s] EXCEPT !.at = "find", !.home = h]]
    BY <1>9 DEF ImportRow, Continue
  <2>2. handling[s] \in Importing
    BY Job, Labels
  <2>3. \A h : [handling[s] EXCEPT !.at = "find", !.home = h].at = "find"
    BY <2>2 DEF Importing
  <2>4. Settle(handling[s], "skipped_invalid", None).at = "row"
    BY <2>2 DEF Settle, Importing
  <2> QED BY <2>1, <2>3, <2>4 DEF Inv
<1> QED BY <1>4, <1>6, <1>7, <1>8, <1>9 DEF BeginImport, BeginResolve

\* Every household that a file placed on the turf so far has a live address there.
HasOn(table, t, h) == \E a \in On(table, t) : table[a].home = h
SeenOn == \A s \in Loaders : handling[s].at \in {"row", "find", "place"} =>
            \A h \in handling[s].seen : HasOn(places, handling[s].turf, h)

\* What a lookup found is still so when the row is placed.
FoundOn == \A s \in Loaders : handling[s].at = "place" => Finds(handling[s])

\* Addresses keep their turf and household and stay.
Standing ==
  \A a \in Places : places[a] # None =>
    /\ places'[a] # None /\ places'[a].turf = places[a].turf /\ places'[a].home = places[a].home
    /\ places'[a].live = places[a].live

LEMMA StandingHasOn ==
  ASSUME Standing, NEW t, NEW h, HasOn(places, t, h)
  PROVE  HasOn(places', t, h)
BY DEF Standing, HasOn, On

LEMMA RekeyedStands ==
  ASSUME Inv, NEW d \in Places, places[d] # None, NEW x \in Texts,
         places' = [places EXCEPT ![d].key = KeyOf[x]]
  PROVE  Standing
<1>1. TablesOK
  BY DEF Inv, RowsOK
<1> QED BY <1>1, PlaceRekeyed DEF Standing

\* Placing a row leaves its household on the turf.
LEMMA PlacedStands ==
  ASSUME Inv, FoundOn, NEW s \in Loaders, PlaceRow(s), NEW old, old = handling[s]
  PROVE  Standing /\ HasOn(places', old.turf, old.home)
<1>1. TablesOK
  BY DEF Inv, RowsOK
<1>2. /\ Lands(old) /\ old.turf \in Turfs /\ old.home \in Homes
      /\ old.duplicate # None => old.duplicate \in Places /\ places[old.duplicate] # None
  BY Placing
<1>3. CASE old.duplicate # None
  <2>1. HasOn(places, old.turf, old.home)
    BY <1>3 DEF PlaceRow, FoundOn, Finds, HasOn, LiveOn
  <2>2. Standing
    <3>1. CASE places' = places
      BY <3>1 DEF Standing
    <3>2. CASE Rekeyed(old.duplicate)
      BY <1>2, <1>3, <3>2, RekeyedStands DEF Rekeyed
    <3> QED BY <1>2, <1>3, <3>1, <3>2 DEF Lands
  <2> QED BY <2>1, <2>2, StandingHasOn
<1>4. CASE old.duplicate = None
  <2>1. PICK a \in Vacant, x \in Texts : places' = Placed(a, old.turf, old.home, x, FALSE)
    BY <1>2, <1>4 DEF Lands, Added
  <2>2. PICK t, h : t = old.turf /\ h = old.home
    OBVIOUS
  <2>3. t \in Turfs /\ h \in Homes /\ places' = Placed(a, t, h, x, FALSE)
    BY <1>2, <2>1, <2>2
  <2>4. /\ a \in Places /\ places[a] = None /\ places'[a] # None
        /\ places'[a].turf = t /\ places'[a].home = h /\ places'[a].live
        /\ \A b \in Places : b # a => places'[b] = places[b]
    BY <1>1, <2>3, PlaceAdded
  <2> QED BY <2>2, <2>4 DEF Standing, HasOn, On
<1> QED BY <1>3, <1>4

\* What the work of the loader may become in any other step.
Carries(old, new) ==
  new.at \in {"row", "find", "place"} =>
    \/ new.at = "row" /\ new.seen = {}
    \/ /\ old.at \in {"row", "find", "place"} /\ new.turf = old.turf /\ new.seen = old.seen
       /\ new.at = "place" => new = old

LEMMA ImportRowCarries ==
  ASSUME Inv, NEW s \in Loaders, ImportRow(s)
  PROVE  Carries(handling[s], handling'[s])
<1>1. PICK job : job = handling[s]
  OBVIOUS
<1>2. job \in Importing /\ JobOK(job) /\ job.at = "row" /\ job.rows # <<>>
  BY <1>1, Job, Labels DEF ImportRow, MoreRows
<1>3. CASE Head(job.rows).text = None
  <2>1. PICK j : j = Settle(job, "skipped_invalid", None)
    OBVIOUS
  <2>2. j.at = "row" /\ j.turf = job.turf /\ j.seen = job.seen
    BY <1>2, <1>3, <2>1, Settling DEF Statuses, OrNone
  <2>3. handling'[s] = j
    BY <1>1, <1>3, <2>1 DEF ImportRow, Continue, Inv
  <2> QED BY <1>1, <1>2, <2>2, <2>3 DEF Carries
<1>4. CASE Head(job.rows).text # None
  <2>1. PICK h \in Homes : handling' = [handling EXCEPT ![s] = [job EXCEPT !.at = "find", !.home = h]]
    BY <1>1, <1>4 DEF ImportRow, Continue
  <2>2. PICK j : j = [job EXCEPT !.at = "find", !.home = h]
    OBVIOUS
  <2>3. j.at = "find" /\ j.turf = job.turf /\ j.seen = job.seen
    BY <1>2, <2>2 DEF Importing
  <2>4. handling'[s] = j
    BY <2>1, <2>2 DEF Inv
  <2> QED BY <1>1, <1>2, <2>3, <2>4 DEF Carries
<1> QED BY <1>3, <1>4

LEMMA BeginTurfCarries ==
  ASSUME Inv, NEW s \in Loaders, BeginTurf(s)
  PROVE  Carries(handling[s], handling'[s])
<1>1. PICK t \in Turfs, found \in BOOLEAN :
        handling' = [handling EXCEPT ![s] =
          [handling[s] EXCEPT !.at = "row", !.turf = t, !.found = found, !.seen = {}]]
  BY DEF BeginTurf, Continue
<1>2. handling[s] \in Importing
  BY Job, Labels DEF BeginTurf
<1>3. PICK j : j = [handling[s] EXCEPT !.at = "row", !.turf = t, !.found = found, !.seen = {}]
  OBVIOUS
<1>4. j.at = "row" /\ j.seen = {} /\ handling'[s] = j
  BY <1>1, <1>2, <1>3 DEF Importing, Inv
<1> QED BY <1>4 DEF Carries

LEMMA Moves ==
  ASSUME Inv, NEW only, Loaders = {only}, [Next]_vars
  PROVE  \/ EndTurf(only) \/ FindDuplicate(only) \/ PlaceRow(only)
         \/ Standing /\ FieldOnly /\ Carries(handling[only], handling'[only])
<1>0. ASSUME places' = places PROVE Standing /\ FieldOnly
  BY <1>0, SameIsFieldOnly DEF Standing
<1>1. CASE UNCHANGED vars
  BY <1>0, <1>1 DEF vars, Carries
<1>2. ASSUME NEW s \in Slots \cup Loaders, Abandon(s)
      PROVE  Standing /\ FieldOnly /\ Carries(handling[only], handling'[only])
  BY <1>0, <1>2 DEF Abandon, Done, Idle, tables, Carries, Inv
<1>3. CASE RequestsNext
  <2>1. Carries(handling[only], handling'[only])
    BY <1>3, RequestKeepsPlace DEF Carries
  <2>2. ASSUME NEW s \in Slots, ApproveRequest(s) PROVE Standing /\ FieldOnly
    BY <2>2, Approving DEF Standing, FieldOnly
  <2>3. places' = places \/ \E s \in Slots : ApproveRequest(s)
    BY <1>3 DEF RequestsNext, BeginSubmit, BeginReview, SubmitRequest, ApprovalFails, RejectRequest, tables
  <2> QED BY <1>0, <2>1, <2>2, <2>3
<1>4. CASE ImportsNext
  <2>1. ASSUME MergeAddress(only) PROVE Standing /\ FieldOnly /\ Carries(handling[only], handling'[only])
    <3>1. handling' = [handling EXCEPT ![only] = [handling[only] EXCEPT !.at = "skip"]]
          /\ handling[only] \in Resolving
      BY <2>1, Job, Labels DEF MergeAddress, Continue
    <3>2. [handling[only] EXCEPT !.at = "skip"].at = "skip"
      BY <3>1 DEF Resolving
    <3> QED BY <2>1, <3>1, <3>2, Merging, RekeyedStands, RekeyedIsFieldOnly DEF Carries, Inv
  <2>2. ASSUME ResolveRow(only) PROVE Carries(handling[only], handling'[only])
    <3>1. PICK job : /\ job \in Resolving /\ job.at = "count"
                     /\ handling' = [handling EXCEPT ![only] = job]
      BY <2>2, RowDecided DEF Counting
    <3> QED BY <3>1 DEF Carries, Inv
  <2>3. ASSUME NEW settings, NEW file, BeginImport(only, settings, file)
        PROVE  Carries(handling[only], handling'[only])
    BY <2>3 DEF BeginImport, Send, Carries, Inv
  <2>4. ASSUME NEW b, NEW action \in {"merge", "skip"}, NEW i, BeginResolve(only, action, b, i)
        PROVE  Carries(handling[only], handling'[only])
    BY <2>4 DEF BeginResolve, Send, Resolution, Carries, Inv
  <2>5. ASSUME RecordBatch(only) \/ CountRow(only) PROVE Carries(handling[only], handling'[only])
    BY <2>5 DEF RecordBatch, CountRow, Done, Idle, Carries, Inv
  <2>7. \/ \E settings \in Settings, file \in Files : BeginImport(only, settings, file)
        \/ BeginTurf(only) \/ ImportRow(only) \/ FindDuplicate(only) \/ PlaceRow(only)
        \/ EndTurf(only) \/ RecordBatch(only)
        \/ \E b \in {c \in Batches : batches[c] # None}, action \in {"merge", "skip"} :
             \E i \in DOMAIN batches[b].rows : BeginResolve(only, action, b, i)
        \/ MergeAddress(only) \/ ResolveRow(only) \/ CountRow(only)
    BY <1>4 DEF ImportsNext
  <2>8. EndTurf(only) \/ FindDuplicate(only) \/ PlaceRow(only) \/ Carries(handling[only], handling'[only])
    BY <2>1, <2>2, <2>3, <2>4, <2>5, <2>7, ImportRowCarries, BeginTurfCarries
  <2>9. EndTurf(only) \/ FindDuplicate(only) \/ PlaceRow(only) \/ MergeAddress(only) \/ places' = places
    BY <2>7 DEF BeginImport, BeginTurf, ImportRow, RecordBatch, BeginResolve, ResolveRow, CountRow, tables
  <2> QED BY <1>0, <2>1, <2>8, <2>9
<1> QED BY <1>1, <1>2, <1>3, <1>4 DEF Next

LEMMA FoundStep ==
  ASSUME Inv, NEW only, Loaders = {only}, FoundOn, [Next]_vars
  PROVE  FoundOn'
<1> SUFFICES ASSUME handling'[only].at = "place"
             PROVE  Finds(handling[only])'
  BY DEF FoundOn
<1>1. PICK old : old = handling[only]
  OBVIOUS
<1>2. CASE EndTurf(only)
  <2>1. handling'[only] = LeaveTurf(old) /\ old \in Importing
    BY <1>1, <1>2, Job, Labels DEF EndTurf, Continue, Inv
  <2>2. LeaveTurf(old).at \in {"turf", "batch"}
    BY <2>1 DEF LeaveTurf, Importing
  <2> QED BY <2>1, <2>2
<1>3. CASE PlaceRow(only)
  <2>1. PICK j \in Work : handling' = [handling EXCEPT ![only] = j] /\ Follows(old, j)
    BY <1>1, <1>3, Placing DEF Goal
  <2> QED BY <2>1 DEF Follows, Inv, Idle
<1>4. CASE FindDuplicate(only)
  <2>1. PICK j \in Importing : handling' = [handling EXCEPT ![only] = j] /\ Finds(j)
    BY <1>1, <1>4, Finding
  <2>2. handling'[only] = j /\ places' = places
    BY <1>4, <2>1 DEF FindDuplicate, tables, Inv
  <2> QED BY <2>1, <2>2 DEF Finds, LiveOn
<1>5. CASE Standing /\ FieldOnly /\ Carries(old, handling'[only])
  <2>1. handling'[only] = old /\ old.at = "place" /\ Finds(old)
    BY <1>1, <1>5 DEF Carries, FoundOn
  <2>2. ASSUME old.duplicate = None, NEW a \in On(places', old.turf), places'[a].home = old.home
        PROVE  places'[a].field
    BY <1>5, <2>1, <2>2 DEF FieldOnly, Finds, LiveOn, On
  <2>3. ASSUME old.duplicate # None
        PROVE  old.duplicate \in On(places', old.turf) /\ places'[old.duplicate].home = old.home
    BY <1>5, <2>1, <2>3 DEF Standing, Finds, LiveOn, On
  <2> QED BY <2>1, <2>2, <2>3 DEF Finds, LiveOn
<1> QED BY <1>1, <1>2, <1>3, <1>4, <1>5, Moves

LEMMA OnceStep ==
  ASSUME Inv, FoundOn, ImportedOnce, [Next]_vars
  PROVE  ImportedOnce'
<1> SUFFICES ASSUME NEW t \in Turfs, NEW a \in On(places', t), NEW b \in On(places', t), a # b,
                    places'[a].home = places'[b].home
             PROVE  places'[a].field \/ places'[b].field
  BY DEF ImportedOnce, LiveOn, On
<1>1. a \in Places /\ b \in Places /\ places'[a] # None /\ places'[b] # None
  BY DEF On
<1>2. CASE FieldOnly
  BY <1>1, <1>2 DEF FieldOnly, ImportedOnce, LiveOn, On
<1>3. ASSUME NEW s \in Loaders, Creates(s) PROVE places'[a].field \/ places'[b].field
  <2>1. TablesOK
    BY DEF Inv, RowsOK
  <2>2. PICK u \in Turfs, h \in Homes : u = handling[s].turf /\ h = handling[s].home
    BY <1>3 DEF Creates
  <2>3. PICK n \in Vacant, x \in Texts : places' = Placed(n, u, h, x, FALSE)
    BY <1>3, <2>2 DEF Creates, Added
  <2>4. \A d \in LiveOn(u) : places[d].home = h => places[d].field
    BY <1>3, <2>2 DEF Creates, FoundOn, Finds
  <2>5. /\ n \in Places /\ places'[n].turf = u /\ places'[n].home = h
        /\ \A c \in Places : c # n => places'[c] = places[c]
    BY <2>1, <2>3, PlaceAdded
  <2>6. CASE a # n /\ b # n
    BY <1>1, <2>5, <2>6 DEF ImportedOnce, LiveOn, On
  <2>7. CASE a = n \/ b = n
    BY <1>1, <2>4, <2>5, <2>7 DEF LiveOn, On
  <2> QED BY <2>6, <2>7
<1> QED BY <1>2, <1>3, Fieldwork

(* However approvals overlap with an import, and wherever either dies, no  *)
(* import puts a household on a turf that has an imported address of it.   *)
(* (One import at a time: two that look for a household at once both add   *)
(* it.)                                                                    *)
THEOREM ImportsOnce ==
  ASSUME NEW only, Loaders = {only} PROVE Spec => []ImportedOnce
<1>1. Init => ImportedOnce /\ FoundOn
  BY DEF Init, ImportedOnce, LiveOn, On, FoundOn, Idle
<1>2. Inv /\ FoundOn /\ ImportedOnce /\ [Next]_vars => Inv' /\ FoundOn' /\ ImportedOnce'
  BY Invariance, OnceStep, FoundStep
<1> QED BY InitInv, <1>1, <1>2, PTL DEF Spec

LEMMA SeenStep ==
  ASSUME Inv, NEW only, Loaders = {only}, FoundOn, SeenOn, [Next]_vars
  PROVE  SeenOn'
<1> SUFFICES ASSUME handling'[only].at \in {"row", "find", "place"}, NEW h \in handling'[only].seen
             PROVE  HasOn(places', handling'[only].turf, h)
  BY DEF SeenOn
<1>1. PICK old : old = handling[only]
  OBVIOUS
<1>2. CASE EndTurf(only)
  <2>1. handling'[only] = LeaveTurf(old) /\ old \in Importing
    BY <1>1, <1>2, Job, Labels DEF EndTurf, Continue, Inv
  <2>2. LeaveTurf(old).at \in {"turf", "batch"}
    BY <2>1 DEF LeaveTurf, Importing
  <2> QED BY <2>1, <2>2
<1>3. CASE PlaceRow(only)
  <2>1. PICK j \in Work : handling' = [handling EXCEPT ![only] = j] /\ Follows(old, j)
    BY <1>1, <1>3, Placing DEF Goal
  <2>2. handling'[only] = j /\ j # Idle
    BY <2>1 DEF Inv, Idle
  <2>3. j.turf = old.turf /\ j.seen = old.seen \cup {old.home} /\ old.at = "place"
    BY <1>1, <1>3, <2>1, <2>2 DEF Follows, PlaceRow
  <2>4. Standing /\ HasOn(places', old.turf, old.home)
    BY <1>1, <1>3, PlacedStands
  <2>5. h \in old.seen => HasOn(places, old.turf, h)
    BY <1>1, <2>3 DEF SeenOn
  <2> QED BY <2>2, <2>3, <2>4, <2>5, StandingHasOn
<1>4. CASE FindDuplicate(only)
  <2>1. PICK j \in Importing : /\ handling' = [handling EXCEPT ![only] = j]
                               /\ j.turf = old.turf /\ j.seen = old.seen /\ old.at = "find"
    BY <1>1, <1>4, Finding
  <2>2. handling'[only] = j /\ places' = places
    BY <1>4, <2>1 DEF FindDuplicate, tables, Inv
  <2> QED BY <1>1, <2>1, <2>2 DEF SeenOn
<1>5. CASE Standing /\ Carries(old, handling'[only])
  <2>1. /\ old.at \in {"row", "find", "place"} /\ handling'[only].turf = old.turf
        /\ handling'[only].seen = old.seen
    BY <1>5 DEF Carries
  <2>2. HasOn(places, old.turf, h)
    BY <1>1, <2>1 DEF SeenOn
  <2> QED BY <1>5, <2>1, <2>2, StandingHasOn
<1> QED BY <1>1, <1>2, <1>3, <1>4, <1>5, Moves

(* Whatever was approved or died meanwhile, an import that replaces the    *)
(* membership of a turf leaves there the households of its file, no more   *)
(* and no fewer.  (One import at a time: another could remove what this one*)
(* found in place.)                                                        *)
THEOREM ReplacesExactly ==
  ASSUME NEW only, Loaders = {only} PROVE Spec => ReplacementIsAuthoritative
<1> DEFINE Exact(s) == /\ handling[s].at = "row" /\ handling'[s].at \in {"turf", "batch"}
                       /\ handling[s].mode = "replace_turf_membership"
                       /\ handling[s].found /\ handling[s].seen # {}
                       => {places'[a].home : a \in On(places', handling[s].turf)} = handling[s].seen
<1>1. ASSUME Inv, SeenOn, [Next]_vars, NEW s \in Loaders PROVE Exact(s)
  <2> SUFFICES ASSUME handling[s].at = "row", handling'[s].at \in {"turf", "batch"},
                      handling[s].mode = "replace_turf_membership",
                      handling[s].found, handling[s].seen # {}
               PROVE  {places'[a].home : a \in On(places', handling[s].turf)} = handling[s].seen
    OBVIOUS
  <2>1. PICK job : job = handling[s]
    OBVIOUS
  <2>2. EndTurf(s)
    BY <1>1, LeavesTurf
  <2>3. /\ \A a \in On(places', job.turf) : a \in LiveOn(job.turf) /\ places[a].home \in job.seen
        /\ \A a \in Places : places[a] # None /\ places[a].live /\ places[a].home \in job.seen
              => places'[a] = places[a]
    BY <1>1, <2>1, <2>2, Ending
  <2>4. ASSUME NEW a \in On(places', job.turf) PROVE places'[a].home \in job.seen
    BY <2>3 DEF LiveOn, On
  <2>5. ASSUME NEW h \in job.seen PROVE \E a \in On(places', job.turf) : places'[a].home = h
    <3>1. PICK a \in On(places, job.turf) : places[a].home = h
      BY <1>1, <2>1 DEF SeenOn, HasOn
    <3> QED BY <2>3, <3>1 DEF On
  <2> QED BY <2>1, <2>4, <2>5
<1>2. Inv /\ SeenOn /\ [Next]_vars => [\A s \in Loaders : Exact(s)]_vars
  BY <1>1
<1>3. Init => SeenOn /\ FoundOn
  BY DEF Init, SeenOn, FoundOn, Idle
<1>4. Inv /\ FoundOn /\ SeenOn /\ [Next]_vars => Inv' /\ FoundOn' /\ SeenOn'
  BY Invariance, FoundStep, SeenStep
<1> QED BY InitInv, <1>2, <1>3, <1>4, PTL DEF Spec, ReplacementIsAuthoritative

----------------------------------------------------------------------------
(* The counters of a batch.                                                *)

LEMMA Apart ==
  ASSUME NEW S, NEW T, IsFiniteSet(S), IsFiniteSet(T), S \cap T = {}
  PROVE  /\ IsFiniteSet(S \cup T) /\ Cardinality(S \cup T) = Cardinality(S) + Cardinality(T)
         /\ Cardinality(S) \in Nat /\ Cardinality(T) \in Nat
<1>1. Cardinality(S) \in Nat /\ Cardinality(T) \in Nat /\ Cardinality(S \cap T) = 0
  BY FS_CardinalityType, FS_EmptySet
<1>2. IsFiniteSet(S \cup T)
  BY FS_Union
<1>3. Cardinality(S \cup T) = Cardinality(S) + Cardinality(T) - Cardinality(S \cap T)
  BY FS_Union
<1> QED BY <1>1, <1>2, <1>3

LEMMA Indexes ==
  ASSUME NEW results \in Seq(RowResults)
  PROVE  /\ IsFiniteSet(DOMAIN results) /\ Cardinality(DOMAIN results) = Len(results)
         /\ Len(results) \in Nat
<1>1. DOMAIN results = 1 .. Len(results) /\ Len(results) \in Nat
  BY LenProperties
<1>2. Cardinality(1 .. Len(results)) = IF 1 > Len(results) THEN 0 ELSE Len(results) - 1 + 1
  BY <1>1, FS_Interval
<1>3. IsFiniteSet(1 .. Len(results))
  BY <1>1, FS_Interval
<1> QED BY <1>1, <1>2, <1>3

\* The statuses divide the rows of a batch.
LEMMA AddUp ==
  ASSUME NEW results \in Seq(RowResults)
  PROVE  Total([status \in Statuses |-> Count(results, status)]) = Len(results)
<1> DEFINE Of(status) == {i \in DOMAIN results : results[i].status = status}
           A == Of("created") \cup Of("merged")
           B == A \cup Of("skipped_duplicate")
           C == B \cup Of("skipped_invalid")
           D == C \cup Of("pending_review")
<1>1. \A status : IsFiniteSet(Of(status))
  BY Countable
<1>2. IsFiniteSet(A) /\ Cardinality(A) = Cardinality(Of("created")) + Cardinality(Of("merged"))
      /\ Cardinality(Of("created")) \in Nat /\ Cardinality(Of("merged")) \in Nat
  <2>1. Of("created") \cap Of("merged") = {}
    OBVIOUS
  <2> HIDE DEF Of
  <2> QED BY <1>1, <2>1, Apart
<1>3. IsFiniteSet(B) /\ Cardinality(B) = Cardinality(A) + Cardinality(Of("skipped_duplicate"))
      /\ Cardinality(A) \in Nat /\ Cardinality(Of("skipped_duplicate")) \in Nat
  <2>1. A \cap Of("skipped_duplicate") = {}
    OBVIOUS
  <2> HIDE DEF Of, A
  <2> QED BY <1>1, <1>2, <2>1, Apart
<1>4. IsFiniteSet(C) /\ Cardinality(C) = Cardinality(B) + Cardinality(Of("skipped_invalid"))
      /\ Cardinality(B) \in Nat /\ Cardinality(Of("skipped_invalid")) \in Nat
  <2>1. B \cap Of("skipped_invalid") = {}
    OBVIOUS
  <2> HIDE DEF Of, B
  <2> QED BY <1>1, <1>3, <2>1, Apart
<1>5. Cardinality(D) = Cardinality(C) + Cardinality(Of("pending_review"))
      /\ Cardinality(C) \in Nat /\ Cardinality(Of("pending_review")) \in Nat
  <2>1. C \cap Of("pending_review") = {}
    OBVIOUS
  <2> HIDE DEF Of, C
  <2> QED BY <1>1, <1>4, <2>1, Apart
<1>6. D = DOMAIN results
  <2>1. \A i \in DOMAIN results : results[i] \in RowResults
    BY LenProperties, ElementOfSeq
  <2> QED BY <2>1 DEF RowResults, Statuses
<1>7. Cardinality(D) = Len(results)
  BY <1>6, Indexes
<1>8. \A status \in Statuses : Count(results, status) = Cardinality(Of(status))
  BY DEF Count
<1> HIDE DEF Of, A, B, C, D
<1>9. PICK counts : counts = [status \in Statuses |-> Count(results, status)]
  OBVIOUS
<1>10. /\ counts["created"] = Cardinality(Of("created")) /\ counts["merged"] = Cardinality(Of("merged"))
       /\ counts["skipped_duplicate"] = Cardinality(Of("skipped_duplicate"))
       /\ counts["skipped_invalid"] = Cardinality(Of("skipped_invalid"))
       /\ counts["pending_review"] = Cardinality(Of("pending_review"))
  BY <1>8, <1>9 DEF Statuses
<1>11. Total(counts) = Len(results)
  BY <1>2, <1>3, <1>4, <1>5, <1>7, <1>10 DEF Total
<1> QED BY <1>9, <1>11

\* The rows of a batch that lack an address, and those that have one.
Without(results) == {i \in DOMAIN results : results[i].row.text = None}
With(results) == {i \in DOMAIN results : results[i].row.text # None}

LEMMA WithOrWithout ==
  ASSUME NEW results \in Seq(RowResults)
  PROVE  /\ Cardinality(Without(results)) + Cardinality(With(results)) = Len(results)
         /\ Cardinality(Without(results)) \in Nat /\ Cardinality(With(results)) \in Nat
<1>1. IsFiniteSet(DOMAIN results) /\ Cardinality(DOMAIN results) = Len(results)
  BY Indexes
<1>2. IsFiniteSet(Without(results)) /\ IsFiniteSet(With(results))
  BY <1>1, FS_Subset DEF Without, With
<1>3. Without(results) \cap With(results) = {} /\ Without(results) \cup With(results) = DOMAIN results
  BY DEF Without, With
<1> QED BY <1>1, <1>2, <1>3, Apart

LEMMA HeldAreCounted ==
  ASSUME NEW b \in Batches, batches[b] # None, batches[b].rows \in Seq(RowResults)
  PROVE  /\ IsFiniteSet(Held(b)) /\ Cardinality(Held(b)) \in Nat
         /\ Cardinality({r \in ImportReviewQueue : r[1] = b}) = Cardinality(Held(b))
<1>1. IsFiniteSet(Held(b)) /\ Cardinality(Held(b)) \in Nat
  BY Countable, FS_CardinalityType DEF Held
<1>2. {r \in ImportReviewQueue : r[1] = b} = {b} \X Held(b)
  BY DEF ImportReviewQueue
<1>3. IsFiniteSet({b}) /\ Cardinality({b}) = 1
  BY FS_Singleton
<1>4. Cardinality({b} \X Held(b)) = Cardinality({b}) * Cardinality(Held(b))
  BY <1>1, <1>3, FS_Product
<1>5. \A n \in Nat : 1 * n = n
  OBVIOUS
<1>6. Cardinality({b} \X Held(b)) = Cardinality(Held(b))
  BY <1>1, <1>3, <1>4, <1>5
<1> QED BY <1>1, <1>2, <1>6

\* A row that is being decided was held until then, and is counted as held until
\* the counters are written.
Owed(b) == IF \E s \in Loaders : handling[s].at = "count" /\ handling[s].batch = b THEN 1 ELSE 0
CountsOK(b) ==
  LET counts == batches[b].counts
      rows == batches[b].rows
  IN /\ Total(counts) = Len(rows)
     /\ counts["skipped_invalid"] = Cardinality(Without(rows))
     /\ Cardinality(Held(b)) + Owed(b) <= counts["pending_review"]
CountsInv ==
  /\ \A b \in Batches : batches[b] # None => CountsOK(b)
  /\ \A s \in Loaders : handling[s].at \in {"merge", "skip"} => handling[s].row \in Held(handling[s].batch)

LEMMA CountsSuffice == Inv /\ CountsInv => CountsHideNothing
<1> SUFFICES ASSUME Inv, CountsInv, NEW b \in Batches, batches[b] # None
             PROVE  LET counts == batches[b].counts
                        preview == Preview([i \in DOMAIN batches[b].rows |-> Result(<<b, i>>).row])
                    IN /\ Cardinality({r \in ImportReviewQueue : r[1] = b}) <= counts["pending_review"]
                       /\ Total(counts) = Len(batches[b].rows)
                       /\ counts["skipped_invalid"] = preview.rowsMissingRequired
                       /\ Total(counts) - counts["skipped_invalid"] = preview.rowsReady
  BY DEF CountsHideNothing
<1> DEFINE rows == batches[b].rows
           counts == batches[b].counts
           file == [i \in DOMAIN rows |-> Result(<<b, i>>).row]
<1>1. rows \in Seq(RowResults) /\ counts["pending_review"] \in Int
  BY DEF Inv, RowsOK, BatchesOK, OrNone, BatchRows, Statuses
<1>2. /\ Total(counts) = Len(rows) /\ counts["skipped_invalid"] = Cardinality(Without(rows))
      /\ Cardinality(Held(b)) + Owed(b) <= counts["pending_review"]
  BY DEF CountsInv, CountsOK
<1>3. Cardinality({r \in ImportReviewQueue : r[1] = b}) <= counts["pending_review"]
  <2>1. Cardinality({r \in ImportReviewQueue : r[1] = b}) = Cardinality(Held(b)) /\ Cardinality(Held(b)) \in Nat
    BY <1>1, HeldAreCounted
  <2>2. Owed(b) \in {0, 1}
    BY DEF Owed
  <2> QED BY <1>1, <1>2, <2>1, <2>2
<1>4. {i \in DOMAIN file : file[i].text = None} = Without(rows)
      /\ {i \in DOMAIN file : file[i].text # None} = With(rows)
  BY DEF Result, Without, With
<1>5. Preview(file).rowsMissingRequired = Cardinality(Without(rows))
      /\ Preview(file).rowsReady = Cardinality(With(rows))
  BY <1>4 DEF Preview
<1>6. Len(rows) - Cardinality(Without(rows)) = Cardinality(With(rows))
  BY <1>1, WithOrWithout
<1> QED BY <1>2, <1>3, <1>5, <1>6

\* A step of the loader that writes no batch.
Quiet(s) == \/ handling'[s].at \notin {"merge", "skip", "count"}
            \/ handling'[s] = handling[s]
            \/ handling'[s].at # "count" /\ handling'[s].row \in Held(handling'[s].batch)

\* A resolution that is to record a merge has written the address.
Earns(s) == handling'[s].at = "skip" /\ handling'[s].to = "merged" =>
              \/ handling'[s] = handling[s]
              \/ <<handling'[s].batch, handling'[s].row>> \in applied'

LEMMA SameCounts ==
  ASSUME Inv, NEW b \in Batches, batches[b] # None, CountsOK(b), batches'[b] = batches[b],
         Owed(b)' <= Owed(b)
  PROVE  CountsOK(b)'
<1>1. batches[b].rows \in Seq(RowResults) /\ batches[b].counts["pending_review"] \in Int
  BY DEF Inv, RowsOK, BatchesOK, OrNone, BatchRows, Statuses
<1>2. Owed(b) \in {0, 1} /\ Owed(b)' \in {0, 1}
  BY DEF Owed
<1>3. PICK k : k = Cardinality(Held(b))
  OBVIOUS
<1>4. k \in Nat
  BY <1>1, <1>3, HeldAreCounted
<1>5. Held(b)' = Held(b)
  BY DEF Held
<1>6. Cardinality(Held(b))' = k
  BY <1>3, <1>5
<1>7. Cardinality(Held(b)') + Owed(b)' <= batches[b].counts["pending_review"]
  BY <1>1, <1>2, <1>3, <1>4, <1>6 DEF CountsOK
<1> QED BY <1>7 DEF CountsOK

LEMMA QuietCounts ==
  ASSUME Inv, NEW only, Loaders = {only}, CountsInv, UNCHANGED batches, Quiet(only)
  PROVE  CountsInv'
<1>1. ASSUME NEW b \in Batches, batches[b] # None PROVE CountsOK(b)'
  <2>1. Owed(b)' <= Owed(b)
    BY DEF Owed, Quiet
  <2> QED BY <1>1, <2>1, SameCounts DEF CountsInv
<1>2. ASSUME handling'[only].at \in {"merge", "skip"}
      PROVE  handling'[only].row \in Held(handling[only].batch)'
  <2>1. handling'[only].row \in Held(handling'[only].batch)
    BY <1>2 DEF Quiet, CountsInv
  <2> QED BY <2>1 DEF Held
<1> QED BY <1>1, <1>2 DEF CountsInv

LEMMA Quietly ==
  ASSUME Inv, NEW only, Loaders = {only}, CountsInv, [Next]_vars,
         ~RecordBatch(only), ~ResolveRow(only), ~CountRow(only)
  PROVE  UNCHANGED batches /\ Quiet(only) /\ Earns(only)
<1>1. CASE UNCHANGED vars
  BY <1>1 DEF vars, Quiet, Earns
<1>2. ASSUME NEW s \in Slots \cup Loaders, Abandon(s) PROVE UNCHANGED batches /\ Quiet(only) /\ Earns(only)
  BY <1>2 DEF Abandon, Done, Idle, Quiet, Earns, Inv
<1>3. ASSUME RequestsNext PROVE Quiet(only) /\ Earns(only)
  BY <1>3, RequestKeepsPlace DEF Quiet, Earns
<1>4. CASE ImportsNext
  <2>1. ASSUME NEW settings, NEW file, BeginImport(only, settings, file) PROVE UNCHANGED batches /\ Quiet(only) /\ Earns(only)
    BY <2>1 DEF BeginImport, Send, Quiet, Earns, Inv
  <2>2. ASSUME BeginTurf(only) PROVE UNCHANGED batches /\ Quiet(only) /\ Earns(only)
    <3>1. handling[only] \in Importing
      BY <2>2, Job, Labels DEF BeginTurf
    <3>2. PICK t \in Turfs, found \in BOOLEAN :
            handling' = [handling EXCEPT ![only] =
              [handling[only] EXCEPT !.at = "row", !.turf = t, !.found = found, !.seen = {}]]
      BY <2>2 DEF BeginTurf, Continue
    <3>3. [handling[only] EXCEPT !.at = "row", !.turf = t, !.found = found, !.seen = {}].at = "row"
      BY <3>1 DEF Importing
    <3> QED BY <2>2, <3>2, <3>3 DEF BeginTurf, Quiet, Earns, Inv
  <2>3. ASSUME ImportRow(only) PROVE UNCHANGED batches /\ Quiet(only) /\ Earns(only)
    <3>1. handling[only] \in Importing
      BY <2>3, Job, Labels DEF ImportRow
    <3>2. \/ handling' = [handling EXCEPT ![only] = Settle(handling[only], "skipped_invalid", None)]
          \/ \E h \in Homes :
               handling' = [handling EXCEPT ![only] = [handling[only] EXCEPT !.at = "find", !.home = h]]
      BY <2>3 DEF ImportRow, Continue
    <3>3. \A h : [handling[only] EXCEPT !.at = "find", !.home = h].at = "find"
      BY <3>1 DEF Importing
    <3>4. Settle(handling[only], "skipped_invalid", None).at = "row"
      BY <3>1 DEF Settle, Importing
    <3> QED BY <2>3, <3>2, <3>3, <3>4 DEF ImportRow, Quiet, Earns, Inv
  <2>4. ASSUME PlaceRow(only) PROVE UNCHANGED batches /\ Quiet(only) /\ Earns(only)
    <3>1. PICK old : old = handling[only]
      OBVIOUS
    <3>2. PICK j \in Work : handling' = [handling EXCEPT ![only] = j] /\ Follows(old, j)
      BY <2>4, <3>1, Placing DEF Goal
    <3>3. j.at \notin {"merge", "skip", "count"}
      BY <3>2 DEF Follows, Idle
    <3> QED BY <2>4, <3>2, <3>3 DEF PlaceRow, Quiet, Earns, Inv
  <2>8. ASSUME FindDuplicate(only) PROVE UNCHANGED batches /\ Quiet(only) /\ Earns(only)
    <3>1. PICK j \in Importing : handling' = [handling EXCEPT ![only] = j] /\ j.at = "place"
      BY <2>8, Finding
    <3> QED BY <2>8, <3>1 DEF FindDuplicate, Quiet, Earns, Inv
  <2>5. ASSUME EndTurf(only) PROVE UNCHANGED batches /\ Quiet(only) /\ Earns(only)
    <3>1. handling'[only] = LeaveTurf(handling[only]) /\ handling[only] \in Importing
      BY <2>5, Job, Labels DEF EndTurf, Continue, Inv
    <3>2. LeaveTurf(handling[only]).at \in {"turf", "batch"}
      BY <3>1 DEF LeaveTurf, Importing
    <3> QED BY <2>5, <3>1, <3>2 DEF EndTurf, Quiet, Earns
  <2>6. ASSUME NEW b, NEW action \in {"merge", "skip"}, NEW i, BeginResolve(only, action, b, i)
        PROVE  UNCHANGED batches /\ Quiet(only) /\ Earns(only)
    BY <2>6 DEF BeginResolve, Send, Resolution, Quiet, Earns, Inv
  <2>7. ASSUME MergeAddress(only) PROVE UNCHANGED batches /\ Quiet(only) /\ Earns(only)
    <3>1. handling[only] \in Resolving /\ handling[only].at = "merge"
      BY <2>7, Job, Labels DEF MergeAddress
    <3>2. PICK j : j = [handling[only] EXCEPT !.at = "skip"]
      OBVIOUS
    <3>3. j.at = "skip" /\ j.row = handling[only].row /\ j.batch = handling[only].batch
      BY <3>1, <3>2 DEF Resolving
    <3>4. handling'[only] = j
      BY <2>7, <3>2 DEF MergeAddress, Continue, Inv
    <3> QED BY <2>7, <3>1, <3>3, <3>4 DEF MergeAddress, Quiet, Earns, CountsInv
  <2> QED BY <1>4, <2>1, <2>2, <2>3, <2>4, <2>5, <2>6, <2>7, <2>8 DEF ImportsNext
<1> QED BY <1>1, <1>2, <1>3, <1>4 DEF Next

LEMMA RecordCounts ==
  ASSUME Inv, NEW only, Loaders = {only}, CountsInv, RecordBatch(only)
  PROVE  CountsInv'
<1>1. PICK results : results = handling[only].results
  OBVIOUS
<1>2. PICK b, new : Records(b, new, results)
  BY <1>1, BatchRecorded
<1>3. results \in Seq(RowResults) /\ Sensible(results) /\ handling'[only] = Idle
  BY <1>1, BatchRecorded DEF Inv
<1>4. /\ b \in Batches /\ batches[b] = None /\ batches'[b] = new /\ new.rows = results
      /\ new.counts = [status \in Statuses |-> Count(results, status)]
      /\ \A c \in Batches : c # b => batches'[c] = batches[c]
  BY <1>2 DEF Records, Inv, RowsOK, BatchesOK
<1>5. \A c \in Batches : Owed(c)' = 0
  BY <1>3 DEF Owed, Idle
<1>6. ASSUME NEW c \in Batches, c # b, batches'[c] # None PROVE CountsOK(c)'
  <2>1. Owed(c)' <= Owed(c)
    BY <1>5 DEF Owed
  <2> QED BY <1>4, <1>6, <2>1, SameCounts DEF CountsInv
<1>7. CountsOK(b)'
  <2>1. Total(new.counts) = Len(results)
    BY <1>3, <1>4, AddUp
  <2>2. new.counts["skipped_invalid"] = Cardinality(Without(results))
    <3>1. {i \in DOMAIN results : results[i].status = "skipped_invalid"} = Without(results)
      BY <1>3 DEF Sensible, Judged, Without
    <3> QED BY <1>4, <3>1 DEF Count, Statuses
  <2>3. Held(b)' = {i \in DOMAIN results : results[i].status = "pending_review"}
    BY <1>4 DEF Held
  <2>4. new.counts["pending_review"] = Cardinality(Held(b)')
    BY <1>4, <2>3 DEF Count, Statuses
  <2>5. new.counts["pending_review"] \in Nat
    BY <1>3, <1>4, Counted DEF Statuses
  <2>6. Cardinality(Held(b)') + Owed(b)' <= new.counts["pending_review"]
    BY <1>4, <1>5, <2>4, <2>5
  <2>7. Without(batches'[b].rows) = Without(results)
    BY <1>4
  <2> QED BY <1>4, <2>1, <2>2, <2>6 DEF CountsOK, Without
<1>8. handling'[only].at \notin {"merge", "skip"}
  BY <1>3 DEF Idle
<1> QED BY <1>6, <1>7, <1>8 DEF CountsInv

LEMMA ResolveCounts ==
  ASSUME Inv, NEW only, Loaders = {only}, CountsInv, ResolveRow(only)
  PROVE  CountsInv'
<1>1. PICK b, i : b = handling[only].batch /\ i = handling[only].row
  OBVIOUS
<1>2. /\ b \in Batches /\ batches[b] # None /\ batches[b] \in BatchRows /\ batches[b].rows \in Seq(RowResults)
      /\ i \in DOMAIN batches[b].rows /\ handling[only].to \in {"merged", "skipped_duplicate"}
  BY <1>1, Resolved DEF ResolveRow
<1>3. Decides(b, i, handling[only].to) /\ Counting(only, b, i, handling[only].to)
  BY <1>1, RowDecided
<1>4. handling'[only].at = "count" /\ handling'[only].batch = b
  BY <1>3 DEF Counting, Inv
<1>5. ASSUME NEW c \in Batches, c # b, batches'[c] # None PROVE CountsOK(c)'
  <2>1. batches'[c] = batches[c]
    BY <1>3, <1>5 DEF Decides
  <2>2. Owed(c)' <= Owed(c)
    BY <1>4, <1>5 DEF Owed
  <2> QED BY <1>5, <2>1, <2>2, SameCounts DEF CountsInv
<1>6. CountsOK(b)'
  <2>1. /\ batches'[b].counts = batches[b].counts /\ Len(batches'[b].rows) = Len(batches[b].rows)
        /\ DOMAIN batches'[b].rows = DOMAIN batches[b].rows
        /\ \A k \in DOMAIN batches[b].rows : k # i => batches'[b].rows[k] = batches[b].rows[k]
        /\ batches'[b].rows[i].status = handling[only].to
        /\ batches'[b].rows[i].row = batches[b].rows[i].row
    BY <1>3 DEF Decides
  <2>2. Without(batches'[b].rows) = Without(batches[b].rows)
    BY <2>1 DEF Without
  <2>3. i \in Held(b)
    BY <1>1 DEF CountsInv, ResolveRow
  <2>4. Held(b)' = Held(b) \ {i}
    BY <1>2, <2>1 DEF Held
  <2>5. IsFiniteSet(Held(b)) /\ Cardinality(Held(b)) \in Nat
    BY <1>2, HeldAreCounted
  <2>6. Cardinality(Held(b)') = Cardinality(Held(b)) - 1
    BY <2>3, <2>4, <2>5, FS_RemoveElement
  <2>7. Owed(b)' = 1 /\ Owed(b) = 0
    BY <1>4 DEF Owed, ResolveRow
  <2>8. Cardinality(Held(b)) + Owed(b) <= batches[b].counts["pending_review"] /\ CountsOK(b)
    BY <1>2 DEF CountsInv, CountsOK
  <2>9. Cardinality(Held(b)') + Owed(b)' <= batches[b].counts["pending_review"]
    BY <2>5, <2>6, <2>7, <2>8
  <2> QED BY <2>1, <2>2, <2>8, <2>9 DEF CountsOK, Without
<1> QED BY <1>4, <1>5, <1>6 DEF CountsInv

LEMMA CountCounts ==
  ASSUME Inv, NEW only, Loaders = {only}, CountsInv, CountRow(only)
  PROVE  CountsInv'
<1>1. PICK b, to : b = handling[only].batch /\ to = handling[only].to
  OBVIOUS
<1>2. /\ b \in Batches /\ batches[b] # None /\ batches[b] \in BatchRows /\ batches[b].rows \in Seq(RowResults)
      /\ to \in {"merged", "skipped_duplicate"}
  BY <1>1, Resolved DEF CountRow
<1>3. PICK new \in BatchRows :
        /\ batches' = [batches EXCEPT ![b] = new]
        /\ new.rows = batches[b].rows
        /\ \A status \in Statuses :
             new.counts[status] = IF status = "pending_review" THEN batches[b].counts[status] - 1
                                  ELSE IF status = to THEN batches[b].counts[status] + 1
                                  ELSE batches[b].counts[status]
  BY <1>1, Recounted DEF Recounts
<1>4. batches'[b] = new /\ \A c \in Batches : c # b => batches'[c] = batches[c]
  BY <1>2, <1>3 DEF Inv, RowsOK, BatchesOK
<1>5. handling'[only] = Idle
  BY DEF CountRow, Done, Inv
<1>6. ASSUME NEW c \in Batches, c # b, batches'[c] # None PROVE CountsOK(c)'
  <2>1. Owed(c)' <= Owed(c)
    BY <1>5 DEF Owed, Idle
  <2> QED BY <1>4, <1>6, <2>1, SameCounts DEF CountsInv
<1>7. CountsOK(b)'
  <2> DEFINE counts == batches[b].counts
  <2>1. counts \in [Statuses -> Int] /\ CountsOK(b)
    BY <1>2 DEF BatchRows, CountsInv
  <2>2. /\ counts["created"] \in Int /\ counts["merged"] \in Int /\ counts["skipped_duplicate"] \in Int
        /\ counts["skipped_invalid"] \in Int /\ counts["pending_review"] \in Int
    BY <2>1 DEF Statuses
  <2>3. /\ new.counts["created"] = counts["created"]
        /\ new.counts["skipped_invalid"] = counts["skipped_invalid"]
        /\ new.counts["pending_review"] = counts["pending_review"] - 1
    BY <1>2, <1>3 DEF Statuses
  <2>4. \/ /\ new.counts["merged"] = counts["merged"] + 1
           /\ new.counts["skipped_duplicate"] = counts["skipped_duplicate"]
        \/ /\ new.counts["merged"] = counts["merged"]
           /\ new.counts["skipped_duplicate"] = counts["skipped_duplicate"] + 1
    BY <1>2, <1>3 DEF Statuses
  <2> HIDE DEF counts
  <2>5. Total(new.counts) = Total(counts)
    BY <2>2, <2>3, <2>4 DEF Total
  <2>6. Owed(b) = 1 /\ Owed(b)' = 0
    BY <1>1, <1>5 DEF Owed, CountRow, Idle
  <2>7. PICK k : k = Cardinality(Held(b))
    OBVIOUS
  <2>8. k \in Nat
    BY <1>2, <2>7, HeldAreCounted
  <2>9. Held(b)' = Held(b)
    BY <1>3, <1>4 DEF Held
  <2>10. Cardinality(Held(b)') = k
    BY <2>7, <2>9
  <2>11. k + 1 <= counts["pending_review"]
    BY <2>1, <2>6, <2>7 DEF CountsOK, counts
  <2>12. Cardinality(Held(b)') + Owed(b)' <= new.counts["pending_review"]
    BY <2>2, <2>3, <2>6, <2>8, <2>10, <2>11
  <2>13. Total(counts) = Len(new.rows) /\ counts["skipped_invalid"] = Cardinality(Without(new.rows))
    BY <1>3, <2>1 DEF CountsOK, counts
  <2> QED BY <1>4, <2>3, <2>5, <2>12, <2>13 DEF CountsOK, Without
<1> QED BY <1>5, <1>6, <1>7 DEF CountsInv, Idle

(* One import or resolution at a time, dying wherever it may: the counters *)
(* of a batch add up to its rows, agree with what the preview of the file  *)
(* promised, and never count fewer rows as held than the queue shows.      *)
(* (Two resolutions of one row would count it as decided twice.)           *)
THEOREM CountersHold ==
  ASSUME NEW only, Loaders = {only} PROVE Spec => []CountsHideNothing
<1>1. Init => CountsInv
  BY DEF Init, CountsInv, Idle
<1>2. Inv /\ CountsInv /\ [Next]_vars => Inv' /\ CountsInv'
  BY Invariance, Quietly, QuietCounts, RecordCounts, ResolveCounts, CountCounts
<1> QED BY InitInv, CountsSuffice, <1>1, <1>2, PTL DEF Spec

----------------------------------------------------------------------------
(* Requests and held rows are decisions.                                   *)

LEMMA ReviewInit == Init => Review!Init
BY DEF Init, Review!Init, Verdict, Effects, Recorded, WasHeld, Reviewed, HeldRows

\* The steps of Decisions, in terms of the items.
Same(i) == Verdict(i)' = Verdict(i) /\ Effects(i)' = Effects(i)

LEMMA Stutters ==
  ASSUME \A i \in Reviewed : Same(i)
  PROVE  UNCHANGED Review!vars
BY DEF Review!vars, Same

LEMMA Submits ==
  ASSUME NEW new \in SUBSET Reviewed,
         \A i \in new : Verdict(i) = "absent" /\ Verdict(i)' = "open" /\ Effects(i)' = Effects(i),
         \A i \in Reviewed \ new : Same(i)
  PROVE  Review!Next
<1>1. Review!Submit(new)
  BY DEF Review!Submit, Same
<1> QED BY <1>1 DEF Review!Next

LEMMA Accepts ==
  ASSUME NEW i \in Reviewed, Verdict(i) = "open", Verdict(i)' = "accepted",
         IF i \in Asks THEN Effects(i)' = 1 ELSE Effects(i) > 0 /\ Effects(i)' = Effects(i),
         \A j \in Reviewed \ {i} : Same(j)
  PROVE  Review!Next
<1>1. Review!Accept(i)
  BY DEF Review!Accept, Same
<1> QED BY <1>1 DEF Review!Next

LEMMA Applies ==
  ASSUME NEW i \in Reviewed \ Asks, Verdict(i) = "open", Verdict(i)' = "open", Effects(i)' = 1,
         \A j \in Reviewed \ {i} : Same(j)
  PROVE  Review!Next
<1>1. Review!Apply(i)
  BY DEF Review!Apply, Same
<1> QED BY <1>1 DEF Review!Next

LEMMA Refuses ==
  ASSUME NEW i \in Reviewed, Verdict(i) = "open", Verdict(i)' = "refused", Effects(i)' = Effects(i),
         \A j \in Reviewed \ {i} : Same(j)
  PROVE  Review!Next
<1>1. Review!Refuse(i)
  BY DEF Review!Refuse, Same
<1> QED BY <1>1 DEF Review!Next

LEMMA AskSame ==
  ASSUME NEW q \in Asks, asked'[q] = asked[q]
  PROVE  Same(q)
BY DEF Same, Verdict, Effects

LEMMA RowSame ==
  ASSUME NEW i, i \notin Asks, i \in applied' <=> i \in applied,
         batches'[i[1]] = batches[i[1]]
           \/ /\ batches[i[1]] # None /\ batches'[i[1]] # None
              /\ DOMAIN batches'[i[1]].rows = DOMAIN batches[i[1]].rows
              /\ i[2] \in DOMAIN batches[i[1]].rows => batches'[i[1]].rows[i[2]] = batches[i[1]].rows[i[2]]
  PROVE  Same(i)
BY DEF Same, Verdict, Effects, Recorded, WasHeld, Result

\* Only held rows are written to their addresses, and a row recorded as merged was.
AppliedInv ==
  /\ \A i \in applied : i \in HeldRows /\ WasHeld(i)
  /\ \A i \in HeldRows : Recorded(i) /\ Result(i).decided > 0 /\ Result(i).status = "merged" => i \in applied
  /\ \A s \in Loaders : handling[s].at = "skip" /\ handling[s].to = "merged" =>
       <<handling[s].batch, handling[s].row>> \in applied

\* One field request at a time: what it decides still waits.
AsksInv ==
  /\ \A q \in Pending : asked[q].made = 0
  /\ \A s \in Slots : handling[s].at \in {"approve", "reject"} => handling[s].ask \in Pending

\* What an approval writes.
Approved(q, row) ==
  /\ q \in Asks /\ row # None /\ asked'[q] = row
  /\ \A p \in Asks \ {q} : asked'[p] = asked[p]
  /\ row.status = "approved"
  /\ row.made = IF asked[q].made = 2 THEN 2 ELSE asked[q].made + 1

LEMMA ApprovedRow ==
  ASSUME Inv, NEW s \in Slots, ApproveRequest(s)
  PROVE  \E q, row : q = handling[s].ask /\ Approved(q, row)
<1> DEFINE q == handling[s].ask
           new == [asked[q] EXCEPT !.status = "approved", !.made = IF @ = 2 THEN 2 ELSE @ + 1]
<1>1. q \in Asks /\ asked[q] \in AskRows
  BY Approving
<1>2. new.status = "approved" /\ new.made = IF asked[q].made = 2 THEN 2 ELSE asked[q].made + 1
  BY <1>1 DEF AskRows
<1>3. new \in AskRows
  <2>1. new.made \in 0 .. 2 /\ new.turf = asked[q].turf /\ new.text = asked[q].text
    BY <1>1, <1>2 DEF AskRows
  <2> QED BY <1>1, <1>2, <2>1 DEF AskRows
<1>4. asked' = [asked EXCEPT ![q] = new]
  BY Approving
<1>5. new # None
  BY <1>3, NoAskAssumption
<1> HIDE DEF new
<1>6. Approved(q, new)
  BY <1>1, <1>2, <1>4, <1>5 DEF Approved, Inv, RowsOK, AskedOK
<1> QED BY <1>6

LEMMA RequestReviews ==
  ASSUME Inv, AsksInv, RequestsNext, UNCHANGED <<batches, applied>>
  PROVE  Review!Next \/ UNCHANGED Review!vars
<1>1. \A i \in HeldRows \ Asks : Same(i)
  BY RowSame
<1>2. ASSUME UNCHANGED asked PROVE UNCHANGED Review!vars
  BY <1>1, <1>2, AskSame, Stutters DEF Reviewed
<1>3. ASSUME NEW s \in Slots, SubmitRequest(s) PROVE Review!Next
  <2>1. PICK q \in Asks :
          /\ asked[q] = None
          /\ asked' = [asked EXCEPT ![q] = [turf |-> handling[s].turf, text |-> handling[s].text,
                                            status |-> "pending", made |-> 0]]
    BY <1>3 DEF SubmitRequest
  <2>2. PICK row : row = [turf |-> handling[s].turf, text |-> handling[s].text, status |-> "pending", made |-> 0]
    OBVIOUS
  <2>3. handling[s] \in Submitting
    BY <1>3, Labels DEF Inv, SubmitRequest
  <2>4. row \in AskRows /\ row.status = "pending" /\ row.made = 0
    BY <2>2, <2>3 DEF Submitting, AskRows
  <2>5. row # None /\ asked'[q] = row /\ \A p \in Asks \ {q} : asked'[p] = asked[p]
    BY <2>1, <2>2, <2>4, NoAskAssumption DEF Inv, RowsOK, AskedOK
  <2>6. Verdict(q) = "absent" /\ Effects(q) = 0
    BY <2>1 DEF Verdict, Effects
  <2>7. Verdict(q)' = "open" /\ Effects(q)' = 0
    BY <2>4, <2>5 DEF Verdict, Effects
  <2>8. \A i \in Reviewed \ {q} : Same(i)
    BY <1>1, <2>5, AskSame DEF Reviewed
  <2>9. PICK new : new = {q}
    OBVIOUS
  <2>10. new \in SUBSET Reviewed
    BY <2>9 DEF Reviewed
  <2> QED BY <2>6, <2>7, <2>8, <2>9, <2>10, Submits
<1>4. ASSUME NEW s \in Slots, ApproveRequest(s) PROVE Review!Next
  <2>1. PICK q, row : q = handling[s].ask /\ Approved(q, row)
    BY <1>4, ApprovedRow
  <2>2. q \in Pending /\ asked[q].made = 0
    BY <1>4, <2>1 DEF AsksInv, ApproveRequest
  <2>3. q \in Asks /\ row.status = "approved" /\ row.made = 1
    BY <2>1, <2>2 DEF Approved, Pending
  <2>4. row # None /\ asked'[q] = row /\ \A p \in Asks \ {q} : asked'[p] = asked[p]
    BY <2>1 DEF Approved
  <2>5. Verdict(q) = "open"
    BY <2>2, <2>3 DEF Verdict, Pending
  <2>6. Verdict(q)' = "accepted" /\ Effects(q)' = 1
    BY <2>3, <2>4 DEF Verdict, Effects
  <2>7. \A i \in Reviewed \ {q} : Same(i)
    BY <1>1, <2>4, AskSame DEF Reviewed
  <2>8. q \in Reviewed
    BY <2>3 DEF Reviewed
  <2> QED BY <2>3, <2>5, <2>6, <2>7, <2>8, Accepts
<1>5. ASSUME NEW s \in Slots, RejectRequest(s) PROVE Review!Next
  <2>1. PICK q : q = handling[s].ask
    OBVIOUS
  <2>2. /\ q \in Asks /\ asked[q] \in AskRows /\ asked' = [asked EXCEPT ![q].status = "rejected"]
    BY <1>5, <2>1, Asked DEF RejectRequest
  <2>3. q \in Pending
    BY <1>5, <2>1 DEF AsksInv, RejectRequest
  <2>4. PICK row : row = [asked[q] EXCEPT !.status = "rejected"]
    OBVIOUS
  <2>5. row \in AskRows /\ row.status = "rejected" /\ row.made = asked[q].made
    BY <2>2, <2>4 DEF AskRows
  <2>6. row # None /\ asked'[q] = row /\ \A p \in Asks \ {q} : asked'[p] = asked[p]
    BY <2>2, <2>4, <2>5, NoAskAssumption DEF Inv, RowsOK, AskedOK
  <2>7. Verdict(q) = "open"
    BY <2>2, <2>3 DEF Verdict, Pending
  <2>8. Verdict(q)' = "refused" /\ Effects(q)' = Effects(q)
    BY <2>2, <2>3, <2>5, <2>6 DEF Verdict, Effects, Pending
  <2>9. \A i \in Reviewed \ {q} : Same(i)
    BY <1>1, <2>6, AskSame DEF Reviewed
  <2>10. q \in Reviewed
    BY <2>2 DEF Reviewed
  <2> QED BY <2>7, <2>8, <2>9, <2>10, Refuses
<1>6. UNCHANGED asked \/ \E s \in Slots : SubmitRequest(s) \/ ApproveRequest(s) \/ RejectRequest(s)
  BY DEF RequestsNext, BeginSubmit, BeginReview, ApprovalFails
<1> QED BY <1>2, <1>3, <1>4, <1>5, <1>6

LEMMA RecordReviews ==
  ASSUME Inv, AppliedInv, NEW s \in Loaders, RecordBatch(s), \A q \in Asks : Same(q)
  PROVE  Review!Next
<1>0. UNCHANGED applied
  BY DEF RecordBatch
<1>1. PICK results : results = handling[s].results
  OBVIOUS
<1>2. PICK b, record : Records(b, record, results)
  BY <1>1, BatchRecorded
<1>3. \A k \in DOMAIN results : results[k].decided = 0
  BY <1>1, BatchRecorded
<1>4. /\ b \in Batches /\ batches[b] = None /\ batches'[b] # None /\ batches'[b].rows = results
      /\ \A c \in Batches : c # b => batches'[c] = batches[c]
  BY <1>2 DEF Records, Inv, RowsOK, BatchesOK
<1> DEFINE new == {i \in HeldRows \ Asks : /\ i[1] = b /\ i[2] \in DOMAIN results
                                          /\ results[i[2]].status = "pending_review"}
<1>5. ASSUME NEW i \in HeldRows \ Asks, i[1] = b
      PROVE  /\ Verdict(i) = "absent" /\ Effects(i) = 0 /\ Effects(i)' = 0
             /\ Verdict(i)' = IF i \in new THEN "open" ELSE "absent"
  <2>1. Verdict(i) = "absent" /\ Effects(i) = 0
    BY <1>0, <1>4, <1>5 DEF Verdict, Effects, WasHeld, Recorded, AppliedInv
  <2>2. CASE i[2] \in DOMAIN results
    <3>1. results[i[2]].decided = 0
      BY <1>3, <2>2
    <3>2. Recorded(i)' /\ Result(i)' = results[i[2]]
      BY <1>4, <1>5, <2>2 DEF Recorded, Result
    <3>3. WasHeld(i)' <=> results[i[2]].status = "pending_review"
      BY <3>1, <3>2 DEF WasHeld
    <3> QED BY <1>0, <1>5, <2>1, <2>2, <3>1, <3>2, <3>3 DEF Verdict, Effects
  <2>3. CASE i[2] \notin DOMAIN results
    BY <1>0, <1>4, <1>5, <2>1, <2>3 DEF Verdict, Effects, WasHeld, Recorded
  <2> QED BY <2>1, <2>2, <2>3
<1>6. ASSUME NEW i \in HeldRows \ Asks, i[1] # b PROVE Same(i)
  <2>1. i[1] \in Batches
    BY DEF HeldRows
  <2> QED BY <1>0, <1>4, <1>6, <2>1, RowSame
<1>7. new \in SUBSET Reviewed
  BY DEF Reviewed
<1>8. \A i \in new : i \in HeldRows \ Asks /\ i[1] = b
  OBVIOUS
<1> HIDE DEF new
<1>9. \A i \in new : Verdict(i) = "absent" /\ Verdict(i)' = "open" /\ Effects(i)' = Effects(i)
  BY <1>5, <1>8
<1>10. \A i \in Reviewed \ new : Same(i)
  BY <1>5, <1>6 DEF Reviewed, Same
<1> QED BY <1>7, <1>9, <1>10, Submits

LEMMA ResolveReviews ==
  ASSUME Inv, CountsInv, AppliedInv, NEW s \in Loaders, ResolveRow(s), \A q \in Asks : Same(q)
  PROVE  Review!Next \/ UNCHANGED Review!vars
<1>0. UNCHANGED applied
  BY DEF ResolveRow
<1>1. PICK b, k, to : b = handling[s].batch /\ k = handling[s].row /\ to = handling[s].to
  OBVIOUS
<1>2. /\ b \in Batches /\ batches[b] # None /\ k \in DOMAIN batches[b].rows
      /\ DOMAIN batches[b].rows = 1 .. Len(batches[b].rows) /\ Len(batches[b].rows) \in Lines
      /\ to \in {"merged", "skipped_duplicate"}
  BY <1>1, Resolved DEF ResolveRow
<1>3. Decides(b, k, to)
  BY <1>1, RowDecided
<1>4. batches[b].rows[k].status = "pending_review" /\ batches[b].rows[k].decided = 0
  <2>1. k \in Held(b)
    BY <1>1 DEF CountsInv, ResolveRow
  <2>2. Sensible(batches[b].rows)
    BY <1>2 DEF Inv
  <2> QED BY <2>1, <2>2 DEF Held, Sensible, Waits
<1>5. /\ batches'[b] # None /\ DOMAIN batches'[b].rows = DOMAIN batches[b].rows
      /\ \A l \in DOMAIN batches[b].rows : l # k => batches'[b].rows[l] = batches[b].rows[l]
      /\ batches'[b].rows[k].status = to /\ batches'[b].rows[k].decided = 1
      /\ \A c \in Batches : c # b => batches'[c] = batches[c]
  BY <1>3, <1>4 DEF Decides
<1>6. PICK item : item = <<b, k>>
  OBVIOUS
<1>7. item \in HeldRows /\ item[1] = b /\ item[2] = k
  BY <1>2, <1>6, LinesAssumption DEF HeldRows
<1>8. ASSUME NEW i \in HeldRows \ Asks, i # item PROVE Same(i)
  <2>1. i[1] \in Batches /\ (i[1] = b => i[2] # k)
    BY <1>6, <1>8 DEF HeldRows
  <2> QED BY <1>0, <1>2, <1>5, <1>8, <2>1, RowSame
<1>9. \A i \in Reviewed \ {item} : Same(i)
  BY <1>8 DEF Reviewed
<1>10. CASE item \in Asks
  BY <1>9, <1>10, Stutters
<1>11. CASE item \notin Asks
  <2>1. Recorded(item) /\ Result(item).status = "pending_review" /\ WasHeld(item)
    BY <1>2, <1>4, <1>7 DEF Recorded, Result, WasHeld
  <2>2. Verdict(item) = "open"
    BY <1>11, <2>1 DEF Verdict
  <2>3. Recorded(item)' /\ Result(item)'.status = to /\ Result(item)'.decided = 1
    BY <1>2, <1>5, <1>7 DEF Recorded, Result
  <2>4. WasHeld(item)'
    BY <2>3 DEF WasHeld
  <2>5. item \in Reviewed /\ Effects(item)' = Effects(item)
    BY <1>0, <1>7, <1>11 DEF Reviewed, Effects
  <2>6. CASE to = "merged"
    <3>1. Verdict(item)' = "accepted"
      BY <1>11, <2>3, <2>4, <2>6 DEF Verdict
    <3>2. item \in applied
      <4>1. handling[s].at = "skip" /\ handling[s].to = "merged"
        BY <1>1, <2>6 DEF ResolveRow
      <4>2. <<handling[s].batch, handling[s].row>> \in applied
        BY <4>1 DEF AppliedInv
      <4> QED BY <1>1, <1>6, <4>2
    <3>3. Effects(item) > 0
      BY <1>11, <3>2 DEF Effects
    <3> QED BY <1>9, <1>11, <2>2, <2>5, <3>1, <3>3, Accepts
  <2>7. CASE to = "skipped_duplicate"
    <3>1. Verdict(item)' = "refused"
      BY <1>11, <2>3, <2>4, <2>7 DEF Verdict
    <3> QED BY <1>9, <2>2, <2>5, <3>1, Refuses
  <2> QED BY <1>2, <2>6, <2>7
<1> QED BY <1>10, <1>11

LEMMA CountReviews ==
  ASSUME Inv, NEW s \in Loaders, CountRow(s), \A q \in Asks : Same(q)
  PROVE  UNCHANGED Review!vars
<1>0. UNCHANGED applied
  BY DEF CountRow
<1>1. PICK b, to : b = handling[s].batch /\ to = handling[s].to
  OBVIOUS
<1>2. b \in Batches /\ batches[b] # None
  BY <1>1, Resolved DEF CountRow
<1>3. PICK new : batches' = [batches EXCEPT ![b] = new] /\ new # None /\ new.rows = batches[b].rows
  BY <1>1, Recounted DEF Recounts
<1>4. \A c \in Batches : batches'[c] = IF c = b THEN new ELSE batches[c]
  BY <1>3 DEF Inv, RowsOK, BatchesOK
<1>5. ASSUME NEW i \in HeldRows \ Asks PROVE Same(i)
  <2>1. i[1] \in Batches
    BY DEF HeldRows
  <2> QED BY <1>0, <1>2, <1>3, <1>4, <2>1, RowSame
<1> QED BY <1>5, Stutters DEF Reviewed

LEMMA MergeReviews ==
  ASSUME Inv, CountsInv, NEW s \in Loaders, MergeAddress(s), \A q \in Asks : Same(q)
  PROVE  Review!Next \/ UNCHANGED Review!vars
<1>1. PICK b, k : b = handling[s].batch /\ k = handling[s].row
  OBVIOUS
<1>2. /\ b \in Batches /\ batches[b] # None /\ k \in DOMAIN batches[b].rows
      /\ k \in 1 .. Len(batches[b].rows) /\ Len(batches[b].rows) \in Lines
  BY <1>1, Resolved DEF MergeAddress
<1>3. PICK item : item = <<b, k>>
  OBVIOUS
<1>4. item \in HeldRows /\ item[1] = b /\ item[2] = k
  BY <1>2, <1>3, LinesAssumption DEF HeldRows
<1>5. applied' = applied \cup {item} /\ UNCHANGED batches
  BY <1>1, <1>3 DEF MergeAddress
<1>6. \A i \in Reviewed \ {item} : Same(i)
  BY <1>5, RowSame DEF Reviewed
<1>7. CASE item \in Asks
  BY <1>6, <1>7, Stutters
<1>8. CASE item \notin Asks
  <2>1. k \in Held(b)
    BY <1>1 DEF CountsInv, MergeAddress
  <2>2. Verdict(item) = "open" /\ Verdict(item)' = "open"
    BY <1>2, <1>4, <1>5, <1>8, <2>1 DEF Verdict, WasHeld, Recorded, Result, Held
  <2>3. Effects(item)' = 1
    BY <1>5, <1>8 DEF Effects
  <2> QED BY <1>4, <1>6, <1>8, <2>2, <2>3, Applies DEF Reviewed
<1> QED BY <1>7, <1>8

LEMMA ImportReviews ==
  ASSUME Inv, CountsInv, AppliedInv, ImportsNext, UNCHANGED asked
  PROVE  Review!Next \/ UNCHANGED Review!vars
<1>1. \A q \in Asks : Same(q)
  BY AskSame
<1>2. ASSUME UNCHANGED <<batches, applied>> PROVE UNCHANGED Review!vars
  <2>1. \A i \in HeldRows \ Asks : Same(i)
    BY <1>2, RowSame
  <2> QED BY <1>1, <2>1, Stutters DEF Reviewed
<1>3. UNCHANGED <<batches, applied>>
        \/ \E s \in Loaders : RecordBatch(s) \/ MergeAddress(s) \/ ResolveRow(s) \/ CountRow(s)
  BY DEF ImportsNext, BeginImport, BeginTurf, ImportRow, FindDuplicate, PlaceRow, EndTurf, BeginResolve
<1> QED BY <1>1, <1>2, <1>3, RecordReviews, MergeReviews, ResolveReviews, CountReviews

LEMMA AppliedStep ==
  ASSUME Inv, NEW only, Loaders = {only}, CountsInv, AppliedInv, [Next]_vars
  PROVE  AppliedInv'
<1>1. ASSUME UNCHANGED <<batches, applied>>, Earns(only) PROVE AppliedInv'
  BY <1>1 DEF AppliedInv, Earns, WasHeld, Recorded, Result
<1>2. CASE RecordBatch(only)
  <2>1. PICK results : results = handling[only].results
    OBVIOUS
  <2>2. PICK b, record : Records(b, record, results)
    BY <1>2, <2>1, BatchRecorded
  <2>3. (\A k \in DOMAIN results : results[k].decided = 0) /\ handling'[only] = Idle
    BY <1>2, <2>1, BatchRecorded DEF Inv
  <2>4. /\ batches[b] = None /\ batches'[b].rows = results
        /\ \A c \in Batches : c # b => batches'[c] = batches[c]
    BY <2>2 DEF Records, Inv, RowsOK, BatchesOK
  <2>5. UNCHANGED applied
    BY <1>2 DEF RecordBatch
  <2>6. \A i \in applied : i \in HeldRows /\ i[1] # b /\ WasHeld(i)'
    BY <2>4 DEF AppliedInv, WasHeld, Recorded, Result, HeldRows
  <2>7. ASSUME NEW i \in HeldRows, Recorded(i)', Result(i)'.decided > 0, Result(i)'.status = "merged"
        PROVE  i \in applied
    <3>1. i[1] \in Batches /\ i[1] # b
      BY <2>3, <2>4, <2>7 DEF HeldRows, Recorded, Result
    <3> QED BY <2>4, <2>7, <3>1 DEF AppliedInv, Recorded, Result
  <2> QED BY <2>3, <2>5, <2>6, <2>7 DEF AppliedInv, Idle
<1>3. CASE MergeAddress(only)
  <2>1. PICK b, k : b = handling[only].batch /\ k = handling[only].row
    OBVIOUS
  <2>2. /\ b \in Batches /\ batches[b] # None /\ k \in DOMAIN batches[b].rows
        /\ k \in 1 .. Len(batches[b].rows) /\ Len(batches[b].rows) \in Lines
    BY <1>3, <2>1, Resolved DEF MergeAddress
  <2>3. <<b, k>> \in HeldRows /\ k \in Held(b)
    BY <1>3, <2>1, <2>2, LinesAssumption DEF HeldRows, CountsInv, MergeAddress
  <2>4. WasHeld(<<b, k>>)
    BY <2>2, <2>3 DEF WasHeld, Recorded, Result, Held
  <2>5. applied' = applied \cup {<<b, k>>} /\ UNCHANGED batches
    BY <1>3, <2>1 DEF MergeAddress
  <2>6. Earns(only)
    BY <1>3, Quietly DEF MergeAddress, RecordBatch, ResolveRow, CountRow
  <2> QED BY <2>3, <2>4, <2>5, <2>6 DEF AppliedInv, Earns, WasHeld, Recorded, Result
<1>4. CASE ResolveRow(only)
  <2>1. PICK b, k, to : b = handling[only].batch /\ k = handling[only].row /\ to = handling[only].to
    OBVIOUS
  <2>2. /\ b \in Batches /\ batches[b] # None /\ k \in DOMAIN batches[b].rows
        /\ batches[b].rows[k] \in RowResults
    BY <1>4, <2>1, Resolved DEF ResolveRow
  <2>3. Decides(b, k, to) /\ Counting(only, b, k, to)
    BY <1>4, <2>1, RowDecided
  <2>4. /\ batches'[b] # None /\ DOMAIN batches'[b].rows = DOMAIN batches[b].rows
        /\ \A l \in DOMAIN batches[b].rows : l # k => batches'[b].rows[l] = batches[b].rows[l]
        /\ batches'[b].rows[k].status = to /\ batches'[b].rows[k].decided > 0
        /\ \A c \in Batches : c # b => batches'[c] = batches[c]
    BY <2>2, <2>3 DEF Decides, RowResults
  <2>5. UNCHANGED applied /\ handling'[only].at = "count"
    BY <1>4, <2>3 DEF ResolveRow, Counting, Inv
  <2>6. \A i \in HeldRows : WasHeld(i) => WasHeld(i)'
    BY <2>2, <2>4 DEF WasHeld, Recorded, Result, HeldRows
  <2>7. to = "merged" => <<b, k>> \in applied
    BY <1>4, <2>1 DEF AppliedInv, ResolveRow
  <2>8. ASSUME NEW i \in HeldRows, Recorded(i)', Result(i)'.decided > 0, Result(i)'.status = "merged"
        PROVE  i \in applied
    <3>1. i[1] \in Batches /\ i = <<i[1], i[2]>>
      BY DEF HeldRows
    <3>2. CASE i[1] = b /\ i[2] = k
      BY <2>4, <2>7, <2>8, <3>1, <3>2 DEF Result
    <3>3. CASE i[1] # b \/ i[2] # k
      BY <2>2, <2>4, <2>8, <3>1, <3>3 DEF AppliedInv, Recorded, Result
    <3> QED BY <3>2, <3>3
  <2> QED BY <2>5, <2>6, <2>8 DEF AppliedInv
<1>5. CASE CountRow(only)
  <2>1. PICK b, to : b = handling[only].batch /\ to = handling[only].to
    OBVIOUS
  <2>2. b \in Batches /\ batches[b] # None
    BY <1>5, <2>1, Resolved DEF CountRow
  <2>3. PICK new : batches' = [batches EXCEPT ![b] = new] /\ new # None /\ new.rows = batches[b].rows
    BY <1>5, <2>1, Recounted DEF Recounts
  <2>4. \A c \in Batches : batches'[c] = IF c = b THEN new ELSE batches[c]
    BY <2>3 DEF Inv, RowsOK, BatchesOK
  <2>5. UNCHANGED applied /\ handling'[only] = Idle
    BY <1>5 DEF CountRow, Done, Inv
  <2>6. \A i \in HeldRows : (Recorded(i)' <=> Recorded(i)) /\ (Recorded(i) => Result(i)' = Result(i))
    BY <2>2, <2>3, <2>4 DEF Recorded, Result, HeldRows
  <2> QED BY <2>5, <2>6 DEF AppliedInv, WasHeld, Idle
<1>6. CASE ~RecordBatch(only) /\ ~MergeAddress(only) /\ ~ResolveRow(only) /\ ~CountRow(only)
  <2>1. UNCHANGED applied
    BY <1>6, Applying
  <2> QED BY <1>1, <1>6, <2>1, Quietly
<1> QED BY <1>2, <1>3, <1>4, <1>5, <1>6

LEMMA ImportKeepsAsk ==
  ASSUME Inv, ImportsNext, NEW r \in Slots, handling'[r].at \in {"approve", "reject"}
  PROVE  handling'[r] = handling[r]
<1>1. ASSUME NEW s \in Loaders, NEW j, handling' = [handling EXCEPT ![s] = j], j.at \notin {"approve", "reject"}
      PROVE  handling'[r] = handling[r]
  BY <1>1 DEF Inv
<1>2. ASSUME NEW s \in Loaders, NEW settings, NEW file, BeginImport(s, settings, file)
      PROVE  handling'[r] = handling[r]
  BY <1>1, <1>2 DEF BeginImport, Send
<1>3. ASSUME NEW s \in Loaders, BeginTurf(s) PROVE handling'[r] = handling[r]
  <2>1. handling[s] \in Importing
    BY <1>3, Job, Labels DEF BeginTurf
  <2>2. PICK t \in Turfs, found \in BOOLEAN :
          handling' = [handling EXCEPT ![s] =
            [handling[s] EXCEPT !.at = "row", !.turf = t, !.found = found, !.seen = {}]]
    BY <1>3 DEF BeginTurf, Continue
  <2>3. [handling[s] EXCEPT !.at = "row", !.turf = t, !.found = found, !.seen = {}].at = "row"
    BY <2>1 DEF Importing
  <2> QED BY <1>1, <2>2, <2>3
<1>4. ASSUME NEW s \in Loaders, ImportRow(s) PROVE handling'[r] = handling[r]
  <2>1. handling[s] \in Importing
    BY <1>4, Job, Labels DEF ImportRow
  <2>2. \/ handling' = [handling EXCEPT ![s] = Settle(handling[s], "skipped_invalid", None)]
        \/ \E h \in Homes : handling' = [handling EXCEPT ![s] = [handling[s] EXCEPT !.at = "find", !.home = h]]
    BY <1>4 DEF ImportRow, Continue
  <2>3. \A h : [handling[s] EXCEPT !.at = "find", !.home = h].at = "find"
    BY <2>1 DEF Importing
  <2>4. Settle(handling[s], "skipped_invalid", None).at = "row"
    BY <2>1 DEF Settle, Importing
  <2> QED BY <1>1, <2>2, <2>3, <2>4
<1>5. ASSUME NEW s \in Loaders, PlaceRow(s) PROVE handling'[r] = handling[r]
  <2>1. PICK old : old = handling[s]
    OBVIOUS
  <2>2. PICK j \in Work : handling' = [handling EXCEPT ![s] = j] /\ Follows(old, j)
    BY <1>5, <2>1, Placing DEF Goal
  <2>3. j.at \notin {"approve", "reject"}
    BY <2>2 DEF Follows, Idle
  <2> QED BY <1>1, <2>2, <2>3
<1>6. ASSUME NEW s \in Loaders, EndTurf(s) PROVE handling'[r] = handling[r]
  <2>1. handling' = [handling EXCEPT ![s] = LeaveTurf(handling[s])] /\ handling[s] \in Importing
    BY <1>6, Job, Labels DEF EndTurf, Continue
  <2>2. LeaveTurf(handling[s]).at \in {"turf", "batch"}
    BY <2>1 DEF LeaveTurf, Importing
  <2> QED BY <1>1, <2>1, <2>2
<1>7. ASSUME NEW s \in Loaders, RecordBatch(s) \/ CountRow(s) PROVE handling'[r] = handling[r]
  BY <1>1, <1>7 DEF RecordBatch, CountRow, Done, Idle
<1>8. ASSUME NEW s \in Loaders, NEW b, NEW action \in {"merge", "skip"}, NEW i, BeginResolve(s, action, b, i)
      PROVE  handling'[r] = handling[r]
  BY <1>1, <1>8 DEF BeginResolve, Send, Resolution
<1>9. ASSUME NEW s \in Loaders, MergeAddress(s) PROVE handling'[r] = handling[r]
  <2>1. handling[s] \in Resolving
    BY <1>9, Job, Labels DEF MergeAddress
  <2>2. [handling[s] EXCEPT !.at = "skip"].at = "skip"
    BY <2>1 DEF Resolving
  <2>3. handling' = [handling EXCEPT ![s] = [handling[s] EXCEPT !.at = "skip"]]
    BY <1>9 DEF MergeAddress, Continue
  <2> QED BY <1>1, <2>2, <2>3
<1>10. ASSUME NEW s \in Loaders, ResolveRow(s) PROVE handling'[r] = handling[r]
  <2>1. PICK job : /\ job \in Resolving /\ job.at = "count"
                   /\ handling' = [handling EXCEPT ![s] = job]
    BY <1>10, RowDecided DEF Counting
  <2> QED BY <1>1, <2>1
<1>11. ASSUME NEW s \in Loaders, FindDuplicate(s) PROVE handling'[r] = handling[r]
  <2>1. PICK j \in Importing : handling' = [handling EXCEPT ![s] = j] /\ j.at = "place"
    BY <1>11, Finding
  <2> QED BY <1>1, <2>1
<1> QED BY <1>2, <1>3, <1>4, <1>5, <1>6, <1>7, <1>8, <1>9, <1>10, <1>11 DEF ImportsNext

LEMMA AsksStep ==
  ASSUME Inv, NEW one, Slots = {one}, AsksInv, [Next]_vars
  PROVE  AsksInv'
<1>1. ASSUME UNCHANGED asked,
             handling'[one].at \in {"approve", "reject"} => handling'[one].ask \in Pending
      PROVE  AsksInv'
  BY <1>1 DEF AsksInv, Pending
<1>2. ASSUME UNCHANGED asked, handling'[one].at \in {"approve", "reject"} => handling'[one] = handling[one]
      PROVE  AsksInv'
  BY <1>1, <1>2 DEF AsksInv
<1>3. CASE UNCHANGED vars
  BY <1>2, <1>3 DEF vars
<1>4. ASSUME NEW s \in Slots \cup Loaders, Abandon(s) PROVE AsksInv'
  BY <1>2, <1>4 DEF Abandon, Done, Idle, Inv
<1>5. CASE ImportsNext /\ UNCHANGED asked
  BY <1>2, <1>5, ImportKeepsAsk
<1>6. CASE RequestsNext
  <2>1. ASSUME NEW t \in Turfs, NEW x \in Texts, BeginSubmit(one, t, x) PROVE AsksInv'
    BY <1>2, <2>1 DEF BeginSubmit, Send, Inv
  <2>2. ASSUME NEW q \in Asks, NEW verdict \in {"approve", "reject"}, BeginReview(one, q, verdict) PROVE AsksInv'
    BY <1>1, <2>2 DEF BeginReview, Send, Inv
  <2>3. ASSUME ApprovalFails(one) PROVE AsksInv'
    BY <1>2, <2>3 DEF ApprovalFails, Done, Idle, Inv
  <2>4. ASSUME NEW q \in Asks, NEW row, handling'[one] = Idle, asked'[q] = row,
               row.status = "pending" => row.made = 0, \A p \in Asks \ {q} : asked'[p] = asked[p]
        PROVE  AsksInv'
    BY <2>4 DEF AsksInv, Pending, Idle
  <2>5. ASSUME SubmitRequest(one) PROVE AsksInv'
    <3>1. PICK q \in Asks :
            asked' = [asked EXCEPT ![q] = [turf |-> handling[one].turf, text |-> handling[one].text,
                                           status |-> "pending", made |-> 0]]
      BY <2>5 DEF SubmitRequest
    <3>2. handling'[one] = Idle
      BY <2>5 DEF SubmitRequest, Done, Inv
    <3> QED BY <2>4, <3>1, <3>2 DEF Inv, RowsOK, AskedOK
  <2>6. ASSUME ApproveRequest(one) PROVE AsksInv'
    <3>1. PICK q, row : Approved(q, row)
      BY <2>6, ApprovedRow
    <3>2. handling'[one] = Idle
      BY <2>6 DEF ApproveRequest, Done, Inv
    <3> QED BY <2>4, <3>1, <3>2 DEF Approved
  <2>7. ASSUME RejectRequest(one) PROVE AsksInv'
    <3>1. PICK q, row : q = handling[one].ask /\ row = [asked[q] EXCEPT !.status = "rejected"]
      OBVIOUS
    <3>2. q \in Asks /\ asked[q] \in AskRows
      BY <2>7, <3>1, Asked DEF RejectRequest
    <3>3. row.status = "rejected"
      BY <3>1, <3>2 DEF AskRows
    <3>4. asked' = [asked EXCEPT ![q] = row] /\ handling'[one] = Idle
      BY <2>7, <3>1 DEF RejectRequest, Done, Inv
    <3> QED BY <2>4, <3>2, <3>3, <3>4 DEF Inv, RowsOK, AskedOK
  <2> QED BY <1>6, <2>1, <2>2, <2>3, <2>5, <2>6, <2>7 DEF RequestsNext
<1> QED BY <1>3, <1>4, <1>5, <1>6 DEF Next

(* With one field request and one import or resolution at a time, each     *)
(* address request and each held row waits for a decision and is decided   *)
(* at most once, whatever dies between two writes.  A request adds its     *)
(* address exactly when approved.  A held row is written to its address    *)
(* before it is recorded as merged, and never once it is decided; a merge  *)
(* that dies in between leaves it written and waiting.  (Two approvals at  *)
(* once can both create the address.)                                      *)
THEOREM ReviewsDecide ==
  ASSUME NEW one, Slots = {one}, NEW only, Loaders = {only}
  PROVE  Spec => ImplementsReview
<1> DEFINE All == Inv /\ AsksInv /\ CountsInv /\ AppliedInv
<1>1. Init => All
  BY InitInv DEF Init, AsksInv, CountsInv, AppliedInv, Recorded, Pending, Idle, HeldRows
<1>2. All /\ [Next]_vars => All'
  BY Invariance, AsksStep, AppliedStep, Quietly, QuietCounts, RecordCounts, ResolveCounts, CountCounts
<1>3. All /\ [Next]_vars => [Review!Next]_(Review!vars)
  <2> SUFFICES ASSUME All, [Next]_vars PROVE Review!Next \/ UNCHANGED Review!vars
    OBVIOUS
  <2>1. ASSUME UNCHANGED <<asked, batches, applied>> PROVE UNCHANGED Review!vars
    BY <2>1, AskSame, RowSame, Stutters DEF Reviewed
  <2> QED BY <2>1, RequestReviews, ImportReviews DEF Next, Abandon, vars
<1>4. Init => Review!Init
  BY ReviewInit
<1> QED BY <1>1, <1>2, <1>3, <1>4, PTL DEF Spec, ImplementsReview, Review!Spec
=============================================================================
