---------------------------- MODULE AddressRequests ----------------------------
(***************************************************************************)
(* AddressRequestsService: a canvasser asks for an address that is missing *)
(* from a turf, and staff approve or reject the request.  Duplicates are   *)
(* looked for when it is submitted and again when it is approved, each     *)
(* time before the write.                                                  *)
(***************************************************************************)
EXTENDS Households

CONSTANTS Asks,      \* ids of address requests: bounds how many are made
          Staffed    \* turfs whose canvasser may ask: assigned or at work

VARIABLE asked       \* address requests

AskRows == [turf : Turfs, text : Texts, status : {"pending", "approved", "rejected"},
            made : 0 .. 2]       \* history: addresses created for it

ASSUME NoAskAssumption == None \notin AskRows

AskedOK == asked \in [Asks -> OrNone(AskRows)]

Pending == {q \in Asks : asked[q] # None /\ asked[q].status = "pending"}

\* An address is a duplicate by its key, a request by its text.
OnTurf(t, x) == \E a \in LiveOn(t) : places[a].key = KeyOf[x]

MayAsk(t) == turfs[t] # None /\ t \in Staffed

BeginSubmit(s, t, x) ==
  /\ MayAsk(t)
  /\ ~OnTurf(t, x)
  /\ \A q \in Pending : <<asked[q].turf, asked[q].text>> # <<t, x>>
  /\ Send(s, [at |-> "submit", turf |-> t, text |-> x])
  /\ UNCHANGED <<tables, asked>>

SubmitRequest(s) ==
  /\ handling[s].at = "submit"
  /\ \E q \in Asks :
       /\ asked[q] = None
       /\ asked' = [asked EXCEPT ![q] = [turf |-> handling[s].turf, text |-> handling[s].text,
                                         status |-> "pending", made |-> 0]]
  /\ Done(s)
  /\ UNCHANGED tables

BeginReviewMutant(s, q, verdict) ==
  /\ verdict = "approve" => ~OnTurf(asked[q].turf, asked[q].text)
  /\ Send(s, [at |-> verdict, ask |-> q])
  /\ UNCHANGED <<tables, asked>>

BeginReview(s, q, verdict) ==
  /\ q \in Pending
  /\ verdict = "approve" => ~OnTurf(asked[q].turf, asked[q].text)
  /\ Send(s, [at |-> verdict, ask |-> q])
  /\ UNCHANGED <<tables, asked>>

AsRow(q) == [text |-> asked[q].text, house |-> None, person |-> None, located |-> FALSE]

\* The household is ensured outside the transaction that follows.
ApproveRequest(s) ==
  LET q == handling[s].ask
  IN /\ handling[s].at = "approve"
     /\ \E h \in Homes, a \in Vacant :
          /\ EnsureHousehold(AsRow(q), h)
          /\ places' = Placed(a, asked[q].turf, h, asked[q].text, TRUE)
     /\ asked' = [asked EXCEPT ![q].status = "approved", ![q].made = IF @ = 2 THEN 2 ELSE @ + 1]
     /\ Done(s)
     /\ UNCHANGED turfs

ApprovalFails(s) ==
  /\ handling[s].at = "approve"
  /\ \E h \in Homes : EnsureHousehold(AsRow(handling[s].ask), h)
  /\ Done(s)
  /\ UNCHANGED <<turfs, places, asked>>

RejectRequest(s) ==
  /\ handling[s].at = "reject"
  /\ asked' = [asked EXCEPT ![handling[s].ask].status = "rejected"]
  /\ Done(s)
  /\ UNCHANGED tables

RequestsNext ==
  \E s \in Slots :
    \/ \E t \in Turfs, x \in Texts : BeginSubmit(s, t, x)
    \/ \E q \in {p \in Asks : asked[p] # None}, verdict \in {"approve", "reject"} :
         BeginReview(s, q, verdict)
    \/ SubmitRequest(s) \/ ApproveRequest(s) \/ ApprovalFails(s) \/ RejectRequest(s)
=============================================================================
