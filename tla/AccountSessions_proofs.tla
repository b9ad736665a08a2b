------------------------ MODULE AccountSessions_proofs ------------------------
(***************************************************************************)
(* Recovery cases, credentials and the sessions of the dashboard, proved   *)
(* for any number of accounts, cases, credentials and calls.               *)
(***************************************************************************)
EXTENDS AccountSessions, FiniteSetTheorems, TLAPS

\* Requests about a case that was found, and requests to open one.
Deciding == {"approve", "reject", "expire", "notify"}

CasesOK == cases \in [Cases -> CaseRows \cup {NoRow}]

\* What a request in progress has established of its author, whom it concerns
\* and its case; the requester and the target of a case never change.
RequestOK(r) ==
  /\ r.at \in Types \cup {"approve", "reject"} => r.by \in Users /\ r.who \in Users
  /\ r.at \in Types => r.by # r.who
  /\ r.at \in Deciding => r.what \in Opened /\ {"at", "what"} \subseteq DOMAIN r
  /\ r.at = "approve" => r.by \notin {cases[r.what].requester, cases[r.what].target}

RequestsOK == /\ DOMAIN request = Slots
              /\ request = [s \in Slots |-> request[s]]
              /\ \A s \in Slots : RequestOK(request[s])

TwoPeople(case) ==
  /\ case.requester # case.target
  /\ case.status = "executed" => case.reviewer \notin {case.requester, case.target}

Inv == CasesOK /\ RequestsOK /\ \A k \in Opened : TwoPeople(cases[k])

LEMMA InitInv == Init => Inv
BY CasesAssumption DEF Init, AuthInit, Inv, CasesOK, RequestsOK, RequestOK, Opened, Idle, Types,
   Deciding

\* A request that starts or ends leaves the other requests alone.
LEMMA SlotStep ==
  ASSUME RequestsOK, NEW s \in Slots, NEW r, request' = [request EXCEPT ![s] = r],
         \A k \in Opened : /\ k \in Opened'
                           /\ cases'[k].requester = cases[k].requester
                           /\ cases'[k].target = cases[k].target,
         RequestOK(r)'
  PROVE  RequestsOK'
<1>1. \A t \in Slots \ {s} : request'[t] = request[t]
  BY DEF RequestsOK
<1>2. request'[s] = r /\ DOMAIN request' = Slots /\ request' = [t \in Slots |-> request'[t]]
  BY DEF RequestsOK
<1>3. ASSUME NEW t \in Slots \ {s} PROVE RequestOK(request[t])'
  <2>1. RequestOK(request[t]) /\ request'[t] = request[t]
    BY <1>1 DEF RequestsOK
  <2> QED BY <2>1 DEF RequestOK, Deciding
<1> QED BY <1>2, <1>3 DEF RequestsOK

\* A request about accounts and credentials: not one about a case.
Harmless(r) == r.at \notin Types \cup Deciding

LEMMA AuthRequests ==
  ASSUME AuthNext
  PROVE  \/ request' = request
         \/ \E s \in Slots : \E r : Harmless(r) /\ request' = [request EXCEPT ![s] = r]
<1> DEFINE Goal == \/ request' = request
                   \/ \E s \in Slots : \E r : Harmless(r) /\ request' = [request EXCEPT ![s] = r]
<1>1. ASSUME NEW s \in Slots, NEW r, Harmless(r), request' = [request EXCEPT ![s] = r]
      PROVE  Goal
  BY <1>1
<1>2. CASE request' = request
  BY <1>2
<1>3. Harmless(Idle)
  BY DEF Harmless, Idle, Types, Deciding
<1>4. ASSUME NEW s \in Slots, Done(s) PROVE Goal
  BY <1>1, <1>3, <1>4 DEF Done
<1>5. ASSUME NEW s \in Slots, NEW u \in Members, BeginPassword(s, u) PROVE Goal
  <2> DEFINE r == [Asking("password", u) EXCEPT !.tries = account[u].attempts]
  <2>1. Harmless(r)
    BY DEF Harmless, Asking, Types, Deciding
  <2> QED BY <1>1, <1>5, <2>1 DEF BeginPassword, Send
<1>6. ASSUME NEW s \in Slots, NEW u \in Members, NEW op \in {"disable", "stepUp"}, BeginFactor(s, op, u)
      PROVE  Goal
  <2>1. PICK code : Send(s, [Asking(op, u) EXCEPT !.code = code])
    BY <1>6 DEF BeginFactor
  <2>2. Harmless([Asking(op, u) EXCEPT !.code = code])
    BY DEF Harmless, Asking, Types, Deciding
  <2> QED BY <1>1, <2>1, <2>2 DEF Send
<1>7. ASSUME NEW s \in Slots, NEW i \in Ids,
             NEW kind \in {"refresh", "verify", "setup", "reset", "activation"},
             BeginCredential(s, kind, i)
      PROVE  Goal
  <2>1. PICK code : Send(s, [Asking(kind, creds[i].of) EXCEPT !.what = i, !.code = code])
    BY <1>7 DEF BeginCredential
  <2>2. Harmless([Asking(kind, creds[i].of) EXCEPT !.what = i, !.code = code])
    BY DEF Harmless, Asking, Types, Deciding
  <2> QED BY <1>1, <2>1, <2>2 DEF Send
<1>8. ASSUME NEW s \in Slots,
             \/ WrongPassword(s) \/ RightPassword(s) \/ Refresh(s)
             \/ CompleteMfaSetup(s) \/ VerifyMfaChallenge(s) \/ StepUpMfa(s) \/ DisableMfa(s)
             \/ CompletePasswordReset(s) \/ ActivateAccount(s) \/ CutShort(s) \/ Abandon(s)
      PROVE  Goal
  BY <1>4, <1>8 DEF WrongPassword, RightPassword, Refresh, CompleteMfaSetup, VerifyMfaChallenge,
     StepUpMfa, DisableMfa, CompletePasswordReset, ActivateAccount, CutShort, Abandon, Finish
<1>9. ASSUME NEW i \in Ids,
             \/ ReuseDetected(i) \/ Logout(i) \/ InitializeMfaSetup(i)
             \/ StopImpersonation(i) \/ TokenAges(i) \/ Purge(i)
      PROVE  Goal
  BY <1>2, <1>9 DEF ReuseDetected, Logout, InitializeMfaSetup, StopImpersonation, TokenAges, Purge
<1>10. ASSUME NEW u \in Users,
              \/ RequestPasswordReset(u) \/ UpdateCanvasser(u) \/ LockAges(u) \/ ArchiveDeleted(u)
              \/ \E actor \in Admins : StartImpersonation(actor, u)
              \/ \E role \in {"supervisor", "canvasser"} : InviteCanvasser(u, role) \/ CreateCanvasser(u, role)
              \/ \E status \in {"archived", "deleted"} : CloseFieldUser(u, status)
       PROVE  Goal
  BY <1>2, <1>10 DEF RequestPasswordReset, UpdateCanvasser, LockAges, ArchiveDeleted,
     StartImpersonation, InviteCanvasser, CreateCanvasser, CloseFieldUser, SetAccount
<1> HIDE DEF Goal
<1>11. Goal
  BY UsersAssumption, <1>5, <1>6, <1>7, <1>8, <1>9, <1>10 DEF AuthNext, Users
<1> QED BY <1>11 DEF Goal

\* Such requests leave the cases alone.
LEMMA AuthStep == Inv /\ AuthNext /\ UNCHANGED cases => Inv'
<1> SUFFICES ASSUME Inv, AuthNext, cases' = cases PROVE Inv'
  OBVIOUS
<1>1. ASSUME NEW s \in Slots, NEW r, Harmless(r), request' = [request EXCEPT ![s] = r]
      PROVE  Inv'
  <2>1. RequestOK(r)'
    BY <1>1 DEF RequestOK, Deciding, Harmless
  <2>2. RequestsOK'
    BY <1>1, <2>1, SlotStep DEF Inv, Opened
  <2> QED BY <2>2 DEF Inv, CasesOK, Opened, TwoPeople
<1>2. CASE request' = request
  BY <1>2 DEF Inv, CasesOK, RequestsOK, RequestOK, Opened, TwoPeople
<1> QED BY <1>1, <1>2, AuthRequests

----------------------------------------------------------------------------

\* A handler that writes its case by id keeps who requested it and about whom.
LEMMA CaseStep ==
  ASSUME Inv, NEW k \in Opened, NEW new \in CaseRows,
         new.requester = cases[k].requester, new.target = cases[k].target,
         TwoPeople(new), cases' = [cases EXCEPT ![k] = new]
  PROVE  /\ CasesOK' /\ Opened' = Opened
         /\ \A j \in Opened : /\ cases'[j].requester = cases[j].requester
                              /\ cases'[j].target = cases[j].target
                              /\ TwoPeople(cases'[j])
<1>1. k \in Cases /\ cases \in [Cases -> CaseRows \cup {NoRow}] /\ NoRow \notin CaseRows
  BY CasesAssumption DEF Inv, CasesOK, Opened
<1>2. cases'[k] = new /\ \A j \in Cases \ {k} : cases'[j] = cases[j]
  BY <1>1
<1> QED BY <1>1, <1>2 DEF Inv, CasesOK, Opened

LEMMA AskStep ==
  ASSUME Inv, NEW s \in Slots, NEW r, RequestOK(r),
         request' = [request EXCEPT ![s] = r], cases' = cases
  PROVE  Inv'
<1>1. RequestOK(r)'
  BY DEF RequestOK, Opened
<1>2. RequestsOK'
  BY <1>1, SlotStep DEF Inv, Opened
<1> QED BY <1>2 DEF Inv, CasesOK, Opened, TwoPeople

\* The end of a request that has written its case.
LEMMA DecideStep ==
  ASSUME Inv, NEW s \in Slots, NEW new \in CaseRows, request[s].at \in Deciding,
         new.requester = cases[request[s].what].requester,
         new.target = cases[request[s].what].target,
         TwoPeople(new), cases' = [cases EXCEPT ![request[s].what] = new],
         NEW r \in {Idle, [request[s] EXCEPT !.at = "notify"]},
         request' = [request EXCEPT ![s] = r]
  PROVE  Inv'
<1>1. RequestOK(request[s]) /\ request[s].what \in Opened
  BY DEF Inv, RequestsOK, RequestOK
<1>2. /\ CasesOK' /\ Opened' = Opened
      /\ \A j \in Opened : /\ cases'[j].requester = cases[j].requester
                           /\ cases'[j].target = cases[j].target
                           /\ TwoPeople(cases'[j])
  BY <1>1, CaseStep
<1>3. RequestOK(r)'
  <2>1. CASE r = Idle
    BY <2>1 DEF RequestOK, Types, Deciding, Idle
  <2>2. CASE r = [request[s] EXCEPT !.at = "notify"]
    <3>1. r.at = "notify" /\ r.what \in Opened' /\ {"at", "what"} \subseteq DOMAIN r
      BY <1>1, <1>2, <2>2 DEF RequestOK
    <3> QED BY <3>1 DEF RequestOK, Types
  <2> QED BY <2>1, <2>2
<1>4. RequestsOK'
  BY <1>2, <1>3, SlotStep DEF Inv
<1> QED BY <1>2, <1>4 DEF Inv, TwoPeople

LEMMA ExecutedRow ==
  ASSUME NEW case \in CaseRows, NEW by \in Users, NEW n \in 0 .. 2,
         NEW notice \in {"pending", "not_configured"}
  PROVE  [case EXCEPT !.status = "executed", !.reviewer = by, !.executions = n,
                      !.notice = notice] \in CaseRows
BY DEF CaseRows

LEMMA RecoveryStep == Inv /\ RecoveryNext => Inv'
<1> SUFFICES ASSUME Inv, RecoveryNext PROVE Inv'
  OBVIOUS
<1>1. ASSUME NEW s \in Slots, NEW a \in Users, NEW u \in Users, NEW type \in Types, BeginCase(s, type, a, u)
      PROVE  Inv'
  <2> DEFINE r == [Asking(type, u) EXCEPT !.by = a, !.what = NoRow]
  <2>1. RequestOK(r)
    BY <1>1 DEF BeginCase, Asking, RequestOK, Types, Deciding
  <2>2. request' = [request EXCEPT ![s] = r] /\ cases' = cases
    BY <1>1 DEF BeginCase, Ask, Send
  <2> QED BY <2>1, <2>2, AskStep
<1>2. ASSUME NEW s \in Slots, NEW a \in Users, NEW k \in Opened,
             BeginReject(s, a, k) \/ BeginApprove(s, a, k) \/ BeginExpire(s, a, k)
      PROVE  Inv'
  <2>1. PICK at \in {"reject", "approve", "expire"} :
          /\ Ask(s, at, cases[k].target, a, k)
          /\ at = "approve" => a \notin {cases[k].requester, cases[k].target}
    BY <1>2 DEF BeginReject, BeginApprove, BeginExpire
  <2> DEFINE r == [Asking(at, cases[k].target) EXCEPT !.by = a, !.what = k]
  <2>2. cases[k].target \in Users
    BY DEF Inv, CasesOK, Opened, CaseRows
  <2>3. RequestOK(r)
    BY <2>1, <2>2 DEF Asking, RequestOK, Types, Deciding
  <2>4. request' = [request EXCEPT ![s] = r] /\ cases' = cases
    BY <2>1 DEF Ask, Send
  <2> QED BY <2>3, <2>4, AskStep
<1>3. ASSUME NEW s \in Slots, OpenCase(s) PROVE Inv'
  <2> DEFINE new == [target |-> request[s].who, requester |-> request[s].by, reviewer |-> NoRow,
                     type |-> request[s].at, status |-> "pending",
                     notice |-> IF Webhook THEN "pending" ELSE "not_configured", executions |-> 0]
  <2>1. PICK k \in Cases \ Opened : cases' = [cases EXCEPT ![k] = new]
    BY <1>3 DEF OpenCase
  <2>2. RequestOK(request[s]) /\ request[s].at \in Types /\ request' = [request EXCEPT ![s] = Idle]
    BY <1>3 DEF OpenCase, Done, Inv, RequestsOK
  <2>3. new \in CaseRows /\ TwoPeople(new)
    BY <2>2 DEF RequestOK, CaseRows, TwoPeople
  <2> HIDE DEF new
  <2>4. cases \in [Cases -> CaseRows \cup {NoRow}] /\ NoRow \notin CaseRows
    BY CasesAssumption DEF Inv, CasesOK
  <2>5. CasesOK' /\ Opened' = Opened \cup {k} /\ cases'[k] = new /\ \A j \in Opened : cases'[j] = cases[j]
    BY <2>1, <2>3, <2>4 DEF CasesOK, Opened
  <2>6. RequestOK(Idle)'
    BY DEF Idle, RequestOK, Types, Deciding
  <2>7. RequestsOK'
    BY <2>2, <2>5, <2>6, SlotStep DEF Inv
  <2>8. \A j \in Opened' : TwoPeople(cases'[j])
    BY <2>3, <2>5 DEF Inv
  <2> QED BY <2>5, <2>7, <2>8 DEF Inv, TwoPeople
<1>4. ASSUME NEW s \in Slots,
             RejectCase(s) \/ ExpireCase(s) \/ ApproveCase(s) \/ DeliverNotification(s)
      PROVE  Inv'
  <2> DEFINE k == request[s].what
             of == cases[k]
  <2>1. /\ RequestOK(request[s]) /\ request[s].at \in Deciding /\ k \in Opened
        /\ of \in CaseRows /\ TwoPeople(of) /\ k \in Cases
    BY <1>4 DEF Inv, CasesOK, Opened, RequestsOK, RequestOK, RejectCase, ExpireCase, ApproveCase,
       DeliverNotification, Deciding
  <2>3. CASE RejectCase(s)
    <3> DEFINE new == [of EXCEPT !.status = "rejected", !.reviewer = request[s].by]
    <3>1. cases' = [cases EXCEPT ![k] = new] /\ request' = [request EXCEPT ![s] = Idle]
      BY <2>1, <2>3 DEF RejectCase, Done, Inv, CasesOK
    <3>2. new \in CaseRows /\ TwoPeople(new) /\ new.requester = of.requester /\ new.target = of.target
      BY <2>1, <2>3 DEF RejectCase, CaseRows, TwoPeople, RequestOK, Deciding
    <3> HIDE DEF new
    <3> QED BY <2>1, <3>1, <3>2, DecideStep
  <2>4. CASE ExpireCase(s)
    <3> DEFINE new == [of EXCEPT !.status = "expired"]
    <3>1. cases' = [cases EXCEPT ![k] = new] /\ request' = [request EXCEPT ![s] = Idle]
      BY <2>1, <2>4 DEF ExpireCase, Done, Inv, CasesOK
    <3>2. new \in CaseRows /\ TwoPeople(new) /\ new.requester = of.requester /\ new.target = of.target
      BY <2>1 DEF CaseRows, TwoPeople
    <3> HIDE DEF new
    <3> QED BY <2>1, <3>1, <3>2, DecideStep
  <2>5. CASE ApproveCase(s)
    <3> DEFINE new == [of EXCEPT !.status = "executed", !.reviewer = request[s].by,
                                 !.executions = IF @ = 2 THEN 2 ELSE @ + 1,
                                 !.notice = IF Webhook THEN "pending" ELSE "not_configured"]
               r == IF Webhook THEN [request[s] EXCEPT !.at = "notify"] ELSE Idle
    <3>1. cases' = [cases EXCEPT ![k] = new]
      BY <2>1, <2>5 DEF ApproveCase, Inv, CasesOK
    <3>2. request' = [request EXCEPT ![s] = r]
      BY <2>5 DEF ApproveCase, Done, Inv, RequestsOK
    <3>3. r \in {Idle, [request[s] EXCEPT !.at = "notify"]}
      OBVIOUS
    <3>4. request[s].by \notin {of.requester, of.target} /\ request[s].by \in Users
      BY <2>1, <2>5 DEF ApproveCase, RequestOK, Deciding
    <3>5. of.executions \in 0 .. 2 => (IF of.executions = 2 THEN 2 ELSE of.executions + 1) \in 0 .. 2
      OBVIOUS
    <3>6. new \in CaseRows
      <4>1. of.executions \in 0 .. 2
        BY <2>1 DEF CaseRows
      <4> QED BY <2>1, <3>4, <3>5, <4>1, ExecutedRow
    <3>7. TwoPeople(new) /\ new.requester = of.requester /\ new.target = of.target
      BY <2>1, <3>4 DEF CaseRows, TwoPeople
    <3> HIDE DEF new, r
    <3> QED BY <2>1, <3>1, <3>2, <3>3, <3>6, <3>7, DecideStep
  <2>6. CASE DeliverNotification(s)
    <3>1. PICK notice \in {"delivered", "failed"} : cases' = [cases EXCEPT ![k].notice = notice]
      BY <2>6 DEF DeliverNotification
    <3> DEFINE new == [of EXCEPT !.notice = notice]
    <3>2. cases' = [cases EXCEPT ![k] = new] /\ request' = [request EXCEPT ![s] = Idle]
      BY <2>1, <2>6, <3>1 DEF DeliverNotification, Done, Inv, CasesOK
    <3>3. new \in CaseRows /\ TwoPeople(new) /\ new.requester = of.requester /\ new.target = of.target
      BY <2>1 DEF CaseRows, TwoPeople
    <3> HIDE DEF new
    <3> QED BY <2>1, <3>2, <3>3, DecideStep
  <2> QED BY <1>4, <2>3, <2>4, <2>5, <2>6
<1>5. ASSUME NEW k \in Opened, CaseAges(k) PROVE Inv'
  <2> DEFINE new == [cases[k] EXCEPT !.status = "lapsed"]
  <2>1. cases[k] \in CaseRows /\ TwoPeople(cases[k])
    BY DEF Inv, CasesOK, Opened
  <2>2. cases' = [cases EXCEPT ![k] = new] /\ request' = request
    BY <1>5 DEF CaseAges, Inv, CasesOK, Opened
  <2>3. new \in CaseRows /\ TwoPeople(new) /\ new.requester = cases[k].requester /\ new.target = cases[k].target
    BY <2>1 DEF CaseRows, TwoPeople
  <2> HIDE DEF new
  <2>4. /\ CasesOK' /\ Opened' = Opened
        /\ \A j \in Opened : /\ cases'[j].requester = cases[j].requester
                             /\ cases'[j].target = cases[j].target
                             /\ TwoPeople(cases'[j])
    BY <2>2, <2>3, CaseStep
  <2>5. ASSUME NEW s \in Slots PROVE RequestOK(request[s])'
    BY <2>2, <2>4 DEF Inv, RequestsOK, RequestOK, Deciding
  <2> QED BY <2>2, <2>4, <2>5 DEF Inv, RequestsOK, TwoPeople
<1> QED BY <1>1, <1>2, <1>3, <1>4, <1>5 DEF RecoveryNext

LEMMA StepInv == Inv /\ [Next]_vars => Inv'
<1>1. Inv /\ UNCHANGED vars => Inv'
  BY DEF vars, Inv, CasesOK, RequestsOK, RequestOK, Opened, TwoPeople
<1> QED BY <1>1, AuthStep, RecoveryStep DEF Next

LEMMA ThreePeople ==
  ASSUME NEW a, NEW b, NEW c, a # b, a # c, b # c
  PROVE  Cardinality({a, b, c}) = 3
<1>1. Cardinality({}) = 0 /\ IsFiniteSet({})
  BY FS_EmptySet
<1>2. Cardinality({} \cup {a}) = 1 /\ IsFiniteSet({} \cup {a})
  BY <1>1, FS_AddElement
<1>3. Cardinality({a} \cup {b}) = 2 /\ IsFiniteSet({a} \cup {b})
  BY <1>2, FS_AddElement
<1>4. Cardinality({a, b} \cup {c}) = 3
  BY <1>3, FS_AddElement
<1> QED BY <1>4

(* However requests overlap, and also when a case is executed twice: an    *)
(* executed case had been requested by one person and approved by another, *)
(* and neither is the one it is about.                                     *)
THEOREM TwoPersons == Spec => []TwoPersonRule
<1>1. Inv => TwoPersonRule
  <2> SUFFICES ASSUME Inv, NEW k \in Opened, cases[k].status = "executed"
               PROVE  Cardinality({cases[k].requester, cases[k].reviewer, cases[k].target}) = 3
    BY DEF TwoPersonRule
  <2> QED BY ThreePeople DEF Inv, TwoPeople
<1> QED BY InitInv, StepInv, <1>1, PTL DEF Spec
----------------------------------------------------------------------------
(* One request at a time: a case is still open when it is decided.         *)

Executions == \A k \in Opened : cases[k].executions = IF cases[k].status = "executed" THEN 1 ELSE 0

StillOpen(r) == r.at \in {"approve", "reject", "expire"} => r.what \in Pending

SerialInv == Inv /\ Executions /\ \A s \in Slots : StillOpen(request[s])

LEMMA InitSerial == Init => SerialInv
BY InitInv DEF Init, AuthInit, SerialInv, Executions, StillOpen, Opened, Idle

\* Every step either leaves verdicts and executions alone or decides one case.
Untouched == /\ Opened' = Opened
             /\ \A k \in Opened : /\ (k \in Pending) <=> (k \in Pending')
                                  /\ (cases[k].status = "executed") <=> (cases'[k].status = "executed")
                                  /\ cases'[k].executions = cases[k].executions
Opens(k) == /\ k \in Cases \ Opened /\ Opened' = Opened \cup {k}
            /\ \A j \in Opened : cases'[j] = cases[j]
            /\ cases'[k].status = "pending" /\ cases'[k].executions = 0
Decides(k, status) ==
  /\ k \in Pending /\ Opened' = Opened
  /\ \A j \in Opened \ {k} : cases'[j] = cases[j]
  /\ cases'[k].status = status
  /\ cases'[k].executions = IF status = "executed" THEN 1 ELSE 0

StepKinds ==
  \/ Untouched
  \/ \E k \in Cases : Opens(k)
  \/ \E k \in Cases, status \in {"executed", "rejected", "expired"} : Decides(k, status)

LEMMA Written ==
  ASSUME Inv, NEW k \in Opened, NEW new \in CaseRows, cases' = [cases EXCEPT ![k] = new]
  PROVE  Opened' = Opened /\ cases'[k] = new /\ \A j \in Opened \ {k} : cases'[j] = cases[j]
BY CasesAssumption DEF Inv, CasesOK, Opened

LEMMA OpenedCase ==
  ASSUME Inv, NEW k \in Opened
  PROVE  k \in Cases /\ cases \in [Cases -> CaseRows \cup {NoRow}] /\ cases[k] \in CaseRows
BY DEF Inv, CasesOK, Opened

LEMMA RequestIsOK == ASSUME Inv, NEW s \in Slots PROVE RequestOK(request[s])
BY DEF Inv, RequestsOK

LEMMA Kind == SerialInv /\ [Next]_vars => StepKinds
<1> SUFFICES ASSUME SerialInv, [Next]_vars PROVE StepKinds
  OBVIOUS
<1>0. Inv /\ Executions
  BY DEF SerialInv
<1>1. CASE cases' = cases
  BY <1>1 DEF StepKinds, Untouched, Opened, Pending
<1>2. ASSUME NEW s \in Slots, OpenCase(s) PROVE StepKinds
  <2> DEFINE new == [target |-> request[s].who, requester |-> request[s].by, reviewer |-> NoRow,
                     type |-> request[s].at, status |-> "pending",
                     notice |-> IF Webhook THEN "pending" ELSE "not_configured", executions |-> 0]
  <2>1. PICK k \in Cases \ Opened : cases' = [cases EXCEPT ![k] = new]
    BY <1>2 DEF OpenCase
  <2>2. request[s].at \in Types /\ RequestOK(request[s])
    BY <1>0, <1>2, RequestIsOK DEF OpenCase
  <2>3. new \in CaseRows /\ new.status = "pending" /\ new.executions = 0
    BY <2>2 DEF RequestOK, CaseRows
  <2> HIDE DEF new
  <2>4. Opened' = Opened \cup {k} /\ cases'[k] = new /\ \A j \in Opened : cases'[j] = cases[j]
    BY <1>0, <2>1, <2>3, CasesAssumption DEF Inv, CasesOK, Opened
  <2>5. Opens(k)
    BY <2>3, <2>4 DEF Opens
  <2> QED BY <2>5 DEF StepKinds
<1>3. ASSUME NEW s \in Slots, RejectCase(s) \/ ExpireCase(s) \/ ApproveCase(s) PROVE StepKinds
  <2> DEFINE k == request[s].what
             of == cases[k]
  <2>1. k \in Pending /\ k \in Opened
    BY <1>3 DEF SerialInv, StillOpen, RejectCase, ExpireCase, ApproveCase, Pending
  <2>2. of \in CaseRows /\ cases \in [Cases -> CaseRows \cup {NoRow}] /\ k \in Cases
    BY <1>0, <2>1, OpenedCase
  <2>3. of.executions = 0
    BY <1>0, <2>1 DEF Executions, Pending
  <2>4. RequestOK(request[s])
    BY <1>0, RequestIsOK
  <2>5. PICK status \in {"executed", "rejected", "expired"}, new \in CaseRows :
          /\ cases' = [cases EXCEPT ![k] = new]
          /\ new.status = status /\ new.executions = IF status = "executed" THEN 1 ELSE 0
    <3>1. CASE RejectCase(s)
      <4> DEFINE new == [of EXCEPT !.status = "rejected", !.reviewer = request[s].by]
      <4>1. cases' = [cases EXCEPT ![k] = new]
        BY <2>2, <3>1 DEF RejectCase
      <4>2. new \in CaseRows /\ new.status = "rejected" /\ new.executions = 0
        BY <2>2, <2>3, <2>4, <3>1 DEF RejectCase, CaseRows, RequestOK
      <4> HIDE DEF new
      <4> QED BY <4>1, <4>2
    <3>2. CASE ExpireCase(s)
      <4> DEFINE new == [of EXCEPT !.status = "expired"]
      <4>1. cases' = [cases EXCEPT ![k] = new]
        BY <2>2, <3>2 DEF ExpireCase
      <4>2. new \in CaseRows /\ new.status = "expired" /\ new.executions = 0
        BY <2>2, <2>3 DEF CaseRows
      <4> HIDE DEF new
      <4> QED BY <4>1, <4>2
    <3>3. CASE ApproveCase(s)
      <4> DEFINE n == IF of.executions = 2 THEN 2 ELSE of.executions + 1
                 notice == IF Webhook THEN "pending" ELSE "not_configured"
                 new == [of EXCEPT !.status = "executed", !.reviewer = request[s].by,
                                   !.executions = n, !.notice = notice]
      <4>1. cases' = [cases EXCEPT ![k].status = "executed", ![k].reviewer = request[s].by,
                        ![k].executions = IF @ = 2 THEN 2 ELSE @ + 1, ![k].notice = notice]
        BY <3>3 DEF ApproveCase
      <4>2. cases' = [cases EXCEPT ![k] = new]
        BY <2>2, <4>1
      <4>3. request[s].by \in Users
        BY <2>4, <3>3 DEF ApproveCase, RequestOK
      <4>4. n = 1 /\ n \in 0 .. 2 /\ notice \in {"pending", "not_configured"}
        BY <2>3
      <4> HIDE DEF n, notice
      <4>5. new \in CaseRows
        BY <2>2, <4>3, <4>4, ExecutedRow
      <4>6. new.status = "executed" /\ new.executions = 1
        BY <2>2, <4>4 DEF CaseRows
      <4> HIDE DEF new
      <4> QED BY <4>2, <4>5, <4>6
    <3> QED BY <1>3, <3>1, <3>2, <3>3
  <2>6. Decides(k, status)
    BY <1>0, <2>1, <2>5, Written DEF Decides
  <2> QED BY <2>2, <2>6 DEF StepKinds
<1>4. ASSUME NEW s \in Slots, DeliverNotification(s) PROVE StepKinds
  <2> DEFINE k == request[s].what
  <2>1. PICK notice \in {"delivered", "failed"} : cases' = [cases EXCEPT ![k].notice = notice]
    BY <1>4 DEF DeliverNotification
  <2>2. k \in Opened
    BY <1>0, <1>4, RequestIsOK DEF DeliverNotification, RequestOK, Deciding
  <2> DEFINE new == [cases[k] EXCEPT !.notice = notice]
  <2>3. cases[k] \in CaseRows /\ cases' = [cases EXCEPT ![k] = new]
    BY <1>0, <2>1, <2>2, OpenedCase
  <2>4. new \in CaseRows /\ new.status = cases[k].status /\ new.executions = cases[k].executions
    BY <2>3 DEF CaseRows
  <2> HIDE DEF new
  <2>5. Opened' = Opened /\ cases'[k] = new /\ \A j \in Opened \ {k} : cases'[j] = cases[j]
    BY <1>0, <2>2, <2>3, <2>4, Written
  <2>6. Untouched
    BY <2>4, <2>5 DEF Untouched, Pending
  <2> QED BY <2>6 DEF StepKinds
<1>5. ASSUME NEW k \in Opened, CaseAges(k) PROVE StepKinds
  <2> DEFINE new == [cases[k] EXCEPT !.status = "lapsed"]
  <2>1. cases[k] \in CaseRows /\ cases' = [cases EXCEPT ![k] = new] /\ cases[k].status = "pending"
    BY <1>0, <1>5, OpenedCase DEF CaseAges
  <2>2. new \in CaseRows /\ new.status = "lapsed" /\ new.executions = cases[k].executions
    BY <2>1 DEF CaseRows
  <2> HIDE DEF new
  <2>3. Opened' = Opened /\ cases'[k] = new /\ \A j \in Opened \ {k} : cases'[j] = cases[j]
    BY <1>0, <2>1, <2>2, Written
  <2>4. Untouched
    BY <2>1, <2>2, <2>3 DEF Untouched, Pending
  <2> QED BY <2>4 DEF StepKinds
<1>6. CASE RecoveryNext
  BY <1>1, <1>2, <1>3, <1>4, <1>5, <1>6 DEF RecoveryNext, BeginCase, BeginReject, BeginApprove,
     BeginExpire, Ask
<1> QED BY <1>1, <1>6 DEF Next, vars
LEMMA StepSerial ==
  ASSUME NEW only, Slots = {only}
  PROVE  SerialInv /\ [Next]_vars => SerialInv'
<1> SUFFICES ASSUME SerialInv, [Next]_vars PROVE SerialInv'
  OBVIOUS
<1>1. Inv /\ Inv'
  BY StepInv DEF SerialInv
<1>2. StepKinds
  BY Kind
<1>3. Executions'
  BY <1>2 DEF StepKinds, Untouched, Opens, Decides, Executions, SerialInv
<1>4. /\ DOMAIN request = {only} /\ StillOpen(request[only])
      /\ request = [s \in Slots |-> request[s]]
  BY <1>1 DEF SerialInv, Inv, RequestsOK
<1>5. StillOpen(request[only])'
  <2>1. ASSUME NEW r, request' = [request EXCEPT ![only] = r], StillOpen(r)' PROVE StillOpen(request[only])'
    BY <1>4, <2>1 DEF StillOpen
  <2>2. ASSUME NEW r, r.at \notin {"approve", "reject", "expire"}, request' = [request EXCEPT ![only] = r]
        PROVE  StillOpen(request[only])'
    BY <2>1, <2>2 DEF StillOpen
  <2>3. ASSUME request' = request, cases' = cases PROVE StillOpen(request[only])'
    BY <1>4, <2>3 DEF StillOpen, Pending, Opened
  <2>4. CASE AuthNext /\ UNCHANGED cases
    BY <2>2, <2>3, <2>4, AuthRequests DEF Harmless, Deciding
  <2>5. ASSUME NEW s \in Slots, Done(s) PROVE StillOpen(request[only])'
    BY <2>2, <2>5 DEF Done, Idle
  <2>6. ASSUME NEW s \in Slots, NEW a \in Users, NEW u \in Users, NEW type \in Types, BeginCase(s, type, a, u)
        PROVE  StillOpen(request[only])'
    <3>1. [Asking(type, u) EXCEPT !.by = a, !.what = NoRow].at \notin {"approve", "reject", "expire"}
      BY DEF Asking, Types
    <3> QED BY <2>2, <2>6, <3>1 DEF BeginCase, Ask, Send
  <2>7. ASSUME NEW s \in Slots, NEW a \in Users, NEW k \in Opened,
               BeginReject(s, a, k) \/ BeginApprove(s, a, k) \/ BeginExpire(s, a, k)
        PROVE  StillOpen(request[only])'
    <3>1. PICK at : Ask(s, at, cases[k].target, a, k) /\ k \in Pending
      BY <2>7 DEF BeginReject, BeginApprove, BeginExpire, Pending
    <3> DEFINE r == [Asking(at, cases[k].target) EXCEPT !.by = a, !.what = k]
    <3>2. request' = [request EXCEPT ![only] = r] /\ cases' = cases
      BY <3>1 DEF Ask, Send
    <3>3. r.what = k
      BY DEF Asking
    <3> HIDE DEF r
    <3>4. request'[only].what = k /\ k \in Pending'
      BY <1>4, <3>1, <3>2, <3>3 DEF Pending, Opened
    <3> QED BY <3>4 DEF StillOpen
  <2>8. ASSUME NEW s \in Slots, OpenCase(s) \/ RejectCase(s) \/ ExpireCase(s) \/ DeliverNotification(s)
        PROVE  StillOpen(request[only])'
    BY <2>5, <2>8 DEF OpenCase, RejectCase, ExpireCase, DeliverNotification
  <2>9. ASSUME NEW s \in Slots, ApproveCase(s) PROVE StillOpen(request[only])'
    <3>1. CASE Done(s)
      BY <2>5, <3>1
    <3>2. CASE request' = [request EXCEPT ![s].at = "notify"]
      <4>1. request'[only].at = "notify"
        BY <1>1, <1>4, <2>9, <3>2, RequestIsOK DEF RequestOK, Deciding, ApproveCase
      <4> QED BY <4>1 DEF StillOpen
    <3> QED BY <2>9, <3>1, <3>2 DEF ApproveCase
  <2>10. ASSUME NEW k \in Opened, CaseAges(k) PROVE StillOpen(request[only])'
    <3>1. cases[k] \in CaseRows /\ k \in Cases /\ cases \in [Cases -> CaseRows \cup {NoRow}]
      BY <1>1, OpenedCase
    <3> DEFINE new == [cases[k] EXCEPT !.status = "lapsed"]
    <3>2. new \in CaseRows /\ new.status = "lapsed" /\ cases' = [cases EXCEPT ![k] = new]
      BY <2>10, <3>1 DEF CaseAges, CaseRows
    <3> HIDE DEF new
    <3>3. Opened' = Opened /\ cases'[k].status = "lapsed" /\ \A j \in Opened \ {k} : cases'[j] = cases[j]
      BY <1>1, <3>2, Written
    <3>4. Pending \subseteq Pending'
      BY <3>3 DEF Pending
    <3> QED BY <1>4, <2>10, <3>4 DEF StillOpen, CaseAges
  <2>11. CASE RecoveryNext
    BY <2>6, <2>7, <2>8, <2>9, <2>10, <2>11 DEF RecoveryNext
  <2> QED BY <2>3, <2>4, <2>11 DEF Next, vars
<1> QED BY <1>1, <1>3, <1>5 DEF SerialInv

(* A service that handles one request at a time executes a recovery case   *)
(* at most once.  (Two approvals at once execute it twice.)                *)
THEOREM ExecutedOnce == ASSUME NEW only, Slots = {only} PROVE Spec => []NotReplayed
<1>1. SerialInv => NotReplayed
  BY DEF SerialInv, Executions, NotReplayed
<1> QED BY InitSerial, StepSerial, <1>1, PTL DEF Spec

(* Then recovery cases are Decisions: each is decided once, and it is      *)
(* executed exactly when the decision was to approve it.                   *)
THEOREM CasesAreDecisions == ASSUME NEW only, Slots = {only} PROVE Spec => ImplementsDecision
<1> DEFINE Verdict(k) == IF k \notin Opened THEN "absent"
                         ELSE IF k \in Pending THEN "open"
                         ELSE IF cases[k].status = "executed" THEN "accepted" ELSE "refused"
           Effects(k) == IF k \in Opened THEN cases[k].executions ELSE 0
           verdicts == [k \in Cases |-> Verdict(k)]
           effects == [k \in Cases |-> Effects(k)]
<1>1. Init => Decision!Init
  BY DEF Init, Decision!Init, Opened
<1>2. SerialInv /\ [Next]_vars => [Decision!Next]_(Decision!vars)
  <2> SUFFICES ASSUME SerialInv, [Next]_vars
               PROVE  Decision!Next \/ (verdicts' = verdicts /\ effects' = effects)
    BY DEF Decision!vars
  <2>1. StepKinds
    BY Kind
  <2>2. CASE Untouched
    <3>1. \A k \in Cases : Verdict(k)' = Verdict(k) /\ Effects(k)' = Effects(k)
      BY <2>2 DEF Untouched, Pending
    <3> QED BY <3>1
  <2>3. ASSUME NEW k \in Cases, Opens(k) PROVE Decision!Next
    <3>1. /\ \A i \in {k} : verdicts[i] = "absent"
          /\ \A j \in Cases : verdicts'[j] = IF j \in {k} THEN "open" ELSE verdicts[j]
          /\ \A j \in Cases : effects'[j] = effects[j]
      BY <2>3 DEF Opens, Pending, Opened
    <3>2. Decision!Submit({k})
      BY <3>1 DEF Decision!Submit
    <3> QED BY <3>2 DEF Decision!Next
  <2>4. ASSUME NEW k \in Cases, NEW status \in {"executed", "rejected", "expired"}, Decides(k, status)
        PROVE  Decision!Next
    <3>1. /\ verdicts[k] = "open"
          /\ \A j \in Cases : verdicts'[j] = IF j = k THEN IF status = "executed" THEN "accepted" ELSE "refused"
                                             ELSE verdicts[j]
          /\ \A j \in Cases : effects'[j] = IF j = k THEN IF status = "executed" THEN 1 ELSE 0
                                            ELSE effects[j]
          /\ effects[k] = 0
      BY <2>4 DEF Decides, Pending, Opened, SerialInv, Executions
    <3> HIDE DEF Verdict, Effects
    <3>2. CASE status = "executed"
      <4>1. verdicts' = [verdicts EXCEPT ![k] = "accepted"] /\ effects' = [effects EXCEPT ![k] = 1]
        BY <3>1, <3>2
      <4>2. Decision!Accept(k)
        BY <3>1, <4>1 DEF Decision!Accept, Verdict, Effects
      <4> QED BY <4>2 DEF Decision!Next
    <3>3. CASE status # "executed"
      <4>1. verdicts' = [verdicts EXCEPT ![k] = "refused"] /\ effects' = effects
        BY <3>1, <3>3
      <4>2. Decision!Refuse(k)
        BY <3>1, <4>1 DEF Decision!Refuse, Verdict, Effects
      <4> QED BY <4>2 DEF Decision!Next
    <3> QED BY <3>2, <3>3
  <2> QED BY <2>1, <2>2, <2>3, <2>4 DEF StepKinds
<1> QED BY InitSerial, StepSerial, <1>1, <1>2, PTL DEF Spec, ImplementsDecision, Decision!Spec
----------------------------------------------------------------------------
(* Credentials, one request at a time: what a lookup found is still live   *)
(* when the handler writes.                                                *)

RowOK(row) ==
  /\ row \in Credentials
  /\ row.uses <= 1
  /\ row.state = "live" => row.uses = 0 /\ ~row.stale
  /\ row.kind # "impersonation" => row.of = row.by

Alone(table) ==
  \A i, j \in LiveRows(table) :
    i # j /\ table[i].kind \notin {"refresh", "code"}
      => ~(table[i].kind = table[j].kind /\ table[i].by = table[j].by)

Sound(table) ==
  /\ table = [i \in Ids |-> table[i]]
  /\ \A i \in Ids : table[i] # NoRow => RowOK(table[i])
  /\ Alone(table)

\* Rows may disappear from a sound table.
LEMMA Shrinks ==
  ASSUME NEW table, Sound(table), NEW new, new = [i \in Ids |-> new[i]],
         \A i \in Ids : new[i] \in {table[i], NoRow}
  PROVE  Sound(new)
BY DEF Sound, Alone, LiveRows

LEMMA Forgetting ==
  ASSUME NEW table, Sound(table)
  PROVE  /\ Store(table) => Sound(creds')
         /\ \A rows : Sound(Without(table, rows))
<1>1. ASSUME Store(table) PROVE Sound(creds')
  <2>1. creds' = [i \in Ids |-> creds'[i]] /\ \A i \in Ids : creds'[i] \in {table[i], NoRow}
    BY <1>1 DEF Store
  <2> QED BY <2>1, Shrinks
<1>2. ASSUME NEW rows PROVE Sound(Without(table, rows))
  <2> DEFINE new == Without(table, rows)
  <2>1. new = [i \in Ids |-> new[i]] /\ \A i \in Ids : new[i] \in {table[i], NoRow}
    BY DEF Without
  <2> HIDE DEF new
  <2>2. Sound(new)
    BY <2>1, Shrinks
  <2> QED BY <2>2 DEF new
<1> QED BY <1>1, <1>2

\* A row that is no longer live constrains no other one.
LEMMA Ending ==
  ASSUME NEW table, Sound(table), NEW new, new = [i \in Ids |-> new[i]], NEW rows,
         \A i \in Ids \ rows : new[i] = table[i],
         \A i \in Ids \cap rows : RowOK(new[i]) /\ new[i].state # "live"
  PROVE  Sound(new)
BY DEF Sound, Alone, LiveRows

LEMMA UsedRow ==
  ASSUME NEW row, RowOK(row), NEW state \in {"rotated", "late", "used"}
  PROVE  LET new == [row EXCEPT !.state = state] IN RowOK(new) /\ new.state = state
BY DEF RowOK, Credentials

LEMMA Revoking ==
  ASSUME NEW table, Sound(table), NEW rows, \A i \in Ids \cap rows : table[i] # NoRow
  PROVE  Sound(Revoke(table, rows))
<1> DEFINE new == Revoke(table, rows)
<1>1. new = [i \in Ids |-> new[i]] /\ \A i \in Ids \ rows : new[i] = table[i]
  BY DEF Revoke
<1>2. ASSUME NEW i \in Ids \cap rows PROVE RowOK(new[i]) /\ new[i].state # "live"
  <2>1. new[i] = [table[i] EXCEPT !.state = "used"] /\ RowOK(table[i])
    BY DEF Revoke, Sound
  <2> QED BY <2>1, UsedRow
<1> HIDE DEF new
<1>3. Sound(new)
  BY <1>1, <1>2, Ending
<1> QED BY <1>3 DEF new

LEMMA Spending ==
  ASSUME NEW table, Sound(table), NEW rows, rows \cap Ids \subseteq LiveRows(table),
         NEW state \in {"rotated", "used"}
  PROVE  /\ Sound(Spend(table, rows, state))
         /\ \A i \in Ids \ rows : Spend(table, rows, state)[i] = table[i]
         /\ \A i \in Ids \cap rows : /\ Spend(table, rows, state)[i] # NoRow
                                     /\ Spend(table, rows, state)[i].state = state
<1> DEFINE new == Spend(table, rows, state)
<1>1. new = [i \in Ids |-> new[i]] /\ \A i \in Ids \ rows : new[i] = table[i]
  BY DEF Spend
<1>2. ASSUME NEW i \in Ids \cap rows PROVE RowOK(new[i]) /\ new[i].state = state /\ new[i] # NoRow
  <2>1. RowOK(table[i]) /\ table[i].state = "live" /\ table[i].uses = 0
    BY DEF Sound, LiveRows, RowOK
  <2>2. new[i] = [table[i] EXCEPT !.state = state, !.uses = 1]
    BY <2>1 DEF Spend
  <2> HIDE DEF new
  <2>3. /\ new[i].state = state /\ new[i].uses = 1 /\ new[i].kind = table[i].kind
        /\ new[i].of = table[i].of /\ new[i].by = table[i].by
    BY <2>1, <2>2 DEF RowOK, Credentials
  <2>4. new[i] \in Credentials
    <3>1. 1 \in 0 .. 2
      OBVIOUS
    <3> QED BY <2>1, <2>2, <3>1 DEF RowOK, Credentials
  <2>5. RowOK(new[i])
    BY <2>1, <2>3, <2>4 DEF RowOK
  <2> QED BY <2>3, <2>5, NoRowAssumption DEF RowOK
<1> HIDE DEF new
<1>3. Sound(new)
  BY <1>1, <1>2, Ending
<1> QED BY <1>1, <1>2, <1>3 DEF new

\* A new row: of its kind and account no other is live.
LEMMA Issuing ==
  ASSUME NEW table, Sound(table), NEW i \in Ids, NEW row, RowOK(row),
         row.kind \in {"refresh", "code"}
         \/ \A j \in LiveRows(table) \ {i} : ~(table[j].kind = row.kind /\ table[j].by = row.by)
  PROVE  Sound([table EXCEPT ![i] = row])
<1> DEFINE new == [table EXCEPT ![i] = row]
<1>1. new = [j \in Ids |-> new[j]] /\ new[i] = row /\ \A j \in Ids \ {i} : new[j] = table[j]
  BY DEF Sound
<1> HIDE DEF new
<1>2. \A j \in Ids : new[j] # NoRow => RowOK(new[j])
  BY <1>1 DEF Sound
<1>3. Alone(new)
  BY <1>1 DEF Sound, Alone, LiveRows
<1>4. Sound(new)
  BY <1>1, <1>2, <1>3 DEF Sound
<1> QED BY <1>4 DEF new

LEMMA NewRow ==
  ASSUME NEW kind \in Kinds, NEW u \in Users
  PROVE  /\ RowOK(Row(kind, u)) /\ Row(kind, u).kind = kind /\ Row(kind, u).by = u
         /\ \A by \in Users : kind = "impersonation" \/ by = u =>
              LET row == [Row(kind, u) EXCEPT !.by = by]
              IN  RowOK(row) /\ row.kind = kind /\ row.by = by
<1> DEFINE new == Row(kind, u)
<1>1. new \in Credentials
  <2>1. 0 \in 0 .. 2
    OBVIOUS
  <2> QED BY <2>1 DEF Row, Credentials
<1>2. /\ new.kind = kind /\ new.of = u /\ new.by = u /\ new.state = "live"
      /\ new.uses = 0 /\ new.stale = FALSE
  BY DEF Row
<1> HIDE DEF new
<1>3. RowOK(new)
  BY <1>1, <1>2 DEF RowOK
<1>4. ASSUME NEW by \in Users, kind = "impersonation" \/ by = u
      PROVE  LET row == [new EXCEPT !.by = by] IN RowOK(row) /\ row.kind = kind /\ row.by = by
  BY <1>1, <1>2, <1>4 DEF RowOK, Credentials
<1> QED BY <1>2, <1>3, <1>4 DEF new

\* Superseding a kind of credential and creating one.
LEMMA Superseding ==
  ASSUME Sound(creds), NEW i \in Ids, NEW kind \in Kinds, NEW u \in Users, NEW by \in Users,
         kind = "impersonation" \/ by = u
  PROVE  Sound(Fresh(i, kind, u, by))
<1> DEFINE table == Revoke(creds, Live(kind, by))
           row == [Row(kind, u) EXCEPT !.by = by]
<1>1. Sound(table)
  BY Revoking DEF Live, LiveRows
<1>2. \A j \in LiveRows(table) : ~(table[j].kind = kind /\ table[j].by = by)
  <2> SUFFICES ASSUME NEW j \in LiveRows(table), table[j].kind = kind, table[j].by = by PROVE FALSE
    OBVIOUS
  <2>1. CASE j \in Live(kind, by)
    <3>1. table[j] = [creds[j] EXCEPT !.state = "used"] /\ RowOK(creds[j])
      BY <2>1 DEF Revoke, Live, LiveRows, Sound
    <3> QED BY <3>1, UsedRow DEF LiveRows
  <2>2. CASE j \notin Live(kind, by)
    BY <2>2 DEF Revoke, Live, LiveRows
  <2> QED BY <2>1, <2>2
<1>3. RowOK(row) /\ row.kind = kind /\ row.by = by
  BY NewRow
<1>4. Fresh(i, kind, u, by) = [table EXCEPT ![i] = row]
  BY DEF Fresh
<1> HIDE DEF table, row
<1>5. Sound([table EXCEPT ![i] = row])
  BY <1>1, <1>2, <1>3, Issuing
<1> QED BY <1>4, <1>5

\* Cutting an account off is harmless when nothing of it is live.
LEMMA Cutting ==
  ASSUME NEW table, Sound(table), NEW u, NEW kinds,
         \A i \in LiveRows(table) : u \notin {table[i].of, table[i].by} \/ table[i].kind \notin kinds
  PROVE  Sound(Cut(table, u, kinds))
         /\ \A i \in Ids : /\ (table[i] = NoRow) <=> (Cut(table, u, kinds)[i] = NoRow)
                           /\ table[i] # NoRow => /\ Cut(table, u, kinds)[i].state = table[i].state
                                                  /\ Cut(table, u, kinds)[i].kind = table[i].kind
                                                  /\ Cut(table, u, kinds)[i].by = table[i].by
<1> DEFINE new == Cut(table, u, kinds)
<1>1. new = [i \in Ids |-> new[i]]
  BY DEF Cut
<1>2. ASSUME NEW i \in Ids, table[i] # NoRow
      PROVE  /\ RowOK(new[i]) /\ new[i].state = table[i].state
             /\ new[i].kind = table[i].kind /\ new[i].by = table[i].by
  <2>1. RowOK(table[i])
    BY <1>2 DEF Sound
  <2>2. CASE new[i] = table[i]
    BY <2>1, <2>2
  <2>3. CASE new[i] = [table[i] EXCEPT !.stale = TRUE] /\ table[i].state # "live"
    BY <2>1, <2>3 DEF RowOK, Credentials
  <2> QED BY <1>2, <2>2, <2>3 DEF Cut, LiveRows
<1>3. \A i \in Ids : table[i] = NoRow => new[i] = NoRow
  BY DEF Cut
<1> HIDE DEF new
<1>4. \A i \in Ids : table[i] # NoRow => new[i] # NoRow
  BY <1>2, NoRowAssumption DEF RowOK
<1>5. Alone(new)
  BY <1>2, <1>3, <1>4 DEF Sound, Alone, LiveRows
<1>6. Sound(new)
  BY <1>1, <1>2, <1>3, <1>5 DEF Sound
<1> QED BY <1>2, <1>3, <1>4, <1>6 DEF new

\* What the lookup of a request has established, while nothing else happens.
Presented == {"refresh", "verify", "setup", "reset", "activation"}
Coded == {"verify", "disable", "stepUp"}
Holds(r) ==
  /\ r.at \in {"password"} \cup Presented \cup Coded => r.who \in Users
  /\ r.at \in Presented => r.what \in LiveRows(creds)
  /\ r.at \in Coded => r.code \in {NoRow} \cup LiveRows(creds)

SoundInv == Inv /\ Sound(creds) /\ \A s \in Slots : Holds(request[s])

LEMMA InitSound == Init => SoundInv
<1> SUFFICES ASSUME Init PROVE SoundInv
  OBVIOUS
<1>1. Sound(creds)
  BY DEF Init, AuthInit, Sound, Alone, LiveRows
<1>2. \A s \in Slots : Holds(request[s])
  BY DEF Init, AuthInit, Holds, Idle, Presented, Coded
<1> QED BY <1>1, <1>2, InitInv DEF SoundInv

LEMMA FreeRow == \A i \in Free : i \in Ids /\ creds[i] = NoRow
BY DEF Free

LEMMA LiveRow ==
  ASSUME Sound(creds), NEW i \in LiveRows(creds)
  PROVE  i \in Ids /\ creds[i] # NoRow /\ RowOK(creds[i]) /\ creds[i].state = "live" /\ ~creds[i].stale
BY DEF LiveRows, Sound, RowOK

\* A session that descends from a live row.
LEMMA NewSession ==
  ASSUME Sound(creds), NEW u \in Users, NEW c \in LiveRows(creds)
  PROVE  RowOK(Session(u, c)) /\ Session(u, c).kind = "refresh"
<1>1. creds[c].stale = FALSE
  BY LiveRow DEF RowOK, Credentials
<1>2. RowOK(Row("refresh", u)) /\ Row("refresh", u).kind = "refresh"
  BY NewRow DEF Kinds
<1>3. Session(u, c) = [Row("refresh", u) EXCEPT !.stale = FALSE]
  BY <1>1 DEF Session
<1> QED BY <1>2, <1>3 DEF RowOK, Credentials

\* A handler that ends between two of its writes.
LEMMA CutShortSound ==
  ASSUME Sound(creds), NEW s \in Slots, Holds(request[s]), CutShort(s)
  PROVE  Sound(creds')
<1> DEFINE u == request[s].who
           c == request[s].what
           code == request[s].code
           Spent(rows) == Spend(creds, rows, "used")
<1>1. ASSUME NEW table, Sound(table), Store(table) PROVE Sound(creds')
  BY <1>1, Forgetting
<1>2. ASSUME NEW rows, rows \cap Ids \subseteq LiveRows(creds), Store(Spent(rows)) PROVE Sound(creds')
  <2>1. Sound(Spent(rows))
    BY <1>2, Spending
  <2> QED BY <1>1, <1>2, <2>1
<1>3. NoRow \notin Ids /\ LiveRows(creds) \subseteq Ids
  BY NoRowAssumption DEF LiveRows
<1>4. CASE Finish(s, "refresh") /\ Store(Spend(creds, {c}, "rotated"))
  <2>1. c \in LiveRows(creds)
    BY <1>4 DEF Finish, Holds, Presented
  <2>2. Sound(Spend(creds, {c}, "rotated"))
    BY <2>1, Spending
  <2> QED BY <1>1, <1>4, <2>2
<1>5. CASE Finish(s, "verify") /\ (Store(Spent({code})) \/ Store(Spent({c, code})))
  <2>1. {c, code} \cap Ids \subseteq LiveRows(creds)
    BY <1>3, <1>5 DEF Finish, Holds, Presented, Coded
  <2> HIDE DEF Spent
  <2> QED BY <1>2, <1>5, <2>1
<1>6. CASE Finish(s, "disable") /\ Store(Spent({code}))
  <2>1. {code} \cap Ids \subseteq LiveRows(creds)
    BY <1>3, <1>6 DEF Finish, Holds, Coded
  <2> QED BY <1>2, <1>6, <2>1
<1>7. CASE Finish(s, "activation") /\ Store(Spent({c}))
  <2>1. {c} \cap Ids \subseteq LiveRows(creds)
    BY <1>3, <1>7 DEF Finish, Holds, Presented
  <2> QED BY <1>2, <1>7, <2>1
<1>8. CASE /\ Finish(s, "setup")
           /\ \/ Store(creds)
              \/ Store(Spent({c}))
              \/ \E i \in Free \cup Live("code", u) : Store([Replaced(u, c) EXCEPT ![i] = Row("code", u)])
  <2>1. u \in Users /\ c \in LiveRows(creds)
    BY <1>8 DEF Finish, Holds, Presented
  <2>2. Sound(Spent({c}))
    BY <2>1, Spending
  <2>3. Sound(Replaced(u, c))
    BY <2>2, Forgetting DEF Replaced
  <2>4. RowOK(Row("code", u)) /\ Row("code", u).kind = "code"
    BY <2>1, NewRow DEF Kinds
  <2>5. ASSUME NEW i \in Free \cup Live("code", u) PROVE Sound([Replaced(u, c) EXCEPT ![i] = Row("code", u)])
    <3>1. i \in Ids
      BY FreeRow DEF Live, LiveRows
    <3> QED BY <2>3, <2>4, <3>1, Issuing
  <2> HIDE DEF Spent
  <2> QED BY <1>1, <1>8, <2>2, <2>5
<1>9. CASE creds' = creds
  BY <1>9
<1> QED BY <1>4, <1>5, <1>6, <1>7, <1>8, <1>9 DEF CutShort

LEMMA HandlerSound ==
  ASSUME Sound(creds), NEW s \in Slots, Holds(request[s]),
         \/ WrongPassword(s) \/ RightPassword(s) \/ Refresh(s)
         \/ CompleteMfaSetup(s) \/ VerifyMfaChallenge(s) \/ StepUpMfa(s) \/ DisableMfa(s)
         \/ CompletePasswordReset(s) \/ ActivateAccount(s) \/ CutShort(s) \/ Abandon(s)
  PROVE  Sound(creds')
<1> DEFINE u == request[s].who
           c == request[s].what
<1>1. ASSUME NEW table, Sound(table), Store(table) PROVE Sound(creds')
  BY <1>1, Forgetting
<1>2. ASSUME NEW table, Sound(table), NEW i \in Ids, NEW row, RowOK(row), row.kind \in {"refresh", "code"}
      PROVE  Sound([table EXCEPT ![i] = row])
  BY <1>2, Issuing
<1>3. NoRow \notin Ids /\ LiveRows(creds) \subseteq Ids
  BY NoRowAssumption DEF LiveRows
<1>4. CASE WrongPassword(s) \/ Abandon(s)
  BY <1>4 DEF WrongPassword, Abandon
<1>5. CASE RightPassword(s)
  <2>1. u \in Users
    BY <1>5 DEF RightPassword, Holds
  <2>2. PICK i \in Free : Store(IF account[u].gone THEN creds
                                ELSE IF RequiresMfa(u) THEN Challenge(i, u)
                                ELSE [creds EXCEPT ![i] = Row("refresh", u)])
    BY <1>5 DEF RightPassword
  <2>3. i \in Ids /\ Sound(Challenge(i, u))
    BY <2>1, FreeRow, Superseding DEF Challenge, Kinds
  <2>4. RowOK(Row("refresh", u)) /\ Row("refresh", u).kind = "refresh"
    BY <2>1, NewRow DEF Kinds
  <2>5. Sound([creds EXCEPT ![i] = Row("refresh", u)])
    BY <1>2, <2>3, <2>4
  <2> QED BY <1>1, <2>2, <2>3, <2>5
<1>6. CASE Refresh(s)
  <2> DEFINE table == Spend(creds, {c}, "rotated")
  <2>1. u \in Users /\ c \in LiveRows(creds)
    BY <1>6 DEF Refresh, Finish, Holds, Presented
  <2>2. PICK i \in Free : Store([table EXCEPT ![i] = Session(u, c)])
    BY <1>6 DEF Refresh
  <2>3. Sound(table)
    BY <2>1, Spending
  <2>4. RowOK(Session(u, c)) /\ Session(u, c).kind = "refresh"
    BY <2>1, NewSession
  <2> HIDE DEF table
  <2>5. Sound([table EXCEPT ![i] = Session(u, c)])
    BY <1>2, <2>3, <2>4, FreeRow
  <2> QED BY <1>1, <2>2, <2>5
<1>7. CASE VerifyMfaChallenge(s)
  <2> DEFINE table == Spend(creds, {c, request[s].code}, "used")
  <2>1. u \in Users /\ c \in LiveRows(creds) /\ request[s].code \in {NoRow} \cup LiveRows(creds)
    BY <1>7 DEF VerifyMfaChallenge, Finish, Holds, Presented, Coded
  <2>2. PICK i \in Free : Store([table EXCEPT ![i] = Session(u, c)])
    BY <1>7 DEF VerifyMfaChallenge
  <2>3. Sound(table)
    BY <1>3, <2>1, Spending
  <2>4. RowOK(Session(u, c)) /\ Session(u, c).kind = "refresh"
    BY <2>1, NewSession
  <2> HIDE DEF table
  <2>5. Sound([table EXCEPT ![i] = Session(u, c)])
    BY <1>2, <2>3, <2>4, FreeRow
  <2> QED BY <1>1, <2>2, <2>5
<1>8. CASE CompleteMfaSetup(s)
  <2> DEFINE spent == Spend(creds, {c}, "used")
             kept == Without(spent, {i \in Rows : creds[i].kind = "code" /\ creds[i].of = u})
  <2>1. u \in Users /\ c \in LiveRows(creds)
    BY <1>8 DEF CompleteMfaSetup, Finish, Holds, Presented
  <2>2. PICK i, j \in Free \cup Live("code", u) :
          Store([kept EXCEPT ![i] = Row("code", u),
                             ![j] = IF account[u].gone THEN NoRow ELSE Session(u, c)])
    BY <1>8 DEF CompleteMfaSetup, Replaced
  <2>3. Sound(spent)
    BY <2>1, Spending
  <2>4. Sound(kept)
    BY <2>3, Forgetting
  <2>5. RowOK(Session(u, c)) /\ Session(u, c).kind = "refresh"
    BY <2>1, NewSession
  <2>6. RowOK(Row("code", u)) /\ Row("code", u).kind = "code"
    BY <2>1, NewRow DEF Kinds
  <2>7. i \in Ids /\ j \in Ids
    BY FreeRow DEF Live, LiveRows
  <2> HIDE DEF spent, kept
  <2> DEFINE first == [kept EXCEPT ![i] = Row("code", u)]
  <2>8. Sound(first)
    BY <1>2, <2>4, <2>6, <2>7
  <2>9. Store([first EXCEPT ![j] = IF account[u].gone THEN NoRow ELSE Session(u, c)])
    BY <2>2
  <2> HIDE DEF first
  <2>10. Sound([first EXCEPT ![j] = Session(u, c)])
    BY <1>2, <2>5, <2>7, <2>8
  <2>11. Sound([first EXCEPT ![j] = NoRow])
    <3> DEFINE new == [first EXCEPT ![j] = NoRow]
    <3>1. new = [k \in Ids |-> new[k]] /\ \A k \in Ids : new[k] \in {first[k], NoRow}
      BY <2>7, <2>8 DEF Sound
    <3> HIDE DEF new
    <3>2. Sound(new)
      BY <2>8, <3>1, Shrinks
    <3> QED BY <3>2 DEF new
  <2> QED BY <1>1, <2>9, <2>10, <2>11
<1>9. CASE StepUpMfa(s)
  <2>1. request[s].code \in {NoRow} \cup LiveRows(creds)
    BY <1>9 DEF StepUpMfa, Finish, Holds, Coded
  <2>2. Sound(Spend(creds, {request[s].code}, "used"))
    BY <1>3, <2>1, Spending
  <2> QED BY <1>1, <1>9, <2>2 DEF StepUpMfa
<1>10. CASE DisableMfa(s)
  <2> DEFINE spent == Spend(creds, {request[s].code}, "used")
             ended == Live("setup", u) \cup Live("verify", u)
  <2>1. request[s].code \in {NoRow} \cup LiveRows(creds)
    BY <1>10 DEF DisableMfa, Finish, Holds, Coded
  <2>2. /\ Sound(spent) /\ \A i \in Ids \ {request[s].code} : spent[i] = creds[i]
        /\ \A i \in Ids \cap {request[s].code} : spent[i] # NoRow
    BY <1>3, <2>1, Spending
  <2>3. \A i \in Ids \cap ended : creds[i] # NoRow
    BY DEF Live, LiveRows
  <2>4. Store(Without(Revoke(spent, ended), {i \in Rows : creds[i].kind = "code" /\ creds[i].of = u}))
    BY <1>10 DEF DisableMfa
  <2> HIDE DEF spent, ended
  <2>5. \A i \in Ids \cap ended : spent[i] # NoRow
    BY <2>2, <2>3
  <2>6. Sound(Revoke(spent, ended))
    BY <2>2, <2>5, Revoking
  <2>7. Sound(Without(Revoke(spent, ended), {i \in Rows : creds[i].kind = "code" /\ creds[i].of = u}))
    BY <2>6, Forgetting
  <2> QED BY <1>1, <2>4, <2>7
<1>11. CASE CompletePasswordReset(s)
  <2> DEFINE spent == Spend(creds, {c}, "used")
             ended == Live("refresh", u)
             table == Revoke(spent, ended)
  <2>1. u \in Users /\ c \in LiveRows(creds)
    BY <1>11 DEF CompletePasswordReset, Finish, Holds, Presented
  <2>2. /\ Sound(spent) /\ \A i \in Ids \ {c} : spent[i] = creds[i]
        /\ \A i \in Ids \cap {c} : spent[i] # NoRow /\ spent[i].state = "used"
    BY <2>1, Spending
  <2>3. \A i \in Ids \cap ended : spent[i] # NoRow
    BY <2>2 DEF Live, LiveRows
  <2>4. Store(Cut(table, u, {"refresh"}))
    BY <1>11 DEF CompletePasswordReset
  <2> HIDE DEF spent
  <2>5. Sound(table)
    BY <2>2, <2>3, Revoking
  <2>6. ASSUME NEW i \in LiveRows(table), table[i].kind = "refresh", u \in {table[i].of, table[i].by}
        PROVE  FALSE
    <3>1. i \in Ids /\ table[i] # NoRow /\ table[i].state = "live" /\ RowOK(table[i])
      BY <2>5 DEF LiveRows, Sound
    <3>2. i \notin ended
      <4>1. ASSUME i \in ended PROVE FALSE
        <5>1. table[i] = [spent[i] EXCEPT !.state = "used"] /\ RowOK(spent[i])
          BY <2>2, <2>3, <3>1, <4>1 DEF Revoke, Sound
        <5> QED BY <3>1, <5>1, UsedRow
      <4> QED BY <4>1
    <3>3. table[i] = spent[i]
      BY <3>1, <3>2 DEF Revoke
    <3>4. i # c /\ spent[i] = creds[i]
      BY <2>2, <3>1, <3>3
    <3>5. creds[i].by = u /\ creds[i].kind = "refresh" /\ i \in LiveRows(creds)
      BY <2>6, <3>1, <3>3, <3>4 DEF RowOK, LiveRows
    <3> QED BY <3>2, <3>5 DEF Live
  <2> HIDE DEF table
  <2>7. Sound(Cut(table, u, {"refresh"}))
    BY <2>5, <2>6, Cutting
  <2> QED BY <1>1, <2>4, <2>7
<1>12. CASE ActivateAccount(s)
  <2> DEFINE spent == Spend(creds, {c}, "used")
             kind == IF account[u].mfa THEN "verify" ELSE "setup"
             ended == Live(kind, u)
             table == Revoke(spent, ended)
  <2>1. u \in Users /\ c \in LiveRows(creds)
    BY <1>12 DEF ActivateAccount, Finish, Holds, Presented
  <2>2. PICK i \in Free : Store(IF account[u].gone THEN spent
                                ELSE IF RequiresMfa(u) THEN [table EXCEPT ![i] = Row(kind, u)]
                                ELSE [spent EXCEPT ![i] = Row("refresh", u)])
    BY <1>12 DEF ActivateAccount
  <2>3. /\ Sound(spent) /\ \A j \in Ids \ {c} : spent[j] = creds[j]
        /\ \A j \in Ids \cap {c} : spent[j] # NoRow /\ spent[j].state = "used"
    BY <2>1, Spending
  <2>4. i \in Ids /\ kind \in Kinds /\ kind \in {"verify", "setup"}
    BY FreeRow DEF Kinds
  <2>5. \A j \in Ids \cap ended : spent[j] # NoRow
    BY <2>3 DEF Live, LiveRows
  <2> HIDE DEF spent
  <2>6. Sound(table)
    BY <2>3, <2>5, Revoking
  <2>7. ASSUME NEW j \in LiveRows(table), table[j].kind = kind, table[j].by = u PROVE FALSE
    <3>1. j \in Ids /\ table[j] # NoRow /\ table[j].state = "live"
      BY DEF LiveRows
    <3>2. j \notin ended
      <4>1. ASSUME j \in ended PROVE FALSE
        <5>1. table[j] = [spent[j] EXCEPT !.state = "used"] /\ RowOK(spent[j])
          BY <2>3, <2>5, <3>1, <4>1 DEF Revoke, Sound
        <5> QED BY <3>1, <5>1, UsedRow
      <4> QED BY <4>1
    <3>3. table[j] = spent[j]
      BY <3>1, <3>2 DEF Revoke
    <3>4. spent[j] = creds[j]
      BY <2>3, <3>1, <3>3
    <3> QED BY <2>7, <3>1, <3>2, <3>3, <3>4 DEF Live, LiveRows
  <2>8. /\ RowOK(Row(kind, u)) /\ Row(kind, u).kind = kind /\ Row(kind, u).by = u
        /\ RowOK(Row("refresh", u)) /\ Row("refresh", u).kind = "refresh"
    BY <2>1, <2>4, NewRow DEF Kinds
  <2> HIDE DEF table, kind
  <2>9. Sound([table EXCEPT ![i] = Row(kind, u)])
    BY <2>4, <2>6, <2>7, <2>8, Issuing
  <2>10. Sound([spent EXCEPT ![i] = Row("refresh", u)])
    BY <1>2, <2>3, <2>4, <2>8
  <2> QED BY <1>1, <2>2, <2>3, <2>9, <2>10
<1>13. CASE CutShort(s)
  BY <1>13, CutShortSound
<1> QED BY <1>4, <1>5, <1>6, <1>7, <1>8, <1>9, <1>10, <1>11, <1>12, <1>13

\* What happens without a request in progress: requests of one step, staff, time.
LEMMA AtOnceSound ==
  ASSUME Sound(creds),
         \/ \E i \in Ids : ReuseDetected(i) \/ Logout(i) \/ InitializeMfaSetup(i)
                             \/ StopImpersonation(i) \/ TokenAges(i) \/ Purge(i)
         \/ \E u \in Members : RequestPasswordReset(u) \/ UpdateCanvasser(u) \/ LockAges(u)
                               \/ ArchiveDeleted(u)
         \/ \E actor \in Admins, u \in FieldUsers : StartImpersonation(actor, u)
         \/ \E u \in FieldUsers, role \in {"supervisor", "canvasser"} :
              InviteCanvasser(u, role) \/ CreateCanvasser(u, role)
         \/ \E u \in FieldUsers, status \in {"archived", "deleted"} : CloseFieldUser(u, status)
  PROVE  Sound(creds')
<1>1. ASSUME NEW table, Sound(table), Store(table) PROVE Sound(creds')
  BY <1>1, Forgetting
<1>2. ASSUME NEW rows, \A i \in Ids \cap rows : creds[i] # NoRow, Store(Revoke(creds, rows))
      PROVE  Sound(creds')
  <2>1. Sound(Revoke(creds, rows))
    BY <1>2, Revoking
  <2> QED BY <1>1, <1>2, <2>1
<1>3. ASSUME NEW i \in Free, NEW kind \in Kinds, NEW u \in Users, NEW by \in Users,
             kind = "impersonation" \/ by = u, Store(Fresh(i, kind, u, by))
      PROVE  Sound(creds')
  <2>1. Sound(Fresh(i, kind, u, by))
    BY <1>3, FreeRow, Superseding
  <2> QED BY <1>1, <1>3, <2>1
<1>4. ASSUME NEW i \in Ids, ReuseDetected(i) PROVE Sound(creds')
  BY <1>2, <1>4 DEF ReuseDetected, Live, LiveRows
<1>5. ASSUME NEW i \in Ids, Logout(i) \/ StopImpersonation(i) PROVE Sound(creds')
  BY <1>2, <1>5 DEF Logout, StopImpersonation, LiveRows
<1>6. ASSUME NEW i \in Ids, TokenAges(i) PROVE Sound(creds')
  <2>1. CASE Store(Revoke(creds, {i}))
    BY <1>2, <1>6, <2>1 DEF TokenAges, Rows
  <2>2. CASE creds[i].state = "rotated" /\ Store([creds EXCEPT ![i].state = "late"])
    <3> DEFINE new == [creds EXCEPT ![i].state = "late"]
    <3>1. RowOK(creds[i])
      BY <1>6 DEF TokenAges, Rows, Sound
    <3>2. /\ new = [j \in Ids |-> new[j]] /\ new[i] = [creds[i] EXCEPT !.state = "late"]
          /\ \A j \in Ids \ {i} : new[j] = creds[j]
      BY DEF Sound
    <3>3. RowOK(new[i]) /\ new[i].state # "live"
      BY <3>1, <3>2, UsedRow
    <3> HIDE DEF new
    <3>4. Sound(new)
      <4>1. PICK rows : rows = {i}
        OBVIOUS
      <4>2. /\ \A j \in Ids \ rows : new[j] = creds[j]
            /\ \A j \in Ids \cap rows : RowOK(new[j]) /\ new[j].state # "live"
        BY <3>2, <3>3, <4>1
      <4> QED BY <3>2, <4>2, Ending
    <3> QED BY <1>1, <2>2, <3>4 DEF new
  <2> QED BY <1>6, <2>1, <2>2 DEF TokenAges
<1>7. ASSUME NEW i \in Ids, Purge(i) PROVE Sound(creds')
  <2>1. Sound(Without(creds, {i}))
    BY Forgetting
  <2> QED BY <1>1, <1>7, <2>1 DEF Purge
<1>8. ASSUME NEW u \in Members, RequestPasswordReset(u) PROVE Sound(creds')
  BY <1>3, <1>8, UsersAssumption DEF RequestPasswordReset, Kinds
<1>9. ASSUME NEW actor \in Admins, NEW u \in FieldUsers, StartImpersonation(actor, u) PROVE Sound(creds')
  BY <1>3, <1>9 DEF StartImpersonation, Kinds, Users
<1>10. ASSUME NEW u \in FieldUsers, NEW role, InviteCanvasser(u, role) PROVE Sound(creds')
  BY <1>3, <1>10 DEF InviteCanvasser, Kinds, Users
<1>11. ASSUME creds' = creds PROVE Sound(creds')
  BY <1>11
<1> QED BY <1>4, <1>5, <1>6, <1>7, <1>8, <1>9, <1>10, <1>11 DEF InitializeMfaSetup, UpdateCanvasser, LockAges,
   ArchiveDeleted, CreateCanvasser, CloseFieldUser, SetAccount

\* An execution leaves nothing live of the account, so the new link is alone.
LEMMA CutOffSound ==
  ASSUME Sound(creds), NEW u
  PROVE  /\ Sound(CutOff(u))
         /\ \A i \in LiveRows(CutOff(u)) : CutOff(u)[i].by # u
<1> DEFINE revoked == Revoke(creds, Artifacts(u))
           table == Without(revoked, {i \in Rows : creds[i].kind = "code" /\ creds[i].of = u})
           cut == Cut(table, u, Kinds)
<1>1. \A i \in Ids \cap Artifacts(u) : creds[i] # NoRow
  BY DEF Artifacts, LiveRows
<1>2. Sound(revoked)
  BY <1>1, Revoking
<1>3. Sound(table)
  BY <1>2, Forgetting
<1>4. ASSUME NEW i \in LiveRows(table) PROVE u \notin {table[i].of, table[i].by}
  <2>1. i \in Ids /\ table[i] # NoRow /\ table[i].state = "live"
    BY DEF LiveRows
  <2>2. table[i] = revoked[i] /\ ~(i \in Rows /\ creds[i].kind = "code" /\ creds[i].of = u)
    BY <2>1 DEF Without
  <2>3. i \notin Artifacts(u)
    <3>1. ASSUME i \in Artifacts(u) PROVE FALSE
      <4>1. revoked[i] = [creds[i] EXCEPT !.state = "used"] /\ RowOK(creds[i])
        BY <1>1, <2>1, <3>1 DEF Revoke, Sound
      <4> QED BY <2>1, <2>2, <4>1, UsedRow
    <3> QED BY <3>1
  <2>4. table[i] = creds[i]
    BY <2>1, <2>2, <2>3 DEF Revoke
  <2>5. i \in LiveRows(creds) /\ i \in Rows /\ RowOK(creds[i])
    BY <2>1, <2>4 DEF LiveRows, Rows, Sound
  <2> QED BY <2>2, <2>3, <2>4, <2>5 DEF Artifacts, RowOK
<1> HIDE DEF table
<1>5. /\ Sound(cut)
      /\ \A i \in Ids : /\ (table[i] = NoRow) <=> (cut[i] = NoRow)
                        /\ table[i] # NoRow => /\ cut[i].state = table[i].state
                                               /\ cut[i].by = table[i].by
  BY <1>3, <1>4, Cutting
<1>6. \A i \in LiveRows(cut) : cut[i].by # u
  BY <1>4, <1>5 DEF LiveRows
<1>7. cut = CutOff(u)
  BY DEF CutOff, table
<1> QED BY <1>5, <1>6, <1>7

LEMMA ApproveSound ==
  ASSUME Inv, Sound(creds), NEW s \in Slots, ApproveCase(s)
  PROVE  Sound(creds')
<1> DEFINE u == request[s].who
           cut == CutOff(u)
<1>1. u \in Users
  BY RequestIsOK DEF ApproveCase, RequestOK
<1>2. Sound(cut) /\ \A i \in LiveRows(cut) : cut[i].by # u
  BY CutOffSound
<1>3. RowOK(Row("reset", u)) /\ Row("reset", u).by = u
  BY <1>1, NewRow DEF Kinds
<1>4. Store(cut) \/ \E i \in Free : Store([cut EXCEPT ![i] = Row("reset", u)])
  BY DEF ApproveCase
<1> HIDE DEF cut
<1>5. ASSUME NEW i \in Free PROVE Sound([cut EXCEPT ![i] = Row("reset", u)])
  BY <1>2, <1>3, FreeRow, Issuing
<1>6. ASSUME NEW table, Sound(table), Store(table) PROVE Sound(creds')
  BY <1>6, Forgetting
<1> QED BY <1>2, <1>4, <1>5, <1>6

\* The lookups of a request; they change nothing else.
LEMMA LookupHolds ==
  ASSUME Sound(creds), NEW s \in Slots,
         \/ \E u \in Members :
              BeginPassword(s, u) \/ BeginFactor(s, "disable", u) \/ BeginFactor(s, "stepUp", u)
         \/ \E i \in Ids, kind \in Presented : BeginCredential(s, kind, i)
  PROVE  /\ creds' = creds
         /\ \E r : request' = [request EXCEPT ![s] = r] /\ Holds(r)
<1>1. ASSUME NEW u \in Members, BeginPassword(s, u) PROVE \E r : Send(s, r) /\ Holds(r)
  <2> DEFINE r == [Asking("password", u) EXCEPT !.tries = account[u].attempts]
  <2>1. Holds(r)
    BY UsersAssumption DEF Holds, Asking, Presented, Coded
  <2> QED BY <1>1, <2>1 DEF BeginPassword
<1>2. ASSUME NEW u \in Members, NEW op \in {"disable", "stepUp"}, BeginFactor(s, op, u)
      PROVE  \E r : Send(s, r) /\ Holds(r)
  <2>1. PICK code \in Codes(u) : Send(s, [Asking(op, u) EXCEPT !.code = code])
    BY <1>2 DEF BeginFactor
  <2> DEFINE r == [Asking(op, u) EXCEPT !.code = code]
  <2>2. r.at = op /\ r.who = u /\ r.code = code
    BY DEF Asking
  <2>3. Holds(r)
    BY <2>2, UsersAssumption DEF Holds, Presented, Coded, Codes, Live
  <2> QED BY <2>1, <2>3
<1>3. ASSUME NEW i \in Ids, NEW kind \in Presented, BeginCredential(s, kind, i)
      PROVE  \E r : Send(s, r) /\ Holds(r)
  <2>1. PICK code : /\ code \in (IF kind = "verify" THEN Codes(creds[i].of) ELSE {NoRow})
                    /\ Send(s, [Asking(kind, creds[i].of) EXCEPT !.what = i, !.code = code])
    BY <1>3 DEF BeginCredential
  <2> DEFINE r == [Asking(kind, creds[i].of) EXCEPT !.what = i, !.code = code]
  <2>2. r.at = kind /\ r.who = creds[i].of /\ r.what = i /\ r.code = code
    BY DEF Asking
  <2>3. i \in LiveRows(creds) /\ creds[i].of \in Users
    BY <1>3, LiveRow DEF BeginCredential, Usable, RowOK, Credentials
  <2>4. code \in {NoRow} \cup LiveRows(creds)
    BY <2>1 DEF Codes, Live
  <2>5. Holds(r)
    BY <2>2, <2>3, <2>4 DEF Holds
  <2> QED BY <2>1, <2>5
<1>4. \E r : Send(s, r) /\ Holds(r)
  BY <1>1, <1>2, <1>3
<1> QED BY <1>4 DEF Send

LEMMA StepSound ==
  ASSUME NEW only, Slots = {only}
  PROVE  SoundInv /\ [SerialNext]_vars => SoundInv'
<1> SUFFICES ASSUME SoundInv, [SerialNext]_vars PROVE SoundInv'
  OBVIOUS
<1>0. /\ Inv /\ Inv' /\ Sound(creds) /\ Holds(request[only]) /\ DOMAIN request = {only}
  <2>1. Inv'
    BY StepInv DEF SoundInv, SerialNext
  <2> QED BY <2>1 DEF SoundInv, Inv, RequestsOK
<1>1. ASSUME NEW r, r.at \notin {"password"} \cup Presented \cup Coded PROVE Holds(r)'
  BY <1>1 DEF Holds, Coded, Presented
<1>2. ASSUME NEW r, Holds(r), creds' = creds PROVE Holds(r)'
  BY <1>2 DEF Holds
<1>3. ASSUME NEW r, request' = [request EXCEPT ![only] = r], Sound(creds'), Holds(r)' PROVE SoundInv'
  BY <1>0, <1>3 DEF SoundInv
<1>4. ASSUME NEW s \in Slots, Done(s), Sound(creds') PROVE SoundInv'
  BY <1>1, <1>3, <1>4 DEF Done, Idle, Presented, Coded
<1>5. ASSUME request' = request, Sound(creds') PROVE SoundInv'
  <2>1. CASE UNCHANGED vars
    BY <1>0, <1>2, <1>5, <2>1 DEF SoundInv, vars
  <2>2. CASE request[only] = Idle
    <3>1. Holds(Idle)'
      BY <1>1 DEF Idle, Presented, Coded
    <3> QED BY <1>0, <1>5, <2>2, <3>1 DEF SoundInv
  <2> QED BY <1>5, <2>1, <2>2 DEF SerialNext
<1>6. CASE UNCHANGED vars
  BY <1>0, <1>5, <1>6 DEF vars
<1>7. ASSUME NEW s \in Slots,
             \/ WrongPassword(s) \/ RightPassword(s) \/ Refresh(s)
             \/ CompleteMfaSetup(s) \/ VerifyMfaChallenge(s) \/ StepUpMfa(s) \/ DisableMfa(s)
             \/ CompletePasswordReset(s) \/ ActivateAccount(s) \/ CutShort(s) \/ Abandon(s)
      PROVE  SoundInv'
  <2>1. Sound(creds')
    BY <1>0, <1>7, HandlerSound
  <2>2. Done(s)
    BY <1>7 DEF WrongPassword, RightPassword, Refresh, CompleteMfaSetup, VerifyMfaChallenge,
       StepUpMfa, DisableMfa, CompletePasswordReset, ActivateAccount, CutShort, Abandon, Finish
  <2> QED BY <1>4, <2>1, <2>2
<1>8. ASSUME NEW s \in Slots,
             \/ \E u \in Members :
                  BeginPassword(s, u) \/ BeginFactor(s, "disable", u) \/ BeginFactor(s, "stepUp", u)
             \/ \E i \in Ids, kind \in Presented : BeginCredential(s, kind, i)
      PROVE  SoundInv'
  <2>1. creds' = creds /\ \E r : request' = [request EXCEPT ![s] = r] /\ Holds(r)
    BY <1>0, <1>8, LookupHolds
  <2> QED BY <1>0, <1>2, <1>3, <2>1
<1>9. ASSUME \/ \E i \in Ids : ReuseDetected(i) \/ Logout(i) \/ InitializeMfaSetup(i)
                                 \/ StopImpersonation(i) \/ TokenAges(i) \/ Purge(i)
             \/ \E u \in Members : RequestPasswordReset(u) \/ UpdateCanvasser(u) \/ LockAges(u)
                                   \/ ArchiveDeleted(u)
             \/ \E actor \in Admins, u \in FieldUsers : StartImpersonation(actor, u)
             \/ \E u \in FieldUsers, role \in {"supervisor", "canvasser"} :
                  InviteCanvasser(u, role) \/ CreateCanvasser(u, role)
             \/ \E u \in FieldUsers, status \in {"archived", "deleted"} : CloseFieldUser(u, status)
      PROVE  SoundInv'
  <2>1. Sound(creds')
    BY <1>0, <1>9, AtOnceSound
  <2>2. request' = request
    BY <1>9 DEF ReuseDetected, Logout, InitializeMfaSetup, StopImpersonation, TokenAges, Purge,
       RequestPasswordReset, UpdateCanvasser, LockAges, ArchiveDeleted, StartImpersonation,
       InviteCanvasser, CreateCanvasser, CloseFieldUser, SetAccount
  <2> QED BY <1>5, <2>1, <2>2
<1>10. CASE AuthNext
  BY <1>7, <1>8, <1>9, <1>10 DEF AuthNext, Presented
<1>11. ASSUME NEW s \in Slots, NEW at \in Types \cup {"reject", "approve", "expire"}, NEW u, NEW a, NEW k,
              Ask(s, at, u, a, k)
       PROVE  SoundInv'
  <2> DEFINE r == [Asking(at, u) EXCEPT !.by = a, !.what = k]
  <2>1. request' = [request EXCEPT ![only] = r] /\ creds' = creds
    BY <1>11 DEF Ask, Send
  <2>2. r.at = at
    BY DEF Asking
  <2>3. Holds(r)'
    BY <1>1, <2>2 DEF Types, Presented, Coded
  <2> QED BY <1>0, <1>3, <2>1, <2>3
<1>12. ASSUME NEW s \in Slots, OpenCase(s) \/ RejectCase(s) \/ ExpireCase(s) \/ DeliverNotification(s)
       PROVE  SoundInv'
  BY <1>0, <1>4, <1>12 DEF OpenCase, RejectCase, ExpireCase, DeliverNotification
<1>13. ASSUME NEW s \in Slots, ApproveCase(s) PROVE SoundInv'
  <2>1. Sound(creds')
    BY <1>0, <1>13, ApproveSound
  <2>2. CASE Done(s)
    BY <1>4, <2>1, <2>2
  <2>3. CASE request' = [request EXCEPT ![s].at = "notify"]
    <3>1. "at" \in DOMAIN request[only]
      BY <1>0, <1>13, RequestIsOK DEF RequestOK, Deciding, ApproveCase
    <3>2. PICK r : r.at = "notify" /\ request' = [request EXCEPT ![only] = r]
      BY <2>3, <3>1
    <3>3. Holds(r)'
      BY <1>1, <3>2 DEF Presented, Coded
    <3> QED BY <1>3, <2>1, <3>2, <3>3
  <2> QED BY <1>13, <2>2, <2>3 DEF ApproveCase
<1>14. CASE RecoveryNext
  <2>1. ASSUME NEW k \in Opened, CaseAges(k) PROVE SoundInv'
    BY <1>0, <1>5, <2>1 DEF CaseAges
  <2>2. ASSUME NEW s \in Slots, NEW a \in Users, NEW u \in Users, NEW type \in Types, BeginCase(s, type, a, u)
        PROVE  SoundInv'
    BY <1>11, <2>2 DEF BeginCase
  <2>3. ASSUME NEW s \in Slots, NEW a \in Users, NEW k \in Opened,
               BeginReject(s, a, k) \/ BeginApprove(s, a, k) \/ BeginExpire(s, a, k)
        PROVE  SoundInv'
    BY <1>11, <2>3 DEF BeginReject, BeginApprove, BeginExpire
  <2> QED BY <1>12, <1>13, <1>14, <2>1, <2>2, <2>3 DEF RecoveryNext
<1> QED BY <1>6, <1>10, <1>14 DEF SerialNext, Next

(* A service that handles one request at a time accepts each token, link,  *)
(* challenge and backup code at most once, and never after it was          *)
(* superseded or revoked.  (Two uses at once both succeed.)                *)
THEOREM CredentialsUsedOnce == ASSUME NEW only, Slots = {only} PROVE SerialSpec => []UsedOnce
<1>1. SoundInv => UsedOnce
  BY DEF SoundInv, Sound, RowOK, UsedOnce, Rows
<1> QED BY InitSound, StepSound, <1>1, PTL DEF SerialSpec

(* Then a password reset ends every session begun before it, and an        *)
(* executed recovery everything the account held.                          *)
THEOREM CutIsFinal == ASSUME NEW only, Slots = {only} PROVE SerialSpec => []NothingOutlivesACut
<1>1. SoundInv => NothingOutlivesACut
  BY DEF SoundInv, Sound, RowOK, NothingOutlivesACut, LiveRows
<1> QED BY InitSound, StepSound, <1>1, PTL DEF SerialSpec

(* Then no account has two unused links or challenges of a kind, and no    *)
(* admin two open impersonations.                                          *)
THEOREM AtMostOneOutstanding == ASSUME NEW only, Slots = {only} PROVE SerialSpec => []OneOutstanding
<1>1. SoundInv => OneOutstanding
  BY DEF SoundInv, Sound, Alone, OneOutstanding
<1> QED BY InitSound, StepSound, <1>1, PTL DEF SerialSpec

----------------------------------------------------------------------------
\* The dashboard, in one tab

\* The own session of an impersonator is the one kept aside.
Kept(x) == x # NoOne /\ x.by # NoOne => Page!KeptAside(x.by)

\* The session kept aside is an own one; nobody is signed in without a name.
Aside == original # Page!Empty => /\ original.token # NoOne /\ original.token.by = NoOne
                                  /\ original.user # NoOne /\ original.user.by = NoOne
Named(session) == session.token # NoOne => session.user # NoOne

StoredOK == Named(stored) /\ Kept(stored.token) /\ Kept(stored.user)
TabOK(t) == /\ Named(tab[t].session)
            /\ tab[t].ready => Kept(tab[t].session.user)
            /\ t \in dialog => tab[t].ready

\* What the page knew when it sent a call; the stored session is checked by a
\* page that is not ready, and one that is has only sent the others.
CallOK(t, k) ==
  /\ k.op \in {"me", "stepUp", "start"} => k.from.token # NoOne
  /\ k.op \in {"login", "start"} => k.about \in Page!Accounts
  /\ k.op = "start" => k.from.user # NoOne /\ k.from.user.by = NoOne
  /\ k.op = "me" => ~tab[t].ready /\ Kept(k.from.token)
  /\ k.op \in {"stepUp", "start", "stop"} => tab[t].ready

CallsOK(t) == /\ \A c \in CallIds : CallOK(t, call[t][c])
              /\ \A c, d \in CallIds : call[t][c].op = "me" /\ call[t][d].op = "me" => c = d

PagesInv == /\ Page!DashboardOK /\ Aside /\ StoredOK
            /\ \A t \in Tabs : TabOK(t) /\ CallsOK(t)

LEMMA SomeoneIs ==
  /\ NoOne \notin Admins /\ \A x \in Page!Identities : x # NoOne
  /\ \A u \in Page!Accounts :
       Page!Own(u) \in Page!Identities /\ Page!Own(u) # NoOne /\ Page!Own(u).by = NoOne
  /\ Page!Idle.op = "idle" /\ Page!Idle \notin Page!Calls /\ Page!Empty \in Page!Session
BY NoOneAssumption DEF Page!Accounts, Page!Identities, Page!Own, Page!Idle, Page!Calls,
   Page!Session, Page!Empty

\* A call sent by a page, of a kind it may send.
LEMMA SendKeeps ==
  ASSUME NEW only, Tabs = {only}, PagesInv, NEW op, NEW about \in Page!Accounts \cup {NoOne},
         Page!Send(only, op, about), UNCHANGED <<stored, original, tab, dialog>>,
         op \in {"login", "stepUp", "start", "stop"},
         op \in {"stepUp", "start"} => tab[only].session.token # NoOne,
         op \in {"login", "start"} => about \in Page!Accounts,
         op = "start" => tab[only].session.user # NoOne /\ tab[only].session.user.by = NoOne,
         op # "login" => tab[only].ready
  PROVE  PagesInv'
<1>1. PICK c \in CallIds : call' = [call EXCEPT ![only][c] = [op |-> op, from |-> tab[only].session,
                                                         about |-> about]]
  BY DEF Page!Send
<1> DEFINE k == [op |-> op, from |-> tab[only].session, about |-> about]
<1>2. k \in Page!Calls /\ k.op = op /\ k.from = tab[only].session /\ k.about = about
  BY DEF Page!Calls, PagesInv, Page!DashboardOK
<1>3. /\ call'[only] = [call[only] EXCEPT ![c] = k]
      /\ call' \in [Tabs -> [CallIds -> Page!Calls \cup {Page!Idle}]]
      /\ call[only] \in [CallIds -> Page!Calls \cup {Page!Idle}]
  BY <1>1, <1>2 DEF PagesInv, Page!DashboardOK
<1> HIDE DEF k
<1>4. Page!DashboardOK' /\ Aside' /\ StoredOK' /\ TabOK(only)'
  BY <1>3 DEF PagesInv, Page!DashboardOK, Aside, StoredOK, TabOK, Kept, Page!KeptAside
<1>5. ASSUME NEW d \in CallIds PROVE CallOK(only, call[only][d])'
  <2>1. CASE d = c
    BY <1>2, <1>3, <2>1 DEF CallOK
  <2>2. CASE d # c
    BY <1>3, <2>2 DEF PagesInv, CallsOK, CallOK, Kept, Page!KeptAside
  <2> QED
    BY <2>1, <2>2
<1>6. ASSUME NEW d \in CallIds, NEW e \in CallIds, call'[only][d].op = "me", call'[only][e].op = "me"
      PROVE  d = e
  BY <1>2, <1>3, <1>6 DEF PagesInv, CallsOK
<1> QED
  BY <1>4, <1>5, <1>6 DEF PagesInv, CallsOK

\* A call that ends.  If the page is ready then, no other call checks the
\* stored session; if it is as ready as before and nothing else was put aside,
\* the other calls are as they were.
LEMMA AnswerKeeps ==
  ASSUME NEW only, Tabs = {only}, PagesInv, NEW c \in CallIds, Page!Answered(only, c),
         \/ tab'[only].ready /\ (call[only][c].op = "me" \/ tab[only].ready)
         \/ original' = original /\ tab'[only].ready = tab[only].ready
  PROVE  call' \in [Tabs -> [CallIds -> Page!Calls \cup {Page!Idle}]] /\ CallsOK(only)'
<1>1. /\ call'[only] = [call[only] EXCEPT ![c] = Page!Idle]
      /\ call' \in [Tabs -> [CallIds -> Page!Calls \cup {Page!Idle}]]
      /\ call[only] \in [CallIds -> Page!Calls \cup {Page!Idle}]
  BY DEF Page!Answered, PagesInv, Page!DashboardOK
<1>2. ASSUME NEW d \in CallIds PROVE CallOK(only, call[only][d])'
  <2>1. CASE d = c
    BY <1>1, <2>1, SomeoneIs DEF CallOK
  <2>2. CASE d # c
    <3>1. call'[only][d] = call[only][d] /\ CallOK(only, call[only][d])
          /\ ~(call[only][d].op = "me" /\ call[only][c].op = "me")
      BY <1>1, <2>2 DEF PagesInv, CallsOK
    <3>2. CASE tab'[only].ready /\ (call[only][c].op = "me" \/ tab[only].ready)
      BY <3>1, <3>2 DEF CallOK
    <3>3. CASE original' = original /\ tab'[only].ready = tab[only].ready
      BY <3>1, <3>3 DEF CallOK, Kept, Page!KeptAside
    <3> QED
      BY <3>2, <3>3
  <2> QED
    BY <2>1, <2>2
<1>3. ASSUME NEW d \in CallIds, NEW e \in CallIds, call'[only][d].op = "me", call'[only][e].op = "me"
      PROVE  d = e
  BY <1>1, <1>3, SomeoneIs DEF PagesInv, CallsOK
<1> QED
  BY <1>1, <1>2, <1>3 DEF CallsOK

\* What a page and the storage hold once an account has signed in.
LEMMA OwnSession ==
  ASSUME NEW x \in Page!Identities, x.by = NoOne
  PROVE  /\ Page!SessionOf(x) \in Page!Session /\ Named(Page!SessionOf(x))
         /\ Kept(Page!SessionOf(x).token) /\ Kept(Page!SessionOf(x).user)
BY DEF Page!SessionOf, Page!Session, Named, Kept

\* A page that is signed in, or out, with a session that may be shown.
LEMMA ShownKeeps ==
  ASSUME NEW only, Tabs = {only}, PagesInv, NEW session \in Page!Session, Named(session),
         NEW c \in CallIds, Page!Answered(only, c),
         tab' = [tab EXCEPT ![only].session = session], stored' = session, Aside',
         original' \in Page!Session, dialog' \subseteq dialog,
         (Kept(session.token) /\ Kept(session.user))',
         \/ original' = original
         \/ tab[only].ready
  PROVE  PagesInv'
<1>1. /\ tab'[only].session = session /\ tab'[only].ready = tab[only].ready
      /\ tab' \in [Tabs -> [ready : BOOLEAN, session : Page!Session]] /\ dialog' \subseteq Tabs
  BY DEF PagesInv, Page!DashboardOK
<1>2. call' \in [Tabs -> [CallIds -> Page!Calls \cup {Page!Idle}]] /\ CallsOK(only)'
  BY <1>1, AnswerKeeps
<1>3. TabOK(only)'
  BY <1>1 DEF PagesInv, TabOK, Named
<1>4. StoredOK'
  BY DEF StoredOK, Named
<1>5. Page!DashboardOK'
  BY <1>1, <1>2 DEF Page!DashboardOK
<1> QED
  BY <1>2, <1>3, <1>4, <1>5 DEF PagesInv

----------------------------------------------------------------------------

LEMMA BootstrapKeeps ==
  ASSUME NEW only, Tabs = {only}, PagesInv, Page!Bootstrap(only) PROVE PagesInv'
<1> DEFINE k == [op |-> "me", from |-> stored, about |-> NoOne]
           some == CHOOSE c \in CallIds : TRUE
<1>1. /\ tab'[only] = [ready |-> stored.token = NoOne, session |-> stored]
      /\ tab' \in [Tabs -> [ready : BOOLEAN, session : Page!Session]]
      /\ dialog' = dialog \ {only} /\ stored' = stored /\ original' = original
  BY DEF Page!Bootstrap, PagesInv, Page!DashboardOK
<1>2. k \in Page!Calls /\ k.op = "me" /\ k.from = stored
  BY DEF Page!Calls, PagesInv, Page!DashboardOK
<1>3. Page!Quiet \in [CallIds -> Page!Calls \cup {Page!Idle}]
      /\ \A c \in CallIds : Page!Quiet[c] = Page!Idle
  BY DEF Page!Quiet
<1> HIDE DEF k, some
<1>4. call' = [call EXCEPT ![only] = IF stored.token = NoOne THEN Page!Quiet
                                     ELSE [Page!Quiet EXCEPT ![some] = k]]
  BY DEF Page!Bootstrap, k, some
<1>5. /\ call' \in [Tabs -> [CallIds -> Page!Calls \cup {Page!Idle}]]
      /\ \A c \in CallIds : \/ call'[only][c] = Page!Idle
                            \/ stored.token # NoOne /\ c = some /\ call'[only][c] = k
  BY <1>2, <1>3, <1>4 DEF PagesInv, Page!DashboardOK
<1>6. ASSUME NEW c \in CallIds PROVE CallOK(only, call[only][c])'
  <2>1. CASE call'[only][c] = Page!Idle
    BY <2>1, SomeoneIs DEF CallOK
  <2>2. CASE stored.token # NoOne /\ call'[only][c] = k
    BY <1>1, <1>2, <2>2 DEF CallOK, PagesInv, StoredOK, Kept, Page!KeptAside
  <2> QED
    BY <1>5, <2>1, <2>2
<1>7. ASSUME NEW d \in CallIds, NEW e \in CallIds, call'[only][d].op = "me", call'[only][e].op = "me"
      PROVE  d = e
  BY <1>5, <1>7, SomeoneIs
<1>8. TabOK(only)' /\ StoredOK' /\ Aside'
  BY <1>1 DEF TabOK, PagesInv, StoredOK, Aside, Kept, Page!KeptAside, Named
<1>9. Page!DashboardOK'
  BY <1>1, <1>5 DEF PagesInv, Page!DashboardOK
<1> QED
  BY <1>6, <1>7, <1>8, <1>9 DEF PagesInv, CallsOK

\* The stored session is confirmed, or refused.
LEMMA ConfirmedKeeps ==
  ASSUME NEW only, Tabs = {only}, PagesInv, NEW c \in CallIds, Page!Confirmed(only, c) PROVE PagesInv'
<1> DEFINE token == call[only][c].from.token
<1>1. call[only][c] \in Page!Calls /\ CallOK(only, call[only][c])
  BY SomeoneIs DEF Page!Confirmed, PagesInv, Page!DashboardOK, CallsOK
<1>2. token \in Page!Identities /\ token # NoOne /\ Kept(token)
  BY <1>1 DEF Page!Confirmed, CallOK, Page!Calls, Page!Session
<1>3. /\ tab' = [tab EXCEPT ![only] = [ready |-> TRUE, session |-> [@.session EXCEPT !.user = token]]]
      /\ stored' = Page!SessionOf(token) /\ original' = original /\ dialog' = dialog
      /\ call[only][c].op = "me" /\ Page!Answered(only, c)
  BY DEF Page!Confirmed
<1> HIDE DEF token
<1>4. tab[only].session \in Page!Session
  BY DEF PagesInv, Page!DashboardOK
<1>5. [tab[only].session EXCEPT !.user = token] \in Page!Session
      /\ [tab[only].session EXCEPT !.user = token].user = token
  BY <1>2, <1>4 DEF Page!Session
<1>6. /\ tab'[only].ready /\ tab'[only].session.user = token
      /\ tab' \in [Tabs -> [ready : BOOLEAN, session : Page!Session]]
  BY <1>3, <1>5 DEF PagesInv, Page!DashboardOK
<1>7. call' \in [Tabs -> [CallIds -> Page!Calls \cup {Page!Idle}]] /\ CallsOK(only)'
  BY <1>3, <1>6, AnswerKeeps
<1>8. /\ Page!SessionOf(token) \in Page!Session
      /\ Page!SessionOf(token).token = token /\ Page!SessionOf(token).user = token
  BY <1>2 DEF Page!SessionOf, Page!Session
<1>9. StoredOK' /\ TabOK(only)' /\ Aside'
  BY <1>2, <1>3, <1>6, <1>8 DEF StoredOK, TabOK, PagesInv, Named, Kept, Page!KeptAside, Aside
<1>10. Page!DashboardOK'
  BY <1>3, <1>6, <1>7, <1>8 DEF PagesInv, Page!DashboardOK
<1> QED
  BY <1>7, <1>9, <1>10 DEF PagesInv

LEMMA RefusedKeeps ==
  ASSUME NEW only, Tabs = {only}, PagesInv, NEW c \in CallIds, Page!Refused(only, c) PROVE PagesInv'
<1>1. /\ tab'[only] = [ready |-> TRUE, session |-> Page!Empty]
      /\ tab' \in [Tabs -> [ready : BOOLEAN, session : Page!Session]]
      /\ stored' = Page!Empty /\ original' = Page!Empty /\ dialog' = dialog
      /\ call[only][c].op = "me" /\ Page!Answered(only, c)
  BY SomeoneIs DEF Page!Refused, PagesInv, Page!DashboardOK
<1>2. call' \in [Tabs -> [CallIds -> Page!Calls \cup {Page!Idle}]] /\ CallsOK(only)'
  BY <1>1, AnswerKeeps
<1>3. StoredOK' /\ TabOK(only)' /\ Aside'
  BY <1>1 DEF StoredOK, TabOK, PagesInv, Named, Kept, Aside, Page!Empty
<1>4. Page!DashboardOK'
  BY <1>1, <1>2, SomeoneIs DEF PagesInv, Page!DashboardOK
<1> QED
  BY <1>2, <1>3, <1>4 DEF PagesInv

\* A password, and a code, that is accepted.
LEMMA LoggedInKeeps ==
  ASSUME NEW only, Tabs = {only}, PagesInv, NEW c \in CallIds, Page!LoggedIn(only, c) PROVE PagesInv'
<1>1. PICK x : x = Page!Own(call[only][c].about)
  OBVIOUS
<1>2. call[only][c].about \in Page!Accounts
  BY DEF Page!LoggedIn, PagesInv, CallsOK, CallOK
<1>3. x \in Page!Identities /\ x # NoOne /\ x.by = NoOne
  BY <1>1, <1>2, SomeoneIs
<1>4. /\ tab' = [tab EXCEPT ![only].session = Page!SessionOf(x)] /\ stored' = Page!SessionOf(x)
      /\ original' = original /\ dialog' = dialog /\ Page!Answered(only, c)
  BY <1>1 DEF Page!LoggedIn, Page!FinalizeLogin, Page!Hold
<1>5. /\ Page!SessionOf(x) \in Page!Session /\ Named(Page!SessionOf(x))
      /\ (Kept(Page!SessionOf(x).token) /\ Kept(Page!SessionOf(x).user))'
  BY <1>3 DEF Page!SessionOf, Page!Session, Named, Kept
<1>6. Aside' /\ original' \in Page!Session
  BY <1>4 DEF PagesInv, Page!DashboardOK, Aside
<1> QED
  BY <1>4, <1>5, <1>6, ShownKeeps

LEMMA SteppedUpKeeps ==
  ASSUME NEW only, Tabs = {only}, PagesInv, NEW c \in CallIds, Page!SteppedUp(only, c) PROVE PagesInv'
<1>1. PICK x : x = call[only][c].from.token
  OBVIOUS
<1>2. call[only][c] \in Page!Calls /\ CallOK(only, call[only][c]) /\ call[only][c].op = "stepUp"
  BY SomeoneIs DEF Page!SteppedUp, PagesInv, Page!DashboardOK, CallsOK
<1>3. x \in Page!Identities /\ x # NoOne /\ x.by = NoOne
  BY <1>1, <1>2 DEF Page!SteppedUp, CallOK, Page!Calls, Page!Session
<1>4. /\ tab' = [tab EXCEPT ![only].session = Page!SessionOf(x)] /\ stored' = Page!SessionOf(x)
      /\ original' = original /\ dialog' = dialog \ {only} /\ Page!Answered(only, c)
  BY <1>1 DEF Page!SteppedUp, Page!FinalizeLogin, Page!Hold
<1>5. /\ Page!SessionOf(x) \in Page!Session /\ Named(Page!SessionOf(x))
      /\ (Kept(Page!SessionOf(x).token) /\ Kept(Page!SessionOf(x).user))'
  BY <1>3 DEF Page!SessionOf, Page!Session, Named, Kept
<1>6. Aside' /\ original' \in Page!Session
  BY <1>4 DEF PagesInv, Page!DashboardOK, Aside
<1> QED
  BY <1>4, <1>5, <1>6, ShownKeeps

\* The own session is put aside as the impersonation begins.
LEMMA ImpersonatingKeeps ==
  ASSUME NEW only, Tabs = {only}, PagesInv, NEW c \in CallIds, Page!Impersonating(only, c) PROVE PagesInv'
<1>1. PICK from, x : /\ from = call[only][c].from
                     /\ x = [who |-> call[only][c].about, by |-> from.token.who]
  OBVIOUS
<1>2. call[only][c] \in Page!Calls /\ CallOK(only, call[only][c]) /\ call[only][c].op = "start"
  BY SomeoneIs DEF Page!Impersonating, PagesInv, Page!DashboardOK, CallsOK
<1>3. /\ from \in Page!Session /\ from.token # NoOne /\ from.token.by = NoOne /\ from.token.who \in Admins
      /\ from.user # NoOne /\ from.user.by = NoOne /\ tab[only].ready /\ call[only][c].about \in Page!Accounts
  BY <1>1, <1>2 DEF Page!Impersonating, CallOK, Page!Calls
<1>4. from.token = Page!Own(from.token.who)
  BY <1>3 DEF Page!Session, Page!Identities, Page!Own
<1>5. x \in Page!Identities /\ x.by = from.token.who
  BY <1>1, <1>3 DEF Page!Identities
<1>6. /\ tab' = [tab EXCEPT ![only].session = Page!SessionOf(x)] /\ stored' = Page!SessionOf(x)
      /\ original' = from /\ dialog' = dialog /\ Page!Answered(only, c)
  BY <1>1, <1>3 DEF Page!Impersonating, Page!Hold
<1>7. /\ Page!SessionOf(x) \in Page!Session /\ Named(Page!SessionOf(x))
      /\ Page!SessionOf(x).token = x /\ Page!SessionOf(x).user = x
  BY <1>5, SomeoneIs DEF Page!SessionOf, Page!Session, Named
<1>8. Page!KeptAside(x.by)' /\ Aside'
  BY <1>3, <1>4, <1>5, <1>6 DEF Page!KeptAside, Aside
<1>9. (Kept(Page!SessionOf(x).token) /\ Kept(Page!SessionOf(x).user))'
  BY <1>7, <1>8 DEF Kept
<1> QED
  BY <1>3, <1>6, <1>7, <1>8, <1>9, ShownKeeps

LEMMA StoppedKeeps ==
  ASSUME NEW only, Tabs = {only}, PagesInv, NEW c \in CallIds, Page!Stopped(only, c) PROVE PagesInv'
<1>1. PICK session : session = IF original.token # NoOne /\ original.user # NoOne THEN original ELSE Page!Empty
  OBVIOUS
<1>2. tab[only].ready
  BY DEF Page!Stopped, PagesInv, CallsOK, CallOK
<1>3. /\ tab' = [tab EXCEPT ![only].session = session] /\ stored' = session
      /\ original' = Page!Empty /\ dialog' = dialog /\ Page!Answered(only, c)
  BY <1>1 DEF Page!Stopped, Page!Hold
<1>4. session \in Page!Session /\ Named(session) /\ (Kept(session.token) /\ Kept(session.user))'
  BY <1>1, SomeoneIs DEF PagesInv, Page!DashboardOK, Aside, Named, Kept, Page!Empty
<1>5. Aside' /\ original' \in Page!Session
  BY <1>3, SomeoneIs DEF Aside
<1> QED
  BY <1>2, <1>3, <1>4, <1>5, ShownKeeps

LEMMA FailsKeeps ==
  ASSUME NEW only, Tabs = {only}, PagesInv, NEW c \in CallIds, Page!Fails(only, c) PROVE PagesInv'
<1>1. Page!Answered(only, c) /\ UNCHANGED <<stored, original, tab, dialog>>
  BY DEF Page!Fails
<1>2. call' \in [Tabs -> [CallIds -> Page!Calls \cup {Page!Idle}]] /\ CallsOK(only)'
  BY <1>1, AnswerKeeps
<1> QED
  BY <1>1, <1>2 DEF PagesInv, Page!DashboardOK, Aside, StoredOK, TabOK, Kept, Page!KeptAside

LEMMA LogoutKeeps ==
  ASSUME NEW only, Tabs = {only}, PagesInv, Page!Logout(only) PROVE PagesInv'
<1>1. /\ tab[only].ready /\ tab'[only].ready /\ tab'[only].session = Page!Empty
      /\ tab' \in [Tabs -> [ready : BOOLEAN, session : Page!Session]]
      /\ stored' = Page!Empty /\ original' = Page!Empty /\ dialog' = dialog /\ call' = call
  BY SomeoneIs DEF Page!Logout, Page!Hold, Page!AtWork, PagesInv, Page!DashboardOK
<1>2. StoredOK' /\ TabOK(only)' /\ Aside'
  BY <1>1 DEF StoredOK, TabOK, PagesInv, Named, Kept, Aside, Page!Empty
<1>3. CallsOK(only)'
  BY <1>1 DEF PagesInv, CallsOK, CallOK
<1>4. Page!DashboardOK'
  BY <1>1, SomeoneIs DEF PagesInv, Page!DashboardOK
<1> QED
  BY <1>2, <1>3, <1>4 DEF PagesInv

\* Every step of the only tab.
LEMMA PagesKeep ==
  ASSUME NEW only, Tabs = {only}, PagesInv, [Page!DashboardNext]_(Page!dashboard) PROVE PagesInv'
<1>1. ASSUME UNCHANGED Page!dashboard PROVE PagesInv'
  BY <1>1 DEF Page!dashboard, PagesInv, Page!DashboardOK, Aside, StoredOK, TabOK, CallsOK, CallOK,
     Kept, Page!KeptAside
<1>2. ASSUME NEW u \in Page!Accounts, Page!Login(only, u) PROVE PagesInv'
  BY <1>2, SendKeeps DEF Page!Login
<1>3. ASSUME Page!RunSensitiveAction(only) PROVE PagesInv'
  BY <1>3 DEF Page!RunSensitiveAction, Page!AtWork, PagesInv, Page!DashboardOK, Aside, StoredOK,
     TabOK, CallsOK, CallOK, Kept, Page!KeptAside
<1>4. ASSUME Page!CloseStepUpModal(only) PROVE PagesInv'
  BY <1>4 DEF Page!CloseStepUpModal, PagesInv, Page!DashboardOK, Aside, StoredOK, TabOK, CallsOK,
     CallOK, Kept, Page!KeptAside
<1>5. ASSUME Page!SubmitStepUp(only) PROVE PagesInv'
  <2>1. tab[only].ready
    BY <1>5 DEF Page!SubmitStepUp, PagesInv, TabOK
  <2> QED
    BY <1>5, <2>1, SendKeeps DEF Page!SubmitStepUp
<1>6. ASSUME NEW u \in Supervisors \cup Canvassers, Page!StartImpersonation(only, u) PROVE PagesInv'
  <2>1. /\ u \in Page!Accounts /\ tab[only].session.user.by = NoOne
        /\ tab[only].session.token # NoOne /\ tab[only].ready /\ tab[only].session.user # NoOne
    BY <1>6 DEF Page!StartImpersonation, Page!AtWork, PagesInv, TabOK, Named, Page!Accounts
  <2>2. Page!Send(only, "start", u) /\ UNCHANGED <<stored, original, tab, dialog>>
    BY <1>6 DEF Page!StartImpersonation
  <2> QED
    BY <2>1, <2>2, SendKeeps
<1>7. ASSUME Page!StopImpersonation(only) PROVE PagesInv'
  BY <1>7, SendKeeps DEF Page!StopImpersonation, Page!AtWork
<1> QED
  BY <1>1, <1>2, <1>3, <1>4, <1>5, <1>6, <1>7, BootstrapKeeps, LogoutKeeps, ConfirmedKeeps,
     RefusedKeeps,
     LoggedInKeeps, SteppedUpKeeps, ImpersonatingKeeps, StoppedKeeps, FailsKeeps DEF Page!DashboardNext

(* However late answers come and whoever signs in or out meanwhile, in one *)
(* tab the session kept aside is that of the administrator whose           *)
(* impersonation is shown or stored: Stop Impersonation goes back to that  *)
(* account and to no other.  For any accounts, and any calls under way.    *)
THEOREM StopReturnsToActor ==
  ASSUME NEW only, Tabs = {only} PROVE Page!DashboardSpec => []ReturnsToActor
<1>1. Page!DashboardInit => PagesInv
  <2> SUFFICES ASSUME Page!DashboardInit PROVE PagesInv
    OBVIOUS
  <2>1. Page!DashboardOK
    BY SomeoneIs DEF Page!DashboardInit, Page!DashboardOK, Page!Quiet
  <2>2. Aside /\ StoredOK /\ TabOK(only)
    BY SomeoneIs DEF Page!DashboardInit, Aside, StoredOK, TabOK, Named, Kept, Page!Empty
  <2>3. CallsOK(only)
    BY SomeoneIs DEF Page!DashboardInit, Page!Quiet, CallsOK, CallOK
  <2> QED
    BY <2>1, <2>2, <2>3 DEF PagesInv
<1>2. PagesInv /\ [Page!DashboardNext]_(Page!dashboard) => PagesInv'
  BY PagesKeep
<1>3. PagesInv => ReturnsToActor
  BY DEF PagesInv, ReturnsToActor, Page!ReturnsToActor, StoredOK, TabOK, Kept
<1> QED
  BY <1>1, <1>2, <1>3, PTL DEF Page!DashboardSpec
=============================================================================
