---------------------------- MODULE RecoveryCases ----------------------------
(***************************************************************************)
(* RecoveryService (backend/src/recovery/recovery.service.ts) over the     *)
(* accounts and credentials of AuthTokens: an admin opens a case for       *)
(* another account, a second admin approves it, and its execution cuts the *)
(* account off from everything it had been granted.  approve, reject and   *)
(* expireStale find a case and then write it by id: two steps each.        *)
(***************************************************************************)
EXTENDS AuthTokens

CONSTANTS Webhook,    \* RECOVERY_NOTIFICATION_WEBHOOK_URL is set
          BreakGlass  \* BREAK_GLASS_RECOVERY_ENABLED

ASSUME FlagsAssumption == {Webhook, BreakGlass} \subseteq BOOLEAN

VARIABLE cases

vars == <<account, creds, request, cases>>

Types == {"help_desk_mfa_reset", "help_desk_account_recovery", "break_glass_account_recovery"}

CaseRows == [target : Users, requester : Users, reviewer : Users \cup {NoRow},
             type : Types,
             status : {"pending", "lapsed",     \* pending, expiresAt to come or past
                       "rejected", "expired", "executed"},
             notice : {"not_configured", "pending", "delivered", "failed"},
             executions : 0 .. 2]     \* history: how often it was executed

ASSUME CasesAssumption == NoRow \notin Cases \cup CaseRows

TypeOK == AuthTypeOK /\ cases \in [Cases -> CaseRows \cup {NoRow}]

Init == AuthInit /\ cases = [k \in Cases |-> NoRow]

Opened == {k \in Cases : cases[k] # NoRow}
Pending == {k \in Opened : cases[k].status \in {"pending", "lapsed"}}

\* RecoveryService.actor: the account as it is now, not as the token says.
ActiveAdmin(a) == /\ account[a].role = "admin"
                  /\ account[a].isActive /\ account[a].status = "active" /\ ~account[a].gone

Permitted(type, u) == IF type = "break_glass_account_recovery" THEN BreakGlass
                      ELSE account[u].role # "admin"

\* A request of a about the account u, concerning the case k (NoRow: a new one).
Ask(s, at, u, a, k) ==
  /\ Send(s, [Asking(at, u) EXCEPT !.by = a, !.what = k])
  /\ UNCHANGED cases

\* A request to open a case: its stage is the type of the case.
BeginCase(s, type, a, u) ==
  /\ ActiveAdmin(a) /\ a # u
  /\ account[u].status # "absent" /\ ~account[u].gone
  /\ Permitted(type, u)
  /\ \A k \in Opened : cases[k].status = "pending" => cases[k].target # u
  /\ Ask(s, type, u, a, NoRow)

OpenCase(s) ==
  /\ request[s].at \in Types
  /\ \E k \in Cases \ Opened :
       cases' = [cases EXCEPT ![k] =
         [target |-> request[s].who, requester |-> request[s].by, reviewer |-> NoRow,
          type |-> request[s].at, status |-> "pending",
          notice |-> IF Webhook THEN "pending" ELSE "not_configured",
          executions |-> 0]]
  /\ Done(s)
  /\ UNCHANGED <<account, creds>>

BeginRejectMutant(s, a, k) ==
  /\ ActiveAdmin(a)
  /\ Ask(s, "reject", cases[k].target, a, k)

BeginReject(s, a, k) ==
  /\ ActiveAdmin(a)
  /\ k \in Pending
  /\ Ask(s, "reject", cases[k].target, a, k)

BeginApproveMutant(s, a, k) ==
  /\ ActiveAdmin(a) /\ a # cases[k].target
  /\ cases[k].status = "pending"
  /\ cases[k].type # "help_desk_mfa_reset" => Webhook
  /\ Ask(s, "approve", cases[k].target, a, k)

BeginApprove(s, a, k) ==
  /\ ActiveAdmin(a) /\ a \notin {cases[k].requester, cases[k].target}
  /\ cases[k].status = "pending"
  /\ cases[k].type # "help_desk_mfa_reset" => Webhook
  /\ Ask(s, "approve", cases[k].target, a, k)

\* Listing the cases expires the stale ones, one transaction each.
BeginExpire(s, a, k) ==
  /\ ActiveAdmin(a)
  /\ cases[k].status = "lapsed"
  /\ Ask(s, "expire", cases[k].target, a, k)

RejectCase(s) ==
  /\ request[s].at = "reject"
  /\ cases' = [cases EXCEPT ![request[s].what].status = "rejected",
                            ![request[s].what].reviewer = request[s].by]
  /\ Done(s)
  /\ UNCHANGED <<account, creds>>

ExpireCase(s) ==
  /\ request[s].at = "expire"
  /\ cases' = [cases EXCEPT ![request[s].what].status = "expired"]
  /\ Done(s)
  /\ UNCHANGED <<account, creds>>

\* What an execution revokes; the backup codes are deleted.
ArtifactsMutant(u) ==
  {i \in LiveRows(creds) : /\ u = creds[i].of
                           /\ creds[i].kind \in {"refresh", "reset", "activation"}}
Artifacts(u) ==
  {i \in LiveRows(creds) : /\ u \in {creds[i].of, creds[i].by}
                           /\ creds[i].kind # "code"}

\* The table once u has been cut off from everything it was granted.
CutOff(u) == Cut(Without(Revoke(creds, Artifacts(u)),
                         {i \in Rows : creds[i].kind = "code" /\ creds[i].of = u}),
                 u, Kinds)

\* One transaction; the notification follows it when a webhook is set.
ApproveCase(s) ==
  LET u == request[s].who
      k == request[s].what
  IN /\ request[s].at = "approve"
     /\ account' = [account EXCEPT ![u].mfa = FALSE, ![u].enrolling = FALSE,
                                   ![u].attempts = 0, ![u].lock = "none"]
     /\ cases' = [cases EXCEPT ![k].status = "executed", ![k].reviewer = request[s].by,
                    ![k].executions = IF @ = 2 THEN 2 ELSE @ + 1,
                    ![k].notice = IF Webhook THEN "pending" ELSE "not_configured"]
     /\ IF Webhook THEN request' = [request EXCEPT ![s].at = "notify"] ELSE Done(s)
     /\ IF cases[k].type = "help_desk_mfa_reset" THEN Store(CutOff(u))
        ELSE \E i \in Free : Store([CutOff(u) EXCEPT ![i] = Row("reset", u)])

DeliverNotification(s) ==
  /\ request[s].at = "notify"
  /\ \E notice \in {"delivered", "failed"} :
       cases' = [cases EXCEPT ![request[s].what].notice = notice]
  /\ Done(s)
  /\ UNCHANGED <<account, creds>>

CaseAges(k) ==
  /\ cases[k].status = "pending"
  /\ cases' = [cases EXCEPT ![k].status = "lapsed"]
  /\ UNCHANGED <<account, creds, request>>

RecoveryNext ==
  \/ \E s \in Slots :
       \/ \E a, u \in Users, type \in Types : BeginCase(s, type, a, u)
       \/ \E a \in Users, k \in Opened :
            BeginReject(s, a, k) \/ BeginApprove(s, a, k) \/ BeginExpire(s, a, k)
       \/ OpenCase(s) \/ RejectCase(s) \/ ExpireCase(s) \/ ApproveCase(s)
       \/ DeliverNotification(s)
  \/ \E k \in Opened : CaseAges(k)

Next == (AuthNext /\ UNCHANGED cases) \/ RecoveryNext

Spec == Init /\ [][Next]_vars

\* One request at a time: nothing else happens between its lookup and its write.
SerialNext == Next /\ ((\A s \in Slots : request[s] = Idle) \/ request' # request)

SerialSpec == Init /\ [][SerialNext]_vars

----------------------------------------------------------------------------
(* Properties. *)

\* A credential takes effect only while it is live: no token, challenge or
\* backup code works twice, or after it was superseded or revoked.
UsedOnce == \A i \in Rows : creds[i].uses <= 1

\* A password reset ends every session begun before it, and the execution of
\* a recovery case also every challenge, link, code and impersonation.
NothingOutlivesACut == \A i \in LiveRows(creds) : ~creds[i].stale

\* An account has at most one unused link or challenge of a kind, and an
\* admin at most one open impersonation, whatever was requested or resent.
OneOutstanding ==
  \A i, j \in LiveRows(creds) :
    i # j /\ creds[i].kind \notin {"refresh", "code"}
      => <<creds[i].kind, creds[i].by>> # <<creds[j].kind, creds[j].by>>

\* An executed case was requested by one person and approved by another, and
\* neither is the account recovered.
TwoPersonRule ==
  \A k \in Opened : cases[k].status = "executed" =>
    Cardinality({cases[k].requester, cases[k].reviewer, cases[k].target}) = 3

\* A case is decided once and executed only when approved (Decisions).
Decision == INSTANCE Decisions WITH
  Items <- Cases,
  Atomic <- Cases,
  verdict <- [k \in Cases |-> IF k \notin Opened THEN "absent"
                              ELSE IF k \in Pending THEN "open"
                              ELSE IF cases[k].status = "executed" THEN "accepted"
                              ELSE "refused"],
  effects <- [k \in Cases |-> IF k \in Opened THEN cases[k].executions ELSE 0]
ImplementsDecision == Decision!Spec

\* A recovery case cannot be replayed.
NotReplayed == \A k \in Opened : cases[k].executions <= 1

\* An account is not refused for a lock whose time has passed.
LockIsTimed == \A u \in Users : account[u].lock = "over" => account[u].status # "locked"

=============================================================================
