------------------------------ MODULE AuthTokens ------------------------------
(***************************************************************************)
(* AuthService (backend/src/auth/auth.service.ts), the account part of     *)
(* UsersService and AdminService, and the credential part of the retention *)
(* clean-up.  Every credential the service stores (refresh token, reset,   *)
(* activation and challenge token, backup code, impersonation session) is  *)
(* a row of one table here: the tables share their life cycle.             *)
(*                                                                         *)
(* A handler awaits a lookup and then writes by id: the two are separate   *)
(* steps of a request, so requests interleave between them.  Handlers that *)
(* write without a lookup worth outliving are one step.                    *)
(*                                                                         *)
(* Time is what it does to a row: an expired one is never found again, a   *)
(* rotated one leaves its grace period (late), a lock runs out.  Rate      *)
(* limits refuse a request before it does anything and are left out.       *)
(* Definitions named ...Mutant are plausible bugs in the definition that   *)
(* follows them, used to show that the properties can fail.                *)
(***************************************************************************)
EXTENDS Naturals, FiniteSets

CONSTANTS Admins,       \* seeded administrators
          FieldUsers,   \* supervisors and canvassers
          Members,      \* bound: the accounts whose own requests are explored
          Ids,          \* ids of credential rows; bounds how many coexist
          Cases,        \* ids of recovery cases; bounds how many are opened
          Threshold,    \* policy.loginLockoutThreshold
          Slots,        \* requests the service handles at once
          NoRow

Users == Admins \cup FieldUsers

ASSUME ThresholdAssumption == Threshold \in Nat \ {0}
ASSUME UsersAssumption == Admins \cap FieldUsers = {} /\ Members \subseteq Users

VARIABLES account,    \* users rows
          creds,      \* credential rows
          request     \* requests between their lookup and their write

authVars == <<account, creds, request>>

Kinds == {"refresh", "reset", "activation", "setup", "verify", "code", "impersonation"}

Accounts ==
  [role : {"admin", "supervisor", "canvasser"},
   status : {"absent", "invited", "active", "locked", "inactive", "archived", "deleted"},
   isActive : BOOLEAN,
   gone : BOOLEAN,              \* deletedAt is set
   attempts : 0 .. Threshold,
   lock : {"none", "running", "over"},    \* lockedUntil: null, future, past
   mfa : BOOLEAN,               \* mfaEnabled and mfaSecret
   enrolling : BOOLEAN]         \* mfaTempSecret

Credentials ==
  [kind : Kinds, of : Users,
   by : Users,                  \* who acts: differs from of in an impersonation
   state : {"live", "rotated", "late", "used"},
   uses : 0 .. 2,               \* history: how often it took effect; 2 also if
                                \* it did so when superseded or revoked
   stale : BOOLEAN]             \* history: the account was cut off since

ASSUME NoRowAssumption == NoRow \notin Credentials \cup Ids

Idle == [at |-> "idle"]
Stages == {"password", "refresh", "verify", "setup", "reset", "activation", "disable", "stepUp",
           "help_desk_mfa_reset", "help_desk_account_recovery", "break_glass_account_recovery",
           "approve", "reject", "expire", "notify"}
Rowids == Ids \cup Cases \cup {NoRow}
Requests == [at : Stages,
             who : Users,          \* the account it is about
             by : Users,           \* whose request it is
             what : Rowids,        \* the row the lookup found
             code : Ids \cup {NoRow},  \* a backup code, or an authenticator's
             tries : 0 .. Threshold]

AuthTypeOK == /\ account \in [Users -> Accounts]
              /\ creds \in [Ids -> Credentials \cup {NoRow}]
              /\ request \in [Slots -> Requests \cup {Idle}]

Blank(role) == [role |-> role, status |-> "absent", isActive |-> FALSE, gone |-> FALSE,
                attempts |-> 0, lock |-> "none", mfa |-> FALSE, enrolling |-> FALSE]

(* The seeded administrators exist; field users are invited or created.    *)
AuthInit ==
  /\ account = [u \in Users |-> IF u \in Admins
                  THEN [Blank("admin") EXCEPT !.status = "active", !.isActive = TRUE]
                  ELSE Blank("canvasser")]
  /\ creds = [i \in Ids |-> NoRow]
  /\ request = [s \in Slots |-> Idle]

----------------------------------------------------------------------------
(* The credential table. *)

Rows == {i \in Ids : creds[i] # NoRow}
LiveRows(table) == {i \in Ids : table[i] # NoRow /\ table[i].state = "live"}

\* updateMany: the unused rows of a kind that belong to u.
Live(kind, u) == {i \in LiveRows(creds) : creds[i].kind = kind /\ creds[i].by = u}

Held(requests) == UNION {{requests[s].what, requests[s].code} :
                            s \in {t \in Slots : requests[t] # Idle}}

\* A database never reuses an id, so not one that a request still holds.
Free == {i \in Ids : creds[i] = NoRow /\ i \notin Held(request)}
Row(kind, u) == [kind |-> kind, of |-> u, by |-> u, state |-> "live",
                 uses |-> 0, stale |-> FALSE]

\* Marked used without taking effect: superseded or revoked.
Revoke(table, rows) ==
  [i \in Ids |-> IF i \in rows THEN [table[i] EXCEPT !.state = "used"] ELSE table[i]]

\* The update by id of a credential that takes effect.
SpendMutant(table, rows, state) ==
  [i \in Ids |-> IF i \in rows
                 THEN [table[i] EXCEPT !.uses = IF table[i].state = "live" /\ @ = 0 THEN 1 ELSE 2]
                 ELSE table[i]]

Spend(table, rows, state) ==
  [i \in Ids |-> IF i \in rows
                 THEN [table[i] EXCEPT !.state = state,
                                       !.uses = IF table[i].state = "live" /\ @ = 0 THEN 1 ELSE 2]
                 ELSE table[i]]

\* The table after a write.  No lookup finds a used row: it is forgotten once
\* no request holds it.
Store(table) ==
  creds' = [i \in Ids |-> IF /\ table[i] # NoRow /\ table[i].state = "used"
                             /\ table[i].uses < 2 /\ i \notin Held(request')
                          THEN NoRow ELSE table[i]]

Without(table, rows) == [i \in Ids |-> IF i \in rows THEN NoRow ELSE table[i]]

\* Supersede the unused rows of the kind, then create one.
FreshMutant(i, kind, u, by) == [creds EXCEPT ![i] = [Row(kind, u) EXCEPT !.by = by]]
Fresh(i, kind, u, by) == [Revoke(creds, Live(kind, by)) EXCEPT ![i] = [Row(kind, u) EXCEPT !.by = by]]

\* History: whatever u was granted before this point is stale.
Cut(table, u, kinds) ==
  [i \in Ids |-> IF table[i] # NoRow /\ u \in {table[i].of, table[i].by} /\ table[i].kind \in kinds
                 THEN [table[i] EXCEPT !.stale = TRUE] ELSE table[i]]

RequiresMfa(u) == account[u].role \in {"admin", "supervisor"}
Challenge(i, u) == Fresh(i, IF account[u].mfa THEN "verify" ELSE "setup", u, u)

----------------------------------------------------------------------------
(* Signing in with a password. *)

Send(s, r) == /\ request[s] = Idle
              /\ request' = [request EXCEPT ![s] = r]
              /\ UNCHANGED <<account, creds>>
Done(s) == request' = [request EXCEPT ![s] = Idle]
Asking(at, u) == [at |-> at, who |-> u, by |-> u, what |-> NoRow, code |-> NoRow, tries |-> 0]

\* The account may sign in: the lookup of validateUser.
BeginPassword(s, u) ==
  /\ account[u].isActive
  /\ account[u].status = "active"
  /\ ~account[u].gone
  /\ account[u].lock # "running"
  /\ Send(s, [Asking("password", u) EXCEPT !.tries = account[u].attempts])

\* The counter and the status are written back from the row read before.
WrongPassword(s) ==
  LET u == request[s].who
      n == request[s].tries + 1
  IN /\ request[s].at = "password"
     /\ account' = [account EXCEPT
          ![u].attempts = IF n > Threshold THEN Threshold ELSE n,
          ![u].lock = IF n >= Threshold THEN "running" ELSE "none",
          ![u].status = IF n >= Threshold THEN "locked" ELSE "active"]
     /\ Done(s)
     /\ UNCHANGED creds

SignedIn(s) ==
  IF request[s].tries = 0 THEN account
  ELSE [account EXCEPT ![request[s].who].attempts = 0, ![request[s].who].lock = "none",
                       ![request[s].who].status = "active"]

RightPassword(s) ==
  LET u == request[s].who
  IN /\ request[s].at = "password"
     /\ account' = SignedIn(s)
     /\ Done(s)
     /\ \E i \in Free :
          Store(IF account[u].gone THEN creds
                ELSE IF RequiresMfa(u) THEN Challenge(i, u)
                ELSE [creds EXCEPT ![i] = Row("refresh", u)])

----------------------------------------------------------------------------
(* Handlers that look a presented credential up. *)

Usable(i, kind) == i \in LiveRows(creds) /\ creds[i].kind = kind

\* The code given: the authenticator's, or an unused backup code.
Codes(u) == {NoRow} \cup Live("code", u)

BeginCredential(s, kind, i) ==
  /\ Usable(i, kind)
  /\ kind = "refresh" => account[creds[i].of].isActive /\ account[creds[i].of].status = "active"
  /\ kind = "setup" => account[creds[i].of].enrolling
  /\ kind = "verify" => account[creds[i].of].mfa
  /\ \E code \in IF kind = "verify" THEN Codes(creds[i].of) ELSE {NoRow} :
       Send(s, [Asking(kind, creds[i].of) EXCEPT !.what = i, !.code = code])

\* disableMfa and stepUpMfa, for the holder of an access token of u.
BeginFactor(s, op, u) ==
  /\ account[u].status # "absent" /\ ~account[u].gone
  /\ account[u].mfa
  /\ op = "stepUp" => RequiresMfa(u)
  /\ \E code \in Codes(u) : Send(s, [Asking(op, u) EXCEPT !.code = code])

\* The write by id of a request whose rows are still there.
Finish(s, at) ==
  /\ request[s].at = at
  /\ \A i \in {request[s].what, request[s].code} \cap Ids : creds[i] # NoRow
  /\ Done(s)

\* A new session descends from what vouched for it.
Session(u, parent) == [Row("refresh", u) EXCEPT !.stale = creds[parent].stale]

Refresh(s) ==
  LET c == request[s].what
  IN /\ Finish(s, "refresh")
     /\ UNCHANGED account
     /\ \E i \in Free :
          Store([Spend(creds, {c}, "rotated") EXCEPT ![i] = Session(request[s].who, c)])

\* A token rotated longer than the grace period ago ends every session.
ReuseDetected(i) ==
  /\ i \in Rows
  /\ creds[i].state = "late"
  /\ UNCHANGED <<account, request>>
  /\ Store(Revoke(creds, Live("refresh", creds[i].of)))

Logout(i) ==
  /\ i \in LiveRows(creds) /\ creds[i].kind = "refresh"
  /\ UNCHANGED <<account, request>>
  /\ Store(Revoke(creds, {i}))

InitializeMfaSetup(i) ==
  /\ Usable(i, "setup")
  /\ account' = [account EXCEPT ![creds[i].of].enrolling = TRUE]
  /\ UNCHANGED <<creds, request>>

\* replaceBackupCodes, after the challenge is spent.
Replaced(u, c) ==
  Without(Spend(creds, {c}, "used"), {i \in Rows : creds[i].kind = "code" /\ creds[i].of = u})

\* The challenge is spent, the backup codes are replaced, a session starts.
CompleteMfaSetup(s) ==
  LET u == request[s].who
      c == request[s].what
  IN /\ Finish(s, "setup")
     /\ account' = [account EXCEPT ![u].mfa = TRUE, ![u].enrolling = FALSE]
     /\ \E i, j \in Free \cup Live("code", u) :
          /\ i # j
          /\ Store([Replaced(u, c) EXCEPT
                     ![i] = Row("code", u),
                     ![j] = IF account[u].gone THEN NoRow ELSE Session(u, c)])

VerifyMfaChallenge(s) ==
  LET c == request[s].what
  IN /\ Finish(s, "verify")
     /\ UNCHANGED account
     /\ \E i \in Free :
          Store([Spend(creds, {c, request[s].code}, "used") EXCEPT
                   ![i] = Session(request[s].who, c)])

\* stepUpMfa only issues an access token; a backup code is spent on it.
StepUpMfa(s) ==
  /\ Finish(s, "stepUp")
  /\ UNCHANGED account
  /\ Store(Spend(creds, {request[s].code}, "used"))

DisableMfa(s) ==
  LET u == request[s].who
      spent == Spend(creds, {request[s].code}, "used")
  IN /\ Finish(s, "disable")
     /\ account' = [account EXCEPT ![u].mfa = FALSE, ![u].enrolling = FALSE]
     /\ Store(Without(Revoke(spent, Live("setup", u) \cup Live("verify", u)),
                      {i \in Rows : creds[i].kind = "code" /\ creds[i].of = u}))

Reopened(u) == [account EXCEPT ![u].isActive = TRUE, ![u].status = "active",
                               ![u].attempts = 0, ![u].lock = "none"]

CompletePasswordReset(s) ==
  LET u == request[s].who
      spent == Spend(creds, {request[s].what}, "used")
  IN /\ Finish(s, "reset")
     /\ account' = Reopened(u)
     /\ Store(Cut(Revoke(spent, Live("refresh", u)), u, {"refresh"}))

\* A privileged account still has to pass a challenge.
ActivateAccount(s) ==
  LET u == request[s].who
      spent == Spend(creds, {request[s].what}, "used")
      kind == IF account[u].mfa THEN "verify" ELSE "setup"
  IN /\ Finish(s, "activation")
     /\ account' = Reopened(u)
     /\ \E i \in Free :
          Store(IF account[u].gone THEN spent
                ELSE IF RequiresMfa(u)
                     THEN [Revoke(spent, Live(kind, u)) EXCEPT ![i] = Row(kind, u)]
                ELSE [spent EXCEPT ![i] = Row("refresh", u)])

\* A handler awaits its writes one by one, and may end between two of them: the
\* process stops, or a call fails.  (Where a handler supersedes a row and ends
\* before it creates the next, it leaves what TokenAges or a stop leaves.)
CutShort(s) ==
  LET u == request[s].who
      c == request[s].what
      code == request[s].code
      Spent(rows) == Spend(creds, rows, "used")
      Enabled == [account EXCEPT ![u].mfa = TRUE, ![u].enrolling = FALSE]
  IN \/ Finish(s, "refresh") /\ UNCHANGED account /\ Store(Spend(creds, {c}, "rotated"))
     \/ Finish(s, "verify") /\ UNCHANGED account /\ (Store(Spent({code})) \/ Store(Spent({c, code})))
     \/ Finish(s, "disable") /\ UNCHANGED account /\ Store(Spent({code}))
     \/ Finish(s, "activation") /\ account' = Reopened(u) /\ Store(Spent({c}))
     \/ /\ Finish(s, "setup") /\ account' = Enabled
        /\ \/ Store(creds)
           \/ Store(Spent({c}))
           \/ \E i \in Free \cup Live("code", u) : Store([Replaced(u, c) EXCEPT ![i] = Row("code", u)])
     \/ /\ Finish(s, "password") /\ UNCHANGED creds
        /\ account' = SignedIn(s)

\* The request fails, or the process stops, between the lookup and the write.
Abandon(s) ==
  /\ request[s] # Idle
  /\ Done(s)
  /\ UNCHANGED <<account, creds>>

RequestPasswordReset(u) ==
  /\ account[u].status # "absent" /\ ~account[u].gone
  /\ UNCHANGED <<account, request>>
  /\ \E i \in Free : Store(Fresh(i, "reset", u, u))

StartImpersonation(actor, u) ==
  /\ account[actor].role = "admin" /\ ~account[actor].gone
  /\ account[u].role # "admin" /\ account[u].status # "absent" /\ ~account[u].gone
  /\ UNCHANGED <<account, request>>
  /\ \E i \in Free : Store(Fresh(i, "impersonation", u, actor))

StopImpersonation(i) ==
  /\ i \in LiveRows(creds) /\ creds[i].kind = "impersonation"
  /\ UNCHANGED <<account, request>>
  /\ Store(Revoke(creds, {i}))

----------------------------------------------------------------------------
(* Staff and time. *)

SetAccount(u, row) ==
  /\ account' = [account EXCEPT ![u] = row]
  /\ UNCHANGED <<creds, request>>

InviteCanvasser(u, role) ==
  /\ u \in FieldUsers /\ account[u].status = "absent"
  /\ account' = [account EXCEPT ![u].status = "invited", ![u].role = role]
  /\ UNCHANGED request
  /\ \E i \in Free : Store(Fresh(i, "activation", u, u))

CreateCanvasser(u, role) ==
  /\ u \in FieldUsers /\ account[u].status = "absent"
  /\ SetAccount(u, [account[u] EXCEPT !.status = "active", !.isActive = TRUE, !.role = role])

\* The update by id of a row that need not be a field user's.
UpdateCanvasser(u) ==
  /\ account[u].status # "absent" /\ ~account[u].gone
  /\ \/ \E active \in BOOLEAN :
          SetAccount(u, [account[u] EXCEPT !.isActive = active,
                                           !.status = IF active THEN "active" ELSE "inactive"])
     \/ \E role \in {"supervisor", "canvasser"} :
          SetAccount(u, [account[u] EXCEPT !.role = role])

CloseFieldUser(u, status) ==
  /\ account[u].role # "admin"
  /\ account[u].status # "absent" /\ ~account[u].gone
  /\ SetAccount(u, [account[u] EXCEPT !.isActive = FALSE, !.status = status,
                                      !.gone = (status = "deleted")])

\* The grace period of a rotated token ends; any other token expires.
TokenAges(i) ==
  /\ i \in Rows \ Held(request)
  /\ creds[i].kind \notin {"code", "impersonation"} /\ creds[i].state \in {"live", "rotated"}
  /\ UNCHANGED <<account, request>>
  /\ IF creds[i].state = "rotated" THEN Store([creds EXCEPT ![i].state = "late"])
                                   ELSE Store(Revoke(creds, {i}))

LockAges(u) ==
  /\ account[u].lock = "running"
  /\ SetAccount(u, [account[u] EXCEPT !.lock = "over"])

----------------------------------------------------------------------------
(* RetentionService.runCleanup on accounts and credentials. *)

\* Rows that are spent, or revoked as a rotated token is.  Expired ones are
\* deleted too, but nothing finds them anyway.
Purge(i) ==
  /\ i \in Rows /\ creds[i].kind # "impersonation"
  /\ creds[i].state # "live"
  /\ UNCHANGED <<account, request>>
  /\ Store(Without(creds, {i}))

ArchiveDeleted(u) ==
  /\ account[u].gone
  /\ SetAccount(u, [account[u] EXCEPT !.isActive = FALSE, !.status = "archived"])

AuthNext ==
  \/ \E s \in Slots :
       \/ \E u \in Members :
            BeginPassword(s, u) \/ BeginFactor(s, "disable", u) \/ BeginFactor(s, "stepUp", u)
       \/ \E i \in Ids, kind \in {"refresh", "verify", "setup", "reset", "activation"} :
            BeginCredential(s, kind, i)
       \/ WrongPassword(s) \/ RightPassword(s)
       \/ Refresh(s)
       \/ CompleteMfaSetup(s) \/ VerifyMfaChallenge(s) \/ StepUpMfa(s) \/ DisableMfa(s)
       \/ CompletePasswordReset(s) \/ ActivateAccount(s)
       \/ CutShort(s) \/ Abandon(s)
  \/ \E i \in Ids : ReuseDetected(i) \/ Logout(i) \/ InitializeMfaSetup(i)
                      \/ StopImpersonation(i) \/ TokenAges(i) \/ Purge(i)
  \/ \E u \in Members : RequestPasswordReset(u) \/ UpdateCanvasser(u) \/ LockAges(u)
                        \/ ArchiveDeleted(u)
  \/ \E actor \in Admins, u \in FieldUsers : StartImpersonation(actor, u)
  \/ \E u \in FieldUsers, role \in {"supervisor", "canvasser"} :
       InviteCanvasser(u, role) \/ CreateCanvasser(u, role)
  \/ \E u \in FieldUsers, status \in {"archived", "deleted"} : CloseFieldUser(u, status)
=============================================================================
