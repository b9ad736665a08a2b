--------------------------- MODULE DashboardSession ---------------------------
(***************************************************************************)
(* Who the admin dashboard is signed in as: AuthProvider                   *)
(* (admin-dashboard/src/lib/auth-context.tsx) over the browser's storage   *)
(* (storage.ts), which outlives a page and is shared by the tabs.  While   *)
(* an administrator impersonates a field user, the own session is kept     *)
(* aside under other keys, for Stop Impersonation to return to.            *)
(*                                                                         *)
(* Every call to the API is answered, or fails, at any later time, and its *)
(* continuation runs with the token and the user of the page that made it. *)
(* The API is left to AuthTokens: an answer here is any it may give.       *)
(* Definitions named ...Mutant are plausible bugs in the definition that   *)
(* follows them, used to show that the properties can fail.                *)
(***************************************************************************)
EXTENDS FiniteSets

CONSTANTS Admins, Supervisors, Canvassers,   \* accounts by role
          Tabs,
          CallIds,    \* bounds how many calls of a tab are under way at once
          NoOne       \* no account

Accounts == Admins \cup Supervisors \cup Canvassers

VARIABLES stored,     \* localStorage: proactive.admin.token and .user
          original,   \* localStorage: proactive.admin.original.token and .user
          tab,        \* what AuthProvider holds: ready, token and user
          dialog,     \* the tabs that ask for an MFA code
          call        \* the calls under way in each tab

dashboard == <<stored, original, tab, dialog, call>>

\* An access token, and likewise the user an answer describes: an account, and
\* the administrator who impersonates it.
Identities == [who : Accounts, by : Admins \cup {NoOne}]
Own(u) == [who |-> u, by |-> NoOne]

Session == [token : Identities \cup {NoOne}, user : Identities \cup {NoOne}]
Empty == [token |-> NoOne, user |-> NoOne]
SessionOf(x) == [token |-> x, user |-> x]

Idle == [op |-> "idle"]
Calls == [op : {"me", "login", "stepUp", "start", "stop"}, from : Session, about : Accounts \cup {NoOne}]

DashboardOK ==
  /\ stored \in Session /\ original \in Session
  /\ tab \in [Tabs -> [ready : BOOLEAN, session : Session]]
  /\ dialog \subseteq Tabs
  /\ call \in [Tabs -> [CallIds -> Calls \cup {Idle}]]

Quiet == [c \in CallIds |-> Idle]

DashboardInit ==
  /\ stored = Empty /\ original = Empty
  /\ tab = [t \in Tabs |-> [ready |-> TRUE, session |-> Empty]]
  /\ dialog = {}
  /\ call = [t \in Tabs |-> Quiet]

----------------------------------------------------------------------------

\* setToken and setUser (the impersonation shown is the user's).
Hold(t, session) == tab' = [tab EXCEPT ![t].session = session]

\* ProtectedFrame shows its children, and the dialog covers them.
AtWork(t) == tab[t].ready /\ tab[t].session.token # NoOne /\ t \notin dialog

UnderWay(t, op) == \E c \in CallIds : call[t][c].op = op

\* A call of the page as it was rendered: with its token and user.
Send(t, op, about) ==
  \E c \in CallIds :
    /\ call[t][c] = Idle
    /\ call' = [call EXCEPT ![t][c] = [op |-> op, from |-> tab[t].session, about |-> about]]

Answered(t, c) == call' = [call EXCEPT ![t][c] = Idle]

(* The page is loaded, or loaded again: bootstrap takes the stored session *)
(* over and asks the API about it.  Calls of the former page are forgotten.*)
Bootstrap(t) ==
  /\ tab' = [tab EXCEPT ![t] = [ready |-> stored.token = NoOne, session |-> stored]]
  /\ call' = [call EXCEPT ![t] =
       IF stored.token = NoOne THEN Quiet
       ELSE [Quiet EXCEPT ![CHOOSE c \in CallIds : TRUE] =
               [op |-> "me", from |-> stored, about |-> NoOne]]]
  /\ dialog' = dialog \ {t}
  /\ UNCHANGED <<stored, original>>

\* The answer describes the token that asked.
Confirmed(t, c) ==
  LET token == call[t][c].from.token
  IN /\ call[t][c].op = "me"
     /\ tab' = [tab EXCEPT ![t] = [ready |-> TRUE, session |-> [@.session EXCEPT !.user = token]]]
     /\ stored' = SessionOf(token)
     /\ Answered(t, c)
     /\ UNCHANGED <<original, dialog>>

\* Any failure, also one of the network, ends the session.
Refused(t, c) ==
  /\ call[t][c].op = "me"
  /\ tab' = [tab EXCEPT ![t] = [ready |-> TRUE, session |-> Empty]]
  /\ stored' = Empty /\ original' = Empty
  /\ Answered(t, c)
  /\ UNCHANGED dialog

\* The login page, which is also shown while a stored session is checked: the
\* password and, where it is asked for, the code.
Login(t, u) ==
  /\ tab[t].ready => tab[t].session.token = NoOne
  /\ ~UnderWay(t, "login")
  /\ Send(t, "login", u)
  /\ UNCHANGED <<stored, original, tab, dialog>>

EnsureDashboardRole(x) == x.by # NoOne \/ x.who \in Admins \cup Supervisors

FinalizeLogin(t, x) == Hold(t, SessionOf(x)) /\ stored' = SessionOf(x)

LoggedIn(t, c) ==
  LET x == Own(call[t][c].about)
  IN /\ call[t][c].op = "login"
     /\ EnsureDashboardRole(x)
     /\ FinalizeLogin(t, x)
     /\ Answered(t, c)
     /\ UNCHANGED <<original, dialog>>

----------------------------------------------------------------------------
(* Sensitive actions ask for a code first. *)

RunSensitiveAction(t) ==
  /\ AtWork(t)
  /\ dialog' = dialog \cup {t}
  /\ UNCHANGED <<stored, original, tab, call>>

CloseStepUpModal(t) ==
  /\ t \in dialog /\ ~UnderWay(t, "stepUp")
  /\ dialog' = dialog \ {t}
  /\ UNCHANGED <<stored, original, tab, call>>

SubmitStepUp(t) ==
  /\ t \in dialog /\ ~UnderWay(t, "stepUp")
  /\ tab[t].session.token # NoOne
  /\ Send(t, "stepUp", NoOne)
  /\ UNCHANGED <<stored, original, tab, dialog>>

\* The API refuses an impersonation; the action then runs with the new token.
SteppedUp(t, c) ==
  LET x == call[t][c].from.token
  IN /\ call[t][c].op = "stepUp"
     /\ x.by = NoOne
     /\ FinalizeLogin(t, x)
     /\ dialog' = dialog \ {t}
     /\ Answered(t, c)
     /\ UNCHANGED original

----------------------------------------------------------------------------
(* Impersonation. *)

StartImpersonation(t, u) ==
  /\ AtWork(t)
  /\ tab[t].session.user.who \in Admins /\ tab[t].session.user.by = NoOne
  /\ Send(t, "start", u)
  /\ UNCHANGED <<stored, original, tab, dialog>>

ImpersonatingMutant(t, c) ==
  LET from == call[t][c].from
      x == [who |-> call[t][c].about, by |-> from.token.who]
  IN /\ call[t][c].op = "start"
     /\ from.token.by = NoOne /\ from.token.who \in Admins
     /\ original' = IF original = Empty THEN tab[t].session ELSE original
     /\ Hold(t, SessionOf(x)) /\ stored' = SessionOf(x)
     /\ Answered(t, c)
     /\ UNCHANGED dialog

\* The API answers administrators only; the own session is that of the page
\* that asked.
Impersonating(t, c) ==
  LET from == call[t][c].from
      x == [who |-> call[t][c].about, by |-> from.token.who]
  IN /\ call[t][c].op = "start"
     /\ from.token.by = NoOne /\ from.token.who \in Admins
     /\ original' = IF from.user.by = NoOne THEN from ELSE original
     /\ Hold(t, SessionOf(x)) /\ stored' = SessionOf(x)
     /\ Answered(t, c)
     /\ UNCHANGED dialog

StopImpersonation(t) ==
  /\ AtWork(t)
  /\ tab[t].session.user.by # NoOne
  /\ Send(t, "stop", NoOne)
  /\ UNCHANGED <<stored, original, tab, dialog>>

\* Back to the session kept aside, or to none.
Stopped(t, c) ==
  LET session == IF original.token # NoOne /\ original.user # NoOne THEN original ELSE Empty
  IN /\ call[t][c].op = "stop"
     /\ Hold(t, session) /\ stored' = session
     /\ original' = Empty
     /\ Answered(t, c)
     /\ UNCHANGED dialog

----------------------------------------------------------------------------

\* Any other call that fails or is refused changes nothing.
Fails(t, c) ==
  /\ call[t][c].op \in {"login", "stepUp", "start", "stop"}
  /\ Answered(t, c)
  /\ UNCHANGED <<stored, original, tab, dialog>>

Logout(t) ==
  /\ AtWork(t)
  /\ original' = Empty /\ stored' = Empty
  /\ Hold(t, Empty)
  /\ UNCHANGED <<dialog, call>>

DashboardNext ==
  \E t \in Tabs :
    \/ Bootstrap(t)
    \/ \E u \in Accounts : Login(t, u)
    \/ RunSensitiveAction(t) \/ SubmitStepUp(t) \/ CloseStepUpModal(t)
    \/ \E u \in Supervisors \cup Canvassers : StartImpersonation(t, u)
    \/ StopImpersonation(t)
    \/ Logout(t)
    \/ \E c \in CallIds : \/ Confirmed(t, c) \/ Refused(t, c) \/ LoggedIn(t, c) \/ SteppedUp(t, c)
                          \/ Impersonating(t, c) \/ Stopped(t, c) \/ Fails(t, c)

DashboardSpec == DashboardInit /\ [][DashboardNext]_dashboard

----------------------------------------------------------------------------
(* Properties. *)

(* Whenever an impersonation is shown or stored, the session kept aside is *)
(* the own one of the very administrator who impersonates, however late    *)
(* answers come and whoever signed in meanwhile: Stop returns to the       *)
(* administrator's account, never to another or to an impersonation.       *)
KeptAside(a) == original.token = Own(a) /\ original.user # NoOne /\ original.user.by = NoOne
ReturnsToActor ==
  /\ \A t \in Tabs : tab[t].ready /\ tab[t].session.user # NoOne /\ tab[t].session.user.by # NoOne
                       => KeptAside(tab[t].session.user.by)
  /\ stored.user # NoOne /\ stored.user.by # NoOne => KeptAside(stored.user.by)

\* What the page shows is whom its requests act as.  Someone who signs in
\* before the stored session is confirmed is shown under the stored name.
ActsAsShown == \A t \in Tabs : tab[t].ready => tab[t].session.token = tab[t].session.user

\* A tab changes hands only by signing out.  An impersonation answered after
\* its administrator signed out takes the tab of whoever signed in since.
Person(x) == IF x.by # NoOne THEN x.by ELSE x.who
ChangesHandsSignedOut ==
  [][\A t \in Tabs : LET old == tab[t].session.token
                         new == tab'[t].session.token
                     IN tab[t].ready /\ old # NoOne /\ new # NoOne => Person(old) = Person(new)]_dashboard
=============================================================================
