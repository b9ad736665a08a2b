---------------------------- MODULE AccountSessions ----------------------------
(***************************************************************************)
(* The accounts, credentials and recovery cases of the service, and beside *)
(* them the sessions of the dashboard.  The two share no state: an answer  *)
(* the dashboard waits for is any that AuthTokens may give.                *)
(***************************************************************************)
EXTENDS RecoveryCases

CONSTANTS Supervisors, Canvassers,   \* the other accounts of the dashboard
          Tabs, CallIds, NoOne
VARIABLES stored, original, tab, dialog, call

pages == <<stored, original, tab, dialog, call>>

Page == INSTANCE DashboardSession

ASSUME NoOneAssumption == NoOne \notin Page!Accounts \cup Page!Identities

(* Whenever an impersonation is shown or stored, the session kept aside is *)
(* that of the administrator who impersonates (DashboardSession).          *)
ReturnsToActor == Page!ReturnsToActor

\* What the page shows is whom it acts as; a tab changes hands signed out.
ActsAsShown == Page!ActsAsShown
ChangesHandsSignedOut == Page!ChangesHandsSignedOut
=============================================================================
