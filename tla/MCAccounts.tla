----------------------------- MODULE MCAccounts -----------------------------
(* Instances of AccountSessions for TLC.  The dashboard shares nothing with*)
(* the tables of the service, so one of the two moves in a behaviour and   *)
(* the other rests.                                                        *)
EXTENDS AccountSessions, TLC

CONSTANT RowsBesideCase     \* bound: credentials that coexist once a case is open

\* Credentials on their own are followed with all of Ids.
WithinBound == Opened' # {} => Cardinality({i \in Ids : creds'[i] # NoRow}) <= RowsBesideCase

MCInit == Init /\ Page!DashboardInit
MCNext == \/ Page!DashboardInit /\ SerialNext /\ WithinBound /\ UNCHANGED pages
          \/ Init /\ Page!DashboardNext /\ UNCHANGED vars
MCSpec == MCInit /\ [][MCNext]_<<vars, pages>>

\* Requests that overlap, and no dashboard.
OverlapSpec == MCInit /\ [][Next /\ UNCHANGED pages]_<<vars, pages>>

RowSymmetry == {a @@ i : a \in Permutations(Admins), i \in Permutations(Ids)}
=============================================================================
