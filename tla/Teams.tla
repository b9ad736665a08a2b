-------------------------------- MODULE Teams --------------------------------
(***************************************************************************)
(* Team and region scope: a team has a region, its members and turfs carry *)
(* a copy of it, and what belongs to a turf (its addresses, assignments,   *)
(* sessions and visits) carries a copy of the turf's.  An address request  *)
(* and the address that it becomes start with no scope at all.             *)
(* Supervisors are shown what bears their team or region.                  *)
(***************************************************************************)
EXTENDS Naturals

CONSTANTS TeamIds, Members, Areas,   \* teams, field users, turfs
          Regions, Nowhere           \* region codes, and none

ASSUME NowhereAssumption == Nowhere \notin Regions \cup TeamIds

VARIABLES region,     \* teams.region_code
          member,     \* users: team and region
          area,       \* turfs
          content,    \* the rows that belong to a turf
          asked       \* of these, the address requests and their addresses

teams == <<region, member, area, content, asked>>

Scopes == [team : TeamIds \cup {Nowhere}, region : Regions \cup {Nowhere}]
Unscoped == [team |-> Nowhere, region |-> Nowhere]

TeamsOK == /\ region \in [TeamIds -> Regions \cup {Nowhere}]
           /\ member \in [Members -> Scopes]
           /\ area \in [Areas -> Scopes]
           /\ content \in [Areas -> SUBSET Scopes]
           /\ asked \in [Areas -> SUBSET Scopes]

TeamsInit == /\ region = [t \in TeamIds |-> Nowhere]
             /\ member = [m \in Members |-> Unscoped]
             /\ area = [a \in Areas |-> Unscoped]
             /\ content = [a \in Areas |-> {Unscoped}]
             /\ asked = [a \in Areas |-> {}]

RegionOf(t) == IF t = Nowhere THEN Nowhere ELSE region[t]

\* createCanvasser and updateCanvasser: a user joins a team, or none.
JoinTeam(m, t) ==
  /\ member' = [member EXCEPT ![m] = [team |-> t, region |-> RegionOf(t)]]
  /\ UNCHANGED <<region, area, content, asked>>

\* updateTeam: the new region goes to the members and the turfs of the team.
UpdateTeam(t, r) ==
  LET Follow(scope) == IF scope.team = t THEN [scope EXCEPT !.region = r] ELSE scope
  IN /\ region' = [region EXCEPT ![t] = r]
     /\ member' = [m \in Members |-> Follow(member[m])]
     /\ area' = [a \in Areas |-> Follow(area[a])]
     /\ UNCHANGED <<content, asked>>

\* updateTurfScope: a team, a region, or both; a region left empty is the
\* team's.  The turf and what belongs to it are written alike.
UpdateTurfScopeMutant(a, t, givesTeam, r, givesRegion) ==
  LET region1 == IF ~givesRegion THEN area[a].region ELSE r
  IN /\ area' = [area EXCEPT ![a] = [team |-> IF givesTeam THEN t ELSE @.team, region |-> region1]]
     /\ content' = [content EXCEPT ![a] = {[row EXCEPT !.region = region1] : row \in @}]
     /\ asked' = [asked EXCEPT ![a] = {[row EXCEPT !.region = region1] : row \in @}]
     /\ UNCHANGED <<region, member>>

UpdateTurfScope(a, t, givesTeam, r, givesRegion) ==
  LET region1 == IF ~givesRegion THEN area[a].region
                 ELSE IF r # Nowhere THEN r
                 ELSE IF givesTeam THEN RegionOf(t) ELSE Nowhere
      Write(scope) == [team |-> IF givesTeam THEN t ELSE scope.team, region |-> region1]
  IN /\ area' = [area EXCEPT ![a] = Write(@)]
     /\ content' = [content EXCEPT ![a] = {Write(scope) : scope \in @}]
     /\ asked' = [asked EXCEPT ![a] = {Write(scope) : scope \in @}]
     /\ UNCHANGED <<region, member>>

\* An imported address and an assignment take the scope of the turf, a session
\* that of the assignment; a visit takes that of its address, and the turf's for
\* what is empty there.
AddContent(a) ==
  LET Or(x, y) == IF x # Nowhere THEN x ELSE y
      Filled(row) == [team |-> Or(row.team, area[a].team), region |-> Or(row.region, area[a].region)]
  IN /\ \E row \in {area[a]} \cup {Filled(r) : r \in content[a] \cup asked[a]} :
          content' = [content EXCEPT ![a] = @ \cup {row}]
     /\ UNCHANGED <<region, member, area, asked>>

\* submitRequest and approveRequest name neither a team nor a region.
AskForAddress(a) ==
  /\ asked' = [asked EXCEPT ![a] = @ \cup {Unscoped}]
  /\ UNCHANGED <<region, member, area, content>>

TeamsNext ==
  \/ \E t \in TeamIds, r \in Regions \cup {Nowhere} : UpdateTeam(t, r)
  \/ \E m \in Members, t \in TeamIds \cup {Nowhere} : JoinTeam(m, t)
  \/ \E a \in Areas, t \in TeamIds \cup {Nowhere}, r \in Regions \cup {Nowhere}, gt, gr \in BOOLEAN :
       UpdateTurfScope(a, t, gt, r, gr)
  \/ \E a \in Areas : AddContent(a) \/ AskForAddress(a)

----------------------------------------------------------------------------

(* A member of a team bears its region.  Whatever belongs to a turf bears  *)
(* the team of the turf, but for address requests and their addresses,     *)
(* which bear it or none.  Supervisors are shown rows by these copies, so  *)
(* one of another team sees nothing of the turf, and the team's own misses *)
(* only what was asked for and had no scope written since.                 *)
ScopeFollowsTeam ==
  /\ \A m \in Members : member[m].team # Nowhere => member[m].region = region[member[m].team]
  /\ \A a \in Areas :
       /\ \A row \in content[a] : row.team = area[a].team
       /\ \A row \in asked[a] : row.team \in {area[a].team, Nowhere}
=============================================================================
