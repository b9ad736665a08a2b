----------------------------- MODULE Organization -----------------------------
(***************************************************************************)
(* The two ways an organization is divided: geography nodes and teams with *)
(* regions, with the people and turfs each applies to.                     *)
(***************************************************************************)
EXTENDS Geographies, Teams

vars == <<geography, teams>>

TypeOK == GeographyOK /\ TeamsOK

Init == GeographyInit /\ TeamsInit

Next == \/ GeographyNext /\ UNCHANGED teams
        \/ TeamsNext /\ UNCHANGED geography

Spec == Init /\ [][Next]_vars

----------------------------------------------------------------------------

\* A node and those above it: the nodes of every set that holds it and, with a
\* node, the parent of that node.
Ancestors(n) ==
  {a \in Present : \A S \in SUBSET Present :
     n \in S /\ (\A m \in S : parent[m] \in Present => parent[m] \in S) => a \in S}

(* After any creations and moves of whole subtrees the closure table,      *)
(* which decides what a supervisor sees and what a report sums up, links   *)
(* a node to exactly itself and its ancestors, at their distance, and the  *)
(* stored depth is the number of nodes above.                              *)
LinksAreTheTree ==
  /\ links = UNION {{[ancestor |-> a, descendant |-> d,
                      depth |-> Cardinality(Ancestors(d)) - Cardinality(Ancestors(a))] :
                     a \in Ancestors(d)} : d \in Present}
  /\ \A n \in Present : /\ depth[n] = Cardinality(Ancestors(n)) - 1
                        /\ ReportingFilter(n) = {d \in Present : n \in Ancestors(d)}
  /\ \A u \in People : Visible(u) = {d \in Present : placed[u] \in Ancestors(d)}
=============================================================================
