----------------------------- MODULE Geographies -----------------------------
(***************************************************************************)
(* GeographiesService: a forest of nodes, with a closure table that links  *)
(* every node to itself and its ancestors and answers who sees what.  Its  *)
(* create and update look the parent up and then write in a transaction.   *)
(* Names, kinds, order and activity of the nodes change nothing here.      *)
(***************************************************************************)
EXTENDS Integers, FiniteSets

CONSTANTS Nodes, Root,      \* Root stands for no parent
          People,           \* users of the organization
          Slots,            \* requests handled at once
          None

ASSUME RootAssumption == Root \notin Nodes /\ None \notin Nodes \cup {Root}

VARIABLES parent,     \* geography_nodes: None before the node is created
          depth,
          links,      \* geography_closures
          placed,     \* geographyNodeId of the users
          handling

tree == <<parent, depth, links>>
geography == <<parent, depth, links, placed, handling>>
Idle == [at |-> "idle"]

Depths == 0 .. Cardinality(Nodes) - 1
Links == [ancestor : Nodes, descendant : Nodes, depth : Depths]
Requests == [at : {"create", "move"}, node : Nodes, parent : Nodes \cup {Root},
             depth : Depths, changed : BOOLEAN]

GeographyOK == /\ parent \in [Nodes -> Nodes \cup {Root, None}]
               /\ depth \in [Nodes -> Depths]
               /\ links \subseteq Links
               /\ placed \in [People -> Nodes \cup {None}]
               /\ handling \in [Slots -> Requests \cup {Idle}]

GeographyInit == /\ parent = [n \in Nodes |-> None] /\ depth = [n \in Nodes |-> 0]
                 /\ links = {}
                 /\ placed = [u \in People |-> None]
                 /\ handling = [s \in Slots |-> Idle]

Present == {n \in Nodes : parent[n] # None}
Linked(a, d) == \E l \in links : l.ancestor = a /\ l.descendant = d
Branch(n) == {l \in links : l.ancestor = n}
Above(n, table) == {l \in table : l.descendant = n}

\* assertVisible and list: what a supervisor placed at a node may see; one who
\* is placed nowhere sees nothing.
Visible(u) == {n \in Present : Linked(placed[u], n)}

\* reportingFilter: the nodes a report of n sums up.
ReportingFilter(n) == {l.descendant : l \in Branch(n)}

Begin(s, request) == handling[s] = Idle /\ handling' = [handling EXCEPT ![s] = request]
Done(s) == handling' = [handling EXCEPT ![s] = Idle]

\* The depth of a child of p.
Below(p) == IF p = Root THEN 0 ELSE depth[p] + 1

----------------------------------------------------------------------------

BeginCreate(s, n, p) ==
  /\ parent[n] = None
  /\ Begin(s, [at |-> "create", node |-> n, parent |-> p, depth |-> Below(p), changed |-> TRUE])
  /\ UNCHANGED <<tree, placed>>

Create(s) ==
  LET r == handling[s]
      Self == [ancestor |-> r.node, descendant |-> r.node, depth |-> 0]
  IN /\ r.at = "create"
     /\ parent' = [parent EXCEPT ![r.node] = r.parent]
     /\ depth' = [depth EXCEPT ![r.node] = r.depth]
     /\ links' = links \cup {Self} \cup
          {[l EXCEPT !.descendant = r.node, !.depth = @ + 1] : l \in Above(r.parent, links)}
     /\ Done(s)
     /\ UNCHANGED placed

\* A node cannot be moved beneath itself or its descendant.
BeginMove(s, n, p) ==
  /\ n \in Present /\ p # n
  /\ p = Root \/ ~Linked(n, p)
  /\ Begin(s, [at |-> "move", node |-> n, parent |-> p, depth |-> Below(p),
               changed |-> p # parent[n]])
  /\ UNCHANGED <<tree, placed>>

\* The links after the subtree of n has been taken from its ancestors and given
\* those of p.
RelinkedMutant(n, p) ==
  LET kept == {l \in links : l.descendant # n \/ l.ancestor = n}
  IN kept \cup {[ancestor |-> a.ancestor, descendant |-> l.descendant,
                 depth |-> a.depth + 1 + l.depth] : a \in Above(p, kept), l \in Branch(n)}

Relinked(n, p) ==
  LET subtree == {l.descendant : l \in Branch(n)}
      kept == {l \in links : l.descendant \notin subtree \/ l.ancestor \in subtree}
  IN kept \cup {[ancestor |-> a.ancestor, descendant |-> l.descendant,
                 depth |-> a.depth + 1 + l.depth] : a \in Above(p, kept), l \in Branch(n)}

Move(s) ==
  LET r == handling[s]
      n == r.node
  IN /\ r.at = "move"
     /\ IF r.changed
        THEN /\ links' = Relinked(n, r.parent)
             /\ depth' = [d \in Nodes |-> IF Linked(n, d) THEN depth[d] + r.depth - depth[n]
                                          ELSE depth[d]]
        ELSE UNCHANGED <<links, depth>>
     /\ parent' = [parent EXCEPT ![n] = r.parent]
     /\ Done(s)
     /\ UNCHANGED placed

AssignUser(u, n) ==
  /\ n \in Present
  /\ placed' = [placed EXCEPT ![u] = n]
  /\ UNCHANGED <<tree, handling>>

Abandon(s) == handling[s] # Idle /\ Done(s) /\ UNCHANGED <<tree, placed>>

GeographyNext ==
  \/ \E s \in Slots : \/ \E n \in Nodes, p \in Present \cup {Root} : BeginCreate(s, n, p) \/ BeginMove(s, n, p)
                      \/ Create(s) \/ Move(s) \/ Abandon(s)
  \/ \E u \in People, n \in Nodes : AssignUser(u, n)
=============================================================================
