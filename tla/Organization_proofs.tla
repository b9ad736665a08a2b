------------------------- MODULE Organization_proofs -------------------------
(***************************************************************************)
(* Proofs that the closure table of the geography nodes stays the closure  *)
(* of the tree, while one request is handled at a time, and that the       *)
(* copies of team scope follow the team; and of what is in force in an     *)
(* organization, for any campaigns, overlapping saves, definitions and     *)
(* profiles.                                                               *)
(***************************************************************************)
EXTENDS Organization, Settings, FiniteSetTheorems, WellFoundedInduction, TLAPS

\* The nodes of a tree, whether its closure links two of them, and the depth
\* of a child.
NodesOf(par) == {n \in Nodes : par[n] # None}
Joined(tab, a, d) == \E l \in tab : l.ancestor = a /\ l.descendant = d
Level(dep, p) == IF p = Root THEN 0 ELSE dep[p] + 1

\* The parent of a node is another node, or none, one level higher.
Forest(par, dep, tab) ==
  /\ par \in [Nodes -> Nodes \cup {Root, None}]
  /\ dep \in [Nodes -> Nat]
  /\ tab \subseteq [ancestor : NodesOf(par), descendant : NodesOf(par), depth : Nat]
  /\ \A n \in NodesOf(par) : par[n] \in NodesOf(par) \cup {Root} /\ dep[n] = Level(dep, par[n])

\* The closure, one level at a time: a node is below itself and below whatever
\* its parent is below, and a link holds the difference of the depths.
Closed(par, dep, tab) ==
  /\ \A n \in NodesOf(par) : Joined(tab, n, n)
  /\ \A a, d \in NodesOf(par) :
       a # d => (Joined(tab, a, d) <=> par[d] # Root /\ Joined(tab, a, par[d]))
  /\ \A l \in tab : dep[l.descendant] = dep[l.ancestor] + l.depth

Tree(par, dep, tab) == Forest(par, dep, tab) /\ Closed(par, dep, tab)

\* What a request looked up still holds when it writes.
Asked(r, par, dep, tab) ==
  /\ r.at = "create" => par[r.node] = None
  /\ r.at = "move" => /\ r.node \in NodesOf(par) /\ r.parent # r.node
                      /\ r.parent # Root => ~Joined(tab, r.node, r.parent)
                      /\ r.changed = (r.parent # par[r.node])
  /\ r.parent \in NodesOf(par) \cup {Root} /\ r.depth = Level(dep, r.parent)

Asking == [at : {"create", "move"}, node : Nodes, parent : Nodes \cup {Root},
           depth : Nat, changed : BOOLEAN]

Inv == /\ Tree(parent, depth, links)
       /\ \A n \in Nodes : parent[n] = None => depth[n] = 0
       /\ placed \in [People -> Nodes \cup {None}]
       /\ handling \in [Slots -> Asking \cup {Idle}]
       /\ \A s \in Slots : handling[s] # Idle => Asked(handling[s], parent, depth, links)

----------------------------------------------------------------------------
\* Trees

\* A set of numbers has a least one: what stands for induction on the depth.
LEMMA LeastOf ==
  ASSUME NEW T, T \subseteq Nat, T # {} PROVE \E x \in T : \A y \in T : x <= y
<1>1. PICK x \in T : \A y \in T : ~(<<y, x>> \in OpToRel(<, Nat))
  BY NatLessThanWellFounded, WFMin
<1>2. \A y \in T : ~(y < x)
  BY <1>1 DEF OpToRel
<1> QED
  BY <1>2

\* Of any nodes, one has no other of them above it.
LEMMA Topmost ==
  ASSUME NEW par, NEW dep, NEW tab, Tree(par, dep, tab), NEW S, S \subseteq NodesOf(par), S # {}
  PROVE  \E n \in S : par[n] \notin S
<1> DEFINE T == {dep[n] : n \in S}
<1>1. T \subseteq Nat /\ T # {}
  BY DEF Tree, Forest, NodesOf
<1> HIDE DEF T
<1>2. PICK x \in T : \A y \in T : x <= y
  BY <1>1, LeastOf
<1>3. PICK n \in S : dep[n] = x
  BY <1>2 DEF T
<1>4. ASSUME par[n] \in S PROVE FALSE
  <2>1. par[n] \in Nodes /\ dep[n] = dep[par[n]] + 1
    BY <1>4, RootAssumption DEF Tree, Forest, NodesOf, Level
  <2>2. dep[n] <= dep[par[n]]
    BY <1>2, <1>3, <1>4 DEF T
  <2> QED
    BY <2>1, <2>2 DEF Tree, Forest
<1> QED
  BY <1>4

\* A link is between nodes, and the lower one is deeper.
LEMMA Deeper ==
  ASSUME NEW par, NEW dep, NEW tab, Tree(par, dep, tab),
         NEW a, NEW d, Joined(tab, a, d)
  PROVE  /\ a \in NodesOf(par) /\ d \in NodesOf(par) /\ dep[a] <= dep[d]
         /\ a # d => dep[a] < dep[d]
<1>1. \A b, c : Joined(tab, b, c) => b \in NodesOf(par) /\ c \in NodesOf(par) /\ dep[b] <= dep[c]
  <2> SUFFICES ASSUME NEW b, NEW c, Joined(tab, b, c) PROVE b \in NodesOf(par) /\ c \in NodesOf(par) /\ dep[b] <= dep[c]
    OBVIOUS
  <2>1. PICK l \in tab : l.ancestor = b /\ l.descendant = c
    BY DEF Joined
  <2>2. b \in NodesOf(par) /\ c \in NodesOf(par) /\ l.depth \in Nat /\ dep[c] = dep[b] + l.depth
    BY <2>1 DEF Tree, Forest, Closed
  <2>3. dep[b] \in Nat
    BY <2>2 DEF Tree, Forest, NodesOf
  <2> QED
    BY <2>2, <2>3
<1>2. CASE a # d
  <2>1. par[d] # Root /\ Joined(tab, a, par[d])
    BY <1>1, <1>2 DEF Tree, Closed
  <2>2. dep[a] <= dep[par[d]] /\ dep[d] = dep[par[d]] + 1 /\ par[d] \in NodesOf(par)
    BY <1>1, <2>1 DEF Tree, Forest, Level
  <2>3. dep[a] \in Nat /\ dep[par[d]] \in Nat
    BY <1>1, <2>2 DEF Tree, Forest, NodesOf
  <2> QED
    BY <1>1, <2>2, <2>3
<1> QED
  BY <1>1, <1>2

\* Whoever is above a node is above what is below it.
LEMMA Transitive ==
  ASSUME NEW par, NEW dep, NEW tab, Tree(par, dep, tab),
         NEW a, NEW b, NEW c, Joined(tab, a, b), Joined(tab, b, c)
  PROVE  Joined(tab, a, c)
<1> DEFINE S == {d \in NodesOf(par) : Joined(tab, b, d) /\ ~Joined(tab, a, d)}
<1>1. a \in NodesOf(par) /\ b \in NodesOf(par) /\ c \in NodesOf(par)
  BY Deeper
<1>2. ASSUME S # {} PROVE FALSE
  <2>1. PICK d \in S : par[d] \notin S
    BY <1>2, Topmost
  <2>2. d \in NodesOf(par) /\ Joined(tab, b, d) /\ ~Joined(tab, a, d) /\ d # b
    BY <2>1
  <2>3. par[d] # Root /\ Joined(tab, b, par[d]) /\ par[d] \in NodesOf(par)
    BY <1>1, <2>2 DEF Tree, Closed, Forest
  <2>4. Joined(tab, a, par[d])
    BY <2>1, <2>3
  <2> QED
    BY <1>1, <2>2, <2>3, <2>4 DEF Tree, Closed
<1> QED
  BY <1>1, <1>2

\* The ancestors of a node are those the table links it to.
LEMMA LinkedAreAncestors ==
  ASSUME Tree(parent, depth, links),
         NEW d \in NodesOf(parent)
  PROVE  Ancestors(d) = {a \in NodesOf(parent) : Joined(links, a, d)}
<1>1. ASSUME NEW a \in Ancestors(d) PROVE Joined(links, a, d)
  <2> DEFINE S == {b \in NodesOf(parent) : Joined(links, b, d)}
  <2>1. S \in SUBSET NodesOf(parent) /\ d \in S
    BY DEF Tree, Closed
  <2>2. ASSUME NEW m \in S, parent[m] \in NodesOf(parent) PROVE parent[m] \in S
    <3>1. Joined(links, parent[m], parent[m]) /\ parent[m] # Root
      BY <2>2, RootAssumption DEF Tree, Closed, NodesOf
    <3>2. depth[parent[m]] # depth[m]
      BY <2>2, <3>1 DEF Tree, Forest, Level, NodesOf
    <3>3. Joined(links, parent[m], m)
      BY <2>2, <3>1, <3>2 DEF Tree, Closed
    <3> QED
      BY <2>2, <3>3, Transitive
  <2> HIDE DEF S
  <2>3. a \in S
    BY <1>1, <2>1, <2>2 DEF Ancestors, Present, NodesOf
  <2> QED
    BY <2>3 DEF S
<1>2. ASSUME NEW a \in NodesOf(parent), Joined(links, a, d),
             NEW U \in SUBSET NodesOf(parent), d \in U, \A m \in U : parent[m] \in NodesOf(parent) => parent[m] \in U
      PROVE  a \in U
  <2> DEFINE S == {x \in NodesOf(parent) : Joined(links, a, x) /\ x \in U /\ a \notin U}
  <2>1. ASSUME S # {} PROVE FALSE
    <3>1. PICK x \in S : parent[x] \notin S
      BY <2>1, Topmost
    <3>2. x \in NodesOf(parent) /\ x # a /\ Joined(links, a, x) /\ x \in U /\ a \notin U
      BY <3>1
    <3>3. Joined(links, a, parent[x]) /\ parent[x] \in NodesOf(parent)
      BY <3>2 DEF Tree, Closed, Forest
    <3> QED
      BY <1>2, <3>1, <3>2, <3>3
  <2> QED
    BY <1>2, <2>1
<1> QED
  BY <1>1, <1>2 DEF Ancestors, Present, NodesOf

\* A node has one ancestor for each level above it, and itself.
LEMMA AncestorsCounted ==
  ASSUME Tree(parent, depth, links),
         NEW n \in NodesOf(parent)
  PROVE  IsFiniteSet(Ancestors(n)) /\ Cardinality(Ancestors(n)) = depth[n] + 1
<1> DEFINE S == {d \in NodesOf(parent) : ~(IsFiniteSet(Ancestors(d)) /\ Cardinality(Ancestors(d)) = depth[d] + 1)}
<1>1. ASSUME S # {} PROVE FALSE
  <2>1. PICK d \in S : parent[d] \notin S
    BY <1>1, Topmost
  <2>2. d \in NodesOf(parent)
    BY <2>1
  <2>3. CASE parent[d] = Root
    <3>1. Ancestors(d) = {d} /\ depth[d] = 0
      BY <2>2, <2>3, LinkedAreAncestors DEF Tree, Closed, Forest, Level
    <3>2. IsFiniteSet(Ancestors(d)) /\ Cardinality(Ancestors(d)) = 1
      BY <3>1, FS_Singleton
    <3> QED
      BY <2>1, <3>1, <3>2
  <2>4. CASE parent[d] # Root
    <3> DEFINE p == parent[d]
    <3>1. p \in NodesOf(parent) /\ depth[d] = depth[p] + 1
      BY <2>2, <2>4 DEF Tree, Forest, Level
    <3>2. IsFiniteSet(Ancestors(p)) /\ Cardinality(Ancestors(p)) = depth[p] + 1
      BY <2>1, <3>1
    <3>3. ~Joined(links, d, p)
      BY <3>1, Deeper, <2>2 DEF Tree, Forest, NodesOf
    <3>4. Ancestors(d) = Ancestors(p) \cup {d} /\ d \notin Ancestors(p)
      BY <2>2, <2>4, <3>1, <3>3, LinkedAreAncestors DEF Tree, Closed
    <3>5. IsFiniteSet(Ancestors(d)) /\ Cardinality(Ancestors(d)) = Cardinality(Ancestors(p)) + 1
      BY <3>2, <3>4, FS_AddElement
    <3> QED
      BY <2>1, <3>1, <3>2, <3>5
  <2> QED
    BY <2>3, <2>4
<1> QED
  BY <1>1

\* Such a table is what the property asks for.
LEMMA TreeShown ==
  ASSUME Tree(parent, depth, links) PROVE LinksAreTheTree
<1> DEFINE Shown == UNION {{[ancestor |-> a, descendant |-> d,
                            depth |-> Cardinality(Ancestors(d)) - Cardinality(Ancestors(a))] :
                           a \in Ancestors(d)} : d \in NodesOf(parent)}
<1>1. \A n \in NodesOf(parent) : Cardinality(Ancestors(n)) = depth[n] + 1 /\ depth[n] \in Nat
  BY AncestorsCounted DEF Tree, Forest, NodesOf
<1>2. \A d \in NodesOf(parent) : Ancestors(d) = {a \in NodesOf(parent) : Joined(links, a, d)}
  BY LinkedAreAncestors
<1>3. ASSUME NEW l \in links PROVE l \in Shown
  <2>1. /\ l \in [ancestor : NodesOf(parent), descendant : NodesOf(parent), depth : Nat]
        /\ depth[l.descendant] = depth[l.ancestor] + l.depth /\ Joined(links, l.ancestor, l.descendant)
    BY DEF Tree, Forest, Closed, Joined
  <2>2. l.ancestor \in Ancestors(l.descendant)
    BY <1>2, <2>1
  <2>3. l.depth = Cardinality(Ancestors(l.descendant)) - Cardinality(Ancestors(l.ancestor))
    BY <1>1, <2>1
  <2>4. l = [ancestor |-> l.ancestor, descendant |-> l.descendant, depth |-> l.depth]
    BY <2>1
  <2> QED
    BY <2>1, <2>2, <2>3, <2>4
<1>4. ASSUME NEW d \in NodesOf(parent), NEW a \in Ancestors(d)
      PROVE  [ancestor |-> a, descendant |-> d,
              depth |-> Cardinality(Ancestors(d)) - Cardinality(Ancestors(a))] \in links
  <2>1. PICK l \in links : l.ancestor = a /\ l.descendant = d
    BY <1>2, <1>4 DEF Joined
  <2>2. a \in NodesOf(parent) /\ depth[d] = depth[a] + l.depth /\ l.depth \in Nat
    BY <1>2, <1>4, <2>1 DEF Tree, Forest, Closed
  <2>3. l.depth = Cardinality(Ancestors(d)) - Cardinality(Ancestors(a))
    BY <1>1, <2>2
  <2>4. l = [ancestor |-> a, descendant |-> d, depth |-> l.depth]
    BY <2>1 DEF Tree, Forest
  <2> QED
    BY <2>1, <2>3, <2>4
<1>5. links = Shown
  BY <1>3, <1>4
<1>6. ASSUME NEW n \in NodesOf(parent)
      PROVE  /\ depth[n] = Cardinality(Ancestors(n)) - 1
             /\ ReportingFilter(n) = {d \in NodesOf(parent) : n \in Ancestors(d)}
  <2>1. \A d : d \in ReportingFilter(n) <=> Joined(links, n, d)
    BY DEF ReportingFilter, Branch, Joined
  <2>2. \A d : Joined(links, n, d) => d \in NodesOf(parent)
    BY Deeper
  <2> QED
    BY <1>1, <1>2, <1>6, <2>1, <2>2
<1>7. ASSUME NEW u \in People PROVE Visible(u) = {d \in NodesOf(parent) : placed[u] \in Ancestors(d)}
  <2>1. \A d : Joined(links, placed[u], d) => placed[u] \in NodesOf(parent)
    BY Deeper
  <2> QED
    BY <1>2, <2>1 DEF Visible, Present, NodesOf, Linked, Joined
<1> QED
  BY <1>5, <1>6, <1>7 DEF LinksAreTheTree, Present, NodesOf

----------------------------------------------------------------------------
\* One request at a time

\* What Create writes.
Created(par, dep, tab, n, p, par1, dep1, tab1) ==
  /\ par1 = [par EXCEPT ![n] = p] /\ dep1 = [dep EXCEPT ![n] = Level(dep, p)]
  /\ tab1 = tab \cup {[ancestor |-> n, descendant |-> n, depth |-> 0]} \cup
              {[l EXCEPT !.descendant = n, !.depth = @ + 1] : l \in Above(p, tab)}

\* A new node.
LEMMA CreateKeeps ==
  ASSUME NEW par, NEW dep, NEW tab, Tree(par, dep, tab),
         NEW n \in Nodes, par[n] = None, NEW p \in NodesOf(par) \cup {Root},
         NEW par1, NEW dep1, NEW tab1, Created(par, dep, tab, n, p, par1, dep1, tab1)
  PROVE  Tree(par1, dep1, tab1)
<1>0. par1 = [par EXCEPT ![n] = p] /\ dep1 = [dep EXCEPT ![n] = Level(dep, p)]
  BY DEF Created
<1>1. n \notin NodesOf(par) /\ p # n /\ p # None /\ Level(dep, p) \in Nat
  <2>1. n \notin NodesOf(par) /\ p # n /\ p # None
    BY RootAssumption DEF NodesOf
  <2>2. p # Root => dep[p] \in Nat
    BY DEF Tree, Forest, NodesOf
  <2> QED
    BY <2>1, <2>2 DEF Level
<1>2. par1[n] = p /\ dep1[n] = Level(dep, p)
  BY <1>0 DEF Tree, Forest
<1>3. \A m \in NodesOf(par) : par1[m] = par[m] /\ dep1[m] = dep[m] /\ dep[m] \in Nat /\ m # n
  BY <1>0, <1>1 DEF Tree, Forest, NodesOf
<1>4. NodesOf(par1) = NodesOf(par) \cup {n}
  BY <1>0, <1>1, <1>2 DEF Tree, Forest, NodesOf
<1>5. \A l \in tab : /\ l \in [ancestor : NodesOf(par), descendant : NodesOf(par), depth : Nat]
                     /\ dep[l.descendant] = dep[l.ancestor] + l.depth
  BY DEF Tree, Forest, Closed
<1>6. Root \notin NodesOf(par)
  BY RootAssumption DEF NodesOf
<1> DEFINE Copy(l) == [l EXCEPT !.descendant = n, !.depth = @ + 1]
           Self == [ancestor |-> n, descendant |-> n, depth |-> 0]
<1>7. ASSUME NEW l \in Above(p, tab)
      PROVE  /\ Copy(l) \in [ancestor : NodesOf(par1), descendant : NodesOf(par1), depth : Nat]
             /\ Copy(l).ancestor = l.ancestor /\ Copy(l).descendant = n /\ Copy(l).depth = l.depth + 1
             /\ p \in NodesOf(par) /\ l \in tab /\ l.ancestor \in NodesOf(par) /\ l.descendant = p
             /\ dep1[n] = dep1[l.ancestor] + (l.depth + 1)
  <2>1. l \in tab /\ l.descendant = p
    BY DEF Above
  <2>2. p \in NodesOf(par) /\ l.ancestor \in NodesOf(par) /\ l.depth \in Nat /\ dep[p] = dep[l.ancestor] + l.depth
    BY <1>5, <2>1
  <2>3. Level(dep, p) = dep[p] + 1
    BY <1>6, <2>2 DEF Level
  <2>4. dep1[n] = dep1[l.ancestor] + (l.depth + 1)
    <3>1. dep1[l.ancestor] = dep[l.ancestor] /\ dep[l.ancestor] \in Nat
      BY <1>3, <2>2
    <3>2. dep1[n] = (dep[l.ancestor] + l.depth) + 1
      BY <1>2, <2>2, <2>3
    <3> QED
      BY <2>2, <3>1, <3>2
  <2>5. l \in [ancestor : NodesOf(par), descendant : NodesOf(par), depth : Nat]
    BY <1>5, <2>1
  <2>6. Copy(l) \in [ancestor : NodesOf(par1), descendant : NodesOf(par1), depth : Nat]
    <3>1. n \in NodesOf(par1) /\ l.ancestor \in NodesOf(par1) /\ l.depth + 1 \in Nat
      BY <1>4, <2>2
    <3> QED
      BY <2>5, <3>1
  <2>7. Copy(l).ancestor = l.ancestor /\ Copy(l).descendant = n /\ Copy(l).depth = l.depth + 1
    BY <2>5
  <2> QED
    BY <2>1, <2>2, <2>4, <2>6, <2>7
<1>8. Self \in [ancestor : NodesOf(par1), descendant : NodesOf(par1), depth : Nat]
      /\ Self.ancestor = n /\ Self.descendant = n /\ Self.depth = 0
  BY <1>4
<1>9. tab1 = tab \cup {Self} \cup {Copy(l) : l \in Above(p, tab)}
  BY DEF Created
<1> HIDE DEF Copy, Self
<1>10. \A a, d : Joined(tab1, a, d) <=> Joined(tab, a, d) \/ (d = n /\ (a = n \/ Joined(tab, a, p)))
  <2> SUFFICES ASSUME NEW a, NEW d
               PROVE  Joined(tab1, a, d) <=> Joined(tab, a, d) \/ (d = n /\ (a = n \/ Joined(tab, a, p)))
    OBVIOUS
  <2>1. ASSUME Joined(tab1, a, d) PROVE Joined(tab, a, d) \/ (d = n /\ (a = n \/ Joined(tab, a, p)))
    <3>1. PICK l \in tab1 : l.ancestor = a /\ l.descendant = d
      BY <2>1 DEF Joined
    <3>2. CASE l \in tab
      BY <3>1, <3>2 DEF Joined
    <3>3. CASE l = Self
      BY <1>8, <3>1, <3>3
    <3>4. CASE \E k \in Above(p, tab) : l = Copy(k)
      BY <1>7, <3>1, <3>4 DEF Joined
    <3> QED
      BY <1>9, <3>1, <3>2, <3>3, <3>4
  <2>2. ASSUME Joined(tab, a, d) PROVE Joined(tab1, a, d)
    BY <1>9, <2>2 DEF Joined
  <2>3. ASSUME d = n, a = n PROVE Joined(tab1, a, d)
    BY <1>8, <1>9, <2>3 DEF Joined
  <2>4. ASSUME d = n, Joined(tab, a, p) PROVE Joined(tab1, a, d)
    <3>1. PICK l \in Above(p, tab) : l.ancestor = a
      BY <2>4 DEF Joined, Above
    <3>2. Copy(l) \in tab1
      BY <1>9
    <3> QED
      BY <1>7, <2>4, <3>1, <3>2 DEF Joined
  <2> QED
    BY <2>1, <2>2, <2>3, <2>4
<1>11. Forest(par1, dep1, tab1)
  <2>1. par1 \in [Nodes -> Nodes \cup {Root, None}] /\ dep1 \in [Nodes -> Nat]
    BY <1>0, <1>1 DEF Tree, Forest, NodesOf
  <2>2. tab1 \subseteq [ancestor : NodesOf(par1), descendant : NodesOf(par1), depth : Nat]
    <3>1. tab \subseteq [ancestor : NodesOf(par1), descendant : NodesOf(par1), depth : Nat]
      BY <1>4, <1>5
    <3> QED
      BY <1>7, <1>8, <1>9, <3>1, Zenon
  <2>3. ASSUME NEW m \in NodesOf(par1)
        PROVE  par1[m] \in NodesOf(par1) \cup {Root} /\ dep1[m] = Level(dep1, par1[m])
    <3>1. CASE m = n
      BY <1>2, <1>3, <1>4, <1>6, <3>1 DEF Level
    <3>2. CASE m # n
      <4>1. m \in NodesOf(par) /\ par[m] \in NodesOf(par) \cup {Root} /\ dep[m] = Level(dep, par[m])
        BY <1>4, <3>2 DEF Tree, Forest
      <4> QED
        BY <1>3, <1>4, <1>6, <4>1 DEF Level
    <3> QED
      BY <3>1, <3>2
  <2> QED
    BY <2>1, <2>2, <2>3 DEF Forest
<1>12. Closed(par1, dep1, tab1)
  <2>1. \A m \in NodesOf(par1) : Joined(tab1, m, m)
    BY <1>4, <1>10 DEF Tree, Closed
  <2>2. \A a, d : Joined(tab, a, d) => a \in NodesOf(par) /\ d \in NodesOf(par)
    BY Deeper
  <2>3. ASSUME NEW a \in NodesOf(par1), NEW d \in NodesOf(par1), a # d
        PROVE  Joined(tab1, a, d) <=> par1[d] # Root /\ Joined(tab1, a, par1[d])
    <3>1. CASE d = n
      <4>1. a # n /\ (Joined(tab1, a, n) <=> Joined(tab, a, n) \/ Joined(tab, a, p))
        BY <1>10, <2>3, <3>1, Zenon
      <4>2. ~Joined(tab, a, n) /\ (Joined(tab, a, p) => p # Root)
        BY <1>1, <1>6, <2>2, Zenon
      <4>3. Joined(tab1, a, p) <=> Joined(tab, a, p)
        BY <1>1, <1>10, Zenon
      <4> QED
        BY <1>2, <3>1, <4>1, <4>2, <4>3, Zenon
    <3>2. CASE d # n
      <4>1. d \in NodesOf(par) /\ par1[d] = par[d] /\ par[d] \in NodesOf(par) \cup {Root}
        BY <1>3, <1>4, <3>2 DEF Tree, Forest
      <4>2. par[d] # n
        BY <1>1, <4>1, RootAssumption
      <4>3. \A b : Joined(tab1, b, d) <=> Joined(tab, b, d)
        BY <1>10, <3>2 DEF Joined
      <4>4. \A b : Joined(tab1, b, par[d]) <=> Joined(tab, b, par[d])
        BY <1>10, <4>2
      <4>5. CASE a = n
        BY <1>1, <2>2, <4>1, <4>3, <4>4, <4>5
      <4>6. CASE a # n
        <5>1. a \in NodesOf(par)
          BY <1>4, <4>6
        <5>2. Joined(tab, a, d) <=> par[d] # Root /\ Joined(tab, a, par[d])
          BY <2>3, <4>1, <5>1 DEF Tree, Closed
        <5> QED
          BY <4>1, <4>3, <4>4, <5>2
      <4> QED
        BY <4>5, <4>6
    <3> QED
      BY <3>1, <3>2
  <2>4. ASSUME NEW l \in tab1 PROVE dep1[l.descendant] = dep1[l.ancestor] + l.depth
    <3>1. CASE l \in tab
      BY <1>3, <1>5, <3>1
    <3>2. CASE l = Self
      <4>1. dep1[n] \in Nat /\ l.descendant = n /\ l.ancestor = n /\ l.depth = 0
        BY <1>1, <1>2, <1>8, <3>2
      <4> QED
        BY <4>1
    <3>3. CASE \E k \in Above(p, tab) : l = Copy(k)
      BY <1>7, <3>3
    <3> QED
      BY <1>9, <3>1, <3>2, <3>3
  <2> QED
    BY <2>1, <2>3, <2>4 DEF Closed
<1> QED
  BY <1>11, <1>12 DEF Tree

\* What Move writes when the parent changes.
Shifted(par, dep, tab, n, p, par1, dep1) ==
  /\ par1 = [par EXCEPT ![n] = p]
  /\ dep1 = [d \in Nodes |-> IF Joined(tab, n, d) THEN dep[d] + Level(dep, p) - dep[n] ELSE dep[d]]

Rejoined(tab, n, p, tab1) ==
  LET branch == {l \in tab : l.ancestor = n}
      subtree == {l.descendant : l \in branch}
      kept == {l \in tab : l.descendant \notin subtree \/ l.ancestor \in subtree}
  IN tab1 = kept \cup {[ancestor |-> a.ancestor, descendant |-> l.descendant,
                        depth |-> a.depth + 1 + l.depth] : a \in Above(p, kept), l \in branch}

\* The link through the new parent, of a link a to it and a link b within the
\* subtree.
Through(a, b) == [ancestor |-> a.ancestor, descendant |-> b.descendant, depth |-> a.depth + 1 + b.depth]

\* The links afterwards: those that do not enter the subtree from outside, and
\* from what is above the new parent to all of the subtree.
LEMMA RejoinedLinks ==
  ASSUME NEW par, NEW dep, NEW tab, Tree(par, dep, tab), NEW n \in NodesOf(par),
         NEW p \in NodesOf(par) \cup {Root}, ~Joined(tab, n, p),
         NEW tab1, Rejoined(tab, n, p, tab1)
  PROVE  /\ \A l \in tab1 :
              \/ l \in tab /\ (Joined(tab, n, l.descendant) => Joined(tab, n, l.ancestor))
              \/ \E a, b \in tab : a.descendant = p /\ b.ancestor = n /\ l = Through(a, b)
         /\ \A a, d : Joined(tab1, a, d) <=>
              \/ Joined(tab, a, d) /\ (Joined(tab, n, d) => Joined(tab, n, a))
              \/ Joined(tab, a, p) /\ Joined(tab, n, d)
<1> DEFINE branch == {l \in tab : l.ancestor = n}
           subtree == {l.descendant : l \in branch}
           kept == {l \in tab : l.descendant \notin subtree \/ l.ancestor \in subtree}
<1>1. tab1 = kept \cup {Through(a, l) : a \in Above(p, kept), l \in branch}
  BY DEF Rejoined, Through
<1>2. \A d : d \in subtree <=> Joined(tab, n, d)
  BY DEF Joined
<1>3. \A l : l \in branch <=> l \in tab /\ l.ancestor = n
  OBVIOUS
<1>4. \A l : l \in kept <=> l \in tab /\ (l.descendant \in subtree => l.ancestor \in subtree)
  OBVIOUS
<1>5. \A a : a \in Above(p, kept) <=> a \in tab /\ a.descendant = p
  BY <1>2, <1>4 DEF Above
<1>6. \A a, b : /\ Through(a, b).ancestor = a.ancestor /\ Through(a, b).descendant = b.descendant
                /\ Through(a, b).depth = a.depth + 1 + b.depth
  BY DEF Through
<1> HIDE DEF branch, subtree, kept
<1>8. ASSUME NEW l \in tab1
      PROVE  \/ l \in tab /\ (Joined(tab, n, l.descendant) => Joined(tab, n, l.ancestor))
             \/ \E a, b \in tab : a.descendant = p /\ b.ancestor = n /\ l = Through(a, b)
  <2>1. CASE l \in kept
    BY <1>2, <1>4, <2>1
  <2>2. CASE \E a \in Above(p, kept), b \in branch : l = Through(a, b)
    <3>1. PICK a \in Above(p, kept), b \in branch : l = Through(a, b)
      BY <2>2
    <3>2. a \in tab /\ a.descendant = p /\ b \in tab /\ b.ancestor = n
      BY <1>3, <1>5
    <3> QED
      BY <3>1, <3>2
  <2> QED
    BY <1>1, <2>1, <2>2
<1>9. ASSUME NEW a, NEW d, Joined(tab1, a, d)
      PROVE  \/ Joined(tab, a, d) /\ (Joined(tab, n, d) => Joined(tab, n, a))
             \/ Joined(tab, a, p) /\ Joined(tab, n, d)
  <2>1. PICK l \in tab1 : l.ancestor = a /\ l.descendant = d
    BY <1>9 DEF Joined
  <2>2. CASE l \in tab /\ (Joined(tab, n, l.descendant) => Joined(tab, n, l.ancestor))
    BY <2>1, <2>2 DEF Joined
  <2>3. CASE \E k, b \in tab : k.descendant = p /\ b.ancestor = n /\ l = Through(k, b)
    BY <1>6, <2>1, <2>3 DEF Joined
  <2> QED
    BY <1>8, <2>2, <2>3
<1>10. ASSUME NEW a, NEW d, Joined(tab, a, d), Joined(tab, n, d) => Joined(tab, n, a) PROVE Joined(tab1, a, d)
  <2>1. PICK l \in tab : l.ancestor = a /\ l.descendant = d
    BY <1>10 DEF Joined
  <2>2. l \in kept
    BY <1>2, <1>4, <1>10, <2>1
  <2> QED
    BY <1>1, <2>1, <2>2 DEF Joined
<1>11. ASSUME NEW a, NEW d, Joined(tab, a, p), Joined(tab, n, d) PROVE Joined(tab1, a, d)
  <2>1. PICK k \in tab, b \in tab : k.ancestor = a /\ k.descendant = p /\ b.ancestor = n /\ b.descendant = d
    BY <1>11 DEF Joined
  <2>2. k \in Above(p, kept) /\ b \in branch
    BY <1>3, <1>5, <2>1
  <2>3. Through(k, b) \in tab1
    BY <1>1, <2>2
  <2> QED
    BY <1>6, <2>1, <2>3 DEF Joined
<1> QED
  BY <1>8, <1>9, <1>10, <1>11

\* A subtree moved to another place, beneath nothing of itself.
LEMMA MoveKeeps ==
  ASSUME NEW par, NEW dep, NEW tab, Tree(par, dep, tab), NEW n \in NodesOf(par),
         NEW p \in NodesOf(par) \cup {Root}, p # n, p # Root => ~Joined(tab, n, p),
         NEW par1, NEW dep1, Shifted(par, dep, tab, n, p, par1, dep1),
         NEW tab1, Rejoined(tab, n, p, tab1)
  PROVE  Tree(par1, dep1, tab1)
<1>1. Root \notin NodesOf(par) /\ None \notin NodesOf(par) \cup {Root} /\ n \in Nodes
  BY RootAssumption DEF NodesOf
<1>2. \A a, d : Joined(tab, a, d) => a \in NodesOf(par) /\ d \in NodesOf(par) /\ dep[a] <= dep[d]
                                      /\ (a # d => dep[a] < dep[d])
  BY Deeper
<1>3. ~Joined(tab, n, p)
  BY <1>1, <1>2
<1>4. \A a, b, c : Joined(tab, a, b) /\ Joined(tab, b, c) => Joined(tab, a, c)
  BY Transitive
<1>5. \A d \in NodesOf(par) : d \in Nodes /\ dep[d] \in Nat /\ par[d] \in NodesOf(par) \cup {Root}
                            /\ dep[d] = Level(dep, par[d]) /\ Joined(tab, d, d)
  BY DEF Tree, Forest, Closed, NodesOf
<1>6. \A a, d \in NodesOf(par) : a # d => (Joined(tab, a, d) <=> par[d] # Root /\ Joined(tab, a, par[d]))
  BY DEF Tree, Closed
<1>7. \A l \in tab : /\ l \in [ancestor : NodesOf(par), descendant : NodesOf(par), depth : Nat]
                     /\ dep[l.descendant] = dep[l.ancestor] + l.depth /\ Joined(tab, l.ancestor, l.descendant)
  BY DEF Tree, Forest, Closed, Joined
<1>8. /\ par1[n] = p /\ \A d \in Nodes \ {n} : par1[d] = par[d]
      /\ par1 \in [Nodes -> Nodes \cup {Root, None}] /\ NodesOf(par1) = NodesOf(par)
  <2>1. /\ par1 = [par EXCEPT ![n] = p] /\ par \in [Nodes -> Nodes \cup {Root, None}]
        /\ p \in Nodes \cup {Root, None}
    BY DEF Shifted, Tree, Forest, NodesOf
  <2> QED
    BY <1>1, <2>1 DEF NodesOf
<1>9. Level(dep, p) \in Nat
  BY <1>1, <1>5 DEF Level
<1>10. /\ dep1 = [d \in Nodes |-> IF Joined(tab, n, d) THEN dep[d] + Level(dep, p) - dep[n] ELSE dep[d]]
       /\ dep \in [Nodes -> Nat]
  BY DEF Shifted, Tree, Forest
<1>11. \A d : Joined(tab, n, d) => dep1[d] = dep[d] + Level(dep, p) - dep[n] /\ dep1[d] \in Nat
  <2> SUFFICES ASSUME NEW d, Joined(tab, n, d)
               PROVE  dep1[d] = dep[d] + Level(dep, p) - dep[n] /\ dep1[d] \in Nat
    OBVIOUS
  <2>1. d \in Nodes /\ dep[d] \in Nat /\ dep[n] \in Nat /\ dep[n] <= dep[d]
    BY <1>2, <1>5
  <2>2. dep1[d] = dep[d] + Level(dep, p) - dep[n]
    BY <1>10, <2>1
  <2> QED
    BY <1>9, <2>1, <2>2
<1>12. \A d \in Nodes : ~Joined(tab, n, d) => dep1[d] = dep[d]
  BY <1>10
<1>13. dep1 \in [Nodes -> Nat]
  BY <1>10, <1>11, <1>12
<1>14. /\ \A l \in tab1 :
             \/ l \in tab /\ (Joined(tab, n, l.descendant) => Joined(tab, n, l.ancestor))
             \/ \E a, b \in tab : a.descendant = p /\ b.ancestor = n /\ l = Through(a, b)
       /\ \A a, d : Joined(tab1, a, d) <=>
            \/ Joined(tab, a, d) /\ (Joined(tab, n, d) => Joined(tab, n, a))
            \/ Joined(tab, a, p) /\ Joined(tab, n, d)
  BY <1>3, RejoinedLinks
<1>15. tab1 \subseteq [ancestor : NodesOf(par1), descendant : NodesOf(par1), depth : Nat]
  <2> SUFFICES ASSUME NEW l \in tab1
               PROVE  l \in [ancestor : NodesOf(par), descendant : NodesOf(par), depth : Nat]
    BY <1>8
  <2>1. CASE l \in tab
    BY <1>7, <2>1
  <2>2. CASE l \notin tab
    <3>1. PICK a \in tab, b \in tab : l = Through(a, b)
      BY <1>14, <2>2
    <3>2. a.ancestor \in NodesOf(par) /\ b.descendant \in NodesOf(par) /\ a.depth \in Nat /\ b.depth \in Nat
      BY <1>7
    <3> QED
      BY <3>1, <3>2 DEF Through
  <2> QED
    BY <2>1, <2>2
<1>16. ASSUME NEW d \in NodesOf(par) PROVE dep1[d] = Level(dep1, par1[d]) /\ par1[d] \in NodesOf(par) \cup {Root}
  <2>1. CASE d = n
    <3>1. dep1[n] = Level(dep, p)
      BY <1>5, <1>9, <1>11
    <3>2. p # Root => dep1[p] = dep[p]
      BY <1>3, <1>5, <1>12
    <3> QED
      BY <1>8, <2>1, <3>1, <3>2 DEF Level
  <2>2. CASE d # n
    <3>1. par1[d] = par[d] /\ d \in Nodes /\ par[d] \in NodesOf(par) \cup {Root} /\ dep[d] = Level(dep, par[d])
      BY <1>5, <1>8, <2>2
    <3>2. CASE Joined(tab, n, d)
      <4>1. par[d] # Root /\ Joined(tab, n, par[d])
        BY <1>6, <2>2, <3>2
      <4>2. dep1[par[d]] = dep[par[d]] + Level(dep, p) - dep[n] /\ dep1[d] = dep[d] + Level(dep, p) - dep[n]
        BY <1>11, <3>2, <4>1
      <4>3. dep[d] = dep[par[d]] + 1 /\ dep[par[d]] \in Nat /\ dep[n] \in Nat
        BY <1>5, <3>1, <4>1 DEF Level
      <4>4. dep1[d] = dep1[par[d]] + 1
        BY <1>9, <4>2, <4>3
      <4> QED
        BY <3>1, <4>1, <4>4 DEF Level
    <3>3. CASE ~Joined(tab, n, d)
      <4>1. par[d] # Root => ~Joined(tab, n, par[d])
        BY <1>6, <2>2, <3>3
      <4>2. par[d] # Root => dep1[par[d]] = dep[par[d]]
        BY <1>5, <1>12, <3>1, <4>1
      <4>3. dep1[d] = dep[d]
        BY <1>12, <3>1, <3>3
      <4> QED
        BY <3>1, <4>2, <4>3 DEF Level
    <3> QED
      BY <3>2, <3>3
  <2> QED
    BY <2>1, <2>2
<1>17. ASSUME NEW a \in NodesOf(par), NEW d \in NodesOf(par), a # d
       PROVE  Joined(tab1, a, d) <=> par1[d] # Root /\ Joined(tab1, a, par1[d])
  <2>1. Joined(tab1, a, d) <=> \/ Joined(tab, a, d) /\ (Joined(tab, n, d) => Joined(tab, n, a))
                               \/ Joined(tab, a, p) /\ Joined(tab, n, d)
    BY <1>14
  <2>2. CASE d = n
    <3>1. ~(Joined(tab, a, n) /\ Joined(tab, n, a))
      <4> SUFFICES ASSUME Joined(tab, a, n), Joined(tab, n, a) PROVE FALSE
        OBVIOUS
      <4>1. dep[a] < dep[n] /\ dep[n] < dep[a] /\ dep[a] \in Nat /\ dep[n] \in Nat
        BY <1>2, <1>5, <1>17, <2>2
      <4> QED
        BY <4>1
    <3>2. Joined(tab, n, n)
      BY <1>5
    <3>3. Joined(tab1, a, n) <=> Joined(tab, a, p)
      BY <2>1, <2>2, <3>1, <3>2
    <3>4. Joined(tab, a, p) => p # Root
      BY <1>1, <1>2
    <3>5. Joined(tab1, a, p) <=> Joined(tab, a, p)
      BY <1>3, <1>14
    <3> QED
      BY <1>8, <2>2, <3>3, <3>4, <3>5
  <2>3. CASE d # n
    <3>1. par1[d] = par[d] /\ (Joined(tab, a, d) <=> par[d] # Root /\ Joined(tab, a, par[d]))
      BY <1>5, <1>6, <1>8, <1>17, <2>3
    <3>2. Joined(tab, n, d) <=> par[d] # Root /\ Joined(tab, n, par[d])
      BY <1>6, <2>3
    <3>3. Joined(tab1, a, par[d]) <=> \/ Joined(tab, a, par[d]) /\ (Joined(tab, n, par[d]) => Joined(tab, n, a))
                                      \/ Joined(tab, a, p) /\ Joined(tab, n, par[d])
      BY <1>14
    <3> QED
      BY <2>1, <3>1, <3>2, <3>3
  <2> QED
    BY <2>2, <2>3
<1>18. ASSUME NEW l \in tab1 PROVE dep1[l.descendant] = dep1[l.ancestor] + l.depth
  <2>1. CASE l \in tab /\ (Joined(tab, n, l.descendant) => Joined(tab, n, l.ancestor))
    <3>1. /\ l.ancestor \in Nodes /\ l.descendant \in Nodes /\ l.depth \in Nat
          /\ dep[l.ancestor] \in Nat /\ dep[l.descendant] = dep[l.ancestor] + l.depth
          /\ Joined(tab, l.ancestor, l.descendant) /\ dep[n] \in Nat
      BY <1>5, <1>7, <2>1
    <3>2. CASE Joined(tab, n, l.ancestor)
      <4>1. Joined(tab, n, l.descendant)
        BY <1>4, <3>1, <3>2
      <4>2. /\ dep1[l.ancestor] = dep[l.ancestor] + Level(dep, p) - dep[n]
            /\ dep1[l.descendant] = dep[l.descendant] + Level(dep, p) - dep[n]
        BY <1>11, <3>2, <4>1
      <4> QED
        BY <1>9, <3>1, <4>2
    <3>3. CASE ~Joined(tab, n, l.ancestor)
      <4>1. dep1[l.ancestor] = dep[l.ancestor] /\ dep1[l.descendant] = dep[l.descendant]
        BY <1>12, <2>1, <3>1, <3>3
      <4> QED
        BY <3>1, <4>1
    <3> QED
      BY <3>2, <3>3
  <2>2. ASSUME NEW a \in tab, NEW b \in tab, a.descendant = p, b.ancestor = n, l = Through(a, b)
        PROVE  dep1[l.descendant] = dep1[l.ancestor] + l.depth
    <3>1. /\ Joined(tab, a.ancestor, p) /\ p \in NodesOf(par) /\ dep[p] = dep[a.ancestor] + a.depth
          /\ a.ancestor \in NodesOf(par) /\ a.depth \in Nat
      BY <1>7, <2>2
    <3>2. Joined(tab, n, b.descendant) /\ dep[b.descendant] = dep[n] + b.depth /\ b.depth \in Nat
          /\ b.descendant \in NodesOf(par)
      BY <1>7, <2>2
    <3>3. ~Joined(tab, n, a.ancestor)
      BY <1>3, <1>4, <3>1
    <3>4. dep1[a.ancestor] = dep[a.ancestor] /\ dep[a.ancestor] \in Nat
      BY <1>5, <1>12, <3>1, <3>3
    <3>5. dep1[b.descendant] = dep[b.descendant] + Level(dep, p) - dep[n] /\ dep[n] \in Nat /\ dep[b.descendant] \in Nat
      BY <1>5, <1>11, <3>2
    <3>6. Level(dep, p) = (dep[a.ancestor] + a.depth) + 1
      BY <1>1, <3>1 DEF Level
    <3>7. dep1[b.descendant] = dep1[a.ancestor] + (a.depth + 1 + b.depth)
      BY <3>1, <3>2, <3>4, <3>5, <3>6
    <3>8. l.ancestor = a.ancestor /\ l.descendant = b.descendant /\ l.depth = a.depth + 1 + b.depth
      BY <2>2 DEF Through
    <3> QED
      BY <3>7, <3>8
  <2> QED
    BY <1>14, <2>1, <2>2
<1>19. Forest(par1, dep1, tab1)
  BY <1>8, <1>13, <1>15, <1>16 DEF Forest
<1>20. \A m \in NodesOf(par1) : Joined(tab1, m, m)
  BY <1>5, <1>8, <1>14
<1> QED
  BY <1>8, <1>17, <1>18, <1>19, <1>20 DEF Tree, Closed

\* A step that leaves the tree alone and begins or ends no request but one.
LEMMA RequestKeeps ==
  ASSUME NEW only, Slots = {only}, Inv, UNCHANGED <<tree, placed>>, NEW r \in Asking \cup {Idle},
         handling' = [handling EXCEPT ![only] = r],
         r # Idle => Asked(r, parent, depth, links)
  PROVE  Inv'
<1>1. parent' = parent /\ depth' = depth /\ links' = links
  BY DEF tree
<1>2. handling' \in [Slots -> Asking \cup {Idle}] /\ handling'[only] = r
  BY DEF Inv
<1> QED
  BY <1>1, <1>2 DEF Inv

\* Every operation keeps the tree.
LEMMA StepKeeps ==
  ASSUME NEW only, Slots = {only}, Inv, [Next]_vars PROVE Inv'
<1>1. /\ Tree(parent, depth, links) /\ handling \in [Slots -> Asking \cup {Idle}]
      /\ handling[only] # Idle => Asked(handling[only], parent, depth, links)
      /\ only \in Slots
  BY DEF Inv
<1>2. Present = NodesOf(parent) /\ (\A a, d : Linked(a, d) = Joined(links, a, d))
      /\ \A p : Below(p) = Level(depth, p)
  BY DEF Present, NodesOf, Linked, Joined, Below, Level
<1>3. \A p \in Present \cup {Root} : Level(depth, p) \in Nat /\ p \in Nodes \cup {Root}
  BY <1>1, <1>2, RootAssumption DEF Tree, Forest, NodesOf, Level
<1>4. ASSUME NEW n \in Nodes, NEW p \in Present \cup {Root}, BeginCreate(only, n, p) PROVE Inv'
  <2> DEFINE r == [at |-> "create", node |-> n, parent |-> p, depth |-> Below(p), changed |-> TRUE]
  <2>1. parent[n] = None /\ handling' = [handling EXCEPT ![only] = r] /\ UNCHANGED <<tree, placed>>
    BY <1>4 DEF BeginCreate, Begin
  <2>2. r \in Asking /\ Asked(r, parent, depth, links)
    BY <1>2, <1>3, <1>4, <2>1 DEF Asking, Asked
  <2> QED
    BY <2>1, <2>2, RequestKeeps
<1>5. ASSUME NEW n \in Nodes, NEW p \in Present \cup {Root}, BeginMove(only, n, p) PROVE Inv'
  <2> DEFINE r == [at |-> "move", node |-> n, parent |-> p, depth |-> Below(p), changed |-> p # parent[n]]
  <2>1. /\ n \in Present /\ p # n /\ (p = Root \/ ~Linked(n, p))
        /\ handling' = [handling EXCEPT ![only] = r] /\ UNCHANGED <<tree, placed>>
    BY <1>5 DEF BeginMove, Begin
  <2>2. r \in Asking
    BY <1>2, <1>3, <1>5 DEF Asking
  <2>3. Asked(r, parent, depth, links)
    BY <1>2, <1>5, <2>1 DEF Asked
  <2> QED
    BY <2>1, <2>2, <2>3, RequestKeeps
<1>6. ASSUME Create(only) PROVE Inv'
  <2> DEFINE r == handling[only]
  <2>0. r.at = "create"
    BY <1>6 DEF Create
  <2>1. r # Idle
    BY <2>0 DEF Idle
  <2>2. /\ r \in Asking /\ parent[r.node] = None /\ r.parent \in NodesOf(parent) \cup {Root}
        /\ r.depth = Level(depth, r.parent)
    BY <1>1, <2>0, <2>1 DEF Asked
  <2>3. r.node \in Nodes
    BY <2>2 DEF Asking
  <2>4. /\ Created(parent, depth, links, r.node, r.parent, parent', depth', links')
        /\ handling' = [handling EXCEPT ![only] = Idle] /\ placed' = placed
    BY <1>6, <2>2 DEF Create, Done, Created
  <2>5. PICK par1, dep1, tab1 : par1 = parent' /\ dep1 = depth' /\ tab1 = links'
    OBVIOUS
  <2>6. Tree(par1, dep1, tab1)
    <3> HIDE DEF r
    <3> QED
      BY <1>1, <2>2, <2>3, <2>4, <2>5, CreateKeeps
  <2>7. handling' \in [Slots -> Asking \cup {Idle}] /\ \A s \in Slots : handling'[s] = Idle
    BY <1>1, <2>4
  <2>8. ASSUME NEW n \in Nodes, parent'[n] = None PROVE depth'[n] = 0
    <3>1. /\ parent' = [parent EXCEPT ![r.node] = r.parent]
          /\ depth' = [depth EXCEPT ![r.node] = Level(depth, r.parent)]
      BY <2>4 DEF Created
    <3>2. r.parent # None
      BY <1>2, <1>3, <2>2, RootAssumption
    <3>3. parent[n] = None /\ n # r.node
      BY <1>1, <2>3, <2>8, <3>1, <3>2 DEF Tree, Forest
    <3> QED
      BY <1>1, <3>1, <3>3 DEF Tree, Forest, Inv
  <2> QED
    BY <2>4, <2>5, <2>6, <2>7, <2>8 DEF Inv
<1>7. ASSUME Move(only) PROVE Inv'
  <2> DEFINE r == handling[only]
  <2>1. r.at = "move" /\ r # Idle
    BY <1>7 DEF Move, Idle
  <2>2. /\ r.node \in NodesOf(parent) /\ r.parent # r.node
        /\ (r.parent # Root => ~Joined(links, r.node, r.parent))
        /\ r.changed = (r.parent # parent[r.node])
        /\ r.parent \in NodesOf(parent) \cup {Root} /\ r.depth = Level(depth, r.parent)
    BY <1>1, <2>1 DEF Asked
  <2>3. handling' = [handling EXCEPT ![only] = Idle] /\ parent' = [parent EXCEPT ![r.node] = r.parent]
        /\ placed' = placed
    BY <1>7 DEF Move, Done
  <2>4. handling' \in [Slots -> Asking \cup {Idle}] /\ \A s \in Slots : handling'[s] = Idle
    BY <1>1, <2>3
  <2>5. CASE r.parent = parent[r.node]
    <3>1. links' = links /\ depth' = depth
      BY <1>7, <2>2, <2>5 DEF Move
    <3>2. parent' = parent
      BY <1>1, <2>3, <2>5 DEF Tree, Forest
    <3> QED
      BY <1>1, <2>3, <2>4, <3>1, <3>2 DEF Inv
  <2>6. CASE r.parent # parent[r.node]
    <3>1. links' = Relinked(r.node, r.parent)
          /\ depth' = [d \in Nodes |-> IF Linked(r.node, d) THEN depth[d] + r.depth - depth[r.node]
                                       ELSE depth[d]]
      BY <1>7, <2>2, <2>6 DEF Move
    <3>2. Rejoined(links, r.node, r.parent, links')
      BY <3>1 DEF Relinked, Branch, Rejoined
    <3>3. Shifted(parent, depth, links, r.node, r.parent, parent', depth')
      BY <2>2, <2>3, <3>1 DEF Shifted, Linked, Joined
    <3>4. PICK par1, dep1, tab1 : par1 = parent' /\ dep1 = depth' /\ tab1 = links'
      OBVIOUS
    <3>5. Tree(par1, dep1, tab1)
      <4> HIDE DEF r
      <4> QED
        BY <1>1, <2>2, <3>2, <3>3, <3>4, MoveKeeps
    <3>6. ASSUME NEW n \in Nodes, parent'[n] = None PROVE depth'[n] = 0
      <4>1. r.parent # None
        BY <1>2, <1>3, <2>2, RootAssumption
      <4>2. parent[n] = None
        BY <1>1, <2>2, <2>3, <3>6, <4>1 DEF Tree, Forest, NodesOf
      <4>3. ~Joined(links, r.node, n)
        BY <1>1, <4>2, Deeper DEF NodesOf
      <4> QED
        BY <3>3, <4>2, <4>3 DEF Shifted, Inv
    <3> QED
      BY <2>3, <2>4, <3>4, <3>5, <3>6 DEF Inv
  <2> QED
    BY <2>5, <2>6
<1>8. ASSUME Abandon(only) PROVE Inv'
  BY <1>8, RequestKeeps DEF Abandon, Done
<1>9. ASSUME NEW u \in People, NEW n \in Nodes, AssignUser(u, n) PROVE Inv'
  BY <1>9 DEF AssignUser, tree, Inv
<1>10. ASSUME UNCHANGED geography PROVE Inv'
  BY <1>10 DEF geography, Inv
<1> QED
  <2>1. \A s \in Slots : s = only
    OBVIOUS
  <2>2. CASE GeographyNext
    BY <1>4, <1>5, <1>6, <1>7, <1>8, <1>9, <2>1, <2>2 DEF GeographyNext
  <2> QED
    BY <1>10, <2>2 DEF Next, vars

\* No request is under way at first, and no node is there.
LEMMA InitHolds ==
  Init => Inv
<1> SUFFICES ASSUME Init PROVE Inv
  OBVIOUS
<1>1. /\ parent = [n \in Nodes |-> None] /\ depth = [n \in Nodes |-> 0] /\ links = {}
      /\ handling = [s \in Slots |-> Idle] /\ placed = [u \in People |-> None]
  BY DEF Init, GeographyInit
<1>2. NodesOf(parent) = {}
  BY <1>1 DEF NodesOf
<1> QED
  BY <1>1, <1>2 DEF Inv, Tree, Forest, Closed

\* No more levels than nodes: a child of p is no deeper than the last of them.
LEMMA DepthsBounded ==
  ASSUME IsFiniteSet(Nodes), Tree(parent, depth, links), NEW p \in Present \cup {Root}, NEW n \in Nodes,
         n \notin Present \/ (p # Root => ~Linked(n, p))
  PROVE  Level(depth, p) \in Depths
<1>1. Cardinality(Nodes) \in Nat /\ Cardinality(Nodes) > 0
  BY FS_CardinalityType, FS_EmptySet
<1>2. CASE p = Root
  BY <1>1, <1>2 DEF Level, Depths
<1>3. CASE p # Root
  <2>1. p \in NodesOf(parent) /\ p \in Present
    BY <1>3 DEF Present, NodesOf
  <2>2. IsFiniteSet(Ancestors(p)) /\ Cardinality(Ancestors(p)) = depth[p] + 1
    BY <2>1, AncestorsCounted
  <2>3. Ancestors(p) = {a \in NodesOf(parent) : Joined(links, a, p)}
    BY <2>1, LinkedAreAncestors
  <2>4. Ancestors(p) \subseteq Nodes \ {n}
    BY <1>3, <2>3 DEF NodesOf, Present, Linked, Joined
  <2>5. IsFiniteSet(Nodes \ {n}) /\ Cardinality(Nodes \ {n}) = Cardinality(Nodes) - 1
    BY FS_RemoveElement
  <2>6. Cardinality(Ancestors(p)) <= Cardinality(Nodes \ {n})
    BY <2>4, <2>5, FS_Subset
  <2>7. depth[p] \in Nat
    BY <2>1 DEF Tree, Forest, NodesOf
  <2>8. depth[p] + 1 \in Depths
    BY <1>1, <2>2, <2>5, <2>6, <2>7 DEF Depths
  <2> QED
    BY <1>3, <2>8 DEF Level
<1> QED
  BY <1>2, <1>3

\* What the invariant says of a finite set of nodes is their types.
LEMMA TypesHold ==
  ASSUME IsFiniteSet(Nodes), Inv PROVE GeographyOK
<1>1. Tree(parent, depth, links) /\ Present = NodesOf(parent)
  BY DEF Inv, Present, NodesOf
<1>2. \A n \in Present : depth[n] \in Depths
  <2> SUFFICES ASSUME NEW n \in Present PROVE depth[n] \in Depths
    OBVIOUS
  <2>1. parent[n] \in Present \cup {Root} /\ depth[n] = Level(depth, parent[n]) /\ n \in Nodes
    BY <1>1 DEF Tree, Forest, NodesOf
  <2>2. parent[n] # Root => ~Linked(n, parent[n])
    <3> SUFFICES ASSUME parent[n] # Root, Joined(links, n, parent[n]) PROVE FALSE
      BY DEF Linked, Joined
    <3>1. depth[n] <= depth[parent[n]]
      BY <1>1, Deeper
    <3>2. depth[n] = depth[parent[n]] + 1 /\ depth[parent[n]] \in Nat
      BY <1>1, <2>1 DEF Level, Tree, Forest, NodesOf
    <3> QED
      BY <3>1, <3>2
  <2> QED
    BY <1>1, <2>1, <2>2, DepthsBounded
<1>3. depth \in [Nodes -> Depths]
  <2>1. 0 \in Depths \/ Nodes = {}
    BY FS_CardinalityType, FS_EmptySet DEF Depths
  <2> QED
    BY <1>1, <1>2, <2>1 DEF Inv, Tree, Forest, NodesOf
<1>4. ASSUME NEW l \in links PROVE l \in Links
  <2>1. /\ l \in [ancestor : NodesOf(parent), descendant : NodesOf(parent), depth : Nat]
        /\ depth[l.descendant] = depth[l.ancestor] + l.depth
    BY <1>1 DEF Tree, Forest, Closed
  <2>2. depth[l.descendant] \in Depths /\ depth[l.ancestor] \in Nat /\ l.depth \in Nat
    BY <1>1, <1>2, <2>1 DEF Tree, Forest, NodesOf
  <2>3. l.depth \in Depths
    BY <2>1, <2>2, FS_CardinalityType DEF Depths
  <2> QED
    BY <2>1, <2>3 DEF Links, NodesOf
<1>5. ASSUME NEW s \in Slots, handling[s] # Idle PROVE handling[s] \in Requests
  <2> DEFINE r == handling[s]
  <2>1. r \in Asking /\ Asked(r, parent, depth, links)
    BY <1>5 DEF Inv
  <2>2. r.node \in Nodes /\ (r.node \notin Present \/ (r.parent # Root => ~Linked(r.node, r.parent)))
    BY <2>1 DEF Asking, Asked, Present, Linked, Joined
  <2>3. r.depth \in Depths
    BY <1>1, <2>1, <2>2, DepthsBounded DEF Asked
  <2> QED
    BY <2>1, <2>3 DEF Asking, Requests
<1> QED
  BY <1>1, <1>3, <1>4, <1>5 DEF GeographyOK, Inv, Tree, Forest

(* While one request is handled at a time, however nodes are created and   *)
(* whole subtrees moved, the closure table is exactly the tree: so a       *)
(* supervisor sees the nodes below the own one and no other, and a report  *)
(* of a node sums up exactly those below it.  For any number of nodes.     *)
THEOREM TreeKept ==
  ASSUME NEW only, Slots = {only} PROVE Spec => []LinksAreTheTree
<1>1. Init => Inv
  BY InitHolds
<1>2. Inv => LinksAreTheTree
  BY TreeShown DEF Inv
<1>3. Inv /\ [Next]_vars => Inv'
  BY StepKeeps
<1> QED
  BY <1>1, <1>2, <1>3, PTL DEF Spec

----------------------------------------------------------------------------
\* Team scope

\* Every operation keeps the types.
LEMMA StepOK ==
  TeamsOK /\ [TeamsNext]_teams => TeamsOK'
<1> SUFFICES ASSUME TeamsOK, [TeamsNext]_teams PROVE TeamsOK'
  OBVIOUS
<1>1. ASSUME NEW t \in TeamIds, NEW r \in Regions \cup {Nowhere}, UpdateTeam(t, r) PROVE TeamsOK'
  BY <1>1 DEF TeamsOK, UpdateTeam, Scopes
<1>2. ASSUME NEW m \in Members, NEW t \in TeamIds \cup {Nowhere}, JoinTeam(m, t) PROVE TeamsOK'
  BY <1>2 DEF TeamsOK, JoinTeam, Scopes, RegionOf
<1>3. ASSUME NEW a \in Areas, NEW t \in TeamIds \cup {Nowhere}, NEW r \in Regions \cup {Nowhere},
             NEW gt \in BOOLEAN, NEW gr \in BOOLEAN, UpdateTurfScope(a, t, gt, r, gr)
      PROVE  TeamsOK'
  <2> DEFINE region1 == IF ~gr THEN area[a].region
                        ELSE IF r # Nowhere THEN r ELSE IF gt THEN RegionOf(t) ELSE Nowhere
             Write(scope) == [team |-> IF gt THEN t ELSE scope.team, region |-> region1]
  <2>1. region1 \in Regions \cup {Nowhere}
    BY DEF TeamsOK, Scopes, RegionOf
  <2>2. \A scope \in Scopes : Write(scope) \in Scopes
    BY <2>1 DEF Scopes
  <2>3. /\ area' = [area EXCEPT ![a] = Write(@)]
        /\ content' = [content EXCEPT ![a] = {Write(scope) : scope \in @}]
        /\ asked' = [asked EXCEPT ![a] = {Write(scope) : scope \in @}]
        /\ UNCHANGED <<region, member>>
    BY <1>3 DEF UpdateTurfScope
  <2>4. area' \in [Areas -> Scopes]
    BY <2>2, <2>3 DEF TeamsOK
  <2>5. \A rows \in SUBSET Scopes : {Write(scope) : scope \in rows} \in SUBSET Scopes
    BY <2>2
  <2> QED
    BY <2>3, <2>4, <2>5 DEF TeamsOK
<1>4. ASSUME NEW a \in Areas, AddContent(a) PROVE TeamsOK'
  <2> DEFINE Or(x, y) == IF x # Nowhere THEN x ELSE y
             Filled(r) == [team |-> Or(r.team, area[a].team), region |-> Or(r.region, area[a].region)]
  <2>0. PICK row \in {area[a]} \cup {Filled(r) : r \in content[a] \cup asked[a]} :
          content' = [content EXCEPT ![a] = @ \cup {row}]
    BY <1>4 DEF AddContent
  <2>1. row \in Scopes
    BY <2>0 DEF TeamsOK, Scopes
  <2> QED
    BY <1>4, <2>0, <2>1 DEF AddContent, TeamsOK
<1>5. ASSUME NEW a \in Areas, AskForAddress(a) PROVE TeamsOK'
  BY <1>5 DEF TeamsOK, AskForAddress, Scopes, Unscoped
<1>6. ASSUME UNCHANGED teams PROVE TeamsOK'
  BY <1>6 DEF TeamsOK, teams
<1> QED
  BY <1>1, <1>2, <1>3, <1>4, <1>5, <1>6 DEF TeamsNext

\* Every operation keeps the copies of the team.
LEMMA StepFollows ==
  TeamsOK /\ ScopeFollowsTeam /\ [TeamsNext]_teams => ScopeFollowsTeam'
<1> SUFFICES ASSUME TeamsOK, ScopeFollowsTeam, [TeamsNext]_teams PROVE ScopeFollowsTeam'
  OBVIOUS
<1>1. ASSUME NEW t \in TeamIds, NEW r \in Regions \cup {Nowhere}, UpdateTeam(t, r) PROVE ScopeFollowsTeam'
  <2>1. \A m \in Members : member'[m].team # Nowhere => member'[m].region = region'[member'[m].team]
    BY <1>1 DEF TeamsOK, UpdateTeam, Scopes, ScopeFollowsTeam
  <2>2. \A a \in Areas : area'[a].team = area[a].team /\ content'[a] = content[a] /\ asked'[a] = asked[a]
    BY <1>1 DEF TeamsOK, UpdateTeam, Scopes
  <2> QED
    BY <2>1, <2>2 DEF ScopeFollowsTeam
<1>2. ASSUME NEW m \in Members, NEW t \in TeamIds \cup {Nowhere}, JoinTeam(m, t) PROVE ScopeFollowsTeam'
  BY <1>2 DEF TeamsOK, JoinTeam, RegionOf, ScopeFollowsTeam
<1>3. ASSUME NEW a \in Areas, NEW t \in TeamIds \cup {Nowhere}, NEW r \in Regions \cup {Nowhere},
             NEW gt \in BOOLEAN, NEW gr \in BOOLEAN, UpdateTurfScope(a, t, gt, r, gr)
      PROVE  ScopeFollowsTeam'
  <2>1. UNCHANGED <<region, member>>
    BY <1>3 DEF UpdateTurfScope
  <2>2. ASSUME NEW b \in Areas, NEW row \in content'[b] PROVE row.team = area'[b].team
    <3>1. CASE b = a
      BY <1>3, <2>2, <3>1 DEF UpdateTurfScope, TeamsOK, ScopeFollowsTeam
    <3>2. CASE b # a
      BY <1>3, <2>2, <3>2 DEF UpdateTurfScope, TeamsOK, ScopeFollowsTeam
    <3> QED
      BY <3>1, <3>2
  <2>3. ASSUME NEW b \in Areas, NEW row \in asked'[b] PROVE row.team \in {area'[b].team, Nowhere}
    <3>1. CASE b = a
      BY <1>3, <2>3, <3>1 DEF UpdateTurfScope, TeamsOK, ScopeFollowsTeam
    <3>2. CASE b # a
      BY <1>3, <2>3, <3>2 DEF UpdateTurfScope, TeamsOK, ScopeFollowsTeam
    <3> QED
      BY <3>1, <3>2
  <2> QED
    BY <2>1, <2>2, <2>3 DEF ScopeFollowsTeam
<1>4. ASSUME NEW a \in Areas, AddContent(a) PROVE ScopeFollowsTeam'
  <2> DEFINE Or(x, y) == IF x # Nowhere THEN x ELSE y
             Filled(r) == [team |-> Or(r.team, area[a].team), region |-> Or(r.region, area[a].region)]
  <2>0. PICK row \in {area[a]} \cup {Filled(r) : r \in content[a] \cup asked[a]} :
          content' = [content EXCEPT ![a] = @ \cup {row}]
    BY <1>4 DEF AddContent
  <2>1. row.team = area[a].team
    BY <2>0 DEF ScopeFollowsTeam
  <2>2. UNCHANGED <<region, member, area, asked>>
    BY <1>4 DEF AddContent
  <2>3. \A b \in Areas : \A other \in content'[b] : other.team = area[b].team
    BY <2>0, <2>1 DEF TeamsOK, ScopeFollowsTeam
  <2> QED
    BY <2>2, <2>3 DEF ScopeFollowsTeam
<1>5. ASSUME NEW a \in Areas, AskForAddress(a) PROVE ScopeFollowsTeam'
  BY <1>5 DEF AskForAddress, TeamsOK, Unscoped, ScopeFollowsTeam
<1>6. ASSUME UNCHANGED teams PROVE ScopeFollowsTeam'
  BY <1>6 DEF ScopeFollowsTeam, teams
<1> QED
  BY <1>1, <1>2, <1>3, <1>4, <1>5, <1>6 DEF TeamsNext

(* However teams, members and turfs are changed, the copies of the team    *)
(* follow, and what came of an address request bears that team or none;    *)
(* for any sets of teams, users, turfs and regions.                        *)
THEOREM ScopeFollows == Spec => []ScopeFollowsTeam
<1>1. Init => TeamsOK /\ ScopeFollowsTeam
  BY DEF Init, TeamsInit, TeamsOK, ScopeFollowsTeam, Scopes, Unscoped
<1>2. [Next]_vars => [TeamsNext]_teams
  BY DEF Next, vars
<1> QED
  BY <1>1, <1>2, StepOK, StepFollows, PTL DEF Spec

(* Nodes, links, requests, users, teams and turfs keep their types; of     *)
(* finitely many nodes none is deeper than there are others.               *)
THEOREM TypeCorrect ==
  ASSUME IsFiniteSet(Nodes), NEW only, Slots = {only} PROVE Spec => []TypeOK
<1>1. Init => Inv /\ TeamsOK
  BY InitHolds DEF Init, TeamsInit, TeamsOK, Scopes, Unscoped
<1>2. Inv /\ [Next]_vars => Inv'
  BY StepKeeps
<1>3. TeamsOK /\ [Next]_vars => TeamsOK'
  BY StepOK DEF Next, vars
<1>4. Inv /\ TeamsOK => TypeOK
  BY TypesHold DEF TypeOK
<1> QED
  BY <1>1, <1>2, <1>3, <1>4, PTL DEF Spec

----------------------------------------------------------------------------
(* What is in force in the campaigns of an organization: policies, outcome *)
(* definitions and CSV profiles.                                           *)

LEMMA InitSettings == SettingsInit => SettingsOK
BY PolicyAssumption DEF SettingsInit, SettingsOK, PoliciesInit, PoliciesOK, OutcomesInit, OutcomesOK,
                        CsvProfilesInit, CsvProfilesOK

LEMMA InheritedType == PoliciesOK => \A c \in Levels : EffectivePolicy(c) \in Policy
BY PolicyAssumption DEF PoliciesOK, EffectivePolicy, DefaultPolicy, Policy, Inputs, Levels

LEMMA MergedType ==
  ASSUME PoliciesOK, NEW c \in Levels, NEW input \in Inputs
  PROVE  Merged(c, input) \in Policy
<1>1. EffectivePolicy(c) \in Policy
  BY InheritedType
<1>2. DOMAIN input = {"archive", "purge", "fallback"}
  BY DEF Inputs
<1> QED BY <1>1, <1>2 DEF Merged, Policy, Inputs

\* What a slot holds tells the kinds of requests apart.
LEMMA SlotKinds ==
  ASSUME SettingsOK, NEW s \in Savers
  PROVE  /\ saving[s] \in Saves \cup Edits \cup {NotSaving}
         /\ saving[s].at = "save" => saving[s] \in Saves
         /\ saving[s].at \in {"find", "write"} => saving[s] \in Edits
<1>1. saving[s] \in Saves \cup Edits \cup {NotSaving}
  BY DEF SettingsOK
<1>2. /\ \A save \in Saves : save.at = "save"
      /\ \A edit \in Edits : edit.at \in {"find", "write"}
      /\ NotSaving.at = "idle"
  BY DEF Saves, Edits, NotSaving
<1> QED BY <1>1, <1>2

LEMMA SettingsTyped == SettingsOK /\ [SettingsNext]_settingsVars => SettingsOK'
<1> SUFFICES ASSUME SettingsOK, [SettingsNext]_settingsVars PROVE SettingsOK'
  OBVIOUS
<1>0. Org \in Levels /\ Editors \subseteq Savers
  BY DefinitionAssumption DEF Levels
<1>1. ASSUME NEW by \in Levels, NEW s \in Savers, NEW requested \in Levels, NEW input \in Inputs,
             BeginUpsert(s, by, requested, input), UNCHANGED <<definition, override>>
      PROVE  SettingsOK'
  <2> DEFINE to == Target(by, requested)
             save == [at |-> "save", by |-> by, of |-> to, next |-> Merged(to, input)]
  <2>1. to \in Levels
    BY DEF Target
  <2>2. save \in Saves
    BY <2>1, MergedType DEF SettingsOK, Saves
  <2>3. policy' = policy /\ saving' = [saving EXCEPT ![s] = save]
    BY <1>1 DEF BeginUpsert
  <2> HIDE DEF save
  <2> QED BY <1>1, <2>2, <2>3 DEF SettingsOK, PoliciesOK, OutcomesOK, CsvProfilesOK
<1>2. ASSUME NEW s \in Savers, Upsert(s), UNCHANGED <<definition, override>> PROVE SettingsOK'
  <2>1. saving[s].of \in Levels /\ saving[s].next \in Policy
    BY <1>2, SlotKinds DEF Upsert, Saves
  <2> QED BY <1>2, <2>1 DEF Upsert, SettingsOK, PoliciesOK, OutcomesOK, CsvProfilesOK
<1>3. ASSUME NEW by \in Levels, NEW requested \in Levels, ClearPolicy(by, requested),
             UNCHANGED <<definition, override>>
      PROVE  SettingsOK'
  BY <1>3 DEF ClearPolicy, SettingsOK, PoliciesOK, OutcomesOK, CsvProfilesOK
<1>4. ASSUME NEW by \in Levels, ProfileRequestOf(by), UNCHANGED <<policy, saving, definition>>
      PROVE  SettingsOK'
  <2>1. ASSUME NEW c \in Levels, NEW code \in Codes, NEW active \in BOOLEAN,
               UpsertProfile(c, code, active) \/ ClearProfile(c, code)
        PROVE  CsvProfilesOK'
    BY <2>1 DEF UpsertProfile, ClearProfile, SettingsOK, CsvProfilesOK
  <2>2. CsvProfilesOK'
    BY <1>0, <1>4, <2>1 DEF ProfileRequestOf, Target
  <2> QED BY <1>4, <2>2 DEF SettingsOK, PoliciesOK, OutcomesOK
<1>5. ASSUME NEW by \in Levels, NEW s \in Savers, NEW id \in Definitions \cup {Unset},
             NEW code \in OutcomeCodes, NEW active \in BOOLEAN,
             CheckCode(s, by, id, code, active), UNCHANGED <<policy, override>>
      PROVE  SettingsOK'
  <2> DEFINE edit == [at |-> IF id = Unset THEN "write" ELSE "find",
                      by |-> by, id |-> id, code |-> code, active |-> active]
  <2>1. edit \in Edits
    BY DEF Edits
  <2>2. definition' = definition /\ saving' = [saving EXCEPT ![s] = edit]
    BY <1>5 DEF CheckCode
  <2> HIDE DEF edit
  <2> QED BY <1>5, <2>1, <2>2 DEF SettingsOK, PoliciesOK, OutcomesOK, CsvProfilesOK
<1>6. ASSUME NEW s \in Savers, FindOutcome(s), UNCHANGED <<policy, override>> PROVE SettingsOK'
  <2>1. saving[s] \in Edits
    BY <1>6, SlotKinds DEF FindOutcome
  <2>2. [saving[s] EXCEPT !.at = "write"] \in Edits
    BY <2>1 DEF Edits
  <2> QED BY <1>6, <2>2 DEF FindOutcome, SettingsOK, PoliciesOK, OutcomesOK, CsvProfilesOK
<1>7. ASSUME NEW s \in Savers, WriteOutcome(s), UNCHANGED <<policy, override>> PROVE SettingsOK'
  <2> DEFINE new == [code |-> saving[s].code, of |-> saving[s].by, active |-> saving[s].active]
  <2>1. saving[s] \in Edits
    BY <1>7, SlotKinds DEF WriteOutcome
  <2>2. new \in Definition
    BY <2>1 DEF Edits, Definition
  <2>3. PICK d : definition' = [definition EXCEPT ![d] = new]
    BY <1>7 DEF WriteOutcome
  <2> HIDE DEF new
  <2> QED BY <1>7, <2>2, <2>3 DEF WriteOutcome, SettingsOK, PoliciesOK, OutcomesOK, CsvProfilesOK
<1>8. CASE UNCHANGED settingsVars
  BY <1>8 DEF settingsVars, settled, SettingsOK, PoliciesOK, OutcomesOK, CsvProfilesOK
<1>9. ASSUME NEW by \in Levels, RequestOf(by) PROVE SettingsOK'
  <2>1. CASE PolicyRequestOf(by) /\ UNCHANGED <<definition, override>>
    BY <1>1, <1>2, <1>3, <2>1 DEF PolicyRequestOf
  <2>2. CASE OutcomeRequestOf(by) /\ UNCHANGED <<policy, override>>
    BY <1>0, <1>5, <1>6, <1>7, <2>2 DEF OutcomeRequestOf
  <2> QED BY <1>4, <1>9, <2>1, <2>2 DEF RequestOf
<1> QED BY <1>8, <1>9 DEF SettingsNext

(* The policies, definitions, overrides and the requests under way keep    *)
(* their types.                                                            *)
THEOREM Typed == SettingsSpec => []SettingsOK
BY InitSettings, SettingsTyped, PTL DEF SettingsSpec

----------------------------------------------------------------------------

\* A save in progress writes ordered periods, in the campaign of its author.
SaveOK(save) == Ordered(save.next) /\ (save.by # Org => save.of = save.by)

PolicyInv ==
  /\ SettingsOK
  /\ \A c \in Levels : policy[c] # Unset => Ordered(policy[c])
  /\ \A s \in Savers : saving[s].at = "save" => SaveOK(saving[s])

LEMMA InitPolicies == SettingsInit => PolicyInv
BY InitSettings DEF SettingsInit, PoliciesInit, PolicyInv, NotSaving

LEMMA StepPolicies == PolicyInv /\ [SettingsNext]_settingsVars => PolicyInv'
<1> SUFFICES ASSUME PolicyInv, [SettingsNext]_settingsVars PROVE PolicyInv'
  OBVIOUS
<1> DEFINE Rest == /\ \A c \in Levels : policy[c] # Unset => Ordered(policy[c])
                   /\ \A s \in Savers : saving[s].at = "save" => SaveOK(saving[s])
<1>0. /\ policy \in [Levels -> Policy \cup {Unset}] /\ SettingsOK /\ SettingsOK' /\ Rest
      /\ saving \in [Savers -> Saves \cup Edits \cup {NotSaving}]
      /\ Unset \notin Policy /\ Org \in Levels /\ Editors \subseteq Savers
      /\ NotSaving.at = "idle"
  BY SettingsTyped, PolicyAssumption, DefinitionAssumption
     DEF PolicyInv, SettingsOK, PoliciesOK, Levels, NotSaving
<1>1. ASSUME NEW by \in Levels, NEW s \in Savers, NEW requested \in Levels, NEW input \in Inputs,
             BeginUpsert(s, by, requested, input)
      PROVE  Rest'
  <2> DEFINE to == Target(by, requested)
             save == [at |-> "save", by |-> by, of |-> to, next |-> Merged(to, input)]
  <2>1. by # Org => to = by
    BY DEF Target
  <2>2. Ordered(Merged(to, input)) /\ policy' = policy /\ saving' = [saving EXCEPT ![s] = save]
    BY <1>1 DEF BeginUpsert
  <2>3. SaveOK(save)
    BY <2>1, <2>2 DEF SaveOK
  <2> HIDE DEF save
  <2> QED BY <1>0, <2>2, <2>3
<1>2. ASSUME NEW s \in Savers, Upsert(s) PROVE Rest'
  <2>1. saving[s].of \in Levels /\ saving[s].next \in Policy /\ Ordered(saving[s].next)
    BY <1>0, <1>2, SlotKinds DEF Upsert, SaveOK, Saves
  <2> QED BY <1>0, <1>2, <2>1 DEF Upsert
<1>3. ASSUME NEW by \in Levels, NEW requested \in Levels, ClearPolicy(by, requested) PROVE Rest'
  BY <1>0, <1>3 DEF ClearPolicy
<1>4. ASSUME NEW by \in Levels, OutcomeRequestOf(by), policy' = policy PROVE Rest'
  <2>1. ASSUME NEW s \in Savers, NEW request, request.at # "save",
               saving' = [saving EXCEPT ![s] = request]
        PROVE  Rest'
    BY <1>0, <1>4, <2>1
  <2>2. ASSUME NEW s \in Savers, NEW id \in Definitions \cup {Unset}, NEW code \in OutcomeCodes,
               NEW active \in BOOLEAN, CheckCode(s, by, id, code, active)
        PROVE  Rest'
    <3> DEFINE edit == [at |-> IF id = Unset THEN "write" ELSE "find",
                        by |-> by, id |-> id, code |-> code, active |-> active]
    <3>1. edit.at # "save" /\ saving' = [saving EXCEPT ![s] = edit]
      BY <2>2 DEF CheckCode
    <3> HIDE DEF edit
    <3> QED BY <2>1, <3>1
  <2>3. ASSUME NEW s \in Savers, FindOutcome(s) PROVE Rest'
    <3>1. saving[s] \in Edits
      BY <1>0, <2>3, SlotKinds DEF FindOutcome
    <3>2. [saving[s] EXCEPT !.at = "write"].at = "write"
      BY <3>1 DEF Edits
    <3>3. \E request : request.at # "save" /\ saving' = [saving EXCEPT ![s] = request]
      BY <1>0, <2>3, <3>2 DEF FindOutcome
    <3> QED BY <2>1, <3>3
  <2>4. ASSUME NEW s \in Savers, WriteOutcome(s) PROVE Rest'
    BY <1>0, <2>1, <2>4 DEF WriteOutcome
  <2> QED BY <1>0, <1>4, <2>2, <2>3, <2>4 DEF OutcomeRequestOf
<1>5. ASSUME UNCHANGED <<policy, saving>> PROVE Rest'
  BY <1>0, <1>5
<1>6. ASSUME NEW by \in Levels, RequestOf(by) PROVE Rest'
  BY <1>1, <1>2, <1>3, <1>4, <1>5, <1>6 DEF RequestOf, PolicyRequestOf
<1> QED BY <1>0, <1>5, <1>6 DEF SettingsNext, PolicyInv, settingsVars, settled

(* However saves overlap and fields are inherited, households and visits   *)
(* are archived before they are purged, in every campaign, provided that   *)
(* the server's environment asks it: no code checks its two variables.     *)
THEOREM ArchivedBeforePurged ==
  ASSUME Ordered(DefaultPolicy) PROVE SettingsSpec => []PurgeAfterArchive
<1>1. PolicyInv => PurgeAfterArchive
  BY DEF PolicyInv, PurgeAfterArchive, EffectivePolicy, Levels
<1> QED BY InitPolicies, StepPolicies, <1>1, PTL DEF SettingsSpec

----------------------------------------------------------------------------

\* What a request about an outcome has found stays so while no other is handled:
\* the code is free, and the definition to be edited is the administrator's.
EditOK(edit) ==
  /\ Free(edit.by, edit.code, Known \ {edit.id})
  /\ edit.at = "write" /\ edit.id # Unset => edit.id \in FoundBy(edit.by)

OutcomeInv ==
  /\ SettingsOK /\ CodesUnique
  /\ \A s \in Savers : saving[s].at \in {"find", "write"} => s \in Editors /\ EditOK(saving[s])

LEMMA InitOutcomes == SettingsInit => OutcomeInv
BY InitSettings DEF SettingsInit, PoliciesInit, OutcomesInit, OutcomeInv, CodesUnique, Known, NotSaving

LEMMA StepOutcomes ==
  ASSUME NEW only, Editors = {only}
  PROVE  OutcomeInv /\ [SettingsNext]_settingsVars => OutcomeInv'
<1> SUFFICES ASSUME OutcomeInv, [SettingsNext]_settingsVars PROVE OutcomeInv'
  OBVIOUS
<1> DEFINE UnderWay == \A s \in Savers : saving[s].at \in {"find", "write"} => s \in Editors /\ EditOK(saving[s])
<1>0. /\ SettingsOK /\ SettingsOK' /\ CodesUnique /\ UnderWay /\ only \in Savers
      /\ saving \in [Savers -> Saves \cup Edits \cup {NotSaving}]
      /\ definition \in [Definitions -> Definition \cup {Unset}]
      /\ NotSaving.at = "idle" /\ Unset \notin Definition
  BY SettingsTyped, DefinitionAssumption DEF OutcomeInv, SettingsOK, OutcomesOK, NotSaving
<1>1. ASSUME definition' = definition
      PROVE  CodesUnique' /\ \A edit : EditOK(edit) => EditOK(edit)'
  <2>1. CodesUnique' /\ Known' = Known
    BY <1>0, <1>1 DEF CodesUnique, Known
  <2>2. ASSUME NEW edit, EditOK(edit) PROVE EditOK(edit)'
    BY <1>1, <2>1, <2>2 DEF EditOK, Free, FoundBy
  <2> QED BY <2>1, <2>2
<1>2. ASSUME NEW by \in Levels, PolicyRequestOf(by), definition' = definition
      PROVE  CodesUnique' /\ UnderWay'
  <2>1. ASSUME NEW s \in Savers, NEW request, request.at \notin {"find", "write"},
               saving' = [saving EXCEPT ![s] = request]
        PROVE  UnderWay'
    BY <1>0, <1>1, <1>2, <2>1
  <2>2. ASSUME NEW s \in Savers, NEW requested \in Levels, NEW input \in Inputs,
               BeginUpsert(s, by, requested, input)
        PROVE  UnderWay'
    <3> DEFINE to == Target(by, requested)
               save == [at |-> "save", by |-> by, of |-> to, next |-> Merged(to, input)]
    <3>1. save.at \notin {"find", "write"} /\ saving' = [saving EXCEPT ![s] = save]
      BY <2>2 DEF BeginUpsert
    <3> HIDE DEF save
    <3> QED BY <2>1, <3>1
  <2>3. ASSUME NEW s \in Savers, Upsert(s) PROVE UnderWay'
    BY <1>0, <2>1, <2>3 DEF Upsert
  <2>4. ASSUME NEW requested \in Levels, ClearPolicy(by, requested) PROVE UnderWay'
    BY <1>0, <1>1, <1>2, <2>4 DEF ClearPolicy
  <2> QED BY <1>1, <1>2, <2>2, <2>3, <2>4 DEF PolicyRequestOf
<1>3. ASSUME NEW by \in Levels, NEW id \in Definitions \cup {Unset}, NEW code \in OutcomeCodes,
             NEW active \in BOOLEAN, CheckCode(only, by, id, code, active)
      PROVE  CodesUnique' /\ UnderWay'
  <2> DEFINE edit == [at |-> IF id = Unset THEN "write" ELSE "find",
                      by |-> by, id |-> id, code |-> code, active |-> active]
  <2>1. /\ definition' = definition /\ saving' = [saving EXCEPT ![only] = edit]
        /\ Free(by, code, Known \ {id})
    BY <1>3 DEF CheckCode
  <2>2. EditOK(edit)
    BY <2>1 DEF EditOK
  <2> HIDE DEF edit
  <2> QED BY <1>0, <1>1, <2>1, <2>2
<1>4. ASSUME FindOutcome(only) PROVE CodesUnique' /\ UnderWay'
  <2> DEFINE edit == saving[only]
             found == [edit EXCEPT !.at = "write"]
  <2>1. edit \in Edits /\ edit.at = "find" /\ EditOK(edit) /\ definition' = definition
    BY <1>0, <1>4, SlotKinds DEF FindOutcome
  <2>2. found.at = "write" /\ found.by = edit.by /\ found.id = edit.id /\ found.code = edit.code
    BY <2>1 DEF Edits
  <2>3. edit.id \in FoundBy(edit.by) => EditOK(found)
    BY <2>1, <2>2 DEF EditOK
  <2>4. saving' = [saving EXCEPT ![only] = IF edit.id \in FoundBy(edit.by) THEN found ELSE NotSaving]
    BY <1>4 DEF FindOutcome
  <2> HIDE DEF edit, found
  <2> QED BY <1>0, <1>1, <2>1, <2>3, <2>4
<1>5. ASSUME WriteOutcome(only) PROVE CodesUnique' /\ UnderWay'
  <2> DEFINE edit == saving[only]
             new == [code |-> edit.code, of |-> edit.by, active |-> edit.active]
  <2>1. edit \in Edits /\ edit.at = "write" /\ Free(edit.by, edit.code, Known \ {edit.id})
    BY <1>0, <1>5, SlotKinds DEF WriteOutcome, EditOK
  <2>2. PICK d \in Definitions : /\ d = edit.id \/ (edit.id = Unset /\ d \notin Known)
                                 /\ definition' = [definition EXCEPT ![d] = new]
    BY <1>5, <2>1 DEF WriteOutcome, Edits
  <2>3. new.code = edit.code /\ new.of = edit.by
    OBVIOUS
  <2>4. saving' = [saving EXCEPT ![only] = NotSaving]
    BY <1>5 DEF WriteOutcome
  <2> HIDE DEF edit, new
  <2>5. \A e \in Known \ {d} : ~(definition[e].code = edit.code /\ definition[e].of = edit.by)
    <3>1. CASE d = edit.id
      BY <2>1, <3>1 DEF Free
    <3>2. CASE edit.id = Unset /\ d \notin Known
      BY <2>1, <3>2, DefinitionAssumption DEF Free, Known
    <3> QED BY <2>2, <3>1, <3>2
  <2>6. definition'[d] = new /\ \A g \in Definitions \ {d} : definition'[g] = definition[g]
    BY <1>0, <2>2
  <2>7. CodesUnique'
    <3> SUFFICES ASSUME NEW e \in Known', NEW f \in Known', e # f,
                        definition'[e].code = definition'[f].code, definition'[e].of = definition'[f].of
                 PROVE  FALSE
      BY DEF CodesUnique
    <3>1. CASE e # d /\ f # d
      BY <1>0, <2>6, <3>1 DEF CodesUnique, Known
    <3>2. CASE e = d \/ f = d
      BY <2>3, <2>5, <2>6, <3>2 DEF Known
    <3> QED BY <3>1, <3>2
  <2>8. UnderWay'
    BY <1>0, <2>4
  <2> QED BY <2>7, <2>8
<1>6. ASSUME UNCHANGED <<saving, definition>> PROVE CodesUnique' /\ UnderWay'
  BY <1>0, <1>1, <1>6
<1>7. ASSUME NEW by \in Levels, RequestOf(by) PROVE CodesUnique' /\ UnderWay'
  <2>1. CASE OutcomeRequestOf(by)
    BY <1>3, <1>4, <1>5, <2>1 DEF OutcomeRequestOf
  <2> QED BY <1>2, <1>6, <1>7, <2>1 DEF RequestOf
<1> QED BY <1>0, <1>6, <1>7 DEF SettingsNext, OutcomeInv, settingsVars, settled

(* Though no index of the database forbids it, no sequence of creations    *)
(* and edits gives a scope two outcome definitions of one code, as long as *)
(* requests about outcomes are handled one at a time (upsertOutcome-       *)
(* Definition holds nothing between its checks and its write: two at once  *)
(* may both find a code free).                                             *)
THEOREM NoCodeTwice ==
  ASSUME NEW only, Editors = {only} PROVE SettingsSpec => []CodesUnique
<1>1. OutcomeInv => CodesUnique
  BY DEF OutcomeInv
<1>2. OutcomeInv /\ [SettingsNext]_settingsVars => OutcomeInv'
  BY StepOutcomes
<1> QED BY InitOutcomes, <1>1, <1>2, PTL DEF SettingsSpec
----------------------------------------------------------------------------
\* What the list says of one code: the nearest record, or else the built-in.
LEMMA ListedOfCode ==
  ASSUME NEW c \in Levels, NEW code \in Codes
  PROVE  {p \in Listed(c) : p.code = code} =
           IF override[c][code] # "none"
           THEN {[code |-> code, from |-> c, active |-> override[c][code] = "active"]}
           ELSE IF override[Org][code] # "none"
           THEN {[code |-> code, from |-> Org, active |-> override[Org][code] = "active"]}
           ELSE IF code \in BuiltIns
           THEN {[code |-> code, from |-> "built-in", active |-> TRUE]}
           ELSE {}
<1> DEFINE At(from) == {[code |-> k, from |-> from, active |-> override[from][k] = "active"] :
                          k \in {j \in Codes : override[from][j] # "none"}}
           BuiltIn == {[code |-> k, from |-> "built-in", active |-> TRUE] : k \in BuiltIns}
           Over(profiles, by) == by \cup {p \in profiles : \A q \in by : q.code # p.code}
           Of(profiles) == {p \in profiles : p.code = code}
<1>1. ASSUME NEW from
      PROVE  Of(At(from)) = IF override[from][code] # "none"
                            THEN {[code |-> code, from |-> from, active |-> override[from][code] = "active"]}
                            ELSE {}
  OBVIOUS
<1>2. Of(BuiltIn) = IF code \in BuiltIns
                    THEN {[code |-> code, from |-> "built-in", active |-> TRUE]} ELSE {}
  OBVIOUS
<1>3. ASSUME NEW profiles, NEW by
      PROVE  Of(Over(profiles, by)) = IF Of(by) # {} THEN Of(by) ELSE Of(profiles)
  OBVIOUS
<1>4. Listed(c) = Over(Over(BuiltIn, At(Org)), At(c))
  BY DEF Listed
<1> HIDE DEF At, BuiltIn, Over
<1>5. Of(Listed(c)) = IF Of(At(c)) # {} THEN Of(At(c))
                      ELSE IF Of(At(Org)) # {} THEN Of(At(Org)) ELSE Of(BuiltIn)
  BY <1>3, <1>4
<1> QED BY <1>1, <1>2, <1>5

LEMMA ListingAgrees == ListedIsResolved
<1> SUFFICES ASSUME NEW c \in Levels, NEW code \in Codes
             PROVE  Resolve(c, code) = IF \E p \in Listed(c) : p.code = code /\ p.active
                                       THEN (CHOOSE p \in Listed(c) : p.code = code).from
                                       ELSE "none"
  BY DEF ListedIsResolved
<1> DEFINE Of == {p \in Listed(c) : p.code = code}
           entry(from, active) == [code |-> code, from |-> from, active |-> active]
<1>1. Of = IF override[c][code] # "none" THEN {entry(c, override[c][code] = "active")}
           ELSE IF override[Org][code] # "none" THEN {entry(Org, override[Org][code] = "active")}
           ELSE IF code \in BuiltIns THEN {entry("built-in", TRUE)} ELSE {}
  BY ListedOfCode
<1>2. ASSUME NEW from, NEW active, Of = {entry(from, active)}
      PROVE  /\ (\E p \in Listed(c) : p.code = code /\ p.active) <=> active
             /\ (CHOOSE p \in Listed(c) : p.code = code).from = from
  <2>1. \A p : p \in Listed(c) /\ p.code = code <=> p = entry(from, active)
    BY <1>2
  <2>2. (CHOOSE p \in Listed(c) : p.code = code) = entry(from, active)
    BY <2>1
  <2> QED BY <2>1, <2>2
<1>3. Of = {} => ~\E p \in Listed(c) : p.code = code
  OBVIOUS
<1> HIDE DEF Of, entry
<1> QED BY <1>1, <1>2, <1>3 DEF Resolve

(* In every state the list of profiles is what imports and exports work by.*)
THEOREM ListsAreHonest == SettingsSpec => []ListedIsResolved
BY ListingAgrees, PTL
----------------------------------------------------------------------------

SettingsInv == PolicyInv /\ OutcomeInv

\* A campaign administrator's step leaves every record of another scope as it was.
LEMMA OwnPolicy ==
  ASSUME SettingsInv, NEW by \in Campaigns, PolicyRequestOf(by), NEW c \in Levels \ {by}
  PROVE  policy'[c] = policy[c]
<1>1. by # Org /\ by \in Levels /\ policy \in [Levels -> Policy \cup {Unset}]
  BY PolicyAssumption DEF SettingsInv, PolicyInv, SettingsOK, PoliciesOK, Levels
<1>2. ASSUME NEW s \in Savers, saving[s] # NotSaving, saving[s].by = by, Upsert(s)
      PROVE  policy'[c] = policy[c]
  <2>1. saving[s].of = by
    BY <1>1, <1>2 DEF SettingsInv, PolicyInv, SaveOK, Upsert
  <2> QED BY <1>1, <1>2, <2>1 DEF Upsert
<1>3. ASSUME NEW s \in Savers, NEW requested \in Levels, NEW input \in Inputs,
             BeginUpsert(s, by, requested, input)
      PROVE  policy'[c] = policy[c]
  BY <1>3 DEF BeginUpsert
<1>4. ASSUME NEW requested \in Levels, ClearPolicy(by, requested) PROVE policy'[c] = policy[c]
  BY <1>1, <1>4 DEF ClearPolicy, Target
<1> QED BY <1>2, <1>3, <1>4 DEF PolicyRequestOf

LEMMA OwnProfiles ==
  ASSUME SettingsInv, NEW by \in Campaigns, ProfileRequestOf(by), NEW c \in Levels \ {by}
  PROVE  override'[c] = override[c]
<1>1. by # Org
  BY PolicyAssumption
<1> QED BY <1>1 DEF ProfileRequestOf, UpsertProfile, ClearProfile, Target, SettingsInv, PolicyInv, SettingsOK, CsvProfilesOK

\* What is edited was found in the campaign and is still there at the write.
LEMMA OwnOutcomes ==
  ASSUME SettingsInv, NEW by \in Campaigns, OutcomeRequestOf(by), NEW d \in Definitions,
         definition'[d] # definition[d]
  PROVE  (d \in Known => definition[d].of = by) /\ d \in Known' /\ definition'[d].of = by
<1>1. by # Org /\ definition \in [Definitions -> Definition \cup {Unset}] /\ Editors \subseteq Savers
  BY PolicyAssumption, DefinitionAssumption DEF SettingsInv, PolicyInv, SettingsOK, OutcomesOK
<1>2. PICK s \in Savers : saving[s].by = by /\ WriteOutcome(s)
  BY <1>1 DEF OutcomeRequestOf, CheckCode, FindOutcome
<1>3. saving[s] \in Edits /\ saving[s].at = "write" /\ EditOK(saving[s])
  BY <1>2, SlotKinds DEF SettingsInv, PolicyInv, OutcomeInv, WriteOutcome
<1>4. /\ d = saving[s].id \/ d \notin Known
      /\ definition'[d] = [code |-> saving[s].code, of |-> by, active |-> saving[s].active]
  BY <1>1, <1>2, <1>3 DEF WriteOutcome, Edits
<1>5. d \in Known => definition[d].of = by
  BY <1>1, <1>2, <1>3, <1>4, DefinitionAssumption DEF EditOK, FoundBy
<1>6. definition'[d] \in Definition
  BY <1>2, <1>3, <1>4 DEF Edits, Definition
<1>7. definition'[d] # Unset
  BY <1>6, DefinitionAssumption
<1> QED BY <1>4, <1>5, <1>7 DEF Known

LEMMA OwnScope ==
  ASSUME SettingsInv, NEW by \in Campaigns, RequestOf(by), NEW c \in Levels \ {by}
  PROVE  InForce(c)' = InForce(c)
<1>1. by # Org /\ Org \in Levels \ {by}
  BY PolicyAssumption DEF Levels
<1>2. \A l \in Levels \ {by} : policy'[l] = policy[l] /\ override'[l] = override[l]
  BY OwnPolicy, OwnProfiles DEF RequestOf
<1>3. \A d \in Definitions : definition'[d] # definition[d] =>
        (d \in Known => definition[d].of = by) /\ d \in Known' /\ definition'[d].of = by
  BY OwnOutcomes DEF RequestOf
<1>4. EffectivePolicy(c)' = EffectivePolicy(c)
  BY <1>1, <1>2 DEF EffectivePolicy
<1>5. \A code \in Codes : Resolve(c, code)' = Resolve(c, code)
  BY <1>1, <1>2 DEF Resolve
<1>6. ASSUME NEW code \in OutcomeCodes PROVE InUse(c, code)' = InUse(c, code)
  <2> DEFINE levels == IF c # Org /\ EffectivePolicy(c).fallback THEN {c, Org} ELSE {c}
             found == {d \in Known : /\ definition[d].code = code /\ definition[d].active
                                     /\ definition[d].of \in levels}
  <2>1. levels' = levels /\ by \notin levels
    BY <1>1, <1>4
  <2>2. \A d \in Definitions : d \in found' <=> d \in found
    BY <1>3, <2>1 DEF Known
  <2>3. \A d \in found : definition'[d] = definition[d]
    BY <1>3, <2>1 DEF Known
  <2>4. found' = found
    BY <2>2 DEF Known
  <2> HIDE DEF found
  <2>5. /\ InUse(c, code) = {d \in found : \A e \in found : definition[e].of = Org => definition[d].of = Org}
        /\ InUse(c, code)' = {d \in found' : \A e \in found' : definition'[e].of = Org => definition'[d].of = Org}
    BY DEF InUse, found
  <2> QED BY <2>3, <2>4, <2>5
<1> QED BY <1>4, <1>5, <1>6 DEF InForce

(* Whichever campaign the requests of a campaign's administrator name, and *)
(* however many policy saves overlap them, only that campaign's settings   *)
(* change; requests about outcomes are handled one at a time, for else one *)
(* may write a definition that another has just given to the organization. *)
THEOREM Confined ==
  ASSUME NEW only, Editors = {only} PROVE SettingsSpec => ConfinedToCampaign
<1>1. SettingsInit => SettingsInv
  BY InitPolicies, InitOutcomes DEF SettingsInv
<1>2. SettingsInv /\ [SettingsNext]_settingsVars => SettingsInv'
  BY StepPolicies, StepOutcomes DEF SettingsInv
<1>3. SettingsInv /\ [SettingsNext]_settingsVars
        => [\A by \in Campaigns : \A c \in Levels \ {by} :
              InForce(c)' # InForce(c) => ~RequestOf(by)]_settled
  BY OwnScope DEF Levels
<1> QED BY <1>1, <1>2, <1>3, PTL DEF SettingsSpec, ConfinedToCampaign
=============================================================================
