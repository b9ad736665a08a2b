SPECIFICATION Spec
CONSTANTS
  Nodes = {n1, n2, n3, n4}
  Root = Root
  People = {u1}
  Slots = {s1}
  None = None
  Members = {m1}
  TeamIds = {t1, t2}
  Areas = {a1}
  Regions = {north}
  Nowhere = Nowhere
SYMMETRY Symmetry
INVARIANTS
  LinksAreTheTree
  ScopeFollowsTeam
