\* ActsAsShown and ChangesHandsSignedOut (a PROPERTY) are refuted when added here,
\* and ReturnsToActor when Tabs has a second tab.
SPECIFICATION MCSpec
CONSTANTS
  Admins = {a1, a2}
  FieldUsers = {cal}
  Members = {cal}
  Ids = {i1, i2, i3}
  Cases = {k1}
  Threshold = 1
  Slots = {s1}
  Webhook = TRUE
  BreakGlass = FALSE
  NoRow = NoRow
  Supervisors = {sue}
  Canvassers = {carl}
  Tabs = {t1}
  CallIds = {x1, x2}
  NoOne = NoOne
  RowsBesideCase = 2
SYMMETRY RowSymmetry
INVARIANTS
  ReturnsToActor
  UsedOnce
  NothingOutlivesACut
  OneOutstanding
  TwoPersonRule
PROPERTY ImplementsDecision
