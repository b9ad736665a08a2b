\* The lock does not end with its minutes, and two approvals execute a case twice:
\* TLC with -continue shows both.
SPECIFICATION OverlapSpec
CONSTANTS
  Admins = {a1, a2}
  FieldUsers = {cal}
  Members = {cal}
  Ids = {i1}
  Cases = {k1}
  Threshold = 1
  Slots = {s1, s2}
  Webhook = TRUE
  BreakGlass = FALSE
  NoRow = NoRow
  Supervisors = {}
  Canvassers = {}
  Tabs = {}
  CallIds = {x1}
  NoOne = NoOne
  RowsBesideCase = 1
INVARIANTS
  LockIsTimed
  NotReplayed
CHECK_DEADLOCK FALSE
