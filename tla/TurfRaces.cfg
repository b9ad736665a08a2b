\* Overlapping requests break each of these: TLC with -continue shows all.
SPECIFICATION Spec
CONSTANTS
  Turfs = {t1}
  Canvassers = {c1, c2}
  SharedTurfs = {}
  Slots = {s1, s2}
  MaxRows = 2
SYMMETRY Symmetry
INVARIANTS
  OneSessionPerCanvasser
  OnePrimaryAssignee
  ArchivedUserIsIdle
PROPERTY ClosedTurfReadOnly
CHECK_DEADLOCK FALSE
