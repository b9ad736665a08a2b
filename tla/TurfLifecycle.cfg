\* ActiveSessionShowsInProgress is refuted when added here.
SPECIFICATION Spec
CONSTANTS
  Turfs = {t1, t2}
  Canvassers = {c1, c2}
  SharedTurfs = {t2}
SYMMETRY Symmetry
INVARIANTS
  OneAssignee
  SnapshotShowsWork
  OneOpenSession
  ClosedTurfIsFree
  StatusEarned
  ClosedUserIsIdle
PROPERTIES
  ResumeOnlyOpenTurf
  ClosedTurfIsReadOnly
\* A turf and a user set that are all deleted have nothing left to do.
CHECK_DEADLOCK FALSE
