\* MarkedIsTraced, which docs/v1-final-spec.md asks for, is refuted when added here.
SPECIFICATION Spec
CONSTANTS
  v1 = v1
  v2 = v2
  Visits = {v1, v2}
  Outcomes = {talked, refused}
  Filters <- FiltersDef
  MaxRows = 1
  Batches = {b1, b2}
  Slots = {s1}
  None = None
  Before = 10
  After = 11
  Change = 16
  AddressOf <- OneHousehold
  CanvasserOf <- Authors
  GpsOf <- Gps
  TimeOf <- Times
  IdOf <- Ids
  Final = {refused}
  DaySpan = {0, 1}
INVARIANTS
  MarkedOnce
  MarkedStaysTrue
  AttemptsNumbered
  ReportsAgree
