SPECIFICATION RetentionSpec
CONSTANTS
  Types = {"users", "exportBatches"}
  Rows = {1, 2, 3}
  TypeOf <- TypeOfDef
  Scopes <- ScopesDef
  BatchSize = 1
  Excluded = {}
  Disabled = FALSE
  JobDefault = TRUE
  Operators = {o1}
  MaxFaults = 2
INVARIANTS
  ScheduleFollowsSettings
PROPERTY
  DueIsCleaned
