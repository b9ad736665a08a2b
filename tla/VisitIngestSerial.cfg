SPECIFICATION Spec
CONSTANTS
  v1 = v1
  v2 = v2
  v3 = v3
  ann = ann
  bob = bob
  house = house
  Visits = {v1, v2, v3}
  Canvassers = {ann}
  Households = {house}
  Author <- AuthorOf
  Target <- TargetOf
  Posters <- OwnToken
  Slots = {r1}
  MaxAttempts = 2
  MaxSessions = 0
  NoVisit = NoVisit
  NoSession = NoSession
  Uncaptured = Uncaptured
INVARIANTS
  AttemptsCapped
  CooldownKept
PROPERTIES
  StoredMeansSynced
