\* Overlapping requests break both: TLC with -continue shows each.
SPECIFICATION Spec
CONSTANTS
  v1 = v1
  v2 = v2
  v3 = v3
  ann = ann
  bob = bob
  house = house
  Visits = {v1, v2}
  Canvassers = {ann}
  Households = {house}
  Author <- AuthorOf
  Target <- TargetOf
  Posters <- OwnToken
  Slots = {r1, r2}
  MaxAttempts = 1
  MaxSessions = 0
  NoVisit = NoVisit
  NoSession = NoSession
  Uncaptured = Uncaptured
SYMMETRY SlotSymmetry
INVARIANTS
  CooldownKept
  AttemptsCapped
