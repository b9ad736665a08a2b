SPECIFICATION Spec
CONSTANTS
  v1 = v1
  v2 = v2
  v3 = v3
  ann = ann
  bob = bob
  house = house
  Visits = {v1}
  Canvassers = {ann, bob}
  Households = {house}
  Author <- AuthorOf
  Target <- TargetOf
  Posters <- AnyToken
  Slots = {r1, r2}
  MaxAttempts = 2
  MaxSessions = 1
  NoVisit = NoVisit
  NoSession = NoSession
  Uncaptured = Uncaptured
SYMMETRY SlotSymmetry
PROPERTIES
  ImplementsLedger
  WorkStaysAttributed
