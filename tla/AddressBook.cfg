\* MatchedInTurn, which docs/csv-contract.md asks for, is refuted when added here.
SPECIFICATION Spec
CONSTANTS
  elm = elm
  elmDotted = elmDotted
  oak = oak
  main = main
  north = north
  van1 = van1
  t1 = t1
  t2 = t2
  Texts <- TextsDef
  KeyOf <- KeyOfDef
  Names = {main, north}
  VanHouses = {van1}
  VanPersons = {}
  TurfsBefore <- TurfsBeforeDef
  Turfs = {t1, t2}
  Homes = {h1, h2}
  Places = {p1, p2}
  Slots = {s1}
  Loaders = {l1}
  Asks = {q1}
  Staffed = {t1}
  Batches = {b1}
  Lines = {1, 2, 3}
  Files <- FilesDef
  None = None
SYMMETRY Symmetry
INVARIANTS
  ImportedOnce
  CountsHideNothing
PROPERTIES
  ImplementsReview
  ReplacementIsAuthoritative
