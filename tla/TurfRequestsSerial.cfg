SPECIFICATION Spec
CONSTANTS
  Turfs = {t1, t2}
  Canvassers = {c1, c2}
  SharedTurfs = {t2}
  Slots = {s1}
  MaxRows = 3
SYMMETRY SerialSymmetry
PROPERTY ImplementsLifecycle
\* The bound on rows and deleted turfs and users end some behaviours.
CHECK_DEADLOCK FALSE
