SPECIFICATION Spec
CONSTANTS
  Visits = {v1}
  MaxCrashes = 2
PROPERTY SavedIsNotLost
