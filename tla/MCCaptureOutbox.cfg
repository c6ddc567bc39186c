SPECIFICATION Spec
CONSTANTS
  Captures = {c1, c2}
  Destinations = {d1, d2}
  MaxItems = 2
  MaxStores = 2
  MaxChanges = 2
  MaxFailures = 1
  MaxKills = 1
  None = None
SYMMETRY Symmetry
INVARIANTS TypeOK PauseStops RetryArmed
PROPERTIES KeepsPromise
CHECK_DEADLOCK FALSE
