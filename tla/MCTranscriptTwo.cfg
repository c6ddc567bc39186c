SPECIFICATION Spec
CONSTANTS
  None = None
  Messages = {m1, m2}
  Browsers = {b1, b2}
  Modes = {"live"}
  Imports = FALSE
  MaxTime = 5
  MaxAsked = 1
  MaxFaults = 0
  MaxSkips = 0
SYMMETRY Symmetry
INVARIANTS SeenIsStored
CHECK_DEADLOCK FALSE
