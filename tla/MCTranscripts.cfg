SPECIFICATION Transcripts
CONSTANTS
  None = None
  Messages = {m1, m2}
  Browsers = {b1}
  Modes = {"complete", "live"}
  Imports = TRUE
  MaxTime = 4
  MaxAsked = 2
  MaxFaults = 1
  MaxSkips = 1
SYMMETRY Symmetry
INVARIANTS TypeOK SeenByLive
PROPERTIES NotRolledBack RemovedAtProvider ReleasedIsStored NeverRewound
CHECK_DEADLOCK FALSE
