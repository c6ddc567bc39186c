SPECIFICATION Spec
CONSTANTS
  Hosts = {h1, h2}
  Records <- Spoken
  Notes = {}
  MaxMessages = 2
  MaxLength = 2
  MaxSeconds = 1
  MaxHandled = 2
  None = None
INVARIANTS ImportedLater
CHECK_DEADLOCK FALSE
