SPECIFICATION Live
CONSTANTS
  s1 = s1  ra = ra  e1 = e1  c1 = c1  None = None
  Workers = {w1, w2}
  Sources = {s1}
  Revisions = {ra}
  Evidence = {e1}
  TaskEvidence = {e1}
  Quotes <- LiveQuotes
  Legacy <- NoMemories
  LegacyRevision = ra
  MaxAttempts = 2
  MaxVersion = 0
  MaxRequests = 1
  MaxCrashes = 1
  Captures = {c1, c2}
  Destinations = {d1}
  MaxItems = 2
  MaxStores = 2
  MaxChanges = 1
  MaxFailures = 1
  MaxKills = 1
  MaxTroubles = 1
PROPERTIES JobsEnd Drained
CHECK_DEADLOCK FALSE
