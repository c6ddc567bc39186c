SPECIFICATION Spec
CONSTANTS
  s1 = s1  s2 = s2  ra = ra  rb = rb  e1 = e1  e2 = e2  None = None
  Workers = {w1}
  Sources = {s1}
  Revisions = {ra, rb}
  Evidence = {e1}
  TaskEvidence = {e1}
  Quotes <- MCQuotes
  Legacy <- NoLegacy
  LegacyRevision = ra
  MaxAttempts = 2
  MaxVersion = 0
  MaxRequests = 0
  MaxCrashes = 0
PROPERTIES CaptureHasJob
