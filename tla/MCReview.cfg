SPECIFICATION Spec
CONSTANTS
  s1 = s1  s2 = s2  ra = ra  rb = rb  e1 = e1  e2 = e2  None = None
  Workers = {w1}
  Sources = {s1}
  Revisions = {ra, rb}
  Evidence = {e1}
  TaskEvidence = {e1}
  Quotes <- MCQuotes
  Legacy <- MCLegacy
  LegacyRevision = ra
  MaxAttempts = 1
  MaxVersion = 3
  MaxRequests = 1
  MaxCrashes = 1
PROPERTIES AcceptedAsRead OwnerWorkKept TaskKept
