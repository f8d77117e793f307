SPECIFICATION Spec
CONSTANTS
  p1 = p1
  p2 = p2
  a1 = a1
  a2 = a2
  Publisher = {p1, p2}
  Polling = {}
  Agent = {a1}
  AgentOf <- MCOneAgent
  MaxRevisions = 2
  Scopes = 1
  BatchLimit = 1
  LeaseSeconds = 1
  RetryDelay = 1
  MaxAttempts = 2
  MaxCrashes = 0
  MaxOperations = 0
  MaxResends = 0
  NoLease = NoLease
INVARIANT
  RevisionsKeepOrder
