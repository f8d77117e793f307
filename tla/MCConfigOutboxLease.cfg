SPECIFICATION FairSpec
CONSTANTS
  p1 = p1
  p2 = p2
  a1 = a1
  a2 = a2
  Publisher = {p1, p2}
  Polling = {p1, p2}
  Agent = {a1}
  AgentOf <- MCOneAgent
  MaxRevisions = 1
  Scopes = 1
  BatchLimit = 1
  LeaseSeconds = 1
  RetryDelay = 0
  MaxAttempts = 1
  MaxCrashes = 1
  MaxOperations = 0
  MaxResends = 0
  NoLease = NoLease
PROPERTY
  ExpiredLeaseReturns
