SPECIFICATION Spec
CONSTANTS
  p1 = p1
  p2 = p2
  a1 = a1
  a2 = a2
  Publisher = {p1, p2}
  Polling = {}
  Agent = {a1}
  AgentOf <- MCOneAgent
  MaxRevisions = 1
  Scopes = 1
  BatchLimit = 1
  LeaseSeconds = 1
  RetryDelay = 1
  MaxAttempts = 2
  MaxCrashes = 1
  MaxOperations = 2
  MaxResends = 1
  NoLease = NoLease
SYMMETRY MCSymmetry
INVARIANTS
  TypeOK
  PublishedWasLogged
  HoldersAreBounded
  CopiesAreBounded
