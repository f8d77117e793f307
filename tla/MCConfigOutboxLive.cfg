SPECIFICATION FairSpec
CONSTANTS
  p1 = p1
  p2 = p2
  a1 = a1
  a2 = a2
  Publisher = {p1, p2}
  Polling = {p1}
  Agent = {a1, a2}
  AgentOf <- MCTwoAgents
  MaxRevisions = 2
  Scopes = 1
  BatchLimit = 2
  LeaseSeconds = 0
  RetryDelay = 1
  MaxAttempts = 2
  MaxCrashes = 1
  MaxOperations = 0
  MaxResends = 0
  NoLease = NoLease
INVARIANTS
  DeadLetterIsExhausted
  InflightIsHeld
PROPERTIES
  PublishedIsFinal
  EventuallySettled
