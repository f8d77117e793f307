SPECIFICATION Spec
CONSTANTS
  w1 = w1
  w2 = w2
  w3 = w3
  Worker = {w1, w2}
  MaxEvents = 2
  BatchLimit = 2
  LeaseSeconds = 1
  RetryBackoff <- MCNoBackoff
  DeadLetterAfterAttempts = 2
  NowOffset <- MCWallClock
  Horizon = 0
  MaxQueued = 2
  MaxCrashes = 0
  NoLease = NoLease
SYMMETRY MCSymmetry
INVARIANTS
  TypeOK
  SentWasDelivered
  DeadLetterIsExhausted
  OnePublishPerAttempt
  AttemptHasOneHolder
