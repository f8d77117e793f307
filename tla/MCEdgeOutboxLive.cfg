SPECIFICATION FairSpec
CONSTANTS
  w1 = w1
  w2 = w2
  w3 = w3
  Worker = {w1, w2}
  MaxEvents = 1
  BatchLimit = 1
  LeaseSeconds = 1
  RetryBackoff <- MCRetryBackoff
  DeadLetterAfterAttempts = 2
  NowOffset <- MCAdapterClock
  Horizon = 2
  MaxQueued = 2
  MaxCrashes = 1
  NoLease = NoLease
INVARIANT
  IndInv
PROPERTY
  NeverOutOfReach
  SentIsFinal
  ImplementsDelivery
