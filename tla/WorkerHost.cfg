SPECIFICATION FairSpec
CONSTANTS
  w1 = w1
  w2 = w2
  r1 = r1
  t1 = t1
  t2 = t2
  None = None
  Request <- MCRequest
  Write <- MCWrite
  Protected <- MCProtected
  Thread <- MCThread
  MaxDepth = 2
  MaxExpiryRetries = 1
  MaxStartAttempts = 2
  MaxWorkerLosses = 2
  MaxHosts = 2
INVARIANTS NothingLost Truthful OneThread ClosedIsQuiet
CHECK_DEADLOCK FALSE
PROPERTIES EverySettles ComesBack
