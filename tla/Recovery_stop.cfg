SPECIFICATION Spec
CONSTANTS
  MaxRow = 2
  q1 = q1
  k1 = k1
  Request <- MCRequest
  ManualKey <- MCManualKey
  Fresh = Fresh
  AutoKey = AutoKey
  Other = Other
  None = None
  MaxReprobes = 1
  MaxKeys = 1
  MaxCrash = 1
  MaxBootCrash = 1
INVARIANT StopTakesTheClaim
CHECK_DEADLOCK FALSE
