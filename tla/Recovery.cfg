SPECIFICATION Spec
CONSTANTS
  MaxRow = 3
  q1 = q1
  k1 = k1
  Request <- MCRequest
  ManualKey <- MCManualKey
  Fresh = Fresh
  AutoKey = AutoKey
  Other = Other
  None = None
  MaxReprobes = 1
  MaxKeys = 1
  MaxCrash = 1
  MaxBootCrash = 1
INVARIANTS LaunchedOnce KeyLaunchesOnce AcceptedIsTrue RowsMatchTurn ClaimIsHeld
PROPERTY ClosedStaysClosed
CHECK_DEADLOCK FALSE
