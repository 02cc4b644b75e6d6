SPECIFICATION Spec
CONSTANTS
  Proc = {p1, p2}
  None = None
  TTL = 1
  PauseCheck = 1
  Overlap = FALSE
  MaxTime = 1
  MaxEpoch = 2
  MaxCommits = 1
  Max <- PauseBudget
SYMMETRY Symmetry
INVARIANT LiveLeaseIsOurs
PROPERTIES QuietAfterDrain PauseNoticedInTime GrantExceedsAll ImplementsEpochFencing
CHECK_DEADLOCK FALSE
