SPECIFICATION Spec
CONSTANTS
  Proc = {p1, p2}
  None = None
  TTL = 1
  PauseCheck = 1
  Overlap = FALSE
  MaxTime = 1
  MaxEpoch = 3
  MaxCommits = 2
  Max <- FencingBudget
SYMMETRY Symmetry
INVARIANTS EpochIdentifiesWriter ActivatedIsFenced
PROPERTY NoZombieCommit
CHECK_DEADLOCK FALSE
