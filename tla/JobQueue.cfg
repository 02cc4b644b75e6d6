SPECIFICATION FairSpec
CONSTANTS
  Proc = {p1, p2}
  None = None
  Job = {a, n}
  NonRecoverable = {n}
  Width = 1
  MaxFail = 1
  MaxStall = 1
INVARIANTS QueuedIsScheduled NotRunAgain IdleWakes
PROPERTIES FinishedIsFinal JobEnds
CHECK_DEADLOCK FALSE
