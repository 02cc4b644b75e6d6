SPECIFICATION FairSpec
CONSTANTS
  n1 = n1
  n2 = n2
  p1 = p1
  None = None
  Member <- MCMember
  Priority <- MCPriority
  Command <- MCCommand
  Digest <- MCDigest
  MaxBatchCount = 2
  MaxBufferedCount = 3
  MaxFlushAttempts = 2
INVARIANTS HeldIsExact AnswersAreTrue AppliedOnce NormalOrder
PROPERTY EverySubmitSettles
CHECK_DEADLOCK FALSE
