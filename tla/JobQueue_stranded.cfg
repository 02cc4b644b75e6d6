SPECIFICATION FairSpec
CONSTANTS
  Proc = {p1, p2}
  None = None
  Job = {a, b}
  NonRecoverable = {}
  Width = 1
  MaxFail = 1
  MaxStall = 0
PROPERTY NotStranded
CHECK_DEADLOCK FALSE
