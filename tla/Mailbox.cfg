SPECIFICATION FairSpec
CONSTANTS
  Messages = 2
  Calls = 2
  Old = old
  New = new
  None = none
  Together <- Events
INVARIANTS OneTurnPerMessage DeliveredIsTrue
PROPERTIES WakesController EveryMessageSettles
CHECK_DEADLOCK FALSE
