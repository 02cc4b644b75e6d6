SPECIFICATION Spec
CONSTANTS
  Classes = 3
  MaxDepth = 3
  MaxBytes = 5
  MaxAge = 2
  Aging = 1
  BypassEvery = 1
  Sizes <- MCSizes
INVARIANTS Accounted AgedServedInBound StopDelayedOnce
