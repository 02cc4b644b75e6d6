SPECIFICATION FairLockSpec
CONSTANTS
  Process = {p1, p2}
  NoFile = NoFile
  MaxCrash = 1
  Stalls = FALSE
INVARIANT ExclusionUntilCrash
PROPERTIES WrittenLockBrokenOnlyIfDead NeverBlocked
