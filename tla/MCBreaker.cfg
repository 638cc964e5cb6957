\* Two callers, a window of three intervals, one call that is always forgiven.
SPECIFICATION FairSpec
CONSTANTS
  Caller = {c1, c2}
  Intervals = 3
  Protection = 1
  MaxPerInterval = 3
INVARIANTS
  OpenNeedsFailure
PROPERTIES
  OneSamplePerCall
  KeepsAdmitting
  ClosesAgain
