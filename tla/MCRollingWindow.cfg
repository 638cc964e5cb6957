\* A window of three buckets over more than two turns of the ring.
SPECIFICATION Spec
CONSTANTS
  Size = 3
  IgnoreCurrent = TRUE
  MaxClock = 7
  MaxAdds = 4
INVARIANTS
  TypeOK
  NothingLost
PROPERTIES
  ImplementsSampleWindow
