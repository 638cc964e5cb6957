\* Two callers, up to three requests, a cool-off of two ticks.
SPECIFICATION FairSpec
CONSTANTS
  Caller = {c1, c2}
  CoolOff = 2
  MaxCapacity = 2
  MaxFlying = 4
INVARIANTS
  TypeOK
  FlagHasTime
  CalmDropsNothing
PROPERTIES
  KeepsServing
