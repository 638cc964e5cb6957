\* The same shedder without fairness, for the cool-off.
SPECIFICATION Spec
CONSTANTS
  Caller = {c1, c2}
  CoolOff = 2
  MaxCapacity = 2
  MaxFlying = 4
INVARIANTS
  CoolOffKept
