\* The bucket in Redis: two processes, time passes (Ttl is 2 seconds, so the keys
\* expire), Redis goes down once.
SPECIFICATION Spec
CONSTANTS
  NoCaller = NoCaller
  theProcess = p
  Caller = {c1, c2}
  Limiter = {c1, c2}
  LimiterOf <- OwnProcess
  Rate = 2
  Burst = 2
  Request = {1, 2}
  MaxClock = 3
  MaxOutages = 1
SYMMETRY ProcessSymmetry
INVARIANTS
  TypeOK
  ConsumedIsPaidFor
