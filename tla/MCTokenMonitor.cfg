\* The switch between Redis and the in-process limiter: three goroutines of one
\* process, Redis goes down once; the calls the outage caught fail at any later
\* time, so monitors end and start again. The clock stands still: neither flag
\* depends on it.
SPECIFICATION FairSpec
CONSTANTS
  NoCaller = NoCaller
  theProcess = p
  Caller = {c1, c2, c3}
  Limiter = {p}
  LimiterOf <- OneProcess
  Rate = 1
  Burst = 1
  Request = {1}
  MaxClock = 0
  MaxOutages = 1
INVARIANTS
  RescueIsMonitored
PROPERTIES
  BackOnRedis
  CallsReturn
