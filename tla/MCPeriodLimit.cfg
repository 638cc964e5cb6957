\* Two callers of one key, aligned and not, quotas 0 to 2, two ticks a second and
\* three seconds a period, and a key that Redis loses.
SPECIFICATION FairSpec
CONSTANTS
  Caller = {c1, c2}
  Quotas = {0, 1, 2}
  Period = 3
  TicksPerSecond = 2
  MaxCount = 4
  MaxLosses = 1
INVARIANTS
  TypeOK
  QuotaPerKey
  TwoQuotasPerPeriod
PROPERTIES
  KeyExpires
