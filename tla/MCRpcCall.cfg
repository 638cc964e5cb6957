\* One call among others, which show in the cache of the authenticator only;
\* MCConfigs has the settings.
SPECIFICATION FairSpec
CONSTANTS
  Call = {c1}
  Token = {t1, t2}
  MaxChanges = 1
  HandlerError = {"nil", "DataLoss"}
  Configs <- MCConfigs
INVARIANTS
  JudgedAlike
  TokenEnforced
PROPERTIES
  CallReturns
  NothingStuck
\* All may be stopped, answered and returned.
CHECK_DEADLOCK FALSE
