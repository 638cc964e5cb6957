\* Two requests for a route with gates or for one without, or for no route; one
\* handler at a time counts, those that timed out run on.
SPECIFICATION GateSpec
CONSTANTS
  Request = {q1, q2}
  Target <- MCTarget
  Route <- MCRoute
  MaxConns = 1
  HandlerCode = {200, 400, 401, 403, 409, 413, 500}
  UserCode = {200}
  CallbackCode = {409}
  Settings <- MCSettings
  Tolerance = 1
SYMMETRY MCSymmetry
INVARIANTS
  HandlerGuarded
  CountsFollowUses
  RefusalStands
\* All requests may be answered and all handlers gone.
CHECK_DEADLOCK FALSE
