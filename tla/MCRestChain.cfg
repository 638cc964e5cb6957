\* Two requests for two routes or for the same, a latch of one element each.
SPECIFICATION FairSpec
CONSTANTS
  Request = {q1, q2}
  Route = {r1, r2}
  MaxConns = 1
  HandlerCode = {200, 503}
INVARIANTS
  TypeOK
  NothingLeaks
  JudgedByAnswer
PROPERTIES
  Answered
\* All requests may be answered and all handlers gone.
CHECK_DEADLOCK FALSE
