---------------------------- MODULE TokenLimiter ----------------------------
(***************************************************************************)
(* The distributed token bucket of core/limit/tokenlimit.go: goroutines of *)
(* several processes share one bucket that a Lua script keeps in Redis.    *)
(* Each process has a TokenLimiter of its own, which turns to an           *)
(* in-process limiter when Redis fails and starts a goroutine, the         *)
(* monitor, that pings Redis and switches back when Redis answers.         *)
(*                                                                         *)
(* Every access of a goroutine to shared state is a step: the atomic load  *)
(* of redisAlive, the script (which Redis runs atomically), the reply, the *)
(* critical sections of rescueLock and the store of redisAlive that the    *)
(* monitor makes without the lock.                                         *)
(***************************************************************************)
EXTENDS Integers

CONSTANTS
  Caller,     \* the goroutines that call AllowN
  Limiter,    \* the TokenLimiter values, one per process, all on one key
  LimiterOf,  \* the limiter each caller uses
  Rate,       \* tokens per second
  Burst,      \* capacity of the bucket
  Request,    \* the numbers of tokens a call may ask for
  NoCaller,   \* nobody holds a rescueLock
  MaxClock,   \* bound: the last second that is explored
  MaxOutages  \* bound: how often Redis may go down

\* A rate of 0 divides by zero in NewTokenLimiter; the limiter of a caller is
\* fixed.
ASSUME LimiterAssumption ==
  /\ LimiterOf \in [Caller -> Limiter]
  /\ Rate \in Nat \ {0} /\ Burst \in Nat
  /\ Request \subseteq Nat
  /\ NoCaller \notin Caller
  /\ MaxClock \in Nat /\ MaxOutages \in Nat

VARIABLES
  clock,          \* wall clock in seconds, the same for Redis and its clients
  redis,          \* "up" or "down"
  outages,        \* how often Redis went down (bounded by MaxOutages)
  bucket,         \* the two Redis keys: tokens left, last_refreshed, expiry
  redisAlive,     \* per limiter: the flag reserveN loads
  monitorStarted, \* the limiters whose flag of that name is set
  rescueLock,     \* per limiter: the caller inside startMonitor, or NoCaller
  monitor,        \* the goroutine the caller started: "none", "ping", "exit"
  pc,             \* per caller: where it is in reserveN
  now,            \* per caller: the time captured by Allow
  asked,          \* per caller: the n of AllowN
  consumed,       \* history: tokens the script has handed out
  rewound,        \* history: seconds by which scripts put last_refreshed back
  wipes           \* history: how often Redis came back without its keys

redisVars   == <<redis, outages, bucket, consumed, rewound, wipes>>
limiterVars == <<redisAlive, monitorStarted, rescueLock, monitor>>
vars == <<clock, redisVars, limiterVars, pc, now, asked>>

NoKeys == [present |-> FALSE, tokens |-> 0, ts |-> 0, expiry |-> 0]

Init ==
  /\ clock = 0
  /\ redis = "up"
  /\ outages = 0
  /\ bucket = NoKeys
  /\ redisAlive = [l \in Limiter |-> 1]
  /\ monitorStarted = {}
  /\ rescueLock = [l \in Limiter |-> NoCaller]
  /\ monitor = [c \in Caller |-> "none"]
  /\ pc = [c \in Caller |-> "idle"]
  /\ now = [c \in Caller |-> 0]
  /\ asked = [c \in Caller |-> 0]
  /\ consumed = 0
  /\ rewound = 0
  /\ wipes = 0

Goto(c, from, to) == pc[c] = from /\ pc' = [pc EXCEPT ![c] = to]

\* The call is over: its locals go out of scope.
Leave(c, from) ==
  /\ Goto(c, from, "idle")
  /\ now' = [now EXCEPT ![c] = 0]
  /\ asked' = [asked EXCEPT ![c] = 0]

-----------------------------------------------------------------------------
(* The Lua script.                                                         *)

Ttl == (2 * Burst) \div Rate

\* SETEX refuses an expire time of 0, so the script fails as a whole.
ScriptFails == Ttl = 0

\* The keys expire Ttl seconds after they were written; within the second of
\* the expiry they may be there or not.
KeysPresent(present) ==
  /\ present => bucket.present /\ clock <= bucket.expiry
  /\ bucket.present /\ clock < bucket.expiry => present

AtMost(bound, x) == IF x > bound THEN bound ELSE x
Elapsed(from, to) == IF to > from THEN to - from ELSE 0

\* Variant for a mutation run: the cap is forgotten.
FilledUncapped(present, t) ==
  IF present THEN bucket.tokens + Elapsed(bucket.ts, t) * Rate ELSE Burst

Filled(present, t) ==
  IF present THEN AtMost(Burst, bucket.tokens + Elapsed(bucket.ts, t) * Rate)
  ELSE Burst

\* What the script takes for a call at time t that asks for k tokens.
Taken(present, t, k) == IF Filled(present, t) >= k THEN k ELSE 0

\* How far the script at time t puts last_refreshed behind the time up to
\* which the bucket was already filled.
Rewind(present, t) ==
  IF present THEN Elapsed(t, bucket.ts) ELSE clock - t

\* Variant for a mutation run: the timestamp key is written only once.
RunScriptKeepTs(c) ==
  \E present \in BOOLEAN :
    LET taken == Taken(present, now[c], asked[c])
    IN /\ KeysPresent(present)
       /\ bucket' = [present |-> TRUE,
                     tokens  |-> Filled(present, now[c]) - taken,
                     ts      |-> IF present THEN bucket.ts ELSE now[c],
                     expiry  |-> clock + Ttl]
       /\ consumed' = consumed + taken
       /\ rewound' = rewound + Rewind(present, now[c])

RunScript(c) ==
  \E present \in BOOLEAN :
    LET taken == Taken(present, now[c], asked[c])
    IN /\ KeysPresent(present)
       /\ bucket' = [present |-> TRUE,
                     tokens  |-> Filled(present, now[c]) - taken,
                     ts      |-> now[c],
                     expiry  |-> clock + Ttl]
       /\ consumed' = consumed + taken
       /\ rewound' = rewound + Rewind(present, now[c])

-----------------------------------------------------------------------------
(* reserveN.                                                               *)

Allow(c) ==
  /\ Goto(c, "idle", "load")
  /\ now' = [now EXCEPT ![c] = clock]
  /\ \E k \in Request : asked' = [asked EXCEPT ![c] = k]
  /\ UNCHANGED <<clock, redisVars, limiterVars>>

LoadRedisAlive(c) ==
  /\ Goto(c, "load", IF redisAlive[LimiterOf[c]] = 0 THEN "rescue" ELSE "eval")
  /\ UNCHANGED <<clock, redisVars, limiterVars, now, asked>>

Eval(c) ==
  /\ redis = "up" /\ ~ScriptFails
  /\ Goto(c, "eval", "reply")
  /\ RunScript(c)
  /\ UNCHANGED <<clock, redis, outages, wipes, limiterVars, now, asked>>

EvalError(c) ==
  /\ redis = "down" \/ ScriptFails
  /\ Goto(c, "eval", "start")
  /\ UNCHANGED <<clock, redisVars, limiterVars, now, asked>>

\* The script has run and its answer reaches the caller.
EvalReply(c) ==
  /\ Leave(c, "reply")
  /\ UNCHANGED <<clock, redisVars, limiterVars>>

\* The script has run and the answer is lost with the connection.
EvalReplyLost(c) ==
  /\ redis = "down"
  /\ Goto(c, "reply", "start")
  /\ UNCHANGED <<clock, redisVars, limiterVars, now, asked>>

\* rescueLimiter.AllowN decides; its answer changes nothing else here.
Rescue(c) ==
  /\ Leave(c, "rescue")
  /\ UNCHANGED <<clock, redisVars, limiterVars>>

-----------------------------------------------------------------------------
(* startMonitor and waitForRedis.                                          *)

\* Variant for a mutation run: monitorStarted is not looked at.
StartMonitorUnchecked(c) ==
  LET l == LimiterOf[c]
  IN /\ rescueLock[l] = NoCaller
     /\ Goto(c, "start", "spawn")
     /\ monitorStarted' = monitorStarted \cup {l}
     /\ rescueLock' = [rescueLock EXCEPT ![l] = c]
     /\ UNCHANGED <<clock, redisVars, redisAlive, monitor, now, asked>>

\* Variant for a mutation run: the early return keeps rescueLock.
StartMonitorKeepLock(c) ==
  LET l == LimiterOf[c]
  IN /\ rescueLock[l] = NoCaller
     /\ Goto(c, "start", IF l \in monitorStarted THEN "rescue" ELSE "spawn")
     /\ monitorStarted' = monitorStarted \cup {l}
     /\ rescueLock' = [rescueLock EXCEPT ![l] = c]
     /\ UNCHANGED <<clock, redisVars, redisAlive, monitor, now, asked>>

StartMonitorCheck(c) ==
  LET l == LimiterOf[c]
  IN /\ rescueLock[l] = NoCaller
     /\ IF l \in monitorStarted
        THEN /\ Goto(c, "start", "rescue")
             /\ UNCHANGED <<monitorStarted, rescueLock>>
        ELSE /\ Goto(c, "start", "spawn")
             /\ monitorStarted' = monitorStarted \cup {l}
             /\ rescueLock' = [rescueLock EXCEPT ![l] = c]
     /\ UNCHANGED <<clock, redisVars, redisAlive, monitor, now, asked>>

StartMonitorSpawn(c) ==
  LET l == LimiterOf[c]
  IN /\ Goto(c, "spawn", "rescue")
     /\ redisAlive' = [redisAlive EXCEPT ![l] = 0]
     /\ monitor' = [monitor EXCEPT ![c] = "ping"]
     /\ rescueLock' = [rescueLock EXCEPT ![l] = NoCaller]
     /\ UNCHANGED <<clock, redisVars, monitorStarted, now, asked>>

\* Variant for a mutation run: one ping, whatever its outcome.
MonitorPingOnce(c) ==
  /\ monitor[c] = "ping"
  /\ redisAlive' = IF redis = "up" THEN [redisAlive EXCEPT ![LimiterOf[c]] = 1]
                             ELSE redisAlive
  /\ monitor' = [monitor EXCEPT ![c] = "exit"]
  /\ UNCHANGED <<clock, redisVars, monitorStarted, rescueLock, pc, now, asked>>

\* A ping that fails leaves the goroutine where it is.
MonitorPing(c) ==
  /\ monitor[c] = "ping"
  /\ redis = "up"
  /\ redisAlive' = [redisAlive EXCEPT ![LimiterOf[c]] = 1]
  /\ monitor' = [monitor EXCEPT ![c] = "exit"]
  /\ UNCHANGED <<clock, redisVars, monitorStarted, rescueLock, pc, now, asked>>

\* The deferred function of waitForRedis.
MonitorExit(c) ==
  LET l == LimiterOf[c]
  IN /\ monitor[c] = "exit"
     /\ rescueLock[l] = NoCaller
     /\ monitorStarted' = monitorStarted \ {l}
     /\ monitor' = [monitor EXCEPT ![c] = "none"]
     /\ UNCHANGED <<clock, redisVars, redisAlive, rescueLock, pc, now, asked>>

-----------------------------------------------------------------------------
(* The environment.                                                        *)

Tick ==
  /\ clock < MaxClock
  /\ clock' = clock + 1
  /\ UNCHANGED <<redisVars, limiterVars, pc, now, asked>>

RedisDown ==
  /\ redis = "up"
  /\ outages < MaxOutages
  /\ redis' = "down"
  /\ outages' = outages + 1
  /\ UNCHANGED <<clock, bucket, consumed, rewound, wipes, limiterVars,
                 pc, now, asked>>

\* After a cut connection the keys are still there, after a restart of Redis
\* they may be lost.
RedisBack ==
  /\ redis = "down"
  /\ redis' = "up"
  /\ \/ UNCHANGED <<bucket, wipes>>
     \/ /\ bucket' = NoKeys
        /\ wipes' = wipes + 1
  /\ UNCHANGED <<clock, outages, consumed, rewound, limiterVars, pc, now, asked>>

-----------------------------------------------------------------------------
\* What a call does once it is made, and what its monitor does.
Call(c) ==
  \/ LoadRedisAlive(c)
  \/ Eval(c) \/ EvalError(c) \/ EvalReply(c) \/ EvalReplyLost(c)
  \/ StartMonitorCheck(c) \/ StartMonitorSpawn(c)
  \/ Rescue(c)

Monitor(c) == MonitorPing(c) \/ MonitorExit(c)

Next ==
  \/ \E c \in Caller : Allow(c) \/ Call(c) \/ Monitor(c)
  \/ Tick \/ RedisDown \/ RedisBack

Spec == Init /\ [][Next]_vars

\* Goroutines are scheduled and a ticker goes on firing, so a step that stays
\* possible is taken; rescueLock is a sync.Mutex, which does not starve a
\* waiter, hence strong fairness where the lock is taken. Nothing is assumed of
\* Redis, of the clock, or of when calls arrive.
Fairness ==
  \A c \in Caller :
    /\ WF_vars(Call(c)) /\ SF_vars(StartMonitorCheck(c))
    /\ WF_vars(MonitorPing(c)) /\ SF_vars(MonitorExit(c))

FairSpec == Spec /\ Fairness

-----------------------------------------------------------------------------
(* Properties.                                                             *)

PcValues == {"idle", "load", "eval", "reply", "start", "spawn", "rescue"}

\* Type invariant of the limiters, the callers and the bucket.
TypeOK ==
  /\ clock \in 0 .. MaxClock
  /\ redis \in {"up", "down"}
  /\ outages \in 0 .. MaxOutages
  /\ bucket \in [present : BOOLEAN, tokens : 0 .. Burst, ts : 0 .. MaxClock,
                 expiry : Nat]
  /\ redisAlive \in [Limiter -> {0, 1}]
  /\ monitorStarted \subseteq Limiter
  /\ rescueLock \in [Limiter -> Caller \cup {NoCaller}]
  /\ monitor \in [Caller -> {"none", "ping", "exit"}]
  /\ pc \in [Caller -> PcValues]
  /\ now \in [Caller -> 0 .. MaxClock]
  /\ asked \in [Caller -> Nat]
  /\ consumed \in Nat /\ rewound \in Nat /\ wipes \in Nat

\* A limiter is in its rescue mode exactly as long as a goroutine of its own
\* pings Redis, and it never has two monitor goroutines: the lock-free store of
\* redisAlive in waitForRedis and the stores of startMonitor under rescueLock
\* cannot leave a process on its in-process limiter with nobody looking for
\* Redis.
RescueIsMonitored ==
  \A l \in Limiter :
    LET running == {c \in Caller : LimiterOf[c] = l /\ monitor[c] # "none"}
    IN /\ \A c, d \in running : c = d
       /\ redisAlive[l] = 0 <=> \E c \in running : monitor[c] = "ping"

\* What the script hands out, over all processes, is paid for: one full bucket
\* (one more each time Redis loses its keys), the tokens the wall clock has
\* produced, and those produced a second time because a call that carried an
\* older timestamp put last_refreshed back. Expiry of the keys gives nothing
\* away, because Ttl is never shorter than the time that fills the bucket.
ConsumedIsPaidFor ==
  consumed <= Burst * (1 + wipes) + Rate * (clock + rewound)

\* What the comment on NewTokenLimiter promises (tokenlimit.go:121-122): events
\* up to rate per second, with bursts of at most burst.
RateAndBurst == wipes = 0 => consumed <= Burst + Rate * clock

\* Once Redis stays up, every limiter ends up on Redis and stays there, whatever
\* late failures the goroutines still have in hand.
BackOnRedis == <>[](redis = "up") => <>[](\A l \in Limiter : redisAlive[l] = 1)

\* Every call of AllowN returns, whatever Redis does: callers and monitors never
\* block one another on rescueLock.
CallsReturn == \A c \in Caller : (pc[c] # "idle") ~> (pc[c] = "idle")
=============================================================================
