------------------------- MODULE TokenLimiterProofs -------------------------
(***************************************************************************)
(* Proofs about TokenLimiter for every number of goroutines and processes, *)
(* every rate, burst and request: type correctness, the monitor invariant  *)
(* and the bound on the tokens handed out.                                 *)
(***************************************************************************)
EXTENDS TokenLimiter, TLAPS

(* The invariant of the monitors. A caller at "spawn" holds the lock of its *)
(* limiter between the two stores of startMonitor; while it is there, no   *)
(* monitor of that limiter is left, since the last one cleared             *)
(* monitorStarted as its last step.                                        *)

LockInv ==
  \A l \in Limiter : rescueLock[l] # NoCaller =>
    LimiterOf[rescueLock[l]] = l /\ pc[rescueLock[l]] = "spawn"

SpawnInv ==
  \A c \in Caller : pc[c] = "spawn" =>
    /\ rescueLock[LimiterOf[c]] = c
    /\ LimiterOf[c] \in monitorStarted
    /\ \A d \in Caller : LimiterOf[d] = LimiterOf[c] => monitor[d] = "none"

MonitorInv ==
  \A c \in Caller : monitor[c] # "none" =>
    /\ LimiterOf[c] \in monitorStarted
    /\ monitor[c] = "ping" <=> redisAlive[LimiterOf[c]] = 0
    /\ \A d \in Caller :
         LimiterOf[d] = LimiterOf[c] /\ monitor[d] # "none" => d = c

AliveInv ==
  \A l \in Limiter : redisAlive[l] = 0 =>
    \E c \in Caller : LimiterOf[c] = l /\ monitor[c] = "ping"

(* The books. Paid(base, t) is what had been paid for at time t; the bucket *)
(* has been filled up to last_refreshed. They are opened with base, which  *)
(* is Burst when the service starts and some other number for who looks    *)
(* at the bucket later on.                                                 *)

Paid(base, t) == base + Burst * wipes + Rate * (t + rewound)

BucketInv(base) ==
  IF bucket.present
  THEN /\ consumed + bucket.tokens <= Paid(base, bucket.ts)
       /\ bucket.ts <= clock
       /\ bucket.ts + Ttl <= bucket.expiry
  ELSE consumed + Burst <= Paid(base, clock)

NowInv == \A c \in Caller : now[c] <= clock

MonitorsInv == LockInv /\ SpawnInv /\ MonitorInv /\ AliveInv

IInv == TypeOK /\ NowInv /\ MonitorsInv /\ BucketInv(Burst)

-----------------------------------------------------------------------------
(* The arithmetic of the script.                                           *)

\* A product with Rate is monotonic.
LEMMA RateMonotonic ==
  ASSUME NEW a \in Int, NEW b \in Int, a <= b
  PROVE  Rate * a <= Rate * b
  BY LimiterAssumption

\* A product with Rate distributes over sums and differences.
LEMMA RateDistributes ==
  ASSUME NEW a \in Int, NEW b \in Int
  PROVE  /\ Rate * a \in Int
         /\ Rate * (a + b) = Rate * a + Rate * b
         /\ Rate * (a - b) = Rate * a - Rate * b
  BY LimiterAssumption

\* The keys live at least as long as it takes to fill the bucket, unless SETEX
\* refuses their expire time.
LEMMA TtlFillsBucket ==
  /\ Ttl \in Nat
  /\ ~ScriptFails => Burst <= Rate * Ttl
<1>. DEFINE q == (2 * Burst) \div Rate
<1>1. /\ 2 * Burst \in Nat /\ Rate \in Nat /\ Rate > 0
  BY LimiterAssumption
<1>2. /\ q \in Int
      /\ Rate * q <= 2 * Burst
      /\ 2 * Burst < Rate * (q + 1)
  BY <1>1, Z3
<1>3. q \in Nat
  BY <1>1, <1>2
<1>4. ASSUME q # 0 PROVE Burst <= Rate * q
  <2>1. Rate * 1 <= Rate * q
    BY <1>3, <1>4, RateMonotonic
  <2>2. Rate * (q + 1) = Rate * q + Rate
    BY <1>1, <1>2
  <2>. QED BY <1>1, <1>2, <1>3, <2>1, <2>2, LimiterAssumption
<1>. QED BY <1>3, <1>4 DEF Ttl, ScriptFails

\* What the script fills the bucket to.
LEMMA FilledRange ==
  ASSUME TypeOK, NEW present \in BOOLEAN, NEW t \in 0 .. MaxClock
  PROVE  /\ Filled(present, t) \in 0 .. Burst
         /\ present =>
              Filled(present, t) <= bucket.tokens + Rate * Elapsed(bucket.ts, t)
         /\ t <= clock => Rewind(present, t) \in Nat
<1>1. /\ bucket.tokens \in 0 .. Burst /\ bucket.ts \in 0 .. MaxClock
      /\ clock \in 0 .. MaxClock
  BY DEF TypeOK
<1>2. Elapsed(bucket.ts, t) \in Nat /\ Elapsed(t, bucket.ts) \in Nat
  BY <1>1, LimiterAssumption DEF Elapsed
<1>3. Elapsed(bucket.ts, t) * Rate \in Nat
      /\ Elapsed(bucket.ts, t) * Rate = Rate * Elapsed(bucket.ts, t)
  BY <1>2, LimiterAssumption
<1>. QED BY <1>1, <1>2, <1>3, LimiterAssumption DEF Filled, AtMost, Rewind

\* What the script hands out is there.
LEMMA TakenRange ==
  ASSUME TypeOK, NEW present \in BOOLEAN, NEW t \in 0 .. MaxClock, NEW k \in Nat
  PROVE  /\ Taken(present, t, k) \in Nat
         /\ Taken(present, t, k) <= Filled(present, t)
  BY FilledRange, LimiterAssumption DEF Taken

-----------------------------------------------------------------------------
(* Type correctness, with the fact that no call carries a future time.     *)

LEMMA InitTypeOK == Init => TypeOK /\ NowInv
BY LimiterAssumption DEF Init, NoKeys, TypeOK, PcValues, NowInv

LEMMA NextTypeOK == TypeOK /\ NowInv /\ [Next]_vars => TypeOK' /\ NowInv'
<1>. SUFFICES ASSUME TypeOK, NowInv, [Next]_vars PROVE TypeOK' /\ NowInv'
  OBVIOUS
<1>. USE LimiterAssumption DEF PcValues, NowInv
<1>1. CASE UNCHANGED vars
  BY <1>1 DEF vars, redisVars, limiterVars, TypeOK
<1>2. ASSUME NEW c \in Caller, Allow(c) PROVE TypeOK' /\ NowInv'
  BY <1>2 DEF Allow, Goto, redisVars, limiterVars, TypeOK
<1>3. ASSUME NEW c \in Caller, LoadRedisAlive(c) PROVE TypeOK' /\ NowInv'
  BY <1>3 DEF LoadRedisAlive, Goto, redisVars, limiterVars, TypeOK
<1>4. ASSUME NEW c \in Caller, Eval(c) PROVE TypeOK' /\ NowInv'
  <2>1. PICK present \in BOOLEAN :
          LET taken == Taken(present, now[c], asked[c])
          IN /\ bucket' = [present |-> TRUE,
                           tokens  |-> Filled(present, now[c]) - taken,
                           ts      |-> now[c],
                           expiry  |-> clock + Ttl]
             /\ consumed' = consumed + taken
             /\ rewound' = rewound + Rewind(present, now[c])
    BY <1>4 DEF Eval, RunScript
  <2>2. /\ now[c] \in 0 .. MaxClock /\ asked[c] \in Nat /\ now[c] <= clock
        /\ clock \in Nat
    BY DEF TypeOK
  <2>3. /\ Filled(present, now[c]) \in 0 .. Burst
        /\ Taken(present, now[c], asked[c]) \in Nat
        /\ Taken(present, now[c], asked[c]) <= Filled(present, now[c])
        /\ Rewind(present, now[c]) \in Nat
    BY <2>2, FilledRange, TakenRange
  <2>4. /\ bucket' \in [present : BOOLEAN, tokens : 0 .. Burst,
                        ts : 0 .. MaxClock, expiry : Nat]
        /\ consumed' \in Nat /\ rewound' \in Nat
    <3>. DEFINE left == Filled(present, now[c]) - Taken(present, now[c], asked[c])
    <3>1. left \in 0 .. Burst
      BY <2>3
    <3>2. clock + Ttl \in Nat
      BY <2>2, TtlFillsBucket
    <3>3. consumed \in Nat /\ rewound \in Nat
      BY DEF TypeOK
    <3>. HIDE DEF left
    <3>4. bucket' = [present |-> TRUE, tokens |-> left, ts |-> now[c],
                     expiry |-> clock + Ttl]
      BY <2>1 DEF left
    <3>. QED BY <2>1, <2>2, <2>3, <3>1, <3>2, <3>3, <3>4
  <2>. QED BY <1>4, <2>4 DEF Eval, Goto, limiterVars, TypeOK
<1>5. ASSUME NEW c \in Caller, EvalError(c) PROVE TypeOK' /\ NowInv'
  BY <1>5 DEF EvalError, Goto, redisVars, limiterVars, TypeOK
<1>6. ASSUME NEW c \in Caller, EvalReply(c) PROVE TypeOK' /\ NowInv'
  BY <1>6 DEF EvalReply, Leave, Goto, redisVars, limiterVars, TypeOK
<1>7. ASSUME NEW c \in Caller, EvalReplyLost(c) PROVE TypeOK' /\ NowInv'
  BY <1>7 DEF EvalReplyLost, Goto, redisVars, limiterVars, TypeOK
<1>8. ASSUME NEW c \in Caller, Rescue(c) PROVE TypeOK' /\ NowInv'
  BY <1>8 DEF Rescue, Leave, Goto, redisVars, limiterVars, TypeOK
<1>9. ASSUME NEW c \in Caller, StartMonitorCheck(c) PROVE TypeOK' /\ NowInv'
  BY <1>9 DEF StartMonitorCheck, Goto, redisVars, TypeOK
<1>10. ASSUME NEW c \in Caller, StartMonitorSpawn(c) PROVE TypeOK' /\ NowInv'
  BY <1>10 DEF StartMonitorSpawn, Goto, redisVars, TypeOK
<1>11. ASSUME NEW c \in Caller, MonitorPing(c) PROVE TypeOK' /\ NowInv'
  BY <1>11 DEF MonitorPing, redisVars, TypeOK
<1>12. ASSUME NEW c \in Caller, MonitorExit(c) PROVE TypeOK' /\ NowInv'
  BY <1>12 DEF MonitorExit, redisVars, TypeOK
<1>13. CASE Tick
  BY <1>13 DEF Tick, redisVars, limiterVars, TypeOK
<1>14. CASE RedisDown
  BY <1>14 DEF RedisDown, limiterVars, TypeOK
<1>15. CASE RedisBack
  <2>1. /\ bucket' \in [present : BOOLEAN, tokens : 0 .. Burst,
                        ts : 0 .. MaxClock, expiry : Nat]
        /\ wipes' \in Nat
    <3>1. NoKeys \in [present : BOOLEAN, tokens : 0 .. Burst,
                      ts : 0 .. MaxClock, expiry : Nat]
      BY DEF NoKeys
    <3>. QED BY <1>15, <3>1 DEF RedisBack, TypeOK
  <2>. QED BY <1>15, <2>1 DEF RedisBack, limiterVars, TypeOK
<1>. QED
  BY <1>1, <1>2, <1>3, <1>4, <1>5, <1>6, <1>7, <1>8, <1>9, <1>10, <1>11, <1>12,
     <1>13, <1>14, <1>15 DEF Next, Call, Monitor

-----------------------------------------------------------------------------
(* The monitors.                                                           *)

LEMMA InitMonitors == Init => MonitorsInv
BY LimiterAssumption
   DEF Init, MonitorsInv, LockInv, SpawnInv, MonitorInv, AliveInv

\* A step that leaves the limiters alone, and neither brings a caller to
\* "spawn" nor takes one away from it.
LEMMA MonitorsUntouched ==
  ASSUME TypeOK, MonitorsInv, UNCHANGED limiterVars,
         \A d \in Caller : pc'[d] = "spawn" <=> pc[d] = "spawn"
  PROVE  MonitorsInv'
<1>1. LockInv'
  BY LimiterAssumption DEF MonitorsInv, LockInv, limiterVars, TypeOK
<1>2. SpawnInv' /\ MonitorInv' /\ AliveInv'
  BY DEF MonitorsInv, SpawnInv, MonitorInv, AliveInv, limiterVars
<1>. QED BY <1>1, <1>2 DEF MonitorsInv

LEMMA NextMonitors == TypeOK /\ MonitorsInv /\ [Next]_vars => MonitorsInv'
<1>. SUFFICES ASSUME TypeOK, MonitorsInv, [Next]_vars PROVE MonitorsInv'
  OBVIOUS
<1>1. CASE UNCHANGED vars
  BY <1>1, MonitorsUntouched DEF vars
<1>2. ASSUME NEW c \in Caller,
             \/ Allow(c) \/ LoadRedisAlive(c) \/ Eval(c) \/ EvalError(c)
             \/ EvalReply(c) \/ EvalReplyLost(c) \/ Rescue(c)
      PROVE  MonitorsInv'
  <2>1. UNCHANGED limiterVars
    BY <1>2 DEF Allow, LoadRedisAlive, Eval, EvalError, EvalReply,
                EvalReplyLost, Rescue
  <2>2. \A d \in Caller : pc'[d] = "spawn" <=> pc[d] = "spawn"
    BY <1>2 DEF Allow, LoadRedisAlive, Eval, EvalError, EvalReply,
                EvalReplyLost, Rescue, Leave, Goto, TypeOK
  <2>. QED BY <2>1, <2>2, MonitorsUntouched
<1>3. ASSUME NEW c \in Caller, StartMonitorCheck(c) PROVE MonitorsInv'
  <2>1. CASE LimiterOf[c] \in monitorStarted
    <3>1. UNCHANGED limiterVars
      BY <1>3, <2>1 DEF StartMonitorCheck, limiterVars
    <3>2. \A d \in Caller : pc'[d] = "spawn" <=> pc[d] = "spawn"
      BY <1>3, <2>1 DEF StartMonitorCheck, Goto, TypeOK
    <3>. QED BY <3>1, <3>2, MonitorsUntouched
  <2>2. CASE LimiterOf[c] \notin monitorStarted
    <3>1. /\ rescueLock[LimiterOf[c]] = NoCaller
          /\ pc[c] = "start" /\ pc' = [pc EXCEPT ![c] = "spawn"]
          /\ monitorStarted' = monitorStarted \cup {LimiterOf[c]}
          /\ rescueLock' = [rescueLock EXCEPT ![LimiterOf[c]] = c]
          /\ UNCHANGED <<redisAlive, monitor>>
      BY <1>3, <2>2 DEF StartMonitorCheck, Goto
    <3>2. \A d \in Caller : LimiterOf[d] = LimiterOf[c] => monitor[d] = "none"
      BY <2>2 DEF MonitorsInv, MonitorInv
    <3>3. LockInv'
      BY <3>1, LimiterAssumption DEF MonitorsInv, LockInv, TypeOK
    <3>4. SpawnInv'
      <4>1. \A d \in Caller : LimiterOf[d] = LimiterOf[c] => pc[d] # "spawn"
        BY <3>1, LimiterAssumption DEF MonitorsInv, SpawnInv
      <4>2. SUFFICES ASSUME NEW d \in Caller, pc'[d] = "spawn"
                     PROVE  /\ rescueLock'[LimiterOf[d]] = d
                            /\ LimiterOf[d] \in monitorStarted'
                            /\ \A e \in Caller :
                                 LimiterOf[e] = LimiterOf[d] => monitor'[e] = "none"
        BY DEF SpawnInv
      <4>3. /\ LimiterOf[c] \in Limiter /\ LimiterOf[d] \in Limiter
            /\ DOMAIN rescueLock = Limiter /\ DOMAIN pc = Caller
        BY LimiterAssumption DEF TypeOK
      <4>4. CASE d = c
        BY <3>1, <3>2, <4>3, <4>4
      <4>5. CASE d # c
        <5>1. pc[d] = "spawn"
          BY <3>1, <4>2, <4>3, <4>5
        <5>2. LimiterOf[d] # LimiterOf[c]
          BY <4>1, <5>1
        <5>. QED BY <3>1, <4>3, <5>1, <5>2 DEF MonitorsInv, SpawnInv
      <4>. QED BY <4>4, <4>5
    <3>5. MonitorInv' /\ AliveInv'
      BY <3>1, <3>2, LimiterAssumption
         DEF MonitorsInv, MonitorInv, AliveInv, TypeOK
    <3>. QED BY <3>3, <3>4, <3>5 DEF MonitorsInv
  <2>. QED BY <2>1, <2>2
<1>4. ASSUME NEW c \in Caller, StartMonitorSpawn(c) PROVE MonitorsInv'
  <2>1. /\ pc[c] = "spawn" /\ pc' = [pc EXCEPT ![c] = "rescue"]
        /\ redisAlive' = [redisAlive EXCEPT ![LimiterOf[c]] = 0]
        /\ monitor' = [monitor EXCEPT ![c] = "ping"]
        /\ rescueLock' = [rescueLock EXCEPT ![LimiterOf[c]] = NoCaller]
        /\ UNCHANGED monitorStarted
    BY <1>4 DEF StartMonitorSpawn, Goto
  <2>2. /\ rescueLock[LimiterOf[c]] = c
        /\ LimiterOf[c] \in monitorStarted
        /\ \A d \in Caller : LimiterOf[d] = LimiterOf[c] => monitor[d] = "none"
    BY <2>1 DEF MonitorsInv, SpawnInv
  <2>3. LockInv'
    BY <2>1, <2>2, LimiterAssumption DEF MonitorsInv, LockInv, TypeOK
  <2>4. SpawnInv'
    BY <2>1, <2>2, LimiterAssumption DEF MonitorsInv, SpawnInv, TypeOK
  <2>5. MonitorInv'
    BY <2>1, <2>2, LimiterAssumption DEF MonitorsInv, MonitorInv, TypeOK
  <2>6. AliveInv'
    BY <2>1, <2>2, LimiterAssumption DEF MonitorsInv, AliveInv, TypeOK
  <2>. QED BY <2>3, <2>4, <2>5, <2>6 DEF MonitorsInv
<1>5. ASSUME NEW c \in Caller, MonitorPing(c) PROVE MonitorsInv'
  <2>1. /\ monitor[c] = "ping"
        /\ redisAlive' = [redisAlive EXCEPT ![LimiterOf[c]] = 1]
        /\ monitor' = [monitor EXCEPT ![c] = "exit"]
        /\ UNCHANGED <<monitorStarted, rescueLock, pc>>
    BY <1>5 DEF MonitorPing
  <2>2. \A d \in Caller :
          LimiterOf[d] = LimiterOf[c] /\ monitor[d] # "none" => d = c
    BY <2>1 DEF MonitorsInv, MonitorInv
  <2>3. LockInv' /\ SpawnInv'
    BY <2>1, LimiterAssumption DEF MonitorsInv, LockInv, SpawnInv, TypeOK
  <2>4. MonitorInv'
    BY <2>1, <2>2, LimiterAssumption DEF MonitorsInv, MonitorInv, TypeOK
  <2>5. AliveInv'
    BY <2>1, <2>2, LimiterAssumption DEF MonitorsInv, AliveInv, TypeOK
  <2>. QED BY <2>3, <2>4, <2>5 DEF MonitorsInv
<1>6. ASSUME NEW c \in Caller, MonitorExit(c) PROVE MonitorsInv'
  <2>1. /\ monitor[c] = "exit" /\ rescueLock[LimiterOf[c]] = NoCaller
        /\ monitorStarted' = monitorStarted \ {LimiterOf[c]}
        /\ monitor' = [monitor EXCEPT ![c] = "none"]
        /\ UNCHANGED <<redisAlive, rescueLock, pc>>
    BY <1>6 DEF MonitorExit
  <2>2. \A d \in Caller :
          LimiterOf[d] = LimiterOf[c] /\ monitor[d] # "none" => d = c
    BY <2>1 DEF MonitorsInv, MonitorInv
  <2>3. LockInv'
    BY <2>1 DEF MonitorsInv, LockInv
  <2>4. SpawnInv'
    BY <2>1, LimiterAssumption DEF MonitorsInv, SpawnInv, TypeOK
  <2>5. MonitorInv' /\ AliveInv'
    BY <2>1, <2>2, LimiterAssumption
       DEF MonitorsInv, MonitorInv, AliveInv, TypeOK
  <2>. QED BY <2>3, <2>4, <2>5 DEF MonitorsInv
<1>7. CASE Tick \/ RedisDown \/ RedisBack
  BY <1>7, MonitorsUntouched DEF Tick, RedisDown, RedisBack
<1>. QED
  BY <1>1, <1>2, <1>3, <1>4, <1>5, <1>6, <1>7 DEF Next, Call, Monitor

-----------------------------------------------------------------------------
(* The bucket.                                                             *)

LEMMA InitBucket == Init => BucketInv(Burst)
BY LimiterAssumption DEF Init, NoKeys, BucketInv, Paid

\* The arithmetic of one script at time t, over the old and the new values of
\* the keys: case by case, what the bucket is filled with has been paid for by
\* time t.
LEMMA FilledIsPaidFor ==
  ASSUME NEW base \in Int, TypeOK, BucketInv(base), ~ScriptFails, NEW present \in BOOLEAN,
         KeysPresent(present), NEW t \in 0 .. MaxClock, t <= clock
  PROVE  consumed + Filled(present, t)
           <= Paid(base, t) + Rate * Rewind(present, t)
<1>. DEFINE paid == base + Burst * wipes
            debt == Rate * rewound
<1>1. /\ clock \in Nat /\ consumed \in Nat /\ rewound \in Nat /\ wipes \in Nat
      /\ bucket.tokens \in 0 .. Burst /\ bucket.ts \in Nat
      /\ bucket.expiry \in Nat /\ t \in Nat /\ Burst \in Nat /\ Rate \in Nat
      /\ bucket.present \in BOOLEAN
  BY LimiterAssumption DEF TypeOK
<1>2. paid \in Int /\ debt \in Int
  BY <1>1
<1>3. \A x \in Int : Paid(base, x) = paid + Rate * x + debt /\ Rate * x \in Int
  BY <1>1, <1>2 DEF Paid
<1>. HIDE DEF paid, debt
<1>4. CASE present
  <2>. DEFINE e == Elapsed(bucket.ts, t)
              r == Rewind(present, t)
  <2>1. /\ Filled(present, t) <= bucket.tokens + Rate * e
        /\ Filled(present, t) \in Nat
    <3>1. Filled(present, t) \in 0 .. Burst
      BY FilledRange
    <3>2. present =>
            Filled(present, t) <= bucket.tokens + Rate * Elapsed(bucket.ts, t)
      BY FilledRange
    <3>3. Filled(present, t) <= bucket.tokens + Rate * Elapsed(bucket.ts, t)
      BY <1>4, <3>2, Zenon
    <3>4. Filled(present, t) \in Nat
      BY <1>1, <3>1
    <3>. QED BY <3>3, <3>4
  <2>2. e - r = t - bucket.ts /\ e \in Int /\ r \in Int
    <3>1. r = Elapsed(t, bucket.ts)
      BY <1>4 DEF Rewind
    <3>2. CASE t > bucket.ts
      BY <1>1, <3>1, <3>2 DEF Elapsed
    <3>3. CASE ~(t > bucket.ts)
      BY <1>1, <3>1, <3>3 DEF Elapsed
    <3>. QED BY <3>2, <3>3
  <2>. HIDE DEF e, r
  <2>3. Rate * e - Rate * r = Rate * t - Rate * bucket.ts
    <3>1. Rate * (e - r) = Rate * e - Rate * r
      BY <2>2, RateDistributes
    <3>2. Rate * (t - bucket.ts) = Rate * t - Rate * bucket.ts
      BY <1>1, RateDistributes
    <3>. QED BY <2>2, <3>1, <3>2
  <2>4. Rate * e \in Int /\ Rate * r \in Int
    BY <2>2, RateDistributes
  <2>5. consumed + bucket.tokens <= paid + Rate * bucket.ts + debt
    <3>1. bucket.present
      BY <1>4 DEF KeysPresent
    <3>. QED BY <1>1, <1>3, <3>1 DEF BucketInv
  <2>6. consumed + Filled(present, t) <= Paid(base, t) + Rate * r
    BY <1>1, <1>2, <1>3, <2>1, <2>3, <2>4, <2>5
  <2>. QED BY <2>6 DEF r
<1>5. CASE ~present
  <2>1. Filled(present, t) = Burst /\ Rewind(present, t) = clock - t
    BY <1>5 DEF Filled, Rewind
  <2>2. Rate * (clock - t) = Rate * clock - Rate * t
    BY <1>1
  <2>3. consumed + Burst <= paid + Rate * clock + debt
    <3>1. CASE ~bucket.present
      BY <1>1, <1>3, <3>1 DEF BucketInv
    <3>2. CASE bucket.present
      <4>1. /\ consumed + bucket.tokens <= paid + Rate * bucket.ts + debt
            /\ bucket.ts + Ttl <= clock
        BY <1>1, <1>3, <1>5, <3>2, TtlFillsBucket DEF BucketInv, KeysPresent
      <4>2. Rate * (bucket.ts + Ttl) <= Rate * clock
        BY <1>1, <4>1, TtlFillsBucket, RateMonotonic
      <4>3. Rate * (bucket.ts + Ttl) = Rate * bucket.ts + Rate * Ttl
        BY <1>1, TtlFillsBucket
      <4>4. Rate * Ttl \in Int /\ Burst <= Rate * Ttl
        BY <1>1, TtlFillsBucket
      <4>. QED BY <1>1, <1>2, <1>3, <4>1, <4>2, <4>3, <4>4
    <3>. QED BY <1>1, <3>1, <3>2
  <2>. QED BY <1>1, <1>2, <1>3, <2>1, <2>2, <2>3
<1>. QED BY <1>4, <1>5

\* A later time pays for more.
LEMMA PaidMonotonic ==
  ASSUME NEW base \in Int, TypeOK, NEW a \in Int, NEW b \in Int, a <= b
  PROVE  Paid(base, a) \in Int /\ Paid(base, b) \in Int /\ Paid(base, a) <= Paid(base, b)
<1>1. wipes \in Nat /\ rewound \in Nat /\ Burst \in Nat /\ Rate \in Nat
  BY LimiterAssumption DEF TypeOK
<1>2. Rate * (a + rewound) <= Rate * (b + rewound)
  BY <1>1, RateMonotonic
<1>. QED BY <1>1, <1>2 DEF Paid

\* Books that are in order cover what was consumed.
LEMMA BooksCover ==
  ASSUME NEW base \in Int, TypeOK, BucketInv(base)
  PROVE  Paid(base, clock) \in Int /\ consumed <= Paid(base, clock)
<1>1. /\ clock \in Nat /\ clock \in Int /\ consumed \in Nat /\ Burst \in Nat
      /\ bucket.tokens \in Nat /\ bucket.ts \in Nat /\ bucket.ts \in Int
  BY LimiterAssumption DEF TypeOK
<1>2. Paid(base, clock) \in Int
  <2>1. clock <= clock
    BY <1>1
  <2>. QED BY <1>1, <2>1, PaidMonotonic, Zenon
<1>3. CASE bucket.present
  <2>1. consumed + bucket.tokens <= Paid(base, bucket.ts) /\ bucket.ts <= clock
    BY <1>3 DEF BucketInv
  <2>2. Paid(base, bucket.ts) \in Int /\ Paid(base, bucket.ts) <= Paid(base, clock)
    BY <1>1, <2>1, PaidMonotonic, Zenon
  <2>. QED BY <1>1, <1>2, <2>1, <2>2
<1>4. CASE ~bucket.present
  <2>1. consumed + Burst <= Paid(base, clock)
    BY <1>4 DEF BucketInv
  <2>. QED BY <1>1, <1>2, <2>1
<1>. QED BY <1>2, <1>3, <1>4

\* The books stay in order, whatever they were opened with.
LEMMA NextBucket ==
  ASSUME NEW base \in Int, TypeOK, NowInv, BucketInv(base), [Next]_vars
  PROVE  BucketInv(base)'
<1>0. /\ clock \in Nat /\ consumed \in Nat /\ rewound \in Nat /\ wipes \in Nat
      /\ Burst \in Nat /\ Rate \in Nat
  BY LimiterAssumption DEF TypeOK
<1>1. ASSUME UNCHANGED <<clock, bucket, consumed, rewound, wipes>>
      PROVE  BucketInv(base)'
  BY <1>1 DEF BucketInv, Paid
<1>2. ASSUME NEW c \in Caller, Eval(c) PROVE BucketInv(base)'
  <2>. DEFINE t == now[c]
  <2>1. PICK present \in BOOLEAN :
          LET taken == Taken(present, t, asked[c])
          IN /\ KeysPresent(present)
             /\ bucket' = [present |-> TRUE,
                           tokens  |-> Filled(present, t) - taken,
                           ts      |-> t,
                           expiry  |-> clock + Ttl]
             /\ consumed' = consumed + taken
             /\ rewound' = rewound + Rewind(present, t)
    BY <1>2 DEF Eval, RunScript
  <2>2. /\ t \in 0 .. MaxClock /\ t \in Nat /\ asked[c] \in Nat /\ t <= clock
        /\ UNCHANGED <<clock, wipes>> /\ ~ScriptFails
    BY <1>2 DEF Eval, NowInv, TypeOK
  <2>. HIDE DEF t
  <2>3. /\ Filled(present, t) \in Nat
        /\ Taken(present, t, asked[c]) \in Nat
        /\ Rewind(present, t) \in Nat
    BY <2>2, FilledRange, TakenRange
  <2>4. base + Burst * wipes + Rate * (t + rewound')
          = Paid(base, t) + Rate * Rewind(present, t)
    <3>. DEFINE r == Rewind(present, t)
    <3>1. t + rewound \in Int /\ r \in Int /\ base + Burst * wipes \in Int
      BY <1>0, <2>2, <2>3
    <3>2. t + rewound' = (t + rewound) + r
      BY <1>0, <2>1, <2>2, <2>3
    <3>. HIDE DEF r
    <3>3. Rate * (t + rewound') = Rate * (t + rewound) + Rate * r
      BY <3>1, <3>2, RateDistributes
    <3>4. Rate * (t + rewound) \in Int /\ Rate * r \in Int
      BY <3>1, RateDistributes
    <3>. QED BY <3>1, <3>3, <3>4 DEF Paid, r
  <2>5. consumed + Filled(present, t) <= Paid(base, t) + Rate * Rewind(present, t)
    BY <2>1, <2>2, FilledIsPaidFor
  <2>6. consumed' + bucket'.tokens = consumed + Filled(present, t)
    BY <1>0, <2>1, <2>3
  <2>7. /\ bucket'.present /\ bucket'.ts = t /\ bucket'.expiry = clock + Ttl
        /\ t + Ttl <= clock + Ttl
    BY <1>0, <2>1, <2>2, TtlFillsBucket
  <2>8. base + Burst * wipes' + Rate * (bucket'.ts + rewound')
          = Paid(base, t) + Rate * Rewind(present, t)
    BY <2>2, <2>4, <2>7
  <2>. QED BY <2>2, <2>5, <2>6, <2>7, <2>8 DEF BucketInv, Paid
<1>3. CASE Tick
  <2>1. clock' = clock + 1 /\ UNCHANGED <<bucket, consumed, rewound, wipes>>
    BY <1>3 DEF Tick, redisVars
  <2>2. Paid(base, clock) \in Int /\ Paid(base, clock + 1) \in Int
        /\ Paid(base, clock) <= Paid(base, clock + 1)
    <3>1. clock \in Int /\ clock + 1 \in Int /\ clock <= clock + 1
      BY <1>0
    <3>. QED BY <3>1, PaidMonotonic, Zenon
  <2>3. CASE bucket.present
    BY <1>0, <2>1, <2>3 DEF BucketInv, Paid, TypeOK
  <2>4. CASE ~bucket.present
    <3>1. Paid(base, clock)' = Paid(base, clock + 1)
      BY <2>1 DEF Paid
    <3>. QED BY <1>0, <2>1, <2>2, <2>4, <3>1 DEF BucketInv
  <2>. QED BY <2>3, <2>4
<1>4. CASE RedisBack
  <2>1. CASE UNCHANGED <<bucket, wipes>>
    BY <1>1, <1>4, <2>1 DEF RedisBack
  <2>2. CASE bucket' = NoKeys /\ wipes' = wipes + 1
    <3>1. UNCHANGED <<clock, consumed, rewound>>
      BY <1>4 DEF RedisBack
    <3>2. consumed <= Paid(base, clock)
      BY BooksCover
    <3>3. Paid(base, clock)' = Paid(base, clock) + Burst
      BY <1>0, <2>2, <3>1 DEF Paid
    <3>4. Paid(base, clock) \in Int
      BY <1>0, PaidMonotonic
    <3>. QED BY <1>0, <2>2, <3>1, <3>2, <3>3, <3>4 DEF BucketInv, NoKeys
  <2>. QED BY <1>4, <2>1, <2>2 DEF RedisBack
<1>5. CASE RedisDown
  BY <1>1, <1>5 DEF RedisDown
<1>6. ASSUME NEW c \in Caller,
             \/ Allow(c) \/ LoadRedisAlive(c) \/ EvalError(c)
             \/ EvalReply(c) \/ EvalReplyLost(c) \/ Rescue(c)
             \/ StartMonitorCheck(c) \/ StartMonitorSpawn(c)
             \/ MonitorPing(c) \/ MonitorExit(c)
      PROVE  BucketInv(base)'
  <2>1. UNCHANGED <<clock, redisVars>>
    BY <1>6 DEF Allow, LoadRedisAlive, EvalError, EvalReply, EvalReplyLost,
                Rescue, StartMonitorCheck, StartMonitorSpawn, MonitorPing,
                MonitorExit
  <2>. QED BY <1>1, <2>1 DEF redisVars
<1>7. CASE UNCHANGED vars
  BY <1>1, <1>7 DEF vars, redisVars
<1>. QED
  BY <1>2, <1>3, <1>4, <1>5, <1>6, <1>7 DEF Next, Call, Monitor

-----------------------------------------------------------------------------
(* The theorems.                                                           *)

LEMMA Invariance == Spec => []IInv
<1>1. Init => IInv
  BY InitTypeOK, InitMonitors, InitBucket DEF IInv
<1>2. IInv /\ [Next]_vars => IInv'
  BY NextTypeOK, NextMonitors, NextBucket, LimiterAssumption DEF IInv
<1>. QED BY <1>1, <1>2, PTL DEF Spec

\* Every reachable state has its type, for all values of the constants.
THEOREM TypeCorrect == Spec => []TypeOK
<1>1. IInv => TypeOK
  BY DEF IInv
<1>. QED BY <1>1, Invariance, PTL

\* A limiter is in its rescue mode exactly as long as one goroutine pings Redis
\* for it, and it never has two (startMonitor and waitForRedis).
THEOREM RescueMonitored == Spec => []RescueIsMonitored
<1>1. IInv => RescueIsMonitored
  BY DEF IInv, MonitorsInv, MonitorInv, AliveInv, RescueIsMonitored
<1>. QED BY <1>1, Invariance, PTL

\* The script hands out no more than burst and rate pay for, beyond what calls
\* with older timestamps make it refill twice.
THEOREM ConsumedPaidFor == Spec => []ConsumedIsPaidFor
<1>1. IInv => ConsumedIsPaidFor
  <2>. SUFFICES ASSUME IInv PROVE ConsumedIsPaidFor
    OBVIOUS
  <2>1. /\ Burst \in Int /\ Burst \in Nat /\ wipes \in Nat
        /\ rewound \in Nat /\ clock \in Nat /\ Rate \in Nat
    BY LimiterAssumption DEF IInv, TypeOK
  <2>2. consumed <= Paid(Burst, clock)
    BY <2>1, BooksCover DEF IInv
  <2>3. Burst + Burst * wipes = Burst * (1 + wipes)
    BY <2>1
  <2>. QED BY <2>2, <2>3 DEF ConsumedIsPaidFor, Paid
<1>. QED BY <1>1, Invariance, PTL

\* The comment on NewTokenLimiter (tokenlimit.go:121) is right but for reordered
\* timestamps: as long as no script puts last_refreshed back, events come up to
\* rate with bursts of at most burst.
THEOREM RateAndBurstByRewind == Spec => [](rewound = 0 => RateAndBurst)
<1>1. ConsumedIsPaidFor /\ TypeOK => (rewound = 0 => RateAndBurst)
  <2>. SUFFICES ASSUME ConsumedIsPaidFor, TypeOK, rewound = 0, wipes = 0
                PROVE  consumed <= Burst + Rate * clock
    BY DEF RateAndBurst
  <2>1. /\ Burst * (1 + wipes) = Burst /\ clock + rewound = clock
        /\ Rate * clock \in Int
    BY LimiterAssumption DEF TypeOK
  <2>. QED BY <2>1 DEF ConsumedIsPaidFor
<1>. QED BY <1>1, ConsumedPaidFor, TypeCorrect, PTL

\* Calls whose script may still run, with the time each captured.
InFlight == {c \in Caller : pc[c] \in {"load", "eval"}}

NotBefore(m) == m <= clock /\ \A c \in InFlight : m <= now[c]

LEMMA NotBeforeStep ==
  ASSUME NEW m \in Nat, TypeOK, NotBefore(m), [Next]_vars
  PROVE  NotBefore(m)'
<1>0. clock \in Nat /\ m \in Int
  BY DEF TypeOK
<1>1. ASSUME NEW c \in Caller, Allow(c) PROVE NotBefore(m)'
  <2>1. /\ clock' = clock
        /\ \A d \in Caller : now'[d] = IF d = c THEN clock ELSE now[d]
        /\ \A d \in Caller : d # c => pc'[d] = pc[d]
    BY <1>1 DEF Allow, Goto, TypeOK
  <2>. QED BY <2>1 DEF NotBefore, InFlight
<1>2. ASSUME NEW c \in Caller, LoadRedisAlive(c) PROVE NotBefore(m)'
  <2>1. clock' = clock /\ now' = now /\ pc[c] = "load"
        /\ \A d \in Caller : d # c => pc'[d] = pc[d]
    BY <1>2 DEF LoadRedisAlive, Goto, TypeOK
  <2>. QED BY <2>1 DEF NotBefore, InFlight
<1>3. ASSUME NEW c \in Caller,
             \/ Eval(c) \/ EvalError(c) \/ EvalReply(c) \/ EvalReplyLost(c)
             \/ Rescue(c) \/ StartMonitorCheck(c) \/ StartMonitorSpawn(c)
      PROVE  NotBefore(m)'
  <2>1. /\ clock' = clock /\ pc'[c] \notin {"load", "eval"}
        /\ \A d \in Caller : d # c => pc'[d] = pc[d] /\ now'[d] = now[d]
    BY <1>3 DEF Eval, EvalError, EvalReply, EvalReplyLost, Rescue,
                StartMonitorCheck, StartMonitorSpawn, Goto, Leave, TypeOK
  <2>. QED BY <2>1 DEF NotBefore, InFlight
<1>4. ASSUME NEW c \in Caller, Monitor(c) PROVE NotBefore(m)'
  BY <1>4 DEF Monitor, MonitorPing, MonitorExit, NotBefore, InFlight
<1>5. CASE Tick \/ RedisDown \/ RedisBack \/ UNCHANGED vars
  <2>1. clock' \in {clock, clock + 1} /\ pc' = pc /\ now' = now
    BY <1>5 DEF Tick, RedisDown, RedisBack, vars
  <2>. QED BY <1>0, <2>1 DEF NotBefore, InFlight
<1>. QED BY <1>1, <1>2, <1>3, <1>4, <1>5 DEF Next, Call

\* The books opened at a moment with c tokens handed out, r seconds rewound and
\* w losses of the keys: a full bucket and the rate for the seconds after m.
BaseAt(c, r, w, m) == c + Burst - Burst * w - Rate * (m + r)

\* Until a script has run or the keys are lost there is nothing to account for.
\* The first of them leaves a bucket that is at most full, filled up to m or later.
NothingYet(c, r, w) == consumed = c /\ rewound = r /\ wipes = w

LEMMA BooksOpen ==
  ASSUME NEW c0 \in Nat, NEW r0 \in Nat, NEW w0 \in Nat, NEW m \in Nat,
         TypeOK, NowInv, NotBefore(m), NothingYet(c0, r0, w0), [Next]_vars
  PROVE  NothingYet(c0, r0, w0)' \/ BucketInv(BaseAt(c0, r0, w0, m))'
<1>. DEFINE base == BaseAt(c0, r0, w0, m)
<1>0. /\ clock \in Nat /\ Burst \in Nat /\ Rate \in Nat /\ m + r0 \in Int
      /\ Burst * w0 \in Int /\ Rate * (m + r0) \in Int /\ m <= clock
  BY LimiterAssumption DEF TypeOK, NotBefore
\* At any time from m on the books cover a full bucket.
<1>1. ASSUME NEW x \in Nat, m + r0 <= x
      PROVE  c0 + Burst <= base + Burst * w0 + Rate * x /\ Rate * x \in Int
  <2>1. Rate * (m + r0) <= Rate * x /\ Rate * x \in Int
    BY <1>0, <1>1, RateMonotonic
  <2>. QED BY <1>0, <2>1 DEF BaseAt
<1>2. ASSUME NEW c \in Caller, Eval(c) PROVE BucketInv(base)'
  <2>. DEFINE t == now[c]
  <2>1. PICK present \in BOOLEAN :
          LET taken == Taken(present, t, asked[c])
          IN /\ KeysPresent(present)
             /\ bucket' = [present |-> TRUE,
                           tokens  |-> Filled(present, t) - taken,
                           ts      |-> t,
                           expiry  |-> clock + Ttl]
             /\ consumed' = consumed + taken
             /\ rewound' = rewound + Rewind(present, t)
    BY <1>2 DEF Eval, RunScript
  <2>2. /\ t \in 0 .. MaxClock /\ t \in Nat /\ asked[c] \in Nat /\ t <= clock
        /\ UNCHANGED <<clock, wipes>> /\ ~ScriptFails /\ m <= t
    BY <1>2 DEF Eval, Goto, NowInv, TypeOK, NotBefore, InFlight
  <2>. HIDE DEF t
  <2>3. /\ Filled(present, t) \in 0 .. Burst
        /\ Taken(present, t, asked[c]) \in Nat
        /\ Rewind(present, t) \in Nat
    BY <2>2, FilledRange, TakenRange
  <2>4. consumed' + bucket'.tokens <= c0 + Burst
    BY <1>0, <2>1, <2>3 DEF NothingYet
  <2>5. t + rewound' \in Nat /\ m + r0 <= t + rewound'
    BY <1>0, <2>1, <2>2, <2>3 DEF NothingYet
  <2>6. /\ c0 + Burst <= base + Burst * w0 + Rate * (t + rewound')
        /\ Rate * (t + rewound') \in Int
    BY <1>1, <2>5
  <2>7. /\ bucket'.present /\ bucket'.ts = t /\ bucket'.expiry = clock + Ttl
        /\ t + Ttl <= clock + Ttl /\ wipes' = w0
    BY <1>0, <2>1, <2>2, TtlFillsBucket DEF NothingYet
  <2>8. base \in Int /\ consumed' + bucket'.tokens \in Int
    BY <1>0, <2>1, <2>3 DEF BaseAt, NothingYet
  <2>9. consumed' + bucket'.tokens <= base + Burst * wipes' + Rate * (bucket'.ts + rewound')
    <3>. HIDE DEF base
    <3>. QED BY <1>0, <2>4, <2>6, <2>7, <2>8
  <2>. HIDE DEF base
  <2>. QED BY <2>2, <2>7, <2>9 DEF BucketInv, Paid
<1>3. ASSUME RedisBack PROVE NothingYet(c0, r0, w0)' \/ BucketInv(base)'
  <2>1. CASE UNCHANGED <<bucket, wipes>>
    BY <1>3, <2>1 DEF RedisBack, NothingYet
  <2>2. CASE bucket' = NoKeys /\ wipes' = wipes + 1
    <3>1. /\ clock' = clock /\ consumed' = c0 /\ rewound' = r0 /\ wipes' = w0 + 1
      BY <1>3, <2>2 DEF RedisBack, NothingYet
    <3>2. c0 + Burst <= base + Burst * w0 + Rate * (clock + r0)
          /\ Rate * (clock + r0) \in Int
      <4>1. clock + r0 \in Nat /\ m + r0 <= clock + r0
        BY <1>0
      <4>. HIDE DEF base
      <4>. QED BY <1>1, <4>1
    <3>3. Burst * (w0 + 1) = Burst * w0 + Burst /\ base \in Int
      BY <1>0 DEF BaseAt
    <3>. HIDE DEF base
    <3>4. consumed' + Burst <= base + Burst * wipes' + Rate * (clock' + rewound')
      BY <1>0, <3>1, <3>2, <3>3
    <3>. QED BY <2>2, <3>4 DEF BucketInv, Paid, NoKeys
  <2>. QED BY <1>3, <2>1, <2>2 DEF RedisBack
<1>4. ASSUME NEW c \in Caller,
             \/ Allow(c) \/ LoadRedisAlive(c) \/ EvalError(c)
             \/ EvalReply(c) \/ EvalReplyLost(c) \/ Rescue(c)
             \/ StartMonitorCheck(c) \/ StartMonitorSpawn(c)
             \/ MonitorPing(c) \/ MonitorExit(c)
      PROVE  NothingYet(c0, r0, w0)'
  BY <1>4 DEF Allow, LoadRedisAlive, EvalError, EvalReply, EvalReplyLost,
              Rescue, StartMonitorCheck, StartMonitorSpawn, MonitorPing,
              MonitorExit, redisVars, NothingYet
<1>5. CASE Tick \/ RedisDown \/ UNCHANGED vars
  BY <1>5 DEF Tick, RedisDown, vars, redisVars, NothingYet
<1>. QED
  BY <1>2, <1>3, <1>4, <1>5 DEF Next, Call, Monitor

\* The same from any moment on, not only from the start of the service: what is
\* handed out after it is at most one full bucket, one more for each loss of the
\* keys since, and the rate for the seconds that have passed, or were refilled
\* twice, since. The seconds count from m0: the moment itself when no call is
\* under way to the script, else the oldest time such a call has captured. A
\* bucket that was idle for long saves up for no larger burst.
THEOREM PaidFromAnyMomentOn ==
  ASSUME NEW c0 \in Nat, NEW r0 \in Nat, NEW w0 \in Nat, NEW m0 \in Nat
  PROVE  Spec =>
           [](/\ consumed = c0 /\ rewound = r0 /\ wipes = w0
              /\ m0 <= clock /\ \A c \in InFlight : m0 <= now[c]
              => [](consumed - c0 <= Burst * (1 + (wipes - w0))
                                       + Rate * (clock - m0 + (rewound - r0))))
<1>. DEFINE base == BaseAt(c0, r0, w0, m0)
            Moment == /\ consumed = c0 /\ rewound = r0 /\ wipes = w0
                      /\ m0 <= clock /\ \A c \in InFlight : m0 <= now[c]
            Since == /\ NotBefore(m0)
                     /\ NothingYet(c0, r0, w0) \/ BucketInv(base)
            Bound == consumed - c0 <= Burst * (1 + (wipes - w0))
                                        + Rate * (clock - m0 + (rewound - r0))
<1>0. /\ Burst \in Nat /\ Rate \in Nat /\ base \in Int
      /\ Burst * w0 \in Int /\ Rate * (m0 + r0) \in Int
  BY LimiterAssumption DEF BaseAt
<1>1. Moment => Since
  BY DEF NotBefore, NothingYet
<1>2. IInv /\ Since /\ [Next]_vars => Since'
  <2>. SUFFICES ASSUME IInv, Since, [Next]_vars PROVE Since'
    OBVIOUS
  <2>1. NotBefore(m0)'
    BY NotBeforeStep DEF IInv
  <2>2. CASE NothingYet(c0, r0, w0)
    BY <2>1, <2>2, BooksOpen DEF IInv
  <2>3. CASE BucketInv(base)
    <3>. HIDE DEF base
    <3>1. BucketInv(base)'
      BY <1>0, <2>3, NextBucket DEF IInv
    <3>. QED BY <2>1, <3>1
  <2>. QED BY <2>2, <2>3
<1>3. IInv /\ Since => Bound
  <2>. SUFFICES ASSUME IInv, Since PROVE Bound
    OBVIOUS
  <2>1. TypeOK /\ clock \in Nat /\ rewound \in Nat /\ wipes \in Nat /\ consumed \in Nat
    BY LimiterAssumption DEF IInv, TypeOK
  <2>2. CASE NothingYet(c0, r0, w0)
    <3>1. clock - m0 \in Nat
      BY <2>1 DEF NotBefore
    <3>2. Rate * (clock - m0) \in Nat
      BY <1>0, <3>1
    <3>3. /\ consumed - c0 = 0 /\ Burst * (1 + (wipes - w0)) = Burst
          /\ clock - m0 + (rewound - r0) = clock - m0
      BY <1>0, <2>1, <2>2, <3>1 DEF NothingYet
    <3>. QED BY <1>0, <3>2, <3>3
  <2>3. CASE BucketInv(base)
    <3>1. consumed <= base + Burst * wipes + Rate * (clock + rewound)
      <4>. HIDE DEF base
      <4>. QED BY <1>0, <2>1, <2>3, BooksCover DEF Paid
    <3>2. Burst * (1 + (wipes - w0)) = Burst + Burst * wipes - Burst * w0
      BY <1>0, <2>1
    <3>3. Rate * (clock - m0 + (rewound - r0))
            = Rate * (clock + rewound) - Rate * (m0 + r0)
      <4>1. clock - m0 + (rewound - r0) = (clock + rewound) - (m0 + r0)
        BY <2>1
      <4>2. clock + rewound \in Int /\ m0 + r0 \in Int
        BY <2>1
      <4>. QED BY <4>1, <4>2, RateDistributes
    <3>4. Burst * wipes \in Int /\ Rate * (clock + rewound) \in Int
      BY <1>0, <2>1
    <3>. QED BY <1>0, <2>1, <3>1, <3>2, <3>3, <3>4 DEF BaseAt
  <2>. QED BY <2>2, <2>3
<1>. HIDE DEF Moment, Since, Bound
<1>4. Spec => [](Moment => []Bound)
  BY <1>1, <1>2, <1>3, Invariance, PTL DEF Spec
<1>. QED BY <1>4, PTL DEF Moment, Bound
=============================================================================
