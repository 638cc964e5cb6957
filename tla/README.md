# TLA+ models of go-zero-source

`src/` walks through the parts of go-zero that keep a service alive: limits,
circuit breaker, load shedding, the middleware chain of the REST server, and
its rpc library with resolvers, balancer and interceptors. This directory holds
TLA+ models of those parts, TLC configurations for small instances, and TLAPS
proofs for instances of any size. Paths below are relative to `src/code/`.

Contents: [inventory](#1-inventory), [plan](#2-plan),
[modules and code](#3-modules-and-code), [runs and bounds](#4-runs-and-bounds),
[fairness](#5-fairness), [proofs](#6-proofs), [findings](#7-findings),
[abstractions and what is not modelled](#8-abstractions-and-what-is-not-modelled).

## 1. Inventory

A request to a REST service passes the router and then what
`rest/rest/engine.go:bindRoute` has put together: tracing, log, `MaxConns`,
`Breaker`, `Shedding`, `Timeout`, `Recover`, metrics, `MaxBytes`, `Gunzip`,
authorization, signature and encryption, then the handler. From `Timeout` on it
runs on a goroutine of its own. The breaker handler uses `core/breaker`, the
shedding handler `core/load`; both keep their statistics in a `core/collection`
rolling window. The handler may consult a limiter of `core/limit`, which shares
its counters with other processes through Redis, and call other services
through `balancer/zrpc`: a resolver (direct, etcd, Kubernetes) tells gRPC the
addresses, gRPC builds a picker for the ready ones, the picker chooses a
connection per call, and interceptors at both ends bring breaker, shedder,
timeout, tracing and authentication to it.

| component | state | operations | hard behaviour | correct if |
|---|---|---|---|---|
| token limiter `core/limit/tokenlimit.go` | two Redis keys; per process `redisAlive`, `monitorStarted`, `rescueLock` | `AllowN`, the Lua script, `startMonitor`, `waitForRedis` | many processes on one bucket, scripts reordered, replies lost, key expiry, Redis outages, a flag stored with and without the lock | tokens are paid for; rescue mode always has one monitor and ends; calls return |
| period limiter `core/limit/periodlimit.go` | one Redis counter with an expiry | `Take` | the window is computed before the script runs; expiry, loss of the key, quota 0 and 1 | quota per key; a bound per period; a key expires |
| rolling window `core/collection/rollingwindow.go` | ring of buckets, `offset`, `lastTime` | `Add`, `Reduce` | clock moves inside `Add`; index arithmetic; long pauses | `Reduce` sees the samples of the last `size` intervals |
| breaker `core/breaker/googlebreaker.go` | a rolling window | `Allow`, `DoReq`, promise | history read before the draw, panics, healing backend | one sample per admitted call; opens only on failures; never shut for ever |
| shedder `core/load/adaptiveshedder.go` | `flying`, `avgFlying`, `dropTime`, `droppedRecently`, two windows | `Allow`, `Pass`, `Fail` | every field is an atomic of its own; the cool-off renews itself | drops only after overload; never refuses everybody for ever; a cool-off is kept |
| REST chain `rest/rest/engine.go`, `rest/rest/handler` | latch per route, promises, timeoutWriter | the handlers of `bindRoute` | two goroutines per request, deadline against answer, panics, late writes, hanging handlers | nothing leaks; breaker and shedder are told what the client was told; every request is answered |
| REST gates: router, body limits, tokens, signatures, encryption | secret counters of `TokenParser`, per route | `ServeHTTP`, `Authorize`, `ContentSecurityHandler`, `CryptionHandler` | they run on the handler's goroutine, also after the timeout; shared counters read and written without a lock | no handler runs for a request a gate should have stopped; a refusal stays one; the counters follow the uses |
| balancer `balancer/zrpc/p2c` | per connection `inflight`, `pick`, `lag`, `success` | `Build`, `Pick`, done function | pickers replaced under calls in flight; forced picks | counts stay exact; a due connection is not passed over for a fresh one |
| resolvers `balancer/zrpc/resolver/internal` | endpoints of the `EventHandler`, values of the subscriber | `Build`, `OnAdd`, `OnUpdate`, `OnDelete`, `Update`, listener | `Build` against informer or subscriber; deletions seen late | the connection ends up with the current addresses, and never gets back a replaced one |
| rpc interceptors `balancer/zrpc/internal/*interceptors` | panic channel, channels of a stream | crash, stat, shedding, breaker, timeout, tracing | which of them sees which error; two goroutines per call; unbuffered channels | both ends judge a call alike; calls return; nothing waits for a reader that is gone |
| rpc auth `balancer/zrpc/internal/auth` | cache in front of a Redis hash | `Authenticate`, `validate` | stale cache entries, shared and slow fetches, Redis down | a withdrawn token is good for one cache life at most |
| rpc set-up `balancer/zrpc/*.go` | connection, server | publish, listen, serve, graceful stop, dial | published before it listens | part of the calls above |
| CPU usage `core/stat` | a moving average | sampling goroutine, `CpuUsage` | | arithmetic on files of the operating system, not modelled |
| REST set-up, parsing, answers, observers, atomics | none, or written before the start only | | | functions or I/O |

`PROJECT.json` lists every source file under a component, and under `hazards`
each place in the code that is hard to test, with its line and the property
that watches it.

## 2. Plan

Done, in this order:

1. `TokenLimiter` - the only distributed algorithm with crash and retry;
2. `SampleWindow` and `CountWindow` (abstract) and `RollingWindow` (the ring),
   with refinement;
3. `RestChain` - where limits, breaker and shedder meet;
4. `AdaptiveShedder`, `GoogleBreaker` - the two deciders of that chain, the
   breaker on a `CountWindow`;
5. `P2CPicker` - the balancer;
6. `PeriodLimit` - the counter with expiry;
7. `AddressFeed` (abstract) and `Resolver` (the three schemes), with refinement;
8. `RpcAuth`, `RpcStream` and their composition with client and server,
   `RpcCall`;
9. `RestGate` - router and gates, composed with `RestChain`, which it implements.

There are proofs about each of them; `WindowProofs` has those about the windows
and the breaker.

Left:

- `Resolver` in place of `P2CPicker`'s arbitrary `Build`. What is proved of the
  picker holds for any sequence of sets, so the composition would say something
  new only of which connections an old picker still uses;
- the moving averages of `P2CPicker`, whose read-modify-write without a lock
  loses updates. They only weigh a random choice of pairs and order two loads,
  both of which are open in the model;
- the CPU sampler's averages and counters.

## 3. Modules and code

`PROJECT.json`'s `map` gives the lines for each definition. In short:

**`TokenLimiter`** (`core/limit/tokenlimit.go`). A goroutine inside `reserveN`
has a program counter: `LoadRedisAlive` is the atomic load at the top, `Eval`
the script (atomic in Redis), `EvalReply`/`EvalReplyLost`/`EvalError` the three
ways it ends, `StartMonitorCheck` and `StartMonitorSpawn` the critical section
of `startMonitor`, `Rescue` the in-process limiter. `MonitorPing` is the ticker
loop with its store of `redisAlive` *outside* the lock; `MonitorExit` the
deferred function. `bucket` is the two keys with their common expiry,
`KeysPresent` allows either outcome within the second of expiry. Three history
variables (`consumed`, `rewound`, `wipes`) keep the books. `MCTokenLimiter`
gives `LimiterOf` the two extremes: all goroutines in one process, or one
process each.

**`PeriodLimit`** (`core/limit/periodlimit.go`). `Take` computes the window in
whole seconds, and the script runs at some later tick, or never: `Eval` is
increment and `EXPIRE` together, with an answer that arrives or is lost,
`EvalError` a call that does not reach Redis. `Code` is what the script answers
and `Take` returns. Time is the position in the aligned period and what the key
has left to live, so the clock is unbounded. `late` counts the keys made with a
window of another second, and those made because Redis had lost one.

**`RollingWindow`**, **`SampleWindow`** and **`CountWindow`**
(`core/collection/rollingwindow.go`). `SampleWindow` says what the users of the
window rely on: `Reduce` sees the samples of the last `Size` intervals.
`CountWindow` is the same seen through `Sum` and `Count` of the buckets, as two
functions from age to numbers that `Slide` shifts. `RollingWindow` is the ring,
which implements both. An `Add` that does
not change bucket is `AddInPlace`; one that does is split at its second clock
read into `AddMoveOffset` and `AddSetLastTime`, and `Tick` may come between
them. `delay` records how much younger earlier samples look after that, which
makes the promise precise instead of false.

**`RestChain`** (`rest/rest/handler`). One action per handler on the way in
(`Borrow`, `BreakerAllows`, `ShedderAllows` and their refusals), the user's
goroutine (`HandlerWrites`, `HandlerReturns`, `HandlerPanics`, each through the
timeoutWriter), the two cases of the `select`, and one action per deferred
function on the way out (`ShedderReport`, `BreakerReport`, `Return`). Each
request is for some route, chosen initially; the latch is per route because
`bindRoute` builds the chain per route. Breaker and shedder say yes or no
freely here.

**`RestGate`** extends `RestChain`: `RouterRefuses` and `RouterServes` are the
router in front of it, and its one arbitrary handler becomes the goroutine that
goes through `MaxBytes`, `Gunzip`, `LoadCounts` and `Authorize`, `CountLoads`
and `CountStores`, `ContentSecurity`, `Decrypt` and the user's handler. `gate`
is that goroutine's place. It goes on after the chain has answered for it, next
to later requests of the route, with which it shares `history`, the counters of
`TokenParser`; `incrementCount` is cut between its load and its store, and
`found` tells whether the entry it holds is still the one in the map. A
signature is a header with a key, a time and a signature, and `Verdict` what
`ParseContentSecurity` and `VerifySignature` make of it. `setting` holds the
options of each route. A callback of the user may write any code, a body alone
(which is a 200), panic, or do nothing; the one for unsigned requests may also
go on to the handler, with or without having written (`CallbackAnswer`,
`UnauthorizedCodes`, `UnsignedCallback`). `refusal` is what was written for a
request that goes no further.

**`AdaptiveShedder`** (`core/load/adaptiveshedder.go`). `Allow` is cut at every
atomic access. `stillHot` is called twice by a request that is dropped (by
`shouldDrop` and again for its log message), and the second call can reset the
flag too; `asked` tells the calls apart. The clock is read (`ReadClock`) a step
before its time is stored (`SetDropTime`), so a later time may be overwritten
with an earlier one. Times are kept as ages, so the state space is finite
without bounding the clock; `sinceDrop` is the age of the newest time that was
ever stored.

**`GoogleBreaker`** (`core/breaker/googlebreaker.go`). `Accept` reads the
history under the read lock and computes whether the ratio is positive, a step
before the random draw (`CoinAdmits`, `CoinDrops`). `Succeed`, `Fail`, `Panic`
end a call with a sample. The window is that of `CountWindow`, which the module
extends: `MarkSuccess` and `MarkFailure` are its `Mark`, `IntervalPasses` its
`Slide`.

**`P2CPicker`** (`balancer/zrpc/p2c/p2c.go`). `Build` installs a new picker with
fresh records; `Load` is gRPC taking the current picker, `Pick` the picker's
critical section, so a picker may be replaced in between; `Done` decrements the
record the call was picked from. The load comparison is open, so every choice
the averages could make is explored; `Choose` is the forced pick.

**`Resolver`** and **`AddressFeed`** (`balancer/zrpc/resolver/internal`).
`AddressFeed` says what a connection is promised: choices of at most `Limit`
addresses from lists of a certain age on, and that age never falls. `Resolver`
has the three schemes. `log` is the sequence of versions a service goes
through; with `k8s` a version may be `NoObject`. `Build` is cut where other
goroutines can come between: for `discov` at registering the listener, reading
the values and telling the connection; for `k8s` at starting the informer,
`Get` and handing its result to the `EventHandler`. The informer
(`InformerLists`, `InformerAdds`, `InformerUpdates`, `InformerDeletes`) may
follow changes one by one or list anew and pass over some; a deletion found by
a list is `InformerMissesDelete`, since `OnDelete` drops the tombstone. The
subscriber's goroutine applies a change (`WatcherApplies`) and calls the
listener (`WatcherShows`). Both `Build` and the listener shuffle, in place, the
slice that `Values` gives to either; if they do at once, addresses get lost
(`ShareSlice`, `PublishTorn`). The informer's first list may come from a cache
of the cluster that is behind the service. `raced` records that one of the races
of section 7 has happened and was not yet repaired by a further change.

**`RpcCall`** (`balancer/zrpc` and its interceptors) composes a client, a
server, **`RpcAuth`** (the authenticator with its cache and its shared fetch)
and **`RpcStream`** (the tracing of a stream with its loop and channels). The
client's breaker and deadline surround `Invoke` and `Reply`; the answer, the
deadline, a cancellation and a lost connection race for it. In a stream sending
may fail at any time (`StreamCaller`), next to the end that `RecvMsg` meets. At
the server
`Arrive` is crash, stat, breaker and shedding on the way in, `Select` the
`select` of the timeout interceptor, and `Conclude` all of them on the way out,
from the inside out. Auth and handler run on a goroutine of their own if there
is a timeout, and go on when the call has been answered; a panic of theirs goes
through `panicChan`. `Code`, `Acceptable` and `Told` are what becomes of an
error between the two ends. `SetUp` is publishing, listening, the graceful stop
and dialling.

`MCRpcCall` and `MCRestGate` give settings, targets and routes their values.

## 4. Runs and bounds

On two workers `rest_gate` takes under two minutes, the others a minute or less.

| run | configuration | question | answer |
|---|---|---|---|
| `token_monitor` | `MCTokenMonitor` | can a process be left on its in-process limiter with nobody looking for Redis, have two monitors, or block? | no: `RescueIsMonitored`, `BackOnRedis`, `CallsReturn` |
| `token_bucket` | `MCTokenBucket` | what may the bucket hand out in total? | `ConsumedIsPaidFor`: one full bucket per loss of the keys, plus the rate, plus what reordered timestamps refill twice |
| `period_limit` | `MCPeriodLimit` | how many permits per key and per period, and can a key refuse for ever? | `QuotaPerKey`; `TwoQuotasPerPeriod`, one more for each late or lost key; `KeyExpires` |
| `window_ring` | `MCRollingWindow` | does the ring implement the window? | `ImplementsSampleWindow`, `NothingLost` |
| `rest_chain` | `MCRestChain` | leaks, wrong verdicts, unanswered requests? | none: `NothingLeaks`, `JudgedByAnswer`, `Answered` |
| `rest_gate` | `MCRestGate` | can a request get to the handler around a gate, have its refusal turned into something else, and what becomes of the counters of secrets that requests share? | no: `HandlerGuarded`, `RefusalStands`; no use is counted twice and, until the reset, no used secret is without a count: `CountsFollowUses` |
| `shedder` | `MCShedder` | drops without cause, refusal for ever? | neither: `FlagHasTime`, `CalmDropsNothing`, `KeepsServing` |
| `shedder_cooloff` | `MCShedderCoolOff` | is a cool-off kept? | violated: `CoolOffKept` |
| `breaker` | `MCBreaker` | opens only on failure, one sample per call, heals? | yes: `OpenNeedsFailure`, `OneSamplePerCall`, `KeepsAdmitting`, `ClosesAgain` |
| `p2c` | `MCP2C` | are the counts exact, is a due connection passed over for a fresh one? | `InflightExact`, `DueIsChosen` |
| `resolver` | `MCResolver` | does the connection follow the service, and does a replaced address come back? | it follows but for the races of section 7: `MirrorsInformer`, `PublishedFollows`, `LatestUnlessOvertaken`, `EventuallyCurrent`; none comes back: `ImplementsFeed` |
| `rpc_call` | `MCRpcCall` | do both ends judge a call alike, how long is a withdrawn token good, do calls return, does a panic or an operation of a stream wait for a reader that is gone? | `JudgedAlike`; one life of the cache's entry: `TokenEnforced`; with a deadline always, without one once a server with a timeout has met the call: `CallReturns`; no: `NothingStuck` |

Why the bounds are enough:

- *Token monitor*: three goroutines are the fewest with which one runs the
  monitor, one is between the monitor's store and its exit, and one is late with
  a failure. One outage suffices, because calls it has caught may fail at any
  later time, so monitors end and start again. The flags do not depend on the
  clock, which stands still.
- *Token bucket*: `Ttl` is 2 seconds and time runs to 3, so keys expire while
  calls are in flight; two processes with requests of one and two tokens can be
  reordered; one outage loses replies or keys. The processes are symmetric and
  the properties do not name them (the run has no liveness property).
- *Period limit*: two callers, so that one computes its window while the other's
  script makes the key; quotas 0, 1 and 2 are the three cases of the script; three
  seconds of two ticks give windows of one to three seconds that start and end
  within a second; four calls per key pass any quota, one key is lost.
- *Window*: three buckets and time to 7 are more than two turns of the ring, so
  every stale bucket of an earlier turn can come round; four samples can fill
  all three buckets and one twice.
- *REST chain*: with one element per latch, two requests meet both on one route
  (one refused) and on two; the answers 200 and 503 are the two sides of every
  test on codes that a handler can reach, 499, 500 and 503 also come from the
  chain itself.
- *REST gates*: two requests, of which the first may have timed out and run on
  while the second is on its way, on a route with one of three settings that
  between them have every kind of gate and callback, on one that is not checked
  for its method, and for a path or a method there is not. The requests are
  symmetric, the properties name none, and there is no liveness property. The
  chain's own questions are those of `rest_chain`. Callbacks write 409, a body
  (200), nothing, or panic (500). One request at a time is in the handler of a
  route before its timeout, so the two meet in the counters only when the first
  has timed out; the proof is for any number.
- *Shedder*: two goroutines are enough for a race of two stores; a cool-off of
  two ticks has a state inside, one at its end and one after; at most four
  requests with `maxFlight` up to two give loads below and above it.
- *Breaker*: three intervals, `protection` 1 (its real value 5 only moves the
  threshold) and up to three calls in an interval reach positive ratios with
  none, some and many successes in the window.
- *P2C*: three connections give pairs that leave one out; three pickers (one of
  them empty) let a call hold, pick from and end on an old one.
- *Resolver*: a connection that uses one of two addresses has choices to make;
  four versions are enough for an object to be deleted, recreated and changed
  while `Build` holds the first. With a subset of one address a torn shuffle
  shows nothing that a whole one could not show; the proofs are for any size.
- *Rpc call*: a call meets others only in the authenticator's cache and fetch,
  where they are `OtherTakeFetches`, so one call is followed; two tokens and no
  token, one change; four settings with the timeout at either end or both, each
  mode of auth, and a stream.

`CHECK_DEADLOCK` is off for `RestChain` and `RestGate`, where all requests may
have been answered, for `Resolver`, where the service may have gone through its
versions, and for `RpcCall`, where the call may have ended and the server
stopped. Names of the bounds: `MaxClock`, `MaxOutages` (token limiter),
`MaxCount`, `MaxLosses` (period limiter), `MaxClock`, `MaxAdds` (window),
`MaxCapacity`, `MaxFlying` (shedder), `MaxPerInterval` (breaker), `MaxBuilds`
(picker), `MaxVersions` (resolver), `MaxChanges` (auth); each stands in one
guard.

Each property also has a *mutant* in `PROJECT.json`: a plausible bug, kept as a
"Variant for a mutation run" beside the definition it replaces, under which TLC
finds the property violated. Examples: the early return of `startMonitor` that
keeps `rescueLock`; `updateOffset` that forgets to reset a skipped bucket; a
`select` on the request's own context, which has no deadline; a breaker that
counts the calls it drops; a panic channel without room; a size limit that
writes 413 and serves the request all the same.

## 5. Fairness

- `TokenLimiter`: goroutines are scheduled and the ticker goes on firing (weak
  fairness on the steps of a call and on a ping that can succeed); where
  `rescueLock`, a `sync.Mutex`, is taken, strong fairness, since its starvation
  mode hands the lock to a waiter. Nothing is assumed of Redis: `BackOnRedis`
  asks that it stays up as a hypothesis of the property.
- `PeriodLimit`: time passes. Nothing is assumed of the callers or of Redis.
- `RestChain`: the chain's goroutine is scheduled and the timer of
  `context.WithTimeout` fires. The user's handler may hang for ever.
- `AdaptiveShedder`: callers keep coming, goroutines are scheduled, admitted
  requests end. The CPU may be overloaded for ever and the clock may stand still.
- `GoogleBreaker`: callers keep calling, calls end, time passes. *Nothing* is
  assumed of the random numbers: each may go against the caller, so
  `KeepsAdmitting` holds because old failures leave the window and not by luck.
- `Resolver`: `Build` goes on, and informer and subscriber are told in the end of
  what has changed, which is what both libraries are for. When they are told,
  and of how many changes at once, is open.
- `RpcCall`: goroutines are scheduled, timers fire, a server's answer is
  delivered or its connection lost. Nothing is assumed of Redis, of the user's
  handler or of the caller, each of which may hang for ever, nor that a call
  arrives at a server or that gRPC refuses it when there is none: a call without
  a deadline that no server meets may wait for ever.

Safety runs use the specifications without fairness.

## 6. Proofs

Every theorem holds for all values of the constants under the named `ASSUME` of
its module. Those are as weak as the code: `Rate` is positive
(`NewTokenLimiter` divides by it), ring size, `maxConns`, cool-off, window size
and period are positive, the sets of goroutines, requests, connections and
addresses are finite where they are counted, an error of a handler is not one of
the model's own marks. The bounds of section 4 are arbitrary naturals in the proofs.

| module | theorem | statement | inductive invariant |
|---|---|---|---|
| `TokenLimiterProofs` | `TypeCorrect`, `RescueMonitored` | `[]TypeOK`, `[]RescueIsMonitored` | `MonitorsInv`: who holds `rescueLock` is between the stores of `startMonitor`, and then no monitor of that limiter is left; a running monitor means `monitorStarted`. `RescueIsMonitored` alone is not inductive: without `SpawnInv` a second monitor could be spawned from a state that has one |
| | `ConsumedPaidFor` | `[]ConsumedIsPaidFor` | `BucketInv`: what was consumed *plus* the tokens left is paid for up to `last_refreshed`, and the keys outlive the time that fills the bucket (`TtlFillsBucket`, by division). Nonlinear arithmetic is isolated in `RateMonotonic` and `RateDistributes` |
| | `RateAndBurstByRewind` | `[](rewound = 0 => RateAndBurst)` | the same |
| | `PaidFromAnyMomentOn` | what is consumed after a moment is at most a bucket more (and one per loss of the keys since) than the rate for the seconds passed, or refilled twice, since; the seconds count from the moment itself or, if calls are on their way to the script, from the oldest time one of them has captured | the same with any `base`: `BucketInv(base)` holds from that moment on, with `base` what was consumed by then and a full bucket at that time, whatever was in it: seconds that passed before pay for nothing more |
| `PeriodLimitProofs` | `TypeCorrect`, `QuotaKept` | `[]TypeOK`, `[]QuotaPerKey` | `KeyOK`: a key and its expiry come and go together, and its permits follow its counter |
| | `PeriodBound` | `[]TwoQuotasPerPeriod` | `LivesOK`: a second key of the period, if none was late, lives to its end, because the window of a pending call (`CallsOK`) is that of its second; `PassedOK` adds up the shares of the keys. The bound alone is not inductive: nothing in it keeps a third key away |
| | `KeyRunsOut` | a key expires within a period, no call puts that off, each tick brings it nearer, the count goes with the key | `KeyOK`; this is `KeyExpires` but for the fairness of the clock |
| | `ExpireInFirstSecond` | with `Align`, keys expire within the first second of a period, if scripts run in the second their window was computed in | `Edge`, the statement itself, with the window of a pending call from `CallsOK` |
| `WindowProofs` | `TypeCorrect`, `NothingIsLost` | `[]TypeOK`, `[]NothingLost` | `BucketsInv`: the bucket of age `a` holds exactly the samples seen `a` intervals before the one of `offset` |
| | `RingImplementsWindow` | `Spec => ImplementsSampleWindow` | the same; `WalkedSlots` and `ExpiredSlots` do the index arithmetic modulo `Size`, `ReducedIsWindow` that `Reduce` returns `Window` |
| | `ExpiredOnlyByRace` | `ExpiredNotCounted`, if no boundary falls between the two clock reads of an `Add` | the same: then `delay` stays 0 |
| | `RingImplementsCounts`, `HistoryCounts` | `Spec => Counts!WindowSpec`; its sums are those of what `Reduce` returns | the same. A boundary is a `Slide` of the counts when the ring notices it, so the refinement holds with the race as well |
| | `OpensOnFailure`, `OneSample` | `[]OpenNeedsFailure`, `OneSamplePerCall` of the breaker | `BreakerInv`: sum and count differ only from the age of the last failure on. `Total` is the size of a union of columns, which makes sums over any window comparable without induction |
| | `FewFailuresForgiven` | where the drop ratio is positive, more than `protection` calls of the window failed, and the ratio is below 1 | the same |
| `RestProofs` | `TypeCorrect`, `NoLeak`, `Judged` | `[]TypeOK`, `[]NothingLeaks`, `[]JudgedByAnswer` of `RestChain` | `LeakInv` (latch and `flying` as cardinalities; a latch is never returned to below zero) and `WayInv` (what each stage implies about the two promises) |
| | `ConcurrencyPerRoute` | of the handlers of one route whose request is not answered, at most `MaxConns` run | `HandlerInv`: a handler has started only for a request that is past the shedder, and so has an element of the latch until it is answered; the rest is `NothingLeaks` |
| | `OneRouteBearsMaxConns` | `[]ServiceConcurrency` with one route and handlers that end before their answer | the same |
| | `GatesImplementChain`, `GatesNoLeak` | `GateSpec => Spec`, and so the invariants of the chain | none: every step of a gate is a step of the chain's handler or a stutter (`GatesAreHandlers`) |
| | `Guarded` | `[]HandlerGuarded` | `GuardInv`: at each gate, which setting the route has and what the gates before it have found |
| | `RefusalsStand` | `[]RefusalStands` | `TellInv`: the refusal is the first code in the timeoutWriter, and the chain has it from there unless the context ended first. `UnauthorizedIsRefusal` covers the callbacks' answers |
| | `CountsFollow` | `[]CountsFollowUses` | `CountInv`: the property, with `CountWay`: a goroutine about to count has loaded something, and before the reset the entry it holds is gone from the map only if another one stored a new count there |
| `AdaptiveShedderProofs` | `TypeCorrect`, `FlagTimed`, `CalmDrops` | `[]TypeOK`, `[]FlagHasTime`, `[]CalmDropsNothing` | `RoomInv` (requests fit), `TimeInv` (a caller that is about to set the flag finds the time already set), `CalmInv` (which stages a calm shedder's callers can be in, and where `stillHot` would return) |
| | `FlagLostOnlyByRace` | `[]CoolOffKept`, if no caller stores a drop time while another is between reading it and acting on it | `DecisionInv`: what a caller has read of the drop time is still true when it acts on it |
| | `CoolOffLostOnlyByRaces` | `[]CoolOffWhole`, if moreover nobody overwrites a drop time with an older one | `NewestInv`: then `dropTime` is that of the newest drop |
| `P2CPickerProofs` | `TypeCorrect`, `Exact` | `[]TypeOK`, `[]InflightExact` | `InflightInv` with `OnInv`; that `inflight` never falls below zero follows from the count, so `TypeOK` is proved after it |
| | `Forced` | `DueIsChosen` | `PickStep`: of the two candidates a fresh one is chosen only if the other is not due |
| | `ForcedUnlessRare` | `[]ForcedInTime`, if each pick finds a connection that is not due, or none that was passed over | `PassedInv`: a connection that was passed over is one of the picker's and due, so that with two of them the next pick takes it. The first pick may be rare, the picker has passed over nobody yet |
| `ResolverProofs` | `TypeCorrect`, `HandlerMirrors`, `ConnectionFollows`, `SubscriberLatest` | `[]TypeOK`, `[]MirrorsInformer`, `[]PublishedFollows`, `[]LatestUnlessOvertaken` | `StagesOK` (what `Build`'s stage says about the other goroutines), `UnlistedOK` (the handler before the first list), `ListsOK`; `DiffIsInequality` shows that comparing sizes and members one way is enough |
| | `FeedImplemented` | `Spec => ImplementsFeed` | `SourcesOK`: every address shown is in a list from `base` on, and `base` falls only while `Build` or the first list is outstanding |
| `RpcCallProofs` | `TypeCorrect`, `BreakersAgree` | types of call and stream, `[]JudgedAlike` | `JudgeInv`: a call is answered once, and whoever has heard has told of that answer; `RecoveredJudgedAlike` is the fact about errors and codes it rests on |
| | `TokensEnforced` | `[]TokenEnforced` | `AuthInv`: there is a fetch only while the cache is empty, a fresh cache or fetch has the token of Redis, and a call is clean only while that is so. Without `CacheInv` the property is not inductive: a slow fetch could fill the cache of a fresh authenticator with an old token |
| | `PromisesSettledOnce` | promises are outstanding for the calls the server selects for, and only for those; what was told and answered is final | `SettledInv` |
| | `NoAnswerLost` | while the server selects there is something to select or somebody at work on it; a panic finds room in its channel | `ComingInv`: the channel is full only when the goroutine has gone, and only one of its own sends |
| | `SpanEndsOnce` | a span ends once, with what its loop took first; a waiting operation is let go by the loop or its end only | `TracedInv`: a span is open while its loop runs, and who waits has a loop. `NoAnswerLost` and this are `NothingStuck` but for fairness |

Layout: one lemma per conjunct of the invariant and inside it one step per
action; `Init => IInv`, `IInv /\ [Next]_vars => IInv'` and the property are put
together with `PTL`.

Only model-checked: the liveness properties (`BackOnRedis`, `CallsReturn`,
`KeyExpires`, `Answered`, `KeepsServing`, `KeepsAdmitting`, `ClosesAgain`,
`EventuallyCurrent`, `CallReturns`, `NothingStuck`), which need `ENABLED`. Every
safety property of a run is a theorem.

Some theorems assume that a step never happens (`[][...]_vars` beside `Spec`).
Each is about a statement of section 7 that is not true of the code, and says
that it would be without that one race or condition; TLC finds the statement
violated as soon as the assumption is dropped.

## 7. Findings

One statement of the repository is refuted by a run:

- `adaptiveshedder.go:269` says the load is checked during the cool-off.
  `stillHot` resets `droppedRecently` on the strength of a `dropTime` it loaded
  earlier, and can erase a drop recorded in between (`shedder_cooloff`). That is
  the only way to lose the flag (`FlagLostOnlyByRace`). A cool-off may also end
  early because line 167 reads the clock before it stores the time, which may be
  older than the one it overwrites: `CoolOffWhole` counts from the newest drop,
  and there is no third way (`CoolOffLostOnlyByRaces`).

Five more are stated in the modules and are not invariants. Each is violated when
it is added under `INVARIANTS` (with `Spec`) to the configuration named; what
the code does instead is what the run of that configuration checks.

| statement | add to | the repository says | the code | proved to be all that is wrong |
|---|---|---|---|---|
| `RateAndBurst` | `MCTokenBucket` | `tokenlimit.go:121`: events up to rate, bursts of at most burst | the script stores the caller's own timestamp even if it is older than the one stored (line 100), so two calls that overtake each other on the way to Redis refill the same seconds twice; `ConsumedIsPaidFor` says by exactly how much | `RateAndBurstByRewind` |
| `ExpiredNotCounted` | `MCRollingWindow` | `rollingwindow.go:77`: expired buckets are not counted | `updateOffset` reads the clock twice; an interval boundary between the reads lets `lastTime` run ahead of `offset`, and expired samples are counted | `ExpiredOnlyByRace` |
| `ServiceConcurrency` | `MCRestChain` | `rest/rest/config.go:38`: `MaxConns` is the concurrency one service bears | the latch is per route and returned at the deadline while the handler runs on | `OneRouteBearsMaxConns` |
| `ForcedInTime` | `MCP2C` | `p2c.go:27` and `182`: a connection is picked by force once `forcePick` has passed | only the heavier candidate is asked, so with calls rarer than that the heavier one takes every call | `ForcedUnlessRare` |
| `QuotaPerAlignedPeriod` | `MCPeriodLimit` | `periodlimit.go:158`: with `Align`, 5 messages every day | the key expires that many whole seconds after the tick it was made, so it outlives the day by up to a second; the calls of that second count for the day before, and the day has a full quota after them | `ExpireInFirstSecond` |

The races of the k8s and discov resolvers (`raced`): the endpoints of the first
`Get` may replace newer ones of the informer (`kubebuilder.go:76`), or the
informer's first list is added to them (`kubebuilder.go:68`); a deletion found
by a relist is dropped (`eventhandler.go:54`); the first update of
`discovbuilder.go:43` may overtake the listener's, or shuffle its slice at the
same time (`subset.go:6`), by which addresses are lost. The properties of the
run except them; that they are there is a finding, and nothing forbids them.
The next change of the service ends those of discov, the next one that comes
through `OnUpdate` those of k8s: `OnAdd` merges an object that is created anew
with addresses that stayed, and `OnDelete` takes away only those of the object
that was deleted.

Seen while modelling, without a statement in the repository to contradict:

- `sheddinginterceptor.go:40` fails the shedder's promise for
  `err == context.DeadlineExceeded` only; the timeout interceptor inside it
  returns a status, so for calls that time out the shedder is told `Pass`. It is
  told `Fail` only if a handler returns that very error. `JudgedAlike` is about
  breakers only.
- `authhandler.go:130`: a callback for unauthorized requests that writes a body
  but no header answers 200, which the 401 behind it cannot change.
- `tokenparser.go:94`: `resetTime` is never moved on, so after the first day
  every increment empties the history, and `CountsFollowUses` can promise a
  count only until then. What the counters decide is the order in which secrets
  are tried, so no request is refused for it.
- `recoverhandler.go:18`: a panic after the handler has written a header is
  answered with that code, and judged by it.
- `rest/rest/internal/starter.go:44` tests `err` where it means `e`, so an error
  of `Shutdown` is logged only if the server had failed before.
- `p2c.go:152`: the averages are truncated to integers. Of a connection whose
  calls end within some ten milliseconds of each other, a success adds less than
  one to `success`, and so nothing, while each failure takes at least one away.

## 8. Abstractions and what is not modelled

- *Token limiter*: the in-process `x/time/rate` limiter answers freely; its
  answer changes nothing else. All clocks agree (a clock that is off would be
  one more way to an older timestamp). `Ttl = 0` (rate above twice the burst) is
  in the model (`ScriptFails`), the runs use positive `Ttl`.
- *Period limit*: one key (keys share nothing), one time zone.
- *Window*: a bucket is the set of its samples; `Sum` and `Count` are functions
  of it. The intervals are whole.
- *Shedder*: CPU load is open, `maxFlight` is any number from 1 to
  `MaxCapacity`, chosen at each check; the integer part of the moving average
  moves anywhere between its value and the one averaged in, which includes what
  the code computes. The exact average and the windows behind `maxFlight` are
  therefore not checked.
- *Breaker*: `accept` sees one state of its window, as under the read lock of
  `Reduce`. `k = 1.5` in integers is exact for the comparison made. The random
  draw goes either way whenever the ratio is positive.
- *REST chain*: breaker and shedder decide freely; a route has one shedder here
  (the code has one per priority, of the same kind). The handlers call go-zero's
  own `core/breaker`, `core/load` and `core/syncx`; the annotated copies of
  them under `core/` are what is modelled. A timeout of 0 (no `TimeoutHandler`)
  and a custom error handler in `httpx` are left out.
- *REST gates*: a token is known by the secret it was signed with, a signature by
  whether it is right; keys, ciphers and bodies are left out. The search tree of
  the router (go-zero's `core/search`) is filled before the start. Middlewares
  of the user belong to the user's handler.
- *Picker*: the averages behind `load` and `healthy` are open: either candidate
  may be the heavier and any two may be the candidates. The reset of `inflight`
  by a new picker while old calls run is in the model, its effect on the load is
  not.
- *Resolver*: go-zero's discov subscriber and the Kubernetes informer are
  libraries, modelled from how the builders use them; a version is the set of its
  addresses. The text of targets is left out. That two goroutines write one slice
  of strings at once loses or doubles addresses in the model; a string torn
  between pointer and length, which Go does not rule out either, is left out.
- *Rpc call*: what the breakers and the shedder decide is open; a handler returns
  one of a set of errors, hangs or panics; gRPC delivers a call at most once. The
  contents of messages, spans and metadata are left out. Of the operations of
  one stream that send (`SendMsg`, `CloseSend`, `Header`) one at a time waits for
  the loop; a send may fail although the stream then ends as if it had not. A
  handler that hangs and a stream that is neither received from nor cancelled
  keep their goroutines.
- *Not modelled*: CPU sampling (a moving average over files of the operating
  system, whose answers `AdaptiveShedder` leaves open); request parsing and
  answers (conversions without state); log, metrics and tracing of REST (they
  observe); collecting routes, listening and CORS headers of the REST server
  (before the start, or headers only); atomics and the spin lock (single
  hardware operations); examples and tests.
