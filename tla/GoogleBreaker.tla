---------------------------- MODULE GoogleBreaker ----------------------------
(***************************************************************************)
(* The circuit breaker, core/breaker/googlebreaker.go. It drops a call at  *)
(* random when too few of the calls of its rolling window succeeded.       *)
(* There is no open or half-open state: all it remembers is its rolling    *)
(* window.                                                                 *)
(*                                                                         *)
(* The window is used through what CountWindow promises.                   *)
(***************************************************************************)
EXTENDS CountWindow, FiniteSets

CONSTANTS
  Caller,         \* goroutines that use the breaker
  Protection,     \* protection: so many calls are never enough to drop one
  MaxPerInterval  \* bound: calls reported in one interval

ASSUME BreakerAssumption ==
  /\ IsFiniteSet(Caller)
  /\ Intervals \in Nat \ {0}
  /\ Protection \in Nat
  /\ MaxPerInterval \in Nat

VARIABLES
  stage,    \* per caller: "idle", "accept", "coin" or "running"
  backend,  \* what is called: "up" or "down"
  failure   \* history: the age of the last failure, Intervals if that is longer ago

breakerVars == <<window, stage, backend, failure>>

BreakerInit ==
  /\ WindowInit
  /\ stage = [c \in Caller |-> "idle"]
  /\ backend = "up"
  /\ failure = Intervals

Goto(c, from, to) ==
  /\ stage[c] = from
  /\ stage' = [stage EXCEPT ![c] = to]

Busy == {c \in Caller : stage[c] # "idle"}

-----------------------------------------------------------------------------
(* accept.                                                                 *)

\* The total of f over all ages.
Total(f) == Cardinality(UNION {{a} \X (1 .. f[a]) : a \in DOMAIN f})

\* History: one Reduce for both.
accepts == Total(sum)
total   == Total(count)

\* dropRatio > 0: total - protection > k * accepts with k = 1.5. The left side
\* is an integer, so the integer part of the right side is enough.
DropRatioPositive == total - Protection > accepts + accepts \div 2

Call(c) ==
  /\ count[0] + Cardinality(Busy) < MaxPerInterval
  /\ Goto(c, "idle", "accept")
  /\ UNCHANGED <<window, backend, failure>>

\* The history is read and the ratio computed; others may report before the
\* random number is drawn.
Accept(c) ==
  /\ Goto(c, "accept", IF DropRatioPositive THEN "coin" ELSE "running")
  /\ UNCHANGED <<window, backend, failure>>

\* The ratio is below 1, so TrueOnProba may go either way.
CoinAdmits(c) ==
  /\ Goto(c, "coin", "running")
  /\ UNCHANGED <<window, backend, failure>>

-----------------------------------------------------------------------------
(* The end of a call: markSuccess or markFailure.                          *)

MarkSuccess == Mark(1) /\ UNCHANGED failure
MarkFailure == Mark(0) /\ failure' = 0

\* Variant for a mutation run: a call that is dropped counts as a failure.
CoinDropsRecorded(c) ==
  /\ Goto(c, "coin", "idle")
  /\ MarkFailure
  /\ UNCHANGED backend

\* ErrServiceUnavailable, or what the fallback makes of it.
CoinDrops(c) ==
  /\ Goto(c, "coin", "idle")
  /\ UNCHANGED <<window, backend, failure>>

\* The request returns something acceptable, or the promise is accepted.
Succeed(c) ==
  /\ Goto(c, "running", "idle")
  /\ MarkSuccess
  /\ UNCHANGED backend

\* It returns something else, or the promise is rejected.
Fail(c) ==
  /\ backend = "down"
  /\ Goto(c, "running", "idle")
  /\ MarkFailure
  /\ UNCHANGED backend

\* Variant for a mutation run: a panic leaves no trace.
PanicUnrecorded(c) ==
  /\ backend = "down"
  /\ Goto(c, "running", "idle")
  /\ UNCHANGED <<window, backend, failure>>

\* DoReq: the request panics; the deferred function records a failure and the
\* panic goes on.
Panic(c) ==
  /\ backend = "down"
  /\ Goto(c, "running", "idle")
  /\ MarkFailure
  /\ UNCHANGED backend

-----------------------------------------------------------------------------
(* The world around the breaker.                                           *)

IntervalPasses ==
  /\ Slide
  /\ failure' = IF failure < Intervals THEN failure + 1 ELSE Intervals
  /\ UNCHANGED <<stage, backend>>

BackendChanges ==
  /\ backend' = IF backend = "up" THEN "down" ELSE "up"
  /\ UNCHANGED <<window, stage, failure>>

Step(c) ==
  \/ Accept(c) \/ CoinAdmits(c) \/ CoinDrops(c)
  \/ Succeed(c) \/ Fail(c) \/ Panic(c)

BreakerNext ==
  \/ \E c \in Caller : Call(c) \/ Step(c)
  \/ IntervalPasses
  \/ BackendChanges

BreakerSpec == BreakerInit /\ [][BreakerNext]_breakerVars

\* Callers keep calling, calls end and time passes. Nothing is assumed of the
\* random numbers: each may go against the caller.
Fairness ==
  /\ \A c \in Caller : WF_breakerVars(Call(c)) /\ WF_breakerVars(Step(c))
  /\ WF_breakerVars(IntervalPasses)

FairSpec == BreakerSpec /\ Fairness

-----------------------------------------------------------------------------
(* Properties.                                                             *)

\* Nothing can be dropped unless a call has failed within the last Intervals
\* intervals: successes alone never open the breaker, and old failures do not
\* keep it open.
OpenNeedsFailure == DropRatioPositive => failure < Intervals

\* A call that was admitted leaves exactly one sample when it ends, even if it
\* panics; one that was dropped leaves none.
OneSamplePerCall ==
  [][\A c \in Caller :
       stage[c] # "idle" /\ stage'[c] = "idle" =>
         count'[0] = count[0] + (IF stage[c] = "running" THEN 1 ELSE 0)]_breakerVars

\* The breaker does not stay shut against everybody, however the random numbers
\* fall: dropped calls leave no sample, so the failures grow old.
KeepsAdmitting == []<>(\E c \in Caller : stage[c] = "running")

\* Once the backend is well for good, the breaker drops nothing any more.
ClosesAgain == <>[](backend = "up") => <>[](~DropRatioPositive)
=============================================================================
