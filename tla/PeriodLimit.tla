----------------------------- MODULE PeriodLimit -----------------------------
(***************************************************************************)
(* The fixed-window limiter of core/limit/periodlimit.go: callers of any   *)
(* number of processes share one counter in Redis, which a Lua script      *)
(* increments and which expires with the window.                           *)
(*                                                                         *)
(* Time is counted in ticks, TicksPerSecond to the second, because the     *)
(* window is computed from whole seconds and the key expires at the tick   *)
(* it was created plus that many seconds. Only the position in the current *)
(* period and the time the key has left are kept, so time is unbounded.    *)
(***************************************************************************)
EXTENDS Integers

CONSTANTS
  Caller,          \* the goroutines that call Take on one key
  Quotas,          \* the quotas a limiter may be made with
  Period,          \* the period of the limiter in seconds
  TicksPerSecond,  \* resolution of the clock
  MaxCount,        \* bound: calls during one life of the key
  MaxLosses        \* bound: how often in a period Redis loses the key

\* With align a period of 0 divides by zero in calcExpireSeconds; nothing stops
\* a quota of 0.
ASSUME PeriodAssumption ==
  /\ Quotas \subseteq Nat
  /\ Period \in Nat \ {0} /\ TicksPerSecond \in Nat \ {0}
  /\ MaxCount \in Nat /\ MaxLosses \in Nat

VARIABLES
  quota,    \* the parameters of NewPeriodLimit: the quota
  align,    \* and whether the Align option was given
  phase,    \* ticks since the aligned period began
  count,    \* the key in Redis: its counter, 0 when there is no key
  left,     \* ticks until the key expires, 0 when there is no key
  pc,       \* per caller: "idle", or "eval" between the window and the script
  window,   \* per caller: the window calcExpireSeconds has computed
  taken,    \* per caller, history: the second in which it was computed
  result,   \* per caller: what Take returned last, Unknown while it is called
  granted,  \* history: permits of the present key
  lives,    \* history: keys there have been in this period
  passed,   \* history: permits in this period
  late      \* history: keys of this period made with a window computed in
            \* another second, or made because Redis had lost one

params  == <<quota, align>>
calls   == <<pc, window, taken>>
history == <<granted, lives, passed, late>>
vars    == <<params, phase, count, left, calls, result, history>>

PeriodTicks == Period * TicksPerSecond

\* The local time in seconds modulo the period.
Second == phase \div TicksPerSecond

\* The permits of one key: a key is born permitting.
Share == IF quota > 1 THEN quota ELSE 1

Init ==
  /\ quota \in Quotas /\ align \in BOOLEAN
  /\ phase = 0
  /\ count = 0 /\ left = 0
  /\ pc = [c \in Caller |-> "idle"]
  /\ window = [c \in Caller |-> 0]
  /\ taken = [c \in Caller |-> 0]
  /\ result = [c \in Caller |-> "Unknown"]
  /\ granted = 0 /\ lives = 0 /\ passed = 0 /\ late = 0

-----------------------------------------------------------------------------
(* Take.                                                                   *)

\* Variants for mutation runs: the last second of the period has no window; the
\* seconds gone by are added.
CalcExpireSecondsShort == IF align THEN Period - 1 - Second ELSE Period
CalcExpireSecondsAdded == IF align THEN Period + Second ELSE Period

CalcExpireSeconds == IF align THEN Period - Second ELSE Period

Take(c) ==
  /\ pc[c] = "idle"
  /\ pc' = [pc EXCEPT ![c] = "eval"]
  /\ window' = [window EXCEPT ![c] = CalcExpireSeconds]
  /\ taken' = [taken EXCEPT ![c] = Second]
  /\ result' = [result EXCEPT ![c] = "Unknown"]
  /\ UNCHANGED <<params, phase, count, left, history>>

\* Variant for a mutation run: the limit is compared too generously.
CodeGenerous(current) ==
  IF current = 1 \/ current <= quota + 1
  THEN IF current = quota THEN "HitQuota" ELSE "Allowed" ELSE "OverQuota"

\* What the script answers and Take makes of it. The first call is permitted
\* whatever the quota, and is never told that it hit it. The script answers
\* nothing but 0, 1 and 2, so that Take never meets an unknown code.
Code(current) ==
  IF current = 1 \/ current < quota THEN "Allowed"
  ELSE IF current = quota THEN "HitQuota" ELSE "OverQuota"

\* Variant for a mutation run: the increment that makes the key does not give it
\* an expiry, the one that hits the quota does.
ExpiryAtQuota(c) == IF count + 1 = quota THEN window[c] * TicksPerSecond ELSE left

\* EXPIRE comes with the increment that makes the key.
Expiry(c) == IF count = 0 THEN window[c] * TicksPerSecond ELSE left

IsLate(c) == align /\ taken[c] # Second

\* Increment and expiry in one script, which Redis runs as a whole.
RunScript(c) ==
  LET permit == IF Code(count + 1) = "OverQuota" THEN 0 ELSE 1
  IN /\ count < MaxCount
     /\ left' = Expiry(c)
     /\ count' = count + 1
     /\ passed' = passed + permit
     /\ IF count = 0
        THEN /\ granted' = permit
             /\ lives' = lives + 1
             /\ late' = IF IsLate(c) THEN late + 1 ELSE late
        ELSE /\ granted' = granted + permit
             /\ UNCHANGED <<lives, late>>

Return(c, answer) ==
  /\ pc[c] = "eval"
  /\ pc' = [pc EXCEPT ![c] = "idle"]
  /\ window' = [window EXCEPT ![c] = 0]
  /\ taken' = [taken EXCEPT ![c] = 0]
  /\ result' = [result EXCEPT ![c] = answer]

\* The call reaches Redis: the answer comes back or is lost on the way.
Eval(c) ==
  /\ RunScript(c)
  /\ \/ Return(c, Code(count + 1))
     \/ Return(c, "Unknown")
  /\ UNCHANGED <<params, phase>>

\* The call does not reach Redis.
EvalError(c) ==
  /\ Return(c, "Unknown")
  /\ UNCHANGED <<params, phase, count, left, history>>

-----------------------------------------------------------------------------
(* Redis and the clock.                                                    *)

\* The key is gone at the tick at which it expires; one without an expiry stays.
Tick ==
  LET gone == count = 0 \/ left = 1
  IN /\ phase' = (phase + 1) % PeriodTicks
     /\ left' = IF gone \/ left = 0 THEN 0 ELSE left - 1
     /\ count' = IF gone THEN 0 ELSE count
     /\ granted' = IF gone THEN 0 ELSE granted
     /\ IF phase + 1 = PeriodTicks
        THEN passed' = 0 /\ late' = 0 /\ lives' = IF gone THEN 0 ELSE 1
        ELSE UNCHANGED <<passed, late, lives>>
     /\ UNCHANGED <<params, calls, result>>

\* Redis comes back without the key.
LoseKey ==
  /\ count > 0 /\ late < MaxLosses
  /\ count' = 0 /\ left' = 0 /\ granted' = 0
  /\ late' = late + 1
  /\ UNCHANGED <<params, phase, calls, result, lives, passed>>

-----------------------------------------------------------------------------
Next ==
  \/ \E c \in Caller : Take(c) \/ Eval(c) \/ EvalError(c)
  \/ Tick \/ LoseKey

Spec == Init /\ [][Next]_vars

\* Time goes on. Nothing is assumed of the callers or of Redis.
FairSpec == Spec /\ WF_vars(Tick)

-----------------------------------------------------------------------------
(* Properties.                                                             *)

\* Type invariant of the limiter, its key and the calls.
TypeOK ==
  /\ quota \in Nat /\ align \in BOOLEAN
  /\ phase \in 0 .. PeriodTicks - 1
  /\ count \in Nat /\ left \in 0 .. PeriodTicks
  /\ pc \in [Caller -> {"idle", "eval"}]
  /\ window \in [Caller -> 0 .. Period]
  /\ taken \in [Caller -> 0 .. Period - 1]
  /\ result \in [Caller -> {"Unknown", "Allowed", "HitQuota", "OverQuota"}]
  /\ granted \in Nat /\ lives \in Nat /\ passed \in Nat /\ late \in Nat

\* Between the first call that makes the key and its expiry, no more than quota
\* callers are let through, however many call (with a quota of 0 it is one, as
\* the script looks at the first call before it looks at the limit).
QuotaPerKey == granted <= Share

\* What passes in one aligned period: the rest of the key that was there when the
\* period began and one key more, aligned or not, and a further key for every
\* window that was computed in another second than its script ran in and for
\* every key Redis has lost. No burst of calls around an expiry gets more.
TwoQuotasPerPeriod == passed <= Share * (2 + late)

\* What the comment on Align asks for (periodlimit.go:158-160): "if we want to
\* limit end users with 5 sms verification messages every day".
QuotaPerAlignedPeriod == align /\ late = 0 => passed <= Share

\* A key always expires, so nobody is refused for ever.
KeyExpires == count > 0 ~> count = 0
=============================================================================
