-------------------------- MODULE PeriodLimitProofs --------------------------
(***************************************************************************)
(* Proofs about the fixed-window limiter, for any number of callers, any   *)
(* quota, period and resolution of the clock.                              *)
(*                                                                         *)
(* The bound on a period is not inductive: what makes it so is that a      *)
(* second key of the period, if no window was late, lives to its end       *)
(* (LivesOK), which in turn rests on how the window of a pending call      *)
(* relates to the second it was computed in (CallsOK).                     *)
(***************************************************************************)
EXTENDS PeriodLimit, TLAPS

\* The key and what it has permitted.
KeyOK ==
  /\ count = 0 <=> left = 0
  /\ count = 0 => granted = 0
  /\ granted <= count /\ granted <= Share

\* The windows of pending calls are those of the second they were computed in.
CallsOK ==
  \A c \in Caller :
    pc[c] = "eval" => window[c] = IF align THEN Period - taken[c] ELSE Period

\* A key beyond those accounted for lives to the end of the period.
LivesOK ==
  /\ count > 0 => lives >= 1
  /\ \/ lives <= 1 + late
     \/ lives = 2 + late /\ count > 0 /\ left >= PeriodTicks - phase

\* Every key of the period but the present one has permitted at most its share.
PassedOK ==
  IF count > 0 THEN passed <= Share * (lives - 1) + granted
  ELSE passed <= Share * lives

IInv == TypeOK /\ KeyOK /\ CallsOK /\ LivesOK /\ PassedOK

-----------------------------------------------------------------------------
LEMMA PeriodTicksPositive == PeriodTicks \in Nat \ {0}
BY PeriodAssumption, SMT DEF PeriodTicks

\* A product grows with its factors.
LEMMA Monotone ==
  ASSUME NEW a \in Nat, NEW b \in Nat, NEW k \in Nat, a <= b
  PROVE  k * a <= k * b /\ k * a \in Nat /\ k * b \in Nat
<1>1. PICK d \in Nat : b = a + d
  BY b - a \in Nat, b = a + (b - a)
<1>2. k * b = k * a + k * d
  BY <1>1, SMT
<1>3. k * d \in Nat /\ k * a \in Nat
  BY SMT
<1> QED
  BY <1>2, <1>3, SMT

\* The second of the period lies in it and does not run ahead of the phase.
LEMMA SecondInPeriod ==
  ASSUME NEW p \in 0 .. PeriodTicks - 1
  PROVE  /\ p \div TicksPerSecond \in 0 .. Period - 1
         /\ TicksPerSecond * (p \div TicksPerSecond) <= p
<1> DEFINE s == p \div TicksPerSecond
<1>1. /\ s \in Nat
      /\ TicksPerSecond * s <= p
  BY PeriodAssumption, PeriodTicksPositive, SMT
<1>2. s < Period
  <2>1. SUFFICES ASSUME s >= Period PROVE FALSE
    BY <1>1, PeriodAssumption
  <2>2. TicksPerSecond * Period <= TicksPerSecond * s
    BY <1>1, <2>1, Monotone, PeriodAssumption
  <2>3. TicksPerSecond * Period = PeriodTicks
    BY PeriodAssumption, SMT DEF PeriodTicks
  <2> QED
    BY <1>1, <2>2, <2>3, PeriodTicksPositive, PeriodAssumption
<1> QED
  BY <1>1, <1>2, PeriodAssumption

\* A window computed in the second the script runs in reaches the period's end.
LEMMA FreshWindow ==
  ASSUME NEW p \in 0 .. PeriodTicks - 1
  PROVE  (Period - p \div TicksPerSecond) * TicksPerSecond >= PeriodTicks - p
<1>1. (Period - p \div TicksPerSecond) * TicksPerSecond
        = PeriodTicks - TicksPerSecond * (p \div TicksPerSecond)
  BY SecondInPeriod, PeriodAssumption, SMT DEF PeriodTicks
<1> QED
  BY <1>1, SecondInPeriod, PeriodTicksPositive, PeriodAssumption

\* A window of whole seconds within the period is a number of ticks within it.
LEMMA WindowTicks ==
  ASSUME NEW w \in 0 .. Period
  PROVE  /\ w * TicksPerSecond \in 0 .. PeriodTicks
         /\ w > 0 => w * TicksPerSecond > 0
<1>1. TicksPerSecond * w <= TicksPerSecond * Period
  BY Monotone, PeriodAssumption
<1>2. w * TicksPerSecond = TicksPerSecond * w /\ PeriodTicks = TicksPerSecond * Period
  BY PeriodAssumption, SMT DEF PeriodTicks
<1>3. w * TicksPerSecond \in Nat
  BY PeriodAssumption, SMT
<1>4. ASSUME w > 0 PROVE w * TicksPerSecond > 0
  BY <1>4, PeriodAssumption, SMT
<1> QED
  BY <1>1, <1>2, <1>3, <1>4, PeriodTicksPositive

-----------------------------------------------------------------------------
LEMMA InitIInv == Init => IInv
BY PeriodAssumption, PeriodTicksPositive
   DEF Init, IInv, TypeOK, KeyOK, CallsOK, LivesOK, PassedOK, Share

LEMMA TakeStep ==
  ASSUME IInv, NEW c \in Caller, Take(c) PROVE IInv'
<1> USE DEF IInv, Take, params, history
<1>1. Second \in 0 .. Period - 1 /\ Period - Second \in 0 .. Period
  BY SecondInPeriod, PeriodAssumption DEF TypeOK, Second
<1>2. CalcExpireSeconds \in 0 .. Period
  BY <1>1, PeriodAssumption DEF CalcExpireSeconds
<1>3. TypeOK'
  BY <1>1, <1>2 DEF TypeOK
<1>4. KeyOK' /\ LivesOK' /\ PassedOK'
  BY DEF KeyOK, LivesOK, PassedOK, Share
<1>5. CallsOK'
  <2>1. SUFFICES ASSUME NEW d \in Caller, pc'[d] = "eval"
                 PROVE  window'[d] = IF align THEN Period - taken'[d] ELSE Period
    BY DEF CallsOK
  <2>2. CASE d = c
    BY <2>2 DEF TypeOK, CalcExpireSeconds
  <2>3. CASE d # c
    BY <2>1, <2>3 DEF TypeOK, CallsOK
  <2> QED
    BY <2>2, <2>3
<1> QED
  BY <1>3, <1>4, <1>5

\* A call that ends takes nothing with it that the invariant speaks of.
LEMMA ReturnCalls ==
  ASSUME TypeOK, CallsOK, UNCHANGED params,
         NEW c \in Caller,
         NEW a \in {"Unknown", "Allowed", "HitQuota", "OverQuota"},
         Return(c, a)
  PROVE  /\ CallsOK'
         /\ pc' \in [Caller -> {"idle", "eval"}]
         /\ window' \in [Caller -> 0 .. Period]
         /\ taken' \in [Caller -> 0 .. Period - 1]
         /\ result' \in [Caller -> {"Unknown", "Allowed", "HitQuota", "OverQuota"}]
BY PeriodAssumption DEF TypeOK, CallsOK, Return, params

LEMMA EvalErrorStep ==
  ASSUME IInv, NEW c \in Caller, EvalError(c) PROVE IInv'
BY ReturnCalls
   DEF IInv, EvalError, TypeOK, KeyOK, LivesOK, PassedOK, Share, params, history

LEMMA EvalStep ==
  ASSUME IInv, NEW c \in Caller, Eval(c) PROVE IInv'
<1> USE DEF IInv
<1> DEFINE permit == IF Code(count + 1) = "OverQuota" THEN 0 ELSE 1
<1>0. PICK a \in {"Unknown", "Allowed", "HitQuota", "OverQuota"} : Return(c, a)
  BY DEF Eval, Code
<1>1. /\ left' = Expiry(c)
      /\ count' = count + 1
      /\ passed' = passed + permit
      /\ UNCHANGED <<quota, align, phase>>
  BY DEF Eval, RunScript, params
<1>2. /\ count = 0 => /\ granted' = permit /\ lives' = lives + 1
                      /\ late' = IF IsLate(c) THEN late + 1 ELSE late
      /\ count # 0 => granted' = granted + permit /\ UNCHANGED <<lives, late>>
  BY DEF Eval, RunScript
<1>3. CallsOK' /\ pc' \in [Caller -> {"idle", "eval"}]
      /\ window' \in [Caller -> 0 .. Period] /\ taken' \in [Caller -> 0 .. Period - 1]
      /\ result' \in [Caller -> {"Unknown", "Allowed", "HitQuota", "OverQuota"}]
  BY <1>0, <1>1, ReturnCalls DEF params
<1>4. /\ window[c] \in 1 .. Period /\ taken[c] \in 0 .. Period - 1
      /\ window[c] = IF align THEN Period - taken[c] ELSE Period
  BY <1>0, PeriodAssumption DEF Return, CallsOK, TypeOK
<1>5. Expiry(c) \in 1 .. PeriodTicks
  BY <1>4, WindowTicks, PeriodTicksPositive DEF Expiry, TypeOK, KeyOK
<1>6. permit \in {0, 1} /\ Share \in Nat \ {0} /\ Share' = Share
  BY <1>1 DEF Share, TypeOK
<1>7. permit = 1 => count + 1 <= Share
  BY DEF Code, Share, TypeOK
<1>8. TypeOK'
  BY <1>1, <1>2, <1>3, <1>5, <1>6 DEF TypeOK
<1>9. KeyOK'
  <2>1. count' # 0 /\ left' # 0
    BY <1>1, <1>5 DEF TypeOK
  <2>2. granted' <= count' /\ granted' <= Share
    BY <1>1, <1>2, <1>6, <1>7 DEF TypeOK, KeyOK
  <2> QED
    BY <2>1, <2>2, <1>6 DEF KeyOK
<1>10. LivesOK'
  <2>1. CASE count # 0
    BY <2>1, <1>1, <1>2 DEF LivesOK, Expiry, TypeOK, PeriodTicks
  <2>2. CASE count = 0 /\ IsLate(c)
    BY <2>2, <1>1, <1>2 DEF LivesOK, TypeOK
  <2>3. CASE count = 0 /\ ~IsLate(c)
    <3>1. Expiry(c) >= PeriodTicks - phase
      <4>1. CASE align
        <5>1. Expiry(c) = (Period - phase \div TicksPerSecond) * TicksPerSecond
          BY <4>1, <2>3, <1>4 DEF Expiry, IsLate, Second
        <5> QED
          BY <5>1, FreshWindow DEF TypeOK
      <4>2. CASE ~align
        BY <4>2, <2>3, <1>4, PeriodTicksPositive DEF Expiry, PeriodTicks, TypeOK
      <4> QED
        BY <4>1, <4>2
    <3>2. PeriodTicks' = PeriodTicks
      BY DEF PeriodTicks
    <3> QED
      BY <3>1, <3>2, <2>3, <1>1, <1>2, PeriodTicksPositive DEF LivesOK, TypeOK
  <2> QED
    BY <2>1, <2>2, <2>3
<1>11. PassedOK'
  <2>1. CASE count # 0
    BY <2>1, <1>1, <1>2, <1>6 DEF PassedOK, LivesOK, TypeOK
  <2>2. CASE count = 0
    <3>1. lives' - 1 = lives /\ granted' = permit
      BY <2>2, <1>2 DEF TypeOK
    <3>2. passed + permit <= Share * lives + permit
      BY <2>2, <1>6 DEF PassedOK, TypeOK
    <3> QED
      BY <3>1, <3>2, <2>2, <1>1, <1>6 DEF PassedOK, TypeOK
  <2> QED
    BY <2>1, <2>2
<1> QED
  BY <1>3, <1>8, <1>9, <1>10, <1>11

LEMMA TickStep == ASSUME IInv, Tick PROVE IInv'
<1> USE DEF IInv, Tick, params, calls, history
<1>0. PeriodTicks' = PeriodTicks /\ Share' = Share /\ Share \in Nat \ {0}
  BY DEF PeriodTicks, Share, TypeOK
<1>1. phase' = IF phase + 1 = PeriodTicks THEN 0 ELSE phase + 1
  BY PeriodTicksPositive DEF TypeOK
<1>2. TypeOK'
  <2>1. phase' \in 0 .. PeriodTicks - 1
    BY <1>1, PeriodTicksPositive DEF TypeOK
  <2>2. left' \in 0 .. PeriodTicks /\ count' \in Nat /\ granted' \in Nat
    BY PeriodTicksPositive DEF TypeOK
  <2>3. passed' \in Nat /\ late' \in Nat /\ lives' \in Nat
    BY DEF TypeOK
  <2> QED
    BY <2>1, <2>2, <2>3, <1>0 DEF TypeOK
<1>3. KeyOK'
  BY <1>0, PeriodTicksPositive DEF KeyOK, TypeOK
<1>4. CallsOK'
  BY DEF CallsOK
<1>5. LivesOK'
  BY <1>0, <1>1, PeriodTicksPositive DEF LivesOK, KeyOK, TypeOK
<1>6. PassedOK'
  <2>1. CASE phase + 1 = PeriodTicks
    BY <2>1, <1>0 DEF PassedOK, KeyOK, TypeOK
  <2>2. CASE phase + 1 # PeriodTicks /\ left > 1
    BY <2>2, <1>0 DEF PassedOK, KeyOK, TypeOK
  <2>3. CASE phase + 1 # PeriodTicks /\ left <= 1 /\ count > 0
    <3>1. passed <= Share * (lives - 1) + Share /\ lives \in Nat \ {0}
      BY <2>3, <1>0 DEF PassedOK, KeyOK, LivesOK, TypeOK
    <3>2. Share * (lives - 1) + Share = Share * lives
      BY <3>1, <1>0, SMT
    <3> QED
      BY <2>3, <3>1, <3>2, <1>0 DEF PassedOK
  <2>4. CASE phase + 1 # PeriodTicks /\ count = 0
    BY <2>4, <1>0 DEF PassedOK, KeyOK, TypeOK
  <2> QED
    BY <2>1, <2>2, <2>3, <2>4 DEF TypeOK
<1> QED
  BY <1>2, <1>3, <1>4, <1>5, <1>6

LEMMA LoseKeyStep == ASSUME IInv, LoseKey PROVE IInv'
<1> USE DEF IInv, LoseKey, params, calls
<1>0. PeriodTicks' = PeriodTicks /\ Share' = Share /\ Share \in Nat \ {0}
  BY DEF PeriodTicks, Share, TypeOK
<1>1. TypeOK' /\ KeyOK' /\ CallsOK' /\ LivesOK'
  BY <1>0, PeriodTicksPositive DEF TypeOK, KeyOK, CallsOK, LivesOK
<1>2. passed <= Share * (lives - 1) + Share /\ lives \in Nat \ {0}
  BY <1>0 DEF PassedOK, KeyOK, LivesOK, TypeOK
<1>3. Share * (lives - 1) + Share = Share * lives
  BY <1>2, <1>0, SMT
<1>4. PassedOK'
  BY <1>2, <1>3, <1>0 DEF PassedOK
<1> QED
  BY <1>1, <1>4

LEMMA NextIInv == IInv /\ [Next]_vars => IInv'
<1>1. SUFFICES ASSUME IInv, [Next]_vars PROVE IInv'
  OBVIOUS
<1>2. CASE \E c \in Caller : Take(c)
  BY <1>1, <1>2, TakeStep
<1>3. CASE \E c \in Caller : Eval(c)
  BY <1>1, <1>3, EvalStep
<1>4. CASE \E c \in Caller : EvalError(c)
  BY <1>1, <1>4, EvalErrorStep
<1>5. CASE Tick
  BY <1>1, <1>5, TickStep
<1>6. CASE LoseKey
  BY <1>1, <1>6, LoseKeyStep
<1>7. CASE UNCHANGED vars
  BY <1>1, <1>7
     DEF IInv, TypeOK, KeyOK, CallsOK, LivesOK, PassedOK, Share, PeriodTicks,
         vars, params, calls, history
<1> QED
  BY <1>1, <1>2, <1>3, <1>4, <1>5, <1>6, <1>7 DEF Next

LEMMA Invariance == Spec => []IInv
BY InitIInv, NextIInv, PTL DEF Spec

\* Every reachable state has its type.
THEOREM TypeCorrect == Spec => []TypeOK
<1>1. IInv => TypeOK
  BY DEF IInv
<1> QED
  BY <1>1, Invariance, PTL

\* No key permits more than the quota (one, for a quota of 0), however many
\* goroutines of however many processes increment it.
THEOREM QuotaKept == Spec => []QuotaPerKey
<1>1. IInv => QuotaPerKey
  BY DEF IInv, KeyOK, QuotaPerKey
<1> QED
  BY <1>1, Invariance, PTL

\* For any quota, period and resolution of the clock, what passes in a period is
\* at most two quotas and one more for each late or lost key.
THEOREM PeriodBound == Spec => []TwoQuotasPerPeriod
<1>1. ASSUME IInv PROVE TwoQuotasPerPeriod
  <2> USE <1>1 DEF IInv
  <2>1. Share \in Nat /\ lives \in Nat /\ late \in Nat /\ passed \in Nat
    BY DEF Share, TypeOK
  <2>2. passed <= Share * lives
    <3>1. CASE count > 0
      <4>1. passed <= Share * (lives - 1) + Share /\ lives - 1 \in Nat
        BY <3>1, <2>1 DEF PassedOK, KeyOK, LivesOK, TypeOK
      <4>2. Share * (lives - 1) + Share = Share * lives
        BY <4>1, <2>1, SMT
      <4> QED
        BY <4>1, <4>2
    <3>2. CASE ~(count > 0)
      BY <3>2 DEF PassedOK
    <3> QED
      BY <3>1, <3>2
  <2>3. lives <= 2 + late
    BY <2>1 DEF LivesOK
  <2>4. Share * lives <= Share * (2 + late)
        /\ Share * lives \in Nat /\ Share * (2 + late) \in Nat
    BY <2>1, <2>3, Monotone
  <2> QED
    BY <2>1, <2>2, <2>4 DEF TwoQuotasPerPeriod
<1> QED
  BY <1>1, Invariance, PTL

\* What makes KeyExpires true, but for the fairness of Tick: a key always has an
\* expiry, which no call ever puts off, each tick brings nearer, and which takes
\* the counter with it. So it lives one period at most, however often it is
\* incremented meanwhile.
THEOREM KeyRunsOut ==
  Spec => [][count > 0 => /\ left \in 1 .. PeriodTicks
                          /\ left' <= left
                          /\ Tick => left' = left - 1
                          /\ left' = 0 => count' = 0]_vars
<1>. DEFINE RunsDown == count > 0 => /\ left \in 1 .. PeriodTicks
                                     /\ left' <= left
                                     /\ Tick => left' = left - 1
                                     /\ left' = 0 => count' = 0
<1>1. IInv /\ [Next]_vars => RunsDown \/ UNCHANGED vars
  <2>. SUFFICES ASSUME IInv, Next, count > 0 PROVE RunsDown
    BY DEF vars
  <2>1. left \in 1 .. PeriodTicks /\ count \in Nat
    BY PeriodTicksPositive DEF IInv, TypeOK, KeyOK
  <2>2. CASE Tick
    BY <2>1, <2>2, PeriodTicksPositive DEF Tick
  <2>3. ASSUME ~Tick PROVE left' <= left /\ (left' = 0 => count' = 0)
    <3>1. ASSUME NEW c \in Caller, Take(c) \/ EvalError(c)
          PROVE  left' = left
      BY <3>1 DEF Take, EvalError
    <3>2. ASSUME NEW c \in Caller, Eval(c) PROVE left' = left
      BY <2>1, <3>2 DEF Eval, RunScript, Expiry
    <3>3. CASE LoseKey
      BY <2>1, <3>3, PeriodTicksPositive DEF LoseKey
    <3>. QED BY <2>1, <2>3, <3>1, <3>2, <3>3, PeriodTicksPositive DEF Next
  <2>. QED BY <2>1, <2>2, <2>3
<1>. QED BY <1>1, Invariance, PTL DEF Spec

\* With Align all keys expire within the first second of a period, if scripts run
\* in the second their window was computed in: the quota of a period is shared
\* with the next one for less than a second, which is all that is wrong with the
\* comment on Align (periodlimit.go:158).
THEOREM ExpireInFirstSecond ==
  Spec /\ [][\A c \in Caller : Eval(c) => taken[c] = Second]_vars
    => [](align /\ count > 0 =>
            left + phase \in (1 .. TicksPerSecond - 1)
                               \cup (PeriodTicks .. PeriodTicks + TicksPerSecond - 1))
<1>. DEFINE Punctual == \A c \in Caller : Eval(c) => taken[c] = Second
            Edge == align /\ count > 0 =>
                      left + phase \in (1 .. TicksPerSecond - 1)
                        \cup (PeriodTicks .. PeriodTicks + TicksPerSecond - 1)
<1>1. Init => Edge
  BY DEF Init
<1>2. IInv /\ Edge /\ [Next]_vars /\ [Punctual]_vars => Edge'
  <2>. SUFFICES ASSUME IInv, Edge, [Next]_vars, [Punctual]_vars, align', count' > 0
                PROVE  left' + phase' \in (1 .. TicksPerSecond - 1)
                         \cup (PeriodTicks .. PeriodTicks + TicksPerSecond - 1)
    BY DEF PeriodTicks
  <2>0. /\ TicksPerSecond \in Nat \ {0} /\ PeriodTicks \in Nat \ {0}
        /\ TicksPerSecond <= PeriodTicks
        /\ phase \in 0 .. PeriodTicks - 1 /\ left \in 0 .. PeriodTicks /\ count \in Nat
        /\ count = 0 <=> left = 0
    <3>1. TicksPerSecond * 1 <= TicksPerSecond * Period
      BY PeriodAssumption, Monotone
    <3>2. TicksPerSecond * Period = PeriodTicks /\ TicksPerSecond * 1 = TicksPerSecond
      BY PeriodAssumption DEF PeriodTicks
    <3>. QED BY <3>1, <3>2, PeriodAssumption, PeriodTicksPositive
             DEF IInv, TypeOK, KeyOK
  <2>1. align' = align
    BY DEF Next, Take, Eval, EvalError, Tick, LoseKey, vars, params
  <2>2. ASSUME UNCHANGED <<count, left, phase>> PROVE Edge'
    BY <2>1, <2>2 DEF PeriodTicks
  <2>3. ASSUME NEW c \in Caller, Eval(c) PROVE Edge'
    <3>0. phase' = phase /\ left' = Expiry(c) /\ count' = count + 1
      BY <2>3 DEF Eval, RunScript
    <3>1. CASE count # 0
      <4>1. left' = left /\ count > 0
        BY <2>0, <3>0, <3>1 DEF Expiry
      <4>. QED BY <2>0, <2>1, <3>0, <4>1
    <3>2. CASE count = 0
      <4>. DEFINE s == phase \div TicksPerSecond
      <4>1. ~ UNCHANGED vars
        BY <2>0, <3>0 DEF vars
      <4>2. taken[c] = s
        BY <2>3, <4>1 DEF Second
      <4>3. window[c] = Period - s
        BY <2>1, <2>3, <4>2 DEF IInv, CallsOK, Eval, Return
      <4>4. s \in Nat /\ TicksPerSecond * s <= phase
        BY <2>0, SecondInPeriod
      <4>5. phase < TicksPerSecond * s + TicksPerSecond
        <5>1. phase \in Int /\ TicksPerSecond \in Int /\ TicksPerSecond > 0
          BY <2>0
        <5>. QED BY <5>1, Z3
      <4>. HIDE DEF s
      <4>6. left' = (Period - s) * TicksPerSecond
        BY <3>0, <3>2, <4>3 DEF Expiry
      <4>7. (Period - s) * TicksPerSecond = PeriodTicks - TicksPerSecond * s
            /\ TicksPerSecond * s \in Int
        BY <4>4, PeriodAssumption DEF PeriodTicks
      <4>8. left' + phase \in PeriodTicks .. PeriodTicks + TicksPerSecond - 1
        BY <2>0, <4>4, <4>5, <4>6, <4>7
      <4>. QED BY <3>0, <4>8
    <3>. QED BY <3>1, <3>2
  <2>4. CASE Tick
    <3>1. phase' = IF phase + 1 = PeriodTicks THEN 0 ELSE phase + 1
      BY <2>0, <2>4, PeriodTicksPositive DEF Tick
    <3>2. count > 0 /\ left > 1 /\ left' = left - 1
      BY <2>0, <2>4 DEF Tick
    <3>3. left + phase \in (1 .. TicksPerSecond - 1)
                             \cup (PeriodTicks .. PeriodTicks + TicksPerSecond - 1)
      BY <2>1, <3>2
    <3>4. CASE phase + 1 = PeriodTicks
      BY <2>0, <3>1, <3>2, <3>3, <3>4
    <3>5. CASE phase + 1 # PeriodTicks
      BY <2>0, <3>1, <3>2, <3>3, <3>5
    <3>. QED BY <3>4, <3>5
  <2>5. CASE LoseKey
    BY <2>0, <2>5 DEF LoseKey
  <2>6. ASSUME NEW c \in Caller, Take(c) \/ EvalError(c) PROVE Edge'
    BY <2>2, <2>6 DEF Take, EvalError
  <2>7. CASE UNCHANGED vars
    BY <2>2, <2>7 DEF vars
  <2>8. Edge' \/ Tick
    BY <2>3, <2>5, <2>6, <2>7 DEF Next
  <2>. QED BY <2>1, <2>4, <2>8 DEF PeriodTicks
<1>. QED BY <1>1, <1>2, Invariance, PTL DEF Spec
=============================================================================
