---------------------------- MODULE WindowProofs ----------------------------
(***************************************************************************)
(* Proofs about the rolling window and the breaker that counts with it.    *)
(*                                                                         *)
(* RollingWindow, for every size of the ring: type correctness, that the   *)
(* ring implements SampleWindow, and that it implements CountWindow, which *)
(* is all that the breaker knows of it.                                    *)
(*                                                                         *)
(* GoogleBreaker, for every number of callers and intervals and every      *)
(* protection: what can open it, and what a call leaves in the window.     *)
(***************************************************************************)
EXTENDS RollingWindow, GoogleBreaker, FiniteSetTheorems, FunctionTheorems, TLAPS

-----------------------------------------------------------------------------
(* The ring.                                                               *)

\* How many intervals before the one of offset a bucket stands for.
Age(s) == IF s <= offset THEN offset - s ELSE offset + Size - s

\* The interval the ring takes sample i for.
Seen(i) == time[i] + delay[i]

\* The interval the bucket at offset stands for; while an Add is moving, the
\* ring has moved to the first clock read, lastTime has not.
Base == IF lock = "free" THEN lastTime ELSE readAt

Samples == 1 .. Len(time)

\* Each bucket holds the samples seen in its interval, and no sample is seen
\* later than the current one; a sample that was delayed is seen before it.
BucketsInv == \A s \in Slots : buckets[s] = {i \in Samples : Seen(i) = Base - Age(s)}

SeenInv ==
  \A i \in Samples :
    /\ Seen(i) <= Base
    /\ lock = "moving" => Seen(i) < Base
    /\ Seen(i) = Base => delay[i] = 0

IInv == TypeOK /\ BucketsInv /\ SeenInv

-----------------------------------------------------------------------------
(* Arithmetic of the ring.                                                 *)

\* The index arithmetic of the ring wraps at most once.
LEMMA WrapsOnce ==
  ASSUME NEW x \in 0 .. 2 * Size - 1
  PROVE  x % Size = IF x < Size THEN x ELSE x - Size
<1>1. Size \in Nat /\ Size > 0
  BY RollingWindowAssumption
<1>2. x \in Int
  BY <1>1
<1>. QED BY <1>1, <1>2, Z3

LEMMA SpanRange ==
  ASSUME TypeOK
  PROVE  /\ Span \in 0 .. Size
         /\ clock - lastTime \in Nat
         /\ Span < Size => Span = clock - lastTime
         /\ Span = Size => clock - lastTime >= Size
<1>1. Size \in Nat /\ Size > 0 /\ clock \in Nat /\ lastTime \in 0 .. clock
  BY RollingWindowAssumption DEF TypeOK
<1>. QED BY <1>1 DEF Span

\* The buckets Reduce walks over are the youngest ones, up to the age that the
\* time since lastTime leaves.
LEMMA WalkedSlots ==
  ASSUME TypeOK
  PROVE  {(First + i) % Size : i \in 0 .. Diff - 1}
           = {s \in Slots : /\ Age(s) < Size - Span
                            /\ Span = 0 /\ IgnoreCurrent => Age(s) # 0}
<1>. DEFINE sp    == Span
            skip  == Span = 0 /\ IgnoreCurrent
            diff  == Diff
            first == First
<1>1. /\ Size \in Nat /\ Size > 0 /\ offset \in 0 .. Size - 1
      /\ sp \in 0 .. Size
  BY SpanRange, RollingWindowAssumption DEF TypeOK, Slots
<1>2. /\ skip => diff = Size - 1 /\ sp = 0
      /\ ~skip => diff = Size - sp
  BY DEF Diff
<1>3. first = (offset + sp + 1) % Size
  BY DEF First
<1>. HIDE DEF sp, skip, diff, first
<1>4. /\ diff \in Int /\ diff <= Size - sp
      /\ skip => sp = 0 /\ diff = Size - 1
      /\ diff < Size - sp => skip
  <2>1. CASE skip
    BY <1>1, <1>2, <2>1
  <2>2. CASE ~skip
    BY <1>1, <1>2, <2>2
  <2>. QED BY <2>1, <2>2
<1>5. SUFFICES {(first + i) % Size : i \in 0 .. diff - 1}
                 = {s \in Slots : Age(s) < Size - sp /\ (skip => Age(s) # 0)}
  BY DEF sp, skip, diff, first
<1>6. ASSUME sp < Size
      PROVE  first = IF offset + sp + 1 < Size THEN offset + sp + 1
                                               ELSE offset + sp + 1 - Size
  <2>. DEFINE x == offset + sp + 1
  <2>1. x \in 0 .. 2 * Size - 1 /\ first = x % Size
    BY <1>1, <1>3, <1>6
  <2>. HIDE DEF x
  <2>2. first = IF x < Size THEN x ELSE x - Size
    BY <2>1, WrapsOnce
  <2>. QED BY <1>1, <2>1, <2>2 DEF x
<1>0. sp < Size => first \in Int
  BY <1>1, <1>6
<1>7. ASSUME NEW i \in 0 .. diff - 1
      PROVE  /\ (first + i) % Size \in Slots
             /\ Age((first + i) % Size) = Size - sp - 1 - i
  <2>1. sp < Size /\ i \in Int /\ 0 <= i /\ i < Size - sp
    BY <1>1, <1>4
  <2>2. first + i \in 0 .. 2 * Size - 1
    BY <1>1, <1>6, <2>1
  <2>3. (first + i) % Size = IF first + i < Size THEN first + i
                                                 ELSE first + i - Size
    <3>1. PICK x : x = first + i
      OBVIOUS
    <3>2. x \in 0 .. 2 * Size - 1
      BY <2>2, <3>1
    <3>3. x % Size = IF x < Size THEN x ELSE x - Size
      BY <3>2, WrapsOnce
    <3>. QED BY <1>0, <1>1, <2>1, <3>1, <3>2, <3>3
  <2>. QED BY <1>1, <1>6, <2>1, <2>3 DEF Slots, Age
<1>8. ASSUME NEW i \in 0 .. diff - 1
      PROVE  Age((first + i) % Size) < Size - sp
             /\ (skip => Age((first + i) % Size) # 0)
  <2>1. i \in Int /\ 0 <= i /\ i <= diff - 1
    BY <1>4
  <2>. QED BY <1>1, <1>4, <1>7, <2>1
<1>9. ASSUME NEW s \in Slots, Age(s) < Size - sp, skip => Age(s) # 0
      PROVE  \E i \in 0 .. diff - 1 : s = (first + i) % Size
  <2>. DEFINE i == Size - sp - 1 - Age(s)
  <2>1. s \in Int /\ 0 <= s /\ s < Size /\ Age(s) \in Int /\ Age(s) >= 0
    BY <1>1 DEF Slots, Age
  <2>2. i \in 0 .. diff - 1
    <3>1. CASE skip
      BY <1>1, <1>4, <1>9, <2>1, <3>1
    <3>2. CASE ~skip
      BY <1>1, <1>4, <1>9, <2>1, <3>2
    <3>. QED BY <3>1, <3>2
  <2>3. sp < Size
    BY <1>1, <1>9, <2>1
  <2>4. first + i \in 0 .. 2 * Size - 1
    BY <1>1, <1>6, <2>1, <2>2, <2>3, <1>4
  <2>5. (first + i) % Size = IF first + i < Size THEN first + i
                                                 ELSE first + i - Size
    <3>1. PICK x : x = first + i
      OBVIOUS
    <3>2. x \in 0 .. 2 * Size - 1
      BY <2>4, <3>1
    <3>3. x % Size = IF x < Size THEN x ELSE x - Size
      BY <3>2, WrapsOnce
    <3>. QED BY <1>0, <1>1, <2>1, <2>2, <2>3, <3>1, <3>2, <3>3
  <2>6. s = (first + i) % Size
    BY <1>1, <1>6, <2>1, <2>3, <2>5 DEF Age
  <2>. QED BY <2>2, <2>6
<1>. QED BY <1>7, <1>8, <1>9

\* The buckets that updateOffset empties are the oldest ones.
LEMMA ExpiredSlots ==
  ASSUME TypeOK, NEW k \in 0 .. Size
  PROVE  {(offset + i + 1) % Size : i \in 0 .. k - 1}
           = {s \in Slots : Age(s) >= Size - k}
<1>1. /\ Size \in Nat /\ Size > 0 /\ offset \in 0 .. Size - 1
      /\ k \in Int /\ 0 <= k /\ k <= Size
  BY RollingWindowAssumption DEF TypeOK, Slots
<1>2. ASSUME NEW i \in 0 .. Size - 1
      PROVE  (offset + i + 1) % Size = IF offset + i + 1 < Size
                                       THEN offset + i + 1
                                       ELSE offset + i + 1 - Size
  <2>1. PICK x : x = offset + i + 1
    OBVIOUS
  <2>2. x \in 0 .. 2 * Size - 1
    BY <1>1, <2>1
  <2>3. x % Size = IF x < Size THEN x ELSE x - Size
    BY <2>2, WrapsOnce
  <2>. QED BY <1>1, <2>1, <2>2, <2>3
<1>3. ASSUME NEW i \in 0 .. k - 1
      PROVE  /\ (offset + i + 1) % Size \in Slots
             /\ Age((offset + i + 1) % Size) >= Size - k
  <2>1. i \in 0 .. Size - 1 /\ i <= k - 1
    BY <1>1
  <2>. QED BY <1>1, <1>2, <2>1 DEF Slots, Age
<1>4. ASSUME NEW s \in Slots, Age(s) >= Size - k
      PROVE  \E i \in 0 .. k - 1 : s = (offset + i + 1) % Size
  <2>. DEFINE i == Size - 1 - Age(s)
  <2>1. i \in 0 .. k - 1 /\ i \in 0 .. Size - 1
    BY <1>1, <1>4 DEF Slots, Age
  <2>2. s = (offset + i + 1) % Size
    BY <1>1, <1>2, <2>1 DEF Slots, Age
  <2>. QED BY <2>1, <2>2
<1>. QED BY <1>3, <1>4

\* Moving offset by k makes each bucket k intervals older; the k oldest ones
\* come to stand for the newest intervals.
LEMMA MovedAge ==
  ASSUME TypeOK, NEW k \in 0 .. Size, offset' = (offset + k) % Size
  PROVE  /\ offset' \in Slots
         /\ \A s \in Slots :
              Age(s)' = IF Age(s) >= Size - k THEN Age(s) - (Size - k)
                                              ELSE Age(s) + k
<1>1. /\ Size \in Nat /\ Size > 0 /\ offset \in 0 .. Size - 1
      /\ k \in Int /\ 0 <= k /\ k <= Size
  BY RollingWindowAssumption DEF TypeOK, Slots
<1>2. PICK x : x = offset + k
  OBVIOUS
<1>3. x \in 0 .. 2 * Size - 1
  BY <1>1, <1>2
<1>4. x % Size = IF x < Size THEN x ELSE x - Size
  BY <1>3, WrapsOnce
<1>5. offset' = IF offset + k < Size THEN offset + k ELSE offset + k - Size
  BY <1>1, <1>2, <1>3, <1>4
<1>6. offset' \in Slots
  BY <1>1, <1>5 DEF Slots
<1>7. ASSUME NEW s \in Slots
      PROVE  Age(s)' = IF Age(s) >= Size - k THEN Age(s) - (Size - k)
                                             ELSE Age(s) + k
  <2>1. s \in Int /\ 0 <= s /\ s < Size
    BY <1>1 DEF Slots
  <2>. QED BY <1>1, <1>5, <2>1 DEF Age
<1>. QED BY <1>6, <1>7

-----------------------------------------------------------------------------
(* The invariant.                                                          *)

LEMMA InitInv == Init => IInv
<1>. SUFFICES ASSUME Init PROVE IInv
  OBVIOUS
<1>1. /\ Size \in Nat /\ Size > 0 /\ MaxClock \in Nat /\ MaxAdds \in Nat
  BY RollingWindowAssumption
<1>2. Samples = {}
  BY DEF Samples, Init
<1>3. TypeOK
  <2>1. time \in Seq(Nat) /\ Len(time) = 0
    BY DEF Init
  <2>2. delay \in [1 .. Len(time) -> Nat]
    BY DEF Init
  <2>. QED BY <1>1, <2>1, <2>2 DEF Init, TypeOK, Slots
<1>. QED BY <1>2, <1>3 DEF Init, IInv, BucketsInv, SeenInv, Slots

\* The histories after an Add.
LEMMA RecordHistory ==
  ASSUME TypeOK, NEW d \in Nat,
         time' = Append(time, clock),
         delay' = [i \in 1 .. Len(time) + 1 |->
                     IF i <= Len(time) THEN delay[i] + d ELSE 0]
  PROVE  /\ time' \in Seq(Nat) /\ Len(time') = Len(time) + 1
         /\ delay' \in [1 .. Len(time') -> Nat]
         /\ Samples' = Samples \cup {Len(time) + 1}
         /\ \A i \in Samples : /\ time'[i] = time[i]
                               /\ delay'[i] = delay[i] + d
                               /\ Seen(i)' = Seen(i) + d
                               /\ Seen(i) \in Int /\ delay[i] \in Nat
                               /\ time[i] \in Nat
         /\ time'[Len(time) + 1] = clock /\ delay'[Len(time) + 1] = 0
         /\ \A i : i = Len(time) + 1 => Seen(i)' = clock
<1>1. /\ clock \in Nat /\ time \in Seq(Nat) /\ Len(time) \in Nat
      /\ delay \in [1 .. Len(time) -> Nat]
  BY RollingWindowAssumption DEF TypeOK
<1>2. /\ time' \in Seq(Nat) /\ Len(time') = Len(time) + 1
      /\ \A i \in 1 .. Len(time) : time'[i] = time[i] /\ time[i] \in Nat
      /\ time'[Len(time) + 1] = clock
  BY <1>1
<1>3. /\ \A i \in 1 .. Len(time) : delay'[i] = delay[i] + d /\ delay[i] \in Nat
      /\ delay'[Len(time) + 1] = 0
      /\ delay' \in [1 .. Len(time') -> Nat]
  BY <1>1, <1>2
<1>4. Samples' = Samples \cup {Len(time) + 1}
  BY <1>1, <1>2 DEF Samples
<1>5. ASSUME NEW i \in Samples
      PROVE  /\ time'[i] = time[i] /\ delay'[i] = delay[i] + d
             /\ Seen(i)' = Seen(i) + d
             /\ Seen(i) \in Int /\ delay[i] \in Nat /\ time[i] \in Nat
  <2>1. /\ time'[i] = time[i] /\ time[i] \in Nat
        /\ delay'[i] = delay[i] + d /\ delay[i] \in Nat
    BY <1>2, <1>3 DEF Samples
  <2>2. Seen(i)' = time'[i] + delay'[i] /\ Seen(i) = time[i] + delay[i]
    BY DEF Seen
  <2>. QED BY <2>1, <2>2
<1>6. ASSUME NEW i, i = Len(time) + 1 PROVE Seen(i)' = clock
  <2>1. Seen(i)' = time'[i] + delay'[i]
    BY DEF Seen
  <2>. QED BY <1>1, <1>2, <1>3, <1>6, <2>1
<1>. QED BY <1>2, <1>3, <1>4, <1>5, <1>6


\* With the lock free, Reduce sees exactly the samples of the abstract window.
LEMMA ReducedIsWindow ==
  ASSUME IInv, lock = "free"
  PROVE  Reduced = SW!Window
<1>1. /\ Size \in Nat /\ Size > 0 /\ offset \in 0 .. Size - 1
      /\ clock \in Nat /\ lastTime \in 0 .. clock /\ Base = lastTime
  BY RollingWindowAssumption DEF IInv, TypeOK, Slots, Base
<1>2. Reduced = UNION {buckets[s] : s \in {(First + i) % Size : i \in 0 .. Diff - 1}}
  BY DEF Reduced
<1>. DEFINE walked == {s \in Slots : /\ Age(s) < Size - Span
                                     /\ Span = 0 /\ IgnoreCurrent => Age(s) # 0}
<1>3. Reduced = UNION {buckets[s] : s \in walked}
  BY <1>2, WalkedSlots DEF IInv
<1>4. \A i \in Samples : /\ Seen(i) \in Int /\ Seen(i) <= lastTime
                         /\ Seen(i) = time[i] + delay[i]
  <2>1. \A i \in Samples : time[i] \in Nat /\ delay[i] \in Nat
    BY DEF IInv, TypeOK, Samples
  <2>. QED BY <1>1, <2>1 DEF IInv, SeenInv, Seen
<1>5. /\ Span \in 0 .. Size
      /\ Span < Size => Span = clock - lastTime
      /\ Span = Size => clock - lastTime >= Size
  BY SpanRange DEF IInv
<1>6. \A s \in Slots : Age(s) \in 0 .. Size - 1
  BY <1>1 DEF Slots, Age
<1>7. ASSUME NEW i \in Samples
      PROVE  (\E s \in walked : i \in buckets[s])
               <=> clock < Seen(i) + Size /\ (IgnoreCurrent => Seen(i) # clock)
  <2>1. ASSUME NEW s \in walked, i \in buckets[s]
        PROVE  clock < Seen(i) + Size /\ (IgnoreCurrent => Seen(i) # clock)
    <3>1. Seen(i) = lastTime - Age(s)
      BY <1>1, <2>1 DEF IInv, BucketsInv
    <3>2. Age(s) \in 0 .. Size - 1 /\ Age(s) < Size - Span
      BY <1>6, <2>1
    <3>3. Span = clock - lastTime
      BY <1>1, <1>5, <3>2
    <3>4. clock < Seen(i) + Size
      BY <1>1, <3>1, <3>2, <3>3
    <3>5. ASSUME Seen(i) = clock PROVE ~IgnoreCurrent
      <4>1. Span = 0 /\ Age(s) = 0
        BY <1>1, <1>5, <3>1, <3>2, <3>3, <3>5
      <4>. QED BY <2>1, <4>1
    <3>. QED BY <3>4, <3>5
  <2>2. ASSUME clock < Seen(i) + Size, IgnoreCurrent => Seen(i) # clock
        PROVE  \E s \in walked : i \in buckets[s]
    <3>1. Seen(i) \in Int /\ Seen(i) <= lastTime
      BY <1>4
    <3>2. Span = clock - lastTime /\ Span < Size
      BY <1>1, <1>5, <2>2, <3>1
    <3>. DEFINE age == lastTime - Seen(i)
                s   == IF age <= offset THEN offset - age
                                        ELSE offset - age + Size
    <3>3. age \in 0 .. Size - 1 /\ age < Size - Span
      BY <1>1, <2>2, <3>1, <3>2
    <3>4. s \in Slots /\ Age(s) = age
      BY <1>1, <3>3 DEF Slots, Age
    <3>5. i \in buckets[s]
      BY <1>1, <3>1, <3>4 DEF IInv, BucketsInv
    <3>6. Span = 0 /\ IgnoreCurrent => Age(s) # 0
      <4>1. Span = 0 /\ Age(s) = 0 => Seen(i) = clock
        BY <1>1, <3>1, <3>2, <3>4
      <4>. QED BY <2>2, <4>1
    <3>. HIDE DEF s, age
    <3>7. s \in walked
      <4>1. Age(s) < Size - Span
        BY <3>3, <3>4
      <4>. QED BY <3>4, <3>6, <4>1
    <3>. QED BY <3>5, <3>7
  <2>. QED BY <2>1, <2>2
<1>8. \A s \in walked : buckets[s] \subseteq Samples
  BY DEF IInv, BucketsInv
<1>9. SW!Window = {i \in Samples : clock < Seen(i) + Size
                                     /\ (IgnoreCurrent => Seen(i) # clock)}
  BY DEF SW!Window, Samples, Seen
<1>. HIDE DEF walked
<1>. QED BY <1>3, <1>7, <1>8, <1>9

LEMMA NextTypeOK == IInv /\ [Next]_vars => TypeOK'
<1>. SUFFICES ASSUME IInv, TypeOK, [Next]_vars PROVE TypeOK'
  BY DEF IInv
<1>0. /\ Size \in Nat /\ Size > 0 /\ MaxClock \in Nat /\ MaxAdds \in Nat
      /\ clock \in Nat /\ lastTime \in 0 .. clock /\ Len(time) \in Nat
      /\ answer \subseteq 1 .. Len(time) /\ offset \in Slots
      /\ buckets \in [Slots -> SUBSET (1 .. MaxAdds)]
  BY RollingWindowAssumption DEF TypeOK
<1>1. CASE UNCHANGED vars
  BY <1>1 DEF vars, ring, TypeOK
<1>2. ASSUME NEW d \in Nat, Record(buckets, d),
             lastTime' \in 0 .. clock, lock' = "free", readAt' = 0 \/ UNCHANGED readAt
      PROVE  TypeOK'
  <2>1. /\ time' \in Seq(Nat) /\ Len(time') = Len(time) + 1
        /\ delay' \in [1 .. Len(time') -> Nat]
    BY <1>2, RecordHistory DEF Record
  <2>2. buckets' \in [Slots -> SUBSET (1 .. MaxAdds)]
    BY <1>0, <1>2 DEF Record
  <2>3. Len(time') <= MaxAdds /\ UNCHANGED <<clock, offset, answer>>
    BY <1>0, <1>2, <2>1 DEF Record
  <2>4. answer' \subseteq 1 .. Len(time')
    BY <1>0, <2>1, <2>3
  <2>. QED BY <1>0, <1>2, <2>1, <2>2, <2>3, <2>4 DEF TypeOK
<1>3. CASE AddInPlace
  BY <1>0, <1>2, <1>3 DEF AddInPlace, TypeOK
<1>4. CASE AddMoveOffset
  <2>1. offset' \in Slots
    <3>1. offset' = (offset + Span) % Size
      BY <1>4 DEF AddMoveOffset
    <3>. QED BY <3>1, SpanRange, MovedAge
  <2>2. buckets' \in [Slots -> SUBSET (1 .. MaxAdds)]
    BY <1>0, <1>4 DEF AddMoveOffset
  <2>. QED BY <1>0, <1>4, <2>1, <2>2 DEF AddMoveOffset, TypeOK
<1>5. CASE AddSetLastTime
  <2>1. clock - readAt \in Nat
    BY <1>0 DEF TypeOK
  <2>. QED BY <1>0, <1>2, <1>5, <2>1 DEF AddSetLastTime
<1>6. CASE Reduce
  <2>1. SW!Window \subseteq 1 .. Len(time)
    BY DEF SW!Window
  <2>2. answer' \subseteq 1 .. Len(time)
    BY <1>6, <2>1, ReducedIsWindow DEF Reduce
  <2>. QED BY <1>6, <2>2 DEF Reduce, ring, TypeOK
<1>7. CASE Tick
  BY <1>0, <1>7 DEF Tick, ring, TypeOK
<1>. QED BY <1>1, <1>3, <1>4, <1>5, <1>6, <1>7 DEF Next


\* The sample enters the bucket of the current interval.
LEMMA RecordRing ==
  ASSUME IInv, NEW d \in Nat, Record(buckets, d),
         lock' = "free", lastTime' = clock, clock = Base + d,
         lock = "moving" \/ d = 0
  PROVE  BucketsInv' /\ SeenInv'
<1>. DEFINE new == Len(time) + 1
<1>0. /\ Size \in Nat /\ Size > 0 /\ offset \in Slots /\ Base \in Nat
      /\ buckets \in [Slots -> SUBSET (1 .. MaxAdds)] /\ Len(time) \in Nat
      /\ clock \in Nat
  BY RollingWindowAssumption DEF IInv, TypeOK, Base
<1>1. /\ Samples' = Samples \cup {new}
      /\ \A i \in Samples : /\ Seen(i)' = Seen(i) + d /\ delay'[i] = delay[i] + d
                            /\ Seen(i) \in Int /\ delay[i] \in Nat
      /\ \A i : i = new => Seen(i)' = clock /\ delay'[i] = 0
      /\ \A i \in Samples : i # new
  <2>1. time' = Append(time, clock) /\ delay' = [i \in 1 .. Len(time) + 1 |->
                     IF i <= Len(time) THEN delay[i] + d ELSE 0]
    BY DEF Record
  <2>2. TypeOK
    BY DEF IInv
  <2>3. /\ Samples' = Samples \cup {new}
        /\ \A i \in Samples : /\ Seen(i)' = Seen(i) + d
                              /\ delay'[i] = delay[i] + d
                              /\ Seen(i) \in Int /\ delay[i] \in Nat
        /\ delay'[new] = 0
        /\ \A i : i = new => Seen(i)' = clock
    BY <2>1, <2>2, RecordHistory
  <2>4. \A i \in Samples : i # new
    BY <1>0 DEF Samples
  <2>. HIDE DEF new
  <2>. QED BY <2>3, <2>4
<1>2. Base' = clock
  BY <1>0 DEF Record, Base
<1>3. /\ buckets' = [buckets EXCEPT ![offset] = buckets[offset] \cup {new}]
      /\ UNCHANGED offset
  BY DEF Record
<1>. HIDE DEF new
<1>4. \A s \in Slots : Age(s)' = Age(s) /\ Age(s) \in 0 .. Size - 1
                       /\ (Age(s) = 0 <=> s = offset)
  BY <1>0, <1>3 DEF Age, Slots
<1>5. BucketsInv'
  <2>. SUFFICES ASSUME NEW s \in Slots
                PROVE  buckets'[s] = {i \in Samples' : Seen(i)' = clock - Age(s)}
    BY <1>2, <1>4 DEF BucketsInv, Slots
  <2>1. buckets[s] = {i \in Samples : Seen(i) = Base - Age(s)}
    BY DEF IInv, BucketsInv
  <2>2. \A i \in Samples : Seen(i)' = clock - Age(s) <=> Seen(i) = Base - Age(s)
    BY <1>0, <1>1, <1>4
  <2>3. \A i : i = new => (Seen(i)' = clock - Age(s) <=> s = offset)
    BY <1>0, <1>1, <1>4
  <2>4. buckets'[s] = IF s = offset THEN buckets[s] \cup {new} ELSE buckets[s]
    BY <1>0, <1>3
  <2>. QED BY <1>1, <2>1, <2>2, <2>3, <2>4
<1>6. SeenInv'
  <2>. SUFFICES ASSUME NEW i \in Samples'
                PROVE  Seen(i)' <= clock /\ (Seen(i)' = clock => delay'[i] = 0)
    BY <1>2 DEF SeenInv
  <2>1. CASE i = new
    BY <1>0, <1>1, <2>1
  <2>2. CASE i \in Samples
    <3>1. /\ Seen(i) <= Base
          /\ Seen(i) = Base => delay[i] = 0
          /\ lock = "moving" => Seen(i) < Base
      BY <2>2 DEF IInv, SeenInv
    <3>2. /\ Seen(i)' = Seen(i) + d /\ delay'[i] = delay[i] + d
          /\ Seen(i) \in Int /\ delay[i] \in Nat
      BY <1>1, <2>2
    <3>3. Seen(i)' <= clock
      BY <1>0, <3>1, <3>2
    <3>4. ASSUME Seen(i)' = clock PROVE delay'[i] = 0
      <4>1. Seen(i) = Base
        BY <1>0, <3>2, <3>4
      <4>2. d = 0
        BY <1>0, <3>1, <4>1
      <4>. QED BY <3>1, <3>2, <4>1, <4>2
    <3>. QED BY <3>3, <3>4
  <2>. QED BY <1>1, <2>1, <2>2
<1>. QED BY <1>5, <1>6


LEMMA NextRing == IInv /\ [Next]_vars => BucketsInv' /\ SeenInv'
<1>. SUFFICES ASSUME IInv, [Next]_vars PROVE BucketsInv' /\ SeenInv'
  OBVIOUS
<1>0. /\ Size \in Nat /\ Size > 0 /\ offset \in Slots
      /\ clock \in Nat /\ lastTime \in 0 .. clock /\ readAt \in 0 .. clock
      /\ lock \in {"free", "moving"}
      /\ buckets \in [Slots -> SUBSET (1 .. MaxAdds)]
  BY RollingWindowAssumption DEF IInv, TypeOK
<1>1. ASSUME UNCHANGED <<ring, lock, readAt, time, delay>>
      PROVE  BucketsInv' /\ SeenInv'
  <2>1. /\ buckets' = buckets /\ offset' = offset /\ lastTime' = lastTime
        /\ lock' = lock /\ readAt' = readAt /\ time' = time /\ delay' = delay
    BY <1>1 DEF ring
  <2>2. Base' = Base /\ Samples' = Samples
    BY <2>1 DEF Base, Samples
  <2>3. \A i \in Samples : Seen(i)' = Seen(i)
    BY <2>1 DEF Seen
  <2>4. \A s \in Slots : Age(s)' = Age(s)
    BY <2>1 DEF Age
  <2>5. BucketsInv'
    BY <2>1, <2>2, <2>3, <2>4 DEF IInv, BucketsInv, Slots
  <2>6. SeenInv'
    BY <2>1, <2>2, <2>3 DEF IInv, SeenInv
  <2>. QED BY <2>5, <2>6
<1>2. CASE AddInPlace
  <2>1. lastTime = clock
    BY <1>0, <1>2, SpanRange DEF AddInPlace, IInv
  <2>2. lock' = "free" /\ lastTime' = clock /\ Base = lastTime
    BY <1>2, <2>1 DEF AddInPlace, Base
  <2>. QED BY <1>0, <1>2, <2>1, <2>2, RecordRing DEF AddInPlace
<1>3. CASE AddSetLastTime
  <2>1. clock - readAt \in Nat /\ clock = Base + (clock - readAt)
    BY <1>0, <1>3 DEF AddSetLastTime, Base
  <2>. QED BY <1>3, <2>1, RecordRing DEF AddSetLastTime
<1>4. CASE AddMoveOffset
  <2>. DEFINE k == Span
  <2>1. /\ k \in 0 .. Size
        /\ k < Size => k = clock - lastTime
        /\ k = Size => clock - lastTime >= Size
    BY SpanRange DEF IInv
  <2>2. /\ k > 0
        /\ buckets' = [s \in Slots |->
                         IF s \in {(offset + i + 1) % Size : i \in 0 .. k - 1}
                         THEN {} ELSE buckets[s]]
        /\ offset' = (offset + k) % Size
        /\ lock = "free" /\ lock' = "moving" /\ readAt' = clock
        /\ UNCHANGED <<time, delay>>
    BY <1>4 DEF AddMoveOffset
  <2>. HIDE DEF k
  <2>3. /\ Base = lastTime /\ Base' = clock
        /\ Samples' = Samples /\ \A i \in Samples : Seen(i)' = Seen(i)
    BY <2>2 DEF Base, Samples, Seen
  <2>4. \A i \in Samples : Seen(i) \in Int /\ Seen(i) <= lastTime
    <3>1. \A i \in Samples : time[i] \in Nat /\ delay[i] \in Nat
      BY DEF IInv, TypeOK, Samples
    <3>. QED BY <2>3, <3>1 DEF IInv, SeenInv, Seen
  <2>5. ASSUME NEW s \in Slots
        PROVE  /\ Age(s) \in 0 .. Size - 1
               /\ Age(s)' = IF Age(s) >= Size - k THEN Age(s) - (Size - k)
                                                  ELSE Age(s) + k
               /\ buckets'[s] = IF Age(s) >= Size - k THEN {} ELSE buckets[s]
               /\ buckets[s] = {i \in Samples : Seen(i) = lastTime - Age(s)}
    <3>1. Age(s) \in 0 .. Size - 1
      BY <1>0 DEF Age, Slots
    <3>2. Age(s)' = IF Age(s) >= Size - k THEN Age(s) - (Size - k)
                                          ELSE Age(s) + k
      BY <2>1, <2>2, MovedAge DEF IInv
    <3>3. s \in {(offset + i + 1) % Size : i \in 0 .. k - 1} <=> Age(s) >= Size - k
      BY <2>1, ExpiredSlots DEF IInv
    <3>4. buckets'[s] = IF Age(s) >= Size - k THEN {} ELSE buckets[s]
      BY <2>2, <3>3
    <3>5. buckets[s] = {i \in Samples : Seen(i) = lastTime - Age(s)}
      BY <2>3 DEF IInv, BucketsInv
    <3>. QED BY <3>1, <3>2, <3>4, <3>5
  <2>6. BucketsInv'
    <3>. SUFFICES ASSUME NEW s \in Slots
                  PROVE  buckets'[s] = {i \in Samples : Seen(i) = clock - Age(s)'}
      BY <2>3 DEF BucketsInv, Slots
    <3>1. CASE Age(s) >= Size - k
      <4>1. \A i \in Samples : Seen(i) # clock - Age(s)'
        BY <1>0, <2>1, <2>2, <2>4, <2>5, <3>1
      <4>. QED BY <2>5, <3>1, <4>1
    <3>2. CASE ~(Age(s) >= Size - k)
      <4>1. clock - Age(s)' = lastTime - Age(s)
        BY <1>0, <2>1, <2>5, <3>2
      <4>. QED BY <2>5, <3>2, <4>1
    <3>. QED BY <3>1, <3>2
  <2>7. SeenInv'
    <3>1. lastTime < clock
      BY <1>0, <2>1, <2>2
    <3>. QED BY <1>0, <2>2, <2>3, <2>4, <3>1 DEF SeenInv
  <2>. QED BY <2>6, <2>7
<1>5. CASE Reduce
  BY <1>1, <1>5 DEF Reduce
<1>6. CASE Tick
  BY <1>1, <1>6 DEF Tick
<1>7. CASE UNCHANGED vars
  BY <1>1, <1>7 DEF vars
<1>. QED BY <1>2, <1>3, <1>4, <1>5, <1>6, <1>7 DEF Next

-----------------------------------------------------------------------------
(* The theorems.                                                           *)

LEMMA Invariance == Spec => []IInv
<1>1. IInv /\ [Next]_vars => IInv'
  BY NextTypeOK, NextRing DEF IInv
<1>. QED BY <1>1, InitInv, PTL DEF Spec

\* The ring and its histories have their types in every reachable state, for
\* every size of the ring.
THEOREM TypeCorrect == Spec => []TypeOK
<1>1. IInv => TypeOK
  BY DEF IInv
<1>. QED BY <1>1, Invariance, PTL

\* No sample of the last Size intervals is missing from a Reduce, whatever the
\* size of the ring and however long Adds take.
THEOREM NothingIsLost == Spec => []NothingLost
<1>1. IInv => NothingLost
  <2>. SUFFICES ASSUME IInv, lock = "free",
                       NEW i \in Samples, clock < time[i] + Size,
                       IgnoreCurrent => time[i] # clock
                PROVE  i \in Reduced
    BY DEF NothingLost, Samples
  <2>1. /\ time[i] \in Nat /\ delay[i] \in Nat /\ clock \in Nat
        /\ lastTime \in 0 .. clock /\ Size \in Nat /\ Seen(i) = time[i] + delay[i]
    BY RollingWindowAssumption DEF IInv, TypeOK, Samples, Seen
  <2>2. Seen(i) <= lastTime /\ (Seen(i) = lastTime => delay[i] = 0)
    BY DEF IInv, SeenInv, Base
  <2>3. clock < Seen(i) + Size
    BY <2>1
  <2>4. Seen(i) = clock => time[i] = clock
    BY <2>1, <2>2
  <2>5. i \in SW!Window
    BY <2>3, <2>4 DEF SW!Window, Samples, Seen
  <2>. QED BY <2>5, ReducedIsWindow
<1>. QED BY <1>1, Invariance, PTL

\* The comment in Reduce (rollingwindow.go:77) is right but for one race: expired
\* samples are never counted as long as no interval begins between the two clock
\* reads of an Add that moves the ring.
THEOREM ExpiredOnlyByRace ==
  Spec /\ [][AddSetLastTime => clock = readAt]_vars => []ExpiredNotCounted
<1>. DEFINE Punctual == \A i \in Samples : delay[i] = 0
<1>1. Init => Punctual
  BY DEF Init, Samples
<1>2. IInv /\ Punctual /\ [Next]_vars /\ [AddSetLastTime => clock = readAt]_vars
        => Punctual'
  <2>. SUFFICES ASSUME IInv, Punctual, [Next]_vars,
                       [AddSetLastTime => clock = readAt]_vars
                PROVE  Punctual'
    OBVIOUS
  <2>1. ASSUME Record(buckets, 0) PROVE Punctual'
    <3>1. /\ TypeOK /\ 0 \in Nat
          /\ time' = Append(time, clock)
          /\ delay' = [i \in 1 .. Len(time) + 1 |->
                          IF i <= Len(time) THEN delay[i] + 0 ELSE 0]
      BY <2>1 DEF IInv, Record
    <3>2. /\ Samples' = Samples \cup {Len(time) + 1}
          /\ \A i \in Samples : delay'[i] = delay[i] + 0 /\ delay[i] \in Nat
          /\ delay'[Len(time) + 1] = 0
      BY <3>1, RecordHistory
    <3>. QED BY <3>2
  <2>2. CASE AddInPlace
    BY <2>1, <2>2 DEF AddInPlace
  <2>3. CASE AddSetLastTime
    <3>1. time' # time /\ clock \in Int
      <4>1. Len(time') = Len(time) + 1 /\ Len(time) \in Nat /\ clock \in Int
        BY <2>3, RollingWindowAssumption DEF IInv, TypeOK, AddSetLastTime, Record
      <4>. QED BY <4>1
    <3>2. clock = readAt
      BY <2>3, <3>1 DEF vars
    <3>3. Record(buckets, 0)
      BY <2>3, <3>1, <3>2 DEF AddSetLastTime
    <3>. QED BY <2>1, <3>3
  <2>4. CASE AddMoveOffset \/ Reduce \/ Tick \/ UNCHANGED vars
    BY <2>4 DEF AddMoveOffset, Reduce, Tick, vars, Samples
  <2>. QED BY <2>2, <2>3, <2>4 DEF Next
<1>3. IInv /\ Punctual => ExpiredNotCounted
  <2>. SUFFICES ASSUME IInv, Punctual, lock = "free", NEW i \in Reduced
                PROVE  clock < time[i] + Size
    BY DEF ExpiredNotCounted
  <2>1. i \in Samples /\ clock < Seen(i) + Size
    BY ReducedIsWindow DEF SW!Window, Samples, Seen
  <2>2. delay[i] = 0 /\ time[i] \in Nat
    BY <2>1 DEF IInv, TypeOK, Samples
  <2>. QED BY <2>1, <2>2 DEF Seen
<1>. HIDE DEF Punctual
<1>. QED BY <1>1, <1>2, <1>3, Invariance, PTL DEF Spec

\* The ring of buckets implements the window of samples: for every size of the
\* ring, with and without IgnoreCurrentBucket.
THEOREM RingImplementsWindow == Spec => ImplementsSampleWindow
<1>1. Init => SW!Init
  BY DEF Init, SW!Init
<1>2. IInv /\ [Next]_vars => [SW!Next]_(SW!vars)
  <2>. SUFFICES ASSUME IInv, [Next]_vars PROVE SW!Next \/ UNCHANGED SW!vars
    OBVIOUS
  <2>0. clock \in Nat /\ readAt \in 0 .. clock
    BY RollingWindowAssumption DEF IInv, TypeOK
  <2>1. ASSUME NEW d \in 0 .. clock, Record(buckets, d) PROVE SW!Next
    <3>1. SW!Add(d)
      BY <2>1 DEF Record, SW!Add
    <3>. QED BY <3>1 DEF SW!Next
  <2>2. CASE AddInPlace
    BY <2>0, <2>1, <2>2 DEF AddInPlace
  <2>3. CASE AddSetLastTime
    <3>1. clock - readAt \in 0 .. clock
      BY <2>0
    <3>. QED BY <2>1, <2>3, <3>1 DEF AddSetLastTime
  <2>4. CASE AddMoveOffset
    BY <2>4 DEF AddMoveOffset, SW!vars
  <2>5. CASE Reduce
    BY <2>5, ReducedIsWindow DEF Reduce, SW!Next, SW!Reduce
  <2>6. CASE Tick
    BY <2>6 DEF Tick, SW!Next, SW!Tick
  <2>7. CASE UNCHANGED vars
    BY <2>7 DEF vars, SW!vars
  <2>. QED BY <2>2, <2>3, <2>4, <2>5, <2>6, <2>7 DEF Next
<1>. QED BY <1>1, <1>2, Invariance, PTL DEF Spec, SW!Spec, ImplementsSampleWindow

-----------------------------------------------------------------------------
(* What the ring counts. Which samples are successes does not matter to    *)
(* the ring, so Good stands for any choice of them.                        *)

CONSTANT Good  \* the samples of value 1; all others are of value 0

\* The clock the ring goes by: while an Add is between its reads it stands still.
RingClock == IF lock = "free" THEN clock ELSE readAt

\* The samples that look a intervals old.
Aged(a) == {i \in Samples : RingClock - Seen(i) = a}

CountSeen == [a \in Slots |-> Cardinality(Aged(a))]
SumSeen   == [a \in Slots |-> Cardinality(Aged(a) \cap Good)]

Counts == INSTANCE CountWindow
            WITH Intervals <- Size, sum <- SumSeen, count <- CountSeen

LEMMA AgedFinite ==
  ASSUME TypeOK, NEW a
  PROVE  /\ IsFiniteSet(Aged(a)) /\ Cardinality(Aged(a)) \in Nat
         /\ IsFiniteSet(Aged(a) \cap Good) /\ Cardinality(Aged(a) \cap Good) \in Nat
<1>1. IsFiniteSet(Samples)
  BY FS_Interval DEF Samples, TypeOK
<1>2. Aged(a) \subseteq Samples /\ Aged(a) \cap Good \subseteq Samples
  BY DEF Aged
<1>. QED BY <1>1, <1>2, FS_Subset, FS_CardinalityType

\* A step that adds no sample and leaves all ages alone is not seen.
LEMMA SameAges ==
  ASSUME \A a \in Slots : Aged(a)' = Aged(a)
  PROVE  CountSeen' = CountSeen /\ SumSeen' = SumSeen
  BY DEF CountSeen, SumSeen

\* An Add is one Mark, of whichever value the sample has.
LEMMA RecordMarks ==
  ASSUME IInv, NEW d \in Nat,
         lock' = "free", clock' = clock,
         RingClock + d = clock,
         time' = Append(time, clock),
         delay' = [i \in 1 .. Len(time) + 1 |->
                     IF i <= Len(time) THEN delay[i] + d ELSE 0]
  PROVE  Counts!Mark(0) \/ Counts!Mark(1)
<1>. PICK n : n = Len(time) + 1
  OBVIOUS
<1>0. TypeOK /\ 0 \in Slots /\ clock \in Nat /\ RingClock \in Int /\ RingClock' = clock
  BY RollingWindowAssumption DEF IInv, TypeOK, Slots, RingClock
<1>1. /\ n \notin Samples /\ Samples' = Samples \cup {n} /\ Seen(n)' = clock
      /\ \A i \in Samples : Seen(i)' = Seen(i) + d /\ Seen(i) \in Int
  <2>1. n \notin Samples
    BY <1>0 DEF Samples, TypeOK
  <2>. QED BY <1>0, <2>1, RecordHistory
<1>2. \A i \in Samples : RingClock' - Seen(i)' = RingClock - Seen(i)
  BY <1>0, <1>1
<1>3. RingClock' - Seen(n)' = 0
  BY <1>0, <1>1
<1>4. Aged(0)' = Aged(0) \cup {n} /\ n \notin Aged(0)
  BY <1>1, <1>2, <1>3 DEF Aged
<1>5. \A a \in Slots : a # 0 => Aged(a)' = Aged(a)
  BY <1>1, <1>2, <1>3 DEF Aged
<1>6. Cardinality(Aged(0)') = Cardinality(Aged(0)) + 1
  BY <1>0, <1>4, AgedFinite, FS_AddElement
<1>7. Cardinality(Aged(0)' \cap Good)
        = Cardinality(Aged(0) \cap Good) + (IF n \in Good THEN 1 ELSE 0)
  <2>1. CASE n \in Good
    <3>1. Aged(0)' \cap Good = (Aged(0) \cap Good) \cup {n} /\ n \notin Aged(0) \cap Good
      BY <1>4, <2>1
    <3>. QED BY <1>0, <2>1, <3>1, AgedFinite, FS_AddElement
  <2>2. CASE n \notin Good
    <3>1. Aged(0)' \cap Good = Aged(0) \cap Good
      BY <1>4, <2>2
    <3>2. Cardinality(Aged(0) \cap Good) \in Nat
      BY <1>0, AgedFinite
    <3>3. Cardinality(Aged(0)' \cap Good) = Cardinality(Aged(0) \cap Good)
      BY <3>1
    <3>. QED BY <2>2, <3>2, <3>3
  <2>. QED BY <2>1, <2>2
<1>8. CountSeen' = [CountSeen EXCEPT ![0] = @ + 1]
  BY <1>0, <1>5, <1>6 DEF CountSeen
<1>9. SumSeen' = [SumSeen EXCEPT ![0] = @ + (IF n \in Good THEN 1 ELSE 0)]
  BY <1>0, <1>5, <1>7 DEF SumSeen
<1>. QED BY <1>8, <1>9 DEF Counts!Mark

\* An interval boundary that the ring notices makes all samples one older.
LEMMA TickSlides ==
  ASSUME IInv, Tick, lock = "free"
  PROVE  Counts!Slide
<1>0. /\ TypeOK /\ Size \in Nat /\ clock \in Nat /\ lastTime \in 0 .. clock
      /\ RingClock = clock /\ RingClock' = clock + 1
      /\ Slots' = Slots
  BY RollingWindowAssumption DEF IInv, TypeOK, RingClock, Tick
<1>1. Samples' = Samples /\ \A i \in Samples : Seen(i)' = Seen(i) /\ Seen(i) \in Int
  <2>1. \A i \in Samples : time[i] \in Nat /\ delay[i] \in Nat
    BY <1>0 DEF TypeOK, Samples
  <2>. QED BY <2>1 DEF Tick, Samples, Seen
<1>2. \A i \in Samples : Seen(i) <= clock
  BY <1>0, <1>1 DEF IInv, SeenInv, Base
<1>3. Aged(0)' = {}
  BY <1>0, <1>1, <1>2 DEF Aged
<1>4. \A a \in Slots : a # 0 => a - 1 \in Slots /\ Aged(a)' = Aged(a - 1)
  BY <1>0, <1>1 DEF Aged, Slots
<1>5. Cardinality(Aged(0)') = 0 /\ Cardinality(Aged(0)' \cap Good) = 0
  BY <1>3, FS_EmptySet
<1>6. CountSeen' = [a \in Slots |-> IF a = 0 THEN 0 ELSE CountSeen[a - 1]]
  BY <1>4, <1>5 DEF CountSeen
<1>7. SumSeen' = [a \in Slots |-> IF a = 0 THEN 0 ELSE SumSeen[a - 1]]
  BY <1>4, <1>5 DEF SumSeen
<1>. QED BY <1>6, <1>7 DEF Counts!Slide, Counts!Ages, Slots

\* The ring of buckets implements the window the breaker counts with, whichever
\* samples are successes: each Add is one sample of age 0, and each interval
\* boundary makes every sample one older, the expired ones vanishing by
\* themselves. A boundary within the move of an Add goes unnoticed.
THEOREM RingImplementsCounts == Spec => Counts!WindowSpec
<1>1. Init => Counts!WindowInit
  <2>. SUFFICES ASSUME Init PROVE Counts!WindowInit
    OBVIOUS
  <2>1. \A a : Aged(a) = {}
    BY DEF Init, Aged, Samples
  <2>2. \A a : Cardinality(Aged(a)) = 0 /\ Cardinality(Aged(a) \cap Good) = 0
    BY <2>1, FS_EmptySet
  <2>. QED BY <2>2 DEF CountSeen, SumSeen, Counts!WindowInit, Counts!Ages, Slots
<1>2. IInv /\ [Next]_vars => [Counts!WindowNext]_(Counts!window)
  <2>. SUFFICES ASSUME IInv, [Next]_vars
                PROVE  Counts!WindowNext \/ UNCHANGED Counts!window
    OBVIOUS
  <2>0. /\ clock \in Nat /\ readAt \in 0 .. clock
        /\ lock \in {"free", "moving"}
    BY RollingWindowAssumption DEF IInv, TypeOK
  <2>1. ASSUME \A a \in Slots : Aged(a)' = Aged(a) PROVE UNCHANGED Counts!window
    BY <2>1, SameAges DEF Counts!window
  <2>2. ASSUME RingClock' = RingClock, time' = time, delay' = delay
        PROVE  UNCHANGED Counts!window
    BY <2>1, <2>2 DEF Aged, Samples, Seen
  <2>3. CASE AddInPlace
    <3>1. RingClock + 0 = clock /\ lock' = "free" /\ clock' = clock
      BY <2>0, <2>3 DEF AddInPlace, Record, RingClock
    <3>. QED BY <2>3, <3>1, RecordMarks DEF AddInPlace, Record, Counts!WindowNext
  <2>4. CASE AddMoveOffset
    BY <2>2, <2>4 DEF AddMoveOffset, RingClock
  <2>5. CASE AddSetLastTime
    <3>1. /\ clock - readAt \in Nat /\ RingClock + (clock - readAt) = clock
          /\ lock' = "free" /\ clock' = clock
      BY <2>0, <2>5 DEF AddSetLastTime, Record, RingClock
    <3>. QED BY <2>5, <3>1, RecordMarks DEF AddSetLastTime, Record, Counts!WindowNext
  <2>6. CASE Reduce
    BY <2>2, <2>6 DEF Reduce, RingClock
  <2>7. CASE Tick
    <3>1. CASE lock = "free"
      BY <2>7, <3>1, TickSlides DEF Counts!WindowNext
    <3>2. CASE lock # "free"
      BY <2>2, <2>7, <3>2 DEF Tick, RingClock
    <3>. QED BY <3>1, <3>2
  <2>8. CASE UNCHANGED vars
    BY <2>2, <2>8 DEF vars, RingClock
  <2>. QED BY <2>3, <2>4, <2>5, <2>6, <2>7, <2>8 DEF Next
<1>. QED BY <1>1, <1>2, Invariance, PTL DEF Spec, Counts!WindowSpec

\* Adding up per interval how many members of a finite set belong to it counts
\* the set.
LEMMA TotalCounts ==
  ASSUME NEW S, IsFiniteSet(S), NEW age \in [S -> Slots],
         NEW f, f = [a \in Slots |-> Cardinality({i \in S : age[i] = a})]
  PROVE  Total(f) = Cardinality(S)
<1>. DEFINE At(a)   == {i \in S : age[i] = a}
            Upto(a) == 1 .. f[a]
            number  == [a \in Slots |-> CHOOSE g : g \in Bijection(At(a), Upto(a))]
            Cells   == UNION {{a} \X Upto(a) : a \in Slots}
            F       == [i \in S |-> <<age[i], number[age[i]][i]>>]
<1>1. ASSUME NEW a \in Slots PROVE number[a] \in Bijection(At(a), Upto(a))
  <2>1. IsFiniteSet(At(a)) /\ f[a] = Cardinality(At(a))
    BY FS_Subset
  <2>2. ExistsBijection(At(a), Upto(a))
    BY <2>1, FS_CardinalityType, Fun_ExistsBijSymmetric
  <2>. QED BY <2>2 DEF ExistsBijection
<1>. HIDE DEF number, Upto
<1>2. ASSUME NEW a \in Slots
      PROVE  /\ number[a] \in [At(a) -> Upto(a)]
             /\ \A i, j \in At(a) : number[a][i] = number[a][j] => i = j
             /\ \A n \in Upto(a) : \E i \in At(a) : number[a][i] = n
  <2>. DEFINE g == number[a]  T == At(a)
  <2>1. g \in Bijection(T, Upto(a))
    BY <1>1
  <2>. HIDE DEF g, T
  <2>2. /\ g \in [T -> Upto(a)]
        /\ \A i, j \in T : g[i] = g[j] => i = j
        /\ \A n \in Upto(a) : \E i \in T : g[i] = n
    BY <2>1, Fun_BijectionProperties
  <2>. QED BY <2>2 DEF g, T
<1>3. ASSUME NEW i \in S
      PROVE  age[i] \in Slots /\ F[i] = <<age[i], number[age[i]][i]>> /\ F[i] \in Cells
  <2>1. age[i] \in Slots /\ i \in At(age[i])
    OBVIOUS
  <2>2. number[age[i]] \in [At(age[i]) -> Upto(age[i])]
    BY <1>2, <2>1
  <2>3. number[age[i]][i] \in Upto(age[i])
    BY <2>1, <2>2
  <2>. QED BY <2>1, <2>3
<1>4. ASSUME NEW i \in S, NEW j \in S, F[i] = F[j] PROVE i = j
  <2>1. age[i] = age[j] /\ number[age[i]][i] = number[age[i]][j]
    BY <1>3, <1>4
  <2>2. i \in At(age[i]) /\ j \in At(age[i])
    BY <2>1
  <2>. QED BY <1>2, <1>3, <2>1, <2>2
<1>5. ASSUME NEW c \in Cells PROVE \E i \in S : F[i] = c
  <2>1. PICK a \in Slots : c \in {a} \X Upto(a)
    OBVIOUS
  <2>2. PICK n \in Upto(a) : c = <<a, n>>
    BY <2>1
  <2>3. PICK i \in At(a) : number[a][i] = n
    BY <1>2
  <2>. QED BY <2>2, <2>3
<1>. HIDE DEF F, Cells
<1>6. ExistsBijection(S, Cells)
  <2>1. F \in [S -> Cells]
    BY <1>3 DEF F
  <2>2. F \in Bijection(S, Cells)
    BY <1>4, <1>5, <2>1, Fun_IsBij
  <2>. QED BY <2>2 DEF ExistsBijection
<1>7. Cardinality(Cells) = Cardinality(S)
  BY <1>6, FS_Bijection
<1>8. DOMAIN f = Slots
  OBVIOUS
<1>. QED BY <1>7, <1>8 DEF Cells, Upto, Total

\* What the breaker reads in one Reduce, its accepts and total, is the number of
\* samples that Reduce returns, and of the successes among them: History loses
\* no sample and counts none twice.
THEOREM HistoryCounts ==
  Spec => [](lock = "free" /\ ~ IgnoreCurrent =>
               /\ Total(CountSeen) = Cardinality(Reduced)
               /\ Total(SumSeen) = Cardinality(Reduced \cap Good))
<1>. DEFINE Claim == lock = "free" /\ ~ IgnoreCurrent =>
                       /\ Total(CountSeen) = Cardinality(Reduced)
                       /\ Total(SumSeen) = Cardinality(Reduced \cap Good)
<1>1. IInv => Claim
  <2>. SUFFICES ASSUME IInv, lock = "free", ~ IgnoreCurrent
                PROVE  /\ Total(CountSeen) = Cardinality(Reduced)
                       /\ Total(SumSeen) = Cardinality(Reduced \cap Good)
    OBVIOUS
  <2>0. /\ TypeOK /\ clock \in Nat /\ lastTime \in 0 .. clock /\ Size \in Nat
        /\ RingClock = clock /\ Len(time) \in Nat
    BY RollingWindowAssumption DEF IInv, TypeOK, RingClock
  <2>1. \A i \in Samples : Seen(i) \in Int /\ Seen(i) <= clock
    <3>1. \A i \in Samples : time[i] \in Nat /\ delay[i] \in Nat
      BY <2>0 DEF TypeOK, Samples
    <3>. QED BY <2>0, <3>1 DEF IInv, SeenInv, Base, Seen
  <2>2. Reduced = {i \in Samples : clock < Seen(i) + Size}
    BY ReducedIsWindow DEF SW!Window, Samples, Seen
  <2>3. IsFiniteSet(Reduced) /\ IsFiniteSet(Reduced \cap Good)
    <3>1. IsFiniteSet(Samples)
      BY <2>0, FS_Interval DEF Samples
    <3>. QED BY <2>2, <3>1, FS_Subset
  <2>4. \A i \in Reduced : clock - Seen(i) \in Slots
    BY <2>0, <2>1, <2>2 DEF Slots
  <2>5. \A a \in Slots : Aged(a) = {i \in Reduced : clock - Seen(i) = a}
    BY <2>0, <2>1, <2>2 DEF Aged, Slots
  <2>. DEFINE age == [i \in Reduced |-> clock - Seen(i)]
  <2>6. Total(CountSeen) = Cardinality(Reduced)
    <3>1. \A a \in Slots : Aged(a) = {i \in Reduced : age[i] = a}
      BY <2>5
    <3>2. CountSeen = [a \in Slots |-> Cardinality({i \in Reduced : age[i] = a})]
      BY <3>1 DEF CountSeen
    <3>3. age \in [Reduced -> Slots]
      BY <2>4
    <3>. HIDE DEF age
    <3>. QED BY <2>3, <3>2, <3>3, TotalCounts
  <2>. DEFINE goodAge == [i \in Reduced \cap Good |-> clock - Seen(i)]
  <2>7. Total(SumSeen) = Cardinality(Reduced \cap Good)
    <3>1. \A a \in Slots : Aged(a) \cap Good = {i \in Reduced \cap Good : goodAge[i] = a}
      BY <2>5
    <3>2. SumSeen = [a \in Slots |-> Cardinality({i \in Reduced \cap Good : goodAge[i] = a})]
      BY <3>1 DEF SumSeen
    <3>3. goodAge \in [Reduced \cap Good -> Slots]
      BY <2>4
    <3>. HIDE DEF goodAge
    <3>. QED BY <2>3, <3>2, <3>3, TotalCounts
  <2>. QED BY <2>6, <2>7
<1>. QED BY <1>1, Invariance, PTL

-----------------------------------------------------------------------------
(* The breaker.                                                            *)

LEMMA TotalFinite ==
  ASSUME NEW f \in [Ages -> Nat]
  PROVE  IsFiniteSet(UNION {{a} \X (1 .. f[a]) : a \in Ages})
<1>. DEFINE Cell == [a \in Ages |-> {a} \X (1 .. f[a])]
            Cells == {{a} \X (1 .. f[a]) : a \in Ages}
<1>1. IsFiniteSet(Ages)
  BY FS_Interval, BreakerAssumption DEF Ages
<1>2. Cell \in Surjection(Ages, Cells)
  BY Fun_IsSurj
<1>3. IsFiniteSet(Cells)
  BY <1>1, <1>2, FS_Surjection
<1>4. ASSUME NEW T \in Cells PROVE IsFiniteSet(T)
  <2>1. PICK a \in Ages : T = {a} \X (1 .. f[a])
    OBVIOUS
  <2>2. f[a] \in Int
    OBVIOUS
  <2>3. IsFiniteSet(1 .. f[a])
    BY <2>2, FS_Interval
  <2>4. IsFiniteSet({a})
    BY FS_Singleton
  <2>. QED BY <2>1, <2>3, <2>4, FS_Product
<1>. HIDE DEF Cells
<1>5. IsFiniteSet(UNION Cells)
  BY <1>3, <1>4, FS_UNION
<1>. QED BY <1>5 DEF Cells

LEMMA TotalNat ==
  ASSUME NEW f \in [Ages -> Nat]
  PROVE  Total(f) \in Nat
<1>1. DOMAIN f = Ages
  OBVIOUS
<1>. QED BY <1>1, TotalFinite, FS_CardinalityType DEF Total

BreakerTypeOK ==
  /\ sum \in [Ages -> Nat]
  /\ count \in [Ages -> Nat]
  /\ stage \in [Caller -> {"idle", "accept", "coin", "running"}]
  /\ failure \in 0 .. Intervals

\* The samples younger than the last failure are successes.
SuccessesInv ==
  \A a \in Ages : /\ sum[a] <= count[a]
                  /\ a < failure => sum[a] = count[a]

BreakerInv == BreakerTypeOK /\ SuccessesInv

LEMMA BreakerInitInv == BreakerInit => BreakerInv
  BY BreakerAssumption
     DEF BreakerInit, WindowInit, Ages, BreakerInv, BreakerTypeOK, SuccessesInv

\* A Mark changes the current interval only.
LEMMA MarkStep ==
  ASSUME BreakerTypeOK, NEW v \in {0, 1}, Mark(v)
  PROVE  /\ sum' \in [Ages -> Nat] /\ count' \in [Ages -> Nat]
         /\ sum'[0] = sum[0] + v /\ count'[0] = count[0] + 1
         /\ \A a \in Ages : a # 0 => sum'[a] = sum[a] /\ count'[a] = count[a]
<1>1. 0 \in Ages
  BY BreakerAssumption DEF Ages
<1>. QED BY <1>1 DEF BreakerTypeOK, Mark

LEMMA SuccessStep ==
  ASSUME BreakerInv, MarkSuccess
  PROVE  /\ sum' \in [Ages -> Nat] /\ count' \in [Ages -> Nat]
         /\ failure' \in 0 .. Intervals /\ SuccessesInv'
<1>1. 0 \in Ages /\ Ages \subseteq Nat /\ BreakerTypeOK
  BY BreakerAssumption DEF Ages, BreakerInv
<1>2. Mark(1) /\ failure' = failure
  BY DEF MarkSuccess
<1>3. /\ sum' \in [Ages -> Nat] /\ count' \in [Ages -> Nat]
      /\ sum'[0] = sum[0] + 1 /\ count'[0] = count[0] + 1
      /\ \A a \in Ages : a # 0 => sum'[a] = sum[a] /\ count'[a] = count[a]
  BY <1>1, <1>2, MarkStep
<1>4. ASSUME NEW a \in Ages
      PROVE  sum'[a] <= count'[a] /\ (a < failure' => sum'[a] = count'[a])
  <2>1. /\ sum[a] \in Nat /\ count[a] \in Nat /\ sum[a] <= count[a]
        /\ a < failure => sum[a] = count[a]
    BY DEF BreakerInv, BreakerTypeOK, SuccessesInv
  <2>2. CASE a = 0
    BY <1>2, <1>3, <2>1, <2>2
  <2>3. CASE a # 0
    BY <1>2, <1>3, <2>1, <2>3
  <2>. QED BY <2>2, <2>3
<1>. QED BY <1>1, <1>2, <1>3, <1>4 DEF SuccessesInv, BreakerTypeOK

LEMMA FailureStep ==
  ASSUME BreakerInv, MarkFailure
  PROVE  /\ sum' \in [Ages -> Nat] /\ count' \in [Ages -> Nat]
         /\ failure' \in 0 .. Intervals /\ SuccessesInv'
<1>1. 0 \in Ages /\ Ages \subseteq Nat /\ BreakerTypeOK /\ Intervals \in Nat
  BY BreakerAssumption DEF Ages, BreakerInv
<1>2. Mark(0) /\ failure' = 0
  BY DEF MarkFailure
<1>3. /\ sum' \in [Ages -> Nat] /\ count' \in [Ages -> Nat]
      /\ sum'[0] = sum[0] + 0 /\ count'[0] = count[0] + 1
      /\ \A a \in Ages : a # 0 => sum'[a] = sum[a] /\ count'[a] = count[a]
  BY <1>1, <1>2, MarkStep
<1>4. ASSUME NEW a \in Ages PROVE sum'[a] <= count'[a]
  <2>1. sum[a] \in Nat /\ count[a] \in Nat /\ sum[a] <= count[a]
    BY DEF BreakerInv, BreakerTypeOK, SuccessesInv
  <2>2. CASE a = 0
    BY <1>3, <2>1, <2>2
  <2>3. CASE a # 0
    BY <1>3, <2>1, <2>3
  <2>. QED BY <2>2, <2>3
<1>5. \A a \in Ages : ~ (a < failure')
  BY <1>1, <1>2
<1>. QED BY <1>1, <1>2, <1>3, <1>4, <1>5 DEF SuccessesInv

LEMMA PassStep ==
  ASSUME BreakerInv, IntervalPasses
  PROVE  BreakerInv'
<1>1. /\ Intervals \in Nat \ {0} /\ BreakerTypeOK /\ failure \in 0 .. Intervals
      /\ \A a \in Ages : a \in Nat /\ (a # 0 => a - 1 \in Ages)
  BY BreakerAssumption DEF Ages, BreakerInv, BreakerTypeOK
<1>2. /\ sum' = [a \in Ages |-> IF a = 0 THEN 0 ELSE sum[a - 1]]
      /\ count' = [a \in Ages |-> IF a = 0 THEN 0 ELSE count[a - 1]]
      /\ failure' = IF failure < Intervals THEN failure + 1 ELSE Intervals
      /\ stage' = stage
  BY DEF IntervalPasses, Slide
<1>3. BreakerTypeOK'
  BY <1>1, <1>2 DEF BreakerTypeOK
<1>4. ASSUME NEW a \in Ages
      PROVE  sum'[a] <= count'[a] /\ (a < failure' => sum'[a] = count'[a])
  <2>1. CASE a = 0
    BY <1>2, <2>1
  <2>2. CASE a # 0
    <3>1. /\ a - 1 \in Ages /\ a \in Nat /\ a < Intervals
          /\ sum'[a] = sum[a - 1] /\ count'[a] = count[a - 1]
      BY <1>1, <1>2, <2>2 DEF Ages
    <3>2. sum[a - 1] <= count[a - 1] /\ (a - 1 < failure => sum[a - 1] = count[a - 1])
      BY <3>1 DEF BreakerInv, SuccessesInv
    <3>3. a < failure' => a - 1 < failure
      BY <1>1, <1>2, <3>1
    <3>. QED BY <3>1, <3>2, <3>3
  <2>. QED BY <2>1, <2>2
<1>. QED BY <1>3, <1>4 DEF BreakerInv, SuccessesInv

LEMMA BreakerNextInv == BreakerInv /\ [BreakerNext]_breakerVars => BreakerInv'
<1>. SUFFICES ASSUME BreakerInv, [BreakerNext]_breakerVars PROVE BreakerInv'
  OBVIOUS
<1>1. ASSUME UNCHANGED <<sum, count, failure>>,
             stage' \in [Caller -> {"idle", "accept", "coin", "running"}]
      PROVE  BreakerInv'
  BY <1>1 DEF BreakerInv, BreakerTypeOK, SuccessesInv
<1>2. ASSUME MarkSuccess \/ MarkFailure,
             stage' \in [Caller -> {"idle", "accept", "coin", "running"}]
      PROVE  BreakerInv'
  BY <1>2, SuccessStep, FailureStep DEF BreakerInv, BreakerTypeOK
<1>3. ASSUME NEW c \in Caller, NEW f, NEW t \in {"idle", "accept", "coin", "running"},
             Goto(c, f, t)
      PROVE  stage' \in [Caller -> {"idle", "accept", "coin", "running"}]
  BY <1>3 DEF BreakerInv, BreakerTypeOK, Goto
<1>4. ASSUME NEW c \in Caller, Call(c) \/ Accept(c) \/ CoinAdmits(c) \/ CoinDrops(c)
      PROVE  BreakerInv'
  BY <1>1, <1>3, <1>4 DEF Call, Accept, CoinAdmits, CoinDrops, window
<1>5. ASSUME NEW c \in Caller, Succeed(c) \/ Fail(c) \/ Panic(c)
      PROVE  BreakerInv'
  BY <1>2, <1>3, <1>5 DEF Succeed, Fail, Panic
<1>6. CASE IntervalPasses
  BY <1>6, PassStep
<1>7. CASE BackendChanges \/ UNCHANGED breakerVars
  <2>1. stage' = stage
    BY <1>7 DEF BackendChanges, breakerVars
  <2>. QED BY <1>1, <1>7, <2>1
           DEF BackendChanges, breakerVars, window, BreakerInv, BreakerTypeOK
<1>. QED BY <1>4, <1>5, <1>6, <1>7 DEF BreakerNext, Step

LEMMA BreakerInvariance == BreakerSpec => []BreakerInv
  BY BreakerInitInv, BreakerNextInv, PTL DEF BreakerSpec

\* Whatever the number of callers and intervals, the breaker drops nothing unless
\* a call has failed within the window: successes alone never open it, and
\* failures that have left the window do not keep it open.
THEOREM OpensOnFailure == BreakerSpec => []OpenNeedsFailure
<1>1. BreakerInv => OpenNeedsFailure
  <2>. SUFFICES ASSUME BreakerInv, ~ (failure < Intervals) PROVE ~ DropRatioPositive
    BY DEF OpenNeedsFailure
  <2>1. /\ sum \in [Ages -> Nat] /\ count \in [Ages -> Nat]
        /\ failure = Intervals /\ Protection \in Nat
    BY BreakerAssumption DEF BreakerInv, BreakerTypeOK
  <2>2. \A a \in Ages : sum[a] = count[a]
    BY <2>1, BreakerAssumption DEF BreakerInv, SuccessesInv, Ages
  <2>3. sum = count
    BY <2>1, <2>2
  <2>4. total \in Nat /\ accepts = total
    BY <2>1, <2>3, TotalNat DEF total, accepts
  <2>. QED BY <2>1, <2>4 DEF DropRatioPositive
<1>. QED BY <1>1, BreakerInvariance, PTL

\* Up to Protection failures in the window are always forgiven, however few calls
\* succeeded; and where a call may be dropped the drop ratio lies strictly between
\* 0 and 1 (k = 3/2, both sides doubled), so that some calls always get through.
THEOREM FewFailuresForgiven ==
  BreakerSpec => [](DropRatioPositive =>
                      /\ total - accepts > Protection
                      /\ 0 < 2 * (total - Protection) - 3 * accepts
                      /\ 2 * (total - Protection) - 3 * accepts < 2 * (total + 1))
<1>1. BreakerInv =>
        (DropRatioPositive =>
           /\ total - accepts > Protection
           /\ 0 < 2 * (total - Protection) - 3 * accepts
           /\ 2 * (total - Protection) - 3 * accepts < 2 * (total + 1))
  <2>. SUFFICES ASSUME BreakerInv, DropRatioPositive
                PROVE  /\ total - accepts > Protection
                       /\ 0 < 2 * (total - Protection) - 3 * accepts
                       /\ 2 * (total - Protection) - 3 * accepts < 2 * (total + 1)
    OBVIOUS
  <2>1. total \in Nat /\ accepts \in Nat /\ Protection \in Nat
    BY BreakerAssumption, TotalNat DEF BreakerInv, BreakerTypeOK, total, accepts
  <2>2. total - Protection > accepts + accepts \div 2
    BY DEF DropRatioPositive
  <2>. HIDE DEF total, accepts
  <2>. QED BY <2>1, <2>2
<1>. QED BY <1>1, BreakerInvariance, PTL

\* A call that was admitted leaves exactly one sample when it ends, also by a
\* panic; one that was dropped leaves none.
THEOREM OneSample == BreakerSpec => OneSamplePerCall
<1>. DEFINE Leaves(c) ==
       stage[c] # "idle" /\ stage'[c] = "idle" =>
         count'[0] = count[0] + (IF stage[c] = "running" THEN 1 ELSE 0)
<1>1. BreakerInv /\ [BreakerNext]_breakerVars => \A c \in Caller : Leaves(c)
  <2>. SUFFICES ASSUME BreakerInv, [BreakerNext]_breakerVars, NEW c \in Caller,
                       stage[c] # "idle", stage'[c] = "idle"
                PROVE  count'[0] = count[0] + (IF stage[c] = "running" THEN 1 ELSE 0)
    OBVIOUS
  <2>0. /\ BreakerTypeOK /\ 0 \in Ages /\ count[0] \in Nat
        /\ stage \in [Caller -> {"idle", "accept", "coin", "running"}]
    BY BreakerAssumption DEF BreakerInv, BreakerTypeOK, Ages
  <2>1. ASSUME NEW d \in Caller, NEW f, NEW t, Goto(d, f, t)
        PROVE  d = c /\ stage[c] = f /\ t = "idle"
    BY <2>0, <2>1 DEF Goto
  <2>2. ASSUME NEW d \in Caller, Call(d) \/ Accept(d) \/ CoinAdmits(d) PROVE FALSE
    BY <2>1, <2>2 DEF Call, Accept, CoinAdmits
  <2>3. ASSUME NEW d \in Caller, CoinDrops(d)
        PROVE  stage[c] = "coin" /\ count' = count
    BY <2>1, <2>3 DEF CoinDrops, window
  <2>4. ASSUME NEW d \in Caller, Succeed(d) \/ Fail(d) \/ Panic(d)
        PROVE  stage[c] = "running" /\ count'[0] = count[0] + 1
    <3>1. stage[c] = "running"
      BY <2>1, <2>4 DEF Succeed, Fail, Panic
    <3>2. Mark(0) \/ Mark(1)
      BY <2>4 DEF Succeed, Fail, Panic, MarkSuccess, MarkFailure
    <3>. QED BY <2>0, <3>1, <3>2, MarkStep
  <2>5. CASE IntervalPasses \/ BackendChanges \/ UNCHANGED breakerVars
    BY <2>5 DEF IntervalPasses, BackendChanges, breakerVars
  <2>. QED BY <2>0, <2>2, <2>3, <2>4, <2>5 DEF BreakerNext, Step
<1>. QED BY <1>1, BreakerInvariance, PTL DEF BreakerSpec, OneSamplePerCall

=============================================================================
