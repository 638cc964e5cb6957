--------------------------- MODULE RollingWindow ----------------------------
(***************************************************************************)
(* The sliding window of core/collection/rollingwindow.go: a ring of Size  *)
(* buckets, the index of the bucket being written and the start of its     *)
(* interval. Add takes the lock and Reduce the read lock, so the only      *)
(* thing that moves while one of them runs is the clock: updateOffset      *)
(* reads it twice, and interval boundaries may pass between the reads.     *)
(*                                                                         *)
(* A bucket is the set of the samples added to it (Sum and Count are       *)
(* functions of that set); time is counted in intervals since the window   *)
(* was created, to which lastTime stays aligned.                           *)
(***************************************************************************)
EXTENDS Integers, Sequences

CONSTANTS
  Size,           \* number of buckets
  IgnoreCurrent,  \* TRUE with the option IgnoreCurrentBucket
  MaxClock,       \* bound: the last interval that is explored
  MaxAdds         \* bound: how many samples are added

ASSUME RollingWindowAssumption ==
  /\ Size \in Nat \ {0}
  /\ IgnoreCurrent \in BOOLEAN
  /\ MaxClock \in Nat /\ MaxAdds \in Nat

VARIABLES
  clock,     \* the current interval
  buckets,   \* the ring
  offset,    \* the bucket being written
  lastTime,  \* the interval of that bucket
  lock,      \* "free", or "moving" while an Add is between its clock reads
  readAt,    \* the first of these reads
  time,      \* history: the interval of each sample
  delay,     \* history: see SampleWindow
  answer     \* the samples the last Reduce saw

ring == <<buckets, offset, lastTime>>
vars == <<clock, ring, lock, readAt, time, delay, answer>>

Slots == 0 .. Size - 1

Init ==
  /\ clock = 0
  /\ buckets = [s \in Slots |-> {}]
  /\ offset = 0
  /\ lastTime = 0
  /\ lock = "free"
  /\ readAt = 0
  /\ time = << >>
  /\ delay = << >>
  /\ answer = {}

\* How many intervals ago the last bucket was written, at most Size.
Span ==
  LET passed == clock - lastTime
  IN IF passed \in 0 .. Size - 1 THEN passed ELSE Size

-----------------------------------------------------------------------------
(* Add.                                                                    *)

\* The sample enters the bucket; d intervals went by inside the Add.
Record(ringNow, d) ==
  /\ Len(time) < MaxAdds
  /\ buckets' = [ringNow EXCEPT ![offset] = @ \cup {Len(time) + 1}]
  /\ time' = Append(time, clock)
  /\ delay' = [i \in 1 .. Len(time) + 1 |->
                 IF i <= Len(time) THEN delay[i] + d ELSE 0]
  /\ UNCHANGED <<clock, offset, answer>>

\* updateOffset returns at once: the interval is still that of the bucket.
AddInPlace ==
  /\ lock = "free"
  /\ Span = 0
  /\ Record(buckets, 0)
  /\ UNCHANGED <<lastTime, lock, readAt>>

\* Variant for a mutation run: only the bucket that is reached is emptied.
AddMoveOffsetSkipReset ==
  /\ lock = "free"
  /\ Span > 0
  /\ Len(time) < MaxAdds
  /\ buckets' = [buckets EXCEPT ![(offset + Span) % Size] = {}]
  /\ offset' = (offset + Span) % Size
  /\ lock' = "moving"
  /\ readAt' = clock
  /\ UNCHANGED <<clock, lastTime, time, delay, answer>>

\* Variant for a mutation run: offset does not wrap around.
AddMoveOffsetNoWrap ==
  LET expired == {(offset + i + 1) % Size : i \in 0 .. Span - 1}
  IN /\ lock = "free"
     /\ Span > 0
     /\ Len(time) < MaxAdds
     /\ buckets' = [s \in Slots |-> IF s \in expired THEN {} ELSE buckets[s]]
     /\ offset' = offset + Span
     /\ lock' = "moving"
     /\ readAt' = clock
     /\ UNCHANGED <<clock, lastTime, time, delay, answer>>

\* The first half of updateOffset: expired buckets are emptied, offset moves.
AddMoveOffset ==
  LET span    == Span
      expired == {(offset + i + 1) % Size : i \in 0 .. span - 1}
  IN /\ lock = "free"
     /\ span > 0
     /\ Len(time) < MaxAdds
     /\ buckets' = [s \in Slots |-> IF s \in expired THEN {} ELSE buckets[s]]
     /\ offset' = (offset + span) % Size
     /\ lock' = "moving"
     /\ readAt' = clock
     /\ UNCHANGED <<clock, lastTime, time, delay, answer>>

\* The second half reads the clock again for lastTime; then the sample enters
\* its bucket and the lock is released.
AddSetLastTime ==
  /\ lock = "moving"
  /\ lastTime' = clock
  /\ Record(buckets, clock - readAt)
  /\ lock' = "free"
  /\ readAt' = 0

-----------------------------------------------------------------------------
(* Reduce.                                                                 *)

\* How many buckets Reduce looks at, and the first of them.
Diff == IF Span = 0 /\ IgnoreCurrent THEN Size - 1 ELSE Size - Span

\* Variant for a mutation run: the walk starts one bucket too late.
FirstTooLate == (offset + Span + 2) % Size

First == (offset + Span + 1) % Size

Reduced == UNION {buckets[(First + i) % Size] : i \in 0 .. Diff - 1}

Reduce ==
  /\ lock = "free"
  /\ answer' = Reduced
  /\ UNCHANGED <<clock, ring, lock, readAt, time, delay>>

-----------------------------------------------------------------------------

Tick ==
  /\ clock < MaxClock
  /\ clock' = clock + 1
  /\ UNCHANGED <<ring, lock, readAt, time, delay, answer>>

Next == AddInPlace \/ AddMoveOffset \/ AddSetLastTime \/ Reduce \/ Tick

Spec == Init /\ [][Next]_vars

-----------------------------------------------------------------------------
(* Properties.                                                             *)

\* Type invariant of the ring and its histories.
TypeOK ==
  /\ clock \in 0 .. MaxClock
  /\ buckets \in [Slots -> SUBSET (1 .. MaxAdds)]
  /\ offset \in Slots
  /\ lastTime \in 0 .. clock
  /\ lock \in {"free", "moving"}
  /\ readAt \in 0 .. clock
  /\ time \in Seq(Nat) /\ Len(time) <= MaxAdds
  /\ delay \in [1 .. Len(time) -> Nat]
  /\ answer \subseteq 1 .. Len(time)

\* The ring keeps the promise: each step of the ring is a step of SampleWindow,
\* so Reduce returns the samples of the last Size intervals (with the delay
\* described there), for Add and Reduce calls in any order and at any times.
SW == INSTANCE SampleWindow
ImplementsSampleWindow == SW!Spec

\* No sample of the last Size intervals (before the current one, with
\* IgnoreCurrent) is missing from a Reduce, however long Adds take.
NothingLost ==
  lock = "free" =>
    {i \in 1 .. Len(time) :
       clock < time[i] + Size /\ (IgnoreCurrent => time[i] # clock)}
      \subseteq Reduced

\* What the comment in Reduce says (rollingwindow.go:77): data of expired
\* buckets must not be counted.
ExpiredNotCounted ==
  lock = "free" => \A i \in Reduced : clock < time[i] + Size
=============================================================================
