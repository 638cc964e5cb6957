----------------------------- MODULE CountWindow -----------------------------
(***************************************************************************)
(* A rolling window as the breaker uses it: per interval, the number of    *)
(* samples (Bucket.Count) and their total (Bucket.Sum), where a success is *)
(* a 1 and a failure a 0. The interval of age 0 is the current one.        *)
(*                                                                         *)
(* RollingWindow implements this window. One Slide is a boundary between   *)
(* two intervals; the ring does not notice one that passes while an Add    *)
(* moves it, so Slide says nothing about the length of an interval.        *)
(***************************************************************************)
EXTENDS Integers

CONSTANTS
  Intervals  \* number of intervals in the window (buckets)

VARIABLES
  sum,   \* per age: successes
  count  \* per age: successes and failures

window == <<sum, count>>

Ages == 0 .. Intervals - 1

WindowInit ==
  /\ sum = [a \in Ages |-> 0]
  /\ count = [a \in Ages |-> 0]

\* Add, of a success (1) or a failure (0).
Mark(v) ==
  /\ sum' = [sum EXCEPT ![0] = @ + v]
  /\ count' = [count EXCEPT ![0] = @ + 1]

\* Variant for a mutation run: an interval without samples does not empty its
\* bucket.
SlideKeepOldest ==
  LET Shift(f) == [a \in Ages |-> IF a = 0 THEN 0
                                  ELSE IF a = Intervals - 1 /\ count[a - 1] = 0
                                       THEN f[a] ELSE f[a - 1]]
  IN sum' = Shift(sum) /\ count' = Shift(count)

\* The next interval begins.
Slide ==
  LET Shift(f) == [a \in Ages |-> IF a = 0 THEN 0 ELSE f[a - 1]]
  IN sum' = Shift(sum) /\ count' = Shift(count)

WindowNext == Mark(0) \/ Mark(1) \/ Slide

WindowSpec == WindowInit /\ [][WindowNext]_window
=============================================================================
