---------------------------- MODULE SampleWindow ----------------------------
(***************************************************************************)
(* What core/collection/rollingwindow.go promises to the breaker and the   *)
(* shedder, without the ring of buckets: Reduce sees the samples of the    *)
(* last Size intervals.                                                    *)
(*                                                                         *)
(* The promise has one blemish. An Add that crosses interval boundaries    *)
(* while it moves the window makes all earlier samples look younger by the *)
(* intervals it crossed; delay[i] adds up those intervals for sample i. If *)
(* every Add is short, delay is 0 and the window is exact.                 *)
(***************************************************************************)
EXTENDS Naturals, Sequences

CONSTANTS
  Size,          \* number of intervals in the window
  IgnoreCurrent  \* TRUE with the option IgnoreCurrentBucket

VARIABLES
  clock,   \* the current interval, counted from the creation of the window
  time,    \* time[i] is the interval in which sample i was added
  delay,   \* delay[i] is how many intervals younger sample i looks
  answer   \* the samples the last Reduce saw

vars == <<clock, time, delay, answer>>

Init ==
  /\ clock = 0
  /\ time = << >>
  /\ delay = << >>
  /\ answer = {}

\* The samples of the intervals that Reduce looks at. The current interval is
\* left out with IgnoreCurrent.
Window ==
  {i \in 1 .. Len(time) :
     LET seen == time[i] + delay[i]
     IN clock < seen + Size /\ (IgnoreCurrent => seen # clock)}

Tick ==
  /\ clock' = clock + 1
  /\ UNCHANGED <<time, delay, answer>>

\* An Add that crossed d interval boundaries.
Add(d) ==
  /\ time' = Append(time, clock)
  /\ delay' = [i \in 1 .. Len(time) + 1 |->
                 IF i <= Len(time) THEN delay[i] + d ELSE 0]
  /\ UNCHANGED <<clock, answer>>

Reduce ==
  /\ answer' = Window
  /\ UNCHANGED <<clock, time, delay>>

Next == Tick \/ Reduce \/ \E d \in 0 .. clock : Add(d)

Spec == Init /\ [][Next]_vars
=============================================================================
