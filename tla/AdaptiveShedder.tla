--------------------------- MODULE AdaptiveShedder ---------------------------
(***************************************************************************)
(* Load shedding, core/load/adaptiveshedder.go. A caller is a goroutine    *)
(* inside Allow; the fields it shares with the others are atomics, so a    *)
(* step is one load or store. avgFlying is read and written under a spin   *)
(* lock that is held for nothing else.                                     *)
(*                                                                         *)
(* The clock is kept as ages. dropTime is replaced by the time since then, *)
(* which saturates at CoolOff: a cool-off that is over stays over.         *)
(*                                                                         *)
(* Left open: whether the CPU is over the threshold when it is asked, and  *)
(* maxFlight, some number of requests not below 1 that the two rolling     *)
(* windows of passed requests and response times give.                     *)
(***************************************************************************)
EXTENDS Integers, FiniteSets

CONSTANTS
  Caller,       \* goroutines that call Allow
  CoolOff,      \* coolOffDuration
  MaxCapacity,  \* bound: the largest value of maxFlight
  MaxFlying     \* bound: requests inside the service and inside Allow

ASSUME ShedderAssumption ==
  /\ IsFiniteSet(Caller)
  /\ CoolOff \in Nat \ {0}
  /\ MaxCapacity \in Nat \ {0}
  /\ MaxFlying \in Nat

Never == CoolOff + 1   \* the age of a drop that never was: dropTime = 0
Age   == 0 .. Never

VARIABLES
  flying,           \* requests being processed
  avgFlying,        \* int64(avgFlying), the moving average of flying
  droppedRecently,  \* "yes" or "no"
  dropAge,          \* the time since dropTime
  stage,            \* per caller: the next step of Allow, "idle" outside
  asked,            \* per caller: where stillHot returns to, "check" or "log"
  seenAge,          \* per caller: the age of the time it has loaded or read
  maxFlight,        \* per caller: its value of maxFlight
  strained,         \* history, "yes" or "no": a caller has found the CPU overloaded
  sinceDrop         \* history: the age of the newest time ever stored in dropTime

load  == <<flying, avgFlying>>
drop  == <<droppedRecently, dropAge, sinceDrop>>
local == <<asked, seenAge, maxFlight>>
vars  == <<load, drop, stage, local, strained>>

Init ==
  /\ flying = 0
  /\ avgFlying = 0
  /\ droppedRecently = "no"
  /\ dropAge = Never
  /\ stage = [c \in Caller |-> "idle"]
  /\ asked = [c \in Caller |-> "check"]
  /\ seenAge = [c \in Caller |-> Never]
  /\ maxFlight = [c \in Caller |-> 1]
  /\ strained = "no"
  /\ sinceDrop = Never

Goto(c, from, to) ==
  /\ stage[c] = from
  /\ stage' = [stage EXCEPT ![c] = to]

Inside == {c \in Caller : stage[c] # "idle"}

-----------------------------------------------------------------------------
(* shouldDrop.                                                             *)

Allow(c) ==
  /\ flying + Cardinality(Inside) < MaxFlying
  /\ Goto(c, "idle", "cpu")
  /\ UNCHANGED <<load, drop, local, strained>>

SystemOverloaded(c) ==
  /\ Goto(c, "cpu", "avg")
  /\ strained' = "yes"
  /\ UNCHANGED <<load, drop, local>>

\* Variant for a mutation run: the load is checked whether hot or not.
NotOverloadedUnasked(c) ==
  /\ Goto(c, "cpu", "avg")
  /\ asked' = [asked EXCEPT ![c] = "check"]
  /\ UNCHANGED <<load, drop, seenAge, maxFlight, strained>>

NotOverloaded(c) ==
  /\ Goto(c, "cpu", "flag")
  /\ asked' = [asked EXCEPT ![c] = "check"]
  /\ UNCHANGED <<load, drop, seenAge, maxFlight, strained>>

\* Variant for a mutation run: highThru joins its two conditions with "or".
ReadAvgEither(c) ==
  /\ \E m \in 1 .. MaxCapacity :
       /\ Goto(c, "avg", IF avgFlying > m THEN "flag" ELSE "flying")
       /\ maxFlight' = [maxFlight EXCEPT ![c] = m]
  /\ asked' = [asked EXCEPT ![c] = "log"]
  /\ UNCHANGED <<load, drop, seenAge, strained>>

\* highThru: avgFlying is read under its lock, then maxFlight is computed; the
\* first conjunct is decided. A request that is not dropped is admitted.
ReadAvg(c) ==
  /\ \E m \in 1 .. MaxCapacity :
       /\ Goto(c, "avg", IF avgFlying > m THEN "flying" ELSE "admit")
       /\ maxFlight' = [maxFlight EXCEPT ![c] = m]
  /\ UNCHANGED <<load, drop, asked, seenAge, strained>>

\* highThru, the second conjunct. The message of a drop calls stillHot again.
ReadFlying(c) ==
  /\ Goto(c, "flying", IF flying > maxFlight[c] THEN "flag" ELSE "admit")
  /\ asked' = [asked EXCEPT ![c] = "log"]
  /\ UNCHANGED <<load, drop, seenAge, maxFlight, strained>>

-----------------------------------------------------------------------------
(* stillHot, as part of the check and again for the message of a drop.     *)

IfHot(c)  == IF asked[c] = "check" THEN "avg" ELSE "dropTime"
IfCold(c) == IF asked[c] = "check" THEN "admit" ELSE "dropTime"

HotLoadFlag(c) ==
  /\ Goto(c, "flag", IF droppedRecently = "yes" THEN "time" ELSE IfCold(c))
  /\ UNCHANGED <<load, drop, local, strained>>

HotLoadTime(c) ==
  /\ Goto(c, "time", IF dropAge = Never THEN IfCold(c) ELSE "since")
  /\ seenAge' = [seenAge EXCEPT ![c] = dropAge]
  /\ UNCHANGED <<load, drop, asked, maxFlight, strained>>

HotSince(c) ==
  /\ Goto(c, "since", IF seenAge[c] < CoolOff THEN IfHot(c) ELSE "reset")
  /\ UNCHANGED <<load, drop, local, strained>>

HotReset(c) ==
  /\ Goto(c, "reset", IfCold(c))
  /\ droppedRecently' = "no"
  /\ UNCHANGED <<load, dropAge, sinceDrop, local, strained>>

-----------------------------------------------------------------------------
(* The end of Allow.                                                       *)

\* timex.Now(): the time that will be stored.
ReadClock(c) ==
  /\ Goto(c, "dropTime", "dropStore")
  /\ seenAge' = [seenAge EXCEPT ![c] = 0]
  /\ UNCHANGED <<load, drop, asked, maxFlight, strained>>

\* Variant for a mutation run: the time of the drop is not stored.
SetDropTimeMissing(c) ==
  /\ Goto(c, "dropStore", "dropFlag")
  /\ UNCHANGED <<load, drop, local, strained>>

\* A later time that another caller has stored meanwhile is overwritten.
SetDropTime(c) ==
  /\ Goto(c, "dropStore", "dropFlag")
  /\ dropAge' = seenAge[c]
  /\ sinceDrop' = IF seenAge[c] < sinceDrop THEN seenAge[c] ELSE sinceDrop
  /\ UNCHANGED <<load, droppedRecently, local, strained>>

SetDroppedRecently(c) ==
  /\ Goto(c, "dropFlag", "idle")
  /\ droppedRecently' = "yes"
  /\ UNCHANGED <<load, dropAge, sinceDrop, local, strained>>

\* addFlying(1).
Admit(c) ==
  /\ Goto(c, "admit", "idle")
  /\ flying' = flying + 1
  /\ UNCHANGED <<avgFlying, drop, local, strained>>

Check(c) ==
  \/ SystemOverloaded(c) \/ NotOverloaded(c)
  \/ ReadAvg(c) \/ ReadFlying(c)
  \/ HotLoadFlag(c) \/ HotLoadTime(c) \/ HotSince(c) \/ HotReset(c)
  \/ ReadClock(c) \/ SetDropTime(c) \/ SetDroppedRecently(c) \/ Admit(c)

-----------------------------------------------------------------------------

\* Between a and b: where the integer part of a moving average that was a goes
\* when b is averaged in.
Towards(a, b) == IF a <= b THEN a .. b ELSE b .. a

\* Variant for a mutation run: Pass uncounts the request, then Fail does.
FinishTwice ==
  /\ flying > 0
  /\ flying' = flying - 2
  /\ avgFlying' \in Towards(avgFlying, flying - 1)
  /\ UNCHANGED <<drop, stage, local, strained>>

\* Promise.Pass or Promise.Fail: addFlying(-1).
Finish ==
  /\ flying > 0
  /\ flying' = flying - 1
  /\ avgFlying' \in Towards(avgFlying, flying - 1)
  /\ UNCHANGED <<drop, stage, local, strained>>

Older(age) == IF age < CoolOff THEN age + 1 ELSE age

Tick ==
  /\ dropAge' = Older(dropAge)
  /\ sinceDrop' = Older(sinceDrop)
  /\ seenAge' = [c \in Caller |-> Older(seenAge[c])]
  /\ UNCHANGED <<load, droppedRecently, stage, asked, maxFlight, strained>>

Next == \/ \E c \in Caller : Allow(c) \/ Check(c)
        \/ Finish
        \/ Tick

Spec == Init /\ [][Next]_vars

\* Goroutines are scheduled, requests keep coming, and each that was admitted
\* ends. The clock may stand still.
Fairness ==
  /\ \A c \in Caller : WF_vars(Allow(c)) /\ WF_vars(Check(c))
  /\ WF_vars(Finish)

FairSpec == Spec /\ Fairness

-----------------------------------------------------------------------------
(* Properties.                                                             *)

Stages == {"idle", "cpu", "flag", "time", "since", "reset", "avg", "flying",
           "dropTime", "dropStore", "dropFlag", "admit"}

\* Type invariant of the shedder; the moving average never passes the number
\* of requests there can be.
TypeOK ==
  /\ flying \in 0 .. MaxFlying
  /\ avgFlying \in 0 .. MaxFlying
  /\ droppedRecently \in {"yes", "no"}
  /\ dropAge \in Age
  /\ stage \in [Caller -> Stages]
  /\ asked \in [Caller -> {"check", "log"}]
  /\ seenAge \in [Caller -> Age]
  /\ maxFlight \in [Caller -> 1 .. MaxCapacity]
  /\ strained \in {"yes", "no"}
  /\ sinceDrop \in Age

\* Whoever reads that a request was dropped recently finds out when: Allow
\* stores the time before the flag.
FlagHasTime == droppedRecently = "yes" => dropAge # Never

\* While no caller has found the CPU overloaded nothing is dropped, however
\* many requests there are and whatever the windows say.
CalmDropsNothing ==
  strained = "no" =>
    /\ droppedRecently = "no"
    /\ \A c \in Caller : stage[c] \notin {"dropTime", "dropStore", "dropFlag"}

\* An overloaded service does not refuse everybody for ever: admitted requests
\* end, and one that comes when none is left is admitted, although avgFlying is
\* then as high as the last request left it.
KeepsServing == []<>(\E c \in Caller : stage[c] = "admit")

\* What the comment in shouldDrop says (adaptiveshedder.go:269): a service in
\* its cool-off goes on checking the load. So once a drop has been recorded
\* stillHot finds the flag set until CoolOff has passed since dropTime.
CoolOffKept ==
  /\ \A c \in Caller : stage[c] # "dropFlag"
  /\ dropAge < CoolOff
  => droppedRecently = "yes"

\* The same, counted from the newest drop instead of the one dropTime holds:
\* stillHot finds the flag and a time to go with it.
CoolOffWhole ==
  /\ \A c \in Caller : stage[c] # "dropFlag"
  /\ sinceDrop < CoolOff
  => droppedRecently = "yes" /\ dropAge < CoolOff
=============================================================================
