----------------------- MODULE AdaptiveShedderProofs ------------------------
(***************************************************************************)
(* Proofs about AdaptiveShedder for every number of callers and every      *)
(* cool-off: type correctness with the bound on requests, the order of the *)
(* two stores of a drop, that the first drop needs an overloaded CPU, and  *)
(* the two races by which alone a cool-off is lost.                        *)
(***************************************************************************)
EXTENDS AdaptiveShedder, FiniteSetTheorems, TLAPS

\* Requests that are counted and callers that may still be counted fit.
RoomInv == flying + Cardinality(Inside) <= MaxFlying

\* A drop whose time is stored keeps it, whatever time replaces it; the flag is
\* stored later.
TimeInv ==
  /\ droppedRecently = "yes" \/ (\E c \in Caller : stage[c] = "dropFlag")
       => dropAge # Never
  /\ \A c \in Caller : stage[c] = "dropStore" => seenAge[c] # Never

\* Before the first overload every caller asks stillHot for the check and hears
\* "no".
CalmStages == {"idle", "cpu", "flag", "admit"}

CalmInv ==
  strained = "no" =>
    /\ droppedRecently = "no"
    /\ \A c \in Caller :
         stage[c] \in CalmStages /\ (stage[c] = "flag" => asked[c] = "check")

IInv == TypeOK /\ RoomInv /\ TimeInv /\ CalmInv

-----------------------------------------------------------------------------

LEMMA InsideFinite == IsFiniteSet(Inside) /\ Cardinality(Inside) \in Nat
  BY ShedderAssumption, FS_Subset, FS_CardinalityType DEF Inside

\* How the set of callers inside Allow changes with a step of one of them.
LEMMA InsideStep ==
  ASSUME NEW c \in Caller, NEW f, NEW t, Goto(c, f, t), stage \in [Caller -> Stages]
  PROVE  /\ f # "idle" /\ t # "idle" => Inside' = Inside
         /\ f # "idle" /\ t = "idle" => Cardinality(Inside') = Cardinality(Inside) - 1
         /\ f = "idle" /\ t # "idle" => Cardinality(Inside') = Cardinality(Inside) + 1
<1>1. \A d \in Caller : stage'[d] = IF d = c THEN t ELSE stage[d]
  BY DEF Goto
<1>2. stage[c] = f
  BY DEF Goto
<1>3. f # "idle" /\ t # "idle" => Inside' = Inside
  BY <1>1, <1>2 DEF Inside
<1>4. ASSUME f # "idle", t = "idle"
      PROVE  Cardinality(Inside') = Cardinality(Inside) - 1
  <2>1. c \in Inside /\ Inside' = Inside \ {c}
    BY <1>1, <1>2, <1>4 DEF Inside
  <2>2. QED BY <2>1, InsideFinite, FS_RemoveElement
<1>5. ASSUME f = "idle", t # "idle"
      PROVE  Cardinality(Inside') = Cardinality(Inside) + 1
  <2>1. c \notin Inside /\ Inside' = Inside \cup {c}
    BY <1>1, <1>2, <1>5 DEF Inside
  <2>2. QED BY <2>1, InsideFinite, FS_AddElement
<1>6. QED BY <1>3, <1>4, <1>5

LEMMA InitIInv == Init => IInv
<1> SUFFICES ASSUME Init PROVE IInv
  OBVIOUS
<1>1. TypeOK
  BY ShedderAssumption DEF Init, TypeOK, Stages, Age, Never
<1>2. RoomInv
  <2>1. Inside = {}
    BY DEF Init, Inside
  <2>2. QED BY <2>1, FS_EmptySet, ShedderAssumption DEF Init, RoomInv
<1>3. TimeInv
  BY DEF Init, TimeInv
<1>4. CalmInv
  BY DEF Init, CalmInv, CalmStages
<1>5. QED BY <1>1, <1>2, <1>3, <1>4 DEF IInv

-----------------------------------------------------------------------------
(* Types.                                                                  *)

LEMMA TypeStep ==
  ASSUME TypeOK, RoomInv, [Next]_vars
  PROVE  TypeOK'
<1> USE ShedderAssumption
<1>1. ASSUME NEW c \in Caller, Allow(c) \/ SystemOverloaded(c) \/ NotOverloaded(c)
      PROVE  TypeOK'
  BY <1>1 DEF TypeOK, Allow, SystemOverloaded, NotOverloaded, Goto, load, drop,
              local, Stages
<1>2. ASSUME NEW c \in Caller, ReadAvg(c)
      PROVE  TypeOK'
  BY <1>2 DEF TypeOK, ReadAvg, Goto, drop, load, Stages
<1>3. ASSUME NEW c \in Caller, ReadFlying(c)
      PROVE  TypeOK'
  BY <1>3 DEF TypeOK, ReadFlying, Goto, drop, load, Stages
<1>4. ASSUME NEW c \in Caller,
             HotLoadFlag(c) \/ HotLoadTime(c) \/ HotSince(c) \/ HotReset(c)
      PROVE  TypeOK'
  BY <1>4 DEF TypeOK, HotLoadFlag, HotLoadTime, HotSince, HotReset, IfHot, IfCold,
              Goto, load, drop, local, Stages
<1>5. ASSUME NEW c \in Caller, ReadClock(c) \/ SetDropTime(c) \/ SetDroppedRecently(c)
      PROVE  TypeOK'
  BY <1>5 DEF TypeOK, ReadClock, SetDropTime, SetDroppedRecently, Goto, load, drop,
              local, Stages, Age, Never
<1>6. ASSUME NEW c \in Caller, Admit(c)
      PROVE  TypeOK'
  <2>1. flying + 1 <= MaxFlying
    <3>1. c \in Inside
      BY <1>6 DEF Admit, Goto, Inside
    <3>2. Cardinality(Inside) # 0
      BY <3>1, InsideFinite, FS_EmptySet
    <3>3. QED BY <3>2, InsideFinite DEF RoomInv, TypeOK
  <2>2. QED
    BY <1>6, <2>1 DEF TypeOK, Admit, Goto, drop, local, Stages
<1>7. ASSUME Finish
      PROVE  TypeOK'
  BY <1>7 DEF TypeOK, Finish, Towards, drop, local
<1>8. ASSUME Tick
      PROVE  TypeOK'
  <2>1. \A a \in Age : Older(a) \in Age
    BY DEF Age, Older, Never
  <2>2. QED BY <1>8, <2>1 DEF TypeOK, Tick, load
<1>9. CASE UNCHANGED vars
  BY <1>9 DEF TypeOK, vars, load, drop, local
<1>10. QED
  BY <1>1, <1>2, <1>3, <1>4, <1>5, <1>6, <1>7, <1>8, <1>9 DEF Next, Check

LEMMA RoomStep ==
  ASSUME TypeOK, RoomInv, [Next]_vars
  PROVE  RoomInv'
<1> USE ShedderAssumption, InsideFinite
<1>1. ASSUME NEW c \in Caller, Allow(c)
      PROVE  RoomInv'
  <2>1. /\ Goto(c, "idle", "cpu") /\ flying' = flying
        /\ flying + Cardinality(Inside) < MaxFlying
    BY <1>1 DEF Allow, load
  <2>2. QED BY <2>1, InsideStep DEF RoomInv, TypeOK
<1>2. ASSUME NEW c \in Caller, NEW f, NEW t, Goto(c, f, t),
             f # "idle", t # "idle", flying' = flying
      PROVE  RoomInv'
  BY <1>2, InsideStep DEF RoomInv, TypeOK
<1>3. ASSUME NEW c \in Caller, NEW f, Goto(c, f, "idle"),
             f # "idle", flying' \in {flying, flying + 1}
      PROVE  RoomInv'
  <2>1. Cardinality(Inside') = Cardinality(Inside) - 1
    BY <1>3, InsideStep DEF TypeOK
  <2>2. QED BY <1>3, <2>1 DEF RoomInv, TypeOK
<1>4. ASSUME NEW c \in Caller, SystemOverloaded(c) \/ NotOverloaded(c)
      PROVE  RoomInv'
  BY <1>4, <1>2 DEF SystemOverloaded, NotOverloaded, load
<1>5. ASSUME NEW c \in Caller, ReadAvg(c) \/ ReadFlying(c)
      PROVE  RoomInv'
  BY <1>5, <1>2 DEF ReadAvg, ReadFlying, load
<1>6. ASSUME NEW c \in Caller,
             HotLoadFlag(c) \/ HotLoadTime(c) \/ HotSince(c) \/ HotReset(c)
      PROVE  RoomInv'
  BY <1>6, <1>2 DEF HotLoadFlag, HotLoadTime, HotSince, HotReset, IfHot, IfCold, load
<1>7. ASSUME NEW c \in Caller, ReadClock(c) \/ SetDropTime(c)
      PROVE  RoomInv'
  BY <1>7, <1>2 DEF ReadClock, SetDropTime, load
<1>8. ASSUME NEW c \in Caller, SetDroppedRecently(c) \/ Admit(c)
      PROVE  RoomInv'
  BY <1>8, <1>3 DEF SetDroppedRecently, Admit, load
<1>9. ASSUME Finish \/ Tick \/ UNCHANGED vars
      PROVE  RoomInv'
  <2>1. stage' = stage /\ flying' \in {flying, flying - 1}
    BY <1>9 DEF Finish, Tick, load, vars
  <2>2. Inside' = Inside
    BY <2>1 DEF Inside
  <2>3. QED BY <2>1, <2>2 DEF RoomInv, TypeOK
<1>10. QED
  BY <1>1, <1>4, <1>5, <1>6, <1>7, <1>8, <1>9 DEF Next, Check

-----------------------------------------------------------------------------
(* The order of the two stores of a drop.                                  *)

LEMMA TimeStep ==
  ASSUME TypeOK, TimeInv, [Next]_vars
  PROVE  TimeInv'
<1> USE ShedderAssumption
<1>1. ASSUME NEW c \in Caller, NEW f, NEW t, Goto(c, f, t),
             t \notin {"dropStore", "dropFlag"},
             droppedRecently' \in {droppedRecently, "no"}, dropAge' = dropAge,
             \A d \in Caller : d # c => seenAge'[d] = seenAge[d]
      PROVE  TimeInv'
  BY <1>1 DEF TimeInv, TypeOK, Goto
<1>2. ASSUME NEW c \in Caller, Allow(c) \/ SystemOverloaded(c) \/ NotOverloaded(c)
      PROVE  TimeInv'
  BY <1>2, <1>1 DEF Allow, SystemOverloaded, NotOverloaded, drop, local
<1>3. ASSUME NEW c \in Caller, ReadAvg(c) \/ ReadFlying(c) \/ Admit(c)
      PROVE  TimeInv'
  BY <1>3, <1>1 DEF ReadAvg, ReadFlying, Admit, drop, local
<1>4. ASSUME NEW c \in Caller,
             HotLoadFlag(c) \/ HotLoadTime(c) \/ HotSince(c) \/ HotReset(c)
      PROVE  TimeInv'
  <2>1. CASE HotLoadTime(c)
    <3>1. /\ Goto(c, "time", IF dropAge = Never THEN IfCold(c) ELSE "since")
          /\ droppedRecently' = droppedRecently /\ dropAge' = dropAge
          /\ \A d \in Caller : d # c => seenAge'[d] = seenAge[d]
      BY <2>1 DEF HotLoadTime, drop, TypeOK
    <3>2. (IF dropAge = Never THEN IfCold(c) ELSE "since") \notin {"dropStore", "dropFlag"}
      BY DEF IfCold
    <3>. QED BY <1>1, <3>1, <3>2
  <2>2. CASE HotLoadFlag(c)
    BY <1>1, <2>2 DEF HotLoadFlag, IfCold, drop, local
  <2>3. CASE HotSince(c)
    BY <1>1, <2>3 DEF HotSince, IfHot, drop, local
  <2>4. CASE HotReset(c)
    BY <1>1, <2>4 DEF HotReset, IfCold, local
  <2>. QED BY <1>4, <2>1, <2>2, <2>3, <2>4
<1>5. ASSUME NEW c \in Caller, ReadClock(c) \/ SetDropTime(c)
      PROVE  TimeInv'
  <2>1. CASE ReadClock(c)
    <3>1. /\ \A d \in Caller : stage'[d] = IF d = c THEN "dropStore" ELSE stage[d]
          /\ \A d \in Caller : seenAge'[d] = IF d = c THEN 0 ELSE seenAge[d]
          /\ droppedRecently' = droppedRecently /\ dropAge' = dropAge
      BY <2>1 DEF ReadClock, Goto, drop, TypeOK
    <3>. QED BY <3>1 DEF TimeInv, Never
  <2>2. CASE SetDropTime(c)
    BY <2>2 DEF SetDropTime, Goto, local, TimeInv, TypeOK
  <2>. QED BY <1>5, <2>1, <2>2
<1>6. ASSUME NEW c \in Caller, SetDroppedRecently(c)
      PROVE  TimeInv'
  BY <1>6 DEF SetDroppedRecently, Goto, local, TimeInv, TypeOK
<1>7. ASSUME Finish \/ UNCHANGED vars
      PROVE  TimeInv'
  BY <1>7 DEF Finish, vars, drop, local, TimeInv
<1>8. ASSUME Tick
      PROVE  TimeInv'
  <2>1. \A a \in Age : a # Never => Older(a) # Never
    BY DEF Older, Never, Age
  <2>2. QED BY <1>8, <2>1 DEF Tick, TimeInv, TypeOK
<1>9. QED
  BY <1>2, <1>3, <1>4, <1>5, <1>6, <1>7, <1>8 DEF Next, Check

-----------------------------------------------------------------------------
(* Before the first overload.                                              *)

LEMMA CalmStep ==
  ASSUME TypeOK, CalmInv, [Next]_vars
  PROVE  CalmInv'
<1>1. ASSUME NEW c \in Caller, SystemOverloaded(c)
      PROVE  CalmInv'
  BY <1>1 DEF SystemOverloaded, CalmInv
<1>2. ASSUME NEW c \in Caller, Allow(c) \/ Admit(c)
      PROVE  CalmInv'
  BY <1>2 DEF Allow, Admit, Goto, drop, local, CalmInv, CalmStages, TypeOK
<1>3. ASSUME NEW c \in Caller, NotOverloaded(c)
      PROVE  CalmInv'
  BY <1>3 DEF NotOverloaded, Goto, drop, CalmInv, CalmStages, TypeOK
<1>4. ASSUME NEW c \in Caller, HotLoadFlag(c)
      PROVE  CalmInv'
  BY <1>4 DEF HotLoadFlag, IfCold, Goto, drop, local, CalmInv, CalmStages, TypeOK
\* Nobody has come this far.
<1>5. ASSUME NEW c \in Caller,
             \/ ReadAvg(c) \/ ReadFlying(c)
             \/ HotLoadTime(c) \/ HotSince(c) \/ HotReset(c)
             \/ ReadClock(c) \/ SetDropTime(c) \/ SetDroppedRecently(c)
      PROVE  CalmInv'
  <2>1. stage[c] \notin CalmStages
    BY <1>5 DEF ReadAvg, ReadFlying, HotLoadTime, HotSince, HotReset, ReadClock,
                SetDropTime, SetDroppedRecently, Goto, CalmStages
  <2>2. strained' = strained
    BY <1>5 DEF ReadAvg, ReadFlying, HotLoadTime, HotSince, HotReset, ReadClock,
                SetDropTime, SetDroppedRecently
  <2>3. QED BY <2>1, <2>2 DEF CalmInv
<1>6. ASSUME Finish \/ Tick \/ UNCHANGED vars
      PROVE  CalmInv'
  BY <1>6 DEF Finish, Tick, vars, drop, local, CalmInv
<1>7. QED
  BY <1>1, <1>2, <1>3, <1>4, <1>5, <1>6 DEF Next, Check

-----------------------------------------------------------------------------

LEMMA InvStep == IInv /\ [Next]_vars => IInv'
  BY TypeStep, RoomStep, TimeStep, CalmStep DEF IInv

LEMMA Invariant == Spec => []IInv
  BY InitIInv, InvStep, PTL DEF Spec

\* Every reachable state of the shedder has its type; in particular flying never
\* falls below zero, whatever order requests are admitted, dropped and ended in.
THEOREM TypeCorrect == Spec => []TypeOK
<1>1. IInv => TypeOK
  BY DEF IInv
<1>2. QED BY <1>1, Invariant, PTL

\* For any number of callers, droppedRecently is only ever found set with the
\* time of a drop.
THEOREM FlagTimed == Spec => []FlagHasTime
<1>1. IInv => FlagHasTime
  BY DEF IInv, TimeInv, FlagHasTime
<1>2. QED BY <1>1, Invariant, PTL

\* For any number of callers, nothing is dropped and no cool-off begins before
\* a caller has found the CPU overloaded.
THEOREM CalmDrops == Spec => []CalmDropsNothing
<1>1. IInv => CalmDropsNothing
  BY DEF IInv, CalmInv, CalmStages, CalmDropsNothing
<1>2. QED BY <1>1, Invariant, PTL

-----------------------------------------------------------------------------
(* The cool-off.                                                           *)

\* Between its load of dropTime and its reset of the flag.
Deciding == {"since", "reset"}

\* Nobody records a drop while another decides on the one before.
NoOvertaking ==
  \A c, d \in Caller : SetDropTime(c) => stage[d] \notin Deciding

\* Who decides knows the time of the last drop, and resets only what has cooled.
DecisionInv ==
  \A c \in Caller :
    /\ stage[c] \in Deciding => seenAge[c] = dropAge
    /\ stage[c] = "reset" => seenAge[c] >= CoolOff

LEMMA CoolOffStep ==
  ASSUME IInv, DecisionInv, CoolOffKept, [Next]_vars, [NoOvertaking]_vars
  PROVE  DecisionInv' /\ CoolOffKept'
<1>0. /\ TypeOK /\ CoolOff \in Nat \ {0} /\ dropAge \in 0 .. CoolOff + 1
      /\ seenAge \in [Caller -> 0 .. CoolOff + 1] /\ stage \in [Caller -> Stages]
  BY ShedderAssumption DEF IInv, TypeOK, Age, Never
<1>1. ASSUME NEW c \in Caller, NEW f, NEW t, Goto(c, f, t)
      PROVE  stage[c] = f /\ \A d \in Caller : stage'[d] = IF d = c THEN t ELSE stage[d]
  BY <1>0, <1>1 DEF Goto
\* A step that touches neither flag nor ages and enters neither stage.
<1>2. ASSUME NEW c \in Caller, NEW f, NEW t, t \notin Deciding \cup {"dropFlag"},
             f # "dropFlag", Goto(c, f, t),
             UNCHANGED <<droppedRecently, dropAge, seenAge>>
      PROVE  DecisionInv' /\ CoolOffKept'
  BY <1>1, <1>2 DEF DecisionInv, CoolOffKept, Deciding
<1>3. ASSUME NEW c \in Caller,
             \/ Allow(c) \/ SystemOverloaded(c) \/ NotOverloaded(c) \/ Admit(c)
             \/ ReadAvg(c) \/ ReadFlying(c) \/ HotLoadFlag(c)
      PROVE  DecisionInv' /\ CoolOffKept'
  <2>1. CASE Allow(c)
    BY <1>2, <2>1 DEF Allow, drop, local, Deciding
  <2>2. CASE SystemOverloaded(c)
    BY <1>2, <2>2 DEF SystemOverloaded, drop, local, Deciding
  <2>3. CASE NotOverloaded(c)
    BY <1>2, <2>3 DEF NotOverloaded, drop, Deciding
  <2>4. CASE Admit(c)
    BY <1>2, <2>4 DEF Admit, drop, local, Deciding
  <2>5. CASE ReadAvg(c)
    <3>1. PICK m \in 1 .. MaxCapacity :
            Goto(c, "avg", IF avgFlying > m THEN "flying" ELSE "admit")
      BY <2>5 DEF ReadAvg
    <3>. QED BY <1>2, <2>5, <3>1 DEF ReadAvg, drop, Deciding
  <2>6. CASE ReadFlying(c)
    BY <1>2, <2>6 DEF ReadFlying, drop, Deciding
  <2>7. CASE HotLoadFlag(c)
    BY <1>2, <2>7 DEF HotLoadFlag, drop, local, Deciding, IfCold
  <2>. QED BY <1>3, <2>1, <2>2, <2>3, <2>4, <2>5, <2>6, <2>7
<1>4. ASSUME NEW c \in Caller, HotLoadTime(c) PROVE DecisionInv' /\ CoolOffKept'
  <2>1. /\ \A d \in Caller : seenAge'[d] = IF d = c THEN dropAge ELSE seenAge[d]
        /\ UNCHANGED <<droppedRecently, dropAge>>
    BY <1>0, <1>4 DEF HotLoadTime, drop
  <2>2. /\ stage[c] = "time" /\ stage'[c] \notin {"reset", "dropFlag"}
        /\ \A d \in Caller : d # c => stage'[d] = stage[d]
    BY <1>1, <1>4 DEF HotLoadTime, IfCold
  <2>. QED BY <2>1, <2>2 DEF DecisionInv, CoolOffKept
<1>5. ASSUME NEW c \in Caller, HotSince(c) PROVE DecisionInv' /\ CoolOffKept'
  <2>1. UNCHANGED <<droppedRecently, dropAge, seenAge>>
    BY <1>5 DEF HotSince, drop, local
  <2>2. /\ stage[c] = "since" /\ stage'[c] # "dropFlag"
        /\ stage'[c] = "reset" => ~ (seenAge[c] < CoolOff)
        /\ \A d \in Caller : d # c => stage'[d] = stage[d]
    BY <1>1, <1>5 DEF HotSince, IfHot
  <2>3. seenAge[c] \in Nat
    BY <1>0
  <2>. QED BY <1>0, <2>1, <2>2, <2>3 DEF DecisionInv, CoolOffKept, Deciding
<1>6. ASSUME NEW c \in Caller, HotReset(c) PROVE DecisionInv' /\ CoolOffKept'
  <2>1. dropAge' = dropAge /\ seenAge' = seenAge
    BY <1>6 DEF HotReset, local
  <2>2. /\ stage[c] = "reset" /\ stage'[c] \notin Deciding \cup {"dropFlag"}
        /\ \A d \in Caller : d # c => stage'[d] = stage[d]
    BY <1>1, <1>6 DEF HotReset, IfCold, Deciding
  <2>3. ~ (dropAge < CoolOff)
    BY <1>0, <2>2 DEF DecisionInv, Deciding
  <2>. QED BY <2>1, <2>2, <2>3 DEF DecisionInv, CoolOffKept
<1>7. ASSUME NEW c \in Caller, SetDropTime(c) PROVE DecisionInv' /\ CoolOffKept'
  <2>1. /\ stage[c] = "dropStore" /\ stage'[c] = "dropFlag"
        /\ \A d \in Caller : d # c => stage'[d] = stage[d]
    BY <1>1, <1>7 DEF SetDropTime
  <2>2. \A d \in Caller : stage[d] \notin Deciding
    <3>1. stage' # stage
      BY <2>1
    <3>. QED BY <1>7, <3>1 DEF NoOvertaking, vars
  <2>. QED BY <2>1, <2>2 DEF DecisionInv, CoolOffKept, Deciding
<1>8. ASSUME NEW c \in Caller, SetDroppedRecently(c) PROVE DecisionInv' /\ CoolOffKept'
  <2>1. droppedRecently' = "yes" /\ dropAge' = dropAge /\ seenAge' = seenAge
    BY <1>8 DEF SetDroppedRecently, local
  <2>2. stage'[c] = "idle" /\ \A d \in Caller : d # c => stage'[d] = stage[d]
    BY <1>1, <1>8 DEF SetDroppedRecently
  <2>. QED BY <2>1, <2>2 DEF DecisionInv, CoolOffKept, Deciding
<1>9. CASE Tick
  <2>1. /\ stage' = stage /\ droppedRecently' = droppedRecently
        /\ dropAge' = Older(dropAge)
        /\ \A c \in Caller : seenAge'[c] = Older(seenAge[c])
    BY <1>9 DEF Tick
  <2>2. /\ dropAge' < CoolOff => dropAge < CoolOff
        /\ \A c \in Caller : seenAge[c] >= CoolOff => seenAge'[c] >= CoolOff
    BY <1>0, <2>1 DEF Older
  <2>. QED BY <2>1, <2>2 DEF DecisionInv, CoolOffKept
<1>10. CASE Finish \/ UNCHANGED vars
  BY <1>10 DEF Finish, vars, drop, local, DecisionInv, CoolOffKept
<1>11. ASSUME NEW c \in Caller, ReadClock(c) PROVE DecisionInv' /\ CoolOffKept'
  <2>1. /\ \A d \in Caller : seenAge'[d] = IF d = c THEN 0 ELSE seenAge[d]
        /\ UNCHANGED <<droppedRecently, dropAge>>
    BY <1>0, <1>11 DEF ReadClock, drop
  <2>2. /\ stage[c] = "dropTime" /\ stage'[c] = "dropStore"
        /\ \A d \in Caller : d # c => stage'[d] = stage[d]
    BY <1>1, <1>11 DEF ReadClock
  <2>. QED BY <2>1, <2>2 DEF DecisionInv, CoolOffKept, Deciding
<1>. QED BY <1>3, <1>4, <1>5, <1>6, <1>7, <1>8, <1>9, <1>10, <1>11
     DEF Next, Check

\* The comment in shouldDrop (adaptiveshedder.go:269), as far as dropTime is
\* right: stillHot finds the flag set until CoolOff has passed since dropTime, as
\* long as nobody stores a drop time while another is between its load of
\* dropTime and its reset of the flag. A sole caller never does.
THEOREM FlagLostOnlyByRace == Spec /\ [][NoOvertaking]_vars => []CoolOffKept
<1>1. Init => DecisionInv /\ CoolOffKept
  BY ShedderAssumption DEF Init, DecisionInv, CoolOffKept, Deciding, Never
<1>. QED BY <1>1, CoolOffStep, Invariant, PTL DEF Spec

\* Nobody overwrites the time of a drop with an older one.
NoOlderTime == \A c \in Caller : SetDropTime(c) => seenAge[c] <= dropAge

\* dropTime is then that of the newest drop.
NewestInv == sinceDrop = dropAge

LEMMA NewestStep ==
  ASSUME TypeOK, NewestInv, [Next]_vars, [NoOlderTime]_vars
  PROVE  NewestInv'
<1>0. /\ CoolOff \in Nat /\ dropAge \in 0 .. CoolOff + 1
      /\ seenAge \in [Caller -> 0 .. CoolOff + 1]
  BY ShedderAssumption DEF TypeOK, Age, Never
<1>1. ASSUME NEW c \in Caller, SetDropTime(c) PROVE NewestInv'
  <2>1. stage[c] = "dropStore" /\ stage' = [stage EXCEPT ![c] = "dropFlag"]
    BY <1>1 DEF SetDropTime, Goto
  <2>2. stage' # stage
    BY <2>1 DEF TypeOK
  <2>3. seenAge[c] <= dropAge
    BY <1>1, <2>2 DEF NoOlderTime, vars
  <2>4. seenAge[c] \in 0 .. CoolOff + 1
    BY <1>0
  <2>. QED BY <1>0, <1>1, <2>3, <2>4 DEF SetDropTime, NewestInv
<1>2. ASSUME NEW c \in Caller, Allow(c) \/ Check(c), ~ SetDropTime(c)
      PROVE  NewestInv'
  <2>1. dropAge' = dropAge /\ sinceDrop' = sinceDrop
    BY <1>2 DEF Allow, Check, SystemOverloaded, NotOverloaded, ReadAvg, ReadFlying,
                HotLoadFlag, HotLoadTime, HotSince, HotReset, ReadClock,
                SetDroppedRecently, Admit, drop
  <2>. QED BY <2>1 DEF NewestInv
<1>3. CASE Tick
  BY <1>3 DEF Tick, NewestInv
<1>4. CASE Finish \/ UNCHANGED vars
  BY <1>4 DEF Finish, vars, drop, NewestInv
<1>. QED BY <1>1, <1>2, <1>3, <1>4 DEF Next, Check

\* The comment in shouldDrop is right but for two races: stillHot finds the flag
\* set, with a time to go with it, until CoolOff has passed since the newest
\* drop, as long as nobody stores a drop time while another is between its load
\* of dropTime and its reset of the flag, and nobody stores a time that he read
\* before the one it replaces.
THEOREM CoolOffLostOnlyByRaces ==
  Spec /\ [][NoOvertaking]_vars /\ [][NoOlderTime]_vars => []CoolOffWhole
<1>1. Init => NewestInv
  BY DEF Init, NewestInv
<1>2. IInv /\ NewestInv /\ [Next]_vars /\ [NoOlderTime]_vars => NewestInv'
  BY NewestStep DEF IInv
<1>3. NewestInv /\ CoolOffKept => CoolOffWhole
  BY DEF NewestInv, CoolOffKept, CoolOffWhole
<1>. QED BY <1>1, <1>2, <1>3, FlagLostOnlyByRace, Invariant, PTL DEF Spec

=============================================================================
