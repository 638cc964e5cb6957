----------------------------- MODULE RestProofs -----------------------------
(***************************************************************************)
(* Proofs about the REST server, for any number of requests and any        *)
(* routes, settings and MaxConns.                                          *)
(*                                                                         *)
(* First the chain of RestChain: nothing that a request borrows or is      *)
(* counted in leaks, and every promise is settled by the answer. Then the  *)
(* gates of RestGate: they do nothing that the handler of the chain may    *)
(* not do, so that RestGate implements RestChain and has its invariants.   *)
(* Last, what the user's handler may rely on, and what becomes of a        *)
(* refusal.                                                                *)
(***************************************************************************)
EXTENDS RestGate, FiniteSetTheorems, TLAPS

-----------------------------------------------------------------------------
(* RestChain.                                                              *)

\* The requests of a route that hold an element of its latch, and those that
\* the shedder counts.
Serving(r) == {q \in Request : route[q] = r /\ stage[q] \notin {"idle", "answered"}}
Promised   == {q \in Request : shedder[q] = "promise"}

LeakInv ==
  /\ \A r \in Route : latch[r] = Cardinality(Serving(r))
  /\ flying = Cardinality(Promised)

\* What the way of a request through the chain says about its promises.
ByCode(q) ==
  /\ breaker[q] \in {"none", IF code[q] >= 500 THEN "reject" ELSE "accept"}
  /\ shedder[q] \in {"none", IF code[q] = 503 THEN "fail" ELSE "pass"}

WayIn(q) ==
  /\ stage[q] \in {"idle", "breaker"} => breaker[q] = "none" /\ shedder[q] = "none"
  /\ stage[q] = "shedder" => breaker[q] = "promise" /\ shedder[q] = "none"
  /\ stage[q] = "select" => breaker[q] = "promise" /\ shedder[q] = "promise"

WayOut(q) ==
  /\ stage[q] = "uncount" =>
       code[q] # 0 /\ breaker[q] = "promise" /\ shedder[q] = "promise"
  /\ stage[q] = "settle" =>
       /\ code[q] # 0 /\ breaker[q] = "promise"
       /\ shedder[q] \in {"none", IF code[q] = 503 THEN "fail" ELSE "pass"}
  /\ stage[q] \in {"return", "answered"} => code[q] # 0 /\ ByCode(q)

WayInv == \A q \in Request : WayIn(q) /\ WayOut(q)

IInv == TypeOK /\ LeakInv /\ WayInv

-----------------------------------------------------------------------------
(* The sets that are counted.                                              *)

LEMMA Finite ==
  /\ \A r : IsFiniteSet(Serving(r)) /\ Cardinality(Serving(r)) \in Nat
  /\ IsFiniteSet(Promised) /\ Cardinality(Promised) \in Nat
  BY RestChainAssumption, FS_Subset, FS_CardinalityType DEF Serving, Promised

\* A step between two stages inside the chain, and one from "idle" to a refusal,
\* leaves the requests in service alone.
LEMMA ServingSame ==
  ASSUME NEW q \in Request, NEW f, NEW t, Goto(q, f, t), stage \in [Request -> Stages],
         f \in {"idle", "answered"} <=> t \in {"idle", "answered"}
  PROVE  \A r : Serving(r)' = Serving(r)
<1>1. /\ \A p \in Request : stage'[p] = IF p = q THEN t ELSE stage[p]
      /\ stage[q] = f /\ route' = route
  BY DEF Goto
<1>2. QED BY <1>1 DEF Serving

LEMMA ServingMore ==
  ASSUME NEW q \in Request, NEW f, NEW t, Goto(q, f, t), stage \in [Request -> Stages],
         f = "idle", t \notin {"idle", "answered"}, NEW r \in Route
  PROVE  Cardinality(Serving(r)') =
           Cardinality(Serving(r)) + (IF r = route[q] THEN 1 ELSE 0)
<1>1. /\ \A p \in Request : stage'[p] = IF p = q THEN t ELSE stage[p]
      /\ stage[q] = f /\ route' = route
  BY DEF Goto
<1>2. CASE r = route[q]
  <2>1. q \notin Serving(r) /\ Serving(r)' = Serving(r) \cup {q}
    BY <1>1, <1>2 DEF Serving
  <2>2. QED BY <2>1, <1>2, Finite, FS_AddElement
<1>3. CASE r # route[q]
  <2>1. Serving(r)' = Serving(r)
    BY <1>1, <1>3 DEF Serving
  <2>2. QED BY <2>1, <1>3, Finite
<1>4. QED BY <1>2, <1>3

LEMMA ServingLess ==
  ASSUME NEW q \in Request, NEW f, NEW t, Goto(q, f, t), stage \in [Request -> Stages],
         f \notin {"idle", "answered"}, t = "answered", NEW r \in Route
  PROVE  Cardinality(Serving(r)') =
           Cardinality(Serving(r)) - (IF r = route[q] THEN 1 ELSE 0)
<1>1. /\ \A p \in Request : stage'[p] = IF p = q THEN t ELSE stage[p]
      /\ stage[q] = f /\ route' = route
  BY DEF Goto
<1>2. CASE r = route[q]
  <2>1. q \in Serving(r) /\ Serving(r)' = Serving(r) \ {q}
    BY <1>1, <1>2 DEF Serving
  <2>2. QED BY <2>1, <1>2, Finite, FS_RemoveElement
<1>3. CASE r # route[q]
  <2>1. Serving(r)' = Serving(r)
    BY <1>1, <1>3 DEF Serving
  <2>2. QED BY <2>1, <1>3, Finite
<1>4. QED BY <1>2, <1>3

LEMMA InitIInv == Init => IInv
<1> SUFFICES ASSUME Init PROVE IInv
  OBVIOUS
<1>1. TypeOK
  BY RestChainAssumption DEF Init, TypeOK, Stages, Codes
<1>2. LeakInv
  <2>1. Promised = {} /\ \A r : Serving(r) = {}
    BY DEF Init, Promised, Serving
  <2>2. QED BY <2>1, FS_EmptySet DEF Init, LeakInv
<1>3. WayInv
  BY DEF Init, WayInv, WayIn, WayOut
<1>4. QED BY <1>1, <1>2, <1>3 DEF IInv

-----------------------------------------------------------------------------
(* The latch and the count of the shedder.                                 *)

LEMMA LeakStep ==
  ASSUME IInv, [Next]_vars
  PROVE  LeakInv'
<1> USE RestChainAssumption, Finite
<1> USE DEF IInv
<1>1. ASSUME NEW q \in Request, Borrow(q)
      PROVE  LeakInv'
  <2>1. /\ Goto(q, "idle", "breaker") /\ flying' = flying /\ shedder' = shedder
        /\ latch' = [latch EXCEPT ![route[q]] = @ + 1]
    BY <1>1 DEF Borrow, promises
  <2>2. Promised' = Promised
    BY <2>1 DEF Promised
  <2>3. \A r \in Route : Cardinality(Serving(r)') =
          Cardinality(Serving(r)) + (IF r = route[q] THEN 1 ELSE 0)
    BY <2>1, ServingMore DEF TypeOK
  <2>4. QED BY <2>1, <2>2, <2>3 DEF LeakInv, TypeOK
<1>2. ASSUME NEW q \in Request, Return(q)
      PROVE  LeakInv'
  <2>1. /\ Goto(q, "return", "answered") /\ flying' = flying /\ shedder' = shedder
        /\ latch' = [latch EXCEPT ![route[q]] = @ - 1]
    BY <1>2 DEF Return, promises
  <2>2. Promised' = Promised
    BY <2>1 DEF Promised
  <2>3. \A r \in Route : Cardinality(Serving(r)') =
          Cardinality(Serving(r)) - (IF r = route[q] THEN 1 ELSE 0)
    BY <2>1, ServingLess DEF TypeOK
  <2>4. QED BY <2>1, <2>2, <2>3 DEF LeakInv, TypeOK
<1>3. ASSUME NEW q \in Request, ShedderAllows(q)
      PROVE  LeakInv'
  <2>1. /\ Goto(q, "shedder", "select") /\ flying' = flying + 1 /\ latch' = latch
        /\ shedder' = [shedder EXCEPT ![q] = "promise"]
    BY <1>3 DEF ShedderAllows
  <2>2. \A r : Serving(r)' = Serving(r)
    BY <2>1, ServingSame DEF TypeOK
  <2>3. q \notin Promised /\ Promised' = Promised \cup {q}
    BY <2>1 DEF Promised, Goto, WayInv, WayIn, TypeOK
  <2>4. Cardinality(Promised') = Cardinality(Promised) + 1
    BY <2>3, FS_AddElement
  <2>5. QED BY <2>1, <2>2, <2>4 DEF LeakInv
<1>4. ASSUME NEW q \in Request, ShedderReport(q)
      PROVE  LeakInv'
  <2>1. /\ Goto(q, "uncount", "settle") /\ flying' = flying - 1 /\ latch' = latch
        /\ \A p \in Request : p # q => shedder'[p] = shedder[p]
        /\ shedder'[q] # "promise"
    BY <1>4 DEF ShedderReport, TypeOK
  <2>2. \A r : Serving(r)' = Serving(r)
    BY <2>1, ServingSame DEF TypeOK
  <2>3. q \in Promised /\ Promised' = Promised \ {q}
    BY <2>1 DEF Promised, Goto, WayInv, WayOut
  <2>4. Cardinality(Promised') = Cardinality(Promised) - 1
    BY <2>3, FS_RemoveElement
  <2>5. QED BY <2>1, <2>2, <2>4 DEF LeakInv
\* The other steps of the chain touch neither.
<1>5. ASSUME NEW q \in Request, NEW f, NEW t, Goto(q, f, t),
             f \in {"idle", "answered"} <=> t \in {"idle", "answered"},
             counters' = counters, shedder' = shedder
      PROVE  LeakInv'
  <2>1. \A r : Serving(r)' = Serving(r)
    BY <1>5, ServingSame DEF TypeOK
  <2>2. Promised' = Promised
    BY <1>5 DEF Promised
  <2>3. QED BY <1>5, <2>1, <2>2 DEF LeakInv, counters
<1>6. ASSUME NEW q \in Request,
             \/ BorrowRefused(q) \/ BreakerDrops(q) \/ ShedderDrops(q)
             \/ SelectDone(q) \/ SelectContext(q)
      PROVE  LeakInv'
  BY <1>6, <1>5 DEF BorrowRefused, BreakerDrops, ShedderDrops, SelectDone,
                    SelectContext, promises
<1>7. ASSUME NEW q \in Request, BreakerAllows(q) \/ BreakerReport(q)
      PROVE  LeakInv'
  BY <1>7, <1>5 DEF BreakerAllows, BreakerReport
<1>8. ASSUME NEW q \in Request, Handler(q) \/ ContextDone(q)
      PROVE  LeakInv'
  <2>1. UNCHANGED <<route, stage, latch, flying, shedder>>
    BY <1>8 DEF Handler, HandlerWrites, HandlerReturns, HandlerPanics, ContextDone,
                counters, promises
  <2>2. Promised' = Promised /\ \A r : Serving(r)' = Serving(r)
    BY <2>1 DEF Promised, Serving
  <2>3. QED BY <2>1, <2>2 DEF LeakInv
<1>9. ASSUME UNCHANGED vars
      PROVE  LeakInv'
  <2>1. Promised' = Promised /\ \A r : Serving(r)' = Serving(r)
    BY <1>9 DEF Promised, Serving, vars, promises
  <2>2. QED BY <1>9, <2>1 DEF LeakInv, vars, counters
<1>10. QED
  BY <1>1, <1>2, <1>3, <1>4, <1>6, <1>7, <1>8, <1>9 DEF Next, Chain

-----------------------------------------------------------------------------
(* Types. The lower bounds of latch and flying come from what they count.  *)

LEMMA TypeStep ==
  ASSUME IInv, LeakInv', [Next]_vars
  PROVE  TypeOK'
<1> USE RestChainAssumption
<1> USE DEF IInv
<1>1. (\A r \in Route : latch'[r] \in Nat) /\ flying' \in Nat
  <2>1. IsFiniteSet(Promised') /\ \A r \in Route : IsFiniteSet(Serving(r)')
    BY FS_Subset DEF Promised, Serving
  <2>2. QED BY <2>1, FS_CardinalityType DEF LeakInv
<1>2. /\ HandlerCode \subseteq Codes
      /\ {0, OK, ClientClosed, InternalError, ServiceUnavailable} \subseteq Codes
  BY DEF Codes
<1>3. ASSUME NEW q \in Request, Borrow(q)
      PROVE  TypeOK'
  <2>1. latch' \in [Route -> 0 .. MaxConns]
    BY <1>3 DEF Borrow, TypeOK
  <2>2. QED BY <1>3, <1>1, <2>1 DEF Borrow, Goto, TypeOK, Stages, promises, goroutine
<1>4. ASSUME NEW q \in Request, BorrowRefused(q) \/ BreakerDrops(q) \/ ShedderDrops(q)
      PROVE  TypeOK'
  BY <1>4, <1>2 DEF BorrowRefused, BreakerDrops, ShedderDrops, Answer, Goto, TypeOK,
                    Stages, counters, promises, goroutine
<1>5. ASSUME NEW q \in Request, BreakerAllows(q)
      PROVE  TypeOK'
  BY <1>5 DEF BreakerAllows, Goto, TypeOK, Stages, counters, goroutine
<1>6. ASSUME NEW q \in Request, ShedderAllows(q)
      PROVE  TypeOK'
  BY <1>6, <1>1 DEF ShedderAllows, StartHandler, Goto, TypeOK, Stages
<1>7. ASSUME NEW q \in Request, HandlerWrites(q)
      PROVE  TypeOK'
  <2>1. written' \in [Request -> Codes]
    BY <1>7, <1>2 DEF HandlerWrites, WriteHeader, TypeOK
  <2>2. QED BY <1>7, <2>1 DEF HandlerWrites, TypeOK, counters, promises
<1>8. ASSUME NEW q \in Request, HandlerReturns(q)
      PROVE  TypeOK'
  BY <1>8 DEF HandlerReturns, TypeOK, counters, promises
<1>9. ASSUME NEW q \in Request, HandlerPanics(q)
      PROVE  TypeOK'
  BY <1>9, <1>2 DEF HandlerPanics, WriteHeader, TypeOK, counters, promises
<1>10. ASSUME NEW q \in Request, ContextDone(q)
       PROVE  TypeOK'
  BY <1>10 DEF ContextDone, TypeOK, counters, promises, goroutine
<1>11. ASSUME NEW q \in Request, SelectDone(q) \/ SelectContext(q)
       PROVE  TypeOK'
  BY <1>11, <1>2 DEF SelectDone, SelectContext, Answer, Goto, TypeOK, Stages,
                     counters, promises, goroutine
<1>12. ASSUME NEW q \in Request, ShedderReport(q)
       PROVE  TypeOK'
  BY <1>12, <1>1 DEF ShedderReport, Goto, TypeOK, Stages, goroutine
<1>13. ASSUME NEW q \in Request, BreakerReport(q)
       PROVE  TypeOK'
  BY <1>13 DEF BreakerReport, Goto, TypeOK, Stages, counters, goroutine
<1>14. ASSUME NEW q \in Request, Return(q)
       PROVE  TypeOK'
  <2>1. \A r \in Route : latch'[r] <= MaxConns
    BY <1>14 DEF Return, TypeOK
  <2>2. latch' \in [Route -> 0 .. MaxConns]
    BY <1>14, <1>1, <2>1 DEF Return, TypeOK
  <2>3. QED BY <1>14, <2>2 DEF Return, Goto, TypeOK, Stages, promises, goroutine
<1>15. CASE UNCHANGED vars
  BY <1>15 DEF TypeOK, vars, counters, promises, goroutine
<1>16. QED
  BY <1>3, <1>4, <1>5, <1>6, <1>7, <1>8, <1>9, <1>10, <1>11, <1>12, <1>13, <1>14,
     <1>15 DEF Next, Chain, Handler

-----------------------------------------------------------------------------
(* Promises. A step of one request leaves the others where they are.       *)

LEMMA OthersStay ==
  ASSUME NEW q \in Request, WayInv,
         \A p \in Request : p # q =>
           /\ stage'[p] = stage[p] /\ code'[p] = code[p]
           /\ breaker'[p] = breaker[p] /\ shedder'[p] = shedder[p],
         WayIn(q)', WayOut(q)'
  PROVE  WayInv'
  BY DEF WayInv, WayIn, WayOut, ByCode

LEMMA WayStep ==
  ASSUME IInv, [Next]_vars
  PROVE  WayInv'
<1> USE RestChainAssumption
<1> USE DEF IInv, OK, ClientClosed, InternalError, ServiceUnavailable
<1>1. ASSUME NEW q \in Request,
             \/ Borrow(q) \/ BorrowRefused(q)
             \/ BreakerDrops(q) \/ ShedderDrops(q)
      PROVE  WayInv'
  <2>1. \A p \in Request : p # q =>
           /\ stage'[p] = stage[p] /\ code'[p] = code[p]
           /\ breaker'[p] = breaker[p] /\ shedder'[p] = shedder[p]
    BY <1>1 DEF Borrow, BorrowRefused, BreakerDrops, ShedderDrops, Goto, Answer,
                TypeOK, promises
  <2>2. WayIn(q)' /\ WayOut(q)'
    BY <1>1 DEF Borrow, BorrowRefused, BreakerDrops, ShedderDrops, Goto, Answer,
                TypeOK, promises, WayInv, WayIn, WayOut, ByCode
  <2>3. QED BY <2>1, <2>2, OthersStay
<1>2. ASSUME NEW q \in Request, BreakerAllows(q) \/ ShedderAllows(q)
      PROVE  WayInv'
  <2>1. \A p \in Request : p # q =>
           /\ stage'[p] = stage[p] /\ code'[p] = code[p]
           /\ breaker'[p] = breaker[p] /\ shedder'[p] = shedder[p]
    BY <1>2 DEF BreakerAllows, ShedderAllows, Goto, TypeOK
  <2>2. WayIn(q)' /\ WayOut(q)'
    BY <1>2 DEF BreakerAllows, ShedderAllows, Goto, TypeOK, WayInv, WayIn, WayOut
  <2>3. QED BY <2>1, <2>2, OthersStay
<1>3. ASSUME NEW q \in Request, SelectDone(q) \/ SelectContext(q)
      PROVE  WayInv'
  <2>1. \A p \in Request : p # q =>
           /\ stage'[p] = stage[p] /\ code'[p] = code[p]
           /\ breaker'[p] = breaker[p] /\ shedder'[p] = shedder[p]
    BY <1>3 DEF SelectDone, SelectContext, Goto, Answer, TypeOK, promises
  <2>2. code'[q] # 0
    BY <1>3 DEF SelectDone, SelectContext, Answer, TypeOK
  <2>3. WayIn(q)' /\ WayOut(q)'
    BY <1>3, <2>2 DEF SelectDone, SelectContext, Goto, TypeOK, promises, WayInv,
                      WayIn, WayOut
  <2>4. QED BY <2>1, <2>3, OthersStay
<1>4. ASSUME NEW q \in Request, ShedderReport(q) \/ BreakerReport(q) \/ Return(q)
      PROVE  WayInv'
  <2>1. \A p \in Request : p # q =>
           /\ stage'[p] = stage[p] /\ code'[p] = code[p]
           /\ breaker'[p] = breaker[p] /\ shedder'[p] = shedder[p]
    BY <1>4 DEF ShedderReport, BreakerReport, Return, Goto, TypeOK, promises
  <2>2. code[q] \in Nat
    <3>1. \A c \in Codes : c \in Nat
      BY DEF Codes
    <3>2. QED BY <3>1 DEF TypeOK
  <2>3. WayIn(q)' /\ WayOut(q)'
    BY <1>4, <2>2 DEF ShedderReport, BreakerReport, Return, Goto, TypeOK, promises,
                      WayInv, WayIn, WayOut, ByCode
  <2>4. QED BY <2>1, <2>3, OthersStay
<1>5. ASSUME NEW q \in Request, Handler(q) \/ ContextDone(q)
      PROVE  WayInv'
  <2>1. UNCHANGED <<stage, code, breaker, shedder>>
    BY <1>5 DEF Handler, HandlerWrites, HandlerReturns, HandlerPanics, ContextDone,
                promises
  <2>2. QED BY <2>1 DEF WayInv, WayIn, WayOut, ByCode
<1>6. CASE UNCHANGED vars
  BY <1>6 DEF vars, promises, WayInv, WayIn, WayOut, ByCode
<1>7. QED
  BY <1>1, <1>2, <1>3, <1>4, <1>5, <1>6 DEF Next, Chain

-----------------------------------------------------------------------------

LEMMA InvStep == IInv /\ [Next]_vars => IInv'
<1> SUFFICES ASSUME IInv, [Next]_vars PROVE IInv'
  OBVIOUS
<1>1. LeakInv'
  BY LeakStep
<1>2. TypeOK'
  BY <1>1, TypeStep
<1>3. WayInv'
  BY WayStep
<1>4. QED BY <1>1, <1>2, <1>3 DEF IInv

LEMMA Invariant == Spec => []IInv
  BY InitIInv, InvStep, PTL DEF Spec

\* Every reachable state of the chain has its type; in particular the latch of a
\* route is never exceeded and never returned to more often than borrowed from.
THEOREM TypeCorrect == Spec => []TypeOK
<1>1. IInv => TypeOK
  BY DEF IInv
<1>2. QED BY <1>1, Invariant, PTL

\* For any number of requests and routes, no way through the chain leaks an
\* element of a latch or a request counted by the shedder.
THEOREM NoLeak == Spec => []NothingLeaks
<1>1. IInv => NothingLeaks
  BY DEF IInv, LeakInv, NothingLeaks, Serving, Promised
<1>2. QED BY <1>1, Invariant, PTL

\* For any number of requests, breaker and shedder are told once of each request
\* they let in, and what they are told follows from the code the client got.
THEOREM Judged == Spec => []JudgedByAnswer
<1>1. IInv => JudgedByAnswer
  BY DEF IInv, WayInv, WayOut, ByCode, JudgedByAnswer
<1>2. QED BY <1>1, Invariant, PTL

-----------------------------------------------------------------------------
(* What MaxConns bounds.                                                   *)

\* A handler runs only for a request that came through the latch.
HandlerInv ==
  \A q \in Request : handler[q] # "none" => stage[q] \notin {"idle", "breaker", "shedder"}

LEMMA HandlerStep ==
  ASSUME TypeOK, HandlerInv, [Next]_vars
  PROVE  HandlerInv'
<1>0. /\ stage \in [Request -> Stages]
      /\ handler \in [Request -> {"none", "running", "done"}]
  BY DEF TypeOK
<1>1. ASSUME NEW q \in Request, NEW f, NEW t, Goto(q, f, t),
             f # "idle", t \notin {"idle", "breaker", "shedder"},
             handler' \in {handler, [handler EXCEPT ![q] = "running"]}
      PROVE  HandlerInv'
  BY <1>0, <1>1 DEF HandlerInv, Goto
<1>2. ASSUME NEW q \in Request, NEW f, NEW t, Goto(q, f, t),
             f \in {"idle", "breaker", "shedder"}, handler' = handler
      PROVE  HandlerInv'
  BY <1>0, <1>2 DEF HandlerInv, Goto
<1>3. ASSUME NEW q \in Request, Handler(q) \/ ContextDone(q)
      PROVE  HandlerInv'
  BY <1>0, <1>3 DEF HandlerInv, Handler, HandlerWrites, HandlerReturns, HandlerPanics,
                    ContextDone, goroutine
<1>4. ASSUME NEW q \in Request,
             \/ Borrow(q) \/ BorrowRefused(q) \/ BreakerAllows(q) \/ BreakerDrops(q)
             \/ ShedderDrops(q)
      PROVE  HandlerInv'
  BY <1>2, <1>4 DEF Borrow, BorrowRefused, BreakerAllows, BreakerDrops, ShedderDrops,
                    goroutine
<1>5. ASSUME NEW q \in Request, ShedderAllows(q)
      PROVE  HandlerInv'
  BY <1>1, <1>5 DEF ShedderAllows, StartHandler
<1>6. ASSUME NEW q \in Request,
             \/ SelectDone(q) \/ SelectContext(q)
             \/ ShedderReport(q) \/ BreakerReport(q) \/ Return(q)
      PROVE  HandlerInv'
  BY <1>1, <1>6 DEF SelectDone, SelectContext, ShedderReport, BreakerReport, Return,
                    goroutine
<1>7. CASE UNCHANGED vars
  BY <1>7 DEF HandlerInv, vars, goroutine
<1>8. QED BY <1>3, <1>4, <1>5, <1>6, <1>7 DEF Next, Chain

LEMMA HandlersInLatch == Spec => []HandlerInv
<1>1. Init => HandlerInv
  BY DEF Init, HandlerInv
<1>2. QED BY <1>1, HandlerStep, TypeCorrect, PTL DEF Spec

Running(r) ==
  {q \in Request : route[q] = r /\ handler[q] = "running" /\ stage[q] # "answered"}

\* What the latch does bound, for any number of requests and routes: of the
\* handlers of one route whose request was not answered yet, MaxConns run at most.
THEOREM ConcurrencyPerRoute ==
  Spec => [](\A r \in Route : Cardinality(Running(r)) <= MaxConns)
<1>1. TypeOK /\ NothingLeaks /\ HandlerInv =>
        \A r \in Route : Cardinality(Running(r)) <= MaxConns
  <2> SUFFICES ASSUME TypeOK, NothingLeaks, HandlerInv, NEW r \in Route
               PROVE  Cardinality(Running(r)) <= MaxConns
    OBVIOUS
  <2>1. Running(r) \in SUBSET Serving(r)
    BY DEF Running, Serving, HandlerInv
  <2>2. Cardinality(Running(r)) \in Nat /\ Cardinality(Running(r)) <= Cardinality(Serving(r))
    BY <2>1, Finite, FS_Subset, FS_CardinalityType
  <2>3. Cardinality(Serving(r)) = latch[r] /\ latch[r] \in 0 .. MaxConns
    BY DEF NothingLeaks, Serving, TypeOK
  <2>4. QED BY <2>2, <2>3, RestChainAssumption
<1>2. QED BY <1>1, TypeCorrect, NoLeak, HandlersInLatch, PTL

\* The comment on MaxConns (config.go:38) is right for a service with one route as
\* long as no handler outlives its answer: nothing else lets more than MaxConns
\* handlers run at once.
THEOREM OneRouteBearsMaxConns ==
  ASSUME \A r, s \in Route : r = s
  PROVE  Spec /\ [](\A q \in Request : handler[q] = "running" => stage[q] # "answered")
           => []ServiceConcurrency
<1> DEFINE Patient == \A q \in Request : handler[q] = "running" => stage[q] # "answered"
           Bounded == \A r \in Route : Cardinality(Running(r)) <= MaxConns
<1>1. TypeOK /\ Patient /\ Bounded => ServiceConcurrency
  <2> SUFFICES ASSUME TypeOK, Patient, Bounded PROVE ServiceConcurrency
    OBVIOUS
  <2> DEFINE R == {q \in Request : handler[q] = "running"}
  <2>1. CASE R = {}
    BY <2>1, FS_EmptySet, RestChainAssumption DEF ServiceConcurrency
  <2>2. CASE R # {}
    <3>1. PICK p \in Request : p \in R
      BY <2>2
    <3>2. route[p] \in Route /\ R = Running(route[p])
      BY DEF TypeOK, Running
    <3>3. Cardinality(R) <= MaxConns
      BY <3>2
    <3>4. QED BY <3>3 DEF ServiceConcurrency
  <2>3. QED BY <2>1, <2>2
<1>2. QED BY <1>1, TypeCorrect, ConcurrencyPerRoute, PTL

-----------------------------------------------------------------------------
(* RestGate implements RestChain.                                          *)

LEMMA WriteIsHandlers ==
  ASSUME NEW q \in Request, NEW c \in HandlerCode, handler[q] = "running", Write(q, c)
  PROVE  HandlerWrites(q)
  BY DEF Write, HandlerWrites

\* The codes with which a gate, or a callback of the user in its place, refuses.
RefusalCode == GateCode \cup CallbackAnswer

LEMMA RefusalCodes ==
  /\ RefusalCode \subseteq HandlerCode
  /\ \A c \in RefusalCode : c \in Nat /\ c # 0
  /\ {BadRequest, Unauthorized, Unsigned, TooLarge, OK} \subseteq RefusalCode
  /\ CallbackAnswer \subseteq RefusalCode
<1>1. RefusalCode \subseteq HandlerCode
  BY RestGateAssumption DEF RefusalCode
<1>2. \A c \in HandlerCode : c \in Nat /\ c # 0
  BY RestChainAssumption
<1>3. QED BY <1>1, <1>2 DEF RefusalCode, GateCode, CallbackAnswer

\* A gate that refuses writes a code that the handler of the chain may write.
LEMMA RefuseIsHandlers ==
  ASSUME NEW q \in Request, NEW c \in RefusalCode, handler[q] = "running", Refuse(q, c)
  PROVE  HandlerWrites(q)
  BY WriteIsHandlers, RefusalCodes DEF Refuse

LEMMA UnauthorizedIsRefusal ==
  ASSUME NEW q \in Request
  PROVE  UnauthorizedCodes(q) \subseteq RefusalCode
  BY RefusalCodes DEF UnauthorizedCodes

\* What becomes of a request that ContentSecurityHandler does not accept.
LEMMA UnsignedWays ==
  ASSUME NEW q \in Request, UnsignedRequest(q)
  PROVE  \/ /\ GoTo(q, "handler") /\ refusal' = refusal
            /\ \/ Quiet
               \/ \E c \in RefusalCode : Write(q, c)
            /\ \/ setting[route[q]].signature = "lenient"
               \/ setting[route[q]].onUnsigned = "user"
         \/ \E c \in RefusalCode : Refuse(q, c)
         \/ /\ GoTo(q, "refused") /\ Quiet
            /\ refusal' = [refusal EXCEPT ![q] = OK]
  BY RefusalCodes DEF UnsignedRequest, UnsignedCallback

LEMMA GatesAreHandlers ==
  ASSUME NEW q \in Request, Gates(q)
  PROVE  Handler(q) \/ UNCHANGED vars
<1>2. CASE MaxBytes(q) \/ Gunzip(q) \/ Decrypt(q)
  BY <1>2, RefusalCodes, RefuseIsHandlers
     DEF MaxBytes, Gunzip, Decrypt, At, Quiet, Handler
<1>3. CASE LoadCounts(q) \/ CountLoads(q) \/ CountStores(q)
  BY <1>3 DEF LoadCounts, CountLoads, CountStores, Quiet
<1>4. CASE Authorize(q)
  BY <1>4, UnauthorizedIsRefusal, RefuseIsHandlers DEF Authorize, At, Quiet, Handler
<1>5. CASE ContentSecurity(q)
  <2>1. handler[q] = "running"
    BY <1>5 DEF ContentSecurity, At
  <2>2. CASE UnsignedRequest(q)
    <3>1. ASSUME NEW c \in RefusalCode, Write(q, c) \/ Refuse(q, c)
          PROVE  Handler(q)
      BY <3>1, <2>1, RefusalCodes, WriteIsHandlers, RefuseIsHandlers DEF Handler
    <3>2. QED BY <2>2, <3>1, UnsignedWays DEF Quiet
  <2>3. QED BY <1>5, <2>2 DEF ContentSecurity, Quiet
<1>6. CASE UserWritesHeader(q) \/ UserWritesBody(q) \/ Flush(q)
  <2>1. UserCode \subseteq HandlerCode /\ OK \in HandlerCode
    BY RestGateAssumption, RefusalCodes
  <2>2. QED BY <1>6, <2>1, WriteIsHandlers DEF UserWritesHeader, UserWritesBody, Flush, At, Quiet, Handler
<1>7. CASE GoroutineReturns(q) \/ GoroutinePanics(q)
  BY <1>7 DEF GoroutineReturns, GoroutinePanics, Handler
<1>8. QED BY <1>2, <1>3, <1>4, <1>5, <1>6, <1>7 DEF Gates

LEMMA StepOfChain == [GateNext]_gateVars => [Next]_vars
<1> SUFFICES ASSUME [GateNext]_gateVars PROVE [Next]_vars
  OBVIOUS
<1>1. CASE DayPasses
  BY <1>1 DEF DayPasses
<1>2. ASSUME NEW q \in Request, RouterRefuses(q)
      PROVE  [Next]_vars
  BY <1>2 DEF RouterRefuses
<1>3. ASSUME NEW q \in Request, RouterServes(q) \/ ChainStarts(q) \/ TimeRunsOut(q)
      PROVE  [Next]_vars
  BY <1>3 DEF RouterServes, ChainStarts, TimeRunsOut, Next, Chain
<1>4. ASSUME NEW q \in Request, ChainMoves(q)
      PROVE  [Next]_vars
  BY <1>4 DEF ChainMoves, Next, Chain
<1>5. ASSUME NEW q \in Request, Gates(q)
      PROVE  [Next]_vars
  BY <1>5, GatesAreHandlers DEF Next
<1>6. CASE UNCHANGED gateVars
  BY <1>6 DEF gateVars
<1>7. QED BY <1>1, <1>2, <1>3, <1>4, <1>5, <1>6 DEF GateNext

\* A route with its router and gates implements the chain around an arbitrary
\* handler: to the chain, router and gates are stuttering steps or steps of the
\* handler.
THEOREM GatesImplementChain == GateSpec => Spec
<1>1. GateInit => Init
  BY DEF GateInit
<1>2. QED BY <1>1, StepOfChain, PTL DEF GateSpec, Spec

\* So a route with its gates leaks neither an element of its latch nor a request
\* counted by the shedder, and its promises are settled by the answer.
THEOREM GatesNoLeak == GateSpec => [](NothingLeaks /\ JudgedByAnswer)
  BY GatesImplementChain, NoLeak, Judged, PTL

-----------------------------------------------------------------------------
(* What a gate passes on. A request is at a gate only if the setting of its *)
(* route has that gate, and past it only if it was let through.             *)

BeforeHandler == {"none", "size", "gzip", "token", "parse", "count", "store",
                  "signature", "crypt"}
Places == BeforeHandler \cup {"handler", "flushed", "panicking", "refused"}

GateTypeOK ==
  /\ setting \in [Route -> Setting]
  /\ route \in [Request -> Route]
  /\ gate \in [Request -> Places]
  /\ refusal \in [Request -> RefusalCode \cup {0}]
  /\ token \in [Request -> Secret \cup {"none", "invalid"}]
  /\ first \in [Request -> Secret \cup {"none"}]
  /\ signed \in [Request -> {"none", "pass", "failed"}]

Jwt(q) == setting[route[q]].jwt

TokenFits(q) ==
  /\ Jwt(q) = "on" => token[q] = "secret"
  /\ Jwt(q) = "transition" => token[q] \in Secret

SignatureFits(q) ==
  LET s == setting[route[q]] IN
  s.signature = "strict" /\ s.onUnsigned = "none"
    /\ target[q][1] \in {"DELETE", "GET", "POST", "PUT"} => signed[q] = "pass"

AtToken(q) ==
  /\ gate[q] = "token" => Jwt(q) # "off"
  /\ gate[q] = "parse" =>
       /\ Jwt(q) # "off" /\ first[q] \in Secret
       /\ Jwt(q) = "on" => first[q] = "secret"
  /\ gate[q] \in {"count", "store"} => Jwt(q) = "transition" /\ token[q] \in Secret

PastToken(q) ==
  /\ gate[q] = "signature" => TokenFits(q)
  /\ gate[q] = "crypt" => TokenFits(q) /\ signed[q] = "pass"
  /\ InHandler(q) => TokenFits(q) /\ SignatureFits(q)

Refused(q) == refusal[q] # 0 => gate[q] = "refused"

GuardInv == \A q \in Request : AtToken(q) /\ PastToken(q) /\ Refused(q)

\* The variables of the goroutine that the invariant speaks of.
Own(q) == <<gate[q], refusal[q], token[q], first[q], signed[q]>>

LEMMA InitGuard == GateInit => GateTypeOK /\ GuardInv
<1> SUFFICES ASSUME GateInit PROVE GateTypeOK /\ GuardInv
  OBVIOUS
<1>1. setting \in [Route -> Setting]
  BY SettingsAssumption DEF GateInit
<1>2. GateTypeOK
  BY <1>1 DEF GateInit, Init, GateTypeOK, Places, BeforeHandler
<1>3. GuardInv
  BY DEF GateInit, GuardInv, AtToken, PastToken, Refused, InHandler
<1>4. QED BY <1>2, <1>3

\* A step of one request leaves the others where they are.
LEMMA GuardOthers ==
  ASSUME NEW q \in Request, GuardInv,
         setting' = setting, route' = route, target' = target,
         \A p \in Request : p # q => Own(p)' = Own(p),
         AtToken(q)', PastToken(q)', Refused(q)'
  PROVE  GuardInv'
<1>1. ASSUME NEW p \in Request, p # q
      PROVE  AtToken(p)' /\ PastToken(p)' /\ Refused(p)'
  <2>1. /\ gate'[p] = gate[p] /\ refusal'[p] = refusal[p] /\ token'[p] = token[p]
        /\ first'[p] = first[p] /\ signed'[p] = signed[p]
    BY <1>1 DEF Own
  <2>2. AtToken(p) /\ PastToken(p) /\ Refused(p)
    BY DEF GuardInv
  <2>3. QED BY <2>1, <2>2 DEF AtToken, PastToken, Refused, Jwt, TokenFits, SignatureFits,
                              InHandler
<1>2. QED BY <1>1 DEF GuardInv

\* What every step of a gate, of the handler behind it and of the start of their
\* goroutine leaves alone.
LEMMA OneGoroutine ==
  ASSUME GateTypeOK, NEW q \in Request, Gates(q) \/ ChainStarts(q)
  PROVE  /\ setting' = setting /\ route' = route /\ target' = target
         /\ \A p \in Request : p # q => Own(p)' = Own(p)
<1> USE DEF GateTypeOK, Own, At, GoTo, Refuse, Write, Quiet, request, router, vars, gates
<1>1. CASE MaxBytes(q) \/ Gunzip(q)
  BY <1>1 DEF MaxBytes, Gunzip
<1>2. CASE LoadCounts(q) \/ CountLoads(q) \/ CountStores(q)
  BY <1>2 DEF LoadCounts, CountLoads, CountStores
<1>3. CASE Authorize(q)
  BY <1>3 DEF Authorize
<1>4. CASE ContentSecurity(q)
  BY <1>4, UnsignedWays DEF ContentSecurity
<1>5. CASE Decrypt(q)
  BY <1>5 DEF Decrypt
<1>6. CASE UserWritesHeader(q) \/ UserWritesBody(q) \/ Flush(q)
  BY <1>6 DEF UserWritesHeader, UserWritesBody, Flush
<1>7. CASE GoroutineReturns(q) \/ GoroutinePanics(q)
  BY <1>7 DEF GoroutineReturns, GoroutinePanics, HandlerReturns, HandlerPanics
<1>8. CASE ChainStarts(q)
  BY <1>8 DEF ChainStarts, ShedderAllows, Goto
<1>9. QED BY <1>1, <1>2, <1>3, <1>4, <1>5, <1>6, <1>7, <1>8 DEF Gates

\* The refusal by which a gate ends a request.
LEMMA RefuseGuard ==
  ASSUME GateTypeOK, NEW q \in Request, NEW c, Refuse(q, c),
         setting' = setting, route' = route
  PROVE  AtToken(q)' /\ PastToken(q)' /\ Refused(q)'
<1>1. gate'[q] = "refused" /\ refusal'[q] = c
  BY DEF Refuse, GoTo, GateTypeOK
<1>2. QED BY <1>1 DEF AtToken, PastToken, Refused, InHandler, Jwt

\* A request that goes on from a gate past the token.
LEMMA PassOn ==
  ASSUME GateTypeOK, NEW q \in Request, TokenFits(q)', GoTo(q, AfterToken(q)),
         setting' = setting, route' = route, target' = target, refusal'[q] = 0
  PROVE  AtToken(q)' /\ PastToken(q)' /\ Refused(q)'
<1>1. gate'[q] = AfterToken(q)
  BY DEF GoTo, GateTypeOK
<1>2. Signed(q) => gate'[q] = "signature"
  BY <1>1 DEF AfterToken
<1>3. ~Signed(q) => gate'[q] = "handler" /\ SignatureFits(q)'
  BY <1>1 DEF AfterToken, Signed, SignatureFits
<1>4. QED
  BY <1>2, <1>3 DEF AtToken, PastToken, Refused, InHandler

LEMMA GuardStep ==
  ASSUME GateTypeOK, GuardInv, NEW q \in Request,
         Gates(q) \/ (ChainStarts(q) /\ gate[q] = "none")
  PROVE  AtToken(q)' /\ PastToken(q)' /\ Refused(q)'
<1> DEFINE Goal == AtToken(q)' /\ PastToken(q)' /\ Refused(q)'
<1> USE DEF At, Quiet
<1>0. /\ setting' = setting /\ route' = route /\ target' = target
      /\ AtToken(q) /\ PastToken(q) /\ Refused(q)
      /\ setting[route[q]] \in Setting
  BY OneGoroutine DEF GuardInv, GateTypeOK
<1>1. gate[q] # "refused" => refusal[q] = 0
  BY <1>0 DEF Refused
<1>2. CASE MaxBytes(q)
  <2>1. CASE Refuse(q, TooLarge)
    BY <2>1, <1>0, RefuseGuard
  <2>2. CASE GoTo(q, "gzip") /\ refusal' = refusal
    BY <2>2, <1>2, <1>0, <1>1 DEF MaxBytes, GoTo, GateTypeOK, AtToken, PastToken, Refused,
       InHandler
  <2>3. QED BY <1>2, <2>1, <2>2 DEF MaxBytes
<1>3. CASE Gunzip(q)
  <2>1. CASE Refuse(q, BadRequest)
    BY <2>1, <1>0, RefuseGuard
  <2>2. CASE GoTo(q, AfterBody(q)) /\ refusal' = refusal
    <3>1. refusal'[q] = 0
      BY <2>2, <1>3, <1>1 DEF Gunzip
    <3>2. CASE Jwt(q) = "off"
      <4>1. TokenFits(q)' /\ GoTo(q, AfterToken(q))
        BY <2>2, <3>2, <1>0 DEF AfterBody, Jwt, TokenFits
      <4>2. QED BY <4>1, <3>1, <1>0, PassOn
    <3>3. CASE Jwt(q) # "off"
      <4>1. gate'[q] = "token"
        BY <2>2, <3>3 DEF AfterBody, Jwt, GoTo, GateTypeOK
      <4>2. QED
        BY <4>1, <3>1, <3>3, <1>0 DEF AtToken, PastToken, Refused, InHandler, Jwt
    <3>4. QED BY <3>2, <3>3
  <2>3. QED BY <1>3, <2>1, <2>2 DEF Gunzip
<1>4. CASE LoadCounts(q)
  <2>1. /\ gate[q] = "token" /\ gate'[q] = "parse" /\ refusal' = refusal
        /\ Jwt(q) # "off" /\ first'[q] \in Secret
        /\ Jwt(q) = "on" => first'[q] = "secret"
    BY <1>4, <1>0 DEF LoadCounts, AtToken, GoTo, GateTypeOK, Secret, Jwt
  <2>2. QED
    BY <2>1, <1>0, <1>1 DEF AtToken, PastToken, Refused, InHandler, Jwt
<1>5. CASE Authorize(q)
  <2>1. /\ gate[q] = "parse" /\ Jwt(q) # "off" /\ first[q] \in Secret
        /\ Jwt(q) = "on" => first[q] = "secret"
        /\ Jwt(q) \in {"on", "transition"} /\ refusal[q] = 0
    BY <1>5, <1>0, <1>1 DEF Authorize, AtToken, Setting, JwtSetting, Jwt
  <2>2. PICK t \in Secret \cup {"invalid"} :
          /\ token' = [token EXCEPT ![q] = t]
          /\ \/ /\ Opens(q, t)
                /\ GoTo(q, IF setting[route[q]].jwt = "transition" THEN "count"
                           ELSE AfterToken(q))
                /\ Quiet /\ UNCHANGED refusal
             \/ ~Opens(q, t) /\ \E c \in UnauthorizedCodes(q) : Refuse(q, c)
    BY <1>5 DEF Authorize
  <2>3. token'[q] = t
    BY <2>2 DEF GateTypeOK
  <2>4. CASE \E c \in UnauthorizedCodes(q) : Refuse(q, c)
    BY <2>4, <1>0, RefuseGuard
  <2>5. CASE Opens(q, t) /\ refusal' = refusal /\ Jwt(q) = "transition" /\ GoTo(q, "count")
    <3>1. gate'[q] = "count" /\ token'[q] \in Secret
      BY <2>1, <2>3, <2>5 DEF Opens, GoTo, GateTypeOK
    <3>2. QED
      BY <3>1, <2>1, <2>5, <1>0 DEF AtToken, PastToken, Refused, InHandler, Jwt
  <2>6. CASE /\ Opens(q, t) /\ refusal' = refusal /\ Jwt(q) = "on"
             /\ GoTo(q, AfterToken(q))
    <3>1. TokenFits(q)'
      BY <2>1, <2>3, <2>6, <1>0 DEF Opens, TokenFits, Jwt
    <3>2. QED BY <3>1, <2>1, <2>6, <1>0, PassOn
  <2>7. QED BY <2>1, <2>2, <2>4, <2>5, <2>6 DEF Jwt
<1>6. CASE CountLoads(q)
  <2>1. gate[q] = "count" /\ gate'[q] = "store" /\ token' = token /\ refusal' = refusal
    BY <1>6 DEF CountLoads, GoTo, GateTypeOK, request
  <2>2. QED
    BY <2>1, <1>0, <1>1 DEF AtToken, PastToken, Refused, InHandler, Jwt
<1>7. CASE CountStores(q)
  <2>1. /\ gate[q] = "store" /\ GoTo(q, AfterToken(q))
        /\ token' = token /\ refusal' = refusal
    BY <1>7 DEF CountStores, request
  <2>2. TokenFits(q)'
    BY <2>1, <1>0 DEF AtToken, TokenFits, Jwt
  <2>3. QED BY <2>1, <2>2, <1>0, <1>1, PassOn
<1>8. CASE ContentSecurity(q)
  <2>1. gate[q] = "signature" /\ TokenFits(q) /\ token' = token /\ refusal[q] = 0
    BY <1>8, <1>0, <1>1 DEF ContentSecurity, PastToken
  <2>2. TokenFits(q)'
    BY <2>1, <1>0 DEF TokenFits, Jwt
  <2>3. PICK verdict \in {Verdict(h) : h \in Header} :
          /\ signed' = [signed EXCEPT ![q] = IF verdict = "pass" THEN "pass" ELSE "failed"]
          /\ \/ verdict # "pass" /\ UnsignedRequest(q)
             \/ /\ verdict = "pass"
                /\ \E to \in {"handler", "crypt"} : GoTo(q, to)
                /\ Quiet /\ UNCHANGED refusal
    BY <1>8 DEF ContentSecurity
  <2>4. CASE /\ signed'[q] = "pass" /\ refusal' = refusal
             /\ \E to \in {"handler", "crypt"} : GoTo(q, to)
    <3>1. gate'[q] \in {"handler", "crypt"}
      BY <2>4 DEF GoTo, GateTypeOK
    <3>2. QED
      BY <3>1, <2>1, <2>2, <2>4 DEF AtToken, PastToken, Refused, InHandler, SignatureFits
  <2>5. CASE signed'[q] = "failed" /\ UnsignedRequest(q)
    <3>1. CASE \E c \in RefusalCode : Refuse(q, c)
      BY <3>1, <1>0, RefuseGuard
    <3>2. CASE /\ GoTo(q, "handler") /\ refusal' = refusal
               /\ \/ setting[route[q]].signature = "lenient"
                  \/ setting[route[q]].onUnsigned = "user"
      <4>1. gate'[q] = "handler" /\ SignatureFits(q)'
        BY <3>2, <1>0 DEF GoTo, GateTypeOK, SignatureFits
      <4>2. QED
        BY <4>1, <3>2, <2>1, <2>2 DEF AtToken, PastToken, Refused, InHandler
    <3>3. CASE GoTo(q, "refused")
      <4>1. gate'[q] = "refused"
        BY <3>3 DEF GoTo, GateTypeOK
      <4>2. QED BY <4>1 DEF AtToken, PastToken, Refused, InHandler
    <3>4. QED BY <2>5, <3>1, <3>2, <3>3, UnsignedWays
  <2>6. QED BY <2>3, <2>4, <2>5 DEF GateTypeOK
<1>9. CASE Decrypt(q)
  <2>1. CASE Refuse(q, BadRequest)
    BY <2>1, <1>0, RefuseGuard
  <2>2. CASE GoTo(q, "handler") /\ refusal' = refusal
    <3>1. /\ gate[q] = "crypt" /\ gate'[q] = "handler"
          /\ token' = token /\ signed' = signed
      BY <1>9, <2>2 DEF Decrypt, GoTo, GateTypeOK
    <3>2. TokenFits(q)' /\ SignatureFits(q)' /\ refusal'[q] = 0
      BY <3>1, <2>2, <1>0, <1>1 DEF PastToken, TokenFits, SignatureFits, Jwt
    <3>3. QED
      BY <3>1, <3>2 DEF AtToken, PastToken, Refused, InHandler
  <2>3. QED BY <1>9, <2>1, <2>2 DEF Decrypt
\* Behind the gates only the place changes.
<1>10. ASSUME InHandler(q), gate'[q] \in {"handler", "flushed", "panicking"},
              UNCHANGED <<refusal, token, first, signed>>
       PROVE  Goal
  BY <1>0, <1>10 DEF AtToken, PastToken, Refused, InHandler, TokenFits, SignatureFits, Jwt
<1>11. CASE UserWritesHeader(q) \/ UserWritesBody(q)
  BY <1>11, <1>10 DEF UserWritesHeader, UserWritesBody, InHandler, request
<1>12. CASE Flush(q)
  <2>1. gate'[q] \in {"handler", "flushed", "panicking"} /\ InHandler(q)
    BY <1>12 DEF Flush, GoTo, GateTypeOK, InHandler
  <2>2. QED BY <1>12, <2>1, <1>10 DEF Flush, request
<1>13. CASE GoroutineReturns(q) \/ GoroutinePanics(q)
  <2>1. gate' = gate /\ UNCHANGED <<refusal, token, first, signed>>
    BY <1>13 DEF GoroutineReturns, GoroutinePanics, gates, request
  <2>2. QED
    BY <2>1, <1>0 DEF AtToken, PastToken, Refused, InHandler, TokenFits, SignatureFits, Jwt
<1>14. CASE ChainStarts(q) /\ gate[q] = "none"
  <2>1. gate'[q] = "size" /\ UNCHANGED <<refusal, token, first, signed>>
    BY <1>14 DEF ChainStarts, GateTypeOK, request
  <2>2. QED
    BY <2>1, <1>14, <1>0, <1>1 DEF AtToken, PastToken, Refused, InHandler
<1>15. QED
  BY <1>2, <1>3, <1>4, <1>5, <1>6, <1>7, <1>8, <1>9, <1>11, <1>12, <1>13, <1>14 DEF Gates

-----------------------------------------------------------------------------
(* What the chain makes of a refusal.                                      *)

TimedOut(q) == ctx[q] # "open" /\ code[q] \in {ClientClosed, ServiceUnavailable}

Entered(q) ==
  /\ stage[q] \in {"idle", "breaker", "shedder"} => gate[q] = "none" /\ handler[q] = "none"
  /\ gate[q] \in BeforeHandler => written[q] = 0
  /\ gate[q] # "none" => breaker[q] # "none" /\ shedder[q] # "none"

Told(q) ==
  /\ stage[q] = "select" /\ refusal[q] # 0 =>
       written[q] = refusal[q] \/ (written[q] = 0 /\ refusal[q] = OK)
  /\ stage[q] \in {"uncount", "settle", "return", "answered"} =>
       /\ handler[q] = "running" => TimedOut(q)
       /\ refusal[q] # 0 => code[q] = refusal[q] \/ TimedOut(q)

TellInv == \A q \in Request : Entered(q) /\ Told(q)

GateInv == IInv /\ GateTypeOK /\ GuardInv /\ TellInv

LEMMA InitTell == GateInit => TellInv
  BY DEF GateInit, Init, TellInv, Entered, Told

\* The variables of a request that the invariant speaks of.
Seen(q) == <<gate[q], refusal[q], stage[q], handler[q], written[q], code[q], ctx[q],
             breaker[q], shedder[q]>>

LEMMA TellOthers ==
  ASSUME NEW q \in Request, TellInv, \A p \in Request : p # q => Seen(p)' = Seen(p),
         Entered(q)', Told(q)'
  PROVE  TellInv'
<1>1. ASSUME NEW p \in Request, p # q
      PROVE  Entered(p)' /\ Told(p)'
  <2>1. /\ gate'[p] = gate[p] /\ refusal'[p] = refusal[p] /\ stage'[p] = stage[p]
        /\ handler'[p] = handler[p] /\ written'[p] = written[p] /\ code'[p] = code[p]
        /\ ctx'[p] = ctx[p] /\ breaker'[p] = breaker[p] /\ shedder'[p] = shedder[p]
    BY <1>1 DEF Seen
  <2>2. Entered(p) /\ Told(p)
    BY DEF TellInv
  <2>3. QED BY <2>1, <2>2 DEF Entered, Told, TimedOut
<1>2. QED BY <1>1 DEF TellInv

\* A step of the goroutine of the handler: what it leaves alone.
LEMMA GoroutineOthers ==
  ASSUME TypeOK, GateTypeOK, NEW q \in Request, Gates(q)
  PROVE  /\ handler[q] = "running"
         /\ UNCHANGED <<stage, code, ctx, breaker, shedder>>
         /\ \A p \in Request : p # q => Seen(p)' = Seen(p)
<1> USE DEF TypeOK, GateTypeOK, Seen, At, GoTo, Refuse, Write, WriteHeader, Quiet, request,
            promises, goroutine, vars, gates
<1>1. CASE MaxBytes(q) \/ Gunzip(q)
  BY <1>1 DEF MaxBytes, Gunzip
<1>2. CASE LoadCounts(q) \/ CountLoads(q) \/ CountStores(q)
  BY <1>2 DEF LoadCounts, CountLoads, CountStores
<1>3. CASE Authorize(q)
  BY <1>3 DEF Authorize
<1>4. CASE ContentSecurity(q)
  BY <1>4, UnsignedWays DEF ContentSecurity
<1>5. CASE Decrypt(q)
  BY <1>5 DEF Decrypt
<1>6. CASE UserWritesHeader(q) \/ UserWritesBody(q)
  BY <1>6 DEF UserWritesHeader, UserWritesBody
<1>7. CASE Flush(q)
  BY <1>7 DEF Flush
<1>8. CASE GoroutineReturns(q) \/ GoroutinePanics(q)
  BY <1>8 DEF GoroutineReturns, GoroutinePanics, HandlerReturns, HandlerPanics
<1>9. QED BY <1>1, <1>2, <1>3, <1>4, <1>5, <1>6, <1>7, <1>8 DEF Gates

\* A request goes on to the next gate, or to the handler.
LEMMA GoesOn ==
  ASSUME GateTypeOK, NEW q \in Request, Entered(q), Told(q),
         handler[q] = "running", gate[q] # "none",
         gate'[q] \in BeforeHandler => gate[q] \in BeforeHandler,
         UNCHANGED <<stage, code, ctx, breaker, shedder, handler, written>>,
         refusal'[q] = refusal[q]
  PROVE  Entered(q)' /\ Told(q)'
  BY DEF Entered, Told, TimedOut

\* A gate refuses a request with the code c.
LEMMA IsRefused ==
  ASSUME TypeOK, GateTypeOK, NEW q \in Request, Entered(q), Told(q), NEW c \in RefusalCode,
         handler[q] = "running", gate[q] \in BeforeHandler \ {"none"}, Refuse(q, c),
         UNCHANGED <<stage, code, ctx, breaker, shedder>>
  PROVE  Entered(q)' /\ Told(q)'
<1>1. /\ refusal'[q] = c /\ gate'[q] = "refused" /\ handler' = handler
      /\ stage[q] = "select" => written'[q] = c
  BY DEF Refuse, Write, WriteHeader, GoTo, GateTypeOK, TypeOK, Entered
<1>2. stage[q] \notin {"idle", "breaker", "shedder"} /\ c # 0
  BY RefusalCodes DEF Entered
<1>3. QED BY <1>1, <1>2 DEF Entered, Told, TimedOut, BeforeHandler

\* A callback ends a request without an answer of its own, which is a 200.
LEMMA IsEnded ==
  ASSUME GateTypeOK, NEW q \in Request, Entered(q), Told(q), Quiet,
         handler[q] = "running", gate[q] \in BeforeHandler \ {"none"},
         GoTo(q, "refused"), refusal' = [refusal EXCEPT ![q] = OK]
  PROVE  Entered(q)' /\ Told(q)'
<1>1. /\ refusal'[q] = OK /\ gate'[q] = "refused" /\ written[q] = 0
      /\ UNCHANGED <<stage, code, ctx, breaker, shedder, handler, written>>
  BY DEF Quiet, GoTo, GateTypeOK, Entered, vars, goroutine, promises
<1>2. QED BY <1>1 DEF Entered, Told, TimedOut, BeforeHandler

\* A callback writes and then lets the request go on to the user's handler.
LEMMA WritesAndGoesOn ==
  ASSUME GateTypeOK, NEW q \in Request, Entered(q), Told(q),
         handler[q] = "running", gate[q] # "none", GoTo(q, "handler"),
         UNCHANGED <<stage, code, ctx, breaker, shedder, handler, refusal>>,
         refusal[q] = 0
  PROVE  Entered(q)' /\ Told(q)'
<1>1. gate'[q] = "handler"
  BY DEF GoTo, GateTypeOK
<1>2. QED BY <1>1 DEF Entered, Told, TimedOut, BeforeHandler

LEMMA TellGate ==
  ASSUME TypeOK, GateTypeOK, NEW q \in Request, Entered(q), Told(q), Refused(q), Gates(q)
  PROVE  Entered(q)' /\ Told(q)'
<1> DEFINE Goal == Entered(q)' /\ Told(q)'
<1>1. /\ handler[q] = "running" /\ UNCHANGED <<stage, code, ctx, breaker, shedder>>
      /\ gate[q] # "refused" => refusal[q] = 0
  BY GoroutineOthers DEF Refused
<1>2. {BadRequest, Unauthorized, Unsigned, TooLarge} \subseteq RefusalCode
  BY RefusalCodes
<1>3. ASSUME gate[q] \in BeforeHandler \ {"none"}, NEW c \in RefusalCode, Refuse(q, c)
      PROVE  Goal
  BY <1>3, <1>1, IsRefused
<1>4. ASSUME gate[q] \in BeforeHandler \ {"none"}, Quiet, refusal' = refusal
      PROVE  Goal
  BY <1>4, <1>1, GoesOn DEF Quiet, vars, goroutine
<1>5. CASE MaxBytes(q) \/ Gunzip(q) \/ Decrypt(q)
  BY <1>5, <1>2, <1>3, <1>4 DEF MaxBytes, Gunzip, Decrypt, At, BeforeHandler
<1>6. CASE LoadCounts(q) \/ CountLoads(q) \/ CountStores(q)
  BY <1>6, <1>4 DEF LoadCounts, CountLoads, CountStores, At, BeforeHandler, request
<1>7. CASE Authorize(q)
  BY <1>7, UnauthorizedIsRefusal, <1>3, <1>4 DEF Authorize, At, BeforeHandler
<1>8. CASE ContentSecurity(q)
  <2>1. gate[q] \in BeforeHandler \ {"none"} /\ refusal[q] = 0
    BY <1>8, <1>1 DEF ContentSecurity, At, BeforeHandler
  <2>2. CASE UnsignedRequest(q)
    <3>1. CASE /\ GoTo(q, "handler") /\ refusal' = refusal
               /\ \E c \in RefusalCode : Write(q, c)
      BY <3>1, <2>1, <1>1, WritesAndGoesOn DEF Write
    <3>2. CASE /\ GoTo(q, "refused") /\ Quiet
               /\ refusal' = [refusal EXCEPT ![q] = OK]
      BY <3>2, <2>1, <1>1, IsEnded
    <3>3. QED BY <2>1, <2>2, <3>1, <3>2, <1>3, <1>4, UnsignedWays
  <2>3. QED BY <1>8, <2>1, <2>2, <1>4 DEF ContentSecurity
\* Behind the gates nothing has been refused.
<1>9. ASSUME gate[q] \in {"handler", "flushed", "panicking"},
             gate'[q] \in {"handler", "flushed", "panicking"}, refusal' = refusal,
             handler'[q] \in {"running", "done"}
      PROVE  Goal
  <2>1. stage[q] \notin {"idle", "breaker", "shedder"} /\ refusal'[q] = 0
    BY <1>1, <1>9 DEF Entered
  <2>2. QED BY <2>1, <1>1, <1>9 DEF Entered, Told, TimedOut, BeforeHandler
<1>10. CASE UserWritesHeader(q) \/ UserWritesBody(q)
  <2>1. gate[q] = "handler" /\ gate' = gate /\ handler' = handler /\ refusal' = refusal
    BY <1>10 DEF UserWritesHeader, UserWritesBody, At, Write, Quiet, vars, goroutine,
       request
  <2>2. QED BY <2>1, <1>1, <1>9
<1>11. CASE Flush(q)
  <2>1. /\ gate[q] = "handler" /\ gate'[q] \in {"flushed", "panicking"}
        /\ handler' = handler /\ refusal' = refusal
    BY <1>11 DEF Flush, At, GoTo, GateTypeOK, Write, Quiet, vars, goroutine, request
  <2>2. QED BY <2>1, <1>1, <1>9
<1>12. CASE GoroutinePanics(q)
  <2>1. /\ gate[q] \in {"handler", "panicking"} /\ gate' = gate
        /\ handler'[q] = "done" /\ refusal' = refusal
    BY <1>12 DEF GoroutinePanics, HandlerPanics, TypeOK, gates, request
  <2>2. QED BY <2>1, <1>1, <1>9
<1>13. CASE GoroutineReturns(q)
  <2>1. /\ gate[q] \in {"handler", "flushed", "refused"} /\ gate' = gate
        /\ handler'[q] = "done" /\ refusal' = refusal /\ written' = written
    BY <1>13 DEF GoroutineReturns, HandlerReturns, TypeOK, gates, request
  <2>2. CASE gate[q] \in {"handler", "flushed"}
    BY <2>1, <2>2, <1>1, <1>9
  <2>3. CASE gate[q] = "refused"
    BY <2>1, <2>3, <1>1 DEF Entered, Told, TimedOut, BeforeHandler
  <2>4. QED BY <2>1, <2>2, <2>3
<1>14. QED
  BY <1>5, <1>6, <1>7, <1>8, <1>10, <1>11, <1>12, <1>13 DEF Gates

LEMMA TellChain ==
  ASSUME IInv, GateTypeOK, TellInv, NEW q \in Request, Refused(q),
         \/ RouterServes(q) \/ ChainStarts(q) \/ ChainMoves(q) \/ TimeRunsOut(q)
  PROVE  TellInv'
<1> USE DEF IInv, TypeOK
<1>0. /\ Entered(q) /\ Told(q)
      /\ gate[q] # "refused" => refusal[q] = 0
      /\ WayIn(q) /\ WayOut(q)
  BY DEF TellInv, Refused, WayInv
<1>1. CASE RouterServes(q)
  <2>1. \A p \in Request : p # q => Seen(p)' = Seen(p)
    BY <1>1 DEF RouterServes, Borrow, BorrowRefused, Goto, Answer, promises, goroutine,
       gates, request, Seen
  <2>2. Entered(q)' /\ Told(q)'
    BY <1>1, <1>0 DEF RouterServes, Borrow, BorrowRefused, Goto, Answer, promises,
       goroutine, gates, request, Entered, Told, TimedOut
  <2>3. QED BY <2>1, <2>2, TellOthers
<1>2. CASE ChainStarts(q)
  <2>1. \A p \in Request : p # q => Seen(p)' = Seen(p)
    BY <1>2 DEF ChainStarts, ShedderAllows, StartHandler, Goto, request, Seen, GateTypeOK
  <2>2. /\ stage[q] = "shedder" /\ stage'[q] = "select" /\ gate'[q] = "size"
        /\ shedder'[q] = "promise" /\ UNCHANGED <<breaker, written, refusal>>
    BY <1>2 DEF ChainStarts, ShedderAllows, Goto, request, GateTypeOK
  <2>3. breaker[q] = "promise" /\ written[q] = 0 /\ refusal[q] = 0
    BY <2>2, <1>0 DEF WayIn, Entered, BeforeHandler
  <2>4. Entered(q)' /\ Told(q)'
    BY <2>2, <2>3 DEF Entered, Told
  <2>5. QED BY <2>1, <2>4, TellOthers
<1>3. CASE ChainMoves(q) /\ (BreakerAllows(q) \/ BreakerDrops(q) \/ ShedderDrops(q))
  <2>1. \A p \in Request : p # q => Seen(p)' = Seen(p)
    BY <1>3 DEF ChainMoves, BreakerAllows, BreakerDrops, ShedderDrops, Goto, Answer,
       promises, goroutine, gates, request, Seen
  <2>2. /\ gate[q] = "none" /\ refusal[q] = 0 /\ handler[q] = "none"
        /\ UNCHANGED <<gate, refusal, handler, written, ctx>>
    BY <1>3, <1>0 DEF ChainMoves, BreakerAllows, BreakerDrops, ShedderDrops, Goto,
       promises, goroutine, gates, request, Entered
  <2>3. Entered(q)' /\ Told(q)'
    BY <2>2, <1>0 DEF Entered, Told
  <2>4. QED BY <2>1, <2>3, TellOthers
<1>4. CASE ChainMoves(q) /\ SelectDone(q)
  <2>1. \A p \in Request : p # q => Seen(p)' = Seen(p)
    BY <1>4 DEF ChainMoves, SelectDone, Goto, Answer, promises, goroutine, gates, request,
       Seen
  <2>2. /\ stage[q] = "select" /\ stage'[q] = "uncount" /\ handler[q] = "done"
        /\ UNCHANGED <<gate, refusal, handler, written, breaker, shedder>>
        /\ code'[q] = IF written[q] = 0 THEN OK ELSE written[q]
    BY <1>4 DEF ChainMoves, SelectDone, Goto, Answer, promises, goroutine, gates, request
  <2>3. refusal[q] # 0 => code'[q] = refusal[q]
    BY <2>2, <1>0 DEF Told
  <2>4. Entered(q)' /\ Told(q)'
    BY <2>2, <2>3, <1>0 DEF Entered, Told
  <2>5. QED BY <2>1, <2>4, TellOthers
<1>5. CASE ChainMoves(q) /\ SelectContext(q)
  <2>1. \A p \in Request : p # q => Seen(p)' = Seen(p)
    BY <1>5 DEF ChainMoves, SelectContext, Goto, Answer, promises, goroutine, gates,
       request, Seen
  <2>2. /\ stage[q] = "select" /\ stage'[q] = "uncount" /\ TimedOut(q)'
        /\ UNCHANGED <<gate, refusal, handler, written, breaker, shedder>>
    BY <1>5 DEF ChainMoves, SelectContext, Goto, Answer, promises, goroutine, gates,
       request, TimedOut
  <2>3. Entered(q)' /\ Told(q)'
    BY <2>2, <1>0 DEF Entered, Told
  <2>4. QED BY <2>1, <2>3, TellOthers
<1>6. CASE ChainMoves(q) /\ (ShedderReport(q) \/ BreakerReport(q) \/ Return(q))
  <2>1. \A p \in Request : p # q => Seen(p)' = Seen(p)
    BY <1>6 DEF ChainMoves, ShedderReport, BreakerReport, Return, Goto, promises,
       goroutine, gates, request, Seen
  <2>2. /\ stage[q] \in {"uncount", "settle", "return"}
        /\ stage'[q] \in {"settle", "return", "answered"}
        /\ UNCHANGED <<gate, refusal, handler, written, code, ctx>>
    BY <1>6 DEF ChainMoves, ShedderReport, BreakerReport, Return, Goto, promises,
       goroutine, gates, request
  <2>3. /\ breaker[q] # "none" => breaker'[q] # "none"
        /\ shedder[q] # "none" => shedder'[q] # "none"
    BY <1>6 DEF ChainMoves, ShedderReport, BreakerReport, Return, promises
  <2>4. Entered(q)' /\ Told(q)'
    BY <2>2, <2>3, <1>0 DEF Entered, Told, TimedOut
  <2>5. QED BY <2>1, <2>4, TellOthers
<1>7. CASE TimeRunsOut(q)
  <2>1. \A p \in Request : p # q => Seen(p)' = Seen(p)
    BY <1>7 DEF TimeRunsOut, ContextDone, promises, goroutine, gates, request, Seen
  <2>2. /\ stage[q] = "select"
        /\ UNCHANGED <<gate, refusal, stage, handler, written, breaker, shedder>>
    BY <1>7 DEF TimeRunsOut, ContextDone, promises, goroutine, gates, request
  <2>3. Entered(q)' /\ Told(q)'
    BY <2>2, <1>0 DEF Entered, Told
  <2>4. QED BY <2>1, <2>3, TellOthers
<1>8. QED BY <1>1, <1>2, <1>3, <1>4, <1>5, <1>6, <1>7 DEF ChainMoves

-----------------------------------------------------------------------------
(* Types, and the whole invariant.                                         *)

LEMMA TypeGate ==
  ASSUME GateTypeOK, NEW q \in Request, Gates(q) \/ ChainStarts(q)
  PROVE  GateTypeOK'
<1> USE DEF GateTypeOK, At, GoTo, Refuse, Write, Quiet, request, router, vars, gates
<1>1. {"handler", "flushed", "panicking", "refused"} \subseteq Places
  BY DEF Places
<1>2. {"size", "gzip", "token", "parse", "count", "store", "signature", "crypt"}
        \subseteq Places
  BY DEF Places, BeforeHandler
<1>3. {BadRequest, Unauthorized, Unsigned, TooLarge, OK} \subseteq RefusalCode
  BY RefusalCodes
<1>4. AfterToken(q) \in Places /\ AfterBody(q) \in Places
  BY <1>1, <1>2 DEF AfterToken, AfterBody
<1>5. CASE MaxBytes(q) \/ Gunzip(q) \/ Decrypt(q)
  BY <1>5, <1>1, <1>2, <1>3, <1>4 DEF MaxBytes, Gunzip, Decrypt
<1>6. CASE LoadCounts(q)
  BY <1>6, <1>2 DEF LoadCounts, Secret
<1>7. CASE CountLoads(q) \/ CountStores(q)
  BY <1>7, <1>2, <1>4 DEF CountLoads, CountStores
<1>8. CASE Authorize(q)
  BY <1>8, UnauthorizedIsRefusal, <1>1, <1>2, <1>4 DEF Authorize
<1>9. CASE ContentSecurity(q)
  BY <1>9, <1>1, <1>2, <1>3, UnsignedWays DEF ContentSecurity
<1>10. CASE UserWritesHeader(q) \/ UserWritesBody(q) \/ Flush(q)
  BY <1>10, <1>1 DEF UserWritesHeader, UserWritesBody, Flush
<1>11. CASE GoroutineReturns(q) \/ GoroutinePanics(q)
  BY <1>11 DEF GoroutineReturns, GoroutinePanics, HandlerReturns, HandlerPanics
<1>12. CASE ChainStarts(q)
  BY <1>12, <1>2 DEF ChainStarts, ShedderAllows, Goto
<1>13. QED
  BY <1>5, <1>6, <1>7, <1>8, <1>9, <1>10, <1>11, <1>12 DEF Gates

\* A step that leaves the gates and the routes alone leaves the guard alone.
LEMMA GuardSame ==
  ASSUME GateTypeOK, GuardInv, UNCHANGED <<route, setting, target, gate, request>>
  PROVE  GateTypeOK' /\ GuardInv'
  BY DEF GateTypeOK, GuardInv, AtToken, PastToken, Refused, InHandler, TokenFits,
     SignatureFits, Jwt, request

LEMMA GateStep == GateInv /\ [GateNext]_gateVars => GateInv'
<1> SUFFICES ASSUME GateInv, [GateNext]_gateVars PROVE GateInv'
  OBVIOUS
<1> USE DEF GateInv
<1>1. IInv'
  BY InvStep, StepOfChain
<1>2. TypeOK
  BY DEF IInv
<1>3. ASSUME NEW q \in Request, Gates(q)
      PROVE  (GateTypeOK /\ GuardInv /\ TellInv)'
  <2>1. GateTypeOK'
    BY <1>3, TypeGate
  <2>2. GuardInv'
    BY <1>3, GuardStep, OneGoroutine, GuardOthers
  <2>3. Entered(q)' /\ Told(q)'
    BY <1>2, <1>3, TellGate DEF TellInv, GuardInv
  <2>4. TellInv'
    BY <1>2, <1>3, <2>3, GoroutineOthers, TellOthers
  <2>5. QED BY <2>1, <2>2, <2>4
<1>4. ASSUME NEW q \in Request, ChainStarts(q)
      PROVE  (GateTypeOK /\ GuardInv /\ TellInv)'
  <2>1. gate[q] = "none" /\ Refused(q)
    BY <1>4 DEF ChainStarts, ShedderAllows, Goto, TellInv, Entered, GuardInv
  <2>2. GateTypeOK'
    BY <1>4, TypeGate
  <2>3. GuardInv'
    BY <1>4, <2>1, GuardStep, OneGoroutine, GuardOthers
  <2>4. TellInv'
    BY <1>4, <2>1, TellChain
  <2>5. QED BY <2>2, <2>3, <2>4
<1>5. ASSUME NEW q \in Request, RouterServes(q) \/ ChainMoves(q) \/ TimeRunsOut(q)
      PROVE  (GateTypeOK /\ GuardInv /\ TellInv)'
  <2>1. UNCHANGED <<route, setting, target, gate, request>>
    BY <1>5 DEF RouterServes, ChainMoves, TimeRunsOut, Borrow, BorrowRefused,
       BreakerAllows, BreakerDrops, ShedderDrops, SelectDone, SelectContext,
       ShedderReport, BreakerReport, Return, ContextDone, Goto, gates, router
  <2>2. GateTypeOK' /\ GuardInv'
    BY <2>1, GuardSame
  <2>3. TellInv'
    BY <1>5, TellChain DEF GuardInv
  <2>4. QED BY <2>2, <2>3
<1>6. ASSUME UNCHANGED <<vars, setting, target, gate, request>>
      PROVE  (GateTypeOK /\ GuardInv /\ TellInv)'
  <2>1. GateTypeOK' /\ GuardInv'
    BY <1>6, GuardSame DEF vars
  <2>2. TellInv'
    BY <1>6 DEF TellInv, Entered, Told, TimedOut, vars, promises, goroutine, request
  <2>3. QED BY <2>1, <2>2
<1>7. ASSUME NEW q \in Request, RouterRefuses(q)
      PROVE  (GateTypeOK /\ GuardInv /\ TellInv)'
  BY <1>7, <1>6 DEF RouterRefuses
<1>8. ASSUME DayPasses \/ UNCHANGED gateVars
      PROVE  (GateTypeOK /\ GuardInv /\ TellInv)'
  <2>1. UNCHANGED <<vars, setting, target, gate, request>>
    BY <1>8 DEF DayPasses, gateVars, gates, router
  <2>2. QED BY <2>1, <1>6
<1>9. (GateTypeOK /\ GuardInv /\ TellInv)'
  BY <1>3, <1>4, <1>5, <1>7, <1>8 DEF GateNext
<1>10. QED BY <1>1, <1>9

LEMMA GateInvariant == GateSpec => []GateInv
<1>1. GateInit => GateInv
  BY InitIInv, InitGuard, InitTell DEF GateInit, GateInv
<1>2. QED BY <1>1, GateStep, PTL DEF GateSpec

\* For any routes, settings and number of requests, the user's handler runs only
\* for a request whose token and signature fit the setting of its route, also
\* when it runs on after a timeout.
THEOREM Guarded == GateSpec => []HandlerGuarded
<1>1. GateInv => HandlerGuarded
  BY DEF GateInv, GuardInv, PastToken, TokenFits, SignatureFits, Jwt, HandlerGuarded
<1>2. QED BY <1>1, GateInvariant, PTL

\* A refused request never reaches the user's handler, and its client is told what
\* was written for it unless the time was over first. Neither breaker nor shedder
\* counts the refusal as a failure unless a callback of the user made it a 5xx.
THEOREM RefusalsStand == GateSpec => []RefusalStands
<1>1. ASSUME GateInv, NEW q \in Request, refusal[q] # 0
      PROVE  /\ ~InHandler(q)
             /\ stage[q] = "answered" =>
                  \/ /\ code[q] = refusal[q]
                     /\ refusal[q] < 500 => breaker[q] = "accept" /\ shedder[q] = "pass"
                  \/ code[q] \in {ClientClosed, ServiceUnavailable} /\ ctx[q] # "open"
  <2>1. gate[q] = "refused" /\ refusal[q] \in Nat
    BY <1>1, RefusalCodes DEF GateInv, GuardInv, Refused, GateTypeOK
  <2>2. ~InHandler(q) /\ breaker[q] # "none" /\ shedder[q] # "none"
    BY <1>1, <2>1 DEF InHandler, GateInv, TellInv, Entered
  <2>3. CASE stage[q] = "answered"
    <3>1. ByCode(q)
      BY <1>1, <2>3 DEF GateInv, IInv, WayInv, WayOut
    <3>2. code[q] = refusal[q] \/ TimedOut(q)
      BY <1>1, <2>3 DEF GateInv, TellInv, Told
    <3>3. CASE code[q] = refusal[q]
      <4>1. refusal[q] < 500 => ~(code[q] >= 500) /\ ~(code[q] = 503)
        BY <2>1, <3>3
      <4>2. QED BY <3>1, <3>3, <4>1, <2>2 DEF ByCode
    <3>4. QED BY <2>2, <3>2, <3>3 DEF TimedOut
  <2>4. QED BY <2>2, <2>3
<1>2. GateInv => RefusalStands
  BY <1>1 DEF RefusalStands
<1>3. QED BY <1>2, GateInvariant, PTL

-----------------------------------------------------------------------------
(* The counters of the TokenParser.                                        *)

CountTypeOK ==
  /\ history \in [Route -> [Secret -> Nat]]
  /\ found \in [Request -> {"none", "nothing", "entry", "orphan"}]
  /\ day \in {"first", "over"}

BeforeToken == {"none", "size", "gzip", "token", "parse"}

\* A goroutine between Load and its increment has loaded something; and what it
\* holds is gone before the reset only because another one stored a new count.
CountWay(q) ==
  /\ gate[q] \in BeforeToken => token[q] = "none"
  /\ gate[q] = "store" => found[q] # "none"
  /\ day = "first" /\ gate[q] = "store" /\ found[q] = "orphan" =>
       history[route[q]][token[q]] > 0

CountInv == CountTypeOK /\ (\A q \in Request : CountWay(q)) /\ CountsFollowUses

LEMMA CountedFinite ==
  \A r, s : IsFiniteSet(Counted(r, s)) /\ Cardinality(Counted(r, s)) \in Nat
<1>1. ASSUME NEW r, NEW s
      PROVE  IsFiniteSet(Counted(r, s)) /\ Cardinality(Counted(r, s)) \in Nat
  <2>1. Counted(r, s) \in SUBSET Request
    BY DEF Counted
  <2>2. QED BY <2>1, RestChainAssumption, FS_Subset, FS_CardinalityType
<1>2. QED BY <1>1

LEMMA InitCount == GateInit => CountInv
<1> SUFFICES ASSUME GateInit PROVE CountInv
  OBVIOUS
<1>1. CountTypeOK
  BY DEF GateInit, CountTypeOK
<1>2. \A q \in Request : CountWay(q)
  BY DEF GateInit, CountWay, BeforeToken
<1>3. CountsFollowUses
  <2>1. ASSUME NEW r \in Route, NEW s \in Secret
        PROVE  Counted(r, s) = {} /\ history[r][s] = 0
    BY DEF GateInit, Counted, Secret
  <2>2. QED BY <2>1, FS_EmptySet DEF CountsFollowUses
<1>4. QED BY <1>1, <1>2, <1>3 DEF CountInv

\* A step that neither counts nor enters or leaves the counting.
LEMMA CountSame ==
  ASSUME CountInv, UNCHANGED <<history, found, setting, route, token>>,
         day' \in {day, "over"},
         \A p \in Request :
           /\ gate'[p] = "store" <=> gate[p] = "store"
           /\ gate'[p] = "count" <=> gate[p] = "count"
           /\ gate'[p] \in BeforeToken => gate[p] \in BeforeToken
  PROVE  CountInv'
<1>1. CountTypeOK'
  BY DEF CountInv, CountTypeOK
<1>2. \A p \in Request : CountWay(p)'
  BY DEF CountInv, CountTypeOK, CountWay
<1>3. \A r, s : Counted(r, s)' = Counted(r, s)
  BY DEF Counted
<1>4. CountsFollowUses'
  BY <1>3 DEF CountInv, CountTypeOK, CountsFollowUses
<1>5. QED BY <1>1, <1>2, <1>4 DEF CountInv

\* A token that a secret of a transition fits goes on to be counted.
LEMMA CountAuthorize ==
  ASSUME GateTypeOK, CountInv, NEW q \in Request, Authorize(q)
  PROVE  CountInv'
<1> USE DEF GateTypeOK
<1>1. /\ gate[q] = "parse" /\ token[q] = "none"
      /\ UNCHANGED <<history, found, setting, route, day>>
      /\ \A p \in Request : p # q => token'[p] = token[p] /\ gate'[p] = gate[p]
  BY DEF Authorize, At, Quiet, Refuse, Write, GoTo, parser, vars, router, CountInv, CountWay,
     BeforeToken
<1>2. PICK t \in Secret \cup {"invalid"} :
        /\ token' = [token EXCEPT ![q] = t]
        /\ \/ /\ Opens(q, t)
              /\ GoTo(q, IF setting[route[q]].jwt = "transition" THEN "count"
                         ELSE AfterToken(q))
           \/ ~Opens(q, t) /\ \E c \in UnauthorizedCodes(q) : Refuse(q, c)
  BY DEF Authorize
<1>3. /\ token'[q] = t /\ gate'[q] \notin BeforeToken \cup {"store"}
      /\ Jwt(q) = "transition" /\ t \in Secret => gate'[q] = "count"
  BY <1>2 DEF Opens, GoTo, Refuse, Jwt, AfterToken, BeforeToken
<1>4. CountTypeOK'
  BY <1>1 DEF CountInv, CountTypeOK
<1>5. \A p \in Request : CountWay(p)'
  BY <1>1, <1>3 DEF CountInv, CountWay
<1>6. ASSUME NEW r \in Route, NEW s \in Secret
      PROVE  Counted(r, s)' = Counted(r, s)
  <2>1. q \notin Counted(r, s)
    BY <1>1 DEF Counted, Secret
  <2>2. q \notin Counted(r, s)'
    BY <1>1, <1>3 DEF Counted, Jwt
  <2>3. \A p \in Request : p # q => (p \in Counted(r, s)' <=> p \in Counted(r, s))
    BY <1>1 DEF Counted
  <2>4. QED BY <2>1, <2>2, <2>3 DEF Counted
<1>7. CountsFollowUses'
  BY <1>1, <1>6 DEF CountInv, CountsFollowUses
<1>8. QED BY <1>4, <1>5, <1>7 DEF CountInv

\* Load. After the day it comes with emptying the history.
LEMMA CountAtLoad ==
  ASSUME GateTypeOK, CountInv, NEW q \in Request, AtToken(q), CountLoads(q)
  PROVE  CountInv'
<1> USE DEF GateTypeOK
<1> DEFINE wiped == IF day = "over" THEN Secret ELSE {}
           h == [s \in Secret |-> IF s \in wiped THEN 0 ELSE history[route[q]][s]]
<1>1. /\ gate[q] = "count" /\ gate' = [gate EXCEPT ![q] = "store"]
      /\ UNCHANGED <<setting, route, day, token>>
      /\ history' = [history EXCEPT ![route[q]] = h]
      /\ found' = [Orphan(q, wiped) EXCEPT
                     ![q] = IF h[token[q]] = 0 THEN "nothing" ELSE "entry"]
  BY DEF CountLoads, At, Quiet, GoTo, vars, request, router
<1>2. route[q] \in Route /\ history \in [Route -> [Secret -> Nat]]
  BY DEF CountInv, CountTypeOK
<1>3. h \in [Secret -> Nat]
  BY <1>2
<1>4. history' \in [Route -> [Secret -> Nat]]
  BY <1>1, <1>2, <1>3
<1>5. \A r \in Route, s \in Secret : history'[r][s] \in {history[r][s], 0}
  BY <1>1, <1>2
<1>6. day = "first" => history' = history
  <2>1. day = "first" => h = history[route[q]]
    BY <1>2
  <2>2. QED BY <1>1, <1>2, <2>1
<1>7. /\ found'[q] \in {"nothing", "entry"}
      /\ \A p \in Request : p # q => found'[p] \in {found[p], "orphan"}
                               /\ (found[p] = "none" => found'[p] = "none")
                               /\ (day = "first" => found'[p] = found[p])
      /\ found' \in [Request -> {"none", "nothing", "entry", "orphan"}]
  BY <1>1 DEF Orphan, CountInv, CountTypeOK
<1>8. CountTypeOK'
  BY <1>1, <1>4, <1>7 DEF CountInv, CountTypeOK
<1>9. ASSUME NEW p \in Request
      PROVE  CountWay(p)'
  <2>1. CASE p = q
    BY <1>1, <1>7, <2>1 DEF CountWay, BeforeToken
  <2>2. CASE p # q
    <3>1. gate'[p] = gate[p] /\ token'[p] = token[p] /\ CountWay(p)
      BY <1>1, <2>2 DEF CountInv
    <3>2. (gate[p] = "store" => found'[p] # "none")
      BY <3>1, <1>7, <2>2 DEF CountWay, CountInv, CountTypeOK
    <3>3. QED BY <3>1, <3>2, <1>1, <1>6, <1>7, <2>2 DEF CountWay
  <2>3. QED BY <2>1, <2>2
<1>10. \A r, s : Counted(r, s)' = Counted(r, s)
  BY <1>1 DEF Counted
<1>11. CountsFollowUses'
  <2>1. ASSUME NEW r \in Route, NEW s \in Secret
        PROVE  /\ history'[r][s] <= Cardinality(Counted(r, s))
               /\ day = "first" /\ Counted(r, s) # {} => history'[r][s] > 0
    <3>1. history[r][s] \in Nat /\ history'[r][s] \in {history[r][s], 0}
      BY <1>2, <1>5
    <3>2. /\ history[r][s] <= Cardinality(Counted(r, s))
          /\ day = "first" /\ Counted(r, s) # {} => history[r][s] > 0
      BY DEF CountInv, CountsFollowUses
    <3>3. QED BY <3>1, <3>2, <1>6, CountedFinite
  <2>2. QED BY <1>1, <1>10, <2>1 DEF CountsFollowUses
<1>12. QED BY <1>8, <1>9, <1>11 DEF CountInv

\* The increment. It may store over the increments of others, or go into an entry
\* that is gone; but then there is another one.
LEMMA CountAtStore ==
  ASSUME GateTypeOK, CountInv, NEW q \in Request, AtToken(q), CountStores(q)
  PROVE  CountInv'
<1> USE DEF GateTypeOK
<1> DEFINE r0 == route[q]
           t0 == token[q]
           n == history[r0][t0]
           m == CASE found[q] = "nothing" -> 1
                  [] found[q] = "entry" -> n + 1
                  [] found[q] = "orphan" -> n
<1>1. /\ gate[q] = "store" /\ gate' = [gate EXCEPT ![q] = AfterToken(q)]
      /\ UNCHANGED <<setting, route, day, token>>
      /\ history' = [history EXCEPT ![r0][t0] = m]
      /\ found' = [(IF found[q] = "nothing" THEN Orphan(q, {t0}) ELSE found)
                     EXCEPT ![q] = "none"]
  BY DEF CountStores, At, Quiet, GoTo, vars, request, router
<1>2. /\ r0 \in Route /\ t0 \in Secret /\ setting[r0].jwt = "transition"
      /\ history \in [Route -> [Secret -> Nat]] /\ n \in Nat
      /\ found[q] \in {"nothing", "entry", "orphan"}
  BY <1>1 DEF CountInv, CountTypeOK, CountWay, AtToken, Jwt
<1>3. /\ m \in Nat /\ (m = 1 \/ m = n + 1 \/ m = n)
      /\ day = "first" => m > 0
  BY <1>1, <1>2 DEF CountInv, CountWay
<1> HIDE DEF m
<1>4. /\ \A r \in Route, s \in Secret :
           history'[r][s] = IF r = r0 /\ s = t0 THEN m ELSE history[r][s]
      /\ history' \in [Route -> [Secret -> Nat]]
  BY <1>1, <1>2, <1>3
<1>5. /\ found' \in [Request -> {"none", "nothing", "entry", "orphan"}]
      /\ \A p \in Request : p # q =>
           \/ found'[p] = found[p]
           \/ found'[p] = "orphan" /\ found[p] = "entry" /\ route[p] = r0 /\ token[p] = t0
  BY <1>1 DEF Orphan, CountInv, CountTypeOK
<1>6. CountTypeOK'
  BY <1>1, <1>4, <1>5 DEF CountInv, CountTypeOK
<1>7. AfterToken(q) \in {"signature", "handler"}
  BY DEF AfterToken
<1>8. ASSUME NEW p \in Request
      PROVE  CountWay(p)'
  <2>1. CASE p = q
    BY <1>1, <1>7, <2>1 DEF CountWay, BeforeToken
  <2>2. CASE p # q
    <3>1. gate'[p] = gate[p] /\ token'[p] = token[p] /\ CountWay(p)
      BY <1>1, <2>2 DEF CountInv
    <3>2. gate[p] = "store" => found'[p] # "none"
      BY <3>1, <1>5, <2>2 DEF CountWay
    <3>3. ASSUME day = "first", gate[p] = "store", found'[p] = "orphan"
          PROVE  history'[route[p]][token[p]] > 0
      <4>1. CASE route[p] = r0 /\ token[p] = t0
        BY <4>1, <1>1, <1>2, <1>3, <3>3
      <4>2. CASE ~(route[p] = r0 /\ token[p] = t0)
        <5>1. history'[route[p]][token[p]] = history[route[p]][token[p]]
          BY <4>2, <1>1, <1>2
        <5>2. QED BY <5>1, <4>2, <3>1, <3>3, <1>5, <2>2 DEF CountWay
      <4>3. QED BY <4>1, <4>2
    <3>4. QED BY <3>1, <3>2, <3>3, <1>1 DEF CountWay
  <2>3. QED BY <2>1, <2>2
<1>9. q \notin Counted(r0, t0) /\ Counted(r0, t0)' = Counted(r0, t0) \cup {q}
  BY <1>1, <1>2, <1>7 DEF Counted
<1>10. Cardinality(Counted(r0, t0)') = Cardinality(Counted(r0, t0)) + 1
  BY <1>9, CountedFinite, FS_AddElement
<1>11. ASSUME NEW r \in Route, NEW s \in Secret, ~(r = r0 /\ s = t0)
       PROVE  Counted(r, s)' = Counted(r, s)
  BY <1>1, <1>7, <1>11 DEF Counted
<1>12. CountsFollowUses'
  <2>1. ASSUME NEW r \in Route, NEW s \in Secret
        PROVE  /\ history'[r][s] <= Cardinality(Counted(r, s)')
               /\ day = "first" /\ Counted(r, s)' # {} => history'[r][s] > 0
    <3>1. /\ history[r][s] <= Cardinality(Counted(r, s))
          /\ day = "first" /\ Counted(r, s) # {} => history[r][s] > 0
      BY DEF CountInv, CountsFollowUses
    <3>2. CASE r = r0 /\ s = t0
      <4>1. history'[r][s] = m /\ history[r][s] = n
        BY <3>2, <1>4
      <4>2. /\ Cardinality(Counted(r, s)') = Cardinality(Counted(r, s)) + 1
            /\ Cardinality(Counted(r, s)) \in Nat
        <5>1. r0' = r /\ t0' = s
          BY <3>2, <1>1
        <5>2. QED BY <5>1, <3>2, <1>10, CountedFinite
      <4>3. history'[r][s] <= Cardinality(Counted(r, s)')
        BY <4>1, <4>2, <3>1, <1>2, <1>3
      <4>4. QED BY <4>1, <4>3, <1>3
    <3>3. CASE ~(r = r0 /\ s = t0)
      BY <3>1, <3>3, <1>4, <1>11
    <3>4. QED BY <3>2, <3>3
  <2>2. QED BY <1>1, <2>1 DEF CountsFollowUses
<1>13. QED BY <1>6, <1>8, <1>12 DEF CountInv

LEMMA CountStep == GateInv /\ CountInv /\ [GateNext]_gateVars => CountInv'
<1> SUFFICES ASSUME GateInv, CountInv, [GateNext]_gateVars PROVE CountInv'
  OBVIOUS
<1>0. GateTypeOK /\ GuardInv
  BY DEF GateInv
<1>1. ASSUME NEW q \in Request, UNCHANGED <<history, found, setting, route, token>>,
             day' \in {day, "over"},
             \A p \in Request : p # q => gate'[p] = gate[p],
             gate'[q] \notin {"store", "count"}, gate[q] \notin {"store", "count"},
             gate'[q] \in BeforeToken => gate[q] \in BeforeToken
      PROVE  CountInv'
  BY <1>1, CountSame
<1>2. ASSUME UNCHANGED <<history, found, setting, route, token, gate>>, day' \in {day, "over"}
      PROVE  CountInv'
  BY <1>2, CountSame
<1>3. ASSUME NEW q \in Request,
             MaxBytes(q) \/ Gunzip(q) \/ LoadCounts(q) \/ ContentSecurity(q) \/ Decrypt(q)
      PROVE  CountInv'
  <2>1. /\ UNCHANGED <<setting, route, token>>
        /\ \A p \in Request : p # q => gate'[p] = gate[p]
    <3>1. setting' = setting /\ route' = route /\ \A p \in Request : p # q => Own(p)' = Own(p)
      BY <1>3, <1>0, OneGoroutine DEF Gates
    <3>2. token' = token
      BY <1>3 DEF MaxBytes, Gunzip, LoadCounts, ContentSecurity, Decrypt
    <3>3. QED BY <3>1, <3>2 DEF Own
  <2>2. UNCHANGED <<history, found, day>>
    BY <1>3, UnsignedWays DEF MaxBytes, Gunzip, LoadCounts, ContentSecurity, Decrypt, parser,
       Quiet, Refuse, Write
  <2>3. /\ gate[q] \in {"size", "gzip", "token", "signature", "crypt"}
        /\ gate'[q] \in {"gzip", "token", "parse", "signature", "crypt", "handler", "refused"}
        /\ gate'[q] \in BeforeToken => gate[q] \in BeforeToken
    <3>1. AfterToken(q) \in {"signature", "handler"}
          /\ AfterBody(q) \in {"token", "signature", "handler"}
      BY DEF AfterToken, AfterBody
    <3>2. CASE MaxBytes(q) \/ Gunzip(q) \/ LoadCounts(q) \/ Decrypt(q)
      BY <3>1, <3>2, <1>0 DEF MaxBytes, Gunzip, LoadCounts, Decrypt, At, GoTo, Refuse,
         GateTypeOK, BeforeToken
    <3>3. CASE ContentSecurity(q)
      BY <3>3, <1>0, UnsignedWays DEF ContentSecurity, At, GoTo, Refuse, GateTypeOK, BeforeToken
    <3>4. QED BY <1>3, <3>2, <3>3
  <2>4. QED BY <2>1, <2>2, <2>3, <1>1
<1>4. ASSUME NEW q \in Request, Authorize(q) \/ CountLoads(q) \/ CountStores(q)
      PROVE  CountInv'
  BY <1>0, <1>4, CountAuthorize, CountAtLoad, CountAtStore DEF GuardInv
<1>5. ASSUME NEW q \in Request,
             UserWritesHeader(q) \/ UserWritesBody(q)
      PROVE  CountInv'
  BY <1>5, <1>2 DEF UserWritesHeader, UserWritesBody, Write, Quiet, request, parser, vars
<1>6. ASSUME NEW q \in Request, Flush(q)
      PROVE  CountInv'
  <2>1. /\ gate[q] = "handler" /\ gate'[q] \in {"flushed", "panicking"}
        /\ \A p \in Request : p # q => gate'[p] = gate[p]
        /\ UNCHANGED <<history, found, setting, route, token, day>>
    BY <1>0, <1>6 DEF Flush, At, GoTo, GateTypeOK, Write, Quiet, request, parser, vars
  <2>2. QED BY <2>1, <1>1 DEF BeforeToken
<1>7. ASSUME NEW q \in Request, GoroutineReturns(q) \/ GoroutinePanics(q)
      PROVE  CountInv'
  BY <1>7, <1>2 DEF GoroutineReturns, GoroutinePanics, HandlerReturns, HandlerPanics, gates,
     request, parser
<1>8. ASSUME NEW q \in Request, Gates(q)
      PROVE  CountInv'
  BY <1>8, <1>3, <1>4, <1>5, <1>6, <1>7 DEF Gates
<1>9. ASSUME NEW q \in Request, ChainStarts(q)
      PROVE  CountInv'
  <2>1. /\ gate[q] = "none" /\ gate'[q] = "size"
        /\ \A p \in Request : p # q => gate'[p] = gate[p]
        /\ UNCHANGED <<history, found, setting, route, token, day>>
    BY <1>0, <1>9 DEF ChainStarts, ShedderAllows, Goto, GateTypeOK, GateInv, TellInv, Entered,
       request, parser
  <2>2. QED BY <2>1, <1>1 DEF BeforeToken
<1>10. ASSUME NEW q \in Request,
              RouterServes(q) \/ ChainMoves(q) \/ TimeRunsOut(q) \/ RouterRefuses(q)
       PROVE  CountInv'
  <2>1. UNCHANGED <<history, found, setting, token, gate, day>>
    BY <1>10 DEF RouterServes, ChainMoves, TimeRunsOut, RouterRefuses, gates, request, parser
  <2>2. route' = route
    BY <1>10 DEF RouterServes, ChainMoves, TimeRunsOut, RouterRefuses, Borrow, BorrowRefused,
       BreakerAllows, BreakerDrops, ShedderDrops, SelectDone, SelectContext,
       ShedderReport, BreakerReport, Return, ContextDone, Goto, vars
  <2>3. QED BY <2>1, <2>2, <1>2
<1>11. CASE DayPasses \/ UNCHANGED gateVars
  BY <1>11, <1>2 DEF DayPasses, gateVars, gates, vars, request, parser
<1>12. QED
  BY <1>8, <1>9, <1>10, <1>11 DEF GateNext

\* For any routes and settings and however many requests race in the counters of the
\* TokenParser: a count is never above the uses, and until the first reset a secret
\* that was used is never without a count.
THEOREM CountsFollow == GateSpec => []CountsFollowUses
<1>1. GateInit => CountInv
  BY InitCount
<1>2. CountInv => CountsFollowUses
  BY DEF CountInv
<1>3. QED BY <1>1, <1>2, CountStep, GateInvariant, PTL DEF GateSpec
=============================================================================
