------------------------------ MODULE RestChain ------------------------------
(***************************************************************************)
(* What engine.bindRoute puts around the handler of a REST route, from the *)
(* outside in: MaxConns, BreakerHandler, SheddingHandler, TimeoutHandler   *)
(* and RecoverHandler.                                                     *)
(*                                                                         *)
(* A request has two goroutines. One runs the chain: it borrows from the   *)
(* route's latch, asks breaker and shedder, starts the other goroutine and *)
(* waits in the select of TimeoutHandler; then the deferred functions run  *)
(* from the inside out. The other goroutine runs the user's handler. It    *)
(* may write, panic, return or hang, before the deadline or after.         *)
(*                                                                         *)
(* Whether breaker and shedder allow a request is left open here (modules  *)
(* GoogleBreaker and AdaptiveShedder); what the chain reports to them is   *)
(* not.                                                                    *)
(***************************************************************************)
EXTENDS Integers, FiniteSets

CONSTANTS
  Request,      \* requests, each served once
  Route,        \* routes of one service
  MaxConns,     \* RestConf.MaxConns
  HandlerCode   \* the codes a handler may write

ASSUME RestChainAssumption ==
  /\ IsFiniteSet(Request)
  /\ MaxConns \in Nat \ {0}
  /\ HandlerCode \subseteq 100 .. 599

OK                 == 200
ClientClosed       == 499
InternalError      == 500
ServiceUnavailable == 503

VARIABLES
  route,    \* per request: the route it is for
  latch,    \* per route: how many elements of syncx.Limit are borrowed
  flying,   \* requests the shedder counts as being processed
  stage,    \* per request: where the goroutine of the chain is
  code,     \* per request: the code sent to the client, 0 before
  breaker,  \* per request: "none", "promise", then "accept" or "reject"
  shedder,  \* per request: "none", "promise", then "pass" or "fail"
  handler,  \* per request: the handler's goroutine: "none", "running", "done"
  written,  \* per request: the code in the timeoutWriter, 0 before a header
  ctx       \* per request: "open", or why its context is done

counters == <<latch, flying>>
promises == <<breaker, shedder>>
goroutine == <<handler, written>>
vars == <<route, counters, stage, code, promises, goroutine, ctx>>

Init ==
  /\ route \in [Request -> Route]
  /\ latch = [r \in Route |-> 0]
  /\ flying = 0
  /\ stage = [q \in Request |-> "idle"]
  /\ code = [q \in Request |-> 0]
  /\ breaker = [q \in Request |-> "none"]
  /\ shedder = [q \in Request |-> "none"]
  /\ handler = [q \in Request |-> "none"]
  /\ written = [q \in Request |-> 0]
  /\ ctx = [q \in Request |-> "open"]

Goto(q, from, to) ==
  /\ stage[q] = from
  /\ stage' = [stage EXCEPT ![q] = to]
  /\ UNCHANGED route

Answer(q, c) == code' = [code EXCEPT ![q] = c]

-----------------------------------------------------------------------------
(* The way in.                                                             *)

\* Variant for a mutation run: there is room for one more than n.
BorrowOneMore(q) ==
  /\ latch[route[q]] <= MaxConns
  /\ Goto(q, "idle", "breaker")
  /\ latch' = [latch EXCEPT ![route[q]] = @ + 1]
  /\ UNCHANGED <<flying, code, promises, goroutine, ctx>>

\* MaxConns: TryBorrow.
Borrow(q) ==
  /\ latch[route[q]] < MaxConns
  /\ Goto(q, "idle", "breaker")
  /\ latch' = [latch EXCEPT ![route[q]] = @ + 1]
  /\ UNCHANGED <<flying, code, promises, goroutine, ctx>>

\* MaxConns: the latch is exhausted.
BorrowRefused(q) ==
  /\ latch[route[q]] >= MaxConns
  /\ Goto(q, "idle", "answered")
  /\ Answer(q, ServiceUnavailable)
  /\ UNCHANGED <<counters, promises, goroutine, ctx>>

BreakerAllows(q) ==
  /\ Goto(q, "breaker", "shedder")
  /\ breaker' = [breaker EXCEPT ![q] = "promise"]
  /\ UNCHANGED <<counters, code, shedder, goroutine, ctx>>

BreakerDrops(q) ==
  /\ Goto(q, "breaker", "return")
  /\ Answer(q, ServiceUnavailable)
  /\ UNCHANGED <<counters, promises, goroutine, ctx>>

\* TimeoutHandler starts the goroutine of the handler and gets to its select.
StartHandler(q) == handler' = [handler EXCEPT ![q] = "running"]

ShedderAllows(q) ==
  /\ Goto(q, "shedder", "select")
  /\ flying' = flying + 1
  /\ shedder' = [shedder EXCEPT ![q] = "promise"]
  /\ StartHandler(q)
  /\ UNCHANGED <<latch, code, breaker, written, ctx>>

ShedderDrops(q) ==
  /\ Goto(q, "shedder", "settle")
  /\ Answer(q, ServiceUnavailable)
  /\ UNCHANGED <<counters, promises, goroutine, ctx>>

-----------------------------------------------------------------------------
(* The handler's goroutine, with RecoverHandler and the timeoutWriter.     *)

\* timeoutWriter.WriteHeader: only the first code counts, none once the
\* request has timed out.
WriteHeader(q, c) ==
  written' = IF written[q] = 0 /\ stage[q] = "select"
             THEN [written EXCEPT ![q] = c] ELSE written

HandlerWrites(q) ==
  /\ handler[q] = "running"
  /\ \E c \in HandlerCode : WriteHeader(q, c)
  /\ UNCHANGED <<route, counters, stage, code, promises, handler, ctx>>

HandlerReturns(q) ==
  /\ handler[q] = "running"
  /\ handler' = [handler EXCEPT ![q] = "done"]
  /\ UNCHANGED <<route, counters, stage, code, promises, written, ctx>>

\* RecoverHandler turns the panic into a 500, unless a code was written before.
HandlerPanics(q) ==
  /\ handler[q] = "running"
  /\ handler' = [handler EXCEPT ![q] = "done"]
  /\ WriteHeader(q, InternalError)
  /\ UNCHANGED <<route, counters, stage, code, promises, ctx>>

\* The timer of context.WithTimeout fires, or the client goes away.
ContextDone(q) ==
  /\ stage[q] = "select" /\ ctx[q] = "open"
  /\ \E why \in {"deadline", "canceled"} : ctx' = [ctx EXCEPT ![q] = why]
  /\ UNCHANGED <<route, counters, stage, code, promises, goroutine>>

-----------------------------------------------------------------------------
(* The select of TimeoutHandler; if both cases are ready, either is taken. *)

SelectDone(q) ==
  /\ handler[q] = "done"
  /\ Goto(q, "select", "uncount")
  /\ Answer(q, IF written[q] = 0 THEN OK ELSE written[q])
  /\ UNCHANGED <<counters, promises, goroutine, ctx>>

\* Variant for a mutation run: the select waits for the context the request came
\* with, which has no deadline.
SelectRequestContext(q) ==
  /\ ctx[q] = "canceled"
  /\ Goto(q, "select", "uncount")
  /\ Answer(q, ClientClosed)
  /\ UNCHANGED <<counters, promises, goroutine, ctx>>

SelectContext(q) ==
  /\ ctx[q] # "open"
  /\ Goto(q, "select", "uncount")
  /\ Answer(q, IF ctx[q] = "canceled" THEN ClientClosed ELSE ServiceUnavailable)
  /\ UNCHANGED <<counters, promises, goroutine, ctx>>

-----------------------------------------------------------------------------
(* The deferred functions, from the inside out.                            *)

\* Variant for a mutation run: only a request that passes is uncounted.
ShedderReportKeepFlying(q) ==
  /\ Goto(q, "uncount", "settle")
  /\ flying' = IF code[q] = ServiceUnavailable THEN flying ELSE flying - 1
  /\ shedder' = [shedder EXCEPT
                   ![q] = IF code[q] = ServiceUnavailable THEN "fail" ELSE "pass"]
  /\ UNCHANGED <<latch, code, breaker, goroutine, ctx>>

\* SheddingHandler: Promise.Fail or Pass; either ends in addFlying(-1).
ShedderReport(q) ==
  /\ Goto(q, "uncount", "settle")
  /\ flying' = flying - 1
  /\ shedder' = [shedder EXCEPT
                   ![q] = IF code[q] = ServiceUnavailable THEN "fail" ELSE "pass"]
  /\ UNCHANGED <<latch, code, breaker, goroutine, ctx>>

\* Variant for a mutation run: the codes are compared with <=.
BreakerReportInclusive(q) ==
  /\ Goto(q, "settle", "return")
  /\ breaker' = [breaker EXCEPT
                   ![q] = IF code[q] <= InternalError THEN "accept" ELSE "reject"]
  /\ UNCHANGED <<counters, code, shedder, goroutine, ctx>>

\* BreakerHandler: Promise.Accept or Reject.
BreakerReport(q) ==
  /\ Goto(q, "settle", "return")
  /\ breaker' = [breaker EXCEPT
                   ![q] = IF code[q] < InternalError THEN "accept" ELSE "reject"]
  /\ UNCHANGED <<counters, code, shedder, goroutine, ctx>>

\* MaxConns: latch.Return.
Return(q) ==
  /\ Goto(q, "return", "answered")
  /\ latch' = [latch EXCEPT ![route[q]] = @ - 1]
  /\ UNCHANGED <<flying, code, promises, goroutine, ctx>>

-----------------------------------------------------------------------------
Chain(q) ==
  \/ BreakerAllows(q) \/ BreakerDrops(q)
  \/ ShedderAllows(q) \/ ShedderDrops(q)
  \/ SelectDone(q) \/ SelectContext(q)
  \/ ShedderReport(q) \/ BreakerReport(q) \/ Return(q)

Handler(q) == HandlerWrites(q) \/ HandlerReturns(q) \/ HandlerPanics(q)

Next ==
  \E q \in Request :
    \/ Borrow(q) \/ BorrowRefused(q)
    \/ Chain(q) \/ Handler(q) \/ ContextDone(q)

Spec == Init /\ [][Next]_vars

\* The chain's goroutine is scheduled and its timer fires. Nothing is assumed
\* of the handler: it may hang for ever.
Fairness == \A q \in Request : WF_vars(Chain(q)) /\ WF_vars(ContextDone(q))

FairSpec == Spec /\ Fairness

-----------------------------------------------------------------------------
(* Properties.                                                             *)

Stages == {"idle", "breaker", "shedder", "select", "uncount", "settle",
           "return", "answered"}
Codes == HandlerCode \cup {0, OK, ClientClosed, InternalError, ServiceUnavailable}

\* Type invariant of the chain.
TypeOK ==
  /\ route \in [Request -> Route]
  /\ latch \in [Route -> 0 .. MaxConns]
  /\ flying \in Nat
  /\ stage \in [Request -> Stages]
  /\ code \in [Request -> Codes]
  /\ breaker \in [Request -> {"none", "promise", "accept", "reject"}]
  /\ shedder \in [Request -> {"none", "promise", "pass", "fail"}]
  /\ handler \in [Request -> {"none", "running", "done"}]
  /\ written \in [Request -> Codes]
  /\ ctx \in [Request -> {"open", "deadline", "canceled"}]

\* Nothing leaks on any way through the chain (refusal at any level, panic,
\* timeout, cancellation): the borrowed elements of each latch are the requests
\* inside its chain, and the shedder counts the requests whose promise is open.
NothingLeaks ==
  /\ \A r \in Route :
       latch[r] = Cardinality({q \in Request :
                    route[q] = r /\ stage[q] \notin {"idle", "answered"}})
  /\ flying = Cardinality({q \in Request : shedder[q] = "promise"})

\* Each request is judged once, by the answer its client got: a promise of the
\* breaker is rejected exactly for a 5xx, one of the shedder fails exactly for a
\* 503, and no promise is left open.
JudgedByAnswer ==
  \A q \in Request : stage[q] = "answered" =>
    /\ code[q] # 0
    /\ breaker[q] \in {"none", IF code[q] >= 500 THEN "reject" ELSE "accept"}
    /\ shedder[q] \in {"none", IF code[q] = 503 THEN "fail" ELSE "pass"}

\* Every request that enters the chain is answered, even if its handler hangs.
Answered == \A q \in Request : (stage[q] = "breaker") ~> (stage[q] = "answered")

\* What RestConf says of MaxConns (config.go:38): the largest number of
\* concurrent requests one service bears. A handler that runs is such a request.
ServiceConcurrency ==
  Cardinality({q \in Request : handler[q] = "running"}) <= MaxConns
=============================================================================
