------------------------------ MODULE RpcCall ------------------------------
(***************************************************************************)
(* Calls from a client to a server of balancer/zrpc, with what the two put *)
(* around them:                                                            *)
(*   client  a breaker and a deadline around a unary call, tracing around  *)
(*           a stream (module RpcStream);                                  *)
(*   server  crash and breaker, for a unary call shedding and timeout,     *)
(*           which runs the rest in a goroutine, then auth (RpcAuth) and   *)
(*           the handler.                                                  *)
(*                                                                         *)
(* What breakers and shedder decide is left open (modules GoogleBreaker    *)
(* and AdaptiveShedder); what they are told is not.                        *)
(***************************************************************************)
EXTENDS RpcAuth, RpcStream

CONSTANTS
  HandlerError,  \* what the user's handler may return
  Configs        \* settings of client and server

\* Timeout is the server's, Deadline the client's.
Config == [kind : {"unary", "stream"}, timeout : {"yes", "no"},
           deadline : {"yes", "no"}, auth : {"off", "strict", "lenient"}]

\* Errors with a status are named by its code; the others have none.
PlainErrors == {"ErrServiceUnavailable", "ErrServiceOverloaded",
                "context.DeadlineExceeded", "context.Canceled"}

ASSUME RpcCallAssumption ==
  /\ Configs \subseteq Config
  /\ HandlerError \cap (PlainErrors \cup {"panic", "none"}) = {}
  /\ Token \cap {"absent", "unknown", "missing", "error", "none", "asked"} = {}
  /\ MaxChanges \in Nat

VARIABLES
  conf,       \* the settings
  server,     \* "new", "published", "serving", "stopping", "stopped"
  conn,       \* the client's connection: "none", "ready", "failed"
  token,      \* per call: the token it carries, or "missing"
  client,     \* per call, at the client: "idle", "dropped", "wait", "ended"
  reply,      \* per call: the code the caller got, or "none"
  heard,      \* per call, history: "yes" if the server's answer was the reply
  clientMark, \* per call: what the client's breaker was told
  stage,      \* per call, at the server: "off", "select", "ended"
  answer,     \* per call: the error the server ended with
  mark,       \* per call: the promise of the server's breaker
  shedder,    \* per call: the promise of the shedder
  ctx,        \* per call: the server's context, "live" or why it is done
  work,       \* per call: auth and handler: "off", "auth", "take", "handler",
              \* "panicking", "returned", "gone"
  result,     \* per call: what they returned
  panicChan,  \* per call: the channel for panics, "empty" or "full"
  clean       \* history, per call: "yes" if the cache was fresh when the call
              \* arrived, and the token has not changed since

setup      == <<conf, server, conn, token>>
clientVars == <<client, reply, heard, clientMark>>
goroutine  == <<work, result, panicChan>>
judged     == <<stage, answer, mark, shedder>>
serverVars == <<judged, goroutine, ctx, clean>>
vars == <<setup, clientVars, serverVars, authVars, streamVars>>

All(x) == [c \in Call |-> x]

\* NewClient: a client has a credential if it is configured with one, and sends
\* it with each call. Without auth at the server nobody looks at it.
Credentials == IF conf.auth = "off" THEN {All("missing")}
               ELSE [Call -> Token \cup {"missing"}]

Init ==
  /\ conf \in Configs
  /\ server = "new" /\ conn = "none"
  /\ token \in Credentials
  /\ client = All("idle") /\ reply = All("none")
  /\ heard = All("no") /\ clientMark = All("none")
  /\ stage = All("off") /\ answer = All("none")
  /\ mark = All("none") /\ shedder = All("none")
  /\ ctx = All("live")
  /\ work = All("off") /\ result = All("none") /\ panicChan = All("empty")
  /\ clean = All("no")
  /\ NewAuthenticator /\ StreamInit

Unary == conf.kind = "unary"

-----------------------------------------------------------------------------
(* Codes.                                                                  *)

\* status.Code, and what gRPC makes of an error without a status.
Code(err) == IF err \in PlainErrors THEN "Unknown" ELSE err

Acceptable(err) ==
  Code(err) \notin {"DeadlineExceeded", "Internal", "Unavailable", "DataLoss"}

\* What DoWithAcceptable tells a breaker.
Told(outcome) ==
  IF outcome = "panic" \/ ~ Acceptable(outcome) THEN "failure" ELSE "success"

\* toPanicError.
PanicError == "Internal"

\* CrashInterceptor and StatInterceptor recover a panic; a stream has the first
\* only.
CrashRecovers(outcome) == IF outcome = "panic" THEN PanicError ELSE outcome
StatRecovers(outcome) == IF Unary /\ outcome = "panic" THEN PanicError ELSE outcome

\* Variant for a mutation run: what is recovered has no status.
RecoveredUnknown(outcome) ==
  IF outcome = "panic" THEN "ErrServiceUnavailable" ELSE outcome

\* The error that leaves the server for what its breaker has seen.
Recovered(outcome) == CrashRecovers(StatRecovers(outcome))

-----------------------------------------------------------------------------
(* Set-up.                                                                 *)

\* A server of a service with etcd publishes itself first,
RegisterEtcd ==
  /\ server = "new"
  /\ server' \in {"published", "stopped"}
  /\ UNCHANGED <<conf, conn, token, clientVars, serverVars, authVars, streamVars>>

\* then listens, which may fail; it stays published until its process ends.
Listen ==
  /\ server \in {"new", "published"}
  /\ server' \in {"serving", "stopped"}
  /\ UNCHANGED <<conf, conn, token, clientVars, serverVars, authVars, streamVars>>

\* The wrap-up listener calls GracefulStop: nothing new is accepted,
WrapUp ==
  /\ server = "serving"
  /\ server' = "stopping"
  /\ UNCHANGED <<conf, conn, token, clientVars, serverVars, authVars, streamVars>>

\* and Serve returns when the last call has been answered.
ServeReturns ==
  /\ server = "stopping" /\ \A c \in Call : stage[c] # "select"
  /\ server' = "stopped"
  /\ UNCHANGED <<conf, conn, token, clientVars, serverVars, authVars, streamVars>>

\* NewClient: WithBlock waits three seconds for a server, WithNonBlock does not.
Dial ==
  /\ conn = "none"
  /\ conn' \in {"ready", "failed"}
  /\ UNCHANGED <<conf, server, token, clientVars, serverVars, authVars, streamVars>>

SetUp == RegisterEtcd \/ Listen \/ WrapUp \/ ServeReturns \/ Dial

-----------------------------------------------------------------------------
(* The client.                                                             *)

\* BreakerInterceptor of the client lets the call pass,
Invoke(c) ==
  /\ conn = "ready" /\ client[c] = "idle"
  /\ client' = [client EXCEPT ![c] = "wait"]
  /\ IF Unary THEN UNCHANGED streamVars ELSE WrapClientStream(c)
  /\ UNCHANGED <<setup, reply, heard, clientMark, serverVars, authVars>>

\* or drops it.
BreakerDropsCall(c) ==
  /\ Unary /\ conn = "ready" /\ client[c] = "idle"
  /\ client' = [client EXCEPT ![c] = "dropped"]
  /\ reply' = [reply EXCEPT ![c] = "Unknown"]
  /\ UNCHANGED <<setup, heard, clientMark, serverVars, authVars, streamVars>>

\* A stream may not come about: the streamer fails.
StreamRefused(c) ==
  /\ ~ Unary /\ conn = "ready" /\ client[c] = "idle"
  /\ client' = [client EXCEPT ![c] = "ended"]
  /\ reply' = [reply EXCEPT ![c] = "Unavailable"]
  /\ StreamerFails(c, "Unavailable")
  /\ UNCHANGED <<setup, heard, clientMark, serverVars, authVars>>

\* The invoker, or RecvMsg of a stream, returns: the breaker is told of a call,
\* the span of a stream.
Reply(c, err) ==
  /\ client[c] = "wait"
  /\ client' = [client EXCEPT ![c] = "ended"]
  /\ reply' = [reply EXCEPT ![c] = Code(err)]
  /\ IF Unary
     THEN /\ clientMark' = [clientMark EXCEPT ![c] = Told(Code(err))]
          /\ UNCHANGED streamVars
     ELSE RecvEnd(c, Code(err)) /\ UNCHANGED clientMark
  /\ UNCHANGED <<setup, serverVars, authVars>>

HearAnswer(c) ==
  /\ answer[c] # "none"
  /\ Reply(c, answer[c])
  /\ heard' = [heard EXCEPT ![c] = "yes"]

\* TimeoutInterceptor of the client
ClientDeadline(c) ==
  /\ Unary /\ conf.deadline = "yes"
  /\ Reply(c, "DeadlineExceeded") /\ UNCHANGED heard

\* The caller's context is done,
CallerCancels(c) ==
  /\ Unary \/ caller[c] # "live"
  /\ Reply(c, "Canceled") /\ UNCHANGED heard

\* there is no server to reach,
Unreachable(c) ==
  /\ stage[c] = "off" /\ server # "serving"
  /\ Reply(c, "Unavailable") /\ UNCHANGED heard

\* or the connection breaks.
ConnectionLost(c) == Reply(c, "Unavailable") /\ UNCHANGED heard

\* The caller of a stream cancels it; or an operation that sends fails, at any
\* time: the stream is over, its connection lost, or the message cannot be sent.
StreamCaller(c) ==
  /\ \/ CancelStream(c)
     \/ \E err \in {"EOF", "Internal", "Unavailable"} :
          loop[c] # "off" /\ sender[c] = "none" /\ SendEnd(c, err)
  /\ UNCHANGED <<setup, clientVars, serverVars, authVars>>

StreamTracing(c) ==
  /\ StreamStep(c)
  /\ UNCHANGED <<setup, clientVars, serverVars, authVars>>

-----------------------------------------------------------------------------
(* The server, on the way in. A call may arrive after its client has given *)
(* it up.                                                                  *)

Arrives(c) ==
  /\ server = "serving" /\ client[c] \in {"wait", "ended"} /\ stage[c] = "off"
  /\ Unary \/ loop[c] # "off"
  /\ UNCHANGED <<setup, clientVars, authVars, streamVars, ctx, result, panicChan>>

ServerBreakerDrops(c) ==
  /\ Arrives(c)
  /\ stage' = [stage EXCEPT ![c] = "ended"]
  /\ answer' = [answer EXCEPT ![c] = "ErrServiceUnavailable"]
  /\ UNCHANGED <<mark, shedder, work, clean>>

\* The error of the shedder passes the breaker, which accepts it.
ShedderDrops(c) ==
  /\ Arrives(c) /\ Unary
  /\ stage' = [stage EXCEPT ![c] = "ended"]
  /\ answer' = [answer EXCEPT ![c] = "ErrServiceOverloaded"]
  /\ mark' = [mark EXCEPT ![c] = Told("ErrServiceOverloaded")]
  /\ UNCHANGED <<shedder, work, clean>>

Admit(c) ==
  /\ Arrives(c)
  /\ stage' = [stage EXCEPT ![c] = "select"]
  /\ mark' = [mark EXCEPT ![c] = "promise"]
  /\ shedder' = [shedder EXCEPT ![c] = IF Unary THEN "promise" ELSE "none"]
  /\ work' = [work EXCEPT ![c] = IF conf.auth = "off" THEN "handler" ELSE "auth"]
  /\ clean' = [clean EXCEPT ![c] = fresh]
  /\ UNCHANGED answer

Arrive(c) == ServerBreakerDrops(c) \/ ShedderDrops(c) \/ Admit(c)

-----------------------------------------------------------------------------
(* Auth and handler; with a timeout they run in a goroutine of their own,  *)
(* which goes on when the call has been answered.                          *)

OwnGoroutine == Unary /\ conf.timeout = "yes"

\* Authenticate has come to a verdict on the calls in waiting.
Judge(waiting, expect) ==
  LET verdictOn(c) == Validate(conf.auth, token[c], expect) IN
  /\ work' = [c \in Call |-> IF c \notin waiting THEN work[c]
                             ELSE IF verdictOn(c) = "nil" THEN "handler"
                             ELSE "returned"]
  /\ result' = [c \in Call |-> IF c \in waiting /\ verdictOn(c) # "nil"
                               THEN verdictOn(c) ELSE result[c]]
  /\ UNCHANGED <<setup, clientVars, judged, ctx, panicChan, clean, streamVars>>

MissingMetadata(c) ==
  /\ work[c] = "auth" /\ token[c] = "missing"
  /\ work' = [work EXCEPT ![c] = "returned"]
  /\ result' = [result EXCEPT ![c] = "Unauthenticated"]
  /\ UNCHANGED <<setup, clientVars, judged, ctx, panicChan, clean, authVars,
                 streamVars>>

TakeCached(c) ==
  /\ work[c] = "auth" /\ token[c] # "missing" /\ Cached
  /\ Judge({c}, cache)
  /\ UNCHANGED authVars

TakeFetches(c) ==
  /\ work[c] = "auth" /\ token[c] # "missing"
  /\ JoinFetch
  /\ work' = [work EXCEPT ![c] = "take"]
  /\ UNCHANGED <<setup, clientVars, judged, ctx, result, panicChan, clean,
                 streamVars>>

HgetReturns ==
  /\ Hget
  /\ UNCHANGED <<setup, clientVars, serverVars, streamVars>>

TakeReturns ==
  /\ EndFetch
  /\ Judge({c \in Call : work[c] = "take"}, fetch)

\* A handler may pass on what its context is done with, or another context of
\* its own, which may be done while the call's is not.
HandlerReturns(c) ==
  /\ work[c] = "handler"
  /\ work' = [work EXCEPT ![c] = "returned"]
  /\ \E err \in HandlerError \cup {"context.Canceled", "context.DeadlineExceeded"} :
       result' = [result EXCEPT ![c] = err]
  /\ UNCHANGED <<setup, clientVars, judged, ctx, panicChan, clean, authVars,
                 streamVars>>

HandlerPanics(c) ==
  /\ work[c] = "handler"
  /\ work' = [work EXCEPT ![c] = IF OwnGoroutine THEN "panicking" ELSE "returned"]
  /\ result' = [result EXCEPT ![c] = "panic"]
  /\ UNCHANGED <<setup, clientVars, judged, ctx, panicChan, clean, authVars,
                 streamVars>>

\* Variant for a mutation run: the channel has no room, so that the send waits
\* for the select.
SendPanicUnbuffered(c) ==
  /\ work[c] = "panicking" /\ stage[c] = "select"
  /\ work' = [work EXCEPT ![c] = "gone"]
  /\ panicChan' = [panicChan EXCEPT ![c] = "full"]
  /\ UNCHANGED <<setup, clientVars, judged, ctx, result, clean, authVars,
                 streamVars>>

\* The recovered panic goes into the channel, which has room for it.
SendPanic(c) ==
  /\ work[c] = "panicking"
  /\ work' = [work EXCEPT ![c] = "gone"]
  /\ panicChan' = [panicChan EXCEPT ![c] = "full"]
  /\ UNCHANGED <<setup, clientVars, judged, ctx, result, clean, authVars,
                 streamVars>>

-----------------------------------------------------------------------------
(* The server, on the way out.                                             *)

\* A deadline passes, or the client is gone and its stream is reset.
ContextDone(c) ==
  /\ stage[c] = "select" /\ ctx[c] = "live"
  /\ \/ /\ OwnGoroutine \/ (Unary /\ conf.deadline = "yes")
        /\ ctx' = [ctx EXCEPT ![c] = "DeadlineExceeded"]
     \/ /\ client[c] = "ended" \/ caller[c] # "live"
        /\ ctx' = [ctx EXCEPT ![c] = "Canceled"]
  /\ UNCHANGED <<setup, clientVars, judged, goroutine, clean, authVars,
                 streamVars>>

\* Shedding, breaker, stat and crash interceptors, from the inside out: the
\* shedder is told of a failure for this one error only.
Conclude(c, outcome) ==
  /\ stage[c] = "select"
  /\ stage' = [stage EXCEPT ![c] = "ended"]
  /\ shedder' = [shedder EXCEPT
                   ![c] = IF ~ Unary THEN "none"
                          ELSE IF outcome = "context.DeadlineExceeded" THEN "fail"
                          ELSE "pass"]
  /\ mark' = [mark EXCEPT ![c] = Told(outcome)]
  /\ answer' = [answer EXCEPT ![c] = Recovered(outcome)]
  /\ UNCHANGED <<setup, clientVars, ctx, result, clean, authVars, streamVars>>

\* TimeoutInterceptor: what the goroutine returned, which is also the way without
\* a timeout;
SelectDone(c) ==
  /\ work[c] = "returned"
  /\ Conclude(c, result[c])
  /\ UNCHANGED <<work, panicChan>>

\* a panic of it, thrown again;
SelectPanic(c) ==
  /\ panicChan[c] = "full"
  /\ Conclude(c, "panic")
  /\ panicChan' = [panicChan EXCEPT ![c] = "empty"]
  /\ UNCHANGED work

\* Variant for a mutation run: the select waits for the context the call came
\* with, which has no deadline of the server's.
SelectCallContext(c) ==
  /\ OwnGoroutine /\ ctx[c] = "Canceled"
  /\ Conclude(c, ctx[c])
  /\ UNCHANGED <<work, panicChan>>

\* or the status of the context.
SelectContext(c) ==
  /\ OwnGoroutine /\ ctx[c] # "live"
  /\ Conclude(c, ctx[c])
  /\ UNCHANGED <<work, panicChan>>

Select(c) == SelectDone(c) \/ SelectPanic(c) \/ SelectContext(c)

-----------------------------------------------------------------------------
Auth(c) == MissingMetadata(c) \/ TakeCached(c) \/ TakeFetches(c)

\* Nothing of auth matters to a server without it.
Store ==
  /\ conf.auth # "off"
  /\ CacheExpires \/ ChangeToken
  /\ clean' = IF changes' = changes THEN clean ELSE All("no")
  /\ UNCHANGED <<setup, clientVars, judged, goroutine, ctx, streamVars>>

\* Calls of the application that are not in Call, and of other servers' clients,
\* touch this one only through the cache.
OtherTakeFetches ==
  /\ conf.auth # "off" /\ JoinFetch
  /\ UNCHANGED <<setup, clientVars, serverVars, streamVars>>

Next ==
  \/ SetUp \/ OtherTakeFetches \/ HgetReturns \/ TakeReturns \/ Store
  \/ \E c \in Call :
       \/ Invoke(c) \/ BreakerDropsCall(c) \/ StreamRefused(c)
       \/ HearAnswer(c) \/ ClientDeadline(c) \/ CallerCancels(c)
       \/ Unreachable(c) \/ ConnectionLost(c)
       \/ StreamCaller(c) \/ StreamTracing(c)
       \/ Arrive(c) \/ Auth(c) \/ HandlerReturns(c) \/ HandlerPanics(c)
       \/ SendPanic(c) \/ ContextDone(c) \/ Select(c)

Spec == Init /\ [][Next]_vars

\* Goroutines are scheduled, timers fire, and an answer is delivered or its
\* connection is lost. Nothing is assumed of Redis, the handler or the caller, nor
\* that a call arrives at a server or is refused by gRPC.
Fairness ==
  \A c \in Call :
    /\ WF_vars(HearAnswer(c)) /\ WF_vars(ClientDeadline(c))
    /\ WF_vars(ContextDone(c)) /\ WF_vars(Select(c)) /\ WF_vars(SendPanic(c))
    /\ WF_vars(StreamTracing(c))

FairSpec == Spec /\ Fairness

-----------------------------------------------------------------------------
(* Properties.                                                             *)

\* An answer that travels is judged alike by the breakers at both ends, although
\* they see different errors: the server's sees panics, timeouts and errors
\* without a status, the client's only codes. What the server refuses on its own
\* account, by breaker or shedder, counts as a success at both ends, so overload
\* of a server does not open the breakers of its clients.
JudgedAlike ==
  \A c \in Call : Unary /\ heard[c] = "yes" =>
    clientMark[c] = IF mark[c] = "none" THEN "success" ELSE mark[c]

\* In strict mode no handler runs on a token that is not in Redis, for a call
\* that came after the cache had expired or was filled after the last change:
\* a token that was changed or removed is good for one life of the cache's entry,
\* across fetches that are shared, slow, failing, or given up by their callers.
TokenEnforced ==
  \A c \in Call :
    conf.auth = "strict" /\ clean[c] = "yes" /\ work[c] \in {"handler", "panicking"}
      => token[c] = store

\* A unary call with a deadline returns whatever becomes of its server, one that
\* was published and never listened included; without a deadline it returns once
\* a server with a timeout has met it: with a handler or a Redis that hangs, a
\* server that stops, an answer that comes too late.
CallReturns ==
  \A c \in Call :
    Unary /\ client[c] = "wait"
      /\ (conf.deadline = "yes" \/ (conf.timeout = "yes" /\ stage[c] # "off"))
      ~> client[c] = "ended"

\* Nothing is left waiting for a reader that is gone: neither the goroutine of a
\* handler that panicked after its call was answered (timeoutinterceptor.go:29),
\* nor the operations of a stream whose loop has already taken another's event.
NothingStuck ==
  \A c \in Call :
    /\ work[c] = "panicking" ~> work[c] = "gone"
    /\ sender[c] # "none" ~> sender[c] = "none"
    /\ receiver[c] # "none" ~> receiver[c] = "none" /\ span[c] # "open"
=============================================================================
