------------------------------ MODULE RestGate ------------------------------
(***************************************************************************)
(* The gates of a REST route: the router in front of the chain of module   *)
(* RestChain and, inside it, what engine.bindRoute puts between            *)
(* RecoverHandler and the user's handler: MaxBytesHandler, GunzipHandler,  *)
(* Authorize with its TokenParser, ContentSecurityHandler and              *)
(* CryptionHandler.                                                        *)
(*                                                                         *)
(* The gates run on the goroutine that TimeoutHandler starts. A gate that  *)
(* refuses a request writes a code and returns; to the chain that is a     *)
(* handler that writes and returns. So a request may time out inside a     *)
(* gate and go on to the user's handler with nobody waiting for it, next   *)
(* to later requests of the route, with which it shares the counters of    *)
(* the TokenParser.                                                        *)
(***************************************************************************)
EXTENDS RestChain

CONSTANTS
  Target,        \* what a request may ask for: a method and a path
  Settings,      \* the configurations of the server: a setting per route
  Tolerance,     \* SignatureConf.Expiry, in seconds
  UserCode,      \* the codes the user's handler may write
  CallbackCode   \* the codes a callback of the user may write

Unsigned      == 403
Unauthorized  == 401
BadRequest    == 400
TooLarge      == 413
NotFound      == 404
NotAllowed    == 405

GateCode == {BadRequest, Unauthorized, Unsigned, TooLarge}

\* What a callback of the user makes of the answer if it does anything to it:
\* WriteHeader with a code; a body alone, which stands for a 200; a panic, which
\* RecoverHandler answers.
CallbackAnswer == CallbackCode \cup {OK, InternalError}

ASSUME RestGateAssumption ==
  /\ Route # {} /\ Route \subseteq Target
  /\ Tolerance \in Nat
  /\ 0 \notin CallbackCode
  /\ UserCode \cup GateCode \cup CallbackAnswer \subseteq HandlerCode

\* WithJwt: one secret; WithJwtTransition: a new one and the one before it.
JwtSetting == {"off", "on", "transition"}

\* WithSignature. A strict signature without keys is no setting: the server does
\* not start with it (signatureVerifier).
SignatureSetting == {"off", "strict", "lenient"}

\* A route's options and the callbacks of the server.
Setting == [jwt : JwtSetting, onUnauthorized : {"none", "user"},
            signature : SignatureSetting, onUnsigned : {"none", "user"}]
ASSUME SettingsAssumption == Settings \subseteq [Route -> Setting]

Secret == {"secret", "prevSecret"}

VARIABLES
  setting,   \* per route
  target,    \* per request: its method and path
  routing,   \* per request: the code the router refused it with, or 0
  gate,      \* per request: where its handler's goroutine is
  refusal,   \* per request: the code a gate refused it with, or 0; OK stands
             \* also for a callback that neither wrote nor went on
  token,     \* per request: the secret its token was signed with
  first,     \* per request: the secret that is tried first
  signed,    \* per request: what VerifySignature found
  sealed,    \* per request: the buffer of cryptionResponseWriter
  history,   \* TokenParser.history, per route and secret; 0: no entry
  found,     \* per request: the entry incrementCount has loaded
  day        \* "first": until resetTime + resetDuration, then "over"

router == <<target, routing>>
parser == <<history, found>>
request == <<refusal, token, first, signed, sealed>>
gates == <<setting, router, gate, request, parser, day>>

GateInit ==
  /\ setting \in Settings
  /\ target \in [Request -> Target]
  /\ route = [q \in Request |-> IF target[q] \in Route THEN target[q]
                                ELSE CHOOSE r \in Route : TRUE]
  /\ Init
  /\ routing = [q \in Request |-> 0]
  /\ gate = [q \in Request |-> "none"]
  /\ refusal = [q \in Request |-> 0]
  /\ token = [q \in Request |-> "none"]
  /\ first = [q \in Request |-> "none"]
  /\ signed = [q \in Request |-> "none"]
  /\ sealed = [q \in Request |-> "no"]
  /\ history = [r \in Route |-> [s \in Secret |-> 0]]
  /\ found = [q \in Request |-> "none"]
  /\ day = "first"

-----------------------------------------------------------------------------
(* patRouter.ServeHTTP.                                                    *)

MethodsAllowed(t) == {r[1] : r \in {r \in Route : r[1] # t[1] /\ r[2] = t[2]}}

RouterRefuses(q) ==
  /\ target[q] \notin Route /\ routing[q] = 0
  /\ routing' = [routing EXCEPT ![q] = IF MethodsAllowed(target[q]) = {}
                                       THEN NotFound ELSE NotAllowed]
  /\ UNCHANGED <<vars, setting, target, gate, request, parser, day>>

\* The steps of the chain that are not the handler's.
RouterServes(q) ==
  /\ target[q] \in Route
  /\ Borrow(q) \/ BorrowRefused(q)
  /\ UNCHANGED gates

ChainStarts(q) ==
  /\ ShedderAllows(q)
  /\ gate' = [gate EXCEPT ![q] = "size"]
  /\ UNCHANGED <<setting, router, request, parser, day>>

ChainMoves(q) ==
  /\ \/ BreakerAllows(q) \/ BreakerDrops(q) \/ ShedderDrops(q)
     \/ SelectDone(q) \/ SelectContext(q)
     \/ ShedderReport(q) \/ BreakerReport(q) \/ Return(q)
  /\ UNCHANGED gates

TimeRunsOut(q) == ContextDone(q) /\ UNCHANGED gates

-----------------------------------------------------------------------------
(* The gates, on the goroutine of the handler.                             *)

At(q, from) == handler[q] = "running" /\ gate[q] = from
GoTo(q, to) == gate' = [gate EXCEPT ![q] = to]

\* A step of the goroutine that does not touch the response.
Quiet == UNCHANGED <<vars, setting, router, day>>

\* w.WriteHeader(c) by the goroutine.
Write(q, c) ==
  /\ WriteHeader(q, c)
  /\ UNCHANGED <<route, counters, stage, code, promises, handler, ctx>>
  /\ UNCHANGED <<setting, router, day>>

Refuse(q, c) ==
  /\ Write(q, c)
  /\ refusal' = [refusal EXCEPT ![q] = c]
  /\ GoTo(q, "refused")

\* Where a request goes when a gate lets it pass.
Signed(q) == setting[route[q]].signature # "off"
             /\ target[q][1] \in {"DELETE", "GET", "POST", "PUT"}
AfterToken(q) == IF Signed(q) THEN "signature" ELSE "handler"
AfterBody(q) == IF setting[route[q]].jwt = "off" THEN AfterToken(q) ELSE "token"

\* Variant for a mutation run: next is called although 413 was written.
MaxBytesServes(q) ==
  /\ At(q, "size")
  /\ \/ GoTo(q, "gzip") /\ Quiet /\ UNCHANGED refusal
     \/ /\ Write(q, TooLarge)
        /\ refusal' = [refusal EXCEPT ![q] = TooLarge]
        /\ GoTo(q, "gzip")
  /\ UNCHANGED <<token, first, signed, sealed, parser>>

\* MaxBytesHandler: by ContentLength; MaxBytes = 0 is any length.
MaxBytes(q) ==
  /\ At(q, "size")
  /\ \/ GoTo(q, "gzip") /\ Quiet /\ UNCHANGED refusal
     \/ Refuse(q, TooLarge)
  /\ UNCHANGED <<token, first, signed, sealed, parser>>

\* GunzipHandler: the body is no gzip although its encoding says so.
Gunzip(q) ==
  /\ At(q, "gzip")
  /\ \/ GoTo(q, AfterBody(q)) /\ Quiet /\ UNCHANGED refusal
     \/ Refuse(q, BadRequest)
  /\ UNCHANGED <<token, first, signed, sealed, parser>>

\* ParseToken: the secret used more often is tried first. Its two loadCount are
\* one step: what happens between them can only change the order.
LoadCounts(q) ==
  LET h == history[route[q]] IN
  /\ At(q, "token")
  /\ first' = [first EXCEPT
       ![q] = IF setting[route[q]].jwt = "transition"
                 /\ h["secret"] <= h["prevSecret"]
              THEN "prevSecret" ELSE "secret"]
  /\ GoTo(q, "parse")
  /\ Quiet /\ UNCHANGED <<refusal, token, signed, sealed, parser>>

\* ParseToken succeeds: with the first secret or, in a transition, the second.
Opens(q, t) ==
  \/ t = first[q]
  \/ t \in Secret /\ setting[route[q]].jwt = "transition"

\* unauthorized: the callback goes first, the 401 is for the case that it has
\* written nothing. A body alone does not count as a header here, but the 401
\* that follows it comes too late.
UnauthorizedCodes(q) ==
  {Unauthorized} \cup
    IF setting[route[q]].onUnauthorized = "user" THEN CallbackAnswer ELSE {}

Authorize(q) ==
  /\ At(q, "parse")
  /\ \E t \in Secret \cup {"invalid"} :
       /\ token' = [token EXCEPT ![q] = t]
       /\ \/ /\ Opens(q, t)
             /\ GoTo(q, IF setting[route[q]].jwt = "transition" THEN "count"
                        ELSE AfterToken(q))
             /\ Quiet /\ UNCHANGED refusal
          \/ ~Opens(q, t) /\ \E c \in UnauthorizedCodes(q) : Refuse(q, c)
  /\ first' = [first EXCEPT ![q] = "none"]
  /\ UNCHANGED <<signed, sealed, parser>>

\* The goroutines of q's route, without q, that hold the entries E of history
\* hold entries that are no longer there.
Orphan(q, E) ==
  [p \in Request |-> IF p # q /\ found[p] = "entry" /\ route[p] = route[q] /\ token[p] \in E
                     THEN "orphan" ELSE found[p]]

\* Variant for a mutation run: the history is emptied until the day is over.
CountLoadsEarly(q) ==
  LET wiped == IF day = "first" THEN Secret ELSE {}
      h == [s \in Secret |-> IF s \in wiped THEN 0 ELSE history[route[q]][s]]
  IN
  /\ At(q, "count")
  /\ history' = [history EXCEPT ![route[q]] = h]
  /\ found' = [Orphan(q, wiped) EXCEPT ![q] = IF h[token[q]] = 0 THEN "nothing" ELSE "entry"]
  /\ GoTo(q, "store")
  /\ Quiet /\ UNCHANGED request

\* incrementCount: after the day every call empties the history, since resetTime
\* stays what it was; then Load.
CountLoads(q) ==
  LET wiped == IF day = "over" THEN Secret ELSE {}
      h == [s \in Secret |-> IF s \in wiped THEN 0 ELSE history[route[q]][s]]
  IN
  /\ At(q, "count")
  /\ history' = [history EXCEPT ![route[q]] = h]
  /\ found' = [Orphan(q, wiped) EXCEPT ![q] = IF h[token[q]] = 0 THEN "nothing" ELSE "entry"]
  /\ GoTo(q, "store")
  /\ Quiet /\ UNCHANGED request

\* incrementCount: AddUint64 on the entry that was loaded, or Store of a new one
\* with the count 1 over whatever is there by now.
CountStores(q) ==
  LET r == route[q] t == token[q] IN
  /\ At(q, "store")
  /\ history' = [history EXCEPT ![r][t] =
                   CASE found[q] = "nothing" -> 1
                     [] found[q] = "entry" -> @ + 1
                     [] found[q] = "orphan" -> @]
  /\ found' = [(IF found[q] = "nothing" THEN Orphan(q, {t}) ELSE found)
                 EXCEPT ![q] = "none"]
  /\ GoTo(q, AfterToken(q))
  /\ Quiet /\ UNCHANGED request

DayPasses ==
  /\ day = "first" /\ day' = "over"
  /\ UNCHANGED <<vars, setting, router, gate, request, parser>>

\* ParseContentSecurity and VerifySignature on a header with a key, a timestamp
\* (seconds from now) and a signature.
Header == [key : {"known", "unknown"}, time : -2 .. 2, signature : {"right", "wrong"}]

ParseContentSecurity(h) == h.key = "known"

VerifySignature(h) ==
  CASE h.time + Tolerance < 0 \/ Tolerance < h.time -> "wrongTime"
    [] h.signature = "wrong" -> "invalidToken"
    [] OTHER -> "pass"

Verdict(h) == IF ParseContentSecurity(h) THEN VerifySignature(h) ELSE "invalidHeader"

\* Variant for a mutation run: handleVerificationFailure does not ask whether the
\* signature is strict.
UnsignedGoesOn(q) == GoTo(q, "handler") /\ Quiet /\ UNCHANGED refusal

\* The user's callback for a request without a good signature: it may write, and
\* it goes on to the handler or ends the request. What it writes after the
\* handler counts as written by the handler.
UnsignedCallback(q) ==
  \/ /\ GoTo(q, "handler") /\ UNCHANGED refusal
     /\ \/ Quiet
        \/ \E c \in CallbackAnswer : Write(q, c)
  \/ \E c \in CallbackAnswer : Refuse(q, c)
  \/ GoTo(q, "refused") /\ refusal' = [refusal EXCEPT ![q] = OK] /\ Quiet

\* ContentSecurityHandler on a header or a signature it does not accept:
\* handleVerificationFailure or, in its place, the user's callback.
UnsignedRequest(q) ==
  LET s == setting[route[q]] IN
  \/ /\ s.onUnsigned = "none" /\ s.signature = "lenient"
     /\ GoTo(q, "handler") /\ Quiet /\ UNCHANGED refusal
  \/ s.onUnsigned = "none" /\ s.signature = "strict" /\ Refuse(q, Unsigned)
  \/ s.onUnsigned = "user" /\ UnsignedCallback(q)

ContentSecurity(q) ==
  /\ At(q, "signature")
  /\ \E verdict \in {Verdict(h) : h \in Header} :
       /\ signed' = [signed EXCEPT ![q] = IF verdict = "pass" THEN "pass" ELSE "failed"]
       /\ \/ verdict # "pass" /\ UnsignedRequest(q)
          \/ /\ verdict = "pass"
             /\ \E to \in {"handler", "crypt"} : GoTo(q, to)
             /\ Quiet /\ UNCHANGED refusal
  /\ UNCHANGED <<token, first, sealed, parser>>

\* CryptionHandler: the body is decrypted, the answer will be collected.
Decrypt(q) ==
  /\ At(q, "crypt")
  /\ \/ /\ sealed' = [sealed EXCEPT ![q] = "empty"]
        /\ GoTo(q, "handler") /\ Quiet /\ UNCHANGED refusal
     \/ Refuse(q, BadRequest) /\ UNCHANGED sealed
  /\ UNCHANGED <<token, first, signed, parser>>

-----------------------------------------------------------------------------
(* The user's handler and the way out.                                     *)

UserWritesHeader(q) ==
  /\ At(q, "handler")
  /\ \E c \in UserCode : Write(q, c)
  /\ UNCHANGED <<gate, request, parser>>

\* A Write without a WriteHeader stands for a 200, unless it is collected for
\* the encryption.
UserWritesBody(q) ==
  /\ At(q, "handler")
  /\ \/ sealed[q] = "no" /\ Write(q, OK) /\ UNCHANGED sealed
     \/ /\ sealed[q] # "no" /\ sealed' = [sealed EXCEPT ![q] = "full"]
        /\ Quiet
  /\ UNCHANGED <<gate, refusal, token, first, signed, parser>>

\* The deferred flush of the collected answer, after a return or a panic.
Flush(q) ==
  /\ At(q, "handler") /\ sealed[q] # "no"
  /\ IF sealed[q] = "full" THEN Write(q, OK) ELSE Quiet
  /\ \E to \in {"flushed", "panicking"} : GoTo(q, to)
  /\ UNCHANGED <<request, parser>>

GoroutineReturns(q) ==
  /\ \/ gate[q] \in {"refused", "flushed"}
     \/ gate[q] = "handler" /\ sealed[q] = "no"
  /\ HandlerReturns(q)
  /\ UNCHANGED gates

GoroutinePanics(q) ==
  /\ gate[q] = "panicking" \/ (gate[q] = "handler" /\ sealed[q] = "no")
  /\ HandlerPanics(q)
  /\ UNCHANGED gates

-----------------------------------------------------------------------------
Gates(q) ==
  \/ MaxBytes(q) \/ Gunzip(q)
  \/ LoadCounts(q) \/ Authorize(q) \/ CountLoads(q) \/ CountStores(q)
  \/ ContentSecurity(q) \/ Decrypt(q)
  \/ UserWritesHeader(q) \/ UserWritesBody(q) \/ Flush(q)
  \/ GoroutineReturns(q) \/ GoroutinePanics(q)

GateNext ==
  \/ DayPasses
  \/ \E q \in Request :
       \/ RouterRefuses(q) \/ RouterServes(q)
       \/ ChainStarts(q) \/ ChainMoves(q) \/ TimeRunsOut(q)
       \/ Gates(q)

gateVars == <<vars, gates>>

GateSpec == GateInit /\ [][GateNext]_gateVars

-----------------------------------------------------------------------------
(* Properties.                                                             *)

InHandler(q) == gate[q] \in {"handler", "flushed", "panicking"}

\* What the user's handler may rely on, also one that runs on after a timeout and
\* next to others: where a token is asked for it was signed with a secret of the
\* route, and under a strict signature with no callback of the user the request
\* carries a signature that was found right, for the methods that are checked.
HandlerGuarded ==
  \A q \in Request : InHandler(q) =>
    LET s == setting[route[q]] IN
    /\ s.jwt = "on" => token[q] = "secret"
    /\ s.jwt = "transition" => token[q] \in Secret
    /\ s.signature = "strict" /\ s.onUnsigned = "none"
         /\ target[q][1] \in {"DELETE", "GET", "POST", "PUT"} => signed[q] = "pass"

\* The requests of route r whose token, signed with s, has been counted.
Counted(r, s) ==
  {q \in Request : /\ route[q] = r /\ setting[r].jwt = "transition"
                   /\ token[q] = s /\ gate[q] \notin {"count", "store"}}

\* What the shared counters are worth, which decide the order in which secrets
\* are tried (ParseToken). No use is counted twice and none is invented, whatever
\* entries are stored over, wiped or counted in after they are gone. Until the
\* reset a secret that was used has a count, although increments may be lost: so
\* while only one secret is in use it is the first to be tried.
CountsFollowUses ==
  \A r \in Route, s \in Secret :
    /\ history[r][s] <= Cardinality(Counted(r, s))
    /\ day = "first" /\ Counted(r, s) # {} => history[r][s] > 0

\* A request that a gate or a callback refused never reaches the user's handler,
\* and its client is told what was written for it, or of a timeout or cancellation
\* that came first. Unless a callback answered with a 5xx, breaker and shedder
\* take the refusal for no failure of the service.
RefusalStands ==
  \A q \in Request : refusal[q] # 0 =>
    /\ ~InHandler(q)
    /\ stage[q] = "answered" =>
         \/ /\ code[q] = refusal[q]
            /\ refusal[q] < 500 => breaker[q] = "accept" /\ shedder[q] = "pass"
         \/ code[q] \in {ClientClosed, ServiceUnavailable} /\ ctx[q] # "open"
=============================================================================
