--------------------------- MODULE RpcCallProofs ---------------------------
(***************************************************************************)
(* Proofs about RpcCall for any number of calls, tokens and settings:      *)
(* breakers at both ends judge an answer alike, a token that was changed   *)
(* or removed is good for one life of the cache's entry only, promises are *)
(* settled once, no answer is lost, and a span that was opened is ended    *)
(* once, with an event of its stream.                                      *)
(***************************************************************************)
EXTENDS RpcCall, TLAPS

\* What a handler and the interceptors around it can end with.
Outcome == HandlerError \cup PlainErrors \cup
             {"panic", "Unauthenticated", "Internal", "DeadlineExceeded", "Canceled"}

\* Type invariant of a call, except for its stream.
TypeOK ==
  /\ conf \in Config
  /\ token \in [Call -> Token \cup {"missing"}]
  /\ client \in [Call -> {"idle", "dropped", "wait", "ended"}]
  /\ heard \in [Call -> {"yes", "no"}]
  /\ clientMark \in [Call -> {"none", "success", "failure"}]
  /\ stage \in [Call -> {"off", "select", "ended"}]
  /\ answer \in [Call -> Outcome \cup {"none"}]
  /\ mark \in [Call -> {"none", "promise", "success", "failure"}]
  /\ shedder \in [Call -> {"none", "promise", "pass", "fail"}]
  /\ ctx \in [Call -> {"live", "DeadlineExceeded", "Canceled"}]
  /\ work \in [Call -> {"off", "auth", "take", "handler", "panicking", "returned", "gone"}]
  /\ result \in [Call -> Outcome \cup {"none"}]
  /\ panicChan \in [Call -> {"empty", "full"}]
  /\ clean \in [Call -> {"yes", "no"}]
  /\ store \in Token \cup {"absent"} /\ changes \in Nat
  /\ cache \in Token \cup {"unknown"}
  /\ fetch \in Token \cup {"none", "asked", "error"}
  /\ fresh \in {"yes", "no"}

\* What a caller gets, and what the operations of a stream hand over.
Event == Outcome \cup {"Unknown", "Unavailable", "EOF"}

StreamTypeOK ==
  /\ reply \in [Call -> Event \cup {"none"}]
  /\ loop \in [Call -> {"off", "run", "finish", "done"}]
  /\ verdict \in [Call -> Event \cup {"none"}]
  /\ span \in [Call -> Event \cup {"none", "open"}]
  /\ sender \in [Call -> {"none", "EOF", "Internal", "Unavailable"}]
  /\ receiver \in [Call -> Event \cup {"none"}]
  /\ caller \in [Call -> {"live", "Canceled"}]

\* A call is answered once, when the server is done with it, and with an error
\* that makes the client's breaker think what the server's was told.
Answered(c) ==
  /\ work[c] = "returned" => result[c] # "none"
  /\ stage[c] = "off" => mark[c] = "none"
  /\ answer[c] # "none" => stage[c] = "ended"
  /\ Unary /\ answer[c] # "none" =>
       Told(Code(answer[c])) = IF mark[c] = "none" THEN "success" ELSE mark[c]

\* Who has heard the answer has told the breaker of it.
Heard(c) ==
  heard[c] = "yes" =>
    /\ client[c] = "ended" /\ answer[c] # "none"
    /\ Unary => clientMark[c] = Told(Code(answer[c]))

JudgeInv == \A c \in Call : Answered(c) /\ Heard(c)

\* There is a fetch only while the cache is empty, and a fresh cache or fetch has
\* the token that is in Redis.
CacheInv ==
  /\ cache # "unknown" => fetch = "none"
  /\ fresh = "yes" => /\ cache # "unknown" => cache = store
                      /\ fetch \notin {"none", "asked", "error"} => fetch = store

\* A call stays clean as long as nothing changes, and then its token was compared
\* with the one that is in Redis.
Enforced(c) ==
  clean[c] = "yes" =>
    /\ fresh = "yes"
    /\ conf.auth = "strict" /\ work[c] \in {"handler", "panicking"} => token[c] = store

AuthInv == CacheInv /\ \A c \in Call : Enforced(c)

\* What breakers and shedder promised a call is open while the server selects,
\* and the client's breaker is told of a unary call when it ends.
Settled(c) ==
  /\ mark[c] = "promise" <=> stage[c] = "select"
  /\ shedder[c] = "promise" <=> Unary /\ stage[c] = "select"
  /\ clientMark[c] # "none" <=> Unary /\ client[c] = "ended"

SettledInv == \A c \in Call : Settled(c)

\* While the server selects, something to select is there or being worked on; a
\* panic goes through the channel in a goroutine of its own only.
Coming(c) ==
  /\ stage[c] = "off" <=> work[c] = "off" /\ stage[c] # "ended"
  /\ stage[c] = "select" => work[c] # "gone" \/ panicChan[c] = "full"
  /\ stage[c] = "ended" /\ ~ OwnGoroutine => work[c] \in {"off", "returned"}
  /\ panicChan[c] = "full" => work[c] = "gone"
  /\ work[c] \in {"panicking", "gone"} => OwnGoroutine

ComingInv == \A c \in Call : Coming(c)

\* A span is open while its loop runs; who waits has a loop to wait for.
Traced(c) ==
  /\ Unary \/ client[c] \in {"idle", "dropped"} => loop[c] = "off" /\ span[c] = "none"
  /\ ~ Unary /\ client[c] = "wait" => loop[c] # "off" /\ receiver[c] = "none"
  /\ sender[c] # "none" \/ receiver[c] # "none" => loop[c] # "off"
  /\ loop[c] \in {"run", "finish"} => span[c] = "open"
  /\ loop[c] = "finish" => verdict[c] # "none"
  /\ loop[c] = "done" => verdict[c] # "none" /\ span[c] = verdict[c]

TracedInv == StreamTypeOK /\ \A c \in Call : Traced(c)

IInv == TypeOK /\ JudgeInv /\ AuthInv /\ SettledInv /\ ComingInv /\ TracedInv

-----------------------------------------------------------------------------
(* Errors and codes.                                                       *)

\* An error without a status is nowhere the name of a code.
LEMMA CodeTwice == ASSUME NEW e PROVE Code(Code(e)) = Code(e)
  BY DEF Code, PlainErrors

\* The client's breaker hears of a call what the server's was told, also of one
\* that ended in a panic or an error without a status.
LEMMA RecoveredJudgedAlike ==
  ASSUME NEW e, Unary
  PROVE  Told(Code(Recovered(e))) = Told(e)
<1>1. CASE e = "panic"
  <2>1. Recovered(e) = "Internal"
    BY <1>1 DEF Recovered, StatRecovers, CrashRecovers, PanicError
  <2>2. Code(Code("Internal")) = "Internal"
    BY DEF Code, PlainErrors
  <2>3. QED BY <1>1, <2>1, <2>2, CodeTwice DEF Told, Acceptable
<1>2. CASE e # "panic"
  <2>1. Recovered(e) = e /\ Code(e) # "panic"
    BY <1>2 DEF Recovered, StatRecovers, CrashRecovers, PanicError, Code
  <2>2. QED BY <1>2, <2>1, CodeTwice DEF Told, Acceptable
<1>3. QED BY <1>1, <1>2

\* What the server refuses on its own account is no failure.
LEMMA RefusalsAccepted ==
  /\ Told("ErrServiceOverloaded") = "success"
  /\ Told(Code("ErrServiceOverloaded")) = "success"
  /\ Told(Code("ErrServiceUnavailable")) = "success"
  BY DEF Told, Acceptable, Code, PlainErrors

LEMMA ToldType == ASSUME NEW e PROVE Told(e) \in {"success", "failure"}
  BY DEF Told

LEMMA RecoveredType == ASSUME NEW e \in Outcome PROVE Recovered(e) \in Outcome
  BY DEF Recovered, StatRecovers, CrashRecovers, PanicError, Outcome

-----------------------------------------------------------------------------
(* The initial states.                                                     *)

LEMMA InitIInv == Init => IInv
<1> SUFFICES ASSUME Init PROVE IInv
  OBVIOUS
<1> USE DEF Init, All, NewAuthenticator
<1>1. token \in [Call -> Token \cup {"missing"}]
  BY DEF Credentials
<1>2. TypeOK
  BY <1>1, RpcCallAssumption DEF TypeOK
<1>3. JudgeInv
  BY DEF JudgeInv, Answered, Heard
<1>4. AuthInv
  BY DEF AuthInv, CacheInv, Enforced
<1>5. SettledInv /\ ComingInv
  BY DEF SettledInv, Settled, ComingInv, Coming
<1>6. TracedInv
  BY DEF TracedInv, StreamTypeOK, Traced, StreamInit
<1>7. QED BY <1>2, <1>3, <1>4, <1>5, <1>6 DEF IInv

-----------------------------------------------------------------------------
(* Type correctness.                                                       *)

ClientStep(c) ==
  \/ Invoke(c) \/ BreakerDropsCall(c) \/ StreamRefused(c)
  \/ HearAnswer(c) \/ ClientDeadline(c) \/ CallerCancels(c)
  \/ Unreachable(c) \/ ConnectionLost(c)
  \/ StreamCaller(c) \/ StreamTracing(c)

WorkStep(c) == Auth(c) \/ HandlerReturns(c) \/ HandlerPanics(c) \/ SendPanic(c)

CacheStep == OtherTakeFetches \/ HgetReturns \/ TakeReturns \/ Store

LEMMA NextSplits ==
  Next <=> SetUp \/ CacheStep
           \/ \E c \in Call : ClientStep(c) \/ Arrive(c) \/ WorkStep(c)
                              \/ ContextDone(c) \/ Select(c)
  BY DEF Next, CacheStep, ClientStep, WorkStep

LEMMA SetUpChanges ==
  ASSUME SetUp
  PROVE  UNCHANGED <<conf, token, clientVars, serverVars, authVars>>
  BY DEF SetUp, RegisterEtcd, Listen, WrapUp, ServeReturns, Dial

\* A step of the client changes only what is the client's.
LEMMA ClientChanges ==
  ASSUME NEW c \in Call, ClientStep(c)
  PROVE  UNCHANGED <<conf, token, serverVars, authVars>>
  BY DEF ClientStep, Invoke, BreakerDropsCall, StreamRefused, HearAnswer, ClientDeadline,
         CallerCancels, Unreachable, ConnectionLost, StreamCaller, StreamTracing, Reply,
         setup

LEMMA ConfStays == ASSUME [Next]_vars PROVE conf' = conf
<1> USE DEF setup, clientVars, serverVars, judged, goroutine
<1>1. ASSUME NEW c \in Call, Arrive(c) \/ WorkStep(c) \/ ContextDone(c) \/ Select(c)
      PROVE  conf' = conf
  BY <1>1 DEF Arrive, ServerBreakerDrops, ShedderDrops, Admit, Arrives, WorkStep, Auth,
     MissingMetadata, TakeCached, TakeFetches, Judge, HandlerReturns, HandlerPanics,
     SendPanic, ContextDone, Select, SelectDone, SelectPanic, SelectContext, Conclude
<1>2. CASE CacheStep
  BY <1>2 DEF CacheStep, OtherTakeFetches, HgetReturns, TakeReturns, Judge, Store
<1>3. QED BY <1>1, <1>2, SetUpChanges, ClientChanges, NextSplits DEF vars

LEMMA ValidateType ==
  ASSUME NEW mode, NEW given, NEW expect
  PROVE  Validate(mode, given, expect) \in {"nil", "Internal", "Unauthenticated"}
  BY DEF Validate

LEMMA TypeStep ==
  ASSUME TypeOK, [Next]_vars
  PROVE  TypeOK'
<1> USE DEF TypeOK
<1>1. CASE SetUp
  BY <1>1, SetUpChanges DEF clientVars, serverVars, judged, goroutine, authVars
<1>2. ASSUME NEW c \in Call, ClientStep(c) PROVE TypeOK'
  <2>1. UNCHANGED <<conf, token, serverVars, authVars>>
    BY <1>2, ClientChanges
  <2>2. /\ client' \in [Call -> {"idle", "dropped", "wait", "ended"}]
        /\ heard' \in [Call -> {"yes", "no"}]
        /\ clientMark' \in [Call -> {"none", "success", "failure"}]
    BY <1>2, ToldType DEF ClientStep, Invoke, BreakerDropsCall, StreamRefused, HearAnswer,
       ClientDeadline, CallerCancels, Unreachable, ConnectionLost, StreamCaller,
       StreamTracing, Reply, clientVars
  <2>3. QED BY <2>1, <2>2 DEF serverVars, judged, goroutine, authVars
<1>3. ASSUME NEW c \in Call, Arrive(c) PROVE TypeOK'
  <2> USE DEF Arrives, setup, clientVars, authVars
  <2>1. CASE ServerBreakerDrops(c)
    BY <2>1 DEF ServerBreakerDrops, Outcome, PlainErrors
  <2>2. CASE ShedderDrops(c)
    BY <2>2, ToldType DEF ShedderDrops, Outcome, PlainErrors
  <2>3. CASE Admit(c)
    BY <2>3 DEF Admit
  <2>4. QED BY <1>3, <2>1, <2>2, <2>3 DEF Arrive
<1>4. ASSUME NEW c \in Call, WorkStep(c) PROVE TypeOK'
  <2> USE DEF setup, clientVars, judged, authVars
  <2>1. CASE MissingMetadata(c)
    BY <2>1 DEF MissingMetadata, Outcome
  <2>2. CASE TakeCached(c)
    BY <2>2, ValidateType DEF TakeCached, Judge, Outcome
  <2>3. CASE TakeFetches(c)
    BY <2>3 DEF TakeFetches, JoinFetch
  <2>4. CASE HandlerReturns(c)
    <3>1. PICK err \in HandlerError \cup {"context.Canceled", "context.DeadlineExceeded"} :
            result' = [result EXCEPT ![c] = err]
      BY <2>4 DEF HandlerReturns
    <3>2. result' \in [Call -> Outcome \cup {"none"}]
      BY <3>1 DEF Outcome, PlainErrors
    <3>3. QED BY <2>4, <3>2 DEF HandlerReturns
  <2>5. CASE HandlerPanics(c)
    BY <2>5 DEF HandlerPanics, Outcome
  <2>6. CASE SendPanic(c)
    BY <2>6 DEF SendPanic
  <2>7. QED BY <1>4, <2>1, <2>2, <2>3, <2>4, <2>5, <2>6 DEF WorkStep, Auth
<1>5. ASSUME NEW c \in Call, ContextDone(c) PROVE TypeOK'
  BY <1>5 DEF ContextDone, setup, clientVars, judged, goroutine, authVars
<1>6. ASSUME NEW c \in Call, Select(c) PROVE TypeOK'
  <2>1. PICK e \in Outcome \cup {"none"} : Conclude(c, e)
    BY <1>6 DEF Select, SelectDone, SelectPanic, SelectContext, Outcome
  <2>2. Recovered(e) \in Outcome \cup {"none"}
    BY RecoveredType DEF Recovered, StatRecovers, CrashRecovers
  <2>3. /\ work' = work
        /\ panicChan' \in [Call -> {"empty", "full"}]
    BY <1>6 DEF Select, SelectDone, SelectPanic, SelectContext
  <2>4. QED BY <2>1, <2>2, <2>3, ToldType DEF Conclude, setup, clientVars, authVars
<1>7. CASE CacheStep
  <2> USE DEF setup, clientVars, serverVars, judged, goroutine, authVars
  <2>1. CASE OtherTakeFetches
    BY <2>1 DEF OtherTakeFetches, JoinFetch
  <2>2. CASE HgetReturns
    BY <2>2 DEF HgetReturns, Hget
  <2>3. CASE TakeReturns
    <3>1. /\ work' \in [Call -> {"off", "auth", "take", "handler", "panicking", "returned", "gone"}]
          /\ result' \in [Call -> Outcome \cup {"none"}]
      BY <2>3, ValidateType DEF TakeReturns, Judge, Outcome
    <3>2. /\ cache' \in Token \cup {"unknown"}
          /\ fetch' \in Token \cup {"none", "asked", "error"}
          /\ fresh' \in {"yes", "no"} /\ UNCHANGED <<store, changes>>
      BY <2>3 DEF TakeReturns, EndFetch, Fetched
    <3>3. QED BY <2>3, <3>1, <3>2 DEF TakeReturns, Judge
  <2>4. CASE Store
    BY <2>4 DEF Store, CacheExpires, ChangeToken, All
  <2>5. QED BY <1>7, <2>1, <2>2, <2>3, <2>4 DEF CacheStep
<1>8. CASE UNCHANGED vars
  BY <1>8 DEF vars, setup, clientVars, serverVars, judged, goroutine, authVars
<1>9. QED BY <1>1, <1>2, <1>3, <1>4, <1>5, <1>6, <1>7, <1>8, NextSplits

-----------------------------------------------------------------------------
(* The breakers.                                                           *)

\* A step that changes neither what was answered nor what the client heard.
LEMMA JudgeSame ==
  ASSUME JudgeInv,
         UNCHANGED <<conf, stage, answer, mark, clientMark, heard, client>>,
         \A c \in Call : work'[c] = "returned" => result'[c] # "none"
  PROVE  JudgeInv'
<1>1. Unary' = Unary
  BY DEF Unary
<1>2. QED BY <1>1 DEF JudgeInv, Answered, Heard

LEMMA ClientJudge ==
  ASSUME TypeOK, JudgeInv, NEW c \in Call, ClientStep(c)
  PROVE  JudgeInv'
<1> USE DEF TypeOK
<1>1. UNCHANGED <<conf, stage, answer, mark, work, result>>
  BY ClientChanges DEF serverVars, judged, goroutine
<1>2. Unary' = Unary
  BY <1>1 DEF Unary
<1>3. \A d \in Call : Answered(d)'
  BY <1>1, <1>2 DEF JudgeInv, Answered
<1>4. ASSUME NEW d \in Call, heard'[d] = "yes" PROVE Heard(d)'
  <2>1. CASE HearAnswer(c) /\ d = c
    BY <2>1, <1>1, <1>2 DEF Heard, HearAnswer, Reply
  <2>2. CASE ~ (HearAnswer(c) /\ d = c)
    <3>1. heard[d] = "yes"
      BY <1>4, <2>2 DEF ClientStep, Invoke, BreakerDropsCall, StreamRefused, HearAnswer,
         ClientDeadline, CallerCancels, Unreachable, ConnectionLost, StreamCaller,
         StreamTracing, clientVars
    <3>2. client[d] = "ended"
      BY <3>1 DEF JudgeInv, Heard
    <3>3. client'[d] = client[d] /\ clientMark'[d] = clientMark[d]
      BY <3>2, <2>2 DEF ClientStep, Invoke, BreakerDropsCall, StreamRefused, HearAnswer,
         ClientDeadline, CallerCancels, Unreachable, ConnectionLost, StreamCaller,
         StreamTracing, Reply, clientVars
    <3>4. QED BY <3>1, <3>3, <1>1, <1>2 DEF JudgeInv, Heard
  <2>3. QED BY <2>1, <2>2
<1>5. \A d \in Call : Heard(d)'
  BY <1>4 DEF Heard
<1>6. QED BY <1>3, <1>5 DEF JudgeInv

\* A call is answered while nobody can have heard an answer.
LEMMA AnswerJudge ==
  ASSUME TypeOK, JudgeInv, NEW c \in Call, stage[c] # "ended",
         UNCHANGED <<conf, client, heard, clientMark>>,
         UNCHANGED result,
         \A d \in Call : work'[d] = "returned" => work[d] = "returned",
         \A d \in Call : d # c => /\ stage'[d] = stage[d] /\ answer'[d] = answer[d]
                                  /\ mark'[d] = mark[d],
         stage'[c] # "off",
         answer'[c] # "none" =>
           /\ stage'[c] = "ended"
           /\ Unary => Told(Code(answer'[c])) =
                         IF mark'[c] = "none" THEN "success" ELSE mark'[c]
  PROVE  JudgeInv'
<1>1. Unary' = Unary
  BY DEF Unary
<1>2. heard[c] # "yes"
  BY DEF JudgeInv, Answered, Heard
<1>3. ASSUME NEW d \in Call PROVE Answered(d)' /\ Heard(d)'
  <2>1. CASE d = c
    BY <2>1, <1>1, <1>2 DEF JudgeInv, Answered, Heard
  <2>2. CASE d # c
    BY <2>2, <1>1 DEF JudgeInv, Answered, Heard
  <2>3. QED BY <2>1, <2>2
<1>4. QED BY <1>3 DEF JudgeInv

LEMMA ArriveJudge ==
  ASSUME TypeOK, JudgeInv, NEW c \in Call, Arrive(c)
  PROVE  JudgeInv'
<1> USE DEF TypeOK, Arrives, setup, clientVars
<1>1. stage[c] = "off" /\ mark[c] = "none" /\ answer[c] = "none"
  BY DEF Arrive, ServerBreakerDrops, ShedderDrops, Admit, JudgeInv, Answered
<1>2. CASE ServerBreakerDrops(c)
  BY <1>1, <1>2, AnswerJudge, RefusalsAccepted DEF ServerBreakerDrops
<1>3. CASE ShedderDrops(c)
  BY <1>1, <1>3, AnswerJudge, RefusalsAccepted DEF ShedderDrops
<1>4. CASE Admit(c)
  BY <1>1, <1>4, AnswerJudge DEF Admit
<1>5. QED BY <1>2, <1>3, <1>4 DEF Arrive

LEMMA SelectJudge ==
  ASSUME TypeOK, JudgeInv, NEW c \in Call, Select(c)
  PROVE  JudgeInv'
<1> USE DEF TypeOK
<1>1. PICK e \in Outcome : Conclude(c, e)
  <2>1. CASE SelectDone(c)
    <3>1. result[c] \in Outcome
      BY <2>1 DEF SelectDone, JudgeInv, Answered
    <3>2. QED BY <2>1, <3>1 DEF SelectDone
  <2>2. CASE SelectPanic(c)
    BY <2>2 DEF SelectPanic, Outcome
  <2>3. CASE SelectContext(c)
    BY <2>3 DEF SelectContext, Outcome
  <2>4. QED BY <2>1, <2>2, <2>3 DEF Select
<1>2. work' = work
  BY DEF Select, SelectDone, SelectPanic, SelectContext
<1>3. Unary => Told(Code(Recovered(e))) = IF Told(e) = "none" THEN "success" ELSE Told(e)
  BY RecoveredJudgedAlike, ToldType
<1>4. QED BY <1>1, <1>2, <1>3, AnswerJudge DEF Conclude, setup, clientVars

LEMMA WorkJudge ==
  ASSUME TypeOK, JudgeInv, NEW c \in Call, WorkStep(c)
  PROVE  JudgeInv'
<1> USE DEF TypeOK, setup, clientVars, judged
<1>1. UNCHANGED <<conf, stage, answer, mark, clientMark, heard, client>>
  BY DEF WorkStep, Auth, MissingMetadata, TakeCached, TakeFetches, Judge, HandlerReturns,
     HandlerPanics, SendPanic
<1>2. ASSUME NEW d \in Call, work'[d] = "returned" PROVE result'[d] # "none"
  <2>1. CASE TakeCached(c)
    BY <2>1, <1>2, ValidateType DEF TakeCached, Judge, JudgeInv, Answered
  <2>2. CASE HandlerReturns(c)
    <3>1. PICK err \in HandlerError \cup {"context.Canceled", "context.DeadlineExceeded"} :
            result' = [result EXCEPT ![c] = err]
      BY <2>2 DEF HandlerReturns
    <3>2. err # "none"
      BY RpcCallAssumption
    <3>3. QED BY <2>2, <1>2, <3>1, <3>2 DEF HandlerReturns, JudgeInv, Answered
  <2>3. CASE MissingMetadata(c) \/ TakeFetches(c) \/ HandlerPanics(c) \/ SendPanic(c)
    BY <2>3, <1>2 DEF MissingMetadata, TakeFetches, HandlerPanics, SendPanic, JudgeInv,
       Answered
  <2>4. QED BY <2>1, <2>2, <2>3 DEF WorkStep, Auth
<1>3. QED BY <1>1, <1>2, JudgeSame

LEMMA JudgeStep ==
  ASSUME TypeOK, JudgeInv, [Next]_vars
  PROVE  JudgeInv'
<1> USE DEF setup, clientVars, serverVars, judged, goroutine
<1>1. CASE SetUp
  BY <1>1, SetUpChanges, JudgeSame DEF JudgeInv, Answered
<1>2. CASE CacheStep
  <2>1. CASE TakeReturns
    <3>1. \A c \in Call : work'[c] = "returned" => result'[c] # "none"
      BY <2>1, ValidateType DEF TypeOK, TakeReturns, Judge, JudgeInv, Answered
    <3>2. QED BY <2>1, <3>1, JudgeSame DEF TakeReturns, Judge
  <2>2. CASE OtherTakeFetches \/ HgetReturns \/ Store
    BY <2>2, JudgeSame DEF OtherTakeFetches, HgetReturns, Store, JudgeInv, Answered
  <2>3. QED BY <1>2, <2>1, <2>2 DEF CacheStep
<1>3. ASSUME NEW c \in Call, ContextDone(c) PROVE JudgeInv'
  BY <1>3, JudgeSame DEF ContextDone, JudgeInv, Answered
<1>4. CASE UNCHANGED vars
  BY <1>4, JudgeSame DEF vars, JudgeInv, Answered
<1>5. QED BY <1>1, <1>2, <1>3, <1>4, ClientJudge, ArriveJudge, SelectJudge, WorkJudge,
          NextSplits

-----------------------------------------------------------------------------
(* The authenticator.                                                      *)

\* A step that does not touch the authenticator, nor lets a handler run that did
\* not run before.
LEMMA AuthSame ==
  ASSUME AuthInv, UNCHANGED <<conf, token, store, cache, fetch, fresh, clean>>,
         \A d \in Call : work'[d] \in {"handler", "panicking"} =>
                           work[d] \in {"handler", "panicking"}
  PROVE  AuthInv'
  BY DEF AuthInv, CacheInv, Enforced

\* A verdict on a fresh token lets pass who carries the one in Redis.
LEMMA JudgeAuth ==
  ASSUME TypeOK, AuthInv, NEW waiting \in SUBSET Call,
         NEW expect \in Token \cup {"error"}, Judge(waiting, expect), UNCHANGED store,
         CacheInv', fresh = "yes" => fresh' = "yes",
         fresh = "yes" /\ expect # "error" => expect = store
  PROVE  AuthInv'
<1> USE DEF TypeOK, Judge, setup
<1>1. ASSUME NEW d \in Call PROVE Enforced(d)'
  <2>1. CASE d \in waiting
    BY <2>1 DEF AuthInv, Enforced, Validate
  <2>2. CASE d \notin waiting
    BY <2>2 DEF AuthInv, Enforced
  <2>3. QED BY <2>1, <2>2
<1>2. QED BY <1>1 DEF AuthInv

LEMMA AuthStep ==
  ASSUME TypeOK, AuthInv, [Next]_vars
  PROVE  AuthInv'
<1> USE DEF TypeOK, setup, clientVars, judged, goroutine, serverVars, authVars
<1>1. CASE SetUp
  BY <1>1, SetUpChanges, AuthSame
<1>2. ASSUME NEW c \in Call, ClientStep(c) PROVE AuthInv'
  BY <1>2, ClientChanges, AuthSame
<1>3. ASSUME NEW c \in Call, Arrive(c) PROVE AuthInv'
  <2>1. CASE ServerBreakerDrops(c) \/ ShedderDrops(c)
    BY <2>1, AuthSame DEF ServerBreakerDrops, ShedderDrops, Arrives
  <2>2. CASE Admit(c)
    BY <2>2 DEF Admit, Arrives, AuthInv, CacheInv, Enforced
  <2>3. QED BY <1>3, <2>1, <2>2 DEF Arrive
<1>4. ASSUME NEW c \in Call, WorkStep(c) PROVE AuthInv'
  <2>1. CASE TakeCached(c)
    <3>1. cache \in Token /\ Judge({c}, cache) /\ UNCHANGED authVars
      BY <2>1 DEF TakeCached, Cached
    <3>2. CacheInv' /\ (fresh = "yes" => cache = store)
      BY <3>1, RpcCallAssumption DEF AuthInv, CacheInv
    <3>3. QED BY <3>1, <3>2, JudgeAuth
  <2>2. CASE TakeFetches(c)
    BY <2>2 DEF TakeFetches, JoinFetch, Cached, AuthInv, CacheInv, Enforced
  <2>3. CASE MissingMetadata(c) \/ HandlerReturns(c) \/ HandlerPanics(c) \/ SendPanic(c)
    <3>1. /\ UNCHANGED <<conf, token, store, cache, fetch, fresh, clean>>
          /\ \A d \in Call : work'[d] \in {"handler", "panicking"} =>
                               work[d] \in {"handler", "panicking"}
      BY <2>3 DEF MissingMetadata, HandlerReturns, HandlerPanics, SendPanic
    <3>2. QED BY <3>1, AuthSame
  <2>4. QED BY <1>4, <2>1, <2>2, <2>3 DEF WorkStep, Auth
<1>5. ASSUME NEW c \in Call, ContextDone(c) \/ Select(c) PROVE AuthInv'
  BY <1>5, AuthSame DEF ContextDone, Select, SelectDone, SelectPanic, SelectContext, Conclude
<1>6. CASE CacheStep
  <2>1. CASE OtherTakeFetches
    BY <2>1 DEF OtherTakeFetches, JoinFetch, Cached, AuthInv, CacheInv, Enforced
  <2>2. CASE HgetReturns
    BY <2>2 DEF HgetReturns, Hget, AuthInv, CacheInv, Enforced
  <2>3. CASE TakeReturns
    <3>1. /\ fetch \in Token \cup {"error"}
          /\ Judge({c \in Call : work[c] = "take"}, fetch)
          /\ store' = store /\ fetch' = "none"
          /\ cache' = IF fetch = "error" THEN "unknown" ELSE fetch
          /\ fresh' = IF fetch = "error" THEN "yes" ELSE fresh
      BY <2>3 DEF TakeReturns, EndFetch, Fetched
    <3>2. fresh = "yes" /\ fetch # "error" => fetch = store
      BY <3>1, RpcCallAssumption DEF AuthInv, CacheInv
    <3>3. CacheInv' /\ (fresh = "yes" => fresh' = "yes")
      BY <3>1, <3>2 DEF CacheInv
    <3>4. QED BY <3>1, <3>2, <3>3, JudgeAuth
  <2>4. CASE Store
    <3>1. CASE CacheExpires
      BY <2>4, <3>1 DEF Store, CacheExpires, Cached, AuthInv, CacheInv, Enforced
    <3>2. CASE ChangeToken
      <4>1. CacheInv'
        BY <3>2 DEF ChangeToken, Cached, Fetched, AuthInv, CacheInv
      <4>2. changes' # changes
        BY <3>2 DEF ChangeToken
      <4>3. \A c \in Call : clean'[c] = "no"
        BY <2>4, <4>2 DEF Store, All
      <4>4. QED BY <4>1, <4>3 DEF AuthInv, Enforced
    <3>3. QED BY <2>4, <3>1, <3>2 DEF Store
  <2>5. QED BY <1>6, <2>1, <2>2, <2>3, <2>4 DEF CacheStep
<1>7. CASE UNCHANGED vars
  BY <1>7, AuthSame DEF vars
<1>8. QED BY <1>1, <1>2, <1>3, <1>4, <1>5, <1>6, <1>7, NextSplits

-----------------------------------------------------------------------------
(* Promises and results.                                                   *)

LEMMA SettledStep ==
  ASSUME TypeOK, SettledInv, [Next]_vars
  PROVE  SettledInv'
<1> USE DEF TypeOK, setup, clientVars, serverVars, judged, SettledInv, Settled
<1>1. Unary' = Unary
  BY ConfStays DEF Unary
<1>2. ASSUME NEW c \in Call, ClientStep(c) PROVE SettledInv'
  <2>1. UNCHANGED <<stage, mark, shedder>>
    BY <1>2, ClientChanges
  <2>2. ASSUME NEW d \in Call
        PROVE  clientMark'[d] # "none" <=> Unary /\ client'[d] = "ended"
    BY <1>2, ToldType DEF ClientStep, Invoke, BreakerDropsCall, StreamRefused, HearAnswer,
       ClientDeadline, CallerCancels, Unreachable, ConnectionLost, StreamCaller,
       StreamTracing, Reply
  <2>3. QED BY <2>1, <2>2, <1>1
<1>3. ASSUME NEW c \in Call, Arrive(c) PROVE SettledInv'
  BY <1>1, <1>3, ToldType DEF Arrive, ServerBreakerDrops, ShedderDrops, Admit, Arrives
<1>4. ASSUME NEW c \in Call, Select(c) PROVE SettledInv'
  <2>1. PICK e : Conclude(c, e)
    BY <1>4 DEF Select, SelectDone, SelectPanic, SelectContext
  <2>2. QED BY <1>1, <2>1, ToldType DEF Conclude
<1>5. ASSUME NEW c \in Call, WorkStep(c) \/ ContextDone(c) PROVE SettledInv'
  BY <1>1, <1>5 DEF WorkStep, Auth, MissingMetadata, TakeCached, TakeFetches, Judge,
     HandlerReturns, HandlerPanics, SendPanic, ContextDone
<1>6. CASE SetUp
  BY <1>1, <1>6, SetUpChanges
<1>7. CASE CacheStep
  BY <1>1, <1>7 DEF CacheStep, OtherTakeFetches, HgetReturns, TakeReturns, Judge, Store
<1>8. CASE UNCHANGED vars
  BY <1>1, <1>8 DEF vars
<1>9. QED BY <1>2, <1>3, <1>4, <1>5, <1>6, <1>7, <1>8, NextSplits

LEMMA ComingStep ==
  ASSUME TypeOK, ComingInv, [Next]_vars
  PROVE  ComingInv'
<1> USE DEF TypeOK, setup, clientVars, serverVars, judged, goroutine, ComingInv, Coming
<1>1. OwnGoroutine' = OwnGoroutine
  BY ConfStays DEF Unary, OwnGoroutine
<1>2. ASSUME NEW c \in Call, ClientStep(c) PROVE ComingInv'
  BY <1>1, <1>2, ClientChanges
<1>3. ASSUME NEW c \in Call, Arrive(c) PROVE ComingInv'
  BY <1>1, <1>3 DEF Arrive, ServerBreakerDrops, ShedderDrops, Admit, Arrives
<1>4. ASSUME NEW c \in Call, Select(c) PROVE ComingInv'
  BY <1>1, <1>4 DEF Select, SelectDone, SelectPanic, SelectContext, Conclude
<1>5. ASSUME NEW c \in Call, WorkStep(c) PROVE ComingInv'
  <2>1. CASE TakeCached(c)
    BY <1>1, <2>1 DEF TakeCached, Judge
  <2>2. CASE HandlerPanics(c)
    BY <1>1, <2>2 DEF HandlerPanics
  <2>3. CASE MissingMetadata(c) \/ TakeFetches(c) \/ HandlerReturns(c) \/ SendPanic(c)
    BY <1>1, <2>3 DEF MissingMetadata, TakeFetches, HandlerReturns, SendPanic
  <2>4. QED BY <1>5, <2>1, <2>2, <2>3 DEF WorkStep, Auth
<1>6. ASSUME NEW c \in Call, ContextDone(c) PROVE ComingInv'
  BY <1>1, <1>6 DEF ContextDone
<1>7. CASE SetUp
  BY <1>1, <1>7, SetUpChanges
<1>8. CASE CacheStep
  BY <1>1, <1>8 DEF CacheStep, OtherTakeFetches, HgetReturns, TakeReturns, Judge, Store
<1>9. CASE UNCHANGED vars
  BY <1>1, <1>9 DEF vars
<1>10. QED BY <1>2, <1>3, <1>4, <1>5, <1>6, <1>7, <1>8, <1>9, NextSplits

-----------------------------------------------------------------------------
(* The client's side of a stream.                                          *)

LEMMA CodeType ==
  ASSUME NEW e \in Outcome \cup {"Unavailable"}
  PROVE  Code(e) \in Event
  BY DEF Code, Event

\* Only the client's steps touch a stream.
LEMMA StreamChanges ==
  ASSUME [Next]_vars
  PROVE  \/ \E c \in Call : ClientStep(c)
         \/ UNCHANGED <<conf, client, reply, heard, clientMark, streamVars>>
<1> USE DEF setup, clientVars
<1>1. CASE SetUp
  BY <1>1 DEF SetUp, RegisterEtcd, Listen, WrapUp, ServeReturns, Dial
<1>2. CASE CacheStep
  BY <1>2 DEF CacheStep, OtherTakeFetches, HgetReturns, TakeReturns, Judge, Store
<1>3. ASSUME NEW c \in Call, Arrive(c) \/ WorkStep(c) \/ ContextDone(c) \/ Select(c)
      PROVE  UNCHANGED <<conf, clientVars, streamVars>>
  BY <1>3 DEF Arrive, ServerBreakerDrops, ShedderDrops, Admit, Arrives, WorkStep, Auth,
     MissingMetadata, TakeCached, TakeFetches, Judge, HandlerReturns, HandlerPanics,
     SendPanic, ContextDone, Select, SelectDone, SelectPanic, SelectContext, Conclude
<1>4. QED BY <1>1, <1>2, <1>3, NextSplits DEF vars

\* A client of a call that ends gets a code, and hands it to its stream.
LEMMA ReplyCode ==
  ASSUME TypeOK, NEW c \in Call,
         \/ HearAnswer(c) \/ ClientDeadline(c) \/ CallerCancels(c)
         \/ Unreachable(c) \/ ConnectionLost(c)
  PROVE  \E err \in Event : /\ client[c] = "wait"
                            /\ client' = [client EXCEPT ![c] = "ended"]
                            /\ reply' = [reply EXCEPT ![c] = err]
                            /\ Unary => UNCHANGED streamVars
                            /\ ~ Unary => RecvEnd(c, err)
                            /\ UNCHANGED conf
<1>1. PICK e \in Outcome \cup {"Unavailable"} : Reply(c, e)
  BY DEF HearAnswer, ClientDeadline, CallerCancels, Unreachable, ConnectionLost, TypeOK,
     Outcome
<1>2. Code(e) \in Event
  BY CodeType
<1>3. QED BY <1>1, <1>2 DEF Reply, setup

LEMMA TracedStep ==
  ASSUME TypeOK, TracedInv, [Next]_vars
  PROVE  TracedInv'
<1> USE DEF TypeOK, TracedInv, StreamTypeOK, Traced, streamVars, setup, clientVars
<1>1. Unary' = Unary
  BY ConfStays DEF Unary
<1>2. ASSUME NEW c \in Call, Invoke(c) PROVE TracedInv'
  <2>1. CASE Unary
    BY <1>1, <1>2, <2>1 DEF Invoke
  <2>2. CASE ~ Unary
    <3>1. /\ client' = [client EXCEPT ![c] = "wait"] /\ client[c] = "idle"
          /\ WrapClientStream(c) /\ reply' = reply
      BY <1>2, <2>2 DEF Invoke
    <3>2. StreamTypeOK'
      BY <3>1 DEF WrapClientStream
    <3>3. ASSUME NEW d \in Call PROVE Traced(d)'
      BY <1>1, <2>2, <3>1 DEF WrapClientStream
    <3>4. QED BY <3>2, <3>3
  <2>3. QED BY <2>1, <2>2
<1>3. ASSUME NEW c \in Call, BreakerDropsCall(c) PROVE TracedInv'
  BY <1>1, <1>3 DEF BreakerDropsCall, Event
<1>4. ASSUME NEW c \in Call, StreamRefused(c) PROVE TracedInv'
  BY <1>1, <1>4 DEF StreamRefused, StreamerFails, Event
<1>5. ASSUME NEW c \in Call,
             \/ HearAnswer(c) \/ ClientDeadline(c) \/ CallerCancels(c)
             \/ Unreachable(c) \/ ConnectionLost(c)
      PROVE  TracedInv'
  <2>1. PICK err \in Event : /\ client[c] = "wait"
                             /\ client' = [client EXCEPT ![c] = "ended"]
                             /\ reply' = [reply EXCEPT ![c] = err]
                             /\ Unary => UNCHANGED streamVars
                             /\ ~ Unary => RecvEnd(c, err)
    BY <1>5, ReplyCode
  <2>2. CASE Unary
    BY <1>1, <2>1, <2>2
  <2>3. CASE ~ Unary
    <3>1. StreamTypeOK'
      BY <2>1, <2>3 DEF RecvEnd
    <3>2. ASSUME NEW d \in Call PROVE Traced(d)'
      BY <1>1, <2>1, <2>3 DEF RecvEnd
    <3>3. QED BY <3>1, <3>2
  <2>4. QED BY <2>2, <2>3
<1>6. ASSUME NEW c \in Call, StreamCaller(c) PROVE TracedInv'
  <2>1. CASE CancelStream(c)
    BY <1>1, <1>6, <2>1 DEF StreamCaller, CancelStream
  <2>2. ASSUME NEW err \in {"EOF", "Internal", "Unavailable"}, loop[c] # "off",
               SendEnd(c, err)
        PROVE  TracedInv'
    BY <1>1, <1>6, <2>2 DEF StreamCaller, SendEnd
  <2>3. QED BY <1>6, <2>1, <2>2 DEF StreamCaller
<1>7. ASSUME NEW c \in Call, StreamTracing(c) PROVE TracedInv'
  <2>1. CASE TakeEvent(c)
    <3>1. sender[c] \in Event \cup {"none"}
      BY DEF Event, Outcome
    <3>2. StreamTypeOK'
      BY <1>7, <2>1, <3>1 DEF StreamTracing, TakeEvent
    <3>3. ASSUME NEW d \in Call PROVE Traced(d)'
      BY <1>1, <1>7, <2>1 DEF StreamTracing, TakeEvent
    <3>4. QED BY <3>2, <3>3
  <2>2. CASE TakeDone(c)
    BY <1>1, <1>7, <2>2 DEF StreamTracing, TakeDone, Event, Outcome
  <2>3. CASE Finish(c)
    BY <1>1, <1>7, <2>3 DEF StreamTracing, Finish
  <2>4. CASE EventsDone(c)
    BY <1>1, <1>7, <2>4 DEF StreamTracing, EventsDone
  <2>5. QED BY <1>7, <2>1, <2>2, <2>3, <2>4 DEF StreamTracing, StreamStep
<1>8. CASE UNCHANGED <<conf, client, reply, heard, clientMark, streamVars>>
  BY <1>1, <1>8
<1>9. QED
  BY <1>2, <1>3, <1>4, <1>5, <1>6, <1>7, <1>8, StreamChanges DEF ClientStep

-----------------------------------------------------------------------------

LEMMA InvStep == IInv /\ [Next]_vars => IInv'
  BY TypeStep, JudgeStep, AuthStep, SettledStep, ComingStep, TracedStep DEF IInv

LEMMA Invariant == Spec => []IInv
  BY InitIInv, InvStep, PTL DEF Spec

\* Every reachable state of client, server and authenticator has its type.
THEOREM TypeCorrect == Spec => [](TypeOK /\ StreamTypeOK)
<1>1. IInv => TypeOK /\ StreamTypeOK
  BY DEF IInv, TracedInv
<1>2. QED BY <1>1, Invariant, PTL

\* For any number of calls, any settings and anything a handler may return, the
\* breakers at both ends judge an answer that travels alike.
THEOREM BreakersAgree == Spec => []JudgedAlike
<1>1. IInv => JudgedAlike
  BY DEF IInv, JudgeInv, Answered, Heard, JudgedAlike
<1>2. QED BY <1>1, Invariant, PTL

\* For any number of calls, tokens and changes of the token in Redis, a strict
\* server runs no handler on a token that was withdrawn before the cache had the
\* present one.
THEOREM TokensEnforced == Spec => []TokenEnforced
<1>1. IInv => TokenEnforced
  BY DEF IInv, AuthInv, Enforced, TokenEnforced
<1>2. QED BY <1>1, Invariant, PTL

\* For any number of calls and settings: the server's breaker and shedder have
\* a promise outstanding for exactly the calls the server has not answered, the
\* client's breaker has been told of exactly the unary calls that have ended,
\* and what any of them was told, as what the caller got, is final.
THEOREM PromisesSettledOnce ==
  Spec => /\ []SettledInv
          /\ [][\A c \in Call :
                  /\ stage[c] = "ended" =>
                       UNCHANGED <<stage[c], answer[c], mark[c], shedder[c]>>
                  /\ client[c] = "ended" =>
                       UNCHANGED <<client[c], reply[c], heard[c], clientMark[c]>>]_vars
<1> DEFINE Final(c) ==
      /\ stage[c] = "ended" => UNCHANGED <<stage[c], answer[c], mark[c], shedder[c]>>
      /\ client[c] = "ended" => UNCHANGED <<client[c], reply[c], heard[c], clientMark[c]>>
<1>1. IInv => SettledInv
  BY DEF IInv
<1>2. ASSUME IInv, [Next]_vars, NEW d \in Call PROVE Final(d)
  <2> USE DEF setup, clientVars, serverVars, judged
  <2>1. CASE SetUp
    BY <2>1, SetUpChanges
  <2>2. ASSUME NEW c \in Call, ClientStep(c) PROVE Final(d)
    <3>1. UNCHANGED <<stage, answer, mark, shedder>>
      BY <2>2, ClientChanges
    <3>2. client[d] = "ended" =>
            UNCHANGED <<client[d], reply[d], heard[d], clientMark[d]>>
      <4>1. CASE client[c] \in {"idle", "wait"} /\ client[d] = "ended"
        <5>1. /\ c # d
              /\ DOMAIN client = Call /\ DOMAIN reply = Call
              /\ DOMAIN heard = Call /\ DOMAIN clientMark = Call
          BY <1>2, <4>1 DEF IInv, TypeOK, TracedInv, StreamTypeOK
        <5>2. QED
          BY <2>2, <5>1 DEF ClientStep, Invoke, BreakerDropsCall, StreamRefused,
             HearAnswer, ClientDeadline, CallerCancels, Unreachable, ConnectionLost,
             StreamCaller, StreamTracing, Reply
      <4>2. CASE client[c] \notin {"idle", "wait"}
        BY <2>2, <4>2 DEF ClientStep, Invoke, BreakerDropsCall, StreamRefused,
           HearAnswer, ClientDeadline, CallerCancels, Unreachable, ConnectionLost,
           StreamCaller, StreamTracing, Reply
      <4>3. QED BY <4>1, <4>2
    <3>3. QED BY <3>1, <3>2
  <2>3. ASSUME NEW c \in Call, Arrive(c) PROVE Final(d)
    BY <1>2, <2>3 DEF Arrive, ServerBreakerDrops, ShedderDrops, Admit, Arrives, IInv,
       TypeOK
  <2>4. ASSUME NEW c \in Call, Select(c) PROVE Final(d)
    <3>1. PICK e : Conclude(c, e)
      BY <2>4 DEF Select, SelectDone, SelectPanic, SelectContext
    <3>2. QED BY <1>2, <3>1 DEF Conclude, IInv, TypeOK
  <2>5. ASSUME NEW c \in Call, WorkStep(c) \/ ContextDone(c) PROVE Final(d)
    BY <2>5 DEF WorkStep, Auth, MissingMetadata, TakeCached, TakeFetches, Judge,
       HandlerReturns, HandlerPanics, SendPanic, ContextDone
  <2>6. CASE CacheStep
    BY <2>6 DEF CacheStep, OtherTakeFetches, HgetReturns, TakeReturns, Judge, Store
  <2>7. CASE UNCHANGED vars
    BY <2>7 DEF vars
  <2>8. QED BY <1>2, <2>1, <2>2, <2>3, <2>4, <2>5, <2>6, <2>7, NextSplits
<1>3. IInv /\ [Next]_vars => [\A c \in Call : Final(c)]_vars
  BY <1>2
<1>4. QED BY <1>1, <1>3, Invariant, PTL DEF Spec

\* No answer is lost between the goroutine and the select of TimeoutInterceptor:
\* while the server selects, auth or handler run, or have returned, or a panic is
\* under way or in the channel. A goroutine that panics finds the channel empty,
\* also when its call has been answered meanwhile, so its send never blocks; and
\* nothing outlives its answer without a goroutine of its own.
THEOREM NoAnswerLost ==
  Spec => []\A c \in Call :
            /\ stage[c] = "select" =>
                 \/ work[c] \in {"auth", "take", "handler", "panicking", "returned"}
                 \/ panicChan[c] = "full"
            /\ work[c] = "panicking" => panicChan[c] = "empty"
            /\ stage[c] = "ended" /\ work[c] \notin {"off", "returned"} => OwnGoroutine
<1> DEFINE Kept(c) ==
      /\ stage[c] = "select" =>
           \/ work[c] \in {"auth", "take", "handler", "panicking", "returned"}
           \/ panicChan[c] = "full"
      /\ work[c] = "panicking" => panicChan[c] = "empty"
      /\ stage[c] = "ended" /\ work[c] \notin {"off", "returned"} => OwnGoroutine
<1>1. IInv => \A c \in Call : Kept(c)
  BY DEF IInv, TypeOK, ComingInv, Coming
<1>2. QED BY <1>1, Invariant, PTL

\* An operation that handed over an event returns: the loop took it, or is over.
LetGo(c, event, afterwards) ==
  afterwards = "none" /\ (loop[c] = "done" \/ verdict'[c] = event)

\* The span of a stream is opened with the stream and ended once, with the event
\* or the context's error that its loop took first; a later error does not change
\* it. An operation that waits to be heard has a loop to wait for, its event is
\* not overwritten, and it is let go only when the loop takes it or is over.
THEOREM SpanEndsOnce ==
  Spec => /\ []\A c \in Call :
               /\ loop[c] \in {"run", "finish"} => span[c] = "open"
               /\ loop[c] = "done" => span[c] = verdict[c] /\ verdict[c] # "none"
               /\ sender[c] # "none" \/ receiver[c] # "none" => loop[c] # "off"
          /\ [][\A c \in Call :
                  /\ span[c] # "none" /\ loop[c] \notin {"run", "finish"} =>
                       UNCHANGED <<loop[c], verdict[c], span[c]>>
                  /\ loop[c] = "finish" => verdict'[c] = verdict[c]
                  /\ sender[c] # "none" =>
                       sender'[c] = sender[c] \/ LetGo(c, sender[c], sender'[c])
                  /\ receiver[c] # "none" =>
                       receiver'[c] = receiver[c] \/ LetGo(c, receiver[c], receiver'[c])]_vars
<1> DEFINE Open(c) ==
      /\ loop[c] \in {"run", "finish"} => span[c] = "open"
      /\ loop[c] = "done" => span[c] = verdict[c] /\ verdict[c] # "none"
      /\ sender[c] # "none" \/ receiver[c] # "none" => loop[c] # "off"
    Ends(c) ==
      /\ span[c] # "none" /\ loop[c] \notin {"run", "finish"} =>
           UNCHANGED <<loop[c], verdict[c], span[c]>>
      /\ loop[c] = "finish" => verdict'[c] = verdict[c]
      /\ sender[c] # "none" =>
           sender'[c] = sender[c] \/ LetGo(c, sender[c], sender'[c])
      /\ receiver[c] # "none" =>
           receiver'[c] = receiver[c] \/ LetGo(c, receiver[c], receiver'[c])
<1>1. IInv => \A c \in Call : Open(c)
  BY DEF IInv, TracedInv, Traced
<1>2. ASSUME IInv, [Next]_vars, NEW d \in Call PROVE Ends(d)
  <2> USE DEF IInv, TypeOK, TracedInv, StreamTypeOK, Traced, streamVars, LetGo
  <2>1. ASSUME NEW c \in Call, Invoke(c) PROVE Ends(d)
    BY <1>2, <2>1 DEF Invoke, WrapClientStream
  <2>2. ASSUME NEW c \in Call, BreakerDropsCall(c) PROVE Ends(d)
    BY <2>2 DEF BreakerDropsCall
  <2>3. ASSUME NEW c \in Call, StreamRefused(c) PROVE Ends(d)
    BY <1>2, <2>3 DEF StreamRefused, StreamerFails
  <2>4. ASSUME NEW c \in Call,
               \/ HearAnswer(c) \/ ClientDeadline(c) \/ CallerCancels(c)
               \/ Unreachable(c) \/ ConnectionLost(c)
        PROVE  Ends(d)
    BY <1>2, <2>4, ReplyCode DEF RecvEnd
  <2>5. ASSUME NEW c \in Call, StreamCaller(c) PROVE Ends(d)
    BY <1>2, <2>5 DEF StreamCaller, CancelStream, SendEnd
  <2>6. ASSUME NEW c \in Call, StreamTracing(c) PROVE Ends(d)
    BY <1>2, <2>6 DEF StreamTracing, StreamStep, TakeEvent, TakeDone, Finish, EventsDone
  <2>7. CASE UNCHANGED <<conf, client, reply, heard, clientMark, streamVars>>
    BY <2>7
  <2>8. QED
    BY <1>2, <2>1, <2>2, <2>3, <2>4, <2>5, <2>6, <2>7, StreamChanges DEF ClientStep
<1>3. IInv /\ [Next]_vars => [\A c \in Call : Ends(c)]_vars
  BY <1>2
<1>4. QED BY <1>1, <1>3, Invariant, PTL DEF Spec
=============================================================================
