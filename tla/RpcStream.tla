------------------------------ MODULE RpcStream ------------------------------
(***************************************************************************)
(* The client's side of a stream, StreamTracingInterceptor in              *)
(* balancer/zrpc/internal/clientinterceptors/tracinginterceptor.go. The    *)
(* caller sends and receives in two goroutines; what ends the stream goes  *)
(* as an event to the loop of wrapClientStream, from there as an error to  *)
(* a goroutine that ends the span. All channels are unbuffered.            *)
(***************************************************************************)
CONSTANTS Call

VARIABLES
  loop,      \* "off", "run", "finish" (an event was taken), "done"
  verdict,   \* the error of that event
  span,      \* "none", "open", or the error the span was ended with
  sender,    \* the event a SendMsg, CloseSend or Header hands over, or "none"
  receiver,  \* the event a RecvMsg hands over, or "none"
  caller     \* the caller's context: "live" or "Canceled"

streamVars == <<loop, verdict, span, sender, receiver, caller>>

StreamInit ==
  /\ loop = [c \in Call |-> "off"] /\ verdict = [c \in Call |-> "none"]
  /\ span = [c \in Call |-> "none"]
  /\ sender = [c \in Call |-> "none"] /\ receiver = [c \in Call |-> "none"]
  /\ caller = [c \in Call |-> "live"]

\* The stream is opened and wrapped, with a span;
WrapClientStream(c) ==
  /\ span' = [span EXCEPT ![c] = "open"]
  /\ loop' = [loop EXCEPT ![c] = "run"]
  /\ UNCHANGED <<verdict, sender, receiver, caller>>

\* or it cannot be opened.
StreamerFails(c, err) ==
  /\ span' = [span EXCEPT ![c] = err]
  /\ UNCHANGED <<loop, verdict, sender, receiver, caller>>

\* RecvMsg meets the end of the stream ("nil" when it is io.EOF).
RecvEnd(c, err) ==
  /\ receiver' = [receiver EXCEPT ![c] = err]
  /\ UNCHANGED <<loop, verdict, span, sender, caller>>

\* SendMsg, CloseSend or Header fails: with io.EOF on a stream that is over,
\* whatever it ended with, or with an error of its own.
SendEnd(c, err) ==
  /\ sender' = [sender EXCEPT ![c] = err]
  /\ UNCHANGED <<loop, verdict, span, receiver, caller>>

\* The loop takes an event of either,
TakeEvent(c) ==
  /\ loop[c] = "run"
  /\ loop' = [loop EXCEPT ![c] = "finish"]
  /\ \/ /\ sender[c] # "none"
        /\ verdict' = [verdict EXCEPT ![c] = sender[c]]
        /\ sender' = [sender EXCEPT ![c] = "none"]
        /\ UNCHANGED receiver
     \/ /\ receiver[c] # "none"
        /\ verdict' = [verdict EXCEPT ![c] = receiver[c]]
        /\ receiver' = [receiver EXCEPT ![c] = "none"]
        /\ UNCHANGED sender
  /\ UNCHANGED <<span, caller>>

\* or sees that the context is done.
TakeDone(c) ==
  /\ loop[c] = "run" /\ caller[c] # "live"
  /\ loop' = [loop EXCEPT ![c] = "finish"]
  /\ verdict' = [verdict EXCEPT ![c] = caller[c]]
  /\ UNCHANGED <<span, sender, receiver, caller>>

\* The other goroutine receives from Finished and ends the span; eventsDone is
\* closed.
Finish(c) ==
  /\ loop[c] = "finish"
  /\ loop' = [loop EXCEPT ![c] = "done"]
  /\ span' = [span EXCEPT ![c] = verdict[c]]
  /\ UNCHANGED <<verdict, sender, receiver, caller>>

\* sendStreamEvent returns without being heard, since eventsDone is closed.
EventsDone(c) ==
  /\ loop[c] = "done" /\ <<sender[c], receiver[c]>> # <<"none", "none">>
  /\ sender' = [sender EXCEPT ![c] = "none"]
  /\ receiver' = [receiver EXCEPT ![c] = "none"]
  /\ UNCHANGED <<loop, verdict, span, caller>>

CancelStream(c) ==
  /\ loop[c] = "run" /\ caller[c] = "live"
  /\ caller' = [caller EXCEPT ![c] = "Canceled"]
  /\ UNCHANGED <<loop, verdict, span, sender, receiver>>

StreamStep(c) == TakeEvent(c) \/ TakeDone(c) \/ Finish(c) \/ EventsDone(c)
=============================================================================
