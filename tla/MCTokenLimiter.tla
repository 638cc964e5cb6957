--------------------------- MODULE MCTokenLimiter ---------------------------
(* Small instances of TokenLimiter for TLC.                                *)
EXTENDS TokenLimiter, TLC

\* All goroutines in one process: they share redisAlive, monitorStarted and
\* rescueLock.
CONSTANT theProcess
OneProcess == [c \in Caller |-> theProcess]

\* A process for each goroutine: they share the bucket in Redis only.
OwnProcess == [c \in Caller |-> c]
ProcessSymmetry == Permutations(Caller)
=============================================================================
