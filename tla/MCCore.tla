------------------------------- MODULE MCCore -------------------------------
(*****************************************************************************)
(* Small instances of the components about which theorems are proved: the    *)
(* circuit breaker, graceful shutdown, the usage logger and the stream       *)
(* relay.                                                                    *)
(*                                                                           *)
(* They are checked in one state graph: CoreInit picks a component, every    *)
(* behaviour is one of that component alone, and the others stay in their    *)
(* initial states.                                                           *)
(*****************************************************************************)
EXTENDS CircuitBreaker, Shutdown, UsageLogger, StreamRelay

VARIABLE part  \* the component this behaviour is of

\* The first two events share a rollup row.
RollupRow == [e \in 1..3 |-> IF e <= 2 THEN "a" ELSE "b"]

coreVars == <<part, vars, shutdownVars, usageVars, streamVars>>

CoreInit ==
    /\ part \in {"breaker", "shutdown", "usage", "stream"}
    /\ Init /\ ShutdownInit /\ UsageInit /\ StreamInit
    /\ part # "usage" => dropOnFull
    /\ part # "stream" => ~restore /\ ~adapter /\ ~hasBreaker

CoreNext ==
    \/ part = "breaker" /\ Next /\ UNCHANGED <<part, shutdownVars, usageVars, streamVars>>
    \/ part = "shutdown" /\ ShutdownNext /\ UNCHANGED <<part, vars, usageVars, streamVars>>
    \/ part = "usage" /\ UsageNext /\ UNCHANGED <<part, vars, shutdownVars, streamVars>>
    \/ part = "stream" /\ StreamNext /\ UNCHANGED <<part, vars, shutdownVars, usageVars>>

\* The fairness of each component, as its module explains it. All but the relay
\* have nothing to do in their initial states.
CoreFairness ==
    /\ Fairness /\ ShutdownFairness /\ UsageFairness
    /\ part = "stream" => StreamFairness

CoreSpec == CoreInit /\ [][CoreNext]_coreVars /\ CoreFairness

-----------------------------------------------------------------------------
\* What is under way comes to its end: a breaker permits requests again and
\* again, a signalled process exits, Log and Stop of the usage logger return,
\* also when the channel is full and callers wait to send, and a stream is
\* relayed to its end.
CoreProgresses ==
    /\ NeverStuck
    /\ ShutdownCompletes
    /\ LogReturns /\ StopReturns
    /\ part = "stream" ~> pc = "done"
=============================================================================
