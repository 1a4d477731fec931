-------------------------- MODULE BreakerContract --------------------------
(***************************************************************************)
(* The contract that Allow's documentation imposes on the users of one     *)
(* breaker: a caller that Allow admitted reports exactly one verdict       *)
(* (RecordSuccess, RecordFailure or RecordNeutral), at any later time.     *)
(* Nothing ties the verdict to the state the breaker was in when the       *)
(* caller was admitted: a request admitted while closed may report while   *)
(* the circuit is open or half open.  The proxy handler is shown to keep   *)
(* this contract for each of its deployments (module Failover).            *)
(***************************************************************************)
EXTENDS Breaker

CONSTANT Callers   \* request goroutines that share the breaker

VARIABLES breaker,    \* the Breaker record
          reserved    \* admitted callers whose verdict is outstanding

contractVars == <<breaker, reserved>>

ContractInit ==
    /\ breaker = NewBreaker
    /\ reserved = {}

\* Allow returned true.
Reserve(c) ==
    /\ c \notin reserved
    /\ Admits(breaker)
    /\ breaker' = Allow(breaker)
    /\ reserved' = reserved \cup {c}

Resolve(c, b) ==
    /\ c \in reserved
    /\ breaker' = b
    /\ reserved' = reserved \ {c}

ReportSuccess(c) == Resolve(c, RecordSuccess(breaker))

ReportFailure(c) == Resolve(c, RecordFailure(breaker))

ReportNeutral(c) == Resolve(c, RecordNeutral(breaker))

\* The recovery timeout of an open circuit passes.
Elapse ==
    /\ breaker.state = "open"
    /\ ~breaker.elapsed
    /\ breaker' = TimeoutElapses(breaker)
    /\ UNCHANGED reserved

ContractNext ==
    \/ Elapse
    \/ \E c \in Callers : \/ Reserve(c)
                          \/ ReportSuccess(c)
                          \/ ReportFailure(c)
                          \/ ReportNeutral(c)

ContractSpec == ContractInit /\ [][ContractNext]_contractVars
=============================================================================
