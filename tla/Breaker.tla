------------------------------ MODULE Breaker ------------------------------
(***************************************************************************)
(* The state of one circuit breaker (internal/circuitbreaker/breaker.go)   *)
(* as a record, and each method of Breaker as an operator from that record *)
(* to its next value.  Every method runs under b.mu, so each is atomic.    *)
(*                                                                         *)
(* lastFailure and timeout appear only in time.Since(lastFailure) against  *)
(* timeout; the field elapsed is the truth of lastFailure + timeout having *)
(* passed.  It becomes FALSE when a trip stamps lastFailure and TRUE when  *)
(* enough time has gone by (TimeoutElapses).                               *)
(***************************************************************************)
EXTENDS Integers

CONSTANTS Threshold,    \* consecutive failures that open a closed circuit
          HalfOpenMax   \* concurrent probes admitted while half open

\* config.setDefaults replaces a zero threshold or half_open_max, so both are
\* positive in a running server.
ASSUME BreakerAssumption ==
    /\ Threshold \in Nat \ {0}
    /\ HalfOpenMax \in Nat \ {0}

States == {"closed", "open", "half_open"}

Breakers == [state : States, failures : Nat, elapsed : BOOLEAN,
             halfOpenActive : Nat]

NewBreaker == [state |-> "closed", failures |-> 0, elapsed |-> FALSE,
               halfOpenActive |-> 0]

\* Mutant: the half-open limit is compared with > instead of >=.
AdmitsOneTooMany(b) ==
    \/ b.state = "closed"
    \/ b.state = "open" /\ b.elapsed
    \/ b.state = "half_open" /\ ~(b.halfOpenActive > HalfOpenMax)

\* The condition under which Allow returns true.
Admits(b) ==
    \/ b.state = "closed"
    \/ b.state = "open" /\ b.elapsed
    \/ b.state = "half_open" /\ ~(b.halfOpenActive >= HalfOpenMax)

\* Allow's effect when it returns true; when it returns false it changes
\* nothing.
Allow(b) ==
    CASE b.state = "closed" -> b
      [] b.state = "open" ->
            [b EXCEPT !.state = "half_open", !.halfOpenActive = 1]
      [] b.state = "half_open" ->
            [b EXCEPT !.halfOpenActive = @ + 1]

\* Mutant: the peek forgets that the recovery timeout reopens the circuit.
PermitsNotOpen(b) ==
    \/ b.state = "closed"
    \/ b.state = "half_open" /\ b.halfOpenActive < HalfOpenMax

\* The router's non-reserving peek.
Permits(b) ==
    \/ b.state = "closed"
    \/ b.state = "open" /\ b.elapsed
    \/ b.state = "half_open" /\ b.halfOpenActive < HalfOpenMax

\* The guarded decrement every verdict performs on the probe counter.
Release(n) == IF n > 0 THEN n - 1 ELSE n

\* Mutant: recovery keeps the failure count that tripped the circuit.
RecordSuccessKeepsFailures(b) ==
    CASE b.state = "half_open" ->
            [b EXCEPT !.state = "closed", !.halfOpenActive = Release(@)]
      [] b.state = "closed" -> [b EXCEPT !.failures = 0]
      [] b.state = "open" -> b

\* Mutant: a success while closed leaves the failure count alone, as the
\* method's own comment ("no-op for failures") says.
RecordSuccessNoReset(b) ==
    IF b.state = "half_open"
    THEN [b EXCEPT !.state = "closed", !.failures = 0,
                   !.halfOpenActive = Release(@)]
    ELSE b

RecordSuccess(b) ==
    CASE b.state = "half_open" ->
            [b EXCEPT !.state = "closed", !.failures = 0,
                      !.halfOpenActive = Release(@)]
      [] b.state = "closed" -> [b EXCEPT !.failures = 0]
      [] b.state = "open" -> b

RecordFailure(b) ==
    CASE b.state = "closed" ->
            IF b.failures + 1 >= Threshold
            THEN [b EXCEPT !.failures = @ + 1, !.state = "open",
                           !.elapsed = FALSE]
            ELSE [b EXCEPT !.failures = @ + 1]
      [] b.state = "half_open" ->
            [b EXCEPT !.state = "open", !.elapsed = FALSE,
                      !.halfOpenActive = Release(@)]
      [] b.state = "open" -> b

RecordNeutral(b) ==
    IF b.state = "half_open"
    THEN [b EXCEPT !.halfOpenActive = Release(@)]
    ELSE b

\* The passage of time: lastFailure falls timeout or more behind the clock.
TimeoutElapses(b) == [b EXCEPT !.elapsed = TRUE]
=============================================================================
