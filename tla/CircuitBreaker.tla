--------------------------- MODULE CircuitBreaker ---------------------------
(***************************************************************************)
(* One circuit breaker and the callers that keep its contract, with two    *)
(* history variables the breaker itself has no counterpart of: which       *)
(* callers are probes of the current half-open period (the breaker keeps   *)
(* only their number) and how many failures have been reported since the   *)
(* last success.                                                           *)
(***************************************************************************)
EXTENDS BreakerContract, FiniteSets

VARIABLES probes,   \* in-flight callers admitted in this half-open period
          streak    \* failures reported since the last success, up to Threshold

vars == <<breaker, reserved, probes, streak>>

\* The breaker stays a breaker: halfOpenActive is a natural number no Record
\* method takes below zero, and failures a count.
TypeOK ==
    /\ breaker \in Breakers
    /\ reserved \subseteq Callers
    /\ probes \subseteq reserved
    /\ streak \in 0..Threshold

Init ==
    /\ ContractInit
    /\ probes = {}
    /\ streak = 0

Admit(c) ==
    /\ Reserve(c)
    /\ probes' = CASE breaker.state = "closed" -> probes
                   [] breaker.state = "open" -> {c}
                   [] breaker.state = "half_open" -> probes \cup {c}
    /\ UNCHANGED streak

\* A verdict that leaves the half-open state ends the period its probes
\* belong to.
LeaveProbes(c) ==
    probes' = IF breaker'.state = "half_open" THEN probes \ {c} ELSE {}

Success(c) == ReportSuccess(c) /\ LeaveProbes(c) /\ streak' = 0

Failure(c) ==
    /\ ReportFailure(c)
    /\ LeaveProbes(c)
    /\ streak' = IF streak < Threshold THEN streak + 1 ELSE streak

Neutral(c) == ReportNeutral(c) /\ LeaveProbes(c) /\ UNCHANGED streak

Tick == Elapse /\ UNCHANGED <<probes, streak>>

Report(c) == Success(c) \/ Failure(c) \/ Neutral(c)

Next == Tick \/ \E c \in Callers : Admit(c) \/ Report(c)

Spec == Init /\ [][Next]_vars

\* Every admitted caller reports in the end (upstream calls and streams are
\* bounded by timeouts) and time passes.
Fairness == WF_vars(Tick) /\ \A c \in Callers : WF_vars(Report(c))

FairSpec == Spec /\ Fairness

-----------------------------------------------------------------------------
\* A closed circuit is always below its trip threshold: recovery through
\* half-open starts from a clean failure count, so the first new failure after
\* a recovery cannot trip the circuit (RecordSuccess resets failures).
ClosedBelowThreshold ==
    breaker.state = "closed" => breaker.failures < Threshold

\* The probe counter of a half-open circuit never exceeds half_open_max, and
\* every slot it counts is held by a caller that is still in flight and was
\* admitted in this half-open period.  A slot no caller holds would never be
\* released (the lock-out that Allow's documentation warns about).
SlotsAreHeld ==
    breaker.state = "half_open" =>
        /\ breaker.halfOpenActive <= HalfOpenMax
        /\ breaker.halfOpenActive <= Cardinality(probes)

\* A closed circuit trips only on Threshold failures reported with no success
\* in between, whatever neutral and late verdicts arrived meanwhile.
TripsOnStreak ==
    [][breaker.state = "closed" /\ breaker'.state = "open"
         => streak' = Threshold]_vars

\* A breaker whose callers all report never rejects for ever.
NeverStuck == []<>Permits(breaker)

-----------------------------------------------------------------------------
(* What is written about the code and does not hold (see README.md).       *)

\* What Config.HalfOpenMax documents: the number of concurrent probe requests
\* while half open.
ConcurrentProbesBounded ==
    breaker.state = "half_open" => Cardinality(probes) <= HalfOpenMax
=============================================================================
