------------------------------- MODULE Routing -------------------------------
(***************************************************************************)
(* The router at work: requests pick candidates for one model while        *)
(* circuit breakers, the health checker and the cooldown registry change   *)
(* what it sees.  picked is the result of the last Pick as long as the     *)
(* world has not changed since; firsts collects the deployments that came  *)
(* first in the round-robin picks since the last change.                   *)
(***************************************************************************)
EXTENDS Router

CONSTANTS Deployments,    \* the model's deployments, in configuration order
          Priorities,     \* function: deployment -> priority
          Latencies,      \* the latency readings considered, 0 for none
          MaxRetriesSet,  \* values of max_retries considered
          CounterModulus  \* the counter is kept modulo this multiple of 1..N

VARIABLES model, permitted, unhealthy, cooling, latency, counter, picked, firsts

vars == <<model, permitted, unhealthy, cooling, latency, counter, picked, firsts>>

DeploymentSet == {Deployments[i] : i \in DOMAIN Deployments}

Strategies == {"round-robin", "least-latency", "weighted", "priority"}

Init ==
    /\ model \in [deployments : {Deployments}, priority : {Priorities},
                  strategy : Strategies, maxRetries : MaxRetriesSet]
    /\ permitted = DeploymentSet
    /\ unhealthy = {}
    /\ cooling = {}
    /\ latency = [d \in DeploymentSet |-> 0]
    /\ counter = 0
    /\ picked = <<>>
    /\ firsts = <<>>

WorldChanges == picked' = <<>> /\ firsts' = <<>> /\ UNCHANGED <<model, counter>>

\* Breaker.Permits turns false or true again for d.
BreakerFlips(d) ==
    /\ permitted' = IF d \in permitted THEN permitted \ {d} ELSE permitted \cup {d}
    /\ WorldChanges
    /\ UNCHANGED <<unhealthy, cooling, latency>>

\* The health checker publishes a probe result for d.
HealthReport(d, ms) ==
    /\ unhealthy' \in {unhealthy \ {d}, unhealthy \cup {d}}
    /\ latency' = [latency EXCEPT ![d] = ms]
    /\ WorldChanges
    /\ UNCHANGED <<permitted, cooling>>

\* cooldown.Registry.Mark for d, or the end of its cooldown.
CooldownFlips(d) ==
    /\ cooling' = IF d \in cooling THEN cooling \ {d} ELSE cooling \cup {d}
    /\ WorldChanges
    /\ UNCHANGED <<permitted, unhealthy, latency>>

PickCandidates ==
    /\ picked' \in Pick(model, permitted, unhealthy, cooling, counter, latency)
    /\ counter' = IF TakesTurn(model, Candidates(model, permitted, unhealthy), latency)
                  THEN (counter + 1) % CounterModulus
                  ELSE counter
    /\ firsts' = IF model.strategy # "round-robin" THEN <<>> ELSE
                 IF Len(firsts) < Len(Candidates(model, permitted, unhealthy))
                 THEN Append(firsts, picked'[1])
                 ELSE <<picked'[1]>>
    /\ UNCHANGED <<model, permitted, unhealthy, cooling, latency>>

Next ==
    \/ PickCandidates
    \/ \E d \in DeploymentSet :
          \/ BreakerFlips(d)
          \/ CooldownFlips(d)
          \/ \E ms \in Latencies : HealthReport(d, ms)

Spec == Init /\ [][Next]_vars

-----------------------------------------------------------------------------
PickedSet == {picked[i] : i \in DOMAIN picked}

Available == permitted \ unhealthy

\* What Pick promises its caller, without saying how it is computed: no
\* candidate twice, at most max_retries + 1 of them, and nothing a breaker or
\* the health checker ruled out unless they ruled out everything.
PickIsSound ==
    picked # <<>> =>
        /\ Len(picked) = Cardinality(PickedSet)
        /\ model.maxRetries > 0 => Len(picked) <= model.maxRetries + 1
        /\ Available # {} => PickedSet \subseteq Available

\* A rate-limited deployment costs a healthy one nothing: no cooling candidate
\* is tried before a non-cooling one, and the max_retries cap never drops a
\* non-cooling candidate while it keeps a cooling one.
CoolingComesLast ==
    picked # <<>> =>
        LET pool == IF Available = {} THEN DeploymentSet ELSE Available
        IN  /\ \A i, j \in DOMAIN picked :
                  picked[i] \in cooling /\ picked[j] \notin cooling => j < i
            /\ PickedSet \cap cooling # {} => pool \ cooling \subseteq PickedSet

\* The strategy's preference holds between any two candidates that are equally
\* cool: lower priority values first, faster deployments first and unmeasured
\* ones last, ties in configuration order.
PreferenceKept ==
    LET ConfigBefore(d, e) ==
            \E i, j \in DOMAIN Deployments :
                i < j /\ Deployments[i] = d /\ Deployments[j] = e
        Rank(d) == IF latency[d] = 0 THEN 1 + CHOOSE m \in Latencies :
                                               \A l \in Latencies : l <= m
                                     ELSE latency[d]
        Key(d) == IF model.strategy = "priority" THEN Priorities[d] ELSE Rank(d)
    IN  /\ picked # <<>>
        /\ \/ model.strategy = "priority"
           \/ /\ model.strategy = "least-latency"
              /\ \E i \in DOMAIN picked : latency[picked[i]] > 0
        => \A i, j \in DOMAIN picked :
              i < j /\ (picked[i] \in cooling <=> picked[j] \in cooling)
                => \/ Key(picked[i]) < Key(picked[j])
                   \/ /\ Key(picked[i]) = Key(picked[j])
                      /\ ConfigBefore(picked[i], picked[j])

\* Round robin is even: as long as nothing changes and nothing is cooling, N
\* consecutive picks of N candidates put N different deployments first,
\* wherever the shared counter stood when the world last changed.
RoundRobinIsEven ==
    model.strategy = "round-robin" /\ cooling = {} =>
        \A i, j \in DOMAIN firsts : i # j => firsts[i] # firsts[j]
=============================================================================
