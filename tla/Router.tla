------------------------------- MODULE Router -------------------------------
(***************************************************************************)
(* Candidate selection of internal/router/router.go as operators: which    *)
(* deployments of a model a request may try, and in which order.  A model  *)
(* is a record                                                             *)
(*    [deployments |-> sequence, strategy |-> string, maxRetries |-> Nat,  *)
(*     priority |-> function from deployments to numbers]                  *)
(* and the state the router reads (breakers, health, cooldowns, latencies) *)
(* is passed as sets of deployments and a function latency, where 0 means  *)
(* that the health checker has no measurement.                             *)
(***************************************************************************)
EXTENDS Naturals, Sequences, FiniteSets

\* sort.SliceStable: the k-th element is the one with k - 1 others before it,
\* where equal keys keep their original order.
StableSort(s, Less(_, _)) ==
    LET Before(i, j) == \/ Less(s[i], s[j])
                        \/ ~Less(s[j], s[i]) /\ i < j
        Position(i) == 1 + Cardinality({j \in DOMAIN s : Before(j, i)})
    IN  [k \in DOMAIN s |-> s[CHOOSE i \in DOMAIN s : Position(i) = k]]

filterAvailable(model, permitted, unhealthy) ==
    SelectSeq(model.deployments, LAMBDA d : d \in permitted /\ d \notin unhealthy)

rotate(s, start) == [i \in DOMAIN s |-> s[((start + i - 1) % Len(s)) + 1]]

\* counter is the value before the atomic increment.
roundRobin(candidates, counter) == rotate(candidates, counter % Len(candidates))

\* Mutant: a missing measurement compares as a latency of zero.
FasterWithoutData(latency, d, e) == latency[d] < latency[e]

\* The comparison of leastLatency: a deployment without a measurement is
\* never before another.
FasterThan(latency, d, e) ==
    /\ latency[d] # 0
    /\ latency[e] = 0 \/ latency[d] < latency[e]

HasLatencyData(candidates, latency) ==
    \E i \in DOMAIN candidates : latency[candidates[i]] > 0

leastLatency(candidates, counter, latency) ==
    IF HasLatencyData(candidates, latency)
    THEN StableSort(candidates, LAMBDA d, e : FasterThan(latency, d, e))
    ELSE roundRobin(candidates, counter)

\* Weights that are zero or negative count as 1, so every candidate may come
\* first, and the rest follow in any order: the permutations of candidates.
weighted(candidates) ==
    { [k \in DOMAIN candidates |-> candidates[p[k]]] :
        p \in { q \in [DOMAIN candidates -> DOMAIN candidates] :
                  \A i, j \in DOMAIN candidates : i # j => q[i] # q[j] } }

priority(model, candidates) ==
    StableSort(candidates, LAMBDA d, e : model.priority[d] < model.priority[e])

applyCooldownOrder(ordered, cooling) ==
    SelectSeq(ordered, LAMBDA d : d \notin cooling)
      \o SelectSeq(ordered, LAMBDA d : d \in cooling)

\* Zero maxRetries means no limit.
Trim(model, ordered) ==
    IF model.maxRetries > 0 /\ model.maxRetries + 1 < Len(ordered)
    THEN SubSeq(ordered, 1, model.maxRetries + 1)
    ELSE ordered

\* The candidates before ordering: all of them when none is available.
Candidates(model, permitted, unhealthy) ==
    LET available == filterAvailable(model, permitted, unhealthy)
    IN  IF available = <<>> THEN model.deployments ELSE available

\* Whether ordering candidates advances the model's round-robin counter.
TakesTurn(model, candidates, latency) ==
    \/ model.strategy = "round-robin"
    \/ model.strategy = "least-latency" /\ ~HasLatencyData(candidates, latency)

Ordered(model, candidates, counter, latency) ==
    CASE model.strategy = "least-latency" ->
            {leastLatency(candidates, counter, latency)}
      [] model.strategy = "weighted" -> weighted(candidates)
      [] model.strategy = "priority" -> {priority(model, candidates)}
      [] OTHER -> {roundRobin(candidates, counter)}

\* The possible results of Pick for a model with a deployment list.
Pick(model, permitted, unhealthy, cooling, counter, latency) ==
    { Trim(model, applyCooldownOrder(o, cooling)) :
        o \in Ordered(model, Candidates(model, permitted, unhealthy),
                      counter, latency) }
=============================================================================
