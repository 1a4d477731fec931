----------------------------- MODULE MCRequests -----------------------------
(*****************************************************************************)
(* Failover with three models: m1 and m2, with one deployment each, fall     *)
(* back to one another (a cycle), and m3 has two deployments and no          *)
(* fallback.  A behaviour is about requests for the first two models or      *)
(* about requests for the third.                                             *)
(*****************************************************************************)
EXTENDS Failover, TLC

VARIABLE part  \* what the requests of this behaviour are for

OneDeployment(d) ==
    [deployments |-> <<d>>, strategy |-> "priority", maxRetries |-> 0,
     priority |-> (d :> 0)]
TwoDeployments(d, e) ==
    [deployments |-> <<d, e>>, strategy |-> "round-robin", maxRetries |-> 0,
     priority |-> (d :> 0 @@ e :> 0)]

ModelConfig ==
    [m1 |-> OneDeployment("d1"), m2 |-> OneDeployment("d2"),
     m3 |-> TwoDeployments("d3", "d4")]

Links == [m1 |-> "m2", m2 |-> "m1", m3 |-> "none"]

\* One request may use every model, the other not the second.
Permissions == [r1 |-> {"m1", "m2", "m3"}, r2 |-> {"m1", "m3"}]

\* The upstream's answers, but for a 5xx that is an event stream.
Answered ==
    [status : {"ok", "limited", "retryable", "server"}, sse : {FALSE}]
        \cup [status : {"ok", "limited"}, sse : {TRUE}]

requestsVars == <<part, vars>>

Requested == IF part = "chain" THEN {"m1", "m2"} ELSE {"m3"}

\* A model without a fallback treats all transport errors alike, and the answer
\* to a rate-limited request like any other that is not kept open.
Considered ==
    part = "pair" =>
        \A r \in Requests :
            /\ req'[r].lastErr \in {"none", "err"}
            /\ req'[r].resp # [status |-> "limited", sse |-> TRUE]

RequestsInit == Init /\ part \in {"chain", "pair"}

RequestsNext ==
    /\ \/ \E r \in Requests : Step(r) \/ \E m \in Requested : Arrive(r, m)
       \/ \E d \in Deployments : RecoveryElapses(d) \/ CooldownExpires(d)
    /\ Considered
    /\ UNCHANGED part

\* Fairness as in Failover, for the chain.
ChainFairness ==
    /\ \A r \in Requests : WF_vars(part = "chain" /\ Step(r))
    /\ \A d \in {"d1", "d2"} : WF_vars(part = "chain" /\ RecoveryElapses(d))

RequestsSpec == RequestsInit /\ [][RequestsNext]_requestsVars /\ ChainFairness

-----------------------------------------------------------------------------
\* Every request ends, and every breaker permits a request again and again.
ProxyProgresses ==
    /\ \A r \in Requests : part = "chain" /\ UnderWay(r) ~> part = "chain" /\ ~UnderWay(r)
    /\ \A d \in {"d1", "d2"} : []<>(part = "chain" => Permitted(d))
=============================================================================
