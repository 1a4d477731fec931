----------------------------- MODULE MCFailover -----------------------------
(* Failover with two models that fall back to one another. *)
EXTENDS Failover, TLC

CONSTANTS r1, r2, m1, m2, d1, d2

OneDeployment(d) ==
    [deployments |-> <<d>>, strategy |-> "round-robin", maxRetries |-> 0,
     priority |-> (d :> 0)]

ChainConfig == (m1 :> OneDeployment(d1)) @@ (m2 :> OneDeployment(d2))

Cycle == (m1 :> m2) @@ (m2 :> m1)

\* One request may use both models, the others only the primary.
Mixed == [r \in Requests |-> IF r = r1 THEN {m1, m2} ELSE {m1}]

=============================================================================
