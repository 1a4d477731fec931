------------------------------ MODULE Failover ------------------------------
(***************************************************************************)
(* The proxy's request path (internal/proxy/handler.go: Handle, tryModel   *)
(* and the end of handleStreamingResponse): each request picks candidates  *)
(* for its model, tries them in order behind their circuit breakers, and   *)
(* falls back to another model when the chain allows it.  Requests are     *)
(* concurrent goroutines that share the breakers, the cooldown registry    *)
(* and the round-robin counters; every step below is one stretch of code   *)
(* between two accesses to that shared state.                              *)
(*                                                                         *)
(* An upstream answer is a record [status, sse].  status "ok" stands for   *)
(* every code below 500 other than 429, "retryable" for 500, 502, 503 and  *)
(* 504, "server" for any other 5xx, "limited" for 429; sse is whether the  *)
(* Content-Type is text/event-stream.                                      *)
(***************************************************************************)
EXTENDS Breaker, Router

CONSTANTS
    Requests,          \* client connections, one request at a time each
    Models,            \* canonical model names
    Config,            \* function: model -> its Router record
    Fallback,          \* function: model -> fallback model or NoModel
    Allowed,           \* function: request -> models its key may use
    FallbackMaxDepth,  \* settings.fallback_max_depth
    Answers,           \* the upstream answers considered
    Errors,            \* the transport errors considered
    Latencies,         \* the latency readings considered
    CounterModulus,    \* round-robin counters are kept modulo this
    NoModel, NoDeployment, NoAnswer

DeploymentsOf(m) == {Config[m].deployments[i] : i \in DOMAIN Config[m].deployments}

Deployments == UNION {DeploymentsOf(m) : m \in Models}

\* An error is "err" or wraps a context error: "timeout" (the model's own
\* timeout) or "canceled" (CancelInflight at shutdown).
AllErrors == {"err", "timeout", "canceled"}

AllAnswers == [status : {"ok", "limited", "retryable", "server"}, sse : BOOLEAN]

\* Registry.FallbackFor returns a registered model or none; validation keeps
\* the depth from being negative.
ASSUME FailoverAssumption ==
    /\ Fallback \in [Models -> Models \cup {NoModel}]
    /\ FallbackMaxDepth \in Nat
    /\ Answers \subseteq AllAnswers
    /\ Errors \subseteq AllErrors
    /\ NoAnswer \notin AllAnswers

VARIABLES
    breakers,   \* circuitbreaker.Registry: deployment -> breaker
    cooling,    \* cooldown.Registry: deployments inside a cooldown window
    counters,   \* the router's counters: model -> turn
    req,        \* the local state of each request's goroutine
    held        \* history: deployments whose reservation the request owes a verdict

vars == <<breakers, cooling, counters, req, held>>

\* path is the chain of models tried, the last being currentModel; cands are
\* the candidates not yet dealt with, the first being the one under way.
Idle ==
    [pc |-> "idle", path |-> <<>>, cands |-> <<>>, dep |-> NoDeployment,
     lastErr |-> "none", resp |-> NoAnswer]

Init ==
    /\ breakers = [d \in Deployments |-> NewBreaker]
    /\ cooling = {}
    /\ counters = [m \in Models |-> 0]
    /\ req = [r \in Requests |-> Idle]
    /\ held = [r \in Requests |-> {}]

CurrentModel(q) == q.path[Len(q.path)]

Visited(q) == {q.path[i] : i \in DOMAIN q.path}

Depth(q) == Len(q.path) - 1

-----------------------------------------------------------------------------
\* resolveModel succeeded: the model exists and the key may use it.
Arrive(r, m) ==
    /\ req[r].pc = "idle"
    /\ m \in Allowed[r]
    /\ req' = [req EXCEPT ![r] = [Idle EXCEPT !.pc = "pick", !.path = <<m>>]]
    /\ UNCHANGED <<breakers, cooling, counters, held>>

\* The head of tryModel: Router.Pick reads breakers, health and cooldowns, and
\* every result variable of the attempt starts afresh.
PickCandidates(r) ==
    LET m == CurrentModel(req[r])
        permitted == {d \in DeploymentsOf(m) : Permits(breakers[d])}
    IN  /\ req[r].pc = "pick"
        /\ \E unhealthy \in SUBSET DeploymentsOf(m),
              latency \in [DeploymentsOf(m) -> Latencies] :
             /\ \E picked \in Pick(Config[m], permitted, unhealthy, cooling,
                                   counters[m], latency) :
                  req' = [req EXCEPT ![r] =
                            [@ EXCEPT !.pc = "try", !.cands = picked,
                                      !.dep = NoDeployment, !.lastErr = "none",
                                      !.resp = NoAnswer]]
             /\ counters' =
                  IF TakesTurn(Config[m],
                               Candidates(Config[m], permitted, unhealthy), latency)
                  THEN [counters EXCEPT ![m] = (@ + 1) % CounterModulus]
                  ELSE counters
        /\ UNCHANGED <<breakers, cooling, held>>

\* Mutant: the same candidate is tried again.
NextCandidateAgain(q) == [q EXCEPT !.dep = NoDeployment, !.pc = "try"]

\* continue: the next candidate, or the end of the loop.
NextCandidate(q) ==
    [q EXCEPT !.cands = Tail(@), !.dep = NoDeployment,
              !.pc = IF Len(q.cands) = 1 THEN "decide" ELSE "try"]

Attempt(r) ==
    LET d == Head(req[r].cands)
    IN  /\ req[r].pc = "try"
        /\ Admits(breakers[d])
        /\ breakers' = [breakers EXCEPT ![d] = Allow(@)]
        /\ held' = [held EXCEPT ![r] = @ \cup {d}]
        /\ req' = [req EXCEPT ![r] = [@ EXCEPT !.pc = "sent", !.dep = d]]
        /\ UNCHANGED <<cooling, counters>>

Refused(r) ==
    /\ req[r].pc = "try"
    /\ ~Admits(breakers[Head(req[r].cands)])
    /\ req' = [req EXCEPT ![r] = NextCandidate(@)]
    /\ UNCHANGED <<breakers, cooling, counters, held>>

\* The method of the breaker a verdict stands for.
Verdict(b, v) ==
    CASE v = "success" -> RecordSuccess(b)
      [] v = "failure" -> RecordFailure(b)
      [] v = "neutral" -> RecordNeutral(b)

\* A verdict on the reservation request r took for its current deployment.
Record(r, v) ==
    /\ breakers' = [breakers EXCEPT ![req[r].dep] = Verdict(@, v)]
    /\ held' = [held EXCEPT ![r] = @ \ {req[r].dep}]

NoVerdict == UNCHANGED <<breakers, held>>

\* cooldown.Registry.Mark; Retry-After: 0 makes it a no-op.
Mark(d) == cooling' \in {cooling, cooling \cup {d}}

\* buildUpstreamRequest failed: the error response is sent and the deferred
\* function of the iteration releases the reservation.
BuildFails(r) ==
    /\ req[r].pc = "sent"
    /\ Record(r, "neutral")
    /\ req' = [req EXCEPT ![r] = Idle]
    /\ UNCHANGED <<cooling, counters>>

TransportFails(r, e) ==
    /\ req[r].pc = "sent"
    /\ Record(r, "failure")
    /\ req' = [req EXCEPT ![r] = [NextCandidate(@) EXCEPT !.lastErr = e]]
    /\ UNCHANGED <<cooling, counters>>

isRetryable(a) == a.status = "retryable"

isRateLimited(a) == a.status = "limited"

\* A retryable or rate-limited answer with a candidate left: drain and go on.
FailOver(r, a) ==
    /\ req[r].pc = "sent"
    /\ isRetryable(a) \/ isRateLimited(a)
    /\ Len(req[r].cands) > 1
    /\ IF isRateLimited(a)
       THEN Record(r, "neutral") /\ Mark(req[r].dep)
       ELSE Record(r, "failure") /\ UNCHANGED cooling
    /\ req' = [req EXCEPT ![r] = [NextCandidate(@) EXCEPT !.lastErr = "err"]]
    /\ UNCHANGED counters

\* Any other answer ends the loop.  A stream that is not rate limited keeps
\* its reservation open for handleStreamingResponse (handedToCaller).
Accept(r, a) ==
    /\ req[r].pc = "sent"
    /\ ~(isRetryable(a) \/ isRateLimited(a)) \/ Len(req[r].cands) = 1
    /\ \/ isRateLimited(a) /\ Record(r, "neutral") /\ Mark(req[r].dep)
       \/ /\ ~isRateLimited(a)
          /\ IF a.sse THEN NoVerdict
             ELSE IF a.status \in {"retryable", "server"}
             THEN Record(r, "failure")
             ELSE Record(r, "success")
          /\ UNCHANGED cooling
    /\ req' = [req EXCEPT ![r] = [@ EXCEPT !.pc = "decide", !.resp = a, !.cands = <<>>]]
    /\ UNCHANGED counters

-----------------------------------------------------------------------------
\* Mutant: a rate limit is no reason to fall back.
isFallbackEligibleNot429(resp, err) ==
    IF err # "none" THEN err \notin {"canceled", "timeout"}
    ELSE resp # NoAnswer /\ resp.status \in {"retryable", "server"}

\* isFallbackEligible: an error decides alone, and a context error forbids.
isFallbackEligible(resp, err) ==
    IF err # "none" THEN err \notin {"canceled", "timeout"}
    ELSE resp # NoAnswer /\ resp.status \in {"retryable", "server", "limited"}

\* Mutant: no cycle protection.
HasFallbackUnchecked(q) == Fallback[CurrentModel(q)] # NoModel

\* Registry.FallbackFor.
HasFallback(q) ==
    LET next == Fallback[CurrentModel(q)]
    IN  next # NoModel /\ next \notin Visited(q)

\* The conditions under which Handle's loop commits to another hop.
MayHop(r) ==
    LET q == req[r]
    IN  /\ isFallbackEligible(q.resp, q.lastErr)
        /\ q.resp # NoAnswer => isFallbackEligible(q.resp, "none")
        /\ HasFallback(q)
        /\ Depth(q) < FallbackMaxDepth
        /\ Fallback[CurrentModel(q)] \in Allowed[r]

\* The answer in hand is drained and dropped; tryModel starts over.
Hop(r) ==
    /\ req[r].pc = "decide"
    /\ MayHop(r)
    /\ req' = [req EXCEPT ![r] =
                 [@ EXCEPT !.pc = "pick", !.resp = NoAnswer, !.dep = NoDeployment,
                           !.path = Append(req[r].path, Fallback[CurrentModel(req[r])])]]
    /\ UNCHANGED <<breakers, cooling, counters, held>>

\* The loop ends with what it has: an error response (502 or 503) when there
\* is no answer, a stream to relay, or a buffered response.
EndChain(r) ==
    /\ req[r].pc = "decide"
    /\ req' = [req EXCEPT ![r] = IF @.resp # NoAnswer /\ @.resp.sse
                                 THEN [@ EXCEPT !.pc = "stream"]
                                 ELSE Idle]
    /\ UNCHANGED <<breakers, cooling, counters, held>>

Stop(r) == ~MayHop(r) /\ EndChain(r)

\* The request body cannot be rewritten for the next model.
RewriteFails(r) == MayHop(r) /\ EndChain(r)

\* Mutant: the relay of a 429 stream records a verdict too.
StreamEndsTwice(r, v) ==
    /\ req[r].pc = "stream"
    /\ Record(r, v)
    /\ req' = [req EXCEPT ![r] = Idle]
    /\ UNCHANGED <<cooling, counters>>

\* The relay goroutine ends; what its verdict may be is the subject of module
\* StreamRelay.  A 429 stream was given no breaker.
StreamEnds(r, v) ==
    /\ req[r].pc = "stream"
    /\ IF isRateLimited(req[r].resp) THEN NoVerdict ELSE Record(r, v)
    /\ req' = [req EXCEPT ![r] = Idle]
    /\ UNCHANGED <<cooling, counters>>

RecoveryElapses(d) ==
    /\ breakers[d].state = "open"
    /\ ~breakers[d].elapsed
    /\ breakers' = [breakers EXCEPT ![d] = TimeoutElapses(@)]
    /\ UNCHANGED <<cooling, counters, req, held>>

CooldownExpires(d) ==
    /\ d \in cooling
    /\ cooling' = cooling \ {d}
    /\ UNCHANGED <<breakers, counters, req, held>>

\* Every step of a request after its arrival.
Step(r) ==
    \/ PickCandidates(r)
    \/ Attempt(r)
    \/ Refused(r)
    \/ BuildFails(r)
    \/ \E e \in Errors : TransportFails(r, e)
    \/ \E a \in Answers : FailOver(r, a) \/ Accept(r, a)
    \/ Hop(r)
    \/ Stop(r)
    \/ RewriteFails(r)
    \/ \E v \in {"success", "failure", "neutral"} : StreamEnds(r, v)

Next ==
    \/ \E r \in Requests : Step(r) \/ \E m \in Models : Arrive(r, m)
    \/ \E d \in Deployments : RecoveryElapses(d) \/ CooldownExpires(d)

Spec == Init /\ [][Next]_vars

\* Upstream calls and streams end (client, model and stream timeouts), the
\* scheduler runs every goroutine, and time passes.
Fairness ==
    /\ \A r \in Requests : WF_vars(Step(r))
    /\ \A d \in Deployments : WF_vars(RecoveryElapses(d))

FairSpec == Spec /\ Fairness

-----------------------------------------------------------------------------
\* The attempt loop never looks at a candidate it does not have, and verdicts
\* of any caller leave every breaker well-formed.
TypeOK ==
    /\ breakers \in [Deployments -> Breakers]
    /\ cooling \subseteq Deployments
    /\ counters \in [Models -> Nat]
    /\ held \in [Requests -> SUBSET Deployments]
    /\ \A r \in Requests :
          /\ req[r].pc \in {"idle", "pick", "try", "sent", "decide", "stream"}
          /\ req[r].path \in Seq(Models)
          /\ req[r].cands \in Seq(Deployments)
          /\ req[r].dep \in Deployments \cup {NoDeployment}
          /\ req[r].lastErr \in {"none"} \cup AllErrors
          /\ req[r].resp \in AllAnswers \cup {NoAnswer}
          /\ req[r].pc \in {"try", "sent"} => req[r].cands # <<>>

\* The balance that Allow's documentation demands of tryModel and
\* handleStreamingResponse: a request owes a verdict only for the deployment
\* it is working with, and nothing once it is over.
ReservationsSettled ==
    \A r \in Requests :
        /\ held[r] \subseteq {req[r].dep}
        /\ req[r].pc \in {"idle", "pick", "try"} => held[r] = {}

Contract(d) ==
    INSTANCE BreakerContract
    WITH Callers <- Requests, breaker <- breakers[d],
         reserved <- {r \in Requests : d \in held[r]}

ContractSteps ==
    \A d \in Deployments : [Contract(d)!ContractNext]_(Contract(d)!contractVars)

\* Refinement: per deployment, the requests together behave as callers that
\* keep the breaker's contract, so what module CircuitBreaker shows of such
\* callers holds for every breaker of the running proxy.
KeepsContract ==
    /\ \A d \in Deployments : Contract(d)!ContractInit
    /\ [][ContractSteps]_vars

\* A fallback chain follows the configured links, enters no model twice, is no
\* longer than the configured depth, and never enters a model the request's
\* key has no access to, whatever the upstreams answer.
ChainIsSound ==
    \A r \in Requests :
        LET path == req[r].path
        IN  /\ Len(path) <= FallbackMaxDepth + 1
            /\ Cardinality(Visited(req[r])) = Len(path)
            /\ \A i \in DOMAIN path :
                  /\ path[i] \in Allowed[r]
                  /\ i > 1 => path[i] = Fallback[path[i - 1]]

\* Reservations and chain are both as they should be at every point of the
\* attempt loop and of the hops from model to model.
HopsAreSound == ReservationsSettled /\ ChainIsSound

StopsAtTheEnd ==
    \A r \in Requests :
        /\ Stop(r)
        /\ req[r].lastErr \notin {"canceled", "timeout"}
        /\ req[r].lastErr = "none" => req[r].resp # NoAnswer
        /\ req[r].resp # NoAnswer => req[r].resp.status # "ok"
        => \/ ~HasFallback(req[r])
           \/ Depth(req[r]) = FallbackMaxDepth
           \/ Fallback[CurrentModel(req[r])] \notin Allowed[r]

\* The proxy does not leave its client with an error while the chain still has
\* a model to offer, except after a context error (timeout, shutdown), a
\* refusal by every breaker, or a body that cannot be rewritten.
GivesUpOnlyAtTheEnd == [][StopsAtTheEnd]_vars

UnderWay(r) == req[r].pc # "idle"

Permitted(d) == Permits(breakers[d])

\* Every request that enters the attempt loop and the fallback chain leaves
\* them: no candidate is tried, and no model entered, without end.
RequestsTerminate ==
    \A r \in Requests : UnderWay(r) ~> ~UnderWay(r)

\* No deployment is locked out for ever: its breaker permits a request again
\* and again, because every reservation is released.
NoLockout == \A d \in Deployments : []<>Permitted(d)

-----------------------------------------------------------------------------
(* What is written about the code and does not hold (see README.md).       *)

\* What CHANGELOG.md says of fallback chains, "cross-model failover when all
\* deployments of the primary are unavailable": a request all of whose
\* candidates were refused by their breakers moves on if the chain has a next
\* model for it.
RefusalFallsBack ==
    [][\A r \in Requests :
         Stop(r) /\ req[r].resp = NoAnswer /\ req[r].lastErr = "none"
         => \/ ~HasFallback(req[r])
            \/ Depth(req[r]) = FallbackMaxDepth
            \/ Fallback[CurrentModel(req[r])] \notin Allowed[r]]_vars

\* What isFallbackEligible's documentation says: "Network / DNS / dial /
\* timeout errors are eligible".
TimeoutFallsBack ==
    [][\A r \in Requests :
         Stop(r) /\ req[r].resp = NoAnswer /\ req[r].lastErr = "timeout"
         => \/ ~HasFallback(req[r])
            \/ Depth(req[r]) = FallbackMaxDepth
            \/ Fallback[CurrentModel(req[r])] \notin Allowed[r]]_vars
=============================================================================
