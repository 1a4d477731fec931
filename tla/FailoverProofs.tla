--------------------------- MODULE FailoverProofs ---------------------------
(***************************************************************************)
(* Proofs about Failover, for any number of concurrent requests, any       *)
(* models, deployments and fallback links: what a request owes the circuit *)
(* breakers, that all requests together keep the breakers' contract, how   *)
(* far a fallback chain goes, and when it stops. And about AccessLists,    *)
(* for any instances, handlers and items: the two ways of deciding agree.  *)
(***************************************************************************)
EXTENDS Failover, AccessLists, SequenceTheorems, FiniteSetTheorems, TLAPS

\* A reservation outlives the attempt loop only for a stream, and Hop drops the
\* answer it belongs to. So the reservations balance where no answer that is
\* worth a fallback is a stream, or where nothing falls back.
HopsDropNoStream ==
    \/ \A a \in Answers : a.sse => a.status \in {"ok", "limited"}
    \/ FallbackMaxDepth = 0

\* The local state of a request. Nothing below depends on its candidates.
Local(q) ==
    /\ DOMAIN q = {"pc", "path", "cands", "dep", "lastErr", "resp"}
    /\ q.pc \in {"idle", "pick", "try", "sent", "decide", "stream"}
    /\ q.path \in Seq(Models)
    /\ q.lastErr \in {"none"} \cup AllErrors
    /\ q.resp \in Answers \cup {NoAnswer}
    /\ q.pc \in {"idle", "pick", "try", "sent"} => q.resp = NoAnswer
    /\ q.pc = "stream" => q.resp # NoAnswer /\ q.resp.sse

\* The answer in hand came with a reservation that is not settled yet.
Handed(q) == q.resp # NoAnswer /\ q.resp.sse /\ ~isRateLimited(q.resp)

\* What a request owes a verdict for.
Owed(q) == IF q.pc = "sent" \/ Handed(q) THEN {q.dep} ELSE {}

\* The chain a request has followed.
Chain(r, q) ==
    /\ q.pc # "idle" => q.path # <<>>
    /\ Len(q.path) <= FallbackMaxDepth + 1
    /\ IsFiniteSet(Visited(q)) /\ Cardinality(Visited(q)) = Len(q.path)
    /\ \A i \in DOMAIN q.path :
          q.path[i] \in Allowed[r] /\ (i > 1 => q.path[i] = Fallback[q.path[i - 1]])

\* The inductive invariant of the chains, and the one of the reservations.
ChainInv ==
    /\ DOMAIN req = Requests
    /\ \A r \in Requests : Local(req[r]) /\ Chain(r, req[r])

OwedInv ==
    /\ HopsDropNoStream
    /\ DOMAIN breakers = Deployments /\ DOMAIN held = Requests
    /\ \A r \in Requests : held[r] = Owed(req[r])

-----------------------------------------------------------------------------
(* The local state of a request, and the updates it undergoes.             *)

\* A request that is not under way.
LEMMA IdleLocal ==
    /\ Local(Idle) /\ Idle.pc = "idle" /\ Idle.path = <<>> /\ Owed(Idle) = {}
    /\ Idle.resp = NoAnswer
  <1>1. /\ DOMAIN Idle = {"pc", "path", "cands", "dep", "lastErr", "resp"}
        /\ Idle.pc = "idle" /\ Idle.path = <<>> /\ Idle.lastErr = "none"
        /\ Idle.resp = NoAnswer
    BY DEF Idle
  <1>2. <<>> \in Seq(Models)
    BY EmptySeq
  <1>3. Local(Idle)
    BY <1>1, <1>2 DEF Local
  <1> QED  BY <1>1, <1>3 DEF Owed, Handed

\* The next candidate leaves chain and results alone.
LEMMA NextCandidateLocal ==
    ASSUME NEW q, Local(q), q.pc = "sent" \/ q.pc = "try"
    PROVE  LET n == NextCandidate(q)
           IN  /\ DOMAIN n = DOMAIN q
               /\ n.pc \in {"try", "decide"} /\ n.path = q.path
               /\ n.lastErr = q.lastErr /\ n.resp = NoAnswer
  BY DEF NextCandidate, Local

\* Only the path counts for the chain of a request that is under way.
LEMMA SamePathChain ==
    ASSUME NEW r, NEW q, NEW n, Chain(r, q), q.pc # "idle", n.path = q.path
    PROVE  Chain(r, n)
  BY DEF Chain, Visited

\* A request that is not under way has followed no chain.
LEMMA IdleChain == ASSUME NEW r PROVE Chain(r, Idle)
  <1>1. Idle.pc = "idle" /\ Idle.path = <<>>
    BY IdleLocal
  <1>2. Len(<<>>) = 0 /\ DOMAIN <<>> = {} /\ Len(<<>>) <= FallbackMaxDepth + 1
    BY FailoverAssumption
  <1>3. Visited(Idle) = {}
    BY <1>1, <1>2 DEF Visited
  <1> QED  BY <1>1, <1>2, <1>3, FS_EmptySet DEF Chain

\* One request moves, and the others stay as they are.
LEMMA ChainUpdate ==
    ASSUME ChainInv, NEW r \in Requests, NEW q, req' = [req EXCEPT ![r] = q],
           Local(q), Chain(r, q)
    PROVE  ChainInv'
  <1>1. /\ DOMAIN req' = Requests /\ req'[r] = q
        /\ \A s \in Requests : s # r => req'[s] = req[s]
    BY DEF ChainInv
  <1> QED  BY <1>1 DEF ChainInv

\* One request moves and owes what it should.
LEMMA OwedUpdate ==
    ASSUME ChainInv, OwedInv, NEW r \in Requests, NEW q, req' = [req EXCEPT ![r] = q],
           DOMAIN breakers' = DOMAIN breakers, DOMAIN held' = DOMAIN held,
           held'[r] = Owed(q), \A s \in Requests : s # r => held'[s] = held[s]
    PROVE  OwedInv'
  <1>1. /\ req'[r] = q
        /\ \A s \in Requests : s # r => req'[s] = req[s]
    BY DEF ChainInv
  <1> QED  BY <1>1 DEF OwedInv, HopsDropNoStream

\* A verdict settles what the request owes, on the one breaker it is about.
LEMMA RecordSettles ==
    ASSUME OwedInv, NEW r \in Requests, NEW v, Record(r, v), Owed(req[r]) = {req[r].dep}
    PROVE  /\ held'[r] = {} /\ \A s \in Requests : s # r => held'[s] = held[s]
           /\ DOMAIN breakers' = DOMAIN breakers /\ DOMAIN held' = DOMAIN held
  <1>1. held[r] = {req[r].dep}
    BY DEF OwedInv
  <1>2. held' = [held EXCEPT ![r] = held[r] \ {req[r].dep}]
        /\ DOMAIN breakers' = DOMAIN breakers
    BY DEF Record
  <1> QED  BY <1>1, <1>2 DEF OwedInv

\* A request that moves without an unsettled stream owes nothing, unless it has
\* just been sent.
LEMMA NothingOwed ==
    ASSUME NEW q, q.pc # "sent", q.resp = NoAnswer \/ ~q.resp.sse \/ isRateLimited(q.resp)
    PROVE  Owed(q) = {}
  BY DEF Owed, Handed

-----------------------------------------------------------------------------
(* One lemma per action: both invariants are kept.                         *)

LEMMA ArriveInv ==
    ASSUME ChainInv, NEW r \in Requests, NEW m \in Models, Arrive(r, m)
    PROVE  ChainInv' /\ (OwedInv => OwedInv')
  <1> DEFINE q == [Idle EXCEPT !.pc = "pick", !.path = <<m>>]
  <1>1. /\ req[r].pc = "idle" /\ m \in Allowed[r] /\ req' = [req EXCEPT ![r] = q]
        /\ UNCHANGED <<breakers, held>>
    BY DEF Arrive
  <1>2. /\ DOMAIN q = DOMAIN Idle /\ q.pc = "pick" /\ q.path = <<m>>
        /\ q.lastErr = Idle.lastErr /\ q.resp = Idle.resp
    BY IdleLocal DEF Local
  <1> HIDE DEF q
  <1>3. <<m>> \in Seq(Models) /\ Len(<<m>>) = 1 /\ <<m>>[1] = m /\ DOMAIN <<m>> = {1}
    OBVIOUS
  <1>4. Local(q)
    BY <1>2, <1>3, IdleLocal DEF Local
  <1>5. Visited(q) = {m}
    BY <1>2, <1>3 DEF Visited
  <1>6. Chain(r, q)
    <2>1. IsFiniteSet({m}) /\ Cardinality({m}) = 1
      BY FS_Singleton
    <2>2. 1 <= FallbackMaxDepth + 1
      BY FailoverAssumption
    <2> QED  BY <1>1, <1>2, <1>3, <1>5, <2>1, <2>2 DEF Chain
  <1>7. ChainInv'
    BY <1>1, <1>4, <1>6, ChainUpdate
  <1>8. ASSUME OwedInv PROVE OwedInv'
    <2>1. Owed(q) = {} /\ Owed(req[r]) = {}
      BY <1>1, <1>2, IdleLocal, NothingOwed DEF ChainInv, Local
    <2>2. held'[r] = {}
      BY <1>1, <1>8, <2>1 DEF OwedInv
    <2> QED  BY <1>1, <1>8, <2>1, <2>2, OwedUpdate
  <1> QED  BY <1>7, <1>8

LEMMA PickInv ==
    ASSUME ChainInv, NEW r \in Requests, PickCandidates(r)
    PROVE  ChainInv' /\ (OwedInv => OwedInv')
  <1>1. PICK picked : req' = [req EXCEPT ![r] =
                                [@ EXCEPT !.pc = "try", !.cands = picked,
                                          !.dep = NoDeployment, !.lastErr = "none",
                                          !.resp = NoAnswer]]
    BY DEF PickCandidates
  <1>2. req[r].pc = "pick" /\ UNCHANGED <<breakers, held>>
    BY DEF PickCandidates
  <1> DEFINE q == [req[r] EXCEPT !.pc = "try", !.cands = picked, !.dep = NoDeployment,
                                 !.lastErr = "none", !.resp = NoAnswer]
  <1>3. req' = [req EXCEPT ![r] = q]
    BY <1>1
  <1>4. /\ DOMAIN q = DOMAIN req[r] /\ q.pc = "try" /\ q.path = req[r].path
        /\ q.lastErr = "none" /\ q.resp = NoAnswer
    BY DEF ChainInv, Local
  <1> HIDE DEF q
  <1>5. Local(q) /\ Chain(r, q)
    <2>1. Local(q)
      BY <1>4 DEF ChainInv, Local
    <2> QED  BY <1>2, <1>4, <2>1, SamePathChain DEF ChainInv
  <1>6. ChainInv'
    BY <1>3, <1>5, ChainUpdate
  <1>7. ASSUME OwedInv PROVE OwedInv'
    <2>1. Owed(q) = {} /\ Owed(req[r]) = {}
      BY <1>2, <1>4, NothingOwed DEF ChainInv, Local
    <2>2. held'[r] = {}
      BY <1>2, <1>7, <2>1 DEF OwedInv
    <2> QED  BY <1>2, <1>3, <1>7, <2>1, <2>2, OwedUpdate
  <1> QED  BY <1>6, <1>7

LEMMA AttemptInv ==
    ASSUME ChainInv, NEW r \in Requests, Attempt(r)
    PROVE  ChainInv' /\ (OwedInv => OwedInv')
  <1> DEFINE d == Head(req[r].cands)
             q == [req[r] EXCEPT !.pc = "sent", !.dep = d]
  <1>1. /\ req[r].pc = "try" /\ req' = [req EXCEPT ![r] = q]
        /\ held' = [held EXCEPT ![r] = held[r] \cup {d}]
        /\ DOMAIN breakers' = DOMAIN breakers
    BY DEF Attempt
  <1>2. /\ DOMAIN q = DOMAIN req[r] /\ q.pc = "sent" /\ q.path = req[r].path
        /\ q.lastErr = req[r].lastErr /\ q.resp = req[r].resp /\ q.dep = d
    BY DEF ChainInv, Local
  <1> HIDE DEF q, d
  <1>3. Local(q) /\ Chain(r, q)
    <2>1. Local(q)
      BY <1>1, <1>2 DEF ChainInv, Local
    <2> QED  BY <1>1, <1>2, <2>1, SamePathChain DEF ChainInv
  <1>4. ChainInv'
    BY <1>1, <1>3, ChainUpdate
  <1>5. ASSUME OwedInv PROVE OwedInv'
    <2>1. Owed(q) = {d} /\ Owed(req[r]) = {}
      BY <1>1, <1>2, NothingOwed DEF ChainInv, Local, Owed
    <2>2. /\ held'[r] = {d} /\ DOMAIN held' = DOMAIN held
          /\ \A s \in Requests : s # r => held'[s] = held[s]
      BY <1>1, <1>5, <2>1 DEF OwedInv
    <2> QED  BY <1>1, <1>5, <2>1, <2>2, OwedUpdate
  <1> QED  BY <1>4, <1>5

LEMMA RefusedInv ==
    ASSUME ChainInv, NEW r \in Requests, Refused(r)
    PROVE  ChainInv' /\ (OwedInv => OwedInv')
  <1> DEFINE q == NextCandidate(req[r])
  <1>1. /\ req[r].pc = "try" /\ req' = [req EXCEPT ![r] = q] /\ UNCHANGED <<breakers, held>>
    BY DEF Refused
  <1>2. Local(req[r]) /\ Chain(r, req[r])
    BY DEF ChainInv
  <1>3. /\ DOMAIN q = DOMAIN req[r] /\ q.pc \in {"try", "decide"} /\ q.path = req[r].path
        /\ q.lastErr = req[r].lastErr /\ q.resp = NoAnswer
    BY <1>1, <1>2, NextCandidateLocal
  <1> HIDE DEF q
  <1>4. Local(q) /\ Chain(r, q)
    <2>1. Local(q)
      BY <1>2, <1>3 DEF Local
    <2> QED  BY <1>1, <1>2, <1>3, <2>1, SamePathChain
  <1>5. ChainInv'
    BY <1>1, <1>4, ChainUpdate
  <1>6. ASSUME OwedInv PROVE OwedInv'
    <2>1. Owed(q) = {} /\ Owed(req[r]) = {}
      BY <1>1, <1>2, <1>3, NothingOwed DEF Local
    <2>2. held'[r] = {}
      BY <1>1, <1>6, <2>1 DEF OwedInv
    <2> QED  BY <1>1, <1>6, <2>1, <2>2, OwedUpdate
  <1> QED  BY <1>5, <1>6

LEMMA BuildFailsInv ==
    ASSUME ChainInv, NEW r \in Requests, BuildFails(r)
    PROVE  ChainInv' /\ (OwedInv => OwedInv')
  <1>1. req[r].pc = "sent" /\ Record(r, "neutral") /\ req' = [req EXCEPT ![r] = Idle]
    BY DEF BuildFails
  <1>2. ChainInv'
    BY <1>1, IdleLocal, IdleChain, ChainUpdate
  <1>3. ASSUME OwedInv PROVE OwedInv'
    <2>1. Owed(req[r]) = {req[r].dep}
      BY <1>1 DEF Owed
    <2> QED  BY <1>1, <1>3, <2>1, IdleLocal, RecordSettles, OwedUpdate
  <1> QED  BY <1>2, <1>3

\* A candidate that failed: the next one is tried with the error noted.
LEMMA MoveOnInv ==
    ASSUME ChainInv, NEW r \in Requests, req[r].pc = "sent", NEW e \in AllErrors,
           req' = [req EXCEPT ![r] = [NextCandidate(@) EXCEPT !.lastErr = e]],
           NEW v, Record(r, v)
    PROVE  ChainInv' /\ (OwedInv => OwedInv')
  <1> DEFINE n == NextCandidate(req[r])
             q == [n EXCEPT !.lastErr = e]
  <1>1. req' = [req EXCEPT ![r] = q]
    OBVIOUS
  <1>2. Local(req[r]) /\ Chain(r, req[r])
    BY DEF ChainInv
  <1>3. /\ DOMAIN n = DOMAIN req[r] /\ n.pc \in {"try", "decide"} /\ n.path = req[r].path
        /\ n.resp = NoAnswer
    BY <1>2, NextCandidateLocal
  <1> HIDE DEF n
  <1>4. /\ DOMAIN q = DOMAIN req[r] /\ q.pc \in {"try", "decide"} /\ q.path = req[r].path
        /\ q.lastErr = e /\ q.resp = NoAnswer
    BY <1>2, <1>3 DEF Local
  <1> HIDE DEF q
  <1>5. Local(q) /\ Chain(r, q)
    <2>1. Local(q)
      BY <1>2, <1>4 DEF Local
    <2> QED  BY <1>2, <1>4, <2>1, SamePathChain
  <1>6. ChainInv'
    BY <1>1, <1>5, ChainUpdate
  <1>7. ASSUME OwedInv PROVE OwedInv'
    <2>1. Owed(req[r]) = {req[r].dep} /\ Owed(q) = {}
      BY <1>4, NothingOwed DEF Owed
    <2> QED  BY <1>1, <1>7, <2>1, RecordSettles, OwedUpdate
  <1> QED  BY <1>6, <1>7

LEMMA FailuresInv ==
    ASSUME ChainInv, NEW r \in Requests,
           \/ \E e \in Errors : TransportFails(r, e)
           \/ \E a \in Answers : FailOver(r, a)
    PROVE  ChainInv' /\ (OwedInv => OwedInv')
  <1>1. ASSUME NEW e \in Errors, TransportFails(r, e)
        PROVE  ChainInv' /\ (OwedInv => OwedInv')
    <2>1. e \in AllErrors
      BY FailoverAssumption
    <2>2. /\ req[r].pc = "sent" /\ Record(r, "failure")
          /\ req' = [req EXCEPT ![r] = [NextCandidate(@) EXCEPT !.lastErr = e]]
      BY <1>1 DEF TransportFails
    <2> QED  BY <2>1, <2>2, MoveOnInv
  <1>2. ASSUME NEW a \in Answers, FailOver(r, a)
        PROVE  ChainInv' /\ (OwedInv => OwedInv')
    <2>1. "err" \in AllErrors
      BY DEF AllErrors
    <2>2. /\ req[r].pc = "sent" /\ (Record(r, "failure") \/ Record(r, "neutral"))
          /\ req' = [req EXCEPT ![r] = [NextCandidate(@) EXCEPT !.lastErr = "err"]]
      BY <1>2 DEF FailOver
    <2> QED  BY <2>1, <2>2, MoveOnInv
  <1> QED  BY <1>1, <1>2

LEMMA AcceptInv ==
    ASSUME ChainInv, NEW r \in Requests, NEW a \in Answers, Accept(r, a)
    PROVE  ChainInv' /\ (OwedInv => OwedInv')
  <1> DEFINE q == [req[r] EXCEPT !.pc = "decide", !.resp = a, !.cands = <<>>]
  <1>1. /\ req[r].pc = "sent" /\ req' = [req EXCEPT ![r] = q]
        /\ \/ \E v \in {"success", "failure", "neutral"} : Record(r, v)
           \/ NoVerdict /\ a.sse /\ ~isRateLimited(a)
        /\ a.sse /\ ~isRateLimited(a) => NoVerdict
    BY DEF Accept
  <1>2. /\ DOMAIN q = DOMAIN req[r] /\ q.pc = "decide" /\ q.path = req[r].path
        /\ q.lastErr = req[r].lastErr /\ q.resp = a /\ q.dep = req[r].dep
    BY DEF ChainInv, Local
  <1> HIDE DEF q
  <1>3. Local(q) /\ Chain(r, q)
    <2>1. Local(q)
      BY <1>1, <1>2 DEF ChainInv, Local
    <2> QED  BY <1>1, <1>2, <2>1, SamePathChain DEF ChainInv
  <1>4. ChainInv'
    BY <1>1, <1>3, ChainUpdate
  <1>5. ASSUME OwedInv PROVE OwedInv'
    <2>1. Owed(req[r]) = {req[r].dep}
      BY <1>1 DEF Owed
    <2>2. a # NoAnswer
      BY FailoverAssumption
    <2>3. CASE a.sse /\ ~isRateLimited(a)
      <3>1. Owed(q) = {req[r].dep}
        BY <1>2, <2>2, <2>3 DEF Owed, Handed
      <3>2. UNCHANGED <<breakers, held>>
        BY <1>1, <2>3 DEF NoVerdict
      <3> QED  BY <1>1, <1>5, <2>1, <3>1, <3>2, OwedUpdate DEF OwedInv
    <2>4. CASE ~(a.sse /\ ~isRateLimited(a))
      <3>1. Owed(q) = {}
        BY <1>2, <2>4, NothingOwed
      <3>2. PICK v \in {"success", "failure", "neutral"} : Record(r, v)
        BY <1>1, <2>4
      <3> QED  BY <1>1, <1>5, <2>1, <3>1, <3>2, RecordSettles, OwedUpdate
    <2> QED  BY <2>3, <2>4
  <1> QED  BY <1>4, <1>5

\* The chain grows by a model it has not visited, and the answer that Hop drops
\* owes nothing.
LEMMA HopInv ==
    ASSUME ChainInv, NEW r \in Requests, Hop(r)
    PROVE  ChainInv' /\ (OwedInv => OwedInv')
  <1> DEFINE next == Fallback[CurrentModel(req[r])]
             q == [req[r] EXCEPT !.pc = "pick", !.resp = NoAnswer, !.dep = NoDeployment,
                                 !.path = Append(req[r].path, next)]
  <1>1. /\ req[r].pc = "decide" /\ MayHop(r) /\ req' = [req EXCEPT ![r] = q]
        /\ UNCHANGED <<breakers, held>>
    BY DEF Hop
  <1>2. Local(req[r]) /\ Chain(r, req[r])
    BY DEF ChainInv
  <1>3. /\ DOMAIN q = DOMAIN req[r] /\ q.pc = "pick" /\ q.path = Append(req[r].path, next)
        /\ q.lastErr = req[r].lastErr /\ q.resp = NoAnswer
    BY <1>2 DEF Local
  <1>4. /\ next # NoModel /\ next \notin Visited(req[r]) /\ next \in Allowed[r]
        /\ Len(req[r].path) - 1 < FallbackMaxDepth
    BY <1>1 DEF MayHop, HasFallback, Depth
  <1> DEFINE p == req[r].path
  <1>5. /\ p \in Seq(Models) /\ p # <<>> /\ Len(p) \in Nat \ {0} /\ DOMAIN p = 1..Len(p)
    BY <1>1, <1>2, EmptySeq, LenProperties DEF Local, Chain
  <1>6. next = Fallback[p[Len(p)]] /\ p[Len(p)] \in Models
    <2>1. Len(p) \in 1..Len(p)
      BY <1>5
    <2> QED  BY <1>5, <2>1, ElementOfSeq DEF CurrentModel
  <1>7. next \in Models
    BY <1>4, <1>6, FailoverAssumption
  <1>8. next \notin {p[i] : i \in DOMAIN p}
    BY <1>4 DEF Visited
  <1> HIDE DEF q, next
  <1>9. /\ Append(p, next) \in Seq(Models) /\ Append(p, next) # <<>>
        /\ Len(Append(p, next)) = Len(p) + 1
        /\ DOMAIN Append(p, next) = 1..(Len(p) + 1)
        /\ \A i \in 1..Len(p) : Append(p, next)[i] = p[i]
        /\ Append(p, next)[Len(p) + 1] = next
    BY <1>5, <1>7, AppendProperties, LenProperties
  <1>10. Local(q)
    BY <1>2, <1>3, <1>9 DEF Local
  <1>11. Chain(r, q)
    <2>1. Visited(q) = Visited(req[r]) \cup {next}
      BY <1>3, <1>5, <1>9 DEF Visited
    <2>2. /\ IsFiniteSet(Visited(req[r])) /\ Cardinality(Visited(req[r])) = Len(p)
      BY <1>2 DEF Chain
    <2>3. IsFiniteSet(Visited(q)) /\ Cardinality(Visited(q)) = Len(p) + 1
      BY <1>4, <2>1, <2>2, FS_AddElement
    <2>4. Len(p) + 1 <= FallbackMaxDepth + 1
      BY <1>4, <1>5, FailoverAssumption
    <2>5. ASSUME NEW i \in 1..(Len(p) + 1)
          PROVE  /\ q.path[i] \in Allowed[r]
                 /\ i > 1 => q.path[i] = Fallback[q.path[i - 1]]
      <3>1. \A j \in 1..Len(p) : p[j] \in Allowed[r] /\ (j > 1 => p[j] = Fallback[p[j - 1]])
        BY <1>2, <1>5 DEF Chain
      <3>2. CASE i \in 1..Len(p)
        <4>1. i > 1 => i - 1 \in 1..Len(p)
          BY <1>5, <3>2
        <4> QED  BY <1>3, <1>9, <3>1, <3>2, <4>1
      <3>3. CASE i = Len(p) + 1
        <4>1. i - 1 \in 1..Len(p) /\ i - 1 = Len(p)
          BY <1>5, <3>3
        <4> QED  BY <1>3, <1>4, <1>6, <1>9, <3>3, <4>1
      <3> QED  BY <1>5, <3>2, <3>3
    <2> QED  BY <1>3, <1>9, <2>3, <2>4, <2>5 DEF Chain
  <1>12. ChainInv'
    BY <1>1, <1>10, <1>11, ChainUpdate
  <1>13. ASSUME OwedInv PROVE OwedInv'
    <2>1. Owed(q) = {}
      BY <1>3, NothingOwed
    <2>2. Owed(req[r]) = {}
      <3>1. FallbackMaxDepth # 0
        BY <1>4, <1>5
      <3>2. \A a \in Answers : a.sse => a.status \in {"ok", "limited"}
        BY <1>13, <3>1 DEF OwedInv, HopsDropNoStream
      <3>3. req[r].resp # NoAnswer => req[r].resp.status \in {"retryable", "server", "limited"}
        BY <1>1 DEF MayHop, isFallbackEligible
      <3>4. req[r].resp \in Answers \cup {NoAnswer}
        BY <1>2 DEF Local
      <3> QED  BY <1>1, <3>2, <3>3, <3>4 DEF Owed, Handed, isRateLimited
    <2>3. held'[r] = {}
      BY <1>1, <1>13, <2>2 DEF OwedInv
    <2> QED  BY <1>1, <1>13, <2>1, <2>3, OwedUpdate
  <1> QED  BY <1>12, <1>13

LEMMA EndChainInv ==
    ASSUME ChainInv, NEW r \in Requests, EndChain(r)
    PROVE  ChainInv' /\ (OwedInv => OwedInv')
  <1>1. req[r].pc = "decide" /\ UNCHANGED <<breakers, held>>
    BY DEF EndChain
  <1>2. CASE req[r].resp # NoAnswer /\ req[r].resp.sse
    <2> DEFINE q == [req[r] EXCEPT !.pc = "stream"]
    <2>1. req' = [req EXCEPT ![r] = q]
      BY <1>2 DEF EndChain
    <2>2. /\ DOMAIN q = DOMAIN req[r] /\ q.pc = "stream" /\ q.path = req[r].path
          /\ q.lastErr = req[r].lastErr /\ q.resp = req[r].resp /\ q.dep = req[r].dep
      BY DEF ChainInv, Local
    <2> HIDE DEF q
    <2>3. Local(q) /\ Chain(r, q)
      <3>1. Local(q)
        BY <1>2, <2>2 DEF ChainInv, Local
      <3> QED  BY <1>1, <2>2, <3>1, SamePathChain DEF ChainInv
    <2>4. ChainInv'
      BY <2>1, <2>3, ChainUpdate
    <2>5. ASSUME OwedInv PROVE OwedInv'
      <3>1. Owed(q) = Owed(req[r])
        BY <1>1, <2>2 DEF Owed, Handed
      <3>2. held'[r] = Owed(q)
        BY <1>1, <2>5, <3>1 DEF OwedInv
      <3> QED  BY <1>1, <2>1, <2>5, <3>2, OwedUpdate
    <2> QED  BY <2>4, <2>5
  <1>3. CASE ~(req[r].resp # NoAnswer /\ req[r].resp.sse)
    <2>1. req' = [req EXCEPT ![r] = Idle]
      BY <1>3 DEF EndChain
    <2>2. ChainInv'
      BY <2>1, IdleLocal, IdleChain, ChainUpdate
    <2>3. ASSUME OwedInv PROVE OwedInv'
      <3>1. Owed(req[r]) = {}
        BY <1>1, <1>3 DEF Owed, Handed
      <3>2. held'[r] = Owed(Idle)
        BY <1>1, <2>3, <3>1, IdleLocal DEF OwedInv
      <3> QED  BY <1>1, <2>1, <2>3, <3>2, OwedUpdate
    <2> QED  BY <2>2, <2>3
  <1> QED  BY <1>2, <1>3

LEMMA StreamEndsInv ==
    ASSUME ChainInv, NEW r \in Requests, NEW v, StreamEnds(r, v)
    PROVE  ChainInv' /\ (OwedInv => OwedInv')
  <1>1. req[r].pc = "stream" /\ req' = [req EXCEPT ![r] = Idle]
    BY DEF StreamEnds
  <1>2. ChainInv'
    BY <1>1, IdleLocal, IdleChain, ChainUpdate
  <1>3. ASSUME OwedInv PROVE OwedInv'
    <2>1. req[r].resp # NoAnswer /\ req[r].resp.sse
      BY <1>1 DEF ChainInv, Local
    <2>2. CASE isRateLimited(req[r].resp)
      <3>1. Owed(req[r]) = {} /\ UNCHANGED <<breakers, held>>
        BY <1>1, <2>2 DEF StreamEnds, NoVerdict, Owed, Handed
      <3>2. held'[r] = Owed(Idle)
        BY <1>3, <3>1, IdleLocal DEF OwedInv
      <3> QED  BY <1>1, <1>3, <3>1, <3>2, OwedUpdate
    <2>3. CASE ~isRateLimited(req[r].resp)
      <3>1. Owed(req[r]) = {req[r].dep} /\ Record(r, v)
        BY <1>1, <2>1, <2>3 DEF StreamEnds, Owed, Handed
      <3> QED  BY <1>1, <1>3, <3>1, IdleLocal, RecordSettles, OwedUpdate
    <2> QED  BY <2>2, <2>3
  <1> QED  BY <1>2, <1>3

\* Time passes, or nothing happens.
LEMMA TimeInv ==
    ASSUME ChainInv, UNCHANGED <<req, held>>, DOMAIN breakers' = DOMAIN breakers
    PROVE  ChainInv' /\ (OwedInv => OwedInv')
  BY DEF ChainInv, OwedInv, HopsDropNoStream

-----------------------------------------------------------------------------
\* No request is under way in the beginning.
LEMMA FailoverInitInv == Init => ChainInv /\ (HopsDropNoStream => OwedInv)
  <1> SUFFICES ASSUME Init PROVE ChainInv /\ (HopsDropNoStream => OwedInv)
    OBVIOUS
  <1>1. /\ DOMAIN req = Requests /\ \A r \in Requests : req[r] = Idle
        /\ DOMAIN held = Requests /\ \A r \in Requests : held[r] = {}
        /\ DOMAIN breakers = Deployments
    BY DEF Init
  <1>2. ChainInv
    BY <1>1, IdleLocal, IdleChain DEF ChainInv
  <1>3. HopsDropNoStream => OwedInv
    BY <1>1, IdleLocal DEF OwedInv
  <1> QED  BY <1>2, <1>3

\* Every step keeps both invariants.
LEMMA FailoverStepInv ==
    ASSUME ChainInv, [Next]_vars
    PROVE  ChainInv' /\ (OwedInv => OwedInv')
  <1>1. ASSUME NEW r \in Requests, NEW m \in Models, Arrive(r, m)
        PROVE  ChainInv' /\ (OwedInv => OwedInv')
    BY <1>1, ArriveInv
  <1>2. ASSUME NEW r \in Requests, Step(r)
        PROVE  ChainInv' /\ (OwedInv => OwedInv')
    <2>1. CASE PickCandidates(r)
      BY <2>1, PickInv
    <2>2. CASE Attempt(r)
      BY <2>2, AttemptInv
    <2>3. CASE Refused(r)
      BY <2>3, RefusedInv
    <2>4. CASE BuildFails(r)
      BY <2>4, BuildFailsInv
    <2>5. CASE (\E e \in Errors : TransportFails(r, e)) \/ \E a \in Answers : FailOver(r, a)
      BY <2>5, FailuresInv
    <2>6. CASE \E a \in Answers : Accept(r, a)
      BY <2>6, AcceptInv
    <2>7. CASE Hop(r)
      BY <2>7, HopInv
    <2>8. CASE Stop(r) \/ RewriteFails(r)
      BY <2>8, EndChainInv DEF Stop, RewriteFails
    <2>9. CASE \E v \in {"success", "failure", "neutral"} : StreamEnds(r, v)
      BY <2>9, StreamEndsInv
    <2> QED
      BY <1>2, <2>1, <2>2, <2>3, <2>4, <2>5, <2>6, <2>7, <2>8, <2>9 DEF Step
  <1>3. ASSUME NEW d \in Deployments, RecoveryElapses(d) \/ CooldownExpires(d)
        PROVE  ChainInv' /\ (OwedInv => OwedInv')
    <2>1. UNCHANGED <<req, held>> /\ DOMAIN breakers' = DOMAIN breakers
      BY <1>3 DEF RecoveryElapses, CooldownExpires
    <2> QED  BY <2>1, TimeInv
  <1>4. CASE UNCHANGED vars
    BY <1>4, TimeInv DEF vars
  <1> QED  BY <1>1, <1>2, <1>3, <1>4 DEF Next

\* A fallback chain of Handle follows the configured links, enters no model
\* twice, keeps to the configured depth and to the models the key may use.
THEOREM ChainsAreSound == Spec => []ChainIsSound
  <1>1. Init => ChainInv
    BY FailoverInitInv
  <1>2. ChainInv /\ [Next]_vars => ChainInv'
    BY FailoverStepInv
  <1>3. ChainInv => ChainIsSound
    BY DEF ChainInv, Chain, ChainIsSound
  <1> QED  BY <1>1, <1>2, <1>3, PTL DEF Spec

\* Both invariants hold throughout, where no stream is dropped by a hop.
LEMMA FailoverInvariance == HopsDropNoStream => (Spec => [](ChainInv /\ OwedInv))
  <1>1. HopsDropNoStream /\ Init => ChainInv /\ OwedInv
    BY FailoverInitInv
  <1>2. ChainInv /\ OwedInv /\ [Next]_vars => (ChainInv /\ OwedInv)'
    BY FailoverStepInv
  <1> QED  BY <1>1, <1>2, PTL DEF Spec

\* What tryModel and handleStreamingResponse owe the breakers is settled at
\* every point where Allow's documentation demands it, and the chains are
\* sound, for any number of requests.
THEOREM HopsAreAlwaysSound == HopsDropNoStream => (Spec => []HopsAreSound)
  <1>1. ASSUME ChainInv, OwedInv PROVE HopsAreSound
    <2>1. ChainIsSound
      BY <1>1 DEF ChainInv, Chain, ChainIsSound
    <2>2. ASSUME NEW r \in Requests
          PROVE  /\ held[r] \subseteq {req[r].dep}
                 /\ req[r].pc \in {"idle", "pick", "try"} => held[r] = {}
      <3>1. held[r] = Owed(req[r]) /\ Local(req[r])
        BY <1>1 DEF ChainInv, OwedInv
      <3> QED  BY <3>1 DEF Owed, Handed, Local
    <2> QED  BY <2>1, <2>2 DEF HopsAreSound, ReservationsSettled
  <1> QED  BY <1>1, FailoverInvariance, PTL

\* The loop of Handle ends with an error only if the chain has nothing left to
\* offer, but for a context error, a refusal by all breakers, or a body that
\* cannot be rewritten.
THEOREM GivesUpAtTheEnd == Spec => GivesUpOnlyAtTheEnd
  <1>1. ChainInv => StopsAtTheEnd
    <2> SUFFICES ASSUME ChainInv, NEW r \in Requests, Stop(r),
                        req[r].lastErr \notin {"canceled", "timeout"},
                        req[r].lastErr = "none" => req[r].resp # NoAnswer,
                        req[r].resp # NoAnswer => req[r].resp.status # "ok",
                        HasFallback(req[r]), Depth(req[r]) # FallbackMaxDepth,
                        Fallback[CurrentModel(req[r])] \in Allowed[r]
                 PROVE  FALSE
      BY DEF StopsAtTheEnd
    <2>1. Local(req[r]) /\ Chain(r, req[r]) /\ ~MayHop(r)
      BY DEF ChainInv, Stop
    <2>2. Depth(req[r]) < FallbackMaxDepth
      <3>1. Len(req[r].path) \in Nat
        BY <2>1, LenProperties DEF Local
      <3> QED  BY <2>1, <3>1, FailoverAssumption DEF Chain, Depth
    <2>3. req[r].resp # NoAnswer => req[r].resp.status \in {"retryable", "server", "limited"}
      BY <2>1, FailoverAssumption DEF Local, AllAnswers
    <2>4. /\ isFallbackEligible(req[r].resp, req[r].lastErr)
          /\ req[r].resp # NoAnswer => isFallbackEligible(req[r].resp, "none")
      BY <2>3 DEF isFallbackEligible
    <2> QED  BY <2>1, <2>2, <2>4 DEF MayHop
  <1>2. Init => ChainInv
    BY FailoverInitInv
  <1>3. ChainInv /\ [Next]_vars => ChainInv'
    BY FailoverStepInv
  <1> QED  BY <1>1, <1>2, <1>3, PTL DEF Spec, GivesUpOnlyAtTheEnd

-----------------------------------------------------------------------------
(* The refinement: per deployment, the requests are callers of its breaker *)
(* that keep the contract.                                                 *)

\* The callers whose verdict on d is outstanding.
Reserved(d) == {r \in Requests : d \in held[r]}

\* The contract's breaker has the methods of Breaker.
LEMMA ContractMethods ==
    ASSUME NEW d, NEW b
    PROVE  /\ Contract(d)!RecordSuccess(b) = RecordSuccess(b)
           /\ Contract(d)!RecordFailure(b) = RecordFailure(b)
           /\ Contract(d)!RecordNeutral(b) = RecordNeutral(b)
           /\ Contract(d)!Allow(b) = Allow(b)
           /\ Contract(d)!TimeoutElapses(b) = TimeoutElapses(b)
           /\ Contract(d)!Admits(b) <=> Admits(b)
           /\ Contract(d)!NewBreaker = NewBreaker
  <1>1. \A n : Contract(d)!Release(n) = Release(n)
    BY DEF Contract!Release, Release
  <1>2. Contract(d)!RecordSuccess(b) = RecordSuccess(b)
    BY <1>1, Zenon DEF Contract!RecordSuccess, RecordSuccess
  <1>3. Contract(d)!RecordFailure(b) = RecordFailure(b)
    BY <1>1, Zenon DEF Contract!RecordFailure, RecordFailure
  <1>4. Contract(d)!RecordNeutral(b) = RecordNeutral(b)
    BY <1>1, Zenon DEF Contract!RecordNeutral, RecordNeutral
  <1>5. Contract(d)!Allow(b) = Allow(b)
    BY Zenon DEF Contract!Allow, Allow
  <1>6. Contract(d)!TimeoutElapses(b) = TimeoutElapses(b)
    BY Zenon DEF Contract!TimeoutElapses, TimeoutElapses
  <1>7. Contract(d)!Admits(b) <=> Admits(b)
    BY Zenon DEF Contract!Admits, Admits
  <1>8. Contract(d)!NewBreaker = NewBreaker
    BY Zenon DEF Contract!NewBreaker, NewBreaker
  <1> QED  BY <1>2, <1>3, <1>4, <1>5, <1>6, <1>7, <1>8

\* One caller's reservation on one breaker is resolved by a verdict.
LEMMA RecordKeepsContract ==
    ASSUME ChainInv, OwedInv, NEW r \in Requests, NEW v \in {"success", "failure", "neutral"},
           Record(r, v), Owed(req[r]) = {req[r].dep}, NEW d \in Deployments
    PROVE  [Contract(d)!ContractNext]_(Contract(d)!contractVars)
  <1>1. /\ held[r] = {req[r].dep} /\ held'[r] = {}
        /\ \A s \in Requests : s # r => held'[s] = held[s]
    BY RecordSettles DEF OwedInv
  <1>2. CASE d = req[r].dep
    <2>1. r \in Reserved(d) /\ Reserved(d)' = Reserved(d) \ {r}
      BY <1>1, <1>2 DEF Reserved
    <2>2. breakers'[d] = Verdict(breakers[d], v)
      BY <1>2 DEF Record, OwedInv
    <2>3. CASE v = "success"
      <3>1. Contract(d)!ReportSuccess(r)
        BY <2>1, <2>2, <2>3, ContractMethods
        DEF Verdict, Contract!ReportSuccess, Contract!Resolve, Reserved
      <3> QED  BY <3>1 DEF Contract!ContractNext
    <2>4. CASE v = "failure"
      <3>1. Contract(d)!ReportFailure(r)
        BY <2>1, <2>2, <2>4, ContractMethods
        DEF Verdict, Contract!ReportFailure, Contract!Resolve, Reserved
      <3> QED  BY <3>1 DEF Contract!ContractNext
    <2>5. CASE v = "neutral"
      <3>1. Contract(d)!ReportNeutral(r)
        BY <2>1, <2>2, <2>5, ContractMethods
        DEF Verdict, Contract!ReportNeutral, Contract!Resolve, Reserved
      <3> QED  BY <3>1 DEF Contract!ContractNext
    <2> QED  BY <2>3, <2>4, <2>5
  <1>3. CASE d # req[r].dep
    <2>1. Reserved(d)' = Reserved(d)
      BY <1>1, <1>3 DEF Reserved
    <2>2. breakers'[d] = breakers[d]
      BY <1>3 DEF Record, OwedInv
    <2> QED  BY <2>1, <2>2 DEF Contract!contractVars, Reserved
  <1> QED  BY <1>2, <1>3

\* One caller is admitted by one breaker.
LEMMA AttemptKeepsContract ==
    ASSUME ChainInv, OwedInv, NEW r \in Requests, Attempt(r), NEW d \in Deployments
    PROVE  [Contract(d)!ContractNext]_(Contract(d)!contractVars)
  <1> DEFINE h == Head(req[r].cands)
  <1>1. /\ req[r].pc = "try" /\ Admits(breakers[h])
        /\ breakers' = [breakers EXCEPT ![h] = Allow(breakers[h])]
        /\ held' = [held EXCEPT ![r] = held[r] \cup {h}]
    BY DEF Attempt
  <1>2. held[r] = {}
    <2>1. Owed(req[r]) = {}
      BY <1>1, NothingOwed DEF ChainInv, Local
    <2> QED  BY <2>1 DEF OwedInv
  <1>3. held'[r] = {h} /\ \A s \in Requests : s # r => held'[s] = held[s]
    BY <1>1, <1>2 DEF OwedInv
  <1> HIDE DEF h
  <1>4. CASE d = h
    <2>1. r \notin Reserved(d) /\ Reserved(d)' = Reserved(d) \cup {r}
      BY <1>2, <1>3, <1>4 DEF Reserved
    <2>2. breakers'[d] = Allow(breakers[d]) /\ Admits(breakers[d])
      BY <1>1, <1>4 DEF OwedInv
    <2>3. Contract(d)!Reserve(r)
      BY <2>1, <2>2, ContractMethods DEF Contract!Reserve, Reserved
    <2> QED  BY <2>3 DEF Contract!ContractNext
  <1>5. CASE d # h
    <2>1. Reserved(d)' = Reserved(d)
      BY <1>2, <1>3, <1>5 DEF Reserved
    <2>2. breakers'[d] = breakers[d]
      BY <1>1, <1>5 DEF OwedInv
    <2> QED  BY <2>1, <2>2 DEF Contract!contractVars, Reserved
  <1> QED  BY <1>4, <1>5

\* The recovery timeout of one breaker passes.
LEMMA ElapseKeepsContract ==
    ASSUME OwedInv, NEW e \in Deployments, RecoveryElapses(e), NEW d \in Deployments
    PROVE  [Contract(d)!ContractNext]_(Contract(d)!contractVars)
  <1>1. /\ breakers[e].state = "open" /\ ~breakers[e].elapsed
        /\ breakers' = [breakers EXCEPT ![e] = TimeoutElapses(breakers[e])]
        /\ Reserved(d)' = Reserved(d)
    BY DEF RecoveryElapses, Reserved
  <1>2. CASE d = e
    <2>1. breakers'[d] = TimeoutElapses(breakers[d])
      BY <1>1, <1>2 DEF OwedInv
    <2>2. Contract(d)!Elapse
      BY <1>1, <1>2, <2>1, ContractMethods DEF Contract!Elapse, Reserved
    <2> QED  BY <2>2 DEF Contract!ContractNext
  <1>3. CASE d # e
    <2>1. breakers'[d] = breakers[d]
      BY <1>1, <1>3 DEF OwedInv
    <2> QED  BY <1>1, <2>1 DEF Contract!contractVars, Reserved
  <1> QED  BY <1>2, <1>3

\* A step that touches no breaker and no reservation.
LEMMA SameKeepsContract ==
    ASSUME UNCHANGED <<breakers, held>>, NEW d
    PROVE  [Contract(d)!ContractNext]_(Contract(d)!contractVars)
  BY DEF Contract!contractVars

\* Every step of every request is a step of the contract, or none, for each
\* breaker.
LEMMA StepKeepsContract ==
    ASSUME ChainInv, OwedInv, [Next]_vars
    PROVE  ContractSteps
  <1> SUFFICES ASSUME NEW d \in Deployments
               PROVE  [Contract(d)!ContractNext]_(Contract(d)!contractVars)
    BY DEF ContractSteps
  <1>1. ASSUME NEW r \in Requests, Step(r)
        PROVE  [Contract(d)!ContractNext]_(Contract(d)!contractVars)
    <2>1. ASSUME req[r].pc = "sent", NEW v \in {"success", "failure", "neutral"}, Record(r, v)
          PROVE  [Contract(d)!ContractNext]_(Contract(d)!contractVars)
      <3>1. Owed(req[r]) = {req[r].dep}
        BY <2>1 DEF Owed
      <3> QED  BY <2>1, <3>1, RecordKeepsContract
    <2>2. CASE Attempt(r)
      BY <2>2, AttemptKeepsContract
    <2>3. CASE PickCandidates(r) \/ Refused(r) \/ Hop(r) \/ Stop(r) \/ RewriteFails(r)
      <3>1. UNCHANGED <<breakers, held>>
        BY <2>3 DEF PickCandidates, Refused, Hop, Stop, RewriteFails, EndChain
      <3> QED  BY <3>1, SameKeepsContract
    <2>4. CASE BuildFails(r)
      BY <2>1, <2>4 DEF BuildFails
    <2>5. ASSUME NEW e \in Errors, TransportFails(r, e)
          PROVE  [Contract(d)!ContractNext]_(Contract(d)!contractVars)
      BY <2>1, <2>5 DEF TransportFails
    <2>6. ASSUME NEW a \in Answers, FailOver(r, a)
          PROVE  [Contract(d)!ContractNext]_(Contract(d)!contractVars)
      <3>1. req[r].pc = "sent" /\ (Record(r, "failure") \/ Record(r, "neutral"))
        BY <2>6 DEF FailOver
      <3> QED  BY <2>1, <3>1
    <2>7. ASSUME NEW a \in Answers, Accept(r, a)
          PROVE  [Contract(d)!ContractNext]_(Contract(d)!contractVars)
      <3>1. /\ req[r].pc = "sent"
            /\ \/ \E v \in {"success", "failure", "neutral"} : Record(r, v)
               \/ UNCHANGED <<breakers, held>>
        BY <2>7 DEF Accept, NoVerdict
      <3> QED  BY <2>1, <3>1, SameKeepsContract
    <2>8. ASSUME NEW v \in {"success", "failure", "neutral"}, StreamEnds(r, v)
          PROVE  [Contract(d)!ContractNext]_(Contract(d)!contractVars)
      <3>1. CASE isRateLimited(req[r].resp)
        <4>1. UNCHANGED <<breakers, held>>
          BY <2>8, <3>1 DEF StreamEnds, NoVerdict
        <4> QED  BY <4>1, SameKeepsContract
      <3>2. CASE ~isRateLimited(req[r].resp)
        <4>1. Record(r, v) /\ req[r].pc = "stream"
          BY <2>8, <3>2 DEF StreamEnds
        <4>2. Owed(req[r]) = {req[r].dep}
          BY <3>2, <4>1 DEF ChainInv, Local, Owed, Handed
        <4> QED  BY <4>1, <4>2, RecordKeepsContract
      <3> QED  BY <3>1, <3>2
    <2> QED
      BY <1>1, <2>2, <2>3, <2>4, <2>5, <2>6, <2>7, <2>8 DEF Step
  <1>2. ASSUME NEW r \in Requests, NEW m \in Models, Arrive(r, m)
        PROVE  [Contract(d)!ContractNext]_(Contract(d)!contractVars)
    BY <1>2, SameKeepsContract DEF Arrive
  <1>3. ASSUME NEW e \in Deployments, RecoveryElapses(e)
        PROVE  [Contract(d)!ContractNext]_(Contract(d)!contractVars)
    BY <1>3, ElapseKeepsContract
  <1>4. ASSUME NEW e \in Deployments, CooldownExpires(e)
        PROVE  [Contract(d)!ContractNext]_(Contract(d)!contractVars)
    BY <1>4, SameKeepsContract DEF CooldownExpires
  <1>5. CASE UNCHANGED vars
    BY <1>5, SameKeepsContract DEF vars
  <1> QED  BY <1>1, <1>2, <1>3, <1>4, <1>5 DEF Next

\* Refinement: the requests of the proxy are callers that keep the contract of
\* each circuit breaker, so what module CircuitBreaker proves of such callers
\* holds for every breaker of the running proxy.
THEOREM ContractIsKept == HopsDropNoStream => (Spec => KeepsContract)
  <1>1. Init => \A d \in Deployments : Contract(d)!ContractInit
    <2> SUFFICES ASSUME Init, NEW d \in Deployments PROVE Contract(d)!ContractInit
      OBVIOUS
    <2>1. breakers[d] = NewBreaker /\ {r \in Requests : d \in held[r]} = {}
      BY DEF Init
    <2> QED  BY <2>1, ContractMethods DEF Contract!ContractInit
  <1>2. ChainInv /\ OwedInv /\ [Next]_vars => [ContractSteps]_vars
    BY StepKeepsContract
  <1> QED  BY <1>1, <1>2, FailoverInvariance, PTL DEF Spec, KeepsContract

-----------------------------------------------------------------------------
(* The access lists, for any instances, handlers and items.                *)

Levels == {"org", "team", "key"}
Tasks == [node : Instances \cup {"none"}, scope : Levels \cup {"none"}, items : SUBSET Items]

\* Only items that passed the handlers' validation reach the tables, and so
\* every snapshot a reload has read and every cache, however late it swaps.
ListsInv ==
    /\ kind \in {"model", "mcp", "alias"}
    /\ tables \in [Levels -> SUBSET Known]
    /\ caches \in [Instances -> [Levels -> SUBSET Known]]
    /\ got \in [Actors -> Seq(SUBSET Known)]
    /\ phase \in [Actors -> {"idle", "write", "read", "publish"}]
    /\ arg \in [Handlers -> Tasks]
    /\ \A r \in Handlers : phase[r] = "write" => arg[r].scope \in Levels /\ arg[r].items \subseteq Known

LEMMA LevelsOfNothing == Nothing \in [Levels -> SUBSET Known] /\ DOMAIN Nothing = Levels
  BY DEF Nothing, Levels

LEMMA HandlersAct == Handlers \subseteq Actors
  BY DEF Actors

LEMMA AccessInitInv == AccessInit => ListsInv
  <1> SUFFICES ASSUME AccessInit PROVE ListsInv
    OBVIOUS
  <1>1. NoRequest \in Tasks
    BY DEF NoRequest, Tasks
  <1>2. <<>> \in Seq(SUBSET Known)
    OBVIOUS
  <1> QED  BY <1>1, <1>2, LevelsOfNothing, HandlersAct DEF AccessInit, ListsInv

\* A handler that passed its checks.
LEMMA BeginKeeps ==
  ASSUME ListsInv, NEW r \in Handlers, NEW n \in Instances, NEW scope \in Levels,
         NEW items \in SUBSET Items, items \subseteq Known, BeginChange(r, n, scope, items)
  PROVE  ListsInv'
  <1> DEFINE task == [node |-> n, scope |-> scope, items |-> items]
  <1>1. task \in Tasks
    BY DEF Tasks
  <1>2. /\ phase' = [phase EXCEPT ![r] = "write"] /\ arg' = [arg EXCEPT ![r] = task]
        /\ UNCHANGED <<kind, tables, caches, got>>
    BY DEF BeginChange
  <1>3. phase' \in [Actors -> {"idle", "write", "read", "publish"}] /\ arg' \in [Handlers -> Tasks]
    BY <1>1, <1>2, HandlersAct DEF ListsInv
  <1>4. ASSUME NEW s \in Handlers, phase'[s] = "write"
        PROVE  arg'[s].scope \in Levels /\ arg'[s].items \subseteq Known
    <2>1. CASE s = r
      BY <1>2, <2>1 DEF ListsInv
    <2>2. CASE s # r
      <3>1. phase[s] = "write" /\ arg'[s] = arg[s]
        BY <1>2, <1>4, <2>2, HandlersAct DEF ListsInv
      <3> QED  BY <3>1 DEF ListsInv
    <2> QED  BY <2>1, <2>2
  <1> QED  BY <1>2, <1>3, <1>4 DEF ListsInv

\* An actor goes on to a stage that writes nothing; a handler may forget its
\* request.
LEMMA GoOnKeeps ==
  ASSUME ListsInv, NEW a \in Actors, NEW next \in {"idle", "read", "publish"},
         phase' = [phase EXCEPT ![a] = next], arg' \in [Handlers -> Tasks],
         \A s \in Handlers : s # a => arg'[s] = arg[s], kind' = kind,
         tables' \in [Levels -> SUBSET Known], caches' \in [Instances -> [Levels -> SUBSET Known]],
         got' \in [Actors -> Seq(SUBSET Known)]
  PROVE  ListsInv'
  <1>1. phase' \in [Actors -> {"idle", "write", "read", "publish"}]
    BY DEF ListsInv
  <1>2. ASSUME NEW s \in Handlers, phase'[s] = "write"
        PROVE  arg'[s].scope \in Levels /\ arg'[s].items \subseteq Known
    <2>1. s # a /\ phase[s] = "write"
      BY <1>2, HandlersAct DEF ListsInv
    <2> QED  BY <2>1 DEF ListsInv
  <1> QED  BY <1>1, <1>2 DEF ListsInv

LEMMA ForgetKeeps ==
  ASSUME ListsInv, NEW r \in Handlers, arg' = [arg EXCEPT ![r] = NoRequest]
  PROVE  arg' \in [Handlers -> Tasks] /\ \A s \in Handlers : s # r => arg'[s] = arg[s]
  <1>1. NoRequest \in Tasks
    BY DEF NoRequest, Tasks
  <1> QED  BY <1>1 DEF ListsInv

LEMMA HandlerKeeps ==
  ASSUME ListsInv, NEW r \in Handlers, NEW n \in Instances, Handler(r, n)
  PROVE  ListsInv'
  <1>1. ASSUME NEW items \in SUBSET Items,
               \/ SetOrgModelAccess(r, n, items) \/ SetTeamModelAccess(r, n, items)
               \/ SetKeyModelAccess(r, n, items) \/ SetOrgMCPAccess(r, n, items)
               \/ SetTeamMCPAccess(r, n, items) \/ SetKeyMCPAccess(r, n, items)
        PROVE  ListsInv'
    <2>1. items \subseteq Known /\ \E scope \in Levels : BeginChange(r, n, scope, items)
      BY <1>1 DEF SetOrgModelAccess, SetTeamModelAccess, SetKeyModelAccess, SetOrgMCPAccess,
                  SetTeamMCPAccess, SetKeyMCPAccess, validateModelNames, validateMCPServerIDs, Levels
    <2> QED  BY <2>1, BeginKeeps
  <1>2. ASSUME NEW x \in Items, CreateOrgAlias(r, n, x) \/ CreateTeamAlias(r, n, x)
        PROVE  ListsInv'
    <2>1. {x} \subseteq Known /\ {x} \in SUBSET Items /\ \E scope \in Levels : BeginChange(r, n, scope, {x})
      BY <1>2 DEF CreateOrgAlias, CreateTeamAlias, Levels
    <2> QED  BY <2>1, BeginKeeps
  <1>3. ASSUME NEW x \in Items, NEW scope \in Levels, DeleteAlias(r, n, scope, x)
        PROVE  ListsInv'
    <2> DEFINE task == [node |-> n, scope |-> scope, items |-> {x}]
    <2>1. task \in Tasks
      BY DEF Tasks
    <2>2. arg' = [arg EXCEPT ![r] = task] /\ phase' = [phase EXCEPT ![r] = "read"]
      BY <1>3 DEF DeleteAlias
    <2>3. arg' \in [Handlers -> Tasks] /\ \A s \in Handlers : s # r => arg'[s] = arg[s]
      BY <2>1, <2>2 DEF ListsInv
    <2>4. tables' \in [Levels -> SUBSET Known] /\ UNCHANGED <<kind, caches, got>>
      BY <1>3 DEF DeleteAlias, DeleteModelAlias, ListsInv
    <2>5. caches' \in [Instances -> [Levels -> SUBSET Known]] /\ got' \in [Actors -> Seq(SUBSET Known)]
      BY <2>4 DEF ListsInv
    <2>6. r \in Actors /\ kind' = kind
      BY <2>4, HandlersAct
    <2> QED  BY <2>2, <2>3, <2>4, <2>5, <2>6, GoOnKeeps
  <1>4. \A x \in Items : DeleteOrgAlias(r, n, x) \/ DeleteTeamAlias(r, n, x)
            => \E scope \in Levels : DeleteAlias(r, n, scope, x)
    BY DEF DeleteOrgAlias, DeleteTeamAlias, Levels
  <1> QED  BY <1>1, <1>2, <1>3, <1>4 DEF Handler

LEMMA WriteKeeps ==
  ASSUME ListsInv, NEW r \in Handlers, Write(r)
  PROVE  ListsInv'
  <1> DEFINE scope == arg[r].scope  items == arg[r].items
  <1>1. scope \in Levels /\ items \subseteq Known
    BY DEF ListsInv, Write
  <1>2. r \in Actors /\ kind' = kind /\ caches' = caches /\ got' = got
    BY HandlersAct DEF Write
  <1>3. tables' \in [Levels -> SUBSET Known]
    <2>1. \/ tables' = [tables EXCEPT ![scope] = items] \/ tables' = tables
          \/ \E x \in items : tables' = [tables EXCEPT ![scope] = @ \cup {x}]
      BY DEF Write, SetModelAccess, SetMCPAccess, CreateModelAlias
    <2> QED  BY <1>1, <2>1 DEF ListsInv
  <1>4. \/ phase' = [phase EXCEPT ![r] = "read"] /\ arg' = arg
        \/ phase' = [phase EXCEPT ![r] = "idle"] /\ arg' = [arg EXCEPT ![r] = NoRequest]
    BY DEF Write
  <1>5. arg' \in [Handlers -> Tasks] /\ \A s \in Handlers : s # r => arg'[s] = arg[s]
    BY <1>4, ForgetKeeps DEF ListsInv
  <1>6. caches' \in [Instances -> [Levels -> SUBSET Known]] /\ got' \in [Actors -> Seq(SUBSET Known)]
    BY <1>2 DEF ListsInv
  <1> QED  BY <1>2, <1>3, <1>4, <1>5, <1>6, GoOnKeeps

\* What the next query of a reload returns.
LEMMA ReadKeeps ==
  ASSUME ListsInv, NEW a \in Actors, Read(a)
  PROVE  ListsInv'
  <1> DEFINE k == Len(got[a]) + 1
             seen == CASE kind = "model" -> LoadAllModelAccess(k)
                       [] kind = "mcp" -> LoadAllMCPAccess(k)
                       [] kind = "alias" -> LoadAllModelAliases(k)
  <1>1. got[a] \in Seq(SUBSET Known)
    BY DEF ListsInv
  <1>2. k \in 1 .. (IF kind = "alias" THEN 2 ELSE 3)
    BY <1>1 DEF Read, Scopes
  <1>3. seen \in SUBSET Known
    <2>1. ASSUME NEW s \in Levels PROVE tables[s] \in SUBSET Known
      BY DEF ListsInv
    <2>2. CASE kind = "alias"
      <3>1. <<"org", "team">>[k] \in Levels
        BY <1>2, <2>2 DEF Levels
      <3>2. seen = tables[<<"org", "team">>[k]]
        BY <2>2 DEF LoadAllModelAliases
      <3> QED  BY <2>1, <3>1, <3>2
    <2>3. CASE kind # "alias"
      <3>1. <<"org", "team", "key">>[k] \in Levels
        BY <1>2, <2>3 DEF Levels
      <3>2. seen = tables[<<"org", "team", "key">>[k]]
        BY <2>3 DEF LoadAllModelAccess, LoadAllMCPAccess, ListsInv
      <3> QED  BY <2>1, <3>1, <3>2
    <2> QED  BY <2>2, <2>3
  <1>4. got' = [got EXCEPT ![a] = Append(got[a], seen)]
    BY DEF Read, ListsInv
  <1>5. Append(got[a], seen) \in Seq(SUBSET Known)
    BY <1>1, <1>3, AppendProperties
  <1>6. got' \in [Actors -> Seq(SUBSET Known)]
    BY <1>4, <1>5 DEF ListsInv
  <1>7. UNCHANGED <<kind, tables, caches, phase, arg>>
    BY DEF Read
  <1> QED  BY <1>6, <1>7 DEF ListsInv

LEMMA LoadKeeps ==
  ASSUME ListsInv, NEW a \in Actors, Load(a)
  PROVE  ListsInv'
  <1> DEFINE lists == [s \in DOMAIN Nothing |->
                IF \E k \in DOMAIN Scopes : Scopes[k] = s
                THEN got[a][CHOOSE k \in DOMAIN Scopes : Scopes[k] = s] ELSE {}]
  <1>1. got[a] \in Seq(SUBSET Known) /\ Len(got[a]) = Len(Scopes)
    BY DEF ListsInv, Load
  <1>2. DOMAIN Scopes = 1 .. Len(Scopes) /\ Len(Scopes) \in Nat
    <2>1. <<"org", "team">> \in Seq(Levels) /\ <<"org", "team", "key">> \in Seq(Levels)
      BY DEF Levels
    <2>2. Scopes \in Seq(Levels)
      BY <2>1 DEF Scopes
    <2> QED  BY <2>2, LenProperties
  <1>3. ASSUME NEW k \in DOMAIN Scopes PROVE got[a][k] \in SUBSET Known
    BY <1>1, <1>2, ElementOfSeq
  <1>4. lists \in [Levels -> SUBSET Known]
    BY <1>3, LevelsOfNothing
  <1>5. caches' = [caches EXCEPT ![NodeOf(a)] = lists]
    BY DEF Load
  <1>6. caches' \in [Instances -> [Levels -> SUBSET Known]]
    <2> HIDE DEF lists
    <2> QED  BY <1>4, <1>5 DEF ListsInv
  <1>7. got' \in [Actors -> Seq(SUBSET Known)]
    <2>1. <<>> \in Seq(SUBSET Known)
      OBVIOUS
    <2> QED  BY <2>1 DEF Load, ListsInv
  <1>8. \E next \in {"idle", "publish"} : phase' = [phase EXCEPT ![a] = next]
    BY DEF Load
  <1>9. arg' = arg /\ kind' = kind /\ tables' = tables
    BY DEF Load
  <1>10. arg' \in [Handlers -> Tasks] /\ tables' \in [Levels -> SUBSET Known]
    BY <1>9 DEF ListsInv
  <1>11. \A s \in Handlers : s # a => arg'[s] = arg[s]
    BY <1>9
  <1> QED  BY <1>6, <1>7, <1>8, <1>9, <1>10, <1>11, GoOnKeeps

LEMMA AccessStepInv == ListsInv /\ [AccessNext]_accessVars => ListsInv'
  <1> SUFFICES ASSUME ListsInv, [AccessNext]_accessVars PROVE ListsInv'
    OBVIOUS
  <1>1. ASSUME NEW r \in Handlers, PublishLists(r)
        PROVE  ListsInv'
    <2>1. /\ phase' = [phase EXCEPT ![r] = "idle"] /\ arg' = [arg EXCEPT ![r] = NoRequest]
          /\ UNCHANGED <<kind, tables, caches, got>>
      BY <1>1 DEF PublishLists
    <2>2. arg' \in [Handlers -> Tasks] /\ \A s \in Handlers : s # r => arg'[s] = arg[s]
      BY <2>1, ForgetKeeps
    <2>3. /\ tables' \in [Levels -> SUBSET Known] /\ caches' \in [Instances -> [Levels -> SUBSET Known]]
          /\ got' \in [Actors -> Seq(SUBSET Known)] /\ kind' = kind /\ r \in Actors
      BY <2>1, HandlersAct DEF ListsInv
    <2> QED  BY <2>1, <2>2, <2>3, GoOnKeeps
  <1>2. ASSUME NEW n \in Instances, ReceiveLists(n) \/ Tick(n)
        PROVE  ListsInv'
    <2>1. \E a \in Actors : phase' = [phase EXCEPT ![a] = "read"]
      BY <1>2 DEF ReceiveLists, Tick, Actors, Loops
    <2>2. UNCHANGED <<kind, tables, caches, arg, got>>
      BY <1>2 DEF ReceiveLists, Tick
    <2>3. /\ tables' \in [Levels -> SUBSET Known] /\ caches' \in [Instances -> [Levels -> SUBSET Known]]
          /\ got' \in [Actors -> Seq(SUBSET Known)] /\ arg' \in [Handlers -> Tasks]
      BY <2>2 DEF ListsInv
    <2>4. kind' = kind /\ \A s \in Handlers : arg'[s] = arg[s]
      BY <2>2
    <2> QED  BY <2>1, <2>3, <2>4, GoOnKeeps
  <1>3. CASE UNCHANGED accessVars
    BY <1>3 DEF accessVars, ListsInv
  <1> QED
    BY <1>1, <1>2, <1>3, HandlerKeeps, WriteKeeps, ReadKeeps, LoadKeeps DEF AccessNext

\* However reloads and messages interleave, no cache of any instance comes to
\* hold an item that no handler validated.
THEOREM ListsInvariance == AccessSpec => []ListsInv
  BY AccessInitInv, AccessStepInv, PTL DEF AccessSpec

LEMMA ListsDecideAlike == ListsInv => SameDecision
  <1> SUFFICES ASSUME ListsInv, NEW x \in Items, NEW inTeam \in BOOLEAN
               PROVE  /\ ModelCheck(tables, inTeam, x) <=> CheckModelAccess(inTeam, x)
                      /\ MCPCheck(tables, inTeam, x) <=> CheckMCPAccess(inTeam, x)
    BY DEF SameDecision
  <1>1. DOMAIN tables = {"org", "team", "key"}
    BY DEF ListsInv, Levels
  <1>2. ASSUME NEW s \in {"org", "team", "key"}
        PROVE  /\ s \in DOMAIN toSetMap(tables) <=> tables[s] # {}
               /\ tables[s] # {} => toSetMap(tables)[s] = tables[s]
    BY <1>1 DEF toSetMap
  <1> HIDE DEF toSetMap
  <1>3. ModelCheck(tables, inTeam, x) <=> CheckModelAccess(inTeam, x)
    BY <1>2 DEF ModelCheck, CheckModelAccess, GetOrgAccess, GetTeamAccess, GetKeyAccess
  <1>4. MCPCheck(tables, inTeam, x) <=> CheckMCPAccess(inTeam, x)
    BY <1>2 DEF MCPCheck, CheckMCPAccess, GetOrgAccess, GetTeamAccess, GetKeyAccess
  <1> QED  BY <1>3, <1>4

\* The decision an instance takes from a cache that has caught up is the one
\* the database queries take, whatever the levels hold, for a key in a team and
\* for one that is not, for models and for MCP servers alike.
THEOREM CachesDecideAlike == AccessSpec => []SameDecision
  BY ListsInvariance, ListsDecideAlike, PTL
=============================================================================
