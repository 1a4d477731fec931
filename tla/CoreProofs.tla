----------------------------- MODULE CoreProofs -----------------------------
(***************************************************************************)
(* Proofs about the components of MCCore: the circuit breaker, graceful    *)
(* shutdown, the usage logger and the stream relay, each for every value   *)
(* of its constants.                                                       *)
(***************************************************************************)
EXTENDS CircuitBreaker, Shutdown, UsageLogger, StreamRelay,
        SequenceTheorems, FiniteSetTheorems, TLAPS

-----------------------------------------------------------------------------
(***************************************************************************)
(* The safety properties of CircuitBreaker, for any number of callers, any *)
(* threshold and any half-open limit.                                      *)
(***************************************************************************)

\* In flight is finite because callers join one at a time; without it
\* Cardinality(probes) would mean nothing.
FiniteInflight == IsFiniteSet(reserved)

\* The breaker's own failure count lags behind the history: neutral and late
\* verdicts can only make it smaller than the streak of failures reported.
FailuresWithinStreak ==
    breaker.state = "closed" => breaker.failures <= streak

IInv ==
    /\ TypeOK
    /\ FiniteInflight
    /\ ClosedBelowThreshold
    /\ FailuresWithinStreak
    /\ SlotsAreHeld

-----------------------------------------------------------------------------
\* Every method of the breaker maps a breaker to a breaker.
LEMMA MethodTypes ==
    ASSUME NEW b \in Breakers
    PROVE  /\ Allow(b) \in Breakers
           /\ RecordSuccess(b) \in Breakers
           /\ RecordFailure(b) \in Breakers
           /\ RecordNeutral(b) \in Breakers
           /\ TimeoutElapses(b) \in Breakers
  <1>1. /\ b.failures \in Nat /\ b.failures + 1 \in Nat
        /\ b.halfOpenActive + 1 \in Nat
        /\ Release(b.halfOpenActive) \in Nat
    BY DEF Breakers, Release
  <1>2. CASE b.state = "closed"
    BY <1>1, <1>2 DEF Breakers, States, Allow, RecordSuccess, RecordFailure,
                      RecordNeutral, TimeoutElapses
  <1>3. CASE b.state = "open"
    BY <1>3 DEF Breakers, States, Allow, RecordSuccess, RecordFailure,
                RecordNeutral, TimeoutElapses
  <1>4. CASE b.state = "half_open"
    BY <1>1, <1>4 DEF Breakers, States, Allow, RecordSuccess, RecordFailure,
                      RecordNeutral, TimeoutElapses
  <1> QED
    BY <1>2, <1>3, <1>4 DEF Breakers, States

\* A caller's departure takes at most one probe with it.
LEMMA ProbesAfterDeparture ==
    ASSUME NEW P, NEW c, IsFiniteSet(P)
    PROVE  /\ IsFiniteSet(P \ {c})
           /\ Cardinality(P) \in Nat
           /\ Cardinality(P \ {c}) \in Nat
           /\ Cardinality(P \ {c}) >= Cardinality(P) - 1
           /\ c \notin P => Cardinality(P \ {c}) = Cardinality(P)
  <1>1. IsFiniteSet(P \ {c}) /\ Cardinality(P) \in Nat
        /\ Cardinality(P \ {c}) \in Nat
    BY FS_RemoveElement, FS_CardinalityType
  <1>2. Cardinality(P \ {c}) = IF c \in P THEN Cardinality(P) - 1
                                          ELSE Cardinality(P)
    BY FS_RemoveElement
  <1> QED
    BY <1>1, <1>2

-----------------------------------------------------------------------------
LEMMA InitIInv == Init => IInv
  BY FS_EmptySet, BreakerAssumption
     DEF Init, ContractInit, IInv, TypeOK, FiniteInflight, ClosedBelowThreshold,
         FailuresWithinStreak, SlotsAreHeld, NewBreaker, Breakers, States

\* Admission: a probe takes one slot and joins the probes of the period; the
\* slot is free because Admits compared the counter with the limit.
LEMMA AdmitIInv ==
    ASSUME IInv, NEW c \in Callers, Admit(c)
    PROVE  IInv'
  <1> USE DEF IInv, TypeOK
  <1>1. TypeOK'
    <2>1. breaker' \in Breakers
      BY MethodTypes DEF Admit, Reserve
    <2>2. probes' \subseteq reserved'
      BY DEF Admit, Reserve, Breakers, States
    <2> QED
      BY <2>1, <2>2 DEF Admit, Reserve
  <1>2. FiniteInflight'
    BY FS_AddElement DEF Admit, Reserve, FiniteInflight
  <1>3. ClosedBelowThreshold' /\ FailuresWithinStreak'
    BY DEF Admit, Reserve, Admits, Allow, ClosedBelowThreshold, FailuresWithinStreak,
           Breakers, States
  <1>4. SlotsAreHeld'
    <2>1. CASE breaker.state = "closed"
      BY <2>1 DEF Admit, Reserve, Allow, SlotsAreHeld
    <2>2. CASE breaker.state = "open"
      <3>1. breaker'.halfOpenActive = 1 /\ probes' = {c}
        BY <2>2 DEF Admit, Reserve, Allow, Breakers
      <3>2. Cardinality({c}) = 1
        BY FS_Singleton
      <3> QED
        BY <3>1, <3>2, BreakerAssumption DEF SlotsAreHeld
    <2>3. CASE breaker.state = "half_open"
      <3>1. /\ breaker'.halfOpenActive = breaker.halfOpenActive + 1
            /\ probes' = probes \cup {c}
        BY <2>3 DEF Admit, Reserve, Allow, Breakers
      <3>2. ~(breaker.halfOpenActive >= HalfOpenMax)
        BY <2>3 DEF Admit, Reserve, Admits
      <3>3. IsFiniteSet(probes) /\ Cardinality(probes) \in Nat
        BY FS_Subset, FS_CardinalityType DEF FiniteInflight
      <3>4. c \notin probes
        BY DEF Admit, Reserve
      <3>5. Cardinality(probes') = Cardinality(probes) + 1
        BY <3>1, <3>3, <3>4, FS_AddElement
      <3>6. breaker.halfOpenActive \in Nat
        BY DEF Breakers
      <3> QED
        BY <2>3, <3>1, <3>2, <3>3, <3>5, <3>6, BreakerAssumption
           DEF SlotsAreHeld
    <2> QED
      BY <2>1, <2>2, <2>3 DEF Breakers, States
  <1> QED
    BY <1>1, <1>2, <1>3, <1>4

\* What the three verdicts have in common: a verdict that leaves the breaker
\* half open releases one slot if one is counted, and the caller it comes from
\* accounts for at most one probe.
LEMMA VerdictIInv ==
    ASSUME IInv, NEW c \in Callers, NEW b \in Breakers, Resolve(c, b), LeaveProbes(c),
           b.state = "half_open" =>
               /\ breaker.state = "half_open"
               /\ b.halfOpenActive = Release(breaker.halfOpenActive)
    PROVE  FiniteInflight' /\ SlotsAreHeld' /\ probes' \subseteq reserved'
           /\ reserved' \subseteq Callers
  <1> USE DEF IInv, TypeOK
  <1>1. FiniteInflight'
    BY FS_RemoveElement DEF Resolve, LeaveProbes, FiniteInflight
  <1>2. probes' \subseteq reserved' /\ reserved' \subseteq Callers
    BY DEF Resolve, LeaveProbes
  <1>3. ASSUME b.state = "half_open" PROVE SlotsAreHeld'
    <2>1. IsFiniteSet(probes)
      BY FS_Subset DEF FiniteInflight
    <2>2. /\ Cardinality(probes) \in Nat
          /\ Cardinality(probes \ {c}) \in Nat
          /\ Cardinality(probes \ {c}) >= Cardinality(probes) - 1
      BY <2>1, ProbesAfterDeparture
    <2>3. breaker' = b /\ probes' = probes \ {c}
      BY <1>3 DEF Resolve, LeaveProbes
    <2>4. breaker.halfOpenActive \in Nat
      BY DEF Breakers
    <2> QED
      BY <1>3, <2>2, <2>3, <2>4, BreakerAssumption DEF SlotsAreHeld, Release
  <1>4. ASSUME b.state # "half_open" PROVE SlotsAreHeld'
    BY <1>4 DEF Resolve, LeaveProbes, SlotsAreHeld
  <1> QED
    BY <1>1, <1>2, <1>3, <1>4

LEMMA SuccessIInv ==
    ASSUME IInv, NEW c \in Callers, Success(c)
    PROVE  IInv'
  <1> USE DEF IInv, TypeOK
  <1>1. RecordSuccess(breaker) \in Breakers /\ breaker' = RecordSuccess(breaker)
    BY MethodTypes DEF Success, ReportSuccess, Resolve
  <1>2. RecordSuccess(breaker).state # "half_open"
    BY DEF RecordSuccess, Breakers, States
  <1>3. FiniteInflight' /\ SlotsAreHeld' /\ probes' \subseteq reserved'
        /\ reserved' \subseteq Callers
    BY <1>1, <1>2, VerdictIInv DEF Success, ReportSuccess
  <1>4. ClosedBelowThreshold' /\ FailuresWithinStreak' /\ streak' \in 0..Threshold
    BY BreakerAssumption
       DEF Success, ReportSuccess, Resolve, RecordSuccess, Breakers, States,
           ClosedBelowThreshold, FailuresWithinStreak
  <1> QED
    BY <1>1, <1>3, <1>4

LEMMA FailureIInv ==
    ASSUME IInv, NEW c \in Callers, Failure(c)
    PROVE  IInv'
  <1> USE DEF IInv, TypeOK
  <1>1. RecordFailure(breaker) \in Breakers /\ breaker' = RecordFailure(breaker)
    BY MethodTypes DEF Failure, ReportFailure, Resolve
  <1>2. RecordFailure(breaker).state # "half_open"
    BY DEF RecordFailure, Breakers, States
  <1>3. FiniteInflight' /\ SlotsAreHeld' /\ probes' \subseteq reserved'
        /\ reserved' \subseteq Callers
    BY <1>1, <1>2, VerdictIInv DEF Failure, ReportFailure
  <1>4. streak' \in 0..Threshold
    BY BreakerAssumption DEF Failure
  <1>5. ClosedBelowThreshold' /\ FailuresWithinStreak'
    BY BreakerAssumption
       DEF Failure, ReportFailure, Resolve, RecordFailure, Breakers, States,
           ClosedBelowThreshold, FailuresWithinStreak
  <1> QED
    BY <1>1, <1>3, <1>4, <1>5

LEMMA NeutralIInv ==
    ASSUME IInv, NEW c \in Callers, Neutral(c)
    PROVE  IInv'
  <1> USE DEF IInv, TypeOK
  <1>1. RecordNeutral(breaker) \in Breakers /\ breaker' = RecordNeutral(breaker)
    BY MethodTypes DEF Neutral, ReportNeutral, Resolve
  <1>2. RecordNeutral(breaker).state = "half_open" =>
            /\ breaker.state = "half_open"
            /\ RecordNeutral(breaker).halfOpenActive
                 = Release(breaker.halfOpenActive)
    BY DEF RecordNeutral, Breakers
  <1>3. FiniteInflight' /\ SlotsAreHeld' /\ probes' \subseteq reserved'
        /\ reserved' \subseteq Callers
    BY <1>1, <1>2, VerdictIInv DEF Neutral, ReportNeutral
  <1>4. ClosedBelowThreshold' /\ FailuresWithinStreak' /\ streak' \in 0..Threshold
    BY DEF Neutral, ReportNeutral, Resolve, RecordNeutral, Breakers, States,
           ClosedBelowThreshold, FailuresWithinStreak
  <1> QED
    BY <1>1, <1>3, <1>4

LEMMA NextIInv == IInv /\ [Next]_vars => IInv'
  <1> SUFFICES ASSUME IInv, [Next]_vars PROVE IInv'
    OBVIOUS
  <1>1. CASE Tick
    BY <1>1, MethodTypes
       DEF Tick, Elapse, TimeoutElapses, IInv, TypeOK, FiniteInflight,
           ClosedBelowThreshold, FailuresWithinStreak, SlotsAreHeld, Breakers
  <1>2. ASSUME NEW c \in Callers, Admit(c) PROVE IInv'
    BY <1>2, AdmitIInv
  <1>3. ASSUME NEW c \in Callers, Report(c) PROVE IInv'
    BY <1>3, SuccessIInv, FailureIInv, NeutralIInv DEF Report
  <1>4. CASE UNCHANGED vars
    BY <1>4 DEF vars, IInv, TypeOK, FiniteInflight, ClosedBelowThreshold,
                FailuresWithinStreak, SlotsAreHeld
  <1> QED
    BY <1>1, <1>2, <1>3, <1>4 DEF Next

\* The inductive invariant holds in every reachable state.
THEOREM Invariance == Spec => []IInv
  BY InitIInv, NextIInv, PTL DEF Spec

\* Allow, Permits and the three verdicts keep the breaker's fields, and the
\* callers' reservations, within their types.
THEOREM TypeCorrect == Spec => []TypeOK
  BY Invariance, PTL DEF IInv

\* A closed circuit is always strictly below its trip threshold, so no run of
\* late verdicts lets it carry a tripping failure count across a recovery.
THEOREM ClosedIsBelowThreshold == Spec => []ClosedBelowThreshold
  BY Invariance, PTL DEF IInv

\* Every probe slot a half-open circuit counts is held by an in-flight caller
\* of the same half-open period, and the count respects half_open_max: no
\* interleaving of admissions and (late) verdicts leaks a slot.
THEOREM NoSlotLeak == Spec => []SlotsAreHeld
  BY Invariance, PTL DEF IInv

\* The circuit opens from closed only after Threshold failures with no success
\* in between.
THEOREM TripNeedsStreak == Spec => TripsOnStreak
  <1>1. ASSUME IInv, [Next]_vars
        PROVE  [breaker.state = "closed" /\ breaker'.state = "open"
                  => streak' = Threshold]_vars
    <2> SUFFICES ASSUME breaker.state = "closed", breaker'.state = "open"
                 PROVE  streak' = Threshold
      OBVIOUS
    <2> USE DEF IInv, TypeOK
    <2>1. CASE Tick
      BY <2>1 DEF Tick, Elapse, TimeoutElapses
    <2>2. ASSUME NEW c \in Callers, Admit(c) PROVE FALSE
      BY <2>2 DEF Admit, Reserve, Allow
    <2>3. ASSUME NEW c \in Callers, Success(c) PROVE FALSE
      BY <1>1, <2>3 DEF Success, ReportSuccess, Resolve, RecordSuccess, Breakers
    <2>4. ASSUME NEW c \in Callers, Neutral(c) PROVE FALSE
      BY <2>4 DEF Neutral, ReportNeutral, Resolve, RecordNeutral
    <2>5. ASSUME NEW c \in Callers, Failure(c) PROVE streak' = Threshold
      <3>1. breaker.failures + 1 >= Threshold
        BY <1>1, <2>5 DEF Failure, ReportFailure, Resolve, RecordFailure, Breakers
      <3>2. breaker.failures <= streak /\ breaker.failures \in Nat
        BY <1>1 DEF FailuresWithinStreak, Breakers
      <3> QED
        BY <1>1, <2>5, <3>1, <3>2, BreakerAssumption DEF Failure
    <2>6. CASE UNCHANGED vars
      BY <2>6 DEF vars
    <2> QED
      BY <1>1, <2>1, <2>2, <2>3, <2>4, <2>5, <2>6 DEF Next, Report
  <1> QED
    BY <1>1, Invariance, PTL DEF Spec, TripsOnStreak

-----------------------------------------------------------------------------
(***************************************************************************)
(* Proofs about Shutdown: for any set of client connections, streamed or   *)
(* not, the drain counts the tracked requests and no request uses what     *)
(* cleanup has torn down.                                                  *)
(***************************************************************************)

\* trackOnce of a tracked request has not fired; that of a request whose
\* stream goes on without Handle has.
OnceAfterHandle ==
    \A r \in Requests : /\ req[r] = "tracked" => ~once[r]
                        /\ req[r] = "streaming" => once[r]

\* Cleanup runs behind a closed listener and without connections.
QuietCleanup ==
    phase \in {"cleanup", "exited"} => ~accepting /\ Active = {}

\* Only cleanup tears down, one resource after the other, and it leaves when
\* it has torn down the last.
ClosedInOrder ==
    /\ closed # <<>> => phase \in {"cleanup", "exited", "killed"} /\ Active = {}
    /\ phase = "cleanup" => Len(closed) < Len(CleanupOrder)

\* The inductive invariant. The drain counter alone does not protect cleanup:
\* Handle's deferred trackDone stops counting a stream that goes on, and a
\* request between CheckDraining and TrackStart is not counted yet. What does is
\* that the server stops only when no connection is open.
ShutdownInv ==
    /\ ShutdownTypeOK
    /\ IsFiniteSet(Tracked) /\ CountsTrackedRequests
    /\ OnceAfterHandle
    /\ QuietCleanup
    /\ ClosedInOrder
    /\ late = FALSE

-----------------------------------------------------------------------------
\* Cleanup has nine resources to tear down.
LEMMA CleanupLength ==
    /\ Len(CleanupOrder) = 9
    /\ \A i \in Nat : i < 9 => CleanupOrder[i + 1] \in Resources
  BY DEF CleanupOrder, Resources

\* trackDone of a tracked request takes it off the counter, and a second call
\* changes nothing.
LEMMA TrackDoneCounts ==
    ASSUME ShutdownInv, NEW r \in Requests, req[r] \in {"tracked", "streaming"},
           trackDone(r), NEW to \in {"idle", "streaming"},
           req' = [req EXCEPT ![r] = to]
    PROVE  /\ Tracked' = Tracked \ {r}
           /\ IsFiniteSet(Tracked)' /\ CountsTrackedRequests'
           /\ inflight' \in Nat
           /\ OnceAfterHandle' /\ once' \in [Requests -> BOOLEAN]
           /\ req' \in [Requests -> {"idle", "checked", "tracked", "streaming"}]
  <1> USE DEF ShutdownInv, ShutdownTypeOK
  <1>1. /\ once' \in [Requests -> BOOLEAN]
        /\ req' \in [Requests -> {"idle", "checked", "tracked", "streaming"}]
    BY DEF trackDone
  <1>2. Tracked' = Tracked \ {r}
    BY DEF trackDone, Tracked
  <1>3. OnceAfterHandle'
    BY DEF trackDone, OnceAfterHandle
  <1>4. CASE once[r]
    <2>1. r \notin Tracked /\ inflight' = inflight
      BY <1>4 DEF trackDone, Tracked
    <2>2. Tracked' = Tracked
      BY <1>2, <2>1
    <2> QED  BY <1>1, <1>2, <1>3, <2>1, <2>2 DEF CountsTrackedRequests
  <1>5. CASE ~once[r]
    <2>1. r \in Tracked /\ inflight' = inflight - 1
      BY <1>5 DEF trackDone, Tracked, OnceAfterHandle
    <2>2. /\ IsFiniteSet(Tracked \ {r})
          /\ Cardinality(Tracked \ {r}) = Cardinality(Tracked) - 1
      BY <2>1, FS_RemoveElement
    <2>3. Cardinality(Tracked \ {r}) \in Nat
      BY <2>2, FS_CardinalityType
    <2> QED  BY <1>1, <1>2, <1>3, <2>1, <2>2, <2>3 DEF CountsTrackedRequests
  <1> QED  BY <1>4, <1>5

\* A tracked or streaming request finds everything in place.
LEMMA InUseNothingClosed ==
    ASSUME ShutdownInv, NEW r \in Requests, Alive, req[r] # "idle"
    PROVE  closed = <<>> /\ phase \notin {"cleanup", "exited"}
  BY DEF ShutdownInv, ClosedInOrder, QuietCleanup, Active, Alive

\* The invariant holds before the first request.
LEMMA ShutdownInitInv == ShutdownInit => ShutdownInv
  <1> SUFFICES ASSUME ShutdownInit PROVE ShutdownInv
    OBVIOUS
  <1>1. Tracked = {} /\ Active = {}
    BY DEF ShutdownInit, Tracked, Active
  <1>2. IsFiniteSet(Tracked) /\ Cardinality(Tracked) = 0
    BY <1>1, FS_EmptySet
  <1>3. closed = <<>> /\ <<>> \in Seq(Resources)
    BY DEF ShutdownInit
  <1>4. ShutdownTypeOK
    BY <1>3 DEF ShutdownInit, ShutdownTypeOK, Phases
  <1> QED
    BY <1>1, <1>2, <1>3, <1>4 DEF ShutdownInit, ShutdownInv, CountsTrackedRequests,
       OnceAfterHandle, QuietCleanup, ClosedInOrder

\* Every step of the requests and of WaitForShutdown keeps the invariant.
LEMMA ShutdownStepInv == ShutdownInv /\ [ShutdownNext]_shutdownVars => ShutdownInv'
  <1> SUFFICES ASSUME ShutdownInv, [ShutdownNext]_shutdownVars
               PROVE  ShutdownInv'
    OBVIOUS
  <1> USE DEF ShutdownInv
  <1>1. ASSUME NEW r \in Requests, CheckDraining(r)
        PROVE  ShutdownInv'
    <2>1. Tracked' = Tracked /\ OnceAfterHandle'
      BY <1>1 DEF CheckDraining, Tracked, OnceAfterHandle, ShutdownTypeOK
    <2>2. phase' = phase /\ closed' = closed /\ late' = FALSE /\ inflight' = inflight
      BY <1>1 DEF CheckDraining, server
    <2>3. phase \notin {"cleanup", "exited", "killed"} /\ closed = <<>>
      BY <1>1 DEF CheckDraining, QuietCleanup, ClosedInOrder, Alive
    <2>4. ShutdownTypeOK'
      BY <1>1 DEF CheckDraining, ShutdownTypeOK, server
    <2> QED
      BY <2>1, <2>2, <2>3, <2>4 DEF CountsTrackedRequests, QuietCleanup, ClosedInOrder
  <1>2. ASSUME NEW r \in Requests, TrackStart(r)
        PROVE  ShutdownInv'
    <2>1. Tracked' = Tracked \cup {r} /\ r \notin Tracked /\ OnceAfterHandle'
      BY <1>2 DEF TrackStart, Tracked, OnceAfterHandle, ShutdownTypeOK
    <2>2. /\ IsFiniteSet(Tracked')
          /\ Cardinality(Tracked') = Cardinality(Tracked) + 1
      BY <2>1, FS_AddElement
    <2>3. closed = <<>> /\ phase \notin {"cleanup", "exited"}
      BY <1>2, InUseNothingClosed DEF TrackStart
    <2>4. phase' = phase /\ closed' = closed /\ late' = FALSE /\ inflight' = inflight + 1
      BY <1>2 DEF TrackStart, server
    <2>5. ShutdownTypeOK'
      BY <1>2 DEF TrackStart, ShutdownTypeOK, server
    <2> QED
      BY <2>1, <2>2, <2>3, <2>4, <2>5
      DEF CountsTrackedRequests, QuietCleanup, ClosedInOrder
  <1>3. ASSUME NEW r \in Requests,
               HandleReturns(r) \/ HandleReturnsStreaming(r) \/ StreamEnds(r)
        PROVE  ShutdownInv'
    <2>1. PICK to \in {"idle", "streaming"} :
            /\ Alive /\ req[r] \in {"tracked", "streaming"}
            /\ trackDone(r)
            /\ req' = [req EXCEPT ![r] = to]
      BY <1>3 DEF HandleReturns, HandleReturnsStreaming, StreamEnds
    <2>2. /\ IsFiniteSet(Tracked)' /\ CountsTrackedRequests'
          /\ inflight' \in Nat
          /\ OnceAfterHandle' /\ once' \in [Requests -> BOOLEAN]
          /\ req' \in [Requests -> {"idle", "checked", "tracked", "streaming"}]
      BY <2>1, TrackDoneCounts
    <2>3. closed = <<>> /\ phase \notin {"cleanup", "exited"}
      BY <2>1, InUseNothingClosed
    <2>4. /\ phase' = phase /\ closed' = closed /\ draining' = draining
          /\ canceled' = canceled /\ accepting' = accepting
      BY <1>3 DEF HandleReturns, HandleReturnsStreaming, StreamEnds, server
    <2>5. late' = FALSE
      BY <1>3, <2>3 DEF HandleReturns, HandleReturnsStreaming, StreamEnds, UseResources
    <2> QED
      BY <2>2, <2>3, <2>4, <2>5 DEF ShutdownTypeOK, QuietCleanup, ClosedInOrder
  <1>4. ASSUME Signal \/ BeginDrain \/ Drained \/ DrainTimesOut \/ CloseListener
                 \/ ServerStops \/ SecondSignal
        PROVE  ShutdownInv'
    <2>1. /\ UNCHANGED <<inflight, closed, req, once, late>>
          /\ phase' \in Phases /\ draining' \in BOOLEAN
          /\ canceled' \in BOOLEAN /\ accepting' \in BOOLEAN
      BY <1>4 DEF Signal, BeginDrain, Drained, DrainTimesOut, CloseListener,
         ServerStops, SecondSignal, Phases, ShutdownTypeOK
    <2>2. Tracked' = Tracked /\ Active' = Active
      BY <2>1 DEF Tracked, Active
    <2>3. ShutdownTypeOK' /\ CountsTrackedRequests' /\ OnceAfterHandle'
      BY <2>1, <2>2 DEF ShutdownTypeOK, CountsTrackedRequests, OnceAfterHandle
    <2>4. QuietCleanup'
      BY <1>4, <2>2 DEF Signal, BeginDrain, Drained, DrainTimesOut, CloseListener,
         ServerStops, SecondSignal, QuietCleanup
    <2>5. ClosedInOrder'
      BY <1>4, <2>2, CleanupLength DEF Signal, BeginDrain, Drained, DrainTimesOut,
         CloseListener, ServerStops, SecondSignal, ClosedInOrder, ShutdownTypeOK
    <2> QED  BY <2>1, <2>2, <2>3, <2>4, <2>5
  <1>5. ASSUME cleanup
        PROVE  ShutdownInv'
    <2>1. UNCHANGED <<draining, inflight, canceled, accepting, req, once, late>>
      BY <1>5 DEF cleanup
    <2>2. Tracked' = Tracked /\ Active' = Active /\ Active = {} /\ ~accepting
      BY <1>5, <2>1 DEF cleanup, Tracked, Active, QuietCleanup
    <2>3. Len(closed) \in Nat /\ Len(closed) < 9 /\ phase = "cleanup"
      <3>1. closed \in Seq(Resources) /\ phase = "cleanup"
        BY <1>5 DEF cleanup, ShutdownTypeOK
      <3>2. Len(closed) < 9
        BY <3>1, CleanupLength DEF ClosedInOrder
      <3>3. Len(closed) \in Nat
        BY <3>1
      <3> QED  BY <3>1, <3>2, <3>3
    <2>4. /\ closed' \in Seq(Resources)
          /\ Len(closed') = Len(closed) + 1
      <3> DEFINE next == CleanupOrder[Len(closed) + 1]
      <3>1. next \in Resources
        BY <2>3, CleanupLength
      <3>2. closed' = Append(closed, next) /\ closed \in Seq(Resources)
        BY <1>5 DEF cleanup, ShutdownTypeOK
      <3> HIDE DEF next
      <3> QED  BY <3>1, <3>2
    <2>5. phase' = IF Len(closed') = 9 THEN "exited" ELSE "cleanup"
      BY <1>5, <2>3, CleanupLength DEF cleanup
    <2>6. ShutdownTypeOK'
      BY <2>1, <2>4, <2>5 DEF ShutdownTypeOK, Phases
    <2>7. ClosedInOrder'
      BY <2>2, <2>3, <2>4, <2>5, CleanupLength DEF ClosedInOrder
    <2> QED
      BY <2>1, <2>2, <2>6, <2>7 DEF CountsTrackedRequests, OnceAfterHandle, QuietCleanup
  <1>6. CASE UNCHANGED shutdownVars
    <2>1. Tracked' = Tracked /\ Active' = Active
      BY <1>6 DEF shutdownVars, Tracked, Active
    <2> QED
      BY <1>6, <2>1 DEF shutdownVars, ShutdownTypeOK, CountsTrackedRequests,
         OnceAfterHandle, QuietCleanup, ClosedInOrder
  <1> QED
    BY <1>1, <1>2, <1>3, <1>4, <1>5, <1>6
    DEF ShutdownNext, RequestStep, ShutdownStep, Gone

-----------------------------------------------------------------------------
\* The inductive invariant holds in every behaviour of the handlers and of
\* WaitForShutdown.
THEOREM ShutdownInvariance == ShutdownSpec => []ShutdownInv
  BY ShutdownInitInv, ShutdownStepInv, PTL DEF ShutdownSpec

\* The counter of shutdown.State never goes below zero (which would panic), is
\* the number of tracked requests, and no request touches a component after
\* cleanup has begun, however signals, timeouts, buffered and streamed requests
\* interleave.
THEOREM ShutdownIsOrderly == ShutdownSpec => []OrderlyShutdown
  <1>1. ShutdownInv => OrderlyShutdown
    BY DEF ShutdownInv, OrderlyShutdown, NothingAfterCleanup, ClosedInOrder
  <1> QED  BY <1>1, ShutdownInvariance, PTL

-----------------------------------------------------------------------------
(***************************************************************************)
(* Proofs about UsageLogger: through full buffers, failed flushes, commits *)
(* that report an error, crashes and restarts, no event is stored twice,   *)
(* none is forgotten when Stop returns, no rollup is ahead of the events,  *)
(* and the token budget counts all that is or will be stored.              *)
(***************************************************************************)

\* How many events of s belong to rollup row b.
InRow(s, b) == Cardinality({i \in DOMAIN s : Bucket[s[i]] = b})

UsageTyped ==
    /\ UsageTypeOK
    /\ buffer \in Seq(Events) /\ batch \in Seq(Events) /\ stored \in Seq(Events)

\* An event is in one place at a time: the channel, the batch or the table;
\* only while its rollups are made is a batch in the table already.
OnePlace ==
    /\ IsInjective(buffer) /\ IsInjective(batch) /\ IsInjective(stored)
    /\ ToSet(buffer) \cap ToSet(batch) = {}
    /\ ToSet(buffer) \cap ToSet(stored) = {}
    /\ run # "rollup" => ToSet(batch) \cap ToSet(stored) = {}
    /\ run = "rollup" => ToSet(batch) \subseteq ToSet(stored)

\* An event goes on its way once, and is counted before.
Underway ==
    \A e \in Events :
        /\ caller[e] # "returned" =>
               e \notin ToSet(buffer) \cup ToSet(batch) \cup ToSet(stored)
        /\ caller[e] = "sending" => e \in counted

\* An event whose Log call has returned is somewhere, or given up.
Accounted ==
    \A e \in Events : caller[e] = "returned" =>
        e \in ToSet(stored) \cup lost \cup ToSet(buffer) \cup ToSet(batch)

\* Nothing can follow the last flush: Stop is called when no Log call is under
\* way, and the drain has emptied the channel.
Stopping ==
    /\ done => \A e \in Events : caller[e] # "sending"
    /\ run = "drain" => done
    /\ last => done /\ buffer = <<>>
    /\ run \in {"select", "drain"} => last = FALSE
    /\ run = "exited" => last /\ batch = <<>>

\* What a rollup row has counted, and what the flush under way will add to it.
RollupsFit ==
    \A b \in Buckets :
        rolled[b] + (IF run = "rollup" /\ b \in todo THEN InRow(batch, b) ELSE 0)
            <= InRow(stored, b)

\* The inductive invariant.
UsageInv ==
    UsageTyped /\ OnePlace /\ Underway /\ Accounted /\ Stopping /\ RollupsFit /\ BudgetCovers

-----------------------------------------------------------------------------
(* The elements of a sequence, and how many of them belong to a row.       *)

LEMMA EmptyElements == ToSet(<<>>) = {} /\ IsInjective(<<>>)
  BY DEF ToSet, IsInjective

\* Append adds an element.
LEMMA AppendElements ==
    ASSUME NEW S, NEW s \in Seq(S), NEW e \in S
    PROVE  /\ Append(s, e) \in Seq(S)
           /\ ToSet(Append(s, e)) = ToSet(s) \cup {e}
           /\ IsInjective(s) /\ e \notin ToSet(s) => IsInjective(Append(s, e))
  <1>1. /\ Append(s, e) \in Seq(S) /\ Len(Append(s, e)) = Len(s) + 1
        /\ DOMAIN s = 1..Len(s) /\ DOMAIN Append(s, e) = 1..(Len(s) + 1) /\ Len(s) \in Nat
        /\ \A i \in 1..Len(s) : Append(s, e)[i] = s[i]
        /\ Append(s, e)[Len(s) + 1] = e
    BY AppendProperties, LenProperties
  <1>2. ToSet(Append(s, e)) = ToSet(s) \cup {e}
    BY <1>1 DEF ToSet
  <1>3. ASSUME IsInjective(s), e \notin ToSet(s)
        PROVE  IsInjective(Append(s, e))
    BY <1>1, <1>3 DEF ToSet, IsInjective
  <1> QED  BY <1>1, <1>2, <1>3

\* Concatenation joins the elements.
LEMMA ConcatElements ==
    ASSUME NEW S, NEW s \in Seq(S), NEW t \in Seq(S)
    PROVE  /\ s \o t \in Seq(S)
           /\ ToSet(s \o t) = ToSet(s) \cup ToSet(t)
           /\ IsInjective(s) /\ IsInjective(t) /\ ToSet(t) \cap ToSet(s) = {}
                => IsInjective(s \o t)
  <1>1. /\ s \o t \in Seq(S) /\ Len(s) \in Nat /\ Len(t) \in Nat
        /\ DOMAIN s = 1..Len(s) /\ DOMAIN t = 1..Len(t)
        /\ DOMAIN (s \o t) = 1..(Len(s) + Len(t))
        /\ \A i \in 1..(Len(s) + Len(t)) :
               (s \o t)[i] = IF i <= Len(s) THEN s[i] ELSE t[i - Len(s)]
    BY ConcatProperties, LenProperties
  <1>2. \A i \in 1..Len(s) : i \in DOMAIN (s \o t) /\ (s \o t)[i] = s[i]
    BY <1>1
  <1>3. \A i \in 1..Len(t) : i + Len(s) \in DOMAIN (s \o t) /\ (s \o t)[i + Len(s)] = t[i]
    BY <1>1
  <1>4. \A i \in DOMAIN (s \o t) : \/ i \in 1..Len(s)
                                   \/ i - Len(s) \in 1..Len(t) /\ i - Len(s) + Len(s) = i
    BY <1>1
  <1>5. ToSet(s \o t) \subseteq ToSet(s) \cup ToSet(t)
    BY <1>1, <1>4 DEF ToSet
  <1>6. ToSet(s) \subseteq ToSet(s \o t)
    BY <1>1, <1>2 DEF ToSet
  <1>7. ToSet(t) \subseteq ToSet(s \o t)
    BY <1>1, <1>3 DEF ToSet
  <1>8. ASSUME IsInjective(s), IsInjective(t), ToSet(t) \cap ToSet(s) = {}
        PROVE  IsInjective(s \o t)
    <2>1. \A i \in 1..Len(s), j \in 1..Len(t) : s[i] # t[j]
      BY <1>1, <1>8 DEF ToSet
    <2>2. SUFFICES ASSUME NEW i \in DOMAIN (s \o t), NEW j \in DOMAIN (s \o t),
                          (s \o t)[i] = (s \o t)[j]
                   PROVE  i = j
      BY DEF IsInjective
    <2>3. CASE i <= Len(s) /\ j <= Len(s)
      BY <1>1, <1>8, <2>2, <2>3 DEF IsInjective
    <2>4. CASE i > Len(s) /\ j > Len(s)
      <3>1. i - Len(s) \in DOMAIN t /\ j - Len(s) \in DOMAIN t /\ t[i - Len(s)] = t[j - Len(s)]
        BY <1>1, <2>2, <2>4
      <3>2. i - Len(s) = j - Len(s)
        BY <1>8, <3>1 DEF IsInjective
      <3> QED  BY <1>1, <3>2
    <2>5. CASE i <= Len(s) /\ j > Len(s)
      BY <1>1, <2>1, <2>2, <2>5
    <2>6. CASE i > Len(s) /\ j <= Len(s)
      BY <1>1, <2>1, <2>2, <2>6
    <2> QED  BY <1>1, <2>3, <2>4, <2>5, <2>6
  <1> QED  BY <1>1, <1>5, <1>6, <1>7, <1>8

\* Tail takes the first element away.
LEMMA TailElements ==
    ASSUME NEW S, NEW s \in Seq(S), s # <<>>
    PROVE  /\ Tail(s) \in Seq(S) /\ Head(s) \in S
           /\ ToSet(s) = ToSet(Tail(s)) \cup {Head(s)}
           /\ IsInjective(s) => IsInjective(Tail(s)) /\ Head(s) \notin ToSet(Tail(s))
  <1>1. /\ Head(s) \in S /\ Tail(s) \in Seq(S) /\ Len(s) \in Nat \ {0}
        /\ DOMAIN s = 1..Len(s) /\ DOMAIN Tail(s) = 1..(Len(s) - 1)
        /\ \A i \in 1..(Len(s) - 1) : Tail(s)[i] = s[i + 1]
    BY HeadTailProperties, LenProperties, EmptySeq
  <1>2. Head(s) = s[1]
    OBVIOUS
  <1>3. \A i \in DOMAIN s : i = 1 \/ (i - 1 \in DOMAIN Tail(s) /\ Tail(s)[i - 1] = s[i])
    BY <1>1
  <1>4. \A i \in DOMAIN Tail(s) : i + 1 \in DOMAIN s /\ i + 1 # 1 /\ Tail(s)[i] = s[i + 1]
    BY <1>1
  <1>5. ToSet(s) = ToSet(Tail(s)) \cup {Head(s)}
    <2>1. ToSet(s) \subseteq ToSet(Tail(s)) \cup {Head(s)}
      BY <1>2, <1>3 DEF ToSet
    <2>2. ToSet(Tail(s)) \subseteq ToSet(s)
      BY <1>4 DEF ToSet
    <2>3. Head(s) \in ToSet(s)
      BY <1>1, <1>2 DEF ToSet
    <2> QED  BY <2>1, <2>2, <2>3
  <1>6. ASSUME IsInjective(s)
        PROVE  IsInjective(Tail(s)) /\ Head(s) \notin ToSet(Tail(s))
    <2>1. IsInjective(Tail(s))
      BY <1>1, <1>4, <1>6 DEF IsInjective
    <2>2. Head(s) \notin ToSet(Tail(s))
      BY <1>1, <1>2, <1>4, <1>6 DEF IsInjective, ToSet
    <2> QED  BY <2>1, <2>2
  <1> QED  BY <1>1, <1>5, <1>6

\* The indices of a row are finitely many.
LEMMA RowIsFinite ==
    ASSUME NEW s \in Seq(Events), NEW b
    PROVE  /\ IsFiniteSet({i \in DOMAIN s : Bucket[s[i]] = b})
           /\ InRow(s, b) \in Nat
  <1> DEFINE A == {i \in DOMAIN s : Bucket[s[i]] = b}
  <1>1. DOMAIN s = 1..Len(s) /\ Len(s) \in Nat
    BY LenProperties
  <1>2. IsFiniteSet(1..Len(s))
    BY <1>1, FS_Interval
  <1>3. A \in SUBSET (1..Len(s))
    BY <1>1
  <1>4. IsFiniteSet(A)
    BY <1>2, <1>3, FS_Subset
  <1>5. Cardinality(A) \in Nat
    BY <1>4, FS_CardinalityType
  <1> QED  BY <1>4, <1>5 DEF InRow

\* A table that grows by a batch has at least what both had in a row.
LEMMA RowsAdd ==
    ASSUME NEW s \in Seq(Events), NEW t \in Seq(Events), NEW b
    PROVE  InRow(s, b) + InRow(t, b) <= InRow(s \o t, b)
  <1> DEFINE A == {i \in DOMAIN s : Bucket[s[i]] = b}
             B == {i \in DOMAIN t : Bucket[t[i]] = b}
             C == {i \in DOMAIN (s \o t) : Bucket[(s \o t)[i]] = b}
             D == C \ A
             f == [i \in B |-> i + Len(s)]
  <1>1. /\ s \o t \in Seq(Events) /\ Len(s) \in Nat /\ Len(t) \in Nat
        /\ DOMAIN s = 1..Len(s) /\ DOMAIN t = 1..Len(t)
        /\ DOMAIN (s \o t) = 1..(Len(s) + Len(t))
        /\ \A i \in 1..(Len(s) + Len(t)) :
               (s \o t)[i] = IF i <= Len(s) THEN s[i] ELSE t[i - Len(s)]
    BY ConcatProperties, LenProperties
  <1>2. IsFiniteSet(A) /\ IsFiniteSet(B) /\ IsFiniteSet(C)
    BY <1>1, RowIsFinite
  <1>3. A \subseteq C
    BY <1>1
  <1>4. IsFiniteSet(D) /\ Cardinality(D) \in Nat /\ Cardinality(A) \in Nat
        /\ Cardinality(B) \in Nat /\ Cardinality(C) \in Nat
    BY <1>2, FS_Subset, FS_CardinalityType
  <1>5. \A i \in B : i + Len(s) \in D
    BY <1>1
  <1>6. f \in Injection(B, D)
    <2>1. f \in [B -> D]
      BY <1>5
    <2>2. \A i, j \in B : i + Len(s) = j + Len(s) => i = j
      BY <1>1
    <2> QED  BY <2>1, <2>2 DEF Injection, IsInjective
  <1>7. C = A \cup D /\ A \cap D = {}
    BY <1>3
  <1>8. InRow(s, b) = Cardinality(A) /\ InRow(t, b) = Cardinality(B)
        /\ InRow(s \o t, b) = Cardinality(C)
    BY DEF InRow
  <1> HIDE DEF A, B, C, D, f
  <1>9. Cardinality(B) <= Cardinality(D)
    BY <1>4, <1>6, FS_Injection
  <1>10. Cardinality(A \cup D) = Cardinality(A) + Cardinality(D) - Cardinality(A \cap D)
    BY <1>2, <1>4, FS_Union
  <1>11. Cardinality(C) = Cardinality(A) + Cardinality(D)
    <2>1. Cardinality(A \cap D) = 0
      BY <1>7, FS_EmptySet
    <2>2. Cardinality(C) = Cardinality(A \cup D)
      BY <1>7
    <2> QED  BY <1>4, <1>10, <2>1, <2>2
  <1> QED  BY <1>4, <1>8, <1>9, <1>11
-----------------------------------------------------------------------------
\* The invariant holds when the logger starts.
LEMMA UsageInitInv == UsageInit => UsageInv
  <1> SUFFICES ASSUME UsageInit PROVE UsageInv
    OBVIOUS
  <1> USE DEF UsageInit
  <1>1. /\ buffer \in Seq(Events) /\ batch \in Seq(Events) /\ stored \in Seq(Events)
        /\ Len(buffer) = 0
    BY EmptySeq
  <1>2. /\ ToSet(buffer) = {} /\ ToSet(batch) = {} /\ ToSet(stored) = {}
        /\ IsInjective(buffer) /\ IsInjective(batch) /\ IsInjective(stored)
    BY EmptyElements
  <1>3. UsageTyped
    <2>1. Len(buffer) <= BufferSize
      BY <1>1, UsageAssumption
    <2>2. caller \in [Events -> {"new", "sending", "returned"}] /\ rolled \in [Buckets -> Nat]
      OBVIOUS
    <2> QED  BY <1>1, <1>2, <2>1, <2>2 DEF UsageTyped, UsageTypeOK
  <1>4. OnePlace /\ Underway /\ Accounted /\ Stopping /\ BudgetCovers
    BY <1>2 DEF OnePlace, Underway, Accounted, Stopping, BudgetCovers
  <1>5. RollupsFit
    <2>1. \A b \in Buckets : InRow(stored, b) \in Nat /\ rolled[b] = 0
      BY <1>1, RowIsFinite
    <2> QED  BY <2>1 DEF RollupsFit
  <1> QED  BY <1>3, <1>4, <1>5 DEF UsageInv

\* Log counts an event.
LEMMA CountInv ==
    ASSUME UsageInv, NEW e \in Events, Count(e)
    PROVE  UsageInv'
  <1> USE DEF UsageInv, Count, database
  <1>1. caller \in [Events -> {"new", "sending", "returned"}]
    BY DEF UsageTyped, UsageTypeOK
  <1>2. UsageTyped'
    BY <1>1 DEF UsageTyped, UsageTypeOK
  <1>3. Underway' /\ Accounted'
    BY <1>1 DEF Underway, Accounted
  <1>4. Stopping'
    BY <1>1 DEF Stopping
  <1>5. OnePlace' /\ BudgetCovers'
    BY DEF OnePlace, BudgetCovers
  <1>6. RollupsFit'
    BY DEF RollupsFit
  <1> QED  BY <1>2, <1>3, <1>4, <1>5, <1>6

\* Log sends an event, or drops it.
LEMMA SendInv ==
    ASSUME UsageInv, NEW e \in Events, Send(e)
    PROVE  UsageInv'
  <1> USE DEF UsageInv, Send, database
  <1>1. /\ caller \in [Events -> {"new", "sending", "returned"}]
        /\ buffer \in Seq(Events) /\ Len(buffer) \in Nat
    BY LenProperties DEF UsageTyped, UsageTypeOK
  <1>2. /\ e \notin ToSet(buffer) /\ e \notin ToSet(batch) /\ e \notin ToSet(stored)
        /\ e \in counted /\ done = FALSE /\ last = FALSE
    BY DEF Underway, Stopping, UsageTyped, UsageTypeOK
  <1>3. /\ buffer' \in Seq(Events) /\ ToSet(buffer') = ToSet(buffer) \cup {e}
        /\ IsInjective(buffer') /\ Len(buffer') = Len(buffer) + 1
    BY <1>1, <1>2, AppendElements, AppendProperties DEF OnePlace
  <1>4. UsageTyped'
    BY <1>1, <1>3, UsageAssumption DEF UsageTyped, UsageTypeOK
  <1>5. OnePlace' /\ BudgetCovers'
    BY <1>2, <1>3 DEF OnePlace, BudgetCovers
  <1>6. Underway' /\ Accounted'
    BY <1>1, <1>3 DEF Underway, Accounted
  <1>7. Stopping'
    BY <1>2 DEF Stopping
  <1>8. RollupsFit'
    BY DEF RollupsFit
  <1> QED  BY <1>4, <1>5, <1>6, <1>7, <1>8

LEMMA DropInv ==
    ASSUME UsageInv, NEW e \in Events, Drop(e)
    PROVE  UsageInv'
  <1> USE DEF UsageInv, Drop, database
  <1>1. caller \in [Events -> {"new", "sending", "returned"}]
    BY DEF UsageTyped, UsageTypeOK
  <1>2. UsageTyped'
    BY <1>1 DEF UsageTyped, UsageTypeOK
  <1>3. Underway' /\ Accounted'
    BY <1>1 DEF Underway, Accounted
  <1>4. Stopping'
    BY <1>1 DEF Stopping
  <1>5. OnePlace' /\ BudgetCovers'
    BY DEF OnePlace, BudgetCovers
  <1>6. RollupsFit'
    BY DEF RollupsFit
  <1> QED  BY <1>2, <1>3, <1>4, <1>5, <1>6

\* An event moves from the channel to the batch.
LEMMA MoveInv ==
    ASSUME UsageInv, TakeEvent \/ Drain
    PROVE  UsageInv'
  <1> USE DEF UsageInv
  <1>1. /\ buffer # <<>> /\ run \in {"select", "drain"} /\ run' \in {run, "flush"}
        /\ batch' = Append(batch, Head(buffer)) /\ buffer' = Tail(buffer)
        /\ UNCHANGED <<dropOnFull, caller, counted, last, done, todo, stored, rolled, lost>>
    BY DEF TakeEvent, Drain, database
  <1>2. /\ buffer \in Seq(Events) /\ batch \in Seq(Events) /\ Len(buffer) \in Nat
        /\ IsInjective(buffer) /\ IsInjective(batch) /\ ToSet(buffer) \cap ToSet(batch) = {}
    BY LenProperties DEF UsageTyped, OnePlace
  <1>3. /\ buffer' \in Seq(Events) /\ Head(buffer) \in Events
        /\ ToSet(buffer) = ToSet(buffer') \cup {Head(buffer)}
        /\ IsInjective(buffer') /\ Head(buffer) \notin ToSet(buffer')
        /\ Len(buffer') = Len(buffer) - 1
    BY <1>1, <1>2, TailElements, HeadTailProperties
  <1>4. /\ batch' \in Seq(Events) /\ ToSet(batch') = ToSet(batch) \cup {Head(buffer)}
        /\ IsInjective(batch')
    BY <1>1, <1>2, <1>3, AppendElements
  <1>5. UsageTyped'
    BY <1>1, <1>2, <1>3, <1>4, UsageAssumption DEF UsageTyped, UsageTypeOK
  <1>6. OnePlace'
    BY <1>1, <1>3, <1>4 DEF OnePlace
  <1>7. Underway' /\ Accounted' /\ BudgetCovers'
    BY <1>1, <1>3, <1>4 DEF Underway, Accounted, BudgetCovers
  <1>8. Stopping'
    BY <1>1 DEF Stopping
  <1>9. RollupsFit'
    BY <1>1 DEF RollupsFit
  <1> QED  BY <1>5, <1>6, <1>7, <1>8, <1>9

\* Steps that only move the goroutine or call Stop.
LEMMA QuietInv ==
    ASSUME UsageInv, Timer \/ NoticeDone \/ DrainEnds \/ Stop \/ UNCHANGED usageVars
    PROVE  UsageInv'
  <1> USE DEF UsageInv
  <1>1. UNCHANGED <<dropOnFull, caller, counted, buffer, batch, todo, stored, rolled, lost>>
    BY DEF Timer, NoticeDone, DrainEnds, Stop, database, usageVars
  <1>2. /\ run' \in {"select", "drain", "flush", "rollup", "exited"}
        /\ last' \in BOOLEAN /\ done' \in BOOLEAN
        /\ run' = "rollup" <=> run = "rollup"
    BY DEF Timer, NoticeDone, DrainEnds, Stop, usageVars, UsageTyped, UsageTypeOK
  <1>3. UsageTyped'
    BY <1>1, <1>2 DEF UsageTyped, UsageTypeOK
  <1>4. OnePlace' /\ BudgetCovers'
    BY <1>1, <1>2 DEF OnePlace, BudgetCovers
  <1>5. Underway' /\ Accounted'
    BY <1>1 DEF Underway, Accounted
  <1>6. Stopping'
    BY <1>1 DEF Stopping, Timer, NoticeDone, DrainEnds, Stop, usageVars, UsageTyped, UsageTypeOK
  <1>7. RollupsFit'
    BY <1>1, <1>2 DEF RollupsFit
  <1> QED  BY <1>3, <1>4, <1>5, <1>6, <1>7

\* The transaction fails, or fails to say that it committed.
LEMMA FlushFailsInv ==
    ASSUME UsageInv, FlushFails
    PROVE  UsageInv'
  <1> USE DEF UsageInv
  <1>1. /\ run = "flush" /\ lost' = lost \cup ToSet(batch) /\ batch' = <<>>
        /\ run' = (IF last THEN "exited" ELSE "select")
        /\ stored' = stored \/ stored' = stored \o batch
        /\ UNCHANGED <<dropOnFull, caller, counted, buffer, last, done, todo, rolled>>
    BY DEF FlushFails, Resume
  <1>2. /\ batch \in Seq(Events) /\ stored \in Seq(Events)
        /\ IsInjective(batch) /\ IsInjective(stored) /\ ToSet(batch) \cap ToSet(stored) = {}
        /\ ToSet(batch) \subseteq Events
    BY <1>1 DEF UsageTyped, UsageTypeOK, OnePlace
  <1>3. /\ batch' \in Seq(Events) /\ ToSet(batch') = {} /\ IsInjective(batch')
    BY <1>1, EmptyElements, EmptySeq
  <1>4. /\ stored' \in Seq(Events) /\ IsInjective(stored')
        /\ ToSet(stored) \subseteq ToSet(stored')
        /\ ToSet(stored') \subseteq ToSet(stored) \cup ToSet(batch)
    <2>1. CASE stored' = stored
      BY <1>2, <2>1
    <2>2. CASE stored' = stored \o batch
      BY <1>2, <2>2, ConcatElements
    <2> QED  BY <1>1, <2>1, <2>2
  <1>5. UsageTyped'
    BY <1>1, <1>2, <1>3, <1>4 DEF UsageTyped, UsageTypeOK
  <1>6. OnePlace'
    BY <1>1, <1>3, <1>4 DEF OnePlace
  <1>7. Underway' /\ Accounted' /\ BudgetCovers'
    BY <1>1, <1>3, <1>4 DEF Underway, Accounted, BudgetCovers
  <1>8. Stopping'
    BY <1>1 DEF Stopping, UsageTyped, UsageTypeOK
  <1>9. RollupsFit'
    <2>1. ASSUME NEW b \in Buckets PROVE rolled[b] <= InRow(stored', b)
      <3>1. /\ InRow(stored, b) \in Nat /\ InRow(batch, b) \in Nat
            /\ InRow(stored \o batch, b) \in Nat
        BY <1>2, RowIsFinite, ConcatElements
      <3>2. InRow(stored, b) <= InRow(stored', b)
        <4>1. InRow(stored, b) + InRow(batch, b) <= InRow(stored \o batch, b)
          BY <1>2, RowsAdd
        <4>2. CASE stored' = stored
          BY <3>1, <4>2
        <4>3. CASE stored' = stored \o batch
          BY <3>1, <4>1, <4>3
        <4> QED  BY <1>1, <4>2, <4>3
      <3>3. rolled[b] \in Nat /\ rolled[b] <= InRow(stored, b)
        BY <1>1 DEF RollupsFit, UsageTyped, UsageTypeOK
      <3>4. InRow(stored', b) \in Nat
        BY <1>4, RowIsFinite
      <3> QED  BY <3>1, <3>2, <3>3, <3>4
    <2>2. ASSUME NEW b \in Buckets PROVE rolled[b] + 0 <= InRow(stored', b)
      BY <2>1 DEF UsageTyped, UsageTypeOK
    <2> QED  BY <1>1, <2>2 DEF RollupsFit
  <1> QED  BY <1>5, <1>6, <1>7, <1>8, <1>9

\* The transaction commits and leaves the rollups to be made.
LEMMA FlushCommitsInv ==
    ASSUME UsageInv, FlushCommits
    PROVE  UsageInv'
  <1> USE DEF UsageInv
  <1>1. /\ run = "flush" /\ run' = "rollup" /\ stored' = stored \o batch
        /\ todo' = RollupsOf(batch)
        /\ UNCHANGED <<dropOnFull, caller, counted, buffer, batch, last, done, rolled, lost>>
    BY DEF FlushCommits
  <1>2. /\ batch \in Seq(Events) /\ stored \in Seq(Events)
        /\ IsInjective(batch) /\ IsInjective(stored) /\ ToSet(batch) \cap ToSet(stored) = {}
    BY <1>1 DEF UsageTyped, OnePlace
  <1>3. /\ stored' \in Seq(Events) /\ IsInjective(stored')
        /\ ToSet(stored') = ToSet(stored) \cup ToSet(batch)
    BY <1>1, <1>2, ConcatElements
  <1>4. todo' \subseteq Buckets
    <2>1. \A i \in DOMAIN batch : batch[i] \in Events
      BY <1>2, LenProperties, ElementOfSeq
    <2> QED  BY <1>1, <2>1, UsageAssumption DEF RollupsOf
  <1>5. UsageTyped'
    BY <1>1, <1>3, <1>4 DEF UsageTyped, UsageTypeOK
  <1>6. OnePlace'
    BY <1>1, <1>3 DEF OnePlace
  <1>7. Underway' /\ Accounted' /\ BudgetCovers'
    BY <1>1, <1>3 DEF Underway, Accounted, BudgetCovers
  <1>8. Stopping'
    BY <1>1 DEF Stopping
  <1>9. RollupsFit'
    <2>1. ASSUME NEW b \in Buckets
          PROVE  rolled[b] + (IF b \in todo' THEN InRow(batch, b) ELSE 0) <= InRow(stored', b)
      <3>1. /\ InRow(stored, b) \in Nat /\ InRow(batch, b) \in Nat
            /\ InRow(stored', b) \in Nat
        BY <1>2, <1>3, RowIsFinite
      <3>2. InRow(stored, b) + InRow(batch, b) <= InRow(stored', b)
        BY <1>1, <1>2, RowsAdd
      <3>3. rolled[b] \in Nat /\ rolled[b] <= InRow(stored, b)
        BY <1>1 DEF RollupsFit, UsageTyped, UsageTypeOK
      <3> QED  BY <3>1, <3>2, <3>3
    <2> QED  BY <1>1, <2>1 DEF RollupsFit
  <1> QED  BY <1>5, <1>6, <1>7, <1>8, <1>9

\* One row is rolled up, or fails to be.
LEMMA RollupInv ==
    ASSUME UsageInv, NEW r \in Buckets, Rollup(r)
    PROVE  UsageInv'
  <1> USE DEF UsageInv
  <1>1. /\ run = "rollup" /\ r \in todo /\ todo' = todo \ {r}
        /\ run' = (IF todo' = {} THEN IF last THEN "exited" ELSE "select" ELSE "rollup")
        /\ batch' = (IF todo' = {} THEN <<>> ELSE batch)
        /\ rolled' = [rolled EXCEPT ![r] = @ + InRow(batch, r)] \/ rolled' = rolled
        /\ UNCHANGED <<dropOnFull, caller, counted, buffer, last, done, stored, lost>>
    BY DEF Rollup, RollsUp, Resume, Share, InRow
  <1>2. /\ batch \in Seq(Events) /\ IsInjective(batch) /\ stored \in Seq(Events)
        /\ ToSet(batch) \subseteq ToSet(stored) /\ rolled \in [Buckets -> Nat]
    BY <1>1 DEF UsageTyped, UsageTypeOK, OnePlace
  <1>3. /\ batch' \in Seq(Events) /\ IsInjective(batch')
        /\ ToSet(batch') \subseteq ToSet(batch)
        /\ todo' = {} => ToSet(batch') = {}
    BY <1>1, <1>2, EmptyElements, EmptySeq
  <1>4. \A b \in Buckets : InRow(batch, b) \in Nat /\ InRow(stored, b) \in Nat
    BY <1>2, RowIsFinite
  <1>5. rolled' \in [Buckets -> Nat]
    BY <1>1, <1>2, <1>4
  <1>6. UsageTyped'
    BY <1>1, <1>3, <1>5 DEF UsageTyped, UsageTypeOK
  <1>7. OnePlace'
    BY <1>1, <1>3 DEF OnePlace
  <1>8. Underway' /\ Accounted' /\ BudgetCovers'
    BY <1>1, <1>2, <1>3 DEF Underway, Accounted, BudgetCovers
  <1>9. Stopping'
    BY <1>1 DEF Stopping, UsageTyped, UsageTypeOK
  <1>10. RollupsFit'
    <2>1. ASSUME NEW b \in Buckets
          PROVE  rolled'[b] + (IF run' = "rollup" /\ b \in todo' THEN InRow(batch', b) ELSE 0)
                    <= InRow(stored', b)
      <3>1. rolled[b] + (IF b \in todo THEN InRow(batch, b) ELSE 0) <= InRow(stored, b)
        BY <1>1 DEF RollupsFit
      <3>2. rolled[b] \in Nat /\ InRow(batch, b) \in Nat /\ InRow(stored, b) \in Nat
        BY <1>2, <1>4
      <3>3. run' = "rollup" => batch' = batch
        BY <1>1
      <3>4. CASE b = r
        <4>1. rolled'[b] \in {rolled[b], rolled[b] + InRow(batch, b)} /\ b \notin todo'
          BY <1>1, <1>2, <3>4
        <4> QED  BY <1>1, <3>1, <3>2, <3>4, <4>1
      <3>5. CASE b # r
        <4>1. rolled'[b] = rolled[b] /\ (b \in todo' <=> b \in todo)
          BY <1>1, <1>2, <3>5
        <4> QED  BY <1>1, <3>1, <3>2, <3>3, <4>1
      <3> QED  BY <3>4, <3>5
    <2> QED  BY <2>1 DEF RollupsFit
  <1> QED  BY <1>6, <1>7, <1>8, <1>9, <1>10

\* The process dies and restarts from the database.
LEMMA CrashInv ==
    ASSUME UsageInv, Crash
    PROVE  UsageInv'
  <1> USE DEF UsageInv
  <1>1. /\ caller' = [e \in Events |-> IF caller[e] = "new" THEN "new" ELSE "returned"]
        /\ counted' = ToSet(stored)
        /\ lost' = lost \cup ToSet(buffer) \cup (ToSet(batch) \ ToSet(stored))
                       \cup {e \in Events : caller[e] = "sending"}
        /\ buffer' = <<>> /\ batch' = <<>> /\ run' = "select" /\ last' = FALSE
        /\ done' = FALSE /\ todo' = {}
        /\ UNCHANGED <<dropOnFull, stored, rolled>>
    BY DEF Crash, database
  <1>2. /\ caller \in [Events -> {"new", "sending", "returned"}]
        /\ stored \in Seq(Events) /\ ToSet(stored) \subseteq Events
        /\ ToSet(buffer) \subseteq Events /\ ToSet(batch) \subseteq Events
        /\ lost \subseteq Events /\ rolled \in [Buckets -> Nat]
    BY DEF UsageTyped, UsageTypeOK
  <1>3. /\ batch' \in Seq(Events) /\ ToSet(batch') = {} /\ IsInjective(batch')
        /\ buffer' \in Seq(Events) /\ ToSet(buffer') = {} /\ IsInjective(buffer')
        /\ Len(buffer') = 0
    BY <1>1, EmptyElements, EmptySeq
  <1>4. UsageTyped'
    <2>1. caller' \in [Events -> {"new", "sending", "returned"}]
      BY <1>1
    <2>2. dropOnFull' \in DropModes
      BY <1>1 DEF UsageTyped, UsageTypeOK
    <2>3. Len(buffer') <= BufferSize
      BY <1>3, UsageAssumption
    <2> QED  BY <1>1, <1>2, <1>3, <2>1, <2>2, <2>3 DEF UsageTyped, UsageTypeOK
  <1>5. OnePlace'
    BY <1>1, <1>3 DEF OnePlace
  <1>6. Underway' /\ BudgetCovers'
    BY <1>1, <1>3 DEF Underway, BudgetCovers
  <1>7. Accounted'
    BY <1>1, <1>2, <1>3 DEF Accounted
  <1>8. Stopping'
    BY <1>1 DEF Stopping
  <1>9. RollupsFit'
    <2>1. \A b \in Buckets : InRow(stored, b) \in Nat /\ InRow(batch, b) \in Nat
      BY RowIsFinite DEF UsageTyped
    <2>2. ASSUME NEW b \in Buckets PROVE rolled[b] + 0 <= InRow(stored, b)
      <3>1. rolled[b] + (IF run = "rollup" /\ b \in todo THEN InRow(batch, b) ELSE 0)
               <= InRow(stored, b)
        BY DEF RollupsFit
      <3>2. rolled[b] \in Nat
        BY <1>2
      <3> QED  BY <2>1, <3>1, <3>2
    <2> QED  BY <1>1, <2>2 DEF RollupsFit
  <1> QED  BY <1>4, <1>5, <1>6, <1>7, <1>8, <1>9

\* Every step keeps the invariant.
LEMMA UsageStepInv == UsageInv /\ [UsageNext]_usageVars => UsageInv'
  <1> SUFFICES ASSUME UsageInv, [UsageNext]_usageVars PROVE UsageInv'
    OBVIOUS
  <1>1. CASE \E e \in Events : Count(e) \/ Send(e) \/ Drop(e)
    BY <1>1, CountInv, SendInv, DropInv
  <1>2. CASE TakeEvent \/ Drain
    BY <1>2, MoveInv
  <1>3. CASE Timer \/ NoticeDone \/ DrainEnds \/ Stop \/ Exited \/ UNCHANGED usageVars
    BY <1>3, QuietInv DEF Exited
  <1>4. CASE FlushFails
    BY <1>4, FlushFailsInv
  <1>5. CASE FlushCommits
    BY <1>5, FlushCommitsInv
  <1>6. CASE \E b \in Buckets : Rollup(b)
    BY <1>6, RollupInv
  <1>7. CASE Crash
    BY <1>7, CrashInv
  <1> QED  BY <1>1, <1>2, <1>3, <1>4, <1>5, <1>6, <1>7 DEF UsageNext, Runs

\* The invariant says all that UsageIsKept asks.
LEMMA UsageInvKeeps == UsageInv => UsageIsKept
  <1> SUFFICES ASSUME UsageInv PROVE UsageIsKept
    OBVIOUS
  <1> USE DEF UsageInv
  <1>1. StoredOnce /\ BudgetCovers
    BY DEF StoredOnce, OnePlace
  <1>2. StopFlushes
    BY EmptyElements DEF StopFlushes, Stopping, Accounted
  <1>3. RollupsNeverAhead
    <2>1. ASSUME NEW b \in Buckets PROVE rolled[b] <= InRow(stored, b)
      <3>1. rolled[b] \in Nat /\ InRow(stored, b) \in Nat /\ InRow(batch, b) \in Nat
        BY RowIsFinite DEF UsageTyped, UsageTypeOK
      <3>2. rolled[b] + (IF run = "rollup" /\ b \in todo THEN InRow(batch, b) ELSE 0)
               <= InRow(stored, b)
        BY DEF RollupsFit
      <3> QED  BY <3>1, <3>2
    <2> QED  BY <2>1 DEF RollupsNeverAhead, InRow
  <1> QED  BY <1>1, <1>2, <1>3 DEF UsageIsKept

\* The usage logger keeps its types and the inductive invariant, for any
\* events, any buffer size and either way of treating a full buffer.
THEOREM UsageInvariance == UsageSpec => []UsageInv
  BY UsageInitInv, UsageStepInv, PTL DEF UsageSpec

\* usage.Logger stores no event twice and forgets none that it does not report
\* lost, its rollups never run ahead of usage_events, and the token counter
\* covers whatever is or will be stored, also after a crash and a restart.
THEOREM UsageIsAlwaysKept == UsageSpec => []UsageIsKept
  BY UsageInvariance, UsageInvKeeps, PTL

-----------------------------------------------------------------------------
(***************************************************************************)
(* Proofs about StreamRelay: whatever the upstream sends and whenever it   *)
(* or the client goes away, the breaker gets one verdict that agrees with  *)
(* what the client saw, the client's stream ends cleanly, and the usage    *)
(* log agrees with both.                                                   *)
(***************************************************************************)

EventViews == [open : BOOLEAN, data : 0..2, done : BOOLEAN]

ClientViews == [event : EventViews, gotDone : BOOLEAN, aborts : Nat,
                afterDone : BOOLEAN, midEvent : BOOLEAN]

Kinds == {"data", "done", "blank"}

\* The types of the variables, some of which StreamTypeOK leaves out.
Typed ==
    /\ StreamTypeOK
    /\ restore \in BOOLEAN /\ adapter \in BOOLEAN /\ hasBreaker \in BOOLEAN
    /\ terminalSeen \in BOOLEAN /\ clientDisconnected \in BOOLEAN
    /\ incomplete \in BOOLEAN /\ aborted \in BOOLEAN /\ adapterAborted \in BOOLEAN
    /\ queue \in Seq(Kinds)
    /\ client \in ClientViews

\* Neither [DONE] nor an abort lets the loop go on.
LoopRuns ==
    pc \in {"scan", "emit"} =>
        /\ terminalSeen = FALSE /\ aborted = FALSE
        /\ clientDisconnected = FALSE /\ incomplete = FALSE
        /\ client.aborts = 0 /\ client.afterDone = FALSE

\* terminalSeen is what the client makes of the stream.
SeenIsGot == terminalSeen = client.gotDone

\* The path without an adapter follows the event the client is in the middle
\* of; on the others the client is never inside an event.
InStepWithClient ==
    /\ restore \/ adapter => client.event = NoEvent
    /\ ~restore /\ ~adapter /\ ~clientDisconnected /\ pc \in {"scan", "close"}
         => client.event = raw
    /\ ~clientDisconnected /\ pc = "classify" /\ ~terminalSeen => client.event.open = FALSE
    /\ pc = "emit" => ~restore /\ adapter

\* How an abort combines with the other ends of a stream. aborted is set at
\* most once, and only a read error on the restoring path can set it after the
\* loop saw [DONE] or a disconnect.
Aborts ==
    /\ aborted /\ ~restore => adapter /\ incomplete
    /\ aborted /\ (terminalSeen \/ clientDisconnected) => RestoreReadError
    /\ incomplete /\ terminalSeen => RestoreReadError
    /\ pc \in {"close", "classify"} => (client.aborts = 1 => aborted)
    /\ pc \in {"close", "classify"} => (incomplete => aborted)
    /\ pc \in {"close", "classify"} /\ restore => (client.aborts = 1 => adapterAborted)
    /\ client.aborts <= 1
    /\ client.midEvent = FALSE
    /\ client.afterDone => RestoreReadError

\* After the classification a stream is complete, abandoned or incomplete.
Sorted ==
    pc \in {"settle", "log", "done"} => incomplete \/ clientDisconnected \/ terminalSeen

\* The verdict as a function of the flags: an adapter abort on the plain path
\* has recorded its failure before Settle, everything else is recorded there.
VerdictFits ==
    verdict = IF ~hasBreaker THEN <<>>
              ELSE IF pc \notin {"log", "done"}
                   THEN IF aborted /\ ~restore THEN <<"failure">> ELSE <<>>
              ELSE << IF aborted THEN "failure"
                      ELSE IF clientDisconnected THEN "neutral"
                      ELSE IF terminalSeen THEN "success" ELSE "failure" >>

LogFits ==
    /\ logged # "none" => pc = "done"
    /\ logged = "upstream" => incomplete = FALSE

\* The inductive invariant.
StreamInv ==
    /\ Typed
    /\ LoopRuns
    /\ SeenIsGot
    /\ InStepWithClient
    /\ Aborts
    /\ Sorted
    /\ VerdictFits
    /\ LogFits

-----------------------------------------------------------------------------
(* What the client makes of a line, an event and an abort.                 *)

\* A line joins the event under way.
LEMMA ClientLine ==
    ASSUME NEW c \in ClientViews, NEW kind, kind # "blank"
    PROVE  LET e == Receive(c, kind)
           IN  /\ e \in ClientViews
               /\ e.event = LineIn(c.event, kind)
               /\ e.gotDone <=> c.gotDone
               /\ e.aborts = c.aborts
               /\ e.afterDone <=> (c.afterDone \/ c.gotDone)
               /\ e.midEvent <=> c.midEvent
  <1>1. LineIn(c.event, kind) \in EventViews
    BY DEF LineIn, EventViews, ClientViews
  <1> QED  BY <1>1 DEF Receive, ClientViews

\* A blank line ends the event, and [DONE] counts if it was all the event had.
LEMMA ClientBlank ==
    ASSUME NEW c \in ClientViews
    PROVE  LET e == Receive(c, "blank")
           IN  /\ e \in ClientViews
               /\ e.event = NoEvent
               /\ e.gotDone <=> (c.gotDone \/ IsTerminalEvent(c.event))
               /\ e.aborts = c.aborts
               /\ e.afterDone <=> c.afterDone
               /\ e.midEvent <=> c.midEvent
  <1>1. NoEvent \in EventViews
    BY DEF NoEvent, EventViews
  <1>2. IsTerminalEvent(c.event) \in BOOLEAN
    BY DEF IsTerminalEvent, ClientViews, EventViews
  <1> QED  BY <1>1, <1>2 DEF Receive, ClientViews

\* An event of its own completes [DONE] exactly if it is one.
LEMMA ClientEvent ==
    ASSUME NEW c \in ClientViews, c.event = NoEvent, NEW kind, kind # "blank"
    PROVE  LET e == ReceiveEvent(c, kind)
           IN  /\ e \in ClientViews
               /\ e.event = NoEvent
               /\ e.gotDone <=> (c.gotDone \/ kind = "done")
               /\ e.aborts = c.aborts
               /\ e.afterDone <=> (c.afterDone \/ c.gotDone)
               /\ e.midEvent <=> c.midEvent
  <1> DEFINE d == Receive(c, kind)
  <1>1. /\ d \in ClientViews /\ d.event = LineIn(NoEvent, kind)
        /\ (d.gotDone <=> c.gotDone) /\ d.aborts = c.aborts
        /\ (d.afterDone <=> c.afterDone \/ c.gotDone) /\ (d.midEvent <=> c.midEvent)
    BY ClientLine
  <1>2. IsTerminalEvent(LineIn(NoEvent, kind)) = (kind = "done")
    <2>1. CASE kind = "done"
      <3>1. LineIn(NoEvent, kind).open
        BY DEF LineIn
      <3>2. LineIn(NoEvent, kind).data = 1
        BY <2>1 DEF LineIn, NoEvent
      <3>3. LineIn(NoEvent, kind).done
        BY <2>1 DEF LineIn
      <3> QED  BY <2>1, <3>1, <3>2, <3>3 DEF IsTerminalEvent
    <2>2. CASE kind # "done"
      <3>1. LineIn(NoEvent, kind).done = FALSE
        BY <2>2 DEF LineIn, NoEvent
      <3> QED  BY <2>2, <3>1 DEF IsTerminalEvent
    <2> QED  BY <2>1, <2>2
  <1>3. ReceiveEvent(c, kind) = Receive(d, "blank")
    BY DEF ReceiveEvent
  <1> HIDE DEF d
  <1>4. LET e == Receive(d, "blank")
        IN  /\ e \in ClientViews
            /\ e.event = NoEvent
            /\ e.gotDone <=> (d.gotDone \/ IsTerminalEvent(d.event))
            /\ e.aborts = d.aborts
            /\ e.afterDone <=> d.afterDone
            /\ e.midEvent <=> d.midEvent
    BY <1>1, ClientBlank
  <1> QED  BY <1>1, <1>2, <1>3, <1>4

\* An abort event tells the client of the end, whatever it was doing.
LEMMA ClientAbort ==
    ASSUME NEW c \in ClientViews
    PROVE  LET e == ReceiveAbort(c)
           IN  /\ e \in ClientViews
               /\ e.event = NoEvent
               /\ e.gotDone <=> c.gotDone
               /\ e.aborts = c.aborts + 1
               /\ e.afterDone <=> (c.afterDone \/ c.gotDone)
               /\ e.midEvent <=> (c.midEvent \/ c.event.open)
  <1>1. NoEvent \in EventViews
    BY DEF NoEvent, EventViews
  <1>2. c.event.open \in BOOLEAN
    BY DEF ClientViews, EventViews
  <1>3. /\ c.gotDone \in BOOLEAN /\ c.afterDone \in BOOLEAN /\ c.midEvent \in BOOLEAN
        /\ c.aborts \in Nat
    BY DEF ClientViews
  <1>4. ReceiveAbort(c) \in ClientViews
    <2>1. ASSUME NEW l \in BOOLEAN, NEW m \in BOOLEAN, NEW n \in Nat
          PROVE  [c EXCEPT !.event = NoEvent, !.aborts = n, !.afterDone = l, !.midEvent = m]
                    \in ClientViews
      BY <1>1 DEF ClientViews
    <2>2. /\ (c.afterDone \/ c.gotDone) \in BOOLEAN
          /\ (c.midEvent \/ c.event.open) \in BOOLEAN
          /\ c.aborts + 1 \in Nat
      BY <1>2, <1>3
    <2> QED  BY <2>1, <2>2, Zenon DEF ReceiveAbort
  <1>5. ReceiveAbort(c).event = NoEvent /\ ReceiveAbort(c).gotDone = c.gotDone
    BY DEF ReceiveAbort, ClientViews
  <1>6. ReceiveAbort(c).aborts = c.aborts + 1
    BY DEF ReceiveAbort, ClientViews
  <1>7. ReceiveAbort(c).afterDone <=> (c.afterDone \/ c.gotDone)
    BY DEF ReceiveAbort, ClientViews
  <1>8. ReceiveAbort(c).midEvent <=> (c.midEvent \/ c.event.open)
    BY DEF ReceiveAbort, ClientViews
  <1> QED  BY <1>3, <1>4, <1>5, <1>6, <1>7, <1>8

\* What an adapter makes of a line is a sequence of lines.
LEMMA OutputsAreLines == \A out \in Outputs : out \in Seq(Kinds)
  BY DEF Outputs, Kinds

\* Joining a verdict to none, and none to a verdict.
LEMMA VerdictJoins ==
    /\ \A v \in STRING : <<>> \o <<v>> = <<v>>
    /\ <<"failure">> \o <<>> = <<"failure">>
    /\ <<>> \o <<>> = <<>>
  OBVIOUS

-----------------------------------------------------------------------------
\* The invariant holds when the relay starts.
LEMMA StreamInitInv == StreamInit => StreamInv
  <1> SUFFICES ASSUME StreamInit PROVE StreamInv
    OBVIOUS
  <1>1. NoEvent \in EventViews
    BY DEF NoEvent, EventViews
  <1>2. client \in ClientViews
    BY <1>1 DEF StreamInit, NewClient, ClientViews
  <1>3. Typed
    <2>1. restore \in BOOLEAN
      BY StreamAssumption DEF StreamInit
    <2>2. queue = <<>> /\ queue \in Seq(Kinds)
      BY DEF StreamInit
    <2>3. lines \in 0..MaxLines
      BY StreamAssumption DEF StreamInit
    <2> QED
      BY <1>1, <1>2, <2>1, <2>2, <2>3 DEF StreamInit, Typed, StreamTypeOK, EventViews
  <1>4. /\ client.gotDone = FALSE /\ client.aborts = 0 /\ client.midEvent = FALSE
        /\ client.afterDone = FALSE /\ client.event = NoEvent
    BY DEF StreamInit, NewClient
  <1>5. LoopRuns /\ SeenIsGot /\ InStepWithClient /\ Sorted /\ LogFits
    BY <1>4 DEF StreamInit, LoopRuns, SeenIsGot, InStepWithClient, Sorted, LogFits
  <1>6. Aborts
    BY <1>4 DEF StreamInit, Aborts
  <1>7. VerdictFits
    BY DEF StreamInit, VerdictFits
  <1> QED  BY <1>3, <1>5, <1>6, <1>7 DEF StreamInv

\* A write that fails ends the loop and changes nothing the client has seen.
LEMMA GoneInv ==
    ASSUME StreamInv, pc \in {"scan", "emit"}, ClientGone,
           UNCHANGED <<path, reader, verdict, logged>>,
           lines' \in 0..MaxLines, queue' = <<>>, raw' \in EventViews
    PROVE  StreamInv'
  <1> USE DEF StreamInv
  <1>1. /\ pc' = "close" /\ clientDisconnected' = TRUE
        /\ UNCHANGED <<terminalSeen, incomplete, aborted, adapterAborted, client>>
        /\ UNCHANGED <<restore, adapter, hasBreaker, reader, verdict, logged>>
    BY DEF ClientGone, BreakLoop, path
  <1>2. /\ terminalSeen = FALSE /\ aborted = FALSE /\ incomplete = FALSE
        /\ client.aborts = 0
    BY DEF LoopRuns
  <1>3. Typed'
    BY <1>1 DEF Typed, StreamTypeOK, EventViews
  <1>4. SeenIsGot' /\ InStepWithClient' /\ LoopRuns' /\ Sorted' /\ LogFits'
    BY <1>1 DEF SeenIsGot, InStepWithClient, LoopRuns, Sorted, LogFits
  <1>5. Aborts'
    BY <1>1, <1>2 DEF Aborts, RestoreReadError
  <1>6. VerdictFits'
    BY <1>1, <1>2 DEF VerdictFits
  <1> QED  BY <1>3, <1>4, <1>5, <1>6

\* The end of the body and the end of the scan.
LEMMA ReaderInv ==
    ASSUME StreamInv, ScanStops \/ \E how \in {"eof", "err"} : ReaderEnds(how)
    PROVE  StreamInv'
  <1> USE DEF StreamInv
  <1>1. /\ pc' \in {pc, "close"} /\ pc \in {"scan", "emit"} /\ (pc' # pc => pc = "scan")
        /\ reader' \in {"open", "eof", "err"}
        /\ UNCHANGED <<restore, adapter, hasBreaker, lines, queue, raw, terminalSeen,
                       clientDisconnected, incomplete, aborted, adapterAborted,
                       verdict, logged, client>>
    BY DEF ScanStops, ReaderEnds, path, flags, Typed, StreamTypeOK
  <1>2. /\ terminalSeen = FALSE /\ aborted = FALSE /\ incomplete = FALSE
        /\ client.aborts = 0 /\ clientDisconnected = FALSE
    BY <1>1 DEF LoopRuns
  <1>3. Typed'
    BY <1>1 DEF Typed, StreamTypeOK
  <1>4. SeenIsGot' /\ InStepWithClient' /\ LoopRuns' /\ Sorted' /\ LogFits'
    BY <1>1 DEF SeenIsGot, InStepWithClient, LoopRuns, Sorted, LogFits
  <1>5. client.afterDone = FALSE
    BY <1>1 DEF LoopRuns
  <1>6. Aborts'
    BY <1>1, <1>2, <1>5 DEF Aborts
  <1>7. VerdictFits'
    BY <1>1, <1>2 DEF VerdictFits
  <1> QED  BY <1>3, <1>4, <1>6, <1>7

\* A line that reaches the client: the loop goes on, or ends with [DONE].
LEMMA DeliveredInv ==
    ASSUME StreamInv, pc \in {"scan", "emit"}, Typed', pc' \in {"scan", "emit", "close"},
           UNCHANGED <<restore, adapter, hasBreaker, reader, clientDisconnected, incomplete,
                       aborted, adapterAborted, verdict, logged>>,
           terminalSeen' = client'.gotDone, terminalSeen' => pc' = "close",
           client'.aborts = client.aborts, ~client'.afterDone, ~client'.midEvent,
           pc' = "emit" => ~restore /\ adapter,
           restore \/ adapter => client'.event = NoEvent,
           ~restore /\ ~adapter => client'.event = raw'
    PROVE  StreamInv'
  <1> USE DEF StreamInv
  <1>1. /\ terminalSeen = FALSE /\ aborted = FALSE /\ incomplete = FALSE
        /\ client.aborts = 0 /\ clientDisconnected = FALSE
    BY DEF LoopRuns
  <1>2. client'.afterDone = FALSE /\ client'.midEvent = FALSE /\ client'.aborts = 0
    BY <1>1 DEF Typed, ClientViews
  <1>3. LoopRuns'
    BY <1>1, <1>2 DEF LoopRuns, Typed
  <1>4. SeenIsGot' /\ InStepWithClient' /\ Sorted' /\ LogFits'
    BY DEF SeenIsGot, InStepWithClient, Sorted, LogFits
  <1>5. Aborts'
    BY <1>1, <1>2 DEF Aborts
  <1>6. VerdictFits'
    BY <1>1 DEF VerdictFits
  <1> QED  BY <1>3, <1>4, <1>5, <1>6

\* A line on the plain path without an adapter.
LEMMA RawLineInv ==
    ASSUME StreamInv, NEW kind \in {"data", "done", "other", "blank"}, RawLine(kind)
    PROVE  StreamInv'
  <1> USE DEF StreamInv
  <1> DEFINE event == IF kind = "blank" THEN raw ELSE LineIn(raw, kind)
  <1>1. /\ ~restore /\ ~adapter /\ pc = "scan" /\ lines' \in 0..MaxLines
        /\ UNCHANGED <<path, reader, queue, verdict, logged>>
    BY StreamAssumption DEF RawLine, NextLine, Typed, StreamTypeOK
  <1>2. queue = <<>> /\ raw \in EventViews /\ client \in ClientViews
    BY <1>1 DEF Typed, StreamTypeOK, EventViews
  <1>3. event \in EventViews
    BY <1>2 DEF LineIn, EventViews
  <1>4. CASE raw' = event /\ ClientGone
    BY <1>1, <1>2, <1>3, <1>4, GoneInv
  <1>5. CASE /\ client' = Receive(client, kind)
             /\ raw' = IF kind = "blank" THEN NoEvent ELSE event
             /\ terminalSeen' = (kind = "blank" /\ IsTerminalEvent(event))
             /\ IF terminalSeen' THEN BreakLoop ELSE UNCHANGED pc
             /\ UNCHANGED <<clientDisconnected, incomplete, aborted, adapterAborted>>
    <2>1. client.event = raw /\ client.gotDone = FALSE /\ client.afterDone = FALSE
          /\ client.midEvent = FALSE
      BY <1>1 DEF InStepWithClient, LoopRuns, SeenIsGot, Aborts
    <2>2. /\ client' \in ClientViews /\ client'.event = raw'
          /\ (terminalSeen' <=> client'.gotDone) /\ client'.aborts = client.aborts
          /\ ~client'.afterDone /\ ~client'.midEvent
      <3>1. CASE kind = "blank"
        BY <1>2, <1>5, <2>1, <3>1, ClientBlank
      <3>2. CASE kind # "blank"
        BY <1>2, <1>5, <2>1, <3>2, ClientLine
      <3> QED  BY <3>1, <3>2
    <2>3. raw' \in EventViews /\ pc' \in {"scan", "close"} /\ (terminalSeen' => pc' = "close")
      BY <1>1, <1>3, <1>5 DEF BreakLoop, NoEvent, EventViews
    <2>4. terminalSeen' \in BOOLEAN /\ terminalSeen' = client'.gotDone
      BY <1>5, <2>2 DEF ClientViews
    <2>5. Typed'
      BY <1>1, <1>2, <1>5, <2>2, <2>3, <2>4 DEF Typed, StreamTypeOK, path, EventViews
    <2> QED  BY <1>1, <1>5, <2>2, <2>3, <2>4, <2>5, DeliveredInv DEF path
  <1> QED  BY <1>4, <1>5 DEF RawLine

\* A line the adapter transforms, before its outputs are written.
LEMMA AdapterLineInv ==
    ASSUME StreamInv, NEW out \in Outputs, AdapterLine(out)
    PROVE  StreamInv'
  <1> USE DEF StreamInv
  <1>1. /\ ~restore /\ adapter /\ pc = "scan" /\ lines' \in 0..MaxLines
        /\ queue' = out /\ pc' = IF out = <<>> THEN "scan" ELSE "emit"
        /\ UNCHANGED <<path, reader, raw, flags, verdict, logged, client>>
    BY StreamAssumption DEF AdapterLine, NextLine, Typed, StreamTypeOK
  <1>2. out \in Seq(Kinds)
    BY OutputsAreLines
  <1>3. Typed'
    BY <1>1, <1>2 DEF Typed, StreamTypeOK, path, flags
  <1>4. /\ terminalSeen = FALSE /\ client.afterDone = FALSE /\ client.midEvent = FALSE
        /\ client.gotDone = FALSE /\ client.event = NoEvent
    BY <1>1 DEF LoopRuns, Aborts, SeenIsGot, InStepWithClient
  <1> QED  BY <1>1, <1>3, <1>4, DeliveredInv DEF path, flags

\* One output of the adapter.
LEMMA EmitLineInv ==
    ASSUME StreamInv, EmitLine
    PROVE  StreamInv'
  <1> USE DEF StreamInv
  <1>1. /\ pc = "emit" /\ UNCHANGED <<path, reader, lines, raw, verdict, logged>>
    BY DEF EmitLine
  <1>2. /\ queue # <<>> /\ queue \in Seq(Kinds) /\ raw \in EventViews
        /\ client \in ClientViews /\ lines \in 0..MaxLines
    BY <1>1 DEF Typed, StreamTypeOK, EventViews
  <1>3. CASE ClientGone /\ queue' = <<>>
    BY <1>1, <1>2, <1>3, GoneInv
  <1>4. CASE /\ client' = IF Head(queue) = "blank" THEN client
                           ELSE ReceiveEvent(client, Head(queue))
             /\ terminalSeen' = (Head(queue) = "done")
             /\ queue' = IF terminalSeen' THEN <<>> ELSE Tail(queue)
             /\ IF terminalSeen' THEN BreakLoop
                ELSE pc' = IF Len(queue) = 1 THEN "scan" ELSE "emit"
             /\ UNCHANGED <<clientDisconnected, incomplete, aborted, adapterAborted>>
    <2>1. /\ ~restore /\ adapter /\ client.event = NoEvent /\ client.gotDone = FALSE
          /\ client.afterDone = FALSE /\ client.midEvent = FALSE
      BY <1>1 DEF InStepWithClient, LoopRuns, SeenIsGot, Aborts
    <2>2. /\ client' \in ClientViews /\ client'.event = NoEvent
          /\ (terminalSeen' <=> client'.gotDone) /\ client'.aborts = client.aborts
          /\ ~client'.afterDone /\ ~client'.midEvent
      <3>1. CASE Head(queue) = "blank"
        BY <1>2, <1>4, <2>1, <3>1
      <3>2. CASE Head(queue) # "blank"
        BY <1>2, <1>4, <2>1, <3>2, ClientEvent
      <3> QED  BY <3>1, <3>2
    <2>3. terminalSeen' \in BOOLEAN /\ terminalSeen' = client'.gotDone
      BY <1>4, <2>2 DEF ClientViews
    <2>4. /\ Tail(queue) \in Seq(Kinds)
          /\ Tail(queue) = <<>> <=> Len(queue) = 1
      <3>1. /\ Tail(queue) \in Seq(Kinds) /\ Len(Tail(queue)) = Len(queue) - 1
            /\ Len(queue) \in Nat
        BY <1>2, HeadTailProperties, LenProperties
      <3>2. Tail(queue) = <<>> <=> Len(Tail(queue)) = 0
        BY <3>1, EmptySeq
      <3> QED  BY <3>1, <3>2
    <2>5. /\ queue' \in Seq(Kinds) /\ pc' \in {"scan", "emit", "close"}
          /\ pc' = "emit" <=> queue' # <<>>
          /\ terminalSeen' => pc' = "close"
      BY <1>4, <2>4 DEF BreakLoop
    <2>6. Typed'
      BY <1>1, <1>2, <1>4, <2>2, <2>3, <2>5 DEF Typed, StreamTypeOK, path, EventViews
    <2> QED  BY <1>1, <1>4, <2>1, <2>2, <2>3, <2>5, <2>6, DeliveredInv DEF path
  <1> QED  BY <1>3, <1>4 DEF EmitLine

\* The plain path's abort: the failure is recorded at once.
LEMMA TransformFailsInv ==
    ASSUME StreamInv, TransformFails
    PROVE  StreamInv'
  <1> USE DEF StreamInv
  <1>1. /\ ~restore /\ adapter /\ pc = "scan" /\ lines' \in 0..MaxLines
        /\ UNCHANGED <<path, reader, queue, raw, logged>>
    BY StreamAssumption DEF TransformFails, NextLine, Typed, StreamTypeOK
  <1>2. queue = <<>> /\ raw \in EventViews /\ client \in ClientViews
    BY <1>1 DEF Typed, StreamTypeOK, EventViews
  <1>3. CASE ClientGone /\ UNCHANGED verdict
    BY <1>1, <1>2, <1>3, GoneInv
  <1>4. CASE /\ client' = ReceiveAbort(client) /\ aborted' = TRUE /\ incomplete' = TRUE
             /\ Tell(<<"failure">>) /\ BreakLoop
             /\ UNCHANGED <<terminalSeen, clientDisconnected, adapterAborted>>
    <2>1. /\ terminalSeen = FALSE /\ clientDisconnected = FALSE /\ aborted = FALSE
          /\ client.gotDone = FALSE /\ client.aborts = 0 /\ client.afterDone = FALSE
          /\ client.midEvent = FALSE /\ client.event = NoEvent /\ client.event.open = FALSE
      BY <1>1 DEF LoopRuns, SeenIsGot, Aborts, InStepWithClient, NoEvent
    <2>2. /\ client' \in ClientViews /\ client'.event = NoEvent
          /\ ~client'.gotDone /\ client'.aborts = 1
          /\ ~client'.afterDone /\ ~client'.midEvent
      BY <1>2, <1>4, <2>1, ClientAbort
    <2>3. /\ client'.gotDone = FALSE /\ client'.afterDone = FALSE /\ client'.midEvent = FALSE
      BY <2>2 DEF ClientViews
    <2>4. pc' = "close"
      BY <1>4 DEF BreakLoop
    <2>5. Typed'
      BY <1>1, <1>2, <1>4, <2>2, <2>4 DEF Typed, StreamTypeOK, path
    <2>6. LoopRuns' /\ SeenIsGot' /\ InStepWithClient' /\ Sorted' /\ LogFits'
      BY <1>1, <1>4, <2>1, <2>2, <2>3, <2>4
      DEF LoopRuns, SeenIsGot, InStepWithClient, Sorted, LogFits, path
    <2>7. Aborts'
      BY <1>1, <1>4, <2>1, <2>2, <2>3, <2>4 DEF Aborts, path
    <2>8. VerdictFits'
      <3>1. verdict = <<>>
        BY <1>1, <2>1 DEF VerdictFits
      <3>2. verdict' = IF hasBreaker THEN <<"failure">> ELSE <<>>
        BY <1>4, <3>1, VerdictJoins DEF Tell
      <3> QED  BY <1>1, <1>4, <2>4, <3>2 DEF VerdictFits, path
    <2> QED  BY <2>5, <2>6, <2>7, <2>8
  <1> QED  BY <1>3, <1>4 DEF TransformFails

\* A line on the PII path.
LEMMA PushLineInv ==
    ASSUME StreamInv, NEW kind \in {"data", "done", "other"}, PushLine(kind)
    PROVE  StreamInv'
  <1> USE DEF StreamInv
  <1>1. /\ restore /\ pc = "scan" /\ lines' \in 0..MaxLines
        /\ UNCHANGED <<path, reader, queue, raw, verdict, logged>>
    BY StreamAssumption DEF PushLine, NextLine, Typed, StreamTypeOK
  <1>2. queue = <<>> /\ raw \in EventViews /\ client \in ClientViews
    BY <1>1 DEF Typed, StreamTypeOK, EventViews
  <1>3. /\ terminalSeen = FALSE /\ client.event = NoEvent /\ client.gotDone = FALSE
        /\ client.afterDone = FALSE /\ client.midEvent = FALSE
    BY <1>1 DEF InStepWithClient, LoopRuns, SeenIsGot, Aborts
  <1>4. CASE UNCHANGED <<pc, flags, client>>
    <2>1. Typed'
      BY <1>1, <1>4 DEF Typed, StreamTypeOK, path, flags
    <2> QED  BY <1>1, <1>3, <1>4, <2>1, DeliveredInv DEF path, flags
  <1>5. CASE ClientGone
    BY <1>1, <1>2, <1>5, GoneInv
  <1>6. CASE /\ client' = ReceiveEvent(client, kind)
             /\ terminalSeen' = (kind = "done")
             /\ IF terminalSeen' THEN BreakLoop ELSE UNCHANGED pc
             /\ UNCHANGED <<clientDisconnected, incomplete, aborted, adapterAborted>>
    <2>1. /\ client' \in ClientViews /\ client'.event = NoEvent
          /\ (terminalSeen' <=> client'.gotDone) /\ client'.aborts = client.aborts
          /\ ~client'.afterDone /\ ~client'.midEvent
      BY <1>2, <1>3, <1>6, ClientEvent
    <2>2. terminalSeen' \in BOOLEAN /\ terminalSeen' = client'.gotDone
      BY <1>6, <2>1 DEF ClientViews
    <2>3. pc' \in {"scan", "close"} /\ (terminalSeen' => pc' = "close")
      BY <1>1, <1>6 DEF BreakLoop
    <2>4. Typed'
      BY <1>1, <1>2, <1>6, <2>1, <2>2, <2>3 DEF Typed, StreamTypeOK, path
    <2> QED  BY <1>1, <1>6, <2>1, <2>2, <2>3, <2>4, DeliveredInv DEF path
  <1> QED  BY <1>4, <1>5, <1>6 DEF PushLine

\* The two ways in which the PII path aborts.
LEMMA PiiAbortInv ==
    ASSUME StreamInv, PushFails \/ PiiTransformFails
    PROVE  StreamInv'
  <1> USE DEF StreamInv
  <1>1. /\ restore /\ pc = "scan" /\ lines' \in 0..MaxLines
        /\ aborted' = TRUE /\ pc' = "close" /\ adapterAborted' \in BOOLEAN
        /\ client' \in {client, ReceiveAbort(client)}
        /\ (client' # client => adapterAborted' = TRUE)
        /\ UNCHANGED <<restore, adapter, hasBreaker, reader, queue, raw, verdict, logged,
                       terminalSeen, clientDisconnected, incomplete>>
    <2>1. lines' \in 0..MaxLines
      BY StreamAssumption DEF PushFails, PiiTransformFails, NextLine, Typed, StreamTypeOK
    <2>2. CASE PushFails
      BY <2>1, <2>2 DEF PushFails, NextLine, BreakLoop, path, Typed
    <2>3. CASE PiiTransformFails
      BY <2>1, <2>3 DEF PiiTransformFails, NextLine, BreakLoop, path, Typed
    <2> QED  BY <2>2, <2>3
  <1>2. queue = <<>> /\ raw \in EventViews /\ client \in ClientViews
    BY <1>1 DEF Typed, StreamTypeOK, EventViews
  <1>3. /\ terminalSeen = FALSE /\ clientDisconnected = FALSE /\ incomplete = FALSE
        /\ aborted = FALSE /\ client.aborts = 0
        /\ client.gotDone = FALSE /\ client.afterDone = FALSE
        /\ client.midEvent = FALSE /\ client.event = NoEvent /\ client.event.open = FALSE
    BY <1>1 DEF LoopRuns, SeenIsGot, Aborts, InStepWithClient, NoEvent
  <1>4. /\ client' \in ClientViews /\ client'.event = NoEvent
        /\ ~client'.gotDone /\ client'.aborts \in {0, 1}
        /\ (client'.aborts = 1 => adapterAborted' = TRUE)
        /\ ~client'.afterDone /\ ~client'.midEvent
    <2>1. CASE client' = client
      BY <1>2, <1>3, <2>1
    <2>2. CASE client' = ReceiveAbort(client) /\ client' # client
      BY <1>1, <1>2, <1>3, <2>2, ClientAbort
    <2> QED  BY <1>1, <2>1, <2>2
  <1>5. client'.gotDone = FALSE /\ client'.afterDone = FALSE /\ client'.midEvent = FALSE
    BY <1>4 DEF ClientViews
  <1>6. Typed'
    BY <1>1, <1>2, <1>4 DEF Typed, StreamTypeOK
  <1>7. LoopRuns' /\ SeenIsGot' /\ InStepWithClient' /\ Sorted' /\ LogFits'
    BY <1>1, <1>3, <1>4, <1>5 DEF LoopRuns, SeenIsGot, InStepWithClient, Sorted, LogFits
  <1>8. Aborts'
    BY <1>1, <1>3, <1>4, <1>5 DEF Aborts
  <1>9. VerdictFits'
    BY <1>1, <1>3 DEF VerdictFits
  <1> QED  BY <1>6, <1>7, <1>8, <1>9

\* The event left open on the raw path is closed for the client.
LEMMA CloseEventInv ==
    ASSUME StreamInv, CloseEvent
    PROVE  StreamInv'
  <1> USE DEF StreamInv
  <1>1. /\ pc = "close" /\ pc' = "classify"
        /\ UNCHANGED <<restore, adapter, hasBreaker, reader, lines, queue, raw, incomplete,
                       aborted, adapterAborted, verdict, logged>>
    BY DEF CloseEvent, path
  <1>2. client \in ClientViews /\ raw \in EventViews
    BY DEF Typed, StreamTypeOK, EventViews
  <1>3. CASE EventLeftOpen /\ clientDisconnected' = TRUE /\ UNCHANGED <<terminalSeen, client>>
    <2>1. Typed'
      BY <1>1, <1>3 DEF Typed, StreamTypeOK
    <2>2. LoopRuns' /\ SeenIsGot' /\ InStepWithClient' /\ Sorted' /\ LogFits'
      BY <1>1, <1>3 DEF LoopRuns, SeenIsGot, InStepWithClient, Sorted, LogFits
    <2>3. Aborts'
      BY <1>1, <1>3 DEF Aborts, EventLeftOpen, RestoreReadError
    <2>4. VerdictFits'
      BY <1>1 DEF VerdictFits
    <2> QED  BY <2>1, <2>2, <2>3, <2>4
  <1>4. CASE /\ EventLeftOpen /\ client' = Receive(client, "blank")
             /\ terminalSeen' = IsTerminalEvent(raw) /\ UNCHANGED clientDisconnected
    <2>1. /\ ~restore /\ ~adapter /\ ~clientDisconnected /\ ~terminalSeen /\ ~client.gotDone
          /\ client.event = raw /\ ~client.afterDone /\ ~client.midEvent
          /\ aborted = FALSE /\ incomplete = FALSE
      <3>1. ~restore /\ ~adapter /\ ~clientDisconnected /\ ~terminalSeen
        BY <1>4 DEF EventLeftOpen
      <3>2. aborted = FALSE /\ incomplete = FALSE
        BY <1>1, <3>1 DEF Aborts, Typed
      <3> QED  BY <1>1, <3>1, <3>2 DEF SeenIsGot, InStepWithClient, Aborts, RestoreReadError
    <2>2. /\ client' \in ClientViews /\ client'.event = NoEvent
          /\ (terminalSeen' <=> client'.gotDone) /\ client'.aborts = client.aborts
          /\ ~client'.afterDone /\ ~client'.midEvent
      BY <1>2, <1>4, <2>1, ClientBlank
    <2>3. /\ client'.afterDone = FALSE /\ client'.midEvent = FALSE
          /\ client'.event.open = FALSE
      BY <2>2 DEF ClientViews, NoEvent
    <2>4. terminalSeen' \in BOOLEAN /\ terminalSeen' = client'.gotDone
      <3>1. terminalSeen' \in BOOLEAN
        BY <1>2, <1>4 DEF IsTerminalEvent, EventViews
      <3> QED  BY <2>2, <3>1 DEF ClientViews
    <2>5. Typed'
      BY <1>1, <1>4, <2>2, <2>4 DEF Typed, StreamTypeOK
    <2>6. LoopRuns' /\ SeenIsGot' /\ InStepWithClient' /\ Sorted' /\ LogFits'
      BY <1>1, <1>4, <2>1, <2>2, <2>3, <2>4
      DEF LoopRuns, SeenIsGot, InStepWithClient, Sorted, LogFits
    <2>7. Aborts'
      BY <1>1, <1>4, <2>1, <2>2, <2>3, <2>4 DEF Aborts
    <2>8. VerdictFits'
      BY <1>1 DEF VerdictFits
    <2> QED  BY <2>5, <2>6, <2>7, <2>8
  <1>5. CASE ~EventLeftOpen /\ UNCHANGED <<terminalSeen, clientDisconnected, client>>
    <2>1. Typed'
      BY <1>1, <1>5 DEF Typed, StreamTypeOK
    <2>2. ~clientDisconnected /\ ~terminalSeen => client.event.open = FALSE
      <3>1. CASE restore \/ adapter
        BY <3>1 DEF InStepWithClient, NoEvent
      <3>2. CASE ~restore /\ ~adapter
        BY <1>1, <1>2, <1>5, <3>2 DEF InStepWithClient, EventLeftOpen, EventViews
      <3> QED  BY <3>1, <3>2
    <2>3. LoopRuns' /\ SeenIsGot' /\ InStepWithClient' /\ Sorted' /\ LogFits'
      BY <1>1, <1>5, <2>2 DEF LoopRuns, SeenIsGot, InStepWithClient, Sorted, LogFits
    <2>4. Aborts'
      BY <1>1, <1>5 DEF Aborts, RestoreReadError
    <2>5. VerdictFits'
      BY <1>1 DEF VerdictFits
    <2> QED  BY <2>1, <2>3, <2>4, <2>5
  <1> QED  BY <1>3, <1>4, <1>5 DEF CloseEvent

\* The plain path's switch: a stream nothing else explains is incomplete.
LEMMA ClassifyInv ==
    ASSUME StreamInv, Classify
    PROVE  StreamInv'
  <1> USE DEF StreamInv
  <1>1. /\ ~restore /\ pc = "classify" /\ pc' = "settle"
        /\ UNCHANGED <<restore, adapter, hasBreaker, reader, lines, queue, raw,
                       terminalSeen, aborted, adapterAborted, verdict, logged>>
    BY DEF Classify, path
  <1>2. client \in ClientViews
    BY DEF Typed
  <1>3. CASE Classified /\ UNCHANGED <<incomplete, clientDisconnected, client>>
    <2>1. Typed'
      BY <1>1, <1>3 DEF Typed, StreamTypeOK
    <2>2. LoopRuns' /\ SeenIsGot' /\ InStepWithClient' /\ Sorted' /\ LogFits'
      BY <1>1, <1>3
      DEF LoopRuns, SeenIsGot, InStepWithClient, Sorted, LogFits, Classified, Aborts
    <2>3. Aborts'
      BY <1>1, <1>3 DEF Aborts, RestoreReadError
    <2>4. VerdictFits'
      BY <1>1 DEF VerdictFits
    <2> QED  BY <2>1, <2>2, <2>3, <2>4
  <1>4. CASE /\ ~Classified /\ clientDisconnected' \in BOOLEAN /\ incomplete' \in BOOLEAN
             /\ clientDisconnected' \/ incomplete'
             /\ \/ UNCHANGED client
                \/ client' = ReceiveAbort(client)
    <2>1. /\ ~terminalSeen /\ aborted = FALSE /\ client.gotDone = FALSE
          /\ client.aborts = 0 /\ client.event.open = FALSE
          /\ client.afterDone = FALSE /\ client.midEvent = FALSE
      <3>1. ~terminalSeen /\ ~clientDisconnected /\ aborted = FALSE
        BY <1>4 DEF Classified, Typed
      <3>2. client.aborts \in Nat /\ client.aborts <= 1 /\ client.aborts # 1
        BY <1>1, <1>2, <3>1 DEF Aborts, ClientViews
      <3>3. client.aborts = 0
        BY <3>2
      <3>4. client.afterDone = FALSE /\ client.gotDone = FALSE
        BY <1>1, <1>2, <3>1 DEF Aborts, ClientViews, RestoreReadError, SeenIsGot
      <3> QED  BY <1>1, <3>1, <3>3, <3>4 DEF InStepWithClient, Aborts
    <2>2. /\ client' \in ClientViews /\ ~client'.gotDone
          /\ client'.aborts <= 1 /\ ~client'.afterDone /\ ~client'.midEvent
          /\ restore \/ adapter => client'.event = NoEvent
      <3>1. CASE UNCHANGED client
        BY <1>2, <2>1, <3>1 DEF InStepWithClient
      <3>2. CASE client' = ReceiveAbort(client)
        BY <1>2, <2>1, <3>2, ClientAbort
      <3> QED  BY <1>4, <3>1, <3>2
    <2>3. /\ client'.gotDone = FALSE /\ client'.afterDone = FALSE /\ client'.midEvent = FALSE
          /\ terminalSeen = FALSE
      BY <2>1, <2>2 DEF ClientViews, Typed
    <2>4. Typed'
      BY <1>1, <1>4, <2>2 DEF Typed, StreamTypeOK
    <2>5. LoopRuns' /\ SeenIsGot' /\ InStepWithClient' /\ Sorted' /\ LogFits'
      BY <1>1, <1>4, <2>2, <2>3
      DEF LoopRuns, SeenIsGot, InStepWithClient, Sorted, LogFits, Typed, StreamTypeOK
    <2>6. Aborts'
      BY <1>1, <2>1, <2>2, <2>3 DEF Aborts
    <2>7. VerdictFits'
      BY <1>1 DEF VerdictFits
    <2> QED  BY <2>4, <2>5, <2>6, <2>7
  <1> QED  BY <1>3, <1>4 DEF Classify, Typed

\* The PII path's classification, where a read error overrides everything.
LEMMA PiiClassifyInv ==
    ASSUME StreamInv, PiiClassify
    PROVE  StreamInv'
  <1> USE DEF StreamInv
  <1>1. /\ restore /\ pc = "classify" /\ pc' = "settle"
        /\ aborted' = (aborted \/ reader = "err")
        /\ incomplete' = ((aborted' \/ ~terminalSeen) /\ ~clientDisconnected)
        /\ client' \in {client, ReceiveAbort(client)}
        /\ client' # client => incomplete' /\ ~adapterAborted
        /\ UNCHANGED <<restore, adapter, hasBreaker, reader, lines, queue, raw,
                       terminalSeen, clientDisconnected, adapterAborted, verdict, logged>>
    BY DEF PiiClassify, OwesErrorEvent, path
  <1>2. client \in ClientViews /\ client.event = NoEvent /\ client.event.open = FALSE
    BY <1>1 DEF Typed, InStepWithClient, NoEvent
  <1>3. aborted' \in BOOLEAN /\ incomplete' \in BOOLEAN
    BY <1>1 DEF Typed
  <1>4. aborted' /\ (terminalSeen \/ clientDisconnected) => RestoreReadError
    BY <1>1 DEF Aborts, RestoreReadError
  <1>5. /\ client' \in ClientViews /\ client'.event = NoEvent
        /\ (client'.gotDone <=> client.gotDone) /\ client'.aborts <= 1
        /\ ~client'.midEvent
        /\ client'.afterDone => client.afterDone \/ (client.gotDone /\ aborted')
    <2>1. CASE client' = client
      BY <1>2, <2>1 DEF Aborts
    <2>2. CASE client' = ReceiveAbort(client) /\ client' # client
      <3>1. client.aborts = 0
        <4>1. client.aborts \in Nat /\ client.aborts <= 1 /\ client.aborts # 1
          BY <1>1, <1>2, <2>2 DEF Aborts, ClientViews
        <4> QED  BY <4>1
      <3>2. client.gotDone => aborted'
        BY <1>1, <2>2 DEF SeenIsGot
      <3>3. client.midEvent = FALSE
        BY DEF Aborts
      <3> QED  BY <1>2, <2>2, <3>1, <3>2, <3>3, ClientAbort
    <2> QED  BY <1>1, <2>1, <2>2
  <1>6. /\ client'.gotDone = client.gotDone /\ client'.midEvent = FALSE
    BY <1>2, <1>5 DEF ClientViews
  <1>7. Typed'
    BY <1>1, <1>3, <1>5 DEF Typed, StreamTypeOK
  <1>8. LoopRuns' /\ SeenIsGot' /\ InStepWithClient' /\ Sorted' /\ LogFits'
    BY <1>1, <1>5, <1>6
    DEF LoopRuns, SeenIsGot, InStepWithClient, Sorted, LogFits, Typed, StreamTypeOK
  <1>9. Aborts'
    <2>1. RestoreReadError' <=> RestoreReadError
      BY <1>1 DEF RestoreReadError
    <2>2. client'.afterDone => RestoreReadError
      BY <1>4, <1>5 DEF Aborts, SeenIsGot
    <2>3. incomplete' /\ terminalSeen' => RestoreReadError
      BY <1>1, <1>4
    <2> QED  BY <1>1, <1>4, <1>5, <1>6, <2>1, <2>2, <2>3 DEF Aborts
  <1>10. VerdictFits'
    BY <1>1 DEF VerdictFits
  <1> QED  BY <1>7, <1>8, <1>9, <1>10

\* The breaker is told.
LEMMA SettleInv ==
    ASSUME StreamInv, Settle
    PROVE  StreamInv'
  <1> USE DEF StreamInv
  <1>1. /\ pc = "settle" /\ pc' = "log"
        /\ Tell(IF restore THEN PiiVerdict ELSE PlainVerdict)
        /\ UNCHANGED <<restore, adapter, hasBreaker, reader, lines, queue, raw,
                       terminalSeen, clientDisconnected, incomplete, aborted,
                       adapterAborted, logged, client>>
    BY DEF Settle, path, flags
  <1>2. Typed'
    BY <1>1 DEF Typed, StreamTypeOK
  <1>3. LoopRuns' /\ SeenIsGot' /\ InStepWithClient' /\ Sorted' /\ LogFits'
    BY <1>1 DEF LoopRuns, SeenIsGot, InStepWithClient, Sorted, LogFits
  <1>4. Aborts'
    BY <1>1 DEF Aborts, RestoreReadError
  <1>5. VerdictFits'
    <2>1. CASE ~hasBreaker
      BY <1>1, <2>1 DEF VerdictFits, Tell
    <2>2. CASE hasBreaker /\ aborted /\ ~restore
      <3>1. verdict' = <<"failure">> \o <<>>
        BY <1>1, <2>2 DEF VerdictFits, Tell, PlainVerdict
      <3> QED  BY <1>1, <2>2, <3>1, VerdictJoins DEF VerdictFits
    <2>3. CASE hasBreaker /\ ~(aborted /\ ~restore)
      <3> DEFINE v == IF aborted THEN "failure"
                      ELSE IF clientDisconnected THEN "neutral"
                      ELSE IF terminalSeen THEN "success" ELSE "failure"
      <3>1. verdict' = <<>> \o <<v>>
        BY <1>1, <2>3 DEF VerdictFits, Tell, PlainVerdict, PiiVerdict
      <3>2. verdict' = <<v>>
        BY <3>1, VerdictJoins
      <3> QED  BY <1>1, <2>3, <3>2 DEF VerdictFits
    <2> QED  BY <2>1, <2>2, <2>3
  <1> QED  BY <1>2, <1>3, <1>4, <1>5

\* The usage event is written.
LEMMA LogUsageInv ==
    ASSUME StreamInv, LogUsage
    PROVE  StreamInv'
  <1> USE DEF StreamInv
  <1>1. /\ pc = "log" /\ pc' = "done" /\ logged' = EventStatus
        /\ UNCHANGED <<restore, adapter, hasBreaker, reader, lines, queue, raw,
                       terminalSeen, clientDisconnected, incomplete, aborted,
                       adapterAborted, verdict, client>>
    BY DEF LogUsage, path, flags
  <1>2. Typed' /\ LogFits'
    BY <1>1 DEF Typed, StreamTypeOK, LogFits, EventStatus
  <1>3. LoopRuns' /\ SeenIsGot' /\ InStepWithClient' /\ Sorted'
    BY <1>1 DEF LoopRuns, SeenIsGot, InStepWithClient, Sorted
  <1>4. Aborts'
    BY <1>1 DEF Aborts, RestoreReadError
  <1>5. VerdictFits'
    BY <1>1 DEF VerdictFits
  <1> QED  BY <1>2, <1>3, <1>4, <1>5

\* Nothing has changed.
LEMMA StreamStutterInv ==
    ASSUME StreamInv, UNCHANGED streamVars
    PROVE  StreamInv'
  <1> USE DEF StreamInv
  <1>1. UNCHANGED <<restore, adapter, hasBreaker, pc, reader, lines, queue, raw,
                    terminalSeen, clientDisconnected, incomplete, aborted,
                    adapterAborted, verdict, logged, client>>
    BY DEF streamVars, path, flags
  <1>2. Typed' /\ LogFits'
    BY <1>1 DEF Typed, StreamTypeOK, LogFits
  <1>3. LoopRuns' /\ SeenIsGot' /\ InStepWithClient' /\ Sorted'
    BY <1>1 DEF LoopRuns, SeenIsGot, InStepWithClient, Sorted
  <1>4. Aborts'
    BY <1>1 DEF Aborts, RestoreReadError
  <1>5. VerdictFits'
    BY <1>1 DEF VerdictFits
  <1> QED  BY <1>2, <1>3, <1>4, <1>5

\* Every step keeps the invariant.
LEMMA StreamStepInv == StreamInv /\ [StreamNext]_streamVars => StreamInv'
  <1> SUFFICES ASSUME StreamInv, [StreamNext]_streamVars PROVE StreamInv'
    OBVIOUS
  <1>1. CASE ScanStops \/ \E how \in {"eof", "err"} : ReaderEnds(how)
    BY <1>1, ReaderInv
  <1>2. CASE \E kind \in {"data", "done", "other", "blank"} : RawLine(kind)
    BY <1>2, RawLineInv
  <1>3. CASE \E out \in Outputs : AdapterLine(out)
    BY <1>3, AdapterLineInv
  <1>4. CASE EmitLine
    BY <1>4, EmitLineInv
  <1>5. CASE TransformFails
    BY <1>5, TransformFailsInv
  <1>6. CASE \E kind \in {"data", "done", "other"} : PushLine(kind)
    BY <1>6, PushLineInv
  <1>7. CASE PushFails \/ PiiTransformFails
    BY <1>7, PiiAbortInv
  <1>8. CASE CloseEvent
    BY <1>8, CloseEventInv
  <1>9. CASE Classify
    BY <1>9, ClassifyInv
  <1>10. CASE PiiClassify
    BY <1>10, PiiClassifyInv
  <1>11. CASE Settle
    BY <1>11, SettleInv
  <1>12. CASE LogUsage
    BY <1>12, LogUsageInv
  <1>13. CASE Done \/ UNCHANGED streamVars
    BY <1>13, StreamStutterInv DEF Done
  <1> QED
    BY <1>1, <1>2, <1>3, <1>4, <1>5, <1>6, <1>7, <1>8, <1>9, <1>10, <1>11, <1>12, <1>13
    DEF StreamNext, Relay

\* The invariant says all that StreamsSettle asks.
LEMMA StreamInvSettles == StreamInv => StreamsSettle
  <1> SUFFICES ASSUME StreamInv PROVE StreamsSettle
    OBVIOUS
  <1> USE DEF StreamInv
  <1>1. OneVerdict
    BY DEF VerdictFits, OneVerdict
  <1>2. SuccessMeansDone
    BY DEF VerdictFits, SuccessMeansDone, SeenIsGot
  <1>3. DisconnectIsNeutral
    BY DEF VerdictFits, DisconnectIsNeutral, Aborts
  <1>4. IncompleteMeansNoDone
    BY DEF IncompleteMeansNoDone, Aborts, SeenIsGot
  <1>5. EndsCleanly
    BY DEF EndsCleanly, Aborts
  <1>6. LoggedOkMeansDelivered
    BY DEF LoggedOkMeansDelivered, LogFits, Sorted, SeenIsGot
  <1> QED  BY <1>1, <1>2, <1>3, <1>4, <1>5, <1>6 DEF StreamsSettle

\* The relay of handleStreamingResponse keeps its variables' types and the
\* inductive invariant, for any number of upstream lines and any adapter.
THEOREM StreamInvariance == StreamSpec => []StreamInv
  BY StreamInitInv, StreamStepInv, PTL DEF StreamSpec

\* However handleStreamingResponse is interrupted, its breaker gets exactly
\* one verdict and the true one, the client sees the stream end cleanly, and
\* the usage log calls no truncated stream a success.
THEOREM StreamsAreSettled == StreamSpec => []StreamsSettle
  BY StreamInvariance, StreamInvSettles, PTL
=============================================================================
