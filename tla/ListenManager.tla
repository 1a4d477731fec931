--------------------------- MODULE ListenManager ---------------------------
(***************************************************************************)
(* The listeners VoidLLM keeps on an upstream MCP server's change stream   *)
(* (mcp/listen_manager.go, mcp/listen_client.go), for one server: other    *)
(* servers share nothing with it but the wait group. Every start makes a   *)
(* new listener, numbered; a listener that replaces another waits for its  *)
(* done channel before it connects. What a listener hears goes through its *)
(* throttle to a refresh of the tool cache, one round at a time.           *)
(***************************************************************************)
EXTENDS Naturals, FiniteSets

CONSTANTS
    Listeners,     \* 1..n, the starts of a run
    Transports,    \* the HTTPTransport pointers a target may carry
    Replies,       \* how an upstream may answer the request
    Messages,      \* the messages it may send on the stream
    MaxLevel,      \* listenMaxBackoff, in doublings of listenMinBackoff
    MaxSignals     \* bound on the messages and losses of a run

ASSUME ListenAssumption == Listeners \subseteq Nat \ {0}

VARIABLES
    handle,    \* m.listeners of the server: a listener, or 0
    started,   \* listeners started so far
    stopped, stop,
    transport, waitFor, cancelled, at, backoff, firstAck, \* of each listener
    throttle,  \* its listenThrottle
    refresh,   \* its toolsChangedRefreshState and the refresh goroutine
    removals, term, \* removals so far, and at each start (history)
    owed,      \* signals no round has started after (history)
    signals

vars == <<handle, started, stopped, stop, transport, waitFor, cancelled, at,
          backoff, firstAck, throttle, refresh, removals, term, owed, signals>>

None == "none"

-----------------------------------------------------------------------------
(***************************************************************************)
(* Listen: what an answer to the request comes to. A listener is           *)
(* connected only after a valid acknowledgement that honours its filter.   *)
(***************************************************************************)
isListenUnsupportedResponse(r) ==
    r.status \in 200..299 /\ r.type = "json" /\ r.body = "methodNotFound"

(* The first message: a valid acknowledgement, honouring the filter. *)
validateListenAck(r) == r.body = "ack"
ackHonorsToolsListChanged(r) == r.honored

(* The answers before a stream is read, in the order they are tested. *)
ListenResult(r) ==
    CASE r.era # "modern" -> "unsupported"
      [] r.status = 0 \/ r.encoded -> "error"
      [] r.status \in {404, 405} -> "unsupported"
      [] r.type # "sse" ->
            IF isListenUnsupportedResponse(r) THEN "unsupported"
            ELSE IF r.body = "idle" THEN "idle" ELSE "error"
      [] r.status \notin 200..299 -> "error"
      [] r.body = "idle" -> "idle"
      [] ~validateListenAck(r) -> "error"
      [] ~ackHonorsToolsListChanged(r) -> "notHonored"
      [] OTHER -> "ack"

(* A message is a notification or a response, never both. *)
classifyListenMessage(m) ==
    CASE m.method # "" /\ ~m.id /\ ~m.result /\ ~m.error -> "notification"
      [] m.id /\ m.method = "" /\ m.result # m.error -> "response"
      [] OTHER -> "invalid"

subscriptionIDMatches(m) == m.mine

(* What a message after the acknowledgement does to the stream. *)
MessageResult(m) ==
    CASE m.invalid \/ classifyListenMessage(m) = "invalid" -> "error"
      [] classifyListenMessage(m) = "response" ->
            IF subscriptionIDMatches(m) /\ m.result THEN "graceful" ELSE "error"
      [] m.method = "tools/list_changed" /\ subscriptionIDMatches(m) -> "changed"
      [] OTHER -> "ignored"

-----------------------------------------------------------------------------
Quiet == [pending |-> FALSE, timer |-> FALSE]
NoRefresh == [running |-> FALSE, dirty |-> FALSE, at |-> "none"]

Init ==
    /\ handle = 0 /\ started = 0 /\ stopped = FALSE /\ stop = "no"
    /\ transport = [i \in Listeners |-> None]
    /\ waitFor = [i \in Listeners |-> 0]
    /\ cancelled = [i \in Listeners |-> FALSE]
    /\ at = [i \in Listeners |-> "unborn"]
    /\ backoff = [i \in Listeners |-> 0]
    /\ firstAck = [i \in Listeners |-> TRUE]
    /\ throttle = [i \in Listeners |-> Quiet]
    /\ refresh = [i \in Listeners |-> NoRefresh]
    /\ removals = 0 /\ term = [i \in Listeners |-> 0]
    /\ owed = [i \in Listeners |-> FALSE]
    /\ signals = 0

Alive(i) == at[i] \notin {"unborn", "gone"}
Finished(i) == i = 0 \/ at[i] = "gone"   \* its done channel is closed

(***************************************************************************)
(* Reconcile, in one hold of m.mu: a target with the same transport is     *)
(* left alone, one with another transport replaces the listener, and a     *)
(* listener without a target is cancelled and forgotten.                   *)
(***************************************************************************)
start(i, t, old) ==
    /\ i \in Listeners
    /\ started' = i /\ handle' = i
    /\ transport' = [transport EXCEPT ![i] = t]
    /\ waitFor' = [waitFor EXCEPT ![i] = old]
    /\ at' = [at EXCEPT ![i] = IF old = 0 THEN "loop" ELSE "waiting"]
    /\ term' = [term EXCEPT ![i] = removals]

Reconcile(t) ==
    /\ ~stopped
    /\ handle # 0 => transport[handle] # t
    /\ cancelled' = IF handle = 0 THEN cancelled
                    ELSE [cancelled EXCEPT ![handle] = TRUE]
    /\ start(started + 1, t, handle)
    /\ UNCHANGED <<stopped, stop, backoff, firstAck, throttle, refresh,
                   removals, owed, signals>>

ReconcileWithout ==
    /\ ~stopped /\ handle # 0
    /\ cancelled' = [cancelled EXCEPT ![handle] = TRUE]
    /\ handle' = 0 /\ removals' = removals + 1
    /\ UNCHANGED <<started, stopped, stop, transport, waitFor, at, backoff,
                   firstAck, throttle, refresh, term, owed, signals>>

(***************************************************************************)
(* The way out, in the order of the deferred calls: the throttle stops,    *)
(* done closes, the wait group counts down. What the listener held is of   *)
(* no more use.                                                            *)
(***************************************************************************)
Gone(i) ==
    /\ at' = [at EXCEPT ![i] = "gone"]
    /\ throttle' = [throttle EXCEPT ![i] = Quiet]
    /\ transport' = [transport EXCEPT ![i] = None]
    /\ waitFor' = [waitFor EXCEPT ![i] = 0]
    /\ backoff' = [backoff EXCEPT ![i] = 0]
    /\ firstAck' = [firstAck EXCEPT ![i] = TRUE]
    /\ owed' = [owed EXCEPT ![i] = FALSE]
    /\ UNCHANGED <<handle, started, stopped, stop, cancelled, refresh,
                   removals, term, signals>>

(***************************************************************************)
(* The wait for the predecessor. A listener cancelled meanwhile waits all  *)
(* the same before its own done channel closes, and never connects.        *)
(***************************************************************************)
PredecessorUnlessCancelled(i) ==
    /\ at[i] = "waiting"
    /\ \/ cancelled[i] /\ Gone(i)
       \/ /\ ~cancelled[i] /\ Finished(waitFor[i])
          /\ at' = [at EXCEPT ![i] = "loop"]
          /\ waitFor' = [waitFor EXCEPT ![i] = 0]
          /\ UNCHANGED <<handle, started, stopped, stop, transport, cancelled,
                         backoff, firstAck, throttle, refresh, removals, term,
                         owed, signals>>

Predecessor(i) ==
    /\ at[i] = "waiting" /\ Finished(waitFor[i])
    /\ \/ cancelled[i] /\ Gone(i)
       \/ /\ ~cancelled[i]
          /\ at' = [at EXCEPT ![i] = "loop"]
          /\ waitFor' = [waitFor EXCEPT ![i] = 0]
          /\ UNCHANGED <<handle, started, stopped, stop, transport, cancelled,
                         backoff, firstAck, throttle, refresh, removals, term,
                         owed, signals>>

-----------------------------------------------------------------------------
(***************************************************************************)
(* A signal: notifyToolsChanged is the throttle's Call. Its fire starts a  *)
(* refresh goroutine, or marks the running one dirty.                      *)
(***************************************************************************)
spawnToolsChangedRefreshForgetful(r) ==
    IF r.running THEN r ELSE [running |-> TRUE, dirty |-> FALSE, at |-> "spawned"]

spawnToolsChangedRefresh(r) ==
    IF r.running THEN [r EXCEPT !.dirty = TRUE]
    ELSE [running |-> TRUE, dirty |-> FALSE, at |-> "spawned"]

Call(i) ==
    /\ owed' = [owed EXCEPT ![i] = TRUE]
    /\ IF throttle[i].timer
       THEN /\ throttle' = [throttle EXCEPT ![i].pending = TRUE]
            /\ UNCHANGED refresh
       ELSE /\ throttle' = [throttle EXCEPT ![i].timer = TRUE]
            /\ refresh' = [refresh EXCEPT ![i] = spawnToolsChangedRefresh(@)]

onWindowEnd(i) ==
    /\ throttle[i].timer
    /\ IF throttle[i].pending
       THEN /\ throttle' = [throttle EXCEPT ![i].pending = FALSE]
            /\ refresh' = [refresh EXCEPT ![i] = spawnToolsChangedRefresh(@)]
       ELSE /\ throttle' = [throttle EXCEPT ![i].timer = FALSE]
            /\ UNCHANGED refresh
    /\ UNCHANGED <<handle, started, stopped, stop, transport, waitFor,
                   cancelled, at, backoff, firstAck, removals, term, owed,
                   signals>>

(***************************************************************************)
(* runListener: cancelled, it leaves; otherwise it connects, and how the   *)
(* attempt ends decides the wait before the next one. An acknowledgement   *)
(* resets the backoff, and any but the first may have missed a change.     *)
(***************************************************************************)
Leave(i) ==
    at[i] \in {"loop", "connected", "sleeping"} /\ cancelled[i] /\ Gone(i)

(* The waits: jitter, an hour, or a backoff that doubles to its cap. *)
After(i, result) ==
    /\ at' = [at EXCEPT ![i] = "sleeping"]
    /\ backoff' = [backoff EXCEPT ![i] =
                     IF result = "error" /\ @ < MaxLevel THEN @ + 1 ELSE @]

Connect(i, r) ==
    /\ at[i] = "loop" /\ ~cancelled[i]
    /\ \/ /\ ListenResult(r) # "ack" /\ After(i, ListenResult(r))
          /\ UNCHANGED <<firstAck, throttle, refresh, owed>>
       \/ /\ ListenResult(r) = "ack"
          /\ at' = [at EXCEPT ![i] = "connected"]
          /\ backoff' = [backoff EXCEPT ![i] = 0]
          /\ firstAck' = [firstAck EXCEPT ![i] = FALSE]
          /\ IF firstAck[i] THEN UNCHANGED <<throttle, refresh, owed>> ELSE Call(i)
    /\ UNCHANGED <<handle, started, stopped, stop, transport, waitFor,
                   cancelled, removals, term, signals>>

Receive(i, m) ==
    /\ at[i] = "connected" /\ signals < MaxSignals /\ signals' = signals + 1
    /\ \/ /\ MessageResult(m) = "changed" /\ Call(i) /\ UNCHANGED <<at, backoff>>
       \/ /\ MessageResult(m) \in {"graceful", "error"}
          /\ After(i, MessageResult(m))
          /\ UNCHANGED <<throttle, refresh, owed>>
    /\ UNCHANGED <<handle, started, stopped, stop, transport, waitFor,
                   cancelled, firstAck, removals, term>>

(* The stream is cut, or silent beyond streamIdleTimeout. *)
Lose(i, result) ==
    /\ at[i] = "connected" /\ signals < MaxSignals /\ signals' = signals + 1
    /\ After(i, result)
    /\ UNCHANGED <<handle, started, stopped, stop, transport, waitFor,
                   cancelled, firstAck, throttle, refresh, removals, term,
                   owed>>

sleepListen(i) ==
    /\ at[i] = "sleeping" /\ ~cancelled[i] /\ at' = [at EXCEPT ![i] = "loop"]
    /\ UNCHANGED <<handle, started, stopped, stop, transport, waitFor,
                   cancelled, backoff, firstAck, throttle, refresh, removals,
                   term, owed, signals>>

-----------------------------------------------------------------------------
(* The refresh goroutine: a round, then another while it was marked dirty. *)
runOneToolsChangedRound(i) ==
    /\ refresh[i].at = "spawned"
    /\ refresh' = [refresh EXCEPT ![i].at = "round"]
    /\ owed' = [owed EXCEPT ![i] = FALSE]
    /\ UNCHANGED <<handle, started, stopped, stop, transport, waitFor,
                   cancelled, at, backoff, firstAck, throttle, removals, term,
                   signals>>

RoundOver(i) ==
    /\ refresh[i].at = "round"
    /\ refresh' = [refresh EXCEPT ![i] =
                     IF @.dirty THEN [@ EXCEPT !.dirty = FALSE, !.at = "spawned"]
                     ELSE NoRefresh]
    /\ UNCHANGED <<handle, started, stopped, stop, transport, waitFor,
                   cancelled, at, backoff, firstAck, throttle, removals, term,
                   owed, signals>>

StopWithoutCancel ==
    /\ stop = "no" /\ stop' = "waiting"
    /\ stopped' = TRUE /\ handle' = 0
    /\ UNCHANGED <<started, transport, waitFor, cancelled, at, backoff,
                   firstAck, throttle, refresh, removals, term, owed, signals>>

(* Stop cancels the listener it finds, then waits for every goroutine. *)
Stop ==
    /\ stop = "no" /\ stop' = "waiting"
    /\ stopped' = TRUE
    /\ cancelled' = IF handle = 0 THEN cancelled
                    ELSE [cancelled EXCEPT ![handle] = TRUE]
    /\ handle' = 0
    /\ UNCHANGED <<started, transport, waitFor, at, backoff, firstAck,
                   throttle, refresh, removals, term, owed, signals>>

Waited ==
    /\ stop = "waiting"
    /\ \A i \in Listeners : ~Alive(i) /\ ~refresh[i].running
    /\ stop' = "returned"
    /\ UNCHANGED <<handle, started, stopped, transport, waitFor, cancelled,
                   at, backoff, firstAck, throttle, refresh, removals, term,
                   owed, signals>>

(* What a cancelled or superseded listener still has to do, and the rounds. *)
Unwind(i) == Predecessor(i) \/ Leave(i)
Refresh(i) == runOneToolsChangedRound(i) \/ RoundOver(i)

\* The process has stopped; nothing is left to do.
Over == stop = "returned" /\ UNCHANGED vars

Next ==
    \/ \E t \in Transports : Reconcile(t)
    \/ ReconcileWithout \/ Stop \/ Waited
    \/ \E i \in Listeners :
          \/ Unwind(i) \/ Refresh(i) \/ onWindowEnd(i) \/ sleepListen(i)
          \/ \E r \in Replies : Connect(i, r)
          \/ \E m \in Messages : Receive(i, m)
          \/ \E result \in {"idle", "error"} : Lose(i, result)
    \/ Over

(***************************************************************************)
(* Goroutines run; a round ends, being bounded by                          *)
(* listenToolsChangedRefreshTimeout and by its listener's context.         *)
(***************************************************************************)
Fairness == /\ \A i \in Listeners : WF_vars(Unwind(i)) /\ WF_vars(Refresh(i))
            /\ WF_vars(Waited)

Spec == Init /\ [][Next]_vars /\ Fairness

-----------------------------------------------------------------------------
(***************************************************************************)
(* Two listeners of the server are connected at once only when it was      *)
(* removed between their starts, however often a transport replaced        *)
(* another before the first had gone; and once Stop has returned nothing   *)
(* listens and nothing refreshes (listen_manager.go:199-330, 467-481).     *)
(***************************************************************************)
ListenersHandOver ==
    /\ \A i, j \in Listeners :
          i # j /\ at[i] = "connected" /\ at[j] = "connected" => term[i] # term[j]
    /\ stop = "returned" =>
          \A i \in Listeners : ~Alive(i) /\ ~refresh[i].running

(***************************************************************************)
(* No change signal is lost between the throttle and the refresh loop: as  *)
(* long as the listener is not being torn down, a signal no round has      *)
(* started after has a round coming (listen_manager.go:371-452, 691-749).  *)
(***************************************************************************)
NoSignalLost ==
    \A i \in Listeners :
        owed[i] /\ ~cancelled[i] =>
            \/ throttle[i].timer /\ throttle[i].pending
            \/ refresh[i].at = "spawned"
            \/ refresh[i].running /\ refresh[i].dirty

StopWaits == stop = "waiting"
Stopped == stop = "returned"

(* Stop returns: no chain of listeners waits for one that never goes. *)
StopReturns == StopWaits ~> Stopped

(***************************************************************************)
(* "For a given ServerID, at most one onToolsChanged call ever runs at a   *)
(* time" (listen_manager.go:141-143).                                      *)
(***************************************************************************)
OneRefreshAtATime ==
    \A i, j \in Listeners :
        i # j => ~(refresh[i].at = "round" /\ refresh[j].at = "round")
=============================================================================
