------------------------------ MODULE Shutdown ------------------------------
(***************************************************************************)
(* Graceful shutdown: shutdown.State, the proxy handler's use of it        *)
(* (Handle, initShutdownTracking, handleStreamingResponse) and             *)
(* Application.WaitForShutdown with cleanup.                               *)
(*                                                                         *)
(* The HTTP server (Fiber on fasthttp) is external: its Shutdown closes    *)
(* the listener and then waits, without a time limit, for every open       *)
(* connection, and the connection of a streamed response stays open until  *)
(* its writer returns.                                                     *)
(***************************************************************************)
EXTENDS Integers, Sequences, FiniteSets

CONSTANTS Requests,   \* client connections
          Streaming   \* whether responses are streamed: a subset of BOOLEAN

VARIABLES
    draining,   \* State.draining
    inflight,   \* State.inflight, which moves with State.wg
    canceled,   \* the parent context has been canceled
    accepting,  \* the listener is open
    phase,      \* where WaitForShutdown stands
    closed,     \* resources cleanup has torn down, in order
    req,        \* idle, checked, tracked or streaming
    once,       \* requests whose trackOnce has fired
    late        \* history: a request used a resource after cleanup took it

shutdownVars == <<draining, inflight, canceled, accepting, phase, closed, req, once, late>>

server == <<draining, canceled, accepting, phase, closed>>

\* The order in which cleanup tears things down.
CleanupOrder ==
    <<"redis", "tickers", "usage_logger", "mcp_logger", "audit_logger", "otel",
      "mcp_transports", "database", "keys">>

Resources == {CleanupOrder[i] : i \in DOMAIN CleanupOrder}

Phases == {"running", "mcp_drain", "drain", "stop_server", "cleanup", "exited", "killed"}

\* The request counter of State never goes below zero: no request is finished
\* twice.
ShutdownTypeOK ==
    /\ draining \in BOOLEAN /\ canceled \in BOOLEAN /\ accepting \in BOOLEAN
    /\ late \in BOOLEAN
    /\ inflight \in Nat
    /\ phase \in Phases
    /\ closed \in Seq(Resources)
    /\ req \in [Requests -> {"idle", "checked", "tracked", "streaming"}]
    /\ once \in [Requests -> BOOLEAN]

ShutdownInit ==
    /\ draining = FALSE
    /\ inflight = 0
    /\ canceled = FALSE
    /\ accepting = TRUE
    /\ phase = "running"
    /\ closed = <<>>
    /\ req = [r \in Requests |-> "idle"]
    /\ once = [r \in Requests |-> FALSE]
    /\ late = FALSE

Alive == phase \notin {"exited", "killed"}

Active == {r \in Requests : req[r] # "idle"}

-----------------------------------------------------------------------------
(* Requests.                                                               *)

\* The drain check at the head of Handle; a refused request leaves no trace.
CheckDraining(r) ==
    /\ Alive
    /\ accepting
    /\ req[r] = "idle"
    /\ ~draining
    /\ req' = [req EXCEPT ![r] = "checked"]
    /\ UNCHANGED <<server, inflight, once, late>>

\* initShutdownTracking, a step later.
TrackStart(r) ==
    /\ Alive
    /\ req[r] = "checked"
    /\ req' = [req EXCEPT ![r] = "tracked"]
    /\ once' = [once EXCEPT ![r] = FALSE]
    /\ inflight' = inflight + 1
    /\ UNCHANGED <<server, late>>

\* Mutant: TrackDone without the sync.Once around it.
trackDoneAlways(r) ==
    /\ once' = [once EXCEPT ![r] = TRUE]
    /\ inflight' = inflight - 1

\* TrackDone behind its sync.Once.
trackDone(r) ==
    /\ once' = [once EXCEPT ![r] = TRUE]
    /\ inflight' = IF once[r] THEN inflight ELSE inflight - 1

\* A finished request logs usage, which needs the usage logger and what is
\* torn down after it.
UseResources == late' = (late \/ closed # <<>>)

\* Handle returns after a buffered response, or an error: the deferred
\* trackDone runs.
HandleReturns(r) ==
    /\ Alive
    /\ req[r] = "tracked"
    /\ trackDone(r)
    /\ req' = [req EXCEPT ![r] = "idle"]
    /\ UseResources
    /\ UNCHANGED server

\* Handle returns after handing a stream to SendStreamWriter: its deferred
\* trackDone runs here too, while the writer goroutine goes on.
HandleReturnsStreaming(r) ==
    /\ Alive
    /\ TRUE \in Streaming
    /\ req[r] = "tracked"
    /\ trackDone(r)
    /\ req' = [req EXCEPT ![r] = "streaming"]
    /\ UNCHANGED <<server, late>>

\* The writer goroutine ends and calls trackDone as well.
StreamEnds(r) ==
    /\ Alive
    /\ req[r] = "streaming"
    /\ trackDone(r)
    /\ req' = [req EXCEPT ![r] = "idle"]
    /\ UseResources
    /\ UNCHANGED server

-----------------------------------------------------------------------------
(* WaitForShutdown.                                                        *)

\* The first signal; MCP listen streams are closed, for two seconds at most.
Signal ==
    /\ phase = "running"
    /\ phase' = "mcp_drain"
    /\ UNCHANGED <<draining, inflight, canceled, accepting, closed, req, once, late>>

BeginDrain ==
    /\ phase = "mcp_drain"
    /\ draining' = TRUE
    /\ phase' = "drain"
    /\ UNCHANGED <<inflight, canceled, accepting, closed, req, once, late>>

\* WaitForDrain returned true.
Drained ==
    /\ phase = "drain"
    /\ inflight = 0
    /\ phase' = "stop_server"
    /\ UNCHANGED <<draining, inflight, canceled, accepting, closed, req, once, late>>

\* WaitForDrain timed out: CancelInflight, then half a second's sleep.
DrainTimesOut ==
    /\ phase = "drain"
    /\ inflight > 0
    /\ canceled' = TRUE
    /\ phase' = "stop_server"
    /\ UNCHANGED <<draining, inflight, accepting, closed, req, once, late>>

\* proxyApp.Shutdown closes the listener ...
CloseListener ==
    /\ phase = "stop_server"
    /\ accepting
    /\ accepting' = FALSE
    /\ UNCHANGED <<draining, inflight, canceled, phase, closed, req, once, late>>

\* ... and returns when every connection is closed.
ServerStops ==
    /\ phase = "stop_server"
    /\ ~accepting
    /\ Active = {}
    /\ phase' = "cleanup"
    /\ UNCHANGED <<draining, inflight, canceled, accepting, closed, req, once, late>>

cleanup ==
    /\ phase = "cleanup"
    /\ closed' = Append(closed, CleanupOrder[Len(closed) + 1])
    /\ phase' = IF Len(closed') = Len(CleanupOrder) THEN "exited" ELSE phase
    /\ UNCHANGED <<draining, inflight, canceled, accepting, req, once, late>>

\* A second signal: os.Exit(1).
SecondSignal ==
    /\ phase \in Phases \ {"running", "exited", "killed"}
    /\ phase' = "killed"
    /\ UNCHANGED <<draining, inflight, canceled, accepting, closed, req, once, late>>

Gone == ~Alive /\ UNCHANGED shutdownVars

RequestStep(r) ==
    TrackStart(r) \/ HandleReturns(r) \/ HandleReturnsStreaming(r) \/ StreamEnds(r)

ShutdownStep ==
    BeginDrain \/ Drained \/ DrainTimesOut \/ CloseListener \/ ServerStops \/ cleanup

ShutdownNext ==
    \/ \E r \in Requests : CheckDraining(r) \/ RequestStep(r)
    \/ Signal \/ ShutdownStep \/ SecondSignal \/ Gone

ShutdownSpec == ShutdownInit /\ [][ShutdownNext]_shutdownVars

\* WaitForShutdown runs; buffered requests end by their timeouts or by
\* cancelation, streams by the stream timer.
ShutdownFairness ==
    /\ WF_shutdownVars(ShutdownStep)
    /\ \A r \in Requests : WF_shutdownVars(RequestStep(r))

-----------------------------------------------------------------------------
\* The requests between TrackStart and their first trackDone.
Tracked == {r \in Requests : req[r] = "tracked" /\ ~once[r]}

\* The counter WaitForDrain waits on counts each request between TrackStart
\* and the first trackDone once, and never goes below zero (a negative
\* WaitGroup counter panics), although streaming requests call trackDone twice.
CountsTrackedRequests == inflight = Cardinality(Tracked)

\* No request touches a component after cleanup has begun to tear components
\* down: usage of the last stream is enqueued before the usage logger stops.
\* DrainTimeout alone would not give this; the wait of the server's Shutdown
\* for streams the drain did not count does.
NothingAfterCleanup == ~late /\ (closed # <<>> => Active = {} \/ phase = "killed")

\* The drain counts right, and cleanup begins when nothing is left to use what
\* it tears down.
OrderlyShutdown == CountsTrackedRequests /\ NothingAfterCleanup

Signalled == phase = "mcp_drain"
Ended == phase \in {"exited", "killed"}

\* A signal ends the process, whatever requests and streams were under way.
ShutdownCompletes == Signalled ~> Ended

-----------------------------------------------------------------------------
(* What is written about the code and does not hold (see README.md).       *)

\* WaitForDrain "returns true if all requests drained": once the drain phase is
\* over without a forced cancelation, no request is active.
DrainedMeansQuiet ==
    phase \in {"stop_server", "cleanup"} /\ ~canceled => Active = {}

\* The writer goroutine "owns ... the trackDone call": the drain counts a
\* stream for as long as it runs.
StreamsAreCounted ==
    Cardinality({r \in Requests : req[r] = "streaming"}) <= inflight

\* WaitForShutdown's documented order: "stop tickers, flush usage/audit
\* loggers, close Redis, close DB".
RedisClosesAfterLoggers ==
    \A i \in DOMAIN closed :
        closed[i] = "redis" => \E j \in 1..i : closed[j] = "audit_logger"
=============================================================================
