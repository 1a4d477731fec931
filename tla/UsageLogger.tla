----------------------------- MODULE UsageLogger -----------------------------
(***************************************************************************)
(* usage.Logger: Log on the request path, the run goroutine that batches   *)
(* and flushes, Stop, and a crash with a restart that seeds the token      *)
(* counter from the stored events.  audit.Logger has the same Log, run and *)
(* Stop, always drops when full, and has neither counter nor rollups.      *)
(*                                                                         *)
(* An event stands for its key, model, hour and tokens; Bucket gives the   *)
(* rollup row it belongs to.  The database is external: a transaction      *)
(* commits or rolls back as a whole and may report an error either way.    *)
(***************************************************************************)
EXTENDS Integers, Sequences, FiniteSets, SequencesExt

CONSTANTS Events,      \* requests to be logged, each once
          Buckets,     \* (key, model, hour) rollup rows
          Bucket,      \* Bucket[e]: the row of event e
          BufferSize,  \* capacity of the channel and of a batch
          DropModes    \* which values of cfg.ShouldDropOnFull are considered

ASSUME UsageAssumption ==
    Bucket \in [Events -> Buckets] /\ BufferSize \in Nat \ {0}

VARIABLES
    dropOnFull,  \* drop events, or block their callers, when the channel is full
    caller,   \* where the Log call of each event stands
    counted,  \* events in the TokenCounter
    buffer,   \* the channel
    batch,    \* run's batch
    run,      \* select, drain, flush (with the return point), rollup or exited
    last,     \* the flush under way is the final one
    done,     \* the done channel is closed: Stop has been called
    todo,     \* rollup rows the flush has still to upsert
    stored,   \* usage_events, in order of insertion
    rolled,   \* usage_hourly: request_count of each row
    lost      \* history: events given up, by a full buffer, a failed flush or a crash

usageVars == <<dropOnFull, caller, counted, buffer, batch, run, last, done, todo, stored, rolled, lost>>

database == <<stored, rolled>>

UsageInit ==
    /\ dropOnFull \in DropModes
    /\ caller = [e \in Events |-> "new"]
    /\ counted = {}
    /\ buffer = <<>> /\ batch = <<>>
    /\ run = "select" /\ last = FALSE /\ done = FALSE
    /\ todo = {}
    /\ stored = <<>> /\ rolled = [b \in Buckets |-> 0]
    /\ lost = {}

-----------------------------------------------------------------------------
(* Log, in two steps: the counter first, then the channel.                 *)

\* tokenCounter.Add.  Requests are over before Stop is called (Shutdown's
\* NothingAfterCleanup), so no call begins then.
Count(e) ==
    /\ caller[e] = "new" /\ ~done
    /\ caller' = [caller EXCEPT ![e] = "sending"]
    /\ counted' = counted \cup {e}
    /\ UNCHANGED <<dropOnFull, buffer, batch, run, last, done, todo, database, lost>>

\* The channel has room.
Send(e) ==
    /\ caller[e] = "sending"
    /\ Len(buffer) < BufferSize
    /\ buffer' = Append(buffer, e)
    /\ caller' = [caller EXCEPT ![e] = "returned"]
    /\ UNCHANGED <<dropOnFull, counted, batch, run, last, done, todo, database, lost>>

\* The default case of the select.
Drop(e) ==
    /\ caller[e] = "sending"
    /\ dropOnFull /\ Len(buffer) = BufferSize
    /\ caller' = [caller EXCEPT ![e] = "returned"]
    /\ lost' = lost \cup {e}
    /\ UNCHANGED <<dropOnFull, counted, buffer, batch, run, last, done, todo, database>>

-----------------------------------------------------------------------------
(* The run goroutine.                                                      *)

TakeEvent ==
    /\ run = "select" /\ buffer # <<>>
    /\ batch' = Append(batch, Head(buffer))
    /\ buffer' = Tail(buffer)
    /\ run' = IF Len(batch') >= BufferSize THEN "flush" ELSE "select"
    /\ UNCHANGED <<dropOnFull, caller, counted, last, done, todo, database, lost>>

\* ticker.C; an empty batch is not flushed.
Timer ==
    /\ run = "select" /\ batch # <<>>
    /\ run' = "flush"
    /\ UNCHANGED <<dropOnFull, caller, counted, buffer, batch, last, done, todo, database, lost>>

\* Mutant: the goroutine leaves as soon as done is closed.
NoticeDoneNoDrain ==
    /\ run = "select" /\ done
    /\ run' = IF batch = <<>> THEN "exited" ELSE "flush"
    /\ last' = TRUE
    /\ UNCHANGED <<dropOnFull, caller, counted, buffer, batch, done, todo, database, lost>>

\* select may pick done while events are waiting.
NoticeDone ==
    /\ run = "select" /\ done
    /\ run' = "drain"
    /\ UNCHANGED <<dropOnFull, caller, counted, buffer, batch, last, done, todo, database, lost>>

Drain ==
    /\ run = "drain" /\ buffer # <<>>
    /\ batch' = Append(batch, Head(buffer))
    /\ buffer' = Tail(buffer)
    /\ UNCHANGED <<dropOnFull, caller, counted, run, last, done, todo, database, lost>>

\* The drain loop's default: the last flush, if there is anything to flush.
DrainEnds ==
    /\ run = "drain" /\ buffer = <<>>
    /\ run' = IF batch = <<>> THEN "exited" ELSE "flush"
    /\ last' = TRUE
    /\ UNCHANGED <<dropOnFull, caller, counted, buffer, batch, done, todo, database, lost>>

\* Where run goes once flush has returned.
Resume == IF last THEN "exited" ELSE "select"

\* The rollup rows of the batch.
RollupsOf(b) == {Bucket[b[i]] : i \in DOMAIN b}

\* The transaction fails: the batch is given up, stored or not (an error of
\* Commit does not say), and no rollups are made.
FlushFails ==
    /\ run = "flush"
    /\ \/ stored' = stored
       \/ stored' = stored \o batch
    /\ lost' = lost \cup ToSet(batch)
    /\ batch' = <<>>
    /\ run' = Resume
    /\ UNCHANGED <<dropOnFull, caller, counted, buffer, last, done, todo, rolled>>

\* The transaction commits; the rollups follow, outside it.
FlushCommits ==
    /\ run = "flush"
    /\ stored' = stored \o batch
    /\ todo' = RollupsOf(batch)
    /\ run' = "rollup"
    /\ UNCHANGED <<dropOnFull, caller, counted, buffer, batch, last, done, rolled, lost>>

\* How many events of the batch belong to row b.
Share(b) == Cardinality({i \in DOMAIN batch : Bucket[batch[i]] = b})

RollsUp(b) == rolled' = [rolled EXCEPT ![b] = @ + Share(b)]

\* UpsertUsageHourly for one row, which may fail on its own; the batch is
\* emptied after the last.
Rollup(b) ==
    /\ run = "rollup" /\ b \in todo
    /\ RollsUp(b) \/ UNCHANGED rolled
    /\ todo' = todo \ {b}
    /\ run' = IF todo' = {} THEN Resume ELSE run
    /\ batch' = IF todo' = {} THEN <<>> ELSE batch
    /\ UNCHANGED <<dropOnFull, caller, counted, buffer, last, done, stored, lost>>

-----------------------------------------------------------------------------
\* cleanup calls Stop when no request is left.
Stop ==
    /\ ~done
    /\ \A e \in Events : caller[e] # "sending"
    /\ done' = TRUE
    /\ UNCHANGED <<dropOnFull, caller, counted, buffer, batch, run, last, todo, database, lost>>

\* The process dies and starts again: memory is gone, TokenCounter.Seed reads
\* usage_events.
Crash ==
    /\ run # "exited"
    /\ caller' = [e \in Events |-> IF caller[e] = "new" THEN "new" ELSE "returned"]
    /\ counted' = ToSet(stored)
    /\ lost' = lost \cup ToSet(buffer) \cup (ToSet(batch) \ ToSet(stored))
                   \cup {e \in Events : caller[e] = "sending"}
    /\ buffer' = <<>> /\ batch' = <<>> /\ run' = "select" /\ last' = FALSE
    /\ done' = FALSE /\ todo' = {}
    /\ UNCHANGED <<dropOnFull, database>>

Exited == run = "exited" /\ UNCHANGED usageVars

Runs ==
    TakeEvent \/ Timer \/ NoticeDone \/ Drain \/ DrainEnds \/ FlushFails \/ FlushCommits
    \/ \E b \in Buckets : Rollup(b)

UsageNext ==
    \/ \E e \in Events : Count(e) \/ Send(e) \/ Drop(e)
    \/ Runs \/ Stop \/ Crash \/ Exited

UsageSpec == UsageInit /\ [][UsageNext]_usageVars

\* The run goroutine is scheduled and its database calls return; a Log call
\* whose channel operation can proceed does.
UsageFairness ==
    /\ WF_usageVars(Runs)
    /\ \A e \in Events : WF_usageVars(Send(e) \/ Drop(e))

-----------------------------------------------------------------------------
\* The channel never holds more than its capacity, and only logged events are
\* in the channel, the batch and usage_events.
UsageTypeOK ==
    /\ dropOnFull \in DropModes
    /\ caller \in [Events -> {"new", "sending", "returned"}]
    /\ counted \subseteq Events /\ lost \subseteq Events
    /\ ToSet(buffer) \subseteq Events /\ Len(buffer) <= BufferSize
    /\ ToSet(batch) \subseteq Events
    /\ ToSet(stored) \subseteq Events
    /\ run \in {"select", "drain", "flush", "rollup", "exited"}
    /\ last \in BOOLEAN /\ done \in BOOLEAN
    /\ todo \subseteq Buckets
    /\ rolled \in [Buckets -> Nat]

\* usage_events holds an event at most once, although a flush may report an
\* error after its transaction committed: nothing is ever flushed again.
StoredOnce == IsInjective(stored)

\* When Stop returns, every event whose Log call returned is in the database
\* or was reported as dropped or failed: none is left in the channel or batch.
StopFlushes ==
    run = "exited" =>
        /\ buffer = <<>> /\ batch = <<>>
        /\ \A e \in Events : caller[e] = "returned" => e \in ToSet(stored) \cup lost

\* A rollup row never counts more requests than usage_events has for it,
\* across failed upserts, crashes and partly made rollups: the raw events stay
\* the source of truth and a recomputation can only add.
RollupsNeverAhead ==
    \A b \in Buckets :
        rolled[b] <= Cardinality({i \in DOMAIN stored : Bucket[stored[i]] = b})

\* The token budget never forgets a request: whatever is stored, or still on
\* its way to the database, is in the counter, also after a restart.
BudgetCovers == ToSet(stored) \cup ToSet(buffer) \cup ToSet(batch) \subseteq counted

\* When Stop returns every logged event is stored or was reported lost; none is
\* stored twice, no rollup is ahead of the events, and the token budget counts
\* whatever is stored or on its way to the database, also after a crash and a
\* restart.
UsageIsKept == StoredOnce /\ StopFlushes /\ RollupsNeverAhead /\ BudgetCovers

\* Log returns, even with a channel that blocks its callers when full.
LogReturns == \A e \in Events : caller[e] = "sending" ~> caller[e] = "returned"

\* Stop has been called and waits for the run goroutine.
StopWaits == done /\ run # "exited"

\* Stop returns (or the process dies first).
StopReturns == StopWaits ~> ~StopWaits
=============================================================================
