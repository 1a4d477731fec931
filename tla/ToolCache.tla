----------------------------- MODULE ToolCache -----------------------------
(***************************************************************************)
(* The cache of one MCP server's tool listing (internal/mcp/tool_cache.go):*)
(* callers that read it, callers that force a refresh, and callers that    *)
(* invalidate it after the server's credential or address was changed.     *)
(* Fetches of the server are shared: one round at a time, joined by every  *)
(* caller that finds the entry missing or stale. A round reads the         *)
(* server's generation, fetches without any lock, and publishes only if no *)
(* invalidation has raised the generation since; then it writes through to *)
(* the store under storeMu and looks at the generation twice more.         *)
(*                                                                         *)
(* A listing is known by the transport it was fetched over: every change   *)
(* of the server's configuration makes a new one, counted here.            *)
(***************************************************************************)
EXTENDS Naturals, FiniteSets

CONSTANTS
    Callers,
    NoExpiry,                  \* maxAge = 0: a listing without a hint never expires
    maxToolCacheEntryAttempts,
    MaxOps                     \* bound on the calls, reloads and restarts of a run

VARIABLES
    transport, \* the server's transport in MCPTransportCache
    entry,     \* the published cacheEntry
    generation,
    store,     \* the persisted listing
    storeMu,   \* who holds it
    round,     \* the singleflight round
    at, op, attempt, got,
    told,      \* onChange has fired since the listing last changed
    floor,     \* the transport at the last invalidation before the call (history)
    rounds,    \* upstream replies in rounds that were not over when the call
               \* began, at most 1 (history)
    last,      \* the transport at the last invalidation (history)
    due,       \* the same, of the last one the store must show (history)
    owed,      \* a store delete failed or was lost in a crash (history)
    ops

vars == <<transport, entry, generation, store, storeMu, round, at, op,
          attempt, got, told, floor, rounds, last, due, owed, ops>>

Nobody == "nobody"
None == [fetched |-> FALSE, over |-> 0, generation |-> 0, fresh |-> FALSE,
         never |-> FALSE]

(* What the hints of a reply ask for: CacheHint.Scope and TTLMsSet. *)
Hints == {"none", "public", "private", "unproven"}

(* The shared round. "members" are the callers waiting on its channel. *)
NoRound == [at |-> "none", force |-> FALSE, startGen |-> 0, over |-> 0,
            hint |-> "none", entry |-> None, members |-> {}]

(***************************************************************************)
(* ttl is the upstream's hint, clamped, or maxAge; only a listing without  *)
(* a hint, in a cache without maxAge, never expires.                       *)
(***************************************************************************)
resolveTTL(hint) == hint = "none" /\ NoExpiry

isFresh(e) == e.fetched /\ e.fresh

toolsListingChanged(old, new) == ~ old.fetched \/ old.over # new.over

(* The outcomes of writing a listing through: the store's content after    *)
(* it, and whether a Save succeeded.                                       *)
persistListing(e, hint) ==
    IF hint = "private"
    THEN {[store |-> None, saved |-> FALSE, failed |-> FALSE],
          [store |-> store, saved |-> FALSE, failed |-> store.fetched]}
    ELSE IF hint = "unproven"
    THEN {[store |-> store, saved |-> FALSE, failed |-> FALSE]}
    ELSE {[store |-> e, saved |-> TRUE, failed |-> FALSE],
          [store |-> store, saved |-> FALSE, failed |-> FALSE]}

----------------------------------------------------------------------------
(* New, and LoadFromStore: a persisted listing is shown, but never fresh. *)
LoadFromStore(s) == [s EXCEPT !.fresh = FALSE, !.never = FALSE, !.generation = 0]

Init ==
    /\ transport = 0 /\ last = 0 /\ due = 0 /\ owed = FALSE /\ ops = 0
    /\ store \in {None, [None EXCEPT !.fetched = TRUE]}
    /\ entry = LoadFromStore(store)
    /\ generation = 0 /\ storeMu = Nobody /\ round = NoRound /\ told = TRUE
    /\ at = [c \in Callers |-> "idle"] /\ op = [c \in Callers |-> "none"]
    /\ attempt = [c \in Callers |-> 0] /\ got = [c \in Callers |-> None]
    /\ floor = [c \in Callers |-> 0] /\ rounds = [c \in Callers |-> 0]

TypeOK ==
    /\ transport \in 0..MaxOps /\ last \in 0..MaxOps /\ due \in 0..last
    /\ generation \in 0..MaxOps
    /\ storeMu \in Callers \cup {Nobody, "round"}
    /\ round.members \subseteq Callers
    /\ at \in [Callers -> {"idle", "try", "wait", "received", "swap", "bump",
                           "delete", "fire", "done", "failed"}]
    /\ attempt \in [Callers -> 0..maxToolCacheEntryAttempts]

----------------------------------------------------------------------------
(* A call begins: GetTools or HeaderParams, RefreshServer, Invalidate, or  *)
(* the tail of an admin handler that changed the server (refreshMCPCaches, *)
(* then InvalidateWithStore).                                              *)
Start(c, o) ==
    /\ at[c] = "idle" /\ ops < MaxOps
    /\ ops' = ops + 1
    /\ op' = [op EXCEPT ![c] = o]
    /\ at' = [at EXCEPT ![c] = CASE o \in {"get", "refresh"} -> "try"
                                 [] o = "change" -> "swap"
                                 [] o = "invalidate" -> "bump"]
    /\ attempt' = [attempt EXCEPT ![c] = 0]
    /\ floor' = [floor EXCEPT ![c] = last]
    /\ rounds' = [rounds EXCEPT ![c] = IF round.entry.fetched THEN 1 ELSE 0]
    /\ got' = [got EXCEPT ![c] = None]
    /\ UNCHANGED <<transport, entry, generation, store, storeMu, round, told, last, due, owed>>

End(c, how, e) ==
    /\ at' = [at EXCEPT ![c] = how]
    /\ got' = [got EXCEPT ![c] = e]

(* entryFor and RefreshServer, one attempt: a fresh entry answers a reader;*)
(* otherwise sharedFetch joins the round or starts it. The caller's own    *)
(* context may have ended, and the attempts are bounded.                   *)
Attempt(c) ==
    /\ at[c] = "try"
    /\ IF attempt[c] = maxToolCacheEntryAttempts
       THEN End(c, "failed", None) /\ UNCHANGED <<attempt, round>>
       ELSE \/ End(c, "failed", None) /\ UNCHANGED <<attempt, round>>
            \/ /\ op[c] = "get" /\ isFresh(entry)
               /\ End(c, "done", entry)
               /\ UNCHANGED <<attempt, round>>
            \/ /\ ~ (op[c] = "get" /\ isFresh(entry))
               /\ attempt' = [attempt EXCEPT ![c] = @ + 1]
               /\ at' = [at EXCEPT ![c] = "wait"]
               /\ round' = IF round.at = "none"
                           THEN [NoRound EXCEPT !.at = "recheck", !.members = {c},
                                                !.force = op[c] = "refresh"]
                           ELSE [round EXCEPT !.members = @ \cup {c}]
               /\ UNCHANGED got
    /\ UNCHANGED <<transport, entry, generation, store, storeMu, op, told,
                   floor, rounds, last, due, owed, ops>>

(* The caller's context ends first: it leaves, the round goes on. *)
GiveUp(c) ==
    /\ at[c] = "wait"
    /\ End(c, "failed", None)
    /\ round' = [round EXCEPT !.members = @ \ {c}]
    /\ UNCHANGED <<transport, entry, generation, store, storeMu, op, attempt,
                   told, floor, rounds, last, due, owed, ops>>

(* The round ends and every member receives its outcome: an error, an      *)
(* entry, or nothing when the fetch was superseded. "fetched" tells a      *)
(* forced refresh whether the round went upstream at all.                  *)
Deliver(err, fetched, e) ==
    LET m == round.members
        next(c) == IF err THEN "failed"
                   ELSE IF op[c] = "refresh" THEN IF fetched THEN "done" ELSE "try"
                   ELSE IF e.fetched THEN "received" ELSE "try"
    IN  /\ at' = [c \in Callers |-> IF c \in m THEN next(c) ELSE at[c]]
        /\ got' = [c \in Callers |-> IF c \in m THEN e ELSE got[c]]
        /\ round' = NoRound

(* entryFor, on a shared entry: discarded when an invalidation came after. *)
Received(c) ==
    /\ at[c] = "received"
    /\ at' = [at EXCEPT ![c] = IF got[c].generation = generation THEN "done" ELSE "try"]
    /\ UNCHANGED <<transport, entry, generation, store, storeMu, round, op, attempt,
                   got, told, floor, rounds, last, due, owed, ops>>

----------------------------------------------------------------------------
\* Mutant: a forced round settles for a fresh entry too.
RecheckAlways ==
    /\ round.at = "recheck"
    /\ IF isFresh(entry)
       THEN Deliver(FALSE, TRUE, entry)
       ELSE round' = [round EXCEPT !.at = "begin"] /\ UNCHANGED <<at, got>>
    /\ UNCHANGED <<transport, entry, generation, store, storeMu, op, attempt,
                   told, floor, rounds, last, due, owed, ops>>

(* sharedFetch's callback looks once more before it fetches. *)
Recheck ==
    /\ round.at = "recheck"
    /\ IF ~ round.force /\ isFresh(entry)
       THEN Deliver(FALSE, FALSE, entry)
       ELSE round' = [round EXCEPT !.at = "begin"] /\ UNCHANGED <<at, got>>
    /\ UNCHANGED <<transport, entry, generation, store, storeMu, op, attempt,
                   told, floor, rounds, last, due, owed, ops>>

(* The slot of fetchSem, then fetchAndPublish: the generation first. *)
Begin ==
    /\ round.at = "begin"
    /\ \/ /\ round' = [round EXCEPT !.at = "fetch", !.startGen = generation]
          /\ UNCHANGED <<at, got>>
       \/ Deliver(TRUE, FALSE, None)
    /\ UNCHANGED <<transport, entry, generation, store, storeMu, op, attempt,
                   told, floor, rounds, last, due, owed, ops>>

(* MakeToolFetcher takes the transport of the moment. *)
Fetch ==
    /\ round.at = "fetch"
    /\ round' = [round EXCEPT !.at = "publish", !.over = transport]
    /\ UNCHANGED <<transport, entry, generation, store, storeMu, at, op, attempt,
                   got, told, floor, rounds, last, due, owed, ops>>

(* The upstream answers, or fails, or the round's own timeout ends it; the *)
(* listing is published unless the generation has moved.                   *)
Publish ==
    /\ round.at = "publish"
    /\ \/ Deliver(TRUE, FALSE, None) /\ UNCHANGED <<entry, told, rounds>>
       \/ /\ rounds' = [c \in Callers |-> 1]
          /\ \E hint \in Hints :
               LET e == [fetched |-> TRUE, over |-> round.over,
                         generation |-> round.startGen,
                         fresh |-> TRUE, never |-> resolveTTL(hint)]
               IN  IF generation # round.startGen
                   THEN Deliver(FALSE, TRUE, None) /\ UNCHANGED <<entry, told>>
                   ELSE /\ entry' = e
                        /\ told' = (told /\ ~ toolsListingChanged(entry, e))
                        /\ round' = [round EXCEPT !.at = "hook", !.hint = hint,
                                                  !.entry = e]
                        /\ UNCHANGED <<at, got>>
    /\ UNCHANGED <<transport, generation, store, storeMu, op, attempt, floor,
                   last, due, owed, ops>>

(* fireOnChange, outside every lock, before the store is written. *)
Hook ==
    /\ round.at = "hook"
    /\ told' = TRUE
    /\ round' = [round EXCEPT !.at = "lock"]
    /\ UNCHANGED <<transport, entry, generation, store, storeMu, at, op, attempt,
                   got, floor, rounds, last, due, owed, ops>>

(* storeMu, and the generation again: superseded, the write is skipped. *)
LockStore ==
    /\ round.at = "lock" /\ storeMu = Nobody
    /\ IF generation = round.startGen
       THEN /\ storeMu' = "round"
            /\ round' = [round EXCEPT !.at = "save"]
            /\ UNCHANGED <<at, got>>
       ELSE Deliver(FALSE, TRUE, round.entry) /\ UNCHANGED storeMu
    /\ UNCHANGED <<transport, entry, generation, store, op, attempt, told, floor,
                   rounds, last, due, owed, ops>>

(* Save takes its time: an invalidation may come before it returns. *)
Save ==
    /\ round.at = "save"
    /\ \E r \in persistListing(round.entry, round.hint) :
         /\ store' = r.store
         /\ owed' = (owed \/ r.failed)
         /\ due' = IF r.saved /\ generation # round.startGen THEN last ELSE due
         /\ IF r.saved
            THEN /\ round' = [round EXCEPT !.at = "saved"]
                 /\ UNCHANGED <<at, got, storeMu>>
            ELSE Deliver(FALSE, TRUE, round.entry) /\ storeMu' = Nobody
    /\ UNCHANGED <<transport, entry, generation, op, attempt, told, floor, rounds,
                   last, ops>>

(* The generation a third time: a listing superseded while it was saved is *)
(* deleted again. The delete may fail.                                     *)
Saved ==
    /\ round.at = "saved"
    /\ \/ /\ store' = IF generation = round.startGen THEN store ELSE None
          /\ UNCHANGED owed
       \/ generation # round.startGen /\ owed' = TRUE /\ UNCHANGED store
    /\ Deliver(FALSE, TRUE, round.entry)
    /\ storeMu' = Nobody
    /\ UNCHANGED <<transport, entry, generation, op, attempt, told, floor, rounds,
                   last, due, ops>>

----------------------------------------------------------------------------
(* UpdateMCPServer and its kin: refreshMCPCaches replaces the transport     *)
(* before the listing is invalidated.                                      *)
Swap(c) ==
    /\ at[c] = "swap"
    /\ transport' = transport + 1
    /\ at' = [at EXCEPT ![c] = "bump"]
    /\ UNCHANGED <<entry, generation, store, storeMu, round, op, attempt, got,
                   told, floor, rounds, last, due, owed, ops>>

(* The ticker's LoadAll replaces it too, when the row was changed          *)
(* elsewhere; it invalidates nothing.                                      *)
Reload ==
    /\ ops < MaxOps
    /\ ops' = ops + 1
    /\ transport' = transport + 1
    /\ UNCHANGED <<entry, generation, store, storeMu, round, at, op, attempt, got,
                   told, floor, rounds, last, due, owed>>

(* Invalidate, and the first half of InvalidateWithStore. *)
Invalidate(c) ==
    /\ at[c] = "bump"
    /\ entry' = None
    /\ generation' = generation + 1
    /\ told' = FALSE
    /\ last' = transport
    /\ due' = IF op[c] = "change" \/ round.at = "saved" THEN transport ELSE due
    /\ at' = [at EXCEPT ![c] = IF op[c] = "change" THEN "delete" ELSE "fire"]
    /\ UNCHANGED <<transport, store, storeMu, round, op, attempt, got, floor,
                   rounds, owed, ops>>

InvalidateWithStore(c) ==
    /\ at[c] = "delete" /\ storeMu = Nobody
    /\ \/ store' = None /\ UNCHANGED owed
       \/ store.fetched /\ owed' = TRUE /\ UNCHANGED store
    /\ at' = [at EXCEPT ![c] = "fire"]
    /\ UNCHANGED <<transport, entry, generation, storeMu, round, op, attempt, got,
                   told, floor, rounds, last, due, ops>>

fireOnChange(c) ==
    /\ at[c] = "fire"
    /\ told' = TRUE
    /\ at' = [at EXCEPT ![c] = "done"]
    /\ UNCHANGED <<transport, entry, generation, store, storeMu, round, op, attempt,
                   got, floor, rounds, last, due, owed, ops>>

----------------------------------------------------------------------------
(* The entry's freshness window ends. *)
Expire ==
    /\ isFresh(entry) /\ ~ entry.never
    /\ entry' = [entry EXCEPT !.fresh = FALSE]
    /\ UNCHANGED <<transport, generation, store, storeMu, round, at, op, attempt,
                   got, told, floor, rounds, last, due, owed, ops>>

Return(c) ==
    /\ at[c] \in {"done", "failed"}
    /\ at' = [at EXCEPT ![c] = "idle"]
    /\ got' = [got EXCEPT ![c] = None]
    /\ UNCHANGED <<transport, entry, generation, store, storeMu, round, op, attempt,
                   told, floor, rounds, last, due, owed, ops>>

(* The process dies; the next one loads the store. *)
Restart ==
    /\ ops < MaxOps /\ ops' = ops + 1
    /\ owed' = (owed \/ (round.at = "saved" /\ generation # round.startGen)
                  \/ \E c \in Callers : at[c] = "delete")
    /\ entry' = LoadFromStore(store)
    /\ generation' = 0 /\ storeMu' = Nobody /\ round' = NoRound /\ told' = TRUE
    /\ at' = [c \in Callers |-> "idle"] /\ got' = [c \in Callers |-> None]
    /\ UNCHANGED <<transport, store, op, attempt, floor, rounds, last, due>>

Call(c) == Attempt(c) \/ GiveUp(c) \/ Received(c) \/ Swap(c) \/ Invalidate(c)
           \/ InvalidateWithStore(c) \/ fireOnChange(c) \/ Return(c)
Round == Recheck \/ Begin \/ Fetch \/ Publish \/ Hook \/ LockStore \/ Save \/ Saved

Next ==
    \/ \E c \in Callers : \E o \in {"get", "refresh", "change", "invalidate"} : Start(c, o)
    \/ \E c \in Callers : Call(c)
    \/ Round \/ Reload \/ Expire \/ Restart

Spec == Init /\ [][Next]_vars

----------------------------------------------------------------------------
(* A reader that began after an invalidation is never given a listing      *)
(* fetched over a transport older than that invalidation: not by the entry,*)
(* not by a round it joined in any phase (fetchAndPublish's and entryFor's *)
(* comparisons of the generation).                                         *)
ServedAreCurrent ==
    \A c \in Callers :
        op[c] = "get" /\ at[c] = "done" => got[c].fetched /\ got[c].over >= floor[c]

(* RefreshServer reports success only if a round that was not over when it *)
(* was called got a reply of the upstream, whoever led it: being served    *)
(* what is cached is never success.                                        *)
RefreshMeansFetched ==
    \A c \in Callers : op[c] = "refresh" /\ at[c] = "done" => rounds[c] = 1

(* When nothing is in flight, the store holds nothing fetched before the   *)
(* last InvalidateWithStore, nor before an Invalidate that came while a    *)
(* listing was being saved, unless a delete failed or was lost in a crash: *)
(* what LoadFromStore would bring back is current. And whoever subscribed  *)
(* to changes has been told of the last one.                               *)
Quiet == round.at = "none" /\ \A c \in Callers : at[c] \in {"idle", "done", "failed"}
NothingResurrected ==
    Quiet => /\ store.fetched /\ ~ owed => store.over >= due
             /\ told

(* The cache keeps up with its server: nothing stale is served, reported   *)
(* as refreshed or kept for the next start, whatever readers, refreshes,   *)
(* invalidations, reloads and restarts interleave.                         *)
NoStaleTools == ServedAreCurrent /\ RefreshMeansFetched /\ NothingResurrected
=============================================================================
