----------------------------- MODULE ToolProofs -----------------------------
(***************************************************************************)
(* Proofs about the cache of an MCP server's tools, for any concurrent     *)
(* callers, about the login throttle, for any limits and any concurrent    *)
(* attempts, and about the proxy to MCP servers with its usage logger, for *)
(* any calls, servers, grants, answers and queue and batch sizes.          *)
(***************************************************************************)
EXTENDS ToolCache, LoginThrottle, McpProxy, TLAPS

-----------------------------------------------------------------------------
(* The tool cache.                                                         *)

Places == {"idle", "try", "wait", "received", "swap", "bump", "delete", "fire", "done", "failed"}
Operations == {"none", "get", "refresh", "change", "invalidate"}
Listings == [fetched : BOOLEAN, over : Nat, generation : Nat, fresh : BOOLEAN, never : BOOLEAN]
Written == {"hook", "lock", "save", "saved"}
Phases == {"none", "recheck", "begin", "fetch", "publish"} \cup Written
Rounds == [at : Phases, force : BOOLEAN, startGen : Nat, over : Nat, hint : Hints,
           entry : Listings, members : SUBSET Callers]

ToolTypes ==
    /\ transport \in Nat /\ last \in Nat /\ due \in Nat /\ generation \in Nat
    /\ entry \in Listings /\ store \in Listings /\ round \in Rounds
    /\ at \in [Callers -> Places] /\ op \in [Callers -> Operations]
    /\ got \in [Callers -> Listings]
    /\ floor \in [Callers -> Nat] /\ rounds \in [Callers -> {0, 1}]
    /\ told \in BOOLEAN /\ owed \in BOOLEAN

\* No invalidation is of a transport that is still to come.
Ordered == due <= last /\ last <= transport /\ \A c \in Callers : floor[c] <= last

\* A listing of the present generation was fetched after the last invalidation.
Current(e) == e.generation <= generation /\ (e.generation = generation => e.over >= last)

EntrySound == isFresh(entry) => entry.generation = generation /\ entry.over >= last

\* A round that read the present generation has fetched, and publishes, nothing
\* older; and who was there when the upstream replied, or came later, counts it.
RoundSound ==
    /\ round.at \in {"fetch", "publish"} \cup Written => round.startGen <= generation
    /\ round.at = "publish" /\ round.startGen = generation => round.over >= last
    /\ round.at \in Written =>
          round.entry.fetched /\ round.entry.generation = round.startGen /\ Current(round.entry)
    /\ round.entry.fetched =>
          round.at \in Written /\ \A c \in Callers : at[c] # "idle" => rounds[c] = 1
    /\ \A c \in round.members : at[c] = "wait"

CallSound(c) ==
    /\ at[c] \in {"try", "wait"} => op[c] \in {"get", "refresh"}
    /\ at[c] \in {"swap", "bump", "delete", "fire"} => op[c] \in {"change", "invalidate"}
    /\ at[c] = "received" => op[c] = "get" /\ got[c].fetched /\ Current(got[c])
    /\ op[c] = "get" /\ at[c] = "done" => got[c].fetched /\ got[c].over >= floor[c]
    /\ op[c] = "refresh" /\ at[c] = "done" => rounds[c] = 1
CallsSound == \A c \in Callers : CallSound(c)

\* What the store should not hold is about to be deleted, or the delete failed.
StoreSound ==
    store.fetched /\ ~owed =>
        \/ store.over >= due
        \/ \E c \in Callers : at[c] = "delete"
        \/ round.at = "saved" /\ generation # round.startGen

\* Whoever changed the listing last has yet to tell, or somebody has told.
ToldSound == told \/ round.at = "hook" \/ \E c \in Callers : at[c] \in {"delete", "fire"}

ToolInv ==
    /\ ToolTypes /\ Ordered /\ EntrySound /\ RoundSound /\ CallsSound
    /\ StoreSound /\ ToldSound

LEMMA NoListing == None \in Listings /\ ~None.fetched
  BY DEF None, Listings

LEMMA NoRoundIs ==
    /\ NoRound \in Rounds /\ NoRound.at = "none" /\ ~NoRound.entry.fetched
    /\ NoRound.members = {}
  BY NoListing DEF NoRound, Rounds, Phases, Hints

LEMMA FromStore ==
    ASSUME NEW s \in Listings
    PROVE  LoadFromStore(s) \in Listings /\ ~isFresh(LoadFromStore(s))
  BY DEF LoadFromStore, Listings, isFresh

LEMMA ToolInit == Init => ToolInv
  <1> SUFFICES ASSUME Init PROVE ToolInv OBVIOUS
  <1>1. store \in Listings /\ store.over = 0
    <2>1. [None EXCEPT !.fetched = TRUE] \in Listings /\ [None EXCEPT !.fetched = TRUE].over = 0
      BY DEF None, Listings
    <2>2. None.over = 0
      BY DEF None
    <2> QED BY <2>1, <2>2, NoListing DEF Init
  <1>2. entry \in Listings /\ ~isFresh(entry)
    BY <1>1, FromStore DEF Init
  <1>3. ToolTypes
    BY <1>1, <1>2, NoListing, NoRoundIs DEF Init, ToolTypes, Places, Operations
  <1>4. Ordered /\ EntrySound /\ RoundSound
    BY <1>2, NoRoundIs DEF Init, Ordered, EntrySound, RoundSound, Written
  <1>5. CallsSound /\ StoreSound /\ ToldSound
    BY <1>1 DEF Init, CallsSound, CallSound, StoreSound, ToldSound
  <1> QED BY <1>3, <1>4, <1>5 DEF ToolInv

(* What no step of a caller or of the round but the invalidations changes.  *)
Settled == UNCHANGED <<transport, generation, last, op, floor>>

\* The round ends with a listing that may be shown, and a forced refresh counts
\* it only when the upstream replied.
LEMMA Delivering ==
    ASSUME ToolInv, Settled, NEW err \in BOOLEAN, NEW fetched \in BOOLEAN, NEW e \in Listings,
           Deliver(err, fetched, e), e.fetched => Current(e),
           rounds' \in [Callers -> {0, 1}],
           \A c \in Callers : rounds[c] = 1 => rounds'[c] = 1,
           fetched => \A c \in round.members : rounds'[c] = 1
    PROVE  /\ round' = NoRound
           /\ at' \in [Callers -> Places] /\ got' \in [Callers -> Listings]
           /\ RoundSound' /\ CallsSound'
           /\ \A c \in Callers : at'[c] = at[c] \/ (at[c] = "wait" /\ at'[c] \in {"failed", "done", "try", "received"})
  <1>1. round' = NoRound
    BY DEF Deliver
  <1>2. ASSUME NEW c \in Callers, c \notin round.members
        PROVE  at'[c] = at[c] /\ got'[c] = got[c]
    BY <1>2 DEF Deliver
  <1>3. ASSUME NEW c \in Callers, c \in round.members
        PROVE  /\ at[c] = "wait" /\ op[c] \in {"get", "refresh"} /\ got'[c] = e
               /\ at'[c] = IF err THEN "failed"
                           ELSE IF op[c] = "refresh" THEN IF fetched THEN "done" ELSE "try"
                           ELSE IF e.fetched THEN "received" ELSE "try"
    <2>1. at[c] = "wait" /\ op[c] \in {"get", "refresh"}
      BY <1>3 DEF ToolInv, RoundSound, CallsSound, CallSound
    <2> QED BY <1>3, <2>1 DEF Deliver
  <1>4. at' \in [Callers -> Places] /\ got' \in [Callers -> Listings]
    <2>1. \A c \in Callers : at'[c] \in Places /\ got'[c] \in Listings
      BY <1>2, <1>3 DEF ToolInv, ToolTypes, Places
    <2>2. /\ at' = [c \in Callers |-> at'[c]]
          /\ got' = [c \in Callers |-> got'[c]]
      BY DEF Deliver
    <2> QED BY <2>1, <2>2
  <1>5. RoundSound'
    BY <1>1, NoRoundIs DEF RoundSound, Written
  <1>6. CallsSound'
    <2> SUFFICES ASSUME NEW c \in Callers PROVE CallSound(c)'
      BY DEF CallsSound
    <2>1. CASE c \notin round.members
      BY <2>1, <1>2 DEF ToolInv, CallsSound, CallSound, Current, Settled
    <2>2. CASE c \in round.members
      BY <2>2, <1>3 DEF CallSound, Current, Settled
    <2> QED BY <2>1, <2>2
  <1> QED BY <1>1, <1>2, <1>3, <1>4, <1>5, <1>6

\* One caller moves, and joins or leaves the round at most.
LEMMA CallerMoves ==
    ASSUME ToolInv, Settled, NEW c \in Callers, NEW n \in Places, NEW g \in Listings,
           at' = [at EXCEPT ![c] = n], got' = [got EXCEPT ![c] = g],
           UNCHANGED <<entry, store, rounds, due, owed, told>>,
           round' \in Rounds, [round' EXCEPT !.members = {}] = [round EXCEPT !.members = {}],
           \A d \in round'.members : IF d = c THEN n = "wait" ELSE d \in round.members,
           n = "idle" \/ at[c] # "idle",
           at[c] \notin {"delete", "fire"}, CallSound(c)'
    PROVE  ToolInv'
  <1>0. /\ round'.at = round.at /\ round'.startGen = round.startGen /\ round'.over = round.over
        /\ round'.entry = round.entry
    <2>1. [round' EXCEPT !.members = {}].at = round'.at /\ [round EXCEPT !.members = {}].at = round.at
      BY DEF ToolInv, ToolTypes, Rounds
    <2>2. /\ [round' EXCEPT !.members = {}].startGen = round'.startGen
          /\ [round EXCEPT !.members = {}].startGen = round.startGen
      BY DEF ToolInv, ToolTypes, Rounds
    <2>3. /\ [round' EXCEPT !.members = {}].over = round'.over
          /\ [round EXCEPT !.members = {}].over = round.over
      BY DEF ToolInv, ToolTypes, Rounds
    <2>4. /\ [round' EXCEPT !.members = {}].entry = round'.entry
          /\ [round EXCEPT !.members = {}].entry = round.entry
      BY DEF ToolInv, ToolTypes, Rounds
    <2> QED BY <2>1, <2>2, <2>3, <2>4
  <1>1. \A d \in Callers : d # c => at'[d] = at[d] /\ got'[d] = got[d]
    BY DEF ToolInv, ToolTypes
  <1>2. at'[c] = n /\ got'[c] = g
    BY DEF ToolInv, ToolTypes
  <1>3. ToolTypes'
    BY DEF ToolInv, ToolTypes, Settled
  <1>4. Ordered' /\ EntrySound'
    BY DEF ToolInv, Ordered, EntrySound, Current, Settled, isFresh
  <1>5. RoundSound'
    <2>1. \A d \in Callers : at'[d] # "idle" => at[d] # "idle"
      BY <1>1, <1>2
    <2>2. \A d \in round'.members : at'[d] = "wait"
      BY <1>1, <1>2 DEF ToolInv, RoundSound, Rounds
    <2> QED BY <2>1, <2>2, <1>0 DEF ToolInv, RoundSound, Settled, Current
  <1>6. CallsSound'
    <2> SUFFICES ASSUME NEW d \in Callers, d # c PROVE CallSound(d)'
      BY DEF CallsSound
    <2> QED BY <1>1 DEF ToolInv, CallsSound, CallSound, Current, Settled
  <1>7. StoreSound' /\ ToldSound'
    BY <1>0, <1>1 DEF ToolInv, StoreSound, ToldSound, Settled
  <1> QED BY <1>3, <1>4, <1>5, <1>6, <1>7 DEF ToolInv

\* The round's members but nothing else of it.
LEMMA Joining ==
    ASSUME ToolInv, NEW M \in SUBSET Callers
    PROVE  /\ [round EXCEPT !.members = M] \in Rounds
           /\ [[round EXCEPT !.members = M] EXCEPT !.members = {}] = [round EXCEPT !.members = {}]
           /\ [round EXCEPT !.members = M].members = M
  BY DEF ToolInv, ToolTypes, Rounds

LEMMA ReturnKeeps ==
    ASSUME ToolInv, NEW c \in Callers, Return(c) PROVE ToolInv'
  <1>1. Settled
    BY DEF Return, Settled
  <1>2. CallSound(c)'
    BY DEF Return, CallSound, ToolInv, ToolTypes
  <1>3. c \notin round.members
    BY DEF Return, ToolInv, RoundSound
  <1>4. \A d \in round.members : d # c
    BY <1>3
  <1>5. /\ "idle" \in Places /\ at' = [at EXCEPT ![c] = "idle"] /\ got' = [got EXCEPT ![c] = None]
        /\ UNCHANGED <<entry, store, rounds, due, owed, told, round>> /\ at[c] \notin {"delete", "fire"}
    BY DEF Return, Places
  <1>6. round' \in Rounds /\ [round' EXCEPT !.members = {}] = [round EXCEPT !.members = {}]
    BY <1>5 DEF ToolInv, ToolTypes
  <1>7. \A d \in round'.members : IF d = c THEN "idle" = "wait" ELSE d \in round.members
    BY <1>4, <1>5
  <1> QED BY <1>1, <1>2, <1>5, <1>6, <1>7, NoListing, CallerMoves

LEMMA ReceivedKeeps ==
    ASSUME ToolInv, NEW c \in Callers, Received(c) PROVE ToolInv'
  <1>0. PICK n, g : n = (IF got[c].generation = generation THEN "done" ELSE "try") /\ g = got[c]
    BY Zenon
  <1>1. Settled /\ UNCHANGED <<entry, store, rounds, due, owed, told, round>>
    BY DEF Received, Settled
  <1>2. at' = [at EXCEPT ![c] = n] /\ got' = [got EXCEPT ![c] = g] /\ n \in Places /\ g \in Listings
    BY <1>0 DEF Received, ToolInv, ToolTypes, Places
  <1>3. at[c] = "received"
    BY DEF Received
  <1>4. CallSound(c)'
    <2>1. /\ at'[c] = n /\ got'[c] = got[c] /\ op[c] = "get" /\ got[c].fetched /\ Current(got[c])
          /\ n \in {"done", "try"} /\ (n = "done" => got[c].generation = generation)
      BY <1>0, <1>2, <1>3 DEF ToolInv, ToolTypes, CallsSound, CallSound
    <2>2. n = "done" => got[c].over >= floor[c]
      BY <2>1 DEF Current, ToolInv, ToolTypes, Ordered, Listings
    <2> QED BY <1>1, <2>1, <2>2 DEF CallSound, Settled
  <1>6. round' \in Rounds /\ [round' EXCEPT !.members = {}] = [round EXCEPT !.members = {}]
    BY <1>1 DEF ToolInv, ToolTypes
  <1>7. \A d \in round'.members : IF d = c THEN n = "wait" ELSE d \in round.members
    BY <1>1, <1>3 DEF ToolInv, RoundSound
  <1> QED BY <1>1, <1>2, <1>3, <1>4, <1>6, <1>7, CallerMoves

LEMMA GiveUpKeeps ==
    ASSUME ToolInv, NEW c \in Callers, GiveUp(c) PROVE ToolInv'
  <1>0. PICK M : M = round.members \ {c}
    BY Zenon
  <1>1. Settled /\ UNCHANGED <<entry, store, rounds, due, owed, told>> /\ at[c] = "wait"
    BY DEF GiveUp, Settled
  <1>2. at' = [at EXCEPT ![c] = "failed"] /\ got' = [got EXCEPT ![c] = None] /\ "failed" \in Places
    BY DEF GiveUp, End, Places
  <1>3. CallSound(c)'
    BY <1>2 DEF CallSound, ToolInv, ToolTypes
  <1>4. M \in SUBSET Callers
    BY <1>0 DEF ToolInv, ToolTypes, Rounds
  <1>5. round' = [round EXCEPT !.members = M]
    BY <1>0 DEF GiveUp
  <1>6. /\ round' \in Rounds /\ [round' EXCEPT !.members = {}] = [round EXCEPT !.members = {}]
        /\ round'.members = M
    BY <1>4, <1>5, Joining
  <1>7. \A d \in round'.members : IF d = c THEN "failed" = "wait" ELSE d \in round.members
    BY <1>0, <1>6
  <1> QED BY <1>1, <1>2, <1>3, <1>6, <1>7, NoListing, CallerMoves

LEMMA AttemptKeeps ==
    ASSUME ToolInv, NEW c \in Callers, Attempt(c) PROVE ToolInv'
  <1>1. Settled /\ UNCHANGED <<entry, store, rounds, due, owed, told>> /\ at[c] = "try"
    BY DEF Attempt, Settled
  <1>2. op[c] \in {"get", "refresh"} /\ c \notin round.members
    BY <1>1 DEF ToolInv, CallsSound, CallSound, RoundSound
  <1>3. CASE at' = [at EXCEPT ![c] = "failed"] /\ got' = [got EXCEPT ![c] = None] /\ UNCHANGED round
    <2>1. "failed" \in Places /\ CallSound(c)'
      BY <1>3 DEF CallSound, ToolInv, ToolTypes, Places
    <2>2. round' \in Rounds /\ [round' EXCEPT !.members = {}] = [round EXCEPT !.members = {}]
      BY <1>3 DEF ToolInv, ToolTypes
    <2>3. \A d \in round'.members : IF d = c THEN "failed" = "wait" ELSE d \in round.members
      BY <1>2, <1>3
    <2> QED BY <1>1, <1>3, <2>1, <2>2, <2>3, NoListing, CallerMoves
  <1>4. CASE /\ op[c] = "get" /\ isFresh(entry)
             /\ at' = [at EXCEPT ![c] = "done"] /\ got' = [got EXCEPT ![c] = entry]
             /\ UNCHANGED round
    <2>0. PICK g : g = entry
      BY Zenon
    <2>1. "done" \in Places /\ g \in Listings /\ got' = [got EXCEPT ![c] = g]
      BY <1>4, <2>0 DEF ToolInv, ToolTypes, Places
    <2>2. at'[c] = "done" /\ got'[c] = entry /\ entry.fetched /\ entry.over >= floor[c]
      <3>1. entry.fetched /\ entry.over >= last
        BY <1>4 DEF ToolInv, EntrySound, isFresh
      <3> QED BY <1>4, <3>1 DEF ToolInv, ToolTypes, Ordered, Listings
    <2>3. CallSound(c)'
      BY <1>1, <1>4, <2>2 DEF CallSound, Settled
    <2>4. round' \in Rounds /\ [round' EXCEPT !.members = {}] = [round EXCEPT !.members = {}]
      BY <1>4 DEF ToolInv, ToolTypes
    <2>5. \A d \in round'.members : IF d = c THEN "done" = "wait" ELSE d \in round.members
      BY <1>2, <1>4
    <2> QED BY <1>1, <1>4, <2>1, <2>3, <2>4, <2>5, CallerMoves
  <1>5. CASE /\ at' = [at EXCEPT ![c] = "wait"] /\ UNCHANGED got
             /\ round.at # "none" /\ round' = [round EXCEPT !.members = @ \cup {c}]
    <2>0. PICK g, M : g = got[c] /\ M = round.members \cup {c}
      BY Zenon
    <2>1. "wait" \in Places /\ g \in Listings /\ got' = [got EXCEPT ![c] = g]
      BY <1>5, <2>0 DEF ToolInv, ToolTypes, Places
    <2>2. CallSound(c)'
      BY <1>1, <1>2, <1>5 DEF CallSound, Settled, ToolInv, ToolTypes
    <2>3. M \in SUBSET Callers /\ round' = [round EXCEPT !.members = M]
      BY <1>5, <2>0 DEF ToolInv, ToolTypes, Rounds
    <2>4. /\ round' \in Rounds /\ [round' EXCEPT !.members = {}] = [round EXCEPT !.members = {}]
          /\ round'.members = M
      BY <2>3, Joining
    <2>5. \A d \in round'.members : IF d = c THEN "wait" = "wait" ELSE d \in round.members
      BY <2>0, <2>4
    <2> QED BY <1>1, <1>5, <2>1, <2>2, <2>4, <2>5, CallerMoves
  <1>6. CASE /\ at' = [at EXCEPT ![c] = "wait"] /\ UNCHANGED got /\ round.at = "none"
             /\ round' = [NoRound EXCEPT !.at = "recheck", !.members = {c},
                                         !.force = op[c] = "refresh"]
    <2>1. /\ round' \in Rounds /\ round'.at = "recheck" /\ round'.members = {c}
          /\ round'.entry = None
      BY <1>6, NoListing DEF NoRound, Rounds, Phases, Hints
    <2>2. at'[c] = "wait" /\ \A d \in Callers : d # c => at'[d] = at[d]
      BY <1>6 DEF ToolInv, ToolTypes
    <2>3. ToolTypes'
      BY <1>1, <1>6, <2>1 DEF ToolInv, ToolTypes, Settled, Places
    <2>4. Ordered' /\ EntrySound'
      BY <1>1 DEF ToolInv, Ordered, EntrySound, Current, Settled, isFresh
    <2>5. RoundSound'
      BY <2>1, <2>2, NoListing DEF RoundSound, Written
    <2>6. CallsSound'
      <3> SUFFICES ASSUME NEW d \in Callers PROVE CallSound(d)'
        BY DEF CallsSound
      <3> QED BY <1>1, <1>2, <1>6, <2>2 DEF ToolInv, CallsSound, CallSound, Current, Settled
    <2>7. StoreSound' /\ ToldSound'
      BY <1>1, <1>6, <2>1, <2>2 DEF ToolInv, StoreSound, ToldSound, Settled
    <2> QED BY <2>3, <2>4, <2>5, <2>6, <2>7 DEF ToolInv
  <1> QED BY <1>3, <1>4, <1>5, <1>6 DEF Attempt, End

LEMMA StartKeeps ==
    ASSUME ToolInv, NEW c \in Callers, NEW o \in {"get", "refresh", "change", "invalidate"}, Start(c, o)
    PROVE  ToolInv'
  <1>1. UNCHANGED <<transport, entry, generation, store, round, told, last, due, owed>> /\ at[c] = "idle"
    BY DEF Start
  <1>2. /\ at'[c] = CASE o \in {"get", "refresh"} -> "try" [] o = "change" -> "swap" [] o = "invalidate" -> "bump"
        /\ op'[c] = o /\ floor'[c] = last /\ rounds'[c] = IF round.entry.fetched THEN 1 ELSE 0
        /\ got'[c] = None
    BY DEF Start, ToolInv, ToolTypes
  <1>3. \A d \in Callers : d # c =>
          at'[d] = at[d] /\ op'[d] = op[d] /\ floor'[d] = floor[d] /\ rounds'[d] = rounds[d] /\ got'[d] = got[d]
    BY DEF Start, ToolInv, ToolTypes
  <1>4. at'[c] \in {"try", "swap", "bump"}
    BY <1>2
  <1>5. ToolTypes'
    <2>1. at' \in [Callers -> Places] /\ op' \in [Callers -> Operations]
      BY <1>2, <1>4 DEF Start, ToolInv, ToolTypes, Places, Operations
    <2>2. got' \in [Callers -> Listings] /\ floor' \in [Callers -> Nat] /\ rounds' \in [Callers -> {0, 1}]
      BY NoListing DEF Start, ToolInv, ToolTypes
    <2> QED BY <1>1, <2>1, <2>2 DEF ToolInv, ToolTypes
  <1>6. Ordered' /\ EntrySound'
    <2>1. Ordered'
      <3>1. \A d \in Callers : floor'[d] <= last
        BY <1>2, <1>3 DEF ToolInv, Ordered, ToolTypes
      <3> QED BY <1>1, <3>1 DEF ToolInv, Ordered
    <2> QED BY <1>1, <2>1 DEF ToolInv, EntrySound, isFresh
  <1>7. RoundSound'
    <2>1. c \notin round.members
      BY <1>1 DEF ToolInv, RoundSound
    <2>2. \A d \in round.members : at'[d] = "wait"
      BY <1>3, <2>1 DEF ToolInv, RoundSound, ToolTypes, Rounds
    <2>3. round.entry.fetched => \A d \in Callers : at'[d] # "idle" => rounds'[d] = 1
      BY <1>2, <1>3 DEF ToolInv, RoundSound
    <2> QED BY <1>1, <2>2, <2>3 DEF ToolInv, RoundSound, Current
  <1>8. CallsSound'
    <2> SUFFICES ASSUME NEW d \in Callers PROVE CallSound(d)'
      BY DEF CallsSound
    <2>1. CASE d = c
      BY <1>2, <1>4, <2>1 DEF CallSound
    <2>2. CASE d # c
      BY <1>1, <1>3, <2>2 DEF ToolInv, CallsSound, CallSound, Current
    <2> QED BY <2>1, <2>2
  <1>9. StoreSound' /\ ToldSound'
    BY <1>1, <1>3 DEF ToolInv, StoreSound, ToldSound
  <1> QED BY <1>5, <1>6, <1>7, <1>8, <1>9 DEF ToolInv

\* The steps of a caller that changes the listing: what they leave of the others.
LEMMA Changing ==
    ASSUME ToolInv, NEW c \in Callers, NEW n \in Places \ {"wait", "idle"}, at[c] \notin {"wait", "idle"},
           at' = [at EXCEPT ![c] = n]
    PROVE  /\ at' \in [Callers -> Places] /\ at'[c] = n
           /\ \A d \in Callers : d # c => at'[d] = at[d]
           /\ \A d \in round.members : at'[d] = "wait"
           /\ \A d \in Callers : at'[d] # "idle" => at[d] # "idle"
  <1>1. at' \in [Callers -> Places] /\ at'[c] = n /\ \A d \in Callers : d # c => at'[d] = at[d]
    BY DEF ToolInv, ToolTypes
  <1>2. round.members \subseteq Callers /\ \A d \in round.members : at[d] = "wait"
    BY DEF ToolInv, ToolTypes, Rounds, RoundSound
  <1> QED BY <1>1, <1>2

LEMMA SwapKeeps ==
    ASSUME ToolInv, NEW c \in Callers, Swap(c) PROVE ToolInv'
  <1>1. /\ UNCHANGED <<entry, generation, store, round, op, got, told, floor, rounds, last, due, owed>>
        /\ at[c] = "swap" /\ transport' = transport + 1 /\ at' = [at EXCEPT ![c] = "bump"]
    BY DEF Swap
  <1>2. /\ at' \in [Callers -> Places] /\ at'[c] = "bump"
        /\ \A d \in Callers : d # c => at'[d] = at[d]
        /\ \A d \in round.members : at'[d] = "wait"
        /\ \A d \in Callers : at'[d] # "idle" => at[d] # "idle"
    BY <1>1, Changing DEF Places
  <1>3. ToolTypes' /\ Ordered' /\ EntrySound'
    BY <1>1, <1>2 DEF ToolInv, ToolTypes, Ordered, EntrySound, isFresh
  <1>4. RoundSound'
    BY <1>1, <1>2 DEF ToolInv, RoundSound, Current
  <1>5. CallsSound'
    <2> SUFFICES ASSUME NEW d \in Callers PROVE CallSound(d)'
      BY DEF CallsSound
    <2> QED BY <1>1, <1>2 DEF ToolInv, CallsSound, CallSound, Current
  <1>6. StoreSound' /\ ToldSound'
    BY <1>1, <1>2 DEF ToolInv, StoreSound, ToldSound
  <1> QED BY <1>3, <1>4, <1>5, <1>6 DEF ToolInv

LEMMA InvalidateKeeps ==
    ASSUME ToolInv, NEW c \in Callers, Invalidate(c) PROVE ToolInv'
  <1>0. PICK n : n = IF op[c] = "change" THEN "delete" ELSE "fire"
    BY Zenon
  <1>1. /\ UNCHANGED <<transport, store, round, op, got, floor, rounds, owed>>
        /\ at[c] = "bump" /\ entry' = None /\ generation' = generation + 1 /\ last' = transport
        /\ due' = (IF op[c] = "change" \/ round.at = "saved" THEN transport ELSE due)
        /\ at' = [at EXCEPT ![c] = n] /\ told' = FALSE
    BY <1>0 DEF Invalidate
  <1>2. /\ at' \in [Callers -> Places] /\ at'[c] = n
        /\ \A d \in Callers : d # c => at'[d] = at[d]
        /\ \A d \in round.members : at'[d] = "wait"
        /\ \A d \in Callers : at'[d] # "idle" => at[d] # "idle"
    BY <1>0, <1>1, Changing DEF Places
  <1>3. ToolTypes'
    <2>1. due' \in Nat /\ generation' \in Nat /\ last' \in Nat /\ transport' \in Nat
      BY <1>1 DEF ToolInv, ToolTypes
    <2>2. told' \in BOOLEAN
      BY <1>1
    <2> QED BY <1>1, <1>2, <2>1, <2>2, NoListing DEF ToolInv, ToolTypes
  <1>4. Ordered' /\ EntrySound'
    <2>1. due' <= transport /\ \A d \in Callers : floor[d] <= transport
      BY <1>1 DEF ToolInv, ToolTypes, Ordered
    <2> QED BY <1>1, <2>1, NoListing DEF ToolInv, ToolTypes, Ordered, EntrySound, isFresh
  <1>5. ASSUME NEW e \in Listings, Current(e) PROVE Current(e)'
    BY <1>1, <1>5 DEF Current, Listings, ToolInv, ToolTypes
  <1>6. RoundSound'
    <2>1. round.at \in {"fetch", "publish"} \cup Written =>
             round.startGen <= generation' /\ round.startGen # generation'
      BY <1>1 DEF ToolInv, ToolTypes, RoundSound, Rounds
    <2>2. round.at \in Written => Current(round.entry)'
      <3>1. round.at \in Written => Current(round.entry)
        BY DEF ToolInv, RoundSound
      <3>2. round.entry \in Listings
        BY DEF ToolInv, ToolTypes, Rounds
      <3> QED BY <1>1, <3>1, <3>2, <1>5 DEF ToolInv, ToolTypes, Current, Listings
    <2> QED BY <1>1, <1>2, <2>1, <2>2 DEF ToolInv, RoundSound
  <1>7. CallsSound'
    <2> SUFFICES ASSUME NEW d \in Callers PROVE CallSound(d)'
      BY DEF CallsSound
    <2>1. got[d] \in Listings /\ CallSound(d)
      BY DEF ToolInv, ToolTypes, CallsSound
    <2>2. at[d] = "received" => Current(got[d])'
      BY <1>1, <2>1 DEF ToolInv, ToolTypes, CallSound, Current, Listings
    <2> QED BY <1>0, <1>1, <1>2, <2>1, <2>2 DEF CallSound
  <1>8. StoreSound'
    <2>1. CASE op[c] = "change"
      BY <1>0, <1>2, <2>1 DEF StoreSound
    <2>2. CASE op[c] # "change" /\ round.at = "saved"
      <3>1. generation' # round'.startGen
        BY <1>1, <2>2 DEF ToolInv, ToolTypes, RoundSound, Rounds, Written
      <3> QED BY <1>1, <2>2, <3>1 DEF StoreSound
    <2>3. CASE op[c] # "change" /\ round.at # "saved"
      BY <1>1, <1>2, <2>3 DEF ToolInv, StoreSound
    <2> QED BY <2>1, <2>2, <2>3
  <1>9. ToldSound'
    BY <1>0, <1>2 DEF ToldSound
  <1> QED BY <1>3, <1>4, <1>6, <1>7, <1>8, <1>9 DEF ToolInv

LEMMA InvalidateWithStoreKeeps ==
    ASSUME ToolInv, NEW c \in Callers, InvalidateWithStore(c) PROVE ToolInv'
  <1>1. /\ UNCHANGED <<transport, entry, generation, round, op, got, told, floor, rounds, last, due>>
        /\ at[c] = "delete" /\ at' = [at EXCEPT ![c] = "fire"]
        /\ \/ store' = None /\ owed' = owed
           \/ store' = store /\ owed' = TRUE
    BY DEF InvalidateWithStore
  <1>2. /\ at' \in [Callers -> Places] /\ at'[c] = "fire"
        /\ \A d \in Callers : d # c => at'[d] = at[d]
        /\ \A d \in round.members : at'[d] = "wait"
        /\ \A d \in Callers : at'[d] # "idle" => at[d] # "idle"
    BY <1>1, Changing DEF Places
  <1>3. ToolTypes' /\ Ordered' /\ EntrySound'
    BY <1>1, <1>2, NoListing DEF ToolInv, ToolTypes, Ordered, EntrySound, isFresh
  <1>4. RoundSound'
    BY <1>1, <1>2 DEF ToolInv, RoundSound, Current
  <1>5. CallsSound'
    <2> SUFFICES ASSUME NEW d \in Callers PROVE CallSound(d)'
      BY DEF CallsSound
    <2> QED BY <1>1, <1>2 DEF ToolInv, CallsSound, CallSound, Current
  <1>6. StoreSound' /\ ToldSound'
    BY <1>1, <1>2, NoListing DEF StoreSound, ToldSound
  <1> QED BY <1>3, <1>4, <1>5, <1>6 DEF ToolInv

LEMMA fireOnChangeKeeps ==
    ASSUME ToolInv, NEW c \in Callers, fireOnChange(c) PROVE ToolInv'
  <1>1. /\ UNCHANGED <<transport, entry, generation, store, round, op, got, floor, rounds, last, due, owed>>
        /\ at[c] = "fire" /\ at' = [at EXCEPT ![c] = "done"] /\ told' = TRUE
    BY DEF fireOnChange
  <1>2. /\ at' \in [Callers -> Places] /\ at'[c] = "done"
        /\ \A d \in Callers : d # c => at'[d] = at[d]
        /\ \A d \in round.members : at'[d] = "wait"
        /\ \A d \in Callers : at'[d] # "idle" => at[d] # "idle"
    BY <1>1, Changing DEF Places
  <1>3. ToolTypes' /\ Ordered' /\ EntrySound'
    BY <1>1, <1>2 DEF ToolInv, ToolTypes, Ordered, EntrySound, isFresh
  <1>4. RoundSound'
    BY <1>1, <1>2 DEF ToolInv, RoundSound, Current
  <1>5. CallsSound'
    <2> SUFFICES ASSUME NEW d \in Callers PROVE CallSound(d)'
      BY DEF CallsSound
    <2> QED BY <1>1, <1>2 DEF ToolInv, CallsSound, CallSound, Current
  <1>6. StoreSound' /\ ToldSound'
    BY <1>1, <1>2 DEF ToolInv, StoreSound, ToldSound
  <1> QED BY <1>3, <1>4, <1>5, <1>6 DEF ToolInv

\* The round moves on, and nobody else does.
LEMMA RoundMoves ==
    ASSUME ToolInv, Settled, UNCHANGED <<at, got, store, owed, due>>,
           round' \in Rounds, round'.members = round.members, RoundSound',
           entry' \in Listings, EntrySound', told' \in BOOLEAN, rounds' \in [Callers -> {0, 1}],
           \A c \in Callers : rounds[c] = 1 => rounds'[c] = 1,
           round.at # "saved", ToldSound'
    PROVE  ToolInv'
  <1>1. ToolTypes'
    BY DEF ToolInv, ToolTypes, Settled
  <1>2. Ordered'
    BY DEF ToolInv, Ordered, Settled
  <1>3. CallsSound'
    <2> SUFFICES ASSUME NEW d \in Callers PROVE CallSound(d)'
      BY DEF CallsSound
    <2> QED BY DEF ToolInv, CallsSound, CallSound, Current, Settled
  <1>4. StoreSound'
    BY DEF ToolInv, StoreSound
  <1> QED BY <1>1, <1>2, <1>3, <1>4 DEF ToolInv

\* It ends, and its members go on.
LEMMA RoundEnds ==
    ASSUME ToolInv, Settled, UNCHANGED <<entry, told>>, NEW err \in BOOLEAN, NEW fetched \in BOOLEAN,
           NEW e \in Listings, Deliver(err, fetched, e), e.fetched => Current(e),
           rounds' \in [Callers -> {0, 1}],
           \A c \in Callers : rounds[c] = 1 => rounds'[c] = 1,
           fetched => \A c \in round.members : rounds'[c] = 1,
           round.at # "hook", store' \in Listings, owed' \in BOOLEAN, due' = due,
           store'.fetched /\ ~owed' => store'.over >= due \/ \E c \in Callers : at[c] = "delete"
    PROVE  ToolInv'
  <1>1. /\ round' = NoRound
        /\ at' \in [Callers -> Places] /\ got' \in [Callers -> Listings]
        /\ RoundSound' /\ CallsSound'
        /\ \A c \in Callers : at'[c] = at[c] \/ (at[c] = "wait" /\ at'[c] \in {"failed", "done", "try", "received"})
    BY Delivering
  <1>2. ToolTypes'
    BY <1>1, NoRoundIs DEF ToolInv, ToolTypes, Settled
  <1>3. Ordered' /\ EntrySound'
    BY DEF ToolInv, Ordered, EntrySound, isFresh, Settled
  <1>4. \A c \in Callers : at[c] \in {"delete", "fire"} => at'[c] = at[c]
    BY <1>1
  <1>5. StoreSound' /\ ToldSound'
    BY <1>4 DEF ToolInv, StoreSound, ToldSound
  <1> QED BY <1>1, <1>2, <1>3, <1>5 DEF ToolInv

LEMMA RecheckKeeps == ASSUME ToolInv, Recheck PROVE ToolInv'
  <1>1. /\ Settled /\ UNCHANGED <<entry, told, rounds, store, owed, due>>
        /\ round.at = "recheck" /\ rounds' \in [Callers -> {0, 1}]
    BY DEF Recheck, Settled, ToolInv, ToolTypes
  <1>2. CASE Deliver(FALSE, FALSE, entry) /\ isFresh(entry)
    <2>0. PICK e : e = entry
      BY Zenon
    <2>1. e \in Listings /\ Deliver(FALSE, FALSE, e)
      BY <1>2, <2>0 DEF ToolInv, ToolTypes
    <2>2. Current(e)
      BY <1>2, <2>0 DEF ToolInv, ToolTypes, EntrySound, Current
    <2>3. /\ store' \in Listings /\ owed' \in BOOLEAN
          /\ store'.fetched /\ ~owed' => store'.over >= due \/ \E c \in Callers : at[c] = "delete"
      BY <1>1 DEF ToolInv, ToolTypes, StoreSound
    <2> QED BY <1>1, <2>1, <2>2, <2>3, RoundEnds
  <1>3. CASE round' = [round EXCEPT !.at = "begin"] /\ UNCHANGED <<at, got>>
    <2>1. /\ round' \in Rounds /\ round'.members = round.members /\ round'.at = "begin"
          /\ round'.entry = round.entry
      BY <1>3 DEF ToolInv, ToolTypes, Rounds, Phases
    <2>2. RoundSound'
      BY <1>1, <1>3, <2>1 DEF ToolInv, RoundSound, Written
    <2>3. entry' \in Listings /\ EntrySound' /\ told' \in BOOLEAN /\ ToldSound'
      BY <1>1, <1>3 DEF ToolInv, ToolTypes, EntrySound, isFresh, Settled, ToldSound
    <2> QED BY <1>1, <1>3, <2>1, <2>2, <2>3, RoundMoves
  <1> QED BY <1>2, <1>3 DEF Recheck

LEMMA BeginKeeps == ASSUME ToolInv, Begin PROVE ToolInv'
  <1>1. /\ Settled /\ UNCHANGED <<entry, told, rounds, store, owed, due>>
        /\ round.at = "begin" /\ rounds' \in [Callers -> {0, 1}]
    BY DEF Begin, Settled, ToolInv, ToolTypes
  <1>2. CASE Deliver(TRUE, FALSE, None)
    <2>1. /\ store' \in Listings /\ owed' \in BOOLEAN
          /\ store'.fetched /\ ~owed' => store'.over >= due \/ \E c \in Callers : at[c] = "delete"
      BY <1>1 DEF ToolInv, ToolTypes, StoreSound
    <2> QED BY <1>1, <1>2, <2>1, NoListing, RoundEnds
  <1>3. CASE round' = [round EXCEPT !.at = "fetch", !.startGen = generation] /\ UNCHANGED <<at, got>>
    <2>1. /\ round' \in Rounds /\ round'.members = round.members /\ round'.at = "fetch"
          /\ round'.entry = round.entry /\ round'.startGen = generation
      BY <1>3 DEF ToolInv, ToolTypes, Rounds, Phases
    <2>2. RoundSound'
      BY <1>1, <1>3, <2>1 DEF ToolInv, ToolTypes, RoundSound, Written, Settled
    <2>3. entry' \in Listings /\ EntrySound' /\ told' \in BOOLEAN /\ ToldSound'
      BY <1>1, <1>3 DEF ToolInv, ToolTypes, EntrySound, isFresh, Settled, ToldSound
    <2> QED BY <1>1, <1>3, <2>1, <2>2, <2>3, RoundMoves
  <1> QED BY <1>2, <1>3 DEF Begin

LEMMA FetchKeeps == ASSUME ToolInv, Fetch PROVE ToolInv'
  <1>1. /\ Settled /\ UNCHANGED <<entry, told, rounds, store, owed, due, at, got>>
        /\ round.at = "fetch" /\ rounds' \in [Callers -> {0, 1}]
        /\ round' = [round EXCEPT !.at = "publish", !.over = transport]
    BY DEF Fetch, Settled, ToolInv, ToolTypes
  <1>2. /\ round' \in Rounds /\ round'.members = round.members /\ round'.at = "publish"
        /\ round'.entry = round.entry /\ round'.startGen = round.startGen /\ round'.over = transport
    BY <1>1 DEF ToolInv, ToolTypes, Rounds, Phases
  <1>3. RoundSound'
    BY <1>1, <1>2 DEF ToolInv, ToolTypes, Ordered, RoundSound, Written, Settled
  <1>4. entry' \in Listings /\ EntrySound' /\ told' \in BOOLEAN /\ ToldSound'
    BY <1>1 DEF ToolInv, ToolTypes, EntrySound, isFresh, Settled, ToldSound
  <1> QED BY <1>1, <1>2, <1>3, <1>4, RoundMoves

\* What a round that got a reply does with it.
Listed(hint) == [fetched |-> TRUE, over |-> round.over, generation |-> round.startGen,
                 fresh |-> TRUE, never |-> resolveTTL(hint)]
Publishes(hint, e) ==
    IF generation # round.startGen
    THEN Deliver(FALSE, TRUE, None) /\ UNCHANGED <<entry, told>>
    ELSE /\ entry' = e /\ told' = (told /\ ~toolsListingChanged(entry, e))
         /\ round' = [round EXCEPT !.at = "hook", !.hint = hint, !.entry = e]
         /\ UNCHANGED <<at, got>>

LEMMA PublishKeeps == ASSUME ToolInv, Publish PROVE ToolInv'
  <1>1. Settled /\ UNCHANGED <<store, owed, due>> /\ round.at = "publish"
    BY DEF Publish, Settled
  <1>2. /\ store' \in Listings /\ owed' \in BOOLEAN
        /\ store'.fetched /\ ~owed' => store'.over >= due \/ \E c \in Callers : at[c] = "delete"
    BY <1>1 DEF ToolInv, ToolTypes, StoreSound
  <1>3. CASE Deliver(TRUE, FALSE, None) /\ UNCHANGED <<entry, told, rounds>>
    <2>1. rounds' \in [Callers -> {0, 1}]
      BY <1>3 DEF ToolInv, ToolTypes
    <2> QED BY <1>1, <1>2, <1>3, <2>1, NoListing, RoundEnds
  <1>4. CASE rounds' = [c \in Callers |-> 1] /\ \E hint \in Hints : Publishes(hint, Listed(hint))
    <2>0. rounds' \in [Callers -> {0, 1}] /\ \A c \in Callers : rounds'[c] = 1
      BY <1>4
    <2>1. CASE Deliver(FALSE, TRUE, None) /\ UNCHANGED <<entry, told>>
      <3>1. \A c \in round.members : rounds'[c] = 1
        BY <2>0 DEF ToolInv, ToolTypes, Rounds
      <3> QED BY <1>1, <1>2, <2>0, <2>1, <3>1, NoListing, RoundEnds
    <2>2. ASSUME NEW hint \in Hints, NEW e, generation = round.startGen, e = Listed(hint),
                 Publishes(hint, e)
          PROVE  ToolInv'
      <3>0. /\ entry' = e /\ told' = (told /\ ~toolsListingChanged(entry, e)) /\ UNCHANGED <<at, got>>
            /\ round' = [round EXCEPT !.at = "hook", !.hint = hint, !.entry = e]
        BY <2>2 DEF Publishes
      <3>1. /\ e \in Listings /\ e.fetched /\ e.over = round.over /\ e.generation = generation
        BY <2>2 DEF ToolInv, ToolTypes, Rounds, Listings, resolveTTL, Listed
      <3>2. round.over \in Nat /\ round.over >= last
        BY <1>1, <2>2 DEF ToolInv, ToolTypes, Rounds, RoundSound
      <3>3. /\ round' \in Rounds /\ round'.members = round.members /\ round'.at = "hook"
            /\ round'.entry = e /\ round'.startGen = generation
        BY <2>2, <3>0, <3>1 DEF ToolInv, ToolTypes, Rounds, Phases, Written
      <3>4. Current(e)' /\ EntrySound'
        BY <1>1, <2>2, <3>0, <3>1, <3>2 DEF ToolInv, ToolTypes, Current, EntrySound, Settled
      <3>5. RoundSound'
        <4>1. /\ generation' = generation /\ round'.startGen <= generation'
              /\ Current(round.entry)' /\ round'.entry.generation = round'.startGen
          BY <1>1, <3>1, <3>3, <3>4 DEF Settled, ToolInv, ToolTypes, Current
        <4>2. \A c \in round'.members : at'[c] = "wait"
          BY <2>2, <3>0, <3>3 DEF ToolInv, RoundSound
        <4> QED BY <2>0, <3>1, <3>3, <4>1, <4>2 DEF RoundSound, Written, Current
      <3>6. ToldSound' /\ told' \in BOOLEAN
        BY <2>2, <3>0, <3>3 DEF ToldSound
      <3> QED BY <1>1, <2>0, <2>2, <3>0, <3>1, <3>3, <3>4, <3>5, <3>6, RoundMoves
    <2>3. PICK hint \in Hints : Publishes(hint, Listed(hint))
      BY <1>4
    <2>4. PICK e : e = Listed(hint)
      BY Zenon
    <2>5. Publishes(hint, e)
      BY <2>3, <2>4, Zenon
    <2> QED BY <2>1, <2>2, <2>4, <2>5 DEF Publishes
  <1> QED BY <1>3, <1>4 DEF Publish, Publishes, Listed

LEMMA HookKeeps == ASSUME ToolInv, Hook PROVE ToolInv'
  <1>1. /\ Settled /\ UNCHANGED <<entry, rounds, store, owed, due, at, got>>
        /\ round.at = "hook" /\ rounds' \in [Callers -> {0, 1}] /\ told' = TRUE
        /\ round' = [round EXCEPT !.at = "lock"]
    BY DEF Hook, Settled, ToolInv, ToolTypes
  <1>2. /\ round' \in Rounds /\ round'.members = round.members /\ round'.at = "lock"
        /\ round'.entry = round.entry /\ round'.startGen = round.startGen
    BY <1>1 DEF ToolInv, ToolTypes, Rounds, Phases, Written
  <1>3. RoundSound'
    BY <1>1, <1>2 DEF ToolInv, RoundSound, Written, Settled, Current
  <1>4. entry' \in Listings /\ EntrySound' /\ told' \in BOOLEAN /\ ToldSound'
    BY <1>1 DEF ToolInv, ToolTypes, EntrySound, isFresh, Settled, ToldSound
  <1> QED BY <1>1, <1>2, <1>3, <1>4, RoundMoves

LEMMA LockStoreKeeps == ASSUME ToolInv, LockStore PROVE ToolInv'
  <1>1. /\ Settled /\ UNCHANGED <<entry, told, rounds, store, owed, due>>
        /\ round.at = "lock" /\ rounds' \in [Callers -> {0, 1}]
    BY DEF LockStore, Settled, ToolInv, ToolTypes
  <1>2. CASE Deliver(FALSE, TRUE, round.entry)
    <2>0. PICK e : e = round.entry
      BY Zenon
    <2>1. e \in Listings /\ Current(e) /\ Deliver(FALSE, TRUE, e)
      BY <1>1, <1>2, <2>0 DEF ToolInv, ToolTypes, Rounds, RoundSound, Written
    <2>2. /\ store' \in Listings /\ owed' \in BOOLEAN
          /\ store'.fetched /\ ~owed' => store'.over >= due \/ \E c \in Callers : at[c] = "delete"
      BY <1>1 DEF ToolInv, ToolTypes, StoreSound
    <2>3. \A c \in round.members : rounds'[c] = 1
      BY <1>1 DEF ToolInv, ToolTypes, Rounds, RoundSound, Written
    <2> QED BY <1>1, <2>1, <2>2, <2>3, RoundEnds
  <1>3. CASE round' = [round EXCEPT !.at = "save"] /\ UNCHANGED <<at, got>>
    <2>1. /\ round' \in Rounds /\ round'.members = round.members /\ round'.at = "save"
          /\ round'.entry = round.entry /\ round'.startGen = round.startGen
      BY <1>3 DEF ToolInv, ToolTypes, Rounds, Phases, Written
    <2>2. RoundSound'
      BY <1>1, <1>3, <2>1 DEF ToolInv, RoundSound, Written, Settled, Current
    <2>3. entry' \in Listings /\ EntrySound' /\ told' \in BOOLEAN /\ ToldSound'
      BY <1>1, <1>3 DEF ToolInv, ToolTypes, EntrySound, isFresh, Settled, ToldSound
    <2> QED BY <1>1, <1>3, <2>1, <2>2, <2>3, RoundMoves
  <1> QED BY <1>2, <1>3 DEF LockStore

LEMMA SaveKeeps == ASSUME ToolInv, Save PROVE ToolInv'
  <1>1. /\ Settled /\ UNCHANGED <<entry, told, rounds>> /\ round.at = "save"
        /\ rounds' \in [Callers -> {0, 1}]
    BY DEF Save, Settled, ToolInv, ToolTypes
  <1>2. PICK r \in persistListing(round.entry, round.hint) :
          /\ store' = r.store
          /\ owed' = (owed \/ r.failed)
          /\ due' = IF r.saved /\ generation # round.startGen THEN last ELSE due
          /\ IF r.saved
             THEN round' = [round EXCEPT !.at = "saved"] /\ UNCHANGED <<at, got>>
             ELSE Deliver(FALSE, TRUE, round.entry)
    BY DEF Save
  <1>3. PICK e : e = round.entry
    BY Zenon
  <1>4. /\ e \in Listings /\ e.fetched /\ Current(e) /\ e.generation = round.startGen
        /\ round.startGen <= generation
    BY <1>1, <1>3 DEF ToolInv, ToolTypes, Rounds, RoundSound, Written
  <1>5. \/ r.saved = TRUE /\ r.store = e
        \/ r.saved = FALSE /\ r.store \in {None, store}
    <2>1. \/ r = [store |-> None, saved |-> FALSE, failed |-> FALSE]
          \/ r = [store |-> store, saved |-> FALSE, failed |-> store.fetched]
          \/ r = [store |-> store, saved |-> FALSE, failed |-> FALSE]
          \/ r = [store |-> e, saved |-> TRUE, failed |-> FALSE]
      BY <1>3, Zenon DEF persistListing
    <2> QED BY <2>1
  <1>6. CASE r.saved = FALSE
    <2>1. Deliver(FALSE, TRUE, e) /\ due' = due
      BY <1>2, <1>3, <1>6
    <2>2. /\ store' \in Listings /\ owed' \in BOOLEAN
          /\ store'.fetched /\ ~owed' => store'.over >= due \/ \E c \in Callers : at[c] = "delete"
      <3>1. store' \in Listings /\ (store' = None \/ store' = store)
        BY <1>2, <1>5, <1>6, NoListing DEF ToolInv, ToolTypes
      <3>2. owed' \in BOOLEAN /\ (owed => owed')
        BY <1>2, Zenon
      <3> QED BY <1>1, <3>1, <3>2, NoListing DEF ToolInv, StoreSound
    <2>3. \A c \in round.members : rounds'[c] = 1
      BY <1>1 DEF ToolInv, ToolTypes, Rounds, RoundSound, Written
    <2> QED BY <1>1, <1>4, <2>1, <2>2, <2>3, RoundEnds
  <1>7. CASE r.saved = TRUE
    <2>1. /\ store' = e /\ round' = [round EXCEPT !.at = "saved"] /\ UNCHANGED <<at, got>>
          /\ due' = IF generation # round.startGen THEN last ELSE due
      BY <1>2, <1>5, <1>7
    <2>2. owed' \in BOOLEAN
      BY <1>2, Zenon
    <2>3. /\ round' \in Rounds /\ round'.members = round.members /\ round'.at = "saved"
          /\ round'.entry = round.entry /\ round'.startGen = round.startGen
      BY <2>1 DEF ToolInv, ToolTypes, Rounds, Phases, Written
    <2>4. due' \in Nat /\ due' <= last
      BY <2>1 DEF ToolInv, ToolTypes, Ordered
    <2>5. ToolTypes'
      BY <1>1, <1>4, <2>1, <2>2, <2>3, <2>4 DEF ToolInv, ToolTypes, Settled
    <2>6. Ordered' /\ EntrySound'
      BY <1>1, <2>4 DEF ToolInv, Ordered, EntrySound, isFresh, Settled
    <2>7. RoundSound'
      BY <1>1, <2>1, <2>3 DEF ToolInv, RoundSound, Written, Settled, Current
    <2>8. CallsSound'
      <3> SUFFICES ASSUME NEW d \in Callers PROVE CallSound(d)'
        BY DEF CallsSound
      <3> QED BY <1>1, <2>1 DEF ToolInv, CallsSound, CallSound, Current, Settled
    <2>9. StoreSound'
      <3>1. CASE generation # round.startGen
        BY <1>1, <2>3, <3>1 DEF StoreSound, Settled
      <3>2. CASE generation = round.startGen
        <4>1. due' = due /\ e.over >= last
          BY <1>4, <2>1, <3>2 DEF Current
        <4>2. store'.over >= due'
          BY <1>4, <2>1, <4>1 DEF ToolInv, ToolTypes, Ordered, Listings
        <4> QED BY <4>2 DEF StoreSound
      <3> QED BY <3>1, <3>2
    <2>10. ToldSound'
      BY <1>1, <2>1 DEF ToolInv, ToldSound
    <2> QED BY <2>5, <2>6, <2>7, <2>8, <2>9, <2>10 DEF ToolInv
  <1> QED BY <1>5, <1>6, <1>7

LEMMA SavedKeeps == ASSUME ToolInv, Saved PROVE ToolInv'
  <1>1. /\ Settled /\ UNCHANGED <<entry, told, rounds, due>> /\ round.at = "saved"
        /\ rounds' \in [Callers -> {0, 1}] /\ Deliver(FALSE, TRUE, round.entry)
    BY DEF Saved, Settled, ToolInv, ToolTypes
  <1>2. PICK e : e = round.entry
    BY Zenon
  <1>3. e \in Listings /\ Current(e) /\ Deliver(FALSE, TRUE, e)
    BY <1>1, <1>2 DEF ToolInv, ToolTypes, Rounds, RoundSound, Written
  <1>4. \A c \in round.members : rounds'[c] = 1
    BY <1>1 DEF ToolInv, ToolTypes, Rounds, RoundSound, Written
  <1>5. /\ store' \in Listings /\ owed' \in BOOLEAN
        /\ store'.fetched /\ ~owed' => store'.over >= due \/ \E c \in Callers : at[c] = "delete"
    <2>1. CASE generation = round.startGen
      BY <2>1 DEF Saved, ToolInv, ToolTypes, StoreSound
    <2>2. CASE generation # round.startGen
      BY <2>2, NoListing DEF Saved, ToolInv, ToolTypes
    <2> QED BY <2>1, <2>2
  <1> QED BY <1>1, <1>3, <1>4, <1>5, RoundEnds

LEMMA ReloadKeeps == ASSUME ToolInv, Reload PROVE ToolInv'
  <1>1. /\ transport' = transport + 1
        /\ UNCHANGED <<entry, generation, store, round, at, op, got, told, floor, rounds, last, due, owed>>
    BY DEF Reload
  <1>2. ToolTypes' /\ Ordered' /\ EntrySound'
    BY <1>1 DEF ToolInv, ToolTypes, Ordered, EntrySound, isFresh
  <1>3. RoundSound' /\ StoreSound' /\ ToldSound'
    BY <1>1 DEF ToolInv, RoundSound, Current, StoreSound, ToldSound
  <1>4. CallsSound'
    BY <1>1 DEF ToolInv, CallsSound, CallSound, Current
  <1> QED BY <1>2, <1>3, <1>4 DEF ToolInv

LEMMA ExpireKeeps == ASSUME ToolInv, Expire PROVE ToolInv'
  <1>1. /\ entry' = [entry EXCEPT !.fresh = FALSE]
        /\ UNCHANGED <<transport, generation, store, round, at, op, got, told, floor, rounds, last, due, owed>>
    BY DEF Expire
  <1>2. entry' \in Listings /\ ~isFresh(entry)'
    BY <1>1 DEF ToolInv, ToolTypes, Listings, isFresh
  <1>3. ToolTypes' /\ Ordered' /\ EntrySound'
    BY <1>1, <1>2 DEF ToolInv, ToolTypes, Ordered, EntrySound
  <1>4. RoundSound' /\ StoreSound' /\ ToldSound'
    BY <1>1 DEF ToolInv, RoundSound, Current, StoreSound, ToldSound
  <1>5. CallsSound'
    BY <1>1 DEF ToolInv, CallsSound, CallSound, Current
  <1> QED BY <1>3, <1>4, <1>5 DEF ToolInv

LEMMA RestartKeeps == ASSUME ToolInv, Restart PROVE ToolInv'
  <1>1. /\ UNCHANGED <<transport, store, op, floor, rounds, last, due>> /\ told' = TRUE
        /\ generation' = 0 /\ round' = NoRound /\ entry' = LoadFromStore(store)
        /\ at' = [c \in Callers |-> "idle"] /\ got' = [c \in Callers |-> None]
    BY DEF Restart
  <1>2. entry' \in Listings /\ ~isFresh(entry)'
    <2>1. PICK s \in Listings : s = store
      BY DEF ToolInv, ToolTypes
    <2>2. LoadFromStore(s) \in Listings /\ ~isFresh(LoadFromStore(s))
      BY FromStore
    <2> QED BY <1>1, <2>1, <2>2 DEF isFresh
  <1>3. owed' = (owed \/ (round.at = "saved" /\ generation # round.startGen)
                   \/ \E c \in Callers : at[c] = "delete")
    BY DEF Restart
  <1>4. owed' \in BOOLEAN
    BY <1>3, Zenon
  <1>5. ToolTypes' /\ Ordered' /\ EntrySound'
    BY <1>1, <1>2, <1>4, NoListing, NoRoundIs DEF ToolInv, ToolTypes, Ordered, EntrySound, Places
  <1>6. RoundSound' /\ CallsSound' /\ ToldSound'
    BY <1>1, NoRoundIs DEF RoundSound, Written, CallsSound, CallSound, ToldSound
  <1>7. StoreSound'
    <2>1. ~owed' => ~owed /\ ~(round.at = "saved" /\ generation # round.startGen)
                    /\ ~\E c \in Callers : at[c] = "delete"
      BY <1>3, Zenon
    <2> QED BY <1>1, <2>1 DEF ToolInv, StoreSound
  <1> QED BY <1>5, <1>6, <1>7 DEF ToolInv

LEMMA ToolStep == ToolInv /\ [Next]_vars => ToolInv'
  <1> SUFFICES ASSUME ToolInv, [Next]_vars PROVE ToolInv'
    OBVIOUS
  <1>1. CASE UNCHANGED vars
    <2>1. /\ UNCHANGED <<transport, entry, generation, store, round, at, op, got, told, floor, rounds>>
          /\ UNCHANGED <<last, due, owed>>
      BY <1>1 DEF vars
    <2>2. ToolTypes' /\ Ordered' /\ EntrySound'
      BY <2>1 DEF ToolInv, ToolTypes, Ordered, EntrySound, isFresh
    <2>3. RoundSound' /\ StoreSound' /\ ToldSound'
      BY <2>1 DEF ToolInv, RoundSound, Current, StoreSound, ToldSound
    <2>4. CallsSound'
      BY <2>1 DEF ToolInv, CallsSound, CallSound, Current
    <2> QED BY <2>2, <2>3, <2>4 DEF ToolInv
  <1>2. ASSUME NEW c \in Callers, Call(c) PROVE ToolInv'
    BY <1>2, AttemptKeeps, GiveUpKeeps, ReceivedKeeps, SwapKeeps, InvalidateKeeps,
       InvalidateWithStoreKeeps, fireOnChangeKeeps, ReturnKeeps DEF Call
  <1>3. CASE Round
    BY <1>3, RecheckKeeps, BeginKeeps, FetchKeeps, PublishKeeps, HookKeeps, LockStoreKeeps,
       SaveKeeps, SavedKeeps DEF Round
  <1> QED BY <1>1, <1>2, <1>3, StartKeeps, ReloadKeeps, ExpireKeeps, RestartKeeps DEF Next

\* The inductive invariant of the tool cache (tool_cache.go): the generation
\* tells, of every listing in the entry, in the round and in a caller's hands,
\* whether it is older than the last invalidation, through reloads, evictions
\* and restarts.
THEOREM ToolInvariance == Spec => []ToolInv
  BY ToolInit, ToolStep, PTL DEF Spec

\* GetTools never serves what was fetched before an invalidation that preceded
\* the call, RefreshServer reports success only after a reply of the upstream,
\* and a quiet cache holds in its store nothing that was invalidated and has
\* told of the last change, for any callers and attempts.
THEOREM ToolsStayCurrent == Spec => []NoStaleTools
  <1>1. ToolInv => ServedAreCurrent /\ RefreshMeansFetched
    BY DEF ToolInv, CallsSound, CallSound, ServedAreCurrent, RefreshMeansFetched
  <1>2. ToolInv => NothingResurrected
    BY DEF ToolInv, StoreSound, ToldSound, NothingResurrected, Quiet
  <1>3. ToolInv => NoStaleTools
    BY <1>1, <1>2 DEF NoStaleTools
  <1> QED BY <1>3, ToolInvariance, PTL

-----------------------------------------------------------------------------
(* The login throttle.                                                     *)

AddressCounts == [windowStart : Nat, count : Nat]
AccountEntries == [failures : Nat, lockedUntil : Nat, lastFailure : Nat, there : BOOLEAN]
Streaks == [failures : Nat, last : Nat, until : Nat]

ThrottleTypes ==
    /\ now \in Nat /\ now # 0 /\ raced \in BOOLEAN
    /\ ip \in [IPs -> AddressCounts] /\ account \in [Accounts -> AccountEntries]
    /\ email \in [Attempts -> Accounts] /\ pc \in [Attempts -> {"idle", "trying", "failing"}]
    /\ earned \in [Accounts -> Streaks] /\ admitted \in [IPs -> Nat]

\* The attempts an address was granted in this minute are in its counter.
AddressSound(a) ==
    /\ admitted[a] <= loginMaxAttemptsPerIPPerMinute
    /\ IF ip[a].windowStart = now THEN admitted[a] <= ip[a].count ELSE admitted[a] = 0

\* The entry of an account knows of every failure in a row, and is locked as
\* long as they earned; a streak is over when it is older than the eviction.
AccountSound(e) ==
    /\ earned[e].failures <= account[e].failures
    /\ earned[e].until > now => account[e].lockedUntil >= earned[e].until
    /\ earned[e].failures # 0 =>
          /\ earned[e].last <= account[e].lastFailure
          /\ now - earned[e].last <= loginAccountIdleEviction

\* What is to be deleted is stale, unless it has changed.
Doomed(d) ==
    \/ \E a \in IPs : d[1] = "ip" /\ d[2] = a /\ d[3] \in AddressCounts /\ d[3].windowStart < now
    \/ \E e \in Accounts :
          /\ d[1] = "account" /\ d[2] = e /\ d[3] \in AccountEntries
          /\ d[3].lockedUntil < now
          /\ d[3].failures = 0 \/ now - d[3].lastFailure > loginAccountIdleEviction

ThrottleInv ==
    /\ ThrottleParameters /\ ThrottleTypes
    /\ ~raced => /\ \A a \in IPs : AddressSound(a)
                 /\ \A e \in Accounts : AccountSound(e)
    /\ \A d \in evicting : Doomed(d)

LEMMA ThrottleStarts == ThrottleParameters /\ ThrottleInit => ThrottleInv
  <1> SUFFICES ASSUME ThrottleParameters, ThrottleInit PROVE ThrottleInv
    OBVIOUS
  <1>1. /\ NoIP \in AddressCounts /\ NoIP.windowStart = 0
        /\ NoAccount \in AccountEntries
        /\ NoStreak \in Streaks /\ NoStreak.failures = 0 /\ NoStreak.until = 0
    BY DEF NoIP, NoAccount, NoStreak, AddressCounts, AccountEntries, Streaks
  <1>2. ThrottleTypes
    <2>1. raced \in BOOLEAN
      BY DEF ThrottleInit
    <2> QED BY <1>1, <2>1 DEF ThrottleInit, ThrottleTypes
  <1>3. \A a \in IPs : AddressSound(a)
    BY <1>1 DEF ThrottleInit, ThrottleParameters, AddressSound
  <1>4. \A e \in Accounts : AccountSound(e)
    BY <1>1 DEF ThrottleInit, AccountSound, AccountEntries
  <1> QED BY <1>2, <1>3, <1>4 DEF ThrottleInit, ThrottleInv

\* A step that leaves the clock and what is to be deleted.
LEMMA ThrottleKept ==
    ASSUME ThrottleInv, ThrottleTypes', UNCHANGED <<now, evicting>>,
           ~raced' => (\A a \in IPs : AddressSound(a)') /\ (\A e \in Accounts : AccountSound(e)')
    PROVE  ThrottleInv'
  BY DEF ThrottleInv, Doomed, ThrottleParameters

LEMMA TickHolds == ASSUME ThrottleInv, Tick PROVE ThrottleInv'
  <1>1. now' = now + 1 /\ now' \in Nat /\ now \in Nat /\ now # 0
    BY DEF Tick, ThrottleInv, ThrottleTypes
  <1>2. /\ admitted' = [a \in IPs |-> 0] /\ UNCHANGED <<ip, account, pc, email, held, evicting, raced>>
    BY DEF Tick
  <1>3. ASSUME NEW e \in Accounts
        PROVE  /\ earned'[e] \in {NoStreak, earned[e]}
               /\ earned'[e] # NoStreak => now' - earned[e].last <= loginAccountIdleEviction
    BY DEF Tick, ThrottleInv, ThrottleTypes, Streaks, ThrottleParameters
  <1>4. NoStreak \in Streaks
    BY DEF NoStreak, Streaks
  <1>5. ThrottleTypes'
    <2>1. earned' \in [Accounts -> Streaks]
      BY <1>3, <1>4 DEF Tick, ThrottleInv, ThrottleTypes
    <2> QED BY <1>1, <1>2, <2>1 DEF ThrottleInv, ThrottleTypes
  <1>6. ASSUME ~raced, NEW a \in IPs PROVE AddressSound(a)'
    BY <1>1, <1>2, <1>6 DEF ThrottleInv, ThrottleTypes, ThrottleParameters, AddressSound, AddressCounts
  <1>7. ASSUME ~raced, NEW e \in Accounts PROVE AccountSound(e)'
    <2>1. AccountSound(e) /\ account[e] \in AccountEntries /\ earned[e] \in Streaks
      BY <1>7 DEF ThrottleInv, ThrottleTypes
    <2>2. CASE earned'[e] = NoStreak
      BY <1>1, <1>2, <2>1, <2>2 DEF AccountSound, NoStreak, AccountEntries
    <2>3. CASE earned'[e] # NoStreak
      BY <1>1, <1>2, <1>3, <2>1, <2>3 DEF AccountSound, AccountEntries, Streaks
    <2> QED BY <2>2, <2>3
  <1>8. ASSUME NEW d \in evicting PROVE Doomed(d)'
    <2>1. Doomed(d)
      BY DEF ThrottleInv
    <2> QED BY <1>1, <2>1 DEF Doomed, AddressCounts, AccountEntries, ThrottleInv, ThrottleParameters
  <1> QED BY <1>2, <1>5, <1>6, <1>7, <1>8 DEF ThrottleInv, ThrottleParameters

LEMMA Entries ==
    ASSUME NEW x \in AccountEntries
    PROVE  /\ [x EXCEPT !.there = TRUE] \in AccountEntries
           /\ [x EXCEPT !.there = TRUE].failures = x.failures
           /\ [x EXCEPT !.there = TRUE].lockedUntil = x.lockedUntil
           /\ [x EXCEPT !.there = TRUE].lastFailure = x.lastFailure
           /\ [x EXCEPT !.lockedUntil = 0, !.failures = 0, !.there = TRUE] \in AccountEntries
           /\ [x EXCEPT !.lockedUntil = 0, !.failures = 0, !.there = TRUE].failures = 0
           /\ [x EXCEPT !.lockedUntil = 0, !.failures = 0, !.there = TRUE].lastFailure = x.lastFailure
  BY DEF AccountEntries

LEMMA AllowHolds ==
    ASSUME ThrottleInv, NEW p \in Attempts, NEW a \in IPs, NEW e \in Accounts, Allow(p, a, e)
    PROVE  ThrottleInv' /\ Admits
  <1>1. /\ UNCHANGED <<now, evicting, raced>> /\ ip' = [ip EXCEPT ![a] = Charge(a)]
        /\ ip[a].windowStart = now => ip[a].count <= loginMaxAttemptsPerIPPerMinute
    BY DEF Allow
  <1>2. /\ ip[a] \in AddressCounts /\ account[e] \in AccountEntries /\ earned[e] \in Streaks
        /\ now \in Nat /\ loginMaxAttemptsPerIPPerMinute \in Nat /\ admitted[a] \in Nat
    BY DEF ThrottleInv, ThrottleTypes, ThrottleParameters
  <1>3. /\ Charge(a) \in AddressCounts /\ Charge(a).windowStart = now
        /\ Charge(a).count = IF ip[a].windowStart = now THEN ip[a].count + 1 ELSE 1
    BY <1>2 DEF Charge, AddressCounts
  <1>4. ip' \in [IPs -> AddressCounts] /\ ip'[a] = Charge(a) /\ \A b \in IPs : b # a => ip'[b] = ip[b]
    BY <1>1, <1>3 DEF ThrottleInv, ThrottleTypes
  <1>5. ~raced => AddressSound(a)
    BY DEF ThrottleInv
  <1>6. CASE Charge(a).count > loginMaxAttemptsPerIPPerMinute
    <2>1. UNCHANGED <<account, pc, email, admitted, earned>>
      BY <1>6 DEF Allow
    <2>2. ThrottleTypes'
      BY <1>1, <1>4, <2>1 DEF ThrottleInv, ThrottleTypes
    <2>3. ~raced => AddressSound(a)'
      BY <1>1, <1>2, <1>3, <1>4, <1>5, <2>1 DEF AddressSound, AddressCounts
    <2>4. ~raced => \A b \in IPs : AddressSound(b)'
      BY <1>1, <1>4, <2>1, <2>3 DEF ThrottleInv, AddressSound
    <2>5. ~raced => \A f \in Accounts : AccountSound(f)'
      BY <1>1, <2>1 DEF ThrottleInv, AccountSound
    <2>6. Admits
      BY <2>1, <2>4 DEF Admits, AddressSound
    <2> QED BY <1>1, <2>2, <2>4, <2>5, <2>6, ThrottleKept
  <1>7. CASE ~(Charge(a).count > loginMaxAttemptsPerIPPerMinute)
    <2>1. /\ account' = [account EXCEPT ![e] = Checked(e)]
          /\ earned' = (IF account[e].lockedUntil # 0 /\ ~Locked(e) THEN [earned EXCEPT ![e] = NoStreak] ELSE earned)
          /\ admitted' = [admitted EXCEPT ![a] = @ + 1]
          /\ IF Locked(e) THEN UNCHANGED <<pc, email>>
             ELSE pc' = [pc EXCEPT ![p] = "trying"] /\ email' = [email EXCEPT ![p] = e]
      BY <1>7 DEF Allow
    <2>2. /\ Checked(e) \in AccountEntries /\ Checked(e).lastFailure = account[e].lastFailure
          /\ (account[e].lockedUntil = 0 \/ Locked(e)) =>
                Checked(e).failures = account[e].failures /\ Checked(e).lockedUntil = account[e].lockedUntil
      <3>1. PICK x \in AccountEntries : x = account[e]
        BY <1>2
      <3>2. Checked(e) = IF x.lockedUntil # 0 /\ now >= x.lockedUntil
                         THEN [x EXCEPT !.lockedUntil = 0, !.failures = 0, !.there = TRUE]
                         ELSE [x EXCEPT !.there = TRUE]
        BY <3>1, Zenon DEF Checked
      <3>3. /\ [x EXCEPT !.there = TRUE] \in AccountEntries
            /\ [x EXCEPT !.there = TRUE].failures = x.failures
            /\ [x EXCEPT !.there = TRUE].lockedUntil = x.lockedUntil
            /\ [x EXCEPT !.there = TRUE].lastFailure = x.lastFailure
        BY Entries
      <3>4. /\ [x EXCEPT !.lockedUntil = 0, !.failures = 0, !.there = TRUE] \in AccountEntries
            /\ [x EXCEPT !.lockedUntil = 0, !.failures = 0, !.there = TRUE].lastFailure = x.lastFailure
        BY Entries
      <3>5. x.lockedUntil \in Nat
        BY DEF AccountEntries
      <3> QED BY <1>2, <3>1, <3>2, <3>3, <3>4, <3>5 DEF Locked
    <2>3. NoStreak \in Streaks /\ NoStreak.failures = 0 /\ NoStreak.until = 0
      BY DEF NoStreak, Streaks
    <2>4. /\ account' \in [Accounts -> AccountEntries] /\ account'[e] = Checked(e)
          /\ \A f \in Accounts : f # e => account'[f] = account[f] /\ earned'[f] = earned[f]
          /\ earned' \in [Accounts -> Streaks]
          /\ earned'[e] = IF account[e].lockedUntil # 0 /\ ~Locked(e) THEN NoStreak ELSE earned[e]
      BY <2>1, <2>2, <2>3 DEF ThrottleInv, ThrottleTypes
    <2>5. /\ admitted' \in [IPs -> Nat] /\ admitted'[a] = admitted[a] + 1
          /\ \A b \in IPs : b # a => admitted'[b] = admitted[b]
      BY <1>2, <2>1 DEF ThrottleInv, ThrottleTypes
    <2>6. email' \in [Attempts -> Accounts] /\ pc' \in [Attempts -> {"idle", "trying", "failing"}]
      BY <2>1 DEF ThrottleInv, ThrottleTypes
    <2>7. ThrottleTypes'
      BY <1>1, <1>4, <2>4, <2>5, <2>6 DEF ThrottleInv, ThrottleTypes
    <2>8. ~raced => AddressSound(a)'
      BY <1>1, <1>2, <1>3, <1>4, <1>5, <1>7, <2>5 DEF AddressSound, AddressCounts
    <2>9. ~raced => \A b \in IPs : AddressSound(b)'
      BY <1>1, <1>4, <2>5, <2>8 DEF ThrottleInv, AddressSound
    <2>10. ~raced => AccountSound(e)'
      <3>1. ~raced => AccountSound(e)
        BY DEF ThrottleInv
      <3>2. CASE account[e].lockedUntil # 0 /\ ~Locked(e)
        BY <1>1, <1>2, <2>2, <2>3, <2>4, <3>2 DEF AccountSound, AccountEntries
      <3>3. CASE ~(account[e].lockedUntil # 0 /\ ~Locked(e))
        BY <1>1, <2>2, <2>4, <3>1, <3>3 DEF AccountSound
      <3> QED BY <3>2, <3>3
    <2>11. ~raced => \A f \in Accounts : AccountSound(f)'
      BY <1>1, <2>4, <2>10 DEF ThrottleInv, AccountSound
    <2>12. Admits
      <3> SUFFICES ASSUME ~raced PROVE Admits
        BY DEF Admits
      <3>1. \A b \in IPs : admitted'[b] <= loginMaxAttemptsPerIPPerMinute
        BY <2>9 DEF AddressSound
      <3>2. ASSUME NEW q \in Attempts, pc[q] = "idle", pc'[q] = "trying" PROVE now >= earned[email'[q]].until
        <4>1. ~Locked(e) /\ pc' = [pc EXCEPT ![p] = "trying"] /\ email' = [email EXCEPT ![p] = e]
          BY <2>1, <3>2
        <4>2. q = p
          BY <3>2, <4>1
        <4>3. email'[q] = e
          BY <4>1, <4>2 DEF ThrottleInv, ThrottleTypes
        <4>4. AccountSound(e)
          BY DEF ThrottleInv
        <4> QED BY <1>2, <4>1, <4>3, <4>4 DEF AccountSound, Locked, AccountEntries, Streaks
      <3> QED BY <3>1, <3>2 DEF Admits
    <2> QED BY <1>1, <2>7, <2>9, <2>11, <2>12, ThrottleKept
  <1> QED BY <1>6, <1>7

\* One account's entry and streak are replaced.
LEMMA AccountMoves ==
    ASSUME ThrottleInv, NEW e \in Accounts, NEW x \in AccountEntries, NEW y \in Streaks,
           account' = [account EXCEPT ![e] = x], earned' = [earned EXCEPT ![e] = y],
           UNCHANGED <<now, ip, email, evicting, admitted, raced>>,
           pc' \in [Attempts -> {"idle", "trying", "failing"}],
           ~raced => AccountSound(e)'
    PROVE  ThrottleInv'
  <1>1. ThrottleTypes'
    BY DEF ThrottleInv, ThrottleTypes
  <1>2. ~raced => \A a \in IPs : AddressSound(a)'
    BY DEF ThrottleInv, AddressSound
  <1>3. \A f \in Accounts : f # e => account'[f] = account[f] /\ earned'[f] = earned[f]
    BY DEF ThrottleInv, ThrottleTypes
  <1>4. ~raced => \A f \in Accounts : AccountSound(f)'
    BY <1>3 DEF ThrottleInv, AccountSound
  <1> QED BY <1>1, <1>2, <1>4, ThrottleKept

LEMMA AttemptsMove ==
    ASSUME ThrottleInv, NEW p \in Attempts, loadOrCreateAccount(p) \/ RecordFailure(p) \/ RecordSuccess(p)
    PROVE  pc' \in [Attempts -> {"idle", "trying", "failing"}]
  BY DEF ThrottleInv, ThrottleTypes, loadOrCreateAccount, RecordFailure, RecordSuccess

LEMMA loadOrCreateHolds ==
    ASSUME ThrottleInv, NEW p \in Attempts, loadOrCreateAccount(p) PROVE ThrottleInv'
  <1>a. PICK e \in Accounts : e = email[p]
    BY DEF ThrottleInv, ThrottleTypes
  <1>b. PICK x, y : x = [account[e] EXCEPT !.there = TRUE] /\ y = earned[e]
    BY Zenon
  <1>1. account[e] \in AccountEntries /\ y \in Streaks /\ earned' = [earned EXCEPT ![e] = y]
    BY <1>a, <1>b DEF loadOrCreateAccount, ThrottleInv, ThrottleTypes
  <1>2. /\ x \in AccountEntries /\ x.failures = account[e].failures
        /\ x.lockedUntil = account[e].lockedUntil /\ x.lastFailure = account[e].lastFailure
    BY <1>a, <1>b, <1>1 DEF AccountEntries
  <1>3. account' = [account EXCEPT ![e] = x]
    BY <1>a, <1>b, <1>1 DEF loadOrCreateAccount, ThrottleInv, ThrottleTypes
  <1>4. UNCHANGED <<now, ip, email, evicting, admitted, raced, earned>>
    BY DEF loadOrCreateAccount
  <1>5. ~raced => AccountSound(e)'
    <2>1. account'[e] = x
      BY <1>3 DEF ThrottleInv, ThrottleTypes
    <2> QED BY <1>2, <1>4, <2>1 DEF ThrottleInv, AccountSound
  <1> QED BY <1>1, <1>2, <1>3, <1>4, <1>5, AccountMoves, AttemptsMove

LEMMA RecordSuccessHolds ==
    ASSUME ThrottleInv, NEW p \in Attempts, RecordSuccess(p) PROVE ThrottleInv'
  <1>a. PICK e \in Accounts : e = email[p]
    BY DEF ThrottleInv, ThrottleTypes
  <1>b. PICK x : x = [account[e] EXCEPT !.failures = 0, !.lockedUntil = 0, !.there = TRUE]
    BY Zenon
  <1>1. account[e] \in AccountEntries
    BY DEF ThrottleInv, ThrottleTypes
  <1>2. x \in AccountEntries /\ x.failures = 0
    BY <1>a, <1>b, <1>1 DEF AccountEntries
  <1>3. account' = [account EXCEPT ![e] = x]
    BY <1>a, <1>b, <1>1 DEF RecordSuccess, ThrottleInv, ThrottleTypes
  <1>4. /\ UNCHANGED <<now, ip, email, evicting, admitted, raced>>
        /\ earned' = [earned EXCEPT ![e] = NoStreak]
    BY <1>a, <1>b DEF RecordSuccess
  <1>5. NoStreak \in Streaks /\ NoStreak.failures = 0 /\ NoStreak.until = 0
    BY DEF NoStreak, Streaks
  <1>6. AccountSound(e)'
    <2>1. account'[e] = x /\ earned'[e] = NoStreak /\ now' \in Nat
      BY <1>3, <1>4 DEF ThrottleInv, ThrottleTypes
    <2> QED BY <1>2, <1>5, <2>1 DEF AccountSound
  <1> QED BY <1>2, <1>3, <1>4, <1>5, <1>6, AccountMoves, AttemptsMove

LEMMA RecordFailureHolds ==
    ASSUME ThrottleInv, NEW p \in Attempts, RecordFailure(p) PROVE ThrottleInv'
  <1>a. PICK e \in Accounts : e = email[p]
    BY DEF ThrottleInv, ThrottleTypes
  <1>b. PICK y : y = [failures |-> earned[e].failures + 1, last |-> now,
                   until |-> IF earned[e].failures + 1 >= loginLockoutThreshold
                             THEN now + loginLockoutDuration ELSE 0]
    BY Zenon
  <1>1. /\ account[e] \in AccountEntries /\ earned[e] \in Streaks /\ now \in Nat
        /\ loginLockoutThreshold \in Nat /\ loginLockoutDuration \in Nat /\ loginAccountIdleEviction \in Nat
    BY DEF ThrottleInv, ThrottleTypes, ThrottleParameters
  <1>2. earned[e].failures \in Nat /\ account[e].failures \in Nat /\ account[e].lockedUntil \in Nat
    BY <1>1 DEF Streaks, AccountEntries
  <1>3. /\ y \in Streaks /\ y.failures = earned[e].failures + 1 /\ y.last = now
        /\ y.until = IF earned[e].failures + 1 >= loginLockoutThreshold
                     THEN now + loginLockoutDuration ELSE 0
    BY <1>a, <1>b, <1>1, <1>2 DEF Streaks
  <1>4. /\ UNCHANGED <<now, ip, email, evicting, admitted>> /\ earned' = [earned EXCEPT ![e] = y]
    BY <1>a, <1>b DEF RecordFailure
  <1>5. CASE held[p]
    <2>0. PICK x : x = Failed(account[e])
      BY Zenon
    <2>1. account' = [account EXCEPT ![e] = x] /\ UNCHANGED raced
      BY <1>a, <1>b, <1>5, <2>0 DEF RecordFailure
    <2>2. /\ x \in AccountEntries /\ x.failures = account[e].failures + 1 /\ x.lastFailure = now
          /\ x.lockedUntil = IF account[e].failures + 1 >= loginLockoutThreshold
                             THEN now + loginLockoutDuration ELSE account[e].lockedUntil
      <3>1. PICK z \in AccountEntries : z = account[e]
        BY <1>1
      <3>2. PICK t : t = IF z.failures + 1 >= loginLockoutThreshold
                         THEN now + loginLockoutDuration ELSE z.lockedUntil
        BY Zenon
      <3>3. t \in Nat
        BY <1>1, <1>2, <3>1, <3>2
      <3>4. x = [z EXCEPT !.failures = z.failures + 1, !.lastFailure = now, !.lockedUntil = t]
        BY <2>0, <3>1, <3>2 DEF Failed
      <3>5. x \in AccountEntries /\ x.failures = z.failures + 1 /\ x.lastFailure = now /\ x.lockedUntil = t
        <4>1. z.failures + 1 \in Nat
          BY DEF AccountEntries
        <4> QED BY <1>1, <3>3, <3>4, <4>1 DEF AccountEntries
      <3> QED BY <3>1, <3>2, <3>5
    <2>3. ~raced => AccountSound(e)'
      <3>1. account'[e] = x /\ earned'[e] = y /\ now' = now
        BY <1>4, <2>1 DEF ThrottleInv, ThrottleTypes
      <3>2. ~raced => earned[e].failures <= account[e].failures
        BY DEF ThrottleInv, AccountSound
      <3> QED BY <1>1, <1>2, <1>3, <2>2, <3>1, <3>2 DEF AccountSound
    <2> QED BY <1>3, <1>4, <2>1, <2>2, <2>3, AccountMoves, AttemptsMove
  <1>6. CASE ~held[p]
    <2>1. raced' = TRUE /\ UNCHANGED account
      BY <1>6 DEF RecordFailure
    <2>2. ThrottleTypes'
      BY <1>3, <1>4, <2>1, AttemptsMove DEF ThrottleInv, ThrottleTypes
    <2> QED BY <1>4, <2>1, <2>2, ThrottleKept
  <1> QED BY <1>5, <1>6

LEMMA DecideHolds == ASSUME ThrottleInv, Decide PROVE ThrottleInv'
  <1>1. UNCHANGED <<now, ip, account, pc, email, earned, admitted, raced>>
    BY DEF Decide
  <1>2. ASSUME NEW a \in IPs, StaleIP(a), evicting' = {<<"ip", a, ip[a]>>}
        PROVE  \A d \in evicting' : Doomed(d)'
    <2>1. ip[a] \in AddressCounts /\ ip[a].windowStart < now'
      BY <1>1, <1>2 DEF StaleIP, ThrottleInv, ThrottleTypes
    <2> SUFFICES ASSUME NEW d \in evicting' PROVE Doomed(d)'
      OBVIOUS
    <2>2. d[1] = "ip" /\ d[2] = a /\ d[3] = ip[a]
      BY <1>2
    <2> QED BY <2>1, <2>2 DEF Doomed
  <1>3. ASSUME NEW e \in Accounts, StaleAccount(e), evicting' = {<<"account", e, account[e]>>}
        PROVE  \A d \in evicting' : Doomed(d)'
    <2>1. /\ account[e] \in AccountEntries /\ account[e].lockedUntil < now'
          /\ account[e].failures = 0 \/ now' - account[e].lastFailure > loginAccountIdleEviction
      <3>1. account[e] \in AccountEntries /\ now \in Nat /\ now # 0
        BY DEF ThrottleInv, ThrottleTypes
      <3> QED BY <1>1, <1>3, <3>1 DEF StaleAccount, AccountEntries
    <2> SUFFICES ASSUME NEW d \in evicting' PROVE Doomed(d)'
      OBVIOUS
    <2>2. d[1] = "account" /\ d[2] = e /\ d[3] = account[e]
      BY <1>3
    <2> QED BY <2>1, <2>2 DEF Doomed
  <1>4. \A d \in evicting' : Doomed(d)'
    BY <1>2, <1>3 DEF Decide
  <1>5. ThrottleTypes' /\ ThrottleParameters'
    BY <1>1 DEF ThrottleInv, ThrottleTypes, ThrottleParameters
  <1>6. ~raced => (\A a \in IPs : AddressSound(a)') /\ (\A e \in Accounts : AccountSound(e)')
    BY <1>1 DEF ThrottleInv, AddressSound, AccountSound
  <1> QED BY <1>1, <1>4, <1>5, <1>6 DEF ThrottleInv

LEMMA DeleteHolds == ASSUME ThrottleInv, Delete PROVE ThrottleInv'
  <1>1. PICK d \in evicting :
          /\ evicting' = {} /\ UNCHANGED <<now, pc, email, earned, admitted>>
          /\ IF d[1] = "ip"
             THEN ip' = [ip EXCEPT ![d[2]] = NoIP] /\ raced' = (raced \/ ip[d[2]] # d[3]) /\ UNCHANGED account
             ELSE /\ account' = [account EXCEPT ![d[2]] = NoAccount]
                  /\ raced' = (raced \/ account[d[2]] # d[3]) /\ UNCHANGED ip
    BY DEF Delete
  <1>2. Doomed(d) /\ now \in Nat /\ now # 0
    BY DEF ThrottleInv, ThrottleTypes
  <1>3. raced' \in BOOLEAN /\ (~raced' => ~raced)
    BY <1>1, Zenon
  <1>4. ASSUME NEW a \in IPs, d[1] = "ip", d[2] = a, d[3].windowStart < now PROVE ThrottleInv'
    <2>1. ip' = [ip EXCEPT ![a] = NoIP] /\ raced' = (raced \/ ip[a] # d[3]) /\ UNCHANGED account
      BY <1>1, <1>4
    <2>2. NoIP \in AddressCounts /\ NoIP.windowStart = 0
      BY DEF NoIP, AddressCounts
    <2>3. ThrottleTypes'
      BY <1>1, <1>3, <2>1, <2>2 DEF ThrottleInv, ThrottleTypes
    <2>4. ip'[a] = NoIP /\ \A b \in IPs : b # a => ip'[b] = ip[b]
      BY <2>1 DEF ThrottleInv, ThrottleTypes
    <2>5. ASSUME ~raced' PROVE \A b \in IPs : AddressSound(b)'
      <3>1. ip[a] = d[3] /\ ~raced
        BY <2>1, <2>5, Zenon
      <3>2. ip[a].windowStart # now
        BY <1>2, <1>4, <3>1 DEF ThrottleInv, ThrottleTypes, AddressCounts
      <3>3. \A b \in IPs : AddressSound(b)
        BY <3>1 DEF ThrottleInv
      <3>4. AddressSound(a)'
        BY <1>1, <1>2, <2>2, <2>4, <3>2, <3>3 DEF AddressSound
      <3> QED BY <1>1, <2>4, <3>3, <3>4 DEF AddressSound
    <2>6. ASSUME ~raced' PROVE \A e \in Accounts : AccountSound(e)'
      BY <1>1, <1>3, <2>1, <2>6 DEF ThrottleInv, AccountSound
    <2> QED BY <1>1, <2>3, <2>5, <2>6 DEF ThrottleInv, ThrottleParameters
  <1>5. ASSUME NEW e \in Accounts, d[1] = "account", d[2] = e, d[3] \in AccountEntries, d[3].lockedUntil < now,
               d[3].failures = 0 \/ now - d[3].lastFailure > loginAccountIdleEviction
        PROVE  ThrottleInv'
    <2>1. account' = [account EXCEPT ![e] = NoAccount] /\ raced' = (raced \/ account[e] # d[3]) /\ UNCHANGED ip
      BY <1>1, <1>5
    <2>2. NoAccount \in AccountEntries /\ NoAccount.failures = 0
      BY DEF NoAccount, AccountEntries
    <2>3. ThrottleTypes'
      BY <1>1, <1>3, <2>1, <2>2 DEF ThrottleInv, ThrottleTypes
    <2>4. account'[e] = NoAccount /\ \A f \in Accounts : f # e => account'[f] = account[f]
      BY <2>1 DEF ThrottleInv, ThrottleTypes
    <2>5. ASSUME ~raced' PROVE \A f \in Accounts : AccountSound(f)'
      <3>1. account[e] = d[3] /\ ~raced
        BY <2>1, <2>5, Zenon
      <3>2. \A f \in Accounts : AccountSound(f)
        BY <3>1 DEF ThrottleInv
      <3>3. earned[e] \in Streaks /\ loginAccountIdleEviction \in Nat
        BY DEF ThrottleInv, ThrottleTypes, ThrottleParameters
      <3>4. earned[e].failures = 0 /\ ~(earned[e].until > now)
        BY <1>2, <1>5, <3>1, <3>2, <3>3 DEF AccountSound, AccountEntries, Streaks
      <3>5. AccountSound(e)'
        BY <1>1, <2>2, <2>4, <3>4 DEF AccountSound
      <3> QED BY <1>1, <2>4, <3>2, <3>5 DEF AccountSound
    <2>6. ASSUME ~raced' PROVE \A a \in IPs : AddressSound(a)'
      BY <1>1, <1>3, <2>1, <2>6 DEF ThrottleInv, AddressSound
    <2> QED BY <1>1, <2>3, <2>5, <2>6 DEF ThrottleInv, ThrottleParameters
  <1> QED BY <1>2, <1>4, <1>5 DEF Doomed

LEMMA ThrottleStep == ThrottleInv /\ [ThrottleNext]_throttleVars => ThrottleInv'
  <1> SUFFICES ASSUME ThrottleInv, [ThrottleNext]_throttleVars PROVE ThrottleInv'
    OBVIOUS
  <1>1. CASE UNCHANGED throttleVars
    BY <1>1 DEF throttleVars, ThrottleInv, ThrottleParameters, ThrottleTypes, AddressSound, AccountSound, Doomed
  <1> QED BY <1>1, TickHolds, DecideHolds, DeleteHolds, loadOrCreateHolds, RecordFailureHolds,
             RecordSuccessHolds, AllowHolds DEF ThrottleNext

\* A step that admits nobody, and charges no address, admits nobody wrongly.
LEMMA AdmitsNobody ==
    ASSUME ThrottleInv, \A a \in IPs : admitted'[a] \in {0, admitted[a]},
           \A p \in Attempts : pc[p] = "idle" => pc'[p] # "trying"
    PROVE  Admits
  BY DEF ThrottleInv, ThrottleParameters, AddressSound, Admits

LEMMA ThrottleAdmits == ThrottleInv /\ [ThrottleNext]_throttleVars => [Admits]_throttleVars
  <1> SUFFICES ASSUME ThrottleInv, ThrottleNext PROVE Admits
    OBVIOUS
  <1>1. CASE Tick
    <2>1. UNCHANGED pc /\ \A a \in IPs : admitted'[a] = 0
      BY <1>1 DEF Tick
    <2> QED BY <2>1, AdmitsNobody
  <1>2. CASE Decide
    BY <1>2, AdmitsNobody DEF Decide
  <1>3. CASE Delete
    BY <1>3, AdmitsNobody DEF Delete
  <1>4. ASSUME NEW p \in Attempts, loadOrCreateAccount(p) \/ RecordFailure(p) \/ RecordSuccess(p)
        PROVE  Admits
    <2>1. UNCHANGED admitted /\ (pc' = [pc EXCEPT ![p] = "failing"] \/ pc' = [pc EXCEPT ![p] = "idle"])
      BY <1>4 DEF loadOrCreateAccount, RecordFailure, RecordSuccess
    <2>2. \A q \in Attempts : pc[q] = "idle" => pc'[q] # "trying"
      BY <2>1 DEF ThrottleInv, ThrottleTypes
    <2> QED BY <2>1, <2>2, AdmitsNobody
  <1> QED BY <1>1, <1>2, <1>3, <1>4, AllowHolds DEF ThrottleNext

\* The inductive invariant of the login throttle (login_throttle.go): until an
\* entry is deleted or used in its race with EvictStale, the entries know at
\* least the failures and attempts that happened.
THEOREM ThrottleInvariance == ThrottleParameters /\ ThrottleSpec => []ThrottleInv
  BY ThrottleStarts, ThrottleStep, PTL DEF ThrottleSpec

\* No step admits an attempt on an account whose lockout is running, nor more
\* attempts of an address than a minute has, for any thresholds and durations
\* and any number of attempts, accounts and addresses (Allow, RecordFailure,
\* EvictStale).
THEOREM ThrottleIsSound == ThrottleParameters /\ ThrottleSpec => ThrottleHolds
  BY ThrottleInvariance, ThrottleAdmits, PTL DEF ThrottleSpec, ThrottleHolds


-----------------------------------------------------------------------------
(* The calls to an external server and their record.                       *)

LogEvents == [call : ProxyCalls, status : {"success", "transport_error"}]
CallRows == [at : {"idle", "forward", "stream", "done"}, req : Requests \cup {Null}, id : CalledIds \cup {Null},
             transport : {"none", "shared", "open", "closed"}, body : {"none", "open", "closed"},
             answer : Answers \cup {NoAnswer}, got : Nat,
             reply : {Null, "builtin", "refused", "whole", "bad_gateway", "cut"}]

ProxyTypes ==
    /\ relay \in [ProxyCalls -> CallRows]
    /\ logger \in [queue : Seq(LogEvents), batch : Seq(LogEvents), state : {"running", "closing", "stopped"}]
    /\ stored \in Seq(LogEvents) /\ dropped \in Seq(LogEvents)

\* No call is twice in four logs, the calls they name, and their entries.
EachOnce(q, b, s, d) ==
    /\ OncePerCall(q) /\ OncePerCall(b) /\ OncePerCall(s) /\ OncePerCall(d)
    /\ CallsIn(q) \cap CallsIn(b) = {} /\ CallsIn(q) \cap CallsIn(s) = {} /\ CallsIn(q) \cap CallsIn(d) = {}
    /\ CallsIn(b) \cap CallsIn(s) = {} /\ CallsIn(b) \cap CallsIn(d) = {} /\ CallsIn(s) \cap CallsIn(d) = {}
CallsOf(q, b, s, d) == CallsIn(q) \cup CallsIn(b) \cup CallsIn(s) \cup CallsIn(d)
EntriesIn(log) == {log[i] : i \in DOMAIN log}
EntriesOf(q, b, s, d) == EntriesIn(q) \cup EntriesIn(b) \cup EntriesIn(s) \cup EntriesIn(d)

\* The record names the calls that reached their server, each once, as it ended.
RecordSound ==
    /\ EachOnce(logger.queue, logger.batch, stored, dropped)
    /\ CallsOf(logger.queue, logger.batch, stored, dropped) = Reached
    /\ \A e \in EntriesOf(logger.queue, logger.batch, stored, dropped) : e.status = Outcome(e.call)

\* The logger is told to stop after the last call.
StoppedLast ==
    /\ logger.state # "running" => \A c \in ProxyCalls : relay[c].at \in {"idle", "done"}
    /\ logger.state = "stopped" => logger.queue = <<>> /\ logger.batch = <<>>

ProxyInv ==
    /\ ProxyTypes /\ RecordSound /\ StoppedLast /\ ClosedWhenDone
    /\ registry \subseteq issued /\ OwnSessions

LEMMA CallsAreOfEntries == ASSUME NEW L PROVE CallsIn(L) = {e.call : e \in EntriesIn(L)}
  BY DEF CallsIn, EntriesIn

\* What an entry more or less does to a log.
LEMMA AppendEntry ==
    ASSUME NEW S, NEW L \in Seq(S), NEW e \in S
    PROVE  /\ Append(L, e) \in Seq(S)
           /\ CallsIn(Append(L, e)) = CallsIn(L) \cup {e.call}
           /\ EntriesIn(Append(L, e)) = EntriesIn(L) \cup {e}
           /\ OncePerCall(L) /\ e.call \notin CallsIn(L) => OncePerCall(Append(L, e))
  <1>1. PICK M, n : M = Append(L, e) /\ n = Len(L)
    BY Zenon
  <1>2. /\ M \in Seq(S) /\ n \in Nat /\ DOMAIN L = 1 .. n /\ DOMAIN M = 1 .. (n + 1)
        /\ M[n + 1] = e /\ \A i \in 1 .. n : M[i] = L[i]
    BY <1>1
  <1>3. \A i \in 1 .. (n + 1) : i \in 1 .. n \/ i = n + 1
    BY <1>2
  <1>4. (n + 1) \in 1 .. (n + 1) /\ \A i \in 1 .. n : i \in 1 .. (n + 1)
    BY <1>2
  <1>5. CallsIn(M) = CallsIn(L) \cup {e.call} /\ EntriesIn(M) = EntriesIn(L) \cup {e}
    BY <1>2, <1>3, <1>4 DEF CallsIn, EntriesIn
  <1>6. ASSUME OncePerCall(L), e.call \notin CallsIn(L) PROVE OncePerCall(M)
    <2> SUFFICES ASSUME NEW i \in 1 .. (n + 1), NEW j \in 1 .. (n + 1), M[i].call = M[j].call PROVE i = j
      BY <1>2 DEF OncePerCall
    <2>1. \A k \in 1 .. n : L[k].call \in CallsIn(L)
      BY <1>2 DEF CallsIn
    <2> QED BY <1>2, <1>3, <1>6, <2>1 DEF OncePerCall
  <1> QED BY <1>1, <1>2, <1>5, <1>6

LEMMA TakeEntry ==
    ASSUME NEW S, NEW L \in Seq(S), L # <<>>
    PROVE  /\ Tail(L) \in Seq(S) /\ Head(L) \in S
           /\ CallsIn(L) = CallsIn(Tail(L)) \cup {Head(L).call}
           /\ EntriesIn(L) = EntriesIn(Tail(L)) \cup {Head(L)}
           /\ OncePerCall(L) => OncePerCall(Tail(L)) /\ Head(L).call \notin CallsIn(Tail(L))
  <1>1. PICK M, n, h : M = Tail(L) /\ n = Len(L) /\ h = Head(L)
    BY Zenon
  <1>2. /\ M \in Seq(S) /\ h \in S /\ n \in Nat /\ n # 0 /\ DOMAIN L = 1 .. n /\ DOMAIN M = 1 .. (n - 1)
        /\ h = L[1] /\ \A i \in 1 .. (n - 1) : M[i] = L[i + 1]
    BY <1>1
  <1>3. \A i \in 1 .. n : i = 1 \/ (i - 1 \in 1 .. (n - 1) /\ M[i - 1] = L[i])
    BY <1>2
  <1>4. 1 \in 1 .. n /\ \A i \in 1 .. (n - 1) : i + 1 \in 1 .. n /\ i + 1 # 1
    BY <1>2
  <1>5. EntriesIn(L) = EntriesIn(M) \cup {h}
    <2>1. ASSUME NEW i \in 1 .. n PROVE L[i] \in EntriesIn(M) \cup {h}
      <3>1. CASE i = 1
        BY <1>2, <3>1
      <3>2. CASE i # 1
        <4>1. PICK k \in 1 .. (n - 1) : M[k] = L[i]
          BY <1>3, <3>2
        <4> QED BY <1>2, <4>1 DEF EntriesIn
      <3> QED BY <3>1, <3>2
    <2>2. ASSUME NEW i \in 1 .. (n - 1) PROVE M[i] \in EntriesIn(L)
      <3>1. PICK k \in 1 .. n : M[i] = L[k]
        BY <1>2, <1>4
      <3> QED BY <1>2, <3>1 DEF EntriesIn
    <2>3. h \in EntriesIn(L)
      BY <1>2, <1>4 DEF EntriesIn
    <2>4. EntriesIn(L) \subseteq EntriesIn(M) \cup {h}
      BY <1>2, <2>1 DEF EntriesIn
    <2>5. EntriesIn(M) \subseteq EntriesIn(L)
      BY <1>2, <2>2 DEF EntriesIn
    <2> QED BY <2>3, <2>4, <2>5
  <1>6. CallsIn(L) = CallsIn(M) \cup {h.call}
    BY <1>5, CallsAreOfEntries
  <1>7. ASSUME OncePerCall(L) PROVE OncePerCall(M) /\ h.call \notin CallsIn(M)
    <2>1. OncePerCall(M)
      <3> SUFFICES ASSUME NEW i \in 1 .. (n - 1), NEW j \in 1 .. (n - 1), M[i].call = M[j].call PROVE i = j
        BY <1>2 DEF OncePerCall
      <3>1. PICK k \in 1 .. n : k = i + 1
        BY <1>4
      <3>2. PICK l \in 1 .. n : l = j + 1
        BY <1>4
      <3>3. L[k].call = L[l].call
        BY <1>2, <3>1, <3>2
      <3>4. k = l
        BY <1>2, <1>7, <3>3 DEF OncePerCall
      <3> QED BY <3>1, <3>2, <3>4
    <2>2. h.call \notin CallsIn(M)
      <3> SUFFICES ASSUME NEW i \in 1 .. (n - 1), M[i].call = h.call PROVE FALSE
        BY <1>2 DEF CallsIn
      <3>1. i + 1 = 1
        BY <1>2, <1>4, <1>7 DEF OncePerCall
      <3> QED BY <1>4, <3>1
    <2> QED BY <2>1, <2>2
  <1> QED BY <1>1, <1>2, <1>5, <1>6, <1>7

LEMMA JoinEntries ==
    ASSUME NEW S, NEW L \in Seq(S), NEW B \in Seq(S)
    PROVE  /\ L \o B \in Seq(S)
           /\ CallsIn(L \o B) = CallsIn(L) \cup CallsIn(B)
           /\ EntriesIn(L \o B) = EntriesIn(L) \cup EntriesIn(B)
           /\ OncePerCall(L) /\ OncePerCall(B) /\ CallsIn(L) \cap CallsIn(B) = {} => OncePerCall(L \o B)
  <1>1. PICK M, n, m : M = L \o B /\ n = Len(L) /\ m = Len(B)
    BY Zenon
  <1>2. /\ M \in Seq(S) /\ n \in Nat /\ m \in Nat /\ DOMAIN L = 1 .. n /\ DOMAIN B = 1 .. m
        /\ DOMAIN M = 1 .. (n + m)
        /\ \A i \in 1 .. (n + m) : M[i] = IF i <= n THEN L[i] ELSE B[i - n]
    BY <1>1
  <1>3. \A i \in 1 .. (n + m) : \/ i \in 1 .. n /\ M[i] = L[i]
                                \/ i > n /\ i - n \in 1 .. m /\ M[i] = B[i - n]
    BY <1>2
  <1>4. \A i \in 1 .. n : i \in 1 .. (n + m) /\ M[i] = L[i]
    BY <1>2
  <1>5. \A i \in 1 .. m : n + i \in 1 .. (n + m) /\ M[n + i] = B[i]
    BY <1>2
  <1>6. EntriesIn(M) = EntriesIn(L) \cup EntriesIn(B)
    <2>1. ASSUME NEW i \in 1 .. (n + m) PROVE M[i] \in EntriesIn(L) \cup EntriesIn(B)
      <3>1. CASE i \in 1 .. n
        BY <1>2, <1>4, <3>1 DEF EntriesIn
      <3>2. CASE i > n
        <4>1. PICK k \in 1 .. m : M[i] = B[k]
          BY <1>2, <1>3, <3>2
        <4> QED BY <1>2, <4>1 DEF EntriesIn
      <3> QED BY <1>3, <3>1, <3>2
    <2>2. ASSUME NEW i \in 1 .. n PROVE L[i] \in EntriesIn(M)
      BY <1>2, <1>4 DEF EntriesIn
    <2>3. ASSUME NEW i \in 1 .. m PROVE B[i] \in EntriesIn(M)
      <3>1. PICK k \in 1 .. (n + m) : M[k] = B[i]
        BY <1>5
      <3> QED BY <1>2, <3>1 DEF EntriesIn
    <2>4. EntriesIn(M) \subseteq EntriesIn(L) \cup EntriesIn(B)
      BY <1>2, <2>1 DEF EntriesIn
    <2>5. EntriesIn(L) \subseteq EntriesIn(M) /\ EntriesIn(B) \subseteq EntriesIn(M)
      BY <1>2, <2>2, <2>3 DEF EntriesIn
    <2> QED BY <2>4, <2>5
  <1>7. CallsIn(M) = CallsIn(L) \cup CallsIn(B)
    BY <1>6, CallsAreOfEntries
  <1>8. ASSUME OncePerCall(L), OncePerCall(B), CallsIn(L) \cap CallsIn(B) = {} PROVE OncePerCall(M)
    <2> SUFFICES ASSUME NEW i \in 1 .. (n + m), NEW j \in 1 .. (n + m), M[i].call = M[j].call PROVE i = j
      BY <1>2 DEF OncePerCall
    <2>1. (\A k \in 1 .. n : L[k].call \in CallsIn(L)) /\ (\A k \in 1 .. m : B[k].call \in CallsIn(B))
      BY <1>2 DEF CallsIn
    <2>2. CASE i \in 1 .. n /\ j \in 1 .. n
      BY <1>2, <1>4, <1>8, <2>2 DEF OncePerCall
    <2>3. CASE i > n /\ j > n
      <3>1. PICK k \in 1 .. m : k = i - n /\ M[i] = B[k]
        BY <1>2, <1>3, <2>3
      <3>2. PICK l \in 1 .. m : l = j - n /\ M[j] = B[l]
        BY <1>2, <1>3, <2>3
      <3>3. k = l
        BY <1>2, <1>8, <3>1, <3>2 DEF OncePerCall
      <3> QED BY <1>2, <3>1, <3>2, <3>3
    <2>4. CASE (i \in 1 .. n /\ j > n) \/ (i > n /\ j \in 1 .. n)
      BY <1>2, <1>3, <1>8, <2>1, <2>4
    <2> QED BY <1>2, <2>2, <2>3, <2>4
  <1> QED BY <1>1, <1>2, <1>6, <1>7, <1>8

LEMMA NoEntries == CallsIn(<<>>) = {} /\ EntriesIn(<<>>) = {} /\ OncePerCall(<<>>)
  BY DEF CallsIn, EntriesIn, OncePerCall

\* A new entry in the queue or among the lost ones, the step from queue to batch,
\* and a batch that is stored or lost.
LEMMA EntryQueued ==
    ASSUME NEW S, NEW q \in Seq(S), NEW b \in Seq(S), NEW s \in Seq(S), NEW d \in Seq(S), NEW e \in S,
           EachOnce(q, b, s, d), e.call \notin CallsOf(q, b, s, d)
    PROVE  /\ EachOnce(Append(q, e), b, s, d) /\ EachOnce(q, b, s, Append(d, e))
           /\ CallsOf(Append(q, e), b, s, d) = CallsOf(q, b, s, d) \cup {e.call}
           /\ CallsOf(q, b, s, Append(d, e)) = CallsOf(q, b, s, d) \cup {e.call}
           /\ EntriesOf(Append(q, e), b, s, d) = EntriesOf(q, b, s, d) \cup {e}
           /\ EntriesOf(q, b, s, Append(d, e)) = EntriesOf(q, b, s, d) \cup {e}
  BY AppendEntry DEF EachOnce, CallsOf, EntriesOf

LEMMA EntryTaken ==
    ASSUME NEW S, NEW q \in Seq(S), NEW b \in Seq(S), NEW s \in Seq(S), NEW d \in Seq(S), q # <<>>,
           EachOnce(q, b, s, d)
    PROVE  /\ Tail(q) \in Seq(S) /\ Append(b, Head(q)) \in Seq(S)
           /\ EachOnce(Tail(q), Append(b, Head(q)), s, d)
           /\ CallsOf(Tail(q), Append(b, Head(q)), s, d) = CallsOf(q, b, s, d)
           /\ EntriesOf(Tail(q), Append(b, Head(q)), s, d) = EntriesOf(q, b, s, d)
  <1>1. PICK t, h : t = Tail(q) /\ h = Head(q)
    BY Zenon
  <1>2. /\ t \in Seq(S) /\ h \in S /\ CallsIn(q) = CallsIn(t) \cup {h.call} /\ EntriesIn(q) = EntriesIn(t) \cup {h}
        /\ OncePerCall(t) /\ h.call \notin CallsIn(t)
    BY <1>1, TakeEntry DEF EachOnce
  <1>3. h.call \notin CallsIn(b)
    BY <1>2 DEF EachOnce
  <1>4. PICK a : a = Append(b, h)
    BY Zenon
  <1>5. /\ a \in Seq(S) /\ CallsIn(a) = CallsIn(b) \cup {h.call} /\ EntriesIn(a) = EntriesIn(b) \cup {h}
        /\ OncePerCall(a)
    BY <1>2, <1>3, <1>4, AppendEntry DEF EachOnce
  <1>6. EachOnce(t, a, s, d) /\ CallsOf(t, a, s, d) = CallsOf(q, b, s, d)
    BY <1>2, <1>5 DEF EachOnce, CallsOf
  <1>7. EntriesOf(t, a, s, d) = EntriesOf(q, b, s, d)
    BY <1>2, <1>5 DEF EntriesOf
  <1> QED BY <1>1, <1>2, <1>4, <1>5, <1>6, <1>7

LEMMA BatchWritten ==
    ASSUME NEW S, NEW q \in Seq(S), NEW b \in Seq(S), NEW s \in Seq(S), NEW d \in Seq(S),
           EachOnce(q, b, s, d)
    PROVE  /\ s \o b \in Seq(S) /\ d \o b \in Seq(S)
           /\ EachOnce(q, <<>>, s \o b, d) /\ EachOnce(q, <<>>, s, d \o b)
           /\ CallsOf(q, <<>>, s \o b, d) = CallsOf(q, b, s, d)
           /\ CallsOf(q, <<>>, s, d \o b) = CallsOf(q, b, s, d)
           /\ EntriesOf(q, <<>>, s \o b, d) = EntriesOf(q, b, s, d)
           /\ EntriesOf(q, <<>>, s, d \o b) = EntriesOf(q, b, s, d)
  <1>1. PICK x, y, z : x = s \o b /\ y = d \o b /\ z = <<>>
    BY Zenon
  <1>2. /\ x \in Seq(S) /\ CallsIn(x) = CallsIn(s) \cup CallsIn(b) /\ EntriesIn(x) = EntriesIn(s) \cup EntriesIn(b)
        /\ OncePerCall(x)
    BY <1>1, JoinEntries DEF EachOnce
  <1>3. /\ y \in Seq(S) /\ CallsIn(y) = CallsIn(d) \cup CallsIn(b) /\ EntriesIn(y) = EntriesIn(d) \cup EntriesIn(b)
        /\ OncePerCall(y)
    BY <1>1, JoinEntries DEF EachOnce
  <1>4. CallsIn(z) = {} /\ EntriesIn(z) = {} /\ OncePerCall(z)
    BY <1>1, NoEntries
  <1>5. EachOnce(q, z, x, d) /\ EachOnce(q, z, s, y)
    BY <1>2, <1>3, <1>4 DEF EachOnce
  <1>6. CallsOf(q, z, x, d) = CallsOf(q, b, s, d) /\ CallsOf(q, z, s, y) = CallsOf(q, b, s, d)
    BY <1>2, <1>3, <1>4 DEF CallsOf
  <1>7. EntriesOf(q, z, x, d) = EntriesOf(q, b, s, d) /\ EntriesOf(q, z, s, y) = EntriesOf(q, b, s, d)
    BY <1>2, <1>3, <1>4 DEF EntriesOf
  <1> QED BY <1>1, <1>2, <1>3, <1>5, <1>6, <1>7

LEMMA NoEntryYet == <<>> \in Seq(LogEvents)
  OBVIOUS

LEMMA IdleCall == NotMade \in CallRows /\ NotMade.at = "idle" /\ NotMade.transport = "none" /\ NotMade.body = "none"
  BY DEF NotMade, CallRows

LEMMA ProxyStarts == ProxyInit => ProxyInv
  <1> SUFFICES ASSUME ProxyInit PROVE ProxyInv
    OBVIOUS
  <1>1. ProxyTypes
    BY IdleCall DEF ProxyInit, ProxyTypes
  <1>2. StoppedLast /\ ClosedWhenDone /\ registry \subseteq issued /\ OwnSessions
    BY IdleCall DEF ProxyInit, StoppedLast, ClosedWhenDone, OwnSessions
  <1>3. logger.queue = <<>> /\ logger.batch = <<>> /\ stored = <<>> /\ dropped = <<>>
    BY DEF ProxyInit
  <1>4. Reached = {}
    BY IdleCall DEF ProxyInit, Reached
  <1>5. RecordSound
    BY <1>3, <1>4, NoEntries DEF RecordSound, EachOnce, CallsOf, EntriesOf
  <1> QED BY <1>1, <1>2, <1>5 DEF ProxyInv

\* The logger moves entries from one place to the next.
LEMMA LoggerMoves ==
    ASSUME ProxyInv, UNCHANGED <<registry, relay, issued, sent>>, ProxyTypes', StoppedLast',
           EachOnce(logger.queue, logger.batch, stored, dropped)',
           CallsOf(logger.queue, logger.batch, stored, dropped)' = CallsOf(logger.queue, logger.batch, stored, dropped),
           EntriesOf(logger.queue, logger.batch, stored, dropped)' = EntriesOf(logger.queue, logger.batch, stored, dropped)
    PROVE  ProxyInv'
  <1>1. Reached' = Reached /\ \A c : Outcome(c)' = Outcome(c)
    BY DEF Reached, Outcome
  <1>2. RecordSound'
    BY <1>1 DEF ProxyInv, RecordSound
  <1> QED BY <1>2 DEF ProxyInv, ClosedWhenDone, OwnSessions

LEMMA LoggerIs ==
    ASSUME ProxyInv
    PROVE  /\ logger.queue \in Seq(LogEvents) /\ logger.batch \in Seq(LogEvents)
           /\ logger.state \in {"running", "closing", "stopped"}
           /\ stored \in Seq(LogEvents) /\ dropped \in Seq(LogEvents)
           /\ EachOnce(logger.queue, logger.batch, stored, dropped)
  BY DEF ProxyInv, ProxyTypes, RecordSound

\* The logger with another queue, batch or state.
LEMMA LoggerRecords ==
    ASSUME ProxyInv, NEW q \in Seq(LogEvents), NEW b \in Seq(LogEvents)
    PROVE  /\ [logger EXCEPT !.queue = q, !.batch = b] \in
                 [queue : Seq(LogEvents), batch : Seq(LogEvents), state : {"running", "closing", "stopped"}]
           /\ [logger EXCEPT !.queue = q, !.batch = b].queue = q
           /\ [logger EXCEPT !.queue = q, !.batch = b].batch = b
           /\ [logger EXCEPT !.queue = q, !.batch = b].state = logger.state
  BY DEF ProxyInv, ProxyTypes

\* The batch b is written, or lost, and the queue is q by then.
LEMMA BatchInserted ==
    ASSUME ProxyInv, NEW q \in Seq(LogEvents), NEW b \in Seq(LogEvents), EachOnce(q, b, stored, dropped),
           CallsOf(q, b, stored, dropped) = CallsOf(logger.queue, logger.batch, stored, dropped),
           EntriesOf(q, b, stored, dropped) = EntriesOf(logger.queue, logger.batch, stored, dropped),
           InsertMCPToolCalls(b), UNCHANGED <<registry, relay, issued, sent>>,
           logger' \in [queue : Seq(LogEvents), batch : Seq(LogEvents), state : {"running", "closing", "stopped"}],
           logger'.queue = q, logger'.batch = <<>>, StoppedLast'
    PROVE  ProxyInv'
  <1>1. PICK s, d \in Seq(LogEvents) : s = stored /\ d = dropped
    BY LoggerIs
  <1>2. /\ s \o b \in Seq(LogEvents) /\ d \o b \in Seq(LogEvents)
        /\ EachOnce(q, <<>>, s \o b, d) /\ EachOnce(q, <<>>, s, d \o b)
        /\ CallsOf(q, <<>>, s \o b, d) = CallsOf(q, b, s, d)
        /\ CallsOf(q, <<>>, s, d \o b) = CallsOf(q, b, s, d)
        /\ EntriesOf(q, <<>>, s \o b, d) = EntriesOf(q, b, s, d)
        /\ EntriesOf(q, <<>>, s, d \o b) = EntriesOf(q, b, s, d)
    BY <1>1, BatchWritten
  <1>3. (stored' = s \o b /\ dropped' = d) \/ (stored' = s /\ dropped' = d \o b)
    BY <1>1 DEF InsertMCPToolCalls
  <1>4. /\ stored' \in Seq(LogEvents) /\ dropped' \in Seq(LogEvents)
        /\ EachOnce(logger'.queue, logger'.batch, stored', dropped')
        /\ CallsOf(logger'.queue, logger'.batch, stored', dropped') = CallsOf(q, b, s, d)
        /\ EntriesOf(logger'.queue, logger'.batch, stored', dropped') = EntriesOf(q, b, s, d)
    BY <1>1, <1>2, <1>3
  <1>5. ProxyTypes'
    BY <1>4 DEF ProxyInv, ProxyTypes
  <1>6. EachOnce(logger.queue, logger.batch, stored, dropped)'
    BY <1>4 DEF EachOnce, OncePerCall, CallsIn
  <1>7. /\ CallsOf(logger.queue, logger.batch, stored, dropped)' = CallsOf(q, b, s, d)
        /\ EntriesOf(logger.queue, logger.batch, stored, dropped)' = EntriesOf(q, b, s, d)
    BY <1>4 DEF CallsOf, CallsIn, EntriesOf, EntriesIn
  <1> QED BY <1>1, <1>5, <1>6, <1>7, LoggerMoves

LEMMA LoggerTakeKeeps == ASSUME ProxyInv, LoggerTake PROVE ProxyInv'
  <1>1. PICK q, b, s, d \in Seq(LogEvents) : q = logger.queue /\ b = logger.batch /\ s = stored /\ d = dropped
    BY LoggerIs
  <1>2. /\ logger.state \in {"running", "closing"} /\ q # <<>>
        /\ UNCHANGED <<registry, relay, issued, sent>>
    BY <1>1 DEF LoggerTake
  <1>3. PICK t, a : t = Tail(q) /\ a = Append(b, Head(q))
    BY Zenon
  <1>4. /\ t \in Seq(LogEvents) /\ a \in Seq(LogEvents) /\ EachOnce(t, a, s, d)
        /\ CallsOf(t, a, s, d) = CallsOf(q, b, s, d) /\ EntriesOf(t, a, s, d) = EntriesOf(q, b, s, d)
    BY <1>1, <1>2, <1>3, LoggerIs, EntryTaken
  <1>5. CASE logger' = [logger EXCEPT !.queue = Tail(@), !.batch = <<>>] /\ InsertMCPToolCalls(a)
    <2>1. PICK z \in Seq(LogEvents) : z = <<>>
      BY NoEntryYet
    <2>2. logger' = [logger EXCEPT !.queue = t, !.batch = z]
      BY <1>1, <1>3, <1>5, <2>1 DEF ProxyInv, ProxyTypes
    <2>3. /\ logger' \in [queue : Seq(LogEvents), batch : Seq(LogEvents), state : {"running", "closing", "stopped"}]
          /\ logger'.queue = t /\ logger'.batch = <<>> /\ logger'.state = logger.state
      BY <1>4, <2>1, <2>2, LoggerRecords
    <2>4. StoppedLast'
      BY <1>2, <2>3 DEF ProxyInv, StoppedLast
    <2> QED BY <1>1, <1>2, <1>4, <1>5, <2>3, <2>4, BatchInserted
  <1>6. CASE logger' = [logger EXCEPT !.queue = Tail(@), !.batch = a] /\ UNCHANGED <<stored, dropped>>
    <2>1. logger' = [logger EXCEPT !.queue = t, !.batch = a]
      BY <1>1, <1>3, <1>6 DEF ProxyInv, ProxyTypes
    <2>2. /\ logger' \in [queue : Seq(LogEvents), batch : Seq(LogEvents), state : {"running", "closing", "stopped"}]
          /\ logger'.queue = t /\ logger'.batch = a /\ logger'.state = logger.state
      BY <1>4, <2>1, LoggerRecords
    <2>3. StoppedLast'
      BY <1>2, <2>2 DEF ProxyInv, StoppedLast
    <2>4. ProxyTypes'
      BY <1>2, <1>6, <2>2 DEF ProxyInv, ProxyTypes
    <2>5. EachOnce(logger.queue, logger.batch, stored, dropped)'
      <3>1. EachOnce(logger'.queue, logger'.batch, stored', dropped')
        BY <1>1, <1>4, <1>6, <2>2
      <3> QED BY <3>1 DEF EachOnce, OncePerCall, CallsIn
    <2>6. /\ CallsOf(logger.queue, logger.batch, stored, dropped)' = CallsOf(t, a, s, d)
          /\ EntriesOf(logger.queue, logger.batch, stored, dropped)' = EntriesOf(t, a, s, d)
      BY <1>1, <1>6, <2>2 DEF CallsOf, CallsIn, EntriesOf, EntriesIn
    <2> QED BY <1>1, <1>2, <1>4, <2>3, <2>4, <2>5, <2>6, LoggerMoves
  <1> QED BY <1>1, <1>3, <1>5, <1>6 DEF LoggerTake

LEMMA LoggerTickKeeps == ASSUME ProxyInv, LoggerTick PROVE ProxyInv'
  <1>1. PICK q, b \in Seq(LogEvents) : q = logger.queue /\ b = logger.batch
    BY LoggerIs
  <1>2. /\ logger.state \in {"running", "closing"} /\ logger' = [logger EXCEPT !.batch = <<>>]
        /\ InsertMCPToolCalls(b) /\ UNCHANGED <<registry, relay, issued, sent>>
    BY <1>1 DEF LoggerTick
  <1>3. /\ logger' \in [queue : Seq(LogEvents), batch : Seq(LogEvents), state : {"running", "closing", "stopped"}]
        /\ logger'.queue = q /\ logger'.batch = <<>> /\ logger'.state = logger.state
    <2>1. PICK z \in Seq(LogEvents) : z = <<>>
      BY NoEntryYet
    <2>2. logger' = [logger EXCEPT !.queue = q, !.batch = z]
      BY <1>1, <1>2, <2>1 DEF ProxyInv, ProxyTypes
    <2> QED BY <2>1, <2>2, LoggerRecords
  <1>4. StoppedLast'
    BY <1>2, <1>3 DEF ProxyInv, StoppedLast
  <1> QED BY <1>1, <1>2, <1>3, <1>4, LoggerIs, BatchInserted

LEMMA LoggerDoneKeeps == ASSUME ProxyInv, LoggerDone PROVE ProxyInv'
  <1>1. PICK q, b \in Seq(LogEvents) : q = logger.queue /\ b = logger.batch
    BY LoggerIs
  <1>2. /\ logger.state = "closing" /\ q = <<>> /\ logger' = [logger EXCEPT !.state = "stopped", !.batch = <<>>]
        /\ UNCHANGED <<registry, relay, issued, sent>>
    BY <1>1 DEF LoggerDone
  <1>3. /\ logger' \in [queue : Seq(LogEvents), batch : Seq(LogEvents), state : {"running", "closing", "stopped"}]
        /\ logger'.queue = q /\ logger'.batch = <<>> /\ logger'.state = "stopped"
    BY <1>1, <1>2 DEF ProxyInv, ProxyTypes
  <1>4. StoppedLast'
    BY <1>2, <1>3 DEF ProxyInv, StoppedLast
  <1>5. CASE InsertMCPToolCalls(b)
    BY <1>1, <1>2, <1>3, <1>4, <1>5, LoggerIs, BatchInserted
  <1>6. CASE b = <<>> /\ UNCHANGED <<stored, dropped>>
    <2>1. logger'.queue = logger.queue /\ logger'.batch = logger.batch
      BY <1>1, <1>3, <1>6
    <2>2. EachOnce(logger.queue, logger.batch, stored, dropped)'
      <3>1. EachOnce(logger'.queue, logger'.batch, stored', dropped')
        BY <1>6, <2>1, LoggerIs
      <3> QED BY <3>1 DEF EachOnce, OncePerCall, CallsIn
    <2>3. /\ CallsOf(logger.queue, logger.batch, stored, dropped)' = CallsOf(logger.queue, logger.batch, stored, dropped)
          /\ EntriesOf(logger.queue, logger.batch, stored, dropped)'
                = EntriesOf(logger.queue, logger.batch, stored, dropped)
      BY <1>6, <2>1 DEF CallsOf, CallsIn, EntriesOf, EntriesIn
    <2>4. ProxyTypes'
      BY <1>2, <1>3, <1>6 DEF ProxyInv, ProxyTypes
    <2> QED BY <1>2, <1>4, <2>2, <2>3, <2>4, LoggerMoves
  <1> QED BY <1>1, <1>5, <1>6 DEF LoggerDone

LEMMA LoggerStopKeeps == ASSUME ProxyInv, LoggerStop PROVE ProxyInv'
  <1>1. /\ \A c \in ProxyCalls : relay[c].at \in {"idle", "done"}
        /\ logger' = [logger EXCEPT !.state = "closing"]
        /\ UNCHANGED <<registry, relay, stored, dropped, issued, sent>>
    BY DEF LoggerStop
  <1>2. /\ logger'.queue = logger.queue /\ logger'.batch = logger.batch /\ logger'.state = "closing"
        /\ logger' \in [queue : Seq(LogEvents), batch : Seq(LogEvents), state : {"running", "closing", "stopped"}]
    BY <1>1 DEF ProxyInv, ProxyTypes
  <1>3. EachOnce(logger.queue, logger.batch, stored, dropped)'
    <2>1. EachOnce(logger'.queue, logger'.batch, stored', dropped')
      BY <1>1, <1>2, LoggerIs
    <2> QED BY <2>1 DEF EachOnce, OncePerCall, CallsIn
  <1>4. /\ CallsOf(logger.queue, logger.batch, stored, dropped)' = CallsOf(logger.queue, logger.batch, stored, dropped)
        /\ EntriesOf(logger.queue, logger.batch, stored, dropped)'
              = EntriesOf(logger.queue, logger.batch, stored, dropped)
    BY <1>1, <1>2 DEF CallsOf, CallsIn, EntriesOf, EntriesIn
  <1>5. ProxyTypes' /\ StoppedLast'
    BY <1>1, <1>2 DEF ProxyInv, ProxyTypes, StoppedLast
  <1> QED BY <1>1, <1>3, <1>4, <1>5, LoggerMoves

\* A call moves that is not, and does not come, on the record.
LEMMA CallGoesOn ==
    ASSUME ProxyInv, NEW c \in ProxyCalls, NEW x \in CallRows, relay' = [relay EXCEPT ![c] = x],
           c \notin Reached, x.at # "done" \/ x.reply \in {"builtin", "refused"},
           logger.state = "running" \/ x.at \in {"idle", "done"},
           x.at \in {"forward", "stream"} => x.transport # "closed",
           x.at = "done" => x.transport # "open" /\ x.body # "open",
           UNCHANGED <<logger, stored, dropped>>, registry' \subseteq issued', sent' \subseteq issued'
    PROVE  ProxyInv'
  <1>1. relay'[c] = x /\ \A d \in ProxyCalls : d # c => relay'[d] = relay[d]
    BY DEF ProxyInv, ProxyTypes
  <1>2. ProxyTypes'
    BY DEF ProxyInv, ProxyTypes
  <1>3. StoppedLast'
    BY <1>1 DEF ProxyInv, StoppedLast
  <1>4. ClosedWhenDone'
    BY <1>1 DEF ProxyInv, ClosedWhenDone
  <1>5. Reached' = Reached /\ \A d \in Reached : Outcome(d)' = Outcome(d)
    BY <1>1 DEF Reached, Outcome
  <1>6. EachOnce(logger.queue, logger.batch, stored, dropped)'
    <2>1. EachOnce(logger'.queue, logger'.batch, stored', dropped')
      BY LoggerIs
    <2> QED BY <2>1 DEF EachOnce, OncePerCall, CallsIn
  <1>7. /\ CallsOf(logger.queue, logger.batch, stored, dropped)' = CallsOf(logger.queue, logger.batch, stored, dropped)
        /\ EntriesOf(logger.queue, logger.batch, stored, dropped)'
              = EntriesOf(logger.queue, logger.batch, stored, dropped)
    BY DEF CallsOf, CallsIn, EntriesOf, EntriesIn
  <1>8. \A e \in EntriesOf(logger.queue, logger.batch, stored, dropped) : e.call \in Reached
    BY CallsAreOfEntries DEF ProxyInv, RecordSound, CallsOf, EntriesOf
  <1>9. RecordSound'
    BY <1>5, <1>6, <1>7, <1>8 DEF ProxyInv, RecordSound
  <1> QED BY <1>2, <1>3, <1>4, <1>9 DEF ProxyInv, OwnSessions

\* A call ends that had reached its server, and is logged.
LEMMA CallLogged ==
    ASSUME ProxyInv, NEW c \in ProxyCalls, NEW x \in CallRows, relay' = [relay EXCEPT ![c] = x],
           c \notin Reached, x.at = "done", x.reply \in {"whole", "bad_gateway", "cut"},
           x.transport # "open", x.body # "open", NEW e \in LogEvents, e.call = c,
           e.status = IF x.reply = "whole" THEN "success" ELSE "transport_error",
           Log(e), UNCHANGED stored, registry' \subseteq issued', sent' \subseteq issued',
           logger.state = "running"
    PROVE  ProxyInv'
  <1>1. relay'[c] = x /\ \A d \in ProxyCalls : d # c => relay'[d] = relay[d]
    BY DEF ProxyInv, ProxyTypes
  <1>2. ClosedWhenDone'
    BY <1>1 DEF ProxyInv, ClosedWhenDone
  <1>3. Reached' = Reached \cup {c} /\ \A d \in Reached : Outcome(d)' = Outcome(d)
    BY <1>1 DEF Reached, Outcome
  <1>4. Outcome(c)' = e.status
    BY <1>1 DEF Outcome
  <1>5. PICK q, b, s, d \in Seq(LogEvents) : q = logger.queue /\ b = logger.batch /\ s = stored /\ d = dropped
    BY LoggerIs
  <1>6. EachOnce(q, b, s, d) /\ CallsOf(q, b, s, d) = Reached
    BY <1>5 DEF ProxyInv, RecordSound
  <1>7. /\ EachOnce(Append(q, e), b, s, d) /\ EachOnce(q, b, s, Append(d, e))
        /\ CallsOf(Append(q, e), b, s, d) = CallsOf(q, b, s, d) \cup {e.call}
        /\ CallsOf(q, b, s, Append(d, e)) = CallsOf(q, b, s, d) \cup {e.call}
        /\ EntriesOf(Append(q, e), b, s, d) = EntriesOf(q, b, s, d) \cup {e}
        /\ EntriesOf(q, b, s, Append(d, e)) = EntriesOf(q, b, s, d) \cup {e}
    BY <1>6, EntryQueued
  <1>8. /\ Append(q, e) \in Seq(LogEvents) /\ Append(d, e) \in Seq(LogEvents)
    BY AppendEntry
  <1>9. PICK n, m : n = Append(q, e) /\ m = Append(d, e)
    BY Zenon
  <1>10. /\ logger' \in [queue : Seq(LogEvents), batch : Seq(LogEvents), state : {"running", "closing", "stopped"}]
         /\ logger'.batch = b /\ logger'.state = "running"
         /\ \/ logger'.queue = n /\ dropped' = d
            \/ logger'.queue = q /\ dropped' = m
    <2>1. CASE Len(logger.queue) < BufferSize
      <3>1. logger' = [logger EXCEPT !.queue = n, !.batch = b] /\ dropped' = d
        BY <1>5, <1>9, <2>1 DEF Log, LogTo, ProxyInv, ProxyTypes
      <3>2. n \in Seq(LogEvents)
        BY <1>8, <1>9
      <3> QED BY <3>1, <3>2, LoggerRecords
    <2>2. CASE ~(Len(logger.queue) < BufferSize)
      BY <1>5, <1>9, <2>2 DEF Log, LogTo, ProxyInv, ProxyTypes
    <2> QED BY <2>1, <2>2
  <1>11. /\ EachOnce(logger'.queue, logger'.batch, stored', dropped')
         /\ CallsOf(logger'.queue, logger'.batch, stored', dropped') = CallsOf(q, b, s, d) \cup {c}
         /\ EntriesOf(logger'.queue, logger'.batch, stored', dropped') = EntriesOf(q, b, s, d) \cup {e}
    BY <1>5, <1>7, <1>9, <1>10
  <1>12. EachOnce(logger.queue, logger.batch, stored, dropped)'
    BY <1>11 DEF EachOnce, OncePerCall, CallsIn
  <1>13. /\ CallsOf(logger.queue, logger.batch, stored, dropped)' = CallsOf(q, b, s, d) \cup {c}
         /\ EntriesOf(logger.queue, logger.batch, stored, dropped)' = EntriesOf(q, b, s, d) \cup {e}
    BY <1>11 DEF CallsOf, CallsIn, EntriesOf, EntriesIn
  <1>14. \A f \in EntriesOf(q, b, s, d) : f.call \in Reached /\ f.status = Outcome(f.call)
    BY <1>5, CallsAreOfEntries DEF ProxyInv, RecordSound, CallsOf, EntriesOf
  <1>15. RecordSound'
    BY <1>3, <1>4, <1>6, <1>12, <1>13, <1>14 DEF RecordSound
  <1>16. ProxyTypes'
    <2>1. stored' \in Seq(LogEvents) /\ dropped' \in Seq(LogEvents)
      BY <1>5, <1>8, <1>9, <1>10
    <2> QED BY <1>10, <2>1 DEF ProxyInv, ProxyTypes
  <1>17. StoppedLast'
    BY <1>10 DEF StoppedLast
  <1> QED BY <1>2, <1>15, <1>16, <1>17 DEF ProxyInv, OwnSessions

\* The handler's end of a call that is under way.
LEMMA CallEnds ==
    ASSUME ProxyInv, NEW c \in ProxyCalls, relay[c].at \in {"forward", "stream"},
           NEW reply \in {"whole", "bad_gateway", "cut"}, EndCall(c, reply), NEW status,
           status = (IF reply = "whole" THEN "success" ELSE "transport_error"),
           recordMCPForwardOutcome(c, status), UNCHANGED stored,
           registry' \subseteq issued', sent' \subseteq issued'
    PROVE  ProxyInv'
  <1>1. PICK z \in CallRows : z = relay[c]
    BY DEF ProxyInv, ProxyTypes
  <1>2. PICK t, b : t = CloseAdHoc(z.transport) /\ b = IF z.body = "open" THEN "closed" ELSE z.body
    BY Zenon
  <1>3. PICK x : x = [z EXCEPT !.at = "done", !.reply = reply, !.transport = t, !.body = b]
    BY Zenon
  <1>4. relay' = [relay EXCEPT ![c] = x]
    BY <1>1, <1>2, <1>3 DEF EndCall, ProxyInv, ProxyTypes
  <1>5. t \in {"none", "shared", "closed"} /\ b \in {"none", "closed"}
    BY <1>1, <1>2 DEF CallRows, CloseAdHoc
  <1>6. x \in CallRows /\ x.at = "done" /\ x.reply = reply /\ x.transport = t /\ x.body = b
    BY <1>3, <1>5 DEF CallRows
  <1>7. PICK e : e = [call |-> c, status |-> status]
    BY Zenon
  <1>8. e \in LogEvents /\ e.call = c /\ e.status = status /\ Log(e)
    BY <1>7 DEF LogEvents, recordMCPForwardOutcome
  <1>9. c \notin Reached /\ logger.state = "running"
    BY LoggerIs DEF Reached, ProxyInv, StoppedLast
  <1> QED BY <1>4, <1>5, <1>6, <1>8, <1>9, CallLogged

\* Who is told of a session is remembered for no more than that.
LEMMA Mirrored ==
    ASSUME ProxyInv, NEW c \in ProxyCalls, NEW ans,
           mirrorMCPResponseHeaders(c, ans) \/ UNCHANGED <<registry, issued>>, UNCHANGED sent
    PROVE  registry' \subseteq issued' /\ sent' \subseteq issued'
  BY DEF ProxyInv, OwnSessions, mirrorMCPResponseHeaders, NewClientSessionScope

LEMMA ResolvedAmongRows == ASSUME NEW req PROVE Resolved(req) \subseteq ServerRows
  BY DEF Resolved, ResolveForCall, CacheGet, At, LoadAllActiveMCPServers, GetMCPServerByAliasScoped,
         ListMCPServersByTeam

\* A call that is answered at once.
LEMMA AnsweredAtOnce ==
    ASSUME ProxyInv, NEW c \in ProxyCalls, relay[c].at = "idle", NEW req \in Requests,
           NEW t \in {"none", "shared", "closed"}, NEW reply \in {"builtin", "refused"},
           Answered(c, req, t, reply), UNCHANGED <<registry, logger, stored, dropped, issued, sent>>
    PROVE  ProxyInv'
  <1>1. PICK x : x = [NotMade EXCEPT !.at = "done", !.req = req, !.transport = t, !.reply = reply]
    BY Zenon
  <1>2. x \in CallRows /\ x.at = "done" /\ x.reply = reply /\ x.transport = t /\ x.body = "none"
    BY <1>1 DEF NotMade, CallRows
  <1>3. relay' = [relay EXCEPT ![c] = x]
    BY <1>1 DEF Answered
  <1>4. c \notin Reached
    BY DEF Reached
  <1>5. registry' \subseteq issued' /\ sent' \subseteq issued'
    BY DEF ProxyInv, OwnSessions
  <1> QED BY <1>2, <1>3, <1>4, <1>5, CallGoesOn

LEMMA ForwardIs ==
    ASSUME NEW r \in Requests, NEW i \in CalledIds, NEW t \in {"shared", "open"}
    PROVE  /\ [NotMade EXCEPT !.at = "forward", !.req = r, !.id = i, !.transport = t] \in CallRows
           /\ [NotMade EXCEPT !.at = "forward", !.req = r, !.id = i, !.transport = t].at = "forward"
           /\ [NotMade EXCEPT !.at = "forward", !.req = r, !.id = i, !.transport = t].transport = t
  BY DEF NotMade, CallRows

LEMMA BeginCallKeeps == ASSUME ProxyInv, NEW c \in ProxyCalls, BeginCall(c) PROVE ProxyInv'
  <1>1. relay[c].at = "idle" /\ logger.state = "running" /\ UNCHANGED <<registry, logger, stored, dropped, issued>>
    BY DEF BeginCall
  <1>2. PICK req \in Requests :
            \/ Answered(c, req, "none", "builtin") /\ UNCHANGED sent
            \/ Answered(c, req, "none", "refused") /\ UNCHANGED sent
            \/ \E sv \in Resolved(req) :
                  LET t == TransportFor(sv.id)
                      sid == IF req.kind = "proxy" THEN SessionToForward(req, sv.id) ELSE {}
                  IN IF t = "none" \/ BadRequest(req, sv)
                     THEN Answered(c, req, CloseAdHoc(t), "refused") /\ UNCHANGED sent
                     ELSE /\ relay' = [relay EXCEPT ![c] = [NotMade EXCEPT !.at = "forward", !.req = req,
                                                                  !.id = sv.id, !.transport = t]]
                          /\ sent' = sent \cup {<<sv.id, <<req.ki.org, req.ki.key>>, s>> : s \in sid}
    BY DEF BeginCall
  <1>3. CASE Answered(c, req, "none", "builtin") /\ UNCHANGED sent
    BY <1>1, <1>3, AnsweredAtOnce
  <1>4. CASE Answered(c, req, "none", "refused") /\ UNCHANGED sent
    BY <1>1, <1>4, AnsweredAtOnce
  <1>5. ASSUME NEW sv \in Resolved(req), NEW t, t = TransportFor(sv.id),
               Answered(c, req, CloseAdHoc(t), "refused"), UNCHANGED sent
        PROVE  ProxyInv'
    <2>1. PICK u : u = CloseAdHoc(t)
      BY Zenon
    <2>2. u \in {"none", "shared", "closed"}
      BY <1>5, <2>1 DEF TransportFor, buildAdHocTransport, CloseAdHoc
    <2>3. Answered(c, req, u, "refused")
      BY <1>5, <2>1
    <2> QED BY <1>1, <1>5, <2>2, <2>3, AnsweredAtOnce
  <1>6. ASSUME NEW sv \in Resolved(req), NEW t, t = TransportFor(sv.id), t # "none", NEW sid,
               sid = (IF req.kind = "proxy" THEN SessionToForward(req, sv.id) ELSE {}),
               relay' = [relay EXCEPT ![c] = [NotMade EXCEPT !.at = "forward", !.req = req,
                                                   !.id = sv.id, !.transport = t]],
               sent' = sent \cup {<<sv.id, <<req.ki.org, req.ki.key>>, s>> : s \in sid}
        PROVE  ProxyInv'
    <2>1. PICK i \in CalledIds : i = sv.id
      BY ResolvedAmongRows DEF CalledIds
    <2>2. t \in {"shared", "open"}
      BY <1>6 DEF TransportFor, buildAdHocTransport
    <2>3. PICK x : x = [NotMade EXCEPT !.at = "forward", !.req = req, !.id = i, !.transport = t]
      BY Zenon
    <2>4. x \in CallRows /\ x.at = "forward" /\ x.transport = t
      BY <2>2, <2>3, ForwardIs
    <2>5. relay' = [relay EXCEPT ![c] = x]
      BY <1>6, <2>1, <2>3
    <2>6. c \notin Reached
      BY <1>1 DEF Reached
    <2>7. \A s \in sid : <<sv.id, <<req.ki.org, req.ki.key>>, s>> \in registry
      BY <1>6 DEF SessionToForward, KnownSession, NewClientSessionScope
    <2>8. registry' \subseteq issued' /\ sent' \subseteq issued'
      BY <1>1, <1>6, <2>7 DEF ProxyInv, OwnSessions
    <2> QED BY <1>1, <2>2, <2>4, <2>5, <2>6, <2>8, CallGoesOn
  <1> QED BY <1>2, <1>3, <1>4, <1>5, <1>6

LEMMA Unmirrored ==
    ASSUME ProxyInv, UNCHANGED <<registry, issued, sent>> PROVE registry' \subseteq issued' /\ sent' \subseteq issued'
  BY DEF ProxyInv, OwnSessions

\* The ways a call that was sent comes to its end.
LEMMA EndsKeep ==
    ASSUME ProxyInv, NEW c \in ProxyCalls,
           ForwardFails(c) \/ ToolReturns(c) \/ CopyFails(c) \/ CopyEnds(c) \/ NoBody(c)
    PROVE  ProxyInv'
  <1>1. /\ relay[c].at \in {"forward", "stream"} /\ UNCHANGED <<registry, stored, issued, sent>>
        /\ \E reply \in {"whole", "bad_gateway", "cut"} :
              /\ EndCall(c, reply)
              /\ recordMCPForwardOutcome(c, IF reply = "whole" THEN "success" ELSE "transport_error")
    <2>1. CASE ForwardFails(c)
      BY <2>1 DEF ForwardFails
    <2>2. CASE ToolReturns(c)
      BY <2>2 DEF ToolReturns
    <2>3. CASE CopyFails(c)
      BY <2>3 DEF CopyFails
    <2>4. CASE CopyEnds(c)
      BY <2>4 DEF CopyEnds
    <2>5. CASE NoBody(c)
      <3>1. PICK ans \in Answers :
                /\ relay[c].at = "forward" /\ ans.status \in {202, 300}
                /\ EndCall(c, IF ans.status = 202 THEN "whole" ELSE "bad_gateway")
                /\ recordMCPForwardOutcome(c, IF ans.status = 202 THEN "success" ELSE "transport_error")
                /\ UNCHANGED <<registry, stored, issued, sent>>
        BY <2>5 DEF NoBody
      <3>2. CASE ans.status = 202
        BY <3>1, <3>2
      <3>3. CASE ans.status # 202
        BY <3>1, <3>3
      <3> QED BY <3>2, <3>3
    <2> QED BY <2>1, <2>2, <2>3, <2>4, <2>5
  <1>2. PICK reply \in {"whole", "bad_gateway", "cut"} :
            /\ EndCall(c, reply)
            /\ recordMCPForwardOutcome(c, IF reply = "whole" THEN "success" ELSE "transport_error")
    BY <1>1
  <1>3. PICK status : status = IF reply = "whole" THEN "success" ELSE "transport_error"
    BY Zenon
  <1>4. recordMCPForwardOutcome(c, status)
    BY <1>2, <1>3
  <1> QED BY <1>1, <1>2, <1>3, <1>4, Unmirrored, CallEnds

LEMMA WrappedKeeps == ASSUME ProxyInv, NEW c \in ProxyCalls, sendLegacySSEWrapped(c) PROVE ProxyInv'
  <1>1. PICK ans \in Answers :
            /\ relay[c].at = "forward" /\ UNCHANGED <<stored, sent>>
            /\ \/ /\ EndCall(c, "bad_gateway") /\ recordMCPForwardOutcome(c, "transport_error")
                  /\ UNCHANGED <<registry, issued>>
               \/ /\ EndCall(c, "whole") /\ recordMCPForwardOutcome(c, "success")
                  /\ mirrorMCPResponseHeaders(c, ans)
    BY DEF sendLegacySSEWrapped
  <1>2. registry' \subseteq issued' /\ sent' \subseteq issued'
    BY <1>1, Mirrored
  <1>3. PICK reply \in {"whole", "bad_gateway", "cut"} :
            /\ EndCall(c, reply)
            /\ recordMCPForwardOutcome(c, IF reply = "whole" THEN "success" ELSE "transport_error")
    BY <1>1
  <1>4. PICK status : status = IF reply = "whole" THEN "success" ELSE "transport_error"
    BY Zenon
  <1>5. recordMCPForwardOutcome(c, status)
    BY <1>3, <1>4
  <1> QED BY <1>1, <1>2, <1>3, <1>4, <1>5, CallEnds

\* The handler returns, and the writer goes on with the transport.
LEMMA PassThroughKeeps == ASSUME ProxyInv, NEW c \in ProxyCalls, PassThrough(c) PROVE ProxyInv'
  <1>1. PICK ans \in Answers :
            /\ relay[c].at = "forward" /\ mirrorMCPResponseHeaders(c, ans) /\ ReturnStreaming(c, ans)
            /\ UNCHANGED <<logger, stored, dropped, sent>>
    BY DEF PassThrough
  <1>2. PICK z \in CallRows : z = relay[c]
    BY DEF ProxyInv, ProxyTypes
  <1>3. PICK x : x = [z EXCEPT !.at = "stream", !.answer = ans, !.body = "open"]
    BY Zenon
  <1>4. x \in CallRows /\ x.at = "stream" /\ x.transport = z.transport
    BY <1>3 DEF CallRows
  <1>5. relay' = [relay EXCEPT ![c] = x]
    BY <1>1, <1>2, <1>3 DEF ReturnStreaming, ProxyInv, ProxyTypes
  <1>6. z.transport # "closed"
    BY <1>1, <1>2 DEF ProxyInv, ClosedWhenDone
  <1>7. c \notin Reached /\ logger.state = "running"
    BY <1>1, LoggerIs DEF Reached, ProxyInv, StoppedLast
  <1>8. registry' \subseteq issued' /\ sent' \subseteq issued'
    BY <1>1, Mirrored
  <1> QED BY <1>1, <1>4, <1>5, <1>6, <1>7, <1>8, CallGoesOn

LEMMA WriteKeeps == ASSUME ProxyInv, NEW c \in ProxyCalls, flushingWriterWrite(c) PROVE ProxyInv'
  <1>1. /\ relay[c].at = "stream" /\ relay' = [relay EXCEPT ![c].got = @ + 1]
        /\ UNCHANGED <<registry, logger, stored, dropped, issued, sent>>
    BY DEF flushingWriterWrite
  <1>2. PICK z \in CallRows : z = relay[c]
    BY DEF ProxyInv, ProxyTypes
  <1>3. PICK x : x = [z EXCEPT !.got = @ + 1]
    BY Zenon
  <1>4. x \in CallRows /\ x.at = "stream" /\ x.transport = z.transport
    BY <1>1, <1>2, <1>3 DEF CallRows
  <1>5. relay' = [relay EXCEPT ![c] = x]
    BY <1>1, <1>2, <1>3 DEF ProxyInv, ProxyTypes
  <1>6. z.transport # "closed"
    BY <1>1, <1>2 DEF ProxyInv, ClosedWhenDone
  <1>7. c \notin Reached /\ logger.state = "running"
    BY <1>1, LoggerIs DEF Reached, ProxyInv, StoppedLast
  <1> QED BY <1>1, <1>4, <1>5, <1>6, <1>7, Unmirrored, CallGoesOn

\* Nothing of the calls or the record changes.
LEMMA ProxyStutter ==
    ASSUME ProxyInv, UNCHANGED <<relay, logger, stored, dropped, issued, sent>>, registry' \subseteq registry
    PROVE  ProxyInv'
  <1>1. ProxyTypes' /\ StoppedLast' /\ ClosedWhenDone'
    BY DEF ProxyInv, ProxyTypes, StoppedLast, ClosedWhenDone
  <1>2. Reached' = Reached /\ \A c : Outcome(c)' = Outcome(c)
    BY DEF Reached, Outcome
  <1>3. EachOnce(logger.queue, logger.batch, stored, dropped)'
    <2>1. EachOnce(logger'.queue, logger'.batch, stored', dropped')
      BY LoggerIs
    <2> QED BY <2>1 DEF EachOnce, OncePerCall, CallsIn
  <1>4. /\ CallsOf(logger.queue, logger.batch, stored, dropped)' = CallsOf(logger.queue, logger.batch, stored, dropped)
        /\ EntriesOf(logger.queue, logger.batch, stored, dropped)'
              = EntriesOf(logger.queue, logger.batch, stored, dropped)
    BY DEF CallsOf, CallsIn, EntriesOf, EntriesIn
  <1>5. RecordSound'
    BY <1>2, <1>3, <1>4 DEF ProxyInv, RecordSound
  <1> QED BY <1>1, <1>5 DEF ProxyInv, OwnSessions

LEMMA ProxyStep == ProxyInv /\ [ProxyNext]_proxyVars => ProxyInv'
  <1> SUFFICES ASSUME ProxyInv, [ProxyNext]_proxyVars PROVE ProxyInv'
    OBVIOUS
  <1>1. CASE UNCHANGED proxyVars \/ ReloadTransports \/ Evict
    BY <1>1, ProxyStutter DEF proxyVars, ReloadTransports, Evict
  <1>2. CASE LoggerTake \/ LoggerTick \/ LoggerStop \/ LoggerDone
    BY <1>2, LoggerTakeKeeps, LoggerTickKeeps, LoggerStopKeeps, LoggerDoneKeeps
  <1>3. ASSUME NEW c \in ProxyCalls,
               \/ BeginCall(c) \/ ForwardFails(c) \/ ToolReturns(c) \/ NoBody(c)
               \/ sendLegacySSEWrapped(c) \/ PassThrough(c)
               \/ flushingWriterWrite(c) \/ CopyFails(c) \/ CopyEnds(c)
        PROVE  ProxyInv'
    BY <1>3, BeginCallKeeps, EndsKeep, WrappedKeeps, PassThroughKeeps, WriteKeeps
  <1> QED BY <1>1, <1>2, <1>3 DEF ProxyNext

\* Calls, record, transports and sessions of the proxy keep their invariant.
THEOREM ProxyInvariance == ProxySpec => []ProxyInv
  BY ProxyStarts, ProxyStep, PTL DEF ProxySpec

\* Every call that reached its server is on the record once, as it ended, wherever
\* the logger has it by now, and nothing it opened stays open
\* (HandleMCPProxy, CallMCPTool, MCPLogger).
THEOREM CallsAreAccounted == ProxySpec => []Accounted
  <1>1. ProxyInv => OnTheRecord
    <2> SUFFICES ASSUME ProxyInv PROVE OnTheRecord
      OBVIOUS
    <2>1. PICK q, b, s, d : q = logger.queue /\ b = logger.batch /\ s = stored /\ d = dropped
      BY Zenon
    <2>2. DOMAIN Logs = 1 .. 4 /\ Logs[1] = q /\ Logs[2] = b /\ Logs[3] = s /\ Logs[4] = d
      BY <2>1 DEF Logs
    <2>3. EachOnce(q, b, s, d) /\ CallsOf(q, b, s, d) = Reached
      BY <2>1 DEF ProxyInv, RecordSound
    <2>4. \A k \in 1 .. 4 : k = 1 \/ k = 2 \/ k = 3 \/ k = 4
      OBVIOUS
    <2>5. UNION {CallsIn(Logs[k]) : k \in DOMAIN Logs} = Reached
      BY <2>2, <2>3, <2>4 DEF CallsOf
    <2>6. \A k \in DOMAIN Logs : OncePerCall(Logs[k])
      BY <2>2, <2>3, <2>4 DEF EachOnce
    <2>7. \A k, l \in DOMAIN Logs : k # l => CallsIn(Logs[k]) \cap CallsIn(Logs[l]) = {}
      BY <2>2, <2>3, <2>4 DEF EachOnce
    <2>8. \A k \in DOMAIN Logs : \A i \in DOMAIN Logs[k] : Logs[k][i].status = Outcome(Logs[k][i].call)
      <3>1. \A e \in EntriesOf(q, b, s, d) : e.status = Outcome(e.call)
        BY <2>1 DEF ProxyInv, RecordSound
      <3>2. \A k \in DOMAIN Logs : EntriesIn(Logs[k]) \subseteq EntriesOf(q, b, s, d)
        BY <2>2, <2>4 DEF EntriesOf
      <3> QED BY <3>1, <3>2 DEF EntriesIn
    <2> QED BY <2>5, <2>6, <2>7, <2>8 DEF OnTheRecord, ProxyInv, StoppedLast
  <1>2. ProxyInv => Accounted
    BY <1>1 DEF Accounted, ProxyInv
  <1> QED BY <1>2, ProxyInvariance, PTL

\* A caller's session id is forwarded only to the server that gave it to that key
\* of that organisation (HandleMCPProxy).
THEOREM SessionsAreTheCallers == ProxySpec => []OwnSessions
  <1>1. ProxyInv => OwnSessions
    BY DEF ProxyInv
  <1> QED BY <1>1, ProxyInvariance, PTL
=============================================================================
