----------------------------- MODULE LiveProofs -----------------------------
(***************************************************************************)
(* Proofs about the key cache, for any instances, keys and requests, and   *)
(* about the upstream listeners, for any number of starts.                 *)
(***************************************************************************)
EXTENDS ListenManager, KeyCache, TLAPS

-----------------------------------------------------------------------------
(* The key cache.                                                          *)

\* What a request carries to its next step has been active where it may reach
\* the cache.
Sound(t) ==
    t # Idle =>
        /\ t.pc = "apply" /\ t.seen \in {"live", "grace"} => t.key \in active
        /\ t.pc = "setold" => t.old \in active
        /\ t.pc = "write" /\ t.kind = "rotate" => t.seen \in {"live", "grace", "expired"}

\* Whatever is, or may come to be, in a cache was active.
Vouched ==
    /\ \A k \in Keys : Active(k) # "none" => k \in active
    /\ \A n \in Nodes, k \in Keys : cache[n][k] # "none" => k \in active
    /\ \A n \in Nodes, k \in Keys : snap[n][k] \notin {"none", "off"} => k \in active
    /\ \A a \in Admins : Sound(op[a])

KeyInv == KeyTypeOK /\ Vouched

LEMMA KeyInitInv == KeyInit => KeyInv
  <1> SUFFICES ASSUME KeyInit PROVE KeyInv
    OBVIOUS
  <1>1. KeyTypeOK
    <2>1. rec \in [Keys -> Standings] /\ cache \in [Nodes -> [Keys -> Cached]]
      BY DEF KeyInit, Standings, Cached
    <2>2. snap \in [Nodes -> [Keys -> Cached] \cup {Off}] /\ op \in [Admins -> Tasks \cup {Idle}]
      BY DEF KeyInit
    <2>3. <<>> \in Seq(Keys) /\ {} \in SUBSET Keys
      OBVIOUS
    <2>4. msgs \in [Nodes -> Seq(Keys)] /\ revoked \in [Nodes -> SUBSET Keys]
      BY <2>3 DEF KeyInit
    <2>5. ops \in 0 .. MaxOps
      BY KeyAssumption DEF KeyInit
    <2>6. ownerGone \in BOOLEAN
      BY DEF KeyInit
    <2>7. elapsed \subseteq Keys /\ active \subseteq Keys
      BY KeyAssumption DEF KeyInit
    <2> QED  BY <2>1, <2>2, <2>4, <2>5, <2>6, <2>7 DEF KeyTypeOK
  <1>2. Vouched
    BY DEF KeyInit, Vouched, Sound, Active, Standing, Off
  <1> QED  BY <1>1, <1>2 DEF KeyInv

LEMMA ActiveTyped ==
    ASSUME KeyTypeOK, NEW k \in Keys
    PROVE  Active(k) \in Cached
  BY DEF KeyTypeOK, Active, Standing, Cached, Standings

\* A step that replaces the task of one request.
LEMMA TaskTaken ==
    ASSUME KeyInv, NEW a \in Admins, NEW t \in Tasks \cup {Idle}, op' = [op EXCEPT ![a] = t],
           active \subseteq active',
           t # Idle =>
             /\ t.pc = "apply" /\ t.seen \in {"live", "grace"} => t.key \in active'
             /\ t.pc = "setold" => t.old \in active'
             /\ t.pc = "write" /\ t.kind = "rotate" => t.seen \in {"live", "grace", "expired"}
    PROVE  op' \in [Admins -> Tasks \cup {Idle}] /\ \A b \in Admins : Sound(op[b])'
  <1>1. op \in [Admins -> Tasks \cup {Idle}] /\ \A b \in Admins : Sound(op[b])
    BY DEF KeyInv, KeyTypeOK, Vouched
  <1>2. \A b \in Admins : op'[b] = IF b = a THEN t ELSE op[b]
    BY <1>1
  <1>3. op' \in [Admins -> Tasks \cup {Idle}]
    BY <1>1
  <1>4. ASSUME NEW b \in Admins PROVE Sound(op[b])'
    <2>1. CASE b = a
      BY <1>2, <2>1 DEF Sound
    <2>2. CASE b # a
      BY <1>1, <1>2, <2>2 DEF Sound
    <2> QED  BY <2>1, <2>2
  <1> QED  BY <1>3, <1>4

LEMMA TaskKept ==
    ASSUME KeyInv, UNCHANGED op, active \subseteq active'
    PROVE  op' \in [Admins -> Tasks \cup {Idle}] /\ \A b \in Admins : Sound(op[b])'
  BY DEF KeyInv, KeyTypeOK, Vouched, Sound

\* A statement on the table.
LEMMA RowWritten ==
    ASSUME KeyInv, NEW r \in [Keys -> Standings], WriteRow(r)
    PROVE  /\ rec' \in [Keys -> Standings] /\ active \subseteq active' /\ active' \subseteq Keys
           /\ \A k \in Keys : Active(k)' # "none" => k \in active'
           /\ UNCHANGED <<ownerGone, elapsed>>
  BY DEF WriteRow, KeyInv, KeyTypeOK

LEMMA TableKept ==
    ASSUME KeyInv, UNCHANGED table
    PROVE  /\ rec' \in [Keys -> Standings] /\ active \subseteq active' /\ active' \subseteq Keys
           /\ \A k \in Keys : Active(k)' # "none" => k \in active'
           /\ UNCHANGED <<ownerGone, elapsed>>
  BY DEF table, KeyInv, KeyTypeOK, Vouched, Active, Standing

\* The rest of the invariant, for a step that leaves the instances alone.
LEMMA LocalKept ==
    ASSUME KeyInv, UNCHANGED <<cache, snap, msgs>>,
           rec' \in [Keys -> Standings] /\ active \subseteq active' /\ active' \subseteq Keys,
           ownerGone' \in BOOLEAN, elapsed' \subseteq Keys,
           \A k \in Keys : Active(k)' # "none" => k \in active',
           op' \in [Admins -> Tasks \cup {Idle}] /\ \A b \in Admins : Sound(op[b])',
           ops' \in 0 .. MaxOps, revoked' \in [Nodes -> SUBSET Keys]
    PROVE  KeyInv'
  <1>1. KeyTypeOK'
    BY DEF KeyInv, KeyTypeOK
  <1>2. Vouched'
    BY DEF KeyInv, Vouched
  <1> QED  BY <1>1, <1>2 DEF KeyInv

LEMMA BeginTask ==
    ASSUME KeyInv, NEW a \in Admins, NEW n \in Nodes, NEW k \in Keys, NEW old \in Keys,
           NEW kind \in {"create", "rotate", "update", "delete", "disown"},
           NEW pc \in {"write", "load", "list"}, NEW seen \in Cached \cup Standings \cup {"error"},
           Begin(a, n, kind, k, old, pc, seen), active \subseteq active',
           pc = "write" /\ kind = "rotate" => seen \in {"live", "grace", "expired"}
    PROVE  /\ op' \in [Admins -> Tasks \cup {Idle}] /\ \A b \in Admins : Sound(op[b])'
           /\ ops' \in 0 .. MaxOps /\ UNCHANGED <<cache, snap, msgs, revoked>>
           /\ revoked' \in [Nodes -> SUBSET Keys]
  <1> DEFINE t == [kind |-> kind, n |-> n, key |-> k, old |-> old,
                   pc |-> pc, seen |-> seen, todo |-> {}, gone |-> {}]
  <1>1. /\ op' = [op EXCEPT ![a] = t] /\ ops < MaxOps /\ ops' = ops + 1
        /\ UNCHANGED <<cache, snap, msgs, revoked>>
    BY DEF Begin, local
  <1>2. t \in Tasks /\ t.pc = pc /\ t.kind = kind /\ t.seen = seen
    BY DEF Tasks
  <1> HIDE DEF t
  <1>3. op' \in [Admins -> Tasks \cup {Idle}] /\ \A b \in Admins : Sound(op[b])'
    BY <1>1, <1>2, TaskTaken
  <1>4. ops' \in 0 .. MaxOps /\ revoked' \in [Nodes -> SUBSET Keys]
    BY <1>1, KeyAssumption DEF KeyInv, KeyTypeOK
  <1> QED  BY <1>1, <1>3, <1>4

LEMMA RequestInv ==
    ASSUME KeyInv, NEW a \in Admins, NEW n \in Nodes, NEW k \in Keys, Request(a, n, k)
    PROVE  KeyInv'
  <1>0. rec \in [Keys -> Standings] /\ ownerGone \in BOOLEAN /\ elapsed \subseteq Keys
    BY DEF KeyInv, KeyTypeOK
  <1>1. CASE CreateAPIKey(a, n, k)
    BY <1>0, <1>1, TableKept, BeginTask, LocalKept DEF CreateAPIKey, Cached
  <1>2. ASSUME NEW new \in Keys, RotateAPIKey(a, n, k, new) PROVE KeyInv'
    <2>1. Standing(k) \in {"live", "grace", "expired"}
      BY <1>0, <1>2 DEF RotateAPIKey, Exists, Standing, Standings
    <2>2. Begin(a, n, "rotate", new, k, "write", Standing(k)) /\ UNCHANGED table
      BY <1>2 DEF RotateAPIKey
    <2>3. Standing(k) \in Cached \cup Standings \cup {"error"}
      BY <2>1 DEF Standings
    <2> QED  BY <1>0, <2>1, <2>2, <2>3, TableKept, BeginTask, LocalKept
  <1>3. CASE UpdateAPIKey(a, n, k)
    <2>1. PICK r \in {rec, [rec EXCEPT ![k] = "expired"]} : WriteRow(r)
      BY <1>3 DEF UpdateAPIKey
    <2>2. r \in [Keys -> Standings]
      BY <1>0, <2>1 DEF Standings
    <2> QED  BY <1>0, <1>3, <2>1, <2>2, RowWritten, BeginTask, LocalKept DEF UpdateAPIKey, Cached
  <1>4. CASE DeleteAPIKey(a, n, k)
    <2>1. [rec EXCEPT ![k] = "deleted"] \in [Keys -> Standings]
      BY <1>0 DEF Standings
    <2> QED  BY <1>0, <1>4, <2>1, RowWritten, BeginTask, LocalKept DEF DeleteAPIKey, Cached
  <1>5. CASE DeleteUser(a, n, k)
    <2>1. \A j \in Keys : Active(j)' = "none"
      BY <1>5 DEF DeleteUser, Active
    <2> QED  BY <1>0, <1>5, <2>1, BeginTask, LocalKept DEF DeleteUser, Cached, KeyInv, KeyTypeOK
  <1> QED  BY <1>1, <1>2, <1>3, <1>4, <1>5 DEF Request

\* The steps of a request under way: what each makes of its task.
LEMMA TaskAt ==
    ASSUME KeyInv, NEW a \in Admins, NEW pc, At(a, pc)
    PROVE  op[a] \in Tasks /\ op[a] # Idle /\ op[a].pc = pc /\ Sound(op[a])
  BY DEF At, KeyInv, KeyTypeOK, Vouched

\* A request moves on to a step at which it carries nothing.
LEMMA GoTask ==
    ASSUME KeyInv, NEW a \in Admins, op[a] \in Tasks, NEW pc \in {"load", "getold", "setold", "evict", "publish"},
           Go(a, pc), active \subseteq active', pc = "setold" => op[a].old \in active
    PROVE  op' \in [Admins -> Tasks \cup {Idle}] /\ \A b \in Admins : Sound(op[b])'
  <1> DEFINE t == [op[a] EXCEPT !.pc = pc]
  <1>1. op' = [op EXCEPT ![a] = t]
    BY DEF Go
  <1>2. t \in Tasks /\ t.pc = pc /\ t.old = op[a].old
    BY DEF Tasks
  <1> HIDE DEF t
  <1> QED  BY <1>1, <1>2, TaskTaken

LEMMA ReturnTask ==
    ASSUME KeyInv, NEW a \in Admins, op[a] \in Tasks, Return(a), active \subseteq active'
    PROVE  /\ op' \in [Admins -> Tasks \cup {Idle}] /\ \A b \in Admins : Sound(op[b])'
           /\ revoked' \in [Nodes -> SUBSET Keys]
  <1>1. op[a].n \in Nodes /\ op[a].gone \in SUBSET Keys
    BY DEF Tasks
  <1>2. op' = [op EXCEPT ![a] = Idle]
    BY DEF Return
  <1>3. revoked' \in [Nodes -> SUBSET Keys]
    BY <1>1 DEF Return, KeyInv, KeyTypeOK
  <1> QED  BY <1>2, <1>3, TaskTaken

LEMMA InsertInv ==
    ASSUME KeyInv, NEW a \in Admins, Insert(a) \/ RotateKeyTx(a)
    PROVE  KeyInv'
  <1>1. op[a] \in Tasks /\ Sound(op[a]) /\ op[a] # Idle /\ op[a].pc = "write" /\ op[a].key \in Keys /\ op[a].old \in Keys
    BY TaskAt DEF Insert, RotateKeyTx, Tasks
  <1>2. rec \in [Keys -> Standings] /\ ownerGone \in BOOLEAN /\ elapsed \subseteq Keys
        /\ ops \in 0 .. MaxOps /\ revoked \in [Nodes -> SUBSET Keys]
    BY DEF KeyInv, KeyTypeOK
  <1>3. UNCHANGED <<ops, cache, snap, msgs>>
    BY DEF Insert, RotateKeyTx
  <1>4. ASSUME NEW r \in [Keys -> Standings], WriteRow(r), Go(a, "load"), UNCHANGED revoked PROVE KeyInv'
    <2>1. active \subseteq active'
      BY <1>4, RowWritten
    <2>2. op' \in [Admins -> Tasks \cup {Idle}] /\ \A b \in Admins : Sound(op[b])'
      BY <1>1, <1>4, <2>1, GoTask
    <2> QED  BY <1>2, <1>3, <1>4, <2>2, RowWritten, LocalKept
  <1>5. CASE Insert(a)
    <2>1. [rec EXCEPT ![op[a].key] = "live"] \in [Keys -> Standings]
      BY <1>2 DEF Standings
    <2> QED  BY <1>4, <1>5, <2>1 DEF Insert
  <1>6. CASE RotateKeyTx(a)
    <2> DEFINE r == [rec EXCEPT ![op[a].key] = op[a].seen,
                                ![op[a].old] = IF op[a].seen = "live" THEN "grace" ELSE op[a].seen]
    <2>1. op[a].seen \in Standings
      BY <1>1, <1>6 DEF Sound, Standings, RotateKeyTx
    <2>2. r \in [Keys -> Standings]
      BY <1>2, <2>1 DEF Standings
    <2>3. CASE WriteRow(r) /\ Go(a, "load") /\ UNCHANGED revoked
      <3> HIDE DEF r
      <3> QED  BY <1>4, <2>2, <2>3
    <2>4. CASE Return(a) /\ UNCHANGED table
      BY <1>1, <1>2, <1>3, <2>4, TableKept, ReturnTask, LocalKept
    <2> QED  BY <1>6, <2>3, <2>4 DEF RotateKeyTx
  <1> QED  BY <1>5, <1>6

\* The row is read as it is now, and what is active now was active.
LEMMA LoadActiveKeyInv ==
    ASSUME KeyInv, NEW a \in Admins, LoadActiveKey(a)
    PROVE  KeyInv'
  <1>1. op[a] \in Tasks /\ op[a].key \in Keys
    BY TaskAt DEF LoadActiveKey, Tasks
  <1>2. PICK seen \in {Active(op[a].key), "error"} : op' = [op EXCEPT ![a].seen = seen, ![a].pc = "apply"]
    BY DEF LoadActiveKey
  <1> DEFINE t == [op[a] EXCEPT !.seen = seen, !.pc = "apply"]
  <1>3. op' = [op EXCEPT ![a] = t]
    BY <1>2 DEF KeyInv, KeyTypeOK
  <1>4. seen \in Cached \cup Standings \cup {"error"}
    BY <1>1, <1>2, ActiveTyped DEF KeyInv
  <1>5. t \in Tasks /\ t.pc = "apply" /\ t.seen = seen /\ t.key = op[a].key
    BY <1>1, <1>4 DEF Tasks
  <1>6. seen \in {"live", "grace"} => op[a].key \in active
    BY <1>1, <1>2 DEF KeyInv, Vouched
  <1> HIDE DEF t
  <1>7. UNCHANGED <<rec, ownerGone, elapsed, active, ops, cache, snap, msgs, revoked>>
    BY DEF LoadActiveKey, table, local
  <1>8. op' \in [Admins -> Tasks \cup {Idle}] /\ \A b \in Admins : Sound(op[b])'
    BY <1>3, <1>5, <1>6, <1>7, TaskTaken
  <1> QED  BY <1>7, <1>8, TableKept, LocalKept DEF table, KeyInv, KeyTypeOK

LEMMA ListInv ==
    ASSUME KeyInv, NEW a \in Admins, ListActiveKeyHashes(a) \/ GetOld(a)
    PROVE  KeyInv'
  <1>1. op[a] \in Tasks /\ op[a].key \in Keys /\ op[a].old \in Keys /\ op[a].n \in Nodes
    BY TaskAt DEF ListActiveKeyHashes, GetOld, Tasks
  <1>2. UNCHANGED <<rec, ownerGone, elapsed, active, ops, cache, snap, msgs, revoked>>
    BY DEF ListActiveKeyHashes, GetOld, table, local
  <1>3. op' \in [Admins -> Tasks \cup {Idle}] /\ \A b \in Admins : Sound(op[b])'
    <2>1. CASE ListActiveKeyHashes(a)
      <3>1. PICK hashes \in SUBSET Keys : op' = [op EXCEPT ![a].todo = hashes, ![a].pc = "evict"]
        BY <1>1, <2>1 DEF ListActiveKeyHashes
      <3> DEFINE t == [op[a] EXCEPT !.todo = hashes, !.pc = "evict"]
      <3>2. op' = [op EXCEPT ![a] = t]
        BY <3>1 DEF KeyInv, KeyTypeOK
      <3>3. t \in Tasks /\ t.pc = "evict"
        BY <1>1 DEF Tasks
      <3> HIDE DEF t
      <3> QED  BY <1>2, <3>2, <3>3, TaskTaken
    <2>2. CASE GetOld(a)
      <3>1. CASE cache[op[a].n][op[a].old] # "none"
        <4>1. op[a].old \in active
          BY <1>1, <3>1 DEF KeyInv, Vouched
        <4> QED  BY <1>1, <1>2, <2>2, <3>1, <4>1, GoTask DEF GetOld
      <3>2. CASE cache[op[a].n][op[a].old] = "none"
        BY <1>1, <1>2, <2>2, <3>2, GoTask DEF GetOld
      <3> QED  BY <3>1, <3>2
    <2> QED  BY <2>1, <2>2
  <1> QED  BY <1>2, <1>3, TableKept, LocalKept DEF table, KeyInv, KeyTypeOK

\* Steps that change one entry of one cache.
LEMMA EntryPut ==
    ASSUME KeyInv, NEW n \in Nodes, NEW k \in Keys, NEW v \in Cached, Put(n, k, v),
           v # "none" => k \in active
    PROVE  /\ cache' \in [Nodes -> [Keys -> Cached]]
           /\ \A m \in Nodes, j \in Keys : cache'[m][j] # "none" => j \in active
  <1>1. cache \in [Nodes -> [Keys -> Cached]] /\ cache' = [cache EXCEPT ![n][k] = v]
    BY DEF Put, KeyInv, KeyTypeOK
  <1>2. cache' \in [Nodes -> [Keys -> Cached]]
    BY <1>1
  <1>3. \A m \in Nodes, j \in Keys : cache'[m][j] = IF m = n /\ j = k THEN v ELSE cache[m][j]
    BY <1>1
  <1> QED  BY <1>2, <1>3 DEF KeyInv, Vouched

\* The rest of the invariant, for a step that leaves the table alone.
LEMMA CacheChanged ==
    ASSUME KeyInv, UNCHANGED <<table, ops, snap>>,
           cache' \in [Nodes -> [Keys -> Cached]],
           \A m \in Nodes, j \in Keys : cache'[m][j] # "none" => j \in active,
           msgs' \in [Nodes -> Seq(Keys)],
           op' \in [Admins -> Tasks \cup {Idle}] /\ \A b \in Admins : Sound(op[b])',
           revoked' \in [Nodes -> SUBSET Keys]
    PROVE  KeyInv'
  <1>1. UNCHANGED <<rec, ownerGone, elapsed, active>>
    BY DEF table
  <1>2. KeyTypeOK'
    BY <1>1 DEF KeyInv, KeyTypeOK
  <1>3. Vouched'
    BY <1>1, TableKept DEF KeyInv, Vouched
  <1> QED  BY <1>2, <1>3 DEF KeyInv

LEMMA EntryLeft ==
    ASSUME KeyInv, UNCHANGED cache
    PROVE  /\ cache' \in [Nodes -> [Keys -> Cached]]
           /\ \A m \in Nodes, j \in Keys : cache'[m][j] # "none" => j \in active
  BY DEF KeyInv, KeyTypeOK, Vouched

LEMMA ApplyInv ==
    ASSUME KeyInv, NEW a \in Admins, Prime(a) \/ Reload(a)
    PROVE  KeyInv'
  <1>1. op[a] \in Tasks /\ op[a] # Idle /\ op[a].pc = "apply" /\ Sound(op[a])
    BY TaskAt DEF Prime, Reload
  <1>2. op[a].n \in Nodes /\ op[a].key \in Keys
    BY <1>1 DEF Tasks
  <1>3. UNCHANGED <<table, ops, snap, msgs>> /\ active' = active
    BY DEF Prime, Reload, table
  <1>4. msgs' \in [Nodes -> Seq(Keys)] /\ revoked \in [Nodes -> SUBSET Keys]
    BY <1>3 DEF KeyInv, KeyTypeOK
  <1>5. /\ cache' \in [Nodes -> [Keys -> Cached]]
        /\ \A m \in Nodes, j \in Keys : cache'[m][j] # "none" => j \in active
    <2>1. CASE Cacheable(a) /\ Put(op[a].n, op[a].key, op[a].seen)
      <3>1. op[a].seen \in Cached /\ op[a].key \in active
        BY <1>1, <2>1 DEF Cacheable, Sound, Cached
      <3> QED  BY <1>2, <2>1, <3>1, EntryPut
    <2>2. CASE Put(op[a].n, op[a].key, "none")
      BY <1>2, <2>2, EntryPut DEF Cached
    <2>3. CASE UNCHANGED cache
      BY <2>3, EntryLeft
    <2> QED  BY <2>1, <2>2, <2>3 DEF Prime, Reload
  <1>6. /\ op' \in [Admins -> Tasks \cup {Idle}] /\ \A b \in Admins : Sound(op[b])'
        /\ revoked' \in [Nodes -> SUBSET Keys]
    <2>1. CASE Return(a)
      BY <1>1, <1>3, <2>1, ReturnTask
    <2>2. CASE (Go(a, "getold") \/ Go(a, "publish")) /\ UNCHANGED revoked
      BY <1>1, <1>3, <1>4, <2>2, GoTask
    <2> QED  BY <2>1, <2>2 DEF Prime, Reload
  <1> QED  BY <1>3, <1>4, <1>5, <1>6, CacheChanged

LEMMA SetOldInv ==
    ASSUME KeyInv, NEW a \in Admins, SetOld(a)
    PROVE  KeyInv'
  <1>1. op[a] \in Tasks /\ op[a] # Idle /\ op[a].pc = "setold" /\ Sound(op[a])
    BY TaskAt DEF SetOld
  <1>2. op[a].n \in Nodes /\ op[a].old \in Keys /\ op[a].old \in active
    BY <1>1 DEF Tasks, Sound
  <1>3. UNCHANGED <<table, ops, snap, msgs, revoked>> /\ active' = active
    BY DEF SetOld, table
  <1>4. msgs' \in [Nodes -> Seq(Keys)] /\ revoked' \in [Nodes -> SUBSET Keys]
    BY <1>3 DEF KeyInv, KeyTypeOK
  <1>5. /\ cache' \in [Nodes -> [Keys -> Cached]]
        /\ \A m \in Nodes, j \in Keys : cache'[m][j] # "none" => j \in active
    BY <1>2, EntryPut DEF SetOld, Cached
  <1>6. op' \in [Admins -> Tasks \cup {Idle}] /\ \A b \in Admins : Sound(op[b])'
    BY <1>1, <1>3, GoTask DEF SetOld
  <1> QED  BY <1>3, <1>4, <1>5, <1>6, CacheChanged

LEMMA EvictInv ==
    ASSUME KeyInv, NEW a \in Admins, Evict(a)
    PROVE  KeyInv'
  <1>1. op[a] \in Tasks
    BY TaskAt DEF Evict
  <1>2. op[a].n \in Nodes /\ op[a].todo \in SUBSET Keys /\ op[a].gone \in SUBSET Keys
    BY <1>1 DEF Tasks
  <1>3. UNCHANGED <<table, ops, snap, msgs>> /\ active' = active
    BY DEF Evict, table
  <1>4. msgs' \in [Nodes -> Seq(Keys)] /\ revoked \in [Nodes -> SUBSET Keys]
    BY <1>3 DEF KeyInv, KeyTypeOK
  <1>5. CASE Return(a) /\ UNCHANGED cache
    BY <1>1, <1>3, <1>4, <1>5, ReturnTask, EntryLeft, CacheChanged
  <1>6. ASSUME NEW k \in op[a].todo, Put(op[a].n, k, "none"), UNCHANGED revoked,
               op' = [op EXCEPT ![a].todo = @ \ {k}, ![a].gone = @ \cup {k}, ![a].old = k, ![a].pc = "publish"]
        PROVE  KeyInv'
    <2> DEFINE t == [op[a] EXCEPT !.todo = op[a].todo \ {k}, !.gone = op[a].gone \cup {k},
                                  !.old = k, !.pc = "publish"]
    <2>1. op' = [op EXCEPT ![a] = t]
      BY <1>1, <1>6 DEF KeyInv, KeyTypeOK, Tasks
    <2>2. k \in Keys
      BY <1>2
    <2>3. t \in Tasks /\ t.pc = "publish"
      BY <1>1, <1>2, <2>2 DEF Tasks
    <2> HIDE DEF t
    <2>4. op' \in [Admins -> Tasks \cup {Idle}] /\ \A b \in Admins : Sound(op[b])'
      BY <1>3, <2>1, <2>3, TaskTaken
    <2>5. /\ cache' \in [Nodes -> [Keys -> Cached]]
          /\ \A m \in Nodes, j \in Keys : cache'[m][j] # "none" => j \in active
      BY <1>2, <1>6, <2>2, EntryPut DEF Cached
    <2> QED  BY <1>3, <1>4, <1>6, <2>4, <2>5, CacheChanged
  <1> QED  BY <1>5, <1>6 DEF Evict

LEMMA PublishInvalidationInv ==
    ASSUME KeyInv, NEW a \in Admins, PublishInvalidation(a)
    PROVE  KeyInv'
  <1>1. op[a] \in Tasks /\ op[a].old \in Keys
    BY TaskAt DEF PublishInvalidation, Tasks
  <1>2. UNCHANGED <<table, ops, cache, snap>> /\ active' = active
    BY DEF PublishInvalidation, table
  <1>3. msgs' \in [Nodes -> Seq(Keys)]
    <2>1. \A n \in Nodes : msgs[n] \in Seq(Keys) /\ Append(msgs[n], op[a].old) \in Seq(Keys)
      BY <1>1 DEF KeyInv, KeyTypeOK
    <2>2. PICK reached : msgs' = [n \in Nodes |-> IF n \in reached THEN Append(msgs[n], op[a].old) ELSE msgs[n]]
      BY DEF PublishInvalidation
    <2> QED  BY <2>1, <2>2
  <1>4. /\ op' \in [Admins -> Tasks \cup {Idle}] /\ \A b \in Admins : Sound(op[b])'
        /\ revoked' \in [Nodes -> SUBSET Keys]
    <2>1. CASE Return(a)
      BY <1>1, <1>2, <2>1, ReturnTask
    <2>2. CASE Go(a, "evict") /\ UNCHANGED revoked
      BY <1>1, <1>2, <2>2, GoTask DEF KeyInv, KeyTypeOK
    <2> QED  BY <2>1, <2>2 DEF PublishInvalidation
  <1> QED  BY <1>2, <1>3, <1>4, EntryLeft, CacheChanged

\* The steps of an instance.
LEMMA DeliverInv ==
    ASSUME KeyInv, NEW n \in Nodes, Deliver(n) \/ \E k \in Keys : Authenticate(n, k)
    PROVE  KeyInv'
  <1>1. UNCHANGED <<table, ops, snap, op, revoked>> /\ active' = active
    BY DEF Deliver, Authenticate, table
  <1>2. msgs \in [Nodes -> Seq(Keys)] /\ revoked' \in [Nodes -> SUBSET Keys]
    BY <1>1 DEF KeyInv, KeyTypeOK
  <1>3. op' \in [Admins -> Tasks \cup {Idle}] /\ \A b \in Admins : Sound(op[b])'
    BY <1>1, TaskKept
  <1>4. ASSUME NEW k \in Keys, Put(n, k, "none"), msgs' \in [Nodes -> Seq(Keys)] PROVE KeyInv'
    <2>1. /\ cache' \in [Nodes -> [Keys -> Cached]]
          /\ \A m \in Nodes, j \in Keys : cache'[m][j] # "none" => j \in active
      BY <1>4, EntryPut DEF Cached
    <2> QED  BY <1>1, <1>2, <1>3, <1>4, <2>1, CacheChanged
  <1>5. CASE Deliver(n)
    <2>1. msgs[n] \in Seq(Keys) /\ msgs[n] # <<>>
      BY <1>2, <1>5 DEF Deliver
    <2>2. Head(msgs[n]) \in Keys /\ Tail(msgs[n]) \in Seq(Keys)
      BY <2>1
    <2>3. msgs' \in [Nodes -> Seq(Keys)]
      BY <1>2, <1>5, <2>2 DEF Deliver
    <2> QED  BY <1>4, <1>5, <2>2, <2>3 DEF Deliver
  <1>6. CASE \E k \in Keys : Authenticate(n, k)
    BY <1>2, <1>4, <1>6 DEF Authenticate
  <1> QED  BY <1>5, <1>6

LEMMA RefreshReadInv ==
    ASSUME KeyInv, NEW n \in Nodes, RefreshRead(n)
    PROVE  KeyInv'
  <1>1. UNCHANGED <<table, ops, cache, msgs, op, revoked>> /\ active' = active
        /\ snap' = [snap EXCEPT ![n] = [k \in Keys |-> Active(k)]]
    BY DEF RefreshRead, table
  <1>2. [k \in Keys |-> Active(k)] \in [Keys -> Cached]
    BY ActiveTyped DEF KeyInv
  <1>3. \A m \in Nodes, k \in Keys : snap'[m][k] = IF m = n THEN Active(k) ELSE snap[m][k]
    BY <1>1 DEF KeyInv, KeyTypeOK
  <1>4. KeyTypeOK'
    BY <1>1, <1>2 DEF KeyInv, KeyTypeOK, table
  <1>5. \A m \in Nodes, k \in Keys : snap'[m][k] \notin {"none", "off"} => k \in active
    BY <1>3 DEF KeyInv, Vouched
  <1>6. Vouched'
    BY <1>1, <1>5, TableKept, TaskKept DEF KeyInv, Vouched
  <1> QED  BY <1>4, <1>6 DEF KeyInv

LEMMA RefreshLoadInv ==
    ASSUME KeyInv, NEW n \in Nodes, RefreshLoad(n)
    PROVE  KeyInv'
  <1>1. /\ UNCHANGED <<table, ops, msgs, op, revoked>> /\ active' = active
        /\ snap[n] # Off /\ snap' = [snap EXCEPT ![n] = Off] /\ cache' = [cache EXCEPT ![n] = snap[n]]
    BY DEF RefreshLoad, table
  <1>2. snap[n] \in [Keys -> Cached]
    BY <1>1 DEF KeyInv, KeyTypeOK
  <1>3. KeyTypeOK'
    BY <1>1, <1>2 DEF KeyInv, KeyTypeOK, table
  <1>4. \A m \in Nodes, k \in Keys : /\ cache'[m][k] = IF m = n THEN snap[n][k] ELSE cache[m][k]
                                     /\ snap'[m][k] = IF m = n THEN "off" ELSE snap[m][k]
    BY <1>1 DEF KeyInv, KeyTypeOK, Off
  <1>5. \A k \in Keys : snap[n][k] # "off"
    BY <1>2 DEF Cached
  <1>6. \A m \in Nodes, k \in Keys : /\ cache'[m][k] # "none" => k \in active
                                     /\ snap'[m][k] \notin {"none", "off"} => k \in active
    BY <1>4, <1>5 DEF KeyInv, Vouched
  <1>7. Vouched'
    BY <1>1, <1>6, TableKept, TaskKept DEF KeyInv, Vouched
  <1> QED  BY <1>3, <1>7 DEF KeyInv

\* Time passes: less is active than before.
LEMMA GraceEndsInv ==
    ASSUME KeyInv, NEW k \in Keys, GraceEnds(k)
    PROVE  KeyInv'
  <1>1. UNCHANGED <<rec, ownerGone, active, op, ops, cache, snap, msgs, revoked>> /\ elapsed' = elapsed \cup {k}
    BY DEF GraceEnds, local
  <1>2. \A j \in Keys : Active(j)' # "none" => j \in active'
    BY <1>1 DEF Active, Standing, KeyInv, Vouched
  <1> QED  BY <1>1, <1>2, TaskKept, LocalKept DEF KeyInv, KeyTypeOK

LEMMA KeyStepInv == KeyInv /\ [KeyNext]_keyVars => KeyInv'
  <1> SUFFICES ASSUME KeyInv, [KeyNext]_keyVars PROVE KeyInv'
    OBVIOUS
  <1>1. ASSUME NEW a \in Admins, Step(a) PROVE KeyInv'
    BY <1>1, InsertInv, LoadActiveKeyInv, ApplyInv, ListInv, SetOldInv, EvictInv, PublishInvalidationInv DEF Step
  <1>2. CASE UNCHANGED keyVars
    BY <1>2, TableKept, TaskKept, LocalKept DEF keyVars, table, KeyInv, KeyTypeOK
  <1> QED
    BY <1>1, <1>2, RequestInv, DeliverInv, RefreshReadInv, RefreshLoadInv, GraceEndsInv DEF KeyNext

\* The inductive invariant of the key cache: types, and that everything which is
\* in a cache, in a reload under way or on its way from a handler was active.
THEOREM KeyInvariance == KeySpec => []KeyInv
  BY KeyInitInv, KeyStepInv, PTL DEF KeySpec

\* A key authenticates only if the database once held it active, on every
\* instance, whatever creations, rotations, deletions, reloads and messages race.
THEOREM AdmittedWereActive == KeySpec => []OnlyActiveKeysAdmitted
  <1>1. KeyInv => OnlyActiveKeysAdmitted
    BY DEF KeyInv, Vouched, OnlyActiveKeysAdmitted
  <1> QED  BY <1>1, KeyInvariance, PTL

-----------------------------------------------------------------------------
(* The listeners.                                                          *)

Busy == {"loop", "connected", "sleeping"}

ListenTyped ==
    /\ handle \in Listeners \cup {0} /\ started \in Nat /\ removals \in Nat
    /\ stopped \in BOOLEAN /\ stop \in {"no", "waiting", "returned"}
    /\ waitFor \in [Listeners -> Listeners \cup {0}]
    /\ cancelled \in [Listeners -> BOOLEAN]
    /\ at \in [Listeners -> {"unborn", "waiting", "gone"} \cup Busy]
    /\ term \in [Listeners -> Nat] /\ owed \in [Listeners -> BOOLEAN]
    /\ throttle \in [Listeners -> [pending : BOOLEAN, timer : BOOLEAN]]
    /\ refresh \in [Listeners -> [running : BOOLEAN, dirty : BOOLEAN, at : {"none", "spawned", "round"}]]

\* Listeners start in order. The manager's is the last one started, as long as it
\* has one, and without one the term of all is over. A listener waits for the one
\* before it, in its own term, and until it is done waiting no earlier one of the
\* term is more than a memory to it: as long as that one is there, it waits.
InOrder ==
    /\ \A i \in Listeners : /\ at[i] = "unborn" <=> i > started
                            /\ i > started => cancelled[i] = FALSE
    /\ handle # 0 => /\ handle = started /\ cancelled[handle] = FALSE
                     /\ term[handle] = removals /\ at[handle] # "gone"
    /\ \A i \in Listeners : i <= started =>
          term[i] <= removals /\ (handle = 0 /\ stopped = FALSE => term[i] < removals)
    /\ \A i \in Listeners : at[i] = "waiting" =>
          waitFor[i] \in Listeners /\ waitFor[i] + 1 = i /\ term[waitFor[i]] = term[i]
    /\ \A i, j \in Listeners :
          i < j /\ j <= started /\ term[i] = term[j] /\ at[i] # "gone" => at[j] = "waiting"

\* What is gone leaves neither a timer nor, once Stop has waited, a refresh.
Unwound ==
    /\ \A i \in Listeners : at[i] \in {"unborn", "gone"} => throttle[i].timer = FALSE
    /\ \A i \in Listeners : /\ refresh[i].running = FALSE <=> refresh[i].at = "none"
                            /\ refresh[i].dirty = TRUE => refresh[i].running = TRUE
    /\ stop # "no" => stopped = TRUE
    /\ stop = "returned" => \A i \in Listeners : at[i] \in {"unborn", "gone"} /\ refresh[i].running = FALSE

ListenInv == ListenTyped /\ InOrder /\ Unwound /\ NoSignalLost

LEMMA ListenInit == Init => ListenInv
  <1> SUFFICES ASSUME Init PROVE ListenInv
    OBVIOUS
  <1>1. ListenTyped
    BY DEF Init, ListenTyped, Busy, Quiet, NoRefresh
  <1>2. InOrder
    BY ListenAssumption DEF Init, InOrder
  <1>3. Unwound /\ NoSignalLost
    BY DEF Init, Unwound, NoSignalLost, Quiet, NoRefresh
  <1> QED  BY <1>1, <1>2, <1>3 DEF ListenInv

\* The throttle and the refresh of one listener, and what it owes.
LEMMA SpawnTyped ==
    ASSUME NEW r \in [running : BOOLEAN, dirty : BOOLEAN, at : {"none", "spawned", "round"}],
           r.running = FALSE <=> r.at = "none", r.dirty = TRUE => r.running = TRUE
    PROVE  LET s == spawnToolsChangedRefresh(r) IN
           /\ s \in [running : BOOLEAN, dirty : BOOLEAN, at : {"none", "spawned", "round"}]
           /\ s.running = TRUE /\ s.at # "none"
           /\ s.at = "spawned" \/ s.dirty = TRUE
  BY DEF spawnToolsChangedRefresh

\* A listener's signal.
LEMMA CallKeeps ==
    ASSUME ListenInv, NEW i \in Listeners, Call(i), at[i] \in Busy,
           UNCHANGED <<cancelled, stop, stopped>>, at' \in [Listeners -> {"unborn", "waiting", "gone"} \cup Busy],
           at'[i] \in Busy, \A j \in Listeners : j # i => at'[j] = at[j]
    PROVE  /\ owed' \in [Listeners -> BOOLEAN]
           /\ throttle' \in [Listeners -> [pending : BOOLEAN, timer : BOOLEAN]]
           /\ refresh' \in [Listeners -> [running : BOOLEAN, dirty : BOOLEAN, at : {"none", "spawned", "round"}]]
           /\ Unwound' /\ NoSignalLost'
  <1>1. ListenTyped /\ Unwound /\ NoSignalLost
    BY DEF ListenInv
  <1> DEFINE T == [pending : BOOLEAN, timer : BOOLEAN]
             R == [running : BOOLEAN, dirty : BOOLEAN, at : {"none", "spawned", "round"}]
             th == IF throttle[i].timer THEN [throttle[i] EXCEPT !.pending = TRUE]
                   ELSE [throttle[i] EXCEPT !.timer = TRUE]
             re == IF throttle[i].timer THEN refresh[i] ELSE spawnToolsChangedRefresh(refresh[i])
  <1>2. throttle \in [Listeners -> T] /\ refresh \in [Listeners -> R] /\ owed \in [Listeners -> BOOLEAN]
    BY <1>1 DEF ListenTyped
  <1>3. throttle' = [throttle EXCEPT ![i] = th] /\ refresh' = [refresh EXCEPT ![i] = re]
        /\ owed' = [owed EXCEPT ![i] = TRUE]
    BY <1>2 DEF Call
  <1>4. /\ th \in T /\ th.timer = TRUE
        /\ throttle[i].timer = TRUE => th.pending = TRUE
    BY <1>2
  <1>5. /\ re \in R /\ (re.running = FALSE <=> re.at = "none") /\ (re.dirty = TRUE => re.running = TRUE)
        /\ throttle[i].timer = FALSE => re.at = "spawned" \/ (re.running = TRUE /\ re.dirty = TRUE)
    BY <1>1, <1>2, SpawnTyped DEF Unwound
  <1> HIDE DEF th, re
  <1>6. /\ throttle'[i] = th /\ refresh'[i] = re
        /\ \A j \in Listeners : j # i => throttle'[j] = throttle[j] /\ refresh'[j] = refresh[j] /\ owed'[j] = owed[j]
    BY <1>2, <1>3
  <1>7. throttle' \in [Listeners -> T] /\ refresh' \in [Listeners -> R] /\ owed' \in [Listeners -> BOOLEAN]
    BY <1>2, <1>3, <1>4, <1>5
  <1>8. throttle[i].timer \in BOOLEAN
    BY <1>2
  <1>9. stop # "returned"
    BY <1>1 DEF Unwound, Busy
  <1>10. Unwound'
    <2>1. \A j \in Listeners : at'[j] \in {"unborn", "gone"} => throttle'[j].timer = FALSE
      BY <1>1, <1>6 DEF Unwound, Busy
    <2>2. \A j \in Listeners : /\ refresh'[j].running = FALSE <=> refresh'[j].at = "none"
                               /\ refresh'[j].dirty = TRUE => refresh'[j].running = TRUE
      BY <1>1, <1>5, <1>6 DEF Unwound
    <2> QED  BY <1>1, <1>9, <2>1, <2>2 DEF Unwound
  <1>11. NoSignalLost'
    <2> SUFFICES ASSUME NEW j \in Listeners, owed'[j], ~cancelled'[j]
                 PROVE  \/ throttle'[j].timer /\ throttle'[j].pending
                        \/ refresh'[j].at = "spawned"
                        \/ refresh'[j].running /\ refresh'[j].dirty
      BY DEF NoSignalLost
    <2>1. CASE j # i
      BY <1>1, <1>6, <2>1 DEF NoSignalLost
    <2>2. CASE j = i
      BY <1>4, <1>5, <1>6, <1>8, <2>2
    <2> QED  BY <2>1, <2>2
  <1> QED  BY <1>7, <1>10, <1>11

\* A listener's steps between connecting and sleeping change nothing of the order.
LEMMA BusyInOrder ==
    ASSUME ListenTyped, InOrder, NEW i \in Listeners, at[i] \in Busy,
           UNCHANGED <<handle, started, stopped, waitFor, cancelled, removals, term>>,
           at'[i] \in Busy, \A j \in Listeners : j # i => at'[j] = at[j]
    PROVE  InOrder'
  <1>1. \A j \in Listeners : /\ at'[j] = "unborn" <=> at[j] = "unborn"
                             /\ at'[j] = "gone" <=> at[j] = "gone"
                             /\ at'[j] = "waiting" <=> at[j] = "waiting"
    BY DEF Busy
  <1>2. \A j \in Listeners : (/\ at[j] = "unborn" <=> j > started
                              /\ j > started => cancelled[j] = FALSE)'
    BY <1>1 DEF InOrder
  <1>3. (handle # 0 => /\ handle = started /\ cancelled[handle] = FALSE
                       /\ term[handle] = removals /\ at[handle] # "gone")'
    BY <1>1 DEF InOrder, ListenTyped
  <1>4. \A j \in Listeners : (j <= started =>
           term[j] <= removals /\ (handle = 0 /\ stopped = FALSE => term[j] < removals))'
    BY DEF InOrder
  <1>5. \A j \in Listeners : (at[j] = "waiting" =>
           waitFor[j] \in Listeners /\ waitFor[j] + 1 = j /\ term[waitFor[j]] = term[j])'
    BY <1>1 DEF InOrder
  <1>6. \A j, k \in Listeners :
           (j < k /\ k <= started /\ term[j] = term[k] /\ at[j] # "gone" => at[k] = "waiting")'
    BY <1>1 DEF InOrder
  <1> QED  BY <1>2, <1>3, <1>4, <1>5, <1>6 DEF InOrder

\* The refresh and the throttle may change, or nothing of them.
LEMMA BusyKeeps ==
    ASSUME ListenInv, NEW i \in Listeners, NEW p \in Busy, at[i] \in Busy, at' = [at EXCEPT ![i] = p],
           UNCHANGED <<handle, started, stopped, stop, waitFor, cancelled, removals, term>>,
           Call(i) \/ UNCHANGED <<throttle, refresh, owed>>
    PROVE  ListenInv'
  <1>1. ListenTyped /\ InOrder /\ Unwound /\ NoSignalLost
    BY DEF ListenInv
  <1>2. /\ at' \in [Listeners -> {"unborn", "waiting", "gone"} \cup Busy]
        /\ at'[i] \in Busy /\ \A j \in Listeners : j # i => at'[j] = at[j]
    BY <1>1 DEF ListenTyped
  <1>3. InOrder'
    BY <1>1, <1>2, BusyInOrder
  <1>4. CASE Call(i)
    <2>1. /\ owed' \in [Listeners -> BOOLEAN]
          /\ throttle' \in [Listeners -> [pending : BOOLEAN, timer : BOOLEAN]]
          /\ refresh' \in [Listeners -> [running : BOOLEAN, dirty : BOOLEAN, at : {"none", "spawned", "round"}]]
          /\ Unwound' /\ NoSignalLost'
      BY <1>2, <1>4, CallKeeps
    <2>2. ListenTyped'
      BY <1>1, <1>2, <2>1 DEF ListenTyped
    <2> QED  BY <1>3, <2>1, <2>2 DEF ListenInv
  <1>5. CASE UNCHANGED <<throttle, refresh, owed>>
    <2>1. ListenTyped'
      BY <1>1, <1>2, <1>5 DEF ListenTyped
    <2>2. Unwound' /\ NoSignalLost'
      BY <1>1, <1>2, <1>5 DEF Unwound, NoSignalLost, Busy
    <2> QED  BY <1>3, <2>1, <2>2 DEF ListenInv
  <1> QED  BY <1>4, <1>5

LEMMA ConnectInv ==
    ASSUME ListenInv, NEW i \in Listeners,
           \/ \E r \in Replies : Connect(i, r)
           \/ \E m \in Messages : Receive(i, m)
           \/ \E result \in {"idle", "error"} : Lose(i, result)
           \/ sleepListen(i)
    PROVE  ListenInv'
  <1>1. UNCHANGED <<handle, started, stopped, stop, waitFor, cancelled, removals, term>>
    BY DEF Connect, Receive, Lose, sleepListen
  <1>2. at[i] \in Busy
    BY DEF Connect, Receive, Lose, sleepListen, Busy
  <1>3. Call(i) \/ UNCHANGED <<throttle, refresh, owed>>
    BY DEF Connect, Receive, Lose, sleepListen
  <1>4. \E p \in Busy : at' = [at EXCEPT ![i] = p]
    <2>1. CASE at' = at
      <3>1. at' = [at EXCEPT ![i] = at[i]]
        BY <2>1 DEF ListenInv, ListenTyped
      <3> QED  BY <1>2, <3>1
    <2>2. CASE \E p \in {"sleeping", "connected", "loop"} : at' = [at EXCEPT ![i] = p]
      BY <2>2 DEF Busy
    <2> QED  BY <2>1, <2>2 DEF Connect, Receive, Lose, sleepListen, After
  <1> QED  BY <1>1, <1>2, <1>3, <1>4, BusyKeeps

\* Every earlier listener of a term is gone once one of it is done waiting.
LEMMA NoneBefore ==
    ASSUME ListenTyped, InOrder, NEW i \in Listeners, i <= started,
           at[i] # "waiting" \/ Finished(waitFor[i])
    PROVE  \A j \in Listeners : j < i /\ term[j] = term[i] => at[j] = "gone"
  <1>1. CASE at[i] # "waiting"
    BY <1>1 DEF InOrder
  <1>2. CASE at[i] = "waiting" /\ Finished(waitFor[i])
    <2> DEFINE w == waitFor[i]
    <2>1. w \in Listeners /\ w + 1 = i /\ term[w] = term[i] /\ w \in Nat /\ i \in Nat /\ w # 0
      BY <1>2, ListenAssumption DEF InOrder
    <2>2. at[w] = "gone"
      BY <1>2, <2>1 DEF Finished
    <2>3. w <= started /\ started \in Nat
      BY <2>1 DEF ListenTyped
    <2> HIDE DEF w
    <2>4. ASSUME NEW j \in Listeners, j < i, term[j] = term[i] PROVE at[j] = "gone"
      <3>1. j \in Nat /\ (j = w \/ j < w)
        BY <2>1, <2>4, ListenAssumption
      <3>2. CASE j < w
        BY <2>1, <2>2, <2>3, <2>4, <3>2 DEF InOrder
      <3> QED  BY <2>2, <3>1, <3>2
    <2> QED  BY <2>4
  <1> QED  BY <1>1, <1>2

\* A listener leaves the order, or enters the loop, when nothing before it is left.
LEMMA UnwindInv ==
    ASSUME ListenInv, NEW i \in Listeners, Unwind(i)
    PROVE  ListenInv'
  <1>1. ListenTyped /\ InOrder /\ Unwound /\ NoSignalLost
    BY DEF ListenInv
  <1>2. at[i] \notin {"unborn", "gone"} /\ (at[i] # "waiting" \/ Finished(waitFor[i]))
    BY DEF Unwind, Predecessor, Leave
  <1>3. i <= started /\ i \in Nat /\ started \in Nat
    BY <1>1, <1>2, ListenAssumption DEF InOrder, ListenTyped
  <1>4. \A j \in Listeners : j < i /\ term[j] = term[i] => at[j] = "gone"
    BY <1>1, <1>2, <1>3, NoneBefore
  <1>5. UNCHANGED <<handle, started, stopped, stop, cancelled, refresh, removals, term>>
    BY DEF Unwind, Predecessor, Leave, Gone
  <1>6. \/ Gone(i) /\ cancelled[i] = TRUE
        \/ /\ at' = [at EXCEPT ![i] = "loop"] /\ waitFor' = [waitFor EXCEPT ![i] = 0]
           /\ UNCHANGED <<throttle, owed>>
    BY <1>1 DEF Unwind, Predecessor, Leave, ListenTyped
  <1>7. UNCHANGED <<handle, started, stopped, stop, cancelled, refresh, removals, term>>
        /\ waitFor' = [waitFor EXCEPT ![i] = 0]
    BY <1>5, <1>6 DEF Gone
  <1>8. /\ at'[i] \in {"gone", "loop"} /\ (at'[i] = "gone" => cancelled[i] = TRUE)
        /\ \A j \in Listeners : j # i => at'[j] = at[j] /\ waitFor'[j] = waitFor[j]
        /\ at' \in [Listeners -> {"unborn", "waiting", "gone"} \cup Busy]
        /\ waitFor' \in [Listeners -> Listeners \cup {0}]
    BY <1>1, <1>6, <1>7 DEF Gone, ListenTyped, Busy
  <1>9. InOrder'
    <2>1. \A j \in Listeners : (/\ at[j] = "unborn" <=> j > started
                                /\ j > started => cancelled[j] = FALSE)'
      BY <1>1, <1>2, <1>7, <1>8 DEF InOrder
    <2>2. (handle # 0 => /\ handle = started /\ cancelled[handle] = FALSE
                         /\ term[handle] = removals /\ at[handle] # "gone")'
      BY <1>1, <1>7, <1>8 DEF InOrder, ListenTyped
    <2>3. \A j \in Listeners : (j <= started =>
             term[j] <= removals /\ (handle = 0 /\ stopped = FALSE => term[j] < removals))'
      BY <1>1, <1>7 DEF InOrder
    <2>4. \A j \in Listeners : (at[j] = "waiting" =>
             waitFor[j] \in Listeners /\ waitFor[j] + 1 = j /\ term[waitFor[j]] = term[j])'
      BY <1>1, <1>7, <1>8 DEF InOrder
    <2>5. ASSUME NEW j \in Listeners, NEW k \in Listeners, j < k, k <= started, term[j] = term[k], at'[j] # "gone"
          PROVE  at'[k] = "waiting"
      <3>1. at[j] # "gone"
        BY <1>2, <1>8, <2>5
      <3>2. at[k] = "waiting"
        BY <1>1, <2>5, <3>1 DEF InOrder
      <3>3. k # i
        BY <1>4, <2>5, <3>1
      <3> QED  BY <1>8, <3>2, <3>3
    <2>6. \A j, k \in Listeners :
             (j < k /\ k <= started /\ term[j] = term[k] /\ at[j] # "gone" => at[k] = "waiting")'
      BY <1>7, <2>5
    <2> QED  BY <2>1, <2>2, <2>3, <2>4, <2>6 DEF InOrder
  <1>10. /\ throttle' \in [Listeners -> [pending : BOOLEAN, timer : BOOLEAN]] /\ owed' \in [Listeners -> BOOLEAN]
         /\ \A j \in Listeners : j # i => throttle'[j] = throttle[j] /\ owed'[j] = owed[j]
         /\ at'[i] = "gone" => throttle'[i].timer = FALSE /\ owed'[i] = FALSE
         /\ at'[i] # "gone" => throttle'[i] = throttle[i] /\ owed'[i] = owed[i]
    <2> DEFINE T == [pending : BOOLEAN, timer : BOOLEAN]
    <2>1. throttle \in [Listeners -> T] /\ owed \in [Listeners -> BOOLEAN]
      BY <1>1 DEF ListenTyped
    <2>2. Quiet \in T /\ Quiet.timer = FALSE
      BY DEF Quiet
    <2>3. at \in [Listeners -> {"unborn", "waiting", "gone"} \cup Busy]
      BY <1>1 DEF ListenTyped
    <2>4. CASE Gone(i)
      <3>1. at'[i] = "gone" /\ throttle' = [throttle EXCEPT ![i] = Quiet] /\ owed' = [owed EXCEPT ![i] = FALSE]
        BY <2>3, <2>4 DEF Gone
      <3> QED  BY <2>1, <2>2, <3>1
    <2>5. CASE at' = [at EXCEPT ![i] = "loop"] /\ UNCHANGED <<throttle, owed>>
      BY <2>1, <2>3, <2>5
    <2> QED  BY <1>6, <2>4, <2>5
  <1>11. ListenTyped'
    BY <1>1, <1>7, <1>8, <1>10 DEF ListenTyped
  <1>12. Unwound' /\ NoSignalLost'
    <2>1. stop # "returned"
      BY <1>1, <1>2 DEF Unwound
    <2>2. Unwound'
      BY <1>1, <1>7, <1>8, <1>10, <2>1 DEF Unwound
    <2>3. NoSignalLost'
      BY <1>1, <1>7, <1>10 DEF NoSignalLost
    <2> QED  BY <2>2, <2>3
  <1> QED  BY <1>9, <1>11, <1>12 DEF ListenInv

\* A new listener takes the manager's place, behind the one it replaces.
LEMMA ReconcileInv ==
    ASSUME ListenInv, NEW t \in Transports, Reconcile(t)
    PROVE  ListenInv'
  <1> DEFINE i == started + 1
  <1>1. ListenTyped /\ InOrder /\ Unwound /\ NoSignalLost
    BY DEF ListenInv
  <1>2. i \in Listeners /\ i \in Nat /\ i > started /\ started \in Nat /\ removals \in Nat /\ i # 0
    BY <1>1 DEF Reconcile, start, ListenTyped
  <1>3. /\ started' = i /\ handle' = i
        /\ waitFor' = [waitFor EXCEPT ![i] = handle]
        /\ at' = [at EXCEPT ![i] = IF handle = 0 THEN "loop" ELSE "waiting"]
        /\ term' = [term EXCEPT ![i] = removals]
        /\ cancelled' = IF handle = 0 THEN cancelled ELSE [cancelled EXCEPT ![handle] = TRUE]
    BY DEF Reconcile, start
  <1>4. UNCHANGED <<stopped, stop, throttle, refresh, removals, owed>> /\ stopped = FALSE
    BY <1>1 DEF Reconcile, ListenTyped
  <1>5. \A j \in Listeners : j \in Nat /\ j # 0 /\ (j # i => (j > i <=> j > started) /\ (j <= i <=> j <= started))
    BY <1>2, ListenAssumption
  <1>6. at[i] = "unborn" /\ cancelled[i] = FALSE
    BY <1>1, <1>2 DEF InOrder
  <1> HIDE DEF i
  <1>7. handle # 0 => handle \in Listeners /\ handle = started /\ term[handle] = removals /\ handle # i
    BY <1>1, <1>2 DEF InOrder, ListenTyped
  <1>8. handle # 0 => handle + 1 = i
    BY <1>7 DEF i
  <1>9. /\ at'[i] = IF handle = 0 THEN "loop" ELSE "waiting"
        /\ \A j \in Listeners : j # i => at'[j] = at[j]
        /\ at' \in [Listeners -> {"unborn", "waiting", "gone"} \cup Busy]
    BY <1>1, <1>2, <1>3 DEF ListenTyped, Busy
  <1>10. /\ term'[i] = removals /\ \A j \in Listeners : j # i => term'[j] = term[j]
         /\ term' \in [Listeners -> Nat]
    BY <1>1, <1>2, <1>3 DEF ListenTyped
  <1>11. /\ waitFor'[i] = handle /\ \A j \in Listeners : j # i => waitFor'[j] = waitFor[j]
         /\ waitFor' \in [Listeners -> Listeners \cup {0}]
    BY <1>1, <1>2, <1>3 DEF ListenTyped
  <1>12. /\ cancelled'[i] = FALSE /\ cancelled' \in [Listeners -> BOOLEAN]
         /\ \A j \in Listeners : j # handle => cancelled'[j] = cancelled[j]
         /\ \A j \in Listeners : cancelled'[j] = FALSE => cancelled[j] = FALSE
    BY <1>1, <1>2, <1>3, <1>6, <1>7 DEF ListenTyped
  <1>13. ListenTyped'
    BY <1>1, <1>2, <1>3, <1>4, <1>9, <1>10, <1>11, <1>12 DEF ListenTyped
  <1>14. InOrder'
    <2>1. \A j \in Listeners : (/\ at[j] = "unborn" <=> j > started
                                /\ j > started => cancelled[j] = FALSE)'
      <3> SUFFICES ASSUME NEW j \in Listeners
                   PROVE  (/\ at[j] = "unborn" <=> j > started
                           /\ j > started => cancelled[j] = FALSE)'
        OBVIOUS
      <3>1. CASE j = i
        BY <1>2, <1>3, <1>9, <1>12, <3>1
      <3>2. CASE j # i
        <4>1. j > i <=> j > started
          BY <1>5, <3>2
        <4>2. j > started => j # handle
          BY <1>2, <1>5, <1>7
        <4>3. at[j] = "unborn" <=> j > started
          BY <1>1 DEF InOrder
        <4>4. j > started => cancelled[j] = FALSE
          BY <1>1 DEF InOrder
        <4> QED  BY <1>3, <1>9, <1>12, <3>2, <4>1, <4>2, <4>3, <4>4
      <3> QED  BY <3>1, <3>2
    <2>2. (handle # 0 => /\ handle = started /\ cancelled[handle] = FALSE
                         /\ term[handle] = removals /\ at[handle] # "gone")'
      BY <1>3, <1>4, <1>9, <1>10, <1>12
    <2>3. \A j \in Listeners : (j <= started =>
             term[j] <= removals /\ (handle = 0 /\ stopped = FALSE => term[j] < removals))'
      <3> SUFFICES ASSUME NEW j \in Listeners, j <= i PROVE term'[j] <= removals
        BY <1>2, <1>3, <1>4
      <3>1. CASE j = i
        BY <1>2, <1>10, <3>1
      <3>2. CASE j # i
        BY <1>1, <1>5, <1>10, <3>2 DEF InOrder
      <3> QED  BY <3>1, <3>2
    <2>4. \A j \in Listeners : (at[j] = "waiting" =>
             waitFor[j] \in Listeners /\ waitFor[j] + 1 = j /\ term[waitFor[j]] = term[j])'
      <3> SUFFICES ASSUME NEW j \in Listeners, at'[j] = "waiting"
                   PROVE  waitFor'[j] \in Listeners /\ waitFor'[j] + 1 = j /\ term'[waitFor'[j]] = term'[j]
        OBVIOUS
      <3>1. CASE j = i
        <4>1. handle # 0
          BY <1>9, <3>1
        <4> QED  BY <1>7, <1>8, <1>10, <1>11, <3>1, <4>1
      <3>2. CASE j # i
        <4>1. at[j] = "waiting"
          BY <1>9, <3>2
        <4>2. waitFor[j] \in Listeners /\ waitFor[j] + 1 = j /\ term[waitFor[j]] = term[j]
          BY <1>1, <4>1 DEF InOrder
        <4>3. ~(j > started)
          BY <1>1, <4>1 DEF InOrder
        <4>4. waitFor[j] # i
          BY <1>2, <1>5, <4>2, <4>3
        <4> QED  BY <1>10, <1>11, <3>2, <4>2, <4>4
      <3> QED  BY <3>1, <3>2
    <2>5. ASSUME NEW j \in Listeners, NEW k \in Listeners, j < k, k <= i, term'[j] = term'[k], at'[j] # "gone"
          PROVE  at'[k] = "waiting"
      <3>1. j # i
        BY <1>2, <1>5, <2>5
      <3>2. CASE k = i
        <4>1. term[j] = removals /\ j <= started
          BY <1>5, <1>10, <2>5, <3>1, <3>2
        <4>2. term[j] \in Nat
          BY <1>1 DEF ListenTyped
        <4>3. handle # 0
          BY <1>1, <1>2, <1>4, <4>1, <4>2 DEF InOrder
        <4> QED  BY <1>9, <3>2, <4>3
      <3>3. CASE k # i
        <4>1. k <= started /\ term[j] = term[k] /\ at[j] # "gone"
          BY <1>5, <1>9, <1>10, <2>5, <3>1, <3>3
        <4>2. at[k] = "waiting"
          BY <1>1, <2>5, <4>1 DEF InOrder
        <4> QED  BY <1>9, <3>3, <4>2
      <3> QED  BY <3>2, <3>3
    <2>6. \A j, k \in Listeners :
             (j < k /\ k <= started /\ term[j] = term[k] /\ at[j] # "gone" => at[k] = "waiting")'
      BY <1>3, <2>5
    <2> QED  BY <2>1, <2>2, <2>3, <2>4, <2>6 DEF InOrder
  <1>15. Unwound'
    <2>1. stop = "no"
      BY <1>1, <1>4 DEF Unwound, ListenTyped
    <2>2. \A j \in Listeners : at'[j] \in {"unborn", "gone"} => throttle'[j].timer = FALSE
      BY <1>1, <1>4, <1>9 DEF Unwound
    <2> QED  BY <1>1, <1>4, <2>1, <2>2 DEF Unwound
  <1>16. NoSignalLost'
    BY <1>1, <1>4, <1>12 DEF NoSignalLost, ListenTyped
  <1> QED  BY <1>13, <1>14, <1>15, <1>16 DEF ListenInv

\* A removal ends the term; Stop cancels what is left of it.
LEMMA LetGoInv ==
    ASSUME ListenInv, ReconcileWithout \/ Stop
    PROVE  ListenInv'
  <1>1. ListenTyped /\ InOrder /\ Unwound /\ NoSignalLost
    BY DEF ListenInv
  <1>2. /\ UNCHANGED <<started, waitFor, at, throttle, refresh, term, owed>> /\ handle' = 0
        /\ cancelled' = IF handle = 0 THEN cancelled ELSE [cancelled EXCEPT ![handle] = TRUE]
    BY DEF ReconcileWithout, Stop
  <1>3. \/ UNCHANGED <<stopped, stop>> /\ removals' = removals + 1
        \/ UNCHANGED removals /\ stopped' = TRUE /\ stop' = "waiting"
    BY DEF ReconcileWithout, Stop
  <1>4. removals \in Nat /\ removals' \in Nat /\ removals <= removals'
    BY <1>1, <1>3 DEF ListenTyped
  <1>5. /\ cancelled' \in [Listeners -> BOOLEAN]
        /\ \A j \in Listeners : j # handle => cancelled'[j] = cancelled[j]
        /\ \A j \in Listeners : cancelled'[j] = FALSE => cancelled[j] = FALSE
    BY <1>1, <1>2 DEF ListenTyped
  <1>6. ListenTyped'
    BY <1>1, <1>2, <1>3, <1>4, <1>5 DEF ListenTyped
  <1>7. InOrder'
    <2>1. \A j \in Listeners : (/\ at[j] = "unborn" <=> j > started
                                /\ j > started => cancelled[j] = FALSE)'
      <3>1. \A j \in Listeners : j > started => j # handle
        BY <1>1, ListenAssumption DEF InOrder, ListenTyped
      <3> QED  BY <1>1, <1>2, <1>5, <3>1 DEF InOrder
    <2>2. \A j \in Listeners : (j <= started =>
             term[j] <= removals /\ (handle = 0 /\ stopped = FALSE => term[j] < removals))'
      <3> SUFFICES ASSUME NEW j \in Listeners, j <= started
                   PROVE  term[j] <= removals' /\ (stopped' = FALSE => term[j] < removals')
        BY <1>2
      <3>1. term[j] \in Nat /\ term[j] <= removals
        BY <1>1 DEF InOrder, ListenTyped
      <3> QED  BY <1>3, <1>4, <3>1
    <2>3. \A j \in Listeners : (at[j] = "waiting" =>
             waitFor[j] \in Listeners /\ waitFor[j] + 1 = j /\ term[waitFor[j]] = term[j])'
      BY <1>1, <1>2 DEF InOrder
    <2>4. \A j, k \in Listeners :
             (j < k /\ k <= started /\ term[j] = term[k] /\ at[j] # "gone" => at[k] = "waiting")'
      BY <1>1, <1>2 DEF InOrder
    <2>5. (handle # 0 => /\ handle = started /\ cancelled[handle] = FALSE
                         /\ term[handle] = removals /\ at[handle] # "gone")'
      BY <1>2
    <2> QED  BY <2>1, <2>2, <2>3, <2>4, <2>5 DEF InOrder
  <1>8. Unwound'
    <2>1. (stop # "no" => stopped = TRUE)' /\ (stop' = "returned" => stop = "returned")
      BY <1>1, <1>3 DEF Unwound
    <2> QED  BY <1>1, <1>2, <2>1 DEF Unwound
  <1>9. NoSignalLost'
    BY <1>1, <1>2, <1>5 DEF NoSignalLost, ListenTyped
  <1> QED  BY <1>6, <1>7, <1>8, <1>9 DEF ListenInv

\* What a throttle's window end and a refresh goroutine's steps come to: the state of
\* one listener's throttle and refresh, and nothing of the order.
LEMMA RefreshKeeps ==
    ASSUME ListenInv, NEW i \in Listeners,
           NEW th \in [pending : BOOLEAN, timer : BOOLEAN],
           NEW re \in [running : BOOLEAN, dirty : BOOLEAN, at : {"none", "spawned", "round"}],
           NEW ow \in BOOLEAN,
           throttle' = [throttle EXCEPT ![i] = th], refresh' = [refresh EXCEPT ![i] = re],
           owed' = [owed EXCEPT ![i] = ow],
           UNCHANGED <<handle, started, stopped, stop, waitFor, cancelled, at, removals, term>>,
           th.timer = TRUE => throttle[i].timer = TRUE,
           re.running = FALSE <=> re.at = "none", re.dirty = TRUE => re.running = TRUE,
           stop # "returned",
           ow = TRUE /\ cancelled[i] = FALSE =>
               \/ th.timer = TRUE /\ th.pending = TRUE
               \/ re.at = "spawned"
               \/ re.running = TRUE /\ re.dirty = TRUE
    PROVE  ListenInv'
  <1>1. ListenTyped /\ InOrder /\ Unwound /\ NoSignalLost
    BY DEF ListenInv
  <1>2. ListenTyped'
    BY <1>1 DEF ListenTyped
  <1>3. /\ throttle'[i] = th /\ refresh'[i] = re /\ owed'[i] = ow
        /\ \A j \in Listeners : j # i => throttle'[j] = throttle[j] /\ refresh'[j] = refresh[j] /\ owed'[j] = owed[j]
    BY <1>1 DEF ListenTyped
  <1>4. InOrder'
    BY <1>1 DEF InOrder
  <1>5. Unwound'
    <2>1. \A j \in Listeners : at'[j] \in {"unborn", "gone"} => throttle'[j].timer = FALSE
      BY <1>1, <1>3 DEF Unwound
    <2>2. \A j \in Listeners : /\ refresh'[j].running = FALSE <=> refresh'[j].at = "none"
                               /\ refresh'[j].dirty = TRUE => refresh'[j].running = TRUE
      BY <1>1, <1>3 DEF Unwound
    <2> QED  BY <1>1, <2>1, <2>2 DEF Unwound
  <1>6. NoSignalLost'
    <2> SUFFICES ASSUME NEW j \in Listeners, owed'[j], ~cancelled'[j]
                 PROVE  \/ throttle'[j].timer /\ throttle'[j].pending
                        \/ refresh'[j].at = "spawned"
                        \/ refresh'[j].running /\ refresh'[j].dirty
      BY DEF NoSignalLost
    <2>1. CASE j # i
      BY <1>1, <1>3, <2>1 DEF NoSignalLost
    <2>2. CASE j = i
      <3>1. ow = TRUE /\ cancelled[i] = FALSE
        BY <1>1, <1>3, <2>2 DEF ListenTyped
      <3> QED  BY <1>3, <2>2, <3>1
    <2> QED  BY <2>1, <2>2
  <1> QED  BY <1>2, <1>4, <1>5, <1>6 DEF ListenInv

LEMMA WindowInv ==
    ASSUME ListenInv, NEW i \in Listeners, onWindowEnd(i)
    PROVE  ListenInv'
  <1> DEFINE T == [pending : BOOLEAN, timer : BOOLEAN]
             R == [running : BOOLEAN, dirty : BOOLEAN, at : {"none", "spawned", "round"}]
             th == IF throttle[i].pending THEN [throttle[i] EXCEPT !.pending = FALSE]
                   ELSE [throttle[i] EXCEPT !.timer = FALSE]
             re == IF throttle[i].pending THEN spawnToolsChangedRefresh(refresh[i]) ELSE refresh[i]
  <1>1. ListenTyped /\ Unwound /\ NoSignalLost
    BY DEF ListenInv
  <1>2. throttle \in [Listeners -> T] /\ refresh \in [Listeners -> R] /\ owed \in [Listeners -> BOOLEAN]
    BY <1>1 DEF ListenTyped
  <1>3. throttle' = [throttle EXCEPT ![i] = th] /\ refresh' = [refresh EXCEPT ![i] = re]
    BY <1>2 DEF onWindowEnd
  <1>4. owed' = [owed EXCEPT ![i] = owed[i]] /\ owed[i] \in BOOLEAN
    BY <1>2 DEF onWindowEnd
  <1>5. throttle[i].timer = TRUE /\ throttle[i].pending \in BOOLEAN
    BY <1>2 DEF onWindowEnd
  <1>6. th \in T
    BY <1>2
  <1>7. /\ re \in R /\ (re.running = FALSE <=> re.at = "none") /\ (re.dirty = TRUE => re.running = TRUE)
        /\ throttle[i].pending = TRUE => re.at = "spawned" \/ (re.running = TRUE /\ re.dirty = TRUE)
        /\ throttle[i].pending = FALSE => re = refresh[i]
    BY <1>1, <1>2, SpawnTyped DEF Unwound
  <1> HIDE DEF th, re
  <1>8. stop # "returned"
    <2>1. at[i] \notin {"unborn", "gone"}
      BY <1>1, <1>5 DEF Unwound
    <2> QED  BY <1>1, <2>1 DEF Unwound
  <1>9. owed[i] = TRUE /\ cancelled[i] = FALSE =>
            \/ th.timer = TRUE /\ th.pending = TRUE
            \/ re.at = "spawned"
            \/ re.running = TRUE /\ re.dirty = TRUE
    <2>1. CASE throttle[i].pending = TRUE
      BY <1>7, <2>1
    <2>2. CASE throttle[i].pending = FALSE
      <3>1. re = refresh[i] /\ re.running \in BOOLEAN /\ re.dirty \in BOOLEAN
        BY <1>7, <2>2
      <3> QED  BY <1>1, <2>2, <3>1 DEF NoSignalLost
    <2> QED  BY <1>5, <2>1, <2>2
  <1>10. UNCHANGED <<handle, started, stopped, stop, waitFor, cancelled, at, removals, term>>
    BY DEF onWindowEnd
  <1> QED  BY <1>3, <1>4, <1>5, <1>6, <1>7, <1>8, <1>9, <1>10, RefreshKeeps

LEMMA RoundInv ==
    ASSUME ListenInv, NEW i \in Listeners, Refresh(i)
    PROVE  ListenInv'
  <1> DEFINE T == [pending : BOOLEAN, timer : BOOLEAN]
             R == [running : BOOLEAN, dirty : BOOLEAN, at : {"none", "spawned", "round"}]
  <1>1. ListenTyped /\ Unwound /\ NoSignalLost
    BY DEF ListenInv
  <1>2. /\ throttle \in [Listeners -> T] /\ refresh \in [Listeners -> R] /\ owed \in [Listeners -> BOOLEAN]
        /\ refresh[i] \in R /\ throttle[i] \in T /\ owed[i] \in BOOLEAN
    BY <1>1 DEF ListenTyped
  <1>3. UNCHANGED <<handle, started, stopped, stop, waitFor, cancelled, at, removals, term>>
        /\ throttle' = [throttle EXCEPT ![i] = throttle[i]]
    BY <1>2 DEF Refresh, runOneToolsChangedRound, RoundOver
  <1>4. refresh[i].at \in {"spawned", "round"}
    BY DEF Refresh, runOneToolsChangedRound, RoundOver
  <1>5. refresh[i].running = TRUE /\ stop # "returned"
    <2>1. refresh[i].running # FALSE /\ refresh[i].running \in BOOLEAN
      BY <1>1, <1>2, <1>4 DEF Unwound
    <2> QED  BY <1>1, <2>1 DEF Unwound
  <1>6. CASE runOneToolsChangedRound(i)
    <2> DEFINE re == [refresh[i] EXCEPT !.at = "round"]
    <2>1. refresh' = [refresh EXCEPT ![i] = re] /\ owed' = [owed EXCEPT ![i] = FALSE]
      BY <1>2, <1>6 DEF runOneToolsChangedRound
    <2>2. re \in R /\ re.running = TRUE /\ re.at = "round"
      BY <1>2, <1>5
    <2> HIDE DEF re
    <2> QED  BY <1>2, <1>3, <1>5, <2>1, <2>2, RefreshKeeps
  <1>7. CASE RoundOver(i)
    <2> DEFINE re == IF refresh[i].dirty THEN [refresh[i] EXCEPT !.dirty = FALSE, !.at = "spawned"] ELSE NoRefresh
    <2>1. refresh' = [refresh EXCEPT ![i] = re] /\ owed' = [owed EXCEPT ![i] = owed[i]] /\ refresh[i].at = "round"
      BY <1>2, <1>7 DEF RoundOver
    <2>2. /\ refresh[i].dirty = TRUE => re \in R /\ re.running = TRUE /\ re.at = "spawned"
          /\ refresh[i].dirty = FALSE => re = NoRefresh
          /\ refresh[i].dirty \in BOOLEAN
      BY <1>2, <1>5
    <2>3. NoRefresh \in R /\ NoRefresh.running = FALSE /\ NoRefresh.at = "none" /\ NoRefresh.dirty = FALSE
      BY DEF NoRefresh
    <2> HIDE DEF re
    <2>4. CASE refresh[i].dirty = TRUE
      BY <1>2, <1>3, <1>5, <2>1, <2>2, <2>4, RefreshKeeps
    <2>5. CASE refresh[i].dirty = FALSE
      <3>1. owed[i] = TRUE /\ cancelled[i] = FALSE => throttle[i].timer = TRUE /\ throttle[i].pending = TRUE
        BY <1>1, <1>2, <2>1, <2>5 DEF NoSignalLost
      <3> QED  BY <1>2, <1>3, <1>5, <2>1, <2>2, <2>3, <2>5, <3>1, RefreshKeeps
    <2> QED  BY <2>2, <2>4, <2>5
  <1> QED  BY <1>6, <1>7 DEF Refresh

LEMMA WaitedInv ==
    ASSUME ListenInv, Waited
    PROVE  ListenInv'
  <1>1. ListenTyped /\ InOrder /\ Unwound /\ NoSignalLost
    BY DEF ListenInv
  <1>2. /\ UNCHANGED <<handle, started, stopped, waitFor, cancelled, at, throttle, refresh, removals, term, owed>>
        /\ stop = "waiting" /\ stop' = "returned"
    BY DEF Waited
  <1>3. \A i \in Listeners : at[i] \in {"unborn", "gone"} /\ refresh[i].running = FALSE
    BY <1>1 DEF Waited, Alive, ListenTyped
  <1>4. ListenTyped'
    BY <1>1, <1>2 DEF ListenTyped
  <1>5. InOrder' /\ NoSignalLost'
    BY <1>1, <1>2 DEF InOrder, NoSignalLost
  <1>6. Unwound'
    BY <1>1, <1>2, <1>3 DEF Unwound
  <1> QED  BY <1>4, <1>5, <1>6 DEF ListenInv

LEMMA ListenStep == ListenInv /\ [Next]_vars => ListenInv'
  <1> SUFFICES ASSUME ListenInv, [Next]_vars PROVE ListenInv'
    OBVIOUS
  <1>1. ASSUME NEW t \in Transports, Reconcile(t) PROVE ListenInv'
    BY <1>1, ReconcileInv
  <1>2. CASE ReconcileWithout \/ Stop
    BY <1>2, LetGoInv
  <1>3. CASE Waited
    BY <1>3, WaitedInv
  <1>4. ASSUME NEW i \in Listeners, Unwind(i) PROVE ListenInv'
    BY <1>4, UnwindInv
  <1>5. ASSUME NEW i \in Listeners, Refresh(i) PROVE ListenInv'
    BY <1>5, RoundInv
  <1>6. ASSUME NEW i \in Listeners, onWindowEnd(i) PROVE ListenInv'
    BY <1>6, WindowInv
  <1>7. ASSUME NEW i \in Listeners,
               \/ \E r \in Replies : Connect(i, r)
               \/ \E m \in Messages : Receive(i, m)
               \/ \E result \in {"idle", "error"} : Lose(i, result)
               \/ sleepListen(i)
        PROVE  ListenInv'
    BY <1>7, ConnectInv
  <1>8. CASE UNCHANGED vars
    BY <1>8 DEF vars, ListenInv, ListenTyped, InOrder, Unwound, NoSignalLost
  <1> QED  BY <1>1, <1>2, <1>3, <1>4, <1>5, <1>6, <1>7, <1>8 DEF Next, Over

\* The listeners keep their order and their books in every state, for any number of
\* starts, transports, replies and messages (listen_manager.go:199-481, 691-749).
THEOREM ListenInvariance == Spec => []ListenInv
  BY ListenInit, ListenStep, PTL DEF Spec

\* Two listeners of one server are connected at once only across a removal, and
\* nothing listens or refreshes once Stop has returned: a replaced listener is
\* waited for, however long the chain (listen_manager.go:199-330, 467-481).
THEOREM ListenersAlwaysHandOver == Spec => []ListenersHandOver
  <1>1. ListenInv => ListenersHandOver
    <2> SUFFICES ASSUME ListenInv PROVE ListenersHandOver
      OBVIOUS
    <2>1. ListenTyped /\ InOrder /\ Unwound
      BY DEF ListenInv
    <2>2. ASSUME NEW i \in Listeners, NEW j \in Listeners, i < j,
                 at[i] = "connected", at[j] = "connected"
          PROVE  term[i] # term[j]
      <3>1. j <= started
        BY <2>1, <2>2, ListenAssumption DEF InOrder, ListenTyped
      <3> QED  BY <2>1, <2>2, <3>1 DEF InOrder
    <2>3. \A i, j \in Listeners : i # j => i < j \/ j < i
      BY ListenAssumption
    <2>4. \A i, j \in Listeners :
             i # j /\ at[i] = "connected" /\ at[j] = "connected" => term[i] # term[j]
      BY <2>2, <2>3
    <2>5. stop = "returned" => \A i \in Listeners : ~Alive(i) /\ ~refresh[i].running
      BY <2>1 DEF Unwound, Alive
    <2> QED  BY <2>4, <2>5 DEF ListenersHandOver
  <1> QED  BY <1>1, ListenInvariance, PTL

\* No change signal is lost between the throttle and the refresh loop
\* (listen_manager.go:371-452, 691-749).
THEOREM SignalsAreKept == Spec => []NoSignalLost
  <1>1. ListenInv => NoSignalLost
    BY DEF ListenInv
  <1> QED  BY <1>1, ListenInvariance, PTL
=============================================================================
