------------------------------ MODULE KeyCache ------------------------------
(***************************************************************************)
(* The authentication cache of every instance and the handlers that keep   *)
(* it in step with the database: CreateAPIKey, UpdateAPIKey, RotateAPIKey, *)
(* DeleteAPIKey, DeleteUser (and its likes for memberships and service     *)
(* accounts), the periodic LoadKeysIntoCache, the invalidation messages    *)
(* over Redis, and auth.Middleware.  Database and cache are separate: each *)
(* access to either is a step.                                             *)
(*                                                                         *)
(* A cached key is "live" (no expiry), "grace" (an expiry in the future    *)
(* when it was set) or "none".  All keys belong to one user.  Redis is     *)
(* external: a published message reaches every subscribed instance, the    *)
(* publisher included, or is lost.                                         *)
(***************************************************************************)
EXTENDS Naturals, Sequences

CONSTANTS Nodes,     \* VoidLLM instances
          Keys,      \* key hashes
          OldKeys,   \* the keys that exist, and are cached, at the start
          Admins,    \* admin requests that can be under way at once
          Redis,     \* whether Redis is configured
          MaxOps     \* bound: admin requests in all

ASSUME KeyAssumption == OldKeys \subseteq Keys /\ MaxOps \in Nat

VARIABLES
    rec,        \* api_keys: absent, live, grace, expired or deleted
    ownerGone,  \* the owner's row is soft-deleted
    elapsed,    \* keys whose grace deadline has passed
    cache,      \* KeyCache of every instance
    snap,       \* what LoadAllActiveKeys returned to a refresh under way, or Off
    msgs,       \* invalidations on their way to each instance
    op,         \* admin requests under way
    ops,        \* admin requests made
    active,     \* history: keys that have been active in the database
    revoked     \* history: keys whose revocation an instance has confirmed

keyVars == <<rec, ownerGone, elapsed, cache, snap, msgs, op, ops, active, revoked>>

table == <<rec, ownerGone, elapsed, active>>

local == <<cache, snap, msgs, revoked>>

Off == [k \in Keys |-> "off"]

Idle == [kind |-> "idle"]

KeyInit ==
    /\ rec = [k \in Keys |-> IF k \in OldKeys THEN "live" ELSE "absent"]
    /\ ownerGone = FALSE
    /\ elapsed = {}
    /\ cache = [n \in Nodes |-> [k \in Keys |-> IF k \in OldKeys THEN "live" ELSE "none"]]
    /\ snap = [n \in Nodes |-> Off]
    /\ msgs = [n \in Nodes |-> <<>>]
    /\ op = [a \in Admins |-> Idle]
    /\ ops = 0
    /\ active = OldKeys
    /\ revoked = [n \in Nodes |-> {}]

\* What the row of k grants at this time.
Standing(k) == IF rec[k] = "grace" /\ k \in elapsed THEN "expired" ELSE rec[k]

\* LoadActiveKey and LoadAllActiveKeys, with auth.Cacheable: what may be cached.
Active(k) ==
    IF ownerGone \/ Standing(k) \in {"absent", "expired", "deleted"} THEN "none" ELSE rec[k]

\* auth.Middleware accepts the key.
Usable(n, k) == cache[n][k] = "live" \/ (cache[n][k] = "grace" /\ k \notin elapsed)

Exists(k) == rec[k] \notin {"absent", "deleted"}

\* A hash that no row and no request under way has taken.
Fresh(k) == rec[k] = "absent" /\ \A a \in Admins : op[a] # Idle => op[a].key # k

WriteRow(r) ==
    /\ UNCHANGED <<ownerGone, elapsed>>
    /\ rec' = r
    /\ active' = active \cup {k \in Keys : Active(k)' # "none"}

-----------------------------------------------------------------------------
(* Admin requests.  The ones whose first read matters later (the owner of  *)
(* a new key, the expiry of a rotated one) read and write in two steps.    *)

Begin(a, n, kind, k, old, pc, seen) ==
    /\ op[a] = Idle /\ ops < MaxOps
    /\ ops' = ops + 1
    /\ op' = [op EXCEPT ![a] = [kind |-> kind, n |-> n, key |-> k, old |-> old,
                                pc |-> pc, seen |-> seen, todo |-> {}, gone |-> {}]]
    /\ UNCHANGED local

CreateAPIKey(a, n, k) ==
    /\ Fresh(k) /\ ~ownerGone
    /\ Begin(a, n, "create", k, k, "write", "live")
    /\ UNCHANGED table

RotateAPIKey(a, n, k, new) ==
    /\ Exists(k) /\ Fresh(new)
    /\ Begin(a, n, "rotate", new, k, "write", Standing(k))
    /\ UNCHANGED table

\* An update of limits or name leaves the row's standing alone; one of
\* expires_at is taken to move it into the past.
UpdateAPIKey(a, n, k) ==
    /\ Exists(k)
    /\ \E r \in {rec, [rec EXCEPT ![k] = "expired"]} : WriteRow(r)
    /\ Begin(a, n, "update", k, k, "load", "none")

DeleteAPIKey(a, n, k) ==
    /\ Exists(k)
    /\ WriteRow([rec EXCEPT ![k] = "deleted"])
    /\ Begin(a, n, "delete", k, k, "list", "none")

DeleteUser(a, n, k) ==
    /\ ~ownerGone
    /\ ownerGone' = TRUE
    /\ Begin(a, n, "disown", k, k, "list", "none")
    /\ UNCHANGED <<rec, elapsed, active>>

At(a, pc) == op[a] # Idle /\ op[a].pc = pc

Go(a, pc) == op' = [op EXCEPT ![a].pc = pc]

\* The response is sent; keys evicted for good are now known to be revoked.
Return(a) ==
    /\ op' = [op EXCEPT ![a] = Idle]
    /\ revoked' = [revoked EXCEPT ![op[a].n] = @ \cup op[a].gone]

\* The insert of CreateAPIKey.
Insert(a) ==
    /\ At(a, "write") /\ op[a].kind = "create"
    /\ WriteRow([rec EXCEPT ![op[a].key] = "live"])
    /\ Go(a, "load")
    /\ UNCHANGED <<ops, cache, snap, msgs, revoked>>

\* RotateKeyTx: the new row copies the expiry read before, the old one gets the
\* grace deadline or, when it is sooner, the expiry read before.
RotateKeyTx(a) ==
    /\ At(a, "write") /\ op[a].kind = "rotate"
    /\ IF Exists(op[a].old)
       THEN /\ WriteRow([rec EXCEPT ![op[a].key] = op[a].seen,
                                    ![op[a].old] = IF op[a].seen = "live" THEN "grace" ELSE op[a].seen])
            /\ Go(a, "load")
            /\ UNCHANGED revoked
       ELSE Return(a) /\ UNCHANGED table
    /\ UNCHANGED <<ops, cache, snap, msgs>>

\* LoadActiveKey; a query error is possible at any time.
LoadActiveKey(a) ==
    /\ At(a, "load")
    /\ \E seen \in {Active(op[a].key), "error"} :
         op' = [op EXCEPT ![a].seen = seen, ![a].pc = "apply"]
    /\ UNCHANGED <<table, ops, local>>

Put(n, k, v) == cache' = [cache EXCEPT ![n][k] = v]

Cacheable(a) == op[a].seen \in {"live", "grace"}

\* Mutant: the new key is cached from memory, as inserted.
PrimeUnchecked(a) ==
    /\ At(a, "apply") /\ op[a].kind \in {"create", "rotate"}
    /\ Put(op[a].n, op[a].key, "live")
    /\ IF op[a].kind = "create" THEN Return(a) ELSE Go(a, "getold") /\ UNCHANGED revoked
    /\ UNCHANGED <<table, ops, snap, msgs>>

\* CreateAPIKey and RotateAPIKey put what they loaded in the cache.
Prime(a) ==
    /\ At(a, "apply") /\ op[a].kind \in {"create", "rotate"}
    /\ IF Cacheable(a) THEN Put(op[a].n, op[a].key, op[a].seen) ELSE UNCHANGED cache
    /\ IF op[a].kind = "create" THEN Return(a) ELSE Go(a, "getold") /\ UNCHANGED revoked
    /\ UNCHANGED <<table, ops, snap, msgs>>

\* UpdateAPIKey replaces, evicts or (on a query error) leaves the entry.
Reload(a) ==
    /\ At(a, "apply") /\ op[a].kind = "update"
    /\ \/ Cacheable(a) /\ Put(op[a].n, op[a].key, op[a].seen) /\ Return(a)
       \/ op[a].seen = "none" /\ Put(op[a].n, op[a].key, "none") /\ Go(a, "publish") /\ UNCHANGED revoked
       \/ op[a].seen = "error" /\ Return(a) /\ UNCHANGED cache
    /\ UNCHANGED <<table, ops, snap, msgs>>

\* RotateAPIKey looks the old key up in the cache ...
GetOld(a) ==
    /\ At(a, "getold")
    /\ Go(a, IF cache[op[a].n][op[a].old] # "none" THEN "setold" ELSE "publish")
    /\ UNCHANGED <<table, ops, local>>

\* ... and, if it was there, stores it again with the expiry it wrote.
SetOld(a) ==
    /\ At(a, "setold")
    /\ Put(op[a].n, op[a].old, "grace")
    /\ Go(a, "publish")
    /\ UNCHANGED <<table, ops, snap, msgs, revoked>>

\* The hashes to evict: the key's own, or the owner's (none after a query error).
ListActiveKeyHashes(a) ==
    /\ At(a, "list")
    /\ \E hashes \in IF op[a].kind = "delete" THEN {{op[a].key}} ELSE {{k \in Keys : Exists(k)}, {}} :
         op' = [op EXCEPT ![a].todo = hashes, ![a].pc = "evict"]
    /\ UNCHANGED <<table, ops, local>>

Evict(a) ==
    /\ At(a, "evict")
    /\ \/ /\ op[a].todo = {}
          /\ Return(a)
          /\ UNCHANGED cache
       \/ \E k \in op[a].todo :
            /\ Put(op[a].n, k, "none")
            /\ op' = [op EXCEPT ![a].todo = @ \ {k}, ![a].gone = @ \cup {k},
                                ![a].old = k, ![a].pc = "publish"]
            /\ UNCHANGED revoked
    /\ UNCHANGED <<table, ops, snap, msgs>>

\* PublishInvalidation: every subscriber reached gets the message, this instance
\* included; an error is only logged.
PublishInvalidation(a) ==
    /\ At(a, "publish")
    /\ \E reached \in IF Redis THEN SUBSET Nodes ELSE {{}} :
         msgs' = [n \in Nodes |-> IF n \in reached THEN Append(msgs[n], op[a].old) ELSE msgs[n]]
    /\ IF op[a].kind \in {"delete", "disown"} THEN Go(a, "evict") /\ UNCHANGED revoked ELSE Return(a)
    /\ UNCHANGED <<table, ops, cache, snap>>

-----------------------------------------------------------------------------
(* The instances.                                                          *)

\* The subscriber's handler.
Deliver(n) ==
    /\ msgs[n] # <<>>
    /\ Put(n, Head(msgs[n]), "none")
    /\ msgs' = [msgs EXCEPT ![n] = Tail(@)]
    /\ UNCHANGED <<table, op, ops, snap, revoked>>

\* LoadKeysIntoCache: the query ...
RefreshRead(n) ==
    /\ snap[n] = Off
    /\ snap' = [snap EXCEPT ![n] = [k \in Keys |-> Active(k)]]
    /\ UNCHANGED <<table, op, ops, cache, msgs, revoked>>

\* Mutant: the refresh adds entries and removes none.
RefreshLoadMerging(n) ==
    /\ snap[n] # Off
    /\ cache' = [cache EXCEPT ![n] = [k \in Keys |-> IF snap[n][k] = "none" THEN @[k] ELSE snap[n][k]]]
    /\ snap' = [snap EXCEPT ![n] = Off]
    /\ UNCHANGED <<table, op, ops, msgs, revoked>>

\* ... and LoadAll, which swaps the whole map.
RefreshLoad(n) ==
    /\ snap[n] # Off
    /\ cache' = [cache EXCEPT ![n] = snap[n]]
    /\ snap' = [snap EXCEPT ![n] = Off]
    /\ UNCHANGED <<table, op, ops, msgs, revoked>>

\* auth.Middleware drops an entry that has expired when a request presents it.
Authenticate(n, k) ==
    /\ cache[n][k] = "grace" /\ k \in elapsed
    /\ Put(n, k, "none")
    /\ UNCHANGED <<table, op, ops, snap, msgs, revoked>>

GraceEnds(k) ==
    /\ rec[k] = "grace" /\ k \notin elapsed
    /\ elapsed' = elapsed \cup {k}
    /\ UNCHANGED <<rec, ownerGone, active, op, ops, local>>

Step(a) ==
    \/ Insert(a) \/ RotateKeyTx(a) \/ LoadActiveKey(a) \/ Prime(a) \/ Reload(a)
    \/ GetOld(a) \/ SetOld(a) \/ ListActiveKeyHashes(a) \/ Evict(a) \/ PublishInvalidation(a)

Request(a, n, k) ==
    \/ CreateAPIKey(a, n, k) \/ UpdateAPIKey(a, n, k)
    \/ DeleteAPIKey(a, n, k) \/ DeleteUser(a, n, k)
    \/ \E new \in Keys : RotateAPIKey(a, n, k, new)

KeyNext ==
    \/ \E a \in Admins : Step(a) \/ \E n \in Nodes, k \in Keys : Request(a, n, k)
    \/ \E n \in Nodes : Deliver(n) \/ RefreshRead(n) \/ RefreshLoad(n)
    \/ \E n \in Nodes, k \in Keys : Authenticate(n, k)
    \/ \E k \in Keys : GraceEnds(k)

KeySpec == KeyInit /\ [][KeyNext]_keyVars

\* Handlers run to their end, the ticker of StartCacheRefresh keeps firing and
\* a reload sooner or later succeeds.  Nothing is assumed of Redis or of time.
KeyFairness ==
    /\ \A a \in Admins : WF_keyVars(Step(a))
    /\ \A n \in Nodes : WF_keyVars(RefreshRead(n)) /\ WF_keyVars(RefreshLoad(n))
    /\ \A n \in Nodes : WF_keyVars(Deliver(n))

-----------------------------------------------------------------------------
(* Properties.                                                             *)

Cached == {"none", "live", "grace"}
Standings == {"absent", "live", "grace", "expired", "deleted"}

\* A request under way.
Tasks ==
    [kind : {"create", "rotate", "update", "delete", "disown"}, n : Nodes, key : Keys, old : Keys,
     pc : {"write", "load", "apply", "getold", "setold", "list", "evict", "publish"},
     seen : Cached \cup Standings \cup {"error"}, todo : SUBSET Keys, gone : SUBSET Keys]

\* Only well-formed entries reach a cache: in particular a failed LoadActiveKey
\* is never stored.
KeyTypeOK ==
    /\ rec \in [Keys -> Standings]
    /\ ownerGone \in BOOLEAN /\ elapsed \subseteq Keys
    /\ cache \in [Nodes -> [Keys -> Cached]]
    /\ snap \in [Nodes -> [Keys -> Cached] \cup {Off}]
    /\ msgs \in [Nodes -> Seq(Keys)]
    /\ op \in [Admins -> Tasks \cup {Idle}]
    /\ ops \in 0 .. MaxOps /\ active \subseteq Keys /\ revoked \in [Nodes -> SUBSET Keys]

\* A key authenticates only if the database once held it active: a key created
\* or rotated for an owner deleted meanwhile, or copied from an expired key,
\* never enters a cache (the fresh LoadActiveKey and Cacheable before Set).
OnlyActiveKeysAdmitted == \A n \in Nodes, k \in Keys : cache[n][k] # "none" => k \in active

\* Every instance agrees with the database: no revoked key is accepted and
\* every active key is cached as it is.
InStep ==
    \A n \in Nodes, k \in Keys :
        IF Active(k) = "none" THEN ~Usable(n, k) ELSE cache[n][k] = Active(k)

\* Whatever races, lost messages and query errors happened, once the admin
\* requests have ended the instances come to agree with the database.
Converges == <>[]InStep

-----------------------------------------------------------------------------
(* What is written about the code and does not hold (see README.md).       *)

\* "Soft-deletes the API key and immediately evicts it from the auth cache. The
\* key will be rejected by the proxy without delay" (DeleteAPIKey): on the
\* instance that answered, a revoked key stays unusable.
RevokedStaysOut == \A n \in Nodes : \A k \in revoked[n] : ~Usable(n, k)

\* "rotateKeyGracePeriod is the duration an old key remains valid after
\* rotation": a key that was in use and is in its grace period is accepted.
GraceKeepsWorking ==
    \A n \in Nodes, k \in OldKeys :
        rec[k] = "grace" /\ Active(k) # "none" => Usable(n, k)

\* "If it already has an expiry that is sooner than the grace period deadline,
\* keep that shorter expiry" (RotateAPIKey): a rotation never revives a key.
ExpiryIsNeverExtended ==
    [][\A k \in Keys : rec[k] = "expired" => rec'[k] \in {"expired", "deleted"}]_keyVars
=============================================================================
