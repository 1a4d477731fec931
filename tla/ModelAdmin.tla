----------------------------- MODULE ModelAdmin -----------------------------
(***************************************************************************)
(* Administration of the models: the tables models and model_deployments,  *)
(* the registry of every instance, the handlers that write both, and the   *)
(* reload that a deployment change, a licence change or an invalidation    *)
(* message starts.                                                         *)
(*                                                                         *)
(* A handler reads, writes the table, changes the registry of its own      *)
(* instance and publishes; requests interleave between these. With Redis   *)
(* there are several instances, and each one subscribes. Without, there is *)
(* one. A statement that fails for reasons other than the data is left     *)
(* out, and so are the columns no step below reads.                        *)
(***************************************************************************)
EXTENDS Naturals, FiniteSets

CONSTANTS
    Nodes, Requests,
    Ids,    \* natural numbers: the table's ids, in the order they are given out
    Names, Deps,
    NewNames, AliasLists, \* the names and alias lists requests bring
    Yaml,   \* configured models: name -> Absent or [aliases, deps]
    fallbackCycleMaxSteps,
    MaxOps, \* bound on the requests of a run
    First   \* the instance that runs without Redis

YamlModels == [aliases : SUBSET Names, deps : [Deps -> 0..2]]

\* Ids, names, actors and what stands for none of them are apart.
ASSUME ModelAssumption ==
    /\ "none" \notin Names \cup Nodes \cup Requests
    /\ Nodes \cap Requests = {} /\ First \in Nodes
    /\ Ids \subseteq Nat \ {0}
    /\ NewNames \subseteq Names /\ AliasLists \subseteq SUBSET Names
    /\ \A x \in Names : Yaml[x] \in YamlModels \cup {[absent |-> TRUE]}
    /\ fallbackCycleMaxSteps \in Nat /\ MaxOps \in Nat

VARIABLES
    models,   \* table: id -> [name, aliases, fallback, active, source, status]
    deps,     \* table: <<model, deployment>> -> weight, 0 for none
    registry, \* per instance
    license,  \* per instance: whether it includes fallback chains
    redis,    \* whether Redis is configured
    inbox,    \* per instance: invalidation messages to handle
    mu,       \* per instance: who holds fallbackMu
    at, arg,  \* per request and per subscriber: the next step, what it knows
    snap,     \* the rows its reload still has to add
    ops

vars == <<models, deps, registry, license, redis, inbox, mu, at, arg, snap, ops>>

None == "none"
Absent == [absent |-> TRUE]
Reg == INSTANCE Registry

Up == IF redis THEN Nodes ELSE {First}
Actors == Requests \cup Nodes

NoRow == [name |-> None, aliases |-> {}, fallback |-> 0, active |-> FALSE, source |-> None, status |-> None]
Idle == [node |-> None, id |-> 0, old |-> None, set |-> [field |-> None], row |-> NoRow, fallback |-> None]

(***************************************************************************)
(* The table models.                                                       *)
(***************************************************************************)
Live(i) == i \in Ids /\ models[i].status = "live"
GetModelByName(x) == {i \in Ids : Live(i) /\ models[i].name = x}
GetModelIDByName(x) == CHOOSE i \in GetModelByName(x) : TRUE
ListActiveModels == {i \in Ids : Live(i) /\ models[i].active}
NameOf(i) == IF Live(i) THEN models[i].name ELSE None

(* The id a new row gets: ids grow with time. *)
NewId(i) == models[i].status = None /\ \A j \in Ids : models[j].status = None => i <= j

CreateRow(i, x, as, fb, source) ==
    [models EXCEPT ![i] = [name |-> x, aliases |-> as, fallback |-> fb, active |-> TRUE,
                           source |-> source, status |-> "live"]]

(* A deleted row keeps its id and loses its name to the tombstone. *)
DeleteRow(i) == [models EXCEPT ![i] = [models[i] EXCEPT !.name = None, !.status = "gone"]]

(***************************************************************************)
(* What goes into the registry. An entry the handlers make has neither     *)
(* deployments nor strategy; the one a reload makes has.                   *)
(***************************************************************************)
dbModelToProxy(row, fb) == [aliases |-> row.aliases, deps |-> [d \in Deps |-> 0], fallback |-> fb]

ListActiveDeployments(i) == [d \in Deps |-> deps[<<i, d>>]]

LoadedModel(row, i, fb) == [aliases |-> row.aliases, deps |-> ListActiveDeployments(i), fallback |-> fb]

resolveFallbackName(i) == NameOf(i)

(* buildFallbackIDNameMap: only the active models have a name in it. *)
FallbackAmongActive(i) ==
    IF models[i].fallback \in ListActiveModels THEN models[models[i].fallback].name ELSE None

(* Neither the registry nor the table may know an alias, but for the model it is for. *)
validateAndJoinAliases(n, as, exclude) ==
    \A a \in as : /\ Reg!Resolve(registry[n], a) \in {None, exclude}
                  /\ \A i \in GetModelByName(a) : models[i].name = exclude

(* The walk follows the stored links, at most fallbackCycleMaxSteps of them. *)
checkFallbackCycle(source, target) ==
    \/ source = target
    \/ \E k \in 1..fallbackCycleMaxSteps : \E walk \in [0..k -> Ids] :
          /\ walk[0] = target /\ walk[k] = source
          /\ \A j \in 1..k : Live(walk[j - 1]) /\ models[walk[j - 1]].fallback = walk[j]

(***************************************************************************)
(* Requests.                                                               *)
(***************************************************************************)
Begin(r, n, next, x) ==
    /\ at[r] = "idle" /\ ops < MaxOps /\ n \in Up
    /\ ops' = ops + 1
    /\ at' = [at EXCEPT ![r] = next]
    /\ arg' = [arg EXCEPT ![r] = [x EXCEPT !.node = n]]

Goto(r, here, next, x) ==
    /\ at[r] = here
    /\ at' = [at EXCEPT ![r] = next]
    /\ arg' = [arg EXCEPT ![r] = IF next = "idle" THEN Idle ELSE x]
    /\ UNCHANGED ops

Rest == <<license, redis>>
Memory == <<registry, license, redis, inbox, snap>>

(* The licence, the target and the aliases are checked before the lock. *)
CreateModel(r, n, x, as, fb) ==
    /\ validateAndJoinAliases(n, as, None)
    /\ fb # None => license[n] /\ GetModelByName(fb) # {} /\ fb # x
    /\ Begin(r, n, IF fb = None THEN "insert" ELSE "lock insert",
             [Idle EXCEPT !.fallback = fb,
                          !.row = [NoRow EXCEPT !.name = x, !.aliases = as,
                                                !.fallback = IF fb = None THEN 0 ELSE GetModelIDByName(fb)]])
    /\ UNCHANGED <<models, deps, mu, Memory>>

\* Mutant: the lock is taken whether it is free or not.
LockIgnored(r) ==
    /\ at[r] \in {"lock insert", "lock update"}
    /\ mu' = [mu EXCEPT ![arg[r].node] = r]
    /\ Goto(r, at[r], IF at[r] = "lock insert" THEN "insert" ELSE "check", arg[r])
    /\ UNCHANGED <<models, deps, Memory>>

(* fallbackMu, held to the end of the handler. *)
Lock(r) ==
    /\ at[r] \in {"lock insert", "lock update"} /\ mu[arg[r].node] = None
    /\ mu' = [mu EXCEPT ![arg[r].node] = r]
    /\ Goto(r, at[r], IF at[r] = "lock insert" THEN "insert" ELSE "check", arg[r])
    /\ UNCHANGED <<models, deps, Memory>>

Unlock(r) == mu' = [n \in Nodes |-> IF mu[n] = r THEN None ELSE mu[n]]

(* ErrConflict when a live model has the name. *)
InsertModel(r) ==
    LET row == arg[r].row IN
    /\ at[r] = "insert"
    /\ IF GetModelByName(row.name) # {}
       THEN Goto(r, "insert", "idle", Idle) /\ Unlock(r) /\ UNCHANGED models
       ELSE \E i \in Ids :
            /\ NewId(i)
            /\ models' = CreateRow(i, row.name, row.aliases, row.fallback, "api")
            /\ Goto(r, "insert", "add", [arg[r] EXCEPT !.old = row.name, !.row = models'[i]])
            /\ UNCHANGED mu
    /\ UNCHANGED <<deps, Memory>>

(* set names the field the request changes, and the new value. *)
UpdateModel(r, n, i, set) ==
    /\ Live(i)
    /\ set.field = "aliases" => validateAndJoinAliases(n, set.value, models[i].name)
    /\ set.field = "fallback" /\ set.value # None =>
          license[n] /\ GetModelByName(set.value) # {} /\ GetModelIDByName(set.value) # i
    /\ LET linked == set.field = "fallback" /\ set.value # None IN
       Begin(r, n, IF linked THEN "lock update" ELSE "update",
             [Idle EXCEPT !.id = i, !.old = models[i].name,
                          !.set = IF linked THEN [field |-> "fallback", value |-> GetModelIDByName(set.value)]
                                  ELSE IF set.field = "fallback" THEN [field |-> "fallback", value |-> 0]
                                  ELSE set,
                          !.fallback = IF set.field = "fallback" THEN set.value
                                       ELSE resolveFallbackName(models[i].fallback)])
    /\ UNCHANGED <<models, deps, mu, Memory>>

CheckCycle(r) ==
    /\ at[r] = "check"
    /\ IF checkFallbackCycle(arg[r].id, arg[r].set.value)
       THEN Goto(r, "check", "idle", Idle) /\ Unlock(r)
       ELSE Goto(r, "check", "update", arg[r]) /\ UNCHANGED mu
    /\ UNCHANGED <<models, deps, Memory>>

Changed(row, set) ==
    CASE set.field = "name" -> [row EXCEPT !.name = set.value]
      [] set.field = "aliases" -> [row EXCEPT !.aliases = set.value]
      [] OTHER -> [row EXCEPT !.fallback = set.value]

(* One transaction: the UPDATE, and the row as it is then. *)
UpdateRow(r) ==
    LET i == arg[r].id set == arg[r].set IN
    /\ at[r] = "update"
    /\ IF ~Live(i) \/ (set.field = "name" /\ GetModelByName(set.value) \ {i} # {})
       THEN Goto(r, "update", "idle", Idle) /\ Unlock(r) /\ UNCHANGED models
       ELSE /\ models' = [models EXCEPT ![i] = Changed(models[i], set)]
            /\ Goto(r, "update", "add", [arg[r] EXCEPT !.row = models'[i]])
            /\ UNCHANGED mu
    /\ UNCHANGED <<deps, Memory>>

DeleteModel(r, n, i) ==
    /\ Live(i)
    /\ Begin(r, n, "delete", [Idle EXCEPT !.id = i, !.old = models[i].name])
    /\ UNCHANGED <<models, deps, mu, Memory>>

DeactivateModel(r, n, i) ==
    /\ Live(i)
    /\ Begin(r, n, "deactivate", [Idle EXCEPT !.id = i, !.old = models[i].name])
    /\ UNCHANGED <<models, deps, mu, Memory>>

(* DeleteModel's and DeactivateModel's statement. *)
TakeOut(r) ==
    LET i == arg[r].id IN
    /\ at[r] \in {"delete", "deactivate"}
    /\ IF Live(i)
       THEN /\ models' = IF at[r] = "delete" THEN DeleteRow(i)
                         ELSE [models EXCEPT ![i] = [models[i] EXCEPT !.active = FALSE]]
            /\ Goto(r, at[r], "remove", arg[r])
       ELSE Goto(r, at[r], "idle", Idle) /\ UNCHANGED models
    /\ UNCHANGED <<deps, mu, Memory>>

ActivateModel(r, n, i) ==
    /\ Live(i)
    /\ models' = [models EXCEPT ![i] = [models[i] EXCEPT !.active = TRUE]]
    /\ Begin(r, n, "get", [Idle EXCEPT !.id = i])
    /\ UNCHANGED <<deps, mu, Memory>>

(* The row is read again; a delete in between is an internal error. *)
GetActivated(r) ==
    LET i == arg[r].id IN
    /\ at[r] = "get"
    /\ IF Live(i)
       THEN Goto(r, "get", "add", [arg[r] EXCEPT !.row = models[i], !.old = models[i].name,
                                                 !.fallback = resolveFallbackName(models[i].fallback)])
       ELSE Goto(r, "get", "idle", Idle)
    /\ UNCHANGED <<models, deps, mu, Memory>>

(* The local registry: by the name read before and the row written. *)
ChangeRegistry(r) ==
    LET n == arg[r].node row == arg[r].row old == arg[r].old
        R == IF at[r] = "remove" \/ ~row.active \/ row.name # old
             THEN Reg!RemoveModel(registry[n], old) ELSE registry[n]
    IN /\ at[r] \in {"add", "remove"}
       /\ registry' = [registry EXCEPT ![n] =
             IF at[r] = "add" /\ row.active THEN Reg!AddModel(R, row.name, dbModelToProxy(row, arg[r].fallback))
                                            ELSE R]
       /\ Goto(r, at[r], "publish", arg[r])
       /\ UNCHANGED <<models, deps, mu, Rest, inbox, snap>>

(* PublishInvalidation reaches every instance, the sender's own too. *)
Publish(r) ==
    /\ Goto(r, "publish", "idle", Idle) /\ Unlock(r)
    /\ inbox' = [n \in Nodes |-> IF redis THEN inbox[n] + 1 ELSE inbox[n]]
    /\ UNCHANGED <<models, deps, registry, Rest, snap>>

(***************************************************************************)
(* Deployments: one statement each, then a reload of the own registry.     *)
(***************************************************************************)
GetDeployment(i, d) == deps[<<i, d>>] > 0
CreateDeployment(i, d) == [deps EXCEPT ![<<i, d>>] = 1]
UpdateDeployment(i, d) == [deps EXCEPT ![<<i, d>>] = 3 - deps[<<i, d>>]]
DeleteDeployment(i, d) == [deps EXCEPT ![<<i, d>>] = 0]

createDeployment(r, n, i, d) ==
    /\ Live(i) /\ ~GetDeployment(i, d)
    /\ deps' = CreateDeployment(i, d)
    /\ Begin(r, n, "reload", Idle)
    /\ UNCHANGED <<models, mu, Memory>>

updateDeployment(r, n, i, d) ==
    /\ Live(i) /\ GetDeployment(i, d)
    /\ deps' = UpdateDeployment(i, d)
    /\ Begin(r, n, "reload", Idle)
    /\ UNCHANGED <<models, mu, Memory>>

deleteDeployment(r, n, i, d) ==
    /\ Live(i) /\ GetDeployment(i, d)
    /\ deps' = DeleteDeployment(i, d)
    /\ Begin(r, n, "reload", Idle)
    /\ UNCHANGED <<models, mu, Memory>>

(* The licence is stored for this instance, which then reloads. *)
SetLicense(r, n, feature) ==
    /\ license' = [license EXCEPT ![n] = feature]
    /\ Begin(r, n, "reload", Idle)
    /\ UNCHANGED <<models, deps, mu, registry, redis, inbox, snap>>

(***************************************************************************)
(* loadModelsIntoRegistry, run by a request or by the subscriber.          *)
(***************************************************************************)
NodeOf(a) == IF a \in Nodes THEN a ELSE arg[a].node

Snapshot == {[id |-> i, row |-> models[i], fallback |-> FallbackAmongActive(i)] : i \in ListActiveModels}

(* The subscriber's handler starts by reading, one message after another. *)
Receive(n) ==
    /\ inbox[n] > 0
    /\ inbox' = [inbox EXCEPT ![n] = inbox[n] - 1]
    /\ Goto(n, "idle", "load", Idle)
    /\ snap' = [snap EXCEPT ![n] = Snapshot]
    /\ UNCHANGED <<models, deps, registry, Rest, mu>>

ReadModels(a) ==
    /\ Goto(a, "reload", "load", arg[a])
    /\ snap' = [snap EXCEPT ![a] = Snapshot]
    /\ UNCHANGED <<models, deps, registry, Rest, inbox, mu>>

\* Mutant: the deployments are not read.
LoadOneBare(a) ==
    \E m \in snap[a] :
        /\ \A other \in snap[a] : m.id <= other.id
        /\ Goto(a, "load", "load", arg[a])
        /\ registry' = [registry EXCEPT ![NodeOf(a)] =
              Reg!AddModel(registry[NodeOf(a)], m.row.name, dbModelToProxy(m.row, m.fallback))]
        /\ snap' = [snap EXCEPT ![a] = snap[a] \ {m}]
        /\ UNCHANGED <<models, deps, Rest, inbox, mu>>

(* One row at a time, by id; its deployments are read now. *)
LoadOne(a) ==
    \E m \in snap[a] :
        /\ \A other \in snap[a] : m.id <= other.id
        /\ Goto(a, "load", "load", arg[a])
        /\ registry' = [registry EXCEPT ![NodeOf(a)] =
              Reg!AddModel(registry[NodeOf(a)], m.row.name, LoadedModel(m.row, m.id, m.fallback))]
        /\ snap' = [snap EXCEPT ![a] = snap[a] \ {m}]
        /\ UNCHANGED <<models, deps, Rest, inbox, mu>>

gateFallback(R, n) == IF license[n] THEN R ELSE Reg!StripAllFallbacks(R)

(* Nothing is removed: what is not in the table any more stays. *)
FinishLoad(a) ==
    /\ snap[a] = {}
    /\ Goto(a, "load", IF a \in Nodes THEN "idle" ELSE "publish", arg[a])
    /\ registry' = [registry EXCEPT ![NodeOf(a)] = gateFallback(registry[NodeOf(a)], NodeOf(a))]
    /\ UNCHANGED <<models, deps, Rest, inbox, mu, snap>>

(***************************************************************************)
(* Start-up: the configured models go into the table and into the new      *)
(* registry, and the table on top of it.                                   *)
(***************************************************************************)
Configured == {x \in Names : Yaml[x] # Absent}

(* The row of a configured model: by name, but not one the API made. *)
YamlRow(t, x) == {i \in Ids : t[i].status = "live" /\ t[i].name = x}
Missing(t) == {x \in Configured : YamlRow(t, x) = {}}

(* The ids the rows of the missing models get. *)
NewIds(t) == CHOOSE f \in [Missing(t) -> {i \in Ids : t[i].status = None}] :
                 \A x, y \in Missing(t) : x # y => f[x] # f[y]

SyncYAMLModels(t) ==
    [i \in Ids |->
        IF \E x \in Missing(t) : NewIds(t)[x] = i
        THEN LET x == CHOOSE x \in Missing(t) : NewIds(t)[x] = i IN
             [name |-> x, aliases |-> Yaml[x].aliases, fallback |-> 0, active |-> TRUE,
              source |-> "yaml", status |-> "live"]
        ELSE IF t[i].status = "live" /\ t[i].source = "yaml" /\ t[i].name \in Configured
        THEN [t[i] EXCEPT !.aliases = Yaml[t[i].name].aliases]
        ELSE t[i]]

(* Missing deployments are created, the others updated or deleted. *)
syncYAMLDeployments(t, dt) ==
    [x \in Ids \X Deps |->
        LET row == t[x[1]] IN
        IF row.status = "live" /\ row.source = "yaml" /\ row.name \in Configured
        THEN Yaml[row.name].deps[x[2]] ELSE dt[x]]

NewRegistry ==
    [models  |-> [x \in Names |-> IF x \in Configured
                     THEN [aliases |-> Yaml[x].aliases, deps |-> Yaml[x].deps, fallback |-> None] ELSE Absent],
     aliases |-> [a \in Names |-> IF \E x \in Configured : a \in Yaml[x].aliases
                     THEN CHOOSE x \in Configured : a \in Yaml[x].aliases ELSE None]]

Init ==
    /\ models = SyncYAMLModels([i \in Ids |-> NoRow])
    /\ deps = syncYAMLDeployments(models, [x \in Ids \X Deps |-> 0])
    /\ registry = [n \in Nodes |-> NewRegistry]
    /\ license \in {[n \in Nodes |-> TRUE]}
    /\ redis \in BOOLEAN
    /\ inbox = [n \in Nodes |-> 0]
    /\ mu = [n \in Nodes |-> None]
    /\ at = [a \in Actors |-> "idle"]
    /\ arg = [a \in Actors |-> Idle]
    /\ snap = [a \in Actors |-> {}]
    /\ ops = 0

(* A restart of the only instance, with nothing in flight. *)
Restart ==
    /\ ~redis /\ ops < MaxOps /\ \A a \in Actors : at[a] = "idle"
    /\ ops' = ops + 1
    /\ Cardinality(Missing(models)) <= Cardinality({i \in Ids : models[i].status = None})
    /\ models' = SyncYAMLModels(models)
    /\ deps' = syncYAMLDeployments(models', deps)
    /\ registry' = [registry EXCEPT ![First] = NewRegistry]
    /\ at' = [at EXCEPT ![First] = "reload"]
    /\ UNCHANGED <<license, redis, inbox, mu, arg, snap>>

Changes ==
    [field : {"name"}, value : NewNames] \cup [field : {"fallback"}, value : Names \cup {None}]
    \cup [field : {"aliases"}, value : AliasLists]

Handler(r) ==
    \/ \E n \in Nodes, x \in NewNames, as \in AliasLists, fb \in Names \cup {None} :
          CreateModel(r, n, x, as, fb)
    \/ \E n \in Nodes, i \in Ids, set \in Changes : UpdateModel(r, n, i, set)
    \/ \E n \in Nodes, i \in Ids : DeleteModel(r, n, i)
    \/ \E n \in Nodes, i \in Ids : DeactivateModel(r, n, i)
    \/ \E n \in Nodes, i \in Ids : ActivateModel(r, n, i)
    \/ \E n \in Nodes, i \in Ids, d \in Deps : createDeployment(r, n, i, d)
    \/ \E n \in Nodes, i \in Ids, d \in Deps : updateDeployment(r, n, i, d)
    \/ \E n \in Nodes, i \in Ids, d \in Deps : deleteDeployment(r, n, i, d)
    \/ \E n \in Nodes, feature \in BOOLEAN : SetLicense(r, n, feature)
    \/ Lock(r) \/ InsertModel(r) \/ CheckCycle(r) \/ UpdateRow(r) \/ TakeOut(r)
    \/ GetActivated(r) \/ ChangeRegistry(r) \/ Publish(r)

Next ==
    \/ \E r \in Requests : Handler(r)
    \/ \E n \in Nodes : Receive(n)
    \/ \E a \in Actors : ReadModels(a) \/ LoadOne(a) \/ FinishLoad(a)
    \/ Restart

Spec == Init /\ [][Next]_vars

TypeOK ==
    /\ \A i \in Ids : models[i].name \in Names \cup {None} /\ models[i].fallback \in Ids \cup {0}
    /\ deps \in [Ids \X Deps -> 0..2]
    /\ mu \in [Nodes -> Requests \cup {None}]
    /\ \A n \in Nodes : registry[n].aliases \in [Names -> Names \cup {None}]

(***************************************************************************)
(* Properties.                                                             *)
(***************************************************************************)
(* In every registry an alias leads to a model that is there and has it,   *)
(* although handlers and reloads write entries in any order and aliases    *)
(* pass from model to model: Resolve follows it without a check.           *)
NoDanglingAlias == \A n \in Nodes : Reg!AliasesLead(registry[n])

Linked(i, j) == Live(i) /\ Live(j) /\ models[i].fallback = j
(* On a single instance the stored fallback links form no cycle, whatever  *)
(* requests link, unlink, delete and rename models at the same time.       *)
FallbackAcyclic ==
    ~redis => ~\E S \in SUBSET Ids : S # {} /\ \A i \in S : \E j \in S : Linked(i, j)

Quiet == /\ \A a \in Actors : at[a] = "idle"
         /\ \A n \in Nodes : inbox[n] = 0

(* With Redis, once every request has been answered and every message      *)
(* handled, each instance serves each active model as the tables have it:  *)
(* its aliases, its deployments, and its fallback where the instance's     *)
(* licence includes that. Handlers write entries without deployments, in   *)
(* any order; the reload that follows each of them has to set them right.  *)
ServedAsStored ==
    redis /\ Quiet => \A n \in Nodes, i \in ListActiveModels :
        registry[n].models[models[i].name] =
            LoadedModel(models[i], i, IF license[n] THEN FallbackAmongActive(i) ELSE None)

(* What the comment on loadModelsIntoRegistry says of the instances: once  *)
(* all is quiet, none of them serves a model that another one took out.    *)
InstancesConsistent ==
    redis /\ Quiet => \A n \in Nodes, x \in Names :
        Reg!Has(registry[n], x) => \E i \in ListActiveModels : models[i].name = x
=============================================================================
