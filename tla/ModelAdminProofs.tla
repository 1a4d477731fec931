-------------------------- MODULE ModelAdminProofs --------------------------
(***************************************************************************)
(* Proofs about ModelAdmin, for any instances, requests, models, names and *)
(* deployments.                                                            *)
(***************************************************************************)
EXTENDS ModelAdmin, FiniteSetTheorems, TLAPS

Entries == [aliases : SUBSET Names, deps : [Deps -> 0..2], fallback : Names \cup {None}]
Registries == [models : [Names -> Entries \cup {Absent}], aliases : [Names -> Names \cup {None}]]
Rows == [name : Names \cup {None}, aliases : SUBSET Names, fallback : Ids \cup {0},
         active : BOOLEAN, source : {"api", "yaml", None}, status : {"live", "gone", None}]
Listed == [id : Ids, row : Rows, fallback : Names \cup {None}]

\* The tables, and what reloads have listed of them. A live row has a name.
TablesTyped ==
    /\ models \in [Ids -> Rows]
    /\ \A i \in Ids : models[i].status = "live" => models[i].name \in Names
    /\ deps \in [Ids \X Deps -> 0..2]
    /\ DOMAIN snap = Actors
    /\ \A a \in Actors : \A m \in snap[a] : m \in Listed /\ m.row.name \in Names

InstancesTyped ==
    /\ license \in [Nodes -> BOOLEAN] /\ redis \in BOOLEAN /\ inbox \in [Nodes -> Nat]
    /\ mu \in [Nodes -> Requests \cup {None}]

\* Every alias of every registry leads somewhere.
RegistriesLead ==
    /\ DOMAIN registry = Nodes
    /\ \A n \in Nodes : registry[n] \in Registries /\ Reg!AliasesLead(registry[n])

\* The changes a request takes to the table: the fallback is an id by then.
Writes ==
    [field : {"name"}, value : Names] \cup [field : {"aliases"}, value : SUBSET Names]
      \cup [field : {"fallback"}, value : Ids \cup {0}]

\* What a request knows by the time it takes each of its steps.
Updating == {"lock update", "check", "update"}
Steps == Updating \cup {"idle", "lock insert", "insert", "delete", "deactivate", "get",
                        "add", "remove", "publish", "reload", "load"}

Known(pc, q) ==
    /\ pc \in Steps
    /\ DOMAIN q = {"node", "id", "old", "set", "row", "fallback"}
    /\ pc # "idle" => q.node \in Up
    /\ q.fallback \in Names \cup {None}
    /\ pc \in {"lock insert", "insert", "add"} => q.row \in Rows /\ q.row.name \in Names
    /\ pc \in Updating => q.set \in Writes
    /\ pc \in {"lock update", "check"} => q.set.field = "fallback"
    /\ pc \in Updating \cup {"delete", "deactivate", "get"} => q.id \in Ids
    /\ pc \in Updating \cup {"delete", "deactivate", "add", "remove"} => q.old \in Names

ActorsTyped ==
    /\ DOMAIN at = Actors /\ DOMAIN arg = Actors
    /\ \A r \in Requests : Known(at[r], arg[r])
    /\ \A n \in Nodes : at[n] \in {"idle", "load", "reload"}

TypedInv == TablesTyped /\ InstancesTyped /\ RegistriesLead /\ ActorsTyped

-----------------------------------------------------------------------------
(* The registry's operations keep its aliases in order.                    *)

LEMMA AbsentIsNoEntry == Absent \notin Entries
  BY DEF Absent, Entries

LEMMA NoneIsNoName == None \notin Names /\ None \notin Nodes /\ None \notin Requests
  BY ModelAssumption DEF None

LEMMA AddModelLeads ==
    ASSUME NEW R \in Registries, Reg!AliasesLead(R), NEW x \in Names, NEW entry \in Entries
    PROVE  Reg!AddModel(R, x, entry) \in Registries /\ Reg!AliasesLead(Reg!AddModel(R, x, entry))
  <1> DEFINE S == Reg!AddModel(R, x, entry)
  <1>1. S.models = [R.models EXCEPT ![x] = entry]
        /\ S.aliases = [a \in Names |-> IF a \in entry.aliases THEN x
                            ELSE IF a \in Reg!OldAliases(R, x) THEN None ELSE R.aliases[a]]
        /\ S = [models |-> S.models, aliases |-> S.aliases]
    BY DEF Reg!AddModel
  <1>2. R.models \in [Names -> Entries \cup {Absent}] /\ R.aliases \in [Names -> Names \cup {None}]
    BY DEF Registries
  <1>3. S \in Registries
    <2> HIDE DEF S
    <2>1. S.models \in [Names -> Entries \cup {Absent}] /\ S.aliases \in [Names -> Names \cup {None}]
      BY <1>1, <1>2
    <2> QED  BY <1>1, <2>1 DEF Registries
  <1>4. Reg!AliasesLead(S)
    <2> HIDE DEF S
    <2> SUFFICES ASSUME NEW a \in Names, S.aliases[a] # None
                 PROVE  S.models[S.aliases[a]] # Absent /\ a \in S.models[S.aliases[a]].aliases
      BY DEF Reg!AliasesLead, Reg!Has
    <2>1. CASE a \in entry.aliases
      BY <1>1, <1>2, <2>1, AbsentIsNoEntry
    <2>2. CASE a \notin entry.aliases
      <3>1. a \notin Reg!OldAliases(R, x) /\ S.aliases[a] = R.aliases[a]
        BY <1>1, <2>2
      <3>2. R.aliases[a] \in Names /\ R.models[R.aliases[a]] # Absent
            /\ a \in R.models[R.aliases[a]].aliases
        BY <1>2, <3>1 DEF Reg!AliasesLead, Reg!Has
      <3>3. R.aliases[a] # x
        BY <3>1, <3>2 DEF Reg!OldAliases, Reg!Has
      <3> QED  BY <1>1, <1>2, <3>1, <3>2, <3>3
    <2> QED  BY <2>1, <2>2
  <1> QED  BY <1>3, <1>4

LEMMA RemoveModelLeads ==
    ASSUME NEW R \in Registries, Reg!AliasesLead(R), NEW x \in Names
    PROVE  Reg!RemoveModel(R, x) \in Registries /\ Reg!AliasesLead(Reg!RemoveModel(R, x))
  <1> DEFINE S == Reg!RemoveModel(R, x)
  <1>1. S.models = [R.models EXCEPT ![x] = Absent]
        /\ S.aliases = [a \in Names |-> IF a \in Reg!OldAliases(R, x) THEN None ELSE R.aliases[a]]
        /\ S = [models |-> S.models, aliases |-> S.aliases]
    BY DEF Reg!RemoveModel
  <1>2. R.models \in [Names -> Entries \cup {Absent}] /\ R.aliases \in [Names -> Names \cup {None}]
    BY DEF Registries
  <1>3. S \in Registries
    <2> HIDE DEF S
    <2>1. S.models \in [Names -> Entries \cup {Absent}] /\ S.aliases \in [Names -> Names \cup {None}]
      BY <1>1, <1>2
    <2> QED  BY <1>1, <2>1 DEF Registries
  <1>4. Reg!AliasesLead(S)
    <2> HIDE DEF S
    <2> SUFFICES ASSUME NEW a \in Names, S.aliases[a] # None
                 PROVE  S.models[S.aliases[a]] # Absent /\ a \in S.models[S.aliases[a]].aliases
      BY DEF Reg!AliasesLead, Reg!Has
    <2>1. a \notin Reg!OldAliases(R, x) /\ S.aliases[a] = R.aliases[a]
      BY <1>1
    <2>2. R.aliases[a] \in Names /\ R.models[R.aliases[a]] # Absent
          /\ a \in R.models[R.aliases[a]].aliases
      BY <1>2, <2>1 DEF Reg!AliasesLead, Reg!Has
    <2>3. R.aliases[a] # x
      BY <2>1, <2>2 DEF Reg!OldAliases, Reg!Has
    <2> QED  BY <1>1, <1>2, <2>1, <2>2, <2>3
  <1> QED  BY <1>3, <1>4

LEMMA StripLeads ==
    ASSUME NEW R \in Registries, Reg!AliasesLead(R)
    PROVE  /\ Reg!StripAllFallbacks(R) \in Registries
           /\ Reg!AliasesLead(Reg!StripAllFallbacks(R))
           /\ \A x \in Names : R.models[x] \in Entries =>
                Reg!StripAllFallbacks(R).models[x] = [R.models[x] EXCEPT !.fallback = None]
  <1> DEFINE S == Reg!StripAllFallbacks(R)
  <1>1. R.models \in [Names -> Entries \cup {Absent}] /\ R.aliases \in [Names -> Names \cup {None}]
        /\ R = [models |-> R.models, aliases |-> R.aliases]
    BY DEF Registries
  <1>2. S.models = [x \in Names |-> IF R.models[x] # Absent THEN [R.models[x] EXCEPT !.fallback = None]
                                    ELSE Absent]
        /\ S.aliases = R.aliases /\ S = [models |-> S.models, aliases |-> S.aliases]
    BY <1>1 DEF Reg!StripAllFallbacks, Reg!Has
  <1>3. \A e \in Entries : /\ [e EXCEPT !.fallback = None] \in Entries
                           /\ [e EXCEPT !.fallback = None].aliases = e.aliases
    BY DEF Entries
  <1> HIDE DEF S
  <1>4. S.models \in [Names -> Entries \cup {Absent}]
    BY <1>1, <1>2, <1>3
  <1>5. S \in Registries
    BY <1>1, <1>2, <1>4 DEF Registries
  <1>6. Reg!AliasesLead(S)
    BY <1>1, <1>2, <1>3, AbsentIsNoEntry DEF Reg!AliasesLead, Reg!Has
  <1>7. \A x \in Names : R.models[x] \in Entries =>
                S.models[x] = [R.models[x] EXCEPT !.fallback = None]
    BY <1>2, AbsentIsNoEntry
  <1> QED  BY <1>5, <1>6, <1>7 DEF S

-----------------------------------------------------------------------------
(* Types and aliases: one lemma per action.                                *)

LEMMA YamlTyped ==
    \A x \in Configured : /\ x \in Names /\ Yaml[x] \in YamlModels
                          /\ Yaml[x].aliases \in SUBSET Names /\ Yaml[x].deps \in [Deps -> 0..2]
  <1>1. \A x \in Configured : x \in Names /\ Yaml[x] \in YamlModels
    BY ModelAssumption DEF Configured, Absent
  <1> QED  BY <1>1 DEF YamlModels

\* The start rewrites a row, keeps it, or makes it the row of a configured model.
LEMMA SyncRows ==
    ASSUME NEW t \in [Ids -> Rows], \A i \in Ids : t[i].status = "live" => t[i].name \in Names
    PROVE  /\ SyncYAMLModels(t) \in [Ids -> Rows]
           /\ \A i \in Ids : SyncYAMLModels(t)[i].status = "live" => SyncYAMLModels(t)[i].name \in Names
           /\ \A i \in Ids :
                 \/ /\ SyncYAMLModels(t)[i].status = t[i].status
                    /\ SyncYAMLModels(t)[i].fallback = t[i].fallback
                    /\ SyncYAMLModels(t)[i].name = t[i].name
                 \/ /\ SyncYAMLModels(t)[i].status = "live"
                    /\ SyncYAMLModels(t)[i].fallback = 0
                    /\ \E x \in Configured :
                          NewIds(t)[x] = i /\ SyncYAMLModels(t)[i].name = x
                          /\ SyncYAMLModels(t)[i].aliases = Yaml[x].aliases
                          /\ SyncYAMLModels(t)[i].source = "yaml"
  <1> DEFINE T == SyncYAMLModels(t)
             From(i, x) == /\ NewIds(t)[x] = i /\ T[i].name = x
                           /\ T[i].aliases = Yaml[x].aliases /\ T[i].source = "yaml"
  <1>1. ASSUME NEW i \in Ids
        PROVE  /\ T[i] \in Rows
               /\ \/ /\ T[i].status = t[i].status /\ T[i].fallback = t[i].fallback
                     /\ T[i].name = t[i].name
                  \/ /\ T[i].status = "live" /\ T[i].fallback = 0 /\ T[i].name \in Names
                     /\ \E x \in Configured : From(i, x)
    <2>1. CASE \E x \in Missing(t) : NewIds(t)[x] = i
      <3> DEFINE x == CHOOSE x \in Missing(t) : NewIds(t)[x] = i
      <3>1. x \in Configured /\ NewIds(t)[x] = i
        BY <2>1 DEF Missing
      <3>2. T[i] = [name |-> x, aliases |-> Yaml[x].aliases, fallback |-> 0, active |-> TRUE,
                    source |-> "yaml", status |-> "live"]
        BY <2>1 DEF SyncYAMLModels
      <3> HIDE DEF T, x
      <3>3. x \in Names /\ Yaml[x].aliases \in SUBSET Names
        BY <3>1, YamlTyped
      <3>4. T[i] \in Rows /\ T[i].status = "live" /\ T[i].fallback = 0 /\ T[i].name = x
            /\ T[i].aliases = Yaml[x].aliases /\ T[i].source = "yaml"
        BY <3>2, <3>3 DEF Rows
      <3> QED  BY <3>1, <3>3, <3>4
    <2>2. CASE /\ ~\E x \in Missing(t) : NewIds(t)[x] = i
               /\ t[i].status = "live" /\ t[i].source = "yaml" /\ t[i].name \in Configured
      <3>1. T[i] = [t[i] EXCEPT !.aliases = Yaml[t[i].name].aliases]
        BY <2>2 DEF SyncYAMLModels
      <3>2. t[i] \in Rows /\ Yaml[t[i].name].aliases \in SUBSET Names
        BY <2>2, YamlTyped
      <3>3. t[i] \in [name : Names \cup {None}, aliases : SUBSET Names, fallback : Ids \cup {0},
                      active : BOOLEAN, source : {"api", "yaml", None}, status : {"live", "gone", None}]
        BY <3>2 DEF Rows
      <3> HIDE DEF T
      <3> QED  BY <3>1, <3>2, <3>3 DEF Rows
    <2>3. CASE /\ ~\E x \in Missing(t) : NewIds(t)[x] = i
               /\ ~(t[i].status = "live" /\ t[i].source = "yaml" /\ t[i].name \in Configured)
      <3>1. T[i] = t[i]
        BY <2>3 DEF SyncYAMLModels
      <3> QED  BY <3>1
    <2> QED  BY <2>1, <2>2, <2>3
  <1>2. T = [i \in Ids |-> T[i]]
    BY DEF SyncYAMLModels
  <1> HIDE DEF T
  <1>3. T \in [Ids -> Rows] /\ \A i \in Ids : T[i].status = "live" => T[i].name \in Names
    BY <1>1, <1>2
  <1> QED  BY <1>1, <1>3 DEF T

LEMMA SyncDeploymentsTyped ==
    ASSUME NEW t, NEW dt \in [Ids \X Deps -> 0..2]
    PROVE  syncYAMLDeployments(t, dt) \in [Ids \X Deps -> 0..2]
  <1>1. ASSUME NEW i \in Ids, NEW d \in Deps
        PROVE  syncYAMLDeployments(t, dt)[<<i, d>>] \in 0..2
    <2>1. \A x \in Configured : Yaml[x].deps[d] \in 0..2
      BY YamlTyped
    <2>2. dt[<<i, d>>] \in 0..2 /\ <<i, d>> \in Ids \X Deps
      OBVIOUS
    <2>3. syncYAMLDeployments(t, dt)[<<i, d>>] =
            IF t[i].status = "live" /\ t[i].source = "yaml" /\ t[i].name \in Configured
            THEN Yaml[t[i].name].deps[d] ELSE dt[<<i, d>>]
      BY <2>2 DEF syncYAMLDeployments
    <2> QED  BY <2>1, <2>2, <2>3
  <1>2. \A x \in Ids \X Deps : x = <<x[1], x[2]>> /\ x[1] \in Ids /\ x[2] \in Deps
    OBVIOUS
  <1>3. \A x \in Ids \X Deps : syncYAMLDeployments(t, dt)[x] \in 0..2
    BY <1>1, <1>2
  <1>4. syncYAMLDeployments(t, dt) = [x \in Ids \X Deps |-> syncYAMLDeployments(t, dt)[x]]
    BY DEF syncYAMLDeployments
  <1> QED  BY <1>3, <1>4

LEMMA NewRegistryLeads == NewRegistry \in Registries /\ Reg!AliasesLead(NewRegistry)
  <1> DEFINE S == NewRegistry
  <1>1. /\ S.models = [x \in Names |-> IF x \in Configured
              THEN [aliases |-> Yaml[x].aliases, deps |-> Yaml[x].deps, fallback |-> None] ELSE Absent]
        /\ S.aliases = [a \in Names |-> IF \E x \in Configured : a \in Yaml[x].aliases
                     THEN CHOOSE x \in Configured : a \in Yaml[x].aliases ELSE None]
        /\ S = [models |-> S.models, aliases |-> S.aliases]
    BY DEF NewRegistry
  <1> HIDE DEF S
  <1>2. \A x \in Configured :
            [aliases |-> Yaml[x].aliases, deps |-> Yaml[x].deps, fallback |-> None] \in Entries
    BY YamlTyped DEF Entries
  <1>3. S.models \in [Names -> Entries \cup {Absent}]
    BY <1>1, <1>2
  <1>4. ASSUME NEW a \in Names
        PROVE  \/ S.aliases[a] = None
               \/ S.aliases[a] \in Configured /\ a \in Yaml[S.aliases[a]].aliases
    BY <1>1
  <1>5. S.aliases \in [Names -> Names \cup {None}]
    BY <1>1, <1>4, YamlTyped
  <1>6. Reg!AliasesLead(S)
    BY <1>1, <1>2, <1>4, YamlTyped, AbsentIsNoEntry DEF Reg!AliasesLead, Reg!Has
  <1> QED  BY <1>1, <1>3, <1>5, <1>6 DEF S, Registries

LEMMA RecordFacts ==
    /\ NoRow \in Rows /\ NoRow.status = None /\ NoRow.fallback = 0 /\ NoRow.name = None
    /\ DOMAIN Idle = {"node", "id", "old", "set", "row", "fallback"}
    /\ Idle.fallback = None
  BY DEF NoRow, Rows, Idle

LEMMA IdleKnown == Known("idle", Idle)
  BY RecordFacts DEF Known, Steps, Updating

LEMMA ModelInitTyped == Init => TypedInv
  <1> SUFFICES ASSUME Init PROVE TypedInv
    OBVIOUS
  <1>1. models \in [Ids -> Rows] /\ \A i \in Ids : models[i].status = "live" => models[i].name \in Names
    <2> DEFINE t == [i \in Ids |-> NoRow]
    <2>1. t \in [Ids -> Rows] /\ \A i \in Ids : t[i].status = "live" => t[i].name \in Names
      BY RecordFacts DEF None
    <2> HIDE DEF t
    <2>2. SyncYAMLModels(t) \in [Ids -> Rows]
          /\ \A i \in Ids : SyncYAMLModels(t)[i].status = "live" => SyncYAMLModels(t)[i].name \in Names
      BY <2>1, SyncRows
    <2> QED  BY <2>2 DEF Init, t
  <1>2. deps \in [Ids \X Deps -> 0..2]
    BY SyncDeploymentsTyped, [x \in Ids \X Deps |-> 0] \in [Ids \X Deps -> 0..2] DEF Init
  <1>3. TablesTyped
    BY <1>1, <1>2 DEF Init, TablesTyped
  <1>4. InstancesTyped
    BY DEF Init, InstancesTyped
  <1>5. RegistriesLead
    BY NewRegistryLeads DEF Init, RegistriesLead
  <1>6. ActorsTyped
    BY IdleKnown DEF Init, ActorsTyped, Actors
  <1> QED  BY <1>3, <1>4, <1>5, <1>6 DEF TypedInv

LEMMA GotoTyped ==
    ASSUME ActorsTyped, redis' = redis, NEW r \in Requests, NEW here, NEW next, NEW x,
           Goto(r, here, next, x), next = "idle" \/ Known(next, x)
    PROVE  ActorsTyped'
  <1>1. r \in Actors /\ at[r] = here /\ Up' = Up
    BY DEF Actors, Goto, Up
  <1>2. Known(at'[r], arg'[r])
    BY <1>1, IdleKnown DEF Goto, ActorsTyped
  <1>3. \A b \in Actors : b # r => at'[b] = at[b] /\ arg'[b] = arg[b]
    BY DEF Goto, ActorsTyped
  <1>4. \A b \in Requests : Known(at'[b], arg'[b])
    BY <1>2, <1>3 DEF ActorsTyped, Actors
  <1>5. \A b \in Requests : Known(at[b], arg[b])'
    BY <1>1, <1>4 DEF Known
  <1>6. \A n \in Nodes : at'[n] \in {"idle", "load", "reload"}
    BY <1>3, ModelAssumption DEF ActorsTyped, Actors
  <1> QED  BY <1>5, <1>6 DEF ActorsTyped, Goto

LEMMA BeginTyped ==
    ASSUME ActorsTyped, redis' = redis, NEW r \in Requests, NEW n, NEW next, NEW x,
           Begin(r, n, next, x), Known(next, [x EXCEPT !.node = n])
    PROVE  ActorsTyped'
  <1>1. r \in Actors /\ Up' = Up
    BY DEF Actors, Up
  <1>2. at'[r] = next /\ arg'[r] = [x EXCEPT !.node = n]
    BY <1>1 DEF Begin, ActorsTyped
  <1>3. \A b \in Actors : b # r => at'[b] = at[b] /\ arg'[b] = arg[b]
    BY DEF Begin, ActorsTyped
  <1>4. \A b \in Requests : Known(at'[b], arg'[b])
    BY <1>2, <1>3 DEF ActorsTyped, Actors
  <1>5. \A b \in Requests : Known(at[b], arg[b])'
    BY <1>1, <1>4 DEF Known
  <1>6. \A m \in Nodes : at'[m] \in {"idle", "load", "reload"}
    BY <1>3, ModelAssumption DEF ActorsTyped, Actors
  <1> QED  BY <1>5, <1>6 DEF ActorsTyped, Begin

\* The argument a request begins with.
LEMMA BeginKnown ==
    ASSUME NEW n \in Up, NEW x, DOMAIN x = {"node", "id", "old", "set", "row", "fallback"}
    PROVE  LET q == [x EXCEPT !.node = n] IN
           /\ DOMAIN q = {"node", "id", "old", "set", "row", "fallback"}
           /\ q.node = n /\ q.id = x.id /\ q.old = x.old /\ q.set = x.set /\ q.row = x.row
           /\ q.fallback = x.fallback
  OBVIOUS

LEMMA UnlockTyped ==
    ASSUME InstancesTyped, NEW r \in Requests, Unlock(r)
    PROVE  mu' \in [Nodes -> Requests \cup {None}]
  BY DEF InstancesTyped, Unlock

LEMMA IdByName ==
    ASSUME NEW x, GetModelByName(x) # {}
    PROVE  LET i == GetModelIDByName(x) IN i \in Ids /\ Live(i) /\ models[i].name = x
  BY DEF GetModelIDByName, GetModelByName

LEMMA NamesOf ==
    ASSUME TablesTyped
    PROVE  /\ \A i : resolveFallbackName(i) \in Names \cup {None}
           /\ \A i : Live(i) => i \in Ids /\ models[i] \in Rows /\ models[i].name \in Names
           /\ \A i \in Ids : FallbackAmongActive(i) \in Names \cup {None}
  BY DEF TablesTyped, resolveFallbackName, NameOf, Live, FallbackAmongActive, ListActiveModels

LEMMA CreateModelTyped ==
    ASSUME TypedInv, NEW r \in Requests, NEW n \in Nodes, NEW x \in NewNames, NEW as \in AliasLists,
           NEW fb \in Names \cup {None}, CreateModel(r, n, x, as, fb)
    PROVE  TypedInv'
  <1> DEFINE link == IF fb = None THEN 0 ELSE GetModelIDByName(fb)
             row == [NoRow EXCEPT !.name = x, !.aliases = as, !.fallback = link]
             q == [Idle EXCEPT !.fallback = fb, !.row = row]
             next == IF fb = None THEN "insert" ELSE "lock insert"
  <1>1. Begin(r, n, next, q) /\ UNCHANGED <<models, deps, mu, registry, license, redis, inbox, snap>>
    BY DEF CreateModel, Memory
  <1>2. link \in Ids \cup {0} /\ x \in Names /\ as \in SUBSET Names
    BY IdByName, ModelAssumption DEF CreateModel
  <1>3. row \in Rows /\ row.name \in Names
    <2> HIDE DEF link
    <2> QED  BY <1>2 DEF Rows, NoRow
  <1>4. /\ DOMAIN q = {"node", "id", "old", "set", "row", "fallback"}
        /\ q.row = row /\ q.fallback = fb
    <2> HIDE DEF row
    <2> QED  BY DEF Idle
  <1>5. n \in Up
    BY <1>1 DEF Begin
  <1>6. Known(next, [q EXCEPT !.node = n])
    <2> HIDE DEF q, row
    <2> QED  BY <1>3, <1>4, <1>5, BeginKnown DEF Known, Steps, Updating
  <1> HIDE DEF q, next
  <1>7. ActorsTyped'
    BY <1>1, <1>6, BeginTyped DEF TypedInv
  <1> QED  BY <1>1, <1>7 DEF TypedInv, TablesTyped, InstancesTyped, RegistriesLead

\* A step that changes no table and no registry.
LEMMA MoveTyped ==
    ASSUME TypedInv, ActorsTyped', mu' \in [Nodes -> Requests \cup {None}],
           UNCHANGED <<models, deps, Memory>>
    PROVE  TypedInv'
  BY DEF TypedInv, TablesTyped, InstancesTyped, RegistriesLead, Memory

\* A step that writes one row.
LEMMA WriteTyped ==
    ASSUME TablesTyped, NEW i \in Ids, NEW w \in Rows, w.status = "live" => w.name \in Names,
           models' = [models EXCEPT ![i] = w], UNCHANGED <<deps, snap>>
    PROVE  TablesTyped' /\ models'[i] = w /\ \A j \in Ids : j # i => models'[j] = models[j]
  BY DEF TablesTyped

LEMMA UpdateModelTyped ==
    ASSUME TypedInv, NEW r \in Requests, NEW n \in Nodes, NEW i \in Ids, NEW set \in Changes,
           UpdateModel(r, n, i, set)
    PROVE  TypedInv'
  <1> DEFINE linked == set.field = "fallback" /\ set.value # None
             write == IF linked THEN [field |-> "fallback", value |-> GetModelIDByName(set.value)]
                      ELSE IF set.field = "fallback" THEN [field |-> "fallback", value |-> 0]
                      ELSE set
             fb == IF set.field = "fallback" THEN set.value
                   ELSE resolveFallbackName(models[i].fallback)
             old == models[i].name
             q == [Idle EXCEPT !.id = i, !.old = old, !.set = write, !.fallback = fb]
             next == IF linked THEN "lock update" ELSE "update"
  <1>1. Begin(r, n, next, q) /\ UNCHANGED <<models, deps, mu, Memory>>
    BY DEF UpdateModel
  <1>2. old \in Names
    BY NamesOf DEF UpdateModel, TypedInv
  <1>3. \/ set.field = "name" /\ set.value \in Names /\ set \in Writes
        \/ set.field = "fallback" /\ set.value \in Names \cup {None}
        \/ set.field = "aliases" /\ set.value \in SUBSET Names /\ set \in Writes
    BY ModelAssumption DEF Changes, Writes
  <1>4. write \in Writes /\ (linked => write.field = "fallback")
    <2>1. CASE linked
      <3>1. GetModelIDByName(set.value) \in Ids
        BY <2>1, IdByName DEF UpdateModel
      <3>2. write = [field |-> "fallback", value |-> GetModelIDByName(set.value)]
        BY <2>1
      <3> QED  BY <3>1, <3>2 DEF Writes
    <2>2. CASE ~linked /\ set.field = "fallback"
      BY <2>2 DEF Writes
    <2>3. CASE set.field # "fallback"
      BY <1>3, <2>3
    <2> QED  BY <2>1, <2>2, <2>3
  <1>5. fb \in Names \cup {None}
    BY <1>3, NamesOf DEF TypedInv
  <1>6. /\ DOMAIN q = {"node", "id", "old", "set", "row", "fallback"}
        /\ q.id = i /\ q.old = old /\ q.set = write /\ q.fallback = fb
    <2> HIDE DEF old, write, fb
    <2> QED  BY DEF Idle
  <1>7. n \in Up
    BY <1>1 DEF Begin
  <1>8. Known(next, [q EXCEPT !.node = n])
    <2> HIDE DEF q, write, old, fb, linked
    <2> QED  BY <1>2, <1>4, <1>5, <1>6, <1>7, BeginKnown DEF Known, Steps, Updating
  <1> HIDE DEF q, next
  <1>9. ActorsTyped'
    BY <1>1, <1>8, BeginTyped DEF TypedInv, Memory
  <1> QED  BY <1>1, <1>9, MoveTyped DEF TypedInv, InstancesTyped

LEMMA LockTyped ==
    ASSUME TypedInv, NEW r \in Requests, Lock(r)
    PROVE  TypedInv'
  <1> DEFINE next == IF at[r] = "lock insert" THEN "insert" ELSE "check"
  <1>1. Known(at[r], arg[r]) /\ arg[r].node \in Nodes
    BY ModelAssumption DEF TypedInv, ActorsTyped, Known, Lock, Up
  <1>2. Known(next, arg[r])
    BY <1>1 DEF Lock, Known, Steps, Updating
  <1>3. ActorsTyped'
    BY <1>2, GotoTyped DEF Lock, TypedInv, Memory
  <1>4. mu' \in [Nodes -> Requests \cup {None}]
    BY <1>1 DEF Lock, TypedInv, InstancesTyped
  <1> QED  BY <1>3, <1>4, MoveTyped DEF Lock

LEMMA InsertModelTyped ==
    ASSUME TypedInv, NEW r \in Requests, InsertModel(r)
    PROVE  TypedInv'
  <1>0. at[r] = "insert" /\ UNCHANGED <<deps, Memory>>
    BY DEF InsertModel
  <1>1. Known("insert", arg[r]) /\ arg[r].row \in Rows /\ arg[r].row.name \in Names
        /\ UNCHANGED <<deps, Memory>>
    <2>1. Known("insert", arg[r])
      BY <1>0 DEF TypedInv, ActorsTyped
    <2> QED  BY <1>0, <2>1 DEF Known
  <1>2. CASE Goto(r, "insert", "idle", Idle) /\ Unlock(r) /\ UNCHANGED models
    BY <1>1, <1>2, GotoTyped, UnlockTyped, MoveTyped DEF TypedInv, Memory
  <1>3. ASSUME NEW i \in Ids,
               models' = CreateRow(i, arg[r].row.name, arg[r].row.aliases, arg[r].row.fallback, "api"),
               Goto(r, "insert", "add", [arg[r] EXCEPT !.old = arg[r].row.name, !.row = models'[i]]),
               UNCHANGED mu
        PROVE  TypedInv'
    <2> DEFINE w == [name |-> arg[r].row.name, aliases |-> arg[r].row.aliases,
                     fallback |-> arg[r].row.fallback, active |-> TRUE, source |-> "api", status |-> "live"]
               q == [arg[r] EXCEPT !.old = arg[r].row.name, !.row = models'[i]]
    <2>1. w \in Rows /\ w.name \in Names /\ models' = [models EXCEPT ![i] = w]
      BY <1>1, <1>3 DEF Rows, CreateRow
    <2> HIDE DEF w
    <2>2. TablesTyped' /\ models'[i] = w
      BY <1>1, <2>1, WriteTyped DEF TypedInv, Memory
    <2>3. /\ DOMAIN q = DOMAIN arg[r] /\ q.old = arg[r].row.name /\ q.row = models'[i]
          /\ q.node = arg[r].node /\ q.fallback = arg[r].fallback
      BY <1>1 DEF Known
    <2>4. Known("add", q)
      <3> HIDE DEF q
      <3> QED  BY <1>1, <2>1, <2>2, <2>3 DEF Known, Steps, Updating
    <2>5. ActorsTyped'
      BY <1>1, <1>3, <2>4, GotoTyped DEF TypedInv, Memory
    <2> QED  BY <1>1, <1>3, <2>2, <2>5 DEF TypedInv, InstancesTyped, RegistriesLead, Memory
  <1> QED  BY <1>2, <1>3 DEF InsertModel

LEMMA CheckCycleTyped ==
    ASSUME TypedInv, NEW r \in Requests, CheckCycle(r)
    PROVE  TypedInv'
  <1>1. Known("check", arg[r]) /\ UNCHANGED <<models, deps, Memory>>
    BY DEF TypedInv, ActorsTyped, CheckCycle
  <1>2. CASE Goto(r, "check", "idle", Idle) /\ Unlock(r)
    BY <1>1, <1>2, GotoTyped, UnlockTyped, MoveTyped DEF TypedInv, Memory
  <1>3. CASE Goto(r, "check", "update", arg[r]) /\ UNCHANGED mu
    <2>1. Known("update", arg[r])
      BY <1>1 DEF Known, Steps, Updating
    <2> QED  BY <1>1, <1>3, <2>1, GotoTyped, MoveTyped DEF TypedInv, Memory, InstancesTyped
  <1> QED  BY <1>2, <1>3 DEF CheckCycle

\* A changed row is a row, and keeps what the change does not name.
LEMMA ChangedRow ==
    ASSUME NEW w \in Rows, NEW set \in Writes
    PROVE  LET c == Changed(w, set) IN
           /\ c \in Rows /\ c.status = w.status /\ (c.active <=> w.active)
           /\ set.field = "name" => c.name = set.value /\ c.name \in Names
           /\ set.field # "name" => c.name = w.name
           /\ set.field = "fallback" => c.fallback = set.value /\ set.value \in Ids \cup {0}
           /\ set.field # "fallback" => c.fallback = w.fallback
  <1>1. CASE set \in [field : {"name"}, value : Names]
    BY <1>1 DEF Changed, Rows
  <1>2. CASE set \in [field : {"aliases"}, value : SUBSET Names]
    BY <1>2 DEF Changed, Rows
  <1>3. CASE set \in [field : {"fallback"}, value : Ids \cup {0}]
    BY <1>3 DEF Changed, Rows
  <1> QED  BY <1>1, <1>2, <1>3 DEF Writes

LEMMA UpdateRowTyped ==
    ASSUME TypedInv, NEW r \in Requests, UpdateRow(r)
    PROVE  TypedInv'
  <1> DEFINE i == arg[r].id
             w == Changed(models[i], arg[r].set)
             q == [arg[r] EXCEPT !.row = models'[i]]
  <1>1. Known("update", arg[r]) /\ i \in Ids /\ arg[r].set \in Writes /\ UNCHANGED <<deps, Memory>>
    BY DEF TypedInv, ActorsTyped, Known, UpdateRow, Updating
  <1>2. CASE Goto(r, "update", "idle", Idle) /\ Unlock(r) /\ UNCHANGED models
    BY <1>1, <1>2, GotoTyped, UnlockTyped, MoveTyped DEF TypedInv, Memory
  <1>3. CASE Live(i) /\ models' = [models EXCEPT ![i] = w] /\ Goto(r, "update", "add", q) /\ UNCHANGED mu
    <2>1. models[i] \in Rows /\ models[i].name \in Names
      BY <1>3, NamesOf DEF TypedInv
    <2>2. w \in Rows /\ w.name \in Names
      BY <1>1, <2>1, ChangedRow
    <2> HIDE DEF w
    <2>3. TablesTyped' /\ models'[i] = w
      BY <1>1, <1>3, <2>2, WriteTyped DEF TypedInv, Memory
    <2>4. /\ DOMAIN q = DOMAIN arg[r] /\ q.row = models'[i] /\ q.old = arg[r].old
          /\ q.node = arg[r].node /\ q.fallback = arg[r].fallback
      BY <1>1 DEF Known
    <2>5. Known("add", q)
      <3> HIDE DEF q, i
      <3> QED  BY <1>1, <2>2, <2>3, <2>4 DEF Known, Steps, Updating
    <2> HIDE DEF q
    <2>6. ActorsTyped'
      BY <1>1, <1>3, <2>5, GotoTyped DEF TypedInv, Memory
    <2> QED  BY <1>1, <1>3, <2>3, <2>6 DEF TypedInv, InstancesTyped, RegistriesLead, Memory
  <1> QED  BY <1>2, <1>3 DEF UpdateRow

\* Requests that begin with a live row's id and name.
LEMMA BeginRowTyped ==
    ASSUME TypedInv, redis' = redis, NEW r \in Requests, NEW n \in Nodes, NEW i \in Ids, Live(i),
           NEW next \in {"delete", "deactivate"},
           Begin(r, n, next, [Idle EXCEPT !.id = i, !.old = models[i].name])
    PROVE  ActorsTyped'
  <1> DEFINE old == models[i].name
             q == [Idle EXCEPT !.id = i, !.old = old]
  <1>1. n \in Up /\ old \in Names
    BY NamesOf DEF Begin, TypedInv
  <1>2. /\ DOMAIN q = {"node", "id", "old", "set", "row", "fallback"}
        /\ q.id = i /\ q.old = old /\ q.fallback = None
    <2> HIDE DEF old
    <2> QED  BY DEF Idle
  <1>3. Known(next, [q EXCEPT !.node = n])
    <2> HIDE DEF q, old
    <2> QED  BY <1>1, <1>2, BeginKnown DEF Known, Steps, Updating
  <1> QED  BY <1>3, BeginTyped DEF TypedInv

LEMMA DeleteModelTyped ==
    ASSUME TypedInv, NEW r \in Requests, NEW n \in Nodes, NEW i \in Ids,
           DeleteModel(r, n, i) \/ DeactivateModel(r, n, i)
    PROVE  TypedInv'
  <1>1. ActorsTyped' /\ UNCHANGED <<models, deps, mu, Memory>>
    BY BeginRowTyped DEF DeleteModel, DeactivateModel, Memory
  <1> QED  BY <1>1, MoveTyped DEF TypedInv, InstancesTyped

LEMMA TakeOutTyped ==
    ASSUME TypedInv, NEW r \in Requests, TakeOut(r)
    PROVE  TypedInv'
  <1> DEFINE i == arg[r].id
             w == IF at[r] = "delete" THEN [models[i] EXCEPT !.name = None, !.status = "gone"]
                  ELSE [models[i] EXCEPT !.active = FALSE]
  <1>1. Known(at[r], arg[r]) /\ i \in Ids /\ at[r] \in {"delete", "deactivate"}
        /\ UNCHANGED <<deps, mu, Memory>>
    BY DEF TypedInv, ActorsTyped, Known, TakeOut
  <1>2. CASE Goto(r, at[r], "idle", Idle) /\ UNCHANGED models
    BY <1>1, <1>2, GotoTyped, MoveTyped DEF TypedInv, InstancesTyped, Memory
  <1>3. CASE /\ Live(i) /\ Goto(r, at[r], "remove", arg[r])
             /\ models' = IF at[r] = "delete" THEN DeleteRow(i)
                          ELSE [models EXCEPT ![i] = [models[i] EXCEPT !.active = FALSE]]
    <2>1. models[i] \in Rows /\ models[i].name \in Names
      BY <1>3, NamesOf DEF TypedInv
    <2>2. w \in Rows /\ (w.status = "live" => w.name \in Names)
      BY <2>1 DEF Rows
    <2>3. models' = [models EXCEPT ![i] = w]
      BY <1>3 DEF DeleteRow
    <2> HIDE DEF w
    <2>4. TablesTyped'
      BY <1>1, <2>2, <2>3, WriteTyped DEF TypedInv, Memory
    <2>5. Known("remove", arg[r])
      <3> HIDE DEF i
      <3> QED  BY <1>1 DEF Known, Steps, Updating
    <2>6. ActorsTyped'
      BY <1>1, <1>3, <2>5, GotoTyped DEF TypedInv, Memory
    <2> QED  BY <1>1, <2>4, <2>6 DEF TypedInv, InstancesTyped, RegistriesLead, Memory
  <1> QED  BY <1>2, <1>3 DEF TakeOut

LEMMA ActivateModelTyped ==
    ASSUME TypedInv, NEW r \in Requests, NEW n \in Nodes, NEW i \in Ids, ActivateModel(r, n, i)
    PROVE  TypedInv'
  <1> DEFINE w == [models[i] EXCEPT !.active = TRUE]
             q == [Idle EXCEPT !.id = i]
  <1>1. /\ Live(i) /\ models' = [models EXCEPT ![i] = w] /\ Begin(r, n, "get", q)
        /\ UNCHANGED <<deps, mu, Memory>>
    BY DEF ActivateModel
  <1>2. w \in Rows /\ w.name \in Names
    <2>1. models[i] \in Rows /\ models[i].name \in Names
      BY <1>1, NamesOf DEF TypedInv
    <2> QED  BY <2>1 DEF Rows
  <1>3. TablesTyped'
    <2> HIDE DEF w
    <2> QED  BY <1>1, <1>2, WriteTyped DEF TypedInv, Memory
  <1>4. n \in Up /\ DOMAIN q = {"node", "id", "old", "set", "row", "fallback"} /\ q.id = i /\ q.fallback = None
    BY <1>1 DEF Idle, Begin
  <1>5. Known("get", [q EXCEPT !.node = n])
    <2> HIDE DEF q
    <2> QED  BY <1>4, BeginKnown DEF Known, Steps, Updating
  <1>6. ActorsTyped'
    BY <1>1, <1>5, BeginTyped DEF TypedInv, Memory
  <1> QED  BY <1>1, <1>3, <1>6 DEF TypedInv, InstancesTyped, RegistriesLead, Memory

LEMMA GetActivatedTyped ==
    ASSUME TypedInv, NEW r \in Requests, GetActivated(r)
    PROVE  TypedInv'
  <1> DEFINE i == arg[r].id
             row == models[i]
             old == models[i].name
             fb == resolveFallbackName(models[i].fallback)
             q == [arg[r] EXCEPT !.row = row, !.old = old, !.fallback = fb]
  <1>1. Known("get", arg[r]) /\ UNCHANGED <<models, deps, mu, Memory>>
    BY DEF TypedInv, ActorsTyped, GetActivated
  <1>2. CASE Goto(r, "get", "idle", Idle)
    BY <1>1, <1>2, GotoTyped, MoveTyped DEF TypedInv, InstancesTyped, Memory
  <1>3. CASE Live(i) /\ Goto(r, "get", "add", q)
    <2>1. row \in Rows /\ row.name \in Names /\ old = row.name /\ fb \in Names \cup {None}
      BY <1>3, NamesOf DEF TypedInv
    <2>2. /\ DOMAIN q = DOMAIN arg[r] /\ q.row = row /\ q.old = old
          /\ q.node = arg[r].node /\ q.fallback = fb
      <3> HIDE DEF row, old, fb
      <3> QED  BY <1>1 DEF Known
    <2>3. Known("add", q)
      <3> HIDE DEF q, row, old, fb
      <3> QED  BY <1>1, <2>1, <2>2 DEF Known, Steps, Updating
    <2> HIDE DEF q
    <2> QED  BY <1>1, <1>3, <2>3, GotoTyped, MoveTyped DEF TypedInv, InstancesTyped, Memory
  <1> QED  BY <1>2, <1>3 DEF GetActivated

LEMMA ProxyEntries ==
    ASSUME NEW row \in Rows, NEW fb \in Names \cup {None}
    PROVE  dbModelToProxy(row, fb) \in Entries
  <1>1. row.aliases \in SUBSET Names
    BY DEF Rows
  <1>2. [d \in Deps |-> 0] \in [Deps -> 0..2]
    OBVIOUS
  <1> QED  BY <1>1, <1>2 DEF dbModelToProxy, Entries

LEMMA LoadedEntries ==
    ASSUME deps \in [Ids \X Deps -> 0..2], NEW row \in Rows, NEW i \in Ids, NEW fb \in Names \cup {None}
    PROVE  LoadedModel(row, i, fb) \in Entries
  <1>1. row.aliases \in SUBSET Names
    BY DEF Rows
  <1>2. ListActiveDeployments(i) \in [Deps -> 0..2]
    BY DEF ListActiveDeployments
  <1> QED  BY <1>1, <1>2 DEF LoadedModel, Entries

\* A step that replaces one registry.
LEMMA RegistryReplaced ==
    ASSUME RegistriesLead, NEW n \in Nodes, NEW R \in Registries, Reg!AliasesLead(R),
           registry' = [registry EXCEPT ![n] = R]
    PROVE  RegistriesLead'
  <1>1. \A m \in Nodes : registry'[m] = IF m = n THEN R ELSE registry[m]
    BY DEF RegistriesLead
  <1>2. \A m \in Nodes : registry'[m] \in Registries /\ Reg!AliasesLead(registry'[m])
    BY <1>1 DEF RegistriesLead
  <1>3. \A m \in Nodes : (registry[m] \in Registries /\ Reg!AliasesLead(registry[m]))'
    BY <1>2 DEF Reg!AliasesLead, Reg!Has
  <1> QED  BY <1>3 DEF RegistriesLead

LEMMA ChangeRegistryTyped ==
    ASSUME TypedInv, NEW r \in Requests, ChangeRegistry(r)
    PROVE  TypedInv'
  <1> DEFINE n == arg[r].node
             row == arg[r].row
             old == arg[r].old
             R == IF at[r] = "remove" \/ ~row.active \/ row.name # old
                  THEN Reg!RemoveModel(registry[n], old) ELSE registry[n]
             S == IF at[r] = "add" /\ row.active
                  THEN Reg!AddModel(R, row.name, dbModelToProxy(row, arg[r].fallback)) ELSE R
  <1>1. /\ at[r] \in {"add", "remove"} /\ registry' = [registry EXCEPT ![n] = S]
        /\ Goto(r, at[r], "publish", arg[r])
        /\ UNCHANGED <<models, deps, mu, license, redis, inbox, snap>>
    BY DEF ChangeRegistry, Rest
  <1>2. Known(at[r], arg[r])
    BY DEF TypedInv, ActorsTyped
  <1>3. /\ n \in Nodes /\ old \in Names /\ arg[r].fallback \in Names \cup {None}
        /\ at[r] = "add" => row \in Rows /\ row.name \in Names
    BY <1>1, <1>2, ModelAssumption DEF Known, Up, Updating
  <1>4. registry[n] \in Registries /\ Reg!AliasesLead(registry[n])
    BY <1>3 DEF TypedInv, RegistriesLead
  <1>5. R \in Registries /\ Reg!AliasesLead(R)
    <2> HIDE DEF old, n, row
    <2>1. Reg!RemoveModel(registry[n], old) \in Registries
          /\ Reg!AliasesLead(Reg!RemoveModel(registry[n], old))
      BY <1>3, <1>4, RemoveModelLeads
    <2> QED  BY <1>4, <2>1
  <1>6. S \in Registries /\ Reg!AliasesLead(S)
    <2> HIDE DEF R, old, n, row
    <2>1. CASE at[r] = "add" /\ row.active
      <3>1. dbModelToProxy(row, arg[r].fallback) \in Entries
        BY <1>3, <2>1, ProxyEntries
      <3>2. /\ Reg!AddModel(R, row.name, dbModelToProxy(row, arg[r].fallback)) \in Registries
            /\ Reg!AliasesLead(Reg!AddModel(R, row.name, dbModelToProxy(row, arg[r].fallback)))
        BY <1>3, <1>5, <2>1, <3>1, AddModelLeads
      <3> QED  BY <2>1, <3>2
    <2>2. CASE ~(at[r] = "add" /\ row.active)
      BY <1>5, <2>2
    <2> QED  BY <2>1, <2>2
  <1> HIDE DEF S, R, n, row, old
  <1>7. RegistriesLead'
    BY <1>1, <1>3, <1>6, RegistryReplaced DEF TypedInv
  <1>8. Known("publish", arg[r])
    BY <1>1, <1>2 DEF Known, Steps, Updating
  <1>9. ActorsTyped'
    BY <1>1, <1>8, GotoTyped DEF TypedInv
  <1> QED  BY <1>1, <1>7, <1>9 DEF TypedInv, TablesTyped, InstancesTyped

LEMMA PublishTyped ==
    ASSUME TypedInv, NEW r \in Requests, Publish(r)
    PROVE  TypedInv'
  <1>1. ActorsTyped'
    BY GotoTyped DEF Publish, Rest, TypedInv
  <1>2. inbox' \in [Nodes -> Nat] /\ mu' \in [Nodes -> Requests \cup {None}]
    BY UnlockTyped DEF Publish, TypedInv, InstancesTyped
  <1> QED  BY <1>1, <1>2 DEF Publish, Rest, TypedInv, TablesTyped, InstancesTyped, RegistriesLead

LEMMA ReloadKnown ==
    ASSUME NEW n \in Up
    PROVE  Known("reload", [Idle EXCEPT !.node = n])
  BY RecordFacts, BeginKnown DEF Known, Steps, Updating

LEMMA DeploymentTyped ==
    ASSUME TypedInv, NEW r \in Requests, NEW n \in Nodes, NEW i \in Ids, NEW d \in Deps,
           createDeployment(r, n, i, d) \/ updateDeployment(r, n, i, d) \/ deleteDeployment(r, n, i, d)
    PROVE  TypedInv'
  <1>1. Begin(r, n, "reload", Idle) /\ UNCHANGED <<models, mu, Memory>>
    BY DEF createDeployment, updateDeployment, deleteDeployment
  <1>2. deps' \in [Ids \X Deps -> 0..2]
    <2>1. deps \in [Ids \X Deps -> 0..2] /\ deps[<<i, d>>] \in 0..2
      BY DEF TypedInv, TablesTyped
    <2>2. \E w \in 0..2 : deps' = [deps EXCEPT ![<<i, d>>] = w]
      <3>1. CASE createDeployment(r, n, i, d)
        BY <3>1 DEF createDeployment, CreateDeployment
      <3>2. CASE updateDeployment(r, n, i, d)
        <4>1. 3 - deps[<<i, d>>] \in 0..2
          BY <2>1, <3>2 DEF updateDeployment, GetDeployment
        <4> QED  BY <3>2, <4>1 DEF updateDeployment, UpdateDeployment
      <3>3. CASE deleteDeployment(r, n, i, d)
        BY <3>3 DEF deleteDeployment, DeleteDeployment
      <3> QED  BY <3>1, <3>2, <3>3
    <2> QED  BY <2>1, <2>2
  <1>3. ActorsTyped'
    BY <1>1, ReloadKnown, BeginTyped DEF TypedInv, Memory, Begin
  <1> QED  BY <1>1, <1>2, <1>3 DEF TypedInv, TablesTyped, InstancesTyped, RegistriesLead, Memory

LEMMA SetLicenseTyped ==
    ASSUME TypedInv, NEW r \in Requests, NEW n \in Nodes, NEW feature \in BOOLEAN, SetLicense(r, n, feature)
    PROVE  TypedInv'
  <1>1. ActorsTyped'
    BY ReloadKnown, BeginTyped DEF TypedInv, SetLicense, Begin
  <1>2. license' \in [Nodes -> BOOLEAN]
    BY DEF TypedInv, SetLicense, InstancesTyped
  <1> QED  BY <1>1, <1>2 DEF SetLicense, TypedInv, TablesTyped, InstancesTyped, RegistriesLead

\* The steps of a subscriber.
LEMMA NodeGotoTyped ==
    ASSUME ActorsTyped, redis' = redis, NEW n \in Nodes, NEW here, NEW next \in {"idle", "load"}, NEW x,
           Goto(n, here, next, x)
    PROVE  ActorsTyped'
  <1>1. n \in Actors /\ Up' = Up
    BY DEF Actors, Up
  <1>2. \A b \in Actors : b # n => at'[b] = at[b] /\ arg'[b] = arg[b]
    BY DEF Goto, ActorsTyped
  <1>3. \A b \in Requests : b \in Actors /\ b # n
    BY ModelAssumption DEF Actors
  <1>4. \A b \in Requests : Known(at'[b], arg'[b])
    BY <1>2, <1>3 DEF ActorsTyped
  <1>5. \A b \in Requests : Known(at[b], arg[b])'
    BY <1>1, <1>4 DEF Known
  <1>6. \A m \in Nodes : at'[m] \in {"idle", "load", "reload"}
    BY <1>1, <1>2 DEF ActorsTyped, Actors, Goto
  <1> QED  BY <1>5, <1>6 DEF ActorsTyped, Goto

\* The steps of a reload, by a request or by a subscriber.
LEMMA ReloadGoto ==
    ASSUME TypedInv, redis' = redis, NEW a \in Actors, NEW here \in {"reload", "load"},
           NEW next \in {"load", "idle", "publish"}, next \in {"idle", "publish"} => (next = "idle" <=> a \in Nodes),
           Goto(a, here, next, arg[a])
    PROVE  ActorsTyped'
  <1>1. CASE a \in Nodes
    BY <1>1, NodeGotoTyped DEF TypedInv
  <1>2. CASE a \in Requests
    <2>1. Known(here, arg[a]) /\ a \notin Nodes
      BY <1>2, ModelAssumption DEF TypedInv, ActorsTyped, Goto
    <2>2. Known(next, arg[a])
      BY <2>1 DEF Known, Steps, Updating
    <2> QED  BY <1>2, <2>2, GotoTyped DEF TypedInv
  <1> QED  BY <1>1, <1>2 DEF Actors

LEMMA SnapshotTyped ==
    ASSUME TablesTyped
    PROVE  \A m \in Snapshot : /\ m \in Listed /\ m.row.name \in Names
                               /\ m.id \in ListActiveModels /\ m.row = models[m.id]
                               /\ m.fallback = FallbackAmongActive(m.id)
  <1> SUFFICES ASSUME NEW i \in ListActiveModels
               PROVE  LET m == [id |-> i, row |-> models[i], fallback |-> FallbackAmongActive(i)] IN
                      /\ m \in Listed /\ m.row.name \in Names
                      /\ m.id \in ListActiveModels /\ m.row = models[m.id]
                      /\ m.fallback = FallbackAmongActive(m.id)
    BY DEF Snapshot
  <1>1. i \in Ids /\ Live(i) /\ models[i] \in Rows /\ models[i].name \in Names
    BY NamesOf DEF ListActiveModels
  <1>2. FallbackAmongActive(i) \in Names \cup {None}
    BY <1>1, NamesOf
  <1> QED  BY <1>1, <1>2 DEF Listed

LEMMA ListTyped ==
    ASSUME TablesTyped, NEW a \in Actors, UNCHANGED <<models, deps>>,
           snap' = [snap EXCEPT ![a] = Snapshot] \/ \E m \in snap[a] : snap' = [snap EXCEPT ![a] = snap[a] \ {m}]
    PROVE  TablesTyped'
  <1>1. \A b \in Actors : snap'[b] \subseteq snap[b] \/ snap'[b] = Snapshot
    BY DEF TablesTyped
  <1>2. \A b \in Actors : \A m \in snap'[b] : m \in Listed /\ m.row.name \in Names
    BY <1>1, SnapshotTyped DEF TablesTyped
  <1> QED  BY <1>2 DEF TablesTyped

LEMMA ReceiveTyped ==
    ASSUME TypedInv, NEW n \in Nodes, Receive(n)
    PROVE  TypedInv'
  <1>1. ActorsTyped'
    BY NodeGotoTyped DEF TypedInv, Receive, Rest
  <1>2. inbox' \in [Nodes -> Nat]
    BY DEF TypedInv, InstancesTyped, Receive
  <1>3. TablesTyped'
    BY ListTyped DEF TypedInv, Receive, Actors
  <1> QED  BY <1>1, <1>2, <1>3 DEF TypedInv, InstancesTyped, RegistriesLead, Receive, Rest

LEMMA ReadModelsTyped ==
    ASSUME TypedInv, NEW a \in Actors, ReadModels(a)
    PROVE  TypedInv'
  <1>1. ActorsTyped'
    BY ReloadGoto DEF ReadModels, Rest
  <1>2. TablesTyped'
    BY ListTyped DEF TypedInv, ReadModels
  <1> QED  BY <1>1, <1>2 DEF TypedInv, InstancesTyped, RegistriesLead, ReadModels, Rest

\* A reload knows its instance.
LEMMA NodeOfLoad ==
    ASSUME TypedInv, NEW a \in Actors, at[a] = "load"
    PROVE  NodeOf(a) \in Nodes
  <1>1. CASE a \in Nodes
    BY <1>1 DEF NodeOf
  <1>2. CASE a \in Requests
    <2>1. Known("load", arg[a]) /\ a \notin Nodes
      BY <1>2, ModelAssumption DEF TypedInv, ActorsTyped
    <2>2. arg[a].node \in Nodes
      BY <2>1, ModelAssumption DEF Known, Up
    <2> QED  BY <2>1, <2>2 DEF NodeOf
  <1> QED  BY <1>1, <1>2 DEF Actors

LEMMA LoadOneTyped ==
    ASSUME TypedInv, NEW a \in Actors, LoadOne(a)
    PROVE  TypedInv'
  <1>1. PICK m \in snap[a] :
          /\ Goto(a, "load", "load", arg[a])
          /\ registry' = [registry EXCEPT ![NodeOf(a)] =
                Reg!AddModel(registry[NodeOf(a)], m.row.name, LoadedModel(m.row, m.id, m.fallback))]
          /\ snap' = [snap EXCEPT ![a] = snap[a] \ {m}]
          /\ UNCHANGED <<models, deps, license, redis, inbox, mu>>
    BY DEF LoadOne, Rest
  <1>2. NodeOf(a) \in Nodes
    BY <1>1, NodeOfLoad DEF Goto
  <1>3. m \in Listed /\ m.row.name \in Names
    BY DEF TypedInv, TablesTyped
  <1>4. LoadedModel(m.row, m.id, m.fallback) \in Entries
    <2>1. m.row \in Rows /\ m.id \in Ids /\ m.fallback \in Names \cup {None}
      BY <1>3 DEF Listed
    <2> QED  BY <2>1, LoadedEntries DEF TypedInv, TablesTyped
  <1>5. RegistriesLead'
    BY <1>1, <1>2, <1>3, <1>4, AddModelLeads, RegistryReplaced DEF TypedInv, RegistriesLead
  <1>6. ActorsTyped'
    BY <1>1, ReloadGoto
  <1>7. TablesTyped'
    BY <1>1, ListTyped DEF TypedInv
  <1> QED  BY <1>1, <1>5, <1>6, <1>7 DEF TypedInv, InstancesTyped

LEMMA FinishLoadTyped ==
    ASSUME TypedInv, NEW a \in Actors, FinishLoad(a)
    PROVE  TypedInv'
  <1> DEFINE n == NodeOf(a)
  <1>1. n \in Nodes
    BY NodeOfLoad DEF FinishLoad, Goto
  <1>2. registry[n] \in Registries /\ Reg!AliasesLead(registry[n])
    BY <1>1 DEF TypedInv, RegistriesLead
  <1>3. gateFallback(registry[n], n) \in Registries /\ Reg!AliasesLead(gateFallback(registry[n], n))
    BY <1>2, StripLeads DEF gateFallback
  <1>4. registry' = [registry EXCEPT ![n] = gateFallback(registry[n], n)]
    BY DEF FinishLoad
  <1> HIDE DEF n
  <1>5. RegistriesLead'
    BY <1>1, <1>3, <1>4, RegistryReplaced DEF TypedInv
  <1>6. ActorsTyped'
    BY ReloadGoto DEF FinishLoad, Rest
  <1> QED  BY <1>5, <1>6 DEF TypedInv, TablesTyped, InstancesTyped, FinishLoad, Rest

LEMMA RestartTyped ==
    ASSUME TypedInv, Restart
    PROVE  TypedInv'
  <1>1. models' \in [Ids -> Rows] /\ \A i \in Ids : models'[i].status = "live" => models'[i].name \in Names
    BY SyncRows DEF TypedInv, TablesTyped, Restart
  <1>2. deps' \in [Ids \X Deps -> 0..2]
    BY SyncDeploymentsTyped DEF TypedInv, TablesTyped, Restart
  <1>3. TablesTyped'
    BY <1>1, <1>2 DEF TypedInv, TablesTyped, Restart
  <1>4. RegistriesLead'
    BY NewRegistryLeads, RegistryReplaced, ModelAssumption DEF TypedInv, Restart
  <1>5. ActorsTyped'
    <2>1. Up' = Up /\ \A b \in Requests : b \in Actors /\ b # First
      BY ModelAssumption DEF Restart, Up, Actors
    <2>2. \A b \in Requests : Known(at'[b], arg'[b])
      BY <2>1 DEF Restart, TypedInv, ActorsTyped
    <2>3. \A b \in Requests : Known(at[b], arg[b])'
      BY <2>1, <2>2 DEF Known
    <2>4. \A m \in Nodes : at'[m] \in {"idle", "load", "reload"}
      BY DEF Restart, TypedInv, ActorsTyped, Actors
    <2> QED  BY <2>3, <2>4 DEF Restart, TypedInv, ActorsTyped
  <1> QED  BY <1>3, <1>4, <1>5 DEF TypedInv, InstancesTyped, Restart

LEMMA ModelStepTyped == TypedInv /\ [Next]_vars => TypedInv'
  <1> SUFFICES ASSUME TypedInv, [Next]_vars PROVE TypedInv'
    OBVIOUS
  <1>1. ASSUME NEW r \in Requests, Handler(r) PROVE TypedInv'
    BY <1>1, CreateModelTyped, UpdateModelTyped, DeleteModelTyped, ActivateModelTyped,
       DeploymentTyped, SetLicenseTyped, LockTyped, InsertModelTyped, CheckCycleTyped,
       UpdateRowTyped, TakeOutTyped, GetActivatedTyped, ChangeRegistryTyped, PublishTyped
    DEF Handler
  <1>2. CASE UNCHANGED vars
    <2>1. ActorsTyped'
      BY <1>2 DEF TypedInv, ActorsTyped, Known, Up, vars
    <2> QED  BY <1>2, <2>1 DEF TypedInv, TablesTyped, InstancesTyped, RegistriesLead, vars
  <1> QED
    BY <1>1, <1>2, ReceiveTyped, ReadModelsTyped, LoadOneTyped, FinishLoadTyped, RestartTyped DEF Next

\* Whatever handlers, reloads and restarts write, and in whatever order, each
\* registry is one in which every alias leads to a model that is there.
THEOREM ModelTypes == Spec => []TypedInv
  BY ModelInitTyped, ModelStepTyped, PTL DEF Spec

\* In every registry an alias leads to a model that is there and has it.
THEOREM AliasesNeverDangle == Spec => []NoDanglingAlias
  <1>1. TypedInv => NoDanglingAlias
    BY DEF TypedInv, RegistriesLead, NoDanglingAlias
  <1> QED  BY <1>1, ModelTypes, PTL

-----------------------------------------------------------------------------
(* Fallback links, as the function from each model to the one it falls     *)
(* back to.                                                                *)

Links == [j \in Ids |-> IF Live(j) THEN models[j].fallback ELSE 0]

\* No set of models is closed under the links.
Acyclic(f) == \A S \in SUBSET Ids : S # {} => \E j \in S : f[j] \notin S

\* k links lead from t to j.
Path(f, t, k, j) ==
    \E w \in [0..k -> Ids] : w[0] = t /\ w[k] = j /\ \A m \in 1..k : f[w[m - 1]] = w[m]

\* The models the walk has to get through.
LiveModels == {i \in Ids : Live(i)}
FewModels == IsFiniteSet(LiveModels) /\ Cardinality(LiveModels) <= fallbackCycleMaxSteps + 1

\* Links are made to rows that exist, so a new row is never a target.
Used(v) == v = 0 \/ (v \in Ids /\ models[v].status # None)

\* Request r is about to add a link.
LinkWrite(r) == at[r] = "update" /\ arg[r].set.field = "fallback" /\ arg[r].set.value # 0
Linking(r) == at[r] = "check" \/ LinkWrite(r) \/ (at[r] = "insert" /\ arg[r].row.fallback # 0)

\* It holds the lock of its instance then, and a link that has passed the check
\* closes no cycle when it is written, whatever else is written in between.
Ready(r) ==
    /\ at[r] \in {"lock insert", "insert"} => Used(arg[r].row.fallback)
    /\ at[r] \in Updating => /\ models[arg[r].id].status # None
                             /\ arg[r].set.field = "fallback" => Used(arg[r].set.value)
    /\ Linking(r) => mu[arg[r].node] = r
    /\ redis = FALSE /\ LinkWrite(r) /\ Live(arg[r].id) =>
           Acyclic([Links EXCEPT ![arg[r].id] = arg[r].set.value])

LinkInv ==
    /\ \A i \in Ids : Used(models[i].fallback)
    /\ \A r \in Requests : Ready(r)
    /\ redis = FALSE => Acyclic(Links)

LEMMA FewerLinks ==
    ASSUME NEW f \in [Ids -> Ids \cup {0}], NEW g \in [Ids -> Ids \cup {0}],
           \A j \in Ids : g[j] \in {f[j], 0}, Acyclic(f)
    PROVE  Acyclic(g)
  <1> SUFFICES ASSUME NEW S \in SUBSET Ids, S # {}, \A j \in S : g[j] \in S
               PROVE  FALSE
    BY DEF Acyclic
  <1>1. \A j \in S : f[j] \in S
    BY ModelAssumption
  <1> QED  BY <1>1 DEF Acyclic

LEMMA FreshLink ==
    ASSUME NEW f \in [Ids -> Ids \cup {0}], NEW k \in Ids, NEW t \in Ids \cup {0}, t # k,
           \A j \in Ids : f[j] # k, Acyclic(f)
    PROVE  Acyclic([f EXCEPT ![k] = t])
  <1> DEFINE g == [f EXCEPT ![k] = t]
  <1> SUFFICES ASSUME NEW S \in SUBSET Ids, S # {}, \A j \in S : g[j] \in S
               PROVE  FALSE
    BY DEF Acyclic
  <1>1. \A j \in S : j # k => f[j] \in S \ {k}
    OBVIOUS
  <1>2. S \ {k} # {}
    BY ModelAssumption
  <1> QED  BY <1>1, <1>2, S \ {k} \in SUBSET Ids DEF Acyclic

LEMMA PathLonger ==
    ASSUME NEW f, NEW t, NEW k \in Nat, NEW j, Path(f, t, k, j), f[j] \in Ids
    PROVE  Path(f, t, k + 1, f[j])
  <1>1. PICK w \in [0..k -> Ids] : w[0] = t /\ w[k] = j /\ \A m \in 1..k : f[w[m - 1]] = w[m]
    BY DEF Path
  <1> DEFINE v == [m \in 0..(k + 1) |-> IF m <= k THEN w[m] ELSE f[j]]
  <1>2. v \in [0..(k + 1) -> Ids]
    BY <1>1
  <1>3. v[0] = t /\ v[k + 1] = f[j]
    BY <1>1
  <1>4. ASSUME NEW m \in 1..(k + 1) PROVE f[v[m - 1]] = v[m]
    <2>1. CASE m <= k
      <3>1. m \in 1..k /\ m - 1 \in 0..(k + 1) /\ m - 1 <= k
        BY <2>1
      <3> QED  BY <1>1, <2>1, <3>1
    <2>2. CASE m = k + 1
      <3>1. v[m - 1] = w[k]
        BY <2>2
      <3> QED  BY <1>1, <2>2, <3>1
    <2> QED  BY <2>1, <2>2
  <1> HIDE DEF v
  <1> QED  BY <1>2, <1>3, <1>4 DEF Path

\* Without the loop between two visits of one model a path is shorter.
LEMMA PathCut ==
    ASSUME NEW f, NEW k \in Nat, NEW w \in [0..k -> Ids], \A m \in 1..k : f[w[m - 1]] = w[m],
           NEW a \in 0..k, NEW b \in 0..k, a < b, w[a] = w[b]
    PROVE  k - (b - a) \in 0..(k - 1) /\ Path(f, w[0], k - (b - a), w[k])
  <1> DEFINE l == k - (b - a)
             v == [m \in 0..l |-> IF m <= a THEN w[m] ELSE w[m + (b - a)]]
  <1>1. l \in Nat /\ l < k /\ a <= l
    OBVIOUS
  <1>2. v \in [0..l -> Ids]
    OBVIOUS
  <1>3. v[0] = w[0]
    BY <1>1
  <1>4. v[l] = w[k]
    <2>1. CASE l = a
      <3>1. b = k
        BY <2>1
      <3> QED  BY <1>1, <2>1, <3>1
    <2>2. CASE l > a
      <3>1. l + (b - a) = k
        OBVIOUS
      <3> QED  BY <1>1, <2>2, <3>1
    <2> QED  BY <1>1, <2>1, <2>2
  <1>5. ASSUME NEW m \in 1..l PROVE f[v[m - 1]] = v[m]
    <2>1. CASE m <= a
      <3>1. m \in 1..k /\ m - 1 \in 0..l /\ m - 1 <= a /\ m \in 0..l
        BY <1>1, <2>1
      <3> QED  BY <2>1, <3>1
    <2>2. CASE m = a + 1
      <3>1. v[m - 1] = w[a] /\ v[m] = w[b + 1]
        <4>1. m - 1 \in 0..l /\ m - 1 = a /\ m \in 0..l /\ ~(m <= a) /\ m + (b - a) = b + 1
          BY <1>1, <2>2
        <4> QED  BY <4>1
      <3>2. b + 1 \in 1..k /\ (b + 1) - 1 = b
        BY <1>1, <2>2
      <3> QED  BY <3>1, <3>2
    <2>3. CASE m > a + 1
      <3>1. m + (b - a) \in 1..k /\ (m + (b - a)) - 1 = (m - 1) + (b - a) /\ m - 1 \in 0..l /\ m \in 0..l
            /\ ~(m <= a) /\ ~(m - 1 <= a)
        BY <1>1, <2>3
      <3>2. v[m] = w[m + (b - a)] /\ v[m - 1] = w[(m + (b - a)) - 1]
        BY <3>1
      <3> QED  BY <3>1, <3>2
    <2> QED  BY <2>1, <2>2, <2>3
  <1>6. l \in 0..(k - 1)
    BY <1>1
  <1> HIDE DEF v
  <1>7. Path(f, w[0], l, w[k])
    BY <1>2, <1>3, <1>4, <1>5 DEF Path
  <1> QED  BY <1>6, <1>7

\* The walk looks far enough: where it does not come from t to s, the new link
\* from s to t closes no cycle among models as many as it can see.
LEMMA CheckedLink ==
    ASSUME NEW f \in [Ids -> Ids \cup {0}], Acyclic(f), NEW s \in Ids, NEW t \in Ids, s # t,
           NEW L \in SUBSET Ids, IsFiniteSet(L), s \in L, \A j \in Ids : f[j] # 0 => j \in L,
           Cardinality(L) <= fallbackCycleMaxSteps + 1,
           \A k \in 1..fallbackCycleMaxSteps : ~Path(f, t, k, s)
    PROVE  Acyclic([f EXCEPT ![s] = t])
  <1> DEFINE g == [f EXCEPT ![s] = t]
             N == fallbackCycleMaxSteps
  <1> SUFFICES ASSUME NEW S \in SUBSET Ids, S # {}, \A j \in S : g[j] \in S
               PROVE  FALSE
    BY DEF Acyclic
  <1> DEFINE W == {j \in S \ {s} : \E k \in 0..N : Path(f, t, k, j)}
  <1>0. N \in Nat
    BY ModelAssumption
  <1>1. \A j \in S : j # s => f[j] \in S /\ f[j] \in Ids /\ j \in L
    BY ModelAssumption
  <1>2. s \in S => t \in S
    OBVIOUS
  <1>3. CASE s \notin S
    BY <1>1, <1>3 DEF Acyclic
  <1>4. CASE s \in S
    <2>1. Path(f, t, 0, t)
      <3>1. [m \in 0..0 |-> t] \in [0..0 -> Ids] /\ [m \in 0..0 |-> t][0] = t
            /\ \A m \in 1..0 : f[[n \in 0..0 |-> t][m - 1]] = [n \in 0..0 |-> t][m]
        OBVIOUS
      <3> QED  BY <3>1 DEF Path
    <2>2. t \in W
      BY <1>0, <1>2, <1>4, <2>1
    \* A path among these models never comes to s, and when it is as long as the
    \* walk it visits a model twice.
    <2>3. ASSUME NEW w \in [0..N -> Ids], w[0] = t, \A m \in 1..N : f[w[m - 1]] = w[m],
                 w[N] \in S \ {s}
          PROVE  \E k \in 0..(N - 1) : Path(f, t, k, w[N])
      <3>1. ASSUME NEW m \in 0..N PROVE w[m] \in L \ {s}
        <4>1. w[m] # s
          <5>1. CASE m = 0
            BY <2>3, <5>1
          <5>2. CASE m # 0
            <6> DEFINE v == [i \in 0..m |-> w[i]]
            <6>1. m \in 1..N
              BY <1>0, <5>2
            <6>2. v \in [0..m -> Ids] /\ v[0] = t /\ v[m] = w[m] /\ \A i \in 1..m : f[v[i - 1]] = v[i]
              BY <2>3, <6>1, <1>0
            <6>3. Path(f, t, m, w[m])
              <7> HIDE DEF v
              <7> QED  BY <6>2 DEF Path
            <6> QED  BY <6>1, <6>3
          <5> QED  BY <5>1, <5>2
        <4>2. CASE m = N
          BY <1>1, <2>3, <4>1, <4>2
        <4>3. CASE m # N
          <5>1. m + 1 \in 1..N /\ (m + 1) - 1 = m
            BY <1>0, <4>3
          <5>2. f[w[m]] = w[m + 1] /\ w[m + 1] \in Ids
            BY <2>3, <5>1
          <5> QED  BY <4>1, <5>2, ModelAssumption
        <4> QED  BY <4>2, <4>3
      <3>2. w \in [0..N -> L \ {s}]
        BY <3>1
      <3>3. IsFiniteSet(0..N) /\ Cardinality(0..N) = N + 1
        BY <1>0, FS_Interval
      <3>4. IsFiniteSet(L \ {s}) /\ Cardinality(L \ {s}) = Cardinality(L) - 1 /\ Cardinality(L) \in Nat
        BY FS_RemoveElement, FS_CardinalityType
      <3>5. Cardinality(L \ {s}) < Cardinality(0..N)
        BY <1>0, <3>3, <3>4
      <3>6. \E x, y \in 0..N : x # y /\ w[x] = w[y]
        <4> DEFINE Q == L \ {s}
                   P == 0..N
        <4>1. w \in [P -> Q] /\ IsFiniteSet(P) /\ IsFiniteSet(Q) /\ Cardinality(Q) < Cardinality(P)
          BY <3>2, <3>3, <3>4, <3>5
        <4> HIDE DEF P, Q
        <4>2. \E x, y \in P : x # y /\ w[x] = w[y]
          BY <4>1, FS_PigeonHole
        <4> QED  BY <4>2 DEF P
      <3>7. PICK x \in 0..N, y \in 0..N : x < y /\ w[x] = w[y]
        BY <1>0, <3>6
      <3>8. N - (y - x) \in 0..(N - 1) /\ Path(f, w[0], N - (y - x), w[N])
        BY <1>0, <2>3, <3>7, PathCut
      <3> QED  BY <2>3, <3>8
    <2>4. ASSUME NEW j \in W PROVE f[j] \in W
      <3>1. PICK k \in 0..N : Path(f, t, k, j)
        OBVIOUS
      <3>2. PICK i \in 0..N : i < N /\ Path(f, t, i, j)
        <4>1. CASE k < N
          BY <3>1, <4>1
        <4>2. CASE k = N
          <5>1. PICK w \in [0..N -> Ids] : w[0] = t /\ w[N] = j /\ \A m \in 1..N : f[w[m - 1]] = w[m]
            BY <3>1, <4>2 DEF Path
          <5>2. \E i \in 0..(N - 1) : Path(f, t, i, w[N])
            BY <2>3, <5>1
          <5>3. PICK i \in 0..(N - 1) : Path(f, t, i, j)
            BY <5>1, <5>2
          <5> QED  BY <1>0, <5>3
        <4> QED  BY <1>0, <4>1, <4>2
      <3>3. f[j] \in S /\ f[j] \in Ids
        BY <1>1
      <3>4. i + 1 \in 1..N /\ i + 1 \in 0..N /\ Path(f, t, i + 1, f[j])
        BY <1>0, <3>2, <3>3, PathLonger
      <3>5. f[j] # s
        BY <3>4
      <3> QED  BY <3>3, <3>4, <3>5
    <2>5. W \in SUBSET Ids
      OBVIOUS
    <2> HIDE DEF W
    <2> QED  BY <2>2, <2>4, <2>5 DEF Acyclic
  <1> QED  BY <1>3, <1>4

-----------------------------------------------------------------------------
(* Fallback links: one lemma per action.                                   *)

\* What a step of actor a leaves alone.
Moved(a) == \A b \in Actors : b # a => at'[b] = at[b] /\ arg'[b] = arg[b]
LocksKept(a) == \A n \in Nodes, b \in Requests : b # a /\ mu[n] = b => mu'[n] = b
RowsKept == \A i \in Ids : models[i].status # None => models'[i].status # None
LinksKept == \A j \in Ids : /\ Links'[j] \in {Links[j], 0}
                            /\ Live(j)' => Live(j) \/ models[j].status = None

LEMMA LinksTyped == ASSUME TypedInv PROVE Links \in [Ids -> Ids \cup {0}]
  <1>1. \A j \in Ids : models[j].fallback \in Ids \cup {0}
    BY DEF TypedInv, TablesTyped, Rows
  <1> QED  BY <1>1 DEF Links

LEMMA LinksTypedNext == TypedInv' => (Links \in [Ids -> Ids \cup {0}])'
  BY LinksTyped, PTL

\* The other requests stay ready, unless a link is added while they add one.
LEMMA ReadyKept ==
    ASSUME TypedInv, TypedInv', LinkInv, NEW a, redis' = redis, Moved(a), LocksKept(a), RowsKept,
           NEW b \in Requests, b # a, LinksKept \/ (redis = FALSE => ~LinkWrite(b))
    PROVE  Ready(b)'
  <1>1. Ready(b) /\ at'[b] = at[b] /\ arg'[b] = arg[b]
    BY DEF LinkInv, Moved, Actors
  <1>2. Known(at[b], arg[b])
    BY DEF TypedInv, ActorsTyped
  <1>3. \A v : Used(v) => Used(v)'
    BY DEF Used, RowsKept
  <1>4. (at[b] \in {"lock insert", "insert"} => Used(arg[b].row.fallback))'
    BY <1>1, <1>3 DEF Ready
  <1>5. (at[b] \in Updating => /\ models[arg[b].id].status # None
                               /\ arg[b].set.field = "fallback" => Used(arg[b].set.value))'
    BY <1>1, <1>2, <1>3 DEF Ready, Known, RowsKept
  <1>6. (Linking(b) <=> Linking(b)') /\ (LinkWrite(b) <=> LinkWrite(b)')
    BY <1>1 DEF Linking, LinkWrite
  <1>7. (Linking(b) => mu[arg[b].node] = b)'
    <2>1. Linking(b) => arg[b].node \in Nodes
      BY <1>2, ModelAssumption DEF Linking, LinkWrite, Known, Up
    <2> QED  BY <1>1, <1>6, <2>1 DEF Ready, LocksKept
  <1>8. ASSUME redis = FALSE, LinkWrite(b), Live(arg[b].id)'
        PROVE  Acyclic([Links EXCEPT ![arg[b].id] = arg[b].set.value])'
    <2> DEFINE i == arg[b].id
               t == arg[b].set.value
               f == [Links EXCEPT ![i] = t]
               g == [Links' EXCEPT ![i] = t]
    <2>1. LinksKept
      BY <1>8
    <2>2. i \in Ids /\ Used(t) /\ models[i].status # None
      BY <1>1, <1>2, <1>8 DEF Ready, Known, LinkWrite, Updating
    <2>3. i' = i /\ t' = t
      BY <1>1
    <2>4. Acyclic(f)
      BY <1>1, <1>8, <2>1, <2>2, <2>3 DEF Ready, LinksKept
    <2>5. Links \in [Ids -> Ids \cup {0}] /\ Links' \in [Ids -> Ids \cup {0}] /\ t \in Ids \cup {0}
      BY <2>2, LinksTyped, LinksTypedNext DEF Used
    <2>6. f \in [Ids -> Ids \cup {0}] /\ g \in [Ids -> Ids \cup {0}] /\ \A j \in Ids : g[j] \in {f[j], 0}
      <3> HIDE DEF i, t
      <3> QED  BY <2>1, <2>2, <2>5 DEF LinksKept
    <2>7. Acyclic(g)
      <3> HIDE DEF f, g
      <3> QED  BY <2>4, <2>6, FewerLinks
    <2> QED  BY <2>3, <2>7
  <1>9. (redis = FALSE /\ LinkWrite(b) /\ Live(arg[b].id) =>
           Acyclic([Links EXCEPT ![arg[b].id] = arg[b].set.value]))'
    BY <1>6, <1>8
  <1> QED  BY <1>4, <1>5, <1>7, <1>9 DEF Ready

\* A step that adds no link.
LEMMA NoNewLink ==
    ASSUME TypedInv, TypedInv', LinkInv, NEW a, redis' = redis, Moved(a), LocksKept(a), RowsKept,
           LinksKept, \A i \in Ids : Used(models'[i].fallback), a \in Requests => Ready(a)'
    PROVE  LinkInv'
  <1>1. \A i \in Ids : Used(models[i].fallback)'
    BY DEF Used, RowsKept
  <1>2. \A b \in Requests : Ready(b)'
    BY ReadyKept
  <1>3. (redis = FALSE => Acyclic(Links))'
    BY LinksTyped, LinksTypedNext, FewerLinks DEF LinkInv, LinksKept
  <1> QED  BY <1>1, <1>2, <1>3 DEF LinkInv

\* A step that leaves the rows alone.
LEMMA NoRowWritten ==
    ASSUME TypedInv, TypedInv', LinkInv, NEW a, redis' = redis, Moved(a), LocksKept(a),
           models' = models, a \in Requests => Ready(a)'
    PROVE  LinkInv'
  <1>1. LinksKept
    BY DEF LinksKept, Links, Live
  <1>2. RowsKept /\ \A i \in Ids : Used(models'[i].fallback)
    BY DEF RowsKept, LinkInv
  <1> QED  BY <1>1, <1>2, NoNewLink

LEMMA GotoMoves ==
    ASSUME TypedInv, NEW a \in Actors, NEW here, NEW next, NEW x, Goto(a, here, next, x)
    PROVE  Moved(a) /\ at[a] = here /\ at'[a] = next /\ arg'[a] = IF next = "idle" THEN Idle ELSE x
  BY DEF Goto, Moved, TypedInv, ActorsTyped, Actors

LEMMA BeginMoves ==
    ASSUME TypedInv, NEW a \in Actors, NEW n, NEW next, NEW x, Begin(a, n, next, x)
    PROVE  Moved(a) /\ at'[a] = next /\ arg'[a] = [x EXCEPT !.node = n]
  BY DEF Begin, Moved, TypedInv, ActorsTyped, Actors

LEMMA UnlockKeeps ==
    ASSUME TypedInv, NEW r \in Requests, Unlock(r)
    PROVE  LocksKept(r)
  BY DEF Unlock, LocksKept, TypedInv, InstancesTyped

\* A request that has nothing to do with links is ready.
LEMMA ReadyElsewhere ==
    ASSUME NEW r, at'[r] \in Steps \ ({"lock insert", "insert"} \cup Updating)
    PROVE  Ready(r)'
  BY DEF Ready, Linking, LinkWrite, Steps, Updating

LEMMA CreateModelLinks ==
    ASSUME TypedInv, TypedInv', LinkInv, NEW r \in Requests, NEW n \in Nodes, NEW x \in NewNames,
           NEW as \in AliasLists, NEW fb \in Names \cup {None}, CreateModel(r, n, x, as, fb)
    PROVE  LinkInv'
  <1> DEFINE link == IF fb = None THEN 0 ELSE GetModelIDByName(fb)
             row == [NoRow EXCEPT !.name = x, !.aliases = as, !.fallback = link]
             q == [Idle EXCEPT !.fallback = fb, !.row = row]
             next == IF fb = None THEN "insert" ELSE "lock insert"
  <1>1. Begin(r, n, next, q) /\ UNCHANGED <<models, deps, mu, registry, license, redis, inbox, snap>>
    BY DEF CreateModel, Memory
  <1>2. Used(link)
    BY IdByName DEF CreateModel, Used, Live, None
  <1>3. row.fallback = link
    <2> HIDE DEF link
    <2> QED  BY DEF NoRow
  <1>4. DOMAIN q = {"node", "id", "old", "set", "row", "fallback"} /\ q.row = row
    <2> HIDE DEF row
    <2> QED  BY DEF Idle
  <1>5. Moved(r) /\ at'[r] = next /\ arg'[r] = [q EXCEPT !.node = n]
    <2> HIDE DEF q, next
    <2> QED  BY <1>1, BeginMoves DEF Actors
  <1>6. arg'[r].row.fallback = link
    <2> HIDE DEF q, row, link
    <2> QED  BY <1>3, <1>4, <1>5
  <1>7. Ready(r)'
    <2>1. \A v : Used(v) => Used(v)'
      BY <1>1 DEF Used
    <2>2. ~Linking(r)'
      BY <1>5, <1>6 DEF Linking, LinkWrite
    <2>3. at'[r] \in {"insert", "lock insert"}
      BY <1>5
    <2> HIDE DEF link
    <2> QED  BY <1>2, <1>6, <2>1, <2>2, <2>3 DEF Ready, Linking, Updating
  <1> HIDE DEF q, next
  <1> QED  BY <1>1, <1>5, <1>7, NoRowWritten DEF LocksKept

LEMMA UpdateModelLinks ==
    ASSUME TypedInv, TypedInv', LinkInv, NEW r \in Requests, NEW n \in Nodes, NEW i \in Ids,
           NEW set \in Changes, UpdateModel(r, n, i, set)
    PROVE  LinkInv'
  <1> DEFINE linked == set.field = "fallback" /\ set.value # None
             write == IF linked THEN [field |-> "fallback", value |-> GetModelIDByName(set.value)]
                      ELSE IF set.field = "fallback" THEN [field |-> "fallback", value |-> 0]
                      ELSE set
             fb == IF set.field = "fallback" THEN set.value
                   ELSE resolveFallbackName(models[i].fallback)
             old == models[i].name
             q == [Idle EXCEPT !.id = i, !.old = old, !.set = write, !.fallback = fb]
             next == IF linked THEN "lock update" ELSE "update"
  <1>1. Begin(r, n, next, q) /\ UNCHANGED <<models, deps, mu, Memory>>
    BY DEF UpdateModel
  <1>2. write.field = "fallback" => Used(write.value) /\ (~linked => write.value = 0)
    <2>1. CASE linked
      BY <2>1, IdByName DEF UpdateModel, Used, Live, None
    <2>2. CASE ~linked
      BY <2>2 DEF Used
    <2> QED  BY <2>1, <2>2
  <1>3. DOMAIN q = {"node", "id", "old", "set", "row", "fallback"} /\ q.set = write /\ q.id = i
    <2> HIDE DEF write, fb, old
    <2> QED  BY DEF Idle
  <1>4. Moved(r) /\ at'[r] = next /\ arg'[r] = [q EXCEPT !.node = n]
    <2> HIDE DEF q, next
    <2> QED  BY <1>1, BeginMoves DEF Actors
  <1>5. arg'[r].set = write /\ arg'[r].id = i
    <2> HIDE DEF q
    <2> QED  BY <1>3, <1>4
  <1>6. models'[i].status # None /\ \A v : Used(v) => Used(v)'
    BY <1>1 DEF UpdateModel, Live, None, Used
  <1>7. Ready(r)'
    <2> HIDE DEF q, write, linked
    <2>1. ~Linking(r)'
      BY <1>2, <1>4, <1>5 DEF Linking, LinkWrite
    <2> QED  BY <1>2, <1>4, <1>5, <1>6, <2>1 DEF Ready, Linking, Updating
  <1> HIDE DEF q, next
  <1> QED  BY <1>1, <1>4, <1>7, NoRowWritten DEF LocksKept, Memory

LEMMA LockLinks ==
    ASSUME TypedInv, TypedInv', LinkInv, NEW r \in Requests, Lock(r)
    PROVE  LinkInv'
  <1> DEFINE next == IF at[r] = "lock insert" THEN "insert" ELSE "check"
  <1>1. Known(at[r], arg[r]) /\ arg[r].node \in Nodes /\ Ready(r)
    BY ModelAssumption DEF TypedInv, ActorsTyped, Known, Lock, Up, LinkInv
  <1>2. Moved(r) /\ at'[r] = next /\ arg'[r] = arg[r]
    <2>1. Goto(r, at[r], next, arg[r]) /\ next # "idle" /\ r \in Actors
      BY DEF Lock, Actors
    <2> HIDE DEF next
    <2> QED  BY <2>1, GotoMoves
  <1>3. mu' = [mu EXCEPT ![arg[r].node] = r] /\ mu[arg[r].node] = None /\ UNCHANGED <<models, redis>>
        /\ at[r] \in {"lock insert", "lock update"}
    BY DEF Lock, Memory
  <1>4. LocksKept(r) /\ mu'[arg[r].node] = r
    BY <1>1, <1>3, NoneIsNoName DEF LocksKept, TypedInv, InstancesTyped
  <1>5. Ready(r)'
    <2>1. \A v : Used(v) => Used(v)'
      BY <1>3 DEF Used
    <2> QED  BY <1>1, <1>2, <1>3, <1>4, <2>1 DEF Ready, LinkWrite, Updating
  <1> QED  BY <1>2, <1>3, <1>4, <1>5, NoRowWritten

LEMMA CheckIsWalk ==
    ASSUME TypedInv, NEW s \in Ids, NEW t \in Ids, ~checkFallbackCycle(s, t)
    PROVE  s # t /\ \A k \in 1..fallbackCycleMaxSteps : ~Path(Links, t, k, s)
  <1>1. s # t
    BY DEF checkFallbackCycle
  <1>2. ASSUME NEW k \in 1..fallbackCycleMaxSteps, Path(Links, t, k, s) PROVE FALSE
    <2>1. PICK w \in [0..k -> Ids] : w[0] = t /\ w[k] = s /\ \A m \in 1..k : Links[w[m - 1]] = w[m]
      BY <1>2 DEF Path
    <2>2. ASSUME NEW m \in 1..k
          PROVE  Live(w[m - 1]) /\ models[w[m - 1]].fallback = w[m]
      <3>1. m - 1 \in 0..k /\ m \in 0..k /\ k \in Nat
        BY ModelAssumption
      <3>2. w[m - 1] \in Ids /\ w[m] \in Ids /\ w[m] # 0 /\ Links[w[m - 1]] = w[m]
        BY <2>1, <3>1, ModelAssumption
      <3> QED  BY <3>2 DEF Links
    <2> QED  BY <2>1, <2>2 DEF checkFallbackCycle
  <1> QED  BY <1>1, <1>2

LEMMA CheckCycleLinks ==
    ASSUME TypedInv, TypedInv', LinkInv, FewModels, NEW r \in Requests, CheckCycle(r)
    PROVE  LinkInv'
  <1> DEFINE i == arg[r].id
             t == arg[r].set.value
  <1>1. UNCHANGED <<models, redis>> /\ at[r] = "check"
    BY DEF CheckCycle, Memory
  <1>2. CASE Goto(r, "check", "idle", Idle) /\ Unlock(r)
    <2>1. Moved(r) /\ at'[r] = "idle"
      BY <1>2, GotoMoves DEF Actors
    <2>2. LocksKept(r)
      BY <1>2, UnlockKeeps
    <2>3. Ready(r)'
      BY <2>1, ReadyElsewhere DEF Steps, Updating
    <2> QED  BY <1>1, <2>1, <2>2, <2>3, NoRowWritten
  <1>3. CASE ~checkFallbackCycle(i, t) /\ Goto(r, "check", "update", arg[r]) /\ UNCHANGED mu
    <2>1. Moved(r) /\ at'[r] = "update" /\ arg'[r] = arg[r]
      BY <1>3, GotoMoves DEF Actors
    <2>2. Known("check", arg[r]) /\ Ready(r)
      BY <1>1 DEF TypedInv, ActorsTyped, LinkInv
    <2>3. i \in Ids /\ models[i].status # None /\ Used(t) /\ arg[r].set.field = "fallback"
      BY <1>1, <2>2 DEF Known, Ready, Updating
    <2>4. ASSUME redis = FALSE, t # 0, Live(i) PROVE Acyclic([Links EXCEPT ![i] = t])
      <3>1. t \in Ids
        BY <2>3, <2>4 DEF Used
      <3>2. i # t /\ \A k \in 1..fallbackCycleMaxSteps : ~Path(Links, t, k, i)
        BY <1>3, <2>3, <3>1, CheckIsWalk
      <3>3. LiveModels \in SUBSET Ids /\ i \in LiveModels /\ \A j \in Ids : Links[j] # 0 => j \in LiveModels
        BY <2>3, <2>4 DEF LiveModels, Links
      <3>4. Links \in [Ids -> Ids \cup {0}] /\ Acyclic(Links)
        BY <2>4, LinksTyped DEF LinkInv
      <3> HIDE DEF i, t
      <3> QED  BY <2>3, <3>1, <3>2, <3>3, <3>4, CheckedLink DEF FewModels
    <2>5. Links' = Links /\ Live(i)' = Live(i) /\ (\A v : Used(v) => Used(v)') /\ mu[arg[r].node] = r
      BY <1>1, <1>3, <2>1, <2>2 DEF Links, Live, Used, Ready, Linking
    <2>6. Ready(r)'
      BY <1>1, <1>3, <2>1, <2>3, <2>4, <2>5 DEF Ready, LinkWrite, Updating
    <2> QED  BY <1>1, <1>3, <2>1, <2>6, NoRowWritten DEF LocksKept
  <1> QED  BY <1>2, <1>3 DEF CheckCycle

\* The requests' steps that have nothing to do with links.
LEMMA ElsewhereLinks ==
    ASSUME TypedInv, TypedInv', LinkInv, NEW r \in Requests,
           \/ \E n \in Nodes, i \in Ids : DeleteModel(r, n, i) \/ DeactivateModel(r, n, i)
           \/ \E n \in Nodes, i \in Ids, d \in Deps :
                 createDeployment(r, n, i, d) \/ updateDeployment(r, n, i, d) \/ deleteDeployment(r, n, i, d)
           \/ \E n \in Nodes, feature \in BOOLEAN : SetLicense(r, n, feature)
           \/ GetActivated(r) \/ ChangeRegistry(r) \/ Publish(r)
    PROVE  LinkInv'
  <1>1. models' = models /\ redis' = redis
    BY DEF DeleteModel, DeactivateModel, createDeployment, updateDeployment, deleteDeployment, SetLicense,
           GetActivated, ChangeRegistry, Publish, Memory, Rest
  <1>2. LocksKept(r)
    <2>1. CASE Publish(r)
      BY <2>1, UnlockKeeps DEF Publish
    <2>2. CASE mu' = mu
      BY <2>2 DEF LocksKept
    <2> QED
      BY <2>1, <2>2 DEF DeleteModel, DeactivateModel, createDeployment, updateDeployment, deleteDeployment,
           SetLicense, GetActivated, ChangeRegistry
  <1>3. Moved(r) /\ at'[r] \in {"delete", "deactivate", "reload", "add", "idle", "publish"}
    <2> DEFINE target == {"delete", "deactivate", "reload", "add", "idle", "publish"}
    <2>1. \/ \E n, next, x : next \in target /\ Begin(r, n, next, x)
          \/ \E here, next, x : next \in target /\ Goto(r, here, next, x)
      <3>1. CASE \E n \in Nodes, i \in Ids : DeleteModel(r, n, i) \/ DeactivateModel(r, n, i)
        <4>1. PICK n \in Nodes, i \in Ids : DeleteModel(r, n, i) \/ DeactivateModel(r, n, i)
          BY <3>1
        <4> DEFINE x == [Idle EXCEPT !.id = i, !.old = models[i].name]
        <4>2. Begin(r, n, "delete", x) \/ Begin(r, n, "deactivate", x)
          BY <4>1 DEF DeleteModel, DeactivateModel
        <4> HIDE DEF x
        <4> QED  BY <4>2
      <3>2. CASE \E n \in Nodes, i \in Ids, d \in Deps :
                 createDeployment(r, n, i, d) \/ updateDeployment(r, n, i, d) \/ deleteDeployment(r, n, i, d)
        BY <3>2 DEF createDeployment, updateDeployment, deleteDeployment
      <3>3. CASE \E n \in Nodes, feature \in BOOLEAN : SetLicense(r, n, feature)
        BY <3>3 DEF SetLicense
      <3>4. CASE GetActivated(r)
        BY <3>4 DEF GetActivated
      <3>5. CASE ChangeRegistry(r) \/ Publish(r)
        BY <3>5 DEF ChangeRegistry, Publish
      <3> QED  BY <3>1, <3>2, <3>3, <3>4, <3>5
    <2> QED  BY <2>1, BeginMoves, GotoMoves DEF Actors
  <1>4. Ready(r)'
    BY <1>3, ReadyElsewhere DEF Steps, Updating
  <1> QED  BY <1>1, <1>2, <1>3, <1>4, NoRowWritten

LEMMA ReloadLinks ==
    ASSUME TypedInv, TypedInv', LinkInv, NEW a \in Actors,
           (a \in Nodes /\ Receive(a)) \/ ReadModels(a) \/ LoadOne(a) \/ FinishLoad(a)
    PROVE  LinkInv'
  <1>1. models' = models /\ redis' = redis /\ mu' = mu
    BY DEF Receive, ReadModels, LoadOne, FinishLoad, Rest
  <1>2. Moved(a) /\ at'[a] \in {"load", "idle", "publish"}
    BY GotoMoves DEF Receive, ReadModels, LoadOne, FinishLoad
  <1>3. Ready(a)'
    BY <1>2, ReadyElsewhere DEF Steps, Updating
  <1>4. LocksKept(a)
    BY <1>1 DEF LocksKept
  <1> QED  BY <1>1, <1>2, <1>3, <1>4, NoRowWritten

LEMMA InsertModelLinks ==
    ASSUME TypedInv, TypedInv', LinkInv, NEW r \in Requests, InsertModel(r)
    PROVE  LinkInv'
  <1> DEFINE row == arg[r].row
  <1>1. at[r] = "insert" /\ redis' = redis
    BY DEF InsertModel, Memory
  <1>2. CASE Goto(r, "insert", "idle", Idle) /\ Unlock(r) /\ UNCHANGED models
    <2>1. Moved(r) /\ at'[r] = "idle" /\ LocksKept(r)
      BY <1>2, GotoMoves, UnlockKeeps DEF Actors
    <2>2. Ready(r)'
      BY <2>1, ReadyElsewhere DEF Steps, Updating
    <2> QED  BY <1>1, <1>2, <2>1, <2>2, NoRowWritten
  <1>3. ASSUME NEW i \in Ids, NewId(i), UNCHANGED mu,
               models' = CreateRow(i, row.name, row.aliases, row.fallback, "api"),
               Goto(r, "insert", "add", [arg[r] EXCEPT !.old = row.name, !.row = models'[i]])
        PROVE  LinkInv'
    <2>1. Moved(r) /\ at'[r] = "add" /\ LocksKept(r)
      <3> DEFINE q == [arg[r] EXCEPT !.old = row.name, !.row = models'[i]]
      <3>1. Goto(r, "insert", "add", q) /\ r \in Actors
        BY <1>3 DEF Actors
      <3> HIDE DEF q
      <3> QED  BY <1>3, <3>1, GotoMoves DEF LocksKept
    <2>2. Ready(r)'
      BY <2>1, ReadyElsewhere DEF Steps, Updating
    <2>3. Ready(r) /\ Used(row.fallback) /\ row.fallback \in Ids \cup {0}
      BY <1>1 DEF LinkInv, Ready, Used
    <2>4. /\ models'[i].status = "live" /\ models'[i].fallback = row.fallback
          /\ \A j \in Ids : j # i => models'[j] = models[j]
      BY <1>3 DEF CreateRow, TypedInv, TablesTyped
    <2>5. models[i].status = None /\ ~Live(i)
      BY <1>3 DEF NewId, Live, None
    <2>6. RowsKept
      BY <2>4 DEF RowsKept, None
    <2>7. \A j \in Ids : Used(models'[j].fallback)
      BY <2>3, <2>4 DEF LinkInv
    <2>8. Links' = [Links EXCEPT ![i] = row.fallback] /\ \A j \in Ids : Live(j)' => Live(j) \/ models[j].status = None
      BY <2>4, <2>5 DEF Links, Live
    <2>9. CASE row.fallback = 0
      <3>1. LinksKept
        BY <2>8, <2>9 DEF LinksKept, Links
      <3> QED  BY <1>1, <2>1, <2>2, <2>6, <2>7, <3>1, NoNewLink
    <2>10. CASE row.fallback # 0
      <3>1. row.fallback # i /\ \A j \in Ids : Links[j] # i
        <4>1. \A v : Used(v) => v # i
          BY <2>5, ModelAssumption DEF Used
        <4>2. \A j \in Ids : Links[j] = 0 \/ Used(Links[j])
          BY DEF Links, LinkInv
        <4> QED  BY <2>3, <4>1, <4>2, ModelAssumption
      <3>2. redis = FALSE => Acyclic(Links')
        BY <2>3, <2>8, <3>1, LinksTyped, FreshLink DEF LinkInv
      <3>3. mu[arg[r].node] = r
        BY <1>1, <2>3, <2>10 DEF Ready, Linking
      <3>4. ASSUME NEW b \in Requests, b # r, redis = FALSE PROVE ~LinkWrite(b)
        <4>1. LinkWrite(b) => mu[arg[b].node] = b
          BY DEF LinkInv, Ready, Linking
        <4>2. LinkWrite(b) => arg[b].node = First
          BY <3>4 DEF TypedInv, ActorsTyped, Known, Up, LinkWrite
        <4>3. arg[r].node = First
          BY <1>1, <3>4 DEF TypedInv, ActorsTyped, Known, Up
        <4> QED  BY <3>3, <3>4, <4>1, <4>2, <4>3
      <3>5. \A b \in Requests : Ready(b)'
        BY <1>1, <2>1, <2>2, <2>6, <3>4, ReadyKept
      <3>6. \A j \in Ids : Used(models[j].fallback)'
        BY <2>6, <2>7 DEF Used, RowsKept
      <3>7. (redis = FALSE => Acyclic(Links))'
        BY <1>1, <3>2
      <3> QED  BY <3>5, <3>6, <3>7 DEF LinkInv
    <2> QED  BY <2>9, <2>10
  <1> QED  BY <1>2, <1>3 DEF InsertModel

LEMMA UpdateRowLinks ==
    ASSUME TypedInv, TypedInv', LinkInv, NEW r \in Requests, UpdateRow(r)
    PROVE  LinkInv'
  <1> DEFINE i == arg[r].id
             set == arg[r].set
             w == Changed(models[i], set)
             q == [arg[r] EXCEPT !.row = models'[i]]
  <1>1. at[r] = "update" /\ redis' = redis
    BY DEF UpdateRow, Memory
  <1>2. CASE Goto(r, "update", "idle", Idle) /\ Unlock(r) /\ UNCHANGED models
    <2>1. Moved(r) /\ at'[r] = "idle" /\ LocksKept(r)
      BY <1>2, GotoMoves, UnlockKeeps DEF Actors
    <2>2. Ready(r)'
      BY <2>1, ReadyElsewhere DEF Steps, Updating
    <2> QED  BY <1>1, <1>2, <2>1, <2>2, NoRowWritten
  <1>3. CASE Live(i) /\ models' = [models EXCEPT ![i] = w] /\ Goto(r, "update", "add", q) /\ UNCHANGED mu
    <2>1. Moved(r) /\ at'[r] = "add" /\ LocksKept(r)
      <3> HIDE DEF q
      <3> QED  BY <1>3, GotoMoves DEF Actors, LocksKept
    <2>2. Ready(r)'
      BY <2>1, ReadyElsewhere DEF Steps, Updating
    <2>3. Ready(r) /\ i \in Ids /\ set \in Writes /\ models[i] \in Rows /\ models[i].status = "live"
      BY <1>1, <1>3, NamesOf DEF LinkInv, TypedInv, ActorsTyped, Known, Updating, Live
    <2>4. /\ w.status = "live"
          /\ set.field = "fallback" => w.fallback = set.value /\ Used(set.value)
          /\ set.field # "fallback" => w.fallback = models[i].fallback
      BY <1>1, <2>3, ChangedRow DEF Ready, Updating
    <2>5. models'[i] = w /\ \A j \in Ids : j # i => models'[j] = models[j]
      BY <1>3, <2>3 DEF TypedInv, TablesTyped
    <2> HIDE DEF w, q
    <2>6. RowsKept /\ \A j \in Ids : Used(models'[j].fallback)
      BY <2>3, <2>4, <2>5 DEF RowsKept, LinkInv, None
    <2>7. \A j \in Ids : Live(j)' <=> Live(j)
      BY <2>3, <2>4, <2>5 DEF Live
    <2>8. Links' = [Links EXCEPT ![i] = w.fallback] /\ Links[i] = models[i].fallback
      BY <1>3, <2>3, <2>5, <2>7 DEF Links
    <2>9. CASE ~LinkWrite(r)
      <3>1. w.fallback \in {models[i].fallback, 0}
        BY <1>1, <2>4, <2>9 DEF LinkWrite
      <3>2. LinksKept
        BY <2>7, <2>8, <3>1 DEF LinksKept, Links
      <3> QED  BY <1>1, <2>1, <2>2, <2>6, <3>2, NoNewLink
    <2>10. CASE LinkWrite(r)
      <3>1. w.fallback = set.value /\ mu[arg[r].node] = r
        BY <2>3, <2>4, <2>10 DEF LinkWrite, Ready, Linking
      <3>2. (redis = FALSE => Acyclic(Links))'
        BY <1>1, <1>3, <2>3, <2>8, <2>10, <3>1 DEF Ready
      <3>3. ASSUME NEW b \in Requests, b # r, redis = FALSE PROVE ~LinkWrite(b)
        <4>1. LinkWrite(b) => mu[arg[b].node] = b
          BY DEF LinkInv, Ready, Linking
        <4>2. LinkWrite(b) => arg[b].node = First
          BY <3>3 DEF TypedInv, ActorsTyped, Known, Up, LinkWrite
        <4>3. arg[r].node = First
          BY <1>1, <3>3 DEF TypedInv, ActorsTyped, Known, Up
        <4> QED  BY <3>1, <3>3, <4>1, <4>2, <4>3
      <3>4. \A b \in Requests : Ready(b)'
        BY <1>1, <2>1, <2>2, <2>6, <3>3, ReadyKept
      <3>5. \A j \in Ids : Used(models[j].fallback)'
        BY <2>6 DEF Used, RowsKept
      <3> QED  BY <3>2, <3>4, <3>5 DEF LinkInv
    <2> QED  BY <2>9, <2>10
  <1> QED  BY <1>2, <1>3 DEF UpdateRow

\* Rows that lose their name or change their state.
LEMMA TakeOutLinks ==
    ASSUME TypedInv, TypedInv', LinkInv, NEW r \in Requests,
           TakeOut(r) \/ \E n \in Nodes, i \in Ids : ActivateModel(r, n, i)
    PROVE  LinkInv'
  <1>1. redis' = redis /\ mu' = mu
    BY DEF TakeOut, ActivateModel, Memory
  <1>2. Moved(r) /\ at'[r] \in {"idle", "remove", "get"}
    <2>1. CASE TakeOut(r)
      BY <2>1, GotoMoves DEF TakeOut, Actors
    <2>2. ASSUME NEW n \in Nodes, NEW i \in Ids, ActivateModel(r, n, i) PROVE Moved(r) /\ at'[r] = "get"
      <3> DEFINE q == [Idle EXCEPT !.id = i]
      <3>1. Begin(r, n, "get", q)
        BY <2>2 DEF ActivateModel
      <3> HIDE DEF q
      <3> QED  BY <3>1, BeginMoves DEF Actors
    <2> QED  BY <2>1, <2>2
  <1>3. Ready(r)'
    BY <1>2, ReadyElsewhere DEF Steps, Updating
  <1>4. \A j \in Ids : /\ models'[j].fallback = models[j].fallback
                       /\ \/ models'[j].status = models[j].status
                          \/ models[j].status = "live" /\ models'[j].status = "gone"
    <2>1. CASE models' = models
      BY <2>1
    <2>2. ASSUME NEW i \in Ids, NEW w, models' = [models EXCEPT ![i] = w], Live(i),
                 \/ w = [models[i] EXCEPT !.name = None, !.status = "gone"]
                 \/ w = [models[i] EXCEPT !.active = FALSE]
                 \/ w = [models[i] EXCEPT !.active = TRUE]
          PROVE  \A j \in Ids : /\ models'[j].fallback = models[j].fallback
                       /\ \/ models'[j].status = models[j].status
                          \/ models[j].status = "live" /\ models'[j].status = "gone"
      <3>1. models[i] \in Rows /\ models[i].status = "live"
        BY <2>2, NamesOf DEF TypedInv, Live
      <3>2. w.fallback = models[i].fallback /\ w.status \in {models[i].status, "gone"}
        BY <2>2, <3>1 DEF Rows
      <3>3. models'[i] = w /\ \A j \in Ids : j # i => models'[j] = models[j]
        BY <2>2 DEF TypedInv, TablesTyped
      <3> QED  BY <3>1, <3>2, <3>3
    <2>3. CASE TakeOut(r)
      <3>1. at[r] \in {"delete", "deactivate"} => arg[r].id \in Ids
        BY DEF TypedInv, ActorsTyped, Known
      <3> QED  BY <2>1, <2>2, <2>3, <3>1 DEF TakeOut, DeleteRow
    <2> QED  BY <2>2, <2>3 DEF ActivateModel
  <1>5. RowsKept /\ \A j \in Ids : Used(models'[j].fallback)
    BY <1>4 DEF RowsKept, LinkInv, None
  <1>6. LinksKept
    BY <1>4 DEF LinksKept, Links, Live
  <1> QED  BY <1>1, <1>2, <1>3, <1>5, <1>6, NoNewLink DEF LocksKept

LEMMA RestartLinks ==
    ASSUME TypedInv, TypedInv', LinkInv, Restart
    PROVE  LinkInv'
  <1>1. redis' = redis /\ mu' = mu /\ First \in Actors /\ First \in Nodes /\ models' = SyncYAMLModels(models)
    BY ModelAssumption DEF Restart, Actors
  <1>2. Moved(First)
    BY DEF Restart, Moved, TypedInv, ActorsTyped, Actors
  <1>3. \A j \in Ids : \/ models'[j].status = models[j].status /\ models'[j].fallback = models[j].fallback
                       \/ models'[j].status = "live" /\ models'[j].fallback = 0
    BY <1>1, SyncRows DEF TypedInv, TablesTyped
  <1>4. RowsKept /\ \A j \in Ids : Used(models'[j].fallback)
    BY <1>3 DEF RowsKept, LinkInv, None, Used
  <1>5. \A j \in Ids : Links'[j] \in {Links[j], 0}
    BY <1>3 DEF Links, Live
  <1>6. \A b \in Requests : Ready(b)'
    <2> SUFFICES ASSUME NEW b \in Requests PROVE Ready(b)'
      OBVIOUS
    <2>1. at'[b] = "idle"
      BY ModelAssumption DEF Restart, TypedInv, ActorsTyped, Actors
    <2> QED  BY <2>1, ReadyElsewhere DEF Steps, Updating
  <1>7. (redis = FALSE => Acyclic(Links))'
    BY <1>1, <1>5, LinksTyped, LinksTypedNext, FewerLinks DEF LinkInv
  <1>8. \A j \in Ids : Used(models[j].fallback)'
    BY <1>4 DEF Used, RowsKept
  <1> QED  BY <1>6, <1>7, <1>8 DEF LinkInv

LEMMA ModelInitLinks == Init => LinkInv
  <1> SUFFICES ASSUME Init PROVE LinkInv
    OBVIOUS
  <1> DEFINE t == [i \in Ids |-> NoRow]
  <1>1. t \in [Ids -> Rows] /\ \A i \in Ids : t[i].status = "live" => t[i].name \in Names
    BY RecordFacts DEF None
  <1>2. \A i \in Ids : t[i].fallback = 0
    BY RecordFacts
  <1>3. models = SyncYAMLModels(t)
    BY DEF Init
  <1> HIDE DEF t
  <1>4. \A i \in Ids : models[i].fallback = 0
    BY <1>1, <1>2, <1>3, SyncRows
  <1>5. \A i \in Ids : Used(models[i].fallback)
    BY <1>4 DEF Used
  <1>6. Acyclic(Links)
    <2>1. \A j \in Ids : Links[j] = 0
      BY <1>4 DEF Links
    <2> QED  BY <2>1, ModelAssumption DEF Acyclic
  <1>7. \A r \in Requests : Ready(r)
    BY DEF Init, Actors, Ready, Linking, LinkWrite, Updating
  <1> QED  BY <1>5, <1>6, <1>7 DEF LinkInv

LEMMA ModelStepLinks == TypedInv /\ TypedInv' /\ LinkInv /\ FewModels /\ [Next]_vars => LinkInv'
  <1> SUFFICES ASSUME TypedInv, TypedInv', LinkInv, FewModels, [Next]_vars PROVE LinkInv'
    OBVIOUS
  <1>1. ASSUME NEW r \in Requests, Handler(r) PROVE LinkInv'
    BY <1>1, CreateModelLinks, UpdateModelLinks, LockLinks, CheckCycleLinks, ElsewhereLinks,
       InsertModelLinks, UpdateRowLinks, TakeOutLinks DEF Handler
  <1>2. ASSUME NEW n \in Nodes, Receive(n) PROVE LinkInv'
    BY <1>2, ReloadLinks DEF Actors
  <1>3. CASE UNCHANGED vars
    BY <1>3 DEF vars, LinkInv, Ready, Linking, LinkWrite, Links, Live, Used, Acyclic
  <1> QED  BY <1>1, <1>2, <1>3, ReloadLinks, RestartLinks DEF Next

\* On a single instance the stored links form no cycle, whatever requests link,
\* unlink, delete and rename models at the same time, as long as there are never
\* more live models than the walk of the check gets through.
THEOREM LinksStayAcyclic == Spec /\ []FewModels => []FallbackAcyclic
  <1>1. TypedInv /\ LinkInv => FallbackAcyclic
    <2> SUFFICES ASSUME TypedInv, LinkInv, redis = FALSE, NEW S \in SUBSET Ids, S # {},
                        \A i \in S : \E j \in S : Linked(i, j)
                 PROVE  FALSE
      BY DEF FallbackAcyclic, TypedInv, InstancesTyped
    <2>1. \A i \in S : Links[i] \in S
      BY DEF Linked, Links
    <2> QED  BY <2>1 DEF LinkInv, Acyclic
  <1> QED  BY <1>1, ModelTypes, ModelInitLinks, ModelStepLinks, PTL DEF Spec

-----------------------------------------------------------------------------
(* Serving what is stored.                                                 *)

\* Request r has written something, and will publish.
Unsettled(r) ==
    \/ at[r] \in {"add", "remove", "publish", "reload", "load"}
    \/ at[r] = "get" /\ Live(arg[r].id)

UniqueNames ==
    \A i, j \in Ids : Live(i) /\ Live(j) /\ models[i].name = models[j].name => i = j

Entry(i, fb) == LoadedModel(models[i], i, fb)

Serves(n) ==
    \A i \in ListActiveModels :
        registry[n].models[models[i].name] = Entry(i, IF license[n] THEN FallbackAmongActive(i) ELSE None)

\* The reload of instance n has listed the rows as they are, and has still to
\* load them or has loaded them.
Loads(n) ==
    /\ \A m \in snap[n] : /\ m.id \in ListActiveModels /\ m.row = models[m.id]
                          /\ m.fallback = FallbackAmongActive(m.id)
    /\ \A i \in ListActiveModels :
          \/ \E m \in snap[n] : m.id = i
          \/ registry[n].models[models[i].name] = Entry(i, FallbackAmongActive(i))

Settled(n) ==
    \/ inbox[n] > 0
    \/ at[n] = "load" /\ Loads(n)
    \/ at[n] = "idle" /\ Serves(n)

\* As long as no request has still to publish, every instance serves the tables,
\* is loading them, or has a message to start it.
ServedInv ==
    redis = TRUE =>
        UniqueNames /\ ((\E r \in Requests : Unsettled(r)) \/ \A n \in Nodes : Settled(n))

\* A step that touches neither table nor registry nor message.
LEMMA ServedIdly ==
    ASSUME ServedInv, NEW r \in Requests, Moved(r), ~Unsettled(r),
           UNCHANGED <<models, deps, Memory>>
    PROVE  ServedInv'
  <1>1. UNCHANGED <<models, deps, registry, license, redis, inbox, snap>>
    BY DEF Memory
  <1>2. UniqueNames => UniqueNames'
    BY <1>1 DEF UniqueNames, Live
  <1>3. \A b \in Requests : Unsettled(b) => Unsettled(b)'
    BY <1>1 DEF Unsettled, Live, Moved, Actors
  <1>4. \A n \in Nodes : at'[n] = at[n]
    BY ModelAssumption DEF Moved, Actors
  <1>5. \A n \in Nodes : (Serves(n) => Serves(n)') /\ (Loads(n) => Loads(n)')
    BY <1>1 DEF Serves, Loads, Entry, LoadedModel, ListActiveDeployments, ListActiveModels, Live,
                FallbackAmongActive
  <1>6. \A n \in Nodes : Settled(n) => Settled(n)'
    BY <1>1, <1>4, <1>5 DEF Settled
  <1> QED  BY <1>1, <1>2, <1>3, <1>6 DEF ServedInv

\* A request that has written something makes the rest wait for its message.
LEMMA ServedLater ==
    ASSUME NEW r \in Requests, Unsettled(r)', redis' = TRUE => UniqueNames'
    PROVE  ServedInv'
  BY DEF ServedInv

LEMMA NamesKept ==
    ASSUME ServedInv, redis' = redis, models' = models
    PROVE  redis' = TRUE => UniqueNames'
  BY DEF ServedInv, UniqueNames, Live

LEMMA BeginServed ==
    ASSUME TypedInv, ServedInv, NEW r \in Requests, NEW n \in Nodes,
           \/ \E x \in NewNames, as \in AliasLists, fb \in Names \cup {None} : CreateModel(r, n, x, as, fb)
           \/ \E i \in Ids, set \in Changes : UpdateModel(r, n, i, set)
           \/ \E i \in Ids : DeleteModel(r, n, i) \/ DeactivateModel(r, n, i)
    PROVE  ServedInv'
  <1>1. UNCHANGED <<models, deps, Memory>>
    BY DEF CreateModel, UpdateModel, DeleteModel, DeactivateModel
  <1>2. \E next, q : Begin(r, n, next, q)
    <2>1. CASE \E x \in NewNames, as \in AliasLists, fb \in Names \cup {None} : CreateModel(r, n, x, as, fb)
      <3>1. PICK x \in NewNames, as \in AliasLists, fb \in Names \cup {None} : CreateModel(r, n, x, as, fb)
        BY <2>1
      <3> QED  BY <3>1, Zenon DEF CreateModel
    <2>2. CASE \E i \in Ids, set \in Changes : UpdateModel(r, n, i, set)
      <3>1. PICK i \in Ids, set \in Changes : UpdateModel(r, n, i, set)
        BY <2>2
      <3> QED  BY <3>1, Zenon DEF UpdateModel
    <2>3. CASE \E i \in Ids : DeleteModel(r, n, i) \/ DeactivateModel(r, n, i)
      <3>1. PICK i \in Ids : DeleteModel(r, n, i) \/ DeactivateModel(r, n, i)
        BY <2>3
      <3> QED  BY <3>1, Zenon DEF DeleteModel, DeactivateModel
    <2> QED  BY <2>1, <2>2, <2>3
  <1>3. PICK next, q : Begin(r, n, next, q)
    BY <1>2
  <1>4. Moved(r) /\ ~Unsettled(r)
    BY <1>3, BeginMoves DEF Actors, Begin, Unsettled
  <1> QED  BY <1>1, <1>4, ServedIdly

LEMMA LockServed ==
    ASSUME TypedInv, ServedInv, NEW r \in Requests, Lock(r) \/ CheckCycle(r)
    PROVE  ServedInv'
  <1>1. UNCHANGED <<models, deps, Memory>> /\ ~Unsettled(r)
    BY DEF Lock, CheckCycle, Unsettled
  <1>2. \E here, next, q : Goto(r, here, next, q)
    BY Zenon DEF Lock, CheckCycle
  <1>3. Moved(r)
    BY <1>2, GotoMoves DEF Actors
  <1> QED  BY <1>1, <1>3, ServedIdly

LEMMA InsertModelServed ==
    ASSUME TypedInv, ServedInv, NEW r \in Requests, InsertModel(r)
    PROVE  ServedInv'
  <1> DEFINE row == arg[r].row
  <1>1. at[r] = "insert" /\ UNCHANGED <<deps, Memory>>
    BY DEF InsertModel
  <1>2. CASE Goto(r, "insert", "idle", Idle) /\ UNCHANGED models
    BY <1>1, <1>2, GotoMoves, ServedIdly DEF Actors, Unsettled
  <1>3. ASSUME NEW i \in Ids, NEW q, GetModelByName(row.name) = {},
               models' = CreateRow(i, row.name, row.aliases, row.fallback, "api"),
               Goto(r, "insert", "add", q)
        PROVE  ServedInv'
    <2>1. Unsettled(r)'
      BY <1>3, GotoMoves DEF Actors, Unsettled
    <2>2. models'[i].name = row.name /\ \A j \in Ids : j # i => models'[j] = models[j]
      BY <1>3 DEF CreateRow, TypedInv, TablesTyped
    <2>3. \A j \in Ids : Live(j) => models[j].name # row.name
      BY <1>3 DEF GetModelByName
    <2>4. \A j \in Ids : j # i => (Live(j)' <=> Live(j))
      BY <2>2 DEF Live
    <2>5. UniqueNames => UniqueNames'
      <3> HIDE DEF row
      <3> QED  BY <2>2, <2>3, <2>4 DEF UniqueNames
    <2> QED  BY <1>1, <2>1, <2>5, ServedLater DEF ServedInv, Memory
  <1>4. \/ Goto(r, "insert", "idle", Idle) /\ UNCHANGED models
        \/ /\ GetModelByName(row.name) = {}
           /\ \E i \in Ids : /\ models' = CreateRow(i, row.name, row.aliases, row.fallback, "api")
                             /\ Goto(r, "insert", "add", [arg[r] EXCEPT !.old = row.name, !.row = models'[i]])
    BY DEF InsertModel
  <1> QED  BY <1>2, <1>3, <1>4

LEMMA UpdateRowServed ==
    ASSUME TypedInv, ServedInv, NEW r \in Requests, UpdateRow(r)
    PROVE  ServedInv'
  <1> DEFINE i == arg[r].id
             set == arg[r].set
             w == Changed(models[i], set)
             q == [arg[r] EXCEPT !.row = models'[i]]
  <1>1. at[r] = "update" /\ UNCHANGED <<deps, Memory>>
    BY DEF UpdateRow
  <1>2. CASE Goto(r, "update", "idle", Idle) /\ UNCHANGED models
    BY <1>1, <1>2, GotoMoves, ServedIdly DEF Actors, Unsettled
  <1>3. CASE /\ Live(i) /\ models' = [models EXCEPT ![i] = w] /\ Goto(r, "update", "add", q)
             /\ ~(set.field = "name" /\ GetModelByName(set.value) \ {i} # {})
    <2>1. Unsettled(r)'
      <3> HIDE DEF q
      <3> QED  BY <1>3, GotoMoves DEF Actors, Unsettled
    <2>2. i \in Ids /\ set \in Writes /\ models[i] \in Rows
      BY <1>1, <1>3, NamesOf DEF TypedInv, ActorsTyped, Known, Updating
    <2>3. /\ w.status = models[i].status
          /\ set.field = "name" => w.name = set.value
          /\ set.field # "name" => w.name = models[i].name
      BY <2>2, ChangedRow
    <2>4. models'[i] = w /\ \A j \in Ids : j # i => models'[j] = models[j]
      BY <1>3, <2>2 DEF TypedInv, TablesTyped
    <2> HIDE DEF w, q
    <2>5. \A j \in Ids : Live(j)' <=> Live(j)
      BY <2>3, <2>4 DEF Live
    <2>6. set.field = "name" => \A j \in Ids : Live(j) /\ j # i => models[j].name # set.value
      BY <1>3 DEF GetModelByName
    <2>7. UniqueNames => UniqueNames'
      <3> HIDE DEF i, set
      <3> QED  BY <1>3, <2>2, <2>3, <2>4, <2>5, <2>6 DEF UniqueNames
    <2> QED  BY <1>1, <2>1, <2>7, ServedLater DEF ServedInv, Memory
  <1> QED  BY <1>2, <1>3 DEF UpdateRow


\* A row that loses its name or keeps it.
LEMMA RowRewritten ==
    ASSUME TypedInv, ServedInv, NEW i \in Ids, NEW w, models' = [models EXCEPT ![i] = w], redis' = redis,
           Live(i), w.status = "live" => w.name = models[i].name
    PROVE  redis' = TRUE => UniqueNames'
  <1>1. models'[i] = w /\ \A j \in Ids : j # i => models'[j] = models[j]
    BY DEF TypedInv, TablesTyped
  <1>2. \A j \in Ids : Live(j)' => Live(j) /\ models'[j].name = models[j].name
    BY <1>1 DEF Live
  <1> QED  BY <1>2 DEF ServedInv, UniqueNames

LEMMA TakeOutServed ==
    ASSUME TypedInv, ServedInv, NEW r \in Requests, TakeOut(r)
    PROVE  ServedInv'
  <1> DEFINE i == arg[r].id
             w == IF at[r] = "delete" THEN [models[i] EXCEPT !.name = None, !.status = "gone"]
                  ELSE [models[i] EXCEPT !.active = FALSE]
  <1>1. at[r] \in {"delete", "deactivate"} /\ i \in Ids /\ UNCHANGED <<deps, Memory>> /\ redis' = redis
    BY DEF TakeOut, TypedInv, ActorsTyped, Known, Memory
  <1>2. CASE Goto(r, at[r], "idle", Idle) /\ UNCHANGED models
    <2>1. ~Unsettled(r) /\ Moved(r)
      BY <1>1, <1>2, GotoMoves DEF Actors, Unsettled
    <2> QED  BY <1>1, <1>2, <2>1, ServedIdly
  <1>3. CASE /\ Live(i) /\ Goto(r, at[r], "remove", arg[r])
             /\ models' = IF at[r] = "delete" THEN DeleteRow(i)
                          ELSE [models EXCEPT ![i] = [models[i] EXCEPT !.active = FALSE]]
    <2>1. Unsettled(r)'
      BY <1>3, GotoMoves DEF Actors, Unsettled
    <2>2. models[i] \in Rows
      BY <1>3, NamesOf DEF TypedInv
    <2>3. w.status = "live" => w.name = models[i].name
      BY <2>2 DEF Rows
    <2>4. models' = [models EXCEPT ![i] = w]
      BY <1>3 DEF DeleteRow
    <2> HIDE DEF w
    <2> QED  BY <1>1, <1>3, <2>1, <2>3, <2>4, RowRewritten, ServedLater
  <1> QED  BY <1>2, <1>3 DEF TakeOut

LEMMA ActivateServed ==
    ASSUME TypedInv, ServedInv, NEW r \in Requests, NEW n \in Nodes, NEW i \in Ids, ActivateModel(r, n, i)
    PROVE  ServedInv'
  <1> DEFINE w == [models[i] EXCEPT !.active = TRUE]
             q == [Idle EXCEPT !.id = i]
  <1>1. Live(i) /\ models' = [models EXCEPT ![i] = w] /\ Begin(r, n, "get", q) /\ redis' = redis
    BY DEF ActivateModel, Memory
  <1>2. w.status = "live" /\ w.name = models[i].name
    <2>1. models[i] \in Rows /\ models[i].status = "live"
      BY <1>1, NamesOf DEF TypedInv, Live
    <2> QED  BY <2>1 DEF Rows
  <1>3. DOMAIN q = {"node", "id", "old", "set", "row", "fallback"} /\ q.id = i
    BY DEF Idle
  <1> HIDE DEF w, q
  <1>4. at'[r] = "get" /\ arg'[r].id = i
    <2>1. at'[r] = "get" /\ arg'[r] = [q EXCEPT !.node = n]
      BY <1>1, BeginMoves DEF Actors
    <2> QED  BY <1>3, <2>1
  <1>5. models'[i] = w
    BY <1>1 DEF TypedInv, TablesTyped
  <1>6. Unsettled(r)'
    BY <1>2, <1>4, <1>5 DEF Unsettled, Live
  <1> QED  BY <1>1, <1>2, <1>6, RowRewritten, ServedLater

LEMMA GetActivatedServed ==
    ASSUME TypedInv, ServedInv, NEW r \in Requests, GetActivated(r)
    PROVE  ServedInv'
  <1>1. at[r] = "get" /\ UNCHANGED <<models, deps, Memory>> /\ redis' = redis
    BY DEF GetActivated, Memory
  <1>2. CASE ~Live(arg[r].id) /\ Goto(r, "get", "idle", Idle)
    <2>1. ~Unsettled(r) /\ Moved(r)
      BY <1>1, <1>2, GotoMoves DEF Actors, Unsettled
    <2> QED  BY <1>1, <2>1, ServedIdly
  <1>3. ASSUME NEW q, Goto(r, "get", "add", q) PROVE ServedInv'
    <2>1. Unsettled(r)'
      BY <1>3, GotoMoves DEF Actors, Unsettled
    <2> QED  BY <1>1, <2>1, NamesKept, ServedLater
  <1> QED  BY <1>2, <1>3 DEF GetActivated

\* What a request does between its write and its message.
LEMMA WritingServed ==
    ASSUME TypedInv, ServedInv, NEW r \in Requests,
           \/ \E n \in Nodes, i \in Ids, d \in Deps :
                 createDeployment(r, n, i, d) \/ updateDeployment(r, n, i, d) \/ deleteDeployment(r, n, i, d)
           \/ \E n \in Nodes, feature \in BOOLEAN : SetLicense(r, n, feature)
           \/ ChangeRegistry(r) \/ ReadModels(r) \/ LoadOne(r) \/ FinishLoad(r)
    PROVE  ServedInv'
  <1>1. models' = models /\ redis' = redis
    BY DEF createDeployment, updateDeployment, deleteDeployment, SetLicense, ChangeRegistry,
           ReadModels, LoadOne, FinishLoad, Memory, Rest
  <1>2. r \in Actors /\ r \notin Nodes
    BY ModelAssumption DEF Actors
  <1>3. at'[r] \in {"reload", "publish", "load"}
    <2>1. CASE \E n \in Nodes : Begin(r, n, "reload", Idle)
      BY <1>2, <2>1, BeginMoves
    <2>2. CASE \E here, next : next \in {"publish", "load"} /\ Goto(r, here, next, arg[r])
      BY <1>2, <2>2, GotoMoves
    <2> QED
      BY <1>2, <2>1, <2>2 DEF createDeployment, updateDeployment, deleteDeployment, SetLicense,
                              ChangeRegistry, ReadModels, LoadOne, FinishLoad
  <1>4. Unsettled(r)'
    BY <1>3 DEF Unsettled
  <1> QED  BY <1>1, <1>4, NamesKept, ServedLater

\* The message reaches every instance.
LEMMA PublishServed ==
    ASSUME TypedInv, ServedInv, NEW r \in Requests, Publish(r)
    PROVE  ServedInv'
  <1>1. models' = models /\ redis' = redis
    BY DEF Publish, Rest
  <1>2. redis = TRUE => \A n \in Nodes : inbox'[n] > 0
    BY DEF Publish, TypedInv, InstancesTyped
  <1>3. redis = TRUE => \A n \in Nodes : Settled(n)'
    BY <1>2 DEF Settled
  <1> QED  BY <1>1, <1>3, NamesKept DEF ServedInv

\* A subscriber's step leaves the tables and the other instances alone.
LEMMA NodeServed ==
    ASSUME ServedInv, NEW n \in Nodes, Moved(n), UNCHANGED <<models, deps, license, redis>>,
           \A m \in Nodes : m # n => registry'[m] = registry[m] /\ inbox'[m] = inbox[m] /\ snap'[m] = snap[m],
           UniqueNames /\ Settled(n) => Settled(n)'
    PROVE  ServedInv'
  <1>1. UniqueNames => UniqueNames'
    BY DEF UniqueNames, Live
  <1>2. \A b \in Requests : Unsettled(b) => Unsettled(b)'
    BY ModelAssumption DEF Unsettled, Live, Moved, Actors
  <1>3. ASSUME NEW m \in Nodes, m # n PROVE Settled(m) => Settled(m)'
    <2>1. registry'[m] = registry[m] /\ inbox'[m] = inbox[m] /\ snap'[m] = snap[m] /\ at'[m] = at[m]
      BY <1>3 DEF Moved, Actors
    <2>2. (Serves(m) => Serves(m)') /\ (Loads(m) => Loads(m)')
      BY <2>1 DEF Serves, Loads, Entry, LoadedModel, ListActiveDeployments, ListActiveModels, Live,
                  FallbackAmongActive
    <2> QED  BY <2>1, <2>2 DEF Settled
  <1> QED  BY <1>1, <1>2, <1>3 DEF ServedInv

\* A reload that has just listed the rows.
LEMMA ListedLoads ==
    ASSUME TablesTyped, NEW n \in Nodes, UNCHANGED <<models, deps>>, snap' = [snap EXCEPT ![n] = Snapshot]
    PROVE  Loads(n)'
  <1>1. snap'[n] = Snapshot
    BY DEF TablesTyped, Actors
  <1>2. ListActiveModels' = ListActiveModels /\ \A i \in Ids : FallbackAmongActive(i)' = FallbackAmongActive(i)
    BY DEF ListActiveModels, Live, FallbackAmongActive
  <1>3. \A m \in Snapshot : /\ m.id \in ListActiveModels /\ m.row = models[m.id]
                            /\ m.fallback = FallbackAmongActive(m.id)
    BY SnapshotTyped
  <1>4. \A i \in ListActiveModels : \E m \in Snapshot : m.id = i
    <2> SUFFICES ASSUME NEW i \in ListActiveModels PROVE \E m \in Snapshot : m.id = i
      OBVIOUS
    <2> DEFINE m == [id |-> i, row |-> models[i], fallback |-> FallbackAmongActive(i)]
    <2>1. m \in Snapshot /\ m.id = i
      BY DEF Snapshot
    <2> QED  BY <2>1
  <1>5. ListActiveModels \subseteq Ids
    BY DEF ListActiveModels
  <1> QED  BY <1>1, <1>2, <1>3, <1>4, <1>5 DEF Loads

LEMMA ReceiveServed ==
    ASSUME TypedInv, ServedInv, NEW n \in Nodes, Receive(n) \/ ReadModels(n)
    PROVE  ServedInv'
  <1>1. /\ UNCHANGED <<models, deps, license, redis, registry>> /\ snap' = [snap EXCEPT ![n] = Snapshot]
        /\ n \in Actors
    BY DEF Receive, ReadModels, Rest, Actors
  <1>2. Moved(n) /\ at'[n] = "load"
    BY <1>1, GotoMoves DEF Receive, ReadModels
  <1>3. Settled(n)'
    BY <1>1, <1>2, ListedLoads DEF TypedInv, Settled
  <1>4. \A m \in Nodes : m # n => inbox'[m] = inbox[m] /\ snap'[m] = snap[m]
    BY DEF Receive, ReadModels, TypedInv, InstancesTyped, TablesTyped, Actors
  <1> QED  BY <1>1, <1>2, <1>3, <1>4, NodeServed

LEMMA LoadOneServed ==
    ASSUME TypedInv, ServedInv, NEW n \in Nodes, LoadOne(n)
    PROVE  ServedInv'
  <1> DEFINE e(m) == LoadedModel(m.row, m.id, m.fallback)
  <1>1. PICK m \in snap[n] :
          /\ Goto(n, "load", "load", arg[n])
          /\ registry' = [registry EXCEPT ![n] = Reg!AddModel(registry[n], m.row.name, e(m))]
          /\ snap' = [snap EXCEPT ![n] = snap[n] \ {m}]
          /\ UNCHANGED <<models, deps, license, redis, inbox, mu>>
    BY DEF LoadOne, Rest, NodeOf
  <1>2. Moved(n) /\ at[n] = "load" /\ at'[n] = "load"
    BY <1>1, GotoMoves DEF Actors
  <1>3. m \in Listed /\ m.row.name \in Names
    BY DEF TypedInv, TablesTyped, Actors
  <1>4. /\ snap'[n] = snap[n] \ {m}
        /\ \A k \in Nodes : k # n => snap'[k] = snap[k] /\ registry'[k] = registry[k]
    BY <1>1 DEF TypedInv, TablesTyped, RegistriesLead, Actors
  <1> HIDE DEF e
  <1>5. /\ registry'[n].models[m.row.name] = e(m)
        /\ \A x \in Names : x # m.row.name => registry'[n].models[x] = registry[n].models[x]
    <2>1. registry[n] \in Registries /\ registry'[n] = Reg!AddModel(registry[n], m.row.name, e(m))
      BY <1>1 DEF TypedInv, RegistriesLead
    <2>2. registry[n].models \in [Names -> Entries \cup {Absent}]
      BY <2>1 DEF Registries
    <2>3. registry'[n].models = [registry[n].models EXCEPT ![m.row.name] = e(m)]
      BY <2>1 DEF Reg!AddModel
    <2> QED  BY <1>3, <2>2, <2>3
  <1>6. ASSUME UniqueNames, Loads(n) PROVE Loads(n)'
    <2>1. /\ ListActiveModels' = ListActiveModels
          /\ \A i \in Ids : /\ FallbackAmongActive(i)' = FallbackAmongActive(i)
                            /\ \A fb : Entry(i, fb)' = Entry(i, fb)
      BY <1>1 DEF ListActiveModels, Live, FallbackAmongActive, Entry, LoadedModel, ListActiveDeployments
    <2>2. /\ m.id \in ListActiveModels /\ m.row = models[m.id]
          /\ e(m) = Entry(m.id, FallbackAmongActive(m.id))
      BY <1>6 DEF Loads, Entry, e
    <2>3. \A i \in ListActiveModels : i \in Ids /\ models[i].name \in Names
                                      /\ (i # m.id => models[i].name # m.row.name)
      BY <1>6, <2>2 DEF ListActiveModels, UniqueNames, Live, TypedInv, TablesTyped
    <2>4. ASSUME NEW i \in ListActiveModels
          PROVE  \/ \E k \in snap'[n] : k.id = i
                 \/ registry'[n].models[models[i].name] = Entry(i, FallbackAmongActive(i))
      <3>1. CASE i = m.id
        BY <1>5, <2>2, <3>1
      <3>2. CASE i # m.id
        <4>1. registry'[n].models[models[i].name] = registry[n].models[models[i].name]
          BY <1>5, <2>3, <3>2
        <4>2. CASE \E k \in snap[n] : k.id = i
          BY <1>4, <3>2, <4>2
        <4>3. CASE registry[n].models[models[i].name] = Entry(i, FallbackAmongActive(i))
          BY <4>1, <4>3
        <4> QED  BY <1>6, <4>2, <4>3 DEF Loads
      <3> QED  BY <3>1, <3>2
    <2>5. \A k \in snap'[n] : k.id \in ListActiveModels /\ k.row = models[k.id]
                              /\ k.fallback = FallbackAmongActive(k.id)
      BY <1>4, <1>6 DEF Loads
    <2> QED  BY <1>1, <2>1, <2>3, <2>4, <2>5 DEF Loads
  <1>7. UniqueNames /\ Settled(n) => Settled(n)'
    BY <1>1, <1>2, <1>6 DEF Settled
  <1> QED  BY <1>1, <1>2, <1>4, <1>7, NodeServed

\* The reload is done: what is loaded is what is to be served, gated by the licence.
LEMMA FinishLoadServed ==
    ASSUME TypedInv, ServedInv, NEW n \in Nodes, FinishLoad(n)
    PROVE  ServedInv'
  <1> DEFINE R == registry[n]
             S == gateFallback(R, n)
             fb(i) == IF license[n] THEN FallbackAmongActive(i) ELSE None
  <1>1. /\ snap[n] = {} /\ registry' = [registry EXCEPT ![n] = S]
        /\ UNCHANGED <<models, deps, license, redis, inbox, mu, snap>>
        /\ Goto(n, "load", "idle", arg[n])
    BY DEF FinishLoad, Rest, NodeOf
  <1>2. Moved(n) /\ at[n] = "load" /\ at'[n] = "idle"
    BY <1>1, GotoMoves DEF Actors
  <1>3. R \in Registries /\ Reg!AliasesLead(R)
    BY DEF TypedInv, RegistriesLead
  <1> HIDE DEF R, S
  <1>4. registry'[n] = S /\ \A k \in Nodes : k # n => registry'[k] = registry[k]
    BY <1>1 DEF TypedInv, RegistriesLead
  <1>5. ASSUME Loads(n), NEW i \in ListActiveModels
        PROVE  S.models[models[i].name] = Entry(i, fb(i))
    <2> DEFINE e == Entry(i, FallbackAmongActive(i))
               x == models[i].name
    <2>1. i \in Ids /\ models[i] \in Rows /\ x \in Names /\ FallbackAmongActive(i) \in Names \cup {None}
      BY <1>5, NamesOf DEF TypedInv, ListActiveModels
    <2>2. R.models[x] = e
      BY <1>1, <1>5 DEF Loads, R
    <2>3. e \in Entries
      BY <2>1, LoadedEntries DEF Entry, TypedInv, TablesTyped
    <2>4. CASE license[n] = TRUE
      BY <2>2, <2>4 DEF S, gateFallback
    <2>5. CASE license[n] = FALSE
      <3>1. S = Reg!StripAllFallbacks(R)
        BY <2>5 DEF S, gateFallback
      <3>2. S.models[x] = [e EXCEPT !.fallback = None]
        <4> HIDE DEF e, x
        <4> QED  BY <1>3, <2>1, <2>2, <2>3, <3>1, StripLeads
      <3>3. [e EXCEPT !.fallback = None] = Entry(i, None)
        BY DEF Entry, LoadedModel
      <3> QED  BY <2>5, <3>2, <3>3
    <2> QED  BY <2>4, <2>5 DEF TypedInv, InstancesTyped
  <1>6. /\ ListActiveModels' = ListActiveModels
        /\ \A i \in Ids : /\ FallbackAmongActive(i)' = FallbackAmongActive(i)
                          /\ \A f : Entry(i, f)' = Entry(i, f)
    BY <1>1 DEF ListActiveModels, Live, FallbackAmongActive, Entry, LoadedModel, ListActiveDeployments
  <1>7. Loads(n) => Serves(n)'
    <2>1. ListActiveModels \subseteq Ids
      BY DEF ListActiveModels
    <2> QED  BY <1>1, <1>4, <1>5, <1>6, <2>1 DEF Serves
  <1>8. Settled(n) => Settled(n)'
    BY <1>1, <1>2, <1>7 DEF Settled
  <1> QED  BY <1>1, <1>2, <1>4, <1>8, NodeServed

\* At the start every row is that of a configured model, and so is every entry.
LEMMA ModelInitServed == Init => ServedInv
  <1> SUFFICES ASSUME Init PROVE ServedInv
    OBVIOUS
  <1> DEFINE t == [i \in Ids |-> NoRow]
             From(i, x) == /\ NewIds(t)[x] = i /\ models[i].name = x
                           /\ models[i].aliases = Yaml[x].aliases /\ models[i].source = "yaml"
  <1>1. t \in [Ids -> Rows] /\ \A i \in Ids : t[i].status = None /\ t[i].fallback = 0
    BY RecordFacts
  <1>2. models = SyncYAMLModels(t)
    BY DEF Init
  <1> HIDE DEF t
  <1>3. \A i \in Ids : models[i].fallback = 0 /\ (Live(i) => \E x \in Configured : From(i, x))
    BY <1>1, <1>2, SyncRows DEF Live, None
  <1>4. UniqueNames
    BY <1>3 DEF UniqueNames
  <1>5. ASSUME NEW n \in Nodes, NEW i \in ListActiveModels
        PROVE  registry[n].models[models[i].name] =
                  Entry(i, IF license[n] THEN FallbackAmongActive(i) ELSE None)
    <2>1. i \in Ids /\ Live(i)
      BY DEF ListActiveModels
    <2>2. PICK x \in Configured : From(i, x)
      BY <1>3, <2>1
    <2>3. FallbackAmongActive(i) = None
      BY <1>3, <2>1, ModelAssumption DEF FallbackAmongActive, ListActiveModels
    <2>4. x \in Names /\ Yaml[x].deps \in [Deps -> 0..2]
      BY YamlTyped
    <2>5. ASSUME NEW d \in Deps PROVE deps[<<i, d>>] = Yaml[x].deps[d]
      <3>1. deps = syncYAMLDeployments(models, [y \in Ids \X Deps |-> 0]) /\ <<i, d>> \in Ids \X Deps
        BY <2>1 DEF Init
      <3>2. models[i].status = "live" /\ models[i].source = "yaml" /\ models[i].name = x
        BY <2>1, <2>2 DEF Live
      <3> QED  BY <3>1, <3>2 DEF syncYAMLDeployments
    <2>6. ListActiveDeployments(i) = Yaml[x].deps
      BY <2>4, <2>5 DEF ListActiveDeployments
    <2>7. Entry(i, None) = [aliases |-> Yaml[x].aliases, deps |-> Yaml[x].deps, fallback |-> None]
      BY <2>2, <2>6 DEF Entry, LoadedModel
    <2>8. registry[n].models[x] = [aliases |-> Yaml[x].aliases, deps |-> Yaml[x].deps, fallback |-> None]
      BY <2>4 DEF Init, NewRegistry
    <2> QED  BY <2>2, <2>3, <2>7, <2>8
  <1>6. \A n \in Nodes : Settled(n)
    BY <1>5 DEF Settled, Serves, Init, Actors
  <1> QED  BY <1>4, <1>6 DEF ServedInv

LEMMA ModelStepServed == TypedInv /\ ServedInv /\ [Next]_vars => ServedInv'
  <1> SUFFICES ASSUME TypedInv, ServedInv, [Next]_vars PROVE ServedInv'
    OBVIOUS
  <1>1. ASSUME NEW r \in Requests, Handler(r) PROVE ServedInv'
    BY <1>1, BeginServed, LockServed, InsertModelServed, UpdateRowServed, TakeOutServed, ActivateServed,
       GetActivatedServed, WritingServed, PublishServed DEF Handler
  <1>2. ASSUME NEW a \in Actors, ReadModels(a) \/ LoadOne(a) \/ FinishLoad(a) PROVE ServedInv'
    BY <1>2, WritingServed, ReceiveServed, LoadOneServed, FinishLoadServed DEF Actors
  <1>3. CASE Restart
    BY <1>3 DEF Restart, ServedInv
  <1>4. CASE UNCHANGED vars
    <2>1. UNCHANGED <<models, deps, registry, license, redis, inbox, snap, at, arg>>
      BY <1>4 DEF vars
    <2>2. \A n \in Nodes : (Serves(n) => Serves(n)') /\ (Loads(n) => Loads(n)')
      BY <2>1 DEF Serves, Loads, Entry, LoadedModel, ListActiveDeployments, ListActiveModels, Live,
                  FallbackAmongActive
    <2>3. \A n \in Nodes : Settled(n) => Settled(n)'
      BY <2>1, <2>2 DEF Settled
    <2>4. \A r \in Requests : Unsettled(r) => Unsettled(r)'
      BY <2>1 DEF Unsettled, Live
    <2> QED  BY <2>1, <2>3, <2>4 DEF ServedInv, UniqueNames, Live
  <1> QED  BY <1>1, <1>2, <1>3, <1>4, ReceiveServed DEF Next

\* With Redis, once every request has been answered and every message handled,
\* each instance serves each active model as the tables have it: aliases,
\* deployments, and the fallback its licence allows.
THEOREM InstancesServeTables == Spec => []ServedAsStored
  <1>1. TypedInv /\ ServedInv => ServedAsStored
    <2> SUFFICES ASSUME TypedInv, ServedInv, redis = TRUE, Quiet PROVE \A n \in Nodes : Serves(n)
      BY DEF ServedAsStored, Serves, Entry, TypedInv, InstancesTyped
    <2>1. \A r \in Requests : ~Unsettled(r)
      BY DEF Quiet, Unsettled, Actors
    <2>2. \A n \in Nodes : at[n] = "idle" /\ inbox[n] = 0
      BY DEF Quiet, Actors
    <2> QED  BY <2>1, <2>2 DEF ServedInv, Settled
  <1> QED  BY <1>1, ModelTypes, ModelInitServed, ModelStepServed, PTL DEF Spec
=============================================================================
