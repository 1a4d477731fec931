------------------------------ MODULE McpProofs -----------------------------
(***************************************************************************)
(* Proofs about VoidLLM's own MCP endpoint, for any number of connections, *)
(* keys, organisations and changes and any limits; about the transport to  *)
(* an upstream server, for any number of calls, scopes, sessions and       *)
(* bindings; about the catalogue of servers, for any rows, callers,        *)
(* requests and overlapping handlers; and about the session registry, for  *)
(* any callers, servers, scopes and bounds.                                *)
(***************************************************************************)
EXTENDS McpEndpoint, McpTransport, McpServers, SessionRegistry, FiniteSetTheorems, SequenceTheorems, TLAPS

-----------------------------------------------------------------------------
(* The endpoint and its subscriptions.                                     *)

Places == {"idle", "answered", "opening", "select", "writing", "ended"}
Streaming == {"opening", "select", "writing"}

EndpointTypes ==
    /\ at \in [Clients -> Places]
    /\ events \in [Clients -> BOOLEAN]
    /\ byKey \in [Keys -> Int] /\ byOrg \in [Organisations -> Int]
    /\ closed \in BOOLEAN
    /\ owed \subseteq Clients
    /\ fan \in [on : BOOLEAN, scope : Scopes \cup {Idle.scope}, left : SUBSET Clients]

\* A change that is still owed is one the running fan-out has yet to tell: the
\* subscriber is among those left, and its filter and the scope let it through.
StillToTell(c) ==
    fan.on /\ c \in fan.left /\ c \in honored /\ matches(fan.scope, c)

Owing == \A c \in owed : events[c] \/ StillToTell(c) \/ Ended(c) \/ ~keyRevalidator(c)

\* The wait for the streams begins after the registry was closed.
DrainAfterClose == drain # "no" => closed

EndpointInv ==
    /\ EndpointParameters /\ EndpointTypes
    /\ Owing /\ DrainAfterClose /\ SlotsAreStreams

LEMMA OwnerInKeys ==
    ASSUME NEW c \in Clients
    PROVE  Owner[c].key \in Keys /\ Owner[c].org \in Organisations
  BY DEF Keys, Organisations

LEMMA IdleFan ==
    Idle \in [on : BOOLEAN, scope : Scopes \cup {Idle.scope}, left : SUBSET Clients]
  <1> DEFINE first == CHOOSE s \in Scopes : TRUE
  <1>1. Idle = [on |-> FALSE, scope |-> first, left |-> {}]
    BY DEF Idle
  <1> HIDE DEF first
  <1>2. QED
    BY <1>1

LEMMA SlotsFinite ==
    ASSUME EndpointInv
    PROVE  /\ all \subseteq Clients /\ IsFiniteSet(all)
           /\ \A k : IsFiniteSet({c \in all : Owner[c].key = k})
           /\ \A o : IsFiniteSet({c \in all : Owner[c].org = o})
  <1>1. all \subseteq Clients
    BY DEF EndpointInv, SlotsAreStreams
  <1>2. IsFiniteSet(all)
    BY <1>1, FS_Subset DEF EndpointInv, EndpointParameters
  <1>3. ASSUME NEW k PROVE IsFiniteSet({c \in all : Owner[c].key = k})
    BY <1>2, FS_Subset, {c \in all : Owner[c].key = k} \subseteq all
  <1>4. ASSUME NEW o PROVE IsFiniteSet({c \in all : Owner[c].org = o})
    BY <1>2, FS_Subset, {c \in all : Owner[c].org = o} \subseteq all
  <1>5. QED
    BY <1>1, <1>2, <1>3, <1>4

LEMMA EndpointInitInv == EndpointParameters /\ Init => EndpointInv
  <1> SUFFICES ASSUME EndpointParameters, Init PROVE EndpointInv
    OBVIOUS
  <1>1. EndpointTypes
    <2>1. fan \in [on : BOOLEAN, scope : Scopes \cup {Idle.scope}, left : SUBSET Clients]
      BY IdleFan DEF Init
    <2>2. at \in [Clients -> Places] /\ events \in [Clients -> BOOLEAN]
      BY DEF Init, Places
    <2>3. byKey \in [Keys -> Int] /\ byOrg \in [Organisations -> Int]
      BY DEF Init
    <2>4. closed \in BOOLEAN /\ owed \subseteq Clients
      BY DEF Init
    <2>5. QED
      BY <2>1, <2>2, <2>3, <2>4 DEF EndpointTypes
  <1>2. Owing /\ DrainAfterClose
    BY DEF Init, Owing, DrainAfterClose
  <1>3. all = {c \in Clients : at[c] \in {"opening", "select", "writing"}}
    BY DEF Init
  <1>4. \A k : {c \in all : Owner[c].key = k} = {} /\ {c \in all : Owner[c].org = k} = {}
    BY DEF Init
  <1>5. \A k \in Keys : byKey[k] = Cardinality({c \in all : Owner[c].key = k})
    BY <1>4, FS_EmptySet DEF Init
  <1>6. \A o \in Organisations : byOrg[o] = Cardinality({c \in all : Owner[c].org = o})
    BY <1>4, FS_EmptySet DEF Init
  <1>7. SlotsAreStreams
    BY <1>3, <1>5, <1>6 DEF SlotsAreStreams, Init
  <1>8. QED
    BY <1>1, <1>2, <1>7 DEF EndpointInv

\* A stream takes its slot: register found none taken for the client before.
LEMMA TakingSlot ==
    ASSUME EndpointInv, NEW c \in Clients, at[c] = "idle", ~closed,
           at' = [at EXCEPT ![c] = "opening"], all' = all \cup {c},
           byKey' = [byKey EXCEPT ![Owner[c].key] = @ + 1],
           byOrg' = [byOrg EXCEPT ![Owner[c].org] = @ + 1],
           drain' = drain
    PROVE  SlotsAreStreams'
  <1> USE DEF EndpointInv, EndpointTypes
  <1>1. c \notin all
    BY DEF SlotsAreStreams
  <1>2. all' = {d \in Clients : at'[d] \in {"opening", "select", "writing"}}
    BY DEF SlotsAreStreams
  <1>3. ASSUME NEW k \in Keys
        PROVE  byKey'[k] = Cardinality({d \in all' : Owner[d].key = k})
    <2> DEFINE S == {d \in all : Owner[d].key = k}
    <2>1. IsFiniteSet(S) /\ c \notin S /\ byKey[k] = Cardinality(S)
      BY <1>1, SlotsFinite DEF SlotsAreStreams
    <2>2. CASE Owner[c].key = k
      <3>1. {d \in all' : Owner[d].key = k} = S \cup {c}
        BY <2>2
      <3>2. Cardinality(S \cup {c}) = Cardinality(S) + 1
        BY <2>1, FS_AddElement
      <3>3. QED
        BY <2>1, <2>2, <3>1, <3>2
    <2>3. CASE Owner[c].key # k
      <3>1. {d \in all' : Owner[d].key = k} = S
        BY <2>3
      <3>2. QED
        BY <2>1, <2>3, <3>1
    <2>4. QED
      BY <2>2, <2>3
  <1>4. ASSUME NEW o \in Organisations
        PROVE  byOrg'[o] = Cardinality({d \in all' : Owner[d].org = o})
    <2> DEFINE S == {d \in all : Owner[d].org = o}
    <2>1. IsFiniteSet(S) /\ c \notin S /\ byOrg[o] = Cardinality(S)
      BY <1>1, SlotsFinite DEF SlotsAreStreams
    <2>2. CASE Owner[c].org = o
      <3>1. {d \in all' : Owner[d].org = o} = S \cup {c}
        BY <2>2
      <3>2. Cardinality(S \cup {c}) = Cardinality(S) + 1
        BY <2>1, FS_AddElement
      <3>3. QED
        BY <2>1, <2>2, <3>1, <3>2
    <2>3. CASE Owner[c].org # o
      <3>1. {d \in all' : Owner[d].org = o} = S
        BY <2>3
      <3>2. QED
        BY <2>1, <2>3, <3>1
    <2>4. QED
      BY <2>2, <2>3
  <1>5. drain' # "drained"
    BY DEF DrainAfterClose
  <1>6. QED
    BY <1>2, <1>3, <1>4, <1>5 DEF SlotsAreStreams

\* A stream gives its slot back, and its client is done.
LEMMA FreeingSlot ==
    ASSUME EndpointInv, NEW c \in Clients, at[c] \in Streaming,
           NEW how \in {"ended", "answered"}, at' = [at EXCEPT ![c] = how],
           Unregistered(c), drain' = drain
    PROVE  SlotsAreStreams'
  <1> USE DEF EndpointInv, EndpointTypes
  <1>1. c \in all
    BY DEF SlotsAreStreams, Streaming
  <1>2. all' = {d \in Clients : at'[d] \in {"opening", "select", "writing"}}
    BY DEF SlotsAreStreams, Unregistered
  <1>3. ASSUME NEW k \in Keys
        PROVE  byKey'[k] = Cardinality({d \in all' : Owner[d].key = k})
    <2> DEFINE S == {d \in all : Owner[d].key = k}
    <2>1. IsFiniteSet(S) /\ byKey[k] = Cardinality(S)
      BY SlotsFinite DEF SlotsAreStreams
    <2>2. CASE Owner[c].key = k
      <3>1. {d \in all' : Owner[d].key = k} = S \ {c} /\ c \in S
        BY <1>1, <2>2 DEF Unregistered
      <3>2. Cardinality(S \ {c}) = Cardinality(S) - 1
        BY <2>1, <3>1, FS_RemoveElement
      <3>3. QED
        BY <2>1, <2>2, <3>1, <3>2 DEF Unregistered
    <2>3. CASE Owner[c].key # k
      <3>1. {d \in all' : Owner[d].key = k} = S
        BY <2>3 DEF Unregistered
      <3>2. QED
        BY <2>1, <2>3, <3>1 DEF Unregistered
    <2>4. QED
      BY <2>2, <2>3
  <1>4. ASSUME NEW o \in Organisations
        PROVE  byOrg'[o] = Cardinality({d \in all' : Owner[d].org = o})
    <2> DEFINE S == {d \in all : Owner[d].org = o}
    <2>1. IsFiniteSet(S) /\ byOrg[o] = Cardinality(S)
      BY SlotsFinite DEF SlotsAreStreams
    <2>2. CASE Owner[c].org = o
      <3>1. {d \in all' : Owner[d].org = o} = S \ {c} /\ c \in S
        BY <1>1, <2>2 DEF Unregistered
      <3>2. Cardinality(S \ {c}) = Cardinality(S) - 1
        BY <2>1, <3>1, FS_RemoveElement
      <3>3. QED
        BY <2>1, <2>2, <3>1, <3>2 DEF Unregistered
    <2>3. CASE Owner[c].org # o
      <3>1. {d \in all' : Owner[d].org = o} = S
        BY <2>3 DEF Unregistered
      <3>2. QED
        BY <2>1, <2>3, <3>1 DEF Unregistered
    <2>4. QED
      BY <2>2, <2>3
  <1>5. drain' = "drained" => all' = {}
    BY DEF SlotsAreStreams, Unregistered
  <1>6. QED
    BY <1>2, <1>3, <1>4, <1>5 DEF SlotsAreStreams

\* The slots stay as they are, and so does who is streaming.
LEMMA KeepingSlots ==
    ASSUME EndpointInv, UNCHANGED <<all, byKey, byOrg>>,
           \A c \in Clients : at'[c] \in Streaming <=> at[c] \in Streaming,
           drain' = "drained" => all = {}
    PROVE  SlotsAreStreams'
  BY DEF EndpointInv, SlotsAreStreams, Streaming

-----------------------------------------------------------------------------
\* A request is answered, or opens a stream.
LEMMA RequestStep ==
    ASSUME EndpointInv, NEW c \in Clients, NEW r \in Posts, handleMCPRequest(c, r)
    PROVE  EndpointInv'
  <1> USE DEF EndpointInv, EndpointTypes, EndpointParameters
  <1>1. at[c] = "idle" /\ UNCHANGED <<closed, events, live, fan, changes, owed, drain>>
    BY DEF handleMCPRequest, Refuse
  <1>2. at' \in {[at EXCEPT ![c] = "answered"], [at EXCEPT ![c] = "opening"]}
    BY DEF handleMCPRequest, Refuse
  <1>3. honored \subseteq honored'
    BY DEF handleMCPRequest, Refuse
  <1>4. Owing'
    <2> SUFFICES ASSUME NEW d \in owed
                 PROVE  (events[d] \/ StillToTell(d) \/ Ended(d) \/ ~keyRevalidator(d))'
      BY <1>1 DEF Owing
    <2>1. StillToTell(d) => StillToTell(d)'
      BY <1>1, <1>3 DEF StillToTell, matches
    <2>2. Ended(d) => Ended(d)'
      BY <1>1, <1>2 DEF Ended
    <2>3. QED
      BY <1>1, <2>1, <2>2 DEF Owing, keyRevalidator
  <1>5. at' \in [Clients -> Places]
    BY <1>2 DEF Places
  <1>6. CASE Refuse(c, Handle(r)) \/ Refuse(c, statusHintFor(register(c), "modern"))
    <2>1. at' = [at EXCEPT ![c] = "answered"] /\ UNCHANGED <<all, byKey, byOrg, honored>>
      BY <1>6 DEF Refuse
    <2>2. SlotsAreStreams'
      <3>1. \A d \in Clients : at'[d] \in Streaming <=> at[d] \in Streaming
        BY <1>1, <2>1 DEF Streaming
      <3>2. drain' = "drained" => all = {}
        BY <1>1 DEF SlotsAreStreams
      <3>3. QED
        BY <2>1, <3>1, <3>2, KeepingSlots
    <2>3. QED
      BY <1>1, <1>4, <1>5, <2>1, <2>2 DEF DrainAfterClose
  <1>7. CASE /\ register(c) = "ok"
             /\ at' = [at EXCEPT ![c] = "opening"]
             /\ all' = all \cup {c}
             /\ byKey' = [byKey EXCEPT ![Owner[c].key] = @ + 1]
             /\ byOrg' = [byOrg EXCEPT ![Owner[c].org] = @ + 1]
    <2>1. ~closed
      BY <1>7 DEF register
    <2>2. SlotsAreStreams'
      BY <1>1, <1>7, <2>1, TakingSlot
    <2>3. byKey' \in [Keys -> Int] /\ byOrg' \in [Organisations -> Int]
      BY <1>7, OwnerInKeys
    <2>4. QED
      BY <1>1, <1>4, <1>5, <2>2, <2>3 DEF DrainAfterClose
  <1>8. QED
    BY <1>6, <1>7 DEF handleMCPRequest

\* A stream ends, and what its client was owed with it.
LEMMA EndStep ==
    ASSUME EndpointInv, NEW c \in Clients, at[c] \in Streaming,
           NEW how \in {"ended", "answered"}, at' = [at EXCEPT ![c] = how],
           Unregistered(c),
           UNCHANGED <<closed, honored, events, live, fan, changes, owed, drain>>
    PROVE  EndpointInv'
  <1> USE DEF EndpointInv, EndpointTypes, EndpointParameters
  <1>1. SlotsAreStreams'
    BY FreeingSlot
  <1>2. byKey' \in [Keys -> Int] /\ byOrg' \in [Organisations -> Int]
    BY OwnerInKeys DEF Unregistered
  <1>3. at' \in [Clients -> Places]
    BY DEF Places
  <1>4. Owing'
    <2> SUFFICES ASSUME NEW d \in owed
                 PROVE  (events[d] \/ StillToTell(d) \/ Ended(d) \/ ~keyRevalidator(d))'
      BY DEF Owing
    <2>1. StillToTell(d) => StillToTell(d)'
      BY DEF StillToTell, matches
    <2>2. Ended(d) => Ended(d)'
      BY DEF Ended
    <2>3. QED
      BY <2>1, <2>2 DEF Owing, keyRevalidator
  <1>5. QED
    BY <1>1, <1>2, <1>3, <1>4 DEF DrainAfterClose

\* The acknowledgement and the notifications of a stream.
LEMMA StreamStep ==
    ASSUME EndpointInv, NEW c \in Clients, Open(c) \/ TakeEvent(c) \/ WriteEvent(c)
    PROVE  EndpointInv'
  <1> USE DEF EndpointInv, EndpointTypes, EndpointParameters
  <1>1. /\ UNCHANGED <<all, byKey, byOrg, closed, honored, live, fan, drain>>
        /\ owed' \subseteq owed
        /\ at[c] \in Streaming /\ at' \in {[at EXCEPT ![c] = s] : s \in {"select", "writing"}}
        /\ \A d \in owed' : events'[d] = events[d]
        /\ events' \in [Clients -> BOOLEAN]
    BY DEF Open, TakeEvent, WriteEvent, Streaming
  <1>2. at' \in [Clients -> Places] /\ \A d \in Clients : at'[d] \in Streaming <=> at[d] \in Streaming
    BY <1>1 DEF Places, Streaming
  <1>3. SlotsAreStreams'
    BY <1>1, <1>2, KeepingSlots DEF SlotsAreStreams
  <1>4. Owing'
    <2> SUFFICES ASSUME NEW d \in owed'
                 PROVE  (events[d] \/ StillToTell(d) \/ Ended(d) \/ ~keyRevalidator(d))'
      BY DEF Owing
    <2>1. StillToTell(d) => StillToTell(d)'
      BY <1>1 DEF StillToTell, matches
    <2>2. Ended(d) => Ended(d)'
      BY <1>1 DEF Ended, Streaming
    <2>3. QED
      BY <1>1, <2>1, <2>2 DEF Owing, keyRevalidator
  <1>5. QED
    BY <1>1, <1>2, <1>3, <1>4 DEF DrainAfterClose

\* A change begins its fan-out: none was running, so nobody waits for one.
LEMMA NotifyStep ==
    ASSUME EndpointInv, NEW s \in Scopes, notify(s)
    PROVE  EndpointInv'
  <1> USE DEF EndpointInv, EndpointTypes, EndpointParameters, notify
  <1>1. all \subseteq Clients
    BY SlotsFinite
  <1>2. owed' \subseteq Clients
    BY <1>1
  <1>3. fan' \in [on : BOOLEAN, scope : Scopes \cup {Idle.scope}, left : SUBSET Clients]
    BY <1>1
  <1>4. Owing'
    <2> SUFFICES ASSUME NEW d \in owed'
                 PROVE  (events[d] \/ StillToTell(d) \/ Ended(d) \/ ~keyRevalidator(d))'
      BY DEF Owing
    <2>1. CASE d \in owed
      BY <2>1 DEF Owing, StillToTell, Ended, keyRevalidator
    <2>2. CASE d \in all \cap honored /\ matches(s, d)
      <3>1. fan'.on /\ fan'.scope = s /\ d \in fan'.left /\ d \in honored'
        BY <2>2
      <3>2. matches(fan.scope, d)'
        BY <2>2, <3>1 DEF matches
      <3>3. QED
        BY <3>1, <3>2 DEF StillToTell
    <2>3. QED
      BY <2>1, <2>2
  <1>5. SlotsAreStreams'
    BY KeepingSlots DEF SlotsAreStreams
  <1>6. QED
    BY <1>2, <1>3, <1>4, <1>5 DEF DrainAfterClose

\* The fan-out reaches one subscriber.
LEMMA TellStep ==
    ASSUME EndpointInv, NEW c \in Clients, Tell(c)
    PROVE  EndpointInv'
  <1> USE DEF EndpointInv, EndpointTypes, EndpointParameters
  <1>1. /\ fan' = [fan EXCEPT !.left = fan.left \ {c}]
        /\ UNCHANGED <<at, all, byKey, byOrg, closed, honored, live, owed, drain>>
        /\ fan.on /\ c \in fan.left
    BY DEF Tell
  <1>2. /\ fan' \in [on : BOOLEAN, scope : Scopes \cup {Idle.scope}, left : SUBSET Clients]
        /\ fan'.on = fan.on /\ fan'.scope = fan.scope /\ fan'.left = fan.left \ {c}
    BY <1>1
  <1>3. /\ events' \in [Clients -> BOOLEAN]
        /\ \A d \in Clients : events[d] => events'[d]
    BY DEF Tell, deliver
  <1>4. c \in honored /\ matches(fan.scope, c) /\ keyRevalidator(c) => events'[c]
    BY DEF Tell, deliver
  <1>5. Owing'
    <2> SUFFICES ASSUME NEW d \in owed
                 PROVE  (events[d] \/ StillToTell(d) \/ Ended(d) \/ ~keyRevalidator(d))'
      BY <1>1 DEF Owing
    <2>1. CASE d = c
      BY <1>1, <1>3, <1>4, <2>1 DEF Owing, StillToTell, Ended, keyRevalidator
    <2>2. CASE d # c
      <3>1. StillToTell(d) => StillToTell(d)'
        BY <1>1, <1>2, <2>2 DEF StillToTell, matches
      <3>2. QED
        BY <1>1, <1>3, <3>1 DEF Owing, Ended, keyRevalidator
    <2>3. QED
      BY <2>1, <2>2
  <1>6. SlotsAreStreams'
    BY <1>1, KeepingSlots DEF SlotsAreStreams
  <1>7. QED
    BY <1>1, <1>2, <1>3, <1>5, <1>6 DEF DrainAfterClose

\* The fan-out ends, a key is revoked, and shutdown closes and waits.
LEMMA OtherStep ==
    ASSUME EndpointInv, Told \/ CloseSubscriptions \/ wait \/ \E k \in Keys : Revoke(k)
    PROVE  EndpointInv'
  <1> USE DEF EndpointInv, EndpointTypes, EndpointParameters
  <1>1. UNCHANGED <<at, all, byKey, byOrg, honored, events, owed>>
    BY DEF Told, CloseSubscriptions, wait, Revoke
  <1>2. /\ live' \subseteq live /\ closed' \in BOOLEAN /\ (closed => closed')
        /\ fan' = fan \/ (fan.left = {} /\ fan' = Idle)
    BY DEF Told, CloseSubscriptions, wait, Revoke
  <1>3. fan' \in [on : BOOLEAN, scope : Scopes \cup {Idle.scope}, left : SUBSET Clients]
    BY <1>2, IdleFan
  <1>4. Owing'
    <2> SUFFICES ASSUME NEW d \in owed
                 PROVE  (events[d] \/ StillToTell(d) \/ Ended(d) \/ ~keyRevalidator(d))'
      BY <1>1 DEF Owing
    <2>1. StillToTell(d) => StillToTell(d)'
      BY <1>1, <1>2 DEF StillToTell, matches
    <2>2. QED
      BY <1>1, <1>2, <2>1 DEF Owing, Ended, keyRevalidator
  <1>5. drain' = "drained" => all = {}
    BY DEF Told, CloseSubscriptions, wait, Revoke, SlotsAreStreams
  <1>6. SlotsAreStreams'
    BY <1>1, <1>5, KeepingSlots
  <1>7. DrainAfterClose'
    BY DEF Told, CloseSubscriptions, wait, Revoke, DrainAfterClose
  <1>8. QED
    BY <1>1, <1>2, <1>3, <1>4, <1>6, <1>7

LEMMA EndpointStep == EndpointInv /\ [Next]_vars => EndpointInv'
  <1> SUFFICES ASSUME EndpointInv, [Next]_vars PROVE EndpointInv'
    OBVIOUS
  <1>1. CASE UNCHANGED vars
    BY <1>1 DEF vars, EndpointInv, EndpointParameters, EndpointTypes, Owing, StillToTell,
                Ended, keyRevalidator, matches, DrainAfterClose, SlotsAreStreams
  <1>2. ASSUME NEW c \in Clients, Stream(c) PROVE EndpointInv'
    <2>1. CASE Open(c) \/ TakeEvent(c) \/ WriteEvent(c)
      BY <2>1, StreamStep
    <2>2. CASE Unavailable(c)
      BY <2>2, EndStep DEF Unavailable, Streaming
    <2>3. CASE Revalidate(c) \/ Done(c)
      BY <2>3, EndStep DEF Revalidate, Done, End, Streaming
    <2>4. QED
      BY <1>2, <2>1, <2>2, <2>3 DEF Stream
  <1>3. ASSUME NEW c \in Clients, Client(c) PROVE EndpointInv'
    <2>1. CASE \E r \in Posts : handleMCPRequest(c, r)
      BY <2>1, RequestStep
    <2>2. CASE WriteFails(c) \/ MaxDuration(c)
      BY <2>2, EndStep DEF WriteFails, MaxDuration, End, Streaming
    <2>3. QED
      BY <1>3, <2>1, <2>2 DEF Client
  <1>4. CASE FanOut
    BY <1>4, TellStep, OtherStep DEF FanOut
  <1>5. CASE \E s \in Scopes : notify(s)
    BY <1>5, NotifyStep
  <1>6. CASE CloseSubscriptions \/ wait \/ \E k \in Keys : Revoke(k)
    BY <1>6, OtherStep
  <1>7. QED
    BY <1>1, <1>2, <1>3, <1>4, <1>5, <1>6 DEF Next

\* The inductive invariant of the endpoint: besides the properties below, who a
\* running fan-out still has to tell, and that the drain follows the close.
THEOREM EndpointInvariance == EndpointParameters /\ Spec => []EndpointInv
  <1>1. QED
    BY EndpointInitInv, EndpointStep, PTL DEF Spec

\* No change is lost to a subscriber's one-slot channel (subscriptions.go:306-318,
\* 493-523).
THEOREM ChangesAreNotLost == EndpointParameters /\ Spec => []NoLostChange
  <1>1. EndpointInv => NoLostChange
    BY DEF EndpointInv, Owing, StillToTell, NoLostChange
  <1>2. QED
    BY <1>1, EndpointInvariance, PTL

\* The registry's slots and counters are the open streams, and a successful drain
\* is final (subscriptions.go:395-491, mcp_handler.go:237-308).
THEOREM SlotsAlwaysAreStreams == EndpointParameters /\ Spec => []SlotsAreStreams
  <1>1. EndpointInv => SlotsAreStreams
    BY DEF EndpointInv
  <1>2. QED
    BY <1>1, EndpointInvariance, PTL

-----------------------------------------------------------------------------
(* The transport to an upstream server.                                    *)

Bound == {"bound", "warm", "warmup", "rewarm", "send", "sent", "answered", "expired", "invalidate"}
Warming == {"warm", "warmup", "rewarm", "expired"}
Refusals == {400, 404}
Statuses == {0, 200, 500} \cup Refusals
CallPlaces == {"idle", "load", "lock", "probe", "ok", "error"} \cup Bound
AnyScope == SessionScopes \cup {None}
CallStates == [at : CallPlaces, scope : AnyScope, b : Nat, ss : Nat, used : Nat,
               retried : BOOLEAN, status : Statuses]
BindingRows == [era : {"legacy", "modern", Pinned}, scopes : Seq(Nat)]
ScopedStates == [scope : AnyScope, sid : Nat, warmed : BOOLEAN, mu : Calls \cup {None}]

TransportTypes ==
    /\ bindings \in Seq(BindingRows)
    /\ states \in Seq(ScopedStates) /\ owner \in Seq(AnyScope)
    /\ call \in [Calls -> CallStates]
    /\ server.era \in {"legacy", "modern"}
    /\ executed \in [Calls -> Nat]

\* A state's session, and every session a request carried, was opened for its scope.
SessionSound(n, s) == n # 0 => n \in DOMAIN owner /\ owner[n] = s
StatesSound == \A i \in DOMAIN states : SessionSound(states[i].sid, states[i].scope)
CarriedSound == \A r \in carried : r[2] \in Nat /\ SessionSound(r[2], r[1])

\* The scopes of a binding have their states.
ScopesSound ==
    \A b \in DOMAIN bindings : \A k \in DOMAIN bindings[b].scopes : bindings[b].scopes[k] \in DOMAIN states

\* A call holds a state and a session of its own scope, and gives up a binding
\* only after it could not open a session with it.
HoldsOwn(x) ==
    /\ x.ss # 0 => x.ss \in DOMAIN states /\ states[x.ss].scope = x.scope
    /\ SessionSound(x.used, x.scope)
    /\ x.at \in Bound => x.b \in DOMAIN bindings
    /\ x.at = "invalidate" => x.b \in given
    /\ x.at = "idle" => x.ss = 0 /\ x.used = 0
    /\ x.at \in Warming => x.ss # 0
    /\ x.at \in {"send", "sent", "answered"} /\ bindings[x.b].era = "legacy" => x.ss # 0
CallsHoldOwn == \A c \in Calls : HoldsOwn(call[c])

\* Who probes has the lock, and found no binding.
ProbesAlone ==
    \A c \in Calls : call[c].at = "probe" => resolveMu = c /\ resolution.kind # "bound"

ResolvedToBinding == resolution.kind = "bound" => resolution.b \in DOMAIN bindings

\* A call the server ran is answered or over, and was not refused.
RanOnce(c) ==
    /\ executed[c] <= 1
    /\ executed[c] # 0 =>
          \/ call[c].at \in {"ok", "error"}
          \/ call[c].at = "answered" /\ call[c].status \notin Refusals

TransportInv ==
    /\ TransportParameters /\ TransportTypes
    /\ StatesSound /\ CarriedSound /\ ScopesSound /\ CallsHoldOwn /\ ProbesAlone
    /\ \A c \in Calls : RanOnce(c)
    /\ ResolvedToBinding /\ BindingKept

LEMMA NoCallIs ==
    /\ NoCall \in CallStates /\ NoCall.at = "idle" /\ NoCall.ss = 0 /\ NoCall.used = 0
    /\ \A n \in {"ok", "error"} :
          /\ [NoCall EXCEPT !.at = n] \in CallStates /\ [NoCall EXCEPT !.at = n].at = n
          /\ [NoCall EXCEPT !.at = n].ss = 0 /\ [NoCall EXCEPT !.at = n].used = 0
  BY DEF NoCall, CallStates, CallPlaces, AnyScope, Statuses, None

LEMMA TransportStarts == TransportParameters /\ TransportInit => TransportInv
  <1> SUFFICES ASSUME TransportParameters, TransportInit PROVE TransportInv
    OBVIOUS
  <1>1. TransportTypes
    BY NoCallIs DEF TransportInit, TransportTypes
  <1>2. StatesSound /\ CarriedSound /\ ScopesSound
    BY DEF TransportInit, StatesSound, CarriedSound, ScopesSound
  <1>3. CallsHoldOwn /\ ProbesAlone
    BY NoCallIs DEF TransportInit, CallsHoldOwn, HoldsOwn, SessionSound, ProbesAlone, Bound, Warming
  <1>4. (\A c \in Calls : RanOnce(c)) /\ ResolvedToBinding /\ BindingKept
    BY DEF TransportInit, RanOnce, ResolvedToBinding, Unresolved, BindingKept
  <1> QED BY <1>1, <1>2, <1>3, <1>4 DEF TransportInv

\* One call moves; sessions, states and bindings may be added, and keep their scopes.
LEMMA CallMoves ==
    ASSUME TransportInv, NEW c \in Calls, NEW x \in CallStates, call' = [call EXCEPT ![c] = x],
           bindings' \in Seq(BindingRows), DOMAIN bindings \subseteq DOMAIN bindings',
           \A b \in DOMAIN bindings : bindings'[b].era = bindings[b].era,
           states' \in Seq(ScopedStates), DOMAIN states \subseteq DOMAIN states',
           \A i \in DOMAIN states : states'[i].scope = states[i].scope,
           owner' \in Seq(AnyScope), DOMAIN owner \subseteq DOMAIN owner',
           \A n \in DOMAIN owner : owner'[n] = owner[n],
           server'.era \in {"legacy", "modern"}, StatesSound', ScopesSound',
           HoldsOwn(x)', given \subseteq given',
           \A r \in carried' : r \in carried \/ (r[2] \in Nat /\ SessionSound(r[2], r[1])),
           executed' \in [Calls -> Nat], \A d \in Calls : d # c => executed'[d] = executed[d],
           RanOnce(c)', ResolvedToBinding', BindingKept',
           x.at = "probe" => resolveMu' = c /\ resolution'.kind # "bound",
           \A d \in Calls : d # c /\ call[d].at = "probe" => resolveMu' = d /\ resolution'.kind # "bound"
    PROVE  TransportInv'
  <1>1. call'[c] = x /\ \A d \in Calls : d # c => call'[d] = call[d]
    BY DEF TransportInv, TransportTypes
  <1>2. TransportTypes' /\ TransportParameters'
    BY DEF TransportInv, TransportTypes, TransportParameters
  <1>3. ASSUME NEW n, NEW s, SessionSound(n, s) PROVE SessionSound(n, s)'
    BY <1>3 DEF SessionSound
  <1>4. CarriedSound'
    <2> SUFFICES ASSUME NEW r \in carried' PROVE r[2] \in Nat /\ SessionSound(r[2], r[1])'
      BY DEF CarriedSound
    <2>1. r[2] \in Nat /\ SessionSound(r[2], r[1])
      BY DEF TransportInv, CarriedSound
    <2> QED BY <2>1, <1>3
  <1>5. CallsHoldOwn'
    <2> SUFFICES ASSUME NEW d \in Calls PROVE HoldsOwn(call[d])'
      BY DEF CallsHoldOwn
    <2>1. CASE d = c
      BY <1>1, <2>1 DEF HoldsOwn, SessionSound
    <2>2. CASE d # c
      <3>1. PICK y \in CallStates : y = call[d]
        BY DEF TransportInv, TransportTypes
      <3>2. HoldsOwn(y) /\ call'[d] = y
        BY <1>1, <2>2, <3>1 DEF TransportInv, CallsHoldOwn
      <3>3. SessionSound(y.used, y.scope)'
        BY <1>3, <3>2 DEF HoldsOwn
      <3>4. y.ss # 0 => y.ss \in DOMAIN states' /\ states'[y.ss].scope = y.scope
        BY <3>2 DEF HoldsOwn
      <3>5. y.at \in Bound => y.b \in DOMAIN bindings' /\ bindings'[y.b].era = bindings[y.b].era
        BY <3>2 DEF HoldsOwn
      <3>6. HoldsOwn(y)'
        BY <3>2, <3>3, <3>4, <3>5 DEF HoldsOwn, Bound
      <3> QED BY <3>2, <3>6 DEF HoldsOwn, SessionSound
    <2> QED BY <2>1, <2>2
  <1>6. ProbesAlone'
    BY <1>1 DEF ProbesAlone
  <1>7. \A d \in Calls : RanOnce(d)'
    BY <1>1 DEF TransportInv, RanOnce
  <1> QED BY <1>2, <1>4, <1>5, <1>6, <1>7 DEF TransportInv

\* It moves and changes nothing else but the lock and the verdict on the server.
LEMMA CallMovesAlone ==
    ASSUME TransportInv, NEW c \in Calls, NEW x \in CallStates,
           call' = [call EXCEPT ![c] = x], UNCHANGED <<bindings, states, server, owner, executed, carried, given>>,
           HoldsOwn(x), RanOnce(c)', ResolvedToBinding', BindingKept',
           x.at = "probe" => resolveMu' = c /\ resolution'.kind # "bound",
           \A d \in Calls : d # c /\ call[d].at = "probe" => resolveMu' = d /\ resolution'.kind # "bound"
    PROVE  TransportInv'
  <1>1. HoldsOwn(x)'
    BY DEF HoldsOwn, SessionSound
  <1>2. server'.era \in {"legacy", "modern"} /\ executed' \in [Calls -> Nat]
    BY DEF TransportInv, TransportTypes
  <1>3. bindings' \in Seq(BindingRows) /\ states' \in Seq(ScopedStates) /\ owner' \in Seq(AnyScope)
    BY DEF TransportInv, TransportTypes
  <1>4. StatesSound' /\ ScopesSound'
    BY DEF TransportInv, StatesSound, SessionSound, ScopesSound
  <1> QED BY <1>1, <1>2, <1>3, <1>4, CallMoves

\* What the invariant says of a call that is under way.
LEMMA UnderWay ==
    ASSUME TransportInv, NEW c \in Calls
    PROVE  /\ call[c] \in CallStates /\ HoldsOwn(call[c]) /\ executed[c] \in Nat /\ RanOnce(c)
           /\ call[c].at \notin {"ok", "error", "answered"} => executed[c] = 0
  BY DEF TransportInv, TransportTypes, CallsHoldOwn, RanOnce

\* A call that ends gives back what it held.
LEMMA Finishing ==
    ASSUME TransportInv, NEW c \in Calls, NEW ok \in BOOLEAN, Finish(c, ok),
           UNCHANGED <<bindings, states, server, owner, executed, carried, given>>,
           ResolvedToBinding', BindingKept',
           \A d \in Calls : d # c /\ call[d].at = "probe" => resolveMu' = d /\ resolution'.kind # "bound"
    PROVE  TransportInv'
  <1>1. PICK n, x : n = (IF ok THEN "ok" ELSE "error") /\ x = [NoCall EXCEPT !.at = n]
    BY Zenon
  <1>2. x \in CallStates /\ x.at = n /\ x.ss = 0 /\ x.used = 0 /\ n \in {"ok", "error"}
    BY <1>1, NoCallIs
  <1>3. call' = [call EXCEPT ![c] = x]
    BY <1>1 DEF Finish
  <1>4. HoldsOwn(x)
    BY <1>2 DEF HoldsOwn, SessionSound, Bound, Warming
  <1>5. RanOnce(c)'
    <2>1. call'[c] = x
      BY <1>3 DEF TransportInv, TransportTypes
    <2> QED BY <1>2, <2>1 DEF TransportInv, RanOnce
  <1> QED BY <1>2, <1>3, <1>4, <1>5, CallMovesAlone

\* A call that goes on, and holds what it held.
LEMMA Advancing ==
    ASSUME TransportInv, NEW c \in Calls, NEW x \in CallStates, call' = [call EXCEPT ![c] = x],
           call[c].at \notin {"ok", "error", "answered"}, HoldsOwn(x), x.at # "probe",
           UNCHANGED <<resolution, resolveMu, bindings, states, server, owner, executed, carried, given>>
    PROVE  TransportInv'
  <1>1. RanOnce(c)'
    BY UnderWay DEF RanOnce
  <1>2. ResolvedToBinding' /\ BindingKept'
    BY DEF TransportInv, ResolvedToBinding, BindingKept
  <1>3. \A d \in Calls : d # c /\ call[d].at = "probe" => resolveMu' = d /\ resolution'.kind # "bound"
    BY DEF TransportInv, ProbesAlone
  <1> QED BY <1>1, <1>2, <1>3, CallMovesAlone

LEMMA Placed ==
    ASSUME NEW z \in CallStates, NEW n \in CallPlaces
    PROVE  /\ [z EXCEPT !.at = n] \in CallStates
           /\ [z EXCEPT !.at = n].at = n /\ [z EXCEPT !.at = n].scope = z.scope
           /\ [z EXCEPT !.at = n].b = z.b /\ [z EXCEPT !.at = n].ss = z.ss
           /\ [z EXCEPT !.at = n].used = z.used /\ [z EXCEPT !.at = n].status = z.status
  BY DEF CallStates

LEMMA Rebinding ==
    ASSUME NEW z \in CallStates, NEW b \in Nat
    PROVE  /\ [z EXCEPT !.at = "bound", !.b = b] \in CallStates
           /\ [z EXCEPT !.at = "bound", !.b = b].at = "bound"
           /\ [z EXCEPT !.at = "bound", !.b = b].scope = z.scope
           /\ [z EXCEPT !.at = "bound", !.b = b].ss = z.ss
           /\ [z EXCEPT !.at = "bound", !.b = b].used = z.used
           /\ [z EXCEPT !.at = "bound", !.b = b].b = b
  <1>1. "bound" \in CallPlaces
    BY DEF CallPlaces, Bound
  <1> QED BY <1>1 DEF CallStates

LEMMA Going ==
    ASSUME TransportInv, NEW c \in Calls, NEW n \in CallPlaces, Goto(c, n)
    PROVE  \E x \in CallStates :
              /\ call' = [call EXCEPT ![c] = x] /\ x.at = n /\ x.scope = call[c].scope /\ x.b = call[c].b
              /\ x.ss = call[c].ss /\ x.used = call[c].used /\ x.status = call[c].status
  <1>1. PICK z \in CallStates : z = call[c]
    BY DEF TransportInv, TransportTypes
  <1>2. call' = [call EXCEPT ![c] = [z EXCEPT !.at = n]]
    BY <1>1 DEF Goto, TransportInv, TransportTypes
  <1> QED BY <1>1, <1>2, Placed

LEMMA BeginKeeps ==
    ASSUME TransportInv, NEW c \in Calls, NEW s \in SessionScopes, Begin(c, s) PROVE TransportInv'
  <1>1. PICK z \in CallStates : z = call[c]
    BY DEF TransportInv, TransportTypes
  <1>2. PICK x : x = [z EXCEPT !.at = "load", !.scope = s]
    BY Zenon
  <1>3. call' = [call EXCEPT ![c] = x]
    BY <1>1, <1>2 DEF Begin, TransportInv, TransportTypes
  <1>4. x \in CallStates /\ x.at = "load" /\ x.scope = s /\ x.ss = z.ss /\ x.used = z.used
    BY <1>2 DEF CallStates, CallPlaces, AnyScope
  <1>5. HoldsOwn(x)
    BY <1>4, <1>1, UnderWay DEF HoldsOwn, SessionSound, Bound, Warming, Begin
  <1> QED BY <1>3, <1>4, <1>5, Advancing DEF Begin, history

\* A binding that is there is taken, and a failure that is remembered returned.
LEMMA SnapshotKeeps ==
    ASSUME TransportInv, NEW c \in Calls, FromSnapshot(c), call[c].at \in {"load", "lock"},
           UNCHANGED <<resolution, resolveMu, bindings, states, server, owner, executed, carried, given>>
    PROVE  TransportInv'
  <1>1. /\ ResolvedToBinding' /\ BindingKept'
        /\ \A d \in Calls : d # c /\ call[d].at = "probe" => resolveMu' = d /\ resolution'.kind # "bound"
    BY DEF TransportInv, ResolvedToBinding, BindingKept, ProbesAlone
  <1>2. CASE Finish(c, FALSE)
    BY <1>1, <1>2, Finishing
  <1>3. CASE resolution.kind = "bound" /\ call' = [call EXCEPT ![c].at = "bound", ![c].b = resolution.b]
    <2>1. PICK z \in CallStates : z = call[c]
      BY DEF TransportInv, TransportTypes
    <2>2. PICK b, x : b = resolution.b /\ x = [z EXCEPT !.at = "bound", !.b = b]
      BY Zenon
    <2>3. call' = [call EXCEPT ![c] = x]
      BY <1>3, <2>1, <2>2 DEF TransportInv, TransportTypes
    <2>4. b \in DOMAIN bindings /\ b \in Nat
      BY <1>3, <2>2 DEF TransportInv, TransportTypes, ResolvedToBinding
    <2>5. x \in CallStates /\ x.at = "bound" /\ x.scope = z.scope /\ x.ss = z.ss /\ x.used = z.used /\ x.b = b
      BY <2>2, <2>4, Rebinding
    <2>6. HoldsOwn(x)
      BY <2>1, <2>4, <2>5, UnderWay DEF HoldsOwn, Warming
    <2> QED BY <2>3, <2>5, <2>6, Advancing
  <1> QED BY <1>2, <1>3 DEF FromSnapshot

LEMMA FastPathKeeps == ASSUME TransportInv, NEW c \in Calls, FastPath(c) PROVE TransportInv'
  <1>1. /\ call[c].at = "load"
        /\ UNCHANGED <<resolution, resolveMu, bindings, states, server, owner, executed, carried, given>>
    BY DEF FastPath, history
  <1>2. CASE FromSnapshot(c)
    BY <1>1, <1>2, SnapshotKeeps
  <1>3. CASE Goto(c, "lock")
    <2>1. PICK x \in CallStates :
              /\ call' = [call EXCEPT ![c] = x] /\ x.at = "lock" /\ x.scope = call[c].scope /\ x.b = call[c].b
              /\ x.ss = call[c].ss /\ x.used = call[c].used
      BY <1>3, Going DEF CallPlaces
    <2>2. HoldsOwn(x)
      BY <2>1, UnderWay DEF HoldsOwn, Bound, Warming
    <2> QED BY <1>1, <2>1, <2>2, Advancing
  <1> QED BY <1>2, <1>3 DEF FastPath

LEMMA SlowPathKeeps == ASSUME TransportInv, NEW c \in Calls, SlowPath(c) PROVE TransportInv'
  <1>1. /\ call[c].at = "lock" /\ resolveMu = None
        /\ UNCHANGED <<resolution, bindings, states, server, owner, executed, carried, given>>
    BY DEF SlowPath, history
  <1>2. CASE FromSnapshot(c) /\ UNCHANGED resolveMu
    BY <1>1, <1>2, SnapshotKeeps
  <1>3. CASE resolution.kind = "none" /\ resolveMu' = c /\ Goto(c, "probe")
    <2>1. PICK x \in CallStates :
              /\ call' = [call EXCEPT ![c] = x] /\ x.at = "probe" /\ x.scope = call[c].scope /\ x.b = call[c].b
              /\ x.ss = call[c].ss /\ x.used = call[c].used
      BY <1>3, Going DEF CallPlaces
    <2>2. HoldsOwn(x)
      BY <2>1, UnderWay DEF HoldsOwn, Bound, Warming
    <2>3. \A d \in Calls : call[d].at # "probe"
      BY <1>1 DEF TransportInv, ProbesAlone, TransportParameters
    <2>4. RanOnce(c)' /\ ResolvedToBinding' /\ BindingKept'
      BY <1>1, UnderWay DEF RanOnce, TransportInv, ResolvedToBinding, BindingKept
    <2> QED BY <1>1, <1>3, <2>1, <2>2, <2>3, <2>4, CallMovesAlone
  <1> QED BY <1>2, <1>3 DEF SlowPath

LEMMA BindKeeps == ASSUME TransportInv, NEW c \in Calls, Bind(c) PROVE TransportInv'
  <1>1. PICK z \in CallStates : z = call[c]
    BY DEF TransportInv, TransportTypes
  <1>2. PICK row, b, x : /\ row = [era |-> EraFound, scopes |-> <<>>] /\ b = Len(bindings) + 1
                         /\ x = [z EXCEPT !.at = "bound", !.b = b]
    BY Zenon
  <1>3. row \in BindingRows /\ row.scopes = <<>> /\ bindings \in Seq(BindingRows)
    <2>1. bindings \in Seq(BindingRows) /\ EraFound \in {"legacy", "modern", Pinned}
      BY DEF EraFound, TransportInv, TransportTypes
    <2>2. <<>> \in Seq(Nat)
      OBVIOUS
    <2> QED BY <1>2, <2>1, <2>2 DEF BindingRows
  <1>4. /\ bindings' = Append(bindings, row) /\ resolveMu' = None /\ call[c].at = "probe"
        /\ UNCHANGED <<states, server, owner, executed, carried, given>>
    BY <1>2 DEF Bind, history
  <1>5. /\ bindings' \in Seq(BindingRows) /\ Len(bindings') = b /\ b \in Nat /\ b # 0
        /\ DOMAIN bindings = 1 .. (b - 1) /\ DOMAIN bindings' = 1 .. b
        /\ bindings'[b] = row /\ \A a \in DOMAIN bindings : bindings'[a] = bindings[a]
    BY <1>2, <1>3, <1>4
  <1>6. resolution' = [kind |-> "bound", b |-> b] /\ call' = [call EXCEPT ![c] = x]
    <2>1. /\ resolution' = [kind |-> "bound", b |-> Len(bindings')]
          /\ call' = [call EXCEPT ![c].at = "bound", ![c].b = Len(bindings')]
      BY DEF Bind
    <2> QED BY <1>1, <1>2, <1>5, <2>1 DEF TransportInv, TransportTypes
  <1>7. x \in CallStates /\ x.at = "bound" /\ x.scope = z.scope /\ x.ss = z.ss /\ x.used = z.used /\ x.b = b
    BY <1>2, <1>5, Rebinding
  <1>8. HoldsOwn(x)'
    <2>1. HoldsOwn(call[c])
      BY UnderWay
    <2>2. b \in DOMAIN bindings'
      BY <1>5
    <2> QED BY <1>1, <1>4, <1>7, <2>1, <2>2 DEF HoldsOwn, SessionSound, Warming
  <1>9. resolveMu = c /\ resolution.kind # "bound"
    BY <1>4 DEF TransportInv, ProbesAlone
  <1>10. ResolvedToBinding'
    BY <1>5, <1>6 DEF ResolvedToBinding
  <1>11. BindingKept'
    <2>1. \A a \in DOMAIN bindings : a \in given
      BY <1>9 DEF TransportInv, BindingKept
    <2>2. \A a \in DOMAIN bindings' : a = b \/ a \in DOMAIN bindings
      BY <1>5
    <2> QED BY <1>4, <1>6, <2>1, <2>2 DEF BindingKept
  <1>12. \A d \in Calls : d # c => call[d].at # "probe"
    BY <1>9 DEF TransportInv, ProbesAlone
  <1>13. StatesSound' /\ ScopesSound'
    <2>1. \A a \in DOMAIN bindings' : \A k \in DOMAIN bindings'[a].scopes : bindings'[a].scopes[k] \in DOMAIN states
      <3> SUFFICES ASSUME NEW a \in DOMAIN bindings', NEW k \in DOMAIN bindings'[a].scopes
                   PROVE  bindings'[a].scopes[k] \in DOMAIN states
        OBVIOUS
      <3>1. a # b
        BY <1>3, <1>5
      <3>2. a \in DOMAIN bindings
        BY <1>5, <3>1
      <3> QED BY <1>5, <3>2 DEF TransportInv, ScopesSound
    <2> QED BY <1>4, <2>1 DEF TransportInv, StatesSound, SessionSound, ScopesSound
  <1>14. /\ states' \in Seq(ScopedStates) /\ owner' \in Seq(AnyScope) /\ server'.era \in {"legacy", "modern"}
         /\ executed' \in [Calls -> Nat]
    BY <1>4 DEF TransportInv, TransportTypes
  <1>15. RanOnce(c)'
    BY <1>4, UnderWay DEF RanOnce
  <1>16. DOMAIN bindings \subseteq DOMAIN bindings' /\ \A a \in DOMAIN bindings : bindings'[a].era = bindings[a].era
    BY <1>5
  <1> QED BY <1>4, <1>5, <1>6, <1>7, <1>8, <1>10, <1>11, <1>12, <1>13, <1>14, <1>15, <1>16, CallMoves

LEMMA ProbeFailsKeeps == ASSUME TransportInv, NEW c \in Calls, ProbeFails(c) PROVE TransportInv'
  <1>1. /\ call[c].at = "probe" /\ Finish(c, FALSE)
        /\ resolution' \in {[kind |-> "failed", b |-> 0], resolution}
        /\ UNCHANGED <<bindings, states, server, owner, executed, carried, given>>
    BY DEF ProbeFails, history
  <1>2. resolveMu = c /\ resolution.kind # "bound"
    BY <1>1 DEF TransportInv, ProbesAlone
  <1>3. resolution'.kind # "bound"
    BY <1>1, <1>2
  <1>4. \A d \in Calls : d # c => call[d].at # "probe"
    BY <1>2 DEF TransportInv, ProbesAlone
  <1>5. ResolvedToBinding' /\ BindingKept'
    BY <1>1, <1>2, <1>3 DEF TransportInv, ResolvedToBinding, BindingKept
  <1> QED BY <1>1, <1>4, <1>5, Finishing

\* Nobody moves: the verdict on the server or its sessions expire.
LEMMA OutsideKeeps ==
    ASSUME TransportInv, UNCHANGED <<resolveMu, bindings, states, call, owner, executed, carried, given>>,
           server'.era \in {"legacy", "modern"},
           resolution' = resolution \/ (resolution'.kind # "bound" /\ resolution.kind # "bound")
    PROVE  TransportInv'
  <1>1. TransportParameters' /\ TransportTypes'
    BY DEF TransportInv, TransportParameters, TransportTypes
  <1>2. StatesSound' /\ CarriedSound' /\ ScopesSound'
    BY DEF TransportInv, StatesSound, CarriedSound, SessionSound, ScopesSound
  <1>3. CallsHoldOwn' /\ ProbesAlone'
    BY DEF TransportInv, CallsHoldOwn, HoldsOwn, SessionSound, ProbesAlone
  <1>4. (\A c \in Calls : RanOnce(c)') /\ ResolvedToBinding' /\ BindingKept'
    BY DEF TransportInv, RanOnce, ResolvedToBinding, BindingKept
  <1> QED BY <1>1, <1>2, <1>3, <1>4 DEF TransportInv

LEMMA OthersKeep == ASSUME TransportInv, FailureExpires \/ Forgets \/ Upgrade PROVE TransportInv'
  <1>1. server.era \in {"legacy", "modern"}
    BY DEF TransportInv, TransportTypes
  <1>2. CASE FailureExpires
    BY <1>1, <1>2, OutsideKeeps DEF FailureExpires, history, Unresolved
  <1>3. CASE Forgets
    <2>1. server'.era = server.era
      BY <1>3 DEF Forgets
    <2> QED BY <1>1, <1>3, <2>1, OutsideKeeps DEF Forgets, history
  <1>4. CASE Upgrade
    <2>1. server'.era = "modern"
      BY <1>4 DEF Upgrade
    <2> QED BY <1>4, <2>1, OutsideKeeps DEF Upgrade, history
  <1> QED BY <1>2, <1>3, <1>4

\* A state is added, or one's session and lock replaced, while the bindings stay
\* and a call moves.
LEMMA StateMoves ==
    ASSUME TransportInv, NEW c \in Calls, NEW x \in CallStates, call' = [call EXCEPT ![c] = x],
           call[c].at \notin {"ok", "error", "answered"} \/ x.at \in {"ok", "error"}
              \/ (call[c].at = "answered" /\ call[c].status \in Refusals),
           states' \in Seq(ScopedStates), DOMAIN states' = DOMAIN states,
           \A i \in DOMAIN states : states'[i].scope = states[i].scope,
           owner' \in Seq(AnyScope), DOMAIN owner \subseteq DOMAIN owner',
           \A n \in DOMAIN owner : owner'[n] = owner[n],
           server'.era \in {"legacy", "modern"}, StatesSound', HoldsOwn(x)', given \subseteq given',
           x.at # "probe", UNCHANGED <<resolution, resolveMu, bindings, executed, carried>>
    PROVE  TransportInv'
  <1>1. bindings' \in Seq(BindingRows) /\ executed' \in [Calls -> Nat]
    BY DEF TransportInv, TransportTypes
  <1>2. ScopesSound' /\ ResolvedToBinding' /\ BindingKept'
    BY DEF TransportInv, ScopesSound, ResolvedToBinding, BindingKept
  <1>3. call'[c] = x
    BY DEF TransportInv, TransportTypes
  <1>4. RanOnce(c)'
    <2>1. executed[c] = 0 \/ x.at \in {"ok", "error"}
      BY UnderWay DEF RanOnce
    <2> QED BY <1>3, <2>1, UnderWay DEF RanOnce
  <1>5. \A d \in Calls : d # c /\ call[d].at = "probe" => resolveMu' = d /\ resolution'.kind # "bound"
    BY DEF TransportInv, ProbesAlone
  <1>6. \A r \in carried' : r \in carried
    OBVIOUS
  <1> QED BY <1>1, <1>2, <1>4, <1>5, <1>6, CallMoves

\* A record of a state with another session or lock.
LEMMA SessionSet ==
    ASSUME NEW z \in ScopedStates, NEW n \in Nat
    PROVE  /\ [z EXCEPT !.sid = n] \in ScopedStates
           /\ [z EXCEPT !.sid = n].scope = z.scope /\ [z EXCEPT !.sid = n].sid = n
  BY DEF ScopedStates

LEMMA LockSet ==
    ASSUME NEW z \in ScopedStates, NEW m \in Calls \cup {None}
    PROVE  /\ [z EXCEPT !.mu = m] \in ScopedStates
           /\ [z EXCEPT !.mu = m].scope = z.scope /\ [z EXCEPT !.mu = m].sid = z.sid
  BY DEF ScopedStates

LEMMA Warmed ==
    ASSUME NEW z \in ScopedStates, NEW n \in Nat
    PROVE  /\ [z EXCEPT !.sid = n, !.warmed = TRUE, !.mu = None] \in ScopedStates
           /\ [z EXCEPT !.sid = n, !.warmed = TRUE, !.mu = None].scope = z.scope
           /\ [z EXCEPT !.sid = n, !.warmed = TRUE, !.mu = None].sid = n
  BY DEF ScopedStates

\* One state is replaced by one of the same scope, whose session is its own.
LEMMA StateReplaced ==
    ASSUME TransportInv, NEW k \in DOMAIN states, NEW y \in ScopedStates, states' = [states EXCEPT ![k] = y],
           y.scope = states[k].scope /\ SessionSound(y.sid, y.scope)',
           DOMAIN owner \subseteq DOMAIN owner', \A n \in DOMAIN owner : owner'[n] = owner[n]
    PROVE  /\ states' \in Seq(ScopedStates) /\ DOMAIN states' = DOMAIN states
           /\ \A i \in DOMAIN states : states'[i].scope = states[i].scope
           /\ StatesSound'
  <1>1. states \in Seq(ScopedStates)
    BY DEF TransportInv, TransportTypes
  <1>2. states' \in Seq(ScopedStates) /\ DOMAIN states' = DOMAIN states
    <2>1. DOMAIN states = 1 .. Len(states) /\ states \in [1 .. Len(states) -> ScopedStates] /\ Len(states) \in Nat
      BY <1>1
    <2>2. states' \in [1 .. Len(states) -> ScopedStates]
      BY <2>1
    <2> QED BY <2>1, <2>2
  <1>3. \A i \in DOMAIN states : states'[i] = IF i = k THEN y ELSE states[i]
    BY <1>1
  <1>4. StatesSound'
    <2> SUFFICES ASSUME NEW i \in DOMAIN states PROVE SessionSound(states[i].sid, states[i].scope)'
      BY <1>2 DEF StatesSound
    <2>1. CASE i = k
      BY <1>3, <2>1 DEF SessionSound
    <2>2. CASE i # k
      BY <1>3, <2>2 DEF TransportInv, StatesSound, SessionSound
    <2> QED BY <2>1, <2>2
  <1> QED BY <1>2, <1>3, <1>4

\* The state a call holds.
LEMMA HeldState ==
    ASSUME TransportInv, NEW c \in Calls, call[c].ss # 0
    PROVE  /\ call[c].ss \in DOMAIN states /\ states[call[c].ss] \in ScopedStates
           /\ states[call[c].ss].scope = call[c].scope
           /\ SessionSound(states[call[c].ss].sid, call[c].scope)
  <1>1. call[c].ss \in DOMAIN states /\ states[call[c].ss].scope = call[c].scope
    BY UnderWay DEF HoldsOwn
  <1>2. states \in Seq(ScopedStates)
    BY DEF TransportInv, TransportTypes
  <1> QED BY <1>1, <1>2 DEF TransportInv, StatesSound

LEMMA ModernCallKeeps == ASSUME TransportInv, NEW c \in Calls, ModernCall(c) PROVE TransportInv'
  <1>1. /\ call[c].at = "bound" /\ Goto(c, "send") /\ bindings[call[c].b].era = "modern"
        /\ UNCHANGED <<resolution, resolveMu, bindings, states, server, owner, executed, carried, given>>
    BY DEF ModernCall, history
  <1>2. PICK x \in CallStates :
            /\ call' = [call EXCEPT ![c] = x] /\ x.at = "send" /\ x.scope = call[c].scope /\ x.b = call[c].b
            /\ x.ss = call[c].ss /\ x.used = call[c].used
    BY <1>1, Going DEF CallPlaces, Bound
  <1>3. HoldsOwn(x)
    BY <1>1, <1>2, UnderWay DEF HoldsOwn, Bound, Warming
  <1> QED BY <1>1, <1>2, <1>3, Advancing

\* A call goes on with the state it holds, whose session or lock it replaces.
LEMMA HeldMoves ==
    ASSUME TransportInv, NEW c \in Calls, NEW x \in CallStates, call' = [call EXCEPT ![c] = x],
           call[c].at \in Bound, call[c].ss # 0, call[c].at # "answered",
           x.scope = call[c].scope, x.ss = call[c].ss, x.used = call[c].used, x.b = call[c].b,
           x.at \in Bound, x.at = "invalidate" => x.b \in given',
           NEW y \in ScopedStates, states' = [states EXCEPT ![call[c].ss] = y],
           y.scope = call[c].scope, SessionSound(y.sid, y.scope)',
           owner' \in Seq(AnyScope), DOMAIN owner \subseteq DOMAIN owner',
           \A n \in DOMAIN owner : owner'[n] = owner[n],
           server'.era \in {"legacy", "modern"}, given \subseteq given',
           UNCHANGED <<resolution, resolveMu, bindings, executed, carried>>
    PROVE  TransportInv'
  <1>1. PICK k \in DOMAIN states : k = call[c].ss
    BY HeldState
  <1>2. states[k].scope = call[c].scope
    BY <1>1, HeldState
  <1>3. /\ states' \in Seq(ScopedStates) /\ DOMAIN states' = DOMAIN states
        /\ \A i \in DOMAIN states : states'[i].scope = states[i].scope
        /\ StatesSound'
    BY <1>1, <1>2, StateReplaced
  <1>4. HoldsOwn(x)'
    <2>1. HoldsOwn(call[c])
      BY UnderWay
    <2>2. SessionSound(x.used, x.scope)'
      BY <2>1 DEF HoldsOwn, SessionSound
    <2>3. x.ss \in DOMAIN states' /\ states'[x.ss].scope = x.scope
      BY <1>1, <1>2, <1>3
    <2>4. x.b \in DOMAIN bindings'
      BY <2>1 DEF HoldsOwn
    <2> QED BY <2>2, <2>3, <2>4 DEF HoldsOwn, Bound
  <1>5. x.at # "probe" /\ call[c].at \notin {"ok", "error", "answered"}
    BY DEF Bound
  <1> QED BY <1>3, <1>4, <1>5, StateMoves

LEMMA ensureWarmKeeps == ASSUME TransportInv, NEW c \in Calls, ensureWarm(c) PROVE TransportInv'
  <1>1. /\ call[c].at = "warm"
        /\ UNCHANGED <<resolution, resolveMu, bindings, server, owner, executed, carried, given>>
    BY DEF ensureWarm, history
  <1>2. CASE Goto(c, "send") /\ UNCHANGED states
    <2>1. PICK x \in CallStates :
              /\ call' = [call EXCEPT ![c] = x] /\ x.at = "send" /\ x.scope = call[c].scope /\ x.b = call[c].b
              /\ x.ss = call[c].ss /\ x.used = call[c].used
      BY <1>2, Going DEF CallPlaces, Bound
    <2>2. HoldsOwn(x)
      BY <1>1, <2>1, UnderWay DEF HoldsOwn, Bound, Warming
    <2> QED BY <1>1, <1>2, <2>1, <2>2, Advancing
  <1>3. CASE states' = [states EXCEPT ![call[c].ss].mu = c] /\ Goto(c, "warmup")
    <2>1. PICK x \in CallStates :
              /\ call' = [call EXCEPT ![c] = x] /\ x.at = "warmup" /\ x.scope = call[c].scope /\ x.b = call[c].b
              /\ x.ss = call[c].ss /\ x.used = call[c].used
      BY <1>3, Going DEF CallPlaces, Bound
    <2>2. call[c].ss # 0 /\ call[c].at \in Bound /\ x.at \in Bound
      BY <1>1, <2>1, UnderWay DEF HoldsOwn, Warming, Bound
    <2>3. PICK z \in ScopedStates : z = states[call[c].ss]
      BY <2>2, HeldState
    <2>4. PICK y : y = [z EXCEPT !.mu = c]
      BY Zenon
    <2>5. y \in ScopedStates /\ y.scope = z.scope /\ y.sid = z.sid
      BY <2>4, LockSet
    <2>6. states' = [states EXCEPT ![call[c].ss] = y]
      BY <1>3, <2>2, <2>3, <2>4, HeldState
    <2>7. y.scope = call[c].scope /\ SessionSound(y.sid, y.scope)'
      BY <1>1, <2>2, <2>3, <2>5, HeldState DEF SessionSound
    <2>8. owner' \in Seq(AnyScope) /\ server'.era \in {"legacy", "modern"}
      BY <1>1 DEF TransportInv, TransportTypes
    <2> QED BY <1>1, <2>1, <2>2, <2>5, <2>6, <2>7, <2>8, HeldMoves
  <1> QED BY <1>2, <1>3 DEF ensureWarm

LEMMA WarmupKeeps == ASSUME TransportInv, NEW c \in Calls, Warmup(c) PROVE TransportInv'
  <1>1. /\ call[c].at \in {"warmup", "rewarm"} /\ Goto(c, "send") /\ owner' = Append(owner, call[c].scope)
        /\ server' = [server EXCEPT !.alive = @ \cup {Len(owner')}]
        /\ states' = [states EXCEPT ![call[c].ss].sid = Len(owner'), ![call[c].ss].warmed = TRUE,
                                    ![call[c].ss].mu = None]
        /\ UNCHANGED <<resolution, resolveMu, bindings, executed, carried, given>>
    BY DEF Warmup
  <1>2. PICK x \in CallStates :
            /\ call' = [call EXCEPT ![c] = x] /\ x.at = "send" /\ x.scope = call[c].scope /\ x.b = call[c].b
            /\ x.ss = call[c].ss /\ x.used = call[c].used
    BY <1>1, Going DEF CallPlaces, Bound
  <1>3. call[c].ss # 0 /\ call[c].at \in Bound /\ x.at \in Bound
    BY <1>1, <1>2, UnderWay DEF HoldsOwn, Warming, Bound
  <1>4. owner \in Seq(AnyScope) /\ call[c].scope \in AnyScope
    BY UnderWay DEF TransportInv, TransportTypes, CallStates
  <1>5. PICK n : n = Len(owner) + 1
    BY Zenon
  <1>6. /\ owner' \in Seq(AnyScope) /\ Len(owner') = n /\ n \in Nat /\ n # 0 /\ n \in DOMAIN owner'
        /\ owner'[n] = call[c].scope /\ DOMAIN owner \subseteq DOMAIN owner'
        /\ \A m \in DOMAIN owner : owner'[m] = owner[m]
    BY <1>1, <1>4, <1>5
  <1>7. PICK z \in ScopedStates : z = states[call[c].ss]
    BY <1>3, HeldState
  <1>8. PICK y : y = [z EXCEPT !.sid = n, !.warmed = TRUE, !.mu = None]
    BY Zenon
  <1>9. y \in ScopedStates /\ y.scope = z.scope /\ y.sid = n
    BY <1>6, <1>8, Warmed
  <1>10. states' = [states EXCEPT ![call[c].ss] = y]
    BY <1>1, <1>3, <1>6, <1>7, <1>8, HeldState
  <1>11. y.scope = call[c].scope
    BY <1>3, <1>7, <1>9, HeldState
  <1>12. SessionSound(y.sid, y.scope)'
    BY <1>6, <1>9, <1>11 DEF SessionSound
  <1>13. server'.era \in {"legacy", "modern"}
    BY <1>1 DEF TransportInv, TransportTypes
  <1> QED BY <1>1, <1>2, <1>3, <1>6, <1>9, <1>10, <1>11, <1>12, <1>13, HeldMoves

\* A call ends, and leaves the state it held to the next.
LEMMA HeldEnds ==
    ASSUME TransportInv, NEW c \in Calls, NEW ok \in BOOLEAN, Finish(c, ok), call[c].ss # 0,
           NEW y \in ScopedStates, states' = [states EXCEPT ![call[c].ss] = y],
           y.scope = call[c].scope, SessionSound(y.sid, y.scope),
           UNCHANGED <<resolution, resolveMu, bindings, server, owner, executed, carried, given>>
    PROVE  TransportInv'
  <1>1. PICK k \in DOMAIN states : k = call[c].ss
    BY HeldState
  <1>2. states[k].scope = call[c].scope /\ SessionSound(y.sid, y.scope)'
    BY <1>1, HeldState DEF SessionSound
  <1>3. /\ states' \in Seq(ScopedStates) /\ DOMAIN states' = DOMAIN states
        /\ \A i \in DOMAIN states : states'[i].scope = states[i].scope
        /\ StatesSound'
    BY <1>1, <1>2, StateReplaced
  <1>4. PICK n, x : n = (IF ok THEN "ok" ELSE "error") /\ x = [NoCall EXCEPT !.at = n]
    BY Zenon
  <1>5. x \in CallStates /\ x.at = n /\ x.ss = 0 /\ x.used = 0 /\ n \in {"ok", "error"}
    BY <1>4, NoCallIs
  <1>6. call' = [call EXCEPT ![c] = x]
    BY <1>4 DEF Finish
  <1>7. HoldsOwn(x)'
    BY <1>5 DEF HoldsOwn, SessionSound, Bound, Warming
  <1>8. owner' \in Seq(AnyScope) /\ server'.era \in {"legacy", "modern"}
    BY DEF TransportInv, TransportTypes
  <1> QED BY <1>3, <1>5, <1>6, <1>7, <1>8, StateMoves

LEMMA WarmupFailsKeeps == ASSUME TransportInv, NEW c \in Calls, WarmupFails(c) PROVE TransportInv'
  <1>1. /\ call[c].at \in {"warmup", "rewarm"} /\ states' = [states EXCEPT ![call[c].ss].mu = None]
        /\ UNCHANGED <<resolution, resolveMu, bindings, server, owner, executed, carried>>
    BY DEF WarmupFails
  <1>2. call[c].ss # 0 /\ call[c].at \in Bound
    BY <1>1, UnderWay DEF HoldsOwn, Warming, Bound
  <1>3. PICK z \in ScopedStates : z = states[call[c].ss]
    BY <1>2, HeldState
  <1>4. PICK y : y = [z EXCEPT !.mu = None]
    BY Zenon
  <1>5. y \in ScopedStates /\ y.scope = z.scope /\ y.sid = z.sid
    BY <1>4, LockSet
  <1>6. states' = [states EXCEPT ![call[c].ss] = y]
    BY <1>1, <1>2, <1>3, <1>4, HeldState
  <1>7. y.scope = call[c].scope /\ SessionSound(y.sid, y.scope) /\ SessionSound(y.sid, y.scope)'
    BY <1>1, <1>2, <1>3, <1>5, HeldState DEF SessionSound
  <1>8. CASE Finish(c, FALSE) /\ UNCHANGED given
    BY <1>1, <1>2, <1>5, <1>6, <1>7, <1>8, HeldEnds
  <1>9. CASE Goto(c, "invalidate") /\ given' = given \cup {call[c].b}
    <2>1. PICK x \in CallStates :
              /\ call' = [call EXCEPT ![c] = x] /\ x.at = "invalidate" /\ x.scope = call[c].scope
              /\ x.b = call[c].b /\ x.ss = call[c].ss /\ x.used = call[c].used
      BY <1>9, Going DEF CallPlaces, Bound
    <2>2. x.b \in given' /\ given \subseteq given' /\ x.at \in Bound
      BY <1>9, <2>1 DEF Bound
    <2>3. owner' \in Seq(AnyScope) /\ server'.era \in {"legacy", "modern"}
      BY <1>1 DEF TransportInv, TransportTypes
    <2> QED BY <1>1, <1>2, <1>5, <1>6, <1>7, <2>1, <2>2, <2>3, HeldMoves
  <1> QED BY <1>8, <1>9 DEF WarmupFails
LEMMA SendKeeps == ASSUME TransportInv, NEW c \in Calls, Send(c) PROVE TransportInv'
  <1>1. /\ call[c].at = "send" /\ call' = [call EXCEPT ![c].at = "sent", ![c].used = Session(c)]
        /\ carried' = carried \cup {<<call[c].scope, Session(c)>>}
        /\ UNCHANGED <<resolution, resolveMu, bindings, states, server, owner, executed, given>>
    BY DEF Send
  <1>2. HoldsOwn(call[c]) /\ RanOnce(c) /\ executed[c] = 0
    BY <1>1, UnderWay
  <1>3. PICK z \in CallStates : z = call[c]
    BY UnderWay
  <1>4. PICK n : n = Session(c)
    BY Zenon
  <1>5. n \in Nat /\ SessionSound(n, z.scope)
    <2>1. CASE call[c].ss = 0
      BY <1>4, <2>1 DEF Session, SessionSound
    <2>2. CASE call[c].ss # 0
      BY <1>3, <1>4, <2>2, HeldState DEF Session, ScopedStates
    <2> QED BY <2>1, <2>2
  <1>6. PICK p \in CallPlaces : p = "sent"
    BY DEF CallPlaces, Bound
  <1>7. PICK x : x = [z EXCEPT !.at = p, !.used = n]
    BY Zenon
  <1>8. call' = [call EXCEPT ![c] = x]
    BY <1>6, <1>1, <1>3, <1>4, <1>7 DEF TransportInv, TransportTypes
  <1>9. /\ x \in CallStates /\ x.at = "sent" /\ x.scope = z.scope /\ x.used = n /\ x.ss = z.ss /\ x.b = z.b
    BY ONLY <1>6, <1>5, <1>7, z \in CallStates, p \in CallPlaces DEF CallStates
  <1>10. HoldsOwn(x)'
    <2>1. HoldsOwn(x)
      BY <1>1, <1>2, <1>3, <1>5, <1>9 DEF HoldsOwn, Bound, Warming
    <2> QED BY <1>1, <2>1 DEF HoldsOwn, SessionSound
  <1>11. \A r \in carried' : r \in carried \/ (r[2] \in Nat /\ SessionSound(r[2], r[1]))
    <2>1. <<call[c].scope, Session(c)>> = <<z.scope, n>>
      BY <1>3, <1>4
    <2> QED BY <1>1, <1>5, <2>1
  <1>12. RanOnce(c)' /\ ResolvedToBinding' /\ BindingKept'
    BY <1>1, <1>2 DEF RanOnce, TransportInv, ResolvedToBinding, BindingKept
  <1>13. StatesSound' /\ ScopesSound'
    BY <1>1 DEF TransportInv, StatesSound, SessionSound, ScopesSound
  <1>14. \A d \in Calls : d # c /\ call[d].at = "probe" => resolveMu' = d /\ resolution'.kind # "bound"
    BY <1>1 DEF TransportInv, ProbesAlone
  <1>15. bindings' \in Seq(BindingRows) /\ states' \in Seq(ScopedStates) /\ owner' \in Seq(AnyScope)
    BY <1>1 DEF TransportInv, TransportTypes
  <1>16. server'.era \in {"legacy", "modern"} /\ executed' \in [Calls -> Nat]
    BY <1>1 DEF TransportInv, TransportTypes
  <1> QED BY <1>1, <1>8, <1>9, <1>10, <1>11, <1>12, <1>13, <1>14, <1>15, <1>16, CallMoves

\* The server runs a call that it accepts, once: a call that it ran is not sent again.
LEMMA ServeKeeps == ASSUME TransportInv, NEW c \in Calls, Serve(c) PROVE TransportInv'
  <1>1. /\ call[c].at = "sent"
        /\ UNCHANGED <<resolution, resolveMu, bindings, states, server, owner, carried, given>>
    BY DEF Serve
  <1>2. HoldsOwn(call[c]) /\ executed[c] = 0
    BY <1>1, UnderWay
  <1>3. PICK z \in CallStates : z = call[c]
    BY UnderWay
  <1>4. \E s \in Statuses :
            /\ call' = [call EXCEPT ![c].at = "answered", ![c].status = s]
            /\ \/ executed' = executed
               \/ executed' = [executed EXCEPT ![c] = @ + 1] /\ s \notin Refusals
    BY DEF Serve, Statuses, Refusals
  <1>5. PICK s \in Statuses :
            /\ call' = [call EXCEPT ![c].at = "answered", ![c].status = s]
            /\ \/ executed' = executed
               \/ executed' = [executed EXCEPT ![c] = @ + 1] /\ s \notin Refusals
    BY <1>4
  <1>6. PICK p \in CallPlaces : p = "answered"
    BY DEF CallPlaces, Bound
  <1>7. PICK x : x = [z EXCEPT !.at = p, !.status = s]
    BY Zenon
  <1>8. call' = [call EXCEPT ![c] = x] /\ call'[c] = x
    BY <1>6, <1>3, <1>5, <1>7 DEF TransportInv, TransportTypes
  <1>9. /\ x \in CallStates /\ x.at = "answered" /\ x.status = s /\ x.scope = z.scope /\ x.used = z.used
        /\ x.ss = z.ss /\ x.b = z.b
    BY ONLY <1>6, <1>7, z \in CallStates, p \in CallPlaces, s \in Statuses DEF CallStates
  <1>10. HoldsOwn(x)'
    <2>1. HoldsOwn(x)
      BY <1>1, <1>2, <1>3, <1>9 DEF HoldsOwn, Bound, Warming
    <2> QED BY <1>1, <2>1 DEF HoldsOwn, SessionSound
  <1>11. executed \in [Calls -> Nat]
    BY DEF TransportInv, TransportTypes
  <1>12. /\ executed' \in [Calls -> Nat] /\ \A d \in Calls : d # c => executed'[d] = executed[d]
         /\ executed'[c] <= 1 /\ (executed'[c] # 0 => s \notin Refusals)
    BY <1>2, <1>5, <1>11
  <1>13. RanOnce(c)' /\ ResolvedToBinding' /\ BindingKept'
    BY <1>1, <1>8, <1>9, <1>12 DEF RanOnce, TransportInv, ResolvedToBinding, BindingKept
  <1>14. StatesSound' /\ ScopesSound'
    BY <1>1 DEF TransportInv, StatesSound, SessionSound, ScopesSound
  <1>15. \A d \in Calls : d # c /\ call[d].at = "probe" => resolveMu' = d /\ resolution'.kind # "bound"
    BY <1>1 DEF TransportInv, ProbesAlone
  <1>16. bindings' \in Seq(BindingRows) /\ states' \in Seq(ScopedStates) /\ owner' \in Seq(AnyScope)
    BY <1>1 DEF TransportInv, TransportTypes
  <1>17. server'.era \in {"legacy", "modern"}
    BY <1>1 DEF TransportInv, TransportTypes
  <1> QED BY <1>1, <1>8, <1>9, <1>10, <1>12, <1>13, <1>14, <1>15, <1>16, <1>17, CallMoves

LEMMA ExchangeFailsKeeps == ASSUME TransportInv, NEW c \in Calls, ExchangeFails(c) PROVE TransportInv'
  <1>1. /\ ResolvedToBinding' /\ BindingKept'
        /\ \A d \in Calls : d # c /\ call[d].at = "probe" => resolveMu' = d /\ resolution'.kind # "bound"
    BY DEF ExchangeFails, history, TransportInv, ResolvedToBinding, BindingKept, ProbesAlone
  <1> QED BY <1>1, Finishing DEF ExchangeFails, history

\* Only a refused call is tried again, so no call is that the server ran.
LEMMA ReceiveKeeps == ASSUME TransportInv, NEW c \in Calls, Receive(c) PROVE TransportInv'
  <1>1. /\ call[c].at = "answered"
        /\ UNCHANGED <<resolution, resolveMu, bindings, server, owner, executed, carried, given>>
    BY DEF Receive, history
  <1>2. HoldsOwn(call[c]) /\ RanOnce(c)
    BY UnderWay
  <1>3. PICK z \in CallStates : z = call[c]
    BY UnderWay
  <1>4. CASE /\ call' = [call EXCEPT ![c].at = "expired", ![c].retried = TRUE]
             /\ bindings[z.b].era = "legacy" /\ z.status = 404 /\ UNCHANGED states
    <2>1. PICK x : x = [z EXCEPT !.at = "expired", !.retried = TRUE]
      BY Zenon
    <2>2. call' = [call EXCEPT ![c] = x]
      BY <1>3, <1>4, <2>1 DEF TransportInv, TransportTypes
    <2>3. x \in CallStates /\ x.at = "expired" /\ x.scope = z.scope /\ x.used = z.used /\ x.ss = z.ss /\ x.b = z.b
      <3>1. "expired" \in CallPlaces
        BY DEF CallPlaces, Bound
      <3> QED BY <2>1, <3>1 DEF CallStates
    <2>4. HoldsOwn(x)
      BY <1>1, <1>2, <1>3, <1>4, <2>3 DEF HoldsOwn, Bound, Warming
    <2>5. executed[c] = 0
      BY <1>1, <1>2, <1>3, <1>4, UnderWay DEF RanOnce, Refusals
    <2>6. RanOnce(c)' /\ ResolvedToBinding' /\ BindingKept'
      BY <1>1, <2>5 DEF RanOnce, TransportInv, ResolvedToBinding, BindingKept
    <2>7. \A d \in Calls : d # c /\ call[d].at = "probe" => resolveMu' = d /\ resolution'.kind # "bound"
      BY <1>1 DEF TransportInv, ProbesAlone
    <2> QED BY <1>1, <1>4, <2>2, <2>3, <2>4, <2>6, <2>7, CallMovesAlone
  <1>5. CASE (\E ok \in BOOLEAN : Finish(c, ok)) /\ UNCHANGED states
    <2>1. /\ ResolvedToBinding' /\ BindingKept'
          /\ \A d \in Calls : d # c /\ call[d].at = "probe" => resolveMu' = d /\ resolution'.kind # "bound"
      BY <1>1 DEF TransportInv, ResolvedToBinding, BindingKept, ProbesAlone
    <2> QED BY <1>1, <1>5, <2>1, Finishing
  <1>6. CASE /\ \E ok \in BOOLEAN : Finish(c, ok)
             /\ call[c].ss # 0 /\ states' = [states EXCEPT ![call[c].ss].sid = call[c].used]
    <2>1. PICK y \in ScopedStates : y = states[call[c].ss]
      BY <1>6, HeldState
    <2>2. PICK n \in Nat : n = z.used
      BY DEF CallStates
    <2>3. PICK w : w = [y EXCEPT !.sid = n]
      BY Zenon
    <2>4. w \in ScopedStates /\ w.scope = y.scope /\ w.sid = n
      BY <2>3, SessionSet
    <2>5. states' = [states EXCEPT ![call[c].ss] = w]
      BY <1>3, <1>6, <2>1, <2>2, <2>3, HeldState
    <2>6. w.scope = call[c].scope /\ SessionSound(w.sid, w.scope)
      BY <1>2, <1>3, <1>6, <2>1, <2>2, <2>4, HeldState DEF HoldsOwn
    <2> QED BY <1>1, <1>6, <2>4, <2>5, <2>6, HeldEnds
  <1>7. \/ Expired(c) /\ call' = [call EXCEPT ![c].at = "expired", ![c].retried = TRUE]
        \/ \E ok \in BOOLEAN : Finish(c, ok)
    BY DEF Receive
  <1>8. \/ UNCHANGED states
        \/ /\ call[c].ss # 0 /\ call[c].status \in {200, 500}
           /\ states' = [states EXCEPT ![call[c].ss].sid = call[c].used]
    BY DEF Receive
  <1> QED BY <1>3, <1>4, <1>5, <1>6, <1>7, <1>8 DEF Expired

LEMMA reinitAndRetryKeeps == ASSUME TransportInv, NEW c \in Calls, reinitAndRetry(c) PROVE TransportInv'
  <1>1. /\ call[c].at = "expired"
        /\ UNCHANGED <<resolution, resolveMu, bindings, server, owner, executed, carried, given>>
    BY DEF reinitAndRetry, history
  <1>2. CASE Goto(c, "send") /\ UNCHANGED states
    <2>1. PICK x \in CallStates :
              /\ call' = [call EXCEPT ![c] = x] /\ x.at = "send" /\ x.scope = call[c].scope /\ x.b = call[c].b
              /\ x.ss = call[c].ss /\ x.used = call[c].used
      BY <1>2, Going DEF CallPlaces, Bound
    <2>2. HoldsOwn(x)
      BY <1>1, <2>1, UnderWay DEF HoldsOwn, Bound, Warming
    <2> QED BY <1>1, <1>2, <2>1, <2>2, Advancing
  <1>3. CASE states' = [states EXCEPT ![call[c].ss].sid = 0, ![call[c].ss].mu = c] /\ Goto(c, "rewarm")
    <2>1. PICK x \in CallStates :
              /\ call' = [call EXCEPT ![c] = x] /\ x.at = "rewarm" /\ x.scope = call[c].scope /\ x.b = call[c].b
              /\ x.ss = call[c].ss /\ x.used = call[c].used
      BY <1>3, Going DEF CallPlaces, Bound
    <2>2. call[c].ss # 0 /\ call[c].at \in Bound /\ x.at \in Bound
      BY <1>1, <2>1, UnderWay DEF HoldsOwn, Warming, Bound
    <2>3. PICK z \in ScopedStates : z = states[call[c].ss]
      BY <2>2, HeldState
    <2>4. PICK o \in Nat : o = 0
      OBVIOUS
    <2>5. PICK m \in Calls \cup {None} : m = c
      BY Zenon
    <2>6. PICK y : y = [z EXCEPT !.sid = o, !.mu = m]
      BY Zenon
    <2>7. y \in ScopedStates /\ y.scope = z.scope /\ y.sid = 0
      BY ONLY <2>6, <2>4, z \in ScopedStates, m \in Calls \cup {None}, o \in Nat DEF ScopedStates
    <2>8. states' = [states EXCEPT ![call[c].ss] = y]
      BY <1>3, <2>2, <2>3, <2>6, <2>4, <2>5, HeldState
    <2>9. y.scope = call[c].scope /\ SessionSound(y.sid, y.scope)'
      BY <2>2, <2>3, <2>7, HeldState DEF SessionSound
    <2>10. owner' \in Seq(AnyScope) /\ server'.era \in {"legacy", "modern"}
      BY <1>1 DEF TransportInv, TransportTypes
    <2> QED BY <1>1, <2>1, <2>2, <2>7, <2>8, <2>9, <2>10, HeldMoves
  <1> QED BY <1>2, <1>3 DEF reinitAndRetry

\* Only the binding that failed is given up.
LEMMA invalidateBindingKeeps ==
    ASSUME TransportInv, NEW c \in Calls, invalidateBinding(c) PROVE TransportInv'
  <1>1. /\ call[c].at = "invalidate" /\ Finish(c, FALSE) /\ resolution' = Cleared(call[c].b)
        /\ UNCHANGED <<resolveMu, bindings, states, server, owner, executed, carried, given>>
    BY DEF invalidateBinding, history
  <1>2. call[c].b \in given
    BY <1>1, UnderWay DEF HoldsOwn
  <1>3. \/ resolution' = resolution
        \/ resolution.kind = "bound" /\ resolution.b = call[c].b /\ resolution'.kind # "bound"
    BY <1>1 DEF Cleared, Unresolved
  <1>4. ResolvedToBinding'
    BY <1>1, <1>3 DEF TransportInv, ResolvedToBinding
  <1>5. BindingKept'
    BY <1>1, <1>2, <1>3 DEF TransportInv, BindingKept
  <1>6. \A d \in Calls : d # c /\ call[d].at = "probe" => resolveMu' = d /\ resolution'.kind # "bound"
    BY <1>1, <1>3 DEF TransportInv, ProbesAlone
  <1> QED BY <1>1, <1>4, <1>5, <1>6, Finishing
LEMMA ScopesReplaced ==
    ASSUME TransportInv, NEW b \in DOMAIN bindings, NEW t \in Seq(Nat),
           bindings' = [bindings EXCEPT ![b].scopes = t], DOMAIN states \subseteq DOMAIN states',
           \A k \in DOMAIN t : t[k] \in DOMAIN states'
    PROVE  /\ bindings' \in Seq(BindingRows) /\ DOMAIN bindings' = DOMAIN bindings
           /\ \A a \in DOMAIN bindings : bindings'[a].era = bindings[a].era
           /\ ScopesSound'
  <1>1. bindings \in Seq(BindingRows)
    BY DEF TransportInv, TransportTypes
  <1>2. PICK z \in BindingRows : z = bindings[b]
    BY <1>1
  <1>3. PICK y : y = [z EXCEPT !.scopes = t]
    BY Zenon
  <1>4. y \in BindingRows /\ y.era = z.era /\ y.scopes = t
    BY <1>3 DEF BindingRows
  <1>5. bindings' = [bindings EXCEPT ![b] = y]
    BY <1>2, <1>3
  <1>6. DOMAIN bindings = 1 .. Len(bindings) /\ bindings \in [1 .. Len(bindings) -> BindingRows] /\ Len(bindings) \in Nat
    BY <1>1
  <1>7. bindings' \in [1 .. Len(bindings) -> BindingRows]
    BY <1>4, <1>5, <1>6
  <1>8. bindings' \in Seq(BindingRows) /\ DOMAIN bindings' = DOMAIN bindings
    BY <1>6, <1>7
  <1>9. \A a \in DOMAIN bindings : bindings'[a] = IF a = b THEN y ELSE bindings[a]
    BY <1>5
  <1>10. ScopesSound'
    <2> SUFFICES ASSUME NEW a \in DOMAIN bindings, NEW k \in DOMAIN bindings'[a].scopes
                 PROVE  bindings'[a].scopes[k] \in DOMAIN states'
      BY <1>8 DEF ScopesSound
    <2>1. CASE a = b
      BY <1>4, <1>9, <2>1
    <2>2. CASE a # b
      BY <1>9, <2>2 DEF TransportInv, ScopesSound
    <2> QED BY <2>1, <2>2
  <1> QED BY <1>2, <1>4, <1>8, <1>9, <1>10

LEMMA SeqOfSome ==
    ASSUME NEW D \in SUBSET Nat, NEW w \in Seq(D)
    PROVE  w \in Seq(Nat) /\ \A k \in DOMAIN w : w[k] \in D
  <1>1. w \in [1 .. Len(w) -> D] /\ Len(w) \in Nat
    OBVIOUS
  <1>2. w \in [1 .. Len(w) -> Nat]
    BY <1>1
  <1> QED BY <1>1, <1>2

\* The list of a binding without its entry i, or with its last one pushed out.
LEMMA WithoutIs ==
    ASSUME NEW t \in Seq(Nat), NEW i \in DOMAIN t, NEW D \in SUBSET Nat, \A k \in DOMAIN t : t[k] \in D
    PROVE  Without(t, i) \in Seq(Nat) /\ \A k \in DOMAIN Without(t, i) : Without(t, i)[k] \in D
  <1>1. PICK l, r : l = SubSeq(t, 1, i - 1) /\ r = SubSeq(t, i + 1, Len(t))
    BY Zenon
  <1>2. i \in 1 .. Len(t) /\ Len(t) \in Nat /\ i \in Nat /\ DOMAIN t = 1 .. Len(t)
    OBVIOUS
  <1>3. \A k \in 1 .. Len(t) : t[k] \in D
    BY <1>2
  <1>4. l \in Seq(D)
    BY <1>1, <1>2, <1>3, SubSeqProperties
  <1>5. r \in Seq(D)
    BY <1>1, <1>2, <1>3, SubSeqProperties
  <1>6. l \o r \in Seq(D)
    BY <1>4, <1>5
  <1>7. PICK w : w = l \o r
    BY Zenon
  <1>8. w \in Seq(Nat) /\ \A k \in DOMAIN w : w[k] \in D
    BY <1>6, <1>7, SeqOfSome
  <1> QED BY <1>1, <1>7, <1>8 DEF Without

LEMMA MakeRoomIs ==
    ASSUME NEW t \in Seq(Nat), NEW D \in SUBSET Nat, \A k \in DOMAIN t : t[k] \in D, TransportParameters
    PROVE  MakeRoom(t) \in Seq(Nat) /\ \A k \in DOMAIN MakeRoom(t) : MakeRoom(t)[k] \in D
  <1>1. CASE Len(t) >= maxScopesPerBinding
    <2>1. Len(t) \in Nat \ {0} /\ DOMAIN t = 1 .. Len(t)
      BY <1>1 DEF TransportParameters
    <2>2. PICK r : r = SubSeq(t, 1, Len(t) - 1)
      BY Zenon
    <2>3. \A k \in 1 .. (Len(t) - 1) : t[k] \in D
      BY <2>1
    <2>4. r \in Seq(D)
      BY <2>1, <2>2, <2>3, SubSeqProperties
    <2>5. r \in Seq(Nat) /\ \A k \in DOMAIN r : r[k] \in D
      BY <2>4, SeqOfSome
    <2> QED BY <1>1, <2>2, <2>5 DEF MakeRoom
  <1>2. CASE ~(Len(t) >= maxScopesPerBinding)
    BY <1>2 DEF MakeRoom
  <1> QED BY <1>1, <1>2

LEMMA InFront ==
    ASSUME NEW t \in Seq(Nat), NEW n \in Nat, NEW D, n \in D, \A k \in DOMAIN t : t[k] \in D
    PROVE  <<n>> \o t \in Seq(Nat) /\ \A k \in DOMAIN (<<n>> \o t) : (<<n>> \o t)[k] \in D
  <1>1. <<n>> \in Seq(Nat) /\ Len(<<n>>) = 1 /\ <<n>>[1] = n
    OBVIOUS
  <1>2. PICK u : u = <<n>>
    BY Zenon
  <1>3. \A k \in DOMAIN u : u[k] \in D
    BY <1>1, <1>2
  <1> QED BY <1>1, <1>2, <1>3

\* A call takes state n of its scope, which comes to the front of its binding.
LEMMA StateTaken ==
    ASSUME TransportInv, NEW c \in Calls, call[c].at = "bound", NEW n \in Nat, NEW t \in Seq(Nat),
           call' = [call EXCEPT ![c].at = "warm", ![c].ss = n],
           bindings' = [bindings EXCEPT ![call[c].b].scopes = t], \A k \in DOMAIN t : t[k] \in DOMAIN states',
           states' \in Seq(ScopedStates), DOMAIN states \subseteq DOMAIN states',
           \A i \in DOMAIN states : states'[i].scope = states[i].scope, StatesSound',
           n \in DOMAIN states', states'[n].scope = call[c].scope, n # 0,
           UNCHANGED <<resolution, resolveMu, server, owner, executed, carried, given>>
    PROVE  TransportInv'
  <1>1. PICK p \in CallPlaces : p = "warm"
    BY DEF CallPlaces, Bound
  <1>2. PICK z \in CallStates : z = call[c]
    BY UnderWay
  <1>3. PICK x : x = [z EXCEPT !.at = p, !.ss = n]
    BY Zenon
  <1>4. call' = [call EXCEPT ![c] = x]
    BY <1>1, <1>2, <1>3 DEF TransportInv, TransportTypes
  <1>5. x \in CallStates /\ x.at = "warm" /\ x.scope = z.scope /\ x.b = z.b /\ x.ss = n /\ x.used = z.used
    BY ONLY <1>1, <1>3, z \in CallStates, p \in CallPlaces, n \in Nat DEF CallStates
  <1>6. HoldsOwn(call[c]) /\ RanOnce(c) /\ executed[c] = 0
    BY UnderWay
  <1>7. PICK b \in DOMAIN bindings : b = z.b
    BY <1>2, <1>6 DEF HoldsOwn, Bound
  <1>8. /\ bindings' \in Seq(BindingRows) /\ DOMAIN bindings' = DOMAIN bindings
        /\ \A a \in DOMAIN bindings : bindings'[a].era = bindings[a].era
        /\ ScopesSound'
    BY <1>2, <1>7, ScopesReplaced
  <1>9. HoldsOwn(x)'
    <2>1. SessionSound(x.used, x.scope)'
      BY <1>2, <1>5, <1>6 DEF HoldsOwn, SessionSound
    <2>2. x.b \in DOMAIN bindings'
      BY <1>5, <1>7, <1>8
    <2> QED BY <1>2, <1>5, <2>1, <2>2 DEF HoldsOwn
  <1>10. RanOnce(c)' /\ ResolvedToBinding' /\ BindingKept'
    BY <1>6, <1>8 DEF RanOnce, TransportInv, ResolvedToBinding, BindingKept
  <1>11. \A d \in Calls : d # c /\ call[d].at = "probe" => resolveMu' = d /\ resolution'.kind # "bound"
    BY DEF TransportInv, ProbesAlone
  <1>12. owner' \in Seq(AnyScope) /\ server'.era \in {"legacy", "modern"} /\ executed' \in [Calls -> Nat]
    BY DEF TransportInv, TransportTypes
  <1> QED BY <1>4, <1>5, <1>8, <1>9, <1>10, <1>11, <1>12, CallMoves

LEMMA stateForKeeps == ASSUME TransportInv, NEW c \in Calls, stateFor(c) PROVE TransportInv'
  <1>1. /\ call[c].at = "bound"
        /\ UNCHANGED <<resolution, resolveMu, server, owner, executed, carried, given>>
    BY DEF stateFor, history
  <1>2. PICK b \in DOMAIN bindings : b = call[c].b
    BY <1>1, UnderWay DEF HoldsOwn, Bound
  <1>3. bindings \in Seq(BindingRows) /\ states \in Seq(ScopedStates)
    BY DEF TransportInv, TransportTypes
  <1>4. PICK t \in Seq(Nat) : t = bindings[b].scopes
    <2>1. PICK z \in BindingRows : z = bindings[b]
      BY <1>3
    <2> QED BY <2>1 DEF BindingRows
  <1>5. \A k \in DOMAIN t : t[k] \in DOMAIN states
    BY <1>4 DEF TransportInv, ScopesSound
  <1>6. DOMAIN states = 1 .. Len(states) /\ Len(states) \in Nat
    BY <1>3
  <1>7. PICK D \in SUBSET Nat : D = DOMAIN states
    BY <1>6
  <1>8. CASE Remembered(c)
    <2>1. PICK i \in DOMAIN t :
              /\ states[t[i]].scope = call[c].scope
              /\ bindings' = [bindings EXCEPT ![b].scopes = <<t[i]>> \o Without(t, i)]
              /\ call' = [call EXCEPT ![c].at = "warm", ![c].ss = t[i]]
              /\ UNCHANGED states
      BY <1>2, <1>4, <1>8 DEF Remembered, StatesFor
    <2>2. PICK n \in Nat : n = t[i]
      BY <2>1
    <2>3. PICK w \in Seq(Nat) : w = Without(t, i) /\ \A k \in DOMAIN w : w[k] \in DOMAIN states
      BY <1>5, <1>7, WithoutIs
    <2>4. PICK u \in Seq(Nat) : u = <<n>> \o w /\ \A k \in DOMAIN u : u[k] \in DOMAIN states
      BY <1>5, <2>2, <2>3, InFront
    <2>5. bindings' = [bindings EXCEPT ![call[c].b].scopes = u] /\ call' = [call EXCEPT ![c].at = "warm", ![c].ss = n]
      BY <1>2, <2>1, <2>2, <2>3, <2>4
    <2>6. n \in DOMAIN states /\ n # 0 /\ states[n].scope = call[c].scope
      BY <1>5, <1>6, <2>1, <2>2
    <2>7. StatesSound' /\ states' = states
      BY <1>1, <2>1 DEF TransportInv, StatesSound, SessionSound
    <2> QED BY <1>1, <1>3, <2>4, <2>5, <2>6, <2>7, StateTaken
  <1>9. CASE FirstUse(c)
    <2>1. PICK n \in Nat : n = Len(states) + 1
      BY <1>6
    <2>2. PICK y : y = NewState(call[c].scope)
      BY Zenon
    <2>3. y \in ScopedStates /\ y.scope = call[c].scope /\ y.sid = 0
      BY <2>2, UnderWay DEF NewState, ScopedStates, CallStates
    <2>4. states' = Append(states, y)
      BY <1>9, <2>2 DEF FirstUse
    <2>5. /\ states' \in Seq(ScopedStates) /\ Len(states') = n /\ DOMAIN states' = 1 .. n /\ n # 0
          /\ states'[n] = y /\ \A i \in DOMAIN states : states'[i] = states[i]
      BY <1>3, <1>6, <2>1, <2>3, <2>4
    <2>6. DOMAIN states \subseteq DOMAIN states' /\ n \in DOMAIN states'
      BY <1>6, <2>1, <2>5
    <2>7. PICK w \in Seq(Nat) : w = MakeRoom(t) /\ \A k \in DOMAIN w : w[k] \in DOMAIN states
      BY <1>5, <1>7, MakeRoomIs DEF TransportInv
    <2>8. PICK u \in Seq(Nat) : u = <<n>> \o w /\ \A k \in DOMAIN u : u[k] \in DOMAIN states'
      BY <2>6, <2>7, InFront
    <2>9. /\ bindings' = [bindings EXCEPT ![call[c].b].scopes = u]
          /\ call' = [call EXCEPT ![c].at = "warm", ![c].ss = n]
      BY <1>2, <1>4, <1>9, <2>5, <2>7, <2>8 DEF FirstUse
    <2>10. StatesSound'
      <3> SUFFICES ASSUME NEW i \in DOMAIN states' PROVE SessionSound(states[i].sid, states[i].scope)'
        BY DEF StatesSound
      <3>1. CASE i = n
        BY <2>3, <2>5, <3>1 DEF SessionSound
      <3>2. CASE i # n
        <4>1. i \in DOMAIN states /\ states'[i] = states[i]
          BY <1>6, <2>1, <2>5, <3>2
        <4> QED BY <1>1, <4>1 DEF TransportInv, StatesSound, SessionSound
      <3> QED BY <3>1, <3>2
    <2> QED BY <1>1, <2>3, <2>5, <2>6, <2>8, <2>9, <2>10, StateTaken
  <1> QED BY <1>8, <1>9 DEF stateFor

LEMMA TransportStutter == ASSUME TransportInv, UNCHANGED transportVars PROVE TransportInv'
  BY OutsideKeeps DEF transportVars, TransportInv, TransportTypes

LEMMA TransportStep == TransportInv /\ [TransportNext]_transportVars => TransportInv'
  <1> SUFFICES ASSUME TransportInv, [TransportNext]_transportVars PROVE TransportInv'
    OBVIOUS
  <1>1. CASE UNCHANGED transportVars
    BY <1>1, TransportStutter
  <1>2. CASE FailureExpires \/ Forgets \/ Upgrade
    BY <1>2, OthersKeep
  <1>3. CASE \E c \in Calls : \E s \in SessionScopes : Begin(c, s)
    BY <1>3, BeginKeeps
  <1>4. ASSUME NEW c \in Calls, CallStep(c) PROVE TransportInv'
    BY <1>4, FastPathKeeps, SlowPathKeeps, BindKeeps, ProbeFailsKeeps, stateForKeeps, ModernCallKeeps,
       ensureWarmKeeps, WarmupKeeps, WarmupFailsKeeps, SendKeeps, ServeKeeps, ReceiveKeeps,
       ExchangeFailsKeeps, reinitAndRetryKeeps, invalidateBindingKeeps DEF CallStep
  <1> QED BY <1>1, <1>2, <1>3, <1>4 DEF TransportNext

\* The transport keeps its types, its sessions to their scopes, and its lock to one
\* probe, in every behaviour of resolveBinding, stateFor, doCall and reinitAndRetry.
THEOREM TransportInvariance == TransportParameters /\ TransportSpec => []TransportInv
  BY TransportStarts, TransportStep, PTL DEF TransportSpec

\* The server runs a call at most once, however often its session expires and
\* whichever exchange is lost (Call, doCall, reinitAndRetry).
THEOREM CallsRunOnce == TransportParameters /\ TransportSpec => []ExecutedOnce
  <1>1. TransportInv => ExecutedOnce
    BY DEF TransportInv, RanOnce, ExecutedOnce
  <1> QED BY <1>1, TransportInvariance, PTL

\* A request carries no session of another scope, and a call gives up only the
\* binding with which it failed (stateFor, doCall, invalidateBinding).
THEOREM ScopesStayApart == TransportParameters /\ TransportSpec => []SessionsStayApart
  <1>1. TransportInv => SessionsStayApart
    BY DEF TransportInv, CarriedSound, SessionSound, SessionsStayApart, OwnScope
  <1> QED BY <1>1, TransportInvariance, PTL

-----------------------------------------------------------------------------
(* The catalogue of MCP servers: aliases, and who is told of a change.     *)

\* What a caller sees, before aliases are resolved.
Sees(ki, sv) == Active(sv) /\ (OfTeam(sv, ki.team, ki.org) \/ OfOrg(sv, ki.org) \/ IsGlobal(sv))

\* The server its alias names for a caller.
Wins(rows, ki, sv) ==
    /\ sv \in rows /\ Sees(ki, sv)
    /\ \A other \in rows : Sees(ki, other) /\ other.alias = sv.alias => QueryRank(sv) <= QueryRank(other)

InTeamAndOrg(ki) == ki.team # Null => ki.org # Null

\* No two active rows have the same alias in the same scope.
Distinct(rows) == \A x, y \in rows : Active(x) /\ Active(y) /\ CacheKey(x) = CacheKey(y) => x = y

LEMMA Ranks == \A sv : QueryRank(sv) \in {1, 2, 3} /\ serverScopePriority(sv) = QueryRank(sv)
  BY DEF QueryRank, serverScopePriority

LEMMA SameScope ==
  ASSUME NEW ki, NEW x, NEW y, Sees(ki, x), Sees(ki, y), x.alias = y.alias, QueryRank(x) = QueryRank(y)
  PROVE  CacheKey(x) = CacheKey(y)
  BY DEF Sees, OfTeam, OfOrg, IsGlobal, QueryRank, CacheKey

\* The three queries of the listing, the query of a call and the mirror's scan
\* of the cache select the same rows.
LEMMA SameRows ==
  ASSUME NEW rows, NEW ki, InTeamAndOrg(ki)
  PROVE  /\ ListMCPServersByTeam(rows, ki.team, ki.org) = {sv \in rows : Sees(ki, sv)}
         /\ ki.team = Null /\ ki.org # Null => ListMCPServersByOrg(rows, ki.org) = {sv \in rows : Sees(ki, sv)}
         /\ ki.team = Null /\ ki.org = Null => ListMCPServers(rows) = {sv \in rows : Sees(ki, sv)}
         /\ visibleMCPServersForCaller(LoadAllActiveMCPServers(rows), ki) = {sv \in rows : Sees(ki, sv)}
  <1>1. ListMCPServersByTeam(rows, ki.team, ki.org) = {sv \in rows : Sees(ki, sv)}
    BY DEF ListMCPServersByTeam, Sees
  <1>2. ASSUME ki.team = Null, ki.org # Null
        PROVE  ListMCPServersByOrg(rows, ki.org) = {sv \in rows : Sees(ki, sv)}
    BY <1>2 DEF ListMCPServersByOrg, Sees, OfTeam, OfOrg, IsGlobal
  <1>3. ASSUME ki.team = Null, ki.org = Null
        PROVE  ListMCPServers(rows) = {sv \in rows : Sees(ki, sv)}
    BY <1>3 DEF ListMCPServers, Sees, OfTeam, OfOrg, IsGlobal
  <1>4. visibleMCPServersForCaller(LoadAllActiveMCPServers(rows), ki) = {sv \in rows : Sees(ki, sv)}
    <2>1. ASSUME NEW sv
          PROVE  Sees(ki, sv) <=>
                    /\ Active(sv)
                    /\ CASE ki.team # Null -> \/ sv.team = ki.team /\ sv.org = ki.org
                                              \/ sv.team = Null /\ sv.org \in {ki.org, Null}
                         [] ki.team = Null /\ ki.org # Null -> sv.team = Null /\ sv.org \in {ki.org, Null}
                         [] OTHER -> IsGlobal(sv)
      BY DEF Sees, OfTeam, OfOrg, IsGlobal, InTeamAndOrg
    <2> QED  BY <2>1 DEF visibleMCPServersForCaller, LoadAllActiveMCPServers
  <1> QED  BY <1>1, <1>2, <1>3, <1>4

LEMMA ResolvedWin ==
  ASSUME NEW rows, NEW ki
  PROVE  resolveServersByAlias({sv \in rows : Sees(ki, sv)}) = {sv \in rows : Wins(rows, ki, sv)}
  <1>1. ASSUME NEW x, NEW y
        PROVE  ~Beats(y, x) <=> (y.alias = x.alias => QueryRank(x) <= QueryRank(y))
    BY Ranks DEF Beats
  <1> QED  BY <1>1 DEF resolveServersByAlias, Wins

LEMMA ListedWin ==
  ASSUME NEW rows, NEW ki, InTeamAndOrg(ki)
  PROVE  accessibleServers(rows, ki, Grants, TRUE)
            = {sv \in rows : Wins(rows, ki, sv) /\ sv.codeMode /\ MayUse(sv, ki, Grants)}
  <1> DEFINE seen == IF ki.team # Null THEN ListMCPServersByTeam(rows, ki.team, ki.org)
                     ELSE IF ki.org # Null THEN ListMCPServersByOrg(rows, ki.org)
                     ELSE ListMCPServers(rows)
  <1>1. seen = {sv \in rows : Sees(ki, sv)}
    BY SameRows
  <1>2. accessibleServers(rows, ki, Grants, TRUE)
            = {sv \in resolveServersByAlias(seen) : sv.codeMode /\ MayUse(sv, ki, Grants)}
    BY DEF accessibleServers
  <1> HIDE DEF seen
  <1>3. resolveServersByAlias(seen) = {sv \in rows : Wins(rows, ki, sv)}
    BY <1>1, ResolvedWin
  <1> QED  BY <1>2, <1>3

LEMMA QueriedWin ==
  ASSUME NEW rows, NEW ki, InTeamAndOrg(ki), NEW a
  PROVE  GetMCPServerByAliasScoped(rows, a, ki.org, ki.team)
            = {sv \in rows : Wins(rows, ki, sv) /\ sv.alias = a}
  <1>1. ListMCPServersByTeam(rows, ki.team, ki.org) = {sv \in rows : Sees(ki, sv)}
    BY SameRows
  <1> QED  BY <1>1 DEF GetMCPServerByAliasScoped, Wins

LEMMA MirroredWin ==
  ASSUME NEW rows, NEW ki, InTeamAndOrg(ki), NEW id
  PROVE  aliasWinnerForCaller(LoadAllActiveMCPServers(rows), ki, id)
            = {sv \in rows : Wins(rows, ki, sv) /\ sv.id = id}
  <1>1. visibleMCPServersForCaller(LoadAllActiveMCPServers(rows), ki) = {sv \in rows : Sees(ki, sv)}
    BY SameRows
  <1> QED  BY <1>1, ResolvedWin DEF aliasWinnerForCaller

\* The cache's three lookups find what the query's ORDER BY puts first.
LEMMA CachedWin ==
  ASSUME NEW rows, NEW ki, InTeamAndOrg(ki), NEW a
  PROVE  CacheGet(LoadAllActiveMCPServers(rows), a, ki.org, ki.team)
            = {sv \in rows : Wins(rows, ki, sv) /\ sv.alias = a}
  <1> DEFINE loaded == LoadAllActiveMCPServers(rows)
             named == {sv \in rows : Sees(ki, sv) /\ sv.alias = a}
             team == IF ki.team # Null /\ ki.org # Null THEN At(loaded, <<a, ki.org, ki.team>>) ELSE {}
             org == IF ki.org # Null THEN At(loaded, <<a, ki.org, Null>>) ELSE {}
             global == At(loaded, <<a, Null, Null>>)
  <1>1. team = {sv \in named : QueryRank(sv) = 1}
    BY DEF At, CacheKey, LoadAllActiveMCPServers, Sees, OfTeam, OfOrg, IsGlobal, QueryRank
  <1>2. org = {sv \in named : QueryRank(sv) = 2}
    BY DEF At, CacheKey, LoadAllActiveMCPServers, Sees, OfTeam, OfOrg, IsGlobal, QueryRank
  <1>3. global = {sv \in named : QueryRank(sv) = 3}
    BY DEF At, CacheKey, LoadAllActiveMCPServers, Sees, OfTeam, OfOrg, IsGlobal, QueryRank
  <1>4. CacheGet(loaded, a, ki.org, ki.team)
            = IF team # {} THEN team ELSE IF org # {} THEN org ELSE global
    BY DEF CacheGet
  <1>5. {sv \in rows : Wins(rows, ki, sv) /\ sv.alias = a}
            = {sv \in named : \A other \in named : QueryRank(sv) <= QueryRank(other)}
    BY DEF Wins
  <1>6. \A sv \in named : QueryRank(sv) \in {1, 2, 3}
    BY Ranks
  <1> HIDE DEF loaded, named, team, org, global
  <1>7. (IF team # {} THEN team ELSE IF org # {} THEN org ELSE global)
            = {sv \in named : \A other \in named : QueryRank(sv) <= QueryRank(other)}
    BY <1>1, <1>2, <1>3, <1>6
  <1> QED  BY <1>4, <1>5, <1>7 DEF loaded

\* An alias has at most one winner.
LEMMA OneWinner ==
  ASSUME NEW rows, Distinct(rows), NEW ki, NEW x, NEW y,
         Wins(rows, ki, x), Wins(rows, ki, y), x.alias = y.alias
  PROVE  x = y
  <1>1. QueryRank(x) = QueryRank(y)
    BY Ranks DEF Wins
  <1>2. CacheKey(x) = CacheKey(y)
    BY <1>1, SameScope DEF Wins
  <1> QED  BY <1>2 DEF Distinct, Wins, Sees

LEMMA CallsReachTheWinner ==
  ASSUME NEW rows, Distinct(rows), NEW ki, InTeamAndOrg(ki), NEW sv, Wins(rows, ki, sv)
  PROVE  ResolveForCall(LoadAllActiveMCPServers(rows), rows, sv.alias, ki) = {sv}
  <1>1. PICK a : a = sv.alias
    BY Zenon
  <1>2. {x \in rows : Wins(rows, ki, x) /\ x.alias = a} = {sv}
    BY <1>1, OneWinner DEF Wins
  <1>3. CacheGet(LoadAllActiveMCPServers(rows), a, ki.org, ki.team) = {sv}
    BY <1>2, CachedWin
  <1> QED  BY <1>1, <1>3 DEF ResolveForCall

LEMMA MirrorDecides ==
  ASSUME NEW rows, NEW ki, InTeamAndOrg(ki), NEW id
  PROVE  codeModeAccessChecker(LoadAllActiveMCPServers(rows), ki, Grants, id)
            <=> \E sv \in accessibleServers(rows, ki, Grants, TRUE) : sv.id = id
  <1>1. aliasWinnerForCaller(LoadAllActiveMCPServers(rows), ki, id)
            = {sv \in rows : Wins(rows, ki, sv) /\ sv.id = id}
    BY MirroredWin
  <1>2. accessibleServers(rows, ki, Grants, TRUE)
            = {sv \in rows : Wins(rows, ki, sv) /\ sv.codeMode /\ MayUse(sv, ki, Grants)}
    BY ListedWin
  <1> QED  BY <1>1, <1>2 DEF codeModeAccessChecker, accessDecisionForWinner

-----------------------------------------------------------------------------
(* The table under its statements.                                         *)

LEMMA NormalizedRow ==
  ASSUME NEW row, DOMAIN row = Columns
  PROVE  /\ DOMAIN Normalized(row) = Columns
         /\ \A f \in Columns \ {"auth", "version"} : Normalized(row)[f] = row[f]
  BY DEF Normalized

LEMMA SetRow ==
  ASSUME NEW row, DOMAIN row = Columns, NEW body
  PROVE  /\ DOMAIN Set(row, body) = Columns
         /\ \A f \in Columns : Set(row, body)[f] = IF f \in DOMAIN body THEN body[f] ELSE row[f]
  BY DEF Set

LEMMA WrittenRow ==
  ASSUME NEW row, DOMAIN row = Columns, NEW body
  PROVE  /\ DOMAIN Normalized(Set(row, body)) = Columns
         /\ \A f \in Columns \ {"auth", "version"} :
                Normalized(Set(row, body))[f] = IF f \in DOMAIN body THEN body[f] ELSE row[f]
  BY NormalizedRow, SetRow

LEMMA ColumnNames ==
  /\ Columns = {"id", "alias", "org", "team", "active", "deleted", "source", "codeMode",
                "url", "auth", "header", "token", "secret", "version"}
  /\ \A id : DOMAIN NoRow(id) = Columns
  BY DEF Columns, NoRow

LEMMA UpdatedTable ==
  ASSUME NEW t, IsTable(t), NEW id, NEW body, "id" \notin DOMAIN body
  PROVE  /\ IsTable(UpdateMCPServer(t, id, body))
         /\ \A i \in Ids : i # id => UpdateMCPServer(t, id, body)[i] = t[i]
         /\ \A i \in Ids : \A f \in Columns \ {"auth", "version"} :
              UpdateMCPServer(t, id, body)[i][f] = IF i = id /\ f \in DOMAIN body THEN body[f] ELSE t[i][f]
  <1> DEFINE u == UpdateMCPServer(t, id, body)
  <1>1. u = [t EXCEPT ![id] = Normalized(Set(t[id], body))]
    BY DEF UpdateMCPServer
  <1>2. DOMAIN u = Ids /\ \A i \in Ids : i # id => u[i] = t[i]
    BY <1>1 DEF IsTable
  <1>3. ASSUME NEW i \in Ids, i = id
        PROVE  /\ DOMAIN u[i] = Columns
               /\ \A f \in Columns \ {"auth", "version"} : u[i][f] = IF f \in DOMAIN body THEN body[f] ELSE t[i][f]
    <2>1. u[i] = Normalized(Set(t[i], body)) /\ DOMAIN t[i] = Columns
      BY <1>1, <1>3 DEF IsTable
    <2>2. PICK row : row = t[i]
      BY Zenon
    <2> QED  BY <2>1, <2>2, WrittenRow
  <1> HIDE DEF u
  <1>4. ASSUME NEW i \in Ids PROVE DOMAIN u[i] = Columns /\ u[i].id = i
    <2>1. CASE i = id
      <3>1. "id" \in Columns \ {"auth", "version"}
        BY ColumnNames
      <3>2. u[i]["id"] = t[i]["id"]
        BY <1>3, <2>1, <3>1
      <3> QED  BY <1>3, <2>1, <3>2 DEF IsTable
    <2>2. CASE i # id
      BY <1>2, <2>2 DEF IsTable
    <2> QED  BY <2>1, <2>2
  <1>5. IsTable(u)
    BY <1>2, <1>4 DEF IsTable
  <1>6. \A i \in Ids : \A f \in Columns \ {"auth", "version"} :
              u[i][f] = IF i = id /\ f \in DOMAIN body THEN body[f] ELSE t[i][f]
    BY <1>2, <1>3
  <1> QED  BY <1>2, <1>5, <1>6 DEF u

LEMMA CreatedTable ==
  ASSUME NEW t, IsTable(t), NEW id, NEW body, "id" \notin DOMAIN body, NEW o, NEW tm, NEW source
  PROVE  /\ IsTable(CreateMCPServer(t, id, body, o, tm, source))
         /\ \A i \in Ids : i # id => CreateMCPServer(t, id, body, o, tm, source)[i] = t[i]
  <1> DEFINE u == CreateMCPServer(t, id, body, o, tm, source)
             blank == [NoRow(id) EXCEPT !.org = o, !.team = tm, !.active = TRUE,
                            !.deleted = FALSE, !.source = source, !.codeMode = TRUE]
             plain == [f \in DOMAIN body \ {"token", "secret"} |-> body[f]]
  <1>1. u = [t EXCEPT ![id] = Normalized(Set(blank, plain))]
    BY DEF CreateMCPServer
  <1>2. DOMAIN u = Ids /\ (\A i \in Ids : i # id => u[i] = t[i])
        /\ (id \in Ids => u[id] = Normalized(Set(blank, plain)))
    BY <1>1 DEF IsTable
  <1>3. DOMAIN blank = Columns /\ blank.id = id
    BY DEF NoRow, Columns
  <1>4. "id" \notin DOMAIN plain /\ "id" \in Columns \ {"auth", "version"}
    BY ColumnNames
  <1> HIDE DEF u, blank, plain
  <1>5. PICK b, q : b = blank /\ q = plain
    BY Zenon
  <1>6. DOMAIN Normalized(Set(b, q)) = Columns /\ Normalized(Set(b, q))["id"] = b["id"]
    BY <1>3, <1>4, <1>5, WrittenRow
  <1>7. id \in Ids => DOMAIN u[id] = Columns /\ u[id].id = id
    BY <1>2, <1>3, <1>5, <1>6
  <1>8. IsTable(u)
    BY <1>2, <1>7 DEF IsTable
  <1> QED  BY <1>2, <1>8 DEF u

LEMMA DeletedTable ==
  ASSUME NEW t, IsTable(t), NEW id
  PROVE  /\ IsTable(DeleteMCPServer(t, id))
         /\ \A i \in Ids : i # id => DeleteMCPServer(t, id)[i] = t[i]
         /\ id \in Ids => DeleteMCPServer(t, id)[id].deleted
  BY ColumnNames DEF DeleteMCPServer, IsTable

\* Whatever leaves the keys and the deletions alone leaves the aliases unique.
LEMMA SameKeys ==
  ASSUME NEW t, NEW u, Unique(t),
         \A i \in Ids : \A f \in {"alias", "org", "team", "deleted"} : u[i][f] = t[i][f]
  PROVE  Unique(u)
  <1>1. \A i \in Ids : CacheKey(u[i]) = CacheKey(t[i]) /\ u[i].deleted = t[i].deleted
    BY DEF CacheKey
  <1> QED  BY <1>1 DEF Unique

LEMMA UniqueIsDistinct ==
  ASSUME NEW t, Unique(t)
  PROVE  Distinct(RowsOf(t))
  BY DEF Unique, Distinct, RowsOf, Active

LEMMA CatalogueAgrees ==
  ASSUME ServerParameters, Catalogue(table)
  PROVE  OneServerPerAlias
  <1> DEFINE loaded == LoadAllActiveMCPServers(Rows)
             tools == [id \in Ids |-> IF id \in listed THEN Tools ELSE {}]
  <1> SUFFICES ASSUME NEW ki \in Callers
               PROVE  LET shown == accessibleServers(Rows, ki, Grants, TRUE) IN
                      /\ \A sv \in loaded : CacheGet(loaded, sv.alias, ki.org, ki.team)
                                            = GetMCPServerByAliasScoped(Rows, sv.alias, ki.org, ki.team)
                      /\ \A sv \in shown :
                            /\ ResolveForCall(loaded, Rows, sv.alias, ki) = {sv}
                            /\ AllowedToCall(sv, ki, Grants) \/ sv.source = "builtin"
                      /\ \A offer \in Offered(Rows, ki, Grants, {}, {}, tools, blocklist) :
                            \A sv \in ResolveForCall(loaded, Rows, offer[1].alias, ki) :
                                offer[2] \in tools[sv.id] /\ <<sv.id, offer[2]>> \notin blocklist
                      /\ {sv.id : sv \in shown} = {id \in Ids : codeModeAccessChecker(loaded, ki, Grants, id)}
    BY DEF OneServerPerAlias
  <1> DEFINE shown == accessibleServers(Rows, ki, Grants, TRUE)
  <1>1. InTeamAndOrg(ki)
    BY DEF ServerParameters, InTeamAndOrg
  <1>2. PICK rows : rows = Rows
    BY Zenon
  <1>3. Distinct(rows) /\ \A sv \in rows : sv.id \in Ids
    <2>1. PICK t : t = table
      BY Zenon
    <2>2. Distinct(RowsOf(t))
      BY <2>1, UniqueIsDistinct DEF Catalogue
    <2>3. \A id \in Ids : table[id].id \in Ids
      BY DEF Catalogue, IsTable
    <2> QED  BY <1>2, <2>1, <2>2, <2>3 DEF Rows, RowsOf
  <1>4. shown = {sv \in rows : Wins(rows, ki, sv) /\ sv.codeMode /\ MayUse(sv, ki, Grants)}
    <2>1. accessibleServers(rows, ki, Grants, TRUE)
            = {sv \in rows : Wins(rows, ki, sv) /\ sv.codeMode /\ MayUse(sv, ki, Grants)}
      BY <1>1, ListedWin
    <2> QED  BY <1>2, <2>1
  <1>5. ASSUME NEW a
        PROVE  CacheGet(loaded, a, ki.org, ki.team) = GetMCPServerByAliasScoped(Rows, a, ki.org, ki.team)
    <2> DEFINE found == {sv \in rows : Wins(rows, ki, sv) /\ sv.alias = a}
    <2>1. CacheGet(LoadAllActiveMCPServers(rows), a, ki.org, ki.team) = found
      BY <1>1, CachedWin
    <2>2. GetMCPServerByAliasScoped(rows, a, ki.org, ki.team) = found
      BY <1>1, QueriedWin
    <2> HIDE DEF found
    <2> QED  BY <1>2, <2>1, <2>2
  <1>6. ASSUME NEW sv \in shown
        PROVE  /\ ResolveForCall(loaded, Rows, sv.alias, ki) = {sv}
               /\ AllowedToCall(sv, ki, Grants) \/ sv.source = "builtin"
    <2>1. Wins(rows, ki, sv) /\ MayUse(sv, ki, Grants)
      BY <1>4
    <2>2. ResolveForCall(loaded, Rows, sv.alias, ki) = {sv}
      BY <1>1, <1>2, <1>3, <2>1, CallsReachTheWinner
    <2>3. sv.active
      BY <2>1 DEF Wins, Sees, Active
    <2> QED  BY <2>1, <2>2, <2>3 DEF MayUse, AllowedToCall
  <1> HIDE DEF loaded, tools, shown
  <1>7. ASSUME NEW offer \in Offered(Rows, ki, Grants, {}, {}, tools, blocklist),
               NEW sv \in ResolveForCall(loaded, Rows, offer[1].alias, ki)
        PROVE  offer[2] \in tools[sv.id] /\ <<sv.id, offer[2]>> \notin blocklist
    <2>1. /\ offer[1] \in shown
          /\ offer[2] \in tools[offer[1].id] /\ <<offer[1].id, offer[2]>> \notin blocklist
      BY DEF Offered, shown
    <2>2. sv = offer[1]
      BY <1>6, <1>7, <2>1
    <2> QED  BY <2>1, <2>2
  <1>8. {sv.id : sv \in shown} = {id \in Ids : codeModeAccessChecker(loaded, ki, Grants, id)}
    <2>1. ASSUME NEW id
          PROVE  codeModeAccessChecker(loaded, ki, Grants, id) <=> \E sv \in shown : sv.id = id
      BY <1>1, <1>2, MirrorDecides DEF loaded, shown
    <2>2. \A sv \in shown : sv.id \in Ids
      BY <1>3, <1>4
    <2> QED  BY <2>1, <2>2
  <1> QED  BY <1>5, <1>6, <1>7, <1>8 DEF shown

-----------------------------------------------------------------------------
(* The table under the handlers.                                           *)

Fields == DOMAIN NoRequest

\* What a handler will write: credentials only in the second statement of a
\* create, a known body in an update.
TaskOK(s, q) ==
    /\ DOMAIN q = Fields
    /\ s = "secret" => q.op = "create" /\ DOMAIN q.body \subseteq {"token", "secret"}
    /\ s = "write" /\ q.op = "update" => q.body \in Updates

InFlight ==
    /\ DOMAIN stage = Actors /\ DOMAIN arg = Actors
    /\ \A a \in Actors : TaskOK(stage[a], arg[a])

ServersInv == Catalogue(table) /\ InFlight

LEMMA FieldNames ==
  Fields = {"op", "id", "body", "before", "servers", "status", "lone"}
  BY DEF Fields, NoRequest

LEMMA StartsKeep ==
  ASSUME InFlight, NEW a
  PROVE  /\ DOMAIN Starts(a) = Actors
         /\ \A x \in Actors : DOMAIN Starts(a)[x] = Fields
         /\ \A x \in Actors : \A f \in Fields \ {"lone"} : Starts(a)[x][f] = arg[x][f]
         /\ \A x \in Actors : Starts(a)[x].lone => arg[x].lone /\ (x = a \/ stage[x] = "idle")
  <1> DEFINE s == Starts(a)
  <1>1. ASSUME NEW x \in Actors
        PROVE  s[x] = IF x # a /\ stage[x] # "idle" THEN [arg[x] EXCEPT !.lone = FALSE] ELSE arg[x]
    BY DEF Starts
  <1>2. DOMAIN s = Actors
    BY DEF Starts
  <1>3. \A x \in Actors : DOMAIN arg[x] = Fields
    BY DEF InFlight, TaskOK
  <1>4. "lone" \in Fields
    BY FieldNames
  <1> HIDE DEF s
  <1>5. \A x \in Actors : DOMAIN s[x] = Fields
    BY <1>1, <1>3
  <1>6. \A x \in Actors : \A f \in Fields \ {"lone"} : s[x][f] = arg[x][f]
    BY <1>1, <1>3
  <1>7. \A x \in Actors : s[x].lone => arg[x].lone /\ (x = a \/ stage[x] = "idle")
    BY <1>1, <1>3, <1>4
  <1> QED  BY <1>2, <1>5, <1>6, <1>7 DEF s

\* One actor moves on; the others keep what they will write.
LEMMA OneMoves ==
  ASSUME InFlight, NEW r \in Actors, NEW s, stage' = [stage EXCEPT ![r] = s], DOMAIN arg' = Actors,
         TaskOK(s, arg'[r]),
         \A x \in Actors \ {r} : DOMAIN arg'[x] = Fields /\ arg'[x].op = arg[x].op /\ arg'[x].body = arg[x].body
  PROVE  InFlight'
  <1>1. ASSUME NEW x \in Actors PROVE TaskOK(stage'[x], arg'[x])
    <2>1. CASE x = r
      BY <2>1 DEF InFlight
    <2>2. CASE x # r
      <3>1. stage'[x] = stage[x]
        BY <2>2 DEF InFlight
      <3> QED  BY <2>2, <3>1 DEF InFlight, TaskOK
    <2> QED  BY <2>1, <2>2
  <1>2. \A x \in Actors : TaskOK(stage[x], arg[x])'
    BY <1>1 DEF TaskOK, Fields, NoRequest, NoRow
  <1>3. DOMAIN stage' = Actors
    BY DEF InFlight
  <1> QED  BY <1>2, <1>3 DEF InFlight

LEMMA NoRequestOK == \A s \in {"idle", "query"} : TaskOK(s, NoRequest)
  BY DEF TaskOK, Fields

LEMMA EndKeeps ==
  ASSUME InFlight, NEW r \in Actors, EndRequest(r)
  PROVE  InFlight'
  <1>1. stage' = [stage EXCEPT ![r] = "idle"] /\ DOMAIN arg' = Actors /\ arg'[r] = NoRequest
    BY DEF EndRequest, InFlight
  <1>2. \A x \in Actors \ {r} : arg'[x] = arg[x]
    BY DEF EndRequest, InFlight
  <1>3. \A x \in Actors \ {r} : DOMAIN arg[x] = Fields
    BY DEF InFlight, TaskOK
  <1> QED  BY <1>1, <1>2, <1>3, NoRequestOK, OneMoves

LEMMA GoOnKeeps ==
  ASSUME InFlight, NEW r \in Actors, NEW s, s \notin {"secret", "write"}, GoTo(r, s), arg' = arg
  PROVE  InFlight'
  <1>1. \A x \in Actors : DOMAIN arg[x] = Fields
    BY DEF InFlight, TaskOK
  <1>2. TaskOK(s, arg[r])
    BY <1>1 DEF TaskOK
  <1>3. stage' = [stage EXCEPT ![r] = s] /\ DOMAIN arg' = Actors
    BY DEF GoTo, InFlight
  <1> QED  BY <1>1, <1>2, <1>3, OneMoves

LEMMA ChangeKeeps ==
  ASSUME InFlight, NEW r \in Actors, NEW s, NEW q, s \notin {"secret", "write"}, GoTo(r, s), DOMAIN q = Fields,
         arg' = [arg EXCEPT ![r] = q]
  PROVE  InFlight'
  <1>1. \A x \in Actors : DOMAIN arg[x] = Fields
    BY DEF InFlight, TaskOK
  <1>2. TaskOK(s, q)
    BY DEF TaskOK
  <1>3. stage' = [stage EXCEPT ![r] = s] /\ DOMAIN arg' = Actors /\ arg'[r] = q
    BY DEF GoTo, InFlight
  <1>4. \A x \in Actors \ {r} : arg'[x] = arg[x]
    BY DEF InFlight
  <1> QED  BY <1>1, <1>2, <1>3, <1>4, OneMoves

\* A request starts: the others only learn that they are not alone.
LEMMA StartKeeps ==
  ASSUME InFlight, NEW r \in Actors, NEW s, NEW q, TaskOK(s, q), GoTo(r, s),
         arg' = [Starts(r) EXCEPT ![r] = q]
  PROVE  InFlight'
  <1>1. DOMAIN Starts(r) = Actors /\ \A x \in Actors : DOMAIN Starts(r)[x] = Fields
    BY StartsKeep
  <1>2. \A x \in Actors : Starts(r)[x].op = arg[x].op /\ Starts(r)[x].body = arg[x].body
    <2>1. "op" \in Fields \ {"lone"} /\ "body" \in Fields \ {"lone"}
      BY FieldNames
    <2>2. \A x \in Actors : Starts(r)[x]["op"] = arg[x]["op"] /\ Starts(r)[x]["body"] = arg[x]["body"]
      BY <2>1, StartsKeep
    <2> QED  BY <2>2
  <1>3. stage' = [stage EXCEPT ![r] = s] /\ DOMAIN arg' = Actors /\ arg'[r] = q
    BY <1>1 DEF GoTo
  <1>4. \A x \in Actors \ {r} : arg'[x] = Starts(r)[x]
    BY <1>1
  <1> QED  BY <1>1, <1>2, <1>3, <1>4, OneMoves

LEMMA ReqsAct == Reqs \subseteq Actors /\ Ticker \in Actors
  BY DEF Actors

\* The row of a create, its alias free.
LEMMA InsertKeeps ==
  ASSUME ServerParameters, ServersInv, NEW r \in Reqs, NEW body \in NewServers, NEW o, NEW t, Insert(r, body, o, t)
  PROVE  ServersInv'
  <1> DEFINE id == CHOOSE i \in Unused : TRUE
             created == CreateMCPServer(table, id, body, o, t, "api")
             creds == [f \in DOMAIN body \cap {"token", "secret"} |-> body[f]]
             q == [NoRequest EXCEPT !.op = "create", !.id = id, !.before = NoRow(id),
                        !.body = creds, !.status = 201, !.lone = Alone(r)]
  <1>1. /\ table' = created /\ Unique(created)
        /\ arg' = [Starts(r) EXCEPT ![r] = q]
        /\ \E s \in {"secret", "query"} : GoTo(r, s)
    BY DEF Insert
  <1>2. Catalogue(table')
    <2>1. "id" \notin DOMAIN body
      BY DEF ServerParameters, Settable, Settings
    <2>2. IsTable(created)
      <3>1. PICK old, new : old = table /\ new = id
        BY Zenon
      <3>2. IsTable(CreateMCPServer(old, new, body, o, t, "api"))
        BY <2>1, <3>1, CreatedTable DEF ServersInv, Catalogue
      <3> QED  BY <3>1, <3>2
    <2> QED  BY <1>1, <2>2 DEF Catalogue
  <1>3. ASSUME NEW s \in {"secret", "query"} PROVE TaskOK(s, q)
    <2>1. DOMAIN q = Fields /\ q.op = "create" /\ q.body = creds
      BY DEF Fields, NoRequest
    <2>2. DOMAIN creds \subseteq {"token", "secret"}
      OBVIOUS
    <2> HIDE DEF q, creds
    <2> QED  BY <2>1, <2>2 DEF TaskOK
  <1>4. InFlight'
    <2> HIDE DEF q
    <2>1. PICK p : p = q
      BY Zenon
    <2> QED  BY <1>1, <1>3, <2>1, StartKeeps, ReqsAct DEF ServersInv
  <1> QED  BY <1>2, <1>4 DEF ServersInv, Catalogue, IsTable, Unique

LEMMA SetCredentialsKeeps ==
  ASSUME ServersInv, NEW r \in Reqs, SetCredentials(r)
  PROVE  ServersInv'
  <1>1. DOMAIN arg[r].body \subseteq {"token", "secret"}
    BY ReqsAct DEF ServersInv, InFlight, TaskOK, SetCredentials
  <1>2. CASE table' = UpdateMCPServer(table, arg[r].id, arg[r].body) /\ GoTo(r, "query") /\ UNCHANGED arg
    <2>1. PICK old, id, body : old = table /\ id = arg[r].id /\ body = arg[r].body
      BY Zenon
    <2>2. IsTable(old) /\ Unique(old) /\ table' = UpdateMCPServer(old, id, body)
      BY <1>2, <2>1 DEF ServersInv, Catalogue
    <2>3. "id" \notin DOMAIN body /\ \A f \in {"alias", "org", "team", "deleted"} : f \notin DOMAIN body
      BY <1>1, <2>1
    <2>4. IsTable(table')
      BY <2>2, <2>3, UpdatedTable
    <2>5. \A i \in Ids : \A f \in {"alias", "org", "team", "deleted"} : UpdateMCPServer(old, id, body)[i][f] = old[i][f]
      <3>1. \A f \in {"alias", "org", "team", "deleted"} : f \in Columns \ {"auth", "version"}
        BY ColumnNames
      <3> QED  BY <2>2, <2>3, <3>1, UpdatedTable
    <2>6. Unique(table')
      BY <2>2, <2>5, SameKeys
    <2>7. InFlight'
      BY <1>2, GoOnKeeps, ReqsAct DEF ServersInv
    <2> QED  BY <2>4, <2>6, <2>7 DEF ServersInv, Catalogue, IsTable, Unique
  <1>3. CASE EndRequest(r) /\ UNCHANGED table
    BY <1>3, EndKeeps, ReqsAct DEF ServersInv
  <1> QED  BY <1>2, <1>3 DEF SetCredentials

LEMMA GetServerKeeps ==
  ASSUME ServersInv, NEW r \in Reqs, NEW ki, NEW op, NEW id \in Ids, NEW body, GetServer(r, ki, op, id, body),
         op = "update" => body \in Updates
  PROVE  ServersInv'
  <1> DEFINE q == [NoRequest EXCEPT !.op = op, !.id = id, !.before = table[id], !.body = body,
                    !.status = PermissionAnswer(op, table[id], ki), !.lone = Alone(r)]
  <1>1. arg' = [Starts(r) EXCEPT ![r] = q] /\ GoTo(r, "write") /\ table' = table
    BY DEF GetServer
  <1>2. DOMAIN q = Fields /\ q.op = op /\ q.body = body
    BY DEF Fields, NoRequest
  <1> HIDE DEF q
  <1>3. TaskOK("write", q)
    BY <1>2 DEF TaskOK
  <1>4. PICK p : p = q
    BY Zenon
  <1>5. InFlight'
    BY <1>1, <1>3, <1>4, StartKeeps, ReqsAct DEF ServersInv
  <1> QED  BY <1>1, <1>5 DEF ServersInv

LEMMA WriteRowKeeps ==
  ASSUME ServersInv, NEW r \in Reqs, NEW written, IsTable(written), WriteRow(r, written)
  PROVE  ServersInv'
  <1>1. CASE EndRequest(r) /\ UNCHANGED table
    BY <1>1, EndKeeps, ReqsAct DEF ServersInv
  <1>2. CASE Unique(written) /\ table' = written /\ GoTo(r, "query") /\ UNCHANGED arg
    <2>1. InFlight'
      BY <1>2, GoOnKeeps, ReqsAct DEF ServersInv
    <2> QED  BY <1>2, <2>1 DEF ServersInv, Catalogue
  <1> QED  BY <1>1, <1>2 DEF WriteRow

LEMMA WritesKeep ==
  ASSUME ServerParameters, ServersInv, NEW r \in Reqs, Update(r) \/ Delete(r) \/ setMCPServerActive(r)
  PROVE  ServersInv'
  <1>1. PICK old, id, body : old = table /\ id = arg[r].id /\ body = arg[r].body
    BY Zenon
  <1>2. IsTable(old)
    BY <1>1 DEF ServersInv, Catalogue
  <1>3. CASE Update(r)
    <2>1. "id" \notin DOMAIN body
      <3>1. body \in Updates
        BY <1>1, <1>3, ReqsAct DEF Update, WriteRow, ServersInv, InFlight, TaskOK
      <3> QED  BY <3>1 DEF ServerParameters, Settable, Settings
    <2>2. PICK written : written = UpdateMCPServer(old, id, body)
      BY Zenon
    <2>3. IsTable(written)
      BY <1>2, <2>1, <2>2, UpdatedTable
    <2>4. WriteRow(r, written)
      BY <1>1, <1>3, <2>2 DEF Update
    <2> QED  BY <2>3, <2>4, WriteRowKeeps
  <1>4. CASE Delete(r)
    <2>1. PICK written : written = DeleteMCPServer(old, id)
      BY Zenon
    <2>2. IsTable(written)
      BY <1>2, <2>1, DeletedTable
    <2>3. WriteRow(r, written)
      BY <1>1, <1>4, <2>1 DEF Delete
    <2> QED  BY <2>2, <2>3, WriteRowKeeps
  <1>5. CASE setMCPServerActive(r)
    <2>1. PICK flag : flag = [active |-> arg[r].op = "activate"]
      BY Zenon
    <2>2. "id" \notin DOMAIN flag
      BY <2>1
    <2>3. PICK written : written = UpdateMCPServer(old, id, flag)
      BY Zenon
    <2>4. IsTable(written)
      BY <1>2, <2>2, <2>3, UpdatedTable
    <2>5. WriteRow(r, written)
      BY <1>1, <1>5, <2>1, <2>3 DEF setMCPServerActive
    <2> QED  BY <2>4, <2>5, WriteRowKeeps
  <1> QED  BY <1>3, <1>4, <1>5

\* The flag alone: a server is switched off.
LEMMA SwitchedOff ==
  ASSUME NEW t, Catalogue(t), NEW id
  PROVE  Catalogue(UpdateMCPServer(t, id, [active |-> FALSE]))
  <1>1. PICK flag : flag = [active |-> FALSE]
    BY Zenon
  <1>2. "id" \notin DOMAIN flag /\ \A f \in {"alias", "org", "team", "deleted"} : f \notin DOMAIN flag
    BY <1>1
  <1>3. \A f \in {"alias", "org", "team", "deleted"} : f \in Columns \ {"auth", "version"}
    BY ColumnNames
  <1>4. PICK u : u = UpdateMCPServer(t, id, flag)
    BY Zenon
  <1>5. IsTable(u) /\ \A i \in Ids : \A f \in {"alias", "org", "team", "deleted"} : u[i][f] = t[i][f]
    BY <1>2, <1>3, <1>4, UpdatedTable DEF Catalogue
  <1>6. Unique(u)
    BY <1>5, SameKeys DEF Catalogue
  <1> QED  BY <1>1, <1>4, <1>5, <1>6 DEF Catalogue

LEMMA TestKeeps ==
  ASSUME ServersInv, NEW r \in Reqs, TestMCPServerConnection(r)
  PROVE  ServersInv'
  <1>1. InFlight'
    BY EndKeeps, ReqsAct DEF TestMCPServerConnection, ServersInv
  <1>2. Catalogue(table')
    <2>1. PICK old, id : old = table /\ id = arg[r].id
      BY Zenon
    <2>2. table' = old \/ table' = UpdateMCPServer(old, id, [active |-> FALSE])
      BY <2>1 DEF TestMCPServerConnection
    <2> QED  BY <2>1, <2>2, SwitchedOff DEF ServersInv
  <1> QED  BY <1>1, <1>2 DEF ServersInv, Catalogue, IsTable, Unique

LEMMA RefreshKeeps ==
  ASSUME ServersInv, NEW a \in Actors, RefreshStep(a)
  PROVE  ServersInv'
  <1>1. table' = table /\ DOMAIN arg = Actors /\ DOMAIN arg[a] = Fields
    BY DEF RefreshStep, Query, LoadServers, LoadTransports, ServersInv, InFlight, TaskOK
  <1>2. CASE Query(a)
    <2>1. PICK q, s : arg' = [arg EXCEPT ![a] = q] /\ GoTo(a, s) /\ s \notin {"secret", "write"} /\ DOMAIN q = Fields
      <3>1. CASE arg' = [arg EXCEPT ![a].servers = LoadAllActiveMCPServers(Rows)] /\ GoTo(a, "servers")
        <4>1. arg' = [arg EXCEPT ![a] = [arg[a] EXCEPT !.servers = LoadAllActiveMCPServers(Rows)]]
          BY <3>1
        <4>2. DOMAIN [arg[a] EXCEPT !.servers = LoadAllActiveMCPServers(Rows)] = Fields
          BY <1>1
        <4> QED  BY <3>1, <4>1, <4>2
      <3>2. CASE /\ arg' = [arg EXCEPT ![a] = IF a = Ticker THEN NoRequest ELSE [@ EXCEPT !.lone = FALSE]]
                 /\ GoTo(a, IF a = Ticker THEN "idle" ELSE "after")
        <4>1. arg' = [arg EXCEPT ![a] = IF a = Ticker THEN NoRequest ELSE [arg[a] EXCEPT !.lone = FALSE]]
          BY <3>2
        <4>2. DOMAIN (IF a = Ticker THEN NoRequest ELSE [arg[a] EXCEPT !.lone = FALSE]) = Fields
          BY <1>1 DEF Fields
        <4>3. (IF a = Ticker THEN "idle" ELSE "after") \notin {"secret", "write"}
          OBVIOUS
        <4> QED  BY <3>2, <4>1, <4>2, <4>3
      <3> QED  BY <1>2, <3>1, <3>2 DEF Query
    <2>2. InFlight'
      BY <2>1, ChangeKeeps DEF ServersInv
    <2> QED  BY <1>1, <2>2 DEF ServersInv
  <1>3. CASE LoadServers(a)
    BY <1>1, <1>3, GoOnKeeps DEF LoadServers, ServersInv
  <1>4. CASE LoadTransports(a)
    <2>1. CASE EndRequest(a)
      BY <1>1, <2>1, EndKeeps DEF ServersInv
    <2>2. CASE GoTo(a, "after") /\ arg' = [arg EXCEPT ![a].servers = {}]
      <3>1. arg' = [arg EXCEPT ![a] = [arg[a] EXCEPT !.servers = {}]]
        BY <2>2
      <3>2. PICK q : q = [arg[a] EXCEPT !.servers = {}]
        BY Zenon
      <3>3. DOMAIN q = Fields
        BY <1>1, <3>2
      <3>4. InFlight'
        BY <2>2, <3>1, <3>2, <3>3, ChangeKeeps DEF ServersInv
      <3> QED  BY <1>1, <3>4 DEF ServersInv
    <2> QED  BY <1>4, <2>1, <2>2 DEF LoadTransports
  <1> QED  BY <1>2, <1>3, <1>4 DEF RefreshStep

LEMMA TickKeeps ==
  ASSUME ServersInv, Tick
  PROVE  ServersInv'
  <1>1. table' = table /\ GoTo(Ticker, "query") /\ arg' = Starts(Ticker)
    BY DEF Tick
  <1>2. DOMAIN Starts(Ticker) = Actors /\ \A x \in Actors : DOMAIN Starts(Ticker)[x] = Fields
    BY StartsKeep DEF ServersInv
  <1>3. \A x \in Actors : Starts(Ticker)[x].op = arg[x].op /\ Starts(Ticker)[x].body = arg[x].body
    <2>1. "op" \in Fields \ {"lone"} /\ "body" \in Fields \ {"lone"}
      BY FieldNames
    <2>2. \A x \in Actors : /\ Starts(Ticker)[x]["op"] = arg[x]["op"]
                            /\ Starts(Ticker)[x]["body"] = arg[x]["body"]
      BY <2>1, StartsKeep DEF ServersInv
    <2> QED  BY <2>2
  <1>4. TaskOK("query", arg'[Ticker])
    BY <1>1, <1>2, ReqsAct DEF TaskOK
  <1>5. InFlight'
    BY <1>1, <1>2, <1>3, <1>4, OneMoves, ReqsAct DEF GoTo, ServersInv
  <1> QED  BY <1>1, <1>5 DEF ServersInv

\* The configuration file is merged into a table, whatever it holds.
LEMMA SyncedIsTable ==
  ASSUME ServerParameters, Catalogue(table)
  PROVE  IsTable(Synced)
  <1>1. CASE Yaml = {}
    BY <1>1 DEF Synced, Catalogue
  <1>2. CASE Yaml # {}
    <2>1. PICK body \in Yaml : body = CHOOSE b \in Yaml : TRUE
      BY <1>2
    <2>2. "id" \notin DOMAIN body
      BY DEF ServerParameters, Settable, Settings
    <2>3. PICK t : t = table
      BY Zenon
    <2>4. IsTable(t) /\ Synced = SyncYAMLMCPServers(t, body)
      BY <1>2, <2>1, <2>3 DEF Synced, Catalogue
    <2>5. PICK creds : creds = [f \in DOMAIN body \cap {"token", "secret"} |-> body[f]]
      BY Zenon
    <2>6. "id" \notin DOMAIN creds
      BY <2>5
    <2>7. PICK id :
            \/ SyncYAMLMCPServers(t, body) = UpdateMCPServer(CreateMCPServer(t, id, body, Null, Null, "yaml"), id, creds)
            \/ SyncYAMLMCPServers(t, body) = UpdateMCPServer(t, id, body)
            \/ SyncYAMLMCPServers(t, body) = t
      BY <2>5 DEF SyncYAMLMCPServers
    <2>8. PICK u : u = CreateMCPServer(t, id, body, Null, Null, "yaml")
      BY Zenon
    <2>9. IsTable(u)
      BY <2>2, <2>4, <2>8, CreatedTable
    <2>10. IsTable(UpdateMCPServer(u, id, creds)) /\ IsTable(UpdateMCPServer(t, id, body))
      BY <2>2, <2>4, <2>6, <2>9, UpdatedTable
    <2> QED  BY <2>4, <2>7, <2>8, <2>10
  <1> QED  BY <1>1, <1>2

LEMMA ProbedCatalogue ==
  ASSUME NEW t, Catalogue(t)
  PROVE  Catalogue(Probed(t))
  <1> DEFINE u == Probed(t)
  <1>1. DOMAIN u = Ids /\ \A i \in Ids : u[i] = t[i] \/ u[i] = [t[i] EXCEPT !.active = FALSE]
    BY DEF Probed
  <1>2. \A i \in Ids : DOMAIN t[i] = Columns /\ t[i].id = i
    BY DEF Catalogue, IsTable
  <1> HIDE DEF u
  <1>3. ASSUME NEW i \in Ids PROVE DOMAIN u[i] = Columns /\ u[i].id = i
    BY <1>1, <1>2, ColumnNames
  <1>4. \A i \in Ids : \A f \in {"alias", "org", "team", "deleted"} : u[i][f] = t[i][f]
    BY <1>1, <1>2, ColumnNames
  <1>5. PICK v : v = u
    BY Zenon
  <1>6. Unique(v)
    BY <1>4, <1>5, SameKeys DEF Catalogue
  <1> QED  BY <1>1, <1>3, <1>5, <1>6 DEF Catalogue, IsTable, u

LEMMA RestartKeeps ==
  ASSUME ServerParameters, ServersInv, Restart
  PROVE  ServersInv'
  <1>1. Catalogue(table')
    <2>1. PICK t : t = Synced
      BY Zenon
    <2>2. IsTable(t)
      BY <2>1, SyncedIsTable DEF ServersInv
    <2>3. table' = table \/ (Unique(t) /\ table' = Probed(t))
      BY <2>1 DEF Restart
    <2>4. Unique(t) => Catalogue(Probed(t))
      BY <2>2, ProbedCatalogue DEF Catalogue
    <2> QED  BY <2>3, <2>4 DEF ServersInv
  <1>2. InFlight'
    <2>1. stage' = [a \in Actors |-> "idle"] /\ arg' = [a \in Actors |-> NoRequest]
      BY DEF Restart
    <2>2. \A a \in Actors : TaskOK(stage'[a], arg'[a])
      BY <2>1, NoRequestOK
    <2>3. \A a \in Actors : TaskOK(stage[a], arg[a])'
      BY <2>2 DEF TaskOK
    <2> QED  BY <2>1, <2>3 DEF InFlight
  <1> QED  BY <1>1, <1>2 DEF ServersInv, Catalogue, IsTable, Unique

LEMMA ServersInitInv == ServerParameters /\ ServersInit => ServersInv
  <1> SUFFICES ASSUME ServerParameters, ServersInit PROVE ServersInv
    OBVIOUS
  <1>1. Catalogue(table)
    BY DEF ServersInit, ServerParameters
  <1>2. InFlight
    BY NoRequestOK DEF ServersInit, InFlight
  <1> QED  BY <1>1, <1>2 DEF ServersInv

LEMMA ServersStepInv == ServerParameters /\ ServersInv /\ [ServersNext]_serverVars => ServersInv'
  <1> SUFFICES ASSUME ServerParameters, ServersInv, [ServersNext]_serverVars PROVE ServersInv'
    OBVIOUS
  <1>1. ASSUME NEW r \in Reqs, NEW ki \in Callers, NEW body \in NewServers,
               \/ CreateGlobalMCPServer(r, ki, body)
               \/ \E o \in Orgs : CreateOrgMCPServer(r, ki, body, o)
               \/ \E t \in Teams : CreateTeamMCPServer(r, ki, body, t[1], t[2])
        PROVE  ServersInv'
    <2>1. \E o, t : Insert(r, body, o, t)
      BY <1>1 DEF CreateGlobalMCPServer, CreateOrgMCPServer, CreateTeamMCPServer
    <2> QED  BY <2>1, InsertKeeps
  <1>2. ASSUME NEW r \in Reqs, NEW ki \in Callers, NEW id \in Ids,
               \/ \E body \in Updates : GetServer(r, ki, "update", id, body)
               \/ \E op \in Bare : GetServer(r, ki, op, id, <<>>)
        PROVE  ServersInv'
    BY <1>2, GetServerKeeps DEF Bare
  <1>3. ASSUME NEW r \in Reqs, HandlerStep(r)
        PROVE  ServersInv'
    <2>1. CASE \/ AddMCPServerBlocklist(r) \/ RemoveMCPServerBlocklist(r)
               \/ HandleRefreshMCPServerTools(r) \/ After(r)
      <3>1. EndRequest(r) /\ table' = table
        BY <2>1 DEF AddMCPServerBlocklist, RemoveMCPServerBlocklist, HandleRefreshMCPServerTools, After
      <3> QED  BY <3>1, EndKeeps, ReqsAct DEF ServersInv
    <2> QED  BY <1>3, <2>1, SetCredentialsKeeps, WritesKeep, TestKeeps DEF HandlerStep
  <1>4. ASSUME NEW id \in Ids, RefreshServer(id)
        PROVE  ServersInv'
    BY <1>4 DEF RefreshServer, ServersInv, InFlight
  <1>5. CASE UNCHANGED serverVars
    BY <1>5 DEF serverVars, ServersInv, InFlight
  <1> QED
    BY <1>1, <1>2, <1>3, <1>4, <1>5, RefreshKeeps, TickKeeps, RestartKeeps DEF ServersNext, Begins

\* Handlers that overlap, a create in two statements, a merge of the file at
\* startup: the table stays one in which no alias is taken twice in a scope.
THEOREM ServersInvariance == ServerParameters /\ ServersSpec => []ServersInv
  <1> SUFFICES ASSUME ServerParameters PROVE ServersSpec => []ServersInv
    OBVIOUS
  <1>1. ServersInit => ServersInv
    BY ServersInitInv
  <1>2. ServersInv /\ [ServersNext]_serverVars => ServersInv'
    BY ServersStepInv
  <1> QED  BY <1>1, <1>2, PTL DEF ServersSpec

\* Wherever an alias is resolved, by the cache, the scoped query, the listing,
\* a call or the mirror that decides who is notified, it names one server.
THEOREM AliasesNameOneServer == ServerParameters /\ ServersSpec => []OneServerPerAlias
  <1> SUFFICES ASSUME ServerParameters PROVE ServersSpec => []OneServerPerAlias
    OBVIOUS
  <1>1. ServersInv => OneServerPerAlias
    BY CatalogueAgrees DEF ServersInv
  <1>2. ServersSpec => []ServersInv
    BY ServersInvariance
  <1> QED  BY <1>1, <1>2, PTL

-----------------------------------------------------------------------------
(* Who is told of a change.                                                *)

\* What decides the listing of a row.
Agree(b, n, fs) == \A f \in fs : b[f] = n[f]
Standing == {"id", "org", "team", "deleted", "source"}

\* The table as it was when the handler read its row.
Prior(r) == [table EXCEPT ![arg[r].id] = arg[r].before]

\* How the row differs from the one the handler read.
Changed(r) ==
    LET b == arg[r].before
        n == table[arg[r].id]
    IN \/ arg[r].op = "create" /\ b.deleted
       \/ arg[r].op = "update" /\ Agree(b, n, Standing \cup {"active"})
       \/ arg[r].op = "delete" /\ n.deleted
       \/ arg[r].op = "activate" /\ n.active /\ Agree(b, n, Standing \cup {"alias", "codeMode"})
       \/ arg[r].op = "deactivate" /\ ~n.active

\* A handler alone in the process: the table differs from the one it found in
\* its own row only, and past the swap the cache is the table's.
LoneOK(r) ==
    /\ \A x \in Actors \ {r} : stage[x] = "idle"
    /\ stage[r] # "idle" /\ arg[r].id \in Ids
    /\ Catalogue(Prior(r))
    /\ stage[r] = "write" => table[arg[r].id] = arg[r].before
    /\ stage[r] \in {"secret", "query", "servers", "transports", "after"} => Changed(r)
    /\ stage[r] = "servers" => arg[r].servers = LoadAllActiveMCPServers(Rows)
    /\ stage[r] \in {"transports", "after"} => cache = LoadAllActiveMCPServers(Rows)

LoneInv == \A r \in Reqs : arg[r].lone => LoneOK(r)

\* The listing of one row of a table.
Shown(t, ki, id) == Wins(RowsOf(t), ki, t[id]) /\ t[id].codeMode /\ MayUse(t[id], ki, Grants)

LEMMA ShownIsListed ==
  ASSUME NEW t, IsTable(t), NEW id \in Ids, NEW ki, InTeamAndOrg(ki)
  PROVE  ListedAs(RowsOf(t), ki, id) = IF Shown(t, ki, id) THEN {t[id].alias} ELSE {}
  <1> DEFINE listing == accessibleServers(RowsOf(t), ki, Grants, TRUE)
  <1>1. PICK rows : rows = RowsOf(t)
    BY Zenon
  <1>2. listing = {sv \in rows : Wins(rows, ki, sv) /\ sv.codeMode /\ MayUse(sv, ki, Grants)}
    <2>1. accessibleServers(rows, ki, Grants, TRUE)
            = {sv \in rows : Wins(rows, ki, sv) /\ sv.codeMode /\ MayUse(sv, ki, Grants)}
      BY ListedWin
    <2> QED  BY <1>1, <2>1
  <1>3. t[id] \in rows /\ \A sv \in rows : sv.id = id <=> sv = t[id]
    BY <1>1 DEF IsTable, RowsOf
  <1>4. {s \in listing : s.id = id} = IF Shown(t, ki, id) THEN {t[id]} ELSE {}
    BY <1>1, <1>2, <1>3 DEF Shown
  <1>5. ListedAs(RowsOf(t), ki, id) = {sv.alias : sv \in {s \in listing : s.id = id}}
    BY DEF ListedAs
  <1> HIDE DEF listing
  <1> QED  BY <1>4, <1>5

\* Two tables that differ in one row, and in nothing that decides its listing.
LEMMA SameStanding ==
  ASSUME NEW t, NEW u, IsTable(t), IsTable(u), NEW id \in Ids, NEW ki,
         \A i \in Ids \ {id} : u[i] = t[i],
         Agree(t[id], u[id], Standing \cup {"alias", "codeMode"}), t[id].active => u[id].active,
         Shown(t, ki, id)
  PROVE  Shown(u, ki, id)
  <1> DEFINE b == t[id]  n == u[id]
  <1>1. /\ b.id = n.id /\ b.org = n.org /\ b.team = n.team /\ b.deleted = n.deleted
        /\ b.source = n.source /\ b.alias = n.alias /\ b.codeMode = n.codeMode /\ (b.active => n.active)
    BY DEF Agree, Standing
  <1>2. Sees(ki, b) => Sees(ki, n)
    BY <1>1 DEF Sees, Active, OfTeam, OfOrg, IsGlobal
  <1>3. QueryRank(b) = QueryRank(n) /\ (MayUse(b, ki, Grants) <=> MayUse(n, ki, Grants))
    BY <1>1 DEF QueryRank, MayUse, IsGlobal
  <1>4. n \in RowsOf(u) /\ \A other \in RowsOf(u) : other = n \/ other \in RowsOf(t)
    BY DEF RowsOf
  <1>5. QueryRank(n) <= QueryRank(n)
    BY Ranks
  <1> HIDE DEF b, n
  <1>6. Wins(RowsOf(t), ki, b) /\ b.codeMode /\ MayUse(b, ki, Grants)
    BY DEF Shown, b
  <1>7. Wins(RowsOf(u), ki, n)
    BY <1>1, <1>2, <1>3, <1>4, <1>5, <1>6 DEF Wins
  <1> QED  BY <1>1, <1>3, <1>6, <1>7 DEF Shown, n

\* The row a handler read, put back among the others, is decided on as it was.
LEMMA SnapshotRemembers ==
  ASSUME NEW t, NEW u, Catalogue(t), IsTable(u), NEW id \in Ids, NEW ki, InTeamAndOrg(ki),
         \A i \in Ids \ {id} : u[i] = t[i], Shown(t, ki, id)
  PROVE  snapshotAccessible(LoadAllActiveMCPServers(RowsOf(u)), ki, Grants, t[id])
  <1> DEFINE b == t[id]
             loaded == LoadAllActiveMCPServers(RowsOf(u))
             siblings == excludeServerID(loaded, b.id)
  <1>1. PICK rows : rows = RowsOf(t)
    BY Zenon
  <1>2. b.id = id /\ Active(b) /\ b \in rows /\ Wins(rows, ki, b)
    BY <1>1 DEF Catalogue, IsTable, Shown, Wins, Sees, RowsOf
  <1>3. siblings \cup {b} = LoadAllActiveMCPServers(rows)
    <2>1. \A i \in Ids : t[i].id = i /\ u[i].id = i
      BY DEF Catalogue, IsTable
    <2>2. siblings = {sv \in RowsOf(u) : Active(sv) /\ sv.id # id}
      BY <1>2 DEF excludeServerID, LoadAllActiveMCPServers
    <2>3. {sv \in RowsOf(u) : sv.id # id} = {sv \in rows : sv.id # id}
      BY <1>1, <2>1 DEF RowsOf
    <2>4. \A sv \in rows : sv.id = id => sv = b
      BY <1>1, <2>1 DEF RowsOf
    <2> HIDE DEF siblings, b
    <2> QED  BY <1>2, <2>2, <2>3, <2>4 DEF LoadAllActiveMCPServers
  <1>4. ASSUME NEW sv \in siblings PROVE CacheKey(sv) # CacheKey(b)
    <2>1. sv \in LoadAllActiveMCPServers(rows) /\ sv.id # b.id
      BY <1>3 DEF excludeServerID
    <2>2. sv \in rows /\ Active(sv)
      BY <2>1 DEF LoadAllActiveMCPServers
    <2>3. Distinct(rows)
      BY <1>1, UniqueIsDistinct DEF Catalogue
    <2> QED  BY <1>2, <2>1, <2>2, <2>3 DEF Distinct
  <1>5. \A sv \in visibleMCPServersForCaller(siblings, ki) : sv \in siblings
    BY DEF visibleMCPServersForCaller
  <1>6. aliasWinnerForCaller(siblings \cup {b}, ki, id) = {sv \in rows : Wins(rows, ki, sv) /\ sv.id = id}
    <2>1. aliasWinnerForCaller(LoadAllActiveMCPServers(rows), ki, id)
            = {sv \in rows : Wins(rows, ki, sv) /\ sv.id = id}
      BY MirroredWin
    <2> QED  BY <1>3, <2>1
  <1>7. b \in aliasWinnerForCaller(siblings \cup {b}, ki, b.id) /\ accessDecisionForWinner(b, ki, Grants)
    BY <1>2, <1>6 DEF Shown, accessDecisionForWinner
  <1> HIDE DEF siblings
  <1> QED  BY <1>2, <1>4, <1>5, <1>7 DEF snapshotAccessible, siblings, Active

LEMMA PriorTable ==
  ASSUME IsTable(table), NEW r, arg[r].id \in Ids
  PROVE  /\ DOMAIN Prior(r) = Ids /\ Prior(r)[arg[r].id] = arg[r].before
         /\ \A i \in Ids \ {arg[r].id} : Prior(r)[i] = table[i]
  BY DEF Prior, IsTable

LEMMA PriorRows ==
  ASSUME IsTable(table), NEW r, arg[r].id \in Ids
  PROVE  RowsOf(Prior(r)) = (Rows \ {table[arg[r].id]}) \cup {arg[r].before}
  <1>1. \A i \in Ids : table[i].id = i
    BY DEF IsTable
  <1>2. \A i \in Ids \ {arg[r].id} : table[i] # table[arg[r].id]
    BY <1>1
  <1> QED  BY <1>2, PriorTable DEF Rows, RowsOf

LEMMA LoneTells ==
  ASSUME ServerParameters, ServersInv, LoneInv
  PROVE  AffectedAreTold
  <1> SUFFICES ASSUME NEW r \in Reqs, stage[r] = "after", arg[r].lone, NEW ki \in Affected(r)
               PROVE  ki \in NotifyMCPServerScopeChange(r)
    BY DEF AffectedAreTold
  <1>1. ki \in Callers /\ InTeamAndOrg(ki)
    BY DEF Affected, ServerParameters, InTeamAndOrg
  <1>2. /\ arg[r].id \in Ids /\ Catalogue(Prior(r)) /\ Changed(r)
        /\ cache = LoadAllActiveMCPServers(Rows)
    BY DEF LoneInv, LoneOK
  <1>3. PICK t, u, id : t = Prior(r) /\ u = table /\ id = arg[r].id
    BY Zenon
  <1>4. id \in Ids /\ Catalogue(t) /\ IsTable(t) /\ IsTable(u)
    BY <1>2, <1>3 DEF ServersInv, Catalogue
  <1>5. t[id] = arg[r].before /\ \A i \in Ids \ {id} : u[i] = t[i] /\ t[i] = u[i]
    BY <1>2, <1>3, <1>4, PriorTable
  <1>6. (IF Shown(t, ki, id) THEN {t[id].alias} ELSE {}) # (IF Shown(u, ki, id) THEN {u[id].alias} ELSE {})
    <2>1. ListedAs(RowsOf(t), ki, id) # ListedAs(RowsOf(u), ki, id)
      BY <1>2, <1>3, <1>4, PriorRows DEF Affected, Rows
    <2> QED  BY <1>1, <1>4, <2>1, ShownIsListed
  <1>7. Shown(u, ki, id) => ki \in ToldOfAfter(r)
    <2> SUFFICES ASSUME Shown(u, ki, id) PROVE ki \in ToldOfAfter(r)
      OBVIOUS
    <2>1. PICK rows : rows = RowsOf(u)
      BY Zenon
    <2>2. accessibleServers(rows, ki, Grants, TRUE)
            = {sv \in rows : Wins(rows, ki, sv) /\ sv.codeMode /\ MayUse(sv, ki, Grants)}
      BY <1>1, ListedWin
    <2>3. u[id] \in accessibleServers(rows, ki, Grants, TRUE) /\ u[id].id = id
      BY <1>4, <2>1, <2>2 DEF Shown, RowsOf, IsTable
    <2>4. codeModeAccessChecker(LoadAllActiveMCPServers(rows), ki, Grants, id)
      BY <1>1, <2>3, MirrorDecides
    <2> QED  BY <1>1, <1>2, <1>3, <2>1, <2>4 DEF ToldOfAfter, Rows
  <1>8. Shown(t, ki, id) => ki \in ToldOfBefore(r)
    <2> SUFFICES ASSUME Shown(t, ki, id) PROVE ki \in ToldOfBefore(r)
      OBVIOUS
    <2>1. snapshotAccessible(LoadAllActiveMCPServers(RowsOf(u)), ki, Grants, t[id])
      BY <1>1, <1>4, <1>5, SnapshotRemembers
    <2> QED  BY <1>1, <1>2, <1>3, <1>5, <2>1 DEF ToldOfBefore, Rows
  <1>9. (Shown(t, ki, id) => Active(t[id])) /\ (Shown(u, ki, id) => Active(u[id]))
    BY DEF Shown, Wins, Sees
  <1>10. CASE arg[r].op = "create" /\ t[id].deleted
    <2>1. Shown(u, ki, id)
      BY <1>6, <1>9, <1>10 DEF Active
    <2> QED  BY <1>7, <1>10, <2>1 DEF NotifyMCPServerScopeChange
  <1>11. CASE arg[r].op = "update" /\ Agree(t[id], u[id], Standing \cup {"active"})
    <2>1. CASE mcpVisibilityScopeChanged(arg[r].before, table[arg[r].id])
      BY <1>6, <1>7, <1>8, <1>11, <2>1 DEF NotifyMCPServerScopeChange
    <2>2. CASE ~mcpVisibilityScopeChanged(arg[r].before, table[arg[r].id])
      <3>1. t[id].alias = u[id].alias /\ t[id].codeMode = u[id].codeMode
        BY <1>3, <1>5, <2>2 DEF mcpVisibilityScopeChanged, CacheKey
      <3>2. /\ Agree(t[id], u[id], Standing \cup {"alias", "codeMode"})
            /\ Agree(u[id], t[id], Standing \cup {"alias", "codeMode"})
            /\ t[id].active = u[id].active
        BY <1>11, <3>1 DEF Agree
      <3>3. Shown(t, ki, id) <=> Shown(u, ki, id)
        BY <1>4, <1>5, <3>2, SameStanding
      <3> QED  BY <1>6, <3>1, <3>3
    <2> QED  BY <2>1, <2>2
  <1>12. CASE arg[r].op = "delete" /\ u[id].deleted
    <2>1. Shown(t, ki, id)
      BY <1>6, <1>9, <1>12 DEF Active
    <2> QED  BY <1>8, <1>12, <2>1 DEF NotifyMCPServerScopeChange
  <1>13. CASE arg[r].op = "activate" /\ u[id].active /\ Agree(t[id], u[id], Standing \cup {"alias", "codeMode"})
    <2>1. CASE Shown(u, ki, id)
      BY <1>7, <1>13, <2>1 DEF NotifyMCPServerScopeChange
    <2>2. CASE ~Shown(u, ki, id)
      <3>1. Shown(t, ki, id)
        BY <1>6, <2>2
      <3>2. Shown(u, ki, id)
        BY <1>4, <1>5, <1>13, <3>1, SameStanding
      <3> QED  BY <2>2, <3>2
    <2> QED  BY <2>1, <2>2
  <1>14. CASE arg[r].op = "deactivate" /\ ~u[id].active
    <2>1. Shown(t, ki, id)
      BY <1>6, <1>9, <1>14 DEF Active
    <2> QED  BY <1>8, <1>14, <2>1 DEF NotifyMCPServerScopeChange
  <1> QED  BY <1>2, <1>3, <1>5, <1>10, <1>11, <1>12, <1>13, <1>14 DEF Changed

LEMMA NoneLone ==
  ASSUME \A r \in Reqs : ~arg'[r].lone
  PROVE  LoneInv'
  BY DEF LoneInv

\* Whoever takes a step is not idle, so nobody else is alone.
LEMMA OthersAreNotLone ==
  ASSUME LoneInv, NEW a \in Actors, stage[a] # "idle", NEW r \in Reqs, r # a, arg'[r] = arg[r]
  PROVE  ~arg'[r].lone
  BY DEF LoneInv, LoneOK

\* Whoever starts ends the solitude of the others.
LEMMA StartersAreNotLone ==
  ASSUME InFlight, LoneInv, NEW a \in Actors, stage[a] = "idle", NEW r \in Reqs, arg'[r] = Starts(a)[r]
  PROVE  ~arg'[r].lone
  <1> SUFFICES ASSUME Starts(a)[r].lone PROVE FALSE
    OBVIOUS
  <1>1. arg[r].lone /\ (r = a \/ stage[r] = "idle")
    BY StartsKeep, ReqsAct
  <1> QED  BY <1>1 DEF LoneInv, LoneOK

LEMMA OwnStep ==
  ASSUME LoneInv, NEW a \in Actors, stage[a] # "idle", \A x \in Actors \ {a} : arg'[x] = arg[x],
         a \in Reqs /\ arg'[a].lone => LoneOK(a)'
  PROVE  LoneInv'
  <1>1. ASSUME NEW r \in Reqs, arg'[r].lone PROVE LoneOK(r)'
    <2>1. r = a
      BY <1>1, OthersAreNotLone, ReqsAct
    <2> QED  BY <1>1, <2>1
  <1> QED  BY <1>1 DEF LoneInv

LEMMA EndsAreNotLone ==
  ASSUME InFlight, LoneInv, NEW a \in Actors, stage[a] # "idle", EndRequest(a)
  PROVE  LoneInv'
  <1>1. \A x \in Actors \ {a} : arg'[x] = arg[x]
    BY DEF EndRequest, InFlight
  <1>2. arg'[a] = NoRequest /\ ~NoRequest.lone
    BY DEF EndRequest, InFlight, NoRequest
  <1> QED  BY <1>1, <1>2, OwnStep

LEMMA SamePrior ==
  ASSUME IsTable(table), IsTable(table)', NEW r, arg[r].id \in Ids, arg'[r].id = arg[r].id,
         arg'[r].before = arg[r].before, \A i \in Ids \ {arg[r].id} : table'[i] = table[i]
  PROVE  Prior(r)' = Prior(r)
  <1> DEFINE was == [i \in Ids |-> IF i = arg[r].id THEN arg[r].before ELSE table[i]]
  <1>1. Prior(r) = was
    BY DEF Prior, IsTable
  <1>2. Prior(r)' = [table' EXCEPT ![arg[r].id] = arg[r].before]
    BY DEF Prior
  <1>3. DOMAIN table' = Ids
    BY DEF IsTable
  <1>4. [table' EXCEPT ![arg[r].id] = arg[r].before] = was
    BY <1>3
  <1> QED  BY <1>1, <1>2, <1>4

\* A handler that is alone goes on.
LEMMA LoneGoesOn ==
  ASSUME ServersInv, ServersInv', NEW r \in Reqs, LoneOK(r), NEW s, s \notin {"idle", "write"}, GoTo(r, s),
         arg'[r].id = arg[r].id, arg'[r].before = arg[r].before,
         \A i \in Ids \ {arg[r].id} : table'[i] = table[i],
         Changed(r)',
         s = "servers" => arg'[r].servers = LoadAllActiveMCPServers(Rows)',
         s \in {"transports", "after"} => cache' = LoadAllActiveMCPServers(Rows)'
  PROVE  LoneOK(r)'
  <1>1. stage'[r] = s /\ \A x \in Actors \ {r} : stage'[x] = "idle"
    BY ReqsAct DEF GoTo, LoneOK, ServersInv, InFlight
  <1>2. Prior(r)' = Prior(r)
    <2>1. IsTable(table) /\ IsTable(table)' /\ arg[r].id \in Ids
      BY DEF ServersInv, Catalogue, LoneOK
    <2> QED  BY <2>1, SamePrior
  <1>3. Catalogue(Prior(r))'
    <2>1. PICK t : t = Prior(r)
      BY Zenon
    <2>2. Catalogue(t) /\ t = Prior(r)'
      BY <1>2, <2>1 DEF LoneOK
    <2> QED  BY <2>2 DEF Catalogue, IsTable, Unique
  <1>4. arg'[r].id \in Ids
    BY DEF LoneOK
  <1> QED  BY <1>1, <1>3, <1>4 DEF LoneOK

\* A request that starts is the only one that may be alone.
LEMMA FirstStep ==
  ASSUME InFlight, LoneInv, NEW r \in Reqs, stage[r] = "idle", NEW q, arg' = [Starts(r) EXCEPT ![r] = q],
         q.lone => LoneOK(r)'
  PROVE  LoneInv'
  <1>1. arg'[r] = q /\ \A x \in Actors \ {r} : arg'[x] = Starts(r)[x]
    BY StartsKeep, ReqsAct
  <1>2. ASSUME NEW x \in Reqs, arg'[x].lone PROVE LoneOK(x)'
    <2>1. x = r
      BY <1>1, <1>2, StartersAreNotLone, ReqsAct
    <2> QED  BY <1>1, <1>2, <2>1
  <1> QED  BY <1>2 DEF LoneInv

LEMMA InsertLone ==
  ASSUME ServerParameters, ServersInv, ServersInv', LoneInv, NEW r \in Reqs, NEW body \in NewServers,
         NEW o, NEW t, Insert(r, body, o, t)
  PROVE  LoneInv'
  <1> DEFINE id == CHOOSE i \in Unused : TRUE
             creds == [f \in DOMAIN body \cap {"token", "secret"} |-> body[f]]
             q == [NoRequest EXCEPT !.op = "create", !.id = id, !.before = NoRow(id),
                        !.body = creds, !.status = 201, !.lone = Alone(r)]
  <1>1. /\ table' = CreateMCPServer(table, id, body, o, t, "api")
        /\ arg' = [Starts(r) EXCEPT ![r] = q] /\ stage[r] = "idle"
        /\ \E s \in {"secret", "query"} : GoTo(r, s)
    BY DEF Insert
  <1>2. q.op = "create" /\ q.id = id /\ q.before = NoRow(id) /\ q.lone = Alone(r)
    BY DEF NoRequest
  <1>3. id \in Ids
    BY DEF Insert, Unused
  <1> HIDE DEF q, id, creds
  <1>4. arg'[r] = q
    BY <1>1, StartsKeep, ReqsAct DEF ServersInv
  <1>5. ASSUME Alone(r) PROVE LoneOK(r)'
    <2>1. stage'[r] \in {"secret", "query"} /\ \A x \in Actors \ {r} : stage'[x] = "idle"
      BY <1>1, <1>5, ReqsAct DEF GoTo, Alone, ServersInv, InFlight
    <2>2. arg'[r].id = id /\ arg'[r].before = NoRow(id) /\ arg'[r].op = "create"
      BY <1>2, <1>4
    <2>3. Changed(r)'
      BY <2>2 DEF Changed, NoRow
    <2>4. PICK u, v : u = Prior(r)' /\ v = table'
      BY Zenon
    <2>5. u = [v EXCEPT ![id] = NoRow(id)] /\ DOMAIN v = Ids /\ Catalogue(v)
      BY <2>2, <2>4 DEF Prior, ServersInv, Catalogue, IsTable, Unique
    <2>6. /\ DOMAIN u = Ids /\ u[id] = NoRow(id) /\ u[id].deleted /\ u[id].id = id
          /\ \A i \in Ids \ {id} : u[i] = v[i]
      BY <1>3, <2>5 DEF NoRow
    <2>7. DOMAIN NoRow(id) = Columns
      BY ColumnNames
    <2>8. IsTable(u)
      BY <2>5, <2>6, <2>7 DEF IsTable, Catalogue
    <2>9. Unique(u)
      BY <2>5, <2>6 DEF Unique, Catalogue
    <2>10. Catalogue(Prior(r))'
      BY <2>4, <2>8, <2>9 DEF Catalogue, IsTable, Unique
    <2> QED  BY <1>3, <2>1, <2>2, <2>3, <2>10 DEF LoneOK
  <1>6. PICK p : p = q
    BY Zenon
  <1> QED  BY <1>1, <1>2, <1>5, <1>6, FirstStep DEF ServersInv

LEMMA GetServerLone ==
  ASSUME ServersInv, ServersInv', LoneInv, NEW r \in Reqs, NEW ki, NEW op, NEW id \in Ids, NEW body,
         GetServer(r, ki, op, id, body)
  PROVE  LoneInv'
  <1> DEFINE q == [NoRequest EXCEPT !.op = op, !.id = id, !.before = table[id], !.body = body,
                    !.status = PermissionAnswer(op, table[id], ki), !.lone = Alone(r)]
  <1>1. arg' = [Starts(r) EXCEPT ![r] = q] /\ GoTo(r, "write") /\ table' = table /\ stage[r] = "idle"
    BY DEF GetServer
  <1>2. q.id = id /\ q.before = table[id] /\ q.lone = Alone(r)
    BY DEF NoRequest
  <1> HIDE DEF q
  <1>3. arg'[r] = q
    BY <1>1, StartsKeep, ReqsAct DEF ServersInv
  <1>4. ASSUME Alone(r) PROVE LoneOK(r)'
    <2>1. stage'[r] = "write" /\ \A x \in Actors \ {r} : stage'[x] = "idle"
      BY <1>1, <1>4, ReqsAct DEF GoTo, Alone, ServersInv, InFlight
    <2>2. arg'[r].id = id /\ arg'[r].before = table[id] /\ table'[id] = table[id]
      BY <1>1, <1>2, <1>3
    <2>3. PICK u, v : u = Prior(r)' /\ v = table
      BY Zenon
    <2>4. u = [v EXCEPT ![id] = v[id]] /\ Catalogue(v)
      BY <1>1, <2>2, <2>3 DEF Prior, ServersInv
    <2>5. DOMAIN u = Ids /\ \A i \in Ids : u[i] = v[i]
      BY <2>4 DEF Catalogue, IsTable
    <2>6. IsTable(u) /\ Unique(u)
      BY <2>4, <2>5 DEF Catalogue, IsTable, Unique
    <2>7. Catalogue(Prior(r))'
      BY <2>3, <2>6 DEF Catalogue, IsTable, Unique
    <2> QED  BY <2>1, <2>2, <2>7 DEF LoneOK
  <1>5. PICK p : p = q
    BY Zenon
  <1> QED  BY <1>1, <1>2, <1>4, <1>5, FirstStep DEF ServersInv

LEMMA SetCredentialsLone ==
  ASSUME ServersInv, ServersInv', LoneInv, NEW r \in Reqs, SetCredentials(r)
  PROVE  LoneInv'
  <1>1. CASE table' = UpdateMCPServer(table, arg[r].id, arg[r].body) /\ GoTo(r, "query") /\ UNCHANGED arg
    <2>1. ASSUME arg[r].lone PROVE LoneOK(r)'
      <3>1. LoneOK(r) /\ Changed(r) /\ stage[r] = "secret"
        BY <2>1 DEF LoneInv, LoneOK, SetCredentials
      <3>2. \A i \in Ids \ {arg[r].id} : table'[i] = table[i]
        BY <1>1 DEF UpdateMCPServer, ServersInv, Catalogue, IsTable
      <3>3. arg[r].op = "create"
        BY <3>1, ReqsAct DEF ServersInv, InFlight, TaskOK
      <3>4. Changed(r)'
        BY <1>1, <3>1, <3>3 DEF Changed
      <3>5. PICK s : s = "query"
        BY Zenon
      <3> QED  BY <1>1, <3>1, <3>2, <3>4, <3>5, LoneGoesOn
    <2>2. stage[r] # "idle" /\ \A x \in Actors : arg'[x] = arg[x]
      BY <1>1 DEF SetCredentials
    <2> QED  BY <2>1, <2>2, OwnStep, ReqsAct
  <1>2. CASE EndRequest(r)
    BY <1>2, EndsAreNotLone, ReqsAct DEF SetCredentials, ServersInv
  <1> QED  BY <1>1, <1>2 DEF SetCredentials

LEMMA WriteRowLone ==
  ASSUME ServersInv, ServersInv', LoneInv, NEW r \in Reqs, NEW written, WriteRow(r, written),
         \A i \in Ids \ {arg[r].id} : written[i] = table[i],
         arg[r].id \in Ids /\ table[arg[r].id] = arg[r].before /\ table' = written /\ arg' = arg => Changed(r)'
  PROVE  LoneInv'
  <1>1. CASE EndRequest(r)
    BY <1>1, EndsAreNotLone, ReqsAct DEF WriteRow, ServersInv
  <1>2. CASE table' = written /\ GoTo(r, "query") /\ UNCHANGED arg
    <2>1. ASSUME arg[r].lone PROVE LoneOK(r)'
      <3>1. LoneOK(r) /\ stage[r] = "write"
        BY <2>1 DEF LoneInv, WriteRow
      <3>2. Changed(r)'
        BY <1>2, <3>1 DEF LoneOK
      <3>3. PICK s : s = "query"
        BY Zenon
      <3> QED  BY <1>2, <3>1, <3>2, <3>3, LoneGoesOn
    <2>2. stage[r] # "idle" /\ \A x \in Actors : arg'[x] = arg[x]
      BY <1>2 DEF WriteRow
    <2> QED  BY <2>1, <2>2, OwnStep, ReqsAct
  <1> QED  BY <1>1, <1>2 DEF WriteRow

LEMMA WritesLone ==
  ASSUME ServerParameters, ServersInv, ServersInv', LoneInv, NEW r \in Reqs,
         Update(r) \/ Delete(r) \/ setMCPServerActive(r)
  PROVE  LoneInv'
  <1>1. PICK old, id, body : old = table /\ id = arg[r].id /\ body = arg[r].body
    BY Zenon
  <1>2. IsTable(old)
    BY <1>1 DEF ServersInv, Catalogue
  <1>3. CASE Update(r)
    <2>1. DOMAIN body \subseteq Settable
      <3>1. body \in Updates
        BY <1>1, <1>3, ReqsAct DEF Update, WriteRow, ServersInv, InFlight, TaskOK
      <3> QED  BY <3>1 DEF ServerParameters
    <2>2. \A f \in Standing \cup {"active"} : f \notin DOMAIN body /\ f \in Columns \ {"auth", "version"}
      BY <2>1, ColumnNames DEF Standing, Settable, Settings
    <2>3. "id" \notin DOMAIN body
      BY <2>2 DEF Standing
    <2>4. PICK written : written = UpdateMCPServer(old, id, body)
      BY Zenon
    <2>5. /\ \A i \in Ids : i # id => written[i] = old[i]
          /\ \A i \in Ids : \A f \in Columns \ {"auth", "version"} :
                written[i][f] = IF i = id /\ f \in DOMAIN body THEN body[f] ELSE old[i][f]
      BY <1>2, <2>3, <2>4, UpdatedTable
    <2>6. id \in Ids => Agree(old[id], written[id], Standing \cup {"active"})
      BY <2>2, <2>5 DEF Agree
    <2>7. WriteRow(r, written) /\ arg[r].op = "update"
      BY <1>1, <1>3, <2>4 DEF Update
    <2>8. arg[r].id \in Ids /\ table[arg[r].id] = arg[r].before /\ table' = written /\ arg' = arg => Changed(r)'
      BY <1>1, <2>6, <2>7 DEF Changed
    <2> QED  BY <1>1, <2>5, <2>7, <2>8, WriteRowLone
  <1>4. CASE Delete(r)
    <2>1. PICK written : written = DeleteMCPServer(old, id)
      BY Zenon
    <2>2. (\A i \in Ids : i # id => written[i] = old[i]) /\ (id \in Ids => written[id].deleted)
      BY <1>2, <2>1, DeletedTable
    <2>3. WriteRow(r, written) /\ arg[r].op = "delete"
      BY <1>1, <1>4, <2>1 DEF Delete
    <2>4. arg[r].id \in Ids /\ table' = written /\ arg' = arg => Changed(r)'
      BY <1>1, <2>2, <2>3 DEF Changed
    <2> QED  BY <1>1, <2>2, <2>3, <2>4, WriteRowLone
  <1>5. CASE setMCPServerActive(r)
    <2>1. PICK flag : flag = [active |-> arg[r].op = "activate"]
      BY Zenon
    <2>2. DOMAIN flag = {"active"} /\ flag["active"] = (arg[r].op = "activate") /\ "id" \notin DOMAIN flag
      BY <2>1
    <2>3. \A f \in Standing \cup {"alias", "codeMode"} : f \notin DOMAIN flag /\ f \in Columns \ {"auth", "version"}
      BY <2>2, ColumnNames DEF Standing
    <2>4. PICK written : written = UpdateMCPServer(old, id, flag)
      BY Zenon
    <2>5. /\ \A i \in Ids : i # id => written[i] = old[i]
          /\ \A i \in Ids : \A f \in Columns \ {"auth", "version"} :
                written[i][f] = IF i = id /\ f \in DOMAIN flag THEN flag[f] ELSE old[i][f]
      BY <1>2, <2>2, <2>4, UpdatedTable
    <2>6. id \in Ids => Agree(old[id], written[id], Standing \cup {"alias", "codeMode"})
      BY <2>3, <2>5 DEF Agree
    <2>7. id \in Ids => written[id].active = (arg[r].op = "activate")
      <3>1. "active" \in Columns \ {"auth", "version"}
        BY ColumnNames
      <3> QED  BY <2>2, <2>5, <3>1
    <2>8. WriteRow(r, written) /\ arg[r].op \in {"activate", "deactivate"}
      BY <1>1, <1>5, <2>1, <2>4 DEF setMCPServerActive
    <2>9. arg[r].id \in Ids /\ table[arg[r].id] = arg[r].before /\ table' = written /\ arg' = arg => Changed(r)'
      BY <1>1, <2>6, <2>7, <2>8 DEF Changed
    <2> QED  BY <1>1, <2>5, <2>8, <2>9, WriteRowLone
  <1> QED  BY <1>3, <1>4, <1>5

LEMMA RefreshLone ==
  ASSUME ServersInv, ServersInv', LoneInv, NEW a \in Actors, RefreshStep(a)
  PROVE  LoneInv'
  <1>1. /\ stage[a] \in {"query", "servers", "transports"} /\ table' = table
        /\ DOMAIN arg = Actors /\ DOMAIN arg[a] = Fields
    BY DEF RefreshStep, Query, LoadServers, LoadTransports, ServersInv, InFlight, TaskOK
  <1>2. Rows' = Rows
    BY <1>1 DEF Rows, RowsOf
  <1>3. CASE EndRequest(a)
    BY <1>1, <1>3, EndsAreNotLone DEF ServersInv
  <1>4. ASSUME a \in Reqs, arg[a].lone
        PROVE  LoneOK(a) /\ (arg'[a].op = arg[a].op /\ arg'[a].id = arg[a].id /\ arg'[a].before = arg[a].before
                                => Changed(a)')
    BY <1>1, <1>4 DEF LoneInv, LoneOK, Changed
  <1>5. CASE Query(a)
    <2>1. \A x \in Actors \ {a} : arg'[x] = arg[x]
      BY <1>1, <1>5 DEF Query
    <2>2. ASSUME arg'[a].lone, a \in Reqs
          PROVE  LoneOK(a)'
      <3>1. arg'[a] = [arg[a] EXCEPT !.servers = LoadAllActiveMCPServers(Rows)] /\ GoTo(a, "servers")
        <4>1. CASE arg' = [arg EXCEPT ![a].servers = LoadAllActiveMCPServers(Rows)] /\ GoTo(a, "servers")
          BY <1>1, <4>1
        <4>2. CASE arg' = [arg EXCEPT ![a] = IF a = Ticker THEN NoRequest ELSE [@ EXCEPT !.lone = FALSE]]
          <5>1. ~NoRequest.lone /\ ~[arg[a] EXCEPT !.lone = FALSE].lone
            BY <1>1, FieldNames DEF NoRequest
          <5>2. arg'[a] = IF a = Ticker THEN NoRequest ELSE [arg[a] EXCEPT !.lone = FALSE]
            BY <1>1, <4>2
          <5> QED  BY <2>2, <5>1, <5>2
        <4> QED  BY <1>5, <4>1, <4>2 DEF Query
      <3>2. /\ arg'[a].op = arg[a].op /\ arg'[a].id = arg[a].id /\ arg'[a].before = arg[a].before
            /\ arg'[a].lone = arg[a].lone /\ arg'[a].servers = LoadAllActiveMCPServers(Rows)
        BY <1>1, <3>1, FieldNames
      <3>3. PICK s : s = "servers"
        BY Zenon
      <3>4. arg'[a].servers = LoadAllActiveMCPServers(Rows)'
        BY <1>2, <3>2
      <3> QED  BY <1>1, <1>4, <2>2, <3>1, <3>2, <3>3, <3>4, LoneGoesOn
    <2> QED  BY <1>1, <2>1, <2>2, OwnStep
  <1>6. CASE LoadServers(a)
    <2>1. arg' = arg /\ GoTo(a, "transports") /\ cache' = arg[a].servers /\ stage[a] = "servers"
      BY <1>6 DEF LoadServers
    <2>2. ASSUME arg'[a].lone, a \in Reqs
          PROVE  LoneOK(a)'
      <3>1. cache' = LoadAllActiveMCPServers(Rows)'
        BY <1>2, <1>4, <2>1, <2>2 DEF LoneOK
      <3>2. PICK s : s = "transports"
        BY Zenon
      <3> QED  BY <1>1, <1>4, <2>1, <2>2, <3>1, <3>2, LoneGoesOn
    <2> QED  BY <1>1, <2>1, <2>2, OwnStep
  <1>7. CASE LoadTransports(a) /\ GoTo(a, "after") /\ arg' = [arg EXCEPT ![a].servers = {}]
    <2>1. cache' = cache /\ stage[a] = "transports" /\ arg'[a] = [arg[a] EXCEPT !.servers = {}]
      BY <1>1, <1>7 DEF LoadTransports
    <2>2. /\ arg'[a].op = arg[a].op /\ arg'[a].id = arg[a].id /\ arg'[a].before = arg[a].before
          /\ arg'[a].lone = arg[a].lone
      BY <1>1, <2>1, FieldNames
    <2>3. ASSUME arg'[a].lone, a \in Reqs
          PROVE  LoneOK(a)'
      <3>1. cache' = LoadAllActiveMCPServers(Rows)'
        BY <1>2, <1>4, <2>1, <2>2, <2>3 DEF LoneOK
      <3>2. PICK s : s = "after"
        BY Zenon
      <3> QED  BY <1>1, <1>4, <1>7, <2>2, <2>3, <3>1, <3>2, LoneGoesOn
    <2>4. \A x \in Actors \ {a} : arg'[x] = arg[x]
      BY <1>1, <1>7
    <2> QED  BY <1>1, <2>3, <2>4, OwnStep
  <1> QED  BY <1>3, <1>5, <1>6, <1>7 DEF RefreshStep, LoadTransports

LEMMA LoneStep == ServerParameters /\ ServersInv /\ LoneInv /\ [ServersNext]_serverVars => LoneInv'
  <1> SUFFICES ASSUME ServerParameters, ServersInv, LoneInv, [ServersNext]_serverVars PROVE LoneInv'
    OBVIOUS
  <1>1. ServersInv'
    BY ServersStepInv
  <1>2. ASSUME NEW r \in Reqs, NEW ki \in Callers, NEW body \in NewServers,
               \/ CreateGlobalMCPServer(r, ki, body)
               \/ \E o \in Orgs : CreateOrgMCPServer(r, ki, body, o)
               \/ \E t \in Teams : CreateTeamMCPServer(r, ki, body, t[1], t[2])
        PROVE  LoneInv'
    <2>1. \E o, t : Insert(r, body, o, t)
      BY <1>2 DEF CreateGlobalMCPServer, CreateOrgMCPServer, CreateTeamMCPServer
    <2> QED  BY <1>1, <2>1, InsertLone
  <1>3. ASSUME NEW r \in Reqs, NEW ki \in Callers, NEW id \in Ids,
               \/ \E body \in Updates : GetServer(r, ki, "update", id, body)
               \/ \E op \in Bare : GetServer(r, ki, op, id, <<>>)
        PROVE  LoneInv'
    BY <1>1, <1>3, GetServerLone
  <1>4. ASSUME NEW r \in Reqs, HandlerStep(r)
        PROVE  LoneInv'
    <2>1. CASE \/ TestMCPServerConnection(r) \/ AddMCPServerBlocklist(r) \/ RemoveMCPServerBlocklist(r)
               \/ HandleRefreshMCPServerTools(r) \/ After(r)
      <3>1. EndRequest(r) /\ stage[r] # "idle"
        BY <2>1 DEF TestMCPServerConnection, AddMCPServerBlocklist, RemoveMCPServerBlocklist,
                    HandleRefreshMCPServerTools, After
      <3> QED  BY <3>1, EndsAreNotLone, ReqsAct DEF ServersInv
    <2> QED  BY <1>1, <1>4, <2>1, SetCredentialsLone, WritesLone DEF HandlerStep
  <1>5. CASE Tick
    <2>1. arg' = Starts(Ticker) /\ stage[Ticker] = "idle"
      BY <1>5 DEF Tick
    <2>2. \A r \in Reqs : ~arg'[r].lone
      BY <2>1, StartersAreNotLone, ReqsAct DEF ServersInv
    <2> QED  BY <2>2, NoneLone
  <1>6. CASE Restart
    <2>1. \A r \in Reqs : arg'[r] = NoRequest
      BY <1>6, ReqsAct DEF Restart
    <2>2. \A r \in Reqs : ~arg'[r].lone
      BY <2>1 DEF NoRequest
    <2> QED  BY <2>2, NoneLone
  <1>7. CASE UNCHANGED <<table, cache, stage, arg>>
    <2>1. ASSUME NEW r \in Reqs, LoneOK(r) PROVE LoneOK(r)'
      <3>1. Prior(r)' = Prior(r) /\ Rows' = Rows /\ Changed(r)' = Changed(r)
        BY <1>7 DEF Prior, Rows, RowsOf, Changed
      <3>2. PICK t : t = Prior(r)
        BY Zenon
      <3>3. Catalogue(t) /\ t = Prior(r)'
        BY <2>1, <3>1, <3>2 DEF LoneOK
      <3>4. Catalogue(Prior(r))'
        BY <3>3 DEF Catalogue, IsTable, Unique
      <3> QED  BY <1>7, <2>1, <3>1, <3>4 DEF LoneOK
    <2> QED  BY <1>7, <2>1 DEF LoneInv
  <1>8. ASSUME NEW id \in Ids, RefreshServer(id)
        PROVE  LoneInv'
    BY <1>7, <1>8 DEF RefreshServer
  <1>9. CASE UNCHANGED serverVars
    BY <1>7, <1>9 DEF serverVars
  <1> QED
    BY <1>1, <1>2, <1>3, <1>4, <1>5, <1>6, <1>8, <1>9, RefreshLone DEF ServersNext, Begins

\* A handler that had the catalogue to itself tells every caller for whom the
\* listing changed, from the row it read and the cache it swapped in.
THEOREM ChangesAreTold == ServerParameters /\ ServersSpec => []AffectedAreTold
  <1> SUFFICES ASSUME ServerParameters PROVE ServersSpec => []AffectedAreTold
    OBVIOUS
  <1>1. ServersInit => LoneInv
    <2> SUFFICES ASSUME ServersInit PROVE \A r \in Reqs : ~arg[r].lone
      BY DEF LoneInv
    <2> QED  BY ReqsAct DEF ServersInit, NoRequest
  <1>2. ServersInv /\ LoneInv /\ [ServersNext]_serverVars => LoneInv'
    BY LoneStep
  <1>3. ServersInv /\ LoneInv => AffectedAreTold
    BY LoneTells
  <1>4. ServersSpec => []ServersInv
    BY ServersInvariance
  <1> QED  BY <1>1, <1>2, <1>3, <1>4, PTL DEF ServersSpec

-----------------------------------------------------------------------------
(***************************************************************************)
(* The session registry. Lists without repetition: x is in its place, and  *)
(* what is ahead of it (or behind it) is in S.                             *)
(***************************************************************************)
NoDup(l) == \A i, j \in 1..Len(l) : l[i] = l[j] => i = j
Within(l, x, S) == \E i \in 1..Len(l) : l[i] = x /\ \A j \in 1..(i - 1) : l[j] \in S
Behind(l, x, S) == \E i \in 1..Len(l) : l[i] = x /\ \A j \in (i + 1)..Len(l) : l[j] \in S

(* An element moved or pushed to the front is ahead of everything else.    *)
LEMMA FrontMoved ==
    ASSUME NEW T, NEW l \in Seq(T), NEW e \in T, NoDup(l)
    PROVE  /\ ToFront(l, e) \in Seq(T)
           /\ NoDup(ToFront(l, e))
           /\ \A S : Within(ToFront(l, e), e, S)
           /\ \A x, S : Within(l, x, S) => Within(ToFront(l, e), x, S \cup {e})
  <1>1. CASE Contains(l, e)
    <2>1. PICK p \in 1..Len(l) : p = PlaceOf(l, e) /\ l[p] = e
      BY <1>1 DEF Contains, PlaceOf
    <2>2. Len(l) \in Nat /\ DOMAIN l = 1..Len(l) /\ \A j \in 1..Len(l) : l[j] \in T
      OBVIOUS
    <2>3. PICK m : m = MoveToFront(l, p)
      BY Zenon
    <2>4. ToFront(l, e) = m
      BY <1>1, <2>1, <2>3 DEF ToFront
    <2>5. /\ m \in [1..Len(l) -> T] /\ m[1] = e
          /\ \A j \in 2..Len(l) : j <= p => m[j] = l[j - 1]
          /\ \A j \in 1..Len(l) : j > p => m[j] = l[j]
      BY <2>1, <2>2, <2>3 DEF MoveToFront
    <2>6. m \in Seq(T) /\ Len(m) = Len(l)
      BY <2>5, <2>2, LenProperties, SeqDef
    <2>8. NoDup(m)
      <3>1. ASSUME NEW i \in 1..Len(l), NEW j \in 1..Len(l), m[i] = m[j], i < j
            PROVE  FALSE
        BY <3>1, <2>1, <2>2, <2>5 DEF NoDup
      <3> QED BY <3>1, <2>2, <2>6 DEF NoDup
    <2>9. \A S : Within(m, e, S)
      BY <2>1, <2>2, <2>6, <2>5 DEF Within
    <2>10. ASSUME NEW x, NEW S, Within(l, x, S) PROVE Within(m, x, S \cup {e})
      <3>1. PICK k \in 1..Len(l) : l[k] = x /\ \A j \in 1..(k - 1) : l[j] \in S
        BY <2>10 DEF Within
      <3>2. CASE k = p
        BY <3>1, <3>2, <2>1, <2>9
      <3>3. CASE k < p
        <4>1. m[k + 1] = x /\ k + 1 \in 1..Len(m)
          BY <3>1, <3>3, <2>1, <2>2, <2>6, <2>5
        <4>2. \A j \in 1..((k + 1) - 1) : m[j] \in S \cup {e}
          BY <3>1, <3>3, <2>1, <2>2, <2>6, <2>5
        <4> QED BY <4>1, <4>2 DEF Within
      <3>4. CASE k > p
        <4>1. m[k] = x /\ k \in 1..Len(m)
          BY <3>1, <3>4, <2>1, <2>2, <2>6, <2>5
        <4>2. \A j \in 1..(k - 1) : m[j] \in S \cup {e}
          BY <3>1, <3>4, <2>1, <2>2, <2>6, <2>5
        <4> QED BY <4>1, <4>2 DEF Within
      <3> QED BY <3>1, <3>2, <3>3, <3>4, <2>1
    <2> QED BY <2>4, <2>6, <2>8, <2>9, <2>10
  <1>2. CASE ~Contains(l, e)
    <2>0. PICK m : m = <<e>> \o l
      BY Zenon
    <2>1. ToFront(l, e) = m
      BY <1>2, <2>0 DEF ToFront
    <2>2. /\ m \in Seq(T) /\ Len(l) \in Nat /\ Len(m) = Len(l) + 1 /\ m[1] = e
          /\ \A j \in 2..Len(m) : m[j] = l[j - 1] /\ j - 1 \in 1..Len(l)
      BY <2>0
    <2>3. NoDup(m)
      <3>1. ASSUME NEW i \in 1..Len(m), NEW j \in 1..Len(m), m[i] = m[j], i < j
            PROVE  FALSE
        <4>1. j \in 2..Len(m) /\ m[j] = l[j - 1] /\ j - 1 \in 1..Len(l)
          BY <3>1, <2>2
        <4>2. CASE i = 1
          BY <3>1, <4>1, <4>2, <2>2, <1>2 DEF Contains
        <4>3. CASE i # 1
          <5>1. i \in 2..Len(m)
            BY <4>3, <2>2
          <5>2. m[i] = l[i - 1] /\ i - 1 \in 1..Len(l)
            BY <5>1, <2>2
          <5>3. i - 1 = j - 1
            BY <3>1, <4>1, <5>2 DEF NoDup
          <5> QED BY <3>1, <4>1, <5>1, <5>3, <2>2
        <4> QED BY <4>2, <4>3
      <3> QED BY <3>1, <2>2 DEF NoDup
    <2>4. \A S : Within(m, e, S)
      BY <2>2 DEF Within
    <2>5. ASSUME NEW x, NEW S, Within(l, x, S) PROVE Within(m, x, S \cup {e})
      <3>1. PICK k \in 1..Len(l) : l[k] = x /\ \A j \in 1..(k - 1) : l[j] \in S
        BY <2>5 DEF Within
      <3>2. m[k + 1] = x /\ k + 1 \in 1..Len(m)
        BY <3>1, <2>2
      <3>3. ASSUME NEW j \in 1..((k + 1) - 1) PROVE m[j] \in S \cup {e}
        <4>1. CASE j = 1
          BY <4>1, <2>2
        <4>2. CASE j # 1
          <5>1. j \in 2..Len(m) /\ j - 1 \in 1..(k - 1)
            BY <4>2, <3>1, <2>2
          <5>2. m[j] = l[j - 1]
            BY <5>1, <2>2
          <5> QED BY <5>1, <5>2, <3>1
        <4> QED BY <4>1, <4>2
      <3> QED BY <3>2, <3>3 DEF Within
    <2> QED BY <2>1, <2>2, <2>3, <2>4, <2>5
  <1> QED BY <1>1, <1>2

LEMMA FrontHolds ==
    ASSUME NEW T, NEW l \in Seq(T), NEW e \in T
    PROVE  \A x : Contains(ToFront(l, e), x) => x = e \/ Contains(l, x)
  <1>1. CASE Contains(l, e)
    <2>1. PICK p \in 1..Len(l) : p = PlaceOf(l, e) /\ l[p] = e
      BY <1>1 DEF Contains, PlaceOf
    <2>2. PICK m : m = MoveToFront(l, p)
      BY Zenon
    <2>3. ToFront(l, e) = m
      BY <1>1, <2>1, <2>2 DEF ToFront
    <2>4. m = [j \in 1..Len(l) |-> IF j = 1 THEN l[p] ELSE IF j <= p THEN l[j - 1] ELSE l[j]]
      BY <2>2 DEF MoveToFront
    <2>5. Len(l) \in Nat /\ Len(m) = Len(l)
      BY <2>4, LenProperties
    <2>6. ASSUME NEW j \in 1..Len(l) PROVE m[j] = e \/ Contains(l, m[j])
      BY <2>1, <2>4, <2>5 DEF Contains
    <2> QED BY <2>3, <2>5, <2>6 DEF Contains
  <1>2. CASE ~Contains(l, e)
    <2>1. PICK m : m = <<e>> \o l
      BY Zenon
    <2>2. ToFront(l, e) = m
      BY <1>2, <2>1 DEF ToFront
    <2>3. /\ Len(l) \in Nat /\ Len(m) = Len(l) + 1 /\ m[1] = e
          /\ \A j \in 2..Len(m) : m[j] = l[j - 1] /\ j - 1 \in 1..Len(l)
      BY <2>1
    <2>4. ASSUME NEW j \in 1..Len(m) PROVE m[j] = e \/ Contains(l, m[j])
      <3>1. CASE j = 1
        BY <3>1, <2>3
      <3>2. CASE j \in 2..Len(m)
        BY <3>2, <2>3 DEF Contains
      <3> QED BY <3>1, <3>2, <2>3
    <2> QED BY <2>2, <2>4 DEF Contains
  <1> QED BY <1>1, <1>2

LEMMA Slice ==
    ASSUME NEW T, NEW l \in Seq(T), NEW a \in Int, NEW z \in Int, 1 <= a, z <= Len(l), a <= z + 1,
           NEW m, m = SubSeq(l, a, z)
    PROVE  m \in Seq(T) /\ Len(m) = z - a + 1 /\ \A i \in 1..(z - a + 1) : m[i] = l[a + i - 1]
  <1>1. \A i \in a..z : l[i] \in T
    OBVIOUS
  <1>2. m \in Seq(T)
    BY <1>1, SubSeqProperties
  <1>3. Len(m) = IF a <= z THEN z - a + 1 ELSE 0
    BY <1>1, SubSeqProperties
  <1>4. \A i \in 1..(z - a + 1) : m[i] = l[a + i - 1]
    BY <1>1, SubSeqProperties
  <1> QED BY <1>2, <1>3, <1>4

(* When the last one leaves, everybody else keeps what is ahead.           *)
LEMMA LastEvicted ==
    ASSUME NEW T, NEW l \in Seq(T), l # <<>>, NoDup(l)
    PROVE  /\ Front(l) \in Seq(T)
           /\ NoDup(Front(l))
           /\ \A x : Contains(Front(l), x) => Contains(l, x)
           /\ \A x, S : Within(l, x, S) /\ x # Last(l) => Within(Front(l), x, S)
  <1>1. /\ Front(l) \in Seq(T) /\ Len(l) \in Nat \ {0} /\ Len(Front(l)) = Len(l) - 1
        /\ \A j \in 1..(Len(l) - 1) : Front(l)[j] = l[j]
    <2>1. Len(l) \in Nat \ {0} /\ \A j \in 1..(Len(l) - 1) : l[j] \in T
      BY EmptySeq
    <2>2. PICK n : n = Len(l) - 1
      BY Zenon
    <2>3. n \in Int /\ 1 \in Int /\ 1 <= n + 1 /\ n <= Len(l)
      BY <2>1, <2>2
    <2>4. PICK m : m = SubSeq(l, 1, n)
      BY Zenon
    <2>5. m \in Seq(T) /\ Len(m) = n - 1 + 1 /\ \A i \in 1..(n - 1 + 1) : m[i] = l[1 + i - 1]
      BY <2>3, <2>4, Slice
    <2>6. m = Front(l)
      BY <2>2, <2>4 DEF Front
    <2>7. Len(m) = n /\ \A j \in 1..n : m[j] = l[j]
      BY <2>3, <2>5
    <2> QED BY <2>1, <2>2, <2>5, <2>6, <2>7
  <1>2. NoDup(Front(l))
    BY <1>1 DEF NoDup
  <1>3. \A x : Contains(Front(l), x) => Contains(l, x)
    BY <1>1 DEF Contains
  <1>4. ASSUME NEW x, NEW S, Within(l, x, S), x # Last(l)
        PROVE  Within(Front(l), x, S)
    <2>1. PICK k \in 1..Len(l) : l[k] = x /\ \A j \in 1..(k - 1) : l[j] \in S
      BY <1>4 DEF Within
    <2>2. k < Len(l)
      BY <2>1, <1>4, <1>1 DEF Last
    <2> QED BY <2>1, <2>2, <1>1 DEF Within
  <1> QED BY <1>1, <1>2, <1>3, <1>4

(* The last one of a full list, and a newcomer, have met the whole bound.  *)
LEMMA LastIsOutnumbered ==
    ASSUME NEW T, NEW l \in Seq(T), NEW e, NEW S, NEW n \in Nat \ {0}, NoDup(l),
           ~Contains(l, e), Len(l) >= n, Within(l, Last(l), S), e \in S,
           IsFiniteSet(S)
    PROVE  l # <<>> /\ Cardinality(S) >= n
  <1>1. Len(l) \in Nat /\ Len(l) >= n /\ l # <<>>
    OBVIOUS
  <1>2. PICK k \in 1..Len(l) : l[k] = Last(l) /\ \A j \in 1..(k - 1) : l[j] \in S
    BY DEF Within
  <1>3. k = Len(l)
    BY <1>1, <1>2 DEF NoDup, Last
  <1> DEFINE f == [j \in 1..Len(l) |-> IF j < Len(l) THEN l[j] ELSE e]
  <1>4. \A j \in 1..Len(l) : f[j] \in S
    BY <1>1, <1>2, <1>3
  <1>5. \A i, j \in 1..Len(l) : f[i] = f[j] => i = j
    BY <1>1 DEF NoDup, Contains
  <1>6. f \in Injection(1..Len(l), S)
    BY <1>4, <1>5 DEF Injection, IsInjective
  <1>7. Cardinality(1..Len(l)) <= Cardinality(S)
    BY <1>6, FS_Injection
  <1>8. Cardinality(1..Len(l)) = Len(l)
    <2>1. 1 \in Int /\ Len(l) \in Int
      BY <1>1
    <2>2. Cardinality(1..Len(l)) = IF 1 > Len(l) THEN 0 ELSE Len(l) - 1 + 1
      BY <2>1, FS_Interval, Zenon
    <2> QED BY <2>2, <1>1
  <1> QED BY <1>1, <1>7, <1>8, FS_CardinalityType

(* An element used under a bound: the last one makes room for a newcomer,  *)
(* and whoever has met fewer than the bound stays.                         *)
Roomy(l, e, n) == IF ~Contains(l, e) /\ Len(l) >= n THEN Front(l) ELSE l

LEMMA Used ==
    ASSUME NEW T, NEW l \in Seq(T), NEW e \in T, NoDup(l), NEW n \in Nat \ {0}
    PROVE  /\ ToFront(Roomy(l, e, n), e) \in Seq(T)
           /\ NoDup(ToFront(Roomy(l, e, n), e))
           /\ \A S : Within(ToFront(Roomy(l, e, n), e), e, S)
           /\ \A x, S : /\ Within(l, x, S) /\ x # e
                        /\ IsFiniteSet(S) /\ Cardinality(S \cup {e}) < n
                     => /\ Within(ToFront(Roomy(l, e, n), e), x, S \cup {e})
                        /\ ~Contains(l, e) /\ Len(l) >= n => x # Last(l)
           /\ \A x : Contains(ToFront(Roomy(l, e, n), e), x) => x = e \/ Contains(l, x)
  <1>1. CASE Contains(l, e) \/ Len(l) < n
    <2>1. Roomy(l, e, n) = l
      BY <1>1 DEF Roomy
    <2>2. \A x : Contains(ToFront(l, e), x) => x = e \/ Contains(l, x)
      BY FrontHolds
    <2>3. PICK m : m = ToFront(l, e)
      BY Zenon
    <2>4. /\ m \in Seq(T) /\ NoDup(m) /\ \A S : Within(m, e, S)
          /\ \A x, S : Within(l, x, S) => Within(m, x, S \cup {e})
      BY <2>3, FrontMoved
    <2>5. ~(~Contains(l, e) /\ Len(l) >= n)
      BY <1>1
    <2>6. ToFront(Roomy(l, e, n), e) = m
      BY <2>1, <2>3
    <2> QED BY <2>2, <2>3, <2>4, <2>5, <2>6, Zenon
  <1>2. CASE ~Contains(l, e) /\ Len(l) >= n
    <2>1. Roomy(l, e, n) = Front(l)
      BY <1>2 DEF Roomy
    <2>2. l # <<>>
      BY <1>2
    <2>3. PICK f : f = Front(l)
      BY Zenon
    <2>4. /\ f \in Seq(T) /\ NoDup(f)
          /\ \A x : Contains(f, x) => Contains(l, x)
          /\ \A x, S : Within(l, x, S) /\ x # Last(l) => Within(f, x, S)
      BY <2>2, <2>3, LastEvicted
    <2>5. /\ ToFront(f, e) \in Seq(T) /\ NoDup(ToFront(f, e))
          /\ \A S : Within(ToFront(f, e), e, S)
          /\ \A x, S : Within(f, x, S) => Within(ToFront(f, e), x, S \cup {e})
          /\ \A x : Contains(ToFront(f, e), x) => x = e \/ Contains(f, x)
      BY <2>4, FrontMoved, FrontHolds
    <2>6. ASSUME NEW x, NEW S, Within(l, x, S), x # e, IsFiniteSet(S), Cardinality(S \cup {e}) < n
          PROVE  x # Last(l)
      <3> SUFFICES ASSUME x = Last(l) PROVE FALSE
        OBVIOUS
      <3>1. PICK R : R = S \cup {e}
        BY Zenon
      <3>2. IsFiniteSet(R) /\ e \in R
        BY <2>6, <3>1, FS_AddElement
      <3>3. Within(l, Last(l), R)
        BY <2>6, <3>1 DEF Within
      <3>4. Cardinality(R) >= n
        BY <1>2, <3>2, <3>3, LastIsOutnumbered
      <3> QED BY <2>6, <3>1, <3>2, <3>4, FS_CardinalityType
    <2> QED BY <1>2, <2>1, <2>3, <2>4, <2>5, <2>6
  <1>3. Len(l) \in Nat
    OBVIOUS
  <1> QED BY <1>1, <1>2, <1>3

(* A session recorded under the bound of its scope, where the oldest is    *)
(* the first.                                                              *)
LEMMA SessionRecorded ==
    ASSUME NEW T, NEW l \in Seq(T), NEW e \in T, NoDup(l), maxSessionsPerScope \in Nat \ {0}
    PROVE  /\ record(l, e) \in Seq(T) /\ NoDup(record(l, e))
           /\ ~Contains(l, e) => Behind(record(l, e), e, {})
           /\ \A S : Behind(l, e, S) => Behind(record(l, e), e, S)
           /\ \A x, S : /\ Behind(l, x, S) /\ x # e
                        /\ IsFiniteSet(S) /\ Cardinality(S \cup {e}) < maxSessionsPerScope
                     => Behind(record(l, e), x, S \cup {e})
  <1>0. PICK n : n = maxSessionsPerScope
    BY Zenon
  <1>1. CASE Contains(l, e)
    <2>1. record(l, e) = l
      BY <1>1 DEF record
    <2>2. \A x, S : Behind(l, x, S) => Behind(l, x, S \cup {e})
      BY DEF Behind
    <2> QED BY <1>1, <2>1, <2>2
  <1>2. CASE ~Contains(l, e)
    <2>1. PICK k : k = IF Len(l) >= n THEN Tail(l) ELSE l
      BY Zenon
    <2>2. PICK d \in {0, 1} : d = IF Len(l) >= n THEN 1 ELSE 0
      OBVIOUS
    <2>3. /\ Len(l) \in Nat /\ Len(l) >= d /\ k \in Seq(T) /\ Len(k) = Len(l) - d
          /\ \A j \in 1..Len(k) : k[j] = l[j + d]
      <3>1. CASE Len(l) >= n
        <4>1. l # <<>>
          BY <3>1, <1>0
        <4>2. /\ Tail(l) \in Seq(T) /\ Len(Tail(l)) = Len(l) - 1
              /\ \A j \in 1..Len(Tail(l)) : Tail(l)[j] = l[j + 1]
          BY <4>1, HeadTailProperties
        <4> QED BY <3>1, <4>2, <1>0, <2>1, <2>2
      <3>2. CASE ~(Len(l) >= n)
        BY <3>2, <2>1, <2>2
      <3> QED BY <3>1, <3>2
    <2>4. PICK m : m = Append(k, e)
      BY Zenon
    <2>5. record(l, e) = m
      BY <1>0, <1>2, <2>1, <2>4 DEF record
    <2>6. /\ m \in Seq(T) /\ Len(m) = Len(k) + 1 /\ m[Len(m)] = e
          /\ \A j \in 1..Len(k) : m[j] = l[j + d] /\ j + d \in 1..Len(l)
      BY <2>3, <2>4
    <2>7. NoDup(m)
      <3>1. ASSUME NEW i \in 1..Len(m), NEW j \in 1..Len(m), m[i] = m[j], i < j
            PROVE  FALSE
        <4>1. i \in 1..Len(k) /\ m[i] = l[i + d] /\ i + d \in 1..Len(l)
          BY <3>1, <2>3, <2>6
        <4>2. CASE j = Len(m)
          BY <3>1, <4>1, <4>2, <2>6, <1>2 DEF Contains
        <4>3. CASE j # Len(m)
          <5>1. j \in 1..Len(k)
            BY <4>3, <2>3, <2>6
          <5>2. m[j] = l[j + d] /\ j + d \in 1..Len(l)
            BY <5>1, <2>6
          <5>3. i + d = j + d
            BY <3>1, <4>1, <5>2 DEF NoDup
          <5> QED BY <3>1, <4>1, <5>1, <5>3, <2>2
        <4> QED BY <4>2, <4>3
      <3>2. Len(m) \in Nat
        BY <2>6
      <3> QED BY <3>1, <3>2 DEF NoDup
    <2>8. Behind(m, e, {})
      <3>1. Len(m) \in 1..Len(m) /\ (Len(m) + 1)..Len(m) = {}
        BY <2>3, <2>6
      <3> QED BY <3>1, <2>6 DEF Behind
    <2>9. \A S : ~Behind(l, e, S)
      BY <1>2 DEF Behind, Contains
    <2>10. ASSUME NEW x, NEW S, Behind(l, x, S), x # e, IsFiniteSet(S), Cardinality(S \cup {e}) < n
           PROVE  Behind(m, x, S \cup {e})
      <3>1. PICK i \in 1..Len(l) : l[i] = x /\ \A j \in (i + 1)..Len(l) : l[j] \in S
        BY <2>10 DEF Behind
      <3>2. i > d
        <4> SUFFICES ASSUME ~(i > d) PROVE FALSE
          OBVIOUS
        <4>1. i = 1 /\ Len(l) >= n
          BY <3>1, <2>2
        <4>2. PICK R : R = S \cup {e}
          BY Zenon
        <4>3. IsFiniteSet(R)
          BY <2>10, <4>2, FS_AddElement
        <4> DEFINE f == [j \in 1..Len(l) |-> IF j = 1 THEN e ELSE l[j]]
        <4>4. \A j \in 1..Len(l) : f[j] \in R
          BY <3>1, <4>1, <4>2, <2>3
        <4>5. \A a, b \in 1..Len(l) : f[a] = f[b] => a = b
          BY <1>2, <2>3 DEF NoDup, Contains
        <4>6. f \in Injection(1..Len(l), R)
          BY <4>4, <4>5 DEF Injection, IsInjective
        <4>7. Cardinality(1..Len(l)) <= Cardinality(R)
          BY <4>3, <4>6, FS_Injection
        <4>8. Cardinality(1..Len(l)) = Len(l)
          <5>1. 1 \in Int /\ Len(l) \in Int
            BY <2>3
          <5>2. Cardinality(1..Len(l)) = IF 1 > Len(l) THEN 0 ELSE Len(l) - 1 + 1
            BY <5>1, FS_Interval, Zenon
          <5> QED BY <5>2, <2>3
        <4>9. Cardinality(R) \in Nat /\ n \in Nat
          BY <1>0, <4>3, FS_CardinalityType
        <4> QED BY <2>10, <4>1, <4>2, <4>7, <4>8, <4>9, <2>3
      <3>3. PICK p : p = i - d
        BY Zenon
      <3>4. p \in 1..Len(k) /\ p + d = i /\ p \in 1..Len(m)
        BY <3>2, <3>3, <2>2, <2>3, <2>6
      <3>5. m[p] = x
        BY <3>1, <3>4, <2>6
      <3>6. ASSUME NEW j \in (p + 1)..Len(m) PROVE m[j] \in S \cup {e}
        <4>1. CASE j = Len(m)
          BY <4>1, <2>6
        <4>2. CASE j # Len(m)
          <5>1. j \in 1..Len(k) /\ j + d \in (i + 1)..Len(l)
            BY <4>2, <3>4, <2>2, <2>3, <2>6
          <5> QED BY <5>1, <2>6, <3>1
        <4> QED BY <4>1, <4>2
      <3> QED BY <3>4, <3>5, <3>6 DEF Behind
    <2> QED BY <1>0, <1>2, <2>5, <2>6, <2>7, <2>8, <2>9, <2>10
  <1> QED BY <1>1, <1>2

(* One taken out of a list leaves the others in their order.               *)
LEMMA OneLifted ==
    ASSUME NEW T, NEW l \in Seq(T), NEW e, NoDup(l)
    PROVE  /\ untombstone(l, e) \in Seq(T) /\ NoDup(untombstone(l, e))
           /\ \A x : Contains(untombstone(l, e), x) => Contains(l, x)
           /\ \A x, S : Within(l, x, S) /\ x # e => Within(untombstone(l, e), x, S)
  <1>1. CASE ~Contains(l, e)
    BY <1>1 DEF untombstone
  <1>2. CASE Contains(l, e)
    <2>1. PICK p \in 1..Len(l) : p = PlaceOf(l, e) /\ l[p] = e
      BY <1>2 DEF Contains, PlaceOf
    <2>2. Len(l) \in Nat /\ \A j \in 1..Len(l) : l[j] \in T
      OBVIOUS
    <2>3. PICK a : a = SubSeq(l, 1, p - 1)
      BY Zenon
    <2>4. PICK b : b = SubSeq(l, p + 1, Len(l))
      BY Zenon
    <2>5. a \in Seq(T) /\ Len(a) = p - 1 /\ \A j \in 1..(p - 1) : a[j] = l[j]
      <3>1. PICK n : n = p - 1
        BY Zenon
      <3>2. n \in Int /\ 1 \in Int /\ 1 <= n + 1 /\ n <= Len(l) /\ a = SubSeq(l, 1, n)
        BY <2>1, <2>2, <2>3, <3>1
      <3>3. a \in Seq(T) /\ Len(a) = n - 1 + 1 /\ \A i \in 1..(n - 1 + 1) : a[i] = l[1 + i - 1]
        BY <3>2, Slice
      <3> QED BY <2>1, <2>2, <3>1, <3>2, <3>3
    <2>6. /\ b \in Seq(T) /\ Len(b) = Len(l) - p
          /\ \A j \in 1..(Len(l) - p) : b[j] = l[p + j]
      <3>1. PICK n : n = p + 1
        BY Zenon
      <3>2. PICK q : q = Len(l)
        BY Zenon
      <3>3. n \in Int /\ q \in Int /\ 1 <= n /\ q <= Len(l) /\ n <= q + 1 /\ b = SubSeq(l, n, q)
        BY <2>1, <2>2, <2>4, <3>1, <3>2
      <3>4. b \in Seq(T) /\ Len(b) = q - n + 1 /\ \A i \in 1..(q - n + 1) : b[i] = l[n + i - 1]
        BY <3>3, Slice
      <3>5. q - n + 1 = Len(l) - p /\ \A i \in 1..(Len(l) - p) : n + i - 1 = p + i
        BY <2>1, <2>2, <3>1, <3>2
      <3> QED BY <3>4, <3>5
    <2>7. PICK m : m = a \o b
      BY Zenon
    <2>8. untombstone(l, e) = m
      BY <1>2, <2>1, <2>3, <2>4, <2>7 DEF untombstone, RemoveAt
    <2>9. /\ m \in Seq(T) /\ Len(m) = Len(l) - 1
          /\ \A j \in 1..(p - 1) : m[j] = l[j]
          /\ \A j \in p..(Len(l) - 1) : m[j] = l[j + 1]
      <3>1. /\ m \in Seq(T) /\ Len(m) = Len(a) + Len(b)
            /\ \A j \in 1..(Len(a) + Len(b)) : m[j] = IF j <= Len(a) THEN a[j] ELSE b[j - Len(a)]
        BY <2>5, <2>6, <2>7, ConcatProperties
      <3>2. Len(m) = Len(l) - 1
        BY <2>1, <2>2, <2>5, <2>6, <3>1
      <3>3. ASSUME NEW j \in 1..(p - 1) PROVE m[j] = l[j]
        <4>1. j \in 1..(Len(a) + Len(b)) /\ j <= Len(a)
          BY <2>1, <2>2, <2>5, <2>6
        <4> QED BY <4>1, <2>5, <3>1
      <3>4. ASSUME NEW j \in p..(Len(l) - 1) PROVE m[j] = l[j + 1]
        <4>1. j \in 1..(Len(a) + Len(b)) /\ ~(j <= Len(a)) /\ j - Len(a) \in 1..(Len(l) - p)
          BY <2>1, <2>2, <2>5, <2>6
        <4>2. m[j] = b[j - Len(a)] /\ b[j - Len(a)] = l[p + (j - Len(a))]
          BY <4>1, <2>6, <3>1
        <4>3. p + (j - Len(a)) = j + 1
          BY <2>1, <2>2, <2>5
        <4> QED BY <4>2, <4>3
      <3> QED BY <3>1, <3>2, <3>3, <3>4
    <2>10. \A j \in 1..Len(m) : \E i \in 1..Len(l) : m[j] = l[i] /\ i = IF j < p THEN j ELSE j + 1
      <3> SUFFICES ASSUME NEW j \in 1..Len(m)
                   PROVE  \E i \in 1..Len(l) : m[j] = l[i] /\ i = IF j < p THEN j ELSE j + 1
        OBVIOUS
      <3>1. CASE j < p
        BY <3>1, <2>1, <2>2, <2>9
      <3>2. CASE ~(j < p)
        <4>1. j \in p..(Len(l) - 1) /\ j + 1 \in 1..Len(l)
          BY <3>2, <2>1, <2>2, <2>9
        <4> QED BY <3>2, <4>1, <2>9
      <3> QED BY <3>1, <3>2
    <2>11. NoDup(m)
      <3>1. ASSUME NEW i \in 1..Len(m), NEW j \in 1..Len(m), m[i] = m[j]
            PROVE  i = j
        <4>1. PICK x \in 1..Len(l) : m[i] = l[x] /\ x = IF i < p THEN i ELSE i + 1
          BY <2>10
        <4>2. PICK y \in 1..Len(l) : m[j] = l[y] /\ y = IF j < p THEN j ELSE j + 1
          BY <2>10
        <4>3. x = y
          BY <3>1, <4>1, <4>2 DEF NoDup
        <4>4. i \in Int /\ j \in Int /\ p \in Int
          BY <2>1, <2>2, <2>9
        <4> QED BY <4>1, <4>2, <4>3, <4>4
      <3> QED BY <3>1 DEF NoDup
    <2>12. \A x : Contains(m, x) => Contains(l, x)
      BY <2>10 DEF Contains
    <2>13. ASSUME NEW x, NEW S, Within(l, x, S), x # e PROVE Within(m, x, S)
      <3>1. PICK k \in 1..Len(l) : l[k] = x /\ \A j \in 1..(k - 1) : l[j] \in S
        BY <2>13 DEF Within
      <3>2. k # p
        BY <3>1, <2>1, <2>13
      <3>3. CASE k < p
        <4>1. k \in 1..Len(m) /\ m[k] = x
          BY <3>1, <3>3, <2>1, <2>2, <2>9
        <4>2. ASSUME NEW j \in 1..(k - 1) PROVE m[j] \in S
          BY <3>1, <3>3, <2>1, <2>2, <2>9
        <4> QED BY <4>1, <4>2 DEF Within
      <3>4. CASE k > p
        <4>1. k - 1 \in 1..Len(m) /\ k - 1 \in p..(Len(l) - 1)
          BY <3>1, <3>4, <2>1, <2>2, <2>9
        <4>2. m[k - 1] = x
          BY <4>1, <3>1, <2>2, <2>9
        <4>3. ASSUME NEW j \in 1..((k - 1) - 1) PROVE m[j] \in S
          <5>1. PICK i \in 1..Len(l) : m[j] = l[i] /\ i = IF j < p THEN j ELSE j + 1
            BY <2>10, <4>1, <2>2, <2>9
          <5>2. i \in 1..(k - 1)
            BY <5>1, <2>1, <2>2, <4>1
          <5> QED BY <5>1, <5>2, <3>1
        <4> QED BY <4>1, <4>2, <4>3 DEF Within
      <3> QED BY <3>1, <3>2, <3>3, <3>4, <2>1, <2>2
    <2> QED BY <2>8, <2>9, <2>11, <2>12, <2>13
  <1> QED BY <1>1, <1>2

-----------------------------------------------------------------------------
(* A server's registry: lists without repetition at every level.           *)

SessionIDs == {req[3] : req \in Lookups}
RegistryType ==
    [live : BOOLEAN, orgLRU : Seq(BucketOrgs), keyLRU : [BucketOrgs -> Seq(BucketKeys)],
     sessions : [RegistryScopes -> Seq(SessionIDs)]]
Sound(srv) ==
    /\ srv \in RegistryType
    /\ NoDup(srv.orgLRU)
    /\ \A o \in BucketOrgs : NoDup(srv.keyLRU[o])
    /\ \A sc \in RegistryScopes : NoDup(srv.sessions[sc])

LEMMA Nothing ==
    ASSUME NEW T
    PROVE  <<>> \in Seq(T) /\ NoDup(<<>>) /\ \A x : ~Contains(<<>>, x)
  BY DEF NoDup, Contains

LEMMA NewIsSound == Sound(NewRegistry) /\ Sound(Absent) /\ NewRegistry.live /\ ~Absent.live
  <1>1. /\ <<>> \in Seq(BucketOrgs) /\ <<>> \in Seq(BucketKeys) /\ <<>> \in Seq(SessionIDs)
        /\ NoDup(<<>>)
    BY Nothing
  <1> QED BY <1>1 DEF NewRegistry, Absent, Sound, RegistryType

LEMMA Buckets ==
    ASSUME NEW sc \in RegistryScopes
    PROVE  /\ scopeBucket(sc)[1] \in BucketOrgs /\ scopeBucket(sc)[2] \in BucketKeys
           /\ scopeBucket(sc) = <<scopeBucket(sc)[1], scopeBucket(sc)[2]>>
  BY DEF BucketOrgs, BucketKeys, scopeBucket

(* touchOrg: whose organisation has met fewer than the bound keeps its keys *)
(* and sessions.                                                            *)
OrgUsed(srv, o, t) ==
    /\ Sound(t) /\ t.live = srv.live
    /\ \A sc \in RegistryScopes : t.sessions[sc] \in {srv.sessions[sc], <<>>}
    /\ \A S : Within(t.orgLRU, o, S)
    /\ \A w \in BucketOrgs : \A S :
          /\ Within(srv.orgLRU, w, S)
          /\ w # o => IsFiniteSet(S) /\ Cardinality(S \cup {o}) < maxOrgsPerServer
          => /\ w # o => Within(t.orgLRU, w, S \cup {o})
             /\ t.keyLRU[w] = srv.keyLRU[w]
             /\ \A sc \in RegistryScopes :
                   scopeBucket(sc)[1] = w => t.sessions[sc] = srv.sessions[sc]

LEMMA OrgTouched ==
    ASSUME RegistryParameters, NEW srv, Sound(srv), NEW o \in BucketOrgs, NEW t, t = touchOrg(srv, o)
    PROVE  OrgUsed(srv, o, t)
  <1>1. /\ srv \in RegistryType /\ srv.orgLRU \in Seq(BucketOrgs) /\ NoDup(srv.orgLRU)
        /\ maxOrgsPerServer \in Nat \ {0}
    BY DEF Sound, RegistryType, RegistryParameters
  <1>2. PICK l : l = ToFront(Roomy(srv.orgLRU, o, maxOrgsPerServer), o)
    BY Zenon
  <1>3. /\ l \in Seq(BucketOrgs) /\ NoDup(l) /\ \A S : Within(l, o, S)
        /\ \A x, S : /\ Within(srv.orgLRU, x, S) /\ x # o
                     /\ IsFiniteSet(S) /\ Cardinality(S \cup {o}) < maxOrgsPerServer
                  => /\ Within(l, x, S \cup {o})
                     /\ ~Contains(srv.orgLRU, o) /\ Len(srv.orgLRU) >= maxOrgsPerServer => x # Last(srv.orgLRU)
    BY <1>1, <1>2, Used
  <1>4. CASE ~(~Contains(srv.orgLRU, o) /\ Len(srv.orgLRU) >= maxOrgsPerServer)
    <2>1. t = [srv EXCEPT !.orgLRU = l]
      BY <1>2, <1>4 DEF touchOrg, Roomy
    <2>2. /\ t \in RegistryType /\ t.live = srv.live /\ t.orgLRU = l
          /\ t.keyLRU = srv.keyLRU /\ t.sessions = srv.sessions
      BY <1>1, <1>3, <2>1 DEF RegistryType
    <2> QED BY <1>1, <1>3, <2>2 DEF Sound, OrgUsed
  <1>5. CASE ~Contains(srv.orgLRU, o) /\ Len(srv.orgLRU) >= maxOrgsPerServer
    <2>1. PICK last : last = Last(srv.orgLRU)
      BY Zenon
    <2>2. PICK e : e = EvictOrg(srv)
      BY Zenon
    <2>3. e = [srv EXCEPT !.orgLRU = Front(@), !.keyLRU[last] = <<>>,
                  !.sessions = [sc \in RegistryScopes |-> IF scopeBucket(sc)[1] = last THEN <<>> ELSE @[sc]]]
      BY <2>1, <2>2 DEF EvictOrg
    <2>4. /\ DOMAIN e = DOMAIN srv /\ e.live = srv.live /\ e.orgLRU = Front(srv.orgLRU)
          /\ e.keyLRU = [srv.keyLRU EXCEPT ![last] = <<>>]
          /\ e.sessions = [sc \in RegistryScopes |-> IF scopeBucket(sc)[1] = last THEN <<>> ELSE srv.sessions[sc]]
      BY <1>1, <2>3 DEF RegistryType
    <2>5. t = [e EXCEPT !.orgLRU = l]
      <3>1. t = [e EXCEPT !.orgLRU = ToFront(@, o)]
        BY <1>5, <2>2 DEF touchOrg
      <3>2. ToFront(e.orgLRU, o) = l
        BY <1>2, <1>5, <2>4 DEF Roomy
      <3> QED BY <3>1, <3>2
    <2>6. /\ e.keyLRU \in [BucketOrgs -> Seq(BucketKeys)]
          /\ \A q \in BucketOrgs : e.keyLRU[q] = IF q = last THEN <<>> ELSE srv.keyLRU[q]
      <3>1. PICK f : f = srv.keyLRU
        BY Zenon
      <3>2. f \in [BucketOrgs -> Seq(BucketKeys)]
        BY <1>1, <3>1 DEF RegistryType
      <3>3. PICK g : g = [f EXCEPT ![last] = <<>>]
        BY Zenon
      <3>4. DOMAIN g = BucketOrgs /\ \A q \in BucketOrgs : g[q] = IF q = last THEN <<>> ELSE f[q]
        BY <3>2, <3>3
      <3>5. g = [q \in BucketOrgs |-> g[q]]
        BY <3>2, <3>3
      <3>6. \A q \in BucketOrgs : g[q] \in Seq(BucketKeys)
        BY <3>2, <3>4, Nothing
      <3>7. g \in [BucketOrgs -> Seq(BucketKeys)]
        BY <3>5, <3>6
      <3> QED BY <2>4, <3>1, <3>3, <3>4, <3>7
    <2>7. /\ e.sessions \in [RegistryScopes -> Seq(SessionIDs)]
          /\ \A sc \in RegistryScopes :
                e.sessions[sc] = IF scopeBucket(sc)[1] = last THEN <<>> ELSE srv.sessions[sc]
      BY <1>1, <2>4, Nothing DEF RegistryType
    <2>8. /\ t.live = srv.live /\ t.orgLRU = l /\ t.keyLRU = e.keyLRU /\ t.sessions = e.sessions
          /\ t \in RegistryType
      BY <1>1, <1>3, <2>3, <2>4, <2>5, <2>6, <2>7 DEF RegistryType
    <2>9. Sound(t)
      BY <1>3, <2>6, <2>7, <2>8, Nothing DEF Sound
    <2>10. ASSUME NEW w \in BucketOrgs, NEW S, Within(srv.orgLRU, w, S),
                  w # o => IsFiniteSet(S) /\ Cardinality(S \cup {o}) < maxOrgsPerServer
           PROVE  w # o /\ w # last /\ Within(l, w, S \cup {o})
      <3>1. w # o
        BY <1>5, <2>10 DEF Within, Contains
      <3> QED BY <1>3, <1>5, <2>1, <2>10, <3>1
    <2> QED BY <1>3, <2>6, <2>7, <2>8, <2>9, <2>10 DEF OrgUsed
  <1> QED BY <1>4, <1>5

(* touchKey, the same one level down. *)
KeyUsed(srv, o, k, t) ==
    /\ Sound(t) /\ t.live = srv.live /\ t.orgLRU = srv.orgLRU
    /\ \A sc \in RegistryScopes : t.sessions[sc] \in {srv.sessions[sc], <<>>}
    /\ \A w \in BucketOrgs : w # o => t.keyLRU[w] = srv.keyLRU[w]
    /\ \A sc \in RegistryScopes : scopeBucket(sc)[1] # o => t.sessions[sc] = srv.sessions[sc]
    /\ \A S : Within(t.keyLRU[o], k, S)
    /\ \A q, S :
          /\ Within(srv.keyLRU[o], q, S)
          /\ q # k => IsFiniteSet(S) /\ Cardinality(S \cup {k}) < maxKeysPerOrg
          => /\ q # k => Within(t.keyLRU[o], q, S \cup {k})
             /\ \A sc \in RegistryScopes :
                   scopeBucket(sc) = <<o, q>> => t.sessions[sc] = srv.sessions[sc]

LEMMA KeyTouched ==
    ASSUME RegistryParameters, NEW srv, Sound(srv), NEW o \in BucketOrgs, NEW k \in BucketKeys,
           NEW t, t = touchKey(srv, o, k)
    PROVE  KeyUsed(srv, o, k, t)
  <1>1. /\ srv \in RegistryType /\ srv.keyLRU[o] \in Seq(BucketKeys) /\ NoDup(srv.keyLRU[o])
        /\ maxKeysPerOrg \in Nat \ {0}
    BY DEF Sound, RegistryType, RegistryParameters
  <1>0. PICK old : old = srv.keyLRU[o]
    BY Zenon
  <1>2. PICK l : l = ToFront(Roomy(old, k, maxKeysPerOrg), k)
    BY Zenon
  <1>3. /\ l \in Seq(BucketKeys) /\ NoDup(l) /\ \A S : Within(l, k, S)
        /\ \A x, S : /\ Within(old, x, S) /\ x # k
                     /\ IsFiniteSet(S) /\ Cardinality(S \cup {k}) < maxKeysPerOrg
                  => /\ Within(l, x, S \cup {k})
                     /\ ~Contains(old, k) /\ Len(old) >= maxKeysPerOrg => x # Last(old)
    BY <1>0, <1>1, <1>2, Used
  <1>4. CASE ~(~Contains(old, k) /\ Len(old) >= maxKeysPerOrg)
    <2>1. t = [srv EXCEPT !.keyLRU[o] = l]
      BY <1>0, <1>2, <1>4 DEF touchKey, Roomy
    <2>2. /\ t.live = srv.live /\ t.orgLRU = srv.orgLRU /\ t.sessions = srv.sessions
          /\ t.keyLRU = [srv.keyLRU EXCEPT ![o] = l] /\ DOMAIN t = DOMAIN srv
      BY <1>1, <2>1 DEF RegistryType
    <2>3. /\ t.keyLRU \in [BucketOrgs -> Seq(BucketKeys)]
          /\ \A w \in BucketOrgs : t.keyLRU[w] = IF w = o THEN l ELSE srv.keyLRU[w]
      BY <1>1, <1>3, <2>2 DEF RegistryType
    <2>4. t \in RegistryType
      BY <1>1, <2>1, <2>2, <2>3 DEF RegistryType
    <2>5. Sound(t)
      BY <1>3, <2>2, <2>3, <2>4 DEF Sound
    <2>6. t.keyLRU[o] = l
      BY <2>3
    <2> QED BY <1>0, <1>3, <2>2, <2>3, <2>5, <2>6 DEF KeyUsed
  <1>5. CASE ~Contains(old, k) /\ Len(old) >= maxKeysPerOrg
    <2>1. PICK last : last = Last(old)
      BY Zenon
    <2>2. PICK e : e = EvictKey(srv, o)
      BY Zenon
    <2>3. e = [srv EXCEPT !.keyLRU[o] = Front(@),
                  !.sessions = [sc \in RegistryScopes |-> IF scopeBucket(sc) = <<o, last>> THEN <<>> ELSE @[sc]]]
      BY <1>0, <2>1, <2>2 DEF EvictKey
    <2>4. /\ DOMAIN e = DOMAIN srv /\ e.live = srv.live /\ e.orgLRU = srv.orgLRU
          /\ e.keyLRU = [srv.keyLRU EXCEPT ![o] = Front(old)]
          /\ e.sessions = [sc \in RegistryScopes |-> IF scopeBucket(sc) = <<o, last>> THEN <<>> ELSE srv.sessions[sc]]
      BY <1>0, <1>1, <2>3 DEF RegistryType
    <2>5. /\ DOMAIN e.keyLRU = BucketOrgs /\ e.keyLRU[o] = Front(old)
          /\ \A w \in BucketOrgs : w # o => e.keyLRU[w] = srv.keyLRU[w]
      BY <1>1, <2>4 DEF RegistryType
    <2>6. t = [e EXCEPT !.keyLRU[o] = l]
      <3>1. t = [e EXCEPT !.keyLRU[o] = ToFront(@, k)]
        BY <1>0, <1>5, <2>2 DEF touchKey
      <3>2. ToFront(e.keyLRU[o], k) = l
        BY <1>2, <1>5, <2>5 DEF Roomy
      <3> QED BY <3>1, <3>2
    <2>7. /\ e.sessions \in [RegistryScopes -> Seq(SessionIDs)]
          /\ \A sc \in RegistryScopes :
                e.sessions[sc] = IF scopeBucket(sc) = <<o, last>> THEN <<>> ELSE srv.sessions[sc]
      BY <1>1, <2>4, Nothing DEF RegistryType
    <2>8. /\ t.live = srv.live /\ t.orgLRU = srv.orgLRU /\ t.sessions = e.sessions
          /\ t.keyLRU = [e.keyLRU EXCEPT ![o] = l] /\ DOMAIN t = DOMAIN srv
      BY <1>1, <2>3, <2>4, <2>6 DEF RegistryType
    <2>9. /\ t.keyLRU \in [BucketOrgs -> Seq(BucketKeys)]
          /\ \A w \in BucketOrgs : t.keyLRU[w] = IF w = o THEN l ELSE srv.keyLRU[w]
      <3>1. \A w \in BucketOrgs : srv.keyLRU[w] \in Seq(BucketKeys)
        BY <1>1 DEF RegistryType
      <3> QED BY <1>3, <2>5, <2>8, <3>1
    <2>10. t \in RegistryType
      BY <1>1, <2>3, <2>6, <2>7, <2>8, <2>9 DEF RegistryType
    <2>11. Sound(t)
      BY <1>1, <1>3, <2>7, <2>8, <2>9, <2>10, Nothing DEF Sound
    <2>12. t.keyLRU[o] = l
      BY <2>9
    <2>13. ASSUME NEW q, NEW S, Within(old, q, S),
                  q # k => IsFiniteSet(S) /\ Cardinality(S \cup {k}) < maxKeysPerOrg
           PROVE  q # k /\ q # last /\ Within(l, q, S \cup {k})
      <3>1. q # k
        BY <1>5, <2>13 DEF Within, Contains
      <3> QED BY <1>3, <1>5, <2>1, <2>13, <3>1
    <2>14. \A sc \in RegistryScopes : scopeBucket(sc)[1] # o => t.sessions[sc] = srv.sessions[sc]
      BY <2>7, <2>8
    <2>15. \A w \in BucketOrgs : w # o => t.keyLRU[w] = srv.keyLRU[w]
      BY <2>9
    <2>16. \A sc \in RegistryScopes : t.sessions[sc] \in {srv.sessions[sc], <<>>}
      BY <2>7, <2>8
    <2>17. ASSUME NEW q, NEW sc \in RegistryScopes, q # last, scopeBucket(sc) = <<o, q>>
           PROVE  t.sessions[sc] = srv.sessions[sc]
      BY <2>7, <2>8, <2>17
    <2>18. \A S : Within(t.keyLRU[o], k, S)
      BY <1>3, <2>12
    <2>19. ASSUME NEW q, NEW S, Within(srv.keyLRU[o], q, S),
                  q # k => IsFiniteSet(S) /\ Cardinality(S \cup {k}) < maxKeysPerOrg
           PROVE  /\ q # k => Within(t.keyLRU[o], q, S \cup {k})
                  /\ \A sc \in RegistryScopes : scopeBucket(sc) = <<o, q>> => t.sessions[sc] = srv.sessions[sc]
      <3>1. q # last /\ Within(l, q, S \cup {k})
        BY <1>0, <2>13, <2>19
      <3> QED BY <2>12, <2>17, <3>1
    <2>20. t.live = srv.live /\ t.orgLRU = srv.orgLRU
      BY <2>8
    <2> QED BY <2>11, <2>14, <2>15, <2>16, <2>18, <2>19, <2>20, Zenon DEF KeyUsed
  <1> QED BY <1>4, <1>5

(* What keeps Watched known: it is there at every level, and all that was   *)
(* used or recorded after it is in the three sets.                          *)
Home == scopeBucket(Watched[2])
Holds(srv, orgs, keys, sids) ==
    /\ Within(srv.orgLRU, Home[1], orgs)
    /\ Within(srv.keyLRU[Home[1]], Home[2], keys)
    /\ Behind(srv.sessions[Watched[2]], Watched[3], sids)

LEMMA HomeIsABucket ==
    ASSUME RegistryParameters
    PROVE  /\ Watched \in Lookups /\ Watched[1] \in Servers /\ Watched[2] \in RegistryScopes
           /\ Watched[3] \in SessionIDs
           /\ Home[1] \in BucketOrgs /\ Home[2] \in BucketKeys /\ Home = <<Home[1], Home[2]>>
  <1>1. Watched \in Lookups /\ Watched[1] \in Servers /\ Watched[2] \in RegistryScopes
    BY DEF RegistryParameters
  <1> QED BY <1>1, Buckets DEF Home, SessionIDs

RecordKeeps(srv, scope, sid, r, b) ==
    /\ Sound(r) /\ r.live = srv.live
    /\ scope = Watched[2] /\ sid = Watched[3] /\ ~entryKnown(srv, scope, sid)
          => Holds(r, {}, {}, {})
    /\ \A O, K, S :
          /\ IsFiniteSet(O) /\ IsFiniteSet(K) /\ IsFiniteSet(S) /\ Holds(srv, O, K, S)
          /\ b[1] # Home[1] => Cardinality(O \cup {b[1]}) < maxOrgsPerServer
          /\ b[1] = Home[1] /\ b # Home => Cardinality(K \cup {b[2]}) < maxKeysPerOrg
          /\ scope = Watched[2] /\ sid # Watched[3] => Cardinality(S \cup {sid}) < maxSessionsPerScope
          => Holds(r, IF b[1] = Home[1] THEN {} ELSE O \cup {b[1]},
                      IF b = Home THEN {} ELSE IF b[1] = Home[1] THEN K \cup {b[2]} ELSE K,
                      IF scope = Watched[2] /\ sid # Watched[3] THEN S \cup {sid} ELSE S)

LEMMA RecordedStays ==
    ASSUME RegistryParameters, NEW srv, Sound(srv), NEW scope \in RegistryScopes, NEW sid \in SessionIDs,
           NEW r, r = Recorded(srv, scope, sid), NEW b, b = scopeBucket(scope)
    PROVE  RecordKeeps(srv, scope, sid, r, b)
  <1>1. b[1] \in BucketOrgs /\ b[2] \in BucketKeys /\ b = <<b[1], b[2]>>
    BY Buckets
  <1>2. /\ Watched[2] \in RegistryScopes /\ Watched[3] \in SessionIDs
        /\ Home[1] \in BucketOrgs /\ Home[2] \in BucketKeys /\ Home = <<Home[1], Home[2]>>
        /\ scopeBucket(Watched[2]) = Home
    BY HomeIsABucket DEF Home
  <1>3. PICK u : u = touchOrg(srv, b[1])
    BY Zenon
  <1>4. OrgUsed(srv, b[1], u)
    BY <1>1, <1>3, OrgTouched
  <1>5. PICK t : t = touchKey(u, b[1], b[2])
    BY Zenon
  <1>6. KeyUsed(u, b[1], b[2], t)
    <2>1. Sound(u)
      BY <1>4 DEF OrgUsed
    <2> QED BY <1>1, <1>5, <2>1, KeyTouched
  <1>7. PICK old : old = t.sessions[scope]
    BY Zenon
  <1>8. old \in Seq(SessionIDs) /\ NoDup(old) /\ maxSessionsPerScope \in Nat \ {0}
    BY <1>6, <1>7 DEF Sound, RegistryType, RegistryParameters, KeyUsed
  <1>9. PICK new : new = record(old, sid)
    BY Zenon
  <1>10. /\ new \in Seq(SessionIDs) /\ NoDup(new)
         /\ ~Contains(old, sid) => Behind(new, sid, {})
         /\ \A S : Behind(old, sid, S) => Behind(new, sid, S)
         /\ \A x, S : /\ Behind(old, x, S) /\ x # sid
                      /\ IsFiniteSet(S) /\ Cardinality(S \cup {sid}) < maxSessionsPerScope
                   => Behind(new, x, S \cup {sid})
    BY <1>8, <1>9, SessionRecorded
  <1>11. r = [t EXCEPT !.sessions[scope] = new]
    BY <1>3, <1>5, <1>7, <1>9 DEF Recorded
  <1>12. /\ t \in RegistryType /\ r \in RegistryType /\ r.live = t.live /\ r.orgLRU = t.orgLRU /\ r.keyLRU = t.keyLRU
         /\ \A sc \in RegistryScopes : r.sessions[sc] = IF sc = scope THEN new ELSE t.sessions[sc]
    <2>1. t \in RegistryType
      BY <1>6 DEF Sound, KeyUsed
    <2>2. /\ r.live = t.live /\ r.orgLRU = t.orgLRU /\ r.keyLRU = t.keyLRU
          /\ r.sessions = [t.sessions EXCEPT ![scope] = new] /\ DOMAIN r = DOMAIN t
      BY <1>11, <2>1 DEF RegistryType
    <2>3. /\ r.sessions \in [RegistryScopes -> Seq(SessionIDs)]
          /\ \A sc \in RegistryScopes : r.sessions[sc] = IF sc = scope THEN new ELSE t.sessions[sc]
      BY <1>10, <2>1, <2>2 DEF RegistryType
    <2>4. r \in RegistryType
      BY <1>11, <2>1, <2>2, <2>3 DEF RegistryType
    <2> QED BY <2>1, <2>2, <2>3, <2>4
  <1>13. Sound(r)
    BY <1>6, <1>10, <1>12 DEF Sound, KeyUsed
  <1>14. ASSUME scope = Watched[2], sid = Watched[3], ~entryKnown(srv, scope, sid)
         PROVE  Holds(r, {}, {}, {})
    <2>1. old \in {srv.sessions[scope], <<>>}
      BY <1>4, <1>6, <1>7 DEF OrgUsed, KeyUsed
    <2>2. ~Contains(old, sid)
      BY <1>14, <2>1, Nothing DEF entryKnown
    <2>3. b = Home
      BY <1>2, <1>14
    <2> QED BY <1>4, <1>6, <1>10, <1>12, <1>14, <2>2, <2>3 DEF Holds, OrgUsed, KeyUsed
  <1>15. ASSUME NEW O, NEW K, NEW S,
                IsFiniteSet(O), IsFiniteSet(K), IsFiniteSet(S), Holds(srv, O, K, S),
                b[1] # Home[1] => Cardinality(O \cup {b[1]}) < maxOrgsPerServer,
                b[1] = Home[1] /\ b # Home => Cardinality(K \cup {b[2]}) < maxKeysPerOrg,
                scope = Watched[2] /\ sid # Watched[3] => Cardinality(S \cup {sid}) < maxSessionsPerScope
         PROVE  Holds(r, IF b[1] = Home[1] THEN {} ELSE O \cup {b[1]},
                         IF b = Home THEN {} ELSE IF b[1] = Home[1] THEN K \cup {b[2]} ELSE K,
                         IF scope = Watched[2] /\ sid # Watched[3] THEN S \cup {sid} ELSE S)
    <2>0. /\ Within(srv.orgLRU, Home[1], O) /\ Within(srv.keyLRU[Home[1]], Home[2], K)
          /\ Behind(srv.sessions[Watched[2]], Watched[3], S)
      BY <1>15 DEF Holds
    <2>1. /\ Within(u.orgLRU, Home[1], IF b[1] = Home[1] THEN {} ELSE O \cup {b[1]})
          /\ u.keyLRU[Home[1]] = srv.keyLRU[Home[1]]
          /\ u.sessions[Watched[2]] = srv.sessions[Watched[2]]
      BY <1>2, <1>4, <1>15, <2>0 DEF OrgUsed
    <2>2. /\ Within(t.keyLRU[Home[1]], Home[2],
                    IF b = Home THEN {} ELSE IF b[1] = Home[1] THEN K \cup {b[2]} ELSE K)
          /\ t.sessions[Watched[2]] = u.sessions[Watched[2]]
      <3>1. CASE b[1] # Home[1]
        <4>1. b # Home
          BY <3>1
        <4> QED BY <1>2, <1>6, <2>0, <2>1, <3>1, <4>1 DEF KeyUsed
      <3>2. CASE b[1] = Home[1] /\ b[2] # Home[2]
        <4>1. b # Home
          BY <3>2
        <4>2. Within(u.keyLRU[b[1]], Home[2], K)
          BY <2>0, <2>1, <3>2
        <4>3. scopeBucket(Watched[2]) = <<b[1], Home[2]>>
          BY <1>2, <3>2
        <4>4. IsFiniteSet(K) /\ Cardinality(K \cup {b[2]}) < maxKeysPerOrg
          BY <1>15, <3>2, <4>1
        <4>5. Within(t.keyLRU[b[1]], Home[2], K \cup {b[2]}) /\ t.sessions[Watched[2]] = u.sessions[Watched[2]]
          BY <1>2, <1>6, <3>2, <4>2, <4>3, <4>4 DEF KeyUsed
        <4> QED BY <3>2, <4>1, <4>5
      <3>3. CASE b[1] = Home[1] /\ b[2] = Home[2]
        <4>1. b = Home
          BY <1>1, <1>2, <3>3
        <4>2. Within(u.keyLRU[b[1]], b[2], K)
          BY <2>0, <2>1, <3>3
        <4>3. scopeBucket(Watched[2]) = <<b[1], b[2]>>
          BY <1>1, <1>2, <4>1
        <4>4. t.sessions[Watched[2]] = u.sessions[Watched[2]]
          BY <1>2, <1>6, <4>2, <4>3 DEF KeyUsed
        <4> QED BY <1>6, <3>3, <4>1, <4>4 DEF KeyUsed
      <3> QED BY <3>1, <3>2, <3>3
    <2>3. Behind(t.sessions[Watched[2]], Watched[3], S)
      BY <2>0, <2>1, <2>2
    <2>4. Behind(r.sessions[Watched[2]], Watched[3],
                 IF scope = Watched[2] /\ sid # Watched[3] THEN S \cup {sid} ELSE S)
      <3>1. CASE scope # Watched[2]
        BY <1>2, <1>12, <2>3, <3>1
      <3>2. CASE scope = Watched[2] /\ sid = Watched[3]
        BY <1>7, <1>10, <1>12, <2>3, <3>2
      <3>3. CASE scope = Watched[2] /\ sid # Watched[3]
        BY <1>7, <1>10, <1>12, <1>15, <2>3, <3>3
      <3> QED BY <3>1, <3>2, <3>3
    <2> QED BY <1>6, <1>12, <2>1, <2>2, <2>4 DEF Holds, KeyUsed
  <1>16. r.live = srv.live
    BY <1>4, <1>6, <1>12 DEF OrgUsed, KeyUsed
  <1> QED BY <1>13, <1>14, <1>15, <1>16 DEF RecordKeeps

(* Known moves what it finds to the front. *)
LookKeeps(srv, scope, r, b) ==
    /\ Sound(r) /\ r.live = srv.live
    /\ ~HasOrg(srv, b) => r = srv
    /\ HasOrg(srv, b) =>
         \A O, K, S : Holds(srv, O, K, S)
           => Holds(r, IF b[1] = Home[1] THEN {} ELSE O \cup {b[1]},
                       IF b = Home THEN {}
                       ELSE IF b[1] = Home[1] /\ HasKey(srv, b) THEN K \cup {b[2]} ELSE K, S)

LEMMA LookedStays ==
    ASSUME RegistryParameters, NEW srv, Sound(srv), NEW scope \in RegistryScopes,
           NEW r, r = Looked(srv, scope), NEW b, b = scopeBucket(scope)
    PROVE  LookKeeps(srv, scope, r, b)
  <1>1. b[1] \in BucketOrgs /\ b[2] \in BucketKeys /\ b = <<b[1], b[2]>>
    BY Buckets
  <1>2. Home[1] \in BucketOrgs /\ Home = <<Home[1], Home[2]>>
    BY HomeIsABucket
  <1>3. /\ srv \in RegistryType /\ srv.orgLRU \in Seq(BucketOrgs) /\ NoDup(srv.orgLRU)
        /\ srv.keyLRU[b[1]] \in Seq(BucketKeys) /\ NoDup(srv.keyLRU[b[1]])
    BY <1>1 DEF Sound, RegistryType
  <1>4. PICK ol : ol = ToFront(srv.orgLRU, b[1])
    BY Zenon
  <1>5. PICK kl : kl = ToFront(srv.keyLRU[b[1]], b[2])
    BY Zenon
  <1>6. /\ ol \in Seq(BucketOrgs) /\ NoDup(ol) /\ \A S : Within(ol, b[1], S)
        /\ \A x, S : Within(srv.orgLRU, x, S) => Within(ol, x, S \cup {b[1]})
    BY <1>1, <1>3, <1>4, FrontMoved
  <1>7. /\ kl \in Seq(BucketKeys) /\ NoDup(kl) /\ \A S : Within(kl, b[2], S)
        /\ \A x, S : Within(srv.keyLRU[b[1]], x, S) => Within(kl, x, S \cup {b[2]})
    BY <1>1, <1>3, <1>5, FrontMoved
  <1>8. CASE ~HasOrg(srv, b)
    <2>1. r = [srv EXCEPT !.orgLRU = @, !.keyLRU[b[1]] = @]
      BY <1>8 DEF Looked
    <2>2. r = srv
      <3>1. PICK f : f = srv.keyLRU
        BY Zenon
      <3>2. f \in [BucketOrgs -> Seq(BucketKeys)]
        BY <1>3, <3>1 DEF RegistryType
      <3>3. [f EXCEPT ![b[1]] = f[b[1]]] = f
        BY <1>1, <3>2
      <3>4. r = [srv EXCEPT !.orgLRU = srv.orgLRU, !.keyLRU = [f EXCEPT ![b[1]] = f[b[1]]]]
        BY <2>1, <3>1
      <3>5. r = [srv EXCEPT !.orgLRU = srv.orgLRU, !.keyLRU = srv.keyLRU]
        BY <3>1, <3>3, <3>4
      <3> QED BY <1>3, <3>5 DEF RegistryType
    <2> QED BY <1>8, <2>2 DEF LookKeeps
  <1>9. CASE HasOrg(srv, b)
    <2>1. PICK q : q = IF HasKey(srv, b) THEN kl ELSE srv.keyLRU[b[1]]
      BY Zenon
    <2>2. r = [srv EXCEPT !.orgLRU = ol, !.keyLRU[b[1]] = q]
      BY <1>4, <1>5, <1>9, <2>1 DEF Looked
    <2>3. q \in Seq(BucketKeys) /\ NoDup(q)
      BY <1>3, <1>7, <2>1
    <2>4. /\ r.live = srv.live /\ r.orgLRU = ol /\ r.sessions = srv.sessions
          /\ r.keyLRU = [srv.keyLRU EXCEPT ![b[1]] = q] /\ DOMAIN r = DOMAIN srv
      BY <1>3, <2>2 DEF RegistryType
    <2>5. /\ r.keyLRU \in [BucketOrgs -> Seq(BucketKeys)]
          /\ \A o \in BucketOrgs : r.keyLRU[o] = IF o = b[1] THEN q ELSE srv.keyLRU[o]
      BY <1>3, <2>3, <2>4 DEF RegistryType
    <2>6. r \in RegistryType
      BY <1>3, <1>6, <2>2, <2>4, <2>5 DEF RegistryType
    <2>7. Sound(r)
      BY <1>6, <2>3, <2>4, <2>5, <2>6 DEF Sound
    <2>8. ASSUME NEW O, NEW K, NEW S, Holds(srv, O, K, S)
          PROVE  Holds(r, IF b[1] = Home[1] THEN {} ELSE O \cup {b[1]},
                          IF b = Home THEN {}
                          ELSE IF b[1] = Home[1] /\ HasKey(srv, b) THEN K \cup {b[2]} ELSE K, S)
      <3>0. /\ Within(srv.orgLRU, Home[1], O) /\ Within(srv.keyLRU[Home[1]], Home[2], K)
            /\ Behind(srv.sessions[Watched[2]], Watched[3], S)
        BY <2>8 DEF Holds
      <3>1. Within(ol, Home[1], IF b[1] = Home[1] THEN {} ELSE O \cup {b[1]})
        BY <1>6, <3>0
      <3>2. Within(r.keyLRU[Home[1]], Home[2],
                   IF b = Home THEN {} ELSE IF b[1] = Home[1] /\ HasKey(srv, b) THEN K \cup {b[2]} ELSE K)
        <4>1. CASE b[1] # Home[1]
          <5>1. b # Home
            BY <4>1
          <5> QED BY <1>2, <2>5, <3>0, <4>1, <5>1
        <4>2. CASE b[1] = Home[1] /\ b[2] # Home[2]
          <5>1. b # Home /\ r.keyLRU[Home[1]] = q
            BY <1>2, <2>5, <4>2
          <5> QED BY <1>7, <2>1, <3>0, <4>2, <5>1
        <4>3. CASE b[1] = Home[1] /\ b[2] = Home[2]
          <5>1. b = Home /\ r.keyLRU[Home[1]] = q
            BY <1>1, <1>2, <2>5, <4>3
          <5>2. HasKey(srv, b)
            BY <3>0, <4>3 DEF HasKey, Within, Contains
          <5> QED BY <1>7, <2>1, <4>3, <5>1, <5>2
        <4> QED BY <4>1, <4>2, <4>3
      <3> QED BY <2>4, <3>0, <3>1, <3>2 DEF Holds
    <2> QED BY <1>9, <2>4, <2>7, <2>8 DEF LookKeeps
  <1> QED BY <1>8, <1>9

-----------------------------------------------------------------------------
(* The inductive invariant. A worker attached to a registry, a followed     *)
(* session and a tombstone each tie a list to what happened since.          *)

ServersOK == DOMAIN servers = Servers /\ \A s \in Servers : Sound(servers[s])

WorkersOK ==
    /\ sought \in [Workers -> Lookups]
    /\ attached \in [Workers -> BOOLEAN]
    /\ \A c \in Workers : attached[c] => servers[sought[c][1]].live

TombstonesOK ==
    /\ removed \in Seq(Servers) /\ NoDup(removed)
    /\ \A s \in Servers : servers[s].live => ~Contains(removed, s)

WatchOK ==
    /\ IsFiniteSet(watch.orgs) /\ IsFiniteSet(watch.keys) /\ IsFiniteSet(watch.sessions)
    /\ watch.yes => /\ servers[Watched[1]].live
                    /\ Holds(servers[Watched[1]], watch.orgs, watch.keys, watch.sessions)

OutOK ==
    /\ out \in [Servers -> [out : BOOLEAN, since : SUBSET Servers]]
    /\ \A s \in Servers :
        /\ IsFiniteSet(out[s].since)
        /\ out[s].out /\ Cardinality(out[s].since) < maxRemovedServers
             => ~servers[s].live /\ Within(removed, s, out[s].since)

SweepOK == sweep.on => \A s \in sweep.keep : s \in Servers /\ ~out[s].out

RegistryInv == ServersOK /\ WorkersOK /\ TombstonesOK /\ WatchOK /\ OutOK /\ SweepOK

LEMMA LookupParts ==
    ASSUME RegistryParameters, NEW req \in Lookups
    PROVE  req[1] \in Servers /\ req[2] \in RegistryScopes /\ req[3] \in SessionIDs
  BY DEF RegistryParameters, SessionIDs

LEMMA RegistryStarts == RegistryParameters /\ RegistryInit => RegistryInv
  <1> SUFFICES ASSUME RegistryParameters, RegistryInit PROVE RegistryInv
    OBVIOUS
  <1>1. ServersOK
    BY NewIsSound DEF RegistryInit, ServersOK
  <1>2. WorkersOK
    BY HomeIsABucket DEF RegistryInit, WorkersOK
  <1>3. TombstonesOK
    <2>1. removed = <<>>
      BY DEF RegistryInit
    <2>2. removed \in Seq(Servers) /\ NoDup(removed) /\ \A x : ~Contains(removed, x)
      BY <2>1, Nothing
    <2> QED BY <2>2 DEF TombstonesOK
  <1>4. WatchOK
    BY FS_EmptySet DEF RegistryInit, Unissued, WatchOK
  <1>5. OutOK /\ SweepOK
    BY FS_EmptySet DEF RegistryInit, In, Unlocked, OutOK, SweepOK
  <1> QED BY <1>1, <1>2, <1>3, <1>4, <1>5 DEF RegistryInv

(* Under a registry's own lock nothing comes or goes. *)
LEMMA ReleaseKeeps ==
    ASSUME RegistryParameters, RegistryInv, NEW c \in Workers, Release(c),
           \A s \in Servers : servers'[s].live = servers[s].live
    PROVE  WorkersOK' /\ TombstonesOK' /\ OutOK' /\ SweepOK'
  <1>1. /\ sought' = [sought EXCEPT ![c] = Watched] /\ attached' = [attached EXCEPT ![c] = FALSE]
        /\ removed' = removed /\ out' = out /\ sweep' = sweep
    BY DEF Release
  <1>2. WorkersOK'
    <2>1. sought' \in [Workers -> Lookups] /\ attached' \in [Workers -> BOOLEAN]
      BY <1>1, HomeIsABucket DEF RegistryInv, WorkersOK
    <2>2. ASSUME NEW d \in Workers, attached'[d] PROVE servers'[sought'[d][1]].live
      <3>1. d # c
        BY <1>1, <2>2 DEF RegistryInv, WorkersOK
      <3>2. sought'[d] = sought[d] /\ attached[d]
        BY <1>1, <2>2, <3>1 DEF RegistryInv, WorkersOK
      <3>3. sought[d][1] \in Servers /\ servers[sought[d][1]].live
        BY <3>2, LookupParts DEF RegistryInv, WorkersOK
      <3> QED BY <3>2, <3>3
    <2> QED BY <2>1, <2>2 DEF WorkersOK
  <1>3. TombstonesOK'
    BY <1>1 DEF RegistryInv, TombstonesOK, NoDup, Contains
  <1>4. OutOK'
    BY <1>1 DEF RegistryInv, OutOK, Within
  <1>5. SweepOK'
    BY <1>1 DEF RegistryInv, SweepOK
  <1> QED BY <1>2, <1>3, <1>4, <1>5

LEMMA RecordStep ==
    ASSUME RegistryParameters, RegistryInv, NEW c \in Workers, NEW req \in Lookups, Record(c, req)
    PROVE  RegistryInv'
  <1>1. /\ ~Contains(removed, req[1])
        /\ servers' = [servers EXCEPT ![req[1]] = IF @.live THEN @ ELSE NewRegistry]
        /\ sought' = [sought EXCEPT ![c] = req] /\ attached' = [attached EXCEPT ![c] = TRUE]
        /\ removed' = removed /\ sweep' = sweep /\ watch' = watch /\ out' = out
    BY DEF Record
  <1>2. req[1] \in Servers /\ Watched[1] \in Servers
    BY LookupParts, HomeIsABucket
  <1>3. /\ DOMAIN servers' = Servers
        /\ \A s \in Servers : servers'[s] = IF s = req[1] /\ ~servers[s].live THEN NewRegistry ELSE servers[s]
    BY <1>1, <1>2 DEF RegistryInv, ServersOK
  <1>4. servers'[req[1]].live /\ \A s \in Servers : servers[s].live => servers'[s] = servers[s]
    BY <1>2, <1>3, NewIsSound
  <1>5. ServersOK'
    <2>1. ASSUME NEW s \in Servers PROVE Sound(servers'[s])
      BY <1>3, NewIsSound DEF RegistryInv, ServersOK
    <2>2. ASSUME NEW s \in Servers PROVE Sound(servers[s])'
      BY <2>1 DEF Sound, RegistryType, NoDup
    <2> QED BY <1>3, <2>2 DEF ServersOK
  <1>6. WorkersOK'
    <2>1. sought' \in [Workers -> Lookups] /\ attached' \in [Workers -> BOOLEAN]
      BY <1>1 DEF RegistryInv, WorkersOK
    <2>2. ASSUME NEW d \in Workers, attached'[d] PROVE servers'[sought'[d][1]].live
      <3>1. CASE d = c
        BY <1>1, <1>4, <3>1 DEF RegistryInv, WorkersOK
      <3>2. CASE d # c
        <4>1. sought'[d] = sought[d] /\ attached[d]
          BY <1>1, <2>2, <3>2 DEF RegistryInv, WorkersOK
        <4>2. sought[d][1] \in Servers /\ servers[sought[d][1]].live
          BY <4>1, LookupParts DEF RegistryInv, WorkersOK
        <4> QED BY <1>4, <4>1, <4>2
      <3> QED BY <3>1, <3>2
    <2> QED BY <2>1, <2>2 DEF WorkersOK
  <1>7. TombstonesOK'
    <2>1. ASSUME NEW s \in Servers, servers'[s].live PROVE ~Contains(removed, s)
      BY <1>1, <1>3, <2>1 DEF RegistryInv, TombstonesOK
    <2> QED BY <1>1, <2>1 DEF RegistryInv, TombstonesOK, NoDup, Contains
  <1>8. WatchOK'
    BY <1>1, <1>2, <1>4 DEF RegistryInv, WatchOK, Holds, Within, Behind, Home
  <1>9. OutOK'
    <2>1. ASSUME NEW s \in Servers, out[s].out, Cardinality(out[s].since) < maxRemovedServers
          PROVE  ~servers'[s].live /\ Within(removed, s, out[s].since)
      <3>1. ~servers[s].live /\ Within(removed, s, out[s].since)
        BY <2>1 DEF RegistryInv, OutOK
      <3>2. s # req[1]
        BY <1>1, <3>1 DEF Within, Contains
      <3> QED BY <1>3, <3>1, <3>2
    <2> QED BY <1>1, <2>1 DEF RegistryInv, OutOK, Within
  <1>10. SweepOK'
    BY <1>1 DEF RegistryInv, SweepOK
  <1> QED BY <1>5, <1>6, <1>7, <1>8, <1>9, <1>10 DEF RegistryInv

LEMMA KnownStep ==
    ASSUME RegistryParameters, RegistryInv, NEW c \in Workers, NEW req \in Lookups, Known(c, req)
    PROVE  RegistryInv'
  <1>1. /\ servers[req[1]].live
        /\ sought' = [sought EXCEPT ![c] = req] /\ attached' = [attached EXCEPT ![c] = TRUE]
        /\ servers' = servers /\ removed' = removed /\ sweep' = sweep /\ watch' = watch /\ out' = out
    BY DEF Known
  <1>2. WorkersOK'
    <2>1. sought' \in [Workers -> Lookups] /\ attached' \in [Workers -> BOOLEAN]
      BY <1>1 DEF RegistryInv, WorkersOK
    <2>2. ASSUME NEW d \in Workers, attached'[d] PROVE servers'[sought'[d][1]].live
      BY <1>1, <2>2 DEF RegistryInv, WorkersOK
    <2> QED BY <2>1, <2>2 DEF WorkersOK
  <1>3. ServersOK' /\ TombstonesOK'
    BY <1>1 DEF RegistryInv, ServersOK, TombstonesOK, Sound, RegistryType, NoDup, Contains
  <1>4. WatchOK'
    BY <1>1 DEF RegistryInv, WatchOK, Holds, Within, Behind, Home
  <1>5. OutOK' /\ SweepOK'
    BY <1>1 DEF RegistryInv, OutOK, SweepOK, Within
  <1> QED BY <1>2, <1>3, <1>4, <1>5 DEF RegistryInv

(* What the watched session has met stays finite. *)
LEMMA MetIsFinite ==
    ASSUME WatchOK, NEW scope, NEW sid, NEW key, NEW recorded, NEW m, m = Met(scope, sid, key, recorded)
    PROVE  IsFiniteSet(m.orgs) /\ IsFiniteSet(m.keys) /\ IsFiniteSet(m.sessions)
  <1>1. IsFiniteSet(watch.orgs) /\ IsFiniteSet(watch.keys) /\ IsFiniteSet(watch.sessions) /\ IsFiniteSet({})
    BY FS_EmptySet DEF WatchOK
  <1>2. \A x : /\ IsFiniteSet(watch.orgs \cup {x}) /\ IsFiniteSet(watch.keys \cup {x})
               /\ IsFiniteSet(watch.sessions \cup {x})
    BY <1>1, FS_AddElement
  <1> QED BY <1>1, <1>2 DEF Met, Unissued

LEMMA UnderLock ==
    ASSUME RegistryParameters, RegistryInv, NEW s \in Servers, NEW r, Sound(r), r.live = servers[s].live,
           servers' = [servers EXCEPT ![s] = r]
    PROVE  /\ ServersOK' /\ \A t \in Servers : servers'[t].live = servers[t].live
           /\ \A t \in Servers : servers'[t] = IF t = s THEN r ELSE servers[t]
  <1>1. DOMAIN servers' = Servers /\ \A t \in Servers : servers'[t] = IF t = s THEN r ELSE servers[t]
    BY DEF RegistryInv, ServersOK
  <1>2. ASSUME NEW t \in Servers PROVE Sound(servers'[t])
    BY <1>1 DEF RegistryInv, ServersOK
  <1>3. ASSUME NEW t \in Servers PROVE Sound(servers[t])'
    BY <1>2 DEF Sound, RegistryType, NoDup
  <1> QED BY <1>1, <1>3 DEF ServersOK

LEMMA recordUnderLockStep ==
    ASSUME RegistryParameters, RegistryInv, NEW c \in Workers, recordUnderLock(c)
    PROVE  RegistryInv'
  <1>1. PICK s, scope, sid : s = sought[c][1] /\ scope = sought[c][2] /\ sid = sought[c][3]
    BY Zenon
  <1>2. sought[c] \in Lookups /\ s \in Servers /\ scope \in RegistryScopes /\ sid \in SessionIDs
    BY <1>1, LookupParts DEF RegistryInv, WorkersOK
  <1>3. /\ Release(c)
        /\ servers' = IF attached[c] THEN [servers EXCEPT ![s] = Recorded(@, scope, sid)] ELSE servers
        /\ watch' = IF ~attached[c] \/ s # Watched[1] THEN watch
                    ELSE IF sought[c] = Watched /\ ~watch.yes
                         THEN [Unissued EXCEPT !.yes = ~entryKnown(servers[s], Watched[2], Watched[3])]
                    ELSE Met(scope, sid, TRUE, TRUE)
    BY <1>1 DEF recordUnderLock
  <1>4. CASE ~attached[c]
    <2>1. servers' = servers /\ watch' = watch
      BY <1>3, <1>4
    <2>2. WorkersOK' /\ TombstonesOK' /\ OutOK' /\ SweepOK'
      BY <1>3, <2>1, ReleaseKeeps
    <2>3. ServersOK'
      BY <2>1 DEF RegistryInv, ServersOK, Sound, RegistryType, NoDup
    <2>4. WatchOK'
      BY <2>1 DEF RegistryInv, WatchOK, Holds, Within, Behind, Home
    <2> QED BY <2>2, <2>3, <2>4 DEF RegistryInv
  <1>5. CASE attached[c]
    <2>1. PICK srv : srv = servers[s]
      BY Zenon
    <2>2. PICK r : r = Recorded(srv, scope, sid)
      BY Zenon
    <2>3. PICK b : b = scopeBucket(scope)
      BY Zenon
    <2>4. Sound(srv) /\ srv.live
      BY <1>1, <1>2, <1>5, <2>1 DEF RegistryInv, ServersOK, WorkersOK
    <2>5. RecordKeeps(srv, scope, sid, r, b)
      BY <1>2, <2>2, <2>3, <2>4, RecordedStays
    <2>6. servers' = [servers EXCEPT ![s] = r]
      BY <1>3, <1>5, <2>1, <2>2
    <2>7. /\ ServersOK' /\ \A t \in Servers : servers'[t].live = servers[t].live
          /\ \A t \in Servers : servers'[t] = IF t = s THEN r ELSE servers[t]
      BY <1>2, <2>1, <2>5, <2>6, UnderLock DEF RecordKeeps
    <2>8. WorkersOK' /\ TombstonesOK' /\ OutOK' /\ SweepOK'
      BY <1>3, <2>7, ReleaseKeeps
    <2>9. WatchOK'
      <3>0. Watched[1] \in Servers /\ WatchOK
        BY HomeIsABucket DEF RegistryInv
      <3>1. CASE s # Watched[1]
        <4>1. watch' = watch /\ servers'[Watched[1]] = servers[Watched[1]]
          BY <1>3, <2>7, <3>0, <3>1
        <4> QED BY <3>0, <4>1 DEF WatchOK, Holds, Within, Behind, Home
      <3>2. CASE s = Watched[1] /\ sought[c] = Watched /\ ~watch.yes
        <4>1. watch' = [Unissued EXCEPT !.yes = ~entryKnown(servers[s], Watched[2], Watched[3])]
          BY <1>3, <1>5, <3>2
        <4>2. /\ watch'.orgs = {} /\ watch'.keys = {} /\ watch'.sessions = {}
              /\ watch'.yes = ~entryKnown(srv, Watched[2], Watched[3])
          BY <2>1, <4>1 DEF Unissued
        <4>3. watch'.yes => r.live /\ Holds(r, {}, {}, {})
          BY <1>1, <2>4, <2>5, <3>2, <4>2 DEF RecordKeeps
        <4>4. servers'[Watched[1]] = r
          BY <2>7, <3>0, <3>2
        <4> QED BY <4>2, <4>3, <4>4, FS_EmptySet DEF WatchOK, Holds, Within, Behind, Home
      <3>3. CASE s = Watched[1] /\ ~(sought[c] = Watched /\ ~watch.yes)
        <4>1. watch' = Met(scope, sid, TRUE, TRUE)
          BY <1>3, <1>5, <3>3
        <4>2. PICK m : m = Met(scope, sid, TRUE, TRUE)
          BY Zenon
        <4>3. IsFiniteSet(m.orgs) /\ IsFiniteSet(m.keys) /\ IsFiniteSet(m.sessions)
          BY <3>0, <4>2, MetIsFinite
        <4>4. servers'[Watched[1]] = r
          BY <2>7, <3>0, <3>3
        <4>5. ASSUME m.yes PROVE r.live /\ Holds(r, m.orgs, m.keys, m.sessions)
          <5>1. /\ watch.yes
                /\ m.orgs = IF b[1] = Home[1] THEN {} ELSE watch.orgs \cup {b[1]}
                /\ m.keys = IF b = Home THEN {}
                            ELSE IF b[1] = Home[1] THEN watch.keys \cup {b[2]} ELSE watch.keys
                /\ m.sessions = IF scope = Watched[2] /\ sid # Watched[3]
                                THEN watch.sessions \cup {sid} ELSE watch.sessions
                /\ Cardinality(m.orgs) < maxOrgsPerServer
                /\ Cardinality(m.keys) < maxKeysPerOrg
                /\ Cardinality(m.sessions) < maxSessionsPerScope
            BY <2>3, <4>2, <4>5 DEF Met, Unissued, Home
          <5>2. PICK O, K, S : O = watch.orgs /\ K = watch.keys /\ S = watch.sessions
            BY Zenon
          <5>3. IsFiniteSet(O) /\ IsFiniteSet(K) /\ IsFiniteSet(S) /\ Holds(srv, O, K, S)
            BY <2>1, <3>0, <3>3, <5>1, <5>2 DEF WatchOK
          <5>4. /\ b[1] # Home[1] => Cardinality(O \cup {b[1]}) < maxOrgsPerServer
                /\ b[1] = Home[1] /\ b # Home => Cardinality(K \cup {b[2]}) < maxKeysPerOrg
                /\ scope = Watched[2] /\ sid # Watched[3] => Cardinality(S \cup {sid}) < maxSessionsPerScope
            BY <5>1, <5>2
          <5>5. Holds(r, IF b[1] = Home[1] THEN {} ELSE O \cup {b[1]},
                         IF b = Home THEN {} ELSE IF b[1] = Home[1] THEN K \cup {b[2]} ELSE K,
                         IF scope = Watched[2] /\ sid # Watched[3] THEN S \cup {sid} ELSE S)
            BY <2>5, <5>3, <5>4 DEF RecordKeeps
          <5>6. /\ m.orgs = IF b[1] = Home[1] THEN {} ELSE O \cup {b[1]}
                /\ m.keys = IF b = Home THEN {} ELSE IF b[1] = Home[1] THEN K \cup {b[2]} ELSE K
                /\ m.sessions = IF scope = Watched[2] /\ sid # Watched[3] THEN S \cup {sid} ELSE S
            BY <5>1, <5>2
          <5>7. Holds(r, m.orgs, m.keys, m.sessions)
            BY <5>5, <5>6, Zenon
          <5> QED BY <2>4, <2>5, <5>7 DEF RecordKeeps
        <4> QED BY <4>1, <4>2, <4>3, <4>4, <4>5 DEF WatchOK, Holds, Within, Behind, Home
      <3> QED BY <3>1, <3>2, <3>3
    <2> QED BY <2>7, <2>8, <2>9 DEF RegistryInv
  <1> QED BY <1>4, <1>5

LEMMA knownUnderLockStep ==
    ASSUME RegistryParameters, RegistryInv, NEW c \in Workers, knownUnderLock(c)
    PROVE  RegistryInv'
  <1>1. PICK s, scope, sid : s = sought[c][1] /\ scope = sought[c][2] /\ sid = sought[c][3]
    BY Zenon
  <1>2. sought[c] \in Lookups /\ s \in Servers /\ scope \in RegistryScopes /\ sid \in SessionIDs
    BY <1>1, LookupParts DEF RegistryInv, WorkersOK
  <1>3. PICK b : b = scopeBucket(scope)
    BY Zenon
  <1>4. PICK srv : srv = servers[s]
    BY Zenon
  <1>5. /\ Release(c)
        /\ servers' = IF attached[c] THEN [servers EXCEPT ![s] = Looked(@, scope)] ELSE servers
        /\ watch' = IF attached[c] /\ s = Watched[1] /\ HasOrg(srv, b)
                    THEN Met(scope, sid, HasKey(srv, b), FALSE) ELSE watch
    BY <1>1, <1>3, <1>4 DEF knownUnderLock
  <1>6. CASE ~attached[c] \/ ~HasOrg(srv, b)
    <2>1. /\ ServersOK' /\ watch' = watch
          /\ \A t \in Servers : servers'[t] = servers[t]
      <3>1. CASE ~attached[c]
        BY <1>5, <3>1 DEF RegistryInv, ServersOK, Sound, RegistryType, NoDup
      <3>2. CASE attached[c] /\ ~HasOrg(srv, b)
        <4>1. Sound(srv)
          BY <1>2, <1>4 DEF RegistryInv, ServersOK
        <4>2. Looked(srv, scope) = srv
          <5>1. PICK r : r = Looked(srv, scope)
            BY Zenon
          <5>2. LookKeeps(srv, scope, r, b)
            BY <1>2, <1>3, <4>1, <5>1, LookedStays
          <5> QED BY <3>2, <5>1, <5>2 DEF LookKeeps
        <4>3. servers' = [servers EXCEPT ![s] = srv]
          BY <1>4, <1>5, <3>2, <4>2
        <4>5. srv.live = servers[s].live
          BY <1>4
        <4>4. ServersOK' /\ \A t \in Servers : servers'[t] = IF t = s THEN srv ELSE servers[t]
          BY <1>2, <4>1, <4>3, <4>5, UnderLock
        <4> QED BY <1>4, <1>5, <3>2, <4>4
      <3> QED BY <1>6, <3>1, <3>2
    <2>2. WorkersOK' /\ TombstonesOK' /\ OutOK' /\ SweepOK'
      BY <1>5, <2>1, ReleaseKeeps
    <2>3. WatchOK'
      <3>1. servers'[Watched[1]] = servers[Watched[1]] /\ watch' = watch
        BY <2>1, HomeIsABucket
      <3> QED BY <3>1 DEF RegistryInv, WatchOK, Holds, Within, Behind, Home
    <2> QED BY <2>1, <2>2, <2>3 DEF RegistryInv
  <1>7. CASE attached[c] /\ HasOrg(srv, b)
    <2>1. PICK r : r = Looked(srv, scope)
      BY Zenon
    <2>3. Sound(srv) /\ srv.live
      BY <1>1, <1>2, <1>4, <1>7 DEF RegistryInv, ServersOK, WorkersOK
    <2>4. LookKeeps(srv, scope, r, b)
      BY <1>2, <1>3, <2>1, <2>3, LookedStays
    <2>5. servers' = [servers EXCEPT ![s] = r]
      BY <1>4, <1>5, <1>7, <2>1
    <2>6. /\ ServersOK' /\ \A t \in Servers : servers'[t].live = servers[t].live
          /\ \A t \in Servers : servers'[t] = IF t = s THEN r ELSE servers[t]
      BY <1>2, <1>4, <2>4, <2>5, UnderLock DEF LookKeeps
    <2>7. WorkersOK' /\ TombstonesOK' /\ OutOK' /\ SweepOK'
      BY <1>5, <2>6, ReleaseKeeps
    <2>8. WatchOK'
      <3>0. Watched[1] \in Servers /\ WatchOK
        BY HomeIsABucket DEF RegistryInv
      <3>1. CASE s # Watched[1]
        <4>1. watch' = watch /\ servers'[Watched[1]] = servers[Watched[1]]
          BY <1>5, <2>6, <3>0, <3>1
        <4> QED BY <3>0, <4>1 DEF WatchOK, Holds, Within, Behind, Home
      <3>2. CASE s = Watched[1]
        <4>1. watch' = Met(scope, sid, HasKey(srv, b), FALSE)
          BY <1>5, <1>7, <3>2
        <4>2. PICK m : m = Met(scope, sid, HasKey(srv, b), FALSE)
          BY Zenon
        <4>3. IsFiniteSet(m.orgs) /\ IsFiniteSet(m.keys) /\ IsFiniteSet(m.sessions)
          BY <3>0, <4>2, MetIsFinite
        <4>4. servers'[Watched[1]] = r
          BY <2>6, <3>0, <3>2
        <4>5. ASSUME m.yes PROVE r.live /\ Holds(r, m.orgs, m.keys, m.sessions)
          <5>1. /\ watch.yes
                /\ m.orgs = IF b[1] = Home[1] THEN {} ELSE watch.orgs \cup {b[1]}
                /\ m.keys = IF b = Home THEN {}
                            ELSE IF b[1] = Home[1] /\ HasKey(srv, b) THEN watch.keys \cup {b[2]} ELSE watch.keys
                /\ m.sessions = watch.sessions
            BY <1>3, <4>2, <4>5 DEF Met, Unissued, Home
          <5>2. PICK O, K, S : O = watch.orgs /\ K = watch.keys /\ S = watch.sessions
            BY Zenon
          <5>3. Holds(srv, O, K, S)
            BY <1>4, <3>0, <3>2, <5>1, <5>2 DEF WatchOK
          <5>4. Holds(r, IF b[1] = Home[1] THEN {} ELSE O \cup {b[1]},
                         IF b = Home THEN {}
                         ELSE IF b[1] = Home[1] /\ HasKey(srv, b) THEN K \cup {b[2]} ELSE K, S)
            BY <1>7, <2>4, <5>3 DEF LookKeeps
          <5>5. /\ m.orgs = IF b[1] = Home[1] THEN {} ELSE O \cup {b[1]}
                /\ m.keys = IF b = Home THEN {}
                            ELSE IF b[1] = Home[1] /\ HasKey(srv, b) THEN K \cup {b[2]} ELSE K
                /\ m.sessions = S
            BY <5>1, <5>2
          <5>6. Holds(r, m.orgs, m.keys, m.sessions)
            BY <5>4, <5>5, Zenon
          <5> QED BY <2>3, <2>4, <5>6 DEF LookKeeps
        <4> QED BY <4>1, <4>2, <4>3, <4>4, <4>5 DEF WatchOK, Holds, Within, Behind, Home
      <3> QED BY <3>1, <3>2
    <2> QED BY <2>6, <2>7, <2>8 DEF RegistryInv
  <1> QED BY <1>6, <1>7

LEMMA ServersUntouched ==
    ASSUME ServersOK, servers' = servers
    PROVE  ServersOK'
  BY DEF ServersOK, Sound, RegistryType, NoDup

LEMMA ReconcileStep ==
    ASSUME RegistryParameters, RegistryInv, NEW active \in SUBSET Servers, Reconcile(active)
    PROVE  RegistryInv'
  <1>1. /\ sweep' = [on |-> TRUE, keep |-> active]
        /\ out' = [s \in Servers |-> IF s \in active THEN In ELSE out[s]]
        /\ servers' = servers /\ removed' = removed /\ sought' = sought
        /\ attached' = attached /\ watch' = watch
    BY DEF Reconcile
  <1>2. ServersOK' /\ WorkersOK' /\ TombstonesOK'
    <2>1. ServersOK'
      BY <1>1, ServersUntouched DEF RegistryInv
    <2>2. WorkersOK'
      BY <1>1 DEF RegistryInv, WorkersOK
    <2>3. TombstonesOK'
      BY <1>1 DEF RegistryInv, TombstonesOK, NoDup, Contains
    <2> QED BY <2>1, <2>2, <2>3
  <1>3. WatchOK'
    BY <1>1 DEF RegistryInv, WatchOK, Holds, Within, Behind, Home
  <1>4. OutOK' /\ SweepOK'
    BY <1>1, FS_EmptySet DEF RegistryInv, OutOK, SweepOK, In, Within
  <1> QED BY <1>2, <1>3, <1>4 DEF RegistryInv

LEMMA DropStep ==
    ASSUME RegistryParameters, RegistryInv, NEW s \in Servers, DropServer(s)
    PROVE  RegistryInv'
  <1>1. /\ sweep.on /\ servers[s].live /\ s \notin sweep.keep
        /\ servers' = [servers EXCEPT ![s] = Absent]
        /\ removed' = tombstone(removed, s)
        /\ attached' = [c \in Workers |-> attached[c] /\ sought[c][1] # s]
        /\ watch' = IF Watched[1] = s THEN Unissued ELSE watch
        /\ out' = [t \in Servers |-> IF t = s THEN [out |-> TRUE, since |-> {}]
                                     ELSE [out[t] EXCEPT !.since = @ \cup {s}]]
        /\ sought' = sought /\ sweep' = sweep
    BY DEF DropServer, ToDrop
  <1>2. /\ DOMAIN servers' = Servers
        /\ \A t \in Servers : servers'[t] = IF t = s THEN Absent ELSE servers[t]
    BY <1>1 DEF RegistryInv, ServersOK
  <1>3. /\ removed \in Seq(Servers) /\ NoDup(removed) /\ ~Contains(removed, s)
        /\ maxRemovedServers \in Nat \ {0}
    BY <1>1 DEF RegistryInv, TombstonesOK, RegistryParameters
  <1>4. PICK l : l = removed
    BY Zenon
  <1>5. PICK m : m = ToFront(Roomy(l, s, maxRemovedServers), s)
    BY Zenon
  <1>6. /\ m \in Seq(Servers) /\ NoDup(m) /\ \A S : Within(m, s, S)
        /\ \A x, S : /\ Within(l, x, S) /\ x # s
                     /\ IsFiniteSet(S) /\ Cardinality(S \cup {s}) < maxRemovedServers
                  => Within(m, x, S \cup {s})
        /\ \A x : Contains(m, x) => x = s \/ Contains(l, x)
    BY <1>3, <1>4, <1>5, Used
  <1>7. removed' = m
    <2>1. PICK f : f = Roomy(l, s, maxRemovedServers)
      BY Zenon
    <2>2. ~Contains(f, s)
      <3>1. CASE Len(l) >= maxRemovedServers
        <4>1. l # <<>> /\ f = Front(l)
          BY <1>3, <1>4, <2>1, <3>1 DEF Roomy
        <4> QED BY <1>3, <1>4, <4>1, LastEvicted
      <3>2. CASE ~(Len(l) >= maxRemovedServers)
        BY <1>3, <1>4, <2>1, <3>2 DEF Roomy
      <3> QED BY <3>1, <3>2
    <2>3. m = <<s>> \o f
      BY <1>5, <2>1, <2>2 DEF ToFront
    <2>4. tombstone(l, s) = <<s>> \o f
      BY <1>3, <1>4, <2>1 DEF tombstone, Roomy
    <2> QED BY <1>1, <1>4, <2>3, <2>4
  <1>8. ServersOK'
    <2>1. ASSUME NEW t \in Servers PROVE Sound(servers'[t])
      BY <1>2, NewIsSound DEF RegistryInv, ServersOK
    <2>2. ASSUME NEW t \in Servers PROVE Sound(servers[t])'
      BY <2>1 DEF Sound, RegistryType, NoDup
    <2> QED BY <1>2, <2>2 DEF ServersOK
  <1>9. WorkersOK'
    <2>1. sought' \in [Workers -> Lookups] /\ attached' \in [Workers -> BOOLEAN]
      BY <1>1 DEF RegistryInv, WorkersOK
    <2>2. ASSUME NEW d \in Workers, attached'[d] PROVE servers'[sought'[d][1]].live
      <3>1. attached[d] /\ sought[d][1] # s
        BY <1>1, <2>2
      <3>2. sought[d][1] \in Servers /\ servers[sought[d][1]].live
        BY <3>1, LookupParts DEF RegistryInv, WorkersOK
      <3> QED BY <1>1, <1>2, <3>1, <3>2
    <2> QED BY <2>1, <2>2 DEF WorkersOK
  <1>10. TombstonesOK'
    <2>1. ASSUME NEW t \in Servers, servers'[t].live PROVE ~Contains(m, t)
      <3>1. t # s /\ servers[t].live
        BY <1>2, <2>1, NewIsSound
      <3> QED BY <1>4, <1>6, <3>1 DEF RegistryInv, TombstonesOK
    <2> QED BY <1>6, <1>7, <2>1 DEF TombstonesOK, NoDup, Contains
  <1>11. WatchOK'
    <2>1. CASE Watched[1] = s
      BY <1>1, <2>1, FS_EmptySet DEF WatchOK, Unissued
    <2>2. CASE Watched[1] # s
      <3>1. watch' = watch /\ servers'[Watched[1]] = servers[Watched[1]]
        BY <1>1, <1>2, <2>2, HomeIsABucket
      <3> QED BY <3>1 DEF RegistryInv, WatchOK, Holds, Within, Behind, Home
    <2> QED BY <2>1, <2>2
  <1>12. OutOK'
    <2>1. out' \in [Servers -> [out : BOOLEAN, since : SUBSET Servers]]
      BY <1>1 DEF RegistryInv, OutOK
    <2>2. ASSUME NEW t \in Servers
          PROVE  /\ IsFiniteSet(out'[t].since)
                 /\ out'[t].out /\ Cardinality(out'[t].since) < maxRemovedServers
                       => ~servers'[t].live /\ Within(m, t, out'[t].since)
      <3>1. CASE t = s
        <4>1. out'[t] = [out |-> TRUE, since |-> {}] /\ servers'[t] = Absent
          BY <1>1, <1>2, <3>1
        <4> QED BY <1>6, <3>1, <4>1, FS_EmptySet, NewIsSound
      <3>2. CASE t # s
        <4>1. PICK S : S = out[t].since
          BY Zenon
        <4>2. /\ out'[t].out = out[t].out /\ out'[t].since = S \cup {s} /\ servers'[t] = servers[t]
              /\ IsFiniteSet(S)
          BY <1>1, <1>2, <3>2, <4>1 DEF RegistryInv, OutOK
        <4>3. /\ IsFiniteSet(S \cup {s}) /\ Cardinality(S) \in Nat /\ Cardinality(S \cup {s}) \in Nat
              /\ Cardinality(S) <= Cardinality(S \cup {s})
          <5>1. IsFiniteSet(S \cup {s})
            BY <4>2, FS_AddElement
          <5> QED BY <4>2, <5>1, FS_CardinalityType, FS_Subset
        <4>4. ASSUME out[t].out, Cardinality(S \cup {s}) < maxRemovedServers
              PROVE  ~servers[t].live /\ Within(m, t, S \cup {s})
          <5>1. Cardinality(S) < maxRemovedServers
            BY <1>3, <4>3, <4>4
          <5>2. ~servers[t].live /\ Within(l, t, S)
            BY <1>4, <4>1, <4>4, <5>1 DEF RegistryInv, OutOK
          <5> QED BY <1>6, <3>2, <4>2, <4>4, <5>2
        <4> QED BY <4>2, <4>3, <4>4
      <3> QED BY <3>1, <3>2
    <2> QED BY <1>7, <2>1, <2>2 DEF OutOK, Within
  <1>13. SweepOK'
    <2>1. ASSUME NEW t \in sweep.keep PROVE t \in Servers /\ ~out'[t].out
      <3>1. t \in Servers /\ ~out[t].out /\ t # s
        BY <1>1 DEF RegistryInv, SweepOK
      <3> QED BY <1>1, <3>1 DEF RegistryInv, OutOK
    <2> QED BY <1>1, <2>1 DEF SweepOK
  <1> QED BY <1>8, <1>9, <1>10, <1>11, <1>12, <1>13 DEF RegistryInv

LEMMA LiftStep ==
    ASSUME RegistryParameters, RegistryInv, NEW s \in Servers, LiftTombstone(s)
    PROVE  RegistryInv'
  <1>1. /\ sweep.on /\ s \in sweep.keep /\ removed' = untombstone(removed, s)
        /\ servers' = servers /\ sought' = sought /\ attached' = attached
        /\ watch' = watch /\ out' = out /\ sweep' = sweep
    BY DEF LiftTombstone, ToLift
  <1>2. PICK l : l = removed
    BY Zenon
  <1>3. l \in Seq(Servers) /\ NoDup(l)
    BY <1>2 DEF RegistryInv, TombstonesOK
  <1>4. PICK m : m = untombstone(l, s)
    BY Zenon
  <1>5. /\ m \in Seq(Servers) /\ NoDup(m)
        /\ \A x : Contains(m, x) => Contains(l, x)
        /\ \A x, S : Within(l, x, S) /\ x # s => Within(m, x, S)
    BY <1>3, <1>4, OneLifted
  <1>6. removed' = m
    BY <1>1, <1>2, <1>4
  <1>7. ServersOK' /\ WorkersOK' /\ SweepOK'
    <2>1. ServersOK'
      BY <1>1, ServersUntouched DEF RegistryInv
    <2>2. WorkersOK'
      BY <1>1 DEF RegistryInv, WorkersOK
    <2>3. SweepOK'
      BY <1>1 DEF RegistryInv, SweepOK
    <2> QED BY <2>1, <2>2, <2>3
  <1>8. TombstonesOK'
    <2>1. \A t \in Servers : servers[t].live => ~Contains(m, t)
      BY <1>2, <1>5 DEF RegistryInv, TombstonesOK
    <2> QED BY <1>1, <1>5, <1>6, <2>1 DEF TombstonesOK, NoDup, Contains
  <1>9. WatchOK'
    BY <1>1 DEF RegistryInv, WatchOK, Holds, Within, Behind, Home
  <1>10. OutOK'
    <2>1. ~out[s].out
      BY <1>1 DEF RegistryInv, SweepOK
    <2>2. ASSUME NEW t \in Servers, out[t].out, Cardinality(out[t].since) < maxRemovedServers
          PROVE  ~servers[t].live /\ Within(m, t, out[t].since)
      BY <1>2, <1>5, <2>1, <2>2 DEF RegistryInv, OutOK
    <2> QED BY <1>1, <1>6, <2>2 DEF RegistryInv, OutOK, Within
  <1> QED BY <1>7, <1>8, <1>9, <1>10 DEF RegistryInv

LEMMA StillRegistry ==
    ASSUME RegistryInv, servers' = servers, removed' = removed, sought' = sought,
           attached' = attached, watch' = watch, out' = out, SweepOK'
    PROVE  RegistryInv'
  <1>1. ServersOK'
    BY DEF RegistryInv, ServersOK, Sound, RegistryType, NoDup
  <1>2. WorkersOK' /\ TombstonesOK'
    BY DEF RegistryInv, WorkersOK, TombstonesOK, NoDup, Contains
  <1>3. WatchOK'
    BY DEF RegistryInv, WatchOK, Holds, Within, Behind, Home
  <1>4. OutOK'
    BY DEF RegistryInv, OutOK, Within
  <1> QED BY <1>1, <1>2, <1>3, <1>4 DEF RegistryInv

LEMMA RegistryStep == RegistryParameters /\ RegistryInv /\ [RegistryNext]_registryVars => RegistryInv'
  <1> SUFFICES ASSUME RegistryParameters, RegistryInv, [RegistryNext]_registryVars PROVE RegistryInv'
    OBVIOUS
  <1>1. ASSUME NEW c \in Workers, SessionStep(c) PROVE RegistryInv'
    BY <1>1, RecordStep, KnownStep, recordUnderLockStep, knownUnderLockStep DEF SessionStep
  <1>2. CASE ReconcileReturns
    <2>1. SweepOK'
      BY <1>2 DEF ReconcileReturns, SweepOK, Unlocked
    <2> QED BY <1>2, <2>1, StillRegistry DEF ReconcileReturns
  <1>3. CASE UNCHANGED registryVars
    <2>1. SweepOK'
      BY <1>3 DEF registryVars, SweepOK, RegistryInv
    <2> QED BY <1>3, <2>1, StillRegistry DEF registryVars
  <1> QED BY <1>1, <1>2, <1>3, ReconcileStep, DropStep, LiftStep DEF RegistryNext

(***************************************************************************)
(* For any callers, servers, scopes, bounds and refreshes: a session is    *)
(* known until as many other organisations, keys of its organisation or    *)
(* sessions of its scope were used as the bound of that level, and a       *)
(* dropped server stays out of the registry until it is active again or    *)
(* its tombstone has been outnumbered.                                     *)
(***************************************************************************)
THEOREM SessionsAreKept == RegistryParameters /\ RegistrySpec => []SessionsKept
  <1> SUFFICES ASSUME RegistryParameters PROVE RegistrySpec => []SessionsKept
    OBVIOUS
  <1>1. RegistryInit => RegistryInv
    BY RegistryStarts
  <1>2. RegistryInv /\ [RegistryNext]_registryVars => RegistryInv'
    BY RegistryStep
  <1>3. RegistryInv => SessionsKept
    BY DEF RegistryInv, WatchOK, OutOK, Holds, Behind, SessionsKept, KeptUntilOutnumbered,
           RemovedStaysOut, entryKnown, Contains
  <1> QED BY <1>1, <1>2, <1>3, PTL DEF RegistrySpec
=============================================================================
