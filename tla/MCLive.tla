------------------------------- MODULE MCLive -------------------------------
(*****************************************************************************)
(* Small instances of the components whose progress is checked along with    *)
(* their safety: the upstream listeners, the key cache, and the access and   *)
(* alias lists.                                                              *)
(*                                                                           *)
(* They are checked in one state graph: LiveInit picks a component, every    *)
(* behaviour is one of that component alone, and the others stay in their    *)
(* initial states.                                                           *)
(*****************************************************************************)
EXTENDS ListenManager, KeyCache, AccessLists

CONSTANTS r1, r2  \* requests to change a list, model values

VARIABLE part  \* the component this behaviour is of

\* An upstream acknowledges the subscription, without honouring it, or fails.
Ack == [era |-> "modern", status |-> 200, encoded |-> FALSE, type |-> "sse",
        body |-> "ack", honored |-> TRUE]
ListenReplies == {Ack, [Ack EXCEPT !.honored = FALSE], [Ack EXCEPT !.status = 0]}

\* It sends a change, the response that ends the stream, or a malformed message.
Changed == [method |-> "tools/list_changed", id |-> FALSE, result |-> FALSE,
            error |-> FALSE, invalid |-> FALSE, mine |-> TRUE]
ListenMessages == {Changed, [Changed EXCEPT !.method = "", !.id = TRUE, !.result = TRUE],
                   [Changed EXCEPT !.result = TRUE]}

liveVars == <<part, vars, keyVars, accessVars>>

LiveInit ==
    /\ part \in {"listen", "signals", "keys", "lists"}
    /\ Init /\ KeyInit /\ AccessInit
    /\ part # "lists" => kind = "model"

\* Three listeners with one change, or two with two changes.
LiveNext ==
    \/ part = "listen" /\ Next /\ signals' <= 1 /\ UNCHANGED <<part, keyVars, accessVars>>
    \/ part = "signals" /\ Next /\ started' <= 2 /\ UNCHANGED <<part, keyVars, accessVars>>
    \/ part = "keys" /\ KeyNext /\ UNCHANGED <<part, vars, accessVars>>
    \/ part = "lists" /\ AccessNext /\ UNCHANGED <<part, vars, keyVars>>

\* The fairness of each component, as its module explains it. The listeners
\* have nothing to do in their initial states.
LiveFairness ==
    /\ Fairness
    /\ part = "keys" => KeyFairness
    /\ part = "lists" => AccessFairness

LiveSpec == LiveInit /\ [][LiveNext]_liveVars /\ LiveFairness

-----------------------------------------------------------------------------
\* The key caches come to agree with the database, and the access and alias
\* caches with their tables, although messages are lost and reloads overtake
\* one another.
CachesConverge ==
    <>[](/\ part = "keys" => InStep
         /\ part = "lists" => CaughtUp)

\* Stop of the listen manager returns.
ListenerStops == StopWaits ~> Stopped
=============================================================================
