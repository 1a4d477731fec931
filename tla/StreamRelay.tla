---------------------------- MODULE StreamRelay ----------------------------
(***************************************************************************)
(* The goroutine of handleStreamingResponse (internal/proxy/handler.go)    *)
(* that relays one upstream event stream to one client.  It has three      *)
(* paths: the PII path, which pushes every line through pii.StreamRestorer *)
(* (restore), and the plain path with or without a provider adapter.  A    *)
(* line is "data", "done" (data: [DONE]), "other" (a comment or another    *)
(* field) or "blank", which ends an event.                                 *)
(*                                                                         *)
(* Two things happen at times the goroutine does not choose: the reader    *)
(* ends, by EOF or by an error (a reset, the stream timer, CancelInflight  *)
(* at shutdown), possibly while the scanner still has lines buffered, and  *)
(* the client goes away, which a failed write or flush reveals.            *)
(***************************************************************************)
EXTENDS Naturals, Sequences

CONSTANTS Restoring,  \* which values of needsContentRestore are considered
          MaxLines,   \* upstream lines per stream
          MaxOutputs  \* lines an adapter makes of one upstream line

ASSUME StreamAssumption ==
    Restoring \subseteq BOOLEAN /\ MaxLines \in Nat /\ MaxOutputs \in Nat

VARIABLES
    restore, adapter,   \* the path taken: needsContentRestore, adapter # nil
    hasBreaker,         \* a breaker was passed (not for a 429 stream)
    pc,                 \* scan, emit, close, classify, settle, log, done
    reader,             \* "open", or how the body ended: "eof", "err"
    lines,              \* upstream lines scanned so far
    queue,              \* adapter output not yet written
    raw,                \* rawEventOpen, rawEventDataLines, rawEventHasDoneLine
    terminalSeen, clientDisconnected, incomplete,
    aborted,            \* streamAborted on the PII path, plainAborted on the other
    adapterAborted,
    verdict,            \* calls made on the breaker
    logged,             \* status of the usage event: "none", "upstream", "502"
    client              \* what the client has received, kept by the client

path == <<restore, adapter, hasBreaker>>
flags == <<terminalSeen, clientDisconnected, incomplete, aborted, adapterAborted>>
streamVars == <<path, pc, reader, lines, queue, raw, flags, verdict, logged, client>>

NoEvent == [open |-> FALSE, data |-> 0, done |-> FALSE]

\* The client's own view: the event it is in the middle of, whether it has seen
\* a complete [DONE] event, abort events received, and whether anything came
\* after [DONE] or an abort event inside another event.
NewClient == [event |-> NoEvent, gotDone |-> FALSE, aborts |-> 0,
              afterDone |-> FALSE, midEvent |-> FALSE]

StreamInit ==
    /\ restore \in Restoring
    /\ adapter \in BOOLEAN
    /\ hasBreaker \in BOOLEAN
    /\ pc = "scan"
    /\ reader = "open"
    /\ lines = 0
    /\ queue = <<>>
    /\ raw = NoEvent
    /\ terminalSeen = FALSE
    /\ clientDisconnected = FALSE
    /\ incomplete = FALSE
    /\ aborted = FALSE
    /\ adapterAborted = FALSE
    /\ verdict = <<>>
    /\ logged = "none"
    /\ client = NewClient

-----------------------------------------------------------------------------
\* The bookkeeping of one line in an event; two data lines are as good as more.
LineIn(event, kind) ==
    [open |-> TRUE,
     data |-> IF kind \in {"data", "done"} /\ event.data < 2
              THEN event.data + 1 ELSE event.data,
     done |-> event.done \/ kind = "done"]

IsTerminalEvent(event) == event.open /\ event.data = 1 /\ event.done

\* What a client that parses server-sent events makes of one more line.
Receive(c, kind) ==
    LET late == c.afterDone \/ c.gotDone
    IN  IF kind = "blank"
        THEN [c EXCEPT !.event = NoEvent,
                       !.gotDone = @ \/ IsTerminalEvent(c.event)]
        ELSE [c EXCEPT !.event = LineIn(@, kind), !.afterDone = late]

\* A line with the blank line that ends its event.
ReceiveEvent(c, kind) == Receive(Receive(c, kind), "blank")

ReceiveAbort(c) ==
    [c EXCEPT !.event = NoEvent, !.aborts = @ + 1,
              !.afterDone = @ \/ c.gotDone, !.midEvent = @ \/ c.event.open]

\* The upstream body ends.  Lines the scanner has buffered can still come.
ReaderEnds(how) ==
    /\ pc \in {"scan", "emit"}
    /\ reader = "open"
    /\ reader' = how
    /\ UNCHANGED <<path, pc, lines, queue, raw, flags, verdict, logged, client>>

\* scanner.Scan() returns false.
ScanStops ==
    /\ pc = "scan"
    /\ reader # "open"
    /\ pc' = "close"
    /\ UNCHANGED <<path, reader, lines, queue, raw, flags, verdict, logged, client>>

NextLine == pc = "scan" /\ lines < MaxLines /\ lines' = lines + 1

BreakLoop == pc' = "close"

\* A failed write or flush on either path.
ClientGone ==
    /\ clientDisconnected' = TRUE
    /\ BreakLoop
    /\ UNCHANGED <<terminalSeen, incomplete, aborted, adapterAborted, client>>

-----------------------------------------------------------------------------
(* The plain path without an adapter: lines are forwarded one by one.      *)

RawLine(kind) ==
    /\ ~restore /\ ~adapter
    /\ NextLine
    /\ LET event == IF kind = "blank" THEN raw ELSE LineIn(raw, kind)
       IN  \/ /\ raw' = event
              /\ ClientGone
           \/ /\ client' = Receive(client, kind)
              /\ raw' = IF kind = "blank" THEN NoEvent ELSE event
              /\ terminalSeen' = (kind = "blank" /\ IsTerminalEvent(event))
              /\ IF terminalSeen' THEN BreakLoop ELSE UNCHANGED pc
              /\ UNCHANGED <<clientDisconnected, incomplete, aborted, adapterAborted>>
    /\ UNCHANGED <<path, reader, queue, verdict, logged>>

-----------------------------------------------------------------------------
(* The plain path with an adapter: each output line is an event.           *)

AdapterLine(out) ==
    /\ ~restore /\ adapter
    /\ NextLine
    /\ queue' = out
    /\ pc' = IF out = <<>> THEN "scan" ELSE "emit"
    /\ UNCHANGED <<path, reader, raw, flags, verdict, logged, client>>

EmitLine ==
    /\ pc = "emit"
    /\ \/ /\ Head(queue) # "blank"
          /\ ClientGone
          /\ queue' = <<>>
       \/ /\ client' = IF Head(queue) = "blank" THEN client
                       ELSE ReceiveEvent(client, Head(queue))
          /\ terminalSeen' = (Head(queue) = "done")
          /\ queue' = IF terminalSeen' THEN <<>> ELSE Tail(queue)
          /\ IF terminalSeen' THEN BreakLoop
             ELSE pc' = IF Len(queue) = 1 THEN "scan" ELSE "emit"
          /\ UNCHANGED <<clientDisconnected, incomplete, aborted, adapterAborted>>
    /\ UNCHANGED <<path, reader, lines, raw, verdict, logged>>

Tell(calls) == verdict' = IF hasBreaker THEN verdict \o calls ELSE verdict

\* The transform failed: one abort event, and the failure recorded at once.
TransformFails ==
    /\ ~restore /\ adapter
    /\ NextLine
    /\ \/ ClientGone /\ UNCHANGED verdict
       \/ /\ client' = ReceiveAbort(client)
          /\ aborted' = TRUE
          /\ incomplete' = TRUE
          /\ Tell(<<"failure">>)
          /\ BreakLoop
          /\ UNCHANGED <<terminalSeen, clientDisconnected, adapterAborted>>
    /\ UNCHANGED <<path, reader, queue, raw, logged>>

-----------------------------------------------------------------------------
(* The PII path.  StreamRestorer.Push yields nothing, whole events, or     *)
(* [DONE] as the last event, or an error.                                  *)

PushLine(kind) ==
    /\ restore
    /\ NextLine
    /\ \/ kind = "other" /\ UNCHANGED <<pc, flags, client>>
       \/ kind # "other" /\ ClientGone
       \/ /\ kind # "other"
          /\ client' = ReceiveEvent(client, kind)
          /\ terminalSeen' = (kind = "done")
          /\ IF terminalSeen' THEN BreakLoop ELSE UNCHANGED pc
          /\ UNCHANGED <<clientDisconnected, incomplete, aborted, adapterAborted>>
    /\ UNCHANGED <<path, reader, queue, raw, verdict, logged>>

\* The byte cap is exceeded, or Push reports a violation of its protocol.
PushFails ==
    /\ restore
    /\ NextLine
    /\ aborted' = TRUE
    /\ BreakLoop
    /\ UNCHANGED <<path, reader, queue, raw, verdict, logged, client,
                   terminalSeen, clientDisconnected, incomplete, adapterAborted>>

\* The transform failed: the abort event is written, delivered or not.
PiiTransformFails ==
    /\ restore /\ adapter
    /\ NextLine
    /\ aborted' = TRUE
    /\ adapterAborted' = TRUE
    /\ client' \in {client, ReceiveAbort(client)}
    /\ BreakLoop
    /\ UNCHANGED <<path, reader, queue, raw, verdict, logged,
                   terminalSeen, clientDisconnected, incomplete>>

-----------------------------------------------------------------------------
(* After the loop.                                                         *)

\* On the raw path an event still open is closed first.
EventLeftOpen ==
    ~restore /\ ~adapter /\ ~clientDisconnected /\ ~terminalSeen /\ raw.open

CloseEvent ==
    /\ pc = "close"
    /\ pc' = "classify"
    /\ IF EventLeftOpen
       THEN \/ clientDisconnected' = TRUE /\ UNCHANGED <<terminalSeen, client>>
            \/ /\ client' = Receive(client, "blank")
               /\ terminalSeen' = IsTerminalEvent(raw)
               /\ UNCHANGED clientDisconnected
       ELSE UNCHANGED <<terminalSeen, clientDisconnected, client>>
    /\ UNCHANGED <<path, reader, lines, queue, raw, incomplete, aborted,
                   adapterAborted, verdict, logged>>

\* The first three cases of the plain path's switch, which do nothing.
Classified == clientDisconnected \/ aborted \/ terminalSeen

\* Its default case tells the client that the stream is incomplete.
Classify ==
    /\ ~restore
    /\ pc = "classify"
    /\ pc' = "settle"
    /\ IF Classified
       THEN UNCHANGED <<incomplete, clientDisconnected, client>>
       ELSE \/ clientDisconnected' = TRUE /\ UNCHANGED <<incomplete, client>>
            \/ /\ client' = ReceiveAbort(client)
               /\ incomplete' = TRUE
               /\ UNCHANGED clientDisconnected
    /\ UNCHANGED <<path, reader, lines, queue, raw, terminalSeen, aborted,
                   adapterAborted, verdict, logged>>

\* On the PII path the adapter may have written an abort event already.
OwesErrorEvent == ~adapterAborted

\* The PII path: a scanner error aborts whatever the loop saw; the error event
\* goes to a client that is still there, delivered or not.
PiiClassify ==
    /\ restore
    /\ pc = "classify"
    /\ pc' = "settle"
    /\ aborted' = (aborted \/ reader = "err")
    /\ incomplete' = ((aborted' \/ ~terminalSeen) /\ ~clientDisconnected)
    /\ IF incomplete' /\ OwesErrorEvent
       THEN client' \in {client, ReceiveAbort(client)}
       ELSE UNCHANGED client
    /\ UNCHANGED <<path, reader, lines, queue, raw, terminalSeen,
                   clientDisconnected, adapterAborted, verdict, logged>>

\* Mutant: a disconnect is no special case.
PlainVerdictBlaming ==
    IF aborted THEN <<>>
    ELSE << IF terminalSeen THEN "success" ELSE "failure" >>

\* An adapter abort has recorded its own failure.
PlainVerdict ==
    IF aborted THEN <<>>
    ELSE << IF clientDisconnected THEN "neutral"
            ELSE IF terminalSeen THEN "success" ELSE "failure" >>

PiiVerdict ==
    << IF aborted THEN "failure"
       ELSE IF clientDisconnected THEN "neutral"
       ELSE IF ~terminalSeen THEN "failure" ELSE "success" >>

Settle ==
    /\ pc = "settle"
    /\ pc' = "log"
    /\ Tell(IF restore THEN PiiVerdict ELSE PlainVerdict)
    /\ UNCHANGED <<path, reader, lines, queue, raw, flags, logged, client>>

EventStatus == IF incomplete THEN "502" ELSE "upstream"

LogUsage ==
    /\ pc = "log"
    /\ pc' = "done"
    /\ logged' = EventStatus
    /\ UNCHANGED <<path, reader, lines, queue, raw, flags, verdict, client>>

\* The goroutine has returned.
Done == pc = "done" /\ UNCHANGED streamVars

Outputs == UNION {[1..n -> {"data", "done", "blank"}] : n \in 0..MaxOutputs}

Relay ==
    \/ ScanStops
    \/ \E kind \in {"data", "done", "other", "blank"} : RawLine(kind)
    \/ \E out \in Outputs : AdapterLine(out)
    \/ EmitLine
    \/ TransformFails
    \/ \E kind \in {"data", "done", "other"} : PushLine(kind)
    \/ PushFails
    \/ PiiTransformFails
    \/ CloseEvent
    \/ Classify
    \/ PiiClassify
    \/ Settle
    \/ LogUsage

StreamNext == Relay \/ (\E how \in {"eof", "err"} : ReaderEnds(how)) \/ Done

StreamSpec == StreamInit /\ [][StreamNext]_streamVars

\* The stream timer cancels the upstream request, so the reader ends; the
\* goroutine runs.
StreamFairness ==
    WF_streamVars(Relay) /\ WF_streamVars(\E how \in {"eof", "err"} : ReaderEnds(how))

-----------------------------------------------------------------------------
\* The relay is in the inner write loop of a transformed line exactly while it
\* has outputs left to write, and its flags and counters keep their types.
StreamTypeOK ==
    /\ pc \in {"scan", "emit", "close", "classify", "settle", "log", "done"}
    /\ reader \in {"open", "eof", "err"}
    /\ lines \in 0..MaxLines
    /\ raw \in [open : BOOLEAN, data : 0..2, done : BOOLEAN]
    /\ logged \in {"none", "upstream", "502"}
    /\ pc = "emit" <=> queue # <<>>

\* Every path through the goroutine releases the reservation it was handed
\* exactly once, as Allow's documentation requires: no verdict is lost and
\* none is given twice.
OneVerdict ==
    /\ Len(verdict) <= 1
    /\ pc \in {"log", "done"} => Len(verdict) = IF hasBreaker THEN 1 ELSE 0

\* A success is recorded only for a stream whose client was sent a complete
\* [DONE] event, as the client itself would parse it.
SuccessMeansDone == verdict = <<"success">> => client.gotDone

\* On the restoring path a read error always aborts; what the code then does
\* with a client that has left, or has [DONE], is excluded below.
RestoreReadError == restore /\ reader = "err"

\* A client that hangs up never counts as a failure of the upstream, even when
\* the upstream fails at the same moment (except after RestoreReadError).
DisconnectIsNeutral ==
    pc \in {"log", "done"} /\ clientDisconnected /\ ~RestoreReadError
        => verdict \in {<<>>, <<"neutral">>}

\* streamIncomplete is set only for streams that ended without [DONE] (except
\* after RestoreReadError).
IncompleteMeansNoDone == incomplete /\ ~RestoreReadError => ~client.gotDone

\* The client is told of an abort at most once, never inside another event,
\* and nothing follows [DONE] on the wire (except after RestoreReadError).
EndsCleanly ==
    /\ client.aborts <= 1
    /\ ~client.midEvent
    /\ client.afterDone => RestoreReadError

\* A stream is logged with the upstream's status only if the client got it
\* whole or left: a truncated answer never looks successful in the usage log.
LoggedOkMeansDelivered ==
    logged = "upstream" => client.gotDone \/ clientDisconnected

\* The breaker hears of every stream once and hears the truth, what the client
\* sees ends cleanly, and the usage log agrees with it.
StreamsSettle ==
    /\ OneVerdict /\ SuccessMeansDone
    /\ DisconnectIsNeutral /\ IncompleteMeansNoDone
    /\ EndsCleanly /\ LoggedOkMeansDelivered
=============================================================================
