------------------------------ MODULE PiiStream ------------------------------
(***************************************************************************)
(* StreamRestorer (pii/stream.go): a streamed answer in which the original *)
(* values are put back in place of their pseudonyms, wherever the upstream *)
(* cuts its chunks. Each lane of a choice (its text, and the arguments of  *)
(* each of its tool calls) holds back the end of what it has received as   *)
(* long as that may be the beginning of a known pseudonym. Whatever does   *)
(* not look right aborts the stream.                                       *)
(*                                                                         *)
(* A text is a sequence of letters. A pseudonym is the marker and a tail   *)
(* of letters of a fixed alphabet, as many as make pseudonymLen. A line is *)
(* blank, done, usage, broken (no JSON, or an error), or a sequence of     *)
(* entries, one per choice it speaks of; a line without data does nothing. *)
(* The limits on choices and tool calls show as indexes out of range.      *)
(***************************************************************************)
EXTENDS Naturals, Sequences, FiniteSets, SequencesExt

CONSTANTS
    Indexes, Tools,     \* indexes of choices, and of the tool calls of each
    pseudonymMarker,    \* "PII_" in the code
    pseudonymLen,       \* 31 in the code
    TailLetters,        \* the letters that may follow the marker
    rev,                \* Filter.rev: each known pseudonym's original value
    Lines,              \* the lines an upstream may send
    MaxText             \* bound: letters received in all lanes

Known == DOMAIN rev

Canonical(t) ==
    /\ Len(t) = pseudonymLen
    /\ IsPrefix(pseudonymMarker, t)
    /\ \A i \in Len(pseudonymMarker) + 1 .. pseudonymLen : t[i] \in TailLetters

VARIABLES
    choices,    \* choiceCarry of every choice
    inEvent, terminal, aborted,
    received,   \* history: the text that came in each lane
    emitted,    \* history: the text the client was sent in each lane
    residue     \* history: residualScan has aborted the stream

vars == <<choices, inEvent, terminal, aborted, received, emitted, residue>>

(* The lanes of a choice: its text, and each tool call's arguments. *)
Lanes == {"text"} \cup Tools
NoLane == [open |-> FALSE, carry |-> <<>>, tail |-> <<>>]
NoChoice == [lane |-> [l \in Lanes |-> NoLane], format |-> "unknown", finished |-> FALSE, sawTool |-> FALSE]

Init ==
    /\ choices = [i \in Indexes |-> NoChoice]
    /\ inEvent = FALSE /\ terminal = FALSE /\ aborted = FALSE
    /\ received = [i \in Indexes |-> [l \in Lanes |-> <<>>]]
    /\ emitted = received
    /\ residue = FALSE

-----------------------------------------------------------------------------
(* strings.Replacer: from left to right, the first match at each place. *)
MatchAt(t, i) == {p \in Known : i + pseudonymLen - 1 <= Len(t) /\ SubSeq(t, i, i + pseudonymLen - 1) = p}

Restore(t) ==
    LET from[i \in 1 .. Len(t) + 1] ==
            IF i > Len(t) THEN <<>>
            ELSE IF MatchAt(t, i) # {} THEN rev[CHOOSE p \in MatchAt(t, i) : TRUE] \o from[i + pseudonymLen]
            ELSE <<t[i]>> \o from[i + 1]
    IN from[1]

IsCanonicalSomewhere(t) ==
    \E i \in 1 .. Len(t) : i + pseudonymLen - 1 <= Len(t) /\ Canonical(SubSeq(t, i, i + pseudonymLen - 1))

HasMarker(t) ==
    \E i \in 1 .. Len(t) : IsPrefix(pseudonymMarker, SubSeq(t, i, Len(t)))

Ending(t, n) == IF Len(t) <= n THEN t ELSE SubSeq(t, Len(t) - n + 1, Len(t))

(* The longest end of a text that a known pseudonym begins with. *)
Held(t, most) ==
    LET lengths == {l \in 0 .. most : l = 0 \/ \E p \in Known : IsPrefix(Ending(t, l), p)}
    IN CHOOSE l \in lengths : \A k \in lengths : k <= l

Least(m, n) == IF m < n THEN m ELSE n

(* The slip: one letter too few is considered. *)
longestPseudonymPrefixSuffixShort(t) == Held(t, Least(Len(t), pseudonymLen - 2))
longestPseudonymPrefixSuffix(t) == Held(t, Least(Len(t), pseudonymLen - 1))

(* residualScan, over the end of what was sent before and the new text: a  *)
(* pseudonym nobody knows, and in arguments the bare marker.               *)
Seen(lane, new) == lane.tail \o new

(* The slip: what was sent before is left out. *)
residualScanAlone(lane, new, inToolArgs) ==
    IsCanonicalSomewhere(new) \/ (inToolArgs /\ HasMarker(new))
residualScan(lane, new, inToolArgs) ==
    IsCanonicalSomewhere(Seen(lane, new)) \/ (inToolArgs /\ HasMarker(Seen(lane, new)))

-----------------------------------------------------------------------------
(* A step over one line works on a record of the choices, of what has been *)
(* received and sent, and of whether it must abort.                        *)
Abort(s) == [s EXCEPT !.aborted = TRUE]

(* pushContent, and the same for the arguments of a tool call. *)
PushLane(s, i, l, text) ==
    LET lane == s.choices[i].lane[l]
        all == lane.carry \o text
        keep == longestPseudonymPrefixSuffix(all)
        new == Restore(SubSeq(all, 1, Len(all) - keep))
        got == [s EXCEPT !.received[i][l] = @ \o text]
    IN IF keep = Len(all) THEN [got EXCEPT !.choices[i].lane[l].carry = all]
       ELSE IF residualScan(lane, new, l # "text") THEN [Abort(got) EXCEPT !.residue = TRUE]
       ELSE [got EXCEPT !.choices[i].lane[l] = [open |-> TRUE, carry |-> Ending(all, keep),
                                                tail |-> Ending(Seen(lane, new), pseudonymLen - 1)],
                        !.emitted[i][l] = @ \o new]

Carrying(s, i) == {l \in Lanes : s.choices[i].lane[l].carry # <<>>}

(* checkCrossLane: while one lane of a choice holds something back, no     *)
(* other lane of it may go on.                                             *)
CrossLane(s, i, active) == Carrying(s, i) \ active # {}

(* One element of delta.tool_calls: a new call needs its id, type and name *)
(* and a known one must not change them; arguments are optional.           *)
BadElement(s, i, el) ==
    IF s.choices[i].lane[el.index].open THEN el.header = "other" ELSE el.header # "complete"

PushTool(i, s, el) ==
    IF s.aborted THEN s
    ELSE LET known == [s EXCEPT !.choices[i].lane[el.index].open = TRUE, !.choices[i].sawTool = TRUE]
         IN IF el.hasArgs THEN PushLane(known, i, el.index, el.args) ELSE known

handleToolCallsDelta(s, i, elements) ==
    LET named == {elements[k].index : k \in DOMAIN elements}
    IN IF \/ elements = <<>>
          \/ Cardinality(named) # Len(elements)
          \/ \E k \in DOMAIN elements : elements[k].index \notin Tools \/ BadElement(s, i, elements[k])
          \/ CrossLane(s, i, named)
       THEN Abort(s)
       ELSE FoldLeft(LAMBDA acc, el : PushTool(i, acc, el), s, elements)

(* The format of a choice is that of its first text; tool calls go with    *)
(* chat alone.                                                             *)
Formats == {"chat", "refusal", "completion"}
FormatClash(cc, e) ==
    \/ e.field \in Formats /\ cc.format \notin {"unknown", e.field}
    \/ e.field = "tools" /\ cc.format \notin {"unknown", "chat"}

allowedFinishReasons == {"stop", "length", "content_filter", "tool_calls"}

handleFinish(s, e) ==
    LET cc == s.choices[e.choice]
    IN IF s.aborted \/ e.finish = "" THEN s
       ELSE IF \/ e.finish \notin allowedFinishReasons
               \/ cc.finished
               \/ (e.finish = "tool_calls") # cc.sawTool
               \/ Carrying(s, e.choice) # {}
            THEN Abort(s)
            ELSE [s EXCEPT !.choices[e.choice].finished = TRUE]

(* One entry of the choices array. *)
handleChoice(s, e) ==
    IF s.aborted THEN s
    ELSE IF \/ e.choice \notin Indexes
            \/ e.field = "two fields"
            \/ e.field = "function_call"
            \/ s.choices[e.choice].finished /\ e.field # "none"
            \/ FormatClash(s.choices[e.choice], e)
            \/ e.field = "tools" /\ CrossLane(s, e.choice, Tools)
            \/ e.field \in Formats /\ CrossLane(s, e.choice, {"text"})
         THEN Abort(s)
         ELSE handleFinish(
                CASE e.field \in Formats ->
                        PushLane([s EXCEPT !.choices[e.choice].format = e.field], e.choice, "text", e.text)
                  [] e.field = "tools" -> handleToolCallsDelta(s, e.choice, e.elements)
                  [] OTHER -> s,
                e)

handleChoices(s, entries) ==
    IF \E j, k \in DOMAIN entries : j # k /\ entries[j].choice = entries[k].choice
    THEN Abort(s)
    ELSE FoldLeft(handleChoice, s, entries)

-----------------------------------------------------------------------------
Now == [choices |-> choices, received |-> received, emitted |-> emitted, aborted |-> FALSE, residue |-> FALSE]

(* What a line that aborts would have sent is not sent. *)
Become(s) ==
    /\ choices' = s.choices /\ aborted' = s.aborted
    /\ received' = s.received /\ residue' = s.residue
    /\ emitted' = IF s.aborted THEN emitted ELSE s.emitted

Refuse ==
    /\ aborted' = TRUE
    /\ UNCHANGED <<choices, inEvent, terminal, received, emitted, residue>>

(* handleDone: nothing may be held back, and a choice with tool calls must *)
(* have been finished.                                                     *)
Incomplete(i) == Carrying(Now, i) # {} \/ (choices[i].sawTool /\ ~choices[i].finished)

handleDone ==
    IF \E i \in Indexes : Incomplete(i) THEN Refuse
    ELSE terminal' = TRUE /\ UNCHANGED <<choices, inEvent, aborted, received, emitted, residue>>

(* Push *)
PushBlank ==
    /\ ~aborted /\ ~terminal
    /\ \E line \in Lines : line.kind = "blank"
    /\ inEvent' = FALSE
    /\ UNCHANGED <<choices, terminal, aborted, received, emitted, residue>>

PushDone ==
    /\ ~aborted /\ ~terminal
    /\ \E line \in Lines : line.kind = "done"
    /\ handleDone

(* Two data lines in one event, no JSON, or an error object. *)
PushBroken ==
    /\ ~aborted /\ ~terminal
    /\ \E line \in Lines : line.kind = "broken" \/ (line.kind = "entries" /\ inEvent)
    /\ Refuse

(* Usage and chunks without choices hold nothing to restore. *)
PushMetadata ==
    /\ ~aborted /\ ~terminal
    /\ \E line \in Lines : line.kind = "usage"
    /\ IF inEvent THEN Refuse
       ELSE inEvent' = TRUE /\ UNCHANGED <<choices, terminal, aborted, received, emitted, residue>>

Size(entries) ==
    LET Text(e) == IF e.field \in Formats THEN Len(e.text)
                   ELSE IF e.field = "tools" THEN FoldLeft(LAMBDA n, el : n + Len(el.args), 0, e.elements)
                   ELSE 0
    IN FoldLeft(LAMBDA n, e : n + Text(e), 0, entries)

Total == FoldLeft(LAMBDA n, i : n + FoldLeft(LAMBDA m, l : m + Len(received[i][l]), 0, SetToSeq(Lanes)),
                  0, SetToSeq(Indexes))

PushChoices ==
    /\ ~aborted /\ ~terminal /\ ~inEvent
    /\ \E line \in Lines :
        /\ line.kind = "entries" /\ Total + Size(line.entries) <= MaxText
        /\ Become(handleChoices(Now, line.entries))
    /\ inEvent' = TRUE
    /\ UNCHANGED terminal

Next == PushBlank \/ PushDone \/ PushBroken \/ PushMetadata \/ PushChoices

Spec == Init /\ [][Next]_vars

-----------------------------------------------------------------------------
\* Wherever the chunks are cut, what the client has been sent of a lane is the
\* lane's text with every known pseudonym replaced, but for what is still held
\* back; and when the stream ends with [DONE] nothing is missing. A stream is
\* given up for a residue only where the text of a lane has one when every known
\* pseudonym is replaced, never because one was cut in two
\* (pushContent, handleToolCallsDelta, handleDone, residualScan).
RestoredWhole ==
    /\ ~aborted => \A i \in Indexes, l \in Lanes :
        LET held == choices[i].lane[l].carry
            text == received[i][l]
        IN /\ emitted[i][l] = Restore(SubSeq(text, 1, Len(text) - Len(held)))
           /\ terminal => emitted[i][l] = Restore(text)
    /\ residue => \E i \in Indexes, l \in Lanes :
        \/ IsCanonicalSomewhere(Restore(received[i][l]))
        \/ l # "text" /\ HasMarker(Restore(received[i][l]))

\* The client is never sent a pseudonym, known or not, not even over several
\* chunks, and never the marker of one in the arguments of a tool call; nor is
\* it after an abort (residualScan).
NoPseudonymOut ==
    \A i \in Indexes, l \in Lanes :
        /\ ~IsCanonicalSomewhere(emitted[i][l])
        /\ l # "text" => ~HasMarker(emitted[i][l])
=============================================================================
