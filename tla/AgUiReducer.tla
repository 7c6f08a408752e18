---------------------------- MODULE AgUiReducer ----------------------------
(***************************************************************************)
(* The reducer the app runs over the AG-UI events of one thread             *)
(* (apps/mobile/src/bridge/agui): the live message state of the thread and  *)
(* what each event does to it.  Everything here is a function of a state    *)
(* and an event; module Transcript drives it.                               *)
(*                                                                         *)
(* Texts are sequences of tokens, so that appending, prefixes and "contains" *)
(* mean what they mean for strings.  A message id is a triple               *)
(* <<kind, number, run>>.  The index cache messageIndexById, the chunked     *)
(* custom events, step, state and raw events are left out: nothing of the   *)
(* transcript depends on them.                                             *)
(***************************************************************************)
EXTENDS Integers, Sequences, SequencesExt, FiniteSets

CONSTANTS Tools,        \* tool call ids
          MaxMsgs       \* MAX_MESSAGES_PER_THREAD

NoId == <<"none", 0, 0>>
MsgId(n) == <<"m", n, 0>>                 \* canonical message id
CallId(t) == <<"call", t, 0>>             \* tool-call:<id>
ResId(t) == <<"res", t, 0>>               \* tool-result:<id>
RunResId(t, r) == <<"runres", t, r>>      \* <run>::tool-result::<id>
CardId(t) == <<"card", t, 0>>             \* subagent:<id>

(* Revision of a tool whose text or structured content was never received.  *)
NoRev == <<-1>>

(* A row: call is the tool call it speaks for (0: none), pend the tri-state  *)
(* flag `pending`.                                                          *)
Row(id, role, text, pend, call) ==
    [id |-> id, role |-> role, text |-> text, pend |-> pend, call |-> call]

createAgUiThreadMessageState ==
    [msgs |-> <<>>, auth |-> FALSE, runOf |-> {}, term |-> {},
     callOf |-> [t \in Tools |-> NoId], resOf |-> [t \in Tools |-> NoId],
     sub |-> {}, meta |-> [t \in Tools |-> "none"],
     textRev |-> [t \in Tools |-> NoRev], structRev |-> [t \in Tools |-> NoRev],
     structText |-> [t \in Tools |-> <<>>]]

Ids(msgs) == {msgs[i].id : i \in DOMAIN msgs}
Has(l, id) == id \in Ids(l.msgs)
findMessage(l, id) == l.msgs[CHOOSE i \in DOMAIN l.msgs : l.msgs[i].id = id]
TextOf(l, id) == IF Has(l, id) THEN findMessage(l, id).text ELSE <<>>
LastRows(msgs, k) == IF Len(msgs) > k THEN SubSeq(msgs, Len(msgs) - k + 1, Len(msgs)) ELSE msgs
WithoutIds(msgs, ids) ==
    FlattenSeq([i \in DOMAIN msgs |-> IF msgs[i].id \in ids THEN <<>> ELSE <<msgs[i]>>])
Forget(of, ids) == [t \in Tools |-> IF of[t] \in ids THEN NoId ELSE of[t]]

upsertMessageUntrimmed(l, m, r) ==
    [l EXCEPT !.msgs = IF Has(l, m.id)
                       THEN [i \in DOMAIN @ |-> IF @[i].id = m.id THEN m ELSE @[i]] ELSE Append(@, m),
              !.runOf = @ \cup {<<m.id, r>>}]

(* Replace the row in place, or append it and drop the oldest rows beyond    *)
(* the limit together with what is remembered of them.                      *)
upsertMessage(l, m, r) ==
    LET msgs == IF Has(l, m.id)
                THEN [i \in DOMAIN l.msgs |-> IF l.msgs[i].id = m.id THEN m ELSE l.msgs[i]]
                ELSE Append(l.msgs, m)
        kept == LastRows(msgs, MaxMsgs)
        dropped == Ids(msgs) \ Ids(kept)
    IN  [l EXCEPT !.msgs = kept,
                  !.runOf = {p \in @ : p[1] \notin dropped \cup {m.id}} \cup {<<m.id, r>>},
                  !.callOf = Forget(@, dropped),
                  !.resOf = Forget(@, dropped),
                  !.term = @ \ dropped]

(* TEXT_MESSAGE_START and REASONING_MESSAGE_START: a row unless it is known. *)
textMessage(id, role) ==
    Row(id, role, <<>>, IF role \in {"assistant", "reasoning"} THEN "on" ELSE "unset", 0)
reduceMessageStart(l, id, role, r) ==
    IF Has(l, id) THEN l ELSE upsertMessage(l, textMessage(id, role), r)

(* A delta; an assistant or reasoning row that receives one is pending again. *)
appendText(l, id, delta, role, r) ==
    LET old == IF Has(l, id) THEN findMessage(l, id) ELSE textMessage(id, role)
    IN  upsertMessage(l, [old EXCEPT !.text = @ \o delta,
                             !.pend = IF old.role \in {"assistant", "reasoning"} THEN "on" ELSE @], r)

(* The rows of ids are over: a reasoning row settles, an assistant row does   *)
(* when the event carries the time it completed.                            *)
Settle(msgs, ids, timed) ==
    [i \in DOMAIN msgs |->
        IF /\ msgs[i].id \in ids
           /\ \/ msgs[i].role = "reasoning" /\ msgs[i].pend = "on"
              \/ msgs[i].role = "assistant" /\ timed
        THEN [msgs[i] EXCEPT !.pend = "off"] ELSE msgs[i]]
markTerminal(l, id, timed) ==
    [l EXCEPT !.msgs = Settle(@, {id}, timed), !.term = @ \cup {id}]
markRunTerminal(l, r) ==
    LET ids == {p[1] : p \in {q \in l.runOf : q[2] = r}}
    IN  [l EXCEPT !.msgs = Settle(@, ids, TRUE), !.term = @ \cup ids]

(* A tool call becomes a row of its own: the bridge names no parent message.  *)
startToolCall(l, t, r) ==
    LET row == IF Has(l, CallId(t)) THEN findMessage(l, CallId(t))
                                    ELSE Row(CallId(t), "assistant", <<>>, "unset", t)
    IN  [upsertMessage(l, row, r) EXCEPT !.callOf[t] = CallId(t)]
reduceToolCallStart(l, t, r) == IF t \in l.sub THEN l ELSE startToolCall(l, t, r)

(* The bridge sends the argument text "{}" once: only the row it may create,  *)
(* or refresh, is kept of it.                                               *)
appendToolArgs(l, t, r) ==
    LET s == IF l.callOf[t] = NoId THEN startToolCall(l, t, r) ELSE l
    IN  IF Has(s, s.callOf[t]) THEN upsertMessage(s, findMessage(s, s.callOf[t]), r) ELSE s
reduceToolCallArgs(l, t, r) == IF t \in l.sub THEN l ELSE appendToolArgs(l, t, r)
reduceToolCallEnd(l, t) ==
    IF t \in l.sub \/ l.callOf[t] = NoId THEN l ELSE markTerminal(l, l.callOf[t], FALSE)

upsertToolResult(l, id, t, text, r) ==
    [upsertMessage(l, Row(id, "tool", text, "unset", t), r) EXCEPT !.resOf[t] = id]

appendToolResultAlone(l, id, t, delta, r) ==
    upsertToolResult([l EXCEPT !.msgs = WithoutIds(@, {l.resOf[t]})], id, t, delta, r)

(* TOOL_CALL_RESULT: the text goes after what the call's row already says and *)
(* the row moves under the id of the event.                                 *)
appendToolResult(l, id, t, delta, r) ==
    LET was == l.resOf[t]
        cut == IF was \notin {NoId, id} THEN [l EXCEPT !.msgs = WithoutIds(@, {was})] ELSE l
    IN  upsertToolResult(cut, id, t, TextOf(l, was) \o delta, r)
reduceToolCallResult(l, id, t, delta, r) ==
    IF t \in l.sub THEN l ELSE appendToolResult(l, id, t, delta, r)

(* tool-meta: puts a running row on screen before there is any output.       *)
rememberToolMeta(l, t, status) == IF t \in l.sub THEN l ELSE [l EXCEPT !.meta[t] = status]
reduceToolMeta(l, t, status, r) ==
    rememberToolMeta(IF l.callOf[t] = NoId THEN startToolCall(l, t, r) ELSE l, t, status)

(* Where needle is in haystack; a token of a tool's text is a whole line.     *)
wholeLineRuns(haystack, needle) ==
    {i \in 0 .. Len(haystack) - Len(needle) : SubSeq(haystack, i + 1, i + Len(needle)) = needle}

(* What of the structured rendering the plain text does not already contain:  *)
(* the text is cut out of it where it first occurs in one run.               *)
structuredTextRemainder(text, s) ==
    LET runs == wholeLineRuns(s, text)
        at == CHOOSE i \in runs : \A j \in runs : i <= j
    IN  CASE s = <<>> \/ text = <<>> -> s
          [] runs # {} -> SubSeq(s, 1, at) \o SubSeq(s, at + Len(text) + 1, Len(s))
          [] wholeLineRuns(text, s) # {} -> <<>>
          [] OTHER -> s

ResultRow(l, t) == IF l.resOf[t] = NoId THEN ResId(t) ELSE l.resOf[t]

(* tool-text: the whole plain text, with the structured remainder after it.   *)
reduceToolText(l, t, text, r) ==
    LET more == structuredTextRemainder(text, l.structText[t])
    IN  IF t \in l.sub \/ l.textRev[t] = text THEN l
        ELSE [upsertToolResult(l, ResultRow(l, t), t, text \o more, r)
                EXCEPT !.textRev[t] = text, !.structText[t] = more]

(* tool-content: the previous structured text is stripped if it is still at   *)
(* the end, and the new one appended.                                       *)
withoutPreviousStructuredText(text, s) ==
    IF s # <<>> /\ IsSuffix(s, text) THEN SubSeq(text, 1, Len(text) - Len(s)) ELSE text
reduceToolContent(l, t, s, r) ==
    LET text == withoutPreviousStructuredText(TextOf(l, ResultRow(l, t)), l.structText[t])
        more == structuredTextRemainder(text, s)
    IN  IF t \in l.sub \/ l.structRev[t] = s THEN l
        ELSE [upsertToolResult(l, ResultRow(l, t), t, text \o more, r)
                EXCEPT !.structRev[t] = s, !.structText[t] = more,
                       !.meta[t] = IF @ = "none" THEN "pending" ELSE @]

(* ACTIVITY_SNAPSHOT of a sub-agent: its card takes the place of the generic  *)
(* tool rows, which are suppressed from now on.                             *)
reduceActivitySnapshot(l, t, r) ==
    LET cut == [l EXCEPT !.msgs = WithoutIds(@, {l.callOf[t], l.resOf[t]}),
                         !.sub = @ \cup {t}]
    IN  upsertMessage(cut, Row(CardId(t), "activity", <<>>, "unset", t), r)

(* Rows of a snapshot that speak for a suppressed call are replaced by its     *)
(* card, once, unless the snapshot has the card itself.                      *)
buildSnapshotMessages(l, rows, hidden) ==
    LET carded == {rows[i].call : i \in {j \in DOMAIN rows : rows[j].role = "activity"}}
        Generic(m) == m.role \in {"tool", "assistant"} /\ m.call \in hidden
        First(i) == \A j \in 1 .. i - 1 : ~(Generic(rows[j]) /\ rows[j].call = rows[i].call)
        Restored(i) ==
            LET t == rows[i].call
            IN  IF ~Generic(rows[i]) THEN <<rows[i]>>
                ELSE IF Has(l, CardId(t)) /\ t \notin carded /\ First(i)
                     THEN <<findMessage(l, CardId(t))>> ELSE <<>>
    IN  FlattenSeq([i \in DOMAIN rows |-> Restored(i)])

rebaseNothing(of, kept, role) == of

(* The call-to-row bookkeeping after a snapshot: what the snapshot says, and   *)
(* what it is silent about while the row survives.                          *)
rebaseToolBookkeeping(of, kept, role) ==
    [t \in Tools |->
        LET said == {m \in {kept[i] : i \in DOMAIN kept} : m.role = role /\ m.call = t}
        IN  IF said # {} THEN (CHOOSE m \in said : TRUE).id
            ELSE IF of[t] \in Ids(kept) THEN of[t] ELSE NoId]

(* MESSAGES_SNAPSHOT: the transcript as the session has it replaces the rows.  *)
applyMessagesSnapshot(l, rows, metas, r) ==
    LET hidden == l.sub \cup {rows[i].call : i \in {j \in DOMAIN rows : rows[j].role = "activity"}}
        next == buildSnapshotMessages(l, rows, hidden)
        kept == LastRows(next, MaxMsgs)
    IN  [l EXCEPT !.msgs = kept, !.auth = TRUE,
                  !.runOf = {<<id, r>> : id \in Ids(next)},
                  !.term = Ids(next),
                  !.sub = hidden,
                  !.meta = [t \in Tools |-> IF metas[t] # "none" /\ t \notin hidden
                                            THEN metas[t] ELSE @[t]],
                  !.callOf = rebaseToolBookkeeping(@, kept, "assistant"),
                  !.resOf = rebaseToolBookkeeping(@, kept, "tool")]

(* One event of the thread.                                                 *)
reduceThreadState(l, e) ==
    CASE e.ev = "RUN_STARTED" -> createAgUiThreadMessageState
      [] e.ev = "MESSAGE_START" -> reduceMessageStart(l, e.id, e.role, e.run)
      [] e.ev = "MESSAGE_CONTENT" -> appendText(l, e.id, e.text, e.role, e.run)
      [] e.ev = "MESSAGE_END" -> markTerminal(l, e.id, e.role # "reasoning")
      [] e.ev = "TOOL_CALL_START" -> reduceToolCallStart(l, e.t, e.run)
      [] e.ev = "TOOL_CALL_ARGS" -> reduceToolCallArgs(l, e.t, e.run)
      [] e.ev = "TOOL_CALL_END" -> reduceToolCallEnd(l, e.t)
      [] e.ev = "TOOL_CALL_RESULT" -> reduceToolCallResult(l, RunResId(e.t, e.run), e.t, e.text, e.run)
      [] e.ev = "tool-meta" -> reduceToolMeta(l, e.t, e.status, e.run)
      [] e.ev = "tool-text" -> reduceToolText(l, e.t, e.text, e.run)
      [] e.ev = "tool-content" -> reduceToolContent(l, e.t, e.text, e.run)
      [] e.ev = "ACTIVITY_SNAPSHOT" -> reduceActivitySnapshot(l, e.t, e.run)
      [] e.ev = "MESSAGES_SNAPSHOT" -> applyMessagesSnapshot(l, e.rows, e.metas, e.run)
      [] e.ev = "RUN_FINISHED" -> markRunTerminal(l, e.run)
=============================================================================
