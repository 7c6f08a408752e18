---------------------------- MODULE Transcript ----------------------------
(***************************************************************************)
(* What the user sees of a thread while an agent works on it.               *)
(*                                                                         *)
(* The ACP session keeps the thread's timeline and applies every update to  *)
(* it at once; the same updates wait in a mailbox for the event pump, which  *)
(* projects each into AG-UI events and broadcasts them.  When a run ends the *)
(* pump also broadcasts the whole timeline as the session has it by then,    *)
(* and when the run of a sub-agent ends it does so for the parent thread in  *)
(* the middle of the parent's run.  The app reduces the events into a live   *)
(* state (module AgUiReducer), reads the chat over RPC from time to time,    *)
(* and shows the projection of the two.                                     *)
(***************************************************************************)
EXTENDS AgUiReducer

CONSTANTS Subagents,    \* tools that may turn out to be the task of a sub-agent
          MaxRuns,      \* runs of the thread
          MaxToks,      \* pieces of text the agent and its tools produce or repeat
          MaxLag,       \* updates waiting for the pump
          MaxReads,     \* reads of the chat
          MaxParents,   \* snapshots caused by a sub-agent's end
          MaxLost       \* end-of-run snapshots the pump fails to read

ASSUME TranscriptAssumption ==
    /\ Tools \subseteq Nat \ {0} /\ IsFiniteSet(Tools) /\ Subagents \subseteq Tools /\ MaxMsgs \in Nat \ {0}
    /\ {MaxRuns, MaxToks, MaxLag, MaxReads, MaxParents, MaxLost} \subseteq Nat

VARIABLES
    timeline,   \* session: entries in order of appearance
    run,        \* session: the active run, 0 when idle
    proj,       \* projector: what it has announced of the current run
    feed,       \* projected updates the pump has not broadcast yet
    owed,       \* run whose end the pump has just broadcast, 0: none
    live,       \* app: liveAssistantByThread of the thread
    buf,        \* app: text deltas waiting for the next animation frame
    base,       \* app: the messages of the selected chat as last read
    reading,    \* answers of reads under way
    ahead,      \* a snapshot overtook updates of the run being shown
    lost,       \* the end-of-run snapshot of the last run did not come
    used        \* budgets spent: [runs, toks, msgs, reads, parents, lost]

session == <<timeline, run, proj>>
app == <<live, buf, base, reading>>
vars == <<timeline, run, proj, feed, owed, live, buf, base, reading, ahead, lost, used>>

-----------------------------------------------------------------------------
(* The session's timeline.                                                  *)

Entry(kind, n, text) ==
    [kind |-> kind, n |-> n, text |-> text, st |-> <<>>, sub |-> FALSE, done |-> FALSE]
LastEntry == timeline[Len(timeline)]
ToolAt(t) == CHOOSE i \in DOMAIN timeline : timeline[i].kind = "tool" /\ timeline[i].n = t
Known(t) == \E i \in DOMAIN timeline : timeline[i].kind = "tool" /\ timeline[i].n = t

RoleOf(kind) == CASE kind = "user" -> "user" [] kind = "text" -> "assistant"
                  [] kind = "thought" -> "reasoning"

(* The bridge leaves out every line of the structured content that the text    *)
(* has; the app, which maps the answer of a read, only the text as a whole.  *)
FullText(e) ==
    e.text \o FlattenSeq([i \in DOMAIN e.st |-> IF e.st[i] \in Range(e.text) THEN <<>> ELSE <<e.st[i]>>])
PersistedText(e) == e.text \o structuredTextRemainder(e.text, e.st)
MetaOf(e) == IF e.done THEN "completed" ELSE "in_progress"

(* Rows of an entry in a MESSAGES_SNAPSHOT and in the answer of a read.      *)
SnapshotRows(e) ==
    IF e.kind # "tool" THEN <<Row(MsgId(e.n), RoleOf(e.kind), e.text, "unset", 0)>>
    ELSE IF e.sub THEN <<Row(CardId(e.n), "activity", <<>>, "unset", e.n)>>
    ELSE <<Row(CallId(e.n), "assistant", <<>>, "unset", e.n),
           Row(ResId(e.n), "tool", FullText(e), "unset", e.n)>>
PersistedRow(e) ==
    IF e.kind = "tool" /\ ~e.sub
    THEN Row(<<"tool", e.n, 0>>, "tool", PersistedText(e), "unset", e.n)
    ELSE Head(SnapshotRows(e))

messages_snapshot_envelope(r) ==
    [ev |-> "MESSAGES_SNAPSHOT", run |-> r,
     rows |-> FlattenSeq([i \in DOMAIN timeline |-> SnapshotRows(timeline[i])]),
     metas |-> [t \in Tools |-> IF Known(t) /\ ~timeline[ToolAt(t)].sub
                                THEN MetaOf(timeline[ToolAt(t)]) ELSE "none"]]
mapMessagesFromAcpSnapshot == [i \in DOMAIN timeline |-> PersistedRow(timeline[i])]

-----------------------------------------------------------------------------
(* The projector: events of an update, and what it remembers.               *)

NoTool == [started |-> FALSE, ended |-> FALSE, text |-> <<>>, st |-> <<>>, meta |-> "none", sub |-> FALSE]
NoProj == [user |-> NoId, text |-> NoId, thought |-> NoId, tools |-> [t \in Tools |-> NoTool]]

Ev(ev, id, role, text) == [ev |-> ev, id |-> id, role |-> role, text |-> text, run |-> run]
ToolEv(ev, t, text, status) == [ev |-> ev, t |-> t, text |-> text, status |-> status, run |-> run]
When(b, s) == IF b THEN s ELSE <<>>

(* A piece of a message: an open message of the same role under another id    *)
(* ends, an unseen one starts; agent text also ends the user's message.      *)
MessageEvents(kind, id, text) ==
    LET prev == proj[kind]
        ended == When(kind = "text" /\ proj.user # NoId, <<Ev("MESSAGE_END", proj.user, "user", <<>>)>>)
        opened == When(prev # id,
                       When(prev # NoId, <<Ev("MESSAGE_END", prev, RoleOf(kind), <<>>)>>)
                       \o <<Ev("MESSAGE_START", id, RoleOf(kind), <<>>)>>)
    IN  ended \o opened \o <<Ev("MESSAGE_CONTENT", id, RoleOf(kind), text)>>
MessageProj(kind, id) ==
    LET p == IF kind = "text" THEN [proj EXCEPT !.user = NoId] ELSE proj
    IN  [p EXCEPT ![kind] = id]

(* An update of a tool: e is its entry after the update.                     *)
ToolEvents(t, e) ==
    LET s == proj.tools[t]
        sub == s.sub \/ e.sub
    IN  When(~s.started /\ ~sub, <<ToolEv("TOOL_CALL_START", t, <<>>, ""),
                                   ToolEv("TOOL_CALL_ARGS", t, <<>>, "")>>)
        \o When(e.done /\ ~s.ended /\ ~sub, <<ToolEv("TOOL_CALL_END", t, <<>>, "")>>)
        \o When(sub, <<ToolEv("ACTIVITY_SNAPSHOT", t, <<>>, "")>>)
        \o When(~sub /\ s.meta # MetaOf(e), <<ToolEv("tool-meta", t, <<>>, MetaOf(e))>>)
        \o When(~sub /\ e.text # s.text,
                IF e.done /\ IsPrefix(s.text, e.text)
                THEN <<ToolEv("TOOL_CALL_RESULT", t, SubSeq(e.text, Len(s.text) + 1, Len(e.text)), "")>>
                ELSE <<ToolEv("tool-text", t, e.text, "")>>)
        \o When(~sub /\ e.st # s.st, <<ToolEv("tool-content", t, e.st, "")>>)
ToolProj(t, e) ==
    [proj EXCEPT !.tools[t] =
        [started |-> TRUE, ended |-> @.ended \/ e.done, text |-> e.text, st |-> e.st,
         meta |-> IF @.sub \/ e.sub THEN @.meta ELSE MetaOf(e), sub |-> @.sub \/ e.sub]]

(* close_run: whatever is open ends with the run.                            *)
CloseEvents ==
    When(proj.user # NoId, <<Ev("MESSAGE_END", proj.user, "user", <<>>)>>)
    \o When(proj.text # NoId, <<Ev("MESSAGE_END", proj.text, "assistant", <<>>)>>)
    \o When(proj.thought # NoId, <<Ev("MESSAGE_END", proj.thought, "reasoning", <<>>)>>)
    \o FlattenSeq([i \in 1 .. Cardinality(Tools) |->
            LET t == SetToSeq(Tools)[i]
            IN  When(proj.tools[t].started /\ ~proj.tools[t].ended /\ ~proj.tools[t].sub,
                     <<ToolEv("TOOL_CALL_END", t, <<>>, "")>>)])

-----------------------------------------------------------------------------
Init ==
    /\ timeline = <<>> /\ run = 0 /\ proj = NoProj
    /\ feed = <<>> /\ owed = 0
    /\ live = createAgUiThreadMessageState /\ buf = <<>>
    /\ base = <<>> /\ reading = {}
    /\ ahead = FALSE /\ lost = FALSE
    /\ used = [runs |-> 0, toks |-> 0, msgs |-> 0, reads |-> 0, parents |-> 0, lost |-> 0]

Room == Len(feed) < MaxLag
NewTok == used.toks + 1

(* A turn starts: the run, and the prompt as the thread's next user message.  *)
StartRun ==
    LET r == used.runs + 1
        id == MsgId(used.msgs + 1)
        E(ev, role, text) == [ev |-> ev, id |-> id, role |-> role, text |-> text, run |-> r]
    IN  /\ run = 0 /\ used.runs < MaxRuns /\ Room /\ used.toks < MaxToks
        /\ run' = r
        /\ timeline' = Append(timeline, Entry("user", used.msgs + 1, <<NewTok>>))
        /\ proj' = [NoProj EXCEPT !.user = id]
        /\ feed' = feed \o <<<<E("RUN_STARTED", "user", <<>>)>>,
                             <<E("MESSAGE_START", "user", <<>>), E("MESSAGE_CONTENT", "user", <<NewTok>>)>>>>
        /\ used' = [used EXCEPT !.runs = r, !.toks = NewTok, !.msgs = @ + 1]
        /\ UNCHANGED <<owed, app, ahead, lost>>

(* The agent says or thinks a piece: it continues the open message of that    *)
(* role, unless a new tool call or the other role came in between.           *)
Speak(kind) ==
    LET more == LastEntry.kind = kind
        n == IF more THEN LastEntry.n ELSE used.msgs + 1
    IN  /\ run # 0 /\ Room /\ used.toks < MaxToks
        /\ timeline' = IF more THEN [timeline EXCEPT ![Len(timeline)].text = Append(@, NewTok)]
                               ELSE Append(timeline, Entry(kind, n, <<NewTok>>))
        /\ feed' = Append(feed, MessageEvents(kind, MsgId(n), <<NewTok>>))
        /\ proj' = MessageProj(kind, MsgId(n))
        /\ used' = [used EXCEPT !.toks = NewTok, !.msgs = IF more THEN @ ELSE @ + 1]
        /\ UNCHANGED <<run, owed, app, ahead, lost>>

(* The agent reports on a tool: how is what the report carries.  A tool whose  *)
(* output turns out to be a sub-agent's task becomes one for good.  Structured  *)
(* content holds the text and a line more, or the text alone.               *)
ToolUpdate(t, how) ==
    LET old == IF Known(t) THEN timeline[ToolAt(t)] ELSE Entry("tool", t, <<>>)
        new == CASE how = "append" -> [old EXCEPT !.text = Append(@, NewTok)]
                 [] how = "rewrite" -> [old EXCEPT !.text = <<NewTok>>]
                 [] how = "structured" -> [old EXCEPT !.st = Append(old.text, NewTok)]
                 [] how = "repeated" -> [old EXCEPT !.st = old.text]
                 [] how = "finish" -> [old EXCEPT !.text = Append(@, NewTok), !.done = TRUE]
                 [] how = "status" -> [old EXCEPT !.done = TRUE]
                 [] how = "task" -> [old EXCEPT !.text = Append(@, NewTok), !.sub = TRUE]
    IN  /\ run # 0 /\ Room
        /\ how # "status" => used.toks < MaxToks
        /\ how = "task" => t \in Subagents
        /\ new # old
        /\ Known(t) => \A j \in ToolAt(t) .. Len(timeline) : timeline[j].kind # "user"
        /\ timeline' = IF Known(t) THEN [timeline EXCEPT ![ToolAt(t)] = new] ELSE Append(timeline, new)
        /\ feed' = Append(feed, ToolEvents(t, new))
        /\ proj' = ToolProj(t, new)
        /\ used' = IF how = "status" THEN used ELSE [used EXCEPT !.toks = NewTok]
        /\ UNCHANGED <<run, owed, app, ahead, lost>>

(* The run ends; the session settles the tools that were still at work.       *)
EndRun ==
    /\ run # 0 /\ Room
    /\ run' = 0
    /\ timeline' = [i \in DOMAIN timeline |-> IF timeline[i].kind = "tool"
                                              THEN [timeline[i] EXCEPT !.done = TRUE] ELSE timeline[i]]
    /\ proj' = NoProj
    /\ feed' = Append(feed, Append(CloseEvents, Ev("RUN_FINISHED", NoId, "", <<>>)))
    /\ UNCHANGED <<owed, app, ahead, lost, used>>

-----------------------------------------------------------------------------
(* The app's side.                                                          *)

(* A text delta waits for the frame; any other event flushes what waits.      *)
Flushed(l, waiting) ==
    LET after[i \in 0 .. Len(waiting)] ==
            IF i = 0 THEN l ELSE reduceThreadState(after[i - 1], waiting[i])
    IN  after[Len(waiting)]
onEvent(s, e) ==
    IF e.ev = "MESSAGE_CONTENT" /\ e.role # "reasoning"
    THEN [s EXCEPT !.buf = Append(@, e)]
    ELSE [live |-> reduceThreadState(Flushed(s.live, s.buf), e), buf |-> <<>>]
Receive(events) ==
    LET after[i \in 0 .. Len(events)] ==
            IF i = 0 THEN [live |-> live, buf |-> buf] ELSE onEvent(after[i - 1], events[i])
    IN  after[Len(events)]

(* The pump broadcasts the next update.                                      *)
Deliver ==
    /\ feed # <<>> /\ owed = 0
    /\ LET events == Head(feed)
           last == events[Len(events)]
           s == Receive(events)
       IN  /\ live' = s.live /\ buf' = s.buf
           /\ owed' = IF events # <<>> /\ last.ev = "RUN_FINISHED" THEN last.run ELSE 0
           /\ ahead' = (ahead /\ ~(events # <<>> /\ Head(events).ev = "RUN_STARTED"))
           /\ lost' = (lost /\ ~(events # <<>> /\ Head(events).ev = "RUN_STARTED"))
    /\ feed' = Tail(feed)
    /\ UNCHANGED <<session, base, reading, used>>

(* ... and after the end of a run the timeline, if it can read the session.   *)
EndSnapshot ==
    /\ owed # 0
    /\ LET s == Receive(<<messages_snapshot_envelope(owed)>>)
       IN  live' = s.live /\ buf' = s.buf
    /\ owed' = 0 /\ ahead' = FALSE
    /\ UNCHANGED <<session, feed, base, reading, lost, used>>
EndSnapshotFails ==
    /\ owed # 0 /\ used.lost < MaxLost
    /\ owed' = 0 /\ lost' = TRUE
    /\ used' = [used EXCEPT !.lost = @ + 1]
    /\ UNCHANGED <<session, feed, app, ahead>>

(* The run of a sub-agent of this thread has ended.                           *)
ParentSnapshot ==
    /\ owed = 0 /\ used.parents < MaxParents
    /\ \E i \in DOMAIN timeline : timeline[i].sub
    /\ LET s == Receive(<<messages_snapshot_envelope(run)>>)
       IN  live' = s.live /\ buf' = s.buf
    /\ ahead' = (ahead \/ feed # <<>>)
    /\ used' = [used EXCEPT !.parents = @ + 1]
    /\ UNCHANGED <<session, feed, owed, base, reading, lost>>

(* The next animation frame.                                                 *)
Frame ==
    /\ buf # <<>>
    /\ live' = Flushed(live, buf) /\ buf' = <<>>
    /\ UNCHANGED <<session, feed, owed, base, reading, ahead, lost, used>>

(* loadChat: the bridge answers with the timeline of that moment, the app      *)
(* takes the answer when it arrives.                                        *)
ReadChat ==
    /\ used.reads < MaxReads /\ reading = {} /\ timeline # <<>>
    /\ reading' = {mapMessagesFromAcpSnapshot}
    /\ used' = [used EXCEPT !.reads = @ + 1]
    /\ UNCHANGED <<session, feed, owed, live, buf, base, ahead, lost>>
ReadAnswered ==
    /\ \E rows \in reading : base' = rows
    /\ reading' = {}
    /\ UNCHANGED <<session, feed, owed, live, buf, ahead, lost, used>>

Updates == {"append", "rewrite", "structured", "repeated", "finish", "status", "task"}
Next ==
    \/ StartRun \/ EndRun
    \/ \E kind \in {"text", "thought"} : Speak(kind)
    \/ \E t \in Tools, how \in Updates : ToolUpdate(t, how)
    \/ Deliver \/ EndSnapshot \/ EndSnapshotFails \/ ParentSnapshot
    \/ Frame \/ ReadChat \/ ReadAnswered

Spec == Init /\ [][Next]_vars

-----------------------------------------------------------------------------
(* The projection: what the transcript shows.                               *)

Visible(m) == \/ m.text # <<>> \/ m.role = "activity"
              \/ m.call # 0 /\ (m.role = "assistant" \/ live.meta[m.call] # "none")

Covered == {i \in DOMAIN base : base[i].id \in Ids(live.msgs)}
applyAuthoritativeSnapshotFromFirst ==
    LET shownLive == SelectSeq(live.msgs, Visible)
        first == CHOOSE i \in Covered : \A j \in Covered : i <= j
    IN  IF Covered = {} THEN base \o shownLive
        ELSE SubSeq(base, 1, first - 1) \o shownLive \o SubSeq(base, first + 1, Len(base))

applyAuthoritativeSnapshot ==
    LET shownLive == SelectSeq(live.msgs, Visible)
        first == CHOOSE i \in Covered : \A j \in Covered : i <= j
        last == CHOOSE i \in Covered : \A j \in Covered : j <= i
        said == {<<m.role, m.text>> : m \in {shownLive[i] : i \in DOMAIN shownLive}}
    IN  IF Covered = {}
        THEN IF shownLive = <<>> THEN <<>>
             ELSE SelectSeq(base, LAMBDA m : <<m.role, m.text>> \notin said) \o shownLive
        ELSE SubSeq(base, 1, first - 1) \o shownLive \o SubSeq(base, last + 1, Len(base))

mergeLiveMessageAppend(msgs, m) == IF Visible(m) THEN Append(msgs, m) ELSE msgs

(* A live row joins the row with its role and id, if there is one: its text    *)
(* wins unless the row is terminal or the text is a stale shorter copy.      *)
mergeLiveMessage(msgs, m) ==
    LET at == {i \in DOMAIN msgs : msgs[i].role = m.role /\ msgs[i].id = m.id}
        Merged(p) ==
            LET useLiveContent == /\ m.id \notin live.term /\ m.role # "user" /\ m.text # p.text
                                  /\ (IsPrefix(p.text, m.text) \/ ~IsPrefix(m.text, p.text))
            IN  [p EXCEPT !.text = IF useLiveContent THEN m.text ELSE @,
                          !.pend = IF m.pend # "unset" THEN m.pend ELSE @]
    IN  IF ~Visible(m) THEN msgs
        ELSE IF at = {} THEN Append(msgs, m)
        ELSE LET k == CHOOSE i \in at : \A j \in at : i <= j
             IN  [msgs EXCEPT ![k] = Merged(@)]

projectTranscript ==
    FoldLeft(mergeLiveMessage, IF live.auth THEN applyAuthoritativeSnapshot ELSE base, live.msgs)

(* Rows on screen: every message, and one row for all that speaks of a call.   *)
RowKey(m) == IF m.call # 0 /\ m.role # "activity" THEN <<"tool", m.call, 0>> ELSE m.id
buildTranscriptDisplayItems(msgs) ==
    LET Add(acc, m) == IF m.call # 0 /\ m.role # "activity" /\ RowKey(m) \in Range(acc)
                       THEN acc ELSE Append(acc, RowKey(m))
    IN  FoldLeft(Add, <<>>, msgs)
LinesOf(msgs, t) ==
    FlattenSeq([i \in DOMAIN msgs |-> IF msgs[i].role = "tool" /\ msgs[i].call = t THEN msgs[i].text ELSE <<>>])

-----------------------------------------------------------------------------
(* Properties.                                                              *)

Quiet == run = 0 /\ feed = <<>> /\ owed = 0 /\ buf = <<>>
Full == Len(live.msgs) = MaxMsgs            \* rows may have been trimmed
TailTool == base # <<>> /\ base[Len(base)].role = "tool"

TranscriptTypeOK ==
    /\ run \in 0 .. MaxRuns /\ owed \in 0 .. MaxRuns
    /\ Len(live.msgs) <= MaxMsgs /\ Len(feed) <= MaxLag + 1
    /\ \A t \in Tools : {live.callOf[t], live.resOf[t]} \subseteq
                           {NoId, CallId(t), ResId(t)} \cup {RunResId(t, r) : r \in 1 .. MaxRuns}
    /\ live.sub \subseteq Tools /\ Cardinality(reading) <= 1

(* No message is twice in the live state, and a tool call has at most one call *)
(* row and one result row, although the stream and the snapshots name the      *)
(* result differently and a snapshot may come in the middle of the call        *)
(* (rebaseToolBookkeeping: "the tool renders twice").  A call known to be a      *)
(* sub-agent has no generic row beside its card, whenever it became one          *)
(* (suppressedToolCallIds); while a snapshot is ahead of the stream that is not   *)
(* claimed: reduceToolMeta then starts a row of a suppressed call.             *)
OneRowEach ==
    /\ Cardinality(Ids(live.msgs)) = Len(live.msgs)
    /\ \A i, j \in DOMAIN live.msgs :
          /\ live.msgs[i].call # 0 /\ live.msgs[i].call = live.msgs[j].call
          /\ live.msgs[i].role = live.msgs[j].role
          => i = j
    /\ ~ahead => \A i \in DOMAIN live.msgs :
                    live.msgs[i].role \in {"assistant", "tool"} => live.msgs[i].call \notin live.sub

(* Once the stream is heard, the texts of the run are the session's: nothing     *)
(* lost, doubled or out of place between deltas, revisions, results and         *)
(* snapshots.  A tool with structured content is compared after a snapshot      *)
(* only: a result that arrives after it is appended behind it, and what a text  *)
(* once covered of it does not come back when the text is rewritten.         *)
CaughtUp ==
    (feed = <<>> /\ owed = 0 /\ buf = <<>> /\ ~ahead /\ ~Full) =>
        \A i \in DOMAIN timeline :
            LET e == timeline[i]
                ofRun == \A j \in i + 1 .. Len(timeline) : timeline[j].kind # "user"
            IN  ofRun => CASE e.kind # "tool" -> TextOf(live, MsgId(e.n)) = e.text
                           [] e.kind = "tool" /\ e.sub -> Has(live, CardId(e.n))
                           [] OTHER -> e.st = <<>> => TextOf(live, live.resOf[e.n]) = e.text

(* The screen never shows an entry twice or two entries in the wrong order,      *)
(* whatever the age of the chat it was read from (projectTranscript).  The card  *)
(* of a tool that turns out to be a sub-agent goes to the end until the next      *)
(* snapshot.                                                                 *)
Key(e) == IF e.kind # "tool" THEN MsgId(e.n) ELSE IF e.sub THEN CardId(e.n) ELSE <<"tool", e.n, 0>>
Keys == [i \in DOMAIN timeline |-> Key(timeline[i])]
Shown == buildTranscriptDisplayItems(projectTranscript)
ShownInOrder ==
    LET shown == Shown
        At(k) == {a \in DOMAIN timeline : ~timeline[a].sub /\ Key(timeline[a]) = k}
    IN  (~ahead /\ ~Full) =>
            \A i \in DOMAIN shown : \A j \in i + 1 .. Len(shown) :
                \A a \in At(shown[i]), b \in At(shown[j]) : a < b

(* At rest the screen shows the whole timeline with its texts.  Not claimed        *)
(* when the chat was read while a tool was its last entry: that row is kept       *)
(* after the snapshot's, under an id the snapshot does not use.  No message is   *)
(* left as being written, even if the end-of-run snapshot never came or a delta  *)
(* was still waiting for its frame when the run ended, and no tool as at work.   *)
ShownAtRest ==
    LET rows == projectTranscript
    IN  Quiet =>
            /\ \A m \in Range(rows) : m.pend # "on"
            /\ ~lost => \A t \in Tools : live.meta[t] \in {"none", "completed"} \/ t \in live.sub
            /\ (~lost /\ ~Full /\ ~TailTool) =>
                /\ buildTranscriptDisplayItems(rows) = Keys
                /\ \A e \in Range(timeline) :
                    IF e.kind = "tool" THEN e.sub \/ LinesOf(rows, e.n) = FullText(e)
                    ELSE \A m \in Range(rows) : m.id = MsgId(e.n) => m.text = e.text
=============================================================================
