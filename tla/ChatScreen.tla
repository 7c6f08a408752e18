----------------------------- MODULE ChatScreen -----------------------------
(***************************************************************************)
(* What the chat screen of the phone shows while chats are opened, loaded,  *)
(* polled, renamed and stopped: the load pipeline with its request number   *)
(* and its opening spinner (loadPipeline.tsx, openingChatState.ts), opening *)
(* a chat (chatNavigation.ts) and leaving it (capabilityFlags.ts), the run  *)
(* events (agUiRunEvents.ts, stopControl.ts), the runtime snapshot kept for *)
(* every chat (selectedRuntimeSelectors.ts), the poll that repairs what     *)
(* events left wrong (chatSyncController.ts, userInputResolution.tsx) and   *)
(* the interruption of a turn (reasoningAndInterrupt.ts).                   *)
(*                                                                          *)
(* Two reads of the same chat share one request (getChat), so a chat has at *)
(* most one read under way and everything that waits for it is answered in  *)
(* one step.  A load request is only ever compared with the newest one, so  *)
(* a load keeps "current" instead of its number.  An answer carries the     *)
(* status the bridge had when it looked: events that happened before or     *)
(* after may arrive on either side of it.  Approvals, questions, messages   *)
(* being sent and the watchdog that only a chat without a definite status   *)
(* consults are left out.                                                   *)
(***************************************************************************)
EXTENDS Integers, Sequences, FiniteSets

CONSTANTS
    Chats,
    NoChat,      \* the compose screen, selectedChatId = null
    First,       \* the chat on the screen at the start, or NoChat
    MaxRuns,     \* bound on runs
    MaxMoves,    \* bound on chats opened and left
    MaxStops,    \* bound on stops
    MaxExtras    \* bound on reloads, renames, failed runs and failed calls together

ASSUME ChatScreenAssumption ==
    NoChat \notin Chats /\ First \in Chats \cup {NoChat} /\ MaxRuns \in Nat

NoTurn == 0
Unset == -1      \* snapshot.activeTurnId === undefined
Turns == 1..MaxRuns

VARIABLES
    run,         \* the turn the agent works on in each chat, NoTurn when idle
    status,      \* the status of a chat that is not running
    cancelled,   \* chats whose run was told to stop
    feed,        \* run events on their way to the phone
    reads,       \* chatInFlight of the client: one read per chat
    cached,      \* chatCache: chats whose transcript the client holds
    loads,       \* loadChat calls awaiting their read
    releasing,   \* finished loads sleeping out OPEN_CHAT_MIN_LOADING_MS
    polling,     \* the poll of the selected chat awaits its read
    interrupts,  \* turn interrupts under way
    renaming,    \* the chat a rename under way is for
    ui,          \* what the screen shows (loaded is a ghost: a load has put the open
                 \* chat's transcript there)
    snap,        \* threadRuntimeSnapshots: activity and turn of each chat
    wish,        \* ghost: the running turn the user pressed stop for
    used         \* how much of each bound is spent

bridgeVars == <<run, status, cancelled, feed>>
netVars == <<reads, cached, loads, releasing, polling, interrupts, renaming>>
vars == <<run, status, cancelled, feed, reads, cached, loads, releasing, polling,
          interrupts, renaming, ui, snap, wish, used>>

NoWish == [chat |-> NoChat, turn |-> NoTurn]

Spend(b) == used' = [used EXCEPT ![b] = @ + 1]

Tone(a) ==
    CASE a \in {"opening", "working", "stopping"} -> "running"
      [] a \in {"completed", "stopped"} -> "complete"
      [] a \in {"failed", "loadFailed", "stopFailed"} -> "error"
      [] OTHER -> "idle"

Activities == {"opening", "working", "stopping", "completed", "stopped", "failed",
               "loadFailed", "stopFailed", "ready", "connected", "noTurn"}

\* Chat c, or the compose screen, with nothing under way.
Settled(c) ==
    [sel |-> c, chat |-> c, messages |-> c # NoChat, loaded |-> c # NoChat, opening |-> NoChat,
     activity |-> "ready", turn |-> NoTurn, stopping |-> FALSE, stopRequested |-> FALSE]

Idle == [phase |-> "none", status |-> "idle", turn |-> NoTurn]
Asked == [Idle EXCEPT !.phase = "asked"]

\* A cold start with a chat to open names it as opening and opens it in the effects
\* of the same mount: that is OpenChat from the compose screen.
Init ==
    /\ run = [c \in Chats |-> NoTurn]
    /\ status = [c \in Chats |-> "idle"]
    /\ cancelled = {} /\ feed = <<>>
    /\ reads = [c \in Chats |-> Idle]
    /\ cached = {First} \ {NoChat} /\ loads = {} /\ releasing = {}
    /\ polling = FALSE /\ interrupts = {} /\ renaming = NoChat
    /\ ui = Settled(First)
    /\ snap = [c \in Chats |-> [activity |-> "none", turn |-> Unset]]
    /\ wish = NoWish
    /\ used = [runs |-> 0, moves |-> 0, stops |-> 0, extras |-> 0]

-----------------------------------------------------------------------------
(* The bridge and its agent. *)

RunStarts(c) ==
    /\ run[c] = NoTurn /\ used.runs < MaxRuns /\ Spend("runs")
    /\ run' = [run EXCEPT ![c] = used.runs + 1]
    /\ feed' = Append(feed, [kind |-> "started", chat |-> c, turn |-> run'[c]])
    /\ UNCHANGED <<status, cancelled, netVars, ui, snap, wish>>

\* A cancelled run ends as interrupted; another one finishes or fails.
RunEnds(c, kind) ==
    /\ run[c] # NoTurn
    /\ kind \in IF c \in cancelled THEN {"interrupted"} ELSE {"finished", "failed"}
    /\ IF kind = "failed" THEN used.extras < MaxExtras /\ Spend("extras") ELSE UNCHANGED used
    /\ run' = [run EXCEPT ![c] = NoTurn]
    /\ status' = [status EXCEPT ![c] = IF kind = "failed" THEN "error" ELSE "complete"]
    /\ cancelled' = cancelled \ {c}
    /\ feed' = Append(feed, [kind |-> kind, chat |-> c, turn |-> run[c]])
    /\ wish' = IF wish = [chat |-> c, turn |-> run[c]] THEN NoWish ELSE wish
    /\ UNCHANGED <<netVars, ui, snap>>

BridgeReads(c) ==
    /\ reads[c].phase = "asked"
    /\ reads' = [reads EXCEPT ![c] =
                    [phase |-> "read", turn |-> run[c],
                     status |-> IF run[c] = NoTurn THEN status[c] ELSE "running"]]
    /\ UNCHANGED <<bridgeVars, cached, loads, releasing, polling, interrupts, renaming,
                   ui, snap, wish, used>>

-----------------------------------------------------------------------------
(* Reading a chat. *)

\* getChat joins the read that is under way, a forced refresh included.
GetChat(c) == [reads EXCEPT ![c] = IF @.phase = "none" THEN Asked ELSE @]

\* Mutant: a new load does not move the request number on.
NotSuperseded(ls) == ls

Superseded(ls) == {[chat |-> l.chat, current |-> FALSE, preserve |-> FALSE, revalidate |-> FALSE] : l \in ls}

LoadChat(c, preserve, revalidate) ==
    /\ loads' = Superseded(loads) \cup
                {[chat |-> c, current |-> TRUE, preserve |-> preserve, revalidate |-> revalidate]}
    /\ reads' = GetChat(c)

ResolveSettledActivity(st) ==
    CASE st = "complete" -> "completed" [] st = "error" -> "failed" [] OTHER -> "ready"

RetireOpeningChatActivity(a, st) == IF a = "opening" THEN ResolveSettledActivity(st) ELSE a

ApplyThreadRuntimeSnapshot(u, s) ==
    [u EXCEPT !.turn = IF s.turn = Unset THEN @ ELSE s.turn,
              !.activity = IF s.activity = "none" THEN @ ELSE s.activity]

\* What resetLoadedChatRuntimeState caches for the chat it loaded.
LoadedTurn(s, r) ==
    [s EXCEPT !.turn = IF r.status # "running" THEN NoTurn
                       ELSE IF r.turn # NoTurn THEN r.turn
                       ELSE IF @ = Unset THEN NoTurn ELSE @]

Preserves(u, l) == l.preserve /\ l.chat = u.sel

\* applyLoadedChat: the screen u once load l of the newest request was answered r.
ApplyLoadedChat(u, l, r, s) ==
    LET loaded == [u EXCEPT !.sel = l.chat, !.chat = l.chat, !.messages = TRUE, !.loaded = TRUE]
    IN  IF Preserves(u, l)
        THEN [loaded EXCEPT !.activity = RetireOpeningChatActivity(@, r.status)]
        ELSE ApplyThreadRuntimeSnapshot(
                [loaded EXCEPT !.turn = NoTurn, !.stopping = FALSE,
                               !.activity = IF r.status = "running" THEN "working"
                                            ELSE ResolveSettledActivity(r.status)],
                LoadedTurn(s, r))

\* Mutant: the poll trusts the events and leaves the activity alone.
SyncKeepsActivity(u, r) ==
    IF r.status = "running" THEN [u EXCEPT !.chat = u.sel, !.messages = TRUE]
    ELSE [u EXCEPT !.chat = u.sel, !.messages = TRUE, !.turn = NoTurn, !.stopping = FALSE]

\* Mutant: the poll updates the transcript only of the chat it already shows.
SyncKeepsOtherChat(u, r) ==
    IF r.status = "running"
    THEN [u EXCEPT !.activity = IF Tone(@) = "running" THEN @ ELSE "working"]
    ELSE [u EXCEPT !.turn = NoTurn, !.stopping = FALSE,
                   !.activity = IF r.status = "error" THEN "failed" ELSE "ready"]

\* applySynchronizedChat: the screen u once a poll was answered r.
ApplySynchronizedChat(u, r) ==
    LET synced == [u EXCEPT !.chat = u.sel, !.messages = TRUE]
    IN  IF r.status = "running"
        THEN [synced EXCEPT !.activity = IF Tone(@) = "running" THEN @ ELSE "working"]
        ELSE [synced EXCEPT !.turn = NoTurn, !.stopping = FALSE,
                            !.activity = CASE r.status = "complete" ->
                                                IF Tone(@) = "running" THEN "completed" ELSE "ready"
                                           [] r.status = "error" ->
                                                IF Tone(@) = "error" THEN @ ELSE "failed"
                                           [] OTHER -> "ready"]

Waiting(c) == {l \in loads : l.chat = c}
CurrentLoad(c) == {l \in Waiting(c) : l.current}

\* The answer of a read reaches everything that waits for it, in the order the
\* calls were made: superseded loads before the newest, the poll anywhere.
ReadAnswers(c, pollFirst) ==
    LET r == reads[c]
        retired == IF Waiting(c) = CurrentLoad(c) THEN ui
                   ELSE [ui EXCEPT !.activity = RetireOpeningChatActivity(@, r.status)]
        load(u) == IF CurrentLoad(c) = {} THEN u
                   ELSE LET l == CHOOSE x \in CurrentLoad(c) : TRUE
                        IN  ApplyLoadedChat(u, l, r, snap[c])
        poll(u) == IF polling /\ u.sel = c THEN ApplySynchronizedChat(u, r) ELSE u
    IN  /\ r.phase = "read"
        /\ reads' = [reads EXCEPT ![c] = Idle]
        /\ cached' = cached \cup {c}
        /\ loads' = loads \ Waiting(c)
        /\ ui' = IF pollFirst THEN load(poll(retired)) ELSE poll(load(retired))
        /\ snap' = IF \E l \in CurrentLoad(c) : ~Preserves(ui, l)
                   THEN [snap EXCEPT ![c] = LoadedTurn(@, r)] ELSE snap
        \* finalizeChatLoad: startedAt is set exactly while a chat is opening.
        /\ releasing' = IF CurrentLoad(c) # {} /\ ui.opening # NoChat
                        THEN releasing \cup {c} ELSE releasing
        /\ polling' = IF ui.sel = c THEN FALSE ELSE polling
        /\ UNCHANGED <<bridgeVars, interrupts, renaming, wish, used>>

\* The read fails: the newest load reports it unless the screen already shows
\* this chat's cached transcript, and releases the spinner; the poll ignores it.
ReadFails(c) ==
    LET silent(l) == l.revalidate /\ ui.chat = c /\ ui.messages
        failed == [ui EXCEPT !.opening = IF @ = c THEN NoChat ELSE @]
    IN  /\ reads[c].phase # "none"
        /\ used.extras < MaxExtras /\ Spend("extras")
        /\ reads' = [reads EXCEPT ![c] = Idle]
        /\ loads' = loads \ Waiting(c)
        /\ ui' = IF CurrentLoad(c) = {} THEN ui
                 ELSE IF \E l \in CurrentLoad(c) : silent(l) THEN failed
                 ELSE [failed EXCEPT !.activity = "loadFailed"]
        /\ polling' = IF ui.sel = c THEN FALSE ELSE polling
        /\ UNCHANGED <<bridgeVars, cached, releasing, interrupts, renaming, snap, wish>>

\* Mutant: a load superseded while it sleeps leaves the spinner to its successor.
ReleaseUnlessSuperseded(c) ==
    /\ c \in releasing
    /\ releasing' = releasing \ {c}
    /\ ui' = [ui EXCEPT !.opening = IF @ = c /\ CurrentLoad(c) = {} THEN NoChat ELSE @]
    /\ UNCHANGED <<bridgeVars, reads, cached, loads, polling, interrupts, renaming, snap, wish, used>>

\* The minimum-visible delay of a finished load is over.
ReleaseOpeningChat(c) ==
    /\ c \in releasing
    /\ releasing' = releasing \ {c}
    /\ ui' = [ui EXCEPT !.opening = IF @ = c THEN NoChat ELSE @]
    /\ UNCHANGED <<bridgeVars, reads, cached, loads, polling, interrupts, renaming, snap, wish, used>>

\* The poll timer of the selected chat fires.
Poll ==
    /\ ui.sel # NoChat /\ ~polling
    /\ polling' = TRUE
    /\ reads' = GetChat(ui.sel)
    /\ UNCHANGED <<bridgeVars, cached, loads, releasing, interrupts, renaming, ui, snap, wish, used>>

-----------------------------------------------------------------------------
(* The user moves between chats. *)

\* Tapping the chat that is already open revalidates it.
ReopenChat(c) ==
    /\ used.extras < MaxExtras /\ Spend("extras")
    /\ ui.sel = c
    /\ ui' = [ui EXCEPT !.opening = NoChat,
                        !.chat = IF c \in cached THEN c ELSE @,
                        !.messages = IF c \in cached THEN TRUE ELSE @]
    /\ LoadChat(c, TRUE, c \in cached)
    /\ UNCHANGED <<bridgeVars, cached, releasing, polling, interrupts, renaming, snap, wish>>

\* The screen of a chat the user just opened, before its load is answered.
Opened(c) ==
    [ui EXCEPT !.sel = c, !.opening = IF c \in cached THEN NoChat ELSE c,
               !.chat = c, !.messages = c \in cached, !.loaded = FALSE, !.activity = "opening",
               !.turn = NoTurn, !.stopping = FALSE, !.stopRequested = FALSE]

OpenChat(c) ==
    /\ used.moves < MaxMoves /\ Spend("moves")
    /\ ui.sel # c
    /\ ui' = ApplyThreadRuntimeSnapshot(Opened(c), snap[c])
    /\ LoadChat(c, FALSE, c \in cached)
    /\ polling' = FALSE
    /\ wish' = NoWish
    /\ UNCHANGED <<bridgeVars, cached, releasing, interrupts, renaming, snap>>

\* resetComposerState also moves the request number on.  The rename sheet covers
\* the screen while it saves: only a tapped notification changes chats then.
StartNewChat ==
    /\ used.moves < MaxMoves /\ Spend("moves")
    /\ ui.sel # NoChat /\ renaming = NoChat
    /\ ui' = Settled(NoChat)
    /\ loads' = Superseded(loads)
    /\ polling' = FALSE
    /\ wish' = NoWish
    /\ UNCHANGED <<bridgeVars, reads, cached, releasing, interrupts, renaming, snap>>

\* The socket reconnects, or a rename without a name arrives: the open chat is
\* revalidated.
Revalidate(reconnected) ==
    /\ used.extras < MaxExtras /\ Spend("extras")
    /\ ui.sel # NoChat
    /\ ui' = IF reconnected /\ Tone(ui.activity) # "running"
             THEN [ui EXCEPT !.activity = "connected"] ELSE ui
    /\ LoadChat(ui.sel, TRUE, FALSE)
    /\ UNCHANGED <<bridgeVars, cached, releasing, polling, interrupts, renaming, snap, wish>>

SaveTitle ==
    /\ used.extras < MaxExtras /\ Spend("extras")
    /\ renaming = NoChat /\ ui.chat # NoChat
    /\ renaming' = ui.chat
    /\ UNCHANGED <<bridgeVars, reads, cached, loads, releasing, polling, interrupts, ui, snap, wish>>

\* The answer of a rename is shown whatever chat is open by then.
TitleSaved ==
    /\ renaming # NoChat
    /\ renaming' = NoChat
    /\ ui' = [ui EXCEPT !.chat = renaming, !.messages = TRUE]
    /\ cached' = cached \cup {renaming}
    /\ UNCHANGED <<bridgeVars, reads, loads, releasing, polling, interrupts, snap, wish, used>>

-----------------------------------------------------------------------------
(* Run events and stopping. *)

\* interruptTurn names a turn; interruptLatestTurn (NoTurn) finds one first.
Interrupt(c, t) == interrupts \cup {[chat |-> c, turn |-> t, latest |-> t = NoTurn, phase |-> "asked"]}

RunStarted(e) ==
    /\ e.kind = "started"
    /\ IF e.chat = ui.sel
       THEN /\ ui' = [ui EXCEPT !.turn = e.turn, !.activity = "working"]
            /\ interrupts' = IF ui.stopRequested THEN Interrupt(e.chat, e.turn) ELSE interrupts
            /\ UNCHANGED snap
       ELSE /\ snap' = [snap EXCEPT ![e.chat] = [activity |-> "working", turn |-> e.turn]]
            /\ UNCHANGED <<ui, interrupts>>
    /\ UNCHANGED <<reads, loads>>

TerminalActivity(kind) ==
    CASE kind = "finished" -> "completed"
      [] kind = "interrupted" /\ ui.stopRequested -> "stopped"
      [] OTHER -> "failed"

RunTerminal(e) ==
    /\ e.kind # "started"
    /\ snap' = [snap EXCEPT ![e.chat] = [activity |-> TerminalActivity(e.kind), turn |-> NoTurn]]
    /\ IF e.chat = ui.sel
       THEN /\ ui' = [ui EXCEPT !.turn = NoTurn, !.stopping = FALSE, !.stopRequested = FALSE,
                                !.activity = TerminalActivity(e.kind)]
            /\ LoadChat(e.chat, FALSE, FALSE)
       ELSE UNCHANGED <<ui, reads, loads>>
    /\ UNCHANGED interrupts

RunEvent ==
    /\ feed # <<>> /\ feed' = Tail(feed)
    /\ RunStarted(Head(feed)) \/ RunTerminal(Head(feed))
    /\ UNCHANGED <<run, status, cancelled, cached, releasing, polling, renaming, wish, used>>

\* On the compose screen the button is there only while a first message is being
\* sent, which is left out: it may be pressed there at any time.
HandleStopTurn ==
    /\ ~ui.stopping /\ renaming = NoChat
    /\ used.stops < MaxStops /\ Spend("stops")
    /\ IF ui.sel = NoChat
       THEN /\ ui' = [ui EXCEPT !.stopRequested = FALSE, !.activity = "noTurn"]
            /\ UNCHANGED <<interrupts, wish>>
       ELSE /\ ui' = [ui EXCEPT !.stopRequested = TRUE, !.stopping = TRUE,
                                !.activity = "stopping"]
            /\ interrupts' = Interrupt(ui.sel, ui.turn)
            /\ wish' = IF run[ui.sel] = NoTurn THEN wish
                       ELSE [chat |-> ui.sel, turn |-> run[ui.sel]]
    /\ UNCHANGED <<bridgeVars, reads, cached, loads, releasing, polling, renaming, snap>>

Moved(i, phase, t) == (interrupts \ {i}) \cup {[i EXCEPT !.phase = phase, !.turn = t]}

\* The bridge cancels exactly the turn the request names.
BridgeInterrupts(i) ==
    /\ i.phase = "asked"
    /\ IF i.turn = NoTurn
       THEN /\ interrupts' = IF run[i.chat] = NoTurn THEN Moved(i, "none", NoTurn)
                             ELSE Moved(i, "asked", run[i.chat])
            /\ UNCHANGED cancelled
       ELSE IF run[i.chat] = i.turn
       THEN interrupts' = Moved(i, "ok", i.turn) /\ cancelled' = cancelled \cup {i.chat}
       ELSE interrupts' = Moved(i, "refused", i.turn) /\ UNCHANGED cancelled
    /\ UNCHANGED <<run, status, feed, reads, cached, loads, releasing, polling, renaming,
                   ui, snap, wish, used>>

\* The request never arrives, or its answer does not: the call throws.
InterruptLost(i) ==
    /\ i.phase \in {"asked", "ok"}
    /\ used.extras < MaxExtras /\ Spend("extras")
    /\ interrupts' = Moved(i, "refused", i.turn)
    /\ UNCHANGED <<bridgeVars, reads, cached, loads, releasing, polling, renaming, ui, snap, wish>>

\* Mutant: a failed interrupt leaves the button in its stopping state.
InterruptAnsweredStaysStopping(i) ==
    /\ i.phase \in {"ok", "refused", "none"}
    /\ interrupts' = interrupts \ {i}
    /\ ui' = [ui EXCEPT !.activity = IF i.phase = "ok" THEN "stopping" ELSE "stopFailed"]
    /\ wish' = IF i.phase # "ok" /\ wish.chat = i.chat THEN NoWish ELSE wish
    /\ UNCHANGED <<bridgeVars, reads, cached, loads, releasing, polling, renaming, snap, used>>

InterruptAnswered(i) ==
    /\ i.phase \in {"ok", "refused", "none"}
    /\ interrupts' = interrupts \ {i}
    /\ ui' = CASE i.phase = "ok" ->
                    [ui EXCEPT !.activity = "stopping", !.turn = IF i.latest THEN i.turn ELSE @]
               [] i.phase = "none" ->
                    [ui EXCEPT !.activity = "noTurn", !.stopping = FALSE, !.stopRequested = FALSE]
               [] OTHER ->
                    [ui EXCEPT !.activity = "stopFailed", !.stopping = FALSE, !.stopRequested = FALSE]
    /\ wish' = IF i.phase # "ok" /\ wish.chat = i.chat THEN NoWish ELSE wish
    /\ UNCHANGED <<bridgeVars, reads, cached, loads, releasing, polling, renaming, snap, used>>

-----------------------------------------------------------------------------
Next ==
    \/ \E c \in Chats :
        \/ RunStarts(c)
        \/ \E k \in {"finished", "failed", "interrupted"} : RunEnds(c, k)
        \/ BridgeReads(c) \/ ReadFails(c) \/ ReleaseOpeningChat(c)
        \/ \E first \in BOOLEAN : ReadAnswers(c, first)
        \/ OpenChat(c) \/ ReopenChat(c)
    \/ Poll \/ StartNewChat \/ SaveTitle \/ TitleSaved \/ HandleStopTurn \/ RunEvent
    \/ \E b \in BOOLEAN : Revalidate(b)
    \/ \E i \in interrupts : BridgeInterrupts(i) \/ InterruptLost(i) \/ InterruptAnswered(i)

Spec == Init /\ [][Next]_vars

FairSpec ==
    /\ Spec
    /\ \A c \in Chats : /\ WF_vars(BridgeReads(c) \/ \E b \in BOOLEAN : ReadAnswers(c, b))
                        /\ WF_vars(ReleaseOpeningChat(c))
    /\ WF_vars(\E c \in Chats : RunEnds(c, "interrupted"))
    /\ WF_vars(Poll) /\ WF_vars(TitleSaved) /\ WF_vars(RunEvent)
    /\ WF_vars(\E i \in interrupts : BridgeInterrupts(i) \/ InterruptAnswered(i))

-----------------------------------------------------------------------------
(* Properties. *)

\* The state has its type.
ChatScreenTypeOK ==
    /\ run \in [Chats -> 0..MaxRuns]
    /\ ui.sel \in Chats \cup {NoChat} /\ ui.opening \in Chats \cup {NoChat}
    /\ ui.activity \in Activities /\ ui.turn \in 0..MaxRuns
    /\ Cardinality({l \in loads : l.current}) <= 1
    /\ \A l \in loads : reads[l.chat].phase # "none"
    /\ polling => ui.sel # NoChat /\ reads[ui.sel].phase # "none"

\* The opening spinner belongs to the chat on the screen and someone will take
\* it down: while nothing is loaded the newest load of that chat, and once the
\* transcript is there a load that only sleeps out the minimum delay.
SpinnerHasAnEnd ==
    LET c == ui.opening
    IN  c # NoChat =>
            /\ c = ui.sel
            /\ c \in releasing \/ (~ui.loaded /\ CurrentLoad(c) # {})

HeaderAgrees ==
    ui.sel # NoChat => (Tone(ui.activity) = "running" <=> run[ui.sel] # NoTurn)

\* Once chats, runs and connection stop changing, the header says "running"
\* exactly if the open chat's agent runs.
HeaderSettles == <>[]HeaderAgrees

\* The transcript on the screen ends up being the selected chat's.
TranscriptSettles == <>[](ui.chat = ui.sel)

\* A stop is concluded: the button is free again, and the turn it was pressed
\* for has ended, or the user was told that it was not stopped, or left the chat.
StopConcludes == (ui.stopping \/ wish # NoWish) ~> (~ui.stopping /\ wish = NoWish)
=============================================================================
