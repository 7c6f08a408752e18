# TLA+ models of TetherCode

TetherCode lets a phone follow and drive coding agents that run on a desktop. This directory holds
TLA+ specifications of the parts of it in which several tasks, processes, requests or machines must
agree, TLC configurations that check them on small instances, and proofs checked by TLAPS. Paths below
are relative to the repository root; `PROJECT.json` maps every definition to the lines it models.

- [The system](#the-system)
- [Modules and their code](#modules-and-their-code)
- [Runs](#runs)
- [Where the code and its documentation disagree](#where-the-code-and-its-documentation-disagree)
- [Schedules no property forbids](#schedules-no-property-forbids)
- [Proofs](#proofs)
- [What is not modelled](#what-is-not-modelled)
- [Plan](#plan)

## The system

```
 phone (Expo app)                desktop                                        agent
 apps/mobile        websocket    apps/desktop       services/rust-bridge        process
 +----------------+ =========>  +---------------+  +-------------------------+  +-------+
 | bridge/ws      |             | broker        |  | websocket_transport     |  |       |
 | bridge/agui    | <=========  |  worker pool  |=>| client_hub  replay      |  |  ACP  |
 | chat screen    |             | supervisor    |  | queue_service           |=>|       |
 | composer       |             +---------------+  | acp/{manager,runtime,   |  |       |
 | drawer         |                                |  session,interactions}  |  +-------+
 +----------------+                                | push, preview, git, ... |
                                                   +-------------------------+
```

| Component | State | Operations | What is hard | What makes it correct |
|---|---|---|---|---|
| Replay buffer (`replay.rs`) | bounded deque of numbered payloads | push, since, earliest | two limits at once, page cuts | newest unbroken run; pages without holes |
| Notification hub (`client_hub.rs`) | stream id, next and latest number, buffer, client queues | publish, broadcast, send, add and remove a client | lock dropped before broadcasting; full queues | numbers reach replay before clients; nothing lost that replay cannot find |
| Websocket transport (`websocket_transport.rs`) | one reader and one writer per socket | announce, dispatch requests, close | answers behind later frames, overload | a slow client cannot hold the bridge up |
| Phone client (`bridge/ws/*`) | cursor, out-of-order buffer, replay and recovery generations, barrier | handle frame, replay, reset, acknowledge, (dis)connect | reconnects, restarts, late answers, buffer overflow | events in order, over no gap, none skipped silently |
| Snapshot recovery (`chat/turn/replayRecoveryEngine.ts`) | generation, retry timer, pending reset | fetch, install, acknowledge, retry | superseded attempts, restarts while fetching | barrier lowered only by a snapshot that covers it |
| Message queue (`queue_service.rs`) | per thread: items, steering lane, edit, run, interactions, parked completions; idempotency file | send, cancel, edit, steer, drain, handle event, retry, load | actor released around agent calls, lost answers, failed writes, restarts | at most once, durable before delivery, order kept, queue wakes up |
| Composer (`chat/composer`, `chat/turn/controllers`) | draft per chat, submission ids, both in files | type, move, send, create a chat, retry | files read and written late, answers lost or late, chat changed meanwhile | one delivery per intent, no text lost or in the wrong chat |
| AG-UI reducer (`bridge/agui`) | messages, tool bookkeeping per thread | one reduction per event | rewritten tools, sub-agents, snapshots in mid-run | one row per message, call and result |
| Transcript (`chat/transcript`, `chat/turn/agUiRunEvents.ts`) | live state, chat as read, delta batch | batch, merge, group | reads older or newer than the stream | the session's entries, once and in order |
| Chat screen (`chat/session`, `chat/turn`) | selected chat, loads, spinner, header, snapshots kept per chat | open, leave, load, poll, rename, stop | answers of a chat that is no longer open | header, transcript and stop button settle on the truth |
| Drawer (`shell/navigation`) | rows, client caches, loads, stream, deep load, deletions | load, stream, poll, delete, refresh, edit the profile | lists read before a change arrive after it | deletions last, list converges |
| Summary file (`shell/session/chatSummaryCache.ts`) | saved summaries, generation | merge, reconcile, delete, purge | a write captured before a purge | a purge is final |
| ACP session (`acp/session.rs`) | generation state, tools, event mailbox | admit, hand off, emit | run ends during a handoff | one run at a time |
| Interaction registry (`acp/interactions.rs`) | open approvals and inputs, epoch per session | register, answer, prepare and verify a steer | a question between preparing and steering | no steer past an open question |
| Session snapshot, AG-UI projection (`acp/snapshot.rs`, `agui.rs`) | timeline, announced entries | apply, project | snapshot ahead of the pump | replay equals live |
| Desktop broker (`apps/desktop/src/broker.rs`) | workers, leases, idle times | acquire, release, sweep | retirement racing a request | a worker with work is never retired |
| Push (`push.rs`, `push_delivery.rs`) | registrations, pending deliveries | register, deliver, prune | disposition that comes late | one push per final completion |
| Owner watchdog, preview, git, terminal, attachments, pairing | little | I/O | - | - |

They interact in three loops. *Events*: the agent's updates become canonical events of a session; the
queue service consumes them, the AG-UI projection turns them into notifications, the hub numbers and
broadcasts these, and the phone puts them in order, asks for a replay of what it missed, or fetches
snapshots when replay cannot help; the reducer, the chat screen and the drawer apply them. *Messages*:
the composer sends a message with a submission id; the queue prompts the agent at once or keeps the
message until the run ends, and remembers the submission so that a retry is recognised. *Reads*: the
screens read chats and lists over RPC whenever events, polls or the user ask for it, so that an answer
may be older or newer than the events around it.

## Modules and their code

| Module | Models | Extends |
|---|---|---|
| `NotificationReplay` | `replay.rs` as operators on a sequence of entries; `push` and `since` also as the loops of the code | - |
| `ClientHub` | `client_hub.rs`, the socket's life in `websocket_transport.rs` | `NotificationReplay` |
| `EventLog` | what the hub promises, without buffers, sizes, locks and queues | - |
| `WsClient` | `bridge/ws` as operators from client record to client record | - |
| `EventDelivery` | hub, phone, connection and snapshot recovery together | `ClientHub`, `WsClient` |
| `QueueService` | `queue_service.rs` with the session and the agent behind it | - |
| `Composer` | drafts, submission ids, sending and creating chats, with both files and the bridge's idempotency | - |
| `AgUiReducer` | `bridge/agui` as operators from state to state | - |
| `Transcript` | session timeline, projection, pump, delta batching, reads and what is shown | `AgUiReducer` |
| `ChatScreen` | load pipeline, spinner, header, polls, snapshots per chat, stop | - |
| `ChatSummaryCache` | the summary file as operators | - |
| `Drawer` | loads, stream, deep load, caches, deletion, edit of the profile | `ChatSummaryCache` |
| `ClientHubProofs`, `EventLogProofs` | theorems about the hub | `ClientHub`, `ClientHubProofs` |
| `EventDeliveryProofs` | theorems about hub, phone and recovery together | `EventDelivery`, `ClientHubProofs` |
| `QueueServiceProofs`, `ComposerProofs`, `ChatScreenProofs`, `DrawerProofs`, `TranscriptProofs` | theorems about the module of that name | `QueueService`, `Composer`, `ChatScreen`, `Drawer`, `Transcript` |
| `MC*` | constants for TLC | |

**ClientHub.** `Publish` is what the code does under `notification_publish_lock` (number, store,
advance `latest_published_event_id`); `Broadcast` is `broadcast_message` after the lock is released.
The writer task, the closing of a socket and `remove_client` are separate actions, because between
them a client is registered without a receiver. A payload is its size. `TruncatedBytes` is the marker
that takes the place of an oversized payload.

**EventLog** is the abstract specification of the hub: a stream per process, numbered without a hole;
a newest part can be asked for again, the latest event always included; an event is sent at most once,
after it can be asked for; a restart leaves nothing of the old stream. The mapping in `ClientHub`
(`Log == INSTANCE EventLog WITH ...`) takes what is kept from the buffer's numbers, what is unsent from
the publishers between lock and broadcast, and what is on the wire from the clients' queues.

**WsClient.** JavaScript runs a handler to completion, so a handler is an operator and the fields of
`core.ts` are the fields of a record. Awaits cut the code where `EventDelivery` has actions: a replay
page is requested (`outbox`), read by the bridge, answered, received. `emitted` and `required` carry
what a handler hands to its listeners.

**EventDelivery.** The phone's hub queue and the socket behind it form one sequence of frames. A
recovery attempt is a phase (fetching, reading, answered, retry), the generation it was started for,
and the number up to which its snapshot is known to reach. History variables record what the app was
given, `delivered` event by event and `covered` by snapshots, and whether a position that names no
stream has outlived the bridge process it was taken from (`orphaned`).

**QueueService.** One chat thread. `actor` is the task that holds the actor mutex while the agent
admits a prompt (`send_message` and `drain_thread_queue` keep it); `tasks` are
`drain_pending_steers` tasks, which give it up around `prepare_steer`, `verify_steer_epoch` and
`steer`; `drain` says that a spawned `drain_thread_queue` has not run. The idempotency file (`store`)
and the maps it is written from (`results`, `pending`) are separate, and a failed write may have
happened before or after the rename. The session's event mailbox is the sequence `events`: the queue
sees a run start or end some time after it did. Approvals and user inputs are one set, as every test
in the code is on both. The history variables are `prompted` (how often the agent got a message),
`line` (messages accepted and not settled) and `disposed` (push dispositions). The runtime of a thread
is hydrated lazily from the session snapshot. The model starts with it, at idle: all runs of a
top-level thread are started by its queue, so at hydration there is none.

**Composer.** A text carries the scope it was typed into, which no code reads: that is what
`DraftsStayHome` looks at. Sending and creating are operations in `ops` that advance one await at a
time; a request the phone gave up on goes to `late` and may still reach the bridge. `ghost` records
what the user meant: which send repeats which intent, which text was left in which chat, and the cases
the code knowingly does not cover.

**AgUiReducer, Transcript.** Texts are sequences of tokens, so that prefixes and concatenation mean
what they mean for strings. The session applies an update to its timeline at once and projects it;
`feed` is what the pump has not broadcast. A snapshot takes the timeline as it is by then, so it may be
`ahead` of the feed. `base` is the chat as last read; `Shown` is `projectTranscript` followed by
`buildTranscriptDisplayItems`. Loops over events and rows are recursive functions or a sequence of
pieces joined by `FlattenSeq`, so that proofs can follow them event by event and row by row. The
structured content of a tool is its text and a line more, or the text again. Bridge and app cut out
what text and content share each in its own way: `FullText` line by line (`tool_snapshot_text`),
`PersistedText` and the reducer as one run of whole lines (`structuredTextRemainder`).

**ChatScreen.** Reads of a chat share one request, as `getChat` does, so a chat has at most one read
under way and everything that waits for it is answered in one step. Where the code compares a request
number with the newest one, a load keeps whether it is `current`. `wish` records for which turn the
user pressed stop. A cold start with a chat to open is `OpenChat` from the compose screen.

**ChatSummaryCache, Drawer.** A list maps a chat to the stamp of its last change. A listing holds
the first chats in the order of their ids (`Rank`), as `list_sessions_for` sorts them. It is asked
for, read at the bridge, and applied in three steps; so is each of the stream's three batches and
each page of the deep load, which starts at the offset where the one before ended, so that chats may
come and go between pages. A deletion asks first: the row it would put back is the one shown before
the dialog. The queue
of a file's operations runs in order and the purge that would drop an operation follows it, so
operations take effect when they are queued. `coll.leaked` records that after an edit of the profile
the mounted drawer handed chats of the old bridge to the file.

## Runs

`tlc -config X.cfg M` for the pairs below. Deadlock checking is off where the bounds let the system
come to rest; `client_hub` cannot.

| Run | Configuration | Instance | Checks |
|---|---|---|---|
| `client_hub` | `MCClientHub` | 2 publishers, 2 clients, 4 notifications, 2 processes, buffer of 3, sizes below and above every limit; for the comparison with the loops every size, cursor and byte budget up to the buffer's | `HubTypeOK`, `BufferIsNewestRun`, `EveryPageIsExact`, `FormsFollowLoops`, `ImplementsEventLog` |
| `delivery_safety` | `MCDeliverySafety` | 2 publishers, 3 notifications per process, one restart, pages and buffer of 1, queue of 2, recovery buffer of 1, any fault | `NoLossAboveBaseline`, `EmitsWithoutGap`, `BarrierHoldsPosition`, `AcknowledgedAfterSnapshot` |
| `delivery_live` | `MCDeliveryLive` | fair; 3 notifications; a restart to another protocol version, lost links, failed fetches, app disconnects | `ConvergesFromPosition` |
| `queue_dispatch` | `MCQueueDispatch` | fair; 3 messages, 1 question, 3 runs, 1 restart, 2 faults out of failed write, refused turn, lost answer | `AtMostOnce`, `DurableBeforeDelivery`, `FirstComeFirstServed`, `AgreesWithSession`, `QueueDrains` |
| `queue_steer` | `MCQueueSteer` | 2 messages, 1 tool, 1 question, 2 steering tasks, native and handoff, 1 fault of 8 kinds | `EachMessageInOnePlace`, `EditedStaysNext` |
| `composer` | `MCComposer` | 1 chat, the new-chat screen and a created chat, 2 ids, 2 sends or creations, 2 edits, 2 moves, 1 lost or late request, 1 failed write, restart or expiry, stores of 1 | `ComposerTypeOK`, `AtMostOncePerIntent`, `SentMeansDelivered`, `NothingTypedIsLost`, `DraftsStayHome`, `CleanMeansSaved` |
| `transcript` | `MCTranscript` | 2 runs, 2 tools, one of which may be a sub-agent, 4 tokens, 5 messages, 1 waiting update, 1 read, 1 snapshot of a parent, 1 lost snapshot | `TranscriptTypeOK`, `OneRowEach`, `CaughtUp`, `ShownInOrder`, `ShownAtRest` |
| `chat_screen` | `MCChatScreen` | fair; 2 chats, 1 run, 1 move, 1 stop, 1 reload, rename, failed run or failed call | `ChatScreenTypeOK`, `SpinnerHasAnEnd`, `HeaderSettles`, `TranscriptSettles`, `StopConcludes` |
| `drawer` | `MCDrawer` | fair; 2 chats of the first bridge, a third that may be created there, 1 of the second, listings of 1 and 2, a stream of 1, 2 and 3, pages of 1, 2 openings, retries or deletions, 1 change, deletion, refresh, partial or failed listing or edit | `DrawerTypeOK`, `DeletedStaysGone`, `FileFollowsDrawer`, `PurgeIsFinal`, `IndicatorsGoOut`, `ListConverges` |
| `delivery_epoch_stall` | `MCDeliveryEpochStall` | fair; expected counterexample | `Converges` |
| `delivery_stale_position` | `MCDeliveryStalePosition` | expected counterexample | `PositionOfThisStream` |
| `composer_create_retry` | `MCComposerDup` | expected counterexample | `RetryNeverDuplicates` |

**Bounds.** Constants named `Max...` bound the exploration; the capacities and limits stand for the
code's constants. They are chosen against the hazards: three numbers with a buffer and pages of one let
a cursor fall out of the buffer and a page end before the target; a recovery buffer of one overflows
with a second event; three messages give a running, a next and a waiting one; two steering tasks are
what two `steer_message` calls, or one and a tool's end, start; two sends with two ids give a message
and its retry, and stores of one drop the first failure at the second; two runs let a follow-up start
before the first is read; with a shortest listing of one and two or three chats, a list is longer than
a listing, has several pages for the deep load, and can shrink below. The third chat is created between
the other two by id; that a page of the deep load brings nothing new (a chat created ahead of it) is
left to the proofs of the safety properties. Symmetry is over publishers, clients or messages, in runs
without liveness properties.

**Fairness.** What the user does, what the agent decides, and faults are never fair.
`EventDelivery` is weakly fair to bridge tasks, to timers and handlers of the phone, to the reopening
of a socket (`scheduleReconnect` retries without limit), and to the app connecting again after it
disconnected: an app that stays in the background converges when it comes back. `QueueService` is
weakly fair to spawned tasks, the retry timer, the agent's answer to a prompt request (the manager
times it out), the end of a run and event handling; `QueueDrains` excludes a message held for editing,
and stops at a reported error without a retry, since the code leaves that to the user. `ChatScreen` is
weakly fair to reads and their answers (requests time out), to timers and polls, to events, and to an
interrupted agent ending its run. `Drawer` states the same for its requests, timers, events and
writes, in another form: a step of these is enabled exactly while something is outstanding, and a few
of them settle it, so weak fairness amounts to the outstanding thing being settled again and again
(`[]<>(feed = <<>>)` and so on), which TLC checks much faster than ten fairness conditions on actions.

**Properties.** Each is commented where it is defined. The ones to know: `NoLossAboveBaseline` - the
cursor never passes an event the app was not told about, and `AcknowledgedAfterSnapshot` - the barrier
falls only for a snapshot of the current stream that covers it, both unless a position was orphaned
(see below); `EmitsWithoutGap` - a client with a position emits an event only together with all
between; `DurableBeforeDelivery` with `AtMostOnce` - a crash at any point cannot make the bridge send
a message again; `FirstComeFirstServed` and `EachMessageInOnePlace` - messages keep their order, and
with steering are neither lost nor doubled; `AgreesWithSession` - once events are handled, queue and
session agree on the run; `AtMostOncePerIntent` and `SentMeansDelivered` - a retry neither doubles a
message nor is swallowed as the retry of another; `CaughtUp` and `ShownAtRest` - the texts and rows of
the app are the session's, once it has heard everything; `HeaderSettles` and `StopConcludes` - stale
answers do not leave a chat "running" or "stopping" for ever; `DeletedStaysGone` and `PurgeIsFinal` -
nothing read or captured before a deletion or a purge brings back what it removed; `ListConverges` -
an open drawer ends up showing the chats of the shortest listing as they are at the bridge.

Every property of a passing run has a mutant in `PROJECT.json`: an operator next to the one it
changes, marked "Mutant", with which TLC finds the property violated.

## Where the code and its documentation disagree

Three runs are expected to end in a counterexample.

- `delivery_epoch_stall` (`Converges`). `docs/realtime-streaming-limitations.md` says that a stream
  change, replay eviction or gap triggers snapshot convergence. `resetRecoveryEpoch` raises a barrier
  at 0 and its recovery is not acknowledged. If the stream after it is fresh, its events arrive without
  a gap, no second recovery starts, and everything waits behind the barrier.
- `delivery_stale_position` (`PositionOfThisStream`). The same document says that `streamId` lets
  mobile distinguish a reconnect from a bridge restart. When the recovery buffer overflows on the last
  event of a replay page, `resetRecoveryEpoch` forgets the stream, and the rest of the page handler
  calls `resetDeliveryEpoch('replayInconsistent')`, which sets position and watermark to the page's
  latest number with no stream to go with them. If the bridge is replaced before the phone reconnects,
  the new stream counts as the first one and its change goes unnoticed: the number of the old stream
  is kept, the first events of the new one are dropped as duplicates, and the snapshot that lowers the
  barrier ends below the watermark. This came out of the proof below, where the invariant was not
  inductive for this schedule; the properties exclude it by `orphaned` and hold in all others.
- `composer_create_retry` (`RetryNeverDuplicates`). `docs/setup-and-operations.md` promises that a
  retry cannot duplicate admitted work. When the first message of a new chat is delivered and its
  answer lost, the failure is filed under the scope of the new-chat screen and the draft is put back
  into the created chat; sending it from there takes a fresh submission id.

## Schedules no property forbids

The models contain these; the properties that hold are stated so that they leave them out, and
`PROJECT.json` lists each as a hazard with a note.

- A steered message has neither reservation nor Sent receipt on disk: after a restart a retry of it is
  admitted again. `AtMostOnce` is checked without steers, and `queue_steer` has no restart.
- A run that ends during `prepare_steer` promotes the steer; the drain it spawns returns on
  `steer_prepare_in_flight`, and the successful preparation dispatches nothing. `QueueDrains` is
  checked without steers.
- A completion parked for a continuation that is cancelled is taken by the next drain only. If a new
  message takes the thread first, it stays, and `other_live_work` keeps the worker from being idle.
- A native steer whose answer is lost is delivered and goes back to the lane (the extension has no
  idempotency key); after a failing `verify_steer_epoch`, `fail_steer_dispatch`, which takes no actor,
  returns whatever steer is in flight. `EachMessageInOnePlace` claims after such a fault only that
  nothing is lost and nothing is in two places.
- An event may reach the app twice: `resetDeliveryEpoch` takes the latest number of a page that was
  read before a newer event arrived and was emitted, and replay later brings that event again.
  `EmitsWithoutGap` speaks of what follows a position, not of emitting once.
- `NoLossAboveBaseline` starts at the first number the client saw: a link lost before it leaves no
  cursor, the reconnect requests no replay, and the app reloads the open chat instead.
- After a stream change cursor and watermark are both 0 and the first numbered event passes as a
  baseline, before the snapshot (`ws.test.ts` expects this): `BarrierHoldsPosition` speaks of a client
  that has a position.
- A frame dropped on a full queue is caught up only when a later frame or a reconnect reveals the gap;
  `delivery_live` has a queue that does not fill up.
- A send made before the stored ids are read loses its id to the read; text typed before the drafts
  file is read goes to the chat the user moves to; a failed send whose composer has changed is not
  put back.
- The start of a follow-up run replaces the live rows before the chat has been read; a chat read while
  a tool was its last entry keeps that row under an id the snapshot does not use.
- With no more rows than the shortest listing has, every poll of the drawer is answered from a client
  cache whose age `applyChats` renews: `ListConverges` is about longer lists.
- The phone asks for lists with `sortKey: 'updated_at'`; `list_sessions_for` ignores it and sorts by
  id. Once the deep list is cached, a reload asks for the shortest listing alone, so the row of a chat
  behind the first five ids is not renewed, and a new chat behind them does not appear, until the user
  refreshes or the app starts again. `ListConverges` speaks of the chats of the shortest listing.
- The lines of a structured content that a tool's text covers are not shown twice; when the text is
  rewritten without them they are shown not at all, until the snapshot at the end of the run.
- After an edit of the profile the mounted drawer keeps rows of the old bridge and may save them
  (`coll.leaked`).

## Proofs

`tlapm M.tla` checks the proofs of module M, for each of the modules whose name ends in `Proofs`.
All of them hold for every value of the constants that satisfies the named assumptions: any number of
chats, messages, texts, tasks, runs, clients and faults.

**The hub**, for every value of the constants under `ReplayBounds` and `HubAssumptions`: positive
capacities, and limits as in `resource_limits.rs`, where a notification (256 KiB) and the marker of an
oversized one fit the replay budget (16 MiB).

- `HubTypeCorrect`: `HubSpec => []HubTypeOK`.
- `ReplayBufferContiguous`: `HubSpec => []BufferIsNewestRun`.
- `ReplayPagesExact`: `HubSpec => []EveryPageIsExact`.
- `LoopsFollowed`: `HubSpec => []FormsFollowLoops`, the buffer is within both limits, and `Push` and
  `Since`, which count, compute what the eviction loop of `push` and the scan of `since` compute.
- `FramesFollowReplay`: `HubSpec => []NoFrameBeforeReplay`, a number on its way to a client is one
  replay has had.
- `HubImplementsEventLog`: `HubSpec => ImplementsEventLog`, the refinement.

The inductive invariant `HubInv` joins the types to the run of numbers. Types alone are not inductive
for the second theorem, and the run needs more than itself: that a new entry is never refused by
`Push` (its size is at most the budget, from `HubAssumptions`) and that what `Push` keeps is a suffix
of the extended buffer containing the new entry. Lemmas about `Push`, `After` and `Since` state this
once; none of these steps expands sums of bytes, as it only matters that a suffix, or a prefix, is
kept. The page theorem then follows in each state. `LoopsFollowed` does need the sums: `TotalBytes`
of a longer or a shorter run (`TotalOfAppend`, `TotalOfTail`), from which a run that fits still fits
when it is shortened, so that the suffixes which do not fit are the first so many (`FirstOnes`), and
likewise the numbers at or below the cursor and the prefixes a page takes. After `i` rounds the loops
hold the corresponding piece of the run, shown up to the last round by `UpTo`; that the numbers ascend
comes from `HubInv`. The refinement rests on `LogInv`: `HubInv`, that queued frames are
replayable, and that two publishers between lock and broadcast hold different numbers, without which
a broadcast would not take exactly its own event out of what is unsent.

**Event delivery**, hub, phone and recovery together, under `ReplayBounds`, `HubAssumptions`,
`ClientAssumptions` (`None` is no number and no request) and `DeliveryAssumptions`.

- `NothingLost`: `Spec => []NoLossAboveBaseline`.
- `NeverOverAGap`, `BarrierHolds`, `BarrierLoweredBySnapshot`: `Spec => EmitsWithoutGap`,
  `BarrierHoldsPosition` and `AcknowledgedAfterSnapshot`.
- `PositionsKept`: `Spec => [](orphaned \/ PositionOfThisStream)`, the schedule of
  `delivery_stale_position` is the only one in which a client keeps a number of another stream.

`DeliveryInv` has a part for each place. `BridgeInv` takes over the hub's invariant. `ChannelInv`:
what is queued for the phone is of the present stream, and the announcement comes before any answer.
`RecoveryInv`: what is being fetched is of the present stream and will reach the watermark it was
asked for. `ClientGood` is about the client: its numbers are numbers of its stream, a client that may
take any event as its baseline has told the app nothing of the stream, and from any event the app was
told of up to the position nothing is missing but what the snapshot behind the barrier will bring
(`Whole`). `ClientGood` is stated of any client record, not of the variable, because a handler calls
several operators of `WsClient`: one lemma per operator says that it keeps `ClientGood` and how far
it moves the client (`Moves`, `Carries`), and an action's proof chains them. The three action
properties are read off `Moves`. The loop over a page's events is a recursive function; that it keeps
the invariant is shown from a least index at which it would not.

**The message queue**, under `QueueBounds` (`None` is no message and no request; the capacity is
positive).

- `EditedMessageStaysNext`: `Spec => []EditedStaysNext`.
- `MessagesInOnePlace`: `Spec => []EachMessageInOnePlace`.
- `QueueAgreesWithSession`: `Spec => []AgreesWithSession`.
- `DeliveredAtMostOnce`, `DurableBeforeAgent`, `ServedInOrder`: `Spec => []AtMostOnce`,
  `[]DurableBeforeDelivery` and `[]FirstComeFirstServed`, each under `SteerModes = {}`.

The first three hold with steering. `EditingInv` adds to `EditedStaysNext` that whoever starts a turn
has seen that no message is being edited. `PlacesInv` is about all places at once (queue, lane, steer
in flight, steering tasks, turn request): no place holds a message twice, two places share none,
whatever was accepted is somewhere or was given to the agent, and, as long as no fault occurred, a
message a task carries is still in the lane or in flight and only one task carries one. `ViewInv`
reads the event mailbox: an end is always preceded by its start, the last run event tells the state
the session is in, and a turn request that was admitted has its start in the mailbox. The last three
rest on `DeliveryInv`: the message at the agent's door followed by the queue is the line of accepted
messages, and what was given to the agent is in the file and in the maps it is written from. They
need the hypothesis: a steered message overtakes the queue and is neither reserved nor recorded as
sent, see the schedules above; with steering all three are false.

**The composer**, under `ComposerAssumption` (optimistic and created chats are no chats of the user;
limits are numbers).

- `ComposerTypeCorrect`: `Spec => []ComposerTypeOK`.
- `CleanDraftsAreSaved`, `DraftsKeepTheirChat`, `TypedTextSurvives`: `Spec => []CleanMeansSaved`,
  `[]DraftsStayHome` and `[]NothingTypedIsLost`.
- `ReportedMeansDelivered`, `RetriesDeliverOnce`: `Spec => []SentMeansDelivered` and
  `[]AtMostOncePerIntent`.

`DraftsInv` is the part about drafts: the last write under way is of the drafts as they are unless
another is due; the visible text belongs to the selected chat and is filed there; every place a draft
can come from (screen, memory, file, writes under way, operations that may put their text back)
holds texts that may be there; and what a chat will show is what was left in it, also before the file
is read. `IdsInv` is about submission ids. An id belongs to one pair of chat and text in memory, in
the file and on the wire (`BindInv`); the bridge holds one message per id (`HeldInv`). From this alone
at-most-once does not follow, because two ids may be used for one intent: `MeantInv` says that all
messages of an intent carry one id (`OneIdEach`), that a failure the user saw is recorded under that
id until it is retried (`OwedInv`), that every record is of such a failure or of a retry under way
(`RecordsInv`), and that the file is or is about to become what is in memory (`FileInv`), without
which a restart would lose the id of a retry.

**The chat screen**, under `ChatScreenAssumption`.

- `ScreenTypeCorrect`: `Spec => []ChatScreenTypeOK`.
- `SpinnerComesDown`: `Spec => []SpinnerHasAnEnd`.

`SpinnerHasAnEnd` needs `LoadsInv`: the newest load is for the chat on the screen, and every load and
poll that waits has a read of its chat under way, so that none can be forgotten by an answer.

**The drawer**, under `DrawerAssumption` (finitely many chats with different ids, ordered limits, a
saved file that starts with chats of the profile's bridge, `None` is no read of the file).

- `DrawerTypeCorrect`: `Spec => []DrawerTypeOK`.
- `DeletedChatsStayGone`: `Spec => []DeletedStaysGone`.
- `FileFollows`: `Spec => []FileFollowsDrawer`.
- `PurgedChatsStayPurged`: `Spec => []PurgeIsFinal`.

None is inductive. `DrawerInv` adds that a buffered write of the present generation is shown, and that
it and the answers of the stream and of the deep load, which may replace the file, hold chats of the
bridge the profile names. For the file the read at mount matters (`HydrationGood`): while it is under
way the file may be ahead of the rows, but not of rows and what was read together, and not after an
authoritative list, for which the read is dropped; a read is always of the present generation. All
steps change the rows through a handful of operations (apply, remove, restore, schedule a write,
remember, forget), each with a lemma that it keeps `CollGood` and that each chat's file entry is no
later than its row or as it was (`Advances`, which is transitive); the lemmas on loads say that they
keep `LoadGood`; one lemma per group of actions puts the two together.

**The transcript**, under `TranscriptAssumption` (finitely many tools, numbered from 1; the other
constants are numbers).

- `TranscriptTypeCorrect`: `Spec => []TranscriptTypeOK`.
- `RowsOnce`: `Spec => []OneRowEach`.

`OneRowEach` relates the rows to each other, but what keeps them apart are the books: which row speaks
for a call and which for its result. `LiveGood` says of any live state, also in the middle of a batch,
that the id of a row tells its role and its call, that no id is there twice, and that the books name
the row of every call that has one (`Booked`). It has one lemma per operator of `AgUiReducer`; those
that cut a row before they put it back under another id, `TOOL_CALL_RESULT` and the snapshot, need the
weaker `LiveSound` in between. That the sub-agent's card is alone does not follow from the app's state:
`reduceToolMeta` starts a row for a suppressed call, so it has to be shown that no such event arrives.
`Announced` says so of the batches on their way, once a card is among them: what is announced as a
sub-agent's is one in the timeline, the projector writes no metadata of such a call, and a task is one
for good. `Hidden` says it of the calls the app already knows as suppressed, up to the next
`RUN_STARTED`, which clears them. A snapshot that overtakes the stream tells the app of a sub-agent
before the metadata still on its way, so `Hidden` and `OneRowEach` claim nothing while the snapshot is
`ahead`; that an end-of-run snapshot is never ahead is `FeedOrder`, that nothing but the next run
follows the end of one. The loops of a batch and of the waiting deltas are recursive functions; that
they keep the invariant is shown from a least index at which they would not (`UpTo`).

Only model-checked: `CaughtUp`, `ShownInOrder` and `ShownAtRest` of `Transcript`, which compare texts
that the session and the app have put together piece by piece, and merges of rows; all liveness properties, which the prover does not support
under fairness.

## What is not modelled

Payloads, wording and byte budgets outside the replay buffer; the windows of 1024 remembered
submissions; several threads at once (their state is disjoint but for the idempotency file, whose
writes are serialised by `submission_persist`); request plumbing of the RPC layer, except that
requests fail or come late. In the composer attachments and slash commands; in the transcript plans,
usage, reasoning summaries and rendering; on the chat screen approvals, plans and sub-agent views; in
the drawer linked sub-sessions, run indicators, attention requests, priority hydration and the
tablet's layout; of the summary file its size limits and failed writes. Git, terminal, attachments, the preview proxy and
setup are I/O around external programs, and the workspace and git screens ask and show answers. The
larger part of the app's lines is components, styles and formatting. Generated bindings are left out.
The components not yet reached are listed next.

## Plan

1. Replay buffer, hub, phone client, end-to-end delivery, message queue. Done.
2. The hub as an implementation of `EventLog`, by TLC and by proof. Done.
3. The phone: composer, reducer, transcript, chat screen, drawer, summary file. Done.
4. `WorkerPool`: the broker's leases, activity probes, idle grace and retirement, with the owner
   watchdog; against an abstract rule that a worker with live work is not retired, composed with
   `QueueService`'s notion of idle (`status`).
5. `Interactions`: registration, answers, durable resolutions, retries after a restart, with the
   approval banner of the chat screen.
6. `PushDelivery`: dispositions, the two-second wait, retries and pruning, composed with
   `QueueService`.
7. `AcpSession`: reconstruction, routing and eviction. The phone's `queueState.ts` against the
   queue's snapshots.
8. Proofs: the hub, its refinement, event delivery, the queue, the composer, the chat screen, the
   drawer and the rows of the transcript are done. Next: the texts of the transcript (`CaughtUp`),
   for which the invariant has to say of each tool what of its text is still on its way.
