--------------------------- MODULE EventDelivery ----------------------------
(***************************************************************************)
(* Event delivery end to end: the bridge's hub (ClientHub), one phone's    *)
(* websocket client (WsClient), the connection between them, and the       *)
(* snapshot recovery the app runs when replay cannot fill a gap            *)
(* (apps/mobile/src/features/chat/turn/replayRecoveryEngine.ts).           *)
(*                                                                         *)
(* The phone's queue in the hub and the socket behind it are one sequence  *)
(* of frames.  A connection that ends takes its frames with it; the next   *)
(* one is a new hub client, so the stale registration plays no part.       *)
(***************************************************************************)
EXTENDS ClientHub, WsClient

CONSTANTS
    phone,          \* the client under study; Clients = {phone}
    PageLimit,      \* entries per replay page (200 in replayMissedEvents)
    FaultKinds,     \* which faults may happen
    MaxFaults       \* bound: how many faults

ASSUME DeliveryAssumptions ==
    /\ phone \in Clients
    /\ PageLimit \in Nat \ {0}

VARIABLES
    cl,             \* the phone's HostBridgeWsClient
    announced,      \* this connection's bridge/connection/state was queued
    reply,          \* the replay page read by the bridge and not yet sent, or None
    recovery,       \* the running recoverReplayGap attempt
    faults,         \* faults so far
    delivered,      \* history: <<stream, number>> handed to the app
    covered,        \* history: stream -> latest number an installed snapshot includes
    orphaned        \* history: a position of no stream has outlived the bridge process

history == <<delivered, covered, orphaned>>
vars == <<hubVars, cl, announced, reply, recovery, faults, history>>

Streams == 1..MaxStream
NotYet == -1

Idle == [phase |-> "idle", generation |-> 0, resumeAfterEventId |-> 0,
         acknowledge |-> FALSE, epochResetPending |-> FALSE,
         stream |-> 0, upTo |-> 0]

Init ==
    /\ HubInit
    /\ cl = NewClient
    /\ announced = FALSE
    /\ reply = None
    /\ recovery = Idle
    /\ faults = 0
    /\ delivered = {}
    /\ covered = [s \in Streams |-> NotYet]
    /\ orphaned = FALSE

\* recoverReplayGap, called by the app's handler of snapshotRequired: a new
\* generation supersedes the attempt that was running.
StartRecovery(r, c) ==
    [r EXCEPT !.phase = "fetching",
              !.generation = c.replayGeneration,
              !.resumeAfterEventId = c.required.resumeAfterEventId,
              !.acknowledge = c.required.acknowledge]

\* A fetch whose connection ends is retried after a second.
FetchInterrupted(r) ==
    [r EXCEPT !.phase = IF @ \in {"fetching", "reading", "answered"} THEN "retry" ELSE @]

\* What the phone does to the rest of the world after a handler has turned cl
\* into c: emitted events reach the app, a required snapshot starts a recovery
\* and a socket the handler closed ends the connection.  r is the recovery and
\* q the phone's queue left by the rest of the step.
PhoneStep(c, r, q) ==
    LET closed == c.socket = "closed"
        left == IF closed THEN FetchInterrupted(r) ELSE r
    IN  /\ cl' = [c EXCEPT !.emitted = {}, !.required = None]
        /\ delivered' = delivered \cup c.emitted
        /\ recovery' = IF c.required = None THEN left ELSE StartRecovery(left, c)
        /\ announced' = (announced /\ ~closed)
        /\ reply' = IF closed THEN None ELSE reply
        /\ clients' = IF closed THEN {} ELSE clients
        /\ open' = IF closed THEN {} ELSE open
        /\ queue' = [queue EXCEPT ![phone] = IF closed THEN <<>> ELSE q]

BridgeOnly == UNCHANGED <<cl, announced, reply, recovery, faults, history>>

BridgePublishes ==
    \E p \in Publishers, size \in Sizes : Publish(p, size) /\ BridgeOnly

BridgeBroadcasts == \E p \in Publishers : Broadcast(p) /\ BridgeOnly

\* The websocket opens: handle_socket registers the client, onopen runs.
OpenSocket ==
    /\ cl.socket = "closed"
    /\ cl.shouldReconnect
    /\ AddClient(phone)
    /\ cl' = [cl EXCEPT !.socket = "open"]
    /\ announced' = FALSE
    /\ UNCHANGED <<reply, recovery, faults, history>>

\* handle_socket then sends bridge/connection/state, before it reads the first
\* request from the socket.
AnnounceStream ==
    /\ ~announced
    /\ SendJson(phone, StateFrame(stream_id))
    /\ announced' = TRUE
    /\ UNCHANGED <<cl, reply, recovery, faults, history>>

\* bridge/events/replay: one page, read under the publish lock ...
ReplayRead ==
    /\ announced
    /\ cl.outbox # None
    /\ reply = None
    /\ LET page == ReplaySnapshot(cl.outbox.cursor, PageLimit)
       IN  reply' = [type |-> "replay", stream |-> stream_id,
                     generation |-> cl.outbox.generation,
                     cursor |-> cl.outbox.cursor, target |-> cl.outbox.target,
                     ids |-> [i \in DOMAIN page.events |-> page.events[i].event_id],
                     hasMore |-> page.has_more,
                     earliest |-> page.earliest_event_id,
                     latest |-> page.latest_event_id]
    /\ cl' = [cl EXCEPT !.outbox = None]
    /\ UNCHANGED <<hubVars, announced, recovery, faults, history>>

\* ... and sent once the lock is released, behind the frames broadcast meanwhile.
ReplayAnswered ==
    /\ reply # None
    /\ SendJson(phone, reply)
    /\ reply' = None
    /\ UNCHANGED <<cl, announced, recovery, faults, history>>

ReceiveEvent(f) ==
    /\ f.type = "event"
    /\ PhoneStep(HandleEvent(cl, f.stream, f.event_id, "live"), recovery, Tail(queue[phone]))
    /\ UNCHANGED covered

ReceiveState(f) ==
    /\ f.type = "state"
    /\ PhoneStep(HandleConnectionState(cl, f.stream), recovery, Tail(queue[phone]))
    /\ UNCHANGED covered

ReceiveReplay(f) ==
    /\ f.type = "replay"
    /\ PhoneStep(HandleReplayPage(cl, f), recovery, Tail(queue[phone]))
    /\ UNCHANGED covered

\* Mutant of ReceiveSnapshot: the answer to a superseded attempt is installed.
ReceiveSnapshotUnchecked(f) ==
    LET done == [recovery EXCEPT !.phase = "idle", !.epochResetPending = FALSE]
        acked == IF recovery.acknowledge
                 THEN AcknowledgeSnapshotRecovery(cl, recovery.resumeAfterEventId)
                 ELSE cl
        seen == [covered EXCEPT ![recovery.stream] = Max({@, recovery.upTo})]
    IN  /\ f.type = "snapshot"
        /\ PhoneStep(acked, done, Tail(queue[phone]))
        /\ covered' = seen

\* The last answer of a snapshot fetch.  An answer to a superseded attempt is
\* discarded; otherwise the snapshot is installed and the watermark the attempt
\* was started for acknowledged, unless the recovery epoch was reset.
ReceiveSnapshot(f) ==
    LET current == recovery.phase = "answered" /\ recovery.generation = f.generation
        done == [recovery EXCEPT !.phase = "idle", !.epochResetPending = FALSE]
        acked == IF recovery.acknowledge
                 THEN AcknowledgeSnapshotRecovery(cl, recovery.resumeAfterEventId)
                 ELSE cl
        seen == [covered EXCEPT ![recovery.stream] = Max({@, recovery.upTo})]
    IN  /\ f.type = "snapshot"
        /\ PhoneStep(IF current THEN acked ELSE cl,
                     IF current THEN done ELSE recovery,
                     Tail(queue[phone]))
        /\ covered' = IF current THEN seen ELSE covered

Receive ==
    /\ phone \in open
    /\ queue[phone] # <<>>
    /\ LET f == Head(queue[phone])
       IN  ReceiveEvent(f) \/ ReceiveState(f) \/ ReceiveReplay(f) \/ ReceiveSnapshot(f)
    /\ UNCHANGED <<streamVars, publishing, faults, orphaned>>

\* fetchReplayRecoverySnapshot: several requests.  What they return reflects at
\* least everything published before the first of them was served.
SnapshotRead ==
    /\ recovery.phase = "fetching"
    /\ announced
    /\ recovery' = [recovery EXCEPT !.phase = "reading", !.stream = stream_id,
                                    !.upTo = latest_published_event_id]
    /\ UNCHANGED <<hubVars, cl, announced, reply, faults, history>>

SnapshotAnswered ==
    /\ recovery.phase = "reading"
    /\ SendJson(phone, [type |-> "snapshot", stream |-> stream_id,
                        generation |-> recovery.generation])
    /\ recovery' = [recovery EXCEPT !.phase = "answered"]
    /\ UNCHANGED <<cl, announced, reply, faults, history>>

RetryRecovery ==
    /\ recovery.phase = "retry"
    /\ recovery' = [recovery EXCEPT !.phase = "fetching"]
    /\ UNCHANGED <<hubVars, cl, announced, reply, faults, history>>

-----------------------------------------------------------------------------
Fault(kind) ==
    /\ kind \in FaultKinds
    /\ faults < MaxFaults
    /\ faults' = faults + 1

\* The link drops, or the bridge gives up on a full queue and closes it.
LinkLost ==
    /\ Fault("link")
    /\ cl.socket = "open"
    /\ PhoneStep(SocketGone(cl), recovery, <<>>)
    /\ UNCHANGED <<streamVars, publishing, covered, orphaned>>

\* A replay request is refused (overload) or times out before its answer comes;
\* an answer that comes later finds no pending request and is ignored.
ReplayRequestFails ==
    /\ Fault("replay")
    /\ cl.outbox # None \/ reply # None
    /\ cl' = ReplayFails(cl, IF cl.outbox # None THEN cl.outbox.generation
                                                ELSE reply.generation)
    /\ reply' = IF cl.outbox # None THEN reply ELSE None
    /\ UNCHANGED <<hubVars, announced, recovery, history>>

\* One request of a snapshot fetch fails: the attempt is retried as a whole.
FetchFails ==
    /\ Fault("fetch")
    /\ recovery.phase \in {"fetching", "reading"}
    /\ recovery' = [recovery EXCEPT !.phase = "retry"]
    /\ UNCHANGED <<hubVars, cl, announced, reply, history>>

\* The bridge reports more loaded threads than the protocol allows: reset the
\* recovery epoch once; the second time in a row the app gives up with an error.
ProtocolLimitExceeded ==
    /\ Fault("protocol")
    /\ recovery.phase = "reading"
    /\ LET over == [recovery EXCEPT !.phase = "idle", !.epochResetPending = TRUE]
       IN  PhoneStep(IF recovery.epochResetPending THEN cl ELSE ResetRecoveryEpoch(cl),
                     over, queue[phone])
    /\ UNCHANGED <<streamVars, publishing, covered, orphaned>>

\* The app disconnects (background, profile switch) and connects again.
UserDisconnects ==
    /\ Fault("user")
    /\ cl.shouldReconnect
    /\ PhoneStep(Disconnect(cl), recovery, <<>>)
    /\ UNCHANGED <<streamVars, publishing, covered, orphaned>>

UserConnects ==
    /\ ~cl.shouldReconnect
    /\ ~cl.protocolError
    /\ cl' = Connect(cl)
    /\ UNCHANGED <<hubVars, announced, reply, recovery, faults, history>>

\* A replay page whose last event overflows the recovery buffer forgets the
\* stream and then takes the page's latest number as its position.
Nameless(c) == c.streamId = 0 /\ c.lastSeenEventId > 0

\* The bridge process is replaced; every socket to it fails.
BridgeRestarts ==
    /\ Restart
    /\ cl' = SocketGone(cl)
    /\ announced' = FALSE
    /\ reply' = None
    /\ recovery' = FetchInterrupted(recovery)
    /\ orphaned' = (orphaned \/ Nameless(cl))
    /\ UNCHANGED <<faults, delivered, covered>>

Next ==
    \/ BridgePublishes
    \/ BridgeBroadcasts
    \/ OpenSocket
    \/ AnnounceStream
    \/ ReplayRead
    \/ ReplayAnswered
    \/ Receive
    \/ SnapshotRead
    \/ SnapshotAnswered
    \/ RetryRecovery
    \/ LinkLost
    \/ ReplayRequestFails
    \/ FetchFails
    \/ ProtocolLimitExceeded
    \/ UserDisconnects
    \/ UserConnects
    \/ BridgeRestarts

Spec == Init /\ [][Next]_vars

\* Tasks of the bridge and timers and handlers of the phone keep running; faults,
\* restarts and new notifications need not happen.
Fairness ==
    /\ WF_vars(BridgeBroadcasts)
    /\ WF_vars(OpenSocket)
    /\ WF_vars(AnnounceStream)
    /\ WF_vars(ReplayRead)
    /\ WF_vars(ReplayAnswered)
    /\ WF_vars(Receive)
    /\ WF_vars(SnapshotRead)
    /\ WF_vars(SnapshotAnswered)
    /\ WF_vars(RetryRecovery)
    /\ WF_vars(UserConnects)

FairSpec == Spec /\ Fairness

-----------------------------------------------------------------------------
Known(s, id) == <<s, id>> \in delivered \/ id <= covered[s]

\* With the recovery barrier down, everything the bridge published from the first
\* number the client took as its baseline in the stream up to the last one it
\* counts as seen has reached the app: as an event or inside an installed
\* snapshot.  The client (deliverNumberedNotification, replayMissedEvents,
\* resetDeliveryEpoch) never moves its cursor over something the app was not told
\* about, through reordered and dropped frames, reconnects, restarts and
\* interrupted recoveries, as long as no position was orphaned.
NoLossAboveBaseline ==
    LET s == cl.streamId
        seen == {id \in 1..MaxEventId : <<s, id>> \in delivered}
    IN  ~orphaned /\ s # 0 /\ ~Barrier(cl) /\ seen # {} =>
            \A id \in Min(seen) .. cl.lastSeenEventId : Known(s, id)

NewlyDelivered(s) == {id \in 1..MaxEventId : <<s, id>> \in delivered' \ delivered}

\* A client that has a position in a stream emits that stream's events from
\* there on and never over a gap (drainPendingEvents), although live frames,
\* replay pages and the buffer of a recovery bring them in any order.
EmitsWithoutGap ==
    [][LET s == cl.streamId
       IN  s # 0 /\ cl.lastSeenEventId > 0 =>
            \A id \in NewlyDelivered(s) :
                /\ cl.lastSeenEventId < id
                /\ \A k \in cl.lastSeenEventId + 1 .. id : <<s, k>> \in delivered']_vars

\* While the barrier is up, a client that keeps its position in a stream emits
\* nothing of it: events past the watermark wait for the snapshot.
BarrierHoldsPosition ==
    [][Barrier(cl) /\ Barrier(cl)' /\ cl.lastSeenEventId > 0 =>
            NewlyDelivered(cl.streamId) = {}]_vars

\* As long as no position was orphaned, the barrier is lowered only when a
\* snapshot of the very stream the client follows, read at or past the watermark,
\* has been installed (recoverReplayGap's generation check and
\* acknowledgeSnapshotRecovery's).
AcknowledgedAfterSnapshot ==
    [][~orphaned /\ Barrier(cl) /\ ~Barrier(cl)' =>
            /\ cl'.streamId # 0
            /\ covered'[cl'.streamId] >= cl.recoveryWatermark]_vars

\* The client's position is one of the stream it follows: a new bridge process is
\* told from a reconnect by its streamId (applyStreamIdentity), and no number of
\* the old process is taken for one of the new.
PositionOfThisStream ==
    cl.streamId = stream_id => cl.lastSeenEventId <= latest_published_event_id

\* Once the client has a position in a stream, everything the bridge publishes
\* past it reaches the app, through lost links and failed snapshot fetches, or
\* the stream ends.
ConvergesFromPosition ==
    \A s \in Streams, id \in 1..MaxEventId :
        (/\ stream_id = s
         /\ cl.streamId = s
         /\ 0 < cl.lastSeenEventId
         /\ cl.lastSeenEventId < id
         /\ id <= latest_published_event_id)
        ~> (Known(s, id) \/ stream_id # s)

\* Everything published after the phone has connected to a stream reaches the
\* app, or the stream ends.
Converges ==
    \A s \in Streams, id \in 1..MaxEventId :
        [](/\ stream_id = s
           /\ phone \in open
           /\ latest_published_event_id < id
           => [](stream_id = s /\ id <= latest_published_event_id
                    => <>(Known(s, id) \/ stream_id # s)))

=============================================================================
