------------------------------ MODULE WsClient ------------------------------
(***************************************************************************)
(* The mobile app's bridge client (apps/mobile/src/bridge/ws): how it puts *)
(* numbered notifications back in order, asks the bridge to replay what it *)
(* missed, and raises a recovery barrier when replay cannot help.          *)
(*                                                                         *)
(* JavaScript runs a handler and the promise continuations it triggers to  *)
(* completion before the next socket event, so a handler is one operator   *)
(* from client record to client record.  The fields keep the names of      *)
(* core.ts.  Four fields stand for what a handler does to the outside:     *)
(*   socket    "open" while this.socket is connected, else "closed"        *)
(*   outbox    the replay request now waiting to be answered, or None      *)
(*   emitted   <<stream, number>> of the events handed to the listeners    *)
(*   required  the last bridge/events/snapshotRequired emitted, or None    *)
(***************************************************************************)
EXTENDS Integers, FiniteSets, FiniteSetsExt, SequencesExt

CONSTANTS
    None,
    MaxRecoveryBufferedEvents,  \* MAX_RECOVERY_BUFFERED_EVENTS
    UnsupportedStreams          \* streams of a bridge with another protocolVersion

\* The payload of bridge/events/snapshotRequired.
SnapshotRequests == [resumeAfterEventId : Nat, acknowledge : BOOLEAN]

ASSUME ClientAssumptions ==
    /\ MaxRecoveryBufferedEvents \in Nat
    /\ None \notin Nat \cup SnapshotRequests

NewClient ==
    [socket |-> "closed", shouldReconnect |-> TRUE, protocolError |-> FALSE,
     streamId |-> 0,                \* 0 stands for null; streams count from 1
     lastSeenEventId |-> 0,
     pendingEvents |-> {},
     replayInFlight |-> None,       \* generation of the running replay
     replayGeneration |-> 0,
     recoveryWatermark |-> None,
     awaitingFreshRecoveryBaseline |-> FALSE,
     outbox |-> None, emitted |-> {}, required |-> None]

Barrier(c) == c.recoveryWatermark # None

EmitNumberedEvents(c, ids) ==
    [c EXCEPT !.lastSeenEventId = Max(ids),
              !.emitted = @ \cup {<<c.streamId, id>> : id \in ids}]

\* Mutants of DrainPendingEvents: emit what is buffered over a gap, or through
\* the recovery barrier.
DrainOverGap(c) ==
    IF Barrier(c) \/ c.pendingEvents = {}
    THEN c
    ELSE EmitNumberedEvents([c EXCEPT !.pendingEvents = {}], c.pendingEvents)

DrainThroughBarrier(c) ==
    LET next == c.lastSeenEventId + 1
        run == {n \in c.pendingEvents : next <= n /\ next..n \subseteq c.pendingEvents}
    IN  IF run = {}
        THEN c
        ELSE EmitNumberedEvents([c EXCEPT !.pendingEvents = @ \ run], run)

\* drainPendingEvents: the unbroken run that follows the last emitted number,
\* unless the recovery barrier is up.
DrainPendingEvents(c) ==
    LET next == c.lastSeenEventId + 1
        run == {n \in c.pendingEvents : next <= n /\ next..n \subseteq c.pendingEvents}
    IN  IF Barrier(c) \/ run = {}
        THEN c
        ELSE EmitNumberedEvents([c EXCEPT !.pendingEvents = @ \ run], run)

HasPendingGap(c) ==
    c.pendingEvents # {} /\ c.lastSeenEventId + 1 \notin c.pendingEvents

\* One bridge/events/replay request; the loop variables of replayMissedEvents
\* travel with it.
RequestPage(c, cursor, target) ==
    [c EXCEPT !.replayInFlight = c.replayGeneration,
              !.outbox = [generation |-> c.replayGeneration,
                          cursor |-> cursor, target |-> target]]

ScheduleReplay(c) ==
    IF c.replayInFlight # None \/ c.socket # "open"
    THEN c
    ELSE RequestPage(c, c.lastSeenEventId, None)

DrainThenFillGap(c) ==
    LET drained == DrainPendingEvents(c)
    IN  IF HasPendingGap(drained) THEN ScheduleReplay(drained) ELSE drained

\* Mutant of ResetDeliveryEpoch: skip to the latest number without a barrier.
ResetWithoutBarrier(c, latest, streamChanged) ==
    [c EXCEPT !.replayGeneration = @ + 1,
              !.pendingEvents = IF streamChanged THEN {}
                                ELSE {n \in @ : n > latest},
              !.lastSeenEventId = latest,
              !.replayInFlight = None,
              !.required = [resumeAfterEventId |-> latest, acknowledge |-> TRUE]]

\* resetDeliveryEpoch: raise the barrier at the bridge's latest number and ask
\* for a snapshot.  A stream change has no such number: the barrier is at 0.
ResetDeliveryEpoch(c, latest, streamChanged) ==
    [c EXCEPT !.replayGeneration = @ + 1,
              !.pendingEvents = IF streamChanged THEN {}
                                ELSE {n \in @ : n > latest},
              !.lastSeenEventId = latest,
              !.recoveryWatermark = latest,
              !.replayInFlight = None,
              !.required = [resumeAfterEventId |-> latest, acknowledge |-> TRUE]]

\* resetRecoveryEpoch: forget the stream, close the socket and start over.  The
\* snapshot it asks for is installed without an acknowledgement.
ResetRecoveryEpoch(c) ==
    [c EXCEPT !.replayGeneration = @ + 1,
              !.replayInFlight = None,
              !.outbox = None,
              !.pendingEvents = {},
              !.recoveryWatermark = 0,
              !.awaitingFreshRecoveryBaseline = TRUE,
              !.lastSeenEventId = 0,
              !.streamId = 0,
              !.socket = "closed",
              !.required = [resumeAfterEventId |-> 0, acknowledge |-> FALSE]]

\* The socket is gone: every pending request is rejected, which ends a running
\* replay without touching the buffered events.
SocketGone(c) ==
    [c EXCEPT !.socket = "closed", !.outbox = None, !.replayInFlight = None]

\* applyStreamIdentity.
StreamChanges(c, s) == c.streamId \notin {0, s}

ApplyStreamIdentity(c, s) ==
    IF s \in UnsupportedStreams
    THEN [SocketGone(c) EXCEPT !.protocolError = TRUE, !.shouldReconnect = FALSE]
    ELSE IF StreamChanges(c, s)
    THEN ResetDeliveryEpoch([c EXCEPT !.streamId = s], 0, TRUE)
    ELSE [c EXCEPT !.streamId = s]

\* deliverNumberedNotification.
DeliverNumbered(c, id, source) ==
    LET buffered == [c EXCEPT !.pendingEvents = @ \cup {id}]
    IN  IF id <= c.lastSeenEventId \/ id \in c.pendingEvents
        THEN c
        ELSE IF c.lastSeenEventId = 0 /\ ~c.awaitingFreshRecoveryBaseline
        THEN EmitNumberedEvents(c, {id})
        ELSE IF Barrier(c) /\ Cardinality(buffered.pendingEvents) > MaxRecoveryBufferedEvents
        THEN ResetRecoveryEpoch(buffered)
        ELSE IF source = "replay"
        THEN DrainPendingEvents(buffered)
        ELSE IF c.replayInFlight # None
        THEN buffered
        ELSE DrainThenFillGap(buffered)

\* handleNotificationRecord for a numbered notification.
HandleEvent(c, s, id, source) ==
    IF s \in UnsupportedStreams
    THEN ApplyStreamIdentity(c, s)
    ELSE DeliverNumbered(ApplyStreamIdentity(c, s), id, source)

\* Mutant of HandleConnectionState: a reconnect asks for nothing.
ConnectionStateNoReplay(c, s) == ApplyStreamIdentity(c, s)

\* handleNotificationRecord for bridge/connection/state: a reconnect to the
\* stream the client already follows asks for what it missed.
HandleConnectionState(c, s) ==
    LET known == ApplyStreamIdentity(c, s)
    IN  IF /\ s \notin UnsupportedStreams
           /\ c.streamId = s
           /\ c.lastSeenEventId > 0 \/ Barrier(c)
        THEN ScheduleReplay(known)
        ELSE known

\* The finally clause of scheduleReplay after a replay that ran to its end.
FinishReplay(c) ==
    IF c.replayInFlight = None
    THEN c
    ELSE DrainThenFillGap([c EXCEPT !.replayInFlight = None])

\* The finally clause after a failed request: the buffer waits for the next
\* live event or reconnect.  A superseded replay has nothing left to clear.
ReplayFails(c, generation) ==
    [c EXCEPT !.replayInFlight = IF @ = generation THEN None ELSE @,
              !.outbox = None]

\* checkReplayPageIntegrity; an earliest number of 0 stands for null.
PageIsUsable(cursor, earliest, latest) ==
    /\ latest >= cursor
    /\ earliest <= cursor + 1
    /\ earliest = 0 => latest <= cursor

ApplyReplayEvents(c, s, ids) ==
    LET after[i \in 0..Len(ids)] ==
            IF i = 0 THEN c ELSE HandleEvent(after[i - 1], s, ids[i], "replay")
    IN  after[Len(ids)]

\* One turn of the loop in replayMissedEvents, from the answer to the request
\* on.  r carries the request's generation, cursor and target.
HandleReplayPage(c, r) ==
    LET identified == ApplyStreamIdentity(c, r.stream)
        applied == ApplyReplayEvents(identified, r.stream, r.ids)
        cursor == applied.lastSeenEventId
        target == IF r.target = None THEN r.latest ELSE r.target
    IN  IF r.generation # c.replayGeneration
        THEN c
        ELSE IF r.stream \in UnsupportedStreams \/ StreamChanges(c, r.stream)
        THEN identified
        ELSE IF ~PageIsUsable(r.cursor, r.earliest, r.latest)
        THEN ResetDeliveryEpoch(identified, r.latest, FALSE)
        ELSE IF cursor >= target
        THEN FinishReplay(applied)
        ELSE IF ~r.hasMore \/ cursor <= r.cursor
        THEN ResetDeliveryEpoch(applied, r.latest, FALSE)
        ELSE IF applied.replayGeneration # r.generation
        THEN applied
        ELSE RequestPage(applied, cursor, target)

\* acknowledgeSnapshotRecovery: lower the barrier it was raised for, no other.
AcknowledgeSnapshotRecovery(c, resumeAfterEventId) ==
    IF c.recoveryWatermark # resumeAfterEventId
    THEN c
    ELSE DrainThenFillGap([c EXCEPT !.recoveryWatermark = None,
                                    !.awaitingFreshRecoveryBaseline = FALSE])

\* connect and disconnect, as the app calls them.
Connect(c) == IF c.protocolError THEN c ELSE [c EXCEPT !.shouldReconnect = TRUE]

Disconnect(c) ==
    [SocketGone(c) EXCEPT !.shouldReconnect = FALSE, !.replayGeneration = @ + 1]

=============================================================================
