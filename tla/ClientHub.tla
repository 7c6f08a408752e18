----------------------------- MODULE ClientHub ------------------------------
(***************************************************************************)
(* The bridge's notification hub (services/rust-bridge/src/client_hub.rs): *)
(* numbering of outward notifications, the replay buffer behind them and   *)
(* the bounded queue of every connected websocket client.                  *)
(*                                                                         *)
(* A notification is published in two steps, as in the code.  Publish is   *)
(* everything done under notification_publish_lock: the event takes the    *)
(* next number, is stored for replay and becomes the latest one.  The lock *)
(* is then dropped, and Broadcast hands the frame to the clients; two      *)
(* publishers may therefore broadcast in either order.                     *)
(***************************************************************************)
EXTENDS NotificationReplay

CONSTANTS
    Publishers,             \* tasks that publish notifications concurrently
    Clients,                \* possible websocket clients
    Sizes,                  \* serialized sizes a notification may have
    NotificationMaxBytes,   \* NOTIFICATION_MAX_BYTES
    TruncatedBytes,         \* size of a bridge/notification.truncated frame
    QueueCapacity,          \* WS_CLIENT_QUEUE_CAPACITY
    PageLimits,             \* entry limits a replay request may carry
    ReplayResponseMaxBytes, \* REPLAY_RESPONSE_MAX_BYTES
    MaxEventId,             \* bound: notifications per bridge process
    MaxStream               \* bound: bridge processes (restarts + 1)

ASSUME HubAssumptions ==
    /\ Sizes \subseteq Nat
    /\ NotificationMaxBytes \in Nat
    /\ TruncatedBytes \in Nat
    /\ NotificationMaxBytes <= ReplayMaxBytes   \* 256 KiB against 16 MiB
    /\ TruncatedBytes <= ReplayMaxBytes
    /\ QueueCapacity \in Nat \ {0}
    /\ PageLimits \subseteq Nat \ {0}            \* clamped to at least 1
    /\ ReplayResponseMaxBytes \in Nat
    /\ MaxEventId \in Nat
    /\ MaxStream \in Nat \ {0}

VARIABLES
    stream_id,                  \* fresh per bridge process; 1, 2, ...
    next_event_id,
    latest_published_event_id,
    entries,                    \* notification_replay
    publishing,                 \* publisher -> number still to broadcast, or 0
    clients,                    \* ids present in the hub's client map
    open,                       \* clients whose queue still has its receiver
    queue                       \* client -> frames queued for its socket

streamVars == <<stream_id, next_event_id, latest_published_event_id, entries>>
clientVars == <<clients, open, queue>>
hubVars == <<streamVars, publishing, clientVars>>

EventFrame(s, id) == [type |-> "event", stream |-> s, event_id |-> id]
StateFrame(s) == [type |-> "state", stream |-> s]

HubInit ==
    /\ stream_id = 1
    /\ next_event_id = 1
    /\ latest_published_event_id = 0
    /\ entries = <<>>
    /\ publishing = [p \in Publishers |-> 0]
    /\ clients = {}
    /\ open = {}
    /\ queue = [c \in Clients |-> <<>>]

\* Mutant of StoredBytes: the oversized payload itself goes to the buffer.
StoredBytesUnchecked(size) == size

\* A notification too large to send is replaced by a small marker that keeps
\* its number.
StoredBytes(size) == IF size > NotificationMaxBytes THEN TruncatedBytes ELSE size

Publish(p, size) ==
    /\ publishing[p] = 0
    /\ next_event_id <= MaxEventId
    /\ next_event_id' = next_event_id + 1
    /\ entries' = Push(entries, [event_id |-> next_event_id,
                                 bytes |-> StoredBytes(size)])
    /\ latest_published_event_id' = next_event_id
    /\ publishing' = [publishing EXCEPT ![p] = next_event_id]
    /\ UNCHANGED <<stream_id, clientVars>>

HasRoom(c) == Len(queue[c]) < QueueCapacity

\* Mutant of Broadcast: the frame carries the latest number instead of its own.
BroadcastLatest(p) ==
    /\ publishing[p] # 0
    /\ queue' = [c \in Clients |->
                    IF c \in clients \cap open /\ HasRoom(c)
                    THEN Append(queue[c], EventFrame(stream_id, latest_published_event_id))
                    ELSE queue[c]]
    /\ clients' = clients \cap open
    /\ publishing' = [publishing EXCEPT ![p] = 0]
    /\ UNCHANGED <<streamVars, open>>

\* broadcast_message: try_send to every client.  A full queue loses the frame
\* and keeps the client; a closed one removes the client.
Broadcast(p) ==
    /\ publishing[p] # 0
    /\ queue' = [c \in Clients |->
                    IF c \in clients \cap open /\ HasRoom(c)
                    THEN Append(queue[c], EventFrame(stream_id, publishing[p]))
                    ELSE queue[c]]
    /\ clients' = clients \cap open
    /\ publishing' = [publishing EXCEPT ![p] = 0]
    /\ UNCHANGED <<streamVars, open>>

\* add_client_with_metadata, at the start of handle_socket.
AddClient(c) ==
    /\ c \notin clients
    /\ c \notin open
    /\ clients' = clients \cup {c}
    /\ open' = open \cup {c}
    /\ queue' = [queue EXCEPT ![c] = <<>>]
    /\ UNCHANGED <<streamVars, publishing>>

\* send_json: a frame addressed to one client.  With the queue full the sender
\* waits up to 250 ms for room (the action simply happens later) ...
SendJson(c, frame) ==
    /\ c \in clients \cap open
    /\ HasRoom(c)
    /\ queue' = [queue EXCEPT ![c] = Append(@, frame)]
    /\ UNCHANGED <<streamVars, publishing, clients, open>>

\* ... and then gives the client up: with its sender gone the writer task ends
\* and handle_socket closes the socket.
SendJsonTimesOut(c) ==
    /\ c \in clients \cap open
    /\ ~HasRoom(c)
    /\ clients' = clients \ {c}
    /\ UNCHANGED <<streamVars, publishing, open, queue>>

\* The writer task moves one frame to the socket.
Transmit(c) ==
    /\ c \in open
    /\ queue[c] # <<>>
    /\ queue' = [queue EXCEPT ![c] = Tail(@)]
    /\ UNCHANGED <<streamVars, publishing, clients, open>>

\* The socket fails or the client goes away: the receiver is dropped with
\* whatever was queued.
SocketCloses(c) ==
    /\ c \in open
    /\ open' = open \ {c}
    /\ queue' = [queue EXCEPT ![c] = <<>>]
    /\ UNCHANGED <<streamVars, publishing, clients>>

\* remove_client, at the end of handle_socket.
RemoveClient(c) ==
    /\ c \in clients \ open
    /\ clients' = clients \ {c}
    /\ UNCHANGED <<streamVars, publishing, open, queue>>

\* Mutant of Restart: the new process numbers from 0.
RestartFromZero ==
    /\ stream_id < MaxStream
    /\ stream_id' = stream_id + 1
    /\ next_event_id' = 0
    /\ latest_published_event_id' = 0
    /\ entries' = <<>>
    /\ publishing' = [p \in Publishers |-> 0]
    /\ clients' = {}
    /\ open' = {}
    /\ queue' = [c \in Clients |-> <<>>]

\* The bridge process ends and a new one takes its place: a new stream, an
\* empty buffer, no clients.
Restart ==
    /\ stream_id < MaxStream
    /\ stream_id' = stream_id + 1
    /\ next_event_id' = 1
    /\ latest_published_event_id' = 0
    /\ entries' = <<>>
    /\ publishing' = [p \in Publishers |-> 0]
    /\ clients' = {}
    /\ open' = {}
    /\ queue' = [c \in Clients |-> <<>>]

\* replay_snapshot: the page, the earliest stored number and the latest
\* published one, read together under the publish lock.
ReplaySnapshot(after, limit) ==
    LET page == Since(entries, after, limit, ReplayResponseMaxBytes)
    IN  [events |-> page.events,
         has_more |-> page.has_more,
         earliest_event_id |-> EarliestEventId(entries),
         latest_event_id |-> latest_published_event_id]

HubNext ==
    \/ \E p \in Publishers : Broadcast(p) \/ \E size \in Sizes : Publish(p, size)
    \/ \E c \in Clients :
        \/ AddClient(c)
        \/ SendJson(c, StateFrame(stream_id))
        \/ SendJsonTimesOut(c)
        \/ Transmit(c)
        \/ SocketCloses(c)
        \/ RemoveClient(c)
    \/ Restart

HubSpec == HubInit /\ [][HubNext]_hubVars

-----------------------------------------------------------------------------
Frame == [type : {"event"}, stream : Nat, event_id : Nat]
            \cup [type : {"state"}, stream : Nat]

\* Type invariant of the hub.
HubTypeOK ==
    /\ stream_id \in Nat \ {0}
    /\ next_event_id \in Nat \ {0}
    /\ latest_published_event_id \in Nat
    /\ entries \in Seq(Entry)
    /\ publishing \in [Publishers -> Nat]
    /\ clients \subseteq Clients
    /\ open \subseteq Clients
    /\ queue \in [Clients -> Seq(Frame)]

\* The replay buffer (replay.rs, push) holds exactly the newest published
\* numbers, without a hole, up to and including the latest one.  A client that
\* asks for everything past a cursor relies on this to tell a truncated history
\* from a complete one.
BufferIsNewestRun ==
    /\ latest_published_event_id = next_event_id - 1
    /\ Len(entries) <= latest_published_event_id
    /\ latest_published_event_id > 0 => entries # <<>>
    /\ \A i \in DOMAIN entries :
        entries[i].event_id = latest_published_event_id - Len(entries) + i

\* The page replay_snapshot answers for a cursor that the buffer still reaches
\* back to is the unbroken run of numbers that follows the cursor, and when
\* has_more is false the run ends at the latest number: nothing that was
\* published is skipped, whatever the entry limit and the byte budget cut off.
PageIsExact(after, limit) ==
    LET page == ReplaySnapshot(after, limit)
    IN  page.earliest_event_id <= after + 1 =>
            /\ \A i \in DOMAIN page.events : page.events[i].event_id = after + i
            /\ ~page.has_more =>
                    after + Len(page.events) = page.latest_event_id

EveryPageIsExact ==
    \A after \in 0..latest_published_event_id, limit \in PageLimits :
        PageIsExact(after, limit)

\* A push with eviction (NotificationReplay::push) leaves exactly what the
\* pop-front loop of the source leaves, for payloads of every size up to the byte
\* budget and for the first one beyond it, which is never stored, and what it
\* leaves is within both limits; a page (NotificationReplay::since) is what the
\* source's scan collects, for every cursor, entry limit and byte budget, a budget
\* of zero included.
FormsFollowLoops ==
    /\ Fits(entries)
    /\ \A size \in 0..ReplayMaxBytes + 1 :
        LET e == [event_id |-> next_event_id, bytes |-> size]
        IN  Push(entries, e) = PushLoop(entries, e)
    /\ \A after \in 0..latest_published_event_id, limit \in PageLimits,
          budget \in 0..ReplayMaxBytes :
        Since(entries, after, limit, budget) = SinceLoop(entries, after, limit, budget)

\* A number on its way to a client (published but not yet broadcast, or queued)
\* was made available to replay before: a client that notices a gap because of
\* it can always ask for the missing part.
NoFrameBeforeReplay ==
    /\ \A p \in Publishers : publishing[p] <= latest_published_event_id
    /\ \A c \in Clients : \A i \in DOMAIN queue[c] :
        LET f == queue[c][i]
        IN  /\ f.stream = stream_id
            /\ f.type = "event" => f.event_id \in 1..latest_published_event_id

-----------------------------------------------------------------------------
(* The hub implements EventLog. *)

Kept == {entries[i].event_id : i \in DOMAIN entries}
Unsent == {publishing[p] : p \in Publishers} \ {0}
EventsIn(frames) == {i \in DOMAIN frames : frames[i].type = "event"}
OnWire(frames) == {<<frames[i].stream, frames[i].event_id>> : i \in EventsIn(frames)}

Log == INSTANCE EventLog WITH
    Readers <- Clients, stream <- stream_id, latest <- latest_published_event_id,
    kept <- Kept, unsent <- Unsent, wire <- [c \in Clients |-> OnWire(queue[c])]

\* Whatever publishers, full and closed queues and restarts do, the hub behaves
\* like one numbered log: no number is used twice or left out within a stream,
\* none is sent twice or before it can be replayed, and no frame of an old
\* stream survives a restart (publish, broadcast_message, add_client and
\* send_json of client_hub.rs).
ImplementsEventLog == Log!LogSpec
=============================================================================
