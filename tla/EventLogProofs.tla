---------------------------- MODULE EventLogProofs --------------------------
(***************************************************************************)
(* The hub implements the event log, and nothing is on its way to a client *)
(* before it can be replayed: for every number of publishers and clients   *)
(* and any sizes, queues and buffers.                                      *)
(***************************************************************************)
EXTENDS ClientHubProofs

\* Two publishers never hold the same number: each takes its own under the lock.
OneNumberEach ==
    \A p, q \in Publishers : publishing[p] # 0 /\ publishing[p] = publishing[q] => p = q

FrameReplayable(f) ==
    f.stream = stream_id /\ (f.type = "event" => f.event_id \in 1..latest_published_event_id)

\* What every step of the hub preserves, beside HubInv.
LogInv == HubInv /\ NoFrameBeforeReplay /\ OneNumberEach

LEMMA LogInitInv == HubInit => LogInv
  <1>1. HubInit => HubInv
    BY HubInitInv
  <1> QED BY <1>1 DEF HubInit, LogInv, NoFrameBeforeReplay, OneNumberEach

\* What Publish does to the numbers.
LEMMA PublishNumbers ==
    ASSUME LogInv, NEW p \in Publishers, NEW size \in Sizes, Publish(p, size)
    PROVE  /\ latest_published_event_id \in Nat
           /\ latest_published_event_id' = latest_published_event_id + 1
           /\ publishing' = [publishing EXCEPT ![p] = latest_published_event_id + 1]
           /\ publishing \in [Publishers -> 0..latest_published_event_id]
           /\ publishing[p] = 0
  <1>1. next_event_id = latest_published_event_id + 1 /\ latest_published_event_id \in Nat
    BY DEF LogInv, HubInv, HubTypeOK, BufferIsNewestRun
  <1>2. publishing \in [Publishers -> 0..latest_published_event_id]
    BY DEF LogInv, HubInv, HubTypeOK, NoFrameBeforeReplay
  <1> QED BY <1>1, <1>2 DEF Publish

LEMMA PublishLogInv ==
    ASSUME LogInv, NEW p \in Publishers, NEW size \in Sizes, Publish(p, size)
    PROVE  NoFrameBeforeReplay' /\ OneNumberEach'
  <1>1. UNCHANGED <<stream_id, queue>>
    BY DEF Publish, clientVars
  <1>2. NoFrameBeforeReplay'
    <2>1. \A q \in Publishers : publishing'[q] <= latest_published_event_id'
      BY PublishNumbers
    <2>2. ASSUME NEW c \in Clients, NEW i \in DOMAIN queue[c]
          PROVE  /\ queue[c][i].stream = stream_id
                 /\ queue[c][i].type = "event" =>
                        queue[c][i].event_id \in 1..latest_published_event_id'
      <3>1. /\ queue[c][i].stream = stream_id
            /\ queue[c][i].type = "event" =>
                    queue[c][i].event_id \in 1..latest_published_event_id
        BY DEF LogInv, NoFrameBeforeReplay
      <3>2. \A n \in 1..latest_published_event_id : n \in 1..latest_published_event_id'
        BY PublishNumbers
      <3> QED BY <3>1, <3>2
    <2> QED BY <1>1, <2>1, <2>2 DEF NoFrameBeforeReplay
  <1>3. OneNumberEach'
    BY PublishNumbers DEF OneNumberEach, LogInv
  <1> QED BY <1>2, <1>3

\* A step that puts only replayable frames into the queues and takes no number.
LEMMA QueueStepInv ==
    ASSUME LogInv, UNCHANGED <<stream_id, latest_published_event_id>>,
           \A p \in Publishers : publishing'[p] \in {0, publishing[p]},
           \A c \in Clients : \A i \in DOMAIN queue'[c] : FrameReplayable(queue'[c][i])
    PROVE  NoFrameBeforeReplay' /\ OneNumberEach'
  <1>1. NoFrameBeforeReplay'
    BY DEF LogInv, HubInv, HubTypeOK, NoFrameBeforeReplay, FrameReplayable
  <1>2. OneNumberEach'
    <2> SUFFICES ASSUME NEW p \in Publishers, NEW q \in Publishers,
                        publishing'[p] # 0, publishing'[p] = publishing'[q]
                 PROVE  p = q
      BY DEF OneNumberEach
    <2>1. publishing[p] = publishing'[p] /\ publishing[q] = publishing'[q]
      OBVIOUS
    <2> QED BY <2>1 DEF LogInv, OneNumberEach
  <1> QED BY <1>1, <1>2

\* The frames already queued are replayable; so is what is appended to them.
LEMMA QueuedReplayable ==
    ASSUME LogInv, NEW c \in Clients
    PROVE  /\ queue[c] \in Seq(Frame)
           /\ \A i \in DOMAIN queue[c] : FrameReplayable(queue[c][i])
  BY DEF LogInv, HubInv, HubTypeOK, NoFrameBeforeReplay, FrameReplayable

LEMMA AppendedReplayable ==
    ASSUME NEW s \in Seq(Frame), NEW f \in Frame, FrameReplayable(f),
           \A i \in DOMAIN s : FrameReplayable(s[i])
    PROVE  \A i \in DOMAIN Append(s, f) : FrameReplayable(Append(s, f)[i])
  <1>1. /\ DOMAIN Append(s, f) = 1..Len(s) + 1
        /\ \A i \in 1..Len(s) : i \in DOMAIN s /\ Append(s, f)[i] = s[i]
        /\ Append(s, f)[Len(s) + 1] = f
        /\ Len(s) \in Nat
    BY AppendProperties, LenProperties
  <1>2. ASSUME NEW i \in DOMAIN Append(s, f) PROVE FrameReplayable(Append(s, f)[i])
    <2>1. CASE i \in 1..Len(s)
      BY <1>1, <2>1
    <2>2. CASE i = Len(s) + 1
      BY <1>1, <2>2
    <2> QED BY <1>1, <2>1, <2>2
  <1> QED BY <1>2

LEMMA LogNextInv == LogInv /\ [HubNext]_hubVars => LogInv'
  <1> SUFFICES ASSUME LogInv, [HubNext]_hubVars PROVE LogInv'
    OBVIOUS
  <1> SUFFICES NoFrameBeforeReplay' /\ OneNumberEach'
    BY HubNextInv DEF LogInv
  <1>1. ASSUME NEW p \in Publishers, NEW size \in Sizes, Publish(p, size)
        PROVE  NoFrameBeforeReplay' /\ OneNumberEach'
    BY <1>1, PublishLogInv
  <1>2. ASSUME NEW p \in Publishers, Broadcast(p)
        PROVE  NoFrameBeforeReplay' /\ OneNumberEach'
    <2> DEFINE f == EventFrame(stream_id, publishing[p])
    <2>1. f \in Frame /\ FrameReplayable(f)
      <3>1. stream_id \in Nat /\ publishing[p] \in 1..latest_published_event_id
        BY <1>2 DEF Broadcast, LogInv, HubInv, HubTypeOK, NoFrameBeforeReplay
      <3> QED BY <3>1 DEF EventFrame, FrameReplayable, Frame
    <2> HIDE DEF f
    <2>2. ASSUME NEW c \in Clients PROVE \A i \in DOMAIN queue'[c] : FrameReplayable(queue'[c][i])
      <3>1. queue'[c] = queue[c] \/ queue'[c] = Append(queue[c], f)
        BY <1>2 DEF Broadcast, f
      <3> QED BY <2>1, <3>1, QueuedReplayable, AppendedReplayable
    <2>3. \A q \in Publishers : publishing'[q] \in {0, publishing[q]}
      BY <1>2 DEF Broadcast, LogInv, HubInv, HubTypeOK
    <2>4. UNCHANGED <<stream_id, latest_published_event_id>>
      BY <1>2 DEF Broadcast, streamVars
    <2> QED BY <2>2, <2>3, <2>4, QueueStepInv
  <1>3. ASSUME NEW c \in Clients, SendJson(c, StateFrame(stream_id))
        PROVE  NoFrameBeforeReplay' /\ OneNumberEach'
    <2> DEFINE f == StateFrame(stream_id)
    <2>1. f \in Frame /\ FrameReplayable(f)
      BY DEF StateFrame, FrameReplayable, Frame, LogInv, HubInv, HubTypeOK
    <2> HIDE DEF f
    <2>2. ASSUME NEW d \in Clients PROVE \A i \in DOMAIN queue'[d] : FrameReplayable(queue'[d][i])
      <3>1. queue'[d] = queue[d] \/ queue'[d] = Append(queue[d], f)
        BY <1>3 DEF SendJson, f, LogInv, HubInv, HubTypeOK
      <3> QED BY <2>1, <3>1, QueuedReplayable, AppendedReplayable
    <2>3. UNCHANGED <<stream_id, latest_published_event_id, publishing>>
      BY <1>3 DEF SendJson, streamVars
    <2> QED BY <2>2, <2>3, QueueStepInv
  <1>4. ASSUME NEW c \in Clients,
               AddClient(c) \/ SendJsonTimesOut(c) \/ SocketCloses(c) \/ RemoveClient(c)
        PROVE  NoFrameBeforeReplay' /\ OneNumberEach'
    <2>1. UNCHANGED <<stream_id, latest_published_event_id, publishing>>
      BY <1>4 DEF AddClient, SendJsonTimesOut, SocketCloses, RemoveClient, streamVars
    <2>2. ASSUME NEW d \in Clients PROVE queue'[d] \in {queue[d], <<>>}
      BY <1>4 DEF AddClient, SendJsonTimesOut, SocketCloses, RemoveClient,
                  LogInv, HubInv, HubTypeOK
    <2>3. ASSUME NEW d \in Clients PROVE \A i \in DOMAIN queue'[d] : FrameReplayable(queue'[d][i])
      BY <2>2, QueuedReplayable
    <2> QED BY <2>1, <2>3, QueueStepInv
  <1>5. ASSUME NEW c \in Clients, Transmit(c)
        PROVE  NoFrameBeforeReplay' /\ OneNumberEach'
    <2>1. UNCHANGED <<stream_id, latest_published_event_id, publishing>>
      BY <1>5 DEF Transmit, streamVars
    <2>2. ASSUME NEW d \in Clients PROVE \A i \in DOMAIN queue'[d] : FrameReplayable(queue'[d][i])
      <3>1. CASE d # c
        BY <1>5, <3>1, QueuedReplayable DEF Transmit, LogInv, HubInv, HubTypeOK
      <3>2. CASE d = c
        <4>1. queue[c] \in Seq(Frame) /\ queue[c] # <<>> /\ queue'[c] = Tail(queue[c])
          BY <1>5 DEF Transmit, LogInv, HubInv, HubTypeOK
        <4>2. \A i \in DOMAIN Tail(queue[c]) :
                i + 1 \in DOMAIN queue[c] /\ Tail(queue[c])[i] = queue[c][i + 1]
          BY <4>1, HeadTailProperties, LenProperties
        <4> QED BY <3>2, <4>1, <4>2, QueuedReplayable
      <3> QED BY <3>1, <3>2
    <2> QED BY <2>1, <2>2, QueueStepInv
  <1>6. ASSUME Restart PROVE NoFrameBeforeReplay' /\ OneNumberEach'
    BY <1>6 DEF Restart, NoFrameBeforeReplay, OneNumberEach
  <1>7. ASSUME UNCHANGED hubVars PROVE NoFrameBeforeReplay' /\ OneNumberEach'
    BY <1>7 DEF hubVars, streamVars, clientVars, LogInv, NoFrameBeforeReplay, OneNumberEach
  <1> QED BY <1>1, <1>2, <1>3, <1>4, <1>5, <1>6, <1>7 DEF HubNext

LEMMA LogInvariance == HubSpec => []LogInv
  BY LogInitInv, LogNextInv, PTL DEF HubSpec

\* Whatever number is on its way to a client, published and not yet broadcast or
\* queued for its socket, can be replayed already (publish stores the event
\* before the lock is dropped), and no frame of an earlier process is left.
THEOREM FramesFollowReplay == HubSpec => []NoFrameBeforeReplay
  <1>1. LogInv => NoFrameBeforeReplay
    BY DEF LogInv
  <1> QED BY <1>1, LogInvariance, PTL

-----------------------------------------------------------------------------
\* The numbers of a buffer without a hole are an interval that ends at the latest one.
LEMMA KeptIsRun ==
    ASSUME NEW es \in Seq(Entry), NEW latest \in Nat,
           \A i \in DOMAIN es : es[i].event_id = latest - Len(es) + i
    PROVE  {es[i].event_id : i \in DOMAIN es} = latest - Len(es) + 1..latest
  <1> DEFINE n == Len(es)
             kept == {es[i].event_id : i \in DOMAIN es}
  <1>1. n \in Nat /\ DOMAIN es = 1..n /\ \A i \in 1..n : es[i].event_id = latest - n + i
    BY LenProperties
  <1> HIDE DEF n
  <1>2. ASSUME NEW k \in kept PROVE k \in latest - n + 1..latest
    BY <1>1
  <1>3. ASSUME NEW k \in latest - n + 1..latest PROVE k \in kept
    <2> DEFINE i == k - latest + n
    <2>1. i \in 1..n /\ latest - n + i = k
      BY <1>1
    <2>2. es[i].event_id = k
      BY <1>1, <2>1
    <2> QED BY <1>1, <2>1, <2>2
  <1> QED BY <1>2, <1>3 DEF n

\* What is on the wire only shrinks when frames leave a queue, and a frame
\* without a number adds nothing to it.
LEMMA OnWireAppend ==
    ASSUME NEW s \in Seq(Frame), NEW f \in Frame
    PROVE  OnWire(Append(s, f)) =
             IF f.type = "event" THEN OnWire(s) \cup {<<f.stream, f.event_id>>} ELSE OnWire(s)
  <1> DEFINE t == Append(s, f)
  <1>1. /\ DOMAIN t = 1..Len(s) + 1 /\ DOMAIN s = 1..Len(s) /\ Len(s) \in Nat
        /\ \A i \in 1..Len(s) : t[i] = s[i]
        /\ t[Len(s) + 1] = f
    BY AppendProperties, LenProperties
  <1>2. EventsIn(t) = EventsIn(s) \cup (IF f.type = "event" THEN {Len(s) + 1} ELSE {})
    BY <1>1 DEF EventsIn
  <1>3. \A i \in EventsIn(s) : t[i] = s[i]
    BY <1>1 DEF EventsIn
  <1> HIDE DEF t
  <1> QED BY <1>1, <1>2, <1>3 DEF OnWire, t

LEMMA OnWireTail ==
    ASSUME NEW s \in Seq(Frame), s # <<>>
    PROVE  OnWire(Tail(s)) \subseteq OnWire(s)
  <1>1. \A i \in DOMAIN Tail(s) : i + 1 \in DOMAIN s /\ Tail(s)[i] = s[i + 1]
    BY HeadTailProperties, LenProperties
  <1> QED BY <1>1 DEF OnWire, EventsIn

LEMMA OnWireEmpty == OnWire(<<>>) = {}
  BY DEF OnWire, EventsIn

LEMMA HubInitLog == HubInit => Log!LogInit
  <1> SUFFICES ASSUME HubInit PROVE Log!LogInit
    OBVIOUS
  <1>1. Kept = {}
    BY DEF HubInit, Kept
  <1>2. Unsent = {}
    BY DEF HubInit, Unsent
  <1>3. [c \in Clients |-> OnWire(queue[c])] = [c \in Clients |-> {}]
    BY OnWireEmpty DEF HubInit
  <1> QED BY <1>1, <1>2, <1>3 DEF HubInit, Log!LogInit

LEMMA PublishLog ==
    ASSUME LogInv, NEW p \in Publishers, NEW size \in Sizes, Publish(p, size)
    PROVE  Log!NewEvent
  <1> DEFINE latest == latest_published_event_id
             e == [event_id |-> next_event_id, bytes |-> StoredBytes(size)]
             first == latest' - Len(entries') + 1
  <1>1. /\ latest \in Nat /\ latest' = latest + 1 /\ publishing[p] = 0
        /\ publishing' = [publishing EXCEPT ![p] = latest']
        /\ publishing \in [Publishers -> 0..latest]
    BY PublishNumbers
  <1>2. HubInv /\ HubInv'
    BY PublishInv DEF LogInv
  <1>3. Len(entries') \in 1..Len(entries) + 1 /\ Len(entries) \in Nat
    <2>1. e \in Entry /\ e.bytes <= ReplayMaxBytes
      <3>1. next_event_id \in Nat /\ StoredBytes(size) \in Nat /\ StoredBytes(size) <= ReplayMaxBytes
        BY <1>2, HubAssumptions, ReplayBounds DEF StoredBytes, HubInv, HubTypeOK
      <3> QED BY <3>1 DEF Entry
    <2>2. entries' = Push(entries, e) /\ entries \in Seq(Entry)
      BY <1>2 DEF Publish, HubInv, HubTypeOK
    <2> HIDE DEF e
    <2>3. EvictsFrontOnly(entries, e, entries')
      BY <2>1, <2>2, PushKeepsSuffix
    <2> QED BY <2>2, <2>3, LenProperties DEF EvictsFrontOnly
  <1>4. Kept = latest - Len(entries) + 1..latest
    BY <1>2, KeptIsRun DEF Kept, HubInv, HubTypeOK, BufferIsNewestRun
  <1>5. Kept' = first..latest'
    BY <1>2, KeptIsRun DEF Kept, HubInv, HubTypeOK, BufferIsNewestRun
  <1>6. first \in 1..latest' /\ Kept' \ {latest'} \subseteq Kept
    <2>1. Len(entries') <= latest' /\ latest' \in Nat
      BY <1>2, <1>1 DEF HubInv, BufferIsNewestRun
    <2> QED BY <1>1, <1>3, <1>4, <1>5, <2>1
  <1>7. Unsent' = Unsent \cup {latest'}
    BY <1>1 DEF Unsent
  <1>8. UNCHANGED <<stream_id, queue>>
    BY DEF Publish, clientVars
  <1> HIDE DEF first
  <1> QED BY <1>1, <1>5, <1>6, <1>7, <1>8 DEF Log!NewEvent

LEMMA BroadcastLog ==
    ASSUME LogInv, NEW p \in Publishers, Broadcast(p)
    PROVE  \E n \in Unsent : Log!Send(n)
  <1> DEFINE n == publishing[p]
             f == EventFrame(stream_id, n)
             to == {c \in clients \cap open : HasRoom(c)}
  <1>1. n \in Unsent /\ stream_id \in Nat /\ n \in Nat
    BY DEF Broadcast, Unsent, LogInv, HubInv, HubTypeOK
  <1>2. Unsent' = Unsent \ {n}
    <2>1. /\ publishing' = [publishing EXCEPT ![p] = 0] /\ publishing[p] # 0
          /\ publishing \in [Publishers -> Nat]
      BY DEF Broadcast, LogInv, HubInv, HubTypeOK
    <2>2. \A q \in Publishers : publishing[q] = n => q = p
      BY <2>1 DEF LogInv, OneNumberEach
    <2> QED BY <2>1, <2>2 DEF Unsent
  <1>3. f \in Frame /\ f.type = "event" /\ f.stream = stream_id /\ f.event_id = n
    BY <1>1, FrameTypes DEF EventFrame
  <1>4. to \in SUBSET Clients
    BY DEF LogInv, HubInv, HubTypeOK
  <1>5. ASSUME NEW c \in Clients
        PROVE  OnWire(queue'[c]) =
                 IF c \in to THEN OnWire(queue[c]) \cup {<<stream_id, n>>} ELSE OnWire(queue[c])
    <2>1. queue'[c] = IF c \in to THEN Append(queue[c], f) ELSE queue[c]
      BY DEF Broadcast
    <2>2. queue[c] \in Seq(Frame)
      BY DEF LogInv, HubInv, HubTypeOK
    <2> HIDE DEF to, f, n
    <2> QED BY <1>3, <2>1, <2>2, OnWireAppend
  <1>6. UNCHANGED <<stream_id, latest_published_event_id, entries>>
    BY DEF Broadcast, streamVars
  <1> HIDE DEF n, to
  <1>7. [c \in Clients |-> OnWire(queue[c])]' =
          [c \in Clients |-> IF c \in to
             THEN [d \in Clients |-> OnWire(queue[d])][c] \cup {<<stream_id, n>>}
             ELSE [d \in Clients |-> OnWire(queue[d])][c]]
    BY <1>5
  <1>8. Kept' = Kept
    BY <1>6 DEF Kept
  <1> QED BY <1>1, <1>2, <1>4, <1>6, <1>7, <1>8 DEF Log!Send

\* A step that changes one client's queue, and there only takes numbers away.
LEMMA QueueStepLog ==
    ASSUME LogInv, NEW c \in Clients, UNCHANGED <<streamVars, publishing>>,
           \A d \in Clients : d # c => queue'[d] = queue[d],
           OnWire(queue'[c]) \subseteq OnWire(queue[c])
    PROVE  Log!Leave(c)
  <1> DEFINE wire == [d \in Clients |-> OnWire(queue[d])]
  <1>1. wire' = [wire EXCEPT ![c] = OnWire(queue'[c])]
    OBVIOUS
  <1>2. Kept' = Kept /\ Unsent' = Unsent
    BY DEF Kept, Unsent, streamVars
  <1> QED BY <1>1, <1>2 DEF Log!Leave, streamVars

LEMMA HubStepLog == LogInv /\ [HubNext]_hubVars => [Log!LogNext]_(Log!logVars)
  <1> SUFFICES ASSUME LogInv, [HubNext]_hubVars PROVE [Log!LogNext]_(Log!logVars)
    OBVIOUS
  <1>1. ASSUME NEW p \in Publishers, NEW size \in Sizes, Publish(p, size) PROVE Log!LogNext
    BY <1>1, PublishLog DEF Log!LogNext
  <1>2. ASSUME NEW p \in Publishers, Broadcast(p) PROVE Log!LogNext
    BY <1>2, BroadcastLog DEF Log!LogNext
  <1>3. ASSUME NEW c \in Clients, SendJson(c, StateFrame(stream_id)) PROVE Log!LogNext
    <2>1. /\ UNCHANGED <<streamVars, publishing>> /\ queue[c] \in Seq(Frame)
          /\ \A d \in Clients : d # c => queue'[d] = queue[d]
          /\ queue'[c] = Append(queue[c], StateFrame(stream_id))
      BY <1>3 DEF SendJson, LogInv, HubInv, HubTypeOK
    <2>2. StateFrame(stream_id) \in Frame /\ StateFrame(stream_id).type # "event"
      BY DEF StateFrame, Frame, LogInv, HubInv, HubTypeOK
    <2>3. OnWire(queue'[c]) = OnWire(queue[c])
      BY <2>1, <2>2, OnWireAppend
    <2> QED BY <2>1, <2>3, QueueStepLog DEF Log!LogNext
  <1>4. ASSUME NEW c \in Clients,
               AddClient(c) \/ SendJsonTimesOut(c) \/ SocketCloses(c) \/ RemoveClient(c)
        PROVE  Log!LogNext
    <2>1. /\ UNCHANGED <<streamVars, publishing>>
          /\ \A d \in Clients : d # c => queue'[d] = queue[d]
          /\ queue'[c] \in {queue[c], <<>>}
      BY <1>4 DEF AddClient, SendJsonTimesOut, SocketCloses, RemoveClient,
                  LogInv, HubInv, HubTypeOK
    <2>2. OnWire(queue'[c]) \subseteq OnWire(queue[c])
      BY <2>1, OnWireEmpty
    <2> QED BY <2>1, <2>2, QueueStepLog DEF Log!LogNext
  <1>5. ASSUME NEW c \in Clients, Transmit(c) PROVE Log!LogNext
    <2>1. /\ UNCHANGED <<streamVars, publishing>>
          /\ \A d \in Clients : d # c => queue'[d] = queue[d]
          /\ queue[c] \in Seq(Frame) /\ queue[c] # <<>> /\ queue'[c] = Tail(queue[c])
      BY <1>5 DEF Transmit, LogInv, HubInv, HubTypeOK
    <2> QED BY <2>1, OnWireTail, QueueStepLog DEF Log!LogNext
  <1>6. ASSUME Restart PROVE Log!LogNext
    <2>1. Kept' = {} /\ Unsent' = {}
      BY <1>6 DEF Restart, Kept, Unsent
    <2>2. [c \in Clients |-> OnWire(queue[c])]' = [c \in Clients |-> {}]
      BY <1>6, OnWireEmpty DEF Restart
    <2> QED BY <1>6, <2>1, <2>2 DEF Restart, Log!NewStream, Log!LogNext
  <1>7. ASSUME UNCHANGED hubVars PROVE UNCHANGED Log!logVars
    BY <1>7 DEF hubVars, streamVars, clientVars, Log!logVars, Kept, Unsent
  <1> QED BY <1>1, <1>2, <1>3, <1>4, <1>5, <1>6, <1>7 DEF HubNext

\* The hub implements the event log: within a stream no number is left out, used
\* or sent twice, none is sent before it can be replayed, and a restart leaves
\* nothing of the old stream behind.
THEOREM HubImplementsEventLog == HubSpec => ImplementsEventLog
  BY HubInitLog, HubStepLog, LogInvariance, PTL DEF HubSpec, ImplementsEventLog, Log!LogSpec
=============================================================================
