------------------------- MODULE EventDeliveryProofs ------------------------
(***************************************************************************)
(* Proofs about event delivery end to end, for any number of publishers,   *)
(* any buffers, queues and limits, any faults and restarts of the bridge.  *)
(*                                                                         *)
(* ClientGood says of a client record, also in the middle of a handler,    *)
(* where it stands in its stream and what the app has been told.  One      *)
(* lemma per operator of WsClient shows that it keeps ClientGood; ChannelInv*)
(* is about the frames between the bridge and the phone, RecoveryInv about *)
(* the snapshot the app is fetching.                                       *)
(***************************************************************************)
EXTENDS EventDelivery, ClientHubProofs

-----------------------------------------------------------------------------
(* What is shown to hold. *)

EventIds == 1..MaxEventId

ClientFields ==
    {"socket", "shouldReconnect", "protocolError", "streamId", "lastSeenEventId",
     "pendingEvents", "replayInFlight", "replayGeneration", "recoveryWatermark",
     "awaitingFreshRecoveryBaseline", "outbox", "emitted", "required"}

Requests == [generation : Nat, cursor : Nat, target : Nat \cup {None}]

ClientShape(c) ==
    /\ DOMAIN c = ClientFields
    /\ c.socket \in {"open", "closed"}
    /\ c.streamId \in Nat /\ c.streamId <= stream_id
    /\ c.lastSeenEventId \in Nat
    /\ c.pendingEvents \subseteq EventIds
    /\ c.replayGeneration \in Nat
    /\ c.recoveryWatermark \in Nat \cup {None}
    /\ c.awaitingFreshRecoveryBaseline \in BOOLEAN
    /\ c.outbox \in Requests \cup {None}
    /\ c.emitted \subseteq Nat \X EventIds
    /\ c.required \in SnapshotRequests \cup {None}

\* Everything the app has been told, and whether the snapshot last asked for is
\* going to be acknowledged.
Told(c) == delivered \cup c.emitted
Acknowledges(c) == IF c.required = None THEN recovery.acknowledge ELSE c.required.acknowledge

\* Nothing was told of streams the client has not come to.
ToldOfPast(c) ==
    \A p \in Told(c) :
        p[1] # 0 /\ p[1] <= stream_id /\ (c.streamId # 0 => p[1] <= c.streamId)

\* The client's numbers are numbers of its stream.  A position without a stream
\* is the watermark of a barrier.
Positioned(c) ==
    /\ c.streamId = 0 =>
        /\ c.pendingEvents = {}
        /\ c.lastSeenEventId > 0 \/ Barrier(c) => c.recoveryWatermark = c.lastSeenEventId
    /\ c.streamId \in {0, stream_id} =>
        /\ c.lastSeenEventId <= latest_published_event_id
        /\ \A n \in c.pendingEvents : n <= latest_published_event_id
        /\ Barrier(c) => c.recoveryWatermark <= latest_published_event_id

\* So are those of the page it asks for.
Asked(c) ==
    c.outbox # None =>
        /\ c.outbox.cursor <= latest_published_event_id
        /\ c.outbox.target # None => c.outbox.target <= latest_published_event_id

\* A client without a position that may take the next event as its baseline, or
\* may once its snapshot is acknowledged, has told nothing of its stream.
FreshBaseline(c) ==
    c.lastSeenEventId = 0 /\ (c.awaitingFreshRecoveryBaseline => Acknowledges(c)) =>
        \A p \in Told(c) : c.streamId # 0 /\ p[1] # c.streamId

\* From any event the app was told of up to the client's position nothing is
\* missing but what the snapshot behind the barrier will bring.
Whole(c, cov) ==
    \A p \in Told(c) : \A id \in p[2]..c.lastSeenEventId :
        p[1] = c.streamId =>
            \/ <<c.streamId, id>> \in Told(c)
            \/ id <= cov[c.streamId]
            \/ Barrier(c) /\ id <= c.recoveryWatermark

\* What a client has that no position was taken from.
Placed(c, cov) == Positioned(c) /\ Asked(c) /\ FreshBaseline(c) /\ Whole(c, cov)

ClientGood(c, cov) == ClientShape(c) /\ ToldOfPast(c) /\ (orphaned \/ Placed(c, cov))

ReplayFrames ==
    [type : {"replay"}, stream : Nat, generation : Nat, cursor : Nat, target : Nat \cup {None},
     ids : Seq(EventIds), hasMore : BOOLEAN, earliest : Nat, latest : Nat]
SnapshotFrames == [type : {"snapshot"}, stream : Nat, generation : Nat]
PhoneFrames == Frame \cup ReplayFrames \cup SnapshotFrames

\* A replay page read from stream s when its latest number was at most n.
PageOf(r, s, n, lost) ==
    /\ r \in ReplayFrames
    /\ r.stream = s
    /\ r.latest <= n
    /\ r.latest = 0 => r.earliest = 0
    /\ \A i \in 1..Len(r.ids) : r.ids[i] <= n
    /\ lost \/ (/\ r.cursor <= r.latest
                /\ r.target # None => r.target <= r.latest)

FrameOf(f, s, n, lost) ==
    /\ f \in PhoneFrames
    /\ f.stream = s
    /\ f.type = "event" => f.event_id \in 1..n
    /\ f.type = "replay" => PageOf(f, s, n, lost)

\* The state of a connection is announced (told) before any snapshot is sent.
QueueOf(q, told, s, n, lost) ==
    /\ q \in Seq(PhoneFrames)
    /\ \A i \in 1..Len(q) : FrameOf(q[i], s, n, lost)
    /\ told \/ \A i \in 1..Len(q) : q[i].type \notin {"state", "snapshot"}
    /\ \A i, j \in 1..Len(q) : i < j /\ q[i].type = "snapshot" => q[j].type # "state"

Coming(q) == \E i \in 1..Len(q) : q[i].type = "state"

\* The client follows the bridge's stream once it has seen the announcement.
ChannelInv ==
    /\ QueueOf(queue[phone], announced, stream_id, latest_published_event_id, orphaned)
    /\ announced => phone \in open /\ (cl.streamId = stream_id \/ Coming(queue[phone]))
    /\ reply = None \/ PageOf(reply, stream_id, latest_published_event_id, orphaned)

RecoveryFields ==
    {"phase", "generation", "resumeAfterEventId", "acknowledge", "epochResetPending",
     "stream", "upTo"}

RecoveryShape(r) ==
    /\ DOMAIN r = RecoveryFields
    /\ r.acknowledge \in BOOLEAN
    /\ r.upTo \in Nat /\ r.generation \in Nat /\ r.resumeAfterEventId \in Nat

\* What is being fetched is of the present stream and reaches the watermark.
Fetched(r, c, told, s, lost) ==
    r.phase \in {"reading", "answered"} =>
        /\ told
        /\ r.stream = s
        /\ c.streamId \in {0, s} /\ Barrier(c) => lost \/ c.recoveryWatermark <= r.upTo

RecoveryInv ==
    RecoveryShape(recovery) /\ Fetched(recovery, cl, announced, stream_id, orphaned)

BridgeInv ==
    /\ StreamInv
    /\ stream_id \in Streams /\ latest_published_event_id <= MaxEventId
    /\ publishing \in [Publishers -> Nat]
    /\ \A p \in Publishers : publishing[p] <= latest_published_event_id
    /\ DOMAIN queue = Clients

HistoryInv ==
    /\ delivered \subseteq Nat \X EventIds
    /\ covered \in [Streams -> Int]
    /\ cl.emitted = {} /\ cl.required = None

DeliveryInv ==
    /\ BridgeInv /\ HistoryInv /\ ChannelInv /\ RecoveryInv
    /\ announced \in BOOLEAN /\ orphaned \in BOOLEAN
    /\ ClientGood(cl, covered)
-----------------------------------------------------------------------------
(* Numbers, and the loop over the events of a page. *)

LEMMA MaxOfBounded ==
    ASSUME NEW n \in Nat, NEW S, S \subseteq 0..n, S # {}
    PROVE  Max(S) \in S /\ \A y \in S : y <= Max(S)
<1> DEFINE T == {k \in Nat : n - k \in S}
<1>1. T \subseteq Nat /\ T # {}
  <2>1. PICK x \in S : TRUE
    OBVIOUS
  <2>2. n - x \in Nat /\ n - (n - x) = x
    BY <2>1
  <2> QED BY <2>1, <2>2
<1>2. PICK m \in T : \A k \in T : m <= k
  <2> HIDE DEF T
  <2> QED BY <1>1, LeastNumber
<1>3. ASSUME NEW y \in S PROVE n - m >= y
  <2>1. n - y \in Nat /\ n - (n - y) = y /\ m \in Nat
    BY <1>2
  <2>2. n - y \in T
    BY <2>1
  <2>3. m <= n - y
    BY <1>2, <2>2
  <2> QED BY <2>1, <2>3
<1>4. n - m \in S
  BY <1>2
<1>5. \E x \in S : \A y \in S : x >= y
  BY <1>3, <1>4
<1>6. Max(S) \in S /\ \A y \in S : Max(S) >= y
  BY <1>5 DEF Max
<1> QED BY <1>6

\* The clients after each event of a page exist: a recursive function is one
\* that satisfies its equation.
IsReplayRun(f, c, s, ids, n) ==
    f = [i \in 0..n |-> IF i = 0 THEN c ELSE HandleEvent(f[i - 1], s, ids[i], "replay")]

LEMMA ReplayRun ==
    ASSUME NEW c, NEW s, NEW ids, NEW n \in Nat
    PROVE  \E f : IsReplayRun(f, c, s, ids, n)
<1> USE DEF IsReplayRun
<1> DEFINE Run(f, m) == IsReplayRun(f, c, s, ids, m)
           T == {m \in Nat : ~\E f : Run(f, m)}
<1>1. CASE T = {}
  BY <1>1
<1>2. CASE T # {}
  <2>1. PICK m \in T : \A k \in T : m <= k
    <3>1. T \subseteq Nat
      OBVIOUS
    <3> HIDE DEF T
    <3> QED BY <1>2, <3>1, LeastNumber
  <2>2. m # 0
    <3> DEFINE g == [i \in 0..0 |-> c]
    <3>1. g = [i \in 0..0 |-> IF i = 0 THEN c ELSE HandleEvent(g[i - 1], s, ids[i], "replay")]
      OBVIOUS
    <3>2. Run(g, 0)
      BY <3>1
    <3> HIDE DEF Run, g
    <3> QED BY <2>1, <3>2
  <2>3. PICK f : Run(f, m - 1)
    <3>1. m - 1 \in Nat /\ ~(m <= m - 1)
      BY <2>1, <2>2
    <3> HIDE DEF Run
    <3> QED BY <2>1, <3>1
  <2> DEFINE g == [i \in 0..m |-> IF i = 0 THEN c ELSE HandleEvent(f[i - 1], s, ids[i], "replay")]
  <2>4. \A i \in 0..(m - 1) : g[i] = f[i]
    <3>1. \A i \in 0..(m - 1) : i \in 0..m
      BY <2>1
    <3> QED BY <2>3, <3>1
  <2>5. \A i \in 0..m : i # 0 => i - 1 \in 0..(m - 1)
    BY <2>1
  <2>6. Run(g, m)
    <3>1. \A i \in 0..m : i # 0 => g[i - 1] = f[i - 1]
      BY <2>4, <2>5
    <3> DEFINE h == [i \in 0..m |-> IF i = 0 THEN c ELSE HandleEvent(g[i - 1], s, ids[i], "replay")]
    <3>2. ASSUME NEW i \in 0..m PROVE g[i] = h[i]
      <4>1. CASE i = 0
        BY <4>1
      <4>2. CASE i # 0
        <5>1. g[i - 1] = f[i - 1]
          BY <3>1, <4>2
        <5>2. h[i] = HandleEvent(g[i - 1], s, ids[i], "replay")
          BY <4>2
        <5>3. g[i] = HandleEvent(f[i - 1], s, ids[i], "replay")
          BY <4>2
        <5> HIDE DEF g, h
        <5> QED BY <5>1, <5>2, <5>3
      <4> QED BY <4>1, <4>2
    <3>3. g = h
      BY <3>2
    <3> QED BY <3>3
  <2> QED BY <2>1, <2>6
<1> QED BY <1>1, <1>2

-----------------------------------------------------------------------------
(* The operators of the client. *)

USE DeliveryAssumptions

\* What the handlers of the client find.
Setting(cov) ==
    /\ stream_id \in Streams
    /\ latest_published_event_id \in Nat /\ latest_published_event_id <= MaxEventId
    /\ delivered \subseteq Nat \X EventIds
    /\ cov \in [Streams -> Int]
    /\ recovery.acknowledge \in BOOLEAN

\* Behind the barrier with a position, or waiting for one: nothing is emitted.
Silent(c) ==
    /\ Barrier(c)
    /\ c.lastSeenEventId > 0 \/ c.awaitingFreshRecoveryBaseline
    /\ c.streamId \in {0, stream_id}

Follower(c) == c.streamId = stream_id /\ c.lastSeenEventId > 0

\* What handling a frame may do: a new watermark comes with a request for a
\* snapshot, the barrier stays up, and only the bridge's stream is emitted, from
\* the position on.
Moves(c, d) ==
    /\ d.required = None =>
        /\ c.required = None /\ d.recoveryWatermark = c.recoveryWatermark
        /\ d.streamId = c.streamId \/ c.streamId = 0
    /\ Barrier(c) => Barrier(d)
    /\ c.emitted \subseteq d.emitted
    /\ \A p \in d.emitted \ c.emitted : p[1] = stream_id
    /\ Silent(c) => d.emitted = c.emitted
    /\ Follower(c) => \A p \in d.emitted \ c.emitted :
        /\ c.lastSeenEventId < p[2]
        /\ \A k \in c.lastSeenEventId + 1 .. p[2] : <<stream_id, k>> \in d.emitted

\* What has to be true for another step of the same handler to be a move, too.
Continues(c, d) ==
    /\ Silent(c) => Silent(d)
    /\ Follower(c) => \/ Silent(d)
                      \/ /\ d.streamId = stream_id
                         /\ c.lastSeenEventId <= d.lastSeenEventId
                         /\ \A k \in c.lastSeenEventId + 1 .. d.lastSeenEventId :
                                <<stream_id, k>> \in d.emitted

Carries(c, d) == Moves(c, d) /\ Continues(c, d)

LEMMA MovesOn ==
    ASSUME NEW c, NEW d, NEW e, ClientShape(c), ClientShape(d), ClientShape(e),
           Carries(c, d), Moves(d, e)
    PROVE  Moves(c, e)
<1>1. /\ e.required = None =>
            /\ c.required = None /\ e.recoveryWatermark = c.recoveryWatermark
            /\ e.streamId = c.streamId \/ c.streamId = 0
      /\ Barrier(c) => Barrier(e)
      /\ c.emitted \subseteq e.emitted /\ d.emitted \subseteq e.emitted
      /\ \A p \in e.emitted \ c.emitted : p[1] = stream_id
      /\ Silent(c) => e.emitted = c.emitted
  BY DEF Carries, Moves, Continues
<1>2. ASSUME Follower(c), NEW p \in e.emitted \ c.emitted
      PROVE  /\ c.lastSeenEventId < p[2]
             /\ \A k \in c.lastSeenEventId + 1 .. p[2] : <<stream_id, k>> \in e.emitted
  <2>1. CASE p \in d.emitted
    BY <1>1, <1>2, <2>1 DEF Carries, Moves
  <2>2. CASE p \notin d.emitted
    <3>1. ~Silent(d)
      BY <1>2, <2>2 DEF Moves
    <3>2. /\ d.streamId = stream_id /\ c.lastSeenEventId <= d.lastSeenEventId
          /\ \A k \in c.lastSeenEventId + 1 .. d.lastSeenEventId : <<stream_id, k>> \in d.emitted
      BY <1>2, <3>1 DEF Carries, Continues
    <3>3. c.lastSeenEventId \in Nat /\ d.lastSeenEventId \in Nat /\ p[2] \in Nat
      BY <1>2 DEF ClientShape, EventIds
    <3>4. Follower(d)
      BY <1>2, <3>2, <3>3 DEF Follower
    <3>5. /\ d.lastSeenEventId < p[2]
          /\ \A k \in d.lastSeenEventId + 1 .. p[2] : <<stream_id, k>> \in e.emitted
      BY <1>2, <2>2, <3>4 DEF Moves
    <3>6. ASSUME NEW k \in c.lastSeenEventId + 1 .. p[2] PROVE <<stream_id, k>> \in e.emitted
      <4>1. k \in c.lastSeenEventId + 1 .. d.lastSeenEventId \/ k \in d.lastSeenEventId + 1 .. p[2]
        BY <3>3
      <4> QED BY <1>1, <3>2, <3>5, <4>1
    <3>7. c.lastSeenEventId < p[2]
      BY <3>2, <3>3, <3>5
    <3> QED BY <3>6, <3>7
  <2> QED BY <2>1, <2>2
<1> QED BY <1>1, <1>2 DEF Moves

LEMMA CarriesOn ==
    ASSUME NEW c, NEW d, NEW e, ClientShape(c), ClientShape(d), ClientShape(e),
           Carries(c, d), Carries(d, e)
    PROVE  Carries(c, e)
<1>1. Moves(c, e)
  BY MovesOn DEF Carries
<1>2. Silent(c) => Silent(e)
  BY DEF Carries, Continues
<1>3. ASSUME Follower(c), ~Silent(e)
      PROVE  /\ e.streamId = stream_id
             /\ c.lastSeenEventId <= e.lastSeenEventId
             /\ \A k \in c.lastSeenEventId + 1 .. e.lastSeenEventId : <<stream_id, k>> \in e.emitted
  <2>1. ~Silent(d)
    BY <1>3 DEF Carries, Continues
  <2>2. /\ d.streamId = stream_id /\ c.lastSeenEventId <= d.lastSeenEventId
        /\ \A k \in c.lastSeenEventId + 1 .. d.lastSeenEventId : <<stream_id, k>> \in d.emitted
    BY <1>3, <2>1 DEF Carries, Continues
  <2>3. c.lastSeenEventId \in Nat /\ d.lastSeenEventId \in Nat /\ e.lastSeenEventId \in Nat
    BY DEF ClientShape
  <2>4. Follower(d)
    BY <1>3, <2>2, <2>3 DEF Follower
  <2>5. /\ e.streamId = stream_id /\ d.lastSeenEventId <= e.lastSeenEventId
        /\ \A k \in d.lastSeenEventId + 1 .. e.lastSeenEventId : <<stream_id, k>> \in e.emitted
    BY <1>3, <2>4 DEF Carries, Continues
  <2>6. d.emitted \subseteq e.emitted
    BY DEF Carries, Moves
  <2>7. ASSUME NEW k \in c.lastSeenEventId + 1 .. e.lastSeenEventId
        PROVE  <<stream_id, k>> \in e.emitted
    <3>1. \/ k \in c.lastSeenEventId + 1 .. d.lastSeenEventId
          \/ k \in d.lastSeenEventId + 1 .. e.lastSeenEventId
      BY <2>3
    <3> QED BY <2>2, <2>5, <2>6, <3>1
  <2>8. c.lastSeenEventId <= e.lastSeenEventId
    BY <2>2, <2>3, <2>5
  <2> QED BY <2>5, <2>7, <2>8
<1> QED BY <1>1, <1>2, <1>3 DEF Carries, Continues

\* The fields that say where the client stands.
SamePosition(c, d) ==
    /\ d.streamId = c.streamId /\ d.lastSeenEventId = c.lastSeenEventId
    /\ d.pendingEvents = c.pendingEvents /\ d.recoveryWatermark = c.recoveryWatermark
    /\ d.awaitingFreshRecoveryBaseline = c.awaitingFreshRecoveryBaseline
    /\ d.emitted = c.emitted /\ d.required = c.required

LEMMA SameCarries ==
    ASSUME NEW c, NEW d, ClientShape(c), SamePosition(c, d) PROVE Carries(c, d)
<1>1. (Barrier(d) <=> Barrier(c)) /\ (Silent(d) <=> Silent(c))
  BY DEF SamePosition, Barrier, Silent
<1>2. c.lastSeenEventId \in Nat /\ c.lastSeenEventId + 1 .. c.lastSeenEventId = {}
  BY DEF ClientShape
<1>3. Moves(c, d)
  BY <1>1 DEF Moves, SamePosition
<1>4. Continues(c, d)
  BY <1>1, <1>2 DEF Continues, SamePosition, Follower
<1> QED BY <1>3, <1>4 DEF Carries

LEMMA SamePositionGood ==
    ASSUME NEW c, NEW d, NEW cov, ClientGood(c, cov), ClientShape(d), SamePosition(c, d),
           orphaned \/ Asked(d)
    PROVE  ClientGood(d, cov) /\ Carries(c, d)
<1>1. Told(d) = Told(c) /\ Acknowledges(d) = Acknowledges(c) /\ (Barrier(d) <=> Barrier(c))
  BY DEF SamePosition, Told, Acknowledges, Barrier
<1>2. orphaned \/ Positioned(d)
  BY <1>1 DEF ClientGood, Placed, SamePosition, Positioned
<1>3. ToldOfPast(d) /\ (orphaned \/ FreshBaseline(d))
  BY <1>1 DEF ClientGood, Placed, SamePosition, ToldOfPast, FreshBaseline
<1>4. orphaned \/ Whole(d, cov)
  BY <1>1 DEF ClientGood, Placed, SamePosition, Whole
<1>5. Carries(c, d)
  BY SameCarries DEF ClientGood
<1> QED BY <1>2, <1>3, <1>4, <1>5 DEF ClientGood, Placed

LEMMA SelfCarries == ASSUME NEW c, ClientShape(c) PROVE Carries(c, c)
<1>1. SamePosition(c, c)
  BY DEF SamePosition
<1> QED BY <1>1, SameCarries

\* Requesting a page, losing the socket and the like leave the position alone.
LEMMA RequestGood ==
    ASSUME NEW c, NEW cov, Setting(cov), ClientGood(c, cov),
           NEW cursor \in Nat, NEW target \in Nat \cup {None},
           orphaned \/ (/\ cursor <= latest_published_event_id
                        /\ target # None => target <= latest_published_event_id)
    PROVE  LET d == RequestPage(c, cursor, target)
           IN  ClientGood(d, cov) /\ Carries(c, d) /\ SamePosition(c, d) /\ d.socket = c.socket
<1> DEFINE d == RequestPage(c, cursor, target)
           r == [generation |-> c.replayGeneration, cursor |-> cursor, target |-> target]
<1>1. /\ DOMAIN d = ClientFields /\ d.outbox = r /\ d.socket = c.socket
      /\ d.replayGeneration = c.replayGeneration /\ SamePosition(c, d)
  BY DEF ClientGood, ClientShape, ClientFields, RequestPage, SamePosition
<1>2. r \in Requests /\ r.cursor = cursor /\ r.target = target
  BY DEF Requests, ClientGood, ClientShape
<1> HIDE DEF d, r
<1>3. ClientShape(d) /\ (orphaned \/ Asked(d))
  BY <1>1, <1>2 DEF ClientGood, ClientShape, SamePosition, Asked
<1>4. ClientGood(d, cov) /\ Carries(c, d)
  BY <1>1, <1>3, SamePositionGood
<1> QED BY <1>1, <1>4 DEF d

LEMMA ScheduleGood ==
    ASSUME NEW c, NEW cov, Setting(cov), ClientGood(c, cov), c.streamId = stream_id
    PROVE  LET d == ScheduleReplay(c)
           IN  ClientGood(d, cov) /\ Carries(c, d) /\ SamePosition(c, d) /\ d.socket = c.socket
<1>1. CASE ScheduleReplay(c) = c
  BY <1>1, SelfCarries DEF SamePosition, ClientGood
<1>2. CASE ScheduleReplay(c) # c
  <2>1. ScheduleReplay(c) = RequestPage(c, c.lastSeenEventId, None)
    BY <1>2 DEF ScheduleReplay
  <2>2. c.lastSeenEventId \in Nat /\ (orphaned \/ c.lastSeenEventId <= latest_published_event_id)
    BY DEF ClientGood, Placed, ClientShape, Positioned
  <2>3. None \in Nat \cup {None}
    OBVIOUS
  <2>4. orphaned \/ (/\ c.lastSeenEventId <= latest_published_event_id
                     /\ None # None => None <= latest_published_event_id)
    BY <2>2
  <2>5. LET d == RequestPage(c, c.lastSeenEventId, None)
        IN  ClientGood(d, cov) /\ Carries(c, d) /\ SamePosition(c, d) /\ d.socket = c.socket
    BY <2>2, <2>3, <2>4, RequestGood
  <2> QED BY <2>1, <2>5
<1> QED BY <1>1, <1>2

LEMMA SocketGoneGood ==
    ASSUME NEW c, NEW cov, Setting(cov), ClientGood(c, cov)
    PROVE  LET d == SocketGone(c)
           IN  ClientGood(d, cov) /\ Carries(c, d) /\ SamePosition(c, d) /\ d.socket = "closed"
               /\ d.outbox = None
<1> DEFINE d == SocketGone(c)
<1>1. /\ DOMAIN d = ClientFields /\ d.outbox = None /\ d.socket = "closed"
      /\ d.replayGeneration = c.replayGeneration /\ SamePosition(c, d)
  BY DEF ClientGood, ClientShape, ClientFields, SocketGone, SamePosition
<1> HIDE DEF d
<1>2. ClientShape(d) /\ Asked(d)
  BY <1>1 DEF ClientGood, ClientShape, SamePosition, Asked
<1> QED BY <1>1, <1>2, SamePositionGood DEF d
\* Raising the barrier, at a number of the bridge's stream.
LEMMA ResetDeliveryGood ==
    ASSUME NEW c, NEW cov, Setting(cov), ClientShape(c), ToldOfPast(c),
           NEW latest \in Nat, latest <= latest_published_event_id,
           NEW streamChanged \in BOOLEAN,
           c.streamId = stream_id \/ (~streamChanged /\ c.streamId = 0),
           orphaned \/ Asked(c),
           orphaned \/ (~streamChanged => latest # 0 /\ Positioned(c)),
           orphaned \/ (latest = 0 => \A p \in Told(c) : p[1] # c.streamId)
    PROVE  LET d == ResetDeliveryEpoch(c, latest, streamChanged)
           IN  /\ ClientGood(d, cov) /\ d.required # None /\ Barrier(d)
               /\ d.emitted = c.emitted /\ d.socket = c.socket /\ d.streamId = c.streamId
<1> DEFINE d == ResetDeliveryEpoch(c, latest, streamChanged)
           r == [resumeAfterEventId |-> latest, acknowledge |-> TRUE]
<1>1. /\ DOMAIN d = ClientFields /\ d.socket = c.socket /\ d.streamId = c.streamId
      /\ d.lastSeenEventId = latest /\ d.recoveryWatermark = latest /\ d.required = r
      /\ d.pendingEvents = (IF streamChanged THEN {} ELSE {n \in c.pendingEvents : n > latest})
      /\ d.awaitingFreshRecoveryBaseline = c.awaitingFreshRecoveryBaseline
      /\ d.emitted = c.emitted /\ d.outbox = c.outbox
      /\ d.replayGeneration = c.replayGeneration + 1
  BY DEF ClientShape, ClientFields, ResetDeliveryEpoch
<1>2. r \in SnapshotRequests /\ r # None /\ r.acknowledge = TRUE /\ latest # None
  <2>1. r \in SnapshotRequests
    BY DEF SnapshotRequests
  <2>2. r.acknowledge = TRUE
    BY Zenon
  <2>3. latest \in Nat
    OBVIOUS
  <2> HIDE DEF r
  <2> QED BY <2>1, <2>2, <2>3, ClientAssumptions
<1> HIDE DEF d, r
<1>3. d.pendingEvents \subseteq c.pendingEvents
  BY <1>1
<1>4. ClientShape(d)
  BY <1>1, <1>2, <1>3 DEF ClientShape
<1>5. Told(d) = Told(c) /\ Barrier(d)
  BY <1>1, <1>2 DEF Told, Barrier
<1>6. stream_id # 0
  BY DEF Setting, Streams
<1>7. ASSUME ~orphaned PROVE Positioned(d)
  <2>1. CASE streamChanged
    BY <1>1, <1>6, <2>1 DEF Positioned
  <2>2. CASE ~streamChanged
    <3>1. \A n \in d.pendingEvents : n <= latest_published_event_id
      BY <1>3, <1>7, <2>2 DEF Positioned
    <3>2. c.streamId = 0 => d.pendingEvents = {}
      BY <1>3, <1>7, <2>2 DEF Positioned
    <3> QED BY <1>1, <3>1, <3>2 DEF Positioned
  <2> QED BY <2>1, <2>2
<1>8. ToldOfPast(d) /\ (orphaned \/ Asked(d))
  BY <1>1, <1>5 DEF ToldOfPast, Asked
<1>9. orphaned \/ FreshBaseline(d)
  BY <1>1, <1>5, <1>6 DEF FreshBaseline
<1>10. Whole(d, cov)
  BY <1>1, <1>5 DEF Whole, Told, Setting
<1> QED BY <1>1, <1>2, <1>4, <1>5, <1>7, <1>8, <1>9, <1>10 DEF ClientGood, Placed, d

\* The client that has started over.
Forgotten(d) ==
    /\ d.streamId = 0 /\ d.socket = "closed" /\ d.lastSeenEventId = 0
    /\ d.replayInFlight = None

LEMMA ResetRecoveryGood ==
    ASSUME NEW c, NEW cov, Setting(cov), ClientShape(c), ToldOfPast(c)
    PROVE  LET d == ResetRecoveryEpoch(c)
           IN  /\ ClientGood(d, cov) /\ d.required # None /\ Silent(d) /\ d.emitted = c.emitted
               /\ Forgotten(d)
<1> DEFINE d == ResetRecoveryEpoch(c)
           r == [resumeAfterEventId |-> 0, acknowledge |-> FALSE]
<1>1. /\ DOMAIN d = ClientFields /\ d.socket = "closed" /\ d.streamId = 0
      /\ d.lastSeenEventId = 0 /\ d.recoveryWatermark = 0 /\ d.required = r
      /\ d.pendingEvents = {} /\ d.awaitingFreshRecoveryBaseline = TRUE
      /\ d.emitted = c.emitted /\ d.outbox = None /\ d.replayInFlight = None
      /\ d.replayGeneration = c.replayGeneration + 1
  BY DEF ClientShape, ClientFields, ResetRecoveryEpoch
<1>2. r \in SnapshotRequests /\ r # None /\ r.acknowledge = FALSE /\ 0 # None
  <2>1. r \in SnapshotRequests
    BY DEF SnapshotRequests
  <2>2. r.acknowledge = FALSE
    BY Zenon
  <2>3. 0 \in Nat
    OBVIOUS
  <2> HIDE DEF r
  <2> QED BY <2>1, <2>2, <2>3, ClientAssumptions
<1> HIDE DEF d, r
<1>3. ClientShape(d)
  <2>1. 0 <= stream_id /\ c.replayGeneration + 1 \in Nat
    BY DEF ClientShape, Setting, Streams
  <2>2. d.recoveryWatermark \in Nat \cup {None}
    BY <1>1
  <2>3. d.awaitingFreshRecoveryBaseline \in BOOLEAN
    BY <1>1, Zenon
  <2> QED BY <1>1, <1>2, <2>1, <2>2, <2>3 DEF ClientShape
<1>4. Told(d) = Told(c) /\ Barrier(d) /\ Acknowledges(d) = FALSE
  BY <1>1, <1>2 DEF Told, Barrier, Acknowledges
<1>5. Positioned(d) /\ Asked(d) /\ ToldOfPast(d) /\ FreshBaseline(d)
  <2>1. 0 <= latest_published_event_id
    BY DEF Setting
  <2>2. Positioned(d)
    BY <1>1, <2>1 DEF Positioned
  <2> QED BY <1>1, <1>4, <2>2 DEF Asked, ToldOfPast, FreshBaseline
<1>6. Whole(d, cov)
  <2>1. \A p \in Told(c) : p[2] \in EventIds
    BY DEF Told, Setting, ClientShape
  <2> QED BY <1>1, <1>4, <2>1 DEF Whole, EventIds
<1>7. Silent(d)
  BY <1>1, <1>4 DEF Silent
<1> QED BY <1>1, <1>2, <1>3, <1>4, <1>5, <1>6, <1>7 DEF ClientGood, Placed, Forgotten, d

Joined(d) == d.socket = "closed" \/ d.streamId = stream_id

LEMMA IdentityGood ==
    ASSUME NEW c, NEW cov, Setting(cov), ClientGood(c, cov)
    PROVE  LET d == ApplyStreamIdentity(c, stream_id)
           IN  /\ ClientGood(d, cov) /\ Carries(c, d) /\ Joined(d)
               /\ stream_id \notin UnsupportedStreams => d.streamId = stream_id /\ d.socket = c.socket
<1> DEFINE s == stream_id
           d == ApplyStreamIdentity(c, s)
<1>0. ClientShape(c)
  BY DEF ClientGood
<1>1. CASE s \in UnsupportedStreams
  <2> DEFINE g == SocketGone(c)
  <2>1. d = [g EXCEPT !.protocolError = TRUE, !.shouldReconnect = FALSE]
    BY <1>1 DEF ApplyStreamIdentity
  <2>2. /\ ClientGood(g, cov) /\ Carries(c, g) /\ SamePosition(c, g) /\ g.socket = "closed"
        /\ g.outbox = None
    BY SocketGoneGood
  <2> HIDE DEF g
  <2>3. /\ DOMAIN d = ClientFields /\ SamePosition(g, d) /\ d.socket = "closed"
        /\ d.outbox = None /\ d.replayGeneration = g.replayGeneration
    BY <2>1, <2>2 DEF ClientGood, ClientShape, ClientFields, SamePosition
  <2> HIDE DEF d
  <2>4. ClientShape(d) /\ Asked(d) /\ ClientShape(g)
    BY <2>2, <2>3 DEF ClientGood, ClientShape, SamePosition, Asked
  <2>5. ClientGood(d, cov) /\ Carries(g, d)
    BY <2>2, <2>3, <2>4, SamePositionGood
  <2>6. Carries(c, d)
    BY <1>0, <2>2, <2>4, <2>5, CarriesOn
  <2> QED BY <1>1, <2>3, <2>5, <2>6 DEF Joined, d
<1>2. CASE s \notin UnsupportedStreams
  <2> DEFINE g == [c EXCEPT !.streamId = s]
  <2>1. s \in Nat /\ s # 0
    BY DEF Setting, Streams
  <2>2. /\ DOMAIN g = ClientFields /\ g.streamId = s /\ g.lastSeenEventId = c.lastSeenEventId
        /\ g.pendingEvents = c.pendingEvents /\ g.recoveryWatermark = c.recoveryWatermark
        /\ g.awaitingFreshRecoveryBaseline = c.awaitingFreshRecoveryBaseline
        /\ g.emitted = c.emitted /\ g.required = c.required
        /\ g.socket = c.socket /\ g.outbox = c.outbox /\ g.replayGeneration = c.replayGeneration
    BY DEF ClientGood, ClientShape, ClientFields
  <2>3. d = IF StreamChanges(c, s) THEN ResetDeliveryEpoch(g, 0, TRUE) ELSE g
    BY <1>2 DEF ApplyStreamIdentity
  <2> HIDE DEF g, d
  <2>4. ClientShape(g) /\ (orphaned \/ Asked(g))
    BY <2>1, <2>2 DEF ClientGood, Placed, ClientShape, Setting, Streams, Asked
  <2>5. Told(g) = Told(c) /\ Acknowledges(g) = Acknowledges(c) /\ (Barrier(g) <=> Barrier(c))
    BY <2>2 DEF Told, Acknowledges, Barrier
  <2>6. ToldOfPast(g)
    BY <2>2, <2>5 DEF ToldOfPast, ClientGood
  <2>7. CASE StreamChanges(c, s)
    <3>1. c.streamId # 0 /\ c.streamId < s
      BY <2>1, <2>7 DEF StreamChanges, ClientGood, ClientShape
    <3>2. \A p \in Told(c) : p[1] \in Nat
      BY DEF Told, Setting, ClientGood, ClientShape
    <3>3. \A p \in Told(g) : p[1] # g.streamId
      BY <2>1, <2>2, <2>5, <3>1, <3>2 DEF ClientGood, ToldOfPast, ClientShape
    <3>4. 0 \in Nat /\ 0 <= latest_published_event_id
      BY DEF Setting
    <3>5. d = ResetDeliveryEpoch(g, 0, TRUE)
      BY <2>3, <2>7
    <3>6. /\ ClientGood(d, cov) /\ d.required # None /\ Barrier(d)
          /\ d.emitted = g.emitted /\ d.socket = g.socket /\ d.streamId = g.streamId
      BY <2>2, <2>4, <2>6, <3>3, <3>4, <3>5, ResetDeliveryGood
    <3>7. ~Silent(c) /\ ~Follower(c)
      BY <2>7 DEF StreamChanges, Silent, Follower
    <3>8. Carries(c, d)
      BY <2>2, <2>5, <3>6, <3>7 DEF Carries, Moves, Continues
    <3> QED BY <2>2, <3>6, <3>8 DEF Joined, d
  <2>8. CASE ~StreamChanges(c, s)
    <3>1. d = g /\ c.streamId \in {0, s}
      BY <2>3, <2>8 DEF StreamChanges
    <3>2. CASE c.streamId = s
      <4>1. SamePosition(c, g)
        BY <2>2, <3>2 DEF SamePosition
      <4> QED BY <2>2, <2>4, <3>1, <4>1, SamePositionGood DEF Joined, d
    <3>3. CASE c.streamId = 0
      <4>1. ASSUME ~orphaned PROVE Placed(g, cov)
        <5>1. /\ Positioned(c) /\ Asked(c) /\ FreshBaseline(c)
          BY <4>1 DEF ClientGood, Placed
        <5>2. Positioned(g)
          BY <2>1, <2>2, <2>5, <3>3, <5>1 DEF Positioned
        <5>3. FreshBaseline(g)
          BY <2>2, <2>5, <3>3, <5>1 DEF FreshBaseline
        <5>4. Whole(g, cov)
          <6>1. \A p \in Told(c) : p[2] \in EventIds
            BY DEF Told, Setting, ClientGood, ClientShape
          <6>2. CASE c.lastSeenEventId = 0
            BY <2>2, <2>5, <6>1, <6>2 DEF Whole, EventIds
          <6>3. CASE c.lastSeenEventId # 0
            <7>1. c.lastSeenEventId \in Nat
              BY <1>0 DEF ClientShape
            <7>2. g.recoveryWatermark = g.lastSeenEventId /\ Barrier(g)
              BY <2>2, <3>3, <5>1, <6>3, <7>1, ClientAssumptions DEF Positioned, Barrier
            <7> QED BY <2>2, <2>5, <6>1, <7>1, <7>2 DEF Whole, EventIds
          <6> QED BY <6>2, <6>3
        <5> QED BY <2>4, <4>1, <5>2, <5>3, <5>4 DEF Placed
      <4>2. Carries(c, g)
        <5>1. ~Follower(c) /\ (Silent(c) => Silent(g))
          BY <2>1, <2>2, <2>5, <3>3 DEF Follower, Silent
        <5> QED BY <2>2, <2>5, <3>3, <5>1 DEF Carries, Moves, Continues
      <4> QED BY <2>2, <2>4, <2>6, <3>1, <4>1, <4>2 DEF ClientGood, Joined, d
    <3> QED BY <3>1, <3>2, <3>3
  <2> QED BY <2>7, <2>8
<1> QED BY <1>1, <1>2
\* Buffering and taking out of the buffer leave the position alone.
LEMMA PendingGood ==
    ASSUME NEW c, NEW cov, Setting(cov), ClientGood(c, cov), c.streamId = stream_id,
           NEW pending \in SUBSET EventIds,
           orphaned \/ \A n \in pending : n <= latest_published_event_id
    PROVE  LET b == [c EXCEPT !.pendingEvents = pending]
           IN  /\ ClientGood(b, cov) /\ Carries(c, b) /\ b.streamId = stream_id
               /\ b.socket = c.socket /\ b.lastSeenEventId = c.lastSeenEventId
               /\ b.recoveryWatermark = c.recoveryWatermark
               /\ b.awaitingFreshRecoveryBaseline = c.awaitingFreshRecoveryBaseline
<1> DEFINE b == [c EXCEPT !.pendingEvents = pending]
<1>1. /\ DOMAIN b = ClientFields /\ b.socket = c.socket /\ b.streamId = c.streamId
      /\ b.lastSeenEventId = c.lastSeenEventId /\ b.recoveryWatermark = c.recoveryWatermark
      /\ b.required = c.required /\ b.pendingEvents = pending
      /\ b.awaitingFreshRecoveryBaseline = c.awaitingFreshRecoveryBaseline
      /\ b.emitted = c.emitted /\ b.outbox = c.outbox
      /\ b.replayGeneration = c.replayGeneration
  BY DEF ClientGood, ClientShape, ClientFields
<1> HIDE DEF b
<1>2. ClientShape(b) /\ (orphaned \/ Asked(b))
  BY <1>1 DEF ClientGood, Placed, ClientShape, Asked
<1>3. Told(b) = Told(c) /\ Acknowledges(b) = Acknowledges(c) /\ (Barrier(b) <=> Barrier(c))
  BY <1>1 DEF Told, Acknowledges, Barrier
<1>4. stream_id # 0
  BY DEF Setting, Streams
<1>5. orphaned \/ Positioned(b)
  BY <1>1, <1>3, <1>4 DEF ClientGood, Placed, Positioned
<1>6. ToldOfPast(b) /\ (orphaned \/ FreshBaseline(b))
  BY <1>1, <1>3 DEF ClientGood, Placed, ToldOfPast, FreshBaseline
<1>7. orphaned \/ Whole(b, cov)
  BY <1>1, <1>3 DEF ClientGood, Placed, Whole
<1>8. Carries(c, b)
  <2>1. (Silent(b) <=> Silent(c)) /\ c.lastSeenEventId + 1 .. c.lastSeenEventId = {}
    BY <1>1, <1>3 DEF Silent, ClientGood, ClientShape
  <2>2. Moves(c, b)
    BY <1>1, <1>3 DEF Moves
  <2>3. Continues(c, b)
    <3>1. c.lastSeenEventId <= c.lastSeenEventId
      BY DEF ClientGood, ClientShape
    <3> QED BY <1>1, <2>1, <3>1 DEF Continues
  <2> QED BY <2>2, <2>3 DEF Carries
<1> QED BY <1>1, <1>2, <1>5, <1>6, <1>7, <1>8 DEF ClientGood, Placed, b

\* Emitting a run of numbers that follows the position.
LEMMA EmitGood ==
    ASSUME NEW c, NEW cov, Setting(cov), ClientGood(c, cov), c.streamId = stream_id,
           NEW first \in EventIds, NEW last \in EventIds, first <= last,
           orphaned \/ last <= latest_published_event_id,
           \/ first = c.lastSeenEventId + 1
           \/ c.lastSeenEventId = 0 /\ ~c.awaitingFreshRecoveryBaseline /\ first = last,
           ~Silent(c)
    PROVE  LET d == EmitNumberedEvents(c, first..last)
           IN  /\ ClientGood(d, cov) /\ Carries(c, d) /\ d.streamId = stream_id
               /\ d.socket = c.socket
<1> DEFINE s == stream_id
           d == EmitNumberedEvents(c, first..last)
           new == {<<s, id>> : id \in first..last}
<1>1. Max(first..last) = last
  <2>1. first..last \subseteq 0..last /\ last \in first..last /\ last \in Nat /\ first \in Nat
    BY DEF EventIds
  <2>2. Max(first..last) \in first..last /\ \A y \in first..last : y <= Max(first..last)
    BY <2>1, MaxOfBounded
  <2> QED BY <2>1, <2>2
<1>2. /\ DOMAIN d = ClientFields /\ d.socket = c.socket /\ d.streamId = s
      /\ d.lastSeenEventId = last /\ d.recoveryWatermark = c.recoveryWatermark
      /\ d.required = c.required /\ d.pendingEvents = c.pendingEvents
      /\ d.awaitingFreshRecoveryBaseline = c.awaitingFreshRecoveryBaseline
      /\ d.emitted = c.emitted \cup new /\ d.outbox = c.outbox
      /\ d.replayGeneration = c.replayGeneration
  <2>1. DOMAIN c = ClientFields
    BY DEF ClientGood, ClientShape
  <2>2. d = [c EXCEPT !.lastSeenEventId = last, !.emitted = @ \cup new]
    BY <1>1 DEF EmitNumberedEvents
  <2> HIDE DEF d, new
  <2> QED BY <2>1, <2>2 DEF ClientFields
<1>3. \A p \in new : p[1] = s /\ p[2] \in first..last /\ p = <<s, p[2]>>
  OBVIOUS
<1>4. \A id \in first..last : <<s, id>> \in new
  OBVIOUS
<1>5. new \subseteq Nat \X EventIds
  <2>1. s \in Nat
    BY DEF Setting, Streams
  <2>2. first..last \subseteq EventIds
    BY HubAssumptions DEF EventIds
  <2> QED BY <1>3, <2>1, <2>2
<1> HIDE DEF d, new
<1>6. s \in Nat /\ s # 0 /\ last \in Nat /\ first \in Nat /\ first # 0 /\ last # 0
  BY DEF EventIds, Setting, Streams
<1>7. ClientShape(d) /\ (orphaned \/ Asked(d))
  BY <1>2, <1>5, <1>6 DEF ClientGood, Placed, ClientShape, Asked
<1>8. Told(d) = Told(c) \cup new /\ (Barrier(d) <=> Barrier(c))
  BY <1>2 DEF Told, Barrier
<1>9. orphaned \/ Positioned(d)
  BY <1>2, <1>6, <1>8 DEF Positioned, ClientGood, Placed
<1>10. ToldOfPast(d)
  BY <1>2, <1>3, <1>6, <1>8 DEF ToldOfPast, ClientGood
<1>11. FreshBaseline(d)
  BY <1>2, <1>6 DEF FreshBaseline
<1>12. ASSUME ~orphaned PROVE Whole(d, cov)
  <2> SUFFICES ASSUME NEW p \in Told(d), NEW id \in p[2]..last, p[1] = s, <<s, id>> \notin Told(d)
               PROVE  id <= cov[s] \/ (Barrier(c) /\ id <= c.recoveryWatermark)
    BY <1>2, <1>8 DEF Whole, Barrier
  <2>1. id \notin first..last
    BY <1>4, <1>8
  <2>2. p[2] \in EventIds /\ id \in Int
    BY <1>5, <1>8 DEF Told, Setting, ClientGood, ClientShape
  <2>3. p \notin new
    BY <1>3, <1>6, <2>1, <2>2 DEF EventIds
  <2>4. p \in Told(c)
    BY <1>8, <2>3
  <2>5. first = c.lastSeenEventId + 1
    BY <1>12, <2>4 DEF FreshBaseline, ClientGood, Placed
  <2>6. id \in p[2]..c.lastSeenEventId
    BY <1>6, <2>1, <2>2, <2>5 DEF EventIds, ClientGood, ClientShape
  <2> QED BY <1>8, <1>12, <2>4, <2>6 DEF Whole, ClientGood, Placed
<1>13. Carries(c, d)
  <2>1. Follower(c) => first = c.lastSeenEventId + 1
    BY DEF Follower
  <2>2. c.lastSeenEventId \in Nat
    BY DEF ClientGood, ClientShape
  <2>3. ASSUME Follower(c), NEW p \in d.emitted \ c.emitted
        PROVE  /\ c.lastSeenEventId < p[2]
               /\ \A k \in c.lastSeenEventId + 1 .. p[2] : <<stream_id, k>> \in d.emitted
    <3>1. p[2] \in first..last
      BY <1>2, <1>3, <2>3
    <3>2. ASSUME NEW k \in c.lastSeenEventId + 1 .. p[2] PROVE k \in first..last
      BY <1>6, <2>1, <2>2, <2>3, <3>1
    <3> QED BY <1>2, <1>4, <1>6, <2>1, <2>2, <2>3, <3>1, <3>2
  <2>4. Moves(c, d)
    BY <1>2, <1>3, <1>8, <2>3 DEF Moves
  <2>5. ASSUME Follower(c)
        PROVE  /\ c.lastSeenEventId <= last
               /\ \A k \in c.lastSeenEventId + 1 .. last : <<stream_id, k>> \in d.emitted
    BY <1>2, <1>4, <1>6, <2>1, <2>2, <2>5
  <2>6. Continues(c, d)
    BY <1>2, <2>5 DEF Continues
  <2> QED BY <2>4, <2>6 DEF Carries
<1> QED BY <1>2, <1>7, <1>9, <1>10, <1>11, <1>12, <1>13 DEF ClientGood, Placed, d

\* drainPendingEvents emits what follows the position, or nothing.
LEMMA DrainGood ==
    ASSUME NEW c, NEW cov, Setting(cov), ClientGood(c, cov), c.streamId = stream_id
    PROVE  LET d == DrainPendingEvents(c)
           IN  /\ ClientGood(d, cov) /\ Carries(c, d) /\ d.streamId = stream_id
               /\ d.socket = c.socket
<1> DEFINE next == c.lastSeenEventId + 1
           run == {n \in c.pendingEvents : next <= n /\ next..n \subseteq c.pendingEvents}
           d == DrainPendingEvents(c)
<1>0. ClientShape(c)
  BY DEF ClientGood
<1>1. CASE Barrier(c) \/ run = {}
  <2>1. d = c
    BY <1>1 DEF DrainPendingEvents
  <2> QED BY <1>0, <2>1, SelfCarries
<1>2. CASE ~(Barrier(c) \/ run = {})
  <2>1. d = EmitNumberedEvents([c EXCEPT !.pendingEvents = @ \ run], run)
    BY <1>2 DEF DrainPendingEvents
  <2> DEFINE last == Max(run)
  <2>2. next \in Nat /\ next # 0 /\ MaxEventId \in Nat
    <3>1. c.lastSeenEventId \in Nat /\ MaxEventId \in Nat
      BY <1>0, HubAssumptions DEF ClientShape
    <3>2. \A k \in Nat : k + 1 \in Nat /\ k + 1 # 0
      OBVIOUS
    <3> QED BY <3>1, <3>2
  <2>3. c.pendingEvents \subseteq 1..MaxEventId
    BY <1>0 DEF ClientShape, EventIds
  <2>4. run \subseteq 0..MaxEventId
    BY <2>3
  <2>5. last \in run /\ \A y \in run : y <= last
    <3> HIDE DEF run
    <3> QED BY <1>2, <2>2, <2>4, MaxOfBounded
  <2> HIDE DEF last
  <2>6. /\ last \in c.pendingEvents /\ next <= last /\ next..last \subseteq c.pendingEvents
        /\ last \in Nat
    BY <2>3, <2>5
  <2>7. run = next..last
    <3>1. ASSUME NEW n \in run PROVE n \in next..last
      BY <2>2, <2>3, <2>5
    <3>2. ASSUME NEW n \in next..last PROVE n \in run
      <4>1. n \in c.pendingEvents /\ next <= n /\ n \in Nat
        BY <2>2, <2>6
      <4>2. next..n \subseteq next..last
        BY <2>2, <2>6, <4>1
      <4> QED BY <2>6, <4>1, <4>2
    <3> HIDE DEF run
    <3> QED BY <3>1, <3>2
  <2> HIDE DEF run
  <2>8. /\ next \in EventIds /\ last \in EventIds
        /\ orphaned \/ last <= latest_published_event_id
    <3>1. next \in c.pendingEvents
      BY <2>2, <2>6
    <3> QED BY <2>3, <2>6, <3>1 DEF EventIds, ClientGood, Placed, Positioned
  <2> DEFINE rest == c.pendingEvents \ run
             b == [c EXCEPT !.pendingEvents = rest]
  <2>9. d = EmitNumberedEvents(b, next..last)
    BY <2>1, <2>7
  <2>10. /\ rest \in SUBSET EventIds
         /\ orphaned \/ \A n \in rest : n <= latest_published_event_id
    BY <1>0 DEF ClientGood, Placed, ClientShape, Positioned
  <2> HIDE DEF d, rest
  <2>11. /\ ClientGood(b, cov) /\ Carries(c, b) /\ b.streamId = stream_id /\ b.socket = c.socket
         /\ b.lastSeenEventId = c.lastSeenEventId /\ b.recoveryWatermark = c.recoveryWatermark
    BY <2>10, PendingGood
  <2>12. next = b.lastSeenEventId + 1 /\ ~Silent(b)
    BY <1>2, <2>11 DEF Silent, Barrier
  <2> HIDE DEF next, b
  <2>13. /\ ClientGood(d, cov) /\ Carries(b, d) /\ d.streamId = stream_id /\ d.socket = b.socket
    BY <2>6, <2>8, <2>9, <2>11, <2>12, EmitGood
  <2>14. Carries(c, d)
    BY <1>0, <2>11, <2>13, CarriesOn DEF ClientGood
  <2> QED BY <2>11, <2>13, <2>14 DEF d
<1> QED BY <1>1, <1>2

LEMMA DrainThenFillGood ==
    ASSUME NEW c, NEW cov, Setting(cov), ClientGood(c, cov), c.streamId = stream_id
    PROVE  LET d == DrainThenFillGap(c)
           IN  /\ ClientGood(d, cov) /\ Carries(c, d) /\ d.streamId = stream_id
               /\ d.socket = c.socket
<1> DEFINE g == DrainPendingEvents(c)
<1>1. /\ ClientGood(g, cov) /\ Carries(c, g) /\ g.streamId = stream_id /\ g.socket = c.socket
  BY DrainGood
<1> HIDE DEF g
<1>2. DrainThenFillGap(c) \in {g, ScheduleReplay(g)}
  BY DEF DrainThenFillGap, g
<1>3. LET d == ScheduleReplay(g)
      IN  ClientGood(d, cov) /\ Carries(g, d) /\ SamePosition(g, d) /\ d.socket = g.socket
  BY <1>1, ScheduleGood
<1>4. Carries(c, ScheduleReplay(g))
  BY <1>1, <1>3, CarriesOn DEF ClientGood
<1> QED BY <1>1, <1>2, <1>3, <1>4 DEF SamePosition

\* deliverNumberedNotification, for an event of the client's stream.
LEMMA DeliverGood ==
    ASSUME NEW c, NEW cov, Setting(cov), ClientGood(c, cov), c.streamId = stream_id,
           NEW id \in EventIds, id <= latest_published_event_id, NEW source
    PROVE  LET d == DeliverNumbered(c, id, source)
           IN  ClientGood(d, cov) /\ Carries(c, d) /\ (d.streamId = stream_id \/ Forgotten(d))
               /\ (d.socket = c.socket \/ Forgotten(d))
<1> DEFINE d == DeliverNumbered(c, id, source)
           pending == c.pendingEvents \cup {id}
           b == [c EXCEPT !.pendingEvents = pending]
<1>1. ClientShape(c)
  BY DEF ClientGood
<1>2. \/ d = c
      \/ /\ c.lastSeenEventId = 0 /\ ~c.awaitingFreshRecoveryBaseline
         /\ d = EmitNumberedEvents(c, {id})
      \/ /\ Barrier(c) /\ (c.lastSeenEventId # 0 \/ c.awaitingFreshRecoveryBaseline)
         /\ d = ResetRecoveryEpoch(b)
      \/ d \in {DrainPendingEvents(b), b, DrainThenFillGap(b)}
  BY DEF DeliverNumbered
<1>3. /\ pending \in SUBSET EventIds
      /\ orphaned \/ \A n \in pending : n <= latest_published_event_id
  BY <1>1 DEF ClientGood, Placed, ClientShape, Positioned
<1> HIDE DEF d, pending
<1>5. ClientGood(b, cov) /\ Carries(c, b) /\ b.streamId = stream_id /\ b.socket = c.socket
  BY <1>3, PendingGood
<1> HIDE DEF b
<1>6. CASE d = c
  BY <1>1, <1>6, SelfCarries DEF d
<1>7. CASE c.lastSeenEventId = 0 /\ ~c.awaitingFreshRecoveryBaseline /\ d = EmitNumberedEvents(c, {id})
  <2>1. {id} = id..id /\ id <= id
    BY DEF EventIds
  <2>2. ~Silent(c) /\ (c.lastSeenEventId = 0 /\ ~c.awaitingFreshRecoveryBaseline /\ id = id)
    <3>1. c.lastSeenEventId = 0 /\ ~(0 > 0)
      BY <1>7
    <3> QED BY <1>7, <3>1 DEF Silent
  <2>3. d = EmitNumberedEvents(c, id..id)
    BY <1>7, <2>1
  <2>4. ClientGood(d, cov) /\ Carries(c, d) /\ d.streamId = stream_id /\ d.socket = c.socket
    <3>1. orphaned \/ id <= latest_published_event_id
      OBVIOUS
    <3>2. \/ id = c.lastSeenEventId + 1
          \/ c.lastSeenEventId = 0 /\ ~c.awaitingFreshRecoveryBaseline /\ id = id
      BY <2>2
    <3>3. LET e == EmitNumberedEvents(c, id..id)
          IN  ClientGood(e, cov) /\ Carries(c, e) /\ e.streamId = stream_id /\ e.socket = c.socket
      BY <2>1, <2>2, <3>1, <3>2, EmitGood
    <3> QED BY <2>3, <3>3
  <2> QED BY <2>4 DEF d
<1>8. CASE /\ Barrier(c) /\ (c.lastSeenEventId # 0 \/ c.awaitingFreshRecoveryBaseline)
           /\ d = ResetRecoveryEpoch(b)
  <2>1. ToldOfPast(b) /\ ClientShape(b)
    BY <1>5 DEF ClientGood
  <2>2. ClientGood(d, cov) /\ d.required # None /\ Silent(d) /\ d.emitted = b.emitted /\ Forgotten(d)
    BY <1>8, <2>1, ResetRecoveryGood
  <2>3. Silent(c)
    <3>1. c.lastSeenEventId \in Nat
      BY <1>1 DEF ClientShape
    <3> QED BY <1>8, <3>1 DEF Silent
  <2>4. d.emitted = c.emitted /\ Barrier(d)
    BY <1>5, <2>2, <2>3 DEF Carries, Moves, Silent
  <2>5. Carries(c, d)
    BY <2>2, <2>3, <2>4 DEF Carries, Moves, Continues
  <2> QED BY <2>2, <2>5 DEF d
<1>9. CASE d \in {DrainPendingEvents(b), b, DrainThenFillGap(b)}
  <2>1. ClientShape(b)
    BY <1>5 DEF ClientGood
  <2>2. ClientGood(d, cov) /\ Carries(b, d) /\ d.streamId = stream_id /\ d.socket = b.socket
    BY <1>5, <1>9, <2>1, SelfCarries, DrainGood, DrainThenFillGood
  <2>3. Carries(c, d)
    BY <1>1, <1>5, <2>1, <2>2, CarriesOn DEF ClientGood
  <2> QED BY <1>5, <2>2, <2>3 DEF d
<1> QED BY <1>2, <1>6, <1>7, <1>8, <1>9

\* An event of the bridge's stream reaches the client, live or in a page.
LEMMA EventGood ==
    ASSUME NEW c, NEW cov, Setting(cov), ClientGood(c, cov),
           NEW id \in EventIds, id <= latest_published_event_id, NEW source
    PROVE  LET d == HandleEvent(c, stream_id, id, source)
           IN  /\ ClientGood(d, cov) /\ Carries(c, d) /\ Joined(d)
               /\ stream_id \notin UnsupportedStreams => d.streamId = stream_id \/ Forgotten(d)
<1> DEFINE g == ApplyStreamIdentity(c, stream_id)
           d == HandleEvent(c, stream_id, id, source)
<1>1. /\ ClientGood(g, cov) /\ Carries(c, g) /\ Joined(g)
      /\ stream_id \notin UnsupportedStreams => g.streamId = stream_id /\ g.socket = c.socket
  BY IdentityGood
<1>2. CASE stream_id \in UnsupportedStreams
  <2>1. d = g
    BY <1>2 DEF HandleEvent
  <2> QED BY <1>1, <1>2, <2>1
<1>3. CASE stream_id \notin UnsupportedStreams
  <2>1. d = DeliverNumbered(g, id, source)
    BY <1>3 DEF HandleEvent
  <2> HIDE DEF g, d
  <2>2. ClientGood(d, cov) /\ Carries(g, d) /\ (d.streamId = stream_id \/ Forgotten(d))
    BY <1>1, <1>3, <2>1, DeliverGood
  <2>3. Carries(c, d)
    BY <1>1, <2>2, CarriesOn DEF ClientGood
  <2>4. Joined(d)
    BY <2>2 DEF Joined, Forgotten
  <2> QED BY <2>2, <2>3, <2>4 DEF d
<1> QED BY <1>2, <1>3

\* What each event of a page keeps, the page keeps.
OnPage(c, cov, x) ==
    ClientGood(x, cov) /\ Carries(c, x) /\ (x.streamId = stream_id \/ Forgotten(x))

LEMMA PageLoop ==
    ASSUME NEW c, NEW cov, Setting(cov), ClientShape(c), stream_id \notin UnsupportedStreams,
           NEW g, OnPage(c, cov, g), NEW ids \in Seq(EventIds),
           \A i \in 1..Len(ids) : ids[i] <= latest_published_event_id
    PROVE  OnPage(c, cov, ApplyReplayEvents(g, stream_id, ids))
<1> DEFINE n == Len(ids)
           f == CHOOSE f : IsReplayRun(f, g, stream_id, ids, n)
<1>0. n \in Nat
  BY LenProperties
<1>1. f = [i \in 0..n |-> IF i = 0 THEN g ELSE HandleEvent(f[i - 1], stream_id, ids[i], "replay")]
  <2>1. IsReplayRun(f, g, stream_id, ids, n)
    BY <1>0, ReplayRun
  <2> HIDE DEF f
  <2> QED BY <2>1 DEF IsReplayRun
<1>2. ApplyReplayEvents(g, stream_id, ids) = f[n]
  BY DEF ApplyReplayEvents, IsReplayRun
<1> HIDE DEF f
<1> DEFINE T == {i \in 0..n : ~OnPage(c, cov, f[i])}
<1>3. CASE T = {}
  <2>1. n \in 0..n
    BY <1>0
  <2> QED BY <1>2, <1>3, <2>1
<1>4. CASE T # {}
  <2>1. T \subseteq Nat
    BY <1>0
  <2>2. PICK m \in T : \A k \in T : m <= k
    <3> HIDE DEF T
    <3> QED BY <1>4, <2>1, LeastNumber
  <2>3. m # 0
    <3>1. f[0] = g
      BY <1>0, <1>1
    <3> QED BY <2>2, <3>1
  <2>4. m - 1 \in 0..n /\ ~(m <= m - 1) /\ m \in 1..n
    BY <1>0, <2>2, <2>3
  <2> DEFINE x == f[m - 1]
  <2>5. OnPage(c, cov, x)
    BY <2>2, <2>4
  <2>6. f[m] = HandleEvent(x, stream_id, ids[m], "replay")
    BY <1>1, <2>3, <2>4
  <2>7. ids[m] \in EventIds /\ ids[m] <= latest_published_event_id
    BY <1>0, <2>4, ElementOfSeq
  <2> HIDE DEF x
  <2>8. /\ ClientGood(f[m], cov) /\ Carries(x, f[m])
        /\ f[m].streamId = stream_id \/ Forgotten(f[m])
    BY <2>5, <2>6, <2>7, EventGood DEF OnPage
  <2>9. OnPage(c, cov, f[m])
    BY <2>5, <2>8, CarriesOn DEF OnPage, ClientGood
  <2> QED BY <2>2, <2>9
<1> QED BY <1>3, <1>4
LEMMA StateGood ==
    ASSUME NEW c, NEW cov, Setting(cov), ClientGood(c, cov)
    PROVE  LET d == HandleConnectionState(c, stream_id)
           IN  ClientGood(d, cov) /\ Moves(c, d) /\ Joined(d)
<1> DEFINE g == ApplyStreamIdentity(c, stream_id)
           d == HandleConnectionState(c, stream_id)
<1>1. /\ ClientGood(g, cov) /\ Carries(c, g) /\ Joined(g)
      /\ stream_id \notin UnsupportedStreams => g.streamId = stream_id /\ g.socket = c.socket
  BY IdentityGood
<1>2. d = g \/ (stream_id \notin UnsupportedStreams /\ d = ScheduleReplay(g))
  BY DEF HandleConnectionState
<1> HIDE DEF g, d
<1>3. CASE d = g
  BY <1>1, <1>3 DEF Carries, d
<1>4. CASE stream_id \notin UnsupportedStreams /\ d = ScheduleReplay(g)
  <2>1. ClientGood(d, cov) /\ Carries(g, d) /\ SamePosition(g, d) /\ d.socket = g.socket
    BY <1>1, <1>4, ScheduleGood
  <2>2. Carries(c, d)
    BY <1>1, <2>1, CarriesOn DEF ClientGood
  <2> QED BY <1>1, <1>4, <2>1, <2>2 DEF Carries, SamePosition, Joined, d
<1> QED BY <1>2, <1>3, <1>4

\* The end of a replay; one whose client started over has nothing left to clear.
LEMMA FinishGood ==
    ASSUME NEW c, NEW cov, Setting(cov), ClientGood(c, cov),
           c.streamId = stream_id \/ Forgotten(c)
    PROVE  LET d == FinishReplay(c)
           IN  ClientGood(d, cov) /\ Carries(c, d) /\ (d.streamId = stream_id \/ Forgotten(d))
<1> DEFINE d == FinishReplay(c)
           g == [c EXCEPT !.replayInFlight = None]
<1>1. CASE c.replayInFlight = None
  <2>1. d = c
    BY <1>1 DEF FinishReplay
  <2> QED BY <2>1, SelfCarries DEF ClientGood
<1>2. CASE c.replayInFlight # None
  <2>1. d = DrainThenFillGap(g) /\ c.streamId = stream_id
    BY <1>2 DEF FinishReplay, Forgotten
  <2>2. /\ DOMAIN g = ClientFields /\ SamePosition(c, g) /\ g.outbox = c.outbox
        /\ g.socket = c.socket /\ g.replayGeneration = c.replayGeneration
    BY DEF ClientGood, ClientShape, ClientFields, SamePosition
  <2> HIDE DEF g, d
  <2>3. ClientShape(g) /\ (orphaned \/ Asked(g)) /\ g.streamId = stream_id
    BY <2>1, <2>2 DEF ClientGood, Placed, ClientShape, SamePosition, Asked
  <2>4. ClientGood(g, cov) /\ Carries(c, g)
    BY <2>2, <2>3, SamePositionGood
  <2>5. ClientGood(d, cov) /\ Carries(g, d) /\ d.streamId = stream_id
    BY <2>1, <2>3, <2>4, DrainThenFillGood
  <2>6. Carries(c, d)
    BY <2>4, <2>5, CarriesOn DEF ClientGood
  <2> QED BY <2>5, <2>6 DEF d
<1> QED BY <1>1, <1>2

LEMMA ResetMoves ==
    ASSUME NEW c, NEW d, d.required # None, Barrier(d), d.emitted = c.emitted
    PROVE  Moves(c, d)
BY DEF Moves

\* One page of replayMissedEvents.
LEMMA PageStepGood ==
    ASSUME NEW c, NEW cov, Setting(cov), ClientGood(c, cov), NEW r,
           PageOf(r, stream_id, latest_published_event_id, orphaned)
    PROVE  LET d == HandleReplayPage(c, r)
           IN  ClientGood(d, cov) /\ Moves(c, d) /\ (c.streamId = stream_id => Joined(d))
<1> DEFINE g == ApplyStreamIdentity(c, stream_id)
           a == ApplyReplayEvents(g, stream_id, r.ids)
           cursor == a.lastSeenEventId
           target == IF r.target = None THEN r.latest ELSE r.target
           d == HandleReplayPage(c, r)
<1>1. /\ r.stream = stream_id /\ r.latest \in Nat /\ r.earliest \in Nat /\ r.cursor \in Nat
      /\ r.target \in Nat \cup {None} /\ r.ids \in Seq(EventIds)
      /\ \A i \in 1..Len(r.ids) : r.ids[i] <= latest_published_event_id
      /\ r.latest <= latest_published_event_id
      /\ target \in Nat /\ (orphaned \/ target <= r.latest)
  <2>1. /\ r.stream = stream_id /\ r.latest \in Nat /\ r.earliest \in Nat /\ r.cursor \in Nat
        /\ r.target \in Nat \cup {None} /\ r.ids \in Seq(EventIds)
    BY DEF PageOf, ReplayFrames
  <2> QED BY <2>1 DEF PageOf
<1>2. /\ ClientGood(g, cov) /\ Carries(c, g) /\ Joined(g)
      /\ stream_id \notin UnsupportedStreams => g.streamId = stream_id /\ g.socket = c.socket
  BY IdentityGood
<1>3. \/ d = c
      \/ d = g
      \/ /\ stream_id \notin UnsupportedStreams
         /\ \/ ~PageIsUsable(r.cursor, r.earliest, r.latest)
                /\ d = ResetDeliveryEpoch(g, r.latest, FALSE)
            \/ d = FinishReplay(a)
            \/ cursor < target /\ d = ResetDeliveryEpoch(a, r.latest, FALSE)
            \/ d = a
            \/ d = RequestPage(a, cursor, target)
  <2>1. stream_id \in UnsupportedStreams \/ cursor >= target \/ cursor < target
    <3>1. stream_id \in UnsupportedStreams \/ cursor \in Nat
      <4>1. CASE stream_id \in UnsupportedStreams
        BY <4>1
      <4>2. CASE stream_id \notin UnsupportedStreams
        <5>1. OnPage(c, cov, g) /\ ClientShape(c)
          BY <1>2, <4>2 DEF OnPage, ClientGood
        <5> HIDE DEF g
        <5>2. OnPage(c, cov, a)
          BY <1>1, <4>2, <5>1, PageLoop
        <5> HIDE DEF a
        <5> QED BY <5>2 DEF OnPage, ClientGood, ClientShape
      <4> QED BY <4>1, <4>2
    <3>2. target \in Nat
      BY <1>1
    <3> HIDE DEF cursor, target
    <3> QED BY <3>1, <3>2
  <2> QED BY <1>1, <2>1 DEF HandleReplayPage
<1> HIDE DEF g, a, d, target
<1>4. CASE d = c
  BY <1>4, SelfCarries DEF ClientGood, Carries, Joined, d
<1>5. CASE d = g
  BY <1>2, <1>5 DEF Carries, d
<1>6. CASE stream_id \notin UnsupportedStreams
  <2>1. OnPage(c, cov, g) /\ ClientShape(c)
    BY <1>2, <1>6 DEF OnPage, ClientGood
  <2>2. OnPage(c, cov, a)
    BY <1>1, <1>6, <2>1, PageLoop DEF a
  <2>3. ASSUME NEW x, OnPage(c, cov, x), orphaned \/ r.latest # 0,
               d = ResetDeliveryEpoch(x, r.latest, FALSE)
        PROVE  ClientGood(d, cov) /\ Moves(c, d) /\ Joined(d)
    <3>1. /\ ClientShape(x) /\ ToldOfPast(x) /\ (orphaned \/ Asked(x))
          /\ orphaned \/ Positioned(x)
          /\ x.streamId = stream_id \/ (~FALSE /\ x.streamId = 0)
      BY <2>3 DEF OnPage, ClientGood, Placed, Forgotten
    <3>2. /\ orphaned \/ (~FALSE => r.latest # 0 /\ Positioned(x))
          /\ orphaned \/ (r.latest = 0 => \A p \in Told(x) : p[1] # x.streamId)
      BY <2>3, <3>1
    <3>3. /\ ClientGood(d, cov) /\ d.required # None /\ Barrier(d)
          /\ d.emitted = x.emitted /\ d.socket = x.socket /\ d.streamId = x.streamId
      BY <1>1, <2>3, <3>1, <3>2, ResetDeliveryGood
    <3>4. Moves(x, d)
      BY <3>3, ResetMoves
    <3>5. Moves(c, d)
      BY <2>1, <2>3, <3>1, <3>3, <3>4, MovesOn DEF OnPage, ClientGood
    <3>6. Joined(d)
      BY <2>3, <3>3 DEF OnPage, Joined, Forgotten
    <3> QED BY <3>3, <3>5, <3>6
  <2>4. CASE ~PageIsUsable(r.cursor, r.earliest, r.latest)
                /\ d = ResetDeliveryEpoch(g, r.latest, FALSE)
    <3>1. orphaned \/ r.latest # 0
      BY <1>1, <2>4 DEF PageIsUsable, PageOf
    <3> QED BY <2>1, <2>3, <2>4, <3>1 DEF d
  <2>5. CASE d = FinishReplay(a)
    <3>1. ClientGood(d, cov) /\ Carries(a, d) /\ (d.streamId = stream_id \/ Forgotten(d))
      BY <2>2, <2>5, FinishGood DEF OnPage
    <3>2. Carries(c, d)
      BY <2>1, <2>2, <3>1, CarriesOn DEF OnPage, ClientGood
    <3> QED BY <3>1, <3>2 DEF Carries, Joined, Forgotten, d
  <2>6. CASE cursor < target /\ d = ResetDeliveryEpoch(a, r.latest, FALSE)
    <3>1. cursor \in Nat
      BY <2>2 DEF OnPage, ClientGood, ClientShape
    <3>2. orphaned \/ r.latest # 0
      BY <1>1, <2>6, <3>1
    <3> QED BY <2>2, <2>3, <2>6, <3>2 DEF d
  <2>7. CASE d = a
    BY <2>2, <2>7 DEF OnPage, Carries, Joined, Forgotten, d
  <2>8. CASE d = RequestPage(a, cursor, target)
    <3>1. /\ cursor \in Nat /\ target \in Nat \cup {None}
          /\ orphaned \/ (/\ cursor <= latest_published_event_id
                          /\ target # None => target <= latest_published_event_id)
      <4>1. cursor \in Nat /\ latest_published_event_id \in Nat
        BY <2>2 DEF OnPage, ClientGood, ClientShape, Setting
      <4>2. orphaned \/ cursor <= latest_published_event_id
        BY <2>2 DEF OnPage, ClientGood, Placed, Positioned, Forgotten
      <4>3. orphaned \/ target <= latest_published_event_id
        BY <1>1, <4>1
      <4> QED BY <1>1, <4>1, <4>2, <4>3
    <3>2. ClientGood(a, cov)
      BY <2>2 DEF OnPage
    <3> HIDE DEF cursor
    <3>3. ClientGood(d, cov) /\ Carries(a, d) /\ SamePosition(a, d) /\ d.socket = a.socket
      BY <2>8, <3>1, <3>2, RequestGood
    <3>4. Carries(c, d)
      BY <2>1, <2>2, <3>3, CarriesOn DEF OnPage, ClientGood
    <3> QED BY <2>2, <3>3, <3>4 DEF OnPage, Carries, Joined, Forgotten, SamePosition, d
  <2> QED BY <1>3, <1>4, <1>5, <2>4, <2>5, <2>6, <2>7, <2>8
<1> QED BY <1>3, <1>4, <1>5, <1>6

\* A larger snapshot does no harm.
LEMMA CoverGood ==
    ASSUME NEW c, NEW cov, NEW more, Setting(cov), Setting(more), ClientGood(c, cov),
           \A s \in Streams : cov[s] <= more[s]
    PROVE  ClientGood(c, more)
<1>1. ASSUME ~orphaned PROVE Whole(c, more)
  <2> SUFFICES ASSUME NEW p \in Told(c), NEW id \in p[2]..c.lastSeenEventId, p[1] = c.streamId
               PROVE  \/ <<c.streamId, id>> \in Told(c)
                      \/ id <= more[c.streamId]
                      \/ Barrier(c) /\ id <= c.recoveryWatermark
    BY DEF Whole
  <2>1. p[2] \in Nat /\ id \in Int
    BY DEF Told, Setting, ClientGood, ClientShape, EventIds
  <2>2. c.streamId \in Streams
    <3>1. c.streamId # 0
      BY DEF ClientGood, ToldOfPast
    <3>2. c.streamId \in Nat /\ c.streamId <= stream_id /\ stream_id \in 1..MaxStream
      BY DEF ClientGood, ClientShape, Setting, Streams
    <3> QED BY <3>1, <3>2, HubAssumptions DEF Streams
  <2>3. cov[c.streamId] \in Int /\ more[c.streamId] \in Int /\ cov[c.streamId] <= more[c.streamId]
    BY <2>2 DEF Setting
  <2>4. \/ <<c.streamId, id>> \in Told(c)
        \/ id <= cov[c.streamId]
        \/ Barrier(c) /\ id <= c.recoveryWatermark
    BY <1>1 DEF ClientGood, Placed, Whole
  <2> QED BY <2>1, <2>3, <2>4
<1> QED BY <1>1 DEF ClientGood, Placed

\* acknowledgeSnapshotRecovery once the snapshot is installed.
LEMMA AcknowledgeGood ==
    ASSUME NEW c, NEW cov, Setting(cov), ClientGood(c, cov), c.streamId = stream_id,
           c.required = None, recovery.acknowledge = TRUE, Barrier(c),
           orphaned \/ c.recoveryWatermark <= cov[stream_id]
    PROVE  LET low == [c EXCEPT !.recoveryWatermark = None, !.awaitingFreshRecoveryBaseline = FALSE]
               d == DrainThenFillGap(low)
           IN  /\ ClientGood(d, cov) /\ Moves(low, d) /\ d.streamId = stream_id
               /\ d.socket = c.socket /\ low.emitted = c.emitted
               /\ low.streamId = c.streamId /\ low.lastSeenEventId = c.lastSeenEventId
               /\ low.required = None /\ low.recoveryWatermark = None
<1> DEFINE low == [c EXCEPT !.recoveryWatermark = None, !.awaitingFreshRecoveryBaseline = FALSE]
           d == DrainThenFillGap(low)
<1>1. /\ DOMAIN low = ClientFields /\ low.socket = c.socket /\ low.streamId = c.streamId
      /\ low.lastSeenEventId = c.lastSeenEventId /\ low.recoveryWatermark = None
      /\ low.required = c.required /\ low.pendingEvents = c.pendingEvents
      /\ low.awaitingFreshRecoveryBaseline = FALSE
      /\ low.emitted = c.emitted /\ low.outbox = c.outbox
      /\ low.replayGeneration = c.replayGeneration
  BY DEF ClientGood, ClientShape, ClientFields
<1> HIDE DEF low, d
<1>2. ClientShape(low)
  <2>1. low.awaitingFreshRecoveryBaseline \in BOOLEAN
    BY <1>1, Zenon
  <2>2. low.recoveryWatermark \in Nat \cup {None}
    BY <1>1
  <2> QED BY <1>1, <2>1, <2>2 DEF ClientGood, ClientShape
<1>3. Told(low) = Told(c) /\ Acknowledges(c) = TRUE /\ ~Barrier(low)
  BY <1>1 DEF Told, Acknowledges, Barrier
<1>4. ToldOfPast(low) /\ (orphaned \/ Asked(low))
  BY <1>1, <1>3 DEF ClientGood, Placed, ToldOfPast, Asked
<1>5. orphaned \/ Positioned(low)
  <2>1. stream_id # 0
    BY DEF Setting, Streams
  <2> QED BY <1>1, <1>3, <2>1 DEF ClientGood, Placed, Positioned
<1>6. orphaned \/ FreshBaseline(low)
  BY <1>1, <1>3 DEF ClientGood, Placed, FreshBaseline
<1>7. ASSUME ~orphaned PROVE Whole(low, cov)
  <2> SUFFICES ASSUME NEW p \in Told(c), NEW id \in p[2]..c.lastSeenEventId, p[1] = c.streamId
               PROVE  <<c.streamId, id>> \in Told(c) \/ id <= cov[c.streamId]
    BY <1>1, <1>3 DEF Whole
  <2>1. p[2] \in Nat /\ id \in Int
    BY DEF Told, Setting, ClientGood, ClientShape, EventIds
  <2>2. cov[stream_id] \in Int /\ c.recoveryWatermark \in Nat
    BY DEF Setting, ClientGood, ClientShape, Barrier
  <2>3. \/ <<c.streamId, id>> \in Told(c)
        \/ id <= cov[c.streamId]
        \/ id <= c.recoveryWatermark
    BY <1>7 DEF ClientGood, Placed, Whole
  <2> QED BY <1>7, <2>1, <2>2, <2>3
<1>8. ClientGood(low, cov)
  BY <1>2, <1>4, <1>5, <1>6, <1>7 DEF ClientGood, Placed
<1>9. ClientGood(d, cov) /\ Carries(low, d) /\ d.streamId = stream_id /\ d.socket = low.socket
  BY <1>1, <1>8, DrainThenFillGood DEF d
<1> QED BY <1>1, <1>9 DEF Carries, d, low
-----------------------------------------------------------------------------
(* The frames on their way to the phone. *)

LEMMA TailOf ==
    ASSUME NEW q, NEW told, NEW s, NEW n, NEW lost, QueueOf(q, told, s, n, lost), q # <<>>
    PROVE  /\ QueueOf(Tail(q), told, s, n, lost)
           /\ FrameOf(Head(q), s, n, lost)
           /\ Coming(q) => Head(q).type = "state" \/ Coming(Tail(q))
           /\ Head(q).type \in {"state", "snapshot"} => told
           /\ Head(q).type = "snapshot" => ~Coming(q)
<1>1. q \in Seq(PhoneFrames)
  BY DEF QueueOf
<1>2. /\ Len(q) \in Nat /\ Len(q) > 0 /\ Head(q) = q[1] /\ Tail(q) \in Seq(PhoneFrames)
      /\ Len(Tail(q)) = Len(q) - 1
      /\ \A i \in 1..Len(Tail(q)) : Tail(q)[i] = q[i + 1]
  BY <1>1, HeadTailProperties, EmptySeq, LenProperties
<1>3. \A i \in 1..Len(Tail(q)) : i + 1 \in 1..Len(q) /\ i \in Nat
  BY <1>2
<1>4. 1 \in 1..Len(q)
  BY <1>2
<1>5. \A i \in 1..Len(q) : i = 1 \/ (i - 1 \in 1..Len(Tail(q)) /\ (i - 1) + 1 = i)
  BY <1>2
<1>6. QueueOf(Tail(q), told, s, n, lost)
  <2>1. \A i \in 1..Len(Tail(q)) : FrameOf(Tail(q)[i], s, n, lost)
    BY <1>2, <1>3 DEF QueueOf
  <2>2. told \/ \A i \in 1..Len(Tail(q)) : Tail(q)[i].type \notin {"state", "snapshot"}
    BY <1>2, <1>3 DEF QueueOf
  <2>3. ASSUME NEW i \in 1..Len(Tail(q)), NEW j \in 1..Len(Tail(q)), i < j,
               Tail(q)[i].type = "snapshot"
        PROVE  Tail(q)[j].type # "state"
    <3>1. i + 1 < j + 1
      BY <1>3, <2>3
    <3> QED BY <1>2, <1>3, <2>3, <3>1 DEF QueueOf
  <2> QED BY <1>2, <2>1, <2>2, <2>3 DEF QueueOf
<1>7. Coming(q) => Head(q).type = "state" \/ Coming(Tail(q))
  BY <1>2, <1>5 DEF Coming
<1>8. Head(q).type = "snapshot" => ~Coming(q)
  <2>1. \A i \in 1..Len(q) : i = 1 \/ 1 < i
    BY <1>2
  <2> QED BY <1>2, <1>4, <2>1 DEF Coming, QueueOf
<1> QED BY <1>2, <1>4, <1>6, <1>7, <1>8 DEF QueueOf

LEMMA AppendOf ==
    ASSUME NEW q, NEW told, NEW s, NEW n, NEW lost, QueueOf(q, told, s, n, lost),
           NEW f, FrameOf(f, s, n, lost),
           f.type \in {"state", "snapshot"} => told,
           f.type = "state" => \A i \in 1..Len(q) : q[i].type # "snapshot"
    PROVE  /\ QueueOf(Append(q, f), told, s, n, lost)
           /\ Coming(q) => Coming(Append(q, f))
           /\ f.type = "state" => Coming(Append(q, f))
<1> DEFINE a == Append(q, f)
<1>1. q \in Seq(PhoneFrames) /\ f \in PhoneFrames
  BY DEF QueueOf, FrameOf
<1>2. /\ a \in Seq(PhoneFrames) /\ Len(q) \in Nat /\ Len(a) = Len(q) + 1
      /\ \A i \in 1..Len(q) : a[i] = q[i]
      /\ a[Len(q) + 1] = f
  BY <1>1, AppendProperties, LenProperties
<1> HIDE DEF a
<1>3. \A i \in 1..Len(a) : i \in 1..Len(q) \/ i = Len(a)
  BY <1>2
<1>4. \A i \in 1..Len(q) : i \in 1..Len(a) /\ i < Len(a)
  BY <1>2
<1>5. Len(a) \in 1..Len(a) /\ a[Len(a)] = f
  BY <1>2
<1>6. QueueOf(a, told, s, n, lost)
  <2>1. \A i \in 1..Len(a) : FrameOf(a[i], s, n, lost)
    BY <1>2, <1>3, <1>5 DEF QueueOf
  <2>2. told \/ \A i \in 1..Len(a) : a[i].type \notin {"state", "snapshot"}
    BY <1>2, <1>3, <1>5 DEF QueueOf
  <2>3. ASSUME NEW i \in 1..Len(a), NEW j \in 1..Len(a), i < j, a[i].type = "snapshot"
        PROVE  a[j].type # "state"
    <3>1. i \in 1..Len(q)
      BY <1>2, <1>3, <2>3
    <3>2. CASE j \in 1..Len(q)
      BY <1>2, <2>3, <3>1, <3>2 DEF QueueOf
    <3>3. CASE j = Len(a)
      BY <1>2, <1>5, <2>3, <3>1, <3>3 DEF QueueOf
    <3> QED BY <1>3, <3>2, <3>3
  <2> QED BY <1>2, <2>1, <2>2, <2>3 DEF QueueOf
<1>7. Coming(q) => Coming(a)
  BY <1>2, <1>4 DEF Coming
<1>8. f.type = "state" => Coming(a)
  BY <1>5 DEF Coming
<1> QED BY <1>6, <1>7, <1>8 DEF a

LEMMA EmptyOf ==
    ASSUME NEW told, NEW s, NEW n, NEW lost PROVE QueueOf(<<>>, told, s, n, lost)
<1>1. <<>> \in Seq(PhoneFrames) /\ 1..Len(<<>>) = {}
  BY EmptySeq
<1> QED BY <1>1 DEF QueueOf

LEMMA PageGrows ==
    ASSUME NEW r, NEW s, NEW n \in Nat, NEW m \in Nat, n <= m, NEW lost, PageOf(r, s, n, lost)
    PROVE  PageOf(r, s, m, lost)
<1>1. r.latest \in Nat /\ r.ids \in Seq(EventIds)
  BY DEF PageOf, ReplayFrames
<1>2. \A i \in 1..Len(r.ids) : r.ids[i] \in Nat
  <2>1. \A i \in 1..Len(r.ids) : r.ids[i] \in EventIds
    BY <1>1, ElementOfSeq
  <2> QED BY <2>1 DEF EventIds
<1>3. r.latest <= m /\ \A i \in 1..Len(r.ids) : r.ids[i] <= m
  BY <1>1, <1>2 DEF PageOf
<1> QED BY <1>3 DEF PageOf

LEMMA QueueGrows ==
    ASSUME NEW q, NEW told, NEW s, NEW n \in Nat, NEW m \in Nat, n <= m, NEW lost,
           QueueOf(q, told, s, n, lost)
    PROVE  QueueOf(q, told, s, m, lost)
<1>1. ASSUME NEW i \in 1..Len(q) PROVE FrameOf(q[i], s, m, lost)
  <2>1. FrameOf(q[i], s, n, lost)
    BY DEF QueueOf
  <2>2. q[i].type = "event" => q[i].event_id \in 1..m
    BY <2>1 DEF FrameOf
  <2>3. q[i].type = "replay" => PageOf(q[i], s, m, lost)
    BY <2>1, PageGrows DEF FrameOf
  <2> QED BY <2>1, <2>2, <2>3 DEF FrameOf
<1> QED BY <1>1 DEF QueueOf

\* The fields of a frame of each kind.
LEMMA FrameKinds ==
    ASSUME NEW f, NEW s, NEW n, NEW lost, FrameOf(f, s, n, lost)
    PROVE  f.type \in {"event", "state", "replay", "snapshot"}
BY DEF FrameOf, PhoneFrames, Frame, ReplayFrames, SnapshotFrames
-----------------------------------------------------------------------------
(* Steps of the whole system. *)

\* The bodies of the action properties.
EmitsNext ==
    LET s == cl.streamId
    IN  s # 0 /\ cl.lastSeenEventId > 0 =>
            \A id \in NewlyDelivered(s) :
                /\ cl.lastSeenEventId < id
                /\ \A k \in cl.lastSeenEventId + 1 .. id : <<s, k>> \in delivered'

HoldsPosition ==
    Barrier(cl) /\ Barrier(cl)' /\ cl.lastSeenEventId > 0 => NewlyDelivered(cl.streamId) = {}

LowersAfterSnapshot ==
    ~orphaned /\ Barrier(cl) /\ ~Barrier(cl)' =>
        /\ cl'.streamId # 0
        /\ covered'[cl'.streamId] >= cl.recoveryWatermark

StepGood == EmitsNext /\ HoldsPosition /\ LowersAfterSnapshot

LEMMA NothingEmitted ==
    ASSUME delivered' = delivered, Barrier(cl) => Barrier(cl)'
    PROVE  StepGood
<1>1. \A s : NewlyDelivered(s) = {}
  BY DEF NewlyDelivered
<1> QED BY <1>1 DEF StepGood, EmitsNext, HoldsPosition, LowersAfterSnapshot

LEMMA MoveStep ==
    ASSUME NEW c, Moves(cl, c), cl.emitted = {}, delivered' = delivered \cup c.emitted,
           cl'.recoveryWatermark = c.recoveryWatermark
    PROVE  StepGood
<1>1. ASSUME NEW s, NEW id \in NewlyDelivered(s) PROVE <<s, id>> \in c.emitted \ cl.emitted
  BY <1>1 DEF NewlyDelivered
<1>2. EmitsNext
  <2> SUFFICES ASSUME cl.streamId # 0, cl.lastSeenEventId > 0, NEW id \in NewlyDelivered(cl.streamId)
               PROVE  /\ cl.lastSeenEventId < id
                      /\ \A k \in cl.lastSeenEventId + 1 .. id : <<cl.streamId, k>> \in delivered'
    BY DEF EmitsNext
  <2> DEFINE p == <<cl.streamId, id>>
  <2>1. p \in c.emitted \ cl.emitted /\ p[1] = cl.streamId /\ p[2] = id
    BY <1>1
  <2> HIDE DEF p
  <2>2. cl.streamId = stream_id
    BY <2>1 DEF Moves
  <2>3. Follower(cl)
    BY <2>2 DEF Follower
  <2>4. /\ cl.lastSeenEventId < p[2]
        /\ \A k \in cl.lastSeenEventId + 1 .. p[2] : <<stream_id, k>> \in c.emitted
    BY <2>1, <2>3 DEF Moves
  <2> QED BY <2>1, <2>2, <2>4
<1>3. HoldsPosition
  <2> SUFFICES ASSUME Barrier(cl), cl.lastSeenEventId > 0, NEW id \in NewlyDelivered(cl.streamId)
               PROVE  FALSE
    BY DEF HoldsPosition
  <2> DEFINE p == <<cl.streamId, id>>
  <2>1. p \in c.emitted \ cl.emitted /\ p[1] = cl.streamId
    BY <1>1
  <2> HIDE DEF p
  <2>2. cl.streamId = stream_id
    BY <2>1 DEF Moves
  <2>3. Silent(cl)
    BY <2>2 DEF Silent
  <2> QED BY <2>1, <2>3 DEF Moves
<1>4. LowersAfterSnapshot
  BY DEF LowersAfterSnapshot, Moves, Barrier
<1> QED BY <1>2, <1>3, <1>4 DEF StepGood

\* The client as a step leaves it: what it emitted and asked for is out.
Cleared(c, k) ==
    /\ DOMAIN k = ClientFields
    /\ k.socket = c.socket /\ k.streamId = c.streamId
    /\ k.lastSeenEventId = c.lastSeenEventId /\ k.pendingEvents = c.pendingEvents
    /\ k.replayGeneration = c.replayGeneration /\ k.recoveryWatermark = c.recoveryWatermark
    /\ k.awaitingFreshRecoveryBaseline = c.awaitingFreshRecoveryBaseline
    /\ k.outbox = c.outbox /\ k.emitted = {} /\ k.required = None

LEMMA ClearedGood ==
    ASSUME NEW c, NEW cov, Setting(cov), ClientGood(c, cov), Cleared(c, cl'), covered' = cov,
           stream_id' = stream_id, orphaned' = orphaned,
           latest_published_event_id <= latest_published_event_id',
           latest_published_event_id' \in Nat,
           delivered' = Told(c), recovery'.acknowledge = Acknowledges(c)
    PROVE  ClientGood(cl, covered)'
<1> DEFINE n == latest_published_event_id
<1>1. Told(cl)' = Told(c) /\ Acknowledges(cl)' = Acknowledges(c) /\ Barrier(cl)' = Barrier(c)
  BY DEF Told, Acknowledges, Cleared, Barrier
<1>2. ClientShape(cl)'
  BY DEF ClientShape, ClientGood, Cleared
<1>3. ToldOfPast(cl)'
  BY <1>1 DEF ToldOfPast, ClientGood, Cleared
<1>4. n \in Nat /\ n' \in Nat /\ n <= n'
  BY DEF Setting
<1>5. ASSUME ~orphaned PROVE Placed(cl, covered)'
  <2>1. Positioned(c) /\ Asked(c) /\ FreshBaseline(c) /\ Whole(c, cov)
    BY <1>5 DEF ClientGood, Placed
  <2>2. \A k \in Nat : k <= n => k <= n'
    BY <1>4
  <2>3. /\ c.lastSeenEventId \in Nat /\ c.pendingEvents \subseteq Nat
        /\ Barrier(c) => c.recoveryWatermark \in Nat
        /\ c.outbox # None => c.outbox \in Requests
    BY DEF ClientGood, ClientShape, EventIds, Barrier
  <2>4. Positioned(cl)'
    <3> HIDE DEF n
    <3>1. c.streamId \in {0, stream_id} =>
            /\ c.lastSeenEventId <= n'
            /\ \A k \in c.pendingEvents : k <= n'
            /\ Barrier(c) => c.recoveryWatermark <= n'
      BY <2>1, <2>2, <2>3 DEF Positioned, n
    <3> QED BY <1>1, <2>1, <3>1 DEF Positioned, Cleared, n
  <2>5. Asked(cl)'
    <3>1. c.outbox # None => c.outbox.cursor \in Nat /\ c.outbox.target \in Nat \cup {None}
      BY <2>3 DEF Requests
    <3> QED BY <2>1, <2>2, <3>1 DEF Asked, Cleared
  <2>6. FreshBaseline(cl)'
    BY <1>1, <2>1 DEF FreshBaseline, Cleared
  <2>7. Whole(cl, covered)'
    BY <1>1, <2>1 DEF Whole, Cleared
  <2> QED BY <2>4, <2>5, <2>6, <2>7 DEF Placed
<1> QED BY <1>2, <1>3, <1>5 DEF ClientGood

\* Of the invariant, what a handler of the phone finds.
LEMMA PhoneFinds ==
    ASSUME DeliveryInv
    PROVE  /\ Setting(covered) /\ ClientGood(cl, covered) /\ ClientShape(cl)
           /\ cl.emitted = {} /\ cl.required = None
           /\ latest_published_event_id \in Nat /\ stream_id \in Streams
BY DEF DeliveryInv, BridgeInv, HistoryInv, RecoveryInv, RecoveryShape, StreamInv, Setting, ClientGood

\* After a handler: the rest of the invariant, given what the handler left.
LEMMA PhoneStepInv ==
    ASSUME DeliveryInv, NEW c, NEW r, NEW q, PhoneStep(c, r, q),
           UNCHANGED <<streamVars, publishing, orphaned>>,
           Setting(covered'), ClientGood(c, covered'),
           RecoveryShape(r), r.acknowledge = recovery.acknowledge,
           c.required = None /\ c.socket # "closed" =>
                Fetched(r, c, announced, stream_id, orphaned),
           c.socket # "closed" =>
                /\ QueueOf(q, announced, stream_id, latest_published_event_id, orphaned)
                /\ announced => c.streamId = stream_id \/ Coming(q)
    PROVE  DeliveryInv'
<1> DEFINE closed == c.socket = "closed"
           left == IF closed THEN FetchInterrupted(r) ELSE r
<1>1. /\ stream_id' = stream_id /\ latest_published_event_id' = latest_published_event_id
      /\ next_event_id' = next_event_id /\ entries' = entries /\ publishing' = publishing
      /\ orphaned' = orphaned
  BY DEF streamVars
<1>2. ClientShape(c) /\ DOMAIN c = ClientFields /\ c.socket \in {"open", "closed"}
  BY DEF ClientGood, ClientShape
<1>3. Cleared(c, cl')
  BY <1>2 DEF PhoneStep, Cleared, ClientFields
<1>4. /\ RecoveryShape(left) /\ left.acknowledge = recovery.acknowledge
      /\ closed => left.phase \notin {"reading", "answered"}
      /\ ~closed => left = r
  <2>1. CASE closed
    <3> DEFINE x == FetchInterrupted(r)
    <3>1. /\ DOMAIN x = RecoveryFields /\ x.acknowledge = r.acknowledge /\ x.upTo = r.upTo
          /\ x.generation = r.generation /\ x.resumeAfterEventId = r.resumeAfterEventId
          /\ x.phase \notin {"reading", "answered"}
      BY DEF RecoveryShape, RecoveryFields, FetchInterrupted
    <3>2. left = x
      BY <2>1
    <3> HIDE DEF x, left
    <3> QED BY <2>1, <3>1, <3>2 DEF RecoveryShape
  <2>2. CASE ~closed
    BY <2>2
  <2> QED BY <2>1, <2>2
<1> HIDE DEF left
<1>5. recovery' = IF c.required = None THEN left ELSE StartRecovery(left, c)
  BY DEF PhoneStep, left
<1>6. /\ RecoveryShape(recovery)' /\ recovery'.acknowledge = Acknowledges(c)
      /\ c.required # None => recovery'.phase = "fetching"
  <2>1. CASE c.required = None
    BY <1>4, <1>5, <2>1 DEF Acknowledges
  <2>2. CASE c.required # None
    <3> DEFINE x == StartRecovery(left, c)
    <3>1. c.required \in SnapshotRequests
      BY <1>2, <2>2 DEF ClientShape
    <3>2. c.required.resumeAfterEventId \in Nat /\ c.required.acknowledge \in BOOLEAN
      BY <3>1 DEF SnapshotRequests
    <3>3. /\ DOMAIN x = RecoveryFields /\ x.acknowledge = c.required.acknowledge
          /\ x.upTo = left.upTo /\ x.phase = "fetching"
          /\ x.generation = c.replayGeneration
          /\ x.resumeAfterEventId = c.required.resumeAfterEventId
      BY <1>4 DEF RecoveryShape, RecoveryFields, StartRecovery
    <3>4. recovery' = x
      BY <1>5, <2>2
    <3> HIDE DEF x
    <3>5. recovery'.acknowledge \in BOOLEAN
      BY <3>2, <3>3, <3>4, Zenon
    <3> QED BY <1>2, <1>4, <2>2, <3>2, <3>3, <3>4, <3>5 DEF RecoveryShape, Acknowledges, ClientShape
  <2> QED BY <2>1, <2>2
<1>7. ClientGood(cl, covered)'
  <2>1. delivered' = Told(c)
    BY DEF PhoneStep, Told
  <2>2. latest_published_event_id' \in Nat /\ latest_published_event_id <= latest_published_event_id'
    BY <1>1, PhoneFinds
  <2> QED BY <1>1, <1>3, <1>6, <2>1, <2>2, ClearedGood
<1>8. BridgeInv'
  <2>1. DOMAIN queue' = DOMAIN queue
    BY DEF PhoneStep
  <2>2. StreamInv'
    BY <1>1 DEF StreamInv, BufferIsNewestRun, DeliveryInv, BridgeInv
  <2> QED BY <1>1, <2>1, <2>2 DEF BridgeInv, DeliveryInv
<1>9. HistoryInv'
  <2>1. c.emitted \subseteq Nat \X EventIds
    BY <1>2 DEF ClientShape
  <2>2. delivered' = delivered \cup c.emitted
    BY DEF PhoneStep
  <2> QED BY <1>3, <2>1, <2>2 DEF HistoryInv, DeliveryInv, Setting, Cleared
<1>10. announced' \in BOOLEAN /\ (announced' <=> (announced /\ ~closed))
  BY DEF PhoneStep
<1>11. RecoveryInv'
  <2>1. Fetched(recovery', cl', announced', stream_id', orphaned')
    <3>1. CASE c.required # None
      BY <1>6, <3>1 DEF Fetched
    <3>2. CASE c.required = None /\ closed
      BY <1>4, <1>5, <3>2 DEF Fetched
    <3>3. CASE c.required = None /\ ~closed
      <4>1. recovery' = r /\ Fetched(r, c, announced, stream_id, orphaned)
        BY <1>4, <1>5, <3>3
      <4>2. (announced' <=> announced) /\ (Barrier(cl)' <=> Barrier(c))
        BY <1>3, <1>10, <3>3 DEF Cleared, Barrier
      <4> QED BY <1>1, <1>3, <4>1, <4>2 DEF Fetched, Cleared
    <3> QED BY <3>1, <3>2, <3>3
  <2> QED BY <1>6, <2>1 DEF RecoveryInv
<1>12. ChannelInv'
  <2>1. queue'[phone] = IF closed THEN <<>> ELSE q
    BY DEF PhoneStep, DeliveryInv, BridgeInv
  <2>2. reply' = IF closed THEN None ELSE reply
    BY DEF PhoneStep
  <2>3. reply' = None \/ PageOf(reply', stream_id', latest_published_event_id', orphaned')
    BY <1>1, <2>2 DEF DeliveryInv, ChannelInv
  <2>4. CASE closed
    <3>1. ~announced' /\ queue'[phone] = <<>>
      BY <1>10, <2>1, <2>4
    <3> QED BY <2>3, <3>1, EmptyOf DEF ChannelInv
  <2>5. CASE ~closed
    <3>1. queue'[phone] = q /\ announced' = announced
      BY <1>10, <2>1, <2>5 DEF DeliveryInv
    <3>4. announced => phone \in open'
      BY <2>5 DEF PhoneStep, DeliveryInv, ChannelInv
    <3>2. QueueOf(queue'[phone], announced', stream_id', latest_published_event_id', orphaned')
      BY <1>1, <2>5, <3>1
    <3>3. announced' => phone \in open' /\ (cl'.streamId = stream_id' \/ Coming(queue'[phone]))
      BY <1>1, <1>3, <2>5, <3>1, <3>4 DEF Cleared
    <3> QED BY <2>3, <3>2, <3>3 DEF ChannelInv
  <2> QED BY <2>4, <2>5
<1>13. orphaned' \in BOOLEAN
  BY <1>1 DEF DeliveryInv
<1> QED BY <1>7, <1>8, <1>9, <1>10, <1>11, <1>12, <1>13 DEF DeliveryInv
-----------------------------------------------------------------------------
(* What the phone does with a frame. *)

\* An event, the state of the connection or a replay page.
LEMMA FrameInv ==
    ASSUME DeliveryInv, queue[phone] # <<>>, NEW c, ClientGood(c, covered), Moves(cl, c),
           cl.streamId = stream_id \/ Head(queue[phone]).type = "state" => Joined(c),
           PhoneStep(c, recovery, Tail(queue[phone])),
           UNCHANGED <<streamVars, publishing, orphaned, covered>>
    PROVE  DeliveryInv' /\ StepGood
<1> DEFINE q == Tail(queue[phone])
<1>1. Setting(covered) /\ cl.emitted = {}
  BY PhoneFinds
<1>2. Setting(covered') /\ ClientGood(c, covered')
  BY <1>1
<1>3. /\ QueueOf(q, announced, stream_id, latest_published_event_id, orphaned)
      /\ Coming(queue[phone]) => Head(queue[phone]).type = "state" \/ Coming(q)
  BY TailOf DEF DeliveryInv, ChannelInv
<1>4. c.socket # "closed" /\ announced => c.streamId = stream_id \/ Coming(q)
  BY <1>3 DEF DeliveryInv, ChannelInv, Joined
<1>5. c.required = None => Fetched(recovery, c, announced, stream_id, orphaned)
  BY DEF DeliveryInv, RecoveryInv, Fetched, Moves, Barrier
<1>6. RecoveryShape(recovery)
  BY DEF DeliveryInv, RecoveryInv
<1>7. c.required = None /\ c.socket # "closed" => Fetched(recovery, c, announced, stream_id, orphaned)
  BY <1>5
<1>8. c.socket # "closed" =>
        /\ QueueOf(q, announced, stream_id, latest_published_event_id, orphaned)
        /\ announced => c.streamId = stream_id \/ Coming(q)
  BY <1>3, <1>4
<1>9. UNCHANGED <<streamVars, publishing, orphaned>>
  OBVIOUS
<1> HIDE DEF q
<1>10. PhoneStep(c, recovery, q)
  BY DEF q
<1>11. DeliveryInv'
  BY <1>2, <1>6, <1>7, <1>8, <1>9, <1>10, PhoneStepInv
<1>12. delivered' = delivered \cup c.emitted /\ cl'.recoveryWatermark = c.recoveryWatermark
  BY <1>1 DEF PhoneStep, ClientGood, ClientShape, ClientFields
<1>13. StepGood
  BY <1>1, <1>12, MoveStep
<1> QED BY <1>11, <1>13

\* The parts of Receive that the frame does not choose.
ReceiveRest == UNCHANGED <<streamVars, publishing, faults, orphaned>>

LEMMA ReceiveEventInv ==
    ASSUME DeliveryInv, queue[phone] # <<>>, ReceiveEvent(Head(queue[phone])), ReceiveRest
    PROVE  DeliveryInv' /\ StepGood
<1> DEFINE f == Head(queue[phone])
           c == HandleEvent(cl, f.stream, f.event_id, "live")
<1>1. f.type = "event" /\ PhoneStep(c, recovery, Tail(queue[phone])) /\ covered' = covered
  BY DEF ReceiveEvent
<1>2. FrameOf(f, stream_id, latest_published_event_id, orphaned)
  BY TailOf DEF DeliveryInv, ChannelInv
<1>3. f.stream = stream_id /\ f.event_id \in 1..latest_published_event_id
  BY <1>1, <1>2 DEF FrameOf
<1>4. Setting(covered) /\ ClientGood(cl, covered)
  BY PhoneFinds
<1> HIDE DEF f
<1>5. f.event_id \in EventIds /\ f.event_id <= latest_published_event_id
  BY <1>3, <1>4, HubAssumptions DEF Setting, EventIds
<1>6. ClientGood(c, covered) /\ Carries(cl, c) /\ Joined(c)
  BY <1>3, <1>4, <1>5, EventGood
<1> HIDE DEF c
<1> QED BY <1>1, <1>6, FrameInv DEF ReceiveRest, Carries

LEMMA ReceiveStateInv ==
    ASSUME DeliveryInv, queue[phone] # <<>>, ReceiveState(Head(queue[phone])), ReceiveRest
    PROVE  DeliveryInv' /\ StepGood
<1> DEFINE f == Head(queue[phone])
           c == HandleConnectionState(cl, f.stream)
<1>1. PhoneStep(c, recovery, Tail(queue[phone])) /\ covered' = covered
  BY DEF ReceiveState
<1>2. FrameOf(f, stream_id, latest_published_event_id, orphaned)
  BY TailOf DEF DeliveryInv, ChannelInv
<1>3. f.stream = stream_id
  BY <1>2 DEF FrameOf
<1>4. Setting(covered) /\ ClientGood(cl, covered)
  BY PhoneFinds
<1> HIDE DEF f
<1>5. ClientGood(c, covered) /\ Moves(cl, c) /\ Joined(c)
  BY <1>3, <1>4, StateGood
<1> HIDE DEF c
<1> QED BY <1>1, <1>5, FrameInv DEF ReceiveRest

LEMMA ReceiveReplayInv ==
    ASSUME DeliveryInv, queue[phone] # <<>>, ReceiveReplay(Head(queue[phone])), ReceiveRest
    PROVE  DeliveryInv' /\ StepGood
<1> DEFINE f == Head(queue[phone])
           c == HandleReplayPage(cl, f)
<1>1. f.type = "replay" /\ PhoneStep(c, recovery, Tail(queue[phone])) /\ covered' = covered
  BY DEF ReceiveReplay
<1>2. FrameOf(f, stream_id, latest_published_event_id, orphaned)
  BY TailOf DEF DeliveryInv, ChannelInv
<1>3. PageOf(f, stream_id, latest_published_event_id, orphaned)
  BY <1>1, <1>2 DEF FrameOf
<1>4. Setting(covered) /\ ClientGood(cl, covered)
  BY PhoneFinds
<1>5. Head(queue[phone]).type # "state"
  BY <1>1
<1> HIDE DEF f
<1>6. ClientGood(c, covered) /\ Moves(cl, c) /\ (cl.streamId = stream_id => Joined(c))
  BY <1>3, <1>4, PageStepGood
<1> HIDE DEF c
<1>7. cl.streamId = stream_id \/ Head(queue[phone]).type = "state" => Joined(c)
  BY <1>5, <1>6
<1> QED BY <1>1, <1>6, <1>7, FrameInv DEF ReceiveRest
\* Draining the buffer lowers and raises no barrier.
LEMMA DrainKeepsWatermark ==
    ASSUME NEW c, DOMAIN c = ClientFields
    PROVE  DrainThenFillGap(c).recoveryWatermark = c.recoveryWatermark
<1> DEFINE g == DrainPendingEvents(c)
<1>1. DOMAIN g = ClientFields /\ g.recoveryWatermark = c.recoveryWatermark
  BY DEF DrainPendingEvents, EmitNumberedEvents, ClientFields
<1> HIDE DEF g
<1>2. ScheduleReplay(g).recoveryWatermark = g.recoveryWatermark
  BY <1>1 DEF ScheduleReplay, RequestPage, ClientFields
<1> QED BY <1>1, <1>2 DEF DrainThenFillGap, g

LEMMA MaxOfTwo ==
    ASSUME NEW a \in Int, NEW b \in Int
    PROVE  Max({a, b}) \in Int /\ a <= Max({a, b}) /\ b <= Max({a, b})
<1> DEFINE S == {a, b}
<1>1. \E x \in S : \A y \in S : x >= y
  <2>1. CASE a >= b
    BY <2>1
  <2>2. CASE b >= a
    BY <2>2
  <2> QED BY <2>1, <2>2
<1>2. Max(S) \in S /\ \A y \in S : Max(S) >= y
  BY <1>1 DEF Max
<1> QED BY <1>2

\* The answer that ends a snapshot fetch: what it covers reaches the watermark
\* the attempt acknowledges, of the stream the client follows.
LEMMA ReceiveSnapshotInv ==
    ASSUME DeliveryInv, queue[phone] # <<>>, ReceiveSnapshot(Head(queue[phone])), ReceiveRest
    PROVE  DeliveryInv' /\ StepGood
<1> DEFINE f == Head(queue[phone])
           q == Tail(queue[phone])
           current == recovery.phase = "answered" /\ recovery.generation = f.generation
           done == [recovery EXCEPT !.phase = "idle", !.epochResetPending = FALSE]
           acked == IF recovery.acknowledge
                    THEN AcknowledgeSnapshotRecovery(cl, recovery.resumeAfterEventId)
                    ELSE cl
           seen == [covered EXCEPT ![recovery.stream] = Max({@, recovery.upTo})]
<1>1. /\ f.type = "snapshot"
      /\ PhoneStep(IF current THEN acked ELSE cl, IF current THEN done ELSE recovery, q)
      /\ covered' = IF current THEN seen ELSE covered
  BY DEF ReceiveSnapshot
<1>2. /\ QueueOf(q, announced, stream_id, latest_published_event_id, orphaned)
      /\ Coming(queue[phone]) => Head(queue[phone]).type = "state" \/ Coming(q)
      /\ announced /\ ~Coming(queue[phone])
  <2>1. QueueOf(queue[phone], announced, stream_id, latest_published_event_id, orphaned)
    BY DEF DeliveryInv, ChannelInv
  <2> QED BY <1>1, <2>1, TailOf
<1>3. cl.streamId = stream_id
  BY <1>2 DEF DeliveryInv, ChannelInv
<1>4. Setting(covered) /\ ClientGood(cl, covered) /\ ClientShape(cl) /\ cl.emitted = {} /\ cl.required = None
  BY PhoneFinds
<1>5. RecoveryShape(recovery) /\ Fetched(recovery, cl, announced, stream_id, orphaned)
  BY DEF DeliveryInv, RecoveryInv
<1>6. CASE ~current
  <2>1. Moves(cl, cl)
    BY <1>4, SelfCarries DEF Carries
  <2>2. PhoneStep(cl, recovery, Tail(queue[phone])) /\ covered' = covered
    BY <1>1, <1>6
  <2>3. Joined(cl)
    BY <1>3 DEF Joined
  <2> QED BY <1>4, <2>1, <2>2, <2>3, FrameInv DEF ReceiveRest
<1>7. CASE current
  <2>1. /\ PhoneStep(acked, done, q) /\ covered' = seen /\ recovery.phase = "answered"
        /\ recovery.stream = stream_id
        /\ Barrier(cl) => orphaned \/ cl.recoveryWatermark <= recovery.upTo
    BY <1>1, <1>3, <1>5, <1>7 DEF Fetched
  <2>2. /\ seen \in [Streams -> Int]
        /\ \A s \in Streams : covered[s] \in Int /\ covered[s] <= seen[s]
        /\ recovery.upTo <= seen[stream_id]
    <3>1. /\ covered \in [Streams -> Int] /\ stream_id \in Streams
          /\ recovery.upTo \in Int
      BY <1>4, <1>5 DEF Setting, RecoveryShape
    <3> DEFINE m == Max({covered[stream_id], recovery.upTo})
    <3>2. m \in Int /\ covered[stream_id] <= m /\ recovery.upTo <= m
      BY <3>1, MaxOfTwo
    <3>3. seen = [covered EXCEPT ![stream_id] = m]
      BY <2>1
    <3> HIDE DEF m, seen
    <3> QED BY <3>1, <3>2, <3>3
  <2>3. Setting(seen)
    BY <1>4, <2>2 DEF Setting
  <2>4. ClientGood(cl, seen)
    BY <1>4, <2>2, <2>3, CoverGood
  <2>5. /\ DOMAIN done = RecoveryFields /\ done.acknowledge = recovery.acknowledge
        /\ done.upTo = recovery.upTo /\ done.generation = recovery.generation
        /\ done.resumeAfterEventId = recovery.resumeAfterEventId /\ done.phase = "idle"
    BY <1>5 DEF RecoveryShape, RecoveryFields
  <2> HIDE DEF done, seen, q
  <2>6. RecoveryShape(done) /\ \A c : Fetched(done, c, announced, stream_id, orphaned)
    BY <1>5, <2>5 DEF RecoveryShape, Fetched
  <2>7. UNCHANGED <<streamVars, publishing, orphaned>>
    BY DEF ReceiveRest
  <2> DEFINE low == [cl EXCEPT !.recoveryWatermark = None, !.awaitingFreshRecoveryBaseline = FALSE]
             lowers == recovery.acknowledge /\ cl.recoveryWatermark = recovery.resumeAfterEventId
  <2>8. CASE ~lowers
    <3>1. acked = cl
      BY <2>8 DEF AcknowledgeSnapshotRecovery
    <3>2. PhoneStep(cl, done, q)
      BY <2>1, <3>1
    <3>3. Setting(covered') /\ ClientGood(cl, covered')
      BY <2>1, <2>3, <2>4
    <3>4. done.acknowledge = recovery.acknowledge
      BY <2>5
    <3>5. cl.required = None /\ cl.socket # "closed" =>
            Fetched(done, cl, announced, stream_id, orphaned)
      BY <2>6
    <3>6. cl.socket # "closed" =>
            /\ QueueOf(q, announced, stream_id, latest_published_event_id, orphaned)
            /\ announced => cl.streamId = stream_id \/ Coming(q)
      BY <1>2, <1>3
    <3>7. DeliveryInv'
      BY <2>6, <2>7, <3>2, <3>3, <3>4, <3>5, <3>6, PhoneStepInv
    <3>8. Moves(cl, cl)
      BY <1>4, SelfCarries DEF Carries
    <3>9. delivered' = delivered \cup cl.emitted /\ cl'.recoveryWatermark = cl.recoveryWatermark
      BY <1>4, <3>2 DEF PhoneStep, ClientShape, ClientFields
    <3> QED BY <1>4, <3>7, <3>8, <3>9, MoveStep
  <2>9. CASE lowers
    <3> DEFINE d == DrainThenFillGap(low)
    <3>1. recovery.acknowledge = TRUE /\ Barrier(cl)
      BY <1>5, <2>9, ClientAssumptions DEF RecoveryShape, Barrier
    <3>2. acked = d
      BY <2>9 DEF AcknowledgeSnapshotRecovery
    <3>3. orphaned \/ cl.recoveryWatermark <= seen[stream_id]
      <4>1. cl.recoveryWatermark \in Int /\ recovery.upTo \in Int /\ seen[stream_id] \in Int
        BY <1>4, <1>5, <2>2, <3>1 DEF ClientShape, RecoveryShape, Barrier, Setting
      <4> QED BY <2>1, <2>2, <3>1, <4>1
    <3>4. /\ ClientGood(d, seen) /\ Moves(low, d) /\ d.streamId = stream_id
          /\ d.socket = cl.socket /\ low.emitted = cl.emitted
          /\ low.streamId = cl.streamId /\ low.lastSeenEventId = cl.lastSeenEventId
          /\ low.required = None /\ low.recoveryWatermark = None
      BY <1>3, <1>4, <2>3, <2>4, <3>1, <3>3, AcknowledgeGood
    <3>15. d.recoveryWatermark = None
      <4>1. DOMAIN low = ClientFields
        BY <1>4 DEF ClientShape
      <4> HIDE DEF low
      <4> QED BY <3>4, <4>1, DrainKeepsWatermark
    <3> HIDE DEF d, low, acked
    <3>5. PhoneStep(d, done, q)
      BY <2>1, <3>2
    <3>6. Setting(covered') /\ ClientGood(d, covered')
      BY <2>1, <2>3, <3>4
    <3>7. done.acknowledge = recovery.acknowledge
      BY <2>5
    <3>8. d.required = None /\ d.socket # "closed" =>
            Fetched(done, d, announced, stream_id, orphaned)
      BY <2>6
    <3>9. d.socket # "closed" =>
            /\ QueueOf(q, announced, stream_id, latest_published_event_id, orphaned)
            /\ announced => d.streamId = stream_id \/ Coming(q)
      BY <1>2, <3>4
    <3>10. DeliveryInv'
      BY <2>6, <2>7, <3>5, <3>6, <3>7, <3>8, <3>9, PhoneStepInv
    <3>11. /\ delivered' = delivered \cup d.emitted
           /\ cl'.recoveryWatermark = d.recoveryWatermark /\ cl'.streamId = d.streamId
      BY <3>4, <3>5 DEF PhoneStep, ClientGood, ClientShape, ClientFields
    <3>12. EmitsNext
      <4> SUFFICES ASSUME cl.lastSeenEventId > 0, NEW id \in NewlyDelivered(cl.streamId)
                   PROVE  /\ cl.lastSeenEventId < id
                          /\ \A k \in cl.lastSeenEventId + 1 .. id : <<cl.streamId, k>> \in delivered'
        BY DEF EmitsNext
      <4> DEFINE p == <<cl.streamId, id>>
      <4>1. p \in d.emitted \ low.emitted /\ p[1] = cl.streamId /\ p[2] = id
        BY <1>4, <3>4, <3>11 DEF NewlyDelivered
      <4> HIDE DEF p
      <4>2. Follower(low)
        BY <1>3, <3>4 DEF Follower
      <4>3. /\ low.lastSeenEventId < p[2]
            /\ \A k \in low.lastSeenEventId + 1 .. p[2] : <<stream_id, k>> \in d.emitted
        BY <3>4, <4>1, <4>2 DEF Moves
      <4> QED BY <1>3, <3>4, <3>11, <4>1, <4>3
    <3>13. HoldsPosition
      BY <3>11, <3>15 DEF HoldsPosition, Barrier
    <3>14. LowersAfterSnapshot
      <4>1. cl.recoveryWatermark \in Int /\ seen[stream_id] \in Int /\ stream_id # 0
        BY <1>4, <2>2, <3>1 DEF ClientShape, Barrier, Setting, Streams
      <4> QED BY <2>1, <3>3, <3>4, <3>11, <4>1 DEF LowersAfterSnapshot
    <3> QED BY <3>10, <3>12, <3>13, <3>14 DEF StepGood
  <2> QED BY <2>8, <2>9
<1> QED BY <1>6, <1>7
-----------------------------------------------------------------------------
(* Steps that hand nothing to the app. *)

LEMMA QuietInv ==
    ASSUME DeliveryInv, BridgeInv', UNCHANGED <<delivered, covered, orphaned, stream_id>>,
           latest_published_event_id <= latest_published_event_id',
           NEW c, ClientGood(c, covered), SamePosition(cl, c), Cleared(c, cl'),
           RecoveryShape(recovery'), recovery'.acknowledge = recovery.acknowledge,
           Fetched(recovery', cl, announced', stream_id, orphaned),
           announced' \in BOOLEAN, ChannelInv'
    PROVE  DeliveryInv' /\ StepGood
<1>1. Setting(covered) /\ cl.emitted = {} /\ cl.required = None
  BY PhoneFinds
<1>2. latest_published_event_id' \in Nat /\ stream_id' = stream_id /\ orphaned' = orphaned
  BY DEF BridgeInv, StreamInv
<1>3. delivered' = Told(c) /\ recovery'.acknowledge = Acknowledges(c)
  BY <1>1 DEF Told, Acknowledges, SamePosition
<1>4. ClientGood(cl, covered)'
  BY <1>1, <1>2, <1>3, ClearedGood
<1>5. HistoryInv'
  BY DEF HistoryInv, DeliveryInv, Cleared
<1>6. /\ cl'.recoveryWatermark = cl.recoveryWatermark /\ cl'.streamId = cl.streamId
      /\ Barrier(cl)' <=> Barrier(cl)
  BY DEF Cleared, SamePosition, Barrier
<1>7. RecoveryInv'
  BY <1>2, <1>6 DEF RecoveryInv, Fetched
<1>8. DeliveryInv'
  BY <1>2, <1>4, <1>5, <1>7 DEF DeliveryInv
<1>9. StepGood
  BY <1>6, NothingEmitted
<1> QED BY <1>8, <1>9

\* The phone does nothing.
LEMMA BridgeStepInv ==
    ASSUME DeliveryInv, BridgeInv', UNCHANGED <<cl, recovery, delivered, covered, orphaned, stream_id>>,
           latest_published_event_id <= latest_published_event_id',
           announced => announced', announced' \in BOOLEAN, ChannelInv'
    PROVE  DeliveryInv' /\ StepGood
<1>1. ClientGood(cl, covered) /\ cl.emitted = {} /\ cl.required = None /\ DOMAIN cl = ClientFields
  BY PhoneFinds DEF ClientShape
<1>2. SamePosition(cl, cl) /\ Cleared(cl, cl')
  BY <1>1 DEF SamePosition, Cleared
<1>3. /\ RecoveryShape(recovery') /\ recovery'.acknowledge = recovery.acknowledge
      /\ Fetched(recovery', cl, announced', stream_id, orphaned)
  BY DEF DeliveryInv, RecoveryInv, Fetched
<1> QED BY <1>1, <1>2, <1>3, QuietInv

LEMMA PublishesInv ==
    ASSUME DeliveryInv, NEW p \in Publishers, NEW size \in Sizes, Publish(p, size), BridgeOnly
    PROVE  DeliveryInv' /\ StepGood
<1> DEFINE n == latest_published_event_id
<1>1. /\ StreamInv /\ n \in Nat /\ next_event_id = n + 1 /\ next_event_id <= MaxEventId
      /\ n' = next_event_id
  BY DEF DeliveryInv, BridgeInv, StreamInv, BufferIsNewestRun, Publish
<1>2. StreamInv'
  BY <1>1, PublishStream
<1>3. /\ stream_id' = stream_id /\ queue' = queue /\ open' = open /\ reply' = reply
      /\ announced' = announced /\ orphaned' = orphaned /\ cl' = cl
      /\ recovery' = recovery /\ delivered' = delivered /\ covered' = covered
  BY DEF Publish, clientVars, BridgeOnly, history
<1>4. n' \in Nat /\ n <= n'
  BY <1>1
<1>5. BridgeInv'
  <2>1. /\ publishing \in [Publishers -> Nat] /\ \A x \in Publishers : publishing[x] <= n
        /\ publishing' = [publishing EXCEPT ![p] = n']
    BY <1>1 DEF DeliveryInv, BridgeInv, Publish
  <2> HIDE DEF n
  <2>2. publishing' \in [Publishers -> Nat] /\ \A x \in Publishers : publishing'[x] <= n'
    BY <1>1, <1>4, <2>1
  <2>3. n' <= MaxEventId
    BY <1>1
  <2> QED BY <1>2, <1>3, <2>2, <2>3 DEF BridgeInv, DeliveryInv, n
<1>6. ChannelInv'
  <2>1. QueueOf(queue[phone], announced, stream_id, n', orphaned)
    BY <1>1, <1>4, QueueGrows DEF DeliveryInv, ChannelInv
  <2>2. reply = None \/ PageOf(reply, stream_id, n', orphaned)
    BY <1>1, <1>4, PageGrows DEF DeliveryInv, ChannelInv
  <2> QED BY <1>3, <2>1, <2>2 DEF ChannelInv, DeliveryInv
<1>7. announced' \in BOOLEAN /\ (announced => announced')
  BY <1>3 DEF DeliveryInv
<1> QED BY <1>3, <1>4, <1>5, <1>6, <1>7, BridgeStepInv

\* Frames the bridge queues for the phone.
LEMMA QueuedInv ==
    ASSUME DeliveryInv, UNCHANGED <<streamVars, open, cl, delivered, covered, orphaned>>,
           publishing' \in [Publishers -> Nat],
           \A p \in Publishers : publishing'[p] <= latest_published_event_id,
           DOMAIN queue' = Clients,
           QueueOf(queue'[phone], announced', stream_id, latest_published_event_id, orphaned),
           announced' => phone \in open /\ (cl.streamId = stream_id \/ Coming(queue'[phone])),
           reply' = None \/ reply' = reply,
           announced => announced', announced' \in BOOLEAN,
           RecoveryShape(recovery'), recovery'.acknowledge = recovery.acknowledge,
           Fetched(recovery', cl, announced', stream_id, orphaned)
    PROVE  DeliveryInv' /\ StepGood
<1>1. /\ stream_id' = stream_id /\ latest_published_event_id' = latest_published_event_id
      /\ next_event_id' = next_event_id /\ entries' = entries
  BY DEF streamVars
<1>2. BridgeInv'
  BY <1>1 DEF BridgeInv, DeliveryInv, StreamInv, BufferIsNewestRun
<1>3. ChannelInv'
  BY <1>1 DEF ChannelInv, DeliveryInv
<1>4. latest_published_event_id \in Nat /\ ClientGood(cl, covered) /\ cl.emitted = {} /\ cl.required = None
      /\ DOMAIN cl = ClientFields
  BY PhoneFinds DEF ClientShape
<1>5. latest_published_event_id <= latest_published_event_id'
  BY <1>1, <1>4
<1>6. SamePosition(cl, cl) /\ Cleared(cl, cl')
  BY <1>4 DEF SamePosition, Cleared
<1> QED BY <1>1, <1>2, <1>3, <1>4, <1>5, <1>6, QuietInv

LEMMA BroadcastsInv ==
    ASSUME DeliveryInv, NEW p \in Publishers, Broadcast(p), BridgeOnly
    PROVE  DeliveryInv' /\ StepGood
<1> DEFINE n == latest_published_event_id
           f == EventFrame(stream_id, publishing[p])
<1>1. /\ publishing \in [Publishers -> Nat] /\ \A x \in Publishers : publishing[x] <= n
      /\ publishing[p] # 0 /\ publishing' = [publishing EXCEPT ![p] = 0] /\ n \in Nat
      /\ stream_id \in Nat
  BY DEF DeliveryInv, BridgeInv, StreamInv, Broadcast
<1>2. publishing' \in [Publishers -> Nat] /\ \A x \in Publishers : publishing'[x] <= n
  <2> HIDE DEF n
  <2> QED BY <1>1
<1>3. FrameOf(f, stream_id, n, orphaned) /\ f.type = "event"
  <2>1. publishing[p] \in 1..n
    BY <1>1
  <2>2. f \in PhoneFrames
    BY <1>1, <2>1 DEF EventFrame, PhoneFrames, Frame
  <2> QED BY <2>1, <2>2 DEF FrameOf, EventFrame
<1>4. queue'[phone] \in {queue[phone], Append(queue[phone], f)} /\ DOMAIN queue' = Clients
  BY DEF Broadcast
<1>5. /\ announced' = announced /\ reply' = reply /\ recovery' = recovery
      /\ UNCHANGED <<streamVars, open, cl, delivered, covered, orphaned>>
  BY DEF Broadcast, BridgeOnly, history
<1> HIDE DEF f, n
<1>6. QueueOf(queue[phone], announced, stream_id, n, orphaned)
  BY DEF DeliveryInv, ChannelInv, n
<1>7. /\ QueueOf(queue'[phone], announced', stream_id, n, orphaned)
      /\ Coming(queue[phone]) => Coming(queue'[phone])
  <2>1. CASE queue'[phone] = queue[phone]
    BY <1>5, <1>6, <2>1
  <2>2. CASE queue'[phone] = Append(queue[phone], f)
    BY <1>3, <1>5, <1>6, <2>2, AppendOf
  <2> QED BY <1>4, <2>1, <2>2
<1>8. announced' => phone \in open /\ (cl.streamId = stream_id \/ Coming(queue'[phone]))
  BY <1>5, <1>7 DEF DeliveryInv, ChannelInv
<1>9. /\ announced' \in BOOLEAN /\ (announced => announced')
      /\ RecoveryShape(recovery') /\ recovery'.acknowledge = recovery.acknowledge
      /\ Fetched(recovery', cl, announced', stream_id, orphaned)
  BY <1>5 DEF DeliveryInv, RecoveryInv
<1> QED BY <1>2, <1>4, <1>5, <1>7, <1>8, <1>9, QueuedInv DEF n

\* What send_json does to the phone's queue.
LEMMA SentTo ==
    ASSUME DeliveryInv, NEW f, SendJson(phone, f)
    PROVE  /\ queue'[phone] = Append(queue[phone], f) /\ DOMAIN queue' = Clients
           /\ phone \in open /\ UNCHANGED <<streamVars, publishing, open>>
           /\ publishing' \in [Publishers -> Nat]
           /\ \A p \in Publishers : publishing'[p] <= latest_published_event_id
           /\ QueueOf(queue[phone], announced, stream_id, latest_published_event_id, orphaned)
           /\ announced => cl.streamId = stream_id \/ Coming(queue[phone])
           /\ announced \in BOOLEAN
           /\ RecoveryShape(recovery) /\ Fetched(recovery, cl, announced, stream_id, orphaned)
BY DEF SendJson, DeliveryInv, BridgeInv, ChannelInv, RecoveryInv

LEMMA AnnounceInv ==
    ASSUME DeliveryInv, AnnounceStream PROVE DeliveryInv' /\ StepGood
<1> DEFINE f == StateFrame(stream_id)
           n == latest_published_event_id
<1>1. /\ ~announced /\ SendJson(phone, f) /\ announced' = TRUE /\ reply' = reply
      /\ recovery' = recovery /\ UNCHANGED <<cl, delivered, covered, orphaned>>
  BY DEF AnnounceStream, history
<1>2. FrameOf(f, stream_id, n, orphaned) /\ f.type = "state"
  <2>1. stream_id \in Nat
    BY DEF DeliveryInv, BridgeInv, StreamInv
  <2> QED BY <2>1 DEF FrameOf, StateFrame, PhoneFrames, Frame
<1> HIDE DEF f, n
<1>3. /\ queue'[phone] = Append(queue[phone], f) /\ DOMAIN queue' = Clients
      /\ phone \in open /\ UNCHANGED <<streamVars, publishing, open>>
      /\ publishing' \in [Publishers -> Nat]
      /\ \A p \in Publishers : publishing'[p] <= n
      /\ QueueOf(queue[phone], announced, stream_id, n, orphaned)
      /\ RecoveryShape(recovery) /\ Fetched(recovery, cl, announced, stream_id, orphaned)
  BY <1>1, SentTo DEF n
<1>4. QueueOf(queue'[phone], announced', stream_id, n, orphaned) /\ Coming(queue'[phone])
  <2> DEFINE q == queue[phone]
  <2>1. /\ QueueOf(q, announced', stream_id, n, orphaned) /\ queue'[phone] = Append(q, f)
        /\ \A i \in 1..Len(q) : q[i].type # "snapshot"
    BY <1>1, <1>3 DEF QueueOf
  <2>2. f.type \in {"state", "snapshot"} => announced'
    BY <1>1
  <2> HIDE DEF q
  <2>3. /\ QueueOf(Append(q, f), announced', stream_id, n, orphaned)
        /\ f.type = "state" => Coming(Append(q, f))
    BY <1>2, <2>1, <2>2, AppendOf
  <2> QED BY <1>2, <2>1, <2>3
<1>5. Fetched(recovery', cl, announced', stream_id, orphaned)
  BY <1>1, <1>3 DEF Fetched
<1>6. announced' => phone \in open /\ (cl.streamId = stream_id \/ Coming(queue'[phone]))
  BY <1>3, <1>4
<1> QED BY <1>1, <1>3, <1>4, <1>5, <1>6, QueuedInv DEF n

LEMMA AnsweredInv ==
    ASSUME DeliveryInv, ReplayAnswered PROVE DeliveryInv' /\ StepGood
<1> DEFINE n == latest_published_event_id
<1>1. /\ SendJson(phone, reply) /\ reply # None /\ reply' = None
      /\ announced' = announced
      /\ recovery' = recovery /\ UNCHANGED <<cl, delivered, covered, orphaned>>
  BY DEF ReplayAnswered, history
<1>2. PageOf(reply, stream_id, n, orphaned)
  BY <1>1 DEF DeliveryInv, ChannelInv
<1>3. FrameOf(reply, stream_id, n, orphaned) /\ reply.type = "replay"
  <2>1. reply \in ReplayFrames /\ reply.stream = stream_id
    BY <1>2 DEF PageOf
  <2>2. reply.type = "replay" /\ reply \in PhoneFrames
    BY <2>1 DEF ReplayFrames, PhoneFrames
  <2> QED BY <1>2, <2>1, <2>2 DEF FrameOf
<1> HIDE DEF n
<1>4. /\ queue'[phone] = Append(queue[phone], reply) /\ DOMAIN queue' = Clients
      /\ phone \in open /\ UNCHANGED <<streamVars, publishing, open>>
      /\ publishing' \in [Publishers -> Nat]
      /\ \A p \in Publishers : publishing'[p] <= n
      /\ QueueOf(queue[phone], announced, stream_id, n, orphaned)
      /\ announced => cl.streamId = stream_id \/ Coming(queue[phone])
      /\ announced \in BOOLEAN
      /\ RecoveryShape(recovery) /\ Fetched(recovery, cl, announced, stream_id, orphaned)
  BY <1>1, SentTo DEF n
<1>5. /\ QueueOf(queue'[phone], announced', stream_id, n, orphaned)
      /\ Coming(queue[phone]) => Coming(queue'[phone])
  BY <1>1, <1>3, <1>4, AppendOf
<1>6. announced' => phone \in open /\ (cl.streamId = stream_id \/ Coming(queue'[phone]))
  BY <1>1, <1>4, <1>5
<1>7. Fetched(recovery', cl, announced', stream_id, orphaned)
  BY <1>1, <1>4
<1> QED BY <1>1, <1>4, <1>5, <1>6, <1>7, QueuedInv DEF n

LEMMA SnapshotAnsweredInv ==
    ASSUME DeliveryInv, SnapshotAnswered PROVE DeliveryInv' /\ StepGood
<1> DEFINE f == [type |-> "snapshot", stream |-> stream_id, generation |-> recovery.generation]
           n == latest_published_event_id
<1>1. /\ recovery.phase = "reading" /\ SendJson(phone, f) /\ announced' = announced /\ reply' = reply
      /\ recovery' = [recovery EXCEPT !.phase = "answered"]
      /\ UNCHANGED <<cl, delivered, covered, orphaned>>
  BY DEF SnapshotAnswered, history
<1>2. FrameOf(f, stream_id, n, orphaned) /\ f.type = "snapshot"
  <2>1. stream_id \in Nat /\ recovery.generation \in Nat
    BY DEF DeliveryInv, BridgeInv, StreamInv, RecoveryInv, RecoveryShape
  <2>2. f \in SnapshotFrames
    BY <2>1 DEF SnapshotFrames
  <2> QED BY <2>2 DEF FrameOf, PhoneFrames
<1> HIDE DEF f, n
<1>3. /\ queue'[phone] = Append(queue[phone], f) /\ DOMAIN queue' = Clients
      /\ phone \in open /\ UNCHANGED <<streamVars, publishing, open>>
      /\ publishing' \in [Publishers -> Nat]
      /\ \A p \in Publishers : publishing'[p] <= n
      /\ QueueOf(queue[phone], announced, stream_id, n, orphaned)
      /\ announced => cl.streamId = stream_id \/ Coming(queue[phone])
      /\ announced \in BOOLEAN
      /\ RecoveryShape(recovery) /\ Fetched(recovery, cl, announced, stream_id, orphaned)
  BY <1>1, SentTo DEF n
<1>4. announced
  BY <1>1, <1>3 DEF Fetched
<1>5. /\ QueueOf(queue'[phone], announced', stream_id, n, orphaned)
      /\ Coming(queue[phone]) => Coming(queue'[phone])
  BY <1>1, <1>2, <1>3, <1>4, AppendOf
<1>6. announced' => phone \in open /\ (cl.streamId = stream_id \/ Coming(queue'[phone]))
  BY <1>1, <1>3, <1>5
<1>7. /\ RecoveryShape(recovery') /\ recovery'.acknowledge = recovery.acknowledge
      /\ Fetched(recovery', cl, announced', stream_id, orphaned)
  <2> DEFINE x == [recovery EXCEPT !.phase = "answered"]
  <2>1. /\ DOMAIN x = RecoveryFields /\ x.acknowledge = recovery.acknowledge /\ x.upTo = recovery.upTo
        /\ x.generation = recovery.generation /\ x.resumeAfterEventId = recovery.resumeAfterEventId
        /\ x.stream = recovery.stream
    BY <1>3 DEF RecoveryShape, RecoveryFields
  <2>2. recovery' = x
    BY <1>1
  <2> HIDE DEF x
  <2> QED BY <1>1, <1>3, <1>4, <2>1, <2>2 DEF RecoveryShape, Fetched
<1> QED BY <1>1, <1>3, <1>5, <1>6, <1>7, QueuedInv DEF n
\* A step that changes neither the bridge nor where the phone stands.
LEMMA StandingInv ==
    ASSUME DeliveryInv, NEW c, cl' = c, ClientShape(c), SamePosition(cl, c), orphaned \/ Asked(c),
           UNCHANGED <<streamVars, publishing, delivered, covered, orphaned>>,
           DOMAIN queue' = Clients,
           QueueOf(queue'[phone], announced', stream_id, latest_published_event_id, orphaned),
           announced' => phone \in open' /\ (cl.streamId = stream_id \/ Coming(queue'[phone])),
           reply' = None \/ PageOf(reply', stream_id, latest_published_event_id, orphaned),
           announced' \in BOOLEAN,
           RecoveryShape(recovery'), recovery'.acknowledge = recovery.acknowledge,
           Fetched(recovery', cl, announced', stream_id, orphaned)
    PROVE  DeliveryInv' /\ StepGood
<1>1. /\ stream_id' = stream_id /\ latest_published_event_id' = latest_published_event_id
      /\ next_event_id' = next_event_id /\ entries' = entries
  BY DEF streamVars
<1>2. BridgeInv'
  BY <1>1 DEF BridgeInv, DeliveryInv, StreamInv, BufferIsNewestRun
<1>3. ChannelInv'
  BY <1>1 DEF ChannelInv, SamePosition
<1>4. /\ latest_published_event_id \in Nat /\ ClientGood(cl, covered)
      /\ cl.emitted = {} /\ cl.required = None
  BY PhoneFinds
<1>5. latest_published_event_id <= latest_published_event_id'
  BY <1>1, <1>4
<1>6. Cleared(c, cl')
  BY <1>4 DEF SamePosition, Cleared, ClientShape
<1>7. ClientGood(c, covered)
  BY <1>4, SamePositionGood
<1>8. UNCHANGED <<delivered, covered, orphaned, stream_id>>
  BY <1>1
<1>9. /\ RecoveryShape(recovery') /\ recovery'.acknowledge = recovery.acknowledge
      /\ Fetched(recovery', cl, announced', stream_id, orphaned)
      /\ announced' \in BOOLEAN /\ SamePosition(cl, c)
  OBVIOUS
<1> QED BY <1>2, <1>3, <1>5, <1>6, <1>7, <1>8, <1>9, QuietInv

\* What such a step finds.
LEMMA AtRest ==
    ASSUME DeliveryInv
    PROVE  /\ DOMAIN queue = Clients /\ announced \in BOOLEAN
           /\ QueueOf(queue[phone], announced, stream_id, latest_published_event_id, orphaned)
           /\ announced => phone \in open /\ (cl.streamId = stream_id \/ Coming(queue[phone]))
           /\ reply = None \/ PageOf(reply, stream_id, latest_published_event_id, orphaned)
           /\ RecoveryShape(recovery)
           /\ Fetched(recovery, cl, announced, stream_id, orphaned)
           /\ ClientShape(cl) /\ SamePosition(cl, cl) /\ (orphaned \/ Asked(cl))
BY DEF DeliveryInv, BridgeInv, ChannelInv, RecoveryInv, ClientGood, Placed, SamePosition

LEMMA OpenSocketInv ==
    ASSUME DeliveryInv, OpenSocket PROVE DeliveryInv' /\ StepGood
<1> DEFINE c == [cl EXCEPT !.socket = "open"]
<1>1. /\ phone \notin open /\ queue' = [queue EXCEPT ![phone] = <<>>] /\ cl' = c /\ announced' = FALSE
      /\ reply' = reply /\ recovery' = recovery
      /\ UNCHANGED <<streamVars, publishing, delivered, covered, orphaned>>
  BY DEF OpenSocket, AddClient, history
<1>2. ~announced
  BY <1>1, AtRest
<1>3. ClientShape(c) /\ SamePosition(cl, c) /\ c.outbox = cl.outbox
  <2>1. ClientShape(cl)
    BY AtRest
  <2>2. /\ DOMAIN c = ClientFields /\ c.socket = "open" /\ SamePosition(cl, c)
        /\ c.replayGeneration = cl.replayGeneration /\ c.outbox = cl.outbox
    BY <2>1 DEF ClientShape, ClientFields, SamePosition
  <2> HIDE DEF c
  <2> QED BY <2>1, <2>2 DEF ClientShape, SamePosition
<1> HIDE DEF c
<1>4. orphaned \/ Asked(c)
  BY <1>3, AtRest DEF Asked
<1>5. queue'[phone] = <<>> /\ DOMAIN queue' = Clients
  BY <1>1, AtRest
<1>6. QueueOf(queue'[phone], announced', stream_id, latest_published_event_id, orphaned)
  BY <1>5, EmptyOf
<1>7. /\ RecoveryShape(recovery') /\ recovery'.acknowledge = recovery.acknowledge
      /\ Fetched(recovery', cl, announced', stream_id, orphaned)
  BY <1>1, <1>2, AtRest DEF Fetched
<1>8. /\ announced' => phone \in open' /\ (cl.streamId = stream_id \/ Coming(queue'[phone]))
      /\ reply' = None \/ PageOf(reply', stream_id, latest_published_event_id, orphaned)
      /\ announced' \in BOOLEAN
  BY <1>1, AtRest
<1>9. UNCHANGED <<streamVars, publishing, delivered, covered, orphaned>> /\ cl' = c
  BY <1>1
<1> QED BY <1>3, <1>4, <1>5, <1>6, <1>7, <1>8, <1>9, StandingInv

\* A part of a buffer of numbers that were published.
LEMMA PartOf ==
    ASSUME NEW S, NEW es \in Seq(S), NEW m \in Nat, NEW n \in Nat, n <= Len(es)
    PROVE  SubSeq(es, m + 1, n) \in Seq(S)
<1>1. Len(es) \in Nat
  BY LenProperties
<1>2. \A i \in (m + 1)..n : i \in 1..Len(es)
  BY <1>1
<1>3. \A i \in (m + 1)..n : es[i] \in S
  BY <1>2, ElementOfSeq
<1>4. m + 1 \in Int /\ n \in Int
  OBVIOUS
<1> DEFINE k == m + 1
<1> HIDE DEF k
<1>5. SubSeq(es, k, n) \in Seq(S)
  BY <1>3, <1>4, SubSeqProperties DEF k
<1> QED BY <1>5 DEF k

LEMMA SinceOf ==
    ASSUME NEW S, NEW es \in Seq(S), NEW after, NEW limit, NEW bytes
    PROVE  Since(es, after, limit, bytes).events \in Seq(S)
<1> DEFINE A == {i \in DOMAIN es : es[i].event_id <= after}
           a == Cardinality(A)
           rest == After(es, after)
           T == {j \in DOMAIN rest : j <= limit /\ TotalBytes(SubSeq(rest, 1, j)) <= bytes}
           t == Cardinality(T)
<1>1. a \in Nat
  <2>1. A \in SUBSET (1..Len(es)) /\ Len(es) \in Nat
    BY LenProperties
  <2> HIDE DEF A
  <2> QED BY <2>1, CountBounds
<1>2. rest \in Seq(S)
  <2>1. rest = SubSeq(es, a + 1, Len(es))
    BY DEF After
  <2>2. Len(es) \in Nat /\ Len(es) <= Len(es)
    BY LenProperties
  <2> HIDE DEF rest, a
  <2> QED BY <1>1, <2>1, <2>2, PartOf
<1> HIDE DEF rest
<1>3. t \in 0..Len(rest) /\ Len(rest) \in Nat
  <2>1. T \in SUBSET (1..Len(rest)) /\ Len(rest) \in Nat
    BY <1>2, LenProperties
  <2> HIDE DEF T
  <2> QED BY <2>1, CountBounds
<1>4. Since(es, after, limit, bytes).events = SubSeq(rest, 1, t)
  BY DEF Since, rest
<1>5. t \in Nat /\ t <= Len(rest) /\ 0 \in Nat
  BY <1>3
<1> HIDE DEF t
<1>6. SubSeq(rest, 0 + 1, t) \in Seq(S)
  BY <1>2, <1>5, PartOf
<1> QED BY <1>4, <1>6

LEMMA ReplayReadInv ==
    ASSUME DeliveryInv, ReplayRead PROVE DeliveryInv' /\ StepGood
<1> DEFINE n == latest_published_event_id
           page == ReplaySnapshot(cl.outbox.cursor, PageLimit)
           r == [type |-> "replay", stream |-> stream_id,
                 generation |-> cl.outbox.generation,
                 cursor |-> cl.outbox.cursor, target |-> cl.outbox.target,
                 ids |-> [i \in DOMAIN page.events |-> page.events[i].event_id],
                 hasMore |-> page.has_more,
                 earliest |-> page.earliest_event_id,
                 latest |-> page.latest_event_id]
           c == [cl EXCEPT !.outbox = None]
<1>1. /\ announced /\ cl.outbox # None /\ reply' = r /\ cl' = c
      /\ announced' = announced /\ recovery' = recovery /\ queue' = queue /\ open' = open
      /\ UNCHANGED <<streamVars, publishing, delivered, covered, orphaned>>
  BY DEF ReplayRead, hubVars, clientVars, history
<1>2. /\ StreamInv /\ n \in Nat /\ n <= MaxEventId
  BY DEF DeliveryInv, BridgeInv, StreamInv
<1>3. cl.outbox \in Requests
  BY <1>1, AtRest DEF ClientShape
<1>4. entries \in Seq({e \in Entry : e.event_id \in 1..n})
  <2>1. entries \in Seq(Entry) /\ Len(entries) \in Nat /\ Len(entries) <= n /\ n \in Nat
    BY <1>2 DEF StreamInv, BufferIsNewestRun
  <2>2. \A i \in 1..Len(entries) : entries[i] \in Entry /\ entries[i].event_id = n - Len(entries) + i
    BY <2>1, <1>2, ElementOfSeq DEF StreamInv, BufferIsNewestRun
  <2>3. \A i \in 1..Len(entries) : entries[i] \in {e \in Entry : e.event_id \in 1..n}
    BY <2>1, <2>2
  <2> HIDE DEF n
  <2> QED BY <2>1, <2>3
<1>5. /\ page.events \in Seq({e \in Entry : e.event_id \in 1..n})
      /\ page.has_more \in BOOLEAN /\ page.latest_event_id = n
      /\ page.earliest_event_id = EarliestEventId(entries)
  <2>1. Since(entries, cl.outbox.cursor, PageLimit, ReplayResponseMaxBytes).events
            \in Seq({e \in Entry : e.event_id \in 1..n})
    BY <1>4, SinceOf
  <2>2. Since(entries, cl.outbox.cursor, PageLimit, ReplayResponseMaxBytes).has_more \in BOOLEAN
    BY DEF Since
  <2> QED BY <2>1, <2>2 DEF ReplaySnapshot
<1>6. EarliestEventId(entries) \in Nat /\ (n = 0 => EarliestEventId(entries) = 0)
  <2>1. CASE entries = <<>>
    BY <2>1 DEF EarliestEventId
  <2>2. CASE entries # <<>>
    <3>1. Len(entries) \in Nat /\ Len(entries) > 0
      BY <1>4, <2>2, EmptySeq, LenProperties
    <3>2. entries[1] \in {e \in Entry : e.event_id \in 1..n}
      <4>1. 1 \in 1..Len(entries)
        BY <3>1
      <4> QED BY <1>4, <4>1, ElementOfSeq
    <3> QED BY <2>2, <1>2, <3>2 DEF EarliestEventId
  <2> QED BY <2>1, <2>2
<1> HIDE DEF page
<1>7. r.ids \in Seq(EventIds) /\ \A i \in 1..Len(r.ids) : r.ids[i] <= n
  <2>1. Len(page.events) \in Nat /\ DOMAIN page.events = 1..Len(page.events)
    BY <1>5, LenProperties
  <2>2. \A i \in 1..Len(page.events) : page.events[i] \in {e \in Entry : e.event_id \in 1..n}
    BY <1>5, ElementOfSeq
  <2> DEFINE ids == [i \in 1..Len(page.events) |-> page.events[i].event_id]
  <2>3. \A i \in 1..Len(page.events) : ids[i] \in EventIds /\ ids[i] <= n
    BY <1>2, <2>2, HubAssumptions DEF EventIds
  <2>4. r.ids = ids
    BY <2>1
  <2>5. ids \in Seq(EventIds) /\ Len(ids) = Len(page.events)
    <3> DEFINE k == Len(page.events)
    <3>1. k \in Nat /\ \A i \in 1..k : page.events[i].event_id \in EventIds
      BY <2>1, <2>3
    <3> HIDE DEF k
    <3>2. ids = [i \in 1..k |-> page.events[i].event_id]
      BY DEF k
    <3> HIDE DEF ids
    <3>3. ids \in [1..k -> EventIds]
      BY <3>1, <3>2
    <3>4. ids \in Seq(EventIds) /\ Len(ids) = k
      BY <3>1, <3>3
    <3> QED BY <3>4 DEF k
  <2> HIDE DEF ids, r
  <2> QED BY <2>3, <2>4, <2>5
<1>8. PageOf(r, stream_id, n, orphaned)
  <2>1. /\ cl.outbox.generation \in Nat /\ cl.outbox.cursor \in Nat
        /\ cl.outbox.target \in Nat \cup {None} /\ stream_id \in Nat
    BY <1>2, <1>3 DEF Requests, StreamInv
  <2>2. r \in ReplayFrames
    BY <1>2, <1>5, <1>6, <1>7, <2>1 DEF ReplayFrames
  <2>3. orphaned \/ (cl.outbox.cursor <= n /\ (cl.outbox.target # None => cl.outbox.target <= n))
    BY <1>1, AtRest DEF Asked
  <2>4. /\ r.stream = stream_id /\ r.latest = n /\ r.earliest = EarliestEventId(entries)
        /\ r.cursor = cl.outbox.cursor /\ r.target = cl.outbox.target
    BY <1>5
  <2> HIDE DEF r, n
  <2>5. n <= n
    BY <1>2
  <2> QED BY <1>6, <1>7, <2>2, <2>3, <2>4, <2>5 DEF PageOf
<1> HIDE DEF r
<1>9. ClientShape(c) /\ SamePosition(cl, c) /\ Asked(c)
  <2>1. ClientShape(cl)
    BY AtRest
  <2>2. /\ DOMAIN c = ClientFields /\ c.socket = cl.socket /\ SamePosition(cl, c)
        /\ c.replayGeneration = cl.replayGeneration /\ c.outbox = None
    BY <2>1 DEF ClientShape, ClientFields, SamePosition
  <2> HIDE DEF c
  <2> QED BY <2>1, <2>2 DEF ClientShape, SamePosition, Asked
<1> HIDE DEF c
<1>10. /\ DOMAIN queue' = Clients /\ announced' \in BOOLEAN
       /\ QueueOf(queue'[phone], announced', stream_id, n, orphaned)
       /\ announced' => phone \in open' /\ (cl.streamId = stream_id \/ Coming(queue'[phone]))
       /\ RecoveryShape(recovery') /\ recovery'.acknowledge = recovery.acknowledge
       /\ Fetched(recovery', cl, announced', stream_id, orphaned)
  BY <1>1, AtRest
<1>11. reply' = None \/ PageOf(reply', stream_id, n, orphaned)
  BY <1>1, <1>8
<1>12. orphaned \/ Asked(c)
  BY <1>9
<1> HIDE DEF n
<1>13. UNCHANGED <<streamVars, publishing, delivered, covered, orphaned>> /\ cl' = c
  BY <1>1
<1>14. ClientShape(c) /\ SamePosition(cl, c)
  BY <1>9
<1> QED BY <1>10, <1>11, <1>12, <1>13, <1>14, StandingInv DEF n
\* The app's recovery changes phase; nothing else happens.
LEMMA RecoveryStepInv ==
    ASSUME DeliveryInv, UNCHANGED <<hubVars, cl, announced, reply, history>>,
           RecoveryShape(recovery'), recovery'.acknowledge = recovery.acknowledge,
           Fetched(recovery', cl, announced, stream_id, orphaned)
    PROVE  DeliveryInv' /\ StepGood
<1>1. /\ UNCHANGED <<streamVars, publishing, delivered, covered, orphaned>>
      /\ queue' = queue /\ open' = open /\ reply' = reply /\ announced' = announced /\ cl' = cl
  BY DEF hubVars, clientVars, history
<1>2. /\ DOMAIN queue' = Clients /\ announced' \in BOOLEAN
      /\ QueueOf(queue'[phone], announced', stream_id, latest_published_event_id, orphaned)
      /\ announced' => phone \in open' /\ (cl.streamId = stream_id \/ Coming(queue'[phone]))
      /\ reply' = None \/ PageOf(reply', stream_id, latest_published_event_id, orphaned)
      /\ Fetched(recovery', cl, announced', stream_id, orphaned)
  BY <1>1, AtRest
<1>3. ClientShape(cl) /\ SamePosition(cl, cl) /\ (orphaned \/ Asked(cl))
  BY AtRest
<1>4. UNCHANGED <<streamVars, publishing, delivered, covered, orphaned>> /\ cl' = cl
  BY <1>1
<1> QED BY <1>2, <1>3, <1>4, StandingInv

LEMMA SnapshotReadInv ==
    ASSUME DeliveryInv, SnapshotRead PROVE DeliveryInv' /\ StepGood
<1> DEFINE x == [recovery EXCEPT !.phase = "reading", !.stream = stream_id,
                                 !.upTo = latest_published_event_id]
<1>1. announced /\ recovery' = x /\ UNCHANGED <<hubVars, cl, announced, reply, history>>
  BY DEF SnapshotRead
<1>2. RecoveryShape(recovery) /\ ClientShape(cl)
  BY AtRest
<1>3. /\ DOMAIN x = RecoveryFields /\ x.acknowledge = recovery.acknowledge
      /\ x.upTo = latest_published_event_id /\ x.stream = stream_id
      /\ x.generation = recovery.generation /\ x.resumeAfterEventId = recovery.resumeAfterEventId
  BY <1>2 DEF RecoveryShape, RecoveryFields
<1> HIDE DEF x
<1>4. latest_published_event_id \in Nat
  BY PhoneFinds
<1>5. RecoveryShape(x)
  BY <1>2, <1>3, <1>4 DEF RecoveryShape
<1>6. cl.streamId \in {0, stream_id} /\ Barrier(cl) => orphaned \/ cl.recoveryWatermark <= x.upTo
  BY <1>3, PhoneFinds DEF ClientGood, Placed, Positioned
<1>7. Fetched(x, cl, announced, stream_id, orphaned)
  BY <1>1, <1>3, <1>6 DEF Fetched
<1> QED BY <1>1, <1>3, <1>5, <1>7, RecoveryStepInv

LEMMA RetryInv ==
    ASSUME DeliveryInv, RetryRecovery \/ FetchFails PROVE DeliveryInv' /\ StepGood
<1>1. PICK ph \in {"fetching", "retry"} : recovery' = [recovery EXCEPT !.phase = ph]
  BY DEF RetryRecovery, FetchFails
<1>2. UNCHANGED <<hubVars, cl, announced, reply, history>>
  BY DEF RetryRecovery, FetchFails
<1> DEFINE x == [recovery EXCEPT !.phase = ph]
<1>3. RecoveryShape(recovery)
  BY AtRest
<1>4. /\ DOMAIN x = RecoveryFields /\ x.acknowledge = recovery.acknowledge
      /\ x.upTo = recovery.upTo /\ x.phase = ph
      /\ x.generation = recovery.generation /\ x.resumeAfterEventId = recovery.resumeAfterEventId
  BY <1>3 DEF RecoveryShape, RecoveryFields
<1>5. recovery' = x
  BY <1>1
<1> HIDE DEF x
<1>6. RecoveryShape(recovery') /\ recovery'.acknowledge = recovery.acknowledge
  BY <1>3, <1>4, <1>5 DEF RecoveryShape
<1>7. Fetched(recovery', cl, announced, stream_id, orphaned)
  BY <1>4, <1>5 DEF Fetched
<1> QED BY <1>2, <1>6, <1>7, RecoveryStepInv

LEMMA RequestFailsInv ==
    ASSUME DeliveryInv, ReplayRequestFails PROVE DeliveryInv' /\ StepGood
<1>1. PICK g : cl' = ReplayFails(cl, g)
  BY DEF ReplayRequestFails
<1>2. /\ UNCHANGED <<streamVars, publishing, delivered, covered, orphaned>>
      /\ queue' = queue /\ open' = open /\ announced' = announced /\ recovery' = recovery
      /\ reply' = None \/ reply' = reply
  BY DEF ReplayRequestFails, hubVars, clientVars, history
<1> DEFINE c == ReplayFails(cl, g)
<1>3. ClientShape(c) /\ SamePosition(cl, c) /\ Asked(c)
  <2>1. ClientShape(cl)
    BY AtRest
  <2>2. /\ DOMAIN c = ClientFields /\ c.socket = cl.socket /\ SamePosition(cl, c)
        /\ c.replayGeneration = cl.replayGeneration /\ c.outbox = None
    BY <2>1 DEF ClientShape, ClientFields, SamePosition, ReplayFails
  <2> HIDE DEF c
  <2> QED BY <2>1, <2>2 DEF ClientShape, SamePosition, Asked
<1> HIDE DEF c
<1>4. /\ DOMAIN queue' = Clients /\ announced' \in BOOLEAN
      /\ QueueOf(queue'[phone], announced', stream_id, latest_published_event_id, orphaned)
      /\ announced' => phone \in open' /\ (cl.streamId = stream_id \/ Coming(queue'[phone]))
      /\ RecoveryShape(recovery') /\ recovery'.acknowledge = recovery.acknowledge
      /\ Fetched(recovery', cl, announced', stream_id, orphaned)
  BY <1>2, AtRest
<1>5. reply' = None \/ PageOf(reply', stream_id, latest_published_event_id, orphaned)
  BY <1>2, AtRest
<1>6. UNCHANGED <<streamVars, publishing, delivered, covered, orphaned>> /\ cl' = c
  BY <1>1, <1>2 DEF c
<1>7. ClientShape(c) /\ SamePosition(cl, c) /\ (orphaned \/ Asked(c))
  BY <1>3
<1> QED BY <1>4, <1>5, <1>6, <1>7, StandingInv

LEMMA ConnectsInv ==
    ASSUME DeliveryInv, UserConnects PROVE DeliveryInv' /\ StepGood
<1> DEFINE c == Connect(cl)
<1>1. /\ UNCHANGED <<streamVars, publishing, delivered, covered, orphaned>>
      /\ queue' = queue /\ open' = open /\ announced' = announced /\ recovery' = recovery
      /\ reply' = reply /\ cl' = c
  BY DEF UserConnects, hubVars, clientVars, history
<1>2. ClientShape(c) /\ SamePosition(cl, c) /\ c.outbox = cl.outbox
  <2>1. ClientShape(cl)
    BY AtRest
  <2>2. /\ DOMAIN c = ClientFields /\ c.socket = cl.socket /\ SamePosition(cl, c)
        /\ c.replayGeneration = cl.replayGeneration /\ c.outbox = cl.outbox
    BY <2>1 DEF ClientShape, ClientFields, SamePosition, Connect
  <2> HIDE DEF c
  <2> QED BY <2>1, <2>2 DEF ClientShape, SamePosition
<1> HIDE DEF c
<1>3. /\ DOMAIN queue' = Clients /\ announced' \in BOOLEAN
      /\ QueueOf(queue'[phone], announced', stream_id, latest_published_event_id, orphaned)
      /\ announced' => phone \in open' /\ (cl.streamId = stream_id \/ Coming(queue'[phone]))
      /\ RecoveryShape(recovery') /\ recovery'.acknowledge = recovery.acknowledge
      /\ Fetched(recovery', cl, announced', stream_id, orphaned)
      /\ reply' = None \/ PageOf(reply', stream_id, latest_published_event_id, orphaned)
  BY <1>1, AtRest
<1>4. UNCHANGED <<streamVars, publishing, delivered, covered, orphaned>> /\ cl' = c
  BY <1>1
<1>5. ClientShape(c) /\ SamePosition(cl, c) /\ (orphaned \/ Asked(c))
  BY <1>2, AtRest DEF Asked
<1> QED BY <1>3, <1>4, <1>5, StandingInv
-----------------------------------------------------------------------------
(* Steps that close the socket. *)

LEMMA ClosedInv ==
    ASSUME DeliveryInv, NEW c, c.socket = "closed", ClientGood(c, covered), Moves(cl, c),
           NEW r, RecoveryShape(r), r.acknowledge = recovery.acknowledge,
           NEW q, PhoneStep(c, r, q),
           UNCHANGED <<streamVars, publishing, covered, orphaned>>
    PROVE  DeliveryInv' /\ StepGood
<1>1. Setting(covered) /\ cl.emitted = {} /\ covered' = covered
  BY PhoneFinds
<1>2. Setting(covered') /\ ClientGood(c, covered')
  BY <1>1
<1>3. UNCHANGED <<streamVars, publishing, orphaned>>
  OBVIOUS
<1>4. c.required = None /\ c.socket # "closed" => Fetched(r, c, announced, stream_id, orphaned)
  OBVIOUS
<1>5. c.socket # "closed" =>
        /\ QueueOf(q, announced, stream_id, latest_published_event_id, orphaned)
        /\ announced => c.streamId = stream_id \/ Coming(q)
  OBVIOUS
<1>6. DeliveryInv'
  BY <1>2, <1>3, <1>4, <1>5, PhoneStepInv
<1>7. delivered' = delivered \cup c.emitted /\ cl'.recoveryWatermark = c.recoveryWatermark
  BY DEF PhoneStep, ClientGood, ClientShape, ClientFields
<1>8. StepGood
  BY <1>1, <1>7, MoveStep
<1> QED BY <1>6, <1>8

LEMMA LinkLostInv ==
    ASSUME DeliveryInv, LinkLost PROVE DeliveryInv' /\ StepGood
<1> DEFINE c == SocketGone(cl)
<1>1. /\ PhoneStep(c, recovery, <<>>) /\ UNCHANGED <<streamVars, publishing, covered, orphaned>>
  BY DEF LinkLost
<1>2. ClientGood(c, covered) /\ Carries(cl, c) /\ c.socket = "closed"
  BY PhoneFinds, SocketGoneGood
<1> HIDE DEF c
<1>3. Moves(cl, c) /\ RecoveryShape(recovery)
  BY <1>2, AtRest DEF Carries
<1> QED BY <1>1, <1>2, <1>3, ClosedInv

LEMMA DisconnectsInv ==
    ASSUME DeliveryInv, UserDisconnects PROVE DeliveryInv' /\ StepGood
<1> DEFINE b == SocketGone(cl)
           c == Disconnect(cl)
<1>1. /\ PhoneStep(c, recovery, <<>>) /\ UNCHANGED <<streamVars, publishing, covered, orphaned>>
  BY DEF UserDisconnects
<1>2. ClientShape(cl) /\ ClientGood(cl, covered) /\ RecoveryShape(recovery)
  BY PhoneFinds, AtRest
<1>3. ClientShape(c) /\ SamePosition(cl, c) /\ Asked(c) /\ c.socket = "closed"
  <2>1. /\ DOMAIN c = ClientFields /\ c.socket = "closed" /\ SamePosition(cl, c)
        /\ c.replayGeneration = cl.replayGeneration + 1 /\ c.outbox = None
    BY <1>2 DEF ClientShape, ClientFields, SamePosition, Disconnect, SocketGone
  <2> HIDE DEF c
  <2> QED BY <1>2, <2>1 DEF ClientShape, SamePosition, Asked
<1> HIDE DEF c
<1>4. ClientGood(c, covered) /\ Carries(cl, c)
  BY <1>2, <1>3, SamePositionGood
<1>5. Moves(cl, c)
  BY <1>4 DEF Carries
<1> QED BY <1>1, <1>2, <1>3, <1>4, <1>5, ClosedInv

LEMMA ProtocolLimitInv ==
    ASSUME DeliveryInv, ProtocolLimitExceeded PROVE DeliveryInv' /\ StepGood
<1> DEFINE over == [recovery EXCEPT !.phase = "idle", !.epochResetPending = TRUE]
<1>1. /\ PhoneStep(IF recovery.epochResetPending THEN cl ELSE ResetRecoveryEpoch(cl), over, queue[phone])
      /\ UNCHANGED <<streamVars, publishing, covered, orphaned>>
  BY DEF ProtocolLimitExceeded
<1>2. /\ Setting(covered) /\ ClientShape(cl) /\ ClientGood(cl, covered) /\ RecoveryShape(recovery)
      /\ cl.emitted = {} /\ ToldOfPast(cl)
  BY PhoneFinds, AtRest DEF ClientGood
<1>3. /\ DOMAIN over = RecoveryFields /\ over.acknowledge = recovery.acknowledge
      /\ over.upTo = recovery.upTo /\ over.phase = "idle"
      /\ over.generation = recovery.generation
      /\ over.resumeAfterEventId = recovery.resumeAfterEventId
  BY <1>2 DEF RecoveryShape, RecoveryFields
<1> HIDE DEF over
<1>4. RecoveryShape(over) /\ over.acknowledge = recovery.acknowledge
  BY <1>2, <1>3 DEF RecoveryShape
<1>5. CASE recovery.epochResetPending
  <2>1. PhoneStep(cl, over, queue[phone]) /\ UNCHANGED <<streamVars, publishing, orphaned>>
    BY <1>1, <1>5
  <2>2. Setting(covered') /\ ClientGood(cl, covered')
    BY <1>1, <1>2
  <2>3. cl.required = None /\ cl.socket # "closed" =>
            Fetched(over, cl, announced, stream_id, orphaned)
    BY <1>3 DEF Fetched
  <2>4. cl.socket # "closed" =>
            /\ QueueOf(queue[phone], announced, stream_id, latest_published_event_id, orphaned)
            /\ announced => cl.streamId = stream_id \/ Coming(queue[phone])
    BY AtRest
  <2>5. DeliveryInv'
    BY <1>4, <2>1, <2>2, <2>3, <2>4, PhoneStepInv
  <2>6. Moves(cl, cl)
    BY <1>2, SelfCarries DEF Carries
  <2>7. delivered' = delivered \cup cl.emitted /\ cl'.recoveryWatermark = cl.recoveryWatermark
    BY <1>2, <2>1 DEF PhoneStep, ClientShape, ClientFields
  <2> QED BY <1>2, <2>5, <2>6, <2>7, MoveStep
<1>6. CASE ~recovery.epochResetPending
  <2> DEFINE c == ResetRecoveryEpoch(cl)
  <2>1. PhoneStep(c, over, queue[phone])
    BY <1>1, <1>6
  <2>2. /\ ClientGood(c, covered) /\ c.required # None /\ Silent(c) /\ c.emitted = cl.emitted
        /\ Forgotten(c)
    BY <1>2, ResetRecoveryGood
  <2> HIDE DEF c
  <2>3. Barrier(c) /\ c.socket = "closed"
    BY <2>2 DEF Silent, Forgotten
  <2>4. Moves(cl, c)
    BY <2>2, <2>3, ResetMoves
  <2> QED BY <1>1, <1>4, <2>1, <2>2, <2>3, <2>4, ClosedInv
<1> QED BY <1>5, <1>6
-----------------------------------------------------------------------------
(* A new bridge process: a position of no stream is orphaned. *)

LEMMA RestartsInv ==
    ASSUME DeliveryInv, BridgeRestarts PROVE DeliveryInv' /\ StepGood
<1> DEFINE c == SocketGone(cl)
           x == FetchInterrupted(recovery)
<1>1. /\ stream_id < MaxStream /\ stream_id' = stream_id + 1 /\ next_event_id' = 1
      /\ latest_published_event_id' = 0 /\ entries' = <<>>
      /\ publishing' = [p \in Publishers |-> 0] /\ queue' = [k \in Clients |-> <<>>]
      /\ cl' = c /\ announced' = FALSE /\ reply' = None /\ recovery' = x
      /\ orphaned' = (orphaned \/ Nameless(cl))
      /\ delivered' = delivered /\ covered' = covered
  BY DEF BridgeRestarts, Restart
<1>2. /\ ClientGood(cl, covered) /\ ClientShape(cl) /\ Setting(covered)
      /\ cl.emitted = {} /\ cl.required = None
  BY PhoneFinds
<1>3. RecoveryShape(recovery)
  BY AtRest
<1>4. /\ DOMAIN c = ClientFields /\ c.socket = "closed" /\ SamePosition(cl, c)
      /\ c.replayGeneration = cl.replayGeneration /\ c.outbox = None
  BY <1>2 DEF ClientShape, ClientFields, SamePosition, SocketGone
<1>5. /\ DOMAIN x = RecoveryFields /\ x.acknowledge = recovery.acknowledge
      /\ x.upTo = recovery.upTo /\ x.phase \notin {"reading", "answered"}
      /\ x.generation = recovery.generation /\ x.resumeAfterEventId = recovery.resumeAfterEventId
  BY <1>3 DEF RecoveryShape, RecoveryFields, FetchInterrupted
<1> HIDE DEF c, x
<1>6. RecoveryShape(recovery') /\ Fetched(recovery', cl', announced', stream_id', orphaned')
  BY <1>1, <1>3, <1>5 DEF RecoveryShape, Fetched
<1>7. /\ stream_id \in Nat /\ stream_id # 0
      /\ stream_id' \in Streams /\ stream_id' \in Nat /\ stream_id < stream_id'
  BY <1>1, <1>2, HubAssumptions DEF Setting, Streams
<1>8. BridgeInv'
  <2>1. StreamInv'
    <3>1. stream_id' \in Nat \ {0} /\ next_event_id' \in Nat \ {0} /\ latest_published_event_id' \in Nat
      BY <1>1, <1>7
    <3>2. entries' \in Seq(Entry) /\ Len(entries') = 0 /\ DOMAIN entries' = {}
      BY <1>1
    <3>3. BufferIsNewestRun'
      BY <1>1, <3>2 DEF BufferIsNewestRun
    <3> QED BY <3>1, <3>2, <3>3 DEF StreamInv
  <2>2. latest_published_event_id' <= MaxEventId
    BY <1>1, HubAssumptions
  <2>3. /\ publishing' \in [Publishers -> Nat] /\ DOMAIN queue' = Clients
        /\ \A p \in Publishers : publishing'[p] <= latest_published_event_id'
    BY <1>1
  <2> QED BY <1>7, <2>1, <2>2, <2>3 DEF BridgeInv
<1>9. HistoryInv'
  BY <1>1, <1>2, <1>4 DEF HistoryInv, DeliveryInv, SamePosition
<1>10. ChannelInv'
  <2>1. queue'[phone] = <<>>
    BY <1>1
  <2> QED BY <1>1, <2>1, EmptyOf DEF ChannelInv
<1>11. /\ Told(cl)' = Told(cl) /\ Acknowledges(cl)' = Acknowledges(cl)
       /\ Barrier(cl)' = Barrier(cl)
  BY <1>1, <1>2, <1>4, <1>5 DEF Told, Acknowledges, SamePosition, Barrier
<1>12. ClientShape(cl)'
  <2>1. cl.streamId \in Nat /\ cl.streamId <= stream_id'
    <3>1. cl.streamId \in Nat /\ cl.streamId <= stream_id
      BY <1>2 DEF ClientShape
    <3> QED BY <1>7, <3>1
  <2> QED BY <1>1, <1>2, <1>4, <2>1 DEF ClientShape, SamePosition
<1>13. ToldOfPast(cl)'
  <2> SUFFICES ASSUME NEW p \in Told(cl)
               PROVE  p[1] # 0 /\ p[1] <= stream_id' /\ (cl.streamId # 0 => p[1] <= cl.streamId)
    BY <1>1, <1>4, <1>11 DEF ToldOfPast, SamePosition
  <2>1. p[1] \in Nat
    BY <1>2 DEF Told, Setting
  <2>2. p[1] # 0 /\ p[1] <= stream_id /\ (cl.streamId # 0 => p[1] <= cl.streamId)
    BY <1>2 DEF ClientGood, ToldOfPast
  <2>3. p[1] <= stream_id'
    BY <1>7, <2>1, <2>2
  <2> QED BY <2>2, <2>3
<1>14. ASSUME ~orphaned' PROVE Placed(cl, covered)'
  <2>1. Positioned(cl) /\ FreshBaseline(cl) /\ Whole(cl, covered) /\ ~Nameless(cl)
    BY <1>1, <1>2, <1>14 DEF ClientGood, Placed
  <2>2. cl.streamId \in {0, stream_id'} => cl.streamId = 0
    <3>1. cl.streamId \in Nat /\ cl.streamId <= stream_id
      BY <1>2 DEF ClientShape
    <3> QED BY <1>7, <3>1
  <2>3. cl.streamId = 0 => cl.lastSeenEventId = 0
    <3>1. cl.lastSeenEventId \in Nat
      BY <1>2 DEF ClientShape
    <3> QED BY <2>1, <3>1 DEF Nameless
  <2>4. Positioned(cl)'
    BY <1>1, <1>4, <1>11, <2>1, <2>2, <2>3 DEF Positioned, SamePosition
  <2>5. Asked(cl)'
    BY <1>1, <1>4 DEF Asked
  <2>6. FreshBaseline(cl)'
    BY <1>1, <1>4, <1>11, <2>1 DEF FreshBaseline, SamePosition
  <2>7. Whole(cl, covered)'
    BY <1>1, <1>4, <1>11, <2>1 DEF Whole, SamePosition
  <2> QED BY <2>4, <2>5, <2>6, <2>7 DEF Placed
<1>15. ClientGood(cl, covered)'
  BY <1>12, <1>13, <1>14 DEF ClientGood
<1>16. announced' \in BOOLEAN /\ orphaned' \in BOOLEAN
  BY <1>1 DEF DeliveryInv
<1>17. DeliveryInv'
  BY <1>6, <1>8, <1>9, <1>10, <1>15, <1>16 DEF DeliveryInv, RecoveryInv
<1>18. StepGood
  BY <1>1, <1>11, NothingEmitted
<1> QED BY <1>17, <1>18
-----------------------------------------------------------------------------
(* The invariant holds, and every step is one the properties allow. *)

LEMMA DeliveryInit == Init => DeliveryInv
<1> SUFFICES ASSUME Init PROVE DeliveryInv
  OBVIOUS
<1> USE DEF Init, HubInit
<1>1. BridgeInv
  <2>1. entries \in Seq(Entry) /\ Len(entries) = 0 /\ DOMAIN entries = {}
    OBVIOUS
  <2>2. BufferIsNewestRun
    BY <2>1 DEF BufferIsNewestRun
  <2>3. stream_id \in Streams /\ latest_published_event_id <= MaxEventId
    BY HubAssumptions DEF Streams
  <2> QED BY <2>1, <2>2, <2>3 DEF BridgeInv, StreamInv
<1>2. HistoryInv
  BY DEF HistoryInv, NewClient, NotYet
<1>3. ChannelInv
  <2>1. queue[phone] = <<>>
    OBVIOUS
  <2> QED BY <2>1, EmptyOf DEF ChannelInv
<1>4. RecoveryInv
  BY DEF RecoveryInv, RecoveryShape, Fetched, Idle, RecoveryFields
<1>5. ClientShape(cl)
  BY DEF ClientShape, NewClient, ClientFields
<1>6. Told(cl) = {} /\ ~Barrier(cl) /\ cl.outbox = None /\ cl.lastSeenEventId = 0 /\ cl.pendingEvents = {}
      /\ cl.streamId = 0
  BY DEF Told, Barrier, NewClient
<1>7. ToldOfPast(cl) /\ FreshBaseline(cl) /\ Whole(cl, covered) /\ Asked(cl)
  BY <1>6 DEF ToldOfPast, FreshBaseline, Whole, Asked
<1>8. Positioned(cl)
  BY <1>6 DEF Positioned
<1> QED BY <1>1, <1>2, <1>3, <1>4, <1>5, <1>7, <1>8 DEF DeliveryInv, ClientGood, Placed

LEMMA ReceiveInv ==
    ASSUME DeliveryInv, Receive PROVE DeliveryInv' /\ StepGood
<1> DEFINE f == Head(queue[phone])
<1>1. queue[phone] # <<>> /\ ReceiveRest
  BY DEF Receive, ReceiveRest
<1>2. ReceiveEvent(f) \/ ReceiveState(f) \/ ReceiveReplay(f) \/ ReceiveSnapshot(f)
  BY DEF Receive
<1>3. CASE ReceiveEvent(f)
  BY <1>1, <1>3, ReceiveEventInv
<1>4. CASE ReceiveState(f)
  BY <1>1, <1>4, ReceiveStateInv
<1>5. CASE ReceiveReplay(f)
  BY <1>1, <1>5, ReceiveReplayInv
<1>6. CASE ReceiveSnapshot(f)
  BY <1>1, <1>6, ReceiveSnapshotInv
<1> QED BY <1>2, <1>3, <1>4, <1>5, <1>6

LEMMA DeliveryStep ==
    ASSUME DeliveryInv, [Next]_vars PROVE DeliveryInv' /\ StepGood
<1>1. CASE BridgePublishes
  BY <1>1, PublishesInv DEF BridgePublishes
<1>2. CASE BridgeBroadcasts
  BY <1>2, BroadcastsInv DEF BridgeBroadcasts
<1>3. CASE OpenSocket \/ AnnounceStream
  BY <1>3, OpenSocketInv, AnnounceInv
<1>4. CASE ReplayRead \/ ReplayAnswered \/ ReplayRequestFails
  BY <1>4, ReplayReadInv, AnsweredInv, RequestFailsInv
<1>5. CASE Receive
  BY <1>5, ReceiveInv
<1>6. CASE SnapshotRead \/ SnapshotAnswered
  BY <1>6, SnapshotReadInv, SnapshotAnsweredInv
<1>7. CASE RetryRecovery \/ FetchFails
  BY <1>7, RetryInv
<1>8. CASE LinkLost \/ UserDisconnects \/ UserConnects
  BY <1>8, LinkLostInv, DisconnectsInv, ConnectsInv
<1>9. CASE ProtocolLimitExceeded
  BY <1>9, ProtocolLimitInv
<1>10. CASE BridgeRestarts
  BY <1>10, RestartsInv
<1>11. CASE UNCHANGED vars
  <2>1. UNCHANGED <<hubVars, cl, announced, reply, history>> /\ recovery' = recovery
    BY <1>11 DEF vars
  <2>2. RecoveryShape(recovery') /\ Fetched(recovery', cl, announced, stream_id, orphaned)
    BY <2>1, AtRest
  <2> QED BY <2>1, <2>2, RecoveryStepInv
<1> QED BY <1>1, <1>2, <1>3, <1>4, <1>5, <1>6, <1>7, <1>8, <1>9, <1>10, <1>11 DEF Next

LEMMA DeliveryInvariance == Spec => []DeliveryInv
<1>1. DeliveryInv /\ [Next]_vars => DeliveryInv'
  BY DeliveryStep
<1> QED BY <1>1, DeliveryInit, PTL DEF Spec

\* The invariant keeps the app whole above its baseline.
LEMMA WholeAboveBaseline == DeliveryInv => NoLossAboveBaseline
<1> DEFINE s == cl.streamId
           seen == {id \in 1..MaxEventId : <<s, id>> \in delivered}
<1> SUFFICES ASSUME DeliveryInv, ~orphaned, s # 0, ~Barrier(cl), seen # {},
                    NEW id \in Min(seen) .. cl.lastSeenEventId
             PROVE  Known(s, id)
  BY DEF NoLossAboveBaseline
<1>1. Min(seen) \in seen
  <2>1. seen \subseteq Nat
    OBVIOUS
  <2> HIDE DEF seen
  <2>2. \E m \in seen : \A n \in seen : m <= n
    BY <2>1, LeastNumber
  <2> QED BY <2>2 DEF Min
<1> DEFINE p == <<s, Min(seen)>>
<1>2. p \in delivered /\ p[1] = s /\ p[2] = Min(seen)
  BY <1>1
<1> HIDE DEF p, seen
<1>3. p \in Told(cl) /\ Told(cl) = delivered
  BY <1>2 DEF Told, DeliveryInv, HistoryInv
<1>4. Whole(cl, covered)
  BY DEF DeliveryInv, ClientGood, Placed
<1>5. id \in p[2]..cl.lastSeenEventId
  BY <1>2
<1>6. <<s, id>> \in Told(cl) \/ id <= covered[s] \/ (Barrier(cl) /\ id <= cl.recoveryWatermark)
  BY <1>2, <1>3, <1>4, <1>5 DEF Whole
<1> QED BY <1>3, <1>6 DEF Known

\* However frames are dropped and reordered, links and requests lost, recoveries
\* superseded and bridges replaced, the client never counts as seen an event of
\* its stream that the app was not told about, unless a position of no stream
\* outlived its bridge (deliverNumberedNotification, replayMissedEvents,
\* resetDeliveryEpoch and acknowledgeSnapshotRecovery together).
THEOREM NothingLost == Spec => []NoLossAboveBaseline
  BY DeliveryInvariance, WholeAboveBaseline, PTL

\* A client with a position emits its stream's events from there on, each with
\* all that lie between, whatever order live frames, replay pages and the buffer
\* of a recovery bring them in (drainPendingEvents).
THEOREM NeverOverAGap == Spec => EmitsWithoutGap
<1>1. DeliveryInv /\ [Next]_vars => EmitsNext
  BY DeliveryStep DEF StepGood
<1> QED BY <1>1, DeliveryInvariance, PTL DEF Spec, EmitsWithoutGap, EmitsNext

\* Nothing of its stream is emitted by a client that holds its position behind the
\* recovery barrier (drainPendingEvents, deliverNumberedNotification).
THEOREM BarrierHolds == Spec => BarrierHoldsPosition
<1>1. DeliveryInv /\ [Next]_vars => HoldsPosition
  BY DeliveryStep DEF StepGood
<1> QED BY <1>1, DeliveryInvariance, PTL DEF Spec, BarrierHoldsPosition, HoldsPosition

\* The barrier is lowered only after a snapshot of the stream the client follows,
\* read at or past the watermark, has been installed, unless a position of no
\* stream outlived its bridge (recoverReplayGap, acknowledgeSnapshotRecovery).
THEOREM BarrierLoweredBySnapshot == Spec => AcknowledgedAfterSnapshot
<1>1. DeliveryInv /\ [Next]_vars => LowersAfterSnapshot
  BY DeliveryStep DEF StepGood
<1> QED BY <1>1, DeliveryInvariance, PTL DEF Spec, AcknowledgedAfterSnapshot, LowersAfterSnapshot
\* A position of no stream that outlives its bridge is the only way a client comes
\* to follow a stream at a number the stream has not reached: a new process is
\* otherwise always told from a reconnect (applyStreamIdentity).
THEOREM PositionsKept == Spec => [](orphaned \/ PositionOfThisStream)
<1>1. DeliveryInv => orphaned \/ PositionOfThisStream
  BY DEF DeliveryInv, ClientGood, Placed, Positioned, PositionOfThisStream
<1> QED BY <1>1, DeliveryInvariance, PTL
=============================================================================
