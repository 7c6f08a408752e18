--------------------------- MODULE ClientHubProofs --------------------------
(***************************************************************************)
(* Proofs about the notification hub for every number of publishers and    *)
(* clients, every buffer capacity and every byte budget.                   *)
(***************************************************************************)
EXTENDS ClientHub, FiniteSetTheorems, SequenceTheorems, WellFoundedInduction, TLAPS

\* How many of the numbers 1..n satisfy a condition: between none and all.
LEMMA CountBounds ==
    ASSUME NEW n \in Nat, NEW S \in SUBSET (1..n)
    PROVE  Cardinality(S) \in 0..n
  <1>1. IsFiniteSet(1..n) /\ Cardinality(1..n) = n
    BY FS_Interval
  <1>2. IsFiniteSet(S) /\ Cardinality(S) <= Cardinality(1..n)
    BY <1>1, FS_Subset, Zenon
  <1> QED BY <1>1, <1>2, FS_CardinalityType

USE ReplayBounds, HubAssumptions

\* push (replay.rs) of a storable entry keeps a suffix of the old buffer and
\* the new entry at the end: it only ever evicts from the front, and never the
\* entry it was called with.
EvictsFrontOnly(es, e, p) ==
    /\ p \in Seq(Entry)
    /\ Len(p) \in 1..Len(es) + 1
    /\ p[Len(p)] = e
    /\ \A i \in 1..Len(p) - 1 : p[i] = es[Len(es) + 1 - Len(p) + i]

LEMMA PushKeepsSuffix ==
    ASSUME NEW es \in Seq(Entry), NEW e \in Entry, e.bytes <= ReplayMaxBytes
    PROVE  EvictsFrontOnly(es, e, Push(es, e))
  <1> DEFINE all == Append(es, e)
             S == {i \in 1..Len(es) : ~Fits(SubSeq(all, i, Len(all)))}
             k == Cardinality(S) + 1
             p == Push(es, e)
  <1>1. /\ all \in Seq(Entry)
        /\ Len(es) \in Nat
        /\ Len(all) = Len(es) + 1
        /\ \A i \in 1..Len(es) : all[i] = es[i]
        /\ all[Len(es) + 1] = e
    BY AppendProperties, LenProperties
  <1>2. k \in 1..Len(es) + 1
    <2>1. S \in SUBSET (1..Len(es))
      OBVIOUS
    <2> HIDE DEF S
    <2>2. Cardinality(S) \in 0..Len(es)
      BY <1>1, <2>1, CountBounds
    <2> QED BY <1>1, <2>2
  <1>3. p = SubSeq(all, k, Len(all))
    <2>1. ~(e.bytes > ReplayMaxBytes)
      BY DEF Entry
    <2> QED BY <2>1 DEF Push
  <1> HIDE DEF all, k, p
  <1>4. \A i \in k..Len(all) : all[i] \in Entry
    BY <1>1, <1>2, ElementOfSeq
  <1>5. /\ p \in Seq(Entry)
        /\ Len(p) = Len(all) - k + 1
        /\ \A i \in 1..Len(all) - k + 1 : p[i] = all[k + i - 1]
    BY <1>1, <1>2, <1>3, <1>4, SubSeqProperties
  <1>6. Len(p) \in 1..Len(es) + 1 /\ k = Len(es) + 2 - Len(p)
    BY <1>1, <1>2, <1>5
  <1>7. p[Len(p)] = e
    <2>1. Len(p) \in 1..Len(all) - k + 1 /\ k + Len(p) - 1 = Len(es) + 1
      BY <1>1, <1>2, <1>5, <1>6
    <2>2. p[Len(p)] = all[k + Len(p) - 1]
      BY <1>5, <2>1
    <2> QED BY <1>1, <2>1, <2>2
  <1>8. ASSUME NEW i \in 1..Len(p) - 1
        PROVE  p[i] = es[Len(es) + 1 - Len(p) + i]
    <2> DEFINE j == Len(es) + 1 - Len(p) + i
    <2>1. i \in 1..Len(all) - k + 1 /\ k + i - 1 = j /\ j \in 1..Len(es)
      BY <1>1, <1>2, <1>5, <1>6
    <2>2. p[i] = all[j]
      BY <1>5, <2>1
    <2> QED BY <1>1, <2>1, <2>2
  <1> QED BY <1>5, <1>6, <1>7, <1>8 DEF EvictsFrontOnly, p

-----------------------------------------------------------------------------
\* What publishing preserves, whatever the clients are sent.
StreamInv ==
    /\ stream_id \in Nat \ {0}
    /\ next_event_id \in Nat \ {0}
    /\ latest_published_event_id \in Nat
    /\ entries \in Seq(Entry)
    /\ BufferIsNewestRun

\* What every step of the hub preserves.
HubInv == HubTypeOK /\ BufferIsNewestRun

LEMMA HubInitInv == HubInit => HubInv
  BY DEF HubInit, HubInv, HubTypeOK, BufferIsNewestRun, Frame, Entry

\* Publishing: the number taken under the lock is the next of the run.
LEMMA PublishStream ==
    ASSUME StreamInv, NEW p \in Publishers, NEW size \in Sizes, Publish(p, size)
    PROVE  StreamInv'
  <1> DEFINE e == [event_id |-> next_event_id, bytes |-> StoredBytes(size)]
             n == Len(entries')
  <1>1. e \in Entry /\ e.bytes <= ReplayMaxBytes /\ e.event_id = next_event_id
    BY DEF Entry, StoredBytes, StreamInv
  <1>2. entries' = Push(entries, e)
    BY DEF Publish
  <1> HIDE DEF e
  <1>3. /\ entries' \in Seq(Entry)
        /\ n \in 1..Len(entries) + 1
        /\ entries'[n] = e
        /\ \A i \in 1..n - 1 : entries'[i] = entries[Len(entries) + 1 - n + i]
    <2>1. EvictsFrontOnly(entries, e, entries')
      BY <1>1, <1>2, PushKeepsSuffix DEF StreamInv
    <2> QED BY <2>1 DEF EvictsFrontOnly
  <1>4. stream_id' \in Nat \ {0} /\ next_event_id' \in Nat \ {0} /\ latest_published_event_id' \in Nat
    BY DEF Publish, StreamInv
  <1>5. BufferIsNewestRun'
    <2>1. /\ latest_published_event_id' = latest_published_event_id + 1
          /\ next_event_id' = next_event_id + 1
          /\ next_event_id = latest_published_event_id + 1
          /\ Len(entries) \in Nat
          /\ latest_published_event_id \in Nat
          /\ Len(entries) <= latest_published_event_id
      BY DEF Publish, BufferIsNewestRun, StreamInv
    <2>2. ASSUME NEW i \in DOMAIN entries'
          PROVE  entries'[i].event_id = latest_published_event_id' - n + i
      <3>1. i \in 1..n
        BY <1>3
      <3>2. CASE i = n
        BY <1>1, <1>3, <2>1, <3>2
      <3>3. CASE i # n
        <4> DEFINE j == Len(entries) + 1 - n + i
        <4>1. i \in 1..n - 1 /\ j \in DOMAIN entries
          BY <1>3, <2>1, <3>1, <3>3 DEF StreamInv
        <4>2. entries[j].event_id = latest_published_event_id - Len(entries) + j
          BY <4>1 DEF BufferIsNewestRun, StreamInv
        <4>3. entries'[i] = entries[j]
          BY <1>3, <4>1
        <4> QED BY <1>3, <2>1, <3>1, <4>2, <4>3
      <3> QED BY <3>2, <3>3
    <2>3. entries' # <<>>
      BY <1>3
    <2>4. Len(entries') <= latest_published_event_id'
      BY <1>3, <2>1
    <2> QED BY <2>1, <2>2, <2>3, <2>4 DEF BufferIsNewestRun
  <1> QED BY <1>3, <1>4, <1>5 DEF StreamInv

LEMMA PublishInv ==
    ASSUME HubInv, NEW p \in Publishers, NEW size \in Sizes, Publish(p, size)
    PROVE  HubInv'
  <1>1. StreamInv'
    BY PublishStream DEF HubInv, HubTypeOK, StreamInv
  <1>2. publishing' \in [Publishers -> Nat] /\ UNCHANGED clientVars
    BY DEF Publish, HubInv, HubTypeOK
  <1> QED BY <1>1, <1>2 DEF StreamInv, HubInv, HubTypeOK, clientVars

\* The invariant's variables are untouched by whatever happens to the clients.
LEMMA ClientStepInv ==
    ASSUME HubInv, UNCHANGED streamVars,
           publishing' \in [Publishers -> Nat],
           clients' \subseteq Clients, open' \subseteq Clients,
           queue' \in [Clients -> Seq(Frame)]
    PROVE  HubInv'
  BY DEF HubInv, HubTypeOK, BufferIsNewestRun, streamVars

LEMMA FrameTypes ==
    ASSUME NEW s \in Nat, NEW n \in Nat
    PROVE  EventFrame(s, n) \in Frame /\ StateFrame(s) \in Frame
  BY DEF EventFrame, StateFrame, Frame

LEMMA HubNextInv == HubInv /\ [HubNext]_hubVars => HubInv'
  <1> SUFFICES ASSUME HubInv, [HubNext]_hubVars PROVE HubInv'
    OBVIOUS
  <1> USE DEF HubInv, HubTypeOK
  <1>1. ASSUME NEW p \in Publishers, NEW size \in Sizes, Publish(p, size)
        PROVE  HubInv'
    BY <1>1, PublishInv DEF HubInv
  <1>2. ASSUME NEW p \in Publishers, Broadcast(p) PROVE HubInv'
    <2>1. EventFrame(stream_id, publishing[p]) \in Frame
      BY FrameTypes
    <2>2. queue' \in [Clients -> Seq(Frame)]
      BY <1>2, <2>1, AppendProperties DEF Broadcast
    <2> QED BY <1>2, <2>2, ClientStepInv DEF Broadcast
  <1>3. ASSUME NEW c \in Clients, AddClient(c) PROVE HubInv'
    BY <1>3, ClientStepInv DEF AddClient
  <1>4. ASSUME NEW c \in Clients, SendJson(c, StateFrame(stream_id)) PROVE HubInv'
    <2>1. StateFrame(stream_id) \in Frame
      BY FrameTypes
    <2>2. queue' \in [Clients -> Seq(Frame)]
      BY <1>4, <2>1, AppendProperties DEF SendJson
    <2> QED BY <1>4, <2>2, ClientStepInv DEF SendJson
  <1>5. ASSUME NEW c \in Clients, SendJsonTimesOut(c) PROVE HubInv'
    BY <1>5, ClientStepInv DEF SendJsonTimesOut
  <1>6. ASSUME NEW c \in Clients, Transmit(c) PROVE HubInv'
    <2>1. queue' \in [Clients -> Seq(Frame)]
      BY <1>6, HeadTailProperties DEF Transmit
    <2> QED BY <1>6, <2>1, ClientStepInv DEF Transmit
  <1>7. ASSUME NEW c \in Clients, SocketCloses(c) PROVE HubInv'
    BY <1>7, ClientStepInv DEF SocketCloses
  <1>8. ASSUME NEW c \in Clients, RemoveClient(c) PROVE HubInv'
    BY <1>8, ClientStepInv DEF RemoveClient
  <1>9. ASSUME Restart PROVE HubInv'
    BY <1>9 DEF Restart, BufferIsNewestRun
  <1>10. ASSUME UNCHANGED hubVars PROVE HubInv'
    BY <1>10, ClientStepInv DEF hubVars, clientVars
  <1> QED
    BY <1>1, <1>2, <1>3, <1>4, <1>5, <1>6, <1>7, <1>8, <1>9, <1>10 DEF HubNext

LEMMA HubInvariance == HubSpec => []HubInv
  BY HubInitInv, HubNextInv, PTL DEF HubSpec

\* Type correctness of the hub.
THEOREM HubTypeCorrect == HubSpec => []HubTypeOK
  <1>1. HubInv => HubTypeOK
    BY DEF HubInv
  <1> QED BY <1>1, HubInvariance, PTL

\* The replay buffer always holds the newest published numbers, without a hole
\* and up to the latest (NotificationReplay::push under the publish lock), for
\* every capacity, byte budget and set of concurrent publishers.
THEOREM ReplayBufferContiguous == HubSpec => []BufferIsNewestRun
  <1>1. HubInv => BufferIsNewestRun
    BY DEF HubInv
  <1> QED BY <1>1, HubInvariance, PTL

-----------------------------------------------------------------------------
\* A contiguous buffer answers every cursor it reaches back to exactly.
LEMMA ContiguousPages == HubInv => EveryPageIsExact
  <1> SUFFICES ASSUME HubInv,
                      NEW after \in 0..latest_published_event_id,
                      NEW limit \in PageLimits
               PROVE  PageIsExact(after, limit)
    BY DEF EveryPageIsExact
  <1> DEFINE len == Len(entries)
             latest == latest_published_event_id
             page == Since(entries, after, limit, ReplayResponseMaxBytes)
  <1>1. /\ entries \in Seq(Entry)
        /\ len \in Nat
        /\ latest \in Nat
        /\ after \in Nat
        /\ len <= latest
        /\ latest > 0 => entries # <<>>
        /\ DOMAIN entries = 1..len
        /\ \A i \in 1..len : entries[i].event_id = latest - len + i
    BY DEF HubInv, HubTypeOK, BufferIsNewestRun
  <1> SUFFICES ASSUME EarliestEventId(entries) <= after + 1
               PROVE  /\ \A i \in DOMAIN page.events :
                            page.events[i].event_id = after + i
                      /\ ~page.has_more => after + Len(page.events) = latest
    BY DEF PageIsExact, ReplaySnapshot
  <1> DEFINE seen == {i \in DOMAIN entries : entries[i].event_id <= after}
             skip == after - latest + len
             rest == After(entries, after)
  <1>2. skip \in 0..len
    <2>1. CASE entries = <<>>
      BY <1>1, <2>1
    <2>2. CASE entries # <<>>
      <3>1. len >= 1 /\ EarliestEventId(entries) = latest - len + 1
        BY <1>1, <2>2 DEF EarliestEventId
      <3> QED BY <1>1, <3>1
    <2> QED BY <2>1, <2>2
  <1>3. Cardinality(seen) = skip
    <2>1. seen = 1..skip
      <3>1. \A i \in 1..len : entries[i].event_id <= after <=> i <= skip
        BY <1>1, <1>2
      <3> QED BY <1>1, <1>2, <3>1
    <2> HIDE DEF seen, skip
    <2>2. Cardinality(1..skip) = skip
      BY <1>1, <1>2, FS_Interval
    <2> QED BY <2>1, <2>2
  <1>4. rest = SubSeq(entries, skip + 1, len)
    BY <1>3 DEF After
  <1>5. /\ rest \in Seq(Entry)
        /\ Len(rest) = len - skip
        /\ \A i \in 1..len - skip : rest[i].event_id = after + i
    <2> HIDE DEF rest, seen
    <2>1. \A i \in skip + 1..len : entries[i] \in Entry
      BY <1>1, <1>2, ElementOfSeq
    <2>2. /\ rest \in Seq(Entry)
          /\ Len(rest) = IF skip + 1 <= len THEN len - (skip + 1) + 1 ELSE 0
          /\ \A i \in 1..len - (skip + 1) + 1 : rest[i] = entries[skip + 1 + i - 1]
      <3> DEFINE k == skip + 1
      <3>1. k \in Int /\ len \in Int
        BY <1>1, <1>2
      <3> HIDE DEF skip, len, k
      <3>2. rest = SubSeq(entries, k, len) /\ \A i \in k..len : entries[i] \in Entry
        BY <1>4, <2>1 DEF k
      <3>3. /\ rest \in Seq(Entry)
            /\ Len(rest) = IF k <= len THEN len - k + 1 ELSE 0
            /\ \A i \in 1..len - k + 1 : rest[i] = entries[k + i - 1]
        BY <3>1, <3>2, SubSeqProperties
      <3> QED BY <3>3 DEF k
    <2>3. ASSUME NEW i \in 1..len - skip
          PROVE  rest[i].event_id = after + i
      <3>1. skip + 1 + i - 1 \in 1..len /\ i \in 1..len - (skip + 1) + 1
        BY <1>1, <1>2
      <3>2. rest[i] = entries[skip + 1 + i - 1]
        BY <2>2, <3>1
      <3>3. entries[skip + 1 + i - 1].event_id = latest - len + (skip + 1 + i - 1)
        BY <1>1, <3>1
      <3>4. latest \in Nat /\ len \in Nat /\ after \in Nat /\ i \in Int
        BY <1>1, <1>2
      <3>5. latest - len + (skip + 1 + i - 1) = after + i
        <4> HIDE DEF latest, len
        <4> QED BY <3>4
      <3> QED BY <3>2, <3>3, <3>5
    <2>4. Len(rest) = len - skip
      <3>1. Len(rest) = IF skip + 1 <= len THEN len - (skip + 1) + 1 ELSE 0
        BY <2>2
      <3>2. len \in Nat /\ skip \in 0..len
        BY <1>1, <1>2
      <3> HIDE DEF len, skip
      <3> QED BY <3>1, <3>2
    <2> QED BY <2>2, <2>3, <2>4
  <1> HIDE DEF rest, seen
  <1> DEFINE T == {j \in DOMAIN rest :
                        /\ j <= limit
                        /\ TotalBytes(SubSeq(rest, 1, j)) <= ReplayResponseMaxBytes}
             taken == Cardinality(T)
  <1>6. /\ page.events = SubSeq(rest, 1, taken)
        /\ page.has_more <=> taken < Len(rest)
    BY DEF Since, rest
  <1>7. taken \in 0..Len(rest)
    <2>1. T \in SUBSET (1..Len(rest)) /\ Len(rest) \in Nat
      BY <1>5
    <2> HIDE DEF T
    <2> QED BY <2>1, CountBounds
  <1> HIDE DEF taken
  <1>8. /\ Len(page.events) = taken
        /\ DOMAIN page.events = 1..taken
        /\ \A i \in 1..taken : page.events[i] = rest[i]
    <2>1. \A i \in 1..taken : rest[i] \in Entry
      BY <1>5, <1>7, ElementOfSeq
    <2>2. /\ SubSeq(rest, 1, taken) \in Seq(Entry)
          /\ Len(SubSeq(rest, 1, taken)) = IF 1 <= taken THEN taken - 1 + 1 ELSE 0
          /\ \A i \in 1..taken - 1 + 1 : SubSeq(rest, 1, taken)[i] = rest[1 + i - 1]
      BY <1>5, <1>7, <2>1, SubSeqProperties
    <2> HIDE DEF page
    <2> QED BY <1>5, <1>6, <1>7, <2>2
  <1> HIDE DEF page
  <1>9. \A i \in DOMAIN page.events : page.events[i].event_id = after + i
    <2>1. Len(rest) = len - skip
      BY <1>5
    <2>2. \A i \in 1..taken : i \in 1..len - skip
      <3>1. len - skip \in Int
        BY <1>1, <1>2
      <3> HIDE DEF len, skip
      <3> QED BY <1>7, <2>1, <3>1
    <2> HIDE DEF len, skip
    <2>3. \A i \in 1..taken : page.events[i].event_id = after + i
      BY <1>5, <1>8, <2>2
    <2> QED BY <1>8, <2>3
  <1>10. ASSUME ~page.has_more PROVE after + Len(page.events) = latest
    <2>1. ~(taken < Len(rest))
      BY <1>6, <1>10
    <2>2. taken = len - skip
      <3>1. Len(rest) = len - skip /\ len \in Nat /\ skip \in 0..len
        BY <1>1, <1>2, <1>5
      <3> HIDE DEF len, skip
      <3> QED BY <1>7, <2>1, <3>1
    <2> QED BY <1>1, <1>8, <2>2
  <1> QED BY <1>9, <1>10

\* Every page that bridge/events/replay can return for a cursor the buffer still
\* reaches is the unbroken run of numbers after the cursor, and ends at the
\* latest number unless it announces more (ClientHub::replay_snapshot).
THEOREM ReplayPagesExact == HubSpec => []EveryPageIsExact
  BY HubInvariance, ContiguousPages, PTL

-----------------------------------------------------------------------------
(* Counting from the first number on, and induction up to a bound. *)

\* A set of numbers has a least one.
LEMMA LeastNumber ==
    ASSUME NEW T, T \subseteq Nat, T # {}
    PROVE  \E m \in T : \A n \in T : m <= n
  <1> DEFINE R == OpToRel(<, Nat)
  <1>1. PICK m \in T : \A n \in T : ~(<<n, m>> \in R)
    <2>1. IsWellFoundedOn(R, Nat)
      BY NatLessThanWellFounded
    <2> HIDE DEF R
    <2> QED BY <2>1, WFMin
  <1>2. ASSUME NEW n \in T, n < m PROVE FALSE
    <2>1. <<n, m>> \in R
      BY <1>2 DEF OpToRel
    <2> QED BY <1>1, <2>1
  <1> QED BY <1>2

\* A set that has m and with every number below n the next one has all of m..n.
LEMMA UpTo ==
    ASSUME NEW T, NEW m \in Nat, NEW n \in Nat, m \in T,
           \A i \in m..(n - 1) : i \in T => i + 1 \in T
    PROVE  \A i \in m..n : i \in T
  <1> DEFINE B == {i \in m..n : i \notin T}
  <1>1. CASE B = {}
    BY <1>1
  <1>2. CASE B # {}
    <2>1. B \subseteq Nat
      OBVIOUS
    <2>2. PICK k \in B : \A i \in B : k <= i
      <3> HIDE DEF B
      <3> QED BY <1>2, <2>1, LeastNumber
    <2>3. k \in m..n /\ k # m /\ k \notin T
      BY <2>2
    <2>4. k - 1 \in m..(n - 1) /\ ~(k <= k - 1) /\ (k - 1) + 1 = k
      BY <2>3
    <2>5. k - 1 \in T
      BY <2>2, <2>4
    <2> QED BY <2>3, <2>4, <2>5
  <1> QED BY <1>1, <1>2

\* Numbers of 1..n that come with all smaller ones are the first so many.
LEMMA FirstOnes ==
    ASSUME NEW n \in Nat, NEW D, D \subseteq 1..n, \A i \in D : i > 1 => i - 1 \in D
    PROVE  Cardinality(D) \in 0..n /\ D = 1..Cardinality(D)
  <1> DEFINE C == {i \in Nat : i > 0 /\ i \notin D}
  <1>1. C \subseteq Nat /\ n + 1 \in C
    <2>1. n + 1 \notin 1..n
      OBVIOUS
    <2> QED BY <2>1
  <1>2. PICK b \in C : \A i \in C : b <= i
    <2>1. C # {}
      BY <1>1
    <2> HIDE DEF C
    <2> QED BY <1>1, <2>1, LeastNumber
  <1>3. b \in 1..(n + 1) /\ b \notin D
    BY <1>1, <1>2
  <1>4. ASSUME NEW i \in 1..(b - 1) PROVE i \in D
    <2>1. i \in Nat /\ i > 0 /\ ~(b <= i)
      BY <1>3
    <2> QED BY <1>2, <2>1
  <1>5. ASSUME NEW i \in b..n PROVE i \notin D
    <2> DEFINE T == {j \in b..n : j \notin D}
    <2>1. b \in T
      BY <1>3, <1>5
    <2>2. ASSUME NEW j \in b..(n - 1), j \in T PROVE j + 1 \in T
      <3>1. j + 1 \in b..n /\ j + 1 > 1 /\ (j + 1) - 1 = j
        BY <1>3
      <3>2. j + 1 \notin D
        BY <2>2, <3>1
      <3> QED BY <3>1, <3>2
    <2>3. b \in Nat /\ n \in Nat
      BY <1>3
    <2> HIDE DEF T
    <2>4. \A j \in b..n : j \in T
      BY <2>1, <2>2, <2>3, UpTo
    <2> QED BY <2>4 DEF T
  <1>6. D = 1..(b - 1)
    <2>1. \A i \in D : i \in 1..(b - 1)
      <3>1. \A i \in D : i \in 1..n /\ i \notin b..n
        BY <1>5
      <3> QED BY <1>3, <3>1
    <2> QED BY <1>4, <2>1
  <1>7. Cardinality(1..(b - 1)) = b - 1
    <2> DEFINE m == b - 1
    <2>1. m \in Nat
      BY <1>3
    <2> HIDE DEF m
    <2>2. Cardinality(1..m) = m
      BY <2>1, FS_Interval
    <2> QED BY <2>2 DEF m
  <1> QED BY <1>3, <1>6, <1>7

-----------------------------------------------------------------------------
(* Sums of bytes. *)

IsSum(f, es, n) == f = [i \in 0..n |-> IF i = 0 THEN 0 ELSE f[i - 1] + es[i].bytes]

LEMMA SumRun ==
    ASSUME NEW es, NEW n \in Nat
    PROVE  \E f : IsSum(f, es, n)
  <1> DEFINE T == {m \in 0..n : \E f : IsSum(f, es, m)}
  <1>1. 0 \in T
    <2> DEFINE g == [i \in 0..0 |-> 0]
    <2>1. g = [i \in 0..0 |-> IF i = 0 THEN 0 ELSE g[i - 1] + es[i].bytes]
      OBVIOUS
    <2>2. IsSum(g, es, 0)
      BY <2>1 DEF IsSum
    <2> HIDE DEF g
    <2> QED BY <2>2
  <1>2. ASSUME NEW m \in 0..(n - 1), m \in T PROVE m + 1 \in T
    <2>1. PICK f : IsSum(f, es, m)
      BY <1>2
    <2> DEFINE g == [i \in 0..(m + 1) |-> IF i = 0 THEN 0 ELSE f[i - 1] + es[i].bytes]
               h == [i \in 0..(m + 1) |-> IF i = 0 THEN 0 ELSE g[i - 1] + es[i].bytes]
    <2>2. ASSUME NEW i \in 0..m PROVE g[i] = f[i]
      <3>1. i \in 0..(m + 1)
        OBVIOUS
      <3> QED BY <2>1, <3>1 DEF IsSum
    <2>3. ASSUME NEW i \in 0..(m + 1) PROVE g[i] = h[i]
      <3>1. CASE i = 0
        BY <3>1
      <3>2. CASE i # 0
        <4>1. i - 1 \in 0..m
          BY <3>2
        <4>2. g[i - 1] = f[i - 1]
          BY <2>2, <4>1
        <4>3. g[i] = f[i - 1] + es[i].bytes /\ h[i] = g[i - 1] + es[i].bytes
          BY <3>2
        <4> HIDE DEF g, h
        <4> QED BY <4>2, <4>3
      <3> QED BY <3>1, <3>2
    <2>4. g = h
      BY <2>3
    <2>5. IsSum(g, es, m + 1)
      BY <2>4 DEF IsSum
    <2> HIDE DEF g
    <2>6. m + 1 \in 0..n
      OBVIOUS
    <2> QED BY <2>5, <2>6
  <1>3. \A m \in 0..n : m \in T
    <2> HIDE DEF T
    <2> QED BY <1>1, <1>2, UpTo
  <1>4. n \in T
    BY <1>3
  <1> QED BY <1>4

\* The partial sums TotalBytes is the last of.
LEMMA PartialSums ==
    ASSUME NEW es \in Seq(Entry)
    PROVE  \E f : /\ TotalBytes(es) = f[Len(es)] /\ f[0] = 0
                  /\ \A i \in 0..(Len(es) - 1) : f[i + 1] = f[i] + es[i + 1].bytes
                  /\ \A i \in 0..Len(es) : f[i] \in Nat
  <1> DEFINE n == Len(es)
             f == CHOOSE f : IsSum(f, es, n)
  <1>0. n \in Nat /\ \A i \in 1..n : es[i].bytes \in Nat
    <2>1. n \in Nat /\ \A i \in 1..n : es[i] \in Entry
      BY LenProperties, ElementOfSeq
    <2> HIDE DEF n
    <2> QED BY <2>1 DEF Entry
  <1>1. f = [i \in 0..n |-> IF i = 0 THEN 0 ELSE f[i - 1] + es[i].bytes]
    <2>1. IsSum(f, es, n)
      BY <1>0, SumRun
    <2> HIDE DEF f
    <2> QED BY <2>1 DEF IsSum
  <1>2. TotalBytes(es) = f[n]
    BY DEF TotalBytes, IsSum
  <1> HIDE DEF f, n
  <1>3. f[0] = 0 /\ \A i \in 0..(n - 1) : f[i + 1] = f[i] + es[i + 1].bytes
    <2>1. 0 \in 0..n /\ \A i \in 0..(n - 1) : i + 1 \in 0..n /\ i + 1 # 0 /\ (i + 1) - 1 = i
      BY <1>0
    <2> QED BY <1>1, <2>1
  <1>4. \A i \in 0..n : f[i] \in Nat
    <2> DEFINE T == {i \in 0..n : f[i] \in Nat}
    <2>1. 0 \in T
      BY <1>0, <1>3
    <2>2. ASSUME NEW i \in 0..(n - 1), i \in T PROVE i + 1 \in T
      <3>1. i + 1 \in 1..n /\ i + 1 \in 0..n
        BY <1>0
      <3>2. f[i] \in Nat /\ es[i + 1].bytes \in Nat
        BY <1>0, <2>2, <3>1
      <3> QED BY <1>3, <3>1, <3>2
    <2> HIDE DEF T
    <2>3. \A i \in 0..n : i \in T
      BY <1>0, <2>1, <2>2, UpTo
    <2> QED BY <2>3 DEF T
  <1> QED BY <1>2, <1>3, <1>4 DEF n

LEMMA TotalOfNone == TotalBytes(<<>>) = 0
  <1> DEFINE es == <<>>
  <1>1. es \in Seq(Entry) /\ Len(es) = 0
    OBVIOUS
  <1> HIDE DEF es
  <1>2. TotalBytes(es) = 0
    BY <1>1, PartialSums
  <1> QED BY <1>2 DEF es

LEMMA TotalOfAppend ==
    ASSUME NEW es \in Seq(Entry), NEW e \in Entry
    PROVE  TotalBytes(Append(es, e)) = TotalBytes(es) + e.bytes /\ TotalBytes(es) \in Nat
  <1> DEFINE all == Append(es, e)
             n == Len(es)
  <1>1. /\ all \in Seq(Entry) /\ n \in Nat /\ Len(all) = n + 1
        /\ all[n + 1] = e /\ \A i \in 1..n : all[i] = es[i]
    BY AppendProperties, LenProperties
  <1>2. PICK f : /\ TotalBytes(es) = f[n] /\ f[0] = 0
                 /\ \A i \in 0..(n - 1) : f[i + 1] = f[i] + es[i + 1].bytes
                 /\ \A i \in 0..n : f[i] \in Nat
    BY PartialSums
  <1> HIDE DEF all, n
  <1>3. PICK g : /\ TotalBytes(all) = g[n + 1] /\ g[0] = 0
                 /\ \A i \in 0..n : g[i + 1] = g[i] + all[i + 1].bytes
    <2>1. PICK g : /\ TotalBytes(all) = g[Len(all)] /\ g[0] = 0
                   /\ \A i \in 0..(Len(all) - 1) : g[i + 1] = g[i] + all[i + 1].bytes
      BY <1>1, PartialSums
    <2>2. Len(all) - 1 = n
      BY <1>1
    <2> QED BY <1>1, <2>1, <2>2
  <1> DEFINE T == {i \in 0..n : g[i] = f[i]}
  <1>4. 0 \in T
    BY <1>1, <1>2, <1>3
  <1>5. ASSUME NEW i \in 0..(n - 1), i \in T PROVE i + 1 \in T
    <2>1. i + 1 \in 1..n /\ i + 1 \in 0..n /\ i \in 0..n
      BY <1>1
    <2>2. g[i + 1] = f[i + 1]
      BY <1>1, <1>2, <1>3, <1>5, <2>1
    <2> QED BY <2>1, <2>2
  <1>6. \A i \in 0..n : i \in T
    <2> HIDE DEF T
    <2> QED BY <1>1, <1>4, <1>5, UpTo
  <1>7. g[n] = f[n] /\ n \in 0..n
    BY <1>1, <1>6
  <1> QED BY <1>1, <1>2, <1>3, <1>7 DEF all

LEMMA TotalOfTail ==
    ASSUME NEW es \in Seq(Entry), es # <<>>
    PROVE  TotalBytes(Tail(es)) = TotalBytes(es) - es[1].bytes /\ TotalBytes(Tail(es)) \in Nat
  <1> DEFINE rest == Tail(es)
             n == Len(rest)
  <1>1. /\ rest \in Seq(Entry) /\ n \in Nat /\ Len(es) = n + 1
        /\ \A i \in 1..n : rest[i] = es[i + 1]
    BY HeadTailProperties, LenProperties
  <1>2. PICK f : /\ TotalBytes(rest) = f[n] /\ f[0] = 0
                 /\ \A i \in 0..(n - 1) : f[i + 1] = f[i] + rest[i + 1].bytes
                 /\ \A i \in 0..n : f[i] \in Nat
    BY <1>1, PartialSums
  <1> HIDE DEF rest, n
  <1>3. PICK g : /\ TotalBytes(es) = g[n + 1] /\ g[0] = 0
                 /\ \A i \in 0..n : g[i + 1] = g[i] + es[i + 1].bytes
    <2>1. PICK g : /\ TotalBytes(es) = g[Len(es)] /\ g[0] = 0
                   /\ \A i \in 0..(Len(es) - 1) : g[i + 1] = g[i] + es[i + 1].bytes
      BY PartialSums
    <2>2. Len(es) - 1 = n
      BY <1>1
    <2> QED BY <1>1, <2>1, <2>2
  <1>4. es[1].bytes \in Nat
    <2>1. 1 \in 1..Len(es)
      BY <1>1
    <2>2. es[1] \in Entry
      BY <2>1, ElementOfSeq
    <2> QED BY <2>2 DEF Entry
  <1> DEFINE first == es[1].bytes
             T == {i \in 0..n : g[i + 1] = first + f[i]}
  <1>5. 0 \in T
    <2>1. 0 \in 0..n
      BY <1>1
    <2> QED BY <1>2, <1>3, <1>4, <2>1
  <1>6. ASSUME NEW i \in 0..(n - 1), i \in T PROVE i + 1 \in T
    <2>1. i + 1 \in 1..n /\ i + 1 \in 0..n /\ i \in 0..n
      BY <1>1
    <2>2. g[(i + 1) + 1] = g[i + 1] + es[(i + 1) + 1].bytes /\ f[i + 1] = f[i] + rest[i + 1].bytes
      BY <1>2, <1>3, <2>1
    <2>3. es[(i + 1) + 1] = rest[i + 1]
      BY <1>1, <2>1
    <2>4. rest[i + 1].bytes \in Nat /\ f[i] \in Nat
      <3>1. i + 1 \in 1..Len(rest)
        BY <2>1 DEF n
      <3>2. rest[i + 1] \in Entry
        BY <1>1, <3>1, ElementOfSeq
      <3> QED BY <1>2, <2>1, <3>2 DEF Entry
    <2>5. g[(i + 1) + 1] = first + f[i + 1]
      BY <1>4, <1>6, <2>2, <2>3, <2>4
    <2> QED BY <2>1, <2>5
  <1>7. \A i \in 0..n : i \in T
    <2> HIDE DEF T
    <2> QED BY <1>1, <1>5, <1>6, UpTo
  <1>8. g[n + 1] = first + f[n] /\ f[n] \in Nat
    BY <1>1, <1>2, <1>7
  <1> QED BY <1>2, <1>3, <1>4, <1>8 DEF rest

-----------------------------------------------------------------------------
(* Pieces of a run of entries. *)

LEMMA TotalOfOne ==
    ASSUME NEW e \in Entry
    PROVE  TotalBytes(<<e>>) = e.bytes
  <1> DEFINE none == <<>>
  <1>1. none \in Seq(Entry) /\ Append(none, e) = <<e>>
    OBVIOUS
  <1>2. TotalBytes(none) = 0
    BY TotalOfNone
  <1> HIDE DEF none
  <1>3. TotalBytes(Append(none, e)) = 0 + e.bytes
    BY <1>1, <1>2, TotalOfAppend
  <1>4. e.bytes \in Nat
    BY DEF Entry
  <1> QED BY <1>1, <1>3, <1>4

\* A piece of a run.
LEMMA Piece ==
    ASSUME NEW s \in Seq(Entry), NEW a \in 1..Len(s) + 1, NEW b \in 0..Len(s), a <= b + 1
    PROVE  /\ SubSeq(s, a, b) \in Seq(Entry)
           /\ Len(SubSeq(s, a, b)) = b - a + 1
           /\ \A i \in 1..(b - a + 1) : SubSeq(s, a, b)[i] = s[a + i - 1]
  <1>1. Len(s) \in Nat /\ a \in Int /\ b \in Int
    BY LenProperties
  <1>2. \A i \in a..b : s[i] \in Entry
    BY <1>1, ElementOfSeq
  <1>3. /\ SubSeq(s, a, b) \in Seq(Entry)
        /\ Len(SubSeq(s, a, b)) = IF a <= b THEN b - a + 1 ELSE 0
        /\ \A i \in 1..(b - a + 1) : SubSeq(s, a, b)[i] = s[a + i - 1]
    BY <1>1, <1>2, SubSeqProperties
  <1> QED BY <1>1, <1>3

\* A suffix without its first entry is the next suffix.
LEMMA NextSuffix ==
    ASSUME NEW s \in Seq(Entry), NEW k \in 1..Len(s)
    PROVE  LET here == SubSeq(s, k, Len(s))
               next == SubSeq(s, k + 1, Len(s))
           IN  /\ here \in Seq(Entry) /\ here # <<>> /\ here[1] = s[k] /\ Head(here) = s[k]
               /\ Tail(here) = next
  <1> DEFINE n == Len(s)
             here == SubSeq(s, k, n)
             next == SubSeq(s, k + 1, n)
  <1>1. n \in Nat /\ k \in 1..(n + 1) /\ k + 1 \in 1..(n + 1) /\ n \in 0..n
    BY LenProperties
  <1>2. /\ here \in Seq(Entry) /\ Len(here) = n - k + 1
        /\ \A i \in 1..(n - k + 1) : here[i] = s[k + i - 1]
    BY <1>1, Piece
  <1>3. /\ next \in Seq(Entry) /\ Len(next) = n - (k + 1) + 1
        /\ \A i \in 1..(n - (k + 1) + 1) : next[i] = s[(k + 1) + i - 1]
    <2> DEFINE l == k + 1
    <2>1. l \in 1..(n + 1) /\ l <= n + 1
      BY <1>1
    <2> HIDE DEF l
    <2>2. /\ SubSeq(s, l, n) \in Seq(Entry) /\ Len(SubSeq(s, l, n)) = n - l + 1
          /\ \A i \in 1..(n - l + 1) : SubSeq(s, l, n)[i] = s[l + i - 1]
      BY <1>1, <2>1, Piece
    <2> QED BY <2>2 DEF l
  <1> HIDE DEF n, here, next
  <1>4. here # <<>> /\ 1 \in 1..(n - k + 1) /\ k + 1 - 1 = k
    BY <1>1, <1>2
  <1>5. here[1] = s[k] /\ Head(here) = here[1]
    BY <1>2, <1>4, HeadTailProperties
  <1>6. /\ Tail(here) \in Seq(Entry) /\ Len(Tail(here)) = Len(here) - 1
        /\ \A i \in 1..Len(Tail(here)) : Tail(here)[i] = here[i + 1]
    BY <1>2, <1>4, HeadTailProperties
  <1>7. Len(Tail(here)) = Len(next) /\ Len(next) = n - k
    BY <1>1, <1>2, <1>3, <1>6
  <1>8. ASSUME NEW i \in 1..Len(next) PROVE Tail(here)[i] = next[i]
    <2>1. i + 1 \in 1..(n - k + 1) /\ k + (i + 1) - 1 = (k + 1) + i - 1 /\ i \in 1..(n - (k + 1) + 1)
      BY <1>1, <1>7
    <2>2. here[i + 1] = s[k + (i + 1) - 1] /\ next[i] = s[(k + 1) + i - 1]
      BY <1>2, <1>3, <2>1
    <2> QED BY <1>6, <1>7, <2>1, <2>2
  <1>9. Tail(here) = next
    BY <1>3, <1>6, <1>7, <1>8, SeqEqual
  <1> QED BY <1>2, <1>4, <1>5, <1>9 DEF here, next, n

\* A prefix with the entry that follows it is the next prefix.
LEMMA NextPrefix ==
    ASSUME NEW s \in Seq(Entry), NEW j \in 0..(Len(s) - 1)
    PROVE  LET here == SubSeq(s, 1, j)
           IN  /\ here \in Seq(Entry) /\ Len(here) = j /\ s[j + 1] \in Entry
               /\ SubSeq(s, 1, j + 1) = Append(here, s[j + 1])
  <1> DEFINE n == Len(s)
             here == SubSeq(s, 1, j)
             next == SubSeq(s, 1, j + 1)
             e == s[j + 1]
  <1>1. n \in Nat /\ j \in 0..n /\ j + 1 \in 1..n /\ j + 1 \in 0..n /\ 1 \in 1..(n + 1)
    BY LenProperties
  <1>2. e \in Entry
    BY <1>1, ElementOfSeq
  <1>3. /\ here \in Seq(Entry) /\ Len(here) = j
        /\ \A i \in 1..j : here[i] = s[i]
    <2>1. /\ here \in Seq(Entry) /\ Len(here) = j - 1 + 1
          /\ \A i \in 1..(j - 1 + 1) : here[i] = s[1 + i - 1]
      BY <1>1, Piece
    <2>2. j - 1 + 1 = j /\ \A i \in 1..j : 1 + i - 1 = i
      BY <1>1
    <2> HIDE DEF here
    <2> QED BY <2>1, <2>2
  <1>4. /\ next \in Seq(Entry) /\ Len(next) = j + 1
        /\ \A i \in 1..(j + 1) : next[i] = s[i]
    <2> DEFINE b == j + 1
    <2>1. b \in 0..n /\ 1 <= b + 1
      BY <1>1
    <2> HIDE DEF b
    <2>2. /\ SubSeq(s, 1, b) \in Seq(Entry) /\ Len(SubSeq(s, 1, b)) = b - 1 + 1
          /\ \A i \in 1..(b - 1 + 1) : SubSeq(s, 1, b)[i] = s[1 + i - 1]
      BY <1>1, <2>1, Piece
    <2>3. b - 1 + 1 = b /\ \A i \in 1..b : 1 + i - 1 = i
      BY <1>1, <2>1
    <2>4. /\ SubSeq(s, 1, b) \in Seq(Entry) /\ Len(SubSeq(s, 1, b)) = b
          /\ \A i \in 1..b : SubSeq(s, 1, b)[i] = s[i]
      BY <2>2, <2>3
    <2> QED BY <2>4 DEF b
  <1> HIDE DEF here, next, n, e
  <1>5. /\ Append(here, e) \in Seq(Entry) /\ Len(Append(here, e)) = j + 1
        /\ \A i \in 1..j : Append(here, e)[i] = here[i]
        /\ Append(here, e)[j + 1] = e
    BY <1>2, <1>3, AppendProperties
  <1>6. ASSUME NEW i \in 1..Len(next) PROVE Append(here, e)[i] = next[i]
    <2>1. CASE i = j + 1
      BY <1>4, <1>5, <2>1 DEF e
    <2>2. CASE i # j + 1
      <3>1. i \in 1..j /\ i \in 1..(j + 1)
        BY <1>1, <1>4, <2>2
      <3> QED BY <1>3, <1>4, <1>5, <3>1
    <2> QED BY <2>1, <2>2
  <1>7. Append(here, e) = next
    BY <1>4, <1>5, <1>6, SeqEqual
  <1> QED BY <1>2, <1>3, <1>7 DEF here, next, e

-----------------------------------------------------------------------------
(* push: the loop pops exactly the suffixes that do not fit. *)

LEMMA ShorterFits ==
    ASSUME NEW es \in Seq(Entry), es # <<>>, Fits(es)
    PROVE  Fits(Tail(es))
  <1>1. Len(Tail(es)) = Len(es) - 1 /\ Len(es) \in Nat
    BY HeadTailProperties, LenProperties
  <1>2. es[1].bytes \in Nat
    <2>1. es[1] \in Entry
      BY HeadTailProperties
    <2> QED BY <2>1 DEF Entry
  <1>3. TotalBytes(Tail(es)) = TotalBytes(es) - es[1].bytes /\ TotalBytes(Tail(es)) \in Nat
    BY TotalOfTail
  <1>4. TotalBytes(es) \in Int
    <2>1. PICK f : /\ TotalBytes(es) = f[Len(es)] /\ \A i \in 0..Len(es) : f[i] \in Nat
      BY PartialSums
    <2>2. Len(es) \in 0..Len(es)
      BY <1>1
    <2> QED BY <2>1, <2>2
  <1> QED BY <1>1, <1>2, <1>3, <1>4 DEF Fits

\* The entries Push evicts are the first so many, and what remains fits.
LEMMA Evicted ==
    ASSUME NEW es \in Seq(Entry), NEW e \in Entry, e.bytes <= ReplayMaxBytes
    PROVE  LET all == Append(es, e)
               n == Len(all)
           IN  \E ev \in 0..(n - 1) :
                /\ Push(es, e) = SubSeq(all, ev + 1, n)
                /\ \A i \in 1..ev : ~Fits(SubSeq(all, i, n))
                /\ Fits(SubSeq(all, ev + 1, n))
  <1> DEFINE all == Append(es, e)
             n == Len(all)
             D == {i \in 1..Len(es) : ~Fits(SubSeq(all, i, n))}
             ev == Cardinality(D)
  <1>1. all \in Seq(Entry) /\ Len(es) \in Nat /\ n = Len(es) + 1 /\ all[n] = e
    BY AppendProperties, LenProperties
  <1>2. Push(es, e) = SubSeq(all, ev + 1, n)
    <2>1. ~(e.bytes > ReplayMaxBytes)
      BY DEF Entry
    <2> QED BY <2>1 DEF Push
  <1> HIDE DEF all, n
  <1>3. ASSUME NEW i \in D, i > 1 PROVE i - 1 \in D
    <2>1. i \in 1..Len(es) /\ ~Fits(SubSeq(all, i, n))
      OBVIOUS
    <2> HIDE DEF D
    <2>2. i - 1 \in 1..Len(es) /\ i - 1 \in 1..n /\ (i - 1) + 1 = i
      BY <1>1, <1>3, <2>1
    <2>3. /\ SubSeq(all, i - 1, n) \in Seq(Entry) /\ SubSeq(all, i - 1, n) # <<>>
          /\ Tail(SubSeq(all, i - 1, n)) = SubSeq(all, (i - 1) + 1, n)
      <3> DEFINE k == i - 1
      <3>1. k \in 1..Len(all)
        BY <2>2 DEF n
      <3> HIDE DEF k
      <3>2. /\ SubSeq(all, k, n) \in Seq(Entry) /\ SubSeq(all, k, n) # <<>>
            /\ Tail(SubSeq(all, k, n)) = SubSeq(all, k + 1, n)
        BY <1>1, <3>1, NextSuffix DEF n
      <3> QED BY <3>2 DEF k
    <2>4. ~Fits(SubSeq(all, i - 1, n))
      BY <2>1, <2>2, <2>3, ShorterFits
    <2> QED BY <2>2, <2>4 DEF D
  <1>4. ev \in 0..Len(es) /\ D = 1..ev
    <2>1. D \subseteq 1..Len(es)
      OBVIOUS
    <2> HIDE DEF D
    <2> QED BY <1>1, <1>3, <2>1, FirstOnes
  <1>5. \A i \in 1..ev : ~Fits(SubSeq(all, i, n))
    <2>1. \A i \in D : ~Fits(SubSeq(all, i, n))
      OBVIOUS
    <2> HIDE DEF D, ev
    <2> QED BY <1>4, <2>1
  <1>6. Fits(SubSeq(all, ev + 1, n))
    <2>1. CASE ev < Len(es)
      <3>1. ev + 1 \in 1..Len(es) /\ ev + 1 \notin 1..ev
        BY <1>1, <1>4, <2>1
      <3>2. \A i \in 1..Len(es) : i \notin D => Fits(SubSeq(all, i, n))
        OBVIOUS
      <3> HIDE DEF D, ev
      <3> QED BY <1>4, <3>1, <3>2
    <2>2. CASE ev = Len(es)
      <3>1. ev + 1 = n /\ n \in 1..(n + 1) /\ n \in 0..n
        BY <1>1, <1>4, <2>2
      <3>2. /\ SubSeq(all, n, n) \in Seq(Entry) /\ Len(SubSeq(all, n, n)) = n - n + 1
            /\ \A i \in 1..(n - n + 1) : SubSeq(all, n, n)[i] = all[n + i - 1]
        BY <1>1, <3>1, Piece DEF n
      <3>3. n - n + 1 = 1 /\ n + 1 - 1 = n
        BY <1>1
      <3>4. SubSeq(all, n, n) = <<e>>
        <4> DEFINE s == SubSeq(all, n, n)
        <4>1. s \in Seq(Entry) /\ Len(s) = 1 /\ s[1] = e
          BY <1>1, <3>2, <3>3
        <4> HIDE DEF s
        <4>2. <<e>> \in Seq(Entry) /\ Len(<<e>>) = 1 /\ <<e>>[1] = e
          OBVIOUS
        <4>3. \A i \in 1..1 : s[i] = <<e>>[i]
          BY <4>1, <4>2
        <4>4. s = <<e>>
          BY <4>1, <4>2, <4>3, SeqEqual
        <4> QED BY <4>4 DEF s
      <3>5. Len(<<e>>) = 1 /\ TotalBytes(<<e>>) = e.bytes
        BY TotalOfOne
      <3>6. Fits(<<e>>)
        BY <3>5 DEF Fits
      <3> HIDE DEF D, ev
      <3> QED BY <3>1, <3>4, <3>6
    <2> HIDE DEF D, ev
    <2> QED BY <1>1, <1>4, <2>1, <2>2
  <1>7. ev \in 0..(n - 1)
    BY <1>1, <1>4
  <1> HIDE DEF D, ev
  <1> QED BY <1>2, <1>5, <1>6, <1>7 DEF all, n

\* After i rounds the loop has popped i entries, or as many as Push evicts.
LEMMA PushIsLoop ==
    ASSUME NEW es \in Seq(Entry), NEW e \in [event_id : Nat, bytes : Nat]
    PROVE  Push(es, e) = PushLoop(es, e)
  <1>1. CASE e.bytes > ReplayMaxBytes
    BY <1>1 DEF Push, PushLoop
  <1>2. CASE ~(e.bytes > ReplayMaxBytes)
    <2> DEFINE all == Append(es, e)
               n == Len(all)
               Popped(f) == f = [i \in 0..n |->
                              IF i = 0 THEN [left |-> all, total |-> TotalBytes(all)]
                              ELSE PopFront(f[i - 1])]
    <2>1. /\ all \in Seq(Entry) /\ n \in Nat /\ n > 0
          /\ e \in Entry /\ e.bytes <= ReplayMaxBytes
      BY <1>2, AppendProperties, LenProperties DEF Entry
    <2>2. PICK ev \in 0..(n - 1) : /\ Push(es, e) = SubSeq(all, ev + 1, n)
                                   /\ \A i \in 1..ev : ~Fits(SubSeq(all, i, n))
                                   /\ Fits(SubSeq(all, ev + 1, n))
      BY <2>1, Evicted
    <2>3. PushLoop(es, e) = (CHOOSE f : Popped(f))[n].left
      BY <1>2 DEF PushLoop
    <2> HIDE DEF all, n, Popped
    <2> DEFINE first(i) == IF i < ev THEN i + 1 ELSE ev + 1
               left(i) == SubSeq(all, first(i), n)
               State(i) == [left |-> left(i), total |-> TotalBytes(left(i))]
               g == [i \in 0..n |-> State(i)]
    <2>4. State(0) = [left |-> all, total |-> TotalBytes(all)]
      <3>1. first(0) = 1
        BY <2>1
      <3>2. SubSeq(all, 1, n) = all
        <4> DEFINE s == SubSeq(all, 1, n)
        <4>1. 1 \in 1..(n + 1) /\ n \in 0..n /\ 1 <= n + 1
          BY <2>1
        <4>2. /\ s \in Seq(Entry) /\ Len(s) = n - 1 + 1
              /\ \A i \in 1..(n - 1 + 1) : s[i] = all[1 + i - 1]
          BY <2>1, <4>1, Piece DEF n
        <4> HIDE DEF s
        <4>3. n - 1 + 1 = n /\ \A i \in 1..n : 1 + i - 1 = i
          BY <2>1
        <4>4. Len(s) = Len(all) /\ \A i \in 1..Len(s) : s[i] = all[i]
          BY <4>2, <4>3 DEF n
        <4>5. s = all
          BY <2>1, <4>2, <4>4, SeqEqual
        <4> QED BY <4>5 DEF s
      <3> HIDE DEF first
      <3> QED BY <3>1, <3>2
    <2>5. ASSUME NEW i \in 1..n PROVE State(i) = PopFront(State(i - 1))
      <3> DEFINE k == first(i - 1)
      <3>1. k \in 1..Len(all) /\ k <= n
        BY <2>1 DEF n
      <3>2. /\ left(i - 1) = SubSeq(all, k, n)
            /\ State(i - 1) = [left |-> SubSeq(all, k, n), total |-> TotalBytes(SubSeq(all, k, n))]
        OBVIOUS
      <3>3. CASE i <= ev
        <4>1. k = i /\ first(i) = k + 1
          BY <2>1, <3>3
        <4> HIDE DEF k, first
        <4>2. ~Fits(SubSeq(all, k, n))
          <5>1. i \in 1..ev
            BY <3>3
          <5> QED BY <2>2, <4>1, <5>1
        <4>3. /\ SubSeq(all, k, n) \in Seq(Entry) /\ SubSeq(all, k, n) # <<>>
              /\ Head(SubSeq(all, k, n)) = SubSeq(all, k, n)[1]
              /\ Tail(SubSeq(all, k, n)) = SubSeq(all, k + 1, n)
          BY <2>1, <3>1, NextSuffix DEF n
        <4> DEFINE here == SubSeq(all, k, n)
                   next == SubSeq(all, k + 1, n)
        <4>4. TotalBytes(next) = TotalBytes(here) - Head(here).bytes
          BY <4>3, TotalOfTail
        <4>5. Len(here) > ReplayCapacity \/ TotalBytes(here) > ReplayMaxBytes
          <5>1. Len(here) \in Nat /\ TotalBytes(here) \in Int
            <6>1. here \in Seq(Entry) /\ here # <<>>
              BY <4>3
            <6> HIDE DEF here
            <6>2. PICK f : /\ TotalBytes(here) = f[Len(here)] /\ \A j \in 0..Len(here) : f[j] \in Nat
              BY <6>1, PartialSums
            <6>3. Len(here) \in Nat /\ Len(here) \in 0..Len(here)
              BY <6>1, LenProperties
            <6> QED BY <6>2, <6>3
          <5> HIDE DEF here
          <5>2. ~Fits(here)
            BY <4>2 DEF here
          <5> QED BY <5>1, <5>2 DEF Fits
        <4>6. Tail(here) = next
          BY <4>3
        <4> HIDE DEF here, next
        <4>7. PopFront([left |-> here, total |-> TotalBytes(here)])
                = [left |-> next, total |-> TotalBytes(next)]
          BY <4>4, <4>5, <4>6 DEF PopFront
        <4>8. State(i - 1) = [left |-> here, total |-> TotalBytes(here)]
          BY <3>2 DEF here
        <4>9. State(i) = [left |-> next, total |-> TotalBytes(next)]
          BY <4>1 DEF next
        <4> HIDE DEF State
        <4> QED BY <4>7, <4>8, <4>9
      <3>4. CASE ~(i <= ev)
        <4>1. k = ev + 1 /\ first(i) = ev + 1
          BY <2>1, <3>4
        <4> HIDE DEF k, first
        <4> DEFINE here == SubSeq(all, ev + 1, n)
        <4>2. State(i - 1) = [left |-> here, total |-> TotalBytes(here)]
          BY <3>2, <4>1
        <4>3. State(i) = [left |-> here, total |-> TotalBytes(here)]
          BY <4>1
        <4>4. /\ Len(here) <= ReplayCapacity /\ TotalBytes(here) <= ReplayMaxBytes
              /\ Len(here) \in Nat /\ TotalBytes(here) \in Int
          <5>1. here \in Seq(Entry)
            <6>1. /\ SubSeq(all, k, n) \in Seq(Entry)
              BY <2>1, <3>1, NextSuffix DEF n
            <6> QED BY <4>1, <6>1
          <5> HIDE DEF here
          <5>2. PICK f : /\ TotalBytes(here) = f[Len(here)] /\ \A j \in 0..Len(here) : f[j] \in Nat
            BY <5>1, PartialSums
          <5>3. Len(here) \in Nat /\ Len(here) \in 0..Len(here)
            BY <5>1, LenProperties
          <5>4. Fits(here)
            BY <2>2 DEF here
          <5> QED BY <5>2, <5>3, <5>4 DEF Fits
        <4> HIDE DEF here, State
        <4>5. PopFront([left |-> here, total |-> TotalBytes(here)])
                = [left |-> here, total |-> TotalBytes(here)]
          BY <4>4 DEF PopFront
        <4> QED BY <4>2, <4>3, <4>5
      <3> QED BY <3>3, <3>4
    <2> HIDE DEF State
    <2>6. Popped(g)
      <3> DEFINE h == [i \in 0..n |-> IF i = 0 THEN [left |-> all, total |-> TotalBytes(all)]
                                      ELSE PopFront(g[i - 1])]
      <3>1. ASSUME NEW i \in 0..n PROVE g[i] = h[i]
        <4>1. CASE i = 0
          BY <2>4, <4>1
        <4>2. CASE i # 0
          <5>1. i \in 1..n /\ i - 1 \in 0..n
            BY <2>1, <4>2
          <5>2. g[i - 1] = State(i - 1) /\ g[i] = State(i) /\ h[i] = PopFront(g[i - 1])
            BY <4>2, <5>1
          <5> HIDE DEF g, h
          <5> QED BY <2>5, <5>1, <5>2
        <4> QED BY <4>1, <4>2
      <3>2. g = h
        BY <3>1
      <3> HIDE DEF g
      <3> QED BY <3>2 DEF Popped
    <2> DEFINE f == CHOOSE f : Popped(f)
    <2>7. f = [i \in 0..n |-> IF i = 0 THEN [left |-> all, total |-> TotalBytes(all)]
                              ELSE PopFront(f[i - 1])]
      <3>1. Popped(f)
        <4> HIDE DEF g
        <4> QED BY <2>6
      <3> HIDE DEF f
      <3> QED BY <3>1 DEF Popped
    <2> HIDE DEF f
    <2> DEFINE T == {i \in 0..n : f[i] = State(i)}
    <2>8. 0 \in T
      <3>1. 0 \in 0..n
        BY <2>1
      <3> QED BY <2>4, <2>7, <3>1
    <2>9. ASSUME NEW i \in 0..(n - 1), i \in T PROVE i + 1 \in T
      <3>1. i + 1 \in 1..n /\ i + 1 \in 0..n /\ i + 1 # 0 /\ (i + 1) - 1 = i
        BY <2>1
      <3>2. f[i + 1] = PopFront(f[i])
        BY <2>7, <3>1
      <3>3. State(i + 1) = PopFront(State(i))
        BY <2>5, <3>1
      <3> QED BY <2>9, <3>1, <3>2, <3>3
    <2>10. \A i \in 0..n : i \in T
      <3> HIDE DEF T
      <3> QED BY <2>1, <2>8, <2>9, UpTo
    <2>11. f[n] = State(n) /\ first(n) = ev + 1
      BY <2>1, <2>10
    <2>12. f[n].left = SubSeq(all, ev + 1, n)
      <3> HIDE DEF T, first
      <3>1. left(n) = SubSeq(all, ev + 1, n)
        BY <2>11
      <3> HIDE DEF left
      <3>2. State(n).left = left(n)
        BY DEF State
      <3> QED BY <2>11, <3>1, <3>2
    <2> QED BY <2>2, <2>3, <2>12 DEF f
  <1> QED BY <1>1, <1>2

\* What push leaves is within both limits.
LEMMA PushFits ==
    ASSUME NEW es \in Seq(Entry), NEW e \in Entry, e.bytes <= ReplayMaxBytes
    PROVE  Fits(Push(es, e))
  BY Evicted

-----------------------------------------------------------------------------
(* since: the scan skips the numbers at or below the cursor and collects as  *)
(* many of the others as the page takes.                                     *)

LEMMA PrefixTotals ==
    ASSUME NEW s \in Seq(Entry), NEW j \in 0..(Len(s) - 1)
    PROVE  /\ s[j + 1].bytes \in Nat /\ TotalBytes(SubSeq(s, 1, j)) \in Nat
           /\ TotalBytes(SubSeq(s, 1, j + 1)) = TotalBytes(SubSeq(s, 1, j)) + s[j + 1].bytes
  <1> DEFINE here == SubSeq(s, 1, j)
             e == s[j + 1]
  <1>1. here \in Seq(Entry) /\ e \in Entry /\ SubSeq(s, 1, j + 1) = Append(here, e)
    BY NextPrefix
  <1> HIDE DEF here, e
  <1>2. TotalBytes(Append(here, e)) = TotalBytes(here) + e.bytes /\ TotalBytes(here) \in Nat
    BY <1>1, TotalOfAppend
  <1>3. e.bytes \in Nat
    BY <1>1 DEF Entry
  <1> QED BY <1>1, <1>2, <1>3 DEF here, e

\* The entries past the cursor: where they start in a run of ascending numbers.
LEMMA Skipped ==
    ASSUME NEW es \in Seq(Entry), NEW after \in Nat,
           \A i \in 1..(Len(es) - 1) : es[i].event_id < es[i + 1].event_id
    PROVE  \E s \in 0..Len(es) :
            /\ After(es, after) \in Seq(Entry)
            /\ Len(After(es, after)) = Len(es) - s
            /\ \A i \in 1..s : es[i].event_id <= after
            /\ \A j \in 1..(Len(es) - s) :
                /\ ~(es[s + j].event_id <= after)
                /\ After(es, after)[j] = es[s + j]
  <1> DEFINE n == Len(es)
             D == {i \in DOMAIN es : es[i].event_id <= after}
             s == Cardinality(D)
  <1>1. n \in Nat /\ DOMAIN es = 1..n
    BY LenProperties
  <1>2. \A i \in 1..n : es[i].event_id \in Nat
    <2>1. \A i \in 1..n : es[i] \in Entry
      BY <1>1, ElementOfSeq
    <2> HIDE DEF n
    <2> QED BY <2>1 DEF Entry
  <1>3. After(es, after) = SubSeq(es, s + 1, n)
    BY DEF After
  <1>4. ASSUME NEW i \in D, i > 1 PROVE i - 1 \in D
    <2>1. i \in 1..n /\ es[i].event_id <= after
      BY <1>1
    <2> HIDE DEF D
    <2>2. i - 1 \in 1..(n - 1) /\ i - 1 \in 1..n /\ (i - 1) + 1 = i
      BY <1>1, <1>4, <2>1
    <2>3. es[i - 1].event_id < es[i].event_id
      BY <2>2
    <2>4. es[i - 1].event_id <= after
      BY <1>2, <2>1, <2>2, <2>3
    <2> QED BY <1>1, <2>2, <2>4 DEF D
  <1>5. s \in 0..n /\ D = 1..s
    <2>1. D \subseteq 1..n
      BY <1>1
    <2> HIDE DEF D, n
    <2> QED BY <1>1, <1>4, <2>1, FirstOnes
  <1>6. \A i \in 1..s : es[i].event_id <= after
    <2>1. \A i \in D : es[i].event_id <= after
      OBVIOUS
    <2> HIDE DEF D, s
    <2> QED BY <1>5, <2>1
  <1>7. \A j \in 1..(n - s) : ~(es[s + j].event_id <= after)
    <2>1. \A i \in 1..n : i \notin D => ~(es[i].event_id <= after)
      BY <1>1
    <2> HIDE DEF D, s, n
    <2>2. \A j \in 1..(n - s) : s + j \in 1..n /\ s + j \notin 1..s
      BY <1>1, <1>5
    <2> QED BY <1>5, <2>1, <2>2
  <1> HIDE DEF s, D
  <1>8. /\ SubSeq(es, s + 1, n) \in Seq(Entry)
        /\ Len(SubSeq(es, s + 1, n)) = n - s
        /\ \A j \in 1..(n - s) : SubSeq(es, s + 1, n)[j] = es[s + j]
    <2> DEFINE k == s + 1
    <2>1. k \in 1..(n + 1) /\ n \in 0..n /\ k <= n + 1
      BY <1>1, <1>5
    <2>2. n - k + 1 = n - s /\ \A j \in 1..(n - s) : k + j - 1 = s + j
      BY <1>1, <1>5
    <2> HIDE DEF k
    <2>3. /\ SubSeq(es, k, n) \in Seq(Entry)
          /\ Len(SubSeq(es, k, n)) = n - k + 1
          /\ \A j \in 1..(n - k + 1) : SubSeq(es, k, n)[j] = es[k + j - 1]
      BY <2>1, Piece
    <2>4. /\ SubSeq(es, k, n) \in Seq(Entry)
          /\ Len(SubSeq(es, k, n)) = n - s
          /\ \A j \in 1..(n - s) : SubSeq(es, k, n)[j] = es[s + j]
      BY <2>2, <2>3
    <2> QED BY <2>4 DEF k
  <1> HIDE DEF n
  <1>9. s \in 0..n
    BY <1>5
  <1> QED BY <1>3, <1>6, <1>7, <1>8, <1>9 DEF n

\* The page takes the first so many of them.
Takes(rest, limit, maxBytes) ==
    {j \in DOMAIN rest : /\ j <= limit
                         /\ TotalBytes(SubSeq(rest, 1, j)) <= maxBytes}

LEMMA Taken ==
    ASSUME NEW rest \in Seq(Entry), NEW limit \in Nat, NEW maxBytes \in Nat
    PROVE  /\ Cardinality(Takes(rest, limit, maxBytes)) \in 0..Len(rest)
           /\ Takes(rest, limit, maxBytes) = 1..Cardinality(Takes(rest, limit, maxBytes))
  <1> DEFINE n == Len(rest)
             T == Takes(rest, limit, maxBytes)
  <1>1. n \in Nat /\ DOMAIN rest = 1..n
    BY LenProperties
  <1>2. ASSUME NEW j \in T, j > 1 PROVE j - 1 \in T
    <2>1. j \in 1..n /\ j <= limit /\ TotalBytes(SubSeq(rest, 1, j)) <= maxBytes
      BY <1>1 DEF Takes
    <2> HIDE DEF T
    <2> DEFINE i == j - 1
    <2>2. i \in 0..(n - 1) /\ i \in 1..n /\ i + 1 = j /\ i <= limit
      BY <1>1, <1>2, <2>1
    <2> HIDE DEF i
    <2>3. /\ rest[i + 1].bytes \in Nat /\ TotalBytes(SubSeq(rest, 1, i)) \in Nat
          /\ TotalBytes(SubSeq(rest, 1, i + 1)) = TotalBytes(SubSeq(rest, 1, i)) + rest[i + 1].bytes
      BY <2>2, PrefixTotals
    <2>4. TotalBytes(SubSeq(rest, 1, i)) <= maxBytes
      BY <2>1, <2>2, <2>3
    <2>5. i \in T
      BY <1>1, <2>2, <2>4 DEF T, Takes
    <2> QED BY <2>5 DEF i
  <1>3. T \subseteq 1..n
    BY <1>1 DEF Takes
  <1> HIDE DEF n, T
  <1>4. Cardinality(T) \in 0..n /\ T = 1..Cardinality(T)
    BY <1>1, <1>2, <1>3, FirstOnes
  <1> QED BY <1>4 DEF n, T

LEMMA SinceIsLoop ==
    ASSUME NEW es \in Seq(Entry), NEW after \in Nat, NEW limit \in Nat, NEW maxBytes \in Nat,
           \A i \in 1..(Len(es) - 1) : es[i].event_id < es[i + 1].event_id
    PROVE  Since(es, after, limit, maxBytes) = SinceLoop(es, after, limit, maxBytes)
  <1> DEFINE n == Len(es)
             rest == After(es, after)
             T == Takes(rest, limit, maxBytes)
             t == Cardinality(T)
             start == [events |-> <<>>, has_more |-> FALSE, bytes |-> 0]
             Scanned(f) == f = [i \in 0..n |->
                              IF i = 0 THEN start
                              ELSE ScanEntry(f[i - 1], es[i], after, limit, maxBytes)]
             f == CHOOSE f : Scanned(f)
  <1>1. n \in Nat
    BY LenProperties
  <1>2. PICK s \in 0..n : /\ rest \in Seq(Entry)
                          /\ Len(rest) = n - s
                          /\ \A i \in 1..s : es[i].event_id <= after
                          /\ \A j \in 1..(n - s) : /\ ~(es[s + j].event_id <= after)
                                                   /\ rest[j] = es[s + j]
    BY Skipped
  <1>3. Since(es, after, limit, maxBytes) = [events |-> SubSeq(rest, 1, t), has_more |-> t < n - s]
    <2>1. Since(es, after, limit, maxBytes) = [events |-> SubSeq(rest, 1, t), has_more |-> t < Len(rest)]
      BY DEF Since, Takes
    <2> HIDE DEF rest, t, n
    <2> QED BY <1>2, <2>1
  <1>4. SinceLoop(es, after, limit, maxBytes) = [events |-> f[n].events, has_more |-> f[n].has_more]
    BY DEF SinceLoop
  <1> HIDE DEF rest, f, n, Scanned
  <1>5. t \in 0..(n - s) /\ T = 1..t
    <2>0. rest \in Seq(Entry)
      BY <1>2
    <2>1. t \in 0..Len(rest) /\ T = 1..t
      <3>1. Cardinality(Takes(rest, limit, maxBytes)) \in 0..Len(rest)
        BY ONLY <2>0, Taken, limit \in Nat, maxBytes \in Nat
      <3>2. Takes(rest, limit, maxBytes) = 1..Cardinality(Takes(rest, limit, maxBytes))
        BY ONLY <2>0, Taken, limit \in Nat, maxBytes \in Nat
      <3> QED BY <3>1, <3>2
    <2> HIDE DEF T, t
    <2> QED BY <1>2, <2>1
  <1>6. ASSUME NEW j \in 1..(n - s)
        PROVE  j <= t <=> j <= limit /\ TotalBytes(SubSeq(rest, 1, j)) <= maxBytes
    <2>1. j \in T <=> j <= limit /\ TotalBytes(SubSeq(rest, 1, j)) <= maxBytes
      <3>1. DOMAIN rest = 1..(n - s)
        BY <1>2, LenProperties
      <3> QED BY <3>1 DEF Takes
    <2> HIDE DEF T, t
    <2>2. j \in T <=> j <= t
      BY <1>1, <1>2, <1>5
    <2> QED BY <2>1, <2>2
  <1> HIDE DEF T, t
  <1> DEFINE past(i) == IF i <= s THEN 0 ELSE i - s
             count(i) == IF past(i) <= t THEN past(i) ELSE t
             page(i) == SubSeq(rest, 1, count(i))
             more(i) == past(i) > t
             State(i) == [events |-> page(i), has_more |-> more(i),
                          bytes |-> TotalBytes(page(i))]
             g == [i \in 0..n |-> State(i)]
  <1>7. State(0) = start
    <2>1. past(0) = 0 /\ count(0) = 0
      BY <1>2, <1>5, <1>1
    <2>2. SubSeq(rest, 1, 0) = <<>>
      <3> DEFINE none == SubSeq(rest, 1, 0)
      <3>1. 1 \in 1..Len(rest) + 1 /\ 0 \in 0..Len(rest) /\ 1 <= 0 + 1
        BY <1>1, <1>2
      <3>2. none \in Seq(Entry) /\ Len(none) = 0 - 1 + 1
        BY <1>2, <3>1, Piece
      <3> HIDE DEF none
      <3>3. none = <<>>
        BY <3>2, EmptySeq
      <3> QED BY <3>3 DEF none
    <2>3. more(0) = FALSE
      BY <1>1, <1>2, <1>5, <2>1
    <2> HIDE DEF past, count, more
    <2> QED BY <2>1, <2>2, <2>3, TotalOfNone
  <1>8. ASSUME NEW i \in 1..n
        PROVE  State(i) = ScanEntry(State(i - 1), es[i], after, limit, maxBytes)
    <2>1. CASE i <= s
      <3>1. past(i) = 0 /\ past(i - 1) = 0
        BY <1>1, <1>2, <2>1
      <3>2. es[i].event_id <= after
        BY <1>1, <1>2, <2>1
      <3>3. State(i) = State(i - 1)
        <4> HIDE DEF past
        <4> QED BY <3>1
      <3> HIDE DEF State
      <3> QED BY <3>2, <3>3 DEF ScanEntry
    <2>2. CASE ~(i <= s)
      <3> DEFINE j == i - s
      <3>1. /\ j \in 1..(n - s) /\ s + j = i /\ past(i) = j /\ past(i - 1) = j - 1
            /\ j - 1 \in 0..(n - s)
        <4>1. s \in Nat /\ n \in Nat /\ i \in Nat /\ i <= n /\ s < i
          BY <1>1, <1>2, <2>2
        <4>2. i - 1 <= s => i - 1 = s
          BY <4>1
        <4>3. past(i) = j /\ past(i - 1) = j - 1
          BY <4>1, <4>2
        <4> QED BY <4>1, <4>3
      <3> HIDE DEF j, past
      <3>2. ~(es[i].event_id <= after) /\ es[i] = rest[j]
        BY <1>2, <3>1
      <3>3. CASE j - 1 > t
        <4>1. count(i - 1) = t /\ count(i) = t /\ j > t
          BY <1>1, <1>2, <1>5, <3>1, <3>3
        <4>2. State(i) = State(i - 1) /\ State(i - 1).has_more
          <5>1. more(i) = TRUE /\ more(i - 1) = TRUE
            BY <3>1, <3>3, <4>1
          <5> HIDE DEF count, more
          <5> QED BY <4>1, <5>1
        <4> HIDE DEF State
        <4> QED BY <4>2 DEF ScanEntry
      <3>4. CASE j - 1 <= t
        <4> DEFINE k == j - 1
                   here == SubSeq(rest, 1, k)
                   next == SubSeq(rest, 1, j)
        <4>1. k \in 0..(n - s - 1) /\ k \in 0..(Len(rest) - 1) /\ k + 1 = j /\ ~(k > t)
          BY <1>1, <1>2, <1>5, <3>1, <3>4
        <4>2. count(i - 1) = k
          BY <1>1, <1>2, <1>5, <3>1, <3>4
        <4>3. State(i - 1) = [events |-> here, has_more |-> FALSE, bytes |-> TotalBytes(here)]
          <5>1. more(i - 1) = FALSE
            BY <3>1, <4>1
          <5> HIDE DEF count, more
          <5> QED BY <4>2, <5>1
        <4> HIDE DEF k
        <4>4. Len(here) = k /\ next = Append(here, rest[j])
          BY <1>2, <4>1, NextPrefix
        <4>5. /\ rest[j].bytes \in Nat /\ TotalBytes(here) \in Nat
              /\ TotalBytes(next) = TotalBytes(here) + rest[j].bytes
          BY <1>2, <4>1, PrefixTotals
        <4>6. j <= t <=> j <= limit /\ TotalBytes(next) <= maxBytes
          BY <1>6, <3>1
        <4>7. /\ j \in Nat /\ k \in Nat /\ t \in Nat
          BY <1>1, <1>2, <1>5, <3>1, <4>1
        <4> HIDE DEF here, next
        <4>8. CASE j <= t
          <5>1. count(i) = j /\ more(i) = FALSE
            BY <3>1, <4>7, <4>8
          <5>2. State(i) = [events |-> next, has_more |-> FALSE, bytes |-> TotalBytes(next)]
            <6> HIDE DEF count, more
            <6> QED BY <5>1 DEF next
          <5>3. ~(Len(here) >= limit \/ TotalBytes(here) + rest[j].bytes > maxBytes)
            BY <4>1, <4>4, <4>5, <4>6, <4>7, <4>8
          <5> DEFINE before == [events |-> here, has_more |-> FALSE, bytes |-> TotalBytes(here)]
          <5>4. ScanEntry(before, rest[j], after, limit, maxBytes)
                  = [events |-> next, has_more |-> FALSE, bytes |-> TotalBytes(next)]
            BY <3>2, <4>4, <4>5, <5>3 DEF ScanEntry
          <5> HIDE DEF State, before
          <5>5. State(i - 1) = before
            BY <4>3 DEF before
          <5> QED BY <3>2, <5>2, <5>4, <5>5
        <4>9. CASE ~(j <= t)
          <5>1. count(i) = k /\ t = k /\ more(i) = TRUE
            BY <1>1, <3>1, <4>1, <4>7, <4>9
          <5>2. State(i) = [events |-> here, has_more |-> TRUE, bytes |-> TotalBytes(here)]
            <6> HIDE DEF count, more
            <6> QED BY <5>1 DEF here
          <5>3. Len(here) >= limit \/ TotalBytes(here) + rest[j].bytes > maxBytes
            BY <4>1, <4>4, <4>5, <4>6, <4>7, <4>9
          <5> DEFINE before == [events |-> here, has_more |-> FALSE, bytes |-> TotalBytes(here)]
          <5>4. ScanEntry(before, rest[j], after, limit, maxBytes)
                  = [events |-> here, has_more |-> TRUE, bytes |-> TotalBytes(here)]
            BY <3>2, <5>3 DEF ScanEntry
          <5> HIDE DEF State, before
          <5>5. State(i - 1) = before
            BY <4>3 DEF before
          <5> QED BY <3>2, <5>2, <5>4, <5>5
        <4> QED BY <4>8, <4>9
      <3> QED BY <1>1, <1>2, <1>5, <3>1, <3>3, <3>4
    <2> QED BY <2>1, <2>2
  <1> HIDE DEF State, start
  <1>9. Scanned(g)
    <2> DEFINE h == [i \in 0..n |-> IF i = 0 THEN start
                                    ELSE ScanEntry(g[i - 1], es[i], after, limit, maxBytes)]
    <2>1. ASSUME NEW i \in 0..n PROVE g[i] = h[i]
      <3>1. CASE i = 0
        BY <1>7, <3>1
      <3>2. CASE i # 0
        <4>1. i \in 1..n /\ i - 1 \in 0..n
          BY <1>1, <3>2
        <4>2. /\ g[i - 1] = State(i - 1) /\ g[i] = State(i)
              /\ h[i] = ScanEntry(g[i - 1], es[i], after, limit, maxBytes)
          BY <3>2, <4>1
        <4> HIDE DEF g, h
        <4> QED BY <1>8, <4>1, <4>2
      <3> QED BY <3>1, <3>2
    <2>2. g = h
      BY <2>1
    <2> HIDE DEF g
    <2> QED BY <2>2 DEF Scanned
  <1>10. f = [i \in 0..n |-> IF i = 0 THEN start
                             ELSE ScanEntry(f[i - 1], es[i], after, limit, maxBytes)]
    <2>1. Scanned(f)
      <3> HIDE DEF g
      <3> QED BY <1>9 DEF f
    <2> QED BY <2>1 DEF Scanned
  <1> DEFINE R == {i \in 0..n : f[i] = State(i)}
  <1>11. 0 \in R
    <2>1. 0 \in 0..n
      BY <1>1
    <2> QED BY <1>7, <1>10, <2>1
  <1>12. ASSUME NEW i \in 0..(n - 1), i \in R PROVE i + 1 \in R
    <2>1. i + 1 \in 1..n /\ i + 1 \in 0..n /\ i + 1 # 0 /\ (i + 1) - 1 = i
      BY <1>1
    <2>2. f[i + 1] = ScanEntry(f[i], es[i + 1], after, limit, maxBytes)
      BY <1>10, <2>1
    <2>3. State(i + 1) = ScanEntry(State(i), es[i + 1], after, limit, maxBytes)
      BY <1>8, <2>1
    <2> QED BY <1>12, <2>1, <2>2, <2>3
  <1>13. \A i \in 0..n : i \in R
    <2> HIDE DEF R
    <2> QED BY <1>1, <1>11, <1>12, UpTo
  <1>14. f[n] = State(n) /\ past(n) = n - s /\ count(n) = t
    BY <1>1, <1>2, <1>5, <1>13
  <1>15. f[n].events = SubSeq(rest, 1, t) /\ f[n].has_more = (t < n - s)
    <2> HIDE DEF R, g, past, count
    <2>1. State(n).events = page(n) /\ State(n).has_more = (past(n) > t)
      BY DEF State
    <2>2. (n - s > t) = (t < n - s)
      BY <1>1, <1>2, <1>5
    <2> QED BY <1>14, <2>1, <2>2
  <1> HIDE DEF R, g, State
  <1> QED BY <1>3, <1>4, <1>15

-----------------------------------------------------------------------------
\* What every step preserves: HubInv, and a buffer within its limits.
BoundedInv == HubInv /\ Fits(entries)

LEMMA NoneFit == Fits(<<>>)
  <1>1. Len(<<>>) = 0
    OBVIOUS
  <1> QED BY <1>1, TotalOfNone DEF Fits

LEMMA BoundedNext == BoundedInv /\ [HubNext]_hubVars => BoundedInv'
  <1> SUFFICES ASSUME BoundedInv, [HubNext]_hubVars PROVE Fits(entries)'
    BY HubNextInv DEF BoundedInv
  <1>1. ASSUME NEW p \in Publishers, NEW size \in Sizes, Publish(p, size)
        PROVE  Fits(entries)'
    <2> DEFINE e == [event_id |-> next_event_id, bytes |-> StoredBytes(size)]
    <2>1. e \in Entry /\ e.bytes <= ReplayMaxBytes /\ entries \in Seq(Entry)
      BY DEF Entry, StoredBytes, BoundedInv, HubInv, HubTypeOK
    <2>2. entries' = Push(entries, e)
      BY <1>1 DEF Publish
    <2> HIDE DEF e
    <2> QED BY <2>1, <2>2, PushFits
  <1>2. CASE UNCHANGED entries
    BY <1>2 DEF BoundedInv, Fits
  <1>3. CASE Restart
    BY <1>3, NoneFit DEF Restart
  <1>4. ASSUME NEW p \in Publishers, Broadcast(p) PROVE UNCHANGED entries
    BY <1>4 DEF Broadcast, streamVars
  <1>5. ASSUME NEW c \in Clients,
               \/ AddClient(c)
               \/ SendJson(c, StateFrame(stream_id))
               \/ SendJsonTimesOut(c)
               \/ Transmit(c)
               \/ SocketCloses(c)
               \/ RemoveClient(c)
        PROVE  UNCHANGED entries
    BY <1>5 DEF AddClient, SendJson, SendJsonTimesOut, Transmit, SocketCloses, RemoveClient,
                streamVars
  <1>6. UNCHANGED hubVars => UNCHANGED entries
    BY DEF hubVars, streamVars
  <1> QED BY <1>1, <1>2, <1>3, <1>4, <1>5, <1>6 DEF HubNext

LEMMA Followed == BoundedInv => FormsFollowLoops
  <1> SUFFICES ASSUME BoundedInv PROVE FormsFollowLoops
    OBVIOUS
  <1>1. /\ entries \in Seq(Entry) /\ next_event_id \in Nat
        /\ latest_published_event_id \in Nat
        /\ \A i \in 1..Len(entries) :
              entries[i].event_id = latest_published_event_id - Len(entries) + i
    BY LenProperties DEF BoundedInv, HubInv, HubTypeOK, BufferIsNewestRun
  <1>2. ASSUME NEW size \in 0..ReplayMaxBytes + 1
        PROVE  LET e == [event_id |-> next_event_id, bytes |-> size]
               IN  Push(entries, e) = PushLoop(entries, e)
    <2> DEFINE e == [event_id |-> next_event_id, bytes |-> size]
    <2>1. size \in Nat
      OBVIOUS
    <2>2. e \in [event_id : Nat, bytes : Nat]
      BY <1>1, <2>1
    <2> HIDE DEF e
    <2>3. Push(entries, e) = PushLoop(entries, e)
      BY <1>1, <2>2, PushIsLoop
    <2> QED BY <2>3 DEF e
  <1>3. ASSUME NEW after \in 0..latest_published_event_id, NEW limit \in PageLimits,
               NEW budget \in 0..ReplayMaxBytes
        PROVE  Since(entries, after, limit, budget) = SinceLoop(entries, after, limit, budget)
    <2>1. after \in Nat /\ limit \in Nat /\ budget \in Nat
      BY <1>1
    <2>2. ASSUME NEW i \in 1..(Len(entries) - 1)
          PROVE  entries[i].event_id < entries[i + 1].event_id
      <3>1. Len(entries) \in Nat
        BY <1>1, LenProperties
      <3>2. i \in 1..Len(entries) /\ i + 1 \in 1..Len(entries)
        BY <3>1
      <3>3. /\ entries[i].event_id = latest_published_event_id - Len(entries) + i
            /\ entries[i + 1].event_id = latest_published_event_id - Len(entries) + (i + 1)
        BY <1>1, <3>2
      <3> QED BY <1>1, <3>1, <3>3
    <2> QED BY <1>1, <2>1, <2>2, SinceIsLoop
  <1>4. Fits(entries)
    BY DEF BoundedInv
  <1> QED BY <1>2, <1>3, <1>4 DEF FormsFollowLoops

\* The buffer never exceeds its capacity or its byte budget, and the counting
\* forms of push and since the other theorems use compute what the loops of
\* replay.rs compute, for every buffer the hub can reach and for every capacity,
\* byte budget, payload size, cursor and page limit.
THEOREM LoopsFollowed == HubSpec => []FormsFollowLoops
  <1>1. HubInit => BoundedInv
    BY HubInitInv, NoneFit DEF BoundedInv, HubInit
  <1> QED BY <1>1, BoundedNext, Followed, PTL DEF HubSpec
=============================================================================
