-------------------------- MODULE TranscriptProofs --------------------------
(***************************************************************************)
(* Proofs about the rows of a thread in the app, for any tools, sub-agents,*)
(* runs, texts, delays of the pump and snapshots at any moment.            *)
(*                                                                         *)
(* LiveGood says of a live state, also in the middle of a batch of events, *)
(* that its rows are told apart by their ids and that the books which row  *)
(* speaks for a call are right.  One lemma per operator of AgUiReducer     *)
(* shows that it keeps LiveGood.  FeedInv is about the events on their way:*)
(* once a call has been announced as a sub-agent's no metadata of it       *)
(* follows, and between two runs nothing is on its way but the next run.   *)
(***************************************************************************)
EXTENDS Transcript, FiniteSetTheorems, WellFoundedInduction, TLAPS

-----------------------------------------------------------------------------
(* What is shown to hold. *)

Texts == Seq(Nat)
AnyIds == {"none", "m", "call", "res", "runres", "card"} \X Nat \X Nat
MsgIds == {MsgId(n) : n \in Nat}
ResultIds(t) == {ResId(t)} \cup {RunResId(t, r) : r \in 1 .. MaxRuns}
MessageRoles == {"user", "assistant", "reasoning"}

\* The id of a row says whose it is and what it speaks for.
RowOfKind(m) ==
    \/ m.call = 0 /\ m.id \in MsgIds /\ m.role \in MessageRoles
    \/ m.call # 0 /\ m.role = "assistant" /\ m.id = CallId(m.call)
    \/ m.call # 0 /\ m.role = "tool" /\ m.id \in ResultIds(m.call)
    \/ m.call # 0 /\ m.role = "activity" /\ m.id = CardId(m.call)
Rows == {m \in [id : AnyIds, role : MessageRoles \cup {"tool", "activity"}, text : Texts,
                pend : {"on", "off", "unset"}, call : Tools \cup {0}] : RowOfKind(m)}

\* No two rows have the same id.
Distinct(s) == \A i, j \in DOMAIN s : s[i].id = s[j].id => i = j

\* The row of a call and the row of its result are the ones the books name.
Booked(s, callOf, resOf) ==
    \A i \in DOMAIN s :
        /\ s[i].role = "assistant" /\ s[i].call # 0 => callOf[s[i].call] = s[i].id
        /\ s[i].role = "tool" => resOf[s[i].call] = s[i].id

BooksOf(callOf, resOf) ==
    /\ DOMAIN callOf = Tools /\ DOMAIN resOf = Tools
    /\ \A t \in Tools : callOf[t] \in {NoId, CallId(t)} /\ resOf[t] \in {NoId} \cup ResultIds(t)

LiveFields ==
    {"msgs", "auth", "runOf", "term", "callOf", "resOf", "sub", "meta", "textRev", "structRev",
     "structText"}
LiveShape(l) ==
    /\ DOMAIN l = LiveFields
    /\ l.msgs \in Seq(Rows)
    /\ l.sub \subseteq Tools
    /\ l.structText \in [Tools -> Texts]
    /\ BooksOf(l.callOf, l.resOf)

\* What an operator may find, also between its own steps, and what it leaves.
LiveSound(l) == LiveShape(l) /\ Distinct(l.msgs) /\ Booked(l.msgs, l.callOf, l.resOf)
LiveGood(l) == LiveSound(l) /\ Len(l.msgs) <= MaxMsgs

\* No call known to be a sub-agent's has a generic row.
NoGeneric(l) ==
    \A i \in DOMAIN l.msgs : l.msgs[i].role \in {"assistant", "tool"} => l.msgs[i].call \notin l.sub

-----------------------------------------------------------------------------
(* The events on their way. *)

Statuses == {"", "none", "in_progress", "completed"}
MessageEvs ==
    [ev : {"MESSAGE_START", "MESSAGE_CONTENT", "MESSAGE_END"}, id : MsgIds, role : MessageRoles,
     text : Texts, run : 1 .. MaxRuns]
ContentEvs ==
    [ev : {"MESSAGE_CONTENT"}, id : MsgIds, role : MessageRoles, text : Texts, run : 1 .. MaxRuns]
RunEvs ==
    [ev : {"RUN_STARTED", "RUN_FINISHED"}, id : AnyIds, role : {"", "user"}, text : Texts, run : 1 .. MaxRuns]
ToolEvs ==
    [ev : {"TOOL_CALL_START", "TOOL_CALL_ARGS", "TOOL_CALL_END", "TOOL_CALL_RESULT", "tool-meta",
           "tool-text", "tool-content", "ACTIVITY_SNAPSHOT"},
     t : Tools, text : Texts, status : Statuses, run : 1 .. MaxRuns]
StreamEvs == MessageEvs \cup RunEvs \cup ToolEvs

Starts(b) == b # <<>> /\ b[1].ev = "RUN_STARTED"
Ends(b) == b # <<>> /\ b[Len(b)].ev = "RUN_FINISHED"
Tells(b, ev, t) == \E k \in DOMAIN b : b[k].ev = ev /\ b[k].t = t

\* The timeline has a sub-agent's task for call t.
IsTask(tl, t) == \E i \in DOMAIN tl : tl[i].kind = "tool" /\ tl[i].n = t /\ tl[i].sub

\* The start of a run comes alone, and nothing else follows the end of one.
FeedOrder ==
    /\ \A i \in DOMAIN feed : Starts(feed[i]) => Len(feed[i]) = 1
    /\ \A i \in DOMAIN feed : i > 1 /\ Ends(feed[i - 1]) => Starts(feed[i])
    /\ owed # 0 /\ feed # <<>> => Starts(feed[1])
    /\ run # 0 /\ feed # <<>> => ~Ends(feed[Len(feed)])
    /\ run # 0 /\ feed = <<>> => owed = 0

\* What is announced as a sub-agent's task is one, and no metadata of the
\* generic row follows the announcement.
Announced ==
    /\ \A i \in DOMAIN feed, t \in Tools : Tells(feed[i], "ACTIVITY_SNAPSHOT", t) => IsTask(timeline, t)
    /\ \A i \in DOMAIN feed : \A j \in i .. Len(feed) : \A t \in Tools :
          Tells(feed[i], "ACTIVITY_SNAPSHOT", t) => ~Tells(feed[j], "tool-meta", t)

\* Unless a snapshot is ahead of the stream, no metadata of a call the app
\* already knows as a sub-agent's comes before the next run.
Hidden ==
    /\ \A t \in live.sub : IsTask(timeline, t)
    /\ ~ahead => \A i \in DOMAIN feed, t \in live.sub :
                    Tells(feed[i], "tool-meta", t) => \E k \in 1 .. i : Starts(feed[k])

FeedInv == feed \in Seq(Seq(StreamEvs)) /\ Len(feed) <= MaxLag + 1 /\ FeedOrder /\ Announced

-----------------------------------------------------------------------------
(* The session. *)

Entries ==
    [kind : {"user", "text", "thought", "tool"}, n : Nat, text : Texts, st : Texts,
     sub : BOOLEAN, done : BOOLEAN]
EntryOfKind(e, msgs) ==
    IF e.kind = "tool" THEN e.n \in Tools ELSE e.n \in 1 .. msgs /\ ~e.sub

\* Every entry is there once.
TimelineOf(tl, msgs) ==
    /\ tl \in Seq(Entries)
    /\ \A i \in DOMAIN tl : EntryOfKind(tl[i], msgs)
    /\ \A i, j \in DOMAIN tl : tl[i].n = tl[j].n /\ (tl[i].kind = "tool" <=> tl[j].kind = "tool") => i = j

ToolProjs ==
    [started : BOOLEAN, ended : BOOLEAN, text : Texts, st : Texts, meta : Statuses, sub : BOOLEAN]
Projs ==
    [user : MsgIds \cup {NoId}, text : MsgIds \cup {NoId}, thought : MsgIds \cup {NoId},
     tools : [Tools -> ToolProjs]]

SessionInv ==
    /\ TimelineOf(timeline, used.msgs)
    /\ proj \in Projs
    /\ \A t \in Tools : proj.tools[t].sub => IsTask(timeline, t)
    /\ run \in 0 .. used.runs
    /\ run # 0 => timeline # <<>>

UsedInv ==
    /\ used \in [runs : Nat, toks : Nat, msgs : Nat, reads : Nat, parents : Nat, lost : Nat]
    /\ used.runs <= MaxRuns

AppInv ==
    /\ owed \in 0 .. MaxRuns
    /\ LiveGood(live)
    /\ buf \in Seq(ContentEvs)
    /\ ahead \in BOOLEAN
    /\ ~ahead => NoGeneric(live)
    /\ Cardinality(reading) <= 1

TranscriptInv == UsedInv /\ SessionInv /\ FeedInv /\ AppInv /\ Hidden

-----------------------------------------------------------------------------
(* Induction up to a bound, and loops over a sequence. *)

USE TranscriptAssumption

\* A set of numbers has a least one.
LEMMA LeastNumber ==
    ASSUME NEW T, T \subseteq Nat, T # {}
    PROVE  \E m \in T : \A n \in T : m <= n
<1> DEFINE R == OpToRel(<, Nat)
<1>1. PICK m \in T : \A n \in T : ~(<<n, m>> \in R)
  <2>1. IsWellFoundedOn(R, Nat)
    BY NatLessThanWellFounded
  <2> HIDE DEF R
  <2> QED BY <2>1, WFMin
<1>2. ASSUME NEW n \in T, n < m PROVE FALSE
  <2>1. <<n, m>> \in R
    BY <1>2 DEF OpToRel
  <2> QED BY <1>1, <2>1
<1> QED BY <1>2

\* A set that has m and with every number below n the next one has all of m..n.
LEMMA UpTo ==
    ASSUME NEW T, NEW m \in Nat, NEW n \in Nat, m \in T,
           \A i \in m .. (n - 1) : i \in T => i + 1 \in T
    PROVE  \A i \in m .. n : i \in T
<1> DEFINE B == {i \in m .. n : i \notin T}
<1>1. CASE B = {}
  BY <1>1
<1>2. CASE B # {}
  <2>1. B \subseteq Nat
    OBVIOUS
  <2>2. PICK k \in B : \A i \in B : k <= i
    <3> HIDE DEF B
    <3> QED BY <1>2, <2>1, LeastNumber
  <2>3. k \in m .. n /\ k # m /\ k \notin T
    BY <2>2
  <2>4. k - 1 \in m .. (n - 1) /\ ~(k <= k - 1) /\ (k - 1) + 1 = k
    BY <2>3
  <2>5. k - 1 \in T
    BY <2>2, <2>4
  <2> QED BY <2>3, <2>4, <2>5
<1> QED BY <1>1, <1>2

\* The loop of FlattenSeq exists.
IsFlattenRun(f, ss, n) == f = [i \in 1 .. n |-> IF i = 1 THEN ss[i] ELSE f[i - 1] \o ss[i]]

LEMMA FlattenRun ==
    ASSUME NEW ss, NEW n \in Nat
    PROVE  \E f : IsFlattenRun(f, ss, n)
<1> DEFINE T == {m \in 0 .. n : \E f : IsFlattenRun(f, ss, m)}
<1>1. 0 \in T
  <2> DEFINE g == [i \in 1 .. 0 |-> ss[i]]
  <2>1. IsFlattenRun(g, ss, 0)
    BY DEF IsFlattenRun
  <2> HIDE DEF g
  <2> QED BY <2>1
<1>2. ASSUME NEW m \in 0 .. (n - 1), m \in T PROVE m + 1 \in T
  <2>1. PICK f : IsFlattenRun(f, ss, m)
    BY <1>2
  <2> DEFINE g == [i \in 1 .. (m + 1) |-> IF i = 1 THEN ss[i] ELSE f[i - 1] \o ss[i]]
             h == [i \in 1 .. (m + 1) |-> IF i = 1 THEN ss[i] ELSE g[i - 1] \o ss[i]]
  <2>2. ASSUME NEW i \in 1 .. m PROVE g[i] = f[i]
    <3>1. i \in 1 .. (m + 1)
      OBVIOUS
    <3> QED BY <2>1, <3>1 DEF IsFlattenRun
  <2>3. ASSUME NEW i \in 1 .. (m + 1) PROVE g[i] = h[i]
    <3>1. CASE i = 1
      BY <3>1
    <3>2. CASE i # 1
      <4>1. i - 1 \in 1 .. m
        BY <3>2
      <4>2. g[i - 1] = f[i - 1]
        BY <2>2, <4>1
      <4>3. g[i] = f[i - 1] \o ss[i] /\ h[i] = g[i - 1] \o ss[i]
        BY <3>2
      <4> HIDE DEF g, h
      <4> QED BY <4>2, <4>3
    <3> QED BY <3>1, <3>2
  <2>4. g = h
    BY <2>3
  <2>5. IsFlattenRun(g, ss, m + 1)
    BY <2>4 DEF IsFlattenRun
  <2> HIDE DEF g
  <2>6. m + 1 \in 0 .. n
    OBVIOUS
  <2> QED BY <2>5, <2>6
<1>3. \A m \in 0 .. n : m \in T
  <2> HIDE DEF T
  <2> QED BY <1>1, <1>2, UpTo
<1>4. n \in T
  BY <1>3
<1> QED BY <1>4

LEMMA Concatenation ==
    ASSUME NEW S, NEW s \in Seq(S), NEW t \in Seq(S)
    PROVE  /\ s \o t \in Seq(S)
           /\ Len(s \o t) = Len(s) + Len(t)
           /\ DOMAIN (s \o t) = 1 .. (Len(s) + Len(t))
           /\ \A j \in 1 .. Len(s) : (s \o t)[j] = s[j]
           /\ \A j \in (Len(s) + 1) .. (Len(s) + Len(t)) :
                 (s \o t)[j] = t[j - Len(s)] /\ j - Len(s) \in DOMAIN t
<1>1. s \o t \in Seq(S) /\ Len(s \o t) = Len(s) + Len(t)
  OBVIOUS
<1>2. DOMAIN (s \o t) = 1 .. (Len(s) + Len(t))
  BY <1>1
<1>3. ASSUME NEW j \in 1 .. Len(s) PROVE (s \o t)[j] = s[j]
  OBVIOUS
<1>4. ASSUME NEW j \in (Len(s) + 1) .. (Len(s) + Len(t)) PROVE j - Len(s) \in DOMAIN t
  OBVIOUS
<1>5. ASSUME NEW j \in (Len(s) + 1) .. (Len(s) + Len(t)) PROVE (s \o t)[j] = t[j - Len(s)]
  <2>1. j \in 1 .. (Len(s) + Len(t)) /\ ~(j <= Len(s))
    OBVIOUS
  <2> QED BY <2>1
<1> QED BY <1>1, <1>2, <1>3, <1>4, <1>5

\* The first j elements of a flattened sequence come from its first i parts.
FromFirst(s, ss, i) == \A j \in DOMAIN s : \E a \in 1 .. i : \E k \in DOMAIN ss[a] : s[j] = ss[a][k]

\* No id occurs at two places of the parts.
Apart(ss) ==
    \A a, b \in DOMAIN ss : \A k \in DOMAIN ss[a], l \in DOMAIN ss[b] :
        ss[a][k].id = ss[b][l].id => a = b /\ k = l

LEMMA FlattenStep ==
    ASSUME NEW S, NEW ss \in Seq(Seq(S)), NEW i \in Nat, i + 1 \in DOMAIN ss,
           NEW s \in Seq(S), FromFirst(s, ss, i), Apart(ss) => Distinct(s)
    PROVE  /\ s \o ss[i + 1] \in Seq(S)
           /\ FromFirst(s \o ss[i + 1], ss, i + 1)
           /\ Apart(ss) => Distinct(s \o ss[i + 1])
<1> DEFINE t == ss[i + 1]
           r == s \o t
           p == Len(s)
           q == Len(t)
<1>1. t \in Seq(S)
  OBVIOUS
<1>2. p \in Nat /\ q \in Nat /\ DOMAIN s = 1 .. p
  BY <1>1
<1>3. /\ r \in Seq(S)
      /\ DOMAIN r = 1 .. (p + q)
      /\ \A j \in 1 .. p : r[j] = s[j]
      /\ \A j \in (p + 1) .. (p + q) : r[j] = t[j - p] /\ j - p \in DOMAIN t
  <2> HIDE DEF t
  <2> QED BY <1>1, Concatenation
<1> HIDE DEF r, p, q
<1>4. \A j \in 1 .. (p + q) : j \in 1 .. p \/ j \in (p + 1) .. (p + q)
  BY <1>2
<1>5. FromFirst(r, ss, i + 1)
  <2> SUFFICES ASSUME NEW j \in 1 .. (p + q)
               PROVE \E a \in 1 .. (i + 1) : \E k \in DOMAIN ss[a] : r[j] = ss[a][k]
    BY <1>3 DEF FromFirst
  <2>1. CASE j \in 1 .. p
    <3>1. PICK a \in 1 .. i : \E k \in DOMAIN ss[a] : s[j] = ss[a][k]
      BY <1>2, <2>1 DEF FromFirst
    <3>2. a \in 1 .. (i + 1)
      OBVIOUS
    <3> QED BY <1>3, <2>1, <3>1, <3>2
  <2>2. CASE j \in (p + 1) .. (p + q)
    <3>1. i + 1 \in 1 .. (i + 1)
      OBVIOUS
    <3> QED BY <1>3, <2>2, <3>1
  <2> QED BY <1>4, <2>1, <2>2
<1>6. ASSUME Apart(ss) PROVE Distinct(r)
  <2>1. ASSUME NEW j \in 1 .. p, NEW m \in (p + 1) .. (p + q) PROVE r[j].id # r[m].id
    <3>1. PICK a \in 1 .. i : \E k \in DOMAIN ss[a] : s[j] = ss[a][k]
      BY <1>2 DEF FromFirst
    <3>2. PICK k \in DOMAIN ss[a] : s[j] = ss[a][k]
      BY <3>1
    <3>3. a \in DOMAIN ss /\ a # i + 1
      OBVIOUS
    <3>4. r[j] = ss[a][k] /\ r[m] = ss[i + 1][m - p] /\ m - p \in DOMAIN ss[i + 1]
      BY <1>3, <3>2
    <3> DEFINE l == m - p
    <3>5. l \in DOMAIN ss[i + 1] /\ r[m] = ss[i + 1][l]
      BY <3>4
    <3> HIDE DEF t, l
    <3>6. ss[a][k].id # ss[i + 1][l].id
      BY <1>6, <3>3, <3>5 DEF Apart
    <3> QED BY <3>4, <3>5, <3>6
  <2>2. ASSUME NEW j \in 1 .. p, NEW m \in 1 .. p, r[j].id = r[m].id PROVE j = m
    BY <1>2, <1>3, <1>6, <2>2 DEF Distinct
  <2>3. ASSUME NEW j \in (p + 1) .. (p + q), NEW m \in (p + 1) .. (p + q), r[j].id = r[m].id PROVE j = m
    <3>1. t[j - p].id = t[m - p].id /\ j - p \in DOMAIN t /\ m - p \in DOMAIN t
      BY <1>3, <2>3
    <3>2. j - p = m - p
      BY <1>6, <3>1 DEF Apart
    <3>3. j \in Int /\ m \in Int /\ p \in Int
      BY <1>2
    <3> QED BY <3>2, <3>3
  <2> QED BY <1>3, <1>4, <2>1, <2>2, <2>3 DEF Distinct
<1> QED BY <1>3, <1>5, <1>6 DEF r

\* What FlattenSeq returns comes from the sequences it was given, and is
\* distinct if they are.
LEMMA FlattenFrom ==
    ASSUME NEW S, NEW ss \in Seq(Seq(S))
    PROVE  /\ FlattenSeq(ss) \in Seq(S)
           /\ FromFirst(FlattenSeq(ss), ss, Len(ss))
           /\ Apart(ss) => Distinct(FlattenSeq(ss))
<1> DEFINE n == Len(ss)
<1>0. n \in Nat /\ DOMAIN ss = 1 .. n /\ \A i \in 1 .. n : ss[i] \in Seq(S)
  OBVIOUS
<1>1. CASE n = 0
  <2>1. FlattenSeq(ss) = ss /\ ss = <<>>
    BY <1>1 DEF FlattenSeq
  <2> QED BY <2>1 DEF Distinct, FromFirst
<1>2. CASE n # 0
  <2> DEFINE f == CHOOSE f : IsFlattenRun(f, ss, n)
  <2>1. f = [i \in 1 .. n |-> IF i = 1 THEN ss[i] ELSE f[i - 1] \o ss[i]]
    <3>1. IsFlattenRun(f, ss, n)
      BY <1>0, FlattenRun
    <3> HIDE DEF f
    <3> QED BY <3>1 DEF IsFlattenRun
  <2>2. FlattenSeq(ss) = f[n]
    BY <1>2 DEF FlattenSeq, IsFlattenRun
  <2> HIDE DEF f, n
  <2>3. f[1] = ss[1] /\ \A i \in 1 .. (n - 1) : f[i + 1] = f[i] \o ss[i + 1]
    <3>1. 1 \in 1 .. n /\ \A i \in 1 .. (n - 1) : i + 1 \in 1 .. n /\ i + 1 # 1 /\ (i + 1) - 1 = i
      BY <1>0, <1>2
    <3> QED BY <2>1, <3>1
  <2> DEFINE Good(s, i) == s \in Seq(S) /\ FromFirst(s, ss, i) /\ (Apart(ss) => Distinct(s))
             T == {i \in 1 .. n : Good(f[i], i)}
  <2>4. 1 \in T
    <3>1. 1 \in 1 .. n /\ 1 \in DOMAIN ss /\ ss[1] \in Seq(S)
      BY <1>0, <1>2
    <3>2. FromFirst(ss[1], ss, 1)
      BY <3>1 DEF FromFirst
    <3>3. Apart(ss) => Distinct(ss[1])
      BY <3>1 DEF Distinct, Apart
    <3> QED BY <2>3, <3>1, <3>2, <3>3
  <2>5. ASSUME NEW i \in 1 .. (n - 1), i \in T PROVE i + 1 \in T
    <3>1. i \in Nat /\ i + 1 \in 1 .. n /\ i + 1 \in DOMAIN ss /\ Good(f[i], i)
      BY <1>0, <2>5
    <3> DEFINE s == f[i]
    <3>2. f[i + 1] = s \o ss[i + 1]
      BY <2>3
    <3> HIDE DEF s
    <3>3. Good(s \o ss[i + 1], i + 1)
      BY <3>1, FlattenStep DEF s
    <3> HIDE DEF Good
    <3> QED BY <3>1, <3>2, <3>3
  <2>6. \A i \in 1 .. n : i \in T
    <3> HIDE DEF T
    <3> QED BY <1>0, <2>4, <2>5, UpTo
  <2>7. n \in T
    BY <1>0, <1>2, <2>6
  <2>8. Good(f[n], n)
    BY <2>7
  <2> QED BY <2>2, <2>8 DEF n
<1> QED BY <1>1, <1>2

-----------------------------------------------------------------------------
(* Ids and rows. *)

LEMMA IdParts ==
    ASSUME NEW n, NEW r
    PROVE  /\ NoId[1] = "none"
           /\ MsgId(n)[1] = "m" /\ MsgId(n)[2] = n
           /\ CallId(n)[1] = "call" /\ CallId(n)[2] = n
           /\ ResId(n)[1] = "res" /\ ResId(n)[2] = n
           /\ RunResId(n, r)[1] = "runres" /\ RunResId(n, r)[2] = n
           /\ CardId(n)[1] = "card" /\ CardId(n)[2] = n
BY DEF NoId, MsgId, CallId, ResId, RunResId, CardId

LEMMA IdTypes ==
    /\ NoId \in AnyIds /\ MsgIds \subseteq AnyIds
    /\ \A t \in Tools : CallId(t) \in AnyIds /\ CardId(t) \in AnyIds /\ ResultIds(t) \subseteq AnyIds
<1>1. \A n \in Nat : MsgId(n) \in AnyIds
  BY DEF MsgId, AnyIds
<1>2. ASSUME NEW n \in Nat, NEW r \in Nat PROVE RunResId(n, r) \in AnyIds
  BY DEF RunResId, AnyIds
<1>3. \A n \in Nat : CallId(n) \in AnyIds /\ CardId(n) \in AnyIds /\ ResId(n) \in AnyIds
  BY DEF CallId, CardId, ResId, AnyIds
<1>4. Tools \subseteq Nat /\ 1 .. MaxRuns \subseteq Nat
  OBVIOUS
<1>5. NoId \in AnyIds
  BY DEF NoId, AnyIds
<1> QED BY <1>1, <1>2, <1>3, <1>4, <1>5 DEF MsgIds, ResultIds

LEMMA RowParts ==
    ASSUME NEW m \in Rows
    PROVE  /\ m.id \in AnyIds /\ m.text \in Texts /\ m.call \in Tools \cup {0}
           /\ m.id # NoId
           /\ m.call = 0 => m.id[1] = "m" /\ m.role \in MessageRoles
           /\ m.call # 0 => m.role \in {"assistant", "tool", "activity"} /\ m.id[2] = m.call
           /\ m.call # 0 /\ m.role = "assistant" => m.id[1] = "call" /\ m.id = CallId(m.call)
           /\ m.call # 0 /\ m.role = "tool" => m.id[1] \in {"res", "runres"} /\ m.id \in ResultIds(m.call)
           /\ m.call # 0 /\ m.role = "activity" => m.id[1] = "card" /\ m.id = CardId(m.call)
           /\ m.role = "tool" => m.call # 0
<1>1. m.id \in AnyIds /\ m.text \in Texts /\ m.call \in Tools \cup {0} /\ RowOfKind(m)
  BY DEF Rows
<1>2. m.id \in MsgIds => m.id[1] = "m"
  BY IdParts DEF MsgIds
<1>3. \A t \in Tools : m.id \in ResultIds(t) => m.id[1] \in {"res", "runres"} /\ m.id[2] = t
  BY IdParts DEF ResultIds
<1>4. NoId[1] = "none"
  BY IdParts
<1>5. m.call = 0 \/ (m.call \in Tools /\ m.call # 0)
  BY <1>1
<1>6. CASE m.call = 0
  <2>1. m.id \in MsgIds /\ m.role \in MessageRoles
    BY <1>1, <1>6 DEF RowOfKind
  <2>2. "tool" \notin MessageRoles /\ "m" # "none"
    BY DEF MessageRoles
  <2> QED BY <1>1, <1>2, <1>4, <1>6, <2>1, <2>2
<1>7. CASE m.call # 0 /\ m.role = "assistant"
  <2>1. m.id = CallId(m.call)
    BY <1>1, <1>7 DEF RowOfKind
  <2>2. m.id[1] = "call" /\ m.id[2] = m.call
    BY <2>1, IdParts
  <2> QED BY <1>1, <1>4, <1>7, <2>1, <2>2
<1>8. CASE m.call # 0 /\ m.role = "tool"
  <2>1. m.id \in ResultIds(m.call)
    BY <1>1, <1>8 DEF RowOfKind
  <2> QED BY <1>1, <1>3, <1>4, <1>5, <1>8, <2>1
<1>9. CASE m.call # 0 /\ m.role = "activity"
  <2>1. m.id = CardId(m.call)
    BY <1>1, <1>9 DEF RowOfKind
  <2>2. m.id[1] = "card" /\ m.id[2] = m.call
    BY <2>1, IdParts
  <2> QED BY <1>1, <1>4, <1>9, <2>1, <2>2
<1> QED BY <1>1, <1>6, <1>7, <1>8, <1>9 DEF RowOfKind

LEMMA SameIdSameKind ==
    ASSUME NEW m \in Rows, NEW o \in Rows, m.id = o.id
    PROVE  m.call = o.call /\ (m.call # 0 => m.role = o.role)
<1>1. CASE m.call = 0
  BY <1>1, RowParts
<1>2. CASE m.call # 0
  BY <1>2, RowParts
<1> QED BY <1>1, <1>2

\* Rows of s2 come from s, none of them with the id of m, or are m.
PutInto(s2, s, m) ==
    \A i \in DOMAIN s2 : s2[i] = m \/ \E j \in DOMAIN s : s2[i] = s[j] /\ s[j].id # m.id

Put(s, m) ==
    IF m.id \in Ids(s) THEN [i \in DOMAIN s |-> IF s[i].id = m.id THEN m ELSE s[i]] ELSE Append(s, m)

LEMMA PutRow ==
    ASSUME NEW s \in Seq(Rows), Distinct(s), NEW m \in Rows
    PROVE  Put(s, m) \in Seq(Rows) /\ Distinct(Put(s, m)) /\ PutInto(Put(s, m), s, m)
<1>1. CASE m.id \in Ids(s)
  <2> DEFINE r == [i \in DOMAIN s |-> IF s[i].id = m.id THEN m ELSE s[i]]
  <2>1. Put(s, m) = r
    BY <1>1 DEF Put
  <2>2. r \in Seq(Rows) /\ DOMAIN r = DOMAIN s
    OBVIOUS
  <2>3. \A i \in DOMAIN s : r[i].id = s[i].id
    OBVIOUS
  <2>4. Distinct(r)
    BY <2>2, <2>3 DEF Distinct
  <2>5. PutInto(r, s, m)
    BY DEF PutInto
  <2> QED BY <2>1, <2>2, <2>4, <2>5
<1>2. CASE m.id \notin Ids(s)
  <2> DEFINE n == Len(s)
             r == Append(s, m)
  <2>1. Put(s, m) = r
    BY <1>2 DEF Put
  <2>2. n \in Nat /\ r \in Seq(Rows) /\ DOMAIN r = 1 .. (n + 1) /\ DOMAIN s = 1 .. n
    OBVIOUS
  <2>3. \A i \in 1 .. n : r[i] = s[i] /\ s[i].id # m.id
    BY <1>2 DEF Ids
  <2>4. r[n + 1] = m
    OBVIOUS
  <2>5. \A i \in 1 .. (n + 1) : i \in 1 .. n \/ i = n + 1
    BY <2>2
  <2> HIDE DEF r, n
  <2>6. Distinct(r)
    BY <2>2, <2>3, <2>4, <2>5 DEF Distinct
  <2>7. PutInto(r, s, m)
    BY <2>2, <2>3, <2>4, <2>5 DEF PutInto
  <2> QED BY <2>1, <2>2, <2>6, <2>7
<1> QED BY <1>1, <1>2

LEMMA LastOnes ==
    ASSUME NEW S, NEW s \in Seq(S), NEW k \in Nat
    PROVE  LET r == LastRows(s, k)
           IN  /\ r \in Seq(S) /\ Len(r) <= k
               /\ \A i \in DOMAIN r : \E j \in DOMAIN s : r[i] = s[j]
               /\ Distinct(s) => Distinct(r)
<1>1. CASE Len(s) <= k
  <2>1. LastRows(s, k) = s
    BY <1>1 DEF LastRows
  <2> QED BY <1>1, <2>1
<1>2. CASE Len(s) > k
  <2> DEFINE d == Len(s) - k
             r == SubSeq(s, d + 1, Len(s))
  <2>1. LastRows(s, k) = r
    BY <1>2 DEF LastRows
  <2>d. d \in Nat /\ d + 1 \in 1 .. Len(s) + 1 /\ Len(s) - (d + 1) + 1 = k
    BY <1>2
  <2>2. d \in Nat /\ r \in Seq(S) /\ Len(r) = k
    <3>1. \A i \in (d + 1) .. Len(s) : s[i] \in S
      BY <2>d
    <3> HIDE DEF d
    <3> QED BY <1>2, <2>d, <3>1
  <2>3. DOMAIN r = 1 .. k
    BY <2>2
  <2>4. \A i \in 1 .. k : r[i] = s[d + i] /\ d + i \in DOMAIN s
    BY <1>2
  <2> HIDE DEF r, d
  <2>5. Distinct(s) => Distinct(r)
    <3> SUFFICES ASSUME Distinct(s), NEW i \in 1 .. k, NEW j \in 1 .. k, r[i].id = r[j].id PROVE i = j
      BY <2>3 DEF Distinct
    <3> DEFINE a == d + i
               b == d + j
    <3>1. r[i] = s[a] /\ r[j] = s[b] /\ a \in DOMAIN s /\ b \in DOMAIN s
      BY <2>4
    <3> HIDE DEF a, b
    <3>2. a = b
      BY <3>1 DEF Distinct
    <3> QED BY <2>2, <3>2 DEF a, b
  <2> QED BY <2>1, <2>2, <2>3, <2>4, <2>5
<1> QED BY <1>1, <1>2

LEMMA RowsWithout ==
    ASSUME NEW s \in Seq(Rows), Distinct(s), NEW ids
    PROVE  LET r == WithoutIds(s, ids)
           IN  /\ r \in Seq(Rows) /\ Distinct(r)
               /\ \A i \in DOMAIN r : r[i].id \notin ids /\ \E j \in DOMAIN s : r[i] = s[j]
<1> DEFINE ss == [i \in DOMAIN s |-> IF s[i].id \in ids THEN <<>> ELSE <<s[i]>>]
           r == FlattenSeq(ss)
<1>1. ss \in Seq(Seq(Rows)) /\ DOMAIN ss = DOMAIN s /\ Len(ss) = Len(s)
  <2>1. ASSUME NEW i \in DOMAIN s PROVE (IF s[i].id \in ids THEN <<>> ELSE <<s[i]>>) \in Seq(Rows)
    <3>1. s[i] \in Rows
      OBVIOUS
    <3> QED BY <3>1
  <2>2. DOMAIN s = 1 .. Len(s) /\ Len(s) \in Nat
    OBVIOUS
  <2> DEFINE n == Len(s)
             part(i) == IF s[i].id \in ids THEN <<>> ELSE <<s[i]>>
  <2>3. ss = [i \in 1 .. n |-> part(i)]
    BY <2>2
  <2>4. \A i \in 1 .. n : part(i) \in Seq(Rows)
    BY <2>1, <2>2
  <2> HIDE DEF part, n, ss
  <2>5. n \in Nat
    BY <2>2 DEF n
  <2>6. ss \in Seq(Seq(Rows)) /\ DOMAIN ss = 1 .. n /\ Len(ss) = n
    BY <2>3, <2>4, <2>5
  <2> QED BY <2>2, <2>6 DEF n
<1>2. \A a \in DOMAIN ss : \A k \in DOMAIN ss[a] : k = 1 /\ ss[a][k] = s[a] /\ s[a].id \notin ids
  OBVIOUS
<1>3. WithoutIds(s, ids) = r
  BY DEF WithoutIds
<1> HIDE DEF ss
<1>4. Apart(ss)
  <2> SUFFICES ASSUME NEW a \in DOMAIN ss, NEW b \in DOMAIN ss, NEW k \in DOMAIN ss[a], NEW m \in DOMAIN ss[b],
                      ss[a][k].id = ss[b][m].id
               PROVE a = b /\ k = m
    BY DEF Apart
  <2>1. k = 1 /\ m = 1 /\ ss[a][k] = s[a] /\ ss[b][m] = s[b]
    BY <1>2
  <2> QED BY <1>1, <2>1 DEF Distinct
<1>5. r \in Seq(Rows) /\ Distinct(r) /\ FromFirst(r, ss, Len(ss))
  BY <1>1, <1>4, FlattenFrom
<1>6. \A i \in DOMAIN r : r[i].id \notin ids /\ \E j \in DOMAIN s : r[i] = s[j]
  <2> TAKE i \in DOMAIN r
  <2>1. PICK a \in 1 .. Len(ss) : \E k \in DOMAIN ss[a] : r[i] = ss[a][k]
    BY <1>5 DEF FromFirst
  <2>2. a \in DOMAIN ss
    BY <1>1
  <2> HIDE DEF r
  <2> QED BY <1>1, <1>2, <2>1, <2>2
<1> QED BY <1>3, <1>5, <1>6

-----------------------------------------------------------------------------
(* The reducers of a row. *)

\* m is the row the books name.
InBooks(m, callOf, resOf) ==
    /\ m.role = "assistant" /\ m.call # 0 => callOf[m.call] = m.id
    /\ m.role = "tool" => resOf[m.call] = m.id

Plain(m, sub) == m.role \in {"assistant", "tool"} => m.call \notin sub

\* What upsertMessage makes of l when it writes row m.
Upserted(l2, l, m) ==
    /\ LiveShape(l2) /\ Distinct(l2.msgs) /\ Len(l2.msgs) <= MaxMsgs
    /\ PutInto(l2.msgs, l.msgs, m)
    /\ l2.sub = l.sub
    /\ \A i \in DOMAIN l2.msgs, t \in Tools :
          /\ l.callOf[t] = l2.msgs[i].id => l2.callOf[t] = l.callOf[t]
          /\ l.resOf[t] = l2.msgs[i].id => l2.resOf[t] = l.resOf[t]

LEMMA UpsertMessage ==
    ASSUME NEW l, LiveShape(l), Distinct(l.msgs), NEW m \in Rows, NEW r
    PROVE  Upserted(upsertMessage(l, m, r), l, m)
<1> DEFINE put == Put(l.msgs, m)
           kept == LastRows(put, MaxMsgs)
           dropped == Ids(put) \ Ids(kept)
           l2 == upsertMessage(l, m, r)
<1>1. /\ l2.msgs = kept
      /\ l2.callOf = Forget(l.callOf, dropped)
      /\ l2.resOf = Forget(l.resOf, dropped)
      /\ l2.sub = l.sub /\ l2.structText = l.structText
      /\ DOMAIN l2 = LiveFields
  <2>1. DOMAIN l = LiveFields
    BY DEF LiveShape
  <2>2. l2 = [l EXCEPT !.msgs = kept,
                       !.runOf = {p \in @ : p[1] \notin dropped \cup {m.id}} \cup {<<m.id, r>>},
                       !.callOf = Forget(@, dropped),
                       !.resOf = Forget(@, dropped),
                       !.term = @ \ dropped]
    BY DEF upsertMessage, Put, Has
  <2> HIDE DEF l2, kept, dropped, put
  <2> QED BY <2>1, <2>2 DEF LiveFields
<1> HIDE DEF l2
<1>2. put \in Seq(Rows) /\ Distinct(put) /\ PutInto(put, l.msgs, m)
  BY PutRow DEF LiveShape
<1> HIDE DEF put
<1>3. /\ kept \in Seq(Rows) /\ Len(kept) <= MaxMsgs /\ Distinct(kept)
      /\ \A i \in DOMAIN kept : \E j \in DOMAIN put : kept[i] = put[j]
  BY <1>2, LastOnes
<1> HIDE DEF kept
<1>4. PutInto(kept, l.msgs, m)
  BY <1>2, <1>3 DEF PutInto
<1>5. ASSUME NEW i \in DOMAIN kept PROVE kept[i].id \notin dropped
  BY DEF Ids
<1>6. ASSUME NEW t \in Tools
      PROVE  /\ l2.callOf[t] \in {NoId, l.callOf[t]} /\ l2.resOf[t] \in {NoId, l.resOf[t]}
             /\ l.callOf[t] \notin dropped => l2.callOf[t] = l.callOf[t]
             /\ l.resOf[t] \notin dropped => l2.resOf[t] = l.resOf[t]
  BY <1>1 DEF Forget
<1>7. DOMAIN l2.callOf = Tools /\ DOMAIN l2.resOf = Tools
  BY <1>1 DEF Forget
<1>8. BooksOf(l2.callOf, l2.resOf)
  BY <1>6, <1>7 DEF BooksOf, LiveShape
<1>9. LiveShape(l2) /\ Distinct(l2.msgs) /\ Len(l2.msgs) <= MaxMsgs /\ PutInto(l2.msgs, l.msgs, m)
  BY <1>1, <1>3, <1>4, <1>8 DEF LiveShape
<1>10. \A i \in DOMAIN l2.msgs, t \in Tools :
          /\ l.callOf[t] = l2.msgs[i].id => l2.callOf[t] = l.callOf[t]
          /\ l.resOf[t] = l2.msgs[i].id => l2.resOf[t] = l.resOf[t]
  BY <1>1, <1>5, <1>6
<1> QED BY <1>1, <1>9, <1>10 DEF Upserted, l2

LEMMA InBooksPut ==
    ASSUME NEW l, LiveSound(l), NEW m \in Rows, NEW l2, Upserted(l2, l, m),
           NEW i \in DOMAIN l2.msgs, l2.msgs[i] # m
    PROVE  /\ InBooks(l2.msgs[i], l2.callOf, l2.resOf)
           /\ l2.msgs[i] \in Rows /\ l2.msgs[i].id # m.id
           /\ \E j \in DOMAIN l.msgs : l2.msgs[i] = l.msgs[j]
<1>1. PICK j \in DOMAIN l.msgs : l2.msgs[i] = l.msgs[j] /\ l.msgs[j].id # m.id
  BY DEF Upserted, PutInto
<1>2. l.msgs[j] \in Rows
  BY DEF LiveSound, LiveShape
<1> DEFINE x == l.msgs[j]
<1>3. InBooks(x, l.callOf, l.resOf)
  BY DEF LiveSound, Booked, InBooks
<1>4. x.call # 0 => x.call \in Tools
  BY <1>2, RowParts
<1>5. x.role = "tool" => x.call # 0
  BY <1>2, RowParts
<1>6. \A t \in Tools : (l.callOf[t] = x.id => l2.callOf[t] = l.callOf[t]) /\ (l.resOf[t] = x.id => l2.resOf[t] = l.resOf[t])
  BY <1>1 DEF Upserted
<1> HIDE DEF x
<1>7. InBooks(x, l2.callOf, l2.resOf)
  BY <1>3, <1>4, <1>5, <1>6 DEF InBooks
<1> QED BY <1>1, <1>2, <1>7 DEF x

LEMMA PlainPut ==
    ASSUME NEW l, LiveSound(l), NEW m \in Rows, NEW l2, Upserted(l2, l, m), NoGeneric(l), Plain(m, l.sub)
    PROVE  NoGeneric(l2)
<1>1. l2.sub = l.sub
  BY DEF Upserted
<1>2. ASSUME NEW i \in DOMAIN l2.msgs PROVE l2.msgs[i] = m \/ \E j \in DOMAIN l.msgs : l2.msgs[i] = l.msgs[j]
  BY DEF Upserted, PutInto
<1> QED BY <1>1, <1>2 DEF NoGeneric, Plain

\* What every event but a few does to the live state.
Keeps(l2, l) == LiveGood(l2) /\ l2.sub = l.sub /\ (NoGeneric(l) => NoGeneric(l2))

\* A row the books need not learn of.
LEMMA UpsertKnown ==
    ASSUME NEW l, LiveSound(l), NEW m \in Rows, NEW r, InBooks(m, l.callOf, l.resOf)
    PROVE  /\ LiveGood(upsertMessage(l, m, r))
           /\ upsertMessage(l, m, r).sub = l.sub
           /\ NoGeneric(l) /\ Plain(m, l.sub) => NoGeneric(upsertMessage(l, m, r))
<1> DEFINE l2 == upsertMessage(l, m, r)
<1>1. Upserted(l2, l, m)
  BY UpsertMessage DEF LiveSound
<1> HIDE DEF l2
<1>2. ASSUME NEW i \in DOMAIN l2.msgs PROVE InBooks(l2.msgs[i], l2.callOf, l2.resOf)
  <2>1. CASE l2.msgs[i] # m
    BY <1>1, <2>1, InBooksPut
  <2>2. CASE l2.msgs[i] = m
    <3>1. \A t \in Tools : (l.callOf[t] = m.id => l2.callOf[t] = l.callOf[t])
                        /\ (l.resOf[t] = m.id => l2.resOf[t] = l.resOf[t])
      BY <1>1, <2>2 DEF Upserted
    <3>2. m.call \in Tools \cup {0} /\ (m.role = "tool" => m.call # 0)
      BY RowParts
    <3> QED BY <2>2, <3>1, <3>2 DEF InBooks
  <2> QED BY <2>1, <2>2
<1>3. Booked(l2.msgs, l2.callOf, l2.resOf)
  BY <1>2 DEF Booked, InBooks
<1>4. LiveGood(l2) /\ l2.sub = l.sub
  BY <1>1, <1>3 DEF LiveGood, LiveSound, Upserted
<1>5. NoGeneric(l) /\ Plain(m, l.sub) => NoGeneric(l2)
  BY <1>1, PlainPut
<1> QED BY <1>4, <1>5 DEF l2

\* The row of a call, entered in the books.
LEMMA UpsertCall ==
    ASSUME NEW l, LiveSound(l), NEW t \in Tools, NEW m \in Rows, m.id = CallId(t), m.call = t, m.role = "assistant",
           NEW r
    PROVE  LET l2 == [upsertMessage(l, m, r) EXCEPT !.callOf[t] = CallId(t)]
           IN  LiveGood(l2) /\ l2.sub = l.sub /\ (NoGeneric(l) /\ t \notin l.sub => NoGeneric(l2))
<1> DEFINE u == upsertMessage(l, m, r)
           l2 == [u EXCEPT !.callOf[t] = CallId(t)]
<1>1. Upserted(u, l, m)
  BY UpsertMessage DEF LiveSound
<1> HIDE DEF u
<1>2. /\ l2.msgs = u.msgs /\ l2.sub = u.sub /\ l2.structText = u.structText /\ l2.resOf = u.resOf
      /\ l2.callOf = [u.callOf EXCEPT ![t] = CallId(t)]
      /\ DOMAIN l2 = LiveFields
  BY <1>1 DEF Upserted, LiveShape, LiveFields
<1> HIDE DEF l2
<1>3. BooksOf(u.callOf, u.resOf)
  BY <1>1 DEF Upserted, LiveShape
<1>4. BooksOf(l2.callOf, l2.resOf) /\ l2.callOf[t] = CallId(t) /\ \A o \in Tools \ {t} : l2.callOf[o] = u.callOf[o]
  BY <1>2, <1>3 DEF BooksOf
<1>5. ASSUME NEW i \in DOMAIN u.msgs PROVE InBooks(u.msgs[i], l2.callOf, l2.resOf)
  <2>1. CASE u.msgs[i] = m
    BY <1>4, <2>1 DEF InBooks
  <2>2. CASE u.msgs[i] # m
    <3>1. InBooks(u.msgs[i], u.callOf, u.resOf) /\ u.msgs[i] \in Rows /\ u.msgs[i].id # m.id
      BY <1>1, <2>2, InBooksPut
    <3> DEFINE x == u.msgs[i]
    <3>2. x.role = "assistant" /\ x.call # 0 => x.call \in Tools \ {t}
      BY <3>1, RowParts
    <3> HIDE DEF x
    <3>3. InBooks(x, l2.callOf, l2.resOf)
      BY <1>2, <1>4, <3>1, <3>2 DEF InBooks, x
    <3> QED BY <3>3 DEF x
  <2> QED BY <2>1, <2>2
<1>6. Booked(l2.msgs, l2.callOf, l2.resOf)
  BY <1>2, <1>5 DEF Booked, InBooks
<1>7. LiveGood(l2) /\ l2.sub = l.sub
  BY <1>1, <1>2, <1>4, <1>6 DEF LiveGood, LiveSound, LiveShape, Upserted
<1>8. NoGeneric(l) /\ t \notin l.sub => NoGeneric(u)
  BY <1>1, PlainPut DEF Plain
<1>9. NoGeneric(u) => NoGeneric(l2)
  BY <1>2 DEF NoGeneric
<1> QED BY <1>7, <1>8, <1>9 DEF l2, u

\* The row of a result, entered in the books, when there is no other.
LEMMA UpsertResult ==
    ASSUME NEW l, LiveSound(l), NEW t \in Tools, NEW id \in ResultIds(t), NEW text \in Texts, NEW r,
           \A i \in DOMAIN l.msgs : l.msgs[i].role = "tool" /\ l.msgs[i].call = t => l.msgs[i].id = id
    PROVE  LET l2 == upsertToolResult(l, id, t, text, r)
           IN  LiveGood(l2) /\ l2.sub = l.sub /\ (NoGeneric(l) /\ t \notin l.sub => NoGeneric(l2))
<1> DEFINE m == Row(id, "tool", text, "unset", t)
           u == upsertMessage(l, m, r)
           l2 == [u EXCEPT !.resOf[t] = id]
<1>0. m \in Rows /\ m.id = id /\ m.call = t /\ m.role = "tool"
  <2>1. id \in AnyIds
    BY IdTypes
  <2>2. m \in [id : AnyIds, role : MessageRoles \cup {"tool", "activity"}, text : Texts,
                pend : {"on", "off", "unset"}, call : Tools \cup {0}]
    BY <2>1 DEF Row
  <2>3. m.id = id /\ m.call = t /\ m.role = "tool"
    BY DEF Row
  <2>4. t # 0
    OBVIOUS
  <2> HIDE DEF m
  <2> QED BY <2>2, <2>3, <2>4 DEF Rows, RowOfKind
<1>1. Upserted(u, l, m)
  <2> HIDE DEF m
  <2> QED BY <1>0, UpsertMessage DEF LiveSound
<1>a. upsertToolResult(l, id, t, text, r) = l2
  BY DEF upsertToolResult
<1> HIDE DEF u, m
<1>2. /\ l2.msgs = u.msgs /\ l2.sub = u.sub /\ l2.structText = u.structText /\ l2.callOf = u.callOf
      /\ l2.resOf = [u.resOf EXCEPT ![t] = id]
      /\ DOMAIN l2 = LiveFields
  BY <1>1 DEF Upserted, LiveShape, LiveFields
<1> HIDE DEF l2
<1>3. BooksOf(u.callOf, u.resOf)
  BY <1>1 DEF Upserted, LiveShape
<1>4. BooksOf(l2.callOf, l2.resOf) /\ l2.resOf[t] = id /\ \A o \in Tools \ {t} : l2.resOf[o] = u.resOf[o]
  BY <1>2, <1>3 DEF BooksOf
<1>5. ASSUME NEW i \in DOMAIN u.msgs PROVE InBooks(u.msgs[i], l2.callOf, l2.resOf)
  <2>1. CASE u.msgs[i] = m
    BY <1>0, <1>4, <2>1 DEF InBooks
  <2>2. CASE u.msgs[i] # m
    <3>1. /\ InBooks(u.msgs[i], u.callOf, u.resOf) /\ u.msgs[i] \in Rows /\ u.msgs[i].id # m.id
          /\ \E j \in DOMAIN l.msgs : u.msgs[i] = l.msgs[j]
      BY <1>0, <1>1, <2>2, InBooksPut
    <3> DEFINE x == u.msgs[i]
    <3>2. x.role = "tool" => x.call \in Tools \ {t}
      BY <1>0, <3>1, RowParts
    <3> HIDE DEF x
    <3>3. InBooks(x, l2.callOf, l2.resOf)
      BY <1>2, <1>4, <3>1, <3>2 DEF InBooks, x
    <3> QED BY <3>3 DEF x
  <2> QED BY <2>1, <2>2
<1>6. Booked(l2.msgs, l2.callOf, l2.resOf)
  BY <1>2, <1>5 DEF Booked, InBooks
<1>7. LiveGood(l2) /\ l2.sub = l.sub
  BY <1>1, <1>2, <1>4, <1>6 DEF LiveGood, LiveSound, LiveShape, Upserted
<1>8. NoGeneric(l) /\ t \notin l.sub => NoGeneric(u)
  BY <1>0, <1>1, PlainPut DEF Plain
<1>9. NoGeneric(u) => NoGeneric(l2)
  BY <1>2 DEF NoGeneric
<1> QED BY <1>7, <1>8, <1>9, <1>a

-----------------------------------------------------------------------------
(* The reducers of an event. *)

\* What is remembered beside rows and books.
LEMMA BesideRows ==
    ASSUME NEW l, LiveGood(l), NEW l2, DOMAIN l2 = LiveFields, l2.msgs = l.msgs, l2.sub = l.sub,
           l2.callOf = l.callOf, l2.resOf = l.resOf, l2.structText \in [Tools -> Texts]
    PROVE  LiveGood(l2) /\ (NoGeneric(l) => NoGeneric(l2))
BY DEF LiveGood, LiveSound, LiveShape, NoGeneric

LEMMA FoundMessage ==
    ASSUME NEW l, LiveShape(l), NEW id, Has(l, id)
    PROVE  findMessage(l, id) \in Rows /\ findMessage(l, id).id = id
           /\ \E i \in DOMAIN l.msgs : findMessage(l, id) = l.msgs[i]
<1>1. PICK i \in DOMAIN l.msgs : l.msgs[i].id = id
  BY DEF Has, Ids
<1>2. \A j \in DOMAIN l.msgs : l.msgs[j] \in Rows
  BY DEF LiveShape
<1> QED BY <1>1, <1>2 DEF findMessage

LEMMA TextFound ==
    ASSUME NEW l, LiveShape(l), NEW id
    PROVE  TextOf(l, id) \in Texts
<1>1. CASE Has(l, id)
  BY <1>1, FoundMessage, RowParts DEF TextOf
<1>2. CASE ~Has(l, id)
  BY <1>2 DEF TextOf, Texts
<1> QED BY <1>1, <1>2

LEMMA MessageRow ==
    ASSUME NEW m, DOMAIN m = {"id", "role", "text", "pend", "call"},
           m \in [id : MsgIds, role : MessageRoles, text : Texts, pend : {"on", "off", "unset"}, call : {0}],
           NEW l, LiveGood(l)
    PROVE  m \in Rows /\ InBooks(m, l.callOf, l.resOf) /\ Plain(m, l.sub)
<1>1. m \in Rows
  BY IdTypes DEF Rows, RowOfKind
<1>2. m.role # "tool" /\ m.call = 0
  BY DEF MessageRoles
<1>3. 0 \notin l.sub
  BY DEF LiveGood, LiveSound, LiveShape
<1> QED BY <1>1, <1>2, <1>3 DEF InBooks, Plain

LEMMA TextMessage ==
    ASSUME NEW id \in MsgIds, NEW role \in MessageRoles
    PROVE  textMessage(id, role) \in [id : MsgIds, role : MessageRoles, text : Texts,
                                       pend : {"on", "off", "unset"}, call : {0}]
<1>1. <<>> \in Texts
  BY DEF Texts
<1> QED BY <1>1 DEF textMessage, Row

LEMMA MessageStartKeeps ==
    ASSUME NEW l, LiveGood(l), NEW id \in MsgIds, NEW role \in MessageRoles, NEW r
    PROVE  Keeps(reduceMessageStart(l, id, role, r), l)
<1> DEFINE m == textMessage(id, role)
<1>1. m \in Rows /\ InBooks(m, l.callOf, l.resOf) /\ Plain(m, l.sub)
  <2>1. m \in [id : MsgIds, role : MessageRoles, text : Texts, pend : {"on", "off", "unset"}, call : {0}]
    BY TextMessage
  <2> HIDE DEF m
  <2>2. DOMAIN m = {"id", "role", "text", "pend", "call"}
    BY <2>1
  <2> QED BY <2>1, <2>2, MessageRow
<1> HIDE DEF m
<1>2. Keeps(upsertMessage(l, m, r), l)
  BY <1>1, UpsertKnown DEF Keeps, LiveGood
<1>3. Keeps(l, l)
  BY DEF Keeps
<1> QED BY <1>2, <1>3 DEF reduceMessageStart, m

LEMMA AppendTextKeeps ==
    ASSUME NEW l, LiveGood(l), NEW id \in MsgIds, NEW role \in MessageRoles, NEW delta \in Texts, NEW r
    PROVE  Keeps(appendText(l, id, delta, role, r), l)
<1> DEFINE MRows == [id : MsgIds, role : MessageRoles, text : Texts, pend : {"on", "off", "unset"}, call : {0}]
           old == IF Has(l, id) THEN findMessage(l, id) ELSE textMessage(id, role)
           m == [old EXCEPT !.text = @ \o delta,
                            !.pend = IF old.role \in {"assistant", "reasoning"} THEN "on" ELSE @]
<1>1. old \in MRows
  <2>1. CASE Has(l, id)
    <3> DEFINE f == findMessage(l, id)
    <3>1. f \in Rows /\ f.id = id
      BY <2>1, FoundMessage DEF LiveGood, LiveSound
    <3> HIDE DEF f
    <3>2. f.id[1] = "m"
      BY <3>1, IdParts DEF MsgIds
    <3>3. f.call = 0 /\ f.role \in MessageRoles
      BY <3>1, <3>2, RowParts
    <3>4. f \in MRows
      BY <3>1, <3>3 DEF Rows
    <3> QED BY <2>1, <3>4 DEF f
  <2>2. CASE ~Has(l, id)
    BY <2>2, TextMessage
  <2> QED BY <2>1, <2>2
<1> HIDE DEF old
<1>2. old.text \o delta \in Texts
  BY <1>1 DEF Texts
<1>3. m \in MRows
  BY <1>1, <1>2
<1>4. appendText(l, id, delta, role, r) = upsertMessage(l, m, r)
  BY DEF appendText, old
<1> HIDE DEF m
<1>5. m \in Rows /\ InBooks(m, l.callOf, l.resOf) /\ Plain(m, l.sub)
  <2>1. DOMAIN m = {"id", "role", "text", "pend", "call"}
    BY <1>3
  <2> QED BY <1>3, <2>1, MessageRow
<1>6. Keeps(upsertMessage(l, m, r), l)
  BY <1>5, UpsertKnown DEF Keeps, LiveGood
<1> QED BY <1>4, <1>6

\* Settling touches the flag of a row only.
LEMMA Settled ==
    ASSUME NEW l, LiveGood(l), NEW l2, DOMAIN l2 = LiveFields, NEW ids, NEW timed,
           l2.msgs = Settle(l.msgs, ids, timed), l2.sub = l.sub,
           l2.callOf = l.callOf, l2.resOf = l.resOf, l2.structText = l.structText
    PROVE  Keeps(l2, l)
<1> DEFINE s == l.msgs
           Settles(i) == /\ s[i].id \in ids
                         /\ \/ s[i].role = "reasoning" /\ s[i].pend = "on"
                            \/ s[i].role = "assistant" /\ timed
           row(i) == IF Settles(i) THEN [s[i] EXCEPT !.pend = "off"] ELSE s[i]
<1>1. s \in Seq(Rows) /\ Distinct(s) /\ Len(s) <= MaxMsgs
  BY DEF LiveGood, LiveSound, LiveShape
<1>2. l2.msgs = [i \in DOMAIN s |-> row(i)]
  BY DEF Settle
<1> HIDE DEF s
<1>3. ASSUME NEW i \in DOMAIN s
      PROVE row(i) \in Rows /\ row(i).id = s[i].id /\ row(i).role = s[i].role /\ row(i).call = s[i].call
  <2>1. s[i] \in Rows
    BY <1>1
  <2> DEFINE x == s[i]
             y == [x EXCEPT !.pend = "off"]
  <2>2. y \in Rows /\ y.id = x.id /\ y.role = x.role /\ y.call = x.call
    <3> HIDE DEF x
    <3>1. x \in Rows
      BY <2>1 DEF x
    <3> QED BY <3>1 DEF Rows, RowOfKind
  <2> HIDE DEF Settles
  <2> QED BY <2>1, <2>2
<1> HIDE DEF row
<1>4. DOMAIN l2.msgs = DOMAIN s /\ l2.msgs \in Seq(Rows) /\ Len(l2.msgs) = Len(s)
  <2> DEFINE n == Len(s)
  <2>1. n \in Nat /\ DOMAIN s = 1 .. n
    BY <1>1
  <2>2. \A i \in 1 .. n : row(i) \in Rows
    BY <1>3, <2>1
  <2>3. l2.msgs = [i \in 1 .. n |-> row(i)]
    BY <1>2, <2>1
  <2> HIDE DEF n
  <2>4. DOMAIN l2.msgs = 1 .. n /\ l2.msgs \in Seq(Rows) /\ Len(l2.msgs) = n
    BY <2>1, <2>2, <2>3
  <2> QED BY <2>1, <2>4 DEF n
<1>5. \A i \in DOMAIN s : /\ l2.msgs[i].id = s[i].id /\ l2.msgs[i].role = s[i].role
                          /\ l2.msgs[i].call = s[i].call
  BY <1>2, <1>3
<1>6. Distinct(l2.msgs)
  BY <1>1, <1>4, <1>5 DEF Distinct
<1>7. Booked(l2.msgs, l2.callOf, l2.resOf)
  BY <1>4, <1>5 DEF Booked, LiveGood, LiveSound, s
<1>8. LiveShape(l2)
  BY <1>4 DEF LiveShape, LiveGood, LiveSound
<1>9. LiveGood(l2)
  BY <1>1, <1>4, <1>6, <1>7, <1>8 DEF LiveGood, LiveSound
<1>10. NoGeneric(l) => NoGeneric(l2)
  BY <1>4, <1>5 DEF NoGeneric, s
<1> QED BY <1>9, <1>10 DEF Keeps

LEMMA TerminalKeeps ==
    ASSUME NEW l, LiveGood(l), NEW id, NEW timed, NEW r
    PROVE  Keeps(markTerminal(l, id, timed), l) /\ Keeps(markRunTerminal(l, r), l)
<1>0. DOMAIN l = LiveFields
  BY DEF LiveGood, LiveSound, LiveShape
<1>1. Keeps(markTerminal(l, id, timed), l)
  <2> DEFINE l2 == markTerminal(l, id, timed)
             ids == {id}
  <2>1. l2.msgs = Settle(l.msgs, ids, timed)
    BY <1>0 DEF markTerminal, LiveFields
  <2>2. /\ DOMAIN l2 = LiveFields /\ l2.sub = l.sub
        /\ l2.callOf = l.callOf /\ l2.resOf = l.resOf /\ l2.structText = l.structText
    BY <1>0 DEF markTerminal, LiveFields
  <2> HIDE DEF l2, ids
  <2>3. Keeps(l2, l)
    BY <2>1, <2>2, Settled
  <2> QED BY <2>3 DEF l2
<1>2. Keeps(markRunTerminal(l, r), l)
  <2> DEFINE l2 == markRunTerminal(l, r)
             ids == {p[1] : p \in {q \in l.runOf : q[2] = r}}
  <2>1. l2.msgs = Settle(l.msgs, ids, TRUE)
    BY <1>0 DEF markRunTerminal, LiveFields
  <2>2. /\ DOMAIN l2 = LiveFields /\ l2.sub = l.sub
        /\ l2.callOf = l.callOf /\ l2.resOf = l.resOf /\ l2.structText = l.structText
    BY <1>0 DEF markRunTerminal, LiveFields
  <2> HIDE DEF l2, ids
  <2>3. Keeps(l2, l)
    BY <2>1, <2>2, Settled
  <2> QED BY <2>3 DEF l2
<1> QED BY <1>1, <1>2

LEMMA CallStarted ==
    ASSUME NEW l, LiveGood(l), NEW t \in Tools, NEW r
    PROVE  LET l2 == startToolCall(l, t, r)
           IN  LiveGood(l2) /\ l2.sub = l.sub /\ (NoGeneric(l) /\ t \notin l.sub => NoGeneric(l2))
<1> DEFINE row == IF Has(l, CallId(t)) THEN findMessage(l, CallId(t))
                                       ELSE Row(CallId(t), "assistant", <<>>, "unset", t)
<1>0. t # 0
  OBVIOUS
<1>1. row \in Rows /\ row.id = CallId(t) /\ row.call = t /\ row.role = "assistant"
  <2>1. CASE Has(l, CallId(t))
    <3> DEFINE f == findMessage(l, CallId(t))
    <3>1. f \in Rows /\ f.id = CallId(t)
      BY <2>1, FoundMessage DEF LiveGood, LiveSound
    <3> HIDE DEF f
    <3>2. f.id[1] = "call" /\ f.id[2] = t
      BY <3>1, IdParts
    <3>3. f.call = t /\ f.role = "assistant"
      BY <3>1, <3>2, RowParts
    <3> QED BY <2>1, <3>1, <3>3 DEF f
  <2>2. CASE ~Has(l, CallId(t))
    <3> DEFINE f == Row(CallId(t), "assistant", <<>>, "unset", t)
    <3>1. f \in [id : AnyIds, role : MessageRoles \cup {"tool", "activity"}, text : Texts,
                 pend : {"on", "off", "unset"}, call : Tools \cup {0}]
      BY IdTypes DEF Row, MessageRoles, Texts
    <3>2. f.id = CallId(t) /\ f.call = t /\ f.role = "assistant"
      BY DEF Row
    <3> HIDE DEF f
    <3>3. f \in Rows
      BY <1>0, <3>1, <3>2 DEF Rows, RowOfKind
    <3> QED BY <2>2, <3>2, <3>3 DEF f
  <2> QED BY <2>1, <2>2
<1>2. startToolCall(l, t, r) = [upsertMessage(l, row, r) EXCEPT !.callOf[t] = CallId(t)]
  BY DEF startToolCall
<1> HIDE DEF row
<1> QED BY <1>1, <1>2, UpsertCall DEF LiveGood

LEMMA CallStartKeeps ==
    ASSUME NEW l, LiveGood(l), NEW t \in Tools, NEW r
    PROVE  Keeps(reduceToolCallStart(l, t, r), l)
<1>1. CASE t \in l.sub
  BY <1>1 DEF reduceToolCallStart, Keeps
<1>2. CASE t \notin l.sub
  BY <1>2, CallStarted DEF reduceToolCallStart, Keeps
<1> QED BY <1>1, <1>2

LEMMA CallArgsKeeps ==
    ASSUME NEW l, LiveGood(l), NEW t \in Tools, NEW r
    PROVE  Keeps(reduceToolCallArgs(l, t, r), l)
<1>1. CASE t \in l.sub
  BY <1>1 DEF reduceToolCallArgs, Keeps
<1>2. CASE t \notin l.sub
  <2> DEFINE s == IF l.callOf[t] = NoId THEN startToolCall(l, t, r) ELSE l
             m == findMessage(s, s.callOf[t])
  <2>1. Keeps(s, l)
    BY <1>2, CallStarted DEF Keeps
  <2>2. reduceToolCallArgs(l, t, r) = IF Has(s, s.callOf[t]) THEN upsertMessage(s, m, r) ELSE s
    BY <1>2 DEF reduceToolCallArgs, appendToolArgs
  <2> HIDE DEF s
  <2>3. CASE Has(s, s.callOf[t])
    <3>1. m \in Rows /\ \E i \in DOMAIN s.msgs : m = s.msgs[i]
      BY <2>1, <2>3, FoundMessage DEF Keeps, LiveGood, LiveSound
    <3> HIDE DEF m
    <3>2. InBooks(m, s.callOf, s.resOf)
      BY <2>1, <3>1 DEF InBooks, Keeps, LiveGood, LiveSound, Booked
    <3>3. NoGeneric(s) => Plain(m, s.sub)
      BY <3>1 DEF NoGeneric, Plain
    <3>4. LiveSound(s)
      BY <2>1 DEF Keeps, LiveGood
    <3>5. Keeps(upsertMessage(s, m, r), s)
      BY <3>1, <3>2, <3>3, <3>4, UpsertKnown DEF Keeps
    <3> QED BY <2>1, <2>2, <2>3, <3>5 DEF Keeps
  <2>4. CASE ~Has(s, s.callOf[t])
    BY <2>1, <2>2, <2>4
  <2> QED BY <2>3, <2>4
<1> QED BY <1>1, <1>2

LEMMA CallEndKeeps ==
    ASSUME NEW l, LiveGood(l), NEW t \in Tools
    PROVE  Keeps(reduceToolCallEnd(l, t), l)
<1>1. Keeps(markTerminal(l, l.callOf[t], FALSE), l)
  BY TerminalKeeps
<1>2. Keeps(l, l)
  BY DEF Keeps
<1> QED BY <1>1, <1>2 DEF reduceToolCallEnd

\* Rows taken out, and calls that become known as sub-agents'.
LEMMA RowsCut ==
    ASSUME NEW l, LiveSound(l), NEW ids, NEW l2, DOMAIN l2 = LiveFields, l2.msgs = WithoutIds(l.msgs, ids),
           l2.sub \subseteq Tools, l2.callOf = l.callOf, l2.resOf = l.resOf, l2.structText = l.structText
    PROVE  /\ LiveSound(l2)
           /\ \A i \in DOMAIN l2.msgs : l2.msgs[i].id \notin ids /\ \E j \in DOMAIN l.msgs : l2.msgs[i] = l.msgs[j]
<1>1. /\ l2.msgs \in Seq(Rows) /\ Distinct(l2.msgs)
      /\ \A i \in DOMAIN l2.msgs : l2.msgs[i].id \notin ids /\ \E j \in DOMAIN l.msgs : l2.msgs[i] = l.msgs[j]
  BY RowsWithout DEF LiveSound, LiveShape
<1>2. Booked(l2.msgs, l2.callOf, l2.resOf)
  BY <1>1 DEF LiveSound, Booked
<1> QED BY <1>1, <1>2 DEF LiveSound, LiveShape

\* The result row of a call is the one in the books.
LEMMA ResultInBooks ==
    ASSUME NEW l, LiveSound(l), NEW t \in Tools
    PROVE  /\ l.resOf[t] \in {NoId} \cup ResultIds(t)
           /\ \A i \in DOMAIN l.msgs : l.msgs[i].role = "tool" /\ l.msgs[i].call = t =>
                 l.msgs[i].id = l.resOf[t] /\ l.resOf[t] # NoId
<1>1. l.resOf[t] \in {NoId} \cup ResultIds(t)
  BY DEF LiveSound, LiveShape, BooksOf
<1>2. \A i \in DOMAIN l.msgs : l.msgs[i].id # NoId
  BY RowParts DEF LiveSound, LiveShape
<1> QED BY <1>1, <1>2 DEF LiveSound, Booked

LEMMA CallResultKeeps ==
    ASSUME NEW l, LiveGood(l), NEW t \in Tools, NEW id \in ResultIds(t), NEW delta \in Texts, NEW r
    PROVE  Keeps(reduceToolCallResult(l, id, t, delta, r), l)
<1>1. CASE t \in l.sub
  BY <1>1 DEF reduceToolCallResult, Keeps
<1>2. CASE t \notin l.sub
  <2> DEFINE was == l.resOf[t]
             cut == IF was \notin {NoId, id} THEN [l EXCEPT !.msgs = WithoutIds(@, {was})] ELSE l
             text == TextOf(l, was) \o delta
  <2>1. reduceToolCallResult(l, id, t, delta, r) = upsertToolResult(cut, id, t, text, r)
    BY <1>2 DEF reduceToolCallResult, appendToolResult
  <2>2. text \in Texts
    <3>1. TextOf(l, was) \in Texts
      BY TextFound DEF LiveGood, LiveSound
    <3> QED BY <3>1 DEF Texts
  <2>3. LiveSound(l) /\ DOMAIN l = LiveFields /\ l.sub \subseteq Tools
    BY DEF LiveGood, LiveSound, LiveShape
  <2>4. /\ LiveSound(cut) /\ cut.sub = l.sub
        /\ \A i \in DOMAIN cut.msgs : \E j \in DOMAIN l.msgs : cut.msgs[i] = l.msgs[j]
        /\ was \notin {NoId, id} => \A i \in DOMAIN cut.msgs : cut.msgs[i].id # was
    <3>1. CASE was \notin {NoId, id}
      <4> DEFINE c == [l EXCEPT !.msgs = WithoutIds(@, {was})]
                 ids == {was}
      <4>1. /\ DOMAIN c = LiveFields /\ c.msgs = WithoutIds(l.msgs, ids) /\ c.sub = l.sub
            /\ c.callOf = l.callOf /\ c.resOf = l.resOf /\ c.structText = l.structText
        BY <2>3 DEF LiveFields
      <4>2. cut = c
        BY <3>1
      <4> HIDE DEF c, cut, ids
      <4>3. /\ LiveSound(c)
            /\ \A i \in DOMAIN c.msgs : c.msgs[i].id \notin ids /\ \E j \in DOMAIN l.msgs : c.msgs[i] = l.msgs[j]
        BY <2>3, <4>1, RowsCut
      <4> QED BY <4>1, <4>2, <4>3 DEF ids
    <3>2. CASE was \in {NoId, id}
      BY <2>3, <3>2
    <3> QED BY <3>1, <3>2
  <2> HIDE DEF text
  <2>5. ASSUME NEW i \in DOMAIN cut.msgs, cut.msgs[i].role = "tool", cut.msgs[i].call = t
        PROVE  cut.msgs[i].id = id
    <3>1. PICK j \in DOMAIN l.msgs : cut.msgs[i] = l.msgs[j]
      BY <2>4
    <3>2. cut.msgs[i].id = was /\ was # NoId
      BY <2>3, <2>5, <3>1, ResultInBooks
    <3> HIDE DEF was, cut
    <3> QED BY <2>4, <3>2
  <2> HIDE DEF cut
  <2>6. NoGeneric(l) => NoGeneric(cut)
    BY <2>4 DEF NoGeneric
  <2>7. LET l2 == upsertToolResult(cut, id, t, text, r)
        IN  LiveGood(l2) /\ l2.sub = cut.sub /\ (NoGeneric(cut) /\ t \notin cut.sub => NoGeneric(l2))
    BY <2>2, <2>4, <2>5, UpsertResult
  <2> QED BY <1>2, <2>1, <2>4, <2>6, <2>7 DEF Keeps
<1> QED BY <1>1, <1>2

LEMMA ToolMetaKeeps ==
    ASSUME NEW l, LiveGood(l), NEW t \in Tools, NEW status, NEW r
    PROVE  LET l2 == reduceToolMeta(l, t, status, r)
           IN  LiveGood(l2) /\ l2.sub = l.sub /\ (NoGeneric(l) /\ t \notin l.sub => NoGeneric(l2))
<1> DEFINE s == IF l.callOf[t] = NoId THEN startToolCall(l, t, r) ELSE l
           l2 == [s EXCEPT !.meta[t] = status]
<1>1. LiveGood(s) /\ s.sub = l.sub /\ (NoGeneric(l) /\ t \notin l.sub => NoGeneric(s))
  BY CallStarted
<1> HIDE DEF s
<1>2. DOMAIN s = LiveFields /\ s.structText \in [Tools -> Texts]
  BY <1>1 DEF LiveGood, LiveSound, LiveShape
<1>3. /\ DOMAIN l2 = LiveFields /\ l2.msgs = s.msgs /\ l2.sub = s.sub /\ l2.callOf = s.callOf
      /\ l2.resOf = s.resOf /\ l2.structText = s.structText
  BY <1>2 DEF LiveFields
<1>4. reduceToolMeta(l, t, status, r) = IF t \in s.sub THEN s ELSE l2
  BY DEF reduceToolMeta, rememberToolMeta, s
<1> HIDE DEF l2
<1>5. LiveGood(l2) /\ (NoGeneric(s) => NoGeneric(l2))
  BY <1>1, <1>2, <1>3, BesideRows
<1> QED BY <1>1, <1>3, <1>4, <1>5

LEMMA Remainder ==
    ASSUME NEW s \in Texts, NEW text \in Texts
    PROVE  structuredTextRemainder(text, s) \in Texts
<1> DEFINE runs == wholeLineRuns(s, text)
           at == CHOOSE i \in runs : \A j \in runs : i <= j
           cut == SubSeq(s, 1, at) \o SubSeq(s, at + Len(text) + 1, Len(s))
           r == structuredTextRemainder(text, s)
<1>1. r \in {s, <<>>} \/ (runs # {} /\ r = cut)
  <2>1. r = CASE s = <<>> \/ text = <<>> -> s
              [] runs # {} -> cut
              [] wholeLineRuns(text, s) # {} -> <<>>
              [] OTHER -> s
    BY Zenon DEF structuredTextRemainder
  <2> HIDE DEF r, cut, runs
  <2> QED BY <2>1
<1>2. s \in Texts /\ <<>> \in Texts /\ Len(s) \in Nat /\ Len(text) \in Nat
  BY DEF Texts
<1>3. runs \subseteq Nat /\ \A i \in runs : i + Len(text) <= Len(s)
  BY <1>2 DEF wholeLineRuns
<1> HIDE DEF runs, r
<1>4. ASSUME runs # {} PROVE cut \in Texts
  <2>1. \E i \in runs : \A j \in runs : i <= j
    BY <1>3, <1>4, LeastNumber
  <2>2. at \in runs
    BY <2>1
  <2>3. at \in Nat /\ at + Len(text) <= Len(s)
    BY <1>3, <2>2
  <2> HIDE DEF at
  <2>4. \A i \in 1 .. Len(s) : s[i] \in Nat
    BY DEF Texts
  <2>5. SubSeq(s, 1, at) \in Seq(Nat)
    BY <1>2, <2>3, <2>4 DEF Texts
  <2>6. SubSeq(s, at + Len(text) + 1, Len(s)) \in Seq(Nat)
    BY <1>2, <2>3, <2>4 DEF Texts
  <2> QED BY <2>5, <2>6 DEF Texts
<1> HIDE DEF cut
<1> QED BY <1>1, <1>2, <1>4 DEF r

LEMMA ResultRowFree ==
    ASSUME NEW l, LiveGood(l), NEW t \in Tools
    PROVE  /\ ResultRow(l, t) \in ResultIds(t)
           /\ \A i \in DOMAIN l.msgs : l.msgs[i].role = "tool" /\ l.msgs[i].call = t =>
                 l.msgs[i].id = ResultRow(l, t)
BY ResultInBooks DEF ResultRow, ResultIds, LiveGood

LEMMA ToolTextKeeps ==
    ASSUME NEW l, LiveGood(l), NEW t \in Tools, NEW text \in Texts, NEW r
    PROVE  Keeps(reduceToolText(l, t, text, r), l)
<1>1. CASE t \in l.sub \/ l.textRev[t] = text
  BY <1>1 DEF reduceToolText, Keeps
<1>2. CASE ~(t \in l.sub \/ l.textRev[t] = text)
  <2> DEFINE more == structuredTextRemainder(text, l.structText[t])
             all == text \o more
             id == ResultRow(l, t)
             u == upsertToolResult(l, id, t, all, r)
             l2 == [u EXCEPT !.textRev[t] = text, !.structText[t] = more]
  <2>1. reduceToolText(l, t, text, r) = l2
    BY <1>2 DEF reduceToolText
  <2>2. more \in Texts /\ all \in Texts
    <3>1. l.structText[t] \in Texts
      BY DEF LiveGood, LiveSound, LiveShape
    <3>2. more \in Texts
      BY <3>1, Remainder
    <3> HIDE DEF more
    <3> QED BY <3>2 DEF Texts
  <2> HIDE DEF more, all
  <2>3. LiveGood(u) /\ u.sub = l.sub /\ (NoGeneric(l) => NoGeneric(u))
    <3>1. id \in ResultIds(t) /\ \A i \in DOMAIN l.msgs : l.msgs[i].role = "tool" /\ l.msgs[i].call = t => l.msgs[i].id = id
      BY ResultRowFree
    <3> HIDE DEF id
    <3> QED BY <1>2, <2>2, <3>1, UpsertResult DEF LiveGood
  <2> HIDE DEF u
  <2>4. DOMAIN u = LiveFields /\ u.structText \in [Tools -> Texts]
    BY <2>3 DEF LiveGood, LiveSound, LiveShape
  <2>5. /\ DOMAIN l2 = LiveFields /\ l2.msgs = u.msgs /\ l2.sub = u.sub /\ l2.callOf = u.callOf
        /\ l2.resOf = u.resOf /\ l2.structText = [u.structText EXCEPT ![t] = more]
    BY <2>4 DEF LiveFields
  <2> HIDE DEF l2
  <2>6. l2.structText \in [Tools -> Texts]
    BY <2>2, <2>4, <2>5
  <2>7. LiveGood(l2) /\ (NoGeneric(u) => NoGeneric(l2))
    BY <2>3, <2>5, <2>6, BesideRows
  <2> QED BY <2>1, <2>3, <2>5, <2>7 DEF Keeps
<1> QED BY <1>1, <1>2

LEMMA StrippedText ==
    ASSUME NEW text \in Texts, NEW s \in Texts
    PROVE  withoutPreviousStructuredText(text, s) \in Texts
<1> DEFINE k == Len(text) - Len(s)
<1>1. k \in Int /\ k <= Len(text)
  BY DEF Texts
<1>2. \A i \in 1 .. k : text[i] \in Nat
  BY <1>1 DEF Texts
<1> HIDE DEF k
<1>3. SubSeq(text, 1, k) \in Texts
  BY <1>1, <1>2 DEF Texts
<1> QED BY <1>3 DEF withoutPreviousStructuredText, k

LEMMA ToolContentKeeps ==
    ASSUME NEW l, LiveGood(l), NEW t \in Tools, NEW s \in Texts, NEW r
    PROVE  Keeps(reduceToolContent(l, t, s, r), l)
<1>1. CASE t \in l.sub \/ l.structRev[t] = s
  BY <1>1 DEF reduceToolContent, Keeps
<1>2. CASE ~(t \in l.sub \/ l.structRev[t] = s)
  <2> DEFINE id == ResultRow(l, t)
             text == withoutPreviousStructuredText(TextOf(l, id), l.structText[t])
             more == structuredTextRemainder(text, s)
             all == text \o more
             u == upsertToolResult(l, id, t, all, r)
             l2 == [u EXCEPT !.structRev[t] = s, !.structText[t] = more,
                             !.meta[t] = IF @ = "none" THEN "pending" ELSE @]
  <2>1. reduceToolContent(l, t, s, r) = l2
    BY <1>2 DEF reduceToolContent
  <2>2. more \in Texts /\ all \in Texts
    <3>1. l.structText[t] \in Texts /\ TextOf(l, id) \in Texts
      BY TextFound DEF LiveGood, LiveSound, LiveShape
    <3>2. text \in Texts
      BY <3>1, StrippedText
    <3> HIDE DEF text
    <3>3. more \in Texts
      BY <3>2, Remainder
    <3> HIDE DEF more
    <3> QED BY <3>2, <3>3 DEF Texts
  <2> HIDE DEF text, more, all
  <2>3. LiveGood(u) /\ u.sub = l.sub /\ (NoGeneric(l) => NoGeneric(u))
    <3>1. id \in ResultIds(t) /\ \A i \in DOMAIN l.msgs : l.msgs[i].role = "tool" /\ l.msgs[i].call = t => l.msgs[i].id = id
      BY ResultRowFree
    <3>2. LiveSound(l)
      BY DEF LiveGood
    <3> HIDE DEF id, l2
    <3>3. LiveGood(u) /\ u.sub = l.sub /\ (NoGeneric(l) /\ t \notin l.sub => NoGeneric(u))
      BY <2>2, <3>1, <3>2, UpsertResult
    <3> QED BY <1>2, <3>3
  <2> HIDE DEF u
  <2>4. DOMAIN u = LiveFields /\ u.structText \in [Tools -> Texts]
    BY <2>3 DEF LiveGood, LiveSound, LiveShape
  <2>5. /\ DOMAIN l2 = LiveFields /\ l2.msgs = u.msgs /\ l2.sub = u.sub /\ l2.callOf = u.callOf
        /\ l2.resOf = u.resOf /\ l2.structText = [u.structText EXCEPT ![t] = more]
    BY <2>4 DEF LiveFields
  <2> HIDE DEF l2
  <2>6. l2.structText \in [Tools -> Texts]
    BY <2>2, <2>4, <2>5
  <2>7. LiveGood(l2) /\ (NoGeneric(u) => NoGeneric(l2))
    BY <2>3, <2>5, <2>6, BesideRows
  <2> QED BY <2>1, <2>3, <2>5, <2>7 DEF Keeps
<1> QED BY <1>1, <1>2

LEMMA CardRow ==
    ASSUME NEW t \in Tools, NEW l
    PROVE  LET m == Row(CardId(t), "activity", <<>>, "unset", t)
           IN  m \in Rows /\ InBooks(m, l.callOf, l.resOf) /\ Plain(m, l.sub)
<1> DEFINE m == Row(CardId(t), "activity", <<>>, "unset", t)
<1>1. m \in [id : AnyIds, role : MessageRoles \cup {"tool", "activity"}, text : Texts,
             pend : {"on", "off", "unset"}, call : Tools \cup {0}]
  BY IdTypes DEF Row, MessageRoles, Texts
<1>2. m.id = CardId(t) /\ m.call = t /\ m.role = "activity" /\ t # 0
  BY DEF Row
<1> HIDE DEF m
<1>3. m \in Rows
  BY <1>1, <1>2 DEF Rows, RowOfKind
<1> QED BY <1>2, <1>3 DEF InBooks, Plain, m

LEMMA ActivityKeeps ==
    ASSUME NEW l, LiveGood(l), NEW t \in Tools, NEW r
    PROVE  LET l2 == reduceActivitySnapshot(l, t, r)
           IN  LiveGood(l2) /\ l2.sub = l.sub \cup {t} /\ (NoGeneric(l) => NoGeneric(l2))
<1> DEFINE ids == {l.callOf[t], l.resOf[t]}
           cut == [l EXCEPT !.msgs = WithoutIds(@, {l.callOf[t], l.resOf[t]}), !.sub = @ \cup {t}]
           m == Row(CardId(t), "activity", <<>>, "unset", t)
<1>1. DOMAIN l = LiveFields /\ l.sub \subseteq Tools /\ LiveSound(l)
  BY DEF LiveGood, LiveSound, LiveShape
<1>2. /\ DOMAIN cut = LiveFields /\ cut.msgs = WithoutIds(l.msgs, ids) /\ cut.sub = l.sub \cup {t}
      /\ cut.callOf = l.callOf /\ cut.resOf = l.resOf /\ cut.structText = l.structText
  BY <1>1 DEF LiveFields
<1>3. m \in Rows /\ InBooks(m, cut.callOf, cut.resOf) /\ Plain(m, cut.sub)
  <2> HIDE DEF cut
  <2> QED BY CardRow
<1>4. reduceActivitySnapshot(l, t, r) = upsertMessage(cut, m, r)
  BY DEF reduceActivitySnapshot
<1> HIDE DEF cut, m
<1>5. /\ LiveSound(cut)
      /\ \A i \in DOMAIN cut.msgs : cut.msgs[i].id \notin ids /\ \E j \in DOMAIN l.msgs : cut.msgs[i] = l.msgs[j]
  <2>1. cut.sub \subseteq Tools
    BY <1>1, <1>2
  <2> HIDE DEF ids
  <2> QED BY <1>1, <1>2, <2>1, RowsCut
<1>6. NoGeneric(l) => NoGeneric(cut)
  <2> SUFFICES ASSUME NoGeneric(l), NEW i \in DOMAIN cut.msgs, cut.msgs[i].role \in {"assistant", "tool"}
               PROVE cut.msgs[i].call \notin cut.sub
    BY DEF NoGeneric
  <2>1. PICK j \in DOMAIN l.msgs : cut.msgs[i] = l.msgs[j]
    BY <1>5
  <2>2. l.msgs[j].call \notin l.sub
    BY <2>1 DEF NoGeneric
  <2>3. l.msgs[j].id \notin {l.callOf[t], l.resOf[t]}
    BY <1>5, <2>1
  <2>4. l.msgs[j].call # t
    <3>1. t # 0
      OBVIOUS
    <3> QED BY <1>1, <2>1, <2>3, <3>1 DEF LiveSound, Booked
  <2> QED BY <1>2, <2>1, <2>2, <2>4
<1>7. /\ LiveGood(upsertMessage(cut, m, r)) /\ upsertMessage(cut, m, r).sub = cut.sub
      /\ NoGeneric(cut) => NoGeneric(upsertMessage(cut, m, r))
  BY <1>3, <1>5, UpsertKnown
<1> QED BY <1>2, <1>4, <1>6, <1>7

-----------------------------------------------------------------------------
(* A snapshot. *)

\* The rows of a snapshot, which names the result of a call by the call.
SnapshotOf(rows) ==
    /\ rows \in Seq(Rows) /\ Distinct(rows)
    /\ \A i \in DOMAIN rows : rows[i].role = "tool" => rows[i].id = ResId(rows[i].call)

Carded(rows) == {rows[i].call : i \in {j \in DOMAIN rows : rows[j].role = "activity"}}

LEMMA CardedTools ==
    ASSUME NEW rows, SnapshotOf(rows)
    PROVE  Carded(rows) \subseteq Tools
<1>1. \A i \in DOMAIN rows : rows[i] \in Rows
  BY DEF SnapshotOf
<1>2. \A i \in DOMAIN rows : rows[i].role = "activity" => rows[i].call \in Tools
  BY <1>1, RowParts DEF MessageRoles
<1> QED BY <1>2 DEF Carded

LEMMA SnapshotRebuilt ==
    ASSUME NEW l, LiveGood(l), NEW rows, SnapshotOf(rows), NEW hidden, hidden = l.sub \cup Carded(rows)
    PROVE  LET next == buildSnapshotMessages(l, rows, hidden)
           IN  SnapshotOf(next) /\ \A i \in DOMAIN next : Plain(next[i], hidden)
<1> DEFINE carded == Carded(rows)
           Generic(m) == m.role \in {"tool", "assistant"} /\ m.call \in hidden
           First(i) == \A j \in 1 .. i - 1 : ~(Generic(rows[j]) /\ rows[j].call = rows[i].call)
           card(i) == findMessage(l, CardId(rows[i].call))
           Restores(i) == Has(l, CardId(rows[i].call)) /\ rows[i].call \notin carded /\ First(i)
           part(i) == IF ~Generic(rows[i]) THEN <<rows[i]>>
                      ELSE IF Restores(i) THEN <<card(i)>> ELSE <<>>
           ss == [i \in DOMAIN rows |-> part(i)]
           next == FlattenSeq(ss)
           n == Len(rows)
<1>0. buildSnapshotMessages(l, rows, hidden) = next
  BY DEF buildSnapshotMessages, Carded
<1>1. rows \in Seq(Rows) /\ n \in Nat /\ DOMAIN rows = 1 .. n /\ \A i \in 1 .. n : rows[i] \in Rows
  BY DEF SnapshotOf
<1>2. hidden \subseteq Tools
  BY CardedTools DEF LiveGood, LiveSound, LiveShape
<1>3. ASSUME NEW i \in 1 .. n, Generic(rows[i]), Restores(i)
      PROVE  card(i) \in Rows /\ card(i).id = CardId(rows[i].call) /\ card(i).role = "activity"
  <2> DEFINE c == rows[i].call
             m == card(i)
  <2>1. m \in Rows /\ m.id = CardId(c)
    BY <1>3, FoundMessage DEF LiveGood, LiveSound
  <2> HIDE DEF m, c
  <2>2. m.id[1] = "card"
    BY <2>1, IdParts
  <2>3. m.role = "activity"
    BY <2>1, <2>2, RowParts
  <2> QED BY <2>1, <2>3 DEF m, c
<1>4. ASSUME NEW i \in 1 .. n
      PROVE  /\ part(i) \in Seq(Rows)
             /\ \A k \in DOMAIN part(i) :
                   /\ k = 1
                   /\ \/ ~Generic(rows[i]) /\ part(i)[k] = rows[i]
                      \/ Generic(rows[i]) /\ Restores(i) /\ part(i)[k] = card(i)
  <2>1. CASE ~Generic(rows[i])
    <3>1. part(i) = <<rows[i]>> /\ rows[i] \in Rows
      BY <1>1, <2>1
    <3> HIDE DEF part
    <3> QED BY <2>1, <3>1
  <2>2. CASE Generic(rows[i]) /\ Restores(i)
    <3>1. part(i) = <<card(i)>> /\ card(i) \in Rows
      BY <1>3, <2>2
    <3> HIDE DEF part, card, Restores, Generic
    <3> QED BY <2>2, <3>1
  <2>3. CASE Generic(rows[i]) /\ ~Restores(i)
    <3>1. part(i) = <<>>
      BY <2>3
    <3> HIDE DEF part
    <3> QED BY <3>1
  <2> HIDE DEF part, Restores, Generic
  <2> QED BY <2>1, <2>2, <2>3
<1>5. ss \in Seq(Seq(Rows)) /\ DOMAIN ss = 1 .. n /\ Len(ss) = n /\ \A i \in 1 .. n : ss[i] = part(i)
  <2>1. ss = [i \in 1 .. n |-> part(i)]
    BY <1>1
  <2>2. \A i \in 1 .. n : part(i) \in Seq(Rows)
    BY <1>4
  <2> HIDE DEF part, ss, n
  <2> QED BY <1>1, <2>1, <2>2
<1> HIDE DEF ss, part, n
<1>6. \A a \in 1 .. n : \A k \in DOMAIN ss[a] :
         /\ k = 1
         /\ \/ ~Generic(rows[a]) /\ ss[a][k] = rows[a]
            \/ Generic(rows[a]) /\ Restores(a) /\ ss[a][k] = card(a)
  BY <1>4, <1>5
<1>7. ASSUME NEW a \in 1 .. n, NEW b \in 1 .. n, NEW k \in DOMAIN ss[a], NEW m \in DOMAIN ss[b],
             ss[a][k].id = ss[b][m].id
      PROVE  a = b /\ k = m
  <2> DEFINE RowAt(i, j) == ~Generic(rows[i]) /\ ss[i][j] = rows[i]
             CardAt(i, j) == Generic(rows[i]) /\ Restores(i) /\ ss[i][j] = card(i)
  <2>0. k = 1 /\ m = 1 /\ (RowAt(a, k) \/ CardAt(a, k)) /\ (RowAt(b, m) \/ CardAt(b, m))
    BY <1>6
  <2>1. ASSUME NEW i \in 1 .. n, NEW j \in 1 .. n, rows[i].id = CardId(rows[j].call), Restores(j) PROVE FALSE
    <3> DEFINE c == rows[j].call
               x == rows[i]
    <3>1. x \in Rows /\ x.id = CardId(c) /\ c \notin carded
      BY <1>1, <2>1
    <3>2. x.role = "activity" => x.call \in carded
      BY <1>1 DEF Carded
    <3> HIDE DEF x, c
    <3>3. x.id[1] = "card" /\ x.id[2] = c
      BY <3>1, IdParts
    <3>4. x.role = "activity" /\ x.call = c
      BY <3>1, <3>3, RowParts
    <3> QED BY <3>1, <3>2, <3>4
  <2>2. CASE RowAt(a, k) /\ RowAt(b, m)
    <3>1. rows[a].id = rows[b].id /\ a \in DOMAIN rows /\ b \in DOMAIN rows
      BY <1>1, <1>7, <2>2
    <3> QED BY <2>0, <3>1 DEF SnapshotOf, Distinct
  <2>3. CASE RowAt(a, k) /\ CardAt(b, m)
    <3>1. card(b).id = CardId(rows[b].call)
      BY <1>3, <2>3
    <3>2. rows[a].id = CardId(rows[b].call) /\ Restores(b)
      BY <1>7, <2>3, <3>1
    <3> QED BY <2>1, <3>2
  <2>4. CASE CardAt(a, k) /\ RowAt(b, m)
    <3>1. card(a).id = CardId(rows[a].call)
      BY <1>3, <2>4
    <3>2. rows[b].id = CardId(rows[a].call) /\ Restores(a)
      BY <1>7, <2>4, <3>1
    <3> QED BY <2>1, <3>2
  <2>5. CASE CardAt(a, k) /\ CardAt(b, m)
    <3>1. card(a).id = CardId(rows[a].call) /\ card(b).id = CardId(rows[b].call)
      BY <1>3, <2>5
    <3>2. CardId(rows[a].call) = CardId(rows[b].call)
      BY <1>7, <2>5, <3>1
    <3>3. rows[a].call = rows[b].call
      <4> DEFINE c == rows[a].call
                 d == rows[b].call
      <4>1. CardId(c) = CardId(d) => c = d
        <5> HIDE DEF c, d
        <5> QED BY IdParts
      <4> QED BY <3>2, <4>1
    <3>4. Generic(rows[a]) /\ Generic(rows[b]) /\ First(a) /\ First(b)
      BY <2>5
    <3>5. ~(a \in 1 .. b - 1) /\ ~(b \in 1 .. a - 1)
      BY <3>3, <3>4
    <3>6. a = b
      BY <1>1, <3>5
    <3> QED BY <2>0, <3>6
  <2> HIDE DEF RowAt, CardAt
  <2> QED BY <2>0, <2>2, <2>3, <2>4, <2>5
<1>8. Apart(ss)
  <2> HIDE DEF Generic, Restores, card
  <2> QED BY <1>5, <1>7 DEF Apart
<1>9. next \in Seq(Rows) /\ Distinct(next) /\ FromFirst(next, ss, n)
  BY <1>5, <1>8, FlattenFrom
<1>10. ASSUME NEW i \in DOMAIN next
       PROVE  /\ next[i].role = "tool" => next[i].id = ResId(next[i].call)
              /\ Plain(next[i], hidden)
  <2>1. PICK a \in 1 .. n : \E k \in DOMAIN ss[a] : next[i] = ss[a][k]
    BY <1>9 DEF FromFirst
  <2> HIDE DEF next
  <2>2. \/ ~Generic(rows[a]) /\ next[i] = rows[a]
        \/ Generic(rows[a]) /\ Restores(a) /\ next[i] = card(a)
    BY <1>6, <2>1
  <2>3. CASE ~Generic(rows[a]) /\ next[i] = rows[a]
    <3>1. rows[a].role = "tool" => rows[a].id = ResId(rows[a].call)
      BY <1>1 DEF SnapshotOf
    <3> QED BY <2>3, <3>1 DEF Plain
  <2>4. CASE Generic(rows[a]) /\ Restores(a) /\ next[i] = card(a)
    <3>1. next[i].role = "activity"
      BY <1>3, <2>4
    <3> QED BY <3>1 DEF Plain
  <2> QED BY <2>2, <2>3, <2>4
<1> QED BY <1>0, <1>9, <1>10 DEF SnapshotOf

\* The books name the rows that are left.
LEMMA Rebased ==
    ASSUME NEW kept, SnapshotOf(kept), NEW callOf, NEW resOf, BooksOf(callOf, resOf)
    PROVE  LET c == rebaseToolBookkeeping(callOf, kept, "assistant")
               s == rebaseToolBookkeeping(resOf, kept, "tool")
           IN  BooksOf(c, s) /\ Booked(kept, c, s)
<1> DEFINE c == rebaseToolBookkeeping(callOf, kept, "assistant")
           s == rebaseToolBookkeeping(resOf, kept, "tool")
           said(role, t) == {m \in {kept[i] : i \in DOMAIN kept} : m.role = role /\ m.call = t}
<1>1. DOMAIN c = Tools /\ DOMAIN s = Tools
  BY DEF rebaseToolBookkeeping
<1>2. ASSUME NEW t \in Tools
      PROVE  /\ said("assistant", t) # {} => \E m \in said("assistant", t) : c[t] = m.id
             /\ said("assistant", t) = {} => c[t] \in {NoId, callOf[t]}
             /\ said("tool", t) # {} => \E m \in said("tool", t) : s[t] = m.id
             /\ said("tool", t) = {} => s[t] \in {NoId, resOf[t]}
  <2>1. said("assistant", t) # {} => \E m \in said("assistant", t) : c[t] = m.id
    BY DEF rebaseToolBookkeeping
  <2>2. said("assistant", t) = {} => c[t] \in {NoId, callOf[t]}
    BY DEF rebaseToolBookkeeping
  <2>3. said("tool", t) # {} => \E m \in said("tool", t) : s[t] = m.id
    BY DEF rebaseToolBookkeeping
  <2>4. said("tool", t) = {} => s[t] \in {NoId, resOf[t]}
    BY DEF rebaseToolBookkeeping
  <2> QED BY <2>1, <2>2, <2>3, <2>4
<1>3. ASSUME NEW t \in Tools
      PROVE  /\ \A m \in said("assistant", t) : m.id = CallId(t)
             /\ \A m \in said("tool", t) : m.id = ResId(t)
  <2>1. \A i \in DOMAIN kept : kept[i] \in Rows
    BY DEF SnapshotOf
  <2>2. t # 0
    OBVIOUS
  <2>3. \A m \in said("assistant", t) : m.id = CallId(t)
    BY <2>1, <2>2, RowParts
  <2>4. \A m \in said("tool", t) : m.id = ResId(t)
    BY DEF SnapshotOf
  <2> QED BY <2>3, <2>4
<1>4. ASSUME NEW i \in DOMAIN kept
      PROVE  /\ kept[i].role = "assistant" /\ kept[i].call # 0 => c[kept[i].call] = kept[i].id
             /\ kept[i].role = "tool" => s[kept[i].call] = kept[i].id
  <2> DEFINE m == kept[i]
  <2>1. m \in Rows
    BY DEF SnapshotOf
  <2>2. (m.call # 0 => m.call \in Tools) /\ (m.role = "tool" => m.call # 0)
    BY <2>1, RowParts
  <2> DEFINE t == m.call
  <2>3. /\ m.role = "assistant" => m \in said("assistant", t)
        /\ m.role = "tool" => m \in said("tool", t)
    OBVIOUS
  <2> HIDE DEF m, c, s, said, t
  <2>4. ASSUME m.role = "assistant", t \in Tools PROVE c[t] = m.id
    <3>1. PICK o \in said("assistant", t) : c[t] = o.id
      BY <1>2, <2>3, <2>4
    <3> QED BY <1>3, <2>3, <2>4, <3>1
  <2>5. ASSUME m.role = "tool", t \in Tools PROVE s[t] = m.id
    <3>1. PICK o \in said("tool", t) : s[t] = o.id
      BY <1>2, <2>3, <2>5
    <3> QED BY <1>3, <2>3, <2>5, <3>1
  <2>6. /\ m.role = "assistant" /\ m.call # 0 => c[m.call] = m.id
        /\ m.role = "tool" => s[m.call] = m.id
    BY <2>2, <2>4, <2>5 DEF t
  <2> QED BY <2>6 DEF m
<1>5. BooksOf(c, s)
  <2> HIDE DEF c, s, said
  <2> QED BY <1>1, <1>2, <1>3 DEF BooksOf, ResultIds
<1> QED BY <1>4, <1>5 DEF Booked

LEMMA SnapshotGood ==
    ASSUME NEW l, LiveGood(l), NEW rows, SnapshotOf(rows), NEW metas, NEW r
    PROVE  LET l2 == applyMessagesSnapshot(l, rows, metas, r)
           IN  LiveGood(l2) /\ l2.sub = l.sub \cup Carded(rows) /\ NoGeneric(l2)
<1> DEFINE hidden == l.sub \cup Carded(rows)
           next == buildSnapshotMessages(l, rows, hidden)
           kept == LastRows(next, MaxMsgs)
           l2 == applyMessagesSnapshot(l, rows, metas, r)
<1>1. DOMAIN l = LiveFields
  BY DEF LiveGood, LiveSound, LiveShape
<1>2. /\ DOMAIN l2 = LiveFields /\ l2.msgs = kept /\ l2.sub = hidden /\ l2.structText = l.structText
      /\ l2.callOf = rebaseToolBookkeeping(l.callOf, kept, "assistant")
      /\ l2.resOf = rebaseToolBookkeeping(l.resOf, kept, "tool")
  BY <1>1 DEF applyMessagesSnapshot, Carded, LiveFields
<1> HIDE DEF l2
<1>3. SnapshotOf(next) /\ \A i \in DOMAIN next : Plain(next[i], hidden)
  <2> HIDE DEF hidden
  <2>1. hidden = l.sub \cup Carded(rows)
    BY DEF hidden
  <2> QED BY <2>1, SnapshotRebuilt
<1>4. hidden \subseteq Tools
  BY CardedTools DEF LiveGood, LiveSound, LiveShape
<1> HIDE DEF next, hidden
<1>5. /\ kept \in Seq(Rows) /\ Len(kept) <= MaxMsgs /\ Distinct(kept)
      /\ \A i \in DOMAIN kept : \E j \in DOMAIN next : kept[i] = next[j]
  BY <1>3, LastOnes DEF SnapshotOf
<1> HIDE DEF kept
<1>6. SnapshotOf(kept) /\ \A i \in DOMAIN kept : Plain(kept[i], hidden)
  BY <1>3, <1>5 DEF SnapshotOf
<1>7. BooksOf(l2.callOf, l2.resOf) /\ Booked(kept, l2.callOf, l2.resOf)
  BY <1>2, <1>6, Rebased DEF LiveGood, LiveSound, LiveShape
<1>8. LiveGood(l2)
  BY <1>2, <1>4, <1>5, <1>7 DEF LiveGood, LiveSound, LiveShape
<1>9. NoGeneric(l2)
  BY <1>2, <1>6 DEF NoGeneric, Plain
<1> QED BY <1>2, <1>8, <1>9 DEF l2, hidden

-----------------------------------------------------------------------------
(* Events and batches of events. *)

LEMMA FreshLive ==
    /\ LiveGood(createAgUiThreadMessageState) /\ NoGeneric(createAgUiThreadMessageState)
    /\ createAgUiThreadMessageState.sub = {}
<1> DEFINE l == createAgUiThreadMessageState
<1>1. /\ DOMAIN l = LiveFields /\ l.msgs = <<>> /\ l.sub = {}
      /\ l.callOf = [t \in Tools |-> NoId] /\ l.resOf = [t \in Tools |-> NoId]
      /\ l.structText = [t \in Tools |-> <<>>]
  BY DEF createAgUiThreadMessageState, LiveFields
<1> HIDE DEF l
<1>2. BooksOf(l.callOf, l.resOf)
  BY <1>1 DEF BooksOf
<1>3. l.structText \in [Tools -> Texts]
  <2>1. <<>> \in Texts
    BY DEF Texts
  <2> QED BY <1>1, <2>1
<1>4. LiveShape(l)
  BY <1>1, <1>2, <1>3 DEF LiveShape
<1> QED BY <1>1, <1>4 DEF LiveGood, LiveSound, Distinct, Booked, NoGeneric, l

\* What an event of the stream does.
Follows(l2, l, e) ==
    /\ LiveGood(l2)
    /\ l2.sub \subseteq l.sub \cup {t \in Tools : e.ev = "ACTIVITY_SNAPSHOT" /\ e.t = t}
    /\ NoGeneric(l) /\ (e.ev = "tool-meta" => e.t \notin l.sub) => NoGeneric(l2)
    /\ e.ev = "RUN_STARTED" => l2.sub = {} /\ NoGeneric(l2)

LEMMA KeepsFollows ==
    ASSUME NEW l, NEW l2, Keeps(l2, l), NEW e, e.ev # "RUN_STARTED"
    PROVE  Follows(l2, l, e)
BY DEF Keeps, Follows

LEMMA EventFollows ==
    ASSUME NEW l, LiveGood(l), NEW e \in StreamEvs
    PROVE  Follows(reduceThreadState(l, e), l, e)
<1>1. CASE e \in MessageEvs
  <2>1. /\ e.ev \in {"MESSAGE_START", "MESSAGE_CONTENT", "MESSAGE_END"}
        /\ e.id \in MsgIds /\ e.role \in MessageRoles /\ e.text \in Texts
    BY <1>1 DEF MessageEvs
  <2>2. CASE e.ev = "MESSAGE_START"
    <3>1. reduceThreadState(l, e) = reduceMessageStart(l, e.id, e.role, e.run)
      BY <2>2 DEF reduceThreadState
    <3> QED BY <2>1, <2>2, <3>1, MessageStartKeeps, KeepsFollows
  <2>3. CASE e.ev = "MESSAGE_CONTENT"
    <3>1. reduceThreadState(l, e) = appendText(l, e.id, e.text, e.role, e.run)
      BY <2>3 DEF reduceThreadState
    <3> QED BY <2>1, <2>3, <3>1, AppendTextKeeps, KeepsFollows
  <2>4. CASE e.ev = "MESSAGE_END"
    <3> DEFINE timed == e.role # "reasoning"
    <3>1. reduceThreadState(l, e) = markTerminal(l, e.id, timed)
      BY <2>4 DEF reduceThreadState
    <3> HIDE DEF timed
    <3>2. Keeps(markTerminal(l, e.id, timed), l)
      BY TerminalKeeps
    <3> QED BY <2>4, <3>1, <3>2, KeepsFollows
  <2> QED BY <2>1, <2>2, <2>3, <2>4
<1>2. CASE e \in RunEvs
  <2>1. e.ev \in {"RUN_STARTED", "RUN_FINISHED"}
    BY <1>2 DEF RunEvs
  <2>2. CASE e.ev = "RUN_STARTED"
    <3>1. reduceThreadState(l, e) = createAgUiThreadMessageState
      BY <2>2 DEF reduceThreadState
    <3> QED BY <3>1, FreshLive DEF Follows
  <2>3. CASE e.ev = "RUN_FINISHED"
    <3>1. reduceThreadState(l, e) = markRunTerminal(l, e.run)
      BY <2>3 DEF reduceThreadState
    <3>2. Keeps(markRunTerminal(l, e.run), l)
      BY TerminalKeeps
    <3> QED BY <2>3, <3>1, <3>2, KeepsFollows
  <2> QED BY <2>1, <2>2, <2>3
<1>3. CASE e \in ToolEvs
  <2>1. /\ e.ev \in {"TOOL_CALL_START", "TOOL_CALL_ARGS", "TOOL_CALL_END", "TOOL_CALL_RESULT",
                     "tool-meta", "tool-text", "tool-content", "ACTIVITY_SNAPSHOT"}
        /\ e.t \in Tools /\ e.text \in Texts /\ e.run \in 1 .. MaxRuns
    BY <1>3 DEF ToolEvs
  <2>2. CASE e.ev = "TOOL_CALL_START"
    <3>1. reduceThreadState(l, e) = reduceToolCallStart(l, e.t, e.run)
      BY <2>2 DEF reduceThreadState
    <3> QED BY <2>1, <2>2, <3>1, CallStartKeeps, KeepsFollows
  <2>3. CASE e.ev = "TOOL_CALL_ARGS"
    <3>1. reduceThreadState(l, e) = reduceToolCallArgs(l, e.t, e.run)
      BY <2>3 DEF reduceThreadState
    <3> QED BY <2>1, <2>3, <3>1, CallArgsKeeps, KeepsFollows
  <2>4. CASE e.ev = "TOOL_CALL_END"
    <3>1. reduceThreadState(l, e) = reduceToolCallEnd(l, e.t)
      BY <2>4 DEF reduceThreadState
    <3> QED BY <2>1, <2>4, <3>1, CallEndKeeps, KeepsFollows
  <2>5. CASE e.ev = "TOOL_CALL_RESULT"
    <3>1. reduceThreadState(l, e) = reduceToolCallResult(l, RunResId(e.t, e.run), e.t, e.text, e.run)
      BY <2>5 DEF reduceThreadState
    <3>2. RunResId(e.t, e.run) \in ResultIds(e.t)
      BY <2>1 DEF ResultIds
    <3> QED BY <2>1, <2>5, <3>1, <3>2, CallResultKeeps, KeepsFollows
  <2>6. CASE e.ev = "tool-meta"
    <3>1. reduceThreadState(l, e) = reduceToolMeta(l, e.t, e.status, e.run)
      BY <2>6 DEF reduceThreadState
    <3> DEFINE l2 == reduceToolMeta(l, e.t, e.status, e.run)
    <3>2. LiveGood(l2) /\ l2.sub = l.sub /\ (NoGeneric(l) /\ e.t \notin l.sub => NoGeneric(l2))
      BY <2>1, ToolMetaKeeps
    <3> HIDE DEF l2
    <3>3. Follows(l2, l, e)
      BY <2>6, <3>2 DEF Follows
    <3> QED BY <3>1, <3>3 DEF l2
  <2>7. CASE e.ev = "tool-text"
    <3>1. reduceThreadState(l, e) = reduceToolText(l, e.t, e.text, e.run)
      BY <2>7 DEF reduceThreadState
    <3> QED BY <2>1, <2>7, <3>1, ToolTextKeeps, KeepsFollows
  <2>8. CASE e.ev = "tool-content"
    <3>1. reduceThreadState(l, e) = reduceToolContent(l, e.t, e.text, e.run)
      BY <2>8 DEF reduceThreadState
    <3> QED BY <2>1, <2>8, <3>1, ToolContentKeeps, KeepsFollows
  <2>9. CASE e.ev = "ACTIVITY_SNAPSHOT"
    <3>1. reduceThreadState(l, e) = reduceActivitySnapshot(l, e.t, e.run)
      BY <2>9 DEF reduceThreadState
    <3> DEFINE l2 == reduceActivitySnapshot(l, e.t, e.run)
    <3>2. LiveGood(l2) /\ l2.sub = l.sub \cup {e.t} /\ (NoGeneric(l) => NoGeneric(l2))
      BY <2>1, ActivityKeeps
    <3> HIDE DEF l2
    <3>3. Follows(l2, l, e)
      BY <2>1, <2>9, <3>2 DEF Follows
    <3> QED BY <3>1, <3>3 DEF l2
  <2> QED BY <2>1, <2>2, <2>3, <2>4, <2>5, <2>6, <2>7, <2>8, <2>9
<1> QED BY <1>1, <1>2, <1>3 DEF StreamEvs

IsFlushRun(f, l, w, n) == f = [i \in 0 .. n |-> IF i = 0 THEN l ELSE reduceThreadState(f[i - 1], w[i])]
IsReceiveRun(f, s, b, n) == f = [i \in 0 .. n |-> IF i = 0 THEN s ELSE onEvent(f[i - 1], b[i])]

LEMMA FlushRun ==
    ASSUME NEW l, NEW w, NEW n \in Nat
    PROVE  \E f : IsFlushRun(f, l, w, n)
<1> DEFINE T == {m \in 0 .. n : \E f : IsFlushRun(f, l, w, m)}
<1>1. 0 \in T
  <2> DEFINE g == [i \in 0 .. 0 |-> l]
  <2>1. IsFlushRun(g, l, w, 0)
    BY DEF IsFlushRun
  <2> HIDE DEF g
  <2> QED BY <2>1
<1>2. ASSUME NEW m \in 0 .. (n - 1), m \in T PROVE m + 1 \in T
  <2>1. PICK f : IsFlushRun(f, l, w, m)
    BY <1>2
  <2> DEFINE g == [i \in 0 .. (m + 1) |-> IF i = 0 THEN l ELSE reduceThreadState(f[i - 1], w[i])]
             h == [i \in 0 .. (m + 1) |-> IF i = 0 THEN l ELSE reduceThreadState(g[i - 1], w[i])]
  <2>2. ASSUME NEW i \in 0 .. m PROVE g[i] = f[i]
    <3>1. i \in 0 .. (m + 1)
      OBVIOUS
    <3> QED BY <2>1, <3>1 DEF IsFlushRun
  <2>3. ASSUME NEW i \in 0 .. (m + 1) PROVE g[i] = h[i]
    <3>1. CASE i = 0
      BY <3>1
    <3>2. CASE i # 0
      <4>1. i - 1 \in 0 .. m
        BY <3>2
      <4>2. g[i - 1] = f[i - 1]
        BY <2>2, <4>1
      <4>3. g[i] = reduceThreadState(f[i - 1], w[i]) /\ h[i] = reduceThreadState(g[i - 1], w[i])
        BY <3>2
      <4> HIDE DEF g, h
      <4> QED BY <4>2, <4>3
    <3> QED BY <3>1, <3>2
  <2>4. g = h
    BY <2>3
  <2>5. IsFlushRun(g, l, w, m + 1)
    BY <2>4 DEF IsFlushRun
  <2> HIDE DEF g
  <2>6. m + 1 \in 0 .. n
    OBVIOUS
  <2> QED BY <2>5, <2>6
<1>3. \A m \in 0 .. n : m \in T
  <2> HIDE DEF T
  <2> QED BY <1>1, <1>2, UpTo
<1>4. n \in T
  BY <1>3
<1> QED BY <1>4

LEMMA ReceiveRun ==
    ASSUME NEW s, NEW b, NEW n \in Nat
    PROVE  \E f : IsReceiveRun(f, s, b, n)
<1> DEFINE T == {m \in 0 .. n : \E f : IsReceiveRun(f, s, b, m)}
<1>1. 0 \in T
  <2> DEFINE g == [i \in 0 .. 0 |-> s]
  <2>1. IsReceiveRun(g, s, b, 0)
    BY DEF IsReceiveRun
  <2> HIDE DEF g
  <2> QED BY <2>1
<1>2. ASSUME NEW m \in 0 .. (n - 1), m \in T PROVE m + 1 \in T
  <2>1. PICK f : IsReceiveRun(f, s, b, m)
    BY <1>2
  <2> DEFINE g == [i \in 0 .. (m + 1) |-> IF i = 0 THEN s ELSE onEvent(f[i - 1], b[i])]
             h == [i \in 0 .. (m + 1) |-> IF i = 0 THEN s ELSE onEvent(g[i - 1], b[i])]
  <2>2. ASSUME NEW i \in 0 .. m PROVE g[i] = f[i]
    <3>1. i \in 0 .. (m + 1)
      OBVIOUS
    <3> QED BY <2>1, <3>1 DEF IsReceiveRun
  <2>3. ASSUME NEW i \in 0 .. (m + 1) PROVE g[i] = h[i]
    <3>1. CASE i = 0
      BY <3>1
    <3>2. CASE i # 0
      <4>1. i - 1 \in 0 .. m
        BY <3>2
      <4>2. g[i - 1] = f[i - 1]
        BY <2>2, <4>1
      <4>3. g[i] = onEvent(f[i - 1], b[i]) /\ h[i] = onEvent(g[i - 1], b[i])
        BY <3>2
      <4> HIDE DEF g, h
      <4> QED BY <4>2, <4>3
    <3> QED BY <3>1, <3>2
  <2>4. g = h
    BY <2>3
  <2>5. IsReceiveRun(g, s, b, m + 1)
    BY <2>4 DEF IsReceiveRun
  <2> HIDE DEF g
  <2>6. m + 1 \in 0 .. n
    OBVIOUS
  <2> QED BY <2>5, <2>6
<1>3. \A m \in 0 .. n : m \in T
  <2> HIDE DEF T
  <2> QED BY <1>1, <1>2, UpTo
<1>4. n \in T
  BY <1>3
<1> QED BY <1>4

\* The text that waited for the frame.
LEMMA FlushKeeps ==
    ASSUME NEW l, LiveGood(l), NEW w \in Seq(ContentEvs)
    PROVE  Keeps(Flushed(l, w), l)
<1> DEFINE n == Len(w)
           f == CHOOSE f : IsFlushRun(f, l, w, n)
<1>0. n \in Nat /\ \A i \in 1 .. n : w[i] \in ContentEvs
  OBVIOUS
<1>1. f = [i \in 0 .. n |-> IF i = 0 THEN l ELSE reduceThreadState(f[i - 1], w[i])]
  <2>1. IsFlushRun(f, l, w, n)
    BY <1>0, FlushRun
  <2> HIDE DEF f
  <2> QED BY <2>1 DEF IsFlushRun
<1>2. Flushed(l, w) = f[n]
  BY DEF Flushed, IsFlushRun
<1> HIDE DEF f, n
<1>3. f[0] = l /\ \A i \in 0 .. (n - 1) : f[i + 1] = reduceThreadState(f[i], w[i + 1])
  <2>1. 0 \in 0 .. n /\ \A i \in 0 .. (n - 1) : i + 1 \in 0 .. n /\ i + 1 # 0 /\ (i + 1) - 1 = i
    BY <1>0
  <2> QED BY <1>1, <2>1
<1> DEFINE T == {i \in 0 .. n : Keeps(f[i], l)}
<1>4. 0 \in T
  BY <1>0, <1>3 DEF Keeps
<1>5. ASSUME NEW i \in 0 .. (n - 1), i \in T PROVE i + 1 \in T
  <2> DEFINE x == f[i]
             e == w[i + 1]
  <2>1. Keeps(x, l) /\ e \in ContentEvs /\ i + 1 \in 0 .. n /\ f[i + 1] = reduceThreadState(x, e)
    BY <1>0, <1>3, <1>5
  <2> HIDE DEF x, e, T
  <2>2. /\ e.ev = "MESSAGE_CONTENT" /\ e.id \in MsgIds /\ e.role \in MessageRoles /\ e.text \in Texts
    BY <2>1 DEF ContentEvs
  <2>3. reduceThreadState(x, e) = appendText(x, e.id, e.text, e.role, e.run)
    BY <2>2 DEF reduceThreadState
  <2>4. Keeps(appendText(x, e.id, e.text, e.role, e.run), x)
    BY <2>1, <2>2, AppendTextKeeps DEF Keeps
  <2>5. Keeps(f[i + 1], l)
    BY <2>1, <2>3, <2>4 DEF Keeps
  <2> QED BY <2>1, <2>5 DEF T
<1>6. \A i \in 0 .. n : i \in T
  <2> HIDE DEF T
  <2> QED BY <1>0, <1>4, <1>5, UpTo
<1>7. n \in T
  BY <1>0, <1>6
<1> QED BY <1>2, <1>7

-----------------------------------------------------------------------------
(* What the app makes of a batch. *)

AppSound(s) == DOMAIN s = {"live", "buf"} /\ LiveGood(s.live) /\ s.buf \in Seq(ContentEvs)

LEMMA EventReceived ==
    ASSUME NEW s, AppSound(s), NEW e \in StreamEvs
    PROVE  AppSound(onEvent(s, e)) /\ Follows(onEvent(s, e).live, s.live, e)
<1>1. CASE e.ev = "MESSAGE_CONTENT" /\ e.role # "reasoning"
  <2>1. e \in ContentEvs
    <3>1. e \in MessageEvs
      BY <1>1 DEF StreamEvs, RunEvs, ToolEvs
    <3> QED BY <1>1, <3>1 DEF MessageEvs, ContentEvs
  <2> DEFINE s2 == [s EXCEPT !.buf = Append(@, e)]
  <2>2. onEvent(s, e) = s2
    BY <1>1 DEF onEvent
  <2>3. DOMAIN s2 = {"live", "buf"} /\ s2.live = s.live /\ s2.buf = Append(s.buf, e)
    BY DEF AppSound
  <2> HIDE DEF s2
  <2>4. AppSound(s2)
    BY <2>1, <2>3 DEF AppSound
  <2>5. Follows(s2.live, s.live, e)
    BY <1>1, <2>3 DEF Follows, AppSound
  <2> QED BY <2>2, <2>4, <2>5
<1>2. CASE ~(e.ev = "MESSAGE_CONTENT" /\ e.role # "reasoning")
  <2> DEFINE x == Flushed(s.live, s.buf)
             y == reduceThreadState(x, e)
  <2>1. onEvent(s, e) = [live |-> y, buf |-> <<>>]
    BY <1>2 DEF onEvent
  <2>2. Keeps(x, s.live)
    BY FlushKeeps DEF AppSound
  <2> HIDE DEF x
  <2>3. Follows(y, x, e)
    BY <2>2, EventFollows DEF Keeps
  <2> HIDE DEF y
  <2>4. Follows(y, s.live, e)
    BY <2>2, <2>3 DEF Follows, Keeps
  <2>5. onEvent(s, e).live = y /\ onEvent(s, e).buf = <<>> /\ DOMAIN onEvent(s, e) = {"live", "buf"}
    BY <2>1
  <2>6. AppSound(onEvent(s, e))
    BY <2>4, <2>5 DEF AppSound, Follows
  <2> QED BY <2>4, <2>5, <2>6
<1> QED BY <1>1, <1>2

\* A batch of one event.
LEMMA ReceiveOne ==
    ASSUME NEW b, Len(b) = 1
    PROVE  Receive(b) = onEvent([live |-> live, buf |-> buf], b[1])
<1> DEFINE s == [live |-> live, buf |-> buf]
           f == CHOOSE f : IsReceiveRun(f, s, b, 1)
<1>1. f = [i \in 0 .. 1 |-> IF i = 0 THEN s ELSE onEvent(f[i - 1], b[i])]
  <2>1. IsReceiveRun(f, s, b, 1)
    BY ReceiveRun
  <2> HIDE DEF f
  <2> QED BY <2>1 DEF IsReceiveRun
<1>2. Receive(b) = f[1]
  BY DEF Receive, IsReceiveRun
<1> HIDE DEF f
<1>3. f[0] = s /\ f[1] = onEvent(f[0], b[1])
  <2>1. 0 \in 0 .. 1 /\ 1 \in 0 .. 1 /\ 1 # 0 /\ 1 - 1 = 0
    OBVIOUS
  <2> HIDE DEF s
  <2> QED BY <1>1, <2>1
<1> QED BY <1>2, <1>3

\* What becomes of the live state with the first k events of batch b.
Heard(s, b, k) ==
    /\ AppSound(s)
    /\ s.live.sub \subseteq live.sub \cup {t \in Tools : Tells(b, "ACTIVITY_SNAPSHOT", t)}
    /\ NoGeneric(live) /\ (\A t \in Tools : Tells(b, "tool-meta", t) =>
                              t \notin live.sub /\ ~Tells(b, "ACTIVITY_SNAPSHOT", t))
       => NoGeneric(s.live)

LEMMA BatchReceived ==
    ASSUME LiveGood(live), buf \in Seq(ContentEvs), NEW b \in Seq(StreamEvs)
    PROVE  Heard(Receive(b), b, Len(b))
<1> DEFINE s == [live |-> live, buf |-> buf]
           n == Len(b)
           f == CHOOSE f : IsReceiveRun(f, s, b, n)
<1>0. n \in Nat /\ \A i \in 1 .. n : b[i] \in StreamEvs /\ i \in DOMAIN b
  OBVIOUS
<1>1. f = [i \in 0 .. n |-> IF i = 0 THEN s ELSE onEvent(f[i - 1], b[i])]
  <2>1. IsReceiveRun(f, s, b, n)
    BY <1>0, ReceiveRun
  <2> HIDE DEF f
  <2> QED BY <2>1 DEF IsReceiveRun
<1>2. Receive(b) = f[n]
  BY DEF Receive, IsReceiveRun
<1>s. AppSound(s) /\ s.live = live
  BY DEF AppSound
<1> HIDE DEF f, n, s
<1>3. f[0] = s /\ \A i \in 0 .. (n - 1) : f[i + 1] = onEvent(f[i], b[i + 1])
  <2>1. 0 \in 0 .. n /\ \A i \in 0 .. (n - 1) : i + 1 \in 0 .. n /\ i + 1 # 0 /\ (i + 1) - 1 = i
    BY <1>0
  <2> QED BY <1>1, <2>1
<1> DEFINE T == {i \in 0 .. n : Heard(f[i], b, i)}
<1>4. 0 \in T
  <2>1. Heard(f[0], b, 0)
    BY <1>3, <1>s DEF Heard
  <2> QED BY <1>0, <2>1
<1>5. ASSUME NEW i \in 0 .. (n - 1), i \in T PROVE i + 1 \in T
  <2> DEFINE x == f[i]
             e == b[i + 1]
             y == onEvent(x, e)
  <2>1. /\ Heard(x, b, i) /\ e \in StreamEvs /\ i + 1 \in DOMAIN b
        /\ i + 1 \in 0 .. n /\ f[i + 1] = y
    BY <1>0, <1>3, <1>5
  <2>2. \A t \in Tools, ev \in {"ACTIVITY_SNAPSHOT", "tool-meta"} : e.ev = ev /\ e.t = t => Tells(b, ev, t)
    BY <2>1 DEF Tells
  <2>3. e.ev = "tool-meta" => e.t \in Tools
    BY <2>1 DEF StreamEvs, MessageEvs, RunEvs, ToolEvs
  <2> HIDE DEF x, e, T
  <2>4. AppSound(y) /\ Follows(y.live, x.live, e)
    BY <2>1, EventReceived DEF Heard
  <2> HIDE DEF y
  <2>5. y.live.sub \subseteq live.sub \cup {t \in Tools : Tells(b, "ACTIVITY_SNAPSHOT", t)}
    BY <2>1, <2>2, <2>4 DEF Heard, Follows
  <2>6. ASSUME NoGeneric(live),
               \A t \in Tools : Tells(b, "tool-meta", t) => t \notin live.sub /\ ~Tells(b, "ACTIVITY_SNAPSHOT", t)
        PROVE  NoGeneric(y.live)
    <3>1. NoGeneric(x.live)
      BY <2>1, <2>6 DEF Heard
    <3>2. e.ev = "tool-meta" => e.t \notin x.live.sub
      BY <2>1, <2>2, <2>3, <2>6 DEF Heard
    <3> QED BY <2>4, <3>1, <3>2 DEF Follows
  <2>7. Heard(y, b, i + 1)
    BY <2>4, <2>5, <2>6 DEF Heard
  <2> QED BY <2>1, <2>7 DEF T
<1>6. \A i \in 0 .. n : i \in T
  <2> HIDE DEF T
  <2> QED BY <1>0, <1>4, <1>5, UpTo
<1>7. n \in T
  BY <1>0, <1>6
<1> QED BY <1>2, <1>7 DEF n

\* The start of a run clears what was live.
LEMMA StartReceived ==
    ASSUME LiveGood(live), buf \in Seq(ContentEvs), NEW b \in Seq(StreamEvs), Len(b) = 1, Starts(b)
    PROVE  AppSound(Receive(b)) /\ Receive(b).live.sub = {} /\ NoGeneric(Receive(b).live)
<1> DEFINE s == [live |-> live, buf |-> buf]
           e == b[1]
<1>1. AppSound(s)
  BY DEF AppSound
<1>2. e \in StreamEvs /\ e.ev = "RUN_STARTED"
  BY DEF Starts
<1> HIDE DEF s, e
<1>3. AppSound(onEvent(s, e)) /\ Follows(onEvent(s, e).live, s.live, e)
  BY <1>1, <1>2, EventReceived
<1>4. Receive(b) = onEvent(s, e)
  BY ReceiveOne DEF s, e
<1> QED BY <1>2, <1>3, <1>4 DEF Follows

\* So does a snapshot with the rows it puts in their place.
LEMMA SnapshotReceived ==
    ASSUME LiveGood(live), buf \in Seq(ContentEvs), NEW m, m.ev = "MESSAGES_SNAPSHOT", SnapshotOf(m.rows)
    PROVE  LET s == Receive(<<m>>)
           IN  /\ AppSound(s) /\ NoGeneric(s.live)
               /\ s.live.sub = live.sub \cup Carded(m.rows)
<1> DEFINE x == Flushed(live, buf)
           y == applyMessagesSnapshot(x, m.rows, m.metas, m.run)
           s == Receive(<<m>>)
<1>1. s = onEvent([live |-> live, buf |-> buf], m)
  <2> DEFINE b == <<m>>
  <2>1. Len(b) = 1 /\ b[1] = m
    OBVIOUS
  <2> HIDE DEF b
  <2>2. Receive(b) = onEvent([live |-> live, buf |-> buf], m)
    BY <2>1, ReceiveOne
  <2> QED BY <2>2 DEF b
<1>2. s = [live |-> y, buf |-> <<>>]
  <2>1. reduceThreadState(x, m) = y
    BY DEF reduceThreadState
  <2> HIDE DEF x, y
  <2> QED BY <1>1, <2>1 DEF onEvent, x
<1>3. Keeps(x, live)
  BY FlushKeeps
<1> HIDE DEF x
<1>4. LiveGood(y) /\ y.sub = x.sub \cup Carded(m.rows) /\ NoGeneric(y)
  BY <1>3, SnapshotGood DEF Keeps
<1> HIDE DEF y, s
<1>5. s.live = y /\ s.buf = <<>> /\ DOMAIN s = {"live", "buf"}
  BY <1>2
<1>6. AppSound(s) /\ NoGeneric(s.live) /\ s.live.sub = live.sub \cup Carded(m.rows)
  BY <1>3, <1>4, <1>5 DEF AppSound, Keeps
<1> QED BY <1>6 DEF s

-----------------------------------------------------------------------------
(* The session's timeline. *)

LEMMA FullTextTyped ==
    ASSUME NEW e \in Entries
    PROVE  FullText(e) \in Texts
<1> DEFINE ss == [i \in DOMAIN e.st |-> IF e.st[i] \in Range(e.text) THEN <<>> ELSE <<e.st[i]>>]
<1>1. e.text \in Texts /\ e.st \in Texts
  BY DEF Entries
<1>2. ss \in Seq(Seq(Nat))
  <2> DEFINE n == Len(e.st)
             part(i) == IF e.st[i] \in Range(e.text) THEN <<>> ELSE <<e.st[i]>>
  <2>1. n \in Nat /\ DOMAIN e.st = 1 .. n /\ \A i \in 1 .. n : e.st[i] \in Nat
    BY <1>1 DEF Texts
  <2>2. ss = [i \in 1 .. n |-> part(i)]
    BY <2>1
  <2>3. \A i \in 1 .. n : part(i) \in Seq(Nat)
    BY <2>1
  <2> HIDE DEF part, n, ss
  <2> QED BY <2>1, <2>2, <2>3
<1>3. FullText(e) = e.text \o FlattenSeq(ss)
  BY DEF FullText
<1> HIDE DEF ss
<1>4. FlattenSeq(ss) \in Seq(Nat)
  BY <1>2, FlattenFrom
<1> QED BY <1>1, <1>3, <1>4 DEF Texts

\* What a row of a snapshot says of the entry it comes from.
RowFor(m, e) ==
    /\ m \in Rows
    /\ m.role = "tool" => m.id = ResId(m.call)
    /\ m.role = "activity" => e.kind = "tool" /\ e.sub /\ m.call = e.n
    /\ m.id[2] = e.n
    /\ m.id[1] = "m" <=> e.kind # "tool"

LEMMA EntryRows ==
    ASSUME NEW e \in Entries, NEW n, EntryOfKind(e, n)
    PROVE  /\ SnapshotRows(e) \in Seq(Rows)
           /\ \A k \in DOMAIN SnapshotRows(e) : RowFor(SnapshotRows(e)[k], e)
           /\ \A j, k \in DOMAIN SnapshotRows(e) : SnapshotRows(e)[j].id[1] = SnapshotRows(e)[k].id[1] => j = k
<1> DEFINE RowRecs == [id : AnyIds, role : MessageRoles \cup {"tool", "activity"}, text : Texts,
                       pend : {"on", "off", "unset"}, call : Tools \cup {0}]
<1>0. e.text \in Texts /\ FullText(e) \in Texts /\ <<>> \in Texts /\ e.n \in Nat
  BY FullTextTyped DEF Entries, Texts
<1>1. CASE e.kind # "tool"
  <2> DEFINE m == Row(MsgId(e.n), RoleOf(e.kind), e.text, "unset", 0)
  <2>1. SnapshotRows(e) = <<m>>
    BY <1>1 DEF SnapshotRows
  <2>2. RoleOf(e.kind) \in MessageRoles
    <3>1. e.kind \in {"user", "text", "thought"}
      BY <1>1 DEF Entries
    <3> QED BY <3>1 DEF RoleOf, MessageRoles
  <2>3. MsgId(e.n) \in MsgIds
    BY <1>0 DEF MsgIds
  <2>4. m \in RowRecs /\ m.id = MsgId(e.n) /\ m.role \in MessageRoles /\ m.call = 0
    BY <1>0, <2>2, <2>3, IdTypes DEF Row
  <2> HIDE DEF m
  <2>5. m \in Rows
    BY <2>3, <2>4 DEF Rows, RowOfKind
  <2>6. m.id[1] = "m" /\ m.id[2] = e.n
    BY <2>4, IdParts
  <2>7. m.role # "tool" /\ m.role # "activity"
    BY <2>4 DEF MessageRoles
  <2>8. RowFor(m, e)
    BY <1>1, <2>5, <2>6, <2>7 DEF RowFor
  <2> QED BY <2>1, <2>5, <2>8
<1>2. CASE e.kind = "tool" /\ e.sub
  <2> DEFINE m == Row(CardId(e.n), "activity", <<>>, "unset", e.n)
  <2>1. SnapshotRows(e) = <<m>>
    BY <1>2 DEF SnapshotRows
  <2>2. e.n \in Tools
    BY <1>2 DEF EntryOfKind
  <2>3. m \in Rows
    BY <2>2, CardRow
  <2>4. m.id = CardId(e.n) /\ m.role = "activity" /\ m.call = e.n
    BY DEF Row
  <2> HIDE DEF m
  <2>5. m.id[1] = "card" /\ m.id[2] = e.n
    BY <2>4, IdParts
  <2>6. RowFor(m, e)
    BY <1>2, <2>3, <2>4, <2>5 DEF RowFor
  <2> QED BY <2>1, <2>3, <2>6
<1>3. CASE e.kind = "tool" /\ ~e.sub
  <2> DEFINE m == Row(CallId(e.n), "assistant", <<>>, "unset", e.n)
             o == Row(ResId(e.n), "tool", FullText(e), "unset", e.n)
  <2>1. SnapshotRows(e) = <<m, o>>
    BY <1>3 DEF SnapshotRows
  <2>2. e.n \in Tools /\ e.n # 0
    BY <1>3 DEF EntryOfKind
  <2>3. m \in RowRecs /\ m.id = CallId(e.n) /\ m.role = "assistant" /\ m.call = e.n
    BY <1>0, <2>2, IdTypes DEF Row, MessageRoles
  <2>4. o \in RowRecs /\ o.id = ResId(e.n) /\ o.role = "tool" /\ o.call = e.n
    <3>1. ResId(e.n) \in AnyIds
      BY <2>2, IdTypes DEF ResultIds
    <3> QED BY <1>0, <2>2, <3>1 DEF Row
  <2> HIDE DEF m, o
  <2>5. m \in Rows
    BY <2>2, <2>3 DEF Rows, RowOfKind
  <2>6. o \in Rows
    BY <2>2, <2>4 DEF Rows, RowOfKind, ResultIds
  <2>7. m.id[1] = "call" /\ m.id[2] = e.n /\ o.id[1] = "res" /\ o.id[2] = e.n
    BY <2>3, <2>4, IdParts
  <2>8. RowFor(m, e) /\ RowFor(o, e)
    BY <1>3, <2>3, <2>4, <2>5, <2>6, <2>7 DEF RowFor
  <2> DEFINE s == <<m, o>>
  <2>9. s \in Seq(Rows) /\ DOMAIN s = {1, 2} /\ s[1] = m /\ s[2] = o
    BY <2>5, <2>6
  <2> HIDE DEF s
  <2>10. \A k \in DOMAIN s : RowFor(s[k], e)
    BY <2>8, <2>9
  <2>11. \A j, k \in DOMAIN s : s[j].id[1] = s[k].id[1] => j = k
    BY <2>7, <2>9
  <2> QED BY <2>1, <2>9, <2>10, <2>11 DEF s
<1> QED BY <1>1, <1>2, <1>3

\* The timeline as a snapshot has it.
LEMMA EnvelopeOfTimeline ==
    ASSUME TimelineOf(timeline, used.msgs), NEW r
    PROVE  LET m == messages_snapshot_envelope(r)
           IN  /\ m.ev = "MESSAGES_SNAPSHOT" /\ SnapshotOf(m.rows)
               /\ \A t \in Carded(m.rows) : IsTask(timeline, t)
<1> DEFINE n == Len(timeline)
           ss == [i \in DOMAIN timeline |-> SnapshotRows(timeline[i])]
           rows == FlattenSeq(ss)
<1>1. messages_snapshot_envelope(r).ev = "MESSAGES_SNAPSHOT" /\ messages_snapshot_envelope(r).rows = rows
  BY DEF messages_snapshot_envelope
<1>2. n \in Nat /\ DOMAIN timeline = 1 .. n /\ \A i \in 1 .. n : timeline[i] \in Entries /\ EntryOfKind(timeline[i], used.msgs)
  BY DEF TimelineOf
<1>3. /\ ss \in Seq(Seq(Rows)) /\ DOMAIN ss = 1 .. n /\ Len(ss) = n
      /\ \A i \in 1 .. n : ss[i] = SnapshotRows(timeline[i])
  <2>1. ss = [i \in 1 .. n |-> SnapshotRows(timeline[i])]
    BY <1>2
  <2>2. \A i \in 1 .. n : SnapshotRows(timeline[i]) \in Seq(Rows)
    BY <1>2, EntryRows
  <2> HIDE DEF ss, n
  <2> QED BY <1>2, <2>1, <2>2
<1> HIDE DEF ss, n
<1>4. ASSUME NEW a \in 1 .. n
      PROVE  /\ \A k \in DOMAIN ss[a] : RowFor(ss[a][k], timeline[a])
             /\ \A j, k \in DOMAIN ss[a] : ss[a][j].id[1] = ss[a][k].id[1] => j = k
  BY <1>2, <1>3, EntryRows
<1>5. Apart(ss)
  <2> SUFFICES ASSUME NEW a \in 1 .. n, NEW b \in 1 .. n, NEW k \in DOMAIN ss[a], NEW m \in DOMAIN ss[b],
                      ss[a][k].id = ss[b][m].id
               PROVE a = b /\ k = m
    BY <1>3 DEF Apart
  <2> DEFINE x == ss[a][k]
             y == ss[b][m]
  <2>1. RowFor(x, timeline[a]) /\ RowFor(y, timeline[b]) /\ x.id = y.id
    BY <1>4
  <2> HIDE DEF x, y
  <2>2. timeline[a].n = timeline[b].n /\ (timeline[a].kind = "tool" <=> timeline[b].kind = "tool")
    BY <2>1 DEF RowFor
  <2>3. a = b
    BY <1>2, <2>2 DEF TimelineOf
  <2>4. ss[a][k].id[1] = ss[a][m].id[1]
    BY <2>1, <2>3 DEF x, y
  <2> QED BY <1>4, <2>3, <2>4
<1>6. rows \in Seq(Rows) /\ Distinct(rows) /\ FromFirst(rows, ss, n)
  BY <1>3, <1>5, FlattenFrom
<1>7. ASSUME NEW i \in DOMAIN rows PROVE \E a \in 1 .. n : RowFor(rows[i], timeline[a])
  <2>1. PICK a \in 1 .. n : \E k \in DOMAIN ss[a] : rows[i] = ss[a][k]
    BY <1>6 DEF FromFirst
  <2> HIDE DEF rows
  <2> QED BY <1>4, <2>1
<1> HIDE DEF rows
<1>8. SnapshotOf(rows)
  BY <1>6, <1>7 DEF SnapshotOf, RowFor
<1>9. \A t \in Carded(rows) : IsTask(timeline, t)
  <2> TAKE t \in Carded(rows)
  <2>1. PICK i \in DOMAIN rows : rows[i].role = "activity" /\ rows[i].call = t
    BY DEF Carded
  <2>2. PICK a \in 1 .. n : RowFor(rows[i], timeline[a])
    BY <1>7
  <2> QED BY <1>2, <2>1, <2>2 DEF RowFor, IsTask
<1> QED BY <1>1, <1>8, <1>9

LEMMA TimelineGrows ==
    ASSUME NEW tl, NEW msgs \in Nat, TimelineOf(tl, msgs), NEW msgs2 \in Nat, msgs <= msgs2,
           NEW e \in Entries, EntryOfKind(e, msgs2),
           \A i \in DOMAIN tl : ~(tl[i].n = e.n /\ (tl[i].kind = "tool" <=> e.kind = "tool"))
    PROVE  /\ TimelineOf(Append(tl, e), msgs2)
           /\ \A t : IsTask(tl, t) => IsTask(Append(tl, e), t)
           /\ e.kind = "tool" /\ e.sub => IsTask(Append(tl, e), e.n)
<1> DEFINE n == Len(tl)
           r == Append(tl, e)
<1>1. /\ n \in Nat /\ DOMAIN tl = 1 .. n /\ r \in Seq(Entries) /\ DOMAIN r = 1 .. (n + 1)
      /\ r[n + 1] = e /\ \A i \in 1 .. n : r[i] = tl[i]
  BY DEF TimelineOf
<1>2. \A i \in 1 .. (n + 1) : i \in 1 .. n \/ i = n + 1
  BY <1>1
<1> HIDE DEF n, r
<1>3. \A i \in 1 .. n : EntryOfKind(r[i], msgs2)
  BY <1>1 DEF TimelineOf, EntryOfKind
<1>4. TimelineOf(r, msgs2)
  BY <1>1, <1>2, <1>3 DEF TimelineOf
<1>5. \A t : IsTask(tl, t) => IsTask(r, t)
  <2>1. \A i \in 1 .. n : i \in 1 .. (n + 1)
    BY <1>1
  <2> QED BY <1>1, <2>1 DEF IsTask
<1>6. e.kind = "tool" /\ e.sub => IsTask(r, e.n)
  <2>1. n + 1 \in 1 .. (n + 1)
    BY <1>1
  <2> QED BY <1>1, <2>1 DEF IsTask
<1> QED BY <1>4, <1>5, <1>6 DEF r

LEMMA TimelineChanges ==
    ASSUME NEW tl, NEW msgs \in Nat, TimelineOf(tl, msgs), NEW tl2, DOMAIN tl2 = DOMAIN tl, tl2 \in Seq(Entries),
           \A i \in DOMAIN tl : /\ tl2[i].kind = tl[i].kind /\ tl2[i].n = tl[i].n
                                /\ tl[i].sub => tl2[i].sub
                                /\ tl2[i].sub => tl[i].sub \/ tl[i].kind = "tool"
    PROVE  TimelineOf(tl2, msgs) /\ \A t : IsTask(tl, t) => IsTask(tl2, t)
<1>1. \A i \in DOMAIN tl2 : EntryOfKind(tl2[i], msgs)
  BY DEF TimelineOf, EntryOfKind
<1> QED BY <1>1 DEF TimelineOf, IsTask

\* The entry of a call is the only one.
LEMMA OneTool ==
    ASSUME NEW tl, NEW msgs, TimelineOf(tl, msgs), NEW i \in DOMAIN tl, tl[i].kind = "tool", ~tl[i].sub
    PROVE  ~IsTask(tl, tl[i].n)
BY DEF TimelineOf, IsTask

-----------------------------------------------------------------------------
(* The batches of the projector. *)

LEMMA WhenTyped ==
    ASSUME NEW S, NEW s \in Seq(S), NEW b
    PROVE  When(b, s) \in Seq(S)
BY DEF When

LEMMA Joined ==
    ASSUME NEW S, NEW s \in Seq(S), NEW u \in Seq(S)
    PROVE  s \o u \in Seq(S)
OBVIOUS

LEMMA Single ==
    ASSUME NEW S, NEW x \in S
    PROVE  <<x>> \in Seq(S)
OBVIOUS

\* What of text u comes after as much of it as text s is long.
LEMMA RestOf ==
    ASSUME NEW s \in Texts, NEW u \in Texts
    PROVE  SubSeq(u, Len(s) + 1, Len(u)) \in Texts
<1>1. Len(s) + 1 \in Nat \ {0} /\ Len(u) \in Nat
  BY DEF Texts
<1>2. ASSUME NEW m \in Nat \ {0}, NEW n \in Nat, n = Len(u) PROVE SubSeq(u, m, n) \in Seq(Nat)
  <2>1. \A i \in m .. n : u[i] \in Nat
    BY <1>2 DEF Texts
  <2>2. SubSeq(u, m, n) = [i \in 1 .. (1 + n - m) |-> u[i + m - 1]]
    OBVIOUS
  <2> QED BY <2>1, <2>2
<1> QED BY <1>1, <1>2 DEF Texts

\* The events of a call: its card if it is a sub-agent's, its metadata if not.
ToolEvsOf(t, sub) ==
    {x \in ToolEvs : /\ x.t = t
                     /\ x.ev = "ACTIVITY_SNAPSHOT" => sub
                     /\ x.ev = "tool-meta" => ~sub}

LEMMA ToolEvTyped ==
    ASSUME run \in 1 .. MaxRuns, NEW t \in Tools, NEW sub, NEW text \in Texts, NEW status \in Statuses,
           NEW ev \in {"TOOL_CALL_START", "TOOL_CALL_ARGS", "TOOL_CALL_END", "TOOL_CALL_RESULT",
                       "tool-meta", "tool-text", "tool-content", "ACTIVITY_SNAPSHOT"},
           ev = "ACTIVITY_SNAPSHOT" => sub, ev = "tool-meta" => ~sub
    PROVE  ToolEv(ev, t, text, status) \in ToolEvsOf(t, sub)
BY DEF ToolEv, ToolEvs, ToolEvsOf

LEMMA ToolBatch ==
    ASSUME proj \in Projs, run \in 1 .. MaxRuns, NEW t \in Tools, NEW e \in Entries
    PROVE  ToolEvents(t, e) \in Seq(ToolEvsOf(t, proj.tools[t].sub \/ e.sub))
<1> DEFINE s == proj.tools[t]
           sub == s.sub \/ e.sub
           S == ToolEvsOf(t, sub)
           a1 == ToolEv("TOOL_CALL_START", t, <<>>, "")
           a2 == ToolEv("TOOL_CALL_ARGS", t, <<>>, "")
           a3 == ToolEv("TOOL_CALL_END", t, <<>>, "")
           a4 == ToolEv("ACTIVITY_SNAPSHOT", t, <<>>, "")
           a5 == ToolEv("tool-meta", t, <<>>, MetaOf(e))
           rest == SubSeq(e.text, Len(s.text) + 1, Len(e.text))
           a6 == ToolEv("TOOL_CALL_RESULT", t, rest, "")
           a7 == ToolEv("tool-text", t, e.text, "")
           a8 == ToolEv("tool-content", t, e.st, "")
           b1 == When(~s.started /\ ~sub, <<a1, a2>>)
           b2 == When(e.done /\ ~s.ended /\ ~sub, <<a3>>)
           b3 == When(sub, <<a4>>)
           b4 == When(~sub /\ s.meta # MetaOf(e), <<a5>>)
           b5 == When(~sub /\ e.text # s.text, IF e.done /\ IsPrefix(s.text, e.text) THEN <<a6>> ELSE <<a7>>)
           b6 == When(~sub /\ e.st # s.st, <<a8>>)
<1>1. ToolEvents(t, e) = b1 \o b2 \o b3 \o b4 \o b5 \o b6
  BY DEF ToolEvents
<1>2. e.text \in Texts /\ e.st \in Texts /\ <<>> \in Texts /\ "" \in Statuses /\ MetaOf(e) \in Statuses
  BY DEF Entries, Texts, MetaOf, Statuses
<1>3. rest \in Texts
  <2>1. s \in ToolProjs
    BY DEF Projs
  <2>2. s.text \in Texts
    BY <2>1 DEF ToolProjs
  <2> QED BY <1>2, <2>2, RestOf
<1> HIDE DEF rest
<1>4. a1 \in S /\ a2 \in S /\ a3 \in S
  BY <1>2, ToolEvTyped
<1>5. ASSUME sub PROVE a4 \in S
  BY <1>2, <1>5, ToolEvTyped
<1>6. ASSUME ~sub PROVE a5 \in S
  BY <1>2, <1>6, ToolEvTyped
<1>7. a6 \in S /\ a7 \in S /\ a8 \in S
  BY <1>2, <1>3, ToolEvTyped
<1> HIDE DEF S, a1, a2, a3, a4, a5, a6, a7, a8, sub, s
<1>8. <<>> \in Seq(S)
  OBVIOUS
<1>9. b1 \in Seq(S) /\ b2 \in Seq(S)
  <2>1. <<a1, a2>> \in Seq(S) /\ <<a3>> \in Seq(S)
    BY <1>4
  <2> QED BY <1>8, <2>1 DEF When
<1>10. b3 \in Seq(S)
  BY <1>5, <1>8 DEF When
<1>11. b4 \in Seq(S)
  BY <1>6, <1>8 DEF When
<1>12. b5 \in Seq(S) /\ b6 \in Seq(S)
  <2>1. <<a6>> \in Seq(S) /\ <<a7>> \in Seq(S) /\ <<a8>> \in Seq(S)
    BY <1>7
  <2> QED BY <1>8, <2>1 DEF When
<1> HIDE DEF b1, b2, b3, b4, b5, b6
<1>13. b1 \o b2 \o b3 \o b4 \o b5 \o b6 \in Seq(S)
  BY <1>9, <1>10, <1>11, <1>12, Joined
<1> QED BY <1>1, <1>13 DEF S, sub, s

LEMMA MessageEvTyped ==
    ASSUME run \in 1 .. MaxRuns, NEW id \in MsgIds, NEW role \in MessageRoles, NEW text \in Texts,
           NEW ev \in {"MESSAGE_START", "MESSAGE_CONTENT", "MESSAGE_END"}
    PROVE  Ev(ev, id, role, text) \in MessageEvs
BY DEF Ev, MessageEvs

LEMMA MessageBatch ==
    ASSUME proj \in Projs, run \in 1 .. MaxRuns, NEW kind \in {"text", "thought"}, NEW id \in MsgIds,
           NEW text \in Texts
    PROVE  MessageEvents(kind, id, text) \in Seq(MessageEvs) /\ MessageEvents(kind, id, text) # <<>>
<1> DEFINE prev == proj[kind]
           role == RoleOf(kind)
           a1 == Ev("MESSAGE_END", proj.user, "user", <<>>)
           a2 == Ev("MESSAGE_END", prev, role, <<>>)
           a3 == Ev("MESSAGE_START", id, role, <<>>)
           a4 == Ev("MESSAGE_CONTENT", id, role, text)
           b1 == When(kind = "text" /\ proj.user # NoId, <<a1>>)
           b2 == When(prev # NoId, <<a2>>)
           b3 == When(prev # id, b2 \o <<a3>>)
<1>1. MessageEvents(kind, id, text) = b1 \o b3 \o <<a4>>
  BY DEF MessageEvents
<1>2. proj.user \in MsgIds \cup {NoId} /\ prev \in MsgIds \cup {NoId}
  BY DEF Projs
<1>3. role \in MessageRoles /\ "user" \in MessageRoles /\ <<>> \in Texts
  BY DEF RoleOf, MessageRoles, Texts
<1> HIDE DEF prev, role
<1>4. a3 \in MessageEvs /\ a4 \in MessageEvs
  BY <1>3, MessageEvTyped
<1>5. ASSUME proj.user # NoId PROVE a1 \in MessageEvs
  BY <1>2, <1>3, <1>5, MessageEvTyped
<1>6. ASSUME prev # NoId PROVE a2 \in MessageEvs
  BY <1>2, <1>3, <1>6, MessageEvTyped
<1> HIDE DEF a1, a2, a3, a4
<1>7. b1 \in Seq(MessageEvs) /\ b2 \in Seq(MessageEvs)
  BY <1>5, <1>6 DEF When
<1> HIDE DEF b2
<1>8. b3 \in Seq(MessageEvs)
  BY <1>4, <1>7, WhenTyped, Joined, Single
<1> HIDE DEF b1, b3
<1>9. b1 \o b3 \o <<a4>> \in Seq(MessageEvs) /\ b1 \o b3 \o <<a4>> # <<>>
  BY <1>4, <1>7, <1>8
<1> QED BY <1>1, <1>9

\* The calls that close_run goes through, in some order.
LEMMA ListedTools ==
    ASSUME IsFiniteSet(Tools)
    PROVE  \A i \in 1 .. Cardinality(Tools) : SetToSeq(Tools)[i] \in Tools
<1>1. ExistsBijection(1 .. Cardinality(Tools), Tools)
  BY FS_CardinalityType
<1>2. PICK f \in Bijection(1 .. Cardinality(Tools), Tools) : TRUE
  BY <1>1 DEF ExistsBijection
<1>3. f \in [1 .. Cardinality(Tools) -> Tools] /\ IsInjective(f)
  BY <1>2 DEF Bijection, Injection, IsInjective
<1>4. SetToSeq(Tools) \in [1 .. Cardinality(Tools) -> Tools]
  BY <1>3 DEF SetToSeq
<1> QED BY <1>4

ClosingEvs == {x \in MessageEvs \cup ToolEvs : x.ev \in {"MESSAGE_END", "TOOL_CALL_END"}}

LEMMA CloseBatch ==
    ASSUME proj \in Projs, run \in 1 .. MaxRuns, IsFiniteSet(Tools)
    PROVE  CloseEvents \in Seq(ClosingEvs)
<1> DEFINE n == Cardinality(Tools)
           M(id, role) == Ev("MESSAGE_END", id, role, <<>>)
           Open(t) == proj.tools[t].started /\ ~proj.tools[t].ended /\ ~proj.tools[t].sub
           Tail1(t) == When(Open(t), <<ToolEv("TOOL_CALL_END", t, <<>>, "")>>)
           ts == [i \in 1 .. n |-> LET t == SetToSeq(Tools)[i] IN Tail1(t)]
           b1 == When(proj.user # NoId, <<M(proj.user, "user")>>)
           b2 == When(proj.text # NoId, <<M(proj.text, "assistant")>>)
           b3 == When(proj.thought # NoId, <<M(proj.thought, "reasoning")>>)
<1>1. CloseEvents = b1 \o b2 \o b3 \o FlattenSeq(ts)
  BY DEF CloseEvents
<1>2. /\ proj.user \in MsgIds \cup {NoId} /\ proj.text \in MsgIds \cup {NoId}
      /\ proj.thought \in MsgIds \cup {NoId}
  BY DEF Projs
<1>3. <<>> \in Texts /\ "" \in Statuses
  BY DEF Texts, Statuses
<1>4. ASSUME NEW id \in MsgIds, NEW role \in MessageRoles PROVE M(id, role) \in ClosingEvs
  <2>1. M(id, role) \in MessageEvs
    BY <1>3, MessageEvTyped
  <2>2. M(id, role).ev = "MESSAGE_END"
    BY DEF Ev
  <2> QED BY <2>1, <2>2 DEF ClosingEvs
<1>5. b1 \in Seq(ClosingEvs) /\ b2 \in Seq(ClosingEvs) /\ b3 \in Seq(ClosingEvs)
  <2>1. {"user", "assistant", "reasoning"} \subseteq MessageRoles
    BY DEF MessageRoles
  <2> HIDE DEF M
  <2> QED BY <1>2, <1>4, <2>1 DEF When
<1>6. n \in Nat
  BY FS_CardinalityType
<1>7. ASSUME NEW t \in Tools PROVE Tail1(t) \in Seq(ClosingEvs)
  <2>1. ToolEv("TOOL_CALL_END", t, <<>>, "") \in ToolEvsOf(t, FALSE)
    BY <1>3, ToolEvTyped
  <2>2. ToolEv("TOOL_CALL_END", t, <<>>, "") \in ClosingEvs
    BY <2>1 DEF ClosingEvs, ToolEvsOf, ToolEv
  <2> QED BY <2>2, WhenTyped, Single
<1>8. \A i \in 1 .. n : SetToSeq(Tools)[i] \in Tools
  BY ListedTools
<1>9. FlattenSeq(ts) \in Seq(ClosingEvs)
  <2> HIDE DEF Tail1, n
  <2>1. \A i \in 1 .. n : Tail1(SetToSeq(Tools)[i]) \in Seq(ClosingEvs)
    BY <1>7, <1>8
  <2>2. ts \in Seq(Seq(ClosingEvs))
    BY <1>6, <2>1
  <2> HIDE DEF ts
  <2> QED BY <2>2, FlattenFrom
<1> HIDE DEF b1, b2, b3, ts
<1>10. b1 \o b2 \o b3 \o FlattenSeq(ts) \in Seq(ClosingEvs)
  BY <1>5, <1>9, Joined
<1> QED BY <1>1, <1>10

-----------------------------------------------------------------------------
(* The session's steps. *)

LEMMA Pushing ==
    ASSUME NEW S, NEW s \in Seq(S), NEW b \in S, NEW c \in S
    PROVE  LET n == Len(s)
               r == Append(s, b)
               q == s \o <<b, c>>
           IN  /\ n \in Nat /\ DOMAIN s = 1 .. n /\ (s = <<>> <=> n = 0)
               /\ r \in Seq(S) /\ Len(r) = n + 1 /\ DOMAIN r = 1 .. (n + 1) /\ r # <<>>
               /\ r[n + 1] = b /\ \A i \in 1 .. n : r[i] = s[i]
               /\ q \in Seq(S) /\ Len(q) = n + 2 /\ DOMAIN q = 1 .. (n + 2) /\ q # <<>>
               /\ q[n + 1] = b /\ q[n + 2] = c /\ \A i \in 1 .. n : q[i] = s[i]
<1> DEFINE n == Len(s)
           r == Append(s, b)
           q == s \o <<b, c>>
<1>1. n \in Nat /\ DOMAIN s = 1 .. n /\ (s = <<>> <=> n = 0)
  OBVIOUS
<1>2. r \in Seq(S) /\ Len(r) = n + 1 /\ DOMAIN r = 1 .. (n + 1) /\ r # <<>>
  OBVIOUS
<1>3. r[n + 1] = b /\ \A i \in 1 .. n : r[i] = s[i]
  OBVIOUS
<1>4. q \in Seq(S) /\ Len(q) = n + 2 /\ DOMAIN q = 1 .. (n + 2) /\ q # <<>>
  OBVIOUS
<1>5. q[n + 1] = b /\ q[n + 2] = c /\ \A i \in 1 .. n : q[i] = s[i]
  OBVIOUS
<1> QED BY <1>1, <1>2, <1>3, <1>4, <1>5

\* An update of the running turn joins the ones on their way.
LEMMA Pushed ==
    ASSUME FeedInv, Hidden, run # 0, Len(feed) < MaxLag, MaxLag \in Nat,
           NEW b \in Seq(StreamEvs), feed' = Append(feed, b), ~Starts(b), run' # 0 => ~Ends(b),
           \A t : IsTask(timeline, t) => IsTask(timeline', t),
           \A t : Tells(b, "ACTIVITY_SNAPSHOT", t) => IsTask(timeline', t),
           \A t : Tells(b, "tool-meta", t) => ~IsTask(timeline', t),
           UNCHANGED <<live, ahead, owed>>
    PROVE  FeedInv' /\ Hidden'
<1> DEFINE n == Len(feed)
<1>1. /\ n \in Nat /\ DOMAIN feed = 1 .. n /\ feed' \in Seq(Seq(StreamEvs)) /\ Len(feed') = n + 1
      /\ DOMAIN feed' = 1 .. (n + 1) /\ feed' # <<>> /\ (feed = <<>> <=> n = 0)
      /\ feed'[n + 1] = b /\ \A i \in 1 .. n : feed'[i] = feed[i]
  <2>1. feed \in Seq(Seq(StreamEvs))
    BY DEF FeedInv
  <2> QED BY <2>1, Pushing
<1>2. /\ \A i \in 1 .. (n + 1) : i \in 1 .. n \/ i = n + 1
      /\ \A i \in 1 .. (n + 1) : i > 1 => i - 1 \in 1 .. n
      /\ n # 0 => n \in 1 .. n /\ 1 \in 1 .. n
  BY <1>1
<1>3. Len(feed') <= MaxLag + 1
  BY <1>1
<1> HIDE DEF n
<1>4. FeedOrder'
  <2>1. \A i \in DOMAIN feed' : Starts(feed'[i]) => Len(feed'[i]) = 1
    <3>1. \A i \in 1 .. n : Starts(feed[i]) => Len(feed[i]) = 1
      BY <1>1 DEF FeedInv, FeedOrder
    <3> QED BY <1>1, <1>2, <3>1
  <2>0. \A i \in DOMAIN feed' : i \in 1 .. (n + 1)
    BY <1>1
  <2>2. ASSUME NEW i \in DOMAIN feed', i > 1, Ends(feed'[i - 1]) PROVE Starts(feed'[i])
    <3>1. CASE i \in 1 .. n
      BY <1>1, <1>2, <2>2, <3>1 DEF FeedInv, FeedOrder
    <3>2. CASE i = n + 1
      <4>1. i - 1 = n /\ n # 0 /\ feed'[n] = feed[n]
        BY <1>1, <1>2, <2>2, <3>2
      <4>2. ~Ends(feed[n])
        BY <1>1, <4>1 DEF FeedInv, FeedOrder, n
      <4> QED BY <2>2, <4>1, <4>2
    <3> QED BY <1>2, <2>0, <3>1, <3>2
  <2>3. owed' # 0 /\ feed' # <<>> => Starts(feed'[1])
    <3>1. owed # 0 => n # 0
      BY <1>1 DEF FeedInv, FeedOrder
    <3> QED BY <1>1, <1>2, <3>1 DEF FeedInv, FeedOrder
  <2>4. run' # 0 /\ feed' # <<>> => ~Ends(feed'[Len(feed')])
    BY <1>1
  <2>5. feed' # <<>>
    BY <1>1
  <2> QED BY <2>1, <2>2, <2>3, <2>4, <2>5 DEF FeedOrder
<1>5. Announced'
  <2>0. \A i \in DOMAIN feed' : i \in 1 .. (n + 1)
    BY <1>1
  <2>1. ASSUME NEW i \in DOMAIN feed', NEW t \in Tools, Tells(feed'[i], "ACTIVITY_SNAPSHOT", t)
        PROVE  IsTask(timeline', t)
    BY <1>1, <1>2, <2>0, <2>1 DEF FeedInv, Announced
  <2>2. ASSUME NEW i \in DOMAIN feed', NEW j \in i .. Len(feed'), NEW t \in Tools,
               Tells(feed'[i], "ACTIVITY_SNAPSHOT", t)
        PROVE  ~Tells(feed'[j], "tool-meta", t)
    <3>1. CASE j = n + 1
      BY <1>1, <2>1, <2>2, <3>1
    <3>2. CASE j # n + 1
      <4>1. i \in 1 .. n /\ j \in i .. n /\ j \in 1 .. n
        BY <1>1, <2>0, <3>2
      <4> QED BY <1>1, <2>2, <4>1 DEF FeedInv, Announced, n
    <3> QED BY <3>1, <3>2
  <2> QED BY <2>1, <2>2 DEF Announced
<1>6. Hidden'
  <2>1. \A t \in live'.sub : IsTask(timeline', t)
    BY DEF Hidden
  <2>0. \A i \in DOMAIN feed' : i \in 1 .. (n + 1)
    BY <1>1
  <2>2. ASSUME ~ahead', NEW i \in DOMAIN feed', NEW t \in live'.sub, Tells(feed'[i], "tool-meta", t)
        PROVE  \E k \in 1 .. i : Starts(feed'[k])
    <3>1. i # n + 1
      BY <1>1, <2>1, <2>2
    <3>2. i \in 1 .. n
      BY <1>2, <2>0, <3>1
    <3>4. \A k \in 1 .. i : k \in 1 .. n
      BY <1>1, <3>2
    <3>3. PICK k \in 1 .. i : Starts(feed[k])
      BY <1>1, <2>2, <3>2 DEF Hidden
    <3> QED BY <1>1, <3>3, <3>4
  <2> QED BY <2>1, <2>2 DEF Hidden
<1> QED BY <1>1, <1>3, <1>4, <1>5, <1>6 DEF FeedInv

\* The first two batches of a run.
LEMMA Opened ==
    ASSUME FeedInv, Hidden, run = 0, Len(feed) < MaxLag, MaxLag \in Nat, run' # 0,
           NEW b \in Seq(StreamEvs), Len(b) = 1, Starts(b),
           NEW c \in Seq(MessageEvs), ~Starts(c), ~Ends(c),
           feed' = feed \o <<b, c>>,
           \A t : IsTask(timeline, t) => IsTask(timeline', t),
           UNCHANGED <<live, ahead, owed>>
    PROVE  FeedInv' /\ Hidden'
<1> DEFINE n == Len(feed)
<1>0. c \in Seq(StreamEvs)
  BY DEF StreamEvs
<1>1. /\ n \in Nat /\ DOMAIN feed = 1 .. n /\ feed' \in Seq(Seq(StreamEvs)) /\ Len(feed') = n + 2
      /\ DOMAIN feed' = 1 .. (n + 2) /\ feed' # <<>> /\ (feed = <<>> <=> n = 0)
      /\ feed'[n + 1] = b /\ feed'[n + 2] = c /\ \A i \in 1 .. n : feed'[i] = feed[i]
  <2>1. feed \in Seq(Seq(StreamEvs))
    BY DEF FeedInv
  <2> QED BY <1>0, <2>1, Pushing
<1>2. /\ \A i \in 1 .. (n + 2) : i \in 1 .. n \/ i = n + 1 \/ i = n + 2
      /\ \A i \in 1 .. n : i > 1 => i - 1 \in 1 .. n
      /\ n # 0 => n \in 1 .. n /\ 1 \in 1 .. n
  <2>1. n \in Nat
    BY <1>1
  <2> HIDE DEF n
  <2> QED BY <2>1
<1>3. Len(feed') <= MaxLag + 1
  BY <1>1
<1>q. ASSUME NEW t, NEW ev \in {"ACTIVITY_SNAPSHOT", "tool-meta"} PROVE ~Tells(b, ev, t) /\ ~Tells(c, ev, t)
  <2>1. \A k \in DOMAIN c : c[k].ev # ev
    <3>1. \A k \in DOMAIN c : c[k] \in MessageEvs
      OBVIOUS
    <3> QED BY <3>1 DEF MessageEvs
  <2>2. DOMAIN b = {1} /\ b[1].ev = "RUN_STARTED"
    BY DEF Starts
  <2> QED BY <2>1, <2>2 DEF Tells
<1>e. ~Ends(b)
  BY DEF Starts, Ends
<1> HIDE DEF n
<1>4. FeedOrder'
  <2>1. \A i \in DOMAIN feed' : Starts(feed'[i]) => Len(feed'[i]) = 1
    <3>1. \A i \in 1 .. n : Starts(feed[i]) => Len(feed[i]) = 1
      BY <1>1 DEF FeedInv, FeedOrder
    <3> QED BY <1>1, <1>2, <3>1
  <2>0. \A i \in DOMAIN feed' : i \in 1 .. (n + 2)
    BY <1>1
  <2>2. ASSUME NEW i \in DOMAIN feed', i > 1, Ends(feed'[i - 1]) PROVE Starts(feed'[i])
    <3>1. CASE i \in 1 .. n
      BY <1>1, <1>2, <2>2, <3>1 DEF FeedInv, FeedOrder
    <3>2. CASE i = n + 1
      BY <1>1, <3>2
    <3>3. CASE i = n + 2
      <4>1. i - 1 = n + 1
        BY <1>1, <3>3
      <4> QED BY <1>1, <1>e, <2>2, <4>1
    <3> QED BY <1>2, <2>0, <3>1, <3>2, <3>3
  <2>3. owed' # 0 /\ feed' # <<>> => Starts(feed'[1])
    <3>1. CASE n = 0
      BY <1>1, <3>1
    <3>2. CASE n # 0
      BY <1>1, <1>2, <3>2 DEF FeedInv, FeedOrder
    <3> QED BY <3>1, <3>2
  <2>4. run' # 0 /\ feed' # <<>> => ~Ends(feed'[Len(feed')])
    BY <1>1
  <2>5. feed' # <<>>
    BY <1>1
  <2> QED BY <2>1, <2>2, <2>3, <2>4, <2>5 DEF FeedOrder
<1>5. Announced'
  <2>0. \A i \in DOMAIN feed' : i \in 1 .. (n + 2)
    BY <1>1
  <2>1. ASSUME NEW i \in DOMAIN feed', NEW t \in Tools, Tells(feed'[i], "ACTIVITY_SNAPSHOT", t)
        PROVE  i \in 1 .. n /\ IsTask(timeline', t)
    BY <1>1, <1>2, <1>q, <2>0, <2>1 DEF FeedInv, Announced
  <2>2. ASSUME NEW i \in DOMAIN feed', NEW j \in i .. Len(feed'), NEW t \in Tools,
               Tells(feed'[i], "ACTIVITY_SNAPSHOT", t)
        PROVE  ~Tells(feed'[j], "tool-meta", t)
    <3>1. CASE j = n + 1 \/ j = n + 2
      BY <1>1, <1>q, <3>1
    <3>2. CASE j # n + 1 /\ j # n + 2
      <4>1. i \in 1 .. n /\ j \in i .. n /\ j \in 1 .. n
        BY <1>1, <2>0, <3>2
      <4> QED BY <1>1, <2>2, <4>1 DEF FeedInv, Announced, n
    <3> QED BY <3>1, <3>2
  <2> QED BY <2>1, <2>2 DEF Announced
<1>6. Hidden'
  <2>1. \A t \in live'.sub : IsTask(timeline', t)
    BY DEF Hidden
  <2>0. \A i \in DOMAIN feed' : i \in 1 .. (n + 2)
    BY <1>1
  <2>2. ASSUME ~ahead', NEW i \in DOMAIN feed', NEW t \in live'.sub, Tells(feed'[i], "tool-meta", t)
        PROVE  \E k \in 1 .. i : Starts(feed'[k])
    <3>0. ~Tells(b, "tool-meta", t) /\ ~Tells(c, "tool-meta", t)
      BY <1>q
    <3>1. i # n + 1 /\ i # n + 2
      BY <1>1, <2>2, <3>0
    <3>2. i \in 1 .. n
      BY <1>2, <2>0, <3>1
    <3>4. \A k \in 1 .. i : k \in 1 .. n
      BY <1>1, <3>2
    <3>3. PICK k \in 1 .. i : Starts(feed[k])
      BY <1>1, <2>2, <3>2 DEF Hidden
    <3> QED BY <1>1, <3>3, <3>4
  <2> QED BY <2>1, <2>2 DEF Hidden
<1> QED BY <1>1, <1>3, <1>4, <1>5, <1>6 DEF FeedInv

\* Nothing of the app changes with a step of the session.
LEMMA AppStill ==
    ASSUME AppInv, UNCHANGED <<owed, live, buf, reading, ahead>>
    PROVE  AppInv'
BY DEF AppInv

LEMMA EntryTyped ==
    ASSUME NEW kind \in {"user", "text", "thought", "tool"}, NEW n \in Nat, NEW text \in Texts
    PROVE  LET e == Entry(kind, n, text)
           IN  e \in Entries /\ e.kind = kind /\ e.n = n /\ ~e.sub
BY DEF Entry, Entries, Texts

LEMMA UsedGrows ==
    ASSUME UsedInv, NEW r \in Nat, r <= MaxRuns, NEW k \in Nat, NEW m \in Nat
    PROVE  /\ used' = [used EXCEPT !.runs = r, !.toks = k, !.msgs = m]
              => UsedInv' /\ used'.runs = r /\ used'.msgs = m
           /\ used' = [used EXCEPT !.toks = k, !.msgs = m]
              => UsedInv' /\ used'.runs = used.runs /\ used'.msgs = m
           /\ used' = [used EXCEPT !.toks = k] => UsedInv' /\ used'.runs = used.runs /\ used'.msgs = used.msgs
           /\ used' = [used EXCEPT !.reads = k] => UsedInv' /\ used'.runs = used.runs /\ used'.msgs = used.msgs
           /\ used' = [used EXCEPT !.parents = k] => UsedInv' /\ used'.runs = used.runs /\ used'.msgs = used.msgs
           /\ used' = [used EXCEPT !.lost = k] => UsedInv' /\ used'.runs = used.runs /\ used'.msgs = used.msgs
BY DEF UsedInv

LEMMA StartRunKeeps ==
    ASSUME TranscriptAssumption, TranscriptInv, StartRun
    PROVE  TranscriptInv'
<1> DEFINE r == used.runs + 1
           m == used.msgs + 1
           id == MsgId(m)
           E(ev, role, text) == [ev |-> ev, id |-> id, role |-> role, text |-> text, run |-> r]
           b == <<E("RUN_STARTED", "user", <<>>)>>
           c == <<E("MESSAGE_START", "user", <<>>), E("MESSAGE_CONTENT", "user", <<NewTok>>)>>
           e == Entry("user", m, <<NewTok>>)
<1>1. /\ run = 0 /\ used.runs < MaxRuns /\ Len(feed) < MaxLag
      /\ run' = r
      /\ timeline' = Append(timeline, e)
      /\ proj' = [NoProj EXCEPT !.user = id]
      /\ feed' = feed \o <<b, c>>
      /\ used' = [used EXCEPT !.runs = r, !.toks = NewTok, !.msgs = @ + 1]
      /\ UNCHANGED <<owed, live, buf, base, reading, ahead, lost>>
  BY DEF StartRun, Room, app
<1>2. MaxLag \in Nat /\ MaxRuns \in Nat
  BY DEF TranscriptAssumption
<1>3. used.runs \in Nat /\ used.msgs \in Nat /\ NewTok \in Nat
  BY DEF TranscriptInv, UsedInv, NewTok
<1>4. r \in 1 .. MaxRuns /\ m \in Nat /\ m > used.msgs /\ r # 0
  <2>1. used.runs < MaxRuns
    BY <1>1
  <2> QED BY <1>2, <1>3, <2>1
<1>5. UsedInv' /\ used'.runs = r /\ used'.msgs = m
  <2>1. used' = [used EXCEPT !.runs = r, !.toks = NewTok, !.msgs = m]
    BY <1>1
  <2> HIDE DEF r, m
  <2>2. r \in Nat /\ r <= MaxRuns /\ UsedInv
    BY <1>2, <1>4 DEF TranscriptInv
  <2> QED BY <1>3, <1>4, <2>1, <2>2, UsedGrows
<1>6. id \in MsgIds /\ <<>> \in Texts /\ <<NewTok>> \in Texts
  <2> HIDE DEF m
  <2> QED BY <1>3, <1>4 DEF MsgIds, Texts
<1>7. b \in Seq(StreamEvs) /\ Len(b) = 1 /\ Starts(b)
  <2>1. id \in AnyIds
    BY <1>6, IdTypes
  <2> HIDE DEF id, r
  <2>2. E("RUN_STARTED", "user", <<>>) \in RunEvs
    BY <1>4, <1>6, <2>1 DEF RunEvs
  <2>3. E("RUN_STARTED", "user", <<>>) \in StreamEvs
    BY <2>2 DEF StreamEvs
  <2> QED BY <2>3 DEF Starts
<1>8. c \in Seq(MessageEvs) /\ ~Starts(c) /\ ~Ends(c)
  <2> HIDE DEF id, r
  <2>1. E("MESSAGE_START", "user", <<>>) \in MessageEvs /\ E("MESSAGE_CONTENT", "user", <<NewTok>>) \in MessageEvs
    BY <1>4, <1>6 DEF MessageEvs, MessageRoles
  <2>2. c \in Seq(MessageEvs) /\ Len(c) = 2
    BY <2>1
  <2>3. c[1].ev = "MESSAGE_START" /\ c[2].ev = "MESSAGE_CONTENT"
    OBVIOUS
  <2> HIDE DEF c
  <2> QED BY <2>2, <2>3 DEF Starts, Ends
<1>9. TimelineOf(timeline', m) /\ \A t : IsTask(timeline, t) => IsTask(timeline', t)
  <2>1. e \in Entries /\ e.kind = "user" /\ e.n = m /\ ~e.sub
    BY <1>4, <1>6, EntryTyped
  <2> HIDE DEF e, m
  <2>2. EntryOfKind(e, m)
    BY <1>3, <1>4, <2>1 DEF EntryOfKind
  <2>3. TimelineOf(timeline, used.msgs)
    BY DEF TranscriptInv, SessionInv
  <2>4. \A i \in DOMAIN timeline : ~(timeline[i].n = e.n /\ (timeline[i].kind = "tool" <=> e.kind = "tool"))
    BY <1>3, <1>4, <2>1, <2>3 DEF TimelineOf, EntryOfKind
  <2>5. TimelineOf(Append(timeline, e), m) /\ \A t : IsTask(timeline, t) => IsTask(Append(timeline, e), t)
    BY <1>3, <1>4, <2>1, <2>2, <2>3, <2>4, TimelineGrows
  <2> QED BY <1>1, <2>5
<1> HIDE DEF b, c, e, r, m
<1>10. SessionInv'
  <2>1. proj' \in Projs /\ \A t \in Tools : ~proj'.tools[t].sub
    <3>1. NoTool \in ToolProjs /\ ~NoTool.sub
      BY DEF NoTool, ToolProjs, Texts, Statuses
    <3> HIDE DEF id
    <3> QED BY <1>1, <1>6, <3>1 DEF Projs, NoProj
  <2>2. timeline' # <<>>
    BY <1>1 DEF TranscriptInv, SessionInv, TimelineOf
  <2>3. run' \in 0 .. used'.runs
    BY <1>1, <1>4, <1>5
  <2> QED BY <1>5, <1>9, <2>1, <2>2, <2>3 DEF SessionInv
<1>11. FeedInv' /\ Hidden'
  <2>1. FeedInv /\ Hidden
    BY DEF TranscriptInv
  <2> QED BY <1>1, <1>2, <1>4, <1>7, <1>8, <1>9, <2>1, Opened
<1>12. AppInv'
  BY <1>1, AppStill DEF TranscriptInv
<1> QED BY <1>5, <1>10, <1>11, <1>12 DEF TranscriptInv

LEMMA SpeakKeeps ==
    ASSUME TranscriptAssumption, TranscriptInv, NEW kind \in {"text", "thought"}, Speak(kind)
    PROVE  TranscriptInv'
<1> DEFINE more == LastEntry.kind = kind
           n == IF more THEN LastEntry.n ELSE used.msgs + 1
           m == IF more THEN used.msgs ELSE used.msgs + 1
           b == MessageEvents(kind, MsgId(n), <<NewTok>>)
<1>1. /\ run # 0 /\ Len(feed) < MaxLag
      /\ timeline' = IF more THEN [timeline EXCEPT ![Len(timeline)].text = Append(@, NewTok)]
                             ELSE Append(timeline, Entry(kind, n, <<NewTok>>))
      /\ feed' = Append(feed, b)
      /\ proj' = MessageProj(kind, MsgId(n))
      /\ used' = [used EXCEPT !.toks = NewTok, !.msgs = IF more THEN @ ELSE @ + 1]
      /\ UNCHANGED <<run, owed, live, buf, base, reading, ahead, lost>>
  BY DEF Speak, Room, app
<1>2. MaxLag \in Nat /\ MaxRuns \in Nat
  BY DEF TranscriptAssumption
<1>3. used.runs \in Nat /\ used.msgs \in Nat /\ NewTok \in Nat /\ used.runs <= MaxRuns
  BY DEF TranscriptInv, UsedInv, NewTok
<1>4. m \in Nat /\ used.msgs <= m
  BY <1>3
<1>5. UsedInv' /\ used'.runs = used.runs /\ used'.msgs = m
  <2>1. used' = [used EXCEPT !.toks = NewTok, !.msgs = m]
    BY <1>1
  <2> HIDE DEF m
  <2> QED BY <1>3, <1>4, <2>1, UsedGrows DEF TranscriptInv
<1>6. TimelineOf(timeline, used.msgs) /\ timeline # <<>> /\ proj \in Projs /\ run \in 1 .. MaxRuns
  <2>1. run # 0
    BY <1>1
  <2>2. /\ TimelineOf(timeline, used.msgs) /\ proj \in Projs /\ run \in 0 .. used.runs
        /\ run # 0 => timeline # <<>>
    BY DEF TranscriptInv, SessionInv
  <2> QED BY <1>2, <1>3, <2>1, <2>2
<1>7. DOMAIN timeline = 1 .. Len(timeline) /\ Len(timeline) \in DOMAIN timeline /\ LastEntry \in Entries
  BY <1>6 DEF TimelineOf, LastEntry
<1>8. n \in Nat /\ MsgId(n) \in MsgIds /\ <<NewTok>> \in Texts
  <2>1. n \in Nat
    BY <1>3, <1>7 DEF Entries
  <2> HIDE DEF n
  <2> QED BY <1>3, <2>1 DEF MsgIds, Texts
<1>9. TimelineOf(timeline', m) /\ (\A t : IsTask(timeline, t) => IsTask(timeline', t)) /\ timeline' # <<>>
  <2>1. CASE more
    <3> DEFINE k == Len(timeline)
    <3>1. timeline' = [timeline EXCEPT ![k].text = Append(@, NewTok)] /\ m = used.msgs
      BY <1>1, <2>1
    <3> HIDE DEF m
    <3>2. timeline \in Seq(Entries) /\ timeline[k] \in Entries /\ k \in DOMAIN timeline
      BY <1>6, <1>7 DEF TimelineOf
    <3>3. Append(timeline[k].text, NewTok) \in Texts
      BY <1>3, <3>2 DEF Entries, Texts
    <3> DEFINE e == [timeline[k] EXCEPT !.text = Append(@, NewTok)]
    <3>4. e \in Entries /\ e.kind = timeline[k].kind /\ e.n = timeline[k].n /\ e.sub = timeline[k].sub
      BY <3>2, <3>3 DEF Entries
    <3>5. timeline' = [timeline EXCEPT ![k] = e]
      BY <3>1, <3>2
    <3> HIDE DEF e, k
    <3>6. timeline' \in Seq(Entries) /\ DOMAIN timeline' = DOMAIN timeline
      BY <3>2, <3>4, <3>5
    <3>7. \A i \in DOMAIN timeline : timeline'[i] = IF i = k THEN e ELSE timeline[i]
      BY <3>2, <3>5
    <3>8. \A i \in DOMAIN timeline : /\ timeline'[i].kind = timeline[i].kind /\ timeline'[i].n = timeline[i].n
                                     /\ timeline'[i].sub = timeline[i].sub
      BY <3>4, <3>7
    <3>9. TimelineOf(timeline', used.msgs) /\ \A t : IsTask(timeline, t) => IsTask(timeline', t)
      BY <1>3, <1>6, <3>6, <3>8, TimelineChanges
    <3>10. timeline' # <<>>
      BY <3>2, <3>6
    <3> QED BY <3>1, <3>9, <3>10
  <2>2. CASE ~more
    <3> DEFINE e == Entry(kind, n, <<NewTok>>)
    <3>1. timeline' = Append(timeline, e) /\ m = used.msgs + 1 /\ n = m
      BY <1>1, <2>2
    <3> HIDE DEF m, n
    <3>2. e \in Entries /\ e.kind = kind /\ e.n = n /\ ~e.sub
      BY <1>8, EntryTyped
    <3> HIDE DEF e
    <3>3. EntryOfKind(e, m)
      BY <1>3, <3>1, <3>2 DEF EntryOfKind
    <3>4. \A i \in DOMAIN timeline : ~(timeline[i].n = e.n /\ (timeline[i].kind = "tool" <=> e.kind = "tool"))
      BY <1>3, <1>6, <3>1, <3>2 DEF TimelineOf, EntryOfKind
    <3>5. TimelineOf(Append(timeline, e), m) /\ \A t : IsTask(timeline, t) => IsTask(Append(timeline, e), t)
      BY <1>3, <1>4, <1>6, <3>2, <3>3, <3>4, TimelineGrows
    <3>6. Append(timeline, e) # <<>>
      BY <1>6 DEF TimelineOf
    <3> QED BY <3>1, <3>5, <3>6
  <2> QED BY <2>1, <2>2
<1>10. b \in Seq(MessageEvs) /\ b # <<>>
  <2> HIDE DEF n
  <2> QED BY <1>6, <1>8, MessageBatch
<1> HIDE DEF b, m, n
<1>11. /\ b \in Seq(StreamEvs) /\ ~Starts(b) /\ ~Ends(b)
       /\ \A t, ev : ev \in {"ACTIVITY_SNAPSHOT", "tool-meta"} => ~Tells(b, ev, t)
  <2>1. \A k \in DOMAIN b : b[k] \in MessageEvs
    BY <1>10
  <2>2. \A k \in DOMAIN b : b[k].ev \in {"MESSAGE_START", "MESSAGE_CONTENT", "MESSAGE_END"}
    BY <2>1 DEF MessageEvs
  <2>3. 1 \in DOMAIN b /\ Len(b) \in DOMAIN b
    BY <1>10
  <2>4. b \in Seq(StreamEvs)
    BY <1>10 DEF StreamEvs
  <2> QED BY <2>2, <2>3, <2>4 DEF Starts, Ends, Tells
<1>12. SessionInv'
  <2>1. proj' \in Projs /\ proj'.tools = proj.tools
    BY <1>1, <1>6, <1>8 DEF Projs, MessageProj
  <2>2. \A t \in Tools : proj'.tools[t].sub => IsTask(timeline', t)
    BY <1>9, <2>1 DEF TranscriptInv, SessionInv
  <2>3. run' \in 0 .. used'.runs
    BY <1>1, <1>5 DEF TranscriptInv, SessionInv
  <2> QED BY <1>5, <1>9, <2>1, <2>2, <2>3 DEF SessionInv
<1>13. FeedInv' /\ Hidden'
  <2>1. FeedInv /\ Hidden
    BY DEF TranscriptInv
  <2> QED BY <1>1, <1>2, <1>9, <1>11, <2>1, Pushed
<1>14. AppInv'
  BY <1>1, AppStill DEF TranscriptInv
<1> QED BY <1>5, <1>12, <1>13, <1>14 DEF TranscriptInv

\* The entry of a call before and after an update.
OldEntry(t) == IF Known(t) THEN timeline[ToolAt(t)] ELSE Entry("tool", t, <<>>)
NewEntry(t, how) ==
    LET old == OldEntry(t)
    IN  CASE how = "append" -> [old EXCEPT !.text = Append(@, NewTok)]
          [] how = "rewrite" -> [old EXCEPT !.text = <<NewTok>>]
          [] how = "structured" -> [old EXCEPT !.st = Append(old.text, NewTok)]
          [] how = "repeated" -> [old EXCEPT !.st = old.text]
          [] how = "finish" -> [old EXCEPT !.text = Append(@, NewTok), !.done = TRUE]
          [] how = "status" -> [old EXCEPT !.done = TRUE]
          [] how = "task" -> [old EXCEPT !.text = Append(@, NewTok), !.sub = TRUE]

LEMMA OldEntryTyped ==
    ASSUME TranscriptAssumption, SessionInv, NEW t \in Tools
    PROVE  /\ OldEntry(t) \in Entries /\ OldEntry(t).kind = "tool" /\ OldEntry(t).n = t
           /\ Known(t) => ToolAt(t) \in DOMAIN timeline /\ timeline[ToolAt(t)] = OldEntry(t)
           /\ ~Known(t) => ~OldEntry(t).sub
<1>1. CASE Known(t)
  <2>1. OldEntry(t) = timeline[ToolAt(t)]
    BY <1>1 DEF OldEntry
  <2>2. ToolAt(t) \in DOMAIN timeline /\ timeline[ToolAt(t)].kind = "tool" /\ timeline[ToolAt(t)].n = t
    BY <1>1 DEF Known, ToolAt
  <2>3. timeline[ToolAt(t)] \in Entries
    BY <2>2 DEF SessionInv, TimelineOf
  <2> QED BY <1>1, <2>1, <2>2, <2>3
<1>2. CASE ~Known(t)
  <2>1. OldEntry(t) = Entry("tool", t, <<>>)
    BY <1>2 DEF OldEntry
  <2>2. t \in Nat /\ <<>> \in Texts
    BY DEF TranscriptAssumption, Texts
  <2>3. Entry("tool", t, <<>>) \in Entries /\ Entry("tool", t, <<>>).kind = "tool"
        /\ Entry("tool", t, <<>>).n = t /\ ~Entry("tool", t, <<>>).sub
    BY <2>2, EntryTyped
  <2> QED BY <1>2, <2>1, <2>3
<1> QED BY <1>1, <1>2

LEMMA NewEntryTyped ==
    ASSUME TranscriptAssumption, SessionInv, UsedInv, NEW t \in Tools, NEW how \in Updates
    PROVE  LET e == NewEntry(t, how)
           IN  e \in Entries /\ e.kind = "tool" /\ e.n = t /\ (OldEntry(t).sub => e.sub)
<1> DEFINE old == OldEntry(t)
           e == NewEntry(t, how)
<1>1. old \in Entries /\ old.kind = "tool" /\ old.n = t
  BY OldEntryTyped
<1>2. NewTok \in Nat
  BY DEF UsedInv, NewTok
<1> DEFINE Good(x) == x \in Entries /\ x.kind = old.kind /\ x.n = old.n /\ (old.sub => x.sub)
           longer == Append(old.text, NewTok)
<1>3. longer \in Texts /\ <<NewTok>> \in Texts /\ old.text \in Texts
  BY <1>1, <1>2 DEF Entries, Texts
<1>4. /\ how = "append" => e = [old EXCEPT !.text = longer]
      /\ how = "rewrite" => e = [old EXCEPT !.text = <<NewTok>>]
      /\ how = "structured" => e = [old EXCEPT !.st = longer]
      /\ how = "repeated" => e = [old EXCEPT !.st = old.text]
      /\ how = "finish" => e = [old EXCEPT !.text = longer, !.done = TRUE]
      /\ how = "status" => e = [old EXCEPT !.done = TRUE]
      /\ how = "task" => e = [old EXCEPT !.text = longer, !.sub = TRUE]
  BY <1>1 DEF NewEntry, Entries
<1> HIDE DEF old, e, longer
<1>5. /\ Good([old EXCEPT !.text = longer]) /\ Good([old EXCEPT !.text = <<NewTok>>])
      /\ Good([old EXCEPT !.st = longer]) /\ Good([old EXCEPT !.st = old.text])
      /\ Good([old EXCEPT !.done = TRUE])
  BY <1>1, <1>3 DEF Entries
<1>6. Good([old EXCEPT !.text = longer, !.done = TRUE]) /\ Good([old EXCEPT !.text = longer, !.sub = TRUE])
  BY <1>1, <1>3 DEF Entries
<1>7. Good(e)
  <2> HIDE DEF Good
  <2> QED BY <1>4, <1>5, <1>6 DEF Updates
<1> QED BY <1>1, <1>7 DEF e, old

LEMMA ToolUpdateKeeps ==
    ASSUME TranscriptAssumption, TranscriptInv, NEW t \in Tools, NEW how \in Updates, ToolUpdate(t, how)
    PROVE  TranscriptInv'
<1> DEFINE old == OldEntry(t)
           e == NewEntry(t, how)
           b == ToolEvents(t, e)
           sub == proj.tools[t].sub \/ e.sub
<1>1. /\ run # 0 /\ Len(feed) < MaxLag
      /\ timeline' = IF Known(t) THEN [timeline EXCEPT ![ToolAt(t)] = e] ELSE Append(timeline, e)
      /\ feed' = Append(feed, b)
      /\ proj' = ToolProj(t, e)
      /\ used' = IF how = "status" THEN used ELSE [used EXCEPT !.toks = NewTok]
      /\ UNCHANGED <<run, owed, live, buf, base, reading, ahead, lost>>
  BY DEF ToolUpdate, Room, app, OldEntry, NewEntry
<1>2. MaxLag \in Nat /\ MaxRuns \in Nat
  BY DEF TranscriptAssumption
<1>3. used.runs \in Nat /\ used.msgs \in Nat /\ NewTok \in Nat /\ used.runs <= MaxRuns /\ UsedInv
  BY DEF TranscriptInv, UsedInv, NewTok
<1>4. UsedInv' /\ used'.runs = used.runs /\ used'.msgs = used.msgs
  <2>1. CASE used' = used
    BY <1>3, <2>1 DEF UsedInv
  <2>2. CASE used' = [used EXCEPT !.toks = NewTok]
    BY <1>3, <2>2, UsedGrows
  <2> QED BY <1>1, <2>1, <2>2
<1>5. TimelineOf(timeline, used.msgs) /\ proj \in Projs /\ run \in 1 .. MaxRuns /\ SessionInv
  <2>1. TimelineOf(timeline, used.msgs) /\ proj \in Projs /\ run \in 0 .. used.runs /\ SessionInv
    BY DEF TranscriptInv, SessionInv
  <2>2. run # 0
    BY <1>1
  <2> QED BY <1>2, <1>3, <2>1, <2>2
<1>6. /\ old \in Entries /\ old.kind = "tool" /\ old.n = t
      /\ Known(t) => ToolAt(t) \in DOMAIN timeline /\ timeline[ToolAt(t)] = old
  BY <1>5, OldEntryTyped
<1>7. e \in Entries /\ e.kind = "tool" /\ e.n = t /\ (old.sub => e.sub)
  BY <1>3, <1>5, NewEntryTyped
<1>8. b \in Seq(ToolEvsOf(t, sub))
  <2> HIDE DEF e
  <2> QED BY <1>5, <1>7, ToolBatch
<1>9. \A i \in DOMAIN timeline : timeline[i] \in Entries
  BY <1>5 DEF TimelineOf
<1> HIDE DEF old, e, b
<1>10. /\ TimelineOf(timeline', used'.msgs) /\ timeline' # <<>>
       /\ \A u : IsTask(timeline, u) => IsTask(timeline', u)
       /\ \E i \in DOMAIN timeline' : timeline'[i] = e
  <2>1. CASE Known(t)
    <3> DEFINE k == ToolAt(t)
    <3>1. timeline' = [timeline EXCEPT ![k] = e] /\ k \in DOMAIN timeline /\ timeline[k] = old
          /\ timeline \in Seq(Entries)
      BY <1>1, <1>5, <1>6, <2>1 DEF TimelineOf
    <3> HIDE DEF k
    <3>2. timeline' \in Seq(Entries) /\ DOMAIN timeline' = DOMAIN timeline
      BY <1>7, <3>1
    <3>3. \A i \in DOMAIN timeline : timeline'[i] = IF i = k THEN e ELSE timeline[i]
      BY <3>1
    <3>4. \A i \in DOMAIN timeline : /\ timeline'[i].kind = timeline[i].kind /\ timeline'[i].n = timeline[i].n
                                     /\ timeline[i].sub => timeline'[i].sub
                                     /\ timeline'[i].sub => timeline[i].sub \/ timeline[i].kind = "tool"
      BY <1>6, <1>7, <3>1, <3>3
    <3>5. TimelineOf(timeline', used.msgs) /\ \A u : IsTask(timeline, u) => IsTask(timeline', u)
      BY <1>3, <1>5, <3>2, <3>4, TimelineChanges
    <3>6. timeline'[k] = e /\ k \in DOMAIN timeline' /\ timeline' # <<>>
      BY <3>1, <3>2, <3>3
    <3> QED BY <1>4, <3>5, <3>6
  <2>2. CASE ~Known(t)
    <3>1. timeline' = Append(timeline, e)
      BY <1>1, <2>2
    <3>2. EntryOfKind(e, used.msgs)
      BY <1>7 DEF EntryOfKind
    <3>3. \A i \in DOMAIN timeline : ~(timeline[i].n = e.n /\ (timeline[i].kind = "tool" <=> e.kind = "tool"))
      BY <1>7, <2>2 DEF Known
    <3>4. /\ TimelineOf(Append(timeline, e), used.msgs)
          /\ \A u : IsTask(timeline, u) => IsTask(Append(timeline, e), u)
      BY <1>3, <1>5, <1>7, <3>2, <3>3, TimelineGrows
    <3>5. timeline \in Seq(Entries)
      BY <1>5 DEF TimelineOf
    <3>6. /\ Append(timeline, e) # <<>> /\ Len(timeline) + 1 \in DOMAIN Append(timeline, e)
          /\ Append(timeline, e)[Len(timeline) + 1] = e
      BY <1>7, <3>5
    <3> QED BY <1>4, <3>1, <3>4, <3>6
  <2> QED BY <2>1, <2>2
<1>11. sub => IsTask(timeline', t)
  <2>1. CASE proj.tools[t].sub
    BY <1>5, <1>10, <2>1 DEF SessionInv
  <2>2. CASE e.sub
    BY <1>7, <1>10, <2>2 DEF IsTask
  <2> QED BY <2>1, <2>2
<1>12. ~sub => ~IsTask(timeline', t)
  <2> SUFFICES ASSUME ~e.sub PROVE ~IsTask(timeline', t)
    OBVIOUS
  <2>1. PICK i \in DOMAIN timeline' : timeline'[i] = e
    BY <1>10
  <2>2. \A j \in DOMAIN timeline' :
            timeline'[j].n = timeline'[i].n /\ (timeline'[j].kind = "tool" <=> timeline'[i].kind = "tool") => j = i
    BY <1>10 DEF TimelineOf
  <2> QED BY <1>7, <2>1, <2>2 DEF IsTask
<1> HIDE DEF sub
<1>13. /\ b \in Seq(StreamEvs) /\ ~Starts(b) /\ ~Ends(b)
       /\ \A u : Tells(b, "ACTIVITY_SNAPSHOT", u) => u = t /\ sub
       /\ \A u : Tells(b, "tool-meta", u) => u = t /\ ~sub
  <2>1. \A k \in DOMAIN b : b[k] \in ToolEvsOf(t, sub)
    BY <1>8
  <2>2. \A k \in DOMAIN b : /\ b[k] \in ToolEvs /\ b[k].t = t
                            /\ b[k].ev = "ACTIVITY_SNAPSHOT" => sub
                            /\ b[k].ev = "tool-meta" => ~sub
    BY <2>1 DEF ToolEvsOf
  <2>3. \A k \in DOMAIN b : b[k].ev # "RUN_STARTED" /\ b[k].ev # "RUN_FINISHED"
    BY <2>2 DEF ToolEvs
  <2>4. b \in Seq(StreamEvs)
    BY <1>8, <2>2 DEF StreamEvs
  <2>5. b # <<>> => 1 \in DOMAIN b /\ Len(b) \in DOMAIN b
    BY <1>8
  <2> QED BY <2>2, <2>3, <2>4, <2>5 DEF Starts, Ends, Tells
<1>14. SessionInv'
  <2>1. proj' \in Projs /\ \A u \in Tools : proj'.tools[u].sub => proj.tools[u].sub \/ (u = t /\ sub)
    <3> DEFINE s == proj.tools[t]
               x == [started |-> TRUE, ended |-> s.ended \/ e.done, text |-> e.text, st |-> e.st,
                     meta |-> IF s.sub \/ e.sub THEN s.meta ELSE MetaOf(e), sub |-> s.sub \/ e.sub]
    <3>1. proj.tools \in [Tools -> ToolProjs] /\ s \in ToolProjs
      BY <1>5 DEF Projs
    <3>2. proj' = [proj EXCEPT !.tools = [proj.tools EXCEPT ![t] = x]]
      BY <1>1, <1>5 DEF ToolProj, Projs
    <3>3. x \in ToolProjs /\ x.sub = sub
      <4>1. s.meta \in Statuses /\ MetaOf(e) \in Statuses /\ s.sub \in BOOLEAN /\ s.ended \in BOOLEAN
        BY <3>1 DEF ToolProjs, MetaOf, Statuses
      <4>2. e.text \in Texts /\ e.st \in Texts /\ e.done \in BOOLEAN /\ e.sub \in BOOLEAN
        BY <1>7 DEF Entries
      <4> HIDE DEF s
      <4> QED BY <4>1, <4>2 DEF ToolProjs, sub, s
    <3> HIDE DEF x, s
    <3>4. proj' \in Projs /\ proj'.tools = [proj.tools EXCEPT ![t] = x]
      BY <1>5, <3>1, <3>2, <3>3 DEF Projs
    <3> QED BY <3>1, <3>3, <3>4
  <2>2. \A u \in Tools : proj'.tools[u].sub => IsTask(timeline', u)
    BY <1>5, <1>10, <1>11, <2>1 DEF SessionInv
  <2>3. run' \in 0 .. used'.runs
    BY <1>1, <1>4, <1>5 DEF SessionInv
  <2> QED BY <1>10, <2>1, <2>2, <2>3 DEF SessionInv
<1>15. FeedInv' /\ Hidden'
  <2>1. FeedInv /\ Hidden
    BY DEF TranscriptInv
  <2>2. \A u : Tells(b, "ACTIVITY_SNAPSHOT", u) => IsTask(timeline', u)
    BY <1>11, <1>13
  <2>3. \A u : Tells(b, "tool-meta", u) => ~IsTask(timeline', u)
    BY <1>12, <1>13
  <2> QED BY <1>1, <1>2, <1>10, <1>13, <2>1, <2>2, <2>3, Pushed
<1>16. AppInv'
  BY <1>1, AppStill DEF TranscriptInv
<1> QED BY <1>4, <1>14, <1>15, <1>16 DEF TranscriptInv

LEMMA EndRunKeeps ==
    ASSUME TranscriptAssumption, TranscriptInv, EndRun
    PROVE  TranscriptInv'
<1> DEFINE close == CloseEvents
           x == Ev("RUN_FINISHED", NoId, "", <<>>)
           b == Append(close, x)
           E(i) == IF timeline[i].kind = "tool" THEN [timeline[i] EXCEPT !.done = TRUE] ELSE timeline[i]
<1>1. /\ run # 0 /\ Len(feed) < MaxLag /\ run' = 0
      /\ timeline' = [i \in DOMAIN timeline |-> E(i)]
      /\ proj' = NoProj
      /\ feed' = Append(feed, b)
      /\ UNCHANGED <<owed, live, buf, base, reading, ahead, lost, used>>
  BY DEF EndRun, Room, app
<1>2. MaxLag \in Nat /\ MaxRuns \in Nat /\ IsFiniteSet(Tools)
  BY DEF TranscriptAssumption
<1>3. used.runs \in Nat /\ used.msgs \in Nat /\ used.runs <= MaxRuns /\ UsedInv
  BY DEF TranscriptInv, UsedInv
<1>4. TimelineOf(timeline, used.msgs) /\ proj \in Projs /\ run \in 1 .. MaxRuns
  <2>1. TimelineOf(timeline, used.msgs) /\ proj \in Projs /\ run \in 0 .. used.runs
    BY DEF TranscriptInv, SessionInv
  <2>2. run # 0
    BY <1>1
  <2> QED BY <1>2, <1>3, <2>1, <2>2
<1>5. close \in Seq(ClosingEvs)
  BY <1>2, <1>4, CloseBatch
<1>6. x \in StreamEvs /\ x.ev = "RUN_FINISHED"
  <2>1. x \in RunEvs
    <3>1. NoId \in AnyIds /\ <<>> \in Texts
      BY IdTypes DEF Texts
    <3> QED BY <1>4, <3>1 DEF Ev, RunEvs
  <2> QED BY <2>1 DEF StreamEvs, Ev
<1> HIDE DEF close, x
<1>7. /\ b \in Seq(StreamEvs) /\ ~Starts(b)
      /\ \A t, ev : ev \in {"ACTIVITY_SNAPSHOT", "tool-meta"} => ~Tells(b, ev, t)
  <2> DEFINE n == Len(close)
  <2>1. /\ n \in Nat /\ DOMAIN close = 1 .. n /\ Len(b) = n + 1 /\ DOMAIN b = 1 .. (n + 1) /\ b[n + 1] = x
        /\ \A k \in 1 .. n : b[k] = close[k] /\ close[k] \in ClosingEvs
    BY <1>5, <1>6
  <2>2. close \in Seq(StreamEvs)
    BY <1>5 DEF ClosingEvs, StreamEvs
  <2>3. b \in Seq(StreamEvs)
    BY <1>6, <2>2
  <2> HIDE DEF n, b
  <2>4. \A k \in 1 .. (n + 1) : b[k].ev \in {"MESSAGE_END", "TOOL_CALL_END", "RUN_FINISHED"}
    <3>1. \A k \in 1 .. n : b[k].ev \in {"MESSAGE_END", "TOOL_CALL_END"}
      BY <2>1 DEF ClosingEvs
    <3>2. \A k \in 1 .. (n + 1) : k \in 1 .. n \/ k = n + 1
      BY <2>1
    <3> QED BY <1>6, <2>1, <3>1, <3>2
  <2>5. 1 \in 1 .. (n + 1)
    BY <2>1
  <2> QED BY <2>1, <2>3, <2>4, <2>5 DEF Starts, Tells
<1> HIDE DEF b
<1>8. TimelineOf(timeline', used.msgs) /\ \A u : IsTask(timeline, u) => IsTask(timeline', u)
  <2>1. timeline \in Seq(Entries)
    BY <1>4 DEF TimelineOf
  <2>2. \A i \in DOMAIN timeline : /\ E(i) \in Entries /\ E(i).kind = timeline[i].kind /\ E(i).n = timeline[i].n
                                   /\ E(i).sub = timeline[i].sub
    <3> TAKE i \in DOMAIN timeline
    <3> DEFINE o == timeline[i]
    <3>1. o \in Entries
      BY <2>1
    <3> HIDE DEF o
    <3>2. LET y == IF o.kind = "tool" THEN [o EXCEPT !.done = TRUE] ELSE o
          IN  y \in Entries /\ y.kind = o.kind /\ y.n = o.n /\ y.sub = o.sub
      BY <3>1 DEF Entries
    <3> QED BY <3>2 DEF o
  <2> HIDE DEF E
  <2>3. DOMAIN timeline' = DOMAIN timeline /\ \A i \in DOMAIN timeline : timeline'[i] = E(i)
    BY <1>1
  <2>4. timeline' \in Seq(Entries)
    <3>1. DOMAIN timeline = 1 .. Len(timeline) /\ Len(timeline) \in Nat
      BY <2>1
    <3> QED BY <1>1, <2>2, <3>1
  <2>5. \A i \in DOMAIN timeline : /\ timeline'[i].kind = timeline[i].kind /\ timeline'[i].n = timeline[i].n
                                   /\ timeline'[i].sub = timeline[i].sub
    BY <2>2, <2>3
  <2> QED BY <1>3, <1>4, <2>3, <2>4, <2>5, TimelineChanges
<1>9. SessionInv'
  <2>1. proj' \in Projs /\ \A t \in Tools : ~proj'.tools[t].sub
    <3>1. NoTool \in ToolProjs /\ ~NoTool.sub
      BY DEF NoTool, ToolProjs, Texts, Statuses
    <3> QED BY <1>1, <3>1 DEF Projs, NoProj
  <2> QED BY <1>1, <1>3, <1>8, <2>1 DEF SessionInv
<1>10. FeedInv' /\ Hidden'
  <2>1. FeedInv /\ Hidden
    BY DEF TranscriptInv
  <2> QED BY <1>1, <1>2, <1>7, <1>8, <2>1, Pushed
<1>11. AppInv'
  BY <1>1, AppStill DEF TranscriptInv
<1>12. UsedInv'
  BY <1>1, <1>3 DEF UsedInv
<1> QED BY <1>9, <1>10, <1>11, <1>12 DEF TranscriptInv

-----------------------------------------------------------------------------
(* The app's steps. *)

\* The session stays, and no event joins the ones on their way.
LEMMA SessionStill ==
    ASSUME SessionInv, UNCHANGED <<timeline, run, proj>>, used'.runs = used.runs, used'.msgs = used.msgs
    PROVE  SessionInv'
BY DEF SessionInv

LEMMA FeedStill ==
    ASSUME FeedInv, UNCHANGED <<timeline, run, feed>>, owed' = owed \/ owed' = 0
    PROVE  FeedInv'
<1>1. FeedOrder'
  BY DEF FeedInv, FeedOrder
<1>2. Announced'
  BY DEF FeedInv, Announced
<1> QED BY <1>1, <1>2 DEF FeedInv

\* A batch leaves the feed: what the rest of it is.
LEMMA Popped ==
    ASSUME NEW S, NEW s \in Seq(S), s # <<>>
    PROVE  /\ s[1] \in S /\ Head(s) = s[1] /\ 1 \in DOMAIN s /\ Tail(s) \in Seq(S) /\ Len(Tail(s)) < Len(s)
           /\ Len(Tail(s)) = Len(s) - 1 /\ DOMAIN Tail(s) = 1 .. (Len(s) - 1) /\ DOMAIN s = 1 .. Len(s)
           /\ Len(s) \in Nat \ {0}
           /\ \A i \in DOMAIN Tail(s) : Tail(s)[i] = s[i + 1] /\ i + 1 \in DOMAIN s
<1>1. s[1] \in S /\ Head(s) = s[1] /\ 1 \in DOMAIN s /\ DOMAIN s = 1 .. Len(s) /\ Len(s) \in Nat \ {0}
  OBVIOUS
<1>2. Tail(s) \in Seq(S) /\ Len(Tail(s)) = Len(s) - 1
  OBVIOUS
<1>3. DOMAIN Tail(s) = 1 .. (Len(s) - 1) /\ Len(Tail(s)) < Len(s)
  BY <1>1, <1>2
<1>4. \A i \in 1 .. (Len(s) - 1) : Tail(s)[i] = s[i + 1] /\ i + 1 \in 1 .. Len(s)
  BY <1>1
<1> QED BY <1>1, <1>2, <1>3, <1>4

\* The events on their way when the pump takes the first batch.
LEMMA FeedPopped ==
    ASSUME FeedInv, feed # <<>>, owed = 0, feed' = Tail(feed), UNCHANGED <<timeline, run>>,
           owed' # 0 => Ends(feed[1])
    PROVE  FeedInv'
<1>1. feed \in Seq(Seq(StreamEvs))
  BY DEF FeedInv
<1>2. /\ feed' \in Seq(Seq(StreamEvs)) /\ Len(feed') < Len(feed) /\ Len(feed') = Len(feed) - 1
      /\ DOMAIN feed' = 1 .. (Len(feed) - 1) /\ DOMAIN feed = 1 .. Len(feed) /\ Len(feed) \in Nat \ {0}
      /\ \A i \in DOMAIN feed' : feed'[i] = feed[i + 1] /\ i + 1 \in DOMAIN feed
  BY <1>1, Popped
<1> DEFINE n == Len(feed)
<1>3. Len(feed') <= MaxLag + 1
  <2>1. n <= MaxLag + 1 /\ n \in Nat
    BY <1>2 DEF FeedInv
  <2>2. MaxLag \in Nat
    BY TranscriptAssumption DEF TranscriptAssumption
  <2> QED BY <1>2, <2>1, <2>2
<1> HIDE DEF n
<1>4. FeedOrder'
  <2>1. \A i \in DOMAIN feed' : Starts(feed'[i]) => Len(feed'[i]) = 1
    BY <1>2 DEF FeedInv, FeedOrder
  <2>2. ASSUME NEW i \in DOMAIN feed', i > 1, Ends(feed'[i - 1]) PROVE Starts(feed'[i])
    <3>0. n \in Nat /\ i \in 1 .. (n - 1) /\ DOMAIN feed' = 1 .. (n - 1)
      BY <1>2 DEF n
    <3>1. i - 1 \in DOMAIN feed' /\ (i - 1) + 1 = i /\ (i + 1) - 1 = i /\ i + 1 > 1
      BY <2>2, <3>0
    <3>2. feed'[i - 1] = feed[i] /\ feed'[i] = feed[i + 1] /\ i + 1 \in DOMAIN feed
      <4>1. feed'[i - 1] = feed[(i - 1) + 1]
        BY <1>2, <3>1
      <4> QED BY <1>2, <3>1, <4>1
    <3>3. Ends(feed[(i + 1) - 1])
      BY <2>2, <3>1, <3>2
    <3>4. Starts(feed[i + 1])
      BY <3>1, <3>2, <3>3 DEF FeedInv, FeedOrder
    <3> QED BY <3>2, <3>4
  <2>3. feed' # <<>> => 1 \in DOMAIN feed' /\ feed'[1] = feed[2] /\ 2 \in DOMAIN feed /\ Len(feed) > 1
                        /\ feed'[Len(feed')] = feed[Len(feed)]
    <3> SUFFICES ASSUME feed' # <<>>
                 PROVE  1 \in DOMAIN feed' /\ feed'[1] = feed[2] /\ 2 \in DOMAIN feed /\ Len(feed) > 1
                        /\ feed'[Len(feed')] = feed[Len(feed)]
      OBVIOUS
    <3>1. 1 \in DOMAIN feed' /\ Len(feed') \in DOMAIN feed' /\ Len(feed) > 1
      BY <1>2
    <3>2. feed'[1] = feed[1 + 1] /\ feed'[Len(feed')] = feed[Len(feed') + 1] /\ 1 + 1 \in DOMAIN feed
      BY <1>2, <3>1
    <3>3. Len(feed') + 1 = Len(feed)
      BY <1>2
    <3> QED BY <3>1, <3>2, <3>3
  <2>4. owed' # 0 /\ feed' # <<>> => Starts(feed'[1])
    <3> SUFFICES ASSUME owed' # 0, feed' # <<>> PROVE Starts(feed[2])
      BY <2>3
    <3>1. 2 \in DOMAIN feed /\ 2 > 1 /\ 2 - 1 = 1
      BY <2>3
    <3>2. Ends(feed[2 - 1])
      BY <3>1
    <3> QED BY <3>1, <3>2 DEF FeedInv, FeedOrder
  <2>5. run' # 0 /\ feed' # <<>> => ~Ends(feed'[Len(feed')])
    BY <2>3 DEF FeedInv, FeedOrder
  <2>6. run' # 0 /\ feed' = <<>> => owed' = 0
    <3> SUFFICES ASSUME run # 0, feed' = <<>> PROVE ~Ends(feed[1])
      OBVIOUS
    <3>1. Len(feed) = 1
      <4>1. Len(<<>>) = 0
        OBVIOUS
      <4>2. Len(feed') = Len(feed) - 1 /\ Len(feed) \in Nat
        BY <1>2
      <4>3. Len(feed') = 0
        <5>1. feed' = <<>>
          OBVIOUS
        <5> QED BY <4>1, <5>1, Zenon
      <4>4. \A k \in Nat : k - 1 = 0 => k = 1
        OBVIOUS
      <4> QED BY <4>2, <4>3, <4>4
    <3> QED BY <3>1 DEF FeedInv, FeedOrder
  <2> QED BY <2>1, <2>2, <2>4, <2>5, <2>6 DEF FeedOrder
<1>5. Announced'
  <2>1. ASSUME NEW i \in DOMAIN feed', NEW t \in Tools, Tells(feed'[i], "ACTIVITY_SNAPSHOT", t)
        PROVE  IsTask(timeline', t)
    BY <1>2, <2>1 DEF FeedInv, Announced
  <2>2. ASSUME NEW i \in DOMAIN feed', NEW j \in i .. Len(feed'), NEW t \in Tools,
               Tells(feed'[i], "ACTIVITY_SNAPSHOT", t)
        PROVE  ~Tells(feed'[j], "tool-meta", t)
    <3>1. j \in DOMAIN feed' /\ j + 1 \in (i + 1) .. Len(feed)
      <4>1. i \in 1 .. Len(feed') /\ Len(feed') \in Nat /\ Len(feed) = Len(feed') + 1
        BY <1>2
      <4>2. j \in 1 .. Len(feed') /\ j + 1 \in (i + 1) .. (Len(feed') + 1)
        BY <4>1
      <4>3. DOMAIN feed' = 1 .. Len(feed')
        BY <1>2, <4>1
      <4> QED BY <4>1, <4>2, <4>3
    <3>2. feed'[i] = feed[i + 1] /\ feed'[j] = feed[j + 1] /\ i + 1 \in DOMAIN feed
      BY <1>2, <3>1
    <3> QED BY <2>2, <3>1, <3>2 DEF FeedInv, Announced
  <2> QED BY <2>1, <2>2 DEF Announced
<1> QED BY <1>2, <1>3, <1>4, <1>5 DEF FeedInv

LEMMA DeliverKeeps ==
    ASSUME TranscriptAssumption, TranscriptInv, Deliver
    PROVE  TranscriptInv'
<1> DEFINE b == feed[1]
           s == Receive(b)
<1>1. feed # <<>> /\ owed = 0 /\ feed' = Tail(feed)
      /\ UNCHANGED <<timeline, run, proj, base, reading, used>>
  BY DEF Deliver, session
<1>2. FeedInv /\ Hidden /\ AppInv /\ feed \in Seq(Seq(StreamEvs))
  BY DEF TranscriptInv, FeedInv
<1>3. /\ b \in Seq(StreamEvs) /\ Head(feed) = b /\ 1 \in DOMAIN feed
      /\ DOMAIN feed' = 1 .. (Len(feed) - 1) /\ DOMAIN feed = 1 .. Len(feed) /\ Len(feed) \in Nat \ {0}
      /\ \A i \in DOMAIN feed' : feed'[i] = feed[i + 1] /\ i + 1 \in DOMAIN feed
  BY <1>1, <1>2, Popped
<1>4. /\ live' = s.live /\ buf' = s.buf
      /\ owed' = IF b # <<>> /\ b[Len(b)].ev = "RUN_FINISHED" THEN b[Len(b)].run ELSE 0
      /\ ahead' = (ahead /\ ~(b # <<>> /\ Head(b).ev = "RUN_STARTED"))
  BY <1>3 DEF Deliver
<1>5. ahead' = (ahead /\ ~Starts(b))
  <2>1. b # <<>> => Head(b) = b[1]
    BY <1>3
  <2> HIDE DEF b, s
  <2> QED BY <1>4, <2>1 DEF Starts
<1> HIDE DEF b
<1>6. owed' \in 0 .. MaxRuns /\ (owed' # 0 => Ends(b))
  <2>m. MaxRuns \in Nat
    BY DEF TranscriptAssumption
  <2>1. CASE Ends(b)
    <3> DEFINE x == b[Len(b)]
    <3>1. x \in StreamEvs /\ x.ev = "RUN_FINISHED" /\ owed' = x.run
      BY <1>3, <1>4, <2>1 DEF Ends
    <3> HIDE DEF x
    <3>2. x.run \in 1 .. MaxRuns
      BY <3>1 DEF StreamEvs, MessageEvs, RunEvs, ToolEvs
    <3> QED BY <2>1, <2>m, <3>1, <3>2
  <2>2. CASE ~Ends(b)
    BY <1>4, <2>2, <2>m DEF Ends
  <2> QED BY <2>1, <2>2
<1>7. FeedInv'
  BY <1>1, <1>2, <1>6, FeedPopped DEF b
<1>8. LiveGood(live) /\ buf \in Seq(ContentEvs) /\ ahead \in BOOLEAN /\ Cardinality(reading) <= 1
  BY <1>2 DEF AppInv
<1>9. CASE Starts(b)
  <2>1. Len(b) = 1
    BY <1>2, <1>3, <1>9 DEF FeedInv, FeedOrder, b
  <2>2. AppSound(s) /\ s.live.sub = {} /\ NoGeneric(s.live)
    BY <1>3, <1>8, <1>9, <2>1, StartReceived
  <2> HIDE DEF s
  <2>3. AppInv'
    <3>1. LiveGood(live') /\ buf' \in Seq(ContentEvs) /\ NoGeneric(live')
      BY <1>4, <2>2 DEF AppSound
    <3>2. ahead' \in BOOLEAN /\ Cardinality(reading') <= 1
      BY <1>1, <1>5, <1>8
    <3> QED BY <1>6, <3>1, <3>2 DEF AppInv
  <2>4. Hidden'
    <3>1. live'.sub = {}
      BY <1>4, <2>2
    <3> QED BY <3>1 DEF Hidden
  <2> QED BY <2>3, <2>4, <1>7, <1>1 DEF TranscriptInv, UsedInv, SessionInv
<1>10. CASE ~Starts(b)
  <2>1. Heard(s, b, Len(b))
    BY <1>3, <1>8, BatchReceived
  <2> HIDE DEF s
  <2>2. ahead' = ahead
    BY <1>5, <1>8, <1>10
  <2>3. \A t \in Tools : Tells(b, "ACTIVITY_SNAPSHOT", t)
           => IsTask(timeline, t) /\ \A j \in DOMAIN feed : ~Tells(feed[j], "tool-meta", t)
    BY <1>2, <1>3 DEF FeedInv, Announced, b
  <2>4. live.sub \subseteq Tools
    BY <1>8 DEF LiveGood, LiveSound, LiveShape
  <2>5. ASSUME ~ahead, NEW t \in live.sub PROVE ~Tells(b, "tool-meta", t)
    <3> SUFFICES ASSUME Tells(feed[1], "tool-meta", t) PROVE FALSE
      BY DEF b
    <3>1. PICK k \in 1 .. 1 : Starts(feed[k])
      BY <1>2, <1>3, <2>5 DEF Hidden
    <3>2. k = 1
      OBVIOUS
    <3> QED BY <1>10, <3>1, <3>2 DEF b
  <2>6. AppInv'
    <3>1. LiveGood(live') /\ buf' \in Seq(ContentEvs)
      BY <1>4, <2>1 DEF Heard, AppSound
    <3>2. ASSUME ~ahead' PROVE NoGeneric(live')
      <4>1. NoGeneric(live) /\ ~ahead
        BY <1>2, <2>2, <3>2 DEF AppInv
      <4>2. \A t \in Tools : Tells(b, "tool-meta", t) => t \notin live.sub /\ ~Tells(b, "ACTIVITY_SNAPSHOT", t)
        BY <1>3, <2>3, <2>5, <4>1 DEF b
      <4> QED BY <1>4, <2>1, <4>1, <4>2 DEF Heard
    <3>3. ahead' \in BOOLEAN /\ Cardinality(reading') <= 1
      BY <1>1, <1>8, <2>2
    <3> QED BY <1>6, <3>1, <3>2, <3>3 DEF AppInv
  <2>7. \A t \in live'.sub : t \in live.sub \/ (t \in Tools /\ Tells(b, "ACTIVITY_SNAPSHOT", t))
    BY <1>4, <2>1 DEF Heard
  <2>8. Hidden'
    <3>1. \A t \in live'.sub : IsTask(timeline', t)
      BY <1>1, <1>2, <2>3, <2>7 DEF Hidden
    <3>2. ASSUME ~ahead', NEW i \in DOMAIN feed', NEW t \in live'.sub, Tells(feed'[i], "tool-meta", t)
          PROVE  \E k \in 1 .. i : Starts(feed'[k])
      <4>1. i + 1 \in DOMAIN feed /\ Tells(feed[i + 1], "tool-meta", t)
        BY <1>3, <3>2
      <4>2. t \in live.sub
        BY <2>3, <2>7, <4>1
      <4>3. PICK k \in 1 .. (i + 1) : Starts(feed[k])
        BY <1>2, <2>2, <3>2, <4>1, <4>2 DEF Hidden
      <4>4. k # 1
        BY <1>10, <4>3 DEF b
      <4>5. k - 1 \in 1 .. i /\ k - 1 \in DOMAIN feed' /\ (k - 1) + 1 = k
        BY <1>3, <4>4
      <4>6. feed'[k - 1] = feed[(k - 1) + 1]
        BY <1>3, <4>5
      <4>7. Starts(feed'[k - 1])
        BY <4>3, <4>5, <4>6
      <4> QED BY <4>5, <4>7
    <3> QED BY <3>1, <3>2 DEF Hidden
  <2> QED BY <2>6, <2>8, <1>7, <1>1 DEF TranscriptInv, UsedInv, SessionInv
<1> QED BY <1>9, <1>10

\* The rows a snapshot brings, in the middle of a run or after its end.
LEMMA SnapshotApplied ==
    ASSUME TranscriptInv, NEW r, NEW s, s = Receive(<<messages_snapshot_envelope(r)>>)
    PROVE  /\ LiveGood(s.live) /\ s.buf \in Seq(ContentEvs) /\ NoGeneric(s.live)
           /\ \A t \in s.live.sub : IsTask(timeline, t)
<1> DEFINE m == messages_snapshot_envelope(r)
<1>1. /\ m.ev = "MESSAGES_SNAPSHOT" /\ SnapshotOf(m.rows)
      /\ \A t \in Carded(m.rows) : IsTask(timeline, t)
  BY EnvelopeOfTimeline DEF TranscriptInv, SessionInv
<1>2. LiveGood(live) /\ buf \in Seq(ContentEvs) /\ \A t \in live.sub : IsTask(timeline, t)
  BY DEF TranscriptInv, AppInv, Hidden
<1>3. s = Receive(<<m>>)
  OBVIOUS
<1> HIDE DEF m
<1>4. AppSound(s) /\ NoGeneric(s.live) /\ s.live.sub = live.sub \cup Carded(m.rows)
  BY <1>1, <1>2, <1>3, SnapshotReceived
<1> QED BY <1>1, <1>2, <1>4 DEF AppSound

LEMMA EndSnapshotKeeps ==
    ASSUME TranscriptAssumption, TranscriptInv, EndSnapshot
    PROVE  TranscriptInv'
<1> DEFINE s == Receive(<<messages_snapshot_envelope(owed)>>)
<1>1. /\ owed # 0 /\ live' = s.live /\ buf' = s.buf /\ owed' = 0 /\ ahead' = FALSE
      /\ UNCHANGED <<timeline, run, proj, feed, base, reading, used>>
  BY DEF EndSnapshot, session
<1>2. /\ LiveGood(s.live) /\ s.buf \in Seq(ContentEvs) /\ NoGeneric(s.live)
      /\ \A t \in s.live.sub : IsTask(timeline, t)
  BY SnapshotApplied
<1> HIDE DEF s
<1>3. AppInv'
  <2>1. 0 \in 0 .. MaxRuns /\ Cardinality(reading) <= 1
    BY DEF TranscriptInv, AppInv, TranscriptAssumption
  <2> QED BY <1>1, <1>2, <2>1 DEF AppInv
<1>4. FeedInv'
  BY <1>1, FeedStill DEF TranscriptInv
<1>5. Hidden'
  <2>1. \A t \in live'.sub : IsTask(timeline', t)
    BY <1>1, <1>2
  <2>2. ASSUME NEW i \in DOMAIN feed' PROVE \E k \in 1 .. i : Starts(feed'[k])
    <3>1. feed \in Seq(Seq(StreamEvs)) /\ i \in DOMAIN feed
      BY <1>1 DEF TranscriptInv, FeedInv
    <3>2. feed # <<>> /\ 1 \in 1 .. i
      BY <3>1
    <3>3. Starts(feed[1])
      BY <1>1, <3>2 DEF TranscriptInv, FeedInv, FeedOrder
    <3> QED BY <1>1, <3>2, <3>3
  <2> QED BY <2>1, <2>2 DEF Hidden
<1>6. SessionInv' /\ UsedInv'
  <2>1. UsedInv'
    BY <1>1 DEF TranscriptInv, UsedInv
  <2> QED BY <1>1, <2>1, SessionStill DEF TranscriptInv
<1> QED BY <1>3, <1>4, <1>5, <1>6 DEF TranscriptInv

LEMMA EndSnapshotFailsKeeps ==
    ASSUME TranscriptAssumption, TranscriptInv, EndSnapshotFails
    PROVE  TranscriptInv'
<1>1. /\ owed' = 0 /\ used' = [used EXCEPT !.lost = @ + 1]
      /\ UNCHANGED <<timeline, run, proj, feed, live, buf, base, reading, ahead>>
  BY DEF EndSnapshotFails, session, app
<1>2. UsedInv' /\ used'.runs = used.runs /\ used'.msgs = used.msgs
  <2>1. UsedInv /\ used.lost + 1 \in Nat /\ used.runs \in Nat /\ used.runs <= MaxRuns
    BY DEF TranscriptInv, UsedInv
  <2> QED BY <1>1, <2>1, UsedGrows
<1>3. AppInv'
  <2>1. 0 \in 0 .. MaxRuns
    BY DEF TranscriptAssumption
  <2> QED BY <1>1, <2>1 DEF TranscriptInv, AppInv
<1>4. FeedInv' /\ SessionInv'
  BY <1>1, <1>2, FeedStill, SessionStill DEF TranscriptInv
<1>5. Hidden'
  BY <1>1 DEF TranscriptInv, Hidden
<1> QED BY <1>2, <1>3, <1>4, <1>5 DEF TranscriptInv

LEMMA ParentSnapshotKeeps ==
    ASSUME TranscriptAssumption, TranscriptInv, ParentSnapshot
    PROVE  TranscriptInv'
<1> DEFINE s == Receive(<<messages_snapshot_envelope(run)>>)
<1>1. /\ live' = s.live /\ buf' = s.buf /\ ahead' = (ahead \/ feed # <<>>)
      /\ used' = [used EXCEPT !.parents = @ + 1]
      /\ UNCHANGED <<timeline, run, proj, feed, owed, base, reading>>
  BY DEF ParentSnapshot, session
<1>2. /\ LiveGood(s.live) /\ s.buf \in Seq(ContentEvs) /\ NoGeneric(s.live)
      /\ \A t \in s.live.sub : IsTask(timeline, t)
  BY SnapshotApplied
<1> HIDE DEF s
<1>3. UsedInv' /\ used'.runs = used.runs /\ used'.msgs = used.msgs
  <2>1. UsedInv /\ used.parents + 1 \in Nat /\ used.runs \in Nat /\ used.runs <= MaxRuns
    BY DEF TranscriptInv, UsedInv
  <2> QED BY <1>1, <2>1, UsedGrows
<1>4. AppInv'
  <2>1. owed \in 0 .. MaxRuns /\ Cardinality(reading) <= 1
    BY DEF TranscriptInv, AppInv
  <2> QED BY <1>1, <1>2, <2>1 DEF AppInv
<1>5. FeedInv' /\ SessionInv'
  BY <1>1, <1>3, FeedStill, SessionStill DEF TranscriptInv
<1>6. Hidden'
  <2>1. \A t \in live'.sub : IsTask(timeline', t)
    BY <1>1, <1>2
  <2>2. ~ahead' => DOMAIN feed' = {}
    <3>1. ~ahead' => feed' = <<>>
      BY <1>1
    <3>2. DOMAIN <<>> = {}
      OBVIOUS
    <3> QED BY <3>1, <3>2
  <2> QED BY <2>1, <2>2 DEF Hidden
<1> QED BY <1>3, <1>4, <1>5, <1>6 DEF TranscriptInv

LEMMA FrameKeeps ==
    ASSUME TranscriptInv, Frame
    PROVE  TranscriptInv'
<1>1. /\ live' = Flushed(live, buf) /\ buf' = <<>>
      /\ UNCHANGED <<timeline, run, proj, feed, owed, base, reading, ahead, used>>
  BY DEF Frame, session
<1>2. Keeps(live', live)
  BY <1>1, FlushKeeps DEF TranscriptInv, AppInv
<1>3. AppInv'
  <2>1. <<>> \in Seq(ContentEvs)
    OBVIOUS
  <2> QED BY <1>1, <1>2, <2>1 DEF TranscriptInv, AppInv, Keeps
<1>4. Hidden'
  BY <1>1, <1>2 DEF TranscriptInv, Hidden, Keeps
<1>5. FeedInv' /\ SessionInv'
  BY <1>1, FeedStill, SessionStill DEF TranscriptInv
<1>6. UsedInv'
  BY <1>1 DEF TranscriptInv, UsedInv
<1> QED BY <1>3, <1>4, <1>5, <1>6 DEF TranscriptInv

LEMMA ReadKeeps ==
    ASSUME TranscriptInv, ReadChat \/ ReadAnswered
    PROVE  TranscriptInv'
<1>1. UNCHANGED <<timeline, run, proj, feed, owed, live, buf, ahead>>
  BY DEF ReadChat, ReadAnswered, session
<1>2. Cardinality(reading') <= 1
  <2>1. CASE ReadChat
    <3>1. Cardinality({mapMessagesFromAcpSnapshot}) = 1
      BY FS_Singleton
    <3> QED BY <2>1, <3>1 DEF ReadChat
  <2>2. CASE ReadAnswered
    <3>1. Cardinality({}) = 0
      BY FS_EmptySet
    <3> QED BY <2>2, <3>1 DEF ReadAnswered
  <2> QED BY <2>1, <2>2
<1>3. UsedInv' /\ used'.runs = used.runs /\ used'.msgs = used.msgs
  <2>1. UsedInv /\ used.reads + 1 \in Nat /\ used.runs \in Nat /\ used.runs <= MaxRuns
    BY DEF TranscriptInv, UsedInv
  <2>2. CASE ReadChat
    <3>1. used' = [used EXCEPT !.reads = used.reads + 1]
      BY <2>2 DEF ReadChat
    <3> QED BY <2>1, <3>1, UsedGrows
  <2>3. CASE ReadAnswered
    BY <2>1, <2>3 DEF ReadAnswered, UsedInv
  <2> QED BY <2>2, <2>3
<1>4. AppInv'
  BY <1>1, <1>2 DEF TranscriptInv, AppInv
<1>5. FeedInv' /\ SessionInv'
  BY <1>1, <1>3, FeedStill, SessionStill DEF TranscriptInv
<1>6. Hidden'
  BY <1>1 DEF TranscriptInv, Hidden
<1> QED BY <1>3, <1>4, <1>5, <1>6 DEF TranscriptInv

-----------------------------------------------------------------------------
(* The specification. *)

LEMMA InitInv ==
    ASSUME TranscriptAssumption, Init
    PROVE  TranscriptInv
<1>1. UsedInv
  BY DEF Init, UsedInv, TranscriptAssumption
<1>2. SessionInv
  <2>1. NoTool \in ToolProjs /\ ~NoTool.sub
    BY DEF NoTool, ToolProjs, Texts, Statuses
  <2>2. NoProj \in Projs /\ \A t \in Tools : ~NoProj.tools[t].sub
    BY <2>1 DEF NoProj, Projs
  <2>3. TimelineOf(<<>>, 0)
    BY DEF TimelineOf
  <2> QED BY <2>2, <2>3 DEF Init, SessionInv
<1>3. FeedInv
  <2>1. feed = <<>> /\ run = 0 /\ owed = 0
    BY DEF Init
  <2>2. feed \in Seq(Seq(StreamEvs)) /\ DOMAIN feed = {} /\ Len(feed) = 0
    BY <2>1
  <2>3. Len(feed) <= MaxLag + 1
    BY <2>2 DEF TranscriptAssumption
  <2>4. FeedOrder
    BY <2>1, <2>2 DEF FeedOrder
  <2>5. Announced
    BY <2>2 DEF Announced
  <2> QED BY <2>2, <2>3, <2>4, <2>5 DEF FeedInv
<1>4. LiveGood(live) /\ NoGeneric(live) /\ live.sub = {}
  BY FreshLive DEF Init
<1>5. AppInv
  <2>1. Cardinality(reading) = 0
    BY FS_EmptySet DEF Init
  <2>2. owed \in 0 .. MaxRuns /\ buf \in Seq(ContentEvs) /\ ahead \in BOOLEAN
    <3>1. owed = 0 /\ buf = <<>> /\ ahead = FALSE
      BY DEF Init
    <3>2. 0 \in 0 .. MaxRuns
      BY DEF TranscriptAssumption
    <3>3. <<>> \in Seq(ContentEvs)
      OBVIOUS
    <3> QED BY <3>1, <3>2, <3>3
  <2> QED BY <1>4, <2>1, <2>2 DEF AppInv
<1>6. Hidden
  BY <1>4 DEF Hidden
<1> QED BY <1>1, <1>2, <1>3, <1>5, <1>6 DEF TranscriptInv

LEMMA StepKeeps ==
    ASSUME TranscriptAssumption, TranscriptInv, [Next]_vars
    PROVE  TranscriptInv'
<1>1. CASE StartRun
  BY <1>1, StartRunKeeps
<1>2. CASE EndRun
  BY <1>2, EndRunKeeps
<1>3. CASE \E kind \in {"text", "thought"} : Speak(kind)
  BY <1>3, SpeakKeeps
<1>4. CASE \E t \in Tools, how \in Updates : ToolUpdate(t, how)
  BY <1>4, ToolUpdateKeeps
<1>5. CASE Deliver
  BY <1>5, DeliverKeeps
<1>6. CASE EndSnapshot
  BY <1>6, EndSnapshotKeeps
<1>7. CASE EndSnapshotFails
  BY <1>7, EndSnapshotFailsKeeps
<1>8. CASE ParentSnapshot
  BY <1>8, ParentSnapshotKeeps
<1>9. CASE Frame
  BY <1>9, FrameKeeps
<1>10. CASE ReadChat \/ ReadAnswered
  BY <1>10, ReadKeeps
<1>11. CASE UNCHANGED vars
  <2>1. UNCHANGED <<timeline, run, proj, feed, owed, live, buf, reading, ahead, used>>
    BY <1>11 DEF vars
  <2>2. UsedInv' /\ AppInv'
    BY <2>1 DEF TranscriptInv, UsedInv, AppInv
  <2>3. FeedInv' /\ SessionInv'
    BY <2>1, FeedStill, SessionStill DEF TranscriptInv
  <2>4. Hidden'
    BY <2>1 DEF TranscriptInv, Hidden
  <2> QED BY <2>2, <2>3, <2>4 DEF TranscriptInv
<1> QED BY <1>1, <1>2, <1>3, <1>4, <1>5, <1>6, <1>7, <1>8, <1>9, <1>10, <1>11 DEF Next

\* The inductive invariant: every handler of the session, the pump and the app keeps
\* it.  The clauses about the events on their way are what the app relies on when a
\* call turns out to be a sub-agent's.
THEOREM TranscriptInvariant == Spec => []TranscriptInv
<1>1. Init => TranscriptInv
  BY TranscriptAssumption, InitInv
<1>2. TranscriptInv /\ [Next]_vars => TranscriptInv'
  BY TranscriptAssumption, StepKeeps
<1> QED BY <1>1, <1>2, PTL DEF Spec

\* The app's live state of a thread keeps its bound MAX_MESSAGES_PER_THREAD, and
\* the books which row speaks for a call or its result (toolCallIdToMessageId,
\* toolResultIdToMessageId) only ever name a row of that call, whatever the order of
\* events and snapshots (upsertMessage, rebaseToolBookkeeping).
THEOREM TranscriptTypeCorrect == Spec => []TranscriptTypeOK
<1>1. TranscriptInv => TranscriptTypeOK
  <2> SUFFICES ASSUME TranscriptInv PROVE TranscriptTypeOK
    OBVIOUS
  <2>1. run \in 0 .. MaxRuns
    <3>1. run \in 0 .. used.runs /\ used.runs \in Nat /\ used.runs <= MaxRuns
      BY DEF TranscriptInv, SessionInv, UsedInv
    <3>2. MaxRuns \in Nat
      BY TranscriptAssumption DEF TranscriptAssumption
    <3> QED BY <3>1, <3>2
  <2>2. LiveGood(live)
    BY DEF TranscriptInv, AppInv
  <2>3. \A t \in Tools : {live.callOf[t], live.resOf[t]} \subseteq
                            {NoId, CallId(t), ResId(t)} \cup {RunResId(t, r) : r \in 1 .. MaxRuns}
    BY <2>2 DEF LiveGood, LiveSound, LiveShape, BooksOf, ResultIds
  <2>4. live.sub \subseteq Tools /\ Len(live.msgs) <= MaxMsgs
    BY <2>2 DEF LiveGood, LiveSound, LiveShape
  <2> QED BY <2>1, <2>3, <2>4 DEF TranscriptTypeOK, TranscriptInv, FeedInv, AppInv
<1> QED BY <1>1, TranscriptInvariant, PTL

\* As many ids as rows.
LEMMA IdsCounted ==
    ASSUME NEW s \in Seq(Rows), Distinct(s)
    PROVE  Cardinality(Ids(s)) = Len(s)
<1> DEFINE n == Len(s)
           f == [i \in 1 .. n |-> s[i].id]
<1>1. n \in Nat /\ DOMAIN s = 1 .. n
  OBVIOUS
<1> HIDE DEF n
<1>2. f \in Bijection(1 .. n, Ids(s))
  <2>1. \A i, j \in 1 .. n : f[i] = f[j] => i = j
    BY <1>1 DEF Distinct
  <2>2. \A i \in 1 .. n : f[i] \in Ids(s)
    BY <1>1 DEF Ids
  <2>3. \A x \in Ids(s) : \E i \in 1 .. n : f[i] = x
    BY <1>1 DEF Ids
  <2> QED BY <2>1, <2>2, <2>3 DEF Bijection, Injection, Surjection, IsInjective
<1> HIDE DEF f
<1>3. IsFiniteSet(1 .. n) /\ Cardinality(1 .. n) = n
  BY <1>1, FS_Interval
<1>4. Cardinality(Ids(s)) = n
  BY <1>1, <1>2, <1>3, FS_Bijection DEF ExistsBijection
<1> QED BY <1>4 DEF n

\* In the app's live state no message is twice, a call and its result have one row
\* each although the stream and the snapshots name the result differently and a
\* snapshot may come in the middle of the call (rebaseToolBookkeeping), and a call
\* known to be a sub-agent's has no generic row beside its card
\* (suppressedToolCallIds) unless a snapshot is ahead of the stream.
THEOREM RowsOnce == Spec => []OneRowEach
<1>1. TranscriptInv => OneRowEach
  <2> SUFFICES ASSUME TranscriptInv PROVE OneRowEach
    OBVIOUS
  <2> DEFINE msgs == live.msgs
  <2>1. /\ LiveGood(live) /\ msgs \in Seq(Rows) /\ Distinct(msgs) /\ Booked(msgs, live.callOf, live.resOf)
        /\ ~ahead => NoGeneric(live)
    BY DEF TranscriptInv, AppInv, LiveGood, LiveSound, LiveShape
  <2>2. Cardinality(Ids(msgs)) = Len(msgs)
    BY <2>1, IdsCounted
  <2>3. ASSUME NEW i \in DOMAIN msgs, NEW j \in DOMAIN msgs,
               msgs[i].call # 0, msgs[i].call = msgs[j].call, msgs[i].role = msgs[j].role
        PROVE  i = j
    <3> DEFINE m == msgs[i]
               o == msgs[j]
    <3>1. m \in Rows /\ o \in Rows
      BY <2>1
    <3>2. /\ m.role = "assistant" => live.callOf[m.call] = m.id /\ live.callOf[o.call] = o.id
          /\ m.role = "tool" => live.resOf[m.call] = m.id /\ live.resOf[o.call] = o.id
      BY <2>1, <2>3 DEF Booked
    <3> HIDE DEF m, o
    <3>3. m.role \in {"assistant", "tool", "activity"}
          /\ (m.role = "activity" => m.id = CardId(m.call) /\ o.id = CardId(o.call))
      BY <3>1, <2>3 DEF Rows, RowOfKind, m, o
    <3>4. m.id = o.id
      BY <2>3, <3>2, <3>3 DEF m, o
    <3> QED BY <2>1, <3>4 DEF Distinct, m, o
  <2>4. ~ahead => \A i \in DOMAIN msgs : msgs[i].role \in {"assistant", "tool"} => msgs[i].call \notin live.sub
    BY <2>1 DEF NoGeneric
  <2> QED BY <2>2, <2>3, <2>4 DEF OneRowEach
<1> QED BY <1>1, TranscriptInvariant, PTL
=============================================================================
