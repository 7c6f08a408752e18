------------------------- MODULE QueueServiceProofs -------------------------
(***************************************************************************)
(* Proofs about the message queue for any number of submissions, steering  *)
(* tasks, runs, restarts and faults.                                       *)
(*                                                                         *)
(* QueueShape is the type of the state the proofs rely on.  EditingInv,    *)
(* PlacesInv and ViewInv are inductive with it and hold with steering:     *)
(* the message under edit stays next, every message is in one place, and   *)
(* the queue agrees with the session.  DeliveryInv is about a bridge that  *)
(* does not steer (SteerModes = {}): a steered message is neither reserved *)
(* nor recorded as sent, and it overtakes the messages queued before it,   *)
(* so at-most-once delivery, durability and order hold without steering    *)
(* only.                                                                   *)
(***************************************************************************)
EXTENDS QueueService, TLAPS, SequenceTheorems, FiniteSetTheorems, WellFoundedInduction

-----------------------------------------------------------------------------
(* Sequences: the queue, the steering lane and the line. *)

\* A non-empty set of numbers has a least one, which Min returns.
LEMMA MinExists ==
    ASSUME NEW T, T \subseteq Nat, T # {}
    PROVE  Min(T) \in T /\ \A n \in T : Min(T) <= n
<1> DEFINE R == OpToRel(<, Nat)
<1>1. PICK x \in T : \A y \in T : ~(<<y, x>> \in R)
  <2>1. IsWellFoundedOn(R, Nat)
    BY NatLessThanWellFounded
  <2> HIDE DEF R
  <2> QED BY <2>1, WFMin
<1>2. \A y \in T : ~(y < x)
  <2> SUFFICES ASSUME NEW y \in T, y < x PROVE FALSE
    OBVIOUS
  <2>1. <<y, x>> \in R
    BY DEF OpToRel
  <2> QED BY <2>1, <1>1
<1>3. \A y \in T : x <= y
  BY <1>2
<1> QED BY <1>3 DEF Min

\* RemoveFirst cuts the sequence at the first place where the element is.
LEMMA RemoveFirstCuts ==
    ASSUME NEW S, NEW q \in Seq(S), NEW e, e \in ToSet(q)
    PROVE  \E i \in 1..Len(q) :
               /\ q[i] = e
               /\ \A j \in 1..(i-1) : q[j] # e
               /\ RemoveFirst(q, e) = SubSeq(q, 1, i-1) \o SubSeq(q, i+1, Len(q))
<1> DEFINE I == {i \in 1..Len(q) : q[i] = e}
           m == Min(I)
<1>1. I \subseteq Nat /\ I # {}
  BY DEF ToSet
<1>2. m \in I /\ \A n \in I : m <= n
  BY <1>1, MinExists
<1>3. SelectInSeq(q, LAMBDA v : v = e) = m
  BY <1>1 DEF SelectInSeq
<1>4. RemoveFirst(q, e) = RemoveAt(q, m)
  BY <1>3, <1>1 DEF RemoveFirst
<1>5. m \in 1..Len(q) /\ q[m] = e /\ \A j \in 1..(m-1) : q[j] # e
  <2> HIDE DEF m
  <2> QED BY <1>2
<1>6. RemoveFirst(q, e) = SubSeq(q, 1, m-1) \o SubSeq(q, m+1, Len(q))
  BY <1>4 DEF RemoveAt
<1> HIDE DEF m
<1> QED BY <1>5, <1>6

\* The elements of the result: those before the cut, then those after it.
LEMMA RemoveFirstAt ==
    ASSUME NEW S, NEW q \in Seq(S), NEW e, e \in ToSet(q)
    PROVE  \E i \in 1..Len(q) :
               /\ q[i] = e
               /\ \A j \in 1..(i-1) : q[j] # e
               /\ RemoveFirst(q, e) \in Seq(S)
               /\ Len(RemoveFirst(q, e)) = Len(q) - 1
               /\ \A j \in 1..(Len(q) - 1) :
                     RemoveFirst(q, e)[j] = IF j < i THEN q[j] ELSE q[j + 1]
<1>1. PICK i \in 1..Len(q) :
               /\ q[i] = e
               /\ \A j \in 1..(i-1) : q[j] # e
               /\ RemoveFirst(q, e) = SubSeq(q, 1, i-1) \o SubSeq(q, i+1, Len(q))
  BY RemoveFirstCuts
<1> DEFINE a == SubSeq(q, 1, i-1)
           b == SubSeq(q, i+1, Len(q))
<1>2. a \in Seq(S) /\ Len(a) = i - 1 /\ \A j \in 1..(i-1) : a[j] = q[j]
  BY SubSeqProperties
<1>3. b \in Seq(S) /\ Len(b) = Len(q) - i /\ \A j \in 1..(Len(q) - i) : b[j] = q[i + j]
  BY SubSeqProperties
<1> HIDE DEF a, b
<1>4. /\ a \o b \in Seq(S)
      /\ Len(a \o b) = Len(a) + Len(b)
      /\ \A j \in 1..(Len(a) + Len(b)) : (a \o b)[j] = IF j <= Len(a) THEN a[j] ELSE b[j - Len(a)]
  BY <1>2, <1>3, ConcatProperties
<1>5. \A j \in 1..(Len(q) - 1) : (a \o b)[j] = IF j < i THEN q[j] ELSE q[j + 1]
  <2> SUFFICES ASSUME NEW j \in 1..(Len(q) - 1)
               PROVE  (a \o b)[j] = IF j < i THEN q[j] ELSE q[j + 1]
    OBVIOUS
  <2>1. CASE j < i
    BY <2>1, <1>2, <1>3, <1>4
  <2>2. CASE j >= i
    <3> DEFINE k == j - Len(a)
    <3>1. k \in 1..(Len(q) - i) /\ i + k = j + 1
      BY <2>2, <1>2
    <3>2. b[k] = q[j + 1]
      BY <3>1, <1>3
    <3>3. (a \o b)[j] = b[k]
      BY <2>2, <1>2, <1>3, <1>4
    <3> QED BY <3>2, <3>3, <2>2
  <2>3. j \in Int /\ i \in Int
    OBVIOUS
  <2>4. j < i \/ j >= i
    BY <2>3
  <2> QED BY <2>1, <2>2, <2>4
<1>6. RemoveFirst(q, e) = a \o b
  BY <1>1 DEF a, b
<1>7. Len(a \o b) = Len(q) - 1
  BY <1>2, <1>3, <1>4
<1> QED BY <1>1, <1>4, <1>5, <1>6, <1>7

LEMMA RemoveFirstAbsent ==
    ASSUME NEW S, NEW q \in Seq(S), NEW e, e \notin ToSet(q)
    PROVE  RemoveFirst(q, e) = q
BY DEF RemoveFirst, ToSet

\* Removing any other element leaves the first one in place.
LEMMA RemoveFirstHead ==
    ASSUME NEW S, NEW q \in Seq(S), NEW e, q # <<>>, Head(q) # e
    PROVE  RemoveFirst(q, e) # <<>> /\ Head(RemoveFirst(q, e)) = Head(q)
<1>1. CASE e \in ToSet(q)
  <2>1. PICK i \in 1..Len(q) :
           /\ q[i] = e
           /\ RemoveFirst(q, e) \in Seq(S)
           /\ Len(RemoveFirst(q, e)) = Len(q) - 1
           /\ \A j \in 1..(Len(q) - 1) :
                 RemoveFirst(q, e)[j] = IF j < i THEN q[j] ELSE q[j + 1]
    BY <1>1, RemoveFirstAt
  <2>2. i > 1 /\ Len(q) >= 2
    BY <2>1
  <2> QED BY <2>1, <2>2
<1>2. CASE e \notin ToSet(q)
  BY <1>2, RemoveFirstAbsent
<1> QED BY <1>1, <1>2

\* Removing the first element leaves the rest.
LEMMA RemoveFirstOfCons ==
    ASSUME NEW S, NEW q \in Seq(S), NEW e \in S
    PROVE  RemoveFirst(<<e>> \o q, e) = q
<1> DEFINE c == <<e>> \o q
           r == RemoveFirst(c, e)
<1>1. c \in Seq(S) /\ Len(c) = Len(q) + 1 /\ c[1] = e /\ \A j \in 1..Len(q) : c[j + 1] = q[j]
  OBVIOUS
<1> HIDE DEF c
<1>2. e \in ToSet(c)
  BY <1>1 DEF ToSet
<1>3. PICK i \in 1..Len(c) :
           /\ c[i] = e
           /\ \A j \in 1..(i-1) : c[j] # e
           /\ r \in Seq(S)
           /\ Len(r) = Len(c) - 1
           /\ \A j \in 1..(Len(c) - 1) : r[j] = IF j < i THEN c[j] ELSE c[j + 1]
  BY <1>1, <1>2, RemoveFirstAt
<1>4. i = 1
  BY <1>1, <1>3
<1> HIDE DEF r
<1>5. Len(r) = Len(q) /\ \A j \in 1..Len(q) : r[j] = q[j]
  BY <1>1, <1>3, <1>4
<1>6. r = q
  BY <1>3, <1>5, SeqEqual
<1> QED BY <1>6 DEF r, c

LEMMA RemoveFirstSeq ==
    ASSUME NEW S, NEW q \in Seq(S), NEW e
    PROVE  RemoveFirst(q, e) \in Seq(S)
BY RemoveFirstAt, RemoveFirstAbsent

\* A sequence without repetitions keeps that and loses just the element.
LEMMA RemoveFirstDistinct ==
    ASSUME NEW S, NEW q \in Seq(S), NEW e, IsInjective(q)
    PROVE  /\ RemoveFirst(q, e) \in Seq(S)
           /\ IsInjective(RemoveFirst(q, e))
           /\ ToSet(RemoveFirst(q, e)) = ToSet(q) \ {e}
<1>1. CASE e \in ToSet(q)
  <2> DEFINE r == RemoveFirst(q, e)
  <2>1. PICK i \in 1..Len(q) :
           /\ q[i] = e
           /\ r \in Seq(S)
           /\ Len(r) = Len(q) - 1
           /\ \A j \in 1..(Len(q) - 1) : r[j] = IF j < i THEN q[j] ELSE q[j + 1]
    BY <1>1, RemoveFirstAt
  <2> HIDE DEF r
  <2>2. \A j, k \in 1..Len(q) : q[j] = q[k] => j = k
    BY DEF IsInjective
  <2>3. \A j, k \in 1..Len(r) : r[j] = r[k] => j = k
    BY <2>1, <2>2
  <2>4. ToSet(r) \subseteq ToSet(q) \ {e}
    BY <2>1, <2>2 DEF ToSet
  <2>5. ASSUME NEW x \in ToSet(q), x # e PROVE x \in ToSet(r)
    <3>1. PICK k \in 1..Len(q) : q[k] = x
      BY DEF ToSet
    <3>2. CASE k < i
      BY <2>1, <3>1, <3>2 DEF ToSet
    <3>3. CASE k > i
      <4>1. k - 1 \in 1..Len(r) /\ r[k - 1] = x
        BY <2>1, <3>1, <3>3
      <4> QED BY <2>1, <4>1 DEF ToSet
    <3> QED BY <2>1, <2>5, <3>1, <3>2, <3>3
  <2> QED BY <2>1, <2>3, <2>4, <2>5 DEF IsInjective, r
<1>2. CASE e \notin ToSet(q)
  BY <1>2, RemoveFirstAbsent
<1> QED BY <1>1, <1>2

LEMMA AppendDistinct ==
    ASSUME NEW S, NEW q \in Seq(S), NEW e \in S, IsInjective(q), e \notin ToSet(q)
    PROVE  /\ Append(q, e) \in Seq(S)
           /\ IsInjective(Append(q, e))
           /\ ToSet(Append(q, e)) = ToSet(q) \cup {e}
<1> DEFINE r == Append(q, e)
<1>1. /\ r \in Seq(S) /\ Len(r) = Len(q) + 1 /\ r[Len(q) + 1] = e
      /\ \A i \in 1..Len(q) : r[i] = q[i]
  BY AppendProperties
<1> HIDE DEF r
<1>2. IsInjective(r)
  BY <1>1 DEF IsInjective, ToSet
<1>3. ToSet(r) = ToSet(q) \cup {e}
  BY <1>1 DEF ToSet
<1> QED BY <1>1, <1>2, <1>3 DEF r

LEMMA TailDistinct ==
    ASSUME NEW S, NEW q \in Seq(S), q # <<>>, IsInjective(q)
    PROVE  /\ Head(q) \in S /\ Head(q) \in ToSet(q)
           /\ Tail(q) \in Seq(S)
           /\ IsInjective(Tail(q))
           /\ ToSet(Tail(q)) = ToSet(q) \ {Head(q)}
<1> DEFINE r == Tail(q)
           h == Head(q)
<1>1. /\ r \in Seq(S) /\ Len(r) = Len(q) - 1 /\ h = q[1] /\ Len(q) >= 1
      /\ \A i \in 1..Len(r) : r[i] = q[i + 1]
  OBVIOUS
<1> HIDE DEF r, h
<1>2. h \in S /\ h \in ToSet(q)
  BY <1>1 DEF ToSet
<1>3. IsInjective(r)
  BY <1>1 DEF IsInjective
<1>4. ToSet(r) \subseteq ToSet(q) \ {h}
  BY <1>1 DEF ToSet, IsInjective
<1>5. ASSUME NEW x \in ToSet(q), x # h PROVE x \in ToSet(r)
  <2>1. PICK k \in 1..Len(q) : q[k] = x
    BY DEF ToSet
  <2>2. k - 1 \in 1..Len(r) /\ r[k - 1] = x
    BY <1>1, <1>5, <2>1
  <2> QED BY <1>1, <2>2 DEF ToSet
<1> QED BY <1>1, <1>2, <1>3, <1>4, <1>5 DEF r, h

LEMMA ConcatDistinct ==
    ASSUME NEW S, NEW p \in Seq(S), NEW q \in Seq(S)
    PROVE  /\ p \o q \in Seq(S)
           /\ ToSet(p \o q) = ToSet(p) \cup ToSet(q)
           /\ IsInjective(p) /\ IsInjective(q) /\ ToSet(p) \cap ToSet(q) = {} => IsInjective(p \o q)
<1> DEFINE r == p \o q
<1>1. /\ r \in Seq(S) /\ Len(r) = Len(p) + Len(q)
      /\ \A i \in 1..(Len(p) + Len(q)) : r[i] = IF i <= Len(p) THEN p[i] ELSE q[i - Len(p)]
  BY ConcatProperties
<1> HIDE DEF r
<1>2. ToSet(r) \subseteq ToSet(p) \cup ToSet(q)
  <2> SUFFICES ASSUME NEW i \in 1..Len(r) PROVE r[i] \in ToSet(p) \cup ToSet(q)
    BY <1>1 DEF ToSet
  <2>1. CASE i <= Len(p)
    BY <2>1, <1>1 DEF ToSet
  <2>2. CASE i > Len(p)
    <3>1. i - Len(p) \in 1..Len(q) /\ r[i] = q[i - Len(p)]
      BY <2>2, <1>1
    <3> QED BY <3>1 DEF ToSet
  <2>3. i \in Int /\ Len(p) \in Int
    BY <1>1
  <2> QED BY <2>1, <2>2, <2>3
<1>3. ToSet(p) \subseteq ToSet(r)
  BY <1>1 DEF ToSet
<1>4. ASSUME NEW k \in 1..Len(q) PROVE q[k] \in ToSet(r)
  <2> DEFINE l == k + Len(p)
  <2>1. l \in 1..Len(r) /\ l - Len(p) = k /\ ~(l <= Len(p))
    BY <1>1
  <2> HIDE DEF l
  <2>2. r[l] = q[k]
    BY <1>1, <2>1
  <2>3. DOMAIN r = 1..Len(r)
    BY <1>1
  <2> QED BY <2>1, <2>2, <2>3 DEF ToSet
<1>5. ToSet(q) \subseteq ToSet(r)
  BY <1>4 DEF ToSet
<1>6. ASSUME IsInjective(p), IsInjective(q), ToSet(p) \cap ToSet(q) = {}
      PROVE  IsInjective(r)
  <2> SUFFICES ASSUME NEW i \in 1..Len(r), NEW j \in 1..Len(r), r[i] = r[j], i < j
               PROVE  FALSE
    BY <1>1 DEF IsInjective
  <2>1. CASE j <= Len(p)
    BY <2>1, <1>1, <1>6 DEF IsInjective
  <2>2. CASE i > Len(p)
    <3> DEFINE k == i - Len(p)
               l == j - Len(p)
    <3>1. k \in 1..Len(q) /\ r[i] = q[k] /\ l \in 1..Len(q) /\ r[j] = q[l] /\ k # l
      BY <2>2, <1>1
    <3> HIDE DEF k, l
    <3>2. \A x, y \in 1..Len(q) : q[x] = q[y] => x = y
      BY <1>6 DEF IsInjective
    <3> QED BY <3>1, <3>2
  <2>3. CASE i <= Len(p) /\ j > Len(p)
    <3>1. /\ i \in 1..Len(p) /\ r[i] = p[i]
          /\ j - Len(p) \in 1..Len(q) /\ r[j] = q[j - Len(p)]
      BY <2>3, <1>1
    <3>2. p[i] \in ToSet(p) /\ q[j - Len(p)] \in ToSet(q)
      BY <3>1 DEF ToSet
    <3> QED BY <3>1, <3>2, <1>6
  <2>4. i \in Int /\ j \in Int /\ Len(p) \in Int
    BY <1>1
  <2> QED BY <2>1, <2>2, <2>3, <2>4
<1> QED BY <1>1, <1>2, <1>3, <1>5, <1>6 DEF r

LEMMA SingleDistinct ==
    ASSUME NEW S, NEW e \in S
    PROVE  /\ <<e>> \in Seq(S) /\ IsInjective(<<e>>) /\ ToSet(<<e>>) = {e}
           /\ <<>> \in Seq(S) /\ IsInjective(<<>>) /\ ToSet(<<>>) = {}
BY DEF IsInjective, ToSet

LEMMA HeadAndTail ==
    ASSUME NEW S, NEW q \in Seq(S), q # <<>>
    PROVE  <<Head(q)>> \o Tail(q) = q
<1> DEFINE h == Head(q)
           t == Tail(q)
           r == <<h>> \o t
<1>1. /\ h \in S /\ h = q[1] /\ Len(q) >= 1 /\ t \in Seq(S) /\ Len(t) = Len(q) - 1
      /\ \A i \in 1..Len(t) : t[i] = q[i + 1]
  OBVIOUS
<1> HIDE DEF h, t
<1>2. r \in Seq(S) /\ Len(r) = Len(t) + 1 /\ r[1] = h /\ \A i \in 2..Len(r) : r[i] = t[i - 1]
  BY <1>1
<1> HIDE DEF r
<1>3. \A i \in 1..Len(q) : r[i] = q[i]
  <2> SUFFICES ASSUME NEW i \in 1..Len(q), i # 1 PROVE r[i] = q[i]
    BY <1>1, <1>2
  <2>1. r[i] = t[i - 1] /\ t[i - 1] = q[(i - 1) + 1]
    BY <1>1, <1>2
  <2> QED BY <2>1
<1>4. r = q
  BY <1>1, <1>2, <1>3, SeqEqual
<1> QED BY <1>4 DEF r, h, t

LEMMA ConsDistinct ==
    ASSUME NEW S, NEW q \in Seq(S), NEW e \in S
    PROVE  /\ <<e>> \o q \in Seq(S)
           /\ ToSet(<<e>> \o q) = {e} \cup ToSet(q)
           /\ IsInjective(q) /\ e \notin ToSet(q) => IsInjective(<<e>> \o q)
<1> DEFINE p == <<e>>
<1>1. p \in Seq(S) /\ IsInjective(p) /\ ToSet(p) = {e}
  BY SingleDistinct
<1> HIDE DEF p
<1>2. /\ p \o q \in Seq(S)
      /\ ToSet(p \o q) = ToSet(p) \cup ToSet(q)
      /\ IsInjective(q) /\ ToSet(p) \cap ToSet(q) = {} => IsInjective(p \o q)
  BY <1>1, ConcatDistinct
<1>3. e \notin ToSet(q) => ToSet(p) \cap ToSet(q) = {}
  BY <1>1
<1> QED BY <1>1, <1>2, <1>3 DEF p

-----------------------------------------------------------------------------
(* The invariant. *)

RuntimeFields == {"items", "pending_steers", "editing", "steer_prepare", "steer", "turn",
                  "generation", "tools", "known", "running", "starting", "retry",
                  "interactions", "completions", "error"}

\* The stages of drain_pending_steers in which a message is with the task.
Carrying == {"steering", "handoff", "accepted", "rejected"}

TasksShape ==
    /\ DOMAIN tasks = SteerTasks
    /\ \A w \in SteerTasks :
        /\ DOMAIN tasks[w] = {"stage", "entry", "target", "fresh"}
        /\ tasks[w].stage \in Carrying => tasks[w].entry \in Submissions

SubmissionsShape ==
    /\ results \in [Submissions -> {"none", "queued", "sent"}]
    /\ pending \subseteq Submissions
    /\ store \in [sent : SUBSET Submissions, pending : SUBSET Submissions]
    /\ faults \in Nat

QueueShape ==
    /\ DOMAIN rt = RuntimeFields
    /\ rt.items \in Seq(Submissions) /\ rt.pending_steers \in Seq(Submissions)
    /\ rt.steer \in {None} \cup SteersInFlight
    /\ actor \in {None} \cup TurnRequests
    /\ TasksShape
    /\ SubmissionsShape
    /\ prompted \in [Submissions -> Nat]
    /\ line \in Seq(Submissions)
    /\ generation \in Nat

\* The places a message can be in.
Items == ToSet(rt.items)
Lane == ToSet(rt.pending_steers)
Steering == IF rt.steer = None THEN {} ELSE {rt.steer.entry}
Starting == IF ~Free /\ actor.stage \in {"asking", "refused"} THEN {actor.entry} ELSE {}
Places == Items \cup Lane \cup Steering \cup Starting

\* Submissions send_message answers from memory or refuses to take again.
Known == {s \in Submissions : results[s] # "none" \/ s \in pending}

\* Messages the agent has accepted as steers, before the task says so.
Taken == {s \in Steering : \E w \in SteerTasks : At(w, "accepted") /\ tasks[w].entry = s}

NoRepetition == IsInjective(rt.items) /\ IsInjective(rt.pending_steers) /\ IsInjective(line)

PlacesApart ==
    /\ Items \cap Lane = {}
    /\ (Items \cup Lane) \cap Steering = {}
    /\ (Items \cup Lane \cup Steering) \cap Starting = {}

AllKnown == Places \cup ToSet(line) \subseteq Known

NoneLost == \A s \in ToSet(line) : prompted[s] = 0 => s \in Places

AcceptedIsPrompted == \A w \in SteerTasks : At(w, "accepted") => prompted[tasks[w].entry] > 0

\* Before any fault a message is carried by the one task that took it from the
\* lane, and leaves the line when the agent gets it.
FaultFree ==
    faults = 0 =>
        /\ \A w \in SteerTasks : tasks[w].stage \in Carrying => tasks[w].entry \in Steering
        /\ \A v, w \in SteerTasks :
            tasks[v].stage \in Carrying /\ tasks[w].stage \in Carrying => v = w
        /\ Places \ Taken = ToSet(line)

PlacesInv ==
    NoRepetition /\ PlacesApart /\ AllKnown /\ NoneLost /\ AcceptedIsPrompted /\ FaultFree

\* Whoever starts a turn has seen that no message is being edited.
EditingInv == EditedStaysNext /\ (~Free => rt.editing = None)

-----------------------------------------------------------------------------
(* Shape. *)

LEMMA ShapeInit == Init => QueueShape
BY SMTT(30) DEF Init, QueueShape, SubmissionsShape, TasksShape, RuntimeFields, NewRuntime, NoTask, SteersInFlight, TurnRequests, Carrying

\* A task that is spawned carries no message yet.
LEMMA SpawnTasks ==
    ASSUME TasksShape, NEW c, SpawnSteerIf(c)
    PROVE  /\ TasksShape'
           /\ \A w \in SteerTasks :
                  tasks'[w] = tasks[w] \/ (tasks'[w].stage = "spawned" /\ tasks[w].stage = "idle")
<1>1. CASE tasks' = tasks
  BY <1>1 DEF TasksShape
<1>2. CASE tasks' # tasks
  <2> DEFINE w == CHOOSE w \in SteerTasks : tasks[w].stage = "idle"
             new == [NoTask EXCEPT !.stage = "spawned"]
  <2>1. /\ \E v \in SteerTasks : tasks[v].stage = "idle"
        /\ tasks' = [tasks EXCEPT ![w] = new]
    BY <1>2 DEF SpawnSteerIf, CanSpawn, Spawned
  <2>2. w \in SteerTasks /\ tasks[w].stage = "idle"
    BY <2>1
  <2>3. DOMAIN new = {"stage", "entry", "target", "fresh"} /\ new.stage = "spawned"
    BY DEF NoTask
  <2> HIDE DEF w, new
  <2> QED BY <2>1, <2>2, <2>3 DEF TasksShape, Carrying
<1> QED BY <1>1, <1>2

LEMMA GoesTasks ==
    ASSUME TasksShape, NEW w \in SteerTasks, NEW stage, Goes(w, stage),
           stage \in Carrying => tasks[w].entry \in Submissions
    PROVE  /\ TasksShape'
           /\ tasks'[w].stage = stage /\ tasks'[w].entry = tasks[w].entry
           /\ \A v \in SteerTasks : v # w => tasks'[v] = tasks[v]
BY DEF TasksShape, Goes

LEMMA EndsTasks ==
    ASSUME TasksShape, NEW w \in SteerTasks, Ends(w)
    PROVE  /\ TasksShape'
           /\ tasks'[w].stage = "idle"
           /\ \A v \in SteerTasks : v # w => tasks'[v] = tasks[v]
<1> DEFINE new == NoTask
<1>1. DOMAIN new = {"stage", "entry", "target", "fresh"} /\ new.stage = "idle"
  BY DEF NoTask
<1> HIDE DEF new
<1>2. tasks' = [tasks EXCEPT ![w] = new]
  BY DEF Ends, new
<1> QED BY <1>1, <1>2 DEF TasksShape, Carrying

\* A new epoch leaves the tasks where they are.
LEMMA EpochTasks ==
    ASSUME TasksShape
    PROVE  /\ DOMAIN EpochBumped = SteerTasks
           /\ \A w \in SteerTasks :
                /\ DOMAIN EpochBumped[w] = {"stage", "entry", "target", "fresh"}
                /\ EpochBumped[w].stage = tasks[w].stage /\ EpochBumped[w].entry = tasks[w].entry
BY DEF EpochBumped, TasksShape

\* What a step of the phone's calls does to the shape.
LEMMA PhoneShape ==
    ASSUME QueueShape, PhoneCalls PROVE QueueShape'
<1> USE DEF RuntimeFields, Carrying, sessionVars
<1>1. PICK s \in Submissions :
        \/ \E ok \in BOOLEAN : SendKnown(s, ok) \/ SendQueued(s, ok) \/ CancelMessage(s, ok)
        \/ SendNow(s) \/ SendNotReserved(s)
        \/ StartMessageEdit(s) \/ EndMessageEdit(s) \/ SteerMessage(s)
  BY DEF PhoneCalls
<1>2. ASSUME NEW ok \in BOOLEAN, SendKnown(s, ok) PROVE QueueShape'
  <2>1. SubmissionsShape'
    BY <1>2 DEF SendKnown, Persist, Write, Stored, Fault, QueueShape, SubmissionsShape
  <2> QED BY <1>2, <2>1 DEF SendKnown, queueVars, history, QueueShape, TasksShape
<1>3. ASSUME NEW ok \in BOOLEAN, SendQueued(s, ok) PROVE QueueShape'
  <2>1. SubmissionsShape'
    BY <1>3 DEF SendQueued, Remember, Persist, Write, Stored, Fault, QueueShape, SubmissionsShape
  <2> QED BY <1>3, <2>1 DEF SendQueued, QueueShape, TasksShape
<1>4. ASSUME NEW ok \in BOOLEAN, CancelMessage(s, ok) PROVE QueueShape'
  <2>1. RemoveFirst(rt.items, s) \in Seq(Submissions)
    BY RemoveFirstSeq DEF QueueShape
  <2>2. RemoveFirst(rt.pending_steers, s) \in Seq(Submissions)
    BY RemoveFirstSeq DEF QueueShape
  <2>3. RemoveFirst(line, s) \in Seq(Submissions)
    BY RemoveFirstSeq DEF QueueShape
  <2>4. SubmissionsShape'
    BY <1>4 DEF CancelMessage, ForgetSubmission, Persist, Write, Stored, Fault, QueueShape, SubmissionsShape
  <2> QED BY <1>4, <2>1, <2>2, <2>3, <2>4 DEF CancelMessage, QueueShape, TasksShape
<1>5. CASE SendNow(s)
  <2>1. SubmissionsShape'
    BY <1>5 DEF SendNow, Reserve, Persist, Write, Stored, Fault, QueueShape, SubmissionsShape
  <2>2. actor' \in TurnRequests
    BY <1>5 DEF SendNow, Asking, TurnRequests
  <2> QED BY <1>5, <2>1, <2>2 DEF SendNow, QueueShape, TasksShape
<1>6. CASE SendNotReserved(s)
  <2>1. SubmissionsShape'
    BY <1>6 DEF SendNotReserved, ReserveFails, Stored, Fault, QueueShape, SubmissionsShape
  <2> QED BY <1>6, <2>1 DEF SendNotReserved, queueVars, history, QueueShape, TasksShape
<1>7. CASE StartMessageEdit(s)
  BY <1>7 DEF StartMessageEdit, submissionVars, SubmissionsShape, history, QueueShape, TasksShape
<1>8. CASE EndMessageEdit(s)
  BY <1>8 DEF EndMessageEdit, submissionVars, SubmissionsShape, history, QueueShape, TasksShape
<1>9. CASE SteerMessage(s)
  <2>1. RemoveFirst(rt.items, s) \in Seq(Submissions)
    BY RemoveFirstSeq DEF QueueShape
  <2>2. SpawnSteerIf(TRUE)
    BY <1>9 DEF SteerMessage
  <2>3. TasksShape'
    BY <2>2, SpawnTasks DEF QueueShape
  <2> QED BY <1>9, <2>1, <2>3 DEF SteerMessage, submissionVars, SubmissionsShape, history, QueueShape
<1> QED BY <1>1, <1>2, <1>3, <1>4, <1>5, <1>6, <1>7, <1>8, <1>9

\* The dispatch of the next message and the agent's answer to it.
LEMMA DispatchShape ==
    ASSUME QueueShape,
           DrainThreadQueue \/ RetryTimer \/ TurnAnswered \/ DispatchReturns \/ \E ok \in BOOLEAN : StatusFlush(ok)
    PROVE  QueueShape'
<1> USE DEF RuntimeFields, TasksShape, Carrying, sessionVars
<1>1. ASSUME NEW ok \in BOOLEAN, StatusFlush(ok) PROVE QueueShape'
  <2>1. SubmissionsShape'
    BY <1>1 DEF StatusFlush, Persist, Write, Stored, Fault, QueueShape, SubmissionsShape
  <2> QED BY <1>1, <2>1 DEF StatusFlush, queueVars, history, QueueShape
<1>2. CASE DrainThreadQueue
  <2>1. CASE HasBlockers(rt) /\ UNCHANGED <<rt, actor, submissionVars, faults, disposed>>
    BY <1>2, <2>1 DEF DrainThreadQueue, submissionVars, SubmissionsShape, QueueShape
  <2>2. CASE /\ rt' = [rt EXCEPT !.completions = {}]
             /\ UNCHANGED <<actor, submissionVars, faults>>
    BY <1>2, <2>2 DEF DrainThreadQueue, submissionVars, SubmissionsShape, QueueShape
  <2>3. CASE /\ rt.items # <<>>
             /\ Reserve(Head(rt.items))
             /\ rt' = [rt EXCEPT !.items = Tail(@), !.starting = TRUE, !.error = FALSE]
             /\ actor' = Asking("drain", Head(rt.items))
    <3>1. Head(rt.items) \in Submissions /\ Tail(rt.items) \in Seq(Submissions)
      BY <2>3 DEF QueueShape
    <3>2. SubmissionsShape'
      BY <2>3, <3>1 DEF Reserve, Persist, Write, Stored, Fault, QueueShape, SubmissionsShape
    <3>3. actor' \in TurnRequests
      BY <2>3, <3>1 DEF Asking, TurnRequests
    <3> QED BY <1>2, <2>3, <3>1, <3>2, <3>3 DEF DrainThreadQueue, QueueShape
  <2>4. CASE /\ rt.items # <<>>
             /\ ReserveFails(Head(rt.items))
             /\ rt' = [rt EXCEPT !.error = TRUE, !.retry = TRUE]
             /\ UNCHANGED <<actor, disposed>>
    <3>1. Head(rt.items) \in Submissions
      BY <2>4 DEF QueueShape
    <3>2. SubmissionsShape'
      BY <2>4, <3>1 DEF ReserveFails, Stored, Fault, QueueShape, SubmissionsShape
    <3> QED BY <1>2, <2>4, <3>2 DEF DrainThreadQueue, QueueShape
  <2> QED BY <1>2, <2>1, <2>2, <2>3, <2>4 DEF DrainThreadQueue
<1>3. CASE RetryTimer
  BY <1>3 DEF RetryTimer, submissionVars, SubmissionsShape, history, QueueShape
<1>4. CASE TurnAnswered
  <2> SUFFICES ASSUME ~Free, actor \in TurnRequests PROVE QueueShape'
    BY <1>4 DEF QueueShape, TurnAnswered, TurnAdmitted, TurnRefused, TurnLostAfterAdmission,
                TurnLostBeforeAgent, Answered, Free
  <2>1. RemoveFirst(line, actor.entry) \in Seq(Submissions)
    BY RemoveFirstSeq DEF QueueShape
  <2>2. actor.entry \in Submissions
    BY DEF TurnRequests
  <2>3. \A stage \in {"asking", "started", "refused", "unknown"}, turn \in Nat :
            /\ [actor EXCEPT !.stage = stage] \in TurnRequests
            /\ [actor EXCEPT !.stage = stage, !.turn = turn] \in TurnRequests
    BY DEF TurnRequests
  <2>4. CASE TurnRefused
    <3>1. actor' \in TurnRequests
      BY <2>4, <2>3 DEF TurnRefused
    <3>2. faults' \in Nat
      BY <2>4 DEF TurnRefused, Fault, QueueShape, SubmissionsShape
    <3> QED BY <2>4, <3>1, <3>2 DEF TurnRefused, submissionVars, SubmissionsShape, history, QueueShape
  <2>5. ASSUME NEW stage \in {"started", "unknown"}, AdmitPrompt(stage), faults' \in Nat PROVE QueueShape'
    <3>1. generation' \in Nat /\ actor' = [actor EXCEPT !.stage = stage, !.turn = generation']
      BY <2>5 DEF AdmitPrompt, QueueShape
    <3>2. actor' \in TurnRequests
      BY <2>3, <3>1
    <3>3. prompted' \in [Submissions -> Nat] /\ line' \in Seq(Submissions)
      BY <2>5, <2>1, <2>2 DEF AdmitPrompt, Deliver, QueueShape
    <3> QED BY <2>5, <3>1, <3>2, <3>3 DEF AdmitPrompt, submissionVars, SubmissionsShape, QueueShape
  <2>6. faults + 1 \in Nat /\ faults \in Nat
    BY DEF QueueShape, SubmissionsShape
  <2>7. CASE TurnAdmitted
    BY <2>5, <2>6, <2>7 DEF TurnAdmitted
  <2>8. CASE TurnLostAfterAdmission
    BY <2>5, <2>6, <2>8 DEF TurnLostAfterAdmission, Fault
  <2>9. CASE TurnLostBeforeAgent
    <3>1. generation' \in Nat
      BY <2>9 DEF TurnLostBeforeAgent, QueueShape
    <3>2. actor' \in TurnRequests
      BY <2>9, <2>3 DEF TurnLostBeforeAgent
    <3> QED BY <2>9, <2>1, <2>6, <3>1, <3>2 DEF TurnLostBeforeAgent, Fault, submissionVars, SubmissionsShape, QueueShape
  <2> QED BY <1>4, <2>4, <2>7, <2>8, <2>9 DEF TurnAnswered
<1>5. CASE DispatchReturns
  <2> SUFFICES ASSUME ~Free, actor \in TurnRequests PROVE QueueShape'
    BY <1>5 DEF QueueShape, DispatchReturns, TurnUnknown, TurnStarted, TurnNotStarted, Answered, Free
  <2>1. RemoveFirst(line, actor.entry) \in Seq(Submissions)
    BY RemoveFirstSeq DEF QueueShape
  <2>2. actor.entry \in Submissions
    BY DEF TurnRequests
  <2>3. CASE TurnUnknown
    BY <2>3 DEF TurnUnknown, submissionVars, SubmissionsShape, QueueShape
  <2>4. ASSUME NEW ok \in BOOLEAN, TurnStarted(ok) PROVE QueueShape'
    <3>1. SubmissionsShape'
      BY <2>4, <2>2 DEF TurnStarted, Remember, Persist, Write, Stored, Fault, QueueShape, SubmissionsShape
    <3> QED BY <2>4, <3>1 DEF TurnStarted, QueueShape
  <2>5. ASSUME NEW ok \in BOOLEAN, TurnNotStarted(ok) PROVE QueueShape'
    <3>1. <<actor.entry>> \o rt.items \in Seq(Submissions)
      BY <2>2 DEF QueueShape
    <3>2. CASE actor.kind = "send"
      <4>1. /\ rt' = [rt EXCEPT !.starting = FALSE, !.error = TRUE]
            /\ line' = RemoveFirst(line, actor.entry)
            /\ ReleaseSubmission(actor.entry, ok)
        BY <2>5, <3>2 DEF TurnNotStarted
      <4>2. SubmissionsShape'
        BY <4>1 DEF ReleaseSubmission, Persist, Write, Stored, Fault, QueueShape, SubmissionsShape
      <4> QED BY <2>5, <2>1, <4>1, <4>2 DEF TurnNotStarted, QueueShape
    <3>3. CASE actor.kind = "drain"
      <4>1. /\ rt' = [rt EXCEPT !.starting = FALSE, !.error = TRUE,
                                !.items = <<actor.entry>> \o @, !.completions = {}]
            /\ line' = line
            /\ Remember(actor.entry, "queued", ok)
        BY <2>5, <3>3 DEF TurnNotStarted
      <4>2. SubmissionsShape'
        BY <4>1, <2>2 DEF Remember, Persist, Write, Stored, Fault, QueueShape, SubmissionsShape
      <4> QED BY <2>5, <3>1, <4>1, <4>2 DEF TurnNotStarted, QueueShape
    <3> QED BY <2>5, <3>2, <3>3 DEF TurnNotStarted
  <2> QED BY <1>5, <2>3, <2>4, <2>5 DEF DispatchReturns
<1> QED BY <1>1, <1>2, <1>3, <1>4, <1>5

\* The agent's run, and the handler of the session's events.
LEMMA AgentShape ==
    ASSUME QueueShape, AgentActs \/ RunEnds \/ HandleCanonicalEvent
    PROVE  QueueShape'
<1> USE DEF RuntimeFields
<1>1. ASSUME NEW t \in Tools, AgentStartsTool(t) \/ AgentEndsTool(t) PROVE QueueShape'
  <2>1. faults' \in Nat
    BY <1>1 DEF AgentStartsTool, AgentEndsTool, Fault, QueueShape, SubmissionsShape
  <2> QED BY <1>1, <2>1 DEF AgentStartsTool, AgentEndsTool, AgentOnly, submissionVars, SubmissionsShape, history,
                            QueueShape, TasksShape
<1>2. ASSUME NEW a \in Asks, AgentAsks(a) \/ UserAnswers(a) PROVE QueueShape'
  <2>1. TasksShape'
    BY <1>2 DEF AgentAsks, UserAnswers, EpochBumped, QueueShape, TasksShape
  <2> QED BY <1>2, <2>1 DEF AgentAsks, UserAnswers, AgentOnly, submissionVars, SubmissionsShape, history, QueueShape
<1>3. CASE RunEnds
  BY <1>3 DEF RunEnds, AgentOnly, submissionVars, SubmissionsShape, history, QueueShape, TasksShape
<1>4. CASE HandleCanonicalEvent
  <2> DEFINE e == Head(events)
  <2>1. HandleRunStarted(e) \/ HandleRunFinished(e) \/ HandleTool(e) \/ HandleAsked(e) \/ HandleResolved(e)
    BY <1>4 DEF HandleCanonicalEvent
  <2> HIDE DEF e
  <2>2. TasksShape'
    <3>1. tasks' = tasks \/ \E c \in BOOLEAN : SpawnSteerIf(c)
      BY <2>1 DEF HandleRunStarted, HandleRunFinished, HandleTool, HandleAsked, HandleResolved
    <3> QED BY <3>1, SpawnTasks DEF QueueShape, TasksShape
  <2>3. /\ DOMAIN rt' = RuntimeFields
        /\ rt'.items \in Seq(Submissions) /\ rt'.pending_steers \in Seq(Submissions)
        /\ rt'.steer \in {None} \cup SteersInFlight
    <3>1. rt.pending_steers \o rt.items \in Seq(Submissions)
      BY DEF QueueShape
    <3>2. rt.steer # None => [rt.steer EXCEPT !.crossed = TRUE] \in SteersInFlight
      BY DEF QueueShape, SteersInFlight
    <3>3. <<>> \in Seq(Submissions)
      OBVIOUS
    <3>4. CASE HandleRunFinished(e)
      BY <3>1, <3>2, <3>3, <3>4 DEF HandleRunFinished, QueueShape
    <3>5. CASE ~HandleRunFinished(e)
      BY <2>1, <3>5 DEF HandleRunStarted, HandleTool, HandleAsked, HandleResolved, QueueShape
    <3> QED BY <3>4, <3>5
  <2> QED BY <1>4, <2>2, <2>3 DEF HandleCanonicalEvent, submissionVars, SubmissionsShape, QueueShape
<1> QED BY <1>1, <1>2, <1>3, <1>4 DEF AgentActs

\* A steering task, and a restart of the bridge.
LEMMA SteerShape ==
    ASSUME QueueShape, NEW w \in SteerTasks, SteerStep(w) \/ FailSteerDispatch(w)
    PROVE  QueueShape'
<1> USE DEF RuntimeFields
<1>1. CASE BeginSteering(w)
  <2>1. TasksShape'
    BY <1>1, GoesTasks, EndsTasks DEF BeginSteering, QueueShape, Carrying
  <2> QED BY <1>1, <2>1 DEF BeginSteering, QueueOnly, submissionVars, SubmissionsShape, sessionVars, history, QueueShape
<1>2. CASE PrepareSteer(w)
  <2>1. TasksShape'
    <3> DEFINE removed == IF asked = {} THEN tasks ELSE EpochBumped
    <3>1. TasksShape
      BY DEF QueueShape
    <3>2. /\ DOMAIN removed = SteerTasks
          /\ \A v \in SteerTasks :
                /\ DOMAIN removed[v] = {"stage", "entry", "target", "fresh"}
                /\ removed[v].stage = tasks[v].stage /\ removed[v].entry = tasks[v].entry
      BY <3>1, EpochTasks DEF TasksShape
    <3>3. \/ tasks' = [removed EXCEPT ![w].stage = "prepared", ![w].fresh = TRUE]
          \/ Goes(w, "refused")
          \/ tasks' = [removed EXCEPT ![w].stage = "refused"]
      BY <1>2 DEF PrepareSteer
    <3> HIDE DEF removed
    <3>4. CASE Goes(w, "refused")
      BY <3>1, <3>4, GoesTasks DEF Carrying
    <3>5. CASE tasks' = [removed EXCEPT ![w].stage = "prepared", ![w].fresh = TRUE]
      BY <3>1, <3>2, <3>5 DEF TasksShape, Carrying
    <3>6. CASE tasks' = [removed EXCEPT ![w].stage = "refused"]
      BY <3>1, <3>2, <3>6 DEF TasksShape, Carrying
    <3> QED BY <3>3, <3>4, <3>5, <3>6
  <2>2. faults' \in Nat
    BY <1>2 DEF PrepareSteer, Fault, QueueShape, SubmissionsShape
  <2> QED BY <1>2, <2>1, <2>2 DEF PrepareSteer, submissionVars, SubmissionsShape, history, QueueShape
<1>3. CASE FinishPrepare(w)
  <2>1. TasksShape'
    BY <1>3, GoesTasks, EndsTasks DEF FinishPrepare, QueueShape, Carrying
  <2> QED BY <1>3, <2>1 DEF FinishPrepare, QueueOnly, submissionVars, SubmissionsShape, sessionVars, history, QueueShape
<1>4. CASE VerifySteerEpoch(w)
  <2>1. TasksShape'
    BY <1>4 DEF VerifySteerEpoch, Goes, QueueShape, TasksShape, Carrying
  <2> QED BY <1>4, <2>1 DEF VerifySteerEpoch, QueueOnly, submissionVars, SubmissionsShape, sessionVars, history, QueueShape
<1>5. CASE DispatchSteer(w)
  <2>1. rt.pending_steers # <<>> =>
          Head(rt.pending_steers) \in Submissions /\ Tail(rt.pending_steers) \in Seq(Submissions)
    BY DEF QueueShape
  <2>2. CASE UNCHANGED rt /\ Ends(w)
    <3>1. TasksShape'
      BY <2>2, EndsTasks DEF QueueShape
    <3> QED BY <1>5, <2>2, <3>1 DEF DispatchSteer, QueueOnly, submissionVars, SubmissionsShape, sessionVars, history, QueueShape
  <2>3. CASE /\ rt.pending_steers # <<>>
             /\ rt' = [rt EXCEPT !.pending_steers = Tail(@),
                                 !.steer = [entry |-> Head(rt.pending_steers), crossed |-> FALSE]]
             /\ tasks' = [tasks EXCEPT ![w].stage = "steering", ![w].entry = Head(rt.pending_steers),
                                       ![w].target = rt.generation]
    <3>1. TasksShape'
      BY <2>1, <2>3 DEF QueueShape, TasksShape
    <3>2. [entry |-> Head(rt.pending_steers), crossed |-> FALSE] \in SteersInFlight
      BY <2>1, <2>3 DEF SteersInFlight
    <3> QED BY <1>5, <2>1, <2>3, <3>1, <3>2 DEF DispatchSteer, QueueOnly, submissionVars, SubmissionsShape, sessionVars, history, QueueShape
  <2> QED BY <1>5, <2>2, <2>3 DEF DispatchSteer
<1>6. CASE SteerNative(w)
  <2>1. TasksShape' /\ tasks[w].entry \in Submissions
    BY <1>6 DEF SteerNative, At, Goes, QueueShape, TasksShape, Carrying
  <2>2. RemoveFirst(line, tasks[w].entry) \in Seq(Submissions)
    BY RemoveFirstSeq DEF QueueShape
  <2>3. faults' \in Nat
    BY <1>6 DEF SteerNative, Fault, QueueShape, SubmissionsShape
  <2>4. Deliver(tasks[w].entry) \/ UNCHANGED <<prompted, line>>
    BY <1>6 DEF SteerNative
  <2>5. line' \in Seq(Submissions) /\ prompted' \in [Submissions -> Nat]
    BY <2>1, <2>2, <2>4 DEF Deliver, QueueShape
  <2> QED BY <1>6, <2>1, <2>3, <2>5 DEF SteerNative, submissionVars, SubmissionsShape, sessionVars, QueueShape
<1>7. CASE SteerReserve(w)
  <2>1. TasksShape'
    BY <1>7 DEF SteerReserve, At, Goes, QueueShape, TasksShape, Carrying
  <2> QED BY <1>7, <2>1 DEF SteerReserve, submissionVars, SubmissionsShape, history, QueueShape
<1>8. CASE HandoffAccepted(w)
  <2>1. TasksShape' /\ tasks[w].entry \in Submissions
    BY <1>8 DEF HandoffAccepted, At, Goes, QueueShape, TasksShape, Carrying
  <2>2. RemoveFirst(line, tasks[w].entry) \in Seq(Submissions)
    BY RemoveFirstSeq DEF QueueShape
  <2>3. generation' \in Nat /\ line' \in Seq(Submissions) /\ prompted' \in [Submissions -> Nat]
    BY <1>8, <2>1, <2>2 DEF HandoffAccepted, Deliver, QueueShape
  <2> QED BY <1>8, <2>1, <2>3 DEF HandoffAccepted, submissionVars, SubmissionsShape, QueueShape
<1>9. CASE HandoffRefused(w)
  <2>1. TasksShape'
    BY <1>9 DEF HandoffRefused, At, Goes, QueueShape, TasksShape, Carrying
  <2> QED BY <1>9, <2>1 DEF HandoffRefused, Fault, submissionVars, SubmissionsShape, history, QueueShape
<1>10. CASE FinishSteer(w)
  <2>1. TasksShape' /\ tasks[w].entry \in Submissions
    <3>1. tasks[w].entry \in Submissions
      BY <1>10 DEF FinishSteer, At, QueueShape, TasksShape, Carrying
    <3> QED BY <1>10, <3>1, GoesTasks, EndsTasks DEF FinishSteer, QueueShape
  <2>2. /\ <<tasks[w].entry>> \o rt.items \in Seq(Submissions) /\ <<>> \o rt.items \in Seq(Submissions)
        /\ <<tasks[w].entry>> \o rt.pending_steers \in Seq(Submissions)
        /\ <<>> \o rt.pending_steers \in Seq(Submissions)
    BY <2>1 DEF QueueShape
  <2> QED BY <1>10, <2>1, <2>2 DEF FinishSteer, QueueOnly, submissionVars, SubmissionsShape, sessionVars, history, QueueShape
<1>11. CASE FailSteerDispatch(w)
  <2>1. TasksShape'
    BY <1>11 DEF FailSteerDispatch, Ends, NoTask, QueueShape, TasksShape, Carrying
  <2>2. rt.steer # None => <<rt.steer.entry>> \o rt.pending_steers \in Seq(Submissions)
    BY DEF QueueShape, SteersInFlight
  <2>3. faults' \in Nat
    BY <1>11 DEF FailSteerDispatch, Fault, QueueShape, SubmissionsShape
  <2> QED BY <1>11, <2>1, <2>2, <2>3 DEF FailSteerDispatch, QueueOnly, submissionVars, SubmissionsShape, sessionVars, history, QueueShape
<1> QED BY <1>1, <1>2, <1>3, <1>4, <1>5, <1>6, <1>7, <1>8, <1>9, <1>10, <1>11 DEF SteerStep

LEMMA RestartShape ==
    ASSUME QueueShape, Restart
    PROVE  QueueShape'
<1>1. TasksShape'
  BY DEF Restart, NoTask, TasksShape, Carrying
<1>2. /\ DOMAIN NewRuntime = RuntimeFields
      /\ NewRuntime.items = <<>> /\ NewRuntime.pending_steers = <<>> /\ NewRuntime.steer = None
  BY DEF NewRuntime, RuntimeFields
<1>3. SubmissionsShape'
  BY DEF Restart, QueueShape, SubmissionsShape
<1> QED BY <1>1, <1>2, <1>3 DEF Restart, QueueShape

LEMMA ShapeStep == QueueShape /\ [Next]_vars => QueueShape'
<1> SUFFICES ASSUME QueueShape, [Next]_vars PROVE QueueShape'
  OBVIOUS
<1>1. CASE Next
  BY <1>1, PhoneShape, DispatchShape, AgentShape, SteerShape, RestartShape DEF Next
<1>2. CASE UNCHANGED vars
  BY <1>2 DEF vars, queueVars, submissionVars, SubmissionsShape, sessionVars, history, QueueShape, TasksShape
<1> QED BY <1>1, <1>2

-----------------------------------------------------------------------------
(* The message under edit stays next. *)

\* Steps that leave the queue, the lane and the editor alone.
LEMMA EditingKept ==
    ASSUME EditingInv,
           rt'.items = rt.items, rt'.pending_steers = rt.pending_steers,
           rt'.steer = rt.steer, rt'.editing = rt.editing,
           ~Free' => ~Free \/ rt.editing = None
    PROVE  EditingInv'
BY DEF EditingInv, EditedStaysNext

\* With no editor open afterwards there is nothing to show.
LEMMA EditingClosed == rt'.editing = None => EditingInv'
BY DEF EditingInv, EditedStaysNext

LEMMA PhoneEditing ==
    ASSUME QueueShape, EditingInv, PhoneCalls PROVE EditingInv'
<1> USE DEF RuntimeFields, Free
<1>1. PICK s \in Submissions :
        \/ \E ok \in BOOLEAN : SendKnown(s, ok) \/ SendQueued(s, ok) \/ CancelMessage(s, ok)
        \/ SendNow(s) \/ SendNotReserved(s)
        \/ StartMessageEdit(s) \/ EndMessageEdit(s) \/ SteerMessage(s)
  BY DEF PhoneCalls
<1>2. ASSUME NEW ok \in BOOLEAN, SendKnown(s, ok) \/ SendNotReserved(s) PROVE EditingInv'
  BY <1>2, EditingKept DEF SendKnown, SendNotReserved, queueVars
<1>3. ASSUME NEW ok \in BOOLEAN, SendQueued(s, ok) PROVE EditingInv'
  <2>1. rt.items # <<>> => Append(rt.items, s) # <<>> /\ Head(Append(rt.items, s)) = Head(rt.items)
    BY HeadTailAppend DEF QueueShape
  <2> QED BY <1>3, <2>1 DEF SendQueued, QueueShape, EditingInv, EditedStaysNext
<1>4. ASSUME NEW ok \in BOOLEAN, CancelMessage(s, ok) PROVE EditingInv'
  <2>1. /\ rt'.items = RemoveFirst(rt.items, s) /\ rt'.steer = rt.steer
        /\ rt'.pending_steers = IF s \in ToSet(rt.items) THEN rt.pending_steers
                                ELSE RemoveFirst(rt.pending_steers, s)
        /\ rt'.editing = IF rt.editing = s THEN None ELSE rt.editing
        /\ s \in ToSet(rt.items) \cup ToSet(rt.pending_steers) /\ Free /\ Free'
    BY <1>4 DEF CancelMessage, QueueShape
  <2>2. CASE rt'.editing = None
    BY <2>2, EditingClosed
  <2>3. CASE rt'.editing # None
    <3>1. rt.editing # None /\ rt.editing # s /\ rt'.editing = rt.editing
      BY <2>1, <2>3
    <3>2. rt.items # <<>> /\ Head(rt.items) = rt.editing /\ rt.pending_steers = <<>> /\ rt.steer = None
      BY <3>1 DEF EditingInv, EditedStaysNext
    <3>3. ToSet(rt.pending_steers) = {}
      BY <3>2 DEF ToSet
    <3>4. RemoveFirst(rt.items, s) # <<>> /\ Head(RemoveFirst(rt.items, s)) = Head(rt.items)
      BY <3>1, <3>2, RemoveFirstHead DEF QueueShape
    <3> QED BY <2>1, <3>1, <3>2, <3>3, <3>4 DEF EditingInv, EditedStaysNext
  <2> QED BY <2>2, <2>3
<1>5. CASE SendNow(s)
  BY <1>5, EditingClosed DEF SendNow, BlockedOrOccupied, HasBlockers, QueueShape
<1>6. CASE StartMessageEdit(s)
  BY <1>6 DEF StartMessageEdit, QueueShape, EditingInv, EditedStaysNext
<1>7. CASE EndMessageEdit(s)
  BY <1>7, EditingClosed DEF EndMessageEdit, QueueShape
<1>8. CASE SteerMessage(s)
  BY <1>8, EditingClosed DEF SteerMessage, QueueShape
<1> QED BY <1>1, <1>2, <1>3, <1>4, <1>5, <1>6, <1>7, <1>8

LEMMA BridgeEditing ==
    ASSUME QueueShape, EditingInv,
           \/ DrainThreadQueue \/ RetryTimer \/ TurnAnswered \/ DispatchReturns
           \/ \E ok \in BOOLEAN : StatusFlush(ok)
           \/ AgentActs \/ RunEnds \/ HandleCanonicalEvent \/ Restart
    PROVE  EditingInv'
<1> USE DEF RuntimeFields, Free
<1>1. ASSUME NEW ok \in BOOLEAN, StatusFlush(ok) PROVE EditingInv'
  BY <1>1, EditingKept DEF StatusFlush, queueVars
<1>2. CASE DrainThreadQueue
  <2>1. CASE HasBlockers(rt) /\ UNCHANGED <<rt, actor>>
    BY <2>1, EditingKept
  <2>2. CASE /\ ~HasBlockers(rt)
             /\ \/ rt' = [rt EXCEPT !.completions = {}]
                \/ rt' = [rt EXCEPT !.items = Tail(@), !.starting = TRUE, !.error = FALSE]
                \/ rt' = [rt EXCEPT !.error = TRUE, !.retry = TRUE]
    BY <2>2, EditingClosed DEF HasBlockers, QueueShape
  <2> QED BY <1>2, <2>1, <2>2 DEF DrainThreadQueue, BlockedOrOccupied
<1>3. CASE RetryTimer
  BY <1>3, EditingKept DEF RetryTimer, QueueShape
<1>4. CASE TurnAnswered
  <2>1. ~Free /\ rt' = rt
    BY <1>4 DEF TurnAnswered, TurnAdmitted, TurnRefused, TurnLostAfterAdmission,
                TurnLostBeforeAgent, AdmitPrompt, Answered
  <2> QED BY <2>1, EditingKept
<1>5. CASE DispatchReturns
  <2>1. ~Free /\ rt'.editing = rt.editing
    BY <1>5 DEF DispatchReturns, TurnUnknown, TurnStarted, TurnNotStarted, Answered, QueueShape
  <2> QED BY <2>1, EditingClosed DEF EditingInv
<1>6. CASE AgentActs \/ RunEnds
  BY <1>6, EditingKept DEF AgentActs, RunEnds, AgentStartsTool, AgentEndsTool, AgentAsks, UserAnswers, AgentOnly
<1>7. CASE HandleCanonicalEvent
  <2> DEFINE e == Head(events)
  <2>1. HandleRunStarted(e) \/ HandleRunFinished(e) \/ HandleTool(e) \/ HandleAsked(e) \/ HandleResolved(e)
    BY <1>7 DEF HandleCanonicalEvent
  <2>2. actor' = actor
    BY <1>7 DEF HandleCanonicalEvent
  <2> HIDE DEF e
  <2>3. CASE HandleRunFinished(e)
    <3>1. CASE rt' = rt
      BY <2>2, <3>1, EditingKept
    <3>2. CASE /\ rt'.items = rt.pending_steers \o rt.items
               /\ rt'.pending_steers = <<>>
               /\ rt.steer = None => rt'.steer = None
               /\ rt'.editing = rt.editing
      <4>1. rt.editing # None => rt.pending_steers \o rt.items = rt.items
        BY ConcatEmptySeq DEF EditingInv, EditedStaysNext, QueueShape
      <4> QED BY <2>2, <3>2, <4>1 DEF EditingInv, EditedStaysNext
    <3> QED BY <2>3, <3>1, <3>2 DEF HandleRunFinished, QueueShape
  <2>4. CASE ~HandleRunFinished(e)
    BY <2>1, <2>2, <2>4, EditingKept
       DEF HandleRunStarted, HandleTool, HandleAsked, HandleResolved, QueueShape
  <2> QED BY <2>3, <2>4
<1>8. CASE Restart
  BY <1>8, EditingClosed DEF Restart, NewRuntime
<1> QED BY <1>1, <1>2, <1>3, <1>4, <1>5, <1>6, <1>7, <1>8

LEMMA SteerEditing ==
    ASSUME QueueShape, EditingInv, NEW w \in SteerTasks, SteerStep(w) \/ FailSteerDispatch(w)
    PROVE  EditingInv'
<1> USE DEF RuntimeFields, Free
<1>1. CASE BeginSteering(w) \/ FinishPrepare(w) \/ VerifySteerEpoch(w)
  BY <1>1, EditingKept DEF BeginSteering, FinishPrepare, VerifySteerEpoch, QueueOnly, QueueShape
<1>2. CASE PrepareSteer(w) \/ SteerNative(w) \/ SteerReserve(w) \/ HandoffAccepted(w) \/ HandoffRefused(w)
  BY <1>2, EditingKept DEF PrepareSteer, SteerNative, SteerReserve, HandoffAccepted, HandoffRefused
<1>3. CASE DispatchSteer(w)
  <2>1. CASE rt' = rt
    BY <1>3, <2>1, EditingKept DEF DispatchSteer, QueueOnly
  <2>2. CASE rt' # rt
    <3>1. rt.pending_steers # <<>> /\ rt'.editing = rt.editing
      BY <1>3, <2>2 DEF DispatchSteer, QueueShape
    <3> QED BY <3>1, EditingClosed DEF EditingInv, EditedStaysNext
  <2> QED BY <2>1, <2>2
<1>4. CASE FinishSteer(w) \/ FailSteerDispatch(w)
  <2>1. CASE rt.steer = None
    <3>1. /\ rt'.items = rt.items /\ rt'.pending_steers = rt.pending_steers /\ rt'.steer = rt.steer
          /\ rt'.editing = rt.editing /\ actor' = actor
      BY <1>4, <2>1 DEF FinishSteer, FailSteerDispatch, QueueOnly, QueueShape
    <3> QED BY <3>1, EditingKept
  <2>2. CASE rt.steer # None
    <3>1. rt'.editing = rt.editing
      BY <1>4 DEF FinishSteer, FailSteerDispatch, QueueShape
    <3> QED BY <2>2, <3>1, EditingClosed DEF EditingInv, EditedStaysNext
  <2> QED BY <2>1, <2>2
<1> QED BY <1>1, <1>2, <1>3, <1>4 DEF SteerStep

\* The message being edited stays the next one to be sent: no message is
\* dispatched, put back in front or steered while the editor is open, whatever
\* steers and runs end meanwhile.
THEOREM EditedMessageStaysNext == Spec => []EditedStaysNext
<1>1. Init => QueueShape /\ EditingInv
  BY ShapeInit DEF Init, NewRuntime, EditingInv, EditedStaysNext, Free
<1>2. QueueShape /\ EditingInv /\ [Next]_vars => (QueueShape /\ EditingInv)'
  <2> SUFFICES ASSUME QueueShape, EditingInv, [Next]_vars PROVE EditingInv'
    BY ShapeStep
  <2>1. CASE Next
    BY <2>1, PhoneEditing, BridgeEditing, SteerEditing DEF Next
  <2>2. CASE UNCHANGED vars
    BY <2>2, EditingKept DEF vars, queueVars, Free
  <2> QED BY <2>1, <2>2
<1>3. EditingInv => EditedStaysNext
  BY DEF EditingInv
<1> QED BY <1>1, <1>2, <1>3, PTL DEF Spec

-----------------------------------------------------------------------------
(* Every message in one place. *)

\* The tasks carry the same messages and none has been accepted meanwhile.
TasksKept ==
    \A w \in SteerTasks :
        /\ tasks'[w].stage \in Carrying <=> tasks[w].stage \in Carrying
        /\ tasks'[w].stage = "accepted" <=> tasks[w].stage = "accepted"
        /\ tasks[w].stage \in Carrying => tasks'[w].entry = tasks[w].entry

LEMMA PlacesKept ==
    ASSUME PlacesInv, TasksKept,
           rt'.items = rt.items, rt'.pending_steers = rt.pending_steers, rt'.steer = rt.steer,
           Starting' = Starting, Known \subseteq Known', prompted' = prompted, line' = line,
           faults' = 0 => faults = 0
    PROVE  PlacesInv'
<1>1. Items' = Items /\ Lane' = Lane /\ Steering' = Steering
  BY DEF Items, Lane, Steering
<1>2. Taken' = Taken
  BY <1>1 DEF TasksKept, Taken, At, Carrying
<1>3. NoRepetition'
  BY DEF PlacesInv, NoRepetition
<1>4. Places' = Places
  BY <1>1 DEF Places
<1>5. PlacesApart'
  BY <1>1 DEF PlacesInv, PlacesApart
<1>6. AllKnown' /\ NoneLost'
  BY <1>4 DEF PlacesInv, AllKnown, NoneLost
<1>7. AcceptedIsPrompted'
  BY DEF PlacesInv, AcceptedIsPrompted, TasksKept, At, Carrying
<1>8. FaultFree'
  BY <1>1, <1>2, <1>4 DEF PlacesInv, FaultFree, TasksKept
<1> QED BY <1>3, <1>5, <1>6, <1>7, <1>8 DEF PlacesInv

LEMMA TasksSame == UNCHANGED tasks => TasksKept
BY DEF TasksKept

LEMMA TasksSpawned ==
    ASSUME QueueShape, NEW c, SpawnSteerIf(c) PROVE TasksKept
<1>1. \A w \in SteerTasks :
         tasks'[w] = tasks[w] \/ (tasks'[w].stage = "spawned" /\ tasks[w].stage = "idle")
  BY SpawnTasks DEF QueueShape
<1> QED BY <1>1 DEF TasksKept, Carrying

LEMMA TasksMoved ==
    ASSUME QueueShape, NEW w \in SteerTasks, NEW stage, Goes(w, stage),
           stage \in Carrying <=> tasks[w].stage \in Carrying,
           stage # "accepted", tasks[w].stage # "accepted"
    PROVE  TasksKept
<1>1. TasksShape /\ (stage \in Carrying => tasks[w].entry \in Submissions)
  BY DEF QueueShape, TasksShape
<1>2. /\ tasks'[w].stage = stage /\ tasks'[w].entry = tasks[w].entry
      /\ \A v \in SteerTasks : v # w => tasks'[v] = tasks[v]
  BY <1>1, GoesTasks
<1> QED BY <1>2 DEF TasksKept

LEMMA TasksEnded ==
    ASSUME QueueShape, NEW w \in SteerTasks, Ends(w), tasks[w].stage \notin Carrying
    PROVE  TasksKept
<1>1. /\ tasks'[w].stage = "idle"
      /\ \A v \in SteerTasks : v # w => tasks'[v] = tasks[v]
  BY EndsTasks DEF QueueShape
<1> QED BY <1>1 DEF TasksKept, Carrying

LEMMA TasksBumped ==
    ASSUME QueueShape, tasks' = EpochBumped PROVE TasksKept
<1>1. TasksShape
  BY DEF QueueShape
<1> QED BY <1>1, EpochTasks DEF TasksKept

LEMMA FaultCounts == ASSUME QueueShape, NEW kind, Fault(kind) PROVE faults' # 0
BY DEF Fault, QueueShape, SubmissionsShape

LEMMA KnownSame == UNCHANGED <<results, pending>> => Known' = Known
BY DEF Known

LEMMA StartingSame == UNCHANGED actor => Starting' = Starting
BY DEF Starting, Free

\* Steps that move no message.
LEMMA PhoneQuiet ==
    ASSUME QueueShape, PlacesInv, NEW s \in Submissions, NEW ok \in BOOLEAN,
           SendKnown(s, ok) \/ SendNotReserved(s) \/ StartMessageEdit(s) \/ EndMessageEdit(s) \/ StatusFlush(ok)
    PROVE  PlacesInv'
<1> USE DEF RuntimeFields
<1>1. /\ rt'.items = rt.items /\ rt'.pending_steers = rt.pending_steers /\ rt'.steer = rt.steer
      /\ UNCHANGED <<actor, tasks, results, pending, prompted, line>>
  BY DEF SendKnown, SendNotReserved, StartMessageEdit, EndMessageEdit, StatusFlush, ReserveFails,
         Persist, queueVars, submissionVars, history, QueueShape
<1>2. faults' = 0 => faults = 0
  BY FaultCounts DEF SendKnown, SendNotReserved, StartMessageEdit, EndMessageEdit, StatusFlush, ReserveFails,
         Persist, Write
<1> QED BY <1>1, <1>2, PlacesKept, TasksSame, KnownSame, StartingSame

LEMMA BridgeQuiet ==
    ASSUME QueueShape, PlacesInv,
           \/ (DrainThreadQueue /\ Free') \/ RetryTimer \/ TurnRefused \/ TurnUnknown
           \/ \E ok \in BOOLEAN : TurnStarted(ok)
    PROVE  PlacesInv'
<1> USE DEF RuntimeFields
<1>1. CASE DrainThreadQueue /\ Free'
  <2>1. actor' # Asking("drain", Head(rt.items)) \/ rt.items = <<>>
    <3> SUFFICES ASSUME rt.items # <<>> PROVE None # Asking("drain", Head(rt.items))
      BY <1>1 DEF Free
    <3>1. Asking("drain", Head(rt.items)) \in TurnRequests
      BY DEF QueueShape, Asking, TurnRequests
    <3> QED BY <3>1, QueueBounds
  <2>2. /\ rt'.items = rt.items /\ rt'.pending_steers = rt.pending_steers /\ rt'.steer = rt.steer
        /\ UNCHANGED <<actor, tasks, results, pending, prompted, line>>
    BY <1>1, <2>1 DEF DrainThreadQueue, ReserveFails, submissionVars, QueueShape
  <2>3. faults' = 0 => faults = 0
    BY <1>1, <2>1, FaultCounts DEF DrainThreadQueue, ReserveFails, Reserve, Persist, Write
  <2> QED BY <2>2, <2>3, PlacesKept, TasksSame, KnownSame, StartingSame
<1>2. CASE RetryTimer
  <2>1. /\ rt'.items = rt.items /\ rt'.pending_steers = rt.pending_steers /\ rt'.steer = rt.steer
        /\ UNCHANGED <<actor, tasks, results, pending, prompted, line, faults>>
    BY <1>2 DEF RetryTimer, submissionVars, history, QueueShape
  <2> QED BY <2>1, PlacesKept, TasksSame, KnownSame, StartingSame
<1>3. CASE TurnRefused
  <2>1. UNCHANGED <<rt, tasks, results, pending, prompted, line>>
    BY <1>3 DEF TurnRefused, submissionVars, history
  <2>2. faults' = 0 => faults = 0
    BY <1>3, FaultCounts DEF TurnRefused
  <2>3. Starting' = Starting
    <3>1. actor \in TurnRequests /\ actor.stage = "asking" /\ actor # None /\ actor' = [actor EXCEPT !.stage = "refused"]
      BY <1>3 DEF TurnRefused, Answered, Free, QueueShape
    <3>2. actor' \in TurnRequests /\ actor'.stage = "refused" /\ actor'.entry = actor.entry
      BY <3>1 DEF TurnRequests
    <3>3. actor' # None
      BY <3>2, QueueBounds
    <3> QED BY <3>1, <3>2, <3>3 DEF Starting, Free
  <2> QED BY <2>1, <2>2, <2>3, PlacesKept, TasksSame, KnownSame
<1>4. CASE TurnUnknown
  <2>1. /\ rt'.items = rt.items /\ rt'.pending_steers = rt.pending_steers /\ rt'.steer = rt.steer
        /\ UNCHANGED <<tasks, results, pending, prompted, line, faults>>
    BY <1>4 DEF TurnUnknown, submissionVars, history, QueueShape
  <2>2. Starting' = Starting
    BY <1>4 DEF TurnUnknown, Answered, Starting, Free
  <2> QED BY <2>1, <2>2, PlacesKept, TasksSame, KnownSame
<1>5. ASSUME NEW ok \in BOOLEAN, TurnStarted(ok) PROVE PlacesInv'
  <2>1. /\ rt'.items = rt.items /\ rt'.pending_steers = rt.pending_steers /\ rt'.steer = rt.steer
        /\ UNCHANGED <<tasks, prompted, line>>
    BY <1>5 DEF TurnStarted, QueueShape
  <2>2. Starting' = Starting
    BY <1>5 DEF TurnStarted, Answered, Starting, Free
  <2>3. faults' = 0 => faults = 0
    BY <1>5, FaultCounts DEF TurnStarted, Remember, Persist, Write
  <2>4. Known \subseteq Known'
    BY <1>5 DEF TurnStarted, Remember, Persist, Known, QueueShape, SubmissionsShape
  <2> QED BY <2>1, <2>2, <2>3, <2>4, PlacesKept, TasksSame
<1> QED BY <1>1, <1>2, <1>3, <1>4, <1>5

LEMMA AgentQuiet ==
    ASSUME QueueShape, PlacesInv,
           \/ AgentActs \/ RunEnds
           \/ HandleCanonicalEvent /\ ~HandleRunFinished(Head(events))
    PROVE  PlacesInv'
<1> USE DEF RuntimeFields
<1>1. ASSUME NEW t \in Tools, AgentStartsTool(t) \/ AgentEndsTool(t) PROVE PlacesInv'
  <2>1. UNCHANGED <<rt, actor, tasks, results, pending, prompted, line>>
    BY <1>1 DEF AgentStartsTool, AgentEndsTool, AgentOnly, submissionVars, history
  <2>2. faults' = 0 => faults = 0
    BY <1>1, FaultCounts DEF AgentStartsTool, AgentEndsTool
  <2> QED BY <2>1, <2>2, PlacesKept, TasksSame, KnownSame, StartingSame
<1>2. ASSUME NEW a \in Asks, AgentAsks(a) \/ UserAnswers(a) PROVE PlacesInv'
  <2>1. UNCHANGED <<rt, actor, results, pending, prompted, line, faults>>
    BY <1>2 DEF AgentAsks, UserAnswers, AgentOnly, submissionVars, history
  <2>2. TasksKept
    BY <1>2, TasksBumped DEF AgentAsks, UserAnswers
  <2> QED BY <2>1, <2>2, PlacesKept, KnownSame, StartingSame
<1>3. CASE RunEnds
  <2>1. UNCHANGED <<rt, actor, tasks, results, pending, prompted, line, faults>>
    BY <1>3 DEF RunEnds, AgentOnly, submissionVars, history
  <2> QED BY <2>1, PlacesKept, TasksSame, KnownSame, StartingSame
<1>4. CASE HandleCanonicalEvent /\ ~HandleRunFinished(Head(events))
  <2> DEFINE e == Head(events)
  <2>1. HandleRunStarted(e) \/ HandleTool(e) \/ HandleAsked(e) \/ HandleResolved(e)
    BY <1>4 DEF HandleCanonicalEvent
  <2>2. UNCHANGED <<actor, results, pending, prompted, line, faults>>
    BY <1>4 DEF HandleCanonicalEvent, submissionVars
  <2> HIDE DEF e
  <2>3. rt'.items = rt.items /\ rt'.pending_steers = rt.pending_steers /\ rt'.steer = rt.steer
    BY <2>1 DEF HandleRunStarted, HandleTool, HandleAsked, HandleResolved, QueueShape
  <2>4. UNCHANGED tasks \/ \E c \in BOOLEAN : SpawnSteerIf(c)
    BY <2>1 DEF HandleRunStarted, HandleTool, HandleAsked, HandleResolved
  <2>5. TasksKept
    BY <2>4, TasksSame, TasksSpawned
  <2> QED BY <2>2, <2>3, <2>5, PlacesKept, KnownSame, StartingSame
<1> QED BY <1>1, <1>2, <1>3, <1>4 DEF AgentActs

LEMMA SteerQuiet ==
    ASSUME QueueShape, PlacesInv, NEW w \in SteerTasks,
           \/ BeginSteering(w) \/ PrepareSteer(w) \/ FinishPrepare(w) \/ VerifySteerEpoch(w)
           \/ SteerReserve(w) \/ HandoffRefused(w)
    PROVE  PlacesInv'
<1> USE DEF RuntimeFields
<1>1. /\ rt'.items = rt.items /\ rt'.pending_steers = rt.pending_steers /\ rt'.steer = rt.steer
      /\ UNCHANGED <<actor, results, pending, prompted, line>>
  BY DEF BeginSteering, PrepareSteer, FinishPrepare, VerifySteerEpoch, SteerReserve, HandoffRefused,
         QueueOnly, submissionVars, history, QueueShape
<1>2. faults' = 0 => faults = 0
  BY FaultCounts DEF BeginSteering, PrepareSteer, FinishPrepare, VerifySteerEpoch, SteerReserve, HandoffRefused
<1>3. TasksKept
  <2>1. CASE BeginSteering(w)
    BY <2>1, TasksMoved, TasksEnded DEF BeginSteering, At, Carrying
  <2>2. CASE PrepareSteer(w)
    <3> DEFINE removed == IF asked = {} THEN tasks ELSE EpochBumped
    <3>1. TasksShape /\ tasks[w].stage = "preparing"
      BY <2>2 DEF QueueShape, PrepareSteer, At
    <3>2. /\ DOMAIN removed = SteerTasks
          /\ \A v \in SteerTasks :
                /\ DOMAIN removed[v] = {"stage", "entry", "target", "fresh"}
                /\ removed[v].stage = tasks[v].stage /\ removed[v].entry = tasks[v].entry
      BY <3>1, EpochTasks DEF TasksShape
    <3>3. \/ tasks' = [removed EXCEPT ![w].stage = "prepared", ![w].fresh = TRUE]
          \/ Goes(w, "refused")
          \/ tasks' = [removed EXCEPT ![w].stage = "refused"]
      BY <2>2 DEF PrepareSteer
    <3> HIDE DEF removed
    <3>4. CASE Goes(w, "refused")
      BY <3>1, <3>4, TasksMoved DEF Carrying
    <3>5. CASE tasks' = [removed EXCEPT ![w].stage = "prepared", ![w].fresh = TRUE]
      BY <3>1, <3>2, <3>5 DEF TasksKept, Carrying
    <3>6. CASE tasks' = [removed EXCEPT ![w].stage = "refused"]
      BY <3>1, <3>2, <3>6 DEF TasksKept, Carrying
    <3> QED BY <3>3, <3>4, <3>5, <3>6
  <2>3. CASE FinishPrepare(w)
    BY <2>3, TasksMoved, TasksEnded DEF FinishPrepare, At, Carrying
  <2>4. CASE VerifySteerEpoch(w)
    BY <2>4, TasksMoved DEF VerifySteerEpoch, At, Carrying
  <2>5. CASE SteerReserve(w)
    BY <2>5, TasksMoved DEF SteerReserve, At, Carrying
  <2>6. CASE HandoffRefused(w)
    BY <2>6, TasksMoved DEF HandoffRefused, At, Carrying
  <2> QED BY <2>1, <2>2, <2>3, <2>4, <2>5, <2>6
<1> QED BY <1>1, <1>2, <1>3, PlacesKept, KnownSame, StartingSame

\* The message enters the queue, or is asked about at once.
LEMMA SendPlaces ==
    ASSUME QueueShape, PlacesInv, NEW s \in Submissions, NEW ok \in BOOLEAN,
           SendQueued(s, ok) \/ SendNow(s)
    PROVE  PlacesInv'
<1> USE DEF RuntimeFields
<1>1. s \notin Known /\ s \notin Places /\ s \notin ToSet(line) /\ Starting = {}
  BY DEF SendQueued, SendNow, SendIsNew, Known, PlacesInv, AllKnown, Starting
<1>2. /\ line' = Append(line, s) /\ UNCHANGED <<tasks, prompted>>
      /\ rt'.pending_steers = rt.pending_steers /\ rt'.steer = rt.steer
  BY DEF SendQueued, SendNow, QueueShape
<1>3. ToSet(line') = ToSet(line) \cup {s} /\ IsInjective(line')
  BY <1>1, <1>2, AppendDistinct DEF PlacesInv, NoRepetition, QueueShape
<1>4. Lane' = Lane /\ Steering' = Steering
  BY <1>2 DEF Lane, Steering
<1>5. Known' = Known \cup {s}
  BY DEF SendQueued, SendNow, Remember, Reserve, Persist, Known, QueueShape, SubmissionsShape
<1>6. faults' = 0 => faults = 0
  BY FaultCounts DEF SendQueued, SendNow, Remember, Reserve, Persist, Write
<1>7. Taken' = Taken /\ Taken \subseteq Places
  BY <1>2, <1>4 DEF Taken, Places, At
<1>8. /\ Items' \cup Starting' = Items \cup {s} /\ Items' \cap Starting' = {}
      /\ IsInjective(rt'.items)
  <2>1. CASE SendQueued(s, ok)
    <3>1. rt'.items = Append(rt.items, s) /\ actor' = actor
      BY <2>1 DEF SendQueued, QueueShape
    <3>2. IsInjective(rt'.items) /\ ToSet(rt'.items) = ToSet(rt.items) \cup {s}
      BY <1>1, <3>1, AppendDistinct DEF PlacesInv, NoRepetition, QueueShape, Places, Items
    <3>3. Starting' = {}
      BY <1>1, <3>1, StartingSame
    <3> QED BY <3>2, <3>3 DEF Items
  <2>2. CASE SendNow(s)
    <3>1. rt'.items = rt.items /\ rt.items = <<>> /\ actor' = Asking("send", s)
      BY <2>2 DEF SendNow, BlockedOrOccupied, QueueShape
    <3>2. Items = {} /\ Items' = {}
      BY <3>1 DEF Items, ToSet
    <3>3. actor' \in TurnRequests /\ actor'.stage = "asking" /\ actor'.entry = s
      BY <3>1 DEF Asking, TurnRequests
    <3>4. actor' # None
      BY <3>3, QueueBounds
    <3>5. Starting' = {s}
      BY <3>3, <3>4 DEF Starting, Free
    <3> QED BY <3>1, <3>2, <3>5 DEF PlacesInv, NoRepetition
  <2> QED BY <2>1, <2>2
<1>9. Places' = Places \cup {s}
  BY <1>1, <1>4, <1>8 DEF Places
<1>10. NoRepetition'
  BY <1>2, <1>3, <1>8 DEF PlacesInv, NoRepetition
<1>11. PlacesApart'
  BY <1>1, <1>4, <1>8 DEF PlacesInv, PlacesApart, Places
<1>12. AllKnown' /\ NoneLost'
  BY <1>2, <1>3, <1>5, <1>9 DEF PlacesInv, AllKnown, NoneLost
<1>13. AcceptedIsPrompted'
  BY <1>2 DEF PlacesInv, AcceptedIsPrompted, At
<1>14. FaultFree'
  BY <1>1, <1>2, <1>3, <1>4, <1>6, <1>7, <1>9 DEF PlacesInv, FaultFree
<1> QED BY <1>10, <1>11, <1>12, <1>13, <1>14 DEF PlacesInv

\* The message leaves the queue or the lane, and the line.
LEMMA CancelPlaces ==
    ASSUME QueueShape, PlacesInv, NEW s \in Submissions, NEW ok \in BOOLEAN, CancelMessage(s, ok)
    PROVE  PlacesInv'
<1> USE DEF RuntimeFields
<1>1. /\ rt'.items = RemoveFirst(rt.items, s) /\ rt'.steer = rt.steer
      /\ rt'.pending_steers = IF s \in Items THEN rt.pending_steers
                              ELSE RemoveFirst(rt.pending_steers, s)
      /\ s \in Items \cup Lane
      /\ line' = RemoveFirst(line, s) /\ UNCHANGED <<actor, tasks, prompted>> /\ Free
  BY DEF CancelMessage, Items, Lane, QueueShape
<1>2. IsInjective(rt'.items) /\ Items' = Items \ {s}
  BY <1>1, RemoveFirstDistinct DEF PlacesInv, NoRepetition, QueueShape, Items
<1>3. IsInjective(RemoveFirst(rt.pending_steers, s)) /\ ToSet(RemoveFirst(rt.pending_steers, s)) = Lane \ {s}
  BY RemoveFirstDistinct DEF PlacesInv, NoRepetition, QueueShape, Lane
<1>4. Items \cap Lane = {} /\ s \notin Steering
  BY <1>1 DEF PlacesInv, PlacesApart
<1>5. IsInjective(rt'.pending_steers) /\ Lane' = Lane \ {s}
  BY <1>1, <1>3, <1>4 DEF Lane, PlacesInv, NoRepetition
<1>6. IsInjective(line') /\ ToSet(line') = ToSet(line) \ {s}
  BY <1>1, RemoveFirstDistinct DEF PlacesInv, NoRepetition, QueueShape
<1>7. Steering' = Steering /\ Starting' = Starting /\ Starting = {}
  BY <1>1, StartingSame DEF Steering, Starting
<1>8. Known \ {s} \subseteq Known'
  BY DEF CancelMessage, ForgetSubmission, Persist, Known, QueueShape, SubmissionsShape
<1>9. faults' = 0 => faults = 0
  BY FaultCounts DEF CancelMessage, ForgetSubmission, Persist, Write
<1>10. Taken' = Taken /\ Taken \subseteq Steering
  BY <1>1, <1>7 DEF Taken, At
<1>11. Places' = Places \ {s}
  BY <1>2, <1>4, <1>5, <1>7 DEF Places
<1>12. NoRepetition'
  BY <1>2, <1>5, <1>6 DEF NoRepetition
<1>13. PlacesApart'
  BY <1>2, <1>5, <1>7 DEF PlacesInv, PlacesApart
<1>14. AllKnown' /\ NoneLost'
  BY <1>1, <1>6, <1>8, <1>11 DEF PlacesInv, AllKnown, NoneLost
<1>15. AcceptedIsPrompted'
  BY <1>1 DEF PlacesInv, AcceptedIsPrompted, At
<1>16. FaultFree'
  BY <1>1, <1>4, <1>6, <1>7, <1>9, <1>10, <1>11 DEF PlacesInv, FaultFree
<1> QED BY <1>12, <1>13, <1>14, <1>15, <1>16 DEF PlacesInv

\* A message changes its place and nothing else changes.
LEMMA MovePlaces ==
    ASSUME PlacesInv, TasksKept, Places' = Places, PlacesApart',
           IsInjective(rt'.items), IsInjective(rt'.pending_steers),
           Steering \subseteq Steering', Taken' \subseteq Taken,
           line' = line, prompted' = prompted, Known \subseteq Known', faults' = 0 => faults = 0
    PROVE  PlacesInv'
<1>1. NoRepetition'
  BY DEF PlacesInv, NoRepetition
<1>2. AllKnown' /\ NoneLost'
  BY DEF PlacesInv, AllKnown, NoneLost
<1>3. AcceptedIsPrompted'
  BY DEF PlacesInv, AcceptedIsPrompted, TasksKept, At, Carrying
<1>4. Taken \subseteq Taken'
  BY DEF Taken, TasksKept, At, Carrying
<1>5. FaultFree'
  BY <1>4 DEF PlacesInv, FaultFree, TasksKept
<1> QED BY <1>1, <1>2, <1>3, <1>5 DEF PlacesInv

\* From the queue to the lane.
LEMMA SteerPlaces ==
    ASSUME QueueShape, PlacesInv, NEW s \in Submissions, SteerMessage(s)
    PROVE  PlacesInv'
<1> USE DEF RuntimeFields
<1>1. /\ rt'.items = RemoveFirst(rt.items, s) /\ rt'.steer = rt.steer
      /\ rt'.pending_steers = Append(rt.pending_steers, s)
      /\ s \in Items /\ UNCHANGED <<actor, results, pending, prompted, line, faults>>
      /\ SpawnSteerIf(TRUE)
  BY DEF SteerMessage, Items, QueueShape, submissionVars, history
<1>2. IsInjective(rt'.items) /\ Items' = Items \ {s}
  BY <1>1, RemoveFirstDistinct DEF PlacesInv, NoRepetition, QueueShape, Items
<1>3. s \notin Lane /\ s \notin Steering /\ s \notin Starting
  BY <1>1 DEF PlacesInv, PlacesApart
<1>4. IsInjective(rt'.pending_steers) /\ Lane' = Lane \cup {s}
  BY <1>1, <1>3, AppendDistinct DEF PlacesInv, NoRepetition, QueueShape, Lane
<1>5. Steering' = Steering /\ Starting' = Starting
  BY <1>1, StartingSame DEF Steering
<1>6. TasksKept
  BY <1>1, TasksSpawned
<1>7. Places' = Places
  BY <1>1, <1>2, <1>4, <1>5 DEF Places
<1>8. PlacesApart'
  BY <1>2, <1>3, <1>4, <1>5 DEF PlacesInv, PlacesApart
<1>9. Taken' \subseteq Taken
  BY <1>5, <1>6 DEF Taken, TasksKept, At, Carrying
<1> QED BY <1>1, <1>2, <1>4, <1>5, <1>6, <1>7, <1>8, <1>9, MovePlaces, KnownSame

\* From the queue to the agent's door.
LEMMA DrainPlaces ==
    ASSUME QueueShape, PlacesInv, DrainThreadQueue, ~Free'
    PROVE  PlacesInv'
<1> USE DEF RuntimeFields
<1> DEFINE h == Head(rt.items)
<1>1. /\ rt.items # <<>> /\ Free /\ Reserve(h)
      /\ rt' = [rt EXCEPT !.items = Tail(@), !.starting = TRUE, !.error = FALSE]
      /\ actor' = Asking("drain", h) /\ UNCHANGED <<tasks, prompted, line>>
  BY DEF DrainThreadQueue, Free
<1>2. /\ h \in Submissions /\ h \in Items /\ IsInjective(Tail(rt.items))
      /\ ToSet(Tail(rt.items)) = Items \ {h}
  BY <1>1, TailDistinct DEF PlacesInv, NoRepetition, QueueShape, Items
<1> HIDE DEF h
<1>3. /\ rt'.items = Tail(rt.items) /\ rt'.pending_steers = rt.pending_steers /\ rt'.steer = rt.steer
  BY <1>1 DEF QueueShape
<1>4. Items' = Items \ {h} /\ Lane' = Lane /\ Steering' = Steering /\ Starting = {}
  BY <1>1, <1>2, <1>3 DEF Items, Lane, Steering, Starting
<1>5. actor'.stage = "asking" /\ actor'.entry = h
  BY <1>1 DEF Asking
<1>6. Starting' = {h}
  BY <1>5 DEF Starting
<1>7. Known \subseteq Known' /\ faults' = faults
  BY <1>1 DEF Reserve, Persist, Write, Known, QueueShape, SubmissionsShape
<1>8. TasksKept
  BY <1>1, TasksSame
<1>9. Places' = Places
  BY <1>2, <1>4, <1>6 DEF Places
<1>10. PlacesApart'
  BY <1>2, <1>4, <1>6 DEF PlacesInv, PlacesApart
<1>11. Taken' \subseteq Taken
  BY <1>1, <1>4 DEF Taken, At
<1>12. IsInjective(rt'.items) /\ IsInjective(rt'.pending_steers)
  BY <1>2, <1>3 DEF PlacesInv, NoRepetition
<1> QED BY <1>1, <1>4, <1>7, <1>8, <1>9, <1>10, <1>11, <1>12, MovePlaces

\* The message at the agent's door leaves the line: delivered, dropped or given up.
LEMMA SettlePlaces ==
    ASSUME QueueShape, PlacesInv, NEW s \in Submissions, Starting = {s}, Starting' = {},
           rt'.items = rt.items, rt'.pending_steers = rt.pending_steers, rt'.steer = rt.steer,
           line' = RemoveFirst(line, s), UNCHANGED tasks,
           \A r \in Submissions : r # s => prompted'[r] = prompted[r],
           prompted[s] > 0 => prompted'[s] > 0,
           Known \ {s} \subseteq Known', faults' = 0 => faults = 0
    PROVE  PlacesInv'
<1>1. Items' = Items /\ Lane' = Lane /\ Steering' = Steering
  BY DEF Items, Lane, Steering
<1>2. IsInjective(line') /\ ToSet(line') = ToSet(line) \ {s} /\ ToSet(line) \subseteq Submissions
  <2>1. ToSet(line) \subseteq Submissions
    BY DEF QueueShape, ToSet
  <2> QED BY <2>1, RemoveFirstDistinct DEF PlacesInv, NoRepetition, QueueShape
<1>3. s \notin Items \cup Lane \cup Steering
  BY DEF PlacesInv, PlacesApart
<1>4. Places' = Places \ {s}
  BY <1>1, <1>3 DEF Places
<1>5. Taken' = Taken /\ Taken \subseteq Steering
  BY <1>1 DEF Taken, At
<1>6. NoRepetition'
  BY <1>2 DEF PlacesInv, NoRepetition
<1>7. PlacesApart'
  BY <1>1 DEF PlacesInv, PlacesApart
<1>8. AllKnown' /\ NoneLost'
  BY <1>2, <1>4 DEF PlacesInv, AllKnown, NoneLost
<1>9. AcceptedIsPrompted'
  <2> SUFFICES ASSUME NEW w \in SteerTasks, tasks[w].stage = "accepted"
               PROVE  prompted'[tasks[w].entry] > 0
    BY DEF AcceptedIsPrompted, At
  <2>1. prompted[tasks[w].entry] > 0 /\ tasks[w].entry \in Submissions
    BY DEF PlacesInv, AcceptedIsPrompted, At, QueueShape, TasksShape, Carrying
  <2> QED BY <2>1
<1>10. FaultFree'
  BY <1>1, <1>2, <1>3, <1>4, <1>5 DEF PlacesInv, FaultFree
<1> QED BY <1>6, <1>7, <1>8, <1>9, <1>10 DEF PlacesInv

LEMMA AnswerPlaces ==
    ASSUME QueueShape, PlacesInv, TurnAdmitted \/ TurnLostAfterAdmission \/ TurnLostBeforeAgent
    PROVE  PlacesInv'
<1> USE DEF RuntimeFields
<1> DEFINE s == actor.entry
<1>1. ~Free /\ actor.stage = "asking" /\ actor \in TurnRequests
  BY DEF TurnAdmitted, TurnLostAfterAdmission, TurnLostBeforeAgent, Answered, Free, QueueShape
<1>2. s \in Submissions /\ Starting = {s}
  BY <1>1 DEF Starting, TurnRequests
<1>3. actor'.stage \in {"started", "unknown"}
  BY <1>1 DEF TurnAdmitted, TurnLostAfterAdmission, TurnLostBeforeAgent, AdmitPrompt, TurnRequests
<1>4. Starting' = {}
  BY <1>3 DEF Starting
<1>5. UNCHANGED <<rt, tasks, results, pending>> /\ line' = RemoveFirst(line, s)
  BY DEF TurnAdmitted, TurnLostAfterAdmission, TurnLostBeforeAgent, AdmitPrompt, Deliver, submissionVars
<1>6. prompted' = prompted \/ prompted' = [prompted EXCEPT ![s] = @ + 1]
  BY DEF TurnAdmitted, TurnLostAfterAdmission, TurnLostBeforeAgent, AdmitPrompt, Deliver
<1>7. faults' = 0 => faults = 0
  BY FaultCounts DEF TurnAdmitted, TurnLostAfterAdmission, TurnLostBeforeAgent
<1>8. /\ \A r \in Submissions : r # s => prompted'[r] = prompted[r]
      /\ prompted[s] > 0 => prompted'[s] > 0
  BY <1>2, <1>6 DEF QueueShape
<1> HIDE DEF s
<1> QED BY <1>2, <1>4, <1>5, <1>7, <1>8, SettlePlaces, KnownSame

LEMMA NotStartedPlaces ==
    ASSUME QueueShape, PlacesInv, NEW ok \in BOOLEAN, TurnNotStarted(ok)
    PROVE  PlacesInv'
<1> USE DEF RuntimeFields
<1> DEFINE s == actor.entry
<1>1. ~Free /\ actor.stage = "refused" /\ actor \in TurnRequests /\ Free'
  BY DEF TurnNotStarted, Answered, Free, QueueShape
<1>2. s \in Submissions /\ Starting = {s} /\ Starting' = {}
  BY <1>1 DEF Starting, TurnRequests
<1> HIDE DEF s
<1>3. CASE actor.kind = "send"
  <2>1. /\ rt' = [rt EXCEPT !.starting = FALSE, !.error = TRUE]
        /\ ReleaseSubmission(s, ok) /\ line' = RemoveFirst(line, s)
        /\ UNCHANGED <<tasks, prompted>>
    BY <1>3 DEF TurnNotStarted, s
  <2>2. Known \ {s} \subseteq Known'
    BY <2>1 DEF ReleaseSubmission, Persist, Known
  <2>3. faults' = 0 => faults = 0
    BY <2>1, FaultCounts DEF ReleaseSubmission, Persist, Write
  <2>4. rt'.items = rt.items /\ rt'.pending_steers = rt.pending_steers /\ rt'.steer = rt.steer
    BY <2>1 DEF QueueShape
  <2> QED BY <1>2, <2>1, <2>2, <2>3, <2>4, SettlePlaces
<1>4. CASE actor.kind = "drain"
  <2>1. /\ rt' = [rt EXCEPT !.starting = FALSE, !.error = TRUE,
                            !.items = <<s>> \o @, !.completions = {}]
        /\ Remember(s, "queued", ok) /\ UNCHANGED <<tasks, prompted, line>>
    BY <1>4 DEF TurnNotStarted, s
  <2>2. /\ rt'.items = <<s>> \o rt.items /\ rt'.pending_steers = rt.pending_steers
        /\ rt'.steer = rt.steer
    BY <2>1 DEF QueueShape
  <2>3. s \notin Items \cup Lane \cup Steering
    BY <1>2 DEF PlacesInv, PlacesApart
  <2>4. s \notin ToSet(rt.items) /\ IsInjective(rt.items) /\ rt.items \in Seq(Submissions)
    BY <2>3 DEF PlacesInv, NoRepetition, QueueShape, Items
  <2>5. Items' = Items \cup {s} /\ IsInjective(rt'.items)
    BY <1>2, <2>2, <2>4, ConsDistinct DEF Items
  <2>6. Lane' = Lane /\ Steering' = Steering
    BY <2>2 DEF Lane, Steering
  <2>7. Known \subseteq Known'
    BY <2>1, <1>2 DEF Remember, Persist, Known, QueueShape, SubmissionsShape
  <2>8. faults' = 0 => faults = 0
    BY <2>1, FaultCounts DEF Remember, Persist, Write
  <2>9. Places' = Places
    BY <1>2, <2>5, <2>6 DEF Places
  <2>10. PlacesApart'
    BY <1>2, <2>3, <2>5, <2>6 DEF PlacesInv, PlacesApart
  <2>11. Taken' \subseteq Taken
    BY <2>1, <2>6 DEF Taken, At
  <2>12. TasksKept /\ IsInjective(rt'.pending_steers)
    BY <2>1, <2>2, TasksSame DEF PlacesInv, NoRepetition
  <2> QED BY <2>1, <2>5, <2>6, <2>7, <2>8, <2>9, <2>10, <2>11, <2>12, MovePlaces
<1>5. actor.kind \in {"send", "drain"}
  BY <1>1 DEF TurnRequests
<1> QED BY <1>3, <1>4, <1>5

\* The end of the run sends the lane back to the front of the queue.
LEMMA FinishedPlaces ==
    ASSUME QueueShape, PlacesInv, HandleCanonicalEvent, HandleRunFinished(Head(events))
    PROVE  PlacesInv'
<1> USE DEF RuntimeFields
<1> DEFINE e == Head(events)
<1>1. HandleRunFinished(e) /\ UNCHANGED <<actor, results, pending, prompted, line, faults>>
  BY DEF HandleCanonicalEvent, submissionVars
<1> HIDE DEF e
<1>2. UNCHANGED tasks
  BY <1>1 DEF HandleRunFinished
<1>3. CASE rt' = rt
  BY <1>1, <1>2, <1>3, PlacesKept, TasksSame, KnownSame, StartingSame
<1>4. CASE rt' # rt
  <2>1. /\ rt'.items = rt.pending_steers \o rt.items
        /\ rt'.pending_steers = <<>>
        /\ rt'.steer = IF rt.steer = None THEN None ELSE [rt.steer EXCEPT !.crossed = TRUE]
    BY <1>1, <1>4 DEF HandleRunFinished, QueueShape
  <2>2. Lane \cap Items = {}
    BY DEF PlacesInv, PlacesApart
  <2>3. Items' = Lane \cup Items /\ IsInjective(rt'.items)
    BY <2>1, <2>2, ConcatDistinct DEF PlacesInv, NoRepetition, QueueShape, Items, Lane
  <2>4. Lane' = {} /\ IsInjective(rt'.pending_steers)
    BY <2>1 DEF Lane, ToSet, IsInjective
  <2>5. Steering' = Steering
    <3>1. CASE rt.steer = None
      BY <2>1, <3>1 DEF Steering
    <3>2. CASE rt.steer # None
      <4>1. rt'.steer \in SteersInFlight /\ rt'.steer.entry = rt.steer.entry
        BY <2>1, <3>2 DEF QueueShape, SteersInFlight
      <4>2. rt'.steer # None
        BY <4>1, QueueBounds
      <4> QED BY <3>2, <4>1, <4>2 DEF Steering
    <3> QED BY <3>1, <3>2
  <2>6. Starting' = Starting /\ Known' = Known /\ TasksKept
    BY <1>1, <1>2, StartingSame, KnownSame, TasksSame
  <2>7. Places' = Places
    BY <2>3, <2>4, <2>5, <2>6 DEF Places
  <2>8. PlacesApart'
    BY <2>3, <2>4, <2>5, <2>6 DEF PlacesInv, PlacesApart
  <2>9. Taken' \subseteq Taken
    BY <1>2, <2>5 DEF Taken, At
  <2> QED BY <1>1, <2>3, <2>4, <2>5, <2>6, <2>7, <2>8, <2>9, MovePlaces
<1> QED BY <1>3, <1>4

\* From the lane into a task's hands.
LEMMA DispatchPlaces ==
    ASSUME QueueShape, PlacesInv, NEW w \in SteerTasks, DispatchSteer(w)
    PROVE  PlacesInv'
<1> USE DEF RuntimeFields
<1> DEFINE s == Head(rt.pending_steers)
<1>1. UNCHANGED <<actor, results, pending, prompted, line, faults>> /\ tasks[w].stage = "verified"
  BY DEF DispatchSteer, QueueOnly, submissionVars, history, At
<1>2. CASE UNCHANGED rt /\ Ends(w)
  <2>1. TasksKept
    BY <1>1, <1>2, TasksEnded DEF Carrying
  <2> QED BY <1>1, <1>2, <2>1, PlacesKept, KnownSame, StartingSame
<1>3. CASE /\ rt.pending_steers # <<>> /\ rt.steer = None
           /\ rt' = [rt EXCEPT !.pending_steers = Tail(@),
                               !.steer = [entry |-> s, crossed |-> FALSE]]
           /\ tasks' = [tasks EXCEPT ![w].stage = "steering", ![w].entry = s,
                                     ![w].target = rt.generation]
  <2>1. /\ s \in Submissions /\ s \in Lane /\ IsInjective(Tail(rt.pending_steers))
        /\ ToSet(Tail(rt.pending_steers)) = Lane \ {s}
    BY <1>3, TailDistinct DEF PlacesInv, NoRepetition, QueueShape, Lane
  <2> HIDE DEF s
  <2>2. /\ rt'.items = rt.items /\ rt'.pending_steers = Tail(rt.pending_steers)
        /\ rt'.steer = [entry |-> s, crossed |-> FALSE]
    BY <1>3 DEF QueueShape
  <2>3. rt'.steer # None /\ rt'.steer.entry = s
    <3>1. rt'.steer \in SteersInFlight /\ rt'.steer.entry = s
      BY <2>1, <2>2 DEF SteersInFlight
    <3> QED BY <3>1, QueueBounds
  <2>4. Items' = Items /\ Lane' = Lane \ {s} /\ Steering = {} /\ Steering' = {s} /\ Starting' = Starting
    BY <1>1, <1>3, <2>1, <2>2, <2>3, StartingSame DEF Items, Lane, Steering
  <2>5. /\ tasks'[w].stage = "steering" /\ tasks'[w].entry = s
        /\ \A v \in SteerTasks : v # w => tasks'[v] = tasks[v]
    BY <1>3 DEF QueueShape, TasksShape
  <2>6. Places' = Places
    BY <2>1, <2>4 DEF Places
  <2>7. PlacesApart'
    BY <2>1, <2>4 DEF PlacesInv, PlacesApart
  <2>8. NoRepetition' /\ AllKnown' /\ NoneLost'
    BY <1>1, <2>1, <2>2, <2>6, KnownSame DEF PlacesInv, NoRepetition, AllKnown, NoneLost
  <2>9. AcceptedIsPrompted'
    BY <1>1, <2>5 DEF PlacesInv, AcceptedIsPrompted, At
  <2>10. FaultFree'
    <3> SUFFICES ASSUME faults = 0
                 PROVE  /\ \A v \in SteerTasks : tasks'[v].stage \in Carrying => tasks'[v].entry \in Steering'
                        /\ \A u, v \in SteerTasks :
                             tasks'[u].stage \in Carrying /\ tasks'[v].stage \in Carrying => u = v
                        /\ Places' \ Taken' = ToSet(line)'
      BY <1>1 DEF FaultFree
    <3>1. \A v \in SteerTasks : tasks[v].stage \notin Carrying
      BY <2>4 DEF PlacesInv, FaultFree
    <3>2. Taken' = {} /\ Taken = {}
      BY <1>1, <2>4, <2>5, <3>1 DEF Taken, At, Carrying
    <3> QED BY <1>1, <2>4, <2>5, <2>6, <3>1, <3>2 DEF PlacesInv, FaultFree
  <2> QED BY <2>7, <2>8, <2>9, <2>10 DEF PlacesInv
<1> QED BY <1>2, <1>3 DEF DispatchSteer

\* The agent takes the steered message, and the task goes on to say so or, when
\* the answer is lost, to say the opposite.
LEMMA SteeredPlaces ==
    ASSUME QueueShape, PlacesInv, NEW w \in SteerTasks, NEW stage \in {"accepted", "rejected"},
           UNCHANGED <<rt, actor, results, pending>>,
           tasks[w].stage \in {"steering", "handoff"}, Goes(w, stage), Deliver(tasks[w].entry),
           faults' = 0 => faults = 0 /\ stage = "accepted"
    PROVE  PlacesInv'
<1> DEFINE s == tasks[w].entry
<1>1. s \in Submissions /\ TasksShape
  BY DEF QueueShape, TasksShape, Carrying
<1>2. /\ tasks'[w].stage = stage /\ tasks'[w].entry = s
      /\ \A v \in SteerTasks : v # w => tasks'[v] = tasks[v]
  BY <1>1, GoesTasks
<1>3. /\ prompted'[s] > 0
      /\ \A r \in Submissions : r # s => prompted'[r] = prompted[r]
  BY <1>1 DEF Deliver, QueueShape
<1>4. line' = RemoveFirst(line, s)
  BY DEF Deliver
<1> HIDE DEF s
<1>5. IsInjective(line') /\ ToSet(line') = ToSet(line) \ {s} /\ ToSet(line) \subseteq Submissions
  <2>1. ToSet(line) \subseteq Submissions
    BY DEF QueueShape, ToSet
  <2> QED BY <1>4, <2>1, RemoveFirstDistinct DEF PlacesInv, NoRepetition, QueueShape
<1>6. Items' = Items /\ Lane' = Lane /\ Steering' = Steering /\ Starting' = Starting /\ Known' = Known
  BY StartingSame, KnownSame DEF Items, Lane, Steering
<1>7. Places' = Places
  BY <1>6 DEF Places
<1>8. NoRepetition' /\ PlacesApart'
  BY <1>5, <1>6 DEF PlacesInv, NoRepetition, PlacesApart
<1>9. AllKnown' /\ NoneLost'
  BY <1>3, <1>5, <1>6, <1>7 DEF PlacesInv, AllKnown, NoneLost
<1>10. AcceptedIsPrompted'
  <2> SUFFICES ASSUME NEW v \in SteerTasks, tasks'[v].stage = "accepted"
               PROVE  prompted'[tasks'[v].entry] > 0
    BY DEF AcceptedIsPrompted, At
  <2>1. CASE v = w
    BY <1>2, <1>3, <2>1
  <2>2. CASE v # w
    <3>1. prompted[tasks[v].entry] > 0 /\ tasks[v].entry \in Submissions
      BY <1>2, <2>2 DEF PlacesInv, AcceptedIsPrompted, At, QueueShape, TasksShape, Carrying
    <3> QED BY <1>2, <1>3, <2>2, <3>1
  <2> QED BY <2>1, <2>2
<1>11. FaultFree'
  <2> SUFFICES ASSUME faults = 0, stage = "accepted"
               PROVE  /\ \A v \in SteerTasks : tasks'[v].stage \in Carrying => tasks'[v].entry \in Steering'
                      /\ \A u, v \in SteerTasks :
                           tasks'[u].stage \in Carrying /\ tasks'[v].stage \in Carrying => u = v
                      /\ Places' \ Taken' = ToSet(line)'
    BY DEF FaultFree
  <2>1. /\ s \in Steering
        /\ \A v \in SteerTasks : v # w => tasks[v].stage \notin Carrying
    BY DEF PlacesInv, FaultFree, Carrying, s
  <2>2. Taken = {} /\ Taken' = {s}
    BY <1>2, <1>6, <2>1 DEF Taken, At, Carrying, Steering
  <2> QED BY <1>2, <1>5, <1>6, <1>7, <2>1, <2>2 DEF PlacesInv, FaultFree, Carrying
<1> QED BY <1>8, <1>9, <1>10, <1>11 DEF PlacesInv

LEMMA DeliverPlaces ==
    ASSUME QueueShape, PlacesInv, NEW w \in SteerTasks, SteerNative(w) \/ HandoffAccepted(w)
    PROVE  PlacesInv'
<1>1. UNCHANGED <<rt, actor, results, pending>>
  BY DEF SteerNative, HandoffAccepted, submissionVars
<1>2. CASE SteerNative(w)
  <2>1. tasks[w].stage = "steering"
    BY <1>2 DEF SteerNative, At
  <2>2. CASE Goes(w, "accepted") /\ Deliver(tasks[w].entry) /\ UNCHANGED faults
    BY <1>1, <2>1, <2>2, SteeredPlaces
  <2>3. CASE Fault("answer") /\ Goes(w, "rejected") /\ Deliver(tasks[w].entry)
    <3>1. faults' # 0
      BY <2>3, FaultCounts
    <3> QED BY <1>1, <2>1, <2>3, <3>1, SteeredPlaces
  <2>4. CASE /\ IF Steerable(w) THEN Fault("steer") ELSE UNCHANGED faults
             /\ Goes(w, "rejected") /\ UNCHANGED <<prompted, line>>
    <3>1. TasksKept
      BY <2>1, <2>4, TasksMoved DEF Carrying
    <3>2. faults' = 0 => faults = 0
      BY <2>4, FaultCounts
    <3> QED BY <1>1, <2>4, <3>1, <3>2, PlacesKept, KnownSame, StartingSame
  <2> QED BY <1>2, <2>2, <2>3, <2>4 DEF SteerNative
<1>3. CASE HandoffAccepted(w)
  <2>1. /\ tasks[w].stage = "handoff" /\ Goes(w, "accepted") /\ Deliver(tasks[w].entry)
        /\ UNCHANGED faults
    BY <1>3 DEF HandoffAccepted, At
  <2> QED BY <1>1, <2>1, SteeredPlaces
<1> QED BY <1>2, <1>3

\* The steer comes to an end: an accepted message is gone, a refused one goes
\* back to the lane, or to the queue if the run has ended meanwhile.
LEMMA FinishSteerPlaces ==
    ASSUME QueueShape, PlacesInv, NEW w \in SteerTasks, FinishSteer(w)
    PROVE  PlacesInv'
<1> USE DEF RuntimeFields
<1> DEFINE s == tasks[w].entry
           owned == rt.steer # None /\ rt.steer.entry = s
           refused == tasks[w].stage = "rejected"
<1>1. /\ UNCHANGED <<actor, results, pending, prompted, line, faults>>
      /\ tasks[w].stage \in {"accepted", "rejected"}
  BY DEF FinishSteer, QueueOnly, submissionVars, history, At
<1>2. s \in Submissions /\ TasksShape
  BY <1>1 DEF QueueShape, TasksShape, Carrying
<1>3. tasks'[w].stage \notin Carrying /\ \A v \in SteerTasks : v # w => tasks'[v] = tasks[v]
  BY <1>2, GoesTasks, EndsTasks DEF FinishSteer, Carrying
<1>4. Starting' = Starting /\ Known' = Known
  BY <1>1, StartingSame, KnownSame
<1>5. AcceptedIsPrompted'
  BY <1>1, <1>3 DEF PlacesInv, AcceptedIsPrompted, At, Carrying
<1>6. CASE ~owned
  <2>1. rt' = rt
    BY <1>6 DEF FinishSteer
  <2>2. Items' = Items /\ Lane' = Lane /\ Steering' = Steering
    BY <2>1 DEF Items, Lane, Steering
  <2>3. Places' = Places /\ PlacesApart' /\ NoRepetition'
    BY <1>1, <1>4, <2>1, <2>2 DEF Places, PlacesApart, NoRepetition, PlacesInv
  <2>4. AllKnown' /\ NoneLost'
    BY <1>1, <1>4, <2>3 DEF PlacesInv, AllKnown, NoneLost
  <2>5. faults # 0
    BY <1>1, <1>6 DEF PlacesInv, FaultFree, Steering, Carrying
  <2> QED BY <1>1, <1>5, <2>3, <2>4, <2>5 DEF PlacesInv, FaultFree
<1>7. CASE owned
  <2>1. Steering = {s} /\ s \notin Items /\ s \notin Lane /\ s \notin Starting
    BY <1>7 DEF Steering, PlacesInv, PlacesApart
  <2>2. /\ rt'.steer = None
        /\ rt'.items = IF rt.steer.crossed /\ refused THEN <<s>> \o rt.items
                       ELSE IF rt.steer.crossed THEN <<>> \o rt.items ELSE rt.items
        /\ rt'.pending_steers = IF ~rt.steer.crossed /\ refused THEN <<s>> \o rt.pending_steers
                                ELSE IF rt.steer.crossed THEN rt.pending_steers
                                ELSE <<>> \o rt.pending_steers
    BY <1>1, <1>7 DEF FinishSteer, At, QueueShape
  <2>3. /\ rt.items \in Seq(Submissions) /\ rt.pending_steers \in Seq(Submissions)
        /\ IsInjective(rt.items) /\ IsInjective(rt.pending_steers)
    BY DEF QueueShape, PlacesInv, NoRepetition
  <2>4. <<>> \o rt.items = rt.items /\ <<>> \o rt.pending_steers = rt.pending_steers
    BY <2>3, ConcatEmptySeq
  <2>5. /\ ToSet(<<s>> \o rt.items) = {s} \cup Items /\ IsInjective(<<s>> \o rt.items)
        /\ ToSet(<<s>> \o rt.pending_steers) = {s} \cup Lane /\ IsInjective(<<s>> \o rt.pending_steers)
    BY <1>2, <2>1, <2>3, ConsDistinct DEF Items, Lane
  <2>6. Steering' = {}
    BY <2>2 DEF Steering
  <2>7. /\ Items' \cup Lane' = Items \cup Lane \cup (IF refused THEN {s} ELSE {})
        /\ Items' \cap Lane' = {}
    BY <2>1, <2>2, <2>4, <2>5 DEF Items, Lane, PlacesInv, PlacesApart
  <2>8. NoRepetition'
    BY <1>1, <2>2, <2>3, <2>4, <2>5 DEF PlacesInv, NoRepetition
  <2> HIDE DEF s, owned
  <2>9. PlacesApart'
    BY <1>4, <2>1, <2>6, <2>7 DEF PlacesInv, PlacesApart
  <2>10. Places' = IF refused THEN Places ELSE Places \ {s}
    BY <1>4, <2>1, <2>6, <2>7 DEF Places
  <2>11. ~refused => prompted[s] > 0
    BY <1>1 DEF PlacesInv, AcceptedIsPrompted, At, s
  <2>12. AllKnown' /\ NoneLost'
    BY <1>1, <1>4, <2>10, <2>11 DEF PlacesInv, AllKnown, NoneLost
  <2>13. FaultFree'
    <3> SUFFICES ASSUME faults = 0
                 PROVE  /\ \A v \in SteerTasks : tasks'[v].stage \in Carrying => tasks'[v].entry \in Steering'
                        /\ \A u, v \in SteerTasks :
                             tasks'[u].stage \in Carrying /\ tasks'[v].stage \in Carrying => u = v
                        /\ Places' \ Taken' = ToSet(line)'
      BY <1>1 DEF FaultFree
    <3>1. \A v \in SteerTasks : v # w => tasks[v].stage \notin Carrying
      BY <1>1 DEF PlacesInv, FaultFree, Carrying
    <3>2. \A v \in SteerTasks : tasks'[v].stage \notin Carrying
      BY <1>3, <3>1
    <3>3. Taken' = {} /\ Taken = IF refused THEN {} ELSE {s}
      BY <1>1, <2>1, <2>6, <3>1 DEF Taken, At, Carrying, s
    <3> QED BY <1>1, <2>10, <3>2, <3>3 DEF PlacesInv, FaultFree
  <2> QED BY <1>5, <2>8, <2>9, <2>12, <2>13 DEF PlacesInv
<1> QED BY <1>6, <1>7

\* A failed dispatch takes back whatever steer is in flight.
LEMMA FailSteerPlaces ==
    ASSUME QueueShape, PlacesInv, NEW w \in SteerTasks, FailSteerDispatch(w)
    PROVE  PlacesInv'
<1> USE DEF RuntimeFields
<1>1. /\ UNCHANGED <<actor, results, pending, prompted, line>> /\ Ends(w)
      /\ tasks[w].stage \in {"verifying", "steering"}
      /\ rt'.items = rt.items /\ rt'.steer = None
      /\ rt'.pending_steers = IF rt.steer = None THEN rt.pending_steers
                              ELSE <<rt.steer.entry>> \o rt.pending_steers
  BY DEF FailSteerDispatch, QueueOnly, submissionVars, history, At, QueueShape
<1>2. faults' # 0
  BY FaultCounts DEF FailSteerDispatch
<1>3. Items' = Items /\ Starting' = Starting /\ Known' = Known /\ Steering' = {}
  BY <1>1, StartingSame, KnownSame DEF Items, Steering
<1>4. Lane' = Lane \cup Steering /\ IsInjective(rt'.pending_steers)
  <2>1. CASE rt.steer = None
    BY <1>1, <2>1 DEF Lane, Steering, PlacesInv, NoRepetition
  <2>2. CASE rt.steer # None
    <3> DEFINE s == rt.steer.entry
    <3>1. s \in Submissions /\ s \notin Lane /\ Steering = {s}
      BY <2>2 DEF QueueShape, SteersInFlight, Steering, PlacesInv, PlacesApart
    <3> HIDE DEF s
    <3>2. /\ ToSet(<<s>> \o rt.pending_steers) = {s} \cup ToSet(rt.pending_steers)
          /\ IsInjective(<<s>> \o rt.pending_steers)
      BY <3>1, ConsDistinct DEF QueueShape, PlacesInv, NoRepetition, Lane
    <3> QED BY <1>1, <2>2, <3>1, <3>2 DEF Lane, s
  <2> QED BY <2>1, <2>2
<1>5. Places' = Places
  BY <1>3, <1>4 DEF Places
<1>6. PlacesApart' /\ NoRepetition'
  BY <1>1, <1>3, <1>4 DEF PlacesInv, PlacesApart, NoRepetition
<1>7. AllKnown' /\ NoneLost'
  BY <1>1, <1>3, <1>5 DEF PlacesInv, AllKnown, NoneLost
<1>8. AcceptedIsPrompted'
  <2>1. tasks'[w].stage = "idle" /\ \A v \in SteerTasks : v # w => tasks'[v] = tasks[v]
    BY <1>1, EndsTasks DEF QueueShape
  <2> QED BY <1>1, <2>1 DEF PlacesInv, AcceptedIsPrompted, At
<1> QED BY <1>2, <1>6, <1>7, <1>8 DEF PlacesInv, FaultFree

\* Nothing is accepted or in a place before the first message and after a restart.
LEMMA FreshPlaces ==
    ASSUME rt.items = <<>>, rt.pending_steers = <<>>, rt.steer = None, actor = None, line = <<>>,
           \A w \in SteerTasks : tasks[w].stage = "idle"
    PROVE  PlacesInv
<1>1. Items = {} /\ Lane = {} /\ Steering = {} /\ Starting = {} /\ ToSet(line) = {}
  BY DEF Items, Lane, Steering, Starting, Free, ToSet
<1>2. NoRepetition
  BY DEF NoRepetition, IsInjective
<1>3. Taken = {}
  BY <1>1 DEF Taken
<1> QED BY <1>1, <1>2, <1>3 DEF PlacesInv, PlacesApart, AllKnown, NoneLost, AcceptedIsPrompted, FaultFree,
                                Places, At, Carrying

LEMMA FreshPlacesNext ==
    ASSUME rt'.items = <<>>, rt'.pending_steers = <<>>, rt'.steer = None, actor' = None, line' = <<>>,
           \A w \in SteerTasks : tasks'[w].stage = "idle"
    PROVE  PlacesInv'
<1>1. Items' = {} /\ Lane' = {} /\ Steering' = {} /\ Starting' = {} /\ ToSet(line') = {}
  BY DEF Items, Lane, Steering, Starting, Free, ToSet
<1>2. NoRepetition'
  BY DEF NoRepetition, IsInjective
<1>3. Taken' = {}
  BY <1>1 DEF Taken
<1> QED BY <1>1, <1>2, <1>3 DEF PlacesInv, PlacesApart, AllKnown, NoneLost, AcceptedIsPrompted, FaultFree,
                                Places, At, Carrying

LEMMA PlacesStep ==
    ASSUME QueueShape, PlacesInv, [Next]_vars PROVE PlacesInv'
<1>1. CASE PhoneCalls
  <2>1. TRUE \in BOOLEAN
    OBVIOUS
  <2> QED BY <1>1, <2>1, PhoneQuiet, SendPlaces, CancelPlaces, SteerPlaces DEF PhoneCalls
<1>2. CASE \E ok \in BOOLEAN : StatusFlush(ok)
  <2>1. CASE Submissions = {}
    <3>1. rt' = rt /\ UNCHANGED <<actor, tasks, results, pending, prompted, line>>
      BY <1>2 DEF StatusFlush, Persist, queueVars, history
    <3>2. faults' = 0 => faults = 0
      BY <1>2, FaultCounts DEF StatusFlush, Persist, Write
    <3> QED BY <3>1, <3>2, PlacesKept, TasksSame, KnownSame, StartingSame
  <2>2. CASE Submissions # {}
    BY <1>2, <2>2, PhoneQuiet
  <2> QED BY <2>1, <2>2
<1>3. CASE DrainThreadQueue
  BY <1>3, BridgeQuiet, DrainPlaces
<1>4. CASE RetryTimer
  BY <1>4, BridgeQuiet
<1>5. CASE TurnAnswered
  BY <1>5, BridgeQuiet, AnswerPlaces DEF TurnAnswered
<1>6. CASE DispatchReturns
  BY <1>6, BridgeQuiet, NotStartedPlaces DEF DispatchReturns
<1>7. CASE AgentActs \/ RunEnds
  BY <1>7, AgentQuiet
<1>8. CASE HandleCanonicalEvent
  BY <1>8, AgentQuiet, FinishedPlaces
<1>9. ASSUME NEW w \in SteerTasks, SteerStep(w) \/ FailSteerDispatch(w) PROVE PlacesInv'
  BY <1>9, SteerQuiet, DispatchPlaces, DeliverPlaces, FinishSteerPlaces, FailSteerPlaces DEF SteerStep
<1>10. CASE Restart
  <2>1. /\ rt'.items = <<>> /\ rt'.pending_steers = <<>> /\ rt'.steer = None
        /\ actor' = None /\ line' = <<>>
    BY <1>10 DEF Restart, NewRuntime
  <2>2. \A w \in SteerTasks : tasks'[w].stage = "idle"
    BY <1>10 DEF Restart, NoTask
  <2> QED BY <2>1, <2>2, FreshPlacesNext
<1>11. CASE UNCHANGED vars
  <2>1. rt' = rt /\ UNCHANGED <<actor, tasks, results, pending, prompted, line, faults>>
    BY <1>11 DEF vars, queueVars, submissionVars, history
  <2> QED BY <2>1, PlacesKept, TasksSame, KnownSame, StartingSame
<1> QED BY <1>1, <1>2, <1>3, <1>4, <1>5, <1>6, <1>7, <1>8, <1>9, <1>10, <1>11 DEF Next

\* As many elements as positions.
LEMMA DistinctLength ==
    ASSUME NEW S, NEW q \in Seq(S), IsInjective(q)
    PROVE  Len(q) = Cardinality(ToSet(q))
<1>1. q \in [1..Len(q) -> ToSet(q)]
  BY DEF ToSet
<1>2. q \in Injection(1..Len(q), ToSet(q))
  BY <1>1 DEF Injection, IsInjective
<1>3. q \in Surjection(1..Len(q), ToSet(q))
  BY <1>1 DEF Surjection, ToSet
<1>4. ExistsBijection(1..Len(q), ToSet(q))
  BY <1>2, <1>3 DEF ExistsBijection, Bijection
<1> QED BY <1>4, FS_CountingElements

LEMMA InOnePlace ==
    ASSUME QueueShape, PlacesInv PROVE EachMessageInOnePlace
<1> DEFINE a == IF ~Free /\ actor.stage \in {"asking", "refused"} THEN <<actor.entry>> ELSE <<>>
           b == IF rt.steer = None THEN <<>> ELSE <<rt.steer.entry>>
           c == rt.pending_steers
           d == rt.items
           q == a \o b \o c \o d
<1>1. a \in Seq(Submissions) /\ IsInjective(a) /\ ToSet(a) = Starting
  <2>1. CASE ~Free /\ actor.stage \in {"asking", "refused"}
    <3>1. actor.entry \in Submissions
      BY <2>1 DEF QueueShape, TurnRequests, Free
    <3> QED BY <2>1, <3>1, SingleDistinct DEF Starting
  <2>2. CASE ~(~Free /\ actor.stage \in {"asking", "refused"})
    BY <2>2 DEF Starting, ToSet, IsInjective
  <2> QED BY <2>1, <2>2
<1>2. b \in Seq(Submissions) /\ IsInjective(b) /\ ToSet(b) = Steering
  <2>1. CASE rt.steer # None
    <3>1. rt.steer.entry \in Submissions
      BY <2>1 DEF QueueShape, SteersInFlight
    <3> QED BY <2>1, <3>1, SingleDistinct DEF Steering
  <2>2. CASE rt.steer = None
    BY <2>2 DEF Steering, ToSet, IsInjective
  <2> QED BY <2>1, <2>2
<1>3. c \in Seq(Submissions) /\ IsInjective(c) /\ ToSet(c) = Lane
  BY DEF QueueShape, PlacesInv, NoRepetition, Lane
<1>4. d \in Seq(Submissions) /\ IsInjective(d) /\ ToSet(d) = Items
  BY DEF QueueShape, PlacesInv, NoRepetition, Items
<1> HIDE DEF a, b, c, d
<1>5. a \o b \in Seq(Submissions) /\ IsInjective(a \o b) /\ ToSet(a \o b) = Starting \cup Steering
  BY <1>1, <1>2, ConcatDistinct DEF PlacesInv, PlacesApart
<1> DEFINE ab == a \o b
<1> HIDE DEF ab
<1>6. ab \o c \in Seq(Submissions) /\ IsInjective(ab \o c) /\ ToSet(ab \o c) = Starting \cup Steering \cup Lane
  <2>1. ToSet(ab) \cap ToSet(c) = {}
    BY <1>3, <1>5 DEF ab, PlacesInv, PlacesApart
  <2>2. ab \in Seq(Submissions) /\ IsInjective(ab) /\ ToSet(ab) = Starting \cup Steering
    BY <1>5 DEF ab
  <2> QED BY <1>3, <2>1, <2>2, ConcatDistinct
<1> DEFINE abc == ab \o c
<1> HIDE DEF abc
<1>7. abc \o d \in Seq(Submissions) /\ IsInjective(abc \o d) /\ ToSet(abc \o d) = Places
  <2>1. ToSet(abc) \cap ToSet(d) = {}
    BY <1>4, <1>6 DEF abc, PlacesInv, PlacesApart
  <2>2. ToSet(abc) \cup ToSet(d) = Places
    BY <1>4, <1>6 DEF abc, Places
  <2>3. abc \in Seq(Submissions) /\ IsInjective(abc)
    BY <1>6 DEF abc
  <2> QED BY <1>4, <2>1, <2>2, <2>3, ConcatDistinct
<1>8. q \in Seq(Submissions) /\ IsInjective(q) /\ ToSet(q) = Places
  BY <1>7 DEF abc, ab
<1>9. Len(q) = Cardinality(ToSet(q))
  BY <1>8, DistinctLength
<1>10. {s \in ToSet(b) : \E w \in SteerTasks : At(w, "accepted") /\ tasks[w].entry = s} = Taken
  BY <1>2 DEF Taken
<1> HIDE DEF q
<1>11. /\ \A s \in ToSet(line) : prompted[s] = 0 => s \in ToSet(q)
       /\ faults = 0 => ToSet(q) \ Taken = ToSet(line)
  BY <1>8 DEF PlacesInv, NoneLost, FaultFree
<1> QED BY <1>9, <1>10, <1>11 DEF EachMessageInOnePlace, q, a, b, c, d

\* Every accepted message is in exactly one place, however steers, refusals, the
\* end of the run, failures and restarts interleave: the thread's actor is given
\* up while a steer is with the agent, and still no message is lost or doubled.
THEOREM MessagesInOnePlace == Spec => []EachMessageInOnePlace
<1>1. Init => QueueShape /\ PlacesInv
  <2> SUFFICES ASSUME Init PROVE PlacesInv
    BY ShapeInit
  <2>1. \A w \in SteerTasks : tasks[w].stage = "idle"
    BY DEF Init, NoTask
  <2> QED BY <2>1, FreshPlaces DEF Init, NewRuntime
<1>2. QueueShape /\ PlacesInv /\ [Next]_vars => (QueueShape /\ PlacesInv)'
  BY ShapeStep, PlacesStep
<1>3. QueueShape /\ PlacesInv => EachMessageInOnePlace
  BY InOnePlace
<1> QED BY <1>1, <1>2, <1>3, PTL DEF Spec

-----------------------------------------------------------------------------
(* Delivery without steering. *)

\* Without steering the lane stays empty and no steering task is spawned.
NoSteering ==
    /\ rt.pending_steers = <<>> /\ rt.steer = None
    /\ \A w \in SteerTasks : tasks[w].stage = "idle"

\* The messages the agent has, or is about to be asked to take.
Given == {s \in Submissions : prompted[s] > 0 \/ s \in Starting}

\* Remembered in memory and on disk, as a receipt or a reservation.
Safe(s) ==
    /\ results[s] = "sent" \/ s \in pending
    /\ s \in store.sent \cup store.pending

GivenIsSafe == \A s \in Given : Safe(s)

PromptedOnce ==
    \A s \in Submissions : prompted[s] > 0 => prompted[s] = 1 /\ s \notin Items \cup Starting

\* The message at the agent's door, as a sequence.
AtTheDoor == IF ~Free /\ actor.stage \in {"asking", "refused"} THEN <<actor.entry>> ELSE <<>>

InLine == AtTheDoor \o rt.items = line

DeliveryInv == NoSteering /\ GivenIsSafe /\ PromptedOnce /\ InLine

\* A write keeps what it is told to keep, whether it fails or not.
LEMMA PersistSafe ==
    ASSUME SubmissionsShape, NEW res \in [Submissions -> {"none", "queued", "sent"}],
           NEW pend \in SUBSET Submissions, NEW ok \in BOOLEAN, NEW G \in SUBSET Submissions,
           Persist(res, pend, ok),
           \A s \in G : res[s] = "sent" \/ s \in pend,
           \A s \in G : ok \/ s \in store.sent \cup store.pending
    PROVE  \A s \in G : Safe(s)'
<1>1. results' = res /\ pending' = pend
  BY DEF Persist
<1>2. store' = Stored(res, pend) \/ (~ok /\ store' = store)
  BY DEF Persist, Write
<1>3. \A s \in G : s \in Stored(res, pend).sent \cup Stored(res, pend).pending
  BY DEF Stored
<1>4. \A s \in G : s \in store'.sent \cup store'.pending
  BY <1>2, <1>3
<1> QED BY <1>1, <1>4 DEF Safe

\* A failed reservation keeps what was safe.
LEMMA ReserveFailsSafe ==
    ASSUME SubmissionsShape, NEW r \in Submissions, NEW G \in SUBSET Submissions,
           ReserveFails(r), \A s \in G : Safe(s)
    PROVE  \A s \in G : Safe(s)'
<1>1. UNCHANGED <<results, pending>>
  BY DEF ReserveFails
<1>2. store' \in {store, Stored(results, pending \cup {r}), Stored(results, pending)}
  BY DEF ReserveFails
<1>3. \A s \in G : /\ s \in Stored(results, pending).sent \cup Stored(results, pending).pending
                   /\ s \in Stored(results, pending \cup {r}).sent \cup Stored(results, pending \cup {r}).pending
  BY DEF Stored, Safe
<1>4. \A s \in G : s \in store'.sent \cup store'.pending
  BY <1>2, <1>3 DEF Safe
<1> QED BY <1>1, <1>4 DEF Safe

LEMMA SafeSame ==
    ASSUME UNCHANGED <<results, pending, store>>, NEW G, \A s \in G : Safe(s)
    PROVE  \A s \in G : Safe(s)'
BY DEF Safe

\* Steps that neither move a message nor give the agent one.
LEMMA DeliveryKept ==
    ASSUME QueueShape, DeliveryInv, NoSteering', rt'.items = rt.items,
           AtTheDoor' = AtTheDoor, Starting' = Starting, line' = line, prompted' = prompted,
           \A s \in Given : Safe(s)'
    PROVE  DeliveryInv'
<1>1. Items' = Items /\ Given' = Given
  BY DEF Items, Given
<1>2. GivenIsSafe'
  BY <1>1 DEF GivenIsSafe
<1>3. PromptedOnce'
  BY <1>1 DEF DeliveryInv, PromptedOnce
<1>4. InLine'
  BY DEF DeliveryInv, InLine
<1> QED BY <1>2, <1>3, <1>4 DEF DeliveryInv

LEMMA DoorSame == UNCHANGED actor => AtTheDoor' = AtTheDoor /\ Starting' = Starting
BY DEF AtTheDoor, Starting, Free

LEMMA PhoneDelivery ==
    ASSUME QueueShape, PlacesInv, DeliveryInv, SteerModes = {}, NEW s \in Submissions, NEW ok \in BOOLEAN,
           \/ SendKnown(s, ok) \/ SendQueued(s, ok) \/ CancelMessage(s, ok) \/ SendNow(s)
           \/ SendNotReserved(s) \/ StartMessageEdit(s) \/ EndMessageEdit(s) \/ SteerMessage(s)
    PROVE  DeliveryInv'
<1> USE DEF RuntimeFields
<1>0. /\ SubmissionsShape /\ Given \subseteq Submissions
      /\ \A r \in Given : Safe(r)
      /\ \A r \in Given : results[r] = "sent" \/ r \in pending
      /\ \A r \in Given : r \in store.sent \cup store.pending
  BY DEF QueueShape, DeliveryInv, GivenIsSafe, Given, Safe
<1>1. CASE SendKnown(s, ok)
  <2>1. Persist(results, pending, ok) /\ UNCHANGED <<rt, actor, tasks, prompted, line>>
    BY <1>1 DEF SendKnown, queueVars, history
  <2>2. \A r \in Given : Safe(r)'
    BY <1>0, <2>1, PersistSafe DEF SubmissionsShape
  <2> QED BY <2>1, <2>2, DeliveryKept, DoorSame DEF DeliveryInv, NoSteering
<1>2. CASE SendNotReserved(s)
  <2>1. ReserveFails(s) /\ UNCHANGED <<rt, actor, tasks, prompted, line>>
    BY <1>2 DEF SendNotReserved, queueVars, history
  <2>2. \A r \in Given : Safe(r)'
    BY <1>0, <2>1, ReserveFailsSafe
  <2> QED BY <2>1, <2>2, DeliveryKept, DoorSame DEF DeliveryInv, NoSteering
<1>3. CASE StartMessageEdit(s) \/ EndMessageEdit(s)
  <2>1. /\ rt'.items = rt.items /\ rt'.pending_steers = rt.pending_steers /\ rt'.steer = rt.steer
        /\ UNCHANGED <<actor, tasks, prompted, line, results, pending, store>>
    BY <1>3 DEF StartMessageEdit, EndMessageEdit, submissionVars, history, QueueShape
  <2>2. \A r \in Given : Safe(r)'
    BY <1>0, <2>1, SafeSame
  <2> QED BY <2>1, <2>2, DeliveryKept, DoorSame DEF DeliveryInv, NoSteering
<1>4. CASE SteerMessage(s)
  BY <1>4 DEF SteerMessage
<1>5. CASE SendQueued(s, ok)
  <2>1. /\ rt'.items = Append(rt.items, s) /\ rt'.pending_steers = rt.pending_steers /\ rt'.steer = rt.steer
        /\ UNCHANGED <<actor, tasks, prompted>> /\ line' = Append(line, s) /\ Free
        /\ results[s] = "none" /\ s \notin pending
        /\ Persist([results EXCEPT ![s] = "queued"], pending \ {s}, ok)
    BY <1>5 DEF SendQueued, SendIsNew, Remember, QueueShape
  <2>2. s \notin Given
    BY <1>0, <2>1
  <2>3. Items' = Items \cup {s}
    <3>1. s \notin ToSet(rt.items)
      BY <2>1 DEF PlacesInv, AllKnown, Known, Places, Items
    <3> QED BY <2>1, <3>1, AppendDistinct DEF Items, QueueShape, PlacesInv, NoRepetition
  <2>4. Starting' = {} /\ AtTheDoor' = <<>> /\ AtTheDoor = <<>> /\ Given' = Given
    BY <2>1, DoorSame DEF Starting, AtTheDoor, Given
  <2>5. \A r \in Given : Safe(r)'
    <3> DEFINE res == [results EXCEPT ![s] = "queued"]
    <3>1. /\ res \in [Submissions -> {"none", "queued", "sent"}]
          /\ pending \ {s} \in SUBSET Submissions
          /\ \A r \in Given : res[r] = "sent" \/ r \in pending \ {s}
      BY <1>0, <2>2 DEF SubmissionsShape
    <3>2. Persist(res, pending \ {s}, ok)
      BY <2>1
    <3> HIDE DEF res
    <3> QED BY <1>0, <3>1, <3>2, PersistSafe
  <2>6. PromptedOnce'
    BY <2>1, <2>2, <2>3, <2>4 DEF DeliveryInv, PromptedOnce, Given
  <2>7. InLine'
    <3>1. rt.items = line
      BY <2>4, ConcatEmptySeq DEF DeliveryInv, InLine, QueueShape
    <3>2. Append(rt.items, s) \in Seq(Submissions)
      BY DEF QueueShape
    <3> QED BY <2>1, <2>4, <3>1, <3>2, ConcatEmptySeq DEF InLine
  <2> QED BY <2>1, <2>4, <2>5, <2>6, <2>7 DEF DeliveryInv, NoSteering, GivenIsSafe
<1>6. CASE CancelMessage(s, ok)
  <2>1. /\ rt'.items = RemoveFirst(rt.items, s) /\ rt'.steer = rt.steer
        /\ rt'.pending_steers = IF s \in Items THEN rt.pending_steers
                                ELSE RemoveFirst(rt.pending_steers, s)
        /\ s \in Items \cup Lane
        /\ line' = RemoveFirst(line, s) /\ UNCHANGED <<actor, tasks, prompted>> /\ Free
        /\ Persist([results EXCEPT ![s] = "none"], pending \ {s}, ok)
    BY <1>6 DEF CancelMessage, ForgetSubmission, Items, Lane, QueueShape
  <2>2. Lane = {}
    BY DEF DeliveryInv, NoSteering, Lane, ToSet
  <2>3. s \in Items /\ NoSteering'
    BY <2>1, <2>2 DEF DeliveryInv, NoSteering
  <2>4. Starting = {} /\ Starting' = {} /\ AtTheDoor' = <<>> /\ AtTheDoor = <<>> /\ Given' = Given
    BY <2>1, DoorSame DEF Starting, AtTheDoor, Given
  <2>5. s \notin Given
    BY <2>3, <2>4 DEF DeliveryInv, PromptedOnce, Given
  <2>6. Items' = Items \ {s} /\ RemoveFirst(rt.items, s) \in Seq(Submissions)
    BY <2>1, RemoveFirstDistinct DEF Items, QueueShape, PlacesInv, NoRepetition
  <2>7. \A r \in Given : Safe(r)'
    <3> DEFINE res == [results EXCEPT ![s] = "none"]
    <3>1. /\ res \in [Submissions -> {"none", "queued", "sent"}]
          /\ pending \ {s} \in SUBSET Submissions
          /\ \A r \in Given : res[r] = "sent" \/ r \in pending \ {s}
      BY <1>0, <2>5 DEF SubmissionsShape
    <3>2. Persist(res, pending \ {s}, ok)
      BY <2>1
    <3> HIDE DEF res
    <3> QED BY <1>0, <3>1, <3>2, PersistSafe
  <2>8. PromptedOnce'
    BY <2>1, <2>4, <2>6 DEF DeliveryInv, PromptedOnce
  <2>9. InLine'
    <3>1. rt.items = line
      BY <2>4, ConcatEmptySeq DEF DeliveryInv, InLine, QueueShape
    <3> QED BY <2>1, <2>4, <2>6, <3>1, ConcatEmptySeq DEF InLine
  <2> QED BY <2>3, <2>4, <2>7, <2>8, <2>9 DEF DeliveryInv, GivenIsSafe
<1>7. CASE SendNow(s)
  <2>1. /\ rt'.items = rt.items /\ rt'.pending_steers = rt.pending_steers /\ rt'.steer = rt.steer
        /\ rt.items = <<>> /\ actor' = Asking("send", s) /\ line' = Append(line, s) /\ Free
        /\ UNCHANGED <<tasks, prompted>> /\ results[s] = "none" /\ s \notin pending
        /\ Persist(results, pending \cup {s}, TRUE)
    BY <1>7 DEF SendNow, SendIsNew, BlockedOrOccupied, Reserve, QueueShape
  <2>2. s \notin Given
    BY <1>0, <2>1
  <2>3. actor' # None /\ actor'.stage = "asking" /\ actor'.entry = s
    <3>1. actor' \in TurnRequests /\ actor'.stage = "asking" /\ actor'.entry = s
      BY <2>1 DEF Asking, TurnRequests
    <3> QED BY <3>1, QueueBounds
  <2>4. /\ Starting' = {s} /\ AtTheDoor' = <<s>> /\ AtTheDoor = <<>> /\ Items' = {}
        /\ Given' \subseteq Given \cup {s} /\ Starting = {}
    BY <2>1, <2>3 DEF Starting, AtTheDoor, Given, Free, Items, ToSet
  <2>5. \A r \in Given \cup {s} : Safe(r)'
    <3>1. /\ pending \cup {s} \in SUBSET Submissions /\ Given \cup {s} \in SUBSET Submissions
          /\ \A r \in Given \cup {s} : results[r] = "sent" \/ r \in pending \cup {s}
      BY <1>0 DEF SubmissionsShape
    <3>2. \A r \in Given \cup {s} : TRUE \/ r \in store.sent \cup store.pending
      OBVIOUS
    <3>3. results \in [Submissions -> {"none", "queued", "sent"}]
      BY <1>0 DEF SubmissionsShape
    <3> QED BY <1>0, <2>1, <3>1, <3>2, <3>3, PersistSafe
  <2>6. PromptedOnce'
    BY <2>1, <2>2, <2>4 DEF DeliveryInv, PromptedOnce, Given
  <2>7. InLine'
    <3>1. line = <<>>
      BY <2>1, <2>4 DEF DeliveryInv, InLine
    <3> QED BY <2>1, <2>4, <3>1 DEF InLine
  <2> QED BY <2>1, <2>4, <2>5, <2>6, <2>7 DEF DeliveryInv, NoSteering, GivenIsSafe
<1> QED BY <1>1, <1>2, <1>3, <1>4, <1>5, <1>6, <1>7

LEMMA DrainDelivery ==
    ASSUME QueueShape, PlacesInv, DeliveryInv,
           DrainThreadQueue \/ RetryTimer \/ \E ok \in BOOLEAN : StatusFlush(ok)
    PROVE  DeliveryInv'
<1> USE DEF RuntimeFields
<1>0. /\ SubmissionsShape /\ Given \subseteq Submissions
      /\ \A r \in Given : Safe(r)
      /\ \A r \in Given : results[r] = "sent" \/ r \in pending
      /\ \A r \in Given : r \in store.sent \cup store.pending
  BY DEF QueueShape, DeliveryInv, GivenIsSafe, Given, Safe
<1>1. ASSUME NEW ok \in BOOLEAN, StatusFlush(ok) PROVE DeliveryInv'
  <2>1. Persist(results, pending, ok) /\ UNCHANGED <<rt, actor, tasks, prompted, line>>
    BY <1>1 DEF StatusFlush, queueVars, history
  <2>2. \A r \in Given : Safe(r)'
    BY <1>0, <2>1, PersistSafe DEF SubmissionsShape
  <2> QED BY <2>1, <2>2, DeliveryKept, DoorSame DEF DeliveryInv, NoSteering
<1>2. CASE RetryTimer
  <2>1. /\ rt'.items = rt.items /\ rt'.pending_steers = rt.pending_steers /\ rt'.steer = rt.steer
        /\ UNCHANGED <<actor, tasks, prompted, line, results, pending, store>>
    BY <1>2 DEF RetryTimer, submissionVars, history, QueueShape
  <2>2. \A r \in Given : Safe(r)'
    BY <1>0, <2>1, SafeSame
  <2> QED BY <2>1, <2>2, DeliveryKept, DoorSame DEF DeliveryInv, NoSteering
<1>3. CASE DrainThreadQueue
  <2>0. UNCHANGED <<tasks, prompted, line>> /\ Free
    BY <1>3 DEF DrainThreadQueue
  <2>1. CASE UNCHANGED <<actor, submissionVars>> /\ (rt' = rt \/ rt' = [rt EXCEPT !.completions = {}])
    <3>1. /\ rt'.items = rt.items /\ rt'.pending_steers = rt.pending_steers /\ rt'.steer = rt.steer
          /\ UNCHANGED <<actor, tasks, prompted, line, results, pending, store>>
      BY <2>0, <2>1 DEF submissionVars, QueueShape
    <3>2. \A r \in Given : Safe(r)'
      BY <1>0, <3>1, SafeSame
    <3> QED BY <3>1, <3>2, DeliveryKept, DoorSame DEF DeliveryInv, NoSteering
  <2>2. CASE /\ rt.items # <<>> /\ ReserveFails(Head(rt.items))
             /\ rt' = [rt EXCEPT !.error = TRUE, !.retry = TRUE] /\ UNCHANGED actor
    <3>1. rt'.items = rt.items /\ rt'.pending_steers = rt.pending_steers /\ rt'.steer = rt.steer
      BY <2>2 DEF QueueShape
    <3>2. Head(rt.items) \in Submissions
      BY <2>2 DEF QueueShape
    <3>3. \A r \in Given : Safe(r)'
      BY <1>0, <2>2, <3>2, ReserveFailsSafe
    <3> QED BY <2>0, <2>2, <3>1, <3>3, DeliveryKept, DoorSame DEF DeliveryInv, NoSteering
  <2>3. CASE /\ rt.items # <<>> /\ Reserve(Head(rt.items))
             /\ rt' = [rt EXCEPT !.items = Tail(@), !.starting = TRUE, !.error = FALSE]
             /\ actor' = Asking("drain", Head(rt.items))
    <3> DEFINE h == Head(rt.items)
    <3>1. /\ h \in Submissions /\ h \in Items /\ ToSet(Tail(rt.items)) = Items \ {h}
          /\ <<h>> \o Tail(rt.items) = rt.items
      <4>1. h \in Submissions /\ h \in Items /\ ToSet(Tail(rt.items)) = Items \ {h}
        BY <2>3, TailDistinct DEF PlacesInv, NoRepetition, QueueShape, Items
      <4> QED BY <2>3, <4>1, HeadAndTail DEF QueueShape
    <3>2. actor' = Asking("drain", h) /\ Persist(results, pending \cup {h}, TRUE)
      BY <2>3 DEF Reserve
    <3> HIDE DEF h
    <3>3. rt'.items = Tail(rt.items) /\ rt'.pending_steers = rt.pending_steers /\ rt'.steer = rt.steer
      BY <2>3 DEF QueueShape
    <3>4. actor' # None /\ actor'.stage = "asking" /\ actor'.entry = h
      <4>1. actor' \in TurnRequests /\ actor'.stage = "asking" /\ actor'.entry = h
        BY <3>1, <3>2 DEF Asking, TurnRequests
      <4> QED BY <4>1, QueueBounds
    <3>5. /\ Starting' = {h} /\ AtTheDoor' = <<h>> /\ AtTheDoor = <<>> /\ Items' = Items \ {h}
          /\ Given' \subseteq Given \cup {h} /\ Starting = {}
      BY <2>0, <3>1, <3>3, <3>4 DEF Starting, AtTheDoor, Given, Free, Items
    <3>6. \A r \in Given \cup {h} : Safe(r)'
      <4>1. /\ pending \cup {h} \in SUBSET Submissions /\ Given \cup {h} \in SUBSET Submissions
            /\ \A r \in Given \cup {h} : results[r] = "sent" \/ r \in pending \cup {h}
        BY <1>0, <3>1 DEF SubmissionsShape
      <4>2. \A r \in Given \cup {h} : TRUE \/ r \in store.sent \cup store.pending
        OBVIOUS
      <4>3. results \in [Submissions -> {"none", "queued", "sent"}]
        BY <1>0 DEF SubmissionsShape
      <4> QED BY <1>0, <3>2, <4>1, <4>2, <4>3, PersistSafe
    <3>7. PromptedOnce'
      BY <2>0, <3>1, <3>5 DEF DeliveryInv, PromptedOnce
    <3>8. InLine'
      <4>1. line = rt.items
        BY <3>5, ConcatEmptySeq DEF DeliveryInv, InLine, QueueShape
      <4> QED BY <2>0, <3>1, <3>3, <3>5, <4>1 DEF InLine
    <3> QED BY <2>0, <3>3, <3>5, <3>6, <3>7, <3>8 DEF DeliveryInv, NoSteering, GivenIsSafe
  <2> QED BY <1>3, <2>1, <2>2, <2>3 DEF DrainThreadQueue
<1> QED BY <1>1, <1>2, <1>3

LEMMA AnswerDelivery ==
    ASSUME QueueShape, PlacesInv, DeliveryInv, TurnAnswered
    PROVE  DeliveryInv'
<1> USE DEF RuntimeFields
<1> DEFINE s == actor.entry
<1>1. /\ ~Free /\ actor.stage = "asking" /\ actor \in TurnRequests
      /\ UNCHANGED <<rt, tasks, results, pending, store>>
  BY DEF TurnAnswered, TurnAdmitted, TurnRefused, TurnLostAfterAdmission, TurnLostBeforeAgent,
         AdmitPrompt, Answered, Free, QueueShape, submissionVars
<1>2. s \in Submissions /\ Starting = {s} /\ AtTheDoor = <<s>>
  BY <1>1 DEF Starting, AtTheDoor, TurnRequests
<1>3. line = <<s>> \o rt.items /\ rt.items \in Seq(Submissions)
  BY <1>2 DEF DeliveryInv, InLine, QueueShape
<1>4. RemoveFirst(line, s) = rt.items
  BY <1>2, <1>3, RemoveFirstOfCons
<1>5. NoSteering' /\ Items' = Items /\ \A r \in Given : Safe(r)'
  BY <1>1 DEF DeliveryInv, NoSteering, Items, GivenIsSafe, Safe
<1>6. CASE TurnRefused
  <2>1. UNCHANGED <<prompted, line>> /\ actor' = [actor EXCEPT !.stage = "refused"]
    BY <1>6 DEF TurnRefused, history
  <2>2. actor' \in TurnRequests /\ actor'.stage = "refused" /\ actor'.entry = s
    BY <1>1, <2>1 DEF TurnRequests
  <2>3. actor' # None
    BY <2>2, QueueBounds
  <2>4. AtTheDoor' = <<s>> /\ Starting' = {s}
    BY <2>2, <2>3 DEF AtTheDoor, Starting, Free
  <2> HIDE DEF s
  <2> QED BY <1>1, <1>2, <1>5, <2>1, <2>4, DeliveryKept
<1>7. CASE TurnAdmitted \/ TurnLostAfterAdmission \/ TurnLostBeforeAgent
  <2>1. /\ actor'.stage \in {"started", "unknown"} /\ line' = RemoveFirst(line, s)
        /\ prompted' = prompted \/ prompted' = [prompted EXCEPT ![s] = @ + 1]
    BY <1>1, <1>7 DEF TurnAdmitted, TurnLostAfterAdmission, TurnLostBeforeAgent, AdmitPrompt, Deliver, TurnRequests
  <2>2. AtTheDoor' = <<>> /\ Starting' = {}
    BY <2>1 DEF AtTheDoor, Starting
  <2>3. s \in Given /\ prompted[s] = 0 /\ s \notin Items
    BY <1>2 DEF Given, DeliveryInv, PromptedOnce, QueueShape, PlacesInv, PlacesApart
  <2> HIDE DEF s
  <2>4. Given' \subseteq Given
    BY <1>2, <2>1, <2>2, <2>3 DEF Given, QueueShape
  <2>5. PromptedOnce'
    BY <1>2, <1>5, <2>1, <2>2, <2>3 DEF DeliveryInv, PromptedOnce, QueueShape
  <2>6. InLine'
    BY <1>1, <1>3, <1>4, <2>1, <2>2, ConcatEmptySeq DEF InLine
  <2> QED BY <1>5, <2>4, <2>5, <2>6 DEF DeliveryInv, GivenIsSafe
<1> QED BY <1>6, <1>7 DEF TurnAnswered

LEMMA ReturnDelivery ==
    ASSUME QueueShape, PlacesInv, DeliveryInv, DispatchReturns
    PROVE  DeliveryInv'
<1> USE DEF RuntimeFields
<1> DEFINE s == actor.entry
<1>0. /\ SubmissionsShape /\ Given \subseteq Submissions
      /\ \A r \in Given : Safe(r)
      /\ \A r \in Given : results[r] = "sent" \/ r \in pending
      /\ \A r \in Given : r \in store.sent \cup store.pending
  BY DEF QueueShape, DeliveryInv, GivenIsSafe, Given, Safe
<1>1. ~Free /\ actor \in TurnRequests /\ actor' = None
  BY DEF DispatchReturns, TurnUnknown, TurnStarted, TurnNotStarted, Answered, Free, QueueShape
<1>2. s \in Submissions /\ AtTheDoor' = <<>> /\ Starting' = {}
  BY <1>1 DEF Starting, AtTheDoor, Free, TurnRequests
<1>3. CASE TurnUnknown
  <2>1. /\ rt'.items = rt.items /\ rt'.pending_steers = rt.pending_steers /\ rt'.steer = rt.steer
        /\ UNCHANGED <<tasks, prompted, line, results, pending, store>> /\ actor.stage = "unknown"
    BY <1>3 DEF TurnUnknown, Answered, submissionVars, history, QueueShape
  <2>2. AtTheDoor = <<>> /\ Starting = {}
    BY <2>1 DEF Starting, AtTheDoor
  <2>3. \A r \in Given : Safe(r)'
    BY <1>0, <2>1, SafeSame
  <2> QED BY <1>2, <2>1, <2>2, <2>3, DeliveryKept DEF DeliveryInv, NoSteering
<1>4. ASSUME NEW ok \in BOOLEAN, TurnStarted(ok) PROVE DeliveryInv'
  <2>1. /\ rt'.items = rt.items /\ rt'.pending_steers = rt.pending_steers /\ rt'.steer = rt.steer
        /\ UNCHANGED <<tasks, prompted, line>> /\ actor.stage = "started"
        /\ Persist([results EXCEPT ![s] = "sent"], pending \ {s}, ok)
    BY <1>4 DEF TurnStarted, Answered, Remember, QueueShape
  <2>2. AtTheDoor = <<>> /\ Starting = {}
    BY <2>1 DEF Starting, AtTheDoor
  <2>3. \A r \in Given : Safe(r)'
    <3> HIDE DEF s
    <3> DEFINE res == [results EXCEPT ![s] = "sent"]
    <3>1. /\ res \in [Submissions -> {"none", "queued", "sent"}]
          /\ pending \ {s} \in SUBSET Submissions
          /\ \A r \in Given : res[r] = "sent" \/ r \in pending \ {s}
      BY <1>0, <1>2 DEF SubmissionsShape
    <3>2. Persist(res, pending \ {s}, ok)
      BY <2>1
    <3> HIDE DEF res
    <3> QED BY <1>0, <3>1, <3>2, PersistSafe
  <2> QED BY <1>2, <2>1, <2>2, <2>3, DeliveryKept DEF DeliveryInv, NoSteering
<1>5. ASSUME NEW ok \in BOOLEAN, TurnNotStarted(ok) PROVE DeliveryInv'
  <2>1. actor.stage = "refused" /\ UNCHANGED <<tasks, prompted>>
    BY <1>5 DEF TurnNotStarted, Answered
  <2>2. Starting = {s} /\ AtTheDoor = <<s>> /\ line = <<s>> \o rt.items /\ rt.items \in Seq(Submissions)
    BY <1>1, <2>1 DEF Starting, AtTheDoor, DeliveryInv, InLine, QueueShape
  <2>3. prompted[s] = 0
    BY <1>2, <2>2 DEF DeliveryInv, PromptedOnce, QueueShape
  <2>4. CASE actor.kind = "send"
    <3>1. /\ rt' = [rt EXCEPT !.starting = FALSE, !.error = TRUE]
          /\ Persist(results, pending \ {s}, ok) /\ line' = RemoveFirst(line, s)
      BY <1>5, <2>4 DEF TurnNotStarted, ReleaseSubmission
    <3> HIDE DEF s
    <3>2. rt'.items = rt.items /\ rt'.pending_steers = rt.pending_steers /\ rt'.steer = rt.steer
      BY <3>1 DEF QueueShape
    <3>3. line' = rt.items
      BY <1>2, <2>2, <3>1, RemoveFirstOfCons
    <3>4. Given' = Given \ {s} /\ Items' = Items
      BY <1>2, <2>1, <2>2, <2>3, <3>2 DEF Given, QueueShape, Items
    <3>5. \A r \in Given \ {s} : Safe(r)'
      <4>1. /\ pending \ {s} \in SUBSET Submissions /\ Given \ {s} \in SUBSET Submissions
            /\ results \in [Submissions -> {"none", "queued", "sent"}]
            /\ \A r \in Given \ {s} : results[r] = "sent" \/ r \in pending \ {s}
            /\ \A r \in Given \ {s} : ok \/ r \in store.sent \cup store.pending
        BY <1>0 DEF SubmissionsShape
      <4> DEFINE G == Given \ {s}
      <4> HIDE DEF G
      <4>2. G \in SUBSET Submissions
        BY <4>1 DEF G
      <4>3. /\ \A r \in G : results[r] = "sent" \/ r \in pending \ {s}
            /\ \A r \in G : ok \/ r \in store.sent \cup store.pending
        BY <4>1 DEF G
      <4>4. \A r \in G : Safe(r)'
        BY <1>0, <3>1, <4>1, <4>2, <4>3, PersistSafe
      <4> QED BY <4>4 DEF G
    <3>6. PromptedOnce'
      BY <1>2, <2>1, <3>4 DEF DeliveryInv, PromptedOnce
    <3>7. InLine'
      BY <1>2, <2>2, <3>2, <3>3, ConcatEmptySeq DEF InLine
    <3> QED BY <2>1, <3>2, <3>4, <3>5, <3>6, <3>7 DEF DeliveryInv, NoSteering, GivenIsSafe
  <2>5. CASE actor.kind = "drain"
    <3>1. /\ rt' = [rt EXCEPT !.starting = FALSE, !.error = TRUE,
                              !.items = <<s>> \o @, !.completions = {}]
          /\ Persist([results EXCEPT ![s] = "queued"], pending \ {s}, ok) /\ line' = line
      BY <1>5, <2>5 DEF TurnNotStarted, Remember
    <3> HIDE DEF s
    <3>2. rt'.items = <<s>> \o rt.items /\ rt'.pending_steers = rt.pending_steers /\ rt'.steer = rt.steer
      BY <3>1 DEF QueueShape
    <3>3. rt'.items \in Seq(Submissions) /\ Items' = {s} \cup Items
      BY <1>2, <2>2, <3>2, ConsDistinct DEF Items
    <3>4. Given' = Given \ {s}
      BY <1>2, <2>1, <2>2, <2>3 DEF Given, QueueShape
    <3>5. \A r \in Given \ {s} : Safe(r)'
      <4> DEFINE res == [results EXCEPT ![s] = "queued"]
      <4>1. /\ pending \ {s} \in SUBSET Submissions /\ Given \ {s} \in SUBSET Submissions
            /\ res \in [Submissions -> {"none", "queued", "sent"}]
            /\ \A r \in Given \ {s} : res[r] = "sent" \/ r \in pending \ {s}
            /\ \A r \in Given \ {s} : ok \/ r \in store.sent \cup store.pending
        BY <1>0, <1>2 DEF SubmissionsShape
      <4>2. Persist(res, pending \ {s}, ok)
        BY <3>1
      <4> DEFINE G == Given \ {s}
      <4> HIDE DEF res, G
      <4>3. G \in SUBSET Submissions
        BY <4>1 DEF G
      <4>4. /\ \A r \in G : res[r] = "sent" \/ r \in pending \ {s}
            /\ \A r \in G : ok \/ r \in store.sent \cup store.pending
        BY <4>1 DEF G
      <4>5. \A r \in G : Safe(r)'
        BY <1>0, <4>1, <4>2, <4>3, <4>4, PersistSafe
      <4> QED BY <4>5 DEF G
    <3>6. PromptedOnce'
      BY <1>2, <2>1, <2>3, <3>3 DEF DeliveryInv, PromptedOnce, QueueShape
    <3>7. InLine'
      BY <1>2, <2>2, <3>1, <3>2, <3>3, ConcatEmptySeq DEF InLine
    <3> QED BY <2>1, <3>2, <3>4, <3>5, <3>6, <3>7 DEF DeliveryInv, NoSteering, GivenIsSafe
  <2>6. actor.kind \in {"send", "drain"}
    BY <1>1 DEF TurnRequests
  <2> QED BY <2>4, <2>5, <2>6
<1> QED BY <1>3, <1>4, <1>5 DEF DispatchReturns

\* The session's own steps and the handling of its events.
LEMMA AgentDelivery ==
    ASSUME QueueShape, PlacesInv, DeliveryInv, AgentActs \/ RunEnds \/ HandleCanonicalEvent
    PROVE  DeliveryInv'
<1> USE DEF RuntimeFields
<1>0. \A r \in Given : Safe(r)
  BY DEF DeliveryInv, GivenIsSafe
<1>1. CASE AgentActs \/ RunEnds
  <2>1. UNCHANGED <<rt, actor, prompted, line, results, pending, store>>
    BY <1>1 DEF AgentActs, RunEnds, AgentStartsTool, AgentEndsTool, AgentAsks, UserAnswers, AgentOnly,
                submissionVars, history
  <2>2. tasks' = tasks \/ tasks' = EpochBumped
    BY <1>1 DEF AgentActs, RunEnds, AgentStartsTool, AgentEndsTool, AgentAsks, UserAnswers
  <2>3. \A w \in SteerTasks : tasks'[w].stage = tasks[w].stage
    <3>1. TasksShape
      BY DEF QueueShape
    <3> QED BY <2>2, <3>1, EpochTasks
  <2>4. NoSteering'
    BY <2>1, <2>3 DEF DeliveryInv, NoSteering
  <2>5. \A r \in Given : Safe(r)'
    BY <1>0, <2>1, SafeSame
  <2> QED BY <2>1, <2>4, <2>5, DeliveryKept, DoorSame
<1>2. CASE HandleCanonicalEvent
  <2> DEFINE e == Head(events)
  <2>1. HandleRunStarted(e) \/ HandleRunFinished(e) \/ HandleTool(e) \/ HandleAsked(e) \/ HandleResolved(e)
    BY <1>2 DEF HandleCanonicalEvent
  <2>2. UNCHANGED <<actor, prompted, line, results, pending, store>>
    BY <1>2 DEF HandleCanonicalEvent, submissionVars
  <2> HIDE DEF e
  <2>3. rt.pending_steers = <<>> /\ rt.steer = None /\ <<>> \o rt.items = rt.items
    BY ConcatEmptySeq DEF DeliveryInv, NoSteering, QueueShape
  <2>4. rt'.items = rt.items /\ rt'.pending_steers = <<>> /\ rt'.steer = None
    <3>1. CASE HandleRunFinished(e)
      <4>1. \/ rt' = rt
            \/ /\ rt'.items = rt.pending_steers \o rt.items
               /\ rt'.pending_steers = <<>>
               /\ rt.steer = None => rt'.steer = None
        BY <3>1 DEF HandleRunFinished, QueueShape
      <4> QED BY <2>3, <4>1
    <3>2. CASE ~HandleRunFinished(e)
      BY <2>1, <2>3, <3>2 DEF HandleRunStarted, HandleTool, HandleAsked, HandleResolved, QueueShape
    <3> QED BY <3>1, <3>2
  <2>5. tasks' = tasks
    BY <2>1, <2>3 DEF HandleRunStarted, HandleRunFinished, HandleTool, HandleAsked, HandleResolved, SpawnSteerIf
  <2>6. NoSteering'
    BY <2>4, <2>5 DEF DeliveryInv, NoSteering
  <2>7. \A r \in Given : Safe(r)'
    BY <1>0, <2>2, SafeSame
  <2> QED BY <2>2, <2>4, <2>6, <2>7, DeliveryKept, DoorSame
<1> QED BY <1>1, <1>2

\* No task is there to steer.
LEMMA NoSteerSteps ==
    ASSUME NoSteering, NEW w \in SteerTasks PROVE ~SteerStep(w) /\ ~FailSteerDispatch(w)
<1>1. tasks[w].stage = "idle"
  BY DEF NoSteering
<1> QED BY <1>1 DEF SteerStep, FailSteerDispatch, At, BeginSteering, PrepareSteer, FinishPrepare,
                    VerifySteerEpoch, DispatchSteer, SteerNative, SteerReserve, HandoffAccepted,
                    HandoffRefused, FinishSteer

\* A restart reads back every receipt and reservation of what the agent has.
LEMMA RestartDelivery ==
    ASSUME QueueShape, DeliveryInv, Restart PROVE DeliveryInv'
<1>1. /\ NewRuntime.items = <<>> /\ NewRuntime.pending_steers = <<>> /\ NewRuntime.steer = None
      /\ NoTask.stage = "idle"
  BY DEF NewRuntime, NoTask
<1>2. /\ rt' = NewRuntime /\ actor' = None /\ tasks' = [w \in SteerTasks |-> NoTask]
      /\ results' = [s \in Submissions |-> IF s \in store.sent THEN "sent" ELSE "none"]
      /\ pending' = store.pending /\ line' = <<>> /\ UNCHANGED <<store, prompted>>
  BY DEF Restart
<1>3. NoSteering'
  BY <1>1, <1>2 DEF NoSteering
<1>4. Starting' = {} /\ AtTheDoor' = <<>> /\ Items' = {}
  BY <1>1, <1>2 DEF Starting, AtTheDoor, Free, Items, ToSet
<1>5. Given' \subseteq Given /\ Given \subseteq Submissions
  BY <1>2, <1>4 DEF Given
<1>6. \A r \in Given : Safe(r)'
  BY <1>2, <1>5 DEF Safe, DeliveryInv, GivenIsSafe
<1>7. PromptedOnce'
  BY <1>2, <1>4 DEF PromptedOnce, DeliveryInv
<1>8. InLine'
  BY <1>1, <1>2, <1>4 DEF InLine
<1> QED BY <1>3, <1>5, <1>6, <1>7, <1>8 DEF DeliveryInv, GivenIsSafe

\* The invariant of delivery: what the agent has or is about to get is
\* remembered in memory and on disk, whatever write or answer fails.
LEMMA DeliveryAlways ==
    ASSUME SteerModes = {}
    PROVE  Spec => [](QueueShape /\ DeliveryInv)
<1>1. Init => QueueShape /\ PlacesInv /\ DeliveryInv
  <2> SUFFICES ASSUME Init PROVE PlacesInv /\ DeliveryInv
    BY ShapeInit
  <2>1. \A w \in SteerTasks : tasks[w].stage = "idle"
    BY DEF Init, NoTask
  <2>2. PlacesInv
    BY <2>1, FreshPlaces DEF Init, NewRuntime
  <2>3. /\ rt.items = <<>> /\ rt.pending_steers = <<>> /\ rt.steer = None /\ actor = None
        /\ line = <<>> /\ prompted = [s \in Submissions |-> 0]
    BY DEF Init, NewRuntime
  <2>4. Starting = {} /\ AtTheDoor = <<>> /\ Given = {}
    BY <2>3 DEF Starting, AtTheDoor, Free, Given
  <2>5. PromptedOnce
    BY <2>3 DEF PromptedOnce
  <2>6. InLine
    BY <2>3, <2>4 DEF InLine
  <2> QED BY <2>1, <2>2, <2>3, <2>4, <2>5, <2>6 DEF DeliveryInv, NoSteering, GivenIsSafe
<1>2. QueueShape /\ PlacesInv /\ DeliveryInv /\ [Next]_vars => (QueueShape /\ PlacesInv /\ DeliveryInv)'
  <2> SUFFICES ASSUME QueueShape, PlacesInv, DeliveryInv, [Next]_vars PROVE DeliveryInv'
    BY ShapeStep, PlacesStep
  <2>1. CASE PhoneCalls
    BY <2>1, PhoneDelivery DEF PhoneCalls
  <2>2. CASE DrainThreadQueue \/ RetryTimer \/ \E ok \in BOOLEAN : StatusFlush(ok)
    BY <2>2, DrainDelivery
  <2>3. CASE \E w \in SteerTasks : SteerStep(w) \/ FailSteerDispatch(w)
    BY <2>3, NoSteerSteps DEF DeliveryInv
  <2>4. CASE UNCHANGED vars
    <3>1. UNCHANGED <<rt, actor, tasks, prompted, line, results, pending, store>>
      BY <2>4 DEF vars, queueVars, submissionVars, history
    <3>2. NoSteering' /\ \A r \in Given : Safe(r)'
      BY <3>1, SafeSame DEF DeliveryInv, NoSteering, GivenIsSafe
    <3> QED BY <3>1, <3>2, DeliveryKept, DoorSame
  <2> QED BY <2>1, <2>2, <2>3, <2>4, AnswerDelivery, ReturnDelivery, AgentDelivery, RestartDelivery DEF Next
<1> QED BY <1>1, <1>2, PTL DEF Spec

\* For a bridge that does not steer, the agent is given no message twice,
\* through lost answers, refused turns, failed writes of the idempotency file
\* and restarts of the bridge at any point, in any number.
THEOREM DeliveredAtMostOnce ==
    ASSUME SteerModes = {}
    PROVE  Spec => []AtMostOnce
<1>1. QueueShape /\ DeliveryInv => AtMostOnce
  <2> SUFFICES ASSUME QueueShape, DeliveryInv, NEW s \in Submissions PROVE prompted[s] <= 1
    BY DEF AtMostOnce
  <2>1. prompted[s] \in Nat /\ (prompted[s] > 0 => prompted[s] = 1)
    BY DEF QueueShape, DeliveryInv, PromptedOnce
  <2> QED BY <2>1
<1> QED BY <1>1, DeliveryAlways, PTL

\* What the agent has been given is on disk as a receipt or a reservation, at
\* that moment and ever after.
THEOREM DurableBeforeAgent ==
    ASSUME SteerModes = {}
    PROVE  Spec => []DurableBeforeDelivery
<1>1. DeliveryInv => DurableBeforeDelivery
  BY DEF DeliveryInv, GivenIsSafe, Given, Safe, DurableBeforeDelivery
<1> QED BY <1>1, DeliveryAlways, PTL

\* Messages are served in the order they were accepted.
THEOREM ServedInOrder ==
    ASSUME SteerModes = {}
    PROVE  Spec => []FirstComeFirstServed
<1>1. DeliveryInv => FirstComeFirstServed
  BY DEF DeliveryInv, InLine, AtTheDoor, FirstComeFirstServed
<1> QED BY <1>1, DeliveryAlways, PTL

-----------------------------------------------------------------------------
(* The queue's view of the session. *)

RunEvents == [type : {"started", "finished"}, turn : Nat, generation : Nat]
OtherEvents ==
    [type : {"tool"}, id : Tools, status : {"running", "ended", "other"}, turn : Nat, generation : Nat]
        \cup [type : {"asked", "resolved"}, id : Asks]
SessionEvents == RunEvents \cup OtherEvents

\* Where the starts and ends of runs are in a sequence of events, and which come
\* before position i.
Runs(q) == {i \in DOMAIN q : q[i].type \in {"started", "finished"}}
RunsBefore(q, i) == {j \in Runs(q) : j < i}
LastOf(P) == {j \in P : \A k \in P : k <= j}

SameRun(a, b) == a.turn = b.turn /\ a.generation = b.generation

\* The end of a run comes right after its start, which is among the waiting
\* events or has been the last one the queue r has handled.
EndsFollowStarts(q, r) ==
    \A i \in Runs(q) : q[i].type = "finished" =>
        /\ RunsBefore(q, i) = {} => r.running /\ SameRun(r, q[i])
        /\ \A j \in LastOf(RunsBefore(q, i)) : q[j].type = "started" /\ SameRun(q[j], q[i])

\* The last of the waiting run events tells what the session se is doing; the
\* queue knows it when none is waiting.
LastEventTells(q, r, se) ==
    LET prompting == se.state \in {"active", "handoff"}
    IN  /\ Runs(q) = {} => (r.running <=> prompting) /\ (prompting => SameRun(r, se))
        /\ \A j \in LastOf(Runs(q)) :
            /\ q[j].type = "started" <=> prompting
            /\ prompting => SameRun(q[j], se)

\* A reserved handoff is the business of one steering task.
HandoffInv ==
    /\ \A w \in SteerTasks : At(w, "handoff") => session.state \in {"handoff", "settled"}
    /\ \A v, w \in SteerTasks : At(v, "handoff") /\ At(w, "handoff") => v = w

SessionShape ==
    /\ rt.running \in BOOLEAN
    /\ session \in [state : {"idle", "active", "handoff", "settled"}, generation : Nat,
                    turn : Nat, tools : SUBSET Tools]
    /\ asked \subseteq Asks /\ IsFiniteSet(asked)
    /\ events \in Seq(SessionEvents)

ViewInv ==
    /\ EndsFollowStarts(events, rt)
    /\ LastEventTells(events, rt, session)
    /\ HandoffInv
    /\ ~Free => ~rt.running
    /\ ~Free /\ actor.stage = "started" => Runs(events) # {}

\* Positions after the first event has been taken.
LEMMA RunsOfTail ==
    ASSUME NEW S, NEW q \in Seq(S), q # <<>>
    PROVE  /\ 1 \in DOMAIN q /\ Head(q) = q[1]
           /\ Runs(q) \subseteq Nat /\ Runs(Tail(q)) \subseteq Nat
           /\ \A i \in Nat : i \in Runs(Tail(q)) <=> i # 0 /\ i + 1 \in Runs(q)
           /\ \A i \in Runs(Tail(q)) : Tail(q)[i] = q[i + 1]
<1>1. Tail(q) \in Seq(S) /\ Len(Tail(q)) = Len(q) - 1 /\ \A i \in 1..Len(Tail(q)) : Tail(q)[i] = q[i + 1]
  BY HeadTailProperties
<1>2. DOMAIN q = 1..Len(q) /\ DOMAIN Tail(q) = 1..(Len(q) - 1) /\ Len(q) \in Nat /\ Len(q) # 0 /\ Head(q) = q[1]
  BY <1>1
<1> HIDE DEF Runs
<1>3. \A i \in Nat : i \in Runs(Tail(q)) <=> i # 0 /\ i + 1 \in Runs(q)
  BY <1>1, <1>2 DEF Runs
<1> QED BY <1>1, <1>2, <1>3 DEF Runs

LEMMA LastOfTail ==
    ASSUME NEW P \in SUBSET Nat, NEW Q \in SUBSET Nat, NEW j \in LastOf(Q),
           \A i \in Nat : i \in Q <=> i # 0 /\ i + 1 \in P, 0 \notin P
    PROVE  j + 1 \in LastOf(P)
<1>1. j \in Nat /\ j # 0 /\ j + 1 \in P /\ \A k \in Q : k <= j
  BY DEF LastOf
<1>2. ASSUME NEW k \in P PROVE k <= j + 1
  <2>1. CASE k = 1
    BY <1>1, <2>1
  <2>2. CASE k # 1
    <3>1. k - 1 \in Nat /\ k - 1 # 0 /\ (k - 1) + 1 = k
      BY <2>2
    <3>2. k - 1 \in Q
      BY <3>1
    <3> QED BY <1>1, <3>1, <3>2
  <2> QED BY <2>1, <2>2
<1> QED BY <1>1, <1>2 DEF LastOf

\* Taking the first event keeps the view, if the queue does what the event says.
LEMMA TailView ==
    ASSUME NEW S, NEW q \in Seq(S), q # <<>>, NEW r, NEW r2, NEW se,
           EndsFollowStarts(q, r), LastEventTells(q, r, se),
           Head(q).type = "started" => r2.running /\ SameRun(r2, Head(q)),
           Head(q).type = "finished" => ~r2.running,
           Head(q).type \notin {"started", "finished"} =>
               r2.running = r.running /\ r2.turn = r.turn /\ r2.generation = r.generation
    PROVE  EndsFollowStarts(Tail(q), r2) /\ LastEventTells(Tail(q), r2, se)
<1> DEFINE t == Tail(q)
<1>1. /\ 1 \in DOMAIN q /\ Head(q) = q[1]
      /\ Runs(q) \subseteq Nat /\ Runs(t) \subseteq Nat
      /\ \A i \in Nat : i \in Runs(t) <=> i # 0 /\ i + 1 \in Runs(q)
      /\ \A i \in Runs(t) : t[i] = q[i + 1]
  BY RunsOfTail
<1> HIDE DEF t
<1>2. 0 \notin Runs(q) /\ (1 \in Runs(q) <=> Head(q).type \in {"started", "finished"})
  BY <1>1 DEF Runs
<1>3. ASSUME NEW i \in Runs(t), t[i].type = "finished"
      PROVE  /\ RunsBefore(t, i) = {} => r2.running /\ SameRun(r2, t[i])
             /\ \A j \in LastOf(RunsBefore(t, i)) : t[j].type = "started" /\ SameRun(t[j], t[i])
  <2>1. i \in Nat /\ i # 0 /\ i + 1 \in Runs(q) /\ t[i] = q[i + 1]
    BY <1>1, <1>3
  <2> DEFINE P == RunsBefore(q, i + 1)
             Q == RunsBefore(t, i)
  <2>2. P \in SUBSET Nat /\ Q \in SUBSET Nat /\ 0 \notin P
    BY <1>1, <1>2 DEF RunsBefore
  <2>3. \A k \in Nat : k \in Q <=> k # 0 /\ k + 1 \in P
    BY <1>1, <2>1 DEF RunsBefore
  <2>4. /\ P = {} => r.running /\ SameRun(r, t[i])
        /\ \A j \in LastOf(P) : q[j].type = "started" /\ SameRun(q[j], t[i])
    BY <1>3, <2>1 DEF EndsFollowStarts
  <2>5. 1 \in P <=> 1 \in Runs(q)
    BY <2>1 DEF RunsBefore
  <2>6. \A j \in Q : t[j] = q[j + 1]
    BY <1>1 DEF RunsBefore
  <2> HIDE DEF P, Q
  <2>7. ASSUME Q = {} PROVE r2.running /\ SameRun(r2, t[i])
    <3>1. \A k \in P : k = 1
      <4> SUFFICES ASSUME NEW k \in P, k # 1 PROVE FALSE
        OBVIOUS
      <4>1. k \in Nat /\ k # 0 /\ k - 1 \in Nat /\ k - 1 # 0 /\ (k - 1) + 1 = k
        BY <2>2
      <4>2. k - 1 \in Q
        BY <2>3, <4>1
      <4> QED BY <2>7, <4>2
    <3>2. CASE 1 \in P
      <4>1. 1 \in LastOf(P)
        BY <3>1, <3>2 DEF LastOf
      <4>2. q[1].type = "started" /\ SameRun(q[1], t[i])
        BY <2>4, <4>1
      <4> QED BY <1>1, <4>2 DEF SameRun
    <3>3. CASE 1 \notin P
      <4>1. P = {}
        BY <3>1, <3>3
      <4>2. r2.running = r.running /\ r2.turn = r.turn /\ r2.generation = r.generation
        BY <1>2, <2>5, <3>3
      <4> QED BY <2>4, <4>1, <4>2 DEF SameRun
    <3> QED BY <3>2, <3>3
  <2>8. ASSUME NEW j \in LastOf(Q) PROVE t[j].type = "started" /\ SameRun(t[j], t[i])
    <3>1. j + 1 \in LastOf(P)
      BY <2>2, <2>3, LastOfTail
    <3>2. j \in Q
      BY DEF LastOf
    <3> QED BY <2>4, <2>6, <3>1, <3>2
  <2> QED BY <2>7, <2>8 DEF P, Q
<1>4. EndsFollowStarts(t, r2)
  BY <1>3 DEF EndsFollowStarts
<1> DEFINE prompting == se.state \in {"active", "handoff"}
<1>5. ASSUME Runs(t) = {} PROVE (r2.running <=> prompting) /\ (prompting => SameRun(r2, se))
  <2>1. \A k \in Runs(q) : k = 1
    <3> SUFFICES ASSUME NEW k \in Runs(q), k # 1 PROVE FALSE
      OBVIOUS
    <3>1. k \in Nat /\ k # 0 /\ k - 1 \in Nat /\ k - 1 # 0 /\ (k - 1) + 1 = k
      BY <1>1, <1>2
    <3>2. k - 1 \in Runs(t)
      BY <1>1, <3>1
    <3> QED BY <1>5, <3>2
  <2>2. CASE 1 \in Runs(q)
    <3>1. 1 \in LastOf(Runs(q))
      BY <2>1, <2>2 DEF LastOf
    <3>2. (q[1].type = "started" <=> prompting) /\ (prompting => SameRun(q[1], se))
      BY <3>1 DEF LastEventTells
    <3> QED BY <1>1, <1>2, <2>2, <3>2 DEF SameRun
  <2>3. CASE 1 \notin Runs(q)
    <3>1. Runs(q) = {}
      BY <2>1, <2>3
    <3>2. r2.running = r.running /\ r2.turn = r.turn /\ r2.generation = r.generation
      BY <1>2, <2>3
    <3> QED BY <3>1, <3>2 DEF LastEventTells, SameRun
  <2> QED BY <2>2, <2>3
<1>6. ASSUME NEW j \in LastOf(Runs(t))
      PROVE  (t[j].type = "started" <=> prompting) /\ (prompting => SameRun(t[j], se))
  <2>1. j + 1 \in LastOf(Runs(q))
    BY <1>1, <1>2, LastOfTail
  <2>2. t[j] = q[j + 1]
    BY <1>1 DEF LastOf
  <2> QED BY <2>1, <2>2 DEF LastEventTells
<1>7. LastEventTells(t, r2, se)
  BY <1>5, <1>6 DEF LastEventTells
<1> QED BY <1>4, <1>7 DEF t

\* Events that are not about runs change nothing.
LEMMA AppendOthers ==
    ASSUME NEW S, NEW q \in Seq(S), NEW p \in Seq(S), NEW r, NEW se,
           \A i \in DOMAIN p : p[i].type \notin {"started", "finished"},
           EndsFollowStarts(q, r), LastEventTells(q, r, se)
    PROVE  /\ EndsFollowStarts(q \o p, r) /\ LastEventTells(q \o p, r, se)
           /\ Runs(q \o p) = Runs(q)
<1> DEFINE z == q \o p
<1>1. /\ DOMAIN q = 1..Len(q) /\ DOMAIN p = 1..Len(p) /\ DOMAIN z = 1..(Len(q) + Len(p))
      /\ Len(q) \in Nat /\ Len(p) \in Nat
      /\ \A i \in 1..Len(q) : z[i] = q[i]
      /\ \A i \in 1..(Len(q) + Len(p)) : i > Len(q) => z[i] = p[i - Len(q)]
  BY ConcatProperties
<1> HIDE DEF z
<1>2. \A i \in 1..(Len(q) + Len(p)) : i > Len(q) => i - Len(q) \in 1..Len(p)
  BY <1>1
<1>3. \A i \in DOMAIN z : i \in 1..Len(q) \/ z[i].type \notin {"started", "finished"}
  BY <1>1, <1>2
<1>4. Runs(z) = Runs(q) /\ \A i \in Runs(q) : z[i] = q[i]
  BY <1>1, <1>3 DEF Runs
<1>5. \A i \in Runs(q) : RunsBefore(z, i) = RunsBefore(q, i) /\ LastOf(RunsBefore(q, i)) \subseteq Runs(q)
  BY <1>4 DEF RunsBefore, LastOf
<1>6. EndsFollowStarts(z, r)
  BY <1>4, <1>5 DEF EndsFollowStarts
<1>7. LastEventTells(z, r, se)
  <2>1. LastOf(Runs(q)) \subseteq Runs(q)
    BY DEF LastOf
  <2> QED BY <1>4, <2>1 DEF LastEventTells
<1> QED BY <1>4, <1>6, <1>7 DEF z

\* A run event: a start, or the end of the run the session has been in.
LEMMA AppendRun ==
    ASSUME NEW S, NEW q \in Seq(S), NEW e \in S, NEW r, NEW se, NEW se2,
           e.type \in {"started", "finished"},
           EndsFollowStarts(q, r), LastEventTells(q, r, se),
           e.type = "finished" => se.state \in {"active", "handoff"} /\ SameRun(e, se),
           e.type = "started" <=> se2.state \in {"active", "handoff"},
           se2.state \in {"active", "handoff"} => SameRun(e, se2)
    PROVE  /\ EndsFollowStarts(Append(q, e), r) /\ LastEventTells(Append(q, e), r, se2)
           /\ Runs(Append(q, e)) # {}
<1> DEFINE z == Append(q, e)
           n == Len(q) + 1
<1>1. /\ DOMAIN q = 1..Len(q) /\ DOMAIN z = 1..n /\ Len(q) \in Nat /\ n \in Nat
      /\ \A i \in 1..Len(q) : z[i] = q[i]
      /\ z[n] = e
  BY AppendProperties
<1> HIDE DEF z
<1>2. Runs(z) = Runs(q) \cup {n} /\ \A i \in Runs(q) : z[i] = q[i] /\ i \in Nat /\ i < n
  BY <1>1 DEF Runs
<1>3. \A i \in Runs(q) : RunsBefore(z, i) = RunsBefore(q, i) /\ LastOf(RunsBefore(q, i)) \subseteq Runs(q)
  BY <1>1, <1>2 DEF RunsBefore, LastOf
<1>4. RunsBefore(z, n) = Runs(q)
  BY <1>1, <1>2 DEF RunsBefore
<1>5. LastOf(Runs(z)) = {n} /\ LastOf(Runs(q)) \subseteq Runs(q)
  BY <1>1, <1>2 DEF LastOf
<1> HIDE DEF n
<1>6. ASSUME NEW i \in Runs(z), z[i].type = "finished"
      PROVE  /\ RunsBefore(z, i) = {} => r.running /\ SameRun(r, z[i])
             /\ \A j \in LastOf(RunsBefore(z, i)) : z[j].type = "started" /\ SameRun(z[j], z[i])
  <2>1. CASE i \in Runs(q)
    BY <1>2, <1>3, <1>6, <2>1 DEF EndsFollowStarts
  <2>2. CASE i = n
    <3>1. z[i] = e /\ RunsBefore(z, i) = Runs(q) /\ se.state \in {"active", "handoff"} /\ SameRun(e, se)
      BY <1>1, <1>4, <1>6, <2>2
    <3>2. Runs(q) = {} => r.running /\ SameRun(r, e)
      BY <3>1 DEF LastEventTells, SameRun
    <3>3. \A j \in LastOf(Runs(q)) : z[j].type = "started" /\ SameRun(z[j], e)
      BY <1>2, <1>5, <3>1 DEF LastEventTells, SameRun
    <3> QED BY <3>1, <3>2, <3>3
  <2> QED BY <1>2, <2>1, <2>2
<1>7. EndsFollowStarts(z, r)
  BY <1>6 DEF EndsFollowStarts
<1>8. LastEventTells(z, r, se2)
  BY <1>1, <1>2, <1>5 DEF LastEventTells
<1> QED BY <1>2, <1>7, <1>8 DEF z

\* Steps that leave the run the queue believes in, the session's run, its events
\* and the reserved handoffs alone.
LEMMA ViewKept ==
    ASSUME ViewInv,
           rt'.running = rt.running, rt'.turn = rt.turn, rt'.generation = rt.generation,
           UNCHANGED events, session'.state = session.state, session'.turn = session.turn,
           session'.generation = session.generation,
           \A w \in SteerTasks : tasks'[w].stage = "handoff" => tasks[w].stage = "handoff",
           ~Free' => ~rt.running,
           ~Free' /\ actor'.stage = "started" => ~Free /\ actor.stage = "started"
    PROVE  ViewInv'
<1>1. EndsFollowStarts(events, rt)'
  BY DEF ViewInv, EndsFollowStarts, SameRun
<1>2. LastEventTells(events, rt, session)'
  BY DEF ViewInv, LastEventTells, SameRun
<1>3. HandoffInv'
  BY DEF ViewInv, HandoffInv, At
<1> QED BY <1>1, <1>2, <1>3 DEF ViewInv

\* The same with events that are not about runs.
LEMMA ViewEmits ==
    ASSUME ViewInv, SessionShape, NEW es \in Seq(SessionEvents),
           \A i \in DOMAIN es : es[i].type \notin {"started", "finished"},
           UNCHANGED <<rt, actor>>, events' = events \o es, session'.state = session.state,
           session'.turn = session.turn, session'.generation = session.generation,
           \A w \in SteerTasks : tasks'[w].stage = "handoff" => tasks[w].stage = "handoff"
    PROVE  ViewInv'
<1>1. /\ EndsFollowStarts(events', rt) /\ LastEventTells(events', rt, session)
      /\ Runs(events') = Runs(events)
  BY AppendOthers DEF ViewInv, SessionShape
<1>2. LastEventTells(events, rt, session)'
  BY <1>1 DEF LastEventTells, SameRun
<1>3. HandoffInv'
  BY DEF ViewInv, HandoffInv, At
<1> QED BY <1>1, <1>2, <1>3 DEF ViewInv, Free

\* One event as a sequence of events.
LEMMA OneOther ==
    ASSUME NEW e \in OtherEvents
    PROVE  <<e>> \in Seq(SessionEvents) /\ \A i \in DOMAIN <<e>> : <<e>>[i].type \notin {"started", "finished"}
<1>1. e.type \in {"tool", "asked", "resolved"} /\ e \in SessionEvents
  BY DEF OtherEvents, SessionEvents
<1> QED BY <1>1

LEMMA EpochHandoffs ==
    ASSUME QueueShape, tasks' = tasks \/ tasks' = EpochBumped
    PROVE  \A w \in SteerTasks : tasks'[w].stage = tasks[w].stage
<1>1. TasksShape
  BY DEF QueueShape
<1> QED BY <1>1, EpochTasks

LEMMA ViewPhone ==
    ASSUME QueueShape, SessionShape, ViewInv, PhoneCalls \/ \E ok \in BOOLEAN : StatusFlush(ok)
    PROVE  SessionShape' /\ ViewInv'
<1> USE DEF RuntimeFields
<1>1. /\ rt'.running = rt.running /\ rt'.turn = rt.turn /\ rt'.generation = rt.generation
      /\ UNCHANGED sessionVars
  <2> DEFINE goal == /\ rt'.running = rt.running /\ rt'.turn = rt.turn /\ rt'.generation = rt.generation
                     /\ UNCHANGED sessionVars
  <2>1. ASSUME NEW s \in Submissions, NEW ok \in BOOLEAN, SendKnown(s, ok) \/ SendNotReserved(s)
        PROVE  goal
    BY <2>1 DEF SendKnown, SendNotReserved, queueVars
  <2>2. ASSUME NEW s \in Submissions, NEW ok \in BOOLEAN, SendQueued(s, ok) \/ SendNow(s)
        PROVE  goal
    BY <2>2 DEF SendQueued, SendNow, QueueShape
  <2>3. ASSUME NEW s \in Submissions, NEW ok \in BOOLEAN, CancelMessage(s, ok) \/ SteerMessage(s)
        PROVE  goal
    BY <2>3 DEF CancelMessage, SteerMessage, QueueShape
  <2>4. ASSUME NEW s \in Submissions, StartMessageEdit(s) \/ EndMessageEdit(s) PROVE goal
    BY <2>4 DEF StartMessageEdit, EndMessageEdit, QueueShape
  <2>5. ASSUME NEW ok \in BOOLEAN, StatusFlush(ok) PROVE goal
    BY <2>5 DEF StatusFlush, queueVars
  <2> QED BY <2>1, <2>2, <2>3, <2>4, <2>5 DEF PhoneCalls
<1>2. SessionShape'
  BY <1>1 DEF SessionShape, sessionVars
<1>3. \A w \in SteerTasks : tasks'[w].stage = "handoff" => tasks[w].stage = "handoff"
  <2>1. tasks' = tasks \/ SpawnSteerIf(TRUE)
    BY DEF PhoneCalls, StatusFlush, SendKnown, SendQueued, CancelMessage, SendNow, SendNotReserved,
           StartMessageEdit, EndMessageEdit, SteerMessage, queueVars
  <2>2. CASE SpawnSteerIf(TRUE)
    <3>1. TasksShape
      BY DEF QueueShape
    <3>2. \A w \in SteerTasks :
              tasks'[w] = tasks[w] \/ (tasks'[w].stage = "spawned" /\ tasks[w].stage = "idle")
      BY <2>2, <3>1, SpawnTasks
    <3> QED BY <3>2
  <2> QED BY <2>1, <2>2
<1>4. /\ ~Free' => ~rt.running
      /\ ~Free' /\ actor'.stage = "started" => ~Free /\ actor.stage = "started"
  <2>1. CASE actor' = actor
    BY <2>1 DEF Free, ViewInv
  <2>2. CASE \E s \in Submissions : actor' = Asking("send", s) /\ SendNow(s)
    BY <2>2 DEF SendNow, Asking, BlockedOrOccupied, HasBlockers
  <2> QED BY <2>1, <2>2 DEF PhoneCalls, StatusFlush, SendKnown, SendQueued, CancelMessage, SendNow,
                            SendNotReserved, StartMessageEdit, EndMessageEdit, SteerMessage, queueVars
<1> QED BY <1>1, <1>2, <1>3, <1>4, ViewKept DEF sessionVars

LEMMA ViewDispatch ==
    ASSUME QueueShape, SessionShape, ViewInv, DrainThreadQueue \/ RetryTimer \/ DispatchReturns
    PROVE  SessionShape' /\ ViewInv'
<1> USE DEF RuntimeFields
<1>1. CASE DrainThreadQueue \/ RetryTimer
  <2>1. /\ rt'.running = rt.running /\ rt'.turn = rt.turn /\ rt'.generation = rt.generation
        /\ UNCHANGED <<tasks, sessionVars>>
    BY <1>1 DEF DrainThreadQueue, RetryTimer, QueueShape
  <2>2. SessionShape'
    BY <2>1 DEF SessionShape, sessionVars
  <2>3. /\ ~Free' => ~rt.running
        /\ ~Free' /\ actor'.stage = "started" => ~Free /\ actor.stage = "started"
    <3>1. CASE actor' = actor
      BY <3>1 DEF Free, ViewInv
    <3>2. CASE ~HasBlockers(rt) /\ actor' = Asking("drain", Head(rt.items))
      BY <3>2 DEF Asking, HasBlockers
    <3> QED BY <1>1, <3>1, <3>2 DEF DrainThreadQueue, RetryTimer
  <2> QED BY <2>1, <2>2, <2>3, ViewKept DEF sessionVars
<1>2. CASE TurnUnknown \/ \E ok \in BOOLEAN : TurnNotStarted(ok)
  <2>1. /\ rt'.running = rt.running /\ rt'.turn = rt.turn /\ rt'.generation = rt.generation
        /\ UNCHANGED <<tasks, sessionVars>> /\ actor' = None
    BY <1>2 DEF TurnUnknown, TurnNotStarted, QueueShape
  <2>2. SessionShape'
    BY <2>1 DEF SessionShape, sessionVars
  <2> QED BY <2>1, <2>2, ViewKept DEF sessionVars, Free
<1>3. ASSUME NEW ok \in BOOLEAN, TurnStarted(ok) PROVE SessionShape' /\ ViewInv'
  <2>1. /\ rt'.running = TRUE /\ UNCHANGED <<tasks, sessionVars>> /\ actor' = None
        /\ ~Free /\ actor.stage = "started"
    BY <1>3 DEF TurnStarted, Answered, QueueShape
  <2>2. SessionShape'
    BY <2>1 DEF SessionShape, sessionVars
  <2>3. ~rt.running /\ Runs(events) # {}
    BY <2>1 DEF ViewInv
  <2>4. EndsFollowStarts(events, rt)'
    BY <2>1, <2>3 DEF ViewInv, EndsFollowStarts, sessionVars
  <2>5. LastEventTells(events, rt, session)'
    BY <2>1, <2>3 DEF ViewInv, LastEventTells, sessionVars
  <2>6. HandoffInv'
    BY <2>1 DEF ViewInv, HandoffInv, At, sessionVars
  <2> QED BY <2>1, <2>2, <2>4, <2>5, <2>6 DEF ViewInv, Free
<1> QED BY <1>1, <1>2, <1>3 DEF DispatchReturns

\* The session starts a run: nothing but its event tells the queue.
LEMMA ViewStarts ==
    ASSUME QueueShape, SessionShape, ViewInv, NEW t \in Nat, NEW g \in Nat,
           events' = events \o <<RunEvent("started", t, g)>>,
           rt' = rt, actor' = None \/ ~Free,
           session'.state = "active", session'.turn = t, session'.generation = g, HandoffInv'
    PROVE  ViewInv' /\ events' \in Seq(SessionEvents)
<1> DEFINE e == RunEvent("started", t, g)
<1>1. e \in SessionEvents /\ e.type = "started" /\ e.turn = t /\ e.generation = g
  BY DEF RunEvent, SessionEvents, RunEvents
<1>2. events \in Seq(SessionEvents) /\ EndsFollowStarts(events, rt) /\ LastEventTells(events, rt, session)
  BY DEF SessionShape, ViewInv
<1>3. events' = Append(events, e)
  BY <1>1, <1>2, AppendIsConcat
<1> HIDE DEF e
<1>4. SameRun(e, session')
  BY <1>1 DEF SameRun
<1>5. /\ EndsFollowStarts(events', rt) /\ LastEventTells(events', rt, session')
      /\ Runs(events') # {}
  <2> DEFINE se2 == session'
  <2>1. /\ e.type \in {"started", "finished"}
        /\ e.type = "finished" => session.state \in {"active", "handoff"} /\ SameRun(e, session)
        /\ e.type = "started" <=> se2.state \in {"active", "handoff"}
        /\ se2.state \in {"active", "handoff"} => SameRun(e, se2)
    BY <1>1, <1>4
  <2> HIDE DEF se2
  <2>2. /\ EndsFollowStarts(Append(events, e), rt) /\ LastEventTells(Append(events, e), rt, se2)
        /\ Runs(Append(events, e)) # {}
    BY <1>1, <1>2, <2>1, AppendRun
  <2> QED BY <1>3, <2>2 DEF se2
<1>6. events' \in Seq(SessionEvents)
  BY <1>1, <1>2, <1>3
<1> QED BY <1>5, <1>6 DEF ViewInv, Free

\* ... and ends it.
LEMMA ViewEnds ==
    ASSUME QueueShape, SessionShape, ViewInv, RunEnds
    PROVE  SessionShape' /\ ViewInv'
<1> DEFINE e == RunEvent("finished", session.turn, session.generation)
<1>1. /\ e \in SessionEvents /\ e.type = "finished" /\ SameRun(e, session)
  BY DEF RunEvent, SessionEvents, RunEvents, SessionShape, SameRun
<1>2. events \in Seq(SessionEvents) /\ EndsFollowStarts(events, rt) /\ LastEventTells(events, rt, session)
  BY DEF SessionShape, ViewInv
<1>3. events' = Append(events, e) /\ UNCHANGED <<rt, actor, tasks, asked>>
  BY <1>1, <1>2, AppendIsConcat DEF RunEnds, Emit, AgentOnly
<1>4. /\ session.state \in {"active", "handoff"}
      /\ session' = [session EXCEPT !.state = IF @ = "active" THEN "idle" ELSE "settled"]
  BY DEF RunEnds, Prompting
<1>5. session'.state = IF session.state = "active" THEN "idle" ELSE "settled"
  BY <1>4 DEF SessionShape
<1> HIDE DEF e
<1>6. /\ EndsFollowStarts(events', rt) /\ LastEventTells(events', rt, session')
      /\ Runs(events') # {}
  <2> DEFINE se2 == session'
  <2>1. /\ e.type \in {"started", "finished"}
        /\ e.type = "finished" => session.state \in {"active", "handoff"} /\ SameRun(e, session)
        /\ e.type = "started" <=> se2.state \in {"active", "handoff"}
        /\ se2.state \in {"active", "handoff"} => SameRun(e, se2)
    BY <1>1, <1>4, <1>5
  <2> HIDE DEF se2
  <2>2. /\ EndsFollowStarts(Append(events, e), rt) /\ LastEventTells(Append(events, e), rt, se2)
        /\ Runs(Append(events, e)) # {}
    BY <1>1, <1>2, <2>1, AppendRun
  <2> QED BY <1>3, <2>2 DEF se2
<1>7. HandoffInv'
  BY <1>3, <1>4, <1>5 DEF ViewInv, HandoffInv, At
<1>8. SessionShape'
  BY <1>1, <1>2, <1>3, <1>4 DEF SessionShape
<1> QED BY <1>3, <1>6, <1>7, <1>8 DEF ViewInv, Free

LEMMA ViewAnswered ==
    ASSUME QueueShape, SessionShape, ViewInv, TurnAnswered
    PROVE  SessionShape' /\ ViewInv'
<1>1. CASE TurnRefused
  <2>1. UNCHANGED <<rt, tasks, sessionVars>> /\ ~Free /\ actor \in TurnRequests
        /\ actor' = [actor EXCEPT !.stage = "refused"]
    BY <1>1 DEF TurnRefused, Answered, Free, QueueShape
  <2>2. SessionShape'
    BY <2>1 DEF SessionShape, sessionVars
  <2>3. actor'.stage = "refused" /\ ~rt.running
    BY <2>1 DEF TurnRequests, ViewInv
  <2> QED BY <2>1, <2>2, <2>3, ViewKept DEF sessionVars
<1>2. CASE TurnAdmitted \/ TurnLostAfterAdmission
  <2> DEFINE g == generation + 1
  <2>1. /\ UNCHANGED <<rt, tasks, asked>> /\ ~Free /\ session.state = "idle"
        /\ session' = [state |-> "active", generation |-> g, turn |-> g, tools |-> {}]
        /\ events' = events \o <<RunEvent("started", g, g)>>
    BY <1>2 DEF TurnAdmitted, TurnLostAfterAdmission, AdmitPrompt, Answered, Emit
  <2>2. g \in Nat
    BY DEF QueueShape
  <2> HIDE DEF g
  <2>3. session'.state = "active" /\ session'.turn = g /\ session'.generation = g
    BY <2>1
  <2>4. HandoffInv'
    BY <2>1 DEF ViewInv, HandoffInv, At
  <2>5. ViewInv' /\ events' \in Seq(SessionEvents)
    BY <2>1, <2>2, <2>3, <2>4, ViewStarts
  <2>6. SessionShape'
    BY <2>1, <2>2, <2>5 DEF SessionShape
  <2> QED BY <2>5, <2>6
<1>3. CASE TurnLostBeforeAgent
  <2>1. /\ UNCHANGED <<rt, tasks, session, asked>> /\ ~Free /\ actor \in TurnRequests
        /\ actor' = [actor EXCEPT !.stage = "unknown"]
    BY <1>3 DEF TurnLostBeforeAgent, Answered, Free, QueueShape
  <2>2. actor'.stage = "unknown" /\ ~rt.running
    BY <2>1 DEF TurnRequests, ViewInv
  <2>3. CASE UNCHANGED events
    <3>1. SessionShape'
      BY <2>1, <2>3 DEF SessionShape
    <3> QED BY <2>1, <2>2, <2>3, <3>1, ViewKept
  <2>4. CASE /\ session.state = "idle"
             /\ events' = events \o <<RunEvent("started", generation', generation'),
                                      RunEvent("finished", generation', generation')>>
             /\ generation' = generation + 1
    <3> DEFINE g == generation'
               a == RunEvent("started", g, g)
               b == RunEvent("finished", g, g)
               se1 == [session EXCEPT !.state = "active", !.turn = g, !.generation = g]
    <3>1. g \in Nat
      BY <2>4 DEF QueueShape
    <3>2. /\ a \in SessionEvents /\ a.type = "started" /\ a.turn = g /\ a.generation = g
          /\ b \in SessionEvents /\ b.type = "finished" /\ b.turn = g /\ b.generation = g
      BY <3>1 DEF RunEvent, SessionEvents, RunEvents
    <3>3. se1.state = "active" /\ se1.turn = g /\ se1.generation = g
      BY DEF SessionShape
    <3>4. events \in Seq(SessionEvents) /\ EndsFollowStarts(events, rt) /\ LastEventTells(events, rt, session)
      BY DEF SessionShape, ViewInv
    <3>5. events' = events \o <<a, b>>
      BY <2>4
    <3> HIDE DEF a, b, g, se1
    <3>6. events' = Append(Append(events, a), b) /\ Append(events, a) \in Seq(SessionEvents)
      BY <3>2, <3>4, <3>5
    <3>7. EndsFollowStarts(Append(events, a), rt) /\ LastEventTells(Append(events, a), rt, se1)
      <4>1. /\ a.type \in {"started", "finished"}
            /\ a.type = "finished" => session.state \in {"active", "handoff"} /\ SameRun(a, session)
            /\ a.type = "started" <=> se1.state \in {"active", "handoff"}
            /\ se1.state \in {"active", "handoff"} => SameRun(a, se1)
        BY <3>2, <3>3 DEF SameRun
      <4> QED BY <3>2, <3>4, <4>1, AppendRun
    <3> DEFINE q == Append(events, a)
    <3> HIDE DEF q
    <3>8. /\ EndsFollowStarts(Append(q, b), rt) /\ LastEventTells(Append(q, b), rt, session)
          /\ Runs(Append(q, b)) # {}
      <4>1. /\ b.type \in {"started", "finished"}
            /\ b.type = "finished" => se1.state \in {"active", "handoff"} /\ SameRun(b, se1)
            /\ b.type = "started" <=> session.state \in {"active", "handoff"}
            /\ session.state \in {"active", "handoff"} => SameRun(b, session)
        BY <2>4, <3>2, <3>3 DEF SameRun
      <4>2. q \in Seq(SessionEvents) /\ EndsFollowStarts(q, rt) /\ LastEventTells(q, rt, se1)
        BY <3>6, <3>7 DEF q
      <4> QED BY <3>2, <4>1, <4>2, AppendRun
    <3>9. /\ EndsFollowStarts(events', rt) /\ LastEventTells(events', rt, session)
          /\ Runs(events') # {}
      BY <3>6, <3>8 DEF q
    <3>10. events' \in Seq(SessionEvents)
      BY <3>2, <3>6
    <3>11. SessionShape'
      BY <2>1, <3>10 DEF SessionShape
    <3>12. HandoffInv'
      BY <2>1 DEF ViewInv, HandoffInv, At
    <3> QED BY <2>1, <2>2, <3>9, <3>11, <3>12 DEF ViewInv
  <2> QED BY <1>3, <2>3, <2>4 DEF TurnLostBeforeAgent, Emit
<1> QED BY <1>1, <1>2, <1>3 DEF TurnAnswered

LEMMA ViewAgent ==
    ASSUME QueueShape, SessionShape, ViewInv, AgentActs
    PROVE  SessionShape' /\ ViewInv'
<1>1. ASSUME NEW t \in Tools, AgentStartsTool(t) \/ AgentEndsTool(t) PROVE SessionShape' /\ ViewInv'
  <2>1. PICK status \in {"running", "ended", "other"} : events' = events \o <<ToolEvent(t, status)>>
    BY <1>1 DEF AgentStartsTool, AgentEndsTool, Emit
  <2> DEFINE e == ToolEvent(t, status)
  <2>2. e \in OtherEvents
    BY DEF ToolEvent, OtherEvents, SessionShape
  <2>3. /\ UNCHANGED <<rt, actor, tasks, asked>> /\ session'.state = session.state
        /\ session'.turn = session.turn /\ session'.generation = session.generation
        /\ session' \in [state : {"idle", "active", "handoff", "settled"}, generation : Nat,
                         turn : Nat, tools : SUBSET Tools]
    BY <1>1 DEF AgentStartsTool, AgentEndsTool, AgentOnly, SessionShape
  <2> HIDE DEF e
  <2> DEFINE es == <<e>>
  <2>4. es \in Seq(SessionEvents) /\ \A i \in DOMAIN es : es[i].type \notin {"started", "finished"}
    BY <2>2, OneOther
  <2>5. events' = events \o es
    BY <2>1 DEF e
  <2> HIDE DEF es
  <2>6. ViewInv'
    BY <2>3, <2>4, <2>5, ViewEmits
  <2>7. events' \in Seq(SessionEvents)
    BY <2>4, <2>5, ConcatProperties DEF SessionShape
  <2>8. SessionShape'
    BY <2>3, <2>7 DEF SessionShape
  <2> QED BY <2>6, <2>8
<1>2. ASSUME NEW a \in Asks, AgentAsks(a) \/ UserAnswers(a) PROVE SessionShape' /\ ViewInv'
  <2>1. PICK type \in {"asked", "resolved"} : events' = events \o <<InteractionEvent(type, a)>>
    BY <1>2 DEF AgentAsks, UserAnswers, Emit
  <2> DEFINE e == InteractionEvent(type, a)
  <2>2. e \in OtherEvents
    BY DEF InteractionEvent, OtherEvents
  <2>3. UNCHANGED <<rt, actor, session>> /\ tasks' = EpochBumped
        /\ (asked' = asked \cup {a} \/ asked' = asked \ {a})
    BY <1>2 DEF AgentAsks, UserAnswers, AgentOnly
  <2>4. asked' \subseteq Asks /\ IsFiniteSet(asked')
    BY <2>3, FS_AddElement, FS_RemoveElement DEF SessionShape
  <2> HIDE DEF e
  <2> DEFINE es == <<e>>
  <2>5. es \in Seq(SessionEvents) /\ \A i \in DOMAIN es : es[i].type \notin {"started", "finished"}
    BY <2>2, OneOther
  <2>6. events' = events \o es
    BY <2>1 DEF e
  <2> HIDE DEF es
  <2>7. \A w \in SteerTasks : tasks'[w].stage = "handoff" => tasks[w].stage = "handoff"
    BY <2>3, EpochHandoffs
  <2>8. ViewInv'
    BY <2>3, <2>5, <2>6, <2>7, ViewEmits
  <2>9. events' \in Seq(SessionEvents)
    BY <2>5, <2>6, ConcatProperties DEF SessionShape
  <2>10. SessionShape'
    BY <2>3, <2>4, <2>9 DEF SessionShape
  <2> QED BY <2>8, <2>10
<1> QED BY <1>1, <1>2 DEF AgentActs

LEMMA ViewHandles ==
    ASSUME QueueShape, SessionShape, ViewInv, HandleCanonicalEvent
    PROVE  SessionShape' /\ ViewInv'
<1> USE DEF RuntimeFields
<1> DEFINE e == Head(events)
<1>1. /\ Free /\ events # <<>> /\ events' = Tail(events) /\ UNCHANGED <<actor, session, asked>>
      /\ \/ HandleRunStarted(e) \/ HandleRunFinished(e) \/ HandleTool(e) \/ HandleAsked(e)
         \/ HandleResolved(e)
  BY DEF HandleCanonicalEvent
<1>2. /\ events \in Seq(SessionEvents) /\ EndsFollowStarts(events, rt)
      /\ LastEventTells(events, rt, session)
  BY DEF SessionShape, ViewInv
<1>3. e.type = "finished" => SameRun(rt, e)
  <2> SUFFICES ASSUME e.type = "finished" PROVE SameRun(rt, e)
    OBVIOUS
  <2>1. e = events[1] /\ 1 \in DOMAIN events /\ Runs(events) \subseteq Nat
    BY <1>1, <1>2, RunsOfTail
  <2>2. 1 \in Runs(events)
    BY <2>1 DEF Runs
  <2>3. RunsBefore(events, 1) = {}
    <3>1. \A i \in Runs(events) : i >= 1
      BY <1>2 DEF Runs
    <3> QED BY <2>1, <3>1 DEF RunsBefore
  <2> QED BY <1>2, <2>1, <2>2, <2>3 DEF EndsFollowStarts
<1>4. events' \in Seq(SessionEvents)
  BY <1>1, <1>2
<1> HIDE DEF e
<1>5. /\ e.type = "started" => rt'.running /\ SameRun(rt', e)
      /\ e.type = "finished" => ~rt'.running
      /\ e.type \notin {"started", "finished"} =>
            rt'.running = rt.running /\ rt'.turn = rt.turn /\ rt'.generation = rt.generation
      /\ rt'.running \in BOOLEAN
  <2>1. CASE HandleRunStarted(e)
    BY <2>1 DEF HandleRunStarted, SameRun, QueueShape
  <2>2. CASE HandleRunFinished(e)
    <3>1. e.type = "finished" /\ rt.turn = e.turn /\ rt.generation = e.generation
      BY <1>3, <2>2 DEF HandleRunFinished, SameRun
    <3>2. rt'.running = FALSE
      BY <2>2, <3>1 DEF HandleRunFinished, QueueShape
    <3> QED BY <3>1, <3>2
  <2>3. CASE HandleTool(e) \/ HandleAsked(e) \/ HandleResolved(e)
    BY <2>3 DEF HandleTool, HandleAsked, HandleResolved, QueueShape, SessionShape
  <2> QED BY <1>1, <2>1, <2>2, <2>3
<1>6. EndsFollowStarts(events', rt') /\ LastEventTells(events', rt', session)
  <2> DEFINE r2 == rt'
  <2>1. /\ Head(events).type = "started" => r2.running /\ SameRun(r2, Head(events))
        /\ Head(events).type = "finished" => ~r2.running
        /\ Head(events).type \notin {"started", "finished"} =>
              r2.running = rt.running /\ r2.turn = rt.turn /\ r2.generation = rt.generation
    BY <1>5 DEF e
  <2> HIDE DEF r2
  <2>2. EndsFollowStarts(Tail(events), r2) /\ LastEventTells(Tail(events), r2, session)
    BY <1>1, <1>2, <2>1, TailView
  <2> QED BY <1>1, <2>2 DEF r2
<1>7. \A w \in SteerTasks : tasks'[w].stage = "handoff" => tasks[w].stage = "handoff"
  <2>1. tasks' = tasks \/ \E c \in BOOLEAN : SpawnSteerIf(c)
    BY <1>1 DEF HandleRunStarted, HandleRunFinished, HandleTool, HandleAsked, HandleResolved
  <2>2. ASSUME NEW c \in BOOLEAN, SpawnSteerIf(c)
        PROVE  \A w \in SteerTasks : tasks'[w].stage = "handoff" => tasks[w].stage = "handoff"
    <3>1. TasksShape
      BY DEF QueueShape
    <3>2. \A w \in SteerTasks :
              tasks'[w] = tasks[w] \/ (tasks'[w].stage = "spawned" /\ tasks[w].stage = "idle")
      BY <2>2, <3>1, SpawnTasks
    <3> QED BY <3>2
  <2> QED BY <2>1, <2>2
<1>8. HandoffInv'
  BY <1>1, <1>7 DEF ViewInv, HandoffInv, At
<1>9. SessionShape'
  BY <1>1, <1>4, <1>5 DEF SessionShape
<1> QED BY <1>1, <1>6, <1>8, <1>9 DEF ViewInv, Free

\* The interactions rejected for a steer, in some order.
LEMMA ResolvedEvents ==
    ASSUME SessionShape, NEW n \in 0..Cardinality(asked)
    PROVE  LET es == [i \in 1..n |-> InteractionEvent("resolved", SetToSeq(asked)[i])]
           IN  /\ es \in Seq(SessionEvents)
               /\ \A i \in DOMAIN es : es[i].type \notin {"started", "finished"}
<1> DEFINE ids == SetToSeq(asked)
           es == [i \in 1..n |-> InteractionEvent("resolved", ids[i])]
<1>1. Cardinality(asked) \in Nat
  BY FS_CardinalityType DEF SessionShape
<1>2. ids \in [1..Cardinality(asked) -> asked]
  <2>1. ExistsBijection(1..Cardinality(asked), asked)
    BY FS_CardinalityType DEF SessionShape
  <2>2. PICK f \in Bijection(1..Cardinality(asked), asked) : TRUE
    BY <2>1 DEF ExistsBijection
  <2>3. f \in [1..Cardinality(asked) -> asked] /\ IsInjective(f)
    BY <2>2 DEF Bijection, Injection, IsInjective
  <2> QED BY <2>3 DEF SetToSeq
<1> HIDE DEF ids
<1>3. \A i \in 1..n : ids[i] \in Asks
  BY <1>1, <1>2 DEF SessionShape
<1>4. \A i \in 1..n : InteractionEvent("resolved", ids[i]) \in SessionEvents
                      /\ InteractionEvent("resolved", ids[i]).type = "resolved"
  BY <1>3 DEF InteractionEvent, SessionEvents, OtherEvents
<1>5. n \in Nat
  BY <1>1
<1>6. es \in [1..n -> SessionEvents] /\ DOMAIN es = 1..n /\ \A i \in 1..n : es[i].type = "resolved"
  BY <1>4
<1>7. es \in Seq(SessionEvents)
  BY <1>5, <1>6, IsASeq
<1> QED BY <1>6, <1>7 DEF ids

LEMMA ViewPrepare ==
    ASSUME QueueShape, SessionShape, ViewInv, NEW w \in SteerTasks, PrepareSteer(w)
    PROVE  SessionShape' /\ ViewInv'
<1>1. UNCHANGED <<rt, actor, session>>
  BY DEF PrepareSteer
<1>2. \A v \in SteerTasks : tasks'[v].stage = "handoff" => tasks[v].stage = "handoff"
  <2> DEFINE base == IF asked = {} THEN tasks ELSE EpochBumped
  <2>1. TasksShape
    BY DEF QueueShape
  <2>2. /\ DOMAIN base = SteerTasks
        /\ \A v \in SteerTasks : DOMAIN base[v] = {"stage", "entry", "target", "fresh"}
                                 /\ base[v].stage = tasks[v].stage
    BY <2>1, EpochTasks DEF TasksShape
  <2>3. \/ tasks' = [base EXCEPT ![w].stage = "prepared", ![w].fresh = TRUE]
        \/ tasks' = [base EXCEPT ![w].stage = "refused"]
        \/ tasks' = [tasks EXCEPT ![w].stage = "refused"]
    BY DEF PrepareSteer, Goes
  <2> HIDE DEF base
  <2> QED BY <2>1, <2>2, <2>3 DEF TasksShape
<1>3. CASE UNCHANGED <<asked, events>>
  <2>1. SessionShape'
    BY <1>1, <1>3 DEF SessionShape
  <2> QED BY <1>1, <1>2, <1>3, <2>1, ViewKept DEF ViewInv, Free
<1>4. CASE asked' = {} /\ \E n \in 0..Cardinality(asked) : Resolutions(n)
  <2>1. PICK n \in 0..Cardinality(asked) : Resolutions(n)
    BY <1>4
  <2> DEFINE es == [i \in 1..n |-> InteractionEvent("resolved", SetToSeq(asked)[i])]
  <2>2. es \in Seq(SessionEvents) /\ \A i \in DOMAIN es : es[i].type \notin {"started", "finished"}
    BY ResolvedEvents
  <2>3. events' = events \o es
    BY <2>1 DEF Resolutions, Emit
  <2> HIDE DEF es
  <2>4. ViewInv'
    BY <1>1, <1>2, <2>2, <2>3, ViewEmits
  <2>5. events' \in Seq(SessionEvents)
    BY <2>2, <2>3, ConcatProperties DEF SessionShape
  <2>6. SessionShape'
    BY <1>1, <1>4, <2>5, FS_EmptySet DEF SessionShape
  <2> QED BY <2>4, <2>6
<1>5. Cardinality(asked) \in Nat
  BY FS_CardinalityType DEF SessionShape
<1> QED BY <1>3, <1>4, <1>5 DEF PrepareSteer

LEMMA ViewSteer ==
    ASSUME QueueShape, SessionShape, ViewInv, NEW w \in SteerTasks, SteerStep(w) \/ FailSteerDispatch(w)
    PROVE  SessionShape' /\ ViewInv'
<1> USE DEF RuntimeFields
<1>0. TasksShape
  BY DEF QueueShape
<1>1. CASE \/ BeginSteering(w) \/ FinishPrepare(w) \/ VerifySteerEpoch(w) \/ DispatchSteer(w)
           \/ SteerNative(w) \/ FinishSteer(w) \/ FailSteerDispatch(w)
  <2>1. UNCHANGED <<actor, sessionVars>>
    BY <1>1 DEF BeginSteering, FinishPrepare, VerifySteerEpoch, DispatchSteer, SteerNative, FinishSteer,
                FailSteerDispatch, QueueOnly
  <2>2. rt'.running = rt.running /\ rt'.turn = rt.turn /\ rt'.generation = rt.generation
    <3>1. CASE BeginSteering(w) \/ FinishPrepare(w) \/ VerifySteerEpoch(w) \/ SteerNative(w)
      BY <3>1 DEF BeginSteering, FinishPrepare, VerifySteerEpoch, SteerNative, QueueShape
    <3>2. CASE DispatchSteer(w)
      BY <3>2 DEF DispatchSteer, QueueShape
    <3>3. CASE FinishSteer(w)
      BY <3>3 DEF FinishSteer, QueueShape
    <3>4. CASE FailSteerDispatch(w)
      BY <3>4 DEF FailSteerDispatch, QueueShape
    <3> QED BY <1>1, <3>1, <3>2, <3>3, <3>4
  <2>3. \A v \in SteerTasks : tasks'[v].stage = "handoff" => tasks[v].stage = "handoff"
    <3>1. ASSUME NEW st \in {"preparing", "verifying", "verified", "spawned", "accepted", "rejected"}, Goes(w, st)
          PROVE  \A v \in SteerTasks : tasks'[v].stage = "handoff" => tasks[v].stage = "handoff"
      BY <1>0, <3>1 DEF Goes, TasksShape
    <3>2. CASE Ends(w)
      <4>1. tasks'[w].stage = "idle" /\ \A v \in SteerTasks : v # w => tasks'[v] = tasks[v]
        BY <1>0, <3>2, EndsTasks
      <4> QED BY <4>1
    <3>3. CASE tasks' = [tasks EXCEPT ![w].stage = "steering", ![w].entry = Head(rt.pending_steers),
                                      ![w].target = rt.generation]
      BY <1>0, <3>3 DEF TasksShape
    <3>4. CASE BeginSteering(w)
      BY <3>1, <3>2, <3>4 DEF BeginSteering
    <3>5. CASE FinishPrepare(w)
      BY <3>1, <3>2, <3>5 DEF FinishPrepare
    <3>6. CASE VerifySteerEpoch(w)
      BY <3>1, <3>6 DEF VerifySteerEpoch
    <3>7. CASE DispatchSteer(w)
      <4>1. Ends(w) \/ tasks' = [tasks EXCEPT ![w].stage = "steering", ![w].entry = Head(rt.pending_steers),
                                              ![w].target = rt.generation]
        BY <3>7 DEF DispatchSteer
      <4> QED BY <3>2, <3>3, <4>1
    <3>8. CASE SteerNative(w) \/ FinishSteer(w) \/ FailSteerDispatch(w)
      BY <3>1, <3>2, <3>8 DEF SteerNative, FinishSteer, FailSteerDispatch
    <3> QED BY <1>1, <3>4, <3>5, <3>6, <3>7, <3>8
  <2>4. SessionShape'
    BY <2>1, <2>2 DEF SessionShape, sessionVars
  <2> QED BY <2>1, <2>2, <2>3, <2>4, ViewKept DEF ViewInv, Free, sessionVars
<1>2. CASE PrepareSteer(w)
  BY <1>2, ViewPrepare
<1>3. CASE SteerReserve(w)
  <2>1. /\ UNCHANGED <<rt, actor, asked, events>>
        /\ session' = IF Steerable(w) THEN [session EXCEPT !.state = "handoff"] ELSE session
        /\ Goes(w, IF Steerable(w) THEN "handoff" ELSE "rejected")
        /\ tasks[w].stage = "steering"
    BY <1>3 DEF SteerReserve, At
  <2>2. SessionShape'
    BY <2>1 DEF SessionShape
  <2>3. CASE Steerable(w)
    <3>1. /\ session.state = "active" /\ session'.state = "handoff" /\ session'.turn = session.turn
          /\ session'.generation = session.generation
      BY <2>1, <2>3 DEF Steerable, SessionShape
    <3>2. \A v \in SteerTasks : tasks[v].stage # "handoff"
      BY <3>1 DEF ViewInv, HandoffInv, At
    <3>3. \A v \in SteerTasks : v # w => tasks'[v] = tasks[v]
      BY <1>0, <2>1 DEF Goes, TasksShape
    <3>4. HandoffInv'
      BY <3>1, <3>2, <3>3 DEF HandoffInv, At
    <3>5. LastEventTells(events, rt, session)'
      BY <2>1, <3>1 DEF ViewInv, LastEventTells, SameRun
    <3> QED BY <2>1, <2>2, <3>4, <3>5 DEF ViewInv, Free
  <2>4. CASE ~Steerable(w)
    <3>1. \A v \in SteerTasks : tasks'[v].stage = "handoff" => tasks[v].stage = "handoff"
      BY <1>0, <2>1, <2>4 DEF Goes, TasksShape
    <3> QED BY <2>1, <2>2, <2>4, <3>1, ViewKept DEF ViewInv, Free
  <2> QED BY <2>3, <2>4
<1>4. CASE HandoffAccepted(w) \/ HandoffRefused(w)
  <2>1. /\ UNCHANGED <<rt, actor, asked>> /\ tasks[w].stage = "handoff"
        /\ Goes(w, "accepted") \/ Goes(w, "rejected")
    BY <1>4 DEF HandoffAccepted, HandoffRefused, At
  <2>2. tasks'[w].stage # "handoff" /\ \A v \in SteerTasks : v # w => tasks'[v] = tasks[v]
    BY <1>0, <2>1 DEF Goes, TasksShape
  <2>3. session.state \in {"handoff", "settled"} /\ \A v \in SteerTasks : tasks'[v].stage # "handoff"
    BY <2>1, <2>2 DEF ViewInv, HandoffInv, At
  <2>4. HandoffInv'
    BY <2>3 DEF HandoffInv, At
  <2>5. CASE HandoffAccepted(w)
    <3> DEFINE g == generation + 1
               t == session.turn
    <3>1. /\ session' = [session EXCEPT !.state = "active", !.generation = g, !.tools = {}]
          /\ events' = events \o <<RunEvent("started", t, g)>> /\ Free'= Free
      BY <2>1, <2>5 DEF HandoffAccepted, Emit, Free
    <3>2. t \in Nat /\ g \in Nat
      BY DEF QueueShape, SessionShape
    <3>3. session'.state = "active" /\ session'.turn = t /\ session'.generation = g
      BY <3>1 DEF SessionShape
    <3> HIDE DEF g, t
    <3>4. ViewInv' /\ events' \in Seq(SessionEvents)
      BY <2>1, <2>4, <3>1, <3>2, <3>3, ViewStarts DEF Free
    <3>5. SessionShape'
      BY <2>1, <3>1, <3>2, <3>4 DEF SessionShape
    <3> QED BY <3>4, <3>5
  <2>6. CASE HandoffRefused(w)
    <3>1. /\ session' = [session EXCEPT !.state = IF @ = "settled" THEN "idle" ELSE "active"]
          /\ UNCHANGED events
      BY <2>6 DEF HandoffRefused
    <3>2. /\ session'.state = (IF session.state = "settled" THEN "idle" ELSE "active")
          /\ session'.turn = session.turn /\ session'.generation = session.generation
      BY <3>1 DEF SessionShape
    <3>3. LastEventTells(events, rt, session)'
      BY <2>1, <2>3, <3>1, <3>2 DEF ViewInv, LastEventTells, SameRun
    <3>4. SessionShape'
      BY <2>1, <3>1 DEF SessionShape
    <3> QED BY <2>1, <2>4, <3>1, <3>3, <3>4 DEF ViewInv, Free
  <2> QED BY <1>4, <2>5, <2>6
<1> QED BY <1>1, <1>2, <1>3, <1>4 DEF SteerStep

\* A thread as it is when the bridge starts.
FreshThread ==
    /\ rt = NewRuntime /\ actor = None /\ session = NoRun /\ events = <<>> /\ asked = {}
    /\ \A w \in SteerTasks : tasks[w].stage = "idle"

LEMMA FreshView == FreshThread => SessionShape /\ ViewInv
<1> SUFFICES ASSUME FreshThread PROVE SessionShape /\ ViewInv
  OBVIOUS
<1> USE DEF FreshThread
<1>1. NewRuntime.running = FALSE /\ NoRun.state = "idle"
  BY DEF NewRuntime, NoRun
<1>2. SessionShape
  <2>1. NoRun \in [state : {"idle", "active", "handoff", "settled"}, generation : Nat,
                   turn : Nat, tools : SUBSET Tools]
    BY DEF NoRun
  <2>2. <<>> \in Seq(SessionEvents) /\ {} \subseteq Asks /\ IsFiniteSet({})
    BY FS_EmptySet
  <2> QED BY <1>1, <2>1, <2>2 DEF SessionShape
<1>3. Runs(events) = {}
  BY DEF Runs
<1>4. EndsFollowStarts(events, rt) /\ LastEventTells(events, rt, session)
  BY <1>1, <1>3 DEF EndsFollowStarts, LastEventTells, LastOf
<1>5. HandoffInv
  BY DEF HandoffInv, At
<1> QED BY <1>2, <1>4, <1>5 DEF ViewInv, Free

LEMMA FreshViewNext == FreshThread' => (SessionShape /\ ViewInv)'
BY FreshView, PTL

\* Once the session's events are handled and no turn is being started, the queue
\* and the session agree on whether a run is active and on which one: also after
\* lost answers, handoffs that cross the end of the run and restarts.
THEOREM QueueAgreesWithSession == Spec => []AgreesWithSession
<1>1. Init => QueueShape /\ SessionShape /\ ViewInv
  <2> SUFFICES ASSUME Init PROVE SessionShape /\ ViewInv
    BY ShapeInit
  <2>1. \A w \in SteerTasks : tasks[w].stage = "idle"
    BY DEF Init, NoTask
  <2> QED BY <2>1, FreshView DEF Init, FreshThread
<1>2. QueueShape /\ SessionShape /\ ViewInv /\ [Next]_vars => (QueueShape /\ SessionShape /\ ViewInv)'
  <2> SUFFICES ASSUME QueueShape, SessionShape, ViewInv, [Next]_vars PROVE SessionShape' /\ ViewInv'
    BY ShapeStep
  <2>1. CASE Restart
    BY <2>1, FreshViewNext DEF Restart, NoTask, FreshThread
  <2>2. CASE UNCHANGED vars
    <3>1. UNCHANGED <<rt, actor, tasks, session, events, asked>>
      BY <2>2 DEF vars, queueVars, sessionVars
    <3>2. SessionShape'
      BY <3>1 DEF SessionShape
    <3> QED BY <3>1, <3>2, ViewKept DEF ViewInv, Free
  <2> QED BY <2>1, <2>2, ViewPhone, ViewDispatch, ViewAnswered, ViewAgent, ViewEnds, ViewHandles, ViewSteer
          DEF Next
<1>3. SessionShape /\ ViewInv => AgreesWithSession
  <2> SUFFICES ASSUME SessionShape, ViewInv, events = <<>> PROVE AgreesWithSession
    BY DEF AgreesWithSession
  <2>1. Runs(events) = {}
    BY DEF Runs
  <2> QED BY <2>1 DEF ViewInv, LastEventTells, SameRun, AgreesWithSession
<1> QED BY <1>1, <1>2, <1>3, PTL DEF Spec

=============================================================================
