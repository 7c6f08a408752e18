--------------------------- MODULE ComposerProofs ---------------------------
(***************************************************************************)
(* Proofs about the message composer for any number of chats, texts,       *)
(* sends, restarts and faults, and any limits of the remembered failures.  *)
(*                                                                         *)
(* ComposerShape is the type of the state the proofs rely on.  DraftsInv   *)
(* is about the drafts and their file; IdsInv, about the submission ids,   *)
(* says which id a text is sent with and whom an id belongs to.            *)
(***************************************************************************)
EXTENDS Composer, TLAPS, SequenceTheorems

-----------------------------------------------------------------------------
(* Sequences of records with one entry per key. *)

Keyed(q) == \A i, j \in DOMAIN q : q[i].key = q[j].key => i = j

LEMMA WithoutKey ==
    ASSUME NEW R, NEW q \in Seq(R), Keyed(q), NEW key
    PROVE  LET r == Without(q, key)
           IN  /\ r \in Seq(R) /\ Keyed(r) /\ Len(r) <= Len(q)
               /\ ToSet(r) = {e \in ToSet(q) : e.key # key}
<1> DEFINE at == {i \in DOMAIN q : q[i].key = key}
           r == Without(q, key)
<1>1. CASE at = {}
  <2>1. r = q
    BY <1>1 DEF Without
  <2> QED BY <1>1, <2>1 DEF ToSet
<1>2. CASE at # {}
  <2> DEFINE m == CHOOSE i \in at : TRUE
             a == SubSeq(q, 1, m-1)
             b == SubSeq(q, m+1, Len(q))
  <2>1. m \in 1..Len(q) /\ q[m].key = key
    BY <1>2
  <2>2. r = a \o b
    BY <1>2 DEF Without, RemoveAt
  <2> HIDE DEF m, at
  <2>3. a \in Seq(R) /\ Len(a) = m - 1 /\ \A j \in 1..(m-1) : a[j] = q[j]
    BY <2>1, SubSeqProperties
  <2>4. b \in Seq(R) /\ Len(b) = Len(q) - m /\ \A j \in 1..(Len(q) - m) : b[j] = q[j + m]
    <3>1. m + 1 \in 1..(Len(q) + 1) /\ Len(q) \in Nat /\ Len(q) <= Len(q)
      BY <2>1
    <3> QED BY <2>1, <3>1, SubSeqProperties
  <2> HIDE DEF a, b
  <2>5. /\ r \in Seq(R) /\ Len(r) = Len(q) - 1
        /\ \A j \in 1..(Len(q) - 1) : r[j] = IF j < m THEN q[j] ELSE q[j + 1]
    <3>1. /\ a \o b \in Seq(R) /\ Len(a \o b) = Len(a) + Len(b)
          /\ \A j \in 1..(Len(a) + Len(b)) : (a \o b)[j] = IF j <= Len(a) THEN a[j] ELSE b[j - Len(a)]
      BY <2>3, <2>4, ConcatProperties
    <3>2. ASSUME NEW j \in 1..(Len(q) - 1)
          PROVE  (a \o b)[j] = IF j < m THEN q[j] ELSE q[j + 1]
      <4>1. CASE j < m
        BY <2>1, <2>3, <2>4, <3>1, <4>1
      <4>2. CASE ~(j < m)
        <5> DEFINE d == j - Len(a)
        <5>1. d \in 1..(Len(q) - m) /\ d + m = j + 1
          BY <2>1, <2>3, <4>2
        <5>2. (a \o b)[j] = b[d]
          BY <2>1, <2>3, <2>4, <3>1, <4>2
        <5>3. b[d] = q[d + m]
          <6> HIDE DEF d
          <6> QED BY <2>4, <5>1
        <5> QED BY <4>2, <5>1, <5>2, <5>3
      <4> QED BY <4>1, <4>2
    <3> QED BY <2>1, <2>2, <2>3, <2>4, <3>1, <3>2
  <2> HIDE DEF r
  <2>6. DOMAIN r = 1..(Len(q) - 1) /\ DOMAIN q = 1..Len(q)
    BY <2>5
  <2>7. Keyed(r)
    <3> DEFINE pos(k) == IF k < m THEN k ELSE k + 1
    <3>1. \A k \in DOMAIN r : pos(k) \in DOMAIN q /\ r[k] = q[pos(k)]
      BY <2>1, <2>5, <2>6
    <3>2. \A k, l \in DOMAIN r : pos(k) = pos(l) => k = l
      BY <2>1, <2>6
    <3> HIDE DEF pos
    <3> QED BY <3>1, <3>2 DEF Keyed
  <2>8. ToSet(r) \subseteq {e \in ToSet(q) : e.key # key}
    BY <2>1, <2>5, <2>6 DEF Keyed, ToSet
  <2>9. ASSUME NEW e \in ToSet(q), e.key # key PROVE e \in ToSet(r)
    <3>1. PICK k \in 1..Len(q) : q[k] = e
      BY <2>6 DEF ToSet
    <3>2. k # m
      BY <2>1, <2>9, <3>1
    <3>3. CASE k < m
      BY <2>1, <2>5, <2>6, <3>1, <3>3 DEF ToSet
    <3>4. CASE k > m
      <4>1. k - 1 \in 1..(Len(q) - 1) /\ r[k - 1] = e
        BY <2>1, <2>5, <3>1, <3>4
      <4> QED BY <2>6, <4>1 DEF ToSet
    <3> QED BY <2>1, <3>2, <3>3, <3>4
  <2> QED BY <2>5, <2>7, <2>8, <2>9 DEF r
<1> QED BY <1>1, <1>2

LEMMA RememberKey ==
    ASSUME NEW R, NEW q \in Seq(R), Keyed(q), NEW key, NEW id, [key |-> key, id |-> id] \in R,
           NEW limit \in Nat \ {0}, Len(q) <= limit
    PROVE  LET r == Remember(q, key, id, limit)
               new == [key |-> key, id |-> id]
           IN  /\ r \in Seq(R) /\ Keyed(r) /\ Len(r) <= limit
               /\ new \in ToSet(r)
               /\ ToSet(r) \subseteq {e \in ToSet(q) : e.key # key} \cup {new}
<1> DEFINE new == [key |-> key, id |-> id]
           w == Without(q, key)
           p == Append(w, new)
           r == Remember(q, key, id, limit)
<1>1. w \in Seq(R) /\ Keyed(w) /\ Len(w) <= Len(q) /\ ToSet(w) = {e \in ToSet(q) : e.key # key}
  BY WithoutKey
<1>2. new.key = key /\ new \in R
  OBVIOUS
<1>3. r = IF Len(p) > limit THEN Tail(p) ELSE p
  BY DEF Remember, Newest
<1> HIDE DEF w, new
<1>4. /\ p \in Seq(R) /\ Len(p) = Len(w) + 1 /\ p[Len(w) + 1] = new
      /\ \A i \in 1..Len(w) : p[i] = w[i]
  BY <1>1, <1>2, AppendProperties
<1> HIDE DEF p
<1>5. \A i \in 1..Len(w) : w[i] \in ToSet(w) /\ w[i].key # key
  BY <1>1 DEF ToSet
<1>6. Keyed(p)
  <2>1. DOMAIN p = 1..(Len(w) + 1) /\ DOMAIN w = 1..Len(w)
    BY <1>1, <1>4
  <2> QED BY <1>1, <1>2, <1>4, <1>5, <2>1 DEF Keyed
<1>7. ToSet(p) \subseteq ToSet(w) \cup {new} /\ new \in ToSet(p)
  <2>1. DOMAIN p = 1..(Len(w) + 1) /\ DOMAIN w = 1..Len(w)
    BY <1>1, <1>4
  <2> QED BY <1>4, <2>1 DEF ToSet
<1>8. CASE Len(p) > limit
  <2> DEFINE t == Tail(p)
  <2>1. /\ t \in Seq(R) /\ Len(t) = Len(p) - 1 /\ Len(p) >= 2
        /\ \A i \in 1..Len(t) : t[i] = p[i + 1]
    BY <1>1, <1>4, <1>8
  <2>2. r = t
    BY <1>3, <1>8
  <2> HIDE DEF t, r
  <2>3. DOMAIN t = 1..Len(t) /\ DOMAIN p = 1..Len(p)
    BY <1>4, <2>1
  <2>4. Keyed(t)
    <3>1. \A k \in DOMAIN t : k + 1 \in DOMAIN p /\ t[k] = p[k + 1] /\ k \in Nat
      BY <2>1, <2>3
    <3>2. \A k, l \in DOMAIN t : k + 1 = l + 1 => k = l
      BY <3>1
    <3> QED BY <1>6, <3>1, <3>2 DEF Keyed
  <2>5. ToSet(t) \subseteq ToSet(p)
    <3>1. \A k \in DOMAIN t : k + 1 \in DOMAIN p /\ t[k] = p[k + 1]
      BY <2>1, <2>3
    <3> QED BY <3>1 DEF ToSet
  <2>6. new \in ToSet(t)
    <3>1. Len(t) \in 1..Len(t) /\ t[Len(t)] = new
      BY <1>1, <1>4, <2>1
    <3> QED BY <2>3, <3>1 DEF ToSet
  <2>7. Len(t) <= limit
    BY <1>1, <1>4, <2>1
  <2> QED BY <1>1, <1>7, <2>1, <2>2, <2>4, <2>5, <2>6, <2>7 DEF new, r
<1>9. CASE ~(Len(p) > limit)
  <2>1. r = p /\ Len(p) <= limit
    BY <1>3, <1>4, <1>1, <1>9
  <2> HIDE DEF r
  <2> QED BY <1>1, <1>4, <1>6, <1>7, <2>1 DEF new, r
<1> QED BY <1>8, <1>9

LEMMA TailSet ==
    ASSUME NEW S, NEW q \in Seq(S), q # <<>>
    PROVE  /\ Tail(q) \in Seq(S) /\ Head(q) \in ToSet(q) /\ Head(q) \in S
           /\ ToSet(Tail(q)) \subseteq ToSet(q)
           /\ Len(Tail(q)) = Len(q) - 1
           /\ Tail(q) # <<>> => Tail(q)[Len(Tail(q))] = q[Len(q)]
<1> DEFINE t == Tail(q)
<1>1. /\ t \in Seq(S) /\ Len(t) = Len(q) - 1 /\ Len(q) >= 1 /\ Head(q) = q[1]
      /\ \A i \in 1..Len(t) : t[i] = q[i + 1]
  OBVIOUS
<1>2. t # <<>> => Len(t) >= 1
  BY <1>1
<1> HIDE DEF t
<1>3. DOMAIN q = 1..Len(q) /\ DOMAIN t = 1..Len(t)
  BY <1>1
<1>4. 1 \in DOMAIN q /\ \A i \in DOMAIN t : i + 1 \in DOMAIN q /\ t[i] = q[i + 1]
  BY <1>1, <1>3
<1>5. ToSet(t) \subseteq ToSet(q) /\ Head(q) \in ToSet(q)
  BY <1>1, <1>4 DEF ToSet
<1> QED BY <1>1, <1>2, <1>5 DEF t

LEMMA AppendSet ==
    ASSUME NEW S, NEW q \in Seq(S), NEW e \in S
    PROVE  /\ Append(q, e) \in Seq(S)
           /\ ToSet(Append(q, e)) = ToSet(q) \cup {e}
           /\ Append(q, e) # <<>>
           /\ Append(q, e)[Len(Append(q, e))] = e
<1> DEFINE r == Append(q, e)
<1>1. /\ r \in Seq(S) /\ Len(r) = Len(q) + 1 /\ r[Len(q) + 1] = e
      /\ \A i \in 1..Len(q) : r[i] = q[i]
  BY AppendProperties
<1> HIDE DEF r
<1>2. ToSet(r) = ToSet(q) \cup {e}
  BY <1>1 DEF ToSet
<1>3. r # <<>>
  BY <1>1
<1> QED BY <1>1, <1>2, <1>3 DEF r

-----------------------------------------------------------------------------
(* Drafts. *)

TextOrNone == Texts \cup {NoText}

\* What the drafts of all scopes may be: a blank draft has no entry.
DraftSet == UNION {[D -> Texts \ {NoText}] : D \in SUBSET Scopes}

LEMMA NoDrafts == <<>> \in DraftSet /\ \A s : Entry(<<>>, s) = NoText
<1>1. <<>> \in [{} -> Texts \ {NoText}]
  OBVIOUS
<1> QED BY <1>1 DEF DraftSet, Entry

LEMMA EntryType ==
    ASSUME NEW e \in DraftSet, NEW s PROVE Entry(e, s) \in TextOrNone
BY DEF DraftSet, Entry, TextOrNone

LEMMA UpdatedEntries ==
    ASSUME NEW e \in DraftSet, NEW s \in Scopes, NEW t \in TextOrNone
    PROVE  /\ UpdateDraftEntries(e, s, t) \in DraftSet
           /\ \A x : Entry(UpdateDraftEntries(e, s, t), x) = IF x = s THEN t ELSE Entry(e, x)
<1> DEFINE D == (DOMAIN e \ {s}) \cup (IF t = NoText THEN {} ELSE {s})
           u == [x \in D |-> IF x = s THEN t ELSE e[x]]
<1>1. DOMAIN e \subseteq Scopes /\ \A x \in DOMAIN e : e[x] \in Texts \ {NoText}
  BY DEF DraftSet
<1>2. UpdateDraftEntries(e, s, t) = u
  BY DEF UpdateDraftEntries
<1>3. u \in [D -> Texts \ {NoText}] /\ D \in SUBSET Scopes
  BY <1>1 DEF TextOrNone
<1>4. u \in DraftSet
  BY <1>3 DEF DraftSet
<1>5. ASSUME NEW x PROVE Entry(u, x) = IF x = s THEN t ELSE Entry(e, x)
  BY DEF Entry
<1> QED BY <1>2, <1>4, <1>5

Views == [text : TextOrNone, owner : Scopes, loaded : BOOLEAN, unsynced : BOOLEAN,
          entries : DraftSet, dirty : BOOLEAN, timer : BOOLEAN]

\* The entries are as they were, or marked to be saved.
SavesChange(v, w) ==
    \/ w.entries = v.entries /\ w.dirty = v.dirty /\ w.timer = v.timer
    \/ w.loaded /\ w.dirty /\ w.timer

LEMMA FiledDraft ==
    ASSUME NEW v \in Views
    PROVE  LET w == FileDraft(v)
           IN  /\ w \in Views /\ SavesChange(v, w)
               /\ w.text = v.text /\ w.owner = v.owner /\ w.loaded = v.loaded /\ w.unsynced = v.unsynced
               /\ v.loaded => /\ Entry(w.entries, v.owner) = v.text
                              /\ \A s : s # v.owner => Entry(w.entries, s) = Entry(v.entries, s)
               /\ ~v.loaded => w = v
<1> DEFINE u == UpdateDraftEntries(v.entries, v.owner, v.text)
           w == FileDraft(v)
<1>1. CASE ~v.loaded \/ Entry(v.entries, v.owner) = v.text
  BY <1>1 DEF FileDraft, SavesChange
<1>2. CASE v.loaded /\ Entry(v.entries, v.owner) # v.text
  <2>1. u \in DraftSet /\ \A x : Entry(u, x) = IF x = v.owner THEN v.text ELSE Entry(v.entries, x)
    BY UpdatedEntries DEF Views
  <2>2. w = [v EXCEPT !.entries = u, !.dirty = TRUE, !.timer = TRUE]
    BY <1>2 DEF FileDraft
  <2> HIDE DEF u
  <2>3. /\ w \in Views /\ w.entries = u /\ w.dirty /\ w.timer
        /\ w.text = v.text /\ w.owner = v.owner /\ w.loaded = v.loaded /\ w.unsynced = v.unsynced
    BY <2>1, <2>2 DEF Views
  <2> HIDE DEF w
  <2> QED BY <1>2, <2>1, <2>3 DEF SavesChange, w
<1> QED BY <1>1, <1>2 DEF Views

LEMMA SetDraftFacts ==
    ASSUME NEW v \in Views, NEW t \in TextOrNone,
           v.loaded => Entry(v.entries, v.owner) = v.text
    PROVE  LET w == SetDraft(v, t)
           IN  /\ w \in Views /\ SavesChange(v, w)
               /\ w.text = t /\ w.owner = v.owner /\ w.loaded = v.loaded
               /\ w.unsynced = (v.unsynced \/ t # v.text)
               /\ v.loaded => /\ Entry(w.entries, v.owner) = t
                              /\ \A s : s # v.owner => Entry(w.entries, s) = Entry(v.entries, s)
               /\ ~v.loaded => w.entries = v.entries
<1> DEFINE x == [v EXCEPT !.text = t, !.unsynced = TRUE]
           w == SetDraft(v, t)
<1>1. CASE t = v.text
  <2>1. w = v
    BY <1>1 DEF SetDraft
  <2> QED BY <1>1, <2>1 DEF SavesChange, Views
<1>2. CASE t # v.text
  <2>1. /\ x \in Views /\ x.text = t /\ x.owner = v.owner /\ x.loaded = v.loaded /\ x.unsynced
        /\ x.entries = v.entries /\ x.dirty = v.dirty /\ x.timer = v.timer
    BY DEF Views
  <2>2. w = FileDraft(x)
    BY <1>2 DEF SetDraft
  <2> HIDE DEF x
  <2>3. /\ FileDraft(x) \in Views /\ SavesChange(x, FileDraft(x))
        /\ FileDraft(x).text = x.text /\ FileDraft(x).owner = x.owner
        /\ FileDraft(x).loaded = x.loaded /\ FileDraft(x).unsynced = x.unsynced
        /\ x.loaded => /\ Entry(FileDraft(x).entries, x.owner) = x.text
                       /\ \A s : s # x.owner => Entry(FileDraft(x).entries, s) = Entry(x.entries, s)
        /\ ~x.loaded => FileDraft(x) = x
    BY <2>1, FiledDraft
  <2> HIDE DEF w
  <2>4. SavesChange(v, w)
    BY <2>1, <2>2, <2>3 DEF SavesChange
  <2>5. w.unsynced = (v.unsynced \/ t # v.text)
    BY <1>2, <2>1, <2>2, <2>3
  <2> QED BY <2>1, <2>2, <2>3, <2>4, <2>5 DEF w
<1> QED BY <1>1, <1>2

\* The scope's own draft comes up; only a draft edited meanwhile is filed there.
LEMMA HydrateFacts ==
    ASSUME NEW v \in Views, NEW s \in Scopes, v.loaded
    PROVE  LET w == Hydrate(v, s)
           IN  /\ w \in Views /\ SavesChange(v, w)
               /\ w.owner = s /\ w.loaded /\ w.unsynced = v.unsynced
               /\ w.text = (IF v.unsynced THEN v.text ELSE Entry(v.entries, s))
               /\ Entry(w.entries, s) = w.text
               /\ \A x : x # s => Entry(w.entries, x) = Entry(v.entries, x)
<1> DEFINE w == Hydrate(v, s)
           u == UpdateDraftEntries(v.entries, s, v.text)
<1>1. u \in DraftSet /\ \A x : Entry(u, x) = IF x = s THEN v.text ELSE Entry(v.entries, x)
  BY UpdatedEntries DEF Views
<1>2. Entry(v.entries, s) \in TextOrNone
  BY EntryType DEF Views
<1>3. CASE v.unsynced
  <2>1. w = [v EXCEPT !.entries = u, !.owner = s, !.dirty = TRUE, !.timer = TRUE]
    BY <1>3 DEF Hydrate
  <2> HIDE DEF u
  <2>2. /\ w \in Views /\ w.entries = u /\ w.owner = s /\ w.dirty /\ w.timer /\ w.loaded
        /\ w.text = v.text /\ w.unsynced = v.unsynced
    BY <1>1, <2>1 DEF Views
  <2> HIDE DEF w
  <2> QED BY <1>1, <1>3, <2>2 DEF SavesChange, w
<1>4. CASE ~v.unsynced
  <2> DEFINE t == Entry(v.entries, s)
  <2>1. w = [v EXCEPT !.text = t, !.owner = s]
    BY <1>4 DEF Hydrate
  <2>2. t \in TextOrNone /\ t = Entry(v.entries, s)
    BY <1>2
  <2> HIDE DEF t
  <2>3. /\ w \in Views /\ w.entries = v.entries /\ w.owner = s /\ w.loaded
        /\ w.dirty = v.dirty /\ w.timer = v.timer /\ w.text = t /\ w.unsynced = v.unsynced
    BY <2>1, <2>2 DEF Views
  <2> HIDE DEF w
  <2> QED BY <1>4, <2>2, <2>3 DEF SavesChange, w
<1> QED BY <1>3, <1>4 DEF Views

\* Entering a scope: its draft comes up, or the one that was put back.
LEMMA EnterScopeFacts ==
    ASSUME NEW v \in Views, NEW s \in Scopes, NEW back \in TextOrNone
    PROVE  LET w == EnterScope(v, s, back)
           IN  /\ w \in Views /\ SavesChange(v, w) /\ w.loaded = v.loaded
               /\ v.loaded =>
                    /\ w.owner = s
                    /\ w.text = (IF back = NoText THEN Entry(v.entries, s) ELSE back)
                    /\ Entry(w.entries, s) = w.text
                    /\ \A x : x # s => Entry(w.entries, x) = Entry(v.entries, x)
               /\ ~v.loaded =>
                    /\ w.entries = v.entries /\ w.owner = v.owner
                    /\ w.text = (IF back = NoText THEN v.text ELSE back)
                    /\ back = NoText => ~w.unsynced
<1> DEFINE seen == [v EXCEPT !.unsynced = FALSE]
           own == IF v.loaded THEN Hydrate(seen, s) ELSE seen
           w == EnterScope(v, s, back)
<1>1. w = IF back = NoText THEN own ELSE SetDraft(own, back)
  BY DEF EnterScope
<1>2. /\ seen \in Views /\ seen.text = v.text /\ seen.owner = v.owner /\ seen.loaded = v.loaded
      /\ ~seen.unsynced /\ seen.entries = v.entries /\ seen.dirty = v.dirty /\ seen.timer = v.timer
  BY DEF Views
<1> HIDE DEF seen
<1>3. /\ own \in Views /\ SavesChange(v, own) /\ own.loaded = v.loaded /\ ~own.unsynced
      /\ v.loaded => /\ own.owner = s /\ own.text = Entry(v.entries, s)
                     /\ Entry(own.entries, s) = own.text
                     /\ \A x : x # s => Entry(own.entries, x) = Entry(v.entries, x)
      /\ ~v.loaded => own.entries = v.entries /\ own.owner = v.owner /\ own.text = v.text
  <2>1. CASE v.loaded
    <3>1. own = Hydrate(seen, s) /\ seen.loaded
      BY <1>2, <2>1
    <3>2. LET h == Hydrate(seen, s)
          IN  /\ h \in Views /\ SavesChange(seen, h)
              /\ h.owner = s /\ h.loaded /\ h.unsynced = seen.unsynced
              /\ h.text = (IF seen.unsynced THEN seen.text ELSE Entry(seen.entries, s))
              /\ Entry(h.entries, s) = h.text
              /\ \A x : x # s => Entry(h.entries, x) = Entry(seen.entries, x)
      BY <1>2, <3>1, HydrateFacts
    <3> HIDE DEF own
    <3> QED BY <1>2, <2>1, <3>1, <3>2 DEF SavesChange
  <2>2. CASE ~v.loaded
    BY <1>2, <2>2 DEF SavesChange
  <2> QED BY <2>1, <2>2
<1> HIDE DEF own
<1>4. CASE back = NoText
  BY <1>1, <1>3, <1>4
<1>5. CASE back # NoText
  <2> DEFINE d == SetDraft(own, back)
  <2>1. /\ d \in Views /\ SavesChange(own, d)
        /\ d.text = back /\ d.owner = own.owner /\ d.loaded = own.loaded
        /\ own.loaded => /\ Entry(d.entries, own.owner) = back
                         /\ \A x : x # own.owner => Entry(d.entries, x) = Entry(own.entries, x)
        /\ ~own.loaded => d.entries = own.entries
    <3>1. own \in Views /\ (own.loaded => Entry(own.entries, own.owner) = own.text)
      BY <1>3
    <3> QED BY <3>1, SetDraftFacts
  <2>2. w = d
    BY <1>1, <1>5
  <2> HIDE DEF d, w
  <2>3. SavesChange(v, w)
    BY <1>3, <2>1, <2>2 DEF SavesChange
  <2> QED BY <1>3, <1>5, <2>1, <2>2, <2>3 DEF w
<1> QED BY <1>4, <1>5

-----------------------------------------------------------------------------
(* The type of the state. *)

Keys == Scopes \X (Texts \ {NoText})
Recs == [key : Keys, id : Nat]
IdFiles == {q \in Seq(Recs) : Keyed(q) /\ Len(q) <= StoreLimit}
OpSet == [kind : {"send", "create"}, id : Nat, key : Keys, scope : Scopes, intent : Nat,
          fresh : BOOLEAN, step : {"wire", "made", "turn", "held"}, adopted : BOOLEAN]
Requests == [id : Nat, intent : Nat, scope : Scopes, kind : {"send", "create"}]
Messages == [id : Nat, intent : Nat, chat : Scopes]
Ghosts == [intents : Nat, owed : SUBSET (Keys \X Nat), done : SUBSET Nat, twins : SUBSET Nat,
           exposed : SUBSET Nat, created : SUBSET Nat, early : BOOLEAN, left : DraftSet,
           strayed : BOOLEAN, clobbered : SUBSET Scopes]

\* Every record of an id that the phone or its file holds, writes under way included.
AllRecs == ToSet(failed) \cup ToSet(store.ids) \cup ToSet(disk.ids)
             \cup UNION {ToSet(q) : q \in ToSet(saves.ids)}

DraftShape ==
    /\ sel \in Scopes /\ view \in Views /\ restored \in TextOrNone
    /\ saves \in [drafts : Seq(DraftSet), ids : Seq(IdFiles)]
    /\ disk \in [drafts : DraftSet, ids : IdFiles]

IdShape ==
    /\ failed \in Seq(Recs) /\ Keyed(failed) /\ Len(failed) <= FailedLimit
    /\ store \in [ids : IdFiles, loaded : BOOLEAN]
    /\ ops \subseteq OpSet /\ late \subseteq Requests
    /\ bridge \in [delivered : SUBSET Messages, made : SUBSET (1..MaxIds)]
    /\ nextId \in 0..MaxIds
    /\ ghost \in Ghosts

\* The id, key, intent and scope of an operation agree with its kind and step.
OpWell(o) ==
    /\ o.id \in 1..nextId /\ o.intent \in 1..ghost.intents
    /\ o.kind = "create" =>
        /\ o.scope = (IF o.step \in {"wire", "made"} THEN Pending(o.id) ELSE Made(o.id))
        /\ o.key[1] = New /\ o.intent \in ghost.created
    /\ o.kind = "send" => o.scope = o.key[1] /\ o.key[1] # New

Bounds ==
    /\ \A o \in ops : OpWell(o)
    /\ \A e \in AllRecs : e.id \in 1..nextId
    /\ \A r \in late : r.id \in 1..nextId /\ r.intent \in 1..ghost.intents
    /\ \A m \in bridge.delivered : m.id \in 1..nextId /\ m.intent \in 1..ghost.intents
    /\ \A p \in ghost.owed : p[2] \in 1..ghost.intents

ComposerShape == DraftShape /\ IdShape /\ Bounds

LEMMA ScopesOfIds ==
    ASSUME NEW i \in 1..MaxIds PROVE Pending(i) \in Scopes /\ Made(i) \in Scopes
BY DEF Scopes

LEMMA NewIsScope == New \in Scopes
BY DEF Scopes

\* The id a submission gets: one recorded for its key, or a new one.
LEMMA BeginIdFacts ==
    ASSUME ComposerShape, NEW key
    PROVE  /\ BeginId(key) \in 1..(nextId + 1)
           /\ \/ BeginId(key) = nextId + 1
                 /\ \A e \in ToSet(failed) \cup ToSet(store.ids) : e.key # key
              \/ \E e \in ToSet(failed) \cup ToSet(store.ids) : e.key = key /\ e.id = BeginId(key)
<1> DEFINE f == IdIn(failed, key)
           g == IdIn(store.ids, key)
           known == IF f # {} THEN f ELSE g
<1>1. \A n \in f : \E e \in ToSet(failed) : e.key = key /\ e.id = n
  BY DEF IdIn
<1>2. \A n \in g : \E e \in ToSet(store.ids) : e.key = key /\ e.id = n
  BY DEF IdIn
<1>3. known = {} => \A e \in ToSet(failed) \cup ToSet(store.ids) : e.key # key
  BY DEF IdIn
<1>4. \A n \in known : \E e \in ToSet(failed) \cup ToSet(store.ids) : e.key = key /\ e.id = n
  BY <1>1, <1>2
<1>5. BeginId(key) = IF known # {} THEN CHOOSE i \in known : TRUE ELSE nextId + 1
  BY DEF BeginId
<1>6. \A e \in ToSet(failed) \cup ToSet(store.ids) : e.id \in 1..nextId
  BY DEF ComposerShape, Bounds, AllRecs
<1>7. nextId \in Nat
  BY ComposerAssumption DEF ComposerShape, IdShape
<1> HIDE DEF known, f, g
<1>8. CASE known = {}
  BY <1>3, <1>5, <1>7, <1>8
<1>9. CASE known # {}
  <2>1. BeginId(key) \in known
    BY <1>5, <1>9
  <2>2. PICK e \in ToSet(failed) \cup ToSet(store.ids) : e.key = key /\ e.id = BeginId(key)
    BY <1>4, <2>1
  <2> QED BY <1>6, <1>7, <2>2
<1> QED BY <1>8, <1>9

\* The intent of a submission: one the user saw fail, or a new one.
LEMMA IntentFacts ==
    ASSUME ComposerShape, NEW key
    PROVE  /\ IntentOf(key) \in 1..(ghost.intents + 1)
           /\ \/ IntentOf(key) = ghost.intents + 1 /\ \A p \in ghost.owed : p[1] # key
              \/ \E p \in ghost.owed : p[1] = key /\ p[2] = IntentOf(key)
<1>1. \A n \in Owed(key) : \E p \in ghost.owed : p[1] = key /\ p[2] = n
  BY DEF Owed
<1>2. Owed(key) = {} => \A p \in ghost.owed : p[1] # key
  BY DEF Owed
<1>3. IntentOf(key) = IF Owed(key) # {} THEN CHOOSE i \in Owed(key) : TRUE ELSE ghost.intents + 1
  BY DEF IntentOf
<1>4. ghost.intents \in Nat /\ \A p \in ghost.owed : p[2] \in 1..ghost.intents
  BY DEF ComposerShape, IdShape, Ghosts, Bounds
<1>5. CASE Owed(key) = {}
  BY <1>2, <1>3, <1>4, <1>5
<1>6. CASE Owed(key) # {}
  <2>1. IntentOf(key) \in Owed(key)
    BY <1>3, <1>6
  <2>2. PICK p \in ghost.owed : p[1] = key /\ p[2] = IntentOf(key)
    BY <1>1, <2>1
  <2> QED BY <1>4, <2>2
<1> QED BY <1>5, <1>6

-----------------------------------------------------------------------------
(* Operations under way, up to what a step may change about them. *)

SameCore(x, y) == x.id = y.id /\ x.key = y.key /\ x.intent = y.intent /\ x.kind = y.kind

\* b holds the operations of a, one for one.
SameOps(a, b) ==
    /\ \A x \in b : \E o \in a : SameCore(x, o)
    /\ \A o \in a : \E x \in b : SameCore(x, o)
    /\ \A x, y \in b : x # y => \E o, p \in a : o # p /\ SameCore(x, o) /\ SameCore(y, p)

LEMMA UnfreshOps ==
    ASSUME NEW a, a \subseteq OpSet
    PROVE  /\ Unfresh(a) \subseteq OpSet /\ SameOps(a, Unfresh(a))
           /\ \A x \in Unfresh(a) : \E o \in a : SameCore(x, o) /\ x.step = o.step /\ x.scope = o.scope
<1> DEFINE f(o) == [o EXCEPT !.fresh = FALSE]
<1>1. \A o \in a : f(o) \in OpSet /\ SameCore(f(o), o) /\ f(o).step = o.step /\ f(o).scope = o.scope
  BY DEF OpSet, SameCore
<1>2. Unfresh(a) = {f(o) : o \in a}
  BY DEF Unfresh
<1> HIDE DEF f
<1>3. Unfresh(a) \subseteq OpSet /\ \A x \in Unfresh(a) : \E o \in a : x = f(o)
  BY <1>1, <1>2
<1>4. \A x \in Unfresh(a) : \E o \in a : SameCore(x, o) /\ x.step = o.step /\ x.scope = o.scope
  BY <1>1, <1>3
<1>5. \A o \in a : f(o) \in Unfresh(a) /\ SameCore(f(o), o)
  BY <1>1, <1>2
<1>6. ASSUME NEW x \in Unfresh(a), NEW y \in Unfresh(a), x # y
      PROVE  \E o, p \in a : o # p /\ SameCore(x, o) /\ SameCore(y, p)
  <2>1. PICK o \in a : x = f(o)
    BY <1>3
  <2>2. PICK p \in a : y = f(p)
    BY <1>3
  <2> QED BY <1>1, <1>6, <2>1, <2>2
<1> QED BY <1>3, <1>4, <1>5, <1>6 DEF SameOps

LEMMA SameOpsSelf == ASSUME NEW a PROVE SameOps(a, a)
BY DEF SameOps, SameCore

\* One operation moves on, the others stay or lose their freshness.
LEMMA MovedOps ==
    ASSUME NEW a, a \subseteq OpSet, NEW op \in a, NEW new, SameCore(new, op),
           NEW rest, SameOps(a \ {op}, rest)
    PROVE  SameOps(a, rest \cup {new})
<1> DEFINE b == rest \cup {new}
<1>1. \A x \in b : \E o \in a : SameCore(x, o)
  BY DEF SameOps
<1>2. \A o \in a : \E x \in b : SameCore(x, o)
  BY DEF SameOps
<1>3. ASSUME NEW x \in b, NEW y \in b, x # y
      PROVE  \E o, p \in a : o # p /\ SameCore(x, o) /\ SameCore(y, p)
  <2>1. CASE x \in rest /\ y \in rest
    BY <1>3, <2>1 DEF SameOps
  <2>2. CASE x \in rest /\ y = new
    <3>1. PICK o \in a \ {op} : SameCore(x, o)
      BY <2>2 DEF SameOps
    <3> QED BY <2>2, <3>1
  <2>3. CASE x = new /\ y \in rest
    <3>1. PICK o \in a \ {op} : SameCore(y, o)
      BY <2>3 DEF SameOps
    <3> QED BY <2>3, <3>1
  <2> QED BY <1>3, <2>1, <2>2, <2>3
<1> QED BY <1>1, <1>2, <1>3 DEF SameOps

-----------------------------------------------------------------------------
(* The drafts: what is on the screen, in memory, in the file, and on its way *)
(* there.                                                                    *)

\* Entries not marked to be saved are in the file and no write of others is
\* under way; the last write under way is of the entries as they are unless a
\* later one is due.
CleanInv ==
    /\ ~view.dirty => ~view.timer /\ saves.drafts = <<>>
    /\ ~view.timer /\ saves.drafts # <<>> =>
        view.loaded /\ saves.drafts[Len(saves.drafts)] = view.entries
    /\ ~view.loaded => ~view.dirty
    /\ CleanMeansSaved

\* The visible draft belongs to the selected scope and is filed there.
OwnInv == view.loaded => view.owner = sel /\ Entry(view.entries, sel) = view.text

\* Text t may be in scope s.
Good(t, s) == t # NoText /\ s \in Chats \cup {New} => t[1] \in {s, New}
HomeDrafts(e) == \A s \in Scopes : Good(Entry(e, s), s)

\* Every place a draft can come from holds texts that may be there.
HomeInv ==
    ~ghost.strayed =>
        /\ Good(view.text, sel) /\ Good(restored, New)
        /\ \A o \in ops : Good(o.key[2], o.key[1])
        /\ HomeDrafts(view.entries) /\ HomeDrafts(disk.drafts)
        /\ \A e \in ToSet(saves.drafts) : HomeDrafts(e)

Keepers == Chats \cup {Made(i) : i \in 1..MaxIds}

\* What scope s will show, also before the file is read.
ShownIn(s) ==
    IF view.loaded THEN Entry(view.entries, s)
    ELSE IF s = sel /\ view.unsynced THEN view.text ELSE Entry(disk.drafts, s)

LeftInv ==
    ~ghost.strayed =>
        \A s \in Keepers \ ghost.clobbered :
            Entry(ghost.left, s) # NoText => Entry(ghost.left, s) = ShownIn(s)

DraftsInv == CleanInv /\ OwnInv /\ HomeInv /\ LeftInv

LEMMA NewNoKeeper == New \notin Keepers /\ \A i \in 1..MaxIds : Pending(i) \notin Keepers
<1>1. New \notin Keepers
  BY ComposerAssumption DEF Keepers
<1>2. ASSUME NEW i \in 1..MaxIds, NEW j \in 1..MaxIds PROVE Pending(i) # Made(j)
  BY DEF Pending, Made
<1>3. ASSUME NEW i \in 1..MaxIds PROVE Pending(i) \notin Keepers
  BY <1>2, ComposerAssumption DEF Keepers
<1> QED BY <1>1, <1>3

LEMMA KeepersAreScopes == Keepers \subseteq Scopes
BY DEF Keepers, Scopes

LEMMA GoodEverywhere == ASSUME NEW t, Good(t, New), NEW s PROVE Good(t, s)
BY DEF Good

\* Steps that leave every draft alone.
LEMMA DraftsUntouched ==
    ASSUME DraftsInv, UNCHANGED <<sel, view, restored>>,
           saves'.drafts = saves.drafts, disk'.drafts = disk.drafts,
           ghost'.left = ghost.left, ghost'.strayed = ghost.strayed, ghost'.clobbered = ghost.clobbered,
           \A o \in ops' : \E p \in ops : o.key = p.key
    PROVE  DraftsInv'
<1>1. CleanInv'
  BY DEF DraftsInv, CleanInv, CleanMeansSaved
<1>2. OwnInv'
  BY DEF DraftsInv, OwnInv
<1>3. HomeInv'
  BY DEF DraftsInv, HomeInv
<1>4. LeftInv'
  BY DEF DraftsInv, LeftInv, ShownIn
<1> QED BY <1>1, <1>2, <1>3, <1>4 DEF DraftsInv

LEMMA CleanEdit ==
    ASSUME CleanInv, SavesChange(view, view'), view'.loaded = view.loaded,
           saves'.drafts = saves.drafts, disk'.drafts = disk.drafts
    PROVE  CleanInv'
<1>1. CASE view'.entries = view.entries /\ view'.dirty = view.dirty /\ view'.timer = view.timer
  BY <1>1 DEF CleanInv, CleanMeansSaved
<1>2. CASE view'.loaded /\ view'.dirty /\ view'.timer
  BY <1>2 DEF CleanInv, CleanMeansSaved
<1> QED BY <1>1, <1>2 DEF SavesChange

\* Steps that put a text into the selected scope.
LEMMA DraftEdited ==
    ASSUME DraftShape, DraftsInv, NEW t \in TextOrNone, view' = SetDraft(view, t), UNCHANGED sel,
           saves'.drafts = saves.drafts, disk'.drafts = disk.drafts,
           ghost.clobbered \subseteq ghost'.clobbered,
           ~ghost'.strayed => /\ ~ghost.strayed /\ Good(t, sel) /\ Good(restored', New)
                              /\ \A o \in ops' : Good(o.key[2], o.key[1]),
           t # view.text \/ sel \in ghost'.clobbered,
           \A s \in Keepers \ ghost'.clobbered :
              Entry(ghost'.left, s) # NoText =>
                Entry(ghost'.left, s) = IF s = sel THEN t ELSE Entry(ghost.left, s)
    PROVE  DraftsInv' /\ view' \in Views
<1>1. /\ view' \in Views /\ SavesChange(view, view')
      /\ view'.text = t /\ view'.owner = view.owner /\ view'.loaded = view.loaded
      /\ view'.unsynced = (view.unsynced \/ t # view.text)
      /\ view.loaded => /\ Entry(view'.entries, view.owner) = t
                        /\ \A s : s # view.owner => Entry(view'.entries, s) = Entry(view.entries, s)
      /\ ~view.loaded => view'.entries = view.entries
  <2>1. view \in Views /\ (view.loaded => Entry(view.entries, view.owner) = view.text)
    BY DEF DraftShape, DraftsInv, OwnInv
  <2> QED BY <2>1, SetDraftFacts
<1>2. CleanInv'
  BY <1>1, CleanEdit DEF DraftsInv
<1>3. view.loaded => view.owner = sel
  BY DEF DraftsInv, OwnInv
<1>4. OwnInv'
  BY <1>1, <1>3 DEF OwnInv
<1>5. \A s \in Scopes : s # sel => Entry(view'.entries, s) = Entry(view.entries, s)
  BY <1>1, <1>3
<1>6. Entry(view'.entries, sel) \in {t, Entry(view.entries, sel)}
  BY <1>1, <1>3
<1>7. HomeInv'
  <2> SUFFICES ASSUME ~ghost'.strayed PROVE HomeInv'
    BY DEF HomeInv
  <2>1. Good(t, sel) /\ HomeDrafts(view.entries)
    BY DEF DraftsInv, HomeInv
  <2>2. HomeDrafts(view'.entries)
    BY <1>5, <1>6, <2>1 DEF HomeDrafts
  <2> QED BY <1>1, <2>1, <2>2 DEF DraftsInv, HomeInv, HomeDrafts
<1>8. LeftInv'
  <2> SUFFICES ASSUME ~ghost'.strayed, NEW s \in Keepers \ ghost'.clobbered, Entry(ghost'.left, s) # NoText
               PROVE  Entry(ghost'.left, s) = ShownIn(s)'
    BY DEF LeftInv
  <2>1. Entry(ghost'.left, s) = IF s = sel THEN t ELSE Entry(ghost.left, s)
    OBVIOUS
  <2>2. CASE s = sel
    <3>1. t # view.text
      BY <2>2
    <3> QED BY <1>1, <1>3, <2>1, <2>2, <3>1 DEF ShownIn
  <2>3. CASE s # sel
    <3>1. Entry(ghost.left, s) = ShownIn(s)
      BY <2>1, <2>3 DEF DraftsInv, LeftInv
    <3>2. s \in Scopes
      BY KeepersAreScopes
    <3> QED BY <1>1, <1>5, <2>1, <2>3, <3>1, <3>2 DEF ShownIn
  <2> QED BY <2>2, <2>3
<1> QED BY <1>1, <1>2, <1>4, <1>7, <1>8 DEF DraftsInv

\* Steps that show another scope.
LEMMA ScopeEntered ==
    ASSUME DraftShape, DraftsInv, NEW s \in Scopes, NEW back \in TextOrNone,
           NEW v \in {view, [view EXCEPT !.text = NoText]},
           view' = EnterScope(v, s, back), sel' = s, restored' = NoText,
           saves'.drafts = saves.drafts, disk'.drafts = disk.drafts,
           ghost.clobbered \subseteq ghost'.clobbered,
           back # NoText => s \in ghost'.clobbered \/ s \notin Keepers,
           ~ghost'.strayed =>
                /\ ~ghost.strayed /\ Good(back, New)
                /\ \A o \in ops' : Good(o.key[2], o.key[1])
                /\ ~view.loaded => v.text = NoText /\ (sel \notin Keepers \/ view.text = NoText),
           \A x \in Keepers \ ghost'.clobbered :
              Entry(ghost'.left, x) # NoText => Entry(ghost'.left, x) = Entry(ghost.left, x)
    PROVE  DraftsInv' /\ view' \in Views
<1>1. /\ v \in Views /\ v.loaded = view.loaded /\ v.entries = view.entries /\ v.owner = view.owner
      /\ v.dirty = view.dirty /\ v.timer = view.timer
  BY DEF DraftShape, Views, TextOrNone
<1>2. /\ view' \in Views /\ SavesChange(v, view') /\ view'.loaded = v.loaded
      /\ v.loaded =>
            /\ view'.owner = s
            /\ view'.text = (IF back = NoText THEN Entry(v.entries, s) ELSE back)
            /\ Entry(view'.entries, s) = view'.text
            /\ \A x : x # s => Entry(view'.entries, x) = Entry(v.entries, x)
      /\ ~v.loaded =>
            /\ view'.entries = v.entries /\ view'.owner = v.owner
            /\ view'.text = (IF back = NoText THEN v.text ELSE back)
            /\ back = NoText => ~view'.unsynced
  BY <1>1, EnterScopeFacts
<1>3. CleanInv'
  <2>1. SavesChange(view, view')
    BY <1>1, <1>2 DEF SavesChange
  <2> QED BY <1>1, <1>2, <2>1, CleanEdit DEF DraftsInv
<1>4. OwnInv'
  BY <1>2 DEF OwnInv
<1>5. HomeInv'
  <2> SUFFICES ASSUME ~ghost'.strayed PROVE HomeInv'
    BY DEF HomeInv
  <2>1. /\ Good(back, New) /\ HomeDrafts(view.entries) /\ HomeDrafts(disk.drafts)
        /\ \A e \in ToSet(saves.drafts) : HomeDrafts(e)
    BY DEF DraftsInv, HomeInv
  <2>2. Good(back, s) /\ Good(NoText, s) /\ Good(NoText, New) /\ Good(Entry(view.entries, s), s)
    BY <2>1, GoodEverywhere DEF Good, HomeDrafts
  <2>3. Good(view'.text, s)
    BY <1>1, <1>2, <2>2
  <2>4. HomeDrafts(view'.entries)
    <3>1. CASE view.loaded
      BY <1>1, <1>2, <2>1, <2>3, <3>1 DEF HomeDrafts
    <3>2. CASE ~view.loaded
      BY <1>1, <1>2, <2>1, <3>2
    <3> QED BY <3>1, <3>2
  <2> QED BY <2>1, <2>2, <2>3, <2>4 DEF HomeInv
<1>6. LeftInv'
  <2> SUFFICES ASSUME ~ghost'.strayed, NEW x \in Keepers \ ghost'.clobbered, Entry(ghost'.left, x) # NoText
               PROVE  Entry(ghost'.left, x) = ShownIn(x)'
    BY DEF LeftInv
  <2>1. Entry(ghost'.left, x) = ShownIn(x) /\ ShownIn(x) # NoText
    BY DEF DraftsInv, LeftInv
  <2>2. x = s => back = NoText
    OBVIOUS
  <2>3. CASE view.loaded
    BY <1>1, <1>2, <2>1, <2>2, <2>3 DEF ShownIn
  <2>4. CASE ~view.loaded
    <3>1. ShownIn(x) = Entry(disk.drafts, x)
      BY <2>1, <2>4 DEF ShownIn
    <3>2. ~(x = s /\ view'.unsynced)
      BY <1>1, <1>2, <2>2, <2>4
    <3> QED BY <1>1, <1>2, <2>1, <2>4, <3>1, <3>2 DEF ShownIn
  <2> QED BY <2>3, <2>4
<1> QED BY <1>2, <1>3, <1>4, <1>5, <1>6 DEF DraftsInv

\* Every operation after the step has the key of one before it.
KeysKept == \A o \in ops' : \E p \in ops : o.key = p.key

DraftTypes == sel \in Scopes /\ view \in Views /\ restored \in TextOrNone

LEMMA KeysGood ==
    ASSUME HomeInv, KeysKept, ~ghost.strayed PROVE \A o \in ops' : Good(o.key[2], o.key[1])
BY DEF HomeInv, KeysKept

LEMMA UnfreshKeys ==
    ASSUME NEW a, a \subseteq ops, ops \subseteq OpSet PROVE \A o \in Unfresh(a) : \E p \in ops : o.key = p.key
<1>1. \A x \in Unfresh(a) : \E o \in a : SameCore(x, o)
  BY UnfreshOps DEF SameOps
<1> QED BY <1>1 DEF SameCore

LEMMA DraftsKept ==
    ASSUME DraftShape, DraftsInv, UNCHANGED <<sel, view, restored>>,
           saves'.drafts = saves.drafts, disk'.drafts = disk.drafts,
           ghost'.left = ghost.left, ghost'.strayed = ghost.strayed, ghost'.clobbered = ghost.clobbered,
           KeysKept
    PROVE  DraftTypes' /\ DraftsInv'
<1>1. DraftsInv'
  BY DraftsUntouched DEF KeysKept
<1> QED BY <1>1 DEF DraftShape, DraftTypes

LEMMA TypeDrafts ==
    ASSUME ComposerShape, DraftsInv,
           NEW t, t = NoText \/ \E n \in Variants : t = <<sel, n>>, TypeDraft(t)
    PROVE  DraftTypes' /\ DraftsInv'
<1>1. t \in TextOrNone /\ Good(t, sel)
  BY DEF TextOrNone, Texts, Good, ComposerShape, DraftShape
<1>2. /\ ghost \in Ghosts /\ ghost.left \in DraftSet /\ sel \in Scopes /\ ops \subseteq OpSet
      /\ restored \in TextOrNone
  BY DEF ComposerShape, IdShape, DraftShape, Ghosts
<1>3. /\ view' = SetDraft(view, t) /\ t # view.text /\ ops' = Unfresh(ops)
      /\ UNCHANGED <<sel, restored, saves, disk>>
      /\ ghost'.left = UpdateDraftEntries(ghost.left, sel, t)
      /\ ghost'.strayed = ghost.strayed /\ ghost'.clobbered = ghost.clobbered
  BY <1>2 DEF TypeDraft, Ghosts
<1>4. \A s : Entry(ghost'.left, s) = IF s = sel THEN t ELSE Entry(ghost.left, s)
  BY <1>1, <1>2, <1>3, UpdatedEntries
<1>5. KeysKept
  BY <1>2, <1>3, UnfreshKeys DEF KeysKept
<1>6. ~ghost'.strayed => /\ ~ghost.strayed /\ Good(t, sel) /\ Good(restored', New)
                         /\ \A o \in ops' : Good(o.key[2], o.key[1])
  <2> SUFFICES ASSUME ~ghost'.strayed PROVE Good(restored, New) /\ \A o \in ops' : Good(o.key[2], o.key[1])
    BY <1>1, <1>3
  <2> QED BY <1>3, <1>5, KeysGood DEF DraftsInv, HomeInv
<1>7. DraftsInv' /\ view' \in Views
  BY <1>1, <1>3, <1>4, <1>6, DraftEdited DEF ComposerShape
<1> QED BY <1>2, <1>3, <1>7 DEF DraftTypes

LEMMA MoveDrafts ==
    ASSUME ComposerShape, DraftsInv, NEW s \in Scopes, MoveTo(s)
    PROVE  DraftTypes' /\ DraftsInv'
<1>1. ghost \in Ghosts /\ ops \subseteq OpSet /\ restored \in TextOrNone /\ NoText \in TextOrNone
  BY DEF ComposerShape, IdShape, DraftShape, TextOrNone
<1>2. /\ view' = EnterScope(view, s, restored) /\ sel' = s /\ restored' = NoText
      /\ ops' = Unfresh(ops) /\ UNCHANGED <<saves, disk>>
      /\ ghost'.left = ghost.left
      /\ ghost'.strayed = (ghost.strayed \/ Strays)
      /\ ghost'.clobbered = IF restored = NoText THEN ghost.clobbered ELSE ghost.clobbered \cup {s}
  BY <1>1 DEF MoveTo, Ghosts
<1>3. KeysKept
  BY <1>1, <1>2, UnfreshKeys DEF KeysKept
<1>4. ~ghost'.strayed =>
                /\ ~ghost.strayed /\ Good(restored, New)
                /\ \A o \in ops' : Good(o.key[2], o.key[1])
                /\ ~view.loaded => view.text = NoText
  <2> SUFFICES ASSUME ~ghost.strayed, ~Strays
               PROVE  /\ Good(restored, New)
                      /\ \A o \in ops' : Good(o.key[2], o.key[1])
                      /\ ~view.loaded => view.text = NoText
    BY <1>2
  <2> QED BY <1>3, KeysGood DEF DraftsInv, HomeInv, Strays
<1>5. DraftsInv' /\ view' \in Views
  BY <1>1, <1>2, <1>4, ScopeEntered DEF ComposerShape
<1> QED BY <1>1, <1>2, <1>5 DEF DraftTypes

LEMMA AdoptDrafts ==
    ASSUME ComposerShape, DraftsInv, NEW op \in ops, ChatCreated(op)
    PROVE  DraftTypes' /\ DraftsInv'
<1> DEFINE new(a) == [op EXCEPT !.step = "turn", !.scope = Made(op.id), !.adopted = a]
<1>1. /\ ghost \in Ghosts /\ ops \subseteq OpSet /\ op \in OpSet /\ restored \in TextOrNone /\ NoText \in TextOrNone
  BY DEF ComposerShape, IdShape, DraftShape, TextOrNone
<1>2. KeysKept
  <2>1. \A x \in Unfresh(ops \ {op}) : \E p \in ops : x.key = p.key
    BY <1>1, UnfreshKeys
  <2>2. \A a : new(a).key = op.key
    BY <1>1 DEF OpSet
  <2>3. \A x \in ops' : x \in Unfresh(ops \ {op}) \/ x \in ops \/ \E a : x = new(a)
    BY DEF ChatCreated
  <2> HIDE DEF new
  <2> QED BY <2>1, <2>2, <2>3 DEF KeysKept
<1>3. UNCHANGED <<saves, disk>>
  BY DEF ChatCreated
<1>4. CASE ~(sel \in {New, op.scope})
  <2>1. UNCHANGED <<sel, view, restored, ghost>>
    BY <1>4 DEF ChatCreated
  <2> QED BY <1>2, <1>3, <2>1, DraftsKept DEF ComposerShape
<1>5. CASE sel \in {New, op.scope}
  <2> DEFINE s == Made(op.id)
  <2>1. s \in Scopes
    <3>1. op.id \in 1..MaxIds
      BY ComposerAssumption DEF ComposerShape, Bounds, OpWell, IdShape
    <3> QED BY <3>1, ScopesOfIds
  <2>2. sel' = s /\ view' = EnterScope(view, sel', restored) /\ restored' = NoText
    BY <1>5 DEF ChatCreated
  <2>3. ghost' = [ghost EXCEPT !.strayed = @ \/ Strays,
                               !.clobbered = IF restored = NoText THEN @ ELSE @ \cup {sel'}]
    BY <1>5 DEF ChatCreated
  <2> HIDE DEF s
  <2>4. /\ ghost'.left = ghost.left
        /\ ghost'.strayed = (ghost.strayed \/ Strays)
        /\ ghost'.clobbered = IF restored = NoText THEN ghost.clobbered ELSE ghost.clobbered \cup {s}
    BY <1>1, <2>2, <2>3 DEF Ghosts
  <2>5. ~ghost'.strayed =>
                /\ ~ghost.strayed /\ Good(restored, New)
                /\ \A o \in ops' : Good(o.key[2], o.key[1])
                /\ ~view.loaded => view.text = NoText
    <3> SUFFICES ASSUME ~ghost.strayed, ~Strays
                 PROVE  /\ Good(restored, New)
                        /\ \A o \in ops' : Good(o.key[2], o.key[1])
                        /\ ~view.loaded => view.text = NoText
      BY <2>4
    <3> QED BY <1>2, KeysGood DEF DraftsInv, HomeInv, Strays
  <2>6. view' = EnterScope(view, s, restored)
    BY <2>2
  <2>7. DraftsInv' /\ view' \in Views
    BY <1>1, <1>3, <2>1, <2>2, <2>4, <2>5, <2>6, ScopeEntered DEF ComposerShape
  <2> QED BY <1>1, <2>1, <2>2, <2>7 DEF DraftTypes
<1> QED BY <1>4, <1>5

LEMMA SendDrafts ==
    ASSUME ComposerShape, DraftsInv, SendMessage PROVE DraftTypes' /\ DraftsInv'
<1> DEFINE key == <<sel, view.text>>
           op == Begin("send", sel, key)
<1>1. /\ ghost \in Ghosts /\ ghost.left \in DraftSet /\ sel \in Scopes /\ ops \subseteq OpSet
      /\ restored \in TextOrNone /\ NoText \in TextOrNone
  BY DEF ComposerShape, IdShape, DraftShape, Ghosts, TextOrNone
<1>2. /\ view' = SetDraft(view, NoText) /\ NoText # view.text /\ ops' = Unfresh(ops) \cup {op}
      /\ UNCHANGED <<sel, restored, saves, disk>> /\ ghost' = MeantBy(key)
  BY DEF SendMessage
<1>3. op.key = key /\ key[1] = sel /\ key[2] = view.text
  BY DEF Begin
<1>4. /\ MeantBy(key).left = UpdateDraftEntries(ghost.left, key[1], NoText)
      /\ MeantBy(key).strayed = ghost.strayed /\ MeantBy(key).clobbered = ghost.clobbered
  BY <1>1 DEF MeantBy, Ghosts
<1> HIDE DEF key, op
<1>5. \A s : Entry(ghost'.left, s) = IF s = sel THEN NoText ELSE Entry(ghost.left, s)
  BY <1>1, <1>2, <1>3, <1>4, UpdatedEntries
<1>6. ~ghost'.strayed => /\ ~ghost.strayed /\ Good(NoText, sel) /\ Good(restored', New)
                         /\ \A o \in ops' : Good(o.key[2], o.key[1])
  <2> SUFFICES ASSUME ~ghost.strayed PROVE Good(restored, New) /\ \A o \in ops' : Good(o.key[2], o.key[1])
    BY <1>2, <1>4 DEF Good
  <2>1. \A o \in Unfresh(ops) : \E p \in ops : o.key = p.key
    BY <1>1, UnfreshKeys
  <2>2. \A p \in ops : Good(p.key[2], p.key[1])
    BY DEF DraftsInv, HomeInv
  <2>3. Good(op.key[2], op.key[1])
    BY <1>3 DEF DraftsInv, HomeInv
  <2> QED BY <1>2, <2>1, <2>2, <2>3 DEF DraftsInv, HomeInv
<1>7. DraftsInv' /\ view' \in Views
  BY <1>1, <1>2, <1>4, <1>5, <1>6, DraftEdited DEF ComposerShape
<1> QED BY <1>1, <1>2, <1>7 DEF DraftTypes

LEMMA CreateDrafts ==
    ASSUME ComposerShape, DraftsInv, CreateChat PROVE DraftTypes' /\ DraftsInv'
<1> DEFINE key == <<New, view.text>>
           op == Begin("create", Pending(BeginId(key)), key)
           v == [view EXCEPT !.text = NoText]
           s == Pending(BeginId(key))
<1>1. /\ ghost \in Ghosts /\ ghost.left \in DraftSet /\ ops \subseteq OpSet /\ view \in Views
      /\ restored \in TextOrNone /\ NoText \in TextOrNone
  BY DEF ComposerShape, IdShape, DraftShape, Ghosts, TextOrNone
<1>2. /\ view' = EnterScope(v, op.scope, restored) /\ ops' = Unfresh(ops) \cup {op}
      /\ sel = New /\ sel' = op.scope /\ restored' = NoText
      /\ UNCHANGED <<saves, disk>> /\ ghost' = [MeantBy(key) EXCEPT !.created = @ \cup {op.intent}]
  BY DEF CreateChat
<1>3. op.key = key /\ key[1] = New /\ key[2] = view.text /\ op.scope = s /\ v.text = NoText
  BY <1>1 DEF Begin, Views
<1>4. /\ ghost'.left = UpdateDraftEntries(ghost.left, key[1], NoText)
      /\ ghost'.strayed = ghost.strayed /\ ghost'.clobbered = ghost.clobbered
  BY <1>1, <1>2 DEF MeantBy, Ghosts
<1>5. s \in Scopes /\ s \notin Keepers
  <2>1. BeginId(key) \in 1..(nextId + 1) /\ BeginId(key) <= MaxIds
    BY BeginIdFacts DEF CreateChat, IdsLeft
  <2>2. BeginId(key) \in 1..MaxIds
    BY <2>1, ComposerAssumption DEF ComposerShape, IdShape
  <2> QED BY <2>2, ScopesOfIds, NewNoKeeper
<1>10. v \in {view, [view EXCEPT !.text = NoText]}
  OBVIOUS
<1> HIDE DEF key, op, v, s
<1>6. \A x : Entry(ghost'.left, x) = IF x = New THEN NoText ELSE Entry(ghost.left, x)
  BY <1>1, <1>3, <1>4, UpdatedEntries, NewIsScope
<1>7. ~ghost'.strayed =>
                /\ ~ghost.strayed /\ Good(restored, New)
                /\ \A o \in ops' : Good(o.key[2], o.key[1])
                /\ ~view.loaded => v.text = NoText /\ sel \notin Keepers
  <2> SUFFICES ASSUME ~ghost.strayed PROVE Good(restored, New) /\ \A o \in ops' : Good(o.key[2], o.key[1])
    BY <1>2, <1>3, <1>4, NewNoKeeper
  <2>1. \A o \in Unfresh(ops) : \E p \in ops : o.key = p.key
    BY <1>1, UnfreshKeys
  <2>2. \A p \in ops : Good(p.key[2], p.key[1])
    BY DEF DraftsInv, HomeInv
  <2>3. Good(op.key[2], op.key[1])
    BY <1>2, <1>3 DEF DraftsInv, HomeInv
  <2> QED BY <1>2, <2>1, <2>2, <2>3 DEF DraftsInv, HomeInv
<1>8. view' = EnterScope(v, s, restored) /\ sel' = s
  BY <1>2, <1>3
<1>9. DraftsInv' /\ view' \in Views
  BY <1>1, <1>2, <1>4, <1>5, <1>6, <1>7, <1>8, <1>10, ScopeEntered DEF ComposerShape
<1> QED BY <1>1, <1>2, <1>5, <1>8, <1>9 DEF DraftTypes

LEMMA SendFailDrafts ==
    ASSUME ComposerShape, DraftsInv, NEW op \in ops, SendFails(op)
    PROVE  DraftTypes' /\ DraftsInv'
<1>1. /\ ghost \in Ghosts /\ ghost.left \in DraftSet /\ sel \in Scopes /\ ops \subseteq OpSet /\ op \in OpSet
      /\ restored \in TextOrNone
      /\ saves \in [drafts : Seq(DraftSet), ids : Seq(IdFiles)]
  BY DEF ComposerShape, IdShape, DraftShape, Ghosts
<1>2. saves'.drafts = saves.drafts /\ UNCHANGED <<sel, restored, disk>>
  BY <1>1 DEF SendFails, Fail, StoreTo
<1>3. KeysKept
  <2>1. \A x \in Unfresh(ops \ {op}) : \E p \in ops : x.key = p.key
    BY <1>1, UnfreshKeys
  <2> QED BY <2>1 DEF KeysKept, SendFails, AfterEdit
<1> DEFINE t == op.key[2]
<1>4. t \in Texts \ {NoText} /\ t \in TextOrNone
  BY <1>1 DEF OpSet, Keys, TextOrNone
<1>5. ghost' = [ghost EXCEPT
            !.owed = {p \in @ : p[1] # op.key} \cup {<<op.key, op.intent>>},
            !.exposed = @ \cup Forgotten(op),
            !.left = IF MayRestore(op) THEN UpdateDraftEntries(@, sel, t) ELSE @]
  BY DEF SendFails
<1>6. view' = IF MayRestore(op) THEN SetDraft(view, t) ELSE view
  BY DEF SendFails
<1> HIDE DEF t
<1>7. /\ ghost'.left = IF MayRestore(op) THEN UpdateDraftEntries(ghost.left, sel, t) ELSE ghost.left
      /\ ghost'.strayed = ghost.strayed /\ ghost'.clobbered = ghost.clobbered
  BY <1>1, <1>5 DEF Ghosts
<1>8. CASE ~MayRestore(op)
  <2>1. ghost'.left = ghost.left /\ view' = view
    BY <1>6, <1>7, <1>8
  <2> QED BY <1>2, <1>3, <1>7, <2>1, DraftsKept DEF ComposerShape
<1>9. CASE MayRestore(op)
  <2>1. sel = op.key[1] /\ view.text = NoText /\ view' = SetDraft(view, t)
        /\ ghost'.left = UpdateDraftEntries(ghost.left, sel, t)
    BY <1>6, <1>7, <1>9 DEF MayRestore
  <2>2. \A s : Entry(ghost'.left, s) = IF s = sel THEN t ELSE Entry(ghost.left, s)
    BY <1>1, <1>4, <2>1, UpdatedEntries
  <2>3. ~ghost'.strayed => /\ ~ghost.strayed /\ Good(t, sel) /\ Good(restored', New)
                           /\ \A o \in ops' : Good(o.key[2], o.key[1])
    <3> SUFFICES ASSUME ~ghost.strayed
                 PROVE  Good(t, sel) /\ Good(restored, New) /\ \A o \in ops' : Good(o.key[2], o.key[1])
      BY <1>2, <1>7
    <3>1. Good(op.key[2], op.key[1])
      BY DEF DraftsInv, HomeInv
    <3> QED BY <1>3, <2>1, <3>1, KeysGood DEF DraftsInv, HomeInv, t
  <2>4. t # view.text
    BY <1>4, <2>1
  <2>5. DraftsInv' /\ view' \in Views
    BY <1>2, <1>4, <1>7, <2>1, <2>2, <2>3, <2>4, DraftEdited DEF ComposerShape
  <2> QED BY <1>1, <1>2, <2>5 DEF DraftTypes
<1> QED BY <1>8, <1>9

LEMMA UnmadeDrafts ==
    ASSUME ComposerShape, DraftsInv, NEW op \in ops, CreateFailsUnmade(op)
    PROVE  DraftTypes' /\ DraftsInv'
<1> DEFINE t == op.key[2]
<1>1. /\ ghost \in Ghosts /\ ghost.left \in DraftSet /\ sel \in Scopes /\ ops \subseteq OpSet /\ op \in OpSet
      /\ restored \in TextOrNone /\ NoText \in TextOrNone
  BY DEF ComposerShape, IdShape, DraftShape, Ghosts, TextOrNone
<1>2. t \in Texts \ {NoText} /\ t \in TextOrNone
  BY <1>1 DEF OpSet, Keys, TextOrNone
<1>3. /\ UNCHANGED <<saves, disk>> /\ ops' = Unfresh(ops \ {op})
      /\ \/ sel = op.scope /\ sel' = New /\ view' = EnterScope(view, New, t) /\ restored' = NoText
         \/ sel # op.scope /\ sel' = sel /\ view' = SetDraft(view, t) /\ restored' = t
      /\ ghost' = [ghost EXCEPT
                !.owed = {p \in @ : p[1] # op.key} \cup {<<op.key, op.intent>>},
                !.left = UpdateDraftEntries(@, New, t),
                !.strayed = @ \/ Strays,
                !.clobbered = @ \cup {sel'}]
  BY DEF CreateFailsUnmade
<1>4. op.key[1] = New
  BY DEF CreateFailsUnmade, ComposerShape, Bounds, OpWell
<1>5. ~ghost.strayed => Good(t, New)
  BY <1>4 DEF DraftsInv, HomeInv
<1> HIDE DEF t
<1>6. /\ ghost'.left = UpdateDraftEntries(ghost.left, New, t)
      /\ ghost'.strayed = (ghost.strayed \/ Strays) /\ ghost'.clobbered = ghost.clobbered \cup {sel'}
  BY <1>1, <1>3 DEF Ghosts
<1>7. \A s \in Keepers : Entry(ghost'.left, s) = Entry(ghost.left, s)
  BY <1>1, <1>2, <1>6, NewIsScope, NewNoKeeper, UpdatedEntries
<1>8. KeysKept
  BY <1>1, <1>3, UnfreshKeys DEF KeysKept
<1>9. ~ghost'.strayed => /\ ~ghost.strayed /\ Good(t, New) /\ (~view.loaded => view.text = NoText)
                         /\ \A o \in ops' : Good(o.key[2], o.key[1])
  <2> SUFFICES ASSUME ~ghost.strayed, ~Strays
               PROVE  Good(t, New) /\ (~view.loaded => view.text = NoText)
                      /\ \A o \in ops' : Good(o.key[2], o.key[1])
    BY <1>6
  <2> QED BY <1>5, <1>8, KeysGood DEF DraftsInv, Strays
<1>10. CASE sel = op.scope /\ sel' = New /\ view' = EnterScope(view, New, t) /\ restored' = NoText
  <2>1. DraftsInv' /\ view' \in Views
    BY <1>1, <1>2, <1>3, <1>6, <1>7, <1>9, <1>10, NewIsScope, NewNoKeeper, ScopeEntered DEF ComposerShape
  <2> QED BY <1>1, <1>10, <2>1, NewIsScope DEF DraftTypes
<1>11. CASE sel # op.scope /\ sel' = sel /\ view' = SetDraft(view, t) /\ restored' = t
  <2>1. ~ghost'.strayed => /\ ~ghost.strayed /\ Good(t, sel) /\ Good(restored', New)
                           /\ \A o \in ops' : Good(o.key[2], o.key[1])
    BY <1>9, <1>11, GoodEverywhere
  <2>2. sel \in ghost'.clobbered /\ ghost.clobbered \subseteq ghost'.clobbered
    BY <1>6, <1>11
  <2>3. \A s \in Keepers \ ghost'.clobbered :
              Entry(ghost'.left, s) # NoText =>
                Entry(ghost'.left, s) = IF s = sel THEN t ELSE Entry(ghost.left, s)
    BY <1>7, <2>2
  <2>4. DraftsInv' /\ view' \in Views
    BY <1>2, <1>3, <1>11, <2>1, <2>2, <2>3, DraftEdited DEF ComposerShape
  <2> QED BY <1>1, <1>2, <1>11, <2>4 DEF DraftTypes
<1> QED BY <1>3, <1>10, <1>11

LEMMA MadeDrafts ==
    ASSUME ComposerShape, DraftsInv, NEW op \in ops, CreateFailsMade(op)
    PROVE  DraftTypes' /\ DraftsInv'
<1> DEFINE t == op.key[2]
           back == op.adopted /\ sel = op.scope /\ view.text = NoText
           key == IF back THEN <<sel, t>> ELSE op.key
<1>1. /\ ghost \in Ghosts /\ ghost.left \in DraftSet /\ sel \in Scopes /\ ops \subseteq OpSet /\ op \in OpSet
      /\ restored \in TextOrNone
      /\ saves \in [drafts : Seq(DraftSet), ids : Seq(IdFiles)]
  BY DEF ComposerShape, IdShape, DraftShape, Ghosts
<1>2. t \in Texts \ {NoText} /\ t \in TextOrNone
  BY <1>1 DEF OpSet, Keys, TextOrNone
<1>3. saves'.drafts = saves.drafts /\ UNCHANGED <<sel, disk>>
  BY <1>1 DEF CreateFailsMade, Fail, StoreTo
<1>4. /\ ops' \in {Unfresh(ops \ {op}), ops \ {op}}
      /\ view' = IF back THEN SetDraft(view, t) ELSE view
      /\ restored' = IF back THEN t ELSE restored
      /\ ghost' = [ghost EXCEPT
                !.owed = {p \in @ : p[1] # key} \cup {<<key, op.intent>>},
                !.exposed = @ \cup Forgotten(op),
                !.left = IF back THEN UpdateDraftEntries(@, sel, t) ELSE @]
  BY DEF CreateFailsMade
<1>5. op.key[1] = New
  BY DEF CreateFailsMade, ComposerShape, Bounds, OpWell
<1>6. ~ghost.strayed => Good(t, New)
  BY <1>5 DEF DraftsInv, HomeInv
<1>7. KeysKept
  <2>1. \A x \in Unfresh(ops \ {op}) : \E p \in ops : x.key = p.key
    BY <1>1, UnfreshKeys
  <2> QED BY <1>4, <2>1 DEF KeysKept
<1>8. back => view.text = NoText
  OBVIOUS
<1> HIDE DEF t, back, key
<1>9. /\ ghost'.left = IF back THEN UpdateDraftEntries(ghost.left, sel, t) ELSE ghost.left
      /\ ghost'.strayed = ghost.strayed /\ ghost'.clobbered = ghost.clobbered
  BY <1>1, <1>4 DEF Ghosts
<1>10. CASE ~back
  <2>1. UNCHANGED <<view, restored>> /\ ghost'.left = ghost.left
    BY <1>4, <1>9, <1>10
  <2> QED BY <1>3, <1>7, <1>9, <2>1, DraftsKept DEF ComposerShape
<1>11. CASE back
  <2>1. \A s : Entry(ghost'.left, s) = IF s = sel THEN t ELSE Entry(ghost.left, s)
    BY <1>1, <1>2, <1>9, <1>11, UpdatedEntries
  <2>2. ~ghost'.strayed => /\ ~ghost.strayed /\ Good(t, sel) /\ Good(restored', New)
                           /\ \A o \in ops' : Good(o.key[2], o.key[1])
    <3> SUFFICES ASSUME ~ghost.strayed
                 PROVE  Good(t, sel) /\ Good(t, New) /\ \A o \in ops' : Good(o.key[2], o.key[1])
      BY <1>4, <1>9, <1>11
    <3> QED BY <1>6, <1>7, KeysGood, GoodEverywhere DEF DraftsInv
  <2>3. t # view.text /\ view' = SetDraft(view, t)
    BY <1>2, <1>4, <1>8, <1>11
  <2>4. DraftsInv' /\ view' \in Views
    BY <1>2, <1>3, <1>9, <2>1, <2>2, <2>3, DraftEdited DEF ComposerShape
  <2> QED BY <1>1, <1>2, <1>3, <1>4, <1>11, <2>4 DEF DraftTypes
<1> QED BY <1>10, <1>11

LEMMA LoadedDrafts ==
    ASSUME ComposerShape, DraftsInv, DraftsLoaded PROVE DraftTypes' /\ DraftsInv'
<1> DEFINE v == [view EXCEPT !.entries = disk.drafts, !.loaded = TRUE]
           h == Hydrate(v, sel)
<1>1. /\ ~view.loaded /\ view' = FileDraft(h) /\ ops' \in {ops, Unfresh(ops)}
      /\ UNCHANGED <<sel, restored, saves, disk, ghost>>
  BY DEF DraftsLoaded
<1>2. /\ sel \in Scopes /\ view \in Views /\ restored \in TextOrNone /\ disk.drafts \in DraftSet /\ ops \subseteq OpSet
  BY DEF ComposerShape, DraftShape, IdShape
<1>3. /\ v \in Views /\ v.entries = disk.drafts /\ v.loaded /\ v.text = view.text
      /\ v.unsynced = view.unsynced /\ v.dirty = view.dirty /\ v.timer = view.timer
  BY <1>2 DEF Views
<1> HIDE DEF v
<1>4. /\ h \in Views /\ SavesChange(v, h)
      /\ h.owner = sel /\ h.loaded /\ h.unsynced = v.unsynced
      /\ h.text = (IF v.unsynced THEN v.text ELSE Entry(v.entries, sel))
      /\ Entry(h.entries, sel) = h.text
      /\ \A x : x # sel => Entry(h.entries, x) = Entry(v.entries, x)
  BY <1>2, <1>3, HydrateFacts
<1> HIDE DEF h
<1>5. view' = h
  BY <1>1, <1>4 DEF FileDraft
<1>6. ~view.dirty /\ ~view.timer /\ saves.drafts = <<>>
  BY <1>1 DEF DraftsInv, CleanInv
<1>7. CleanInv'
  <2>1. CASE h.entries = v.entries /\ h.dirty = v.dirty /\ h.timer = v.timer
    BY <1>1, <1>3, <1>4, <1>5, <1>6, <2>1 DEF CleanInv, CleanMeansSaved
  <2>2. CASE h.loaded /\ h.dirty /\ h.timer
    BY <1>5, <2>2 DEF CleanInv, CleanMeansSaved
  <2> QED BY <1>4, <2>1, <2>2 DEF SavesChange
<1>8. OwnInv'
  BY <1>1, <1>4, <1>5 DEF OwnInv
<1>9. KeysKept
  <2>1. \A x \in Unfresh(ops) : \E p \in ops : x.key = p.key
    BY <1>2, UnfreshKeys
  <2> QED BY <1>1, <2>1 DEF KeysKept
<1>10. HomeInv'
  <2> SUFFICES ASSUME ~ghost.strayed PROVE HomeInv'
    BY <1>1 DEF HomeInv
  <2>1. HomeDrafts(disk.drafts) /\ Good(view.text, sel) /\ Good(restored, New)
        /\ \A e \in ToSet(saves.drafts) : HomeDrafts(e)
    BY DEF DraftsInv, HomeInv
  <2>2. Good(h.text, sel) /\ HomeDrafts(h.entries)
    BY <1>2, <1>3, <1>4, <2>1 DEF HomeDrafts
  <2>3. \A o \in ops' : Good(o.key[2], o.key[1])
    BY <1>9, KeysGood DEF DraftsInv
  <2> QED BY <1>1, <1>5, <2>1, <2>2, <2>3 DEF HomeInv
<1>11. LeftInv'
  <2> SUFFICES ASSUME ~ghost.strayed, NEW s \in Keepers \ ghost.clobbered, Entry(ghost.left, s) # NoText
               PROVE  Entry(ghost.left, s) = ShownIn(s)'
    BY <1>1 DEF LeftInv
  <2>1. Entry(ghost.left, s) = ShownIn(s)
    BY DEF DraftsInv, LeftInv
  <2>2. ShownIn(s)' = Entry(h.entries, s)
    BY <1>4, <1>5 DEF ShownIn
  <2> QED BY <1>1, <1>3, <1>4, <2>1, <2>2 DEF ShownIn
<1>12. DraftTypes'
  BY <1>1, <1>2, <1>4, <1>5 DEF DraftTypes
<1> QED BY <1>7, <1>8, <1>10, <1>11, <1>12 DEF DraftsInv

LEMMA PersistedDrafts ==
    ASSUME ComposerShape, DraftsInv, PersistDrafts
    PROVE  DraftTypes' /\ DraftsInv' /\ saves'.drafts \in Seq(DraftSet) /\ saves'.ids = saves.ids
<1>1. /\ view.timer /\ view' = [view EXCEPT !.timer = FALSE]
      /\ saves' = [saves EXCEPT !.drafts = Append(@, view.entries)]
      /\ UNCHANGED <<sel, restored, disk, ops, ghost>>
  BY DEF PersistDrafts
<1>2. /\ view \in Views /\ view.entries \in DraftSet /\ saves \in [drafts : Seq(DraftSet), ids : Seq(IdFiles)]
      /\ sel \in Scopes /\ restored \in TextOrNone
  BY DEF ComposerShape, DraftShape, Views
<1>3. /\ view' \in Views /\ ~view'.timer /\ view'.text = view.text /\ view'.owner = view.owner
      /\ view'.loaded = view.loaded /\ view'.unsynced = view.unsynced /\ view'.entries = view.entries
      /\ view'.dirty = view.dirty
  BY <1>1, <1>2 DEF Views
<1>4. saves'.drafts = Append(saves.drafts, view.entries) /\ saves'.ids = saves.ids
  BY <1>1, <1>2
<1>5. /\ saves'.drafts \in Seq(DraftSet) /\ saves'.drafts # <<>>
      /\ ToSet(saves'.drafts) = ToSet(saves.drafts) \cup {view.entries}
      /\ saves'.drafts[Len(saves'.drafts)] = view.entries
  BY <1>2, <1>4, AppendSet
<1>6. view.dirty /\ view.loaded
  BY <1>1 DEF DraftsInv, CleanInv
<1>7. CleanInv'
  BY <1>3, <1>5, <1>6 DEF CleanInv, CleanMeansSaved
<1>8. OwnInv'
  BY <1>1, <1>3 DEF DraftsInv, OwnInv
<1>9. HomeInv'
  BY <1>1, <1>3, <1>5 DEF DraftsInv, HomeInv
<1>10. LeftInv'
  BY <1>1, <1>3 DEF DraftsInv, LeftInv, ShownIn
<1> QED BY <1>1, <1>2, <1>3, <1>4, <1>5, <1>7, <1>8, <1>9, <1>10 DEF DraftsInv, DraftTypes

LEMMA WrittenDrafts ==
    ASSUME ComposerShape, DraftsInv, NEW ok \in BOOLEAN, DraftsWritten(ok)
    PROVE  /\ DraftTypes' /\ DraftsInv' /\ saves'.drafts \in Seq(DraftSet) /\ saves'.ids = saves.ids
           /\ disk'.drafts \in DraftSet /\ disk'.ids = disk.ids
<1>1. /\ view \in Views /\ saves \in [drafts : Seq(DraftSet), ids : Seq(IdFiles)]
      /\ disk \in [drafts : DraftSet, ids : IdFiles] /\ sel \in Scopes /\ restored \in TextOrNone
  BY DEF ComposerShape, DraftShape
<1>2. /\ saves.drafts # <<>> /\ saves'.drafts = Tail(saves.drafts) /\ saves'.ids = saves.ids
      /\ UNCHANGED <<sel, restored, ops, ghost>>
  BY <1>1 DEF DraftsWritten
<1> DEFINE q == saves.drafts
           h == Head(saves.drafts)
<1>3. /\ Tail(q) \in Seq(DraftSet) /\ h \in ToSet(q) /\ h \in DraftSet
      /\ ToSet(Tail(q)) \subseteq ToSet(q)
      /\ Len(Tail(q)) = Len(q) - 1 /\ Len(q) \in Nat \ {0} /\ h = q[1]
      /\ Tail(q) # <<>> => Tail(q)[Len(Tail(q))] = q[Len(q)]
  <2>1. q \in Seq(DraftSet) /\ q # <<>>
    BY <1>1, <1>2
  <2> HIDE DEF q
  <2> QED BY <2>1, TailSet DEF h, q
<1>4. view.dirty
  BY <1>2 DEF DraftsInv, CleanInv
<1>5. Len(q) > 1 \/ Tail(q) = <<>>
  BY <1>3
<1> HIDE DEF h, q
<1>6. CASE ~ok
  <2>1. UNCHANGED <<view, disk>>
    BY <1>6 DEF DraftsWritten
  <2>2. CleanInv'
    BY <1>2, <1>3, <1>4, <2>1 DEF DraftsInv, CleanInv, CleanMeansSaved, q
  <2>3. HomeInv'
    BY <1>2, <1>3, <2>1 DEF DraftsInv, HomeInv, q
  <2>4. OwnInv' /\ LeftInv'
    BY <1>2, <2>1 DEF DraftsInv, OwnInv, LeftInv, ShownIn
  <2> QED BY <1>1, <1>2, <1>3, <2>1, <2>2, <2>3, <2>4 DEF DraftsInv, DraftTypes, q
<1>7. CASE ok
  <2> DEFINE more == view.timer \/ Len(saves.drafts) > 1
  <2>1. /\ disk' = [disk EXCEPT !.drafts = h]
        /\ view' = [view EXCEPT !.dirty = @ /\ more]
    BY <1>7 DEF DraftsWritten, h
  <2>2. more \in BOOLEAN /\ (more <=> view.timer \/ Len(q) > 1)
    BY <1>1 DEF q, Views
  <2> HIDE DEF more
  <2>3. /\ view' \in Views /\ view'.dirty = more /\ view'.text = view.text /\ view'.owner = view.owner
        /\ view'.loaded = view.loaded /\ view'.unsynced = view.unsynced /\ view'.entries = view.entries
        /\ view'.timer = view.timer
    BY <1>1, <1>4, <2>1, <2>2 DEF Views
  <2>4. disk'.drafts = h /\ disk'.ids = disk.ids
    BY <1>1, <2>1
  <2>5. CleanInv'
    <3>1. view.loaded
      BY <1>4 DEF DraftsInv, CleanInv
    <3>2. ~view.timer => q[Len(q)] = view.entries
      BY <1>2 DEF DraftsInv, CleanInv, q
    <3>3. CASE more
      BY <1>2, <1>3, <2>3, <3>1, <3>2, <3>3 DEF CleanInv, CleanMeansSaved, q
    <3>4. CASE ~more
      <4>1. ~view.timer /\ ~(Len(q) > 1)
        BY <2>2, <3>4
      <4>2. Len(q) = 1
        BY <1>3, <4>1
      <4>3. Tail(q) = <<>> /\ h = view.entries
        BY <1>3, <1>5, <3>2, <4>1, <4>2
      <4> QED BY <1>2, <2>3, <2>4, <3>1, <4>1, <4>3 DEF CleanInv, CleanMeansSaved, q
    <3> QED BY <3>3, <3>4
  <2>6. HomeInv'
    BY <1>2, <1>3, <2>3, <2>4 DEF DraftsInv, HomeInv, q
  <2>7. OwnInv'
    BY <1>2, <2>3 DEF DraftsInv, OwnInv
  <2>8. LeftInv'
    <3>1. view.loaded
      BY <1>4 DEF DraftsInv, CleanInv
    <3> QED BY <1>2, <2>3, <3>1 DEF DraftsInv, LeftInv, ShownIn
  <2> QED BY <1>1, <1>2, <1>3, <2>3, <2>4, <2>5, <2>6, <2>7, <2>8 DEF DraftsInv, DraftTypes, q
<1> QED BY <1>6, <1>7

LEMMA RestartDrafts ==
    ASSUME ComposerShape, DraftsInv, Restart PROVE DraftTypes' /\ DraftsInv'
<1> DEFINE v == [text |-> NoText, owner |-> New, loaded |-> FALSE, unsynced |-> FALSE,
                 entries |-> <<>>, dirty |-> FALSE, timer |-> FALSE]
<1>1. /\ v \in Views /\ v.text = NoText /\ ~v.loaded /\ ~v.unsynced /\ v.entries = <<>> /\ ~v.dirty /\ ~v.timer
  BY NoDrafts, NewIsScope DEF Views, TextOrNone
<1>2. /\ view' = v /\ sel' = New /\ restored' = NoText /\ ops' = {} /\ saves'.drafts = <<>> /\ disk' = disk
  BY DEF Restart
<1> HIDE DEF v
<1>3. ghost \in Ghosts
  BY DEF ComposerShape, IdShape
<1>4. ghost'.left = disk.drafts /\ ghost'.strayed = ghost.strayed /\ ghost'.clobbered = ghost.clobbered
  BY <1>3 DEF Restart, Ghosts
<1>5. CleanInv' /\ OwnInv'
  BY <1>1, <1>2 DEF CleanInv, CleanMeansSaved, OwnInv
<1>6. HomeInv'
  <2>1. ToSet(saves'.drafts) = {}
    BY <1>2 DEF ToSet
  <2>2. HomeDrafts(<<>>) /\ Good(NoText, New)
    BY NoDrafts DEF HomeDrafts, Good
  <2> QED BY <1>1, <1>2, <1>4, <2>1, <2>2 DEF DraftsInv, HomeInv
<1>7. LeftInv'
  BY <1>1, <1>2, <1>4 DEF LeftInv, ShownIn
<1>8. DraftTypes'
  BY <1>1, <1>2, NewIsScope DEF DraftTypes, TextOrNone
<1> QED BY <1>5, <1>6, <1>7, <1>8 DEF DraftsInv

-----------------------------------------------------------------------------
(* Submission ids. *)

\* The ids the phone will know a text by: those in its file until that is read.
Kept == IF store.loaded THEN store.ids ELSE disk.ids
Records == ToSet(failed) \cup ToSet(Kept)

\* <<id, intent>> of every message under way or delivered.
Sent == {<<x.id, x.intent>> : x \in ops \cup late \cup bridge.delivered}

\* Intents AtMostOncePerIntent and SentMeansDelivered say nothing of.
Excused == ghost.twins \cup ghost.created

\* An id belongs to one key, in memory, in the file and on the wire.
BindInv == \A r, s \in AllRecs \cup ops : r.id = s.id => r.key = s.key

\* The bridge holds one message per id, and what an operation says it holds.
Once(ms) == \A m, n \in ms : m.id = n.id => m = n
HeldInv ==
    /\ Once(bridge.delivered)
    /\ \A o \in ops : o.step = "held" => \E m \in bridge.delivered : m.id = o.id

\* Whatever carries the id of an operation carries its intent; two messages of
\* one intent have one id.
OneIdEach ==
    /\ \A o \in ops : o.intent \notin Excused => \A c \in Sent : c[1] = o.id => c[2] = o.intent
    /\ \A c, d \in Sent : c[2] = d[2] /\ c[2] \notin Excused \cup ghost.exposed => c[1] = d[1]

\* A failure the user saw is recorded under the id its messages carry.
OwedInv ==
    /\ \A p \in ghost.owed : p[2] \notin Excused \cup ghost.exposed =>
          \E e \in ToSet(Kept) : e.key = p[1] /\ \A c \in Sent : c[2] = p[2] => c[1] = e.id
    /\ \A p \in ghost.owed, o \in ops : o.key = p[1] \/ o.intent = p[2] => p[2] \in Excused
    /\ \A p, q \in ghost.owed : p[2] = q[2] /\ p[2] \notin Excused => p = q

\* Operations alike are excused.
TwinsInv ==
    \A o, x \in ops : o # x /\ (o.key = x.key \/ o.intent = x.intent) =>
        o.intent \in Excused /\ x.intent \in Excused

\* A record is of a failure the user saw or of a retry under way, under its id.
RecordsInv ==
    /\ \A e \in Records : e.key[1] # New =>
          (\E p \in ghost.owed : p[1] = e.key) \/ (\E o \in ops : o.key = e.key)
    /\ \A e \in Records, p \in ghost.owed : e.key = p[1] /\ p[2] \notin Excused =>
          \A c \in Sent : c[1] = e.id => c[2] = p[2]
    /\ \A e \in Records, o \in ops : e.key = o.key /\ o.intent \notin Excused => e.id = o.id
    /\ \A e, f \in Records : e.key = f.key => e.id = f.id

\* The file is, or is about to become, what is in memory.
FileInv ==
    /\ ~store.loaded => ops = {} /\ saves.ids = <<>>
    /\ store.loaded /\ saves.ids = <<>> => disk.ids = store.ids
    /\ saves.ids # <<>> => saves.ids[Len(saves.ids)] = store.ids

MeantInv == OneIdEach /\ OwedInv /\ TwinsInv /\ RecordsInv /\ FileInv
IdsInv == BindInv /\ HeldInv /\ (~ghost.early => MeantInv) /\ SentMeansDelivered

\* The scope of an operation fits its kind, step and key.
Placed(o) ==
    /\ o.kind = "create" =>
        /\ o.scope = (IF o.step \in {"wire", "made"} THEN Pending(o.id) ELSE Made(o.id))
        /\ o.key[1] = New
    /\ o.kind = "send" => o.scope = o.key[1] /\ o.key[1] # New

\* What the step leaves is of the right type.
StepTypes ==
    /\ DraftTypes'
    /\ saves' \in [drafts : Seq(DraftSet), ids : Seq(IdFiles)]
    /\ disk' \in [drafts : DraftSet, ids : IdFiles]
    /\ ops' \subseteq OpSet /\ \A o \in ops' : Placed(o)
    /\ late' \subseteq Requests
    /\ bridge' \in [delivered : SUBSET Messages, made : SUBSET (1..MaxIds)]
    /\ ghost' \in Ghosts /\ ghost.created \subseteq ghost'.created

\* Requests and messages after the step are of ones before it.
SentKept ==
    \A x \in late' \cup bridge'.delivered :
        \E y \in ops \cup late \cup bridge.delivered : y.id = x.id /\ y.intent = x.intent

HeldKept ==
    /\ bridge.delivered \subseteq bridge'.delivered /\ Once(bridge'.delivered)
    /\ \A o \in ops' : o.step = "held" => \E m \in bridge'.delivered : m.id = o.id

SameMeant ==
    /\ ghost'.intents = ghost.intents /\ ghost'.owed = ghost.owed /\ ghost'.done = ghost.done
    /\ ghost'.twins = ghost.twins /\ ghost'.exposed = ghost.exposed /\ ghost'.created = ghost.created
    /\ ghost'.early = ghost.early

LEMMA SentShrinks ==
    ASSUME NEW a, a \subseteq ops, SameOps(a, ops'), SentKept PROVE Sent' \subseteq Sent
<1>1. \A x \in ops' : \E y \in ops : x.id = y.id /\ x.intent = y.intent
  BY DEF SameOps, SameCore
<1> QED BY <1>1 DEF Sent, SentKept

LEMMA BoundsKept ==
    ASSUME ComposerShape, ghost' \in Ghosts,
           nextId' \in Nat, nextId' >= nextId, ghost'.intents >= ghost.intents,
           ghost.created \subseteq ghost'.created,
           \A o \in ops' : Placed(o) /\ \/ \E p \in ops : SameCore(o, p)
                                        \/ /\ o.id \in 1..nextId' /\ o.intent \in 1..ghost'.intents
                                           /\ o.kind = "create" => o.intent \in ghost'.created,
           \A e \in AllRecs' : e \in AllRecs \/ \E o \in ops : e.id = o.id,
           SentKept,
           \A p \in ghost'.owed : p \in ghost.owed \/ \E o \in ops : p[2] = o.intent
    PROVE  Bounds'
<1>1. nextId \in Nat /\ ghost.intents \in Nat /\ ghost'.intents \in Nat
  BY ComposerAssumption DEF ComposerShape, IdShape, Ghosts
<1>2. 1..nextId \subseteq 1..nextId' /\ 1..ghost.intents \subseteq 1..ghost'.intents
  BY <1>1
<1>3. \A o \in ops : /\ o.id \in 1..nextId' /\ o.intent \in 1..ghost'.intents
                     /\ o.kind = "create" => o.intent \in ghost'.created
  BY <1>2 DEF ComposerShape, Bounds, OpWell
<1>4. \A y \in ops \cup late \cup bridge.delivered : y.id \in 1..nextId' /\ y.intent \in 1..ghost'.intents
  BY <1>2, <1>3 DEF ComposerShape, Bounds
<1>5. \A o \in ops' : OpWell(o)'
  <2> SUFFICES ASSUME NEW o \in ops' PROVE OpWell(o)'
    OBVIOUS
  <2>1. /\ o.id \in 1..nextId' /\ o.intent \in 1..ghost'.intents
        /\ o.kind = "create" => o.intent \in ghost'.created
    BY <1>3 DEF SameCore
  <2> QED BY <2>1 DEF OpWell, Placed
<1>6. \A e \in AllRecs' : e.id \in 1..nextId'
  BY <1>2, <1>3 DEF ComposerShape, Bounds
<1>7. \A x \in late' \cup bridge'.delivered : x.id \in 1..nextId' /\ x.intent \in 1..ghost'.intents
  BY <1>4 DEF SentKept
<1>8. \A p \in ghost'.owed : p[2] \in 1..ghost'.intents
  BY <1>2, <1>3 DEF ComposerShape, Bounds
<1> QED BY <1>5, <1>6, <1>7, <1>8 DEF Bounds

\* What was reported as sent stays delivered.
LEMMA DoneKept ==
    ASSUME SentMeansDelivered, ghost.early => ghost'.early, bridge.delivered \subseteq bridge'.delivered,
           Excused \subseteq Excused',
           \A i \in ghost'.done \ ghost.done : ~ghost'.early /\ i \notin Excused' =>
               \E m \in bridge'.delivered : m.intent = i
    PROVE  SentMeansDelivered'
BY DEF SentMeansDelivered, Excused

\* Steps that only move messages about.
LEMMA QuietStep ==
    ASSUME ComposerShape, IdsInv, StepTypes, SameOps(ops, ops'), SentKept, HeldKept, SameMeant,
           UNCHANGED <<failed, store, nextId>>, saves'.ids = saves.ids, disk'.ids = disk.ids
    PROVE  ComposerShape' /\ IdsInv'
<1>1. AllRecs' = AllRecs /\ Kept' = Kept /\ Records' = Records
  BY DEF AllRecs, Kept, Records
<1>2. Sent' \subseteq Sent
  BY SentShrinks
<1>3. /\ \A x \in ops' : \E o \in ops : SameCore(x, o)
      /\ \A o \in ops : \E x \in ops' : SameCore(x, o)
      /\ \A x, y \in ops' : x # y => \E o, p \in ops : o # p /\ SameCore(x, o) /\ SameCore(y, p)
  BY DEF SameOps
<1>4. Excused' = Excused
  BY DEF SameMeant, Excused
<1>5. ComposerShape'
  <2>1. Bounds'
    <3>1. ghost' \in Ghosts /\ ghost'.intents >= ghost.intents /\ nextId' \in Nat /\ nextId' >= nextId
      BY ComposerAssumption DEF StepTypes, SameMeant, ComposerShape, IdShape, Ghosts
    <3> QED BY <1>1, <1>3, <3>1, BoundsKept DEF StepTypes, SameMeant
  <2> QED BY <2>1 DEF ComposerShape, StepTypes, DraftTypes, DraftShape, IdShape
<1>6. BindInv'
  <2>1. \A r \in AllRecs' \cup ops' : \E x \in AllRecs \cup ops : x.id = r.id /\ x.key = r.key
    BY <1>1, <1>3 DEF SameCore
  <2> QED BY <2>1 DEF IdsInv, BindInv
<1>7. HeldInv'
  BY DEF HeldKept, HeldInv
<1>8. SentMeansDelivered'
  BY <1>4, DoneKept DEF IdsInv, HeldKept, SameMeant
<1>9. ASSUME ~ghost'.early PROVE MeantInv'
  <2>1. MeantInv
    BY <1>9 DEF IdsInv, SameMeant
  <2>2. OneIdEach'
    BY <1>2, <1>3, <1>4, <2>1 DEF MeantInv, OneIdEach, SameMeant, SameCore
  <2>3. OwedInv'
    BY <1>1, <1>2, <1>3, <1>4, <2>1 DEF MeantInv, OwedInv, SameMeant, SameCore
  <2>4. TwinsInv'
    <3> SUFFICES ASSUME NEW x \in ops', NEW y \in ops', x # y, x.key = y.key \/ x.intent = y.intent
                 PROVE  x.intent \in Excused /\ y.intent \in Excused
      BY <1>4 DEF TwinsInv
    <3>1. PICK o \in ops, p \in ops : o # p /\ SameCore(x, o) /\ SameCore(y, p)
      BY <1>3
    <3> QED BY <2>1, <3>1 DEF MeantInv, TwinsInv, SameCore
  <2>5. RecordsInv'
    <3>1. \A e \in Records : e.key[1] # New =>
            (\E p \in ghost.owed : p[1] = e.key) \/ (\E o \in ops' : o.key = e.key)
      BY <1>3, <2>1 DEF MeantInv, RecordsInv, SameCore
    <3>2. \A e \in Records, o \in ops' : e.key = o.key /\ o.intent \notin Excused => e.id = o.id
      BY <1>3, <2>1 DEF MeantInv, RecordsInv, SameCore
    <3> QED BY <1>1, <1>2, <1>4, <2>1, <3>1, <3>2 DEF MeantInv, RecordsInv, SameMeant
  <2>6. FileInv'
    BY <1>3, <2>1 DEF MeantInv, FileInv
  <2> QED BY <2>2, <2>3, <2>4, <2>5, <2>6 DEF MeantInv
<1> QED BY <1>5, <1>6, <1>7, <1>8, <1>9 DEF IdsInv

\* A submission begins.
LEMMA BeginStep ==
    ASSUME ComposerShape, IdsInv, StepTypes, NEW key, NEW op, NEW rest,
           SameOps(ops, rest), ops' = rest \cup {op},
           op.id = BeginId(key), op.key = key, op.intent = IntentOf(key),
           op.kind = "create" => op.intent \in ghost'.created,
           nextId' = (IF op.id > nextId THEN op.id ELSE nextId), op.id <= MaxIds,
           failed' = Without(failed, key),
           UNCHANGED <<store, late, bridge>>, saves'.ids = saves.ids, disk'.ids = disk.ids,
           HeldKept,
           ghost'.intents = (IF op.intent > ghost.intents THEN op.intent ELSE ghost.intents),
           ghost'.owed = {p \in ghost.owed : p[1] # key},
           ghost'.done = ghost.done, ghost'.exposed = ghost.exposed,
           ghost.twins \subseteq ghost'.twins,
           \A o \in ops : o.key = key => op.intent \in ghost'.twins /\ o.intent \in ghost'.twins,
           ghost'.early = (ghost.early \/ ~store.loaded)
    PROVE  ComposerShape' /\ IdsInv'
<1> DEFINE id == op.id
           i == op.intent
<1>1. /\ failed \in Seq(Recs) /\ Keyed(failed) /\ Len(failed) <= FailedLimit /\ Len(failed) \in Nat
      /\ nextId \in Nat /\ ghost.intents \in Nat /\ nextId \in 0..MaxIds /\ FailedLimit \in Nat /\ MaxIds \in Nat
  BY ComposerAssumption DEF ComposerShape, IdShape, Ghosts
<1>2. /\ failed' \in Seq(Recs) /\ Keyed(failed') /\ Len(failed') <= FailedLimit
      /\ ToSet(failed') = {e \in ToSet(failed) : e.key # key}
  <2>1. LET r == Without(failed, key)
        IN  /\ r \in Seq(Recs) /\ Keyed(r) /\ Len(r) <= Len(failed)
            /\ ToSet(r) = {e \in ToSet(failed) : e.key # key}
    BY <1>1, WithoutKey
  <2>2. Len(failed') \in Nat /\ Len(failed') <= Len(failed)
    BY <2>1
  <2> QED BY <1>1, <2>1, <2>2
<1>3. /\ AllRecs' \subseteq AllRecs /\ Kept' = Kept /\ Records' \subseteq Records
      /\ \A e \in ToSet(failed) \cup ToSet(store.ids) : e \in AllRecs
  BY <1>2 DEF AllRecs, Kept, Records
<1>4. /\ id \in 1..(nextId + 1)
      /\ \/ id = nextId + 1 /\ \A e \in ToSet(failed) \cup ToSet(store.ids) : e.key # key
         \/ \E e \in ToSet(failed) \cup ToSet(store.ids) : e.key = key /\ e.id = id
  BY BeginIdFacts
<1>5. /\ i \in 1..(ghost.intents + 1)
      /\ \/ i = ghost.intents + 1 /\ \A p \in ghost.owed : p[1] # key
         \/ \E p \in ghost.owed : p[1] = key /\ p[2] = i
  BY IntentFacts
<1>6. /\ \A x \in rest : \E o \in ops : SameCore(x, o)
      /\ \A o \in ops : \E x \in rest : SameCore(x, o)
      /\ \A x, y \in rest : x # y => \E o, p \in ops : o # p /\ SameCore(x, o) /\ SameCore(y, p)
  BY DEF SameOps
<1>7. Sent' \subseteq Sent \cup {<<id, i>>} /\ (\A o \in ops : <<o.id, o.intent>> \in Sent)
  <2>1. \A x \in ops' : x = op \/ \E y \in ops : x.id = y.id /\ x.intent = y.intent
    BY <1>6 DEF SameCore
  <2> QED BY <2>1 DEF Sent
<1>8. Excused \subseteq Excused' /\ (\A o \in ops : o.key = key => i \in Excused' /\ o.intent \in Excused')
  BY DEF Excused, StepTypes
<1>9. /\ \A e \in AllRecs : e.id \in 1..nextId
      /\ \A o \in ops : o.id \in 1..nextId /\ o.intent \in 1..ghost.intents
      /\ \A p \in ghost.owed : p[2] \in 1..ghost.intents
  BY DEF ComposerShape, Bounds, OpWell
<1>10. \A c \in Sent : c[1] \in 1..nextId /\ c[2] \in 1..ghost.intents
  BY DEF ComposerShape, Bounds, OpWell, Sent
<1>11. nextId' \in 0..MaxIds /\ nextId' >= nextId /\ ghost'.intents >= ghost.intents
       /\ id \in 1..nextId' /\ i \in 1..ghost'.intents
  <2>1. id \in Nat /\ i \in Nat /\ id >= 1 /\ i >= 1 /\ id <= MaxIds
    BY <1>1, <1>4, <1>5
  <2> HIDE DEF id, i
  <2>2. nextId' = (IF id > nextId THEN id ELSE nextId)
        /\ ghost'.intents = (IF i > ghost.intents THEN i ELSE ghost.intents)
    BY DEF id, i
  <2> QED BY <1>1, <2>1, <2>2
<1> HIDE DEF id, i
<1>12. ComposerShape'
  <2>1. Bounds'
    <3>1. \A o \in ops' : Placed(o) /\ \/ \E p \in ops : SameCore(o, p)
                                       \/ /\ o.id \in 1..nextId' /\ o.intent \in 1..ghost'.intents
                                          /\ o.kind = "create" => o.intent \in ghost'.created
      BY <1>6, <1>11 DEF StepTypes, id, i
    <3>2. SentKept
      BY DEF SentKept
    <3>3. \A p \in ghost'.owed : p \in ghost.owed
      OBVIOUS
    <3>4. nextId' \in Nat
      BY <1>1, <1>11
    <3> QED BY <1>3, <1>11, <3>1, <3>2, <3>3, <3>4, BoundsKept DEF StepTypes
  <2> QED BY <1>2, <1>11, <2>1 DEF ComposerShape, StepTypes, DraftTypes, DraftShape, IdShape
<1>13. BindInv'
  <2>1. \A r \in AllRecs' \cup ops' : r = op \/ \E x \in AllRecs \cup ops : x.id = r.id /\ x.key = r.key
    BY <1>3, <1>6 DEF SameCore
  <2>2. \A x \in AllRecs \cup ops : x.id = id => x.key = key
    <3>1. CASE id = nextId + 1
      BY <1>1, <1>9, <3>1
    <3>2. CASE \E e \in ToSet(failed) \cup ToSet(store.ids) : e.key = key /\ e.id = id
      BY <1>3, <3>2 DEF IdsInv, BindInv
    <3> QED BY <1>4, <3>1, <3>2
  <2>3. op.id = id /\ op.key = key
    BY DEF id
  <2> QED BY <2>1, <2>2, <2>3 DEF IdsInv, BindInv
<1>14. HeldInv'
  BY DEF HeldKept, HeldInv
<1>15. SentMeansDelivered'
  BY <1>8, DoneKept DEF IdsInv, HeldKept
<1>16. ASSUME ~ghost'.early PROVE MeantInv'
  <2>1. MeantInv /\ store.loaded /\ Kept = store.ids /\ Records = ToSet(failed) \cup ToSet(store.ids)
    BY <1>16 DEF IdsInv, Kept, Records
  <2>2. ASSUME NEW e \in Records, e.key = key PROVE e.id = id
    BY <1>4, <2>1, <2>2 DEF MeantInv, RecordsInv
  <2>3. ASSUME NEW x \in AllRecs \cup ops, x.id = id PROVE x.key = key
    <3>1. x.id \in 1..nextId
      BY <1>9
    <3>2. PICK e \in ToSet(failed) \cup ToSet(store.ids) : e.key = key /\ e.id = id
      BY <1>1, <1>4, <2>3, <3>1
    <3> QED BY <1>3, <2>3, <3>2 DEF IdsInv, BindInv
  \* The intent of the submission, unless it is excused, is new or the one owed for its key.
  <2>4. ASSUME i \notin Excused'
        PROVE  /\ op.kind = "send" /\ key[1] # New /\ (\A o \in ops : o.key # key)
               /\ i \notin Excused
               /\ \A p \in ghost.owed : p[2] = i => p[1] = key
               /\ \A o \in ops : o.intent # i
    <3>1. op \in OpSet /\ Placed(op)
      BY DEF StepTypes
    <3>2. op.kind = "send" /\ key[1] # New
      BY <2>4, <3>1 DEF OpSet, Placed, Excused, i
    <3>3. (\A o \in ops : o.key # key) /\ i \notin Excused
      BY <1>8, <2>4
    <3>4. CASE i = ghost.intents + 1
      BY <1>1, <1>9, <3>2, <3>3, <3>4
    <3>5. CASE \E p \in ghost.owed : p[1] = key /\ p[2] = i
      BY <2>1, <3>2, <3>3, <3>5 DEF MeantInv, OwedInv
    <3> QED BY <1>5, <3>4, <3>5
  <2>5. OneIdEach'
    <3>1. ASSUME NEW o \in ops', o.intent \notin Excused', NEW c \in Sent', c[1] = o.id
          PROVE  c[2] = o.intent
      <4>1. CASE o = op
        <5>1. i \notin Excused' /\ o.id = id /\ o.intent = i
          BY <3>1, <4>1 DEF i, id
        <5>2. CASE c = <<id, i>>
          BY <5>1, <5>2
        <5>3. CASE c \in Sent
          <6>1. c[1] # nextId + 1
            BY <1>1, <1>10, <5>3
          <6>2. PICK e \in Records : e.key = key /\ e.id = id
            BY <1>4, <2>1, <3>1, <5>1, <6>1
          <6>3. PICK p \in ghost.owed : p[1] = key
            BY <2>1, <2>4, <5>1, <6>2 DEF MeantInv, RecordsInv
          <6>4. PICK q \in ghost.owed : q[1] = key /\ q[2] = i
            BY <1>5, <6>3
          <6> QED BY <2>1, <2>4, <3>1, <5>1, <5>3, <6>2, <6>4 DEF MeantInv, RecordsInv
        <5> QED BY <1>7, <5>2, <5>3
      <4>2. CASE o \in rest
        <5>1. PICK x \in ops : SameCore(o, x)
          BY <1>6, <4>2
        <5>2. x.intent \notin Excused /\ x.intent \notin Excused' /\ c[1] = x.id
          BY <1>8, <3>1, <5>1 DEF SameCore
        <5>3. CASE c \in Sent
          BY <2>1, <5>1, <5>2, <5>3 DEF MeantInv, OneIdEach, SameCore
        <5>4. CASE c = <<id, i>>
          <6>1. x.id = id
            BY <5>2, <5>4
          <6>2. x.key = key
            BY <2>3, <6>1
          <6> QED BY <1>8, <5>2, <6>2
        <5> QED BY <1>7, <5>3, <5>4
      <4> QED BY <4>1, <4>2
    <3>2. ASSUME NEW c \in Sent, c[2] = i, i \notin Excused' \cup ghost'.exposed PROVE c[1] = id
      <4>1. PICK p \in ghost.owed : p[1] = key /\ p[2] = i
        BY <1>1, <1>5, <1>10, <3>2
      <4>2. PICK e \in ToSet(Kept) : e.key = key /\ \A d \in Sent : d[2] = i => d[1] = e.id
        BY <2>1, <2>4, <3>2, <4>1 DEF MeantInv, OwedInv
      <4> QED BY <2>1, <2>2, <3>2, <4>2
    <3>3. ASSUME NEW c \in Sent', NEW d \in Sent', c[2] = d[2], c[2] \notin Excused' \cup ghost'.exposed
          PROVE  c[1] = d[1]
      <4>1. CASE c \in Sent /\ d \in Sent
        BY <1>8, <2>1, <3>3, <4>1 DEF MeantInv, OneIdEach
      <4>2. CASE c = <<id, i>> /\ d \in Sent
        BY <3>2, <3>3, <4>2
      <4>3. CASE c \in Sent /\ d = <<id, i>>
        BY <3>2, <3>3, <4>3
      <4>4. CASE c = <<id, i>> /\ d = <<id, i>>
        BY <4>4
      <4> QED BY <1>7, <4>1, <4>2, <4>3, <4>4
    <3> QED BY <3>1, <3>3 DEF OneIdEach
  <2>6. OwedInv'
    <3>1. ASSUME NEW p \in ghost'.owed, p[2] \notin Excused' \cup ghost'.exposed
          PROVE  \E e \in ToSet(Kept') : e.key = p[1] /\ \A c \in Sent' : c[2] = p[2] => c[1] = e.id
      <4>1. p \in ghost.owed /\ p[1] # key /\ p[2] \notin Excused \cup ghost.exposed
        BY <1>8, <3>1
      <4>2. PICK e \in ToSet(Kept) : e.key = p[1] /\ \A c \in Sent : c[2] = p[2] => c[1] = e.id
        BY <2>1, <4>1 DEF MeantInv, OwedInv
      <4>3. p[2] # i
        BY <2>4, <3>1, <4>1
      <4> QED BY <1>3, <1>7, <4>2, <4>3
    <3>2. ASSUME NEW p \in ghost'.owed, NEW o \in ops', o.key = p[1] \/ o.intent = p[2]
          PROVE  p[2] \in Excused'
      <4>1. p \in ghost.owed /\ p[1] # key
        OBVIOUS
      <4>2. CASE o = op
        BY <2>4, <3>2, <4>1, <4>2 DEF i
      <4>3. CASE o \in rest
        <5>1. PICK x \in ops : SameCore(o, x)
          BY <1>6, <4>3
        <5> QED BY <1>8, <2>1, <3>2, <4>1, <5>1 DEF MeantInv, OwedInv, SameCore
      <4> QED BY <4>2, <4>3
    <3>3. \A p, q \in ghost'.owed : p[2] = q[2] /\ p[2] \notin Excused' => p = q
      BY <1>8, <2>1 DEF MeantInv, OwedInv
    <3> QED BY <3>1, <3>2, <3>3 DEF OwedInv
  <2>7. TwinsInv'
    <3> SUFFICES ASSUME NEW x \in ops', NEW y \in ops', x # y, x.key = y.key \/ x.intent = y.intent
                 PROVE  x.intent \in Excused' /\ y.intent \in Excused'
      BY DEF TwinsInv
    <3>1. ASSUME NEW z \in rest, z.key = key \/ z.intent = i
          PROVE  z.intent \in Excused' /\ i \in Excused'
      <4>1. PICK o \in ops : SameCore(z, o)
        BY <1>6
      <4>2. CASE z.key = key
        BY <1>8, <4>1, <4>2 DEF SameCore
      <4>3. CASE z.intent = i
        BY <2>4, <4>1, <4>3 DEF SameCore
      <4> QED BY <3>1, <4>2, <4>3
    <3>2. CASE x \in rest /\ y \in rest
      <4>1. PICK o \in ops, p \in ops : o # p /\ SameCore(x, o) /\ SameCore(y, p)
        BY <1>6, <3>2
      <4> QED BY <1>8, <2>1, <4>1 DEF MeantInv, TwinsInv, SameCore
    <3>3. CASE x = op /\ y \in rest
      BY <3>1, <3>3 DEF i
    <3>4. CASE x \in rest /\ y = op
      BY <3>1, <3>4 DEF i
    <3> QED BY <3>2, <3>3, <3>4
  <2>8. RecordsInv'
    <3>1. ASSUME NEW e \in Records', e.key[1] # New
          PROVE  (\E p \in ghost'.owed : p[1] = e.key) \/ (\E o \in ops' : o.key = e.key)
      <4>1. CASE e.key = key
        BY <4>1
      <4>2. CASE e.key # key
        <5>1. (\E p \in ghost.owed : p[1] = e.key) \/ (\E o \in ops : o.key = e.key)
          BY <1>3, <2>1, <3>1 DEF MeantInv, RecordsInv
        <5> QED BY <1>6, <4>2, <5>1 DEF SameCore
      <4> QED BY <4>1, <4>2
    <3>2. ASSUME NEW e \in Records', NEW p \in ghost'.owed, e.key = p[1], p[2] \notin Excused',
                 NEW c \in Sent', c[1] = e.id
          PROVE  c[2] = p[2]
      <4>1. p \in ghost.owed /\ p[1] # key /\ e \in Records /\ e \in AllRecs /\ p[2] \notin Excused
        BY <1>3, <1>8, <2>1, <3>2
      <4>2. CASE c \in Sent
        BY <2>1, <3>2, <4>1, <4>2 DEF MeantInv, RecordsInv
      <4>3. CASE c = <<id, i>>
        BY <2>3, <3>2, <4>1, <4>3
      <4> QED BY <1>7, <4>2, <4>3
    <3>3. ASSUME NEW e \in Records', NEW o \in ops', e.key = o.key, o.intent \notin Excused'
          PROVE  e.id = o.id
      <4>1. CASE o = op
        BY <1>3, <2>2, <3>3, <4>1 DEF id
      <4>2. CASE o \in rest
        <5>1. PICK x \in ops : SameCore(o, x)
          BY <1>6, <4>2
        <5> QED BY <1>3, <1>8, <2>1, <3>3, <5>1 DEF MeantInv, RecordsInv, SameCore
      <4> QED BY <4>1, <4>2
    <3>4. \A e, f \in Records' : e.key = f.key => e.id = f.id
      BY <1>3, <2>1 DEF MeantInv, RecordsInv
    <3> QED BY <3>1, <3>2, <3>3, <3>4 DEF RecordsInv
  <2>9. FileInv'
    BY <2>1 DEF MeantInv, FileInv
  <2> QED BY <2>5, <2>6, <2>7, <2>8, <2>9 DEF MeantInv
<1> QED BY <1>12, <1>13, <1>14, <1>15, <1>16 DEF IdsInv

\* Without(q, key) for the ids the phone holds in memory.
LEMMA WithoutTypes ==
    ASSUME ComposerShape, NEW key
    PROVE  /\ Without(failed, key) \in Seq(Recs) /\ Keyed(Without(failed, key))
           /\ Len(Without(failed, key)) <= FailedLimit
           /\ ToSet(Without(failed, key)) = {e \in ToSet(failed) : e.key # key}
           /\ Without(store.ids, key) \in IdFiles
           /\ ToSet(Without(store.ids, key)) = {e \in ToSet(store.ids) : e.key # key}
<1>1. /\ failed \in Seq(Recs) /\ Keyed(failed) /\ Len(failed) <= FailedLimit /\ Len(failed) \in Nat
      /\ store.ids \in Seq(Recs) /\ Keyed(store.ids) /\ Len(store.ids) <= StoreLimit /\ Len(store.ids) \in Nat
      /\ FailedLimit \in Nat /\ StoreLimit \in Nat
  BY ComposerAssumption DEF ComposerShape, IdShape, IdFiles
<1>2. ASSUME NEW q \in Seq(Recs), Keyed(q), NEW n \in Nat, Len(q) <= n
      PROVE  LET r == Without(q, key)
             IN  r \in Seq(Recs) /\ Keyed(r) /\ Len(r) <= n /\ ToSet(r) = {e \in ToSet(q) : e.key # key}
  <2> DEFINE r == Without(q, key)
  <2>1. r \in Seq(Recs) /\ Keyed(r) /\ Len(r) <= Len(q) /\ ToSet(r) = {e \in ToSet(q) : e.key # key}
    BY <1>2, WithoutKey
  <2>2. Len(r) \in Nat /\ Len(q) \in Nat
    BY <2>1
  <2> HIDE DEF r
  <2> QED BY <1>2, <2>1, <2>2 DEF r
<1> QED BY <1>1, <1>2 DEF IdFiles

\* Remember(q, ...) for the same.
LEMMA RememberTypes ==
    ASSUME ComposerShape, NEW op \in ops
    PROVE  LET new == [key |-> op.key, id |-> op.id]
               f == Remember(failed, op.key, op.id, FailedLimit)
               s == Remember(store.ids, op.key, op.id, StoreLimit)
           IN  /\ f \in Seq(Recs) /\ Keyed(f) /\ Len(f) <= FailedLimit
               /\ s \in IdFiles
               /\ new \in ToSet(f) /\ ToSet(f) \subseteq {e \in ToSet(failed) : e.key # op.key} \cup {new}
               /\ new \in ToSet(s) /\ ToSet(s) \subseteq {e \in ToSet(store.ids) : e.key # op.key} \cup {new}
<1>1. /\ failed \in Seq(Recs) /\ Keyed(failed) /\ Len(failed) <= FailedLimit
      /\ store.ids \in Seq(Recs) /\ Keyed(store.ids) /\ Len(store.ids) <= StoreLimit
      /\ FailedLimit \in Nat \ {0} /\ StoreLimit \in Nat \ {0}
  BY ComposerAssumption DEF ComposerShape, IdShape, IdFiles
<1>2. [key |-> op.key, id |-> op.id] \in Recs
  BY DEF ComposerShape, IdShape, OpSet, Recs
<1> DEFINE new == [key |-> op.key, id |-> op.id]
           f == Remember(failed, op.key, op.id, FailedLimit)
           s == Remember(store.ids, op.key, op.id, StoreLimit)
<1>3. /\ f \in Seq(Recs) /\ Keyed(f) /\ Len(f) <= FailedLimit
      /\ new \in ToSet(f) /\ ToSet(f) \subseteq {e \in ToSet(failed) : e.key # op.key} \cup {new}
  BY <1>1, <1>2, RememberKey
<1>4. /\ s \in Seq(Recs) /\ Keyed(s) /\ Len(s) <= StoreLimit
      /\ new \in ToSet(s) /\ ToSet(s) \subseteq {e \in ToSet(store.ids) : e.key # op.key} \cup {new}
  BY <1>1, <1>2, RememberKey
<1> HIDE DEF new, f, s
<1>5. s \in IdFiles
  BY <1>4 DEF IdFiles
<1> QED BY <1>3, <1>4, <1>5 DEF new, f, s

\* A submission fails and its id is recorded; the user is owed it under key.
LEMMA FailStep ==
    ASSUME ComposerShape, IdsInv, StepTypes, NEW op \in ops, NEW key,
           SameOps(ops \ {op}, ops'), SentKept, HeldKept,
           key = op.key \/ op.kind = "create",
           failed' = Remember(failed, op.key, op.id, FailedLimit),
           store' = [store EXCEPT !.ids = Remember(store.ids, op.key, op.id, StoreLimit)],
           saves'.ids = Append(saves.ids, store'.ids), disk'.ids = disk.ids, nextId' = nextId,
           ghost'.intents = ghost.intents, ghost'.done = ghost.done, ghost'.twins = ghost.twins,
           ghost'.created = ghost.created, ghost'.early = ghost.early,
           ghost'.owed = {p \in ghost.owed : p[1] # key} \cup {<<key, op.intent>>},
           ghost'.exposed = ghost.exposed \cup Forgotten(op)
    PROVE  ComposerShape' /\ IdsInv'
<1> DEFINE new == [key |-> op.key, id |-> op.id]
           i == op.intent
<1>1. /\ failed' \in Seq(Recs) /\ Keyed(failed') /\ Len(failed') <= FailedLimit
      /\ ToSet(failed') \subseteq {e \in ToSet(failed) : e.key # op.key} \cup {new}
  BY RememberTypes
<1>2. /\ store' \in [ids : IdFiles, loaded : BOOLEAN] /\ store'.loaded = store.loaded
      /\ store'.ids = Remember(store.ids, op.key, op.id, StoreLimit)
      /\ new \in ToSet(store'.ids)
      /\ ToSet(store'.ids) \subseteq {e \in ToSet(store.ids) : e.key # op.key} \cup {new}
  <2>1. store \in [ids : IdFiles, loaded : BOOLEAN]
    BY DEF ComposerShape, IdShape
  <2>2. store'.loaded = store.loaded /\ store'.ids = Remember(store.ids, op.key, op.id, StoreLimit)
    BY <2>1
  <2> QED BY <2>1, <2>2, RememberTypes
<1>3. new.key = op.key /\ new.id = op.id
  OBVIOUS
<1> HIDE DEF new, i
<1>4. saves.ids \in Seq(IdFiles) /\ store'.ids \in IdFiles
  BY <1>2 DEF ComposerShape, DraftShape
<1>5. /\ ToSet(saves'.ids) = ToSet(saves.ids) \cup {store'.ids} /\ saves'.ids # <<>>
      /\ saves'.ids[Len(saves'.ids)] = store'.ids
  BY <1>4, AppendSet
<1>6. AllRecs' \subseteq AllRecs \cup {new}
  BY <1>1, <1>2, <1>5 DEF AllRecs
<1>7. Sent' \subseteq Sent /\ \A o \in ops : <<o.id, o.intent>> \in Sent
  <2>1. Sent' \subseteq Sent
    BY SentShrinks
  <2> QED BY <2>1 DEF Sent
<1>8. /\ \A x \in ops' : \E o \in ops \ {op} : SameCore(x, o)
      /\ \A o \in ops \ {op} : \E x \in ops' : SameCore(x, o)
      /\ \A x, y \in ops' : x # y => \E o, p \in ops \ {op} : o # p /\ SameCore(x, o) /\ SameCore(y, p)
  BY DEF SameOps
<1>9. Excused' = Excused
  BY DEF Excused
<1>10. op.kind = "create" => i \in Excused /\ op.key[1] = New
  BY DEF ComposerShape, Bounds, OpWell, Excused, i
<1>11. ComposerShape'
  <2>1. nextId' \in Nat /\ nextId' >= nextId /\ ghost'.intents >= ghost.intents
    BY ComposerAssumption DEF ComposerShape, IdShape, Ghosts
  <2>2. \A e \in AllRecs' : e \in AllRecs \/ \E o \in ops : e.id = o.id
    BY <1>3, <1>6
  <2>3. \A p \in ghost'.owed : p \in ghost.owed \/ \E o \in ops : p[2] = o.intent
    OBVIOUS
  <2>4. Bounds'
    BY <1>8, <2>1, <2>2, <2>3, BoundsKept DEF StepTypes
  <2> QED BY <1>1, <1>2, <2>4 DEF ComposerShape, StepTypes, DraftTypes, DraftShape, IdShape
<1>12. BindInv'
  <2>1. \A r \in AllRecs' \cup ops' : \E x \in AllRecs \cup ops : x.id = r.id /\ x.key = r.key
    BY <1>3, <1>6, <1>8 DEF SameCore
  <2> QED BY <2>1 DEF IdsInv, BindInv
<1>13. HeldInv'
  BY DEF HeldKept, HeldInv
<1>14. SentMeansDelivered'
  BY <1>9, DoneKept DEF IdsInv, HeldKept
<1>15. ASSUME ~ghost'.early PROVE MeantInv'
  <2>1. MeantInv
    BY <1>15 DEF IdsInv
  <2>2. store.loaded /\ store'.loaded
    BY <1>2, <2>1 DEF MeantInv, FileInv
  <2>3. Kept = store.ids /\ Kept' = store'.ids
    BY <2>2 DEF Kept
  <2>4. \A e \in Records' : e = new \/ (e \in Records /\ e.key # op.key)
    BY <1>1, <1>2, <2>3 DEF Records
  <2>5. \A o \in ops \ {op} : o.key = op.key \/ o.intent = i => i \in Excused /\ o.intent \in Excused
    BY <2>1 DEF MeantInv, TwinsInv, i
  <2>6. \A p \in ghost.owed : p[1] = op.key \/ p[2] = i => p[2] \in Excused
    BY <2>1 DEF MeantInv, OwedInv, i
  <2>7. \A p \in ghost'.owed : \/ p \in ghost.owed /\ p[1] # key
                               \/ p = <<key, i>> /\ (i \notin Excused => key = op.key)
    BY <1>10 DEF i
  <2>8. OneIdEach'
    <3>1. \A o \in ops' : o.intent \notin Excused => \A c \in Sent' : c[1] = o.id => c[2] = o.intent
      BY <1>7, <1>8, <2>1 DEF MeantInv, OneIdEach, SameCore
    <3>2. \A c, d \in Sent' : c[2] = d[2] /\ c[2] \notin Excused \cup ghost'.exposed => c[1] = d[1]
      BY <1>7, <2>1 DEF MeantInv, OneIdEach
    <3> QED BY <1>9, <3>1, <3>2 DEF OneIdEach
  <2>9. OwedInv'
    <3>1. ASSUME NEW p \in ghost'.owed, p[2] \notin Excused \cup ghost'.exposed
          PROVE  \E e \in ToSet(Kept') : e.key = p[1] /\ \A c \in Sent' : c[2] = p[2] => c[1] = e.id
      <4>1. CASE p = <<key, i>>
        <5>1. key = op.key /\ i \notin Excused \cup ghost.exposed
          BY <2>7, <3>1, <4>1
        <5>2. \A c \in Sent : c[2] = i => c[1] = op.id
          BY <1>7, <2>1, <5>1 DEF MeantInv, OneIdEach, i
        <5> QED BY <1>2, <1>3, <1>7, <2>3, <4>1, <5>1, <5>2
      <4>2. CASE p \in ghost.owed /\ p[1] # key
        <5>1. p[2] \notin Excused \cup ghost.exposed /\ p[1] # op.key
          BY <2>6, <3>1, <4>2
        <5>2. PICK e \in ToSet(Kept) : e.key = p[1] /\ \A c \in Sent : c[2] = p[2] => c[1] = e.id
          BY <2>1, <4>2, <5>1 DEF MeantInv, OwedInv
        <5>3. p[1] \in {f.key : f \in ToSet(store'.ids)}
          BY <1>2, <3>1, <4>2, <5>1 DEF Forgotten
        <5>4. PICK f \in ToSet(store'.ids) : f.key = p[1]
          BY <5>3
        <5>5. f \in ToSet(store.ids)
          BY <1>2, <1>3, <5>1, <5>4
        <5>6. f.id = e.id
          BY <2>1, <2>3, <5>2, <5>4, <5>5 DEF MeantInv, RecordsInv, Records
        <5> QED BY <1>7, <2>3, <5>2, <5>4, <5>6
      <4> QED BY <2>7, <4>1, <4>2
    <3>2. ASSUME NEW p \in ghost'.owed, NEW o \in ops', o.key = p[1] \/ o.intent = p[2]
          PROVE  p[2] \in Excused
      <4>1. PICK x \in ops \ {op} : SameCore(o, x)
        BY <1>8
      <4>2. CASE p = <<key, i>>
        BY <2>5, <2>7, <3>2, <4>1, <4>2 DEF SameCore
      <4>3. CASE p \in ghost.owed
        BY <2>1, <3>2, <4>1, <4>3 DEF MeantInv, OwedInv, SameCore
      <4> QED BY <2>7, <4>2, <4>3
    <3>3. ASSUME NEW p \in ghost'.owed, NEW q \in ghost'.owed, p[2] = q[2], p[2] \notin Excused PROVE p = q
      <4>1. \A r \in ghost.owed : r[2] = i => i \in Excused
        BY <2>6
      <4>2. CASE p \in ghost.owed /\ q \in ghost.owed
        BY <2>1, <3>3, <4>2 DEF MeantInv, OwedInv
      <4>3. CASE p = <<key, i>> \/ q = <<key, i>>
        BY <2>7, <3>3, <4>1, <4>3
      <4> QED BY <2>7, <4>2, <4>3
    <3> QED BY <1>9, <3>1, <3>2, <3>3 DEF OwedInv
  <2>10. TwinsInv'
    <3> SUFFICES ASSUME NEW x \in ops', NEW y \in ops', x # y, x.key = y.key \/ x.intent = y.intent
                 PROVE  x.intent \in Excused /\ y.intent \in Excused
      BY <1>9 DEF TwinsInv
    <3>1. PICK o \in ops, p \in ops : o # p /\ SameCore(x, o) /\ SameCore(y, p)
      BY <1>8
    <3> QED BY <2>1, <3>1 DEF MeantInv, TwinsInv, SameCore
  <2>11. RecordsInv'
    <3>1. ASSUME NEW e \in Records', e.key[1] # New
          PROVE  (\E p \in ghost'.owed : p[1] = e.key) \/ (\E o \in ops' : o.key = e.key)
      <4>1. <<key, i>>[1] = key /\ <<key, i>> \in ghost'.owed
        BY DEF i
      <4>2. CASE e = new
        <5>1. key = e.key
          BY <1>3, <1>10, <3>1, <4>2
        <5> QED BY <4>1, <5>1
      <4>3. CASE e \in Records /\ e.key # op.key
        <5>1. CASE \E p \in ghost.owed : p[1] = e.key
          <6>1. PICK p \in ghost.owed : p[1] = e.key
            BY <5>1
          <6> QED BY <4>1, <6>1
        <5>2. CASE \E o \in ops : o.key = e.key
          BY <1>8, <4>3, <5>2 DEF SameCore
        <5> QED BY <2>1, <3>1, <4>3, <5>1, <5>2 DEF MeantInv, RecordsInv
      <4> QED BY <2>4, <4>2, <4>3
    <3>2. ASSUME NEW e \in Records', NEW p \in ghost'.owed, e.key = p[1], p[2] \notin Excused,
                 NEW c \in Sent', c[1] = e.id
          PROVE  c[2] = p[2]
      <4>1. CASE p = <<key, i>>
        <5>1. key = op.key /\ i \notin Excused /\ e.key = op.key
          BY <2>7, <3>2, <4>1
        <5>2. e.id = op.id
          BY <1>3, <2>4, <5>1
        <5> QED BY <1>7, <2>1, <3>2, <4>1, <5>1, <5>2 DEF MeantInv, OneIdEach, i
      <4>2. CASE p \in ghost.owed
        <5>1. p[1] # op.key
          BY <2>6, <3>2, <4>2
        <5>2. e \in Records
          BY <1>3, <2>4, <3>2, <5>1
        <5> QED BY <1>7, <2>1, <3>2, <4>2, <5>2 DEF MeantInv, RecordsInv
      <4> QED BY <2>7, <4>1, <4>2
    <3>3. ASSUME NEW e \in Records', NEW o \in ops', e.key = o.key, o.intent \notin Excused
          PROVE  e.id = o.id
      <4>1. PICK x \in ops \ {op} : SameCore(o, x)
        BY <1>8
      <4>2. CASE e = new
        BY <1>3, <2>5, <3>3, <4>1, <4>2 DEF SameCore
      <4>3. CASE e \in Records
        BY <2>1, <3>3, <4>1, <4>3 DEF MeantInv, RecordsInv, SameCore
      <4> QED BY <2>4, <4>2, <4>3
    <3>4. \A e, f \in Records' : e.key = f.key => e.id = f.id
      BY <1>3, <2>1, <2>4 DEF MeantInv, RecordsInv
    <3> QED BY <1>9, <3>1, <3>2, <3>3, <3>4 DEF RecordsInv
  <2>12. FileInv'
    BY <1>5, <2>2 DEF FileInv
  <2> QED BY <2>8, <2>9, <2>10, <2>11, <2>12 DEF MeantInv
<1> QED BY <1>11, <1>12, <1>13, <1>14, <1>15 DEF IdsInv

\* A creation fails before the chat exists: nothing is recorded, the user is
\* owed the message, and it is an excused one.
LEMMA UnmadeStep ==
    ASSUME ComposerShape, IdsInv, StepTypes, NEW op \in ops, op.kind = "create",
           SameOps(ops \ {op}, ops'), SentKept, HeldKept,
           UNCHANGED <<failed, store, nextId>>, saves'.ids = saves.ids, disk'.ids = disk.ids,
           ghost'.intents = ghost.intents, ghost'.done = ghost.done, ghost'.twins = ghost.twins,
           ghost'.created = ghost.created, ghost'.early = ghost.early, ghost'.exposed = ghost.exposed,
           ghost'.owed = {p \in ghost.owed : p[1] # op.key} \cup {<<op.key, op.intent>>}
    PROVE  ComposerShape' /\ IdsInv'
<1>1. AllRecs' = AllRecs /\ Kept' = Kept /\ Records' = Records
  BY DEF AllRecs, Kept, Records
<1>2. Sent' \subseteq Sent
  BY SentShrinks
<1>3. /\ \A x \in ops' : \E o \in ops \ {op} : SameCore(x, o)
      /\ \A o \in ops \ {op} : \E x \in ops' : SameCore(x, o)
      /\ \A x, y \in ops' : x # y => \E o, p \in ops \ {op} : o # p /\ SameCore(x, o) /\ SameCore(y, p)
  BY DEF SameOps
<1>4. Excused' = Excused
  BY DEF Excused
<1>5. op.intent \in Excused /\ op.key[1] = New
  BY DEF ComposerShape, Bounds, OpWell, Excused
<1>6. ComposerShape'
  <2>1. nextId' \in Nat /\ nextId' >= nextId /\ ghost'.intents >= ghost.intents
    BY ComposerAssumption DEF ComposerShape, IdShape, Ghosts
  <2>2. \A p \in ghost'.owed : p \in ghost.owed \/ \E o \in ops : p[2] = o.intent
    OBVIOUS
  <2>3. Bounds'
    BY <1>1, <1>3, <2>1, <2>2, BoundsKept DEF StepTypes
  <2> QED BY <2>3 DEF ComposerShape, StepTypes, DraftTypes, DraftShape, IdShape
<1>7. BindInv'
  <2>1. \A r \in AllRecs' \cup ops' : \E x \in AllRecs \cup ops : x.id = r.id /\ x.key = r.key
    BY <1>1, <1>3 DEF SameCore
  <2> QED BY <2>1 DEF IdsInv, BindInv
<1>8. HeldInv'
  BY DEF HeldKept, HeldInv
<1>9. SentMeansDelivered'
  BY <1>4, DoneKept DEF IdsInv, HeldKept
<1>10. ASSUME ~ghost'.early PROVE MeantInv'
  <2>1. MeantInv
    BY <1>10 DEF IdsInv
  <2>2. \A p \in ghost'.owed : p \in ghost.owed \/ p[2] \in Excused
    BY <1>5
  <2>3. OneIdEach'
    BY <1>2, <1>3, <1>4, <2>1 DEF MeantInv, OneIdEach, SameCore
  <2>4. OwedInv'
    <3>1. \A p \in ghost'.owed : p[2] \notin Excused \cup ghost.exposed =>
             \E e \in ToSet(Kept) : e.key = p[1] /\ \A c \in Sent' : c[2] = p[2] => c[1] = e.id
      BY <1>2, <2>1, <2>2 DEF MeantInv, OwedInv
    <3>2. \A p \in ghost'.owed, o \in ops' : o.key = p[1] \/ o.intent = p[2] => p[2] \in Excused
      BY <1>3, <2>1, <2>2 DEF MeantInv, OwedInv, SameCore
    <3>3. \A p, q \in ghost'.owed : p[2] = q[2] /\ p[2] \notin Excused => p = q
      BY <2>1, <2>2 DEF MeantInv, OwedInv
    <3> QED BY <1>1, <1>4, <3>1, <3>2, <3>3 DEF OwedInv
  <2>5. TwinsInv'
    <3> SUFFICES ASSUME NEW x \in ops', NEW y \in ops', x # y, x.key = y.key \/ x.intent = y.intent
                 PROVE  x.intent \in Excused /\ y.intent \in Excused
      BY <1>4 DEF TwinsInv
    <3>1. PICK o \in ops, p \in ops : o # p /\ SameCore(x, o) /\ SameCore(y, p)
      BY <1>3
    <3> QED BY <2>1, <3>1 DEF MeantInv, TwinsInv, SameCore
  <2>6. RecordsInv'
    <3>1. ASSUME NEW e \in Records, e.key[1] # New
          PROVE  (\E p \in ghost'.owed : p[1] = e.key) \/ (\E o \in ops' : o.key = e.key)
      <4>1. e.key # op.key
        BY <1>5, <3>1
      <4>2. (\E p \in ghost.owed : p[1] = e.key) \/ (\E o \in ops : o.key = e.key)
        BY <2>1, <3>1 DEF MeantInv, RecordsInv
      <4> QED BY <1>3, <4>1, <4>2 DEF SameCore
    <3>2. \A e \in Records, p \in ghost'.owed : e.key = p[1] /\ p[2] \notin Excused =>
             \A c \in Sent' : c[1] = e.id => c[2] = p[2]
      BY <1>2, <2>1, <2>2 DEF MeantInv, RecordsInv
    <3>3. \A e \in Records, o \in ops' : e.key = o.key /\ o.intent \notin Excused => e.id = o.id
      BY <1>3, <2>1 DEF MeantInv, RecordsInv, SameCore
    <3> QED BY <1>1, <1>4, <2>1, <3>1, <3>2, <3>3 DEF MeantInv, RecordsInv
  <2>7. FileInv'
    BY <2>1 DEF MeantInv, FileInv
  <2> QED BY <2>3, <2>4, <2>5, <2>6, <2>7 DEF MeantInv
<1> QED BY <1>6, <1>7, <1>8, <1>9, <1>10 DEF IdsInv

\* An operation that the bridge holds is reported as sent.
LEMMA SucceedStep ==
    ASSUME ComposerShape, IdsInv, NEW op \in ops, op.step = "held", Succeed(op),
           ops' = ops \ {op}, ghost' = Finished(op),
           UNCHANGED <<sel, view, restored, disk, late, bridge, nextId>>
    PROVE  ComposerShape' /\ IdsInv' /\ saves'.drafts = saves.drafts
<1>1. /\ ghost \in Ghosts /\ store \in [ids : IdFiles, loaded : BOOLEAN] /\ op.intent \in Nat
      /\ saves \in [drafts : Seq(DraftSet), ids : Seq(IdFiles)] /\ ops \subseteq OpSet
  BY DEF ComposerShape, IdShape, DraftShape, OpSet
<1>2. /\ ghost' \in Ghosts /\ ghost'.intents = ghost.intents /\ ghost'.owed = ghost.owed
      /\ ghost'.done = ghost.done \cup {op.intent} /\ ghost'.twins = ghost.twins
      /\ ghost'.exposed = ghost.exposed /\ ghost'.created = ghost.created /\ ghost'.early = ghost.early
  BY <1>1 DEF Finished, Ghosts
<1>3. /\ failed' \in Seq(Recs) /\ Keyed(failed') /\ Len(failed') <= FailedLimit
      /\ ToSet(failed') = {e \in ToSet(failed) : e.key # op.key}
  BY WithoutTypes DEF Succeed
<1>4. /\ store' \in [ids : IdFiles, loaded : BOOLEAN] /\ store'.loaded = store.loaded
      /\ saves' \in [drafts : Seq(DraftSet), ids : Seq(IdFiles)] /\ saves'.drafts = saves.drafts
      /\ ToSet(store'.ids) = {e \in ToSet(store.ids) : e.key # op.key}
      /\ \/ store' = store /\ saves' = saves
         \/ /\ ToSet(saves'.ids) = ToSet(saves.ids) \cup {store'.ids} /\ saves'.ids # <<>>
            /\ saves'.ids[Len(saves'.ids)] = store'.ids
  <2>1. CASE IdIn(store.ids, op.key) = {}
    <3>1. store' = store /\ saves' = saves
      BY <2>1 DEF Succeed
    <3>2. \A e \in ToSet(store.ids) : e.key # op.key
      BY <2>1 DEF IdIn
    <3> QED BY <1>1, <3>1, <3>2
  <2>2. CASE IdIn(store.ids, op.key) # {}
    <3> DEFINE w == Without(store.ids, op.key)
    <3>1. w \in IdFiles /\ ToSet(w) = {e \in ToSet(store.ids) : e.key # op.key}
      BY WithoutTypes
    <3>2. store' = [store EXCEPT !.ids = w] /\ saves' = [saves EXCEPT !.ids = Append(@, w)]
      BY <2>2 DEF Succeed, StoreTo
    <3> HIDE DEF w
    <3>3. /\ store' \in [ids : IdFiles, loaded : BOOLEAN] /\ store'.loaded = store.loaded /\ store'.ids = w
      BY <1>1, <3>1, <3>2
    <3> DEFINE a == Append(saves.ids, w)
    <3>4. a \in Seq(IdFiles) /\ ToSet(a) = ToSet(saves.ids) \cup {w} /\ a # <<>> /\ a[Len(a)] = w
      BY <1>1, <3>1, AppendSet
    <3>5. saves' = [saves EXCEPT !.ids = a]
      BY <3>2
    <3> HIDE DEF a
    <3>6. saves' \in [drafts : Seq(DraftSet), ids : Seq(IdFiles)] /\ saves'.drafts = saves.drafts /\ saves'.ids = a
      BY <1>1, <3>4, <3>5
    <3> QED BY <3>1, <3>3, <3>4, <3>6
  <2> QED BY <2>1, <2>2
<1>5. AllRecs' \subseteq AllRecs
  <2>1. ToSet(saves'.ids) \subseteq ToSet(saves.ids) \cup {store'.ids}
    BY <1>4
  <2> QED BY <1>3, <1>4, <2>1 DEF AllRecs
<1>6. Sent' \subseteq Sent
  BY DEF Sent
<1>7. Excused' = Excused
  BY <1>2 DEF Excused
<1>8. ComposerShape'
  <2>1. nextId' \in Nat /\ nextId' >= nextId /\ ghost'.intents >= ghost.intents
    BY <1>1, <1>2, ComposerAssumption DEF ComposerShape, IdShape, Ghosts
  <2>2. \A o \in ops' : Placed(o) /\ \E p \in ops : SameCore(o, p)
    BY DEF ComposerShape, Bounds, OpWell, Placed, SameCore
  <2>3. SentKept
    BY DEF SentKept
  <2>4. Bounds'
    BY <1>2, <1>5, <2>1, <2>2, <2>3, BoundsKept
  <2> QED BY <1>2, <1>3, <1>4, <2>4 DEF ComposerShape, DraftShape, IdShape
<1>9. BindInv'
  BY <1>5 DEF IdsInv, BindInv
<1>10. HeldInv'
  BY DEF IdsInv, HeldInv
<1>11. SentMeansDelivered'
  <2>1. ASSUME ~ghost'.early, op.intent \notin Excused'
        PROVE  \E m \in bridge'.delivered : m.intent = op.intent
    <3>1. PICK m \in bridge.delivered : m.id = op.id
      BY DEF IdsInv, HeldInv
    <3>2. <<m.id, m.intent>> \in Sent /\ <<m.id, m.intent>>[1] = op.id /\ <<m.id, m.intent>>[2] = m.intent
      BY <3>1 DEF Sent
    <3>3. m.intent = op.intent
      BY <1>2, <1>7, <2>1, <3>2 DEF IdsInv, MeantInv, OneIdEach
    <3> QED BY <3>1, <3>3
  <2> QED BY <1>2, <1>7, <2>1, DoneKept DEF IdsInv
<1>12. ASSUME ~ghost'.early PROVE MeantInv'
  <2>1. MeantInv
    BY <1>2, <1>12 DEF IdsInv
  <2>2. store.loaded /\ store'.loaded
    BY <1>4, <2>1 DEF MeantInv, FileInv
  <2>3. Kept = store.ids /\ Kept' = store'.ids
    BY <2>2 DEF Kept
  <2>4. Records' = {e \in Records : e.key # op.key}
    BY <1>3, <1>4, <2>3 DEF Records
  <2>5. OneIdEach'
    BY <1>2, <1>6, <1>7, <2>1 DEF MeantInv, OneIdEach
  <2>6. OwedInv'
    <3>1. ASSUME NEW p \in ghost.owed, p[2] \notin Excused \cup ghost.exposed
          PROVE  \E e \in ToSet(Kept') : e.key = p[1] /\ \A c \in Sent' : c[2] = p[2] => c[1] = e.id
      <4>1. PICK e \in ToSet(Kept) : e.key = p[1] /\ \A c \in Sent : c[2] = p[2] => c[1] = e.id
        BY <2>1, <3>1 DEF MeantInv, OwedInv
      <4>2. p[1] # op.key
        BY <2>1, <3>1 DEF MeantInv, OwedInv
      <4> QED BY <1>4, <1>6, <2>3, <4>1, <4>2
    <3> QED BY <1>2, <1>7, <2>1, <3>1 DEF MeantInv, OwedInv
  <2>7. TwinsInv'
    BY <1>7, <2>1 DEF MeantInv, TwinsInv
  <2>8. RecordsInv'
    BY <1>2, <1>6, <1>7, <2>1, <2>4 DEF MeantInv, RecordsInv
  <2>9. FileInv'
    BY <1>4, <2>1, <2>2 DEF MeantInv, FileInv
  <2> QED BY <2>5, <2>6, <2>7, <2>8, <2>9 DEF MeantInv
<1> QED BY <1>4, <1>8, <1>9, <1>10, <1>11, <1>12 DEF IdsInv

-----------------------------------------------------------------------------
(* The file of ids, restarts and time. *)

\* Steps with the operations and messages as they were and fewer records,
\* after which the phone knows a text by the ids it knew it by or forgets owed.
LEMMA FileStep ==
    ASSUME ComposerShape, IdsInv, UNCHANGED <<ops, late, bridge, nextId>>,
           DraftTypes',
           saves' \in [drafts : Seq(DraftSet), ids : Seq(IdFiles)],
           disk' \in [drafts : DraftSet, ids : IdFiles],
           failed' = failed, store' \in [ids : IdFiles, loaded : BOOLEAN],
           ghost' \in Ghosts, ghost'.intents = ghost.intents, ghost'.owed = ghost.owed,
           ghost'.done = ghost.done, ghost'.twins = ghost.twins, ghost'.created = ghost.created,
           ghost.exposed \subseteq ghost'.exposed, ghost.early => ghost'.early,
           AllRecs' \subseteq AllRecs,
           ~ghost'.early /\ MeantInv =>
                /\ Records' \subseteq Records /\ FileInv'
                /\ Kept' = Kept \/ OwedIntents \subseteq ghost'.exposed
    PROVE  ComposerShape' /\ IdsInv'
<1>1. Sent' = Sent /\ Excused' = Excused
  BY DEF Sent, Excused
<1>2. ComposerShape'
  <2>1. nextId' \in Nat /\ nextId' >= nextId /\ ghost'.intents >= ghost.intents
    BY ComposerAssumption DEF ComposerShape, IdShape, Ghosts
  <2>2. \A o \in ops' : Placed(o) /\ \E p \in ops : SameCore(o, p)
    BY DEF ComposerShape, Bounds, OpWell, Placed, SameCore
  <2>3. SentKept
    BY DEF SentKept
  <2>4. Bounds'
    BY <2>1, <2>2, <2>3, BoundsKept
  <2> QED BY <2>4 DEF ComposerShape, DraftTypes, DraftShape, IdShape
<1>3. BindInv' /\ HeldInv'
  BY DEF IdsInv, BindInv, HeldInv
<1>4. SentMeansDelivered'
  BY <1>1, DoneKept DEF IdsInv
<1>5. ASSUME ~ghost'.early PROVE MeantInv'
  <2>1. MeantInv
    BY <1>5 DEF IdsInv
  <2>2. Records' \subseteq Records /\ FileInv' /\ (Kept' = Kept \/ OwedIntents \subseteq ghost'.exposed)
    BY <1>5, <2>1
  <2>3. OneIdEach'
    BY <1>1, <2>1 DEF MeantInv, OneIdEach
  <2>4. OwedInv'
    <3>1. \A p \in ghost.owed : p[2] \in OwedIntents
      BY DEF OwedIntents
    <3>2. \A p \in ghost.owed : p[2] \notin Excused \cup ghost'.exposed =>
             \E e \in ToSet(Kept') : e.key = p[1] /\ \A c \in Sent : c[2] = p[2] => c[1] = e.id
      BY <2>1, <2>2, <3>1 DEF MeantInv, OwedInv
    <3> QED BY <1>1, <2>1, <3>2 DEF MeantInv, OwedInv
  <2>5. TwinsInv'
    BY <1>1, <2>1 DEF MeantInv, TwinsInv
  <2>6. RecordsInv'
    BY <1>1, <2>1, <2>2 DEF MeantInv, RecordsInv
  <2> QED BY <2>2, <2>3, <2>4, <2>5, <2>6 DEF MeantInv
<1> QED BY <1>2, <1>3, <1>4, <1>5 DEF IdsInv

LEMMA StoreLoadedStep ==
    ASSUME ComposerShape, IdsInv, StoreLoaded, DraftTypes' PROVE ComposerShape' /\ IdsInv'
<1>1. /\ ~store.loaded /\ store' = [ids |-> disk.ids, loaded |-> TRUE]
      /\ UNCHANGED <<failed, saves, disk, ops, late, bridge, nextId, ghost>>
  BY DEF StoreLoaded
<1>2. /\ saves \in [drafts : Seq(DraftSet), ids : Seq(IdFiles)]
      /\ disk \in [drafts : DraftSet, ids : IdFiles] /\ ghost \in Ghosts
  BY DEF ComposerShape, DraftShape, IdShape
<1>3. store' \in [ids : IdFiles, loaded : BOOLEAN] /\ store'.ids = disk.ids /\ store'.loaded
  BY <1>1, <1>2
<1>4. AllRecs' \subseteq AllRecs
  BY <1>1, <1>3 DEF AllRecs
<1>5. Kept' = Kept /\ Records' = Records
  BY <1>1, <1>3 DEF Kept, Records
<1>6. MeantInv => FileInv'
  BY <1>1, <1>3 DEF MeantInv, FileInv
<1> QED BY <1>1, <1>2, <1>3, <1>4, <1>5, <1>6, FileStep

LEMMA IdsWrittenStep ==
    ASSUME ComposerShape, IdsInv, NEW ok \in BOOLEAN, IdsWritten(ok), DraftTypes'
    PROVE  /\ ComposerShape' /\ IdsInv'
           /\ saves'.drafts = saves.drafts /\ disk'.drafts = disk.drafts
           /\ ghost'.left = ghost.left /\ ghost'.strayed = ghost.strayed /\ ghost'.clobbered = ghost.clobbered
<1> DEFINE q == saves.ids
           h == Head(saves.ids)
           t == Tail(saves.ids)
<1>1. /\ saves \in [drafts : Seq(DraftSet), ids : Seq(IdFiles)] /\ q \in Seq(IdFiles)
      /\ disk \in [drafts : DraftSet, ids : IdFiles] /\ ghost \in Ghosts
      /\ store \in [ids : IdFiles, loaded : BOOLEAN]
  BY DEF ComposerShape, DraftShape, IdShape
<1>2. /\ q # <<>> /\ saves' = [saves EXCEPT !.ids = t]
      /\ UNCHANGED <<failed, store, ops, late, bridge, nextId>>
  BY DEF IdsWritten
<1>3. /\ t \in Seq(IdFiles) /\ h \in ToSet(q) /\ h \in IdFiles /\ ToSet(t) \subseteq ToSet(q)
      /\ t # <<>> => t[Len(t)] = q[Len(q)]
  BY <1>1, <1>2, TailSet
<1>4. t = <<>> => h = q[Len(q)]
  <2>1. q \in Seq(IdFiles) /\ q # <<>>
    BY <1>1, <1>2
  <2> HIDE DEF q
  <2>2. Len(Tail(q)) = Len(q) - 1 /\ Len(q) \in Nat /\ Head(q) = q[1]
    BY <2>1
  <2>3. Tail(q) = <<>> => Len(Tail(q)) = 0
    BY Zenon, EmptySeq
  <2>4. Tail(q) = <<>> => Len(q) = 1
    BY <2>2, <2>3
  <2> QED BY <2>2, <2>4 DEF q, h, t
<1>5. /\ \/ disk' = [disk EXCEPT !.ids = h] /\ ghost' = ghost
         \/ disk' = disk /\ ghost' = [ghost EXCEPT !.exposed = @ \cup OwedIntents, !.early = TRUE]
  BY DEF IdsWritten
<1> HIDE DEF q, h, t
<1>6. saves' \in [drafts : Seq(DraftSet), ids : Seq(IdFiles)] /\ saves'.drafts = saves.drafts /\ saves'.ids = t
  BY <1>1, <1>2, <1>3
<1>7. /\ disk' \in [drafts : DraftSet, ids : IdFiles] /\ disk'.drafts = disk.drafts
      /\ disk'.ids \in {h, disk.ids}
  BY <1>1, <1>3, <1>5
<1>8. OwedIntents \subseteq Nat
  BY <1>1 DEF OwedIntents, Ghosts
<1> HIDE DEF OwedIntents
<1>9. /\ ghost' \in Ghosts /\ ghost'.intents = ghost.intents /\ ghost'.owed = ghost.owed
      /\ ghost'.done = ghost.done /\ ghost'.twins = ghost.twins /\ ghost'.created = ghost.created
      /\ ghost.exposed \subseteq ghost'.exposed /\ (ghost.early => ghost'.early)
      /\ ghost'.left = ghost.left /\ ghost'.strayed = ghost.strayed /\ ghost'.clobbered = ghost.clobbered
      /\ ghost' = ghost \/ ghost'.early
  <2>1. CASE ghost' = ghost
    BY <1>1, <2>1
  <2>2. CASE ghost' = [ghost EXCEPT !.exposed = @ \cup OwedIntents, !.early = TRUE]
    BY <1>1, <1>8, <2>2 DEF Ghosts
  <2> QED BY <1>5, <2>1, <2>2
<1>10. AllRecs' \subseteq AllRecs
  BY <1>2, <1>3, <1>6, <1>7 DEF AllRecs, q
<1>11. ASSUME ~ghost'.early, MeantInv
       PROVE  Records' = Records /\ FileInv' /\ Kept' = Kept
  <2>1. disk'.ids = h
    <3>1. ~(disk' = disk /\ ghost' = [ghost EXCEPT !.exposed = @ \cup OwedIntents, !.early = TRUE])
      BY <1>1, <1>11 DEF Ghosts
    <3> QED BY <1>1, <1>5, <3>1
  <2>2. store.loaded /\ q[Len(q)] = store.ids
    BY <1>2, <1>11 DEF MeantInv, FileInv, q
  <2>3. Kept' = Kept /\ Records' = Records
    BY <1>2, <2>2 DEF Kept, Records
  <2> QED BY <1>2, <1>3, <1>4, <1>6, <2>1, <2>2, <2>3 DEF FileInv
<1> QED BY <1>1, <1>2, <1>6, <1>7, <1>9, <1>10, <1>11, FileStep

LEMMA DayPassesStep ==
    ASSUME ComposerShape, IdsInv, DayPasses, DraftTypes'
    PROVE  /\ ComposerShape' /\ IdsInv'
           /\ saves'.drafts = saves.drafts /\ disk'.drafts = disk.drafts
           /\ ghost'.left = ghost.left /\ ghost'.strayed = ghost.strayed /\ ghost'.clobbered = ghost.clobbered
<1> DEFINE n == Len(saves.ids)
           q == [i \in 1..n |-> <<>>]
<1>1. /\ saves \in [drafts : Seq(DraftSet), ids : Seq(IdFiles)] /\ n \in Nat
      /\ disk \in [drafts : DraftSet, ids : IdFiles] /\ ghost \in Ghosts
      /\ store \in [ids : IdFiles, loaded : BOOLEAN]
  BY DEF ComposerShape, DraftShape, IdShape
<1>2. /\ store' = [store EXCEPT !.ids = <<>>] /\ disk' = [disk EXCEPT !.ids = <<>>]
      /\ saves' = [saves EXCEPT !.ids = q]
      /\ ghost' = [ghost EXCEPT !.exposed = @ \cup OwedIntents]
      /\ UNCHANGED <<failed, ops, late, bridge, nextId>>
  BY DEF DayPasses
<1>3. <<>> \in IdFiles /\ ToSet(<<>>) = {}
  BY ComposerAssumption DEF IdFiles, Keyed, ToSet
<1>4. /\ q \in Seq(IdFiles) /\ Len(q) = n /\ (\A i \in 1..n : q[i] = <<>>) /\ ToSet(q) \subseteq {<<>>}
  BY <1>1, <1>3 DEF ToSet
<1>5. saves.ids = <<>> <=> n = 0
  BY <1>1
<1>6. q = <<>> <=> n = 0
  <2> HIDE DEF q
  <2> QED BY <1>4
<1> HIDE DEF q
<1>7. /\ saves' \in [drafts : Seq(DraftSet), ids : Seq(IdFiles)] /\ saves'.drafts = saves.drafts /\ saves'.ids = q
      /\ disk' \in [drafts : DraftSet, ids : IdFiles] /\ disk'.drafts = disk.drafts /\ disk'.ids = <<>>
      /\ store' \in [ids : IdFiles, loaded : BOOLEAN] /\ store'.loaded = store.loaded /\ store'.ids = <<>>
  BY <1>1, <1>2, <1>3, <1>4
<1>8. OwedIntents \subseteq Nat
  BY <1>1 DEF OwedIntents, Ghosts
<1> HIDE DEF OwedIntents
<1>9. /\ ghost' \in Ghosts /\ ghost'.intents = ghost.intents /\ ghost'.owed = ghost.owed
      /\ ghost'.done = ghost.done /\ ghost'.twins = ghost.twins /\ ghost'.created = ghost.created
      /\ ghost'.exposed = ghost.exposed \cup OwedIntents /\ ghost'.early = ghost.early
      /\ ghost'.left = ghost.left /\ ghost'.strayed = ghost.strayed /\ ghost'.clobbered = ghost.clobbered
  BY <1>1, <1>2, <1>8 DEF Ghosts
<1>10. AllRecs' \subseteq AllRecs
  BY <1>2, <1>3, <1>4, <1>7 DEF AllRecs
<1>11. Records' \subseteq Records
  BY <1>2, <1>3, <1>7 DEF Kept, Records
<1>12. ASSUME MeantInv PROVE FileInv'
  <2>1. q # <<>> => q[Len(q)] = <<>>
    BY <1>1, <1>4, <1>6
  <2>2. saves.ids = <<>> => q = <<>>
    BY <1>5, <1>6
  <2> QED BY <1>2, <1>7, <1>12, <2>1, <2>2 DEF MeantInv, FileInv
<1> QED BY <1>1, <1>2, <1>7, <1>9, <1>10, <1>11, <1>12, FileStep

LEMMA RestartStep ==
    ASSUME ComposerShape, IdsInv, Restart, DraftTypes' PROVE ComposerShape' /\ IdsInv'
<1> DEFINE inFlight == {<<o.key, o.intent>> : o \in ops}
           unknown == {o.intent : o \in {x \in ops : IdIn(store.ids, x.key) = {}}}
           gone == (IF saves.ids = <<>> THEN {} ELSE OwedIntents) \cup unknown
<1>1. /\ saves \in [drafts : Seq(DraftSet), ids : Seq(IdFiles)] /\ ops \subseteq OpSet
      /\ disk \in [drafts : DraftSet, ids : IdFiles] /\ ghost \in Ghosts
      /\ store \in [ids : IdFiles, loaded : BOOLEAN]
  BY DEF ComposerShape, DraftShape, IdShape
<1>2. /\ failed' = <<>> /\ ops' = {} /\ store' = [ids |-> <<>>, loaded |-> FALSE]
      /\ saves' = [drafts |-> <<>>, ids |-> <<>>] /\ UNCHANGED <<disk, late, bridge, nextId>>
      /\ ghost' = [ghost EXCEPT !.owed = @ \cup inFlight,
                                !.exposed = @ \cup (IF saves.ids = <<>> THEN {} ELSE OwedIntents) \cup unknown,
                                !.early = @ \/ saves.ids # <<>>,
                                !.left = disk.drafts]
  BY DEF Restart
<1>3. /\ <<>> \in IdFiles /\ ToSet(<<>>) = {} /\ <<>> \in Seq(Recs) /\ Keyed(<<>>) /\ Len(<<>>) <= FailedLimit
  BY ComposerAssumption DEF IdFiles, Keyed, ToSet
<1>4. /\ store' \in [ids : IdFiles, loaded : BOOLEAN] /\ store'.ids = <<>> /\ ~store'.loaded
      /\ saves' \in [drafts : Seq(DraftSet), ids : Seq(IdFiles)] /\ saves'.ids = <<>>
  BY <1>2, <1>3
<1>5. inFlight \subseteq Keys \X Nat /\ gone \subseteq Nat /\ disk.drafts \in DraftSet
  BY <1>1 DEF OpSet, OwedIntents, Ghosts
<1>6. \A p \in inFlight : \E o \in ops : p[1] = o.key /\ p[2] = o.intent
  OBVIOUS
<1>7. \A o \in ops : <<o.key, o.intent>> \in inFlight /\ (o.intent \notin gone => IdIn(store.ids, o.key) # {})
  OBVIOUS
<1>8. ghost'.exposed = ghost.exposed \cup gone /\ ghost'.early = (ghost.early \/ saves.ids # <<>>)
  BY <1>1, <1>2 DEF Ghosts
<1> HIDE DEF inFlight, gone, unknown
<1>9. /\ ghost'.intents = ghost.intents /\ ghost'.owed = ghost.owed \cup inFlight
      /\ ghost'.done = ghost.done /\ ghost'.twins = ghost.twins /\ ghost'.created = ghost.created
      /\ ghost'.left = disk.drafts /\ ghost'.strayed = ghost.strayed /\ ghost'.clobbered = ghost.clobbered
      /\ DOMAIN ghost' = DOMAIN ghost
  BY <1>1, <1>2 DEF Ghosts
<1>10. ghost' \in Ghosts
  <2>1. ghost' = [intents |-> ghost.intents, owed |-> ghost.owed \cup inFlight, done |-> ghost.done,
                  twins |-> ghost.twins, exposed |-> ghost.exposed \cup gone, created |-> ghost.created,
                  early |-> (ghost.early \/ saves.ids # <<>>), left |-> disk.drafts,
                  strayed |-> ghost.strayed, clobbered |-> ghost.clobbered]
    BY <1>1, <1>2, <1>8, <1>9 DEF Ghosts
  <2> QED BY <1>1, <1>5, <2>1 DEF Ghosts
<1>11. AllRecs' \subseteq AllRecs
  BY <1>2, <1>3, <1>4 DEF AllRecs
<1>12. Sent' \subseteq Sent /\ Excused' = Excused /\ \A o \in ops : <<o.id, o.intent>> \in Sent
  BY <1>2, <1>9 DEF Sent, Excused
<1>13. ComposerShape'
  <2>1. nextId' \in Nat /\ nextId' >= nextId /\ ghost'.intents >= ghost.intents
    BY <1>1, <1>2, <1>9, ComposerAssumption DEF ComposerShape, IdShape, Ghosts
  <2>2. SentKept /\ \A p \in ghost'.owed : p \in ghost.owed \/ \E o \in ops : p[2] = o.intent
    BY <1>2, <1>6, <1>9 DEF SentKept
  <2>3. Bounds'
    BY <1>2, <1>9, <1>10, <1>11, <2>1, <2>2, BoundsKept
  <2> QED BY <1>1, <1>2, <1>3, <1>4, <1>10, <2>3 DEF ComposerShape, DraftTypes, DraftShape, IdShape
<1>14. BindInv' /\ HeldInv'
  BY <1>2, <1>11 DEF IdsInv, BindInv, HeldInv
<1>15. SentMeansDelivered'
  BY <1>2, <1>8, <1>9, <1>12, DoneKept DEF IdsInv
<1>16. ASSUME ~ghost'.early PROVE MeantInv'
  <2>1. MeantInv /\ saves.ids = <<>>
    BY <1>8, <1>16 DEF IdsInv
  <2>2. Kept' = Kept /\ Records' \subseteq Records
    BY <1>2, <1>3, <1>4, <2>1 DEF MeantInv, FileInv, Kept, Records
  <2>3. ASSUME NEW o \in ops PROVE store.loaded
    BY <2>1 DEF MeantInv, FileInv
  <2>4. OneIdEach'
    BY <1>2, <1>8, <1>12, <2>1 DEF MeantInv, OneIdEach
  <2>5. OwedInv'
    <3>1. ASSUME NEW p \in ghost'.owed, p[2] \notin Excused \cup ghost'.exposed
          PROVE  \E e \in ToSet(Kept) : e.key = p[1] /\ \A c \in Sent' : c[2] = p[2] => c[1] = e.id
      <4>1. CASE p \in ghost.owed
        BY <1>8, <1>12, <2>1, <3>1, <4>1 DEF MeantInv, OwedInv
      <4>2. CASE p \in inFlight
        <5>1. PICK o \in ops : p[1] = o.key /\ p[2] = o.intent
          BY <1>6, <4>2
        <5>2. IdIn(store.ids, o.key) # {} /\ o.intent \notin Excused \cup ghost.exposed
          BY <1>7, <1>8, <3>1, <5>1
        <5>3. PICK e \in ToSet(store.ids) : e.key = o.key
          BY <5>2 DEF IdIn
        <5>4. e \in ToSet(Kept) /\ e \in Records
          BY <2>3, <5>3 DEF Kept, Records
        <5>5. e.id = o.id
          BY <2>1, <5>2, <5>3, <5>4 DEF MeantInv, RecordsInv
        <5>6. \A c \in Sent : c[2] = o.intent => c[1] = o.id
          BY <1>12, <2>1, <5>2 DEF MeantInv, OneIdEach
        <5> QED BY <1>12, <5>1, <5>3, <5>4, <5>5, <5>6
      <4> QED BY <1>9, <4>1, <4>2
    <3>2. ASSUME NEW p \in ghost'.owed, NEW q \in ghost'.owed, p[2] = q[2], p[2] \notin Excused PROVE p = q
      <4>1. CASE p \in ghost.owed /\ q \in ghost.owed
        BY <2>1, <3>2, <4>1 DEF MeantInv, OwedInv
      <4>2. CASE p \in ghost.owed /\ q \in inFlight
        BY <1>6, <2>1, <3>2, <4>2 DEF MeantInv, OwedInv
      <4>3. CASE p \in inFlight /\ q \in ghost.owed
        BY <1>6, <2>1, <3>2, <4>3 DEF MeantInv, OwedInv
      <4>4. CASE p \in inFlight /\ q \in inFlight
        <5>1. PICK o \in ops : p = <<o.key, o.intent>>
          BY <4>4 DEF inFlight
        <5>2. PICK x \in ops : q = <<x.key, x.intent>>
          BY <4>4 DEF inFlight
        <5>3. o = x
          BY <2>1, <3>2, <5>1, <5>2 DEF MeantInv, TwinsInv
        <5> QED BY <5>1, <5>2, <5>3
      <4> QED BY <1>9, <4>1, <4>2, <4>3, <4>4
    <3> QED BY <1>2, <1>12, <2>2, <3>1, <3>2 DEF OwedInv
  <2>6. TwinsInv'
    BY <1>2 DEF TwinsInv
  <2>7. RecordsInv'
    <3>1. ASSUME NEW e \in Records, e.key[1] # New PROVE \E p \in ghost'.owed : p[1] = e.key
      <4>1. CASE \E p \in ghost.owed : p[1] = e.key
        BY <1>9, <4>1
      <4>2. CASE \E o \in ops : o.key = e.key
        <5>1. PICK o \in ops : o.key = e.key
          BY <4>2
        <5>2. <<o.key, o.intent>> \in ghost'.owed /\ <<o.key, o.intent>>[1] = e.key
          BY <1>7, <1>9, <5>1
        <5> QED BY <5>2
      <4> QED BY <2>1, <3>1, <4>1, <4>2 DEF MeantInv, RecordsInv
    <3>2. ASSUME NEW e \in Records, NEW p \in ghost'.owed, e.key = p[1], p[2] \notin Excused,
                 NEW c \in Sent, c[1] = e.id
          PROVE  c[2] = p[2]
      <4>1. CASE p \in ghost.owed
        BY <2>1, <3>2, <4>1 DEF MeantInv, RecordsInv
      <4>2. CASE p \in inFlight
        <5>1. PICK o \in ops : p[1] = o.key /\ p[2] = o.intent
          BY <1>6, <4>2
        <5>2. e.id = o.id
          BY <2>1, <3>2, <5>1 DEF MeantInv, RecordsInv
        <5> QED BY <2>1, <3>2, <5>1, <5>2 DEF MeantInv, OneIdEach
      <4> QED BY <1>9, <4>1, <4>2
    <3> QED BY <1>2, <1>12, <2>1, <2>2, <3>1, <3>2 DEF MeantInv, RecordsInv
  <2>8. FileInv'
    BY <1>2, <1>4 DEF FileInv
  <2> QED BY <2>4, <2>5, <2>6, <2>7, <2>8 DEF MeantInv
<1> QED BY <1>13, <1>14, <1>15, <1>16 DEF IdsInv

-----------------------------------------------------------------------------
(* Every action is one of the steps above. *)

\* Operations that stay, fresh or not.
LEMMA StayingOps ==
    ASSUME ComposerShape, IdsInv, NEW a, a \subseteq ops, NEW b \in {a, Unfresh(a)}
    PROVE  /\ b \subseteq OpSet /\ SameOps(a, b) /\ \A o \in b : Placed(o)
           /\ \A o \in b : o.step = "held" => \E m \in bridge.delivered : m.id = o.id
<1>1. a \subseteq OpSet
  BY DEF ComposerShape, IdShape
<1>2. \A o \in a : Placed(o) /\ (o.step = "held" => \E m \in bridge.delivered : m.id = o.id)
  BY DEF ComposerShape, Bounds, OpWell, Placed, IdsInv, HeldInv
<1>3. b \subseteq OpSet /\ SameOps(a, b)
      /\ \A x \in b : \E o \in a : SameCore(x, o) /\ x.step = o.step /\ x.scope = o.scope
  <2>1. CASE b = a
    BY <1>1, <2>1, SameOpsSelf DEF SameCore
  <2>2. CASE b = Unfresh(a)
    BY <1>1, <2>2, UnfreshOps
  <2> QED BY <2>1, <2>2
<1>4. \A x, o : Placed(o) /\ SameCore(x, o) /\ x.step = o.step /\ x.scope = o.scope => Placed(x)
  BY DEF Placed, SameCore
<1>5. \A x \in b : Placed(x)
  BY <1>2, <1>3, <1>4
<1>6. \A x \in b : x.step = "held" => \E m \in bridge.delivered : m.id = x.id
  BY <1>2, <1>3 DEF SameCore
<1> QED BY <1>3, <1>5, <1>6

LEMMA BridgeTypes ==
    ASSUME ComposerShape, IdsInv
    PROVE  /\ bridge \in [delivered : SUBSET Messages, made : SUBSET (1..MaxIds)]
           /\ late \subseteq Requests /\ Once(bridge.delivered) /\ ghost \in Ghosts
           /\ saves \in [drafts : Seq(DraftSet), ids : Seq(IdFiles)]
           /\ disk \in [drafts : DraftSet, ids : IdFiles]
           /\ ops \subseteq OpSet /\ \A i \in 1..nextId : i \in 1..MaxIds
BY ComposerAssumption DEF ComposerShape, DraftShape, IdShape, IdsInv, HeldInv

\* Steps of the screen, of which the bridge knows nothing.
LEMMA ScreenStep ==
    ASSUME ComposerShape, IdsInv, DraftTypes', ops' \in {ops, Unfresh(ops)},
           UNCHANGED <<failed, store, late, bridge, nextId>>,
           saves' \in [drafts : Seq(DraftSet), ids : Seq(IdFiles)], saves'.ids = saves.ids,
           disk' \in [drafts : DraftSet, ids : IdFiles], disk'.ids = disk.ids,
           ghost' \in Ghosts, SameMeant
    PROVE  ComposerShape' /\ IdsInv'
<1>1. /\ ops' \subseteq OpSet /\ SameOps(ops, ops') /\ \A o \in ops' : Placed(o)
      /\ \A o \in ops' : o.step = "held" => \E m \in bridge.delivered : m.id = o.id
  BY StayingOps
<1>2. SentKept
  BY DEF SentKept
<1>3. HeldKept
  BY <1>1, BridgeTypes DEF HeldKept
<1>4. StepTypes
  BY <1>1, BridgeTypes DEF StepTypes, SameMeant
<1> QED BY <1>1, <1>2, <1>3, <1>4, QuietStep

\* An operation moves on to its next step.
LEMMA MovedStep ==
    ASSUME ComposerShape, IdsInv, DraftTypes', NEW op \in ops, NEW new \in OpSet,
           NEW rest \in {ops \ {op}, Unfresh(ops \ {op})}, ops' = rest \cup {new},
           SameCore(new, op), Placed(new),
           UNCHANGED <<failed, store, late, nextId, saves, disk>>,
           bridge' \in [delivered : SUBSET Messages, made : SUBSET (1..MaxIds)],
           bridge.delivered \subseteq bridge'.delivered, Once(bridge'.delivered),
           \A m \in bridge'.delivered : m \in bridge.delivered \/ (m.id = op.id /\ m.intent = op.intent),
           new.step = "held" => \E m \in bridge'.delivered : m.id = new.id,
           ghost' \in Ghosts, SameMeant
    PROVE  ComposerShape' /\ IdsInv'
<1>1. /\ rest \subseteq OpSet /\ SameOps(ops \ {op}, rest) /\ \A o \in rest : Placed(o)
      /\ \A o \in rest : o.step = "held" => \E m \in bridge.delivered : m.id = o.id
  <2>1. ops \ {op} \subseteq ops
    OBVIOUS
  <2> QED BY <2>1, StayingOps
<1>2. SameOps(ops, ops')
  BY <1>1, BridgeTypes, MovedOps
<1>3. SentKept
  BY DEF SentKept
<1>4. HeldKept
  BY <1>1 DEF HeldKept
<1>5. StepTypes
  BY <1>1, BridgeTypes DEF StepTypes, SameMeant
<1> QED BY <1>2, <1>3, <1>4, <1>5, QuietStep

LEMMA DeliverFacts ==
    ASSUME NEW id \in Nat, NEW intent \in Nat, NEW chat \in Scopes, Once(bridge.delivered),
           bridge \in [delivered : SUBSET Messages, made : SUBSET (1..MaxIds)]
    PROVE  LET b == Deliver(id, intent, chat)
           IN  /\ b \in [delivered : SUBSET Messages, made : SUBSET (1..MaxIds)]
               /\ bridge.delivered \subseteq b.delivered /\ Once(b.delivered)
               /\ \A m \in b.delivered : m \in bridge.delivered \/ (m.id = id /\ m.intent = intent)
               /\ \E m \in b.delivered : m.id = id
<1> DEFINE new == [id |-> id, intent |-> intent, chat |-> chat]
           b == Deliver(id, intent, chat)
<1>1. new \in Messages /\ new.id = id /\ new.intent = intent
  BY DEF Messages
<1>2. CASE \E m \in bridge.delivered : m.id = id
  <2>1. b = bridge
    BY <1>2 DEF Deliver
  <2> QED BY <1>2, <2>1
<1>3. CASE ~\E m \in bridge.delivered : m.id = id
  <2>1. b = [bridge EXCEPT !.delivered = @ \cup {new}]
    BY <1>3 DEF Deliver
  <2> HIDE DEF new
  <2>2. b \in [delivered : SUBSET Messages, made : SUBSET (1..MaxIds)] /\ b.delivered = bridge.delivered \cup {new}
    BY <1>1, <2>1
  <2> HIDE DEF b
  <2>3. Once(b.delivered)
    BY <1>1, <1>3, <2>2 DEF Once
  <2> QED BY <1>1, <2>2, <2>3 DEF b
<1> QED BY <1>2, <1>3

LEMMA GiveUpFacts ==
    ASSUME ComposerShape, NEW op \in ops, GiveUp(op)
    PROVE  late' \subseteq Requests /\ \A r \in late' : r \in late \/ (r.id = op.id /\ r.intent = op.intent)
<1> DEFINE kind == IF op.kind = "create" /\ op.step = "wire" THEN "create" ELSE "send"
           request == [id |-> op.id, intent |-> op.intent, scope |-> op.scope, kind |-> kind]
<1>1. request \in Requests /\ request.id = op.id /\ request.intent = op.intent
  BY DEF ComposerShape, IdShape, OpSet, Requests
<1>2. late' = late \/ late' = late \cup {request}
  BY DEF GiveUp
<1> HIDE DEF request
<1> QED BY <1>1, <1>2 DEF ComposerShape, IdShape

LEMMA AcceptStep ==
    ASSUME ComposerShape, IdsInv, DraftTypes', NEW op \in ops,
           op.kind = "send" \/ op.step = "turn",
           bridge' = Deliver(op.id, op.intent, op.scope),
           ops' = (ops \ {op}) \cup {[op EXCEPT !.step = "held"]},
           UNCHANGED <<failed, store, saves, disk, late, nextId, ghost>>
    PROVE  ComposerShape' /\ IdsInv'
<1> DEFINE new == [op EXCEPT !.step = "held"]
<1>1. op \in OpSet /\ Placed(op)
  BY BridgeTypes DEF ComposerShape, Bounds, OpWell, Placed
<1>2. new \in OpSet /\ SameCore(new, op) /\ new.step = "held" /\ new.scope = op.scope
  BY <1>1 DEF OpSet, SameCore
<1> HIDE DEF new
<1>3. Placed(new)
  BY <1>1, <1>2 DEF Placed, SameCore
<1>4. /\ bridge' \in [delivered : SUBSET Messages, made : SUBSET (1..MaxIds)]
      /\ bridge.delivered \subseteq bridge'.delivered /\ Once(bridge'.delivered)
      /\ \A m \in bridge'.delivered : m \in bridge.delivered \/ (m.id = op.id /\ m.intent = op.intent)
      /\ \E m \in bridge'.delivered : m.id = op.id
  <2>1. op.id \in Nat /\ op.intent \in Nat /\ op.scope \in Scopes
    BY <1>1 DEF OpSet
  <2> QED BY <2>1, BridgeTypes, DeliverFacts
<1>5. \E m \in bridge'.delivered : m.id = new.id
  BY <1>2, <1>4 DEF SameCore
<1>6. SameMeant /\ ghost' \in Ghosts
  BY BridgeTypes DEF SameMeant
<1>7. ops' = (ops \ {op}) \cup {new}
  BY DEF new
<1> QED BY <1>2, <1>3, <1>4, <1>5, <1>6, <1>7, MovedStep

LEMMA BridgeCreatesStep ==
    ASSUME ComposerShape, IdsInv, DraftTypes', NEW op \in ops, BridgeCreates(op)
    PROVE  ComposerShape' /\ IdsInv'
<1> DEFINE new == [op EXCEPT !.step = "made"]
<1>1. op \in OpSet /\ Placed(op) /\ op.id \in 1..MaxIds
  BY BridgeTypes DEF ComposerShape, Bounds, OpWell, Placed
<1>2. new \in OpSet /\ SameCore(new, op) /\ new.step = "made" /\ new.scope = op.scope
  BY <1>1 DEF OpSet, SameCore
<1>3. /\ op.kind = "create" /\ op.step = "wire" /\ ops' = (ops \ {op}) \cup {new}
      /\ bridge' = [bridge EXCEPT !.made = @ \cup {op.id}]
      /\ UNCHANGED <<failed, store, saves, disk, late, nextId, ghost>>
  BY DEF BridgeCreates
<1> HIDE DEF new
<1>4. Placed(new)
  BY <1>1, <1>2, <1>3 DEF Placed, SameCore
<1>5. /\ bridge' \in [delivered : SUBSET Messages, made : SUBSET (1..MaxIds)]
      /\ bridge'.delivered = bridge.delivered /\ Once(bridge'.delivered)
  BY <1>1, <1>3, BridgeTypes
<1>6. SameMeant /\ ghost' \in Ghosts
  BY <1>3, BridgeTypes DEF SameMeant
<1> QED BY <1>2, <1>3, <1>4, <1>5, <1>6, MovedStep

LEMMA ChatCreatedStep ==
    ASSUME ComposerShape, IdsInv, DraftTypes', NEW op \in ops, ChatCreated(op)
    PROVE  ComposerShape' /\ IdsInv'
<1> DEFINE adopt == sel \in {New, op.scope}
           new == [op EXCEPT !.step = "turn", !.scope = Made(op.id), !.adopted = adopt]
           rest == IF adopt THEN Unfresh(ops \ {op}) ELSE ops \ {op}
<1>1. op \in OpSet /\ Placed(op) /\ op.id \in 1..MaxIds
  BY BridgeTypes DEF ComposerShape, Bounds, OpWell, Placed
<1>2. adopt \in BOOLEAN /\ Made(op.id) \in Scopes
  BY <1>1, ScopesOfIds
<1>3. /\ op.kind = "create" /\ op.step = "made" /\ ops' = rest \cup {new}
      /\ UNCHANGED <<failed, store, saves, disk, late, bridge, nextId>>
  BY DEF ChatCreated
<1>4. \/ ghost' = ghost
      \/ ghost' = [ghost EXCEPT !.strayed = @ \/ Strays,
                                !.clobbered = IF restored = NoText THEN @ ELSE @ \cup {sel'}]
  BY DEF ChatCreated
<1>5. rest \in {ops \ {op}, Unfresh(ops \ {op})}
  OBVIOUS
<1> HIDE DEF adopt, rest
<1>6. new \in OpSet /\ SameCore(new, op) /\ new.step = "turn" /\ new.scope = Made(op.id)
  BY <1>1, <1>2 DEF OpSet, SameCore
<1> HIDE DEF new
<1>7. Placed(new)
  BY <1>1, <1>3, <1>6 DEF Placed, SameCore
<1>8. SameMeant /\ ghost' \in Ghosts
  <2>1. ghost \in Ghosts /\ sel' \in Scopes /\ Strays \in BOOLEAN
    BY BridgeTypes DEF DraftTypes, Strays, ComposerShape, DraftShape, Views
  <2> DEFINE s == ghost.strayed \/ Strays
             c == IF restored = NoText THEN ghost.clobbered ELSE ghost.clobbered \cup {sel'}
  <2>2. s \in BOOLEAN /\ c \subseteq Scopes
    BY <2>1 DEF Ghosts
  <2>3. ghost' = ghost \/ ghost' = [ghost EXCEPT !.strayed = s, !.clobbered = c]
    BY <1>4
  <2> HIDE DEF s, c
  <2>4. CASE ghost' = ghost
    BY <2>1, <2>4 DEF SameMeant
  <2>5. CASE ghost' = [ghost EXCEPT !.strayed = s, !.clobbered = c]
    BY <2>1, <2>2, <2>5 DEF SameMeant, Ghosts
  <2> QED BY <2>3, <2>4, <2>5
<1> QED BY <1>3, <1>5, <1>6, <1>7, <1>8, BridgeTypes, MovedStep

LEMMA LateArrivalStep ==
    ASSUME ComposerShape, IdsInv, DraftTypes', NEW r \in late, LateArrival(r)
    PROVE  ComposerShape' /\ IdsInv'
<1>1. /\ late' = late \ {r} /\ UNCHANGED <<failed, store, saves, disk, ops, nextId, ghost>>
      /\ \/ bridge' = [bridge EXCEPT !.made = @ \cup {r.id}]
         \/ bridge' = Deliver(r.id, r.intent, r.scope)
  BY DEF LateArrival
<1>2. r \in Requests /\ r.id \in 1..MaxIds
  BY BridgeTypes DEF ComposerShape, Bounds
<1>3. /\ bridge' \in [delivered : SUBSET Messages, made : SUBSET (1..MaxIds)]
      /\ bridge.delivered \subseteq bridge'.delivered /\ Once(bridge'.delivered)
      /\ \A m \in bridge'.delivered : m \in bridge.delivered \/ (m.id = r.id /\ m.intent = r.intent)
  <2>1. CASE bridge' = [bridge EXCEPT !.made = @ \cup {r.id}]
    BY <1>2, <2>1, BridgeTypes
  <2>2. CASE bridge' = Deliver(r.id, r.intent, r.scope)
    <3>1. r.id \in Nat /\ r.intent \in Nat /\ r.scope \in Scopes
      BY <1>2 DEF Requests
    <3> QED BY <2>2, <3>1, BridgeTypes, DeliverFacts
  <2> QED BY <1>1, <2>1, <2>2
<1>4. SameOps(ops, ops') /\ SameMeant
  BY <1>1, SameOpsSelf DEF SameMeant
<1>5. SentKept
  BY <1>1, <1>3 DEF SentKept
<1>6. HeldKept
  BY <1>1, <1>3 DEF HeldKept, IdsInv, HeldInv
<1>7. StepTypes
  <2>1. \A o \in ops : Placed(o)
    BY DEF ComposerShape, Bounds, OpWell, Placed
  <2> QED BY <1>1, <1>3, <2>1, BridgeTypes DEF StepTypes
<1> QED BY <1>1, <1>4, <1>5, <1>6, <1>7, QuietStep

\* Steps that change no more of what the user meant than the drafts.
LEMMA TypeStep ==
    ASSUME ComposerShape, IdsInv, DraftTypes', NEW t \in TextOrNone, TypeDraft(t)
    PROVE  ComposerShape' /\ IdsInv'
<1> DEFINE l == UpdateDraftEntries(ghost.left, sel, t)
<1>1. /\ ops' = Unfresh(ops) /\ ghost' = [ghost EXCEPT !.left = l]
      /\ UNCHANGED <<failed, store, saves, disk, late, bridge, nextId>>
  BY DEF TypeDraft
<1>2. ghost \in Ghosts /\ l \in DraftSet
  BY BridgeTypes, UpdatedEntries DEF ComposerShape, DraftShape, Ghosts
<1> HIDE DEF l
<1>3. ghost' \in Ghosts /\ SameMeant
  BY <1>1, <1>2 DEF Ghosts, SameMeant
<1> QED BY <1>1, <1>3, BridgeTypes, ScreenStep

LEMMA MoveStep ==
    ASSUME ComposerShape, IdsInv, DraftTypes', NEW s \in Scopes, MoveTo(s)
    PROVE  ComposerShape' /\ IdsInv'
<1> DEFINE st == ghost.strayed \/ Strays
           cl == IF restored = NoText THEN ghost.clobbered ELSE ghost.clobbered \cup {s}
<1>1. /\ ops' = Unfresh(ops) /\ ghost' = [ghost EXCEPT !.strayed = st, !.clobbered = cl]
      /\ UNCHANGED <<failed, store, saves, disk, late, bridge, nextId>>
  BY DEF MoveTo
<1>2. ghost \in Ghosts /\ st \in BOOLEAN /\ cl \subseteq Scopes
  BY BridgeTypes DEF Strays, ComposerShape, DraftShape, Views, Ghosts
<1> HIDE DEF st, cl
<1>3. ghost' \in Ghosts /\ SameMeant
  BY <1>1, <1>2 DEF Ghosts, SameMeant
<1> QED BY <1>1, <1>3, BridgeTypes, ScreenStep

LEMMA LoadedStep ==
    ASSUME ComposerShape, IdsInv, DraftTypes', DraftsLoaded PROVE ComposerShape' /\ IdsInv'
<1>1. /\ ops' \in {ops, Unfresh(ops)}
      /\ UNCHANGED <<failed, store, saves, disk, late, bridge, nextId, ghost>>
  BY DEF DraftsLoaded
<1>2. ghost' \in Ghosts /\ SameMeant
  BY <1>1, BridgeTypes DEF SameMeant
<1> QED BY <1>1, <1>2, BridgeTypes, ScreenStep

LEMMA PersistStep ==
    ASSUME ComposerShape, IdsInv, DraftTypes', PersistDrafts,
           saves'.drafts \in Seq(DraftSet), saves'.ids = saves.ids
    PROVE  ComposerShape' /\ IdsInv'
<1>1. UNCHANGED <<failed, store, disk, ops, late, bridge, nextId, ghost>>
  BY DEF PersistDrafts
<1>2. ghost' \in Ghosts /\ SameMeant
  BY <1>1, BridgeTypes DEF SameMeant
<1>3. saves' \in [drafts : Seq(DraftSet), ids : Seq(IdFiles)]
  BY BridgeTypes DEF PersistDrafts
<1> QED BY <1>1, <1>2, <1>3, BridgeTypes, ScreenStep

LEMMA WrittenStep ==
    ASSUME ComposerShape, IdsInv, DraftTypes', NEW ok \in BOOLEAN, DraftsWritten(ok),
           saves'.drafts \in Seq(DraftSet), saves'.ids = saves.ids,
           disk'.drafts \in DraftSet, disk'.ids = disk.ids
    PROVE  ComposerShape' /\ IdsInv'
<1>1. UNCHANGED <<failed, store, ops, late, bridge, nextId, ghost>>
  BY DEF DraftsWritten
<1>2. ghost' \in Ghosts /\ SameMeant
  BY <1>1, BridgeTypes DEF SameMeant
<1>3. saves' \in [drafts : Seq(DraftSet), ids : Seq(IdFiles)]
  BY BridgeTypes DEF DraftsWritten
<1>4. disk' \in [drafts : DraftSet, ids : IdFiles]
  <2>1. disk' = disk \/ disk' = [disk EXCEPT !.drafts = Head(saves.drafts)]
    BY DEF DraftsWritten
  <2>2. disk' = disk \/ disk' = [disk EXCEPT !.drafts = disk'.drafts]
    BY <2>1, BridgeTypes
  <2> QED BY <2>2, BridgeTypes
<1> QED BY <1>1, <1>2, <1>3, <1>4, BridgeTypes, ScreenStep

\* What a submission does to what the user meant.
LEMMA MeantByFacts ==
    ASSUME ComposerShape, IdsInv, NEW key \in Keys
    PROVE  LET g == MeantBy(key)
               i == IntentOf(key)
           IN  /\ g \in Ghosts
               /\ g.intents = (IF i > ghost.intents THEN i ELSE ghost.intents)
               /\ g.owed = {p \in ghost.owed : p[1] # key}
               /\ g.done = ghost.done /\ g.exposed = ghost.exposed /\ g.created = ghost.created
               /\ ghost.twins \subseteq g.twins
               /\ \A o \in ops : o.key = key => i \in g.twins /\ o.intent \in g.twins
               /\ g.early = (ghost.early \/ ~store.loaded)
               /\ i \in Nat
<1> DEFINE i == IntentOf(key)
           g == MeantBy(key)
           same == {o \in ops : o.key = key}
           tw == IF same = {} THEN ghost.twins ELSE ghost.twins \cup {i} \cup {o.intent : o \in same}
           n == IF i > ghost.intents THEN i ELSE ghost.intents
           ow == {p \in ghost.owed : p[1] # key}
           ea == ghost.early \/ ~store.loaded
           le == UpdateDraftEntries(ghost.left, key[1], NoText)
<1>1. g = [ghost EXCEPT !.intents = n, !.owed = ow, !.twins = tw, !.early = ea, !.left = le]
  BY DEF MeantBy
<1>2. ghost \in Ghosts /\ ops \subseteq OpSet
  BY BridgeTypes
<1>3. i \in Nat /\ n \in Nat
  BY <1>2, IntentFacts DEF Ghosts
<1>4. ow \subseteq Keys \X Nat /\ ea \in BOOLEAN
  BY <1>2 DEF Ghosts, ComposerShape, IdShape
<1>5. /\ tw \subseteq Nat /\ ghost.twins \subseteq tw
      /\ \A o \in ops : o.key = key => i \in tw /\ o.intent \in tw
  <2>1. \A o \in ops : o.intent \in Nat
    BY <1>2 DEF OpSet
  <2> HIDE DEF i
  <2>2. \A o \in ops : o.key = key => o \in same
    OBVIOUS
  <2> QED BY <1>2, <1>3, <2>1, <2>2 DEF Ghosts
<1>6. le \in DraftSet
  <2>1. ghost.left \in DraftSet /\ key[1] \in Scopes /\ NoText \in TextOrNone
    BY <1>2 DEF Ghosts, Keys, TextOrNone
  <2> QED BY <2>1, UpdatedEntries
<1> HIDE DEF tw, n, ow, ea, le, i
<1>7. /\ g \in Ghosts /\ g.intents = n /\ g.owed = ow /\ g.twins = tw /\ g.early = ea
      /\ g.done = ghost.done /\ g.exposed = ghost.exposed /\ g.created = ghost.created
  <2>1. g = [intents |-> n, owed |-> ow, done |-> ghost.done, twins |-> tw, exposed |-> ghost.exposed,
             created |-> ghost.created, early |-> ea, left |-> le, strayed |-> ghost.strayed,
             clobbered |-> ghost.clobbered]
    BY <1>1, <1>2 DEF Ghosts
  <2> HIDE DEF g
  <2>2. g \in Ghosts
    BY <1>2, <1>3, <1>4, <1>5, <1>6, <2>1 DEF Ghosts
  <2> QED BY <2>1, <2>2
<1> HIDE DEF g
<1> QED BY <1>3, <1>5, <1>7 DEF n, ow, ea, i, g

LEMMA SendStep ==
    ASSUME ComposerShape, IdsInv, DraftTypes', SendMessage PROVE ComposerShape' /\ IdsInv'
<1> DEFINE key == <<sel, view.text>>
           op == Begin("send", sel, key)
<1>1. /\ sel # New /\ BeginId(key) <= MaxIds
      /\ nextId' = (IF BeginId(key) > nextId THEN BeginId(key) ELSE nextId)
      /\ failed' = Without(failed, key) /\ ops' = Unfresh(ops) \cup {op} /\ ghost' = MeantBy(key)
      /\ UNCHANGED <<store, saves, disk, late, bridge>>
  BY DEF SendMessage, IdsLeft
<1>2. key \in Keys /\ key[1] = sel /\ sel \in Scopes
  BY DEF SendMessage, ComposerShape, DraftShape, Views, TextOrNone, Keys
<1>3. /\ op.id = BeginId(key) /\ op.key = key /\ op.intent = IntentOf(key) /\ op.kind = "send"
      /\ op.scope = sel /\ op.step = "wire"
  BY DEF Begin
<1>4. BeginId(key) \in Nat /\ IntentOf(key) \in Nat
  <2>1. nextId \in Nat /\ ghost.intents \in Nat
    BY ComposerAssumption DEF ComposerShape, IdShape, Ghosts
  <2> HIDE DEF key
  <2> QED BY <2>1, BeginIdFacts, IntentFacts
<1>5. op \in OpSet
  BY <1>2, <1>4 DEF Begin, OpSet
<1> HIDE DEF key, op
<1>6. Placed(op)
  BY <1>1, <1>2, <1>3 DEF Placed
<1>7. /\ ghost' \in Ghosts
      /\ ghost'.intents = (IF op.intent > ghost.intents THEN op.intent ELSE ghost.intents)
      /\ ghost'.owed = {p \in ghost.owed : p[1] # key}
      /\ ghost'.done = ghost.done /\ ghost'.exposed = ghost.exposed /\ ghost'.created = ghost.created
      /\ ghost.twins \subseteq ghost'.twins
      /\ \A o \in ops : o.key = key => op.intent \in ghost'.twins /\ o.intent \in ghost'.twins
      /\ ghost'.early = (ghost.early \/ ~store.loaded)
  BY <1>1, <1>2, <1>3, MeantByFacts
<1>8. /\ Unfresh(ops) \subseteq OpSet /\ SameOps(ops, Unfresh(ops)) /\ \A o \in Unfresh(ops) : Placed(o)
      /\ \A o \in Unfresh(ops) : o.step = "held" => \E m \in bridge.delivered : m.id = o.id
  BY StayingOps
<1>9. HeldKept
  BY <1>1, <1>3, <1>8, BridgeTypes DEF HeldKept
<1>10. StepTypes
  BY <1>1, <1>5, <1>6, <1>7, <1>8, BridgeTypes DEF StepTypes
<1> QED BY <1>1, <1>3, <1>7, <1>8, <1>9, <1>10, BeginStep

LEMMA CreateStep ==
    ASSUME ComposerShape, IdsInv, DraftTypes', CreateChat PROVE ComposerShape' /\ IdsInv'
<1> DEFINE key == <<New, view.text>>
           op == Begin("create", Pending(BeginId(key)), key)
           g == MeantBy(key)
<1>1. /\ BeginId(key) <= MaxIds /\ nextId' = (IF op.id > nextId THEN op.id ELSE nextId)
      /\ failed' = Without(failed, key) /\ ops' = Unfresh(ops) \cup {op}
      /\ ghost' = [g EXCEPT !.created = @ \cup {op.intent}]
      /\ UNCHANGED <<store, saves, disk, late, bridge>>
  BY DEF CreateChat, IdsLeft
<1>2. key \in Keys /\ key[1] = New
  BY NewIsScope DEF CreateChat, ComposerShape, DraftShape, Views, TextOrNone, Keys
<1>3. /\ op.id = BeginId(key) /\ op.key = key /\ op.intent = IntentOf(key) /\ op.kind = "create"
      /\ op.scope = Pending(BeginId(key)) /\ op.step = "wire"
  BY DEF Begin
<1>4. BeginId(key) \in 1..MaxIds /\ BeginId(key) \in Nat /\ IntentOf(key) \in Nat
  <2>1. nextId \in Nat /\ ghost.intents \in Nat /\ MaxIds \in Nat
    BY ComposerAssumption DEF ComposerShape, IdShape, Ghosts
  <2> HIDE DEF key
  <2> QED BY <1>1, <2>1, BeginIdFacts, IntentFacts
<1>5. op \in OpSet
  <2>1. Pending(BeginId(key)) \in Scopes
    BY <1>4, ScopesOfIds
  <2> QED BY <1>2, <1>4, <2>1 DEF Begin, OpSet
<1> HIDE DEF key, op
<1>6. Placed(op)
  BY <1>2, <1>3 DEF Placed
<1>7. /\ g \in Ghosts
      /\ g.intents = (IF op.intent > ghost.intents THEN op.intent ELSE ghost.intents)
      /\ g.owed = {p \in ghost.owed : p[1] # key}
      /\ g.done = ghost.done /\ g.exposed = ghost.exposed /\ g.created = ghost.created
      /\ ghost.twins \subseteq g.twins
      /\ \A o \in ops : o.key = key => op.intent \in g.twins /\ o.intent \in g.twins
      /\ g.early = (ghost.early \/ ~store.loaded)
      /\ op.intent \in Nat
  BY <1>2, <1>3, MeantByFacts
<1> HIDE DEF g
<1>8. /\ ghost' \in Ghosts /\ ghost'.intents = g.intents /\ ghost'.owed = g.owed /\ ghost'.done = g.done
      /\ ghost'.exposed = g.exposed /\ ghost'.created = g.created \cup {op.intent}
      /\ ghost'.twins = g.twins /\ ghost'.early = g.early
  BY <1>1, <1>7 DEF Ghosts
<1>9. /\ Unfresh(ops) \subseteq OpSet /\ SameOps(ops, Unfresh(ops)) /\ \A o \in Unfresh(ops) : Placed(o)
      /\ \A o \in Unfresh(ops) : o.step = "held" => \E m \in bridge.delivered : m.id = o.id
  BY StayingOps
<1>10. HeldKept
  BY <1>1, <1>3, <1>9, BridgeTypes DEF HeldKept
<1>11. StepTypes
  BY <1>1, <1>5, <1>6, <1>7, <1>8, <1>9, BridgeTypes DEF StepTypes
<1> QED BY <1>1, <1>3, <1>7, <1>8, <1>9, <1>10, <1>11, BeginStep

\* What Fail(op) leaves in memory and hands to the file.
LEMMA FailFacts ==
    ASSUME ComposerShape, IdsInv, NEW op \in ops, Fail(op)
    PROVE  /\ failed' = Remember(failed, op.key, op.id, FailedLimit)
           /\ store' = [store EXCEPT !.ids = Remember(store.ids, op.key, op.id, StoreLimit)]
           /\ saves' \in [drafts : Seq(DraftSet), ids : Seq(IdFiles)] /\ saves'.drafts = saves.drafts
           /\ saves'.ids = Append(saves.ids, store'.ids)
<1> DEFINE s == Remember(store.ids, op.key, op.id, StoreLimit)
           a == Append(saves.ids, s)
<1>1. /\ failed' = Remember(failed, op.key, op.id, FailedLimit)
      /\ store' = [store EXCEPT !.ids = s] /\ saves' = [saves EXCEPT !.ids = Append(@, s)]
  BY DEF Fail, StoreTo
<1>2. s \in IdFiles
  BY RememberTypes
<1>3. store'.ids = s
  BY <1>1 DEF ComposerShape, IdShape
<1> HIDE DEF s
<1>4. a \in Seq(IdFiles)
  BY <1>2, BridgeTypes, AppendSet
<1>5. saves' = [saves EXCEPT !.ids = a]
  BY <1>1
<1> HIDE DEF a
<1>6. saves' \in [drafts : Seq(DraftSet), ids : Seq(IdFiles)] /\ saves'.drafts = saves.drafts /\ saves'.ids = a
  BY <1>4, <1>5, BridgeTypes
<1> QED BY <1>1, <1>3, <1>6 DEF a, s

\* A request given up on is of the operation it was made for.
LEMMA GivenUp ==
    ASSUME ComposerShape, IdsInv, NEW op \in ops, GiveUp(op), bridge' = bridge,
           ops' \in {ops \ {op}, Unfresh(ops \ {op})}
    PROVE  /\ SameOps(ops \ {op}, ops') /\ SentKept /\ HeldKept
           /\ ops' \subseteq OpSet /\ (\A o \in ops' : Placed(o)) /\ late' \subseteq Requests
<1>1. ops \ {op} \subseteq ops
  OBVIOUS
<1>2. /\ ops' \subseteq OpSet /\ SameOps(ops \ {op}, ops') /\ \A o \in ops' : Placed(o)
      /\ \A o \in ops' : o.step = "held" => \E m \in bridge.delivered : m.id = o.id
  BY <1>1, StayingOps
<1>3. late' \subseteq Requests /\ \A r \in late' : r \in late \/ (r.id = op.id /\ r.intent = op.intent)
  BY GiveUpFacts
<1>4. SentKept
  BY <1>3 DEF SentKept
<1>5. HeldKept
  BY <1>2, BridgeTypes DEF HeldKept
<1> QED BY <1>2, <1>3, <1>4, <1>5

\* The user is owed the message of op under key, and may have it back in scope s.
LEMMA OwedGhost ==
    ASSUME ComposerShape, IdsInv, NEW op \in ops, NEW key \in Keys, NEW left \in DraftSet,
           ghost' = [ghost EXCEPT !.owed = {p \in @ : p[1] # key} \cup {<<key, op.intent>>},
                                  !.exposed = @ \cup Forgotten(op), !.left = left]
    PROVE  /\ ghost' \in Ghosts
           /\ ghost'.intents = ghost.intents /\ ghost'.done = ghost.done /\ ghost'.twins = ghost.twins
           /\ ghost'.created = ghost.created /\ ghost'.early = ghost.early
           /\ ghost'.owed = {p \in ghost.owed : p[1] # key} \cup {<<key, op.intent>>}
           /\ ghost'.exposed = ghost.exposed \cup Forgotten(op)
<1> DEFINE ow == {p \in ghost.owed : p[1] # key} \cup {<<key, op.intent>>}
           ex == ghost.exposed \cup Forgotten(op)
<1>1. ghost \in Ghosts /\ op.intent \in Nat
  BY BridgeTypes DEF OpSet
<1>2. ow \subseteq Keys \X Nat
  BY <1>1 DEF Ghosts
<1>3. ex \subseteq Nat
  BY <1>1 DEF Forgotten, Ghosts
<1>4. ghost' = [ghost EXCEPT !.owed = ow, !.exposed = ex, !.left = left]
  OBVIOUS
<1> HIDE DEF ow, ex
<1>5. /\ ghost' \in Ghosts /\ ghost'.owed = ow /\ ghost'.exposed = ex
      /\ ghost'.intents = ghost.intents /\ ghost'.done = ghost.done /\ ghost'.twins = ghost.twins
      /\ ghost'.created = ghost.created /\ ghost'.early = ghost.early
  <2> DEFINE g == [intents |-> ghost.intents, owed |-> ow, done |-> ghost.done, twins |-> ghost.twins,
                   exposed |-> ex, created |-> ghost.created, early |-> ghost.early, left |-> left,
                   strayed |-> ghost.strayed, clobbered |-> ghost.clobbered]
  <2>1. ghost' = g
    BY <1>1, <1>4 DEF Ghosts
  <2>2. g \in Ghosts
    BY <1>1, <1>2, <1>3 DEF Ghosts
  <2>3. /\ g.owed = ow /\ g.exposed = ex /\ g.intents = ghost.intents /\ g.done = ghost.done
        /\ g.twins = ghost.twins /\ g.created = ghost.created /\ g.early = ghost.early
    OBVIOUS
  <2> HIDE DEF g
  <2> QED BY <2>1, <2>2, <2>3
<1> QED BY <1>5 DEF ow, ex

LEMMA SendFailsStep ==
    ASSUME ComposerShape, IdsInv, DraftTypes', NEW op \in ops, SendFails(op)
    PROVE  ComposerShape' /\ IdsInv'
<1> DEFINE left == IF MayRestore(op) THEN UpdateDraftEntries(ghost.left, sel, op.key[2]) ELSE ghost.left
<1>1. /\ GiveUp(op) /\ Fail(op) /\ UNCHANGED <<disk, bridge, nextId>>
      /\ ops' \in {ops \ {op}, Unfresh(ops \ {op})}
      /\ ghost' = [ghost EXCEPT !.owed = {p \in @ : p[1] # op.key} \cup {<<op.key, op.intent>>},
                                !.exposed = @ \cup Forgotten(op), !.left = left]
  BY DEF SendFails, AfterEdit
<1>2. op.key \in Keys /\ op.key[2] \in TextOrNone /\ sel \in Scopes /\ ghost.left \in DraftSet
  BY BridgeTypes DEF OpSet, Keys, TextOrNone, ComposerShape, DraftShape, Ghosts
<1>3. left \in DraftSet
  BY <1>2, UpdatedEntries
<1> HIDE DEF left
<1>4. /\ ghost' \in Ghosts
      /\ ghost'.intents = ghost.intents /\ ghost'.done = ghost.done /\ ghost'.twins = ghost.twins
      /\ ghost'.created = ghost.created /\ ghost'.early = ghost.early
      /\ ghost'.owed = {p \in ghost.owed : p[1] # op.key} \cup {<<op.key, op.intent>>}
      /\ ghost'.exposed = ghost.exposed \cup Forgotten(op)
  BY <1>1, <1>2, <1>3, OwedGhost
<1>5. /\ failed' = Remember(failed, op.key, op.id, FailedLimit)
      /\ store' = [store EXCEPT !.ids = Remember(store.ids, op.key, op.id, StoreLimit)]
      /\ saves' \in [drafts : Seq(DraftSet), ids : Seq(IdFiles)]
      /\ saves'.ids = Append(saves.ids, store'.ids)
  BY <1>1, FailFacts
<1>6. /\ SameOps(ops \ {op}, ops') /\ SentKept /\ HeldKept
      /\ ops' \subseteq OpSet /\ (\A o \in ops' : Placed(o)) /\ late' \subseteq Requests
  BY <1>1, GivenUp
<1>7. StepTypes
  BY <1>1, <1>4, <1>5, <1>6, BridgeTypes DEF StepTypes
<1> QED BY <1>1, <1>4, <1>5, <1>6, <1>7, FailStep

LEMMA MadeStep ==
    ASSUME ComposerShape, IdsInv, DraftTypes', NEW op \in ops, CreateFailsMade(op)
    PROVE  ComposerShape' /\ IdsInv'
<1> DEFINE back == op.adopted /\ sel = op.scope /\ view.text = NoText
           key == IF back THEN <<sel, op.key[2]>> ELSE op.key
           left == IF back THEN UpdateDraftEntries(ghost.left, sel, op.key[2]) ELSE ghost.left
<1>1. /\ GiveUp(op) /\ Fail(op) /\ UNCHANGED <<disk, bridge, nextId>> /\ op.kind = "create"
      /\ ops' \in {ops \ {op}, Unfresh(ops \ {op})}
      /\ ghost' = [ghost EXCEPT !.owed = {p \in @ : p[1] # key} \cup {<<key, op.intent>>},
                                !.exposed = @ \cup Forgotten(op), !.left = left]
  BY DEF CreateFailsMade
<1>2. /\ op.key \in Keys /\ op.key[2] \in TextOrNone /\ sel \in Scopes /\ ghost.left \in DraftSet
      /\ op.key[2] \in Texts \ {NoText}
  BY BridgeTypes DEF OpSet, Keys, TextOrNone, ComposerShape, DraftShape, Ghosts
<1>3. left \in DraftSet /\ key \in Keys
  BY <1>2, UpdatedEntries DEF Keys
<1> HIDE DEF left, key, back
<1>4. /\ ghost' \in Ghosts
      /\ ghost'.intents = ghost.intents /\ ghost'.done = ghost.done /\ ghost'.twins = ghost.twins
      /\ ghost'.created = ghost.created /\ ghost'.early = ghost.early
      /\ ghost'.owed = {p \in ghost.owed : p[1] # key} \cup {<<key, op.intent>>}
      /\ ghost'.exposed = ghost.exposed \cup Forgotten(op)
  BY <1>1, <1>2, <1>3, OwedGhost
<1>5. /\ failed' = Remember(failed, op.key, op.id, FailedLimit)
      /\ store' = [store EXCEPT !.ids = Remember(store.ids, op.key, op.id, StoreLimit)]
      /\ saves' \in [drafts : Seq(DraftSet), ids : Seq(IdFiles)]
      /\ saves'.ids = Append(saves.ids, store'.ids)
  BY <1>1, FailFacts
<1>6. /\ SameOps(ops \ {op}, ops') /\ SentKept /\ HeldKept
      /\ ops' \subseteq OpSet /\ (\A o \in ops' : Placed(o)) /\ late' \subseteq Requests
  BY <1>1, GivenUp
<1>7. StepTypes
  BY <1>1, <1>4, <1>5, <1>6, BridgeTypes DEF StepTypes
<1> QED BY <1>1, <1>4, <1>5, <1>6, <1>7, FailStep

LEMMA CreateFailsUnmadeStep ==
    ASSUME ComposerShape, IdsInv, DraftTypes', NEW op \in ops, CreateFailsUnmade(op)
    PROVE  ComposerShape' /\ IdsInv'
<1> DEFINE ow == {p \in ghost.owed : p[1] # op.key} \cup {<<op.key, op.intent>>}
           le == UpdateDraftEntries(ghost.left, New, op.key[2])
           st == ghost.strayed \/ Strays
           cl == ghost.clobbered \cup {sel'}
<1>1. /\ GiveUp(op) /\ UNCHANGED <<failed, store, saves, disk, bridge, nextId>> /\ op.kind = "create"
      /\ ops' = Unfresh(ops \ {op})
      /\ ghost' = [ghost EXCEPT !.owed = ow, !.left = le, !.strayed = st, !.clobbered = cl]
  BY DEF CreateFailsUnmade
<1>2. /\ op.key \in Keys /\ op.key[2] \in TextOrNone /\ ghost \in Ghosts /\ op.intent \in Nat
      /\ Strays \in BOOLEAN /\ sel' \in Scopes
  BY BridgeTypes DEF OpSet, Keys, TextOrNone, ComposerShape, DraftShape, DraftTypes, Strays, Views
<1>3. ow \subseteq Keys \X Nat /\ st \in BOOLEAN /\ cl \subseteq Scopes
  BY <1>2 DEF Ghosts
<1>4. le \in DraftSet
  <2>1. ghost.left \in DraftSet
    BY <1>2 DEF Ghosts
  <2> QED BY <1>2, <2>1, UpdatedEntries, NewIsScope
<1> HIDE DEF le, st, cl, ow
<1>5. /\ ghost' \in Ghosts
      /\ ghost'.intents = ghost.intents /\ ghost'.done = ghost.done /\ ghost'.twins = ghost.twins
      /\ ghost'.created = ghost.created /\ ghost'.early = ghost.early /\ ghost'.exposed = ghost.exposed
      /\ ghost'.owed = ow
  BY <1>1, <1>2, <1>3, <1>4 DEF Ghosts
<1>6. /\ SameOps(ops \ {op}, ops') /\ SentKept /\ HeldKept
      /\ ops' \subseteq OpSet /\ (\A o \in ops' : Placed(o)) /\ late' \subseteq Requests
  BY <1>1, GivenUp
<1>7. StepTypes
  BY <1>1, <1>5, <1>6, BridgeTypes DEF StepTypes
<1>8. ghost'.owed = {p \in ghost.owed : p[1] # op.key} \cup {<<op.key, op.intent>>}
  BY <1>5 DEF ow
<1> QED BY <1>1, <1>5, <1>6, <1>7, <1>8, UnmadeStep

-----------------------------------------------------------------------------
(* The theorems. *)

ComposerInv == ComposerShape /\ DraftsInv /\ IdsInv

LEMMA InitInv == ASSUME Init PROVE ComposerInv
<1>1. /\ <<>> \in IdFiles /\ ToSet(<<>>) = {} /\ <<>> \in Seq(Recs) /\ Keyed(<<>>) /\ Len(<<>>) <= FailedLimit
      /\ <<>> \in Seq(IdFiles) /\ <<>> \in Seq(DraftSet) /\ <<>> \in DraftSet
      /\ NoText \in TextOrNone /\ \A s : Entry(<<>>, s) = NoText
  BY ComposerAssumption, NoDrafts DEF IdFiles, Keyed, ToSet, TextOrNone
<1>2. DraftShape
  BY <1>1, NewIsScope DEF Init, DraftShape, Views
<1>3. ghost \in Ghosts /\ ~ghost.strayed /\ ghost.left = <<>> /\ ghost.owed = {} /\ ghost.done = {}
  BY <1>1 DEF Init, Ghosts
<1>4. IdShape
  BY <1>1, <1>3, ComposerAssumption DEF Init, IdShape
<1>5. AllRecs = {} /\ Records = {} /\ Sent = {} /\ ops = {}
  BY <1>1 DEF Init, AllRecs, Records, Kept, Sent
<1>6. Bounds
  BY <1>3, <1>5 DEF Init, Bounds
<1>7. CleanInv /\ OwnInv
  BY <1>1 DEF Init, CleanInv, CleanMeansSaved, OwnInv
<1>8. HomeInv
  BY <1>1 DEF Init, HomeInv, HomeDrafts, Good
<1>9. LeftInv
  BY <1>1, <1>3 DEF LeftInv
<1>10. BindInv /\ HeldInv /\ SentMeansDelivered
  BY <1>3, <1>5 DEF Init, BindInv, HeldInv, Once, SentMeansDelivered
<1>11. MeantInv
  BY <1>3, <1>5 DEF Init, MeantInv, OneIdEach, OwedInv, TwinsInv, RecordsInv, FileInv
<1> QED BY <1>2, <1>4, <1>6, <1>7, <1>8, <1>9, <1>10, <1>11 DEF ComposerInv, ComposerShape, DraftsInv, IdsInv

\* Steps that leave the drafts alone and at most move an operation on.
LEMMA DraftsAside ==
    ASSUME ComposerInv, UNCHANGED <<sel, view, restored>>,
           saves'.drafts = saves.drafts, disk'.drafts = disk.drafts,
           ghost'.left = ghost.left, ghost'.strayed = ghost.strayed, ghost'.clobbered = ghost.clobbered,
           \/ ops' = ops
           \/ \E op \in ops : ops' = ops \ {op}
           \/ \E op \in ops, s \in {"held", "made"} : ops' = (ops \ {op}) \cup {[op EXCEPT !.step = s]}
    PROVE  DraftTypes' /\ DraftsInv'
<1>1. \A op \in ops : \A s : [op EXCEPT !.step = s].key = op.key
  BY DEF ComposerInv, ComposerShape, IdShape, OpSet
<1>2. KeysKept
  <2>1. CASE ops' \subseteq ops
    BY <2>1 DEF KeysKept
  <2>2. CASE \E op \in ops, s \in {"held", "made"} : ops' = (ops \ {op}) \cup {[op EXCEPT !.step = s]}
    <3>1. PICK op \in ops, s \in {"held", "made"} : ops' = (ops \ {op}) \cup {[op EXCEPT !.step = s]}
      BY <2>2
    <3> DEFINE new == [op EXCEPT !.step = s]
    <3>2. new.key = op.key /\ ops' = (ops \ {op}) \cup {new}
      BY <1>1, <3>1
    <3> HIDE DEF new
    <3> QED BY <3>2 DEF KeysKept
  <2>3. ops' = ops \/ (\E op \in ops : ops' = ops \ {op}) => ops' \subseteq ops
    OBVIOUS
  <2> QED BY <2>1, <2>2, <2>3
<1> QED BY <1>2, DraftsKept DEF ComposerInv, ComposerShape

\* The steps of an operation under way.
LEMMA OpSteps ==
    ASSUME ComposerInv, NEW op \in ops,
           \/ BridgeAccepts(op) \/ SendSucceeds(op) \/ SendFails(op)
           \/ BridgeCreates(op) \/ ChatCreated(op) \/ TurnAccepted(op)
           \/ CreateSucceeds(op) \/ CreateFailsUnmade(op) \/ CreateFailsMade(op)
    PROVE  ComposerInv'
<1> USE DEF ComposerInv
<1>1. CASE BridgeAccepts(op)
  <2>1. DraftTypes' /\ DraftsInv'
    BY <1>1, DraftsAside DEF BridgeAccepts
  <2>2. /\ op.kind = "send" /\ bridge' = Deliver(op.id, op.intent, op.scope)
        /\ ops' = (ops \ {op}) \cup {[op EXCEPT !.step = "held"]}
        /\ UNCHANGED <<failed, store, saves, disk, late, nextId, ghost>>
    BY <1>1 DEF BridgeAccepts
  <2> QED BY <2>1, <2>2, AcceptStep
<1>2. CASE TurnAccepted(op)
  <2>1. DraftTypes' /\ DraftsInv'
    BY <1>2, DraftsAside DEF TurnAccepted
  <2>2. /\ op.step = "turn" /\ bridge' = Deliver(op.id, op.intent, op.scope)
        /\ ops' = (ops \ {op}) \cup {[op EXCEPT !.step = "held"]}
        /\ UNCHANGED <<failed, store, saves, disk, late, nextId, ghost>>
    BY <1>2 DEF TurnAccepted
  <2> QED BY <2>1, <2>2, AcceptStep
<1>3. CASE BridgeCreates(op)
  <2>1. DraftTypes' /\ DraftsInv'
    BY <1>3, DraftsAside DEF BridgeCreates
  <2> QED BY <1>3, <2>1, BridgeCreatesStep
<1>4. CASE SendSucceeds(op) \/ CreateSucceeds(op)
  <2>1. /\ op.step = "held" /\ Succeed(op) /\ ops' = ops \ {op} /\ ghost' = Finished(op)
        /\ UNCHANGED <<sel, view, restored, disk, late, bridge, nextId>>
    BY <1>4 DEF SendSucceeds, CreateSucceeds
  <2>2. ComposerShape' /\ IdsInv' /\ saves'.drafts = saves.drafts
    BY <2>1, SucceedStep
  <2>3. ghost'.left = ghost.left /\ ghost'.strayed = ghost.strayed /\ ghost'.clobbered = ghost.clobbered
    BY <2>1 DEF Finished, ComposerShape, IdShape, Ghosts
  <2>4. DraftsInv'
    BY <2>1, <2>2, <2>3, DraftsAside
  <2> QED BY <2>2, <2>4
<1>5. CASE SendFails(op)
  BY <1>5, SendFailDrafts, SendFailsStep
<1>6. CASE ChatCreated(op)
  BY <1>6, AdoptDrafts, ChatCreatedStep
<1>7. CASE CreateFailsUnmade(op)
  BY <1>7, UnmadeDrafts, CreateFailsUnmadeStep
<1>8. CASE CreateFailsMade(op)
  BY <1>8, MadeDrafts, MadeStep
<1> QED BY <1>1, <1>2, <1>3, <1>4, <1>5, <1>6, <1>7, <1>8

LEMMA StepInv == ASSUME ComposerInv, [Next]_vars PROVE ComposerInv'
<1> USE DEF ComposerInv
<1>1. CASE \E n \in Variants : TypeDraft(<<sel, n>>)
  <2>1. PICK n \in Variants : TypeDraft(<<sel, n>>)
    BY <1>1
  <2>2. <<sel, n>> \in TextOrNone
    BY DEF TextOrNone, Texts, ComposerShape, DraftShape
  <2> DEFINE t == <<sel, n>>
  <2>3. TypeDraft(t) /\ t \in TextOrNone /\ \E m \in Variants : t = <<sel, m>>
    BY <2>1, <2>2
  <2> HIDE DEF t
  <2> QED BY <2>3, TypeDrafts, TypeStep
<1>2. CASE TypeDraft(NoText)
  <2>1. NoText \in TextOrNone
    BY DEF TextOrNone
  <2> QED BY <1>2, <2>1, TypeDrafts, TypeStep
<1>3. CASE \E s \in Chats \cup {New} \cup {Made(i) : i \in bridge.made} : MoveTo(s)
  <2>1. Chats \cup {New} \cup {Made(i) : i \in bridge.made} \subseteq Scopes
    BY DEF Scopes, ComposerShape, IdShape
  <2>2. PICK s \in Scopes : MoveTo(s)
    BY <1>3, <2>1
  <2> QED BY <2>2, MoveDrafts, MoveStep
<1>4. CASE DraftsLoaded
  BY <1>4, LoadedDrafts, LoadedStep
<1>5. CASE PersistDrafts
  BY <1>5, PersistedDrafts, PersistStep
<1>6. CASE StoreLoaded
  <2>1. DraftTypes' /\ DraftsInv'
    BY <1>6, DraftsAside DEF StoreLoaded
  <2> QED BY <1>6, <2>1, StoreLoadedStep
<1>7. CASE \E ok \in BOOLEAN : DraftsWritten(ok)
  BY <1>7, WrittenDrafts, WrittenStep
<1>8. CASE \E ok \in BOOLEAN : IdsWritten(ok)
  <2>1. PICK ok \in BOOLEAN : IdsWritten(ok)
    BY <1>8
  <2>2. UNCHANGED <<sel, view, restored, ops>>
    BY <2>1 DEF IdsWritten
  <2>3. DraftTypes'
    BY <2>2 DEF DraftTypes, ComposerShape, DraftShape
  <2>4. /\ ComposerShape' /\ IdsInv'
        /\ saves'.drafts = saves.drafts /\ disk'.drafts = disk.drafts
        /\ ghost'.left = ghost.left /\ ghost'.strayed = ghost.strayed /\ ghost'.clobbered = ghost.clobbered
    BY <2>1, <2>3, IdsWrittenStep
  <2> QED BY <2>2, <2>4, DraftsAside
<1>9. CASE SendMessage
  BY <1>9, SendDrafts, SendStep
<1>10. CASE CreateChat
  BY <1>10, CreateDrafts, CreateStep
<1>11. CASE \E op \in ops : \/ BridgeAccepts(op) \/ SendSucceeds(op) \/ SendFails(op)
                            \/ BridgeCreates(op) \/ ChatCreated(op) \/ TurnAccepted(op)
                            \/ CreateSucceeds(op) \/ CreateFailsUnmade(op) \/ CreateFailsMade(op)
  <2> HIDE DEF ComposerInv
  <2> QED BY <1>11, OpSteps
<1>12. CASE \E r \in late : LateArrival(r)
  <2>1. PICK r \in late : LateArrival(r)
    BY <1>12
  <2>2. DraftTypes' /\ DraftsInv'
    BY <2>1, DraftsAside DEF LateArrival
  <2> QED BY <2>1, <2>2, LateArrivalStep
<1>13. CASE Restart
  BY <1>13, RestartDrafts, RestartStep
<1>14. CASE DayPasses
  <2>1. UNCHANGED <<sel, view, restored, ops>>
    BY <1>14 DEF DayPasses
  <2>2. DraftTypes'
    BY <2>1 DEF DraftTypes, ComposerShape, DraftShape
  <2>3. /\ ComposerShape' /\ IdsInv'
        /\ saves'.drafts = saves.drafts /\ disk'.drafts = disk.drafts
        /\ ghost'.left = ghost.left /\ ghost'.strayed = ghost.strayed /\ ghost'.clobbered = ghost.clobbered
    BY <1>14, <2>2, DayPassesStep
  <2> QED BY <2>1, <2>3, DraftsAside
<1>15. CASE UNCHANGED vars
  <2>1. UNCHANGED <<sel, view, restored, failed, store, saves, disk, ops, late, bridge, nextId, ghost>>
    BY <1>15 DEF vars
  <2>2. DraftTypes' /\ DraftsInv'
    BY <2>1, DraftsAside
  <2>3. saves' \in [drafts : Seq(DraftSet), ids : Seq(IdFiles)] /\ disk' \in [drafts : DraftSet, ids : IdFiles]
        /\ ghost' \in Ghosts /\ SameMeant
    BY <2>1, BridgeTypes DEF SameMeant
  <2> QED BY <2>1, <2>2, <2>3, ScreenStep
<1> QED BY <1>1, <1>2, <1>3, <1>4, <1>5, <1>6, <1>7, <1>8, <1>9, <1>10, <1>11, <1>12, <1>13, <1>14, <1>15
        DEF Next

LEMMA ComposerSafe == Spec => []ComposerInv
BY InitInv, StepInv, PTL DEF Spec

\* Every variable of the composer, drafts and submission ids has the type its
\* comment says; the remembered failures never outgrow their limits.
THEOREM ComposerTypeCorrect == Spec => []ComposerTypeOK
<1>1. ASSUME ComposerInv PROVE ComposerTypeOK
  <2>1. DraftShape /\ IdShape /\ Bounds
    BY <1>1 DEF ComposerInv, ComposerShape
  <2>2. /\ sel \in Scopes /\ view.owner \in Scopes /\ {view.text, restored} \subseteq Texts \cup {NoText}
        /\ view.entries \in DraftSet /\ disk.drafts \in DraftSet /\ saves.drafts \in Seq(DraftSet)
    BY <2>1 DEF DraftShape, Views, TextOrNone
  <2>3. \A e \in DraftSet : DOMAIN e \subseteq Scopes /\ \A s \in DOMAIN e : e[s] \in Texts
    BY DEF DraftSet
  <2>4. \A e \in ToSet(saves.drafts) : e \in DraftSet
    BY <2>2 DEF ToSet
  <2>5. \A q \in {failed, store.ids, disk.ids} : \A e \in ToSet(q) : e.id \in 1..nextId
    BY <2>1 DEF Bounds, AllRecs
  <2>6. Len(failed) <= FailedLimit /\ Len(store.ids) <= StoreLimit
    BY <2>1 DEF IdShape, IdFiles
  <2>7. \A o \in ops : /\ o.id \in 1..nextId /\ o.intent \in 1..ghost.intents
                       /\ o.kind = "create" => o.scope =
                             IF o.step \in {"wire", "made"} THEN Pending(o.id) ELSE Made(o.id)
                       /\ o.kind = "send" => o.scope = o.key[1]
    BY <2>1 DEF Bounds, OpWell
  <2> QED BY <2>2, <2>3, <2>4, <2>5, <2>6, <2>7 DEF ComposerTypeOK
<1> QED BY <1>1, ComposerSafe, PTL

\* Drafts marked clean are in the file (draftController.ts), whatever loads,
\* saves and failed writes overlap.
THEOREM CleanDraftsAreSaved == Spec => []CleanMeansSaved
<1>1. ComposerInv => CleanMeansSaved
  BY DEF ComposerInv, DraftsInv, CleanInv
<1> QED BY <1>1, ComposerSafe, PTL

\* No chat shows or keeps a text typed into another one.
THEOREM DraftsKeepTheirChat == Spec => []DraftsStayHome
<1>1. ASSUME ComposerInv PROVE DraftsStayHome
  <2> SUFFICES ASSUME ~ghost.strayed, NEW s \in Chats, NEW e \in {view.entries, disk.drafts},
                      Entry(e, s) # NoText
               PROVE  e[s][1] \in {s, New}
    BY DEF DraftsStayHome
  <2>1. HomeDrafts(e) /\ s \in Scopes
    BY <1>1 DEF ComposerInv, DraftsInv, HomeInv, Scopes
  <2>2. Entry(e, s)[1] \in {s, New}
    BY <2>1 DEF HomeDrafts, Good
  <2> QED BY <2>2 DEF Entry
<1> QED BY <1>1, ComposerSafe, PTL

\* The text a user left in a chat's composer is there when the chat is shown again.
THEOREM TypedTextSurvives == Spec => []NothingTypedIsLost
<1>1. ASSUME ComposerInv PROVE NothingTypedIsLost
  <2> SUFFICES ASSUME view.loaded, ~ghost.strayed,
                      NEW s \in DOMAIN ghost.left \cap (Chats \cup {Made(i) : i \in bridge.made}),
                      s \notin ghost.clobbered
               PROVE  ghost.left[s] = IF s = sel THEN view.text ELSE Entry(view.entries, s)
    BY DEF NothingTypedIsLost
  <2>1. s \in Keepers
    BY <1>1 DEF Keepers, ComposerInv, ComposerShape, IdShape
  <2>2. Entry(ghost.left, s) = ghost.left[s] /\ ghost.left[s] # NoText
    BY <1>1 DEF Entry, ComposerInv, ComposerShape, IdShape, Ghosts, DraftSet
  <2>3. ghost.left[s] = Entry(view.entries, s)
    BY <1>1, <2>1, <2>2 DEF ComposerInv, DraftsInv, LeftInv, ShownIn
  <2> QED BY <1>1, <2>3 DEF ComposerInv, DraftsInv, OwnInv
<1> QED BY <1>1, ComposerSafe, PTL

\* A message reported as sent is in the chat: a reused submission id never makes
\* the bridge swallow another message.
THEOREM ReportedMeansDelivered == Spec => []SentMeansDelivered
<1>1. ComposerInv => SentMeansDelivered
  BY DEF ComposerInv, IdsInv
<1> QED BY <1>1, ComposerSafe, PTL

\* A retry never delivers a message a second time, also across restarts.
THEOREM RetriesDeliverOnce == Spec => []AtMostOncePerIntent
<1>1. ASSUME ComposerInv PROVE AtMostOncePerIntent
  <2> SUFFICES ASSUME ~ghost.early, NEW m1 \in bridge.delivered, NEW m2 \in bridge.delivered,
                      m1.intent = m2.intent, Remembered(m1.intent), m1.intent \notin ghost.created
               PROVE  m1 = m2
    BY DEF AtMostOncePerIntent
  <2>1. OneIdEach /\ Once(bridge.delivered)
    BY <1>1 DEF ComposerInv, IdsInv, MeantInv, HeldInv
  <2> DEFINE c == <<m1.id, m1.intent>>
             d == <<m2.id, m2.intent>>
  <2>2. c \in Sent /\ d \in Sent /\ c[2] = d[2] /\ c[2] \notin Excused \cup ghost.exposed
    BY DEF Sent, Remembered, Excused
  <2>3. c[1] = d[1]
    BY <2>1, <2>2 DEF OneIdEach
  <2> QED BY <2>1, <2>3 DEF Once
<1> QED BY <1>1, ComposerSafe, PTL
=============================================================================
