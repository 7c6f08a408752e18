---------------------------- MODULE DrawerProofs ----------------------------
(***************************************************************************)
(* Proofs about the drawer for any chats, list limits and bounds: a chat   *)
(* that was deleted stays deleted, no write captured before a purge of the *)
(* saved summaries lands after it, and the file follows the rows.          *)
(*                                                                         *)
(* All are statements about the rows and the file (coll).  Every load,     *)
(* event and timer changes those through a handful of operations, so the   *)
(* proof shows once for each operation that it keeps CollGood, that the    *)
(* file is not left behind what it replaces (Advances), and that the       *)
(* answers still to be applied keep holding chats of the bridge the        *)
(* profile names (LoadGood).                                               *)
(***************************************************************************)
EXTENDS Drawer, FiniteSetTheorems, NaturalsInduction, WellFoundedInduction, TLAPS

CollFields == {"shown", "deleted", "hydrated", "authoritative", "loading", "pending", "fast",
               "full", "all", "age", "file", "generation", "identity", "leaked"}
LoadFields == {"job", "queued", "timer", "stream", "held", "deep", "deepTimer", "deepLoaded",
               "loadedWhileActive", "refreshing", "older", "partial"}

AtHome(list, id) == \A c \in Chats : list[c] # Absent => Home[c] = id
Below(list, list2) == \A c \in Chats : list[c] <= list2[c]

CachesTyped(k) ==
    /\ k.fast = None \/ k.fast \in ChatLists
    /\ k.full = None \/ k.full \in ChatLists
    /\ k.all = None \/ k.all \in ChatLists

CollShape(k) ==
    /\ DOMAIN k = CollFields
    /\ k.shown \in ChatLists /\ k.file \in ChatLists /\ CachesTyped(k)
    /\ k.generation \in Nat
    /\ k.leaked \in BOOLEAN /\ k.hydrated \in BOOLEAN /\ k.authoritative \in BOOLEAN
    /\ k.pending # None =>
        /\ DOMAIN k.pending = {"list", "gen"} /\ k.pending.list \in ChatLists
        /\ k.pending.gen \in Nat /\ k.pending.gen <= k.generation

\* A deleted chat is neither shown nor saved nor about to be saved.
GoneForGood(k) ==
    \A c \in Chats : c \in k.deleted =>
        /\ k.shown[c] = Absent /\ k.file[c] = Absent
        /\ k.pending # None => k.pending.list[c] = Absent

\* The file, and a buffered write that will reach it, hold chats of the present
\* bridge, unless the drawer was given others to save.
SavedAtHome(k) ==
    k.leaked \/ (/\ AtHome(k.file, k.identity)
                 /\ k.pending # None /\ k.pending.gen = k.generation =>
                        AtHome(k.pending.list, k.identity))

\* What will be saved is shown, and nothing is shown before the first list.  After
\* an authoritative list the same holds of what is saved.
SavedIsShown(k) ==
    /\ ~k.hydrated => k.shown = Empty
    /\ k.authoritative => Below(k.file, k.shown)
    /\ k.pending # None /\ k.pending.gen = k.generation => Below(k.pending.list, k.shown)

CollGood(k) == CollShape(k) /\ GoneForGood(k) /\ SavedAtHome(k) /\ SavedIsShown(k)

\* From k to k2 the file is either no further than the rows, or as it was, with
\* rows that are no older.
Advances(k, k2) ==
    /\ k2.identity = k.identity /\ k2.generation = k.generation
    /\ k.hydrated => k2.hydrated
    /\ \A c \in Chats :
        \/ k2.file[c] <= k2.shown[c]
        \/ k2.file[c] = k.file[c] /\ k.shown[c] <= k2.shown[c]

AnswerGood(answer, id) == answer = None \/ (answer \in ChatLists /\ AtHome(answer, id))

StreamFields == {"open", "refresh", "left", "answer"}
DeepFields == {"asked", "list", "offset", "partial", "answer"}
JobShape(job) ==
    /\ DOMAIN job = {"at", "refresh", "force", "closure", "answer"}
    /\ job.answer = None \/ job.answer \in ChatLists

\* What the stream and the pages of the deep load have answered, which may replace
\* the file; a held stream is one that is open and has started.
LoadGood(l, id) ==
    /\ DOMAIN l = LoadFields
    /\ DOMAIN l.stream = StreamFields /\ AnswerGood(l.stream.answer, id)
    /\ DOMAIN l.deep = DeepFields /\ AnswerGood(l.deep.answer, id)
    /\ l.deep.list \in ChatLists /\ AtHome(l.deep.list, id)
    /\ l.job = None \/ (JobShape(l.job) /\ (l.job.at = "start" => ~l.held))
    /\ l.held \in BOOLEAN /\ (l.held => l.stream.open)

PairGood(l, k) == CollGood(k) /\ LoadGood(l, k.identity)

-----------------------------------------------------------------------------
(* The operations on the rows. *)

LEMMA AdvancesOn ==
    ASSUME NEW k, NEW k2, NEW k3, CollShape(k), CollShape(k2), CollShape(k3),
           Advances(k, k2), Advances(k2, k3)
    PROVE  Advances(k, k3)
  <1> USE DEF Advances, CollShape, ChatLists
  <1>1. k3.identity = k.identity /\ k3.generation = k.generation /\ (k.hydrated => k3.hydrated)
    OBVIOUS
  <1>2. ASSUME NEW c \in Chats
        PROVE  \/ k3.file[c] <= k3.shown[c]
               \/ k3.file[c] = k.file[c] /\ k.shown[c] <= k3.shown[c]
    <2>1. /\ k.shown[c] \in Nat /\ k2.shown[c] \in Nat /\ k3.shown[c] \in Nat
          /\ k.file[c] \in Nat /\ k2.file[c] \in Nat /\ k3.file[c] \in Nat
      OBVIOUS
    <2> QED BY <2>1
  <1> QED BY <1>1, <1>2

LEMMA AdvancesSelf ==
    ASSUME NEW k, CollShape(k) PROVE Advances(k, k)
  BY DEF Advances, CollShape, ChatLists

\* The merge takes the later stamp.
LEMMA MergeLater ==
    ASSUME NEW old \in ChatLists, NEW new \in ChatLists
    PROVE  /\ Merge(old, new) \in ChatLists
           /\ Below(old, Merge(old, new)) /\ Below(new, Merge(old, new))
           /\ \A c \in Chats : Merge(old, new)[c] \in {old[c], new[c]}
  BY DEF Merge, ChatLists, Below

\* A change of the caches and indicators leaves rows and file alone.
SameRows(k, k2) ==
    /\ DOMAIN k2 = CollFields /\ CachesTyped(k2)
    /\ k2.shown = k.shown /\ k2.file = k.file /\ k2.pending = k.pending
    /\ k2.deleted = k.deleted /\ k2.generation = k.generation
    /\ k2.leaked = k.leaked /\ k2.identity = k.identity
    /\ k2.hydrated = k.hydrated /\ k2.authoritative = k.authoritative

LEMMA SameRowsGood ==
    ASSUME NEW k, NEW k2, CollGood(k), SameRows(k, k2)
    PROVE  CollGood(k2) /\ Advances(k, k2)
  <1>1. CollGood(k2)
    BY DEF CollGood, CollShape, GoneForGood, SavedAtHome, SavedIsShown, SameRows
  <1>2. Advances(k, k2)
    BY DEF CollGood, CollShape, SameRows, Advances, ChatLists
  <1> QED BY <1>1, <1>2

\* rememberChats touches the client's caches only.
LEMMA RememberGood ==
    ASSUME NEW k, CollGood(k), NEW list \in ChatLists, NEW limit
    PROVE  SameRows(k, RememberChats(k, list, limit))
  <1> DEFINE n == RememberChats(k, list, limit)
             spread == [c \in Chats |-> IF list[c] # Absent THEN list[c] ELSE k.all[c]]
  <1>1. DOMAIN k = CollFields /\ CachesTyped(k)
    BY DEF CollGood, CollShape
  <1>2. /\ DOMAIN n = CollFields
        /\ n.shown = k.shown /\ n.file = k.file /\ n.pending = k.pending
        /\ n.deleted = k.deleted /\ n.generation = k.generation
        /\ n.leaked = k.leaked /\ n.identity = k.identity
        /\ n.hydrated = k.hydrated /\ n.authoritative = k.authoritative
    BY <1>1 DEF RememberChats, CollFields
  <1>3. /\ n.fast \in {list, k.fast} /\ n.full \in {list, k.full}
        /\ n.all = IF k.all = None THEN None ELSE spread
    BY <1>1 DEF RememberChats, CollFields
  <1>4. k.all # None => spread \in ChatLists
    BY <1>1 DEF CachesTyped, ChatLists
  <1> HIDE DEF n, spread
  <1>5. CachesTyped(n)
    BY <1>1, <1>3, <1>4 DEF CachesTyped
  <1> QED BY <1>2, <1>5 DEF SameRows, n

LEMMA WithoutOne ==
    ASSUME NEW list \in ChatLists, NEW c
    PROVE  /\ Without(list, c) \in ChatLists
           /\ \A d \in Chats : Without(list, c)[d] = IF d = c THEN Absent ELSE list[d]
  BY DEF Without, ChatLists, Absent

LEMMA ForgetGood ==
    ASSUME NEW k, CollGood(k), NEW c
    PROVE  SameRows(k, ForgetChat(k, c))
  <1> DEFINE n == ForgetChat(k, c)
  <1>1. DOMAIN k = CollFields /\ CachesTyped(k)
    BY DEF CollGood, CollShape
  <1>2. /\ DOMAIN n = CollFields
        /\ n.shown = k.shown /\ n.file = k.file /\ n.pending = k.pending
        /\ n.deleted = k.deleted /\ n.generation = k.generation
        /\ n.leaked = k.leaked /\ n.identity = k.identity
        /\ n.hydrated = k.hydrated /\ n.authoritative = k.authoritative
    BY <1>1 DEF ForgetChat, CollFields
  <1>3. /\ n.fast \in {None, Without(k.fast, c)} /\ (n.fast # None => k.fast # None)
        /\ n.full \in {None, Without(k.full, c)} /\ (n.full # None => k.full # None)
        /\ n.all \in {None, Without(k.all, c)} /\ (n.all # None => k.all # None)
    BY <1>1 DEF ForgetChat, CollFields
  <1> HIDE DEF n
  <1>4. CachesTyped(n)
    BY <1>1, <1>3, WithoutOne DEF CachesTyped
  <1> QED BY <1>2, <1>4 DEF SameRows, n

LEMMA ScheduleGood ==
    ASSUME NEW k, CollGood(k), NEW list \in ChatLists, Below(list, k.shown),
           \A c \in Chats : c \in k.deleted => list[c] = Absent
    PROVE  /\ CollGood(SchedulePersistence(k, list))
           /\ Advances(k, SchedulePersistence(k, list))
  <1> DEFINE carry == k.pending # None /\ k.pending.gen = k.generation
             base == IF carry THEN k.pending.list ELSE Empty
             merged == Merge(base, list)
             n == SchedulePersistence(k, list)
  <1>1. /\ DOMAIN n = CollFields
        /\ n.pending = [list |-> merged, gen |-> k.generation]
        /\ n.leaked = (k.leaked \/ \E c \in In(list) : Home[c] # k.identity)
        /\ n.shown = k.shown /\ n.file = k.file /\ n.deleted = k.deleted
        /\ n.generation = k.generation /\ n.identity = k.identity
        /\ n.hydrated = k.hydrated /\ n.authoritative = k.authoritative
        /\ n.fast = k.fast /\ n.full = k.full /\ n.all = k.all
    BY DEF SchedulePersistence, CollGood, CollShape, CollFields
  <1>2. base \in ChatLists /\ Below(base, k.shown)
    BY DEF CollGood, CollShape, SavedIsShown, Below, Empty, ChatLists, Absent
  <1> HIDE DEF base, n
  <1>3. /\ merged \in ChatLists
        /\ \A c \in Chats : merged[c] \in {base[c], list[c]}
    BY <1>2, MergeLater
  <1> HIDE DEF merged
  <1>4. CollShape(n)
    BY <1>1, <1>3 DEF CollGood, CollShape, CachesTyped
  <1>5. GoneForGood(n)
    <2>1. ASSUME NEW c \in Chats, c \in k.deleted PROVE base[c] = Absent
      BY <2>1 DEF CollGood, GoneForGood, Empty, base
    <2> QED BY <1>1, <1>3, <2>1 DEF CollGood, GoneForGood
  <1>6. SavedAtHome(n)
    <2> SUFFICES ASSUME ~n.leaked
                 PROVE  AtHome(k.file, k.identity) /\ AtHome(merged, k.identity)
      BY <1>1 DEF SavedAtHome
    <2>1. ~k.leaked /\ \A c \in Chats : list[c] # Absent => Home[c] = k.identity
      BY <1>1 DEF In
    <2>2. AtHome(k.file, k.identity) /\ (carry => AtHome(k.pending.list, k.identity))
      BY <2>1 DEF CollGood, SavedAtHome
    <2>3. AtHome(base, k.identity)
      BY <2>2 DEF AtHome, Empty, base
    <2> QED BY <1>3, <2>1, <2>2, <2>3 DEF AtHome
  <1>7. SavedIsShown(n)
    <2>1. Below(merged, k.shown)
      BY <1>2, <1>3 DEF Below
    <2> QED BY <1>1, <2>1 DEF CollGood, SavedIsShown
  <1>8. Advances(k, n)
    BY <1>1 DEF Advances, CollGood, CollShape, ChatLists
  <1> QED BY <1>4, <1>5, <1>6, <1>7, <1>8 DEF CollGood, n

\* applyChats drops what was deleted before it shows or saves anything; only an
\* authoritative list, which must be at home and is saved, replaces rows and file.
LEMMA ApplyGood ==
    ASSUME NEW k, CollGood(k), NEW raw \in ChatLists, NEW limit,
           NEW persist \in BOOLEAN, NEW authoritative \in BOOLEAN,
           authoritative => persist /\ AtHome(raw, k.identity)
    PROVE  /\ CollGood(ApplyChats(k, raw, limit, persist, authoritative))
           /\ Advances(k, ApplyChats(k, raw, limit, persist, authoritative))
           /\ ApplyChats(k, raw, limit, persist, authoritative).deleted = k.deleted
           /\ \A c \in Chats \ k.deleted :
                raw[c] <= ApplyChats(k, raw, limit, persist, authoritative).shown[c]
  <1> DEFINE incoming == Only(raw, Chats \ k.deleted)
             preserve == k.hydrated \/ Cardinality(In(k.shown)) > Cardinality(In(incoming))
             next == IF authoritative \/ ~preserve THEN incoming ELSE Merge(k.shown, incoming)
             applied == [k EXCEPT !.shown = next, !.hydrated = TRUE, !.loading = FALSE,
                                  !.authoritative = @ \/ authoritative]
             cached == IF limit = 0 THEN applied
                       ELSE RememberChats(applied, next, CacheKey(limit, next))
             reconciled == [cached EXCEPT !.pending = None, !.file = incoming]
             n == ApplyChats(k, raw, limit, persist, authoritative)
  <1>1. /\ incoming \in ChatLists
        /\ \A c \in Chats : c \in k.deleted => incoming[c] = Absent
        /\ \A c \in Chats : incoming[c] \in {raw[c], Absent}
        /\ \A c \in Chats \ k.deleted : incoming[c] = raw[c]
    BY DEF Only, Absent, ChatLists
  <1>2. n = CASE ~persist -> cached
              [] persist /\ authoritative -> reconciled
              [] OTHER -> SchedulePersistence(cached, incoming)
    BY DEF ApplyChats, ReconcilePersisted, Guarded
  <1>3. /\ k.shown \in ChatLists /\ k.hydrated \in BOOLEAN /\ (~k.hydrated => k.shown = Empty)
        /\ DOMAIN k = CollFields /\ k.authoritative \in BOOLEAN
    BY DEF CollGood, CollShape, SavedIsShown
  <1> HIDE DEF incoming, n
  <1>4. /\ next \in ChatLists /\ \A c \in Chats : c \in k.deleted => next[c] = Absent
        /\ Below(incoming, next)
        /\ authoritative \/ Below(k.shown, next)
        /\ authoritative => next = incoming
    <2>1. CASE authoritative \/ ~preserve
      <3>1. next = incoming
        BY <2>1
      <3>2. authoritative \/ k.shown = Empty
        BY <1>3, <2>1
      <3>3. k.shown = Empty => Below(k.shown, incoming)
        BY <1>1 DEF Below, Empty, Absent, ChatLists
      <3>4. Below(incoming, incoming)
        BY <1>1 DEF Below, ChatLists
      <3> QED BY <1>1, <3>1, <3>2, <3>3, <3>4
    <2>2. CASE ~(authoritative \/ ~preserve)
      <3>1. next = Merge(k.shown, incoming) /\ ~authoritative
        BY <2>2
      <3>2. /\ next \in ChatLists /\ Below(k.shown, next) /\ Below(incoming, next)
            /\ \A c \in Chats : next[c] \in {k.shown[c], incoming[c]}
        BY <1>1, <1>3, <3>1, MergeLater
      <3> HIDE DEF next
      <3> QED BY <1>1, <3>1, <3>2 DEF CollGood, GoneForGood
    <2> QED BY <2>1, <2>2
  <1> HIDE DEF next, preserve
  <1>5. /\ DOMAIN applied = CollFields /\ applied.shown = next
        /\ applied.file = k.file /\ applied.pending = k.pending
        /\ applied.deleted = k.deleted /\ applied.generation = k.generation
        /\ applied.leaked = k.leaked /\ applied.identity = k.identity
        /\ applied.hydrated = TRUE
        /\ applied.authoritative = (k.authoritative \/ authoritative)
        /\ applied.fast = k.fast /\ applied.full = k.full /\ applied.all = k.all
    BY <1>3 DEF CollFields
  <1> HIDE DEF applied
  <1>6. CollShape(applied)
    BY <1>3, <1>4, <1>5 DEF CollGood, CollShape, CachesTyped
  <1>7. GoneForGood(applied) /\ SavedAtHome(applied)
    BY <1>4, <1>5 DEF CollGood, GoneForGood, SavedAtHome
  <1>8. ASSUME ~authoritative PROVE SavedIsShown(applied) /\ Advances(k, applied)
    <2>1. ASSUME NEW list \in ChatLists, Below(list, k.shown) PROVE Below(list, next)
      BY <1>3, <1>4, <1>8, <2>1 DEF Below, ChatLists
    <2>2. k.file \in ChatLists /\ (k.pending # None => k.pending.list \in ChatLists)
      BY DEF CollGood, CollShape
    <2>3. SavedIsShown(applied)
      BY <1>5, <1>8, <2>1, <2>2 DEF CollGood, SavedIsShown
    <2>4. Advances(k, applied)
      BY <1>4, <1>5, <1>8 DEF Advances, Below
    <2> QED BY <2>3, <2>4
  <1>9. /\ SameRows(applied, cached) \/ cached = applied
        /\ cached.shown = next /\ cached.deleted = k.deleted
    <2>1. CASE limit = 0
      BY <1>5, <2>1
    <2>2. CASE limit # 0
      <3>1. /\ DOMAIN cached = CollFields
            /\ cached.fast \in {next, applied.fast} /\ cached.full \in {next, applied.full}
            /\ cached.all \in {None, [c \in Chats |-> IF next[c] # Absent THEN next[c]
                                                      ELSE applied.all[c]]}
            /\ cached.all # None => applied.all # None
            /\ cached.shown = applied.shown /\ cached.file = applied.file
            /\ cached.pending = applied.pending /\ cached.deleted = applied.deleted
            /\ cached.generation = applied.generation /\ cached.leaked = applied.leaked
            /\ cached.identity = applied.identity /\ cached.hydrated = applied.hydrated
            /\ cached.authoritative = applied.authoritative
        BY <1>5, <2>2 DEF RememberChats, CollFields
      <3> HIDE DEF cached
      <3>2. CachesTyped(cached)
        <4>1. applied.all # None => [c \in Chats |-> IF next[c] # Absent THEN next[c]
                                                     ELSE applied.all[c]] \in ChatLists
          BY <1>4, <1>6 DEF CollShape, CachesTyped, ChatLists
        <4> QED BY <1>4, <1>6, <3>1, <4>1 DEF CollShape, CachesTyped
      <3> QED BY <1>5, <3>1, <3>2 DEF SameRows
    <2> QED BY <2>1, <2>2
  <1> HIDE DEF cached
  <1>10. ASSUME ~authoritative
         PROVE  CollGood(cached) /\ Advances(k, cached)
    <2>1. CollGood(applied) /\ Advances(k, applied)
      BY <1>6, <1>7, <1>8, <1>10 DEF CollGood
    <2>2. CollGood(cached) /\ Advances(applied, cached)
      BY <1>9, <2>1, SameRowsGood, AdvancesSelf DEF CollGood
    <2> QED BY <2>1, <2>2, AdvancesOn DEF CollGood
  <1>11. \A c \in Chats \ k.deleted : raw[c] <= next[c]
    BY <1>1, <1>4 DEF Below
  <1>12. CASE ~persist
    BY <1>2, <1>9, <1>10, <1>11, <1>12 DEF n
  <1>13. CASE persist /\ authoritative
    <2>1. n = reconciled
      BY <1>2, <1>13
    <2>2. CollShape(cached)
      BY <1>6, <1>9 DEF CollShape, SameRows
    <2>3. /\ DOMAIN reconciled = CollFields /\ reconciled.shown = next
          /\ reconciled.file = incoming /\ reconciled.pending = None
          /\ reconciled.deleted = k.deleted /\ reconciled.generation = k.generation
          /\ reconciled.leaked = k.leaked /\ reconciled.identity = k.identity
          /\ reconciled.hydrated = TRUE /\ reconciled.authoritative = TRUE
          /\ reconciled.fast = cached.fast /\ reconciled.full = cached.full
          /\ reconciled.all = cached.all
      BY <1>5, <1>9, <1>13, <2>2 DEF CollShape, CollFields, SameRows
    <2>4. AtHome(incoming, k.identity)
      BY <1>1, <1>13 DEF AtHome
    <2>5. incoming = next
      BY <1>4, <1>13
    <2> HIDE DEF reconciled
    <2>6. CollShape(reconciled)
      BY <1>1, <1>4, <2>2, <2>3 DEF CollGood, CollShape, CachesTyped
    <2>7. GoneForGood(reconciled) /\ SavedAtHome(reconciled)
      BY <1>1, <1>4, <2>3, <2>4 DEF CollGood, GoneForGood, SavedAtHome
    <2>8. SavedIsShown(reconciled)
      BY <1>4, <2>3, <2>5 DEF SavedIsShown
    <2>9. Advances(k, reconciled)
      BY <1>4, <2>3, <2>5 DEF Advances, Below
    <2> QED BY <1>11, <2>1, <2>3, <2>6, <2>7, <2>8, <2>9 DEF CollGood, n
  <1>14. CASE persist /\ ~authoritative
    <2>1. n = SchedulePersistence(cached, incoming)
      BY <1>2, <1>14
    <2>2. CollGood(cached) /\ Advances(k, cached)
      BY <1>10, <1>14
    <2>3. Below(incoming, cached.shown)
      BY <1>4, <1>9
    <2>4. CollGood(n) /\ Advances(cached, n)
      BY <1>1, <1>9, <2>1, <2>2, <2>3, ScheduleGood
    <2>5. n.shown = next /\ n.deleted = k.deleted
      BY <1>9, <2>1, <2>2 DEF SchedulePersistence, CollGood, CollShape, CollFields
    <2>6. Advances(k, n)
      BY <2>2, <2>4, AdvancesOn DEF CollGood
    <2> QED BY <1>11, <2>4, <2>5, <2>6 DEF n
  <1> QED BY <1>12, <1>13, <1>14

LEMMA RemoveGood ==
    ASSUME NEW k, CollGood(k), NEW c
    PROVE  CollGood(RemoveChat(k, c)) /\ Advances(k, RemoveChat(k, c))
  <1> DEFINE n == RemoveChat(k, c)
             pending == IF k.pending = None THEN None
                        ELSE [k.pending EXCEPT !.list = Without(k.pending.list, c)]
  <1>1. /\ DOMAIN n = CollFields /\ n.shown = Without(k.shown, c)
        /\ n.file = Without(k.file, c) /\ n.pending = pending
        /\ n.deleted = k.deleted \cup {c} /\ n.generation = k.generation
        /\ n.leaked = k.leaked /\ n.identity = k.identity
        /\ n.hydrated = k.hydrated /\ n.authoritative = k.authoritative
        /\ n.fast = k.fast /\ n.full = k.full /\ n.all = k.all
    <2>1. DOMAIN k = CollFields
      BY DEF CollGood, CollShape
    <2> QED BY <2>1 DEF RemoveChat, DeletePersisted, Guarded, CollFields
  <1>2. pending # None => /\ DOMAIN pending = {"list", "gen"} /\ k.pending # None
                          /\ pending.list = Without(k.pending.list, c)
                          /\ pending.gen = k.pending.gen
    BY DEF CollGood, CollShape
  <1> HIDE DEF n, pending
  <1>3. /\ n.shown \in ChatLists /\ n.file \in ChatLists
        /\ \A d \in Chats : n.shown[d] = IF d = c THEN Absent ELSE k.shown[d]
        /\ \A d \in Chats : n.file[d] = IF d = c THEN Absent ELSE k.file[d]
    BY <1>1, WithoutOne DEF CollGood, CollShape
  <1>4. pending # None =>
            /\ pending.list \in ChatLists
            /\ \A d \in Chats : pending.list[d] = IF d = c THEN Absent ELSE k.pending.list[d]
    BY <1>2, WithoutOne DEF CollGood, CollShape
  <1>5. CollShape(n)
    BY <1>1, <1>2, <1>3, <1>4 DEF CollGood, CollShape, CachesTyped
  <1>6. GoneForGood(n)
    BY <1>1, <1>2, <1>3, <1>4 DEF CollGood, GoneForGood
  <1>7. SavedAtHome(n)
    BY <1>1, <1>2, <1>3, <1>4 DEF CollGood, SavedAtHome, AtHome
  <1>8. SavedIsShown(n)
    <2>1. ~k.hydrated => n.shown = Empty
      <3> SUFFICES ASSUME ~k.hydrated PROVE n.shown = Empty
        OBVIOUS
      <3>1. k.shown = Empty
        BY DEF CollGood, SavedIsShown
      <3>2. \A d \in Chats : n.shown[d] = Absent
        BY <1>3, <3>1 DEF Empty
      <3> QED BY <1>3, <3>2 DEF Empty, ChatLists
    <2>2. k.authoritative => Below(n.file, n.shown)
      BY <1>3 DEF CollGood, SavedIsShown, Below, Absent
    <2>3. pending # None /\ pending.gen = k.generation => Below(pending.list, n.shown)
      BY <1>2, <1>3, <1>4 DEF CollGood, SavedIsShown, Below, Absent
    <2> QED BY <1>1, <2>1, <2>2, <2>3 DEF SavedIsShown
  <1>9. Advances(k, n)
    BY <1>1, <1>3 DEF Advances, CollGood, CollShape, ChatLists, Absent
  <1> QED BY <1>5, <1>6, <1>7, <1>8, <1>9 DEF CollGood, n

LEMMA RestoreGood ==
    ASSUME NEW k, CollGood(k), k.hydrated, NEW c \in Chats, NEW stamp \in Nat
    PROVE  CollGood(RestoreChat(k, c, stamp)) /\ Advances(k, RestoreChat(k, c, stamp))
  <1> DEFINE back == [k EXCEPT !.deleted = @ \ {c}, !.shown[c] = stamp]
             one == [Empty EXCEPT ![c] = stamp]
  <1>1. CASE c \in In(k.shown)
    BY <1>1, AdvancesSelf DEF RestoreChat, CollGood
  <1>2. CASE c \notin In(k.shown)
    <2>1. RestoreChat(k, c, stamp) = SchedulePersistence(back, one)
      BY <1>2 DEF RestoreChat
    <2>2. /\ DOMAIN back = CollFields /\ back.shown = [k.shown EXCEPT ![c] = stamp]
          /\ back.file = k.file /\ back.pending = k.pending
          /\ back.deleted = k.deleted \ {c} /\ back.generation = k.generation
          /\ back.leaked = k.leaked /\ back.identity = k.identity
          /\ back.hydrated = k.hydrated /\ back.authoritative = k.authoritative
          /\ back.fast = k.fast /\ back.full = k.full /\ back.all = k.all
      BY DEF CollGood, CollShape, CollFields
    <2> HIDE DEF back
    <2>3. /\ back.shown \in ChatLists /\ back.shown[c] = stamp /\ k.shown[c] = Absent
          /\ \A d \in Chats : d # c => back.shown[d] = k.shown[d]
          /\ Below(k.shown, back.shown)
      BY <1>2, <2>2 DEF CollGood, CollShape, ChatLists, Below, In, Absent
    <2>4. ASSUME NEW list \in ChatLists, Below(list, k.shown) PROVE Below(list, back.shown)
      BY <2>3, <2>4 DEF CollGood, CollShape, Below, ChatLists
    <2>5. CollShape(back)
      BY <2>2, <2>3 DEF CollGood, CollShape, CachesTyped
    <2>6. GoneForGood(back) /\ SavedAtHome(back)
      BY <2>2, <2>3 DEF CollGood, GoneForGood, SavedAtHome
    <2>7. SavedIsShown(back)
      BY <2>2, <2>4 DEF CollGood, CollShape, SavedIsShown
    <2>8. Advances(k, back)
      BY <2>2, <2>3 DEF Advances, Below
    <2>9. one \in ChatLists /\ Below(one, back.shown)
          /\ \A d \in Chats : d \in back.deleted => one[d] = Absent
      BY <2>2, <2>3 DEF Empty, ChatLists, Below, Absent
    <2> HIDE DEF one
    <2>10. CollGood(back)
      BY <2>5, <2>6, <2>7 DEF CollGood
    <2>11. /\ CollGood(SchedulePersistence(back, one))
           /\ Advances(back, SchedulePersistence(back, one))
      BY <2>9, <2>10, ScheduleGood
    <2>12. Advances(k, SchedulePersistence(back, one))
      BY <2>8, <2>10, <2>11, AdvancesOn DEF CollGood
    <2> QED BY <2>1, <2>11, <2>12
  <1> QED BY <1>1, <1>2

-----------------------------------------------------------------------------
(* The operations on the loads: none invents an answer. *)

\* What an operation on the pair (l, k) must return.
Kept(r, l, k) ==
    /\ CollGood(r.coll) /\ Advances(k, r.coll)
    /\ LoadGood(r.load, k.identity) /\ (r.load.held => l.held)

\* A load whose answers are those of another, or none.
SameAnswers(l, m) ==
    /\ DOMAIN m = LoadFields
    /\ m.stream = l.stream \/ (DOMAIN m.stream = StreamFields /\ m.stream.answer = None)
    /\ m.deep = l.deep \/ (/\ DOMAIN m.deep = DeepFields /\ m.deep.answer = None
                           /\ m.deep.list = Empty)
    /\ m.held = FALSE \/ (m.held = l.held /\ m.stream.open = l.stream.open)
    /\ m.job \in {None, l.job} \/ (JobShape(m.job) /\ (m.job.at = "start" => ~m.held))

LEMMA EmptyGood == Empty \in ChatLists /\ \A id : AtHome(Empty, id)
  BY DEF Empty, ChatLists, Absent, AtHome

LEMMA SameAnswersGood ==
    ASSUME NEW l, NEW m, NEW id, LoadGood(l, id), SameAnswers(l, m)
    PROVE  LoadGood(m, id) /\ (m.held => l.held)
  <1>1. m.deep = l.deep \/ (m.deep.list \in ChatLists /\ AtHome(m.deep.list, id))
    BY EmptyGood DEF SameAnswers
  <1> QED BY <1>1 DEF LoadGood, SameAnswers, AnswerGood

LEMMA BothKept ==
    ASSUME NEW l, NEW k, NEW m, NEW n, CollGood(n), Advances(k, n), LoadGood(m, k.identity),
           m.held => l.held
    PROVE  Kept(Both(m, n), l, k)
  BY DEF Kept, Both

LEMMA RowsKept ==
    ASSUME NEW l, NEW k, NEW m, PairGood(l, k), SameAnswers(l, m)
    PROVE  Kept(Both(m, k), l, k)
  BY SameAnswersGood, BothKept, AdvancesSelf DEF PairGood, CollGood

LEMMA KeptOn ==
    ASSUME NEW l, NEW k, NEW m, NEW n, NEW r, CollGood(k), CollGood(n), Advances(k, n),
           m.held => l.held, Kept(r, m, n)
    PROVE  Kept(r, l, k)
  <1>1. n.identity = k.identity
    BY DEF Advances
  <1>2. Advances(k, r.coll)
    BY AdvancesOn DEF CollGood, Kept
  <1> QED BY <1>1, <1>2 DEF Kept

LEMMA CancelGood ==
    ASSUME NEW l, NEW id, LoadGood(l, id)
    PROVE  SameAnswers(l, CancelStream(l)) /\ ~CancelStream(l).held
  BY DEF LoadGood, LoadFields, SameAnswers, CancelStream, NoStream, StreamFields

LEMMA CachedDeepKept ==
    ASSUME NEW l, NEW k, NEW open, PairGood(l, k), k.all # None
    PROVE  Kept(ApplyCachedDeepChats(l, k, open), l, k)
  <1> DEFINE m == [l EXCEPT !.deepLoaded = TRUE, !.older = IF open THEN FALSE ELSE @]
             n == ApplyChats(k, k.all, 0, FALSE, FALSE)
  <1>1. SameAnswers(l, m)
    BY DEF PairGood, LoadGood, LoadFields, SameAnswers
  <1>2. ApplyCachedDeepChats(l, k, open) = Both(m, n)
    BY DEF ApplyCachedDeepChats
  <1> HIDE DEF m
  <1>3. LoadGood(m, k.identity) /\ (m.held => l.held)
    BY <1>1, SameAnswersGood DEF PairGood
  <1>4. k.all \in ChatLists
    BY DEF PairGood, CollGood, CollShape, CachesTyped
  <1>5. CollGood(n) /\ Advances(k, n)
    BY <1>4, ApplyGood DEF PairGood
  <1> HIDE DEF n
  <1> QED BY <1>2, <1>3, <1>5, BothKept

LEMMA LoadChatsNowKept ==
    ASSUME NEW l, NEW k, PairGood(l, k), NEW open, NEW closure, NEW refresh, NEW force
    PROVE  Kept(LoadChatsNow(l, k, open, closure, refresh, force), l, k)
  <1> DEFINE id == k.identity
             shown == [l EXCEPT !.refreshing = @ \/ refresh]
             seen == [shown EXCEPT !.loadedWhileActive = TRUE]
             cachedDeep == ApplyCachedDeepChats(seen, k, TRUE)
             seeded == IF k.full # None THEN ApplyChats(k, k.full, FullLimit, FALSE, FALSE)
                       ELSE IF k.fast # None THEN ApplyChats(k, k.fast, FastLimit, FALSE, FALSE)
                       ELSE k
             stream == NewStream(refresh)
             primes == [shown EXCEPT !.job = Job("prime", refresh, force, closure)]
             renews == [cachedDeep.load EXCEPT !.job = Job("newest", refresh, force, closure)]
             starts == [CancelStream(seen) EXCEPT !.stream = stream,
                                                  !.job = Job("start", refresh, force, closure)]
  <1>1. LoadChatsNow(l, k, open, closure, refresh, force) =
            CASE ~open -> Both(primes, k)
              [] k.all # None -> Both(renews, cachedDeep.coll)
              [] OTHER -> Both(starts, seeded)
    BY Zenon DEF LoadChatsNow
  <1>2. /\ LoadGood(shown, id) /\ LoadGood(seen, id)
        /\ (shown.held => l.held) /\ (seen.held => l.held)
    <2>1. SameAnswers(l, shown) /\ SameAnswers(l, seen)
      BY DEF PairGood, LoadGood, LoadFields, SameAnswers
    <2> HIDE DEF shown, seen
    <2> QED BY <2>1, SameAnswersGood DEF PairGood
  <1> HIDE DEF shown, seen
  <1>3. LoadGood(primes, id) /\ (primes.held => l.held)
    <2>1. SameAnswers(shown, primes)
      BY <1>2 DEF LoadGood, LoadFields, SameAnswers, Job, JobShape
    <2> HIDE DEF primes
    <2> QED BY <1>2, <2>1, SameAnswersGood
  <1>4. k.all # None => Kept(cachedDeep, l, k)
    <2>1. PairGood(seen, k)
      BY <1>2 DEF PairGood
    <2>2. k.all # None => Kept(cachedDeep, seen, k)
      BY <2>1, CachedDeepKept
    <2> HIDE DEF cachedDeep
    <2> QED BY <1>2, <2>2 DEF Kept
  <1> HIDE DEF cachedDeep
  <1>5. k.all # None => LoadGood(renews, id) /\ (renews.held => l.held)
    <2> SUFFICES ASSUME k.all # None PROVE LoadGood(renews, id) /\ (renews.held => l.held)
      OBVIOUS
    <2>1. SameAnswers(cachedDeep.load, renews)
      BY <1>4 DEF Kept, LoadGood, LoadFields, SameAnswers, Job, JobShape
    <2> HIDE DEF renews
    <2> QED BY <1>4, <2>1, SameAnswersGood DEF Kept
  <1>6. LoadGood(starts, id) /\ ~starts.held
    <2> DEFINE cancelled == CancelStream(seen)
    <2>1. LoadGood(cancelled, id) /\ ~cancelled.held
      BY <1>2, CancelGood, SameAnswersGood
    <2> HIDE DEF cancelled
    <2>2. SameAnswers(cancelled, starts) /\ ~starts.held
      <3>1. starts = [cancelled EXCEPT !.stream = stream,
                                       !.job = Job("start", refresh, force, closure)]
        BY DEF cancelled
      <3> HIDE DEF starts
      <3> QED BY <2>1, <3>1 DEF LoadGood, LoadFields, SameAnswers, Job, JobShape, StreamFields,
                                NewStream
    <2> HIDE DEF starts
    <2> QED BY <2>1, <2>2, SameAnswersGood
  <1>7. CollGood(seeded) /\ Advances(k, seeded)
    <2>1. CollGood(k) /\ Advances(k, k)
      BY AdvancesSelf DEF PairGood, CollGood
    <2>2. \A list \in ChatLists, limit \in {FullLimit, FastLimit} :
            /\ CollGood(ApplyChats(k, list, limit, FALSE, FALSE))
            /\ Advances(k, ApplyChats(k, list, limit, FALSE, FALSE))
      BY <2>1, ApplyGood
    <2>3. CachesTyped(k)
      BY <2>1 DEF CollGood, CollShape
    <2> QED BY <2>1, <2>2, <2>3 DEF CachesTyped
  <1> HIDE DEF primes, renews, starts, seeded
  <1>8. Kept(Both(primes, k), l, k)
    BY <1>3, BothKept, AdvancesSelf DEF PairGood, CollGood
  <1>9. k.all # None => Kept(Both(renews, cachedDeep.coll), l, k)
    BY <1>4, <1>5, BothKept DEF Kept
  <1>10. Kept(Both(starts, seeded), l, k)
    BY <1>6, <1>7, BothKept
  <1> QED BY <1>1, <1>8, <1>9, <1>10

LEMMA LoadChatsKept ==
    ASSUME NEW l, NEW k, PairGood(l, k), NEW open, NEW closure, NEW refresh, NEW force
    PROVE  Kept(LoadChats(l, k, open, closure, refresh, force), l, k)
  <1> DEFINE untimed == IF refresh THEN [l EXCEPT !.timer = "none"] ELSE l
             queued == IF l.queued = None THEN [refresh |-> refresh, force |-> force]
                       ELSE [refresh |-> refresh \/ l.queued.refresh,
                             force |-> force \/ l.queued.force]
             waits == [untimed EXCEPT !.queued = queued]
             r == LoadChats(l, k, open, closure, refresh, force)
  <1>1. r \in {Both(l, k), Both(waits, k),
               LoadChatsNow(untimed, k, open, closure, refresh, force)}
    BY DEF LoadChats
  <1> HIDE DEF queued, r
  <1>2. LoadGood(untimed, k.identity) /\ (untimed.held => l.held)
    <2>1. SameAnswers(l, untimed)
      BY DEF PairGood, LoadGood, LoadFields, SameAnswers
    <2> HIDE DEF untimed
    <2> QED BY <2>1, SameAnswersGood DEF PairGood
  <1> HIDE DEF untimed
  <1>3. LoadGood(waits, k.identity) /\ (waits.held => l.held)
    <2>1. SameAnswers(untimed, waits)
      BY <1>2 DEF LoadGood, LoadFields, SameAnswers
    <2> HIDE DEF waits
    <2> QED BY <1>2, <2>1, SameAnswersGood
  <1> HIDE DEF waits
  <1>4. Advances(k, k)
    BY AdvancesSelf DEF PairGood, CollGood
  <1>5. Kept(Both(l, k), l, k) /\ Kept(Both(waits, k), l, k)
    BY <1>3, <1>4, BothKept DEF PairGood
  <1>6. Kept(LoadChatsNow(untimed, k, open, closure, refresh, force), l, k)
    <2>1. Kept(LoadChatsNow(untimed, k, open, closure, refresh, force), untimed, k)
      BY <1>2, LoadChatsNowKept DEF PairGood
    <2> QED BY <1>2, <2>1 DEF Kept
  <1> QED BY <1>1, <1>5, <1>6 DEF r

\* The end of a load needs nothing of its job: a stream it has started is held.
LEMMA JobEndsKept ==
    ASSUME NEW l, NEW k, CollGood(k), LoadGood([l EXCEPT !.job = None], k.identity),
           DOMAIN l = LoadFields, NEW open
    PROVE  Kept(JobEnds(l, k, open), l, k)
  <1> DEFINE jobless == [l EXCEPT !.job = None]
             ended == [l EXCEPT !.job = None, !.queued = None]
             r == JobEnds(l, k, open)
  <1>1. \/ r = Both(ended, k)
        \/ r = LoadChats(ended, k, open, l.job.closure, l.queued.refresh, l.queued.force)
    BY DEF JobEnds
  <1> HIDE DEF r
  <1>2. SameAnswers(jobless, ended) /\ jobless.held = l.held
    BY DEF LoadFields, SameAnswers
  <1> HIDE DEF ended, jobless
  <1>3. LoadGood(ended, k.identity) /\ (ended.held => l.held)
    BY <1>2, SameAnswersGood DEF jobless
  <1>4. PairGood(ended, k)
    BY <1>3 DEF PairGood
  <1>5. Kept(Both(ended, k), l, k)
    BY <1>3, BothKept, AdvancesSelf DEF CollGood
  <1>6. Kept(LoadChats(ended, k, open, l.job.closure, l.queued.refresh, l.queued.force), l, k)
    <2> DEFINE s == LoadChats(ended, k, open, l.job.closure, l.queued.refresh, l.queued.force)
    <2>1. Kept(s, ended, k)
      BY <1>4, LoadChatsKept
    <2> HIDE DEF s
    <2> QED BY <1>3, <2>1 DEF Kept, s
  <1> QED BY <1>1, <1>5, <1>6 DEF r

LEMMA JobFinishesKept ==
    ASSUME NEW l, NEW k, PairGood(l, k), NEW open
    PROVE  Kept(JobFinishes(l, k, open), l, k)
  <1> DEFINE m == [l EXCEPT !.refreshing = @ /\ ~l.job.refresh]
             n == [k EXCEPT !.loading = FALSE]
             jobless == [m EXCEPT !.job = None]
  <1>1. JobFinishes(l, k, open) = JobEnds(m, n, open)
    BY DEF JobFinishes
  <1>2. SameAnswers(l, jobless) /\ DOMAIN m = LoadFields /\ m.held = l.held
    BY DEF PairGood, LoadGood, LoadFields, SameAnswers
  <1>3. SameRows(k, n)
    BY DEF PairGood, CollGood, CollShape, CollFields, CachesTyped, SameRows
  <1> HIDE DEF n
  <1>4. CollGood(n) /\ Advances(k, n) /\ n.identity = k.identity
    BY <1>3, SameRowsGood DEF PairGood, Advances
  <1>5. LoadGood(jobless, n.identity)
    <2> HIDE DEF jobless
    <2> QED BY <1>2, <1>4, SameAnswersGood DEF PairGood
  <1> HIDE DEF m
  <1>6. Kept(JobEnds(m, n, open), m, n)
    BY <1>2, <1>4, <1>5, JobEndsKept
  <1> QED BY <1>1, <1>2, <1>4, <1>6, KeptOn DEF PairGood

LEMMA ScheduleDeepKept ==
    ASSUME NEW l, NEW k, PairGood(l, k)
    PROVE  Kept(ScheduleDeepLoad(l, k), l, k)
  <1> DEFINE older == [l EXCEPT !.older = TRUE]
             timed == [l EXCEPT !.deepTimer = TRUE]
  <1>1. \/ ScheduleDeepLoad(l, k) \in {Both(older, k), Both(l, k), Both(timed, k)}
        \/ k.all # None /\ ScheduleDeepLoad(l, k) = ApplyCachedDeepChats(l, k, TRUE)
    <2>1. CASE k.all = None
      BY <2>1 DEF ScheduleDeepLoad
    <2>2. CASE k.all # None
      <3>1. ScheduleDeepLoad(l, k) \in {Both(older, k), Both(l, k), Both(timed, k),
                                        ApplyCachedDeepChats(l, k, TRUE)}
        BY DEF ScheduleDeepLoad
      <3> QED BY <2>2, <3>1
    <2> QED BY <2>1, <2>2
  <1>2. SameAnswers(l, older) /\ SameAnswers(l, timed) /\ SameAnswers(l, l)
    BY DEF PairGood, LoadGood, LoadFields, SameAnswers
  <1> HIDE DEF older, timed
  <1>3. Kept(Both(older, k), l, k) /\ Kept(Both(timed, k), l, k) /\ Kept(Both(l, k), l, k)
    BY <1>2, RowsKept
  <1> QED BY <1>1, <1>3, CachedDeepKept

LEMMA LoadDeepKept ==
    ASSUME NEW l, NEW k, PairGood(l, k), NEW force
    PROVE  Kept(LoadDeepOnce(l, k, force), l, k)
  <1> DEFINE asks == [l EXCEPT !.deep = NewDeep, !.older = TRUE]
  <1>1. \/ LoadDeepOnce(l, k, force) \in {Both(asks, k), Both(l, k)}
        \/ k.all # None /\ LoadDeepOnce(l, k, force) = ApplyCachedDeepChats(l, k, TRUE)
    <2>1. CASE k.all = None
      BY <2>1 DEF LoadDeepOnce
    <2>2. CASE k.all # None
      <3>1. LoadDeepOnce(l, k, force) \in {Both(asks, k), Both(l, k),
                                           ApplyCachedDeepChats(l, k, TRUE)}
        BY DEF LoadDeepOnce
      <3> QED BY <2>2, <3>1
    <2> QED BY <2>1, <2>2
  <1>2. SameAnswers(l, asks) /\ SameAnswers(l, l)
    BY DEF PairGood, LoadGood, LoadFields, SameAnswers, NewDeep, NoDeep, DeepFields
  <1> HIDE DEF asks
  <1>3. Kept(Both(asks, k), l, k) /\ Kept(Both(l, k), l, k)
    BY <1>2, RowsKept
  <1> QED BY <1>1, <1>3, CachedDeepKept

-----------------------------------------------------------------------------
(* The stamps of the bridge. *)

\* A set of numbers has a least one.
LEMMA LeastNumber ==
    ASSUME NEW T, T \subseteq Nat, T # {}
    PROVE  \E m \in T : \A n \in T : m <= n
  <1> DEFINE R == OpToRel(<, Nat)
  <1>1. PICK m \in T : \A n \in T : ~(<<n, m>> \in R)
    <2>1. IsWellFoundedOn(R, Nat)
      BY NatLessThanWellFounded
    <2> HIDE DEF R
    <2> QED BY <2>1, WFMin
  <1>2. ASSUME NEW n \in T, n < m PROVE FALSE
    <2>1. <<n, m>> \in R
      BY <1>2 DEF OpToRel
    <2> QED BY <1>1, <2>1
  <1> QED BY <1>2

LEMMA LatestStamp ==
    ASSUME NEW m \in Nat, NEW S, S \subseteq -1..m, 0 \in S
    PROVE  Max(S) \in 0..m
  <1> DEFINE T == {j \in Nat : m - j \in S}
  <1>1. T \subseteq Nat /\ T # {}
    <2>1. m \in T
      OBVIOUS
    <2> QED BY <2>1
  <1>2. PICK j \in T : \A i \in T : j <= i
    <2> HIDE DEF T
    <2> QED BY <1>1, LeastNumber
  <1>3. ASSUME NEW y \in S PROVE m - j >= y
    <2>1. m - y \in Nat /\ m - (m - y) = y /\ j \in Nat
      BY <1>2
    <2>2. m - y \in T
      BY <2>1
    <2>3. j <= m - y
      BY <1>2, <2>2
    <2> QED BY <2>1, <2>3
  <1>4. \E x \in S : \A y \in S : x >= y
    BY <1>2, <1>3
  <1>5. Max(S) \in S /\ \A y \in S : Max(S) >= y
    BY <1>4 DEF Max
  <1>6. Max(S) \in -1..m /\ Max(S) >= 0
    BY <1>5
  <1> QED BY <1>6

\* There are finitely many chats, so there is a latest stamp.
LEMMA StampsBounded ==
    ASSUME NEW list \in ChatLists
    PROVE  \E m \in Nat : \A c \in Chats : list[c] <= m
  <1>1. PICK n \in Nat : ExistsBijection(1..n, Chats)
    BY DrawerAssumption, FS_NatBijection
  <1>2. PICK f \in Bijection(1..n, Chats) : TRUE
    BY <1>1 DEF ExistsBijection
  <1>3. f \in [1..n -> Chats] /\ \A c \in Chats : \E i \in 1..n : f[i] = c
    BY <1>2 DEF Bijection, Injection, Surjection
  <1> DEFINE Bound(i, m) == \A j \in 1..n : j <= i => list[f[j]] <= m
             T == {i \in 0..n : ~\E m \in Nat : Bound(i, m)}
  <1>4. ASSUME T # {} PROVE FALSE
    <2>1. PICK i \in T : \A j \in T : i <= j
      <3>1. T \subseteq Nat
        OBVIOUS
      <3> HIDE DEF T
      <3> QED BY <1>4, <3>1, LeastNumber
    <2>2. i # 0
      <3>1. Bound(0, 0)
        OBVIOUS
      <3> QED BY <2>1, <3>1
    <2>3. i \in 0..n /\ ~\E m \in Nat : Bound(i, m)
      BY <2>1
    <2> HIDE DEF Bound
    <2>4. i \in 1..n /\ i - 1 \in 0..n
      BY <2>2, <2>3
    <2>5. i - 1 \notin T
      <3> HIDE DEF T
      <3> QED BY <2>1, <2>4
    <2>6. PICK m \in Nat : Bound(i - 1, m)
      BY <2>4, <2>5
    <2>7. list[f[i]] \in Nat
      BY <1>3, <2>4 DEF ChatLists
    <2> DEFINE b == IF m <= list[f[i]] THEN list[f[i]] ELSE m
    <2>8. b \in Nat /\ m <= b /\ list[f[i]] <= b
      BY <2>6, <2>7
    <2> HIDE DEF b
    <2>9. ASSUME NEW j \in 1..n, j <= i PROVE list[f[j]] <= b
      <3>1. list[f[j]] \in Nat
        BY <1>3 DEF ChatLists
      <3>2. CASE j = i
        BY <2>8, <3>2
      <3>3. CASE j # i
        <4>1. j <= i - 1
          BY <2>4, <2>9, <3>3
        <4>2. list[f[j]] <= m
          BY <2>6, <4>1 DEF Bound
        <4> QED BY <2>6, <2>8, <3>1, <4>2
      <3> QED BY <3>2, <3>3
    <2>10. Bound(i, b)
      BY <2>9 DEF Bound
    <2> QED BY <2>3, <2>8, <2>10
  <1>5. n \in 0..n
    OBVIOUS
  <1> HIDE DEF Bound
  <1>6. PICK m \in Nat : Bound(n, m)
    BY <1>4, <1>5
  <1>7. ASSUME NEW c \in Chats PROVE list[c] <= m
    <2>1. PICK i \in 1..n : f[i] = c
      BY <1>3
    <2>2. i <= n
      BY <2>1
    <2> QED BY <1>6, <2>1, <2>2 DEF Bound
  <1> QED BY <1>7

BridgeStamps == \E m \in Nat : bridge \in [Chats -> -1..m]

LEMMA NowIsLatest ==
    ASSUME NEW m \in Nat, bridge \in [Chats -> -1..m]
    PROVE  Now \in 0..m
  BY LatestStamp DEF Now

\* A page holds chats of the bridge it was asked of, and so does a list of pages.
LEMMA PageGood ==
    ASSUME BridgeStamps, NEW offset, NEW limit
    PROVE  AnswerGood(Page(offset, limit), identity) /\ Page(offset, limit) \in ChatLists
  <1> DEFINE held == {c \in Live : Place(c) \in offset..(offset + limit - 1)}
  <1>1. PICK m \in Nat : bridge \in [Chats -> -1..m]
    BY DEF BridgeStamps
  <1>2. Page(offset, limit) = Only(bridge, held)
    BY DEF Page
  <1>3. \A c \in held : c \in Chats /\ bridge[c] > 0 /\ Home[c] = identity
    BY DEF Live
  <1> HIDE DEF held
  <1>4. Page(offset, limit) \in ChatLists
    BY <1>1, <1>2, <1>3 DEF Only, ChatLists, Absent
  <1>5. AtHome(Page(offset, limit), identity)
    BY <1>2, <1>3 DEF AtHome, Only
  <1> QED BY <1>4, <1>5 DEF AnswerGood

LEMMA ListingGood ==
    ASSUME BridgeStamps, NEW limit
    PROVE  Listing(limit) \in ChatLists /\ AnswerGood(Listing(limit), identity)
  BY PageGood DEF Listing

LEMMA MergeByIdGood ==
    ASSUME NEW list \in ChatLists, NEW page \in ChatLists, NEW id,
           AtHome(list, id), AtHome(page, id)
    PROVE  MergeById(list, page) \in ChatLists /\ AtHome(MergeById(list, page), id)
  BY DEF MergeById, ChatLists, AtHome

-----------------------------------------------------------------------------
(* The specification. *)

\* While the file is being read at mount, it holds nothing newer than the rows
\* and what was read of it show together; once it was read, than the rows show.
HydrationGood(k, h) ==
    /\ h = None => Below(k.file, k.shown)
    /\ h # None =>
        /\ DOMAIN h = {"gen", "list"} /\ h.gen = k.generation
        /\ h.list # None =>
            /\ h.list \in ChatLists
            /\ \A c \in Chats : k.file[c] <= k.shown[c] \/ k.file[c] <= h.list[c]

DeletionGood(k, d) ==
    d # None => /\ DOMAIN d = {"chat", "stamp", "at"} /\ d.chat \in Chats /\ d.stamp \in Nat
                /\ k.hydrated

\* Inductive: rows and file are in order, they and the answers still to be
\* applied are those of the bridge the profile names, and a closed drawer holds
\* no stream.
DrawerInv ==
    /\ BridgeStamps
    /\ coll.identity = identity
    /\ CollGood(coll)
    /\ LoadGood(load, identity)
    /\ load.held => active
    /\ HydrationGood(coll, hydration)
    /\ DeletionGood(coll, deletion)

LEMMA AdvancesHydration ==
    ASSUME NEW k, NEW k2, CollShape(k), CollShape(k2), Advances(k, k2), NEW h,
           HydrationGood(k, h)
    PROVE  HydrationGood(k2, h)
  <1>1. k2.generation = k.generation
    BY DEF Advances
  <1>2. ASSUME NEW c \in Chats
        PROVE  /\ k.file[c] \in Nat /\ k.shown[c] \in Nat /\ k2.file[c] \in Nat
               /\ k2.shown[c] \in Nat
               /\ \/ k2.file[c] <= k2.shown[c]
                  \/ k2.file[c] = k.file[c] /\ k.shown[c] <= k2.shown[c]
    BY DEF Advances, CollShape, ChatLists
  <1>3. Below(k.file, k.shown) => Below(k2.file, k2.shown)
    BY <1>2 DEF Below
  <1>4. ASSUME NEW list \in ChatLists,
               \A c \in Chats : k.file[c] <= k.shown[c] \/ k.file[c] <= list[c]
        PROVE  \A c \in Chats : k2.file[c] <= k2.shown[c] \/ k2.file[c] <= list[c]
    BY <1>2, <1>4 DEF ChatLists
  <1> QED BY <1>1, <1>3, <1>4 DEF HydrationGood

\* A step that moves rows and loads as the lemmas above say keeps the invariant.
LEMMA StepInv ==
    ASSUME DrawerInv, CollGood(coll'), Advances(coll, coll'), LoadGood(load', identity),
           load'.held => active', UNCHANGED <<bridge, identity, hydration>>,
           deletion' = deletion \/ deletion' = None
    PROVE  DrawerInv'
  <1>1. BridgeStamps'
    BY DEF DrawerInv, BridgeStamps
  <1>2. HydrationGood(coll', hydration')
    BY AdvancesHydration DEF DrawerInv, CollGood
  <1>3. DeletionGood(coll', deletion')
    BY DEF DrawerInv, DeletionGood, Advances
  <1>4. coll'.identity = identity'
    BY DEF DrawerInv, Advances
  <1> QED BY <1>1, <1>2, <1>3, <1>4 DEF DrawerInv

LEMMA BecomesInv ==
    ASSUME DrawerInv, NEW r, Kept(r, load, coll), Becomes(r),
           UNCHANGED <<bridge, identity, hydration, deletion>>, active => active'
    PROVE  DrawerInv'
  <1>1. load' = r.load /\ coll' = r.coll
    BY DEF Becomes
  <1>2. LoadGood(load', identity) /\ (load'.held => active')
    BY <1>1 DEF DrawerInv, Kept
  <1> QED BY <1>1, <1>2, StepInv DEF Kept

\* Steps that leave the rows and the file alone.
LEMMA RowsUntouched ==
    ASSUME DrawerInv, SameRows(coll, coll') \/ coll' = coll,
           SameAnswers(load, load') \/ load' = load, active => active',
           UNCHANGED <<bridge, identity, hydration>>, deletion' = deletion \/ deletion' = None
    PROVE  DrawerInv'
  <1>1. CollGood(coll') /\ Advances(coll, coll')
    BY SameRowsGood, AdvancesSelf DEF DrawerInv, CollGood
  <1>2. LoadGood(load', identity) /\ (load'.held => active')
    BY SameAnswersGood DEF DrawerInv
  <1> QED BY <1>1, <1>2, StepInv

LEMMA ScheduleLoadSame ==
    ASSUME NEW open, NEW force, NEW l, NEW id, LoadGood(l, id)
    PROVE  SameAnswers(l, ScheduleLoad(l, open, force))
  BY DEF LoadGood, LoadFields, SameAnswers, ScheduleLoad

LEMMA DrawerInit == Init => DrawerInv
  <1> SUFFICES ASSUME Init PROVE DrawerInv
    OBVIOUS
  <1> PICK s \in Start : bridge = s.bridge /\
                   coll = [shown |-> Empty, deleted |-> {}, hydrated |-> FALSE,
                   authoritative |-> FALSE,
                   loading |-> TRUE, pending |-> None, fast |-> None, full |-> None,
                   all |-> None, age |-> 0, file |-> s.file, generation |-> 0, identity |-> 1,
                   leaked |-> FALSE]
    BY DEF Init
  <1>1. /\ s.file \in ChatLists /\ s.bridge \in ChatLists
        /\ \A c \in Chats : s.file[c] # Absent => Home[c] = 1
    BY DrawerAssumption DEF ChatLists
  <1>2. CollGood(coll)
    <2>1. Empty \in ChatLists
      BY DEF Empty, ChatLists, Absent
    <2> QED BY <1>1, <2>1 DEF CollGood, CollShape, CachesTyped, CollFields, GoneForGood,
                              SavedAtHome, SavedIsShown, AtHome, Empty
  <1>3. LoadGood(load, identity) /\ ~load.held
    BY EmptyGood DEF Init, LoadGood, LoadFields, NoStream, NoDeep, StreamFields, DeepFields,
                     AnswerGood, Job, JobShape
  <1>4. BridgeStamps
    <2>1. PICK m \in Nat : \A c \in Chats : s.bridge[c] <= m
      BY <1>1, StampsBounded
    <2>2. s.bridge \in [Chats -> -1..m]
      BY <1>1, <2>1 DEF ChatLists
    <2> QED BY <2>2 DEF BridgeStamps
  <1>5. HydrationGood(coll, hydration) /\ DeletionGood(coll, deletion)
    <2>1. hydration = [gen |-> 0, list |-> None] /\ deletion = None
      BY DEF Init
    <2>2. HydrationGood(coll, [gen |-> 0, list |-> None])
      <3>1. [gen |-> 0, list |-> None] # None
        BY DrawerAssumption
      <3> QED BY <3>1 DEF HydrationGood
    <2> QED BY <2>1, <2>2 DEF DeletionGood
  <1> QED BY <1>2, <1>3, <1>4, <1>5 DEF Init, DrawerInv

LEMMA EventInv == ASSUME DrawerInv, ReceiveEvent PROVE DrawerInv'
  <1> DEFINE c == Head(feed).chat
             k == RemoveChat(ForgetChat(coll, c), c)
  <1>1. coll' = k \/ coll' = coll
    BY DEF ReceiveEvent
  <1>2. CollGood(ForgetChat(coll, c)) /\ Advances(coll, ForgetChat(coll, c))
    BY ForgetGood, SameRowsGood DEF DrawerInv
  <1>3. CollGood(k) /\ Advances(ForgetChat(coll, c), k)
    BY <1>2, RemoveGood
  <1> HIDE DEF k
  <1>4. Advances(coll, k) /\ Advances(coll, coll)
    BY <1>2, <1>3, AdvancesOn, AdvancesSelf DEF DrawerInv, CollGood
  <1>5. LoadGood(load', identity) /\ (load'.held => load.held)
    BY ScheduleLoadSame, SameAnswersGood DEF DrawerInv, ReceiveEvent
  <1>6. CollGood(coll') /\ Advances(coll, coll') /\ (load'.held => active')
    BY <1>1, <1>3, <1>4, <1>5 DEF DrawerInv, ReceiveEvent
  <1> QED BY <1>5, <1>6, StepInv DEF ReceiveEvent

LEMMA TimedInv == ASSUME DrawerInv, TimerFires \/ RefreshDrawer PROVE DrawerInv'
  <1>1. CASE TimerFires
    <2> DEFINE m == [load EXCEPT !.timer = "none"]
               r == LoadChats(m, coll, active, active, FALSE, load.timer = "force")
    <2>1. SameAnswers(load, m)
      BY DEF DrawerInv, LoadGood, LoadFields, SameAnswers
    <2>2. Becomes(r) /\ UNCHANGED <<bridge, identity, hydration, deletion, active>>
      BY <1>1 DEF TimerFires
    <2> HIDE DEF m
    <2>3. PairGood(m, coll) /\ (m.held => load.held)
      BY <2>1, SameAnswersGood DEF DrawerInv, PairGood
    <2>4. Kept(r, m, coll)
      BY <2>3, LoadChatsKept
    <2> HIDE DEF r
    <2>5. Kept(r, load, coll)
      BY <2>3, <2>4 DEF Kept
    <2> QED BY <2>2, <2>5, BecomesInv
  <1>2. CASE RefreshDrawer
    <2>1. Kept(LoadChats(load, coll, active, active, TRUE, TRUE), load, coll)
      BY LoadChatsKept DEF DrawerInv, PairGood
    <2> QED BY <1>2, <2>1, BecomesInv DEF RefreshDrawer
  <1> QED BY <1>1, <1>2

LEMMA OpenInv == ASSUME DrawerInv, NEW stale, OpenDrawer(stale) PROVE DrawerInv'
  <1> DEFINE refresh == ~load.loadedWhileActive \/ stale
  <1>1. \/ Becomes(LoadChats(load, coll, TRUE, TRUE, FALSE, refresh))
        \/ coll' = coll /\ load' = load
    BY DEF OpenDrawer
  <1> HIDE DEF refresh
  <1>2. Kept(LoadChats(load, coll, TRUE, TRUE, FALSE, refresh), load, coll)
    BY LoadChatsKept DEF DrawerInv, PairGood
  <1> QED BY <1>1, <1>2, BecomesInv, RowsUntouched DEF OpenDrawer

LEMMA CloseInv == ASSUME DrawerInv, CloseDrawer PROVE DrawerInv'
  <1> DEFINE primed == IF coll.hydrated THEN Both(load, coll)
                       ELSE LoadChats(load, coll, FALSE, FALSE, FALSE, FALSE)
             l == [CancelStream(primed.load) EXCEPT
                      !.timer = "none", !.queued = None, !.refreshing = FALSE, !.older = FALSE]
  <1>1. Becomes(Both(l, primed.coll)) /\ UNCHANGED <<bridge, identity, hydration, deletion>>
    BY DEF CloseDrawer
  <1>2. SameAnswers(load, load)
    BY DEF DrawerInv, LoadGood, SameAnswers
  <1>3. Kept(primed, load, coll)
    BY <1>2, LoadChatsKept, RowsKept DEF DrawerInv, PairGood
  <1> HIDE DEF primed
  <1>4. SameAnswers(primed.load, CancelStream(primed.load)) /\ ~CancelStream(primed.load).held
    BY <1>3, CancelGood DEF Kept
  <1>5. LoadGood(CancelStream(primed.load), coll.identity)
    BY <1>3, <1>4, SameAnswersGood DEF Kept
  <1>6. SameAnswers(CancelStream(primed.load), l) /\ ~l.held
    BY <1>4, <1>5 DEF LoadGood, LoadFields, SameAnswers
  <1> HIDE DEF l
  <1>7. LoadGood(l, identity)
    BY <1>5, <1>6, SameAnswersGood DEF DrawerInv
  <1>8. load' = l /\ coll' = primed.coll
    BY <1>1 DEF Becomes, Both
  <1> QED BY <1>1, <1>3, <1>6, <1>7, <1>8, StepInv DEF Kept

LEMMA ListedKept ==
    ASSUME DrawerInv, load.job # None, NEW k, CollGood(k), Advances(coll, k),
           NEW list \in ChatLists
    PROVE  Kept(Listed(k, list), load, coll)
  <1> DEFINE j == load.job
             applied == IF active \/ j.at = "prime"
                        THEN ApplyChats(k, list, ListLimit(j), TRUE, FALSE) ELSE k
             deep == IF active THEN ScheduleDeepLoad(load, applied) ELSE Both(load, applied)
             full == [load EXCEPT !.job.at = "full", !.job.answer = None]
  <1>1. Listed(k, list) = CASE j.at = "fast" -> Both(full, applied)
                            [] j.at = "full" -> JobFinishes(deep.load, deep.coll, active)
                            [] OTHER -> JobFinishes(load, applied, active)
    BY Zenon DEF Listed
  <1>2. CollGood(applied) /\ Advances(k, applied)
    BY ApplyGood, AdvancesSelf DEF CollGood
  <1> HIDE DEF applied
  <1>3. Advances(coll, applied) /\ applied.identity = identity
    <2>1. Advances(coll, applied)
      BY <1>2, AdvancesOn DEF DrawerInv, CollGood
    <2> QED BY <2>1 DEF DrawerInv, Advances
  <1>4. SameAnswers(load, full)
    BY DEF DrawerInv, LoadGood, LoadFields, SameAnswers, JobShape
  <1> HIDE DEF full
  <1>5. Kept(Both(full, applied), load, coll)
    BY <1>2, <1>3, <1>4, SameAnswersGood, BothKept DEF DrawerInv
  <1>6. PairGood(load, applied) /\ SameAnswers(load, load)
    BY <1>2, <1>3 DEF PairGood, DrawerInv, LoadGood, SameAnswers
  <1>7. Kept(deep, load, applied)
    BY <1>6, ScheduleDeepKept, RowsKept
  <1> HIDE DEF deep
  <1>8. Kept(JobFinishes(deep.load, deep.coll, active), load, coll)
    <2>1. PairGood(deep.load, deep.coll) /\ (deep.load.held => load.held)
      BY <1>7 DEF Kept, PairGood, Advances
    <2>2. Kept(JobFinishes(deep.load, deep.coll, active), deep.load, deep.coll)
      BY <2>1, JobFinishesKept
    <2>3. Advances(coll, deep.coll)
      BY <1>2, <1>3, <1>7, AdvancesOn DEF DrawerInv, CollGood, Kept
    <2> QED BY <2>1, <2>2, <2>3, KeptOn DEF PairGood, DrawerInv
  <1>9. Kept(JobFinishes(load, applied, active), load, coll)
    <2>1. Kept(JobFinishes(load, applied, active), load, applied)
      BY <1>6, JobFinishesKept
    <2> QED BY <1>2, <1>3, <2>1, KeptOn DEF DrawerInv
  <1> HIDE DEF j
  <1> QED BY <1>1, <1>5, <1>8, <1>9

LEMMA ListingsInv ==
    ASSUME DrawerInv, JobReads \/ ListArrives \/ ListFromCache \/ JobFails
    PROVE  DrawerInv'
  <1>1. CASE JobReads
    <2>1. Listing(ListLimit(load.job)) \in ChatLists
      BY ListingGood DEF DrawerInv
    <2>2. SameAnswers(load, load')
      <3>1. load.job # None /\ load.job.at # "start"
            /\ load' = [load EXCEPT !.job.answer = Listing(ListLimit(load.job))]
        BY <1>1 DEF JobReads, Lists
      <3> QED BY <2>1, <3>1 DEF DrawerInv, LoadGood, LoadFields, SameAnswers, JobShape
    <2> QED BY <1>1, <2>2, RowsUntouched DEF JobReads
  <1>2. CASE ListArrives
    <2> DEFINE list == load.job.answer
               k == RememberChats(coll, list, ListLimit(load.job))
    <2>1. load.job # None /\ list \in ChatLists
      BY <1>2 DEF ListArrives, Lists, DrawerInv, LoadGood, JobShape
    <2>2. CollGood(k) /\ Advances(coll, k)
      BY <2>1, RememberGood, SameRowsGood DEF DrawerInv
    <2>3. Becomes(Listed(k, list)) /\ UNCHANGED <<bridge, identity, hydration, deletion, active>>
      BY <1>2 DEF ListArrives
    <2> HIDE DEF k
    <2> QED BY <2>1, <2>2, <2>3, ListedKept, BecomesInv
  <1>3. CASE ListFromCache
    <2> DEFINE list == IF ListLimit(load.job) = FastLimit THEN coll.fast ELSE coll.full
    <2>1. /\ Becomes(Listed(coll, list)) /\ load.job # None /\ list # None
          /\ UNCHANGED <<bridge, identity, hydration, deletion, active>>
      BY <1>3 DEF ListFromCache, Lists
    <2>2. list \in ChatLists
      BY <2>1 DEF DrawerInv, CollGood, CollShape, CachesTyped
    <2> HIDE DEF list
    <2>3. Kept(Listed(coll, list), load, coll)
      BY <2>1, <2>2, ListedKept, AdvancesSelf DEF DrawerInv, CollGood
    <2> QED BY <2>1, <2>3, BecomesInv
  <1>4. CASE JobFails
    <2> DEFINE l == [load EXCEPT !.stream = NoStream, !.job.at = "fast", !.job.answer = None]
    <2>1. load.job # None /\ Becomes(JobBreaks)
          /\ UNCHANGED <<bridge, identity, hydration, deletion, active>>
      BY <1>4 DEF JobFails
    <2>2. CASE load.job.at = "start"
      <3>1. SameAnswers(load, l)
        BY <2>1, <2>2 DEF DrawerInv, LoadGood, LoadFields, SameAnswers, NoStream, StreamFields,
                          JobShape
      <3>2. JobBreaks = Both(l, coll)
        BY <2>2 DEF JobBreaks
      <3> HIDE DEF l
      <3>3. Kept(Both(l, coll), load, coll)
        BY <3>1, RowsKept DEF DrawerInv, PairGood
      <3> QED BY <2>1, <3>2, <3>3, BecomesInv
    <2>3. CASE load.job.at # "start"
      <3>1. JobBreaks = JobFinishes(load, coll, active)
        BY <2>3 DEF JobBreaks
      <3>2. Kept(JobFinishes(load, coll, active), load, coll)
        BY JobFinishesKept DEF DrawerInv, PairGood
      <3> QED BY <2>1, <3>1, <3>2, BecomesInv
    <2> QED BY <2>2, <2>3
  <1> QED BY <1>1, <1>2, <1>3, <1>4

LEMMA StreamInv ==
    ASSUME DrawerInv, StreamStarted \/ StreamReads \/ StreamBatch \/ StreamError
    PROVE  DrawerInv'
  <1>1. CASE StreamStarted
    <2>1. UNCHANGED <<bridge, identity, hydration, deletion, active>>
      BY <1>1 DEF StreamStarted
    <2>2. CASE active /\ load.stream.open
      <3> DEFINE holds == [load EXCEPT !.held = TRUE]
                 jobless == [holds EXCEPT !.job = None]
      <3>1. Becomes(JobEnds(holds, coll, active))
        BY <1>1, <2>2 DEF StreamStarted
      <3>2. LoadGood(jobless, coll.identity) /\ DOMAIN holds = LoadFields
        <4>1. /\ DOMAIN jobless = LoadFields /\ jobless.stream = load.stream
              /\ jobless.deep = load.deep /\ jobless.held = TRUE /\ jobless.job = None
              /\ DOMAIN holds = LoadFields
          BY DEF DrawerInv, LoadGood, LoadFields
        <4> HIDE DEF jobless, holds
        <4> QED BY <2>2, <4>1 DEF DrawerInv, LoadGood
      <3> HIDE DEF holds
      <3>3. Kept(JobEnds(holds, coll, active), holds, coll)
        BY <3>2, JobEndsKept DEF DrawerInv
      <3>4. LoadGood(load', identity) /\ CollGood(coll') /\ Advances(coll, coll')
        BY <3>1, <3>3 DEF Becomes, Kept, DrawerInv
      <3> QED BY <2>1, <2>2, <3>4, StepInv
    <2>3. CASE ~(active /\ load.stream.open)
      <3> DEFINE drops == [load EXCEPT !.stream = NoStream, !.held = FALSE]
      <3>1. Becomes(JobFinishes(drops, coll, active))
        BY <1>1, <2>3 DEF StreamStarted
      <3>2. SameAnswers(load, drops)
        BY DEF DrawerInv, LoadGood, LoadFields, SameAnswers, NoStream, StreamFields
      <3> HIDE DEF drops
      <3>3. PairGood(drops, coll) /\ (drops.held => load.held)
        BY <3>2, SameAnswersGood DEF DrawerInv, PairGood
      <3>4. Kept(JobFinishes(drops, coll, active), drops, coll)
        BY <3>3, JobFinishesKept
      <3>5. Kept(JobFinishes(drops, coll, active), load, coll)
        BY <3>3, <3>4 DEF Kept
      <3> QED BY <2>1, <3>1, <3>5, BecomesInv
    <2> QED BY <2>2, <2>3
  <1>2. CASE StreamReads
    <2>1. /\ DOMAIN load' = LoadFields /\ load'.deep = load.deep
          /\ DOMAIN load'.stream = DOMAIN load.stream /\ load'.stream.open = load.stream.open
          /\ load'.stream.answer = Listing(BatchLimit)
          /\ load'.job = load.job /\ load'.held = load.held
      BY <1>2 DEF StreamReads, DrawerInv, LoadGood, LoadFields, StreamFields
    <2>2. LoadGood(load', identity) /\ (load'.held => active)
      BY <2>1, ListingGood DEF DrawerInv, LoadGood
    <2>3. CollGood(coll') /\ Advances(coll, coll')
      BY <1>2, AdvancesSelf DEF DrawerInv, CollGood, StreamReads
    <2> QED BY <1>2, <2>2, <2>3, StepInv DEF StreamReads
  <1>3. CASE StreamBatch
    <2> DEFINE list == load.stream.answer
               done == load.stream.left = 1
               k == RememberChats(coll, list, BatchLimit)
               l == [load EXCEPT !.stream = IF done THEN NoStream
                                        ELSE [load.stream EXCEPT
                                                !.left = load.stream.left - 1,
                                                !.answer = None],
                                 !.held = @ /\ ~done]
               authoritative == done /\ Cardinality(In(list)) < BatchLimit
               applied == ApplyChats(k, list, BatchLimit, TRUE, authoritative)
               shown == [l EXCEPT !.refreshing = @ /\ ~load.stream.refresh]
    <2>1. \/ Becomes(Both(l, k))
          \/ Becomes(ScheduleDeepLoad(shown, applied))
          \/ Becomes(Both(shown, applied))
      BY <1>3 DEF StreamBatch
    <2>2. list \in ChatLists /\ AtHome(list, identity)
      BY <1>3 DEF DrawerInv, LoadGood, StreamBatch, AnswerGood
    <2>3. CollGood(k) /\ Advances(coll, k)
      BY <2>2, RememberGood, SameRowsGood DEF DrawerInv
    <2> HIDE DEF k
    <2>4. k.identity = identity /\ authoritative \in BOOLEAN
      BY <2>3 DEF Advances, DrawerInv
    <2> HIDE DEF authoritative
    <2>5. CollGood(applied) /\ Advances(k, applied)
      BY <2>2, <2>3, <2>4, ApplyGood
    <2> HIDE DEF applied
    <2>6. Advances(coll, applied) /\ applied.identity = identity
      <3>1. Advances(coll, applied)
        BY <2>3, <2>5, AdvancesOn DEF DrawerInv, CollGood
      <3> QED BY <3>1 DEF DrawerInv, Advances
    <2>7. SameAnswers(load, l)
      <3>1. CASE done
        BY <3>1 DEF DrawerInv, LoadGood, LoadFields, SameAnswers, NoStream, StreamFields
      <3>2. CASE ~done
        <4>1. l = [load EXCEPT !.stream = [load.stream EXCEPT !.left = load.stream.left - 1,
                                                              !.answer = None],
                               !.held = @ /\ ~done]
          BY <3>2
        <4> HIDE DEF l
        <4> QED BY <3>2, <4>1 DEF DrawerInv, LoadGood, LoadFields, SameAnswers, StreamFields
      <3> QED BY <3>1, <3>2
    <2> HIDE DEF l
    <2>8. SameAnswers(l, shown)
      BY <2>7 DEF LoadFields, SameAnswers
    <2> HIDE DEF shown
    <2>9. /\ LoadGood(l, identity) /\ LoadGood(shown, identity)
          /\ (l.held => load.held) /\ (shown.held => load.held)
      BY <2>7, <2>8, SameAnswersGood DEF DrawerInv
    <2>10. Kept(Both(l, k), load, coll) /\ Kept(Both(shown, applied), load, coll)
      BY <2>3, <2>5, <2>6, <2>9, BothKept DEF DrawerInv
    <2>11. Kept(ScheduleDeepLoad(shown, applied), load, coll)
      <3>1. Kept(ScheduleDeepLoad(shown, applied), shown, applied)
        BY <2>5, <2>6, <2>9, ScheduleDeepKept DEF PairGood
      <3> QED BY <2>5, <2>6, <2>9, <3>1, KeptOn DEF DrawerInv
    <2>12. UNCHANGED <<bridge, identity, hydration, deletion, active>>
      BY <1>3 DEF StreamBatch
    <2> QED BY <2>1, <2>10, <2>11, <2>12, BecomesInv
  <1>4. CASE StreamError
    <2>1. SameAnswers(load, load')
      BY <1>4 DEF DrawerInv, LoadGood, LoadFields, SameAnswers, StreamError, NoStream,
                  StreamFields
    <2>2. SameRows(coll, coll')
      BY <1>4 DEF DrawerInv, CollGood, CollShape, CollFields, CachesTyped, SameRows, StreamError
    <2> QED BY <1>4, <2>1, <2>2, RowsUntouched DEF StreamError
  <1> QED BY <1>1, <1>2, <1>3, <1>4

LEMMA DeepInv ==
    ASSUME DrawerInv,
           \/ DeepTimerFires \/ RetryDeepChatList \/ DeepPage \/ DeepArrives \/ DeepFails
           \/ \E partial \in BOOLEAN : DeepReads(partial)
    PROVE  DrawerInv'
  <1>1. ASSUME NEW l, NEW force, SameAnswers(load, l), Becomes(LoadDeepOnce(l, coll, force)),
               UNCHANGED <<bridge, identity, hydration, deletion, active>>
        PROVE  DrawerInv'
    <2>1. PairGood(l, coll) /\ (l.held => load.held)
      BY <1>1, SameAnswersGood DEF DrawerInv, PairGood
    <2>2. Kept(LoadDeepOnce(l, coll, force), l, coll)
      BY <2>1, LoadDeepKept
    <2>3. Kept(LoadDeepOnce(l, coll, force), load, coll)
      BY <2>1, <2>2 DEF Kept
    <2> QED BY <1>1, <2>3, BecomesInv
  <1>2. CASE DeepTimerFires
    <2> DEFINE l == [load EXCEPT !.deepTimer = FALSE]
    <2>1. SameAnswers(load, l)
      BY DEF DrawerInv, LoadGood, LoadFields, SameAnswers
    <2>2. /\ Becomes(LoadDeepOnce(l, coll, FALSE))
          /\ UNCHANGED <<bridge, identity, hydration, deletion, active>>
      BY <1>2 DEF DeepTimerFires
    <2> HIDE DEF l
    <2> QED BY <1>1, <2>1, <2>2
  <1>3. CASE RetryDeepChatList
    <2> DEFINE l == [load EXCEPT !.deepLoaded = FALSE]
               deep == LoadDeepOnce(l, coll, TRUE)
               r == LoadChats(deep.load, deep.coll, active, active, TRUE, TRUE)
    <2>1. SameAnswers(load, l)
      BY DEF DrawerInv, LoadGood, LoadFields, SameAnswers
    <2>2. Becomes(r) /\ UNCHANGED <<bridge, identity, hydration, deletion, active>>
      BY <1>3 DEF RetryDeepChatList
    <2> HIDE DEF l
    <2>3. PairGood(l, coll) /\ (l.held => load.held)
      BY <2>1, SameAnswersGood DEF DrawerInv, PairGood
    <2>4. Kept(deep, l, coll)
      BY <2>3, LoadDeepKept
    <2> HIDE DEF deep
    <2>5. PairGood(deep.load, deep.coll)
      BY <2>4 DEF Kept, PairGood, Advances
    <2>6. Kept(r, deep.load, deep.coll)
      BY <2>5, LoadChatsKept
    <2> HIDE DEF r
    <2>7. Kept(r, load, coll)
      <3>1. deep.load.held => load.held
        BY <2>3, <2>4 DEF Kept
      <3> QED BY <2>3, <2>4, <2>6, <3>1, KeptOn DEF Kept, PairGood
    <2> QED BY <2>2, <2>7, BecomesInv
  <1>4. ASSUME NEW partial \in BOOLEAN, DeepReads(partial) PROVE DrawerInv'
    <2> DEFINE page == Page(load.deep.offset, DeepPageLimit)
    <2>1. /\ DOMAIN load' = LoadFields /\ load'.stream = load.stream
          /\ DOMAIN load'.deep = DOMAIN load.deep
          /\ load'.deep.answer = page /\ load'.deep.list = load.deep.list
          /\ load'.job = load.job /\ load'.held = load.held
      BY <1>4 DEF DeepReads, DrawerInv, LoadGood, LoadFields, DeepFields
    <2>2. AnswerGood(page, identity)
      BY PageGood DEF DrawerInv
    <2> HIDE DEF page
    <2>3. LoadGood(load', identity) /\ (load'.held => active)
      BY <2>1, <2>2 DEF DrawerInv, LoadGood
    <2>4. CollGood(coll') /\ Advances(coll, coll')
      BY <1>4, AdvancesSelf DEF DrawerInv, CollGood, DeepReads
    <2> QED BY <1>4, <2>3, <2>4, StepInv DEF DeepReads
  <1>5. ASSUME load.deep.answer # None
        PROVE  /\ DeepList \in ChatLists /\ AtHome(DeepList, identity)
               /\ CollGood(OnPage(coll)) /\ Advances(coll, OnPage(coll))
    <2>1. DeepList \in ChatLists /\ AtHome(DeepList, identity)
      BY <1>5, MergeByIdGood DEF DeepList, DrawerInv, LoadGood, AnswerGood
    <2>2. CollGood(OnPage(coll)) /\ Advances(coll, OnPage(coll))
      BY <2>1, ApplyGood, AdvancesSelf DEF OnPage, DrawerInv, CollGood
    <2> QED BY <2>1, <2>2
  <1>6. CASE DeepPage
    <2>1. /\ coll' = OnPage(coll) /\ load.deep.answer # None
          /\ UNCHANGED <<bridge, identity, active, hydration, deletion>>
      BY <1>6 DEF DeepPage
    <2>2. /\ DOMAIN load' = LoadFields /\ load'.stream = load.stream
          /\ DOMAIN load'.deep = DOMAIN load.deep
          /\ load'.deep.answer = None /\ load'.deep.list = DeepList
          /\ load'.job = load.job /\ load'.held = load.held
      BY <1>6 DEF DeepPage, DrawerInv, LoadGood, LoadFields, DeepFields
    <2>3. LoadGood(load', identity) /\ (load'.held => active')
      BY <1>5, <2>1, <2>2 DEF DrawerInv, LoadGood, AnswerGood
    <2> QED BY <1>5, <2>1, <2>3, StepInv
  <1>7. CASE DeepArrives
    <2> DEFINE partial == load.deep.partial \/ NoProgress
               shown == OnPage(coll)
               k == [shown EXCEPT !.all = DeepList]
               n == ApplyChats(k, DeepList, 0, TRUE, ~partial)
    <2>1. /\ coll' \in {k, n} /\ load.deep.answer # None
          /\ UNCHANGED <<bridge, identity, active, hydration, deletion>>
      BY <1>7 DEF DeepArrives
    <2>2. SameAnswers(load, load')
      BY <1>7 DEF DrawerInv, LoadGood, LoadFields, SameAnswers, DeepArrives, NoDeep, DeepFields
    <2>3. /\ DeepList \in ChatLists /\ AtHome(DeepList, identity)
          /\ CollGood(shown) /\ Advances(coll, shown)
      BY <1>5, <2>1
    <2> HIDE DEF shown
    <2>4. SameRows(shown, k)
      BY <2>3 DEF CollGood, CollShape, CollFields, CachesTyped, SameRows
    <2> HIDE DEF k
    <2>5. CollGood(k) /\ Advances(shown, k)
      BY <2>3, <2>4, SameRowsGood
    <2>6. Advances(coll, k) /\ k.identity = identity
      <3>1. Advances(coll, k)
        BY <2>3, <2>5, AdvancesOn DEF DrawerInv, CollGood
      <3> QED BY <3>1 DEF DrawerInv, Advances
    <2>7. (~partial) \in BOOLEAN
      OBVIOUS
    <2> HIDE DEF partial
    <2>8. CollGood(n) /\ Advances(k, n)
      BY <2>3, <2>5, <2>6, <2>7, ApplyGood
    <2> HIDE DEF n
    <2>9. Advances(coll, n)
      BY <2>5, <2>6, <2>8, AdvancesOn DEF DrawerInv, CollGood
    <2>10. LoadGood(load', identity) /\ (load'.held => active)
      BY <2>2, SameAnswersGood DEF DrawerInv
    <2> QED BY <2>1, <2>5, <2>6, <2>8, <2>9, <2>10, StepInv
  <1>8. CASE DeepFails
    <2>1. SameAnswers(load, load')
      BY <1>8 DEF DrawerInv, LoadGood, LoadFields, SameAnswers, DeepFails, NoDeep, DeepFields
    <2> QED BY <1>8, <2>1, RowsUntouched DEF DeepFails
  <1> QED BY <1>2, <1>3, <1>4, <1>6, <1>7, <1>8

\* A flushed write of this generation is shown, so the file gets no further than
\* the rows; what is read of the file at mount is applied to the rows unless an
\* authoritative list has replaced both.
LEMMA FileInv ==
    ASSUME DrawerInv, FlushPending \/ HydrationReads \/ HydratePersistedChats
    PROVE  DrawerInv'
  <1>1. CASE FlushPending
    <2>1. /\ DOMAIN coll' = CollFields /\ coll'.pending = None
          /\ coll'.file = Guarded(coll.file, Merge(coll.file, coll.pending.list),
                                  coll.pending.gen, coll.generation)
          /\ coll'.shown = coll.shown /\ coll'.deleted = coll.deleted
          /\ coll'.generation = coll.generation /\ coll'.leaked = coll.leaked
          /\ coll'.identity = coll.identity /\ coll'.hydrated = coll.hydrated
          /\ coll'.authoritative = coll.authoritative
          /\ coll'.fast = coll.fast /\ coll'.full = coll.full /\ coll'.all = coll.all
      BY <1>1 DEF FlushPending, PersistChatSummaries, DrawerInv, CollGood, CollShape, CollFields
    <2>2. coll.pending # None /\ UNCHANGED <<load, bridge, identity, hydration, deletion, active>>
      BY <1>1 DEF FlushPending
    <2>3. /\ coll'.file \in ChatLists
          /\ \A c \in Chats : \/ coll'.file[c] = coll.file[c]
                              \/ /\ coll.pending.gen = coll.generation
                                 /\ coll'.file[c] = coll.pending.list[c]
      <3>1. coll.file \in ChatLists /\ coll.pending.list \in ChatLists
        BY <2>2 DEF DrawerInv, CollGood, CollShape
      <3>2. CASE coll.pending.gen = coll.generation
        <4>1. coll'.file = Merge(coll.file, coll.pending.list)
          BY <2>1, <3>2 DEF Guarded
        <4> QED BY <3>1, <3>2, <4>1, MergeLater
      <3>3. CASE coll.pending.gen # coll.generation
        BY <2>1, <3>1, <3>3 DEF Guarded
      <3> QED BY <3>2, <3>3
    <2>4. CollShape(coll')
      BY <2>1, <2>3 DEF DrawerInv, CollGood, CollShape, CachesTyped
    <2>5. GoneForGood(coll')
      BY <2>1, <2>2, <2>3 DEF DrawerInv, CollGood, GoneForGood
    <2>6. SavedAtHome(coll')
      BY <2>1, <2>2, <2>3 DEF DrawerInv, CollGood, SavedAtHome, AtHome
    <2>7. SavedIsShown(coll')
      BY <2>1, <2>2, <2>3 DEF DrawerInv, CollGood, SavedIsShown, Below
    <2>8. Advances(coll, coll')
      BY <2>1, <2>2, <2>3
         DEF DrawerInv, CollGood, CollShape, SavedIsShown, Below, Advances, ChatLists
    <2>9. LoadGood(load', identity) /\ (load'.held => active')
      BY <2>2 DEF DrawerInv
    <2> QED BY <2>2, <2>4, <2>5, <2>6, <2>7, <2>8, <2>9, StepInv DEF CollGood
  <1>2. CASE HydrationReads
    <2>1. UNCHANGED <<bridge, identity, active, coll, load, deletion>>
      BY <1>2 DEF HydrationReads
    <2>2. hydration' = [gen |-> coll.generation, list |-> coll.file]
      BY <1>2 DEF HydrationReads, DrawerInv, HydrationGood
    <2>3. coll.file \in ChatLists /\ coll.generation \in Nat
      BY DEF DrawerInv, CollGood, CollShape
    <2>4. hydration' # None
      BY <2>2, <2>3, DrawerAssumption DEF ChatLists
    <2>5. HydrationGood(coll, hydration')
      BY <2>2, <2>3, <2>4 DEF HydrationGood, ChatLists
    <2> QED BY <2>1, <2>5 DEF DrawerInv, BridgeStamps
  <1>3. CASE HydratePersistedChats
    <2> DEFINE list == hydration.list
               n == ApplyChats(coll, list, 0, FALSE, FALSE)
    <2>1. /\ hydration' = None /\ UNCHANGED <<bridge, identity, active, load, deletion>>
          /\ hydration # None /\ list # None
      BY <1>3 DEF HydratePersistedChats
    <2>2. /\ hydration.gen = coll.generation /\ list \in ChatLists
          /\ \A c \in Chats : coll.file[c] <= coll.shown[c] \/ coll.file[c] <= list[c]
      BY <2>1 DEF DrawerInv, HydrationGood
    <2>3. \/ coll' = coll /\ (coll.authoritative \/ list = Empty)
          \/ coll' = n
      BY <1>3, <2>2 DEF HydratePersistedChats
    <2>4. /\ CollGood(n) /\ Advances(coll, n) /\ n.deleted = coll.deleted
          /\ \A c \in Chats \ coll.deleted : list[c] <= n.shown[c]
      BY <2>2, ApplyGood DEF DrawerInv
    <2>5. n.file = coll.file
      <3>1. DOMAIN coll = CollFields
        BY DEF DrawerInv, CollGood, CollShape
      <3> QED BY <3>1 DEF ApplyChats, CollFields
    <2> HIDE DEF n, list
    <2>6. CollGood(coll') /\ Advances(coll, coll')
      BY <2>3, <2>4, AdvancesSelf DEF DrawerInv, CollGood
    <2>7. Below(coll'.file, coll'.shown)
      <3>1. CASE coll' = coll /\ coll.authoritative
        BY <3>1 DEF DrawerInv, CollGood, SavedIsShown
      <3>2. CASE coll' = coll /\ list = Empty
        BY <2>2, <3>2 DEF DrawerInv, CollGood, CollShape, ChatLists, Below, Empty, Absent
      <3>3. CASE coll' = n
        <4> SUFFICES ASSUME NEW c \in Chats PROVE n.file[c] <= n.shown[c]
          BY <3>3 DEF Below
        <4>1. /\ n.file[c] \in Nat /\ n.shown[c] \in Nat /\ coll.shown[c] \in Nat
              /\ list[c] \in Nat
          BY <2>2, <2>4 DEF DrawerInv, CollGood, CollShape, ChatLists
        <4>2. CASE c \in coll.deleted
          BY <2>4, <4>1, <4>2 DEF CollGood, GoneForGood, Absent
        <4>3. CASE c \notin coll.deleted
          BY <2>2, <2>4, <2>5, <4>1, <4>3 DEF Advances
        <4> QED BY <4>2, <4>3
      <3> QED BY <2>3, <3>1, <3>2, <3>3
    <2>8. HydrationGood(coll', hydration')
      BY <2>1, <2>7 DEF HydrationGood
    <2>9. DeletionGood(coll', deletion') /\ coll'.identity = identity'
      BY <2>1, <2>6 DEF DrawerInv, DeletionGood, Advances
    <2> QED BY <2>1, <2>6, <2>8, <2>9 DEF DrawerInv, BridgeStamps
  <1> QED BY <1>1, <1>2, <1>3

LEMMA DeletionInv ==
    ASSUME DrawerInv,
           \/ \E c \in Chats : HandleDeleteChat(c)
           \/ DeletionDeclined \/ DeletionConfirmed
           \/ BridgeHandlesDeletion \/ DeletionAnswered \/ DeletionFails
    PROVE  DrawerInv'
  <1>1. ASSUME NEW c \in Chats, HandleDeleteChat(c) PROVE DrawerInv'
    <2>1. /\ c \in In(coll.shown)
          /\ deletion' = [chat |-> c, stamp |-> coll.shown[c], at |-> "asked"]
          /\ UNCHANGED <<bridge, identity, active, coll, load, hydration>>
      BY <1>1 DEF HandleDeleteChat
    <2>2. coll.hydrated /\ coll.shown[c] \in Nat
      BY <2>1 DEF DrawerInv, CollGood, CollShape, SavedIsShown, In, Empty, ChatLists
    <2>3. DeletionGood(coll', deletion')
      BY <2>1, <2>2 DEF DeletionGood
    <2> QED BY <2>1, <2>3 DEF DrawerInv, BridgeStamps
  <1>2. CASE BridgeHandlesDeletion
    <2>1. PICK m \in Nat : bridge \in [Chats -> -1..m]
      BY DEF DrawerInv, BridgeStamps
    <2>2. deletion.chat \in Chats /\ bridge' = [bridge EXCEPT ![deletion.chat] = -1]
      BY <1>2 DEF BridgeHandlesDeletion, Gone, Live
    <2>3. bridge' \in [Chats -> -1..m]
      BY <2>1, <2>2
    <2>4. BridgeStamps'
      BY <2>3 DEF BridgeStamps
    <2>5. DeletionGood(coll', deletion')
      BY <1>2 DEF DrawerInv, DeletionGood, BridgeHandlesDeletion
    <2> QED BY <1>2, <2>4, <2>5 DEF DrawerInv, BridgeHandlesDeletion
  <1>3. CASE DeletionAnswered
    <2>1. /\ SameRows(coll, coll') /\ deletion' = None
          /\ UNCHANGED <<bridge, identity, active, load, hydration>>
      BY <1>3, ForgetGood DEF DeletionAnswered, DrawerInv
    <2> QED BY <2>1, RowsUntouched
  <1>4. CASE DeletionFails
    <2>1. /\ coll' = RestoreChat(coll, deletion.chat, deletion.stamp) /\ deletion # None
          /\ deletion' = None /\ UNCHANGED <<bridge, identity, active, load, hydration>>
      BY <1>4 DEF DeletionFails
    <2>2. coll.hydrated /\ deletion.chat \in Chats /\ deletion.stamp \in Nat
      BY <2>1 DEF DrawerInv, DeletionGood
    <2>3. CollGood(coll') /\ Advances(coll, coll')
      BY <2>1, <2>2, RestoreGood DEF DrawerInv
    <2>4. LoadGood(load', identity) /\ (load'.held => active')
      BY <2>1 DEF DrawerInv
    <2> QED BY <2>1, <2>3, <2>4, StepInv
  <1>5. CASE DeletionDeclined
    <2>1. deletion' = None /\ UNCHANGED <<bridge, identity, active, coll, load, hydration>>
      BY <1>5 DEF DeletionDeclined
    <2> QED BY <2>1, RowsUntouched
  <1>6. CASE DeletionConfirmed
    <2>1. /\ coll' = RemoveChat(coll, deletion.chat) /\ deletion # None
          /\ deletion' = [deletion EXCEPT !.at = "sent"]
          /\ UNCHANGED <<bridge, identity, active, load, hydration>>
      BY <1>6 DEF DeletionConfirmed
    <2>2. CollGood(coll') /\ Advances(coll, coll')
      BY <2>1, RemoveGood DEF DrawerInv
    <2>3. DeletionGood(coll', deletion')
      BY <2>1, <2>2 DEF DrawerInv, DeletionGood, Advances
    <2>4. HydrationGood(coll', hydration')
      BY <2>1, <2>2, AdvancesHydration DEF DrawerInv, CollGood
    <2> QED BY <2>1, <2>2, <2>3, <2>4 DEF DrawerInv, BridgeStamps, Advances
  <1> QED BY <1>1, <1>2, <1>3, <1>4, <1>5, <1>6

\* The purge empties the file and raises the generation, so that a buffered
\* write of the old bridge is no longer one that will reach it.
LEMMA EditInv == ASSUME DrawerInv, NEW primes, EditBridgeIdentity(primes) PROVE DrawerInv'
  <1>1. /\ DOMAIN coll' = CollFields
        /\ coll'.shown = coll.shown /\ coll'.deleted = coll.deleted
        /\ coll'.pending = coll.pending /\ coll'.leaked = coll.leaked
        /\ coll'.generation = coll.generation + 1 /\ coll'.identity = 2
        /\ coll'.hydrated = coll.hydrated /\ coll'.authoritative = coll.authoritative
        /\ coll'.fast = None /\ coll'.full = None /\ coll'.all = None
        /\ coll'.file = Empty /\ identity' = 2
    BY DEF EditBridgeIdentity, DrawerInv, CollGood, CollShape, CollFields
  <1>2. /\ ~active /\ UNCHANGED <<bridge, active>>
        /\ hydration' = [gen |-> coll.generation + 1, list |-> None]
        /\ deletion' \in {deletion, [deletion EXCEPT !.at = "sent"]}
        /\ deletion = None => deletion' = None
    BY DEF EditBridgeIdentity
  <1>3. Empty \in ChatLists /\ (coll.shown \in ChatLists => Below(Empty, coll.shown))
    BY DEF Empty, ChatLists, Below, Absent
  <1>4. CollShape(coll')
    BY <1>1, <1>3 DEF DrawerInv, CollGood, CollShape, CachesTyped
  <1>5. GoneForGood(coll') /\ SavedAtHome(coll')
    BY <1>1 DEF DrawerInv, CollGood, CollShape, GoneForGood, SavedAtHome, AtHome, Empty
  <1>6. SavedIsShown(coll')
    BY <1>1, <1>3 DEF DrawerInv, CollGood, CollShape, SavedIsShown
  <1>7. SameAnswers(load, load') /\ load'.stream = NoStream /\ load'.deep = NoDeep
    BY <1>2 DEF EditBridgeIdentity, DrawerInv, LoadGood, LoadFields, SameAnswers, NoStream,
                NoDeep, StreamFields, DeepFields, Job, JobShape
  <1>8. LoadGood(load', identity') /\ (load'.held => active')
    <2>1. load'.deep.list \in ChatLists /\ AtHome(load'.deep.list, identity')
      BY <1>7, EmptyGood DEF NoDeep
    <2> QED BY <1>2, <1>7, <2>1, SameAnswersGood
            DEF DrawerInv, LoadGood, AnswerGood, NoStream, NoDeep
  <1>9. HydrationGood(coll', hydration')
    <2>1. hydration' # None
      BY <1>2, DrawerAssumption DEF DrawerInv, CollGood, CollShape
    <2> QED BY <1>1, <1>2, <2>1 DEF HydrationGood
  <1>10. DeletionGood(coll', deletion')
    BY <1>1, <1>2 DEF DrawerInv, DeletionGood
  <1> QED BY <1>1, <1>2, <1>4, <1>5, <1>6, <1>8, <1>9, <1>10 DEF DrawerInv, CollGood, BridgeStamps

\* Changes at the bridge, events and polls do not touch the rows.
LEMMA OutsideInv ==
    ASSUME DrawerInv,
           \/ \E c \in Chats : BridgeChanges(c) \/ BridgeDeletes(c)
           \/ EventGap \/ Poll \/ UNCHANGED vars
    PROVE  DrawerInv'
  <1>1. CASE Poll
    <2>1. SameRows(coll, coll')
      BY <1>1 DEF Poll, DrawerInv, CollGood, CollShape, CollFields, CachesTyped, SameRows
    <2>2. SameAnswers(load, load')
      BY <1>1, ScheduleLoadSame DEF Poll, DrawerInv
    <2> QED BY <1>1, <2>1, <2>2, RowsUntouched DEF Poll
  <1>2. PICK m \in Nat : bridge \in [Chats -> -1..m]
    BY DEF DrawerInv, BridgeStamps
  <1>3. ASSUME BridgeStamps', UNCHANGED <<coll, load, identity, active, hydration, deletion>>
        PROVE  DrawerInv'
    BY <1>3 DEF DrawerInv
  <1>4. ASSUME NEW c \in Chats, BridgeChanges(c) PROVE DrawerInv'
    <2>1. Now + 1 \in -1..(m + 1)
      BY <1>2, NowIsLatest
    <2>2. bridge' \in [Chats -> -1..(m + 1)] /\ m + 1 \in Nat
      BY <1>2, <1>4, <2>1 DEF BridgeChanges
    <2>3. BridgeStamps'
      BY <2>2 DEF BridgeStamps
    <2> QED BY <1>3, <1>4, <2>3 DEF BridgeChanges
  <1>5. ASSUME NEW c \in Chats, BridgeDeletes(c) PROVE DrawerInv'
    <2>1. bridge' \in [Chats -> -1..m]
      BY <1>2, <1>5 DEF BridgeDeletes, Gone
    <2>2. BridgeStamps'
      BY <2>1 DEF BridgeStamps
    <2> QED BY <1>3, <1>5, <2>2 DEF BridgeDeletes
  <1>6. CASE EventGap \/ UNCHANGED vars
    <2>1. BridgeStamps'
      BY <1>6 DEF EventGap, vars, DrawerInv, BridgeStamps
    <2> QED BY <1>3, <1>6, <2>1 DEF EventGap, vars
  <1> QED BY <1>1, <1>4, <1>5, <1>6

LEMMA DrawerStep == DrawerInv /\ [Next]_vars => DrawerInv'
  <1> SUFFICES ASSUME DrawerInv, [Next]_vars PROVE DrawerInv'
    OBVIOUS
  <1> QED BY EventInv, TimedInv, OpenInv, CloseInv, ListingsInv, StreamInv, DeepInv, FileInv,
             DeletionInv, EditInv, OutsideInv DEF Next

LEMMA DrawerInvariant == Spec => []DrawerInv
  BY DrawerInit, DrawerStep, PTL DEF Spec

\* The lists in the rows, the caches, the file and the buffered write have their
\* type, a held stream is open and none is held while another starts.
THEOREM DrawerTypeCorrect == Spec => []DrawerTypeOK
  <1>1. DrawerInv => DrawerTypeOK
    <2> SUFFICES ASSUME DrawerInv PROVE DrawerTypeOK
      OBVIOUS
    <2>1. /\ coll.shown \in ChatLists /\ coll.file \in ChatLists
          /\ \A list \in {coll.fast, coll.full, coll.all} : list = None \/ list \in ChatLists
          /\ coll.pending = None \/ (/\ coll.pending.list \in ChatLists
                                     /\ coll.pending.gen <= coll.generation)
      BY DEF DrawerInv, CollGood, CollShape, CachesTyped
    <2>2. /\ load.held => load.stream.open
          /\ load.job # None /\ load.job.at = "start" => ~load.held
      BY DEF DrawerInv, LoadGood
    <2> QED BY <2>1, <2>2 DEF DrawerTypeOK
  <1> QED BY <1>1, DrawerInvariant, PTL

\* A deleted chat is neither shown, nor saved, nor buffered to be saved, until
\* the bridge refuses its deletion: for any number of chats, list limits, and
\* order of loads, events, writes and edits of the profile.
THEOREM DeletedChatsStayGone == Spec => []DeletedStaysGone
  <1>1. DrawerInv => DeletedStaysGone
    BY DEF DrawerInv, CollGood, GoneForGood, DeletedStaysGone, In
  <1> QED BY <1>1, DrawerInvariant, PTL

\* Once the file was read at mount, it holds nothing the drawer has dropped and
\* nothing newer than the drawer shows, whatever writes were buffered, flushed,
\* replaced or dropped meanwhile (schedulePersistence, applyChats, removeChat).
THEOREM FileFollows == Spec => []FileFollowsDrawer
  <1>1. DrawerInv => FileFollowsDrawer
    BY DEF DrawerInv, HydrationGood, FileFollowsDrawer, Below
  <1> QED BY <1>1, DrawerInvariant, PTL

\* After the profile was edited the file never holds a chat of the old bridge
\* again, unless the drawer itself was given one to save: no write that was
\* buffered before the purge gets past the generation barrier.
THEOREM PurgedChatsStayPurged == Spec => []PurgeIsFinal
  <1>1. DrawerInv => PurgeIsFinal
    BY DEF DrawerInv, CollGood, SavedAtHome, AtHome, PurgeIsFinal, ForeignInFile, In
  <1> QED BY <1>1, DrawerInvariant, PTL
=============================================================================
