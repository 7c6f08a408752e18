------------------------------- MODULE Drawer -------------------------------
(***************************************************************************)
(* The list of chats in the phone's drawer: the loads that fill it          *)
(* (useDrawerChatLoading.ts), the events and polls that ask for them        *)
(* (useDrawerChatLiveSync.ts), the rows and their buffered persistence      *)
(* (useDrawerChatCollection.ts), the client's list caches                   *)
(* (healthAndCacheLayer.ts, chatListingLayer.ts), the deletion of a chat    *)
(* (DrawerContent.tsx) and the in-place edit of the bridge profile          *)
(* (saveBridgeProfileAtom).                                                 *)
(*                                                                          *)
(* A listing holds the first chats in the order of their ids, or those from *)
(* an offset on: the bridge sorts by id, whatever sortKey asks for.  Asking *)
(* for a listing, its reading at the bridge and its arrival are steps of    *)
(* their own, for every page of a longer one, and events may arrive between *)
(* them.  A chat has one home: the bridge the profile names before the edit *)
(* (1) or after it (2).  The layout is the phone's, whose drawer is closed  *)
(* while other screens are used.  Run indicators, attention requests,       *)
(* linked sub-sessions and sessions the agent loaded without listing are    *)
(* left out.                                                                *)
(***************************************************************************)
EXTENDS ChatSummaryCache, Integers, FiniteSetsExt

CONSTANTS
    Home,            \* the bridge each chat lives on: 1 or 2
    Rank,            \* the order of the chats' ids
    Start,           \* stamps at the bridge and in the file when the drawer mounts
    FastLimit,       \* DRAWER_FAST_CHAT_LIST_LIMIT
    FullLimit,       \* DRAWER_FULL_CHAT_LIST_LIMIT
    StreamLimit,     \* the last of DRAWER_STREAM_CHAT_LIST_LIMITS; the others are the two above
    DeepPageLimit,   \* DRAWER_DEEP_CHAT_PAGE_LIMIT
    TtlPolls,        \* polls within DRAWER_CHAT_CACHE_TTL_MS
    MaxMoves,        \* bound on openings of the drawer, retries and deletions by the user
    MaxExtras        \* bound on changes at the bridge, deletions, refreshes by the user,
                     \* failed and partial listings and edits of the profile together

ASSUME DrawerAssumption ==
    /\ IsFiniteSet(Chats) /\ None \notin [gen : Nat, list : [Chats -> Nat] \cup {None}]
    /\ Home \in [Chats -> {1, 2}] /\ Rank \in [Chats -> Nat]
    /\ \A c, d \in Chats : Rank[c] = Rank[d] => c = d
    /\ Start \subseteq [bridge : [Chats -> Nat], file : [Chats -> Nat]]
    /\ \A s \in Start : \A c \in Chats : s.file[c] # Absent => Home[c] = 1
    /\ TtlPolls \in Nat /\ DeepPageLimit \in Nat \ {0} /\ 0 < FastLimit /\ FastLimit <= FullLimit /\ FullLimit <= StreamLimit

Gone == -1       \* the stamp of a chat the bridge has deleted

VARIABLES
    bridge,      \* stamp of each chat at its bridge
    identity,    \* the bridge the profile names
    feed,        \* notifications on their way
    active,      \* the drawer is open
    coll,        \* rows, client caches, buffered and queued persistence
    load,        \* loads, timers, list stream and deep load
    hydration,   \* the read of the file at mount
    deletion,    \* the deletion the user asked for
    used         \* how much of each bound is spent

vars == <<bridge, identity, feed, active, coll, load, hydration, deletion, used>>

Spend(b) == used' = [used EXCEPT ![b] = @ + 1]
May(b, max) == used[b] < max /\ Spend(b)

-----------------------------------------------------------------------------
(* The rows of the drawer, the client's list caches and the buffered write. *)

\* schedulePersistence: a buffered write of an older generation is not carried on.
SchedulePersistence(k, list) ==
    LET carry == k.pending # None /\ k.pending.gen = k.generation
    IN  [k EXCEPT
            !.pending = [list |-> Merge(IF carry THEN k.pending.list ELSE Empty, list),
                         gen |-> k.generation],
            !.leaked = @ \/ \E c \in In(list) : Home[c] # k.identity]

\* rememberChats: the list of this limit, and every chat of it in the full list.
RememberChats(k, list, limit) ==
    [k EXCEPT !.fast = IF limit = FastLimit THEN list ELSE @,
              !.age = IF limit = FastLimit THEN 0 ELSE @,
              !.full = IF limit = FullLimit THEN list ELSE @,
              !.all = IF @ = None THEN None
                      ELSE [c \in Chats |-> IF list[c] # Absent THEN list[c] ELSE @[c]]]

ForgetChat(k, c) ==
    LET forget(list) == IF list = None THEN None ELSE Without(list, c)
    IN  [k EXCEPT !.fast = forget(@), !.full = forget(@), !.all = forget(@)]

\* Mutant: a list is cached under the limit it was asked with, however long it grew.
CacheKeyOfLimit(limit, list) == limit

\* cacheKeyLimit: a list longer than its limit is cached under its length.
CacheKey(limit, list) == Max({limit, Cardinality(In(list))})

\* applyChats; limit 0 is no cacheLimit.
ApplyChats(k, raw, limit, persist, authoritative) ==
    LET incoming == Only(raw, Chats \ k.deleted)
        preserve == k.hydrated \/ Cardinality(In(k.shown)) > Cardinality(In(incoming))
        next == IF authoritative \/ ~preserve THEN incoming ELSE Merge(k.shown, incoming)
        applied == [k EXCEPT !.shown = next, !.hydrated = TRUE, !.loading = FALSE,
                             !.authoritative = @ \/ authoritative]
        cached == IF limit = 0 THEN applied
                  ELSE RememberChats(applied, next, CacheKey(limit, next))
    IN  CASE ~persist -> cached
          [] authoritative -> [cached EXCEPT !.pending = None,
                                             !.file = ReconcilePersisted(
                                                @, incoming, k.generation, k.generation)]
          [] OTHER -> SchedulePersistence(cached, incoming)

\* Mutant: a removed chat stays in the buffered write.
RemoveChatKeepsPending(k, c) ==
    [k EXCEPT !.deleted = @ \cup {c}, !.shown = Without(@, c),
              !.file = DeletePersisted(@, c, k.generation, k.generation)]

RemoveChat(k, c) ==
    [k EXCEPT !.pending = IF @ = None THEN None
                          ELSE [k.pending EXCEPT !.list = Without(k.pending.list, c)],
              !.deleted = @ \cup {c},
              !.shown = Without(@, c),
              !.file = DeletePersisted(@, c, k.generation, k.generation)]

RestoreChat(k, c, stamp) ==
    IF c \in In(k.shown) THEN k
    ELSE SchedulePersistence([k EXCEPT !.deleted = @ \ {c}, !.shown[c] = stamp],
                             [Empty EXCEPT ![c] = stamp])

-----------------------------------------------------------------------------
(* Loads. Each operator takes the loads l and the rows k and returns both. *)

Both(l, k) == [load |-> l, coll |-> k]

NoStream == [open |-> FALSE, refresh |-> FALSE, left |-> 0, answer |-> None]
NewStream(refresh) == [open |-> TRUE, refresh |-> refresh, left |-> 3, answer |-> None]

\* Mutant: a cancelled stream is not forgotten.
CancelStreamKeepsRef(l) ==
    [l EXCEPT !.stream = IF l.held THEN NoStream ELSE @, !.deepTimer = FALSE]

\* cancelChatListStream
CancelStream(l) ==
    [l EXCEPT !.stream = IF l.held THEN NoStream ELSE @, !.held = FALSE, !.deepTimer = FALSE]

Job(at, refresh, force, closure) ==
    [at |-> at, refresh |-> refresh, force |-> force, closure |-> closure, answer |-> None]

\* applyCachedDeepChats, when the client holds the full list
ApplyCachedDeepChats(l, k, open) ==
    Both([l EXCEPT !.deepLoaded = TRUE, !.older = IF open THEN FALSE ELSE @],
         ApplyChats(k, k.all, 0, FALSE, FALSE))

\* loadChatsNow up to its first await; open is activeRef, closure the active it closes over
LoadChatsNow(l, k, open, closure, refresh, force) ==
    LET shown == [l EXCEPT !.refreshing = @ \/ refresh]
        seen == [shown EXCEPT !.loadedWhileActive = TRUE]
        cachedDeep == ApplyCachedDeepChats(seen, k, TRUE)
        seeded == IF k.full # None THEN ApplyChats(k, k.full, FullLimit, FALSE, FALSE)
                  ELSE IF k.fast # None THEN ApplyChats(k, k.fast, FastLimit, FALSE, FALSE)
                  ELSE k
    IN  CASE ~open -> Both([shown EXCEPT !.job = Job("prime", refresh, force, closure)], k)
          [] k.all # None ->
                Both([cachedDeep.load EXCEPT !.job = Job("newest", refresh, force, closure)],
                     cachedDeep.coll)
          [] OTHER ->
                Both([CancelStream(seen) EXCEPT
                        !.stream = NewStream(refresh),
                        !.job = Job("start", refresh, force, closure)],
                     seeded)

LoadChats(l, k, open, closure, refresh, force) ==
    LET untimed == IF refresh THEN [l EXCEPT !.timer = "none"] ELSE l
        queued == IF l.queued = None THEN [refresh |-> refresh, force |-> force]
                  ELSE [refresh |-> refresh \/ l.queued.refresh, force |-> force \/ l.queued.force]
    IN  CASE ~closure /\ k.hydrated -> Both(l, k)
          [] l.held /\ ~refresh -> Both(l, k)
          [] l.job # None -> Both([untimed EXCEPT !.queued = queued], k)
          [] OTHER -> LoadChatsNow(untimed, k, open, closure, refresh, force)

\* The end of a load: what was queued behind it runs in the load's own closure.
JobEnds(l, k, open) ==
    LET ended == [l EXCEPT !.job = None, !.queued = None]
        q == l.queued
    IN  IF q # None /\ ~(l.held /\ ~q.refresh)
        THEN LoadChats(ended, k, open, l.job.closure, q.refresh, q.force)
        ELSE Both(ended, k)

\* Mutant: a load without a stream leaves the refresh indicator to the stream.
JobFinishesRefreshing(l, k, open) == JobEnds(l, [k EXCEPT !.loading = FALSE], open)

\* The end of a load that leaves no stream behind.
JobFinishes(l, k, open) ==
    JobEnds([l EXCEPT !.refreshing = @ /\ ~l.job.refresh], [k EXCEPT !.loading = FALSE], open)

\* scheduleDeepLoadChatsOnce, called with the drawer open
ScheduleDeepLoad(l, k) ==
    CASE l.deep.asked -> Both([l EXCEPT !.older = TRUE], k)
      [] l.deepLoaded \/ l.deepTimer -> Both(l, k)
      [] k.all # None -> ApplyCachedDeepChats(l, k, TRUE)
      [] OTHER -> Both([l EXCEPT !.deepTimer = TRUE], k)

\* The deep load: what its pages have held so far, where the next one starts, and
\* the page that was read for it.
NoDeep == [asked |-> FALSE, list |-> Empty, offset |-> 0, partial |-> FALSE, answer |-> None]
NewDeep == [NoDeep EXCEPT !.asked = TRUE]

\* loadDeepChatsOnce, called with the drawer open
LoadDeepOnce(l, k, force) ==
    CASE l.deepLoaded \/ l.deep.asked -> Both(l, k)
      [] ~force /\ k.all # None -> ApplyCachedDeepChats(l, k, TRUE)
      [] OTHER -> Both([l EXCEPT !.deep = NewDeep, !.older = TRUE], k)

\* scheduleLoadChats
ScheduleLoad(l, open, force) ==
    [l EXCEPT !.timer = IF ~open THEN @
                        ELSE IF force \/ @ = "force" THEN "force" ELSE "plain"]

Becomes(b) == \E r \in {b} : load' = r.load /\ coll' = r.coll

-----------------------------------------------------------------------------
Init ==
    /\ identity = 1 /\ feed = <<>> /\ active = FALSE
    /\ \E s \in Start :
        /\ bridge = s.bridge
        /\ coll = [shown |-> Empty, deleted |-> {}, hydrated |-> FALSE, authoritative |-> FALSE,
                   loading |-> TRUE, pending |-> None, fast |-> None, full |-> None,
                   all |-> None, age |-> 0, file |-> s.file, generation |-> 0, identity |-> 1,
                   leaked |-> FALSE]
    /\ load = [job |-> Job("prime", FALSE, FALSE, FALSE), queued |-> None, timer |-> "none",
               stream |-> NoStream, held |-> FALSE, deep |-> NoDeep, deepTimer |-> FALSE,
               deepLoaded |-> FALSE, loadedWhileActive |-> FALSE, refreshing |-> FALSE,
               older |-> FALSE, partial |-> FALSE]
    /\ hydration = [gen |-> 0, list |-> None]
    /\ deletion = None
    /\ used = [moves |-> 0, extras |-> 0]

(* The bridge. *)

Live == {c \in Chats : bridge[c] > 0 /\ Home[c] = identity}
Place(c) == Cardinality({d \in Live : Rank[d] < Rank[c]})
Page(offset, limit) == Only(bridge, {c \in Live : Place(c) \in offset..(offset + limit - 1)})
Listing(limit) == Page(0, limit)
Now == Max({bridge[c] : c \in Chats} \cup {0})

\* An event that only asks for a reload: a change of a chat, a reconnect or
\* bridge/events/snapshotRequired.
Refresh == [kind |-> "refresh", chat |-> None]

\* A chat is created or changes.
BridgeChanges(c) ==
    /\ Home[c] = identity /\ bridge[c] >= 0
    /\ May("extras", MaxExtras)
    /\ bridge' = [bridge EXCEPT ![c] = Now + 1]
    /\ feed' = Append(feed, Refresh)
    /\ UNCHANGED <<identity, active, coll, load, hydration, deletion>>

\* A chat is deleted from another device.
BridgeDeletes(c) ==
    /\ c \in Live
    /\ May("extras", MaxExtras)
    /\ bridge' = [bridge EXCEPT ![c] = Gone]
    /\ feed' = Append(feed, [kind |-> "deleted", chat |-> c])
    /\ UNCHANGED <<identity, active, coll, load, hydration, deletion>>

\* Notifications are lost; after the reconnect the client is told so.
EventGap ==
    /\ \E i \in DOMAIN feed : feed[i] # Refresh
    /\ feed' = <<Refresh>>
    /\ UNCHANGED <<bridge, identity, active, coll, load, hydration, deletion, used>>

-----------------------------------------------------------------------------
(* Events, timers and the user. *)

\* The handler of useDrawerChatLiveSync and handleThreadDeleted.
ReceiveEvent ==
    /\ feed # <<>>
    /\ LET e == Head(feed)
       IN  coll' = IF e.kind = "deleted" THEN RemoveChat(ForgetChat(coll, e.chat), e.chat)
                   ELSE coll
    /\ load' = ScheduleLoad(load, active, TRUE)
    /\ feed' = Tail(feed)
    /\ UNCHANGED <<bridge, identity, active, hydration, deletion, used>>

\* The poll comes every ten seconds: the debounced write is on the file by then,
\* and a poll during a load would only queue what events queue as well.
PollDue ==
    /\ active /\ load.timer = "none" /\ coll.pending = None
    /\ load.job = None /\ ~load.stream.open

Poll ==
    /\ PollDue
    /\ load' = ScheduleLoad(load, active, FALSE)
    /\ coll' = [coll EXCEPT !.age = Min({@ + 1, TtlPolls + 1})]
    /\ UNCHANGED <<bridge, identity, feed, active, hydration, deletion, used>>

TimerFires ==
    /\ load.timer # "none"
    /\ Becomes(LoadChats([load EXCEPT !.timer = "none"], coll, active, active, FALSE,
                         load.timer = "force"))
    /\ UNCHANGED <<bridge, identity, feed, active, hydration, deletion, used>>

RefreshDrawer ==
    /\ active /\ May("extras", MaxExtras)
    /\ Becomes(LoadChats(load, coll, active, active, TRUE, TRUE))
    /\ UNCHANGED <<bridge, identity, feed, active, hydration, deletion>>

\* stale: the last load is older than DRAWER_OPEN_STALE_REFRESH_MS
OpenDrawer(stale) ==
    /\ ~active /\ May("moves", MaxMoves)
    /\ active' = TRUE
    /\ LET refresh == ~load.loadedWhileActive \/ stale
       IN  IF ~coll.hydrated \/ refresh
           THEN Becomes(LoadChats(load, coll, TRUE, TRUE, FALSE, refresh))
           ELSE UNCHANGED <<load, coll>>
    /\ UNCHANGED <<bridge, identity, feed, hydration, deletion>>

CloseDrawer ==
    /\ active
    /\ active' = FALSE
    /\ LET primed == IF coll.hydrated THEN Both(load, coll)
                     ELSE LoadChats(load, coll, FALSE, FALSE, FALSE, FALSE)
       IN  Becomes(Both([CancelStream(primed.load) EXCEPT
                            !.timer = "none", !.queued = None, !.refreshing = FALSE,
                            !.older = FALSE], primed.coll))
    /\ UNCHANGED <<bridge, identity, feed, hydration, deletion, used>>

-----------------------------------------------------------------------------
(* Listing requests. *)

ListLimit(job) ==
    IF job.at = "full" \/ (job.at = "newest" /\ job.refresh) THEN FullLimit ELSE FastLimit
Lists == load.job # None /\ load.job.at # "start"

JobReads ==
    /\ Lists /\ load.job.answer = None
    /\ load' = [load EXCEPT !.job.answer = Listing(ListLimit(load.job))]
    /\ UNCHANGED <<bridge, identity, feed, active, coll, hydration, deletion, used>>

\* A listing of the running load arrives; k is the client after listChats.
Listed(k, list) ==
    LET j == load.job
        applied == IF active \/ j.at = "prime" THEN ApplyChats(k, list, ListLimit(j), TRUE, FALSE)
                   ELSE k
        deep == IF active THEN ScheduleDeepLoad(load, applied) ELSE Both(load, applied)
    IN  CASE j.at = "fast" -> Both([load EXCEPT !.job.at = "full", !.job.answer = None], applied)
          [] j.at = "full" -> JobFinishes(deep.load, deep.coll, active)
          [] OTHER -> JobFinishes(load, applied, active)

ListArrives ==
    /\ Lists /\ load.job.answer # None
    /\ LET list == load.job.answer
       IN  Becomes(Listed(RememberChats(coll, list, ListLimit(load.job)), list))
    /\ UNCHANGED <<bridge, identity, feed, active, hydration, deletion, used>>

\* listChats answers from the client's cache, unless it is older than DRAWER_CHAT_CACHE_TTL_MS.
ListFromCache ==
    /\ Lists /\ load.job.answer = None /\ ~load.job.force
    /\ LET fast == ListLimit(load.job) = FastLimit
           list == IF fast THEN coll.fast ELSE coll.full
       IN  list # None /\ (fast => coll.age <= TtlPolls) /\ Becomes(Listed(coll, list))
    /\ UNCHANGED <<bridge, identity, feed, active, hydration, deletion, used>>

\* A request of the load fails; a stream that did not start falls back to listings.
JobBreaks ==
    IF load.job.at = "start"
    THEN Both([load EXCEPT !.stream = NoStream, !.job.at = "fast", !.job.answer = None], coll)
    ELSE JobFinishes(load, coll, active)

JobFails ==
    /\ load.job # None /\ May("extras", MaxExtras)
    /\ Becomes(JobBreaks)
    /\ UNCHANGED <<bridge, identity, feed, active, hydration, deletion>>

-----------------------------------------------------------------------------
(* The list stream. *)

StreamStarted ==
    /\ load.job # None /\ load.job.at = "start"
    /\ Becomes(IF active /\ load.stream.open
               THEN JobEnds([load EXCEPT !.held = TRUE], coll, active)
               ELSE JobFinishes([load EXCEPT !.stream = NoStream, !.held = FALSE], coll, active))
    /\ UNCHANGED <<bridge, identity, feed, active, hydration, deletion, used>>

BatchLimit == CASE load.stream.left = 3 -> FastLimit
                [] load.stream.left = 2 -> FullLimit
                [] OTHER -> StreamLimit

StreamReads ==
    /\ load.stream.open /\ load.stream.answer = None
    /\ load' = [load EXCEPT !.stream.answer = Listing(BatchLimit)]
    /\ UNCHANGED <<bridge, identity, feed, active, coll, hydration, deletion, used>>

StreamBatch ==
    /\ load.stream.answer # None
    /\ LET list == load.stream.answer
           done == load.stream.left = 1
           k == RememberChats(coll, list, BatchLimit)
           l == [load EXCEPT !.stream = IF done THEN NoStream
                                        ELSE [load.stream EXCEPT !.left = load.stream.left - 1,
                                                                 !.answer = None],
                             !.held = @ /\ ~done]
           authoritative == done /\ Cardinality(In(list)) < BatchLimit
           applied == ApplyChats(k, list, BatchLimit, TRUE, authoritative)
           shown == [l EXCEPT !.refreshing = @ /\ ~load.stream.refresh]
       IN  Becomes(CASE ~active -> Both(l, k)
                     [] done -> ScheduleDeepLoad(shown, applied)
                     [] OTHER -> Both(shown, applied))
    /\ UNCHANGED <<bridge, identity, feed, active, hydration, deletion, used>>

StreamError ==
    /\ load.stream.open /\ May("extras", MaxExtras)
    /\ load' = [load EXCEPT !.stream = NoStream, !.held = FALSE,
                            !.refreshing = @ /\ ~load.stream.refresh]
    /\ coll' = [coll EXCEPT !.loading = FALSE]
    /\ UNCHANGED <<bridge, identity, feed, active, hydration, deletion>>

-----------------------------------------------------------------------------
(* The deep load: every chat, page by page. *)

\* mergeChatSummariesById: a later page's row of a chat replaces an earlier one's.
MergeById(list, page) == [c \in Chats |-> IF page[c] # Absent THEN page[c] ELSE list[c]]

DeepTimerFires ==
    /\ load.deepTimer
    /\ Becomes(LoadDeepOnce([load EXCEPT !.deepTimer = FALSE], coll, FALSE))
    /\ UNCHANGED <<bridge, identity, feed, active, hydration, deletion, used>>

\* The notice of a partial listing is tapped: the deep load and the refresh of
\* RefreshDrawer together.
RetryDeepChatList ==
    /\ active /\ load.partial /\ May("moves", MaxMoves)
    /\ LET deep == LoadDeepOnce([load EXCEPT !.deepLoaded = FALSE], coll, TRUE)
       IN  Becomes(LoadChats(deep.load, deep.coll, active, active, TRUE, TRUE))
    /\ UNCHANGED <<bridge, identity, feed, active, hydration, deletion>>

\* A page is read; next is the offset of nextCursor, 0 if there is none.  The page
\* is partial if the bridge could not ask every agent.
DeepReads(partial) ==
    /\ load.deep.asked /\ load.deep.answer = None
    /\ IF partial THEN May("extras", MaxExtras) ELSE UNCHANGED used
    /\ LET page == Page(load.deep.offset, DeepPageLimit)
           end == load.deep.offset + Cardinality(In(page))
       IN  load' = [load EXCEPT !.deep.answer = page,
                                !.deep.offset = IF end < Cardinality(Live) THEN end ELSE 0,
                                !.deep.partial = @ \/ partial]
    /\ UNCHANGED <<bridge, identity, feed, active, coll, hydration, deletion>>

DeepList == MergeById(load.deep.list, load.deep.answer)
More == load.deep.offset # 0
NoProgress == More /\ In(DeepList) = In(load.deep.list)

\* The page is shown at once (onPage).
OnPage(k) == IF active THEN ApplyChats(k, DeepList, 0, TRUE, FALSE) ELSE k

DeepPage ==
    /\ load.deep.answer # None /\ More /\ ~NoProgress
    /\ coll' = OnPage(coll)
    /\ load' = [load EXCEPT !.deep.list = DeepList, !.deep.answer = None]
    /\ UNCHANGED <<bridge, identity, feed, active, hydration, deletion, used>>

\* The last page, or one that brought nothing new although more was promised.
DeepArrives ==
    /\ load.deep.answer # None /\ (~More \/ NoProgress)
    /\ LET partial == load.deep.partial \/ NoProgress
           k == [OnPage(coll) EXCEPT !.all = DeepList]
       IN  /\ coll' = IF active THEN ApplyChats(k, DeepList, 0, TRUE, ~partial) ELSE k
           /\ load' = [load EXCEPT !.deep = NoDeep, !.deepLoaded = TRUE,
                                   !.partial = IF active THEN partial ELSE @,
                                   !.older = IF active THEN FALSE ELSE @]
    /\ UNCHANGED <<bridge, identity, feed, active, hydration, deletion, used>>

DeepFails ==
    /\ load.deep.asked /\ May("extras", MaxExtras)
    /\ load' = [load EXCEPT !.deep = NoDeep, !.older = IF active THEN FALSE ELSE @]
    /\ UNCHANGED <<bridge, identity, feed, active, coll, hydration, deletion>>

-----------------------------------------------------------------------------
(* The file. *)

\* flushPendingPersistence
FlushPending ==
    /\ coll.pending # None
    /\ coll' = [coll EXCEPT !.pending = None,
                            !.file = PersistChatSummaries(@, coll.pending.list,
                                                          coll.pending.gen, coll.generation)]
    /\ UNCHANGED <<bridge, identity, feed, active, load, hydration, deletion, used>>

\* loadChatSummaryCache
HydrationReads ==
    /\ hydration # None /\ hydration.list = None
    /\ hydration' = [hydration EXCEPT !.list = coll.file]
    /\ UNCHANGED <<bridge, identity, feed, active, coll, load, deletion, used>>

HydratePersistedChats ==
    /\ hydration # None /\ hydration.list # None
    /\ hydration' = None
    /\ coll' = IF coll.authoritative \/ hydration.list = Empty \/ hydration.gen # coll.generation
               THEN coll
               ELSE ApplyChats(coll, hydration.list, 0, FALSE, FALSE)
    /\ UNCHANGED <<bridge, identity, feed, active, load, deletion, used>>

-----------------------------------------------------------------------------
(* Deleting a chat. *)

\* The user is asked; the row is the one shown then.
HandleDeleteChat(c) ==
    /\ active /\ deletion = None /\ c \in In(coll.shown)
    /\ used.moves < MaxMoves /\ used.extras < MaxExtras
    /\ used' = [moves |-> used.moves + 1, extras |-> used.extras + 1]
    /\ deletion' = [chat |-> c, stamp |-> coll.shown[c], at |-> "asked"]
    /\ UNCHANGED <<bridge, identity, feed, active, coll, load, hydration>>

DeletionDeclined ==
    /\ deletion # None /\ deletion.at = "asked"
    /\ deletion' = None
    /\ UNCHANGED <<bridge, identity, feed, active, coll, load, hydration, used>>

DeletionConfirmed ==
    /\ deletion # None /\ deletion.at = "asked"
    /\ coll' = RemoveChat(coll, deletion.chat)
    /\ deletion' = [deletion EXCEPT !.at = "sent"]
    /\ UNCHANGED <<bridge, identity, feed, active, load, hydration, used>>

\* The agent deletes the session.
BridgeHandlesDeletion ==
    /\ deletion # None /\ deletion.at = "sent" /\ deletion.chat \in Live
    /\ bridge' = [bridge EXCEPT ![deletion.chat] = Gone]
    /\ feed' = Append(feed, [kind |-> "deleted", chat |-> deletion.chat])
    /\ deletion' = [deletion EXCEPT !.at = "done"]
    /\ UNCHANGED <<identity, active, coll, load, hydration, used>>

DeletionAnswered ==
    /\ deletion # None /\ deletion.at = "done"
    /\ coll' = ForgetChat(coll, deletion.chat)
    /\ deletion' = None
    /\ UNCHANGED <<bridge, identity, feed, active, load, hydration, used>>

\* The agent refuses, or the request or its answer is lost.
DeletionFails ==
    /\ deletion # None /\ deletion.at # "asked"
    /\ coll' = RestoreChat(coll, deletion.chat, deletion.stamp)
    /\ deletion' = None
    /\ UNCHANGED <<bridge, identity, feed, active, load, hydration, used>>

-----------------------------------------------------------------------------
\* saveBridgeProfileAtom with a changed identity: the profile names another
\* bridge, its client starts without caches and every request of the old one
\* fails; the summaries are purged.  The drawer stays mounted, and its effects
\* read the file again and, while nothing was ever shown, prime the list.
EditBridgeIdentity(primes) ==
    /\ ~active /\ identity = 1 /\ May("extras", MaxExtras)
    /\ identity' = 2
    /\ feed' = <<>>
    /\ LET gen == coll.generation + 1
           settled == IF load.job = None THEN coll ELSE [coll EXCEPT !.loading = FALSE]
       IN  /\ coll' = [settled EXCEPT !.fast = None, !.full = None, !.all = None,
                                      !.generation = gen, !.identity = 2,
                                      !.file = Empty]
           /\ hydration' = [gen |-> gen, list |-> None]
    /\ primes => ~coll.hydrated
    /\ load' = [load EXCEPT !.job = IF primes THEN Job("prime", FALSE, FALSE, FALSE) ELSE None,
                            !.queued = None, !.stream = NoStream, !.deep = NoDeep]
    /\ deletion' = IF deletion = None \/ deletion.at = "asked" THEN deletion
                   ELSE [deletion EXCEPT !.at = "sent"]
    /\ UNCHANGED <<bridge, active>>

Next ==
    \/ \E c \in Chats : BridgeChanges(c) \/ BridgeDeletes(c) \/ HandleDeleteChat(c)
    \/ EventGap \/ ReceiveEvent \/ Poll \/ TimerFires \/ RefreshDrawer
    \/ \E b \in BOOLEAN : OpenDrawer(b) \/ DeepReads(b) \/ EditBridgeIdentity(b)
    \/ CloseDrawer
    \/ JobReads \/ ListArrives \/ ListFromCache \/ JobFails
    \/ StreamStarted \/ StreamReads \/ StreamBatch \/ StreamError
    \/ DeepTimerFires \/ RetryDeepChatList \/ DeepPage \/ DeepArrives \/ DeepFails
    \/ FlushPending \/ HydrationReads \/ HydratePersistedChats
    \/ DeletionDeclined \/ DeletionConfirmed
    \/ BridgeHandlesDeletion \/ DeletionAnswered \/ DeletionFails

Spec == Init /\ [][Next]_vars

\* Weak fairness of every step that is not the user's, the bridge's or a fault:
\* events are delivered, timers fire, requests and streams are answered, writes
\* are flushed.  Each of these steps is enabled exactly while the condition below
\* is false, and a few of them in a row make it true, so that weak fairness says
\* that the condition is true again and again.
FairSpec ==
    /\ Spec
    /\ []<>(feed = <<>>)
    /\ []<>~PollDue
    /\ []<>(load.timer = "none")
    /\ []<>(load.job = None)
    /\ []<>~load.stream.open
    /\ []<>~load.deepTimer
    /\ []<>~load.deep.asked
    /\ []<>(coll.pending = None)
    /\ []<>(hydration = None)
    /\ []<>(deletion = None \/ deletion.at = "asked")

-----------------------------------------------------------------------------
(* Properties. *)

ChatLists == [Chats -> Nat]

\* The state has its type.
DrawerTypeOK ==
    /\ coll.shown \in ChatLists /\ coll.file \in ChatLists
    /\ \A list \in {coll.fast, coll.full, coll.all} : list = None \/ list \in ChatLists
    /\ coll.pending = None \/ (coll.pending.list \in ChatLists /\ coll.pending.gen <= coll.generation)
    /\ load.held => load.stream.open
    /\ load.job # None /\ load.job.at = "start" => ~load.held

\* A chat that was deleted, here or by an event, comes back neither through a
\* listing read before, nor through the client's caches, nor through the file.
DeletedStaysGone ==
    \A c \in coll.deleted :
        /\ c \notin In(coll.shown) /\ c \notin In(coll.file)
        /\ coll.pending # None => c \notin In(coll.pending.list)

\* Once it was read, the file holds nothing the drawer dropped and nothing newer
\* than the drawer shows.
FileFollowsDrawer ==
    hydration = None => \A c \in Chats : coll.file[c] <= coll.shown[c]

ForeignInFile == \E c \in In(coll.file) : Home[c] # identity

\* A write buffered before the purge does not land after it: the file has chats
\* of the old bridge only if the drawer was given some after the edit.
PurgeIsFinal == ForeignInFile => coll.leaked

\* The indicators of a refresh and of the deep load go out, and so does the
\* first placeholder.
IndicatorsGoOut == <>[](~load.refreshing /\ ~load.older /\ ~coll.loading)

\* The chats of the shortest listing are shown as they are.
FirstUpToDate == \A c \in Live : Place(c) < FastLimit => coll.shown[c] = bridge[c]

\* A drawer left open with more rows than the shortest listing has ends up
\* showing the chats of that listing as they are at the bridge.
ListConverges == <>[](active /\ Cardinality(In(coll.shown)) > FastLimit => FirstUpToDate)
=============================================================================
