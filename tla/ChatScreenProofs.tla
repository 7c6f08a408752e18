-------------------------- MODULE ChatScreenProofs --------------------------
(***************************************************************************)
(* Proofs about the chat screen for any number of chats, runs, moves,       *)
(* stops and failures.                                                      *)
(***************************************************************************)
EXTENDS ChatScreen, TLAPS, FiniteSetTheorems

TurnsOrNone == 0..MaxRuns
ChatOrNone == Chats \cup {NoChat}
Statuses == {"idle", "complete", "error", "running"}

Reads == [phase : {"none", "asked", "read"}, status : Statuses, turn : TurnsOrNone]
Loads == [chat : Chats, current : BOOLEAN, preserve : BOOLEAN, revalidate : BOOLEAN]
Interrupts == [chat : Chats, turn : TurnsOrNone, latest : BOOLEAN,
               phase : {"asked", "ok", "refused", "none"}]
Screens == [sel : ChatOrNone, chat : ChatOrNone, messages : BOOLEAN, loaded : BOOLEAN,
            opening : ChatOrNone, activity : Activities, turn : TurnsOrNone,
            stopping : BOOLEAN, stopRequested : BOOLEAN]
Snapshots == [activity : Activities \cup {"none"}, turn : TurnsOrNone \cup {Unset}]
RunEvents == [kind : {"started", "finished", "failed", "interrupted"}, chat : Chats, turn : TurnsOrNone]

BridgeShape ==
    /\ run \in [Chats -> TurnsOrNone]
    /\ status \in [Chats -> {"idle", "complete", "error"}]
    /\ feed \in Seq(RunEvents)
    /\ used \in [runs : Nat, moves : Nat, stops : Nat, extras : Nat]

ScreenShape ==
    /\ reads \in [Chats -> Reads]
    /\ loads \subseteq Loads
    /\ interrupts \subseteq Interrupts
    /\ renaming \in ChatOrNone
    /\ polling \in BOOLEAN
    /\ ui \in Screens
    /\ snap \in [Chats -> Snapshots]

\* Only the newest load is current, it is for the chat on the screen, and
\* everything that waits for an answer has a read under way.
LoadsInv ==
    /\ \A l, m \in loads : l.current /\ m.current => l = m
    /\ \A l \in loads : l.current => l.chat = ui.sel
    /\ \A l \in loads : reads[l.chat].phase # "none"
    /\ polling => ui.sel # NoChat /\ reads[ui.sel].phase # "none"

ScreenInv == ScreenShape /\ LoadsInv /\ SpinnerHasAnEnd

-----------------------------------------------------------------------------
(* The operators the screen is made of. *)

LEMMA SettledTurn ==
    ASSUME NEW s \in Snapshots, NEW r \in Reads PROVE LoadedTurn(s, r) \in Snapshots
BY ChatScreenAssumption DEF LoadedTurn, Snapshots, Reads, TurnsOrNone, NoTurn, Unset

LEMMA AppliedSnapshot ==
    ASSUME NEW u \in Screens, NEW s \in Snapshots
    PROVE  LET v == ApplyThreadRuntimeSnapshot(u, s)
           IN  v \in Screens /\ v.sel = u.sel /\ v.opening = u.opening /\ v.loaded = u.loaded
BY DEF ApplyThreadRuntimeSnapshot, Screens, Snapshots

LEMMA SettledActivity ==
    ASSUME NEW st PROVE ResolveSettledActivity(st) \in Activities
BY DEF ResolveSettledActivity, Activities

\* A load puts its chat on the screen and leaves the spinner to the release.
LEMMA LoadApplied ==
    ASSUME NEW u \in Screens, NEW l \in Loads, NEW r \in Reads, NEW s \in Snapshots
    PROVE  LET v == ApplyLoadedChat(u, l, r, s)
           IN  v \in Screens /\ v.sel = l.chat /\ v.opening = u.opening /\ v.loaded
<1> DEFINE loaded == [u EXCEPT !.sel = l.chat, !.chat = l.chat, !.messages = TRUE, !.loaded = TRUE]
<1>1. loaded \in Screens /\ loaded.sel = l.chat /\ loaded.opening = u.opening /\ loaded.loaded
  BY DEF Screens, Loads, ChatOrNone
<1> HIDE DEF loaded
<1> DEFINE a == [loaded EXCEPT !.activity = RetireOpeningChatActivity(@, r.status)]
           b == [loaded EXCEPT !.turn = NoTurn, !.stopping = FALSE,
                               !.activity = IF r.status = "running" THEN "working"
                                            ELSE ResolveSettledActivity(r.status)]
<1>2. a \in Screens /\ a.sel = l.chat /\ a.opening = u.opening /\ a.loaded
  BY <1>1, SettledActivity DEF Screens, RetireOpeningChatActivity
<1>3. b \in Screens /\ b.sel = l.chat /\ b.opening = u.opening /\ b.loaded
  <2>1. "working" \in Activities /\ NoTurn \in TurnsOrNone
    BY ChatScreenAssumption DEF Activities, NoTurn, TurnsOrNone
  <2> QED BY <1>1, <2>1, SettledActivity DEF Screens
<1> HIDE DEF a, b
<1> DEFINE c == ApplyThreadRuntimeSnapshot(b, LoadedTurn(s, r))
<1>4. c \in Screens /\ c.sel = l.chat /\ c.opening = u.opening /\ c.loaded
  BY <1>3, AppliedSnapshot, SettledTurn
<1> HIDE DEF c
<1>5. ApplyLoadedChat(u, l, r, s) = IF Preserves(u, l) THEN a ELSE c
  BY DEF ApplyLoadedChat, a, b, c, loaded
<1> QED BY <1>2, <1>4, <1>5

\* A poll leaves the chat on the screen and the spinner alone.
LEMMA PollApplied ==
    ASSUME NEW u \in Screens, NEW r \in Reads
    PROVE  LET v == ApplySynchronizedChat(u, r)
           IN  v \in Screens /\ v.sel = u.sel /\ v.opening = u.opening /\ v.loaded = u.loaded
<1>1. {"working", "completed", "ready", "failed"} \subseteq Activities /\ NoTurn \in TurnsOrNone
  BY ChatScreenAssumption DEF Activities, NoTurn, TurnsOrNone
<1> QED BY <1>1 DEF ApplySynchronizedChat, Screens

-----------------------------------------------------------------------------
(* Loads. *)

\* A new load of the chat that is on the screen in the end.
LEMMA NewLoad ==
    ASSUME ScreenShape, LoadsInv, NEW c \in Chats, NEW p \in BOOLEAN, NEW v \in BOOLEAN, LoadChat(c, p, v),
           ui'.sel = c
    PROVE  /\ loads' \subseteq Loads /\ reads' \in [Chats -> Reads]
           /\ \A l, m \in loads' : l.current /\ m.current => l = m
           /\ \A l \in loads' : l.current => l.chat = c
           /\ \A l \in loads' : reads'[l.chat].phase # "none"
           /\ reads'[c].phase # "none"
           /\ \A d \in Chats : reads[d].phase # "none" => reads'[d].phase # "none"
           /\ CurrentLoad(c)' # {}
<1> DEFINE new == [chat |-> c, current |-> TRUE, preserve |-> p, revalidate |-> v]
<1>1. new \in Loads /\ new.chat = c /\ new.current
  BY DEF Loads
<1>2. /\ Superseded(loads) \subseteq Loads
      /\ \A l \in Superseded(loads) : ~l.current /\ \E m \in loads : l.chat = m.chat
  <2> SUFFICES ASSUME NEW m \in loads
               PROVE  LET l == [chat |-> m.chat, current |-> FALSE, preserve |-> FALSE, revalidate |-> FALSE]
                      IN  l \in Loads /\ ~l.current /\ l.chat = m.chat
    BY DEF Superseded
  <2> QED BY DEF ScreenShape, Loads
<1>3. loads' = Superseded(loads) \cup {new} /\ reads' = GetChat(c)
  BY DEF LoadChat
<1>4. Asked \in Reads /\ Asked.phase = "asked"
  BY ChatScreenAssumption DEF Asked, Idle, Reads, Statuses, TurnsOrNone, NoTurn
<1> HIDE DEF new
<1>5. /\ reads' \in [Chats -> Reads] /\ reads'[c].phase # "none"
      /\ \A d \in Chats : reads[d].phase # "none" => reads'[d].phase # "none"
  BY <1>3, <1>4 DEF GetChat, ScreenShape
<1>6. \A l \in loads' : reads'[l.chat].phase # "none"
  BY <1>1, <1>2, <1>3, <1>5 DEF LoadsInv, ScreenShape, Loads
<1>7. new \in CurrentLoad(c)'
  BY <1>1, <1>3 DEF CurrentLoad, Waiting
<1> QED BY <1>1, <1>2, <1>3, <1>5, <1>6, <1>7

\* Steps that leave the loads and what they are for alone.
LEMMA LoadsKept ==
    ASSUME ScreenInv, ScreenShape', UNCHANGED loads, ui'.sel = ui.sel,
           \A c \in Chats : reads[c].phase # "none" => reads'[c].phase # "none",
           ui'.opening \in {ui.opening, NoChat}, ui'.loaded = ui.loaded, polling' = polling,
           \A c \in releasing : c \in releasing' \/ c # ui'.opening
    PROVE  ScreenInv'
<1>1. \A l \in loads : l.chat \in Chats
  BY DEF ScreenInv, ScreenShape, Loads
<1>2. LoadsInv'
  BY <1>1 DEF ScreenInv, LoadsInv, ScreenShape, Screens, ChatOrNone
<1>3. SpinnerHasAnEnd'
  BY DEF ScreenInv, SpinnerHasAnEnd, CurrentLoad, Waiting
<1> QED BY <1>2, <1>3 DEF ScreenInv

LEMMA BridgeSteps ==
    ASSUME BridgeShape, ScreenInv, NEW c \in Chats,
           \/ RunStarts(c) \/ BridgeReads(c)
           \/ \E k \in {"finished", "failed", "interrupted"} : RunEnds(c, k)
    PROVE  BridgeShape' /\ ScreenInv'
<1>1. CASE RunStarts(c)
  <2>1. used.runs + 1 \in TurnsOrNone
    BY <1>1, ChatScreenAssumption DEF RunStarts, BridgeShape, TurnsOrNone
  <2>2. run' = [run EXCEPT ![c] = used.runs + 1] /\ run'[c] = used.runs + 1
    BY <1>1 DEF RunStarts, BridgeShape
  <2>3. [kind |-> "started", chat |-> c, turn |-> run'[c]] \in RunEvents
    BY <2>1, <2>2 DEF RunEvents
  <2>4. BridgeShape'
    BY <1>1, <2>1, <2>2, <2>3 DEF RunStarts, BridgeShape, Spend
  <2>5. UNCHANGED <<reads, loads, releasing, polling, interrupts, renaming, ui, snap>>
    BY <1>1 DEF RunStarts, netVars
  <2>6. ScreenShape'
    BY <2>5 DEF ScreenInv, ScreenShape
  <2> QED BY <2>4, <2>5, <2>6, LoadsKept
<1>2. ASSUME NEW k \in {"finished", "failed", "interrupted"}, RunEnds(c, k) PROVE BridgeShape' /\ ScreenInv'
  <2>1. NoTurn \in TurnsOrNone /\ run[c] \in TurnsOrNone
    BY ChatScreenAssumption DEF TurnsOrNone, NoTurn, BridgeShape
  <2>2. [kind |-> k, chat |-> c, turn |-> run[c]] \in RunEvents
    BY <2>1 DEF RunEvents
  <2>3. used' \in [runs : Nat, moves : Nat, stops : Nat, extras : Nat]
    <3>1. used' = used \/ used' = [used EXCEPT !["extras"] = @ + 1]
      BY <1>2 DEF RunEnds, Spend
    <3> QED BY <3>1 DEF BridgeShape
  <2>4. BridgeShape'
    BY <1>2, <2>1, <2>2, <2>3 DEF RunEnds, BridgeShape
  <2>5. UNCHANGED <<reads, loads, releasing, polling, interrupts, renaming, ui, snap>>
    BY <1>2 DEF RunEnds, netVars
  <2>6. ScreenShape'
    BY <2>5 DEF ScreenInv, ScreenShape
  <2> QED BY <2>4, <2>5, <2>6, LoadsKept
<1>3. CASE BridgeReads(c)
  <2> DEFINE r == [phase |-> "read", turn |-> run[c],
                   status |-> IF run[c] = NoTurn THEN status[c] ELSE "running"]
  <2>1. r \in Reads /\ r.phase = "read"
    BY DEF Reads, Statuses, BridgeShape
  <2>2. reads' = [reads EXCEPT ![c] = r]
    BY <1>3 DEF BridgeReads
  <2> HIDE DEF r
  <2>3. UNCHANGED <<run, status, feed, used, loads, releasing, polling, interrupts, renaming, ui, snap>>
    BY <1>3 DEF BridgeReads, bridgeVars
  <2>4. BridgeShape'
    BY <2>3 DEF BridgeShape
  <2>5. ScreenShape'
    BY <2>1, <2>2, <2>3 DEF ScreenInv, ScreenShape
  <2>6. \A d \in Chats : reads[d].phase # "none" => reads'[d].phase # "none"
    BY <2>1, <2>2 DEF ScreenInv, ScreenShape
  <2> QED BY <2>3, <2>4, <2>5, <2>6, LoadsKept
<1> QED BY <1>1, <1>2, <1>3

LEMMA Answers ==
    ASSUME BridgeShape, ScreenInv, NEW c \in Chats, NEW first \in BOOLEAN, ReadAnswers(c, first)
    PROVE  BridgeShape' /\ ScreenInv'
<1> DEFINE r == reads[c]
           retired == IF Waiting(c) = CurrentLoad(c) THEN ui
                      ELSE [ui EXCEPT !.activity = RetireOpeningChatActivity(@, r.status)]
           cur == CHOOSE x \in CurrentLoad(c) : TRUE
           load(u) == IF CurrentLoad(c) = {} THEN u ELSE ApplyLoadedChat(u, cur, r, snap[c])
           poll(u) == IF polling /\ u.sel = c THEN ApplySynchronizedChat(u, r) ELSE u
           Keeps(u, v) == v \in Screens /\ v.sel = u.sel /\ v.opening = u.opening
           open == CurrentLoad(c) # {}
<1>1. r \in Reads /\ snap[c] \in Snapshots /\ ui \in Screens /\ LoadedTurn(snap[c], r) \in Snapshots
  <2>1. r \in Reads /\ snap[c] \in Snapshots /\ ui \in Screens
    BY DEF ScreenInv, ScreenShape
  <2> QED BY <2>1, SettledTurn
<1>2. open => cur \in Loads /\ cur.chat = c /\ c = ui.sel
  BY DEF ScreenInv, ScreenShape, LoadsInv, CurrentLoad, Waiting
<1>3. retired \in Screens /\ retired.sel = ui.sel /\ retired.opening = ui.opening /\ retired.loaded = ui.loaded
  BY <1>1, SettledActivity DEF RetireOpeningChatActivity, Screens
<1>4. /\ r.phase = "read" /\ reads' = [reads EXCEPT ![c] = Idle] /\ loads' = loads \ Waiting(c)
      /\ ui' = (IF first THEN load(poll(retired)) ELSE poll(load(retired)))
      /\ snap' = (IF \E l \in CurrentLoad(c) : ~Preserves(ui, l)
                  THEN [snap EXCEPT ![c] = LoadedTurn(snap[c], r)] ELSE snap)
      /\ releasing' = (IF open /\ ui.opening # NoChat THEN releasing \cup {c} ELSE releasing)
      /\ polling' = (IF ui.sel = c THEN FALSE ELSE polling)
      /\ UNCHANGED <<run, status, feed, used, interrupts, renaming>>
  BY DEF ReadAnswers, bridgeVars, ScreenInv, ScreenShape
<1> HIDE DEF r, retired, cur
<1>5. ASSUME NEW u \in Screens, u.sel = ui.sel
      PROVE  /\ load(u) \in Screens /\ load(u).sel = ui.sel /\ load(u).opening = u.opening
             /\ open => load(u).loaded
             /\ ~open => load(u).loaded = u.loaded
  <2>1. CASE open
    <3>1. LET v == ApplyLoadedChat(u, cur, r, snap[c])
          IN  v \in Screens /\ v.sel = cur.chat /\ v.opening = u.opening /\ v.loaded
      BY <1>1, <1>2, <2>1, LoadApplied
    <3> QED BY <1>2, <2>1, <3>1
  <2>2. CASE ~open
    BY <1>5, <2>2
  <2> QED BY <2>1, <2>2
<1>6. ASSUME NEW u \in Screens, u.sel = ui.sel
      PROVE  poll(u) \in Screens /\ poll(u).sel = ui.sel /\ poll(u).opening = u.opening /\ poll(u).loaded = u.loaded
  BY <1>1, <1>6, PollApplied
<1> HIDE DEF load, poll, open
<1>7. /\ ui' \in Screens /\ ui'.sel = ui.sel /\ ui'.opening = ui.opening
      /\ ~open => ui'.loaded = ui.loaded
  <2>1. CASE first
    BY <1>3, <1>4, <1>5, <1>6, <2>1
  <2>2. CASE ~first
    BY <1>3, <1>4, <1>5, <1>6, <2>2
  <2> QED BY <2>1, <2>2
<1>8. Idle \in Reads
  BY ChatScreenAssumption DEF Idle, Reads, Statuses, TurnsOrNone, NoTurn
<1>9. ScreenShape'
  BY <1>1, <1>4, <1>7, <1>8 DEF ScreenInv, ScreenShape
<1>10. BridgeShape'
  BY <1>4 DEF BridgeShape
<1>11. \A l \in loads' : l \in loads /\ l.chat # c
  BY <1>4 DEF Waiting
<1>12. \A d \in Chats : d # c => reads'[d] = reads[d]
  BY <1>4 DEF ScreenInv, ScreenShape
<1>13. LoadsInv'
  <2>1. \A l \in loads' : reads'[l.chat].phase # "none"
    BY <1>11, <1>12 DEF ScreenInv, ScreenShape, LoadsInv, Loads
  <2>2. polling' => ui'.sel # NoChat /\ reads'[ui'.sel].phase # "none"
    BY <1>4, <1>7, <1>12 DEF ScreenInv, LoadsInv, ScreenShape, Screens, ChatOrNone
  <2> QED BY <1>7, <1>11, <2>1, <2>2 DEF ScreenInv, LoadsInv
<1>14. SpinnerHasAnEnd'
  <2> SUFFICES ASSUME NEW o, o = ui.opening, o # NoChat
               PROVE  o = ui.sel /\ (o \in releasing' \/ (~ui'.loaded /\ CurrentLoad(o)' # {}))
    BY <1>7 DEF SpinnerHasAnEnd, CurrentLoad, Waiting
  <2>1. o = ui.sel /\ (o \in releasing \/ (~ui.loaded /\ CurrentLoad(o) # {}))
    BY DEF ScreenInv, SpinnerHasAnEnd
  <2>2. CASE open
    BY <1>2, <1>4, <2>1, <2>2
  <2>3. CASE ~open
    <3>1. CurrentLoad(c) = {}
      BY <2>3 DEF open
    <3>2. CurrentLoad(o) # {} => CurrentLoad(o)' # {}
      BY <1>4, <3>1 DEF CurrentLoad, Waiting
    <3> QED BY <1>4, <1>7, <2>1, <2>3, <3>2
  <2> QED BY <2>2, <2>3
<1> QED BY <1>9, <1>10, <1>13, <1>14 DEF ScreenInv

LEMMA Fails ==
    ASSUME BridgeShape, ScreenInv, NEW c \in Chats, ReadFails(c)
    PROVE  BridgeShape' /\ ScreenInv'
<1>1. /\ reads' = [reads EXCEPT ![c] = Idle] /\ loads' = loads \ Waiting(c)
      /\ polling' = (IF ui.sel = c THEN FALSE ELSE polling)
      /\ UNCHANGED <<run, status, feed, releasing, interrupts, renaming, snap>>
  BY DEF ReadFails, bridgeVars
<1>2. BridgeShape'
  BY <1>1 DEF ReadFails, Spend, BridgeShape
<1>3. /\ ui' \in Screens /\ ui'.sel = ui.sel /\ ui'.loaded = ui.loaded
      /\ CurrentLoad(c) = {} => ui' = ui
      /\ CurrentLoad(c) # {} => ui'.opening = (IF ui.opening = c THEN NoChat ELSE ui.opening)
  <2> DEFINE failed == [ui EXCEPT !.opening = IF @ = c THEN NoChat ELSE @]
  <2>1. ui \in Screens /\ failed \in Screens /\ failed.sel = ui.sel /\ failed.loaded = ui.loaded
        /\ failed.opening = (IF ui.opening = c THEN NoChat ELSE ui.opening)
    BY DEF ScreenInv, ScreenShape, Screens, ChatOrNone
  <2>2. \/ CurrentLoad(c) = {} /\ ui' = ui
        \/ CurrentLoad(c) # {} /\ (ui' = failed \/ ui' = [failed EXCEPT !.activity = "loadFailed"])
    BY DEF ReadFails
  <2>3. "loadFailed" \in Activities
    BY DEF Activities
  <2> HIDE DEF failed
  <2> QED BY <2>1, <2>2, <2>3 DEF Screens
<1>4. Idle \in Reads
  BY ChatScreenAssumption DEF Idle, Reads, Statuses, TurnsOrNone, NoTurn
<1>5. ScreenShape'
  BY <1>1, <1>3, <1>4 DEF ScreenInv, ScreenShape
<1>6. \A l \in loads' : l \in loads /\ l.chat # c
  BY <1>1 DEF Waiting
<1>7. \A d \in Chats : d # c => reads'[d] = reads[d]
  BY <1>1 DEF ScreenInv, ScreenShape
<1>8. LoadsInv'
  <2>1. \A l \in loads' : reads'[l.chat].phase # "none"
    BY <1>6, <1>7 DEF ScreenInv, ScreenShape, LoadsInv, Loads
  <2>2. polling' => ui'.sel # NoChat /\ reads'[ui'.sel].phase # "none"
    BY <1>1, <1>3, <1>7 DEF ScreenInv, LoadsInv, ScreenShape, Screens, ChatOrNone
  <2> QED BY <1>3, <1>6, <2>1, <2>2 DEF ScreenInv, LoadsInv
<1>9. SpinnerHasAnEnd'
  <2> SUFFICES ASSUME NEW o, o = ui'.opening, o # NoChat
               PROVE  o = ui.sel /\ (o \in releasing \/ (~ui.loaded /\ CurrentLoad(o)' # {}))
    BY <1>1, <1>3 DEF SpinnerHasAnEnd, CurrentLoad, Waiting
  <2>1. o = ui.opening /\ (CurrentLoad(c) = {} \/ o # c)
    BY <1>3
  <2>2. o = ui.sel /\ (o \in releasing \/ (~ui.loaded /\ CurrentLoad(o) # {}))
    BY <2>1 DEF ScreenInv, SpinnerHasAnEnd
  <2>3. CurrentLoad(o) # {} => CurrentLoad(o)' # {}
    BY <1>1, <2>1 DEF CurrentLoad, Waiting
  <2> QED BY <2>2, <2>3
<1> QED BY <1>2, <1>5, <1>8, <1>9 DEF ScreenInv

\* Steps that load the chat on the screen.
LEMMA LoadsAgain ==
    ASSUME BridgeShape', ScreenInv, NEW c \in Chats, NEW p \in BOOLEAN, NEW v \in BOOLEAN, LoadChat(c, p, v),
           ui' \in Screens, ui'.sel = c, ui.sel = c, ui'.opening \in {ui.opening, NoChat}, ui'.loaded = ui.loaded,
           UNCHANGED <<releasing, polling, interrupts, renaming>>, snap' \in [Chats -> Snapshots]
    PROVE  ScreenInv'
<1>1. /\ loads' \subseteq Loads /\ reads' \in [Chats -> Reads]
      /\ \A l, m \in loads' : l.current /\ m.current => l = m
      /\ \A l \in loads' : l.current => l.chat = c
      /\ \A l \in loads' : reads'[l.chat].phase # "none"
      /\ reads'[c].phase # "none"
      /\ CurrentLoad(c)' # {}
  BY NewLoad DEF ScreenInv
<1>2. ScreenShape'
  BY <1>1 DEF ScreenInv, ScreenShape
<1>3. LoadsInv'
  BY <1>1, ChatScreenAssumption DEF LoadsInv
<1>4. SpinnerHasAnEnd'
  BY <1>1 DEF ScreenInv, SpinnerHasAnEnd
<1> QED BY <1>2, <1>3, <1>4 DEF ScreenInv
LEMMA Moves ==
    ASSUME BridgeShape, ScreenInv, NEW c \in Chats, OpenChat(c)
    PROVE  BridgeShape' /\ ScreenInv'
<1>1. Opened(c) \in Screens /\ Opened(c).sel = c /\ ~Opened(c).loaded /\ Opened(c).opening \in {c, NoChat}
  <2>1. "opening" \in Activities /\ NoTurn \in TurnsOrNone
    BY ChatScreenAssumption DEF Activities, NoTurn, TurnsOrNone
  <2> DEFINE held == c \in cached
  <2>2. held \in BOOLEAN
    OBVIOUS
  <2>3. Opened(c) = [ui EXCEPT !.sel = c, !.opening = IF held THEN NoChat ELSE c,
                               !.chat = c, !.messages = held, !.loaded = FALSE, !.activity = "opening",
                               !.turn = NoTurn, !.stopping = FALSE, !.stopRequested = FALSE]
    BY DEF Opened
  <2> HIDE DEF held
  <2> QED BY <2>1, <2>2, <2>3 DEF ScreenInv, ScreenShape, Screens, ChatOrNone
<1>2. ui' \in Screens /\ ui'.sel = c /\ ~ui'.loaded /\ ui'.opening \in {c, NoChat}
  <2>1. snap[c] \in Snapshots /\ ui' = ApplyThreadRuntimeSnapshot(Opened(c), snap[c])
    BY DEF OpenChat, ScreenInv, ScreenShape
  <2> QED BY <1>1, <2>1, AppliedSnapshot
<1>3. \E v \in BOOLEAN : LoadChat(c, FALSE, v)
  <2>1. (c \in cached) \in BOOLEAN
    OBVIOUS
  <2>2. LoadChat(c, FALSE, c \in cached)
    BY Zenon DEF OpenChat
  <2> QED BY <2>1, <2>2, Zenon
<1>4. /\ loads' \subseteq Loads /\ reads' \in [Chats -> Reads]
      /\ \A l, m \in loads' : l.current /\ m.current => l = m
      /\ \A l \in loads' : l.current => l.chat = c
      /\ \A l \in loads' : reads'[l.chat].phase # "none"
      /\ CurrentLoad(c)' # {}
  BY <1>2, <1>3, NewLoad DEF ScreenInv
<1>5. polling' = FALSE /\ UNCHANGED <<run, status, feed, releasing, interrupts, renaming, snap>>
  BY DEF OpenChat, bridgeVars
<1>6. BridgeShape'
  BY <1>5 DEF OpenChat, BridgeShape, Spend
<1>7. ScreenShape'
  BY <1>2, <1>4, <1>5 DEF ScreenInv, ScreenShape
<1>8. LoadsInv'
  BY <1>2, <1>4, <1>5 DEF LoadsInv
<1>9. SpinnerHasAnEnd'
  <2> SUFFICES ASSUME NEW o, o = ui'.opening, o # NoChat
               PROVE  o = ui'.sel /\ ~ui'.loaded /\ CurrentLoad(o)' # {}
    BY DEF SpinnerHasAnEnd, CurrentLoad, Waiting
  <2> QED BY <1>2, <1>4
<1> QED BY <1>6, <1>7, <1>8, <1>9 DEF ScreenInv

LEMMA Reloads ==
    ASSUME BridgeShape, ScreenInv,
           (\E c \in Chats : ReopenChat(c)) \/ (\E b \in BOOLEAN : Revalidate(b))
    PROVE  BridgeShape' /\ ScreenInv'
<1>1. CASE \E c \in Chats : ReopenChat(c)
  <2>1. PICK c \in Chats : ReopenChat(c)
    BY <1>1
  <2>2. /\ ui.sel = c /\ ui' \in Screens /\ ui'.sel = c /\ ui'.opening = NoChat /\ ui'.loaded = ui.loaded
    BY <2>1 DEF ReopenChat, ScreenInv, ScreenShape, Screens, ChatOrNone
  <2>3. PICK v \in BOOLEAN : LoadChat(c, TRUE, v)
    <3>1. (c \in cached) \in BOOLEAN
      OBVIOUS
    <3>2. LoadChat(c, TRUE, c \in cached)
      BY <2>1, Zenon DEF ReopenChat
    <3> QED BY <3>1, <3>2, Zenon
  <2>4. UNCHANGED <<run, status, feed, releasing, polling, interrupts, renaming, snap>>
    BY <2>1 DEF ReopenChat, bridgeVars
  <2>5. BridgeShape'
    <3>1. Spend("extras")
      BY <2>1 DEF ReopenChat
    <3> QED BY <2>4, <3>1 DEF BridgeShape, Spend
  <2>6. snap' \in [Chats -> Snapshots]
    BY <2>4 DEF ScreenInv, ScreenShape
  <2> QED BY <2>2, <2>3, <2>5, <2>6, <2>4, LoadsAgain
<1>2. CASE \E b \in BOOLEAN : Revalidate(b)
  <2>1. PICK b \in BOOLEAN : Revalidate(b)
    BY <1>2
  <2> DEFINE c == ui.sel
  <2>2. c \in Chats
    BY <2>1 DEF Revalidate, ScreenInv, ScreenShape, Screens, ChatOrNone
  <2>3. ui' \in Screens /\ ui'.sel = c /\ ui'.opening = ui.opening /\ ui'.loaded = ui.loaded
    <3>1. "connected" \in Activities
      BY DEF Activities
    <3>2. ui \in Screens /\ (ui' = ui \/ ui' = [ui EXCEPT !.activity = "connected"])
      BY <2>1 DEF Revalidate, ScreenInv, ScreenShape
    <3> QED BY <3>1, <3>2 DEF Screens
  <2>4. /\ LoadChat(c, TRUE, FALSE)
        /\ UNCHANGED <<run, status, feed, releasing, polling, interrupts, renaming, snap>>
    BY <2>1 DEF Revalidate, bridgeVars
  <2>5. BridgeShape'
    BY <2>1, <2>4 DEF Revalidate, BridgeShape, Spend
  <2>6. snap' \in [Chats -> Snapshots]
    BY <2>4 DEF ScreenInv, ScreenShape
  <2>7. c = ui.sel
    OBVIOUS
  <2> HIDE DEF c
  <2> QED BY <2>2, <2>3, <2>4, <2>5, <2>6, <2>7, LoadsAgain
<1> QED BY <1>1, <1>2

LEMMA Leaves ==
    ASSUME BridgeShape, ScreenInv, StartNewChat PROVE BridgeShape' /\ ScreenInv'
<1>1. /\ ui' = Settled(NoChat) /\ loads' = Superseded(loads) /\ polling' = FALSE
      /\ UNCHANGED <<run, status, feed, reads, releasing, interrupts, renaming, snap>>
  BY DEF StartNewChat, bridgeVars
<1>2. BridgeShape'
  BY <1>1 DEF StartNewChat, BridgeShape, Spend
<1>3. Settled(NoChat) \in Screens /\ Settled(NoChat).opening = NoChat
  <2>1. "ready" \in Activities /\ NoTurn \in TurnsOrNone
    BY ChatScreenAssumption DEF Activities, NoTurn, TurnsOrNone
  <2> QED BY <2>1 DEF Settled, Screens, ChatOrNone
<1>4. \A l \in loads' : l \in Loads /\ ~l.current /\ \E m \in loads : l.chat = m.chat
  <2> SUFFICES ASSUME NEW m \in loads
               PROVE  LET l == [chat |-> m.chat, current |-> FALSE, preserve |-> FALSE, revalidate |-> FALSE]
                      IN  l \in Loads /\ ~l.current /\ l.chat = m.chat
    BY <1>1 DEF Superseded
  <2> QED BY DEF ScreenInv, ScreenShape, Loads
<1>5. ScreenShape'
  BY <1>1, <1>3, <1>4 DEF ScreenInv, ScreenShape
<1>6. LoadsInv'
  BY <1>1, <1>4 DEF ScreenInv, LoadsInv
<1>7. SpinnerHasAnEnd'
  BY <1>1, <1>3 DEF SpinnerHasAnEnd
<1> QED BY <1>2, <1>5, <1>6, <1>7 DEF ScreenInv

LEMMA Polls ==
    ASSUME BridgeShape, ScreenInv, Poll PROVE BridgeShape' /\ ScreenInv'
<1>1. /\ reads' = GetChat(ui.sel) /\ polling' = TRUE /\ ui.sel # NoChat
      /\ UNCHANGED <<run, status, feed, loads, releasing, interrupts, renaming, ui, snap, used>>
  BY DEF Poll, bridgeVars
<1>2. ui.sel \in Chats /\ ui \in Screens
  BY <1>1 DEF ScreenInv, ScreenShape, Screens, ChatOrNone
<1>3. Asked \in Reads /\ Asked.phase = "asked"
  BY ChatScreenAssumption DEF Asked, Idle, Reads, Statuses, TurnsOrNone, NoTurn
<1>4. /\ reads' \in [Chats -> Reads] /\ reads'[ui.sel].phase # "none"
      /\ \A d \in Chats : reads[d].phase # "none" => reads'[d].phase # "none"
  BY <1>1, <1>2, <1>3 DEF GetChat, ScreenInv, ScreenShape
<1>5. BridgeShape'
  BY <1>1 DEF BridgeShape
<1>6. ScreenShape'
  BY <1>1, <1>4 DEF ScreenInv, ScreenShape
<1>7. LoadsInv'
  BY <1>1, <1>2, <1>4 DEF ScreenInv, ScreenShape, LoadsInv, Loads
<1>8. SpinnerHasAnEnd'
  BY <1>1 DEF ScreenInv, SpinnerHasAnEnd, CurrentLoad, Waiting
<1> QED BY <1>5, <1>6, <1>7, <1>8 DEF ScreenInv

LEMMA Releases ==
    ASSUME BridgeShape, ScreenInv, NEW c \in Chats, ReleaseOpeningChat(c)
    PROVE  BridgeShape' /\ ScreenInv'
<1>1. /\ releasing' = releasing \ {c} /\ ui' = [ui EXCEPT !.opening = IF @ = c THEN NoChat ELSE @]
      /\ UNCHANGED <<run, status, feed, reads, loads, polling, interrupts, renaming, snap, used>>
  BY DEF ReleaseOpeningChat, bridgeVars
<1>2. /\ ui' \in Screens /\ ui'.sel = ui.sel /\ ui'.loaded = ui.loaded
      /\ ui'.opening \in {ui.opening, NoChat} /\ ui'.opening # c
  BY <1>1, ChatScreenAssumption DEF ScreenInv, ScreenShape, Screens, ChatOrNone
<1>3. BridgeShape'
  BY <1>1 DEF BridgeShape
<1>4. ScreenShape'
  BY <1>1, <1>2 DEF ScreenInv, ScreenShape
<1> QED BY <1>1, <1>2, <1>3, <1>4, LoadsKept

LEMMA Renames ==
    ASSUME BridgeShape, ScreenInv, SaveTitle \/ TitleSaved PROVE BridgeShape' /\ ScreenInv'
<1>1. /\ UNCHANGED <<run, status, feed, reads, loads, releasing, polling, interrupts, snap>>
      /\ renaming' \in ChatOrNone /\ ui' \in Screens
      /\ ui'.sel = ui.sel /\ ui'.opening = ui.opening /\ ui'.loaded = ui.loaded
  <2>1. CASE SaveTitle
    BY <2>1 DEF SaveTitle, bridgeVars, ScreenInv, ScreenShape, Screens
  <2>2. CASE TitleSaved
    BY <2>2 DEF TitleSaved, bridgeVars, ScreenInv, ScreenShape, Screens, ChatOrNone
  <2> QED BY <2>1, <2>2
<1>2. used' = used \/ used' = [used EXCEPT !["extras"] = @ + 1]
  BY DEF SaveTitle, TitleSaved, Spend
<1>3. BridgeShape'
  BY <1>1, <1>2 DEF BridgeShape
<1>4. ScreenShape'
  BY <1>1 DEF ScreenInv, ScreenShape
<1> QED BY <1>1, <1>3, <1>4, LoadsKept

LEMMA Events ==
    ASSUME BridgeShape, ScreenInv, RunEvent PROVE BridgeShape' /\ ScreenInv'
<1> DEFINE e == Head(feed)
<1>1. /\ e \in RunEvents /\ feed' \in Seq(RunEvents)
      /\ UNCHANGED <<run, status, releasing, polling, renaming, used>>
  BY DEF RunEvent, BridgeShape
<1>2. RunStarted(e) \/ RunTerminal(e)
  BY DEF RunEvent
<1>3. BridgeShape'
  BY <1>1 DEF BridgeShape
<1> HIDE DEF e
<1>4. CASE RunStarted(e)
  <2>1. /\ ui' \in Screens /\ ui'.sel = ui.sel /\ ui'.opening = ui.opening /\ ui'.loaded = ui.loaded
        /\ UNCHANGED <<reads, loads>>
    <3>1. "working" \in Activities
      BY DEF Activities
    <3> QED BY <1>1, <1>4, <3>1 DEF RunStarted, ScreenInv, ScreenShape, Screens, RunEvents
  <2>2. interrupts' \subseteq Interrupts
    <3> DEFINE lost == e.turn = NoTurn
               i == [chat |-> e.chat, turn |-> e.turn, latest |-> lost, phase |-> "asked"]
    <3>1. lost \in BOOLEAN
      OBVIOUS
    <3>2. interrupts \subseteq Interrupts /\ (interrupts' = interrupts \/ interrupts' = interrupts \cup {i})
      BY <1>4 DEF RunStarted, Interrupt, ScreenInv, ScreenShape
    <3> HIDE DEF lost
    <3>3. i \in Interrupts
      BY <1>1, <3>1 DEF Interrupts, RunEvents
    <3> QED BY <3>2, <3>3
  <2>3. snap' \in [Chats -> Snapshots]
    <3>1. "working" \in Activities
      BY DEF Activities
    <3>2. [activity |-> "working", turn |-> e.turn] \in Snapshots
      BY <1>1, <3>1 DEF Snapshots, RunEvents
    <3> QED BY <1>4, <3>2 DEF RunStarted, ScreenInv, ScreenShape
  <2>4. ScreenShape'
    BY <1>1, <2>1, <2>2, <2>3 DEF ScreenInv, ScreenShape
  <2> QED BY <1>1, <1>3, <2>1, <2>4, LoadsKept
<1>5. CASE RunTerminal(e)
  <2>1. TerminalActivity(e.kind) \in Activities /\ NoTurn \in TurnsOrNone
    BY ChatScreenAssumption DEF TerminalActivity, Activities, NoTurn, TurnsOrNone
  <2>2. snap' \in [Chats -> Snapshots]
    <3>1. [activity |-> TerminalActivity(e.kind), turn |-> NoTurn] \in Snapshots
      BY <2>1 DEF Snapshots
    <3> QED BY <1>5, <3>1 DEF RunTerminal, ScreenInv, ScreenShape
  <2>3. UNCHANGED interrupts
    BY <1>5 DEF RunTerminal
  <2>4. CASE e.chat = ui.sel
    <3>1. e.chat \in Chats /\ LoadChat(e.chat, FALSE, FALSE)
      BY <1>1, <1>5, <2>4 DEF RunTerminal, RunEvents
    <3>2. ui' \in Screens /\ ui'.sel = ui.sel /\ ui'.opening = ui.opening /\ ui'.loaded = ui.loaded
      BY <1>5, <2>1, <2>4 DEF RunTerminal, ScreenInv, ScreenShape, Screens
    <3> DEFINE c == e.chat
    <3>3. c \in Chats /\ LoadChat(c, FALSE, FALSE) /\ ui.sel = c /\ ui'.sel = c
      BY <2>4, <3>1, <3>2
    <3> HIDE DEF c
    <3> QED BY <1>1, <1>3, <2>2, <2>3, <3>2, <3>3, LoadsAgain
  <2>5. CASE e.chat # ui.sel
    <3>1. UNCHANGED <<ui, reads, loads>>
      BY <1>5, <2>5 DEF RunTerminal
    <3>2. ScreenShape'
      BY <1>1, <2>2, <2>3, <3>1 DEF ScreenInv, ScreenShape
    <3> QED BY <1>1, <1>3, <3>1, <3>2, LoadsKept
  <2> QED BY <2>4, <2>5
<1> QED BY <1>2, <1>4, <1>5

LEMMA Stops ==
    ASSUME BridgeShape, ScreenInv,
           \/ HandleStopTurn
           \/ \E i \in interrupts : BridgeInterrupts(i) \/ InterruptLost(i) \/ InterruptAnswered(i)
    PROVE  BridgeShape' /\ ScreenInv'
<1>1. UNCHANGED <<run, status, feed, reads, loads, releasing, polling, renaming, snap>>
  BY DEF HandleStopTurn, BridgeInterrupts, InterruptLost, InterruptAnswered, bridgeVars
<1>2. \/ used' = used
      \/ used' = [used EXCEPT !["extras"] = @ + 1]
      \/ used' = [used EXCEPT !["stops"] = @ + 1]
  BY DEF HandleStopTurn, BridgeInterrupts, InterruptLost, InterruptAnswered, Spend
<1>3. BridgeShape'
  BY <1>1, <1>2 DEF BridgeShape
<1>4. ui \in Screens /\ interrupts \subseteq Interrupts
  BY DEF ScreenInv, ScreenShape
<1>5. {"stopping", "noTurn", "stopFailed"} \subseteq Activities /\ NoTurn \in TurnsOrNone
  BY ChatScreenAssumption DEF Activities, NoTurn, TurnsOrNone
<1>6. /\ ui' \in Screens /\ ui'.sel = ui.sel /\ ui'.opening = ui.opening /\ ui'.loaded = ui.loaded
      /\ interrupts' \subseteq Interrupts
  <2>0. CASE HandleStopTurn /\ ui.sel = NoChat
    <3>1. ui' = [ui EXCEPT !.stopRequested = FALSE, !.activity = "noTurn"] /\ interrupts' = interrupts
      BY <2>0 DEF HandleStopTurn
    <3> QED BY <1>4, <1>5, <3>1 DEF Screens
  <2>1. CASE HandleStopTurn /\ ui.sel # NoChat
    <3>1. ui' = [ui EXCEPT !.stopRequested = TRUE, !.stopping = TRUE, !.activity = "stopping"]
          /\ interrupts' = Interrupt(ui.sel, ui.turn) /\ ui.sel # NoChat
      BY <2>1 DEF HandleStopTurn
    <3>2. [chat |-> ui.sel, turn |-> ui.turn, latest |-> ui.turn = NoTurn, phase |-> "asked"] \in Interrupts
      BY <1>4, <3>1 DEF Screens, Interrupts, ChatOrNone
    <3>3. interrupts' \subseteq Interrupts
      BY <1>4, <3>1, <3>2 DEF Interrupt
    <3> QED BY <1>4, <1>5, <3>1, <3>3 DEF Screens
  <2>2. ASSUME NEW i \in interrupts, NEW ph \in {"asked", "ok", "refused", "none"}, NEW t \in TurnsOrNone
        PROVE  Moved(i, ph, t) \subseteq Interrupts
    <3>1. [i EXCEPT !.phase = ph, !.turn = t] \in Interrupts
      BY <1>4 DEF Interrupts
    <3> QED BY <1>4, <3>1 DEF Moved
  <2>3. ASSUME NEW i \in interrupts, BridgeInterrupts(i)
        PROVE  ui' = ui /\ interrupts' \subseteq Interrupts
    <3>1. run[i.chat] \in TurnsOrNone /\ i.turn \in TurnsOrNone
      BY <1>4 DEF Interrupts, BridgeShape
    <3>2. ui' = ui /\ \E ph \in {"asked", "ok", "refused", "none"}, t \in {NoTurn, run[i.chat], i.turn} :
                            interrupts' = Moved(i, ph, t)
      BY <2>3 DEF BridgeInterrupts
    <3> QED BY <1>5, <2>2, <3>1, <3>2
  <2>4. ASSUME NEW i \in interrupts, InterruptLost(i)
        PROVE  ui' = ui /\ interrupts' \subseteq Interrupts
    <3>1. i.turn \in TurnsOrNone
      BY <1>4 DEF Interrupts
    <3>2. ui' = ui /\ interrupts' = Moved(i, "refused", i.turn)
      BY <2>4 DEF InterruptLost
    <3> QED BY <2>2, <3>1, <3>2
  <2>5. ASSUME NEW i \in interrupts, InterruptAnswered(i)
        PROVE  /\ ui' \in Screens /\ ui'.sel = ui.sel /\ ui'.opening = ui.opening /\ ui'.loaded = ui.loaded
               /\ interrupts' \subseteq Interrupts
    <3>1. i.turn \in TurnsOrNone /\ interrupts' = interrupts \ {i}
      BY <1>4, <2>5 DEF Interrupts, InterruptAnswered
    <3>2. \/ ui' = [ui EXCEPT !.activity = "stopping", !.turn = IF i.latest THEN i.turn ELSE @]
          \/ ui' = [ui EXCEPT !.activity = "noTurn", !.stopping = FALSE, !.stopRequested = FALSE]
          \/ ui' = [ui EXCEPT !.activity = "stopFailed", !.stopping = FALSE, !.stopRequested = FALSE]
      BY <2>5 DEF InterruptAnswered
    <3> QED BY <1>4, <1>5, <3>1, <3>2 DEF Screens
  <2> QED BY <1>4, <2>0, <2>1, <2>3, <2>4, <2>5
<1>7. ScreenShape'
  BY <1>1, <1>6 DEF ScreenInv, ScreenShape
<1> QED BY <1>1, <1>3, <1>6, <1>7, LoadsKept

-----------------------------------------------------------------------------
LEMMA ScreenAtStart == Init => BridgeShape /\ ScreenInv
<1> SUFFICES ASSUME Init PROVE BridgeShape /\ ScreenInv
  OBVIOUS
<1>1. NoTurn \in TurnsOrNone /\ "ready" \in Activities
  BY ChatScreenAssumption DEF NoTurn, TurnsOrNone, Activities
<1>2. Settled(First) \in Screens /\ Settled(First).opening = NoChat
  BY <1>1, ChatScreenAssumption DEF Settled, Screens, ChatOrNone
<1>3. BridgeShape
  BY <1>1 DEF Init, BridgeShape
<1>4. Idle \in Reads
  BY <1>1 DEF Idle, Reads, Statuses
<1>5. [activity |-> "none", turn |-> Unset] \in Snapshots
  BY DEF Snapshots
<1>6. ScreenShape
  BY <1>2, <1>4, <1>5 DEF Init, ScreenShape, ChatOrNone
<1>7. LoadsInv /\ SpinnerHasAnEnd
  BY <1>2 DEF Init, LoadsInv, SpinnerHasAnEnd
<1> QED BY <1>3, <1>6, <1>7 DEF ScreenInv

LEMMA ScreenStep ==
    BridgeShape /\ ScreenInv /\ [Next]_vars => BridgeShape' /\ ScreenInv'
<1> SUFFICES ASSUME BridgeShape, ScreenInv, [Next]_vars PROVE BridgeShape' /\ ScreenInv'
  OBVIOUS
<1>1. CASE UNCHANGED vars
  BY <1>1 DEF vars, BridgeShape, ScreenInv, ScreenShape, LoadsInv, SpinnerHasAnEnd, CurrentLoad, Waiting
<1>2. ASSUME NEW c \in Chats,
             \/ RunStarts(c) \/ BridgeReads(c)
             \/ \E k \in {"finished", "failed", "interrupted"} : RunEnds(c, k)
      PROVE  BridgeShape' /\ ScreenInv'
  BY <1>2, BridgeSteps
<1>3. ASSUME NEW c \in Chats, ReadFails(c) \/ ReleaseOpeningChat(c) \/ OpenChat(c)
      PROVE  BridgeShape' /\ ScreenInv'
  BY <1>3, Fails, Releases, Moves
<1>4. ASSUME NEW c \in Chats, NEW first \in BOOLEAN, ReadAnswers(c, first)
      PROVE  BridgeShape' /\ ScreenInv'
  BY <1>4, Answers
<1>5. CASE (\E c \in Chats : ReopenChat(c)) \/ (\E b \in BOOLEAN : Revalidate(b))
  BY <1>5, Reloads
<1>6. CASE Poll \/ StartNewChat \/ SaveTitle \/ TitleSaved \/ RunEvent
  BY <1>6, Polls, Leaves, Renames, Events
<1>7. CASE \/ HandleStopTurn
           \/ \E i \in interrupts : BridgeInterrupts(i) \/ InterruptLost(i) \/ InterruptAnswered(i)
  BY <1>7, Stops
<1> QED BY <1>1, <1>2, <1>3, <1>4, <1>5, <1>6, <1>7 DEF Next

LEMMA ScreenAlways == Spec => [](BridgeShape /\ ScreenInv)
BY ScreenAtStart, ScreenStep, PTL DEF Spec

\* The opening spinner always belongs to the chat on the screen, and a load of
\* that chat that was not answered or not released yet will take it down:
\* whatever loads are superseded, fail or answer late (loadPipeline.tsx,
\* openingChatState.ts).
THEOREM SpinnerComesDown == Spec => []SpinnerHasAnEnd
BY ScreenAlways, PTL DEF ScreenInv

LEMMA OneCurrentLoad == BridgeShape /\ ScreenInv => ChatScreenTypeOK
<1> SUFFICES ASSUME BridgeShape, ScreenInv PROVE ChatScreenTypeOK
  OBVIOUS
<1> DEFINE C == {l \in loads : l.current}
<1>1. \A l, m \in C : l = m
  BY DEF ScreenInv, LoadsInv
<1> HIDE DEF C
<1>2. Cardinality(C) <= 1
  <2>1. CASE C = {}
    BY <2>1, FS_EmptySet
  <2>2. CASE C # {}
    <3>1. PICK l : l \in C
      BY <2>2
    <3>2. C = {l}
      BY <1>1, <3>1
    <3> QED BY <3>2, FS_Singleton
  <2> QED BY <2>1, <2>2
<1> QED BY <1>2 DEF C, ChatScreenTypeOK, BridgeShape, ScreenInv, ScreenShape, LoadsInv, Screens,
           ChatOrNone, TurnsOrNone

\* The state keeps its type, at most one load is the newest, and whatever waits
\* for an answer, loads and the poll, has a read of its chat under way.
THEOREM ScreenTypeCorrect == Spec => []ChatScreenTypeOK
BY ScreenAlways, OneCurrentLoad, PTL
=============================================================================
