------------------------------ MODULE Composer ------------------------------
(***************************************************************************)
(* The message composer of the phone: the draft of every chat with its     *)
(* asynchronous load and save (draftController.ts), the submission ids      *)
(* that make a retry idempotent (submissionController.ts) and their file    *)
(* (submissionIdempotencyCache.ts), sending into a chat (sendMessage.ts,    *)
(* sendMessageState.ts, submitActions.ts), creating a chat with its first   *)
(* message (chatCreationFlow.ts, chatCreationHelpers.ts) and moving between *)
(* chats (chatNavigation.ts, capabilityFlags.ts).                           *)
(*                                                                          *)
(* A scope is the key of a draft: a chat, the screen of a new chat (New),   *)
(* the optimistic chat shown while a chat is being created, or the chat     *)
(* that creation returned.  A text is <<home, n>>: home is the scope whose  *)
(* composer it was typed into, which no code reads.  A revision number is   *)
(* only ever compared with the current one, so an operation keeps "fresh":  *)
(* revisionRef has not moved since the operation recorded it.  Attachments, *)
(* slash commands and the transcript are left out.                          *)
(***************************************************************************)
EXTENDS Integers, Sequences, FiniteSets, SequencesExt

CONSTANTS
    Chats,        \* chats that exist when the app starts
    New,          \* the compose screen, selectedChatId = null
    NoText,       \* the blank draft
    Variants,     \* distinct texts a user may type into one composer
    FailedLimit,  \* FAILED_SUBMISSION_LIMIT
    StoreLimit,   \* SUBMISSION_IDEMPOTENCY_LIMIT
    MaxSends,     \* bound on sends and creations together
    MaxIds, MaxTypes, MaxMoves, MaxFaults, MaxBreaks, MaxCreates  \* the other bounds

Pending(id) == <<"pending", id>>
Made(id) == <<"made", id>>

ASSUME ComposerAssumption ==
    /\ FailedLimit \in Nat \ {0} /\ StoreLimit \in Nat \ {0}
    /\ New \notin Chats /\ MaxIds \in Nat
    /\ \A i \in 1..MaxIds : {Pending(i), Made(i)} \cap (Chats \cup {New}) = {}

Scopes == Chats \cup {New} \cup {Pending(i) : i \in 1..MaxIds} \cup {Made(i) : i \in 1..MaxIds}
Texts == {<<s, n>> : s \in Scopes, n \in Variants}

VARIABLES
    sel,       \* selectedChatIdRef
    view,      \* useDraftController: draft, owner, loaded, unsynced, entries, dirty
    restored,  \* pendingRestoredDraftRef
    failed,    \* SubmissionController.failed, oldest first
    store,     \* SubmissionIdempotencyCache.entries (oldest first) and whether load() is done
    saves,     \* writes under way: [drafts, ids], each a sequence of snapshots
    disk,      \* what the phone's files hold: [drafts, ids]
    ops,       \* sends and creations awaiting an answer
    late,      \* requests the phone gave up on that the bridge may still receive
    bridge,    \* [delivered: messages accepted, made: ids of created chats]
    nextId,    \* ids handed out so far
    ghost,     \* what the user meant: see GhostInit
    used       \* how much of each bound is spent

vars == <<sel, view, restored, failed, store, saves, disk, ops, late, bridge, nextId, ghost, used>>

Spend(b) == used' = [used EXCEPT ![b] = @ + 1]

-----------------------------------------------------------------------------
(* Drafts. *)

Entry(entries, s) == IF s \in DOMAIN entries THEN entries[s] ELSE NoText

UpdateDraftEntries(entries, s, t) ==
    [x \in (DOMAIN entries \ {s}) \cup (IF t = NoText THEN {} ELSE {s}) |->
        IF x = s THEN t ELSE entries[x]]

\* The effect that files the visible draft under its owner.
FileDraft(v) ==
    IF ~v.loaded \/ Entry(v.entries, v.owner) = v.text THEN v
    ELSE [v EXCEPT !.entries = UpdateDraftEntries(@, v.owner, v.text), !.dirty = TRUE, !.timer = TRUE]

SetDraft(v, t) ==
    IF t = v.text THEN v ELSE FileDraft([v EXCEPT !.text = t, !.unsynced = TRUE])

HydrateAlways(v, s) == [v EXCEPT !.text = Entry(v.entries, s), !.owner = s]

\* The hydration effect: the current scope's draft replaces the visible one,
\* unless the user has edited it since the scope became current.
Hydrate(v, s) ==
    IF v.unsynced
    THEN [v EXCEPT !.entries = UpdateDraftEntries(@, s, v.text), !.owner = s,
                   !.dirty = TRUE, !.timer = TRUE]
    ELSE [v EXCEPT !.text = Entry(v.entries, s), !.owner = s]

\* A change of scope seen by a render and its effects; the last effect is the
\* one of chatCreationFlow.ts that puts a restored draft back.
EnterScope(v, s, back) ==
    LET seen == [v EXCEPT !.unsynced = FALSE]
        own == IF v.loaded THEN Hydrate(seen, s) ELSE seen
    IN  IF back = NoText THEN own ELSE SetDraft(own, back)

Unfresh(os) == {[o EXCEPT !.fresh = FALSE] : o \in os}

\* Operations whose recorded revision is still the current one.
AfterEdit(os, old, new) == IF old.text = new.text THEN os ELSE Unfresh(os)

\* The app has started and read its files, which were empty.
Init ==
    /\ sel = New
    /\ view = [text |-> NoText, owner |-> New, loaded |-> TRUE, unsynced |-> FALSE,
               entries |-> <<>>, dirty |-> FALSE, timer |-> FALSE]
    /\ restored = NoText
    /\ failed = <<>>
    /\ store = [ids |-> <<>>, loaded |-> TRUE]
    /\ saves = [drafts |-> <<>>, ids |-> <<>>]
    /\ disk = [drafts |-> <<>>, ids |-> <<>>]
    /\ ops = {} /\ late = {}
    /\ bridge = [delivered |-> {}, made |-> {}]
    /\ nextId = 0
    /\ ghost = [intents |-> 0,      \* messages the user meant to send so far
                owed |-> {},        \* <<key, intent>>: the user saw this send fail
                done |-> {},        \* intents reported as sent
                twins |-> {},       \* intents that were in flight next to an identical one
                exposed |-> {},     \* intents whose failure record may be gone
                created |-> {},     \* intents that started as the first message of a new chat
                early |-> FALSE,    \* a submission began before the stored ids were loaded
                left |-> <<>>,      \* the text the user last left in each scope
                strayed |-> FALSE,  \* a draft was carried over a move before the load
                clobbered |-> {}]   \* scopes a failed creation put its text into
    /\ used = [sends |-> 0, types |-> 0, moves |-> 0, faults |-> 0, breaks |-> 0, creates |-> 0]

\* Before the drafts file is read a change of scope leaves the text where it was.
Strays == ~view.loaded /\ view.text # NoText

\* The user edits the composer.
TypeDraft(t) ==
    /\ used.types < MaxTypes /\ Spend("types")
    /\ t # view.text
    /\ view' = SetDraft(view, t)
    /\ ops' = Unfresh(ops)
    /\ ghost' = [ghost EXCEPT !.left = UpdateDraftEntries(@, sel, t)]
    /\ UNCHANGED <<sel, restored, failed, store, saves, disk, late, bridge, nextId>>

\* The user opens another chat or starts a new one.
MoveTo(s) ==
    /\ used.moves < MaxMoves /\ Spend("moves")
    /\ s # sel
    /\ sel' = s
    /\ view' = EnterScope(view, s, restored)
    /\ restored' = NoText
    /\ ops' = Unfresh(ops)
    /\ ghost' = [ghost EXCEPT
            !.strayed = @ \/ Strays,
            !.clobbered = IF restored = NoText THEN @ ELSE @ \cup {s}]
    /\ UNCHANGED <<failed, store, saves, disk, late, bridge, nextId>>

\* The drafts file has been read (or could not be): an edit made meanwhile wins.
DraftsLoaded ==
    /\ ~view.loaded
    /\ view' = FileDraft(Hydrate([view EXCEPT !.entries = disk.drafts, !.loaded = TRUE], sel))
    /\ ops' = IF view.unsynced THEN ops ELSE Unfresh(ops)
    /\ UNCHANGED <<sel, restored, failed, store, saves, disk, late, bridge, nextId, ghost, used>>

\* The 180 ms timer after the last change: the entries go to the file.
PersistDrafts ==
    /\ view.timer
    /\ view' = [view EXCEPT !.timer = FALSE]
    /\ saves' = [saves EXCEPT !.drafts = Append(@, view.entries)]
    /\ UNCHANGED <<sel, restored, failed, store, disk, ops, late, bridge, nextId, ghost, used>>

DraftsWrittenAlwaysClean(ok) ==
    /\ saves.drafts # <<>>
    /\ saves' = [saves EXCEPT !.drafts = Tail(@)]
    /\ IF ok
       THEN /\ disk' = [disk EXCEPT !.drafts = Head(saves.drafts)]
            /\ view' = [view EXCEPT !.dirty = FALSE]
            /\ UNCHANGED used
       ELSE /\ used.faults < MaxFaults /\ Spend("faults")
            /\ UNCHANGED <<disk, view>>
    /\ UNCHANGED <<sel, restored, failed, store, ops, late, bridge, nextId, ghost>>

\* A write ends.  The drafts are clean if nothing changed since its snapshot was taken.
DraftsWritten(ok) ==
    /\ saves.drafts # <<>>
    /\ saves' = [saves EXCEPT !.drafts = Tail(@)]
    /\ IF ok
       THEN /\ disk' = [disk EXCEPT !.drafts = Head(saves.drafts)]
            /\ view' = [view EXCEPT !.dirty = @ /\ (view.timer \/ Len(saves.drafts) > 1)]
            /\ UNCHANGED used
       ELSE /\ used.faults < MaxFaults /\ Spend("faults")
            /\ UNCHANGED <<disk, view>>
    /\ UNCHANGED <<sel, restored, failed, store, ops, late, bridge, nextId, ghost>>

-----------------------------------------------------------------------------
(* Submission ids.  A key is <<scope, text>>; the hash that stands for it in  *)
(* the file is taken to be injective.                                         *)

\* Map.delete: a key has at most one entry.
Without(seq, key) ==
    LET at == {i \in DOMAIN seq : seq[i].key = key}
    IN  IF at = {} THEN seq ELSE RemoveAt(seq, CHOOSE i \in at : TRUE)
IdIn(seq, key) == {e.id : e \in {x \in ToSet(seq) : x.key = key}}
NewestUnbounded(seq, limit) == seq

Newest(seq, limit) == IF Len(seq) > limit THEN Tail(seq) ELSE seq
Remember(seq, key, id, limit) == Newest(Append(Without(seq, key), [key |-> key, id |-> id]), limit)

BeginIdAlwaysNew(key) == IF IdIn(failed, key) # {} THEN CHOOSE i \in IdIn(failed, key) : TRUE ELSE nextId + 1

BeginIdStuck(key) ==
    IF IdIn(failed, key) # {} THEN CHOOSE i \in IdIn(failed, key) : TRUE ELSE IF nextId = 0 THEN 1 ELSE nextId

\* The id begin() gives a submission: the failed one's, the stored one's, or a new one.
BeginId(key) ==
    LET known == IF IdIn(failed, key) # {} THEN IdIn(failed, key) ELSE IdIn(store.ids, key)
    IN  IF known # {} THEN CHOOSE i \in known : TRUE ELSE nextId + 1

\* record() and clear() change the entries and queue a snapshot for the file.
StoreTo(ids) == /\ store' = [store EXCEPT !.ids = ids]
                /\ saves' = [saves EXCEPT !.ids = Append(@, ids)]

Fail(op) ==
    /\ failed' = Remember(failed, op.key, op.id, FailedLimit)
    /\ StoreTo(Remember(store.ids, op.key, op.id, StoreLimit))

Succeed(op) ==
    /\ failed' = Without(failed, op.key)
    /\ IF IdIn(store.ids, op.key) = {} THEN UNCHANGED <<store, saves>>
       ELSE StoreTo(Without(store.ids, op.key))

\* Failures the phone may no longer remember once this one is recorded.
Forgotten(op) ==
    LET kept == {e.key : e \in ToSet(Remember(failed, op.key, op.id, FailedLimit))}
                  \cap {e.key : e \in ToSet(Remember(store.ids, op.key, op.id, StoreLimit))}
    IN  {p[2] : p \in {x \in ghost.owed : x[1] # op.key /\ x[1] \notin kept}}

OwedIntents == {p[2] : p \in ghost.owed}

\* The intent behind a submission: the one whose failure the user saw, or a new one.
Owed(key) == {p[2] : p \in {x \in ghost.owed : x[1] = key}}
IntentOf(key) == IF Owed(key) # {} THEN CHOOSE i \in Owed(key) : TRUE ELSE ghost.intents + 1

MeantBy(key) ==
    LET i == IntentOf(key)
        same == {o \in ops : o.key = key}
    IN  [ghost EXCEPT
            !.intents = IF i > @ THEN i ELSE @,
            !.owed = {p \in @ : p[1] # key},
            !.twins = IF same = {} THEN @ ELSE @ \cup {i} \cup {o.intent : o \in same},
            !.early = @ \/ ~store.loaded,
            !.left = UpdateDraftEntries(@, key[1], NoText)]

Begin(kind, scope, key) ==
    [kind |-> kind, id |-> BeginId(key), key |-> key, scope |-> scope, intent |-> IntentOf(key),
     fresh |-> kind = "send", step |-> "wire", adopted |-> FALSE]

IdsLeft(key) == BeginId(key) <= MaxIds

\* sendMessage and runSendMessageTurn up to the request: the composer is
\* cleared and the revision of the cleared draft remembered.
SendMessage ==
    LET key == <<sel, view.text>>
    IN  /\ sel # New /\ view.text # NoText /\ IdsLeft(key)
        /\ used.sends + used.creates < MaxSends /\ Spend("sends")
        /\ nextId' = IF BeginId(key) > nextId THEN BeginId(key) ELSE nextId
        /\ failed' = Without(failed, key)
        /\ view' = SetDraft(view, NoText)
        /\ ops' = Unfresh(ops) \cup {Begin("send", sel, key)}
        /\ ghost' = MeantBy(key)
        /\ UNCHANGED <<sel, restored, store, saves, disk, late, bridge>>

\* What the bridge's queue does with a message: each submission id once.
Deliver(id, intent, chat) ==
    IF \E m \in bridge.delivered : m.id = id THEN bridge
    ELSE [bridge EXCEPT !.delivered = @ \cup {[id |-> id, intent |-> intent, chat |-> chat]}]

KnownChat(s) == s \in Chats \/ (\E i \in bridge.made : s = Made(i))

BridgeAccepts(op) ==
    /\ op.step = "wire" /\ op.kind = "send" /\ KnownChat(op.scope)
    /\ bridge' = Deliver(op.id, op.intent, op.scope)
    /\ ops' = (ops \ {op}) \cup {[op EXCEPT !.step = "held"]}
    /\ UNCHANGED <<sel, view, restored, failed, store, saves, disk, late, nextId, ghost, used>>

\* A request the phone has given up on arrives after all.
LateArrival(r) ==
    /\ late' = late \ {r}
    /\ bridge' = IF r.kind = "create" THEN [bridge EXCEPT !.made = @ \cup {r.id}]
                 ELSE Deliver(r.id, r.intent, r.scope)
    /\ UNCHANGED <<sel, view, restored, failed, store, saves, disk, ops, nextId, ghost, used>>

Finished(op) == [ghost EXCEPT !.done = @ \cup {op.intent}]

SendSucceeds(op) ==
    /\ op.step = "held" /\ op.kind = "send"
    /\ Succeed(op)
    /\ ops' = ops \ {op}
    /\ ghost' = Finished(op)
    /\ UNCHANGED <<sel, view, restored, disk, late, bridge, nextId, used>>

MayRestoreAnywhere(op) == op.fresh \/ view.text = NoText

\* Whether fail() lets the draft come back: same scope, same revision, still blank.
MayRestore(op) == op.fresh /\ sel = op.key[1] /\ view.text = NoText

\* A request that never left, was lost or was refused is forgotten by the
\* network; one that timed out may still be on its way.
GiveUp(op) ==
    LET kind == IF op.kind = "create" /\ op.step = "wire" THEN "create" ELSE "send"
        request == [id |-> op.id, intent |-> op.intent, scope |-> op.scope, kind |-> kind]
        onWire == op.step \in {"wire", "turn"} /\ (kind = "create" \/ KnownChat(op.scope))
    IN  late' \in {late} \cup {late \cup {request} : x \in {y \in {1} : onWire}}

FaultOn(op) == IF KnownChat(op.scope) \/ op.kind = "create" THEN used.faults < MaxFaults /\ Spend("faults")
               ELSE UNCHANGED used

\* restoreFailedSubmission and the rest of the catch block.
SendFails(op) ==
    /\ op.kind = "send" /\ FaultOn(op) /\ GiveUp(op)
    /\ Fail(op)
    /\ view' = IF MayRestore(op) THEN SetDraft(view, op.key[2]) ELSE view
    /\ ops' = AfterEdit(ops \ {op}, view, view')
    /\ ghost' = [ghost EXCEPT
            !.owed = {p \in @ : p[1] # op.key} \cup {<<op.key, op.intent>>},
            !.exposed = @ \cup Forgotten(op),
            !.left = IF MayRestore(op) THEN UpdateDraftEntries(@, sel, op.key[2]) ELSE @]
    /\ UNCHANGED <<sel, restored, disk, bridge, nextId>>

-----------------------------------------------------------------------------
(* Creating a chat with its first message. *)

\* createChat: clearing the draft and selecting the optimistic chat reach the
\* draft hook in one render, so the cleared text is filed under the new scope.
CreateChat ==
    LET key == <<New, view.text>>
        op == Begin("create", Pending(BeginId(key)), key)
    IN  /\ sel = New /\ view.text # NoText /\ IdsLeft(key)
        /\ used.creates < MaxCreates /\ used.sends + used.creates < MaxSends
        /\ Spend("creates")
        /\ nextId' = IF op.id > nextId THEN op.id ELSE nextId
        /\ failed' = Without(failed, key)
        /\ sel' = op.scope
        /\ view' = EnterScope([view EXCEPT !.text = NoText], op.scope, restored)
        /\ restored' = NoText
        /\ ops' = Unfresh(ops) \cup {op}
        /\ ghost' = [MeantBy(key) EXCEPT !.created = @ \cup {op.intent}]
        /\ UNCHANGED <<store, saves, disk, late, bridge>>

\* bridge/thread/create: one chat per submission id.
BridgeCreates(op) ==
    /\ op.kind = "create" /\ op.step = "wire"
    /\ bridge' = [bridge EXCEPT !.made = @ \cup {op.id}]
    /\ ops' = (ops \ {op}) \cup {[op EXCEPT !.step = "made"]}
    /\ UNCHANGED <<sel, view, restored, failed, store, saves, disk, late, nextId, ghost, used>>

\* onCreated: the created chat takes the place of the optimistic one, unless
\* the user has opened another chat meanwhile; the message goes out under the same id.
ChatCreated(op) ==
    LET adopt == sel \in {New, op.scope}
    IN  /\ op.kind = "create" /\ op.step = "made"
        /\ ops' = (IF adopt THEN Unfresh(ops \ {op}) ELSE ops \ {op}) \cup
                    {[op EXCEPT !.step = "turn", !.scope = Made(op.id), !.adopted = adopt]}
        /\ IF adopt
           THEN /\ sel' = Made(op.id)
                /\ view' = EnterScope(view, sel', restored)
                /\ restored' = NoText
                /\ ghost' = [ghost EXCEPT !.strayed = @ \/ Strays,
                                          !.clobbered = IF restored = NoText THEN @ ELSE @ \cup {sel'}]
           ELSE UNCHANGED <<sel, view, restored, ghost>>
        /\ UNCHANGED <<failed, store, saves, disk, late, bridge, nextId, used>>

TurnAccepted(op) ==
    /\ op.kind = "create" /\ op.step = "turn"
    /\ bridge' = Deliver(op.id, op.intent, op.scope)
    /\ ops' = (ops \ {op}) \cup {[op EXCEPT !.step = "held"]}
    /\ UNCHANGED <<sel, view, restored, failed, store, saves, disk, late, nextId, ghost, used>>

CreateSucceeds(op) ==
    /\ op.kind = "create" /\ op.step = "held"
    /\ Succeed(op)
    /\ ops' = ops \ {op}
    /\ ghost' = Finished(op)
    /\ UNCHANGED <<sel, view, restored, disk, late, bridge, nextId, used>>

\* handleCreateChatFailure before the chat exists: the failure is not recorded,
\* the draft comes back wherever the user now is, and the ref that makes it
\* survive the change of scope stays set when there is none.
CreateFailsUnmade(op) ==
    LET text == op.key[2]
    IN  /\ op.kind = "create" /\ op.step \in {"wire", "made"} /\ FaultOn(op) /\ GiveUp(op)
        /\ ops' = Unfresh(ops \ {op})
        /\ IF sel = op.scope
           THEN /\ sel' = New
                /\ view' = EnterScope(view, New, text)
                /\ restored' = NoText
           ELSE /\ view' = SetDraft(view, text)
                /\ restored' = text
                /\ UNCHANGED sel
        /\ ghost' = [ghost EXCEPT
                !.owed = {p \in @ : p[1] # op.key} \cup {<<op.key, op.intent>>},
                !.left = UpdateDraftEntries(@, New, text),
                !.strayed = @ \/ Strays,
                !.clobbered = @ \cup {sel'}]
        /\ UNCHANGED <<failed, store, saves, disk, bridge, nextId>>

\* handleCreateChatFailure after the chat was created: recorded under the scope
\* of the new-chat screen; the draft comes back in the created chat if it is shown.
CreateFailsMade(op) ==
    LET text == op.key[2]
        back == op.adopted /\ sel = op.scope /\ view.text = NoText
        key == IF back THEN <<sel, text>> ELSE op.key
    IN  /\ op.kind = "create" /\ op.step \in {"turn", "held"} /\ FaultOn(op) /\ GiveUp(op)
        /\ Fail(op)
        /\ ops' = IF back THEN Unfresh(ops \ {op}) ELSE ops \ {op}
        /\ view' = IF back THEN SetDraft(view, text) ELSE view
        /\ restored' = IF back THEN text ELSE restored
        /\ ghost' = [ghost EXCEPT
                !.owed = {p \in @ : p[1] # key} \cup {<<key, op.intent>>},
                !.exposed = @ \cup Forgotten(op),
                !.left = IF back THEN UpdateDraftEntries(@, sel, text) ELSE @]
        /\ UNCHANGED <<sel, disk, bridge, nextId>>

-----------------------------------------------------------------------------
(* The file of submission ids, restarts, and time. *)

StoreLoaded ==
    /\ ~store.loaded
    /\ store' = [ids |-> disk.ids, loaded |-> TRUE]
    /\ UNCHANGED <<sel, view, restored, failed, saves, disk, ops, late, bridge, nextId, ghost, used>>

\* One link of writeChain: writes end in order; a failed one is only reported.
IdsWritten(ok) ==
    /\ saves.ids # <<>>
    /\ saves' = [saves EXCEPT !.ids = Tail(@)]
    /\ IF ok
       THEN /\ disk' = [disk EXCEPT !.ids = Head(saves.ids)]
            /\ UNCHANGED <<used, ghost>>
       ELSE /\ used.faults < MaxFaults /\ Spend("faults")
            /\ ghost' = [ghost EXCEPT !.exposed = @ \cup OwedIntents, !.early = TRUE]
            /\ UNCHANGED disk
    /\ UNCHANGED <<sel, view, restored, failed, store, ops, late, bridge, nextId>>

\* The system ends the app and the user starts it again, not knowing what
\* became of the sends in flight; only those that had failed before have a record.
Restart ==
    /\ used.breaks < MaxBreaks /\ Spend("breaks")
    /\ sel' = New
    /\ view' = [text |-> NoText, owner |-> New, loaded |-> FALSE, unsynced |-> FALSE,
                entries |-> <<>>, dirty |-> FALSE, timer |-> FALSE]
    /\ restored' = NoText /\ failed' = <<>> /\ ops' = {}
    /\ store' = [ids |-> <<>>, loaded |-> FALSE]
    /\ saves' = [drafts |-> <<>>, ids |-> <<>>]
    /\ ghost' = [ghost EXCEPT !.owed = @ \cup {<<o.key, o.intent>> : o \in ops},
                              !.exposed = @ \cup (IF saves.ids = <<>> THEN {} ELSE OwedIntents)
                                            \cup {o.intent : o \in {x \in ops : IdIn(store.ids, x.key) = {}}},
                              !.early = @ \/ saves.ids # <<>>,
                              !.left = disk.drafts]
    /\ UNCHANGED <<disk, late, bridge, nextId>>

\* 24 hours pass: every stored id is older than SUBMISSION_IDEMPOTENCY_TTL_MS,
\* and is dropped by lookup, by record or when the file is parsed.
DayPasses ==
    /\ used.breaks < MaxBreaks /\ Spend("breaks")
    /\ store' = [store EXCEPT !.ids = <<>>]
    /\ disk' = [disk EXCEPT !.ids = <<>>]
    /\ saves' = [saves EXCEPT !.ids = [i \in 1..Len(@) |-> <<>>]]
    /\ ghost' = [ghost EXCEPT !.exposed = @ \cup OwedIntents]
    /\ UNCHANGED <<sel, view, restored, failed, ops, late, bridge, nextId>>

Next ==
    \/ \E n \in Variants : TypeDraft(<<sel, n>>)
    \/ TypeDraft(NoText)
    \/ \E s \in Chats \cup {New} \cup {Made(i) : i \in bridge.made} : MoveTo(s)
    \/ DraftsLoaded \/ PersistDrafts \/ StoreLoaded
    \/ \E ok \in BOOLEAN : DraftsWritten(ok) \/ IdsWritten(ok)
    \/ SendMessage \/ CreateChat
    \/ \E op \in ops : \/ BridgeAccepts(op) \/ SendSucceeds(op) \/ SendFails(op)
                       \/ BridgeCreates(op) \/ ChatCreated(op) \/ TurnAccepted(op)
                       \/ CreateSucceeds(op) \/ CreateFailsUnmade(op) \/ CreateFailsMade(op)
    \/ \E r \in late : LateArrival(r)
    \/ Restart \/ DayPasses

Spec == Init /\ [][Next]_vars

-----------------------------------------------------------------------------
(* Properties. *)

\* Every variable holds what its comment says; in particular an operation's
\* scope is the one its kind and step call for.
ComposerTypeOK ==
    /\ sel \in Scopes /\ view.owner \in Scopes
    /\ {view.text, restored} \subseteq Texts \cup {NoText}
    /\ \A e \in {view.entries, disk.drafts} \cup ToSet(saves.drafts) :
          DOMAIN e \subseteq Scopes /\ \A s \in DOMAIN e : e[s] \in Texts
    /\ \A q \in {failed, store.ids, disk.ids} : \A e \in ToSet(q) : e.id \in 1..nextId
    /\ Len(failed) <= FailedLimit /\ Len(store.ids) <= StoreLimit
    /\ \A o \in ops : /\ o.id \in 1..nextId /\ o.intent \in 1..ghost.intents
                      /\ o.kind = "create" => o.scope =
                            IF o.step \in {"wire", "made"} THEN Pending(o.id) ELSE Made(o.id)
                      /\ o.kind = "send" => o.scope = o.key[1]

Remembered(i) == i \notin ghost.exposed /\ i \notin ghost.twins

\* A retry of a send the user saw fail (submissionController.begin) never
\* delivers the message a second time, whatever happened to the first request:
\* lost, late, or delivered with its answer lost, also across a restart of the
\* app.  Not covered: messages in flight next to an identical one, failures the
\* phone has dropped (limit of 32, 24 hours, a write that did not finish), sends
\* before the stored ids are read, and first messages of new chats.
AtMostOncePerIntent ==
    ~ghost.early => \A m1, m2 \in bridge.delivered :
        m1.intent = m2.intent /\ Remembered(m1.intent) /\ m1.intent \notin ghost.created => m1 = m2

\* What docs/setup-and-operations.md says of retries, for first messages too.
RetryNeverDuplicates ==
    ~ghost.early => \A m1, m2 \in bridge.delivered :
        m1.intent = m2.intent /\ Remembered(m1.intent) => m1 = m2

\* A send reported as successful has put the message into the chat: reusing the
\* id of an earlier submission never makes the bridge swallow another message.
SentMeansDelivered ==
    ~ghost.early => \A i \in ghost.done \ (ghost.twins \cup ghost.created) :
        \E m \in bridge.delivered : m.intent = i

\* The text a user left in a chat's composer is still there when the chat is
\* shown again, whatever loads, answers and failures came in between.  A chat
\* into which a failed creation put its text, the optimistic chat of a creation
\* and moves made before the drafts file is read are not covered.
NothingTypedIsLost ==
    view.loaded /\ ~ghost.strayed =>
      \A s \in DOMAIN ghost.left \cap (Chats \cup {Made(i) : i \in bridge.made}) :
        s \notin ghost.clobbered => ghost.left[s] = IF s = sel THEN view.text ELSE Entry(view.entries, s)

\* No chat's composer shows, and no file keeps, a text typed into another chat.
DraftsStayHome ==
    ~ghost.strayed => \A s \in Chats : \A e \in {view.entries, disk.drafts} :
        Entry(e, s) # NoText => e[s][1] \in {s, New}

\* Drafts marked clean are the ones in the file, so that a restart loses none of them.
CleanMeansSaved == view.loaded /\ ~view.dirty => disk.drafts = view.entries

=============================================================================
