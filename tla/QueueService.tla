---------------------------- MODULE QueueService ----------------------------
(***************************************************************************)
(* The bridge's message queue for one chat thread                          *)
(* (services/rust-bridge/src/queue_service.rs) together with the part of   *)
(* the ACP session it depends on (acp/session.rs, acp/interactions.rs).    *)
(*                                                                         *)
(* A message the phone sends is prompted at once when the thread is idle   *)
(* and queued otherwise; a queued message can be cancelled, edited while   *)
(* it is next, or steered into the running turn.  Every operation and the  *)
(* handler of session events take the thread's actor mutex.  send_message  *)
(* and drain_thread_queue keep it while the agent admits the prompt        *)
(* ("actor"); drain_pending_steers gives it up around its calls to the     *)
(* agent ("tasks").                                                        *)
(*                                                                         *)
(* A message is its submission id; texts, byte budgets and the window of   *)
(* 1024 remembered submissions are not modelled.  Approvals and user       *)
(* inputs are always tested and cleared together and form one set.  A run  *)
(* has the number of its generation; the run id, set and cleared with the  *)
(* generation, is left out, as is action_in_flight_item_id, which nothing  *)
(* sets.                                                                   *)
(***************************************************************************)
EXTENDS Integers, Sequences, FiniteSets, SequencesExt

CONSTANTS
    None,
    Submissions,        \* submission ids the phone may use, again after a failure
    Tools,              \* tool calls of the agent
    Asks,               \* approvals and user inputs the agent may ask for
    SteerModes,         \* "native" (ACP extension), "handoff" (harness)
    QueueMaxItems,      \* QUEUE_MAX_ITEMS_PER_THREAD
    MaxSteerTasks,      \* bound: drain_pending_steers tasks at work
    MaxGeneration,      \* bound: runs
    MaxEvents,          \* bound: session events waiting for the queue
    MaxRestarts,        \* bound: bridge restarts
    FaultKinds, MaxFaults

\* send_message or drain_thread_queue waiting for the agent to start a turn.
TurnRequests ==
    [kind : {"send", "drain"}, entry : Submissions,
     stage : {"asking", "started", "refused", "unknown"}, turn : Nat]

\* steer_dispatch_in_flight: a message on its way into the running turn, and
\* whether the end of the run has crossed it.
SteersInFlight == [entry : Submissions, crossed : BOOLEAN]

ASSUME QueueBounds ==
    /\ QueueMaxItems \in Nat \ {0}
    /\ MaxSteerTasks \in Nat
    /\ MaxGeneration \in Nat
    /\ SteerModes \subseteq {"native", "handoff"}
    /\ None \notin Submissions \cup TurnRequests \cup SteersInFlight

SteerTasks == 1..MaxSteerTasks
Generations == 1..MaxGeneration

VARIABLES
    rt,             \* the thread's BridgeThreadQueueRuntime
    actor,          \* the task that holds the actor across a turn start, or None
    drain,          \* a spawned drain_thread_queue task has not run yet
    tasks,          \* drain_pending_steers tasks
    results,        \* submission_results: submission -> "none", "queued", "sent"
    pending,        \* submission_pending
    store,          \* the idempotency file
    dirty,          \* submission_dirty
    session,        \* the ACP session's generation state
    asked,          \* interactions registered and unanswered
    issued,         \* tool calls and interactions so far: their ids are fresh
    events,         \* canonical events on their way to the queue
    generation,     \* next_generation of the session
    restarts, faults,
    prompted,       \* history: submission -> times the agent was given it
    line,           \* history: messages accepted and not yet settled, in order
    disposed        \* history: generation -> recorded completion disposition

queueVars == <<rt, actor, drain, tasks>>
submissionVars == <<results, pending, store, dirty>>
sessionVars == <<session, asked, issued, events, generation>>
history == <<prompted, line, disposed>>
vars == <<queueVars, submissionVars, sessionVars, restarts, faults, history>>

NewRuntime ==
    [items |-> <<>>, pending_steers |-> <<>>, editing |-> None,
     steer_prepare |-> FALSE, steer |-> None,
     turn |-> None, generation |-> None, tools |-> {}, known |-> FALSE,
     running |-> FALSE, starting |-> FALSE, retry |-> FALSE,
     interactions |-> {}, completions |-> {}, error |-> FALSE]

NoTask == [stage |-> "idle", entry |-> None, target |-> None, fresh |-> FALSE]
NoRun == [state |-> "idle", generation |-> 0, turn |-> 0, tools |-> {}]

Init ==
    /\ rt = NewRuntime
    /\ actor = None
    /\ drain = FALSE
    /\ tasks = [w \in SteerTasks |-> NoTask]
    /\ results = [s \in Submissions |-> "none"]
    /\ pending = {}
    /\ store = [sent |-> {}, pending |-> {}]
    /\ dirty = FALSE
    /\ session = NoRun
    /\ asked = {}
    /\ issued = {}
    /\ events = <<>>
    /\ generation = 0
    /\ restarts = 0
    /\ faults = 0
    /\ prompted = [s \in Submissions |-> 0]
    /\ line = <<>>
    /\ disposed = [g \in Generations |-> "none"]

Fault(kind) ==
    /\ kind \in FaultKinds
    /\ faults < MaxFaults
    /\ faults' = faults + 1

\* runtime_has_blockers, runtime_is_blocked_or_occupied.
HasBlockers(r) ==
    \/ r.running
    \/ r.starting
    \/ r.editing # None
    \/ r.steer_prepare
    \/ r.steer # None
    \/ r.pending_steers # <<>>
    \/ r.interactions # {}

\* Mutant of BlockedOrOccupied: waiting messages do not occupy the thread.
BlockedIgnoresItems(r) == HasBlockers(r)

BlockedOrOccupied(r) == HasBlockers(r) \/ r.items # <<>>

\* persist_submission_store_locked: only Sent receipts and reservations go to
\* the file.  A write that fails marks the file dirty; it may have failed before
\* or after the new file took the old one's place (the parent sync comes last).
Stored(res, pend) == [sent |-> {s \in Submissions : res[s] = "sent"}, pending |-> pend]

Write(res, pend, ok) ==
    /\ store' \in IF ok THEN {Stored(res, pend)} ELSE {store, Stored(res, pend)}
    /\ dirty' = ~ok
    /\ IF ok THEN UNCHANGED faults ELSE Fault("persist")

Persist(res, pend, ok) ==
    /\ results' = res
    /\ pending' = pend
    /\ Write(res, pend, ok)

\* remember_submission_result, forget_submission_result, release_submission.
Remember(s, disposition, ok) ==
    Persist([results EXCEPT ![s] = disposition], pending \ {s}, ok)

ForgetSubmission(s, ok) ==
    Persist([results EXCEPT ![s] = "none"], pending \ {s}, ok)

ReleaseSubmission(s, ok) == Persist(results, pending \ {s}, ok)

\* Mutant of Reserve: the reservation stays in memory.
ReserveInMemory(s) ==
    /\ pending' = pending \cup {s}
    /\ UNCHANGED <<results, store, dirty, faults>>

\* reserve_submission and mark_submission_dispatch_pending: the reservation is
\* on disk before the agent hears of the message ...
Reserve(s) == Persist(results, pending \cup {s}, TRUE)

\* ... or it is taken back, with a second attempt to write the file.
ReserveFails(s) ==
    /\ Fault("persist")
    /\ UNCHANGED <<results, pending>>
    /\ \E again \in BOOLEAN :
        /\ store' \in (IF again THEN {} ELSE {store, Stored(results, pending \cup {s})})
                        \cup {Stored(results, pending)}
        /\ dirty' = ~again

\* spawn_steer_dispatch.  Tasks that have not started yet are merged.
CanSpawn == \E w \in SteerTasks : tasks[w].stage \in {"idle", "spawned"}
Spawned ==
    IF \E w \in SteerTasks : tasks[w].stage = "spawned"
    THEN tasks
    ELSE LET w == CHOOSE w \in SteerTasks : tasks[w].stage = "idle"
         IN  [tasks EXCEPT ![w] = [NoTask EXCEPT !.stage = "spawned"]]

SpawnSteerIf(condition) ==
    IF condition THEN CanSpawn /\ tasks' = Spawned ELSE UNCHANGED tasks

\* spawn_auto_dispatch.
SpawnDrainIf(condition) == drain' = (drain \/ condition)

Dispose(gens, how) ==
    disposed' = [g \in Generations |-> IF g \in gens THEN how ELSE disposed[g]]

-----------------------------------------------------------------------------
\* Operations the phone calls; each waits for the actor.  One that returns an
\* error and changes nothing is not an action.
Free == actor = None

\* send_message with a submission that already has a result.
SendKnown(s, ok) ==
    /\ Free
    /\ s \notin pending
    /\ results[s] # "none"
    /\ Persist(results, pending, ok)
    /\ UNCHANGED <<queueVars, sessionVars, restarts, history>>

\* Mutant of SendIsNew: a reservation does not stop a retry.
SendIgnoresReservation(s) == Free /\ results[s] = "none"

SendIsNew(s) == Free /\ s \notin pending /\ results[s] = "none"

\* send_message on a blocked or occupied thread: the message is queued, and
\* stays queued when writing the file fails.
SendQueued(s, ok) ==
    /\ SendIsNew(s)
    /\ BlockedOrOccupied(rt)
    /\ Len(rt.items) < QueueMaxItems
    /\ rt' = [rt EXCEPT !.items = Append(@, s), !.error = FALSE]
    /\ Remember(s, "queued", ok)
    /\ line' = Append(line, s)
    /\ UNCHANGED <<actor, drain, tasks, sessionVars, restarts, prompted, disposed>>

\* send_message on an idle thread: reserve, then ask the agent for a turn.
Asking(kind, s) == [kind |-> kind, entry |-> s, stage |-> "asking", turn |-> 0]

SendNow(s) ==
    /\ SendIsNew(s)
    /\ ~BlockedOrOccupied(rt)
    /\ Reserve(s)
    /\ rt' = [rt EXCEPT !.starting = TRUE, !.error = FALSE]
    /\ actor' = Asking("send", s)
    /\ line' = Append(line, s)
    /\ UNCHANGED <<drain, tasks, sessionVars, restarts, prompted, disposed>>

SendNotReserved(s) ==
    /\ SendIsNew(s)
    /\ ~BlockedOrOccupied(rt)
    /\ ReserveFails(s)
    /\ UNCHANGED <<queueVars, sessionVars, restarts, history>>

\* cancel_message: a queued message or a steer that is not dispatched yet.
CancelMessage(s, ok) ==
    LET left == [rt EXCEPT !.items = RemoveFirst(@, s),
                           !.pending_steers =
                               IF s \in ToSet(rt.items) THEN @ ELSE RemoveFirst(@, s),
                           !.editing = IF @ = s THEN None ELSE @,
                           !.error = ~ok]
    IN  /\ Free
        /\ s \in ToSet(rt.items) \cup ToSet(rt.pending_steers)
        /\ rt' = left
        /\ ForgetSubmission(s, ok)
        /\ SpawnDrainIf(~HasBlockers(left))
        /\ line' = RemoveFirst(line, s)
        /\ UNCHANGED <<actor, tasks, sessionVars, restarts, prompted, disposed>>

\* start_message_edit: only the next message, and not while steering.
StartMessageEdit(s) ==
    /\ Free
    /\ ~rt.steer_prepare /\ rt.steer = None /\ rt.pending_steers = <<>>
    /\ rt.editing = None
    /\ rt.items # <<>> /\ Head(rt.items) = s
    /\ rt' = [rt EXCEPT !.editing = s, !.error = FALSE]
    /\ UNCHANGED <<actor, drain, tasks, submissionVars, sessionVars, restarts, faults, history>>

\* Mutant of EndMessageEdit: the queue is not resumed.
EndEditQuietly(s) ==
    LET left == [rt EXCEPT !.editing = None, !.error = FALSE]
    IN  /\ Free
        /\ rt.editing = s
        /\ rt' = left
        /\ UNCHANGED <<actor, drain, tasks, submissionVars, sessionVars, restarts, faults, history>>

\* commit_message_edit and cancel_message_edit: the text is not modelled, so
\* they do the same.
EndMessageEdit(s) ==
    LET left == [rt EXCEPT !.editing = None, !.error = FALSE]
    IN  /\ Free
        /\ rt.editing = s
        /\ rt' = left
        /\ SpawnDrainIf(~HasBlockers(left))
        /\ UNCHANGED <<actor, tasks, submissionVars, sessionVars, restarts, faults, history>>

\* Mutants of SteerMessage: the message under edit is steered away, or a copy of
\* the steered message stays in the queue.
SteerWhileEditing(s) ==
    /\ SteerModes # {}
    /\ Free
    /\ rt.running /\ rt.known
    /\ rt.turn # None /\ rt.generation # None
    /\ s \in ToSet(rt.items)
    /\ rt' = [rt EXCEPT !.items = RemoveFirst(@, s),
                        !.pending_steers = Append(@, s),
                        !.error = FALSE]
    /\ SpawnSteerIf(TRUE)
    /\ UNCHANGED <<actor, drain, submissionVars, sessionVars, restarts, faults, history>>

SteerKeepsQueued(s) ==
    /\ SteerModes # {}
    /\ Free
    /\ rt.editing = None
    /\ rt.running /\ rt.known
    /\ rt.turn # None /\ rt.generation # None
    /\ s \in ToSet(rt.items)
    /\ rt' = [rt EXCEPT !.pending_steers = Append(@, s), !.error = FALSE]
    /\ SpawnSteerIf(TRUE)
    /\ UNCHANGED <<actor, drain, submissionVars, sessionVars, restarts, faults, history>>

\* steer_message: move the message to the steering lane of the live run.
SteerMessage(s) ==
    /\ SteerModes # {}
    /\ Free
    /\ rt.editing = None
    /\ rt.running /\ rt.known
    /\ rt.turn # None /\ rt.generation # None
    /\ s \in ToSet(rt.items)
    /\ rt' = [rt EXCEPT !.items = RemoveFirst(@, s),
                        !.pending_steers = Append(@, s),
                        !.error = FALSE]
    /\ SpawnSteerIf(TRUE)
    /\ UNCHANGED <<actor, drain, submissionVars, sessionVars, restarts, faults, history>>

\* status flushes a dirty file.
StatusFlush(ok) ==
    /\ dirty
    /\ Persist(results, pending, ok)
    /\ UNCHANGED <<queueVars, sessionVars, restarts, history>>

-----------------------------------------------------------------------------
\* drain_thread_queue, from taking the actor to asking the agent.
DrainThreadQueue ==
    /\ drain
    /\ Free
    /\ drain' = FALSE
    /\ \/ /\ HasBlockers(rt)
          /\ UNCHANGED <<rt, actor, submissionVars, faults, disposed>>
       \/ /\ ~BlockedOrOccupied(rt)
          /\ rt' = [rt EXCEPT !.completions = {}]
          /\ Dispose(rt.completions, "final")
          /\ UNCHANGED <<actor, submissionVars, faults>>
       \/ /\ ~HasBlockers(rt) /\ rt.items # <<>>
          /\ Reserve(Head(rt.items))
          /\ rt' = [rt EXCEPT !.items = Tail(@), !.starting = TRUE, !.error = FALSE]
          /\ actor' = Asking("drain", Head(rt.items))
          /\ UNCHANGED disposed
       \/ /\ ~HasBlockers(rt) /\ rt.items # <<>>
          /\ ReserveFails(Head(rt.items))
          /\ rt' = [rt EXCEPT !.error = TRUE, !.retry = TRUE]
          /\ UNCHANGED <<actor, disposed>>
    /\ UNCHANGED <<tasks, sessionVars, restarts, prompted, line>>

\* schedule_auto_dispatch_retry.
RetryTimer ==
    /\ rt.retry
    /\ rt' = [rt EXCEPT !.retry = FALSE]
    /\ SpawnDrainIf(TRUE)
    /\ UNCHANGED <<actor, tasks, submissionVars, sessionVars, restarts, faults, history>>

\* The end of send_message and drain_thread_queue, once the agent has answered.
Answered(stage) == ~Free /\ actor.stage = stage

TurnStarted(ok) ==
    /\ Answered("started")
    /\ rt' = [rt EXCEPT !.starting = FALSE, !.running = TRUE, !.turn = actor.turn,
                        !.error = FALSE,
                        !.completions = IF actor.kind = "drain" THEN {} ELSE @]
    /\ Remember(actor.entry, "sent", ok)
    /\ IF actor.kind = "drain" THEN Dispose(rt.completions, "continued")
                               ELSE UNCHANGED disposed
    /\ actor' = None
    /\ UNCHANGED <<drain, tasks, sessionVars, restarts, prompted, line>>

\* A definitive failure: send_message gives the reservation up and reports the
\* error, drain_thread_queue puts the message back in front.
TurnNotStarted(ok) ==
    /\ Answered("refused")
    /\ \/ /\ actor.kind = "send"
          /\ rt' = [rt EXCEPT !.starting = FALSE, !.error = TRUE]
          /\ ReleaseSubmission(actor.entry, ok)
          /\ line' = RemoveFirst(line, actor.entry)
          /\ UNCHANGED disposed
       \/ /\ actor.kind = "drain"
          /\ rt' = [rt EXCEPT !.starting = FALSE, !.error = TRUE,
                              !.items = <<actor.entry>> \o @, !.completions = {}]
          /\ Remember(actor.entry, "queued", ok)
          /\ Dispose(rt.completions, "final")
          /\ UNCHANGED line
    /\ actor' = None
    /\ UNCHANGED <<drain, tasks, sessionVars, restarts, prompted>>

\* An indeterminate failure: the message is dropped and its reservation kept.
TurnUnknown ==
    /\ Answered("unknown")
    /\ rt' = [rt EXCEPT !.starting = FALSE, !.error = TRUE,
                        !.completions = IF actor.kind = "drain" THEN {} ELSE @]
    /\ IF actor.kind = "drain" THEN Dispose(rt.completions, "final")
                               ELSE UNCHANGED disposed
    /\ actor' = None
    /\ UNCHANGED <<drain, tasks, submissionVars, sessionVars, restarts, faults, prompted, line>>

-----------------------------------------------------------------------------
\* The ACP session (acp/session.rs) and the agent behind it.
Emit(es) ==
    /\ Len(events) + Len(es) <= MaxEvents
    /\ events' = events \o es

RunEvent(type, turn, gen) == [type |-> type, turn |-> turn, generation |-> gen]
ToolEvent(t, status) ==
    [type |-> "tool", id |-> t, status |-> status,
     turn |-> session.turn, generation |-> session.generation]
InteractionEvent(type, a) == [type |-> type, id |-> a]

\* admit_prompt and the prompt request: the message is with the agent.
Deliver(s) ==
    /\ prompted' = [prompted EXCEPT ![s] = @ + 1]
    /\ line' = RemoveFirst(line, s)

AdmitPrompt(stage) ==
    LET gen == generation + 1
    IN  /\ session.state = "idle"
        /\ generation < MaxGeneration
        /\ generation' = gen
        /\ session' = [state |-> "active", generation |-> gen, turn |-> gen, tools |-> {}]
        /\ Emit(<<RunEvent("started", gen, gen)>>)
        /\ actor' = [actor EXCEPT !.stage = stage, !.turn = gen]
        /\ Deliver(actor.entry)
        /\ UNCHANGED <<rt, drain, tasks, submissionVars, asked, issued, restarts, disposed>>

TurnAdmitted ==
    /\ Answered("asking")
    /\ AdmitPrompt("started")
    /\ UNCHANGED faults

\* A definitive failure: the session is busy, or the agent is not connected.
TurnRefused ==
    /\ Answered("asking")
    /\ IF session.state # "idle" THEN UNCHANGED faults ELSE Fault("refuse")
    /\ actor' = [actor EXCEPT !.stage = "refused"]
    /\ UNCHANGED <<rt, drain, tasks, submissionVars, sessionVars, restarts, history>>

\* The answer is lost after the prompt was admitted, ...
TurnLostAfterAdmission ==
    /\ Answered("asking")
    /\ Fault("lost")
    /\ AdmitPrompt("unknown")

\* ... before anything happened, or as the admitted run's request cannot be sent
\* (fail_active ends the run at once).
TurnLostBeforeAgent ==
    /\ Answered("asking")
    /\ Fault("lost")
    /\ actor' = [actor EXCEPT !.stage = "unknown"]
    /\ line' = RemoveFirst(line, actor.entry)
    /\ \/ UNCHANGED <<events, generation>>
       \/ /\ session.state = "idle"
          /\ generation < MaxGeneration
          /\ generation' = generation + 1
          /\ Emit(<<RunEvent("started", generation', generation'),
                    RunEvent("finished", generation', generation')>>)
    /\ UNCHANGED <<rt, drain, tasks, submissionVars, session, asked, issued, restarts,
                   prompted, disposed>>

AgentOnly == UNCHANGED <<rt, actor, drain, submissionVars, generation, restarts, history>>

Prompting == session.state \in {"active", "handoff"}

AgentStartsTool(t) ==
    /\ Prompting
    /\ t \notin issued
    /\ issued' = issued \cup {t}
    /\ session' = [session EXCEPT !.tools = @ \cup {t}]
    /\ Emit(<<ToolEvent(t, "running")>>)
    /\ AgentOnly
    /\ UNCHANGED <<tasks, asked, faults>>

\* A tool ends, or reports a status this version does not know.
AgentEndsTool(t) ==
    /\ Prompting
    /\ t \in session.tools
    /\ session' = [session EXCEPT !.tools = @ \ {t}]
    /\ \/ Emit(<<ToolEvent(t, "ended")>>) /\ UNCHANGED faults
       \/ Emit(<<ToolEvent(t, "other")>>) /\ Fault("status")
    /\ AgentOnly
    /\ UNCHANGED <<tasks, asked, issued>>

\* Registering or answering an interaction bumps the session's epoch: steers
\* prepared before are stale.
EpochBumped == [w \in SteerTasks |-> [tasks[w] EXCEPT !.fresh = FALSE]]

AgentAsks(a) ==
    /\ Prompting
    /\ a \notin issued
    /\ issued' = issued \cup {a}
    /\ asked' = asked \cup {a}
    /\ tasks' = EpochBumped
    /\ Emit(<<InteractionEvent("asked", a)>>)
    /\ AgentOnly
    /\ UNCHANGED <<session, faults>>

UserAnswers(a) ==
    /\ a \in asked
    /\ asked' = asked \ {a}
    /\ tasks' = EpochBumped
    /\ Emit(<<InteractionEvent("resolved", a)>>)
    /\ AgentOnly
    /\ UNCHANGED <<session, issued, faults>>

\* The prompt request returns: RunFinished or RunFailed.  While a handoff is
\* reserved the run is only marked settled.
RunEnds ==
    /\ Prompting
    /\ session' = [session EXCEPT !.state = IF @ = "active" THEN "idle" ELSE "settled"]
    /\ Emit(<<RunEvent("finished", session.turn, session.generation)>>)
    /\ AgentOnly
    /\ UNCHANGED <<tasks, asked, issued, faults>>

-----------------------------------------------------------------------------
\* handle_canonical_event, one operator per kind of event.

\* Mutant of HandleRunStarted: the run's generation is not recorded.
RunStartedForgetsGeneration(e) ==
    /\ e.type = "started"
    /\ rt' = [rt EXCEPT !.running = TRUE, !.starting = FALSE, !.turn = e.turn,
                        !.tools = {}, !.known = TRUE, !.error = FALSE]
    /\ UNCHANGED <<drain, tasks, disposed>>

HandleRunStarted(e) ==
    /\ e.type = "started"
    /\ rt' = [rt EXCEPT !.running = TRUE, !.starting = FALSE, !.turn = e.turn,
                        !.generation = e.generation, !.tools = {},
                        !.known = TRUE, !.error = FALSE]
    /\ UNCHANGED <<drain, tasks, disposed>>

HandleRunFinished(e) ==
    LET current == rt.turn = e.turn /\ rt.generation = e.generation
        ended == [rt EXCEPT !.running = FALSE,
                            !.turn = IF rt.starting THEN @ ELSE None,
                            !.generation = IF rt.starting THEN @ ELSE None,
                            !.tools = {}, !.known = FALSE, !.interactions = {},
                            !.items = rt.pending_steers \o @,
                            !.pending_steers = <<>>,
                            !.steer = IF @ = None THEN None
                                      ELSE [@ EXCEPT !.crossed = TRUE]]
        dispatch == /\ rt.steer = None
                    /\ rt.editing = None
                    /\ ended.items # <<>>
        continues == rt.starting \/ dispatch
        final == rt.editing # None \/ rt.steer = None
    IN  /\ e.type = "finished"
        /\ IF ~current
           THEN UNCHANGED <<rt, drain, disposed>>
           ELSE /\ rt' = [ended EXCEPT !.completions =
                            IF continues THEN @ \cup {e.generation} ELSE @]
                /\ SpawnDrainIf(continues)
                /\ IF ~continues /\ final THEN Dispose({e.generation}, "final")
                                         ELSE UNCHANGED disposed
        /\ UNCHANGED tasks

HandleTool(e) ==
    LET current == rt.turn = e.turn /\ rt.generation = e.generation
        left == IF e.status = "running" THEN rt.tools \cup {e.id} ELSE rt.tools \ {e.id}
    IN  /\ e.type = "tool"
        /\ rt' = IF ~current THEN rt
                 ELSE IF e.status = "other" THEN [rt EXCEPT !.known = FALSE]
                 ELSE [rt EXCEPT !.tools = left]
        /\ SpawnSteerIf(/\ current /\ e.status # "other"
                        /\ left = {} /\ rt.pending_steers # <<>> /\ rt.steer = None)
        /\ UNCHANGED <<drain, disposed>>

HandleAsked(e) ==
    /\ e.type = "asked"
    /\ rt' = [rt EXCEPT !.interactions = @ \cup {e.id}]
    /\ UNCHANGED <<drain, tasks, disposed>>

HandleResolved(e) ==
    LET left == rt.interactions \ {e.id}
    IN  /\ e.type = "resolved"
        /\ rt' = [rt EXCEPT !.interactions = left]
        /\ SpawnSteerIf(left = {} /\ rt.tools = {} /\ rt.pending_steers # <<>>)
        /\ UNCHANGED <<drain, disposed>>

HandleCanonicalEvent ==
    /\ Free
    /\ events # <<>>
    /\ LET e == Head(events)
       IN  \/ HandleRunStarted(e)
           \/ HandleRunFinished(e)
           \/ HandleTool(e)
           \/ HandleAsked(e)
           \/ HandleResolved(e)
    /\ events' = Tail(events)
    /\ UNCHANGED <<actor, submissionVars, session, asked, issued, generation, restarts, faults,
                   prompted, line>>

-----------------------------------------------------------------------------
\* drain_pending_steers, task w.  It takes the actor for each step that reads or
\* writes the runtime and gives it up while it talks to the agent.
At(w, stage) == tasks[w].stage = stage
Goes(w, stage) == tasks' = [tasks EXCEPT ![w].stage = stage]
Ends(w) == tasks' = [tasks EXCEPT ![w] = NoTask]

QueueOnly == UNCHANGED <<actor, submissionVars, sessionVars, restarts, history>>

BeginSteering(w) ==
    LET ready == /\ rt.pending_steers # <<>>
                 /\ ~rt.steer_prepare
                 /\ rt.steer = None
                 /\ ~rt.starting
                 /\ rt.tools = {}
                 /\ rt.known
                 /\ rt.running
    IN  /\ At(w, "spawned")
        /\ Free
        /\ rt' = IF ready THEN [rt EXCEPT !.steer_prepare = TRUE] ELSE rt
        /\ IF ready THEN Goes(w, "preparing") ELSE Ends(w)
        /\ QueueOnly
        /\ UNCHANGED <<drain, faults>>

\* prepare_steer rejects or cancels every open interaction.  It fails before it
\* touches any when one cannot be rejected, or part of the way when an answer
\* cannot be sent: the rest is removed and not reported as resolved.
Resolutions(n) ==
    LET ids == SetToSeq(asked)
    IN  Emit([i \in 1..n |-> InteractionEvent("resolved", ids[i])])

PrepareSteer(w) ==
    LET removed == IF asked = {} THEN tasks ELSE EpochBumped
        open == Cardinality(asked)
    IN  /\ At(w, "preparing")
        /\ \/ /\ asked' = {}
              /\ tasks' = [removed EXCEPT ![w].stage = "prepared", ![w].fresh = TRUE]
              /\ Resolutions(open)
              /\ UNCHANGED faults
           \/ /\ open > 0
              /\ Fault("prepare")
              /\ Goes(w, "refused")
              /\ UNCHANGED <<asked, events>>
           \/ /\ Fault("respond")
              /\ asked' = {}
              /\ tasks' = [removed EXCEPT ![w].stage = "refused"]
              /\ \E sent \in 1..open : Resolutions(sent)
        /\ UNCHANGED <<rt, actor, drain, submissionVars, session, issued, generation,
                       restarts, history>>

\* The task ends if last_error is set: by this preparation or earlier.
FinishPrepare(w) ==
    LET failed == At(w, "refused") \/ rt.error
    IN  /\ At(w, "prepared") \/ At(w, "refused")
        /\ Free
        /\ rt' = [rt EXCEPT !.steer_prepare = FALSE, !.error = failed]
        /\ IF failed THEN Ends(w) ELSE Goes(w, "verifying")
        /\ QueueOnly
        /\ UNCHANGED <<drain, faults>>

EpochHolds(w) == tasks[w].fresh /\ asked = {}

VerifySteerEpoch(w) ==
    /\ At(w, "verifying")
    /\ Goes(w, IF EpochHolds(w) THEN "verified" ELSE "spawned")
    /\ QueueOnly
    /\ UNCHANGED <<rt, drain, faults>>

\* fail_steer_dispatch, which takes no actor: a failed verification, or a stored
\* prompt that cannot be sent.
FailSteerDispatch(w) ==
    /\ \/ At(w, "verifying") /\ Fault("verify")
       \/ At(w, "steering") /\ Fault("payload")
    /\ rt' = [rt EXCEPT !.steer = None,
                        !.pending_steers = IF rt.steer = None THEN @
                                           ELSE <<rt.steer.entry>> \o @,
                        !.error = TRUE]
    /\ Ends(w)
    /\ QueueOnly
    /\ UNCHANGED drain

DispatchSteer(w) ==
    LET ready == /\ rt.steer = None
                 /\ ~rt.starting
                 /\ rt.tools = {}
                 /\ rt.known
                 /\ rt.running
                 /\ rt.interactions = {}
                 /\ rt.turn # None /\ rt.generation # None
                 /\ rt.pending_steers # <<>>
        s == Head(rt.pending_steers)
    IN  /\ At(w, "verified")
        /\ Free
        /\ IF ready
           THEN /\ rt' = [rt EXCEPT !.pending_steers = Tail(@),
                                    !.steer = [entry |-> s, crossed |-> FALSE]]
                /\ tasks' = [tasks EXCEPT ![w].stage = "steering", ![w].entry = s,
                                          ![w].target = rt.generation]
           ELSE UNCHANGED rt /\ Ends(w)
        /\ QueueOnly
        /\ UNCHANGED <<drain, faults>>

\* The steer reaches the run it was meant for, and no interaction came between.
Steerable(w) ==
    /\ EpochHolds(w)
    /\ session.state = "active"
    /\ session.generation = tasks[w].target

\* The agent negotiated the steering extension: one request, which the agent
\* accepts, refuses, or accepts without its answer arriving in time.
SteerNative(w) ==
    /\ "native" \in SteerModes
    /\ At(w, "steering")
    /\ \/ Steerable(w) /\ Goes(w, "accepted") /\ Deliver(tasks[w].entry) /\ UNCHANGED faults
       \/ Steerable(w) /\ Fault("answer") /\ Goes(w, "rejected") /\ Deliver(tasks[w].entry)
       \/ /\ IF Steerable(w) THEN Fault("steer") ELSE UNCHANGED faults
          /\ Goes(w, "rejected")
          /\ UNCHANGED <<prompted, line>>
    /\ UNCHANGED <<rt, actor, drain, submissionVars, sessionVars, restarts, disposed>>

\* The harness steers by handing the session over to a new generation of the
\* same turn: reserve_handoff ...
SteerReserve(w) ==
    /\ "handoff" \in SteerModes
    /\ At(w, "steering")
    /\ session' = IF Steerable(w) THEN [session EXCEPT !.state = "handoff"] ELSE session
    /\ Goes(w, IF Steerable(w) THEN "handoff" ELSE "rejected")
    /\ UNCHANGED <<rt, actor, drain, submissionVars, asked, issued, events, generation,
                   restarts, faults, history>>

\* ... and admit_handoff, or release_handoff when the harness refuses.
HandoffAccepted(w) ==
    /\ At(w, "handoff")
    /\ generation < MaxGeneration
    /\ generation' = generation + 1
    /\ session' = [session EXCEPT !.state = "active", !.generation = generation', !.tools = {}]
    /\ Emit(<<RunEvent("started", session.turn, generation')>>)
    /\ Goes(w, "accepted")
    /\ Deliver(tasks[w].entry)
    /\ UNCHANGED <<rt, actor, drain, submissionVars, asked, issued, restarts, faults, disposed>>

HandoffRefused(w) ==
    /\ At(w, "handoff")
    /\ Fault("steer")
    /\ session' = [session EXCEPT !.state = IF @ = "settled" THEN "idle" ELSE "active"]
    /\ Goes(w, "rejected")
    /\ UNCHANGED <<rt, actor, drain, submissionVars, asked, issued, events, generation,
                   restarts, history>>

\* The outcome: an accepted steer is forgotten, a refused one goes back to the
\* lane it came from, or to the queue if the run has ended meanwhile.
FinishSteer(w) ==
    LET owned == rt.steer # None /\ rt.steer.entry = tasks[w].entry
        refused == At(w, "rejected")
        back == IF refused THEN <<tasks[w].entry>> ELSE <<>>
    IN  /\ At(w, "accepted") \/ refused
        /\ Free
        /\ rt' = IF ~owned THEN rt
                 ELSE [rt EXCEPT !.steer = None,
                                 !.items = IF rt.steer.crossed THEN back \o @ ELSE @,
                                 !.pending_steers = IF rt.steer.crossed THEN @ ELSE back \o @,
                                 !.error = refused]
        /\ IF owned /\ ~refused THEN Goes(w, "spawned") ELSE Ends(w)
        /\ SpawnDrainIf(owned /\ refused)
        /\ QueueOnly
        /\ UNCHANGED faults

-----------------------------------------------------------------------------
\* The bridge process ends and another starts: queued messages are gone by
\* design, Sent receipts and reservations are read back (load_submission_store).
Restart ==
    /\ restarts < MaxRestarts
    /\ restarts' = restarts + 1
    /\ rt' = NewRuntime
    /\ actor' = None
    /\ drain' = FALSE
    /\ tasks' = [w \in SteerTasks |-> NoTask]
    /\ results' = [s \in Submissions |-> IF s \in store.sent THEN "sent" ELSE "none"]
    /\ pending' = store.pending
    /\ dirty' = FALSE
    /\ session' = NoRun
    /\ asked' = {}
    /\ events' = <<>>
    /\ line' = <<>>
    /\ UNCHANGED <<store, issued, generation, faults, prompted, disposed>>

PhoneCalls ==
    \E s \in Submissions :
        \/ \E ok \in BOOLEAN : SendKnown(s, ok) \/ SendQueued(s, ok) \/ CancelMessage(s, ok)
        \/ SendNow(s)
        \/ SendNotReserved(s)
        \/ StartMessageEdit(s)
        \/ EndMessageEdit(s)
        \/ SteerMessage(s)

TurnAnswered == TurnAdmitted \/ TurnRefused \/ TurnLostAfterAdmission \/ TurnLostBeforeAgent

DispatchReturns == TurnUnknown \/ \E ok \in BOOLEAN : TurnStarted(ok) \/ TurnNotStarted(ok)

AgentActs ==
    \/ \E t \in Tools : AgentStartsTool(t) \/ AgentEndsTool(t)
    \/ \E a \in Asks : AgentAsks(a) \/ UserAnswers(a)

SteerStep(w) ==
    \/ BeginSteering(w)
    \/ PrepareSteer(w)
    \/ FinishPrepare(w)
    \/ VerifySteerEpoch(w)
    \/ DispatchSteer(w)
    \/ SteerNative(w)
    \/ SteerReserve(w)
    \/ HandoffAccepted(w)
    \/ HandoffRefused(w)
    \/ FinishSteer(w)

Next ==
    \/ PhoneCalls
    \/ \E ok \in BOOLEAN : StatusFlush(ok)
    \/ DrainThreadQueue
    \/ RetryTimer
    \/ TurnAnswered
    \/ DispatchReturns
    \/ AgentActs
    \/ RunEnds
    \/ HandleCanonicalEvent
    \/ \E w \in SteerTasks : SteerStep(w) \/ FailSteerDispatch(w)
    \/ Restart

Spec == Init /\ [][Next]_vars

\* Tasks and timers of the bridge run, the agent answers a turn request, and a
\* run ends; the phone need not call and faults need not happen.
Fairness ==
    /\ WF_vars(DrainThreadQueue)
    /\ WF_vars(RetryTimer)
    /\ WF_vars(TurnAnswered)
    /\ WF_vars(DispatchReturns)
    /\ WF_vars(RunEnds)
    /\ WF_vars(HandleCanonicalEvent)
    /\ \A w \in SteerTasks : WF_vars(SteerStep(w))

FairSpec == Spec /\ Fairness

-----------------------------------------------------------------------------
\* The agent is given a message at most once: retries after a lost answer, a
\* failed write of the idempotency file or a bridge restart are recognised
\* (lookup_submission), refused turns put the message back exactly once.
AtMostOnce == \A s \in Submissions : prompted[s] <= 1

\* Whatever the agent has been given is on disk, as a receipt or a reservation,
\* at that moment and ever after: a crash at any point cannot make the bridge
\* forget it (mark_submission_dispatch_pending before turn_start).
DurableBeforeDelivery ==
    \A s \in Submissions : prompted[s] > 0 => s \in store.sent \cup store.pending

\* Without steering the queue is first come, first served: the message being
\* started and those waiting behind it are exactly the messages accepted and not
\* yet settled, in the order they were accepted, through refused turns, failed
\* writes, edits and cancellations.
FirstComeFirstServed ==
    LET starting == IF ~Free /\ actor.stage \in {"asking", "refused"}
                    THEN <<actor.entry>> ELSE <<>>
    IN  starting \o rt.items = line

\* With steering the order may change, but an accepted message is in exactly one
\* place, however steers, their refusals and the end of the run interleave.  After
\* a fault a message the agent has taken may still be in a place, but none is lost
\* before the agent has it and none is in two places.
EachMessageInOnePlace ==
    LET starting == IF ~Free /\ actor.stage \in {"asking", "refused"}
                    THEN <<actor.entry>> ELSE <<>>
        steering == IF rt.steer = None THEN <<>> ELSE <<rt.steer.entry>>
        places == starting \o steering \o rt.pending_steers \o rt.items
        taken == {s \in ToSet(steering) : \E w \in SteerTasks : At(w, "accepted") /\ tasks[w].entry = s}
    IN  /\ Len(places) = Cardinality(ToSet(places))
        /\ \A s \in ToSet(line) : prompted[s] = 0 => s \in ToSet(places)
        /\ faults = 0 => ToSet(places) \ taken = ToSet(line)

\* The message being edited stays the next one to be sent, and nothing is steered
\* past it, although runs end and steers return while the user types
\* (docs/realtime-streaming-limitations.md: "queue order ... remain intact").
EditedStaysNext ==
    rt.editing # None =>
        /\ rt.items # <<>> /\ Head(rt.items) = rt.editing
        /\ rt.pending_steers = <<>> /\ rt.steer = None

\* Once all session events are handled and no turn is being started, the queue
\* believes a run is active exactly when the session has one, and it is the same
\* generation of the same turn.
AgreesWithSession ==
    Free /\ events = <<>> =>
        /\ session.state = "active" =>
                rt.running /\ rt.turn = session.turn /\ rt.generation = session.generation
        /\ rt.running => session.state \in {"active", "handoff"}

\* As long as no turn is refused or lost, a queued message leaves the queue unless
\* the user holds one for editing: the end of a run, a cancellation, an edit or a
\* failed write always wakes the queue up (spawn_auto_dispatch).  After a refused
\* turn the thread reports an error, and a new message clears it without waking
\* the queue.
QueueDrains ==
    [](rt.error => rt.retry) =>
        \A s \in Submissions :
            s \in ToSet(rt.items) ~> (s \notin ToSet(rt.items) \/ rt.editing # None)

=============================================================================
