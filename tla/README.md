# A verification development for UDAS

UDAS is a terminal agent with a local HTTP runtime, written in Rust. This
directory holds TLA+ models of the parts whose correctness depends on the order
of events (the durable task queue, the event log, the turns on runtime threads,
tool calls and their approvals, sub-agents, automations), their TLC
configurations, and TLAPS proofs about them. File names below are relative to
`src/crates/tui/src/` unless they start with `crates/` or `docs/`.

    tlc -workers 2 -config TaskManagerCrash.cfg MCTaskManager.tla
    tlapm TaskManagerProofs.tla

## 1. Inventory

| Component | State | Operations | Hard behaviour | Module |
|---|---|---|---|---|
| Task manager (`task_manager.rs`) | `ManagerState` (tasks, queue, `running_cancel`) under one mutex; `queue.json`, `tasks/<id>.json`; a `Notify`; a pool of workers | `add_task`, `cancel_task`, `record_tool_metadata`, `shutdown`, `worker_loop`, `run_task`, `apply_execution_event`, `finish_task`, `load_state` | wake-ups, cancellation against completion, a crash between two files, failing writes | `TaskManager`, `TaskBoard`, `QueueOps` |
| Event log (`runtime_threads.rs`) and its readers (`task_manager.rs`, `runtime_api.rs`) | `next_seq` in memory and in `state.json`; `events/<thread>.jsonl`; a broadcast channel of 1024; the cursor of each reader | `append_event`, `emit_event`, `events_since`, the poll loop of `EngineTaskExecutor::execute`, `stream_thread_events`, `stream_turn` | number drawn under a lock and written outside it, replay and live overlap, lagging receivers, torn lines | `EventLog` |
| Runtime threads (`runtime_threads.rs`) | `ActiveThreads` (engines, active turns, LRU list) under one mutex; thread, turn and item files; a monitor task per turn | `start_turn`, `compact_thread`, `interrupt_turn`, `steer_turn`, `ensure_engine_loaded`, `enforce_lru_capacity`, `monitor_turn`, `recover_interrupted_state` | state checked under a lock and used after it, load/save without a lock, eviction, restart | `RuntimeThreads`; tool items in `ToolCalls` |
| Engine (`core/engine.rs`, `core/engine/`) | op, event, approval and completion channels; the cancel token; the session | `run`, `handle_send_message`, `handle_manual_compaction`, `handle_deepseek_turn` | cancel against start of a turn, parallel batches, cut streams, panics | as far as a monitor can tell in `RuntimeThreads`; tool calls in `ToolCalls`; the wait for agents in `SubAgents` |
| Approval bridge (`runtime_threads.rs`, `core/engine/approval.rs`, `runtime_api.rs`) | `pending_approvals`: id to oneshot sender; the decision channel of the engine | register, deliver, cancel, 300 s timeout, `await_tool_approval` | a decision that races the timeout, late decisions, interrupts | `ToolCalls` |
| Sub-agents (`tools/subagent/`) | agents by id, task handles, one state file, completion channel | spawn, close, clean-up, `update_from_result`, `update_failed`, the hold of a turn | results of an agent that was closed or forgotten, limit on running agents, a wait for somebody who will not speak | `SubAgents` |
| Automations (`automation_manager.rs`) | automation and run files | `scheduler_tick`, `run_now`, `reconcile_run_statuses`, create, update, pause, resume, delete | crash between enqueue and save, whole records written back after an await | `Automations` |
| Capacity controller, compaction, cycles | thresholds, cooldown counters, the session's messages | `capacity_flow`, `compact_messages`, `maybe_advance_cycle` | boundaries of budgets | not modelled |
| Job manager (`crates/core`) and state store (`crates/state`) | jobs with retry counters, a database | enqueue, start, fail, retry | retry budget, back-off | not modelled |
| HTTP handlers (`runtime_api.rs`) | none of their own but the streams | parse a request, call a manager | the two event streams | both, in `EventLog` |
| Everything else: shell jobs, MCP, LLM client, policies, sandbox, hooks, LSP, RLM, UI, configuration, the numeric crates, embeddings, packaging, web | see `PROJECT.json` | | | not modelled: I/O to other programs, string classification, floating point, rendering |

**How they interact.** A client or an automation adds a task; a worker picks it
and its executor creates a thread, starts a turn (`start_turn`) and polls the
event log until `turn.completed`; on cancellation it calls `interrupt_turn`.
`start_turn` sends an op to the engine of the thread and spawns `monitor_turn`,
which turns engine events into item and turn records and into events
(`emit_event`), and answers the engine's requests for approval itself or with
what a client decides. The turn loop streams a step, runs its tool calls, and
before it ends waits for the sub-agents it started, which are tasks of their own.
HTTP clients read the log by replay and broadcast.

**What makes each part correct.**
Task manager: the queue holds exactly the queued tasks; a running task has one
worker and the token a cancel would find; what was acknowledged survives; a final
status is final; a cancel wins; queued work is picked.
Event log: a number is used once; a reader gets each record at most once and in order, and misses none that
is in its place (a record that comes after one with a greater number may be passed over).
Runtime threads: a turn that is monitored is the active one and runs on the engine
in the cache; every turn gets one final status, the right one; nothing stays open.
Tool calls: one result per call, in order; no call that is asked about runs unless it was approved, what
was approved runs; no approval or item outlives its turn; turns end.
Sub-agents: the limit holds; what a turn was told of an agent stays true; a turn
does not wait for somebody who will not speak.
Automations: each slot is enqueued, once; no update of a client is lost; the
scheduler catches up and the newest runs get their final status.

## 2. Modules and how they correspond to the code

`PROJECT.json` maps every definition to its lines. All modules follow one rule:
an action is what the code does between two points where another task, another
thread or a crash can come in (an `await`, a released mutex, a file write).

### TaskManager (with QueueOps and TaskBoard)

*State.* `tasks`, `queue`, `running_cancel` are `ManagerState`. `io` is what the
holder of the mutex has still to write: the mutex is free exactly when `io = Idle`,
so a crash or a failing write may fall between any two files, and nobody sees
memory that is not yet on disk. `permit` is the one permit of a tokio `Notify`;
waiting workers are those whose `pc` is `parked`. `pc`, `job`, `exec`, `events`,
`result` follow each worker through `worker_loop` and `run_task`. Of a record
the model keeps the status, one tool call and the last tool event of the timeline. The executor names
the call by its tool id when it starts and by the id of its runtime item when it completes
(`task_manager.rs:565`, `588`), and only an equal id closes it (`1214`): the call stays `Running` in the
record, while the timeline has both events. `ahead` are the records with a part of a refused update: with
`"update"` in `Faults`, `apply_task_update_metadata` may return an error after it has changed the record and
before the caller saves it. `Shutdowns` says whether `shutdown` may be called.

*Actions.* `Boot` (load, requeue, persist), `add_task`, `Acknowledge` (unlock, then
notify), `cancel_task`, `record_tool_metadata`, the steps of `worker_loop`, the
executor's steps, `apply_execution_event`, `finish_task`, `WriteIndex`, `WriteTask`,
`WriteFails`, `Shutdown`, `Crash`.

`QueueOps` holds what `load_state` does with the index: keep the ids that
are still queued, append the others (`Orderings`: the code sorts them by id, and ids are UUIDs, so the model
leaves their order open). `TaskBoard` is the abstract specification: the life
of a task as its files tell it. `ImplementsBoard` is the refinement, with the
statuses on disk as the mapping. `Automations` uses the same board as the task
manager it enqueues tasks with, which is how the two are composed.

### EventLog

*State.* `next_seq`/`saved_seq` (memory and `state.json`), `file` (the records of a
thread) and `ended` (after which of them a line ends, because `writeln!` writes a record
and its end of line separately), `emitter` (one per task that calls `emit_event`; several may work for
one thread, as a monitor and the `interrupt_turn` that the executor itself calls on a cancel, or a client's requests), `sent`
(the broadcast channel, with the receiver's position in `stream`), `poller` (`seen_seq`).
A record is its number. The file of a thread is readable when every line holds one record,
as `serde_json` demands. `events_since` is `Kept`: the records after a number, in the order of
the file; an `ASSUME` of `MCEventLog` compares it with `SelectSeq` on all small files.
A connection is of one of two kinds: `stream_thread_events` compares numbers,
`stream_turn` (`compat`) takes what comes, so an event in both its backlog and its
channel is sent twice. The number is drawn under the mutex and the record appended and broadcast without it, so two
emitters of a thread may come in the other order. A record behind a greater one of its thread in the file is `Late`;
the properties say exactly that only what is late, in the file or on the channel, is missed. `MaxSeq` bounds the numbers drawn, `Capacity` stands for
`EVENT_CHANNEL_CAPACITY`.

### RuntimeThreads

*State.* `loaded`, `active`, `lru` are `ActiveThreads`; `engine` is an engine behind
its channels (op queue, current turn, cancel token, event queue); `caller` and
`steerer` are requests between two of their awaits; `monitor` is `monitor_turn`;
`turn` and `message` are the files. Load and save of a record are two steps, and the
copy is kept in between (`copy`), which is how a lost update can happen.
An engine may panic (`spawn_supervised` catches it); a write may fail and end a
request or a monitor. `asked` and `outcome` are history.

Of the items, the model follows the agent message that may be open when a
turn ends, and the user message of a steer. A crash may fall between the save of a message and its attachment,
and between the recovery of a turn and of its items: `LeftOpen` says which messages recovery then passes by,
against `docs/RUNTIME_API.md:266`, which has every open item marked interrupted. `compact_thread` takes the steps of
`start_turn`; the engine decides when it takes the op which of the two it was.

### ToolCalls

One thread: the engine with its turns, the monitor, and clients.

*State.* A call is a number in the order the model makes it, with a `kind` that says
all the turn loop looks at (read-only and parallel, barred for this caller, guarded,
missing, asks for approval, runs code, asks the user). `code_execution` and `js_execution` (kind `code`) are planned
with `approval_required`, and executed before the approval flow is reached: `RunsCode` runs them unasked, as the code does.
The number of turns is not bounded, only that of calls. `step`, `todo`, `running`, `done` are
`tool_uses`, the batches that have not begun, the batch at hand and the outcomes;
`transcript` is what was appended to the session. `events` and `decisions` are the
channels between engine and monitor; `pending` is `pending_approvals`, `channel` the
oneshot of each call with what was sent on it, `client` a request of
`deliver_external_approval` that has taken the sender and not yet used it.

*Actions.* A step streams call by call and may be cut at any point; batches are what
`plan_tool_execution_batches` makes of the kinds; a serial call misses its tool, runs,
asks for approval or asks the user; `ReadsDecision` skips decisions for other
calls; `RecordsResults` closes the step. The monitor handles one event at a time;
a wait for a decision is announce, register, receive or expire, cancel, drop. The timeout
has two steps, as the future may time out while the sender is used.

### SubAgents

*State.* `status` and `disk` are the records of `SubAgentManager` and its file; `task`
the detached tokio task (works, returned but not reported, gone) with its `result`;
`aborted` the handles that were told to abort; `queue` is `rx_subagent_completion`;
`turn`, `counted` the turn loop at the point where it has nothing more to do.
`told` and `deserted` are history. Every operation of the manager is one action,
since it awaits nothing under its lock; `agent_close` takes the handle away and aborts,
and a task that has returned may still report.

*Actions.* Spawn by the turn, by an agent or by an op, clean-up, close, return,
report, panic, the steps of the hold, a cut turn, a crash and `load_state`.

### Automations

*State.* `autos` and `runs` are the files, `task` the board of the task manager, `lock`
the mutex and what its holder is at, `read`/`todo`/`hand` the locals of a tick. `clock`
is a number of units, a week has `Week` of them, and a rule is an interval and the days it
allows: what `next_after` computes from a parsed RRULE. `wanted`, `slot`, `saved` are history.

*Actions.* Each client operation, the tick one automation at a time
(`TickPasses`, `TickEnqueues`, `save_run`, `TickAdvances`), reconciliation one run at a time,
each with a crash or a failed write between any two writes. Reconciliation sees the `ReconcileLimit` newest runs.

## 3. Runs

| Run | Instance | Question | Distinct states |
|---|---|---|---|
| `task_crash` | 2 tasks, 2 workers, 1 crash, 2 events a run | is everything consistent, across a crash at any point and tool updates that do not parse; do the files follow `TaskBoard`; does a cancel win; is the last event applied before the end | 1.66 M |
| `task_faults` | the same with failing writes and panics, no events | do queue, workers and acknowledged tasks stay exact; is a final status final | 1.99 M |
| `task_live` | 2 tasks, 2 workers, 1 crash, runs end | is a queued task picked; is an acknowledged task settled; does shutdown stop the pool | 265 k |
| `log_own` | 2 threads, 2 emitters of one and 1 of the other, 3 numbers, poller, connection of either kind, channel of 2, failing writes, 1 crash | unique numbers, the order in which poller and streams deliver, nothing missed but what is late, everybody catches up | 1.54 M |
| `threads_own` | 2 threads with a client each, cache of 1, 2 turns, failing writes, 1 crash | active turn and engine match the monitor, interrupts win, no invented outcome | 1.26 M |
| `threads_items` | 1 thread, 2 turns, steers, compaction, panics, 2 crashes | which messages may stay open, which final status may change | ITEMS |
| `threads_live` | 2 threads, 2 turns, cache of 2, 1 crash | every turn ends | 355 k |
| `threads_race` | 1 thread with two clients | **violated**: two turns run, the first is not the active one | stops at the race |
| `automations` | 1 automation, 2 rules, 4 runs, 3 instants, 2 client operations, 1 crash or failed write | is a slot enqueued once, is no update lost, is no slot skipped, does the scheduler catch up, are runs settled (2 are looked at) | AUTOS |
| `agents` | 3 agents, 2 at a time, depth 2, panics, 1 crash | does the limit hold, is a waiting turn told, does what it was told stay true, does the wait end | 1.07 M |
| `agents_missed` | 1 agent | **violated**: a completion stays in the channel when its turn is over | stops there |
| `tools` | 3 calls in any turns, 1 interrupt, approvals by flag or client | one result per call, nothing that is asked about runs unapproved, what was allowed runs, no approval or item is left, turns end | 1.53 M |

**Why the bounds suffice.** Two tasks and two workers are the least that let
one notification be lost while another is delivered, let a cancel meet another task's
save, and let recovery reorder a queue. One crash reaches every torn state of the
files. Two threads and a cache of one
force eviction with and without protected entries; two turns let the end of one
overlap the start of the next. A channel of two lags as soon as three events are sent. Two emitters of a thread and three numbers let a record
be late, in the file or on the channel alone, and a reader be before, between or behind the two. A second crash interrupts a recovery.
Three calls make a parallel batch of two and a serial call after or before it, or one step
after another; as turns are not bounded, a decision for a call of the first may meet the next. Three
agents and a limit of two let one be refused and one be a grandchild. `SlotLimit = 1` and
`ReconcileLimit = 2` with four runs let a run be pushed out of what the tick and what reconciliation look at; three instants let two
slots be missed. One automation suffices for the runs, as the tick treats them one after the other and
reads no other's files; the theorems are for any set.
Deadlock is checked in the task runs; the others switch it off because they stop
when their numbers, turns, calls or spawns are used up.

**Fairness.** tokio polls every runnable task, and its mutex and `Notify` queue
their waiters in order: steps of a request, worker or monitor between two awaits are
weakly fair, a worker's loop strongly (it competes for the mutex).

* `task_live`: runs end by themselves (`RunsEnd`). This excludes a run whose model asks
  the user a question (see below): such a run ends only when it is cancelled.
* `log_own`: the poller polls, a connection that is open reads; nothing is assumed of the emitters, which may stop
  between any two of their steps, and nobody is assumed to reconnect.
* `threads_live`: an engine takes its ops and its turn ends: the turn
  loop is bounded by `max_steps` and the client's timeouts.
* `tools`: the engine and the monitor go on. The clock is part of the monitor (the 300 s
  expire); no client is assumed to decide or to interrupt.
* `agents`: the turn goes on, an agent returns (its steps are bounded and its calls time out)
  and then reports; nobody is assumed to close an agent, cancel or steer.
* `automations`: the scheduler goes round, whoever holds the mutex goes on, and a task is
  picked and settled, which is `AckedIsSettled` of `TaskManager`.

Nothing assumes that a client calls anything or that a crash, a fault or a panic happens.

### Where the code and its documentation disagree

Two disagreements are runs:

* `threads_race`: the check for an active turn and the activation are two critical
  sections (`runtime_threads.rs:1495`).
* `agents_missed`: the turn loop drains its completion channel (`turn_loop.rs:903`), then asks how
  many agents run. One that reports in between is in neither answer; the turn completes, although
  the prompt promises that it will see the sentinel.

Further ones were met while modelling. They lie outside the instances of the runs, or are part
of the model and stated as the exception in a property; the hazards in `PROJECT.json` name
their lines.

* *Tasks.* `add_task` unlocks, then calls `notify_one`. A worker that found the
  queue empty has released the mutex but may not yet wait (`task_manager.rs:1083`); two notifications
  in that window leave one permit. If the worker that gets it starts a run that does not end, the
  other sleeps over a queued task. `NoSleepOverWork` (not *every* worker sleeps) holds, and
  `QueuedIsPicked` holds as long as runs end. A tool update that is refused leaves what came before
  the error in memory until the task is saved for another reason (the exception in `ObservedIsDurable`). A tool call of a
  task stays `Running` in its record, as its two events carry different ids.
* *Event log.* `stream_thread_events` reads the backlog before it subscribes
  (`runtime_api.rs:1325`): what is broadcast in between is lost to the connection. `stream_turn` sends an
  event that is in both twice, and if a `turn.completed` falls in between the connection stays open.
  Two emitters of a thread may append and broadcast in the order opposite to that of their numbers: a reader whose cursor is
  the greatest number it saw (`task_manager.rs:529`, `runtime_api.rs:1340`) then never gets the smaller one
  (the exception in `PollerMissesOnlyLate`, `LiveMissesOnlyLate`, `ReadersCatchUp`), although
  `docs/RUNTIME_API.md:262` calls the number a global monotonic `seq` for replay and resume. They can
  also write on one line, and a crash between the two writes of a line joins it with the next: the file is then unreadable.
* *Threads.* When the cache is full, another thread's request can evict an
  engine between look-up and activation, and the saved turn stays in progress. A cache that grew
  while all its threads were active does not shrink by itself. A steer can
  save a finished turn back as in progress (the exception in `FinishedIsFinal`). An interrupt accepted before
  the engine takes the op is discarded with its token. A crash between the save of a
  message and its attachment, or between the recovery of a turn and of its items, leaves the message open (the exception in
  `OpenMessageIsWatched`). A write that fails in a monitor leaves its turn in progress, and active, until the next start. A panicked engine stays in the cache,
  and its turn is recorded as completed. `RuntimeThreadManager::shutdown` has no caller.
* *Tool calls.* `code_execution` and `js_execution` run without the approval they are planned with
  (`turn_loop.rs:1186`, `1471`; the exception in `RunsOnlyApproved`), while `docs/ARCHITECTURE.md:212` has approval requested
  outside YOLO mode, and line 285 required for destructive operations. A blocked plan in a parallel batch gets a result but no `ToolCallComplete`, so its
  item stays in progress (the exception in `ItemsSettled`). `UserInputRequired` falls into the last arm of
  `monitor_turn` (`runtime_threads.rs:2841`): such a turn waits until it is interrupted (the exception in
  `TurnsEnd`). The calls of a stream that was cut are executed all the same, the last one perhaps with
  placeholder input. A monitor that waits for a decision does not see an interrupt for up to 300 s.
  `trust_mode` without `auto_approve` denies. An approval is announced before it is
  registered: a decision in between is answered with 404. A decision whose sender was taken
  before the timeout is accepted and lost. "remember" changes the thread record by load and save, and
  not the running turn.
* *Sub-agents.* The hold counts agents that will not speak to the turn (grandchildren, agents an op
  started, agents that are closed or panic meanwhile): it then waits until it is cancelled or
  steered (`Mute`, the exception in `HoldIsHeard` and `HoldEnds`). A report overwrites `Cancelled`. `cleanup` goes by
  the start of an agent, so the result of one that took over an hour is forgotten at once. Input that is
  sent between the last drain and the return of an agent is lost. A background agent gets a cancel
  token of its own (`mod.rs:769`), other than `docs/SUBAGENTS.md` has it.
* *Automations.* A crash between `enqueue_run_task` and `save_run` enqueues the slot again (the
  exception in `SlotOncePerSavedRun`). Missed slots are made up one a tick. An `add_task` that failed after the task
  entered the queue leaves a failed run and a task that runs. A run with 100 newer ones of its automation is not reconciled any more, whatever
  becomes of its task (the exception in `RunsAreSettled`). An interrupted deletion leaves its run
  files. The terminal UI and `serve` each run a scheduler on the same directory; the model has one.

The runs state the conditions under which the properties do hold: one
client per thread, a cache that is not full and writes that do not fail (for liveness), no panic where
`HonestOutcome` is checked, one scheduler.

## 4. Proofs

All proofs are for any constants that satisfy the `ASSUME` of their module: any finite set of
tasks and workers, any number of threads, emitters, calls, agents, automations and crashes, any faults.
Where a theorem needs more, the last column says so.

| Theorem | States | Assumes |
|---|---|---|
| `TaskManagerProofs!TypeCorrect` | `Spec => []TypeOK` | |
| `TaskManagerProofs!QueueIsExact` | `Spec => []QueueIsQueued` | |
| `TaskManagerProofs!RunsAreExclusive` | `Spec => []OneWorkerPerRunningTask` | |
| `TaskDurabilityProofs!AckedIsNeverLost` | `Spec => []AckedSurvives` | |
| `TaskDurabilityProofs!FinalStaysFinal` | `Spec => TerminalForever` | |
| `TaskDurabilityProofs!CancelBeatsCompletion` | `Spec => CancelledNeverCompletes` | |
| `TaskDurabilityProofs!ObservedIsOnDisk` | `Spec => []ObservedIsDurable` | no failing write |
| `TaskDurabilityProofs!FilesImplementBoard` | `Spec => ImplementsBoard` (`TaskBoard`) | no failing write |
| `TaskDurabilityProofs!EventsAreApplied` | `Spec => EventsBeforeFinish` | no failing write |
| `TaskDurabilityProofs!NoLostWakeUp` | `Spec => []NoSleepOverWork` | no failing write |
| `EventLogProofs!SeqIsUnique` | `Spec => []SeqNeverReused` | |
| `EventLogProofs!PollersMissOnlyLate` | `Spec => []PollerMissesOnlyLate` | |
| `EventLogProofs!StreamsRise` | `Spec => []StreamInOrder` | |
| `EventLogProofs!LiveStreamsMissOnlyLate` | `Spec => []LiveMissesOnlyLate` | |
| `RuntimeThreadsProofs!BaseIsInvariant` | `Spec => []BaseInv` (types; a request, monitor or steer has a turn that is on disk) | |
| `RuntimeThreadsProofs!LruCovers` | `Spec => []LruCoversLoaded` | |
| `RuntimeThreadsProofs!FinishedStaysFinal` | `Spec => FinishedIsFinal` | |
| `RuntimeThreadsProofs!MonitoredStaysActive` | `Spec => []MonitoredIsActive` | one request at a time on a thread |
| `RuntimeThreadsProofs!InterruptIsTheEnd` | `Spec => []InterruptWins` | the same |
| `RuntimeThreadsProofs!HonestEnds` | `Spec => []HonestOutcome` | one request at a time, no panics |
| `RuntimeThreadsProofs!OpenMessageIsHeld` | `Spec => []OpenMessageIsWatched` | no failing write |
| `ToolCallsProofs!ApprovalIsNeeded` | `Spec => []RunsOnlyApproved` | |
| `ToolCallsProofs!PendingIsCurrent` | `Spec => []PendingIsAwaited` | |
| `ToolCallsProofs!AllowedIsCarriedOut` | `Spec => []AllowedIsDone` | |
| `ToolCallsProofs!ItemsAreClosed` | `Spec => []ItemsSettled` | |
| `ToolCallsProofs!EveryUseHasItsResult` | `Spec => []ResultsMatchCalls` | |
| `SubAgentsProofs!LimitIsKept` | `Spec => []LimitHolds` | |
| `SubAgentsProofs!ToldIsTrue` | `Spec => []ToldIsKept` | |
| `SubAgentsProofs!HoldIsAnswered` | `Spec => []HoldIsHeard` | |
| `AutomationsProofs!SlotOnce` | `Spec => []SlotOncePerSavedRun` | |
| `AutomationsProofs!NoLostUpdate` | `Spec => []FileIsAsWanted` | |
| `AutomationsProofs!NoSlotLost` | `Spec => NoSlotSkipped` | |

**The assumptions.** Each is the condition under which the code keeps the property, and the
instances of the runs that check it satisfy it.

* *No failing write* (`"disk" \notin Faults`): a manager whose write fails returns the error and keeps what it
  has changed in memory, so memory and files differ until the next save of the record. Crashes, panics
  and refused updates are allowed. The three theorems of `TaskDurabilityProofs` that a failed write cannot break do not assume it.
* *One request at a time on a thread* (`OneRequest`): what one client that waits for its answers does, and what the
  task manager does, whose threads are its own. Without it the property is false: run `threads_race`.
* *No panics*: a panicked engine closes its event channel, which the monitor takes for a completed turn.

The theorems without an assumption hold for any number of emitters of a thread, with steers, panics and crashes; what the code
does not keep under them is an exception in the property itself (late records, an old copy that a steer saves, messages that
recovery passes by, code that runs unasked), so that everything else is excluded.

**The inductive invariants.** TLC checked each on the instances of the runs before it was proved.
What makes them inductive:

* *TaskManager.* `Bookkeeping`: no pool runs before the manager is up, the
  holder of the mutex is in the phase it claims, a drained worker has a result, and the
  index on disk has no id twice. Without the first, `Boot` would not preserve
  `OneWorkerPerRunningTask` (recovered tasks could meet a worker left over from before);
  without the last, not `QueueIsQueued` (a double id in the index would be kept).
  `QueueLemmas` has the facts about `Retained`, `Orderings`, appending to and popping
  from a queue.
* *TaskManager, memory and files.* `AckedIsSaved` follows a task from the write of its record to its
  acknowledgement; `FinalIsShared` says that memory agrees with a final status on disk. Without failing
  writes `MemoryIsAhead` bounds how far the files lag: only the records the holder of the mutex has still
  to write differ, by one move of `TaskBoard` each (elsewhere a file lacks at most the parts of a refused update), and this is why every `WriteTask` is a step of the board, or
  none that it can see. `EventsInOrder` ties the executor to the last entry of its channel;
  `WakeUpIsPending` says that a permit is stored only while nobody waits, and where the wake-up for
  a queue that everybody sleeps over is.
* *EventLog.* `BelowCounter`: every number in a file or in the hands of an emitter is below
  `saved_seq`, which is never above `next_seq` (it lags when a write of `state.json`
  failed). A crash resets the counter to the file, so a fresh number is fresh only
  because the file is written before the number is used.
* *EventLog, readers.* `Channel`: what was broadcast is in the file, and an emitter has a number that was not. `Cursor`:
  a poller has been through a part of the log, has what was not late when it came by, and its cursor is in that part; a
  number behind the cursor that is appended later is late by definition. `Follows`, of a connection: what it delivered rises
  but after a number that overtook one (`Rises`), follows the file up to a seam and the channel from there (`Seamed`); its
  position is that of the backlog or of an event it took from the channel (`Placed`); and what it took it has delivered, or it is late (`Told`).
  The four are kept by one step only together: that an event which is left out was late needs `Placed`.
* *RuntimeThreads.* `Records`: whoever works on a turn works on one that is on disk, with the thread it has. `Requests`:
  what a request that gave up the lock may still rely on; it is false with two requests on a thread, and
  `MonitoredIsActive` needs it. `Finality`: a turn that somebody has still to end is in progress, also in the
  copy that will be saved; `Steering`: a copy that a steer has still to save is in progress, or holds the end the monitor
  gave the turn. `InterruptHolds` follows an accepted interrupt from the flag to the
  decision and the record. `Piped`: an engine of the cache has one turn at a time in its op queue, its turn
  loop and its event queue, and what is in the event queue ends with that turn's outcome; `Honest` compares with it what
  the monitor has decided. `MessageHeld`: an open message has a monitor that has not settled its items yet, or a crash
  took that monitor and recovery has the turn still before it or passes the message by (`MessageLost`).
* *ToolCalls.* `AskedOnce`: a call is announced at most once, and until the monitor registers it nobody
  can have answered it. `SenderIsUnused`: a sender in the map has been neither used nor taken. `DecisionsAreMade`:
  whatever is in the decision channel was made for its call, so a late decision that is skipped, or
  read by a later turn, says nothing about another call.
* *ToolCalls, to the end of a turn.* `AllowInv`: the engine waits for the call it asked about (`AskedIsNext`), no
  decision about a call comes before its question was answered (`Undecided`), and what was allowed is with the
  monitor, in the channel or executed (`Carried`). `ItemInv`: an item that is open, or about to be, has its completion
  in the channel or its call still before the engine; completions follow announcements (`InOrder`).
  `ResultInv`: a step is in the order of the calls and each has an outcome, runs or is yet to come, so the filter
  that collects the results leaves none out (`RetainedWhole`). All three need that the end of a turn is its last event (`TurnIsLast`).
* *SubAgents.* `AbortedIsKnown` ties the task to the status (only a task nobody has told to stop shows as
  running, which bounds the live tasks by the count under the lock); `ToldIsLast`: a report is the
  last thing a task does; `HoldIsCovered`: each agent the turn counted is at work, has spoken or is mute.
* *Automations.* `Holder`: what the holder of the mutex has read is still in the files, between any two
  of its writes; `OnDisk` and `SavedIsThere`: the runs on disk are the saved ones of automations that
  exist, with the slots of their tasks; `Drawn`: run ids are drawn in order. That a run was pushed out of
  what the tick looks at is then a comparison of cardinalities (`Enqueued`, `PastStays`).

Every safety property, action property and refinement that a passing run checks is stated by a theorem. What stays with
TLC is liveness (`QueuedIsPicked`, `AckedIsSettled`, `ShutdownStopsWorkers`, `ReadersCatchUp`, `EveryTurnEnds`,
`CatchesUp`, `RunsAreSettled`, `HoldEnds`, `TurnsEnd`): it rests on fairness and ENABLED, which the prover does not
handle. What a recursive filter such as `SelectSeq` computes for every sequence would need induction over an
operator; the filters are therefore written as an increasing bijection onto the places that are kept (`Retained`, `Kept`),
about which facts can be proved.

## 5. Not modelled

* *Data and wording*: prompts, messages, tool output, RRULE syntax, JSON.
* *Parts of modelled components.* Reasoning and compaction items, fork, undo and session import of runtime
  threads; stream retries, the capacity checkpoints and compaction inside the turn loop; the
  input queue, mailbox and leases of sub-agents; failing writes of the sub-agents' state file; artifacts
  and gate events of tasks; a second scheduler.
* *Capacity controller, compaction, cycles*: thresholds over token counts; what could go wrong is numeric and
  within the reach of unit tests.
* *Job manager and state store*, *shell jobs*, *MCP*, *LLM client*: I/O to other processes and a database,
  around little shared state of their own.
* *Policies, sandbox, hooks, LSP, RLM, REPL, configuration*: sequential code that classifies strings or
  adapts other programs.
* *Terminal UI*: one thread that renders what the engine tells it.
* *UDAS density engine, embeddings, data vault*: floating point.
* *Integrations, packaging, web site*: scripts.

## 6. Plan

The safety theorems are complete for the models as they are. Next: the same theorems under weaker assumptions
where the code allows it (memory and files
after a failed write and the save that follows it), an abstract specification of a turn that `RuntimeThreads`
implements when a thread has one request at a time, and one of the decision about a call for `ToolCalls`.
Models that may follow: the executor's composition of `TaskManager`, `RuntimeThreads` and
`EventLog`, and the retry budget of the job manager. All modules are written for proofs: no RECURSIVE
operator, invariants in named conjuncts, one action an operation.
