----------------------------- MODULE TaskManager -----------------------------
(***************************************************************************)
(* The durable task queue of crates/tui/src/task_manager.rs: one mutex     *)
(* around ManagerState, a pool of workers that wait on a tokio Notify, and *)
(* a copy of the state on disk (queue.json and one file per task) that the *)
(* holder of the mutex rewrites file by file before it lets go.            *)
(*                                                                         *)
(* A crash may fall between any two files.  A write may fail when "disk"   *)
(* is in Faults, an executor may panic when "panic" is, and the metadata   *)
(* of a tool may not parse when "update" is.                               *)
(***************************************************************************)
EXTENDS Naturals, Sequences, FiniteSets, Functions, QueueOps

CONSTANTS
    Tasks,        \* task ids; add_task draws a fresh one (a UUID)
    Workers,      \* the pool, worker_count.clamp(1, MAX_WORKERS) of them
    NoTask,       \* a worker without a task
    NoWorker,     \* a task without a cancellation token
    Faults,       \* which failures may happen: a subset of {"disk", "panic", "update"}
    Shutdowns,    \* may shutdown be called?
    MaxCrashes,   \* bound on the number of crashes of the process
    MaxEvents     \* bound on the events of one run: 0, 1 or 2

ASSUME TaskManagerAssumption ==
    /\ IsFiniteSet(Tasks) /\ NoTask \notin Tasks
    /\ IsFiniteSet(Workers) /\ NoWorker \notin Workers /\ Workers # {}
    /\ Faults \subseteq {"disk", "panic", "update"}
    /\ Shutdowns \in BOOLEAN /\ MaxCrashes \in Nat /\ MaxEvents \in 0..2

VARIABLES
    phase,          \* "down", "boot" (start_with_executor) or "up"
    stopped,        \* cancel_token, set by shutdown
    tasks,          \* ManagerState.tasks: id -> record
    queue,          \* ManagerState.queue
    running_cancel, \* ManagerState.running_cancel: id -> worker whose token it is
    ahead,          \* records that hold a part of a refused update their file lacks
    token,          \* is the token of the worker's current run cancelled?
    pc,             \* where each worker stands in worker_loop / run_task
    job,            \* the task each worker runs
    exec,           \* how far the executor of each worker got with its tool call
    result,         \* what the executor returned
    events,         \* the unbounded channel from executor to run_task
    permit,         \* the permit a Notify stores when nobody waits
    notifying,      \* add_task calls that have unlocked but not yet notified
    io,             \* the files the holder of the mutex has still to write
    disk,           \* tasks/<id>.json
    disk_queue,     \* queue.json
    acked,          \* history: ids for which add_task returned Ok
    crashes         \* history: crashes so far

memory  == <<tasks, queue, running_cancel, ahead>>
pool    == <<token, pc, job, exec, result, events>>
durable == <<disk, disk_queue>>
waking  == <<permit, notifying>>
vars == <<phase, stopped, memory, pool, waking, io, durable, acked, crashes>>

Terminal == {"Completed", "Failed", "Canceled"}
Status   == {"Queued", "Running"} \cup Terminal

\* The part of a TaskRecord that behaviour depends on.  "absent": no record.
\* tool is the one TaskToolCallSummary the model follows, last what the timeline
\* says of tools last.
ToolEvents == {"ToolStarted", "ToolCompleted"}
Record == [status : Status \cup {"absent"}, tool : {"none", "open", "closed"},
           last : ToolEvents \cup {"none"}]
Absent == [status |-> "absent", tool |-> "none", last |-> "none"]

Known == {t \in Tasks : tasks[t].status # "absent"}

\* Workers that hold a task: between pop_front and finish_task, or dead in between.
Busy == {"start", "run", "drain", "dead"}
PC   == Busy \cup {"off", "top", "sleepy", "parked", "finish", "exit"}

(***************************************************************************)
(* persist_all_locked writes queue.json, then every task file in the       *)
(* order of a HashMap.  `io` says what is left; the mutex is free exactly  *)
(* when io = Idle.                                                         *)
(***************************************************************************)
\* op and id say who continues how: the start of the manager, add_task(id),
\* or anybody else, for whom `by` is the worker, if it is one.
Idle == [op |-> "none", id |-> NoTask, by |-> NoWorker, index |-> FALSE, files |-> {}]
Free == phase = "up" /\ io = Idle

PersistAllButTasks(op, id, by, ts) ==    \* mutant: only queue.json
    [op |-> op, id |-> id, by |-> by, index |-> TRUE, files |-> {}]
PersistAll(op, id, by, ts) ==
    [op |-> op, id |-> id, by |-> by, index |-> TRUE,
     files |-> {t \in Tasks : ts[t].status # "absent"}]
PersistTask(t, by) ==
    [op |-> "save", id |-> NoTask, by |-> by, index |-> FALSE, files |-> {t}]

Init ==
    /\ phase = "down" /\ stopped = FALSE
    /\ tasks = [t \in Tasks |-> Absent] /\ queue = <<>>
    /\ running_cancel = [t \in Tasks |-> NoWorker] /\ ahead = {}
    /\ token = [w \in Workers |-> FALSE]
    /\ pc = [w \in Workers |-> "off"]
    /\ job = [w \in Workers |-> NoTask]
    /\ exec = [w \in Workers |-> "idle"]
    /\ result = [w \in Workers |-> "none"]
    /\ events = [w \in Workers |-> <<>>]
    /\ permit = FALSE /\ notifying = {}
    /\ io = Idle
    /\ disk = [t \in Tasks |-> Absent] /\ disk_queue = <<>>
    /\ acked = {} /\ crashes = 0

-----------------------------------------------------------------------------
(* Start and crash.                                                        *)

\* A task that was running when the process died is queued again.
RecoveredKind(r) ==                      \* mutant: the timeline kind as a status
    IF r.status = "Running" THEN [r EXCEPT !.status = "recovered"] ELSE r
RecoveredAsIs(r) == r                    \* mutant: running tasks stay running
RecoveredAll(r) ==                       \* mutant: whatever was recorded is queued
    IF r = Absent THEN r ELSE [r EXCEPT !.status = "Queued"]
Recovered(r) == IF r.status = "Running" THEN [r EXCEPT !.status = "Queued"] ELSE r

\* load_state, then persist_all_locked.
Boot ==
    /\ phase = "down"
    /\ phase' = "boot"
    /\ tasks' = [t \in Tasks |-> Recovered(disk[t])]
    /\ LET queued == {t \in Tasks : tasks'[t].status = "Queued"}
       IN  \E known \in Retained(disk_queue, queued) :
             \E missing \in Orderings(queued \ Range(known)) :
                queue' = known \o missing
    /\ io' = PersistAll("boot", NoTask, NoWorker, tasks')
    /\ UNCHANGED <<stopped, running_cancel, ahead, pool, waking, durable, acked, crashes>>

\* The process dies: only the files (and the history) survive.
Lost ==
    /\ phase' = "down" /\ stopped' = FALSE
    /\ tasks' = [t \in Tasks |-> Absent] /\ queue' = <<>>
    /\ running_cancel' = [t \in Tasks |-> NoWorker] /\ ahead' = {}
    /\ token' = [w \in Workers |-> FALSE]
    /\ pc' = [w \in Workers |-> "off"]
    /\ job' = [w \in Workers |-> NoTask]
    /\ exec' = [w \in Workers |-> "idle"]
    /\ result' = [w \in Workers |-> "none"]
    /\ events' = [w \in Workers |-> <<>>]
    /\ permit' = FALSE /\ notifying' = {}
    /\ io' = Idle
    /\ UNCHANGED <<durable, acked>>

Crash ==
    /\ phase # "down" /\ crashes < MaxCrashes
    /\ crashes' = crashes + 1
    /\ Lost

Shutdown ==
    /\ Shutdowns /\ phase = "up" /\ ~stopped
    /\ stopped' = TRUE
    /\ UNCHANGED <<phase, memory, pool, waking, io, durable, acked, crashes>>

-----------------------------------------------------------------------------
(* What the holder of the mutex still has to do.                           *)

WriteIndex ==
    /\ io.index
    /\ disk_queue' = queue
    /\ io' = [io EXCEPT !.index = FALSE]
    /\ UNCHANGED <<phase, stopped, memory, pool, waking, disk, acked, crashes>>

WriteTask(t) ==
    /\ ~io.index /\ t \in io.files
    /\ disk' = [disk EXCEPT ![t] = tasks[t]]
    /\ ahead' = ahead \ {t}
    /\ io' = [io EXCEPT !.files = @ \ {t}]
    /\ UNCHANGED <<phase, stopped, tasks, queue, running_cancel, pool, waking, disk_queue,
                   acked, crashes>>

\* The step after the lock is dropped, for whoever held it.
Resume(w) ==
    CASE pc[w] = "start"  -> "run"
      [] pc[w] = "finish" -> "top"
      [] OTHER            -> pc[w]

\* Everything is written: the mutex is released and the call goes on.
Release ==
    /\ io # Idle /\ ~io.index /\ io.files = {}
    /\ io' = Idle
    /\ phase' = "up"
    /\ pc' = [w \in Workers |->
                 IF io.op = "boot" THEN "top" ELSE IF io.by = w THEN Resume(w) ELSE pc[w]]
    /\ notifying' = IF io.op = "add" THEN notifying \cup {io.id} ELSE notifying
    /\ UNCHANGED <<stopped, memory, token, job, exec, result, events, permit,
                   durable, acked, crashes>>

\* A write fails and the rest is skipped.  add_task and cancel_task return
\* the error, workers log it, start_with_executor gives up.
WriteFails ==
    /\ "disk" \in Faults
    /\ io.index \/ io.files # {}
    /\ IF io.op = "boot"
       THEN Lost /\ UNCHANGED crashes
       ELSE /\ io' = Idle
            /\ pc' = [w \in Workers |-> IF io.by = w THEN Resume(w) ELSE pc[w]]
            /\ UNCHANGED <<phase, stopped, memory, token, job, exec, result, events,
                           waking, durable, acked, crashes>>
-----------------------------------------------------------------------------
(* Clients.  Each of these takes the mutex.                                *)

\* An id nobody has seen: not in memory, not in a file.
Fresh(t) == tasks[t] = Absent /\ disk[t] = Absent /\ t \notin Range(disk_queue)

add_task(t) ==
    /\ Free /\ Fresh(t)
    /\ tasks' = [tasks EXCEPT ![t].status = "Queued"]
    /\ queue' = Append(queue, t)
    /\ io' = PersistAll("add", t, NoWorker, tasks')
    /\ UNCHANGED <<phase, stopped, running_cancel, ahead, pool, waking, durable, acked, crashes>>

\* Notify::notify_one wakes one registered waiter or stores the single permit.
Waiters == {w \in Workers : pc[w] = "parked"}
notify_waiters ==                        \* mutant: wakes all, stores nothing
    /\ pc' = [w \in Workers |-> IF w \in Waiters THEN "top" ELSE pc[w]]
    /\ UNCHANGED permit
notify_one ==
    \/ Waiters = {} /\ permit' = TRUE /\ UNCHANGED pc
    \/ \E w \in Waiters : pc' = [pc EXCEPT ![w] = "top"] /\ UNCHANGED permit

\* The rest of add_task, after the unlock; the caller then gets Ok.
Acknowledge(t) ==
    /\ t \in notifying
    /\ notifying' = notifying \ {t}
    /\ acked' = acked \cup {t}
    /\ notify_one
    /\ UNCHANGED <<phase, stopped, memory, token, job, exec, result, events, io,
                   durable, crashes>>

\* cancel_task on a queued task takes it out of the queue; on a running one
\* it cancels the token of the run; either way everything is rewritten.
cancel_task(t) ==
    /\ Free /\ t \in Known
    /\ tasks' = [tasks EXCEPT ![t].status = IF @ = "Queued" THEN "Canceled" ELSE @]
    /\ IF tasks[t].status = "Queued"
       THEN queue' \in Retained(queue, Tasks \ {t})
       ELSE UNCHANGED queue
    /\ token' = [w \in Workers |->
                    token[w] \/ (tasks[t].status = "Running" /\ running_cancel[t] = w)]
    /\ io' = PersistAll("save", NoTask, NoWorker, tasks')
    /\ UNCHANGED <<phase, stopped, running_cancel, ahead, pc, job, exec, result, events,
                   waking, durable, acked, crashes>>

\* apply_task_update_metadata stops at the first part of an update that does not
\* parse.  What came before it stays in the record, and the caller returns the
\* error before it rewrites the file.
Refuses(t, record) ==
    /\ "update" \in Faults
    /\ tasks' = [tasks EXCEPT ![t] = record]
    /\ ahead' = ahead \cup {t}
    /\ UNCHANGED io

\* record_tool_metadata rewrites the file of one task (what an update says is
\* not modelled).
record_tool_metadata(t) ==
    /\ Free /\ t \in Known
    /\ \/ io' = PersistTask(t, NoWorker) /\ UNCHANGED <<tasks, ahead>>
       \/ Refuses(t, tasks[t])
    /\ UNCHANGED <<phase, stopped, queue, running_cancel, pool, waking, durable, acked, crashes>>

-----------------------------------------------------------------------------
(* worker_loop.                                                            *)

\* Where a worker looks at cancel_token: at the top and while it waits.
ExitsAtTop == {"top"}                    \* mutant: not while it waits
ExitPoints == {"top", "sleepy", "parked"}

WorkerExits(w) ==
    /\ phase = "up" /\ stopped /\ pc[w] \in ExitPoints
    /\ pc' = [pc EXCEPT ![w] = "exit"]
    /\ UNCHANGED <<phase, stopped, memory, token, job, exec, result, events, waking,
                   io, durable, acked, crashes>>

\* pop_front on an empty queue: the lock is dropped before notified() is polled.
FindsNothing(w) ==
    /\ Free /\ pc[w] = "top" /\ queue = <<>>
    /\ pc' = [pc EXCEPT ![w] = "sleepy"]
    /\ UNCHANGED <<phase, stopped, memory, token, job, exec, result, events, waking,
                   io, durable, acked, crashes>>

\* notified() consumes a stored permit or registers the worker as a waiter.
Waits(w) ==
    /\ pc[w] = "sleepy"
    /\ pc' = [pc EXCEPT ![w] = IF permit THEN "top" ELSE "parked"]
    /\ permit' = FALSE
    /\ UNCHANGED <<phase, stopped, memory, token, job, exec, result, events, notifying,
                   io, durable, acked, crashes>>

\* A popped id whose task is no longer queued only has queue.json rewritten.
Pops(w) ==
    /\ Free /\ pc[w] = "top" /\ queue # <<>>
    /\ queue' = Tail(queue)
    /\ LET t == Head(queue) IN
       IF tasks[t].status = "Queued"
       THEN /\ tasks' = [tasks EXCEPT ![t].status = "Running"]
            /\ running_cancel' = [running_cancel EXCEPT ![t] = w]
            /\ pc' = [pc EXCEPT ![w] = "start"]
            /\ job' = [job EXCEPT ![w] = t]
            /\ io' = PersistAll("save", NoTask, w, tasks')
       ELSE /\ pc' = [pc EXCEPT ![w] = "sleepy"]
            /\ io' = [PersistAll("save", NoTask, w, tasks) EXCEPT !.files = {}]
            /\ UNCHANGED <<tasks, running_cancel, job>>
    /\ UNCHANGED <<phase, stopped, ahead, token, exec, result, events, waking, durable,
                   acked, crashes>>

-----------------------------------------------------------------------------
(* run_task: the executor future and the event loop share the worker.      *)

\* The executor sends an event.  While the worker persists one, the executor
\* is not polled.
ExecutorSends(w) ==
    /\ pc[w] = "run" /\ io.by # w
    /\ \/ /\ exec[w] = "idle" /\ MaxEvents >= 1
          /\ exec' = [exec EXCEPT ![w] = "opened"]
          /\ events' = [events EXCEPT ![w] = Append(@, "ToolStarted")]
       \/ /\ exec[w] = "opened" /\ MaxEvents >= 2
          /\ exec' = [exec EXCEPT ![w] = "closed"]
          /\ events' = [events EXCEPT ![w] = Append(@, "ToolCompleted")]
    /\ UNCHANGED <<phase, stopped, memory, token, pc, job, result, waking, io,
                   durable, acked, crashes>>

\* It returns, with or without having looked at its token: a runtime turn may
\* complete, fail or be interrupted by another client.
ExecutorReturns(w) ==
    /\ pc[w] = "run" /\ io.by # w
    /\ pc' = [pc EXCEPT ![w] = "drain"]
    /\ \E r \in Terminal : result' = [result EXCEPT ![w] = r]
    /\ UNCHANGED <<phase, stopped, memory, token, job, exec, events, waking, io,
                   durable, acked, crashes>>

\* A panic unwinds the worker; spawn_supervised logs it, nobody restarts it.
ExecutorPanics(w) ==
    /\ "panic" \in Faults
    /\ pc[w] = "run" /\ io.by # w
    /\ pc' = [pc EXCEPT ![w] = "dead"]
    /\ UNCHANGED <<phase, stopped, memory, token, job, exec, result, events, waking,
                   io, durable, acked, crashes>>

\* EngineTaskExecutor names a call by its tool id when it starts and by the id of
\* its runtime item when it completes; only an equal id closes the call.
CallId(e) == IF e = "ToolStarted" THEN "tool" ELSE "item"
Applied(record, e) ==
    [record EXCEPT !.last = e,
                   !.tool = IF e = "ToolStarted" THEN "open"
                            ELSE IF CallId(e) = CallId("ToolStarted") THEN "closed" ELSE @]

\* apply_execution_event.  When the artifact of a large output cannot be
\* written it returns before the record is changed.
apply_execution_event(w) ==
    /\ Free /\ pc[w] \in {"run", "drain"} /\ events[w] # <<>>
    /\ events' = [events EXCEPT ![w] = Tail(@)]
    /\ LET t == job[w]
           e == Head(events[w])
       IN  \/ /\ tasks' = [tasks EXCEPT ![t] = Applied(@, e)]
              /\ io' = PersistTask(t, w)
              /\ UNCHANGED ahead
           \/ /\ "disk" \in Faults /\ e = "ToolCompleted"
              /\ UNCHANGED <<tasks, ahead, io>>
           \/ e = "ToolCompleted" /\ Refuses(t, Applied(tasks[t], e))
    /\ UNCHANGED <<phase, stopped, queue, running_cancel, token, pc, job, exec, result,
                   waking, durable, acked, crashes>>

\* A run that completed although it was cancelled counts as cancelled.
OutcomeOfRun(w) == result[w]             \* mutant: the token is not looked at
Outcome(w) == IF token[w] /\ result[w] = "Completed" THEN "Canceled" ELSE result[w]

\* The trailing events are applied first.
DrainedEarly(w) == TRUE                  \* mutant: they are not
Drained(w) == events[w] = <<>>

\* finish_task.  When the artifact of a large result cannot be written it
\* returns before anything is persisted.
finish_task(w) ==
    /\ Free /\ pc[w] = "drain" /\ Drained(w)
    /\ tasks' = [tasks EXCEPT ![job[w]].status = Outcome(w)]
    /\ running_cancel' = [running_cancel EXCEPT ![job[w]] = NoWorker]
    /\ job' = [job EXCEPT ![w] = NoTask]
    /\ exec' = [exec EXCEPT ![w] = "idle"]
    /\ token' = [token EXCEPT ![w] = FALSE]
    /\ result' = [result EXCEPT ![w] = "none"]
    /\ \/ /\ pc' = [pc EXCEPT ![w] = "finish"]
          /\ io' = PersistAll("save", NoTask, w, tasks')
       \/ /\ "disk" \in Faults /\ Outcome(w) = result[w]
          /\ pc' = [pc EXCEPT ![w] = "top"]
          /\ UNCHANGED io
    /\ UNCHANGED <<phase, stopped, queue, ahead, events, waking, durable, acked, crashes>>

-----------------------------------------------------------------------------
Persist == WriteIndex \/ (\E t \in Tasks : WriteTask(t)) \/ Release

worker_loop(w) ==
    \/ WorkerExits(w) \/ FindsNothing(w) \/ Waits(w) \/ Pops(w)
    \/ apply_execution_event(w) \/ finish_task(w)

Executor(w) == ExecutorSends(w) \/ ExecutorReturns(w) \/ ExecutorPanics(w)

Client ==
    \/ Shutdown
    \/ \E t \in Tasks : add_task(t) \/ cancel_task(t) \/ record_tool_metadata(t)

Next ==
    \/ Boot \/ Crash \/ Client \/ Persist \/ WriteFails
    \/ \E t \in Tasks : Acknowledge(t)
    \/ \E w \in Workers : worker_loop(w) \/ Executor(w)

Spec == Init /\ [][Next]_vars

\* Code that holds the mutex or is runnable goes on (tokio polls every ready
\* task); the manager is started.
Scheduling ==
    /\ WF_vars(Boot) /\ WF_vars(Persist)
    /\ \A t \in Tasks : WF_vars(Acknowledge(t))
    /\ \A w \in Workers : SF_vars(worker_loop(w))

\* Runs end.  One that waits for an approval does, as the wait times out; one
\* that asks the user a question ends only when it is cancelled, so the liveness
\* properties are about runs that ask none (see ToolCalls).
RunsEnd == \A w \in Workers : WF_vars(ExecutorReturns(w))

FairSpec == Spec /\ Scheduling /\ RunsEnd

-----------------------------------------------------------------------------
(* Properties.                                                             *)

TypeOK ==
    /\ phase \in {"down", "boot", "up"} /\ stopped \in BOOLEAN
    /\ tasks \in [Tasks -> Record] /\ queue \in Seq(Tasks)
    /\ running_cancel \in [Tasks -> Workers \cup {NoWorker}] /\ ahead \subseteq Tasks
    /\ token \in [Workers -> BOOLEAN] /\ pc \in [Workers -> PC]
    /\ job \in [Workers -> Tasks \cup {NoTask}]
    /\ exec \in [Workers -> {"idle", "opened", "closed"}]
    /\ result \in [Workers -> Terminal \cup {"none"}]
    /\ events \in [Workers -> Seq(ToolEvents)]
    /\ permit \in BOOLEAN /\ notifying \subseteq Tasks
    /\ io \in [op : {"none", "boot", "add", "save"},
                id : Tasks \cup {NoTask}, by : Workers \cup {NoWorker},
                index : BOOLEAN, files : SUBSET Tasks]
    /\ disk \in [Tasks -> Record] /\ disk_queue \in Seq(Tasks)
    /\ acked \subseteq Tasks /\ crashes \in 0..MaxCrashes

\* The queue holds exactly the queued tasks, each once: cancellation, recovery
\* from a torn save and failed saves neither lose an entry nor leave a stale or
\* double one (so worker_loop's branch for a stale id is never needed).
QueueIsQueued ==
    /\ Range(queue) = {t \in Tasks : tasks[t].status = "Queued"}
    /\ IsInjective(queue)

\* A task is running iff exactly one worker has it, and the token a cancel
\* would find for it is the token of that worker.
OneWorkerPerRunningTask ==
    /\ \A t \in Tasks, w \in Workers : running_cancel[t] = w <=> job[w] = t
    /\ \A t \in Tasks : tasks[t].status = "Running" <=> \E w \in Workers : job[w] = t
    /\ \A w \in Workers : job[w] # NoTask <=> pc[w] \in Busy

\* Whoever takes the mutex sees only what a restart would also find, but for the
\* parts of an update that was refused, which no file has before the task is
\* saved for another reason; even then its status is that of the file.
ObservedIsDurable ==
    Free => /\ disk_queue = queue
            /\ \A t \in Tasks : /\ disk[t].status = tasks[t].status
                                /\ t \notin ahead => disk[t] = tasks[t]

\* A task whose add_task returned Ok has a file, and a manager that is up knows it.
AckedSurvives ==
    \A t \in acked : /\ disk[t].status # "absent"
                     /\ phase # "down" => tasks[t].status # "absent"

\* No lost wake-up: when every worker sleeps and no add_task has still to
\* notify, nothing is queued.
NoSleepOverWork ==
    (Free /\ notifying = {} /\ \A w \in Workers : pc[w] = "parked") => queue = <<>>

\* What the files say follows the life of a task in TaskBoard, one task a step.
Board == INSTANCE TaskBoard WITH status <- [t \in Tasks |-> disk[t].status]
ImplementsBoard == Board!Spec

\* A final status on disk is final: no restart runs the task again.
KeepsFinal ==
    \A t \in Tasks : disk[t].status \in Terminal => disk'[t].status = disk[t].status
TerminalForever == [][KeepsFinal]_vars

\* A run whose token was cancelled never ends as "Completed".
CancelWins ==
    \A w \in Workers : (token[w] /\ job[w] # NoTask /\ job'[w] = NoTask /\ phase' = "up")
        => tasks'[job[w]].status # "Completed"
CancelledNeverCompletes == [][CancelWins]_vars

\* A run is not finished before every event its executor sent is applied: the
\* timeline of a finished task ends with the last of them.
LastSent(w) == CASE exec[w] = "idle" -> "none" [] exec[w] = "opened" -> "ToolStarted"
                 [] exec[w] = "closed" -> "ToolCompleted"
FinishesApplied ==
    \A w \in Workers : (exec[w] # "idle" /\ job'[w] = NoTask /\ phase' = "up")
        => tasks'[job[w]].last = LastSent(w)
EventsBeforeFinish == [][FinishesApplied]_vars

\* A queued task is picked or cancelled, or the manager is told to stop: as
\* there are finitely many tasks, again and again none is queued.
QueuedIsPicked ==
    []<>(phase = "up" => stopped \/ \A t \in Tasks : tasks[t].status # "Queued")

\* Once add_task has returned Ok the task reaches a final status, crashes or not.
AckedIsSettled ==
    []<>(stopped \/ \A t \in acked : disk[t].status \in Terminal)

\* After shutdown every worker exits once its run has ended.
ShutdownStopsWorkers ==
    []<>(stopped => \A w \in Workers : pc[w] = "exit")
=============================================================================
