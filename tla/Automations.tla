----------------------------- MODULE Automations -----------------------------
(***************************************************************************)
(* Recurring jobs: crates/tui/src/automation_manager.rs.  An automation is *)
(* a file, each of its runs is a file, and a run enqueues a durable task.  *)
(* One tokio mutex (SharedAutomationManager) is held by the scheduler for  *)
(* a whole tick and by a client for a whole operation.                     *)
(*                                                                         *)
(* The task manager is TaskBoard, what TaskManager is shown to implement.  *)
(* A crash may fall between any two writes, a write or an add_task may fail.*)
(***************************************************************************)
EXTENDS Naturals, FiniteSets, FiniteSetsExt

CONSTANTS
    Autos,           \* automation ids
    Rules,           \* what parse_rrule accepts: records [interval, days]
    Week,            \* the length of a week in units of the clock
    SlotLimit,       \* runs scheduler_tick looks at (25)
    ReconcileLimit,  \* runs reconcile_run_statuses looks at (100)
    Outcomes,        \* bound on the final statuses a task gets; all are treated alike
    MaxClock, MaxRuns, MaxFaults, MaxUpdates    \* bounds

Terminal == {"Completed", "Failed", "Canceled"}

ASSUME AutomationsAssumption ==
    /\ IsFiniteSet(Autos) /\ Week \in Nat \ {0}
    /\ Rules \subseteq [interval : Nat \ {0}, days : SUBSET (0..Week - 1)]
    /\ SlotLimit \in Nat \ {0} /\ ReconcileLimit \in Nat \ {0}
    /\ Outcomes \subseteq Terminal
    /\ MaxClock \in Nat /\ MaxRuns \in Nat /\ MaxFaults \in Nat /\ MaxUpdates \in Nat

VARIABLES
    clock,    \* Utc::now()
    autos,    \* automations/<id>.json
    runs,     \* runs/<automation>/<id>.json; ids are drawn in the order of created_at
    task,     \* TaskBoard: the status of the task that was enqueued with run id
    lock,     \* who holds the mutex, and for what
    now,      \* `now` of the tick
    read,     \* list_automations, as the tick read it
    todo,     \* what the loop of a tick (automations) or of reconcile (runs) has left
    hand,     \* the run between enqueue_run_task and the last save
    wanted,   \* history: status and rule of each automation a client was last told
    slot,     \* history: what each task was enqueued for
    saved,    \* history: runs that were written
    updates,  \* history: client operations so far
    faults    \* history: crashes and failed writes so far

files   == <<autos, runs>>
loop    == <<now, read, todo>>
history == <<wanted, slot, saved>>
vars == <<clock, files, task, lock, loop, hand, history, updates, faults>>

Board == INSTANCE TaskBoard WITH Tasks <- 1..MaxRuns, status <- task, acked <- {}
None     == 0                  \* next_run_at: None; the clock starts at 1
Manual   == 0                  \* scheduled_for of run_now: an instant that is no slot
NoTask   == 0

Absent == [status |-> "absent"]
Record == [status : {"Active", "Paused"}, rule : Rules, next : Nat, ran : BOOLEAN]
Run    == [auto : Autos, slot : Nat, status : {"Queued", "Running"} \cup Terminal,
           task : Nat]
NoRun  == [status |-> "absent"]
Nobody == [op |-> "free"]
Empty  == [id |-> 0]

Exists(a) == autos[a] # Absent
RunsOf(a) == {i \in 1..MaxRuns : runs[i] # NoRun /\ runs[i].auto = a}

\* The n newest runs (list_runs with a limit).
Newest(a, n) == {i \in RunsOf(a) : Cardinality({j \in RunsOf(a) : j > i}) < n}

\* next_after.  An hourly rule steps by its interval until the day fits, a weekly
\* one is a rule with interval 1; {}: the filter never matches, an error.
Candidates(rule, t) == {t + k * rule.interval : k \in 1..Week}
Matching(rule, t)   == {c \in Candidates(rule, t) : (c % Week) \in rule.days}
NextAfter(rule, t)  == Min(Matching(rule, t))
Schedulable(rule, t) == Matching(rule, t) # {}

Init ==
    /\ clock = 1
    /\ autos = [a \in Autos |-> Absent] /\ wanted = [a \in Autos |-> Absent]
    /\ runs = [i \in 1..MaxRuns |-> NoRun] /\ slot = [i \in 1..MaxRuns |-> Empty]
    /\ Board!Init
    /\ lock = Nobody /\ now = 0 /\ read = [a \in Autos |-> Absent] /\ todo = {}
    /\ hand = Empty /\ saved = {} /\ updates = 0 /\ faults = 0

-----------------------------------------------------------------------------
(* Clients.  Each operation takes the mutex; between its writes only a     *)
(* crash or a failure can come in.                                         *)

FreeInTicks ==                                \* mutant: a tick does not take the mutex
    lock.op \in {"free", "tick"}
Free == lock = Nobody

Wants(a, record) ==
    wanted' = [wanted EXCEPT ![a] = [status |-> record.status, rule |-> record.rule]]

Write(a, record) ==
    /\ autos' = [autos EXCEPT ![a] = record]
    /\ Wants(a, record)

Client == Free /\ updates < MaxUpdates /\ updates' = updates + 1
Simple == Client /\ UNCHANGED <<clock, runs, task, loop, hand, slot, saved, faults>>

\* create_automation: an active one is refused when its rule never matches.
create_automation(a) ==
    /\ Simple /\ wanted[a] = Absent
    /\ \E rule \in Rules, status \in {"Active", "Paused"} :
         /\ status = "Active" => Schedulable(rule, clock)
         /\ Write(a, [status |-> status, rule |-> rule, ran |-> FALSE,
                      next |-> IF status = "Active" THEN NextAfter(rule, clock) ELSE None])
    /\ UNCHANGED lock

\* update_automation, pause_automation, resume_automation: a new schedule or a new
\* status starts from the present, a pause forgets the slot.  A new rule is tried out
\* while the automation is active, even if the same request pauses it.
update_automation(a) ==
    /\ Simple /\ Exists(a)
    /\ \E rule \in Rules, status \in {"Active", "Paused"} :
         /\ (status = "Active" \/ (autos[a].status = "Active" /\ rule # autos[a].rule))
                => Schedulable(rule, clock)
         /\ Write(a, [autos[a] EXCEPT
                !.status = status, !.rule = rule,
                !.next = IF status = "Active" THEN NextAfter(rule, clock) ELSE None])
    /\ UNCHANGED lock

\* delete_automation removes the record, then the directory of its runs.
delete_automation(a) ==
    /\ Simple /\ Exists(a)
    /\ autos' = [autos EXCEPT ![a] = Absent]
    /\ wanted' = [wanted EXCEPT ![a] = [status |-> "deleted"]]
    /\ lock' = [op |-> "delete", auto |-> a]

RemoveRuns ==
    /\ lock.op = "delete"
    /\ runs' = [i \in 1..MaxRuns |-> IF i \in RunsOf(lock.auto) THEN NoRun ELSE runs[i]]
    /\ lock' = Nobody
    /\ UNCHANGED <<clock, autos, task, loop, hand, history, updates, faults>>

\* enqueue_run_task.  When add_task fails the run is Failed without a task, but
\* the task may have entered the queue before its file could not be written.
Fresh == {i \in 1..MaxRuns : task[i] = "absent" /\ slot[i] = Empty /\ runs[i] = NoRun}

enqueue_run_task(a, due) ==
    \E i \in Fresh :
         /\ \A j \in Fresh : i <= j
         /\ slot' = [slot EXCEPT ![i] = [auto |-> a, at |-> due]]
         /\ \/ /\ Board!Submit(i)
               /\ hand' = [id |-> i, run |-> [auto |-> a, slot |-> due,
                                             status |-> "Running", task |-> i]]
               /\ UNCHANGED faults
            \/ /\ faults < MaxFaults /\ faults' = faults + 1
               /\ Board!Submit(i) \/ UNCHANGED task
               /\ hand' = [id |-> i, run |-> [auto |-> a, slot |-> due,
                                             status |-> "Failed", task |-> NoTask]]

\* run_now enqueues at once, whatever the status and the schedule.
run_now(a) ==
    /\ Client /\ Exists(a)
    /\ enqueue_run_task(a, Manual)
    /\ lock' = [op |-> "run_now", auto |-> a]
    /\ UNCHANGED <<clock, files, loop, wanted, saved>>

\* save_run, for run_now and for the tick.
save_run ==
    /\ hand # Empty /\ hand.id \notin saved
    /\ runs' = [runs EXCEPT ![hand.id] = hand.run]
    /\ saved' = saved \cup {hand.id}
    /\ UNCHANGED <<clock, autos, task, lock, loop, hand, wanted, slot, updates, faults>>

\* run_now saves the automation last; last_run_at moves only if the run failed.
RunNowReturns ==
    /\ lock.op = "run_now" /\ hand.id \in saved
    /\ LET a == lock.auto IN
         autos' = [autos EXCEPT ![a] =
                     [autos[a] EXCEPT !.ran = @ \/ hand.run.status = "Failed"]]
    /\ lock' = Nobody /\ hand' = Empty
    /\ UNCHANGED <<clock, runs, task, loop, history, updates, faults>>

-----------------------------------------------------------------------------
(* scheduler_tick, then reconcile_run_statuses, under one lock.            *)

TickStarts ==
    /\ Free
    /\ lock' = [op |-> "tick"]
    /\ now' = clock /\ read' = autos /\ todo' = {a \in Autos : Exists(a)}
    /\ UNCHANGED <<clock, files, task, hand, history, updates, faults>>

IsPast(record) == record.status = "Active" /\ record.next \in 1..now - 1  \* mutant: < for <=
IsDue(record)  == record.status = "Active" /\ record.next \in 1..now

\* "If a run already exists for this schedule slot, skip enqueue and advance."
HasRunNever(a, due) == FALSE                      \* mutant: nobody looks
HasRun(a, due) == \E i \in Newest(a, SlotLimit) : runs[i].slot = due

\* Nothing to do: paused, or its slot has not come.
TickPasses(a) ==
    /\ lock.op = "tick" /\ hand = Empty /\ a \in todo /\ ~IsDue(read[a])
    /\ todo' = todo \ {a}
    /\ UNCHANGED <<clock, files, task, lock, now, read, hand, history, updates, faults>>

TickEnqueues(a) ==
    /\ lock.op = "tick" /\ hand = Empty /\ a \in todo /\ IsDue(read[a])
    /\ ~HasRun(a, read[a].next)
    /\ enqueue_run_task(a, read[a].next)
    /\ UNCHANGED <<clock, files, lock, loop, wanted, saved, updates>>

\* The slot has its run, old or new: go on to the next one.
AdvancedToFuture(record) ==                       \* mutant: next_after(now)
    [record EXCEPT !.next = NextAfter(record.rule, now)]
Advanced(record) == [record EXCEPT !.next = NextAfter(record.rule, record.next)]

TickAdvances(a) ==
    /\ lock.op = "tick" /\ a \in todo /\ IsDue(read[a])
    /\ IF hand = Empty THEN HasRun(a, read[a].next)
                       ELSE hand.id \in saved /\ hand.run.auto = a
    /\ autos' = [autos EXCEPT ![a] = Advanced(read[a])]
    /\ todo' = todo \ {a} /\ hand' = Empty
    /\ UNCHANGED <<clock, runs, task, lock, now, read, history, updates, faults>>

UnsettledRunning == {"Running"}                   \* mutant: queued runs are left alone
Unsettled == {"Queued", "Running"}

\* Each automation is listed and its newest unsettled runs are visited.
ReconcileStarts ==
    /\ lock.op = "tick" /\ hand = Empty /\ todo = {}
    /\ lock' = [op |-> "reconcile"]
    /\ todo' = UNION {{i \in Newest(a, ReconcileLimit) : runs[i].status \in Unsettled
                                                         /\ runs[i].task # NoTask} :
                        a \in {b \in Autos : Exists(b)}}
    /\ now' = 0 /\ read' = [a \in Autos |-> Absent]
    /\ UNCHANGED <<clock, files, task, hand, history, updates, faults>>

\* A run takes the status of its task, if that has changed.
ReconcileRun(i) ==
    /\ lock.op = "reconcile" /\ hand = Empty /\ i \in todo
    /\ LET status == task[runs[i].task] IN
         IF status = runs[i].status
         THEN todo' = todo \ {i} /\ UNCHANGED <<runs, hand>>
         ELSE /\ runs' = [runs EXCEPT ![i].status = status]
              /\ IF status \in Terminal THEN hand' = [id |-> i] /\ UNCHANGED todo
                                        ELSE todo' = todo \ {i} /\ UNCHANGED hand
    /\ UNCHANGED <<clock, autos, task, lock, now, read, history, updates, faults>>

\* The automation of a run that has ended is loaded again and gets its last_run_at.
RecordLastRun ==
    /\ lock.op = "reconcile" /\ hand # Empty
    /\ autos' = [autos EXCEPT ![runs[hand.id].auto].ran = TRUE]
    /\ todo' = todo \ {hand.id} /\ hand' = Empty
    /\ UNCHANGED <<clock, runs, task, lock, now, read, history, updates, faults>>

TickEnds ==
    /\ lock.op = "reconcile" /\ hand = Empty /\ todo = {}
    /\ lock' = Nobody
    /\ UNCHANGED <<clock, files, task, loop, hand, history, updates, faults>>

-----------------------------------------------------------------------------
(* What else happens.                                                      *)

\* Is the holder of the mutex about to write?
Writing ==
    \/ lock.op \in {"run_now", "delete"} \/ hand # Empty
    \/ lock.op = "tick" /\ \E a \in todo : IsDue(read[a]) /\ HasRun(a, read[a].next)
    \/ lock.op = "reconcile" /\ \E i \in todo : task[runs[i].task] # runs[i].status

\* A write fails: `?` ends the operation, the tick or the reconciliation; after
\* a tick, the reconciliation still takes place.
WriteFails ==
    /\ faults < MaxFaults /\ faults' = faults + 1
    /\ Writing
    /\ lock' = IF lock.op = "tick" THEN lock ELSE Nobody
    /\ todo' = {} /\ hand' = Empty
    /\ UNCHANGED <<clock, files, task, now, read, history, updates>>

Requeued(status) == IF status = "Running" THEN "Queued" ELSE status

\* The process dies and is started again on the same files; running tasks are
\* queued again.
Crash ==
    /\ faults < MaxFaults /\ faults' = faults + 1
    /\ lock' = Nobody /\ hand' = Empty
    /\ now' = 0 /\ read' = [a \in Autos |-> Absent] /\ todo' = {}
    /\ task' = [i \in 1..MaxRuns |-> Requeued(task[i])]
    /\ UNCHANGED <<clock, files, history, updates>>

TimePasses ==
    /\ clock < MaxClock /\ clock' = clock + 1
    /\ UNCHANGED <<files, task, lock, loop, hand, history, updates, faults>>

\* The workers of the task manager, and clients that cancel tasks.
TaskMoves(i) ==
    /\ Board!Claim(i) \/ Board!Withdraw(i) \/ Board!Settle(i)
    /\ task'[i] \in {"Running"} \cup Outcomes
    /\ UNCHANGED <<clock, files, lock, loop, hand, history, updates, faults>>

Operation ==
    \/ RemoveRuns \/ save_run \/ RunNowReturns
    \/ \E a \in Autos :
         create_automation(a) \/ update_automation(a) \/ delete_automation(a) \/ run_now(a)

Tick ==
    \/ TickStarts \/ ReconcileStarts \/ RecordLastRun \/ TickEnds
    \/ \E a \in Autos : TickPasses(a) \/ TickEnqueues(a) \/ TickAdvances(a)
    \/ \E i \in 1..MaxRuns : ReconcileRun(i)

Next ==
    \/ Operation \/ Tick \/ WriteFails \/ Crash \/ TimePasses
    \/ \E i \in 1..MaxRuns : TaskMoves(i)

Spec == Init /\ [][Next]_vars

\* The scheduler goes round, whoever holds the mutex goes on, and a task is picked
\* and settled (AckedIsSettled of TaskManager).
FairSpec ==
    /\ Spec
    /\ WF_vars(Tick) /\ WF_vars(RemoveRuns \/ save_run \/ RunNowReturns)
    /\ \A i \in 1..MaxRuns : WF_vars(TaskMoves(i))

-----------------------------------------------------------------------------
(* Properties.                                                             *)

TypeOK ==
    /\ clock \in 1..MaxClock /\ now \in 0..MaxClock
    /\ autos \in [Autos -> Record \cup {Absent}]
    /\ read \in [Autos -> Record \cup {Absent}]
    /\ runs \in [1..MaxRuns -> Run \cup {NoRun}]
    /\ task \in [1..MaxRuns -> {"absent", "Queued", "Running"} \cup Terminal]
    /\ todo \subseteq Autos \cup 1..MaxRuns
    /\ saved \subseteq 1..MaxRuns /\ updates \in 0..MaxUpdates /\ faults \in 0..MaxFaults

\* A slot is enqueued twice only if the run of the first time was never written
\* (a crash or a failed write came in between) or has been pushed out of the runs the
\* tick looks at; any other fault between two writes is made good.
SlotOncePerSavedRun ==
    \A i, j \in 1..MaxRuns :
        (i < j /\ slot[i] # Empty /\ slot[i].at # Manual /\ slot[i] = slot[j])
            => i \notin saved \/ Cardinality({k \in saved : i < k /\ k < j}) >= SlotLimit

\* No lost update: an automation is what the last create, update, pause, resume or
\* delete made of it, although ticks and run_now rewrite whole records.
FileIsAsWanted ==
    \A a \in Autos : IF Exists(a) THEN wanted[a] = [status |-> autos[a].status,
                                                    rule |-> autos[a].rule]
                                 ELSE wanted[a] \in {Absent, [status |-> "deleted"]}

\* Nothing but a client moves an automation to another slot than the next one, and
\* not before a run for the present slot is on disk.
GoesToNextSlot(a) ==
    /\ autos[a].status = "Active"
    /\ autos'[a].next = NextAfter(autos[a].rule, autos[a].next)
    /\ \E i \in saved : slot[i] = [auto |-> a, at |-> autos[a].next]
SkipsNoSlot == \A a \in Autos :
    (Exists(a) /\ autos'[a] # Absent /\ updates' = updates
        /\ autos'[a].next # autos[a].next) => GoesToNextSlot(a)
NoSlotSkipped == [][SkipsNoSlot]_vars

\* The scheduler catches up, again and again, with every slot that has come.
CatchesUp == []<>(\A a \in Autos : Exists(a) => autos[a].next \notin 1..clock)

\* A run that is on disk gets its final status, as long as its automation exists and
\* until ReconcileLimit newer runs of it push the run out of what
\* reconcile_run_statuses reads: nobody looks at it again then.
OutOfSight(i) == i \notin Newest(runs[i].auto, ReconcileLimit)
RunsAreSettled ==
    []<>(\A i \in 1..MaxRuns :
            runs[i] # NoRun => \/ runs[i].status \in Terminal
                               \/ ~Exists(runs[i].auto) \/ OutOfSight(i))
=============================================================================
