-------------------------- MODULE TaskManagerProofs --------------------------
(***************************************************************************)
(* Theorems about TaskManager, for any sets of tasks and workers, any      *)
(* number of crashes and any of the failures.                              *)
(***************************************************************************)
EXTENDS TaskManager, QueueLemmas

\* What the properties rest on besides themselves: no pool runs before the
\* manager is up, and the holder of the mutex is in the phase it claims.
Bookkeeping ==
    /\ phase # "up" => \A w \in Workers : pc[w] = "off"
    /\ phase = "down" => io = Idle
    /\ phase = "boot" <=> io.op = "boot"
    /\ io.op = "add" => io.id \in Tasks
    /\ \A w \in Workers : pc[w] = "drain" => result[w] \in Terminal
    /\ IsInjective(disk_queue)

\* The inductive invariant.
IInv == TypeOK /\ QueueIsQueued /\ OneWorkerPerRunningTask /\ Bookkeeping

USE TaskManagerAssumption

\* A save that covers every known task is a well-formed obligation.
LEMMA PersistAllType ==
    ASSUME NEW op \in {"boot", "add", "save"}, NEW id \in Tasks \cup {NoTask},
           NEW by \in Workers \cup {NoWorker}, NEW ts
    PROVE  /\ PersistAll(op, id, by, ts) \in
                 [op : {"none", "boot", "add", "save"},
                  id : Tasks \cup {NoTask}, by : Workers \cup {NoWorker},
                  index : BOOLEAN, files : SUBSET Tasks]
           /\ PersistAll(op, id, by, ts).op = op
           /\ PersistAll(op, id, by, ts).id = id
    BY DEF PersistAll

\* Setting the status of one task, or applying an event to its record.
LEMMA SetStatus ==
    ASSUME NEW ts \in [Tasks -> Record], NEW t \in Tasks, NEW s \in Status \cup {"absent"}
    PROVE  /\ [ts EXCEPT ![t].status = s] \in [Tasks -> Record]
           /\ \A u \in Tasks : [ts EXCEPT ![t].status = s][u].status =
                                (IF u = t THEN s ELSE ts[u].status)
<1>1. [ts[t] EXCEPT !.status = s] \in Record /\ [ts[t] EXCEPT !.status = s].status = s
    BY DEF Record
<1> QED BY <1>1

LEMMA SetApplied ==
    ASSUME NEW ts \in [Tasks -> Record], NEW t \in Tasks, NEW e \in ToolEvents
    PROVE  /\ [ts EXCEPT ![t] = Applied(@, e)] \in [Tasks -> Record]
           /\ \A u \in Tasks : [ts EXCEPT ![t] = Applied(@, e)][u].status = ts[u].status
<1>1. Applied(ts[t], e) \in Record /\ Applied(ts[t], e).status = ts[t].status
    <2>1. ts[t] \in Record
        OBVIOUS
    <2> QED BY <2>1 DEF Applied, CallId, Record
<1> QED BY <1>1

LEMMA InitIInv == Init => IInv
<1> SUFFICES ASSUME Init PROVE IInv
    OBVIOUS
<1>1. TypeOK
    <2>1. Absent \in Record
        BY DEF Absent, Record
    <2>2. queue \in Seq(Tasks) /\ disk_queue \in Seq(Tasks)
          /\ events \in [Workers -> Seq(ToolEvents)]
        BY EmptySeq DEF Init
    <2>3. crashes \in 0..MaxCrashes
        BY DEF Init
    <2> QED BY <2>1, <2>2, <2>3 DEF Init, TypeOK, Idle, PC, Busy
<1>2. QueueIsQueued
    BY DEF Init, QueueIsQueued, Absent, Range, IsInjective
<1>3. OneWorkerPerRunningTask
    BY DEF Init, OneWorkerPerRunningTask, Absent, Busy
<1>4. Bookkeeping
    BY DEF Init, Bookkeeping, Idle, IsInjective
<1> QED BY <1>1, <1>2, <1>3, <1>4 DEF IInv

\* A crash (or a start that fails) leaves the empty memory of Init.
LEMMA LostIInv ==
    ASSUME IInv, Lost, crashes' \in 0..MaxCrashes
    PROVE  IInv'
<1>1. TypeOK'
    BY EmptySeq DEF IInv, TypeOK, Lost, Record, Status, Terminal, Absent, Idle, PC, Busy, durable
<1>2. QueueIsQueued'
    BY DEF Lost, QueueIsQueued, Absent, Range, IsInjective
<1>3. OneWorkerPerRunningTask'
    BY DEF Lost, OneWorkerPerRunningTask, Absent, Busy
<1>4. Bookkeeping'
    BY DEF IInv, Lost, Bookkeeping, Idle, durable
<1> QED BY <1>1, <1>2, <1>3, <1>4 DEF IInv

\* load_state rebuilds a queue that matches the recovered tasks.
LEMMA BootIInv ==
    ASSUME IInv, Boot
    PROVE  IInv'
<1> DEFINE queued == {t \in Tasks : tasks'[t].status = "Queued"}
<1>1. /\ tasks' \in [Tasks -> Record]
      /\ \A t \in Tasks : tasks'[t].status # "Running"
    <2>1. ASSUME NEW t \in Tasks
          PROVE  Recovered(disk[t]) \in Record /\ Recovered(disk[t]).status # "Running"
        <3>1. disk[t] \in Record
            BY DEF IInv, TypeOK
        <3>2. CASE disk[t].status = "Running"
            BY <3>1, <3>2 DEF Recovered, Record, Status
        <3>3. CASE disk[t].status # "Running"
            BY <3>1, <3>3 DEF Recovered
        <3> QED BY <3>2, <3>3
    <2> QED BY <2>1 DEF Boot
<1>2. /\ queue' \in Seq(Tasks) /\ IsInjective(queue') /\ Range(queue') = queued
    <2>1. PICK known \in Retained(disk_queue, queued) :
             \E missing \in Orderings(queued \ Range(known)) : queue' = known \o missing
        BY DEF Boot
    <2>2. PICK missing \in Orderings(queued \ Range(known)) : queue' = known \o missing
        BY <2>1
    <2>3. /\ known \in Seq(Tasks) /\ IsInjective(known)
          /\ Range(known) = Range(disk_queue) \cap queued
        BY RetainedKeeps DEF IInv, TypeOK, Bookkeeping
    <2>4. IsFiniteSet(queued \ Range(known)) /\ queued \ Range(known) \subseteq Tasks
        BY FS_Subset
    <2>5. /\ missing \in Seq(queued \ Range(known)) /\ IsInjective(missing)
          /\ Range(missing) = queued \ Range(known)
        BY <2>4, OrderingsAreComplete
    <2>6. missing \in Seq(Tasks)
        BY <2>4, <2>5, SeqMonotonic
    <2>7. Range(known) \cap Range(missing) = {}
        BY <2>5
    <2>8. queue' \in Seq(Tasks) /\ IsInjective(queue')
        BY <2>2, <2>3, <2>5, <2>6, <2>7, ConcatInjective, ConcatProperties
    <2>9. Range(queue') = Range(known) \cup Range(missing)
        BY <2>2, <2>3, <2>6, RangeConcatenation
    <2> QED BY <2>3, <2>5, <2>8, <2>9
<1>3. /\ \A w \in Workers : pc[w] = "off" /\ job[w] = NoTask
      /\ \A t \in Tasks : running_cancel[t] = NoWorker
    <2>1. \A w \in Workers : pc[w] = "off" /\ pc[w] \notin Busy
        BY DEF IInv, Boot, Bookkeeping, Busy
    <2>2. \A w \in Workers : job[w] = NoTask
        BY <2>1 DEF IInv, OneWorkerPerRunningTask
    <2>3. \A t \in Tasks : running_cancel[t] \in Workers \cup {NoWorker}
        BY DEF IInv, TypeOK
    <2>4. \A t \in Tasks, w \in Workers : running_cancel[t] # w
        BY <2>2 DEF IInv, OneWorkerPerRunningTask
    <2> QED BY <2>1, <2>2, <2>3, <2>4
<1>4. TypeOK'
    BY <1>1, <1>2, PersistAllType DEF IInv, TypeOK, Boot, pool, waking, durable
<1>5. QueueIsQueued'
    BY <1>2 DEF QueueIsQueued
<1>6. OneWorkerPerRunningTask'
    BY <1>1, <1>3 DEF Boot, OneWorkerPerRunningTask, Busy, pool
<1>7. Bookkeeping'
    BY <1>3, PersistAllType DEF IInv, Boot, Bookkeeping, pool, durable
<1> QED BY <1>4, <1>5, <1>6, <1>7 DEF IInv

\* Steps that change no record, no queue and nothing of the pool.  What a refused
\* update leaves behind is only noted in ahead.
LEMMA SaveIInv ==
    ASSUME IInv, Shutdown \/ WriteIndex \/ (\E t \in Tasks : WriteTask(t))
                 \/ (\E t \in Tasks : record_tool_metadata(t))
    PROVE  IInv'
<1>1. tasks' = tasks
    <2>1. ASSUME NEW t \in Tasks, Refuses(t, tasks[t]) PROVE tasks' = tasks
        <3>1. tasks \in [Tasks -> Record]
            BY DEF IInv, TypeOK
        <3> QED BY <2>1, <3>1 DEF Refuses
    <2> QED BY <2>1 DEF Shutdown, WriteIndex, WriteTask, record_tool_metadata, memory
<1>2. /\ UNCHANGED <<phase, queue, running_cancel, pool, waking, acked, crashes>>
      /\ ahead' \subseteq Tasks
    BY DEF IInv, TypeOK, Shutdown, WriteIndex, WriteTask, record_tool_metadata, Refuses, memory
<1>3. /\ stopped' \in BOOLEAN
      /\ io' \in [op : {"none", "boot", "add", "save"},
                 id : Tasks \cup {NoTask}, by : Workers \cup {NoWorker},
                 index : BOOLEAN, files : SUBSET Tasks]
      /\ disk' \in [Tasks -> Record] /\ disk_queue' \in Seq(Tasks)
    <2>1. CASE Shutdown
        BY <2>1 DEF IInv, TypeOK, Shutdown, durable
    <2>2. CASE WriteIndex
        BY <2>2 DEF IInv, TypeOK, WriteIndex
    <2>3. ASSUME NEW t \in Tasks, WriteTask(t)
          PROVE  /\ stopped' \in BOOLEAN
                 /\ io' \in [op : {"none", "boot", "add", "save"},
                            id : Tasks \cup {NoTask}, by : Workers \cup {NoWorker},
                            index : BOOLEAN, files : SUBSET Tasks]
                 /\ disk' \in [Tasks -> Record] /\ disk_queue' \in Seq(Tasks)
        BY <2>3 DEF IInv, TypeOK, WriteTask
    <2>4. ASSUME NEW t \in Tasks, record_tool_metadata(t)
          PROVE  /\ stopped' \in BOOLEAN
                 /\ io' \in [op : {"none", "boot", "add", "save"},
                            id : Tasks \cup {NoTask}, by : Workers \cup {NoWorker},
                            index : BOOLEAN, files : SUBSET Tasks]
                 /\ disk' \in [Tasks -> Record] /\ disk_queue' \in Seq(Tasks)
        <3>1. io' \in {io, PersistTask(t, NoWorker)} /\ UNCHANGED <<stopped, disk, disk_queue>>
            BY <2>4 DEF record_tool_metadata, Refuses, durable
        <3>2. PersistTask(t, NoWorker) \in
                 [op : {"none", "boot", "add", "save"},
                  id : Tasks \cup {NoTask}, by : Workers \cup {NoWorker},
                  index : BOOLEAN, files : SUBSET Tasks]
            BY DEF PersistTask
        <3> QED BY <3>1, <3>2 DEF IInv, TypeOK
    <2> QED BY <2>1, <2>2, <2>3, <2>4
<1>4. TypeOK'
    BY <1>1, <1>2, <1>3 DEF IInv, TypeOK, pool, waking
<1>5. QueueIsQueued' /\ OneWorkerPerRunningTask'
    BY <1>1, <1>2 DEF IInv, QueueIsQueued, OneWorkerPerRunningTask, pool
<1>6. Bookkeeping'
    <2>1. io'.op = io.op \/ (phase = "up" /\ io'.op = "save" /\ io.op = "none")
        BY DEF IInv, TypeOK, Shutdown, WriteIndex, WriteTask, record_tool_metadata, Refuses, Free,
               Idle, PersistTask
    <2>2. phase = "down" => io' = Idle
        BY DEF IInv, Bookkeeping, Shutdown, WriteIndex, WriteTask, record_tool_metadata, Free, Idle
    <2>3. io'.op = "add" => io'.id = io.id /\ io.op = "add"
        BY DEF IInv, TypeOK, Shutdown, WriteIndex, WriteTask, record_tool_metadata, Refuses, PersistTask
    <2>4. IsInjective(disk_queue')
        BY DEF IInv, Bookkeeping, QueueIsQueued, Shutdown, WriteIndex, WriteTask,
               record_tool_metadata, durable
    <2> QED BY <1>2, <2>1, <2>2, <2>3, <2>4 DEF IInv, Bookkeeping, pool
<1> QED BY <1>4, <1>5, <1>6 DEF IInv

\* The mutex is released, or given up after a failed write.
LEMMA ReleaseIInv ==
    ASSUME IInv, Release \/ (WriteFails /\ io.op # "boot")
    PROVE  IInv'
<1>1. /\ io' = Idle /\ phase' \in {"up", phase}
      /\ phase # phase' => io.op = "boot"
      /\ UNCHANGED <<stopped, memory, token, job, exec, result, events, permit, durable,
                     acked, crashes>>
    BY DEF Release, WriteFails, IInv, Bookkeeping, Idle, waking, TypeOK
<1>2. \A w \in Workers : /\ pc'[w] \in PC
                         /\ pc'[w] \in Busy <=> pc[w] \in Busy
                         /\ pc'[w] = "drain" => pc[w] = "drain"
    <2>1. CASE Release /\ io.op = "boot"
        <3>1. \A w \in Workers : pc[w] = "off" /\ pc'[w] = "top"
            BY <2>1 DEF IInv, Bookkeeping, Release, TypeOK
        <3> QED BY <3>1 DEF PC, Busy
    <2>2. CASE io.op # "boot"
        <3>1. \A w \in Workers : pc[w] \in PC /\ pc'[w] \in {pc[w], Resume(w)}
            BY <2>2 DEF Release, WriteFails, IInv, TypeOK
        <3> QED BY <3>1 DEF Resume, PC, Busy
    <2> QED BY <2>1, <2>2
<1>3. notifying' \subseteq Tasks
    BY DEF IInv, TypeOK, Bookkeeping, Release, WriteFails, waking
<1>4. pc' \in [Workers -> PC]
    <2>1. pc' = [w \in Workers |-> pc'[w]]
        BY DEF Release, WriteFails
    <2> QED BY <1>2, <2>1
<1>5. TypeOK'
    BY <1>1, <1>3, <1>4 DEF IInv, TypeOK, memory, durable, Idle
<1>6. QueueIsQueued'
    BY <1>1 DEF IInv, QueueIsQueued, memory
<1>7. OneWorkerPerRunningTask'
    BY <1>1, <1>2 DEF IInv, OneWorkerPerRunningTask, memory
<1>8. Bookkeeping'
    <2>1. phase' = "up"
        BY DEF IInv, Bookkeeping, Release, WriteFails, Idle, TypeOK
    <2> QED BY <1>1, <1>2, <2>1 DEF IInv, Bookkeeping, Idle, durable
<1> QED BY <1>5, <1>6, <1>7, <1>8 DEF IInv

LEMMA AddIInv ==
    ASSUME IInv, NEW t \in Tasks, add_task(t)
    PROVE  IInv'
<1>1. /\ tasks' \in [Tasks -> Record] /\ tasks'[t].status = "Queued"
      /\ tasks[t].status = "absent"
      /\ \A u \in Tasks \ {t} : tasks'[u] = tasks[u]
    BY DEF IInv, TypeOK, add_task, Fresh, Absent, Record, Status
<1>2. t \notin Range(queue)
    BY <1>1 DEF IInv, QueueIsQueued
<1>3. queue' \in Seq(Tasks) /\ IsInjective(queue') /\ Range(queue') = Range(queue) \cup {t}
    BY <1>2, AppendFresh DEF IInv, TypeOK, QueueIsQueued, add_task
<1>4. TypeOK'
    BY <1>1, <1>3, PersistAllType DEF IInv, TypeOK, add_task, pool, waking, durable
<1>5. QueueIsQueued'
    BY <1>1, <1>3 DEF IInv, QueueIsQueued
<1>6. OneWorkerPerRunningTask'
    BY <1>1 DEF IInv, OneWorkerPerRunningTask, add_task, pool
<1>7. Bookkeeping'
    BY PersistAllType DEF IInv, Bookkeeping, add_task, Free, pool, durable
<1> QED BY <1>4, <1>5, <1>6, <1>7 DEF IInv

LEMMA AcknowledgeIInv ==
    ASSUME IInv, NEW t \in Tasks, Acknowledge(t)
    PROVE  IInv'
<1>1. /\ permit' \in BOOLEAN /\ pc' \in [Workers -> PC]
      /\ \A w \in Workers : pc'[w] = pc[w] \/ (pc[w] = "parked" /\ pc'[w] = "top")
    <2>1. permit \in BOOLEAN /\ pc \in [Workers -> PC] /\ "top" \in PC
        BY DEF IInv, TypeOK, PC
    <2>2. CASE permit' = TRUE /\ UNCHANGED pc
        BY <2>1, <2>2
    <2>3. ASSUME NEW w \in Workers, pc[w] = "parked", pc' = [pc EXCEPT ![w] = "top"], UNCHANGED permit
          PROVE  /\ permit' \in BOOLEAN /\ pc' \in [Workers -> PC]
                 /\ \A v \in Workers : pc'[v] = pc[v] \/ (pc[v] = "parked" /\ pc'[v] = "top")
        BY <2>1, <2>3
    <2> QED BY <2>2, <2>3 DEF Acknowledge, notify_one, Waiters
<1>2. TypeOK'
    BY <1>1 DEF IInv, TypeOK, Acknowledge, memory, durable
<1>3. QueueIsQueued'
    BY DEF IInv, QueueIsQueued, Acknowledge, memory
<1>4. OneWorkerPerRunningTask'
    BY <1>1 DEF IInv, OneWorkerPerRunningTask, Acknowledge, memory, Busy
<1>5. Bookkeeping'
    BY <1>1 DEF IInv, Bookkeeping, Acknowledge, durable
<1> QED BY <1>2, <1>3, <1>4, <1>5 DEF IInv

LEMMA CancelIInv ==
    ASSUME IInv, NEW t \in Tasks, cancel_task(t)
    PROVE  IInv'
<1>1. /\ tasks' \in [Tasks -> Record]
      /\ tasks'[t].status = (IF tasks[t].status = "Queued" THEN "Canceled" ELSE tasks[t].status)
      /\ \A u \in Tasks \ {t} : tasks'[u].status = tasks[u].status
    <2> DEFINE s == IF tasks[t].status = "Queued" THEN "Canceled" ELSE tasks[t].status
    <2>1. tasks \in [Tasks -> Record] /\ s \in Status \cup {"absent"}
        BY DEF IInv, TypeOK, Record, Status, Terminal
    <2>2. tasks' = [tasks EXCEPT ![t].status = s]
        BY DEF cancel_task
    <2> QED BY <2>1, <2>2, SetStatus DEF cancel_task
<1>2. /\ queue' \in Seq(Tasks) /\ IsInjective(queue')
      /\ Range(queue') = {u \in Tasks : tasks'[u].status = "Queued"}
    <2>1. CASE tasks[t].status = "Queued"
        <3>1. queue' \in Retained(queue, Tasks \ {t})
            BY <2>1 DEF cancel_task
        <3>2. queue' \in Seq(Tasks) /\ IsInjective(queue')
              /\ Range(queue') = Range(queue) \cap (Tasks \ {t})
            BY <3>1, RetainedKeeps DEF IInv, TypeOK, QueueIsQueued
        <3> QED BY <1>1, <2>1, <3>2 DEF IInv, QueueIsQueued
    <2>2. CASE tasks[t].status # "Queued"
        BY <1>1, <2>2 DEF IInv, TypeOK, QueueIsQueued, cancel_task
    <2> QED BY <2>1, <2>2
<1>3. token' \in [Workers -> BOOLEAN]
    BY DEF cancel_task
<1>4. TypeOK'
    BY <1>1, <1>2, <1>3, PersistAllType DEF IInv, TypeOK, cancel_task, waking, durable
<1>5. QueueIsQueued'
    BY <1>2 DEF QueueIsQueued
<1>6. OneWorkerPerRunningTask'
    BY <1>1 DEF IInv, OneWorkerPerRunningTask, cancel_task
<1>7. Bookkeeping'
    BY PersistAllType DEF IInv, Bookkeeping, cancel_task, Free, durable
<1> QED BY <1>4, <1>5, <1>6, <1>7 DEF IInv

\* Steps of a worker that keep its task and the records of all tasks.
LEMMA WorkerMovesIInv ==
    ASSUME IInv, NEW w \in Workers,
           WorkerExits(w) \/ FindsNothing(w) \/ Waits(w) \/ Executor(w)
    PROVE  IInv'
<1>1. phase = "up"
    BY DEF IInv, TypeOK, Bookkeeping, WorkerExits, FindsNothing, Free, Waits, Executor,
           ExecutorSends, ExecutorReturns, ExecutorPanics
<1>2. /\ UNCHANGED <<phase, stopped, memory, token, job, io, notifying, durable, acked, crashes>>
      /\ permit' \in BOOLEAN
    BY DEF IInv, TypeOK, WorkerExits, FindsNothing, Waits, Executor, ExecutorSends,
           ExecutorReturns, ExecutorPanics, waking
<1>3. PICK p \in PC : /\ pc' = [pc EXCEPT ![w] = p] /\ (p \in Busy <=> pc[w] \in Busy)
                      /\ p = "drain" => pc[w] = "drain" \/ result'[w] \in Terminal
    <2>1. CASE WorkerExits(w)
        BY <2>1 DEF WorkerExits, ExitPoints, PC, Busy
    <2>2. CASE FindsNothing(w)
        BY <2>2 DEF FindsNothing, PC, Busy
    <2>3. CASE Waits(w)
        <3>1. CASE permit
            BY <2>3, <3>1 DEF Waits, PC, Busy
        <3>2. CASE ~permit
            BY <2>3, <3>2 DEF Waits, PC, Busy
        <3> QED BY <3>1, <3>2
    <2>4. CASE ExecutorSends(w)
        <3>1. pc' = [pc EXCEPT ![w] = pc[w]] /\ pc[w] \in PC
            <4>1. pc' = pc /\ pc \in [Workers -> PC]
                BY <2>4 DEF IInv, TypeOK, ExecutorSends
            <4> QED BY <4>1
        <3>2. pc[w] # "drain"
            BY <2>4 DEF ExecutorSends
        <3> QED BY <3>1, <3>2
    <2>5. CASE ExecutorReturns(w)
        BY <2>5 DEF IInv, TypeOK, ExecutorReturns, PC, Busy
    <2>6. CASE ExecutorPanics(w)
        BY <2>6 DEF ExecutorPanics, PC, Busy
    <2>7. WorkerExits(w) \/ FindsNothing(w) \/ Waits(w) \/ ExecutorSends(w)
          \/ ExecutorReturns(w) \/ ExecutorPanics(w)
        BY DEF Executor
    <2> QED BY <2>1, <2>2, <2>3, <2>4, <2>5, <2>6, <2>7
<1>4. \A v \in Workers : pc'[v] = (IF v = w THEN p ELSE pc[v])
    BY <1>3 DEF IInv, TypeOK
<1>5. /\ exec' \in [Workers -> {"idle", "opened", "closed"}]
      /\ events' \in [Workers -> Seq(ToolEvents)]
    <2>1. CASE ExecutorSends(w)
        <3>1. PICK e \in ToolEvents :
                 /\ events' = [events EXCEPT ![w] = Append(@, e)]
                 /\ exec' \in [Workers -> {"idle", "opened", "closed"}]
            BY <2>1 DEF IInv, TypeOK, ExecutorSends, ToolEvents
        <3>2. /\ events \in [Workers -> Seq(ToolEvents)]
              /\ Append(events[w], e) \in Seq(ToolEvents)
            BY AppendProperties DEF IInv, TypeOK
        <3> QED BY <3>1, <3>2
    <2>2. CASE ~ExecutorSends(w)
        BY <2>2 DEF IInv, TypeOK, WorkerExits, FindsNothing, Waits, Executor, ExecutorReturns,
                    ExecutorPanics
    <2> QED BY <2>1, <2>2
<1>6. /\ result' \in [Workers -> Terminal \cup {"none"}]
      /\ \A v \in Workers : result'[v] = result[v] \/ result'[v] \in Terminal
    <2>1. CASE ExecutorReturns(w)
        BY <2>1 DEF IInv, TypeOK, ExecutorReturns
    <2>2. CASE ~ExecutorReturns(w)
        BY <2>2 DEF IInv, TypeOK, WorkerExits, FindsNothing, Waits, Executor, ExecutorSends,
                    ExecutorPanics
    <2> QED BY <2>1, <2>2
<1>7. TypeOK'
    BY <1>2, <1>3, <1>5, <1>6 DEF IInv, TypeOK, memory, durable
<1>8. QueueIsQueued' /\ OneWorkerPerRunningTask'
    BY <1>2, <1>3, <1>4 DEF IInv, QueueIsQueued, OneWorkerPerRunningTask, memory
<1>9. Bookkeeping'
    BY <1>1, <1>2, <1>3, <1>4, <1>6 DEF IInv, Bookkeeping, durable
<1> QED BY <1>7, <1>8, <1>9 DEF IInv

LEMMA PopsIInv ==
    ASSUME IInv, NEW w \in Workers, Pops(w)
    PROVE  IInv'
<1> DEFINE t == Head(queue)
<1>1. /\ t \in Tasks /\ t \in Range(queue) /\ queue' \in Seq(Tasks) /\ IsInjective(queue')
      /\ Range(queue') = Range(queue) \ {t}
    BY TailDrops DEF IInv, TypeOK, QueueIsQueued, Pops
<1>2. tasks[t].status = "Queued"
    BY <1>1 DEF IInv, QueueIsQueued
<1>3. /\ pc[w] = "top" /\ job[w] = NoTask /\ phase = "up" /\ io = Idle
      /\ tasks' = [tasks EXCEPT ![t].status = "Running"]
      /\ running_cancel' = [running_cancel EXCEPT ![t] = w]
      /\ pc' = [pc EXCEPT ![w] = "start"]
      /\ job' = [job EXCEPT ![w] = t]
      /\ io' = PersistAll("save", NoTask, w, tasks')
      /\ UNCHANGED <<phase, stopped, ahead, token, exec, result, events, waking, durable, acked, crashes>>
    BY <1>2 DEF IInv, OneWorkerPerRunningTask, Busy, Pops, Free
<1>4. /\ tasks' \in [Tasks -> Record]
      /\ \A u \in Tasks : tasks'[u].status = (IF u = t THEN "Running" ELSE tasks[u].status)
    <2>1. tasks \in [Tasks -> Record] /\ "Running" \in Status \cup {"absent"}
        BY DEF IInv, TypeOK, Status
    <2> HIDE DEF t
    <2> QED BY <1>1, <1>3, <2>1, SetStatus
<1>5. TypeOK'
    BY <1>1, <1>3, <1>4, PersistAllType DEF IInv, TypeOK, PC, Busy, waking, durable
<1>6. QueueIsQueued'
    BY <1>1, <1>4 DEF IInv, QueueIsQueued
<1>7. \A v \in Workers : job[v] # t /\ running_cancel[t] # v
    BY <1>1, <1>2 DEF IInv, OneWorkerPerRunningTask
<1>8. /\ \A v \in Workers : job'[v] = (IF v = w THEN t ELSE job[v])
      /\ \A v \in Workers : pc'[v] = (IF v = w THEN "start" ELSE pc[v])
      /\ \A u \in Tasks : running_cancel'[u] = (IF u = t THEN w ELSE running_cancel[u])
    BY <1>1, <1>3 DEF IInv, TypeOK
<1>9. OneWorkerPerRunningTask'
    BY <1>1, <1>3, <1>4, <1>7, <1>8 DEF IInv, OneWorkerPerRunningTask, Busy
<1>10. Bookkeeping'
    BY <1>3, <1>8, PersistAllType DEF IInv, Bookkeeping, Idle, durable
<1> QED BY <1>5, <1>6, <1>9, <1>10 DEF IInv

LEMMA EventIInv ==
    ASSUME IInv, NEW w \in Workers, apply_execution_event(w)
    PROVE  IInv'
<1>1. /\ job[w] \in Tasks /\ events[w] \in Seq(ToolEvents)
      /\ Tail(events[w]) \in Seq(ToolEvents)
    BY HeadTailProperties DEF IInv, TypeOK, OneWorkerPerRunningTask, Busy, apply_execution_event
<1>2. /\ tasks' \in [Tasks -> Record] /\ ahead' \subseteq Tasks
      /\ \A u \in Tasks : tasks'[u].status = tasks[u].status
    <2> DEFINE e == Head(events[w])
               t == job[w]
    <2>1. tasks \in [Tasks -> Record] /\ ahead \subseteq Tasks /\ e \in ToolEvents
        BY <1>1, HeadTailProperties DEF IInv, TypeOK, apply_execution_event
    <2>2. /\ tasks' = tasks \/ tasks' = [tasks EXCEPT ![t] = Applied(@, e)]
          /\ ahead' = ahead \/ ahead' = ahead \cup {t}
        BY DEF apply_execution_event, Refuses
    <2>3. t \in Tasks
        BY <1>1
    <2> HIDE DEF e, t
    <2>4. CASE tasks' = tasks
        BY <2>1, <2>2, <2>3, <2>4
    <2>5. CASE tasks' = [tasks EXCEPT ![t] = Applied(@, e)]
        BY <2>1, <2>2, <2>3, <2>5, SetApplied
    <2> QED BY <2>2, <2>4, <2>5
<1>3. io' = io \/ io' = PersistTask(job[w], w)
    BY DEF apply_execution_event, Refuses
<1>4. TypeOK'
    <2>1. events' \in [Workers -> Seq(ToolEvents)]
        BY <1>1 DEF IInv, TypeOK, apply_execution_event
    <2>2. io' \in [op : {"none", "boot", "add", "save"},
                  id : Tasks \cup {NoTask}, by : Workers \cup {NoWorker},
                  index : BOOLEAN, files : SUBSET Tasks]
        <3>1. CASE io' = io
            BY <3>1 DEF IInv, TypeOK
        <3>2. CASE io' = PersistTask(job[w], w)
            BY <1>1, <3>2 DEF PersistTask
        <3> QED BY <1>3, <3>1, <3>2
    <2> QED BY <1>2, <2>1, <2>2
            DEF IInv, TypeOK, apply_execution_event, waking, durable
<1>5. QueueIsQueued'
    BY <1>2 DEF IInv, QueueIsQueued, apply_execution_event
<1>6. OneWorkerPerRunningTask'
    BY <1>2 DEF IInv, OneWorkerPerRunningTask, apply_execution_event
<1>7. Bookkeeping'
    BY <1>3 DEF IInv, Bookkeeping, apply_execution_event, PersistTask, Free, Idle, durable
<1> QED BY <1>4, <1>5, <1>6, <1>7 DEF IInv

LEMMA FinishIInv ==
    ASSUME IInv, NEW w \in Workers, finish_task(w)
    PROVE  IInv'
<1> DEFINE t == job[w]
<1>1. /\ t \in Tasks /\ tasks[t].status = "Running" /\ phase = "up" /\ io = Idle
      /\ Outcome(w) \in Terminal
    BY DEF IInv, TypeOK, OneWorkerPerRunningTask, Bookkeeping, Busy, finish_task, Free, Outcome,
           Terminal
<1>2. PICK p \in {"top", "finish"} : pc' = [pc EXCEPT ![w] = p]
    BY DEF finish_task
<1>3. io' = io \/ io' = PersistAll("save", NoTask, w, tasks')
    BY DEF finish_task
<1>4. /\ tasks' \in [Tasks -> Record]
      /\ \A u \in Tasks : tasks'[u].status = (IF u = t THEN Outcome(w) ELSE tasks[u].status)
    <2>1. tasks \in [Tasks -> Record] /\ Outcome(w) \in Status \cup {"absent"}
        BY <1>1 DEF IInv, TypeOK, Status
    <2>2. tasks' = [tasks EXCEPT ![t].status = Outcome(w)]
        BY DEF finish_task
    <2> HIDE DEF t
    <2> QED BY <1>1, <2>1, <2>2, SetStatus
<1>5. /\ \A v \in Workers : job'[v] = (IF v = w THEN NoTask ELSE job[v])
      /\ \A v \in Workers : pc'[v] = (IF v = w THEN p ELSE pc[v])
      /\ \A v \in Workers : result'[v] = (IF v = w THEN "none" ELSE result[v])
      /\ \A u \in Tasks : running_cancel'[u] = (IF u = t THEN NoWorker ELSE running_cancel[u])
    BY <1>1, <1>2 DEF IInv, TypeOK, finish_task
<1>6. TypeOK'
    BY <1>1, <1>2, <1>3, <1>4, PersistAllType
       DEF IInv, TypeOK, finish_task, PC, Busy, waking, durable
<1>7. QueueIsQueued'
    BY <1>1, <1>4 DEF IInv, QueueIsQueued, finish_task, Terminal
<1>8. \A v \in Workers : job[v] = t => v = w
    BY <1>1 DEF IInv, OneWorkerPerRunningTask
<1>9. OneWorkerPerRunningTask'
    BY <1>1, <1>2, <1>4, <1>5, <1>8 DEF IInv, OneWorkerPerRunningTask, Busy, Terminal
<1>10. Bookkeeping'
    BY <1>1, <1>2, <1>3, <1>5, PersistAllType
       DEF IInv, Bookkeeping, finish_task, Idle, durable
<1> QED BY <1>6, <1>7, <1>9, <1>10 DEF IInv

-----------------------------------------------------------------------------
LEMMA NextIInv == IInv /\ [Next]_vars => IInv'
<1> SUFFICES ASSUME IInv, [Next]_vars PROVE IInv'
    OBVIOUS
<1>1. CASE Boot
    BY <1>1, BootIInv
<1>2. CASE Crash
    BY <1>2, LostIInv DEF IInv, TypeOK, Crash
<1>3. CASE Client
    BY <1>3, SaveIInv, AddIInv, CancelIInv DEF Client
<1>4. CASE Persist
    BY <1>4, SaveIInv, ReleaseIInv DEF Persist
<1>5. CASE WriteFails
    <2>1. io.op = "boot" => Lost /\ crashes' \in 0..MaxCrashes
        BY <1>5 DEF WriteFails, IInv, TypeOK
    <2> QED BY <1>5, <2>1, LostIInv, ReleaseIInv
<1>6. ASSUME NEW t \in Tasks, Acknowledge(t) PROVE IInv'
    BY <1>6, AcknowledgeIInv
<1>7. ASSUME NEW w \in Workers, worker_loop(w) \/ Executor(w) PROVE IInv'
    BY <1>7, WorkerMovesIInv, PopsIInv, EventIInv, FinishIInv DEF worker_loop
<1>8. CASE UNCHANGED vars
    BY <1>8 DEF IInv, TypeOK, QueueIsQueued, OneWorkerPerRunningTask, Bookkeeping, vars,
                memory, pool, waking, durable
<1> QED BY <1>1, <1>2, <1>3, <1>4, <1>5, <1>6, <1>7, <1>8 DEF Next

\* Every variable keeps its type.
THEOREM TypeCorrect == Spec => []TypeOK
<1>1. IInv => TypeOK
    BY DEF IInv
<1> QED BY InitIInv, NextIInv, <1>1, PTL DEF Spec

\* The queue of the task manager holds the queued tasks, each once, whatever
\* crashes, failed writes and panics happen.
THEOREM QueueIsExact == Spec => []QueueIsQueued
<1>1. IInv => QueueIsQueued
    BY DEF IInv
<1> QED BY InitIInv, NextIInv, <1>1, PTL DEF Spec

\* No task is ever run by two workers, and a cancel reaches the run it is for.
THEOREM RunsAreExclusive == Spec => []OneWorkerPerRunningTask
<1>1. IInv => OneWorkerPerRunningTask
    BY DEF IInv
<1> QED BY InitIInv, NextIInv, <1>1, PTL DEF Spec
=============================================================================
