------------------------- MODULE TaskDurabilityProofs -------------------------
(***************************************************************************)
(* Theorems about TaskManager that relate memory, files and wake-ups: what *)
(* survives a crash, that the files implement TaskBoard, and the order in  *)
(* which runs end.  Those that a failed write breaks assume that "disk" is *)
(* not in Faults; panics and crashes are always allowed.                   *)
(***************************************************************************)
EXTENDS TaskManagerProofs

USE TaskManagerAssumption

\* The changes of a status that one record of TaskBoard may make in one step.
BoardMoves ==
    {<<"absent", "Queued">>, <<"Queued", "Running">>, <<"Queued", "Canceled">>,
     <<"Running", "Queued">>} \cup ({"Running"} \X Terminal)
Moves(r, s) == r.status = s.status \/ <<r.status, s.status>> \in BoardMoves

\* The steps that change what the manager knows, all of them under the mutex.
Changes ==
    \/ \E t \in Tasks : add_task(t) \/ cancel_task(t) \/ record_tool_metadata(t)
    \/ \E w \in Workers : Pops(w) \/ apply_execution_event(w) \/ finish_task(w)

\* The steps that touch neither memory nor files nor the mutex.
Quiet ==
    /\ UNCHANGED <<phase, memory, durable, io>>
    /\ acked' \cup notifying' = acked \cup notifying

\* Whatever happens, an acknowledged task is on disk and a manager that is up
\* knows it; so does one whose acknowledgement is still to come, or becomes so
\* before the mutex is released.
AckedIsSaved ==
    /\ \A t \in acked \cup notifying :
          /\ disk[t].status # "absent"
          /\ phase # "down" => tasks[t].status # "absent"
    /\ io.op = "add" => /\ tasks[io.id].status # "absent"
                        /\ io.id \in io.files \/ disk[io.id].status # "absent"

\* Memory never disagrees with a final status on disk.
FinalIsShared ==
    phase # "down" =>
        \A t \in Tasks : disk[t].status \in Terminal => tasks[t].status = disk[t].status

\* Without failing writes the files lag only where the holder of the mutex has
\* still to write, and at most one move per task; elsewhere they lack no more than
\* the parts of a refused update.
Agree(saved, r, t) == saved.status = r.status /\ (t \notin ahead => saved = r)
MemoryIsAhead ==
    phase # "down" =>
        /\ \A t \in Tasks : t \notin io.files => Agree(disk[t], tasks[t], t)
        /\ \A t \in Tasks : Moves(disk[t], tasks[t])
        /\ ~io.index => disk_queue = queue

\* The last event of an executor is either still in the channel or applied.
EventsInOrder ==
    \A w \in Workers :
        /\ pc[w] \notin Busy => exec[w] = "idle"
        /\ exec[w] # "idle" =>
              \/ events[w] = <<>> /\ tasks[job[w]].last = LastSent(w)
              \/ events[w] # <<>> /\ events[w][Len(events[w])] = LastSent(w)

\* When all workers sleep although something is queued, a wake-up is under way;
\* a permit is stored only while nobody waits.
WakeUpIsPending ==
    /\ Waiters # {} => ~permit
    /\ (\A w \in Workers : pc[w] \in {"sleepy", "parked"}) /\ queue # <<>> =>
          io.op = "add" \/ notifying # {} \/ permit

-----------------------------------------------------------------------------
(* The steps, sorted by what they do to memory and files.                  *)

LEMMA StepKinds ==
    ASSUME IInv, [Next]_vars
    PROVE  \/ Boot \/ Lost \/ Changes \/ Quiet
           \/ WriteIndex \/ (\E t \in Tasks : WriteTask(t))
           \/ Release \/ (WriteFails /\ io.op # "boot")
<1>1. CASE Boot \/ Crash
    BY <1>1 DEF Crash
<1>2. CASE Client
    BY <1>2 DEF Client, Shutdown, Changes, Quiet, waking
<1>3. CASE Persist
    BY <1>3 DEF Persist
<1>4. CASE WriteFails
    BY <1>4 DEF WriteFails
<1>5. ASSUME NEW t \in Tasks, Acknowledge(t) PROVE Quiet
    BY <1>5 DEF Acknowledge, Quiet
<1>6. ASSUME NEW w \in Workers, worker_loop(w) PROVE Changes \/ Quiet
    BY <1>6 DEF worker_loop, Changes, Quiet, WorkerExits, FindsNothing, Waits, waking
<1>7. ASSUME NEW w \in Workers, Executor(w) PROVE Quiet
    BY <1>7 DEF Executor, ExecutorSends, ExecutorReturns, ExecutorPanics, Quiet, waking
<1>8. CASE UNCHANGED vars
    BY <1>8 DEF vars, Quiet, waking
<1> QED BY <1>1, <1>2, <1>3, <1>4, <1>5, <1>6, <1>7, <1>8 DEF Next

\* A save of every known task covers every record that is there.
LEMMA PersistAllCovers ==
    ASSUME NEW op, NEW id, NEW by, NEW ts
    PROVE  /\ PersistAll(op, id, by, ts).index = TRUE
           /\ PersistAll(op, id, by, ts).by = by
           /\ \A u \in Tasks :
                 u \in PersistAll(op, id, by, ts).files <=> ts[u].status # "absent"
BY DEF PersistAll

\* Setting one status leaves every timeline and the other records alone.
LEMMA SetStatusKeeps ==
    ASSUME NEW ts \in [Tasks -> Record], NEW t \in Tasks, NEW s \in Status \cup {"absent"}
    PROVE  \A u \in Tasks : /\ [ts EXCEPT ![t].status = s][u].last = ts[u].last
                            /\ u # t => [ts EXCEPT ![t].status = s][u] = ts[u]
<1>1. [ts[t] EXCEPT !.status = s].last = ts[t].last
    BY DEF Record
<1> QED BY <1>1
\* What a change does: one task makes one move of the board, no file is touched,
\* and what differs from the files is what the save that follows will write, or what
\* a refused update left.
LEMMA ChangesOneTask ==
    ASSUME IInv, Changes
    PROVE  /\ phase = "up" /\ phase' = "up" /\ io = Idle
           /\ UNCHANGED <<waking, durable, acked>>
           /\ \A u \in Tasks : Moves(tasks[u], tasks'[u])
           /\ io'.op = "add" => /\ tasks'[io'.id].status = "Queued"
                                /\ io'.id \in io'.files
           /\ ahead \subseteq ahead'
           /\ "disk" \notin Faults =>
                 /\ \A u \in Tasks : u \notin io'.files =>
                       /\ tasks'[u].status = tasks[u].status
                       /\ u \notin ahead' => tasks'[u] = tasks[u]
                 /\ ~io'.index => queue' = queue
<1> USE DEF Moves
<1>1. tasks \in [Tasks -> Record] /\ \A t \in Tasks : tasks[t].status \in Status \cup {"absent"}
    BY DEF IInv, TypeOK, Record
<1>2. ASSUME NEW t \in Tasks, add_task(t)
      PROVE  /\ tasks[t].status = "absent" /\ tasks'[t].status = "Queued"
             /\ \A u \in Tasks : u # t => tasks'[u] = tasks[u]
             /\ io'.id = t /\ t \in io'.files /\ io'.index = TRUE
             /\ \A u \in Tasks : u \notin io'.files => u # t
    <2>1. tasks' = [tasks EXCEPT ![t].status = "Queued"] /\ "Queued" \in Status
        BY <1>2 DEF add_task, Status
    <2>2. tasks[t].status = "absent"
        BY <1>2 DEF add_task, Fresh, Absent
    <2>3. tasks'[t].status = "Queued" /\ \A u \in Tasks : u # t => tasks'[u] = tasks[u]
        BY <1>1, <2>1, SetStatus, SetStatusKeeps
    <2>4. io' = PersistAll("add", t, NoWorker, tasks')
        BY <1>2 DEF add_task
    <2>5. io'.id = t /\ io'.index = TRUE /\ t \in io'.files
        BY <2>3, <2>4 DEF PersistAll
    <2> QED BY <2>2, <2>3, <2>5
<1>3. ASSUME NEW t \in Tasks, cancel_task(t)
      PROVE  /\ tasks[t].status # "absent" /\ io'.op = "save" /\ io'.index = TRUE
             /\ \A u \in Tasks : Moves(tasks[u], tasks'[u])
             /\ \A u \in Tasks : u \notin io'.files => tasks'[u] = tasks[u]
    <2> DEFINE s == IF tasks[t].status = "Queued" THEN "Canceled" ELSE tasks[t].status
    <2>1. tasks' = [tasks EXCEPT ![t].status = s] /\ s \in Status \cup {"absent"}
        BY <1>1, <1>3 DEF cancel_task, Status, Terminal
    <2>2. tasks[t].status # "absent"
        BY <1>3 DEF cancel_task, Known
    <2>3. /\ \A u \in Tasks : tasks'[u].status = (IF u = t THEN s ELSE tasks[u].status)
          /\ \A u \in Tasks : u # t => tasks'[u] = tasks[u]
        <3> HIDE DEF s
        <3> QED BY <1>1, <2>1, SetStatus, SetStatusKeeps
    <2>4. io' = PersistAll("save", NoTask, NoWorker, tasks')
        BY <1>3 DEF cancel_task
    <2>5. io'.op = "save" /\ io'.index = TRUE
          /\ \A u \in Tasks : u \in io'.files <=> tasks'[u].status # "absent"
        BY <2>4 DEF PersistAll
    <2>6. \A u \in Tasks : Moves(tasks[u], tasks'[u])
        BY <2>3 DEF BoardMoves
    <2> QED BY <2>2, <2>3, <2>5, <2>6
<1>4. ASSUME NEW t \in Tasks, record_tool_metadata(t)
      PROVE  tasks' = tasks /\ queue' = queue /\ io'.op # "add"
    BY <1>1, <1>4 DEF record_tool_metadata, Refuses, Free, Idle, PersistTask
<1>5. ASSUME NEW w \in Workers, Pops(w)
      PROVE  /\ io'.op = "save" /\ io'.index = TRUE
             /\ \A u \in Tasks : Moves(tasks[u], tasks'[u])
             /\ \A u \in Tasks : u \notin io'.files => tasks'[u] = tasks[u]
    <2> DEFINE t == Head(queue)
    <2>1. t \in Tasks /\ tasks[t].status = "Queued"
        BY <1>5, TailDrops DEF IInv, TypeOK, QueueIsQueued, Pops
    <2>2. tasks' = [tasks EXCEPT ![t].status = "Running"] /\ "Running" \in Status
          /\ io' = PersistAll("save", NoTask, w, tasks')
        BY <1>5, <2>1 DEF Pops, Status
    <2> HIDE DEF t
    <2>3. /\ tasks'[t].status = "Running"
          /\ \A u \in Tasks : u # t => tasks'[u] = tasks[u]
        BY <1>1, <2>1, <2>2, SetStatus, SetStatusKeeps
    <2>4. io'.op = "save" /\ io'.index = TRUE
          /\ \A u \in Tasks : u \in io'.files <=> tasks'[u].status # "absent"
        BY <2>2 DEF PersistAll
    <2>5. \A u \in Tasks : Moves(tasks[u], tasks'[u])
        BY <2>1, <2>3 DEF BoardMoves
    <2> QED BY <2>1, <2>3, <2>4, <2>5
<1>6. ASSUME NEW w \in Workers, apply_execution_event(w)
      PROVE  /\ queue' = queue /\ io'.op # "add"
             /\ \A u \in Tasks : tasks'[u].status = tasks[u].status
             /\ "disk" \notin Faults =>
                   \A u \in Tasks : u \notin io'.files /\ u \notin ahead' => tasks'[u] = tasks[u]
    <2> DEFINE t == job[w]
               e == Head(events[w])
    <2>1. /\ t \in Tasks /\ e \in ToolEvents /\ queue' = queue
          /\ io.op # "add"
        BY <1>6, HeadTailProperties DEF IInv, TypeOK, OneWorkerPerRunningTask, Busy,
                                        apply_execution_event, Free, Idle
    <2>2. \/ tasks' = tasks /\ io' = io
          \/ io' = PersistTask(t, w) /\ tasks' = [tasks EXCEPT ![t] = Applied(@, e)]
          \/ io' = io /\ tasks' = [tasks EXCEPT ![t] = Applied(@, e)] /\ ahead' = ahead \cup {t}
        BY <1>6 DEF apply_execution_event, Refuses
    <2> HIDE DEF t, e
    <2>3. CASE tasks' = tasks /\ io' = io
        BY <2>1, <2>3
    <2>4. CASE tasks' = [tasks EXCEPT ![t] = Applied(@, e)]
        <3>1. \A u \in Tasks : tasks'[u].status = tasks[u].status
            BY <1>1, <2>1, <2>4, SetApplied
        <3>2. \A u \in Tasks : u # t => tasks'[u] = tasks[u]
            BY <1>1, <2>4
        <3>3. CASE io' = PersistTask(t, w)
            BY <2>1, <3>1, <3>2, <3>3 DEF PersistTask
        <3>4. CASE io' = io /\ ahead' = ahead \cup {t}
            BY <2>1, <3>1, <3>2, <3>4
        <3>5. CASE tasks' = tasks /\ io' = io
            BY <2>1, <3>5
        <3> QED BY <2>2, <3>3, <3>4, <3>5
    <2> QED BY <2>2, <2>3, <2>4
<1>7. ASSUME NEW w \in Workers, finish_task(w)
      PROVE  /\ queue' = queue /\ io'.op # "add"
             /\ \A u \in Tasks : Moves(tasks[u], tasks'[u])
             /\ "disk" \notin Faults =>
                   \A u \in Tasks : u \notin io'.files => tasks'[u] = tasks[u]
    <2> DEFINE t == job[w]
               s == Outcome(w)
    <2>1. t \in Tasks /\ tasks[t].status = "Running" /\ s \in Terminal
        BY <1>7 DEF IInv, TypeOK, OneWorkerPerRunningTask, Bookkeeping, Busy, finish_task, Free,
                    Outcome, Terminal
    <2>2. tasks' = [tasks EXCEPT ![t].status = s] /\ queue' = queue /\ io = Idle
        BY <1>7 DEF finish_task, Free
    <2>3. \/ io' = PersistAll("save", NoTask, w, tasks')
          \/ io' = io /\ "disk" \in Faults
        BY <1>7 DEF finish_task
    <2> HIDE DEF t, s
    <2>4. s \in Status \cup {"absent"} /\ s # "absent"
        BY <2>1 DEF Status, Terminal
    <2>5. /\ tasks'[t].status = s
          /\ \A u \in Tasks : u # t => tasks'[u] = tasks[u]
        BY <1>1, <2>1, <2>2, <2>4, SetStatus, SetStatusKeeps
    <2>6. io'.op # "add"
        BY <2>2, <2>3 DEF PersistAll, Idle
    <2>7. "disk" \notin Faults =>
              \A u \in Tasks : u \in io'.files <=> tasks'[u].status # "absent"
        BY <2>3 DEF PersistAll
    <2>8. \A u \in Tasks : Moves(tasks[u], tasks'[u])
        BY <2>1, <2>5 DEF BoardMoves
    <2> QED BY <2>1, <2>2, <2>4, <2>5, <2>6, <2>7, <2>8
<1>8. /\ phase = "up" /\ phase' = "up" /\ io = Idle
      /\ UNCHANGED <<waking, durable, acked>> /\ ahead \subseteq ahead'
    BY DEF Changes, Refuses, Free, add_task, cancel_task, record_tool_metadata, Pops,
           apply_execution_event, finish_task
<1>9. CASE \E t \in Tasks : add_task(t)
    BY <1>2, <1>8, <1>9 DEF BoardMoves
<1>10. CASE \E w \in Workers : Pops(w) \/ apply_execution_event(w) \/ finish_task(w)
    BY <1>5, <1>6, <1>7, <1>8, <1>10
<1>11. CASE \E t \in Tasks : cancel_task(t) \/ record_tool_metadata(t)
    BY <1>3, <1>4, <1>8, <1>11
<1> QED BY <1>9, <1>10, <1>11 DEF Changes

-----------------------------------------------------------------------------
(* What survives, whatever fails.                                          *)

DurableInv == IInv /\ AckedIsSaved /\ FinalIsShared

LEMMA InitDurable == Init => DurableInv
BY InitIInv DEF Init, DurableInv, AckedIsSaved, FinalIsShared, Idle

\* A crash, or a start that fails, forgets what was still to be acknowledged.
LEMMA LostDurable ==
    ASSUME DurableInv, Lost
    PROVE  AckedIsSaved' /\ FinalIsShared'
BY DEF DurableInv, Lost, AckedIsSaved, FinalIsShared, durable, Idle

LEMMA NextAckedIsSaved ==
    ASSUME DurableInv, [Next]_vars
    PROVE  AckedIsSaved'
<1> USE DEF DurableInv
<1>1. /\ acked \subseteq Tasks /\ notifying \subseteq Tasks
      /\ tasks \in [Tasks -> Record] /\ disk \in [Tasks -> Record]
      /\ io.op = "add" => io.id \in Tasks
    BY DEF IInv, TypeOK, Bookkeeping
<1>2. CASE Boot
    <2>1. \A t \in Tasks : disk[t].status # "absent" => tasks'[t].status # "absent"
        <3>1. ASSUME NEW t \in Tasks, disk[t].status # "absent"
              PROVE  Recovered(disk[t]).status # "absent"
            <4>1. disk[t] \in Record
                BY <1>1
            <4> QED BY <3>1, <4>1 DEF Recovered, Record
        <3> QED BY <1>2, <3>1 DEF Boot
    <2> QED BY <1>1, <1>2, <2>1 DEF Boot, AckedIsSaved, PersistAll, waking, durable
<1>3. CASE Changes
    <2>1. /\ UNCHANGED <<waking, durable, acked>> /\ phase # "down"
          /\ \A u \in Tasks : tasks[u].status # "absent" => tasks'[u].status # "absent"
          /\ io'.op = "add" => tasks'[io'.id].status # "absent" /\ io'.id \in io'.files
        BY <1>3, ChangesOneTask DEF Moves, BoardMoves, Terminal
    <2> QED BY <1>1, <2>1 DEF AckedIsSaved, waking, durable
<1>4. CASE Quiet
    BY <1>4 DEF AckedIsSaved, Quiet, memory, durable
<1>5. CASE WriteIndex
    BY <1>5 DEF AckedIsSaved, WriteIndex, memory, waking, IInv, TypeOK
<1>6. ASSUME NEW t \in Tasks, WriteTask(t) PROVE AckedIsSaved'
    <2>1. phase # "down" /\ \A u \in Tasks : disk'[u] = (IF u = t THEN tasks[t] ELSE disk[u])
        BY <1>1, <1>6 DEF WriteTask, IInv, Bookkeeping, Idle
    <2>2. /\ UNCHANGED <<phase, tasks, waking, acked>>
          /\ io'.op = io.op /\ io'.id = io.id /\ io'.files = io.files \ {t}
        BY <1>6 DEF WriteTask, IInv, TypeOK
    <2> QED BY <1>1, <2>1, <2>2 DEF AckedIsSaved, waking
<1>7. CASE Release
    <2>1. /\ UNCHANGED <<memory, durable, acked>> /\ io' = Idle /\ io.files = {} /\ phase # "down"
          /\ notifying' = IF io.op = "add" THEN notifying \cup {io.id} ELSE notifying
        BY <1>7 DEF Release, IInv, Bookkeeping
    <2> QED BY <1>1, <2>1 DEF AckedIsSaved, memory, durable, Idle
<1>8. CASE WriteFails /\ io.op # "boot"
    BY <1>8 DEF AckedIsSaved, WriteFails, memory, waking, durable, Idle
<1> QED BY <1>2, <1>3, <1>4, <1>5, <1>6, <1>7, <1>8, LostDurable, StepKinds

LEMMA NextFinalIsShared ==
    ASSUME DurableInv, [Next]_vars
    PROVE  FinalIsShared' /\ KeepsFinal
<1> USE DEF DurableInv
<1>1. tasks \in [Tasks -> Record] /\ disk \in [Tasks -> Record]
    BY DEF IInv, TypeOK
<1>2. CASE Boot
    BY <1>1, <1>2 DEF Boot, FinalIsShared, KeepsFinal, Recovered, Terminal, durable
<1>3. CASE Changes
    <2>1. /\ UNCHANGED durable /\ phase # "down"
          /\ \A u \in Tasks : tasks[u].status \in Terminal => tasks'[u].status = tasks[u].status
        BY <1>3, ChangesOneTask DEF Moves, BoardMoves, Terminal
    <2> QED BY <2>1 DEF FinalIsShared, KeepsFinal, durable
<1>4. CASE Quiet \/ WriteIndex \/ Release \/ (WriteFails /\ io.op # "boot")
    <2>1. UNCHANGED <<tasks, disk>> /\ (phase' # "down" => phase # "down" \/ tasks = tasks')
        BY <1>4 DEF Quiet, WriteIndex, Release, WriteFails, memory, durable
    <2>2. phase = "down" => phase' = "down"
        BY <1>4 DEF IInv, Bookkeeping, Quiet, WriteIndex, Release, WriteFails, Idle
    <2> QED BY <2>1, <2>2 DEF FinalIsShared, KeepsFinal
<1>5. ASSUME NEW t \in Tasks, WriteTask(t) PROVE FinalIsShared' /\ KeepsFinal
    <2>1. /\ phase # "down" /\ UNCHANGED <<phase, tasks>>
          /\ \A u \in Tasks : disk'[u] = (IF u = t THEN tasks[t] ELSE disk[u])
        BY <1>1, <1>5 DEF WriteTask, IInv, Bookkeeping, Idle
    <2> QED BY <2>1 DEF FinalIsShared, KeepsFinal
<1>6. CASE Lost
    BY <1>6, LostDurable DEF Lost, KeepsFinal, durable
<1> QED BY <1>2, <1>3, <1>4, <1>5, <1>6, StepKinds

LEMMA NextDurable == DurableInv /\ [Next]_vars => DurableInv'
BY NextIInv, NextAckedIsSaved, NextFinalIsShared DEF DurableInv

\* A task whose add_task returned Ok is in a file and, while a manager is up,
\* known to it, whatever crashes, failed writes and panics happen.
THEOREM AckedIsNeverLost == Spec => []AckedSurvives
<1>1. DurableInv => AckedSurvives
    BY DEF DurableInv, AckedIsSaved, AckedSurvives
<1> QED BY InitDurable, NextDurable, <1>1, PTL DEF Spec

\* No write, recovery or later run replaces a final status on disk.
THEOREM FinalStaysFinal == Spec => TerminalForever
<1>1. DurableInv /\ [Next]_vars => [KeepsFinal]_vars
    BY NextFinalIsShared
<1> QED BY InitDurable, NextDurable, <1>1, PTL DEF Spec, TerminalForever

\* In a manager that is up only finish_task takes a worker's task from it.
LEMMA OnlyFinishEnds ==
    ASSUME IInv, [Next]_vars, NEW w \in Workers, job[w] # NoTask, job'[w] = NoTask, phase' = "up"
    PROVE  finish_task(w)
<1>1. phase # "down" /\ phase # "boot"
    BY DEF IInv, OneWorkerPerRunningTask, Bookkeeping, Busy
<1>2. ~Boot /\ ~Lost
    BY <1>1 DEF Boot, Lost
<1>3. ASSUME NEW v \in Workers, finish_task(v) PROVE v = w
    BY <1>3 DEF IInv, TypeOK, finish_task
<1>4. ASSUME NEW v \in Workers, Pops(v) PROVE FALSE
    BY <1>4, TailDrops DEF IInv, TypeOK, QueueIsQueued, OneWorkerPerRunningTask, Busy, Pops
<1>5. job' # job
    OBVIOUS
<1>6. CASE Client \/ Persist
    BY <1>5, <1>6 DEF Client, Shutdown, add_task, cancel_task, record_tool_metadata,
                      Persist, WriteIndex, WriteTask, Release, pool
<1>7. CASE WriteFails \/ \E t \in Tasks : Acknowledge(t)
    BY <1>2, <1>5, <1>7 DEF WriteFails, Acknowledge
<1>8. CASE UNCHANGED vars
    BY <1>5, <1>8 DEF vars, pool
<1>9. CASE \E v \in Workers : worker_loop(v) \/ Executor(v)
    BY <1>3, <1>4, <1>5, <1>9
       DEF worker_loop, WorkerExits, FindsNothing, Waits, apply_execution_event,
           Executor, ExecutorSends, ExecutorReturns, ExecutorPanics
<1> QED BY <1>2, <1>6, <1>7, <1>8, <1>9 DEF Next, Crash

\* When a run whose token is cancelled ends, its task is not "Completed".
THEOREM CancelBeatsCompletion == Spec => CancelledNeverCompletes
<1>1. IInv /\ [Next]_vars => [CancelWins]_vars
    <2> SUFFICES ASSUME IInv, [Next]_vars,
                        NEW w \in Workers, token[w], job[w] # NoTask, job'[w] = NoTask, phase' = "up"
                 PROVE  tasks'[job[w]].status # "Completed"
        BY DEF CancelWins
    <2>1. finish_task(w)
        BY OnlyFinishEnds
    <2>2. job[w] \in Tasks /\ tasks \in [Tasks -> Record]
        BY DEF IInv, TypeOK
    <2>3. tasks'[job[w]].status = Outcome(w)
        BY <2>1, <2>2 DEF finish_task, Record
    <2> QED BY <2>3 DEF Outcome
<1> QED BY InitIInv, NextIInv, <1>1, PTL DEF Spec, CancelledNeverCompletes

-----------------------------------------------------------------------------
(* What holds when no write fails.                                         *)

AheadInv == DurableInv /\ MemoryIsAhead

LEMMA NextMemoryIsAhead ==
    ASSUME "disk" \notin Faults, AheadInv, [Next]_vars
    PROVE  MemoryIsAhead'
<1> USE DEF AheadInv, DurableInv, Agree
<1>1. tasks \in [Tasks -> Record] /\ disk \in [Tasks -> Record]
    BY DEF IInv, TypeOK
<1>2. CASE Boot
    <2>1. /\ tasks' = [t \in Tasks |-> Recovered(disk[t])] /\ disk' = disk
          /\ io' = PersistAll("boot", NoTask, NoWorker, tasks')
        BY <1>2 DEF Boot, durable
    <2>2. io'.index = TRUE /\ \A t \in Tasks : t \in io'.files <=> tasks'[t].status # "absent"
        BY <2>1 DEF PersistAll
    <2>3. ASSUME NEW t \in Tasks
          PROVE  /\ Moves(disk[t], Recovered(disk[t]))
                 /\ Recovered(disk[t]).status = "absent" => Recovered(disk[t]) = disk[t]
        BY <1>1 DEF Moves, BoardMoves, Recovered, Record
    <2> QED BY <2>1, <2>2, <2>3 DEF MemoryIsAhead
<1>3. CASE Changes
    <2>1. /\ phase = "up" /\ io = Idle /\ UNCHANGED durable
          /\ \A u \in Tasks : Moves(tasks[u], tasks'[u])
          /\ ahead \subseteq ahead'
          /\ \A u \in Tasks : u \notin io'.files =>
                /\ tasks'[u].status = tasks[u].status
                /\ u \notin ahead' => tasks'[u] = tasks[u]
          /\ ~io'.index => queue' = queue
        BY <1>3, ChangesOneTask
    <2>2. (\A u \in Tasks : Agree(disk[u], tasks[u], u)) /\ disk_queue = queue
        BY <2>1 DEF MemoryIsAhead, Idle
    <2> QED BY <2>1, <2>2 DEF MemoryIsAhead, Moves, durable
<1>4. CASE Quiet \/ Release
    <2>1. UNCHANGED <<memory, durable>> /\ io'.index = io.index /\ io'.files = io.files
        <3>1. CASE Quiet
            BY <3>1 DEF Quiet
        <3>2. CASE Release
            <4>1. io.index \in BOOLEAN
                BY DEF IInv, TypeOK
            <4> QED BY <3>2, <4>1 DEF Release, Idle
        <3> QED BY <1>4, <3>1, <3>2
    <2>2. phase = "down" => phase' = "down"
        BY <1>4 DEF IInv, Bookkeeping, Quiet, Release
    <2> QED BY <2>1, <2>2 DEF MemoryIsAhead, memory, durable
<1>5. CASE WriteIndex
    <2>1. /\ UNCHANGED <<phase, memory, disk>> /\ disk_queue' = queue /\ io'.files = io.files
        BY <1>5 DEF WriteIndex, IInv, TypeOK
    <2> QED BY <2>1 DEF MemoryIsAhead, memory
<1>6. ASSUME NEW t \in Tasks, WriteTask(t) PROVE MemoryIsAhead'
    <2>1. /\ UNCHANGED <<phase, tasks, queue, disk_queue>> /\ io'.files = io.files \ {t}
          /\ io'.index = io.index /\ ahead' = ahead \ {t}
          /\ \A u \in Tasks : disk'[u] = (IF u = t THEN tasks[t] ELSE disk[u])
        BY <1>1, <1>6 DEF WriteTask, IInv, TypeOK
    <2> QED BY <2>1 DEF MemoryIsAhead, Moves
<1>7. CASE Lost
    BY <1>7 DEF Lost, MemoryIsAhead
<1>8. ~WriteFails
    BY DEF WriteFails
<1> QED BY <1>2, <1>3, <1>4, <1>5, <1>6, <1>7, <1>8, StepKinds

LEMMA InitAhead == Init => AheadInv
BY InitDurable DEF Init, AheadInv, MemoryIsAhead

LEMMA NextAhead ==
    ASSUME "disk" \notin Faults
    PROVE  AheadInv /\ [Next]_vars => AheadInv'
BY NextDurable, NextMemoryIsAhead DEF AheadInv

\* As long as no write fails, whoever takes the mutex sees what a restart would
\* find, but for what a refused update left; the status of a task always agrees.
THEOREM ObservedIsOnDisk ==
    ASSUME "disk" \notin Faults
    PROVE  Spec => []ObservedIsDurable
<1>1. AheadInv => ObservedIsDurable
    BY DEF AheadInv, MemoryIsAhead, Agree, Free, Idle, ObservedIsDurable
<1> QED BY InitAhead, NextAhead, <1>1, PTL DEF Spec

LEMMA InitBoard == Init => Board!Init
BY DEF Init, Absent, Board!Init

\* One file written is one move of TaskBoard, one acknowledgement its
\* Acknowledge, and every other step a stutter.
LEMMA NextBoard ==
    ASSUME AheadInv, [Next]_vars
    PROVE  [Board!Next]_(Board!vars)
<1> DEFINE status == [t \in Tasks |-> disk[t].status]
<1> USE DEF AheadInv, DurableInv
<1>1. disk \in [Tasks -> Record]
    BY DEF IInv, TypeOK
<1>2. ASSUME NEW t \in Tasks, WriteTask(t)
      PROVE  Board!Next \/ UNCHANGED <<status, acked>>
    <2>1. phase # "down" /\ Moves(disk[t], tasks[t])
        BY <1>2 DEF WriteTask, IInv, Bookkeeping, Idle, MemoryIsAhead
    <2>2. status' = [status EXCEPT ![t] = tasks[t].status] /\ UNCHANGED acked
        BY <1>1, <1>2 DEF WriteTask
    <2>3. CASE disk[t].status = tasks[t].status
        BY <2>2, <2>3
    <2>4. CASE <<disk[t].status, tasks[t].status>> \in BoardMoves
        <3>1. \/ status[t] = "absent" /\ tasks[t].status = "Queued"
              \/ status[t] = "Queued" /\ tasks[t].status = "Running"
              \/ status[t] = "Queued" /\ tasks[t].status = "Canceled"
              \/ status[t] = "Running" /\ tasks[t].status = "Queued"
              \/ status[t] = "Running" /\ tasks[t].status \in Terminal
            BY <2>4 DEF BoardMoves
        <3>2. Board!Submit(t) \/ Board!Claim(t) \/ Board!Withdraw(t) \/ Board!Recover(t)
              \/ Board!Settle(t)
            BY <2>2, <3>1 DEF Board!Submit, Board!Claim, Board!Withdraw, Board!Recover,
                              Board!Settle, Board!Becomes, Board!Terminal, Terminal
        <3> QED BY <3>2 DEF Board!Next
    <2> QED BY <2>1, <2>3, <2>4 DEF Moves
<1>3. ASSUME NEW t \in Tasks, Acknowledge(t)
      PROVE  Board!Next
    <2>1. disk[t].status # "absent"
        BY <1>3 DEF Acknowledge, AckedIsSaved
    <2>2. Board!Acknowledge(t)
        BY <1>3, <2>1 DEF Acknowledge, Board!Acknowledge, durable
    <2> QED BY <2>2 DEF Board!Next
<1>4. CASE UNCHANGED <<disk, acked>>
    BY <1>4 DEF Board!vars
<1>5. \/ UNCHANGED <<disk, acked>>
      \/ \E t \in Tasks : WriteTask(t) \/ Acknowledge(t)
    <2>1. CASE Boot \/ Crash \/ Client \/ WriteFails
        BY <2>1 DEF Boot, Crash, Lost, Client, Shutdown, add_task, cancel_task,
                    record_tool_metadata, Refuses, WriteFails, durable
    <2>2. CASE Persist
        BY <2>2 DEF Persist, WriteIndex, Release, durable
    <2>3. CASE \E w \in Workers : worker_loop(w) \/ Executor(w)
        BY <2>3 DEF worker_loop, WorkerExits, FindsNothing, Waits, Pops, apply_execution_event,
                    finish_task, Executor, ExecutorSends, ExecutorReturns, ExecutorPanics, durable
    <2>4. CASE UNCHANGED vars
        BY <2>4 DEF vars, durable
    <2> QED BY <2>1, <2>2, <2>3, <2>4 DEF Next
<1> QED BY <1>2, <1>3, <1>4, <1>5 DEF Board!vars

\* As long as no write fails, the files of the task manager implement TaskBoard:
\* through crashes, recoveries, panics and any number of workers.
THEOREM FilesImplementBoard ==
    ASSUME "disk" \notin Faults
    PROVE  Spec => ImplementsBoard
<1>1. AheadInv /\ [Next]_vars => [Board!Next]_(Board!vars)
    BY NextBoard
<1> QED BY InitAhead, NextAhead, InitBoard, <1>1, PTL DEF Spec, ImplementsBoard, Board!Spec

-----------------------------------------------------------------------------
(* The order in which a run ends.                                          *)

EventInv == IInv /\ EventsInOrder

\* Steps that neither send nor apply an event, nor end a run.
LEMMA RunsKept ==
    ASSUME EventInv, UNCHANGED <<exec, events>>,
           \A w \in Workers : pc'[w] \notin Busy => pc[w] \notin Busy,
           \A w \in Workers : pc[w] \in Busy =>
               job'[w] = job[w] /\ tasks'[job[w]].last = tasks[job[w]].last
    PROVE  EventsInOrder'
<1>1. \A w \in Workers : exec[w] # "idle" => pc[w] \in Busy
    BY DEF EventInv, EventsInOrder
<1>2. \A w \in Workers : exec[w] # "idle" =>
         /\ pc[w] \in Busy /\ pc'[w] \in Busy /\ job'[w] = job[w]
         /\ tasks'[job[w]].last = tasks[job[w]].last
    BY <1>1
<1>3. \A w \in Workers : LastSent(w)' = LastSent(w)
    BY DEF LastSent
<1> QED BY <1>2, <1>3 DEF EventInv, EventsInOrder

\* A run's task is in memory.
LEMMA JobIsTask ==
    ASSUME IInv, NEW w \in Workers, pc[w] \in Busy
    PROVE  job[w] \in Tasks /\ tasks[job[w]].status = "Running"
BY DEF IInv, TypeOK, OneWorkerPerRunningTask

\* The executor appends each event last.
LEMMA SendsInOrder ==
    ASSUME EventInv, NEW w \in Workers, ExecutorSends(w)
    PROVE  EventsInOrder'
<1> USE DEF EventInv
<1>1. events[w] \in Seq(ToolEvents) /\ w \in DOMAIN events /\ w \in DOMAIN exec
    BY DEF IInv, TypeOK
<1>2. UNCHANGED <<pc, job, tasks>> /\ pc[w] \in Busy
    BY DEF ExecutorSends, memory, Busy
<1>3. \A v \in Workers : v # w => exec'[v] = exec[v] /\ events'[v] = events[v]
    BY DEF ExecutorSends, IInv, TypeOK
<1>4. PICK e \in ToolEvents :
         /\ events'[w] = Append(events[w], e) /\ exec'[w] # "idle"
         /\ e = IF exec'[w] = "opened" THEN "ToolStarted" ELSE "ToolCompleted"
         /\ exec'[w] \in {"opened", "closed"}
    BY <1>1 DEF ExecutorSends, ToolEvents
<1>5. e = LastSent(w)'
    BY <1>4 DEF LastSent
<1>6. events'[w] # <<>> /\ events'[w][Len(events'[w])] = e
    BY <1>1, <1>4, AppendProperties
<1>7. \A v \in Workers : v # w => LastSent(v)' = LastSent(v)
    BY <1>3 DEF LastSent
<1> QED BY <1>2, <1>3, <1>4, <1>5, <1>6, <1>7 DEF EventsInOrder

\* Taking the front event leaves the last one, unless it was that one.
LEMMA AppliesInOrder ==
    ASSUME "disk" \notin Faults, EventInv, NEW w \in Workers, apply_execution_event(w)
    PROVE  EventsInOrder'
<1> USE DEF EventInv
<1> DEFINE q == events[w]
           e == Tail(q)
           t == job[w]
<1>1. /\ q \in Seq(ToolEvents) /\ q # <<>> /\ pc[w] \in Busy /\ UNCHANGED <<pc, job, exec>>
      /\ tasks' = [tasks EXCEPT ![t] = Applied(@, Head(q))]
      /\ events' = [events EXCEPT ![w] = Tail(q)]
    BY DEF apply_execution_event, Refuses, IInv, TypeOK, Busy
<1>2. t \in Tasks /\ tasks \in [Tasks -> Record]
    BY <1>1, JobIsTask DEF IInv, TypeOK
<1>3. \A v \in Workers : v # w /\ pc[v] \in Busy => job[v] # t
    BY <1>2 DEF IInv, OneWorkerPerRunningTask
<1>4. tasks'[t].last = Head(q) /\ \A u \in Tasks : u # t => tasks'[u] = tasks[u]
    BY <1>1, <1>2 DEF Applied, Record
<1>5. events'[w] = e /\ \A v \in Workers : v # w => events'[v] = events[v]
    BY <1>1 DEF IInv, TypeOK
<1>6. \A v \in Workers : LastSent(v)' = LastSent(v)
    BY <1>1 DEF LastSent
<1>7. exec[w] # "idle" => \/ e = <<>> /\ Head(q) = LastSent(w)
                          \/ e # <<>> /\ e[Len(e)] = LastSent(w)
    <2> SUFFICES ASSUME exec[w] # "idle"
                 PROVE  \/ e = <<>> /\ Head(q) = LastSent(w)
                        \/ e # <<>> /\ e[Len(e)] = LastSent(w)
        OBVIOUS
    <2>1. q[Len(q)] = LastSent(w)
        BY <1>1 DEF EventsInOrder
    <2>2. e = Tail(q)
        OBVIOUS
    <2> HIDE DEF q, e
    <2> QED BY <1>1, <2>1, <2>2, TailKeepsLast
<1> HIDE DEF q, e, t
<1>8. ASSUME NEW v \in Workers
       PROVE  /\ pc[v] \notin Busy => exec[v] = "idle"
              /\ exec[v] # "idle" =>
                    \/ events'[v] = <<>> /\ tasks'[job[v]].last = LastSent(v)
                    \/ events'[v] # <<>> /\ events'[v][Len(events'[v])] = LastSent(v)
    <2>1. CASE v = w
        <3>1. job[w] = t
            BY DEF t
        <3> QED BY <1>1, <1>4, <1>5, <1>7, <2>1, <3>1
    <2>2. CASE v # w
        <3>1. exec[v] # "idle" => pc[v] \in Busy /\ job[v] \in Tasks /\ job[v] # t
            BY <1>3, <2>2, JobIsTask DEF EventsInOrder
        <3> QED BY <1>4, <1>5, <2>2, <3>1 DEF EventsInOrder
    <2> QED BY <2>1, <2>2
<1> QED BY <1>1, <1>6, <1>8 DEF EventsInOrder

LEMMA NextEventsInOrder ==
    ASSUME "disk" \notin Faults, EventInv, [Next]_vars
    PROVE  EventsInOrder'
<1> USE DEF EventInv
<1>1. tasks \in [Tasks -> Record] /\ \A w \in Workers : pc[w] \in Busy => job[w] \in Tasks
    BY JobIsTask DEF IInv, TypeOK
<1>2. CASE Boot
    <2>1. \A w \in Workers : pc[w] \notin Busy
        BY <1>2 DEF Boot, IInv, Bookkeeping, Busy
    <2> QED BY <1>2, <2>1, RunsKept DEF Boot, pool
<1>3. CASE Crash
    BY <1>3 DEF Crash, Lost, EventsInOrder
<1>4. CASE Shutdown \/ \E t \in Tasks : record_tool_metadata(t)
    <2>1. UNCHANGED <<tasks, pool>>
        BY <1>1, <1>4 DEF Shutdown, record_tool_metadata, Refuses, memory
    <2> QED BY <2>1, RunsKept DEF pool
<1>5. ASSUME NEW t \in Tasks, add_task(t) PROVE EventsInOrder'
    <2>1. \A u \in Tasks : tasks'[u].last = tasks[u].last
        BY <1>1, <1>5, SetStatusKeeps DEF add_task, Status
    <2> QED BY <1>1, <1>5, <2>1, RunsKept DEF add_task, pool
<1>6. ASSUME NEW t \in Tasks, cancel_task(t) PROVE EventsInOrder'
    <2> DEFINE s == IF tasks[t].status = "Queued" THEN "Canceled" ELSE tasks[t].status
    <2>1. tasks' = [tasks EXCEPT ![t].status = s] /\ s \in Status \cup {"absent"}
        BY <1>1, <1>6 DEF cancel_task, Status, Terminal, Record
    <2> HIDE DEF s
    <2>2. \A u \in Tasks : tasks'[u].last = tasks[u].last
        BY <1>1, <2>1, SetStatusKeeps
    <2> QED BY <1>1, <1>6, <2>2, RunsKept DEF cancel_task
<1>7. CASE Persist
    <2>1. UNCHANGED <<exec, events, job, tasks>>
        BY <1>7 DEF Persist, WriteIndex, WriteTask, Release, memory, pool
    <2>2. \A w \in Workers : pc'[w] \notin Busy => pc[w] \notin Busy
        <3>1. CASE WriteIndex \/ \E t \in Tasks : WriteTask(t)
            BY <3>1 DEF WriteIndex, WriteTask, pool
        <3>2. CASE Release
            <4>1. io.op = "boot" => \A w \in Workers : pc[w] = "off"
                BY DEF IInv, Bookkeeping
            <4> QED BY <3>2, <4>1 DEF Release, Resume, Busy
        <3> QED BY <1>7, <3>1, <3>2 DEF Persist
    <2> QED BY <2>1, <2>2, RunsKept
<1>8. CASE \E t \in Tasks : Acknowledge(t)
    <2>1. \A w \in Workers : pc'[w] = pc[w] \/ pc[w] = "parked"
        BY <1>8 DEF Acknowledge, notify_one, Waiters, IInv, TypeOK
    <2> QED BY <1>8, <2>1, RunsKept DEF Acknowledge, memory, Busy
<1>9. ASSUME NEW w \in Workers, WorkerExits(w) \/ FindsNothing(w) \/ Waits(w)
                                 \/ ExecutorReturns(w) \/ ExecutorPanics(w)
      PROVE  EventsInOrder'
    <2>1. UNCHANGED <<exec, events, job, tasks>>
        BY <1>9 DEF WorkerExits, FindsNothing, Waits, ExecutorReturns, ExecutorPanics, memory
    <2>2. \A v \in Workers : pc'[v] \notin Busy => pc[v] \notin Busy
        BY <1>9 DEF WorkerExits, FindsNothing, Waits, ExecutorReturns, ExecutorPanics, IInv, TypeOK,
                    ExitPoints, Busy
    <2> QED BY <2>1, <2>2, RunsKept
<1>10. ASSUME NEW w \in Workers, Pops(w) PROVE EventsInOrder'
    <2> DEFINE t == Head(queue)
    <2>1. t \in Tasks /\ tasks[t].status = "Queued"
        BY <1>10, TailDrops DEF IInv, TypeOK, QueueIsQueued, Pops
    <2>2. /\ pc[w] = "top" /\ tasks' = [tasks EXCEPT ![t].status = "Running"]
          /\ pc' = [pc EXCEPT ![w] = "start"] /\ job' = [job EXCEPT ![w] = t]
          /\ UNCHANGED <<exec, events>> /\ "Running" \in Status
        BY <1>10, <2>1 DEF Pops, Status
    <2> HIDE DEF t
    <2>3. \A u \in Tasks : tasks'[u].last = tasks[u].last
        BY <1>1, <2>1, <2>2, SetStatusKeeps
    <2>4. \A v \in Workers : /\ pc'[v] \notin Busy => pc[v] \notin Busy
                             /\ pc[v] \in Busy => job'[v] = job[v]
        BY <2>2 DEF Busy, IInv, TypeOK
    <2> QED BY <1>1, <2>2, <2>3, <2>4, RunsKept
<1>11. ASSUME NEW w \in Workers, finish_task(w) PROVE EventsInOrder'
    <2> DEFINE t == job[w]
               s == Outcome(w)
    <2>1. /\ t \in Tasks /\ s \in Status \cup {"absent"}
          /\ tasks' = [tasks EXCEPT ![t].status = s]
        BY <1>1, <1>11 DEF finish_task, Busy, Outcome, IInv, Bookkeeping, Status, Terminal
    <2> HIDE DEF t, s
    <2>2. \A u \in Tasks : tasks'[u].last = tasks[u].last
        BY <1>1, <2>1, SetStatusKeeps
    <2>3. /\ exec'[w] = "idle" /\ events' = events
          /\ \A v \in Workers : v # w => exec'[v] = exec[v] /\ pc'[v] = pc[v] /\ job'[v] = job[v]
        BY <1>11 DEF finish_task, IInv, TypeOK
    <2>4. \A v \in Workers : exec[v] # "idle" => job[v] \in Tasks
        BY <1>1 DEF EventsInOrder
    <2>5. \A v \in Workers : v # w => LastSent(v)' = LastSent(v)
        BY <2>3 DEF LastSent
    <2>6. ASSUME NEW v \in Workers
          PROVE  /\ pc'[v] \notin Busy => exec'[v] = "idle"
                 /\ exec'[v] # "idle" =>
                       \/ events'[v] = <<>> /\ tasks'[job'[v]].last = LastSent(v)'
                       \/ events'[v] # <<>> /\ events'[v][Len(events'[v])] = LastSent(v)'
        <3>1. CASE v = w
            BY <2>3, <3>1
        <3>2. CASE v # w
            BY <2>2, <2>3, <2>4, <2>5, <3>2 DEF EventsInOrder
        <3> QED BY <3>1, <3>2
    <2> QED BY <2>6 DEF EventsInOrder
<1>12. CASE UNCHANGED vars
    BY <1>12, RunsKept DEF vars, memory, pool
<1>13. ~WriteFails
    BY DEF WriteFails
<1> QED BY <1>2, <1>3, <1>4, <1>5, <1>6, <1>7, <1>8, <1>9, <1>10, <1>11, <1>12, <1>13,
           SendsInOrder, AppliesInOrder
        DEF Next, Client, worker_loop, Executor

LEMMA InitEvent == Init => EventInv
BY InitIInv DEF Init, EventInv, EventsInOrder

LEMMA NextEvent ==
    ASSUME "disk" \notin Faults
    PROVE  EventInv /\ [Next]_vars => EventInv'
BY NextIInv, NextEventsInOrder DEF EventInv

\* As long as no write fails, a run is not finished before the last event of its
\* executor is applied.
THEOREM EventsAreApplied ==
    ASSUME "disk" \notin Faults
    PROVE  Spec => EventsBeforeFinish
<1>1. EventInv /\ [Next]_vars => [FinishesApplied]_vars
    <2> SUFFICES ASSUME EventInv, [Next]_vars,
                        NEW w \in Workers, exec[w] # "idle", job'[w] = NoTask, phase' = "up"
                 PROVE  tasks'[job[w]].last = LastSent(w)
        BY DEF FinishesApplied
    <2> USE DEF EventInv
    <2>1. pc[w] \in Busy /\ job[w] \in Tasks /\ job[w] # NoTask
        BY JobIsTask DEF EventsInOrder
    <2>2. finish_task(w)
        BY <2>1, OnlyFinishEnds
    <2>3. tasks[job[w]].last = LastSent(w)
        BY <2>2 DEF EventsInOrder, finish_task, Drained
    <2>4. tasks'[job[w]].last = tasks[job[w]].last
        <3> DEFINE s == Outcome(w)
        <3>1. s \in Status \cup {"absent"} /\ tasks' = [tasks EXCEPT ![job[w]].status = s]
            BY <2>2 DEF finish_task, Outcome, IInv, Bookkeeping, Status, Terminal
        <3> HIDE DEF s
        <3> QED BY <2>1, <3>1, SetStatusKeeps DEF IInv, TypeOK
    <2> QED BY <2>3, <2>4
<1> QED BY InitEvent, NextEvent, <1>1, PTL DEF Spec, EventsBeforeFinish

-----------------------------------------------------------------------------
(* No wake-up is lost.                                                     *)

WakeInv == IInv /\ WakeUpIsPending

Asleep == \A w \in Workers : pc[w] \in {"sleepy", "parked"}

\* Steps that leave the Notify and the sleepers alone, and add nothing to the queue.
LEMMA SleepersKept ==
    ASSUME WakeInv, UNCHANGED waking, Waiters' = Waiters,
           Asleep' /\ queue' # <<>> => Asleep /\ queue # <<>>, io.op = "add" => io'.op = "add"
    PROVE  WakeUpIsPending'
BY DEF WakeInv, WakeUpIsPending, Asleep, waking

LEMMA NextWakeUpIsPending ==
    ASSUME "disk" \notin Faults, WakeInv, [Next]_vars
    PROVE  WakeUpIsPending'
<1> USE DEF WakeInv
<1>1. PICK w0 \in Workers : TRUE
    OBVIOUS
<1>2. CASE Boot
    <2>1. \A w \in Workers : pc'[w] = "off"
        BY <1>2 DEF Boot, IInv, Bookkeeping, pool
    <2> QED BY <1>1, <2>1 DEF WakeUpIsPending, Waiters
<1>3. CASE Crash
    BY <1>1, <1>3 DEF Crash, Lost, WakeUpIsPending, Waiters
<1>4. ASSUME NEW t \in Tasks, add_task(t) PROVE WakeUpIsPending'
    BY <1>4 DEF add_task, PersistAll, WakeUpIsPending, Waiters, waking, pool
<1>5. ASSUME NEW t \in Tasks, cancel_task(t) PROVE WakeUpIsPending'
    <2>1. queue = <<>> => queue' = <<>>
        <3>1. queue \in Seq(Tasks) /\ IsInjective(queue)
            BY DEF IInv, TypeOK, QueueIsQueued
        <3>2. CASE queue' = queue
            BY <3>2
        <3>3. CASE queue' \in Retained(queue, Tasks \ {t})
            <4>1. queue' \in Seq(Tasks) /\ Range(queue') = Range(queue) \cap (Tasks \ {t})
                BY <3>1, <3>3, RetainedKeeps
            <4>2. queue' # <<>> => Head(queue') \in Range(queue')
                <5>1. queue' # <<>> => 1 \in DOMAIN queue'
                    BY <4>1
                <5> QED BY <5>1 DEF Range
            <4>3. queue = <<>> => Range(queue) = {}
                BY DEF Range
            <4> QED BY <4>1, <4>2, <4>3
        <3> QED BY <1>5, <3>2, <3>3 DEF cancel_task
    <2>2. UNCHANGED <<waking, pc>> /\ io.op = "none"
        BY <1>5 DEF cancel_task, Free, Idle
    <2> QED BY <2>1, <2>2, SleepersKept DEF Asleep, Waiters
<1>6. CASE Shutdown \/ \E t \in Tasks : record_tool_metadata(t)
    <2>1. UNCHANGED <<waking, queue, pc>> /\ (io.op = "add" => io'.op = "add")
        BY <1>6 DEF Shutdown, record_tool_metadata, Refuses, Free, Idle, memory, pool
    <2> QED BY <2>1, SleepersKept DEF Asleep, Waiters
<1>7. CASE WriteIndex \/ \E t \in Tasks : WriteTask(t)
    <2>1. UNCHANGED <<waking, queue, pc>> /\ io'.op = io.op
        BY <1>7 DEF WriteIndex, WriteTask, memory, pool, IInv, TypeOK
    <2> QED BY <2>1, SleepersKept DEF Asleep, Waiters
<1>8. CASE Release
    <2>1. CASE io.op = "boot"
        <3>1. \A w \in Workers : pc'[w] = "top"
            BY <1>8, <2>1 DEF Release
        <3> QED BY <1>1, <3>1 DEF WakeUpIsPending, Waiters
    <2>2. CASE io.op # "boot"
        <3>1. /\ UNCHANGED <<queue, permit>>
              /\ \A w \in Workers : \/ pc'[w] = pc[w]
                                    \/ pc'[w] \in {"run", "top"} /\ pc[w] \in {"start", "finish"}
            BY <1>8, <2>2 DEF Release, Resume, memory
        <3>2. Waiters' = Waiters /\ (Asleep' => Asleep)
            BY <3>1 DEF Waiters, Asleep
        <3>3. CASE io.op = "add"
            BY <1>8, <3>1, <3>2, <3>3 DEF Release, WakeUpIsPending
        <3>4. CASE io.op # "add"
            BY <1>8, <3>1, <3>2, <3>4, SleepersKept DEF Release, waking
        <3> QED BY <3>3, <3>4
    <2> QED BY <2>1, <2>2
<1>9. ASSUME NEW t \in Tasks, Acknowledge(t) PROVE WakeUpIsPending'
    <2>1. CASE Waiters = {} /\ permit' = TRUE /\ UNCHANGED pc
        BY <2>1 DEF WakeUpIsPending, Waiters
    <2>2. CASE \E w \in Waiters : pc' = [pc EXCEPT ![w] = "top"] /\ UNCHANGED permit
        <3>1. PICK w \in Waiters : pc' = [pc EXCEPT ![w] = "top"] /\ UNCHANGED permit
            BY <2>2
        <3>2. ~permit' /\ w \in Workers /\ pc'[w] = "top"
            BY <3>1 DEF WakeUpIsPending, Waiters, IInv, TypeOK
        <3> QED BY <3>2 DEF WakeUpIsPending
    <2> QED BY <1>9, <2>1, <2>2 DEF Acknowledge, notify_one
<1>10. ASSUME NEW w \in Workers,
              WorkerExits(w) \/ Pops(w) \/ apply_execution_event(w) \/ finish_task(w) \/ Executor(w)
       PROVE  WakeUpIsPending'
    <2>1. pc'[w] \notin {"sleepy", "parked"} /\ \A v \in Workers : v # w => pc'[v] = pc[v]
        <3>1. CASE Pops(w)
            <4>1. tasks[Head(queue)].status = "Queued"
                BY <3>1, TailDrops DEF IInv, TypeOK, QueueIsQueued, Pops
            <4> QED BY <3>1, <4>1 DEF Pops, IInv, TypeOK
        <3>2. CASE WorkerExits(w) \/ finish_task(w)
            BY <3>2 DEF WorkerExits, finish_task, IInv, TypeOK
        <3>3. CASE apply_execution_event(w) \/ Executor(w)
            BY <3>3 DEF apply_execution_event, Executor, ExecutorSends, ExecutorReturns,
                        ExecutorPanics, IInv, TypeOK
        <3> QED BY <1>10, <3>1, <3>2, <3>3
    <2>2. permit' = permit
        BY <1>10 DEF WorkerExits, Pops, apply_execution_event, finish_task, Executor, ExecutorSends,
                     ExecutorReturns, ExecutorPanics, waking
    <2>3. Waiters' \subseteq Waiters
        BY <2>1 DEF Waiters
    <2> QED BY <2>1, <2>2, <2>3 DEF WakeUpIsPending
<1>11. ASSUME NEW w \in Workers, FindsNothing(w) PROVE WakeUpIsPending'
    <2>1. UNCHANGED <<waking, queue>> /\ queue = <<>>
        BY <1>11 DEF FindsNothing, memory
    <2>2. Waiters' = Waiters
        BY <1>11 DEF FindsNothing, Waiters, IInv, TypeOK
    <2> QED BY <2>1, <2>2 DEF WakeUpIsPending, waking
<1>12. ASSUME NEW w \in Workers, Waits(w) PROVE WakeUpIsPending'
    <2>1. /\ permit' = FALSE /\ UNCHANGED <<queue, io, notifying>> /\ pc[w] = "sleepy"
          /\ \A v \in Workers : pc'[v] = (IF v = w THEN (IF permit THEN "top" ELSE "parked")
                                                 ELSE pc[v])
        BY <1>12 DEF Waits, memory, IInv, TypeOK
    <2>2. permit \in BOOLEAN
        BY DEF IInv, TypeOK
    <2> QED BY <2>1, <2>2 DEF WakeUpIsPending
<1>13. CASE UNCHANGED vars
    BY <1>13, SleepersKept DEF vars, memory, pool, Asleep, Waiters
<1>14. ~WriteFails
    BY DEF WriteFails
<1> QED BY <1>2, <1>3, <1>4, <1>5, <1>6, <1>7, <1>8, <1>9, <1>10, <1>11, <1>12, <1>13, <1>14
        DEF Next, Client, Persist, worker_loop

\* As long as no write fails, the workers never all sleep over a queued task
\* that nobody is about to announce; one that panicked or exited is not asleep.
THEOREM NoLostWakeUp ==
    ASSUME "disk" \notin Faults
    PROVE  Spec => []NoSleepOverWork
<1>1. Init => WakeInv
    BY InitIInv DEF Init, WakeInv, WakeUpIsPending
<1>2. WakeInv /\ [Next]_vars => WakeInv'
    BY NextIInv, NextWakeUpIsPending DEF WakeInv
<1>3. WakeInv => NoSleepOverWork
    <2> SUFFICES ASSUME WakeInv, Free, notifying = {}, \A w \in Workers : pc[w] = "parked"
                 PROVE  queue = <<>>
        BY DEF NoSleepOverWork
    <2>1. Waiters # {} /\ io.op # "add"
        BY DEF Waiters, Free, Idle
    <2> QED BY <2>1 DEF WakeInv, WakeUpIsPending
<1> QED BY <1>1, <1>2, <1>3, PTL DEF Spec
=============================================================================
