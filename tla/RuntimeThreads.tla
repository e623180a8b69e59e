---------------------------- MODULE RuntimeThreads ----------------------------
(***************************************************************************)
(* Turns on threads, crates/tui/src/runtime_threads.rs: API requests start,*)
(* interrupt and steer turns, an engine per loaded thread runs them, and a *)
(* monitor per turn folds the engine's events into the records on disk.    *)
(* Loaded engines live in an LRU cache under one mutex (`active`), which   *)
(* is never held across an await: a request takes it several times.        *)
(*                                                                         *)
(* compact_thread takes the same steps as start_turn.  Of the items        *)
(* of a turn the model follows the agent message that is open when the     *)
(* turn ends, and the user message a steer adds.                           *)
(***************************************************************************)
EXTENDS Naturals, Sequences, FiniteSets, SequencesExt

CONSTANTS
    Threads,      \* thread ids
    Turns,        \* turn ids; a request draws a fresh one (a UUID)
    Engines,      \* engine ids; spawn_engine makes a new engine
    Callers,      \* tasks that serve start_turn or compact_thread requests
    Steerers,     \* tasks that serve steer_turn requests
    CallerThread, \* the thread each caller works on
    NoThread, NoTurn, NoEngine,
    MaxActive,    \* max_active_threads
    Kinds,        \* what requests ask for: a subset of {"send", "compact"}
    Talks,        \* may a turn produce an agent message?
    Faults,       \* "disk": a write of a monitor or a request may fail;
                  \* "panic": an engine may panic
    MaxCrashes    \* bound on the crashes of the process

ASSUME RuntimeThreadsAssumption ==
    /\ IsFiniteSet(Threads) /\ NoThread \notin Threads
    /\ NoTurn \notin Turns /\ NoEngine \notin Engines
    /\ \A c \in Callers : CallerThread[c] \in Threads
    /\ MaxActive \in Nat /\ MaxCrashes \in Nat
    /\ Kinds \subseteq {"send", "compact"} /\ Talks \in BOOLEAN /\ Faults \subseteq {"disk", "panic"}

VARIABLES
    phase,      \* "scan" and "items" are open's recover_interrupted_state, then "up"
    repairing,  \* the turn whose items recovery is at
    loaded,     \* ActiveThreads.engines[t].engine
    active,     \* ActiveThreads.engines[t].active_turn
    lru,        \* ActiveThreads.lru
    engine,     \* the engines themselves: core/engine.rs behind its channels
    caller,     \* requests that start a turn
    steerer,    \* requests that steer one
    monitor,    \* monitor_turn of each turn
    turn,       \* turns/<id>.json
    message,    \* items/<id>.json of the agent message of each turn
    asked,      \* history: turns whose interrupt was accepted in time
    outcome,    \* history: what the engine said of each turn it finished
    crashes     \* history: crashes so far

cache    == <<loaded, active, lru>>
requests == <<caller, steerer>>
disk     == <<turn, message>>
history  == <<asked, outcome>>
vars == <<phase, repairing, cache, engine, requests, monitor, disk, history, crashes>>

Terminal == {"Completed", "Failed", "Interrupted"}
Record   == [status : {"absent", "InProgress"} \cup Terminal,
             thread : Threads \cup {NoThread}, items : SUBSET {"message", "steer"}]
Absent   == [status |-> "absent", thread |-> NoThread, items |-> {}]

Inactive  == [turn |-> NoTurn, interrupt |-> FALSE]
\* Op::Shutdown is NoTurn in the op channel.
NewEngine == [st |-> "free", ops |-> <<>>, run |-> NoTurn, kind |-> "send",
              cancelled |-> FALSE, spoke |-> FALSE, out |-> <<>>]
Idle      == [pc |-> "idle", engine |-> NoEngine, turn |-> NoTurn, evicted |-> NoEngine]
NoSteer   == [pc |-> "idle", turn |-> NoTurn, copy |-> Absent]
NoMonitor == [pc |-> "none", engine |-> NoEngine, status |-> "Completed", copy |-> Absent]

Init ==
    /\ phase = "up" /\ repairing = NoTurn
    /\ loaded = [t \in Threads |-> NoEngine]
    /\ active = [t \in Threads |-> Inactive] /\ lru = <<>>
    /\ engine = [e \in Engines |-> NewEngine]
    /\ caller = [c \in Callers |-> Idle]
    /\ steerer = [s \in Steerers |-> NoSteer]
    /\ monitor = [x \in Turns |-> NoMonitor]
    /\ turn = [x \in Turns |-> Absent]
    /\ message = [x \in Turns |-> "none"]
    /\ asked = {} /\ outcome = [x \in Turns |-> "none"] /\ crashes = 0

-----------------------------------------------------------------------------
(* The cache of engines.                                                   *)

TouchAtEnd(l, t) == Append(l, t)         \* mutant: the old entry stays
touch_lru(l, t) == Append(RemoveFirst(l, t), t)

Loaded == {t \in Threads : loaded[t] # NoEngine}
Protected == {t \in Threads : active[t].turn # NoTurn}

\* enforce_lru_capacity: the first id that has no active turn leaves the
\* list, those before it go to its end; a full rotation changes nothing.
EvictsOldest == IF lru = <<>> THEN 0 ELSE 1           \* mutant: active turns unprotected
Victim == SelectInSeq(lru, LAMBDA t : t \notin Protected)

Full == MaxActive # 0 /\ Cardinality(Loaded) >= MaxActive

\* What remains of the list and of the engines, and the engine to shut down.
AfterEviction ==
    IF ~Full \/ Victim = 0
    THEN [lru |-> lru, loaded |-> loaded, evicted |-> NoEngine]
    ELSE [lru     |-> SubSeq(lru, Victim + 1, Len(lru)) \o SubSeq(lru, 1, Victim - 1),
          loaded  |-> [loaded EXCEPT ![lru[Victim]] = NoEngine],
          evicted |-> loaded[lru[Victim]]]

-----------------------------------------------------------------------------
(* start_turn and compact_thread.                                          *)

Goes(c, pc) == caller' = [caller EXCEPT ![c].pc = pc]
Returns(c)  == caller' = [caller EXCEPT ![c] = Idle]
Serving(c, pc) == phase = "up" /\ caller[c].pc = pc

\* ensure_engine_loaded, under the lock: found.
FindsEngine(c) ==
    LET t == CallerThread[c] IN
    /\ Serving(c, "idle") /\ loaded[t] # NoEngine
    /\ \E x \in Turns : turn[x].status = "absent"          \* bound
    /\ caller' = [caller EXCEPT ![c].pc = "check", ![c].engine = loaded[t]]
    /\ lru' = touch_lru(lru, t)
    /\ UNCHANGED <<phase, repairing, loaded, active, engine, steerer, monitor, disk, history, crashes>>

\* Not found: spawn_engine, and SyncSession with what the turns on disk hold.
SpawnsEngine(c) ==
    /\ Serving(c, "idle") /\ loaded[CallerThread[c]] = NoEngine
    /\ \E x \in Turns : turn[x].status = "absent"          \* bound
    /\ \E e \in Engines :
          /\ engine[e].st = "free"
          /\ engine' = [engine EXCEPT ![e].st = "up"]
          /\ caller' = [caller EXCEPT ![c].pc = "insert", ![c].engine = e]
    /\ UNCHANGED <<phase, repairing, cache, steerer, monitor, disk, history, crashes>>

\* Under the lock again; whatever the thread had by now is overwritten.
InsertsEngine(c) ==
    LET t == CallerThread[c] after == AfterEviction IN
    /\ Serving(c, "insert")
    /\ loaded' = [after.loaded EXCEPT ![t] = caller[c].engine]
    /\ active' = [active EXCEPT ![t] = Inactive]
    /\ lru' = touch_lru(after.lru, t)
    /\ caller' = [caller EXCEPT ![c].pc = "evict", ![c].evicted = after.evicted]
    /\ UNCHANGED <<phase, repairing, engine, steerer, monitor, disk, history, crashes>>

\* Op::Shutdown to the evicted engine, after the lock was released.
ShutsDownEvicted(c) ==
    LET e == caller[c].evicted IN
    /\ Serving(c, "evict")
    /\ engine' = IF e # NoEngine /\ engine[e].st = "up"
                 THEN [engine EXCEPT ![e].ops = Append(@, NoTurn)] ELSE engine
    /\ caller' = [caller EXCEPT ![c].pc = "check", ![c].evicted = NoEngine]
    /\ UNCHANGED <<phase, repairing, cache, steerer, monitor, disk, history, crashes>>

\* bail!("Thread already has an active turn")
ChecksActive(c) ==
    /\ Serving(c, "check")
    /\ IF active[CallerThread[c]].turn # NoTurn THEN Returns(c) ELSE Goes(c, "save")
    /\ UNCHANGED <<phase, repairing, cache, engine, steerer, monitor, disk, history, crashes>>

SavesTurn(c) ==
    /\ Serving(c, "save")
    /\ \E x \in Turns :
          /\ turn[x] = Absent
          /\ turn' = [turn EXCEPT ![x].status = "InProgress", ![x].thread = CallerThread[c]]
          /\ caller' = [caller EXCEPT ![c].pc = "activate", ![c].turn = x]
    /\ UNCHANGED <<phase, repairing, cache, engine, steerer, monitor, message, history, crashes>>

\* save_turn, save_thread or an emit_event fails: the request returns the error.
\* compact_thread emits turn.started after it has made its turn the active one.
RequestFails(c) ==
    /\ "disk" \in Faults /\ phase = "up"
    /\ \/ caller[c].pc \in {"save", "activate"}
       \/ caller[c].pc = "send" /\ "compact" \in Kinds
    /\ Returns(c)
    /\ UNCHANGED <<phase, repairing, cache, engine, steerer, monitor, disk, history, crashes>>

\* Under the lock: bail!("Thread engine not loaded"), or the thread has a new
\* active turn, whatever it had before.
Activates(c) ==
    LET t == CallerThread[c] IN
    /\ Serving(c, "activate")
    /\ IF loaded[t] = NoEngine
       THEN Returns(c) /\ UNCHANGED <<active, lru>>
       ELSE /\ active' = [active EXCEPT ![t] = [turn |-> caller[c].turn, interrupt |-> FALSE]]
            /\ lru' = touch_lru(lru, t)
            /\ Goes(c, "send")
    /\ UNCHANGED <<phase, repairing, loaded, engine, steerer, monitor, disk, history, crashes>>

\* engine.send(Op::SendMessage), which fails on an engine that has stopped,
\* and tokio::spawn of the monitor.
SendsOp(c) ==
    LET e == caller[c].engine x == caller[c].turn IN
    /\ Serving(c, "send")
    /\ Returns(c)
    /\ IF engine[e].st = "up"
       THEN /\ engine' = [engine EXCEPT ![e].ops = Append(@, x)]
            /\ monitor' = [monitor EXCEPT ![x].pc = "wait", ![x].engine = e]
       ELSE UNCHANGED <<engine, monitor>>
    /\ UNCHANGED <<phase, repairing, cache, steerer, disk, history, crashes>>

start_turn(c) ==
    \/ FindsEngine(c) \/ SpawnsEngine(c) \/ InsertsEngine(c) \/ ShutsDownEvicted(c)
    \/ ChecksActive(c) \/ SavesTurn(c) \/ RequestFails(c) \/ Activates(c) \/ SendsOp(c)

-----------------------------------------------------------------------------
(* interrupt_turn and steer_turn.                                          *)

\* The monitor has not yet asked is_interrupt_requested for the last time.
Undecided == {"none", "wait", "attach", "attached", "decide"}

\* All of it under the lock; then the record is read and returned.
interrupt_turn(t, x) ==
    /\ phase = "up" /\ loaded[t] # NoEngine /\ active[t].turn = x
    /\ active' = [active EXCEPT ![t].interrupt = TRUE]
    /\ engine' = [engine EXCEPT ![loaded[t]].cancelled = TRUE]
    /\ lru' = touch_lru(lru, t)
    /\ asked' = IF monitor[x].pc \in Undecided THEN asked \cup {x} ELSE asked
    /\ UNCHANGED <<phase, repairing, loaded, requests, monitor, disk, outcome, crashes>>

\* Under the lock; then engine.steer, and the record is loaded ...
Steers(s, t, x) ==
    /\ phase = "up" /\ steerer[s].pc = "idle" /\ loaded[t] # NoEngine /\ active[t].turn = x
    /\ steerer' = [steerer EXCEPT ![s].pc = "load", ![s].turn = x]
    /\ lru' = touch_lru(lru, t)
    /\ UNCHANGED <<phase, repairing, loaded, active, engine, caller, monitor, disk, history, crashes>>

SteerLoads(s) ==
    /\ phase = "up" /\ steerer[s].pc = "load"
    /\ steerer' = [steerer EXCEPT ![s].pc = "save", ![s].copy = turn[steerer[s].turn]]
    /\ UNCHANGED <<phase, repairing, cache, engine, caller, monitor, disk, history, crashes>>

\* ... saved with the new steer_count, and again with the new item.
SteerSaves(s) ==
    LET x == steerer[s].turn copy == steerer[s].copy IN
    /\ phase = "up" /\ steerer[s].pc \in {"save", "again"}
    /\ IF steerer[s].pc = "save"
       THEN /\ turn' = [turn EXCEPT ![x] = copy]
            /\ steerer' = [steerer EXCEPT ![s].pc = "again"]
       ELSE /\ turn' = [turn EXCEPT ![x] = [copy EXCEPT !.items = @ \cup {"steer"}]]
            /\ steerer' = [steerer EXCEPT ![s] = NoSteer]
    /\ UNCHANGED <<phase, repairing, cache, engine, caller, monitor, message, history, crashes>>

steer_turn(s) ==
    \/ \E t \in Threads, x \in Turns : Steers(s, t, x)
    \/ SteerLoads(s) \/ SteerSaves(s)

-----------------------------------------------------------------------------
(* The engine (core/engine.rs): its op loop and the turn it runs.          *)

EngineStep == UNCHANGED <<phase, repairing, cache, requests, monitor, disk, asked, crashes>>

\* Op::SendMessage: handle_send_message resets the cancel token first.
\* Op::CompactContext: handle_manual_compaction does not look at the token.
\* (The request decided which; nothing depended on it so far.)
\* Op::Shutdown ends the loop.
TakesOp(e) ==
    LET g == engine[e] op == Head(g.ops) IN
    /\ g.st = "up" /\ g.run = NoTurn /\ g.ops # <<>>
    /\ \E kind \in Kinds :
          engine' = [engine EXCEPT ![e] =
             IF op = NoTurn
             THEN [g EXCEPT !.st = "down", !.ops = <<>>]
             ELSE [g EXCEPT !.run = op, !.ops = Tail(@), !.kind = kind, !.spoke = FALSE,
                            !.cancelled = @ /\ kind = "compact"]]
    /\ EngineStep /\ UNCHANGED outcome

StartsMessage(e) ==
    /\ Talks /\ engine[e].run # NoTurn /\ engine[e].kind = "send" /\ ~engine[e].spoke
    /\ engine' = [engine EXCEPT ![e].spoke = TRUE, ![e].out = Append(@, "message")]
    /\ EngineStep /\ UNCHANGED outcome

CompletesTurn(e, how) ==
    /\ engine[e].run # NoTurn
    /\ engine' = [engine EXCEPT ![e].run = NoTurn, ![e].kind = "send", ![e].out = Append(@, how)]
    /\ outcome' = [outcome EXCEPT ![engine[e].run] = how]
    /\ EngineStep

RunsOut(e)   == \E how \in {"Completed", "Failed"} : CompletesTurn(e, how)
GivesUp(e)   == /\ engine[e].cancelled /\ engine[e].kind = "send"
                /\ CompletesTurn(e, "Interrupted")

\* spawn_supervised catches the panic: the engine is gone, the process goes on.
EnginePanics(e) ==
    /\ "panic" \in Faults /\ engine[e].run # NoTurn
    /\ engine' = [engine EXCEPT ![e] = [NewEngine EXCEPT !.st = "down", !.out = engine[e].out]]
    /\ EngineStep /\ UNCHANGED outcome

EngineActs(e) == TakesOp(e) \/ StartsMessage(e) \/ RunsOut(e) \/ GivesUp(e)

-----------------------------------------------------------------------------
(* monitor_turn.                                                           *)

Watches(x, pc) == phase = "up" /\ monitor[x].pc = pc
MonitorGoes(x, pc) == monitor' = [monitor EXCEPT ![x].pc = pc]
InterruptRequested(x) ==
    \E t \in Threads : active[t].turn = x /\ active[t].interrupt

ReceivesEnd(x) ==                        \* mutant: every end is a completion
    LET e == monitor[x].engine event == Head(engine[e].out) IN
    /\ Watches(x, "wait") /\ engine[e].out # <<>>
    /\ engine' = [engine EXCEPT ![e].out = Tail(@)]
    /\ MonitorGoes(x, "decide")
    /\ UNCHANGED <<phase, repairing, cache, requests, disk, history, crashes>>
\* The next event of the engine, of whichever of its turns.
ReceivesEvent(x) ==
    LET e == monitor[x].engine event == Head(engine[e].out) IN
    /\ Watches(x, "wait") /\ engine[e].out # <<>>
    /\ engine' = [engine EXCEPT ![e].out = Tail(@)]
    /\ IF event = "message"
       THEN message' = [message EXCEPT ![x] = "open"] /\ MonitorGoes(x, "attach")
       ELSE /\ monitor' = [monitor EXCEPT ![x].pc = "decide", ![x].status = event]
            /\ UNCHANGED message
    /\ UNCHANGED <<phase, repairing, cache, requests, turn, history, crashes>>

\* recv returned None: the engine is gone.
ChannelCloses(x) ==
    LET e == monitor[x].engine IN
    /\ Watches(x, "wait") /\ engine[e].st = "down" /\ engine[e].out = <<>>
    /\ MonitorGoes(x, "decide")
    /\ UNCHANGED <<phase, repairing, cache, engine, requests, disk, history, crashes>>

\* attach_item_to_turn: load the record, save it with the item.
Attaches(x) ==
    /\ \/ /\ Watches(x, "attach")
          /\ monitor' = [monitor EXCEPT ![x].pc = "attached", ![x].copy = turn[x]]
          /\ UNCHANGED turn
       \/ /\ Watches(x, "attached") /\ MonitorGoes(x, "wait")
          /\ turn' = [turn EXCEPT ![x] = [monitor[x].copy EXCEPT !.items = @ \cup {"message"}]]
    /\ UNCHANGED <<phase, repairing, cache, engine, requests, message, history, crashes>>

DecidesAsEngine(x) ==                    \* mutant: the engine's outcome stands
    /\ Watches(x, "decide") /\ MonitorGoes(x, "settle")
    /\ UNCHANGED <<phase, repairing, cache, engine, requests, disk, history, crashes>>
\* An interrupt that was requested outweighs what the engine says.
Decides(x) ==
    /\ Watches(x, "decide")
    /\ monitor' = [monitor EXCEPT ![x].pc = "settle",
          ![x].status = IF InterruptRequested(x) THEN "Interrupted" ELSE @]
    /\ UNCHANGED <<phase, repairing, cache, engine, requests, disk, history, crashes>>

SettlesNothing(x) ==                     \* mutant: an open message stays open
    /\ Watches(x, "settle") /\ MonitorGoes(x, "load")
    /\ UNCHANGED <<phase, repairing, cache, engine, requests, disk, history, crashes>>
Settles(x) ==
    /\ Watches(x, "settle") /\ MonitorGoes(x, "load")
    /\ message' = [message EXCEPT ![x] = IF @ = "open" THEN "closed" ELSE @]
    /\ UNCHANGED <<phase, repairing, cache, engine, requests, turn, history, crashes>>

\* load_turn, save_turn with the final status; save_thread and turn.completed.
Finishes(x) ==
    /\ \/ /\ Watches(x, "load")
          /\ monitor' = [monitor EXCEPT ![x].pc = "save", ![x].copy = turn[x]]
          /\ UNCHANGED turn
       \/ /\ Watches(x, "save") /\ MonitorGoes(x, "clear")
          /\ turn' = [turn EXCEPT ![x] =
                [monitor[x].copy EXCEPT !.status = monitor[x].status]]
    /\ UNCHANGED <<phase, repairing, cache, engine, requests, message, history, crashes>>

\* Under the lock; the thread is touched whether or not it is loaded.
Clears(x) ==
    LET t == turn[x].thread IN
    /\ Watches(x, "clear") /\ MonitorGoes(x, "gone")
    /\ active' = IF active[t].turn = x THEN [active EXCEPT ![t] = Inactive] ELSE active
    /\ lru' = touch_lru(lru, t)
    /\ UNCHANGED <<phase, repairing, loaded, engine, requests, disk, history, crashes>>

\* A save or an emit_event fails and `?` ends the monitor.
MonitorFails(x) ==
    /\ "disk" \in Faults /\ phase = "up" /\ monitor[x].pc \notin {"none", "gone"}
    /\ MonitorGoes(x, "gone")
    /\ UNCHANGED <<phase, repairing, cache, engine, requests, disk, history, crashes>>

MonitorActs(x) ==
    \/ ReceivesEvent(x) \/ ChannelCloses(x) \/ Attaches(x) \/ Decides(x)
    \/ Settles(x) \/ Finishes(x) \/ Clears(x)

-----------------------------------------------------------------------------
(* Crash, and recover_interrupted_state in RuntimeThreadManager::open.     *)

StartedTurns == {x \in Turns : turn[x].status # "absent"}    \* mutant: the finished ones too
Unfinished == {x \in Turns : turn[x].status = "InProgress"}

Crash ==
    /\ crashes < MaxCrashes /\ crashes' = crashes + 1
    /\ phase' = "scan" /\ repairing' = NoTurn
    /\ loaded' = [t \in Threads |-> NoEngine]
    /\ active' = [t \in Threads |-> Inactive] /\ lru' = <<>>
    /\ engine' = [e \in Engines |-> NewEngine]
    /\ caller' = [c \in Callers |-> Idle]
    /\ steerer' = [s \in Steerers |-> NoSteer]
    /\ monitor' = [x \in Turns |-> NoMonitor]
    /\ UNCHANGED <<disk, history>>

\* The turn is saved first ...
RecoversTurn(x) ==
    /\ phase = "scan" /\ x \in Unfinished
    /\ turn' = [turn EXCEPT ![x].status = "Interrupted"]
    /\ phase' = "items" /\ repairing' = x
    /\ UNCHANGED <<cache, engine, requests, monitor, message, history, crashes>>

\* ... then those of its items that are open.
RecoversItems ==
    /\ phase = "items"
    /\ message' = IF "message" \in turn[repairing].items /\ message[repairing] = "open"
                  THEN [message EXCEPT ![repairing] = "closed"] ELSE message
    /\ phase' = "scan" /\ repairing' = NoTurn
    /\ UNCHANGED <<cache, engine, requests, monitor, turn, history, crashes>>

RecoveredAtOnce ==                       \* mutant: no recovery
    /\ phase = "scan" /\ phase' = "up"
    /\ UNCHANGED <<repairing, cache, engine, requests, monitor, disk, history, crashes>>
Recovered ==
    /\ phase = "scan" /\ Unfinished = {}
    /\ phase' = "up"
    /\ UNCHANGED <<repairing, cache, engine, requests, monitor, disk, history, crashes>>

-----------------------------------------------------------------------------
Next ==
    \/ \E c \in Callers : start_turn(c)
    \/ \E t \in Threads, x \in Turns : interrupt_turn(t, x)
    \/ \E s \in Steerers : steer_turn(s)
    \/ \E e \in Engines : EngineActs(e) \/ EnginePanics(e)
    \/ \E x \in Turns : MonitorActs(x) \/ MonitorFails(x) \/ RecoversTurn(x)
    \/ RecoversItems \/ Recovered \/ Crash

Spec == Init /\ [][Next]_vars

-----------------------------------------------------------------------------
(* Fairness.  A request and a monitor never stop between two of their awaits *)
(* (the tokio mutex is fair), an engine takes its ops, and a turn comes to   *)
(* its end (its loop is bounded by max_steps and the client's timeouts).     *)
Fairness ==
    /\ \A c \in Callers : WF_vars(\/ InsertsEngine(c) \/ ShutsDownEvicted(c) \/ ChecksActive(c)
                                 \/ SavesTurn(c) \/ Activates(c) \/ SendsOp(c))
    /\ \A e \in Engines : WF_vars(TakesOp(e)) /\ WF_vars(RunsOut(e))
    /\ \A x \in Turns : WF_vars(MonitorActs(x))
    /\ WF_vars(RecoversItems \/ Recovered \/ \E x \in Turns : RecoversTurn(x))

FairSpec == Spec /\ Fairness

-----------------------------------------------------------------------------
(* Properties.                                                             *)

MonitorPC == {"none", "wait", "attach", "attached", "decide", "settle", "load", "save",
              "clear", "gone"}

\* Type correctness of the cache, the tasks, the engines and the records.
TypeOK ==
    /\ phase \in {"up", "scan", "items"} /\ repairing \in Turns \cup {NoTurn}
    /\ loaded \in [Threads -> Engines \cup {NoEngine}]
    /\ active \in [Threads -> [turn : Turns \cup {NoTurn}, interrupt : BOOLEAN]]
    /\ lru \in Seq(Threads)
    /\ engine \in [Engines -> [st : {"free", "up", "down"}, ops : Seq(Turns \cup {NoTurn}),
                               run : Turns \cup {NoTurn}, kind : {"send", "compact"},
                               cancelled : BOOLEAN, spoke : BOOLEAN, out : Seq({"message"} \cup Terminal)]]
    /\ caller \in [Callers -> [pc : {"idle", "insert", "evict", "check", "save", "activate", "send"},
                               engine : Engines \cup {NoEngine}, turn : Turns \cup {NoTurn},
                               evicted : Engines \cup {NoEngine}]]
    /\ steerer \in [Steerers -> [pc : {"idle", "load", "save", "again"},
                                 turn : Turns \cup {NoTurn}, copy : Record]]
    /\ monitor \in [Turns -> [pc : MonitorPC, engine : Engines \cup {NoEngine},
                              status : Terminal, copy : Record]]
    /\ turn \in [Turns -> Record]
    /\ message \in [Turns -> {"none", "open", "closed"}]
    /\ asked \subseteq Turns /\ crashes \in Nat
    /\ outcome \in [Turns -> {"none"} \cup Terminal]

Monitored == {x \in Turns : monitor[x].pc \notin {"none", "gone"}}

\* Every loaded engine is on the list eviction works from, and no thread is on
\* it twice: else it could never be evicted, or be evicted too early.
LruCoversLoaded ==
    /\ Loaded \subseteq Range(lru)
    /\ \A i, j \in DOMAIN lru : lru[i] = lru[j] => i = j

\* A turn that is monitored is the active turn of its thread, and the engine in
\* the cache is the one its monitor listens to; so a thread has one such turn,
\* and its interrupts and approvals reach the engine that runs it.
MonitoredIsActive == \A x \in Monitored :
    LET t == turn[x].thread
    IN  active[t].turn = x /\ loaded[t] = monitor[x].engine

\* A turn whose interrupt was accepted while its monitor still had to decide
\* does not end as completed or failed, whatever the engine reports.
InterruptWins == \A x \in asked :
    turn[x].status \in Terminal => turn[x].status = "Interrupted"

\* A turn that is recorded as completed or failed is one the engine has run and
\* reported as such: no end is invented, or taken from another turn.
HonestOutcome == \A x \in Turns :
    turn[x].status \in {"Completed", "Failed"} => outcome[x] = turn[x].status

\* An open message belongs to a turn whose monitor will close it, or recovery
\* missed it: the message was not yet attached to its turn when the process
\* died, or recovery died itself between the turn and its items and finds the
\* turn interrupted when it runs again.
LeftOpen(x) ==
    /\ turn[x].status = "Interrupted"
    /\ (crashes >= 1 /\ "message" \notin turn[x].items) \/ crashes >= 2
OpenMessageIsWatched == \A x \in Turns :
    phase = "up" /\ message[x] = "open" => x \in Monitored \/ LeftOpen(x)

\* The final status of a turn is changed by nobody, but for a steer_turn that
\* read the record while the turn was in progress and saves that copy later.
SavesOldCopy(s, x) ==
    /\ steerer[s].turn = x /\ steerer[s].copy.status = "InProgress"
    /\ SteerSaves(s)
KeepsFinal == \A x \in Turns :
    turn[x].status \in Terminal =>
        turn'[x].status = turn[x].status \/ \E s \in Steerers : SavesOldCopy(s, x)
FinishedIsFinal == [][KeepsFinal]_vars

\* Every turn that was recorded as started gets a final status.
EveryTurnEnds == \A x \in Turns :
    turn[x].status = "InProgress" ~> turn[x].status \in Terminal
=============================================================================
