------------------------------ MODULE SubAgents ------------------------------
(***************************************************************************)
(* Sub-agents: crates/tui/src/tools/subagent/mod.rs, and the end of a turn *)
(* of the engine that started them (core/engine/turn_loop.rs:885-975).     *)
(*                                                                         *)
(* SubAgentManager is behind one RwLock and awaits nothing while it holds  *)
(* it, so each of its operations is one action.  An agent is a detached    *)
(* task: it works, returns, and only then takes the lock to report.  The   *)
(* turn looks at its completion channel and at the manager one after the   *)
(* other.                                                                  *)
(***************************************************************************)
EXTENDS Naturals, FiniteSets

CONSTANTS
    MaxSpawns,      \* bound: agents are numbered in the order they are spawned
    MaxAgents,      \* max_agents
    MaxSpawnDepth,  \* max_spawn_depth
    Faults,         \* subset of {"panic"}
    MaxResumes,     \* bound on how often a turn goes on (max_steps counts every step)
    MaxTurns, MaxCrashes      \* bounds

Agents == 1..MaxSpawns
Final  == {"Completed", "Failed", "Cancelled", "Interrupted"}

ASSUME SubAgentsAssumption ==
    /\ MaxSpawns \in Nat /\ MaxAgents \in Nat \ {0} /\ MaxSpawnDepth \in Nat /\ MaxResumes \in Nat
    /\ Faults \subseteq {"panic"} /\ MaxTurns \in Nat /\ MaxCrashes \in Nat

VARIABLES
    status,   \* SubAgentManager.agents: the status each record shows
    disk,     \* the same in the state file
    task,     \* the detached task of an agent
    result,   \* what its run_subagent returned
    aborted,  \* tasks whose handle was told to abort
    depth,    \* spawn_depth of an agent
    wired,    \* agents whose runtime has a parent_completion_tx
    queue,    \* rx_subagent_completion of the engine
    turn,     \* where the turn loop stands
    resumes,  \* how often it has gone on after the model had nothing more to do
    counted,  \* agents that running_count counted when the turn went into hold
    told,     \* history: the status that was sent to the engine for an agent
    deserted, \* history: agents closed or panicked while the turn was in hold
    turns, crashes

manager == <<status, disk>>
agent   == <<task, result, aborted, depth, wired>>
engine  == <<turn, resumes, counted, turns>>
vars == <<manager, agent, queue, engine, told, deserted, crashes>>

Present == {a \in Agents : status[a] # "absent"}
Running == {a \in Agents : status[a] = "Running"}
Live    == {a \in Agents : task[a] \in {"works", "returned"}}

\* running_count: the handle must be there (cancel takes it, a report drops it) and
\* its task unfinished.
CountedByStatus == Running                        \* mutant: a panicked agent counts
CountedRunning  == Running \cap Live

\* emit_parent_completion speaks for direct children only.
Direct(a) == depth[a] = 1 /\ a \in wired

Init ==
    /\ status = [a \in Agents |-> "absent"] /\ disk = status
    /\ task = [a \in Agents |-> "none"] /\ result = [a \in Agents |-> "none"]
    /\ aborted = {} /\ depth = [a \in Agents |-> 0] /\ wired = {}
    /\ queue = {} /\ turn = "idle" /\ resumes = 0 /\ counted = {}
    /\ told = [a \in Agents |-> "none"] /\ deserted = {} /\ turns = 0 /\ crashes = 0

\* persist_state: the file becomes what the manager holds.
Persist == disk' = status'

-----------------------------------------------------------------------------
(* The manager.                                                            *)

\* cleanup forgets agents that started an hour ago, unless they run.
Cleaned(old) == [a \in Agents |-> IF a \in old THEN "absent" ELSE status[a]]
cleanup(old) == old \subseteq Present \ Running

Fresh(a) == task[a] = "none" /\ \A b \in 1..a - 1 : task[b] # "none"

HasRoomForOneMore == Cardinality(CountedRunning) <= MaxAgents     \* mutant: > for >=
HasRoom == Cardinality(CountedRunning) < MaxAgents

\* spawn_background_with_assignment_options, for a tool call of the turn, for a tool
\* call of an agent (which passes its channel on), or for Op::SpawnSubAgent, whose
\* runtime has no channel.
Spawn(a, d, channel) ==
    /\ Fresh(a) /\ HasRoom
    /\ \E old \in SUBSET Agents :
         /\ cleanup(old)
         /\ status' = [Cleaned(old) EXCEPT ![a] = "Running"]
    /\ Persist
    /\ task' = [task EXCEPT ![a] = "works"]
    /\ depth' = [depth EXCEPT ![a] = d]
    /\ wired' = IF channel THEN wired \cup {a} ELSE wired
    /\ UNCHANGED <<result, aborted, queue, engine, told, deserted, crashes>>

TurnSpawns(a) == turn = "model" /\ MaxSpawnDepth >= 1 /\ Spawn(a, 1, TRUE)
OpSpawns(a)   == turn = "idle" /\ Spawn(a, 1, FALSE)
AgentSpawns(b, a) ==
    /\ task[b] = "works" /\ depth[b] + 1 <= MaxSpawnDepth
    /\ Spawn(a, depth[b] + 1, b \in wired)

\* A spawn that finds no room, and Op::ListSubAgents, clean up all the same.
CleanUp ==
    /\ ~HasRoom \/ turn = "idle"
    /\ \E old \in SUBSET Agents :
         cleanup(old) /\ old # {} /\ status' = Cleaned(old)
    /\ Persist
    /\ UNCHANGED <<agent, queue, engine, told, deserted, crashes>>

Deserts(a) == deserted' = IF turn = "hold" THEN deserted \cup {a} ELSE deserted

\* agent_close: cancel takes the handle and aborts the task, which ends at its next
\* await, or returns first.
agent_close(a) ==
    /\ turn = "model" \/ \E b \in Agents : task[b] = "works"
    /\ status[a] = "Running"
    /\ status' = [status EXCEPT ![a] = "Cancelled"] /\ Persist
    /\ aborted' = aborted \cup {a} /\ Deserts(a)
    /\ UNCHANGED <<task, result, depth, wired, queue, engine, told, crashes>>

-----------------------------------------------------------------------------
(* The task of an agent.                                                   *)

\* run_subagent comes back with Ok or Err.
AgentReturns(a) ==
    /\ task[a] = "works"
    /\ task' = [task EXCEPT ![a] = "returned"]
    /\ \E r \in {"Completed", "Failed"} : result' = [result EXCEPT ![a] = r]
    /\ UNCHANGED <<manager, aborted, depth, wired, queue, engine, told, deserted, crashes>>

TaskGone(a) ==
    /\ task' = [task EXCEPT ![a] = "gone"]
    /\ result' = [result EXCEPT ![a] = "none"] /\ aborted' = aborted \ {a}
    /\ UNCHANGED <<manager, depth, wired, queue, engine, told, crashes>>

\* An aborted task stops at an await, also while it waits for the lock.
Stops(a) == a \in aborted /\ a \in Live /\ TaskGone(a) /\ UNCHANGED deserted

\* spawn_supervised catches the panic; nobody tells the manager.
Panics(a) ==
    /\ "panic" \in Faults /\ task[a] = "works"
    /\ TaskGone(a) /\ Deserts(a)

\* update_from_result and update_failed write over whatever the status is now.
UpdatedUnlessCancelled(a) ==                      \* mutant: a cancel is final
    IF status[a] \in {"absent", "Cancelled"} THEN status
                                             ELSE [status EXCEPT ![a] = result[a]]
Updated(a) == IF status[a] = "absent" THEN status ELSE [status EXCEPT ![a] = result[a]]

SpeaksOnSuccess(a) == Direct(a) /\ result[a] = "Completed"   \* mutant: errors are silent
Speaks(a) == Direct(a)

\* Under one guard: the record, the file, the message to the turn.
AgentReports(a) ==
    /\ task[a] = "returned"
    /\ task' = [task EXCEPT ![a] = "gone"]
    /\ status' = Updated(a) /\ Persist
    /\ IF Speaks(a) THEN /\ queue' = queue \cup {a}
                         /\ told' = [told EXCEPT ![a] = result[a]]
                    ELSE UNCHANGED <<queue, told>>
    /\ result' = [result EXCEPT ![a] = "none"] /\ aborted' = aborted \ {a}
    /\ UNCHANGED <<depth, wired, engine, deserted, crashes>>

-----------------------------------------------------------------------------
(* The end of a turn.                                                      *)

TurnStep == UNCHANGED <<manager, agent, told, crashes>>
LeavesHold == counted' = {} /\ deserted' = {} /\ UNCHANGED turns
Resume   == turn' = "model" /\ resumes' = resumes + 1 /\ LeavesHold
EndTurn  == turn' = "idle" /\ resumes' = 0 /\ LeavesHold

StartTurn ==
    /\ turn = "idle" /\ turns < MaxTurns
    /\ turn' = "model" /\ turns' = turns + 1
    /\ UNCHANGED <<resumes, counted, deserted, queue>> /\ TurnStep

\* The model answers without tool calls: try_recv until the channel is empty.
HearsQueued ==
    /\ turn = "model" /\ resumes < MaxResumes /\ queue # {}
    /\ Resume /\ queue' = {} /\ TurnStep

HearsNothing ==
    /\ turn = "model" /\ resumes < MaxResumes /\ queue = {}
    /\ turn' = "drained"
    /\ UNCHANGED <<resumes, counted, deserted, queue, turns>> /\ TurnStep

\* should_hold_turn_for_subagents.
HoldsForAgents ==
    /\ turn = "drained" /\ CountedRunning # {}
    /\ turn' = "hold" /\ counted' = CountedRunning
    /\ UNCHANGED <<resumes, deserted, queue, turns>> /\ TurnStep

TurnCompletes ==
    /\ turn = "drained" /\ CountedRunning = {}
    /\ EndTurn /\ UNCHANGED queue /\ TurnStep

HoldHears == turn = "hold" /\ queue # {} /\ Resume /\ queue' = {} /\ TurnStep

\* The select is biased: a completion is taken before a steer.
HoldIsSteered ==
    /\ turn = "hold" /\ queue = {} /\ resumes < MaxResumes
    /\ Resume /\ UNCHANGED queue /\ TurnStep

\* "Reached maximum steps", or the token is found cancelled; agents live on.
TurnIsCut ==
    /\ turn \in {"model", "hold"}
    /\ EndTurn /\ UNCHANGED queue /\ TurnStep

\* The process ends; load_state shows agents that were running as Interrupted.
Loaded(s) == IF s = "Running" THEN "Interrupted" ELSE s

Crash ==
    /\ crashes < MaxCrashes /\ crashes' = crashes + 1
    /\ status' = [a \in Agents |-> Loaded(disk[a])]
    /\ task' = [a \in Agents |-> IF task[a] = "none" THEN "none" ELSE "gone"]
    /\ result' = [a \in Agents |-> "none"] /\ aborted' = {}
    /\ queue' = {} /\ EndTurn
    /\ UNCHANGED <<disk, depth, wired, told>>

Turn ==
    \/ HearsQueued \/ HearsNothing \/ HoldsForAgents \/ TurnCompletes \/ HoldHears

Next ==
    \/ Turn \/ StartTurn \/ HoldIsSteered \/ TurnIsCut \/ CleanUp \/ Crash
    \/ \E a \in Agents :
         \/ TurnSpawns(a) \/ OpSpawns(a) \/ agent_close(a)
         \/ AgentReturns(a) \/ AgentReports(a) \/ Stops(a) \/ Panics(a)
         \/ \E b \in Agents : AgentSpawns(b, a)

Spec == Init /\ [][Next]_vars

\* Every runnable task is polled, and a run of an agent ends: max_steps bounds its
\* steps, STEP_API_TIMEOUT and TOOL_TIMEOUT each of them.
FairSpec ==
    /\ Spec /\ WF_vars(Turn)
    /\ \A a \in Agents : WF_vars(AgentReturns(a)) /\ WF_vars(AgentReports(a))

-----------------------------------------------------------------------------
(* Properties.                                                             *)

Statuses == {"absent", "Running"} \cup Final

TypeOK ==
    /\ status \in [Agents -> Statuses] /\ disk \in [Agents -> Statuses]
    /\ task \in [Agents -> {"none", "works", "returned", "gone"}]
    /\ result \in [Agents -> {"none", "Completed", "Failed"}]
    /\ aborted \subseteq Agents /\ wired \subseteq Agents /\ deserted \subseteq Agents
    /\ depth \in [Agents -> Nat]
    /\ queue \subseteq Agents /\ counted \subseteq Agents
    /\ turn \in {"idle", "model", "drained", "hold"} /\ resumes \in Nat
    /\ told \in [Agents -> {"none", "Completed", "Failed"}]
    /\ turns \in Nat /\ crashes \in Nat

\* However agents start agents, finish late, are closed or panic: no more than
\* max_agents run that nobody has told to stop.
LimitHolds == Cardinality(Live \ aborted) <= MaxAgents

\* A turn that waits has something to wait for: an agent it counted is still at
\* work, unless it counted one that does not report to it (a grandchild, one that
\* Op::SpawnSubAgent started) or one was closed or panicked since.
Mute(a) == ~Direct(a) \/ a \in deserted
HoldIsHeard == (turn = "hold" /\ queue = {}) => \E a \in counted : a \in Live \/ Mute(a)

\* What the sentinel told the model is what agent_eval and the file say from then on,
\* restarts included, until the agent is forgotten.
ToldIsKept ==
    \A a \in Agents : told[a] # "none" => /\ status[a] \in {told[a], "absent"}
                                          /\ disk[a] = status[a]

\* A turn does not wait for ever, unless for an agent that does not report to it.
HoldEnds == []<>(turn = "hold" => \E a \in counted : Mute(a))

\* "the parent is promised it'll see the sentinel when a child finishes": a turn
\* that ends by itself leaves no completion behind.
ChildResultSeen == [][TurnCompletes => queue = {}]_vars
=============================================================================
