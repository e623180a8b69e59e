--------------------------- MODULE SubAgentsProofs ---------------------------
(***************************************************************************)
(* Theorems about SubAgents, for any numbers of agents, turns, resumes and *)
(* crashes, any limits, and with or without panics.                        *)
(***************************************************************************)
EXTENDS SubAgents, FiniteSetTheorems, TLAPS

\* An agent that was not spawned has left no trace.
Unspawned == \A a \in Agents : task[a] = "none" =>
    /\ status[a] = "absent" /\ disk[a] = "absent" /\ told[a] = "none"
    /\ a \notin aborted /\ a \notin counted

\* A task that nobody has told to stop is shown as running, and conversely.
AbortedIsKnown == \A a \in Agents :
    /\ a \in Live /\ a \notin aborted => status[a] = "Running"
    /\ a \in aborted => status[a] # "Running"

\* What was told is the last word of its task, which had one to say.
ToldIsLast == \A a \in Agents :
    /\ told[a] # "none" => task[a] = "gone"
    /\ task[a] = "returned" => result[a] # "none"

\* Each agent a turn waits for is at work, has spoken, or will not speak; and one
\* that was told to stop is known to have been.
HoldIsCovered == turn = "hold" =>
    /\ counted # {}
    /\ \A a \in counted : a \in Live \/ a \in queue \/ Mute(a)
    /\ \A a \in counted : a \in aborted => a \in deserted

\* The inductive invariant.
IInv ==
    /\ TypeOK /\ LimitHolds /\ ToldIsKept
    /\ Unspawned /\ AbortedIsKnown /\ ToldIsLast /\ HoldIsCovered

USE SubAgentsAssumption

LEMMA Finitely == IsFiniteSet(Agents) /\ \A S \in SUBSET Agents : IsFiniteSet(S)
<1>1. IsFiniteSet(1..MaxSpawns) BY FS_Interval
<1> QED BY <1>1, FS_Subset DEF Agents

\* Fewer tasks do not break the limit.
LEMMA FewerTasks ==
    ASSUME LimitHolds, (Live \ aborted)' \subseteq Live \ aborted
    PROVE  LimitHolds'
<1>1. IsFiniteSet(Live \ aborted) BY Finitely DEF Live
<1>2. /\ Cardinality((Live \ aborted)') <= Cardinality(Live \ aborted)
      /\ IsFiniteSet((Live \ aborted)')
    BY <1>1, FS_Subset
<1>3. Cardinality((Live \ aborted)') \in Nat /\ Cardinality(Live \ aborted) \in Nat
    BY <1>1, <1>2, FS_CardinalityType
<1> QED BY <1>2, <1>3 DEF LimitHolds

LEMMA Initially == Init => IInv
<1> SUFFICES ASSUME Init PROVE IInv OBVIOUS
<1>1. TypeOK BY DEF Init, TypeOK, Statuses
<1>2. LimitHolds
    <2>1. Live \ aborted = {} BY DEF Init, Live
    <2> QED BY <2>1, FS_EmptySet DEF LimitHolds
<1>3. ToldIsKept /\ Unspawned /\ AbortedIsKnown /\ ToldIsLast /\ HoldIsCovered
    BY DEF Init, ToldIsKept, Unspawned, AbortedIsKnown, ToldIsLast, HoldIsCovered, Live
<1> QED BY <1>1, <1>2, <1>3 DEF IInv

\* A new agent finds room: those that nobody told to stop are all counted.
LEMMA SpawnStep ==
    ASSUME IInv, NEW a \in Agents, NEW d \in Nat, NEW channel \in BOOLEAN, Spawn(a, d, channel)
    PROVE  IInv'
<1>1. PICK old \in SUBSET Agents :
        cleanup(old) /\ status' = [Cleaned(old) EXCEPT ![a] = "Running"]
    BY DEF Spawn
<1>2. /\ task[a] = "none" /\ status' \in [Agents -> Statuses] /\ disk' = status'
      /\ status'[a] = "Running"
      /\ \A b \in Agents \ {a} : status'[b] = IF b \in old THEN "absent" ELSE status[b]
    BY <1>1 DEF Spawn, Fresh, Persist, Cleaned, IInv, TypeOK, Statuses
<1>3. TypeOK'
    BY <1>2 DEF Spawn, IInv, TypeOK, engine
<1>4. LimitHolds'
    <2>1. (Live \ aborted)' \subseteq (Live \ aborted) \cup {a}
        BY DEF Spawn, Live, IInv, TypeOK
    <2>2. Live \ aborted \subseteq CountedRunning
        BY DEF IInv, AbortedIsKnown, CountedRunning, Running, Live
    <2>3. /\ IsFiniteSet(CountedRunning) /\ IsFiniteSet(Live \ aborted)
          /\ IsFiniteSet((Live \ aborted) \cup {a})
          /\ Cardinality((Live \ aborted) \cup {a}) <= Cardinality(Live \ aborted) + 1
        <3>1. IsFiniteSet(CountedRunning) /\ IsFiniteSet(Live \ aborted)
            BY Finitely DEF CountedRunning, Running, Live
        <3>2. Cardinality(Live \ aborted) \in Nat BY <3>1, FS_CardinalityType
        <3>3. /\ IsFiniteSet((Live \ aborted) \cup {a})
              /\ Cardinality((Live \ aborted) \cup {a}) =
                    IF a \in Live \ aborted THEN Cardinality(Live \ aborted)
                                            ELSE Cardinality(Live \ aborted) + 1
            BY <3>1, FS_AddElement, Zenon
        <3>4. Cardinality(Live \ aborted) <= Cardinality(Live \ aborted) + 1 BY <3>2
        <3> QED BY <3>1, <3>2, <3>3, <3>4
    <2>4. /\ Cardinality(Live \ aborted) <= Cardinality(CountedRunning)
          /\ Cardinality((Live \ aborted)') <= Cardinality((Live \ aborted) \cup {a})
          /\ IsFiniteSet((Live \ aborted)')
        BY <2>1, <2>2, <2>3, FS_Subset
    <2>5. /\ Cardinality(CountedRunning) \in Nat /\ Cardinality(Live \ aborted) \in Nat
          /\ Cardinality((Live \ aborted)') \in Nat
          /\ Cardinality((Live \ aborted) \cup {a}) \in Nat
        BY <2>3, <2>4, FS_CardinalityType
    <2>6. Cardinality(CountedRunning) < MaxAgents BY DEF Spawn, HasRoom
    <2> QED BY <2>3, <2>4, <2>5, <2>6 DEF LimitHolds
<1>5. ToldIsKept'
    BY <1>2 DEF Spawn, IInv, TypeOK, ToldIsKept, Unspawned
<1>6. Unspawned' /\ ToldIsLast'
    BY <1>1, <1>2 DEF Spawn, IInv, TypeOK, Unspawned, ToldIsLast, engine
<1>7. AbortedIsKnown'
    BY <1>1, <1>2 DEF Spawn, cleanup, Running, IInv, TypeOK, Unspawned, AbortedIsKnown, Live
<1>8. HoldIsCovered'
    BY <1>2 DEF Spawn, IInv, TypeOK, Unspawned, HoldIsCovered, Live, Mute, Direct, engine
<1> QED BY <1>3, <1>4, <1>5, <1>6, <1>7, <1>8 DEF IInv

LEMMA CleanUpStep == ASSUME IInv, CleanUp PROVE IInv'
<1>1. PICK old \in SUBSET Agents : cleanup(old) /\ status' = Cleaned(old)
    BY DEF CleanUp
<1>2. /\ status' \in [Agents -> Statuses] /\ disk' = status'
      /\ \A b \in Agents : status'[b] = IF b \in old THEN "absent" ELSE status[b]
      /\ \A b \in old : status[b] # "Running"
    BY <1>1 DEF CleanUp, cleanup, Running, Persist, Cleaned, IInv, TypeOK, Statuses
<1>3. TypeOK'
    BY <1>2 DEF CleanUp, agent, engine, IInv, TypeOK
<1>4. LimitHolds'
    BY FewerTasks DEF CleanUp, agent, IInv, Live
<1>5. ToldIsKept' /\ Unspawned' /\ ToldIsLast'
    BY <1>2 DEF CleanUp, agent, engine, IInv, TypeOK, ToldIsKept, Unspawned, ToldIsLast
<1>6. AbortedIsKnown' /\ HoldIsCovered'
    BY <1>2 DEF CleanUp, agent, engine, IInv, TypeOK, AbortedIsKnown, HoldIsCovered, Live, Mute, Direct
<1> QED BY <1>3, <1>4, <1>5, <1>6 DEF IInv

LEMMA CloseStep == ASSUME IInv, NEW a \in Agents, agent_close(a) PROVE IInv'
<1> USE DEF agent_close, engine, IInv, TypeOK
<1>1. TypeOK' BY DEF Statuses, Final, Persist, Deserts
<1>2. LimitHolds' BY FewerTasks DEF Live
<1>3. ToldIsKept' /\ Unspawned' /\ ToldIsLast'
    BY DEF Persist, ToldIsKept, Unspawned, ToldIsLast
<1>4. AbortedIsKnown' BY DEF AbortedIsKnown, Live
<1>5. HoldIsCovered' BY DEF HoldIsCovered, Live, Mute, Direct, Deserts
<1> QED BY <1>1, <1>2, <1>3, <1>4, <1>5

LEMMA ReturnStep == ASSUME IInv, NEW a \in Agents, AgentReturns(a) PROVE IInv'
<1> USE DEF AgentReturns, manager, engine, IInv, TypeOK
<1>1. TypeOK' OBVIOUS
<1>2. LimitHolds' BY FewerTasks DEF Live
<1>3. ToldIsKept' /\ Unspawned' /\ ToldIsLast'
    BY DEF ToldIsKept, Unspawned, ToldIsLast
<1>4. AbortedIsKnown' /\ HoldIsCovered' BY DEF AbortedIsKnown, HoldIsCovered, Live, Mute, Direct
<1> QED BY <1>1, <1>2, <1>3, <1>4

\* A task that ends without a word was told to stop, or panicked.
LEMMA GoneStep == ASSUME IInv, NEW a \in Agents, Stops(a) \/ Panics(a) PROVE IInv'
<1> USE DEF Stops, Panics, TaskGone, manager, engine, IInv, TypeOK
<1>1. TypeOK' BY DEF Deserts
<1>2. LimitHolds' BY FewerTasks DEF Live
<1>3. ToldIsKept' /\ Unspawned' /\ ToldIsLast'
    BY DEF ToldIsKept, Unspawned, ToldIsLast, Live
<1>4. AbortedIsKnown' BY DEF AbortedIsKnown, Live
<1>5. HoldIsCovered' BY DEF HoldIsCovered, Live, Mute, Direct, Deserts
<1> QED BY <1>1, <1>2, <1>3, <1>4, <1>5

LEMMA ReportStep == ASSUME IInv, NEW a \in Agents, AgentReports(a) PROVE IInv'
<1> USE DEF AgentReports, engine, IInv, TypeOK
<1>1. TypeOK' BY DEF Updated, Persist, Statuses, Final, ToldIsLast
<1>2. LimitHolds' BY FewerTasks DEF Live
<1>3. ToldIsKept' BY DEF ToldIsKept, ToldIsLast, Updated, Persist
<1>4. Unspawned' /\ ToldIsLast' BY DEF Unspawned, ToldIsLast, Updated, Persist
<1>5. AbortedIsKnown' BY DEF AbortedIsKnown, Live, Updated
<1>6. HoldIsCovered' BY DEF HoldIsCovered, Live, Mute, Direct, Speaks
<1> QED BY <1>1, <1>2, <1>3, <1>4, <1>5, <1>6

\* Steps of the turn leave the agents alone.
LEMMA TurnStepKeeps ==
    ASSUME IInv, TurnStep, TypeOK', HoldIsCovered', counted' \subseteq counted \cup Live
    PROVE  IInv'
<1> USE DEF TurnStep, manager, agent, IInv
<1>1. LimitHolds' BY FewerTasks DEF Live
<1>2. ToldIsKept' /\ Unspawned' /\ AbortedIsKnown' /\ ToldIsLast'
    BY DEF ToldIsKept, Unspawned, AbortedIsKnown, ToldIsLast, Live
<1> QED BY <1>1, <1>2

LEMMA EngineSteps ==
    ASSUME IInv, Turn \/ StartTurn \/ HoldIsSteered \/ TurnIsCut
    PROVE  IInv'
<1> USE DEF TurnStep, manager, agent, IInv, TypeOK
<1>1. CASE HoldsForAgents
    <2>1. counted' = Running \cap Live /\ counted' # {} /\ counted' \subseteq Agents
        BY <1>1 DEF HoldsForAgents, CountedRunning, Running, Live
    <2>2. HoldIsCovered'
        BY <1>1, <2>1 DEF HoldsForAgents, HoldIsCovered, AbortedIsKnown, Running, Live
    <2> QED BY <1>1, <2>1, <2>2, TurnStepKeeps DEF HoldsForAgents
<1>2. CASE HearsNothing \/ StartTurn
    <2>1. HoldIsCovered' BY <1>2 DEF HearsNothing, StartTurn, HoldIsCovered
    <2> QED BY <1>2, <2>1, TurnStepKeeps DEF HearsNothing, StartTurn
<1>3. CASE HearsQueued \/ HoldHears \/ HoldIsSteered \/ TurnCompletes \/ TurnIsCut
    <2> USE DEF HearsQueued, HoldHears, HoldIsSteered, TurnCompletes, TurnIsCut, Resume, EndTurn,
                LeavesHold
    <2>1. HoldIsCovered' BY <1>3 DEF HoldIsCovered
    <2> QED BY <1>3, <2>1, TurnStepKeeps
<1> QED BY <1>1, <1>2, <1>3 DEF Turn

LEMMA CrashStep == ASSUME IInv, Crash PROVE IInv'
<1> USE DEF Crash, EndTurn, LeavesHold, IInv, TypeOK
<1>1. TypeOK' BY DEF Loaded, Statuses, Final
<1>2. LimitHolds' BY FewerTasks DEF Live
<1>3. ToldIsKept' BY DEF Loaded, ToldIsKept
<1>4. Unspawned' /\ ToldIsLast' BY DEF Loaded, Unspawned, ToldIsLast
<1>5. AbortedIsKnown' /\ HoldIsCovered' BY DEF AbortedIsKnown, HoldIsCovered, Live
<1> QED BY <1>1, <1>2, <1>3, <1>4, <1>5

LEMMA Step == ASSUME IInv, [Next]_vars PROVE IInv'
<1>1. CASE UNCHANGED vars
    <2> USE <1>1 DEF vars, manager, agent, engine, IInv
    <2>1. TypeOK' BY DEF TypeOK
    <2>2. LimitHolds' BY FewerTasks DEF Live
    <2>3. ToldIsKept' /\ Unspawned' /\ AbortedIsKnown' /\ ToldIsLast' /\ HoldIsCovered'
        BY DEF ToldIsKept, Unspawned, AbortedIsKnown, ToldIsLast, HoldIsCovered, Live, Mute, Direct
    <2> QED BY <2>1, <2>2, <2>3
<1>2. ASSUME NEW a \in Agents,
             TurnSpawns(a) \/ OpSpawns(a) \/ \E b \in Agents : AgentSpawns(b, a)
      PROVE  IInv'
    <2>1. CASE TurnSpawns(a) \/ OpSpawns(a) BY <2>1, SpawnStep DEF TurnSpawns, OpSpawns
    <2>2. ASSUME NEW b \in Agents, AgentSpawns(b, a) PROVE IInv'
        <3>1. depth[b] + 1 \in Nat /\ (b \in wired) \in BOOLEAN BY DEF IInv, TypeOK
        <3> QED BY <2>2, <3>1, SpawnStep DEF AgentSpawns
    <2> QED BY <1>2, <2>1, <2>2
<1>3. ASSUME NEW a \in Agents,
             agent_close(a) \/ AgentReturns(a) \/ AgentReports(a) \/ Stops(a) \/ Panics(a)
      PROVE  IInv'
    BY <1>3, CloseStep, ReturnStep, ReportStep, GoneStep
<1>4. CASE Turn \/ StartTurn \/ HoldIsSteered \/ TurnIsCut BY <1>4, EngineSteps
<1>5. CASE CleanUp BY <1>5, CleanUpStep
<1>6. CASE Crash BY <1>6, CrashStep
<1> QED BY <1>1, <1>2, <1>3, <1>4, <1>5, <1>6 DEF Next

\* No more than max_agents agents run that nobody has told to stop, whoever
\* spawns them and however they end (running_count against max_agents in spawn).
THEOREM LimitIsKept == Spec => []LimitHolds
<1>1. IInv => LimitHolds BY DEF IInv
<1> QED BY Initially, Step, <1>1, PTL DEF Spec

\* What a turn was told about an agent stays what the manager and its file say,
\* restarts included (update_from_result and update_failed against cancel, clean-up
\* and load_state).
THEOREM ToldIsTrue == Spec => []ToldIsKept
<1>1. IInv => ToldIsKept BY DEF IInv
<1> QED BY Initially, Step, <1>1, PTL DEF Spec

\* A turn in the wait for its agents has an agent that will wake it, unless it waits
\* for one that cannot (should_hold_turn_for_subagents).
THEOREM HoldIsAnswered == Spec => []HoldIsHeard
<1>1. IInv => HoldIsHeard BY DEF IInv, HoldIsCovered, HoldIsHeard
<1> QED BY Initially, Step, <1>1, PTL DEF Spec
=============================================================================
