----------------------------- MODULE ToolCalls -----------------------------
(***************************************************************************)
(* The tool calls of the turns of one thread: the tool part of the turn    *)
(* loop (core/engine/turn_loop.rs), the approval handshake                 *)
(* (core/engine/approval.rs), the tool items and approvals of monitor_turn *)
(* and the pending approvals behind POST /v1/approvals/{id}                *)
(* (runtime_threads.rs, runtime_api.rs).                                   *)
(*                                                                         *)
(* The engine streams a step, runs its calls in batches and appends one    *)
(* result per call to the transcript.  Its events reach the monitor, which *)
(* handles one at a time: while it waits for a decision it handles nothing *)
(* else.  Decisions come back to the engine in a channel that outlives the *)
(* turn.                                                                   *)
(***************************************************************************)
EXTENDS Naturals, Sequences, QueueOps

CONSTANTS
    MaxCalls,        \* bound: calls are numbered in the order the model makes them
    Flags,           \* flags a turn may be started with: subset of {"ask", "auto", "trust"}
    MaxInterrupts    \* bound on the interrupts of all turns; the turns have none

Calls == 1..MaxCalls

ASSUME ToolCallsAssumption ==
    /\ MaxCalls \in Nat /\ MaxInterrupts \in Nat
    /\ Flags \subseteq {"ask", "auto", "trust"}

VARIABLES
    kind,        \* what each call asks for, "none" before the model makes it, "past"
                 \* once its turn is over
    engine,      \* where the turn loop stands
    step,        \* the calls of this step, in order: tool_uses
    todo,        \* those whose batch has not begun
    running,     \* those of the batch at hand that execute
    done,        \* those with an entry in outcomes
    transcript,  \* tool uses and results in session.messages since the last request
    cancelled,   \* cancel_token of the last turn
    flags,       \* its auto_approve and trust_mode
    events,      \* tx_event
    decisions,   \* rx_approval: the decisions the engine has not read
    monitor,     \* monitor_turn: what it is at, and for which call
    tool_items,  \* calls whose item is in progress
    pending,     \* pending_approvals
    channel,     \* the oneshot of each call, and the decision sent on it
    client,      \* the call whose sender a request to decide_approval has taken, or 0
    executed,    \* history: calls of this turn that were executed
    interrupts

plan    == <<kind, step, todo, running, done>>
bridge  == <<pending, channel, client>>
vars == <<plan, engine, transcript, cancelled, flags, events, decisions, monitor, tool_items,
          bridge, executed, interrupts>>

\* read: read-only and safe in parallel.  barred: such a tool, but not for this
\* caller or mode.  guarded: the loop guard or a hydration has its result already.
\* missing: no such tool.  write: asks for approval.  ask: request_user_input.
\* code: code_execution or js_execution, planned with approval_required as well.
\* (Other serial tools, which need no approval, are run as "code" is.)
Kinds == {"read", "barred", "guarded", "missing", "write", "code", "ask"}
NeedsApproval(c) == kind[c] \in {"write", "code"}
ParallelSafe(c) == kind[c] \in {"read", "barred", "guarded"}

Nobody == [pc |-> "idle", call |-> 0]

Init ==
    /\ kind = [c \in Calls |-> "none"] /\ engine = "idle"
    /\ step = <<>> /\ todo = <<>> /\ running = {} /\ done = {}
    /\ transcript = <<>> /\ cancelled = FALSE /\ flags = "none"
    /\ events = <<>> /\ decisions = <<>>
    /\ monitor = Nobody /\ tool_items = {}
    /\ pending = {} /\ channel = [c \in Calls |-> "none"] /\ client = 0
    /\ executed = {} /\ interrupts = 0

Event(what, c) == [what |-> what, call |-> c]
Tell(what, c)  == events' = Append(events, Event(what, c))

-----------------------------------------------------------------------------
(* The turn loop.                                                          *)

EngineStep == UNCHANGED <<cancelled, flags, monitor, tool_items, bridge, interrupts>>

\* start_turn and the take of its op: no other turn is active.  What was known of
\* the calls of an earlier turn is dropped, only decisions about them may be left.
StartTurn ==
    /\ engine = "idle" /\ monitor.pc = "idle"
    /\ engine' = "stream" /\ monitor' = [pc |-> "wait", call |-> 0]
    /\ flags' \in Flags
    /\ kind' = [c \in Calls |-> IF kind[c] = "none" THEN "none" ELSE "past"]
    /\ tool_items' = {} /\ channel' = [c \in Calls |-> "none"]
    /\ transcript' = <<>> /\ executed' = {} /\ cancelled' = FALSE
    /\ UNCHANGED <<step, todo, running, done, events, decisions, pending, client,
                   interrupts>>

CompletesTurn ==
    /\ engine' = "idle" /\ Tell("turn", 0)
    /\ EngineStep /\ UNCHANGED <<plan, transcript, decisions, executed>>

IsNext(c) == kind[c] = "none" /\ \A b \in 1..c - 1 : kind[b] # "none"

\* The model makes a call.  It is announced when its block stops, which it never
\* does when an error, a timeout or the token cuts the stream before.
StreamsCall(c) ==
    /\ engine = "stream" /\ IsNext(c)
    /\ \E k \in Kinds : kind' = [kind EXCEPT ![c] = k]
    /\ step' = Append(step, c)
    /\ Tell("started", c) \/ UNCHANGED events
    /\ EngineStep /\ UNCHANGED <<engine, todo, running, done, transcript, decisions, executed>>

\* The stream ends or is cut; what came is planned and executed anyway.
StreamEnds ==
    /\ engine = "stream" /\ step # <<>>
    /\ todo' = step /\ engine' = "execute"
    /\ transcript' = [i \in DOMAIN step |-> Event("use", step[i])]
    /\ EngineStep /\ UNCHANGED <<kind, step, running, done, events, decisions, executed>>

StreamEndsWithoutCalls == engine = "stream" /\ step = <<>> /\ CompletesTurn

\* plan_tool_execution_batches: the longest run of parallel-safe calls, or one call.
IsChunk(n) ==
    /\ \A i \in 1..n : ParallelSafe(todo[i])
    /\ n < Len(todo) => ~ParallelSafe(todo[n + 1])

\* In a parallel batch a call with a result is completed at once, a blocked one
\* has its outcome recorded, and the others start.
RecordedUnblocked(chunk) == {c \in chunk : kind[c] = "guarded"} \* mutant: only what was sent
Recorded(chunk) == {c \in chunk : kind[c] \in {"guarded", "barred"}}

CompletedByNone(c) == FALSE                       \* mutant: a guarded call is not announced
Completed(c) == kind[c] = "guarded"
StartsChunk ==
    /\ engine = "execute" /\ running = {}
    /\ \E n \in 1..Len(todo) :
         LET calls == {todo[i] : i \in 1..n} IN
         /\ IsChunk(n)
         /\ done' = done \cup Recorded(calls)
         /\ \E s \in Retained(SubSeq(todo, 1, n), {c \in calls : Completed(c)}) :
               events' = events \o [i \in DOMAIN s |-> Event("complete", s[i])]
         /\ running' = {c \in calls : kind[c] = "read"}
         /\ executed' = executed \cup running'
         /\ todo' = SubSeq(todo, n + 1, Len(todo))
    /\ EngineStep /\ UNCHANGED <<kind, step, engine, transcript, decisions>>

CallEnds(c) ==
    /\ c \in running
    /\ running' = running \ {c} /\ done' = done \cup {c} /\ Tell("complete", c)
    /\ EngineStep /\ UNCHANGED <<kind, step, todo, engine, transcript, decisions, executed>>

\* A serial call that is not executed: its outcome is an error.
Refuses ==
    /\ done' = done \cup {Head(todo)} /\ Tell("complete", Head(todo))
    /\ todo' = Tail(todo) /\ engine' = "execute"
    /\ EngineStep /\ UNCHANGED <<kind, step, running, transcript, executed>>

Serial(k) == running = {} /\ todo # <<>> /\ kind[Head(todo)] = k

MissesTool == engine = "execute" /\ Serial("missing") /\ Refuses /\ UNCHANGED decisions

\* A serial call is executed; CallEnds follows.
Executes ==
    /\ running' = {Head(todo)} /\ executed' = executed \cup running'
    /\ todo' = Tail(todo) /\ engine' = "execute"
    /\ EngineStep /\ UNCHANGED <<kind, step, done, transcript, events>>

\* The serial branch executes code_execution and js_execution before it comes to
\* the approval flow, and goes on with the next batch.
RunsCode == engine = "execute" /\ Serial("code") /\ Executes /\ UNCHANGED decisions

AsksApproval ==
    /\ engine = "execute" /\ Serial("write")
    /\ engine' = "approve" /\ Tell("approval", Head(todo))
    /\ EngineStep /\ UNCHANGED <<plan, transcript, decisions, executed>>

AsksUser ==
    /\ engine = "execute" /\ Serial("ask")
    /\ engine' = "ask"
    /\ EngineStep /\ UNCHANGED <<plan, transcript, events, decisions, executed>>

\* await_tool_approval and await_user_input find the token cancelled.
InterruptibleInApproval == engine = "approve"     \* mutant: the question has no such arm
Interruptible == engine \in {"approve", "ask"}

GivesUpWaiting == Interruptible /\ cancelled /\ Refuses /\ UNCHANGED decisions

\* await_tool_approval skips what is not for this call.
AnyDecision(d) == TRUE                            \* mutant: the id is not compared
IsForCall(d) == d.call = Head(todo)

ReadsDecision ==
    /\ engine = "approve" /\ decisions # <<>> /\ decisions' = Tail(decisions)
    /\ LET d == Head(decisions) IN
       \/ /\ ~IsForCall(d)
          /\ EngineStep /\ UNCHANGED <<plan, engine, transcript, events, executed>>
       \/ IsForCall(d) /\ ~d.ok /\ Refuses
       \/ IsForCall(d) /\ d.ok /\ Executes

\* Every outcome becomes a tool result.  Then the next request, unless the turn
\* was cancelled, is at max_steps, or is ended by the loop guard or update_plan.
RecordsResults ==
    /\ engine = "execute" /\ running = {} /\ todo = <<>>
    /\ \E results \in Retained(step, done) :
          transcript' = transcript \o [i \in DOMAIN results |-> Event("result", results[i])]
    /\ step' = <<>> /\ done' = {}
    /\ \/ ~cancelled /\ engine' = "stream" /\ UNCHANGED events
       \/ engine' = "idle" /\ Tell("turn", 0)
    /\ EngineStep /\ UNCHANGED <<kind, todo, running, decisions, executed>>

Engine ==
    \/ StreamEnds \/ StreamEndsWithoutCalls \/ StartsChunk
    \/ MissesTool \/ RunsCode \/ AsksApproval \/ AsksUser \/ GivesUpWaiting \/ ReadsDecision
    \/ RecordsResults
    \/ \E c \in Calls : StreamsCall(c) \/ CallEnds(c)

-----------------------------------------------------------------------------
(* monitor_turn.                                                           *)

MonitorStep ==
    UNCHANGED <<plan, engine, transcript, cancelled, flags, client, executed, interrupts>>

Goes(pc, c) == monitor' = [pc |-> pc, call |-> c]

Handles(what) == monitor.pc = "wait" /\ events # <<>> /\ Head(events).what = what
Told == Head(events).call

OpensItem ==
    /\ Handles("started")
    /\ tool_items' = tool_items \cup {Told} /\ events' = Tail(events)
    /\ MonitorStep /\ UNCHANGED <<decisions, monitor, pending, channel>>

\* A completion of a call that was never announced finds no item.
ClosesItem ==
    /\ Handles("complete")
    /\ tool_items' = tool_items \ {Told} /\ events' = Tail(events)
    /\ MonitorStep /\ UNCHANGED <<decisions, monitor, pending, channel>>

\* approval.required is appended before the approval is registered.
AnnouncesApproval ==
    /\ Handles("approval")
    /\ Goes("announced", Told) /\ events' = Tail(events)
    /\ MonitorStep /\ UNCHANGED <<decisions, tool_items, pending, channel>>

\* auto_approve approves; trust_mode alone denies.
DecidesByFlags ==
    /\ monitor.pc = "announced" /\ flags \in {"auto", "trust"}
    /\ decisions' = Append(decisions, [call |-> monitor.call, ok |-> flags = "auto"])
    /\ Goes("wait", 0)
    /\ MonitorStep /\ UNCHANGED <<events, tool_items, pending, channel>>

register_pending_approval ==
    /\ monitor.pc = "announced" /\ flags = "ask"
    /\ pending' = pending \cup {monitor.call}
    /\ channel' = [channel EXCEPT ![monitor.call] = "open"]
    /\ Goes("waiting", monitor.call)
    /\ MonitorStep /\ UNCHANGED <<events, decisions, tool_items>>

ReceivesDecision ==
    /\ monitor.pc = "waiting" /\ channel[monitor.call] \in {"allow", "deny"}
    /\ decisions' = Append(decisions, [call |-> monitor.call, ok |-> channel[monitor.call] = "allow"])
    /\ Goes("wait", 0)
    /\ MonitorStep /\ UNCHANGED <<events, tool_items, pending, channel>>

\* APPROVAL_DECISION_TIMEOUT is over: the receiver was empty when it was polled,
\* which timeout() does before it looks at its deadline ...
EmptyOrNot(c) == channel[c] # "none"              \* mutant: the deadline goes first
Empty(c) == channel[c] = "open"

Expires ==
    /\ monitor.pc = "waiting" /\ Empty(monitor.call)
    /\ Goes("expired", monitor.call)
    /\ MonitorStep /\ UNCHANGED <<events, decisions, tool_items, pending, channel>>

\* ... and is dropped.  A decision sent in between comes too late.
cancel_nothing(c) == pending                      \* mutant: the entry stays
cancel_pending_approval(c) == pending \ {c}

DropsReceiver ==
    /\ monitor.pc = "expired"
    /\ channel' = [channel EXCEPT ![monitor.call] = IF @ = "open" THEN "closed" ELSE @]
    /\ pending' = cancel_pending_approval(monitor.call)
    /\ decisions' = Append(decisions, [call |-> monitor.call, ok |-> FALSE])
    /\ Goes("wait", 0)
    /\ MonitorStep /\ UNCHANGED <<events, tool_items>>

SettlesTurn ==
    /\ Handles("turn")
    /\ monitor' = Nobody /\ events' = Tail(events)
    /\ MonitorStep /\ UNCHANGED <<decisions, tool_items, pending, channel>>

Monitor ==
    \/ OpensItem \/ ClosesItem \/ AnnouncesApproval \/ DecidesByFlags
    \/ register_pending_approval \/ ReceivesDecision \/ Expires \/ DropsReceiver \/ SettlesTurn

-----------------------------------------------------------------------------
(* Clients.                                                                *)

ClientStep ==
    UNCHANGED <<plan, engine, transcript, flags, events, decisions, monitor, tool_items, executed>>

\* deliver_external_approval takes the sender out of the map, then sends.
TakesSender(c) ==
    /\ client = 0 /\ c \in pending
    /\ pending' = pending \ {c} /\ client' = c
    /\ ClientStep /\ UNCHANGED <<channel, cancelled, interrupts>>

\* When the receiver is gone the client is told that no such approval is pending.
\* Nobody polls it any more when the wait is over.
Polled(c) == monitor = [pc |-> "waiting", call |-> c]

Sends ==
    /\ client # 0 /\ client' = 0
    /\ \E says \in {"allow", "deny"} :
          channel' = [channel EXCEPT ![client] =
             IF @ # "open" THEN @ ELSE IF Polled(client) THEN says ELSE "late"]
    /\ ClientStep /\ UNCHANGED <<pending, cancelled, interrupts>>

\* interrupt_turn: the turn is active until its monitor has settled it.
interrupt_turn ==
    /\ monitor.pc # "idle" /\ ~cancelled /\ interrupts < MaxInterrupts
    /\ cancelled' = TRUE /\ interrupts' = interrupts + 1
    /\ ClientStep /\ UNCHANGED <<pending, channel, client>>

Next ==
    \/ StartTurn \/ Engine \/ Monitor \/ Sends \/ interrupt_turn
    \/ \E c \in Calls : TakesSender(c)

Spec == Init /\ [][Next]_vars

\* The engine and the monitor are polled, streams and tools end, and the wait for
\* a decision is over after APPROVAL_DECISION_TIMEOUT.
FairSpec == Spec /\ WF_vars(Engine) /\ WF_vars(Monitor)

-----------------------------------------------------------------------------
(* Properties.                                                             *)

\* Type correctness of the engine, the monitor, the channels between them and
\* the pending approvals.
TypeOK ==
    /\ kind \in [Calls -> Kinds \cup {"none", "past"}]
    /\ engine \in {"idle", "stream", "execute", "approve", "ask"}
    /\ step \in Seq(Calls) /\ todo \in Seq(Calls) /\ running \subseteq Calls /\ done \subseteq Calls
    /\ transcript \in Seq([what : {"use", "result"}, call : Calls])
    /\ cancelled \in BOOLEAN /\ flags \in Flags \cup {"none"}
    /\ events \in Seq([what : {"started", "complete", "approval"}, call : Calls]
                        \cup {Event("turn", 0)})
    /\ decisions \in Seq([call : Calls, ok : BOOLEAN])
    /\ monitor \in [pc : {"announced", "waiting", "expired"}, call : Calls]
                     \cup [pc : {"idle", "wait"}, call : {0}]
    /\ tool_items \subseteq Calls /\ pending \subseteq Calls
    /\ channel \in [Calls -> {"none", "open", "allow", "deny", "late", "closed"}]
    /\ client \in Calls \cup {0}
    /\ executed \subseteq Calls
    /\ interrupts \in Nat

\* Whenever the model is asked again, and when a turn is over, each tool use has
\* its one result: the uses in the order the model made them, and then the results
\* in the same order, whichever batch a call was in.
ResultsMatchCalls ==
    engine \in {"idle", "stream"} =>
        \E n \in 0..Len(transcript) :
            /\ Len(transcript) = 2 * n
            /\ \A i \in 1..n : /\ transcript[i].what = "use"
                               /\ transcript[n + i] = Event("result", transcript[i].call)
            /\ \A i, j \in 1..n : i < j => transcript[i].call < transcript[j].call

\* A call that needs approval is executed only when its turn has auto_approve or a
\* client allowed this very call, however late decisions for other calls arrive --
\* all but code_execution and js_execution, which are never asked about.
Approved(c) == flags = "auto" \/ channel[c] = "allow"
RunsOnlyApproved ==
    \A c \in executed : NeedsApproval(c) => Approved(c) \/ kind[c] = "code"

\* A decision that reached the monitor before its last look is carried out: when
\* the turn is over, what was allowed has been executed, unless the turn was
\* interrupted.
AllowedIsDone ==
    monitor.pc = "idle" =>
        \A c \in Calls : channel[c] = "allow" => c \in executed \/ cancelled

\* A pending approval is one that a monitor waits for: what a client may still
\* decide is never a call that is past.
PendingIsAwaited ==
    \A c \in pending : monitor.call = c /\ monitor.pc \in {"waiting", "expired"}

\* When a turn is over none of its tool items is open, unless the call was barred
\* in a parallel batch: that one is never completed.
ItemsSettled ==
    monitor.pc = "idle" => \A c \in tool_items : kind[c] = "barred"

\* A turn comes to its end whatever is decided, or not decided, about its calls,
\* unless it has put a question to its user: the monitor does not pass it on.
TurnsEnd == []<>(monitor.pc = "idle" \/ (engine = "ask" /\ ~cancelled))
=============================================================================
