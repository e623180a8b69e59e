--------------------------- MODULE ToolCallsProofs ---------------------------
(***************************************************************************)
(* Theorems about ToolCalls, for any numbers of calls, turns and           *)
(* interrupts and any flags: approvals, what becomes of what was allowed,  *)
(* the items of a turn and the results of a step.                          *)
(***************************************************************************)
EXTENDS ToolCalls, QueueLemmas

Events    == [what : {"started", "complete", "approval"}, call : Calls] \cup {Event("turn", 0)}
Decisions == [call : Calls, ok : BOOLEAN]

\* The types the approvals depend on.
Typed ==
    /\ kind \in [Calls -> Kinds \cup {"none", "past"}]
    /\ engine \in {"idle", "stream", "execute", "approve", "ask"}
    /\ step \in Seq(Calls) /\ todo \in Seq(Calls) /\ running \subseteq Calls
    /\ flags \in Flags \cup {"none"}
    /\ events \in Seq(Events) /\ decisions \in Seq(Decisions)
    /\ monitor \in [pc : {"announced", "waiting", "expired"}, call : Calls]
                     \cup [pc : {"idle", "wait"}, call : {0}]
    /\ pending \subseteq Calls /\ client \in Calls \cup {0}
    /\ channel \in [Calls -> {"none", "open", "allow", "deny", "late", "closed"}]
    /\ executed \subseteq Calls

\* A call is in the step of its turn once, and in what is left of it at most once.
StepIsSound ==
    /\ engine \in {"idle", "stream"} => todo = <<>>
    /\ engine = "idle" => step = <<>>
    /\ engine \in {"approve", "ask"} => todo # <<>>
    /\ IsInjective(step) /\ IsInjective(todo)
    /\ \A c \in Range(step) \cup Range(todo) : kind[c] \notin {"none", "past"}

\* The approvals asked for in the events, and that none is asked for twice.
Questions(es) == {es[i].call : i \in {k \in DOMAIN es : es[k].what = "approval"}}
OneQuestion(es) ==
    \A i, j \in DOMAIN es : es[i].what = "approval" /\ es[i] = es[j] => i = j

\* Calls that may still ask for approval, and those that have left a trace of it.
Unasked ==
    {c \in Calls : kind[c] = "none"}
        \cup (IF engine = "stream" THEN Range(step) ELSE {})
        \cup (IF engine = "approve" THEN Range(Tail(todo)) ELSE Range(todo))
Asked(c) ==
    c \in Questions(events) \/ monitor.call = c \/ channel[c] # "none" \/ c \in pending
        \/ client = c

\* No call asks twice, and until a question is registered nobody has answered it.
AskedOnce ==
    /\ OneQuestion(events) /\ monitor.call \notin Questions(events)
    /\ \A c \in Unasked : ~Asked(c)
    /\ \A c \in Calls :
         (c \in Questions(events) \/ (monitor.pc = "announced" /\ monitor.call = c))
            => channel[c] = "none" /\ c \notin pending /\ client # c

\* A sender in the map is unused, and nobody else has it.
SenderIsUnused == \A c \in pending : channel[c] = "open" /\ client # c

\* A decision that allows a call of this turn was made for it.
Permits(d) == kind[d.call] # "none" /\
    (d.ok => kind[d.call] = "past" \/ flags = "auto" \/ channel[d.call] = "allow")
DecisionsAreMade == \A d \in Range(decisions) : Permits(d)
ExecutedIsCalled == \A c \in executed : kind[c] # "none"

\* The inductive invariant.
IInv ==
    /\ Typed /\ StepIsSound /\ AskedOnce /\ PendingIsAwaited /\ SenderIsUnused
    /\ RunsOnlyApproved /\ DecisionsAreMade /\ ExecutedIsCalled

\* The end of a turn is its last event, and a monitor that is idle has seen it.
TurnIsLast ==
    /\ \A i \in DOMAIN events : events[i].what = "turn" => i = Len(events) /\ engine = "idle"
    /\ monitor.pc = "idle" => engine = "idle" /\ events = <<>>
    /\ running # {} => engine = "execute"

\* The engine waits for the call it asked about, unless it was cancelled, and no
\* decision about a call is there before its question was answered.
AskedIsNext == \A c \in Calls :
    c \in Questions(events) \/ monitor.call = c =>
        cancelled \/ (engine = "approve" /\ Head(todo) = c)
Undecided == \A d \in Range(decisions) :
    d.call \notin Unasked /\ d.call \notin Questions(events) /\ d.call # monitor.call

\* What was allowed in time is carried to the engine.
Carried(c) ==
    /\ \A d \in Range(decisions) : d.call = c => d.ok
    /\ \/ cancelled \/ c \in executed
       \/ /\ engine = "approve" /\ Head(todo) = c
          /\ monitor.call = c \/ [call |-> c, ok |-> TRUE] \in Range(decisions)

\* The inductive invariant of AllowedIsDone.
AllowInv ==
    /\ IInv /\ TurnIsLast /\ AskedIsNext /\ Undecided
    /\ monitor.pc = "expired" => channel[monitor.call] \in {"open", "late"}
    /\ \A c \in Calls : channel[c] = "allow" => Carried(c)

\* An item is opened before it is closed.
InOrder(es) == \A i, j \in DOMAIN es :
    es[i].what = "started" /\ es[j].what = "complete" /\ es[i].call = es[j].call => i < j

\* Calls the engine has yet to finish, and those whose item will be closed, or was
\* barred in a parallel batch.
Outstanding(c) == (engine = "stream" /\ c \in Range(step)) \/ c \in Range(todo) \/ c \in running
Closes(c) ==
    kind[c] = "barred" \/ Outstanding(c) \/ Event("complete", c) \in Range(events)

\* A call of the turn at hand.
Live(c) == kind[c] \notin {"none", "past"}

\* The inductive invariant of ItemsSettled, with IInv and TurnIsLast.
ItemInv ==
    /\ tool_items \subseteq Calls /\ InOrder(events)
    /\ \A e \in Range(events) : e.what # "turn" => Live(e.call)
    /\ \A c \in running : Live(c)
    /\ \A c \in Calls : c \in tool_items \/ Event("started", c) \in Range(events) => Closes(c)

\* The transcript of a step whose results are not there yet.
Uses == [i \in DOMAIN step |-> Event("use", step[i])]

\* The inductive invariant of ResultsMatchCalls, with IInv and TurnIsLast: calls
\* are numbered and kept in the order they are made, and none of a step is lost.
ResultInv ==
    /\ \A b, c \in Calls : b < c /\ kind[b] = "none" => kind[c] = "none"
    /\ \A i, j \in DOMAIN step : i < j => step[i] < step[j]
    /\ engine \notin {"idle", "stream"} =>
           transcript = Uses /\ Range(step) \subseteq done \cup running \cup Range(todo)
    /\ ResultsMatchCalls

\* A step that asks for no approval.
AsksNothing == Unasked' \subseteq Unasked /\ Questions(events') = Questions(events)

USE ToolCallsAssumption

-----------------------------------------------------------------------------
(* Sequences of events and decisions.                                      *)

LEMMA RangeType == ASSUME NEW S, NEW q \in Seq(S) PROVE Range(q) \subseteq S
<1>1. DOMAIN q = 1..Len(q) /\ \A i \in 1..Len(q) : q[i] \in S BY LenProperties, ElementOfSeq
<1> QED BY <1>1 DEF Range

LEMMA AppendRange ==
    ASSUME NEW S, NEW q \in Seq(S), NEW x \in S
    PROVE  Append(q, x) \in Seq(S) /\ Range(Append(q, x)) = Range(q) \cup {x}
<1>1. /\ Append(q, x) \in Seq(S) /\ Len(q) \in Nat /\ DOMAIN q = 1..Len(q)
      /\ DOMAIN Append(q, x) = 1..Len(q) + 1
      /\ \A i \in 1..Len(q) : Append(q, x)[i] = q[i]
      /\ Append(q, x)[Len(q) + 1] = x
    BY LenProperties, AppendProperties
<1>2. 1..Len(q) + 1 = 1..Len(q) \cup {Len(q) + 1} BY <1>1
<1> QED BY <1>1, <1>2 DEF Range

LEMMA TailRange ==
    ASSUME NEW S, NEW q \in Seq(S), q # <<>>
    PROVE  /\ Tail(q) \in Seq(S) /\ Head(q) \in Range(q) /\ Head(q) \in S
           /\ Range(Tail(q)) \subseteq Range(q)
<1>1. /\ Len(q) \in Nat \ {0} /\ DOMAIN q = 1..Len(q) /\ Head(q) = q[1]
      /\ Head(q) \in S /\ Tail(q) \in Seq(S)
      /\ DOMAIN Tail(q) = 1..(Len(q) - 1)
      /\ \A i \in 1..(Len(q) - 1) : Tail(q)[i] = q[i+1]
    BY LenProperties, HeadTailProperties, EmptySeq
<1> QED BY <1>1 DEF Range

LEMMA HeadOrTail ==
    ASSUME NEW S, NEW q \in Seq(S), q # <<>>
    PROVE  Range(q) = Range(Tail(q)) \cup {Head(q)}
<1>1. /\ Len(q) \in Nat \ {0} /\ DOMAIN q = 1..Len(q) /\ Head(q) = q[1]
      /\ DOMAIN Tail(q) = 1..(Len(q) - 1)
      /\ \A i \in 1..(Len(q) - 1) : Tail(q)[i] = q[i+1]
    BY LenProperties, HeadTailProperties, EmptySeq
<1>2. ASSUME NEW i \in 1..Len(q) PROVE q[i] \in Range(Tail(q)) \cup {Head(q)}
    <2>1. CASE i = 1 BY <1>1, <2>1
    <2>2. CASE i # 1
        <3>1. i - 1 \in 1..(Len(q) - 1) /\ (i - 1) + 1 = i BY <1>1, <2>2
        <3> QED BY <1>1, <3>1 DEF Range
    <2> QED BY <2>1, <2>2
<1>3. Range(Tail(q)) \subseteq Range(q) /\ Head(q) \in Range(q)
    BY TailRange
<1> QED BY <1>1, <1>2, <1>3 DEF Range

LEMMA AppendEvent ==
    ASSUME NEW es \in Seq(Events), NEW e \in Events, OneQuestion(es),
           e.what = "approval" => e.call \notin Questions(es)
    PROVE  /\ Append(es, e) \in Seq(Events) /\ OneQuestion(Append(es, e))
           /\ e.what # "approval" => Questions(Append(es, e)) = Questions(es)
           /\ e.what = "approval" => Questions(Append(es, e)) = Questions(es) \cup {e.call}
<1>1. /\ Append(es, e) \in Seq(Events) /\ Len(es) \in Nat /\ DOMAIN es = 1..Len(es)
      /\ DOMAIN Append(es, e) = 1..Len(es) + 1
      /\ \A i \in 1..Len(es) : Append(es, e)[i] = es[i]
      /\ Append(es, e)[Len(es) + 1] = e
    BY LenProperties, AppendProperties
<1>2. 1..Len(es) + 1 = 1..Len(es) \cup {Len(es) + 1} BY <1>1
<1>3. OneQuestion(Append(es, e)) BY <1>1, <1>2 DEF OneQuestion, Questions
<1>4. e.what # "approval" => Questions(Append(es, e)) = Questions(es)
    BY <1>1, <1>2 DEF Questions
<1>5. e.what = "approval" => Questions(Append(es, e)) = Questions(es) \cup {e.call}
    BY <1>1, <1>2 DEF Questions
<1> QED BY <1>1, <1>3, <1>4, <1>5

LEMMA TailEvent ==
    ASSUME NEW es \in Seq(Events), es # <<>>, OneQuestion(es)
    PROVE  /\ Head(es) \in Events /\ Tail(es) \in Seq(Events) /\ OneQuestion(Tail(es))
           /\ Questions(Tail(es)) \subseteq Questions(es)
           /\ Head(es).what = "approval" =>
                  Head(es).call \in Questions(es) /\ Head(es).call \notin Questions(Tail(es))
<1>1. /\ Len(es) \in Nat \ {0} /\ DOMAIN es = 1..Len(es) /\ Head(es) = es[1]
      /\ Head(es) \in Events /\ Tail(es) \in Seq(Events)
      /\ DOMAIN Tail(es) = 1..(Len(es) - 1)
      /\ \A i \in 1..(Len(es) - 1) : Tail(es)[i] = es[i+1]
    BY LenProperties, HeadTailProperties, EmptySeq
<1>2. OneQuestion(Tail(es)) BY <1>1 DEF OneQuestion
<1>3. Questions(Tail(es)) \subseteq Questions(es) BY <1>1 DEF Questions
<1>4. ASSUME Head(es).what = "approval"
      PROVE  Head(es).call \in Questions(es) /\ Head(es).call \notin Questions(Tail(es))
    <2>1. ASSUME NEW i \in 1..(Len(es) - 1), Tail(es)[i].what = "approval"
          PROVE  Tail(es)[i].call # Head(es).call
        <3>1. es[i+1] \in Events /\ es[1] \in Events BY <1>1, ElementOfSeq
        <3>2. es[i+1] # es[1] BY <1>1, <1>4, <2>1 DEF OneQuestion
        <3> QED BY <1>1, <1>4, <2>1, <3>1, <3>2 DEF Events, Event
    <2> QED BY <1>1, <1>4, <2>1 DEF Questions
<1> QED BY <1>1, <1>2, <1>3, <1>4

\* Completions are no questions.
LEMMA Completions ==
    ASSUME NEW s \in Seq(Calls)
    PROVE  LET t == [i \in DOMAIN s |-> Event("complete", s[i])] IN
           t \in Seq(Events) /\ \A i \in DOMAIN t : t[i].what = "complete"
<1> DEFINE t == [i \in DOMAIN s |-> Event("complete", s[i])]
<1>1. /\ Len(s) \in Nat /\ DOMAIN s = 1..Len(s) /\ \A i \in 1..Len(s) : s[i] \in Calls
    BY LenProperties, ElementOfSeq
<1>2. t \in [1..Len(s) -> Events] /\ \A i \in 1..Len(s) : t[i].what = "complete"
    BY <1>1 DEF Events, Event
<1>3. t \in Seq(Events) BY <1>1, <1>2, SeqDef
<1> QED BY <1>1, <1>2, <1>3

LEMMA ConcatCompletions ==
    ASSUME NEW es \in Seq(Events), OneQuestion(es), NEW t \in Seq(Events),
           \A i \in DOMAIN t : t[i].what = "complete"
    PROVE  /\ es \o t \in Seq(Events) /\ OneQuestion(es \o t)
           /\ Questions(es \o t) = Questions(es)
<1>1. /\ Len(es) \in Nat /\ Len(t) \in Nat /\ DOMAIN es = 1..Len(es) /\ DOMAIN t = 1..Len(t)
      /\ es \o t \in Seq(Events) /\ DOMAIN (es \o t) = 1..(Len(es) + Len(t))
    BY LenProperties, ConcatProperties
<1>2. \A i \in 1..Len(es) : (es \o t)[i] = es[i]
    BY <1>1
<1>3. ASSUME NEW i \in DOMAIN (es \o t), (es \o t)[i].what = "approval"
      PROVE  i \in 1..Len(es)
    <2> SUFFICES ASSUME ~(i <= Len(es)) PROVE FALSE BY <1>1
    <2>1. i - Len(es) \in 1..Len(t) BY <1>1
    <2>2. (es \o t)[i] = t[i - Len(es)] BY <1>1
    <2> QED BY <1>1, <1>3, <2>1, <2>2
<1>4. OneQuestion(es \o t) BY <1>1, <1>2, <1>3 DEF OneQuestion
<1>5. Questions(es \o t) = Questions(es)
    <2>1. Questions(es \o t) \subseteq Questions(es) BY <1>1, <1>2, <1>3 DEF Questions
    <2>2. Questions(es) \subseteq Questions(es \o t) BY <1>1, <1>2 DEF Questions
    <2> QED BY <2>1, <2>2
<1> QED BY <1>1, <1>4, <1>5

\* The first part of an injective sequence.
LEMMA FrontKeeps ==
    ASSUME NEW q \in Seq(Calls), IsInjective(q), NEW n \in 1..Len(q)
    PROVE  /\ SubSeq(q, 1, n) \in Seq(Calls) /\ IsInjective(SubSeq(q, 1, n))
           /\ Range(SubSeq(q, 1, n)) = {q[i] : i \in 1..n}
<1>1. Len(q) \in Nat /\ DOMAIN q = 1..Len(q) /\ \A i \in 1..Len(q) : q[i] \in Calls
    BY LenProperties, ElementOfSeq
<1>2. /\ SubSeq(q, 1, n) \in Seq(Calls) /\ Len(SubSeq(q, 1, n)) = n
      /\ \A i \in 1..n : SubSeq(q, 1, n)[i] = q[i]
    BY <1>1
<1>3. DOMAIN SubSeq(q, 1, n) = 1..n BY <1>2, LenProperties
<1>4. IsInjective(SubSeq(q, 1, n))
    BY <1>1, <1>2, <1>3 DEF IsInjective
<1> QED BY <1>2, <1>3, <1>4 DEF Range

\* A part of an injective sequence from some place on.
LEMMA SuffixKeeps ==
    ASSUME NEW q \in Seq(Calls), IsInjective(q), NEW n \in 1..Len(q)
    PROVE  /\ SubSeq(q, n + 1, Len(q)) \in Seq(Calls) /\ IsInjective(SubSeq(q, n + 1, Len(q)))
           /\ Range(SubSeq(q, n + 1, Len(q))) \subseteq Range(q) \ {q[i] : i \in 1..n}
<1>1. Len(q) \in Nat /\ DOMAIN q = 1..Len(q) /\ \A i \in 1..Len(q) : q[i] \in Calls
    BY LenProperties, ElementOfSeq
<1> DEFINE r == SubSeq(q, n + 1, Len(q))
<1>2. /\ r \in Seq(Calls) /\ Len(r) = Len(q) - n
      /\ \A i \in 1..(Len(q) - n) : r[i] = q[n + i]
    <2>1. n + 1 \in Int /\ Len(q) \in Int /\ \A i \in (n + 1)..Len(q) : q[i] \in Calls
        BY <1>1
    <2>2. /\ r \in Seq(Calls)
          /\ Len(r) = IF n + 1 <= Len(q) THEN Len(q) - (n + 1) + 1 ELSE 0
          /\ \A i \in 1..(Len(q) - (n + 1) + 1) : r[i] = q[(n + 1) + i - 1]
        BY <2>1, SubSeqProperties
    <2> HIDE DEF r
    <2>3. Len(r) = Len(q) - n
        <3>1. n \in Int /\ Len(q) \in Int /\ n <= Len(q) BY <1>1
        <3>2. Len(r) = IF n + 1 <= Len(q) THEN Len(q) - (n + 1) + 1 ELSE 0 BY <2>2
        <3> QED BY <3>1, <3>2
    <2>4. ASSUME NEW i \in 1..(Len(q) - n) PROVE r[i] = q[n + i]
        <3>1. i \in 1..(Len(q) - (n + 1) + 1) /\ (n + 1) + i - 1 = n + i BY <1>1
        <3> QED BY <2>2, <3>1
    <2> QED BY <2>2, <2>3, <2>4
<1> HIDE DEF r
<1>3. DOMAIN r = 1..(Len(q) - n) BY <1>2, LenProperties
<1>4. \A i \in DOMAIN r : n + i \in DOMAIN q /\ n + i \notin 1..n /\ r[i] = q[n + i]
    BY <1>1, <1>2, <1>3
<1>5. IsInjective(r)
    <2> SUFFICES ASSUME NEW i \in DOMAIN r, NEW j \in DOMAIN r, r[i] = r[j] PROVE i = j
        BY DEF IsInjective
    <2>1. n + i = n + j BY <1>4 DEF IsInjective
    <2> QED BY <1>3, <2>1
<1>6. Range(r) \subseteq Range(q) \ {q[i] : i \in 1..n}
    <2> SUFFICES ASSUME NEW i \in DOMAIN r PROVE r[i] \in Range(q) /\ \A k \in 1..n : r[i] # q[k]
        BY DEF Range
    <2>1. r[i] \in Range(q) BY <1>4 DEF Range
    <2>2. ASSUME NEW k \in 1..n PROVE r[i] # q[k]
        <3>1. k \in DOMAIN q /\ n + i # k BY <1>1, <1>4
        <3> QED BY <1>4, <3>1 DEF IsInjective
    <2> QED BY <2>1, <2>2
<1> QED BY <1>2, <1>5, <1>6 DEF r

-----------------------------------------------------------------------------
(* The engine.                                                             *)

LEMMA Initially == Init => IInv
<1> SUFFICES ASSUME Init PROVE IInv OBVIOUS
<1> USE DEF Init
<1>1. /\ step \in Seq(Calls) /\ todo \in Seq(Calls) /\ events \in Seq(Events)
      /\ decisions \in Seq(Decisions) /\ DOMAIN events = {} /\ DOMAIN decisions = {}
      /\ DOMAIN step = {} /\ DOMAIN todo = {}
    BY EmptySeq
<1>2. Typed BY <1>1 DEF Typed, Nobody
<1>3. StepIsSound BY <1>1 DEF StepIsSound, IsInjective, Range
<1>4. Questions(events) = {} BY <1>1 DEF Questions
<1>5. AskedOnce
    <2>1. OneQuestion(events) BY <1>1 DEF OneQuestion
    <2>2. \A c \in Calls : ~Asked(c) BY <1>4 DEF Asked, Nobody, Calls
    <2>3. Unasked \subseteq Calls BY <1>1 DEF Unasked, Range
    <2> QED BY <1>4, <2>1, <2>2, <2>3 DEF AskedOnce, Nobody
<1>6. /\ PendingIsAwaited /\ SenderIsUnused /\ RunsOnlyApproved /\ DecisionsAreMade
      /\ ExecutedIsCalled
    BY <1>1 DEF PendingIsAwaited, SenderIsUnused, RunsOnlyApproved, NeedsApproval, Approved, DecisionsAreMade,
                ExecutedIsCalled, Range
<1> QED BY <1>2, <1>3, <1>5, <1>6 DEF IInv

\* A step of the engine that asks nothing does not touch the bridge.
LEMMA BridgeKept ==
    ASSUME IInv, EngineStep, OneQuestion(events'), Questions(events') = Questions(events),
           Unasked' \subseteq Unasked
    PROVE  AskedOnce' /\ PendingIsAwaited' /\ SenderIsUnused'
BY DEF IInv, EngineStep, bridge, AskedOnce, Asked, PendingIsAwaited, SenderIsUnused

\* An event that is no question.
LEMMA Tells ==
    ASSUME IInv, NEW what \in {"started", "complete", "turn"},
           NEW c \in Calls \cup {0}, what = "turn" <=> c = 0, Tell(what, c)
    PROVE  /\ events' \in Seq(Events) /\ OneQuestion(events')
           /\ Questions(events') = Questions(events)
<1>1. Event(what, c) \in Events /\ Event(what, c).what # "approval"
    BY DEF Event, Events, Calls
<1> QED BY <1>1, AppendEvent DEF IInv, Typed, AskedOnce, Tell

LEMMA SaidIsTyped ==
    ASSUME IInv PROVE \A d \in Range(decisions) : d \in Decisions /\ d.call \in Calls
<1>1. decisions \in Seq(Decisions) BY DEF IInv, Typed
<1>2. Range(decisions) \subseteq Decisions BY <1>1, RangeType
<1> QED BY <1>2 DEF Decisions

\* Neither does one that executes nothing new and only reads decisions change what
\* is approved.
LEMMA ApprovalsKept ==
    ASSUME IInv, EngineStep, Range(decisions') \subseteq Range(decisions), executed' = executed,
           \A c \in Calls : kind[c] # "none" => kind'[c] = kind[c]
    PROVE  RunsOnlyApproved' /\ DecisionsAreMade' /\ ExecutedIsCalled'
<1>1. \A d \in Range(decisions) : d \in Decisions /\ d.call \in Calls
    BY SaidIsTyped
<1>2. flags' = flags /\ channel' = channel BY DEF EngineStep, bridge
<1>3. RunsOnlyApproved' /\ ExecutedIsCalled'
    BY <1>2 DEF IInv, Typed, RunsOnlyApproved, NeedsApproval, Approved, ExecutedIsCalled
<1>4. DecisionsAreMade' BY <1>1, <1>2 DEF IInv, DecisionsAreMade, Permits
<1> QED BY <1>3, <1>4

LEMMA StartStep == ASSUME IInv, StartTurn PROVE IInv'
<1> USE DEF StartTurn
<1>1. step = <<>> /\ todo = <<>> /\ DOMAIN step = {} /\ DOMAIN todo = {} /\ pending = {}
    BY EmptySeq DEF IInv, StepIsSound, PendingIsAwaited
<1>2. Typed' BY DEF IInv, Typed
<1>3. StepIsSound' BY <1>1 DEF StepIsSound, IsInjective, Range
<1>4. AskedOnce'
    <2>1. Unasked' = {c \in Calls : kind[c] = "none"} BY <1>1, <1>2 DEF Unasked, Range, Typed
    <2>2. Unasked' \subseteq Unasked BY <2>1 DEF Unasked
    <2>3. 0 \notin Questions(events)
        <3>1. \A i \in DOMAIN events : events[i] \in Events
            BY ElementOfSeq, LenProperties DEF IInv, Typed
        <3> QED BY <3>1 DEF Questions, Events, Event, Calls
    <2> QED BY <1>1, <2>1, <2>2, <2>3 DEF IInv, AskedOnce, Asked, Calls
<1>5. DecisionsAreMade'
    <2>1. \A d \in Range(decisions) : d.call \in Calls /\ kind[d.call] # "none"
        BY SaidIsTyped DEF IInv, DecisionsAreMade, Permits
    <2> QED BY <2>1 DEF DecisionsAreMade, Permits
<1>6. PendingIsAwaited' /\ SenderIsUnused' /\ RunsOnlyApproved' /\ ExecutedIsCalled'
    BY <1>1 DEF PendingIsAwaited, SenderIsUnused, RunsOnlyApproved, NeedsApproval, Approved, ExecutedIsCalled
<1> QED BY <1>2, <1>3, <1>4, <1>5, <1>6 DEF IInv

LEMMA StreamsStep == ASSUME IInv, NEW c \in Calls, StreamsCall(c) PROVE IInv' /\ AsksNothing
<1>1. PICK k \in Kinds : kind' = [kind EXCEPT ![c] = k]
    BY DEF StreamsCall
<1>2. /\ kind[c] = "none" /\ k \notin {"none", "past"} /\ engine = "stream" /\ engine' = engine
      /\ todo' = todo /\ decisions' = decisions /\ executed' = executed /\ EngineStep
      /\ step' = Append(step, c)
    BY <1>1 DEF StreamsCall, IsNext, Kinds
<1>3. c \notin Range(step) /\ todo = <<>> BY <1>2 DEF IInv, StepIsSound
<1>4. step' \in Seq(Calls) /\ IsInjective(step') /\ Range(step') = Range(step) \cup {c}
    BY <1>2, <1>3, AppendFresh DEF IInv, Typed, StepIsSound
<1>5. events' \in Seq(Events) /\ OneQuestion(events') /\ Questions(events') = Questions(events)
    <2>1. CASE Tell("started", c) BY <2>1, Tells DEF Calls
    <2>2. CASE UNCHANGED events BY <2>2 DEF IInv, Typed, AskedOnce
    <2> QED BY <2>1, <2>2 DEF StreamsCall
<1>6. Typed' BY <1>1, <1>2, <1>4, <1>5 DEF StreamsCall, EngineStep, bridge, IInv, Typed
<1>7. StepIsSound' BY <1>1, <1>2, <1>4 DEF IInv, Typed, StepIsSound
<1>8. Unasked' \subseteq Unasked BY <1>1, <1>2, <1>4 DEF Unasked, IInv, Typed
<1>9. AskedOnce' /\ PendingIsAwaited' /\ SenderIsUnused' BY <1>2, <1>5, <1>8, BridgeKept
<1>10. RunsOnlyApproved' /\ DecisionsAreMade' /\ ExecutedIsCalled'
    BY <1>1, <1>2, ApprovalsKept DEF IInv, Typed
<1> QED BY <1>5, <1>6, <1>7, <1>8, <1>9, <1>10 DEF IInv, AsksNothing

\* Steps that leave the calls of the step alone, or drop them.
LEMMA StreamEndsStep ==
    ASSUME IInv, StreamEnds \/ StreamEndsWithoutCalls \/ RecordsResults
    PROVE  IInv' /\ AsksNothing
<1> USE DEF StreamEnds, StreamEndsWithoutCalls, RecordsResults, CompletesTurn
<1>1. /\ EngineStep /\ kind' = kind /\ running' = running /\ decisions' = decisions
      /\ executed' = executed
    BY DEF plan
<1>2. events' \in Seq(Events) /\ OneQuestion(events') /\ Questions(events') = Questions(events)
    <2>1. CASE Tell("turn", 0) BY <2>1, Tells
    <2>2. CASE UNCHANGED events BY <2>2 DEF IInv, Typed, AskedOnce
    <2> QED BY <2>1, <2>2
<1>3. /\ step' \in Seq(Calls) /\ todo' \in Seq(Calls)
      /\ engine' \in {"idle", "stream", "execute", "approve", "ask"}
    BY EmptySeq DEF plan, IInv, Typed
<1>4. Typed' BY <1>1, <1>2, <1>3 DEF EngineStep, bridge, IInv, Typed
<1>5. StepIsSound' /\ Unasked' \subseteq Unasked
    <2>1. DOMAIN <<>> = {} /\ Range(<<>>) = {} /\ IsInjective(<<>>)
        BY EmptySeq DEF Range, IsInjective
    <2>2. CASE StreamEnds
        BY <1>1, <2>1, <2>2 DEF IInv, StepIsSound, Unasked
    <2>3. CASE StreamEndsWithoutCalls
        BY <1>1, <2>1, <2>3 DEF plan, IInv, StepIsSound, Unasked
    <2>4. CASE RecordsResults
        BY <1>1, <2>1, <2>4 DEF IInv, StepIsSound, Unasked
    <2> QED BY <2>2, <2>3, <2>4
<1>6. AskedOnce' /\ PendingIsAwaited' /\ SenderIsUnused' BY <1>1, <1>2, <1>5, BridgeKept
<1>7. RunsOnlyApproved' /\ DecisionsAreMade' /\ ExecutedIsCalled' BY <1>1, ApprovalsKept
<1> QED BY <1>2, <1>4, <1>5, <1>6, <1>7 DEF IInv, AsksNothing

LEMMA ChunkStep == ASSUME IInv, StartsChunk PROVE IInv' /\ AsksNothing
<1>1. PICK n \in 1..Len(todo) :
         LET calls == {todo[i] : i \in 1..n} IN
         /\ \E s \in Retained(SubSeq(todo, 1, n), {c \in calls : Completed(c)}) :
               events' = events \o [i \in DOMAIN s |-> Event("complete", s[i])]
         /\ running' = {c \in calls : kind[c] = "read"}
         /\ executed' = executed \cup running'
         /\ todo' = SubSeq(todo, n + 1, Len(todo))
    BY DEF StartsChunk
<1> DEFINE calls == {todo[i] : i \in 1..n}
<1>2. /\ EngineStep /\ kind' = kind /\ step' = step /\ decisions' = decisions
      /\ engine = "execute" /\ engine' = engine
    BY DEF StartsChunk
<1>3. /\ Len(todo) \in Nat /\ DOMAIN todo = 1..Len(todo) /\ todo \in Seq(Calls)
      /\ \A i \in 1..Len(todo) : todo[i] \in Calls
    BY LenProperties, ElementOfSeq DEF IInv, Typed
<1>4. /\ SubSeq(todo, 1, n) \in Seq(Calls) /\ IsInjective(SubSeq(todo, 1, n))
      /\ calls \subseteq Range(todo)
    BY <1>3, FrontKeeps DEF IInv, StepIsSound, Range
<1>5. events' \in Seq(Events) /\ OneQuestion(events') /\ Questions(events') = Questions(events)
    <2>1. PICK s \in Retained(SubSeq(todo, 1, n), {c \in calls : Completed(c)}) :
             events' = events \o [i \in DOMAIN s |-> Event("complete", s[i])]
        BY <1>1
    <2>2. s \in Seq(Calls) BY <1>4, RetainedKeeps
    <2> QED BY <2>1, <2>2, Completions, ConcatCompletions DEF IInv, Typed, AskedOnce
<1>6. /\ todo' \in Seq(Calls) /\ IsInjective(todo')
      /\ Range(todo') \subseteq Range(todo)
    BY <1>1, <1>3, SuffixKeeps DEF IInv, StepIsSound
<1>7. Typed' BY <1>1, <1>2, <1>3, <1>5, <1>6 DEF EngineStep, bridge, IInv, Typed
<1>8. StepIsSound' BY <1>2, <1>6 DEF IInv, StepIsSound
<1>9. Unasked' \subseteq Unasked BY <1>2, <1>6 DEF Unasked
<1>10. AskedOnce' /\ PendingIsAwaited' /\ SenderIsUnused' BY <1>2, <1>5, <1>9, BridgeKept
<1>11. RunsOnlyApproved' /\ DecisionsAreMade' /\ ExecutedIsCalled'
    BY <1>1, <1>2 DEF EngineStep, bridge, IInv, RunsOnlyApproved, NeedsApproval, Approved, DecisionsAreMade, Permits,
                      ExecutedIsCalled
<1> QED BY <1>5, <1>7, <1>8, <1>9, <1>10, <1>11 DEF IInv, AsksNothing

LEMMA CallEndsStep == ASSUME IInv, NEW c \in Calls, CallEnds(c) PROVE IInv' /\ AsksNothing
<1>1. /\ EngineStep /\ kind' = kind /\ step' = step /\ todo' = todo /\ engine' = engine
      /\ decisions' = decisions /\ executed' = executed /\ running' \subseteq running
      /\ Tell("complete", c)
    BY DEF CallEnds
<1>2. events' \in Seq(Events) /\ OneQuestion(events') /\ Questions(events') = Questions(events)
    BY <1>1, Tells DEF Calls
<1>3. Typed' BY <1>1, <1>2 DEF EngineStep, bridge, IInv, Typed
<1>4. StepIsSound' BY <1>1 DEF IInv, StepIsSound
<1>5. Unasked' \subseteq Unasked BY <1>1 DEF Unasked
<1>6. AskedOnce' /\ PendingIsAwaited' /\ SenderIsUnused' BY <1>1, <1>2, <1>5, BridgeKept
<1>7. RunsOnlyApproved' /\ DecisionsAreMade' /\ ExecutedIsCalled' BY <1>1, ApprovalsKept
<1> QED BY <1>2, <1>3, <1>4, <1>5, <1>6, <1>7 DEF IInv, AsksNothing

\* What is left of a step after its first call.
LEMMA HeadLeaves ==
    ASSUME IInv, todo # <<>>
    PROVE  /\ Head(todo) \in Calls /\ kind[Head(todo)] \notin {"none", "past"}
           /\ Tail(todo) \in Seq(Calls) /\ IsInjective(Tail(todo))
           /\ Range(Tail(todo)) = Range(todo) \ {Head(todo)} /\ Head(todo) \in Range(todo)
BY TailDrops DEF IInv, Typed, StepIsSound

\* A refusal takes the first call out of the step.
LEMMA RefusalStep ==
    ASSUME IInv, todo # <<>>, Refuses, engine \in {"execute", "approve", "ask"},
           decisions' \in Seq(Decisions), Range(decisions') \subseteq Range(decisions)
    PROVE  IInv' /\ AsksNothing
<1>1. /\ EngineStep /\ kind' = kind /\ step' = step /\ todo' = Tail(todo)
      /\ engine' = "execute" /\ executed' = executed /\ running' = running
      /\ Tell("complete", Head(todo))
    BY DEF Refuses
<1>2. events' \in Seq(Events) /\ OneQuestion(events') /\ Questions(events') = Questions(events)
    BY <1>1, HeadLeaves, Tells DEF Calls
<1>3. Typed' BY <1>1, <1>2, HeadLeaves DEF EngineStep, bridge, IInv, Typed
<1>4. StepIsSound' BY <1>1, HeadLeaves DEF IInv, StepIsSound
<1>5. Unasked' \subseteq Unasked BY <1>1, HeadLeaves DEF Unasked
<1>6. AskedOnce' /\ PendingIsAwaited' /\ SenderIsUnused' BY <1>1, <1>2, <1>5, BridgeKept
<1>7. RunsOnlyApproved' /\ DecisionsAreMade' /\ ExecutedIsCalled' BY <1>1, ApprovalsKept
<1> QED BY <1>2, <1>3, <1>4, <1>5, <1>6, <1>7 DEF IInv, AsksNothing

\* A question is asked for a call that was never asked about.
LEMMA AsksStep == ASSUME IInv, AsksApproval PROVE IInv'
<1>1. /\ EngineStep /\ UNCHANGED <<kind, step, todo, running, decisions, executed>>
      /\ engine = "execute" /\ engine' = "approve" /\ todo # <<>>
      /\ Tell("approval", Head(todo))
    BY DEF AsksApproval, Serial, plan
<1>2. Head(todo) \in Unasked /\ ~Asked(Head(todo)) /\ Head(todo) # 0
    BY <1>1, HeadLeaves DEF Unasked, IInv, AskedOnce, Calls
<1>3. /\ events' \in Seq(Events) /\ OneQuestion(events')
      /\ Questions(events') = Questions(events) \cup {Head(todo)}
    <2>1. Event("approval", Head(todo)) \in Events BY HeadLeaves, <1>1 DEF Event, Events
    <2> QED BY <1>1, <1>2, <2>1, AppendEvent DEF Tell, Event, Asked, IInv, Typed, AskedOnce
<1>4. Typed' BY <1>1, <1>3 DEF EngineStep, bridge, IInv, Typed
<1>5. StepIsSound' BY <1>1 DEF IInv, StepIsSound
<1>6. AskedOnce'
    <2>1. Unasked' \subseteq Unasked \ {Head(todo)}
        BY <1>1, HeadLeaves DEF Unasked
    <2>2. UNCHANGED <<monitor, pending, channel, client>> BY <1>1 DEF EngineStep, bridge
    <2>3. \A c \in Unasked' : ~Asked(c)' BY <1>3, <2>1, <2>2 DEF IInv, AskedOnce, Asked
    <2>4. monitor'.call \notin Questions(events') BY <1>2, <1>3, <2>2 DEF IInv, AskedOnce, Asked
    <2> QED BY <1>2, <1>3, <2>2, <2>3, <2>4 DEF IInv, AskedOnce, Asked
<1>7. PendingIsAwaited' /\ SenderIsUnused'
    BY <1>1 DEF EngineStep, bridge, IInv, PendingIsAwaited, SenderIsUnused
<1>8. RunsOnlyApproved' /\ DecisionsAreMade' /\ ExecutedIsCalled' BY <1>1, ApprovalsKept
<1> QED BY <1>4, <1>5, <1>6, <1>7, <1>8 DEF IInv

LEMMA AsksUserStep == ASSUME IInv, AsksUser PROVE IInv' /\ AsksNothing
<1>1. /\ EngineStep /\ UNCHANGED <<kind, step, todo, running, events, decisions, executed>>
      /\ engine = "execute" /\ engine' = "ask" /\ todo # <<>>
    BY DEF AsksUser, Serial, plan
<1>2. Typed' BY <1>1 DEF EngineStep, bridge, IInv, Typed
<1>3. StepIsSound' BY <1>1 DEF IInv, StepIsSound
<1>4. Unasked' \subseteq Unasked BY <1>1 DEF Unasked
<1>5. AskedOnce' /\ PendingIsAwaited' /\ SenderIsUnused'
    BY <1>1, <1>4, BridgeKept DEF IInv, AskedOnce
<1>6. RunsOnlyApproved' /\ DecisionsAreMade' /\ ExecutedIsCalled' BY <1>1, ApprovalsKept
<1> QED BY <1>1, <1>2, <1>3, <1>4, <1>5, <1>6 DEF IInv, AsksNothing

\* What is executed outside a batch was approved, or is never asked about.
LEMMA ExecutesStep ==
    ASSUME IInv, todo # <<>>, engine \in {"execute", "approve"}, Executes,
           decisions' \in Seq(Decisions), Range(decisions') \subseteq Range(decisions),
           NeedsApproval(Head(todo)) => Approved(Head(todo)) \/ kind[Head(todo)] = "code"
    PROVE  IInv' /\ AsksNothing
<1>1. /\ running' = {Head(todo)} /\ executed' = executed \cup running'
      /\ todo' = Tail(todo) /\ engine' = "execute"
      /\ EngineStep /\ UNCHANGED <<kind, step, done, transcript, events>>
    BY DEF Executes
<1>2. Typed' BY <1>1, HeadLeaves DEF EngineStep, bridge, IInv, Typed
<1>3. StepIsSound' BY <1>1, HeadLeaves DEF IInv, StepIsSound
<1>4. Unasked' \subseteq Unasked BY <1>1, HeadLeaves DEF Unasked
<1>5. AskedOnce' /\ PendingIsAwaited' /\ SenderIsUnused'
    BY <1>1, <1>4, BridgeKept DEF IInv, AskedOnce
<1>6. RunsOnlyApproved' /\ ExecutedIsCalled'
    BY <1>1, HeadLeaves DEF EngineStep, bridge, IInv, RunsOnlyApproved, NeedsApproval, Approved,
                            ExecutedIsCalled
<1>7. DecisionsAreMade' BY <1>1 DEF EngineStep, bridge, IInv, DecisionsAreMade, Permits
<1> QED BY <1>1, <1>2, <1>3, <1>4, <1>5, <1>6, <1>7 DEF IInv, AsksNothing

LEMMA RunsCodeStep == ASSUME IInv, RunsCode PROVE IInv' /\ AsksNothing
<1>1. /\ todo # <<>> /\ engine = "execute" /\ Executes /\ kind[Head(todo)] = "code"
      /\ decisions' = decisions
    BY DEF RunsCode, Serial
<1> QED BY <1>1, ExecutesStep DEF IInv, Typed

LEMMA ReadsStep == ASSUME IInv, ReadsDecision PROVE IInv' /\ AsksNothing
<1> DEFINE d == Head(decisions)
<1>1. /\ engine = "approve" /\ decisions # <<>> /\ decisions' = Tail(decisions) /\ todo # <<>>
    BY DEF ReadsDecision, IInv, StepIsSound
<1>2. /\ decisions' \in Seq(Decisions) /\ Range(decisions') \subseteq Range(decisions)
      /\ d \in Range(decisions) /\ d \in Decisions
    BY <1>1, TailRange DEF IInv, Typed
<1>3. CASE EngineStep /\ UNCHANGED <<plan, engine, transcript, events, executed>>
    <2>1. UNCHANGED <<kind, step, todo, running, engine, events, executed>> BY <1>3 DEF plan
    <2>2. Typed' BY <1>2, <1>3, <2>1 DEF EngineStep, bridge, IInv, Typed
    <2>3. StepIsSound' BY <2>1 DEF IInv, StepIsSound
    <2>4. Unasked' \subseteq Unasked BY <2>1 DEF Unasked
    <2>5. AskedOnce' /\ PendingIsAwaited' /\ SenderIsUnused'
        BY <1>3, <2>1, <2>4, BridgeKept DEF IInv, AskedOnce
    <2>6. RunsOnlyApproved' /\ DecisionsAreMade' /\ ExecutedIsCalled'
        BY <1>2, <1>3, <2>1, ApprovalsKept
    <2> QED BY <2>1, <2>2, <2>3, <2>4, <2>5, <2>6 DEF IInv, AsksNothing
<1>4. CASE Refuses BY <1>1, <1>2, <1>4, RefusalStep
<1>5. CASE IsForCall(d) /\ d.ok /\ Executes
    <2>1. Approved(Head(todo))
        BY <1>1, <1>2, <1>5, HeadLeaves DEF IInv, DecisionsAreMade, Permits, IsForCall, Approved
    <2> QED BY <1>1, <1>2, <1>5, <2>1, ExecutesStep
<1> QED BY <1>3, <1>4, <1>5 DEF ReadsDecision

LEMMA EngineSteps == ASSUME IInv, Engine PROVE IInv' /\ (AsksNothing \/ AsksApproval)
<1>1. CASE StreamEnds \/ StreamEndsWithoutCalls \/ RecordsResults BY <1>1, StreamEndsStep
<1>2. CASE StartsChunk BY <1>2, ChunkStep
<1>3. CASE MissesTool \/ GivesUpWaiting
    <2>1. /\ Refuses /\ UNCHANGED decisions /\ engine \in {"execute", "approve", "ask"}
          /\ todo # <<>>
        BY <1>3 DEF MissesTool, GivesUpWaiting, Serial, Interruptible, IInv, StepIsSound
    <2> QED BY <2>1, RefusalStep DEF IInv, Typed
<1>4. CASE AsksApproval BY <1>4, AsksStep
<1>5. CASE AsksUser BY <1>5, AsksUserStep
<1>6. CASE ReadsDecision BY <1>6, ReadsStep
<1>7. CASE \E c \in Calls : StreamsCall(c) \/ CallEnds(c) BY <1>7, StreamsStep, CallEndsStep
<1>8. CASE RunsCode BY <1>8, RunsCodeStep
<1> QED BY <1>1, <1>2, <1>3, <1>4, <1>5, <1>6, <1>7, <1>8 DEF Engine

-----------------------------------------------------------------------------
(* The monitor and the clients.                                            *)

\* The steps of the monitor leave the step of the engine alone.
LEMMA MonitorKeeps ==
    ASSUME IInv, MonitorStep
    PROVE  /\ StepIsSound' /\ ExecutedIsCalled' /\ Unasked' = Unasked
           /\ UNCHANGED <<kind, engine, step, todo, running, flags, client, executed>>
BY DEF MonitorStep, plan, IInv, StepIsSound, ExecutedIsCalled, Unasked

\* It takes an event that is no question, or the one that it announces.
LEMMA EventSteps ==
    ASSUME IInv, OpensItem \/ ClosesItem \/ AnnouncesApproval \/ SettlesTurn
    PROVE  IInv'
<1> USE DEF OpensItem, ClosesItem, AnnouncesApproval, SettlesTurn, Handles, Told, Goes
<1>1. /\ monitor.pc = "wait" /\ events # <<>> /\ events' = Tail(events) /\ MonitorStep
      /\ UNCHANGED <<decisions, pending, channel>>
    OBVIOUS
<1>2. /\ Head(events) \in Events /\ events' \in Seq(Events) /\ OneQuestion(events')
      /\ Questions(events') \subseteq Questions(events)
      /\ Head(events).what = "approval" =>
            Head(events).call \in Questions(events) /\ Head(events).call \notin Questions(events')
    BY <1>1, TailEvent DEF IInv, Typed, AskedOnce
<1>3. pending = {} /\ monitor.call = 0 BY <1>1 DEF IInv, Typed, PendingIsAwaited
<1>4. CASE monitor'.call = 0 /\ monitor' \in [pc : {"idle", "wait"}, call : {0}]
    <2>1. Typed' BY <1>1, <1>2, <1>4, MonitorKeeps DEF IInv, Typed
    <2>2. AskedOnce'
        BY <1>1, <1>2, <1>3, <1>4, MonitorKeeps DEF IInv, AskedOnce, Asked
    <2>3. PendingIsAwaited' /\ SenderIsUnused'
        BY <1>1, <1>3 DEF PendingIsAwaited, SenderIsUnused
    <2>4. RunsOnlyApproved' /\ DecisionsAreMade'
        BY <1>1, MonitorKeeps DEF IInv, RunsOnlyApproved, NeedsApproval, Approved, DecisionsAreMade, Permits
    <2> QED BY <2>1, <2>2, <2>3, <2>4, MonitorKeeps, <1>1 DEF IInv
<1>5. CASE AnnouncesApproval
    <2>1. /\ Head(events).call \in Calls /\ Head(events).call # 0
          /\ Head(events).what = "approval"
          /\ monitor' = [pc |-> "announced", call |-> Head(events).call]
        BY <1>2, <1>5 DEF Events, Event, Calls
    <2>2. Typed' BY <1>1, <1>2, <2>1, MonitorKeeps DEF IInv, Typed
    <2>3. AskedOnce'
        BY <1>1, <1>2, <2>1, MonitorKeeps DEF IInv, AskedOnce, Asked
    <2>4. PendingIsAwaited' /\ SenderIsUnused'
        BY <1>1, <1>3 DEF PendingIsAwaited, SenderIsUnused
    <2>5. RunsOnlyApproved' /\ DecisionsAreMade'
        BY <1>1, MonitorKeeps DEF IInv, RunsOnlyApproved, NeedsApproval, Approved, DecisionsAreMade, Permits
    <2> QED BY <2>2, <2>3, <2>4, <2>5, MonitorKeeps, <1>1 DEF IInv
<1>6. OpensItem \/ ClosesItem \/ SettlesTurn
          => monitor'.call = 0 /\ monitor' \in [pc : {"idle", "wait"}, call : {0}]
    BY <1>1, <1>3 DEF IInv, Typed, Nobody
<1> QED BY <1>4, <1>5, <1>6

\* It decides about the call it is at, and goes on.
LEMMA DecidesStep ==
    ASSUME IInv, MonitorStep, NEW ok \in BOOLEAN,
           monitor.pc \in {"announced", "waiting", "expired"}, Goes("wait", 0),
           decisions' = Append(decisions, [call |-> monitor.call, ok |-> ok]),
           events' = events, pending' = {},
           channel' \in [Calls -> {"none", "open", "allow", "deny", "late", "closed"}],
           \A c \in Calls : /\ c # monitor.call => channel'[c] = channel[c]
                            /\ channel[c] = "allow" => channel'[c] = "allow"
                            /\ channel'[c] = "none" => channel[c] = "none",
           ok => flags = "auto" \/ channel[monitor.call] = "allow"
    PROVE  IInv'
<1>1. monitor.call \in Calls /\ monitor' = [pc |-> "wait", call |-> 0]
    BY DEF IInv, Typed, Goes
<1>2. /\ decisions' \in Seq(Decisions)
      /\ Range(decisions') = Range(decisions) \cup {[call |-> monitor.call, ok |-> ok]}
    <2>1. [call |-> monitor.call, ok |-> ok] \in Decisions BY <1>1 DEF Decisions
    <2> QED BY <2>1, AppendRange DEF IInv, Typed
<1>3. Typed' BY <1>1, <1>2, MonitorKeeps DEF IInv, Typed
<1>4. AskedOnce'
    <2>1. 0 \notin Questions(events)
        <3>1. \A i \in DOMAIN events : events[i] \in Events
            BY ElementOfSeq, LenProperties DEF IInv, Typed
        <3> QED BY <3>1 DEF Questions, Events, Event, Calls
    <2>2. \A c \in Unasked : c \in Calls /\ c # 0
        <3>1. Range(step) \subseteq Calls /\ Range(todo) \subseteq Calls
            BY RangeType DEF IInv, Typed
        <3>2. engine = "approve" => Range(Tail(todo)) \subseteq Calls
            BY HeadLeaves, RangeType DEF IInv, StepIsSound
        <3> QED BY <3>1, <3>2 DEF Unasked, Calls
    <2>3. \A c \in Unasked : ~Asked(c)'
        BY <1>1, <2>2, MonitorKeeps DEF IInv, AskedOnce, Asked
    <2>4. \A c \in Questions(events) : c # monitor.call BY DEF IInv, AskedOnce
    <2> QED BY <1>1, <2>1, <2>3, <2>4, MonitorKeeps DEF IInv, AskedOnce
<1>5. PendingIsAwaited' /\ SenderIsUnused' BY DEF PendingIsAwaited, SenderIsUnused
<1>6. RunsOnlyApproved' BY MonitorKeeps DEF IInv, Typed, RunsOnlyApproved, NeedsApproval, Approved
<1>7. DecisionsAreMade'
    <2>1. kind[monitor.call] # "none" BY <1>1 DEF IInv, AskedOnce, Unasked, Asked
    <2>2. \A d \in Range(decisions) : Permits(d)'
        BY SaidIsTyped, MonitorKeeps DEF IInv, DecisionsAreMade, Permits
    <2>3. ASSUME NEW d, d = [call |-> monitor.call, ok |-> ok] PROVE Permits(d)'
        BY <1>1, <2>1, <2>3, MonitorKeeps DEF Permits
    <2> QED BY <1>2, <2>2, <2>3 DEF DecisionsAreMade
<1> QED BY <1>3, <1>4, <1>5, <1>6, <1>7, MonitorKeeps DEF IInv

LEMMA RegisterStep == ASSUME IInv, register_pending_approval PROVE IInv'
<1> DEFINE c == monitor.call
<1>1. /\ MonitorStep /\ monitor.pc = "announced" /\ c \in Calls /\ pending = {}
      /\ channel[c] = "none" /\ client # c /\ UNCHANGED <<events, decisions>>
      /\ pending' = {c} /\ channel' = [channel EXCEPT ![c] = "open"]
      /\ monitor' = [pc |-> "waiting", call |-> c]
    BY DEF register_pending_approval, Goes, IInv, Typed, AskedOnce, PendingIsAwaited
<1> HIDE DEF c
<1>2. Typed' BY <1>1, MonitorKeeps DEF IInv, Typed
<1>3. AskedOnce'
    <2>1. c \notin Questions(events) /\ c \notin Unasked /\ monitor'.call = c
        BY <1>1 DEF c, IInv, AskedOnce, Asked
    <2>2. \A b \in Unasked : b # c /\ ~Asked(b) BY <2>1 DEF IInv, AskedOnce
    <2>3. \A b \in Unasked : ~Asked(b)'
        BY <1>1, <2>2, MonitorKeeps DEF IInv, Typed, Asked
    <2> QED BY <1>1, <2>1, <2>3, MonitorKeeps DEF IInv, Typed, AskedOnce
<1>4. PendingIsAwaited' /\ SenderIsUnused'
    BY <1>1, MonitorKeeps DEF IInv, Typed, PendingIsAwaited, SenderIsUnused
<1>5. RunsOnlyApproved' BY <1>1, MonitorKeeps DEF IInv, Typed, RunsOnlyApproved, NeedsApproval, Approved
<1>6. DecisionsAreMade'
    BY <1>1, SaidIsTyped, MonitorKeeps DEF IInv, Typed, DecisionsAreMade, Permits
<1> QED BY <1>1, <1>2, <1>3, <1>4, <1>5, <1>6, MonitorKeeps DEF IInv

LEMMA ExpiresStep == ASSUME IInv, Expires PROVE IInv'
<1>1. /\ MonitorStep /\ monitor.pc = "waiting" /\ monitor.call \in Calls
      /\ UNCHANGED <<events, decisions, pending, channel>>
      /\ monitor' = [pc |-> "expired", call |-> monitor.call]
    BY DEF Expires, Goes, IInv, Typed
<1>2. Typed' BY <1>1, MonitorKeeps DEF IInv, Typed
<1>3. AskedOnce' BY <1>1, MonitorKeeps DEF IInv, AskedOnce, Asked
<1>4. PendingIsAwaited' /\ SenderIsUnused'
    BY <1>1, MonitorKeeps DEF IInv, PendingIsAwaited, SenderIsUnused
<1>5. RunsOnlyApproved' /\ DecisionsAreMade'
    BY <1>1, MonitorKeeps DEF IInv, RunsOnlyApproved, NeedsApproval, Approved, DecisionsAreMade, Permits
<1> QED BY <1>1, <1>2, <1>3, <1>4, <1>5, MonitorKeeps DEF IInv

LEMMA MonitorSteps == ASSUME IInv, Monitor PROVE IInv'
<1>1. CASE OpensItem \/ ClosesItem \/ AnnouncesApproval \/ SettlesTurn BY <1>1, EventSteps
<1>2. CASE DecidesByFlags
    <2>1. pending' = {} /\ channel' = channel /\ (flags = "auto") \in BOOLEAN
        BY <1>2 DEF DecidesByFlags, IInv, PendingIsAwaited
    <2> QED BY <1>2, <2>1, DecidesStep DEF DecidesByFlags, IInv, Typed
<1>3. CASE ReceivesDecision
    <2>1. /\ pending' = {} /\ channel' = channel
          /\ (channel[monitor.call] = "allow") \in BOOLEAN
        BY <1>3 DEF ReceivesDecision, IInv, PendingIsAwaited, SenderIsUnused
    <2> QED BY <1>3, <2>1, DecidesStep DEF ReceivesDecision, IInv, Typed
<1>4. CASE DropsReceiver
    <2>1. /\ pending' = {}
          /\ channel' = [channel EXCEPT ![monitor.call] = IF @ = "open" THEN "closed" ELSE @]
        BY <1>4 DEF DropsReceiver, cancel_pending_approval, IInv, PendingIsAwaited
    <2>2. /\ channel' \in [Calls -> {"none", "open", "allow", "deny", "late", "closed"}]
          /\ \A c \in Calls : /\ c # monitor.call => channel'[c] = channel[c]
                              /\ channel[c] = "allow" => channel'[c] = "allow"
                              /\ channel'[c] = "none" => channel[c] = "none"
        BY <2>1 DEF IInv, Typed
    <2> QED BY <1>4, <2>1, <2>2, DecidesStep DEF DropsReceiver
<1>5. CASE register_pending_approval BY <1>5, RegisterStep
<1>6. CASE Expires BY <1>6, ExpiresStep
<1> QED BY <1>1, <1>2, <1>3, <1>4, <1>5, <1>6 DEF Monitor

LEMMA ClientKeeps ==
    ASSUME IInv, ClientStep
    PROVE  /\ StepIsSound' /\ ExecutedIsCalled' /\ Unasked' = Unasked
           /\ UNCHANGED <<kind, engine, step, todo, running, flags, events, decisions,
                          monitor, executed>>
BY DEF ClientStep, plan, IInv, StepIsSound, ExecutedIsCalled, Unasked

LEMMA TakesStep == ASSUME IInv, NEW c \in Calls, TakesSender(c) PROVE IInv'
<1>1. /\ ClientStep /\ client = 0 /\ c \in pending /\ pending' = pending \ {c}
      /\ client' = c /\ channel' = channel
    BY DEF TakesSender
<1>2. Typed' BY <1>1, ClientKeeps DEF IInv, Typed
<1>3. AskedOnce' BY <1>1, ClientKeeps DEF IInv, AskedOnce, Asked
<1>4. PendingIsAwaited' /\ SenderIsUnused'
    BY <1>1, ClientKeeps DEF IInv, PendingIsAwaited, SenderIsUnused
<1>5. RunsOnlyApproved' /\ DecisionsAreMade'
    BY <1>1, ClientKeeps DEF IInv, RunsOnlyApproved, NeedsApproval, Approved, DecisionsAreMade, Permits
<1> QED BY <1>1, <1>2, <1>3, <1>4, <1>5, ClientKeeps DEF IInv

LEMMA SendsStep == ASSUME IInv, Sends PROVE IInv'
<1>1. PICK says \in {"allow", "deny"} :
        channel' = [channel EXCEPT ![client] =
           IF @ # "open" THEN @ ELSE IF Polled(client) THEN says ELSE "late"]
    BY DEF Sends
<1>2. ClientStep /\ client \in Calls /\ client' = 0 /\ pending' = pending
    BY DEF Sends, IInv, Typed
<1>3. /\ channel' \in [Calls -> {"none", "open", "allow", "deny", "late", "closed"}]
      /\ \A c \in Calls : /\ c # client => channel'[c] = channel[c]
                          /\ channel[c] \in {"none", "allow"} => channel'[c] = channel[c]
                          /\ channel'[c] = "none" => channel[c] = "none"
    BY <1>1, <1>2 DEF IInv, Typed
<1>4. Typed' BY <1>2, <1>3, ClientKeeps DEF IInv, Typed
<1>5. AskedOnce'
    <2>1. \A c \in Unasked : c \in Calls /\ c # 0
        <3>1. Range(step) \subseteq Calls /\ Range(todo) \subseteq Calls
            BY RangeType DEF IInv, Typed
        <3>2. engine = "approve" => Range(Tail(todo)) \subseteq Calls
            BY HeadLeaves, RangeType DEF IInv, StepIsSound
        <3> QED BY <3>1, <3>2 DEF Unasked, Calls
    <2>2. \A c \in Unasked : ~Asked(c)' BY <1>2, <1>3, <2>1, ClientKeeps DEF IInv, AskedOnce, Asked
    <2>3. 0 \notin Calls BY DEF Calls
    <2> QED BY <1>2, <1>3, <2>2, <2>3, ClientKeeps DEF IInv, AskedOnce
<1>6. PendingIsAwaited' /\ SenderIsUnused'
    BY <1>2, <1>3, ClientKeeps DEF IInv, Typed, PendingIsAwaited, SenderIsUnused, Calls
<1>7. RunsOnlyApproved' BY <1>2, <1>3, ClientKeeps DEF IInv, Typed, RunsOnlyApproved, NeedsApproval, Approved
<1>8. DecisionsAreMade'
    BY <1>2, <1>3, SaidIsTyped, ClientKeeps DEF IInv, DecisionsAreMade, Permits
<1> QED BY <1>2, <1>4, <1>5, <1>6, <1>7, <1>8, ClientKeeps DEF IInv

LEMMA InterruptStep == ASSUME IInv, interrupt_turn PROVE IInv'
<1>1. ClientStep /\ UNCHANGED <<pending, channel, client>> BY DEF interrupt_turn
<1>2. Typed' BY <1>1, ClientKeeps DEF IInv, Typed
<1>3. AskedOnce' /\ PendingIsAwaited' /\ SenderIsUnused'
    BY <1>1, ClientKeeps DEF IInv, AskedOnce, Asked, PendingIsAwaited, SenderIsUnused
<1>4. RunsOnlyApproved' /\ DecisionsAreMade'
    BY <1>1, ClientKeeps DEF IInv, RunsOnlyApproved, NeedsApproval, Approved, DecisionsAreMade, Permits
<1> QED BY <1>1, <1>2, <1>3, <1>4, ClientKeeps DEF IInv

LEMMA Step == ASSUME IInv, [Next]_vars PROVE IInv'
<1>1. CASE UNCHANGED vars
    <2> USE <1>1 DEF vars, plan, bridge
    <2>1. Typed' /\ StepIsSound' BY DEF IInv, Typed, StepIsSound
    <2>2. AskedOnce' /\ PendingIsAwaited' /\ SenderIsUnused'
        BY DEF IInv, AskedOnce, Unasked, Asked, PendingIsAwaited, SenderIsUnused
    <2>3. RunsOnlyApproved' /\ DecisionsAreMade' /\ ExecutedIsCalled'
        BY DEF IInv, RunsOnlyApproved, NeedsApproval, Approved, DecisionsAreMade, Permits, ExecutedIsCalled
    <2> QED BY <2>1, <2>2, <2>3 DEF IInv
<1>2. CASE StartTurn BY <1>2, StartStep
<1>3. CASE Engine BY <1>3, EngineSteps
<1>4. CASE Monitor BY <1>4, MonitorSteps
<1>5. CASE Sends \/ interrupt_turn BY <1>5, SendsStep, InterruptStep
<1>6. CASE \E c \in Calls : TakesSender(c) BY <1>6, TakesStep
<1> QED BY <1>1, <1>2, <1>3, <1>4, <1>5, <1>6 DEF Next

\* A call that needs approval, and is not one of the two that are executed without
\* asking, is executed only if its turn approves all calls or a client allowed it,
\* whatever decisions about other calls are still on their way (await_tool_approval,
\* and the approvals of monitor_turn).
THEOREM ApprovalIsNeeded == Spec => []RunsOnlyApproved
<1>1. IInv => RunsOnlyApproved BY DEF IInv
<1> QED BY Initially, Step, <1>1, PTL DEF Spec

\* What a client may still decide is the call the monitor waits for
\* (register_pending_approval, deliver_external_approval, cancel_pending_approval).
THEOREM PendingIsCurrent == Spec => []PendingIsAwaited
<1>1. IInv => PendingIsAwaited BY DEF IInv
<1> QED BY Initially, Step, <1>1, PTL DEF Spec

-----------------------------------------------------------------------------
(* The end of a turn.                                                      *)

\* How the engine writes to its channel.
LEMMA EngineTells ==
    ASSUME IInv, TurnIsLast, Engine
    PROVE  /\ EngineStep /\ engine # "idle"
           /\ \/ events' = events
              \/ \E e \in Events : events' = Append(events, e) /\ (e.what = "turn" => engine' = "idle")
              \/ \E s \in Seq(Calls) : events' = events \o [i \in DOMAIN s |-> Event("complete", s[i])]
<1>1. CASE StreamEnds \/ AsksUser \/ RunsCode
    BY <1>1 DEF StreamEnds, AsksUser, RunsCode, Executes
<1>2. ASSUME NEW what \in {"started", "complete", "turn", "approval"}, NEW c \in Calls \cup {0},
             what = "turn" <=> c = 0, Tell(what, c), what = "turn" => engine' = "idle"
      PROVE  \E e \in Events : events' = Append(events, e) /\ (e.what = "turn" => engine' = "idle")
    <2>1. Event(what, c) \in Events /\ Event(what, c).what = what
        BY <1>2 DEF Event, Events, Calls
    <2> QED BY <1>2, <2>1 DEF Tell
<1>3. CASE StreamEndsWithoutCalls \/ RecordsResults
    BY <1>2, <1>3 DEF StreamEndsWithoutCalls, RecordsResults, CompletesTurn
<1>4. CASE StartsChunk
    <2>0. PICK n \in 1..Len(todo) :
              \E s \in Retained(SubSeq(todo, 1, n), {c \in {todo[i] : i \in 1..n} : Completed(c)}) :
                  events' = events \o [i \in DOMAIN s |-> Event("complete", s[i])]
        BY <1>4 DEF StartsChunk
    <2>1. PICK s \in Retained(SubSeq(todo, 1, n), {c \in {todo[i] : i \in 1..n} : Completed(c)}) :
              events' = events \o [i \in DOMAIN s |-> Event("complete", s[i])]
        BY <2>0
    <2>2. SubSeq(todo, 1, n) \in Seq(Calls) /\ IsInjective(SubSeq(todo, 1, n))
        BY FrontKeeps DEF IInv, Typed, StepIsSound
    <2>3. s \in Seq(Calls)
        BY <2>2, RetainedKeeps
    <2> QED BY <1>4, <2>1, <2>3 DEF StartsChunk
<1>5. CASE Refuses /\ engine # "idle" /\ todo # <<>>
    <2>1. Head(todo) \in Calls /\ Head(todo) # 0
        BY <1>5, HeadLeaves DEF Calls
    <2> QED BY <1>2, <1>5, <2>1 DEF Refuses
<1>6. CASE MissesTool \/ GivesUpWaiting
    BY <1>5, <1>6 DEF MissesTool, GivesUpWaiting, Serial, Interruptible, IInv, StepIsSound
<1>7. CASE AsksApproval
    <2>1. Head(todo) \in Calls /\ Head(todo) # 0
        BY <1>7, HeadLeaves DEF Calls, AsksApproval, Serial
    <2> QED BY <1>2, <1>7, <2>1 DEF AsksApproval
<1>8. CASE ReadsDecision
    BY <1>5, <1>8 DEF ReadsDecision, Executes, IInv, StepIsSound
<1>9. ASSUME NEW c \in Calls, StreamsCall(c) \/ CallEnds(c)
      PROVE  /\ EngineStep /\ engine # "idle"
             /\ \/ events' = events
                \/ \E e \in Events : events' = Append(events, e) /\ (e.what = "turn" => engine' = "idle")
    <2>1. c # 0
        BY DEF Calls
    <2> QED BY <1>2, <1>9, <2>1 DEF StreamsCall, CallEnds, TurnIsLast
<1> QED BY <1>1, <1>3, <1>4, <1>6, <1>7, <1>8, <1>9 DEF Engine

\* A batch runs while the engine executes.
LEMMA RunsInBatches ==
    ASSUME IInv, TurnIsLast, Engine
    PROVE  running' # {} => engine' = "execute"
<1>1. CASE Refuses
    BY <1>1 DEF Refuses
<1>2. CASE MissesTool \/ GivesUpWaiting
    BY <1>1, <1>2 DEF MissesTool, GivesUpWaiting
<1>3. CASE ReadsDecision \/ RunsCode
    BY <1>1, <1>3 DEF ReadsDecision, RunsCode, Executes, plan, TurnIsLast
<1>4. CASE StreamEnds \/ StreamEndsWithoutCalls \/ RecordsResults
    BY <1>4 DEF StreamEnds, StreamEndsWithoutCalls, RecordsResults, CompletesTurn, plan, TurnIsLast
<1>5. CASE AsksApproval \/ AsksUser
    BY <1>5 DEF AsksApproval, AsksUser, Serial, plan
<1>6. CASE StartsChunk
    BY <1>6 DEF StartsChunk
<1>7. ASSUME NEW c \in Calls, StreamsCall(c) \/ CallEnds(c) PROVE running' # {} => engine' = "execute"
    BY <1>7 DEF StreamsCall, CallEnds, TurnIsLast
<1> QED BY <1>2, <1>3, <1>4, <1>5, <1>6, <1>7 DEF Engine

\* What the monitor takes from its channel.
LEMMA MonitorTakes ==
    ASSUME IInv, Monitor
    PROVE  /\ MonitorStep /\ monitor.pc # "idle"
           /\ \/ UNCHANGED <<events, tool_items>> /\ monitor'.pc # "idle"
              \/ /\ events # <<>> /\ events' = Tail(events)
                 /\ \/ OpensItem \/ ClosesItem \/ AnnouncesApproval \/ SettlesTurn
<1>1. CASE OpensItem \/ ClosesItem \/ AnnouncesApproval \/ SettlesTurn
    BY <1>1 DEF OpensItem, ClosesItem, AnnouncesApproval, SettlesTurn, Handles
<1>2. CASE DecidesByFlags \/ register_pending_approval \/ ReceivesDecision \/ Expires \/ DropsReceiver
    BY <1>2 DEF DecidesByFlags, register_pending_approval, ReceivesDecision, Expires, DropsReceiver, Goes
<1> QED BY <1>1, <1>2 DEF Monitor

LEMMA TurnLastStep == ASSUME IInv, TurnIsLast, [Next]_vars PROVE TurnIsLast'
<1>0. /\ Len(events) \in Nat /\ DOMAIN events = 1..Len(events) /\ events \in Seq(Events)
    BY LenProperties DEF IInv, Typed
<1>1. CASE Engine
    <2>1. EngineStep /\ engine # "idle" /\ running' # {} => engine' = "execute"
        BY <1>1, EngineTells, RunsInBatches
    <2>2. monitor' = monitor /\ monitor.pc # "idle"
        BY <1>1, <2>1, EngineTells DEF EngineStep, TurnIsLast
    <2>3. \A i \in DOMAIN events : events[i].what # "turn"
        BY <1>1, EngineTells DEF TurnIsLast
    <2>4. CASE events' = events
        BY <1>1, <2>2, <2>3, <2>4, RunsInBatches DEF TurnIsLast
    <2>5. ASSUME NEW e \in Events, events' = Append(events, e), e.what = "turn" => engine' = "idle"
          PROVE  TurnIsLast'
        <3>1. /\ Len(events') = Len(events) + 1 /\ DOMAIN events' = 1..Len(events) + 1
              /\ events'[Len(events) + 1] = e /\ \A i \in 1..Len(events) : events'[i] = events[i]
            BY <1>0, <2>5, AppendProperties, LenProperties
        <3>2. \A i \in DOMAIN events' : i \in DOMAIN events \/ i = Len(events')
            BY <1>0, <3>1
        <3>3. \A i \in DOMAIN events' : events'[i].what = "turn" => i = Len(events') /\ engine' = "idle"
            BY <1>0, <2>3, <2>5, <3>1, <3>2
        <3> QED BY <1>1, <2>2, <3>3, RunsInBatches DEF TurnIsLast
    <2>6. ASSUME NEW s \in Seq(Calls), events' = events \o [i \in DOMAIN s |-> Event("complete", s[i])]
          PROVE  TurnIsLast'
        <3> DEFINE t == [i \in DOMAIN s |-> Event("complete", s[i])]
        <3>1. t \in Seq(Events) /\ \A i \in DOMAIN t : t[i].what = "complete"
            BY Completions
        <3> HIDE DEF t
        <3>2. Len(t) \in Nat /\ DOMAIN t = 1..Len(t)
            BY <3>1, LenProperties
        <3>3. /\ Len(events \o t) = Len(events) + Len(t) /\ DOMAIN (events \o t) = 1..Len(events) + Len(t)
              /\ \A i \in 1..Len(events) : (events \o t)[i] = events[i]
              /\ \A i \in Len(events) + 1..Len(events) + Len(t) : (events \o t)[i] = t[i - Len(events)]
            BY <1>0, <3>1, ConcatProperties, LenProperties
        <3>4. events' = events \o t
            BY <2>6 DEF t
        <3>5. ASSUME NEW i \in DOMAIN events' PROVE events'[i].what # "turn"
            <4>1. CASE i \in 1..Len(events)
                BY <1>0, <2>3, <3>3, <3>4, <4>1
            <4>2. CASE i \in Len(events) + 1..Len(events) + Len(t)
                <5>1. i - Len(events) \in DOMAIN t
                    BY <1>0, <3>2, <4>2
                <5> QED BY <3>1, <3>3, <3>4, <4>2, <5>1
            <4> QED BY <1>0, <3>2, <3>3, <3>4, <4>1, <4>2
        <3> QED BY <1>1, <2>2, <3>5, RunsInBatches DEF TurnIsLast
    <2> QED BY <1>1, <2>4, <2>5, <2>6, EngineTells
<1>2. CASE Monitor
    <2>1. engine' = engine /\ running' = running
        BY <1>2, MonitorTakes DEF MonitorStep, plan
    <2>2. CASE UNCHANGED events /\ monitor'.pc # "idle"
        BY <2>1, <2>2 DEF TurnIsLast
    <2>3. CASE events # <<>> /\ events' = Tail(events) /\ (OpensItem \/ ClosesItem \/ AnnouncesApproval \/ SettlesTurn)
        <3>1. /\ Len(events) > 0 /\ Len(events') = Len(events) - 1 /\ DOMAIN events' = 1..Len(events) - 1
              /\ Head(events) = events[1] /\ \A i \in 1..Len(events) - 1 : events'[i] = events[i + 1]
              /\ events' \in Seq(Events)
            BY <1>0, <2>3, HeadTailProperties, LenProperties, EmptySeq
        <3>2. ASSUME NEW i \in DOMAIN events', events'[i].what = "turn"
              PROVE  i = Len(events') /\ engine' = "idle"
            <4>1. i + 1 \in DOMAIN events /\ events[i + 1].what = "turn" /\ i \in Nat
                BY <1>0, <3>1, <3>2
            <4>2. i + 1 = Len(events) /\ engine = "idle"
                BY <4>1 DEF TurnIsLast
            <4> QED BY <1>0, <2>1, <3>1, <4>1, <4>2
        <3>3. CASE SettlesTurn
            <4>1. 1 \in DOMAIN events /\ events[1].what = "turn"
                BY <1>0, <3>1, <3>3 DEF SettlesTurn, Handles
            <4>2. Len(events) = 1 /\ engine = "idle"
                BY <4>1 DEF TurnIsLast
            <4>3. events' = <<>>
                BY <1>0, <3>1, <4>2, EmptySeq
            <4> QED BY <2>1, <3>2, <4>2, <4>3 DEF TurnIsLast
        <3>4. CASE OpensItem \/ ClosesItem \/ AnnouncesApproval
            <4>1. monitor'.pc # "idle"
                BY <3>4 DEF OpensItem, ClosesItem, AnnouncesApproval, Handles, Goes
            <4> QED BY <2>1, <3>2, <4>1 DEF TurnIsLast
        <3> QED BY <2>3, <3>3, <3>4
    <2> QED BY <1>2, <2>2, <2>3, MonitorTakes
<1>3. CASE StartTurn
    <2>1. events = <<>> /\ events' = events /\ monitor'.pc = "wait" /\ running' = running /\ running = {}
        BY <1>3 DEF StartTurn, TurnIsLast
    <2>2. DOMAIN events = {}
        BY <2>1
    <2> QED BY <2>1, <2>2 DEF TurnIsLast
<1>4. CASE UNCHANGED <<events, engine, monitor, running>>
    BY <1>4 DEF TurnIsLast
<1>5. UNCHANGED <<events, engine, monitor, running>> \/ Engine \/ Monitor \/ StartTurn
    BY DEF Next, vars, plan, Sends, interrupt_turn, TakesSender, ClientStep
<1> QED BY <1>1, <1>2, <1>3, <1>4, <1>5

-----------------------------------------------------------------------------
(* What was allowed in time is done.                                       *)

\* The engine goes on with the call, or gives it up.
LEMMA AllowEngine ==
    ASSUME AllowInv, Engine
    PROVE  /\ AskedIsNext' /\ Undecided'
           /\ monitor'.pc = "expired" => channel'[monitor'.call] \in {"open", "late"}
           /\ \A c \in Calls : channel'[c] = "allow" => Carried(c)'
<1>1. IInv /\ TurnIsLast
    BY DEF AllowInv
<1>2. /\ IInv' /\ (AsksNothing \/ AsksApproval) /\ EngineStep
      /\ UNCHANGED <<cancelled, flags, monitor, channel, pending, client>>
    BY <1>1, EngineSteps, EngineTells DEF EngineStep, bridge
<1>3. monitor'.pc = "expired" => channel'[monitor'.call] \in {"open", "late"}
    BY <1>2 DEF AllowInv
<1>4. \A d \in Range(decisions) : d.call \in Calls /\ d \in Decisions
    BY <1>1, SaidIsTyped
\* Unless it asks or reads an answer, the engine waits for nothing.
<1>6. CASE engine # "approve" /\ AsksNothing /\ decisions' = decisions /\ executed \subseteq executed'
    BY <1>2, <1>3, <1>6 DEF AllowInv, AskedIsNext, Undecided, Carried, AsksNothing
<1>7. CASE AsksApproval
    <2>1. /\ engine = "execute" /\ engine' = "approve" /\ todo' = todo /\ todo # <<>>
          /\ decisions' = decisions /\ executed' = executed /\ Tell("approval", Head(todo))
        BY <1>7 DEF AsksApproval, Serial, plan
    <2>2. /\ Head(todo) \in Calls /\ Head(todo) \in Unasked
        BY <1>1, <2>1, HeadLeaves DEF Unasked
    <2>3. Questions(events') = Questions(events) \cup {Head(todo)}
        <3>1. Event("approval", Head(todo)) \in Events /\ Head(todo) # 0
            BY <2>2 DEF Event, Events, Calls
        <3>2. Head(todo) \notin Questions(events)
            BY <1>1, <2>2 DEF IInv, AskedOnce, Asked
        <3> QED BY <1>1, <2>1, <3>1, <3>2, AppendEvent DEF Tell, Event, IInv, Typed, AskedOnce
    <2>4. Unasked' \subseteq Unasked
        <3>1. Range(Tail(todo)) \subseteq Range(todo)
            BY <1>1, <2>1, HeadLeaves
        <3> QED BY <1>7, <2>1, <3>1 DEF Unasked, AsksApproval, plan
    <2>5. AskedIsNext'
        BY <1>2, <2>1, <2>3 DEF AllowInv, AskedIsNext
    <2>6. Undecided'
        BY <1>2, <2>1, <2>2, <2>3, <2>4 DEF AllowInv, Undecided
    <2>7. \A c \in Calls : channel'[c] = "allow" => Carried(c)'
        BY <1>2, <2>1 DEF AllowInv, Carried
    <2> QED BY <1>3, <2>5, <2>6, <2>7
<1>8. CASE GivesUpWaiting
    <2>1. cancelled /\ decisions' = decisions /\ executed' = executed
        BY <1>8 DEF GivesUpWaiting, Refuses
    <2>2. AsksNothing
        <3>1. /\ Refuses /\ engine \in {"execute", "approve", "ask"} /\ todo # <<>>
            BY <1>1, <1>8 DEF GivesUpWaiting, Interruptible, IInv, StepIsSound
        <3> QED BY <1>1, <2>1, <3>1, RefusalStep DEF IInv, Typed
    <2> QED BY <1>2, <1>3, <2>1, <2>2 DEF AllowInv, AskedIsNext, Undecided, Carried, AsksNothing
<1>9. CASE ReadsDecision
    <2> DEFINE d == Head(decisions) h == Head(todo)
    <2>1. /\ engine = "approve" /\ decisions # <<>> /\ decisions' = Tail(decisions) /\ todo # <<>>
          /\ decisions \in Seq(Decisions)
        BY <1>1, <1>9 DEF ReadsDecision, IInv, StepIsSound, Typed
    <2>2. /\ d \in Range(decisions) /\ d \in Decisions /\ Range(decisions') \subseteq Range(decisions)
          /\ Range(decisions) \subseteq Range(decisions') \cup {d}
        BY <2>1, TailRange, HeadOrTail
    <2>3. AsksNothing
        BY <1>1, <1>9, ReadsStep
    <2>4. Undecided'
        BY <1>2, <2>2, <2>3 DEF AllowInv, Undecided, AsksNothing
    <2>5. CASE ~IsForCall(d) /\ UNCHANGED <<plan, engine, executed, events>>
        <3>1. engine' = engine /\ todo' = todo /\ d.call # h
            BY <2>5 DEF plan, IsForCall
        <3>2. AskedIsNext'
            BY <1>2, <2>3, <3>1 DEF AllowInv, AskedIsNext, AsksNothing
        <3>3. ASSUME NEW c \in Calls, channel'[c] = "allow" PROVE Carried(c)'
            <4>1. Carried(c)
                BY <1>2, <3>3 DEF AllowInv
            <4>2. h = c => [call |-> c, ok |-> TRUE] # d
                BY <3>1
            <4> QED BY <1>2, <2>2, <2>5, <3>1, <4>1, <4>2 DEF Carried
        <3> QED BY <1>3, <2>4, <3>2, <3>3
    \* After the answer to its question nobody asks for the call.
    <2>6. CASE IsForCall(d)
        <3>1. d.call = h /\ h \in Calls
            BY <1>1, <2>1, <2>6, HeadLeaves DEF IsForCall
        <3>2. h \notin Questions(events) /\ h # monitor.call
            BY <2>2, <3>1 DEF AllowInv, Undecided
        <3>3. AskedIsNext'
            BY <1>2, <2>3, <3>2 DEF AllowInv, AskedIsNext, AsksNothing
        <3>4. CASE ~d.ok
            <4>1. channel[h] # "allow"
                BY <2>2, <3>1, <3>4 DEF AllowInv, Carried
            <4>2. executed' = executed
                BY <1>9, <3>4 DEF ReadsDecision, Refuses
            <4>3. ASSUME NEW c \in Calls, channel'[c] = "allow" PROVE Carried(c)'
                <5>1. Carried(c) /\ c # h
                    BY <1>2, <4>1, <4>3 DEF AllowInv
                <5> QED BY <1>2, <2>2, <4>2, <5>1 DEF Carried
            <4> QED BY <1>3, <2>4, <3>3, <4>3
        <3>5. CASE d.ok
            <4>1. executed' = executed \cup {h}
                BY <1>9, <2>6, <3>5 DEF ReadsDecision, Executes
            <4>2. ASSUME NEW c \in Calls, channel'[c] = "allow" PROVE Carried(c)'
                <5>1. Carried(c)
                    BY <1>2, <4>2 DEF AllowInv
                <5> QED BY <1>2, <2>2, <4>1, <5>1 DEF Carried
            <4> QED BY <1>3, <2>4, <3>3, <4>2
        <3> QED BY <3>4, <3>5
    <2> QED BY <1>9, <2>5, <2>6 DEF ReadsDecision
<1>10. CASE StreamEnds \/ StreamEndsWithoutCalls \/ RecordsResults
    <2>1. engine # "approve" /\ decisions' = decisions /\ executed' = executed
        BY <1>10 DEF StreamEnds, StreamEndsWithoutCalls, RecordsResults, CompletesTurn
    <2> QED BY <1>1, <1>6, <1>10, <2>1, StreamEndsStep
<1>11. CASE StartsChunk
    <2>1. engine # "approve" /\ decisions' = decisions /\ executed \subseteq executed'
        BY <1>11 DEF StartsChunk
    <2> QED BY <1>1, <1>6, <1>11, <2>1, ChunkStep
<1>12. CASE MissesTool
    <2>1. engine = "execute" /\ decisions' = decisions /\ executed' = executed /\ Refuses /\ todo # <<>>
        BY <1>12 DEF MissesTool, Refuses, Serial
    <2>2. AsksNothing
        BY <1>1, <2>1, RefusalStep DEF IInv, Typed
    <2> QED BY <1>6, <2>1, <2>2
<1>13. CASE AsksUser
    <2>1. engine # "approve" /\ decisions' = decisions /\ executed' = executed
        BY <1>13 DEF AsksUser
    <2> QED BY <1>1, <1>6, <1>13, <2>1, AsksUserStep
<1>14. ASSUME NEW c \in Calls, StreamsCall(c) \/ CallEnds(c)
       PROVE  /\ AskedIsNext' /\ Undecided'
              /\ monitor'.pc = "expired" => channel'[monitor'.call] \in {"open", "late"}
              /\ \A b \in Calls : channel'[b] = "allow" => Carried(b)'
    <2>1. engine # "approve" /\ decisions' = decisions /\ executed' = executed
        BY <1>1, <1>14 DEF StreamsCall, CallEnds, TurnIsLast
    <2> QED BY <1>1, <1>6, <1>14, <2>1, StreamsStep, CallEndsStep
<1>15. CASE RunsCode
    <2>1. engine # "approve" /\ decisions' = decisions /\ executed \subseteq executed'
        BY <1>15 DEF RunsCode, Executes
    <2> QED BY <1>1, <1>6, <1>15, <2>1, RunsCodeStep
<1> QED BY <1>7, <1>8, <1>9, <1>10, <1>11, <1>12, <1>13, <1>14, <1>15 DEF Engine

\* The monitor decides about the call it is at.
LEMMA AllowDecides ==
    ASSUME AllowInv, MonitorStep, NEW ok \in BOOLEAN,
           monitor.pc \in {"announced", "waiting", "expired"}, Goes("wait", 0),
           decisions' = Append(decisions, [call |-> monitor.call, ok |-> ok]), events' = events,
           \A c \in Calls : channel'[c] = "allow" => channel[c] = "allow",
           channel'[monitor.call] = "allow" => ok
    PROVE  /\ AskedIsNext' /\ Undecided' /\ monitor'.pc # "expired"
           /\ \A c \in Calls : channel'[c] = "allow" => Carried(c)'
<1> DEFINE m == monitor.call
           d == [call |-> m, ok |-> ok]
<1>1. /\ IInv /\ m \in Calls /\ 0 \notin Calls /\ monitor'.call = 0 /\ monitor'.pc # "expired"
      /\ cancelled' = cancelled
    BY DEF AllowInv, IInv, Typed, Goes, Calls, MonitorStep
<1>2. /\ UNCHANGED <<engine, todo, executed>> /\ Unasked' = Unasked
    BY <1>1, MonitorKeeps
<1>3. Range(decisions') = Range(decisions) \cup {d}
    <2>1. d \in Decisions BY <1>1 DEF Decisions
    <2> QED BY <1>1, <2>1, AppendRange DEF IInv, Typed
<1>4. AskedIsNext' BY <1>1, <1>2 DEF AllowInv, AskedIsNext
<1>5. Undecided'
    <2>1. m \notin Unasked /\ m \notin Questions(events)
        BY <1>1 DEF IInv, AskedOnce, Asked
    <2>2. ASSUME NEW e \in Range(decisions)
          PROVE  e.call \notin Unasked /\ e.call \notin Questions(events) /\ e.call # 0
        BY <1>1, SaidIsTyped DEF AllowInv, Undecided
    <2>3. d.call = m OBVIOUS
    <2> HIDE DEF d, m
    <2> QED BY <1>1, <1>2, <1>3, <2>1, <2>2, <2>3 DEF Undecided
<1>6. ASSUME NEW c \in Calls, channel'[c] = "allow" PROVE Carried(c)'
    <2>1. Carried(c) BY <1>6 DEF AllowInv
    <2>2. CASE c = m
        <3>1. d = [call |-> c, ok |-> TRUE] /\ d.ok BY <1>6, <2>2
        <3> HIDE DEF d
        <3> QED BY <1>1, <1>2, <1>3, <2>1, <2>2, <3>1 DEF Carried
    <2>3. CASE c # m
        <3>1. d.call # c BY <2>3
        <3> HIDE DEF d
        <3> QED BY <1>1, <1>2, <1>3, <2>1, <2>3, <3>1 DEF Carried
    <2> QED BY <2>2, <2>3
<1> QED BY <1>1, <1>4, <1>5, <1>6

\* It takes an event: a question is announced for a call nobody has decided.
LEMMA AllowTakes ==
    ASSUME AllowInv, OpensItem \/ ClosesItem \/ AnnouncesApproval \/ SettlesTurn
    PROVE  /\ AskedIsNext' /\ Undecided' /\ monitor'.pc # "expired"
           /\ \A c \in Calls : channel'[c] = "allow" => Carried(c)'
<1> USE DEF OpensItem, ClosesItem, AnnouncesApproval, SettlesTurn, Handles, Told, Goes
<1>1. /\ monitor.pc = "wait" /\ events # <<>> /\ events' = Tail(events) /\ MonitorStep
      /\ UNCHANGED <<decisions, channel>> /\ IInv /\ 0 \notin Calls
    BY DEF AllowInv, Calls
<1>2. /\ monitor.call = 0 /\ monitor'.pc # "expired"
      /\ monitor'.call # 0 => monitor'.call \in Questions(events)
      /\ Questions(events') \subseteq Questions(events)
    BY <1>1, TailEvent DEF IInv, Typed, AskedOnce, Nobody
<1>3. UNCHANGED <<engine, todo, executed, cancelled>> /\ Unasked' = Unasked
    BY <1>1, MonitorKeeps DEF MonitorStep
<1>4. AskedIsNext' BY <1>1, <1>2, <1>3 DEF AllowInv, AskedIsNext
<1>5. Undecided'
    BY <1>1, <1>2, <1>3, SaidIsTyped DEF AllowInv, Undecided
<1>6. \A c \in Calls : channel'[c] = "allow" => Carried(c)'
    BY <1>1, <1>2, <1>3 DEF AllowInv, Carried
<1> QED BY <1>2, <1>4, <1>5, <1>6

LEMMA AllowMonitor ==
    ASSUME AllowInv, Monitor
    PROVE  /\ AskedIsNext' /\ Undecided'
           /\ monitor'.pc = "expired" => channel'[monitor'.call] \in {"open", "late"}
           /\ \A c \in Calls : channel'[c] = "allow" => Carried(c)'
<1>1. IInv BY DEF AllowInv
<1>2. CASE DecidesByFlags
    <2>1. channel[monitor.call] = "none" /\ channel' = channel
        BY <1>1, <1>2 DEF DecidesByFlags, IInv, Typed, AskedOnce
    <2> QED BY <1>2, <2>1, AllowDecides DEF DecidesByFlags
<1>3. CASE ReceivesDecision
    BY <1>3, AllowDecides DEF ReceivesDecision
<1>4. CASE DropsReceiver
    <2>1. channel[monitor.call] \in {"open", "late"}
        BY <1>4 DEF DropsReceiver, AllowInv
    <2>2. \A c \in Calls : channel'[c] = "allow" => channel[c] = "allow" /\ c # monitor.call
        BY <1>1, <1>4, <2>1 DEF DropsReceiver, IInv, Typed
    <2>3. monitor.call \in Calls
        BY <1>1, <1>4 DEF DropsReceiver, IInv, Typed
    <2> QED BY <1>4, <2>2, <2>3, AllowDecides DEF DropsReceiver
<1>5. CASE register_pending_approval \/ Expires
    <2>1. /\ UNCHANGED <<decisions, events>> /\ MonitorStep /\ monitor'.call = monitor.call
          /\ monitor'.pc = "expired" => channel'[monitor.call] = "open"
          /\ \A c \in Calls : channel'[c] = "allow" => channel[c] = "allow"
        BY <1>1, <1>5 DEF register_pending_approval, Expires, Goes, Empty, IInv, Typed
    <2>2. UNCHANGED <<engine, todo, executed, cancelled>> /\ Unasked' = Unasked
        BY <1>1, <2>1, MonitorKeeps DEF MonitorStep
    <2>3. AskedIsNext' /\ Undecided'
        BY <2>1, <2>2 DEF AllowInv, AskedIsNext, Undecided
    <2>4. \A c \in Calls : channel'[c] = "allow" => Carried(c)'
        BY <2>1, <2>2 DEF AllowInv, Carried
    <2> QED BY <2>1, <2>3, <2>4
<1>6. CASE OpensItem \/ ClosesItem \/ AnnouncesApproval \/ SettlesTurn
    BY <1>6, AllowTakes
<1> QED BY <1>2, <1>3, <1>4, <1>5, <1>6 DEF Monitor

\* A client allows what the monitor still waits for; nobody has decided it before.
LEMMA AllowClient ==
    ASSUME AllowInv, Sends \/ interrupt_turn \/ (\E c \in Calls : TakesSender(c))
    PROVE  /\ AskedIsNext' /\ Undecided'
           /\ monitor'.pc = "expired" => channel'[monitor'.call] \in {"open", "late"}
           /\ \A c \in Calls : channel'[c] = "allow" => Carried(c)'
<1>1. IInv /\ ClientStep
    BY DEF AllowInv, Sends, interrupt_turn, TakesSender
<1>2. /\ UNCHANGED <<engine, todo, executed, events, decisions, monitor>> /\ Unasked' = Unasked
    BY <1>1, ClientKeeps
<1>3. cancelled => cancelled'
    BY DEF Sends, interrupt_turn, TakesSender
<1>4. AskedIsNext' /\ Undecided'
    BY <1>2, <1>3 DEF AllowInv, AskedIsNext, Undecided
<1>5. CASE channel' = channel
    BY <1>2, <1>3, <1>4, <1>5 DEF AllowInv, Carried
<1>6. CASE Sends
    <2>1. PICK says \in {"allow", "deny"} :
            channel' = [channel EXCEPT ![client] =
               IF @ # "open" THEN @ ELSE IF Polled(client) THEN says ELSE "late"]
        BY <1>6 DEF Sends
    <2>2. client \in Calls /\ cancelled' = cancelled
        BY <1>1, <1>6 DEF Sends, IInv, Typed
    <2>3. \A c \in Calls : channel'[c] = "allow" => channel[c] = "allow" \/ (c = client /\ Polled(c))
        BY <1>1, <2>1, <2>2 DEF IInv, Typed
    <2>4. monitor'.pc = "expired" => channel'[monitor'.call] \in {"open", "late"}
        BY <1>1, <1>2, <2>1, <2>2 DEF AllowInv, Polled, IInv, Typed
    <2>5. ASSUME NEW c \in Calls, channel'[c] = "allow" PROVE Carried(c)'
        <3>1. CASE channel[c] = "allow"
            BY <1>2, <1>3, <3>1 DEF AllowInv, Carried
        <3>2. CASE Polled(c)
            <4>1. monitor.call = c BY <3>2 DEF Polled
            <4>2. cancelled \/ (engine = "approve" /\ Head(todo) = c)
                BY <4>1 DEF AllowInv, AskedIsNext
            <4>3. \A d \in Range(decisions) : d.call # c
                BY <4>1 DEF AllowInv, Undecided
            <4> QED BY <1>2, <1>3, <4>1, <4>2, <4>3 DEF Carried
        <3> QED BY <2>3, <2>5, <3>1, <3>2
    <2> QED BY <1>4, <2>4, <2>5
<1> QED BY <1>5, <1>6 DEF interrupt_turn, TakesSender

LEMMA AllowStart ==
    ASSUME AllowInv, StartTurn
    PROVE  /\ AskedIsNext' /\ Undecided' /\ monitor'.pc # "expired"
           /\ \A c \in Calls : channel'[c] = "allow" => Carried(c)'
<1>1. /\ IInv /\ TurnIsLast /\ events = <<>> /\ events' = events /\ decisions' = decisions
      /\ monitor' = [pc |-> "wait", call |-> 0] /\ 0 \notin Calls
      /\ \A c \in Calls : channel'[c] = "none" /\ (kind'[c] = "none" => kind[c] = "none")
    BY DEF AllowInv, StartTurn, TurnIsLast, Calls
<1>2. Questions(events) = {} BY <1>1 DEF Questions
<1>3. \A c \in Unasked' : kind[c] = "none"
    <2>1. /\ todo' = <<>> /\ step' = <<>>
        BY <1>1 DEF StartTurn, IInv, StepIsSound
    <2>2. Range(<<>>) = {} BY DEF Range
    <2> QED BY <1>1, <2>1, <2>2 DEF Unasked, StartTurn
<1>4. AskedIsNext' BY <1>1, <1>2 DEF AskedIsNext
<1>5. Undecided'
    <2>1. \A d \in Range(decisions) : d.call \in Calls /\ kind[d.call] # "none"
        BY <1>1, SaidIsTyped DEF IInv, DecisionsAreMade, Permits
    <2> QED BY <1>1, <1>2, <1>3, <2>1 DEF Undecided
<1> QED BY <1>1, <1>4, <1>5

LEMMA AllowInitially == Init => AllowInv
<1> SUFFICES ASSUME Init PROVE AllowInv OBVIOUS
<1>1. IInv BY Initially
<1>2. DOMAIN events = {} /\ Range(decisions) = {} /\ 0 \notin Calls
    BY DEF Init, Range, Calls
<1>3. Questions(events) = {} BY <1>2 DEF Questions
<1>4. TurnIsLast BY <1>2 DEF Init, TurnIsLast, Nobody
<1>5. AskedIsNext /\ Undecided BY <1>2, <1>3 DEF Init, Nobody, AskedIsNext, Undecided
<1> QED BY <1>1, <1>4, <1>5 DEF Init, AllowInv, Nobody

LEMMA AllowStep == ASSUME AllowInv, [Next]_vars PROVE AllowInv'
<1>1. IInv' /\ TurnIsLast' BY Step, TurnLastStep DEF AllowInv
<1>2. CASE UNCHANGED vars
    BY <1>1, <1>2 DEF AllowInv, AskedIsNext, Undecided, Unasked, Carried, vars, plan, bridge
<1>3. CASE Engine BY <1>1, <1>3, AllowEngine DEF AllowInv
<1>4. CASE Monitor BY <1>1, <1>4, AllowMonitor DEF AllowInv
<1>5. CASE Sends \/ interrupt_turn \/ (\E c \in Calls : TakesSender(c))
    BY <1>1, <1>5, AllowClient DEF AllowInv
<1>6. CASE StartTurn BY <1>1, <1>6, AllowStart DEF AllowInv
<1> QED BY <1>2, <1>3, <1>4, <1>5, <1>6 DEF Next

\* A decision that reached the monitor while it waited is carried out by the end of
\* the turn, unless the turn was interrupted, whatever decisions about other calls
\* were still on their way to the engine (await_tool_approval, monitor_turn).
THEOREM AllowedIsCarriedOut == Spec => []AllowedIsDone
<1>1. AllowInv => AllowedIsDone
    BY DEF AllowInv, AllowedIsDone, TurnIsLast, Carried
<1> QED BY AllowInitially, AllowStep, <1>1, PTL DEF Spec

-----------------------------------------------------------------------------
(* The items of a turn are closed.                                         *)

LEMMA EventShape ==
    ASSUME NEW e \in Events
    PROVE  /\ e.what # "turn" => e.call \in Calls
           /\ e.what = "complete" => e = Event("complete", e.call)
           /\ e.what = "started" => e = Event("started", e.call)
BY DEF Events, Event

LEMMA OrderAppend ==
    ASSUME NEW es \in Seq(Events), NEW e \in Events, InOrder(es),
           e.what = "started" => Event("complete", e.call) \notin Range(es)
    PROVE  InOrder(Append(es, e)) /\ Range(Append(es, e)) = Range(es) \cup {e}
<1>1. /\ Len(es) \in Nat /\ DOMAIN es = 1..Len(es)
      /\ DOMAIN Append(es, e) = 1..Len(es) + 1
      /\ \A i \in 1..Len(es) : Append(es, e)[i] = es[i] /\ es[i] \in Events
      /\ Append(es, e)[Len(es) + 1] = e
    BY LenProperties, AppendProperties, ElementOfSeq
<1>2. \A i \in 1..Len(es) + 1 : i \in 1..Len(es) \/ i = Len(es) + 1
    BY <1>1
<1>3. ASSUME NEW j \in 1..Len(es), e.what = "started", es[j].what = "complete"
      PROVE  es[j].call # e.call
    <2>1. es[j] = Event("complete", es[j].call) /\ es[j] \in Range(es)
        BY <1>1, <1>3, EventShape DEF Range
    <2> QED BY <1>3, <2>1
<1>4. ASSUME NEW i \in DOMAIN Append(es, e), NEW j \in DOMAIN Append(es, e),
             Append(es, e)[i].what = "started", Append(es, e)[j].what = "complete",
             Append(es, e)[i].call = Append(es, e)[j].call
      PROVE  i < j
    <2>1. CASE i \in 1..Len(es) /\ j \in 1..Len(es)
        BY <1>1, <1>4, <2>1 DEF InOrder
    <2>2. CASE i \in 1..Len(es) /\ j = Len(es) + 1
        BY <1>1, <2>2
    <2>3. CASE i = Len(es) + 1
        <3>1. j \in 1..Len(es) BY <1>1, <1>2, <1>4, <2>3
        <3> QED BY <1>1, <1>3, <1>4, <2>3, <3>1
    <2> QED BY <1>1, <1>2, <2>1, <2>2, <2>3
<1>5. InOrder(Append(es, e)) BY <1>4 DEF InOrder
<1> QED BY <1>5, AppendRange

LEMMA OrderConcat ==
    ASSUME NEW es \in Seq(Events), InOrder(es), NEW t \in Seq(Events),
           \A i \in DOMAIN t : t[i].what = "complete"
    PROVE  InOrder(es \o t) /\ Range(es \o t) = Range(es) \cup Range(t)
<1>1. /\ Len(es) \in Nat /\ Len(t) \in Nat /\ DOMAIN es = 1..Len(es) /\ DOMAIN t = 1..Len(t)
      /\ DOMAIN (es \o t) = 1..(Len(es) + Len(t))
      /\ \A i \in 1..Len(es) : (es \o t)[i] = es[i]
    BY LenProperties, ConcatProperties
<1>2. ASSUME NEW i \in DOMAIN (es \o t), (es \o t)[i].what = "started"
      PROVE  i \in 1..Len(es)
    <2> SUFFICES ASSUME ~(i <= Len(es)) PROVE FALSE BY <1>1
    <2>1. i - Len(es) \in 1..Len(t) BY <1>1
    <2>2. (es \o t)[i] = t[i - Len(es)] BY <1>1
    <2> QED BY <1>1, <1>2, <2>1, <2>2
<1>3. ASSUME NEW i \in DOMAIN (es \o t), NEW j \in DOMAIN (es \o t),
             (es \o t)[i].what = "started", (es \o t)[j].what = "complete",
             (es \o t)[i].call = (es \o t)[j].call
      PROVE  i < j
    <2>1. i \in 1..Len(es) BY <1>2, <1>3
    <2>2. CASE j \in 1..Len(es) BY <1>1, <1>3, <2>1, <2>2 DEF InOrder
    <2>3. CASE j \notin 1..Len(es) BY <1>1, <2>1, <2>3
    <2> QED BY <2>2, <2>3
<1> QED BY <1>3, RangeConcatenation DEF InOrder

LEMMA OrderTail ==
    ASSUME NEW es \in Seq(Events), es # <<>>, InOrder(es)
    PROVE  /\ InOrder(Tail(es))
           /\ Head(es).what = "complete" => Event("started", Head(es).call) \notin Range(Tail(es))
<1>1. /\ Len(es) \in Nat \ {0} /\ DOMAIN es = 1..Len(es) /\ Head(es) = es[1]
      /\ DOMAIN Tail(es) = 1..(Len(es) - 1)
      /\ \A i \in 1..(Len(es) - 1) : Tail(es)[i] = es[i+1] /\ i + 1 \in 1..Len(es) /\ i \in Nat
    BY LenProperties, HeadTailProperties, EmptySeq
<1>2. InOrder(Tail(es))
    <2> SUFFICES ASSUME NEW i \in DOMAIN Tail(es), NEW j \in DOMAIN Tail(es),
                        Tail(es)[i].what = "started", Tail(es)[j].what = "complete",
                        Tail(es)[i].call = Tail(es)[j].call
                 PROVE  i < j
        BY DEF InOrder
    <2>1. i + 1 < j + 1 BY <1>1 DEF InOrder
    <2> QED BY <1>1, <2>1
<1>3. ASSUME Head(es).what = "complete", NEW i \in 1..(Len(es) - 1),
             Tail(es)[i] = Event("started", Head(es).call)
      PROVE  FALSE
    <2>1. es[i + 1].what = "started" /\ es[i + 1].call = es[1].call /\ es[1].what = "complete"
        BY <1>1, <1>3 DEF Event
    <2>2. i + 1 < 1 BY <1>1, <2>1 DEF InOrder
    <2> QED BY <1>1, <2>2
<1> QED BY <1>1, <1>2, <1>3 DEF Range

\* The engine finishes calls and says so.
LEMMA ItemsKept ==
    ASSUME ItemInv, EngineStep, kind' = kind, InOrder(events'),
           NEW T, Range(events') = Range(events) \cup T,
           \A e \in T : e.what # "started" /\ (e.what # "turn" => Live(e.call)),
           \A c \in Calls : Outstanding(c) =>
               kind[c] = "barred" \/ Outstanding(c)' \/ Event("complete", c) \in T,
           \A c \in running' : Live(c)
    PROVE  ItemInv'
<1>1. tool_items' = tool_items BY DEF EngineStep
<1>2. \A c \in Calls : Event("started", c) \notin T BY DEF Event
<1>3. ASSUME NEW c \in Calls, c \in tool_items' \/ Event("started", c) \in Range(events')
      PROVE  Closes(c)'
    <2>1. Closes(c) BY <1>1, <1>2, <1>3 DEF ItemInv
    <2> QED BY <2>1 DEF Closes
<1>4. \A e \in Range(events') : e.what # "turn" => Live(e.call)'
    BY DEF ItemInv, Live
<1> QED BY <1>1, <1>3, <1>4 DEF ItemInv, Live

\* One event.
LEMMA ItemsTell ==
    ASSUME IInv, ItemInv, EngineStep, kind' = kind,
           NEW what \in {"complete", "approval", "turn"}, NEW c \in Calls \cup {0},
           what = "turn" <=> c = 0, Tell(what, c), c # 0 => Live(c),
           \A b \in Calls : Outstanding(b) => Outstanding(b)' \/ (what = "complete" /\ b = c),
           \A b \in running' : Live(b)
    PROVE  ItemInv'
<1> DEFINE e == Event(what, c)
<1>1. e \in Events /\ e.what = what /\ e.call = c /\ 0 \notin Calls
    BY DEF Event, Events, Calls
<1>2. events' = Append(events, e) BY DEF Tell
<1>3. InOrder(events') /\ Range(events') = Range(events) \cup {e}
    BY <1>1, <1>2, OrderAppend DEF IInv, Typed, ItemInv
<1>4. \A b \in Calls : Outstanding(b) => Outstanding(b)' \/ Event("complete", b) \in {e}
    OBVIOUS
<1> HIDE DEF e
<1> QED BY <1>1, <1>3, <1>4, ItemsKept

\* Nothing is told.
LEMMA ItemsQuiet ==
    ASSUME ItemInv, EngineStep, kind' = kind, events' = events,
           \A b \in Calls : Outstanding(b) => Outstanding(b)',
           \A b \in running' : Live(b)
    PROVE  ItemInv'
<1> DEFINE T == {}
<1>1. Range(events') = Range(events) \cup T /\ InOrder(events') BY DEF ItemInv
<1>2. /\ \A e \in T : e.what # "started" /\ (e.what # "turn" => Live(e.call))
      /\ \A c \in Calls : Outstanding(c) =>
            kind[c] = "barred" \/ Outstanding(c)' \/ Event("complete", c) \in T
    OBVIOUS
<1> HIDE DEF T
<1> QED BY <1>1, <1>2, ItemsKept

\* What is left of the step after its first call, or after a part of it.
LEMMA CutRange ==
    ASSUME NEW q \in Seq(Calls), NEW n \in 1..Len(q)
    PROVE  Range(q) \subseteq {q[i] : i \in 1..n} \cup Range(SubSeq(q, n + 1, Len(q)))
<1>1. Len(q) \in Nat /\ DOMAIN q = 1..Len(q) /\ \A i \in 1..Len(q) : q[i] \in Calls
    BY LenProperties, ElementOfSeq
<1> DEFINE r == SubSeq(q, n + 1, Len(q))
<1>2. /\ r \in Seq(Calls) /\ Len(r) = IF n + 1 <= Len(q) THEN Len(q) - (n + 1) + 1 ELSE 0
      /\ \A i \in 1..(Len(q) - (n + 1) + 1) : r[i] = q[(n + 1) + i - 1]
    <2>1. n + 1 \in Int /\ Len(q) \in Int /\ \A i \in (n + 1)..Len(q) : q[i] \in Calls
        BY <1>1
    <2> QED BY <2>1, SubSeqProperties
<1> HIDE DEF r
<1>3. ASSUME NEW k \in 1..Len(q), k \notin 1..n PROVE q[k] \in Range(r)
    <2>1. /\ k - n \in 1..(Len(q) - (n + 1) + 1) /\ (n + 1) + (k - n) - 1 = k
          /\ Len(q) - (n + 1) + 1 = Len(r)
        BY <1>1, <1>2, <1>3
    <2>2. r[k - n] = q[k] BY <1>2, <2>1
    <2>3. k - n \in DOMAIN r BY <1>2, <2>1, LenProperties
    <2> QED BY <2>2, <2>3 DEF Range
<1> QED BY <1>1, <1>3 DEF Range, r

LEMMA ItemChunk == ASSUME IInv, ItemInv, StartsChunk PROVE ItemInv'
<1>1. PICK n \in 1..Len(todo) :
         LET calls == {todo[i] : i \in 1..n} IN
         /\ IsChunk(n)
         /\ \E s \in Retained(SubSeq(todo, 1, n), {c \in calls : Completed(c)}) :
               events' = events \o [i \in DOMAIN s |-> Event("complete", s[i])]
         /\ running' = {c \in calls : kind[c] = "read"}
         /\ todo' = SubSeq(todo, n + 1, Len(todo))
    BY DEF StartsChunk
<1> DEFINE calls == {todo[i] : i \in 1..n}
<1>2. PICK s \in Retained(SubSeq(todo, 1, n), {c \in calls : Completed(c)}) :
         events' = events \o [i \in DOMAIN s |-> Event("complete", s[i])]
    BY <1>1
<1>3. /\ EngineStep /\ kind' = kind /\ step' = step /\ engine = "execute" /\ running = {}
    BY DEF StartsChunk
<1>4. /\ Range(SubSeq(todo, 1, n)) = calls /\ SubSeq(todo, 1, n) \in Seq(Calls)
      /\ IsInjective(SubSeq(todo, 1, n)) /\ calls \subseteq Range(todo) /\ calls \subseteq Calls
    <2>1. /\ Len(todo) \in Nat /\ DOMAIN todo = 1..Len(todo)
          /\ \A i \in 1..Len(todo) : todo[i] \in Calls
        BY LenProperties, ElementOfSeq DEF IInv, Typed
    <2>2. todo \in Seq(Calls) /\ IsInjective(todo) BY DEF IInv, Typed, StepIsSound
    <2>3. calls \subseteq Range(todo) /\ calls \subseteq Calls BY <2>1 DEF Range
    <2>4. /\ Range(SubSeq(todo, 1, n)) = calls /\ SubSeq(todo, 1, n) \in Seq(Calls)
          /\ IsInjective(SubSeq(todo, 1, n))
        BY <2>2, FrontKeeps
    <2> QED BY <2>3, <2>4
<1>5. s \in Seq(Calls) /\ Range(s) = {c \in calls : Completed(c)}
    <2> DEFINE q == SubSeq(todo, 1, n)
               keep == {c \in calls : Completed(c)}
    <2>1. q \in Seq(Calls) /\ IsInjective(q) /\ s \in Retained(q, keep) BY <1>2, <1>4
    <2>e. Range(q) = calls /\ keep \subseteq calls BY <1>4
    <2> HIDE DEF q, keep, calls
    <2>2. Range(q) \cap keep = keep BY <2>e
    <2>3. s \in Seq(Calls) /\ Range(s) = Range(q) \cap keep BY ONLY <2>1, RetainedKeeps
    <2> QED BY <2>2, <2>3 DEF keep
<1> DEFINE t == [i \in DOMAIN s |-> Event("complete", s[i])]
<1>6. t \in Seq(Events) /\ \A i \in DOMAIN t : t[i].what = "complete"
    BY <1>5, Completions
<1>7. Range(t) = {Event("complete", c) : c \in {b \in calls : Completed(b)}}
    <2>1. DOMAIN t = DOMAIN s /\ \A i \in DOMAIN s : t[i] = Event("complete", s[i]) OBVIOUS
    <2>2. \A b : b \in {c \in calls : Completed(c)} <=> \E i \in DOMAIN s : b = s[i]
        BY <1>5 DEF Range
    <2> HIDE DEF t, calls
    <2>3. Range(t) = {Event("complete", s[i]) : i \in DOMAIN s} BY <2>1 DEF Range
    <2> QED BY <2>2, <2>3
<1>8. events' = events \o t BY <1>2
<1>9. \A c \in calls : kind[c] \in {"read", "barred", "guarded"}
    BY <1>1 DEF IsChunk, ParallelSafe
<1>10. Range(todo) \subseteq calls \cup Range(todo')
    BY <1>1, CutRange DEF IInv, Typed
<1> HIDE DEF t, calls
<1>11. InOrder(events') /\ Range(events') = Range(events) \cup Range(t)
    BY <1>6, <1>8, OrderConcat DEF IInv, Typed, ItemInv
<1>12. running' = {c \in calls : kind[c] = "read"} BY <1>1 DEF calls
<1>13. \A c \in calls : Live(c) BY <1>9 DEF Live
<1>14. \A c \in Calls : Outstanding(c) =>
           kind[c] = "barred" \/ Outstanding(c)' \/ Event("complete", c) \in Range(t)
    BY <1>3, <1>7, <1>9, <1>10, <1>12 DEF Outstanding, Completed
<1>15. \A e \in Range(t) : e.what # "started" /\ (e.what # "turn" => Live(e.call))
    BY <1>7, <1>13 DEF Event
<1> QED BY <1>3, <1>11, <1>12, <1>13, <1>14, <1>15, ItemsKept

LEMMA ItemStreams ==
    ASSUME IInv, ItemInv, NEW c \in Calls, StreamsCall(c) PROVE ItemInv'
<1>1. PICK k \in Kinds : kind' = [kind EXCEPT ![c] = k]
    BY DEF StreamsCall
<1>2. /\ kind[c] = "none" /\ k \notin {"none", "past"} /\ engine = "stream" /\ engine' = engine
      /\ todo' = todo /\ running' = running /\ tool_items' = tool_items /\ step' = Append(step, c)
    BY <1>1 DEF StreamsCall, IsNext, Kinds, EngineStep
<1>3. Range(step') = Range(step) \cup {c} BY <1>2, AppendRange DEF IInv, Typed
<1>4. /\ kind'[c] = k /\ \A b \in Calls : b # c => kind'[b] = kind[b]
    BY <1>1 DEF IInv, Typed
<1>5. \A b \in Calls : Live(b) => Live(b)' BY <1>2, <1>4 DEF Live
<1>6. running \subseteq Calls /\ \A e \in Range(events) : e.what # "turn" => e.call \in Calls
    BY RangeType, EventShape DEF IInv, Typed
<1>7. \A b \in Calls : Closes(b) => kind'[b] = "barred" \/ Outstanding(b)'
                                      \/ Event("complete", b) \in Range(events)
    BY <1>2, <1>3, <1>4 DEF Closes, Outstanding
<1>8. Outstanding(c)' BY <1>2, <1>3 DEF Outstanding
<1>9. CASE events' = events
    BY <1>2, <1>5, <1>6, <1>7, <1>9 DEF ItemInv, Closes
<1>10. CASE Tell("started", c)
    <2> DEFINE e == Event("started", c)
    <2>1. e \in Events /\ e.what = "started" /\ e.call = c /\ events' = Append(events, e)
        BY <1>10 DEF Event, Events, Tell
    <2>2. Event("complete", c) \notin Range(events)
        <3>1. Event("complete", c).what # "turn" /\ Event("complete", c).call = c BY DEF Event
        <3> QED BY <1>2, <3>1 DEF ItemInv, Live
    <2>3. InOrder(events') /\ Range(events') = Range(events) \cup {e}
        BY <2>1, <2>2, OrderAppend DEF IInv, Typed, ItemInv
    <2>4. Live(c)' BY <1>2, <1>4 DEF Live
    <2>5. \A b \in Calls : Event("started", b) = e => b = c BY DEF Event
    <2> HIDE DEF e
    <2>6. \A f \in Range(events') : f.what # "turn" => Live(f.call)'
        BY <1>5, <1>6, <2>1, <2>3, <2>4 DEF ItemInv
    <2>7. ASSUME NEW b \in Calls, b \in tool_items' \/ Event("started", b) \in Range(events')
          PROVE  Closes(b)'
        <3>1. b = c \/ Closes(b) BY <1>2, <2>3, <2>5, <2>7 DEF ItemInv
        <3> QED BY <1>7, <1>8, <2>3, <3>1 DEF Closes
    <2> QED BY <1>2, <1>5, <1>6, <2>3, <2>6, <2>7 DEF ItemInv
<1> QED BY <1>9, <1>10 DEF StreamsCall

LEMMA ItemRefuses ==
    ASSUME IInv, ItemInv, Refuses, engine # "stream", todo # <<>>
    PROVE  ItemInv'
<1> DEFINE h == Head(todo)
<1>1. /\ h \in Calls /\ Live(h) /\ h # 0 /\ Range(Tail(todo)) = Range(todo) \ {h}
    BY HeadLeaves DEF Live, Calls
<1>2. /\ EngineStep /\ kind' = kind /\ running' = running /\ todo' = Tail(todo)
      /\ Tell("complete", h)
    BY DEF Refuses
<1> HIDE DEF h
<1>3. \A b \in Calls : Outstanding(b) => Outstanding(b)' \/ b = h
    BY <1>1, <1>2 DEF Outstanding
<1>4. \A b \in running' : Live(b) BY <1>2 DEF ItemInv
<1> QED BY <1>1, <1>2, <1>3, <1>4, ItemsTell

LEMMA ItemExecutes ==
    ASSUME IInv, ItemInv, Executes, running = {}, engine # "stream", todo # <<>>
    PROVE  ItemInv'
<1>1. /\ running' = {Head(todo)} /\ todo' = Tail(todo) /\ engine' = "execute"
      /\ EngineStep /\ UNCHANGED <<kind, step, events>>
    BY DEF Executes
<1>2. /\ Live(Head(todo)) /\ Range(Tail(todo)) = Range(todo) \ {Head(todo)}
    BY HeadLeaves DEF Live
<1> QED BY <1>1, <1>2, ItemsQuiet DEF Outstanding

LEMMA ItemEngine == ASSUME IInv, TurnIsLast, ItemInv, Engine PROVE ItemInv'
<1>1. CASE StreamEnds
    <2>1. /\ EngineStep /\ UNCHANGED <<kind, step, running, events>>
          /\ todo' = step /\ todo = <<>>
        BY <1>1 DEF StreamEnds, IInv, StepIsSound
    <2>2. Range(<<>>) = {} BY DEF Range
    <2>3. \A b \in Calls : Outstanding(b) => Outstanding(b)' BY <2>1, <2>2 DEF Outstanding
    <2>4. \A b \in running' : Live(b) BY <2>1 DEF ItemInv
    <2> QED BY <2>1, <2>3, <2>4, ItemsQuiet
<1>2. CASE StreamEndsWithoutCalls \/ RecordsResults
    <2>1. /\ EngineStep /\ kind' = kind /\ running' = running /\ running = {}
          /\ UNCHANGED events \/ Tell("turn", 0)
        BY <1>2 DEF StreamEndsWithoutCalls, RecordsResults, CompletesTurn, plan, TurnIsLast
    <2>2. \A b \in Calls : ~Outstanding(b)
        <3>1. Range(<<>>) = {} BY DEF Range
        <3>2. todo = <<>> /\ (engine = "stream" => step = <<>>)
            BY <1>2 DEF StreamEndsWithoutCalls, RecordsResults, IInv, StepIsSound
        <3> QED BY <2>1, <3>1, <3>2 DEF Outstanding
    <2> QED BY <2>1, <2>2, ItemsTell, ItemsQuiet
<1>3. CASE StartsChunk BY <1>3, ItemChunk
<1>4. CASE MissesTool \/ GivesUpWaiting
    <2>1. Refuses /\ engine # "stream" /\ todo # <<>>
        BY <1>4 DEF MissesTool, GivesUpWaiting, Serial, Interruptible, IInv, StepIsSound
    <2> QED BY <2>1, ItemRefuses
<1>5. CASE AsksApproval
    <2>1. /\ Tell("approval", Head(todo)) /\ EngineStep /\ todo # <<>> /\ engine # "stream"
          /\ UNCHANGED <<kind, step, todo, running>>
        BY <1>5 DEF AsksApproval, Serial, plan
    <2>2. Head(todo) \in Calls /\ Head(todo) # 0 /\ Live(Head(todo))
        BY <2>1, HeadLeaves DEF Live, Calls
    <2>3. \A b \in Calls : Outstanding(b) => Outstanding(b)' BY <2>1 DEF Outstanding
    <2>4. \A b \in running' : Live(b) BY <2>1 DEF ItemInv
    <2> QED BY <2>1, <2>2, <2>3, <2>4, ItemsTell
<1>6. CASE AsksUser
    BY <1>6, ItemsQuiet DEF AsksUser, plan, Outstanding, ItemInv
<1>7. CASE ReadsDecision
    <2>1. engine = "approve" /\ todo # <<>>
        BY <1>7 DEF ReadsDecision, IInv, StepIsSound
    <2>2. CASE Refuses BY <2>1, <2>2, ItemRefuses
    <2>3. CASE EngineStep /\ UNCHANGED <<plan, engine, events>>
        BY <2>3, ItemsQuiet DEF plan, Outstanding, ItemInv
    <2>4. CASE Executes
        <3>1. running = {} BY <2>1 DEF TurnIsLast
        <3> QED BY <2>1, <2>4, <3>1, ItemExecutes
    <2> QED BY <1>7, <2>2, <2>3, <2>4 DEF ReadsDecision
<1>8. ASSUME NEW c \in Calls, CallEnds(c) PROVE ItemInv'
    <2>1. /\ EngineStep /\ kind' = kind /\ c \in running /\ running' = running \ {c}
          /\ Tell("complete", c) /\ UNCHANGED <<engine, step, todo>> /\ c # 0
        BY <1>8 DEF CallEnds, Calls
    <2>2. \A b \in Calls : Outstanding(b) => Outstanding(b)' \/ b = c
        BY <2>1 DEF Outstanding
    <2>3. Live(c) /\ \A b \in running' : Live(b) BY <2>1 DEF ItemInv
    <2> QED BY <2>1, <2>2, <2>3, ItemsTell
<1>9. ASSUME NEW c \in Calls, StreamsCall(c) PROVE ItemInv'
    BY <1>9, ItemStreams
<1>10. CASE RunsCode
    BY <1>10, ItemExecutes DEF RunsCode, Serial
<1> QED BY <1>1, <1>2, <1>3, <1>4, <1>5, <1>6, <1>7, <1>8, <1>9, <1>10 DEF Engine

\* The monitor opens and closes the items in the order it is told of them.
LEMMA ItemMonitor == ASSUME IInv, ItemInv, Monitor PROVE ItemInv'
<1>1. /\ MonitorStep /\ UNCHANGED <<kind, engine, step, todo, running>>
    BY MonitorTakes, MonitorKeeps
<1>2. CASE UNCHANGED <<events, tool_items>>
    BY <1>1, <1>2 DEF ItemInv, Closes, Outstanding, Live
<1>3. CASE /\ events # <<>> /\ events' = Tail(events)
           /\ OpensItem \/ ClosesItem \/ AnnouncesApproval \/ SettlesTurn
    <2> DEFINE e == Head(events)
    <2>1. /\ e \in Events /\ Range(events) = Range(events') \cup {e} /\ InOrder(events')
          /\ e.what = "complete" => Event("started", e.call) \notin Range(events')
        BY <1>3, TailRange, HeadOrTail, OrderTail DEF IInv, Typed, ItemInv
    <2>2. /\ e.what # "turn" => e.call \in Calls
          /\ e.what = "complete" => e = Event("complete", e.call)
          /\ e.what = "started" => e = Event("started", e.call)
        BY <2>1, EventShape
    <2>3. \/ e.what = "started" /\ tool_items' = tool_items \cup {e.call}
          \/ e.what = "complete" /\ tool_items' = tool_items \ {e.call}
          \/ e.what \in {"approval", "turn"} /\ tool_items' = tool_items
        BY <1>3 DEF OpensItem, ClosesItem, AnnouncesApproval, SettlesTurn, Handles, Told
    <2>4. \A c \in Calls : Event("complete", c).what = "complete" /\ Event("complete", c).call = c
        BY DEF Event
    <2> HIDE DEF e
    <2>5. ASSUME NEW c \in Calls, c \in tool_items' \/ Event("started", c) \in Range(events')
          PROVE  Closes(c)'
        <3>1. c \in tool_items \/ Event("started", c) \in Range(events)
            BY <2>1, <2>2, <2>3, <2>5
        <3>2. Closes(c) BY <3>1 DEF ItemInv
        <3>3. ~(e.what = "complete" /\ e.call = c)
            BY <2>1, <2>3, <2>5
        <3>4. Event("complete", c) # e BY <2>4, <3>3
        <3> QED BY <1>1, <2>1, <3>2, <3>4 DEF Closes, Outstanding
    <2>6. tool_items' \subseteq Calls BY <2>2, <2>3 DEF ItemInv
    <2>7. /\ \A f \in Range(events') : f.what # "turn" => Live(f.call)'
          /\ \A c \in running' : Live(c)'
        BY <1>1, <2>1 DEF ItemInv, Live
    <2> QED BY <2>1, <2>5, <2>6, <2>7 DEF ItemInv
<1> QED BY <1>2, <1>3, MonitorTakes

LEMMA ItemInitially == Init => IInv /\ TurnIsLast /\ ItemInv
<1> SUFFICES ASSUME Init PROVE IInv /\ TurnIsLast /\ ItemInv OBVIOUS
<1>1. DOMAIN events = {} /\ Range(events) = {} BY DEF Init, Range
<1> QED BY <1>1, AllowInitially DEF Init, AllowInv, ItemInv, InOrder

LEMMA ItemStep ==
    ASSUME IInv, TurnIsLast, ItemInv, [Next]_vars
    PROVE  IInv' /\ TurnIsLast' /\ ItemInv'
<1>1. IInv' /\ TurnIsLast' BY Step, TurnLastStep
<1>2. CASE Engine BY <1>1, <1>2, ItemEngine
<1>3. CASE Monitor BY <1>1, <1>3, ItemMonitor
<1>4. CASE UNCHANGED <<plan, engine, events, tool_items>>
    BY <1>1, <1>4 DEF ItemInv, Closes, Outstanding, Live, plan
<1>5. CASE StartTurn
    <2>1. events = <<>> /\ events' = events /\ tool_items' = {} /\ running = {} /\ running' = {}
        BY <1>5 DEF StartTurn, TurnIsLast
    <2>2. DOMAIN events' = {} /\ Range(events') = {} BY <2>1 DEF Range
    <2> QED BY <1>1, <2>1, <2>2 DEF ItemInv, InOrder
<1>6. UNCHANGED <<plan, engine, events, tool_items>> \/ Engine \/ Monitor \/ StartTurn
    BY DEF Next, vars, Sends, interrupt_turn, TakesSender, ClientStep
<1> QED BY <1>2, <1>3, <1>4, <1>5, <1>6

\* When a turn is over none of its tool items is open, but those of calls that were
\* barred in a parallel batch: every other call that was announced is completed,
\* after it was announced (the events of the turn loop, the items of monitor_turn).
THEOREM ItemsAreClosed == Spec => []ItemsSettled
<1>1. IInv /\ TurnIsLast /\ ItemInv => ItemsSettled
    <2> SUFFICES ASSUME IInv, TurnIsLast, ItemInv, monitor.pc = "idle", NEW c \in tool_items
                 PROVE  kind[c] = "barred"
        BY DEF ItemsSettled
    <2>1. Range(<<>>) = {} BY DEF Range
    <2>2. c \in Calls /\ Closes(c) BY DEF ItemInv
    <2>3. engine = "idle" /\ events = <<>> /\ todo = <<>> /\ running = {}
        BY DEF TurnIsLast, IInv, StepIsSound
    <2> QED BY <2>1, <2>2, <2>3 DEF Closes, Outstanding
<1> QED BY ItemInitially, ItemStep, <1>1, PTL DEF Spec

-----------------------------------------------------------------------------
(* The results of a step.                                                  *)

LEMMA FunctionIsSeq ==
    ASSUME NEW S, NEW n \in Nat, NEW f \in [1..n -> S]
    PROVE  f \in Seq(S) /\ Len(f) = n
<1>1. f \in Seq(S) BY SeqDef
<1>2. DOMAIN f = 1..n OBVIOUS
<1> QED BY <1>1, <1>2, LenProperties

LEMMA ResultStreams ==
    ASSUME IInv, ResultInv, NEW c \in Calls, StreamsCall(c) PROVE ResultInv'
<1>1. PICK k \in Kinds : kind' = [kind EXCEPT ![c] = k]
    BY DEF StreamsCall
<1>2. /\ kind[c] = "none" /\ k # "none" /\ engine = "stream" /\ engine' = engine
      /\ transcript' = transcript /\ step' = Append(step, c)
      /\ \A b \in 1..c - 1 : kind[b] # "none"
    BY <1>1 DEF StreamsCall, IsNext, Kinds
<1>3. kind'[c] = k /\ \A b \in Calls : b # c => kind'[b] = kind[b]
    BY <1>1 DEF IInv, Typed
<1>4. \A b \in Calls : b \in Nat /\ (b < c => b \in 1..c - 1) /\ (b < c \/ b = c \/ c < b)
    BY DEF Calls
<1>5. \A b, d \in Calls : b < d /\ kind'[b] = "none" => kind'[d] = "none"
    BY <1>2, <1>3, <1>4 DEF ResultInv
<1>6. /\ Len(step) \in Nat /\ DOMAIN step = 1..Len(step) /\ DOMAIN step' = 1..Len(step) + 1
      /\ \A i \in 1..Len(step) : step'[i] = step[i] /\ step[i] \in Calls
      /\ step'[Len(step) + 1] = c
    BY <1>2, LenProperties, AppendProperties, ElementOfSeq DEF IInv, Typed
<1>7. \A i \in 1..Len(step) : step[i] < c
    <2> SUFFICES ASSUME NEW i \in 1..Len(step) PROVE step[i] < c OBVIOUS
    <2>1. kind[step[i]] # "none" BY <1>6 DEF IInv, StepIsSound, Range
    <2>2. step[i] \in Calls BY <1>6
    <2> QED BY <1>2, <1>4, <2>1, <2>2 DEF ResultInv
<1>8. ASSUME NEW i \in DOMAIN step', NEW j \in DOMAIN step', i < j PROVE step'[i] < step'[j]
    <2>1. i \in 1..Len(step) BY <1>6, <1>8
    <2>2. j \in 1..Len(step) \/ j = Len(step) + 1 BY <1>6
    <2> QED BY <1>6, <1>7, <1>8, <2>1, <2>2 DEF ResultInv
<1>9. ResultsMatchCalls' BY <1>2 DEF ResultInv, ResultsMatchCalls
<1> QED BY <1>2, <1>5, <1>8, <1>9 DEF ResultInv

\* Every call of the step has an outcome, so each use has its result.
LEMMA ResultRecords == ASSUME IInv, ResultInv, RecordsResults PROVE ResultInv'
<1>1. /\ engine = "execute" /\ running = {} /\ todo = <<>> /\ kind' = kind /\ step' = <<>>
      /\ engine' \in {"idle", "stream"}
    BY DEF RecordsResults
<1>2. PICK results \in Retained(step, done) :
         transcript' = transcript \o [i \in DOMAIN results |-> Event("result", results[i])]
    BY DEF RecordsResults
<1>3. transcript = Uses /\ Range(step) \subseteq done
    <2>1. Range(<<>>) = {} BY DEF Range
    <2> QED BY <1>1, <2>1 DEF ResultInv
<1>4. step \in Seq(Calls) BY DEF IInv, Typed
<1>5. results = step BY <1>2, <1>3, <1>4, RetainedWhole
<1> DEFINE n == Len(step)
           out == [i \in DOMAIN step |-> Event("result", step[i])]
<1>6. n \in Nat /\ DOMAIN step = 1..n /\ \A i \in 1..n : step[i] \in Calls
    BY <1>4, LenProperties, ElementOfSeq
<1> DEFINE R == [what : {"use", "result"}, call : Calls]
<1>7. Uses \in [1..n -> R] /\ out \in [1..n -> R] BY <1>6 DEF Uses, Event
<1>8. transcript' = Uses \o out BY <1>2, <1>3, <1>5
<1>9. /\ \A i \in 1..n : Uses[i] = Event("use", step[i])
      /\ \A i \in 1..n : out[i] = Event("result", step[i])
    BY <1>6 DEF Uses
<1> HIDE DEF out, n, R
<1>10. Uses \in Seq(R) /\ Len(Uses) = n /\ out \in Seq(R) /\ Len(out) = n
    BY <1>6, <1>7, FunctionIsSeq
<1>11. /\ Len(transcript') = n + n
       /\ \A i \in 1..n : transcript'[i] = Event("use", step[i])
       /\ \A i \in 1..n : transcript'[n + i] = Event("result", step[i])
    <2>1. /\ Len(Uses \o out) = n + n
          /\ \A i \in 1..n : (Uses \o out)[i] = Uses[i]
          /\ \A i \in n + 1..n + n : (Uses \o out)[i] = out[i - n]
        BY <1>6, <1>10
    <2>2. ASSUME NEW i \in 1..n PROVE (Uses \o out)[n + i] = out[i]
        <3>1. n + i \in n + 1..n + n /\ (n + i) - n = i BY <1>6
        <3> QED BY <2>1, <3>1
    <2> QED BY <1>8, <1>9, <2>1, <2>2
<1>12. ResultsMatchCalls'
    <2>1. n \in 0..Len(transcript') /\ Len(transcript') = 2 * n BY <1>6, <1>11
    <2>2. ASSUME NEW i \in 1..n
          PROVE  /\ transcript'[i].what = "use" /\ transcript'[i].call = step[i]
                 /\ transcript'[n + i] = Event("result", transcript'[i].call)
        <3>1. transcript'[i].what = "use" /\ transcript'[i].call = step[i]
            <4>1. transcript'[i] = Event("use", step[i]) BY <1>11
            <4> QED BY <4>1 DEF Event
        <3> QED BY <1>11, <3>1
    <2>3. \A i, j \in 1..n : i < j => transcript'[i].call < transcript'[j].call
        BY <1>6, <2>2 DEF ResultInv
    <2> QED BY <2>1, <2>2, <2>3 DEF ResultsMatchCalls
<1>13. DOMAIN step' = {} BY <1>1
<1> QED BY <1>1, <1>12, <1>13 DEF ResultInv

\* A step of the engine that is neither of these loses no call.
LEMMA ResultKept ==
    ASSUME ResultInv, UNCHANGED <<kind, step, transcript>>,
           engine \notin {"idle", "stream"}, engine' \notin {"idle", "stream"},
           done \cup running \cup Range(todo) \subseteq done' \cup running' \cup Range(todo')
    PROVE  ResultInv'
<1>1. Uses' = Uses BY DEF Uses
<1>2. ResultsMatchCalls' BY DEF ResultsMatchCalls
<1> QED BY <1>1, <1>2 DEF ResultInv

LEMMA ResultRefuses ==
    ASSUME IInv, ResultInv, Refuses, engine \notin {"idle", "stream"}, todo # <<>>
    PROVE  ResultInv'
<1>1. /\ UNCHANGED <<kind, step, transcript, running>> /\ engine' = "execute"
      /\ done' = done \cup {Head(todo)} /\ todo' = Tail(todo)
    BY DEF Refuses
<1>2. Range(Tail(todo)) = Range(todo) \ {Head(todo)} BY HeadLeaves
<1> QED BY <1>1, <1>2, ResultKept

LEMMA ResultExecutes ==
    ASSUME IInv, ResultInv, Executes, running = {}, engine \notin {"idle", "stream"}, todo # <<>>
    PROVE  ResultInv'
<1>1. /\ running' = {Head(todo)} /\ todo' = Tail(todo) /\ engine' = "execute"
      /\ UNCHANGED <<kind, step, done, transcript>>
    BY DEF Executes
<1>2. Range(Tail(todo)) = Range(todo) \ {Head(todo)} BY HeadLeaves
<1> QED BY <1>1, <1>2, ResultKept

LEMMA ResultEngine == ASSUME IInv, TurnIsLast, ResultInv, Engine PROVE ResultInv'
<1>1. CASE StreamEnds
    <2>1. /\ UNCHANGED <<kind, step>> /\ engine' = "execute" /\ todo' = step /\ transcript' = Uses
        BY <1>1 DEF StreamEnds, Uses
    <2>2. Uses' = Uses BY <2>1 DEF Uses
    <2>3. ResultsMatchCalls' BY <2>1 DEF ResultsMatchCalls
    <2> QED BY <2>1, <2>2, <2>3 DEF ResultInv
<1>2. CASE StreamEndsWithoutCalls
    <2>1. UNCHANGED <<kind, step, transcript>> /\ engine = "stream" /\ engine' = "idle"
        BY <1>2 DEF StreamEndsWithoutCalls, CompletesTurn, plan
    <2>2. ResultsMatchCalls' BY <2>1 DEF ResultInv, ResultsMatchCalls
    <2> QED BY <2>1, <2>2 DEF ResultInv
<1>3. CASE StartsChunk
    <2>1. PICK n \in 1..Len(todo) :
             LET calls == {todo[i] : i \in 1..n} IN
             /\ IsChunk(n) /\ done' = done \cup Recorded(calls)
             /\ running' = {c \in calls : kind[c] = "read"}
             /\ todo' = SubSeq(todo, n + 1, Len(todo))
        BY <1>3 DEF StartsChunk
    <2> DEFINE calls == {todo[i] : i \in 1..n}
    <2>2. \A c \in calls : kind[c] \in {"read", "barred", "guarded"}
        BY <2>1 DEF IsChunk, ParallelSafe
    <2>3. Range(todo) \subseteq calls \cup Range(todo')
        BY <2>1, CutRange DEF IInv, Typed
    <2>4. /\ done' = done \cup Recorded(calls) /\ running' = {c \in calls : kind[c] = "read"}
        BY <2>1
    <2>5. /\ running = {} /\ engine = "execute" /\ engine' = engine
          /\ UNCHANGED <<kind, step, transcript>>
        BY <1>3 DEF StartsChunk
    <2> HIDE DEF calls
    <2>6. calls \subseteq done' \cup running' BY <2>2, <2>4 DEF Recorded
    <2> QED BY <2>3, <2>4, <2>5, <2>6, ResultKept
<1>4. CASE MissesTool \/ GivesUpWaiting
    <2>1. Refuses /\ engine \notin {"idle", "stream"} /\ todo # <<>>
        BY <1>4 DEF MissesTool, GivesUpWaiting, Serial, Interruptible, IInv, StepIsSound
    <2> QED BY <2>1, ResultRefuses
<1>5. CASE AsksApproval \/ AsksUser
    BY <1>5, ResultKept DEF AsksApproval, AsksUser, plan
<1>6. CASE ReadsDecision
    <2>1. engine = "approve" /\ todo # <<>>
        BY <1>6 DEF ReadsDecision, IInv, StepIsSound
    <2>2. CASE Refuses BY <2>1, <2>2, ResultRefuses
    <2>3. CASE UNCHANGED <<plan, engine, transcript>>
        BY <2>1, <2>3, ResultKept DEF plan
    <2>4. CASE Executes
        <3>1. running = {} BY <2>1 DEF TurnIsLast
        <3> QED BY <2>1, <2>4, <3>1, ResultExecutes
    <2> QED BY <1>6, <2>2, <2>3, <2>4 DEF ReadsDecision
<1>7. CASE RecordsResults BY <1>7, ResultRecords
<1>8. ASSUME NEW c \in Calls, CallEnds(c) PROVE ResultInv'
    <2>1. engine = "execute" BY <1>8 DEF CallEnds, TurnIsLast
    <2> QED BY <1>8, <2>1, ResultKept DEF CallEnds
<1>9. ASSUME NEW c \in Calls, StreamsCall(c) PROVE ResultInv'
    BY <1>9, ResultStreams
<1>10. CASE RunsCode
    BY <1>10, ResultExecutes DEF RunsCode, Serial
<1> QED BY <1>1, <1>2, <1>3, <1>4, <1>5, <1>6, <1>7, <1>8, <1>9, <1>10 DEF Engine

LEMMA ResultInitially == Init => IInv /\ TurnIsLast /\ ResultInv
<1> SUFFICES ASSUME Init PROVE IInv /\ TurnIsLast /\ ResultInv OBVIOUS
<1>1. DOMAIN step = {} /\ Len(transcript) = 0 /\ engine = "idle"
    BY EmptySeq DEF Init
<1>2. \A c \in Calls : kind[c] = "none" BY DEF Init
<1>3. ResultsMatchCalls
    <2>1. 0 \in 0..Len(transcript) /\ Len(transcript) = 2 * 0 /\ \A i \in 1..0 : FALSE
        BY <1>1
    <2> QED BY <2>1 DEF ResultsMatchCalls
<1> QED BY <1>1, <1>2, <1>3, ItemInitially DEF ResultInv

LEMMA ResultStep ==
    ASSUME IInv, TurnIsLast, ResultInv, [Next]_vars
    PROVE  IInv' /\ TurnIsLast' /\ ResultInv'
<1>1. IInv' /\ TurnIsLast' BY Step, TurnLastStep
<1>2. CASE Engine BY <1>1, <1>2, ResultEngine
<1>3. CASE UNCHANGED <<plan, engine, transcript>>
    BY <1>1, <1>3 DEF ResultInv, ResultsMatchCalls, Uses, plan
<1>4. CASE StartTurn
    <2>1. /\ step = <<>> /\ step' = step /\ engine' = "stream" /\ transcript' = <<>>
          /\ \A c \in Calls : kind'[c] = "none" <=> kind[c] = "none"
        BY <1>4 DEF StartTurn, IInv, StepIsSound
    <2>2. DOMAIN step' = {} /\ Len(transcript') = 0 BY <2>1, EmptySeq
    <2>3. ResultsMatchCalls'
        <3>1. 0 \in 0..Len(transcript') /\ Len(transcript') = 2 * 0 /\ \A i \in 1..0 : FALSE
            BY <2>2
        <3> QED BY <3>1 DEF ResultsMatchCalls
    <2> QED BY <1>1, <2>1, <2>2, <2>3 DEF ResultInv
<1>5. UNCHANGED <<plan, engine, transcript>> \/ Engine \/ StartTurn
    <2>1. Monitor => MonitorStep BY MonitorTakes
    <2> QED BY <2>1 DEF Next, vars, Sends, interrupt_turn, TakesSender, ClientStep, MonitorStep
<1> QED BY <1>2, <1>3, <1>4, <1>5

\* Whenever the model is asked again and when a turn is over, each tool use of the
\* transcript has its one result, in the order of the uses, whichever batch the
\* call was in and however the calls ended (the end of a step in handle_deepseek_turn).
THEOREM EveryUseHasItsResult == Spec => []ResultsMatchCalls
<1>1. ResultInv => ResultsMatchCalls BY DEF ResultInv
<1> QED BY ResultInitially, ResultStep, <1>1, PTL DEF Spec
=============================================================================
