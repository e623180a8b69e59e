------------------------- MODULE RuntimeThreadsProofs -------------------------
(***************************************************************************)
(* Theorems about RuntimeThreads, for any sets of threads, turns, engines  *)
(* and requests, any number of crashes and any size of the cache.  What    *)
(* needs one request at a time on a thread, or no steering, or no panic,   *)
(* says so as an assumption of the theorem.                                *)
(***************************************************************************)
EXTENDS RuntimeThreads, QueueLemmas

USE RuntimeThreadsAssumption

-----------------------------------------------------------------------------
(* The list eviction works from.                                           *)

\* The first position that passes a test, or 0.
LEMMA FirstOf ==
    ASSUME NEW I, I \subseteq Nat, I # {}
    PROVE  Min(I) \in I
BY NatHasLeast DEF Min

\* RemoveFirst takes one entry out of a list without doubles, if it is there.
LEMMA RemoveFirstDrops ==
    ASSUME NEW q \in Seq(Threads), IsInjective(q), NEW t
    PROVE  /\ RemoveFirst(q, t) \in Seq(Threads) /\ IsInjective(RemoveFirst(q, t))
           /\ Range(RemoveFirst(q, t)) = Range(q) \ {t}
<1>1. CASE \E i \in 1..Len(q) : q[i] = t
    <2> DEFINE I == {i \in 1..Len(q) : q[i] = t}
               k == Min(I)
    <2>1. I # {} /\ I \subseteq Nat
        BY <1>1
    <2>2. k \in I
        <3> HIDE DEF I
        <3> QED BY <2>1, FirstOf
    <2>3. RemoveFirst(q, t) = SubSeq(q, 1, k - 1) \o SubSeq(q, k + 1, Len(q))
        BY <1>1, <2>1 DEF RemoveFirst, RemoveAt, SelectInSeq
    <2> HIDE DEF k
    <2> DEFINE a == SubSeq(q, 1, k - 1)
               b == SubSeq(q, k + 1, Len(q))
    <2>4. k \in 1..Len(q) /\ q[k] = t
        BY <2>2
    <2>5. /\ a \in Seq(Threads) /\ b \in Seq(Threads) /\ IsInjective(a) /\ IsInjective(b)
          /\ Range(a) \cap Range(b) = {} /\ Range(a) \cup Range(b) = Range(q) \ {t}
        BY <2>4, CutAt
    <2> HIDE DEF a, b, I
    <2>6. a \o b \in Seq(Threads) /\ IsInjective(a \o b)
          /\ Range(a \o b) = Range(q) \ {t}
        BY <2>5, ConcatInjective, ConcatProperties, RangeConcatenation
    <2> QED BY <2>3, <2>6 DEF a, b
<1>2. CASE ~\E i \in 1..Len(q) : q[i] = t
    <2>1. RemoveFirst(q, t) = q
        BY <1>2 DEF RemoveFirst
    <2>2. t \notin Range(q)
        BY <1>2 DEF Range
    <2> QED BY <2>1, <2>2
<1> QED BY <1>1, <1>2

\* A list without doubles that holds at least what is loaded.
Lists(l) == l \in Seq(Threads) /\ IsInjective(l)

LEMMA TouchLists ==
    ASSUME NEW l, Lists(l), NEW t \in Threads
    PROVE  Lists(touch_lru(l, t)) /\ Range(touch_lru(l, t)) = Range(l) \cup {t}
<1> DEFINE r == RemoveFirst(l, t)
<1>1. r \in Seq(Threads) /\ IsInjective(r) /\ Range(r) = Range(l) \ {t}
    BY RemoveFirstDrops DEF Lists
<1>2. touch_lru(l, t) = Append(r, t)
    BY DEF touch_lru
<1> HIDE DEF r
<1>3. /\ Append(r, t) \in Seq(Threads) /\ IsInjective(Append(r, t))
      /\ Range(Append(r, t)) = Range(r) \cup {t}
    BY <1>1, AppendFresh
<1> QED BY <1>1, <1>2, <1>3 DEF Lists

\* What an eviction leaves: a list that misses at most the thread it unloads,
\* which had no active turn.
LEMMA EvictionLists ==
    ASSUME Lists(lru), loaded \in [Threads -> Engines \cup {NoEngine}]
    PROVE  LET after == AfterEviction
           IN  /\ Lists(after.lru)
               /\ \/ after.lru = lru /\ after.loaded = loaded /\ after.evicted = NoEngine
                  \/ \E u \in Threads :
                        /\ active[u].turn = NoTurn
                        /\ Range(after.lru) = Range(lru) \ {u}
                        /\ after.loaded = [loaded EXCEPT ![u] = NoEngine]
                        /\ after.evicted = loaded[u]
<1>1. CASE ~Full \/ Victim = 0
    BY <1>1 DEF AfterEviction
<1>2. CASE ~(~Full \/ Victim = 0)
    <2> DEFINE I == {i \in 1..Len(lru) : lru[i] \notin Protected}
    <2>1. I # {} /\ I \subseteq Nat /\ Victim = Min(I)
        BY <1>2 DEF Victim, SelectInSeq, Lists
    <2>2. Victim \in I
        <3> HIDE DEF I
        <3> QED BY <2>1, FirstOf
    <2>3. PICK k \in 1..Len(lru) : k = Victim /\ lru[k] \notin Protected
        BY <2>2
    <2> DEFINE a == SubSeq(lru, 1, k - 1)
               b == SubSeq(lru, k + 1, Len(lru))
               u == lru[k]
    <2>4. AfterEviction = [lru |-> b \o a, loaded |-> [loaded EXCEPT ![u] = NoEngine],
                           evicted |-> loaded[u]]
        BY <1>2, <2>3 DEF AfterEviction
    <2>5. /\ a \in Seq(Threads) /\ b \in Seq(Threads) /\ IsInjective(a) /\ IsInjective(b)
          /\ Range(a) \cap Range(b) = {} /\ Range(a) \cup Range(b) = Range(lru) \ {u}
        BY CutAt DEF Lists
    <2>6. u \in Threads /\ active[u].turn = NoTurn
        BY <2>3 DEF Lists, Protected
    <2> HIDE DEF a, b, u
    <2>7. b \o a \in Seq(Threads) /\ IsInjective(b \o a) /\ Range(b \o a) = Range(lru) \ {u}
        BY <2>5, ConcatInjective, ConcatProperties, RangeConcatenation
    <2> QED BY <2>4, <2>6, <2>7 DEF Lists
<1> QED BY <1>1, <1>2
-----------------------------------------------------------------------------
(* The type invariant, a part for each variable.                           *)

EngineState  == [st : {"free", "up", "down"}, ops : Seq(Turns \cup {NoTurn}),
                 run : Turns \cup {NoTurn}, kind : {"send", "compact"},
                 cancelled : BOOLEAN, spoke : BOOLEAN, out : Seq({"message"} \cup Terminal)]
CallerPC     == {"idle", "insert", "evict", "check", "save", "activate", "send"}
CallerState  == [pc : CallerPC, engine : Engines \cup {NoEngine}, turn : Turns \cup {NoTurn},
                 evicted : Engines \cup {NoEngine}]
SteererState == [pc : {"idle", "load", "save", "again"}, turn : Turns \cup {NoTurn},
                 copy : Record]
MonitorState == [pc : MonitorPC, engine : Engines \cup {NoEngine}, status : Terminal,
                 copy : Record]
ActiveState  == [turn : Turns \cup {NoTurn}, interrupt : BOOLEAN]

PhaseType  == phase \in {"up", "scan", "items"} /\ repairing \in Turns \cup {NoTurn}
CacheType  == /\ loaded \in [Threads -> Engines \cup {NoEngine}]
              /\ active \in [Threads -> ActiveState] /\ lru \in Seq(Threads)
EngineType == engine \in [Engines -> EngineState]
TaskType   == /\ caller \in [Callers -> CallerState] /\ steerer \in [Steerers -> SteererState]
              /\ monitor \in [Turns -> MonitorState]
DiskType   == turn \in [Turns -> Record] /\ message \in [Turns -> {"none", "open", "closed"}]
OtherType  == /\ asked \subseteq Turns /\ crashes \in Nat
              /\ outcome \in [Turns -> {"none"} \cup Terminal]
Types == PhaseType /\ CacheType /\ EngineType /\ TaskType /\ DiskType /\ OtherType

LEMMA TypesAreTypeOK == TypeOK <=> Types
BY DEF TypeOK, Types, PhaseType, CacheType, EngineType, TaskType, DiskType, OtherType,
       EngineState, CallerState, CallerPC, SteererState, MonitorState, ActiveState

-----------------------------------------------------------------------------
(* The records a request, a monitor or a steer has at hand exist.          *)

Saved(x) == turn[x].status # "absent"

\* Requests that have a turn nobody watches yet.
Claiming == {c \in Callers : caller[c].pc \in {"activate", "send"}}

CallersKnow ==
    /\ \A c \in Callers : caller[c].pc # "idle" => caller[c].engine \in Engines
    /\ \A c \in Claiming :
          /\ caller[c].turn \in Turns /\ Saved(caller[c].turn)
          /\ turn[caller[c].turn].thread = CallerThread[c]
          /\ monitor[caller[c].turn].pc = "none"
          /\ \A d \in Claiming : caller[d].turn = caller[c].turn => d = c
MonitorsKnow == \A x \in Turns :
    /\ monitor[x].pc # "none" => Saved(x) /\ monitor[x].engine \in Engines
    /\ monitor[x].pc \in {"attached", "save"} =>
          monitor[x].copy.status # "absent" /\ monitor[x].copy.thread = turn[x].thread
SteerersKnow == \A s \in Steerers :
    /\ steerer[s].pc # "idle" => steerer[s].turn \in Turns /\ Saved(steerer[s].turn)
    /\ steerer[s].pc \in {"save", "again"} =>
          /\ steerer[s].copy.status # "absent"
          /\ steerer[s].copy.thread = turn[steerer[s].turn].thread
ActiveKnown ==
    /\ \A t \in Threads : active[t].turn # NoTurn =>
          Saved(active[t].turn) /\ turn[active[t].turn].thread = t
    /\ phase = "items" => repairing \in Turns
ThreadKnown == \A x \in Turns : Saved(x) => turn[x].thread \in Threads

Records == CallersKnow /\ MonitorsKnow /\ SteerersKnow /\ ActiveKnown /\ ThreadKnown

ListCovers == Lists(lru) /\ Loaded \subseteq Range(lru)

BaseInv == Types /\ ListCovers /\ Records

LEMMA InitBase == Init => BaseInv
<1> SUFFICES ASSUME Init PROVE BaseInv
    OBVIOUS
<1> USE DEF Init
<1>1. TypeOK
    BY DEF TypeOK, Inactive, NewEngine, Idle, NoSteer, NoMonitor, Absent, Record, MonitorPC, Terminal
<1>2. ListCovers
    BY DEF ListCovers, Lists, Loaded, IsInjective, Range
<1>3. Records
    BY DEF Records, CallersKnow, MonitorsKnow, SteerersKnow, ActiveKnown, ThreadKnown, Saved,
           Claiming, Inactive, Idle, NoSteer, NoMonitor, Absent
<1> QED BY <1>1, <1>2, <1>3, TypesAreTypeOK DEF BaseInv

-----------------------------------------------------------------------------
(* Types, action by action.                                                *)

\* A field of a record that is replaced by one of its type.
LEMMA CallerSet ==
    ASSUME caller \in [Callers -> CallerState], NEW c \in Callers
    PROVE  /\ [caller EXCEPT ![c] = Idle] \in [Callers -> CallerState]
           /\ \A pc \in CallerPC :
                 /\ [caller EXCEPT ![c].pc = pc] \in [Callers -> CallerState]
                 /\ \A e \in Engines \cup {NoEngine} :
                       /\ [caller EXCEPT ![c].pc = pc, ![c].engine = e] \in [Callers -> CallerState]
                       /\ [caller EXCEPT ![c].pc = pc, ![c].evicted = e] \in [Callers -> CallerState]
                 /\ \A x \in Turns :
                       [caller EXCEPT ![c].pc = pc, ![c].turn = x] \in [Callers -> CallerState]
<1>1. [caller EXCEPT ![c] = Idle] \in [Callers -> CallerState]
    BY DEF CallerState, CallerPC, Idle
<1>2. caller[c] \in CallerState
    OBVIOUS
<1>3. \A pc \in CallerPC : [caller[c] EXCEPT !.pc = pc] \in CallerState
    BY <1>2 DEF CallerState
<1>4. \A pc \in CallerPC : \A e \in Engines \cup {NoEngine} :
        /\ [caller[c] EXCEPT !.pc = pc, !.engine = e] \in CallerState
        /\ [caller[c] EXCEPT !.pc = pc, !.evicted = e] \in CallerState
    BY <1>2 DEF CallerState
<1>5. \A pc \in CallerPC : \A x \in Turns :
        [caller[c] EXCEPT !.pc = pc, !.turn = x] \in CallerState
    BY <1>2 DEF CallerState
<1> QED BY <1>1, <1>3, <1>4, <1>5

LEMMA SteererSet ==
    ASSUME steerer \in [Steerers -> SteererState], NEW s \in Steerers
    PROVE  \A pc \in {"idle", "load", "save", "again"} :
              /\ [steerer EXCEPT ![s].pc = pc] \in [Steerers -> SteererState]
              /\ \A x \in Turns :
                    [steerer EXCEPT ![s].pc = pc, ![s].turn = x] \in [Steerers -> SteererState]
              /\ \A r \in Record :
                    [steerer EXCEPT ![s].pc = pc, ![s].copy = r] \in [Steerers -> SteererState]
<1>1. \A pc \in {"idle", "load", "save", "again"} :
        /\ [steerer[s] EXCEPT !.pc = pc] \in SteererState
        /\ \A x \in Turns : [steerer[s] EXCEPT !.pc = pc, !.turn = x] \in SteererState
        /\ \A r \in Record : [steerer[s] EXCEPT !.pc = pc, !.copy = r] \in SteererState
    BY DEF SteererState
<1> QED BY <1>1

LEMMA MonitorSet ==
    ASSUME monitor \in [Turns -> MonitorState], NEW x \in Turns
    PROVE  \A pc \in MonitorPC :
              /\ [monitor EXCEPT ![x].pc = pc] \in [Turns -> MonitorState]
              /\ \A e \in Engines :
                    [monitor EXCEPT ![x].pc = pc, ![x].engine = e] \in [Turns -> MonitorState]
              /\ \A how \in Terminal :
                    [monitor EXCEPT ![x].pc = pc, ![x].status = how] \in [Turns -> MonitorState]
              /\ \A r \in Record :
                    [monitor EXCEPT ![x].pc = pc, ![x].copy = r] \in [Turns -> MonitorState]
<1>1. \A pc \in MonitorPC :
        /\ [monitor[x] EXCEPT !.pc = pc] \in MonitorState
        /\ \A e \in Engines : [monitor[x] EXCEPT !.pc = pc, !.engine = e] \in MonitorState
        /\ \A how \in Terminal : [monitor[x] EXCEPT !.pc = pc, !.status = how] \in MonitorState
        /\ \A r \in Record : [monitor[x] EXCEPT !.pc = pc, !.copy = r] \in MonitorState
    BY DEF MonitorState
<1> QED BY <1>1

LEMMA EngineSet ==
    ASSUME EngineType, NEW e \in Engines, NEW g \in EngineState
    PROVE  [engine EXCEPT ![e] = g] \in [Engines -> EngineState]
BY DEF EngineType

\* What is added to one of the two channels of an engine, or taken from it.
LEMMA ChannelSet ==
    ASSUME NEW g \in EngineState, NEW op \in Turns \cup {NoTurn},
           NEW event \in {"message"} \cup Terminal
    PROVE  /\ g.ops \in Seq(Turns \cup {NoTurn}) /\ g.out \in Seq({"message"} \cup Terminal)
           /\ [g EXCEPT !.ops = Append(@, op)] \in EngineState
           /\ g.ops # <<>> => Head(g.ops) \in Turns \cup {NoTurn}
           /\ g.ops # <<>> => Tail(g.ops) \in Seq(Turns \cup {NoTurn})
           /\ Append(g.out, event) \in Seq({"message"} \cup Terminal)
           /\ g.out # <<>> => Head(g.out) \in {"message"} \cup Terminal
           /\ g.out # <<>> => [g EXCEPT !.out = Tail(@)] \in EngineState
<1> DEFINE W == {"message"} \cup Terminal
           q == Append(g.ops, op)
           r == Tail(g.out)
<1>1. /\ g.ops \in Seq(Turns \cup {NoTurn}) /\ g.out \in Seq(W)
    BY DEF EngineState
<1> HIDE DEF W
<1>2. /\ q \in Seq(Turns \cup {NoTurn}) /\ Append(g.out, event) \in Seq(W)
      /\ g.out # <<>> => Head(g.out) \in W /\ r \in Seq(W)
      /\ g.ops # <<>> => Head(g.ops) \in Turns \cup {NoTurn} /\ Tail(g.ops) \in Seq(Turns \cup {NoTurn})
    <2>1. event \in W
        BY DEF W
    <2> QED BY <1>1, <2>1, HeadTailProperties, AppendProperties
<1> HIDE DEF q, r
<1>3. [g EXCEPT !.ops = q] \in EngineState
    BY <1>2 DEF EngineState
<1>4. g.out # <<>> => [g EXCEPT !.out = r] \in EngineState
    BY <1>2 DEF EngineState, W
<1> QED BY <1>1, <1>2, <1>3, <1>4 DEF W, q, r

\* The parts of the type invariant a step leaves alone.
LEMMA TypesFrom ==
    ASSUME PhaseType', CacheType', EngineType', TaskType', DiskType', OtherType'
    PROVE  Types'
BY DEF Types

LEMMA TypesKept ==
    ASSUME Types
    PROVE  /\ UNCHANGED <<phase, repairing>> => PhaseType'
           /\ UNCHANGED cache => CacheType'
           /\ UNCHANGED engine => EngineType'
           /\ UNCHANGED <<requests, monitor>> => TaskType'
           /\ UNCHANGED <<caller, steerer, monitor>> => TaskType'
           /\ UNCHANGED disk => DiskType'
           /\ UNCHANGED <<history, crashes>> => OtherType'
BY DEF Types, PhaseType, CacheType, EngineType, TaskType, DiskType, OtherType,
       cache, requests, disk, history

\* What every proof about a request starts from.
LEMMA CallerHas ==
    ASSUME BaseInv, NEW c \in Callers
    PROVE  /\ Types /\ CacheType /\ EngineType /\ TaskType /\ DiskType
           /\ caller \in [Callers -> CallerState] /\ caller[c] \in CallerState
           /\ caller[c].evicted \in Engines \cup {NoEngine}
           /\ CallerThread[c] \in Threads /\ loaded[CallerThread[c]] \in Engines \cup {NoEngine}
           /\ lru \in Seq(Threads) /\ Lists(lru)
           /\ caller[c].pc # "idle" => caller[c].engine \in Engines
           /\ caller[c].pc \in {"activate", "send"} => caller[c].turn \in Turns
BY DEF BaseInv, Types, TaskType, CacheType, CallerState, ListCovers, Lists, Records, CallersKnow,
       Claiming

LEMMA StartTypes ==
    ASSUME BaseInv, NEW c \in Callers, start_turn(c)
    PROVE  Types'
<1> USE DEF Serving
<1>a. /\ CacheType /\ EngineType /\ TaskType /\ DiskType /\ Lists(lru)
      /\ caller[c].evicted \in Engines \cup {NoEngine}
      /\ CallerThread[c] \in Threads /\ loaded[CallerThread[c]] \in Engines \cup {NoEngine}
      /\ caller[c].pc # "idle" => caller[c].engine \in Engines
      /\ caller[c].pc \in {"activate", "send"} => caller[c].turn \in Turns
    BY CallerHas
<1>k. /\ UNCHANGED <<phase, repairing>> => PhaseType'
      /\ UNCHANGED cache => CacheType'
      /\ UNCHANGED engine => EngineType'
      /\ UNCHANGED disk => DiskType'
      /\ UNCHANGED <<history, crashes>> => OtherType'
    BY CallerHas, TypesKept
<1>c. /\ [caller EXCEPT ![c] = Idle] \in [Callers -> CallerState]
      /\ \A pc \in CallerPC :
            /\ [caller EXCEPT ![c].pc = pc] \in [Callers -> CallerState]
            /\ \A e \in Engines \cup {NoEngine} :
                  /\ [caller EXCEPT ![c].pc = pc, ![c].engine = e] \in [Callers -> CallerState]
                  /\ [caller EXCEPT ![c].pc = pc, ![c].evicted = e] \in [Callers -> CallerState]
            /\ \A x \in Turns :
                  [caller EXCEPT ![c].pc = pc, ![c].turn = x] \in [Callers -> CallerState]
    BY CallerHas, CallerSet
<1> DEFINE t == CallerThread[c]
           TaskStep == caller' \in [Callers -> CallerState] /\ UNCHANGED <<steerer, monitor>>
<1>0. ASSUME TaskStep PROVE TaskType'
    BY <1>0, <1>a DEF TaskType
<1>1. CASE FindsEngine(c)
    <2>1. caller' \in [Callers -> CallerState]
        BY <1>a, <1>c, <1>1 DEF FindsEngine, CallerPC
    <2>2. lru' \in Seq(Threads) /\ CacheType'
        BY <1>a, TouchLists, <1>1 DEF FindsEngine, Lists, CacheType
    <2> QED BY <1>0, <1>k, TypesFrom, <1>1, <2>1, <2>2 DEF FindsEngine
<1>2. CASE SpawnsEngine(c)
    <2>0. PICK e \in Engines :
              /\ engine' = [engine EXCEPT ![e].st = "up"]
              /\ caller' = [caller EXCEPT ![c].pc = "insert", ![c].engine = e]
        BY <1>2 DEF SpawnsEngine
    <2>1. caller' \in [Callers -> CallerState]
        BY <1>c, <2>0 DEF CallerPC
    <2>2. EngineType'
        <3>1. engine[e] \in EngineState
            BY <1>a DEF EngineType
        <3>2. [engine[e] EXCEPT !.st = "up"] \in EngineState
            BY <3>1 DEF EngineState
        <3> QED BY <1>a, <2>0, <3>2, EngineSet DEF EngineType
    <2> QED BY <1>0, <1>k, TypesFrom, <1>2, <2>1, <2>2 DEF SpawnsEngine
<1>3. CASE InsertsEngine(c)
    <2> DEFINE after == AfterEviction
    <2>1. /\ Lists(after.lru) /\ after.evicted \in Engines \cup {NoEngine}
          /\ after.loaded \in [Threads -> Engines \cup {NoEngine}]
        BY <1>a, EvictionLists DEF CacheType
    <2> HIDE DEF after
    <2>2. touch_lru(after.lru, t) \in Seq(Threads)
        BY <1>a, <2>1, TouchLists DEF Lists
    <2>3. /\ loaded' = [after.loaded EXCEPT ![t] = caller[c].engine]
          /\ active' = [active EXCEPT ![t] = Inactive] /\ lru' = touch_lru(after.lru, t)
          /\ caller' = [caller EXCEPT ![c].pc = "evict", ![c].evicted = after.evicted]
          /\ caller[c].engine \in Engines
        BY <1>a, <1>3 DEF InsertsEngine, after
    <2>4. caller' \in [Callers -> CallerState]
        BY <1>a, <1>c, <2>1, <2>3 DEF CallerPC
    <2>5. active' \in [Threads -> ActiveState]
        BY <1>a, <2>3 DEF ActiveState, Inactive, CacheType
    <2>6. CacheType'
        BY <1>a, <2>1, <2>2, <2>3, <2>5 DEF CacheType
    <2> QED BY <1>0, <1>k, TypesFrom, <1>3, <2>4, <2>6 DEF InsertsEngine
<1>4. CASE ShutsDownEvicted(c)
    <2>1. caller' \in [Callers -> CallerState]
        BY <1>a, <1>c, <1>4 DEF ShutsDownEvicted, CallerPC
    <2>2. EngineType'
        <3> DEFINE e == caller[c].evicted
        <3>1. CASE e \in Engines /\ engine[e].st = "up"
            <4>1. [engine[e] EXCEPT !.ops = Append(@, NoTurn)] \in EngineState
                BY <1>a, <3>1, ChannelSet DEF EngineType
            <4> QED BY <1>a, <1>4, <3>1, <4>1, EngineSet DEF ShutsDownEvicted, EngineType
        <3>2. CASE ~(e # NoEngine /\ engine[e].st = "up")
            BY <1>a, <1>4, <3>2 DEF ShutsDownEvicted, EngineType
        <3> QED BY <1>a, <3>1, <3>2
    <2> QED BY <1>0, <1>k, TypesFrom, <1>4, <2>1, <2>2 DEF ShutsDownEvicted
<1>5. CASE ChecksActive(c)
    <2>1. caller' \in [Callers -> CallerState]
        <3>1. "save" \in CallerPC
            BY DEF CallerPC
        <3>2. caller' = [caller EXCEPT ![c] = Idle] \/ caller' = [caller EXCEPT ![c].pc = "save"]
            BY <1>5 DEF ChecksActive, Returns, Goes
        <3> QED BY <1>c, <3>1, <3>2
    <2> QED BY <1>0, <1>k, TypesFrom, <1>5, <2>1 DEF ChecksActive
<1>6. CASE SavesTurn(c)
    <2>1. PICK x \in Turns :
              /\ turn' = [turn EXCEPT ![x].status = "InProgress", ![x].thread = t]
              /\ caller' = [caller EXCEPT ![c].pc = "activate", ![c].turn = x]
        BY <1>a, <1>6 DEF SavesTurn
    <2>2. caller' \in [Callers -> CallerState]
        BY <1>a, <1>c, <2>1 DEF CallerPC
    <2>3. turn' \in [Turns -> Record]
        <3>1. turn[x] \in Record
            BY <1>a DEF DiskType
        <3>2. [turn[x] EXCEPT !.status = "InProgress", !.thread = t] \in Record
            BY <1>a, <3>1 DEF Record
        <3> QED BY <1>a, <2>1, <3>2 DEF DiskType
    <2>4. DiskType'
        BY <1>a, <1>6, <2>3 DEF SavesTurn, DiskType
    <2> QED BY <1>0, <1>k, TypesFrom, <1>6, <2>2, <2>4 DEF SavesTurn
<1>7. CASE RequestFails(c)
    <2>1. caller' \in [Callers -> CallerState]
        BY <1>a, <1>c, <1>7 DEF RequestFails, Returns, CallerPC
    <2> QED BY <1>0, <1>k, TypesFrom, <1>7, <2>1 DEF RequestFails
<1>8. CASE Activates(c)
    <2>1. caller' \in [Callers -> CallerState]
        BY <1>a, <1>c, <1>8 DEF Activates, Returns, Goes, CallerPC
    <2>2. active' \in [Threads -> ActiveState]
        <3> DEFINE x == caller[c].turn
        <3>1. x \in Turns /\ active \in [Threads -> ActiveState]
            BY <1>a, <1>8 DEF Activates, CacheType
        <3> HIDE DEF x
        <3>2. [turn |-> x, interrupt |-> FALSE] \in ActiveState
            BY <1>a, <3>1 DEF ActiveState
        <3> QED BY <1>a, <1>8, <3>1, <3>2 DEF Activates, x
    <2>3. lru' \in Seq(Threads)
        BY <1>a, <1>8, TouchLists DEF Activates, Lists
    <2>4. CacheType'
        BY <1>a, <1>8, <2>2, <2>3 DEF Activates, CacheType
    <2> QED BY <1>0, <1>k, TypesFrom, <1>8, <2>1, <2>4 DEF Activates
<1>9. CASE SendsOp(c)
    <2> DEFINE e == caller[c].engine x == caller[c].turn
    <2>1. e \in Engines /\ x \in Turns
        BY <1>a, <1>9 DEF SendsOp
    <2>2. caller' \in [Callers -> CallerState]
        BY <1>a, <1>c, <1>9 DEF SendsOp, Returns, CallerPC
    <2>3. [engine[e] EXCEPT !.ops = Append(@, x)] \in EngineState
        BY <1>a, <2>1, ChannelSet DEF EngineType
    <2>4. EngineType'
        BY <1>a, <1>9, <2>1, <2>3, EngineSet DEF SendsOp, EngineType
    <2>5. [monitor EXCEPT ![x].pc = "wait", ![x].engine = e] \in [Turns -> MonitorState]
        <3>1. "wait" \in MonitorPC /\ monitor \in [Turns -> MonitorState]
            BY <1>a DEF TaskType, MonitorPC
        <3> HIDE DEF e, x
        <3> QED BY <2>1, <3>1, MonitorSet
    <2>6. TaskType'
        BY <1>a, <1>9, <2>2, <2>5 DEF SendsOp, TaskType
    <2> QED BY <1>9, <1>k, TypesFrom, <2>4, <2>6 DEF SendsOp
<1> QED BY <1>1, <1>2, <1>3, <1>4, <1>5, <1>6, <1>7, <1>8, <1>9 DEF start_turn

\* What is saved of a record that was loaded.
LEMMA RecordSet ==
    ASSUME DiskType, NEW x \in Turns, NEW r \in Record
    PROVE  /\ [turn EXCEPT ![x] = r] \in [Turns -> Record]
           /\ \A i \in {"message", "steer"} :
                 [turn EXCEPT ![x] = [r EXCEPT !.items = @ \cup {i}]] \in [Turns -> Record]
           /\ \A how \in Terminal :
                 [turn EXCEPT ![x] = [r EXCEPT !.status = how]] \in [Turns -> Record]
<1>1. \A i \in {"message", "steer"} : [r EXCEPT !.items = @ \cup {i}] \in Record
    BY DEF Record
<1>2. \A how \in Terminal : [r EXCEPT !.status = how] \in Record
    BY DEF Record
<1> QED BY <1>1, <1>2 DEF DiskType

LEMMA InterruptTypes ==
    ASSUME BaseInv, NEW t \in Threads, NEW x \in Turns, interrupt_turn(t, x)
    PROVE  Types'
<1>a. Types /\ CacheType /\ EngineType /\ OtherType /\ Lists(lru)
    BY DEF BaseInv, Types, ListCovers
<1>1. CacheType'
    <2>1. active' \in [Threads -> ActiveState]
        BY <1>a DEF interrupt_turn, CacheType, ActiveState
    <2> QED BY <1>a, <2>1, TouchLists DEF interrupt_turn, CacheType, Lists
<1>2. EngineType'
    <2>1. loaded[t] \in Engines /\ engine[loaded[t]] \in EngineState
        BY <1>a DEF interrupt_turn, CacheType, EngineType
    <2> DEFINE e == loaded[t]
    <2> HIDE DEF e
    <2>2. [engine[e] EXCEPT !.cancelled = TRUE] \in EngineState
        BY <2>1 DEF EngineState, e
    <2> QED BY <1>a, <2>1, <2>2, EngineSet DEF interrupt_turn, EngineType, e
<1>3. OtherType'
    BY <1>a DEF interrupt_turn, OtherType
<1> QED BY <1>a, <1>1, <1>2, <1>3, TypesKept, TypesFrom DEF interrupt_turn, requests

LEMMA SteerTypes ==
    ASSUME BaseInv, NEW s \in Steerers, steer_turn(s)
    PROVE  Types'
<1>a. /\ Types /\ CacheType /\ TaskType /\ DiskType /\ Lists(lru)
      /\ steerer[s] \in SteererState /\ steerer[s].copy \in Record
      /\ steerer[s].pc # "idle" => steerer[s].turn \in Turns
    BY DEF BaseInv, Types, TaskType, ListCovers, SteererState, Records, SteerersKnow
<1>k. /\ UNCHANGED <<phase, repairing>> => PhaseType'
      /\ UNCHANGED cache => CacheType'
      /\ UNCHANGED engine => EngineType'
      /\ UNCHANGED disk => DiskType'
      /\ UNCHANGED <<history, crashes>> => OtherType'
    BY <1>a, TypesKept
<1>0. ASSUME steerer' \in [Steerers -> SteererState], UNCHANGED <<caller, monitor>>
      PROVE  TaskType'
    BY <1>0, <1>a DEF TaskType
<1>1. ASSUME NEW t \in Threads, NEW x \in Turns, Steers(s, t, x) PROVE Types'
    <2>1. steerer' \in [Steerers -> SteererState]
        BY <1>1, <1>a, SteererSet DEF Steers, TaskType
    <2>2. CacheType'
        BY <1>1, <1>a, TouchLists DEF Steers, CacheType, Lists
    <2> QED BY <1>0, <1>1, <1>k, <2>1, <2>2, TypesFrom DEF Steers
<1>2. CASE SteerLoads(s)
    <2>1. turn[steerer[s].turn] \in Record
        BY <1>2, <1>a DEF SteerLoads, DiskType
    <2>2. steerer' \in [Steerers -> SteererState]
        BY <1>2, <1>a, <2>1, SteererSet DEF SteerLoads, TaskType
    <2> QED BY <1>0, <1>2, <1>k, <2>2, TypesFrom DEF SteerLoads
<1>3. CASE SteerSaves(s)
    <2>1. turn' \in [Turns -> Record]
        <3> DEFINE x == steerer[s].turn r == steerer[s].copy
        <3>1. x \in Turns /\ r \in Record
            BY <1>3, <1>a DEF SteerSaves
        <3>2. \/ turn' = [turn EXCEPT ![x] = r]
              \/ turn' = [turn EXCEPT ![x] = [r EXCEPT !.items = @ \cup {"steer"}]]
            BY <1>3 DEF SteerSaves
        <3> HIDE DEF x, r
        <3>3. /\ [turn EXCEPT ![x] = r] \in [Turns -> Record]
              /\ [turn EXCEPT ![x] = [r EXCEPT !.items = @ \cup {"steer"}]] \in [Turns -> Record]
            BY <1>a, <3>1, RecordSet
        <3> QED BY <3>2, <3>3
    <2>2. DiskType'
        BY <1>3, <1>a, <2>1 DEF SteerSaves, DiskType
    <2>3. steerer' \in [Steerers -> SteererState]
        <3>1. [steerer EXCEPT ![s].pc = "again"] \in [Steerers -> SteererState]
            BY <1>a, SteererSet DEF TaskType
        <3>2. NoSteer \in SteererState
            BY DEF NoSteer, SteererState, Absent, Record
        <3> QED BY <1>3, <1>a, <3>1, <3>2 DEF SteerSaves, TaskType
    <2> QED BY <1>0, <1>3, <1>k, <2>2, <2>3, TypesFrom DEF SteerSaves
<1> QED BY <1>1, <1>2, <1>3 DEF steer_turn

LEMMA EngineTypes ==
    ASSUME BaseInv, NEW e \in Engines, EngineActs(e) \/ EnginePanics(e)
    PROVE  Types'
<1>a. Types /\ EngineType /\ OtherType /\ engine[e] \in EngineState
    BY DEF BaseInv, Types, EngineType
<1> DEFINE g == engine[e]
<1>g. g \in EngineState /\ g.run \in Turns \cup {NoTurn} /\ g.cancelled \in BOOLEAN
    BY <1>a DEF EngineState
<1> HIDE DEF g
<1>c. /\ g.ops \in Seq(Turns \cup {NoTurn}) /\ g.out \in Seq({"message"} \cup Terminal)
      /\ g.ops # <<>> => Head(g.ops) \in Turns \cup {NoTurn}
      /\ g.ops # <<>> => Tail(g.ops) \in Seq(Turns \cup {NoTurn})
      /\ \A event \in {"message"} \cup Terminal :
            Append(g.out, event) \in Seq({"message"} \cup Terminal)
    BY <1>g, ChannelSet
<1>0. ASSUME EngineStep, OtherType', NEW h \in EngineState, engine' = [engine EXCEPT ![e] = h]
      PROVE  Types'
    <2>1. EngineType'
        BY <1>0, <1>a, EngineSet DEF EngineType
    <2> QED BY <1>0, <1>a, <2>1, TypesKept, TypesFrom DEF EngineStep
<1>1. CASE TakesOp(e)
    <2> DEFINE op == Head(g.ops)
    <2>1. g.ops # <<>>
        BY <1>1 DEF TakesOp, g
    <2> DEFINE q == Tail(g.ops)
               Run(kind) == [g EXCEPT !.run = op, !.ops = q, !.kind = kind, !.spoke = FALSE,
                                      !.cancelled = g.cancelled /\ kind = "compact"]
    <2>2. PICK kind \in Kinds :
              engine' = [engine EXCEPT ![e] =
                            IF op = NoTurn THEN [g EXCEPT !.st = "down", !.ops = <<>>]
                                           ELSE Run(kind)]
        BY <1>1 DEF TakesOp, g
    <2>3. /\ q \in Seq(Turns \cup {NoTurn}) /\ op \in Turns \cup {NoTurn}
          /\ kind \in {"send", "compact"}
        BY <1>c, <1>g, <2>1
    <2> HIDE DEF q, op
    <2>4. [g EXCEPT !.st = "down", !.ops = <<>>] \in EngineState
        <3> DEFINE X == Turns \cup {NoTurn}
                   no == <<>>
        <3>1. no \in Seq(X)
            OBVIOUS
        <3> HIDE DEF no
        <3>2. [g EXCEPT !.st = "down", !.ops = no] \in EngineState
            BY <1>g, <3>1 DEF EngineState
        <3> QED BY <3>2 DEF no
    <2>5. Run(kind) \in EngineState
        <3> DEFINE can == g.cancelled /\ kind = "compact"
        <3>1. can \in BOOLEAN
            OBVIOUS
        <3> HIDE DEF can
        <3>2. [g EXCEPT !.run = op, !.ops = q, !.kind = kind, !.spoke = FALSE, !.cancelled = can]
                 \in EngineState
            BY <1>g, <2>3, <3>1 DEF EngineState
        <3> QED BY <3>2 DEF can
    <2> HIDE DEF Run
    <2>6. OtherType' /\ EngineStep
        BY <1>1, <1>a DEF TakesOp, OtherType, EngineStep
    <2> QED BY <1>0, <2>2, <2>4, <2>5, <2>6
<1>2. CASE StartsMessage(e)
    <2> DEFINE q == Append(g.out, "message")
    <2>1. q \in Seq({"message"} \cup Terminal)
        BY <1>c
    <2>2. engine' = [engine EXCEPT ![e] = [g EXCEPT !.spoke = TRUE, !.out = q]]
        BY <1>2, <1>a DEF StartsMessage, EngineType, g
    <2> HIDE DEF q
    <2>3. [g EXCEPT !.spoke = TRUE, !.out = q] \in EngineState
        BY <1>g, <2>1 DEF EngineState
    <2>4. OtherType' /\ EngineStep
        BY <1>2, <1>a DEF StartsMessage, OtherType, EngineStep
    <2> QED BY <1>0, <2>2, <2>3, <2>4
<1>3. ASSUME NEW how \in Terminal, CompletesTurn(e, how) PROVE Types'
    <2> DEFINE q == Append(g.out, how)
    <2>1. q \in Seq({"message"} \cup Terminal)
        BY <1>c, <1>3
    <2>2. engine' = [engine EXCEPT ![e] = [g EXCEPT !.run = NoTurn, !.kind = "send", !.out = q]]
        BY <1>3, <1>a DEF CompletesTurn, EngineType, g
    <2> HIDE DEF q
    <2>3. [g EXCEPT !.run = NoTurn, !.kind = "send", !.out = q] \in EngineState
        BY <1>g, <2>1 DEF EngineState
    <2>4. OtherType' /\ EngineStep
        BY <1>3, <1>a, <1>g DEF CompletesTurn, OtherType, EngineStep, g
    <2> QED BY <1>0, <2>2, <2>3, <2>4
<1>4. CASE EnginePanics(e)
    <2>1. [NewEngine EXCEPT !.st = "down", !.out = g.out] \in EngineState
        <3> DEFINE o == g.out n == NewEngine
        <3>1. o \in Seq({"message"} \cup Terminal)
            BY <1>c
        <3>2. n \in EngineState
            BY DEF NewEngine, EngineState
        <3> HIDE DEF o, n
        <3>3. [n EXCEPT !.st = "down", !.out = o] \in EngineState
            BY <3>1, <3>2 DEF EngineState
        <3> QED BY <3>3 DEF o, n
    <2>2. OtherType' /\ EngineStep
        BY <1>4, <1>a DEF EnginePanics, OtherType, EngineStep
    <2>3. engine' = [engine EXCEPT ![e] = [NewEngine EXCEPT !.st = "down", !.out = g.out]]
        BY <1>4 DEF EnginePanics, g
    <2> QED BY <1>0, <2>1, <2>2, <2>3
<1> QED BY <1>1, <1>2, <1>3, <1>4 DEF EngineActs, RunsOut, GivesUp, Terminal

LEMMA MonitorTypes ==
    ASSUME BaseInv, NEW x \in Turns, MonitorActs(x) \/ MonitorFails(x)
    PROVE  Types'
<1>a. /\ Types /\ CacheType /\ EngineType /\ TaskType /\ DiskType /\ Lists(lru)
      /\ monitor[x] \in MonitorState /\ monitor[x].copy \in Record
      /\ monitor[x].status \in Terminal /\ turn[x] \in Record
      /\ monitor[x].pc # "none" => monitor[x].engine \in Engines /\ turn[x].thread \in Threads
    BY DEF BaseInv, Types, TaskType, DiskType, ListCovers, MonitorState, Records, MonitorsKnow,
           ThreadKnown
<1>k. /\ UNCHANGED <<phase, repairing>> => PhaseType'
      /\ UNCHANGED cache => CacheType'
      /\ UNCHANGED engine => EngineType'
      /\ UNCHANGED disk => DiskType'
      /\ UNCHANGED <<history, crashes>> => OtherType'
    BY <1>a, TypesKept
<1>m. \A pc \in MonitorPC :
        /\ [monitor EXCEPT ![x].pc = pc] \in [Turns -> MonitorState]
        /\ \A how \in Terminal :
              [monitor EXCEPT ![x].pc = pc, ![x].status = how] \in [Turns -> MonitorState]
        /\ \A r \in Record :
              [monitor EXCEPT ![x].pc = pc, ![x].copy = r] \in [Turns -> MonitorState]
    BY <1>a, MonitorSet DEF TaskType
<1>0. ASSUME monitor' \in [Turns -> MonitorState], UNCHANGED requests
      PROVE  TaskType'
    BY <1>0, <1>a DEF TaskType, requests
<1> USE DEF Watches, MonitorGoes
<1>1. CASE ReceivesEvent(x)
    <2> DEFINE e == monitor[x].engine g == engine[e] event == Head(g.out)
    <2>1. e \in Engines /\ g \in EngineState /\ g.out # <<>>
        BY <1>1, <1>a DEF ReceivesEvent, EngineType
    <2>2. event \in {"message"} \cup Terminal /\ [g EXCEPT !.out = Tail(@)] \in EngineState
        BY <2>1, ChannelSet
    <2>3. EngineType'
        BY <1>1, <1>a, <2>1, <2>2, EngineSet DEF ReceivesEvent, EngineType
    <2>4. /\ IF event = "message"
             THEN /\ message' = [message EXCEPT ![x] = "open"]
                  /\ monitor' = [monitor EXCEPT ![x].pc = "attach"]
             ELSE /\ monitor' = [monitor EXCEPT ![x].pc = "decide", ![x].status = event]
                  /\ UNCHANGED message
          /\ UNCHANGED turn
        BY <1>1 DEF ReceivesEvent
    <2> HIDE DEF event
    <2>5. monitor' \in [Turns -> MonitorState]
        <3>1. CASE event = "message"
            <4>1. monitor' = [monitor EXCEPT ![x].pc = "attach"] /\ "attach" \in MonitorPC
                BY <2>4, <3>1 DEF MonitorPC
            <4> QED BY <1>m, <4>1
        <3>2. CASE event # "message"
            <4>1. /\ monitor' = [monitor EXCEPT ![x].pc = "decide", ![x].status = event]
                  /\ event \in Terminal /\ "decide" \in MonitorPC
                BY <2>2, <2>4, <3>2 DEF MonitorPC
            <4> QED BY <1>m, <4>1
        <3> QED BY <3>1, <3>2
    <2>6. DiskType'
        BY <1>a, <2>4 DEF DiskType
    <2> QED BY <1>0, <1>1, <1>k, <2>3, <2>5, <2>6, TypesFrom DEF ReceivesEvent
<1>2. CASE ChannelCloses(x)
    <2>1. monitor' \in [Turns -> MonitorState]
        BY <1>m, <1>2 DEF ChannelCloses, MonitorPC
    <2> QED BY <1>0, <1>2, <1>k, <2>1, TypesFrom DEF ChannelCloses
<1>3. CASE Attaches(x)
    <2> DEFINE r == monitor[x].copy
    <2>0. \/ /\ monitor' = [monitor EXCEPT ![x].pc = "attached", ![x].copy = turn[x]]
             /\ turn' = turn
          \/ /\ monitor' = [monitor EXCEPT ![x].pc = "wait"]
             /\ turn' = [turn EXCEPT ![x] = [r EXCEPT !.items = @ \cup {"message"}]]
        BY <1>3 DEF Attaches
    <2> HIDE DEF r
    <2>1. monitor' \in [Turns -> MonitorState]
        <3>1. "attached" \in MonitorPC /\ "wait" \in MonitorPC
            BY DEF MonitorPC
        <3>2. /\ [monitor EXCEPT ![x].pc = "attached", ![x].copy = turn[x]] \in [Turns -> MonitorState]
              /\ [monitor EXCEPT ![x].pc = "wait"] \in [Turns -> MonitorState]
            BY <1>a, <1>m, <3>1
        <3> QED BY <2>0, <3>2
    <2>2. turn' \in [Turns -> Record]
        <3>1. r \in Record /\ turn \in [Turns -> Record]
            BY <1>a DEF DiskType, r
        <3>2. [turn EXCEPT ![x] = [r EXCEPT !.items = @ \cup {"message"}]] \in [Turns -> Record]
            BY <1>a, <3>1, RecordSet
        <3> QED BY <2>0, <3>1, <3>2
    <2>3. DiskType'
        BY <1>a, <1>3, <2>2 DEF Attaches, DiskType
    <2> QED BY <1>0, <1>3, <1>k, <2>1, <2>3, TypesFrom DEF Attaches
<1>4. CASE Decides(x)
    <2>1. monitor' \in [Turns -> MonitorState]
        BY <1>a, <1>m, <1>4 DEF Decides, MonitorPC, Terminal
    <2> QED BY <1>0, <1>4, <1>k, <2>1, TypesFrom DEF Decides
<1>5. CASE Settles(x)
    <2>1. monitor' \in [Turns -> MonitorState]
        BY <1>m, <1>5 DEF Settles, MonitorPC
    <2>2. DiskType'
        BY <1>a, <1>5 DEF Settles, DiskType
    <2> QED BY <1>0, <1>5, <1>k, <2>1, <2>2, TypesFrom DEF Settles
<1>6. CASE Finishes(x)
    <2> DEFINE r == monitor[x].copy
    <2>0. \/ /\ monitor' = [monitor EXCEPT ![x].pc = "save", ![x].copy = turn[x]]
             /\ turn' = turn
          \/ /\ monitor' = [monitor EXCEPT ![x].pc = "clear"]
             /\ turn' = [turn EXCEPT ![x] = [r EXCEPT !.status = monitor[x].status]]
        BY <1>6 DEF Finishes
    <2> HIDE DEF r
    <2>1. monitor' \in [Turns -> MonitorState]
        <3>1. "save" \in MonitorPC /\ "clear" \in MonitorPC
            BY DEF MonitorPC
        <3>2. /\ [monitor EXCEPT ![x].pc = "save", ![x].copy = turn[x]] \in [Turns -> MonitorState]
              /\ [monitor EXCEPT ![x].pc = "clear"] \in [Turns -> MonitorState]
            BY <1>a, <1>m, <3>1
        <3> QED BY <2>0, <3>2
    <2>2. turn' \in [Turns -> Record]
        <3>1. r \in Record /\ turn \in [Turns -> Record]
            BY <1>a DEF DiskType, r
        <3>2. [turn EXCEPT ![x] = [r EXCEPT !.status = monitor[x].status]] \in [Turns -> Record]
            BY <1>a, <3>1, RecordSet
        <3> QED BY <2>0, <3>1, <3>2
    <2>3. DiskType'
        BY <1>a, <1>6, <2>2 DEF Finishes, DiskType
    <2> QED BY <1>0, <1>6, <1>k, <2>1, <2>3, TypesFrom DEF Finishes
<1>7. CASE Clears(x)
    <2>1. monitor' \in [Turns -> MonitorState]
        BY <1>m, <1>7 DEF Clears, MonitorPC
    <2>2. CacheType'
        <3>1. active' \in [Threads -> ActiveState]
            BY <1>a, <1>7 DEF Clears, CacheType, Inactive, ActiveState
        <3>2. lru' \in Seq(Threads)
            BY <1>a, <1>7, TouchLists DEF Clears, Lists
        <3> QED BY <1>a, <1>7, <3>1, <3>2 DEF Clears, CacheType
    <2> QED BY <1>0, <1>7, <1>k, <2>1, <2>2, TypesFrom DEF Clears
<1>8. CASE MonitorFails(x)
    <2>1. monitor' \in [Turns -> MonitorState]
        BY <1>m, <1>8 DEF MonitorFails, MonitorPC
    <2> QED BY <1>0, <1>8, <1>k, <2>1, TypesFrom DEF MonitorFails
<1> QED BY <1>1, <1>2, <1>3, <1>4, <1>5, <1>6, <1>7, <1>8 DEF MonitorActs

LEMMA RecoveryTypes ==
    ASSUME BaseInv, \/ \E x \in Turns : RecoversTurn(x)
                    \/ RecoversItems \/ Recovered \/ Crash
    PROVE  Types'
<1>a. Types /\ PhaseType /\ DiskType /\ OtherType
    BY DEF BaseInv, Types
<1>1. ASSUME NEW x \in Turns, RecoversTurn(x) PROVE Types'
    <2>1. DiskType'
        <3>1. [turn[x] EXCEPT !.status = "Interrupted"] \in Record
            BY <1>a DEF DiskType, Record, Terminal
        <3> QED BY <1>1, <1>a, <3>1 DEF RecoversTurn, DiskType
    <2>2. PhaseType'
        BY <1>1 DEF RecoversTurn, PhaseType
    <2> QED BY <1>1, <1>a, <2>1, <2>2, TypesKept, TypesFrom DEF RecoversTurn
<1>2. CASE RecoversItems
    <2>1. DiskType' /\ PhaseType'
        BY <1>2, <1>a DEF RecoversItems, DiskType, PhaseType
    <2> QED BY <1>2, <1>a, <2>1, TypesKept, TypesFrom DEF RecoversItems
<1>3. CASE Recovered
    <2>1. PhaseType'
        BY <1>3, <1>a DEF Recovered, PhaseType
    <2> QED BY <1>3, <1>a, <2>1, TypesKept, TypesFrom DEF Recovered
<1>4. CASE Crash
    <2>1. DiskType' /\ PhaseType' /\ OtherType'
        BY <1>4, <1>a DEF Crash, DiskType, PhaseType, OtherType, disk, history
    <2>2. CacheType'
        BY <1>4 DEF Crash, CacheType, Inactive, ActiveState
    <2>3. EngineType'
        BY <1>4 DEF Crash, EngineType, NewEngine, EngineState
    <2>4. caller' \in [Callers -> CallerState]
        BY <1>4 DEF Crash, Idle, CallerState, CallerPC
    <2>5. steerer' \in [Steerers -> SteererState]
        BY <1>4 DEF Crash, NoSteer, SteererState, Absent, Record
    <2>6. monitor' \in [Turns -> MonitorState]
        BY <1>4 DEF Crash, NoMonitor, MonitorState, MonitorPC, Absent, Record, Terminal
    <2> QED BY <2>1, <2>2, <2>3, <2>4, <2>5, <2>6, TypesFrom DEF TaskType
<1> QED BY <1>1, <1>2, <1>3, <1>4

-----------------------------------------------------------------------------
(* Records, part by part.                                                  *)

\* The steps of all but the requests that start turns, and of the crash.
Other == \/ \E t \in Threads, x \in Turns : interrupt_turn(t, x)
         \/ \E s \in Steerers : steer_turn(s)
         \/ \E e \in Engines : EngineActs(e) \/ EnginePanics(e)
         \/ \E x \in Turns : MonitorActs(x) \/ MonitorFails(x) \/ RecoversTurn(x)
         \/ RecoversItems \/ Recovered

LEMMA StepKinds ==
    ASSUME [Next]_vars
    PROVE  (\E c \in Callers : start_turn(c)) \/ Other \/ Crash \/ UNCHANGED vars
BY DEF Next, Other

\* A record keeps its thread, and no step but save_turn of a request makes one.
LEMMA TurnsKept ==
    ASSUME BaseInv, [Next]_vars, NEW x \in Turns
    PROVE  /\ Saved(x) => turn'[x].status # "absent" /\ turn'[x].thread = turn[x].thread
           /\ turn'[x].status # "absent" => Saved(x) \/ \E c \in Callers : SavesTurn(c)
<1>a. /\ DiskType /\ TaskType /\ turn[x] \in Record /\ MonitorsKnow /\ SteerersKnow
      /\ \A s \in Steerers : steerer[s].copy \in Record
      /\ \A y \in Turns : monitor[y].copy \in Record /\ monitor[y].status \in Terminal
    BY DEF BaseInv, Types, DiskType, TaskType, Records, SteererState, MonitorState
<1>1. ASSUME NEW c \in Callers, start_turn(c) PROVE UNCHANGED turn \/ SavesTurn(c)
    BY <1>1 DEF start_turn, FindsEngine, SpawnsEngine, InsertsEngine, ShutsDownEvicted,
       ChecksActive, RequestFails, Activates, SendsOp, disk
<1>2. ASSUME NEW c \in Callers, SavesTurn(c)
      PROVE  Saved(x) => turn'[x].status # "absent" /\ turn'[x].thread = turn[x].thread
    BY <1>2, <1>a DEF SavesTurn, Saved, Absent, DiskType
<1>3. ASSUME UNCHANGED turn
      PROVE  /\ Saved(x) => turn'[x].status # "absent" /\ turn'[x].thread = turn[x].thread
             /\ turn'[x].status # "absent" => Saved(x)
    BY <1>3 DEF Saved
<1>4. ASSUME NEW y \in Turns, NEW r \in Record, Saved(y), turn' = [turn EXCEPT ![y] = r],
             r.status # "absent", r.thread = turn[y].thread
      PROVE  /\ Saved(x) => turn'[x].status # "absent" /\ turn'[x].thread = turn[x].thread
             /\ turn'[x].status # "absent" => Saved(x)
    BY <1>4, <1>a DEF Saved, DiskType
<1>5. CASE Other
    <2>1. CASE \E t \in Threads, y \in Turns : interrupt_turn(t, y)
        BY <1>3, <2>1 DEF interrupt_turn, disk
    <2>2. ASSUME NEW s \in Steerers, steer_turn(s)
          PROVE  /\ Saved(x) => turn'[x].status # "absent" /\ turn'[x].thread = turn[x].thread
                 /\ turn'[x].status # "absent" => Saved(x)
        <3>1. CASE SteerSaves(s)
            <4> DEFINE y == steerer[s].turn r == steerer[s].copy
                       u == [r EXCEPT !.items = @ \cup {"steer"}]
            <4>1. /\ y \in Turns /\ Saved(y) /\ r \in Record
                  /\ r.status # "absent" /\ r.thread = turn[y].thread
                BY <1>a, <3>1 DEF SteerSaves, SteerersKnow
            <4>2. turn' = [turn EXCEPT ![y] = r] \/ turn' = [turn EXCEPT ![y] = u]
                BY <3>1 DEF SteerSaves
            <4> HIDE DEF y, r
            <4>3. u \in Record /\ u.status = r.status /\ u.thread = r.thread
                BY <4>1 DEF Record
            <4> HIDE DEF u
            <4> QED BY <1>4, <4>1, <4>2, <4>3
        <3>2. CASE ~SteerSaves(s)
            BY <1>3, <2>2, <3>2 DEF steer_turn, Steers, SteerLoads, disk
        <3> QED BY <3>1, <3>2
    <2>3. CASE \E e \in Engines : EngineActs(e) \/ EnginePanics(e)
        BY <1>3, <2>3 DEF EngineActs, TakesOp, StartsMessage, RunsOut, GivesUp, CompletesTurn,
           EnginePanics, EngineStep, disk
    <2>4. ASSUME NEW y \in Turns, MonitorActs(y) \/ MonitorFails(y)
          PROVE  /\ Saved(x) => turn'[x].status # "absent" /\ turn'[x].thread = turn[x].thread
                 /\ turn'[x].status # "absent" => Saved(x)
        <3> DEFINE r == monitor[y].copy
                   u == [r EXCEPT !.items = @ \cup {"message"}]
                   v == [r EXCEPT !.status = monitor[y].status]
        <3>1. CASE turn' = [turn EXCEPT ![y] = u] /\ monitor[y].pc = "attached"
            <4>1. Saved(y) /\ r \in Record /\ r.status # "absent" /\ r.thread = turn[y].thread
                BY <1>a, <3>1 DEF MonitorsKnow
            <4> HIDE DEF r
            <4>2. u \in Record /\ u.status = r.status /\ u.thread = r.thread
                BY <4>1 DEF Record
            <4> HIDE DEF u
            <4> QED BY <1>4, <3>1, <4>1, <4>2
        <3>2. CASE turn' = [turn EXCEPT ![y] = v] /\ monitor[y].pc = "save"
            <4>1. /\ Saved(y) /\ r \in Record /\ r.thread = turn[y].thread
                  /\ monitor[y].status \in Terminal
                BY <1>a, <3>2 DEF MonitorsKnow
            <4> HIDE DEF r
            <4>2. v \in Record /\ v.status # "absent" /\ v.thread = r.thread
                BY <4>1 DEF Record, Terminal
            <4> HIDE DEF v
            <4> QED BY <1>4, <3>2, <4>1, <4>2
        <3>3. \/ UNCHANGED turn
              \/ turn' = [turn EXCEPT ![y] = u] /\ monitor[y].pc = "attached"
              \/ turn' = [turn EXCEPT ![y] = v] /\ monitor[y].pc = "save"
            BY <2>4 DEF MonitorActs, MonitorFails, ReceivesEvent, ChannelCloses, Attaches, Decides,
               Settles, Finishes, Clears, Watches, disk
        <3> QED BY <1>3, <3>1, <3>2, <3>3
    <2>5. CASE \E y \in Turns : RecoversTurn(y)
        BY <1>a, <2>5 DEF RecoversTurn, Unfinished, Saved, DiskType
    <2>6. CASE RecoversItems \/ Recovered
        BY <1>3, <2>6 DEF RecoversItems, Recovered, disk
    <2> QED BY <1>5, <2>1, <2>2, <2>3, <2>4, <2>5, <2>6 DEF Other
<1>6. CASE Crash \/ UNCHANGED vars
    BY <1>3, <1>6 DEF Crash, vars, disk
<1> QED BY <1>1, <1>2, <1>3, <1>5, <1>6, StepKinds

LEMMA ThreadsKept ==
    ASSUME BaseInv, [Next]_vars
    PROVE  ThreadKnown'
<1> SUFFICES ASSUME NEW x \in Turns, turn'[x].status # "absent" PROVE turn'[x].thread \in Threads
    BY DEF ThreadKnown, Saved
<1>1. CASE Saved(x)
    BY <1>1, TurnsKept DEF BaseInv, Records, ThreadKnown
<1>2. CASE ~Saved(x)
    <2>1. PICK c \in Callers : SavesTurn(c)
        BY <1>2, TurnsKept
    <2> QED BY <1>2, <2>1 DEF SavesTurn, Saved, BaseInv, Types, DiskType, Record
<1> QED BY <1>1, <1>2

\* A monitor begins with the op that is sent, and never ends up as "none".
LEMMA OtherSteps ==
    ASSUME BaseInv, Other
    PROVE  /\ UNCHANGED <<caller, loaded>>
           /\ \A x \in Turns : (monitor'[x].pc = "none") <=> (monitor[x].pc = "none")
           /\ \A x \in Turns : monitor'[x].engine = monitor[x].engine
<1>a. monitor \in [Turns -> MonitorState]
    BY DEF BaseInv, Types, TaskType
<1>1. CASE UNCHANGED <<caller, loaded, monitor>>
    BY <1>1
<1>2. ASSUME NEW y \in Turns, MonitorActs(y) \/ MonitorFails(y)
      PROVE  /\ UNCHANGED <<caller, loaded>>
             /\ \E m \in [pc : MonitorPC \ {"none"}, engine : {monitor[y].engine}, status : Terminal, copy : Record] :
                   monitor' = [monitor EXCEPT ![y] = m]
             /\ monitor[y].pc # "none"
    <2>1. monitor[y].pc # "none" /\ UNCHANGED <<caller, loaded>>
        BY <1>2 DEF MonitorActs, MonitorFails, ReceivesEvent, ChannelCloses, Attaches, Decides,
           Settles, Finishes, Clears, Watches, requests, cache
    <2>2. monitor' \in [Turns -> MonitorState]
        BY <1>2, MonitorTypes DEF Types, TaskType
    <2>3. /\ monitor' = [monitor EXCEPT ![y] = monitor'[y]]
          /\ monitor'[y].pc # "none" /\ monitor'[y].engine = monitor[y].engine
        BY <1>2, <1>a, <2>2 DEF MonitorActs, MonitorFails, ReceivesEvent, ChannelCloses, Attaches, Decides,
           Settles, Finishes, Clears, Watches, MonitorGoes, MonitorState
    <2>4. monitor'[y] \in [pc : MonitorPC \ {"none"}, engine : {monitor[y].engine}, status : Terminal, copy : Record]
        BY <2>2, <2>3 DEF MonitorState
    <2> QED BY <2>1, <2>3, <2>4
<1>3. CASE \E y \in Turns : MonitorActs(y) \/ MonitorFails(y)
    BY <1>2, <1>3, <1>a
<1>4. CASE ~\E y \in Turns : MonitorActs(y) \/ MonitorFails(y)
    BY <1>1, <1>4 DEF Other, interrupt_turn, steer_turn, Steers, SteerLoads, SteerSaves, EngineActs,
       TakesOp, StartsMessage, RunsOut, GivesUp, CompletesTurn, EnginePanics, EngineStep,
       RecoversTurn, RecoversItems, Recovered, requests, cache
<1> QED BY <1>3, <1>4

LEMMA CallersKept ==
    ASSUME BaseInv, [Next]_vars
    PROVE  CallersKnow'
<1>a. /\ CallersKnow /\ ThreadKnown /\ MonitorsKnow
      /\ caller \in [Callers -> CallerState] /\ monitor \in [Turns -> MonitorState]
      /\ turn \in [Turns -> Record] /\ loaded \in [Threads -> Engines \cup {NoEngine}]
    BY DEF BaseInv, Records, Types, TaskType, DiskType, CacheType
<1>t. \A x \in Turns : Saved(x) => turn'[x].status # "absent" /\ turn'[x].thread = turn[x].thread
    BY TurnsKept
<1>1. CASE UNCHANGED caller /\ \A x \in Turns : (monitor'[x].pc = "none") <=> (monitor[x].pc = "none")
    BY <1>1, <1>a, <1>t DEF CallersKnow, Claiming, Saved
<1>2. ASSUME NEW c \in Callers, NEW r \in CallerState, caller' = [caller EXCEPT ![c] = r],
             r.pc # "idle" => r.engine \in Engines, UNCHANGED monitor,
             r.pc \in {"activate", "send"} =>
                 r.turn = caller[c].turn /\ caller[c].pc \in {"activate", "send"}
      PROVE  CallersKnow'
    <2>1. \A d \in Callers : caller'[d] = IF d = c THEN r ELSE caller[d]
        BY <1>2, <1>a
    <2>2. Claiming' \subseteq Claiming /\ \A d \in Claiming' : caller'[d].turn = caller[d].turn
        BY <1>2, <2>1 DEF Claiming
    <2>3. \A d \in Callers : caller'[d].pc # "idle" => caller'[d].engine \in Engines
        BY <1>2, <1>a, <2>1 DEF CallersKnow
    <2>4. ASSUME NEW d \in Claiming'
          PROVE  /\ caller'[d].turn \in Turns /\ turn'[caller'[d].turn].status # "absent"
                 /\ turn'[caller'[d].turn].thread = CallerThread[d]
                 /\ monitor'[caller'[d].turn].pc = "none"
                 /\ \A f \in Claiming' : caller'[f].turn = caller'[d].turn => f = d
        BY <1>2, <1>a, <1>t, <2>2 DEF CallersKnow
    <2> QED BY <2>3, <2>4 DEF CallersKnow, Saved
<1>3. ASSUME NEW c \in Callers, start_turn(c) PROVE CallersKnow'
    <2>a. /\ caller[c] \in CallerState /\ caller' \in [Callers -> CallerState]
          /\ CallerThread[c] \in Threads
        BY <1>3, <1>a, StartTypes DEF Types, TaskType
    <2>1. CASE SavesTurn(c)
        <3>1. PICK x \in Turns :
                  /\ turn[x] = Absent /\ UNCHANGED monitor
                  /\ turn' = [turn EXCEPT ![x].status = "InProgress", ![x].thread = CallerThread[c]]
                  /\ caller' = [caller EXCEPT ![c].pc = "activate", ![c].turn = x]
            BY <2>1 DEF SavesTurn
        <3>2. ~Saved(x) /\ monitor[x].pc = "none" /\ caller[c].engine \in Engines
            BY <1>a, <2>1, <3>1 DEF Saved, Absent, MonitorsKnow, CallersKnow, SavesTurn, Serving
        <3>3. \A d \in Claiming : caller[d].turn # x
            BY <1>a, <3>2 DEF CallersKnow
        <3>4. /\ caller'[c].turn = x /\ caller'[c].pc = "activate"
              /\ caller'[c].engine = caller[c].engine
              /\ \A d \in Callers \ {c} : caller'[d] = caller[d]
              /\ turn'[x].status = "InProgress" /\ turn'[x].thread = CallerThread[c]
            BY <1>a, <2>a, <3>1 DEF CallerState, Record
        <3>5. Claiming' = Claiming \cup {c} /\ c \notin Claiming
            <4>1. c \notin Claiming /\ c \in Claiming'
                BY <2>1, <3>4 DEF Claiming, SavesTurn, Serving
            <4>2. \A d \in Callers \ {c} : d \in Claiming' <=> d \in Claiming
                BY <3>4 DEF Claiming
            <4>3. Claiming \subseteq Callers /\ Claiming' \subseteq Callers
                BY DEF Claiming
            <4> QED BY <4>1, <4>2, <4>3
        <3>6. \A d \in Callers : caller'[d].pc # "idle" => caller'[d].engine \in Engines
            BY <1>a, <3>2, <3>4 DEF CallersKnow
        <3>7. ASSUME NEW d \in Claiming'
              PROVE  /\ caller'[d].turn \in Turns /\ turn'[caller'[d].turn].status # "absent"
                     /\ turn'[caller'[d].turn].thread = CallerThread[d]
                     /\ monitor'[caller'[d].turn].pc = "none"
                     /\ \A f \in Claiming' : caller'[f].turn = caller'[d].turn => f = d
            <4>1. CASE d = c
                <5>1. ASSUME NEW f \in Claiming', caller'[f].turn = x PROVE f = c
                    <6>1. SUFFICES ASSUME f # c PROVE FALSE
                        OBVIOUS
                    <6>2. f \in Claiming /\ f \in Callers /\ caller'[f] = caller[f]
                        BY <3>4, <3>5, <5>1, <6>1 DEF Claiming
                    <6> QED BY <3>3, <5>1, <6>2
                <5>2. monitor'[x].pc = "none" /\ turn'[x].status # "absent"
                    BY <3>1, <3>2, <3>4
                <5> QED BY <3>4, <4>1, <5>1, <5>2
            <4>2. CASE d # c
                <5>1. d \in Claiming /\ d \in Callers /\ caller'[d] = caller[d]
                    BY <3>4, <3>5, <3>7, <4>2 DEF Claiming
                <5>2. caller[d].turn \in Turns /\ Saved(caller[d].turn) /\ turn[caller[d].turn].thread = CallerThread[d]
                      /\ monitor[caller[d].turn].pc = "none"
                    BY <1>a, <5>1 DEF CallersKnow
                <5>3. ASSUME NEW f \in Claiming', caller'[f].turn = caller'[d].turn PROVE f = d
                    <6>1. f # c
                        BY <3>3, <3>4, <5>1, <5>3
                    <6>2. f \in Claiming /\ caller'[f] = caller[f]
                        BY <3>4, <3>5, <5>3, <6>1 DEF Claiming
                    <6> QED BY <1>a, <5>1, <5>3, <6>2 DEF CallersKnow
                <5> QED BY <1>t, <3>1, <5>1, <5>2, <5>3
            <4> QED BY <4>1, <4>2
        <3> QED BY <3>6, <3>7 DEF CallersKnow, Saved
    <2>2. CASE SendsOp(c)
        <3> DEFINE x == caller[c].turn
        <3>1. x \in Turns /\ c \in Claiming /\ \A d \in Claiming : caller[d].turn = x => d = c
            BY <1>a, <2>2 DEF CallersKnow, SendsOp, Serving, Claiming
        <3>2. /\ caller' = [caller EXCEPT ![c] = Idle]
              /\ \A y \in Turns \ {x} : monitor'[y] = monitor[y]
            BY <1>a, <2>2, <3>1 DEF SendsOp, Returns
        <3>3. caller'[c] = Idle /\ \A d \in Callers \ {c} : caller'[d] = caller[d]
            BY <1>a, <3>2
        <3>4. Claiming' = Claiming \ {c}
            BY <3>3 DEF Claiming, Idle
        <3>5. \A d \in Callers : caller'[d].pc # "idle" => caller'[d].engine \in Engines
            BY <1>a, <3>3 DEF CallersKnow, Idle
        <3>6. ASSUME NEW d \in Claiming'
              PROVE  /\ caller'[d].turn \in Turns /\ turn'[caller'[d].turn].status # "absent"
                     /\ turn'[caller'[d].turn].thread = CallerThread[d]
                     /\ monitor'[caller'[d].turn].pc = "none"
                     /\ \A f \in Claiming' : caller'[f].turn = caller'[d].turn => f = d
            <4>1. /\ d \in Claiming /\ d \in Callers /\ d # c /\ caller'[d] = caller[d]
                  /\ \A f \in Claiming' : f \in Claiming /\ caller'[f] = caller[f]
                BY <3>3, <3>4 DEF Claiming
            <4>2. caller[d].turn # x
                BY <3>1, <4>1
            <4> HIDE DEF x
            <4> QED BY <1>a, <1>t, <3>2, <4>1, <4>2 DEF CallersKnow
        <3> QED BY <3>5, <3>6 DEF CallersKnow, Saved
    <2>3. CASE \/ FindsEngine(c) \/ SpawnsEngine(c) \/ InsertsEngine(c) \/ ShutsDownEvicted(c)
               \/ ChecksActive(c) \/ RequestFails(c) \/ Activates(c)
        <3>1. /\ caller' = [caller EXCEPT ![c] = caller'[c]] /\ UNCHANGED monitor
              /\ caller'[c].pc # "idle" => caller'[c].engine \in Engines
              /\ caller'[c].pc \in {"activate", "send"} =>
                    caller'[c].turn = caller[c].turn /\ caller[c].pc \in {"activate", "send"}
            BY <2>3, <1>a, <2>a DEF FindsEngine, SpawnsEngine, InsertsEngine, ShutsDownEvicted,
               ChecksActive, RequestFails, Activates, Returns, Goes, Serving, Idle, CallersKnow, CallerState
        <3> QED BY <1>2, <2>a, <3>1
    <2> QED BY <1>3, <2>1, <2>2, <2>3 DEF start_turn
<1>4. CASE Crash
    BY <1>4 DEF Crash, CallersKnow, Claiming, Idle
<1> QED BY <1>1, <1>3, <1>4, StepKinds, OtherSteps DEF vars, requests

LEMMA MonitorsKept ==
    ASSUME BaseInv, [Next]_vars
    PROVE  MonitorsKnow'
<1>a. /\ CallersKnow /\ MonitorsKnow /\ monitor \in [Turns -> MonitorState] /\ turn \in [Turns -> Record]
    BY DEF BaseInv, Records, Types, TaskType, DiskType
<1>t. \A x \in Turns : Saved(x) => turn'[x].status # "absent" /\ turn'[x].thread = turn[x].thread
    BY TurnsKept
<1>1. ASSUME UNCHANGED monitor PROVE MonitorsKnow'
    BY <1>1, <1>a, <1>t DEF MonitorsKnow, Saved
<1>2. ASSUME NEW y \in Turns, NEW m \in MonitorState, monitor' = [monitor EXCEPT ![y] = m],
             Saved(y), m.engine \in Engines,
             m.pc \in {"attached", "save"} =>
                 m.copy.status # "absent" /\ m.copy.thread = turn[y].thread
      PROVE  MonitorsKnow'
    BY <1>2, <1>a, <1>t DEF MonitorsKnow, Saved
<1>3. ASSUME NEW c \in Callers, start_turn(c) PROVE MonitorsKnow'
    <2>1. CASE SendsOp(c)
        <3> DEFINE x == caller[c].turn m == [monitor[x] EXCEPT !.pc = "wait", !.engine = caller[c].engine]
        <3>1. x \in Turns /\ Saved(x) /\ caller[c].engine \in Engines
            BY <1>a, <2>1 DEF CallersKnow, SendsOp, Serving, Claiming
        <3>2. UNCHANGED monitor \/ monitor' = [monitor EXCEPT ![x] = m]
            BY <2>1 DEF SendsOp
        <3> HIDE DEF x
        <3>3. monitor[x] \in MonitorState
            BY <1>a, <3>1
        <3>4. m \in MonitorState /\ m.engine \in Engines /\ m.pc = "wait"
            BY <3>1, <3>3 DEF MonitorState, MonitorPC
        <3> HIDE DEF m
        <3> QED BY <1>1, <1>2, <3>1, <3>2, <3>4
    <2>2. CASE ~SendsOp(c)
        BY <1>1, <1>3, <2>2 DEF start_turn, FindsEngine, SpawnsEngine, InsertsEngine, ShutsDownEvicted,
           ChecksActive, SavesTurn, RequestFails, Activates
    <2> QED BY <2>1, <2>2
<1>4. ASSUME NEW y \in Turns, MonitorActs(y) \/ MonitorFails(y) PROVE MonitorsKnow'
    <2> DEFINE m == monitor'[y]
    <2>1. monitor[y].pc # "none" /\ monitor'[y].pc # "none" /\ monitor[y].engine \in Engines /\ Saved(y)
          /\ m.engine = monitor[y].engine
        <3>1. monitor[y].pc # "none"
            BY <1>4 DEF MonitorActs, MonitorFails, ReceivesEvent, ChannelCloses, Attaches, Decides,
               Settles, Finishes, Clears, Watches
        <3> QED BY <1>4, <1>a, <3>1, OtherSteps DEF Other, MonitorsKnow
    <2>2. monitor' = [monitor EXCEPT ![y] = m] /\ m \in MonitorState
        <3>1. monitor' \in [Turns -> MonitorState]
            BY <1>4, MonitorTypes DEF Types, TaskType
        <3> QED BY <1>4, <1>a, <3>1 DEF MonitorActs, MonitorFails, ReceivesEvent, ChannelCloses, Attaches,
           Decides, Settles, Finishes, Clears, Watches, MonitorGoes
    <2>3. m.pc \in {"attached", "save"} => m.copy = turn[y]
        BY <1>4, <1>a DEF MonitorActs, MonitorFails, ReceivesEvent, ChannelCloses, Attaches, Decides,
           Settles, Finishes, Clears, Watches, MonitorGoes, MonitorState
    <2> HIDE DEF m
    <2> QED BY <1>2, <2>1, <2>2, <2>3 DEF Saved
<1>5. CASE Other
    <2>1. CASE \E y \in Turns : MonitorActs(y) \/ MonitorFails(y)
        BY <1>4, <2>1
    <2>2. CASE ~\E y \in Turns : MonitorActs(y) \/ MonitorFails(y)
        BY <1>1, <1>5, <2>2 DEF Other, interrupt_turn, steer_turn, Steers, SteerLoads, SteerSaves,
           EngineActs, TakesOp, StartsMessage, RunsOut, GivesUp, CompletesTurn, EnginePanics,
           EngineStep, RecoversTurn, RecoversItems, Recovered
    <2> QED BY <2>1, <2>2
<1>6. CASE Crash
    BY <1>6 DEF Crash, MonitorsKnow, NoMonitor
<1> QED BY <1>1, <1>3, <1>5, <1>6, StepKinds DEF vars

LEMMA SteerersKept ==
    ASSUME BaseInv, [Next]_vars
    PROVE  SteerersKnow'
<1>a. /\ SteerersKnow /\ ActiveKnown /\ steerer \in [Steerers -> SteererState] /\ turn \in [Turns -> Record]
    BY DEF BaseInv, Records, Types, TaskType, DiskType
<1>t. \A x \in Turns : Saved(x) => turn'[x].status # "absent" /\ turn'[x].thread = turn[x].thread
    BY TurnsKept
<1>1. ASSUME UNCHANGED steerer PROVE SteerersKnow'
    BY <1>1, <1>a, <1>t DEF SteerersKnow, Saved
<1>2. ASSUME NEW s \in Steerers, NEW m \in SteererState, steerer' = [steerer EXCEPT ![s] = m],
             m.pc # "idle" => m.turn \in Turns /\ Saved(m.turn),
             m.pc \in {"save", "again"} =>
                 m.copy.status # "absent" /\ m.copy.thread = turn[m.turn].thread
      PROVE  SteerersKnow'
    BY <1>2, <1>a, <1>t DEF SteerersKnow, Saved
<1>3. ASSUME NEW s \in Steerers, steer_turn(s) PROVE SteerersKnow'
    <2>1. steerer' \in [Steerers -> SteererState] /\ steerer[s] \in SteererState
        BY <1>3, <1>a, SteerTypes DEF Types, TaskType
    <2>2. ASSUME NEW t \in Threads, NEW x \in Turns, Steers(s, t, x) PROVE SteerersKnow'
        <3>1. /\ steerer' = [steerer EXCEPT ![s] = steerer'[s]] /\ steerer'[s].pc = "load"
              /\ steerer'[s].turn = x
            <4>1. steerer' = [steerer EXCEPT ![s] = [steerer[s] EXCEPT !.pc = "load", !.turn = x]]
                BY <2>2 DEF Steers
            <4>2. steerer'[s] = [steerer[s] EXCEPT !.pc = "load", !.turn = x]
                BY <1>a, <2>1, <4>1
            <4> QED BY <2>1, <4>1, <4>2 DEF SteererState
        <3>2. Saved(x)
            BY <1>a, <2>2 DEF Steers, ActiveKnown
        <3> QED BY <1>2, <2>1, <3>1, <3>2
    <2>3. CASE SteerLoads(s)
        <3>1. /\ steerer' = [steerer EXCEPT ![s] = steerer'[s]] /\ steerer'[s].pc = "save"
              /\ steerer'[s].turn = steerer[s].turn /\ steerer'[s].copy = turn[steerer[s].turn]
              /\ steerer[s].pc # "idle"
            BY <1>a, <2>1, <2>3 DEF SteerLoads, SteererState
        <3>2. steerer[s].turn \in Turns /\ Saved(steerer[s].turn)
            BY <1>a, <3>1 DEF SteerersKnow
        <3> QED BY <1>2, <2>1, <3>1, <3>2 DEF Saved
    <2>4. CASE SteerSaves(s)
        <3>1. \/ /\ steerer' = [steerer EXCEPT ![s] = steerer'[s]] /\ steerer'[s].pc = "again"
                 /\ steerer'[s].turn = steerer[s].turn /\ steerer'[s].copy = steerer[s].copy
                 /\ steerer[s].pc = "save"
              \/ steerer' = [steerer EXCEPT ![s] = steerer'[s]] /\ steerer'[s].pc = "idle"
            BY <1>a, <2>1, <2>4 DEF SteerSaves, SteererState, NoSteer
        <3>2. steerer[s].pc = "save" => /\ steerer[s].turn \in Turns /\ Saved(steerer[s].turn)
                                        /\ steerer[s].copy.status # "absent"
                                        /\ steerer[s].copy.thread = turn[steerer[s].turn].thread
            BY <1>a DEF SteerersKnow
        <3> QED BY <1>2, <2>1, <3>1, <3>2
    <2> QED BY <1>3, <2>2, <2>3, <2>4 DEF steer_turn
<1>4. CASE ~(\E s \in Steerers : steer_turn(s)) /\ ~Crash
    BY <1>1, <1>4 DEF Next, vars, requests, start_turn, FindsEngine, SpawnsEngine, InsertsEngine,
       ShutsDownEvicted, ChecksActive, SavesTurn, RequestFails, Activates, SendsOp, interrupt_turn,
       EngineActs, TakesOp, StartsMessage, RunsOut, GivesUp, CompletesTurn, EnginePanics, EngineStep,
       MonitorActs, MonitorFails, ReceivesEvent, ChannelCloses, Attaches, Decides, Settles, Finishes,
       Clears, RecoversTurn, RecoversItems, Recovered
<1>5. CASE Crash
    BY <1>5 DEF Crash, SteerersKnow, NoSteer
<1> QED BY <1>3, <1>4, <1>5

\* The step of one active_turn, or of none.
LEMMA ActiveSteps ==
    ASSUME BaseInv, [Next]_vars, NEW t \in Threads
    PROVE  \/ /\ active'[t].turn = active[t].turn
              /\ active[t].interrupt => active'[t].interrupt
           \/ /\ active'[t].turn = NoTurn
              /\ \/ \E c \in Callers : InsertsEngine(c) /\ t = CallerThread[c]
                 \/ \E x \in Turns : Clears(x) /\ active[t].turn = x
                 \/ Crash
           \/ \E c \in Callers : Activates(c) /\ t = CallerThread[c] /\ active'[t].turn = caller[c].turn
<1>a. /\ active \in [Threads -> ActiveState] /\ monitor \in [Turns -> MonitorState]
    BY DEF BaseInv, Types, CacheType, TaskType
<1>1. ASSUME NEW c \in Callers, start_turn(c)
      PROVE  \/ active'[t] = active[t]
             \/ active'[t].turn = NoTurn /\ InsertsEngine(c) /\ t = CallerThread[c]
             \/ Activates(c) /\ t = CallerThread[c] /\ active'[t].turn = caller[c].turn
    <2> DEFINE u == CallerThread[c]
    <2>1. CASE InsertsEngine(c)
        <3>1. active' = [active EXCEPT ![u] = Inactive]
            BY <2>1 DEF InsertsEngine
        <3> QED BY <1>a, <2>1, <3>1 DEF Inactive
    <2>2. CASE Activates(c)
        <3>1. active' = active \/ active' = [active EXCEPT ![u] = [turn |-> caller[c].turn, interrupt |-> FALSE]]
            BY <2>2 DEF Activates
        <3> QED BY <1>a, <2>2, <3>1
    <2>3. CASE ~InsertsEngine(c) /\ ~Activates(c)
        BY <1>1, <2>3 DEF start_turn, FindsEngine, SpawnsEngine, ShutsDownEvicted,
           ChecksActive, SavesTurn, RequestFails, SendsOp, cache
    <2> QED BY <2>1, <2>2, <2>3
<1>2. ASSUME NEW u \in Threads, NEW x \in Turns, interrupt_turn(u, x)
      PROVE  /\ active'[t].turn = active[t].turn
             /\ active[t].interrupt => active'[t].interrupt
    BY <1>2, <1>a DEF interrupt_turn, ActiveState
<1>3. ASSUME NEW x \in Turns, Clears(x)
      PROVE  \/ active'[t] = active[t]
             \/ active'[t].turn = NoTurn /\ active[t].turn = x
    <2>1. CASE active[turn[x].thread].turn = x /\ turn[x].thread = t
        <3>1. active' = [active EXCEPT ![t] = Inactive]
            BY <1>3, <2>1 DEF Clears
        <3>2. active'[t].turn = NoTurn
            BY <1>a, <3>1 DEF Inactive
        <3> QED BY <2>1, <3>2
    <2>2. CASE ~(active[turn[x].thread].turn = x /\ turn[x].thread = t)
        <3>1. active' = active \/ active' = [active EXCEPT ![turn[x].thread] = Inactive]
            BY <1>3 DEF Clears
        <3>2. active[turn[x].thread].turn # x => active' = active
            BY <1>3 DEF Clears
        <3>3. active'[t] = active[t]
            BY <1>a, <2>2, <3>1, <3>2
        <3> QED BY <3>3
    <2> QED BY <2>1, <2>2
<1>4. ASSUME Crash PROVE active'[t].turn = NoTurn
    BY <1>4 DEF Crash, Inactive
<1>5. CASE ~(\E c \in Callers : start_turn(c)) /\ ~(\E u \in Threads, x \in Turns : interrupt_turn(u, x))
           /\ ~(\E x \in Turns : Clears(x)) /\ ~Crash
    BY <1>5 DEF Next, vars, cache, steer_turn, Steers, SteerLoads, SteerSaves,
       EngineActs, TakesOp, StartsMessage, RunsOut, GivesUp, CompletesTurn, EnginePanics, EngineStep,
       MonitorActs, MonitorFails, ReceivesEvent, ChannelCloses, Attaches, Decides, Settles, Finishes,
       RecoversTurn, RecoversItems, Recovered
<1> QED BY <1>1, <1>2, <1>3, <1>4, <1>5

LEMMA ActiveKept ==
    ASSUME BaseInv, [Next]_vars
    PROVE  ActiveKnown'
<1>a. /\ CallersKnow /\ ActiveKnown /\ active \in [Threads -> ActiveState]
    BY DEF BaseInv, Records, Types, CacheType
<1>t. \A x \in Turns : Saved(x) => turn'[x].status # "absent" /\ turn'[x].thread = turn[x].thread
    BY TurnsKept
<1>1. ASSUME NEW t \in Threads, active'[t].turn # NoTurn
      PROVE  turn'[active'[t].turn].status # "absent" /\ turn'[active'[t].turn].thread = t
    <2>1. CASE active'[t].turn = active[t].turn
        <3>1. active[t].turn \in Turns
            BY <1>1, <1>a, <2>1 DEF ActiveState
        <3> QED BY <1>1, <1>a, <1>t, <2>1, <3>1 DEF ActiveKnown
    <2>2. CASE \E c \in Callers : Activates(c) /\ t = CallerThread[c] /\ active'[t].turn = caller[c].turn
        BY <1>a, <1>t, <2>2 DEF Activates, CallersKnow, Serving, Claiming
    <2> QED BY <1>1, <2>1, <2>2, ActiveSteps
<1>2. phase' = "items" => repairing' \in Turns
    <2>1. CASE UNCHANGED <<phase, repairing>>
        BY <1>a, <2>1 DEF ActiveKnown
    <2>2. CASE \E x \in Turns : RecoversTurn(x)
        BY <2>2 DEF RecoversTurn
    <2>3. CASE RecoversItems \/ Recovered \/ Crash \/ UNCHANGED vars
        BY <1>a, <2>3 DEF RecoversItems, Recovered, Crash, ActiveKnown, vars
    <2>4. ASSUME NEW c \in Callers, start_turn(c) PROVE UNCHANGED <<phase, repairing>>
        BY <2>4 DEF start_turn, FindsEngine, SpawnsEngine, InsertsEngine, ShutsDownEvicted, ChecksActive,
           SavesTurn, RequestFails, Activates, SendsOp
    <2>5. ASSUME NEW x \in Turns, MonitorActs(x) \/ MonitorFails(x) PROVE UNCHANGED <<phase, repairing>>
        BY <2>5 DEF MonitorActs, MonitorFails, ReceivesEvent, ChannelCloses, Attaches, Decides, Settles,
           Finishes, Clears
    <2>6. ASSUME NEW e \in Engines, EngineActs(e) \/ EnginePanics(e) PROVE UNCHANGED <<phase, repairing>>
        BY <2>6 DEF EngineActs, TakesOp, StartsMessage, RunsOut, GivesUp, CompletesTurn, EnginePanics,
           EngineStep
    <2>7. CASE \/ \E t \in Threads, x \in Turns : interrupt_turn(t, x)
               \/ \E s \in Steerers : steer_turn(s)
        BY <1>a, <2>7 DEF interrupt_turn, steer_turn, Steers, SteerLoads, SteerSaves, ActiveKnown
    <2> QED BY <2>1, <2>2, <2>3, <2>4, <2>5, <2>6, <2>7 DEF Next
<1> QED BY <1>1, <1>2 DEF ActiveKnown, Saved

-----------------------------------------------------------------------------
(* The cache and its list.                                                 *)

LEMMA ListKept ==
    ASSUME BaseInv, [Next]_vars
    PROVE  ListCovers'
<1>a. /\ Lists(lru) /\ Loaded \subseteq Range(lru) /\ loaded \in [Threads -> Engines \cup {NoEngine}]
      /\ \A c \in Callers : CallerThread[c] \in Threads
      /\ MonitorsKnow /\ ThreadKnown
    BY DEF BaseInv, Types, CacheType, ListCovers, Records
<1>1. ASSUME NEW t \in Threads, lru' = touch_lru(lru, t), UNCHANGED loaded PROVE ListCovers'
    BY <1>1, <1>a, TouchLists DEF ListCovers, Loaded
<1>2. ASSUME NEW c \in Callers, InsertsEngine(c) PROVE ListCovers'
    <2> DEFINE after == AfterEviction t == CallerThread[c]
    <2>1. /\ Lists(after.lru)
          /\ \/ after.lru = lru /\ after.loaded = loaded
             \/ \E u \in Threads : /\ Range(after.lru) = Range(lru) \ {u}
                                   /\ after.loaded = [loaded EXCEPT ![u] = NoEngine]
        BY <1>a, EvictionLists
    <2>2. /\ loaded' = [after.loaded EXCEPT ![t] = caller[c].engine]
          /\ lru' = touch_lru(after.lru, t) /\ t \in Threads
        BY <1>2, <1>a DEF InsertsEngine
    <2> HIDE DEF after, t
    <2>3. \A u \in Threads : after.loaded[u] # NoEngine => u \in Range(after.lru)
        BY <1>a, <2>1 DEF Loaded
    <2>4. Lists(lru') /\ Range(lru') = Range(after.lru) \cup {t}
        BY <2>1, <2>2, TouchLists
    <2>5. DOMAIN after.loaded = Threads
        BY <1>a, <2>1
    <2> QED BY <2>2, <2>3, <2>4, <2>5 DEF ListCovers, Loaded
<1>3. ASSUME NEW c \in Callers, start_turn(c) PROVE ListCovers'
    <2>1. CASE UNCHANGED <<loaded, lru>>
        BY <1>a, <2>1 DEF ListCovers, Loaded
    <2>2. \/ UNCHANGED <<loaded, lru>> \/ InsertsEngine(c)
          \/ lru' = touch_lru(lru, CallerThread[c]) /\ UNCHANGED loaded
        BY <1>3 DEF start_turn, FindsEngine, SpawnsEngine, ShutsDownEvicted,
           ChecksActive, SavesTurn, RequestFails, Activates, SendsOp, cache
    <2> QED BY <1>1, <1>2, <1>a, <2>1, <2>2
<1>4. CASE Crash
    BY <1>4 DEF Crash, ListCovers, Loaded, Lists, IsInjective, Range
<1>5. CASE Other
    <2>1. \/ UNCHANGED <<loaded, lru>>
          \/ \E t \in Threads : lru' = touch_lru(lru, t) /\ UNCHANGED loaded
        <3>1. ASSUME NEW x \in Turns, Clears(x)
              PROVE  turn[x].thread \in Threads /\ lru' = touch_lru(lru, turn[x].thread) /\ UNCHANGED loaded
            BY <1>a, <3>1 DEF Clears, Watches, MonitorsKnow, ThreadKnown
        <3> QED BY <1>5, <3>1 DEF Other, interrupt_turn, steer_turn, Steers, SteerLoads, SteerSaves,
               EngineActs, TakesOp, StartsMessage, RunsOut, GivesUp, CompletesTurn, EnginePanics,
               EngineStep, MonitorActs, MonitorFails, ReceivesEvent, ChannelCloses, Attaches, Decides,
               Settles, Finishes, RecoversTurn, RecoversItems, Recovered, cache
    <2> QED BY <1>1, <1>a, <2>1 DEF ListCovers, Loaded
<1> QED BY <1>3, <1>4, <1>5, <1>a, StepKinds DEF vars, cache, ListCovers, Loaded

LEMMA TypesStep ==
    ASSUME BaseInv, [Next]_vars
    PROVE  Types'
<1>1. CASE UNCHANGED vars
    BY <1>1, TypesKept, TypesFrom DEF BaseInv, vars, cache, requests, disk, history
<1> QED BY <1>1, StartTypes, InterruptTypes, SteerTypes, EngineTypes, MonitorTypes, RecoveryTypes DEF Next

LEMMA BaseStep == BaseInv /\ [Next]_vars => BaseInv'
BY TypesStep, ListKept, CallersKept, MonitorsKept, SteerersKept, ActiveKept, ThreadsKept
   DEF BaseInv, Records

\* Values keep their types, and a request, a monitor or a steer only ever works
\* on a turn that is on disk, and saves it with the thread it has.
THEOREM BaseIsInvariant == Spec => []BaseInv
BY InitBase, BaseStep, PTL DEF Spec

\* Whatever finds, loads, touches and evicts engines, in whatever order: the
\* list holds each loaded thread, and none twice (LruCoversLoaded).
THEOREM LruCovers == Spec => []LruCoversLoaded
<1>1. BaseInv => LruCoversLoaded
    BY DEF BaseInv, ListCovers, Lists, LruCoversLoaded, IsInjective
<1> QED BY <1>1, BaseIsInvariant, PTL

-----------------------------------------------------------------------------
(* Who moves what.                                                         *)

LEMMA CallerSteps ==
    ASSUME BaseInv, [Next]_vars, NEW c \in Callers
    PROVE  caller'[c] = caller[c] \/ start_turn(c) \/ Crash
<1>1. ASSUME NEW d \in Callers, d # c, start_turn(d) PROVE caller'[c] = caller[c]
    <2>a. caller \in [Callers -> CallerState]
        BY DEF BaseInv, Types, TaskType
    <2> QED BY <1>1, <2>a DEF start_turn, FindsEngine, SpawnsEngine, InsertsEngine, ShutsDownEvicted,
           ChecksActive, SavesTurn, RequestFails, Activates, SendsOp, Returns, Goes
<1> QED BY <1>1, StepKinds, OtherSteps DEF vars, requests

LEMMA MonitorSteps ==
    ASSUME BaseInv, [Next]_vars, NEW x \in Turns
    PROVE  \/ monitor'[x] = monitor[x]
           \/ MonitorActs(x) \/ MonitorFails(x) \/ Crash
           \/ \E c \in Callers :
                 /\ SendsOp(c) /\ caller[c].turn = x /\ engine[caller[c].engine].st = "up"
                 /\ monitor[x].pc = "none"
                 /\ monitor' = [monitor EXCEPT ![x].pc = "wait", ![x].engine = caller[c].engine]
<1>a. monitor \in [Turns -> MonitorState] /\ CallersKnow
    BY DEF BaseInv, Types, TaskType, Records
<1>1. ASSUME NEW c \in Callers, start_turn(c)
      PROVE  \/ monitor'[x] = monitor[x]
             \/ /\ SendsOp(c) /\ caller[c].turn = x /\ engine[caller[c].engine].st = "up"
                /\ monitor[x].pc = "none"
                /\ monitor' = [monitor EXCEPT ![x].pc = "wait", ![x].engine = caller[c].engine]
    <2>1. CASE SendsOp(c)
        <3>1. caller[c].turn \in Turns /\ monitor[caller[c].turn].pc = "none"
            BY <1>a, <2>1 DEF SendsOp, Serving, CallersKnow, Claiming
        <3> QED BY <1>a, <2>1, <3>1 DEF SendsOp
    <2>2. CASE ~SendsOp(c)
        BY <1>1, <2>2 DEF start_turn, FindsEngine, SpawnsEngine, InsertsEngine, ShutsDownEvicted,
           ChecksActive, SavesTurn, RequestFails, Activates
    <2> QED BY <2>1, <2>2
<1>2. ASSUME NEW y \in Turns, y # x, MonitorActs(y) \/ MonitorFails(y)
      PROVE  monitor'[x] = monitor[x]
    BY <1>2, <1>a DEF MonitorActs, MonitorFails, ReceivesEvent, ChannelCloses, Attaches, Decides,
       Settles, Finishes, Clears, MonitorGoes
<1>3. CASE Other /\ ~\E y \in Turns : MonitorActs(y) \/ MonitorFails(y)
    BY <1>3 DEF Other, interrupt_turn, steer_turn, Steers, SteerLoads, SteerSaves,
       EngineActs, TakesOp, StartsMessage, RunsOut, GivesUp, CompletesTurn, EnginePanics,
       EngineStep, RecoversTurn, RecoversItems, Recovered
<1> QED BY <1>1, <1>2, <1>3, StepKinds DEF vars

\* What one step of a monitor does to its own state and to its turn.
LEMMA MonitorMoves ==
    ASSUME BaseInv, NEW x \in Turns, MonitorActs(x) \/ MonitorFails(x)
    PROVE  LET m == monitor[x] n == monitor'[x] IN
           /\ n.engine = m.engine
           /\ \/ /\ m.pc = "wait" /\ n.pc \in {"attach", "decide"} /\ UNCHANGED turn /\ n.copy = m.copy
              \/ /\ m.pc = "attach" /\ n.pc = "attached" /\ n.copy = turn[x] /\ UNCHANGED turn
              \/ /\ m.pc = "attached" /\ n.pc = "wait" /\ n.copy = m.copy
                 /\ turn' = [turn EXCEPT ![x] = [m.copy EXCEPT !.items = @ \cup {"message"}]]
              \/ /\ m.pc = "decide" /\ n.pc = "settle" /\ UNCHANGED turn /\ n.copy = m.copy
              \/ /\ m.pc = "settle" /\ n.pc = "load" /\ UNCHANGED turn /\ n.copy = m.copy
              \/ /\ m.pc = "load" /\ n.pc = "save" /\ n.copy = turn[x] /\ UNCHANGED turn
              \/ /\ m.pc = "save" /\ n.pc = "clear" /\ n.copy = m.copy
                 /\ turn' = [turn EXCEPT ![x] = [m.copy EXCEPT !.status = m.status]]
              \/ /\ m.pc # "none" /\ n.pc = "gone" /\ UNCHANGED turn /\ n.copy = m.copy
           /\ m.pc \notin {"wait", "decide"} => n.status = m.status
           /\ phase = "up" /\ UNCHANGED <<phase, caller, steerer, outcome, asked, loaded>>
<1>a. monitor \in [Turns -> MonitorState] /\ monitor[x] \in MonitorState
    BY DEF BaseInv, Types, TaskType
<1> USE DEF Watches, MonitorGoes, MonitorState, disk, requests, history, cache
<1>1. CASE ReceivesEvent(x)
    BY <1>1, <1>a DEF ReceivesEvent
<1>2. CASE ChannelCloses(x)
    BY <1>2, <1>a DEF ChannelCloses
<1>3. CASE Attaches(x)
    BY <1>3, <1>a DEF Attaches
<1>4. CASE Decides(x)
    BY <1>4, <1>a DEF Decides
<1>5. CASE Settles(x)
    BY <1>5, <1>a DEF Settles
<1>6. CASE Finishes(x)
    BY <1>6, <1>a DEF Finishes
<1>7. CASE Clears(x) \/ MonitorFails(x)
    BY <1>7, <1>a DEF Clears, MonitorFails
<1> QED BY <1>1, <1>2, <1>3, <1>4, <1>5, <1>6, <1>7 DEF MonitorActs

\* Only requests that steer, and a crash, move a steer.
LEMMA StepsOfSteerers ==
    ASSUME [Next]_vars
    PROVE  UNCHANGED steerer \/ Crash \/ \E d \in Steerers : steer_turn(d)
BY DEF Next, vars, requests, start_turn, FindsEngine, SpawnsEngine, InsertsEngine, ShutsDownEvicted,
       ChecksActive, SavesTurn, RequestFails, Activates, SendsOp, interrupt_turn, EngineActs, TakesOp,
       StartsMessage, RunsOut, GivesUp, CompletesTurn, EnginePanics, EngineStep, MonitorActs,
       ReceivesEvent, ChannelCloses, MonitorFails, Attaches, Decides, Settles, Finishes, Clears,
       RecoversTurn, RecoversItems, Recovered

\* What a steer has at hand is what it had, or what it has just read.
LEMMA SteererCopies ==
    ASSUME BaseInv, [Next]_vars, NEW s \in Steerers, steerer'[s].pc \in {"save", "again"}
    PROVE  /\ steerer'[s].turn = steerer[s].turn /\ steerer[s].pc \in {"load", "save", "again"}
           /\ \/ steerer'[s].copy = steerer[s].copy /\ steerer[s].pc \in {"save", "again"}
              \/ steerer'[s].copy = turn[steerer[s].turn]
<1>a. steerer \in [Steerers -> SteererState]
    BY DEF BaseInv, Types, TaskType
<1>1. ASSUME NEW d \in Steerers, d # s, steer_turn(d) PROVE steerer'[s] = steerer[s]
    BY <1>1, <1>a DEF steer_turn, Steers, SteerLoads, SteerSaves
<1>2. CASE steer_turn(s)
    <2>1. CASE \E t \in Threads, x \in Turns : Steers(s, t, x)
        BY <1>a, <2>1 DEF Steers, SteererState
    <2>2. CASE SteerLoads(s)
        BY <1>a, <2>2 DEF SteerLoads, SteererState
    <2>3. CASE SteerSaves(s)
        BY <1>a, <2>3 DEF SteerSaves, SteererState, NoSteer
    <2> QED BY <1>2, <2>1, <2>2, <2>3 DEF steer_turn
<1>3. UNCHANGED steerer \/ Crash \/ \E d \in Steerers : steer_turn(d)
    BY StepsOfSteerers
<1>4. CASE Crash
    BY <1>4 DEF Crash, NoSteer
<1>5. CASE steerer'[s] = steerer[s]
    BY <1>5
<1> QED BY <1>1, <1>2, <1>3, <1>4, <1>5

\* Who moves a steer.
LEMMA SteererSteps ==
    ASSUME BaseInv, [Next]_vars, NEW s \in Steerers, steerer'[s].pc # "idle"
    PROVE  \/ steerer'[s].turn = steerer[s].turn /\ steerer[s].pc # "idle"
           \/ \E t \in Threads, x \in Turns : Steers(s, t, x) /\ steerer'[s].turn = x
<1>a. steerer \in [Steerers -> SteererState]
    BY DEF BaseInv, Types, TaskType
<1>1. CASE steerer'[s].pc \in {"save", "again"}
    BY <1>1, SteererCopies
<1>2. CASE steerer'[s] = steerer[s]
    BY <1>2
<1>3. CASE Crash
    BY <1>3 DEF Crash, NoSteer
<1>4. ASSUME NEW d \in Steerers, steer_turn(d)
      PROVE  \/ steerer'[s] = steerer[s]
             \/ steerer'[s].pc \in {"save", "again"}
             \/ \E t \in Threads, x \in Turns : Steers(s, t, x) /\ steerer'[s].turn = x
    <2>1. CASE d # s
        BY <1>a, <1>4, <2>1 DEF steer_turn, Steers, SteerLoads, SteerSaves
    <2>2. ASSUME NEW t \in Threads, NEW x \in Turns, Steers(s, t, x) PROVE steerer'[s].turn = x
        BY <1>a, <2>2 DEF Steers, SteererState
    <2>3. SteerLoads(s) => steerer'[s].pc = "save"
        BY <1>a DEF SteerLoads, SteererState
    <2>4. SteerSaves(s) => steerer'[s].pc \in {"again", "idle"}
        BY <1>a DEF SteerSaves, SteererState, NoSteer
    <2> QED BY <1>4, <2>1, <2>2, <2>3, <2>4 DEF steer_turn
<1>5. UNCHANGED steerer \/ Crash \/ \E d \in Steerers : steer_turn(d)
    BY StepsOfSteerers
<1> QED BY <1>1, <1>2, <1>3, <1>4, <1>5

\* A record that a steer saves has the status of its copy.
LEMMA SteerWrites ==
    ASSUME BaseInv, NEW s \in Steerers, steer_turn(s), NEW x \in Turns
    PROVE  \/ turn'[x].status = turn[x].status
           \/ SteerSaves(s) /\ steerer[s].turn = x /\ turn'[x].status = steerer[s].copy.status
<1>a. turn \in [Turns -> Record] /\ steerer[s].copy \in Record
    BY DEF BaseInv, Types, DiskType, TaskType, SteererState
<1>1. CASE SteerSaves(s)
    <2> DEFINE y == steerer[s].turn r == steerer[s].copy
               u == [r EXCEPT !.items = @ \cup {"steer"}]
    <2>1. turn' = [turn EXCEPT ![y] = r] \/ turn' = [turn EXCEPT ![y] = u]
        BY <1>1 DEF SteerSaves
    <2>2. u.status = r.status
        <3>1. r \in Record
            BY <1>a
        <3> HIDE DEF r
        <3> QED BY <3>1 DEF Record
    <2> HIDE DEF u
    <2> QED BY <1>a, <1>1, <2>1, <2>2
<1>2. CASE ~SteerSaves(s)
    BY <1>2 DEF steer_turn, Steers, SteerLoads, disk
<1> QED BY <1>1, <1>2

-----------------------------------------------------------------------------
(* A final status is final, but for a steer_turn that saves the copy it     *)
(* read while the turn was in progress.                                     *)

\* Until recovery is done nothing else runs.
Quiet == phase # "up" =>
    /\ \A c \in Callers : caller[c].pc = "idle"
    /\ \A x \in Turns : monitor[x].pc = "none"
    /\ \A s \in Steerers : steerer[s].pc = "idle"
    /\ \A t \in Threads : active[t].turn = NoTurn

\* A turn that somebody still has to end is in progress, on disk and in the
\* copy that will be saved.
Finality ==
    /\ \A c \in Claiming : turn[caller[c].turn].status = "InProgress"
    /\ \A x \in Turns : /\ monitor[x].pc \notin {"none", "clear", "gone"} =>
                              turn[x].status = "InProgress"
                        /\ monitor[x].pc \in {"attached", "save"} =>
                              monitor[x].copy.status = "InProgress"

\* The one end a turn can have: the status its monitor has settled on.
EndOf(x, status) ==
    \/ status = "InProgress"
    \/ status = monitor[x].status /\ monitor[x].pc \in {"clear", "gone"}

\* A turn that is active or steered before it has a monitor is in progress;
\* with a monitor, its record and the copies of it hold no other end.
Steering ==
    /\ \A t \in Threads, x \in Turns :
          active[t].turn = x /\ monitor[x].pc = "none" => turn[x].status = "InProgress"
    /\ \A s \in Steerers, x \in Turns :
          /\ steerer[s].turn = x /\ steerer[s].pc # "idle" /\ monitor[x].pc = "none" =>
                turn[x].status = "InProgress"
          /\ steerer[s].turn = x /\ steerer[s].pc \in {"save", "again"} =>
                EndOf(x, steerer[s].copy.status)
    /\ \A x \in Turns : monitor[x].pc # "none" => EndOf(x, turn[x].status)

EndInv == BaseInv /\ Quiet /\ Finality /\ Steering

LEMMA QuietStep ==
    ASSUME BaseInv, Quiet, [Next]_vars
    PROVE  Quiet'
<1>1. ASSUME phase # "up" PROVE UNCHANGED <<caller, monitor, steerer, active>> \/ Crash
    <2>1. ASSUME NEW c \in Callers, start_turn(c) PROVE FALSE
        BY <1>1, <2>1 DEF start_turn, FindsEngine, SpawnsEngine, InsertsEngine, ShutsDownEvicted,
           ChecksActive, SavesTurn, RequestFails, Activates, SendsOp, Serving
    <2>2. ASSUME NEW x \in Turns, MonitorActs(x) \/ MonitorFails(x) PROVE FALSE
        BY <1>1, <2>2 DEF Quiet, MonitorActs, MonitorFails, ReceivesEvent, ChannelCloses, Attaches,
           Decides, Settles, Finishes, Clears, Watches
    <2>3. CASE UNCHANGED <<caller, monitor, steerer, active>> \/ Crash
        BY <2>3
    <2>4. ASSUME NEW s \in Steerers, steer_turn(s) PROVE FALSE
        BY <1>1, <2>4 DEF steer_turn, Steers, SteerLoads, SteerSaves
    <2>5. ASSUME NEW e \in Engines, EngineActs(e) \/ EnginePanics(e)
          PROVE  UNCHANGED <<caller, monitor, steerer, active>>
        BY <2>5 DEF EngineActs, TakesOp, StartsMessage, RunsOut, GivesUp, CompletesTurn, EnginePanics,
           EngineStep, requests, cache
    <2>6. CASE \/ \E x \in Turns : RecoversTurn(x)
               \/ RecoversItems \/ Recovered \/ UNCHANGED vars
        BY <2>6 DEF RecoversTurn, RecoversItems, Recovered, requests, cache, vars
    <2>7. ASSUME NEW t \in Threads, NEW x \in Turns, interrupt_turn(t, x) PROVE FALSE
        BY <1>1, <2>7 DEF interrupt_turn
    <2> QED BY <2>1, <2>2, <2>3, <2>4, <2>5, <2>6, <2>7 DEF Next
<1>2. ASSUME phase = "up" PROVE phase' = "up" \/ Crash
    BY <1>2 DEF Next, vars, start_turn, FindsEngine, SpawnsEngine, InsertsEngine,
       ShutsDownEvicted, ChecksActive, SavesTurn, RequestFails, Activates, SendsOp, interrupt_turn,
       steer_turn, Steers, SteerLoads, SteerSaves, EngineActs, TakesOp, StartsMessage, RunsOut, GivesUp,
       CompletesTurn, EnginePanics, EngineStep, MonitorActs, MonitorFails, ReceivesEvent, ChannelCloses,
       Attaches, Decides, Settles, Finishes, Clears, RecoversTurn, RecoversItems, Recovered
<1>3. CASE Crash
    BY <1>3 DEF Crash, Quiet, Idle, NoMonitor, NoSteer, Inactive
<1> QED BY <1>1, <1>2, <1>3 DEF Quiet

LEMMA StatusSteps ==
    ASSUME EndInv, [Next]_vars, NEW x \in Turns
    PROVE  \/ turn'[x].status = turn[x].status
           \/ /\ turn[x].status = "absent" /\ turn'[x].status = "InProgress"
              /\ \E c \in Callers : SavesTurn(c)
           \/ /\ turn[x].status = "InProgress" /\ turn'[x].status = monitor[x].status
              /\ monitor[x].pc = "save" /\ monitor'[x].pc = "clear"
           \/ turn[x].status = "InProgress" /\ turn'[x].status = "Interrupted" /\ phase # "up"
           \/ \E s \in Steerers : /\ SteerSaves(s) /\ steerer[s].turn = x
                                  /\ turn'[x].status = steerer[s].copy.status
<1>a. /\ BaseInv /\ Finality /\ turn \in [Turns -> Record]
      /\ \A y \in Turns : monitor[y] \in MonitorState /\ monitor[y].copy \in Record
    BY DEF EndInv, BaseInv, Types, DiskType, TaskType, MonitorState
<1>1. ASSUME NEW c \in Callers, start_turn(c)
      PROVE  \/ turn'[x].status = turn[x].status
             \/ /\ turn[x].status = "absent" /\ turn'[x].status = "InProgress" /\ SavesTurn(c)
    <2>1. CASE SavesTurn(c)
        <3>1. PICK y \in Turns :
                  /\ turn[y] = Absent
                  /\ turn' = [turn EXCEPT ![y].status = "InProgress", ![y].thread = CallerThread[c]]
            BY <2>1 DEF SavesTurn
        <3>2. turn'[y].status = "InProgress"
            BY <1>a, <3>1 DEF Record
        <3> QED BY <1>a, <2>1, <3>1, <3>2 DEF Absent
    <2>2. CASE ~SavesTurn(c)
        BY <1>1, <2>2 DEF start_turn, FindsEngine, SpawnsEngine, InsertsEngine, ShutsDownEvicted,
           ChecksActive, RequestFails, Activates, SendsOp, disk
    <2> QED BY <2>1, <2>2
<1>2. ASSUME NEW y \in Turns, MonitorActs(y) \/ MonitorFails(y)
      PROVE  \/ turn'[x].status = turn[x].status
             \/ /\ turn[x].status = "InProgress" /\ turn'[x].status = monitor[x].status
                /\ monitor[x].pc = "save" /\ monitor'[x].pc = "clear"
    <2>1. CASE UNCHANGED turn
        BY <2>1
    <2>2. CASE y # x
        BY <1>2, <1>a, <2>2, MonitorMoves
    <2>3. CASE y = x /\ monitor[x].pc = "attached"
        <3>1. \/ UNCHANGED turn
              \/ turn'[x] = [monitor[x].copy EXCEPT !.items = @ \cup {"message"}]
            BY <1>2, <1>a, <2>3, MonitorMoves
        <3> QED BY <1>a, <2>3, <3>1 DEF Finality, Record
    <2>4. CASE y = x /\ monitor[x].pc = "save"
        <3>1. \/ UNCHANGED turn
              \/ /\ turn'[x] = [monitor[x].copy EXCEPT !.status = monitor[x].status]
                 /\ monitor'[x].pc = "clear"
            BY <1>2, <1>a, <2>4, MonitorMoves
        <3> QED BY <1>a, <2>4, <3>1 DEF Finality, Record
    <2> QED BY <1>2, <1>a, <2>1, <2>2, <2>3, <2>4, MonitorMoves
<1>3. ASSUME NEW y \in Turns, RecoversTurn(y)
      PROVE  \/ turn'[x].status = turn[x].status
             \/ turn[x].status = "InProgress" /\ turn'[x].status = "Interrupted" /\ phase # "up"
    BY <1>3, <1>a DEF RecoversTurn, Unfinished, Record
<1>4. ASSUME NEW s \in Steerers, steer_turn(s)
      PROVE  \/ turn'[x].status = turn[x].status
             \/ /\ SteerSaves(s) /\ steerer[s].turn = x
                /\ turn'[x].status = steerer[s].copy.status
    BY <1>4, <1>a, SteerWrites
<1>5. CASE /\ ~\E c \in Callers : start_turn(c)
           /\ ~\E s \in Steerers : steer_turn(s)
           /\ ~\E y \in Turns : MonitorActs(y) \/ MonitorFails(y) \/ RecoversTurn(y)
    BY <1>5 DEF Next, vars, disk, interrupt_turn, EngineActs, TakesOp, StartsMessage,
       RunsOut, GivesUp, CompletesTurn, EnginePanics, EngineStep, RecoversItems, Recovered, Crash
<1> QED BY <1>1, <1>2, <1>3, <1>4, <1>5

\* A turn in progress that nobody has ended stays so.
LEMMA StaysOpen ==
    ASSUME EndInv, [Next]_vars, NEW x \in Turns, turn[x].status = "InProgress", phase = "up",
           monitor[x].pc \notin {"clear", "gone"},
           ~(monitor[x].pc = "save" /\ monitor'[x].pc = "clear")
    PROVE  turn'[x].status = "InProgress"
<1>1. ASSUME NEW s \in Steerers, SteerSaves(s), steerer[s].turn = x
      PROVE  steerer[s].copy.status = "InProgress"
    BY <1>1 DEF EndInv, Steering, EndOf, SteerSaves
<1> QED BY <1>1, StatusSteps

LEMMA FinalityStep ==
    ASSUME EndInv, [Next]_vars
    PROVE  Finality'
<1>a. /\ BaseInv /\ Quiet /\ Finality /\ turn \in [Turns -> Record] /\ CallersKnow
      /\ caller \in [Callers -> CallerState] /\ monitor \in [Turns -> MonitorState]
    BY DEF EndInv, BaseInv, Types, DiskType, TaskType, Records
<1>1. ASSUME NEW c \in Claiming' PROVE turn'[caller'[c].turn].status = "InProgress"
    <2>1. CASE c \in Claiming /\ caller'[c].turn = caller[c].turn
        <3>1. /\ caller[c].turn \in Turns /\ monitor[caller[c].turn].pc = "none" /\ phase = "up"
              /\ turn[caller[c].turn].status = "InProgress"
            BY <1>a, <2>1 DEF CallersKnow, Finality, Quiet, Claiming
        <3> QED BY <2>1, <3>1, StaysOpen
    <2>2. CASE SavesTurn(c)
        <3>1. PICK x \in Turns :
                  /\ turn' = [turn EXCEPT ![x].status = "InProgress", ![x].thread = CallerThread[c]]
                  /\ caller' = [caller EXCEPT ![c].pc = "activate", ![c].turn = x]
            BY <2>2 DEF SavesTurn
        <3>2. turn'[x].status = "InProgress"
            BY <1>a, <3>1 DEF Record
        <3>3. c \in Callers
            BY <1>1 DEF Claiming
        <3>4. caller'[c].turn = x
            BY <1>a, <3>1, <3>3 DEF CallerState
        <3> QED BY <3>2, <3>4
    <2>3. CASE start_turn(c) /\ ~SavesTurn(c)
        <3>1. c \in Claiming /\ caller'[c].turn = caller[c].turn
            BY <1>1, <1>a, <2>3 DEF start_turn, FindsEngine, SpawnsEngine, InsertsEngine,
               ShutsDownEvicted, ChecksActive, RequestFails, Activates, SendsOp, Returns, Goes,
               Idle, Claiming, Serving, CallerState
        <3> QED BY <2>1, <3>1
    <2>4. CASE caller'[c] = caller[c]
        BY <1>1, <2>1, <2>4 DEF Claiming
    <2>5. CASE Crash
        BY <1>1, <2>5 DEF Crash, Idle, Claiming
    <2>6. c \in Callers
        BY <1>1 DEF Claiming
    <2> QED BY <1>a, <2>2, <2>3, <2>4, <2>5, <2>6, CallerSteps
<1>2. ASSUME NEW x \in Turns
      PROVE  /\ monitor'[x].pc \notin {"none", "clear", "gone"} => turn'[x].status = "InProgress"
             /\ monitor'[x].pc \in {"attached", "save"} => monitor'[x].copy.status = "InProgress"
    <2>1. CASE monitor'[x] = monitor[x]
        <3>1. monitor[x].pc \notin {"none", "clear", "gone"} =>
                  turn[x].status = "InProgress" /\ phase = "up"
            BY <1>a DEF Finality, Quiet
        <3>2. ~(monitor[x].pc = "save" /\ monitor'[x].pc = "clear")
            BY <2>1
        <3> QED BY <1>a, <2>1, <3>1, <3>2, StaysOpen DEF Finality
    <2>2. CASE Crash
        BY <2>2 DEF Crash, NoMonitor
    <2>3. ASSUME NEW c \in Callers, SendsOp(c), caller[c].turn = x,
                 monitor' = [monitor EXCEPT ![x].pc = "wait", ![x].engine = caller[c].engine]
          PROVE  turn'[x].status = "InProgress" /\ monitor'[x].pc = "wait"
        BY <1>a, <2>3 DEF SendsOp, Serving, Claiming, Finality, disk, MonitorState
    <2>4. CASE MonitorActs(x) \/ MonitorFails(x)
        <3>1. monitor'[x].pc \notin {"none", "clear", "gone"} =>
                  turn[x].status = "InProgress" /\ phase = "up"
            BY <1>a, <2>4, MonitorMoves DEF Finality
        <3>2. monitor'[x].pc \in {"attached", "save"} => monitor'[x].copy.status = "InProgress"
            BY <1>a, <2>4, MonitorMoves DEF Finality
        <3>3. monitor'[x].pc \notin {"none", "clear", "gone"} => monitor[x].pc \notin {"clear", "gone"}
            BY <1>a, <2>4, MonitorMoves
        <3> QED BY <3>1, <3>2, <3>3, StaysOpen
    <2> QED BY <1>a, <2>1, <2>2, <2>3, <2>4, MonitorSteps
<1> QED BY <1>1, <1>2 DEF Finality

\* The end of a turn is known once its monitor has saved it, until a crash.
LEMMA EndKept ==
    ASSUME EndInv, [Next]_vars, ~Crash, NEW x \in Turns
    PROVE  \A status : EndOf(x, status) =>
              \/ status = "InProgress"
              \/ status = monitor'[x].status /\ monitor'[x].pc \in {"clear", "gone"}
<1>a. BaseInv /\ monitor \in [Turns -> MonitorState]
    BY DEF EndInv, BaseInv, Types, TaskType
<1>1. CASE monitor[x].pc \in {"clear", "gone"}
    <2>1. monitor'[x] = monitor[x] \/ MonitorActs(x) \/ MonitorFails(x)
        BY <1>a, <1>1, MonitorSteps
    <2>2. monitor'[x].status = monitor[x].status /\ monitor'[x].pc \in {"clear", "gone"}
        BY <1>a, <1>1, <2>1, MonitorMoves
    <2> QED BY <1>1, <2>2 DEF EndOf
<1>2. CASE monitor[x].pc \notin {"clear", "gone"}
    BY <1>2 DEF EndOf
<1> QED BY <1>1, <1>2

LEMMA SteeringStep ==
    ASSUME EndInv, [Next]_vars
    PROVE  Steering'
<1>a. /\ BaseInv /\ Quiet /\ Finality /\ Steering /\ CallersKnow /\ SteerersKnow /\ ActiveKnown
      /\ turn \in [Turns -> Record] /\ steerer \in [Steerers -> SteererState]
      /\ monitor \in [Turns -> MonitorState]
    BY DEF EndInv, BaseInv, Types, DiskType, TaskType, Records
<1>1. CASE Crash
    BY <1>1 DEF Crash, Steering, NoMonitor, NoSteer, Inactive
<1>2. CASE ~Crash
    <2>n. ASSUME NEW x \in Turns, monitor'[x].pc = "none" PROVE monitor[x].pc = "none"
        <3>1. monitor'[x] = monitor[x] \/ MonitorActs(x) \/ MonitorFails(x) \/ monitor[x].pc = "none"
            BY <1>2, <1>a, MonitorSteps
        <3> QED BY <1>a, <2>n, <3>1, MonitorMoves
    <2>o. ASSUME NEW x \in Turns, monitor'[x].pc = "none", turn[x].status = "InProgress", phase = "up"
          PROVE  turn'[x].status = "InProgress"
        BY <2>n, <2>o, StaysOpen
    <2>1. ASSUME NEW t \in Threads, NEW x \in Turns, active'[t].turn = x, monitor'[x].pc = "none"
          PROVE  turn'[x].status = "InProgress"
        <3>a. x # NoTurn
            BY DEF EndInv, BaseInv, Types
        <3>1. CASE active[t].turn = x
            <4>1. turn[x].status = "InProgress" /\ phase = "up"
                BY <1>a, <2>n, <2>1, <3>a, <3>1 DEF Steering, Quiet
            <4> QED BY <2>o, <2>1, <4>1
        <3>2. ASSUME NEW c \in Callers, Activates(c), active'[t].turn = caller[c].turn
              PROVE  turn'[x].status = "InProgress"
            <4>1. c \in Claiming /\ UNCHANGED turn /\ caller[c].turn = x
                BY <2>1, <3>2 DEF Activates, Serving, Claiming, disk
            <4> QED BY <1>a, <4>1 DEF Finality
        <3> QED BY <1>2, <1>a, <2>1, <3>a, <3>1, <3>2, ActiveSteps
    <2>2. ASSUME NEW s \in Steerers, NEW x \in Turns, steerer'[s].turn = x, steerer'[s].pc # "idle",
                 monitor'[x].pc = "none"
          PROVE  turn'[x].status = "InProgress"
        <3>1. CASE steerer[s].turn = x /\ steerer[s].pc # "idle"
            <4>1. turn[x].status = "InProgress" /\ phase = "up"
                BY <1>a, <2>n, <2>2, <3>1 DEF Steering, Quiet
            <4> QED BY <2>o, <2>2, <4>1
        <3>2. ASSUME NEW t \in Threads, Steers(s, t, x) PROVE turn'[x].status = "InProgress"
            <4>1. turn[x].status = "InProgress" /\ phase = "up"
                BY <1>a, <2>n, <2>2, <3>2 DEF Steering, Steers
            <4> QED BY <2>o, <2>2, <4>1
        <3> QED BY <1>2, <1>a, <2>2, <3>1, <3>2, SteererSteps
    <2>3. ASSUME NEW s \in Steerers, NEW x \in Turns, steerer'[s].turn = x,
                 steerer'[s].pc \in {"save", "again"}
          PROVE  EndOf(x, steerer[s].copy.status)'
        <3>1. /\ steerer[s].turn = x /\ steerer[s].pc \in {"load", "save", "again"}
              /\ \/ steerer'[s].copy = steerer[s].copy /\ steerer[s].pc \in {"save", "again"}
                 \/ steerer'[s].copy = turn[x]
            BY <1>a, <2>3, SteererCopies
        <3>2. EndOf(x, turn[x].status)
            BY <1>a, <3>1 DEF Steering, EndOf
        <3>3. EndOf(x, steerer'[s].copy.status)
            BY <1>a, <3>1, <3>2 DEF Steering
        <3> QED BY <1>2, <3>3, EndKept DEF EndOf
    <2>4. ASSUME NEW x \in Turns, monitor'[x].pc # "none"
          PROVE  EndOf(x, turn[x].status)'
        <3>1. CASE monitor[x].pc = "none"
            <4>1. ~(MonitorActs(x) \/ MonitorFails(x))
                BY <3>1 DEF MonitorActs, MonitorFails, ReceivesEvent, ChannelCloses, Attaches, Decides,
                   Settles, Finishes, Clears, Watches
            <4>2. PICK c \in Callers : SendsOp(c) /\ caller[c].turn = x
                BY <1>2, <1>a, <2>4, <3>1, <4>1, MonitorSteps
            <4>3. turn'[x].status = "InProgress"
                BY <1>a, <4>2 DEF SendsOp, Serving, Claiming, Finality, disk
            <4> QED BY <4>3 DEF EndOf
        <3>2. CASE monitor[x].pc # "none" /\ turn'[x].status = turn[x].status
            <4>1. EndOf(x, turn[x].status)
                BY <1>a, <3>2 DEF Steering
            <4> QED BY <1>2, <3>2, <4>1, EndKept DEF EndOf
        <3>3. ASSUME NEW s \in Steerers, SteerSaves(s), steerer[s].turn = x,
                     turn'[x].status = steerer[s].copy.status
              PROVE  EndOf(x, turn[x].status)'
            <4>1. EndOf(x, steerer[s].copy.status)
                BY <1>a, <3>3 DEF Steering, SteerSaves
            <4> QED BY <1>2, <3>3, <4>1, EndKept DEF EndOf
        <3>4. CASE /\ turn'[x].status = monitor[x].status
                   /\ monitor[x].pc = "save" /\ monitor'[x].pc = "clear"
            <4>1. monitor'[x].status = monitor[x].status
                <5>1. MonitorActs(x) \/ MonitorFails(x)
                    BY <1>2, <1>a, <3>4, MonitorSteps
                <5> QED BY <1>a, <3>4, <5>1, MonitorMoves
            <4> QED BY <3>4, <4>1 DEF EndOf
        <3>5. CASE turn'[x].status = "InProgress"
            BY <3>5 DEF EndOf
        <3>6. phase # "up" => monitor[x].pc = "none"
            BY <1>a DEF Quiet
        <3> QED BY <3>1, <3>2, <3>3, <3>4, <3>5, <3>6, StatusSteps
    <2> QED BY <2>1, <2>2, <2>3, <2>4 DEF Steering, EndOf
<1> QED BY <1>1, <1>2

LEMMA EndIsInvariant == Spec => []EndInv
<1>1. Init => EndInv
    <2>1. Init => Quiet /\ Finality /\ Steering
        BY DEF Init, Quiet, Finality, Steering, Claiming, Idle, NoMonitor, NoSteer, Inactive
    <2> QED BY <2>1, InitBase DEF EndInv
<1>2. EndInv /\ [Next]_vars => EndInv'
    BY BaseStep, QuietStep, FinalityStep, SteeringStep DEF EndInv
<1> QED BY <1>1, <1>2, PTL DEF Spec

\* No crash, failed write, panic, eviction or interrupt changes a final status;
\* a steer_turn does, with a copy it read before the end (FinishedIsFinal).
THEOREM FinishedStaysFinal == Spec => FinishedIsFinal
<1>1. EndInv /\ [Next]_vars => [KeepsFinal]_vars
    <2> SUFFICES ASSUME EndInv, [Next]_vars, NEW x \in Turns, turn[x].status \in Terminal
                 PROVE  turn'[x].status = turn[x].status \/ \E s \in Steerers : SavesOldCopy(s, x)
        BY DEF KeepsFinal
    <2>1. ASSUME NEW s \in Steerers, SteerSaves(s), steerer[s].turn = x,
                 turn'[x].status = steerer[s].copy.status
          PROVE  turn'[x].status = turn[x].status \/ SavesOldCopy(s, x)
        <3>1. EndOf(x, steerer[s].copy.status)
            BY <2>1 DEF EndInv, Steering, SteerSaves
        <3>2. monitor[x].pc # "none" => turn[x].status = monitor[x].status
            BY DEF EndInv, Steering, EndOf, Terminal
        <3> QED BY <2>1, <3>1, <3>2 DEF EndOf, SavesOldCopy
    <2> QED BY <2>1, StatusSteps DEF Terminal
<1> QED BY <1>1, EndIsInvariant, PTL DEF Spec, FinishedIsFinal

-----------------------------------------------------------------------------
(* One request at a time on a thread: then a turn that is monitored is the  *)
(* active one, and the engine in the cache runs it.  Two requests on a      *)
(* thread overwrite each other's engine and turn: the run                   *)
(* RuntimeThreadsRace shows it.                                             *)

OneRequest == \A c, d \in Callers : CallerThread[c] = CallerThread[d] => c = d

\* What a request that holds no lock may still rely on.
Requests == \A c \in Callers :
    LET t == CallerThread[c] r == caller[c] IN
    /\ r.pc = "insert" => loaded[t] = NoEngine
    /\ r.pc \in {"evict", "check", "save", "activate"} => loaded[t] \in {NoEngine, r.engine}
    /\ r.pc \in {"save", "activate"} => active[t].turn = NoTurn
    /\ r.pc = "send" => active[t].turn = r.turn /\ loaded[t] = r.engine

OwnInv == BaseInv /\ Requests /\ MonitoredIsActive

\* The step of one entry of the cache.
LEMMA LoadedSteps ==
    ASSUME BaseInv, [Next]_vars, NEW t \in Threads
    PROVE  \/ loaded'[t] = loaded[t]
           \/ \E c \in Callers : /\ InsertsEngine(c) /\ t = CallerThread[c]
                                 /\ loaded'[t] = caller[c].engine
           \/ loaded'[t] = NoEngine /\ active[t].turn = NoTurn /\ active'[t].turn = NoTurn
           \/ Crash
<1>a. /\ loaded \in [Threads -> Engines \cup {NoEngine}] /\ active \in [Threads -> ActiveState]
      /\ Lists(lru) /\ \A c \in Callers : CallerThread[c] \in Threads
    BY DEF BaseInv, Types, CacheType, ListCovers
<1>1. ASSUME NEW c \in Callers, InsertsEngine(c)
      PROVE  \/ loaded'[t] = loaded[t]
             \/ t = CallerThread[c] /\ loaded'[t] = caller[c].engine
             \/ loaded'[t] = NoEngine /\ active[t].turn = NoTurn /\ active'[t].turn = NoTurn
    <2> DEFINE after == AfterEviction
    <2>1. \/ after.loaded = loaded
          \/ \E u \in Threads : active[u].turn = NoTurn /\ after.loaded = [loaded EXCEPT ![u] = NoEngine]
        BY <1>a, EvictionLists
    <2>2. /\ loaded' = [after.loaded EXCEPT ![CallerThread[c]] = caller[c].engine]
          /\ active' = [active EXCEPT ![CallerThread[c]] = Inactive]
        BY <1>1 DEF InsertsEngine
    <2> HIDE DEF after
    <2>3. DOMAIN after.loaded = Threads
        BY <1>a, <2>1
    <2> QED BY <1>a, <2>1, <2>2, <2>3
<1>2. CASE ~(\E c \in Callers : InsertsEngine(c)) /\ ~Crash
    BY <1>2 DEF Next, vars, cache, start_turn, FindsEngine, SpawnsEngine, ShutsDownEvicted, ChecksActive,
       SavesTurn, RequestFails, Activates, SendsOp, interrupt_turn, steer_turn, Steers, SteerLoads,
       SteerSaves, EngineActs, TakesOp, StartsMessage, RunsOut, GivesUp, CompletesTurn, EnginePanics,
       EngineStep, MonitorActs, MonitorFails, ReceivesEvent, ChannelCloses, Attaches, Decides, Settles,
       Finishes, Clears, RecoversTurn, RecoversItems, Recovered
<1> QED BY <1>1, <1>2

LEMMA RequestsKept ==
    ASSUME OneRequest, OwnInv, [Next]_vars
    PROVE  Requests'
<1> SUFFICES ASSUME NEW c \in Callers
             PROVE  LET t == CallerThread[c] r == caller'[c] IN
                    /\ r.pc = "insert" => loaded'[t] = NoEngine
                    /\ r.pc \in {"evict", "check", "save", "activate"} => loaded'[t] \in {NoEngine, r.engine}
                    /\ r.pc \in {"save", "activate"} => active'[t].turn = NoTurn
                    /\ r.pc = "send" => active'[t].turn = r.turn /\ loaded'[t] = r.engine
    BY DEF Requests
<1> DEFINE t == CallerThread[c]
<1>a. /\ BaseInv /\ Requests /\ CallersKnow /\ ActiveKnown /\ t \in Threads
      /\ caller \in [Callers -> CallerState] /\ loaded \in [Threads -> Engines \cup {NoEngine}]
      /\ active \in [Threads -> ActiveState]
    BY DEF OwnInv, BaseInv, Types, TaskType, CacheType, Records
<1>r. /\ caller[c].pc = "insert" => loaded[t] = NoEngine
      /\ caller[c].pc \in {"evict", "check", "save", "activate"} => loaded[t] \in {NoEngine, caller[c].engine}
      /\ caller[c].pc \in {"save", "activate"} => active[t].turn = NoTurn
      /\ caller[c].pc = "send" => active[t].turn = caller[c].turn /\ loaded[t] = caller[c].engine
    BY <1>a DEF Requests
<1>1. CASE start_turn(c)
    <2> USE <1>a, <1>r DEF Serving, Returns, Goes, Idle, CallerState
    <2>1. CASE FindsEngine(c)
        BY <2>1 DEF FindsEngine
    <2>2. CASE SpawnsEngine(c)
        BY <2>2 DEF SpawnsEngine, cache
    <2>3. CASE InsertsEngine(c)
        <3>1. caller'[c].pc = "evict" /\ caller'[c].engine = caller[c].engine
            BY <2>3 DEF InsertsEngine
        <3>2. t \in DOMAIN AfterEviction.loaded
            BY EvictionLists DEF BaseInv, ListCovers
        <3>3. loaded'[t] = caller[c].engine
            BY <2>3, <3>2 DEF InsertsEngine
        <3> QED BY <3>1, <3>3
    <2>4. CASE ShutsDownEvicted(c)
        BY <2>4 DEF ShutsDownEvicted, cache
    <2>5. CASE ChecksActive(c)
        BY <2>5 DEF ChecksActive, cache
    <2>6. CASE SavesTurn(c)
        BY <2>6 DEF SavesTurn, cache
    <2>7. CASE RequestFails(c)
        BY <2>7 DEF RequestFails
    <2>8. CASE Activates(c)
        BY <2>8 DEF Activates
    <2>9. CASE SendsOp(c)
        BY <2>9 DEF SendsOp
    <2> QED BY <1>1, <2>1, <2>2, <2>3, <2>4, <2>5, <2>6, <2>7, <2>8, <2>9 DEF start_turn
<1>2. CASE Crash
    BY <1>2 DEF Crash, Idle
<1>3. CASE caller'[c] = caller[c] /\ ~start_turn(c) /\ ~Crash
    <2>1. ~InsertsEngine(c) /\ ~Activates(c)
        BY <1>3 DEF start_turn
    <2>2. ~(\E d \in Callers : (InsertsEngine(d) \/ Activates(d)) /\ t = CallerThread[d])
        BY <2>1 DEF OneRequest
    <2>3. \/ loaded'[t] = loaded[t]
          \/ loaded'[t] = NoEngine /\ active[t].turn = NoTurn
        BY <1>3, <1>a, <2>2, LoadedSteps
    <2>4. \/ active'[t].turn = active[t].turn
          \/ /\ active'[t].turn = NoTurn
             /\ \E x \in Turns : Clears(x) /\ active[t].turn = x
        BY <1>3, <1>a, <2>2, ActiveSteps
    <2>5. ASSUME caller[c].pc = "send"
          PROVE  active'[t].turn = active[t].turn /\ loaded'[t] = loaded[t]
        <3>1. active[t].turn \in Turns /\ monitor[active[t].turn].pc = "none"
            BY <1>a, <1>r, <2>5 DEF CallersKnow, Claiming
        <3> QED BY <2>3, <2>4, <3>1 DEF Clears, Watches
    <2> QED BY <1>3, <1>r, <2>3, <2>4, <2>5
<1> QED BY <1>1, <1>2, <1>3, <1>a, CallerSteps

LEMMA MonitoredKept ==
    ASSUME OwnInv, [Next]_vars
    PROVE  MonitoredIsActive'
<1> SUFFICES ASSUME NEW x \in Turns, monitor'[x].pc \notin {"none", "gone"}
             PROVE  active'[turn'[x].thread].turn = x /\ loaded'[turn'[x].thread] = monitor'[x].engine
    BY DEF MonitoredIsActive, Monitored
<1>a. /\ BaseInv /\ Requests /\ MonitorsKnow /\ CallersKnow /\ ThreadKnown
      /\ monitor \in [Turns -> MonitorState] /\ ~Crash
      /\ \A c \in Callers : CallerThread[c] \in Threads
    BY DEF OwnInv, BaseInv, Types, TaskType, CacheType, Records, Crash, NoMonitor
<1>1. ASSUME NEW c \in Callers, SendsOp(c), caller[c].turn = x,
             monitor' = [monitor EXCEPT ![x].pc = "wait", ![x].engine = caller[c].engine]
      PROVE  active'[turn'[x].thread].turn = x /\ loaded'[turn'[x].thread] = monitor'[x].engine
    <2>1. turn[x].thread = CallerThread[c] /\ UNCHANGED <<turn, active, loaded>>
        BY <1>1, <1>a DEF CallersKnow, SendsOp, Claiming, Serving, disk, cache
    <2>2. active[CallerThread[c]].turn = x /\ loaded[CallerThread[c]] = caller[c].engine
        BY <1>1, <1>a DEF Requests, SendsOp, Serving
    <2>3. monitor'[x].engine = caller[c].engine
        BY <1>1, <1>a DEF MonitorState
    <2> QED BY <2>1, <2>2, <2>3
<1>2. ASSUME monitor[x].pc \notin {"none", "gone"}, monitor'[x].engine = monitor[x].engine
      PROVE  active'[turn'[x].thread].turn = x /\ loaded'[turn'[x].thread] = monitor'[x].engine
    <2> DEFINE t == turn[x].thread
    <2>1. /\ t \in Threads /\ turn'[x].thread = t /\ active[t].turn = x
          /\ loaded[t] = monitor[x].engine /\ monitor[x].engine \in Engines
        BY <1>2, <1>a, TurnsKept DEF MonitorsKnow, ThreadKnown, OwnInv, MonitoredIsActive, Monitored
    <2> HIDE DEF t
    <2>2. ASSUME NEW c \in Callers, InsertsEngine(c), t = CallerThread[c] PROVE FALSE
        BY <1>a, <2>1, <2>2 DEF InsertsEngine, Requests, Serving
    <2>3. ASSUME NEW c \in Callers, Activates(c), t = CallerThread[c] PROVE FALSE
        BY <1>a, <2>1, <2>3 DEF Activates, Requests, Serving
    <2>4. ASSUME Clears(x) PROVE FALSE
        BY <1>a, <2>4 DEF Clears, MonitorGoes, MonitorState
    <2>5. active'[t].turn = x
        BY <1>a, <2>1, <2>2, <2>3, <2>4, ActiveSteps
    <2>6. loaded'[t] = loaded[t]
        BY <1>a, <2>1, <2>2, LoadedSteps
    <2> QED BY <1>2, <2>1, <2>5, <2>6
<1>3. CASE MonitorActs(x) \/ MonitorFails(x)
    BY <1>2, <1>3, <1>a, MonitorMoves
<1> QED BY <1>1, <1>2, <1>3, <1>a, MonitorSteps

LEMMA OwnIsInvariant == ASSUME OneRequest PROVE Spec => []OwnInv
<1>1. Init => OwnInv
    <2>1. Init => Requests /\ MonitoredIsActive
        BY DEF Init, Requests, Idle, MonitoredIsActive, Monitored, NoMonitor
    <2> QED BY <2>1, InitBase DEF OwnInv
<1>2. OwnInv /\ [Next]_vars => OwnInv'
    BY BaseStep, RequestsKept, MonitoredKept DEF OwnInv
<1> QED BY <1>1, <1>2, PTL DEF Spec

\* With one request at a time on a thread, whatever is evicted, interrupted,
\* steered, lost or refused: the turn a monitor watches is the active turn of
\* its thread, and its engine is the one in the cache (MonitoredIsActive).
THEOREM MonitoredStaysActive == ASSUME OneRequest PROVE Spec => []MonitoredIsActive
<1>1. OwnInv => MonitoredIsActive
    BY DEF OwnInv
<1> QED BY <1>1, OwnIsInvariant, PTL

-----------------------------------------------------------------------------
(* An interrupt that was accepted in time decides the end of the turn.     *)

InterruptHolds(x) ==
    /\ turn[x].status \in {"InProgress", "Interrupted"}
    /\ monitor[x].pc \in Undecided /\ active[turn[x].thread].turn = x =>
          active[turn[x].thread].interrupt
    /\ monitor[x].pc \in {"settle", "load", "save"} => monitor[x].status = "Interrupted"
    /\ \A c \in Callers : caller[c].pc = "activate" => caller[c].turn # x
    /\ \A s \in Steerers : steerer[s].turn = x /\ steerer[s].pc \in {"save", "again"} =>
          steerer[s].copy.status \in {"InProgress", "Interrupted"}

AskInv == OwnInv /\ EndInv /\ \A x \in asked : InterruptHolds(x)

LEMMA AskedSteps ==
    ASSUME BaseInv, [Next]_vars, NEW x \in asked'
    PROVE  \/ x \in asked
           \/ /\ x \in Turns /\ monitor[x].pc \in Undecided /\ UNCHANGED <<caller, steerer, monitor, turn>>
              /\ \E t \in Threads : active[t].turn = x /\ active'[t].turn = x /\ active'[t].interrupt
<1>a. active \in [Threads -> ActiveState]
    BY DEF BaseInv, Types, CacheType
<1>1. ASSUME NEW t \in Threads, NEW y \in Turns, interrupt_turn(t, y), x \notin asked
      PROVE  /\ x \in Turns /\ monitor[x].pc \in Undecided /\ UNCHANGED <<caller, steerer, monitor, turn>>
             /\ active[t].turn = x /\ active'[t].turn = x /\ active'[t].interrupt
    <2>1. x = y /\ monitor[x].pc \in Undecided
        BY <1>1 DEF interrupt_turn
    <2> QED BY <1>1, <1>a, <2>1 DEF interrupt_turn, requests, disk, ActiveState
<1>2. CASE ~\E t \in Threads, y \in Turns : interrupt_turn(t, y)
    BY <1>2 DEF Next, vars, history, start_turn, FindsEngine, SpawnsEngine, InsertsEngine,
       ShutsDownEvicted, ChecksActive, SavesTurn, RequestFails, Activates, SendsOp,
       steer_turn, Steers, SteerLoads, SteerSaves, EngineActs, TakesOp, StartsMessage, RunsOut, GivesUp,
       CompletesTurn, EnginePanics, EngineStep, MonitorActs, MonitorFails, ReceivesEvent, ChannelCloses,
       Attaches, Decides, Settles, Finishes, Clears, RecoversTurn, RecoversItems, Recovered, Crash
<1> QED BY <1>1, <1>2

LEMMA AskStep ==
    ASSUME AskInv, OneRequest, [Next]_vars, NEW x \in asked'
    PROVE  InterruptHolds(x)'
<1>a. /\ BaseInv /\ OwnInv /\ EndInv /\ CallersKnow /\ MonitorsKnow /\ ActiveKnown
      /\ ThreadKnown /\ Finality /\ Steering /\ Requests /\ MonitoredIsActive
      /\ monitor \in [Turns -> MonitorState] /\ caller \in [Callers -> CallerState]
      /\ active \in [Threads -> ActiveState] /\ asked \subseteq Turns
    BY DEF AskInv, OwnInv, EndInv, BaseInv, Records, Types, TaskType, CacheType, OtherType
<1>1. CASE x \notin asked
    <2>1. PICK t \in Threads : /\ active[t].turn = x /\ active'[t].turn = x /\ active'[t].interrupt
                               /\ x \in Turns /\ monitor[x].pc \in Undecided
                               /\ UNCHANGED <<caller, steerer, monitor, turn>>
        BY <1>1, <1>a, AskedSteps
    <2>2. turn[x].thread = t
        BY <1>a, <2>1 DEF ActiveKnown
    <2>3. turn[x].status \in {"InProgress", "Interrupted"}
        BY <1>a, <2>1 DEF Steering, Undecided, Finality
    <2>4. \A c \in Callers : caller[c].pc = "activate" => caller[c].turn # x
        BY <1>a, <2>1, <2>2 DEF CallersKnow, Requests, Claiming
    <2>5. \A s \in Steerers : steerer[s].turn = x /\ steerer[s].pc \in {"save", "again"} =>
             steerer[s].copy.status \in {"InProgress", "Interrupted"}
        BY <1>a, <2>1 DEF Steering, EndOf, Undecided
    <2> QED BY <2>1, <2>2, <2>3, <2>4, <2>5 DEF InterruptHolds, Undecided
<1>2. CASE x \in asked
    <2> DEFINE t == turn[x].thread
    <2>1. /\ x \in Turns /\ InterruptHolds(x) /\ Saved(x) /\ t \in Threads /\ turn'[x].thread = t
        <3>1. x \in Turns /\ InterruptHolds(x)
            BY <1>2, <1>a DEF AskInv
        <3>2. Saved(x)
            BY <3>1 DEF InterruptHolds, Saved
        <3> QED BY <1>a, <3>1, <3>2, TurnsKept DEF ThreadKnown
    <2>2. turn'[x].status \in {"InProgress", "Interrupted"}
        <3>1. monitor[x].pc = "save" => monitor[x].status = "Interrupted"
            BY <2>1 DEF InterruptHolds
        <3>2. turn[x].status \in {"InProgress", "Interrupted"}
            BY <2>1 DEF InterruptHolds
        <3>3. ASSUME NEW s \in Steerers, SteerSaves(s), steerer[s].turn = x
              PROVE  steerer[s].copy.status \in {"InProgress", "Interrupted"}
            BY <2>1, <3>3 DEF InterruptHolds, SteerSaves
        <3> QED BY <1>a, <2>1, <3>1, <3>2, <3>3, StatusSteps
    <2>s. ASSUME NEW s \in Steerers, steerer'[s].turn = x, steerer'[s].pc \in {"save", "again"}
          PROVE  steerer'[s].copy.status \in {"InProgress", "Interrupted"}
        BY <1>a, <2>1, <2>s, SteererCopies DEF InterruptHolds
    <2>3. ASSUME NEW c \in Callers, caller'[c].pc = "activate" PROVE caller'[c].turn # x
        <3>1. CASE caller'[c] = caller[c]
            BY <2>1, <2>3, <3>1 DEF InterruptHolds
        <3>2. CASE Crash
            BY <2>3, <3>2 DEF Crash, Idle
        <3>3. CASE start_turn(c)
            <4>1. CASE SavesTurn(c)
                <5>1. PICK y \in Turns : turn[y] = Absent /\ caller' = [caller EXCEPT ![c].pc = "activate", ![c].turn = y]
                    BY <4>1 DEF SavesTurn
                <5>2. caller'[c].turn = y
                    BY <1>a, <5>1 DEF CallerState
                <5> QED BY <2>1, <5>1, <5>2 DEF Saved, Absent
            <4>2. CASE ~SavesTurn(c)
                BY <2>3, <3>3, <1>a, <4>2 DEF start_turn, FindsEngine, SpawnsEngine, InsertsEngine,
                   ShutsDownEvicted, ChecksActive, RequestFails, Activates, SendsOp, Returns, Goes,
                   Idle, CallerState, Serving
            <4> QED BY <4>1, <4>2
        <3> QED BY <1>a, <3>1, <3>2, <3>3, CallerSteps
    <2>4. CASE Crash
        BY <2>1, <2>2, <2>3, <2>s, <2>4 DEF InterruptHolds, Crash, NoMonitor, Inactive
    <2>5. ASSUME ~Crash, monitor'[x].pc \in Undecided
          PROVE  monitor[x].pc \in Undecided
        <3>1. MonitorActs(x) \/ MonitorFails(x) => monitor[x].pc \in Undecided
            BY <1>a, <2>1, <2>5, MonitorMoves DEF Undecided
        <3> QED BY <1>a, <2>1, <2>5, <3>1, MonitorSteps DEF Undecided
    <2>6. ASSUME ~Crash, monitor'[x].pc \in Undecided, active'[t].turn = x
          PROVE  active'[t].interrupt
        <3>1. monitor[x].pc \in Undecided
            BY <2>5, <2>6
        <3>2. ASSUME NEW c \in Callers, Activates(c), active'[t].turn = caller[c].turn PROVE FALSE
            BY <2>1, <2>6, <3>2 DEF InterruptHolds, Activates, Serving
        <3>3. /\ active'[t].turn = active[t].turn
              /\ active[t].interrupt => active'[t].interrupt
            BY <1>a, <2>1, <2>6, <3>2, ActiveSteps
        <3> QED BY <2>1, <2>6, <3>1, <3>3 DEF InterruptHolds
    <2>7. ASSUME ~Crash, monitor'[x].pc \in {"settle", "load", "save"}
          PROVE  monitor'[x].status = "Interrupted"
        <3>1. CASE Decides(x)
            <4>1. monitor[x].pc = "decide"
                BY <3>1 DEF Decides, Watches
            <4>2. active[t].turn = x
                BY <1>a, <2>1, <4>1 DEF MonitoredIsActive, Monitored
            <4>3. InterruptRequested(x)
                BY <2>1, <4>1, <4>2 DEF InterruptHolds, InterruptRequested, Undecided
            <4> QED BY <1>a, <2>1, <3>1, <4>3 DEF Decides, MonitorState
        <3>2. CASE (MonitorActs(x) \/ MonitorFails(x)) /\ ~Decides(x)
            <4>1. monitor[x].pc \in {"settle", "load", "save", "decide"}
                BY <1>a, <2>1, <2>7, <3>2, MonitorMoves
            <4>2. monitor[x].pc # "decide"
                <5>1. SUFFICES ASSUME monitor[x].pc = "decide" PROVE FALSE
                    OBVIOUS
                <5>2. MonitorFails(x)
                    BY <3>2, <5>1 DEF MonitorActs, ReceivesEvent, ChannelCloses, Attaches, Settles,
                       Finishes, Clears, Watches
                <5> QED BY <1>a, <2>1, <2>7, <5>2 DEF MonitorFails, MonitorGoes
            <4>3. monitor'[x].status = monitor[x].status
                BY <1>a, <2>1, <3>2, <4>1, <4>2, MonitorMoves
            <4> QED BY <2>1, <4>1, <4>2, <4>3 DEF InterruptHolds
        <3>3. CASE monitor'[x] = monitor[x]
            BY <2>1, <2>7, <3>3 DEF InterruptHolds
        <3>4. ASSUME NEW c \in Callers,
                     monitor' = [monitor EXCEPT ![x].pc = "wait", ![x].engine = caller[c].engine]
              PROVE  FALSE
            BY <1>a, <2>1, <2>7, <3>4 DEF MonitorState
        <3> QED BY <1>a, <2>1, <2>7, <3>1, <3>2, <3>3, <3>4, MonitorSteps
    <2> QED BY <2>1, <2>2, <2>3, <2>s, <2>4, <2>6, <2>7 DEF InterruptHolds
<1> QED BY <1>1, <1>2

\* With one request at a time on a thread, an interrupt that is accepted before
\* the monitor has decided is what the turn ends with, whatever the engine
\* reports, fails or does not report, and however the turn is steered
\* (InterruptWins).
THEOREM InterruptIsTheEnd ==
    ASSUME OneRequest
    PROVE  Spec => []InterruptWins
<1>1. Init => \A x \in asked : InterruptHolds(x)
    BY DEF Init
<1>2. AskInv /\ [Next]_vars => (\A x \in asked : InterruptHolds(x))'
    BY AskStep
<1>3. AskInv => InterruptWins
    BY DEF AskInv, InterruptWins, InterruptHolds, Terminal
<1>4. AskInv <=> OwnInv /\ EndInv /\ \A x \in asked : InterruptHolds(x)
    BY DEF AskInv
<1> QED BY <1>1, <1>2, <1>3, <1>4, OwnIsInvariant, EndIsInvariant, PTL DEF Spec

-----------------------------------------------------------------------------
(* What a channel of an engine holds.                                      *)

\* Messages, and v as the last one if it is there.
Ends(q, v) == \A i \in DOMAIN q : q[i] = "message" \/ (i = Len(q) /\ q[i] = v)

LEMMA EndsAppend ==
    ASSUME NEW q \in Seq({"message"} \cup Terminal), Ends(q, "message"),
           NEW v \in {"message"} \cup Terminal
    PROVE  Ends(Append(q, v), v)
<1> DEFINE W == {"message"} \cup Terminal
<1>1. q \in Seq(W) /\ v \in W
    OBVIOUS
<1> HIDE DEF W
<1>2. /\ Len(q) \in Nat /\ Len(Append(q, v)) = Len(q) + 1 /\ Append(q, v)[Len(q) + 1] = v
      /\ DOMAIN q = 1..Len(q) /\ DOMAIN Append(q, v) = 1..(Len(q) + 1)
      /\ \A i \in 1..Len(q) : Append(q, v)[i] = q[i]
    BY <1>1, AppendProperties, LenProperties
<1> QED BY <1>2 DEF Ends

LEMMA EndsTail ==
    ASSUME NEW q \in Seq({"message"} \cup Terminal), q # <<>>, NEW v, Ends(q, v)
    PROVE  /\ Ends(Tail(q), v)
           /\ Head(q) # "message" => Head(q) = v /\ Tail(q) = <<>>
<1> DEFINE W == {"message"} \cup Terminal
<1>1. q \in Seq(W)
    OBVIOUS
<1> HIDE DEF W
<1>2. /\ Len(q) \in Nat \ {0} /\ Len(Tail(q)) = Len(q) - 1 /\ Head(q) = q[1] /\ Tail(q) \in Seq(W)
      /\ DOMAIN q = 1..Len(q) /\ DOMAIN Tail(q) = 1..(Len(q) - 1)
      /\ \A i \in 1..(Len(q) - 1) : Tail(q)[i] = q[i + 1]
    BY <1>1, HeadTailProperties, LenProperties, EmptySeq
<1>3. Ends(Tail(q), v)
    BY <1>2 DEF Ends
<1>4. Head(q) # "message" => Head(q) = v /\ Len(Tail(q)) = 0
    BY <1>2 DEF Ends
<1> QED BY <1>2, <1>3, <1>4, EmptySeq

-----------------------------------------------------------------------------
(* One engine for one thread, and one turn at a time in its channels.      *)

InCache(e)   == \E t \in Threads : loaded[t] = e
Inserting(c, e) == caller[c].pc = "insert" /\ caller[c].engine = e

Owned(e) ==
    /\ \A t, u \in Threads : loaded[t] = e /\ loaded[u] = e => t = u
    /\ \A c, d \in Callers : Inserting(c, e) /\ Inserting(d, e) => c = d
    /\ \A c \in Callers : Inserting(c, e) => ~InCache(e)
    /\ InCache(e) \/ (\E c \in Callers : Inserting(c, e)) =>
          engine[e].st = "up" /\ NoTurn \notin Range(engine[e].ops)
    /\ \A c \in Callers : caller[c].evicted = e =>
          /\ ~InCache(e) /\ engine[e].st # "free"
          /\ \A d \in Callers : ~Inserting(d, e)
    /\ engine[e].st = "free" => engine[e].ops = <<>>

\* The turn x was handed to the engine e, and still is the active one.
Assigned(x, e) ==
    /\ x \in Turns /\ monitor[x].pc # "none"
    /\ active[turn[x].thread].turn = x /\ loaded[turn[x].thread] = e

Piped(e) == LET g == engine[e] IN
    /\ \/ Range(g.ops) \subseteq {NoTurn}
       \/ \E x \in Turns : /\ g.ops = <<x>> /\ g.run = NoTurn /\ g.out = <<>>
                           /\ Assigned(x, e) /\ outcome[x] = "none"
    /\ g.run # NoTurn => /\ g.ops = <<>> /\ Assigned(g.run, e) /\ outcome[g.run] = "none"
                         /\ Ends(g.out, "message")
    /\ g.out # <<>> =>
          /\ g.ops = <<>>
          /\ \E x \in Turns : /\ Assigned(x, e) /\ Ends(g.out, outcome[x])
                              /\ monitor[x].pc \in {"wait", "attach", "attached", "gone"}

Decided == {"decide", "settle", "load", "save", "clear"}

\* A record, on disk or in somebody's hands, claims no other end than the
\* engine's.
Agrees(status, x) == status \in {"Completed", "Failed"} => outcome[x] = status

Honest ==
    /\ \A x \in Turns :
          /\ Agrees(turn[x].status, x)
          /\ turn[x].status = "absent" => outcome[x] = "none"
          /\ monitor[x].pc \in Decided =>
                outcome[x] \in Terminal /\ monitor[x].status \in {outcome[x], "Interrupted"}
          /\ monitor[x].pc \in {"attached", "save"} => Agrees(monitor[x].copy.status, x)
    /\ \A s \in Steerers : steerer[s].pc \in {"save", "again"} =>
          Agrees(steerer[s].copy.status, steerer[s].turn)
    /\ \A c \in Claiming : outcome[caller[c].turn] = "none"

PipeInv == /\ OwnInv /\ Honest
           /\ \A e \in Engines : Owned(e) /\ Piped(e)

\* An assignment ends when the monitor clears it, or in a crash.
LEMMA AssignedKept ==
    ASSUME OwnInv, [Next]_vars, NEW x, NEW e \in Engines, Assigned(x, e), ~Clears(x), ~Crash
    PROVE  Assigned(x, e)'
<1> DEFINE t == turn[x].thread
<1>a. /\ BaseInv /\ Requests /\ MonitorsKnow /\ ThreadKnown
      /\ x \in Turns /\ active[t].turn = x /\ loaded[t] = e /\ monitor[x].pc # "none"
    BY DEF OwnInv, BaseInv, Records, Assigned
<1>1. t \in Threads /\ turn'[x].thread = t
    BY <1>a, TurnsKept DEF MonitorsKnow, ThreadKnown
<1> HIDE DEF t
<1>2. ASSUME NEW c \in Callers, InsertsEngine(c), t = CallerThread[c] PROVE FALSE
    BY <1>a, <1>1, <1>2 DEF InsertsEngine, Requests, Serving
<1>3. ASSUME NEW c \in Callers, Activates(c), t = CallerThread[c] PROVE FALSE
    BY <1>a, <1>1, <1>3 DEF Activates, Requests, Serving
<1>4. active'[t].turn = x
    BY <1>a, <1>1, <1>2, <1>3, ActiveSteps
<1>5. loaded'[t] = e
    BY <1>a, <1>1, <1>2, LoadedSteps
<1>6. monitor'[x].pc # "none"
    BY <1>a, MonitorSteps, MonitorMoves
<1> QED BY <1>a, <1>1, <1>4, <1>5, <1>6 DEF Assigned

\* One turn for an engine, one engine for a turn.
LEMMA AssignedOnce ==
    ASSUME OwnInv, NEW e \in Engines, Owned(e), NEW x, NEW y, Assigned(x, e), Assigned(y, e)
    PROVE  x = y
BY DEF OwnInv, BaseInv, Records, MonitorsKnow, ThreadKnown, Owned, Assigned

\* What a step does to an engine that does not panic.
LEMMA EngineSteps ==
    ASSUME BaseInv, [Next]_vars, "panic" \notin Faults, NEW e \in Engines
    PROVE  LET g == engine[e] h == engine'[e] IN
           \/ h.st = g.st /\ h.ops = g.ops /\ h.run = g.run /\ h.out = g.out
           \/ \E c \in Callers : /\ SpawnsEngine(c) /\ caller'[c].engine = e /\ caller'[c].pc = "insert"
                                 /\ g.st = "free" /\ h.st = "up"
                                 /\ h.ops = g.ops /\ h.run = g.run /\ h.out = g.out
           \/ \E c \in Callers : /\ ShutsDownEvicted(c) /\ caller[c].evicted = e /\ g.st = "up"
                                 /\ h.st = g.st /\ h.ops = Append(g.ops, NoTurn)
                                 /\ h.run = g.run /\ h.out = g.out
           \/ \E c \in Callers : /\ SendsOp(c) /\ caller[c].engine = e /\ g.st = "up"
                                 /\ h.st = g.st /\ h.ops = Append(g.ops, caller[c].turn)
                                 /\ h.run = g.run /\ h.out = g.out
           \/ /\ TakesOp(e) /\ Head(g.ops) = NoTurn
              /\ h.st = "down" /\ h.ops = <<>> /\ h.run = g.run /\ h.out = g.out
           \/ /\ TakesOp(e) /\ Head(g.ops) # NoTurn
              /\ h.st = g.st /\ h.ops = Tail(g.ops) /\ h.run = Head(g.ops) /\ h.out = g.out
           \/ /\ StartsMessage(e) /\ g.run # NoTurn
              /\ h.st = g.st /\ h.ops = g.ops /\ h.run = g.run /\ h.out = Append(g.out, "message")
           \/ \E how \in Terminal :
                 /\ CompletesTurn(e, how) /\ g.run # NoTurn
                 /\ h.st = g.st /\ h.ops = g.ops /\ h.run = NoTurn /\ h.out = Append(g.out, how)
           \/ \E x \in Turns : /\ ReceivesEvent(x) /\ monitor[x].engine = e /\ g.out # <<>>
                               /\ h.st = g.st /\ h.ops = g.ops /\ h.run = g.run /\ h.out = Tail(g.out)
           \/ Crash
<1>a. /\ engine \in [Engines -> EngineState] /\ caller \in [Callers -> CallerState]
      /\ MonitorsKnow /\ CallersKnow /\ engine[e] \in EngineState
    BY DEF BaseInv, Types, EngineType, TaskType, Records
<1> DEFINE g == engine[e] h == engine'[e]
           Same == h.st = g.st /\ h.ops = g.ops /\ h.run = g.run /\ h.out = g.out
<1>1. ASSUME NEW c \in Callers, SpawnsEngine(c)
      PROVE  \/ Same
             \/ /\ caller'[c].engine = e /\ caller'[c].pc = "insert" /\ g.st = "free" /\ h.st = "up"
                /\ h.ops = g.ops /\ h.run = g.run /\ h.out = g.out
    <2>1. PICK f \in Engines :
              /\ engine[f].st = "free" /\ engine' = [engine EXCEPT ![f].st = "up"]
              /\ caller' = [caller EXCEPT ![c].pc = "insert", ![c].engine = f]
        BY <1>1 DEF SpawnsEngine
    <2>2. caller'[c].pc = "insert" /\ caller'[c].engine = f
        BY <1>a, <2>1 DEF CallerState
    <2> QED BY <1>a, <2>1, <2>2 DEF EngineState
<1>2. ASSUME NEW c \in Callers, ShutsDownEvicted(c)
      PROVE  \/ Same
             \/ /\ caller[c].evicted = e /\ g.st = "up" /\ h.st = g.st
                /\ h.ops = Append(g.ops, NoTurn) /\ h.run = g.run /\ h.out = g.out
    BY <1>2, <1>a DEF ShutsDownEvicted, EngineState
<1>3. ASSUME NEW c \in Callers, SendsOp(c)
      PROVE  \/ Same
             \/ /\ caller[c].engine = e /\ g.st = "up" /\ h.st = g.st
                /\ h.ops = Append(g.ops, caller[c].turn) /\ h.run = g.run /\ h.out = g.out
    <2> DEFINE f == caller[c].engine x == caller[c].turn
    <2>1. IF engine[f].st = "up" THEN engine' = [engine EXCEPT ![f].ops = Append(@, x)]
                                 ELSE UNCHANGED engine
        BY <1>3 DEF SendsOp
    <2> HIDE DEF f, x
    <2>2. CASE f # e \/ engine[f].st # "up"
        BY <1>a, <2>1, <2>2
    <2>3. CASE f = e /\ engine[f].st = "up"
        <3>1. h = [g EXCEPT !.ops = Append(@, x)] /\ g \in EngineState
            BY <1>a, <2>1, <2>3
        <3> HIDE DEF g, h
        <3>2. h.st = g.st /\ h.ops = Append(g.ops, x) /\ h.run = g.run /\ h.out = g.out
            BY <3>1 DEF EngineState
        <3> QED BY <2>3, <3>2 DEF g, f, x
    <2> QED BY <2>2, <2>3
<1>4. ASSUME NEW f \in Engines, TakesOp(f)
      PROVE  \/ Same
             \/ /\ f = e /\ Head(g.ops) = NoTurn
                /\ h.st = "down" /\ h.ops = <<>> /\ h.run = g.run /\ h.out = g.out
             \/ /\ f = e /\ Head(g.ops) # NoTurn
                /\ h.st = g.st /\ h.ops = Tail(g.ops) /\ h.run = Head(g.ops) /\ h.out = g.out
    <2>1. CASE f # e
        BY <1>4, <1>a, <2>1 DEF TakesOp
    <2>2. CASE f = e
        <3>1. PICK kind \in Kinds : h =
                 IF Head(g.ops) = NoTurn
                 THEN [g EXCEPT !.st = "down", !.ops = <<>>]
                 ELSE [g EXCEPT !.run = Head(g.ops), !.ops = Tail(@), !.kind = kind, !.spoke = FALSE,
                            !.cancelled = @ /\ kind = "compact"]
            BY <1>4, <1>a, <2>2 DEF TakesOp
        <3>2. g \in EngineState
            BY <1>a
        <3> HIDE DEF g, h
        <3>3. CASE Head(g.ops) = NoTurn
            BY <2>2, <3>1, <3>2, <3>3 DEF EngineState
        <3>4. CASE Head(g.ops) # NoTurn
            BY <2>2, <3>1, <3>2, <3>4 DEF EngineState
        <3> QED BY <3>3, <3>4
    <2> QED BY <2>1, <2>2
<1>5. ASSUME NEW f \in Engines, StartsMessage(f)
      PROVE  \/ Same
             \/ /\ f = e /\ g.run # NoTurn /\ h.st = g.st /\ h.ops = g.ops /\ h.run = g.run
                /\ h.out = Append(g.out, "message")
    BY <1>5, <1>a DEF StartsMessage, EngineState
<1>6. ASSUME NEW f \in Engines, NEW how \in Terminal, CompletesTurn(f, how)
      PROVE  \/ Same
             \/ /\ f = e /\ g.run # NoTurn /\ h.st = g.st /\ h.ops = g.ops /\ h.run = NoTurn
                /\ h.out = Append(g.out, how)
    BY <1>6, <1>a DEF CompletesTurn, EngineState
<1>7. ASSUME NEW x \in Turns, ReceivesEvent(x)
      PROVE  \/ Same
             \/ /\ monitor[x].engine = e /\ g.out # <<>>
                /\ h.st = g.st /\ h.ops = g.ops /\ h.run = g.run /\ h.out = Tail(g.out)
    BY <1>7, <1>a DEF ReceivesEvent, EngineState
<1>8. ASSUME NEW t \in Threads, NEW x \in Turns, interrupt_turn(t, x) PROVE Same
    BY <1>8, <1>a DEF interrupt_turn, EngineState
<1>9. CASE UNCHANGED engine
    BY <1>9
<1>10. \/ UNCHANGED engine \/ Crash
       \/ \E c \in Callers : SpawnsEngine(c) \/ ShutsDownEvicted(c) \/ SendsOp(c)
       \/ \E f \in Engines : TakesOp(f) \/ StartsMessage(f) \/ \E how \in Terminal : CompletesTurn(f, how)
       \/ \E x \in Turns : ReceivesEvent(x)
       \/ \E t \in Threads, x \in Turns : interrupt_turn(t, x)
    BY DEF Next, vars, start_turn, FindsEngine, InsertsEngine, ChecksActive, SavesTurn, RequestFails,
       Activates, steer_turn, Steers, SteerLoads, SteerSaves, EngineActs, RunsOut, GivesUp, EnginePanics,
       MonitorActs, MonitorFails, ChannelCloses, Attaches, Decides, Settles, Finishes, Clears,
       RecoversTurn, RecoversItems, Recovered, Terminal
<1> HIDE DEF g, h
<1> QED BY <1>1, <1>2, <1>3, <1>4, <1>5, <1>6, <1>7, <1>8, <1>9, <1>10 DEF g, h

LEMMA ChannelRange ==
    ASSUME NEW q \in Seq(Turns \cup {NoTurn}), NEW op \in Turns \cup {NoTurn}
    PROVE  /\ Range(Append(q, op)) = Range(q) \cup {op}
           /\ q # <<>> => Head(q) \in Range(q) /\ Range(Tail(q)) \subseteq Range(q)
           /\ Range(q) = {} => q = <<>>
<1>1. Range(q) = {q[i] : i \in 1..Len(q)} /\ Len(q) \in Nat
    BY LenProperties DEF Range
<1>2. Range(Append(q, op)) = Range(q) \cup {op}
    <2>1. /\ DOMAIN Append(q, op) = 1..(Len(q) + 1) /\ Append(q, op)[Len(q) + 1] = op
          /\ \A i \in 1..Len(q) : Append(q, op)[i] = q[i]
        BY AppendProperties, LenProperties
    <2> QED BY <1>1, <2>1 DEF Range
<1>3. ASSUME q # <<>> PROVE Head(q) \in Range(q) /\ Range(Tail(q)) \subseteq Range(q)
    <2>1. /\ Len(q) >= 1 /\ Head(q) = q[1] /\ DOMAIN Tail(q) = 1..(Len(q) - 1)
          /\ \A i \in 1..(Len(q) - 1) : Tail(q)[i] = q[i + 1]
        BY <1>1, <1>3, HeadTailProperties, LenProperties, EmptySeq
    <2> QED BY <1>1, <2>1 DEF Range
<1>4. Range(q) = {} => q = <<>>
    BY <1>1, EmptySeq DEF Range
<1> QED BY <1>2, <1>3, <1>4

\* Who has an engine keeps it running, and unshut.
LEMMA OwnedEngine ==
    ASSUME BaseInv, [Next]_vars, "panic" \notin Faults, NEW e \in Engines, Owned(e), ~Crash
    PROVE  /\ InCache(e) \/ (\E c \in Callers : Inserting(c, e)) =>
                  engine'[e].st = "up" /\ NoTurn \notin Range(engine'[e].ops)
           /\ engine[e].st # "free" => engine'[e].st # "free"
           /\ engine'[e].st = "free" => engine'[e].ops = <<>>
<1> DEFINE g == engine[e] h == engine'[e]
<1>a. /\ CallersKnow /\ g.ops \in Seq(Turns \cup {NoTurn})
      /\ g.st = "free" => g.ops = <<>>
      /\ InCache(e) \/ (\E c \in Callers : Inserting(c, e)) => g.st = "up" /\ NoTurn \notin Range(g.ops)
      /\ \A c \in Callers : caller[c].evicted = e =>
            ~InCache(e) /\ ~\E d \in Callers : Inserting(d, e)
    BY DEF BaseInv, Types, EngineType, EngineState, Records, Owned
<1> HIDE DEF g, h
<1>1. CASE h.st = g.st /\ h.ops = g.ops
    BY <1>1, <1>a DEF g, h
<1>2. CASE g.st = "free" /\ h.st = "up"
    BY <1>2, <1>a DEF g, h
<1>3. ASSUME NEW c \in Callers, caller[c].evicted = e, g.st = "up", h.st = g.st
      PROVE  ~InCache(e) /\ ~(\E d \in Callers : Inserting(d, e)) /\ h.st = "up"
    BY <1>3, <1>a
<1>4. ASSUME NEW c \in Callers, SendsOp(c), h.ops = Append(g.ops, caller[c].turn)
      PROVE  NoTurn \notin Range(g.ops) => NoTurn \notin Range(h.ops)
    <2>1. caller[c].turn \in Turns /\ caller[c].turn # NoTurn
        BY <1>4, <1>a DEF CallersKnow, SendsOp, Serving, Claiming
    <2> QED BY <1>4, <1>a, <2>1, ChannelRange
<1>5. ASSUME TakesOp(e) PROVE g.ops # <<>> /\ g.st = "up"
    BY <1>5 DEF TakesOp, g
<1>6. CASE TakesOp(e) /\ Head(g.ops) = NoTurn /\ h.st = "down"
    BY <1>6, <1>a, <1>5, ChannelRange DEF g, h
<1>7. CASE TakesOp(e) /\ h.st = g.st /\ h.ops = Tail(g.ops)
    BY <1>7, <1>a, <1>5, ChannelRange DEF g, h
<1> QED BY <1>1, <1>2, <1>3, <1>4, <1>6, <1>7, <1>a, EngineSteps DEF g, h

LEMMA OwnedFrom ==
    ASSUME BaseInv, [Next]_vars, "panic" \notin Faults, NEW e \in Engines, Owned(e), ~Crash,
           UNCHANGED loaded,
           \A d \in Callers : /\ Inserting(d, e)' <=> Inserting(d, e)
                              /\ caller'[d].evicted = e => caller[d].evicted = e
    PROVE  Owned(e)'
<1>1. InCache(e)' <=> InCache(e)
    BY DEF InCache
<1> QED BY <1>1, OwnedEngine DEF Owned

LEMMA OwnedStep ==
    ASSUME OneRequest, OwnInv, \A f \in Engines : Owned(f), [Next]_vars, "panic" \notin Faults,
           NEW e \in Engines
    PROVE  Owned(e)'
<1>a. /\ BaseInv /\ Requests /\ CallersKnow /\ Owned(e)
      /\ caller \in [Callers -> CallerState] /\ loaded \in [Threads -> Engines \cup {NoEngine}]
      /\ Lists(lru) /\ \A c \in Callers : CallerThread[c] \in Threads
    BY DEF OwnInv, BaseInv, Types, TaskType, CacheType, Records, ListCovers
<1>1. CASE Crash
    <2>1. /\ \A t \in Threads : loaded'[t] # e
          /\ \A c \in Callers : caller'[c].pc # "insert" /\ caller'[c].evicted # e
          /\ engine'[e].ops = <<>>
        BY <1>1 DEF Crash, Idle, NewEngine
    <2> QED BY <2>1 DEF Owned, InCache, Inserting
<1>2. ASSUME NEW c \in Callers, SpawnsEngine(c), ~Crash PROVE Owned(e)'
    <2>1. PICK f \in Engines :
              /\ engine[f].st = "free" /\ engine' = [engine EXCEPT ![f].st = "up"]
              /\ caller' = [caller EXCEPT ![c].pc = "insert", ![c].engine = f]
              /\ UNCHANGED loaded /\ caller[c].pc = "idle"
        BY <1>2 DEF SpawnsEngine, Serving, cache
    <2>2. /\ caller'[c].pc = "insert" /\ caller'[c].engine = f /\ caller'[c].evicted = caller[c].evicted
          /\ \A d \in Callers \ {c} : caller'[d] = caller[d]
        BY <1>a, <2>1 DEF CallerState
    <2>3. CASE e # f
        <3>1. \A d \in Callers : /\ Inserting(d, e)' <=> Inserting(d, e)
                                 /\ caller'[d].evicted = e => caller[d].evicted = e
            BY <2>1, <2>2, <2>3 DEF Inserting
        <3> QED BY <1>2, <1>a, <2>1, <3>1, OwnedFrom
    <2>4. CASE e = f
        <3>1. /\ ~InCache(e) /\ engine[e].ops = <<>>
              /\ \A d \in Callers : ~Inserting(d, e) /\ caller[d].evicted # e
            BY <1>a, <2>1, <2>4 DEF Owned
        <3>2. ~InCache(e)'
            BY <2>1, <3>1 DEF InCache
        <3>3. \A d \in Callers : caller'[d].evicted # e /\ (Inserting(d, e)' => d = c)
            BY <2>2, <3>1 DEF Inserting
        <3>4. engine'[e].st = "up" /\ engine'[e].ops = <<>>
            <4>1. engine[e] \in EngineState /\ engine \in [Engines -> EngineState]
                BY <1>a DEF BaseInv, Types, EngineType
            <4> QED BY <2>1, <2>4, <3>1, <4>1 DEF EngineState
        <3>5. NoTurn \notin Range(engine'[e].ops)
            BY <3>4 DEF Range
        <3>6. \A t, u \in Threads : loaded'[t] = e /\ loaded'[u] = e => t = u
            BY <3>2 DEF InCache
        <3> QED BY <3>2, <3>3, <3>4, <3>5, <3>6 DEF Owned
    <2> QED BY <2>3, <2>4
<1>3. ASSUME NEW c \in Callers, InsertsEngine(c), ~Crash PROVE Owned(e)'
    <2> DEFINE t == CallerThread[c] f == caller[c].engine after == AfterEviction
    <2>1. /\ caller' = [caller EXCEPT ![c].pc = "evict", ![c].evicted = after.evicted]
          /\ loaded' = [after.loaded EXCEPT ![t] = f]
          /\ loaded[t] = NoEngine /\ caller[c].pc = "insert" /\ t \in Threads /\ f \in Engines
        BY <1>3, <1>a DEF InsertsEngine, Requests, Serving, CallersKnow
    <2>2. \/ after.loaded = loaded /\ after.evicted = NoEngine
          \/ \E u \in Threads : after.loaded = [loaded EXCEPT ![u] = NoEngine] /\ after.evicted = loaded[u]
        BY <1>a, EvictionLists
    <2> HIDE DEF t, after
    <2>3. /\ caller'[c].pc = "evict" /\ caller'[c].engine = f /\ caller'[c].evicted = after.evicted
          /\ \A d \in Callers \ {c} : caller'[d] = caller[d]
        BY <1>a, <2>1 DEF CallerState
    <2> HIDE DEF f
    <2>4. /\ loaded'[t] = f
          /\ \A u \in Threads \ {t} : loaded'[u] = e => loaded[u] = e /\ after.evicted # e
        <3>1. \A u \in Threads \ {t} : loaded'[u] = after.loaded[u]
            BY <1>a, <2>1, <2>2
        <3>2. \A u, v \in Threads : loaded[u] = e /\ loaded[v] = e => u = v
            BY <1>a DEF Owned
        <3>3. loaded'[t] = f
            BY <1>a, <2>1, <2>2
        <3>4. ASSUME NEW u \in Threads \ {t}, loaded'[u] = e PROVE loaded[u] = e /\ after.evicted # e
            <4>1. after.loaded[u] = e /\ e # NoEngine
                BY <3>1, <3>4
            <4>2. CASE after.loaded = loaded /\ after.evicted = NoEngine
                BY <4>1, <4>2
            <4>3. ASSUME NEW v \in Threads, after.loaded = [loaded EXCEPT ![v] = NoEngine],
                         after.evicted = loaded[v]
                  PROVE  loaded[u] = e /\ after.evicted # e
                BY <1>a, <3>2, <4>1, <4>3
            <4> QED BY <2>2, <4>2, <4>3
        <3> QED BY <3>3, <3>4
    <2>5. \A d \in Callers : Inserting(d, e)' <=> (Inserting(d, e) /\ d # c)
        BY <2>3 DEF Inserting
    <2>6. after.evicted = e => InCache(e)
        BY <2>2, <1>a DEF InCache
    <2>7. CASE e = f
        <3>1. Inserting(c, e)
            BY <2>1, <2>7 DEF Inserting, f
        <3>2. /\ ~InCache(e) /\ \A d \in Callers : caller[d].evicted # e
              /\ \A d \in Callers : Inserting(d, e) => d = c
            BY <1>a, <3>1 DEF Owned
        <3>3. \A u \in Threads : loaded'[u] = e => u = t
            BY <2>4, <3>2 DEF InCache
        <3>4. \A d \in Callers : caller'[d].evicted # e /\ ~Inserting(d, e)'
            BY <2>3, <2>5, <2>6, <3>2
        <3>5. engine'[e].st = "up" /\ NoTurn \notin Range(engine'[e].ops)
            BY <1>3, <1>a, <3>1, OwnedEngine
        <3> QED BY <3>3, <3>4, <3>5 DEF Owned
    <2>8. CASE e # f
        <3>1. \A u \in Threads : loaded'[u] = e => loaded[u] = e /\ after.evicted # e /\ u # t
            BY <2>4, <2>8
        <3>2. \A u, v \in Threads : loaded'[u] = e /\ loaded'[v] = e => u = v
            BY <1>a, <3>1 DEF Owned
        <3>3. InCache(e)' => InCache(e) /\ after.evicted # e
            BY <3>1 DEF InCache
        <3>4. \A d \in Callers : Inserting(d, e)' => Inserting(d, e)
            BY <2>5
        <3>5. /\ InCache(e) \/ (\E d \in Callers : Inserting(d, e)) =>
                    engine'[e].st = "up" /\ NoTurn \notin Range(engine'[e].ops)
              /\ engine[e].st # "free" => engine'[e].st # "free"
              /\ engine'[e].st = "free" => engine'[e].ops = <<>>
            BY <1>3, <1>a, OwnedEngine
        <3>6. ASSUME NEW d \in Callers, caller'[d].evicted = e
              PROVE  ~InCache(e)' /\ engine'[e].st # "free" /\ \A b \in Callers : ~Inserting(b, e)'
            <4>1. CASE d = c
                <5>1. InCache(e) /\ ~InCache(e)'
                    BY <2>3, <2>6, <3>3, <3>6, <4>1
                <5> QED BY <1>a, <3>4, <3>5, <5>1 DEF Owned
            <4>2. CASE d # c
                <5>1. caller[d].evicted = e
                    BY <2>3, <3>6, <4>2
                <5> QED BY <1>a, <3>3, <3>4, <3>5, <5>1 DEF Owned
            <4> QED BY <4>1, <4>2
        <3> QED BY <1>a, <3>2, <3>3, <3>4, <3>5, <3>6 DEF Owned
    <2> QED BY <2>7, <2>8
<1>4. ASSUME NEW c \in Callers, start_turn(c), ~SpawnsEngine(c), ~InsertsEngine(c), ~Crash PROVE Owned(e)'
    <2>1. /\ \A d \in Callers \ {c} : caller'[d] = caller[d]
          /\ caller[c].pc # "insert" /\ caller'[c].pc # "insert"
          /\ caller'[c].evicted \in {caller[c].evicted, NoEngine} /\ UNCHANGED loaded
        <3> USE DEF Serving, Returns, Goes, cache, Idle, CallerState
        <3>1. CASE FindsEngine(c) \/ ShutsDownEvicted(c)
            BY <1>a, <3>1 DEF FindsEngine, ShutsDownEvicted
        <3>2. CASE ChecksActive(c)
            BY <1>a, <3>2 DEF ChecksActive
        <3>4. CASE SavesTurn(c)
            <4>1. PICK x \in Turns : caller' = [caller EXCEPT ![c].pc = "activate", ![c].turn = x]
                BY <3>4 DEF SavesTurn
            <4> QED BY <1>a, <3>4, <4>1 DEF SavesTurn
        <3>5. CASE RequestFails(c)
            BY <1>a, <3>5 DEF RequestFails
        <3>3. CASE Activates(c) \/ SendsOp(c)
            BY <1>a, <3>3 DEF Activates, SendsOp
        <3> QED BY <1>4, <3>1, <3>2, <3>3, <3>4, <3>5 DEF start_turn
    <2>2. \A d \in Callers : /\ Inserting(d, e)' <=> Inserting(d, e)
                             /\ caller'[d].evicted = e => caller[d].evicted = e
        BY <2>1 DEF Inserting
    <2> QED BY <1>4, <1>a, <2>1, <2>2, OwnedFrom
<1>5. CASE Other /\ ~Crash
    <2>1. UNCHANGED <<caller, loaded>>
        BY <1>5, <1>a, OtherSteps
    <2> QED BY <1>5, <1>a, <2>1, OwnedFrom DEF Inserting
<1>6. CASE UNCHANGED vars /\ ~Crash
    BY <1>6, <1>a, OwnedFrom DEF vars, cache, requests, Inserting
<1> QED BY <1>1, <1>2, <1>3, <1>4, <1>5, <1>6, StepKinds

\* An outcome is written once, by the engine that has the turn.
LEMMA OutcomeSteps ==
    ASSUME PipeInv, [Next]_vars, NEW x \in Turns
    PROVE  \/ outcome'[x] = outcome[x]
           \/ \E f \in Engines, how \in Terminal :
                 /\ CompletesTurn(f, how) /\ engine[f].run = x /\ Assigned(x, f)
                 /\ outcome[x] = "none" /\ outcome'[x] = how /\ engine'[f].run = NoTurn
<1>a. /\ engine \in [Engines -> EngineState] /\ outcome \in [Turns -> {"none"} \cup Terminal]
      /\ \A f \in Engines : Piped(f)
    BY DEF PipeInv, OwnInv, BaseInv, Types, EngineType, OtherType
<1>1. ASSUME NEW f \in Engines, NEW how \in Terminal, CompletesTurn(f, how), outcome'[x] # outcome[x]
      PROVE  /\ engine[f].run = x /\ Assigned(x, f) /\ outcome[x] = "none" /\ outcome'[x] = how
             /\ engine'[f].run = NoTurn
    <2>1. /\ engine[f].run # NoTurn /\ outcome' = [outcome EXCEPT ![engine[f].run] = how]
          /\ engine'[f].run = NoTurn
        BY <1>1, <1>a DEF CompletesTurn, EngineState
    <2>2. engine[f].run = x
        BY <1>1, <1>a, <2>1
    <2> QED BY <1>a, <2>1, <2>2 DEF Piped
<1>2. UNCHANGED outcome \/ \E f \in Engines, how \in Terminal : CompletesTurn(f, how)
    BY DEF Next, vars, history, start_turn, FindsEngine, SpawnsEngine, InsertsEngine, ShutsDownEvicted,
       ChecksActive, SavesTurn, RequestFails, Activates, SendsOp, interrupt_turn, steer_turn, Steers,
       SteerLoads, SteerSaves, EngineActs, TakesOp, StartsMessage, RunsOut, GivesUp, EnginePanics,
       EngineStep, MonitorActs, ReceivesEvent, ChannelCloses, MonitorFails, Attaches, Decides, Settles,
       Finishes, Clears, RecoversTurn, RecoversItems, Recovered, Crash, Terminal
<1> QED BY <1>1, <1>2

\* A monitor that waits listens to the engine its turn was handed to.
LEMMA WaitingIsAssigned ==
    ASSUME PipeInv, NEW x \in Turns, monitor[x].pc \notin {"none", "gone"}
    PROVE  Assigned(x, monitor[x].engine) /\ monitor[x].engine \in Engines
BY DEF PipeInv, OwnInv, BaseInv, Records, MonitorsKnow, MonitoredIsActive, Monitored, Assigned

\* A turn that is not decided stays so until its monitor hears of the end.
LEMMA UndecidedSteps ==
    ASSUME PipeInv, [Next]_vars, ~Crash, NEW e \in Engines, NEW x, Assigned(x, e),
           monitor[x].pc \notin Decided
    PROVE  /\ Assigned(x, e)'
           /\ \/ monitor'[x].pc \in {"wait", "attach", "attached", "gone"}
              \/ ReceivesEvent(x) /\ monitor[x].engine = e
<1>a. /\ OwnInv /\ BaseInv /\ x \in Turns /\ monitor[x].pc \in MonitorPC /\ monitor[x].pc # "none"
      /\ Owned(e)
    BY DEF PipeInv, OwnInv, BaseInv, Types, TaskType, MonitorState, Assigned
<1>1. monitor[x].pc \in {"wait", "attach", "attached", "gone"}
    BY <1>a DEF Decided, MonitorPC
<1>2. ~Clears(x)
    BY <1>1 DEF Clears, Watches
<1>3. Assigned(x, e)'
    BY <1>a, <1>2, AssignedKept
<1>4. monitor[x].pc = "wait" => monitor[x].engine = e
    BY <1>a, WaitingIsAssigned DEF Assigned
<1>5. ~ChannelCloses(x)
    <2> SUFFICES ASSUME ChannelCloses(x) PROVE FALSE
        OBVIOUS
    <2>1. engine[e].st = "down" /\ monitor[x].engine = e
        BY <1>4 DEF ChannelCloses, Watches
    <2>2. InCache(e)
        <3>1. turn[x].thread \in Threads
            BY <1>a DEF BaseInv, Records, MonitorsKnow, ThreadKnown
        <3> QED BY <3>1 DEF InCache, Assigned
    <2> QED BY <1>a, <2>1, <2>2 DEF Owned
<1>6. CASE MonitorActs(x) \/ MonitorFails(x)
    <2>1. CASE ReceivesEvent(x)
        BY <1>3, <1>4, <2>1 DEF ReceivesEvent, Watches
    <2>2. CASE MonitorFails(x)
        <3>1. monitor'[x].pc = "gone"
            <4>1. monitor \in [Turns -> MonitorState]
                BY <1>a DEF BaseInv, Types, TaskType
            <4> QED BY <1>a, <2>2, <4>1 DEF MonitorFails, MonitorGoes, MonitorState
        <3> QED BY <1>3, <3>1
    <2>3. CASE MonitorActs(x) /\ ~ReceivesEvent(x)
        <3>1. monitor[x].pc # "wait"
            BY <1>5, <2>3 DEF MonitorActs, Attaches, Decides, Settles, Finishes, Clears, Watches
        <3> QED BY <1>a, <1>1, <1>3, <1>6, <3>1, MonitorMoves
    <2> QED BY <1>6, <2>1, <2>2, <2>3
<1>7. CASE \E c \in Callers : SendsOp(c) /\ caller[c].turn = x /\ monitor[x].pc = "none"
    BY <1>a, <1>7
<1> QED BY <1>a, <1>1, <1>3, <1>6, <1>7, MonitorSteps

\* A turn without an outcome keeps its engine, until that completes it.
LEMMA UnendedSteps ==
    ASSUME PipeInv, [Next]_vars, ~Crash, NEW e \in Engines, NEW x, Assigned(x, e),
           outcome[x] = "none"
    PROVE  /\ monitor[x].pc \notin Decided /\ Assigned(x, e)'
           /\ outcome'[x] = "none" \/ (engine[e].run = x /\ engine'[e].run = NoTurn)
<1>1. x \in Turns /\ monitor[x].pc \notin Decided
    BY DEF PipeInv, Honest, Terminal, Assigned
<1>2. Assigned(x, e)'
    BY <1>1, UndecidedSteps
<1>3. \A f \in Engines : Assigned(x, f) => f = e
    BY DEF Assigned
<1> QED BY <1>1, <1>2, <1>3, OutcomeSteps

\* No turn is with an engine that is not in the cache.
LEMMA UnassignedIsQuiet ==
    ASSUME PipeInv, NEW e \in Engines, \A x \in Turns : ~Assigned(x, e)
    PROVE  engine[e].run = NoTurn /\ engine[e].out = <<>> /\ Range(engine[e].ops) \subseteq {NoTurn}
<1>1. Piped(e) /\ engine[e] \in EngineState
    BY DEF PipeInv, OwnInv, BaseInv, Types, EngineType
<1> QED BY <1>1 DEF Piped, EngineState

\* The channels, when the engine or a request makes the step.
LEMMA PipedStep ==
    ASSUME PipeInv, [Next]_vars, "panic" \notin Faults, NEW e \in Engines
    PROVE  Piped(e)'
<1> DEFINE g == engine[e] h == engine'[e]
           W == {"message"} \cup Terminal
<1>a. /\ OwnInv /\ BaseInv /\ Honest /\ Requests /\ CallersKnow /\ MonitorsKnow /\ ThreadKnown
      /\ Owned(e) /\ Piped(e) /\ monitor \in [Turns -> MonitorState]
      /\ g.ops \in Seq(Turns \cup {NoTurn}) /\ g.out \in Seq(W) /\ g.run \in Turns \cup {NoTurn}
    BY DEF PipeInv, OwnInv, BaseInv, Types, TaskType, EngineType, EngineState, Records
<1>b. /\ \/ Range(g.ops) \subseteq {NoTurn}
         \/ \E x \in Turns : /\ g.ops = <<x>> /\ g.run = NoTurn /\ g.out = <<>>
                             /\ Assigned(x, e) /\ outcome[x] = "none"
      /\ g.run # NoTurn => /\ g.ops = <<>> /\ Assigned(g.run, e) /\ outcome[g.run] = "none"
                           /\ Ends(g.out, "message")
      /\ g.out # <<>> =>
            /\ g.ops = <<>>
            /\ \E x \in Turns : /\ Assigned(x, e) /\ Ends(g.out, outcome[x])
                                /\ monitor[x].pc \in {"wait", "attach", "attached", "gone"}
    BY <1>a DEF Piped
<1>c. /\ Range(<<>>) = {}
      /\ \A q : Ends(q, "message") => \A v : Ends(q, v)
      /\ \A v : Ends(<<>>, v)
    BY DEF Range, Ends
<1>d. SUFFICES ASSUME ~Crash PROVE Piped(e)'
    <2>1. CASE Crash
        <3>1. h.ops = <<>> /\ h.run = NoTurn /\ h.out = <<>>
            BY <2>1 DEF Crash, NewEngine
        <3> HIDE DEF h
        <3> QED BY <3>1, <1>c DEF Piped, h
    <2> QED BY <2>1
<1> HIDE DEF W
<1>1. ASSUME NEW y \in Turns, ReceivesEvent(y), monitor[y].engine = e PROVE Piped(e)'
    <2>1. /\ monitor[y].pc = "wait" /\ g.out # <<>> /\ UNCHANGED outcome
          /\ h.ops = g.ops /\ h.run = g.run /\ h.out = Tail(g.out)
          /\ Head(g.out) = "message" => monitor'[y].pc = "attach"
        <3>1. engine \in [Engines -> EngineState]
            BY <1>a DEF BaseInv, Types, EngineType
        <3> QED BY <1>1, <1>a, <3>1 DEF ReceivesEvent, Watches, MonitorGoes, MonitorState, EngineState, history
    <2>2. Assigned(y, e)
        BY <1>1, <2>1, WaitingIsAssigned
    <2>3. g.ops = <<>> /\ Ends(g.out, outcome[y])
        BY <1>a, <1>b, <2>1, <2>2, AssignedOnce
    <2>4. Assigned(y, e)'
        BY <1>d, <2>1, <2>2, UndecidedSteps DEF Decided
    <2>5. ASSUME g.run # NoTurn PROVE g.run = y /\ Ends(Tail(g.out), "message")
        <3>1. Ends(Tail(g.out), "message")
            BY <1>a, <1>b, <2>1, <2>5, EndsTail DEF W
        <3>2. g.run = y
            BY <1>a, <1>b, <2>2, <2>5, AssignedOnce
        <3> QED BY <3>1, <3>2
    <2>6. Ends(Tail(g.out), outcome[y]) /\ (Tail(g.out) # <<>> => Head(g.out) = "message")
        BY <1>a, <2>1, <2>3, EndsTail DEF W
    <2> HIDE DEF g, h
    <2>7. h.ops = <<>> /\ Range(h.ops) = {}
        BY <2>1, <2>3, <1>c
    <2> QED BY <1>b, <1>c, <2>1, <2>4, <2>5, <2>6, <2>7 DEF Piped, g, h
<1>2. SUFFICES ASSUME ~\E y \in Turns : ReceivesEvent(y) /\ monitor[y].engine = e PROVE Piped(e)'
    BY <1>1
\* What is kept of the turn of the engine.
<1>3. ASSUME NEW x, Assigned(x, e), monitor[x].pc \notin Decided
      PROVE  Assigned(x, e)' /\ monitor'[x].pc \in {"wait", "attach", "attached", "gone"}
    BY <1>2, <1>d, <1>3, UndecidedSteps DEF Assigned
<1>4. ASSUME NEW x, Assigned(x, e), outcome[x] = "none"
      PROVE  /\ Assigned(x, e)' /\ monitor'[x].pc \in {"wait", "attach", "attached", "gone"}
             /\ outcome'[x] = "none" \/ (g.run = x /\ h.run = NoTurn)
    BY <1>3, <1>4, <1>d, UnendedSteps
<1>5. ASSUME NEW x \in Turns, Assigned(x, e), outcome'[x] # outcome[x]
      PROVE  g.run = x /\ h.run = NoTurn /\ \E how \in Terminal : CompletesTurn(e, how)
    <2>1. PICK f \in Engines, how \in Terminal : CompletesTurn(f, how) /\ engine[f].run = x /\ Assigned(x, f)
                                /\ engine'[f].run = NoTurn
        BY <1>5, OutcomeSteps
    <2>2. f = e
        BY <1>5, <2>1 DEF Assigned
    <2> QED BY <2>1, <2>2
<1> HIDE DEF g, h
<1>6. CASE h.ops = g.ops /\ h.run = g.run /\ h.out = g.out
    <2>1. \/ Range(h.ops) \subseteq {NoTurn}
          \/ \E x \in Turns : /\ h.ops = <<x>> /\ h.run = NoTurn /\ h.out = <<>>
                              /\ Assigned(x, e)' /\ outcome'[x] = "none"
        BY <1>6, <1>b, <1>4
    <2>2. ASSUME NEW x, x = h.run, x # NoTurn
          PROVE  h.ops = <<>> /\ Assigned(x, e)' /\ outcome'[x] = "none" /\ Ends(h.out, "message")
        BY <1>6, <1>b, <1>4, <2>2
    <2>3. ASSUME h.out # <<>>
          PROVE  /\ h.ops = <<>>
                 /\ \E x \in Turns : /\ Assigned(x, e)' /\ Ends(h.out, outcome'[x])
                                     /\ monitor'[x].pc \in {"wait", "attach", "attached", "gone"}
        <3>1. PICK x \in Turns : /\ Assigned(x, e) /\ Ends(g.out, outcome[x])
                                 /\ monitor[x].pc \in {"wait", "attach", "attached", "gone"}
            BY <1>6, <1>b, <2>3
        <3>2. outcome'[x] = outcome[x]
            <4> SUFFICES ASSUME outcome'[x] # outcome[x] PROVE FALSE
                OBVIOUS
            <4>1. g.run = x /\ h.run = NoTurn
                BY <3>1, <1>5
            <4> QED BY <4>1, <1>6
        <3>3. Assigned(x, e)' /\ monitor'[x].pc \in {"wait", "attach", "attached", "gone"}
            BY <3>1, <1>3 DEF Decided
        <3> QED BY <1>6, <1>b, <2>3, <3>1, <3>2, <3>3
    <2> QED BY <2>1, <2>2, <2>3 DEF Piped, h
<1>7. ASSUME NEW c \in Callers, ShutsDownEvicted(c), caller[c].evicted = e,
             h.ops = Append(g.ops, NoTurn), h.run = g.run, h.out = g.out
      PROVE  Piped(e)'
    <2>1. ~InCache(e)
        BY <1>a, <1>7 DEF Owned
    <2>2. \A x \in Turns : ~Assigned(x, e)
        BY <1>a, <2>1 DEF Assigned, InCache, MonitorsKnow, ThreadKnown
    <2>3. g.run = NoTurn /\ g.out = <<>> /\ Range(g.ops) \subseteq {NoTurn}
        BY <2>2, UnassignedIsQuiet DEF g
    <2>4. Range(h.ops) \subseteq {NoTurn}
        BY <1>7, <1>a, <2>3, ChannelRange
    <2> QED BY <1>7, <2>3, <2>4 DEF Piped, h
<1>8. ASSUME NEW c \in Callers, SendsOp(c), caller[c].engine = e, engine[e].st = "up",
             h.ops = Append(g.ops, caller[c].turn), h.run = g.run, h.out = g.out
      PROVE  Piped(e)'
    <2> DEFINE t == CallerThread[c]
    <2>0. PICK x : x = caller[c].turn
        OBVIOUS
    <2>1. /\ x \in Turns /\ turn[x].thread = t /\ monitor[x].pc = "none" /\ outcome[x] = "none"
          /\ active[t].turn = x /\ loaded[t] = e /\ t \in Threads
        BY <1>a, <1>8, <2>0 DEF SendsOp, Serving, CallersKnow, Claiming, Requests, Honest
    <2>2. InCache(e) /\ NoTurn \notin Range(g.ops)
        BY <1>a, <2>1 DEF InCache, Owned, g
    <2>3. ASSUME NEW y \in Turns, Assigned(y, e) PROVE FALSE
        <3>1. turn[y].thread = t
            BY <1>a, <2>1, <2>3 DEF Assigned, Owned, MonitorsKnow, ThreadKnown
        <3> QED BY <2>1, <2>3, <3>1 DEF Assigned
    <2>4. g.run = NoTurn /\ g.out = <<>> /\ Range(g.ops) \subseteq {NoTurn}
        BY <2>3, UnassignedIsQuiet DEF g
    <2>5. g.ops = <<>>
        BY <1>a, <2>2, <2>4, ChannelRange
    <2>6. h.ops = <<x>>
        BY <1>8, <2>0, <2>5, <2>1
    <2>7. Assigned(x, e)' /\ outcome'[x] = "none"
        <3>1. /\ UNCHANGED <<turn, active, loaded, outcome>>
              /\ monitor' = [monitor EXCEPT ![x].pc = "wait", ![x].engine = e]
            BY <1>8, <2>0, <2>1 DEF SendsOp, cache, disk, history
        <3>2. monitor'[x].pc = "wait"
            BY <1>a, <2>1, <3>1 DEF MonitorState
        <3> QED BY <2>1, <3>1, <3>2 DEF Assigned
    <2> QED BY <1>8, <2>1, <2>4, <2>6, <2>7 DEF Piped, h
<1>9. CASE TakesOp(e) /\ Head(g.ops) = NoTurn /\ h.ops = <<>> /\ h.run = g.run /\ h.out = g.out
    <2>1. g.run = NoTurn /\ g.ops # <<>>
        BY <1>9 DEF TakesOp, g
    <2> QED BY <1>9, <1>b, <1>c, <2>1 DEF Piped, h
<1>10. CASE TakesOp(e) /\ Head(g.ops) # NoTurn /\ h.ops = Tail(g.ops) /\ h.run = Head(g.ops) /\ h.out = g.out
    <2>1. g.run = NoTurn /\ g.ops # <<>>
        BY <1>10 DEF TakesOp, g
    <2>2. Head(g.ops) \in Range(g.ops)
        BY <1>a, <2>1, ChannelRange
    <2>3. PICK x \in Turns : /\ g.ops = <<x>> /\ g.out = <<>> /\ Assigned(x, e) /\ outcome[x] = "none"
        BY <1>b, <1>10, <2>2
    <2>4. h.run = x /\ h.ops = <<>> /\ h.out = <<>>
        BY <1>10, <2>3
    <2>5. Assigned(x, e)' /\ outcome'[x] = "none"
        BY <1>4, <2>1, <2>3
    <2> QED BY <1>c, <2>4, <2>5 DEF Piped, h
<1>11. CASE g.run # NoTurn /\ h.ops = g.ops /\ h.run = g.run /\ h.out = Append(g.out, "message")
    <2>1. PICK x \in Turns : x = g.run
        BY <1>11, <1>a
    <2>2. h.ops = <<>> /\ Assigned(x, e) /\ outcome[x] = "none" /\ Ends(g.out, "message")
        BY <1>11, <1>b, <2>1
    <2>3. Ends(h.out, "message")
        BY <1>11, <1>a, <2>2, EndsAppend DEF W
    <2>4. /\ Assigned(x, e)' /\ outcome'[x] = "none"
          /\ monitor'[x].pc \in {"wait", "attach", "attached", "gone"}
        BY <1>11, <1>4, <2>1, <2>2
    <2>5. Ends(h.out, outcome'[x])
        BY <1>c, <2>3
    <2> QED BY <1>c, <1>11, <2>1, <2>2, <2>3, <2>4, <2>5 DEF Piped, h
<1>12. ASSUME NEW how \in Terminal, CompletesTurn(e, how), g.run # NoTurn, h.ops = g.ops,
              h.run = NoTurn, h.out = Append(g.out, how)
       PROVE  Piped(e)'
    <2>1. PICK x \in Turns : x = g.run
        BY <1>12, <1>a
    <2>2. h.ops = <<>> /\ Assigned(x, e) /\ outcome[x] = "none" /\ Ends(g.out, "message")
        BY <1>12, <1>b, <2>1
    <2>3. Ends(h.out, how)
        BY <1>12, <1>a, <2>2, EndsAppend DEF W
    <2>4. Assigned(x, e)' /\ monitor'[x].pc \in {"wait", "attach", "attached", "gone"}
        BY <1>4, <2>2
    <2>5. outcome'[x] = how
        <3>1. outcome \in [Turns -> {"none"} \cup Terminal]
            BY <1>a DEF BaseInv, Types, OtherType
        <3> QED BY <1>12, <2>1, <3>1 DEF CompletesTurn, g
    <2> QED BY <1>c, <1>12, <2>1, <2>2, <2>3, <2>4, <2>5 DEF Piped, h
<1> QED BY <1>2, <1>d, <1>a, <1>6, <1>7, <1>8, <1>9, <1>10, <1>11, <1>12, EngineSteps DEF g, h

\* Where the status of a record comes from.
LEMMA RecordSteps ==
    ASSUME BaseInv, [Next]_vars, NEW x \in Turns
    PROVE  \/ turn'[x].status = turn[x].status
           \/ turn'[x].status \in {"InProgress", "Interrupted"}
           \/ \E s \in Steerers : /\ steerer[s].pc \in {"save", "again"} /\ steerer[s].turn = x
                                  /\ turn'[x].status = steerer[s].copy.status
           \/ monitor[x].pc = "attached" /\ turn'[x].status = monitor[x].copy.status
           \/ monitor[x].pc = "save" /\ turn'[x].status = monitor[x].status
<1>a. /\ turn \in [Turns -> Record]
      /\ \A s \in Steerers : steerer[s].copy \in Record
      /\ \A y \in Turns : monitor[y].copy \in Record
    BY DEF BaseInv, Types, DiskType, TaskType, SteererState, MonitorState
<1>1. ASSUME NEW c \in Callers, start_turn(c)
      PROVE  turn'[x].status \in {turn[x].status, "InProgress"}
    <2>1. CASE SavesTurn(c)
        <3>1. PICK y \in Turns :
                  turn' = [turn EXCEPT ![y].status = "InProgress", ![y].thread = CallerThread[c]]
            BY <2>1 DEF SavesTurn
        <3>2. turn'[y].status = "InProgress"
            BY <1>a, <3>1 DEF Record
        <3> QED BY <1>a, <3>1, <3>2
    <2>2. CASE ~SavesTurn(c)
        BY <1>1, <2>2 DEF start_turn, FindsEngine, SpawnsEngine, InsertsEngine, ShutsDownEvicted,
           ChecksActive, RequestFails, Activates, SendsOp, disk
    <2> QED BY <2>1, <2>2
<1>2. ASSUME NEW s \in Steerers, steer_turn(s)
      PROVE  \/ turn'[x].status = turn[x].status
             \/ /\ steerer[s].pc \in {"save", "again"} /\ steerer[s].turn = x
                /\ turn'[x].status = steerer[s].copy.status
    BY <1>2, SteerWrites DEF SteerSaves
<1>3. ASSUME NEW y \in Turns, MonitorActs(y) \/ MonitorFails(y)
      PROVE  \/ turn'[x].status = turn[x].status
             \/ y = x /\ monitor[x].pc = "attached" /\ turn'[x].status = monitor[x].copy.status
             \/ y = x /\ monitor[x].pc = "save" /\ turn'[x].status = monitor[x].status
    <2> DEFINE r == monitor[y].copy
               u == [r EXCEPT !.items = @ \cup {"message"}]
               v == [r EXCEPT !.status = monitor[y].status]
    <2>1. \/ UNCHANGED turn
          \/ turn' = [turn EXCEPT ![y] = u] /\ monitor[y].pc = "attached"
          \/ turn' = [turn EXCEPT ![y] = v] /\ monitor[y].pc = "save"
        BY <1>3, MonitorMoves
    <2>2. u.status = r.status /\ v.status = monitor[y].status
        <3>1. r \in Record
            BY <1>a
        <3> HIDE DEF r
        <3> QED BY <3>1 DEF Record
    <2> HIDE DEF u, v
    <2> QED BY <1>a, <2>1, <2>2
<1>4. ASSUME NEW y \in Turns, RecoversTurn(y)
      PROVE  turn'[x].status \in {turn[x].status, "Interrupted"}
    BY <1>4, <1>a DEF RecoversTurn, Record
<1>5. \/ UNCHANGED turn
      \/ \E c \in Callers : start_turn(c)
      \/ \E s \in Steerers : steer_turn(s)
      \/ \E y \in Turns : MonitorActs(y) \/ MonitorFails(y) \/ RecoversTurn(y)
    BY DEF Next, vars, interrupt_turn, EngineActs, TakesOp, StartsMessage, RunsOut, GivesUp,
       CompletesTurn, EnginePanics, EngineStep, RecoversItems, Recovered, Crash, disk
<1> QED BY <1>1, <1>2, <1>3, <1>4, <1>5

\* The records and the copies stay honest.
LEMMA HonestStep ==
    ASSUME PipeInv, [Next]_vars
    PROVE  Honest'
<1>a. /\ BaseInv /\ Honest /\ MonitorsKnow /\ SteerersKnow /\ CallersKnow
      /\ outcome \in [Turns -> {"none"} \cup Terminal]
      /\ monitor \in [Turns -> MonitorState] /\ caller \in [Callers -> CallerState]
    BY DEF PipeInv, OwnInv, BaseInv, Types, TaskType, OtherType, Records
<1>1. ASSUME NEW x \in Turns, outcome'[x] # outcome[x]
      PROVE  outcome[x] = "none" /\ monitor[x].pc # "none" /\ outcome'[x] \in Terminal
    BY <1>1, OutcomeSteps DEF Assigned
<1>2. ASSUME NEW x \in Turns, NEW v, Agrees(v, x)
      PROVE  v \in {"Completed", "Failed"} => outcome'[x] = v
    BY <1>1, <1>2 DEF Agrees
<1>3. ASSUME NEW x \in Turns PROVE Agrees(turn[x].status, x)'
    <2>1. CASE monitor[x].pc = "save" /\ turn'[x].status = monitor[x].status
        <3>1. outcome[x] \in Terminal /\ monitor[x].status \in {outcome[x], "Interrupted"}
            BY <1>a, <2>1 DEF Honest, Decided
        <3>2. Agrees(monitor[x].status, x)
            BY <3>1 DEF Agrees
        <3> QED BY <1>2, <2>1, <3>2 DEF Agrees
    <2>2. CASE turn'[x].status = turn[x].status
        BY <1>a, <1>2, <2>2 DEF Honest, Agrees
    <2>3. ASSUME NEW s \in Steerers, steerer[s].pc \in {"save", "again"}, steerer[s].turn = x,
                 turn'[x].status = steerer[s].copy.status
          PROVE  Agrees(turn[x].status, x)'
        <3>1. Agrees(steerer[s].copy.status, x)
            BY <1>a, <2>3 DEF Honest
        <3> QED BY <1>2, <2>3, <3>1 DEF Agrees
    <2>4. CASE monitor[x].pc = "attached" /\ turn'[x].status = monitor[x].copy.status
        <3>1. Agrees(monitor[x].copy.status, x)
            BY <1>a, <2>4 DEF Honest
        <3> QED BY <1>2, <2>4, <3>1 DEF Agrees
    <2>5. CASE turn'[x].status \in {"InProgress", "Interrupted"}
        BY <2>5 DEF Agrees
    <2> QED BY <1>a, <2>1, <2>2, <2>3, <2>4, <2>5, RecordSteps
<1>4. ASSUME NEW x \in Turns, turn'[x].status = "absent" PROVE outcome'[x] = "none"
    <2>1. ~Saved(x)
        BY <1>a, <1>4, TurnsKept
    <2> QED BY <1>a, <1>1, <2>1 DEF Saved, MonitorsKnow, Honest
<1>5. ASSUME NEW x \in Turns, monitor'[x].pc \in Decided
      PROVE  outcome'[x] \in Terminal /\ monitor'[x].status \in {outcome'[x], "Interrupted"}
    <2>1. CASE monitor'[x] = monitor[x]
        BY <1>a, <1>1, <1>5, <2>1 DEF Honest, Terminal
    <2>2. CASE MonitorActs(x) \/ MonitorFails(x)
        <3>1. outcome'[x] = outcome[x]
            BY <1>a, <2>2, MonitorMoves
        <3>2. CASE monitor[x].pc \in Decided
            <4>1. monitor'[x].status \in {monitor[x].status, "Interrupted"}
                <5>1. CASE Decides(x)
                    BY <1>a, <5>1 DEF Decides, MonitorState
                <5>2. CASE monitor[x].pc \notin {"wait", "decide"}
                    BY <1>a, <2>2, <5>2, MonitorMoves
                <5>3. CASE MonitorFails(x)
                    BY <1>a, <5>3 DEF MonitorFails, MonitorGoes, MonitorState
                <5> QED BY <2>2, <3>2, <5>1, <5>2, <5>3 DEF Decided, MonitorActs, ReceivesEvent,
                        ChannelCloses, Attaches, Settles, Finishes, Clears, Watches
            <4> QED BY <1>a, <3>1, <3>2, <4>1 DEF Honest
        <3>3. CASE monitor[x].pc \notin Decided
            <4> DEFINE e == monitor[x].engine g == engine[e]
            <4>1. monitor[x].pc = "wait" /\ monitor'[x].pc = "decide"
                BY <1>a, <1>5, <2>2, <3>3, MonitorMoves DEF Decided
            <4>2. Assigned(x, e) /\ e \in Engines
                BY <4>1, WaitingIsAssigned
            <4>3. ~Crash
                BY <4>1 DEF Crash, NoMonitor
            <4>4. ReceivesEvent(x)
                BY <3>3, <4>1, <4>2, <4>3, UndecidedSteps
            <4>5. /\ g.out # <<>> /\ Head(g.out) # "message" /\ monitor'[x].status = Head(g.out)
                BY <1>a, <4>1, <4>4 DEF ReceivesEvent, MonitorGoes, MonitorState
            <4>6. g.out \in Seq({"message"} \cup Terminal)
                BY <1>a, <4>2 DEF BaseInv, Types, EngineType, EngineState
            <4>7. PICK y \in Turns : Assigned(y, e) /\ Ends(g.out, outcome[y])
                BY <4>2, <4>5 DEF PipeInv, Piped
            <4>8. y = x
                BY <4>2, <4>7, AssignedOnce DEF PipeInv
            <4>9. Head(g.out) = outcome[x]
                BY <4>5, <4>6, <4>7, <4>8, EndsTail
            <4>10. Head(g.out) \in {"message"} \cup Terminal
                BY <4>5, <4>6
            <4> QED BY <3>1, <4>5, <4>9, <4>10
        <3> QED BY <3>2, <3>3
    <2>3. CASE Crash
        BY <1>5, <2>3 DEF Crash, NoMonitor, Decided
    <2>4. ASSUME NEW c \in Callers, monitor' = [monitor EXCEPT ![x].pc = "wait", ![x].engine = caller[c].engine]
          PROVE  FALSE
        BY <1>a, <1>5, <2>4 DEF Decided, MonitorState
    <2> QED BY <1>a, <2>1, <2>2, <2>3, <2>4, MonitorSteps
<1>6. ASSUME NEW x \in Turns, monitor'[x].pc \in {"attached", "save"}
      PROVE  Agrees(monitor[x].copy.status, x)'
    <2>1. \/ monitor'[x] = monitor[x]
          \/ monitor'[x].copy = turn[x]
        <3>1. CASE MonitorActs(x) \/ MonitorFails(x)
            BY <1>a, <1>6, <3>1, MonitorMoves
        <3>2. CASE Crash
            BY <1>6, <3>2 DEF Crash, NoMonitor
        <3>3. ASSUME NEW c \in Callers,
                     monitor' = [monitor EXCEPT ![x].pc = "wait", ![x].engine = caller[c].engine]
              PROVE  FALSE
            BY <1>a, <1>6, <3>3 DEF MonitorState
        <3> QED BY <1>a, <3>1, <3>2, <3>3, MonitorSteps
    <2>2. PICK v : v = monitor'[x].copy.status
        OBVIOUS
    <2>3. Agrees(v, x)
        BY <1>a, <1>6, <2>1, <2>2 DEF Honest
    <2> QED BY <1>2, <2>2, <2>3 DEF Agrees
<1>7. ASSUME NEW s \in Steerers, steerer'[s].pc \in {"save", "again"}
      PROVE  Agrees(steerer[s].copy.status, steerer[s].turn)'
    <2>1. PICK v, x : v = steerer'[s].copy.status /\ x = steerer'[s].turn
        OBVIOUS
    <2>2. x = steerer[s].turn /\ x \in Turns
        BY <1>a, <1>7, <2>1, SteererCopies DEF SteerersKnow
    <2>3. Agrees(v, x)
        BY <1>a, <1>7, <2>1, <2>2, SteererCopies DEF Honest
    <2> QED BY <1>2, <2>1, <2>2, <2>3 DEF Agrees
<1>8. ASSUME NEW c \in Callers, caller'[c].pc \in {"activate", "send"}
      PROVE  outcome'[caller'[c].turn] = "none"
    <2>1. CASE c \in Claiming /\ caller'[c].turn = caller[c].turn
        BY <1>a, <1>1, <2>1 DEF Honest, CallersKnow
    <2>2. CASE SavesTurn(c)
        <3>1. PICK x \in Turns :
                  turn[x] = Absent /\ caller' = [caller EXCEPT ![c].pc = "activate", ![c].turn = x]
            BY <2>2 DEF SavesTurn
        <3>2. caller'[c].turn = x /\ outcome[x] = "none"
            BY <1>a, <3>1 DEF CallerState, Absent, Honest
        <3> QED BY <2>2, <3>2 DEF SavesTurn, history
    <2>3. CASE Crash
        BY <1>8, <2>3 DEF Crash, Idle
    <2>4. CASE start_turn(c) /\ ~SavesTurn(c)
        <3>1. CASE Activates(c)
            BY <1>a, <1>8, <3>1, <2>1 DEF Activates, Goes, Returns, Idle, Serving, Claiming, CallerState
        <3>2. CASE RequestFails(c) \/ SendsOp(c) \/ FindsEngine(c) \/ ChecksActive(c)
            BY <1>a, <1>8, <3>2 DEF RequestFails, SendsOp, FindsEngine, ChecksActive, Returns, Goes, Idle, CallerState
        <3>3. CASE SpawnsEngine(c) \/ InsertsEngine(c) \/ ShutsDownEvicted(c)
            BY <1>a, <1>8, <3>3 DEF SpawnsEngine, InsertsEngine, ShutsDownEvicted, CallerState
        <3> QED BY <2>4, <3>1, <3>2, <3>3 DEF start_turn
    <2>5. CASE caller'[c] = caller[c]
        BY <1>8, <2>1, <2>5 DEF Claiming
    <2> QED BY <1>a, <2>2, <2>3, <2>4, <2>5, CallerSteps
<1> QED BY <1>3, <1>4, <1>5, <1>6, <1>7, <1>8 DEF Honest, Claiming

\* While no engine panics and every thread has its own client, a turn that is
\* recorded as completed or failed is one its engine has run to that end.
THEOREM HonestEnds ==
    ASSUME OneRequest, "panic" \notin Faults
    PROVE  Spec => []HonestOutcome
<1>1. Init => Honest /\ \A e \in Engines : Owned(e) /\ Piped(e)
    <2> SUFFICES ASSUME Init PROVE Honest /\ \A e \in Engines : Owned(e) /\ Piped(e)
        OBVIOUS
    <2>1. Honest
        BY DEF Init, Honest, Agrees, Absent, Decided, NoMonitor, NoSteer, Idle, Claiming
    <2>2. ASSUME NEW e \in Engines PROVE Owned(e) /\ Piped(e)
        <3>1. /\ engine[e].st = "free" /\ engine[e].ops = <<>> /\ engine[e].run = NoTurn
              /\ engine[e].out = <<>>
            BY DEF Init, NewEngine
        <3>2. Range(<<>>) = {}
            BY DEF Range
        <3>3. Owned(e)
            BY <3>1 DEF Init, Owned, InCache, Inserting, Idle
        <3>4. Piped(e)
            BY <3>1, <3>2 DEF Piped
        <3> QED BY <3>3, <3>4
    <2> QED BY <2>1, <2>2
<1>2. PipeInv /\ [Next]_vars => (Honest /\ \A e \in Engines : Owned(e) /\ Piped(e))'
    BY HonestStep, PipedStep, OwnedStep DEF PipeInv
<1>3. PipeInv <=> OwnInv /\ Honest /\ \A e \in Engines : Owned(e) /\ Piped(e)
    BY DEF PipeInv
<1>4. PipeInv => HonestOutcome
    BY DEF PipeInv, Honest, HonestOutcome, Agrees
<1> QED BY <1>1, <1>2, <1>3, <1>4, OwnIsInvariant, PTL DEF Spec

-----------------------------------------------------------------------------
(* The messages of a turn.                                                 *)

\* Its monitor has not yet settled the items, or a crash took the monitor:
\* then the turn has still to be recovered, or recovery passes the message by.
Unsettled == {"wait", "attach", "attached", "decide", "settle"}
MessageLost(x) ==
    /\ monitor[x].pc = "none" /\ crashes >= 1
    /\ \/ phase # "up" /\ turn[x].status = "InProgress"
       \/ phase = "items" /\ repairing = x /\ turn[x].status = "Interrupted"
       \/ LeftOpen(x)
MessageHeld(x) == message[x] = "open" => monitor[x].pc \in Unsettled \/ MessageLost(x)

\* An open message was open before, or its monitor has just received it.
LEMMA MessageSteps ==
    ASSUME BaseInv, [Next]_vars, NEW x \in Turns, message'[x] = "open"
    PROVE  message[x] = "open" \/ ReceivesEvent(x)
<1>a. message \in [Turns -> {"none", "open", "closed"}]
    BY DEF BaseInv, Types, DiskType
<1>1. \/ UNCHANGED message
      \/ \E y \in Turns : ReceivesEvent(y) \/ Settles(y)
      \/ RecoversItems
    BY DEF Next, vars, disk, start_turn, FindsEngine, SpawnsEngine, InsertsEngine, ShutsDownEvicted,
       ChecksActive, SavesTurn, RequestFails, Activates, SendsOp, interrupt_turn, steer_turn, Steers,
       SteerLoads, SteerSaves, EngineActs, TakesOp, StartsMessage, RunsOut, GivesUp, CompletesTurn,
       EnginePanics, EngineStep, MonitorActs, ChannelCloses, MonitorFails, Attaches, Decides,
       Finishes, Clears, RecoversTurn, Recovered, Crash
<1>2. ASSUME NEW y \in Turns, ReceivesEvent(y), y # x PROVE message'[x] = message[x]
    BY <1>2, <1>a DEF ReceivesEvent
<1>3. ASSUME NEW y \in Turns, Settles(y) PROVE message[x] = "open"
    BY <1>3, <1>a DEF Settles
<1>4. CASE RecoversItems
    BY <1>4, <1>a DEF RecoversItems
<1> QED BY <1>1, <1>2, <1>3, <1>4

\* A monitor follows its message up to the end, unless a write fails.
LEMMA WatchedMessage ==
    ASSUME EndInv, [Next]_vars, "disk" \notin Faults, NEW x \in Turns, message'[x] = "open",
           message[x] = "open", monitor[x].pc \in Unsettled
    PROVE  MessageHeld(x)'
<1>a. /\ BaseInv /\ Finality /\ Quiet /\ crashes \in Nat
      /\ monitor \in [Turns -> MonitorState] /\ message \in [Turns -> {"none", "open", "closed"}]
    BY DEF EndInv, BaseInv, Types, TaskType, DiskType, OtherType
<1>1. CASE Crash
    <2>1. turn[x].status = "InProgress"
        BY <1>a DEF Finality, Unsettled
    <2>2. phase' # "up" /\ crashes' >= 1 /\ UNCHANGED turn
        BY <1>1, <1>a DEF Crash, disk
    <2>3. monitor'[x].pc = "none"
        BY <1>1 DEF Crash, NoMonitor
    <2> QED BY <2>1, <2>2, <2>3 DEF MessageHeld, MessageLost
<1>2. CASE ~Crash
    <2>1. ~MonitorFails(x) /\ ~Settles(x)
        BY <1>a DEF MonitorFails, Settles
    <2>2. CASE MonitorActs(x)
        <3>1. CASE ReceivesEvent(x) \/ ChannelCloses(x) \/ Decides(x)
            BY <1>a, <3>1 DEF ReceivesEvent, ChannelCloses, Decides, MonitorGoes, MonitorState, MessageHeld,
               Unsettled
        <3>2. CASE Attaches(x)
            BY <1>a, <3>2 DEF Attaches, Watches, MonitorGoes, MonitorState, MessageHeld, Unsettled
        <3>3. ~Finishes(x) /\ ~Clears(x)
            BY DEF Finishes, Clears, Watches, Unsettled
        <3> QED BY <2>1, <2>2, <3>1, <3>2, <3>3 DEF MonitorActs, MessageHeld
    <2>3. CASE monitor'[x] = monitor[x]
        BY <2>3 DEF MessageHeld
    <2> QED BY <1>2, <1>a, <2>1, <2>2, <2>3, MonitorSteps DEF Unsettled
<1> QED BY <1>1, <1>2

\* The items of a record change by its monitor, a steer or a request only.
LEMMA ItemsSteps ==
    ASSUME BaseInv, [Next]_vars, NEW x \in Turns, turn[x].status = "Interrupted",
           monitor[x].pc = "none", \A s \in Steerers : steerer[s].pc = "idle" \/ steerer[s].turn # x
    PROVE  turn'[x] = turn[x]
<1>a. turn \in [Turns -> Record] /\ monitor \in [Turns -> MonitorState]
    BY DEF BaseInv, Types, DiskType, TaskType
<1>1. ASSUME NEW c \in Callers, start_turn(c) PROVE turn'[x] = turn[x]
    <2>1. CASE SavesTurn(c)
        <3>1. PICK y \in Turns :
                  /\ turn[y] = Absent
                  /\ turn' = [turn EXCEPT ![y].status = "InProgress", ![y].thread = CallerThread[c]]
            BY <2>1 DEF SavesTurn
        <3>2. y # x
            BY <3>1 DEF Absent
        <3> QED BY <1>a, <3>1, <3>2
    <2>2. CASE ~SavesTurn(c)
        BY <1>1, <2>2 DEF start_turn, FindsEngine, SpawnsEngine, InsertsEngine, ShutsDownEvicted,
           ChecksActive, RequestFails, Activates, SendsOp, disk
    <2> QED BY <2>1, <2>2
<1>2. ASSUME NEW s \in Steerers, steer_turn(s) PROVE turn'[x] = turn[x]
    BY <1>2, <1>a DEF steer_turn, Steers, SteerLoads, SteerSaves, disk
<1>3. ASSUME NEW y \in Turns, MonitorActs(y) \/ MonitorFails(y) PROVE turn'[x] = turn[x]
    <2>1. monitor[y].pc # "none"
        BY <1>3 DEF MonitorActs, MonitorFails, ReceivesEvent, ChannelCloses, Attaches, Decides,
           Settles, Finishes, Clears, Watches
    <2>2. UNCHANGED turn \/ \E r \in {turn'[y]} : turn' = [turn EXCEPT ![y] = r]
        BY <1>3, <1>a DEF MonitorActs, MonitorFails, ReceivesEvent, ChannelCloses, Attaches, Decides,
           Settles, Finishes, Clears, disk
    <2> QED BY <1>a, <2>1, <2>2
<1>4. ASSUME NEW y \in Turns, RecoversTurn(y) PROVE turn'[x] = turn[x]
    BY <1>4, <1>a DEF RecoversTurn, Unfinished
<1>5. \/ UNCHANGED turn
      \/ \E c \in Callers : start_turn(c)
      \/ \E s \in Steerers : steer_turn(s)
      \/ \E y \in Turns : MonitorActs(y) \/ MonitorFails(y) \/ RecoversTurn(y)
    BY DEF Next, vars, interrupt_turn, EngineActs, TakesOp, StartsMessage, RunsOut, GivesUp,
       CompletesTurn, EnginePanics, EngineStep, RecoversItems, Recovered, Crash, disk
<1> QED BY <1>1, <1>2, <1>3, <1>4, <1>5

\* Who moves recovery.
LEMMA PhaseSteps ==
    ASSUME [Next]_vars
    PROVE  \/ UNCHANGED <<phase, repairing, crashes>>
           \/ UNCHANGED crashes /\ \/ \E y \in Turns : RecoversTurn(y)
                                   \/ RecoversItems \/ Recovered
           \/ Crash
<1>1. ASSUME NEW c \in Callers, start_turn(c) PROVE UNCHANGED <<phase, repairing, crashes>>
    BY <1>1 DEF start_turn, FindsEngine, SpawnsEngine, InsertsEngine, ShutsDownEvicted,
       ChecksActive, SavesTurn, RequestFails, Activates, SendsOp
<1>2. ASSUME NEW e \in Engines, EngineActs(e) \/ EnginePanics(e)
      PROVE  UNCHANGED <<phase, repairing, crashes>>
    BY <1>2 DEF EngineActs, TakesOp, StartsMessage, RunsOut, GivesUp, CompletesTurn, EnginePanics,
       EngineStep
<1>3. ASSUME NEW x \in Turns, MonitorActs(x) \/ MonitorFails(x)
      PROVE  UNCHANGED <<phase, repairing, crashes>>
    BY <1>3 DEF MonitorActs, MonitorFails, ReceivesEvent, ChannelCloses, Attaches, Decides, Settles,
       Finishes, Clears
<1>4. \/ \E s \in Steerers : steer_turn(s)
      \/ \E t \in Threads, x \in Turns : interrupt_turn(t, x)
      => UNCHANGED <<phase, repairing, crashes>>
    BY DEF interrupt_turn, steer_turn, Steers, SteerLoads, SteerSaves
<1>5. (\E y \in Turns : RecoversTurn(y)) \/ RecoversItems \/ Recovered => UNCHANGED crashes
    BY DEF RecoversTurn, RecoversItems, Recovered, history
<1>6. UNCHANGED vars => UNCHANGED <<phase, repairing, crashes>>
    BY DEF vars
<1> QED BY <1>1, <1>2, <1>3, <1>4, <1>5, <1>6 DEF Next

\* Before recovery is done, only recovery changes a record.
LEMMA DownSteps ==
    ASSUME EndInv, [Next]_vars, phase # "up", ~\E y \in Turns : RecoversTurn(y)
    PROVE  UNCHANGED turn
<1>1. ASSUME NEW y \in Turns PROVE ~(MonitorActs(y) \/ MonitorFails(y))
    BY DEF EndInv, Quiet, MonitorActs, MonitorFails, ReceivesEvent, ChannelCloses, Attaches, Decides,
       Settles, Finishes, Clears, Watches
<1>2. ASSUME NEW c \in Callers PROVE ~start_turn(c)
    BY DEF start_turn, FindsEngine, SpawnsEngine, InsertsEngine, ShutsDownEvicted,
       ChecksActive, SavesTurn, RequestFails, Activates, SendsOp, Serving
<1>3. ASSUME NEW s \in Steerers PROVE ~steer_turn(s)
    BY DEF steer_turn, Steers, SteerLoads, SteerSaves
<1> QED BY <1>1, <1>2, <1>3 DEF Next, vars, interrupt_turn, EngineActs, TakesOp, StartsMessage,
       RunsOut, GivesUp, CompletesTurn, EnginePanics, EngineStep, RecoversItems, Recovered, Crash, disk

\* A message that lost its monitor waits for recovery, or is passed by.
LEMMA LostMessage ==
    ASSUME EndInv, [Next]_vars, NEW x \in Turns, message'[x] = "open",
           message[x] = "open", MessageLost(x)
    PROVE  MessageLost(x)'
<1>a. /\ BaseInv /\ Finality /\ Quiet /\ Steering /\ crashes \in Nat /\ phase \in {"up", "scan", "items"}
      /\ turn \in [Turns -> Record] /\ message \in [Turns -> {"none", "open", "closed"}]
    BY DEF EndInv, BaseInv, Types, PhaseType, DiskType, OtherType
<1>1. CASE Crash
    <2>1. phase' # "up" /\ crashes' = crashes + 1 /\ UNCHANGED turn
        BY <1>1 DEF Crash, disk
    <2>2. monitor'[x].pc = "none"
        BY <1>1 DEF Crash, NoMonitor
    <2> QED BY <1>a, <2>1, <2>2 DEF MessageLost, LeftOpen
<1>2. CASE ~Crash
    <2>1. turn[x].status \in {"InProgress", "Interrupted"} /\ monitor[x].pc = "none"
        BY DEF MessageLost, LeftOpen
    <2>2. ASSUME NEW c \in Callers, SendsOp(c), caller[c].turn = x PROVE FALSE
        BY <1>a, <2>1, <2>2 DEF SendsOp, Serving, Claiming, Finality, MessageLost, LeftOpen
    <2>3. ~(MonitorActs(x) \/ MonitorFails(x))
        BY <2>1 DEF MonitorActs, MonitorFails, ReceivesEvent, ChannelCloses, Attaches, Decides,
           Settles, Finishes, Clears, Watches
    <2>4. monitor'[x].pc = "none"
        BY <1>2, <1>a, <2>1, <2>2, <2>3, MonitorSteps
    <2>5. CASE turn[x].status = "Interrupted"
        <3>1. turn'[x] = turn[x]
            BY <1>a, <2>1, <2>5, ItemsSteps DEF Steering
        <3>2. UNCHANGED <<phase, repairing>> \/ RecoversItems \/ phase # "items"
            BY <1>2, PhaseSteps DEF RecoversTurn, Recovered
        <3>3. UNCHANGED crashes
            BY <1>2, PhaseSteps
        <3>4. RecoversItems /\ repairing = x => "message" \notin turn[x].items
            BY <1>a DEF RecoversItems
        <3> QED BY <2>4, <2>5, <3>1, <3>2, <3>3, <3>4 DEF MessageLost, LeftOpen
    <2>6. CASE turn[x].status = "InProgress"
        <3>1. phase # "up"
            BY <2>6 DEF MessageLost, LeftOpen
        <3>2. UNCHANGED crashes
            BY <1>2, PhaseSteps
        <3>3. CASE RecoversTurn(x)
            BY <1>a, <2>4, <3>2, <3>3 DEF RecoversTurn, MessageLost, Record
        <3>4. CASE ~RecoversTurn(x)
            <4>1. turn'[x].status = "InProgress"
                <5>1. CASE \E y \in Turns : RecoversTurn(y)
                    BY <1>a, <2>6, <3>4, <5>1 DEF RecoversTurn
                <5>2. CASE ~\E y \in Turns : RecoversTurn(y)
                    BY <2>6, <3>1, <5>2, DownSteps
                <5> QED BY <5>1, <5>2
            <4>2. phase' # "up"
                <5>1. ~Recovered
                    BY <2>6 DEF Recovered, Unfinished
                <5> QED BY <1>2, <3>1, <5>1, PhaseSteps DEF RecoversTurn, RecoversItems
            <4> QED BY <2>4, <3>2, <4>1, <4>2 DEF MessageLost
        <3> QED BY <3>3, <3>4
    <2> QED BY <2>1, <2>5, <2>6
<1> QED BY <1>1, <1>2

\* While the disk takes every write, an open message is one its monitor will
\* close, or one of those recovery passes by, though engines may panic
\* (OpenMessageIsWatched).
THEOREM OpenMessageIsHeld ==
    ASSUME "disk" \notin Faults
    PROVE  Spec => []OpenMessageIsWatched
<1>1. Init => \A x \in Turns : MessageHeld(x)
    BY DEF Init, MessageHeld
<1>2. ASSUME EndInv, [Next]_vars, NEW x \in Turns, MessageHeld(x) PROVE MessageHeld(x)'
    <2>1. SUFFICES ASSUME message'[x] = "open" PROVE MessageHeld(x)'
        BY DEF MessageHeld
    <2>2. CASE ReceivesEvent(x)
        <3>1. monitor \in [Turns -> MonitorState]
            BY <1>2 DEF EndInv, BaseInv, Types, TaskType
        <3> QED BY <2>1, <2>2, <3>1 DEF ReceivesEvent, MonitorGoes, MonitorState, MessageHeld, Unsettled
    <2>3. CASE message[x] = "open" /\ monitor[x].pc \in Unsettled
        BY <1>2, <2>1, <2>3, WatchedMessage
    <2>4. CASE message[x] = "open" /\ MessageLost(x)
        BY <1>2, <2>1, <2>4, LostMessage DEF MessageHeld
    <2> QED BY <1>2, <2>1, <2>2, <2>3, <2>4, MessageSteps DEF MessageHeld, EndInv
<1>3. EndInv /\ (\A x \in Turns : MessageHeld(x)) /\ [Next]_vars => (\A x \in Turns : MessageHeld(x))'
    BY <1>2
<1>4. (\A x \in Turns : MessageHeld(x)) => OpenMessageIsWatched
    BY DEF MessageHeld, MessageLost, Unsettled, OpenMessageIsWatched, Monitored
<1> QED BY <1>1, <1>3, <1>4, EndIsInvariant, PTL DEF Spec
=============================================================================
