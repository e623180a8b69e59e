------------------------------- MODULE EventLog -------------------------------
(***************************************************************************)
(* The event log of crates/tui/src/runtime_threads.rs: emit_event draws a  *)
(* global sequence number under the store's mutex, appends the record to   *)
(* the file of its thread without the mutex, and broadcasts it.  The       *)
(* executor of task_manager.rs polls the file, an SSE stream of            *)
(* runtime_api.rs replays the file and then follows the broadcast channel. *)
(*                                                                         *)
(* A line is written with writeln!, which is two writes: the record and    *)
(* the end of the line.  A record is its sequence number here; a file is   *)
(* its records, and after which of them a line ends.                       *)
(***************************************************************************)
EXTENDS Naturals, Sequences, FiniteSets

CONSTANTS
    Threads,      \* thread ids, one events file each
    Emitters,     \* the tasks that call emit_event: monitors and API handlers
    Pollers,      \* task executors in their poll loop
    Streams,      \* SSE connections
    ThreadOf,     \* the thread each of them works for
    Capacity,     \* EVENT_CHANNEL_CAPACITY
    Faults,       \* {"disk"} when a write may fail
    MaxSeq,       \* bound on the sequence numbers drawn
    MaxCrashes    \* bound on the crashes of the process

ASSUME EventLogAssumption ==
    /\ \A x \in Emitters \cup Pollers \cup Streams : ThreadOf[x] \in Threads
    /\ Capacity \in Nat \ {0}
    /\ Faults \subseteq {"disk"}
    /\ MaxSeq \in Nat /\ MaxCrashes \in Nat

VARIABLES
    next_seq,    \* RuntimeStoreState.next_seq in memory
    saved_seq,   \* the same field in state.json
    file,        \* the records in events/<thread>.jsonl, in order
    ended,       \* the places in it, counted in records, with an end of line
    emitter,     \* how far each emitter is, and the number it has drawn
    sent,        \* what was broadcast since the process started, in order
    poller,      \* seen_seq and what was handed on, oldest first
    stream,      \* the state of each SSE connection
    crashes      \* history: crashes so far

store == <<next_seq, saved_seq, file, ended>>
vars  == <<store, emitter, sent, poller, stream, crashes>>

Quiet     == [pc |-> "idle", seq |-> 0]
NewPoller == [pc |-> "polling", seen |-> 0, got |-> <<>>]
NoStream  == [pc |-> "none", compat |-> FALSE, since |-> 0, last |-> 0, start |-> 0, pos |-> 0,
              got |-> <<>>]

Init ==
    /\ next_seq = 1 /\ saved_seq = 1
    /\ file = [t \in Threads |-> <<>>] /\ ended = [t \in Threads |-> {}]
    /\ emitter = [e \in Emitters |-> Quiet]
    /\ sent = <<>>
    /\ poller = [p \in Pollers |-> NewPoller]
    /\ stream = [s \in Streams |-> NoStream]
    /\ crashes = 0

-----------------------------------------------------------------------------
(* emit_event and append_event.                                            *)

Goes(e, pc, seq) == emitter' = [emitter EXCEPT ![e] = [pc |-> pc, seq |-> seq]]
Stops(e) == Goes(e, "idle", 0)

AllocateUnsaved(e) ==                    \* mutant: state.json is not rewritten
    /\ emitter[e].pc = "idle" /\ next_seq <= MaxSeq
    /\ next_seq' = next_seq + 1 /\ Goes(e, "text", next_seq)
    /\ UNCHANGED <<saved_seq, file, ended, sent, poller, stream, crashes>>
\* The critical section: draw a number and rewrite state.json.  When that
\* write fails the number is lost to memory but never used.
Allocate(e) ==
    /\ emitter[e].pc = "idle" /\ next_seq <= MaxSeq
    /\ next_seq' = next_seq + 1
    /\ \/ saved_seq' = next_seq' /\ Goes(e, "text", next_seq)
       \/ "disk" \in Faults /\ UNCHANGED <<saved_seq, emitter>>
    /\ UNCHANGED <<file, ended, sent, poller, stream, crashes>>

WriteRecord(e) ==
    /\ emitter[e].pc = "text"
    /\ Goes(e, "newline", emitter[e].seq)
    /\ file' = [file EXCEPT ![ThreadOf[e]] = Append(@, emitter[e].seq)]
    /\ UNCHANGED <<next_seq, saved_seq, ended, sent, poller, stream, crashes>>

\* The second write of writeln!; flush and sync_all follow, and may fail.
WriteEndOfLine(e) ==
    LET t == ThreadOf[e] IN
    /\ emitter[e].pc = "newline"
    /\ \/ Goes(e, "send", emitter[e].seq)
       \/ "disk" \in Faults /\ Stops(e)
    /\ ended' = [ended EXCEPT ![t] = @ \cup {Len(file[t])}]
    /\ UNCHANGED <<next_seq, saved_seq, file, sent, poller, stream, crashes>>

WriteFails(e) ==
    /\ "disk" \in Faults /\ emitter[e].pc \in {"text", "newline"}
    /\ Stops(e)
    /\ UNCHANGED <<store, sent, poller, stream, crashes>>

Broadcast(e) ==
    /\ emitter[e].pc = "send"
    /\ sent' = Append(sent, [thread |-> ThreadOf[e], seq |-> emitter[e].seq])
    /\ Stops(e)
    /\ UNCHANGED <<store, poller, stream, crashes>>

emit_event(e) ==
    \/ Allocate(e) \/ WriteRecord(e) \/ WriteEndOfLine(e)
    \/ WriteFails(e) \/ Broadcast(e)

-----------------------------------------------------------------------------
(* events_since.                                                           *)

\* Two records on one line: serde_json rejects the line, and the call fails.
\* Empty lines are skipped.
Readable(t) == \A i \in 1 .. Len(file[t]) - 1 : i \in ended[t]

\* The records a loop over a log keeps, in order, and the k-th place of a set
\* of places: SelectSeq, in a form that proofs can use.
Nth(places, k) == CHOOSE i \in places : Cardinality({j \in places : j < i}) = k - 1
Kept(log, places) == [k \in 1 .. Cardinality(places) |-> log[Nth(places, k)]]

events_since_inclusive(t, since) ==      \* mutant: < instead of <=
    Kept(file[t], {i \in DOMAIN file[t] : file[t][i] >= since})
events_since(t, since) ==
    Kept(file[t], {i \in DOMAIN file[t] : file[t][i] > since})

Elements(s)     == {s[i] : i \in DOMAIN s}
Greatest(low, s) == CHOOSE m \in Elements(s) \cup {low} : \A x \in Elements(s) \cup {low} : m >= x

-----------------------------------------------------------------------------
(* The poll loop of EngineTaskExecutor::execute.                           *)

SeenByCounter(p, batch) == next_seq - 1  \* mutant: the cursor is the global counter
Seen(p, batch) == Greatest(poller[p].seen, batch)

Poll(p) ==
    /\ poller[p].pc = "polling"
    /\ UNCHANGED <<store, emitter, sent, stream, crashes>>
    /\ \/ /\ ~Readable(ThreadOf[p])
          /\ poller' = [poller EXCEPT ![p].pc = "failed"]
       \/ /\ Readable(ThreadOf[p])
          /\ \E batch \in {events_since(ThreadOf[p], poller[p].seen)} :
                poller' = [poller EXCEPT ![p].seen = Seen(p, batch), ![p].got = @ \o batch]

-----------------------------------------------------------------------------
(* stream_thread_events, and stream_turn, which does the same for the one   *)
(* turn it starts, but compares no numbers.                                *)

\* A client connects for the whole log, or after a record that an earlier
\* connection of its own delivered before it ended.
Since(s) == {0} \cup Elements(stream[s].got)

\* The position after the backlog is that of its last line, not its greatest.
LastSeqByCounter(since, backlog) == next_seq - 1      \* mutant: as above
LastSeq(since, backlog) ==
    IF backlog = <<>> THEN since ELSE backlog[Len(backlog)]

\* events_since; an unreadable file ends the request with an error.
Connects(s, since, compat) ==
    /\ stream[s].pc \in {"none", "closed"}
    /\ Readable(ThreadOf[s])
    /\ LET backlog == events_since(ThreadOf[s], since)
       IN  stream' = [stream EXCEPT ![s] =
              [pc |-> "backlog", compat |-> compat, since |-> since,
               last |-> LastSeq(since, backlog), start |-> 0, pos |-> 0, got |-> backlog]]
    /\ UNCHANGED <<store, emitter, sent, poller, crashes>>

ReadBacklog(s) == \E since \in Since(s) : Connects(s, since, FALSE)
stream_turn(s) == Connects(s, 0, TRUE)

Subscribe(s) ==
    /\ stream[s].pc = "backlog"
    /\ stream' = [stream EXCEPT ![s].pc = "live", ![s].start = Len(sent), ![s].pos = Len(sent)]
    /\ UNCHANGED <<store, emitter, sent, poller, crashes>>

Lagged(s) == Len(sent) - stream[s].pos > Capacity

AcceptAll(s, event) == event.thread = ThreadOf[s]     \* mutant: no comparison with last_seq
Accepts(s, event) ==
    event.thread = ThreadOf[s] /\ (stream[s].compat \/ event.seq > stream[s].last)

Receive(s) ==
    /\ stream[s].pc = "live" /\ stream[s].pos < Len(sent) /\ ~Lagged(s)
    /\ UNCHANGED <<store, emitter, sent, poller, crashes>>
    /\ LET event == sent[stream[s].pos + 1]
       IN  stream' = [stream EXCEPT ![s] =
              IF Accepts(s, event)
              THEN [stream[s] EXCEPT !.pos = @ + 1, !.last = event.seq, !.got = Append(@, event.seq)]
              ELSE [stream[s] EXCEPT !.pos = @ + 1]]

\* recv returns Lagged and the stream ends, or the client hangs up.
Close(s) ==
    /\ stream[s].pc = "live"
    /\ UNCHANGED <<store, emitter, sent, poller, crashes>>
    /\ stream' = [stream EXCEPT ![s].pc = "closed"]

stream_thread_events(s) ==
    ReadBacklog(s) \/ stream_turn(s) \/ Subscribe(s) \/ Receive(s) \/ Close(s)

-----------------------------------------------------------------------------
\* The process dies and RuntimeThreadStore::open reads state.json.
Crash ==
    /\ crashes < MaxCrashes /\ crashes' = crashes + 1
    /\ next_seq' = saved_seq
    /\ emitter' = [e \in Emitters |-> Quiet]
    /\ sent' = <<>>
    /\ poller' = [p \in Pollers |-> NewPoller]
    /\ stream' = [s \in Streams |->
          IF stream[s].pc = "none" THEN NoStream ELSE [stream[s] EXCEPT !.pc = "closed"]]
    /\ UNCHANGED <<saved_seq, file, ended>>

Next ==
    \/ \E e \in Emitters : emit_event(e)
    \/ \E p \in Pollers : Poll(p)
    \/ \E s \in Streams : stream_thread_events(s)
    \/ Crash

Spec == Init /\ [][Next]_vars

-----------------------------------------------------------------------------
(* Fairness: a poller sleeps 40 ms and polls again, and a connection that is *)
(* open is polled by its server task.  Nothing is asked of the emitters.     *)
PollerFairness == \A p \in Pollers : WF_vars(Poll(p))
StreamFairness == \A s \in Streams :
    WF_vars(Receive(s) \/ (Lagged(s) /\ Close(s)))

FairSpec == Spec /\ PollerFairness /\ StreamFairness

-----------------------------------------------------------------------------
(* Properties.                                                             *)

\* Type correctness of the store, the emitters and the subscribers.
TypeOK ==
    /\ next_seq \in Nat \ {0} /\ saved_seq \in Nat \ {0} /\ crashes \in Nat
    /\ file \in [Threads -> Seq(Nat)] /\ ended \in [Threads -> SUBSET Nat]
    /\ emitter \in [Emitters -> [pc : {"idle", "text", "newline", "send"}, seq : Nat]]
    /\ sent \in Seq([thread : Threads, seq : Nat])
    /\ poller \in [Pollers -> [pc : {"polling", "failed"}, seen : Nat, got : Seq(Nat)]]
    /\ stream \in [Streams -> [pc : {"none", "backlog", "live", "closed"}, compat : BOOLEAN,
                                since : Nat, last : Nat, start : Nat, pos : Nat, got : Seq(Nat)]]

\* No number is given to two records, of any threads, whatever fails and
\* however often the process restarts (append_event saves next_seq before it
\* lets anybody use the number).
SeqNeverReused ==
    /\ \A t, u \in Threads : \A i \in DOMAIN file[t], j \in DOMAIN file[u] :
          file[t][i] = file[u][j] => t = u /\ i = j
    /\ \A e \in Emitters, t \in Threads :
          emitter[e].pc = "text" => \A i \in DOMAIN file[t] : file[t][i] # emitter[e].seq
    /\ \A e, d \in Emitters :
          e # d /\ emitter[e].seq = emitter[d].seq => emitter[e].pc = "idle"

\* Tasks that emit for one thread (its monitor, interrupt_turn, steer_turn, ...)
\* may write, and broadcast, in another order than they drew their numbers.  A
\* record is late when a greater number is before it in the file.
Late(t, n)     == \E a, b \in DOMAIN file[t] : a < b /\ file[t][a] > n /\ file[t][b] = n
Overtook(t, n) == \E a, b \in DOMAIN file[t] : a < b /\ file[t][a] = n /\ file[t][b] < n
InLog(t, m, n) == \E a, b \in DOMAIN file[t] : a < b /\ file[t][a] = m /\ file[t][b] = n
BroadcastBefore(t, m, n) == \E a, b \in DOMAIN sent :
    /\ a < b /\ sent[a].thread = t /\ sent[b].thread = t
    /\ sent[a].seq = m /\ sent[b].seq = n

\* A poller has been handed records of its thread's log, in the order of the log
\* and each once; one that its cursor (seen_seq of the task executor) has passed
\* was handed to it, or was late.
PollerMissesOnlyLate == \A p \in Pollers :
    LET t == ThreadOf[p] got == poller[p].got IN
    /\ Elements(got) \subseteq Elements(file[t])
    /\ \A i, j \in DOMAIN got : i < j => InLog(t, got[i], got[j])
    /\ \A n \in Elements(file[t]) : n <= poller[p].seen => n \in Elements(got) \/ Late(t, n)

\* A connection delivers increasing numbers, so none twice, although backlog and
\* channel overlap (last_seq in stream_thread_events), but after a number that
\* overtook another one in the file.  stream_turn, which compares no numbers, goes
\* back at the seam of backlog and channel, and where the channel does.
StreamInOrder == \A s \in Streams :
    LET c == stream[s] t == ThreadOf[s] got == c.got IN
    IF ~c.compat
    THEN \A i, j \in DOMAIN got : i < j => got[i] < got[j] \/ Overtook(t, got[i])
    ELSE c.pc # "closed" => \E seam \in 0..Len(got) :
         \A i, j \in DOMAIN got : i < j /\ (j <= seam \/ seam < i) =>
            \/ got[i] < got[j]
            \/ got[i] # got[j] /\ (InLog(t, got[i], got[j]) \/ BroadcastBefore(t, got[i], got[j]))

\* The events of the connection's thread that it took from the channel since it
\* subscribed and had not been told to leave out.
Missed(s) ==
    {i \in stream[s].start + 1 .. stream[s].pos :
        /\ sent[i].thread = ThreadOf[s] /\ sent[i].seq > stream[s].since
        /\ sent[i].seq \notin Elements(stream[s].got)}

\* Of what was broadcast after the connection subscribed it leaves out only what
\* is late, in the file or on the channel.
LateOnChannel(i) ==
    \E j \in 1 .. i - 1 : sent[j].thread = sent[i].thread /\ sent[j].seq > sent[i].seq
LiveMissesOnlyLate == \A s \in Streams :
    stream[s].pc = "live" =>
        \A i \in Missed(s) : Late(ThreadOf[s], sent[i].seq) \/ LateOnChannel(i)

\* However writes fail and whenever the process restarts, every record of the log
\* that is not late reaches the poller of its thread (the executor waits for
\* turn.completed in this way) unless the file cannot be read, and a connection
\* that stays open takes what was broadcast to it.
ReadersCatchUp == []<>(
    /\ \A p \in Pollers : \/ poller[p].pc = "failed"
                          \/ \A n \in Elements(file[ThreadOf[p]]) :
                                n \in Elements(poller[p].got) \/ Late(ThreadOf[p], n)
    /\ \A s \in Streams : stream[s].pc = "live" => stream[s].pos = Len(sent))
=============================================================================
