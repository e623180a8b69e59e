---------------------------- MODULE EventLogProofs ----------------------------
(***************************************************************************)
(* What the event log promises, for every set of threads, emitters, pollers*)
(* and streams, every assignment of emitters to threads, any capacity of   *)
(* the channel, and any number of crashes and failed writes: no number is  *)
(* used twice, and a poller or a connection leaves out, or delivers out of *)
(* order, only what emitters of one thread have written or broadcast late. *)
(***************************************************************************)
EXTENDS EventLog, QueueLemmas, FunctionTheorems

EmitterState == [pc : {"idle", "text", "newline", "send"}, seq : Nat]

\* The types the argument needs: those of the store and of the emitters.
StoreType ==
    /\ next_seq \in Nat \ {0} /\ saved_seq \in Nat \ {0}
    /\ file \in [Threads -> Seq(Nat)]
    /\ emitter \in [Emitters -> EmitterState]

\* Why a fresh number is fresh: everything in a file or in the hands of an
\* emitter is below the counter on disk, which is never above the counter in
\* memory, so this survives the crash that forgets the latter.
BelowCounter ==
    /\ saved_seq <= next_seq
    /\ \A t \in Threads : \A i \in DOMAIN file[t] : file[t][i] < saved_seq
    /\ \A e \in Emitters : /\ emitter[e].seq < saved_seq
                           /\ emitter[e].pc # "idle" => emitter[e].seq > 0

\* The inductive invariant.
IInv == StoreType /\ BelowCounter /\ SeqNeverReused

LEMMA Initially == Init => IInv
BY DEF Init, IInv, StoreType, EmitterState, BelowCounter, SeqNeverReused, Quiet

\* Nothing the invariant speaks of changes: pollers and streams only read.
LEMMA StoreUntouched ==
    ASSUME IInv, UNCHANGED <<next_seq, saved_seq, file, emitter>> PROVE IInv'
BY DEF IInv, StoreType, BelowCounter, SeqNeverReused

\* An emitter that stops, or goes on with the number it has, and writes no record.
LEMMA Moves ==
    ASSUME IInv, NEW e \in Emitters, UNCHANGED <<next_seq, saved_seq, file>>,
           Stops(e) \/ (emitter[e].pc # "idle" /\ Goes(e, "send", emitter[e].seq))
    PROVE  IInv'
<1>1. /\ \A d \in Emitters \ {e} : emitter'[d] = emitter[d]
      /\ \/ emitter'[e] = [pc |-> "idle", seq |-> 0]
         \/ emitter'[e] = [pc |-> "send", seq |-> emitter[e].seq] /\ emitter[e].pc # "idle"
      /\ emitter' \in [Emitters -> EmitterState]
  <2>1. \E r \in EmitterState :
            /\ emitter' = [emitter EXCEPT ![e] = r]
            /\ \/ r = [pc |-> "idle", seq |-> 0]
               \/ r = [pc |-> "send", seq |-> emitter[e].seq] /\ emitter[e].pc # "idle"
    BY DEF IInv, StoreType, EmitterState, Stops, Goes
  <2> QED BY <2>1 DEF IInv, StoreType
<1>2. StoreType'
  BY <1>1 DEF IInv, StoreType
<1>3. BelowCounter'
  BY <1>1 DEF IInv, StoreType, BelowCounter
<1>4. SeqNeverReused'
  <2>1. ASSUME NEW d \in Emitters, NEW t \in Threads, emitter'[d].pc = "text",
               NEW i \in DOMAIN file'[t]
        PROVE  file'[t][i] # emitter'[d].seq
    <3>1. emitter[d] = emitter'[d]
      BY <1>1, <2>1
    <3> QED BY <2>1, <3>1 DEF IInv, SeqNeverReused
  <2>2. ASSUME NEW c \in Emitters, NEW d \in Emitters, c # d,
               emitter'[c].seq = emitter'[d].seq
        PROVE  emitter'[c].pc = "idle"
    BY <2>2, <1>1 DEF IInv, StoreType, BelowCounter, SeqNeverReused
  <2>3. \A t, u \in Threads : \A i \in DOMAIN file'[t], j \in DOMAIN file'[u] :
            file'[t][i] = file'[u][j] => t = u /\ i = j
    BY DEF IInv, SeqNeverReused
  <2> QED BY <2>1, <2>2, <2>3 DEF SeqNeverReused
<1> QED BY <1>2, <1>3, <1>4 DEF IInv

LEMMA AllocateStep ==
    ASSUME IInv, NEW e \in Emitters, Allocate(e) PROVE IInv'
<1>1. CASE saved_seq' = next_seq' /\ Goes(e, "text", next_seq)
  <2>1. StoreType'
    BY <1>1 DEF IInv, StoreType, EmitterState, Allocate, Goes
  <2>2. BelowCounter'
    BY <1>1 DEF IInv, StoreType, EmitterState, BelowCounter, Allocate, Goes
  <2>3. SeqNeverReused'
    BY <1>1 DEF IInv, StoreType, EmitterState, BelowCounter, SeqNeverReused, Allocate, Goes
  <2> QED BY <2>1, <2>2, <2>3 DEF IInv
<1>2. CASE UNCHANGED <<saved_seq, emitter>>
  BY <1>2 DEF IInv, StoreType, BelowCounter, SeqNeverReused, Allocate
<1> QED BY <1>1, <1>2 DEF Allocate

\* One more record at the end of a file.
LEMMA Appended ==
    ASSUME IInv, NEW e \in Emitters, WriteRecord(e)
    PROVE  /\ file' \in [Threads -> Seq(Nat)]
           /\ \A t \in Threads : t # ThreadOf[e] => file'[t] = file[t]
           /\ LET log == file[ThreadOf[e]] grown == file'[ThreadOf[e]] IN
              /\ Len(grown) = Len(log) + 1 /\ grown[Len(log) + 1] = emitter[e].seq
              /\ \A i \in 1..Len(log) : grown[i] = log[i]
<1> DEFINE t == ThreadOf[e] n == emitter[e].seq
<1>1. t \in Threads /\ n \in Nat /\ file \in [Threads -> Seq(Nat)] /\ file[t] \in Seq(Nat)
  BY EventLogAssumption DEF IInv, StoreType, EmitterState
<1>2. file' = [file EXCEPT ![t] = Append(file[t], n)]
  BY DEF WriteRecord
<1>3. /\ Append(file[t], n) \in Seq(Nat) /\ Len(Append(file[t], n)) = Len(file[t]) + 1
      /\ Append(file[t], n)[Len(file[t]) + 1] = n
      /\ \A i \in 1..Len(file[t]) : Append(file[t], n)[i] = file[t][i]
  BY <1>1, AppendProperties
<1> HIDE DEF t, n
<1> QED BY <1>1, <1>2, <1>3 DEF t, n

LEMMA WriteRecordStep ==
    ASSUME IInv, NEW e \in Emitters, WriteRecord(e) PROVE IInv'
<1> DEFINE n == emitter[e].seq T == ThreadOf[e]
<1>0. /\ n \in Nat /\ Goes(e, "newline", n) /\ emitter[e].pc = "text" /\ T \in Threads
      /\ UNCHANGED <<next_seq, saved_seq>> /\ file \in [Threads -> Seq(Nat)]
  BY EventLogAssumption DEF IInv, StoreType, EmitterState, WriteRecord
<1>1. /\ file' \in [Threads -> Seq(Nat)]
      /\ \A t \in Threads : DOMAIN file[t] = 1..Len(file[t]) /\ DOMAIN file'[t] = 1..Len(file'[t])
                            /\ Len(file[t]) \in Nat
      /\ \A t \in Threads : t # T => file'[t] = file[t]
      /\ Len(file'[T]) = Len(file[T]) + 1 /\ file'[T][Len(file[T]) + 1] = n
      /\ \A i \in 1..Len(file[T]) : file'[T][i] = file[T][i]
  <2>1. file' \in [Threads -> Seq(Nat)]
    BY Appended
  <2>2. \A t \in Threads : file[t] \in Seq(Nat) /\ file'[t] \in Seq(Nat)
    BY <1>0, <2>1
  <2>3. \A t \in Threads : DOMAIN file[t] = 1..Len(file[t]) /\ DOMAIN file'[t] = 1..Len(file'[t])
                           /\ Len(file[t]) \in Nat
    BY <2>2, LenProperties
  <2> QED BY <2>1, <2>3, Appended
<1>e. /\ \A d \in Emitters \ {e} : emitter'[d] = emitter[d]
      /\ emitter'[e] = [pc |-> "newline", seq |-> n] /\ emitter' \in [Emitters -> EmitterState]
  BY <1>0 DEF IInv, StoreType, EmitterState, Goes
<1>f. \A t \in Threads : \A i \in DOMAIN file[t] : file[t][i] # n
  BY <1>0 DEF IInv, SeqNeverReused
<1> HIDE DEF n, T
<1>g. \A t \in Threads : \A i \in DOMAIN file'[t] :
          \/ i \in DOMAIN file[t] /\ file'[t][i] = file[t][i]
          \/ t = T /\ i = Len(file[T]) + 1 /\ file'[t][i] = n
  <2> SUFFICES ASSUME NEW t \in Threads, NEW i \in DOMAIN file'[t]
               PROVE  \/ i \in DOMAIN file[t] /\ file'[t][i] = file[t][i]
                      \/ t = T /\ i = Len(file[T]) + 1 /\ file'[t][i] = n
    OBVIOUS
  <2>1. CASE t # T
    BY <1>1, <2>1
  <2>2. CASE t = T
    <3>1. i \in 1..(Len(file[T]) + 1) /\ Len(file[T]) \in Nat /\ DOMAIN file[T] = 1..Len(file[T])
      BY <1>0, <1>1, <2>2
    <3>2. CASE i \in 1..Len(file[T])
      BY <1>1, <2>2, <3>1, <3>2
    <3>3. CASE i = Len(file[T]) + 1
      BY <1>1, <2>2, <3>3
    <3> QED BY <3>1, <3>2, <3>3
  <2> QED BY <2>1, <2>2
<1>2. StoreType'
  BY <1>0, <1>1, <1>e DEF IInv, StoreType
<1>3. BelowCounter'
  <2>1. n < saved_seq /\ n > 0
    BY <1>0 DEF IInv, BelowCounter, n
  <2>2. \A t \in Threads : \A i \in DOMAIN file'[t] : file'[t][i] < saved_seq
    BY <1>g, <2>1 DEF IInv, BelowCounter
  <2>3. \A d \in Emitters : /\ emitter'[d].seq < saved_seq
                            /\ emitter'[d].pc # "idle" => emitter'[d].seq > 0
    BY <1>e, <2>1 DEF IInv, BelowCounter
  <2> QED BY <1>0, <2>2, <2>3 DEF IInv, BelowCounter
<1>4. SeqNeverReused'
  <2>1. ASSUME NEW t \in Threads, NEW u \in Threads,
               NEW i \in DOMAIN file'[t], NEW j \in DOMAIN file'[u],
               file'[t][i] = file'[u][j]
        PROVE  t = u /\ i = j
    <3> DEFINE Old(v, k) == k \in DOMAIN file[v] /\ file'[v][k] = file[v][k]
               New(v, k) == v = T /\ k = Len(file[T]) + 1 /\ file'[v][k] = n
    <3>1. (Old(t, i) \/ New(t, i)) /\ (Old(u, j) \/ New(u, j))
      BY <1>g
    <3>2. CASE Old(t, i) /\ Old(u, j)
      <4>1. i \in DOMAIN file[t] /\ j \in DOMAIN file[u] /\ file[t][i] = file[u][j]
        BY <3>2, <2>1
      <4> QED BY <4>1 DEF IInv, SeqNeverReused
    <3>3. CASE New(t, i) /\ New(u, j)
      BY <3>3
    <3>4. CASE New(t, i) /\ Old(u, j)
      BY <3>4, <2>1, <1>f
    <3>5. CASE Old(t, i) /\ New(u, j)
      BY <3>5, <2>1, <1>f
    <3> QED BY <3>1, <3>2, <3>3, <3>4, <3>5
  <2>2. ASSUME NEW d \in Emitters, NEW t \in Threads, emitter'[d].pc = "text",
               NEW i \in DOMAIN file'[t]
        PROVE  file'[t][i] # emitter'[d].seq
    <3>1. emitter[d].pc = "text" /\ emitter'[d].seq = emitter[d].seq /\ d # e
      BY <2>2, <1>e
    <3>2. emitter[d].seq # n
      BY <3>1, <1>0 DEF IInv, SeqNeverReused, n
    <3> QED BY <3>1, <3>2, <1>g DEF IInv, SeqNeverReused
  <2>3. ASSUME NEW c \in Emitters, NEW d \in Emitters, c # d,
               emitter'[c].seq = emitter'[d].seq
        PROVE  emitter'[c].pc = "idle"
    <3>1. emitter[c].seq = emitter[d].seq
      BY <2>3, <1>e DEF n
    <3> QED BY <2>3, <1>0, <1>e, <3>1 DEF IInv, SeqNeverReused, n
  <2> QED BY <2>1, <2>2, <2>3 DEF SeqNeverReused
<1> QED BY <1>2, <1>3, <1>4 DEF IInv

LEMMA CrashStep == ASSUME IInv, Crash PROVE IInv'
<1>1. StoreType'
  BY DEF IInv, StoreType, EmitterState, Crash, Quiet
<1>2. BelowCounter'
  BY DEF IInv, StoreType, BelowCounter, Crash, Quiet
<1>3. SeqNeverReused'
  BY DEF IInv, StoreType, SeqNeverReused, Crash, Quiet
<1> QED BY <1>1, <1>2, <1>3 DEF IInv

LEMMA Step == ASSUME IInv, [Next]_vars PROVE IInv'
<1>1. CASE UNCHANGED vars
  BY <1>1, StoreUntouched DEF vars, store
<1>2. ASSUME NEW e \in Emitters, emit_event(e) PROVE IInv'
  <2>1. CASE Allocate(e)        BY <2>1, AllocateStep
  <2>2. CASE WriteRecord(e)     BY <2>2, WriteRecordStep
  <2>3. CASE WriteEndOfLine(e)  BY <2>3, Moves DEF WriteEndOfLine
  <2>4. CASE WriteFails(e)      BY <2>4, Moves DEF WriteFails, store
  <2>5. CASE Broadcast(e)       BY <2>5, Moves DEF Broadcast, store
  <2> QED BY <1>2, <2>1, <2>2, <2>3, <2>4, <2>5 DEF emit_event
<1>3. ASSUME NEW p \in Pollers, Poll(p) PROVE IInv'
  BY <1>3, StoreUntouched DEF Poll, store
<1>4. ASSUME NEW s \in Streams, stream_thread_events(s) PROVE IInv'
  BY <1>4, StoreUntouched
     DEF stream_thread_events, stream_turn, Connects, ReadBacklog, Subscribe, Receive, Close, store
<1>5. CASE Crash
  BY <1>5, CrashStep
<1> QED BY <1>1, <1>2, <1>3, <1>4, <1>5 DEF Next

\* append_event never gives one number to two records, of whichever threads,
\* across crashes, restarts and failed writes.
THEOREM SeqIsUnique == Spec => []SeqNeverReused
<1>1. IInv => SeqNeverReused BY DEF IInv
<1> QED BY Initially, Step, <1>1, PTL DEF Spec


-----------------------------------------------------------------------------
(* events_since and the cursor.                                            *)

\* What Kept returns: the records at the places, in the order of the places.
LEMMA KeptIs ==
    ASSUME NEW log \in Seq(Nat), NEW I \in SUBSET DOMAIN log
    PROVE  LET b == Kept(log, I) IN
           /\ b \in Seq(Nat)
           /\ \A k \in DOMAIN b : \E i \in I : b[k] = log[i]
           /\ \A j, k \in DOMAIN b : j < k => \E h, i \in I : h < i /\ b[j] = log[h] /\ b[k] = log[i]
           /\ \A i \in I : \E k \in DOMAIN b : b[k] = log[i]
<1> DEFINE n == Cardinality(I)
           Below(i) == {j \in I : j < i}
           rank == [i \in I |-> Cardinality(Below(i)) + 1]
           b == Kept(log, I)
<1>1. /\ DOMAIN log = 1..Len(log) /\ Len(log) \in Nat /\ \A i \in DOMAIN log : log[i] \in Nat
      /\ \A i \in I : i \in Nat /\ log[i] \in Nat
    BY LenProperties, ElementOfSeq
<1>2. IsFiniteSet(I) /\ n \in Nat
    <2>1. IsFiniteSet(1..Len(log))
        BY <1>1, FS_Interval
    <2>2. IsFiniteSet(I)
        BY <1>1, <2>1, FS_Subset
    <2> QED BY <2>2, FS_CardinalityType
<1>3. ASSUME NEW i \in I
      PROVE  IsFiniteSet(Below(i)) /\ Cardinality(Below(i)) \in 0..n - 1
    <2>1. Below(i) \in SUBSET I /\ Below(i) # I
        BY <1>1
    <2> HIDE DEF Below
    <2>2. IsFiniteSet(Below(i)) /\ Cardinality(Below(i)) <= n /\ n # Cardinality(Below(i))
        BY <1>2, <2>1, FS_Subset
    <2>3. Cardinality(Below(i)) \in Nat
        BY <2>2, FS_CardinalityType
    <2> QED BY <1>2, <2>2, <2>3
<1>4. ASSUME NEW h \in I, NEW i \in I, h < i PROVE Cardinality(Below(h)) < Cardinality(Below(i))
    <2>1. Below(h) \in SUBSET Below(i) /\ Below(h) # Below(i)
        BY <1>1, <1>4
    <2> HIDE DEF Below, n
    <2>2. IsFiniteSet(Below(i)) /\ Cardinality(Below(i)) \in Nat /\ Cardinality(Below(h)) \in Nat
        BY <1>2, <1>3
    <2>3. Cardinality(Below(h)) <= Cardinality(Below(i)) /\ Cardinality(Below(h)) # Cardinality(Below(i))
        BY <2>1, <2>2, FS_Subset
    <2> QED BY <2>2, <2>3
<1> HIDE DEF n, Below
<1>5. rank \in [I -> 1..n]
    BY <1>2, <1>3
<1>6. ASSUME NEW h \in I, NEW i \in I, rank[h] = rank[i] PROVE h = i
    <2>1. Cardinality(Below(h)) = Cardinality(Below(i)) /\ Cardinality(Below(h)) \in Nat
        BY <1>2, <1>3, <1>6
    <2>2. ~(h < i) /\ ~(i < h)
        BY <1>4, <2>1
    <2> QED BY <1>1, <2>2
<1>7. \A k \in 1..n : \E i \in I : rank[i] = k
    <2>1. rank \in Injection(I, 1..n)
        BY <1>5, <1>6, Fun_IsInj
    <2>2. IsFiniteSet(1..n) /\ Cardinality(1..n) = n
        BY <1>2, FS_Interval
    <2> HIDE DEF rank
    <2>3. rank \in Surjection(I, 1..n)
        BY <2>1, <2>2, FS_Injection DEF n
    <2> QED BY <2>3, Fun_SurjectionProperties
<1>8. ASSUME NEW k \in 1..n PROVE Nth(I, k) \in I /\ rank[Nth(I, k)] = k
    <2>1. \A i \in I : rank[i] = k <=> Cardinality(Below(i)) = k - 1
        <3> TAKE i \in I
        <3>1. Cardinality(Below(i)) \in Nat /\ k \in Nat
            BY <1>2, <1>3
        <3>2. rank[i] = Cardinality(Below(i)) + 1
            OBVIOUS
        <3> HIDE DEF rank
        <3> QED BY <3>1, <3>2
    <2>2. \E i \in I : Cardinality(Below(i)) = k - 1
        BY <1>7, <2>1
    <2>3. Nth(I, k) \in I /\ Cardinality(Below(Nth(I, k))) = k - 1
        BY <2>2 DEF Nth, Below
    <2> QED BY <2>1, <2>3
<1>9. b = [k \in 1..n |-> log[Nth(I, k)]]
    BY DEF Kept, n
<1>10. b \in Seq(Nat) /\ DOMAIN b = 1..n /\ \A k \in 1..n : b[k] = log[Nth(I, k)]
    <2>1. b \in [1..n -> Nat]
        BY <1>1, <1>8, <1>9
    <2> QED BY <1>2, <1>9, <2>1, SeqDef
<1> HIDE DEF b
<1>11. ASSUME NEW j \in 1..n, NEW k \in 1..n, j < k PROVE Nth(I, j) < Nth(I, k)
    <2> DEFINE h == Nth(I, j) i == Nth(I, k)
    <2>1. h \in I /\ i \in I /\ rank[h] = j /\ rank[i] = k
        BY <1>8
    <2>2. h # i
        BY <1>2, <1>11, <2>1
    <2>3. ~(i < h)
        <3> SUFFICES ASSUME i < h PROVE FALSE
            OBVIOUS
        <3>1. Cardinality(Below(i)) < Cardinality(Below(h))
            BY <1>4, <2>1
        <3>2. Cardinality(Below(i)) + 1 = k /\ Cardinality(Below(h)) + 1 = j
            BY <2>1
        <3>3. Cardinality(Below(i)) \in Nat /\ Cardinality(Below(h)) \in Nat
            BY <1>2, <1>3, <2>1
        <3> QED BY <1>2, <1>11, <3>1, <3>2, <3>3
    <2> QED BY <1>1, <2>1, <2>2, <2>3
<1>12. \A i \in I : \E k \in 1..n : Nth(I, k) = i
    <2> TAKE i \in I
    <2>1. rank[i] \in 1..n
        BY <1>5
    <2>2. Nth(I, rank[i]) = i
        <3> HIDE DEF rank
        <3> QED BY <1>6, <1>8, <2>1
    <2> QED BY <2>1, <2>2
<1> HIDE DEF rank
<1>13. /\ \A k \in DOMAIN b : \E i \in I : b[k] = log[i]
       /\ \A i \in I : \E k \in DOMAIN b : b[k] = log[i]
    <2>1. \A k \in 1..n : Nth(I, k) \in I /\ b[k] = log[Nth(I, k)]
        BY <1>8, <1>10
    <2> QED BY <1>10, <1>12, <2>1
<1>14. ASSUME NEW j \in DOMAIN b, NEW k \in DOMAIN b, j < k
       PROVE  \E h, i \in I : h < i /\ b[j] = log[h] /\ b[k] = log[i]
    <2>1. Nth(I, j) \in I /\ Nth(I, k) \in I /\ Nth(I, j) < Nth(I, k)
        BY <1>8, <1>10, <1>11, <1>14
    <2> QED BY <1>10, <1>14, <2>1
<1> QED BY <1>10, <1>13, <1>14 DEF b

\* The greatest of a number and of records that have a bound.
LEMMA GreatestIs ==
    ASSUME NEW low \in Nat, NEW b \in Seq(Nat), NEW u \in Nat, \A i \in DOMAIN b : b[i] < u
    PROVE  /\ Greatest(low, b) \in Elements(b) \cup {low}
           /\ \A x \in Elements(b) \cup {low} : x <= Greatest(low, b)
<1> DEFINE S == Elements(b) \cup {low}
           B == {v \in Nat : \A x \in S : x <= v}
<1>1. S \subseteq Nat /\ low \in S /\ \A x \in S : x <= u + low
    <2>1. \A i \in DOMAIN b : b[i] \in Nat
        BY LenProperties, ElementOfSeq
    <2> QED BY <2>1 DEF Elements
<1> HIDE DEF S
<1>2. PICK v \in B : \A w \in B : v <= w
    <2>1. B \subseteq Nat /\ u + low \in B
        BY <1>1
    <2> HIDE DEF B
    <2> QED BY <2>1, NatHasLeast
<1>3. v \in S
    <2> SUFFICES ASSUME v \notin S PROVE FALSE
        OBVIOUS
    <2>1. v \in Nat /\ \A x \in S : x <= v /\ x # v
        BY <1>1, <1>2
    <2>2. v # 0 /\ v - 1 \in Nat
        BY <1>1, <2>1
    <2>3. \A x \in S : x <= v - 1
        BY <1>1, <2>1, <2>2
    <2>4. v <= v - 1
        BY <1>2, <2>2, <2>3
    <2> QED BY <2>1, <2>4
<1>4. \E m \in S : \A x \in S : m >= x
    BY <1>1, <1>2, <1>3
<1>5. Greatest(low, b) \in S /\ \A x \in S : Greatest(low, b) >= x
    BY <1>4 DEF Greatest, S
<1>6. \A x \in S : x <= Greatest(low, b)
    BY <1>1, <1>5
<1> QED BY <1>5, <1>6 DEF S

\* A log has no number twice; it grows at its end.
IsLog(log) == /\ log \in Seq(Nat)
              /\ \A i \in DOMAIN log : log[i] > 0
              /\ \A i, j \in DOMAIN log : log[i] = log[j] => i = j
Grows(log, new) == Len(log) <= Len(new) /\ \A i \in 1..Len(log) : new[i] = log[i]

\* Late, Overtook and InLog, of a log.
IsLate(log, n)    == \E a, b \in DOMAIN log : a < b /\ log[a] > n /\ log[b] = n
HasPassed(log, n) == \E a, b \in DOMAIN log : a < b /\ log[a] = n /\ log[b] < n
Before(log, m, n) == \E a, b \in DOMAIN log : a < b /\ log[a] = m /\ log[b] = n

LEMMA LogFacts ==
    ASSUME NEW log, IsLog(log)
    PROVE  /\ Len(log) \in Nat /\ DOMAIN log = 1..Len(log)
           /\ \A i \in 1..Len(log) : log[i] \in Nat /\ log[i] > 0 /\ log[i] \in Elements(log)
           /\ \A i, j \in 1..Len(log) : log[i] = log[j] => i = j
           /\ \A n \in Elements(log) : \E i \in 1..Len(log) : log[i] = n
<1>1. DOMAIN log = 1..Len(log) /\ Len(log) \in Nat /\ \A i \in DOMAIN log : log[i] \in Nat
    BY LenProperties, ElementOfSeq DEF IsLog
<1> QED BY <1>1 DEF IsLog, Elements

\* What is late, has passed or is before another stays so.
LEMMA LogGrows ==
    ASSUME NEW log, NEW new, IsLog(log), IsLog(new), Grows(log, new)
    PROVE  /\ \A n : IsLate(log, n) => IsLate(new, n)
           /\ \A n : HasPassed(log, n) => HasPassed(new, n)
           /\ \A m, n : Before(log, m, n) => Before(new, m, n)
           /\ \A n \in Elements(log) : n \in Elements(new)
<1>1. /\ DOMAIN log = 1..Len(log) /\ DOMAIN new = 1..Len(new) /\ Len(log) \in Nat /\ Len(new) \in Nat
      /\ \A i \in DOMAIN log : i \in DOMAIN new /\ new[i] = log[i]
    BY LogFacts DEF Grows
<1>2. \A n : IsLate(log, n) => IsLate(new, n)
    BY <1>1 DEF IsLate
<1>3. \A n : HasPassed(log, n) => HasPassed(new, n)
    BY <1>1 DEF HasPassed
<1>4. \A m, n : Before(log, m, n) => Before(new, m, n)
    BY <1>1 DEF Before
<1>5. \A n \in Elements(log) : n \in Elements(new)
    BY <1>1 DEF Elements
<1> QED BY <1>2, <1>3, <1>4, <1>5

\* What events_since returns: the records above since, in the order of the log.
Newer(log, since) == Kept(log, {i \in DOMAIN log : log[i] > since})

LEMMA NewerIs ==
    ASSUME NEW log, IsLog(log), NEW since \in Nat
    PROVE  LET b == Newer(log, since) IN
           /\ b \in Seq(Nat) /\ DOMAIN b = 1..Len(b) /\ Len(b) \in Nat
           /\ \A k \in 1..Len(b) : \E i \in 1..Len(log) : b[k] = log[i] /\ log[i] > since
           /\ \A j, k \in 1..Len(b) : j < k => Before(log, b[j], b[k])
           /\ \A i \in 1..Len(log) : log[i] > since => log[i] \in Elements(b)
<1> DEFINE I == {i \in DOMAIN log : log[i] > since} b == Newer(log, since)
<1>1. log \in Seq(Nat) /\ DOMAIN log = 1..Len(log) /\ I \in SUBSET DOMAIN log
    BY LogFacts DEF IsLog
<1>2. \A i : i \in I <=> i \in 1..Len(log) /\ log[i] > since
    BY <1>1
<1> HIDE DEF I
<1>3. /\ b \in Seq(Nat)
      /\ \A k \in DOMAIN b : \E i \in I : b[k] = log[i]
      /\ \A j, k \in DOMAIN b : j < k => \E h, i \in I : h < i /\ b[j] = log[h] /\ b[k] = log[i]
      /\ \A i \in I : \E k \in DOMAIN b : b[k] = log[i]
    <2>1. b = Kept(log, I)
        BY DEF Newer, I
    <2>2. LET r == Kept(log, I) IN
          /\ r \in Seq(Nat)
          /\ \A k \in DOMAIN r : \E i \in I : r[k] = log[i]
          /\ \A j, k \in DOMAIN r : j < k => \E h, i \in I : h < i /\ r[j] = log[h] /\ r[k] = log[i]
          /\ \A i \in I : \E k \in DOMAIN r : r[k] = log[i]
        BY <1>1, KeptIs
    <2> HIDE DEF b
    <2> QED BY <2>1, <2>2
<1> HIDE DEF b
<1>4. DOMAIN b = 1..Len(b) /\ Len(b) \in Nat
    BY <1>3, LenProperties
<1>5. \A j, k \in DOMAIN b : j < k => Before(log, b[j], b[k])
    BY <1>1, <1>2, <1>3 DEF Before
<1>6. \A i \in I : log[i] \in Elements(b)
    BY <1>3 DEF Elements
<1>7. \A k \in DOMAIN b : \E i \in 1..Len(log) : b[k] = log[i] /\ log[i] > since
    BY <1>2, <1>3
<1> QED BY <1>2, <1>3, <1>4, <1>5, <1>6, <1>7 DEF b

PollerState == [pc : {"polling", "failed"}, seen : Nat, got : Seq(Nat)]

\* A poller w of a log has been through a part of it: its cursor has passed that
\* part, and it was handed from there what was not late when it came by.
Cursor(w, log) ==
    /\ w \in PollerState
    /\ \E k \in 0..Len(log) :
          /\ w.seen = 0 \/ \E i \in 1..k : log[i] = w.seen
          /\ \A i \in 1..k : log[i] <= w.seen /\ (log[i] \in Elements(w.got) \/ IsLate(log, log[i]))
          /\ \A i \in 1..Len(w.got) : \E h \in 1..k : log[h] = w.got[i]
    /\ \A i, j \in 1..Len(w.got) : i < j => Before(log, w.got[i], w.got[j])

LEMMA CursorGrows ==
    ASSUME NEW log, NEW new, IsLog(log), IsLog(new), Grows(log, new), NEW w, Cursor(w, log)
    PROVE  Cursor(w, new)
<1>1. PICK k \in 0..Len(log) :
          /\ w.seen = 0 \/ \E i \in 1..k : log[i] = w.seen
          /\ \A i \in 1..k : log[i] <= w.seen /\ (log[i] \in Elements(w.got) \/ IsLate(log, log[i]))
          /\ \A i \in 1..Len(w.got) : \E h \in 1..k : log[h] = w.got[i]
    BY DEF Cursor
<1>2. Len(log) \in Nat /\ Len(new) \in Nat
    BY LogFacts
<1>3. k \in 0..Len(new) /\ \A i \in 1..k : new[i] = log[i]
    BY <1>1, <1>2 DEF Grows
<1>4. \A i \in 1..k : new[i] <= w.seen /\ (new[i] \in Elements(w.got) \/ IsLate(new, new[i]))
    BY <1>1, <1>3, LogGrows
<1>5. \A i, j \in 1..Len(w.got) : i < j => Before(new, w.got[i], w.got[j])
    BY LogGrows DEF Cursor
<1> QED BY <1>1, <1>3, <1>4, <1>5 DEF Cursor

\* What is in the log at or below the cursor was handed on or was late.
LEMMA CursorMisses ==
    ASSUME NEW log, IsLog(log), NEW w, Cursor(w, log), NEW h \in 1..Len(log), log[h] <= w.seen
    PROVE  log[h] \in Elements(w.got) \/ IsLate(log, log[h])
<1>1. PICK k \in 0..Len(log) :
          /\ w.seen = 0 \/ \E i \in 1..k : log[i] = w.seen
          /\ \A i \in 1..k : log[i] <= w.seen /\ (log[i] \in Elements(w.got) \/ IsLate(log, log[i]))
    BY DEF Cursor
<1>2. /\ DOMAIN log = 1..Len(log) /\ Len(log) \in Nat
      /\ \A i \in 1..Len(log) : log[i] \in Nat /\ log[i] > 0
      /\ \A i, j \in 1..Len(log) : log[i] = log[j] => i = j
    BY LogFacts
<1>3. CASE h \in 1..k
    BY <1>1, <1>3
<1>4. CASE h \notin 1..k
    <2>1. w.seen \in Nat /\ w.seen # 0
        BY <1>2 DEF Cursor, PollerState
    <2>2. PICK i \in 1..k : log[i] = w.seen
        BY <1>1, <2>1
    <2>3. i \in 1..Len(log) /\ i < h
        BY <1>1, <1>2, <1>4, <2>2
    <2>4. log[i] > log[h]
        BY <1>2, <2>1, <2>2, <2>3
    <2> QED BY <1>2, <2>3, <2>4 DEF IsLate
<1> QED BY <1>3, <1>4

LEMMA CursorPolls ==
    ASSUME NEW log, IsLog(log), NEW u \in Nat, \A i \in DOMAIN log : log[i] < u,
           NEW w, Cursor(w, log), NEW v,
           LET b == Newer(log, w.seen)
           IN  v = [w EXCEPT !.seen = Greatest(w.seen, b), !.got = @ \o b]
    PROVE  Cursor(v, log)
<1> DEFINE b == Newer(log, w.seen) m == Greatest(w.seen, b) g == w.got \o b
<1>1. /\ DOMAIN log = 1..Len(log) /\ Len(log) \in Nat
      /\ \A i \in 1..Len(log) : log[i] \in Nat /\ log[i] > 0
      /\ \A i, j \in 1..Len(log) : log[i] = log[j] => i = j
    BY LogFacts
<1>2. w \in PollerState /\ w.seen \in Nat /\ w.got \in Seq(Nat)
    BY DEF Cursor, PollerState
<1>3. PICK k \in 0..Len(log) :
          /\ w.seen = 0 \/ \E i \in 1..k : log[i] = w.seen
          /\ \A i \in 1..k : log[i] <= w.seen /\ (log[i] \in Elements(w.got) \/ IsLate(log, log[i]))
          /\ \A i \in 1..Len(w.got) : \E h \in 1..k : log[h] = w.got[i]
    BY DEF Cursor
<1>4. /\ b \in Seq(Nat) /\ DOMAIN b = 1..Len(b) /\ Len(b) \in Nat
      /\ \A i \in 1..Len(b) : \E h \in 1..Len(log) : b[i] = log[h] /\ log[h] > w.seen
      /\ \A i, j \in 1..Len(b) : i < j => Before(log, b[i], b[j])
      /\ \A i \in 1..Len(log) : log[i] > w.seen => log[i] \in Elements(b)
    BY <1>2, NewerIs
<1> HIDE DEF b
<1>5. m \in Elements(b) \cup {w.seen} /\ \A x \in Elements(b) \cup {w.seen} : x <= m
    <2>1. \A i \in DOMAIN b : b[i] < u
        BY <1>1, <1>4
    <2> QED BY <1>2, <1>4, <2>1, GreatestIs
<1>6. /\ g \in Seq(Nat) /\ Len(g) = Len(w.got) + Len(b) /\ Len(w.got) \in Nat
      /\ DOMAIN w.got = 1..Len(w.got) /\ DOMAIN g = 1..Len(g)
      /\ \A i \in 1..Len(w.got) : g[i] = w.got[i]
      /\ \A i \in Len(w.got) + 1..Len(g) : g[i] = b[i - Len(w.got)] /\ i - Len(w.got) \in 1..Len(b)
    <2>1. /\ g \in Seq(Nat) /\ Len(g) = Len(w.got) + Len(b) /\ Len(w.got) \in Nat
          /\ DOMAIN w.got = 1..Len(w.got) /\ DOMAIN g = 1..Len(g)
          /\ \A i \in 1..Len(w.got) : g[i] = w.got[i]
          /\ \A i \in Len(w.got) + 1..Len(w.got) + Len(b) : g[i] = b[i - Len(w.got)]
        BY <1>2, <1>4, ConcatProperties, LenProperties
    <2>2. \A i \in Len(w.got) + 1..Len(w.got) + Len(b) : i - Len(w.got) \in 1..Len(b)
        BY <1>4, <2>1
    <2> HIDE DEF g
    <2> QED BY <2>1, <2>2
<1> HIDE DEF g, m
<1>7. /\ \A n \in Elements(w.got) : n \in Elements(g)
      /\ \A n \in Elements(b) : n \in Elements(g)
    <2>1. \A i \in 1..Len(w.got) : i \in DOMAIN g /\ g[i] = w.got[i]
        BY <1>4, <1>6
    <2>2. \A i \in 1..Len(b) : i + Len(w.got) \in DOMAIN g /\ g[i + Len(w.got)] = b[i]
        <3> TAKE i \in 1..Len(b)
        <3>0. Len(g) = Len(w.got) + Len(b) /\ Len(w.got) \in Nat /\ Len(b) \in Nat
            BY <1>4, <1>6
        <3>1. /\ i + Len(w.got) \in Len(w.got) + 1..Len(g) /\ i + Len(w.got) \in 1..Len(g)
              /\ (i + Len(w.got)) - Len(w.got) = i
            BY <3>0
        <3>2. g[i + Len(w.got)] = b[(i + Len(w.got)) - Len(w.got)]
            BY <1>6, <3>1
        <3> QED BY <1>6, <3>1, <3>2
    <2>3. \A n \in Elements(w.got) : n \in Elements(g)
        BY <1>6, <2>1 DEF Elements
    <2>4. \A n \in Elements(b) : n \in Elements(g)
        BY <1>4, <2>2 DEF Elements
    <2> QED BY <2>3, <2>4
<1>8. m \in Nat /\ w.seen <= m /\ (m = 0 \/ \E i \in 1..Len(log) : log[i] = m)
    <2>1. CASE m = w.seen
        <3>1. 1..k \subseteq 1..Len(log)
            BY <1>1, <1>3
        <3> QED BY <1>2, <1>3, <2>1, <3>1
    <2>2. CASE m \in Elements(b)
        <3>1. PICK i \in 1..Len(b) : b[i] = m
            BY <1>4, <2>2 DEF Elements
        <3> QED BY <1>1, <1>4, <1>5, <3>1
    <2> QED BY <1>5, <2>1, <2>2
<1>9. ASSUME NEW i \in 1..Len(log)
      PROVE  log[i] <= m /\ (log[i] \in Elements(g) \/ IsLate(log, log[i]))
    <2>1. CASE log[i] > w.seen
        BY <1>4, <1>5, <1>7, <2>1
    <2>2. CASE ~(log[i] > w.seen)
        <3>1. log[i] <= w.seen /\ log[i] <= m
            BY <1>1, <1>2, <1>8, <2>2
        <3> QED BY <1>7, <3>1, CursorMisses
    <2> QED BY <2>1, <2>2
<1>10. ASSUME NEW i \in 1..Len(g)
       PROVE  /\ i \in 1..Len(w.got) \/ (i \in Len(w.got) + 1..Len(g) /\ i - Len(w.got) \in 1..Len(b))
              /\ \E h \in 1..Len(log) : log[h] = g[i]
    <2>1. i \in 1..Len(w.got) \/ i \in Len(w.got) + 1..Len(g)
        BY <1>4, <1>6
    <2>2. 1..k \subseteq 1..Len(log)
        BY <1>1, <1>3
    <2>3. CASE i \in 1..Len(w.got)
        <3>1. g[i] = w.got[i]
            BY <1>6, <2>3
        <3> QED BY <1>3, <2>2, <2>3, <3>1
    <2>4. CASE i \in Len(w.got) + 1..Len(g)
        <3>1. g[i] = b[i - Len(w.got)] /\ i - Len(w.got) \in 1..Len(b)
            BY <1>6, <2>4
        <3> QED BY <1>4, <2>4, <3>1
    <2> QED BY <2>1, <2>3, <2>4
<1>11. ASSUME NEW i \in 1..Len(g), NEW j \in 1..Len(g), i < j
       PROVE  Before(log, g[i], g[j])
    <2>1. CASE i \in 1..Len(w.got) /\ j \in 1..Len(w.got)
        BY <1>6, <1>11, <2>1 DEF Cursor
    <2>2. CASE i \in 1..Len(w.got) /\ j \in Len(w.got) + 1..Len(g)
        <3>0. g[i] = w.got[i]
            BY <1>6, <2>2
        <3>1. PICK a \in 1..k : log[a] = g[i]
            BY <1>3, <2>2, <3>0
        <3>b. g[j] = b[j - Len(w.got)] /\ j - Len(w.got) \in 1..Len(b)
            BY <1>6, <2>2
        <3>c. PICK x \in 1..Len(b) : g[j] = b[x]
            BY <3>b
        <3>2. PICK c \in 1..Len(log) : log[c] = g[j] /\ log[c] > w.seen
            BY <1>4, <3>c
        <3>3. log[a] <= w.seen /\ a \in 1..Len(log)
            BY <1>1, <1>3, <3>1
        <3>4. c \notin 1..k
            BY <1>1, <1>2, <1>3, <3>2
        <3>5. a < c
            BY <1>1, <1>3, <3>1, <3>2, <3>4
        <3> QED BY <1>1, <3>1, <3>2, <3>3, <3>5 DEF Before
    <2>3. CASE i \in Len(w.got) + 1..Len(g) /\ j \in Len(w.got) + 1..Len(g)
        <3>1. i - Len(w.got) < j - Len(w.got)
            BY <1>6, <1>11, <2>3
        <3> QED BY <1>4, <1>6, <2>3, <3>1
    <2>4. ~(i \in Len(w.got) + 1..Len(g) /\ j \in 1..Len(w.got))
        BY <1>6, <1>11
    <2> QED BY <1>10, <2>1, <2>2, <2>3, <2>4
<1>12. v = [w EXCEPT !.seen = m, !.got = g]
    BY DEF b, m, g
<1>13. v \in PollerState /\ v.seen = m /\ v.got = g
    BY <1>2, <1>6, <1>8, <1>12 DEF PollerState
<1>14. Len(log) \in 0..Len(log)
    BY <1>1
<1>15. \E h \in 0..Len(log) :
          /\ v.seen = 0 \/ \E i \in 1..h : log[i] = v.seen
          /\ \A i \in 1..h : log[i] <= v.seen /\ (log[i] \in Elements(v.got) \/ IsLate(log, log[i]))
          /\ \A i \in 1..Len(v.got) : \E j \in 1..h : log[j] = v.got[i]
    BY <1>8, <1>9, <1>10, <1>13, <1>14
<1> QED BY <1>11, <1>13, <1>15 DEF Cursor

-----------------------------------------------------------------------------
(* A connection c to thread t, with q the channel.                         *)

StreamState == [pc : {"none", "backlog", "live", "closed"}, compat : BOOLEAN, since : Nat,
                last : Nat, start : Nat, pos : Nat, got : Seq(Nat)]

Event == [thread : Threads, seq : Nat]

\* One number is broadcast once; the channel grows at its end.
IsChannel(q)     == q \in Seq(Event) /\ \A i, j \in DOMAIN q : q[i].seq = q[j].seq => i = j
ChannelGrows(q, r) == Len(q) <= Len(r) /\ \A i \in 1..Len(q) : r[i] = q[i]

Carries(q, t, a, n) == q[a].thread = t /\ q[a].seq = n

\* The numbers delivered increase, and none is above the position last, but those
\* that have overtaken another one.
Rises(c, log) ==
    /\ \A i, j \in 1..Len(c.got) : i < j => c.got[i] < c.got[j] \/ HasPassed(log, c.got[i])
    /\ \A i \in 1..Len(c.got) : c.got[i] <= c.last \/ HasPassed(log, c.got[i])

\* Up to the seam they are in the order of the log, from there in that of the channel.
Seam(pc, got, start, pos, log, q, t) == \E k \in 0..Len(got) :
    /\ \A i, j \in 1..k : i < j => Before(log, got[i], got[j])
    /\ pc # "live" => k = Len(got)
    /\ \A i \in k + 1..Len(got) : \E a \in start + 1..pos : Carries(q, t, a, got[i])
    /\ \A i, j \in k + 1..Len(got) : i < j =>
          \E a, b \in start + 1..pos :
              a < b /\ Carries(q, t, a, got[i]) /\ Carries(q, t, b, got[j])
Seamed(c, log, q, t) == Seam(c.pc, c.got, c.start, c.pos, log, q, t)

\* The position is that of the backlog, up to which the connection has what was not
\* late, or that of an event it took from the channel since.
Placed(c, log, q, t) == \E low \in Nat :
    /\ low = c.since \/ low \in Elements(log)
    /\ \A n \in Elements(log) : c.since < n /\ n <= low => n \in Elements(c.got) \/ IsLate(log, n)
    /\ \/ c.last = low
       \/ /\ c.pc = "live" /\ c.last > low
          /\ \E a \in c.start + 1..c.pos : Carries(q, t, a, c.last)

\* What it took from the channel it has delivered, or it is late there or in the log.
LateIn(q, i) == \E j \in 1..i - 1 : q[j].thread = q[i].thread /\ q[j].seq > q[i].seq
Told(c, log, q, t) == \A i \in c.start + 1..c.pos :
    q[i].thread = t /\ q[i].seq > c.since =>
        q[i].seq \in Elements(c.got) \/ IsLate(log, q[i].seq) \/ LateIn(q, i)

Follows(c, log, q, t) ==
    /\ c \in StreamState
    /\ ~c.compat => Rises(c, log)
    /\ c.compat /\ c.pc # "closed" => Seamed(c, log, q, t)
    /\ ~c.compat /\ c.pc \in {"backlog", "live"} => Placed(c, log, q, t)
    /\ c.pc = "live" => c.start <= c.pos /\ c.pos <= Len(q) /\ Told(c, log, q, t)

LEMMA ChannelFacts ==
    ASSUME NEW q, IsChannel(q)
    PROVE  /\ Len(q) \in Nat /\ DOMAIN q = 1..Len(q)
           /\ \A i \in 1..Len(q) : q[i] \in Event /\ q[i].thread \in Threads /\ q[i].seq \in Nat
           /\ \A i, j \in 1..Len(q) : q[i].seq = q[j].seq => i = j
<1>1. DOMAIN q = 1..Len(q) /\ Len(q) \in Nat /\ \A i \in DOMAIN q : q[i] \in Event
    BY LenProperties, ElementOfSeq DEF IsChannel
<1> QED BY <1>1 DEF IsChannel, Event

LEMMA StreamFacts ==
    ASSUME NEW c \in StreamState
    PROVE  /\ Len(c.got) \in Nat /\ DOMAIN c.got = 1..Len(c.got) /\ c.got \in Seq(Nat)
           /\ \A i \in 1..Len(c.got) : c.got[i] \in Nat
           /\ c.since \in Nat /\ c.last \in Nat /\ c.start \in Nat /\ c.pos \in Nat
           /\ c.compat \in BOOLEAN /\ c.pc \in {"none", "backlog", "live", "closed"}
<1>1. c.got \in Seq(Nat)
    BY DEF StreamState
<1>2. Len(c.got) \in Nat /\ DOMAIN c.got = 1..Len(c.got) /\ \A i \in 1..Len(c.got) : c.got[i] \in Nat
    BY <1>1, LenProperties, ElementOfSeq
<1> QED BY <1>1, <1>2 DEF StreamState

\* The log and the channel grow under a connection.
LEMMA FollowsGrows ==
    ASSUME NEW log, NEW new, IsLog(log), IsLog(new), Grows(log, new),
           NEW q, NEW r, IsChannel(q), IsChannel(r), ChannelGrows(q, r),
           NEW t, NEW c, Follows(c, log, q, t)
    PROVE  Follows(c, new, r, t)
<1>1. /\ \A n : IsLate(log, n) => IsLate(new, n)
      /\ \A n : HasPassed(log, n) => HasPassed(new, n)
      /\ \A m, n : Before(log, m, n) => Before(new, m, n)
      /\ \A n \in Elements(log) : n \in Elements(new)
    BY LogGrows
<1>2. /\ Len(q) \in Nat /\ Len(r) \in Nat /\ Len(q) <= Len(r)
      /\ \A i \in 1..Len(q) : r[i] = q[i]
    BY ChannelFacts DEF ChannelGrows
<1>3. /\ c \in StreamState /\ c.start \in Nat /\ c.pos \in Nat /\ c.last \in Nat /\ c.since \in Nat
    BY StreamFacts DEF Follows
<1>4. c.pc = "live" => c.start <= c.pos /\ c.pos <= Len(q) /\ c.pos <= Len(r)
    BY <1>2, <1>3 DEF Follows
<1>5. ASSUME c.pc = "live", NEW i \in c.start + 1..c.pos PROVE i \in 1..Len(q) /\ r[i] = q[i]
    <2>1. i \in 1..Len(q)
        BY <1>2, <1>3, <1>4, <1>5
    <2> QED BY <1>2, <2>1
<1>6. ~c.compat => Rises(c, new)
    BY <1>1 DEF Follows, Rises
<1>7. ASSUME c.compat, c.pc # "closed" PROVE Seamed(c, new, r, t)
    <2>1. PICK k \in 0..Len(c.got) :
              /\ \A i, j \in 1..k : i < j => Before(log, c.got[i], c.got[j])
              /\ c.pc # "live" => k = Len(c.got)
              /\ \A i \in k + 1..Len(c.got) : \E a \in c.start + 1..c.pos : Carries(q, t, a, c.got[i])
              /\ \A i, j \in k + 1..Len(c.got) : i < j =>
                    \E a, b \in c.start + 1..c.pos :
                        a < b /\ Carries(q, t, a, c.got[i]) /\ Carries(q, t, b, c.got[j])
        BY <1>7 DEF Follows, Seamed, Seam
    <2>2. ASSUME NEW i \in k + 1..Len(c.got) PROVE c.pc = "live"
        <3>1. Len(c.got) \in Nat
            BY <1>3, StreamFacts
        <3> QED BY <2>1, <2>2, <3>1
    <2>3. \A a \in c.start + 1..c.pos : \A n : c.pc = "live" /\ Carries(q, t, a, n) => Carries(r, t, a, n)
        BY <1>5 DEF Carries
    <2>4. \A i \in k + 1..Len(c.got) : \E a \in c.start + 1..c.pos : Carries(r, t, a, c.got[i])
        BY <2>1, <2>2, <2>3
    <2>5. ASSUME NEW i \in k + 1..Len(c.got), NEW j \in k + 1..Len(c.got), i < j
          PROVE  \E a, b \in c.start + 1..c.pos :
                     a < b /\ Carries(r, t, a, c.got[i]) /\ Carries(r, t, b, c.got[j])
        BY <2>1, <2>2, <2>3, <2>5
    <2> QED BY <1>1, <2>1, <2>4, <2>5 DEF Seamed, Seam
<1>8. ASSUME ~c.compat, c.pc \in {"backlog", "live"} PROVE Placed(c, new, r, t)
    <2>1. PICK low \in Nat :
              /\ low = c.since \/ low \in Elements(log)
              /\ \A n \in Elements(log) :
                    c.since < n /\ n <= low => n \in Elements(c.got) \/ IsLate(log, n)
              /\ \/ c.last = low
                 \/ /\ c.pc = "live" /\ c.last > low
                    /\ \E a \in c.start + 1..c.pos : Carries(q, t, a, c.last)
        BY <1>8 DEF Follows, Placed
    <2>2. ASSUME NEW n \in Elements(new), c.since < n, n <= low
          PROVE  n \in Elements(c.got) \/ IsLate(new, n)
        <3>1. CASE n \in Elements(log)
            BY <1>1, <2>1, <2>2, <3>1
        <3>2. CASE n \notin Elements(log)
            <4>1. PICK i \in 1..Len(new) : new[i] = n
                BY <2>2, LogFacts
            <4>2. n \in Nat /\ low \in Elements(log) /\ n # low
                BY <1>3, <2>1, <2>2, <3>2, <4>1, LogFacts
            <4>3. PICK h \in 1..Len(log) : log[h] = low
                BY <4>2, LogFacts
            <4>4. /\ DOMAIN new = 1..Len(new) /\ Len(new) \in Nat /\ Len(log) \in Nat
                  /\ Len(log) <= Len(new) /\ \A j \in 1..Len(log) : new[j] = log[j]
                  /\ \A j \in 1..Len(log) : log[j] \in Elements(log)
                BY LogFacts DEF Grows
            <4>5. i \notin 1..Len(log)
                BY <3>2, <4>1, <4>4
            <4>6. h \in DOMAIN new /\ i \in DOMAIN new /\ h < i /\ new[h] = low
                BY <4>1, <4>3, <4>4, <4>5
            <4>7. low > n
                BY <2>1, <2>2, <4>2
            <4> QED BY <4>1, <4>6, <4>7 DEF IsLate
        <3> QED BY <3>1, <3>2
    <2>3. \A a \in c.start + 1..c.pos : c.pc = "live" /\ Carries(q, t, a, c.last) => Carries(r, t, a, c.last)
        BY <1>5 DEF Carries
    <2>4. \/ c.last = low
          \/ /\ c.pc = "live" /\ c.last > low
             /\ \E a \in c.start + 1..c.pos : Carries(r, t, a, c.last)
        BY <2>1, <2>3
    <2> QED BY <1>1, <2>1, <2>2, <2>4 DEF Placed
<1>9. ASSUME c.pc = "live" PROVE Told(c, new, r, t)
    <2>1. ASSUME NEW i \in c.start + 1..c.pos, LateIn(q, i) PROVE LateIn(r, i)
        <3>1. PICK j \in 1..i - 1 : q[j].thread = q[i].thread /\ q[j].seq > q[i].seq
            BY <2>1 DEF LateIn
        <3>2. i \in 1..Len(q) /\ r[i] = q[i]
            BY <1>5, <1>9
        <3>3. r[j] = q[j]
            BY <1>2, <3>2
        <3> QED BY <3>1, <3>2, <3>3 DEF LateIn
    <2>2. \A i \in c.start + 1..c.pos : r[i] = q[i]
        BY <1>5, <1>9
    <2> QED BY <1>1, <1>9, <2>1, <2>2 DEF Follows, Told
<1> QED BY <1>3, <1>4, <1>6, <1>7, <1>8, <1>9 DEF Follows


LEMMA FollowsConnects ==
    ASSUME NEW log, IsLog(log), NEW q, NEW t, NEW since \in Nat, NEW compat \in BOOLEAN, NEW c,
           LET b == Newer(log, since)
           IN  c = [pc |-> "backlog", compat |-> compat, since |-> since,
                    last |-> IF b = <<>> THEN since ELSE b[Len(b)],
                    start |-> 0, pos |-> 0, got |-> b]
    PROVE  Follows(c, log, q, t)
<1> DEFINE b == Newer(log, since) last == IF b = <<>> THEN since ELSE b[Len(b)]
<1>1. /\ DOMAIN log = 1..Len(log) /\ Len(log) \in Nat
      /\ \A i \in 1..Len(log) : log[i] \in Nat /\ log[i] > 0 /\ log[i] \in Elements(log)
      /\ \A i, j \in 1..Len(log) : log[i] = log[j] => i = j
      /\ \A n \in Elements(log) : \E i \in 1..Len(log) : log[i] = n
    BY LogFacts
<1>2. /\ b \in Seq(Nat) /\ DOMAIN b = 1..Len(b) /\ Len(b) \in Nat
      /\ \A k \in 1..Len(b) : \E i \in 1..Len(log) : b[k] = log[i] /\ log[i] > since
      /\ \A j, k \in 1..Len(b) : j < k => Before(log, b[j], b[k])
      /\ \A i \in 1..Len(log) : log[i] > since => log[i] \in Elements(b)
    BY NewerIs
<1>3. c = [pc |-> "backlog", compat |-> compat, since |-> since, last |-> last,
           start |-> 0, pos |-> 0, got |-> b]
    OBVIOUS
<1>4. (b = <<>> /\ last = since) \/ (Len(b) \in 1..Len(b) /\ last = b[Len(b)])
    <2>1. b = <<>> \/ Len(b) # 0
        BY <1>2, EmptySeq
    <2> HIDE DEF b
    <2> QED BY <1>2, <2>1
<1> HIDE DEF b
<1>5. \A i \in 1..Len(b) : b[i] \in Nat /\ b[i] > since
    BY <1>1, <1>2
<1>6. last \in Nat /\ since <= last
    BY <1>4, <1>5
<1> HIDE DEF last
<1>7. c \in StreamState
    BY <1>2, <1>3, <1>6 DEF StreamState
<1>8. ASSUME NEW i \in 1..Len(b), NEW j \in 1..Len(b), i < j PROVE b[i] < b[j] \/ HasPassed(log, b[i])
    <2>1. Before(log, b[i], b[j])
        BY <1>2, <1>8
    <2>2. PICK h, k \in DOMAIN log : h < k /\ log[h] = b[i] /\ log[k] = b[j]
        BY <2>1 DEF Before
    <2>3. b[i] # b[j] /\ b[i] \in Nat /\ b[j] \in Nat
        BY <1>1, <1>5, <2>2
    <2> QED BY <2>2, <2>3 DEF HasPassed
<1>9. Rises(c, log)
    <2>1. ASSUME NEW i \in 1..Len(b) PROVE b[i] <= last \/ HasPassed(log, b[i])
        <3>1. Len(b) \in 1..Len(b) /\ last = b[Len(b)]
            BY <1>2, <1>4, EmptySeq
        <3>2. CASE i = Len(b)
            BY <1>5, <3>1, <3>2
        <3>3. CASE i # Len(b)
            <4>0. Len(b) \in Nat
                BY <1>2
            <4>1. i < Len(b)
                BY <3>3, <4>0
            <4>2. b[i] < last \/ HasPassed(log, b[i])
                BY <1>8, <3>1, <4>1
            <4> QED BY <1>5, <1>6, <4>2
        <3> QED BY <3>2, <3>3
    <2> QED BY <1>3, <1>8, <2>1 DEF Rises
<1>10. Seamed(c, log, q, t)
    <2>1. Len(b) \in 0..Len(b) /\ \A i \in Len(b) + 1..Len(b) : FALSE
        BY <1>2
    <2>2. c.got = b /\ \A i, j \in 1..Len(b) : i < j => Before(log, b[i], b[j])
        BY <1>2, <1>3
    <2> QED BY <2>1, <2>2 DEF Seamed, Seam
<1>11. Placed(c, log, q, t)
    <2>1. \A n \in Elements(log) : since < n /\ n <= last => n \in Elements(b) \/ IsLate(log, n)
        BY <1>1, <1>2
    <2>2. last = since \/ last \in Elements(log)
        <3>1. CASE Len(b) \in 1..Len(b) /\ last = b[Len(b)]
            <4>1. PICK i \in 1..Len(log) : b[Len(b)] = log[i]
                BY <1>2, <3>1
            <4> QED BY <1>1, <3>1, <4>1
        <3> QED BY <1>4, <3>1
    <2> QED BY <1>3, <1>6, <2>1, <2>2 DEF Placed
<1> QED BY <1>3, <1>7, <1>9, <1>10, <1>11 DEF Follows

LEMMA FollowsSubscribes ==
    ASSUME NEW log, NEW q, IsChannel(q), NEW t, NEW c, Follows(c, log, q, t), c.pc = "backlog",
           NEW d, d = [c EXCEPT !.pc = "live", !.start = Len(q), !.pos = Len(q)]
    PROVE  Follows(d, log, q, t)
<1>1. Len(q) \in Nat
    BY ChannelFacts
<1>2. c \in StreamState /\ Len(c.got) \in Nat
    BY StreamFacts DEF Follows
<1>3. /\ d \in StreamState /\ d.pc = "live" /\ d.start = Len(q) /\ d.pos = Len(q)
      /\ d.got = c.got /\ d.last = c.last /\ d.since = c.since /\ d.compat = c.compat
    BY <1>1, <1>2 DEF StreamState
<1>4. c.compat => Seamed(d, log, q, t)
    <2>1. Len(c.got) \in 0..Len(c.got) /\ Len(c.got) + 1..Len(c.got) = {}
        BY <1>2
    <2>2. c.compat => \A i, j \in 1..Len(c.got) : i < j => Before(log, c.got[i], c.got[j])
        BY DEF Follows, Seamed, Seam
    <2> QED BY <1>3, <2>1, <2>2 DEF Seamed, Seam
<1>5. ~c.compat => Placed(d, log, q, t)
    BY <1>3 DEF Follows, Placed
<1>6. Told(d, log, q, t)
    <2>1. Len(q) + 1..Len(q) = {}
        BY <1>1
    <2> QED BY <1>3, <2>1 DEF Told
<1>7. ~c.compat => Rises(d, log)
    BY <1>3 DEF Follows, Rises
<1> QED BY <1>1, <1>3, <1>4, <1>5, <1>6, <1>7 DEF Follows

LEMMA FollowsCloses ==
    ASSUME NEW log, NEW q, NEW r, NEW t, NEW c, Follows(c, log, q, t),
           NEW d, d = [c EXCEPT !.pc = "closed"]
    PROVE  Follows(d, log, r, t)
<1>1. /\ d \in StreamState /\ d.pc = "closed" /\ d.got = c.got /\ d.last = c.last
      /\ d.compat = c.compat
    BY DEF Follows, StreamState
<1> QED BY <1>1 DEF Follows, Rises

\* The next event, of this thread and not told before, is delivered.
LEMMA FollowsTakes ==
    ASSUME NEW log, NEW q, IsChannel(q), NEW t, NEW c, Follows(c, log, q, t),
           c.pc = "live", c.pos < Len(q), q[c.pos + 1].thread = t,
           c.compat \/ q[c.pos + 1].seq > c.last, NEW d,
           LET n == q[c.pos + 1].seq
           IN  d = [c EXCEPT !.pos = @ + 1, !.last = n, !.got = Append(@, n)]
    PROVE  Follows(d, log, q, t)
<1> DEFINE n == q[c.pos + 1].seq g == Append(c.got, n) x == c.pos + 1
<1>1. Len(q) \in Nat /\ \A i \in 1..Len(q) : q[i].seq \in Nat
    BY ChannelFacts
<1>2. /\ c \in StreamState /\ Len(c.got) \in Nat /\ c.got \in Seq(Nat)
      /\ \A i \in 1..Len(c.got) : c.got[i] \in Nat
      /\ c.since \in Nat /\ c.last \in Nat /\ c.start \in Nat /\ c.pos \in Nat /\ c.compat \in BOOLEAN
      /\ c.start <= c.pos /\ c.pos <= Len(q) /\ Told(c, log, q, t)
    BY StreamFacts DEF Follows
<1>3. x \in 1..Len(q) /\ x \in Nat /\ n \in Nat /\ Carries(q, t, x, n)
    BY <1>1, <1>2 DEF Carries
<1>4. /\ g \in Seq(Nat) /\ Len(g) = Len(c.got) + 1 /\ DOMAIN g = 1..Len(c.got) + 1
      /\ \A i \in 1..Len(c.got) : g[i] = c.got[i]
      /\ g[Len(c.got) + 1] = n
    <2> HIDE DEF n
    <2>1. /\ g \in Seq(Nat) /\ Len(g) = Len(c.got) + 1
          /\ \A i \in 1..Len(c.got) : g[i] = c.got[i]
          /\ g[Len(c.got) + 1] = n
        BY <1>2, <1>3, AppendProperties
    <2> QED BY <2>1, LenProperties
<1>5. d = [c EXCEPT !.pos = x, !.last = n, !.got = g]
    OBVIOUS
<1> HIDE DEF n, g, x
<1>6. /\ d \in StreamState /\ d.pc = "live" /\ d.pos = x /\ d.last = n /\ d.got = g
      /\ d.start = c.start /\ d.since = c.since /\ d.compat = c.compat
    <2>1. c \in StreamState /\ c.pc = "live" /\ x \in Nat /\ n \in Nat /\ g \in Seq(Nat)
        BY <1>2, <1>3, <1>4
    <2> QED BY <1>5, <2>1 DEF StreamState
<1>7. \A m : m \in Elements(c.got) => m \in Elements(g)
    <2>1. DOMAIN c.got = 1..Len(c.got)
        BY <1>2, LenProperties
    <2>2. \A i \in DOMAIN c.got : i \in DOMAIN g /\ g[i] = c.got[i]
        BY <1>2, <1>4, <2>1
    <2> QED BY <2>2 DEF Elements
<1>8. n \in Elements(g)
    <2>1. Len(c.got) + 1 \in DOMAIN g
        BY <1>2, <1>4
    <2> QED BY <1>4, <2>1 DEF Elements
<1>9. c.start + 1..x = (c.start + 1..c.pos) \cup {x} /\ x \in c.start + 1..x
    BY <1>2 DEF x
<1>10. \A i \in 1..Len(g) : i \in 1..Len(c.got) \/ i = Len(c.got) + 1
    BY <1>2, <1>4
<1>a. /\ \A i \in 1..Len(c.got) : g[i] = c.got[i] /\ g[i] \in Nat
      /\ g[Len(c.got) + 1] = n /\ n \in Nat /\ c.last \in Nat /\ Len(c.got) \in Nat
    BY <1>2, <1>3, <1>4
<1>11. ASSUME ~c.compat PROVE Rises(d, log)
    <2>1. n > c.last
        BY <1>11 DEF n, x
    <2>2. /\ \A i, j \in 1..Len(c.got) : i < j => c.got[i] < c.got[j] \/ HasPassed(log, c.got[i])
          /\ \A i \in 1..Len(c.got) : c.got[i] <= c.last \/ HasPassed(log, c.got[i])
        BY <1>11 DEF Follows, Rises
    <2>3. \A i \in 1..Len(c.got) : g[i] < n \/ HasPassed(log, g[i])
        BY <1>a, <2>1, <2>2
    <2>4. ASSUME NEW i \in 1..Len(g) PROVE g[i] <= n \/ HasPassed(log, g[i])
        <3>1. CASE i \in 1..Len(c.got)
            BY <1>a, <2>3, <3>1
        <3>2. CASE i = Len(c.got) + 1
            BY <1>a, <3>2
        <3> QED BY <1>10, <3>1, <3>2
    <2>5. ASSUME NEW i \in 1..Len(g), NEW j \in 1..Len(g), i < j
          PROVE  g[i] < g[j] \/ HasPassed(log, g[i])
        <3>1. i \in 1..Len(c.got)
            BY <1>2, <1>4, <1>10, <2>5
        <3>2. CASE j \in 1..Len(c.got)
            BY <1>4, <2>2, <2>5, <3>1, <3>2
        <3>3. CASE j = Len(c.got) + 1
            BY <1>4, <2>3, <3>1, <3>3
        <3> QED BY <1>10, <3>2, <3>3
    <2> QED BY <1>6, <2>4, <2>5 DEF Rises
<1>12. ASSUME c.compat PROVE Seamed(d, log, q, t)
    <2>1. PICK k \in 0..Len(c.got) :
              /\ \A i, j \in 1..k : i < j => Before(log, c.got[i], c.got[j])
              /\ \A i \in k + 1..Len(c.got) : \E a \in c.start + 1..c.pos : Carries(q, t, a, c.got[i])
              /\ \A i, j \in k + 1..Len(c.got) : i < j =>
                    \E a, b \in c.start + 1..c.pos :
                        a < b /\ Carries(q, t, a, c.got[i]) /\ Carries(q, t, b, c.got[j])
        BY <1>12 DEF Follows, Seamed, Seam
    <2>2. k \in 0..Len(g) /\ \A i \in 1..k : g[i] = c.got[i]
        BY <1>2, <1>4
    <2>3. ASSUME NEW i \in k + 1..Len(g)
          PROVE  (i \in k + 1..Len(c.got) /\ g[i] = c.got[i]) \/ (i = Len(c.got) + 1 /\ g[i] = n)
        <3>1. k \in Nat /\ Len(c.got) \in Nat /\ Len(g) = Len(c.got) + 1
            BY <1>2, <1>4
        <3>2. i \in 1..Len(g) /\ i > k
            BY <3>1
        <3>3. CASE i \in 1..Len(c.got)
            <4>1. i \in k + 1..Len(c.got)
                BY <3>1, <3>2, <3>3
            <4> QED BY <1>a, <3>3, <4>1
        <3>4. CASE i = Len(c.got) + 1
            BY <1>a, <3>4
        <3> QED BY <1>10, <3>2, <3>3, <3>4
    <2>4. \A a \in c.start + 1..c.pos : a \in c.start + 1..x /\ a < x
        BY <1>2 DEF x
    <2>5. \A i \in k + 1..Len(g) : \E a \in c.start + 1..x : Carries(q, t, a, g[i])
        BY <1>3, <1>9, <2>1, <2>3
    <2>6. ASSUME NEW i \in k + 1..Len(g), NEW j \in k + 1..Len(g), i < j
          PROVE  \E a, b \in c.start + 1..x : a < b /\ Carries(q, t, a, g[i]) /\ Carries(q, t, b, g[j])
        <3>1. i \in k + 1..Len(c.got) /\ g[i] = c.got[i]
            <4>1. Len(g) = Len(c.got) + 1 /\ Len(c.got) \in Nat /\ k \in Nat
                BY <1>2, <1>4
            <4>2. i # Len(c.got) + 1
                BY <2>6, <4>1
            <4> QED BY <2>3, <4>2
        <3>2. CASE j \in k + 1..Len(c.got) /\ g[j] = c.got[j]
            BY <2>1, <2>4, <2>6, <3>1, <3>2
        <3>3. CASE j = Len(c.got) + 1 /\ g[j] = n
            <4>1. PICK a \in c.start + 1..c.pos : Carries(q, t, a, g[i])
                BY <2>1, <3>1
            <4> QED BY <1>3, <1>9, <2>4, <3>3, <4>1
        <3> QED BY <2>3, <3>2, <3>3
    <2>7. \A i, j \in 1..k : i < j => Before(log, g[i], g[j])
        BY <2>1, <2>2
    <2>8. d.got = g /\ d.pc = "live" /\ d.start = c.start /\ d.pos = x
        BY <1>6
    <2>9. Seam("live", g, c.start, x, log, q, t)
        BY <2>2, <2>5, <2>6, <2>7 DEF Seam
    <2> QED BY <2>8, <2>9 DEF Seamed
<1>13. ASSUME ~c.compat PROVE Placed(d, log, q, t)
    <2>1. PICK low \in Nat :
              /\ low = c.since \/ low \in Elements(log)
              /\ \A m \in Elements(log) :
                    c.since < m /\ m <= low => m \in Elements(c.got) \/ IsLate(log, m)
              /\ c.last = low \/ c.last > low
        BY <1>13 DEF Follows, Placed
    <2>2. n > low
        <3>1. n > c.last
            BY <1>13 DEF n, x
        <3> QED BY <1>a, <2>1, <3>1
    <2> QED BY <1>3, <1>6, <1>7, <1>9, <2>1, <2>2 DEF Placed
<1>14. Told(d, log, q, t)
    BY <1>2, <1>6, <1>7, <1>8, <1>9 DEF Told, n, x
<1>15. d.start <= d.pos /\ d.pos <= Len(q)
    BY <1>1, <1>2, <1>3, <1>6 DEF x
<1> QED BY <1>6, <1>11, <1>12, <1>13, <1>14, <1>15 DEF Follows

\* The next event is another thread's, or not above the position: it is left out.
LEMMA FollowsPasses ==
    ASSUME NEW log, NEW q, IsChannel(q), NEW t, NEW c, Follows(c, log, q, t),
           c.pc = "live", c.pos < Len(q),
           q[c.pos + 1].thread = t =>
               ~c.compat /\ ~(q[c.pos + 1].seq > c.last) /\ q[c.pos + 1].seq \in Elements(log),
           NEW d, d = [c EXCEPT !.pos = @ + 1]
    PROVE  Follows(d, log, q, t)
<1> DEFINE x == c.pos + 1
<1>1. /\ Len(q) \in Nat /\ \A i \in 1..Len(q) : q[i].seq \in Nat
      /\ \A i, j \in 1..Len(q) : q[i].seq = q[j].seq => i = j
    BY ChannelFacts
<1>2. /\ c \in StreamState /\ c.compat \in BOOLEAN
      /\ c.since \in Nat /\ c.last \in Nat /\ c.start \in Nat /\ c.pos \in Nat
      /\ c.start <= c.pos /\ c.pos <= Len(q) /\ Told(c, log, q, t)
    BY StreamFacts DEF Follows
<1>3. /\ d \in StreamState /\ d.pc = "live" /\ d.pos = x /\ d.last = c.last /\ d.got = c.got
      /\ d.start = c.start /\ d.since = c.since /\ d.compat = c.compat
    <2>1. c \in StreamState /\ c.pc = "live" /\ x \in Nat /\ d = [c EXCEPT !.pos = x]
        BY <1>2
    <2> HIDE DEF x
    <2> QED BY <2>1 DEF StreamState
<1>4. /\ c.start + 1..x = (c.start + 1..c.pos) \cup {x} /\ x \in 1..Len(q)
      /\ \A a \in c.start + 1..c.pos : a \in 1..x - 1 /\ a \in 1..Len(q) /\ a # x
    BY <1>1, <1>2
<1>5. ~c.compat => Rises(d, log)
    BY <1>3 DEF Follows, Rises
<1>6. c.compat => Seamed(d, log, q, t)
    <2>1. \A a \in c.start + 1..c.pos : a \in c.start + 1..x
        BY <1>4
    <2>2. ASSUME c.compat
          PROVE  \E k \in 0..Len(c.got) :
              /\ \A i, j \in 1..k : i < j => Before(log, c.got[i], c.got[j])
              /\ \A i \in k + 1..Len(c.got) : \E a \in c.start + 1..x : Carries(q, t, a, c.got[i])
              /\ \A i, j \in k + 1..Len(c.got) : i < j =>
                    \E a, b \in c.start + 1..x :
                        a < b /\ Carries(q, t, a, c.got[i]) /\ Carries(q, t, b, c.got[j])
        BY <2>1, <2>2 DEF Follows, Seamed, Seam
    <2>3. d.got = c.got /\ d.pc = "live" /\ d.start = c.start /\ d.pos = x
        BY <1>3
    <2> HIDE DEF x
    <2>4. c.compat => Seam("live", c.got, c.start, x, log, q, t)
        BY <2>2 DEF Seam
    <2> QED BY <2>3, <2>4 DEF Seamed
<1>7. ~c.compat => Placed(d, log, q, t)
    <2>1. \A a \in c.start + 1..c.pos : a \in c.start + 1..x
        BY <1>4
    <2> QED BY <1>3, <2>1 DEF Follows, Placed
<1>8. ASSUME q[x].thread = t, q[x].seq > c.since
      PROVE  q[x].seq \in Elements(c.got) \/ IsLate(log, q[x].seq) \/ LateIn(q, x)
    <2>0. ~c.compat /\ q[x].seq <= c.last /\ q[x].seq \in Elements(log) /\ q[x].seq \in Nat
        BY <1>1, <1>2, <1>4, <1>8
    <2>1. PICK low \in Nat :
              /\ \A n \in Elements(log) :
                    c.since < n /\ n <= low => n \in Elements(c.got) \/ IsLate(log, n)
              /\ \/ c.last = low
                 \/ \E a \in c.start + 1..c.pos : Carries(q, t, a, c.last)
        BY <2>0 DEF Follows, Placed
    <2>2. CASE q[x].seq <= low
        BY <1>8, <2>0, <2>1, <2>2
    <2>3. CASE ~(q[x].seq <= low)
        <3>1. PICK a \in c.start + 1..c.pos : Carries(q, t, a, c.last)
            BY <1>2, <2>0, <2>1, <2>3
        <3>2. q[a].thread = t /\ q[a].seq = c.last /\ a \in 1..x - 1 /\ q[a].seq # q[x].seq
            BY <1>1, <1>4, <3>1 DEF Carries
        <3>3. q[a].seq > q[x].seq
            BY <1>2, <2>0, <3>2
        <3> QED BY <1>8, <3>2, <3>3 DEF LateIn
    <2> QED BY <2>2, <2>3
<1>9. Told(d, log, q, t)
    BY <1>2, <1>3, <1>4, <1>8 DEF Told
<1>10. d.start <= d.pos /\ d.pos <= Len(q)
    BY <1>2, <1>3, <1>4
<1> QED BY <1>3, <1>5, <1>6, <1>7, <1>9, <1>10 DEF Follows

-----------------------------------------------------------------------------
(* The store under the readers.                                            *)

Positive == \A t \in Threads : \A i \in DOMAIN file[t] : file[t][i] > 0

\* What was broadcast is in the log, and an emitter has a number not broadcast.
Channel ==
    /\ IsChannel(sent)
    /\ \A i \in 1..Len(sent) : sent[i].seq \in Elements(file[sent[i].thread])
    /\ \A e \in Emitters : emitter[e].pc # "idle" =>
          \A i \in 1..Len(sent) : sent[i].seq # emitter[e].seq
    /\ \A e \in Emitters : emitter[e].pc \in {"newline", "send"} =>
          emitter[e].seq \in Elements(file[ThreadOf[e]])

LEMMA LogsAre ==
    ASSUME IInv, Positive, NEW t \in Threads
    PROVE  IsLog(file[t]) /\ \A i \in DOMAIN file[t] : file[t][i] < saved_seq
<1>1. file[t] \in Seq(Nat)
    BY DEF IInv, StoreType
<1>2. \A i, j \in DOMAIN file[t] : file[t][i] = file[t][j] => i = j
    BY DEF IInv, SeqNeverReused
<1> QED BY <1>1, <1>2 DEF IsLog, Positive, IInv, BelowCounter

LEMMA LogsStayLogs ==
    ASSUME IInv', Positive', NEW t \in Threads PROVE IsLog(file'[t])
<1>1. file'[t] \in Seq(Nat)
    BY DEF IInv, StoreType
<1>2. \A i, j \in DOMAIN file'[t] : file'[t][i] = file'[t][j] => i = j
    BY DEF IInv, SeqNeverReused
<1> QED BY <1>1, <1>2 DEF IsLog, Positive

\* What a step does to an emitter.
LEMMA EmitterSteps ==
    ASSUME IInv, [Next]_vars, NEW e \in Emitters
    PROVE  LET m == emitter[e] n == emitter'[e] IN
           \/ n = m /\ ~WriteRecord(e)
           \/ n.pc = "idle" /\ ~WriteRecord(e)
           \/ m.pc = "idle" /\ n.pc = "text" /\ n.seq = next_seq /\ UNCHANGED <<file, sent>>
           \/ m.pc = "text" /\ n.pc = "newline" /\ n.seq = m.seq /\ WriteRecord(e)
           \/ m.pc = "newline" /\ n.pc = "send" /\ n.seq = m.seq /\ UNCHANGED <<file, sent>>
<1>a. emitter \in [Emitters -> EmitterState]
    BY DEF IInv, StoreType
<1>1. ASSUME NEW d \in Emitters, emit_event(d), d # e PROVE emitter'[e] = emitter[e]
    BY <1>1, <1>a DEF emit_event, Allocate, WriteRecord, WriteEndOfLine, WriteFails, Broadcast, Goes, Stops
<1>2. CASE Allocate(e)
    BY <1>2, <1>a DEF Allocate, Goes, WriteRecord
<1>3. CASE WriteRecord(e)
    BY <1>3, <1>a DEF WriteRecord, Goes
<1>4. CASE WriteEndOfLine(e)
    BY <1>4, <1>a DEF WriteEndOfLine, Goes, Stops, WriteRecord
<1>5. CASE WriteFails(e) \/ Broadcast(e)
    BY <1>5, <1>a DEF WriteFails, Broadcast, Goes, Stops, WriteRecord
<1>6. CASE Crash
    BY <1>6 DEF Crash, Quiet, WriteRecord, Goes
<1>7. CASE emitter'[e] = emitter[e] /\ ~WriteRecord(e)
    BY <1>7
<1>8. emitter'[e] = emitter[e] => ~WriteRecord(e)
    BY <1>a DEF WriteRecord, Goes
<1>9. UNCHANGED emitter \/ Crash \/ \E d \in Emitters : emit_event(d)
    BY DEF Next, vars, Poll, stream_thread_events, stream_turn, Connects, ReadBacklog, Subscribe,
       Receive, Close
<1> QED BY <1>1, <1>2, <1>3, <1>4, <1>5, <1>6, <1>7, <1>8, <1>9 DEF emit_event

\* A file grows by the number its emitter has.
LEMMA FileSteps ==
    ASSUME IInv, [Next]_vars, NEW t \in Threads
    PROVE  /\ file[t] \in Seq(Nat) /\ file'[t] \in Seq(Nat)
           /\ Elements(file[t]) \subseteq Elements(file'[t])
           /\ \/ file'[t] = file[t]
              \/ \E e \in Emitters :
                    /\ WriteRecord(e) /\ ThreadOf[e] = t /\ Len(file'[t]) = Len(file[t]) + 1
                    /\ file'[t][Len(file[t]) + 1] = emitter[e].seq
                    /\ \A i \in 1..Len(file[t]) : file'[t][i] = file[t][i]
<1>1. IInv'
    BY Step
<1>2. file[t] \in Seq(Nat) /\ file'[t] \in Seq(Nat)
    BY <1>1 DEF IInv, StoreType
<1>3. UNCHANGED file \/ \E e \in Emitters : WriteRecord(e)
    BY DEF Next, vars, store, emit_event, Allocate, WriteEndOfLine, WriteFails, Broadcast, Poll,
       stream_thread_events, stream_turn, Connects, ReadBacklog, Subscribe, Receive, Close, Crash
<1>4. ASSUME NEW e \in Emitters, WriteRecord(e)
      PROVE  \/ file'[t] = file[t]
             \/ /\ ThreadOf[e] = t /\ Len(file'[t]) = Len(file[t]) + 1
                /\ file'[t][Len(file[t]) + 1] = emitter[e].seq
                /\ \A i \in 1..Len(file[t]) : file'[t][i] = file[t][i]
    BY <1>4, Appended
<1>5. \/ file'[t] = file[t]
      \/ \E e \in Emitters :
            /\ WriteRecord(e) /\ ThreadOf[e] = t /\ Len(file'[t]) = Len(file[t]) + 1
            /\ file'[t][Len(file[t]) + 1] = emitter[e].seq
            /\ \A i \in 1..Len(file[t]) : file'[t][i] = file[t][i]
    BY <1>3, <1>4
<1>6. Elements(file[t]) \subseteq Elements(file'[t])
    <2>1. CASE file'[t] = file[t]
        BY <2>1
    <2>2. CASE /\ Len(file'[t]) = Len(file[t]) + 1
               /\ \A i \in 1..Len(file[t]) : file'[t][i] = file[t][i]
        <3>1. DOMAIN file[t] = 1..Len(file[t]) /\ DOMAIN file'[t] = 1..Len(file'[t]) /\ Len(file[t]) \in Nat
            BY <1>2, LenProperties
        <3> QED BY <2>2, <3>1 DEF Elements
    <2> QED BY <1>5, <2>1, <2>2
<1> QED BY <1>2, <1>5, <1>6

\* The channel grows by the number an emitter has.
LEMMA SentSteps ==
    ASSUME IInv, Channel, [Next]_vars
    PROVE  \/ sent' = sent
           \/ sent' = <<>> /\ Crash
           \/ \E e \in Emitters :
                 /\ emitter[e].pc = "send" /\ emitter'[e].pc = "idle" /\ UNCHANGED <<file, stream>>
                 /\ Len(sent') = Len(sent) + 1 /\ sent' \in Seq([thread : Threads, seq : Nat])
                 /\ sent'[Len(sent) + 1] = [thread |-> ThreadOf[e], seq |-> emitter[e].seq]
                 /\ \A i \in 1..Len(sent) : sent'[i] = sent[i]
<1>1. sent' = sent \/ Crash \/ \E e \in Emitters : Broadcast(e)
    BY DEF Next, vars, emit_event, Allocate, WriteRecord, WriteEndOfLine, WriteFails, Poll,
       stream_thread_events, stream_turn, Connects, ReadBacklog, Subscribe, Receive, Close
<1>2. ASSUME NEW e \in Emitters, Broadcast(e)
      PROVE  /\ emitter[e].pc = "send" /\ emitter'[e].pc = "idle" /\ UNCHANGED <<file, stream>>
             /\ Len(sent') = Len(sent) + 1 /\ sent' \in Seq([thread : Threads, seq : Nat])
             /\ sent'[Len(sent) + 1] = [thread |-> ThreadOf[e], seq |-> emitter[e].seq]
             /\ \A i \in 1..Len(sent) : sent'[i] = sent[i]
    <2> DEFINE E == [thread : Threads, seq : Nat]
               r == [thread |-> ThreadOf[e], seq |-> emitter[e].seq]
    <2>1. r \in E /\ sent \in Seq(E) /\ sent' = Append(sent, r)
        BY <1>2, EventLogAssumption DEF IInv, StoreType, EmitterState, Channel, IsChannel, Event, Broadcast
    <2>2. emitter[e].pc = "send" /\ emitter'[e].pc = "idle" /\ UNCHANGED <<file, stream>>
        BY <1>2 DEF IInv, StoreType, Broadcast, Stops, Goes, store
    <2> HIDE DEF E, r
    <2>3. /\ Append(sent, r) \in Seq(E) /\ Len(Append(sent, r)) = Len(sent) + 1
          /\ Append(sent, r)[Len(sent) + 1] = r
          /\ \A i \in 1..Len(sent) : Append(sent, r)[i] = sent[i]
        BY <2>1, AppendProperties
    <2> QED BY <2>1, <2>2, <2>3 DEF E, r
<1>3. CASE Crash
    BY <1>3 DEF Crash
<1> QED BY <1>1, <1>2, <1>3


LEMMA LogsGrow ==
    ASSUME IInv, [Next]_vars, NEW t \in Threads
    PROVE  Grows(file[t], file'[t])
<1>1. Len(file[t]) \in Nat
    BY FileSteps, LenProperties
<1>2. CASE file'[t] = file[t]
    BY <1>1, <1>2 DEF Grows
<1>3. CASE Len(file'[t]) = Len(file[t]) + 1 /\ \A i \in 1..Len(file[t]) : file'[t][i] = file[t][i]
    BY <1>1, <1>3 DEF Grows
<1> QED BY <1>2, <1>3, FileSteps

LEMMA PositiveStep == ASSUME IInv, Positive, [Next]_vars PROVE Positive'
<1> SUFFICES ASSUME NEW t \in Threads, NEW i \in DOMAIN file'[t] PROVE file'[t][i] > 0
    BY DEF Positive
<1>1. /\ DOMAIN file[t] = 1..Len(file[t]) /\ DOMAIN file'[t] = 1..Len(file'[t])
      /\ Len(file[t]) \in Nat
    BY FileSteps, LenProperties
<1>2. CASE file'[t] = file[t]
    BY <1>2 DEF Positive
<1>3. ASSUME NEW e \in Emitters, WriteRecord(e), Len(file'[t]) = Len(file[t]) + 1,
             file'[t][Len(file[t]) + 1] = emitter[e].seq,
             \A j \in 1..Len(file[t]) : file'[t][j] = file[t][j]
      PROVE  file'[t][i] > 0
    <2>1. emitter[e].seq > 0
        BY <1>3 DEF WriteRecord, IInv, BelowCounter
    <2>2. i \in 1..Len(file[t]) \/ i = Len(file[t]) + 1
        BY <1>1, <1>3
    <2>3. CASE i \in 1..Len(file[t])
        BY <1>1, <1>3, <2>3 DEF Positive
    <2>4. CASE i = Len(file[t]) + 1
        BY <1>3, <2>1, <2>4
    <2> QED BY <2>2, <2>3, <2>4
<1> QED BY <1>2, <1>3, FileSteps

LEMMA ChannelStep == ASSUME IInv, Positive, Channel, [Next]_vars
                     PROVE  Channel' /\ (ChannelGrows(sent, sent') \/ Crash)
<1>2. /\ Len(sent) \in Nat /\ DOMAIN sent = 1..Len(sent) /\ sent \in Seq(Event)
      /\ \A i \in 1..Len(sent) : sent[i].thread \in Threads /\ sent[i].seq \in Nat
      /\ \A i, j \in 1..Len(sent) : sent[i].seq = sent[j].seq => i = j
    BY ChannelFacts DEF Channel, IsChannel
<1>3. \A t \in Threads : Elements(file[t]) \subseteq Elements(file'[t])
    BY FileSteps
<1>4. \A i \in 1..Len(sent) : sent[i].seq < next_seq
    <2> TAKE i \in 1..Len(sent)
    <2>1. PICK h \in DOMAIN file[sent[i].thread] : sent[i].seq = file[sent[i].thread][h]
        BY DEF Channel, Elements
    <2>2. sent[i].seq < saved_seq
        BY <1>2, <2>1 DEF IInv, BelowCounter
    <2> QED BY <1>2, <2>2 DEF IInv, StoreType, BelowCounter
<1>5. ASSUME NEW e \in Emitters, emitter'[e].pc \in {"newline", "send"}
      PROVE  emitter'[e].seq \in Elements(file'[ThreadOf[e]])
    <2>0. ThreadOf[e] \in Threads
        BY EventLogAssumption
    <2>1. CASE emitter'[e].seq = emitter[e].seq /\ emitter[e].pc \in {"newline", "send"}
        BY <1>3, <2>0, <2>1 DEF Channel
    <2>2. CASE emitter'[e].seq = emitter[e].seq /\ WriteRecord(e)
        <3>1. /\ Len(file'[ThreadOf[e]]) = Len(file[ThreadOf[e]]) + 1
              /\ file'[ThreadOf[e]][Len(file[ThreadOf[e]]) + 1] = emitter[e].seq
            BY <2>2, Appended
        <3>2. Len(file[ThreadOf[e]]) \in Nat /\ DOMAIN file'[ThreadOf[e]] = 1..Len(file'[ThreadOf[e]])
            BY <2>0, FileSteps, LenProperties
        <3>3. Len(file[ThreadOf[e]]) + 1 \in DOMAIN file'[ThreadOf[e]]
            BY <3>1, <3>2
        <3> QED BY <2>2, <3>1, <3>3 DEF Elements
    <2> QED BY <1>5, <2>1, <2>2, EmitterSteps
<1>6. CASE sent' = sent
    <2>1. \A i \in 1..Len(sent) : sent[i].seq \in Elements(file'[sent[i].thread])
        BY <1>2, <1>3 DEF Channel
    <2>2. ASSUME NEW e \in Emitters, emitter'[e].pc # "idle", NEW i \in 1..Len(sent)
          PROVE  sent[i].seq # emitter'[e].seq
        <3>1. CASE emitter'[e].seq = emitter[e].seq /\ emitter[e].pc # "idle"
            BY <3>1 DEF Channel
        <3>2. CASE emitter'[e].seq = next_seq
            BY <1>2, <1>4, <3>2
        <3> QED BY <2>2, <3>1, <3>2, EmitterSteps
    <2>3. Channel'
        BY <1>5, <1>6, <2>1, <2>2 DEF Channel
    <2> QED BY <1>2, <1>6, <2>3 DEF ChannelGrows
<1>7. CASE sent' = <<>> /\ Crash
    <2>1. IsChannel(<<>>) /\ Len(<<>>) = 0
        BY DEF IsChannel
    <2>2. \A e \in Emitters : emitter'[e].pc = "idle"
        BY <1>7 DEF Crash, Quiet
    <2>3. 1..0 = {}
        OBVIOUS
    <2>4. Channel'
        BY <1>7, <2>1, <2>2, <2>3 DEF Channel
    <2> QED BY <1>7, <2>4
<1>8. ASSUME NEW e \in Emitters, emitter[e].pc = "send", emitter'[e].pc = "idle", UNCHANGED file,
             Len(sent') = Len(sent) + 1, sent' \in Seq(Event),
             sent'[Len(sent) + 1] = [thread |-> ThreadOf[e], seq |-> emitter[e].seq],
             \A i \in 1..Len(sent) : sent'[i] = sent[i]
      PROVE  Channel' /\ ChannelGrows(sent, sent')
    <2>1. DOMAIN sent' = 1..Len(sent')
        BY <1>8, LenProperties
    <2>2. \A i \in 1..Len(sent') : i \in 1..Len(sent) \/ i = Len(sent) + 1
        BY <1>2, <1>8
    <2>3. \A i \in 1..Len(sent) : sent[i].seq # emitter[e].seq
        BY <1>8 DEF Channel
    <2>4. IsChannel(sent')
        <3> SUFFICES ASSUME NEW i \in 1..Len(sent'), NEW j \in 1..Len(sent'), sent'[i].seq = sent'[j].seq
                     PROVE  i = j
            BY <1>8, <2>1 DEF IsChannel
        <3>1. CASE i \in 1..Len(sent) /\ j \in 1..Len(sent)
            BY <1>2, <1>8, <3>1
        <3>2. CASE i = Len(sent) + 1 /\ j \in 1..Len(sent)
            BY <1>8, <2>3, <3>2
        <3>3. CASE i \in 1..Len(sent) /\ j = Len(sent) + 1
            BY <1>8, <2>3, <3>3
        <3> QED BY <2>2, <3>1, <3>2, <3>3
    <2>5. ASSUME NEW i \in 1..Len(sent') PROVE sent'[i].seq \in Elements(file'[sent'[i].thread])
        <3>1. CASE i \in 1..Len(sent)
            BY <1>8, <3>1 DEF Channel
        <3>2. CASE i = Len(sent) + 1
            BY <1>8, <3>2 DEF Channel
        <3> QED BY <2>2, <3>1, <3>2
    <2>6. ASSUME NEW d \in Emitters, emitter'[d].pc # "idle", NEW i \in 1..Len(sent')
          PROVE  sent'[i].seq # emitter'[d].seq
        <3>1. sent' # sent
            BY <1>2, <1>8
        <3>2. d # e /\ emitter'[d].seq = emitter[d].seq /\ emitter[d].pc # "idle"
            BY <1>8, <2>6, <3>1, EmitterSteps
        <3>3. emitter[d].seq # emitter[e].seq
            BY <3>2 DEF IInv, SeqNeverReused
        <3>4. CASE i \in 1..Len(sent)
            BY <1>8, <3>2, <3>4 DEF Channel
        <3>5. CASE i = Len(sent) + 1
            BY <1>8, <3>2, <3>3, <3>5
        <3> QED BY <2>2, <3>4, <3>5
    <2>7. Channel'
        BY <1>5, <2>4, <2>5, <2>6 DEF Channel
    <2> QED BY <1>2, <1>8, <2>7 DEF ChannelGrows
<1> QED BY <1>6, <1>7, <1>8, SentSteps DEF Event

-----------------------------------------------------------------------------
(* Pollers and connections over the store.                                 *)

ReadInv ==
    /\ IInv /\ Positive /\ Channel
    /\ poller \in [Pollers -> PollerState]
    /\ stream \in [Streams -> StreamState]
    /\ \A p \in Pollers : Cursor(poller[p], file[ThreadOf[p]])
    /\ \A s \in Streams : Follows(stream[s], file[ThreadOf[s]], sent, ThreadOf[s])

LEMMA NewPollerIs == ASSUME NEW log, IsLog(log) PROVE Cursor(NewPoller, log)
<1>1. 0 \in 0..Len(log)
    BY LogFacts
<1>2. NewPoller \in PollerState /\ NewPoller.seen = 0 /\ NewPoller.got = <<>> /\ Len(<<>>) = 0
    BY DEF NewPoller, PollerState
<1>3. 1..0 = {}
    OBVIOUS
<1> QED BY <1>1, <1>2, <1>3 DEF Cursor

LEMMA NoStreamIs == ASSUME NEW log, NEW q, NEW t PROVE Follows(NoStream, log, q, t)
<1>1. /\ NoStream \in StreamState /\ NoStream.got = <<>> /\ Len(<<>>) = 0
      /\ NoStream.pc = "none" /\ NoStream.compat = FALSE
    BY DEF NoStream, StreamState
<1>2. 1..0 = {}
    OBVIOUS
<1> QED BY <1>1, <1>2 DEF Follows, Rises

\* What a step does to a poller.
LEMMA PollerSteps ==
    ASSUME poller \in [Pollers -> PollerState], [Next]_vars, NEW p \in Pollers
    PROVE  \/ poller'[p] = poller[p]
           \/ poller'[p] = NewPoller
           \/ poller'[p] = [poller[p] EXCEPT !.pc = "failed"]
           \/ /\ UNCHANGED file
              /\ LET b == Newer(file[ThreadOf[p]], poller[p].seen)
                 IN  poller'[p] = [poller[p] EXCEPT !.seen = Greatest(poller[p].seen, b), !.got = @ \o b]
<1>1. CASE UNCHANGED poller
    BY <1>1
<1>2. CASE Crash
    BY <1>2 DEF Crash
<1>3. ASSUME NEW o \in Pollers, o # p, Poll(o) PROVE poller'[p] = poller[p]
    BY <1>3 DEF Poll
<1>4. CASE Poll(p)
    <2>1. UNCHANGED file
        BY <1>4 DEF Poll, store
    <2>2. CASE poller' = [poller EXCEPT ![p].pc = "failed"]
        BY <2>2
    <2>3. CASE \E batch \in {events_since(ThreadOf[p], poller[p].seen)} :
                   poller' = [poller EXCEPT ![p].seen = Seen(p, batch), ![p].got = @ \o batch]
        <3> DEFINE b == Newer(file[ThreadOf[p]], poller[p].seen)
        <3>1. events_since(ThreadOf[p], poller[p].seen) = b
            BY DEF events_since, Newer
        <3>2. poller' = [poller EXCEPT ![p].seen = Seen(p, b), ![p].got = @ \o b]
            BY <2>3, <3>1
        <3> HIDE DEF b
        <3>3. poller'[p] = [poller[p] EXCEPT !.seen = Greatest(poller[p].seen, b), !.got = @ \o b]
            BY <3>2 DEF Seen
        <3> QED BY <2>1, <3>3 DEF b
    <2> QED BY <1>4, <2>2, <2>3 DEF Poll
<1>5. UNCHANGED poller \/ Crash \/ \E o \in Pollers : Poll(o)
    BY DEF Next, vars, emit_event, Allocate, WriteRecord, WriteEndOfLine, WriteFails, Broadcast,
       stream_thread_events, stream_turn, Connects, ReadBacklog, Subscribe, Receive, Close
<1> QED BY <1>1, <1>2, <1>3, <1>4, <1>5

\* What a step does to a connection.
Connected(s, c) == \E since \in Since(s), compat \in BOOLEAN :
    LET b == Newer(file[ThreadOf[s]], since)
    IN  c = [pc |-> "backlog", compat |-> compat, since |-> since,
             last |-> IF b = <<>> THEN since ELSE b[Len(b)], start |-> 0, pos |-> 0, got |-> b]

LEMMA StreamSteps ==
    ASSUME stream \in [Streams -> StreamState], [Next]_vars, NEW s \in Streams
    PROVE  LET c == stream[s] d == stream'[s] IN
           \/ Crash /\ (d = NoStream \/ d = [c EXCEPT !.pc = "closed"])
           \/ d = c /\ ~Crash
           \/ d = [c EXCEPT !.pc = "closed"]
           \/ UNCHANGED <<file, sent>> /\ Connected(s, d)
           \/ /\ UNCHANGED <<file, sent>> /\ c.pc = "backlog"
              /\ d = [c EXCEPT !.pc = "live", !.start = Len(sent), !.pos = Len(sent)]
           \/ /\ UNCHANGED <<file, sent>> /\ c.pc = "live" /\ c.pos < Len(sent)
              /\ LET event == sent[c.pos + 1] IN
                 d = IF Accepts(s, event)
                     THEN [c EXCEPT !.pos = @ + 1, !.last = event.seq, !.got = Append(@, event.seq)]
                     ELSE [c EXCEPT !.pos = @ + 1]
<1>1. CASE UNCHANGED stream /\ ~Crash
    BY <1>1
<1>2. CASE Crash
    BY <1>2 DEF Crash
<1>3. ASSUME NEW o \in Streams, o # s, stream_thread_events(o) PROVE stream'[s] = stream[s]
    BY <1>3 DEF stream_thread_events, stream_turn, Connects, ReadBacklog, Subscribe, Receive, Close
<1>4. ASSUME NEW since \in Since(s), NEW compat \in BOOLEAN, Connects(s, since, compat)
      PROVE  UNCHANGED <<file, sent>> /\ Connected(s, stream'[s])
    <2> DEFINE b == Newer(file[ThreadOf[s]], since)
    <2>1. events_since(ThreadOf[s], since) = b
        BY DEF events_since, Newer
    <2>2. stream' = [stream EXCEPT ![s] =
              [pc |-> "backlog", compat |-> compat, since |-> since,
               last |-> LastSeq(since, b), start |-> 0, pos |-> 0, got |-> b]]
        BY <1>4, <2>1 DEF Connects
    <2> HIDE DEF b
    <2>3. stream'[s] = [pc |-> "backlog", compat |-> compat, since |-> since,
                        last |-> IF b = <<>> THEN since ELSE b[Len(b)],
                        start |-> 0, pos |-> 0, got |-> b]
        BY <2>2 DEF LastSeq
    <2>4. Connected(s, stream'[s])
        BY <2>3 DEF Connected, b
    <2> QED BY <1>4, <2>4 DEF Connects, store
<1>5. CASE ReadBacklog(s) \/ stream_turn(s)
    <2>1. \E since \in Since(s), compat \in BOOLEAN : Connects(s, since, compat)
        BY <1>5 DEF ReadBacklog, stream_turn, Since
    <2> QED BY <1>4, <2>1
<1>6. CASE Subscribe(s)
    BY <1>6 DEF Subscribe, store
<1>7. CASE Receive(s)
    <2>1. /\ UNCHANGED <<file, sent>> /\ stream[s].pc = "live" /\ stream[s].pos < Len(sent)
          /\ LET event == sent[stream[s].pos + 1] IN
             stream' = [stream EXCEPT ![s] =
                 IF Accepts(s, event)
                 THEN [stream[s] EXCEPT !.pos = @ + 1, !.last = event.seq, !.got = Append(@, event.seq)]
                 ELSE [stream[s] EXCEPT !.pos = @ + 1]]
        BY <1>7 DEF Receive, store
    <2>2. \A v : stream' = [stream EXCEPT ![s] = v] => stream'[s] = v
        OBVIOUS
    <2> QED BY <2>1, <2>2
<1>8. CASE Close(s)
    BY <1>8 DEF Close
<1>9. (UNCHANGED stream /\ ~Crash) \/ Crash \/ \E o \in Streams : stream_thread_events(o)
    BY DEF Next, vars, emit_event, Allocate, WriteRecord, WriteEndOfLine, WriteFails, Broadcast, Poll
<1> QED BY <1>1, <1>2, <1>3, <1>5, <1>6, <1>7, <1>8, <1>9 DEF stream_thread_events

LEMMA CursorStep ==
    ASSUME ReadInv, [Next]_vars, NEW p \in Pollers
    PROVE  Cursor(poller'[p], file'[ThreadOf[p]])
<1> DEFINE t == ThreadOf[p]
<1>1. t \in Threads /\ saved_seq \in Nat
    BY EventLogAssumption DEF ReadInv, IInv, StoreType
<1>2. IInv' /\ Positive'
    BY Step, PositiveStep DEF ReadInv
<1>3. /\ IsLog(file[t]) /\ \A i \in DOMAIN file[t] : file[t][i] < saved_seq
      /\ Grows(file[t], file'[t]) /\ Cursor(poller[p], file[t])
    BY <1>1, LogsAre, LogsGrow DEF ReadInv
<1>4. IsLog(file'[t])
    BY <1>1, <1>2, LogsStayLogs
<1> HIDE DEF t
<1>5. CASE poller'[p] = poller[p]
    BY <1>3, <1>4, <1>5, CursorGrows DEF t
<1>6. CASE poller'[p] = NewPoller
    BY <1>4, <1>6, NewPollerIs DEF t
<1>7. CASE poller'[p] = [poller[p] EXCEPT !.pc = "failed"]
    <2>1. /\ poller'[p] \in PollerState /\ poller'[p].seen = poller[p].seen
          /\ poller'[p].got = poller[p].got
        BY <1>3, <1>7 DEF Cursor, PollerState
    <2>2. Cursor(poller'[p], file[t])
        BY <1>3, <2>1 DEF Cursor
    <2> QED BY <1>3, <1>4, <2>2, CursorGrows DEF t
<1>8. CASE /\ UNCHANGED file
           /\ LET b == Newer(file[t], poller[p].seen)
              IN  poller'[p] = [poller[p] EXCEPT !.seen = Greatest(poller[p].seen, b), !.got = @ \o b]
    <2>1. Cursor(poller'[p], file[t])
        BY <1>1, <1>3, <1>8, CursorPolls
    <2> QED BY <1>8, <2>1 DEF t
<1>9. poller \in [Pollers -> PollerState]
    BY DEF ReadInv
<1> QED BY <1>5, <1>6, <1>7, <1>8, <1>9, PollerSteps DEF t

LEMMA FollowsStep ==
    ASSUME ReadInv, [Next]_vars, NEW s \in Streams
    PROVE  Follows(stream'[s], file'[ThreadOf[s]], sent', ThreadOf[s])
<1> DEFINE t == ThreadOf[s] c == stream[s] d == stream'[s]
<1>1. t \in Threads /\ IInv /\ Positive /\ Channel
    BY EventLogAssumption DEF ReadInv
<1>2. IInv' /\ Positive' /\ Channel' /\ (ChannelGrows(sent, sent') \/ Crash)
    BY <1>1, Step, PositiveStep, ChannelStep
<1>3. IsLog(file[t]) /\ Grows(file[t], file'[t]) /\ Follows(c, file[t], sent, t) /\ IsChannel(sent)
    BY <1>1, LogsAre, LogsGrow DEF ReadInv, Channel
<1>4. IsLog(file'[t]) /\ IsChannel(sent') /\ ChannelGrows(sent', sent')
    <2>1. IsLog(file'[t]) /\ IsChannel(sent')
        BY <1>1, <1>2, LogsStayLogs DEF Channel
    <2>2. Len(sent') \in Nat
        BY <2>1, ChannelFacts
    <2> QED BY <2>1, <2>2 DEF ChannelGrows
<1>5. c \in StreamState
    BY DEF ReadInv
<1> HIDE DEF t, c, d
<1>6. CASE d = NoStream
    BY <1>6, NoStreamIs DEF d, t
<1>7. CASE d = [c EXCEPT !.pc = "closed"]
    <2>1. Follows(d, file[t], sent', t)
        BY <1>3, <1>7, FollowsCloses
    <2>2. Follows(d, file'[t], sent', t)
        BY <1>3, <1>4, <2>1, FollowsGrows
    <2> QED BY <2>2 DEF d, t
<1>8. CASE d = c /\ ~Crash
    <2>1. ChannelGrows(sent, sent')
        BY <1>2, <1>8
    <2>2. Follows(c, file'[t], sent', t)
        BY <1>3, <1>4, <2>1, FollowsGrows
    <2> QED BY <1>8, <2>2 DEF d, t
<1>9. CASE UNCHANGED <<file, sent>> /\ Connected(s, d)
    <2>1. PICK since \in Since(s), compat \in BOOLEAN :
              LET b == Newer(file[t], since)
              IN  d = [pc |-> "backlog", compat |-> compat, since |-> since,
                       last |-> IF b = <<>> THEN since ELSE b[Len(b)],
                       start |-> 0, pos |-> 0, got |-> b]
        BY <1>9 DEF Connected, t
    <2>2. since \in Nat
        <3>1. c.got \in Seq(Nat) /\ DOMAIN c.got = 1..Len(c.got) /\ \A i \in 1..Len(c.got) : c.got[i] \in Nat
            BY <1>5, StreamFacts
        <3>2. since = 0 \/ \E i \in DOMAIN c.got : since = c.got[i]
            BY <2>1 DEF Since, Elements, c
        <3> QED BY <3>1, <3>2
    <2>3. Follows(d, file[t], sent, t)
        BY <1>3, <2>1, <2>2, FollowsConnects
    <2> QED BY <1>9, <2>3 DEF d, t
<1>10. CASE /\ UNCHANGED <<file, sent>> /\ c.pc = "backlog"
            /\ d = [c EXCEPT !.pc = "live", !.start = Len(sent), !.pos = Len(sent)]
    <2>1. Follows(d, file[t], sent, t)
        BY <1>3, <1>10, FollowsSubscribes
    <2> QED BY <1>10, <2>1 DEF d, t
<1>11. ASSUME UNCHANGED <<file, sent>>, c.pc = "live", c.pos < Len(sent),
              LET event == sent[c.pos + 1] IN
                 d = IF Accepts(s, event)
                     THEN [c EXCEPT !.pos = @ + 1, !.last = event.seq, !.got = Append(@, event.seq)]
                     ELSE [c EXCEPT !.pos = @ + 1]
       PROVE  Follows(d, file'[t], sent', t)
    <2> DEFINE event == sent[c.pos + 1]
    <2>1. c.pos \in Nat /\ c.last \in Nat /\ c.compat \in BOOLEAN /\ Len(sent) \in Nat
        BY <1>3, <1>5, StreamFacts, ChannelFacts
    <2>2. c.pos + 1 \in 1..Len(sent)
        BY <1>11, <2>1
    <2>3. Follows(d, file[t], sent, t)
        <3>1. CASE Accepts(s, event)
            <4>1. event.thread = t /\ (c.compat \/ event.seq > c.last)
                BY <3>1 DEF Accepts, c, t
            <4>2. d = [c EXCEPT !.pos = @ + 1, !.last = event.seq, !.got = Append(@, event.seq)]
                BY <1>11, <3>1
            <4> QED BY <1>3, <1>11, <4>1, <4>2, FollowsTakes
        <3>2. CASE ~Accepts(s, event)
            <4>1. event.thread = t => ~c.compat /\ ~(event.seq > c.last)
                BY <3>2 DEF Accepts, c, t
            <4>2. event.thread = t => event.seq \in Elements(file[t])
                BY <1>1, <2>2 DEF Channel
            <4>3. d = [c EXCEPT !.pos = @ + 1]
                BY <1>11, <3>2
            <4> QED BY <1>3, <1>11, <4>1, <4>2, <4>3, FollowsPasses
        <3> QED BY <3>1, <3>2
    <2> QED BY <1>11, <2>3
<1>12. stream \in [Streams -> StreamState]
    BY DEF ReadInv
<1>13. Follows(d, file'[t], sent', t) => Follows(stream'[s], file'[ThreadOf[s]], sent', ThreadOf[s])
    BY DEF d, t
<1> QED BY <1>6, <1>7, <1>8, <1>9, <1>10, <1>11, <1>12, <1>13, StreamSteps DEF c, d


\* What pollers and connections are after a step is one state for each of them.
LEMMA ReadersAreMaps ==
    ASSUME poller \in [Pollers -> PollerState], stream \in [Streams -> StreamState], [Next]_vars
    PROVE  /\ poller' = [p \in Pollers |-> poller'[p]]
           /\ stream' = [s \in Streams |-> stream'[s]]
<1>1. \A v : \A f \in [Pollers -> PollerState], p \in Pollers :
          [f EXCEPT ![p] = v] = [x \in Pollers |-> [f EXCEPT ![p] = v][x]]
    OBVIOUS
<1>2. \A v : \A f \in [Streams -> StreamState], s \in Streams :
          [f EXCEPT ![s] = v] = [x \in Streams |-> [f EXCEPT ![s] = v][x]]
    OBVIOUS
<1>3. UNCHANGED poller \/ Crash \/ \E p \in Pollers : \E v : poller' = [poller EXCEPT ![p] = v]
    <2>1. UNCHANGED poller \/ Crash \/ \E p \in Pollers : Poll(p)
        BY DEF Next, vars, emit_event, Allocate, WriteRecord, WriteEndOfLine, WriteFails, Broadcast,
           stream_thread_events, stream_turn, Connects, ReadBacklog, Subscribe, Receive, Close
    <2>2. ASSUME NEW p \in Pollers, Poll(p) PROVE \E v : poller' = [poller EXCEPT ![p] = v]
        <3>1. CASE poller' = [poller EXCEPT ![p].pc = "failed"]
            <4>1. poller' = [poller EXCEPT ![p] = [poller[p] EXCEPT !.pc = "failed"]]
                BY <3>1
            <4> QED BY <4>1
        <3>2. ASSUME NEW b, poller' = [poller EXCEPT ![p].seen = Seen(p, b), ![p].got = @ \o b]
              PROVE  \E v : poller' = [poller EXCEPT ![p] = v]
            <4>1. poller' = [poller EXCEPT ![p] =
                                [poller[p] EXCEPT !.seen = Seen(p, b), !.got = @ \o b]]
                BY <3>2
            <4> QED BY <4>1
        <3> QED BY <2>2, <3>1, <3>2 DEF Poll
    <2> QED BY <2>1, <2>2
<1>4. UNCHANGED stream \/ Crash \/ \E s \in Streams : \E v : stream' = [stream EXCEPT ![s] = v]
    <2>1. UNCHANGED stream \/ Crash \/ \E s \in Streams : stream_thread_events(s)
        BY DEF Next, vars, emit_event, Allocate, WriteRecord, WriteEndOfLine, WriteFails, Broadcast, Poll
    <2>2. ASSUME NEW s \in Streams, stream_thread_events(s)
          PROVE  \E v : stream' = [stream EXCEPT ![s] = v]
        <3>1. ASSUME NEW since, NEW compat, Connects(s, since, compat)
              PROVE  \E v : stream' = [stream EXCEPT ![s] = v]
            BY <3>1 DEF Connects
        <3>2. CASE Subscribe(s)
            <4>1. stream' = [stream EXCEPT ![s] =
                                [stream[s] EXCEPT !.pc = "live", !.start = Len(sent), !.pos = Len(sent)]]
                BY <3>2 DEF Subscribe
            <4> QED BY <4>1
        <3>3. CASE Receive(s)
            BY <3>3 DEF Receive
        <3>4. CASE Close(s)
            <4>1. stream' = [stream EXCEPT ![s] = [stream[s] EXCEPT !.pc = "closed"]]
                BY <3>4 DEF Close
            <4> QED BY <4>1
        <3> QED BY <2>2, <3>1, <3>2, <3>3, <3>4 DEF stream_thread_events, ReadBacklog, stream_turn
    <2> QED BY <2>1, <2>2
<1>5. Crash => /\ poller' = [p \in Pollers |-> poller'[p]]
               /\ stream' = [s \in Streams |-> stream'[s]]
    BY DEF Crash
<1> QED BY <1>1, <1>2, <1>3, <1>4, <1>5


LEMMA ReadInitially == Init => ReadInv
<1> SUFFICES ASSUME Init PROVE ReadInv
    OBVIOUS
<1>1. IInv /\ sent = <<>> /\ file = [t \in Threads |-> <<>>] /\ emitter = [e \in Emitters |-> Quiet]
    BY Initially DEF Init
<1>2. Positive
    BY <1>1 DEF Positive
<1>3. Channel
    <2>1. IsChannel(<<>>) /\ Len(<<>>) = 0
        BY DEF IsChannel
    <2>2. 1..0 = {} /\ \A e \in Emitters : emitter[e].pc = "idle"
        BY <1>1 DEF Quiet
    <2> QED BY <1>1, <2>1, <2>2 DEF Channel
<1>4. poller = [p \in Pollers |-> NewPoller] /\ stream = [s \in Streams |-> NoStream]
    BY DEF Init
<1>5. NewPoller \in PollerState /\ NoStream \in StreamState
    BY DEF NewPoller, PollerState, NoStream, StreamState
<1>6. ASSUME NEW p \in Pollers PROVE Cursor(poller[p], file[ThreadOf[p]])
    <2>1. IsLog(file[ThreadOf[p]])
        BY <1>1, <1>2, LogsAre, EventLogAssumption
    <2> QED BY <1>4, <2>1, NewPollerIs
<1>7. \A s \in Streams : Follows(stream[s], file[ThreadOf[s]], sent, ThreadOf[s])
    BY <1>4, NoStreamIs
<1> QED BY <1>1, <1>2, <1>3, <1>4, <1>5, <1>6, <1>7 DEF ReadInv

LEMMA ReadStep == ASSUME ReadInv, [Next]_vars PROVE ReadInv'
<1>1. IInv' /\ Positive' /\ Channel'
    BY Step, PositiveStep, ChannelStep DEF ReadInv
<1>2. \A p \in Pollers : Cursor(poller'[p], file'[ThreadOf[p]])
    BY CursorStep
<1>3. \A s \in Streams : Follows(stream'[s], file'[ThreadOf[s]], sent', ThreadOf[s])
    BY FollowsStep
<1>4. (\A p \in Pollers : poller'[p] \in PollerState) /\ (\A s \in Streams : stream'[s] \in StreamState)
    BY <1>2, <1>3 DEF Cursor, Follows
<1>5. poller' = [p \in Pollers |-> poller'[p]] /\ stream' = [s \in Streams |-> stream'[s]]
    BY ReadersAreMaps DEF ReadInv
<1>6. poller' \in [Pollers -> PollerState] /\ stream' \in [Streams -> StreamState]
    BY <1>4, <1>5
<1> QED BY <1>1, <1>2, <1>3, <1>6 DEF ReadInv

LEMMA ReadIsInvariant == Spec => []ReadInv
BY ReadInitially, ReadStep, PTL DEF Spec

\* A task executor (EngineTaskExecutor::execute) is handed the records of its
\* thread in the order of the file, each once, and misses none that its cursor has
\* passed but those written after a greater number, whoever emits for the thread.
THEOREM PollersMissOnlyLate == Spec => []PollerMissesOnlyLate
<1>1. ReadInv => PollerMissesOnlyLate
    <2> SUFFICES ASSUME ReadInv, NEW p \in Pollers
                 PROVE  LET t == ThreadOf[p] got == poller[p].got IN
                        /\ Elements(got) \subseteq Elements(file[t])
                        /\ \A i, j \in DOMAIN got : i < j => InLog(t, got[i], got[j])
                        /\ \A n \in Elements(file[t]) :
                              n <= poller[p].seen => n \in Elements(got) \/ Late(t, n)
        BY DEF PollerMissesOnlyLate
    <2> DEFINE t == ThreadOf[p] w == poller[p]
    <2>1. IsLog(file[t]) /\ Cursor(w, file[t])
        BY LogsAre, EventLogAssumption DEF ReadInv
    <2>2. w.got \in Seq(Nat) /\ DOMAIN w.got = 1..Len(w.got)
        <3>1. w.got \in Seq(Nat)
            BY <2>1 DEF Cursor, PollerState
        <3> QED BY <3>1, LenProperties
    <2> HIDE DEF t, w
    <2>3. /\ DOMAIN file[t] = 1..Len(file[t]) /\ Len(file[t]) \in Nat
          /\ \A n \in Elements(file[t]) : \E i \in 1..Len(file[t]) : file[t][i] = n
        BY <2>1, LogFacts
    <2>4. Elements(w.got) \subseteq Elements(file[t])
        <3>1. PICK k \in 0..Len(file[t]) :
                  \A i \in 1..Len(w.got) : \E h \in 1..k : file[t][h] = w.got[i]
            BY <2>1 DEF Cursor
        <3>2. \A h \in 1..k : h \in DOMAIN file[t]
            BY <2>3, <3>1
        <3>3. ASSUME NEW i \in DOMAIN w.got PROVE \E h \in DOMAIN file[t] : file[t][h] = w.got[i]
            BY <2>2, <3>1, <3>2
        <3> QED BY <3>3 DEF Elements
    <2>5. \A i, j \in DOMAIN w.got : i < j => InLog(t, w.got[i], w.got[j])
        <3>1. \A i, j \in 1..Len(w.got) : i < j => Before(file[t], w.got[i], w.got[j])
            BY <2>1 DEF Cursor
        <3> QED BY <2>2, <3>1 DEF Before, InLog
    <2>6. \A n \in Elements(file[t]) : n <= w.seen => n \in Elements(w.got) \/ Late(t, n)
        BY <2>1, <2>3, CursorMisses DEF IsLate, Late
    <2> QED BY <2>4, <2>5, <2>6 DEF t, w
<1> QED BY ReadIsInvariant, <1>1, PTL

\* stream_thread_events delivers increasing numbers, so none twice, but after one
\* that overtook another in the file; the compat stream follows the order of the
\* file up to its seam and that of the channel from there.
THEOREM StreamsRise == Spec => []StreamInOrder
<1>1. ReadInv => StreamInOrder
    <2> SUFFICES ASSUME ReadInv, NEW s \in Streams
                 PROVE  LET c == stream[s] t == ThreadOf[s] got == c.got IN
                        IF ~c.compat
                        THEN \A i, j \in DOMAIN got : i < j => got[i] < got[j] \/ Overtook(t, got[i])
                        ELSE c.pc # "closed" => \E seam \in 0..Len(got) :
                             \A i, j \in DOMAIN got : i < j /\ (j <= seam \/ seam < i) =>
                                \/ got[i] < got[j]
                                \/ /\ got[i] # got[j]
                                   /\ InLog(t, got[i], got[j]) \/ BroadcastBefore(t, got[i], got[j])
        BY DEF StreamInOrder
    <2> DEFINE t == ThreadOf[s] c == stream[s] log == file[t] got == c.got
    <2>1. IsLog(log) /\ Follows(c, log, sent, t) /\ IsChannel(sent)
        BY LogsAre, EventLogAssumption DEF ReadInv, Channel
    <2>2. c \in StreamState /\ DOMAIN got = 1..Len(got) /\ Len(got) \in Nat
        BY <2>1, StreamFacts DEF Follows
    <2>3. CASE ~c.compat
        BY <2>1, <2>2, <2>3 DEF Follows, Rises, HasPassed, Overtook
    <2>4. CASE c.compat /\ c.pc # "closed"
        <3> HIDE DEF t, c
        <3>1. PICK k \in 0..Len(got) :
                  /\ \A i, j \in 1..k : i < j => Before(log, got[i], got[j])
                  /\ c.pc # "live" => k = Len(got)
                  /\ \A i, j \in k + 1..Len(got) : i < j =>
                        \E a, b \in c.start + 1..c.pos :
                            a < b /\ Carries(sent, t, a, got[i]) /\ Carries(sent, t, b, got[j])
            BY <2>1, <2>4 DEF Follows, Seamed, Seam
        <3>2. ASSUME NEW i \in DOMAIN got, NEW j \in DOMAIN got, i < j, j <= k
              PROVE  got[i] # got[j] /\ InLog(t, got[i], got[j])
            <4>1. i \in 1..k /\ j \in 1..k
                BY <2>2, <3>1, <3>2
            <4>2. Before(log, got[i], got[j])
                BY <3>1, <3>2, <4>1
            <4>3. \A a, b \in DOMAIN log : a < b => log[a] # log[b]
                <5>1. /\ DOMAIN log = 1..Len(log) /\ Len(log) \in Nat
                      /\ \A a, b \in 1..Len(log) : log[a] = log[b] => a = b
                    BY <2>1, LogFacts
                <5> QED BY <5>1
            <4> QED BY <4>2, <4>3 DEF Before, InLog
        <3>3. ASSUME NEW i \in DOMAIN got, NEW j \in DOMAIN got, i < j, k < i
              PROVE  got[i] # got[j] /\ BroadcastBefore(t, got[i], got[j])
            <4>1. i \in k + 1..Len(got) /\ j \in k + 1..Len(got)
                BY <2>2, <3>1, <3>3
            <4>2. c.pc = "live"
                BY <2>2, <3>1, <4>1
            <4>3. PICK a, b \in c.start + 1..c.pos :
                      a < b /\ Carries(sent, t, a, got[i]) /\ Carries(sent, t, b, got[j])
                BY <3>1, <3>3, <4>1
            <4>4. /\ c.start \in Nat /\ c.pos \in Nat /\ c.pos <= Len(sent) /\ Len(sent) \in Nat
                  /\ DOMAIN sent = 1..Len(sent)
                  /\ \A x, y \in 1..Len(sent) : sent[x].seq = sent[y].seq => x = y
                BY <2>1, <2>2, <4>2, StreamFacts, ChannelFacts DEF Follows
            <4>5. a \in 1..Len(sent) /\ b \in 1..Len(sent) /\ a # b
                BY <4>3, <4>4
            <4>6. got[i] # got[j]
                BY <4>3, <4>4, <4>5 DEF Carries
            <4> QED BY <4>3, <4>4, <4>5, <4>6 DEF Carries, BroadcastBefore
        <3>4. \E seam \in 0..Len(got) :
                  \A i, j \in DOMAIN got : i < j /\ (j <= seam \/ seam < i) =>
                     \/ got[i] < got[j]
                     \/ /\ got[i] # got[j]
                        /\ InLog(t, got[i], got[j]) \/ BroadcastBefore(t, got[i], got[j])
            BY <3>1, <3>2, <3>3
        <3> QED BY <2>4, <3>4 DEF t, c
    <2>5. CASE c.compat /\ c.pc = "closed"
        BY <2>5
    <2> QED BY <2>3, <2>4, <2>5
<1> QED BY ReadIsInvariant, <1>1, PTL

\* A connection that is live leaves out, of the events of its thread broadcast
\* since it subscribed, only those written or broadcast after a greater number.
THEOREM LiveStreamsMissOnlyLate == Spec => []LiveMissesOnlyLate
<1>1. ReadInv => LiveMissesOnlyLate
    <2> SUFFICES ASSUME ReadInv, NEW s \in Streams, stream[s].pc = "live", NEW i \in Missed(s)
                 PROVE  Late(ThreadOf[s], sent[i].seq) \/ LateOnChannel(i)
        BY DEF LiveMissesOnlyLate
    <2>1. Told(stream[s], file[ThreadOf[s]], sent, ThreadOf[s])
        BY DEF ReadInv, Follows
    <2>2. /\ i \in stream[s].start + 1..stream[s].pos
          /\ sent[i].thread = ThreadOf[s] /\ sent[i].seq > stream[s].since
          /\ sent[i].seq \notin Elements(stream[s].got)
        BY DEF Missed
    <2>3. IsLate(file[ThreadOf[s]], sent[i].seq) \/ LateIn(sent, i)
        BY <2>1, <2>2 DEF Told
    <2> QED BY <2>3 DEF IsLate, Late, LateIn, LateOnChannel
<1> QED BY ReadIsInvariant, <1>1, PTL
=============================================================================
