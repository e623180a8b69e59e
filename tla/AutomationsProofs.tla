--------------------------- MODULE AutomationsProofs ---------------------------
(***************************************************************************)
(* Theorems about Automations, for any automations, rules and limits, any  *)
(* number of runs, updates, crashes and failed writes, and any clock.      *)
(***************************************************************************)
EXTENDS Automations, FiniteSetTheorems, TLAPS

\* What a file holds.
IsRecord(r) ==
    /\ r = [status |-> r.status, rule |-> r.rule, next |-> r.next, ran |-> r.ran]
    /\ r.status \in {"Active", "Paused"}
IsRun(r) ==
    /\ r = [auto |-> r.auto, slot |-> r.slot, status |-> r.status, task |-> r.task]
    /\ r.auto \in Autos

Shape ==
    /\ autos = [a \in Autos |-> autos[a]] /\ wanted = [a \in Autos |-> wanted[a]]
    /\ runs = [i \in 1..MaxRuns |-> runs[i]] /\ slot = [i \in 1..MaxRuns |-> slot[i]]
    /\ task = [i \in 1..MaxRuns |-> task[i]]
    /\ \A a \in Autos : Exists(a) => IsRecord(autos[a])
    /\ \A i \in 1..MaxRuns : runs[i] # NoRun => IsRun(runs[i])
    /\ saved \subseteq 1..MaxRuns /\ updates \in Nat
    /\ lock.op \in {"free", "delete", "tick", "run_now", "reconcile"}

\* The run at hand belongs to the task that was enqueued last.
InHand ==
    /\ hand.id \in 1..MaxRuns /\ IsRun(hand.run)
    /\ slot[hand.id] = [auto |-> hand.run.auto, at |-> hand.run.slot]
    /\ \A j \in 1..MaxRuns : hand.id < j => slot[j] = Empty

\* What the holder of the mutex knows of the files, between two of its writes.
Waiting == lock.op \in {"free", "delete"} => hand = Empty
Ticking == lock.op = "tick" =>
    /\ todo \subseteq Autos
    /\ \A a \in todo : Exists(a) /\ read[a] = autos[a]
    /\ hand # Empty => /\ InHand /\ hand.run.auto \in todo
                       /\ hand.run.slot = read[hand.run.auto].next
RunningNow == lock.op = "run_now" =>
    /\ lock.auto \in Autos /\ Exists(lock.auto)
    /\ InHand
Reconciling == lock.op = "reconcile" =>
    /\ todo \subseteq 1..MaxRuns
    /\ \A i \in todo : runs[i] # NoRun /\ Exists(runs[i].auto)
    /\ hand # Empty => hand.id \in todo
Deleting == lock.op = "delete" => lock.auto \in Autos /\ ~Exists(lock.auto)
Holder == Waiting /\ Ticking /\ RunningNow /\ Reconciling /\ Deleting

\* A run on disk is one that was saved, for the slot its task was enqueued for; and
\* what was saved stays, as long as its automation does.
OnDisk == \A i \in 1..MaxRuns : runs[i] # NoRun =>
    /\ i \in saved
    /\ slot[i] = [auto |-> runs[i].auto, at |-> runs[i].slot]
SavedIsThere == \A i \in saved : Exists(slot[i].auto) => runs[i] # NoRun

\* Run ids are drawn in order, for automations that were created.
Drawn == \A i \in 1..MaxRuns :
    /\ slot[i] = Empty => /\ task[i] = "absent" /\ runs[i] = NoRun /\ i \notin saved
                          /\ \A j \in 1..MaxRuns : i < j => slot[j] = Empty
    /\ slot[i] # Empty => slot[i].auto \in Autos /\ wanted[slot[i].auto] # Absent

\* The inductive invariant.
IInv ==
    /\ Shape /\ Holder /\ OnDisk /\ SavedIsThere /\ Drawn
    /\ FileIsAsWanted /\ SlotOncePerSavedRun

USE AutomationsAssumption

-----------------------------------------------------------------------------
(* Records.                                                                *)

LEMMA RecordExists == ASSUME NEW r, IsRecord(r) PROVE r # Absent
BY DEF IsRecord, Absent

LEMMA RecordUpdated ==
  ASSUME NEW r, IsRecord(r), NEW status \in {"Active", "Paused"}, NEW rule, NEW next
  PROVE  IsRecord([r EXCEPT !.status = status, !.rule = rule, !.next = next])
<1> DEFINE new == [r EXCEPT !.status = status, !.rule = rule, !.next = next]
<1>1. r = [status |-> r.status, rule |-> r.rule, next |-> r.next, ran |-> r.ran]
  BY DEF IsRecord
<1>2. DOMAIN r = {"status", "rule", "next", "ran"} BY <1>1
<1>3. /\ DOMAIN new = {"status", "rule", "next", "ran"} /\ new.status = status
      /\ new = [f \in DOMAIN new |-> new[f]]
  BY <1>2
<1> HIDE DEF new
<1>4. new = [status |-> new.status, rule |-> new.rule, next |-> new.next, ran |-> new.ran]
  BY <1>3
<1>5. IsRecord(new) BY <1>3, <1>4 DEF IsRecord
<1> QED BY <1>5 DEF new

LEMMA LastRunUpdated ==
  ASSUME NEW r, IsRecord(r), NEW ran
  PROVE  LET new == [r EXCEPT !.ran = ran] IN
           IsRecord(new) /\ new.status = r.status /\ new.rule = r.rule
<1> DEFINE new == [r EXCEPT !.ran = ran]
<1>1. DOMAIN r = {"status", "rule", "next", "ran"} BY DEF IsRecord
<1>2. /\ DOMAIN new = {"status", "rule", "next", "ran"}
      /\ new.status = r.status /\ new.rule = r.rule /\ new = [f \in DOMAIN new |-> new[f]]
  BY <1>1
<1> HIDE DEF new
<1>3. new = [status |-> new.status, rule |-> new.rule, next |-> new.next, ran |-> new.ran]
  BY <1>2
<1>4. IsRecord(new) BY <1>2, <1>3 DEF IsRecord
<1> QED BY <1>2, <1>4 DEF new

LEMMA NextUpdated ==
  ASSUME NEW r, IsRecord(r), NEW next
  PROVE  LET new == [r EXCEPT !.next = next] IN
           IsRecord(new) /\ new.status = r.status /\ new.rule = r.rule
<1> DEFINE new == [r EXCEPT !.next = next]
<1>1. DOMAIN r = {"status", "rule", "next", "ran"} BY DEF IsRecord
<1>2. /\ DOMAIN new = {"status", "rule", "next", "ran"}
      /\ new.status = r.status /\ new.rule = r.rule /\ new = [f \in DOMAIN new |-> new[f]]
  BY <1>1
<1> HIDE DEF new
<1>3. new = [status |-> new.status, rule |-> new.rule, next |-> new.next, ran |-> new.ran]
  BY <1>2
<1>4. IsRecord(new) BY <1>2, <1>3 DEF IsRecord
<1> QED BY <1>2, <1>4 DEF new

LEMMA RunIsRun == ASSUME NEW r, IsRun(r) PROVE r # NoRun
<1>1. DOMAIN r = {"auto", "slot", "status", "task"} BY DEF IsRun
<1>2. DOMAIN NoRun = {"status"} BY DEF NoRun
<1> QED BY <1>1, <1>2

LEMMA StatusUpdated ==
  ASSUME NEW r, IsRun(r), NEW status
  PROVE  LET new == [r EXCEPT !.status = status] IN
           IsRun(new) /\ new.auto = r.auto /\ new.slot = r.slot
<1> DEFINE new == [r EXCEPT !.status = status]
<1>1. DOMAIN r = {"auto", "slot", "status", "task"} BY DEF IsRun
<1>2. /\ DOMAIN new = {"auto", "slot", "status", "task"}
      /\ new.auto = r.auto /\ new.slot = r.slot /\ new = [f \in DOMAIN new |-> new[f]]
  BY <1>1
<1> HIDE DEF new
<1>3. new = [auto |-> new.auto, slot |-> new.slot, status |-> new.status, task |-> new.task]
  BY <1>2
<1>4. IsRun(new) BY <1>2, <1>3 DEF IsRun
<1> QED BY <1>2, <1>4 DEF new

LEMMA SlotIsSlot == ASSUME NEW a, NEW t PROVE [auto |-> a, at |-> t] # Empty
<1>1. DOMAIN [auto |-> a, at |-> t] = {"auto", "at"} OBVIOUS
<1>2. DOMAIN Empty = {"id"} BY DEF Empty
<1> QED BY <1>1, <1>2

LEMMA Initially == Init => IInv
<1> SUFFICES ASSUME Init PROVE IInv OBVIOUS
<1>1. Shape
  <2>1. task = [i \in 1..MaxRuns |-> task[i]] BY DEF Init, Board!Init
  <2> QED BY <2>1 DEF Init, Shape, Exists, Nobody
<1>2. Holder
  BY DEF Init, Holder, Waiting, Ticking, RunningNow, Reconciling, Deleting, Nobody
<1>3. OnDisk /\ SavedIsThere BY DEF Init, OnDisk, SavedIsThere
<1>4. Drawn BY DEF Init, Drawn, Board!Init
<1>5. FileIsAsWanted BY DEF Init, FileIsAsWanted, Exists
<1>6. SlotOncePerSavedRun BY DEF Init, SlotOncePerSavedRun
<1> QED BY <1>1, <1>2, <1>3, <1>4, <1>5, <1>6 DEF IInv

-----------------------------------------------------------------------------
(* The slots: they change only when a task is enqueued.                    *)

\* What was said of the past of two equal slots stays true as runs are saved.
LEMMA PastStays ==
  ASSUME SlotOncePerSavedRun, saved \subseteq 1..MaxRuns,
         NEW more, more \subseteq 1..MaxRuns, saved \subseteq more,
         NEW i \in 1..MaxRuns, NEW j \in 1..MaxRuns, i < j, slot[i] # Empty,
         slot[i].at # Manual, slot[i] = slot[j], i \in more => i \in saved
  PROVE  i \notin more \/ Cardinality({k \in more : i < k /\ k < j}) >= SlotLimit
<1> SUFFICES ASSUME i \in more
             PROVE  Cardinality({k \in more : i < k /\ k < j}) >= SlotLimit
  OBVIOUS
<1> DEFINE Old == {k \in saved : i < k /\ k < j}
           New == {k \in more : i < k /\ k < j}
<1>1. Cardinality(Old) >= SlotLimit BY DEF SlotOncePerSavedRun
<1>2. IsFiniteSet(1..MaxRuns) BY FS_Interval
<1>3. IsFiniteSet(New)
  <2>1. New \subseteq 1..MaxRuns OBVIOUS
  <2> QED BY <1>2, <2>1, FS_Subset
<1>4. Old \subseteq New OBVIOUS
<1>5. IsFiniteSet(Old) /\ Cardinality(Old) <= Cardinality(New) BY <1>3, <1>4, FS_Subset
<1>6. Cardinality(Old) \in Nat /\ Cardinality(New) \in Nat
  BY <1>3, <1>5, FS_CardinalityType
<1> QED BY <1>1, <1>5, <1>6

LEMMA SlotsStay ==
  ASSUME SlotOncePerSavedRun, UNCHANGED <<slot, saved>>
  PROVE  SlotOncePerSavedRun'
BY DEF SlotOncePerSavedRun

-----------------------------------------------------------------------------
(* Automations: a new record, or the same with another slot or last run.   *)

LEMMA Written ==
  ASSUME IInv, Free, NEW a \in Autos, NEW record, IsRecord(record), Write(a, record),
         Exists(a) \/ wanted[a] = Absent, updates' \in Nat,
         UNCHANGED <<runs, task, lock, loop, hand, slot, saved>>
  PROVE  IInv'
<1>1. /\ autos' = [autos EXCEPT ![a] = record]
      /\ wanted' = [wanted EXCEPT ![a] = [status |-> record.status, rule |-> record.rule]]
  BY DEF Write, Wants
<1>2. record # Absent BY RecordExists
<1>3. lock.op = "free" /\ hand = Empty BY DEF Free, Nobody, IInv, Holder, Waiting
<1>4. Shape' BY <1>1, <1>2 DEF IInv, Shape, Exists, loop
<1>5. Holder'
  BY <1>3 DEF Holder, Waiting, Ticking, RunningNow, Reconciling, Deleting, loop
<1>6. OnDisk' BY DEF IInv, OnDisk
<1>7. \A b \in Autos : wanted[b] # Absent => wanted'[b] # Absent
  BY <1>1 DEF IInv, Shape, IsRecord, Absent
<1>8. Drawn' BY <1>7 DEF IInv, Drawn
<1>9. SavedIsThere'
  <2> SUFFICES ASSUME NEW i \in saved, Exists(slot[i].auto)' PROVE runs[i] # NoRun
    BY DEF SavedIsThere
  <2>1. slot[i].auto \in Autos /\ wanted[slot[i].auto] # Absent
    BY DEF IInv, Drawn, Shape
  <2>2. Exists(slot[i].auto) BY <1>1, <2>1 DEF IInv, Shape, Exists
  <2> QED BY <2>2 DEF IInv, SavedIsThere
<1>10. FileIsAsWanted' BY <1>1, <1>2 DEF IInv, Shape, FileIsAsWanted, Exists
<1>11. SlotOncePerSavedRun' BY SlotsStay DEF IInv
<1> QED BY <1>4, <1>5, <1>6, <1>8, <1>9, <1>10, <1>11 DEF IInv

\* All but what the holder of the mutex knows.
Files == Shape /\ OnDisk /\ SavedIsThere /\ Drawn /\ FileIsAsWanted /\ SlotOncePerSavedRun

LEMMA Touched ==
  ASSUME IInv, NEW a \in Autos, Exists(a), NEW record, IsRecord(record),
         record.status = autos[a].status, record.rule = autos[a].rule,
         autos' = [autos EXCEPT ![a] = record],
         lock'.op \in {"free", "delete", "tick", "run_now", "reconcile"},
         UNCHANGED <<runs, task, slot, saved, wanted, updates>>
  PROVE  Files' /\ \A b \in Autos : Exists(b)' <=> Exists(b)
<1>1. record # Absent BY RecordExists
<1>2. \A b \in Autos : Exists(b)' <=> Exists(b) BY <1>1 DEF IInv, Shape, Exists
<1>3. Shape' BY <1>1 DEF IInv, Shape, Exists
<1>4. OnDisk' /\ Drawn' BY DEF IInv, OnDisk, Drawn
<1>5. SavedIsThere'
  <2>1. \A i \in saved : slot[i].auto \in Autos BY DEF IInv, Drawn, Shape
  <2> QED BY <1>2, <2>1 DEF IInv, SavedIsThere
<1>6. FileIsAsWanted' BY <1>1, <1>2 DEF IInv, Shape, FileIsAsWanted
<1>7. SlotOncePerSavedRun' BY SlotsStay DEF IInv
<1> QED BY <1>2, <1>3, <1>4, <1>5, <1>6, <1>7 DEF Files

\* Steps that touch neither automations nor runs.
LEMMA Untouched ==
  ASSUME IInv, lock'.op \in {"free", "delete", "tick", "run_now", "reconcile"},
         UNCHANGED <<autos, runs, task, slot, saved, wanted, updates>>
  PROVE  Files'
<1>1. Shape' BY DEF IInv, Shape, Exists
<1>2. OnDisk' /\ Drawn' BY DEF IInv, OnDisk, Drawn
<1>3. SavedIsThere' BY DEF IInv, SavedIsThere, Exists
<1>4. FileIsAsWanted' BY DEF IInv, FileIsAsWanted, Exists
<1>5. SlotOncePerSavedRun' BY SlotsStay DEF IInv
<1> QED BY <1>1, <1>2, <1>3, <1>4, <1>5 DEF Files

LEMMA CreateStep == ASSUME IInv, NEW a \in Autos, create_automation(a) PROVE IInv'
<1>1. PICK rule \in Rules, status \in {"Active", "Paused"} :
        Write(a, [status |-> status, rule |-> rule, ran |-> FALSE,
                  next |-> IF status = "Active" THEN NextAfter(rule, clock) ELSE None])
  BY DEF create_automation
<1> DEFINE record == [status |-> status, rule |-> rule, ran |-> FALSE,
                      next |-> IF status = "Active" THEN NextAfter(rule, clock) ELSE None]
<1>2. IsRecord(record) BY DEF IsRecord
<1>3. Free /\ wanted[a] = Absent /\ updates' \in Nat
      /\ UNCHANGED <<runs, task, lock, loop, hand, slot, saved>>
  BY DEF create_automation, Simple, Client, IInv, Shape
<1> HIDE DEF record
<1>4. Write(a, record) BY <1>1 DEF record
<1> QED BY <1>2, <1>3, <1>4, Written

LEMMA UpdateStep == ASSUME IInv, NEW a \in Autos, update_automation(a) PROVE IInv'
<1>1. PICK rule \in Rules, status \in {"Active", "Paused"} :
        Write(a, [autos[a] EXCEPT
            !.status = status, !.rule = rule,
            !.next = IF status = "Active" THEN NextAfter(rule, clock) ELSE None])
  BY DEF update_automation
<1> DEFINE next == IF status = "Active" THEN NextAfter(rule, clock) ELSE None
           record == [autos[a] EXCEPT !.status = status, !.rule = rule, !.next = next]
<1>2. IsRecord(autos[a]) BY DEF update_automation, IInv, Shape
<1>3. IsRecord(record)
  <2> HIDE DEF next
  <2> QED BY <1>2, RecordUpdated
<1>4. Free /\ Exists(a) /\ updates' \in Nat
      /\ UNCHANGED <<runs, task, lock, loop, hand, slot, saved>>
  BY DEF update_automation, Simple, Client, IInv, Shape
<1> HIDE DEF record
<1>5. Write(a, record) BY <1>1 DEF record
<1> QED BY <1>3, <1>4, <1>5, Written

LEMMA DeleteStep == ASSUME IInv, NEW a \in Autos, delete_automation(a) PROVE IInv'
<1>1. /\ autos' = [autos EXCEPT ![a] = Absent]
      /\ wanted' = [wanted EXCEPT ![a] = [status |-> "deleted"]]
      /\ lock' = [op |-> "delete", auto |-> a] /\ updates' = updates + 1
      /\ UNCHANGED <<runs, task, hand, slot, saved>>
  BY DEF delete_automation, Simple, Client
<1>2. hand = Empty
  BY DEF delete_automation, Simple, Client, Free, Nobody, IInv, Holder, Waiting
<1>3. Shape'
  <2>1. lock'.op = "delete" BY <1>1
  <2>2. updates' \in Nat BY <1>1 DEF IInv, Shape
  <2>3. /\ autos' = [b \in Autos |-> autos'[b]]
        /\ \A b \in Autos : Exists(b)' => Exists(b) /\ autos'[b] = autos[b]
    BY <1>1 DEF IInv, Shape, Exists
  <2>4. wanted' = [b \in Autos |-> wanted'[b]] BY <1>1 DEF IInv, Shape
  <2> QED BY <1>1, <2>1, <2>2, <2>3, <2>4 DEF IInv, Shape
<1>4. Holder'
  <2>1. ~Exists(a)' BY <1>1 DEF Exists, IInv, Shape
  <2> QED BY <1>1, <1>2, <2>1
        DEF Holder, Waiting, Ticking, RunningNow, Reconciling, Deleting, Exists
<1>5. OnDisk' BY <1>1 DEF IInv, OnDisk
<1>6. Drawn' BY <1>1 DEF IInv, Drawn, Shape, Absent
<1>7. SavedIsThere'
  <2>1. \A i \in saved : slot[i].auto \in Autos BY DEF IInv, Drawn, Shape
  <2> QED BY <1>1, <2>1 DEF IInv, Shape, SavedIsThere, Exists
<1>8. FileIsAsWanted' BY <1>1 DEF IInv, Shape, FileIsAsWanted, Exists
<1>9. SlotOncePerSavedRun' BY <1>1, SlotsStay DEF IInv
<1> QED BY <1>3, <1>4, <1>5, <1>6, <1>7, <1>8, <1>9 DEF IInv

LEMMA RemoveStep == ASSUME IInv, RemoveRuns PROVE IInv'
<1> USE DEF RemoveRuns, files, history
<1>1. runs' = [i \in 1..MaxRuns |-> IF i \in RunsOf(lock.auto) THEN NoRun ELSE runs[i]]
      /\ lock' = Nobody /\ UNCHANGED <<autos, task, hand, wanted, slot, saved, updates>>
  OBVIOUS
<1>2. hand = Empty /\ lock.auto \in Autos /\ ~Exists(lock.auto)
  BY DEF IInv, Holder, Waiting, Deleting
<1>3. Shape' BY <1>1 DEF IInv, Shape, Exists, Nobody
<1>4. Holder'
  BY <1>1, <1>2 DEF Holder, Waiting, Ticking, RunningNow, Reconciling, Deleting, Nobody
<1>5. OnDisk' BY <1>1 DEF IInv, OnDisk
<1>6. Drawn' BY <1>1 DEF IInv, Drawn
<1>7. SavedIsThere'
  <2> SUFFICES ASSUME NEW i \in saved, Exists(slot[i].auto) PROVE runs'[i] # NoRun
    BY <1>1 DEF SavedIsThere, Exists
  <2>1. runs[i] # NoRun /\ i \in 1..MaxRuns BY DEF IInv, SavedIsThere, Shape
  <2>2. slot[i] = [auto |-> runs[i].auto, at |-> runs[i].slot]
    BY <2>1 DEF IInv, OnDisk
  <2>3. runs[i].auto = slot[i].auto BY <2>2
  <2> QED BY <1>1, <1>2, <2>1, <2>3 DEF RunsOf
<1>8. FileIsAsWanted' BY <1>1 DEF IInv, FileIsAsWanted, Exists
<1>9. SlotOncePerSavedRun' BY <1>1, SlotsStay DEF IInv
<1> QED BY <1>3, <1>4, <1>5, <1>6, <1>7, <1>8, <1>9 DEF IInv

-----------------------------------------------------------------------------
(* Tasks and runs.                                                         *)

\* The run that is about to exist: the first free number, which nothing precedes.
LEMMA Enqueued ==
  ASSUME IInv, hand = Empty, NEW a \in Autos, NEW due, Exists(a),
         enqueue_run_task(a, due), due = Manual \/ ~HasRun(a, due),
         lock'.op \in {"tick", "run_now"},
         updates' \in Nat, UNCHANGED <<autos, runs, wanted, saved>>
  PROVE  /\ Files' /\ InHand' /\ hand' # Empty
         /\ hand'.run.auto = a /\ hand'.run.slot = due
<1>1. PICK n \in Fresh :
        /\ \A j \in Fresh : n <= j
        /\ slot' = [slot EXCEPT ![n] = [auto |-> a, at |-> due]]
        /\ Board!Submit(n) \/ UNCHANGED task
        /\ \/ hand' = [id |-> n, run |-> [auto |-> a, slot |-> due,
                                          status |-> "Running", task |-> n]]
           \/ hand' = [id |-> n, run |-> [auto |-> a, slot |-> due,
                                          status |-> "Failed", task |-> NoTask]]
  BY DEF enqueue_run_task
<1>2. n \in 1..MaxRuns /\ task[n] = "absent" /\ slot[n] = Empty /\ runs[n] = NoRun
  BY DEF Fresh
<1>3. slot'[n] = [auto |-> a, at |-> due] /\ slot'[n] # Empty
      /\ \A j \in 1..MaxRuns : j # n => slot'[j] = slot[j]
  BY <1>1, <1>2, SlotIsSlot DEF IInv, Shape
<1>4. \A j \in 1..MaxRuns : j # n => task'[j] = task[j]
  BY <1>1 DEF Board!Submit, Board!Becomes, IInv, Shape
<1>5. \A j \in 1..MaxRuns : j < n => slot[j] # Empty
  <2> SUFFICES ASSUME NEW j \in 1..MaxRuns, j < n, slot[j] = Empty PROVE FALSE OBVIOUS
  <2>1. j \in Fresh BY DEF IInv, Drawn, Fresh
  <2> QED BY <1>1, <1>2, <2>1
<1>6. \A j \in 1..MaxRuns : n < j => slot[j] = Empty BY <1>2 DEF IInv, Drawn
<1>7. wanted[a] # Absent
  <2>1. autos[a].status # "absent" BY DEF IInv, Shape, IsRecord
  <2>2. wanted[a] = [status |-> autos[a].status, rule |-> autos[a].rule]
    BY DEF IInv, FileIsAsWanted
  <2>3. wanted[a].status # "absent" BY <2>1, <2>2
  <2> QED BY <2>3 DEF Absent
<1>8. /\ hand'.id = n /\ hand'.run.auto = a /\ hand'.run.slot = due
      /\ hand'.run = [auto |-> hand'.run.auto, slot |-> hand'.run.slot,
                      status |-> hand'.run.status, task |-> hand'.run.task]
  BY <1>1
<1>9. InHand' BY <1>2, <1>3, <1>6, <1>8 DEF InHand, IsRun
<1>10. hand' # Empty BY <1>2, <1>8 DEF Empty
<1>11. Shape'
  <2>1. slot' = [i \in 1..MaxRuns |-> slot'[i]] BY <1>1 DEF IInv, Shape
  <2>2. task' = [i \in 1..MaxRuns |-> task'[i]]
    BY <1>1 DEF Board!Submit, Board!Becomes, IInv, Shape
  <2> QED BY <2>1, <2>2 DEF IInv, Shape, Exists
<1>12. OnDisk' BY <1>2, <1>3 DEF IInv, OnDisk
<1>13. n \notin saved BY <1>2 DEF IInv, Drawn
<1>14. SavedIsThere'
  <2>1. \A i \in saved : slot'[i] = slot[i] BY <1>3, <1>13 DEF IInv, Shape
  <2> QED BY <2>1 DEF IInv, SavedIsThere, Exists
<1>15. Drawn'
  <2> SUFFICES ASSUME NEW i \in 1..MaxRuns
      PROVE  /\ slot'[i] = Empty => /\ task'[i] = "absent" /\ runs[i] = NoRun
                                    /\ i \notin saved
                                    /\ \A j \in 1..MaxRuns : i < j => slot'[j] = Empty
             /\ slot'[i] # Empty => slot'[i].auto \in Autos /\ wanted[slot'[i].auto] # Absent
    BY DEF Drawn
  <2>1. CASE i = n BY <1>3, <1>7, <2>1
  <2>2. CASE i # n
    <3>1. slot'[i] = slot[i] BY <1>3, <2>2
    <3>2. slot[i] = Empty => n < i BY <1>2, <1>5, <2>2
    <3>3. slot[i] = Empty => \A j \in 1..MaxRuns : i < j => slot'[j] = Empty
      BY <1>2, <1>3, <3>2 DEF IInv, Drawn
    <3> QED BY <1>4, <2>2, <3>1, <3>3 DEF IInv, Drawn
  <2> QED BY <2>1, <2>2
<1>16. FileIsAsWanted' BY DEF IInv, FileIsAsWanted, Exists
<1>17. SlotOncePerSavedRun'
  <2> SUFFICES ASSUME NEW i \in 1..MaxRuns, NEW j \in 1..MaxRuns, i < j, slot'[i] # Empty,
                      slot'[i].at # Manual, slot'[i] = slot'[j], i \in saved
               PROVE  Cardinality({k \in saved : i < k /\ k < j}) >= SlotLimit
    BY DEF SlotOncePerSavedRun
  <2>1. i # n /\ slot'[i] = slot[i] BY <1>3, <1>13
  <2>2. CASE j # n
    <3>1. slot[i] = slot[j] BY <1>3, <2>1, <2>2
    <3> QED BY <2>1, <3>1 DEF IInv, SlotOncePerSavedRun
  <2>3. CASE j = n
    <3>1. slot[i] = [auto |-> a, at |-> due] BY <1>3, <2>1, <2>3
    <3>2. slot[i].auto = a /\ slot[i].at = due BY <3>1
    <3>3. runs[i] # NoRun BY <3>2 DEF IInv, SavedIsThere
    <3>4. slot[i] = [auto |-> runs[i].auto, at |-> runs[i].slot] BY <3>3 DEF IInv, OnDisk
    <3>5. runs[i].auto = a /\ runs[i].slot = due BY <3>2, <3>4
    <3>6. ~HasRun(a, due) BY <2>1, <3>2
    <3>7. i \in RunsOf(a) /\ i \notin Newest(a, SlotLimit)
      BY <3>3, <3>5, <3>6 DEF RunsOf, HasRun
    <3> DEFINE Later == {k \in RunsOf(a) : k > i}
               Between == {k \in saved : i < k /\ k < n}
    <3>8. ~(Cardinality(Later) < SlotLimit) BY <3>7 DEF Newest
    <3>9. Later \subseteq Between
      <4> SUFFICES ASSUME NEW k \in RunsOf(a), k > i PROVE k \in saved /\ k < n OBVIOUS
      <4>1. k \in 1..MaxRuns /\ runs[k] # NoRun BY DEF RunsOf
      <4>2. k \in saved BY <4>1 DEF IInv, OnDisk
      <4>3. slot[k] # Empty BY <4>1, <4>2 DEF IInv, Drawn
      <4> QED BY <1>2, <1>6, <1>13, <4>1, <4>2, <4>3
    <3>10. IsFiniteSet(Between)
      <4>1. Between \subseteq 1..MaxRuns BY DEF IInv, Shape
      <4>2. IsFiniteSet(1..MaxRuns) BY FS_Interval
      <4> HIDE DEF Between
      <4> QED BY <4>1, <4>2, FS_Subset
    <3>11. IsFiniteSet(Later) /\ Cardinality(Later) <= Cardinality(Between)
      BY <3>9, <3>10, FS_Subset
    <3>12. Cardinality(Later) \in Nat /\ Cardinality(Between) \in Nat
      BY <3>10, <3>11, FS_CardinalityType
    <3> QED BY <2>3, <3>8, <3>11, <3>12
  <2> QED BY <2>2, <2>3
<1> QED BY <1>8, <1>9, <1>10, <1>11, <1>12, <1>14, <1>15, <1>16, <1>17 DEF Files

LEMMA RunNowStep == ASSUME IInv, NEW a \in Autos, run_now(a) PROVE IInv'
<1>1. /\ Exists(a) /\ enqueue_run_task(a, Manual) /\ lock' = [op |-> "run_now", auto |-> a]
      /\ lock = Nobody /\ updates' \in Nat
      /\ UNCHANGED <<autos, runs, wanted, saved>>
  BY DEF run_now, Client, Free, files, IInv, Shape
<1>2. hand = Empty BY <1>1 DEF IInv, Holder, Waiting, Nobody
<1>3. lock'.op = "run_now" /\ lock'.auto = a BY <1>1
<1>4. Files' /\ InHand' BY <1>1, <1>2, <1>3, Enqueued
<1>5. Holder'
  BY <1>1, <1>3, <1>4
  DEF Holder, Waiting, Ticking, RunningNow, Reconciling, Deleting, Exists
<1> QED BY <1>4, <1>5 DEF IInv, Files

LEMMA TickEnqueuesStep == ASSUME IInv, NEW a \in Autos, TickEnqueues(a) PROVE IInv'
<1>1. /\ lock.op = "tick" /\ hand = Empty /\ a \in todo /\ ~HasRun(a, read[a].next)
      /\ enqueue_run_task(a, read[a].next)
      /\ UNCHANGED <<autos, runs, lock, read, todo, wanted, saved, updates>>
  BY DEF TickEnqueues, files, loop
<1>2. Exists(a) BY <1>1 DEF IInv, Holder, Ticking
<1>3. lock'.op = "tick" /\ updates' \in Nat BY <1>1 DEF IInv, Shape
<1>4. /\ Files' /\ InHand' /\ hand'.run.auto = a /\ hand'.run.slot = read[a].next
  BY <1>1, <1>2, <1>3, Enqueued
<1>5. Ticking' BY <1>1, <1>4 DEF Ticking, IInv, Holder, Exists
<1>6. Holder' BY <1>3, <1>5 DEF Holder, Waiting, RunningNow, Reconciling, Deleting
<1> QED BY <1>4, <1>6 DEF IInv, Files

\* Only a run that is at hand is saved; the one of an automation that exists.
LEMMA SaveStep == ASSUME IInv, save_run PROVE IInv'
<1>1. /\ hand # Empty /\ hand.id \notin saved
      /\ runs' = [runs EXCEPT ![hand.id] = hand.run] /\ saved' = saved \cup {hand.id}
      /\ UNCHANGED <<autos, task, lock, read, todo, hand, wanted, slot, updates>>
  BY DEF save_run, loop
<1>2. lock.op \in {"tick", "run_now"}
  <2>1. lock.op \notin {"free", "delete"} BY <1>1 DEF IInv, Holder, Waiting
  <2>2. lock.op # "reconcile"
    BY <1>1 DEF IInv, Holder, Reconciling, OnDisk
  <2> QED BY <2>1, <2>2 DEF IInv, Shape
<1>3. InHand BY <1>1, <1>2 DEF IInv, Holder, Ticking, RunningNow
<1>4. /\ hand.id \in 1..MaxRuns /\ IsRun(hand.run) /\ hand.run # NoRun
      /\ slot[hand.id] = [auto |-> hand.run.auto, at |-> hand.run.slot]
  BY <1>3, RunIsRun DEF InHand
<1>5. /\ runs'[hand.id] = hand.run
      /\ \A i \in 1..MaxRuns : i # hand.id => runs'[i] = runs[i]
  BY <1>1, <1>4 DEF IInv, Shape
<1>6. Shape' BY <1>1, <1>4, <1>5 DEF IInv, Shape, Exists, IsRun
<1>7. Holder'
  <2>1. InHand' BY <1>1, <1>3 DEF InHand, IsRun
  <2> QED BY <1>1, <1>2, <2>1
        DEF IInv, Holder, Waiting, Ticking, RunningNow, Reconciling, Deleting, Exists
<1>8. OnDisk' BY <1>1, <1>4, <1>5 DEF IInv, OnDisk
<1>9. SavedIsThere' BY <1>1, <1>4, <1>5 DEF IInv, SavedIsThere, Shape, Exists
<1>10. slot[hand.id] # Empty BY <1>4, SlotIsSlot
<1>11. Drawn' BY <1>1, <1>5, <1>10 DEF IInv, Drawn
<1>12. FileIsAsWanted' BY <1>1 DEF IInv, FileIsAsWanted, Exists
<1>13. SlotOncePerSavedRun'
  <2> SUFFICES ASSUME NEW i \in 1..MaxRuns, NEW j \in 1..MaxRuns, i < j, slot[i] # Empty,
                      slot[i].at # Manual, slot[i] = slot[j]
      PROVE  i \notin saved' \/ Cardinality({k \in saved' : i < k /\ k < j}) >= SlotLimit
    BY <1>1 DEF SlotOncePerSavedRun
  <2>1. i # hand.id BY <1>3 DEF InHand
  <2>2. saved' \subseteq 1..MaxRuns /\ saved \subseteq saved' /\ (i \in saved' => i \in saved)
    BY <1>1, <1>4, <2>1 DEF IInv, Shape
  <2> QED BY <2>2, PastStays DEF IInv, Shape
<1> QED BY <1>6, <1>7, <1>8, <1>9, <1>11, <1>12, <1>13 DEF IInv

LEMMA RunNowReturnsStep == ASSUME IInv, RunNowReturns PROVE IInv'
<1> DEFINE a == lock.auto
           ran == autos[a].ran \/ hand.run.status = "Failed"
           record == [autos[a] EXCEPT !.ran = ran]
<1>1. /\ autos' = [autos EXCEPT ![a] = record] /\ lock' = Nobody /\ hand' = Empty
      /\ UNCHANGED <<runs, task, slot, saved, wanted, updates>>
  BY DEF RunNowReturns, history
<1>2. a \in Autos /\ Exists(a) /\ IsRecord(autos[a])
  BY DEF RunNowReturns, IInv, Holder, RunningNow, Shape
<1> HIDE DEF ran
<1>3. IsRecord(record) /\ record.status = autos[a].status /\ record.rule = autos[a].rule
  BY <1>2, LastRunUpdated
<1> HIDE DEF a, record
<1>4. lock'.op = "free" BY <1>1 DEF Nobody
<1>5. Files' BY <1>1, <1>2, <1>3, <1>4, Touched
<1>6. Holder'
  BY <1>1, <1>4 DEF Holder, Waiting, Ticking, RunningNow, Reconciling, Deleting
<1> QED BY <1>5, <1>6 DEF IInv, Files

LEMMA TickStartsStep == ASSUME IInv, TickStarts PROVE IInv'
<1>1. /\ lock = Nobody /\ lock' = [op |-> "tick"]
      /\ read' = autos /\ todo' = {a \in Autos : Exists(a)}
      /\ UNCHANGED <<autos, runs, task, hand, slot, saved, wanted, updates>>
  BY DEF TickStarts, Free, files, history
<1>2. hand = Empty /\ lock'.op = "tick" BY <1>1 DEF IInv, Holder, Waiting, Nobody
<1>3. Files' BY <1>1, <1>2, Untouched
<1>4. Holder'
  BY <1>1, <1>2 DEF Holder, Waiting, Ticking, RunningNow, Reconciling, Deleting, Exists
<1> QED BY <1>3, <1>4 DEF IInv, Files

LEMMA TickPassesStep == ASSUME IInv, NEW a \in Autos, TickPasses(a) PROVE IInv'
<1>1. /\ lock.op = "tick" /\ hand = Empty /\ todo' = todo \ {a}
      /\ UNCHANGED <<autos, runs, task, lock, read, hand, slot, saved, wanted, updates>>
  BY DEF TickPasses, files, history
<1>2. Files' BY <1>1, Untouched
<1>3. Holder'
  BY <1>1 DEF IInv, Holder, Waiting, Ticking, RunningNow, Reconciling, Deleting, Exists
<1> QED BY <1>2, <1>3 DEF IInv, Files

\* What the tick writes back is what it read, with the next slot.
LEMMA TickAdvancesStep == ASSUME IInv, NEW a \in Autos, TickAdvances(a) PROVE IInv'
<1> DEFINE next == NextAfter(read[a].rule, read[a].next)
           record == [autos[a] EXCEPT !.next = next]
<1>1. /\ lock.op = "tick" /\ a \in todo
      /\ autos' = [autos EXCEPT ![a] = Advanced(read[a])]
      /\ todo' = todo \ {a} /\ hand' = Empty
      /\ UNCHANGED <<runs, task, lock, read, slot, saved, wanted, updates>>
  BY DEF TickAdvances, history
<1>2. Exists(a) /\ read[a] = autos[a] /\ IsRecord(autos[a])
  BY <1>1 DEF IInv, Holder, Ticking, Shape
<1>3. autos' = [autos EXCEPT ![a] = record] BY <1>1, <1>2 DEF Advanced
<1> HIDE DEF next
<1>4. IsRecord(record) /\ record.status = autos[a].status /\ record.rule = autos[a].rule
  BY <1>2, NextUpdated
<1> HIDE DEF record
<1>5. lock'.op = "tick" BY <1>1
<1>6. Files' /\ \A b \in Autos : Exists(b)' <=> Exists(b)
  BY <1>1, <1>2, <1>3, <1>4, <1>5, Touched
<1>7. \A b \in Autos : b # a => autos'[b] = autos[b] BY <1>3 DEF IInv, Shape
<1>8. Ticking' BY <1>1, <1>6, <1>7 DEF IInv, Holder, Ticking
<1>9. Holder' BY <1>5, <1>8 DEF Holder, Waiting, RunningNow, Reconciling, Deleting
<1> QED BY <1>6, <1>9 DEF IInv, Files

LEMMA ReconcileStartsStep == ASSUME IInv, ReconcileStarts PROVE IInv'
<1>1. /\ hand = Empty /\ lock' = [op |-> "reconcile"]
      /\ UNCHANGED <<autos, runs, task, hand, slot, saved, wanted, updates>>
  BY DEF ReconcileStarts, files, history
<1>2. \A i \in todo' : i \in 1..MaxRuns /\ runs[i] # NoRun /\ Exists(runs[i].auto)
  BY DEF ReconcileStarts, Newest, RunsOf
<1>3. lock'.op = "reconcile" BY <1>1
<1>4. Files' BY <1>1, <1>3, Untouched
<1>5. Holder'
  BY <1>1, <1>2, <1>3
  DEF Holder, Waiting, Ticking, RunningNow, Reconciling, Deleting, Exists
<1> QED BY <1>4, <1>5 DEF IInv, Files

\* A run keeps its automation and its slot.
LEMMA ReconcileRunStep == ASSUME IInv, NEW i \in 1..MaxRuns, ReconcileRun(i) PROVE IInv'
<1>1. /\ lock.op = "reconcile" /\ hand = Empty /\ i \in todo
      /\ UNCHANGED <<autos, task, lock, slot, saved, wanted, updates>>
  BY DEF ReconcileRun, history
<1>2. runs[i] # NoRun /\ Exists(runs[i].auto) BY <1>1 DEF IInv, Holder, Reconciling
<1>3. IsRun(runs[i]) BY <1>2 DEF IInv, Shape
<1>4. \/ runs' = runs
      \/ \E status : runs' = [runs EXCEPT ![i] = [runs[i] EXCEPT !.status = status]]
  BY DEF ReconcileRun
<1>5. /\ runs' = [j \in 1..MaxRuns |-> runs'[j]]
      /\ \A j \in 1..MaxRuns : /\ runs'[j] # NoRun <=> runs[j] # NoRun
                               /\ runs[j] # NoRun => /\ IsRun(runs'[j])
                                                     /\ runs'[j].auto = runs[j].auto
                                                     /\ runs'[j].slot = runs[j].slot
  <2>1. CASE runs' = runs BY <2>1 DEF IInv, Shape
  <2>2. CASE runs' # runs
    <3>1. PICK status : runs' = [runs EXCEPT ![i] = [runs[i] EXCEPT !.status = status]]
      BY <1>4, <2>2
    <3> DEFINE new == [runs[i] EXCEPT !.status = status]
    <3>2. IsRun(new) /\ new.auto = runs[i].auto /\ new.slot = runs[i].slot
      BY <1>3, StatusUpdated
    <3> HIDE DEF new
    <3>3. new # NoRun BY <3>2, RunIsRun
    <3>4. runs' = [runs EXCEPT ![i] = new] BY <3>1 DEF new
    <3> QED BY <1>2, <3>2, <3>3, <3>4 DEF IInv, Shape
  <2> QED BY <2>1, <2>2
<1>6. Shape' BY <1>1, <1>5 DEF IInv, Shape, Exists
<1>7. Holder'
  <2>1. todo' \subseteq todo /\ (hand' # Empty => hand'.id \in todo')
    <3>1. \/ todo' = todo \ {i} /\ hand' = hand
          \/ hand' = [id |-> i] /\ todo' = todo
      BY DEF ReconcileRun
    <3>2. CASE todo' = todo \ {i} /\ hand' = hand BY <1>1, <3>2
    <3>3. CASE hand' = [id |-> i] /\ todo' = todo
      <4>1. hand'.id = i BY <3>3
      <4> QED BY <1>1, <3>3, <4>1
    <3> QED BY <3>1, <3>2, <3>3
  <2>2. Reconciling'
    BY <1>1, <1>5, <2>1 DEF IInv, Holder, Reconciling, Exists
  <2> QED BY <1>1, <2>2 DEF Holder, Waiting, Ticking, RunningNow, Deleting
<1>8. OnDisk' BY <1>1, <1>5 DEF IInv, OnDisk
<1>9. SavedIsThere' BY <1>1, <1>5 DEF IInv, SavedIsThere, Shape, Exists
<1>10. Drawn' BY <1>1, <1>5 DEF IInv, Drawn
<1>11. FileIsAsWanted' BY <1>1 DEF IInv, FileIsAsWanted, Exists
<1>12. SlotOncePerSavedRun' BY <1>1, SlotsStay DEF IInv
<1> QED BY <1>6, <1>7, <1>8, <1>9, <1>10, <1>11, <1>12 DEF IInv

LEMMA RecordLastRunStep == ASSUME IInv, RecordLastRun PROVE IInv'
<1> DEFINE a == runs[hand.id].auto
           record == [autos[a] EXCEPT !.ran = TRUE]
<1>1. /\ lock.op = "reconcile" /\ hand # Empty
      /\ autos' = [autos EXCEPT ![a] = record]
      /\ todo' = todo \ {hand.id} /\ hand' = Empty
      /\ UNCHANGED <<runs, task, lock, slot, saved, wanted, updates>>
  BY DEF RecordLastRun, history
<1>2. hand.id \in 1..MaxRuns /\ runs[hand.id] # NoRun /\ Exists(a)
  BY <1>1 DEF IInv, Holder, Reconciling
<1>3. a \in Autos BY <1>2 DEF IInv, Shape, IsRun
<1>4. IsRecord(autos[a]) BY <1>2, <1>3 DEF IInv, Shape
<1> HIDE DEF a
<1>5. IsRecord(record) /\ record.status = autos[a].status /\ record.rule = autos[a].rule
  BY <1>4, LastRunUpdated
<1> HIDE DEF record
<1>6. Files' /\ \A b \in Autos : Exists(b)' <=> Exists(b)
  BY <1>1, <1>2, <1>3, <1>5, Touched
<1>7. \A i \in todo : runs[i].auto \in Autos
  BY <1>1 DEF IInv, Holder, Reconciling, Shape, IsRun
<1>8. Reconciling' BY <1>1, <1>6, <1>7 DEF IInv, Holder, Reconciling
<1>9. Holder' BY <1>1, <1>8 DEF Holder, Waiting, Ticking, RunningNow, Deleting
<1> QED BY <1>6, <1>9 DEF IInv, Files

LEMMA TickEndsStep == ASSUME IInv, TickEnds PROVE IInv'
<1>1. /\ hand' = Empty /\ lock' = Nobody
      /\ UNCHANGED <<autos, runs, task, slot, saved, wanted, updates>>
  BY DEF TickEnds, files, history
<1>2. lock'.op = "free" BY <1>1 DEF Nobody
<1>3. Files' BY <1>1, <1>2, Untouched
<1>4. Holder'
  BY <1>1, <1>2 DEF Holder, Waiting, Ticking, RunningNow, Reconciling, Deleting
<1> QED BY <1>3, <1>4 DEF IInv, Files

LEMMA WriteFailsStep == ASSUME IInv, WriteFails PROVE IInv'
<1>1. /\ hand' = Empty /\ todo' = {}
      /\ lock' = IF lock.op = "tick" THEN lock ELSE Nobody
      /\ UNCHANGED <<autos, runs, task, slot, saved, wanted, updates>>
  BY DEF WriteFails, files, history
<1>2. lock'.op \in {"free", "tick"} BY <1>1 DEF Nobody
<1>3. Files' BY <1>1, <1>2, Untouched
<1>4. Holder'
  BY <1>1, <1>2 DEF Holder, Waiting, Ticking, RunningNow, Reconciling, Deleting
<1> QED BY <1>3, <1>4 DEF IInv, Files

\* The status of a task may change, as long as nothing is submitted.
LEMMA TasksMove ==
  ASSUME IInv, task' = [i \in 1..MaxRuns |-> task'[i]],
         \A i \in 1..MaxRuns : task[i] = "absent" => task'[i] = "absent",
         lock'.op \in {"free", "delete", "tick", "run_now", "reconcile"},
         UNCHANGED <<autos, runs, slot, saved, wanted, updates>>
  PROVE  Files'
<1>1. Shape' BY DEF IInv, Shape, Exists
<1>2. OnDisk' BY DEF IInv, OnDisk
<1>3. Drawn' BY DEF IInv, Drawn
<1>4. SavedIsThere' BY DEF IInv, SavedIsThere, Exists
<1>5. FileIsAsWanted' BY DEF IInv, FileIsAsWanted, Exists
<1>6. SlotOncePerSavedRun' BY SlotsStay DEF IInv
<1> QED BY <1>1, <1>2, <1>3, <1>4, <1>5, <1>6 DEF Files

LEMMA CrashStep == ASSUME IInv, Crash PROVE IInv'
<1>1. /\ hand' = Empty /\ lock' = Nobody
      /\ task' = [i \in 1..MaxRuns |-> Requeued(task[i])]
      /\ UNCHANGED <<autos, runs, slot, saved, wanted, updates>>
  BY DEF Crash, files, history
<1>2. lock'.op = "free" BY <1>1 DEF Nobody
<1>3. task' = [i \in 1..MaxRuns |-> task'[i]] BY <1>1
<1>4. \A i \in 1..MaxRuns : task[i] = "absent" => task'[i] = "absent"
  BY <1>1 DEF Requeued
<1>5. Files' BY <1>1, <1>2, <1>3, <1>4, TasksMove
<1>6. Holder'
  BY <1>1, <1>2 DEF Holder, Waiting, Ticking, RunningNow, Reconciling, Deleting
<1> QED BY <1>5, <1>6 DEF IInv, Files

LEMMA TaskMovesStep == ASSUME IInv, NEW i \in 1..MaxRuns, TaskMoves(i) PROVE IInv'
<1>1. UNCHANGED <<autos, runs, lock, read, todo, hand, slot, saved, wanted, updates>>
  BY DEF TaskMoves, files, loop, history
<1>2. task[i] # "absent" /\ \E s : task' = [task EXCEPT ![i] = s]
  BY DEF TaskMoves, Board!Claim, Board!Withdraw, Board!Settle, Board!Becomes
<1>3. task' = [j \in 1..MaxRuns |-> task'[j]] BY <1>2 DEF IInv, Shape
<1>4. \A j \in 1..MaxRuns : task[j] = "absent" => task'[j] = "absent"
  BY <1>2 DEF IInv, Shape
<1>5. lock'.op = lock.op BY <1>1
<1>6. Files' BY <1>1, <1>3, <1>4, <1>5, TasksMove DEF IInv, Shape
<1>7. InHand => InHand' BY <1>1 DEF InHand, IsRun
<1>8. Holder'
  BY <1>1, <1>7
  DEF IInv, Holder, Waiting, Ticking, RunningNow, Reconciling, Deleting, Exists
<1> QED BY <1>6, <1>8 DEF IInv, Files

\* Time, and steps that are none.
LEMMA IdleStep ==
  ASSUME IInv, UNCHANGED <<files, task, lock, loop, hand, history, updates>> PROVE IInv'
<1>1. UNCHANGED <<autos, runs, task, lock, read, todo, hand, slot, saved, wanted, updates>>
  BY DEF files, loop, history
<1>2. lock'.op = lock.op BY <1>1
<1>3. Files' BY <1>1, <1>2, Untouched DEF IInv, Shape
<1>4. InHand => InHand' BY <1>1 DEF InHand, IsRun
<1>5. Holder'
  BY <1>1, <1>4
  DEF IInv, Holder, Waiting, Ticking, RunningNow, Reconciling, Deleting, Exists
<1> QED BY <1>3, <1>5 DEF IInv, Files

LEMMA Step == IInv /\ [Next]_vars => IInv'
<1> SUFFICES ASSUME IInv, [Next]_vars PROVE IInv' OBVIOUS
<1>1. CASE Operation
  BY <1>1, RemoveStep, SaveStep, RunNowReturnsStep, CreateStep, UpdateStep, DeleteStep,
     RunNowStep
  DEF Operation
<1>2. CASE Tick
  BY <1>2, TickStartsStep, ReconcileStartsStep, RecordLastRunStep, TickEndsStep,
     TickPassesStep, TickEnqueuesStep, TickAdvancesStep, ReconcileRunStep
  DEF Tick
<1>3. CASE WriteFails BY <1>3, WriteFailsStep
<1>4. CASE Crash BY <1>4, CrashStep
<1>5. CASE TimePasses BY <1>5, IdleStep DEF TimePasses
<1>6. CASE \E i \in 1..MaxRuns : TaskMoves(i) BY <1>6, TaskMovesStep
<1>7. CASE UNCHANGED vars BY <1>7, IdleStep DEF vars
<1> QED BY <1>1, <1>2, <1>3, <1>4, <1>5, <1>6, <1>7 DEF Next

-----------------------------------------------------------------------------
(* Theorems.                                                               *)

\* A slot is enqueued a second time only if the run of the first time never came to
\* the disk, or so many came after it that the tick does not see it (scheduler_tick).
THEOREM SlotOnce == Spec => []SlotOncePerSavedRun
<1>1. IInv => SlotOncePerSavedRun BY DEF IInv
<1> QED BY Initially, Step, <1>1, PTL DEF Spec

\* No update of a client is lost to a tick or to run_now, which write whole records
\* they read before they awaited the task manager (scheduler_tick, run_now).
THEOREM NoLostUpdate == Spec => []FileIsAsWanted
<1>1. IInv => FileIsAsWanted BY DEF IInv
<1> QED BY Initially, Step, <1>1, PTL DEF Spec

LEMMA StepSkipsNone == IInv /\ [Next]_vars => [SkipsNoSlot]_vars
<1> SUFFICES ASSUME IInv, [Next]_vars PROVE [SkipsNoSlot]_vars OBVIOUS
<1> SUFFICES ASSUME NEW a \in Autos, Exists(a), autos'[a] # Absent, updates' = updates,
                    autos'[a].next # autos[a].next
             PROVE  GoesToNextSlot(a)
  BY DEF SkipsNoSlot
<1>1. IsRecord(autos[a]) BY DEF IInv, Shape
<1>2. CASE \E b \in Autos : TickAdvances(b)
  <2>1. PICK b \in Autos : TickAdvances(b) BY <1>2
  <2>2. /\ lock.op = "tick" /\ b \in todo /\ IsDue(read[b])
        /\ autos' = [autos EXCEPT ![b] = Advanced(read[b])]
    BY <2>1 DEF TickAdvances
  <2>3. a = b BY <2>2 DEF IInv, Shape
  <2>4. read[a] = autos[a] BY <2>2, <2>3 DEF IInv, Holder, Ticking
  <2>5. autos[a].status = "Active" BY <2>2, <2>3, <2>4 DEF IsDue
  <2>6. autos'[a].next = NextAfter(autos[a].rule, autos[a].next)
    <3> DEFINE next == NextAfter(autos[a].rule, autos[a].next)
    <3>1. autos'[a] = [autos[a] EXCEPT !.next = next]
      BY <2>2, <2>3, <2>4 DEF Advanced, IInv, Shape
    <3> HIDE DEF next
    <3>2. "next" \in DOMAIN autos[a] BY <1>1 DEF IsRecord
    <3>3. autos'[a].next = next BY <3>1, <3>2
    <3> QED BY <3>3 DEF next
  <2>7. \E i \in saved : slot[i] = [auto |-> a, at |-> autos[a].next]
    <3>1. CASE hand = Empty
      <4>1. PICK i \in Newest(a, SlotLimit) : runs[i].slot = read[a].next
        BY <2>1, <2>3, <3>1 DEF TickAdvances, HasRun
      <4>2. i \in 1..MaxRuns /\ runs[i] # NoRun /\ runs[i].auto = a
        BY DEF Newest, RunsOf
      <4> QED BY <2>4, <4>1, <4>2 DEF IInv, OnDisk
    <3>2. CASE hand # Empty
      <4>1. hand.id \in saved /\ hand.run.auto = a
        BY <2>1, <2>3, <3>2 DEF TickAdvances
      <4>2. /\ slot[hand.id] = [auto |-> hand.run.auto, at |-> hand.run.slot]
            /\ hand.run.slot = read[hand.run.auto].next
        BY <2>2, <3>2 DEF IInv, Holder, Ticking, InHand
      <4> QED BY <2>4, <4>1, <4>2
    <3> QED BY <3>1, <3>2
  <2> QED BY <2>5, <2>6, <2>7 DEF GoesToNextSlot
<1>3. CASE RunNowReturns \/ RecordLastRun
  <2>1. PICK b, ran : autos' = [autos EXCEPT ![b] = [autos[b] EXCEPT !.ran = ran]]
    BY <1>3 DEF RunNowReturns, RecordLastRun
  <2>2. autos'[a] = autos[a] \/ autos'[a] = [autos[a] EXCEPT !.ran = ran]
    BY <2>1 DEF IInv, Shape
  <2>3. autos'[a].next = autos[a].next BY <1>1, <2>2 DEF IsRecord
  <2> QED BY <2>3
<1>4. CASE updates' = updates + 1
  BY <1>4 DEF IInv, Shape
<1>5. CASE autos' = autos BY <1>5
<1>6. \/ updates' = updates + 1 \/ autos' = autos \/ RunNowReturns \/ RecordLastRun
      \/ \E b \in Autos : TickAdvances(b)
  <2>1. CASE Operation
    BY <2>1
    DEF Operation, create_automation, update_automation, delete_automation, run_now,
        RemoveRuns, save_run, Simple, Client
  <2>2. CASE Tick
    BY <2>2
    DEF Tick, TickStarts, ReconcileStarts, TickEnds, TickPasses, TickEnqueues,
        ReconcileRun, files
  <2>3. CASE WriteFails \/ Crash \/ TimePasses \/ \E i \in 1..MaxRuns : TaskMoves(i)
    BY <2>3 DEF WriteFails, Crash, TimePasses, TaskMoves, files
  <2>4. CASE UNCHANGED vars BY <2>4 DEF vars, files
  <2> QED BY <2>1, <2>2, <2>3, <2>4 DEF Next
<1> QED BY <1>2, <1>3, <1>4, <1>5, <1>6

\* A tick moves an automation one slot on, after the run for the present slot was
\* saved; nobody else moves it but a client (scheduler_tick, run_now,
\* reconcile_run_statuses).
THEOREM NoSlotLost == Spec => NoSlotSkipped
<1> QED BY Initially, Step, StepSkipsNone, PTL DEF Spec, NoSlotSkipped

=============================================================================
