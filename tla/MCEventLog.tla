----------------------------- MODULE MCEventLog -----------------------------
(* Instances of EventLog for TLC. *)
EXTENDS EventLog, TLC

CONSTANTS t1, t2, e1, e2, e3, p1, s1

\* Two emitters of one thread, the monitor of its turn and the interrupt_turn
\* the executor calls beside it, and one of another thread.
Works == (e1 :> t1) @@ (e2 :> t1) @@ (e3 :> t2) @@ (p1 :> t1) @@ (s1 :> t1)

\* Kept filters a log as SelectSeq does.
ASSUME KeptFilters ==
    \A n \in 0 .. 4 : \A log \in [1 .. n -> 0 .. 3] : \A since \in 0 .. 3 :
        Kept(log, {i \in DOMAIN log : log[i] > since}) = SelectSeq(log, LAMBDA seq : seq > since)
=============================================================================
