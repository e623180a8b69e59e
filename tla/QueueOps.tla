------------------------------- MODULE QueueOps -------------------------------
(* The queue operations of crates/tui/src/task_manager.rs, as sets of the      *)
(* results they may have, so that facts about them can be proved.  ToolCalls   *)
(* filters its sequences in the same way.                                      *)
EXTENDS Naturals, Sequences, FiniteSets, Functions

RetainedAll(q, keep) == {q}              \* mutant: the filter is dropped

\* VecDeque::retain: the subsequence of q whose ids are in keep (one element).
Retained(q, keep) ==
    LET kept == {i \in DOMAIN q : q[i] \in keep}
        n    == Cardinality(kept)
    IN  {[i \in 1..n |-> q[f[i]]] :
            f \in {g \in Bijection(1..n, kept) :
                      \A i, j \in 1..n : i < j => g[i] < g[j]}}

\* missing.sort(): ids are random, so any order of them.
Orderings(S) == Bijection(1..Cardinality(S), S)
=============================================================================
