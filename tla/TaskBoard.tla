------------------------------ MODULE TaskBoard ------------------------------
(***************************************************************************)
(* What the task manager promises of its tasks, without workers, queue,    *)
(* locks or files: the life of a durable task as a client may rely on it   *)
(* (TaskStatus and the operations of crates/tui/src/task_manager.rs).      *)
(***************************************************************************)
CONSTANT Tasks

VARIABLES
    status,   \* of each task; "absent" before it is submitted
    acked     \* the tasks whose submission was acknowledged

vars == <<status, acked>>

Terminal == {"Completed", "Failed", "Canceled"}

Init == status = [t \in Tasks |-> "absent"] /\ acked = {}

Becomes(t, from, to) ==
    /\ status[t] \in from
    /\ status' = [status EXCEPT ![t] = to]
    /\ UNCHANGED acked

Submit(t)   == Becomes(t, {"absent"}, "Queued")
Claim(t)    == Becomes(t, {"Queued"}, "Running")
Withdraw(t) == Becomes(t, {"Queued"}, "Canceled")
Settle(t)   == \E s \in Terminal : Becomes(t, {"Running"}, s)
Recover(t)  == Becomes(t, {"Running"}, "Queued")

\* Only what is recorded is acknowledged; what is recorded never goes away.
Acknowledge(t) ==
    /\ status[t] # "absent"
    /\ acked' = acked \cup {t}
    /\ UNCHANGED status

Next == \E t \in Tasks :
    Submit(t) \/ Claim(t) \/ Withdraw(t) \/ Settle(t) \/ Recover(t) \/ Acknowledge(t)

Spec == Init /\ [][Next]_vars
=============================================================================
