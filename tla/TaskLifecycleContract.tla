----------------------- MODULE TaskLifecycleContract -----------------------
(* The task rows, the queue and the account pool implement TaskContract.   *)
EXTENDS TaskLifecycle

\* The phase a client sees in the status of a task row.
PhaseOf(status) ==
    CASE status \in Waiting -> "WAITING"
      [] status \in InFlight -> "SUBMITTING"
      [] status \in Upstream -> "GENERATING"
      [] OTHER -> status

HolderOf(t) ==
    IF task[t].status \in InFlight \cup Upstream THEN task[t].account ELSE Nobody

Contract == INSTANCE TaskContract WITH
    phase <- [t \in Task |-> PhaseOf(task[t].status)],
    holder <- [t \in Task |-> HolderOf(t)]

(* Every transaction of the service is a step of the contract or invisible *)
(* to it: the counters and guards of the code keep what the contract says  *)
(* of tasks and slots.                                                     *)
ImplementsContract == Contract!Spec

\* The contract of a service whose accounts and spaces are never full.
Course == INSTANCE TaskContract WITH
    phase <- [t \in Task |-> PhaseOf(task[t].status)],
    holder <- [t \in Task |-> HolderOf(t)],
    AccountCapacity <- Cardinality(Task),
    SpaceCapacity <- Cardinality(Task)

(* What is left of the contract when leases are overrun: a stale handler   *)
(* that fails gives back the slot of its own account for a task that is    *)
(* with another one, so the counters of the pool, and with them the        *)
(* capacities, cannot be relied upon; but every task keeps its course and, *)
(* while it is submitted and generated, its account.                       *)
TasksKeepTheirCourse == Course!Spec
=============================================================================
