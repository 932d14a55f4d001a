---------------------------- MODULE TaskLifecycle ----------------------------
(***************************************************************************)
(* What the Hub promises about one task, seen from outside: the phase its  *)
(* file shows and how many times it has been leased.  Every operation is   *)
(* one step here.  HubTasks, where an operation is a read of the file and  *)
(* a later write of it, is shown to implement this specification as long   *)
(* as the operations do not overlap.                                       *)
(***************************************************************************)
EXTENDS Integers

CONSTANTS Tasks,       \* task ids
          MinAttempts, \* fewest leases after which a task may be given up
          MaxAttempts  \* most leases one task is given

VARIABLES phase,      \* [Tasks -> Phases], the status of the task file
          tries       \* [Tasks -> Nat], its lease_count

vars == <<phase, tries>>

Open == {"queued", "running"}
Completed == {"done", "failed", "cancelled"}
Phases == Open \cup Completed \cup {"none", "pruned"}

Init == /\ phase = [t \in Tasks |-> "none"]
        /\ tries = [t \in Tasks |-> 0]

Move(t, p) == phase' = [phase EXCEPT ![t] = p]

Create(t) == /\ phase[t] = "none"
             /\ Move(t, "queued")
             /\ UNCHANGED tries

Lease(t) == /\ phase[t] = "queued"
            /\ tries[t] < MaxAttempts
            /\ Move(t, "running")
            /\ tries' = [tries EXCEPT ![t] = @ + 1]

\* An expired lease goes back to the queue ...
Requeue(t) == /\ phase[t] = "running"
              /\ tries[t] < MaxAttempts
              /\ Move(t, "queued")
              /\ UNCHANGED tries

\* ... or, once the attempts are used up, fails the task.
Expire(t) == /\ phase[t] = "running"
             /\ tries[t] >= MinAttempts
             /\ Move(t, "failed")
             /\ UNCHANGED tries

\* A result is stored whatever the phase has become in the meantime: the
\* handler looks only at the task's owner.
Report(t, p) == /\ phase[t] \in Open \cup Completed
                /\ tries[t] > 0
                /\ p \in {"done", "failed"}
                /\ Move(t, p)
                /\ UNCHANGED tries

Cancel(t) == /\ phase[t] \in Open
             /\ Move(t, "cancelled")
             /\ UNCHANGED tries

\* Retention deletes the file of a completed task, never of an open one.
Prune(t) == /\ phase[t] \in Completed
            /\ Move(t, "pruned")
            /\ tries' = [tries EXCEPT ![t] = 0]

Next == \E t \in Tasks :
          \/ Create(t) \/ Lease(t) \/ Requeue(t) \/ Expire(t)
          \/ Report(t, "done") \/ Report(t, "failed")
          \/ Cancel(t) \/ Prune(t)

Spec == Init /\ [][Next]_vars
==============================================================================
