-------------------------- MODULE DecommissionProofs --------------------------
(***************************************************************************)
(* Theorems about Decommission, for any number of commands and             *)
(* enrollments: what a newcomer is spared once the tasks of a removed      *)
(* agent are cancelled, however time passes; and, for every delay that     *)
(* outlasts the agent's timeout and every lease that outlasts a batch,     *)
(* that a command is carried out once on an enrollment, and reported       *)
(* before, if the agent reports it.                                        *)
(***************************************************************************)
EXTENDS Decommission, FiniteSetTheorems, TLAPS

USE DEF hub, agent

-------------------------------------------------------------------------------
(* The inductive invariant *)

\* A queued task can still be leased.
Leasable == \A t \in Tasks :
              tasks[t].status = "queued" => tasks[t].leases < MaxLeases

\* No enrollment is from the future, and a poll is one of an enrolled host.
Enrollments ==
  /\ host.enrolled \in {0, enrolls} /\ forgotten <= enrolls
  /\ by <= enrolls
  /\ todo # {} => by # 0
  /\ \A c \in cleanups : c.by # 0 /\ c.by <= enrolls
  /\ \A t \in Tasks, e \in Enrolls : retired[t][e] > 0 => e # 0 /\ e <= enrolls

\* A command that was cancelled, or closed before, is open no more, and is with
\* enrollments from before the cancelling only.
Spared ==
  \A t \in Tasks : tasks[t].old =>
    /\ tasks[t].status \notin {"queued", "running"}
    /\ t \in todo => by <= forgotten
    /\ \A c \in cleanups : c.task = t => c.by <= forgotten

\* What an older enrollment was executing when a newcomer came takes ExecTime at
\* most, and the cleanup that it schedules comes after the delay.
Passing ==
  /\ Executing /\ by < host.enrolled => host.age <= busy
  /\ \A c \in cleanups :
       c.by < host.enrolled => host.age + c.left <= ExecTime + Delay

\* How long the agent has had its batch at most when it begins the next task of
\* those it has to do, or, with more, when it has reported one.
Spent(more) ==
  (MaxTasks - Cardinality(todo) - more) * (ExecTime + PostTimeout)

\* Every task of the batch that is not to do any more took one execution and one
\* request at most.
Leased ==
  /\ Cardinality(todo) <= MaxTasks
  /\ result.task = 0 => result = NoResult
  /\ result.task \notin todo
  /\ result # NoResult => Cardinality(todo) < MaxTasks
  /\ \A t \in Tasks : tasks[t].status = "queued" => tasks[t].age = 0
  /\ ~waiting => \A t \in todo :
       /\ tasks[t].status \notin {"none", "queued"}
       /\ tasks[t].status = "running" =>
            /\ result = NoResult => tasks[t].age <= Spent(0) + busy
            /\ result # NoResult =>
                 tasks[t].age <= Spent(1) + ExecTime + result.age

\* How old the lease of a task is at most when its cleanup is due.
Due == (MaxTasks - 1) * (ExecTime + PostTimeout) + ExecTime + Delay

\* Until a cleanup of the present enrollment is due its task is not given out
\* again, and while its result is posted the delay runs with the request.
Scheduled ==
  \A c \in cleanups :
    /\ c.by = host.enrolled =>
         /\ tasks[c.task].status \notin {"none", "queued"}
         /\ tasks[c.task].status = "running" =>
              tasks[c.task].age + c.left <= Due
    /\ c.by = by =>
         /\ c.task \notin todo
         /\ result.task = c.task => c.left + result.age = Delay

\* Each task has one cleanup on an enrollment: to do, scheduled or done.
Once ==
  /\ \A c, d \in cleanups : c.task = d.task /\ c.by = d.by => c = d
  /\ \A t \in Tasks, e \in Enrolls : retired[t][e] > 0 =>
       /\ retired[t][e] = 1
       /\ e # host.enrolled
       /\ t \in todo => by # e
       /\ \A c \in cleanups : c.task = t => c.by # e

\* The delay outlasts the agent's timeout, and the lease what a batch may take
\* and the delay.
Timing == /\ PostTimeout < Delay
          /\ Due < LeaseTimeout

TypeInv == TypeOK /\ Leasable
OnceInv == Leased /\ Scheduled /\ Once

-------------------------------------------------------------------------------
(* What the steps do to the task files *)

\* A task that leaves the agent is closed, and without a lease.
LEMMA ClosedTask ==
  ASSUME TypeOK, NEW t \in Tasks, NEW s \in {"done", "failed"}
  PROVE  /\ Closed(t, s) \in Task
         /\ Closed(t, s).status = s /\ Closed(t, s).age = 0
         /\ Closed(t, s).old = tasks[t].old
<1>1. tasks[t] \in Task /\ 0 \in 0..LeaseTimeout /\ 0 \in 0..MaxLeases
  BY DecommissionAssumption DEF TypeOK
<1>2. QED
  BY <1>1 DEF Closed, Task

\* A task that is commanded is new.
LEMMA CommandTask ==
  ASSUME TypeOK, NEW t \in Tasks, NEW confirmed \in BOOLEAN,
         Command(t, confirmed)
  PROVE  /\ tasks' \in [Tasks -> Task]
         /\ tasks[t].status = "none"
         /\ tasks'[t].status = "queued" /\ ~tasks'[t].old
         /\ tasks'[t].leases = 0 /\ tasks'[t].age = 0
         /\ \A u \in Tasks : u # t => tasks'[u] = tasks[u]
<1> DEFINE k == [NoTask EXCEPT !.status = "queued", !.confirmed = confirmed]
<1>1. NoTask \in Task
  <2>1. 0 \in 0..MaxLeases /\ 0 \in 0..LeaseTimeout
    BY DecommissionAssumption
  <2>2. QED
    BY <2>1 DEF NoTask, Task
<1>2. NoTask.leases = 0 /\ NoTask.age = 0 /\ ~NoTask.old
  BY DEF NoTask
<1>3. /\ k \in Task /\ k.status = "queued" /\ ~k.old
      /\ k.leases = 0 /\ k.age = 0
  BY <1>1, <1>2 DEF Task
<1>4. tasks' = [tasks EXCEPT ![t] = k] /\ tasks[t].status = "none"
  BY DEF Command
<1>5. tasks' \in [Tasks -> Task] /\ tasks'[t] = k
      /\ \A u \in Tasks : u # t => tasks'[u] = tasks[u]
  BY <1>3, <1>4 DEF TypeOK
<1>6. QED
  BY <1>3, <1>4, <1>5

\* What is open is cancelled, and what was given is old.
LEMMA CancelledTasks ==
  ASSUME TypeOK, CancelTasks
  PROVE  /\ tasks' \in [Tasks -> Task]
         /\ \A u \in Tasks :
              /\ \/ /\ tasks[u].status \in {"queued", "running"}
                    /\ tasks'[u].status = "failed" /\ tasks'[u].age = 0
                 \/ /\ tasks[u].status \notin {"queued", "running"}
                    /\ tasks'[u].status = tasks[u].status
                    /\ tasks'[u].age = tasks[u].age
              /\ tasks'[u].old => tasks'[u].status # "none"
<1> DEFINE k(u) == IF tasks[u].status \in {"queued", "running"}
                   THEN Closed(u, "failed") ELSE tasks[u]
           n(u) == [k(u) EXCEPT !.old = tasks[u].status # "none"]
<1>1. tasks' = [u \in Tasks |-> n(u)]
  BY DEF CancelTasks, Cancelled, WithStatus
<1>2. ASSUME NEW u \in Tasks
      PROVE  /\ n(u) \in Task /\ n(u).status = k(u).status
             /\ n(u).age = k(u).age /\ n(u).old = (tasks[u].status # "none")
  <2>1. tasks[u] \in Task /\ k(u) \in Task
    BY ClosedTask DEF TypeOK
  <2>2. (tasks[u].status # "none") \in BOOLEAN
    OBVIOUS
  <2> HIDE DEF k
  <2>3. QED
    BY <2>1, <2>2 DEF Task
<1>3. tasks' \in [Tasks -> Task]
  BY <1>1, <1>2
<1>4. ASSUME NEW u \in Tasks
      PROVE  /\ \/ /\ tasks[u].status \in {"queued", "running"}
                   /\ tasks'[u].status = "failed" /\ tasks'[u].age = 0
                \/ /\ tasks[u].status \notin {"queued", "running"}
                   /\ tasks'[u].status = tasks[u].status
                   /\ tasks'[u].age = tasks[u].age
             /\ tasks'[u].old => tasks'[u].status # "none"
  <2>1. tasks'[u] = n(u)
    BY <1>1
  <2>2. /\ n(u).status = k(u).status /\ n(u).age = k(u).age
        /\ n(u).old = (tasks[u].status # "none")
    BY <1>2
  <2>3. CASE tasks[u].status \in {"queued", "running"}
    <3>1. k(u).status = "failed" /\ k(u).age = 0
      BY <2>3, ClosedTask
    <3>2. QED
      BY <2>1, <2>2, <2>3, <3>1
  <2>4. CASE tasks[u].status \notin {"queued", "running"}
    <3>1. k(u) = tasks[u]
      BY <2>4
    <3>2. QED
      BY <2>1, <2>2, <2>4, <3>1
  <2>5. QED
    BY <2>3, <2>4
<1>5. QED
  BY <1>3, <1>4

\* A lease that ran out puts its task back, unless that happened often enough.
LEMMA RecoverTask ==
  ASSUME TypeOK, NEW t \in Tasks, Recover(t)
  PROVE  /\ tasks' \in [Tasks -> Task]
         /\ tasks[t].status = "running" /\ tasks[t].age = LeaseTimeout
         /\ tasks'[t].status \in {"queued", "failed"}
         /\ tasks'[t].status = "queued" => tasks'[t].leases < MaxLeases
         /\ tasks'[t].age = 0
         /\ tasks'[t].old = tasks[t].old
         /\ \A u \in Tasks : u # t => tasks'[u] = tasks[u]
<1> DEFINE q == [tasks[t] EXCEPT !.status = "queued", !.age = 0]
           k == IF Exhausted(t) THEN Closed(t, "failed") ELSE q
<1>1. tasks' = [tasks EXCEPT ![t] = k]
  BY DEF Recover
<1>2. tasks[t].status = "running" /\ tasks[t].age = LeaseTimeout
  BY DEF Recover, Stale
<1>3. tasks[t] \in Task /\ 0 \in 0..LeaseTimeout /\ MaxLeases \in Nat
  BY DecommissionAssumption DEF TypeOK
<1>4. /\ k \in Task /\ k.status \in {"queued", "failed"} /\ k.age = 0
      /\ k.status = "queued" => k.leases < MaxLeases
      /\ k.old = tasks[t].old
  <2>1. CASE Exhausted(t)
    BY <2>1, ClosedTask
  <2>2. CASE ~Exhausted(t)
    <3>1. k = q
      BY <2>2
    <3>2. /\ q \in Task /\ q.status = "queued" /\ q.age = 0
          /\ q.leases = tasks[t].leases /\ q.old = tasks[t].old
      BY <1>3 DEF Task
    <3>3. tasks[t].leases < MaxLeases
      BY <1>3, <2>2 DEF Exhausted, Task
    <3>4. QED
      BY <3>1, <3>2, <3>3
  <2>3. QED
    BY <2>1, <2>2
<1>5. /\ tasks' \in [Tasks -> Task] /\ tasks'[t] = k
      /\ \A u \in Tasks : u # t => tasks'[u] = tasks[u]
  <2> HIDE DEF k
  <2>1. QED
    BY <1>1, <1>4 DEF TypeOK
<1>6. QED
  BY <1>2, <1>4, <1>5

\* A poll leases a batch of queued tasks.
LEMMA PollTasks ==
  ASSUME TypeOK, Leasable, Poll
  PROVE  /\ tasks' \in [Tasks -> Task]
         /\ \E batch \in Batches :
              /\ \/ todo' = batch /\ by' = host.enrolled
                 \/ todo' = todo /\ by' = by
              /\ \A u \in batch :
                   /\ u \in Tasks /\ tasks[u].status = "queued"
                   /\ tasks'[u].status = "running"
                   /\ tasks'[u].age = tasks[u].age
                   /\ tasks'[u].old = tasks[u].old
              /\ \A u \in Tasks \ batch : tasks'[u] = tasks[u]
<1> DEFINE k(u) == [tasks[u] EXCEPT !.status = "running", !.leases = @ + 1]
<1>1. PICK batch \in Batches :
        /\ tasks' = [u \in Tasks |-> IF u \in batch THEN k(u) ELSE tasks[u]]
        /\ \/ todo' = batch /\ by' = host.enrolled
           \/ todo' = todo /\ by' = by
  BY DEF Poll
<1>2. \A u \in batch : u \in Tasks /\ tasks[u].status = "queued"
  BY DEF Batches, WithStatus
<1>3. ASSUME NEW u \in batch
      PROVE  /\ k(u) \in Task /\ k(u).status = "running"
             /\ k(u).age = tasks[u].age /\ k(u).old = tasks[u].old
  <2>1. /\ tasks[u] \in Task /\ tasks[u].leases < MaxLeases
        /\ tasks[u].leases \in 0..MaxLeases
    BY <1>2 DEF TypeOK, Leasable, Task
  <2>2. tasks[u].leases + 1 \in 0..MaxLeases
    BY <2>1, DecommissionAssumption
  <2>3. QED
    BY <2>1, <2>2 DEF Task
<1>4. /\ \A u \in batch : tasks'[u] = k(u)
      /\ \A u \in Tasks \ batch : tasks'[u] = tasks[u]
  BY <1>1, <1>2
<1>5. tasks' \in [Tasks -> Task]
  BY <1>1, <1>3 DEF TypeOK
<1>6. QED
  BY <1>1, <1>2, <1>3, <1>4, <1>5

\* A result closes its task.
LEMMA PostTasks ==
  ASSUME TypeOK, Post
  PROVE  /\ tasks' \in [Tasks -> Task]
         /\ \A u \in Tasks :
              \/ /\ u = result.task
                 /\ tasks'[u].status \in {"done", "failed"} /\ tasks'[u].age = 0
                 /\ tasks'[u].old = tasks[u].old
              \/ /\ u # result.task /\ tasks'[u] = tasks[u]
<1> DEFINE t == result.task
           s == IF result.ok THEN "done" ELSE "failed"
<1>1. tasks' = [tasks EXCEPT ![t] = Closed(t, s)]
  BY DEF Post
<1>2. CASE t \in Tasks
  <2>1. /\ Closed(t, s) \in Task /\ Closed(t, s).status = s
        /\ Closed(t, s).age = 0 /\ Closed(t, s).old = tasks[t].old
    BY <1>2, ClosedTask
  <2>2. /\ tasks' \in [Tasks -> Task] /\ tasks'[t] = Closed(t, s)
        /\ \A u \in Tasks : u # t => tasks'[u] = tasks[u]
    BY <1>1, <1>2, <2>1 DEF TypeOK
  <2>3. QED
    BY <2>1, <2>2
<1>3. CASE t \notin Tasks
  <2>1. tasks' = tasks
    BY <1>1, <1>3 DEF TypeOK
  <2>2. QED
    BY <1>3, <2>1 DEF TypeOK
<1>4. QED
  BY <1>2, <1>3

\* Time is time for the leases.
LEMMA TickTasks ==
  ASSUME TypeOK, Tick
  PROVE  /\ tasks' \in [Tasks -> Task]
         /\ \A u \in Tasks :
              /\ tasks'[u].status = tasks[u].status
              /\ tasks'[u].old = tasks[u].old
              /\ tasks'[u].leases = tasks[u].leases
              /\ tasks'[u].age <= tasks[u].age + 1
              /\ tasks[u].status # "running" => tasks'[u].age = tasks[u].age
<1> DEFINE k(u) == [tasks[u] EXCEPT !.age = @ + 1]
<1>1. tasks' = [u \in Tasks |->
                  IF tasks[u].status = "running" /\ tasks[u].age < LeaseTimeout
                  THEN k(u) ELSE tasks[u]]
  BY DEF Tick
<1>2. ASSUME NEW u \in Tasks
      PROVE  /\ tasks'[u] \in Task
             /\ tasks'[u].status = tasks[u].status
             /\ tasks'[u].old = tasks[u].old
             /\ tasks'[u].leases = tasks[u].leases
             /\ tasks'[u].age <= tasks[u].age + 1
             /\ tasks[u].status # "running" => tasks'[u].age = tasks[u].age
  <2>1. tasks[u] \in Task /\ tasks[u].age \in 0..LeaseTimeout /\ LeaseTimeout \in Nat
    BY DecommissionAssumption DEF TypeOK, Task
  <2>2. CASE tasks[u].status = "running" /\ tasks[u].age < LeaseTimeout
    <3>1. tasks'[u] = k(u) /\ tasks[u].age + 1 \in 0..LeaseTimeout
      BY <1>1, <2>1, <2>2
    <3>2. k(u) \in Task
      BY <2>1, <3>1 DEF Task
    <3>3. /\ k(u).status = tasks[u].status /\ k(u).old = tasks[u].old
          /\ k(u).leases = tasks[u].leases /\ k(u).age = tasks[u].age + 1
      BY <2>1 DEF Task
    <3>4. QED
      BY <2>1, <2>2, <3>1, <3>2, <3>3
  <2>3. CASE ~(tasks[u].status = "running" /\ tasks[u].age < LeaseTimeout)
    <3>1. tasks'[u] = tasks[u]
      BY <1>1, <2>3
    <3>2. QED
      BY <2>1, <3>1
  <2>4. QED
    BY <2>2, <2>3
<1>3. tasks' \in [Tasks -> Task]
  <2>1. tasks' = [u \in Tasks |-> tasks'[u]]
    BY <1>1
  <2>2. QED
    BY <1>2, <2>1
<1>4. QED
  BY <1>2, <1>3

-------------------------------------------------------------------------------
(* Types *)

LEMMA Values ==
  /\ MaxLeases \in Nat /\ PostTimeout \in Nat /\ MaxEnrolls \in Nat
  /\ MaxTasks \in Nat /\ Delay \in Nat /\ LeaseTimeout \in Nat
  /\ ExecTime \in Nat /\ MaxReboots \in Nat /\ Grown \in Nat
  /\ 0 < MaxLeases /\ 0 < MaxTasks
  /\ 0 \notin Tasks /\ IsFiniteSet(Tasks)
  /\ 0 \in Enrolls /\ Enrolls \subseteq Nat
  /\ NoResult \in Result /\ NoResult.task = 0 /\ NoResult.age = 0
  BY DecommissionAssumption DEF Enrolls, NoResult, Result, Grown

LEMMA InitType == Init => TypeInv
<1> SUFFICES ASSUME Init
             PROVE  TypeInv
  OBVIOUS
<1>1. NoTask \in Task /\ NoTask.status = "none"
  <2>1. 0 \in 0..MaxLeases /\ 0 \in 0..LeaseTimeout
    BY Values
  <2>2. QED
    BY <2>1, Values DEF NoTask, Task
<1>2. 1 \in Enrolls
  BY DecommissionAssumption DEF Enrolls
<1>3. 0 \in 0..MaxReboots
  BY DecommissionAssumption
<1>4. retired \in [Tasks -> [Enrolls -> Nat]]
  BY DEF Init
<1>5. host \in Host
  <2>1. PICK systemd \in BOOLEAN :
          host = [enrolled |-> 1, age |-> 0, policy |-> FALSE, systemd |-> systemd]
    BY DEF Init
  <2>2. 0 \in 0..Grown
    BY Values
  <2>3. QED
    BY <1>2, <2>1, <2>2 DEF Host
<1>6. tasks \in [Tasks -> Task] /\ \A t \in Tasks : tasks[t].status = "none"
  BY <1>1 DEF Init
<1>7. /\ {registered, removing, waiting} \subseteq BOOLEAN
      /\ {forgotten, enrolls, by} \subseteq Enrolls
      /\ todo \subseteq Tasks /\ busy \in 0..ExecTime /\ result \in Result
      /\ cleanups \subseteq Cleanups /\ reboots \in 0..MaxReboots
  <2>1. 0 \in 0..ExecTime
    BY Values
  <2>2. QED
    BY <1>2, <1>3, <2>1, Values DEF Init
<1>8. QED
  BY <1>4, <1>5, <1>6, <1>7 DEF TypeInv, TypeOK, Leasable

\* The steps of the Hub and the operator keep the types.
LEMMA HubType ==
  ASSUME TypeInv,
         \/ \E t \in Tasks, confirmed \in BOOLEAN : Command(t, confirmed)
         \/ RemoveAgent \/ CancelTasks \/ Enroll \/ SetPolicy
         \/ \E t \in Tasks : Recover(t)
  PROVE  TypeInv'
<1> USE Values
<1>1. ASSUME NEW t \in Tasks, NEW confirmed \in BOOLEAN, Command(t, confirmed)
      PROVE  TypeInv'
  <2>1. Leasable'
    BY <1>1, CommandTask DEF TypeInv, Leasable
  <2>2. TypeOK'
    BY <1>1, CommandTask DEF Command, TypeInv, TypeOK
  <2>3. QED
    BY <2>1, <2>2 DEF TypeInv
<1>2. CASE RemoveAgent
  BY <1>2 DEF RemoveAgent, TypeInv, TypeOK, Leasable
<1>3. CASE CancelTasks
  <2>1. Leasable'
    BY <1>3, CancelledTasks DEF TypeInv, Leasable
  <2>2. TypeOK'
    BY <1>3, CancelledTasks DEF CancelTasks, TypeInv, TypeOK
  <2>3. QED
    BY <2>1, <2>2 DEF TypeInv
<1>4. CASE Enroll
  <2>1. enrolls' \in Enrolls
    BY <1>4 DEF Enroll, TypeInv, TypeOK, Enrolls
  <2>2. host' \in Host
    <3>1. 0 \in 0..Grown
      OBVIOUS
    <3>2. QED
      BY <1>4, <2>1, <3>1 DEF Enroll, TypeInv, TypeOK, Host
  <2>3. QED
    BY <1>4, <2>1, <2>2 DEF Enroll, TypeInv, TypeOK, Leasable
<1>5. CASE SetPolicy
  <2>1. host' \in Host
    BY <1>5 DEF SetPolicy, TypeInv, TypeOK, Host
  <2>2. QED
    BY <1>5, <2>1 DEF SetPolicy, TypeInv, TypeOK, Leasable
<1>6. ASSUME NEW t \in Tasks, Recover(t)
      PROVE  TypeInv'
  <2>1. Leasable'
    BY <1>6, RecoverTask DEF TypeInv, Leasable
  <2>2. TypeOK'
    BY <1>6, RecoverTask DEF Recover, TypeInv, TypeOK
  <2>3. QED
    BY <2>1, <2>2 DEF TypeInv
<1>7. QED
  BY <1>1, <1>2, <1>3, <1>4, <1>5, <1>6

\* The agent takes the next of its tasks, and the cleanups and its report follow.
LEMMA ExecuteStep ==
  ASSUME TypeInv, NEW t \in Tasks, Execute(t) \/ ExecuteOther(t)
  PROVE  /\ t \in todo /\ ~waiting /\ result = NoResult
         /\ todo' = todo \ {t} /\ busy' = 0
         /\ UNCHANGED <<tasks, registered, removing, forgotten, enrolls, host,
                        by, retired, reboots>>
         /\ waiting' \in BOOLEAN
         /\ \/ /\ waiting' /\ result' = NoResult
               /\ cleanups' = Schedule(t)
            \/ /\ ~waiting' /\ cleanups' \in {cleanups, Schedule(t)}
               /\ result' \in Result /\ result'.task = t /\ result'.age = 0
<1>1. host.systemd \in BOOLEAN /\ waiting \in BOOLEAN
  BY DEF TypeInv, TypeOK, Host
<1>2. CASE Execute(t)
  <2>1. /\ t \in todo /\ ~waiting /\ result = NoResult
        /\ todo' = todo \ {t} /\ busy' = 0 /\ cleanups' = Schedule(t)
        /\ waiting' = host.systemd
    BY <1>2 DEF Execute, Executes
  <2>2. result' = IF host.systemd THEN NoResult
                                  ELSE [task |-> t, ok |-> TRUE, age |-> 0]
    BY <1>2 DEF Execute
  <2>3. [task |-> t, ok |-> TRUE, age |-> 0] \in Result
    BY Values DEF Result
  <2>4. UNCHANGED <<tasks, registered, removing, forgotten, enrolls, host,
                    by, retired, reboots>>
    BY <1>2 DEF Execute, Executes
  <2>5. QED
    BY <1>1, <2>1, <2>2, <2>3, <2>4
<1>3. CASE ExecuteOther(t)
  <2>1. PICK ok \in BOOLEAN : result' = [task |-> t, ok |-> ok, age |-> 0]
    BY <1>3 DEF ExecuteOther
  <2>2. result' \in Result /\ result'.task = t /\ result'.age = 0
    BY <2>1, Values DEF Result
  <2>3. /\ t \in todo /\ ~waiting /\ result = NoResult
        /\ todo' = todo \ {t} /\ busy' = 0
        /\ waiting' \in BOOLEAN /\ ~waiting' /\ cleanups' = cleanups
    BY <1>1, <1>3 DEF ExecuteOther, Executes
  <2>4. UNCHANGED <<tasks, registered, removing, forgotten, enrolls, host,
                    by, retired, reboots>>
    BY <1>3 DEF ExecuteOther, Executes
  <2>5. QED
    BY <2>2, <2>3, <2>4
<1>4. QED
  BY <1>2, <1>3

\* A cleanup strikes whichever enrollment the host has.
LEMMA CleanupStep ==
  ASSUME TypeInv, NEW d \in cleanups, Cleanup(d)
  PROVE  /\ d.task \in Tasks /\ d.by \in Enrolls /\ d \in Cleanups
         /\ cleanups' = cleanups \ {d} /\ Free
         /\ host' \in Host /\ host'.enrolled = 0
         /\ retired' \in [Tasks -> [Enrolls -> Nat]]
         /\ \A u \in Tasks, e \in Enrolls :
              retired'[u][e] = IF u = d.task /\ e = d.by
                               THEN retired[u][e] + 1 ELSE retired[u][e]
         /\ UNCHANGED <<tasks, registered, removing, forgotten, enrolls, reboots>>
<1>1. d \in Cleanups /\ d.task \in Tasks /\ d.by \in Enrolls
  BY DEF TypeInv, TypeOK, Cleanups
<1>2. retired \in [Tasks -> [Enrolls -> Nat]]
  BY DEF TypeInv, TypeOK
<1>3. retired[d.task] \in [Enrolls -> Nat]
  BY <1>1, <1>2
<1>4. retired[d.task][d.by] \in Nat
  BY <1>1, <1>3
<1> DEFINE r == [retired[d.task] EXCEPT ![d.by] = retired[d.task][d.by] + 1]
<1>5. /\ r \in [Enrolls -> Nat]
      /\ \A e \in Enrolls : r[e] = IF e = d.by THEN retired[d.task][e] + 1
                                               ELSE retired[d.task][e]
  BY <1>1, <1>3, <1>4
<1>6. retired' = [retired EXCEPT ![d.task] = r]
  BY DEF Cleanup
<1>7. /\ retired' \in [Tasks -> [Enrolls -> Nat]]
      /\ retired'[d.task] = r
      /\ \A u \in Tasks : u # d.task => retired'[u] = retired[u]
  <2> HIDE DEF r
  <2>1. QED
    BY <1>1, <1>2, <1>5, <1>6
<1>8. host' \in Host /\ host'.enrolled = 0
  <2>1. PICK policy \in {host.policy, FALSE} :
          host' = [host EXCEPT !.enrolled = 0, !.age = 0, !.policy = policy]
    BY DEF Cleanup
  <2>2. host \in Host /\ host.policy \in BOOLEAN
    BY DEF TypeInv, TypeOK, Host
  <2>3. policy \in BOOLEAN
    BY <2>2
  <2>4. 0 \in 0..Grown
    BY Values
  <2>5. QED
    BY <2>1, <2>2, <2>3, <2>4, Values DEF Host
<1>9. ASSUME NEW u \in Tasks, NEW e \in Enrolls
      PROVE  retired'[u][e] = IF u = d.task /\ e = d.by
                              THEN retired[u][e] + 1 ELSE retired[u][e]
  <2> HIDE DEF r
  <2>1. CASE u = d.task
    BY <1>5, <1>7, <2>1
  <2>2. CASE u # d.task
    BY <1>7, <2>2
  <2>3. QED
    BY <2>1, <2>2
<1>10. QED
  BY <1>1, <1>7, <1>8, <1>9 DEF Cleanup

\* What time changes of the host, the agent and the cleanups.
LEMMA TickStep ==
  ASSUME TypeInv, Tick
  PROVE  /\ host' \in Host /\ host'.enrolled = host.enrolled
         /\ host'.age \in Nat /\ host'.age <= host.age + 1
         /\ busy' \in 0..ExecTime
         /\ IF Executing THEN busy' = busy + 1 ELSE busy' = busy
         /\ result' \in Result /\ result'.task = result.task
         /\ result = NoResult => result' = NoResult
         /\ result # NoResult => /\ result' # NoResult
                                 /\ result'.age = result.age + 1
         /\ \A c \in cleanups' : \E d \in cleanups :
              /\ c = [d EXCEPT !.left = d.left - 1]
              /\ c \in Cleanups /\ c.task = d.task /\ c.by = d.by
              /\ c.left = d.left - 1
         /\ UNCHANGED <<registered, removing, forgotten, enrolls, by, todo,
                        waiting, retired, reboots>>
<1>1. /\ host \in Host /\ host.age \in 0..Grown /\ busy \in 0..ExecTime
      /\ result \in Result /\ result.age \in 0..PostTimeout
      /\ Grown \in Nat /\ ExecTime \in Nat /\ PostTimeout \in Nat
  BY Values DEF TypeInv, TypeOK, Host, Result
<1>2. /\ host' \in Host /\ host'.enrolled = host.enrolled
      /\ host'.age \in Nat /\ host'.age <= host.age + 1
  <2>1. CASE 0 < forgotten /\ forgotten < host.enrolled /\ host.age < Grown
    <3>1. host' = [host EXCEPT !.age = host.age + 1]
      BY <2>1 DEF Tick
    <3>2. host.age + 1 \in 0..Grown
      BY <1>1, <2>1
    <3>3. /\ host' \in Host /\ host'.enrolled = host.enrolled
          /\ host'.age = host.age + 1
      BY <1>1, <3>1, <3>2 DEF Host
    <3>4. QED
      BY <1>1, <3>3
  <2>2. CASE ~(0 < forgotten /\ forgotten < host.enrolled /\ host.age < Grown)
    BY <1>1, <2>2 DEF Tick
  <2>3. QED
    BY <2>1, <2>2
<1>3. /\ busy' \in 0..ExecTime
      /\ IF Executing THEN busy' = busy + 1 ELSE busy' = busy
  BY <1>1 DEF Tick
<1>4. /\ result' \in Result /\ result'.task = result.task
      /\ result = NoResult => result' = NoResult
      /\ result # NoResult => /\ result' # NoResult
                              /\ result'.age = result.age + 1
  <2>1. CASE result = NoResult
    BY <1>1, <2>1 DEF Tick
  <2>2. CASE result # NoResult
    <3>1. result' = [result EXCEPT !.age = result.age + 1]
      BY <2>2 DEF Tick
    <3>2. result.age + 1 \in 0..PostTimeout
      BY <1>1, <2>2 DEF Tick
    <3>3. /\ result' \in Result /\ result'.task = result.task
          /\ result'.age = result.age + 1
      BY <1>1, <3>1, <3>2 DEF Result
    <3>4. result'.age # 0
      BY <1>1, <3>3
    <3>5. QED
      BY <2>2, <3>3, <3>4, Values
  <2>3. QED
    BY <2>1, <2>2
<1>5. ASSUME NEW c \in cleanups'
      PROVE  \E d \in cleanups :
              /\ c = [d EXCEPT !.left = d.left - 1]
              /\ c \in Cleanups /\ c.task = d.task /\ c.by = d.by
              /\ c.left = d.left - 1
  <2>1. PICK d \in cleanups : c = [d EXCEPT !.left = d.left - 1]
    BY DEF Tick
  <2>2. d \in Cleanups /\ d.left \in 0..Delay /\ d.left > 0
    BY DEF Tick, TypeInv, TypeOK, Cleanups
  <2>3. d.left - 1 \in 0..Delay
    BY <2>2, Values
  <2>4. QED
    BY <2>1, <2>2, <2>3 DEF Cleanups
<1>6. QED
  BY <1>2, <1>3, <1>4, <1>5 DEF Tick

\* The steps of the agent, and time, keep the types.
LEMMA AgentType ==
  ASSUME TypeInv, Agent \/ Clean \/ RestartAgent \/ Reboot \/ Tick
  PROVE  TypeInv'
<1> USE Values
<1>1. CASE Poll
  <2>1. PICK batch \in Batches :
          /\ \/ todo' = batch /\ by' = host.enrolled
             \/ todo' = todo /\ by' = by
          /\ batch \subseteq Tasks
          /\ \A u \in batch : tasks'[u].status = "running"
          /\ \A u \in Tasks \ batch : tasks'[u] = tasks[u]
    BY <1>1, PollTasks DEF TypeInv
  <2>2. Leasable'
    <3>1. SUFFICES ASSUME NEW u \in Tasks, tasks'[u].status = "queued"
                   PROVE  tasks'[u].leases < MaxLeases
      BY DEF Leasable
    <3>2. tasks'[u] = tasks[u]
      <4>1. u \notin batch
        BY <2>1, <3>1, SMTT(30)
      <4>2. QED
        BY <2>1, <4>1
    <3>3. QED
      BY <3>1, <3>2 DEF TypeInv, Leasable
  <2>3. todo' \subseteq Tasks /\ by' \in Enrolls
    BY <2>1 DEF TypeInv, TypeOK, Host
  <2>4. TypeOK'
    BY <1>1, <2>3, PollTasks DEF Poll, TypeInv, TypeOK
  <2>5. QED
    BY <2>2, <2>4 DEF TypeInv
<1>2. CASE Post
  <2>1. Leasable'
    BY <1>2, PostTasks DEF TypeInv, Leasable
  <2>2. /\ todo' \subseteq todo /\ by' \in {by, 0} /\ busy' \in {busy, 0}
        /\ waiting' \in {waiting, FALSE} /\ result' = NoResult
        /\ UNCHANGED <<registered, removing, forgotten, enrolls, host, cleanups,
                       retired, reboots>>
    BY <1>2 DEF Post, Free
  <2>3. 0 \in 0..ExecTime
    OBVIOUS
  <2>4. TypeOK'
    BY <1>2, <2>2, <2>3, PostTasks DEF TypeInv, TypeOK
  <2>5. QED
    BY <2>1, <2>4 DEF TypeInv
<1>3. CASE PostFails \/ RestartAgent
  <2>1. 0 \in 0..ExecTime
    OBVIOUS
  <2>2. QED
    BY <1>3, <2>1 DEF PostFails, RestartAgent, Free, TypeInv, TypeOK, Leasable
<1>4. ASSUME NEW t \in Tasks, Execute(t) \/ ExecuteOther(t)
      PROVE  TypeInv'
  <2>1. [task |-> t, by |-> by, left |-> Delay] \in Cleanups
    BY DEF Cleanups, TypeInv, TypeOK
  <2>2. Schedule(t) \subseteq Cleanups
    BY <2>1 DEF Schedule, TypeInv, TypeOK
  <2>3. cleanups' \subseteq Cleanups /\ result' \in Result
    BY <1>4, <2>2, ExecuteStep DEF TypeInv, TypeOK
  <2>4. 0 \in 0..ExecTime
    OBVIOUS
  <2>5. /\ todo' \subseteq todo /\ busy' = 0 /\ waiting' \in BOOLEAN
        /\ UNCHANGED <<tasks, registered, removing, forgotten, enrolls, host,
                       by, retired, reboots>>
    BY <1>4, ExecuteStep
  <2>6. QED
    BY <2>3, <2>4, <2>5 DEF TypeInv, TypeOK, Leasable
<1>5. ASSUME NEW d \in cleanups, Cleanup(d)
      PROVE  TypeInv'
  <2>1. /\ Free /\ host' \in Host /\ cleanups' = cleanups \ {d}
        /\ retired' \in [Tasks -> [Enrolls -> Nat]]
        /\ UNCHANGED <<tasks, registered, removing, forgotten, enrolls, reboots>>
    BY <1>5, CleanupStep
  <2>2. 0 \in 0..ExecTime
    OBVIOUS
  <2>3. QED
    BY <2>1, <2>2 DEF Free, TypeInv, TypeOK, Leasable
<1>6. CASE Reboot
  <2>1. reboots' \in 0..MaxReboots /\ 0 \in 0..ExecTime
    BY <1>6 DEF Reboot, TypeInv, TypeOK
  <2>2. QED
    BY <1>6, <2>1 DEF Reboot, Free, TypeInv, TypeOK, Leasable
<1>7. CASE Tick
  <2>1. Leasable'
    BY <1>7, TickTasks DEF TypeInv, Leasable
  <2>2. cleanups' \subseteq Cleanups
    BY <1>7, TickStep
  <2>3. TypeOK'
    BY <1>7, <2>2, TickTasks, TickStep DEF TypeInv, TypeOK
  <2>4. QED
    BY <2>1, <2>3 DEF TypeInv
<1>8. QED
  BY <1>1, <1>2, <1>3, <1>4, <1>5, <1>6, <1>7 DEF Agent, Clean

\* Type correctness, and that a task is queued only while it may be leased.
LEMMA NextType == TypeInv /\ [Next]_vars => TypeInv'
<1>1. TypeInv /\ UNCHANGED vars => TypeInv'
  BY DEF vars, TypeInv, TypeOK, Leasable
<1>2. QED
  BY <1>1, HubType, AgentType DEF Next

\* The state of the Hub, the host, its agent and the scheduled cleanups keeps its
\* types: leases are counted up to their limit, executions, requests and delays
\* run out.
THEOREM DecommissionTypeCorrect == Spec => []TypeOK
<1>1. Spec => []TypeInv
  BY InitType, NextType, PTL DEF Spec
<1>2. QED
  BY <1>1, PTL DEF TypeInv

\* The numbers of a state are numbers.
LEMMA Numbers ==
  ASSUME TypeInv
  PROVE  /\ host \in Host /\ host.enrolled \in Nat /\ host.age \in Nat
         /\ enrolls \in Nat /\ forgotten \in Nat /\ by \in Nat
         /\ busy \in Nat /\ busy <= ExecTime
         /\ result.age \in Nat /\ result.age <= PostTimeout
         /\ \A t \in Tasks : tasks[t].age \in Nat
         /\ \A c \in cleanups :
              /\ c.task \in Tasks /\ c.by \in Enrolls /\ c.by \in Nat
              /\ c.left \in Nat /\ c.left <= Delay
<1>1. /\ host \in Host /\ host.enrolled \in Enrolls /\ host.age \in 0..Grown
      /\ {enrolls, forgotten, by} \subseteq Enrolls /\ busy \in 0..ExecTime
      /\ result.age \in 0..PostTimeout
  BY DEF TypeInv, TypeOK, Host, Result
<1>2. \A t \in Tasks : tasks[t].age \in 0..LeaseTimeout
  BY DEF TypeInv, TypeOK, Task
<1>3. \A c \in cleanups : c.task \in Tasks /\ c.by \in Enrolls /\ c.left \in 0..Delay
  BY DEF TypeInv, TypeOK, Cleanups
<1>4. \A n \in Nat : \A k \in 0..n : k \in Nat /\ k <= n
  OBVIOUS
<1>5. \A e \in Enrolls : e \in Nat
  BY Values
<1>6. /\ host.age \in Nat /\ busy \in Nat /\ busy <= ExecTime
      /\ result.age \in Nat /\ result.age <= PostTimeout
  BY <1>1, <1>4, Values
<1>7. \A t \in Tasks : tasks[t].age \in Nat
  BY <1>2, <1>4, Values
<1>8. \A c \in cleanups : c.left \in Nat /\ c.left <= Delay
  BY <1>3, <1>4, Values
<1>9. QED
  BY <1>1, <1>3, <1>5, <1>6, <1>7, <1>8

-------------------------------------------------------------------------------
(* Newcomers *)

\* The agent ends its poll, for whatever reason, and nothing else happens.
Stops ==
  /\ Free
  /\ UNCHANGED <<hub, enrolls, host, cleanups, retired>>

LEMMA StopSteps == PostFails \/ RestartAgent => Stops
  BY DEF PostFails, RestartAgent, Stops

\* Steps that leave the enrollments and what they did alone.
LEMMA EnrollmentsStep ==
  ASSUME TypeInv, Enrollments, [Next]_vars
  PROVE  Enrollments'
<1> USE Values
<1> DEFINE kept == UNCHANGED <<forgotten, enrolls, retired>>
<1>1. /\ host.enrolled \in Nat /\ enrolls \in Nat /\ forgotten \in Nat
      /\ host \in Host /\ by \in Nat
  BY DEF TypeInv, TypeOK, Host
<1>2. ASSUME kept, host'.enrolled = host.enrolled, cleanups' \subseteq cleanups,
             \/ by' = by /\ todo' \subseteq todo
             \/ by' = 0 /\ todo' = {}
      PROVE  Enrollments'
  BY <1>1, <1>2 DEF Enrollments
<1>3. ASSUME NEW t \in Tasks, NEW confirmed \in BOOLEAN, Command(t, confirmed)
      PROVE  Enrollments'
  BY <1>2, <1>3 DEF Command
<1>4. CASE RemoveAgent
  BY <1>2, <1>4 DEF RemoveAgent
<1>5. CASE CancelTasks
  BY <1>1, <1>5 DEF CancelTasks, Enrollments
<1>6. CASE Enroll
  <2>1. host'.enrolled = enrolls + 1 /\ enrolls' = enrolls + 1
    BY <1>1, <1>6 DEF Enroll, Host
  <2>2. \A c \in cleanups : c.by \in Nat
    BY DEF TypeInv, TypeOK, Cleanups
  <2>3. \A e \in Enrolls : e <= enrolls => e <= enrolls + 1
    BY <1>1
  <2>4. QED
    BY <1>1, <1>6, <2>1, <2>2, <2>3 DEF Enroll, Enrollments
<1>7. CASE SetPolicy
  <2>1. host'.enrolled = host.enrolled
    BY <1>1, <1>7 DEF SetPolicy, Host
  <2>2. QED
    BY <1>2, <1>7, <2>1 DEF SetPolicy
<1>8. ASSUME NEW t \in Tasks, Recover(t)
      PROVE  Enrollments'
  BY <1>2, <1>8 DEF Recover
<1>9. CASE Poll
  <2>1. host.enrolled # 0 /\ todo = {}
        /\ UNCHANGED <<forgotten, enrolls, host, cleanups, retired>>
    BY <1>9 DEF Poll
  <2>2. \/ by' = host.enrolled
        \/ by' = by /\ todo' = todo
    BY <1>9 DEF Poll
  <2>3. QED
    BY <1>1, <2>1, <2>2 DEF Enrollments
<1>10. CASE Post
  BY <1>2, <1>10 DEF Post, Free
<1>11. CASE PostFails \/ RestartAgent
  BY <1>2, <1>11, StopSteps DEF Stops, Free
<1>12. ASSUME NEW t \in Tasks, Execute(t) \/ ExecuteOther(t)
       PROVE  Enrollments'
  <2>1. /\ t \in todo /\ todo' = todo \ {t} /\ kept /\ UNCHANGED <<host, by>>
        /\ cleanups' \in {cleanups, Schedule(t)}
    BY <1>12, ExecuteStep
  <2>2. ASSUME NEW c \in cleanups'
        PROVE  c.by # 0 /\ c.by <= enrolls
    <3>1. c \in cleanups \/ c.by = by
      BY <2>1 DEF Schedule
    <3>2. QED
      BY <2>1, <3>1 DEF Enrollments
  <2>3. QED
    BY <2>1, <2>2 DEF Enrollments
<1>13. ASSUME NEW d \in cleanups, Cleanup(d)
       PROVE  Enrollments'
  <2>1. /\ UNCHANGED <<forgotten, enrolls>>
        /\ cleanups' \subseteq cleanups /\ todo' = {} /\ host'.enrolled = 0
        /\ by' = 0
    BY <1>13, CleanupStep DEF Free
  <2>2. ASSUME NEW t \in Tasks, NEW e \in Enrolls, retired'[t][e] > 0
        PROVE  e # 0 /\ e <= enrolls
    <3>1. retired'[t][e] = retired[t][e] \/ e = d.by
      BY <1>13, CleanupStep
    <3>2. QED
      BY <2>2, <3>1 DEF Enrollments
  <2>3. QED
    BY <1>1, <2>1, <2>2 DEF Enrollments
<1>14. CASE Reboot
  BY <1>2, <1>14 DEF Reboot, Free
<1>15. CASE Tick
  <2>1. /\ kept /\ UNCHANGED <<by, todo>> /\ host'.enrolled = host.enrolled
        /\ \A c \in cleanups' : \E d \in cleanups : c.by = d.by
    BY <1>15, TickStep
  <2>2. QED
    BY <2>1 DEF Enrollments
<1>16. CASE UNCHANGED vars
  BY <1>2, <1>16 DEF vars
<1>17. QED
  BY <1>3, <1>4, <1>5, <1>6, <1>7, <1>8, <1>9, <1>10, <1>11, <1>12, <1>13, <1>14,
     <1>15, <1>16
  DEF Next, Agent, Clean

\* What Spared says of one task.
SparedTask(t) ==
  tasks[t].old =>
    /\ tasks[t].status \notin {"queued", "running"}
    /\ t \in todo => by <= forgotten
    /\ \A c \in cleanups : c.task = t => c.by <= forgotten

\* Cancelling leaves no open command; from then on a command is new, and an
\* enrollment that comes gets none of the old ones.
LEMMA SparedStep ==
  ASSUME TypeInv, Enrollments, Spared, [Next]_vars
  PROVE  Spared'
<1> SUFFICES ASSUME NEW u \in Tasks
             PROVE  SparedTask(u)'
  BY DEF Spared, SparedTask
<1>1. /\ enrolls \in Nat /\ forgotten \in Nat /\ by \in Nat
      /\ \A c \in cleanups : c.by \in Nat
  BY Values DEF TypeInv, TypeOK, Cleanups
<1>2. TypeOK /\ Leasable /\ SparedTask(u)
  BY DEF TypeInv, Spared, SparedTask
<1>3. ASSUME tasks'[u].old = tasks[u].old,
             \/ tasks'[u].status = tasks[u].status
             \/ tasks'[u].status \in {"done", "failed"},
             forgotten' = forgotten, cleanups' \subseteq cleanups,
             u \in todo' => u \in todo /\ by' = by
      PROVE  SparedTask(u)'
  BY <1>2, <1>3 DEF SparedTask
<1>4. ASSUME NEW t \in Tasks, NEW confirmed \in BOOLEAN, Command(t, confirmed)
      PROVE  SparedTask(u)'
  <2>1. CASE u = t
    BY <1>2, <1>4, <2>1, CommandTask DEF SparedTask
  <2>2. CASE u # t
    <3>1. tasks'[u] = tasks[u]
      BY <1>2, <1>4, <2>2, CommandTask
    <3>2. QED
      BY <1>3, <1>4, <3>1 DEF Command
  <2>3. QED
    BY <2>1, <2>2
<1>5. CASE RemoveAgent
  BY <1>3, <1>5 DEF RemoveAgent
<1>6. CASE CancelTasks
  <2>1. forgotten' = enrolls /\ UNCHANGED <<by, todo, cleanups>>
    BY <1>6 DEF CancelTasks
  <2>2. tasks'[u].status \notin {"queued", "running"}
    BY <1>2, <1>6, CancelledTasks
  <2>3. QED
    BY <2>1, <2>2 DEF SparedTask, Enrollments
<1>7. CASE Enroll
  BY <1>3, <1>7 DEF Enroll
<1>8. CASE SetPolicy
  BY <1>3, <1>8 DEF SetPolicy
<1>9. ASSUME NEW t \in Tasks, Recover(t)
      PROVE  SparedTask(u)'
  <2>1. UNCHANGED <<forgotten, by, todo, cleanups>>
    BY <1>9 DEF Recover
  <2>2. CASE u = t
    <3>1. tasks[u].status = "running" /\ tasks'[u].old = tasks[u].old
      BY <1>2, <1>9, <2>2, RecoverTask
    <3>2. QED
      BY <1>2, <3>1 DEF SparedTask
  <2>3. CASE u # t
    <3>1. tasks'[u] = tasks[u]
      BY <1>2, <1>9, <2>3, RecoverTask
    <3>2. QED
      BY <1>3, <2>1, <3>1
  <2>4. QED
    BY <2>2, <2>3
<1>10. CASE Poll
  <2>1. PICK batch \in Batches :
          /\ \/ todo' = batch /\ by' = host.enrolled
             \/ todo' = todo /\ by' = by
          /\ \A v \in batch : /\ tasks[v].status = "queued"
                              /\ tasks'[v].old = tasks[v].old
          /\ \A v \in Tasks \ batch : tasks'[v] = tasks[v]
    BY <1>2, <1>10, PollTasks
  <2>2. UNCHANGED <<forgotten, cleanups>> /\ todo = {}
    BY <1>10 DEF Poll
  <2>3. CASE u \in batch
    BY <1>2, <2>1, <2>2, <2>3 DEF SparedTask
  <2>4. CASE u \notin batch
    <3>1. tasks'[u] = tasks[u] /\ u \notin todo'
      BY <2>1, <2>2, <2>4
    <3>2. QED
      BY <1>3, <2>2, <3>1
  <2>5. QED
    BY <2>3, <2>4
<1>11. CASE Post
  <2>1. /\ tasks'[u].old = tasks[u].old
        /\ \/ tasks'[u].status \in {"done", "failed"}
           \/ tasks'[u].status = tasks[u].status
    BY <1>2, <1>11, PostTasks
  <2>2. /\ UNCHANGED <<forgotten, cleanups>>
        /\ todo' = {} \/ (todo' = todo /\ by' = by)
    BY <1>11 DEF Post, Free
  <2>3. QED
    BY <1>3, <2>1, <2>2
<1>12. CASE PostFails \/ RestartAgent
  BY <1>3, <1>12, StopSteps DEF Stops, Free
<1>13. ASSUME NEW t \in Tasks, Execute(t) \/ ExecuteOther(t)
       PROVE  SparedTask(u)'
  <2>1. /\ t \in todo /\ todo' = todo \ {t}
        /\ UNCHANGED <<tasks, forgotten, by>>
        /\ cleanups' \in {cleanups, Schedule(t)}
    BY <1>13, ExecuteStep
  <2>2. ASSUME NEW c \in cleanups', c.task = u
        PROVE  c \in cleanups \/ (u \in todo /\ c.by = by)
    BY <2>1, <2>2 DEF Schedule
  <2>3. QED
    BY <1>2, <2>1, <2>2 DEF SparedTask
<1>14. ASSUME NEW d \in cleanups, Cleanup(d)
       PROVE  SparedTask(u)'
  BY <1>3, <1>14, CleanupStep DEF Free
<1>15. CASE Reboot
  BY <1>3, <1>15 DEF Reboot, Free
<1>16. CASE Tick
  <2>1. tasks'[u].status = tasks[u].status /\ tasks'[u].old = tasks[u].old
    BY <1>2, <1>16, TickTasks
  <2>2. /\ UNCHANGED <<forgotten, by, todo>>
        /\ \A c \in cleanups' : \E d \in cleanups : c.by = d.by /\ c.task = d.task
    BY <1>16, TickStep
  <2>3. QED
    BY <1>2, <2>1, <2>2 DEF SparedTask
<1>17. CASE UNCHANGED vars
  BY <1>3, <1>17 DEF vars
<1>18. QED
  BY <1>4, <1>5, <1>6, <1>7, <1>8, <1>9, <1>10, <1>11, <1>12, <1>13, <1>14,
     <1>15, <1>16, <1>17
  DEF Next, Agent, Clean

\* An older enrollment executes one task at most after a newcomer has come: its
\* token is refused when it reports.
LEMMA PassingStep ==
  ASSUME TypeInv, Enrollments, Passing, [Next]_vars
  PROVE  Passing'
<1> USE Values
<1>1. /\ host \in Host /\ host.enrolled \in Nat /\ host.age \in Nat
      /\ enrolls \in Nat /\ by \in Nat
      /\ busy \in Nat /\ busy <= ExecTime
      /\ \A c \in cleanups : c.by \in Nat /\ c.left \in Nat /\ c.left <= Delay
  BY Numbers
<1> DEFINE late(c) == c.by < host.enrolled => host.age + c.left <= ExecTime + Delay
<1>2. ASSUME host'.enrolled = host.enrolled, host'.age = host.age,
             cleanups' \subseteq cleanups,
             Executing' => \/ Executing /\ by' = by /\ busy' = busy
                           \/ by' >= host.enrolled /\ by' \in Nat
      PROVE  Passing'
  BY <1>1, <1>2 DEF Passing
<1>3. ASSUME NEW t \in Tasks, NEW confirmed \in BOOLEAN, Command(t, confirmed)
      PROVE  Passing'
  BY <1>2, <1>3 DEF Command, Executing
<1>4. CASE RemoveAgent \/ CancelTasks \/ \E t \in Tasks : Recover(t)
  BY <1>2, <1>4 DEF RemoveAgent, CancelTasks, Recover, Executing
<1>5. CASE Enroll
  <2>1. host'.age = 0 /\ UNCHANGED <<cleanups, busy>>
    BY <1>1, <1>5 DEF Enroll, Host
  <2>2. \A c \in cleanups : 0 + c.left <= ExecTime + Delay
    BY <1>1
  <2>3. QED
    BY <1>1, <2>1, <2>2 DEF Passing
<1>6. CASE SetPolicy
  <2>1. host'.enrolled = host.enrolled /\ host'.age = host.age
    BY <1>1, <1>6 DEF SetPolicy, Host
  <2>2. QED
    BY <1>2, <1>6, <2>1 DEF SetPolicy, Executing
<1>7. CASE Poll
  <2>1. /\ UNCHANGED <<host, cleanups, busy, waiting, result>>
        /\ \/ by' = host.enrolled
           \/ by' = by /\ todo' = todo
    BY <1>7 DEF Poll
  <2>2. QED
    BY <1>1, <1>2, <2>1 DEF Executing
<1>8. CASE Post
  <2>1. by >= host.enrolled
    BY <1>1, <1>8 DEF Post, Enrollments
  <2>2. UNCHANGED <<host, cleanups>> /\ (todo' = {} \/ by' = by)
    BY <1>8 DEF Post, Free
  <2>3. QED
    BY <1>1, <1>2, <2>1, <2>2 DEF Executing
<1>9. CASE PostFails \/ RestartAgent
  BY <1>2, <1>9, StopSteps DEF Stops, Free, Executing
<1>10. ASSUME NEW t \in Tasks, Execute(t) \/ ExecuteOther(t)
       PROVE  Passing'
  <2>1. /\ t \in todo /\ ~waiting /\ result = NoResult
        /\ UNCHANGED <<host, by>>
        /\ cleanups' \in {cleanups, Schedule(t)}
        /\ ~Executing'
    <3>1. waiting' \/ result' # NoResult
      BY <1>10, ExecuteStep
    <3>2. QED
      BY <1>10, <3>1, ExecuteStep DEF Executing
  <2>2. Executing
    BY <2>1 DEF Executing
  <2>3. ASSUME NEW c \in cleanups', c.by < host.enrolled
        PROVE  host.age + c.left <= ExecTime + Delay
    <3>1. c \in cleanups \/ c = [task |-> t, by |-> by, left |-> Delay]
      BY <2>1 DEF Schedule
    <3>2. CASE c \in cleanups
      BY <2>3, <3>2 DEF Passing
    <3>3. CASE c = [task |-> t, by |-> by, left |-> Delay]
      <4>1. host.age <= busy /\ c.left = Delay
        BY <2>2, <2>3, <3>3 DEF Passing
      <4>2. QED
        BY <1>1, <4>1
    <3>4. QED
      BY <3>1, <3>2, <3>3
  <2>4. QED
    BY <2>1, <2>3 DEF Passing
<1>11. ASSUME NEW d \in cleanups, Cleanup(d)
       PROVE  Passing'
  <2>1. host'.enrolled = 0 /\ cleanups' \subseteq cleanups /\ ~Executing'
    BY <1>11, CleanupStep DEF Free, Executing
  <2>2. QED
    BY <1>1, <2>1 DEF Passing
<1>12. CASE Reboot
  BY <1>12 DEF Reboot, Free, Executing, Passing
<1>13. CASE Tick
  <2>1. /\ host'.enrolled = host.enrolled /\ host'.age \in Nat
        /\ host'.age <= host.age + 1
        /\ IF Executing THEN busy' = busy + 1 ELSE busy' = busy
        /\ UNCHANGED <<by, todo, waiting>>
        /\ result = NoResult <=> result' = NoResult
    BY <1>13, TickStep
  <2>2. Executing' <=> Executing
    BY <2>1 DEF Executing
  <2>3. Executing /\ by < host.enrolled => host'.age <= busy'
    BY <1>1, <2>1 DEF Passing
  <2>4. ASSUME NEW c \in cleanups', c.by < host.enrolled
        PROVE  host'.age + c.left <= ExecTime + Delay
    <3>1. PICK d \in cleanups : c.by = d.by /\ c.left = d.left - 1
      BY <1>13, TickStep
    <3>2. host.age + d.left <= ExecTime + Delay
      BY <2>4, <3>1 DEF Passing
    <3>3. d.left \in Int
      BY <1>1
    <3>4. QED
      BY <1>1, <2>1, <3>1, <3>2, <3>3
  <2>5. QED
    BY <2>1, <2>2, <2>3, <2>4 DEF Passing
<1>14. CASE UNCHANGED vars
  BY <1>2, <1>14 DEF vars, Executing
<1>15. QED
  BY <1>3, <1>4, <1>5, <1>6, <1>7, <1>8, <1>9, <1>10, <1>11, <1>12, <1>13, <1>14
  DEF Next, Agent, Clean

\* Once a removed agent's tasks are cancelled, no enrollment that comes after
\* executes one of them, whatever time requests, leases and delays take; and what
\* an older enrollment has begun strikes a newcomer before it has grown.
THEOREM NewcomersStaySpared == Spec => []NewcomersAreSpared
<1>1. Init => Enrollments /\ Spared /\ Passing
  <2> SUFFICES ASSUME Init
               PROVE  Enrollments /\ Spared /\ Passing
    OBVIOUS
  <2>1. /\ host.enrolled = 1 /\ enrolls = 1 /\ forgotten = 0 /\ cleanups = {}
        /\ by = 0 /\ todo = {}
        /\ \A t \in Tasks, e \in Enrolls : retired[t][e] = 0
        /\ \A t \in Tasks : ~tasks[t].old
    BY DEF Init, NoTask
  <2>2. QED
    BY <2>1 DEF Enrollments, Spared, Passing, Executing
<1>2. TypeInv /\ Spared /\ Passing => NewcomersAreSpared
  <2> SUFFICES ASSUME TypeInv, Spared, Passing, NEW c \in cleanups,
                      tasks[c.task].old
               PROVE  /\ c.by <= forgotten
                      /\ host.enrolled > forgotten => host.age < Grown
    BY DEF NewcomersAreSpared
  <2>1. /\ c.task \in Tasks /\ c.by \in Nat /\ c.left \in Nat
        /\ forgotten \in Nat /\ host.enrolled \in Nat /\ host.age \in Nat
    BY Numbers
  <2>2. c.by <= forgotten
    BY <2>1 DEF Spared
  <2>3. ASSUME host.enrolled > forgotten
        PROVE  host.age < Grown
    <3>1. c.by < host.enrolled
      BY <2>1, <2>2, <2>3
    <3>2. host.age + c.left <= ExecTime + Delay
      BY <3>1 DEF Passing
    <3>3. QED
      BY <2>1, <3>2, Values DEF Grown
  <2>4. QED
    BY <2>2, <2>3
<1>3. TypeInv /\ Enrollments /\ Spared /\ Passing /\ [Next]_vars
      => Enrollments' /\ Spared' /\ Passing'
  BY EnrollmentsStep, SparedStep, PassingStep
<1>4. QED
  BY <1>1, <1>2, <1>3, InitType, NextType, PTL DEF Spec

-------------------------------------------------------------------------------
(* The time a batch takes *)

\* k + 1 turns of a batch take a turn more than k, and more take longer.
LEMMA Turns ==
  /\ \A k, p \in Nat : k * p \in Nat /\ (k + 1) * p = k * p + p
  /\ \A k, m, p \in Nat : k <= m => k * p <= m * p
<1>1. ASSUME NEW k \in Nat, NEW p \in Nat
      PROVE  k * p \in Nat /\ (k + 1) * p = k * p + p
  OBVIOUS
<1>2. ASSUME NEW k \in Nat, NEW m \in Nat, NEW p \in Nat, k <= m
      PROVE  k * p <= m * p
  <2>1. m - k \in Nat /\ m = k + (m - k)
    BY <1>2
  <2>2. (m - k) * p \in Nat
    BY <2>1, <1>1
  <2>3. m * p = k * p + (m - k) * p
    BY <2>1
  <2>4. k * p \in Nat /\ m * p \in Nat
    BY <1>1
  <2>5. QED
    BY <2>2, <2>3, <2>4
<1>3. QED
  BY <1>1, <1>2

\* What is to do is finite, and less when one of it is done.
LEMMA TodoSizes ==
  ASSUME TypeInv
  PROVE  /\ IsFiniteSet(todo) /\ Cardinality(todo) \in Nat
         /\ \A t \in todo : /\ Cardinality(todo) >= 1
                            /\ Cardinality(todo \ {t}) = Cardinality(todo) - 1
<1>1. IsFiniteSet(todo)
  BY Values, FS_Subset DEF TypeInv, TypeOK
<1>2. Cardinality(todo) \in Nat
  BY <1>1, FS_CardinalityType
<1>3. ASSUME NEW t \in todo
      PROVE  /\ Cardinality(todo) >= 1
             /\ Cardinality(todo \ {t}) = Cardinality(todo) - 1
  <2>1. /\ IsFiniteSet(todo \ {t})
        /\ Cardinality(todo \ {t}) = Cardinality(todo) - 1
    BY <1>1, FS_RemoveElement
  <2>2. Cardinality(todo \ {t}) \in Nat
    BY <2>1, FS_CardinalityType
  <2>3. QED
    BY <1>2, <2>1, <2>2
<1>4. QED
  BY <1>1, <1>2, <1>3

\* A turn is an execution and a request; a batch has MaxTasks of them at most.
LEMMA Spends ==
  ASSUME TypeInv, Leased
  PROVE  /\ Spent(0) \in Nat /\ (MaxTasks - 1) * (ExecTime + PostTimeout) \in Nat
         /\ todo # {} => Spent(0) <= (MaxTasks - 1) * (ExecTime + PostTimeout)
         /\ result # NoResult =>
              /\ Spent(1) \in Nat
              /\ Spent(0) = Spent(1) + (ExecTime + PostTimeout)
<1> DEFINE p == ExecTime + PostTimeout
           n == Cardinality(todo)
<1>1. p \in Nat /\ n \in Nat /\ MaxTasks - 1 \in Nat /\ n <= MaxTasks
  BY Values, TodoSizes DEF Leased
<1>2. MaxTasks - n - 0 = MaxTasks - n /\ MaxTasks - n \in Nat
  BY <1>1, Values
<1>3. Spent(0) = (MaxTasks - n) * p
  BY <1>2 DEF Spent
<1> HIDE DEF p, n
<1>4. Spent(0) \in Nat /\ (MaxTasks - 1) * p \in Nat
  BY <1>1, <1>2, <1>3, Turns
<1>5. ASSUME todo # {}
      PROVE  Spent(0) <= (MaxTasks - 1) * p
  <2>1. n >= 1
    BY <1>5, TodoSizes DEF n
  <2>2. MaxTasks - n <= MaxTasks - 1
    BY <1>1, <2>1, Values
  <2>3. QED
    BY <1>1, <1>2, <1>3, <2>2, Turns
<1>6. ASSUME result # NoResult
      PROVE  Spent(1) \in Nat /\ Spent(0) = Spent(1) + p
  <2>1. n < MaxTasks
    BY <1>6 DEF Leased, n
  <2>2. /\ MaxTasks - n - 1 \in Nat
        /\ MaxTasks - n = (MaxTasks - n - 1) + 1
    BY <1>1, <2>1, Values
  <2>3. Spent(1) = (MaxTasks - n - 1) * p
    BY DEF Spent, n, p
  <2> DEFINE k == MaxTasks - n - 1
  <2> HIDE DEF k
  <2>4. k \in Nat /\ Spent(1) = k * p /\ Spent(0) = (k + 1) * p
    BY <1>3, <2>2, <2>3 DEF k
  <2>5. QED
    BY <1>1, <2>4, Turns
<1>7. QED
  BY <1>4, <1>5, <1>6 DEF p

\* How old the lease of a task to do can be.
LEMMA Waited ==
  ASSUME TypeInv, Leased, ~waiting, NEW t \in todo, tasks[t].status = "running"
  PROVE  tasks[t].age <= (MaxTasks - 1) * (ExecTime + PostTimeout) + ExecTime
<1> DEFINE b == (MaxTasks - 1) * (ExecTime + PostTimeout)
<1>1. /\ tasks[t].age \in Nat /\ busy \in Nat /\ busy <= ExecTime
      /\ result.age \in Nat /\ result.age <= PostTimeout
      /\ ExecTime \in Nat /\ PostTimeout \in Nat
  BY Numbers, Values DEF TypeInv, TypeOK
<1>2. Spent(0) \in Nat /\ b \in Nat /\ Spent(0) <= b
  BY Spends
<1> HIDE DEF b
<1>3. CASE result = NoResult
  <2>1. tasks[t].age <= Spent(0) + busy
    BY <1>3 DEF Leased
  <2>2. QED
    BY <1>1, <1>2, <2>1 DEF b
<1>4. CASE result # NoResult
  <2>1. tasks[t].age <= Spent(1) + ExecTime + result.age
    BY <1>4 DEF Leased
  <2>2. Spent(1) \in Nat /\ Spent(0) = Spent(1) + (ExecTime + PostTimeout)
    BY <1>4, Spends
  <2>3. QED
    BY <1>1, <1>2, <2>1, <2>2 DEF b
<1>5. QED
  BY <1>3, <1>4

\* A task that the agent has is not handed out again while it goes on.
LEMMA NotStale ==
  ASSUME TypeInv, Leased, Timing, ~waiting, NEW t \in todo,
         tasks[t].status = "running"
  PROVE  tasks[t].age # LeaseTimeout
<1> DEFINE b == (MaxTasks - 1) * (ExecTime + PostTimeout)
<1>1. /\ tasks[t].age \in Nat /\ ExecTime \in Nat /\ Delay \in Nat
      /\ LeaseTimeout \in Nat
  BY Numbers, Values DEF TypeInv, TypeOK
<1>2. b \in Nat /\ tasks[t].age <= b + ExecTime
  BY Spends, Waited
<1>3. b + ExecTime + Delay < LeaseTimeout
  BY DEF Timing, Due
<1> HIDE DEF b
<1>4. QED
  BY <1>1, <1>2, <1>3

\* The agent gives up its batch.
LEMMA Dropped ==
  ASSUME Free,
         \A t \in Tasks : tasks'[t].status = "queued" => tasks'[t].age = 0
  PROVE  Leased'
<1>1. todo' = {} /\ result' = NoResult
  BY DEF Free
<1>2. Cardinality(todo') = 0
  BY <1>1, FS_EmptySet
<1>3. (Cardinality(todo) <= MaxTasks)'
  BY <1>2, Values
<1>4. QED
  BY <1>1, <1>3 DEF Leased

\* It goes on with it as it was.
LEMMA Continued ==
  ASSUME Leased, UNCHANGED <<todo, result, waiting, busy>>,
         \A t \in Tasks : tasks'[t].status = "queued" => tasks'[t].age = 0,
         ~waiting => \A t \in todo :
           \/ tasks'[t].status = tasks[t].status /\ tasks'[t].age = tasks[t].age
           \/ tasks'[t].status \in {"done", "failed"}
  PROVE  Leased'
<1>1. Spent(0)' = Spent(0) /\ Spent(1)' = Spent(1)
  BY DEF Spent
<1>2. ASSUME ~waiting, NEW t \in todo
      PROVE  /\ tasks'[t].status \notin {"none", "queued"}
             /\ tasks'[t].status = "running" =>
                  /\ result = NoResult => tasks'[t].age <= Spent(0) + busy
                  /\ result # NoResult =>
                       tasks'[t].age <= Spent(1) + ExecTime + result.age
  BY <1>2 DEF Leased
<1>3. QED
  BY <1>1, <1>2 DEF Leased

\* The steps of the Hub and the operator: a lease does not run out too early.
LEMMA HubLeased ==
  ASSUME TypeInv, Timing, Leased,
         \/ \E t \in Tasks, confirmed \in BOOLEAN : Command(t, confirmed)
         \/ RemoveAgent \/ CancelTasks \/ Enroll \/ SetPolicy
         \/ \E t \in Tasks : Recover(t)
  PROVE  Leased'
<1>1. /\ TypeOK /\ todo \subseteq Tasks
      /\ \A t \in Tasks : tasks[t].status = "queued" => tasks[t].age = 0
      /\ ~waiting => \A t \in todo : tasks[t].status \notin {"none", "queued"}
  BY DEF TypeInv, TypeOK, Leased
<1>2. UNCHANGED <<todo, result, waiting, busy>>
  BY DEF Command, RemoveAgent, CancelTasks, Enroll, SetPolicy, Recover
<1>3. ASSUME NEW t \in Tasks, NEW confirmed \in BOOLEAN, Command(t, confirmed)
      PROVE  Leased'
  <2>1. /\ tasks[t].status = "none" /\ tasks'[t].age = 0
        /\ \A u \in Tasks : u # t => tasks'[u] = tasks[u]
    BY <1>1, <1>3, CommandTask
  <2>2. ~waiting => \A u \in todo : tasks'[u] = tasks[u]
    BY <1>1, <2>1
  <2>3. \A u \in Tasks : tasks'[u].status = "queued" => tasks'[u].age = 0
    BY <1>1, <2>1
  <2>4. QED
    BY <1>2, <2>2, <2>3, Continued
<1>4. CASE RemoveAgent \/ Enroll \/ SetPolicy
  <2>1. tasks' = tasks
    BY <1>4 DEF RemoveAgent, Enroll, SetPolicy
  <2>2. QED
    BY <1>1, <1>2, <2>1, Continued
<1>5. CASE CancelTasks
  <2>1. \A u \in Tasks :
          \/ tasks'[u].status = "failed"
          \/ tasks'[u].status = tasks[u].status /\ tasks'[u].age = tasks[u].age
    BY <1>1, <1>5, CancelledTasks
  <2>2. \A u \in Tasks : tasks'[u].status = "queued" => tasks'[u].age = 0
    BY <1>1, <2>1
  <2>3. QED
    BY <1>1, <1>2, <2>1, <2>2, Continued
<1>6. ASSUME NEW t \in Tasks, Recover(t)
      PROVE  Leased'
  <2>1. /\ tasks[t].status = "running" /\ tasks[t].age = LeaseTimeout
        /\ tasks'[t].age = 0
        /\ \A u \in Tasks : u # t => tasks'[u] = tasks[u]
    BY <1>1, <1>6, RecoverTask
  <2>2. ~waiting => t \notin todo
    BY <2>1, NotStale
  <2>3. ~waiting => \A u \in todo : tasks'[u] = tasks[u]
    BY <1>1, <2>1, <2>2
  <2>4. \A u \in Tasks : tasks'[u].status = "queued" => tasks'[u].age = 0
    BY <1>1, <2>1
  <2>5. QED
    BY <1>2, <2>3, <2>4, Continued
<1>7. QED
  BY <1>3, <1>4, <1>5, <1>6

\* A request that ends, the agent going on, took PostTimeout at most.
LEMMA PostLeased ==
  ASSUME TypeInv, Leased, Post
  PROVE  Leased'
<1>1. TypeOK /\ todo \subseteq Tasks
  BY DEF TypeInv, TypeOK
<1>2. \A u \in Tasks :
        \/ u = result.task /\ tasks'[u].status \in {"done", "failed"}
        \/ u # result.task /\ tasks'[u] = tasks[u]
  BY <1>1, PostTasks
<1>3. \A u \in Tasks : tasks'[u].status = "queued" => tasks'[u].age = 0
  BY <1>2 DEF Leased
<1>4. CASE Free
  BY <1>3, <1>4, Dropped
<1>5. CASE ~Free
  <2>1. /\ result # NoResult /\ result' = NoResult
        /\ UNCHANGED <<todo, busy, waiting>>
    BY <1>5 DEF Post
  <2>2. /\ Spent(1) \in Nat /\ Spent(0) = Spent(1) + (ExecTime + PostTimeout)
        /\ ExecTime \in Nat /\ PostTimeout \in Nat /\ busy \in Nat
        /\ result.age \in Nat /\ result.age <= PostTimeout
    BY <2>1, Spends, Numbers, Values
  <2>3. ASSUME ~waiting, NEW t \in todo
        PROVE  /\ tasks'[t].status \notin {"none", "queued"}
               /\ tasks'[t].status = "running" => tasks'[t].age <= Spent(0) + busy
    <3>1. tasks'[t] = tasks[t] /\ t \in Tasks
      BY <1>1, <1>2 DEF Leased
    <3>2. /\ tasks[t].status \notin {"none", "queued"}
          /\ tasks[t].status = "running" =>
               tasks[t].age <= Spent(1) + ExecTime + result.age
      BY <2>1, <2>3 DEF Leased
    <3>3. tasks[t].age \in Nat
      BY <3>1, Numbers
    <3>4. QED
      BY <2>2, <3>1, <3>2, <3>3
  <2>4. Spent(0)' = Spent(0)
    BY <2>1 DEF Spent
  <2>5. NoResult.task \notin todo
    BY <1>1, Values
  <2>6. QED
    BY <1>3, <2>1, <2>3, <2>4, <2>5 DEF Leased
<1>6. QED
  BY <1>4, <1>5

\* A poll leases no more than its limit, and what it leases is not old.
LEMMA PollLeased ==
  ASSUME TypeInv, Leased, Poll
  PROVE  Leased'
<1>1. PICK batch \in Batches :
        /\ todo' \in {batch, todo}
        /\ \A u \in batch : /\ u \in Tasks /\ tasks[u].status = "queued"
                            /\ tasks'[u].status = "running"
                            /\ tasks'[u].age = tasks[u].age
        /\ \A u \in Tasks \ batch : tasks'[u] = tasks[u]
  BY PollTasks DEF TypeInv
<1>2. todo = {} /\ result = NoResult /\ UNCHANGED <<result, waiting, busy>>
  BY DEF Poll
<1>3. /\ Cardinality(batch) <= MaxTasks /\ Cardinality({}) = 0
      /\ batch \subseteq Tasks
  BY <1>1, FS_EmptySet DEF Batches
<1>4. Cardinality(todo') \in Nat /\ Cardinality(todo') <= MaxTasks
  <2>1. IsFiniteSet(batch) /\ Cardinality(batch) \in Nat
    BY <1>3, Values, FS_Subset, FS_CardinalityType
  <2>2. CASE todo' = batch
    BY <1>3, <2>1, <2>2
  <2>3. CASE todo' = {}
    BY <1>3, <2>3, Values
  <2>4. QED
    BY <1>1, <1>2, <2>2, <2>3
<1>5. Spent(0)' \in Nat
  <2>1. MaxTasks - Cardinality(todo') \in Nat
        /\ MaxTasks - Cardinality(todo') - 0 = MaxTasks - Cardinality(todo')
    BY <1>4, Values
  <2>2. ExecTime + PostTimeout \in Nat
    BY Values
  <2>3. QED
    BY <2>1, <2>2, Turns DEF Spent
<1>6. ASSUME NEW t \in todo'
      PROVE  /\ tasks'[t].status = "running" /\ tasks'[t].age = 0
  BY <1>1, <1>2 DEF Leased
<1>7. \A t \in Tasks : tasks'[t].status = "queued" => tasks'[t].age = 0
  <2>1. SUFFICES ASSUME NEW t \in Tasks, tasks'[t].status = "queued"
                 PROVE  tasks'[t].age = 0
    OBVIOUS
  <2>2. t \notin batch
    BY <1>1, <2>1
  <2>3. tasks'[t] = tasks[t]
    BY <1>1, <2>2
  <2>4. QED
    BY <2>1, <2>3 DEF Leased
<1>8. NoResult.task \notin todo' /\ busy \in Nat
  BY <1>1, <1>2, Values, Numbers
<1>9. \A t \in todo' : /\ tasks'[t].status \notin {"none", "queued"}
                       /\ tasks'[t].age <= Spent(0)' + busy
  BY <1>5, <1>6, <1>8
<1>10. QED
  BY <1>2, <1>4, <1>7, <1>8, <1>9 DEF Leased

\* A task that was executed took ExecTime at most.
LEMMA ExecuteLeased ==
  ASSUME TypeInv, Leased, NEW t \in Tasks, Execute(t) \/ ExecuteOther(t)
  PROVE  Leased'
<1>1. /\ t \in todo /\ ~waiting /\ result = NoResult /\ todo' = todo \ {t}
      /\ tasks' = tasks
      /\ \/ waiting' /\ result' = NoResult
         \/ ~waiting' /\ result'.task = t /\ result'.age = 0
  BY ExecuteStep
<1>2. /\ Cardinality(todo) \in Nat /\ Cardinality(todo) <= MaxTasks
      /\ Cardinality(todo') = Cardinality(todo) - 1
  BY <1>1, TodoSizes DEF Leased
<1>3. Cardinality(todo') < MaxTasks /\ Cardinality(todo') <= MaxTasks
  BY <1>2, Values
<1>4. Spent(1)' = Spent(0)
  <2>1. MaxTasks - Cardinality(todo') - 1 = MaxTasks - Cardinality(todo) - 0
    BY <1>2, Values
  <2>2. QED
    BY <2>1 DEF Spent
<1>5. ASSUME ~waiting', NEW u \in todo'
      PROVE  /\ tasks[u].status \notin {"none", "queued"}
             /\ tasks[u].status = "running" =>
                  tasks[u].age <= Spent(1)' + ExecTime + result'.age
  <2>1. u \in todo /\ result'.age = 0 /\ u \in Tasks
    BY <1>1, <1>5 DEF TypeInv, TypeOK
  <2>2. /\ tasks[u].status \notin {"none", "queued"}
        /\ tasks[u].status = "running" => tasks[u].age <= Spent(0) + busy
    BY <1>1, <2>1 DEF Leased
  <2>3. /\ busy \in Nat /\ busy <= ExecTime /\ Spent(0) \in Nat
        /\ tasks[u].age \in Nat /\ ExecTime \in Nat
    BY <2>1, Numbers, Spends, Values
  <2>4. QED
    BY <1>4, <2>1, <2>2, <2>3
<1>6. /\ result'.task = 0 => result' = NoResult
      /\ result'.task \notin todo'
      /\ ~waiting' => result' # NoResult
  <2>1. t # 0 /\ todo' \subseteq Tasks
    BY <1>1, Values DEF TypeInv, TypeOK
  <2>2. QED
    BY <1>1, <2>1, Values
<1>7. \A u \in Tasks : tasks'[u].status = "queued" => tasks'[u].age = 0
  BY <1>1 DEF Leased
<1>8. QED
  BY <1>1, <1>3, <1>5, <1>6, <1>7 DEF Leased

\* While the agent executes or waits for an answer, the leases age with it.
LEMMA TickLeased ==
  ASSUME TypeInv, TypeInv', Leased, Tick
  PROVE  Leased'
<1>1. \A u \in Tasks : /\ tasks'[u].status = tasks[u].status
                       /\ tasks'[u].age <= tasks[u].age + 1
                       /\ tasks[u].status # "running" => tasks'[u].age = tasks[u].age
  BY TickTasks DEF TypeInv
<1>2. /\ UNCHANGED <<todo, waiting>>
      /\ result'.task = result.task
      /\ result = NoResult => result' = NoResult
      /\ result # NoResult => result' # NoResult /\ result'.age = result.age + 1
      /\ IF Executing THEN busy' = busy + 1 ELSE busy' = busy
  BY TickStep
<1>3. Spent(0)' = Spent(0) /\ Spent(1)' = Spent(1)
  BY <1>2 DEF Spent
<1>4. \A u \in Tasks : tasks'[u].status = "queued" => tasks'[u].age = 0
  BY <1>1 DEF Leased
<1>5. ASSUME ~waiting, NEW u \in todo
      PROVE  /\ tasks'[u].status \notin {"none", "queued"}
             /\ tasks'[u].status = "running" =>
                  /\ result' = NoResult => tasks'[u].age <= Spent(0) + busy'
                  /\ result' # NoResult =>
                       tasks'[u].age <= Spent(1) + ExecTime + result'.age
  <2>1. /\ u \in Tasks /\ tasks'[u].status = tasks[u].status
        /\ tasks'[u].age <= tasks[u].age + 1
    BY <1>1 DEF TypeInv, TypeOK
  <2>2. /\ tasks[u].age \in Nat /\ busy \in Nat /\ result.age \in Nat
        /\ tasks'[u].age \in Nat /\ Spent(0) \in Nat /\ ExecTime \in Nat
    BY <2>1, Numbers, Spends, Values DEF TypeInv, TypeOK, Task
  <2>3. tasks[u].status \notin {"none", "queued"}
    BY <1>5 DEF Leased
  <2>4. ASSUME tasks[u].status = "running", result' = NoResult
        PROVE  tasks'[u].age <= Spent(0) + busy'
    <3>1. result = NoResult
      BY <1>2, <2>4
    <3>2. busy' = busy + 1
      BY <1>2, <1>5, <3>1 DEF Executing
    <3>3. tasks[u].age <= Spent(0) + busy
      BY <1>5, <2>4, <3>1 DEF Leased
    <3>4. QED
      BY <2>1, <2>2, <3>2, <3>3
  <2>5. ASSUME tasks[u].status = "running", result' # NoResult
        PROVE  tasks'[u].age <= Spent(1) + ExecTime + result'.age
    <3>1. result # NoResult /\ result'.age = result.age + 1
      BY <1>2, <2>5
    <3>2. tasks[u].age <= Spent(1) + ExecTime + result.age
      BY <1>5, <2>5, <3>1 DEF Leased
    <3>3. Spent(1) \in Nat
      BY <3>1, Spends
    <3>4. QED
      BY <2>1, <2>2, <3>1, <3>2, <3>3
  <2>6. QED
    BY <2>1, <2>3, <2>4, <2>5
<1>6. /\ Cardinality(todo) <= MaxTasks
      /\ result'.task = 0 => result' = NoResult
      /\ result'.task \notin todo
      /\ result' # NoResult => Cardinality(todo) < MaxTasks
  BY <1>2 DEF Leased
<1>7. QED
  BY <1>2, <1>3, <1>4, <1>5, <1>6 DEF Leased

\* Every step keeps what is said of leases and batches.
LEMMA LeasedStep ==
  ASSUME TypeInv, TypeInv', Timing, Leased, [Next]_vars
  PROVE  Leased'
<1>1. \A t \in Tasks : tasks[t].status = "queued" => tasks[t].age = 0
  BY DEF Leased
<1>2. CASE PostFails \/ RestartAgent
  BY <1>1, <1>2, Dropped, StopSteps DEF Stops
<1>3. CASE Clean \/ Reboot
  BY <1>1, <1>3, Dropped DEF Clean, Cleanup, Reboot
<1>4. CASE UNCHANGED vars
  BY <1>1, <1>4, Continued DEF vars
<1>5. QED
  BY <1>2, <1>3, <1>4, HubLeased, PostLeased, PollLeased, ExecuteLeased,
     TickLeased
  DEF Next, Agent

-------------------------------------------------------------------------------
(* One cleanup of a task on an enrollment *)

\* What Scheduled says of the Hub's task of a cleanup of the present enrollment,
\* and of the agent that scheduled it.
Awaited(c) ==
  c.by = host.enrolled =>
    /\ tasks[c.task].status \notin {"none", "queued"}
    /\ tasks[c.task].status = "running" => tasks[c.task].age + c.left <= Due
Reported(c) ==
  c.by = by =>
    /\ c.task \notin todo
    /\ result.task = c.task => c.left + result.age = Delay

LEMMA ScheduledParts == Scheduled <=> \A c \in cleanups : Awaited(c) /\ Reported(c)
  BY DEF Scheduled, Awaited, Reported

\* The parts are kept by what leaves them alone.
LEMMA AwaitedKept ==
  ASSUME NEW c, Awaited(c), host'.enrolled = host.enrolled,
         \/ /\ tasks'[c.task].status = tasks[c.task].status
            /\ tasks'[c.task].age = tasks[c.task].age
         \/ tasks'[c.task].status \in {"done", "failed"}
  PROVE  Awaited(c)'
  BY DEF Awaited

LEMMA ReportedKept ==
  ASSUME NEW c, Reported(c), UNCHANGED by, todo' \subseteq todo,
         result' = result \/ result'.task # c.task
  PROVE  Reported(c)'
  BY DEF Reported

\* An agent that has nothing in its hands scheduled nothing with what it has.
LEMMA FreeReported ==
  ASSUME Enrollments, Free, NEW c \in cleanups
  PROVE  Reported(c)'
  BY DEF Enrollments, Free, Reported

LEMMA DueType == (MaxTasks - 1) * (ExecTime + PostTimeout) \in Nat /\ Due \in Nat
<1>1. MaxTasks - 1 \in Nat /\ ExecTime + PostTimeout \in Nat
  BY Values
<1>2. (MaxTasks - 1) * (ExecTime + PostTimeout) \in Nat
  BY <1>1, Turns
<1>3. QED
  BY <1>2, Values DEF Due

\* The steps of the Hub and the operator leave the cleanups alone, and their
\* tasks closed or running: the lease outlasts the delay.
LEMMA HubScheduled ==
  ASSUME TypeInv, Timing, Enrollments, Scheduled,
         \/ \E t \in Tasks, confirmed \in BOOLEAN : Command(t, confirmed)
         \/ RemoveAgent \/ CancelTasks \/ Enroll \/ SetPolicy
         \/ \E t \in Tasks : Recover(t)
  PROVE  Scheduled'
<1>1. UNCHANGED <<cleanups, by, todo, result>>
  BY DEF Command, RemoveAgent, CancelTasks, Enroll, SetPolicy, Recover
<1> SUFFICES ASSUME NEW c \in cleanups
             PROVE  Awaited(c)'
  BY <1>1 DEF Scheduled, Awaited, Reported
<1>2. /\ TypeOK /\ Awaited(c) /\ c.task \in Tasks
      /\ host \in Host /\ enrolls \in Nat /\ c.by \in Nat /\ c.left \in Nat
      /\ tasks[c.task].age \in Nat
  BY Numbers DEF TypeInv, Scheduled, Awaited
<1>3. ASSUME NEW t \in Tasks, NEW confirmed \in BOOLEAN, Command(t, confirmed)
      PROVE  Awaited(c)'
  <2>1. /\ tasks[t].status = "none"
        /\ \A u \in Tasks : u # t => tasks'[u] = tasks[u]
    BY <1>2, <1>3, CommandTask
  <2>2. host' = host
    BY <1>3 DEF Command
  <2>3. CASE c.by = host.enrolled
    <3>1. c.task # t
      BY <1>2, <2>1, <2>3 DEF Awaited
    <3>2. tasks'[c.task] = tasks[c.task]
      BY <1>2, <2>1, <3>1
    <3>3. QED
      BY <1>2, <2>2, <3>2, AwaitedKept
  <2>4. CASE c.by # host.enrolled
    BY <2>2, <2>4 DEF Awaited
  <2>5. QED
    BY <2>3, <2>4
<1>4. CASE RemoveAgent
  BY <1>2, <1>4, AwaitedKept DEF RemoveAgent
<1>5. CASE CancelTasks
  <2>1. \/ tasks'[c.task].status = "failed"
        \/ /\ tasks'[c.task].status = tasks[c.task].status
           /\ tasks'[c.task].age = tasks[c.task].age
    BY <1>2, <1>5, CancelledTasks
  <2>2. QED
    BY <1>2, <1>5, <2>1, AwaitedKept DEF CancelTasks
<1>6. CASE Enroll
  <2>1. host'.enrolled = enrolls + 1 /\ c.by <= enrolls
    BY <1>2, <1>6 DEF Enroll, Host, Enrollments
  <2>2. c.by # host'.enrolled
    BY <1>2, <2>1
  <2>3. QED
    BY <2>2 DEF Awaited
<1>7. CASE SetPolicy
  <2>1. host'.enrolled = host.enrolled /\ tasks' = tasks
    BY <1>2, <1>7 DEF SetPolicy, Host
  <2>2. QED
    BY <1>2, <2>1, AwaitedKept
<1>8. ASSUME NEW t \in Tasks, Recover(t)
      PROVE  Awaited(c)'
  <2>1. /\ tasks[t].status = "running" /\ tasks[t].age = LeaseTimeout
        /\ \A u \in Tasks : u # t => tasks'[u] = tasks[u]
    BY <1>2, <1>8, RecoverTask
  <2>2. host' = host
    BY <1>8 DEF Recover
  <2>3. CASE c.by = host.enrolled
    <3>1. c.task # t
      <4>1. SUFFICES ASSUME c.task = t
                     PROVE  FALSE
        OBVIOUS
      <4>2. LeaseTimeout + c.left <= Due
        BY <1>2, <2>1, <2>3, <4>1 DEF Awaited
      <4>3. QED
        BY <1>2, <4>2, DueType, Values DEF Timing
    <3>2. tasks'[c.task] = tasks[c.task]
      BY <1>2, <2>1, <3>1
    <3>3. QED
      BY <1>2, <2>2, <3>2, AwaitedKept
  <2>4. CASE c.by # host.enrolled
    BY <2>2, <2>4 DEF Awaited
  <2>5. QED
    BY <2>3, <2>4
<1>9. QED
  BY <1>3, <1>4, <1>5, <1>6, <1>7, <1>8

\* A poll leases no task that has a cleanup of this enrollment.
LEMMA PollScheduled ==
  ASSUME TypeInv, Scheduled, Poll
  PROVE  Scheduled'
<1>1. PICK batch \in Batches :
        /\ \/ todo' = batch /\ by' = host.enrolled
           \/ todo' = todo /\ by' = by
        /\ \A u \in batch : tasks[u].status = "queued"
        /\ \A u \in Tasks \ batch : tasks'[u] = tasks[u]
  BY PollTasks DEF TypeInv
<1>2. UNCHANGED <<host, cleanups, result>> /\ result = NoResult /\ todo = {}
  BY DEF Poll
<1> SUFFICES ASSUME NEW c \in cleanups
             PROVE  Awaited(c)' /\ Reported(c)'
  BY <1>2 DEF Scheduled, Awaited, Reported
<1>3. c.task \in Tasks /\ c.task # 0 /\ Awaited(c) /\ Reported(c)
  BY Numbers, Values, ScheduledParts
<1>4. CASE c.by = host.enrolled
  <2>1. c.task \notin batch
    BY <1>1, <1>3, <1>4 DEF Awaited
  <2>2. tasks'[c.task] = tasks[c.task] /\ c.task \notin todo'
    BY <1>1, <1>2, <1>3, <2>1
  <2>3. Awaited(c)'
    BY <1>2, <1>3, <2>2, AwaitedKept
  <2>4. result'.task # c.task
    BY <1>2, <1>3, Values
  <2>5. QED
    BY <2>2, <2>3, <2>4 DEF Reported
<1>5. CASE c.by # host.enrolled
  <2>1. Awaited(c)'
    BY <1>2, <1>5 DEF Awaited
  <2>2. CASE by' = host.enrolled
    BY <1>5, <2>1, <2>2 DEF Reported
  <2>3. CASE by' = by /\ todo' = todo
    BY <1>2, <1>3, <2>1, <2>3, ReportedKept
  <2>4. QED
    BY <1>1, <2>2, <2>3
<1>6. QED
  BY <1>4, <1>5

\* A cleanup that is scheduled starts with the report; the task has been the
\* agent's for no longer than the rest of its batch takes.
LEMMA ExecuteScheduled ==
  ASSUME TypeInv, Leased, Scheduled, NEW t \in Tasks,
         Execute(t) \/ ExecuteOther(t), NEW c \in cleanups'
  PROVE  Awaited(c)' /\ Reported(c)'
<1>1. /\ result = NoResult /\ ~waiting /\ t \in todo /\ todo' = todo \ {t}
      /\ UNCHANGED <<tasks, host, by>> /\ cleanups' \in {cleanups, Schedule(t)}
      /\ \/ result' = NoResult
         \/ result'.task = t /\ result'.age = 0
  BY ExecuteStep
<1>2. c \in cleanups \/ c = [task |-> t, by |-> by, left |-> Delay]
  BY <1>1 DEF Schedule
<1>3. CASE c \in cleanups
  <2>1. Awaited(c) /\ Reported(c) /\ c.task # 0
    BY <1>3, ScheduledParts, Numbers, Values
  <2>2. Awaited(c)'
    BY <1>1, <2>1, AwaitedKept
  <2>3. CASE c.by = by
    <3>1. c.task # t
      BY <1>1, <2>1, <2>3 DEF Reported
    <3>2. result'.task # c.task
      BY <1>1, <2>1, <3>1, Values
    <3>3. QED
      BY <1>1, <2>1, <2>2, <3>2, ReportedKept
  <2>4. CASE c.by # by
    BY <1>1, <2>2, <2>4 DEF Reported
  <2>5. QED
    BY <2>3, <2>4
<1>4. CASE c = [task |-> t, by |-> by, left |-> Delay]
  <2>1. c.task = t /\ c.left = Delay
    BY <1>4
  <2>2. tasks[t].status \notin {"none", "queued"}
    BY <1>1 DEF Leased
  <2>3. ASSUME tasks[t].status = "running"
        PROVE  tasks[t].age + Delay <= Due
    <3> DEFINE b == (MaxTasks - 1) * (ExecTime + PostTimeout)
    <3>1. /\ tasks[t].age \in Nat /\ b \in Nat
          /\ tasks[t].age <= b + ExecTime
      BY <1>1, <2>3, Numbers, DueType, Waited
    <3>2. Due = b + ExecTime + Delay
      BY DEF Due
    <3> HIDE DEF b
    <3>3. QED
      BY <3>1, <3>2, Values
  <2>4. result'.task = t => c.left + result'.age = Delay
    <3>1. t # 0
      BY Values
    <3>2. QED
      BY <1>1, <2>1, <3>1, Values
  <2>5. QED
    BY <1>1, <2>1, <2>2, <2>3, <2>4 DEF Awaited, Reported
<1>5. QED
  BY <1>2, <1>3, <1>4

\* The delay runs with the lease and with the request.
LEMMA TickScheduled ==
  ASSUME TypeInv, TypeInv', Scheduled, Tick, NEW c \in cleanups'
  PROVE  Awaited(c)' /\ Reported(c)'
<1>1. PICK d \in cleanups : /\ c.task = d.task /\ c.by = d.by
                            /\ c.left = d.left - 1
  BY TickStep
<1>2. /\ d.task \in Tasks /\ d.task # 0 /\ d.left \in Nat
      /\ tasks[d.task].age \in Nat /\ result.age \in Nat
      /\ Awaited(d) /\ Reported(d)
  BY Numbers, Values, ScheduledParts
<1>3. /\ tasks'[d.task].status = tasks[d.task].status
      /\ tasks'[d.task].age <= tasks[d.task].age + 1
      /\ tasks'[d.task].age \in Nat
  <2>1. TypeOK /\ tasks'[d.task] \in Task
    BY <1>2 DEF TypeInv, TypeOK
  <2>2. QED
    BY <1>2, <2>1, TickTasks DEF Task
<1>4. /\ host'.enrolled = host.enrolled /\ UNCHANGED <<by, todo>>
      /\ result'.task = result.task
      /\ result # NoResult => result'.age = result.age + 1
  BY TickStep
<1>5. Awaited(c)'
  <2>1. ASSUME c.by = host.enrolled
        PROVE  /\ tasks[d.task].status \notin {"none", "queued"}
               /\ tasks[d.task].status = "running" =>
                    tasks'[d.task].age + c.left <= Due
    BY <1>1, <1>2, <1>3, <2>1, DueType DEF Awaited
  <2>2. QED
    BY <1>1, <1>3, <1>4, <2>1, DueType DEF Awaited
<1>6. Reported(c)'
  <2>1. ASSUME c.by = by
        PROVE  /\ c.task \notin todo
               /\ result.task = c.task => c.left + result'.age = Delay
    <3>1. /\ d.task \notin todo
          /\ result.task = d.task => d.left + result.age = Delay
      BY <1>1, <1>2, <2>1 DEF Reported
    <3>2. ASSUME result.task = d.task
          PROVE  c.left + result'.age = Delay
      <4>1. result # NoResult
        BY <1>2, <3>2, Values
      <4>2. QED
        BY <1>1, <1>2, <1>4, <3>1, <3>2, <4>1, Values
    <3>3. QED
      BY <1>1, <3>1, <3>2
  <2>2. QED
    BY <1>4, <2>1 DEF Reported
<1>7. QED
  BY <1>5, <1>6

\* Every step keeps what is said of the cleanups.
LEMMA ScheduledStep ==
  ASSUME TypeInv, TypeInv', Timing, Enrollments, Leased, Scheduled, [Next]_vars
  PROVE  Scheduled'
<1>1. \A d \in cleanups : /\ Awaited(d) /\ Reported(d)
                          /\ d.task \in Tasks /\ d.task # 0
  BY Numbers, Values, ScheduledParts
<1>2. ASSUME UNCHANGED <<cleanups, host, tasks>>, Free
      PROVE  Scheduled'
  <2> SUFFICES ASSUME NEW c \in cleanups
               PROVE  Awaited(c)' /\ Reported(c)'
    BY <1>2 DEF Scheduled, Awaited, Reported
  <2>1. QED
    BY <1>1, <1>2, AwaitedKept, FreeReported
<1>3. CASE Post
  <2>1. UNCHANGED <<cleanups, host>>
    BY <1>3 DEF Post
  <2> SUFFICES ASSUME NEW c \in cleanups
               PROVE  Awaited(c)' /\ Reported(c)'
    BY <2>1 DEF Scheduled, Awaited, Reported
  <2>2. \/ tasks'[c.task].status \in {"done", "failed"}
        \/ tasks'[c.task] = tasks[c.task]
    BY <1>1, <1>3, PostTasks DEF TypeInv
  <2>3. Awaited(c)'
    BY <1>1, <2>1, <2>2, AwaitedKept
  <2>4. CASE Free
    BY <2>3, <2>4, FreeReported
  <2>5. CASE ~Free
    <3>1. UNCHANGED <<by, todo>> /\ result' = NoResult
      BY <1>3, <2>5 DEF Post
    <3>2. result'.task # c.task
      BY <1>1, <3>1, Values
    <3>3. QED
      BY <1>1, <2>3, <3>1, <3>2, ReportedKept
  <2>6. QED
    BY <2>4, <2>5
<1>4. CASE PostFails \/ RestartAgent
  BY <1>2, <1>4, StopSteps DEF Stops
<1>5. ASSUME NEW t \in Tasks, Execute(t) \/ ExecuteOther(t)
      PROVE  Scheduled'
  <2> SUFFICES ASSUME NEW c \in cleanups'
               PROVE  Awaited(c)' /\ Reported(c)'
    BY DEF Scheduled, Awaited, Reported
  <2>1. QED
    BY <1>5, ExecuteScheduled
<1>6. ASSUME NEW d \in cleanups, Cleanup(d)
      PROVE  Scheduled'
  <2>1. host'.enrolled = 0 /\ by' = 0 /\ cleanups' \subseteq cleanups
    BY <1>6, CleanupStep DEF Free
  <2>2. \A c \in cleanups' : c.by # 0
    BY <2>1 DEF Enrollments
  <2>3. QED
    BY <2>1, <2>2 DEF Scheduled
<1>7. CASE Reboot
  BY <1>7 DEF Reboot, Scheduled
<1>8. CASE Tick
  <2> SUFFICES ASSUME NEW c \in cleanups'
               PROVE  Awaited(c)' /\ Reported(c)'
    BY DEF Scheduled, Awaited, Reported
  <2>1. QED
    BY <1>8, TickScheduled
<1>9. CASE UNCHANGED vars
  BY <1>9 DEF vars, Scheduled
<1>10. QED
  BY <1>3, <1>4, <1>5, <1>6, <1>7, <1>8, <1>9, HubScheduled, PollScheduled
  DEF Next, Agent, Clean

\* What Once says of a task and an enrollment that carried it out.
Over(t, e) ==
  retired[t][e] > 0 =>
    /\ retired[t][e] = 1
    /\ e # host.enrolled
    /\ t \in todo => by # e
    /\ \A c \in cleanups : c.task = t => c.by # e

\* A second cleanup of a task on an enrollment is never scheduled, and so the
\* one that there is is carried out once.
LEMMA OnceStep ==
  ASSUME TypeInv, Enrollments, Scheduled, Once, [Next]_vars
  PROVE  Once'
<1>1. /\ host \in Host /\ host.enrolled \in Nat /\ enrolls \in Nat
      /\ \A c \in cleanups : c.task \in Tasks /\ c.by \in Enrolls
      /\ \A t \in Tasks, e \in Enrolls : retired[t][e] \in Nat
      /\ Enrolls \subseteq Nat
  BY Numbers, Values DEF TypeInv, TypeOK
<1>2. ASSUME cleanups' \subseteq cleanups, UNCHANGED retired,
             host'.enrolled = host.enrolled,
             todo' = {} \/ (todo' \subseteq todo /\ by' = by)
      PROVE  Once'
  <2>1. \A c, d \in cleanups' : c.task = d.task /\ c.by = d.by => c = d
    BY <1>2 DEF Once
  <2>2. ASSUME NEW t \in Tasks, NEW e \in Enrolls
        PROVE  Over(t, e)'
    <3>1. Over(t, e)
      BY DEF Once, Over
    <3>2. QED
      BY <1>2, <3>1 DEF Over
  <2>3. QED
    BY <2>1, <2>2 DEF Once, Over
<1>3. CASE \/ \E t \in Tasks, confirmed \in BOOLEAN : Command(t, confirmed)
           \/ RemoveAgent \/ CancelTasks \/ \E t \in Tasks : Recover(t)
           \/ UNCHANGED vars
  BY <1>2, <1>3 DEF Command, RemoveAgent, CancelTasks, Recover, vars
<1>4. CASE SetPolicy
  <2>1. host'.enrolled = host.enrolled
    BY <1>1, <1>4 DEF SetPolicy, Host
  <2>2. QED
    BY <1>2, <1>4, <2>1 DEF SetPolicy
<1>5. CASE Post
  BY <1>2, <1>5 DEF Post, Free
<1>6. CASE PostFails \/ RestartAgent
  BY <1>2, <1>6, StopSteps DEF Stops, Free
<1>7. CASE Reboot
  BY <1>2, <1>7 DEF Reboot, Free
<1>8. CASE Enroll
  <2>1. UNCHANGED <<cleanups, retired, by, todo>> /\ host'.enrolled = enrolls + 1
    BY <1>1, <1>8 DEF Enroll, Host
  <2>2. \A t \in Tasks, e \in Enrolls : retired[t][e] > 0 => e # host'.enrolled
    BY <1>1, <2>1 DEF Enrollments
  <2>3. QED
    BY <2>1, <2>2 DEF Once
<1>9. CASE Poll
  <2>1. UNCHANGED <<cleanups, retired, host>> /\ todo = {}
    BY <1>9 DEF Poll
  <2>2. by' = host.enrolled \/ (todo' = todo /\ by' = by)
    BY <1>9 DEF Poll
  <2>3. QED
    BY <2>1, <2>2 DEF Once
<1>10. ASSUME NEW t \in Tasks, Execute(t) \/ ExecuteOther(t)
       PROVE  Once'
  <2>1. /\ t \in todo /\ todo' = todo \ {t} /\ UNCHANGED <<retired, host, by>>
        /\ cleanups' \in {cleanups, Schedule(t)}
    BY <1>10, ExecuteStep
  <2>2. \A c \in cleanups' : \/ c \in cleanups
                             \/ c = [task |-> t, by |-> by, left |-> Delay]
    BY <2>1 DEF Schedule
  <2>3. \A c \in cleanups : ~(c.task = t /\ c.by = by)
    BY <2>1 DEF Scheduled
  <2>4. ASSUME NEW c \in cleanups', NEW d \in cleanups', c.task = d.task, c.by = d.by
        PROVE  c = d
    <3>1. CASE c \in cleanups /\ d \in cleanups
      BY <2>4, <3>1 DEF Once
    <3>2. CASE c \notin cleanups /\ d \notin cleanups
      BY <2>2, <3>2
    <3>3. CASE c \in cleanups /\ d \notin cleanups
      BY <2>2, <2>3, <2>4, <3>3
    <3>4. CASE c \notin cleanups /\ d \in cleanups
      BY <2>2, <2>3, <2>4, <3>4
    <3>5. QED
      BY <3>1, <3>2, <3>3, <3>4
  <2>5. ASSUME NEW u \in Tasks, NEW e \in Enrolls
        PROVE  Over(u, e)'
    <3>1. Over(u, e)
      BY DEF Once, Over
    <3>2. ASSUME retired[u][e] > 0, NEW c \in cleanups', c.task = u
          PROVE  c.by # e
      <4>1. CASE c \in cleanups
        BY <3>1, <3>2, <4>1 DEF Over
      <4>2. CASE c = [task |-> t, by |-> by, left |-> Delay]
        <5>1. u = t /\ c.by = by
          BY <3>2, <4>2
        <5>2. QED
          BY <2>1, <3>1, <3>2, <5>1 DEF Over
      <4>3. QED
        BY <2>2, <4>1, <4>2
    <3>3. QED
      BY <2>1, <3>1, <3>2 DEF Over
  <2>6. QED
    BY <2>4, <2>5 DEF Once, Over
<1>11. ASSUME NEW d \in cleanups, Cleanup(d)
       PROVE  Once'
  <2>1. /\ cleanups' = cleanups \ {d} /\ host'.enrolled = 0 /\ todo' = {}
        /\ \A u \in Tasks, e \in Enrolls :
             retired'[u][e] = IF u = d.task /\ e = d.by
                              THEN retired[u][e] + 1 ELSE retired[u][e]
    BY <1>11, CleanupStep DEF Free
  <2>2. retired[d.task][d.by] = 0
    <3>1. d.task \in Tasks /\ d.by \in Enrolls /\ retired[d.task][d.by] \in Nat
      BY <1>1
    <3>2. ~(retired[d.task][d.by] > 0)
      BY <3>1 DEF Once
    <3>3. QED
      BY <3>1, <3>2
  <2>3. ASSUME NEW u \in Tasks, NEW e \in Enrolls, retired'[u][e] > 0
        PROVE  /\ retired'[u][e] = 1 /\ e # 0
               /\ \A c \in cleanups' : c.task = u => c.by # e
    <3>1. CASE u = d.task /\ e = d.by
      <4>1. retired'[u][e] = 1
        BY <2>1, <2>2, <3>1
      <4>2. e # 0
        BY <3>1 DEF Enrollments
      <4>3. \A c \in cleanups' : c.task = u => c.by # e
        BY <2>1, <3>1 DEF Once
      <4>4. QED
        BY <4>1, <4>2, <4>3
    <3>2. CASE ~(u = d.task /\ e = d.by)
      <4>1. retired'[u][e] = retired[u][e]
        BY <2>1, <3>2
      <4>2. retired[u][e] = 1 /\ \A c \in cleanups : c.task = u => c.by # e
        BY <2>3, <4>1 DEF Once
      <4>3. e # 0
        BY <2>3, <4>1 DEF Enrollments
      <4>4. QED
        BY <2>1, <4>1, <4>2, <4>3
    <3>3. QED
      BY <3>1, <3>2
  <2>4. \A c, e \in cleanups' : c.task = e.task /\ c.by = e.by => c = e
    BY <2>1 DEF Once
  <2>5. QED
    BY <2>1, <2>3, <2>4 DEF Once
<1>12. CASE Tick
  <2>1. UNCHANGED <<retired, todo, by>> /\ host'.enrolled = host.enrolled
    BY <1>12, TickStep
  <2>2. \A c \in cleanups' : \E d \in cleanups :
          /\ c = [d EXCEPT !.left = d.left - 1]
          /\ c.task = d.task /\ c.by = d.by
    BY <1>12, TickStep
  <2>3. \A c, d \in cleanups' : c.task = d.task /\ c.by = d.by => c = d
    BY <2>2 DEF Once
  <2>4. ASSUME NEW u \in Tasks, NEW e \in Enrolls
        PROVE  Over(u, e)'
    <3>1. Over(u, e)
      BY DEF Once, Over
    <3>2. QED
      BY <2>1, <2>2, <3>1 DEF Over
  <2>5. QED
    BY <2>3, <2>4 DEF Once, Over
<1>13. QED
  BY <1>3, <1>4, <1>5, <1>6, <1>7, <1>8, <1>9, <1>10, <1>11, <1>12
  DEF Next, Agent, Clean

\* The inductive invariant of the decommissions.
LEMMA OnceInvariant ==
  ASSUME Timing
  PROVE  Spec => [](TypeInv /\ Enrollments /\ OnceInv)
<1>1. Init => Enrollments /\ OnceInv
  <2> SUFFICES ASSUME Init
               PROVE  Enrollments /\ OnceInv
    OBVIOUS
  <2>1. /\ host.enrolled = 1 /\ enrolls = 1 /\ forgotten = 0 /\ cleanups = {}
        /\ by = 0 /\ todo = {}
        /\ \A t \in Tasks, e \in Enrolls : retired[t][e] = 0
        /\ \A t \in Tasks : tasks[t].status = "none"
        /\ result = NoResult
    BY DEF Init, NoTask
  <2>2. Cardinality(todo) <= MaxTasks
    BY <2>1, FS_EmptySet, Values
  <2>3. QED
    BY <2>1, <2>2 DEF Enrollments, OnceInv, Leased, Scheduled, Once
<1>2. TypeInv /\ TypeInv' /\ Enrollments /\ OnceInv /\ [Next]_vars
      => Enrollments' /\ OnceInv'
  BY EnrollmentsStep, LeasedStep, ScheduledStep, OnceStep DEF OnceInv
<1>3. QED
  BY <1>1, <1>2, InitType, NextType, PTL DEF Spec

\* However often a command is handed out, it is carried out at most once on an
\* enrollment, for every number of commands, if a lease outlasts the executions
\* and the requests of a batch and the delay.
THEOREM CarriedOutOnce ==
  ASSUME Timing
  PROVE  Spec => []RetiredOnce
<1>1. TypeInv /\ OnceInv => RetiredOnce
  <2> SUFFICES ASSUME TypeInv, Once, NEW t \in Tasks, NEW e \in Enrolls
               PROVE  retired[t][e] <= 1
    BY DEF OnceInv, RetiredOnce
  <2>1. retired[t][e] \in Nat
    BY DEF TypeInv, TypeOK
  <2>2. retired[t][e] > 0 => retired[t][e] = 1
    BY DEF Once
  <2>3. QED
    BY <2>1, <2>2
<1>2. QED
  BY <1>1, OnceInvariant, PTL

\* When a cleanup starts that the agent did not wait for, the post of its result
\* is over, if the delay outlasts the timeout as well.
THEOREM ReportsPrecedeCleanups ==
  ASSUME Timing
  PROVE  Spec => []ReportPrecedesCleanup
<1>1. TypeInv /\ OnceInv => ReportPrecedesCleanup
  <2> SUFFICES ASSUME TypeInv, Scheduled, NEW c \in cleanups,
                      c.left = 0, c.by = by, result.task = c.task
               PROVE  FALSE
    BY DEF OnceInv, ReportPrecedesCleanup
  <2>1. 0 + result.age = Delay
    BY DEF Scheduled
  <2>2. result.age \in Nat /\ result.age <= PostTimeout
    BY Numbers
  <2>3. QED
    BY <2>1, <2>2, Values DEF Timing
<1>2. QED
  BY <1>1, OnceInvariant, PTL
===============================================================================
