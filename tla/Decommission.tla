------------------------------ MODULE Decommission ------------------------------
(***************************************************************************)
(* The retirement of an agent from the Hub: a /decommission command queues *)
(* a task; the agent that executes it, if its host allows that, has the    *)
(* host's own command line leave the Hub, remove what RelayPilot manages,  *)
(* or uninstall it, a little later.  With systemd-run the agent waits for  *)
(* that, and is stopped by it; without, it posts its result meanwhile.     *)
(* Nothing of this removes the agent from the Hub: hub-remove-agent does,  *)
(* and then cancels its tasks; and the host may be enrolled again at any   *)
(* time, under the same id, while the agent executes what it has.          *)
(*                                                                         *)
(* What is abstracted: the files of the host are its enrollment and the    *)
(* policy; any other task is one that takes time; what overlapping         *)
(* handlers do to a task file is in HubTasks; another agent's poll         *)
(* recovers stale leases at any time.  The agent is run as a service.      *)
(***************************************************************************)
EXTENDS Integers, FiniteSets

CONSTANTS
  Tasks,         \* the commands, numbered as they are given
  MaxTasks,      \* agent-poll-loop --max-tasks
  MaxLeases,     \* defaultTaskMaxLeaseCount
  PostTimeout,   \* agent-poll-loop --timeout
  ExecTime,      \* how long an execution may take, for the first of a batch
                 \* together with the answer that brought it
  Delay,         \* delay_seconds of the command
  LeaseTimeout,  \* defaultTaskLeaseTimeoutSeconds
  MaxEnrolls,    \* bound: the enrollments of the host
  MaxReboots     \* bound

ASSUME DecommissionAssumption ==
  /\ IsFiniteSet(Tasks) /\ Tasks \subseteq Nat \ {0}
  /\ {MaxTasks, MaxLeases, PostTimeout, MaxEnrolls} \subseteq Nat \ {0}
  /\ {ExecTime, Delay, LeaseTimeout, MaxReboots} \subseteq Nat

VARIABLES
  tasks,       \* [Tasks -> Task], the Hub's task files
  registered,  \* the agent is in the Hub's registry
  removing,    \* hub-remove-agent may yet cancel its tasks
  forgotten,   \* the last enrollment before its tasks were cancelled
  enrolls,     \* the enrollments so far; the Hub accepts the last token only
  host,        \* Host
  by,          \* the enrollment the agent is polling with, 0 between polls
  todo,        \* the tasks the agent has leased and not yet executed
  busy,        \* how long it has been executing one of them
  waiting,     \* it waits for a cleanup to end
  result,      \* the result it is posting
  cleanups,    \* the cleanups that are scheduled
  retired,     \* [Tasks -> [Enrolls -> Nat]], the cleanups done, by the task
               \* and the enrollment that executed it
  reboots

hub   == <<tasks, registered, removing, forgotten>>
agent == <<by, todo, busy, waiting, result>>
vars  == <<hub, enrolls, host, agent, cleanups, retired, reboots>>

-------------------------------------------------------------------------------
(* Types and helpers *)

Enrolls == 0..MaxEnrolls
\* confirmed: it is no preview, which is like any task that does not end the
\* host.  old: the agent's tasks were cancelled after it was given.  leases and
\* age, that of the lease, are those of an open task.  A cancelled task is a
\* failed one here.
Task == [status: {"none", "queued", "running", "done", "failed"},
         confirmed: BOOLEAN, old: BOOLEAN,
         leases: 0..MaxLeases, age: 0..LeaseTimeout]
NoTask == [status |-> "none", confirmed |-> FALSE, old |-> FALSE, leases |-> 0,
           age |-> 0]

\* A newcomer grows up: what an older enrollment began is over.
Grown == ExecTime + Delay + 1

\* The enrollment the host has, 0 if none, how long ago it came if the agent was
\* removed before, its agent-policy.json, and whether it has systemd-run.
Host == [enrolled: Enrolls, age: 0..Grown, policy: BOOLEAN, systemd: BOOLEAN]

Result == [task: Tasks \cup {0}, ok: BOOLEAN, age: 0..PostTimeout]
NoResult == [task |-> 0, ok |-> FALSE, age |-> 0]
Cleanups == [task: Tasks, by: Enrolls, left: 0..Delay]

Closed(t, status) ==
  [tasks[t] EXCEPT !.status = status, !.age = 0, !.leases = 0]
WithStatus(s) == {t \in Tasks : tasks[t].status \in s}

\* The agent has nothing in its hands.
Free == /\ by' = 0 /\ todo' = {} /\ busy' = 0 /\ waiting' = FALSE
        /\ result' = NoResult

Init ==
  /\ tasks = [t \in Tasks |-> NoTask]
  /\ registered = TRUE /\ removing = FALSE /\ forgotten = 0
  /\ enrolls = 1
  /\ \E systemd \in BOOLEAN :
       host = [enrolled |-> 1, age |-> 0, policy |-> FALSE, systemd |-> systemd]
  /\ by = 0 /\ todo = {} /\ busy = 0 /\ waiting = FALSE /\ result = NoResult
  /\ cleanups = {}
  /\ retired = [t \in Tasks |-> [e \in Enrolls |-> 0]]
  /\ reboots = 0

-------------------------------------------------------------------------------
(* The Hub *)

\* /decommission agent, a preview unless it is confirmed.
Command(t, confirmed) ==
  /\ tasks[t].status = "none" /\ registered
  /\ \A u \in Tasks : u < t => tasks[u].status # "none"
  /\ tasks' = [tasks EXCEPT ![t] = [NoTask EXCEPT
       !.status = "queued", !.confirmed = confirmed]]
  /\ UNCHANGED <<registered, removing, forgotten, enrolls, host, agent,
                 cleanups, retired, reboots>>

\* Seeded fault: only what is queued is cancelled.
CancelledQueued == WithStatus({"queued"})
Cancelled == WithStatus({"queued", "running"})

\* hub-remove-agent takes the agent out of the registry, and cancels its tasks
\* after that.  It does not come to that with --keep-tasks, or if it is killed.
RemoveAgent ==
  /\ registered
  /\ registered' = FALSE /\ removing' = TRUE
  /\ UNCHANGED <<tasks, forgotten, enrolls, host, agent, cleanups, retired,
                 reboots>>

CancelTasks ==
  /\ removing
  /\ removing' = FALSE /\ forgotten' = enrolls
  /\ tasks' = [t \in Tasks |->
       [(IF t \in Cancelled THEN Closed(t, "failed") ELSE tasks[t])
        EXCEPT !.old = tasks[t].status # "none"]]
  /\ UNCHANGED <<registered, enrolls, host, agent, cleanups, retired, reboots>>

\* Seeded fault: a lease is taken back whenever somebody polls.
StaleAtOnce(t) == tasks[t].status = "running"
Stale(t) == tasks[t].status = "running" /\ tasks[t].age = LeaseTimeout

Exhausted(t) == tasks[t].leases >= MaxLeases

Recover(t) ==
  /\ Stale(t)
  /\ tasks' = [tasks EXCEPT ![t] =
       IF Exhausted(t) THEN Closed(t, "failed")
                       ELSE [@ EXCEPT !.status = "queued", !.age = 0]]
  /\ UNCHANGED <<registered, removing, forgotten, enrolls, host, agent,
                 cleanups, retired, reboots>>

-------------------------------------------------------------------------------
(* The operator at the host *)

\* The host is enrolled under the agent's id, again or anew.  An agent that is
\* running goes on with what it has, and with the token it has.
Enroll ==
  /\ enrolls < MaxEnrolls
  /\ enrolls' = enrolls + 1
  /\ registered' = TRUE
  /\ host' = [host EXCEPT !.enrolled = enrolls', !.age = 0]
  /\ UNCHANGED <<tasks, removing, forgotten, agent, cleanups, retired, reboots>>

\* agent-policy.json: allow_remote_decommission.
SetPolicy ==
  /\ host' = [host EXCEPT !.policy = ~@]
  /\ UNCHANGED <<hub, enrolls, agent, cleanups, retired, reboots>>

-------------------------------------------------------------------------------
(* The agent *)

\* What one poll leases: the queued tasks up to its limit.
Batches ==
  {batch \in SUBSET WithStatus({"queued"}) :
     /\ batch # {} /\ Cardinality(batch) <= MaxTasks
     /\ batch = WithStatus({"queued"}) \/ Cardinality(batch) = MaxTasks}

\* Queued tasks are leased; the answer may be lost.
Poll ==
  /\ host.enrolled # 0 /\ registered
  /\ todo = {} /\ ~waiting /\ result = NoResult
  /\ \E batch \in Batches :
       /\ tasks' = [t \in Tasks |-> IF t \in batch
            THEN [tasks[t] EXCEPT !.status = "running", !.leases = @ + 1]
            ELSE tasks[t]]
       /\ \/ todo' = batch /\ by' = host.enrolled
          \/ UNCHANGED <<todo, by>>
  /\ UNCHANGED <<registered, removing, forgotten, enrolls, host, busy, waiting,
                 result, cleanups, retired, reboots>>

\* Seeded fault: all cleanups are scheduled under one name.
ScheduleOneName(t) ==
  IF cleanups = {} THEN {[task |-> t, by |-> by, left |-> Delay]}
                   ELSE cleanups
\* Seeded fault: the delay is not passed on.
ScheduleAtOnce(t) ==
  cleanups \cup {[task |-> t, by |-> by, left |-> 0]}
Schedule(t) ==
  cleanups \cup {[task |-> t, by |-> by, left |-> Delay]}

\* The agent has the next task in its hands.
Executes(t) ==
  /\ t \in todo /\ ~waiting /\ result = NoResult
  /\ todo' = todo \ {t} /\ busy' = 0
  /\ UNCHANGED <<hub, enrolls, host, by, retired, reboots>>

\* A confirmed decommission, with the host's permission.  systemd-run returns
\* when the cleanup, which is a oneshot unit, has ended.
Execute(t) ==
  /\ Executes(t)
  /\ host.policy /\ tasks[t].confirmed
  /\ cleanups' = Schedule(t)
  /\ waiting' = host.systemd
  /\ result' = IF host.systemd THEN NoResult
                               ELSE [task |-> t, ok |-> TRUE, age |-> 0]

\* Without the permission nothing happens; a preview, or another task, schedules
\* nothing; scheduling may fail.
ExecuteOther(t) ==
  /\ Executes(t)
  /\ \E ok \in BOOLEAN :
       /\ ok => ~tasks[t].confirmed /\ host.policy
       /\ result' = [task |-> t, ok |-> ok, age |-> 0]
  /\ UNCHANGED <<waiting, cleanups>>

\* The Hub takes a result whatever the status of the task, also of an agent that
\* was removed; the answer may be lost.
Post ==
  /\ result # NoResult /\ by = enrolls
  /\ tasks' = [tasks EXCEPT ![result.task] =
                 Closed(result.task, IF result.ok THEN "done" ELSE "failed")]
  /\ \/ Free
     \/ /\ todo # {} /\ result' = NoResult
        /\ UNCHANGED <<by, todo, busy, waiting>>
  /\ UNCHANGED <<registered, removing, forgotten, enrolls, host, cleanups,
                 retired, reboots>>

\* A request that fails, or is refused, ends the poll.
PostFails ==
  /\ result # NoResult
  /\ Free
  /\ UNCHANGED <<hub, enrolls, host, cleanups, retired, reboots>>

\* The service is restarted; what it scheduled is not part of it.
RestartAgent ==
  /\ by # 0
  /\ Free
  /\ UNCHANGED <<hub, enrolls, host, cleanups, retired, reboots>>

-------------------------------------------------------------------------------
(* Time *)

\* leave-hub, reset-agent or uninstall: the service stops and the enrollment is
\* gone, whichever it is by now; uninstall --full removes the policy, too.
Cleanup(c) ==
  /\ c.left = 0
  /\ cleanups' = cleanups \ {c}
  /\ retired' = [retired EXCEPT ![c.task][c.by] = @ + 1]
  /\ \E policy \in {host.policy, FALSE} :
       host' = [host EXCEPT !.enrolled = 0, !.age = 0, !.policy = policy]
  /\ Free
  /\ UNCHANGED <<hub, enrolls, reboots>>

\* What was scheduled is not kept over a restart of the machine.  (With nothing
\* scheduled it is a restart of the agent.)
Reboot ==
  /\ cleanups # {}
  /\ reboots < MaxReboots /\ reboots' = reboots + 1
  /\ cleanups' = {}
  /\ Free
  /\ UNCHANGED <<hub, enrolls, host, retired>>

Executing == todo # {} /\ ~waiting /\ result = NoResult

\* Executions end and cleanups begin when they have to, and a request times out.
Tick ==
  /\ Executing => busy < ExecTime
  /\ result # NoResult => result.age < PostTimeout
  /\ \A c \in cleanups : c.left > 0
  /\ tasks' = [t \in Tasks |->
       IF tasks[t].status = "running" /\ tasks[t].age < LeaseTimeout
       THEN [tasks[t] EXCEPT !.age = @ + 1] ELSE tasks[t]]
  /\ busy' = IF Executing THEN busy + 1 ELSE busy
  /\ result' = IF result = NoResult THEN result
                                    ELSE [result EXCEPT !.age = @ + 1]
  /\ cleanups' = {[c EXCEPT !.left = @ - 1] : c \in cleanups}
  /\ host' = IF 0 < forgotten /\ forgotten < host.enrolled /\ host.age < Grown
             THEN [host EXCEPT !.age = @ + 1] ELSE host
  /\ UNCHANGED <<registered, removing, forgotten, enrolls, by, todo, waiting,
                 retired, reboots>>

-------------------------------------------------------------------------------
(* Specification *)

Agent ==
  \/ Poll \/ Post \/ PostFails
  \/ \E t \in Tasks : Execute(t) \/ ExecuteOther(t)
Clean == \E c \in cleanups : Cleanup(c)

Next ==
  \/ \E t \in Tasks, confirmed \in BOOLEAN : Command(t, confirmed)
  \/ RemoveAgent \/ CancelTasks \/ Enroll \/ SetPolicy \/ RestartAgent
  \/ \E t \in Tasks : Recover(t)
  \/ Agent \/ Clean \/ Reboot \/ Tick

Spec == Init /\ [][Next]_vars

\* Time passes, the agent goes on, and the service manager starts what is due.
FairSpec == Spec /\ WF_vars(Tick) /\ WF_vars(Agent) /\ WF_vars(Clean)

-------------------------------------------------------------------------------
(* Properties *)

TypeOK ==
  /\ tasks \in [Tasks -> Task]
  /\ {registered, removing, waiting} \subseteq BOOLEAN
  /\ {forgotten, enrolls, by} \subseteq Enrolls /\ host \in Host
  /\ todo \subseteq Tasks /\ busy \in 0..ExecTime /\ result \in Result
  /\ cleanups \subseteq Cleanups
  /\ retired \in [Tasks -> [Enrolls -> Nat]]
  /\ reboots \in 0..MaxReboots

\* hubDecommissionCommand tells the operator that the agent reports first and
\* cleans up later.  An agent without systemd-run does (one that waits does not
\* report): when its cleanup starts, the post of its result is over.  The delay
\* has to outlast the agent's timeout.
ReportPrecedesCleanup ==
  \A c \in cleanups :
    c.left = 0 /\ c.by = by /\ ~host.systemd => result.task # c.task

\* However often a command is handed out - its result lost or never posted, its
\* lease run out - it is carried out at most once on an enrollment: the host is
\* gone from the Hub before the lease can run out.
RetiredOnce == \A t \in Tasks, e \in Enrolls : retired[t][e] <= 1

\* Once the tasks of a removed agent are cancelled, no enrollment that comes
\* after executes a command from before, although the host still allows it; and
\* what an older enrollment has begun, or yet begins, strikes a newcomer before
\* it has grown, or not at all.
NewcomersAreSpared ==
  \A c \in cleanups :
    tasks[c.task].old =>
      /\ c.by <= forgotten
      /\ host.enrolled > forgotten => host.age < Grown

\* A confirmed command that the operator sees done is carried out, unless the
\* machine is restarted in between.
DoneIsCarriedOut ==
  \A t \in Tasks :
    tasks[t].status = "done" /\ tasks[t].confirmed
    ~> reboots > 0 \/ \E e \in Enrolls : retired[t][e] > 0
===============================================================================
