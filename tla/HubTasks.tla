------------------------------- MODULE HubTasks -------------------------------
(***************************************************************************)
(* The Hub's task files (hub-tasks/<id>.json) and every operation that     *)
(* reads and writes them: an agent's GET of its tasks (prune, recover,     *)
(* lease), its POST of a result, the cancellation of a removed agent's     *)
(* tasks, the operator's hub-recover-tasks.                                *)
(*                                                                         *)
(* Nothing locks the files.  The HTTP server runs a goroutine per request, *)
(* and the bot daemon and the command line are processes of their own, so  *)
(* an operation is modelled as the code performs it: load a file, change   *)
(* the copy in memory, write the copy back.  A worker is one goroutine or  *)
(* process; with one worker the operations are serialised, with two they   *)
(* overlap in every way.                                                   *)
(*                                                                         *)
(* Timestamps are abstracted to ages: f.age is the time since leased_at    *)
(* while f is running and since completed_at (cancelled_at) once it is     *)
(* completed, counted up to MaxAge, past every threshold.                  *)
(***************************************************************************)
EXTENDS Integers, FiniteSets

CONSTANTS
  Workers,         \* goroutines and processes working on the task files
  Agents,
  NoAgent,         \* "no agent": the caller of an operator's command
  Tasks,           \* task ids
  NoTask,
  Owner,           \* [Tasks -> Agents], agent_id of each task
  Exports,         \* the tasks with command export_endpoint ...
  Binds,           \* ... and the bind_endpoint tasks queued from their results
  MaxLeases,       \* defaultTaskMaxLeaseCount
  LeaseTimeout,    \* defaultTaskLeaseTimeoutSeconds
  CliMaxLeases,    \* hub-recover-tasks --max-lease-count
  CliLeaseTimeout, \* hub-recover-tasks --lease-timeout-seconds
  Limit,           \* tasks leased per poll (?limit=)
  Retention,       \* defaultTaskRetentionSeconds
  MaxCompleted,    \* defaultMaxCompletedHubTasks
  PruneInterval,   \* defaultTaskPruneIntervalSecs
  MaxFaults        \* bound on the kills and failed writes of a behaviour

ASSUME HubTasksAssumption ==
  /\ NoAgent \notin Agents
  /\ NoTask \notin Tasks
  /\ Owner \in [Tasks -> Agents]
  /\ Exports \subseteq Tasks /\ Binds \subseteq Tasks
  /\ Exports \cap Binds = {}
  /\ {MaxLeases, CliMaxLeases, LeaseTimeout, CliLeaseTimeout,
      Limit, MaxCompleted} \subseteq Nat \ {0}
  /\ {Retention, PruneInterval, MaxFaults} \subseteq Nat

VARIABLES
  disk,       \* [Tasks -> File], the task files
  owed,       \* [Tasks -> Nat], deliveries of the task to its agent whose
              \* result the agent has still to post
  origin,     \* [Tasks -> Tasks \cup {NoTask}], the export a bind came from
  sincePrune, \* time since maybePruneHubTasks last pruned, in this process
  pc,         \* [Workers -> Labels], where each worker is
  caller,     \* [Workers -> Agents \cup {NoAgent}], whose poll it serves
  todo,       \* [Workers -> SUBSET Tasks], what its loop has still to visit
  cur,        \* [Workers -> Tasks \cup {NoTask}], the task it is writing
  got,        \* [Workers -> SUBSET Tasks], what its poll has leased so far
  copy,       \* [Workers -> [Tasks -> File]], its copies in memory
  broken,     \* how many operations a kill or a failed write has cut short
  unfollowed  \* SUBSET Tasks, the exports whose follow-up was cut short

store == <<disk, owed, origin, sincePrune>>
work  == <<pc, caller, todo, cur, got, copy>>
faults == <<broken, unfollowed>>
vars  == <<store, work, faults>>

-------------------------------------------------------------------------------
(* Task files *)

Open == {"queued", "running"}
Completed == {"done", "failed", "cancelled"}
Missing == {"none", "pruned"}       \* not yet created, deleted
Status == Open \cup Completed \cup Missing
Results == {"none", "ok", "error", "expired"}

Max2(a, b) == IF a > b THEN a ELSE b
Min2(a, b) == IF a < b THEN a ELSE b
MaxAge == Max2(Max2(LeaseTimeout, CliLeaseTimeout), Retention + 1)

File == [status: Status,
         leases: Nat,               \* lease_count
         leased: BOOLEAN,           \* leased_at is set
         age: 0..MaxAge,
         result: Results,
         followupError: BOOLEAN]    \* followup_error is set

NoFile == [status |-> "none", leases |-> 0, leased |-> FALSE, age |-> 0,
           result |-> "none", followupError |-> FALSE]
NewFile == [NoFile EXCEPT !.status = "queued"]

Exists(t) == disk[t].status \notin Missing
Listing == {t \in Tasks : Exists(t)}     \* os.ReadDir of the directory

Older(f) == IF f.status \in Completed \cup {"running"}
            THEN [f EXCEPT !.age = Min2(@ + 1, MaxAge)]
            ELSE f

\* Seeded fault: the status test of recovery is dropped.
StaleInAnyStatus(f, timeout) == f.leased /\ f.age >= timeout
Stale(f, timeout) == f.status = "running" /\ f.leased /\ f.age >= timeout

\* Seeded fault: the retry cap is compared with > instead of >=.
RecoveredOneTooMany(f, cap) ==
  IF f.leases > cap
  THEN [f EXCEPT !.status = "failed", !.age = 0, !.result = "expired"]
  ELSE [f EXCEPT !.status = "queued", !.age = 0]
\* Seeded fault: a requeued task starts counting its leases again.
RecoveredFromScratch(f, cap) ==
  IF f.leases >= cap
  THEN [f EXCEPT !.status = "failed", !.age = 0, !.result = "expired"]
  ELSE [f EXCEPT !.status = "queued", !.age = 0, !.leases = 0]

\* What the operations make of a file they have loaded.
Recovered(f, cap) ==
  IF f.leases >= cap
  THEN [f EXCEPT !.status = "failed", !.age = 0, !.result = "expired"]
  ELSE [f EXCEPT !.status = "queued", !.age = 0]

\* Seeded fault: leased_at is not recorded.
LeasedUnstamped(f) == [f EXCEPT !.status = "running", !.leases = @ + 1,
                                !.age = 0]
\* Seeded fault: lease_count is set instead of incremented.
LeasedUncounted(f) == [f EXCEPT !.status = "running", !.leases = 1,
                                !.leased = TRUE, !.age = 0]
Leased(f) == [f EXCEPT !.status = "running", !.leases = @ + 1,
                       !.leased = TRUE, !.age = 0]

\* Seeded fault: an unsuccessful result completes the task as done.
FinishedAlwaysDone(f, ok) ==
  [f EXCEPT !.status = "done", !.age = 0,
            !.result = IF ok THEN "ok" ELSE "error"]
Finished(f, ok) ==
  [f EXCEPT !.status = IF ok THEN "done" ELSE "failed", !.age = 0,
            !.result = IF ok THEN "ok" ELSE "error"]

\* Seeded fault: cancellation stores a status no reader knows.
CancelledMisspelt(f) == [f EXCEPT !.status = "canceled", !.age = 0]
Cancelled(f) == [f EXCEPT !.status = "cancelled", !.age = 0]

Write(t, f) == disk' = [disk EXCEPT ![t] = f]

-------------------------------------------------------------------------------
(* Workers *)

Labels == {"idle", "prune", "recover", "recoverWrite", "lease", "leaseWrite",
           "resultWrite", "followup", "resultFinish", "cancel"}

\* Where a worker is about to write the file of the task cur[w].
Writing == {"recoverWrite", "leaseWrite", "resultWrite", "followup",
            "resultFinish"}

NoCopies == [t \in Tasks |-> NoFile]

Goto(w, label) == pc' = [pc EXCEPT ![w] = label]
Visit(w, S) == todo' = [todo EXCEPT ![w] = S]
Hold(w, t, f) == /\ cur' = [cur EXCEPT ![w] = t]
                 /\ copy' = [copy EXCEPT ![w][t] = f]
Drop(w) == /\ cur' = [cur EXCEPT ![w] = NoTask]
           /\ copy' = [copy EXCEPT ![w] = NoCopies]

\* The operation ends: it has answered, failed with an error, or died.
Release(w) == /\ Goto(w, "idle")
              /\ Visit(w, {})
              /\ Drop(w)
              /\ caller' = [caller EXCEPT ![w] = NoAgent]
              /\ got' = [got EXCEPT ![w] = {}]

\* recoverStaleHubTasks runs with the defaults when an agent polls and with
\* the operator's flags from the command line.
Timeout(w) == IF caller[w] = NoAgent THEN CliLeaseTimeout ELSE LeaseTimeout
Cap(w) == IF caller[w] = NoAgent THEN CliMaxLeases ELSE MaxLeases

Init ==
  /\ disk = [t \in Tasks |-> NoFile]
  /\ owed = [t \in Tasks |-> 0]
  /\ origin = [t \in Tasks |-> NoTask]
  /\ sincePrune = PruneInterval
  /\ pc = [w \in Workers |-> "idle"]
  /\ caller = [w \in Workers |-> NoAgent]
  /\ todo = [w \in Workers |-> {}]
  /\ cur = [w \in Workers |-> NoTask]
  /\ got = [w \in Workers |-> {}]
  /\ copy = [w \in Workers |-> NoCopies]
  /\ broken = 0 /\ unfollowed = {}

\* createHubTask: an operator's command queues a task under a fresh id.
CreateTask(t) ==
  /\ t \notin Binds
  /\ disk[t].status = "none"
  /\ Write(t, NewFile)
  /\ UNCHANGED <<owed, origin, sincePrune, work, faults>>

-------------------------------------------------------------------------------
(* GET /api/agents/<a>/tasks: prune, recover, lease *)

\* What pruneHubTasks deletes: completed tasks past the retention, and of the
\* others all but the MaxCompleted most recently completed.
PruneVictims(victims) ==
  LET completed == {t \in Tasks : disk[t].status \in Completed}
      aged == {t \in completed : disk[t].age > Retention}
      kept == completed \ victims
  IN /\ aged \subseteq victims /\ victims \subseteq completed
     /\ Cardinality(kept) = Min2(MaxCompleted, Cardinality(completed \ aged))
     /\ \A t \in victims, u \in kept : disk[t].age >= disk[u].age

StartPoll(w, a) ==
  /\ pc[w] = "idle"
  /\ caller' = [caller EXCEPT ![w] = a]
  /\ \/ /\ sincePrune >= PruneInterval
        /\ sincePrune' = 0
        /\ \E victims \in SUBSET Tasks :
             PruneVictims(victims) /\ Visit(w, victims)
        /\ Goto(w, "prune")
     \/ /\ sincePrune < PruneInterval
        /\ Visit(w, Listing)
        /\ Goto(w, "recover")
        /\ UNCHANGED sincePrune
  /\ UNCHANGED <<disk, owed, origin, cur, got, copy, faults>>

PruneRemove(w, t) ==
  /\ pc[w] = "prune" /\ t \in todo[w]
  /\ Write(t, [NoFile EXCEPT !.status = "pruned"])
  /\ Visit(w, todo[w] \ {t})
  /\ UNCHANGED <<owed, origin, sincePrune, pc, caller, cur, got, copy, faults>>

PruneEnd(w) ==
  /\ pc[w] = "prune" /\ todo[w] = {}
  /\ Goto(w, "recover")
  /\ Visit(w, Listing)
  /\ UNCHANGED <<store, caller, cur, got, copy, faults>>

\* hub-recover-tasks
StartRecoverCommand(w) ==
  /\ pc[w] = "idle"
  /\ Goto(w, "recover")
  /\ Visit(w, Listing)
  /\ UNCHANGED <<store, caller, cur, got, copy, faults>>

\* A file deleted since the directory was listed fails the whole request:
\* what it has leased stays running and is never delivered.
LoadFails(w, t) ==
  /\ pc[w] \in {"recover", "lease"} /\ t \in todo[w] /\ ~Exists(t)
  /\ pc[w] = "lease" => Cardinality(got[w]) < Limit
  /\ Release(w)
  /\ UNCHANGED <<store, faults>>

RecoverLoad(w, t) ==
  /\ pc[w] = "recover" /\ t \in todo[w] /\ Exists(t)
  /\ Visit(w, todo[w] \ {t})
  /\ IF Stale(disk[t], Timeout(w))
     THEN Goto(w, "recoverWrite") /\ Hold(w, t, Recovered(disk[t], Cap(w)))
     ELSE UNCHANGED <<pc, cur, copy>>
  /\ UNCHANGED <<store, caller, got, faults>>

RecoverWrite(w) ==
  /\ pc[w] = "recoverWrite"
  /\ Write(cur[w], copy[w][cur[w]])
  /\ Goto(w, "recover")
  /\ Drop(w)
  /\ UNCHANGED <<owed, origin, sincePrune, caller, todo, got, faults>>

RecoverEnd(w) ==
  /\ pc[w] = "recover" /\ todo[w] = {}
  /\ IF caller[w] = NoAgent
     THEN Release(w)
     ELSE /\ Goto(w, "lease")
          /\ Visit(w, Listing)
          /\ UNCHANGED <<caller, cur, got, copy>>
  /\ UNCHANGED <<store, faults>>

LeaseLoad(w, t) ==
  /\ pc[w] = "lease" /\ t \in todo[w] /\ Exists(t)
  /\ Cardinality(got[w]) < Limit
  /\ Visit(w, todo[w] \ {t})
  /\ IF Owner[t] = caller[w] /\ disk[t].status = "queued"
     THEN Goto(w, "leaseWrite") /\ Hold(w, t, Leased(disk[t]))
     ELSE UNCHANGED <<pc, cur, copy>>
  /\ UNCHANGED <<store, caller, got, faults>>

LeaseWrite(w) ==
  /\ pc[w] = "leaseWrite"
  /\ Write(cur[w], copy[w][cur[w]])
  /\ got' = [got EXCEPT ![w] = @ \cup {cur[w]}]
  /\ Goto(w, "lease")
  /\ Drop(w)
  /\ UNCHANGED <<owed, origin, sincePrune, caller, todo, faults>>

\* The answer reaches the agent, or the agent has given up waiting for it.
LeaseReturn(w) ==
  /\ pc[w] = "lease"
  /\ todo[w] = {} \/ Cardinality(got[w]) >= Limit
  /\ \/ owed' = [t \in Tasks |-> IF t \in got[w] THEN owed[t] + 1 ELSE owed[t]]
     \/ UNCHANGED owed
  /\ Release(w)
  /\ UNCHANGED <<disk, origin, sincePrune, faults>>

-------------------------------------------------------------------------------
(* POST /api/tasks/<t>/result: completeHubTask *)

\* The only conditions on the task are that its file exists and belongs to
\* the agent that posts; its status is not looked at.
ResultLoad(w, t, ok) ==
  /\ pc[w] = "idle" /\ owed[t] > 0
  /\ owed' = [owed EXCEPT ![t] = @ - 1]
  /\ IF Exists(t)
     THEN /\ Goto(w, "resultWrite")
          /\ Hold(w, t, Finished(disk[t], ok))
          /\ caller' = [caller EXCEPT ![w] = Owner[t]]
     ELSE UNCHANGED <<pc, cur, copy, caller>>
  /\ UNCHANGED <<disk, origin, sincePrune, todo, got, faults>>

\* The file is written before anything follows from the result.
ResultWrite(w) ==
  /\ pc[w] = "resultWrite"
  /\ Write(cur[w], copy[w][cur[w]])
  /\ IF cur[w] \in Exports
     THEN /\ Goto(w, IF copy[w][cur[w]].status = "done" THEN "followup"
                                                        ELSE "resultFinish")
          /\ UNCHANGED <<caller, todo, cur, got, copy>>
     ELSE Release(w)
  /\ UNCHANGED <<owed, origin, sincePrune, faults>>

\* queueBindEndpointFromExportResult queues the bind_endpoint task ...
FollowupBind(w, b) ==
  /\ pc[w] = "followup" /\ b \in Binds
  /\ disk[b].status = "none"
  /\ Write(b, NewFile)
  /\ origin' = [origin EXCEPT ![b] = cur[w]]
  /\ Goto(w, "resultFinish")
  /\ unfollowed' = unfollowed \ {cur[w]}
  /\ UNCHANGED <<owed, sincePrune, caller, todo, cur, got, copy, broken>>

\* Seeded fault: a refused follow-up leaves no followup_error.
FollowupErrorUnsaid(w) ==
  /\ pc[w] = "followup"
  /\ Write(cur[w], copy[w][cur[w]])
  /\ Goto(w, "resultFinish")
  /\ unfollowed' = unfollowed \ {cur[w]}
  /\ UNCHANGED <<owed, origin, sincePrune, caller, todo, cur, got, copy, broken>>

\* ... or does not (no such transit, a malformed endpoint, its file cannot be
\* written) and the export says so, unless that write fails too (WriteFails).
FollowupError(w) ==
  /\ pc[w] = "followup"
  /\ copy' = [copy EXCEPT ![w][cur[w]].followupError = TRUE]
  /\ Write(cur[w], [copy[w][cur[w]] EXCEPT !.followupError = TRUE])
  /\ Goto(w, "resultFinish")
  /\ unfollowed' = unfollowed \ {cur[w]}
  /\ UNCHANGED <<owed, origin, sincePrune, caller, todo, cur, got, broken>>

\* The file is written once more, with the secrets taken out of its payload.
ResultFinish(w) ==
  /\ pc[w] = "resultFinish"
  /\ Write(cur[w], copy[w][cur[w]])
  /\ Release(w)
  /\ UNCHANGED <<owed, origin, sincePrune, faults>>

-------------------------------------------------------------------------------
(* cancelAgentTasks, called when an agent is removed *)

\* All of the agent's open tasks are loaded first ...
StartCancel(w, a) ==
  /\ pc[w] = "idle"
  /\ \E t \in Tasks : Owner[t] = a /\ disk[t].status \in Open
  /\ LET open == {t \in Tasks : Owner[t] = a /\ disk[t].status \in Open}
     IN /\ Visit(w, open)
        /\ copy' = [copy EXCEPT ![w] =
                      [t \in Tasks |-> IF t \in open THEN Cancelled(disk[t])
                                                     ELSE NoFile]]
  /\ Goto(w, "cancel")
  /\ caller' = [caller EXCEPT ![w] = a]
  /\ UNCHANGED <<store, cur, got, faults>>

\* ... and written back one after the other.
CancelWrite(w, t) ==
  /\ pc[w] = "cancel" /\ t \in todo[w]
  /\ Write(t, [copy[w][t] EXCEPT !.age = 0])
  /\ Visit(w, todo[w] \ {t})
  /\ copy' = [copy EXCEPT ![w][t] = NoFile]
  /\ UNCHANGED <<owed, origin, sincePrune, pc, caller, cur, got, faults>>

CancelEnd(w) ==
  /\ pc[w] = "cancel" /\ todo[w] = {}
  /\ Release(w)
  /\ UNCHANGED <<store, faults>>

-------------------------------------------------------------------------------
(* The environment *)

\* The agent dies, or its poll fails, with an execution still to report: the
\* result is never posted.
ForgetExecution(t) ==
  /\ owed[t] > 0
  /\ owed' = [owed EXCEPT ![t] = @ - 1]
  /\ UNCHANGED <<disk, origin, sincePrune, work, faults>>

InHub(w) == caller[w] # NoAgent /\ pc[w] # "cancel"

\* The rest of the operation is not done, the follow-up of an export included.
BreakOff(w) ==
  /\ broken < MaxFaults
  /\ broken' = broken + 1
  /\ unfollowed' = IF pc[w] = "followup" THEN unfollowed \cup {cur[w]}
                                         ELSE unfollowed
  /\ Release(w)
  /\ UNCHANGED <<disk, owed, origin>>

\* A file cannot be written (the disk is full): the operation ends with an error.
WriteFails(w) ==
  /\ \/ pc[w] \in Writing
     \/ pc[w] = "cancel" /\ todo[w] # {}
  /\ BreakOff(w)
  /\ UNCHANGED sincePrune

\* The process a worker runs in is killed; a new Hub process prunes on its
\* first poll.
Crash(w) ==
  /\ pc[w] # "idle"
  /\ BreakOff(w)
  /\ sincePrune' = IF InHub(w) THEN PruneInterval ELSE sincePrune

Fault(w) == Crash(w) \/ WriteFails(w)

Tick ==
  /\ disk' = [t \in Tasks |-> Older(disk[t])]
  /\ copy' = [w \in Workers |-> [t \in Tasks |-> Older(copy[w][t])]]
  /\ sincePrune' = Min2(sincePrune + 1, PruneInterval)
  /\ UNCHANGED <<owed, origin, pc, caller, todo, cur, got, faults>>

-------------------------------------------------------------------------------

Poll(w) ==
  \/ \E t \in Tasks : \/ PruneRemove(w, t)
                      \/ LoadFails(w, t)
                      \/ RecoverLoad(w, t)
                      \/ LeaseLoad(w, t)
  \/ PruneEnd(w) \/ RecoverWrite(w) \/ RecoverEnd(w)
  \/ LeaseWrite(w) \/ LeaseReturn(w)

Result(w) ==
  \/ ResultWrite(w)
  \/ \E b \in Tasks : FollowupBind(w, b)
  \/ FollowupError(w)
  \/ ResultFinish(w)

Cancel(w) == (\E t \in Tasks : CancelWrite(w, t)) \/ CancelEnd(w)

\* A worker goes on with the operation it has started.
Proceed(w) == Poll(w) \/ Result(w) \/ Cancel(w)

Start(w) ==
  \/ \E a \in Agents : StartPoll(w, a) \/ StartCancel(w, a)
  \/ StartRecoverCommand(w)
  \/ \E t \in Tasks, ok \in BOOLEAN : ResultLoad(w, t, ok)

Next ==
  \/ \E w \in Workers : Start(w) \/ Proceed(w) \/ Fault(w)
  \/ \E t \in Tasks : CreateTask(t) \/ ForgetExecution(t)
  \/ Tick

Spec == Init /\ [][Next]_vars

\* A started operation ends, and time passes.
FairSpec == /\ Spec
            /\ \A w \in Workers : WF_vars(Proceed(w))
            /\ WF_vars(Tick)

\* An agent that is up starts a poll again and again: the Hub has a goroutine for
\* every request (strong fairness, because here a poll waits for a free worker).
KeepsPolling(a) == SF_vars(\E w \in Workers : StartPoll(w, a))

-------------------------------------------------------------------------------
(* What holds however the operations overlap *)

TypeOK ==
  /\ disk \in [Tasks -> File]
  /\ owed \in [Tasks -> Nat]
  /\ origin \in [Tasks -> Tasks \cup {NoTask}]
  /\ sincePrune \in 0..PruneInterval
  /\ pc \in [Workers -> Labels]
  /\ caller \in [Workers -> Agents \cup {NoAgent}]
  /\ todo \in [Workers -> SUBSET Tasks]
  /\ cur \in [Workers -> Tasks \cup {NoTask}]
  /\ got \in [Workers -> SUBSET Tasks]
  /\ copy \in [Workers -> [Tasks -> File]]
  /\ broken \in Nat /\ unfollowed \subseteq Tasks
  /\ \A w \in Workers : pc[w] \in Writing => cur[w] \in Tasks

HighCap == Max2(MaxLeases, CliMaxLeases)
LowCap == Min2(MaxLeases, CliMaxLeases)

\* What is true of every file, and of every copy a worker is about to write.
WellFormed(f) ==
  /\ f.leases <= HighCap
  /\ f.status = "queued" => f.leases < HighCap
  /\ f.status = "running" => f.leased /\ f.leases > 0
  /\ f.status = "done" <=> f.result = "ok"
  /\ f.status = "failed" <=> f.result \in {"error", "expired"}
  /\ f.result = "expired" => f.leases >= LowCap

\* The inductive invariant: the files stay well formed because whatever a
\* worker has in memory, however long ago it was loaded, is well formed too.
FilesWellFormed ==
  /\ \A t \in Tasks : WellFormed(disk[t])
  /\ \A w \in Workers, t \in Tasks : WellFormed(copy[w][t])

\* The lease_count on disk never passes the retry cap, and a task in the queue
\* is always below it, so that leasing it once more cannot pass it either --
\* although recovery, leasing and results write back copies of different ages.
LeaseCap ==
  \A t \in Tasks : /\ disk[t].leases <= HighCap
                   /\ disk[t].status = "queued" => disk[t].leases < HighCap

\* A running task always carries the leased_at that recoverStaleHubTasks needs:
\* it skips a running task without one, which would stay running forever.
RunningIsRecoverable ==
  \A t \in Tasks : disk[t].status = "running" => /\ disk[t].leased
                                                 /\ disk[t].leases > 0

\* Status and result of a file tell the same story: a stored result belongs to
\* the status it is shown with, an open or cancelled task has none, and a lease
\* is only reported as expired once the attempts were used up.
ResultMatchesStatus ==
  \A t \in Tasks :
    LET f == disk[t]
    IN /\ f.status = "done" <=> f.result = "ok"
       /\ f.status = "failed" <=> f.result \in {"error", "expired"}
       /\ f.result = "expired" => f.leases >= LowCap

\* An export that shows as done has led to its bind_endpoint task, or says why
\* not, unless its follow-up was cut short: the worker was killed between the two
\* writes of completeHubTask, or could write neither the bind nor the reason.
DoneExportIsFollowed ==
  \A t \in Exports :
    /\ disk[t].status = "done"
    /\ t \notin unfollowed
    /\ ~\E w \in Workers : pc[w] = "followup" /\ cur[w] = t
    => disk[t].followupError \/ \E b \in Binds : origin[b] = t

-------------------------------------------------------------------------------
(* What holds while the operations do not overlap *)

\* With one worker the task files implement the lifecycle.
Lifecycle == INSTANCE TaskLifecycle WITH
               phase <- [t \in Tasks |-> disk[t].status],
               tries <- [t \in Tasks |-> disk[t].leases],
               MinAttempts <- LowCap, MaxAttempts <- HighCap

LifecycleSpec == Lifecycle!Spec

\* Every execution an agent still has to report is one of the leases that the
\* task's lease_count records: no execution happens behind its back.
ExecutionsAreCounted ==
  \A t \in Tasks : Exists(t) => owed[t] <= disk[t].leases

-------------------------------------------------------------------------------
(* Liveness *)

\* "Hub task recovery prevents the task from staying running forever": whoever
\* owns the task, one agent that keeps polling gets its expired lease recovered.
RunningEnds ==
  (\E a \in Agents : KeepsPolling(a)) =>
    \A t \in Tasks : disk[t].status = "running" ~> disk[t].status # "running"

\* The open tasks of an agent that keeps polling all come to an end for good.
TasksSettle ==
  \A t \in Tasks : KeepsPolling(Owner[t]) => <>[](disk[t].status \notin Open)

-------------------------------------------------------------------------------
(* What the documentation says and the code does not do *)

\* docs/PROTOCOL_CONTRACT.md: "queued -> running -> done|failed|cancelled".  A
\* completed task keeps its status until its file is deleted.
CompletedIsFinal ==
  [][\A t \in Tasks : disk[t].status \in Completed =>
       disk'[t].status \in {disk[t].status, "pruned"}]_vars

\* Only "a running task [that] exceeds the lease timeout" is moved back to
\* queued.
OnlyRunningIsRequeued ==
  [][\A t \in Tasks :
       disk'[t].status = "queued" => disk[t].status \in Open \cup {"none"}]_vars
===============================================================================
