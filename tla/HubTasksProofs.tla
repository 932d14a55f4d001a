---------------------------- MODULE HubTasksProofs ----------------------------
(***************************************************************************)
(* Theorems about the Hub's task files, for any number of agents, tasks    *)
(* and overlapping operations.                                             *)
(***************************************************************************)
EXTENDS HubTasks, TLAPS

USE DEF store, work, faults

\* The limits are numbers, and the cap a recovery runs with lies between the
\* smaller and the larger of the two caps.
LEMMA Numbers ==
  /\ MaxLeases \in Nat \ {0} /\ CliMaxLeases \in Nat \ {0}
  /\ LeaseTimeout \in Nat /\ CliLeaseTimeout \in Nat
  /\ Retention \in Nat /\ PruneInterval \in Nat /\ MaxFaults \in Nat
  /\ MaxAge \in Nat
  /\ HighCap \in Nat \ {0} /\ LowCap \in Nat \ {0}
  /\ LowCap <= HighCap
  /\ \A w \in Workers : /\ Cap(w) \in Nat \ {0}
                        /\ LowCap <= Cap(w) /\ Cap(w) <= HighCap
  BY HubTasksAssumption DEF MaxAge, HighCap, LowCap, Cap, Max2, Min2

-------------------------------------------------------------------------------
(* What the operations make of a file is a file. *)

\* The values the operations store are values of their fields.
LEMMA FieldValues ==
  /\ 0 \in 0..MaxAge /\ 0 \in Nat
  /\ \A s \in {"none", "queued", "running", "done", "failed", "cancelled",
              "pruned"} : s \in Status
  /\ \A r \in {"none", "ok", "error", "expired"} : r \in Results
  BY Numbers DEF Status, Open, Completed, Missing, Results

\* An absent, a new and a deleted file are files.
LEMMA NoFileType == /\ NoFile \in File
                    /\ NewFile \in File
                    /\ [NoFile EXCEPT !.status = "pruned"] \in File
<1>1. NoFile \in File
  BY FieldValues DEF NoFile, File
<1>2. \A s \in Status : [NoFile EXCEPT !.status = s] \in File
  BY <1>1 DEF File
<1>3. QED
  BY <1>1, <1>2, FieldValues DEF NewFile

\* Time passing keeps a file a file.
LEMMA OlderType ==
  ASSUME NEW f \in File
  PROVE  Older(f) \in File
  BY Numbers DEF Older, File, Min2

\* Recovery makes a file of a file, whatever its cap.
LEMMA RecoveredType ==
  ASSUME NEW f \in File, NEW cap
  PROVE  Recovered(f, cap) \in File
<1>1. CASE f.leases >= cap
  BY <1>1, FieldValues DEF Recovered, File
<1>2. CASE ~(f.leases >= cap)
  BY <1>2, FieldValues DEF Recovered, File
<1>3. QED
  BY <1>1, <1>2

\* Leasing makes a file of a file.
LEMMA LeasedType ==
  ASSUME NEW f \in File
  PROVE  Leased(f) \in File
<1>1. f.leases + 1 \in Nat
  BY DEF File
<1>2. "running" \in Status /\ 0 \in 0..MaxAge
  BY FieldValues
<1>3. QED
  BY <1>1, <1>2 DEF Leased, File

\* Storing a result makes a file of a file.
LEMMA FinishedType ==
  ASSUME NEW f \in File, NEW ok \in BOOLEAN
  PROVE  Finished(f, ok) \in File
<1>1. CASE ok
  BY <1>1, FieldValues DEF Finished, File
<1>2. CASE ~ok
  BY <1>2, FieldValues DEF Finished, File
<1>3. QED
  BY <1>1, <1>2

\* Cancelling makes a file of a file.
LEMMA CancelledType ==
  ASSUME NEW f \in File
  PROVE  Cancelled(f) \in File
  BY FieldValues DEF Cancelled, File

\* Adding followup_error, or stamping, makes a file of a file.
LEMMA AnnotatedType ==
  ASSUME NEW f \in File
  PROVE  /\ [f EXCEPT !.followupError = TRUE] \in File
         /\ [f EXCEPT !.age = 0] \in File
<1>1. [f EXCEPT !.followupError = TRUE] \in File
  BY DEF File
<1>2. [f EXCEPT !.age = 0] \in File
  BY FieldValues DEF File
<1>3. QED
  BY <1>1, <1>2

\* The lemmas above in one place.
LEMMA FileTypes ==
  /\ NoFile \in File /\ NewFile \in File
  /\ [NoFile EXCEPT !.status = "pruned"] \in File
  /\ NoCopies \in [Tasks -> File]
  /\ \A f \in File : /\ Older(f) \in File
                     /\ \A cap : Recovered(f, cap) \in File
                     /\ Leased(f) \in File
                     /\ \A ok \in BOOLEAN : Finished(f, ok) \in File
                     /\ Cancelled(f) \in File
                     /\ [f EXCEPT !.followupError = TRUE] \in File
                     /\ [f EXCEPT !.age = 0] \in File
  BY NoFileType, OlderType, RecoveredType, LeasedType, FinishedType,
     CancelledType, AnnotatedType DEF NoCopies

-------------------------------------------------------------------------------
(* Type correctness *)

\* The type of the workers' variables, and of the copies in particular.
WorkTypeOK ==
  /\ pc \in [Workers -> Labels]
  /\ caller \in [Workers -> Agents \cup {NoAgent}]
  /\ todo \in [Workers -> SUBSET Tasks]
  /\ cur \in [Workers -> Tasks \cup {NoTask}]
  /\ got \in [Workers -> SUBSET Tasks]
  /\ copy \in [Workers -> [Tasks -> File]]
  /\ \A w \in Workers : pc[w] \in Writing => cur[w] \in Tasks

\* A worker that ends its operation keeps the types of the workers' variables.
LEMMA ReleaseType ==
  ASSUME TypeOK, NEW w \in Workers, Release(w)
  PROVE  WorkTypeOK'
  BY FileTypes
  DEF TypeOK, WorkTypeOK, Release, Goto, Visit, Drop, Labels, Writing

\* A worker that takes a file into memory keeps the types of cur and copy.
LEMMA HoldType ==
  ASSUME TypeOK, NEW w \in Workers, NEW t \in Tasks, NEW f \in File,
         Hold(w, t, f)
  PROVE  /\ cur' \in [Workers -> Tasks \cup {NoTask}]
         /\ copy' \in [Workers -> [Tasks -> File]]
         /\ cur'[w] = t
         /\ \A v \in Workers \ {w} : cur'[v] = cur[v]
  BY DEF TypeOK, Hold

\* A worker that drops its copies keeps the types of cur and copy.
LEMMA DropType ==
  ASSUME TypeOK, NEW w \in Workers, Drop(w)
  PROVE  /\ cur' \in [Workers -> Tasks \cup {NoTask}]
         /\ copy' \in [Workers -> [Tasks -> File]]
         /\ \A v \in Workers \ {w} : cur'[v] = cur[v]
  BY FileTypes DEF TypeOK, Drop

\* Every step of a poll (prune, recover, lease) keeps the types.
LEMMA PollType ==
  ASSUME TypeOK, NEW w \in Workers, Poll(w)
  PROVE  TypeOK'
<1> USE DEF Goto, Visit, Write, Labels, Writing
<1>1. ASSUME NEW t \in Tasks, PruneRemove(w, t) PROVE TypeOK'
  BY <1>1, FileTypes DEF TypeOK, PruneRemove
<1>2. ASSUME NEW t \in Tasks, LoadFails(w, t) PROVE TypeOK'
  BY <1>2, ReleaseType DEF TypeOK, WorkTypeOK, LoadFails
<1>3. ASSUME NEW t \in Tasks, RecoverLoad(w, t) PROVE TypeOK'
  <2>1. CASE Stale(disk[t], Timeout(w))
    <3>1. Hold(w, t, Recovered(disk[t], Cap(w)))
      BY <1>3, <2>1 DEF RecoverLoad
    <3>2. Recovered(disk[t], Cap(w)) \in File
      BY FileTypes DEF TypeOK
    <3>3. /\ pc' = [pc EXCEPT ![w] = "recoverWrite"]
          /\ todo' = [todo EXCEPT ![w] = todo[w] \ {t}]
          /\ UNCHANGED <<store, caller, got, faults>>
      BY <1>3, <2>1 DEF RecoverLoad
    <3>4. /\ cur' \in [Workers -> Tasks \cup {NoTask}]
          /\ copy' \in [Workers -> [Tasks -> File]]
          /\ cur'[w] = t
          /\ \A v \in Workers \ {w} : cur'[v] = cur[v]
      BY <3>1, <3>2, HoldType
    <3>5. QED
      BY <3>3, <3>4 DEF TypeOK
  <2>2. CASE ~Stale(disk[t], Timeout(w))
    BY <1>3, <2>2 DEF TypeOK, RecoverLoad
  <2>3. QED
    BY <2>1, <2>2
<1>4. ASSUME NEW t \in Tasks, LeaseLoad(w, t) PROVE TypeOK'
  <2>1. CASE Owner[t] = caller[w] /\ disk[t].status = "queued"
    <3>1. Hold(w, t, Leased(disk[t]))
      BY <1>4, <2>1 DEF LeaseLoad
    <3>2. Leased(disk[t]) \in File
      BY FileTypes DEF TypeOK
    <3>3. /\ pc' = [pc EXCEPT ![w] = "leaseWrite"]
          /\ todo' = [todo EXCEPT ![w] = todo[w] \ {t}]
          /\ UNCHANGED <<store, caller, got, faults>>
      BY <1>4, <2>1 DEF LeaseLoad
    <3>4. /\ cur' \in [Workers -> Tasks \cup {NoTask}]
          /\ copy' \in [Workers -> [Tasks -> File]]
          /\ cur'[w] = t
          /\ \A v \in Workers \ {w} : cur'[v] = cur[v]
      BY <3>1, <3>2, HoldType
    <3>5. QED
      BY <3>3, <3>4 DEF TypeOK
  <2>2. CASE ~(Owner[t] = caller[w] /\ disk[t].status = "queued")
    BY <1>4, <2>2 DEF TypeOK, LeaseLoad
  <2>3. QED
    BY <2>1, <2>2
<1>5. CASE PruneEnd(w)
  BY <1>5 DEF TypeOK, PruneEnd, Listing
<1>6. CASE RecoverWrite(w)
  BY <1>6, DropType DEF TypeOK, RecoverWrite
<1>7. CASE RecoverEnd(w)
  <2>1. CASE caller[w] = NoAgent
    BY <1>7, <2>1, ReleaseType DEF TypeOK, WorkTypeOK, RecoverEnd
  <2>2. CASE caller[w] # NoAgent
    <3>1. /\ pc' = [pc EXCEPT ![w] = "lease"]
          /\ todo' = [todo EXCEPT ![w] = Listing]
          /\ UNCHANGED <<store, caller, cur, got, copy, faults>>
      BY <1>7, <2>2 DEF RecoverEnd
    <3>2. QED
      BY <3>1 DEF TypeOK, Listing
  <2>3. QED
    BY <2>1, <2>2
<1>8. CASE LeaseWrite(w)
  BY <1>8, DropType DEF TypeOK, LeaseWrite
<1>9. CASE LeaseReturn(w)
  <2>1. owed' \in [Tasks -> Nat]
    BY <1>9 DEF TypeOK, LeaseReturn
  <2>2. WorkTypeOK'
    BY <1>9, ReleaseType DEF LeaseReturn
  <2>3. QED
    BY <1>9, <2>1, <2>2 DEF TypeOK, WorkTypeOK, LeaseReturn
<1>10. QED
  BY <1>1, <1>2, <1>3, <1>4, <1>5, <1>6, <1>7, <1>8, <1>9 DEF Poll

\* Every step of completeHubTask after its load keeps the types.
LEMMA ResultType ==
  ASSUME TypeOK, NEW w \in Workers, Result(w)
  PROVE  TypeOK'
<1> USE DEF Goto, Visit, Write, Labels, Writing
<1>1. CASE ResultWrite(w)
  <2>1. disk' \in [Tasks -> File]
    BY <1>1 DEF TypeOK, ResultWrite
  <2>2. CASE cur[w] \in Exports
    BY <1>1, <2>1, <2>2, SMTT(30) DEF TypeOK, ResultWrite
  <2>3. CASE cur[w] \notin Exports
    BY <1>1, <2>1, <2>3, ReleaseType DEF TypeOK, WorkTypeOK, ResultWrite
  <2>4. QED
    BY <2>2, <2>3
<1>2. ASSUME NEW b \in Tasks, FollowupBind(w, b) PROVE TypeOK'
  BY <1>2, FileTypes DEF TypeOK, FollowupBind
<1>3. CASE FollowupError(w)
  <2>1. [copy[w][cur[w]] EXCEPT !.followupError = TRUE] \in File
    BY <1>3, FileTypes DEF TypeOK, FollowupError
  <2>2. copy' = [copy EXCEPT ![w] = [copy[w] EXCEPT ![cur[w]] =
                   [copy[w][cur[w]] EXCEPT !.followupError = TRUE]]]
    BY <1>3 DEF FollowupError
  <2>3. disk' \in [Tasks -> File] /\ copy' \in [Workers -> [Tasks -> File]]
    BY <1>3, <2>1, <2>2 DEF TypeOK, FollowupError
  <2>4. QED
    BY <1>3, <2>3 DEF TypeOK, FollowupError
<1>4. CASE ResultFinish(w)
  <2>1. disk' \in [Tasks -> File]
    BY <1>4 DEF TypeOK, ResultFinish
  <2>2. QED
    BY <1>4, <2>1, ReleaseType DEF TypeOK, WorkTypeOK, ResultFinish
<1>5. QED
  BY <1>1, <1>2, <1>3, <1>4 DEF Result

\* Every step of cancelAgentTasks after its load keeps the types.
LEMMA CancelType ==
  ASSUME TypeOK, NEW w \in Workers, Cancel(w)
  PROVE  TypeOK'
<1> USE DEF Goto, Visit, Write, Labels, Writing
<1>1. ASSUME NEW t \in Tasks, CancelWrite(w, t) PROVE TypeOK'
  <2>1. [copy[w][t] EXCEPT !.age = 0] \in File
    BY FileTypes DEF TypeOK
  <2>2. disk' \in [Tasks -> File]
    BY <1>1, <2>1 DEF TypeOK, CancelWrite
  <2>3. copy' = [copy EXCEPT ![w] = [copy[w] EXCEPT ![t] = NoFile]]
    BY <1>1 DEF CancelWrite
  <2>4. copy' \in [Workers -> [Tasks -> File]]
    BY <2>3, FileTypes DEF TypeOK
  <2>5. QED
    BY <1>1, <2>2, <2>4 DEF TypeOK, CancelWrite
<1>2. CASE CancelEnd(w)
  BY <1>2, ReleaseType DEF TypeOK, WorkTypeOK, CancelEnd
<1>3. QED
  BY <1>1, <1>2 DEF Cancel

\* Starting an operation keeps the types.
LEMMA StartType ==
  ASSUME TypeOK, NEW w \in Workers, Start(w)
  PROVE  TypeOK'
<1> USE DEF Goto, Visit, Write, Labels, Writing
<1>1. ASSUME NEW a \in Agents, StartPoll(w, a) PROVE TypeOK'
  <2>1. \E S \in SUBSET Tasks, l \in {"prune", "recover"} :
          todo' = [todo EXCEPT ![w] = S] /\ pc' = [pc EXCEPT ![w] = l]
    BY <1>1, Listing \in SUBSET Tasks DEF StartPoll, Listing
  <2>2. /\ todo' \in [Workers -> SUBSET Tasks]
        /\ pc' \in [Workers -> Labels]
        /\ \A v \in Workers : pc'[v] \in Writing => pc[v] \in Writing
    BY <2>1 DEF TypeOK
  <2>3. sincePrune' \in 0..PruneInterval
    BY <1>1, Numbers DEF TypeOK, StartPoll
  <2>4. /\ caller' \in [Workers -> Agents \cup {NoAgent}]
        /\ UNCHANGED <<disk, owed, origin, cur, got, copy, faults>>
    BY <1>1 DEF TypeOK, StartPoll
  <2>5. QED
    BY <2>2, <2>3, <2>4 DEF TypeOK
<1>2. ASSUME NEW a \in Agents, StartCancel(w, a) PROVE TypeOK'
  <2> DEFINE open == {t \in Tasks : Owner[t] = a /\ disk[t].status \in Open}
             copies == [t \in Tasks |-> IF t \in open THEN Cancelled(disk[t])
                                                      ELSE NoFile]
  <2>1. copies \in [Tasks -> File]
    BY FileTypes DEF TypeOK
  <2>2. /\ todo' = [todo EXCEPT ![w] = open]
        /\ copy' = [copy EXCEPT ![w] = copies]
        /\ pc' = [pc EXCEPT ![w] = "cancel"]
        /\ caller' = [caller EXCEPT ![w] = a]
        /\ UNCHANGED <<store, cur, got, faults>>
    BY <1>2 DEF StartCancel
  <2>3. open \subseteq Tasks
    OBVIOUS
  <2> HIDE DEF open, copies
  <2>4. QED
    BY <2>1, <2>2, <2>3 DEF TypeOK
<1>3. CASE StartRecoverCommand(w)
  BY <1>3 DEF TypeOK, StartRecoverCommand, Listing
<1>4. ASSUME NEW t \in Tasks, NEW ok \in BOOLEAN, ResultLoad(w, t, ok)
      PROVE  TypeOK'
  <2>1. owed' \in [Tasks -> Nat]
    BY <1>4 DEF TypeOK, ResultLoad
  <2>2. CASE Exists(t)
    <3>1. /\ pc' = [pc EXCEPT ![w] = "resultWrite"]
          /\ caller' = [caller EXCEPT ![w] = Owner[t]]
          /\ Hold(w, t, Finished(disk[t], ok))
          /\ UNCHANGED <<disk, origin, sincePrune, todo, got, faults>>
      BY <1>4, <2>2 DEF ResultLoad
    <3>2. Finished(disk[t], ok) \in File
      BY FileTypes DEF TypeOK
    <3>3. /\ cur' \in [Workers -> Tasks \cup {NoTask}]
          /\ copy' \in [Workers -> [Tasks -> File]]
          /\ cur'[w] = t
          /\ \A v \in Workers \ {w} : cur'[v] = cur[v]
      BY <3>1, <3>2, HoldType
    <3>4. Owner[t] \in Agents
      BY HubTasksAssumption
    <3>5. QED
      BY <2>1, <3>1, <3>3, <3>4 DEF TypeOK
  <2>3. CASE ~Exists(t)
    BY <1>4, <2>1, <2>3 DEF TypeOK, ResultLoad
  <2>4. QED
    BY <2>2, <2>3
<1>5. QED
  BY <1>1, <1>2, <1>3, <1>4 DEF Start

\* Queueing a task, forgetting an execution, a crash and time keep the types.
LEMMA EnvironmentType ==
  ASSUME TypeOK
  PROVE  /\ \A t \in Tasks : CreateTask(t) \/ ForgetExecution(t) => TypeOK'
         /\ \A w \in Workers : Fault(w) => TypeOK'
         /\ Tick => TypeOK'
         /\ UNCHANGED vars => TypeOK'
<1>1. ASSUME NEW t \in Tasks, CreateTask(t) PROVE TypeOK'
  BY <1>1, FileTypes DEF TypeOK, CreateTask, Write
<1>2. ASSUME NEW t \in Tasks, ForgetExecution(t) PROVE TypeOK'
  BY <1>2 DEF TypeOK, ForgetExecution
<1>3. ASSUME NEW w \in Workers, Fault(w) PROVE TypeOK'
  <2>1. WorkTypeOK'
    BY <1>3, ReleaseType DEF Fault, Crash, WriteFails, BreakOff
  <2>2. /\ sincePrune' \in 0..PruneInterval /\ broken' \in Nat
        /\ unfollowed' \subseteq Tasks
    BY <1>3, Numbers DEF TypeOK, Writing, Fault, Crash, WriteFails, BreakOff
  <2>3. QED
    BY <1>3, <2>1, <2>2 DEF TypeOK, WorkTypeOK, Fault, Crash, WriteFails, BreakOff
<1>4. ASSUME Tick PROVE TypeOK'
  <2>1. disk' \in [Tasks -> File] /\ copy' \in [Workers -> [Tasks -> File]]
    BY <1>4, FileTypes DEF TypeOK, Tick
  <2>2. sincePrune' \in 0..PruneInterval
    BY <1>4, Numbers DEF TypeOK, Tick, Min2
  <2>3. QED
    BY <1>4, <2>1, <2>2 DEF TypeOK, Tick
<1>5. ASSUME UNCHANGED vars PROVE TypeOK'
  BY <1>5 DEF TypeOK, vars
<1>6. QED
  BY <1>1, <1>2, <1>3, <1>4, <1>5

\* The types hold at the start.
LEMMA InitType == Init => TypeOK
  BY FileTypes, Numbers
  DEF Init, TypeOK, Labels, Writing

\* Every step keeps the types.
LEMMA NextType == TypeOK /\ [Next]_vars => TypeOK'
  BY PollType, ResultType, CancelType, StartType, EnvironmentType
  DEF Next, Proceed

\* Whatever the operations interleave, every file and every copy keeps its
\* shape, and a worker about to write holds the task it writes.
THEOREM TypeCorrect == Spec => []TypeOK
  BY InitType, NextType, PTL DEF Spec

-------------------------------------------------------------------------------
(* The files stay well formed *)

\* An absent, a new and a deleted file are well formed.
LEMMA PlainWellFormed == /\ WellFormed(NoFile)
                         /\ WellFormed(NewFile)
                         /\ WellFormed([NoFile EXCEPT !.status = "pruned"])
  BY Numbers DEF WellFormed, NoFile, NewFile

\* The age of a file does not matter to well-formedness.
LEMMA OlderWellFormed ==
  ASSUME NEW f \in File, WellFormed(f)
  PROVE  WellFormed(Older(f))
<1>1. \A n : WellFormed([f EXCEPT !.age = n])
  BY DEF WellFormed, File
<1>2. QED
  BY <1>1 DEF Older

\* Recovering a running file keeps it well formed: it fails only at its cap,
\* and is requeued only below it.
LEMMA RecoveredWellFormed ==
  ASSUME NEW f \in File, WellFormed(f), f.status = "running",
         NEW cap \in Nat, LowCap <= cap, cap <= HighCap
  PROVE  WellFormed(Recovered(f, cap))
<1>1. /\ f.leases \in Nat /\ f.leases <= HighCap
      /\ f.result \notin {"ok", "error", "expired"}
  BY DEF WellFormed, File
<1>2. CASE f.leases >= cap
  <2>1. Recovered(f, cap) =
          [f EXCEPT !.status = "failed", !.age = 0, !.result = "expired"]
    BY <1>2 DEF Recovered
  <2>2. f.leases >= LowCap
    BY <1>1, <1>2, Numbers
  <2>3. QED
    BY <1>1, <2>1, <2>2 DEF WellFormed, File
<1>3. CASE f.leases < cap
  <2>1. Recovered(f, cap) = [f EXCEPT !.status = "queued", !.age = 0]
    BY <1>1, <1>3 DEF Recovered
  <2>2. f.leases < HighCap
    BY <1>1, <1>3, Numbers
  <2>3. QED
    BY <1>1, <2>1, <2>2 DEF WellFormed, File
<1>4. QED
  BY <1>1, <1>2, <1>3

\* Leasing a queued file stays within the cap, because a queued file is below.
LEMMA LeasedWellFormed ==
  ASSUME NEW f \in File, WellFormed(f), f.status = "queued"
  PROVE  WellFormed(Leased(f))
<1>1. /\ f.leases \in Nat /\ f.leases < HighCap
      /\ f.result \notin {"ok", "error", "expired"}
  BY DEF WellFormed, File
<1>2. f.leases + 1 <= HighCap /\ f.leases + 1 > 0
  BY <1>1, Numbers
<1>3. QED
  BY <1>1, <1>2 DEF WellFormed, Leased, File

\* Storing a result keeps a file well formed whatever its status was.
LEMMA FinishedWellFormed ==
  ASSUME NEW f \in File, WellFormed(f), NEW ok \in BOOLEAN
  PROVE  WellFormed(Finished(f, ok))
<1>1. CASE ok
  BY <1>1 DEF WellFormed, Finished, File
<1>2. CASE ~ok
  BY <1>2 DEF WellFormed, Finished, File
<1>3. QED
  BY <1>1, <1>2

\* Cancelling an open file keeps it well formed: it has no result yet.
LEMMA CancelledWellFormed ==
  ASSUME NEW f \in File, WellFormed(f), f.status \in Open
  PROVE  WellFormed(Cancelled(f))
  BY DEF WellFormed, Cancelled, File, Open

\* followup_error and the age play no part in well-formedness.
LEMMA AnnotatedWellFormed ==
  ASSUME NEW f \in File, WellFormed(f)
  PROVE  /\ WellFormed([f EXCEPT !.followupError = TRUE])
         /\ WellFormed([f EXCEPT !.age = 0])
  BY DEF WellFormed, File

\* The lemmas above in one place.
LEMMA WellFormedSteps ==
  ASSUME NEW f \in File, WellFormed(f)
  PROVE  /\ WellFormed(Older(f))
         /\ f.status = "running" =>
              \A w \in Workers : WellFormed(Recovered(f, Cap(w)))
         /\ f.status = "queued" => WellFormed(Leased(f))
         /\ \A ok \in BOOLEAN : WellFormed(Finished(f, ok))
         /\ f.status \in Open => WellFormed(Cancelled(f))
         /\ WellFormed([f EXCEPT !.followupError = TRUE])
         /\ WellFormed([f EXCEPT !.age = 0])
<1>1. ASSUME NEW w \in Workers, f.status = "running"
      PROVE  WellFormed(Recovered(f, Cap(w)))
  BY <1>1, Numbers, RecoveredWellFormed
<1>2. QED
  BY <1>1, OlderWellFormed, LeasedWellFormed, FinishedWellFormed,
     CancelledWellFormed, AnnotatedWellFormed

\* Writing a well-formed file keeps all files well formed.
LEMMA WriteWellFormed ==
  ASSUME TypeOK, FilesWellFormed, NEW t \in Tasks, NEW f, WellFormed(f),
         Write(t, f)
  PROVE  \A u \in Tasks : WellFormed(disk'[u])
  BY DEF TypeOK, FilesWellFormed, Write

\* Taking a well-formed file into memory keeps all copies well formed.
LEMMA HoldWellFormed ==
  ASSUME TypeOK, FilesWellFormed, NEW w \in Workers, NEW t \in Tasks,
         NEW f, WellFormed(f), copy' = [copy EXCEPT ![w][t] = f]
  PROVE  \A v \in Workers, u \in Tasks : WellFormed(copy'[v][u])
<1>1. copy' = [copy EXCEPT ![w] = [copy[w] EXCEPT ![t] = f]]
  OBVIOUS
<1>2. copy \in [Workers -> [Tasks -> File]]
  BY DEF TypeOK
<1>3. \A v \in Workers, u \in Tasks :
        copy'[v][u] = IF v = w /\ u = t THEN f ELSE copy[v][u]
  BY <1>1, <1>2
<1>4. QED
  BY <1>3 DEF FilesWellFormed

\* Dropping its copies keeps all copies well formed.
LEMMA DropWellFormed ==
  ASSUME TypeOK, FilesWellFormed, NEW w \in Workers, Drop(w)
  PROVE  \A v \in Workers, u \in Tasks : WellFormed(copy'[v][u])
<1>1. \A v \in Workers : copy'[v] = IF v = w THEN NoCopies ELSE copy[v]
  BY DEF TypeOK, Drop
<1>2. \A u \in Tasks : NoCopies[u] = NoFile
  BY DEF NoCopies
<1>3. QED
  BY <1>1, <1>2, PlainWellFormed DEF FilesWellFormed

\* What a worker about to write has in its hands is a well-formed file.
LEMMA HeldWellFormed ==
  ASSUME TypeOK, FilesWellFormed, NEW w \in Workers, pc[w] \in Writing
  PROVE  /\ cur[w] \in Tasks
         /\ copy[w][cur[w]] \in File
         /\ WellFormed(copy[w][cur[w]])
  BY DEF TypeOK, FilesWellFormed

\* Every step of a poll keeps files and copies well formed.
LEMMA PollWellFormed ==
  ASSUME TypeOK, FilesWellFormed, NEW w \in Workers, Poll(w)
  PROVE  FilesWellFormed'
<1> DEFINE Disk == \A t \in Tasks : WellFormed(disk[t])
           Copies == \A v \in Workers, t \in Tasks : WellFormed(copy[v][t])
<1>a. Disk /\ Copies
  BY DEF FilesWellFormed
<1>b. (Disk' /\ Copies') => FilesWellFormed'
  BY DEF FilesWellFormed
<1>c. UNCHANGED disk => Disk'
  BY <1>a
<1>d. UNCHANGED copy => Copies'
  BY <1>a
<1>e. Drop(w) => Copies'
  BY DropWellFormed
<1>f. ASSUME NEW t \in Tasks PROVE disk[t] \in File /\ WellFormed(disk[t])
  BY DEF TypeOK, FilesWellFormed
<1> HIDE DEF Disk, Copies
<1>1. ASSUME NEW t \in Tasks, PruneRemove(w, t) PROVE FilesWellFormed'
  <2>1. Disk'
    BY <1>1, WriteWellFormed, PlainWellFormed DEF PruneRemove, Disk
  <2>2. QED
    BY <1>1, <1>b, <1>d, <2>1 DEF PruneRemove
<1>2. ASSUME NEW t \in Tasks, LoadFails(w, t) PROVE FilesWellFormed'
  BY <1>2, <1>b, <1>c, <1>e DEF LoadFails, Release
<1>3. ASSUME NEW t \in Tasks, RecoverLoad(w, t) PROVE FilesWellFormed'
  <2>1. CASE Stale(disk[t], Timeout(w))
    <3>1. WellFormed(Recovered(disk[t], Cap(w)))
      BY <1>f, <2>1, WellFormedSteps DEF Stale
    <3>2. Copies'
      BY <1>3, <2>1, <3>1, HoldWellFormed DEF RecoverLoad, Hold, Copies
    <3>3. QED
      BY <1>3, <1>b, <1>c, <3>2 DEF RecoverLoad
  <2>2. CASE ~Stale(disk[t], Timeout(w))
    BY <1>3, <1>b, <1>c, <1>d, <2>2 DEF RecoverLoad
  <2>3. QED
    BY <2>1, <2>2
<1>4. ASSUME NEW t \in Tasks, LeaseLoad(w, t) PROVE FilesWellFormed'
  <2>1. CASE Owner[t] = caller[w] /\ disk[t].status = "queued"
    <3>1. WellFormed(Leased(disk[t]))
      BY <1>f, <2>1, WellFormedSteps
    <3>2. Copies'
      BY <1>4, <2>1, <3>1, HoldWellFormed DEF LeaseLoad, Hold, Copies
    <3>3. QED
      BY <1>4, <1>b, <1>c, <3>2 DEF LeaseLoad
  <2>2. CASE ~(Owner[t] = caller[w] /\ disk[t].status = "queued")
    BY <1>4, <1>b, <1>c, <1>d, <2>2 DEF LeaseLoad
  <2>3. QED
    BY <2>1, <2>2
<1>5. CASE PruneEnd(w)
  BY <1>5, <1>b, <1>c, <1>d DEF PruneEnd
<1>6. CASE RecoverWrite(w)
  <2>1. Disk'
    BY <1>6, HeldWellFormed, WriteWellFormed DEF RecoverWrite, Writing, Disk
  <2>2. QED
    BY <1>6, <1>b, <1>e, <2>1 DEF RecoverWrite
<1>7. CASE RecoverEnd(w)
  BY <1>7, <1>b, <1>c, <1>d, <1>e DEF RecoverEnd, Release
<1>8. CASE LeaseWrite(w)
  <2>1. Disk'
    BY <1>8, HeldWellFormed, WriteWellFormed DEF LeaseWrite, Writing, Disk
  <2>2. QED
    BY <1>8, <1>b, <1>e, <2>1 DEF LeaseWrite
<1>9. CASE LeaseReturn(w)
  BY <1>9, <1>b, <1>c, <1>e DEF LeaseReturn, Release
<1>10. QED
  BY <1>1, <1>2, <1>3, <1>4, <1>5, <1>6, <1>7, <1>8, <1>9 DEF Poll

\* Every step of completeHubTask after its load keeps them well formed.
LEMMA ResultWellFormed ==
  ASSUME TypeOK, FilesWellFormed, NEW w \in Workers, Result(w)
  PROVE  FilesWellFormed'
<1> DEFINE Disk == \A t \in Tasks : WellFormed(disk[t])
           Copies == \A v \in Workers, t \in Tasks : WellFormed(copy[v][t])
<1>a. UNCHANGED copy => Copies'
  BY DEF FilesWellFormed
<1>b. Drop(w) => Copies'
  BY DropWellFormed
<1>c. (Disk' /\ Copies') => FilesWellFormed'
  BY DEF FilesWellFormed
<1> HIDE DEF Disk, Copies
<1>1. CASE ResultWrite(w)
  <2>1. Disk'
    BY <1>1, HeldWellFormed, WriteWellFormed DEF ResultWrite, Writing, Disk
  <2>2. Copies'
    BY <1>1, <1>a, <1>b DEF ResultWrite, Release
  <2>3. QED
    BY <1>c, <2>1, <2>2
<1>2. ASSUME NEW b \in Tasks, FollowupBind(w, b) PROVE FilesWellFormed'
  <2>1. Disk'
    BY <1>2, WriteWellFormed, PlainWellFormed DEF FollowupBind, Disk
  <2>2. QED
    BY <1>2, <1>a, <1>c, <2>1 DEF FollowupBind
<1>3. CASE FollowupError(w)
  <2> DEFINE g == [copy[w][cur[w]] EXCEPT !.followupError = TRUE]
  <2>1. /\ Write(cur[w], g)
        /\ copy' = [copy EXCEPT ![w][cur[w]] = g]
        /\ pc[w] \in Writing
    BY <1>3 DEF FollowupError, Writing
  <2>2. cur[w] \in Tasks /\ WellFormed(g)
    BY <2>1, HeldWellFormed, WellFormedSteps
  <2> HIDE DEF g
  <2>3. Disk'
    BY <2>1, <2>2, WriteWellFormed DEF Disk
  <2>4. Copies'
    BY <2>1, <2>2, HoldWellFormed DEF Copies
  <2>5. QED
    BY <1>c, <2>3, <2>4
<1>4. CASE ResultFinish(w)
  <2>1. Disk'
    BY <1>4, HeldWellFormed, WriteWellFormed DEF ResultFinish, Writing, Disk
  <2>2. QED
    BY <1>4, <1>b, <1>c, <2>1 DEF ResultFinish, Release
<1>5. QED
  BY <1>1, <1>2, <1>3, <1>4 DEF Result

\* Every step of cancelAgentTasks after its load keeps them well formed.
LEMMA CancelWellFormed ==
  ASSUME TypeOK, FilesWellFormed, NEW w \in Workers, Cancel(w)
  PROVE  FilesWellFormed'
<1>1. ASSUME NEW t \in Tasks, CancelWrite(w, t) PROVE FilesWellFormed'
  <2> DEFINE g == [copy[w][t] EXCEPT !.age = 0]
  <2>1. WellFormed(g)
    BY WellFormedSteps DEF TypeOK, FilesWellFormed
  <2>2. /\ Write(t, g)
        /\ copy' = [copy EXCEPT ![w][t] = NoFile]
    BY <1>1 DEF CancelWrite
  <2> HIDE DEF g
  <2>3. \A u \in Tasks : WellFormed(disk'[u])
    BY <2>1, <2>2, WriteWellFormed
  <2>4. \A v \in Workers, u \in Tasks : WellFormed(copy'[v][u])
    BY <2>2, HoldWellFormed, PlainWellFormed
  <2>5. QED
    BY <2>3, <2>4 DEF FilesWellFormed
<1>2. CASE CancelEnd(w)
  <2>1. Drop(w) /\ UNCHANGED disk
    BY <1>2 DEF CancelEnd, Release
  <2>2. QED
    BY <2>1, DropWellFormed DEF FilesWellFormed
<1>3. QED
  BY <1>1, <1>2 DEF Cancel

\* Starting an operation keeps them well formed.
LEMMA StartWellFormed ==
  ASSUME TypeOK, FilesWellFormed, NEW w \in Workers, Start(w)
  PROVE  FilesWellFormed'
<1>1. ASSUME NEW a \in Agents, StartPoll(w, a) PROVE FilesWellFormed'
  BY <1>1 DEF StartPoll, FilesWellFormed
<1>2. ASSUME NEW a \in Agents, StartCancel(w, a) PROVE FilesWellFormed'
  <2> DEFINE open == {t \in Tasks : Owner[t] = a /\ disk[t].status \in Open}
             copies == [t \in Tasks |-> IF t \in open THEN Cancelled(disk[t])
                                                      ELSE NoFile]
  <2>1. \A t \in Tasks : WellFormed(copies[t])
    BY WellFormedSteps, PlainWellFormed DEF TypeOK, FilesWellFormed
  <2>2. copy' = [copy EXCEPT ![w] = copies] /\ UNCHANGED disk
    BY <1>2 DEF StartCancel
  <2> HIDE DEF copies
  <2>3. \A v \in Workers : copy'[v] = IF v = w THEN copies ELSE copy[v]
    BY <2>2 DEF TypeOK
  <2>4. QED
    BY <2>1, <2>2, <2>3 DEF FilesWellFormed
<1>3. CASE StartRecoverCommand(w)
  BY <1>3 DEF StartRecoverCommand, FilesWellFormed
<1>4. ASSUME NEW t \in Tasks, NEW ok \in BOOLEAN, ResultLoad(w, t, ok)
      PROVE  FilesWellFormed'
  <2>1. CASE Exists(t)
    <3>1. WellFormed(Finished(disk[t], ok))
      BY WellFormedSteps DEF TypeOK, FilesWellFormed
    <3>2. copy' = [copy EXCEPT ![w][t] = Finished(disk[t], ok)]
      BY <1>4, <2>1 DEF ResultLoad, Hold
    <3>3. \A v \in Workers, u \in Tasks : WellFormed(copy'[v][u])
      BY <3>1, <3>2, HoldWellFormed
    <3>4. QED
      BY <1>4, <3>3 DEF ResultLoad, FilesWellFormed
  <2>2. CASE ~Exists(t)
    BY <1>4, <2>2 DEF ResultLoad, FilesWellFormed
  <2>3. QED
    BY <2>1, <2>2
<1>5. QED
  BY <1>1, <1>2, <1>3, <1>4 DEF Start

\* Queueing, forgetting, crashing and time keep them well formed.
LEMMA EnvironmentWellFormed ==
  ASSUME TypeOK, FilesWellFormed
  PROVE  /\ \A t \in Tasks : CreateTask(t) \/ ForgetExecution(t)
                               => FilesWellFormed'
         /\ \A w \in Workers : Fault(w) => FilesWellFormed'
         /\ Tick => FilesWellFormed'
         /\ UNCHANGED vars => FilesWellFormed'
<1>1. ASSUME NEW t \in Tasks, CreateTask(t) PROVE FilesWellFormed'
  <2>1. \A u \in Tasks : WellFormed(disk'[u])
    BY <1>1, WriteWellFormed, PlainWellFormed DEF CreateTask
  <2>2. QED
    BY <1>1, <2>1 DEF CreateTask, FilesWellFormed
<1>2. ASSUME NEW t \in Tasks, ForgetExecution(t) PROVE FilesWellFormed'
  BY <1>2 DEF ForgetExecution, FilesWellFormed
<1>3. ASSUME NEW w \in Workers, Fault(w) PROVE FilesWellFormed'
  <2>1. Drop(w) /\ UNCHANGED disk
    BY <1>3 DEF Fault, Crash, WriteFails, BreakOff, Release
  <2>2. QED
    BY <2>1, DropWellFormed DEF FilesWellFormed
<1>4. ASSUME Tick PROVE FilesWellFormed'
  <2>1. \A t \in Tasks : disk'[t] = Older(disk[t])
    BY <1>4 DEF Tick
  <2>2. \A w \in Workers, t \in Tasks : copy'[w][t] = Older(copy[w][t])
    BY <1>4 DEF Tick
  <2>3. \A f \in File : WellFormed(f) => WellFormed(Older(f))
    BY OlderWellFormed
  <2>4. /\ \A t \in Tasks : disk[t] \in File /\ WellFormed(disk[t])
        /\ \A w \in Workers, t \in Tasks :
             copy[w][t] \in File /\ WellFormed(copy[w][t])
    BY DEF TypeOK, FilesWellFormed
  <2>5. /\ \A t \in Tasks : WellFormed(disk'[t])
        /\ \A w \in Workers, t \in Tasks : WellFormed(copy'[w][t])
    BY <2>1, <2>2, <2>3, <2>4
  <2>6. QED
    BY <2>5 DEF FilesWellFormed
<1>5. ASSUME UNCHANGED vars PROVE FilesWellFormed'
  BY <1>5 DEF vars, FilesWellFormed
<1>6. QED
  BY <1>1, <1>2, <1>3, <1>4, <1>5

\* They are well formed at the start.
LEMMA InitWellFormed == Init => FilesWellFormed
  BY PlainWellFormed DEF Init, FilesWellFormed, NoCopies

\* Every step keeps them well formed.
LEMMA NextWellFormed == TypeOK /\ FilesWellFormed /\ [Next]_vars
                          => FilesWellFormed'
  BY PollWellFormed, ResultWellFormed, CancelWellFormed, StartWellFormed,
     EnvironmentWellFormed
  DEF Next, Proceed

\* Every task file, and every copy a goroutine or process holds of one however
\* long ago it was loaded, is well formed.
THEOREM FilesAreWellFormed == Spec => []FilesWellFormed
  BY InitWellFormed, NextWellFormed, TypeCorrect, PTL DEF Spec

\* recoverStaleHubTasks and leaseHubAgentTasks keep lease_count within the cap,
\* and a queued task below it, however their reads and writes interleave.
THEOREM LeasesAreCapped == Spec => []LeaseCap
<1>1. FilesWellFormed => LeaseCap
  BY DEF FilesWellFormed, WellFormed, LeaseCap
<1>2. QED
  BY <1>1, FilesAreWellFormed, PTL

\* No running task is without the leased_at that recovery looks for.
THEOREM RunningTasksAreRecoverable == Spec => []RunningIsRecoverable
<1>1. FilesWellFormed => RunningIsRecoverable
  BY DEF FilesWellFormed, WellFormed, RunningIsRecoverable
<1>2. QED
  BY <1>1, FilesAreWellFormed, PTL

\* The status completeHubTask, recovery and cancellation leave on a file agrees
\* with the result stored in it.
THEOREM ResultsMatchStatuses == Spec => []ResultMatchesStatus
<1>1. FilesWellFormed => ResultMatchesStatus
  BY DEF FilesWellFormed, WellFormed, ResultMatchesStatus
<1>2. QED
  BY <1>1, FilesAreWellFormed, PTL
-------------------------------------------------------------------------------
(* Exports that are done have been followed up *)

\* What a worker is about to write: the status its operation gives a file.
CopyReady(w) ==
  /\ pc[w] = "recoverWrite" => copy[w][cur[w]].status \in {"queued", "failed"}
  /\ pc[w] = "leaseWrite" => copy[w][cur[w]].status = "running"
  /\ pc[w] \in {"resultWrite", "followup", "resultFinish"} =>
       copy[w][cur[w]].status \in {"done", "failed"}
  /\ pc[w] = "cancel" => \A t \in todo[w] : copy[w][t].status = "cancelled"
CopiesReady == \A w \in Workers : CopyReady(w)

\* A bind task that has an origin was created.
BindsAreCreated == \A b \in Tasks : origin[b] # NoTask => disk[b].status # "none"

\* A file that says done is one a result was stored in.  The worker that did
\* follows it up before it writes the file for the second time.
Followed(t, f) == f.followupError \/ \E b \in Binds : origin[b] = t
Following ==
  /\ DoneExportIsFollowed
  /\ \A w \in Workers :
       /\ pc[w] = "resultFinish" /\ cur[w] \in Exports
       /\ copy[w][cur[w]].status = "done"
       => Followed(cur[w], copy[w][cur[w]])

\* A write changes the file it writes, and no other.
LEMMA WriteAt ==
  ASSUME TypeOK, NEW t \in Tasks, NEW f, Write(t, f)
  PROVE  disk'[t] = f /\ \A u \in Tasks \ {t} : disk'[u] = disk[u]
  BY DEF TypeOK, Write

\* A worker that takes a file into memory has it there.
LEMMA HoldAt ==
  ASSUME TypeOK, NEW w \in Workers, NEW t \in Tasks, NEW f, Hold(w, t, f)
  PROVE  cur'[w] = t /\ copy'[w][t] = f
<1>1. copy[w] \in [Tasks -> File] /\ cur \in [Workers -> Tasks \cup {NoTask}]
      /\ copy \in [Workers -> [Tasks -> File]]
  BY DEF TypeOK
<1>2. copy' = [copy EXCEPT ![w] = [copy[w] EXCEPT ![t] = f]]
  BY DEF Hold
<1>3. cur' = [cur EXCEPT ![w] = t]
  BY DEF Hold
<1>4. QED
  BY <1>1, <1>2, <1>3

\* A worker that ends its operation is idle and holds nothing.
LEMMA Released ==
  ASSUME TypeOK, NEW w \in Workers, Release(w)
  PROVE  pc'[w] = "idle" /\ todo'[w] = {} /\ got'[w] = {}
  BY DEF TypeOK, Release, Goto, Visit

\* The step of a worker leaves the others where they are.
Apart(w) ==
  \A v \in Workers \ {w} :
    /\ pc'[v] = pc[v] /\ todo'[v] = todo[v] /\ cur'[v] = cur[v]
    /\ got'[v] = got[v] /\ copy'[v] = copy[v]

LEMMA WorkersApart ==
  ASSUME TypeOK, NEW w \in Workers, Start(w) \/ Proceed(w) \/ Fault(w)
  PROVE  Apart(w)
<1> USE DEF Goto, Visit, Apart
<1>1. Release(w) => Apart(w)
  BY DEF TypeOK, Release, Drop
<1>2. CASE Start(w)
  BY <1>2 DEF TypeOK, Start, StartPoll, StartCancel, StartRecoverCommand, ResultLoad, Hold
<1>3. CASE Poll(w)
  <2>1. ASSUME NEW t \in Tasks, RecoverLoad(w, t) PROVE Apart(w)
    BY <2>1 DEF TypeOK, RecoverLoad, Hold
  <2>2. ASSUME NEW t \in Tasks, LeaseLoad(w, t) PROVE Apart(w)
    BY <2>2 DEF TypeOK, LeaseLoad, Hold
  <2>3. ASSUME NEW t \in Tasks, PruneRemove(w, t) \/ LoadFails(w, t) PROVE Apart(w)
    BY <1>1, <2>3 DEF TypeOK, PruneRemove, LoadFails
  <2>4. CASE PruneEnd(w) \/ RecoverEnd(w) \/ LeaseReturn(w)
    BY <1>1, <2>4 DEF TypeOK, PruneEnd, RecoverEnd, LeaseReturn
  <2>5. CASE RecoverWrite(w) \/ LeaseWrite(w)
    BY <2>5 DEF TypeOK, RecoverWrite, LeaseWrite, Drop
  <2>6. QED
    BY <1>3, <2>1, <2>2, <2>3, <2>4, <2>5 DEF Poll
<1>4. CASE Result(w)
  <2>1. CASE ResultWrite(w)
    BY <1>1, <2>1 DEF TypeOK, ResultWrite
  <2>2. CASE \E b \in Tasks : FollowupBind(w, b)
    BY <2>2 DEF TypeOK, FollowupBind
  <2>3. CASE FollowupError(w)
    BY <2>3 DEF TypeOK, FollowupError
  <2>4. CASE ResultFinish(w)
    BY <1>1, <2>4 DEF ResultFinish
  <2>5. QED
    BY <1>4, <2>1, <2>2, <2>3, <2>4 DEF Result
<1>5. CASE Cancel(w)
  BY <1>1, <1>5 DEF TypeOK, Cancel, CancelWrite, CancelEnd
<1>6. CASE Fault(w)
  BY <1>1, <1>6 DEF Fault, Crash, WriteFails, BreakOff
<1>7. QED
  BY <1>2, <1>3, <1>4, <1>5, <1>6 DEF Proceed

\* What a worker makes ready it makes ready for the operation it is in.
LEMMA CopyReadyStep ==
  ASSUME TypeOK, NEW w \in Workers, CopyReady(w), Start(w) \/ Proceed(w) \/ Fault(w)
  PROVE  CopyReady(w)'
<1> USE DEF Goto, Visit, CopyReady
<1>0. /\ pc \in [Workers -> Labels] /\ todo \in [Workers -> SUBSET Tasks]
      /\ disk \in [Tasks -> File] /\ copy \in [Workers -> [Tasks -> File]]
  BY DEF TypeOK
<1>1. ASSUME Release(w) PROVE CopyReady(w)'
  BY <1>1, Released
<1>2. ASSUME NEW a \in Agents, StartPoll(w, a) PROVE CopyReady(w)'
  BY <1>0, <1>2 DEF StartPoll
<1>3. ASSUME NEW a \in Agents, StartCancel(w, a) PROVE CopyReady(w)'
  <2> DEFINE open == {t \in Tasks : Owner[t] = a /\ disk[t].status \in Open}
  <2>1. /\ pc'[w] = "cancel" /\ todo'[w] = open
        /\ copy'[w] = [t \in Tasks |-> IF t \in open THEN Cancelled(disk[t]) ELSE NoFile]
    BY <1>0, <1>3 DEF StartCancel
  <2>2. \A t \in Tasks : Cancelled(disk[t]).status = "cancelled"
    BY <1>0 DEF Cancelled, File
  <2>3. QED
    BY <2>1, <2>2
<1>4. ASSUME StartRecoverCommand(w) PROVE CopyReady(w)'
  BY <1>0, <1>4 DEF StartRecoverCommand
<1>5. ASSUME NEW t \in Tasks, NEW ok \in BOOLEAN, ResultLoad(w, t, ok) PROVE CopyReady(w)'
  <2>1. CASE Exists(t)
    <3>1. pc'[w] = "resultWrite" /\ Hold(w, t, Finished(disk[t], ok))
      BY <1>0, <1>5, <2>1 DEF ResultLoad
    <3>2. Finished(disk[t], ok).status \in {"done", "failed"}
      BY <1>0 DEF Finished, File
    <3>3. QED
      BY <3>1, <3>2, HoldAt
  <2>2. CASE ~Exists(t)
    BY <1>0, <1>5, <2>2 DEF ResultLoad
  <2>3. QED
    BY <2>1, <2>2
<1>6. ASSUME NEW t \in Tasks, RecoverLoad(w, t) PROVE CopyReady(w)'
  <2>1. CASE Stale(disk[t], Timeout(w))
    <3>1. pc'[w] = "recoverWrite" /\ Hold(w, t, Recovered(disk[t], Cap(w)))
      BY <1>0, <1>6, <2>1 DEF RecoverLoad
    <3>2. Recovered(disk[t], Cap(w)).status \in {"queued", "failed"}
      BY <1>0 DEF Recovered, File
    <3>3. QED
      BY <3>1, <3>2, HoldAt
  <2>2. CASE ~Stale(disk[t], Timeout(w))
    BY <1>0, <1>6, <2>2 DEF RecoverLoad
  <2>3. QED
    BY <2>1, <2>2
<1>7. ASSUME NEW t \in Tasks, LeaseLoad(w, t) PROVE CopyReady(w)'
  <2>1. CASE Owner[t] = caller[w] /\ disk[t].status = "queued"
    <3>1. pc'[w] = "leaseWrite" /\ Hold(w, t, Leased(disk[t]))
      BY <1>0, <1>7, <2>1 DEF LeaseLoad
    <3>2. Leased(disk[t]).status = "running"
      BY <1>0 DEF Leased, File
    <3>3. QED
      BY <3>1, <3>2, HoldAt
  <2>2. CASE ~(Owner[t] = caller[w] /\ disk[t].status = "queued")
    BY <1>0, <1>7, <2>2 DEF LeaseLoad
  <2>3. QED
    BY <2>1, <2>2
<1>8. ASSUME NEW t \in Tasks, PruneRemove(w, t) \/ LoadFails(w, t) PROVE CopyReady(w)'
  BY <1>0, <1>1, <1>8 DEF PruneRemove, LoadFails
<1>9. CASE PruneEnd(w) \/ RecoverEnd(w) \/ LeaseReturn(w) \/ RecoverWrite(w) \/ LeaseWrite(w)
  BY <1>0, <1>1, <1>9 DEF PruneEnd, RecoverEnd, LeaseReturn, RecoverWrite, LeaseWrite
<1>10. CASE ResultWrite(w)
  <2>1. \/ pc'[w] \in {"followup", "resultFinish"} /\ UNCHANGED <<cur, copy>>
        \/ Release(w)
    BY <1>0, <1>10 DEF ResultWrite
  <2>2. pc[w] = "resultWrite"
    BY <1>10 DEF ResultWrite
  <2>3. QED
    BY <1>1, <2>1, <2>2
<1>11. ASSUME NEW b \in Tasks, FollowupBind(w, b) PROVE CopyReady(w)'
  BY <1>0, <1>11 DEF FollowupBind
<1>12. CASE FollowupError(w)
  <2>1. cur[w] \in Tasks /\ pc[w] = "followup"
    BY <1>12 DEF TypeOK, FollowupError, Writing
  <2>2. copy' = [copy EXCEPT ![w] = [copy[w] EXCEPT ![cur[w]] =
                   [copy[w][cur[w]] EXCEPT !.followupError = TRUE]]]
    BY <1>12 DEF FollowupError
  <2>3. copy'[w][cur[w]] = [copy[w][cur[w]] EXCEPT !.followupError = TRUE]
    BY <1>0, <2>1, <2>2
  <2>4. copy'[w][cur[w]].status = copy[w][cur[w]].status
    BY <1>0, <2>1, <2>3 DEF File
  <2>5. pc'[w] = "resultFinish" /\ cur'[w] = cur[w]
    BY <1>0, <1>12 DEF FollowupError
  <2>6. QED
    BY <2>1, <2>4, <2>5
<1>13. CASE ResultFinish(w)
  BY <1>1, <1>13 DEF ResultFinish
<1>14. ASSUME NEW t \in Tasks, CancelWrite(w, t) PROVE CopyReady(w)'
  <2>1. copy' = [copy EXCEPT ![w] = [copy[w] EXCEPT ![t] = NoFile]]
    BY <1>14 DEF CancelWrite
  <2>2. \A u \in Tasks \ {t} : copy'[w][u] = copy[w][u]
    BY <1>0, <2>1
  <2>3. /\ pc[w] = "cancel" /\ pc' = pc
        /\ todo'[w] = todo[w] \ {t} /\ todo'[w] \subseteq Tasks
    BY <1>0, <1>14 DEF CancelWrite
  <2>4. QED
    BY <2>2, <2>3
<1>15. CASE CancelEnd(w)
  BY <1>1, <1>15 DEF CancelEnd
<1>16. CASE Fault(w)
  BY <1>1, <1>16 DEF Fault, Crash, WriteFails, BreakOff
<1>17. QED
  BY <1>2, <1>3, <1>4, <1>5, <1>6, <1>7, <1>8, <1>9, <1>10, <1>11, <1>12, <1>13, <1>14,
     <1>15, <1>16 DEF Start, Proceed, Poll, Result, Cancel

\* Every step keeps the copies ready to be written.
LEMMA CopiesReadyStep ==
  ASSUME TypeOK, CopiesReady, [Next]_vars
  PROVE  CopiesReady'
<1> USE DEF CopiesReady
<1>1. ASSUME NEW w \in Workers, Start(w) \/ Proceed(w) \/ Fault(w) PROVE CopiesReady'
  <2>1. CopyReady(w)'
    BY <1>1, CopyReadyStep
  <2>2. \A v \in Workers \ {w} : CopyReady(v)'
    BY <1>1, WorkersApart DEF Apart, CopyReady
  <2>3. QED
    BY <2>1, <2>2
<1>2. CASE Tick
  <2>1. \A w \in Workers, t \in Tasks : copy'[w][t].status = copy[w][t].status
    BY <1>2 DEF Tick, Older, TypeOK, File
  <2>2. \A w \in Workers : pc[w] \in Writing => cur[w] \in Tasks
    BY DEF TypeOK
  <2>3. todo \in [Workers -> SUBSET Tasks] /\ UNCHANGED <<pc, cur, todo>>
    BY <1>2 DEF TypeOK, Tick
  <2>4. QED
    BY <2>1, <2>2, <2>3 DEF CopyReady, Writing
<1>3. CASE \E t \in Tasks : CreateTask(t) \/ ForgetExecution(t)
  BY <1>3 DEF CreateTask, ForgetExecution, CopyReady
<1>4. CASE UNCHANGED vars
  BY <1>4 DEF vars, CopyReady
<1>5. QED
  BY <1>1, <1>2, <1>3, <1>4 DEF Next

\* The steps of a worker that write a file: which one, and what they make of it.
Rewrites(w, t) ==
  \/ PruneRemove(w, t)
  \/ (RecoverWrite(w) \/ LeaseWrite(w) \/ ResultWrite(w) \/ ResultFinish(w)) /\ t = cur[w]
  \/ CancelWrite(w, t)
\* All other steps of a worker but those of a follow-up leave the files alone.
LEMMA StepsByDisk ==
  ASSUME TypeOK, NEW w \in Workers, Start(w) \/ Proceed(w) \/ Fault(w)
  PROVE  \/ UNCHANGED <<disk, origin>>
         \/ \E t \in Tasks : Rewrites(w, t) /\ UNCHANGED origin
         \/ \E b \in Tasks : FollowupBind(w, b)
         \/ FollowupError(w)
<1>1. CASE Start(w)
  BY <1>1 DEF Start, StartPoll, StartCancel, StartRecoverCommand, ResultLoad
<1>2. CASE Poll(w)
  <2>1. CASE RecoverWrite(w) \/ LeaseWrite(w)
    BY <2>1 DEF TypeOK, Writing, RecoverWrite, LeaseWrite, Rewrites
  <2>2. CASE \E t \in Tasks : PruneRemove(w, t)
    BY <2>2 DEF PruneRemove, Rewrites
  <2>3. CASE \E t \in Tasks : LoadFails(w, t) \/ RecoverLoad(w, t) \/ LeaseLoad(w, t)
    BY <2>3 DEF LoadFails, RecoverLoad, LeaseLoad
  <2>4. CASE PruneEnd(w) \/ RecoverEnd(w) \/ LeaseReturn(w)
    BY <2>4 DEF PruneEnd, RecoverEnd, LeaseReturn
  <2>5. QED
    BY <1>2, <2>1, <2>2, <2>3, <2>4 DEF Poll
<1>3. CASE Result(w)
  BY <1>3 DEF TypeOK, Writing, Result, ResultWrite, ResultFinish, Rewrites
<1>4. CASE Cancel(w)
  BY <1>4 DEF Cancel, CancelWrite, CancelEnd, Rewrites
<1>5. CASE Fault(w)
  BY <1>5 DEF Fault, Crash, WriteFails, BreakOff
<1>6. QED
  BY <1>1, <1>2, <1>3, <1>4, <1>5 DEF Proceed

\* A file that a worker writes has a status, and shows done only when a result
\* was stored, in a step that goes on with it.
LEMMA RewritesWhat ==
  ASSUME TypeOK, NEW w \in Workers, CopyReady(w), NEW t \in Tasks, Rewrites(w, t)
  PROVE  /\ disk'[t].status # "none"
         /\ \A u \in Tasks \ {t} : disk'[u] = disk[u]
         /\ disk'[t].status = "done" =>
              /\ ResultWrite(w) \/ ResultFinish(w)
              /\ t = cur[w] /\ disk'[t] = copy[w][t]
<1>1. CASE PruneRemove(w, t)
  BY <1>1, WriteAt DEF PruneRemove, NoFile
<1>2. CASE (RecoverWrite(w) \/ LeaseWrite(w)) /\ t = cur[w]
  BY <1>2, WriteAt DEF RecoverWrite, LeaseWrite, CopyReady
<1>3. CASE (ResultWrite(w) \/ ResultFinish(w)) /\ t = cur[w]
  BY <1>3, WriteAt DEF ResultWrite, ResultFinish, CopyReady
<1>4. CASE CancelWrite(w, t)
  <2>1. /\ disk'[t] = [copy[w][t] EXCEPT !.age = 0]
        /\ \A u \in Tasks \ {t} : disk'[u] = disk[u]
    BY <1>4, WriteAt DEF CancelWrite
  <2>2. copy[w][t] \in File /\ copy[w][t].status = "cancelled"
    BY <1>4 DEF CancelWrite, CopyReady, TypeOK
  <2>3. disk'[t].status = "cancelled"
    BY <2>1, <2>2 DEF File
  <2>4. QED
    BY <2>1, <2>3
<1>5. QED
  BY <1>1, <1>2, <1>3, <1>4 DEF Rewrites

\* A follow-up creates the bind task, or says in the export why not.
LEMMA FollowupWhat ==
  ASSUME TypeOK, NEW w \in Workers
  PROVE  /\ \A b \in Tasks : FollowupBind(w, b) =>
              /\ b \in Binds /\ disk[b].status = "none" /\ disk'[b] = NewFile
              /\ \A u \in Tasks \ {b} : disk'[u] = disk[u]
              /\ origin'[b] = cur[w]
              /\ \A c \in Tasks \ {b} : origin'[c] = origin[c]
         /\ FollowupError(w) =>
              /\ cur[w] \in Tasks
              /\ disk'[cur[w]] = [copy[w][cur[w]] EXCEPT !.followupError = TRUE]
              /\ \A u \in Tasks \ {cur[w]} : disk'[u] = disk[u]
              /\ copy'[w][cur[w]] = disk'[cur[w]]
              /\ UNCHANGED origin
<1>1. ASSUME NEW b \in Tasks, FollowupBind(w, b)
      PROVE  /\ b \in Binds /\ disk[b].status = "none" /\ disk'[b] = NewFile
             /\ \A u \in Tasks \ {b} : disk'[u] = disk[u]
             /\ origin'[b] = cur[w]
             /\ \A c \in Tasks \ {b} : origin'[c] = origin[c]
  <2>1. origin \in [Tasks -> Tasks \cup {NoTask}] /\ origin' = [origin EXCEPT ![b] = cur[w]]
    BY <1>1 DEF TypeOK, FollowupBind
  <2>2. QED
    BY <1>1, <2>1, WriteAt DEF FollowupBind
<1>2. ASSUME FollowupError(w)
      PROVE  /\ cur[w] \in Tasks
             /\ disk'[cur[w]] = [copy[w][cur[w]] EXCEPT !.followupError = TRUE]
             /\ \A u \in Tasks \ {cur[w]} : disk'[u] = disk[u]
             /\ copy'[w][cur[w]] = disk'[cur[w]]
             /\ UNCHANGED origin
  <2>1. cur[w] \in Tasks
    BY <1>2 DEF TypeOK, FollowupError, Writing
  <2>2. /\ disk'[cur[w]] = [copy[w][cur[w]] EXCEPT !.followupError = TRUE]
        /\ \A u \in Tasks \ {cur[w]} : disk'[u] = disk[u]
    BY <1>2, <2>1, WriteAt DEF FollowupError
  <2>3. copy' = [copy EXCEPT ![w] = [copy[w] EXCEPT ![cur[w]] =
                   [copy[w][cur[w]] EXCEPT !.followupError = TRUE]]]
    BY <1>2 DEF FollowupError
  <2>4. copy'[w][cur[w]] = [copy[w][cur[w]] EXCEPT !.followupError = TRUE]
    BY <2>1, <2>3 DEF TypeOK
  <2>5. QED
    BY <1>2, <2>1, <2>2, <2>4 DEF FollowupError
<1>3. QED
  BY <1>1, <1>2

\* A task that was created is never uncreated.
LEMMA CreatedStays ==
  ASSUME TypeOK, CopiesReady, [Next]_vars, NEW t \in Tasks, disk[t].status # "none"
  PROVE  disk'[t].status # "none"
<1>1. ASSUME NEW w \in Workers, Start(w) \/ Proceed(w) \/ Fault(w)
      PROVE  disk'[t].status # "none"
  <2>1. CASE UNCHANGED <<disk, origin>>
    BY <2>1
  <2>2. CASE \E u \in Tasks : Rewrites(w, u)
    BY <2>2, RewritesWhat DEF CopiesReady
  <2>3. ASSUME NEW b \in Tasks, FollowupBind(w, b) PROVE disk'[t].status # "none"
    BY <2>3, FollowupWhat
  <2>4. CASE FollowupError(w)
    <3>1. copy[w][cur[w]] \in File /\ copy[w][cur[w]].status # "none"
      BY <2>4 DEF TypeOK, CopiesReady, CopyReady, FollowupError, Writing
    <3>2. [copy[w][cur[w]] EXCEPT !.followupError = TRUE].status # "none"
      BY <3>1 DEF File
    <3>3. QED
      BY <2>4, <3>2, FollowupWhat
  <2>5. QED
    BY <1>1, <2>1, <2>2, <2>3, <2>4, StepsByDisk
<1>2. ASSUME NEW u \in Tasks, CreateTask(u) \/ ForgetExecution(u)
      PROVE  disk'[t].status # "none"
  BY <1>2, WriteAt DEF CreateTask, ForgetExecution, NewFile, NoFile
<1>3. CASE Tick
  BY <1>3 DEF Tick, Older, TypeOK, File
<1>4. CASE UNCHANGED vars
  BY <1>4 DEF vars
<1>5. QED
  BY <1>1, <1>2, <1>3, <1>4 DEF Next

\* Every step keeps the origins those of tasks that were created, and an
\* origin, once there, stays.
LEMMA OriginsStay ==
  ASSUME TypeOK, CopiesReady, BindsAreCreated, [Next]_vars
  PROVE  /\ BindsAreCreated'
         /\ \A b \in Tasks : origin[b] # NoTask => origin'[b] = origin[b]
<1> USE DEF BindsAreCreated
<1>0. \A t \in Tasks : disk[t].status # "none" => disk'[t].status # "none"
  BY CreatedStays
<1>1. ASSUME UNCHANGED origin
      PROVE  /\ BindsAreCreated'
             /\ \A b \in Tasks : origin[b] # NoTask => origin'[b] = origin[b]
  BY <1>0, <1>1
<1>2. ASSUME NEW w \in Workers, NEW b \in Tasks, FollowupBind(w, b)
      PROVE  /\ BindsAreCreated'
             /\ \A c \in Tasks : origin[c] # NoTask => origin'[c] = origin[c]
  <2>1. /\ disk[b].status = "none" /\ disk'[b] = NewFile
        /\ \A c \in Tasks \ {b} : origin'[c] = origin[c]
    BY <1>2, FollowupWhat
  <2>2. origin[b] = NoTask
    BY <2>1
  <2>3. disk'[b].status # "none"
    BY <2>1 DEF NewFile, NoFile
  <2>4. \A c \in Tasks : origin[c] # NoTask => origin'[c] = origin[c]
    BY <2>1, <2>2
  <2>5. \A c \in Tasks : origin'[c] # NoTask => disk'[c].status # "none"
    BY <1>0, <2>1, <2>3
  <2>6. QED
    BY <2>4, <2>5
<1>3. ASSUME NEW w \in Workers, Start(w) \/ Proceed(w) \/ Fault(w),
             ~\E b \in Tasks : FollowupBind(w, b)
      PROVE  UNCHANGED origin
  BY <1>3, StepsByDisk, FollowupWhat
<1>4. ASSUME \/ \E t \in Tasks : CreateTask(t) \/ ForgetExecution(t)
             \/ Tick \/ UNCHANGED vars
      PROVE  UNCHANGED origin
  BY <1>4 DEF CreateTask, ForgetExecution, Tick, vars
<1>5. QED
  BY <1>1, <1>2, <1>3, <1>4 DEF Next

\* Where a worker of completeHubTask goes.
LEMMA ResultGoes ==
  ASSUME TypeOK, NEW w \in Workers
  PROVE  /\ ResultWrite(w) /\ cur[w] \in Exports /\ copy[w][cur[w]].status = "done" =>
              pc'[w] = "followup" /\ cur'[w] = cur[w]
         /\ pc'[w] = "resultFinish" /\ (Start(w) \/ Proceed(w) \/ Fault(w)) =>
              /\ cur'[w] = cur[w]
              /\ \/ FollowupError(w)
                 \/ /\ UNCHANGED copy
                    /\ \/ \E b \in Tasks : FollowupBind(w, b)
                       \/ copy[w][cur[w]].status # "done"
         /\ pc[w] = "followup" /\ (Start(w) \/ Proceed(w) \/ Fault(w)) =>
              FollowupError(w) \/ (\E b \in Tasks : FollowupBind(w, b)) \/ Fault(w)
<1> USE DEF Goto
<1>0. pc \in [Workers -> Labels] /\ Release(w) => pc'[w] = "idle"
  BY Released
<1>1. ASSUME ResultWrite(w), cur[w] \in Exports, copy[w][cur[w]].status = "done"
      PROVE  pc'[w] = "followup" /\ cur'[w] = cur[w]
  BY <1>1 DEF TypeOK, ResultWrite
<1>2. ASSUME pc[w] = "followup", Start(w) \/ Proceed(w) \/ Fault(w)
      PROVE  FollowupError(w) \/ (\E b \in Tasks : FollowupBind(w, b)) \/ Fault(w)
  <2>1. ~Start(w)
    BY <1>2 DEF Start, StartPoll, StartCancel, StartRecoverCommand, ResultLoad
  <2>2. ~Poll(w)
    BY <1>2 DEF Poll, PruneRemove, LoadFails, RecoverLoad, LeaseLoad, PruneEnd, RecoverWrite,
                RecoverEnd, LeaseWrite, LeaseReturn
  <2>3. ~Cancel(w)
    BY <1>2 DEF Cancel, CancelWrite, CancelEnd
  <2>4. QED
    BY <1>2, <2>1, <2>2, <2>3 DEF Proceed, Result, ResultWrite, ResultFinish
<1>3. ASSUME pc'[w] = "resultFinish", Start(w) \/ Proceed(w) \/ Fault(w)
      PROVE  /\ cur'[w] = cur[w]
             /\ \/ FollowupError(w)
                \/ /\ UNCHANGED copy
                   /\ \/ \E b \in Tasks : FollowupBind(w, b)
                      \/ copy[w][cur[w]].status # "done"
  <2>0. pc \in [Workers -> Labels] /\ ~Release(w)
    BY <1>0, <1>3 DEF TypeOK
  <2>1. ~Start(w)
    <3>1. ~\E a \in Agents : StartPoll(w, a) \/ StartCancel(w, a)
      BY <1>3, <2>0 DEF StartPoll, StartCancel
    <3>2. ~StartRecoverCommand(w)
      BY <1>3, <2>0 DEF StartRecoverCommand
    <3>3. ~\E t \in Tasks, ok \in BOOLEAN : ResultLoad(w, t, ok)
      BY <1>3, <2>0 DEF ResultLoad
    <3>4. QED
      BY <3>1, <3>2, <3>3 DEF Start
  <2>2. ~Poll(w)
    <3>1. ~\E t \in Tasks : PruneRemove(w, t) \/ LoadFails(w, t) \/ RecoverLoad(w, t) \/ LeaseLoad(w, t)
      BY <1>3, <2>0 DEF PruneRemove, LoadFails, RecoverLoad, LeaseLoad
    <3>2. ~(PruneEnd(w) \/ RecoverWrite(w) \/ RecoverEnd(w) \/ LeaseWrite(w) \/ LeaseReturn(w))
      BY <1>3, <2>0 DEF PruneEnd, RecoverWrite, RecoverEnd, LeaseWrite, LeaseReturn
    <3>3. QED
      BY <3>1, <3>2 DEF Poll
  <2>3. ~Cancel(w) /\ ~Fault(w) /\ ~ResultFinish(w)
    BY <1>3, <2>0 DEF Cancel, CancelWrite, CancelEnd, Fault, Crash, WriteFails, BreakOff, ResultFinish
  <2>4. Result(w)
    BY <1>3, <2>1, <2>2, <2>3 DEF Proceed
  <2>5. CASE ResultWrite(w)
    BY <1>3, <2>0, <2>5 DEF ResultWrite
  <2>6. CASE FollowupError(w) \/ \E b \in Tasks : FollowupBind(w, b)
    BY <2>6 DEF FollowupBind, FollowupError
  <2>7. QED
    BY <2>3, <2>4, <2>5, <2>6 DEF Result
<1>4. QED
  BY <1>1, <1>2, <1>3

\* A step forgets an export whose follow-up was cut short only by following it
\* up, and a fault records the one it cuts short.
LEMMA UnfollowedStays ==
  ASSUME NEW w \in Workers, Start(w) \/ Proceed(w) \/ Fault(w)
  PROVE  /\ \A t \in unfollowed : t \in unfollowed' \/ (pc[w] = "followup" /\ t = cur[w])
         /\ Fault(w) /\ pc[w] = "followup" => cur[w] \in unfollowed'
<1>1. CASE Start(w)
  BY <1>1 DEF Start, StartPoll, StartCancel, StartRecoverCommand, ResultLoad, Fault, Crash,
              WriteFails, BreakOff, Writing
<1>2. CASE Poll(w) \/ Cancel(w)
  <2>1. UNCHANGED unfollowed
    BY <1>2 DEF Poll, PruneRemove, LoadFails, RecoverLoad, LeaseLoad, PruneEnd, RecoverWrite,
                RecoverEnd, LeaseWrite, LeaseReturn, Cancel, CancelWrite, CancelEnd
  <2>2. pc[w] # "followup"
    BY <1>2 DEF Poll, PruneRemove, LoadFails, RecoverLoad, LeaseLoad, PruneEnd, RecoverWrite,
                RecoverEnd, LeaseWrite, LeaseReturn, Cancel, CancelWrite, CancelEnd
  <2>3. QED
    BY <2>1, <2>2
<1>3. CASE Result(w) /\ ~Fault(w)
  BY <1>3 DEF Result, ResultWrite, FollowupBind, FollowupError, ResultFinish
<1>4. CASE Fault(w)
  BY <1>4 DEF Fault, Crash, WriteFails, BreakOff
<1>5. QED
  BY <1>1, <1>2, <1>3, <1>4 DEF Proceed

\* Every step of a worker keeps done exports followed up.
LEMMA WorkerFollowing ==
  ASSUME TypeOK, CopiesReady, BindsAreCreated, Following, [Next]_vars,
         NEW w \in Workers, Start(w) \/ Proceed(w) \/ Fault(w)
  PROVE  Following'
<1>2. Exports \subseteq Tasks /\ Binds \subseteq Tasks /\ Exports \cap Binds = {} /\ NoTask \notin Tasks
  BY HubTasksAssumption
<1>3. ASSUME NEW t \in Exports, \E b \in Binds : origin[b] = t
      PROVE  \E b \in Binds : origin'[b] = t
  BY <1>2, <1>3, OriginsStay
<1>4. \A v \in Workers \ {w} : pc'[v] = pc[v] /\ cur'[v] = cur[v] /\ copy'[v] = copy[v]
  BY WorkersApart DEF Apart
<1>5. ASSUME NEW b \in Tasks, FollowupBind(w, b), cur[w] \in Exports
      PROVE  \E c \in Binds : origin'[c] = cur[w]
  BY <1>5, FollowupWhat
\* The file of an export that the step does not follow up or write.
<1>6. ASSUME NEW t \in Exports, disk'[t] = disk[t], disk'[t].status = "done",
             ~\E v \in Workers : pc'[v] = "followup" /\ cur'[v] = t,
             t \notin unfollowed',
             t = cur[w] => pc[w] # "followup"
      PROVE  disk'[t].followupError \/ \E b \in Binds : origin'[b] = t
  <2>1. ~\E v \in Workers : pc[v] = "followup" /\ cur[v] = t
    BY <1>4, <1>6
  <2>2. t \notin unfollowed
    BY <1>2, <1>6, UnfollowedStays
  <2>3. Followed(t, disk[t])
    BY <1>6, <2>1, <2>2 DEF Following, DoneExportIsFollowed, Followed
  <2>4. QED
    BY <1>3, <1>6, <2>3 DEF Followed
<1>7. ASSUME NEW t \in Exports, disk'[t].status = "done", t \notin unfollowed',
             ~\E v \in Workers : pc'[v] = "followup" /\ cur'[v] = t
      PROVE  disk'[t].followupError \/ \E b \in Binds : origin'[b] = t
  <2>1. CASE pc[w] = "followup" /\ t = cur[w]
    <3>1. CASE FollowupError(w)
      <4>1. disk'[t] = [copy[w][t] EXCEPT !.followupError = TRUE] /\ copy[w][t] \in File
        BY <2>1, <3>1, <1>2, FollowupWhat DEF TypeOK
      <4>2. QED
        BY <4>1 DEF File
    <3>2. CASE \E b \in Tasks : FollowupBind(w, b)
      BY <1>5, <2>1, <3>2
    <3>3. ~Fault(w)
      BY <1>7, <2>1, UnfollowedStays
    <3>4. QED
      BY <2>1, <3>1, <3>2, <3>3, ResultGoes
  <2>2. CASE ~(pc[w] = "followup" /\ t = cur[w]) /\ disk'[t] = disk[t]
    BY <1>6, <1>7, <2>2
  <2>3. CASE ~(pc[w] = "followup" /\ t = cur[w]) /\ disk'[t] # disk[t]
    <3>1. CASE \E u \in Tasks : Rewrites(w, u)
      <4>1. Rewrites(w, t)
        BY <1>2, <2>3, <3>1, RewritesWhat DEF CopiesReady
      <4>2. /\ ResultWrite(w) \/ ResultFinish(w)
            /\ t = cur[w] /\ disk'[t] = copy[w][t]
        BY <1>2, <1>7, <4>1, RewritesWhat DEF CopiesReady
      <4>3. ResultFinish(w) /\ pc[w] = "resultFinish"
        BY <1>7, <4>2, ResultGoes DEF ResultFinish
      <4>4. Followed(t, copy[w][t])
        BY <1>7, <4>2, <4>3 DEF Following
      <4>5. QED
        BY <1>3, <4>2, <4>4 DEF Followed
    <3>2. ASSUME NEW b \in Tasks, FollowupBind(w, b) PROVE FALSE
      <4>1. b = t
        BY <1>2, <2>3, <3>2, FollowupWhat
      <4>2. QED
        BY <1>2, <3>2, <4>1, FollowupWhat
    <3>3. ASSUME FollowupError(w) PROVE FALSE
      BY <1>2, <2>3, <3>3, FollowupWhat DEF FollowupError
    <3>4. QED
      BY <2>3, <3>1, <3>2, <3>3, StepsByDisk
  <2>4. QED
    BY <2>1, <2>2, <2>3
<1>8. ASSUME NEW v \in Workers, pc'[v] = "resultFinish", cur'[v] \in Exports,
             copy'[v][cur'[v]].status = "done"
      PROVE  copy'[v][cur'[v]].followupError \/ \E b \in Binds : origin'[b] = cur'[v]
  <2>1. CASE v # w
    <3>1. Followed(cur[v], copy[v][cur[v]])
      BY <1>4, <1>8, <2>1 DEF Following
    <3>2. QED
      BY <1>3, <1>4, <1>8, <2>1, <3>1 DEF Followed
  <2>2. CASE v = w
    <3>1. cur'[w] = cur[w]
      BY <1>8, <2>2, ResultGoes
    <3>2. CASE FollowupError(w)
      <4>0. cur[w] \in Tasks
        BY <3>2, FollowupWhat
      <4>1. copy[w][cur[w]] \in File
        BY <4>0 DEF TypeOK
      <4>2. copy'[w][cur[w]] = [copy[w][cur[w]] EXCEPT !.followupError = TRUE]
        BY <3>2, FollowupWhat
      <4>3. QED
        BY <2>2, <3>1, <4>1, <4>2 DEF File
    <3>3. CASE \E b \in Tasks : FollowupBind(w, b)
      BY <1>5, <1>8, <2>2, <3>1, <3>3
    <3>4. QED
      BY <1>8, <2>2, <3>1, <3>2, <3>3, ResultGoes
  <2>3. QED
    BY <2>1, <2>2
<1>9. QED
  BY <1>7, <1>8 DEF Following, DoneExportIsFollowed, Followed

\* Every step keeps done exports followed up.
LEMMA FollowingStep ==
  ASSUME TypeOK, CopiesReady, BindsAreCreated, Following, [Next]_vars
  PROVE  Following'
<1>1. CASE \E w \in Workers : Start(w) \/ Proceed(w) \/ Fault(w)
  BY <1>1, WorkerFollowing
<1>2. ASSUME NEW u \in Tasks, CreateTask(u) PROVE Following'
  <2>1. /\ \A t \in Tasks : disk'[t].status = "done" => disk'[t] = disk[t]
        /\ UNCHANGED <<origin, pc, cur, copy, faults>>
    BY <1>2, WriteAt DEF CreateTask, NewFile, NoFile
  <2>2. Exports \subseteq Tasks
    BY HubTasksAssumption
  <2>3. QED
    BY <2>1, <2>2 DEF Following, DoneExportIsFollowed, Followed
<1>3. CASE (\E u \in Tasks : ForgetExecution(u)) \/ UNCHANGED vars
  BY <1>3 DEF ForgetExecution, vars, Following, DoneExportIsFollowed, Followed
<1>4. CASE Tick
  <2>1. \A f \in File : Older(f).status = f.status /\ Older(f).followupError = f.followupError
    BY DEF Older, File
  <2>2. \A t \in Tasks : disk'[t].status = disk[t].status
                        /\ disk'[t].followupError = disk[t].followupError
    BY <1>4, <2>1 DEF Tick, TypeOK
  <2>3. \A w \in Workers, t \in Tasks :
          /\ copy'[w][t].status = copy[w][t].status
          /\ copy'[w][t].followupError = copy[w][t].followupError
    BY <1>4, <2>1 DEF Tick, TypeOK
  <2>4. Exports \subseteq Tasks /\ UNCHANGED <<origin, pc, cur, faults>>
    BY <1>4, HubTasksAssumption DEF Tick
  <2>5. QED
    BY <2>2, <2>3, <2>4 DEF Following, DoneExportIsFollowed, Followed
<1>5. QED
  BY <1>1, <1>2, <1>3, <1>4 DEF Next

\* However the operations overlap and whatever fails, an export that shows as
\* done (completeHubTask) has led to its bind or says why not, unless its own
\* follow-up was cut short by a kill or a failed write.
THEOREM DoneExportsAreFollowed == Spec => []DoneExportIsFollowed
<1> DEFINE Inv == TypeOK /\ CopiesReady /\ BindsAreCreated /\ Following
<1>1. Init => Inv
  <2> SUFFICES ASSUME Init PROVE CopiesReady /\ BindsAreCreated /\ Following
    BY InitType
  <2>1. CopiesReady /\ BindsAreCreated
    BY DEF Init, CopiesReady, CopyReady, BindsAreCreated
  <2>2. Following
    BY HubTasksAssumption DEF Init, Following, DoneExportIsFollowed, NoFile
  <2>3. QED
    BY <2>1, <2>2
<1>2. Inv /\ [Next]_vars => Inv'
  BY NextType, CopiesReadyStep, OriginsStay, FollowingStep
<1>3. Inv => DoneExportIsFollowed
  BY DEF Following
<1>4. QED
  BY <1>1, <1>2, <1>3, PTL DEF Spec

-------------------------------------------------------------------------------
(* Operations that do not overlap *)

\* There is at most one worker.
Serialised == \A v, w \in Workers : v = w

\* The copy a worker holds is of the file as it still is.
CopyCurrent(w) ==
  /\ pc[w] = "recoverWrite" =>
       /\ disk[cur[w]].status = "running"
       /\ copy[w][cur[w]].leases = disk[cur[w]].leases
       /\ copy[w][cur[w]].status = "failed" => disk[cur[w]].leases >= LowCap
  /\ pc[w] = "leaseWrite" =>
       /\ disk[cur[w]].status = "queued" /\ cur[w] \notin got[w] \cup todo[w]
       /\ copy[w][cur[w]].leases = disk[cur[w]].leases + 1
  /\ pc[w] = "resultWrite" =>
       /\ Exists(cur[w]) /\ disk[cur[w]].leases > 0
       /\ copy[w][cur[w]].leases = disk[cur[w]].leases
  /\ pc[w] \in {"followup", "resultFinish"} =>
       /\ copy[w][cur[w]].status = disk[cur[w]].status
       /\ copy[w][cur[w]].leases = disk[cur[w]].leases
  /\ pc[w] = "prune" => \A t \in todo[w] : disk[t].status \in Completed
  /\ pc[w] = "cancel" =>
       \A t \in todo[w] : /\ disk[t].status \in Open
                          /\ copy[w][t].leases = disk[t].leases

\* What a poll has leased is among the leases of the file, as is what the
\* agent got and has still to report.
GotCounted(w) ==
  /\ pc[w] \notin {"lease", "leaseWrite"} => got[w] = {}
  /\ got[w] \cap todo[w] = {}
  /\ \A t \in got[w] : /\ disk[t].status # "none"
                       /\ Exists(t) => owed[t] + 1 <= disk[t].leases
UncreatedIsUnleased ==
  \A t \in Tasks : disk[t].status = "none" => owed[t] = 0 /\ disk[t].leases = 0

\* The inductive invariant of operations that do not overlap.
SerialInv ==
  /\ ExecutionsAreCounted
  /\ UncreatedIsUnleased
  /\ \A w \in Workers : CopyCurrent(w) /\ GotCounted(w)
\* What an operation makes of a file counts its leases as it should.
LEMMA LeasesOfSteps ==
  ASSUME NEW f \in File
  PROVE  /\ Older(f).leases = f.leases /\ Older(f).status = f.status
         /\ \A cap : Recovered(f, cap).leases = f.leases
         /\ \A cap : Recovered(f, cap).status = "failed" /\ f.status = "running" => f.leases >= cap
         /\ Leased(f).leases = f.leases + 1
         /\ \A ok : Finished(f, ok).leases = f.leases
         /\ Cancelled(f).leases = f.leases
         /\ [f EXCEPT !.followupError = TRUE].leases = f.leases
         /\ [f EXCEPT !.followupError = TRUE].status = f.status
         /\ [f EXCEPT !.age = 0].leases = f.leases
         /\ [f EXCEPT !.age = 0].status = f.status
  BY DEF Older, Recovered, Leased, Finished, Cancelled, File

LEMMA NewFileIsQueued == NewFile.status = "queued" /\ NewFile.leases = 0
  BY DEF NewFile, NoFile

\* The invariant is that of the one worker there is.
LEMMA OneWorker ==
  ASSUME NEW w \in Workers, \A v \in Workers : v = w,
         ExecutionsAreCounted', UncreatedIsUnleased', CopyCurrent(w)', GotCounted(w)'
  PROVE  SerialInv'
  BY DEF SerialInv

\* A worker that ends its operation has nothing to be kept current.
LEMMA SerialRelease ==
  ASSUME TypeOK, SerialInv, NEW w \in Workers, \A v \in Workers : v = w,
         Release(w), UNCHANGED <<disk, owed>>
  PROVE  SerialInv'
<1>1. CopyCurrent(w)' /\ GotCounted(w)'
  BY Released DEF CopyCurrent, GotCounted
<1>2. ExecutionsAreCounted' /\ UncreatedIsUnleased'
  BY DEF SerialInv, ExecutionsAreCounted, UncreatedIsUnleased, Exists
<1>3. QED
  BY <1>1, <1>2, OneWorker

\* Starting an operation keeps the invariant.
LEMMA SerialStart ==
  ASSUME TypeOK, SerialInv, NEW w \in Workers, \A v \in Workers : v = w, Start(w)
  PROVE  SerialInv'
<1> USE DEF Goto, Visit
<1>0. /\ pc \in [Workers -> Labels] /\ todo \in [Workers -> SUBSET Tasks]
      /\ disk \in [Tasks -> File] /\ copy \in [Workers -> [Tasks -> File]]
      /\ owed \in [Tasks -> Nat]
      /\ \A t \in Tasks : owed[t] \in Nat /\ disk[t].leases \in Nat
  BY DEF TypeOK, File
<1>1. CopyCurrent(w) /\ GotCounted(w) /\ ExecutionsAreCounted /\ UncreatedIsUnleased
  BY DEF SerialInv
<1>2. pc[w] = "idle" /\ got[w] = {}
  BY <1>1 DEF Start, StartPoll, StartCancel, StartRecoverCommand, ResultLoad, GotCounted
<1>3. ASSUME UNCHANGED <<disk, owed, got>> PROVE
        ExecutionsAreCounted' /\ UncreatedIsUnleased' /\ GotCounted(w)'
  BY <1>1, <1>2, <1>3 DEF ExecutionsAreCounted, UncreatedIsUnleased, GotCounted, Exists
<1>4. ASSUME NEW a \in Agents, StartPoll(w, a) PROVE SerialInv'
  <2>1. CASE pc'[w] = "prune"
    <3>1. PICK victims \in SUBSET Tasks : PruneVictims(victims) /\ todo'[w] = victims
      BY <1>0, <1>4, <2>1 DEF StartPoll
    <3>2. \A t \in victims : disk[t].status \in Completed
      BY <3>1 DEF PruneVictims
    <3>3. CopyCurrent(w)'
      BY <1>4, <2>1, <3>1, <3>2 DEF CopyCurrent, StartPoll
    <3>4. QED
      BY <1>3, <1>4, <3>3, OneWorker DEF StartPoll
  <2>2. CASE pc'[w] = "recover"
    BY <1>3, <1>4, <2>2, OneWorker DEF StartPoll, CopyCurrent
  <2>3. QED
    BY <1>0, <1>4, <2>1, <2>2 DEF StartPoll
<1>5. ASSUME NEW a \in Agents, StartCancel(w, a) PROVE SerialInv'
  <2> DEFINE open == {t \in Tasks : Owner[t] = a /\ disk[t].status \in Open}
  <2>1. /\ pc'[w] = "cancel" /\ todo'[w] = open /\ UNCHANGED <<disk, owed, got>>
        /\ copy'[w] = [t \in Tasks |-> IF t \in open THEN Cancelled(disk[t]) ELSE NoFile]
    BY <1>0, <1>5 DEF StartCancel
  <2>2. \A t \in open : copy'[w][t].leases = disk'[t].leases
    BY <1>0, <2>1, LeasesOfSteps
  <2>3. CopyCurrent(w)'
    BY <2>1, <2>2 DEF CopyCurrent
  <2>4. QED
    BY <1>3, <2>1, <2>3, OneWorker
<1>6. ASSUME StartRecoverCommand(w) PROVE SerialInv'
  BY <1>0, <1>3, <1>6, OneWorker DEF StartRecoverCommand, CopyCurrent
<1>7. ASSUME NEW t \in Tasks, NEW ok \in BOOLEAN, ResultLoad(w, t, ok) PROVE SerialInv'
  <2>1. /\ owed[t] > 0 /\ owed' = [owed EXCEPT ![t] = @ - 1]
        /\ UNCHANGED <<disk, got>>
    BY <1>7 DEF ResultLoad
  <2>2. \A u \in Tasks : owed'[u] <= owed[u] /\ owed'[u] \in Nat
    BY <1>0, <2>1
  <2>3. ExecutionsAreCounted' /\ UncreatedIsUnleased' /\ GotCounted(w)'
    <3>1. ExecutionsAreCounted'
      BY <1>0, <1>1, <2>1, <2>2 DEF ExecutionsAreCounted, Exists
    <3>2. UncreatedIsUnleased'
      BY <1>0, <1>1, <2>1, <2>2 DEF UncreatedIsUnleased
    <3>3. GotCounted(w)'
      BY <1>2, <2>1 DEF GotCounted
    <3>4. QED
      BY <3>1, <3>2, <3>3
  <2>4. CASE Exists(t)
    <3>1. pc'[w] = "resultWrite" /\ Hold(w, t, Finished(disk[t], ok))
      BY <1>0, <1>7, <2>4 DEF ResultLoad
    <3>2. cur'[w] = t /\ copy'[w][t].leases = disk[t].leases
      BY <1>0, <3>1, HoldAt, LeasesOfSteps
    <3>3. disk[t].leases > 0
      BY <1>0, <1>1, <2>1, <2>4 DEF ExecutionsAreCounted
    <3>4. CopyCurrent(w)'
      BY <2>1, <2>4, <3>1, <3>2, <3>3 DEF CopyCurrent, Exists
    <3>5. QED
      BY <2>3, <3>4, OneWorker
  <2>5. CASE ~Exists(t)
    <3>1. pc' = pc
      BY <1>7, <2>5 DEF ResultLoad
    <3>2. CopyCurrent(w)'
      BY <1>2, <3>1 DEF CopyCurrent
    <3>3. QED
      BY <2>3, <3>2, OneWorker
  <2>6. QED
    BY <2>4, <2>5
<1>8. QED
  BY <1>4, <1>5, <1>6, <1>7 DEF Start

\* Every step of a poll keeps the invariant.
LEMMA SerialPoll ==
  ASSUME TypeOK, CopiesReady, SerialInv, NEW w \in Workers, \A v \in Workers : v = w, Poll(w)
  PROVE  SerialInv'
<1> USE DEF Goto, Visit
<1>0. /\ pc \in [Workers -> Labels] /\ todo \in [Workers -> SUBSET Tasks]
      /\ disk \in [Tasks -> File] /\ copy \in [Workers -> [Tasks -> File]]
      /\ owed \in [Tasks -> Nat] /\ got \in [Workers -> SUBSET Tasks]
      /\ \A t \in Tasks : owed[t] \in Nat /\ disk[t].leases \in Nat
      /\ pc[w] \in Writing => cur[w] \in Tasks
  BY DEF TypeOK, File
<1>1. /\ CopyCurrent(w) /\ GotCounted(w) /\ ExecutionsAreCounted /\ UncreatedIsUnleased
      /\ CopyReady(w)
  BY DEF SerialInv, CopiesReady
<1>2. ASSUME UNCHANGED <<disk, owed, got>>, todo'[w] \subseteq todo[w],
             pc[w] \in {"lease", "leaseWrite"} => pc'[w] \in {"lease", "leaseWrite"}
      PROVE  ExecutionsAreCounted' /\ UncreatedIsUnleased' /\ GotCounted(w)'
  BY <1>1, <1>2 DEF ExecutionsAreCounted, UncreatedIsUnleased, GotCounted, Exists
<1>3. ASSUME NEW t \in Tasks, PruneRemove(w, t) PROVE SerialInv'
  <2>1. /\ disk'[t].status = "pruned" /\ \A u \in Tasks \ {t} : disk'[u] = disk[u]
        /\ UNCHANGED <<owed, got, pc>> /\ pc[w] = "prune"
        /\ todo'[w] = todo[w] \ {t}
    BY <1>0, <1>3, WriteAt DEF PruneRemove, NoFile
  <2>2. CopyCurrent(w)'
    BY <1>0, <1>1, <2>1 DEF CopyCurrent
  <2>3. GotCounted(w)'
    BY <1>1, <2>1 DEF GotCounted
  <2>4. ExecutionsAreCounted' /\ UncreatedIsUnleased'
    BY <1>1, <2>1 DEF ExecutionsAreCounted, UncreatedIsUnleased, Exists, Missing
  <2>5. QED
    BY <2>2, <2>3, <2>4, OneWorker
<1>4. ASSUME NEW t \in Tasks, LoadFails(w, t) PROVE SerialInv'
  BY <1>4, SerialRelease DEF LoadFails
<1>5. ASSUME NEW t \in Tasks, RecoverLoad(w, t) PROVE SerialInv'
  <2>1. /\ pc[w] = "recover" /\ todo'[w] = todo[w] \ {t} /\ UNCHANGED <<disk, owed, got>>
    BY <1>0, <1>5 DEF RecoverLoad
  <2>2. CASE Stale(disk[t], Timeout(w))
    <3>1. pc'[w] = "recoverWrite" /\ Hold(w, t, Recovered(disk[t], Cap(w)))
      BY <1>0, <1>5, <2>2 DEF RecoverLoad
    <3>2. cur'[w] = t /\ copy'[w][t] = Recovered(disk[t], Cap(w))
      BY <3>1, HoldAt
    <3>3. /\ disk[t].status = "running"
          /\ copy'[w][t].leases = disk[t].leases
          /\ copy'[w][t].status = "failed" => disk[t].leases >= Cap(w)
      BY <1>0, <2>2, <3>2, LeasesOfSteps DEF Stale
    <3>4. Cap(w) \in Nat /\ LowCap \in Nat /\ LowCap <= Cap(w)
      BY Numbers
    <3>5. copy'[w][t].status = "failed" => disk[t].leases >= LowCap
      BY <1>0, <3>3, <3>4
    <3>6. CopyCurrent(w)'
      BY <2>1, <3>1, <3>2, <3>3, <3>5 DEF CopyCurrent
    <3>7. QED
      BY <1>2, <2>1, <3>1, <3>6, OneWorker
  <2>3. CASE ~Stale(disk[t], Timeout(w))
    <3>1. pc' = pc
      BY <1>5, <2>3 DEF RecoverLoad
    <3>2. CopyCurrent(w)'
      BY <2>1, <3>1 DEF CopyCurrent
    <3>3. QED
      BY <1>2, <2>1, <3>1, <3>2, OneWorker
  <2>4. QED
    BY <2>2, <2>3
<1>6. ASSUME NEW t \in Tasks, LeaseLoad(w, t) PROVE SerialInv'
  <2>1. /\ pc[w] = "lease" /\ todo'[w] = todo[w] \ {t} /\ UNCHANGED <<disk, owed, got>>
        /\ t \in todo[w]
    BY <1>0, <1>6 DEF LeaseLoad
  <2>2. CASE Owner[t] = caller[w] /\ disk[t].status = "queued"
    <3>1. pc'[w] = "leaseWrite" /\ Hold(w, t, Leased(disk[t]))
      BY <1>0, <1>6, <2>2 DEF LeaseLoad
    <3>2. cur'[w] = t /\ copy'[w][t].leases = disk[t].leases + 1
      BY <1>0, <3>1, HoldAt, LeasesOfSteps
    <3>3. t \notin got'[w] \cup todo'[w]
      BY <1>1, <2>1 DEF GotCounted
    <3>4. CopyCurrent(w)'
      BY <2>1, <2>2, <3>1, <3>2, <3>3 DEF CopyCurrent
    <3>5. QED
      BY <1>2, <2>1, <3>1, <3>4, OneWorker
  <2>3. CASE ~(Owner[t] = caller[w] /\ disk[t].status = "queued")
    <3>1. pc' = pc
      BY <1>6, <2>3 DEF LeaseLoad
    <3>2. CopyCurrent(w)'
      BY <2>1, <3>1 DEF CopyCurrent
    <3>3. QED
      BY <1>2, <2>1, <3>1, <3>2, OneWorker
  <2>4. QED
    BY <2>2, <2>3
<1>7. CASE PruneEnd(w)
  <2>1. pc[w] = "prune" /\ pc'[w] = "recover" /\ UNCHANGED <<disk, owed, got>>
    BY <1>0, <1>7 DEF PruneEnd
  <2>2. got'[w] = {}
    BY <1>1, <2>1 DEF GotCounted
  <2>3. CopyCurrent(w)' /\ GotCounted(w)'
    BY <2>1, <2>2 DEF CopyCurrent, GotCounted
  <2>4. ExecutionsAreCounted' /\ UncreatedIsUnleased'
    BY <1>1, <2>1 DEF ExecutionsAreCounted, UncreatedIsUnleased, Exists
  <2>5. QED
    BY <2>3, <2>4, OneWorker
<1>8. CASE RecoverWrite(w)
  <2>1. /\ pc[w] = "recoverWrite" /\ pc'[w] = "recover" /\ UNCHANGED <<owed, got, todo>>
        /\ cur[w] \in Tasks /\ disk'[cur[w]] = copy[w][cur[w]]
        /\ \A u \in Tasks \ {cur[w]} : disk'[u] = disk[u]
    BY <1>0, <1>8, WriteAt DEF RecoverWrite, Writing
  <2>2. /\ disk'[cur[w]].leases = disk[cur[w]].leases /\ disk'[cur[w]].status # "none"
        /\ Exists(cur[w]) /\ got[w] = {}
    BY <1>1, <2>1 DEF CopyCurrent, CopyReady, GotCounted, Exists, Missing
  <2>3. CopyCurrent(w)' /\ GotCounted(w)'
    BY <2>1, <2>2 DEF CopyCurrent, GotCounted
  <2>4. ExecutionsAreCounted' /\ UncreatedIsUnleased'
    BY <1>1, <2>1, <2>2 DEF ExecutionsAreCounted, UncreatedIsUnleased, Exists
  <2>5. QED
    BY <2>3, <2>4, OneWorker
<1>9. CASE RecoverEnd(w)
  <2>1. CASE caller[w] = NoAgent
    BY <1>9, <2>1, SerialRelease DEF RecoverEnd
  <2>2. CASE caller[w] # NoAgent
    <3>1. pc[w] = "recover" /\ pc'[w] = "lease" /\ UNCHANGED <<disk, owed, got>>
      BY <1>0, <1>9, <2>2 DEF RecoverEnd
    <3>2. got'[w] = {}
      BY <1>1, <3>1 DEF GotCounted
    <3>3. CopyCurrent(w)' /\ GotCounted(w)'
      BY <3>1, <3>2 DEF CopyCurrent, GotCounted
    <3>4. ExecutionsAreCounted' /\ UncreatedIsUnleased'
      BY <1>1, <3>1 DEF ExecutionsAreCounted, UncreatedIsUnleased, Exists
    <3>5. QED
      BY <3>3, <3>4, OneWorker
  <2>3. QED
    BY <2>1, <2>2
<1>10. CASE LeaseWrite(w)
  <2>1. /\ pc[w] = "leaseWrite" /\ pc'[w] = "lease" /\ UNCHANGED <<owed, todo>>
        /\ cur[w] \in Tasks /\ disk'[cur[w]] = copy[w][cur[w]]
        /\ \A u \in Tasks \ {cur[w]} : disk'[u] = disk[u]
        /\ got'[w] = got[w] \cup {cur[w]}
    BY <1>0, <1>10, WriteAt DEF LeaseWrite, Writing
  <2>2. /\ disk'[cur[w]].leases = disk[cur[w]].leases + 1 /\ disk'[cur[w]].status = "running"
        /\ Exists(cur[w]) /\ cur[w] \notin got[w] \cup todo[w]
    BY <1>1, <2>1 DEF CopyCurrent, CopyReady, Exists, Missing
  <2>3. CopyCurrent(w)'
    BY <2>1 DEF CopyCurrent
  <2>4. \A t \in Tasks : Exists(t) => owed[t] <= disk[t].leases
    BY <1>1 DEF ExecutionsAreCounted
  <2>5. owed[cur[w]] + 1 <= disk[cur[w]].leases + 1
    BY <1>0, <2>1, <2>2, <2>4
  <2>6. GotCounted(w)'
    BY <1>0, <1>1, <2>1, <2>2, <2>5 DEF GotCounted, Exists
  <2>7. owed[cur[w]] <= disk[cur[w]].leases + 1
    BY <1>0, <2>1, <2>5
  <2>8. ExecutionsAreCounted' /\ UncreatedIsUnleased'
    BY <1>1, <2>1, <2>2, <2>7 DEF ExecutionsAreCounted, UncreatedIsUnleased, Exists
  <2>9. QED
    BY <2>3, <2>6, <2>8, OneWorker
<1>11. CASE LeaseReturn(w)
  <2>1. /\ UNCHANGED disk /\ Release(w)
        /\ \A t \in Tasks : owed'[t] = owed[t] \/ (t \in got[w] /\ owed'[t] = owed[t] + 1)
    BY <1>0, <1>11 DEF LeaseReturn
  <2>2. CopyCurrent(w)' /\ GotCounted(w)'
    BY <2>1, Released DEF CopyCurrent, GotCounted
  <2>3. ExecutionsAreCounted' /\ UncreatedIsUnleased'
    BY <1>1, <2>1 DEF ExecutionsAreCounted, UncreatedIsUnleased, Exists, GotCounted
  <2>4. QED
    BY <2>2, <2>3, OneWorker
<1>12. QED
  BY <1>3, <1>4, <1>5, <1>6, <1>7, <1>8, <1>9, <1>10, <1>11 DEF Poll
\* Every step of completeHubTask after its load keeps the invariant.
LEMMA SerialResult ==
  ASSUME TypeOK, CopiesReady, SerialInv, NEW w \in Workers, \A v \in Workers : v = w, Result(w)
  PROVE  SerialInv'
<1> USE DEF Goto, Visit
<1>0. /\ pc \in [Workers -> Labels] /\ copy \in [Workers -> [Tasks -> File]]
      /\ \A t \in Tasks : owed[t] \in Nat /\ disk[t].leases \in Nat
      /\ pc[w] \in Writing => cur[w] \in Tasks
  BY DEF TypeOK, File
<1>1. /\ CopyCurrent(w) /\ GotCounted(w) /\ ExecutionsAreCounted /\ UncreatedIsUnleased
      /\ CopyReady(w)
  BY DEF SerialInv, CopiesReady
<1>2. /\ pc[w] \in {"resultWrite", "followup", "resultFinish"} /\ cur[w] \in Tasks
      /\ got[w] = {} /\ UNCHANGED owed
  <2>1. pc[w] \in {"resultWrite", "followup", "resultFinish"} /\ UNCHANGED owed
    BY DEF Result, ResultWrite, FollowupBind, FollowupError, ResultFinish
  <2>2. QED
    BY <1>0, <1>1, <2>1 DEF GotCounted, Writing
\* What is written has the leases of the file, and exists, as the file does.
<1>3. /\ copy[w][cur[w]].leases = disk[cur[w]].leases
      /\ copy[w][cur[w]].status \in {"done", "failed"}
      /\ Exists(cur[w])
  BY <1>1, <1>2 DEF CopyCurrent, CopyReady, Exists, Missing
<1>4. ASSUME \A u \in Tasks \ {cur[w]} : disk'[u] = disk[u],
             disk'[cur[w]].leases = disk[cur[w]].leases, disk'[cur[w]].status # "none",
             got'[w] = {}
      PROVE  ExecutionsAreCounted' /\ UncreatedIsUnleased' /\ GotCounted(w)'
  BY <1>1, <1>2, <1>3, <1>4 DEF ExecutionsAreCounted, UncreatedIsUnleased, GotCounted, Exists
<1>5. CASE ResultWrite(w)
  <2>1. /\ disk'[cur[w]] = copy[w][cur[w]]
        /\ \A u \in Tasks \ {cur[w]} : disk'[u] = disk[u]
    BY <1>2, <1>5, WriteAt DEF ResultWrite
  <2>2. \/ Release(w)
        \/ pc'[w] \in {"followup", "resultFinish"} /\ UNCHANGED <<cur, got, copy>>
    BY <1>0, <1>5 DEF ResultWrite
  <2>3. CASE Release(w)
    BY <1>3, <1>4, <2>1, <2>3, Released, OneWorker DEF CopyCurrent
  <2>4. CASE pc'[w] \in {"followup", "resultFinish"} /\ UNCHANGED <<cur, got, copy>>
    BY <1>2, <1>3, <1>4, <2>1, <2>4, OneWorker DEF CopyCurrent
  <2>5. QED
    BY <2>2, <2>3, <2>4
<1>6. ASSUME NEW b \in Tasks, FollowupBind(w, b) PROVE SerialInv'
  <2>0. /\ disk[b].status = "none" /\ disk'[b] = NewFile
        /\ \A u \in Tasks \ {b} : disk'[u] = disk[u]
    BY <1>6, FollowupWhat
  <2>1. /\ disk'[b].status = "queued" /\ disk'[b].leases = 0
        /\ disk[b].status = "none" /\ \A u \in Tasks \ {b} : disk'[u] = disk[u]
        /\ pc[w] = "followup" /\ pc'[w] = "resultFinish" /\ UNCHANGED <<cur, got, copy>>
    BY <1>0, <1>6, <2>0, NewFileIsQueued DEF FollowupBind
  <2>2. b # cur[w] /\ owed[b] = 0
    BY <1>1, <1>3, <2>1 DEF Exists, Missing, UncreatedIsUnleased
  <2>3. CopyCurrent(w)' /\ GotCounted(w)'
    BY <1>1, <1>2, <2>1, <2>2 DEF CopyCurrent, GotCounted
  <2>4. ExecutionsAreCounted' /\ UncreatedIsUnleased'
    BY <1>1, <1>2, <2>1, <2>2 DEF ExecutionsAreCounted, UncreatedIsUnleased, Exists
  <2>5. QED
    BY <2>3, <2>4, OneWorker
<1>7. CASE FollowupError(w)
  <2>1. /\ disk'[cur[w]] = [copy[w][cur[w]] EXCEPT !.followupError = TRUE]
        /\ \A u \in Tasks \ {cur[w]} : disk'[u] = disk[u]
        /\ copy'[w][cur[w]] = disk'[cur[w]]
    BY <1>7, FollowupWhat
  <2>2. /\ disk'[cur[w]].leases = copy[w][cur[w]].leases
        /\ disk'[cur[w]].status = copy[w][cur[w]].status
    BY <1>0, <1>2, <2>1, LeasesOfSteps
  <2>3. pc'[w] = "resultFinish" /\ UNCHANGED <<cur, got>>
    BY <1>0, <1>7 DEF FollowupError
  <2>4. QED
    BY <1>2, <1>3, <1>4, <2>1, <2>2, <2>3, OneWorker DEF CopyCurrent
<1>8. CASE ResultFinish(w)
  <2>1. /\ disk'[cur[w]] = copy[w][cur[w]] /\ Release(w)
        /\ \A u \in Tasks \ {cur[w]} : disk'[u] = disk[u]
    BY <1>2, <1>8, WriteAt DEF ResultFinish
  <2>2. QED
    BY <1>3, <1>4, <2>1, Released, OneWorker DEF CopyCurrent
<1>9. QED
  BY <1>5, <1>6, <1>7, <1>8 DEF Result

\* Every step of cancelAgentTasks after its load keeps the invariant.
LEMMA SerialCancel ==
  ASSUME TypeOK, CopiesReady, SerialInv, NEW w \in Workers, \A v \in Workers : v = w, Cancel(w)
  PROVE  SerialInv'
<1>1. /\ CopyCurrent(w) /\ GotCounted(w) /\ ExecutionsAreCounted /\ UncreatedIsUnleased
      /\ CopyReady(w)
  BY DEF SerialInv, CopiesReady
<1>2. ASSUME NEW t \in Tasks, CancelWrite(w, t) PROVE SerialInv'
  <2>1. /\ disk'[t] = [copy[w][t] EXCEPT !.age = 0]
        /\ \A u \in Tasks \ {t} : disk'[u] = disk[u]
        /\ UNCHANGED <<owed, got, pc>> /\ pc[w] = "cancel" /\ t \in todo[w]
        /\ todo'[w] = todo[w] \ {t} /\ todo[w] \subseteq Tasks
        /\ copy[w][t] \in File /\ copy \in [Workers -> [Tasks -> File]]
    BY <1>2, WriteAt DEF CancelWrite, TypeOK, Visit
  <2>2. /\ disk'[t].leases = disk[t].leases /\ disk'[t].status = "cancelled"
        /\ Exists(t) /\ got[w] = {}
    BY <1>1, <2>1, LeasesOfSteps
       DEF CopyCurrent, CopyReady, GotCounted, Exists, Missing, Open
  <2>3. copy' = [copy EXCEPT ![w] = [copy[w] EXCEPT ![t] = NoFile]]
    BY <1>2 DEF CancelWrite
  <2>4. \A u \in Tasks \ {t} : copy'[w][u] = copy[w][u]
    BY <2>1, <2>3
  <2>5. CopyCurrent(w)' /\ GotCounted(w)'
    BY <1>1, <2>1, <2>2, <2>4 DEF CopyCurrent, GotCounted
  <2>6. ExecutionsAreCounted' /\ UncreatedIsUnleased'
    BY <1>1, <2>1, <2>2 DEF ExecutionsAreCounted, UncreatedIsUnleased, Exists
  <2>7. QED
    BY <2>5, <2>6, OneWorker
<1>3. CASE CancelEnd(w)
  BY <1>3, SerialRelease DEF CancelEnd
<1>4. QED
  BY <1>2, <1>3 DEF Cancel

\* The other steps keep the invariant.
LEMMA SerialEnvironment ==
  ASSUME TypeOK, CopiesReady, SerialInv
  PROVE  /\ \A t \in Tasks : CreateTask(t) \/ ForgetExecution(t) => SerialInv'
         /\ Tick => SerialInv'
         /\ UNCHANGED vars => SerialInv'
<1>0. /\ disk \in [Tasks -> File] /\ copy \in [Workers -> [Tasks -> File]]
      /\ owed \in [Tasks -> Nat] /\ todo \in [Workers -> SUBSET Tasks]
      /\ got \in [Workers -> SUBSET Tasks]
      /\ \A t \in Tasks : owed[t] \in Nat /\ disk[t].leases \in Nat
      /\ \A w \in Workers : pc[w] \in Writing => cur[w] \in Tasks
  BY DEF TypeOK, File
<1>1. /\ ExecutionsAreCounted /\ UncreatedIsUnleased
      /\ \A w \in Workers : CopyCurrent(w) /\ GotCounted(w) /\ CopyReady(w)
  BY DEF SerialInv, CopiesReady
<1>2. ASSUME NEW t \in Tasks, CreateTask(t) PROVE SerialInv'
  <2>1. /\ disk[t].status = "none" /\ disk'[t].status = "queued" /\ disk'[t].leases = 0
        /\ \A u \in Tasks \ {t} : disk'[u] = disk[u]
        /\ UNCHANGED <<owed, got, todo, pc, cur, copy>>
    BY <1>2, WriteAt, NewFileIsQueued DEF CreateTask
  <2>2. owed[t] = 0
    BY <1>1, <2>1 DEF UncreatedIsUnleased
  <2>3. ASSUME NEW w \in Workers PROVE CopyCurrent(w)' /\ GotCounted(w)'
    <3>1. pc[w] \in Writing => cur[w] # t
      BY <1>1, <2>1 DEF CopyCurrent, CopyReady, Writing, Exists, Missing
    <3>2. pc[w] \in {"prune", "cancel"} => t \notin todo[w]
      BY <1>1, <2>1 DEF CopyCurrent, Completed, Open
    <3>3. t \notin got[w]
      BY <1>1, <2>1 DEF GotCounted
    <3>4. /\ pc[w] \in Writing => disk'[cur[w]] = disk[cur[w]]
          /\ pc[w] \in {"prune", "cancel"} => \A u \in todo[w] : disk'[u] = disk[u]
      BY <1>0, <2>1, <3>1, <3>2
    <3>5. CopyCurrent(w)'
      BY <1>1, <2>1, <3>4 DEF CopyCurrent, Writing, Exists
    <3>6. GotCounted(w)'
      BY <1>0, <1>1, <2>1, <3>3 DEF GotCounted, Exists
    <3>7. QED
      BY <3>5, <3>6
  <2>4. ExecutionsAreCounted' /\ UncreatedIsUnleased'
    BY <1>1, <2>1, <2>2 DEF ExecutionsAreCounted, UncreatedIsUnleased, Exists
  <2>5. QED
    BY <2>3, <2>4 DEF SerialInv
<1>3. ASSUME NEW t \in Tasks, ForgetExecution(t) PROVE SerialInv'
  <2>1. /\ owed[t] > 0 /\ owed' = [owed EXCEPT ![t] = @ - 1]
        /\ UNCHANGED <<disk, got, todo, pc, cur, copy>>
    BY <1>3 DEF ForgetExecution
  <2>2. \A u \in Tasks : owed'[u] <= owed[u] /\ owed'[u] \in Nat
    BY <1>0, <2>1
  <2>3. \A w \in Workers : CopyCurrent(w)'
    BY <1>1, <2>1 DEF CopyCurrent, Exists
  <2>4. \A w \in Workers : GotCounted(w)'
    BY <1>0, <1>1, <2>1, <2>2 DEF GotCounted, Exists
  <2>5. ExecutionsAreCounted'
    BY <1>0, <1>1, <2>1, <2>2 DEF ExecutionsAreCounted, Exists
  <2>6. UncreatedIsUnleased'
    BY <1>0, <1>1, <2>1, <2>2 DEF UncreatedIsUnleased
  <2>7. QED
    BY <2>3, <2>4, <2>5, <2>6 DEF SerialInv
<1>4. ASSUME Tick PROVE SerialInv'
  <2>1. \A t \in Tasks : disk'[t].status = disk[t].status /\ disk'[t].leases = disk[t].leases
    BY <1>0, <1>4, LeasesOfSteps DEF Tick
  <2>2. \A w \in Workers, t \in Tasks : /\ copy'[w][t].status = copy[w][t].status
                                       /\ copy'[w][t].leases = copy[w][t].leases
    BY <1>0, <1>4, LeasesOfSteps DEF Tick
  <2>3. UNCHANGED <<owed, got, todo, pc, cur>>
    BY <1>4 DEF Tick
  <2>4. ASSUME NEW w \in Workers PROVE CopyCurrent(w)' /\ GotCounted(w)'
    <3>1. pc[w] \in Writing =>
            /\ disk'[cur[w]].status = disk[cur[w]].status
            /\ disk'[cur[w]].leases = disk[cur[w]].leases
            /\ copy'[w][cur[w]].status = copy[w][cur[w]].status
            /\ copy'[w][cur[w]].leases = copy[w][cur[w]].leases
      BY <1>0, <2>1, <2>2
    <3>2. \A t \in todo[w] : /\ disk'[t].status = disk[t].status
                            /\ disk'[t].leases = disk[t].leases
                            /\ copy'[w][t].leases = copy[w][t].leases
      BY <1>0, <2>1, <2>2
    <3>3. CopyCurrent(w)'
      BY <1>1, <2>3, <3>1, <3>2 DEF CopyCurrent, Writing, Exists
    <3>4. GotCounted(w)'
      BY <1>0, <1>1, <2>1, <2>3 DEF GotCounted, Exists
    <3>5. QED
      BY <3>3, <3>4
  <2>5. ExecutionsAreCounted' /\ UncreatedIsUnleased'
    BY <1>1, <2>1, <2>3 DEF ExecutionsAreCounted, UncreatedIsUnleased, Exists
  <2>6. QED
    BY <2>4, <2>5 DEF SerialInv
<1>5. ASSUME UNCHANGED vars PROVE SerialInv'
  BY <1>1, <1>5 DEF vars, SerialInv, CopyCurrent, GotCounted, ExecutionsAreCounted,
                    UncreatedIsUnleased, Exists
<1>6. QED
  BY <1>2, <1>3, <1>4, <1>5

\* What holds while the operations do not overlap.
LEMMA SerialInvariant ==
  ASSUME Serialised
  PROVE  Spec => [](TypeOK /\ FilesWellFormed /\ CopiesReady /\ SerialInv)
<1> DEFINE Inv == TypeOK /\ FilesWellFormed /\ CopiesReady /\ SerialInv
<1>1. Init => Inv
  <2> SUFFICES ASSUME Init PROVE CopiesReady /\ SerialInv
    BY InitType, InitWellFormed
  <2>1. CopiesReady /\ (\A w \in Workers : CopyCurrent(w) /\ GotCounted(w))
    BY DEF Init, CopiesReady, CopyReady, CopyCurrent, GotCounted
  <2>2. ExecutionsAreCounted /\ UncreatedIsUnleased
    BY DEF Init, ExecutionsAreCounted, UncreatedIsUnleased, NoFile
  <2>3. QED
    BY <2>1, <2>2 DEF SerialInv
<1>2. Inv /\ [Next]_vars => Inv'
  <2> SUFFICES ASSUME Inv, [Next]_vars PROVE SerialInv'
    BY NextType, NextWellFormed, CopiesReadyStep
  <2>1. ASSUME NEW w \in Workers, Start(w) \/ Proceed(w) \/ Fault(w) PROVE SerialInv'
    <3>1. \A v \in Workers : v = w
      BY DEF Serialised
    <3>2. CASE Start(w)
      BY <3>1, <3>2, SerialStart
    <3>3. CASE Proceed(w)
      BY <3>1, <3>3, SerialPoll, SerialResult, SerialCancel DEF Proceed
    <3>4. CASE Fault(w)
      BY <3>1, <3>4, SerialRelease DEF Fault, Crash, WriteFails, BreakOff
    <3>5. QED
      BY <2>1, <3>2, <3>3, <3>4
  <2>2. QED
    BY <2>1, SerialEnvironment DEF Next
<1>3. QED
  BY <1>1, <1>2, PTL DEF Spec

\* One operation at a time, an agent never reports more executions of a task
\* than its lease_count records.
THEOREM ExecutionsAreLeases ==
  ASSUME Serialised
  PROVE  Spec => []ExecutionsAreCounted
<1>1. SerialInv => ExecutionsAreCounted
  BY DEF SerialInv
<1>2. QED
  BY <1>1, SerialInvariant, PTL
-------------------------------------------------------------------------------
(* The files implement the lifecycle *)

\* What a step does to one task, seen as the lifecycle sees it.
Phase(t) == disk[t].status
Tries(t) == disk[t].leases
Elsewhere(t) == \A u \in Tasks \ {t} : Phase(u)' = Phase(u) /\ Tries(u)' = Tries(u)

\* A step that changes one task is a step of the lifecycle if that change is.
LEMMA LifecycleMove ==
  ASSUME TypeOK, NEW t \in Tasks, Elsewhere(t),
         \/ Phase(t) = "none" /\ Phase(t)' = "queued" /\ Tries(t)' = Tries(t)
         \/ /\ Phase(t) = "queued" /\ Phase(t)' = "running"
            /\ Tries(t) < HighCap /\ Tries(t)' = Tries(t) + 1
         \/ /\ Phase(t) = "running" /\ Phase(t)' = "queued"
            /\ Tries(t) < HighCap /\ Tries(t)' = Tries(t)
         \/ /\ Phase(t) = "running" /\ Phase(t)' = "failed"
            /\ Tries(t) >= LowCap /\ Tries(t)' = Tries(t)
         \/ /\ Phase(t) \in Open \cup Completed /\ Phase(t)' \in {"done", "failed"}
            /\ Tries(t) > 0 /\ Tries(t)' = Tries(t)
         \/ Phase(t) \in Open /\ Phase(t)' = "cancelled" /\ Tries(t)' = Tries(t)
         \/ Phase(t) \in Completed /\ Phase(t)' = "pruned" /\ Tries(t)' = 0
         \/ Phase(t)' = Phase(t) /\ Tries(t)' = Tries(t)
  PROVE  [Lifecycle!Next]_(Lifecycle!vars)
<1> DEFINE phase == [u \in Tasks |-> disk[u].status]
           tries == [u \in Tasks |-> disk[u].leases]
<1>1. /\ phase' = [phase EXCEPT ![t] = Phase(t)']
      /\ tries' = [tries EXCEPT ![t] = Tries(t)']
  BY DEF Elsewhere, Phase, Tries
<1>2. phase[t] = Phase(t) /\ tries[t] = Tries(t)
  BY DEF Phase, Tries
<1>3. Tries(t)' = Tries(t) => UNCHANGED tries
  BY DEF Elsewhere, Tries
<1>4. Phase(t)' = Phase(t) => UNCHANGED phase
  BY DEF Elsewhere, Phase
<1> HIDE DEF phase, tries
<1>5. CASE Phase(t) = "none" /\ Phase(t)' = "queued" /\ Tries(t)' = Tries(t)
  <2>1. Lifecycle!Create(t)
    BY <1>1, <1>2, <1>3, <1>5 DEF Lifecycle!Create, Lifecycle!Move, phase, tries
  <2>2. QED
    BY <2>1 DEF Lifecycle!Next
<1>6. CASE /\ Phase(t) = "queued" /\ Phase(t)' = "running"
            /\ Tries(t) < HighCap /\ Tries(t)' = Tries(t) + 1
  <2>1. Lifecycle!Lease(t)
    BY <1>1, <1>2, <1>3, <1>6
    DEF Lifecycle!Lease, Lifecycle!Move, phase, tries
  <2>2. QED
    BY <2>1 DEF Lifecycle!Next
<1>7. CASE /\ Phase(t) = "running" /\ Phase(t)' = "queued"
            /\ Tries(t) < HighCap /\ Tries(t)' = Tries(t)
  <2>1. Lifecycle!Requeue(t)
    BY <1>1, <1>2, <1>3, <1>7
    DEF Lifecycle!Requeue, Lifecycle!Move, phase, tries
  <2>2. QED
    BY <2>1 DEF Lifecycle!Next
<1>8. CASE /\ Phase(t) = "running" /\ Phase(t)' = "failed"
            /\ Tries(t) >= LowCap /\ Tries(t)' = Tries(t)
  <2>1. Lifecycle!Expire(t)
    BY <1>1, <1>2, <1>3, <1>8
    DEF Lifecycle!Expire, Lifecycle!Move, phase, tries
  <2>2. QED
    BY <2>1 DEF Lifecycle!Next
<1>9. CASE /\ Phase(t) \in Open \cup Completed /\ Phase(t)' \in {"done", "failed"}
            /\ Tries(t) > 0 /\ Tries(t)' = Tries(t)
  <2>1. Phase(t)' = "done" => Lifecycle!Report(t, "done")
    BY <1>1, <1>2, <1>3, <1>9
    DEF Lifecycle!Report, Lifecycle!Move, Lifecycle!Open, Lifecycle!Completed, Open, Completed,
        phase, tries
  <2>2. Phase(t)' = "failed" => Lifecycle!Report(t, "failed")
    BY <1>1, <1>2, <1>3, <1>9
    DEF Lifecycle!Report, Lifecycle!Move, Lifecycle!Open, Lifecycle!Completed, Open, Completed,
        phase, tries
  <2>3. QED
    BY <1>9, <2>1, <2>2 DEF Lifecycle!Next
<1>10. CASE Phase(t) \in Open /\ Phase(t)' = "cancelled" /\ Tries(t)' = Tries(t)
  <2>1. Lifecycle!Cancel(t)
    BY <1>1, <1>2, <1>3, <1>10
    DEF Lifecycle!Cancel, Lifecycle!Move, phase, tries, Lifecycle!Open, Open
  <2>2. QED
    BY <2>1 DEF Lifecycle!Next
<1>11. CASE Phase(t) \in Completed /\ Phase(t)' = "pruned" /\ Tries(t)' = 0
  <2>1. Lifecycle!Prune(t)
    BY <1>1, <1>2, <1>3, <1>11
    DEF Lifecycle!Prune, Lifecycle!Move, phase, tries, Lifecycle!Completed, Completed
  <2>2. QED
    BY <2>1 DEF Lifecycle!Next
<1>12. CASE Phase(t)' = Phase(t) /\ Tries(t)' = Tries(t)
  BY <1>3, <1>4, <1>12 DEF Lifecycle!vars, phase, tries
<1>13. QED
  BY <1>5, <1>6, <1>7, <1>8, <1>9, <1>10, <1>11, <1>12

\* A step that changes no status and no count of leases is no step of it.
LEMMA LifecycleStutter ==
  ASSUME \A t \in Tasks : Phase(t)' = Phase(t) /\ Tries(t)' = Tries(t)
  PROVE  [Lifecycle!Next]_(Lifecycle!vars)
<1>1. /\ [t \in Tasks |-> disk[t].status]' = [t \in Tasks |-> disk[t].status]
      /\ [t \in Tasks |-> disk[t].leases]' = [t \in Tasks |-> disk[t].leases]
  BY DEF Phase, Tries
<1>2. QED
  BY <1>1 DEF Lifecycle!vars

\* Every step of a worker is one of the lifecycle, or none.
LEMMA WorkerLifecycle ==
  ASSUME TypeOK, FilesWellFormed, CopiesReady, SerialInv,
         NEW w \in Workers, Start(w) \/ Proceed(w) \/ Fault(w)
  PROVE  [Lifecycle!Next]_(Lifecycle!vars)
<1> USE DEF Phase, Tries, Elsewhere
<1>0. /\ disk \in [Tasks -> File] /\ copy \in [Workers -> [Tasks -> File]]
      /\ pc[w] \in Writing => cur[w] \in Tasks
      /\ todo[w] \subseteq Tasks
  BY DEF TypeOK
<1>1. CopyCurrent(w) /\ CopyReady(w) /\ UncreatedIsUnleased
  BY DEF SerialInv, CopiesReady
<1>2. /\ \A t \in Tasks : WellFormed(disk[t]) /\ WellFormed(copy[w][t])
      /\ \A t \in Tasks : disk[t].leases \in Nat
  BY <1>0 DEF FilesWellFormed, File
<1>3. CASE UNCHANGED <<disk, origin>>
  BY <1>3, LifecycleStutter
<1>4. ASSUME NEW t \in Tasks, PruneRemove(w, t) PROVE [Lifecycle!Next]_(Lifecycle!vars)
  <2>1. /\ disk[t].status \in Completed
        /\ disk'[t].status = "pruned" /\ disk'[t].leases = 0
    BY <1>1, <1>4, WriteAt DEF PruneRemove, NoFile, CopyCurrent
  <2>2. Elsewhere(t)
    BY <1>4, WriteAt DEF PruneRemove
  <2>3. QED
    BY <2>1, <2>2, LifecycleMove
<1>5. ASSUME \/ RecoverWrite(w) \/ LeaseWrite(w) \/ ResultWrite(w) \/ ResultFinish(w)
      PROVE [Lifecycle!Next]_(Lifecycle!vars)
  <2>1. cur[w] \in Tasks /\ disk'[cur[w]] = copy[w][cur[w]] /\ Elsewhere(cur[w])
    BY <1>0, <1>5, WriteAt DEF RecoverWrite, LeaseWrite, ResultWrite, ResultFinish, Writing
  <2>2. CASE RecoverWrite(w)
    <3>1. /\ disk[cur[w]].status = "running"
          /\ disk'[cur[w]].leases = disk[cur[w]].leases
          /\ disk'[cur[w]].status \in {"queued", "failed"}
          /\ disk'[cur[w]].status = "failed" => disk[cur[w]].leases >= LowCap
      BY <1>1, <2>1, <2>2 DEF RecoverWrite, CopyCurrent, CopyReady
    <3>2. disk'[cur[w]].status = "queued" => disk[cur[w]].leases < HighCap
      BY <1>2, <2>1, <3>1 DEF WellFormed
    <3>3. QED
      BY <2>1, <3>1, <3>2, LifecycleMove
  <2>3. CASE LeaseWrite(w)
    <3>1. /\ disk[cur[w]].status = "queued" /\ disk'[cur[w]].status = "running"
          /\ disk'[cur[w]].leases = disk[cur[w]].leases + 1
      BY <1>1, <2>1, <2>3 DEF LeaseWrite, CopyCurrent, CopyReady
    <3>2. disk[cur[w]].leases < HighCap
      BY <1>2, <2>1, <3>1 DEF WellFormed
    <3>3. QED
      BY <2>1, <3>1, <3>2, LifecycleMove
  <2>4. CASE ResultWrite(w)
    <3>1. /\ Exists(cur[w]) /\ disk[cur[w]].leases > 0
          /\ disk'[cur[w]].status \in {"done", "failed"}
          /\ disk'[cur[w]].leases = disk[cur[w]].leases
      BY <1>1, <2>1, <2>4 DEF ResultWrite, CopyCurrent, CopyReady
    <3>2. disk[cur[w]].status \in Open \cup Completed
      BY <1>0, <2>1, <3>1 DEF Exists, File, Status
    <3>3. QED
      BY <2>1, <3>1, <3>2, LifecycleMove
  <2>5. CASE ResultFinish(w)
    <3>1. /\ disk'[cur[w]].status = disk[cur[w]].status
          /\ disk'[cur[w]].leases = disk[cur[w]].leases
      BY <1>1, <2>1, <2>5 DEF ResultFinish, CopyCurrent
    <3>2. QED
      BY <2>1, <3>1, LifecycleMove
  <2>6. QED
    BY <1>5, <2>2, <2>3, <2>4, <2>5
<1>6. ASSUME NEW t \in Tasks, CancelWrite(w, t) PROVE [Lifecycle!Next]_(Lifecycle!vars)
  <2>1. disk'[t] = [copy[w][t] EXCEPT !.age = 0] /\ Elsewhere(t)
    BY <1>6, WriteAt DEF CancelWrite
  <2>2. /\ disk[t].status \in Open /\ copy[w][t].status = "cancelled"
        /\ copy[w][t].leases = disk[t].leases
    BY <1>1, <1>6 DEF CancelWrite, CopyCurrent, CopyReady
  <2>3. copy[w][t] \in File
    BY <1>0
  <2>4. disk'[t].status = "cancelled" /\ disk'[t].leases = disk[t].leases
    BY <2>1, <2>2, <2>3, LeasesOfSteps
  <2>5. QED
    BY <2>1, <2>2, <2>4, LifecycleMove
<1>7. ASSUME NEW b \in Tasks, FollowupBind(w, b) PROVE [Lifecycle!Next]_(Lifecycle!vars)
  <2>1. disk[b].status = "none" /\ disk'[b] = NewFile /\ Elsewhere(b)
    BY <1>7, FollowupWhat
  <2>2. disk[b].leases = 0 /\ disk'[b].status = "queued" /\ disk'[b].leases = 0
    BY <1>1, <2>1, NewFileIsQueued DEF UncreatedIsUnleased
  <2>3. QED
    BY <2>1, <2>2, LifecycleMove
<1>8. ASSUME FollowupError(w) PROVE [Lifecycle!Next]_(Lifecycle!vars)
  <2>1. /\ cur[w] \in Tasks /\ Elsewhere(cur[w])
        /\ disk'[cur[w]] = [copy[w][cur[w]] EXCEPT !.followupError = TRUE]
    BY <1>8, FollowupWhat
  <2>2. copy[w][cur[w]] \in File
    BY <1>0, <2>1
  <2>3. /\ copy[w][cur[w]].status = disk[cur[w]].status
        /\ copy[w][cur[w]].leases = disk[cur[w]].leases
    BY <1>1, <1>8 DEF FollowupError, CopyCurrent
  <2>4. /\ disk'[cur[w]].status = disk[cur[w]].status
        /\ disk'[cur[w]].leases = disk[cur[w]].leases
    BY <2>1, <2>2, <2>3, LeasesOfSteps
  <2>5. QED
    BY <2>1, <2>4, LifecycleMove
<1>9. QED
  BY <1>3, <1>4, <1>5, <1>6, <1>7, <1>8, StepsByDisk DEF Rewrites

\* One operation at a time, the task files implement the lifecycle: whatever
\* is written is what one step of the lifecycle makes of the file as it is.
THEOREM TasksImplementLifecycle ==
  ASSUME Serialised
  PROVE  Spec => LifecycleSpec
<1> DEFINE Inv == TypeOK /\ FilesWellFormed /\ CopiesReady /\ SerialInv
<1>1. Init => Lifecycle!Init
  <2> SUFFICES ASSUME Init PROVE Lifecycle!Init
    OBVIOUS
  <2>1. \A t \in Tasks : disk[t].status = "none" /\ disk[t].leases = 0
    BY DEF Init, NoFile
  <2>2. QED
    BY <2>1 DEF Lifecycle!Init
<1>2. Inv /\ [Next]_vars => [Lifecycle!Next]_(Lifecycle!vars)
  <2> SUFFICES ASSUME Inv, [Next]_vars PROVE [Lifecycle!Next]_(Lifecycle!vars)
    OBVIOUS
  <2>1. CASE \E w \in Workers : Start(w) \/ Proceed(w) \/ Fault(w)
    BY <2>1, WorkerLifecycle
  <2>2. ASSUME NEW t \in Tasks, CreateTask(t) PROVE [Lifecycle!Next]_(Lifecycle!vars)
    <3>1. /\ disk[t].status = "none" /\ disk'[t] = NewFile /\ Elsewhere(t)
      BY <2>2, WriteAt DEF CreateTask, Elsewhere, Phase, Tries
    <3>2. disk[t].leases = 0 /\ disk'[t].status = "queued" /\ disk'[t].leases = 0
      BY <3>1, NewFileIsQueued DEF SerialInv, UncreatedIsUnleased
    <3>3. QED
      BY <3>1, <3>2, LifecycleMove DEF Phase, Tries
  <2>3. CASE (\E t \in Tasks : ForgetExecution(t)) \/ UNCHANGED vars
    BY <2>3, LifecycleStutter DEF ForgetExecution, vars, Phase, Tries
  <2>4. CASE Tick
    BY <2>4, LeasesOfSteps, LifecycleStutter DEF Tick, TypeOK, Phase, Tries
  <2>5. QED
    BY <2>1, <2>2, <2>3, <2>4 DEF Next
<1>3. QED
  BY <1>1, <1>2, SerialInvariant, PTL DEF Spec, LifecycleSpec, Lifecycle!Spec
===============================================================================
