--------------------------- MODULE TelegramDaemonProofs ---------------------------
(***************************************************************************)
(* Theorems about the bot daemon, for any sequence of updates, any number  *)
(* of agents and batches, and any number of kills and restarts.            *)
(***************************************************************************)
EXTENDS TelegramDaemon, WellFoundedInduction, TLAPS

USE DEF telegram, dir, hub, memory, listing, counts

-------------------------------------------------------------------------------
(* Numbers *)

\* The bounds are numbers, and the updates are numbered from one.
LEMMA Numbers ==
  /\ MaxBatches \in Nat \ {0} /\ MaxPending \in Nat \ {0}
  /\ Timeout \in Nat \ {0} /\ Limit \in Nat \ {0}
  /\ Len(Kind) \in Nat
  /\ Updates = 1..Len(Kind)
  /\ \A u \in Updates : Kind[u] \in Kinds /\ Target[u] \in Nat
  BY TelegramAssumption DEF Updates

\* A set of numbers that is not empty has a least one.
LEMMA NatMinimum ==
  ASSUME NEW S, S \subseteq Nat, S # {}
  PROVE  \E x \in S : \A y \in S : x <= y
<1>1. \A y, z \in Nat : y < z => <<y, z>> \in OpToRel(<, Nat)
  <2>1. OpToRel(<, Nat) = {p \in Nat \X Nat : p[1] < p[2]}
    BY Zenon DEF OpToRel
  <2>2. QED
    BY <2>1
<1>2. \E R : /\ IsWellFoundedOn(R, Nat)
             /\ \A y, z \in Nat : y < z => <<y, z>> \in R
  BY <1>1, NatLessThanWellFounded, Zenon
<1>3. PICK R : /\ IsWellFoundedOn(R, Nat)
               /\ \A y, z \in Nat : y < z => <<y, z>> \in R
  BY <1>2, Zenon
<1>4. IsWellFoundedOn(R, Nat)
  BY <1>3
<1>5. PICK x \in S : \A y \in S : ~ (<<y, x>> \in R)
  BY <1>4, WFMin
<1>6. \A y \in S : x \in Nat /\ y \in Nat /\ ~(y < x)
  BY <1>3, <1>5
<1>7. QED
  BY <1>6

\* Least is what its name says.
LEMMA LeastIsLeast ==
  ASSUME NEW S, S \subseteq Nat, S # {}
  PROVE  Least(S) \in S /\ \A v \in S : Least(S) <= v
  BY NatMinimum DEF Least

-------------------------------------------------------------------------------
(* Type correctness *)

\* What a stopped daemon is left with has the right types.
LEMMA StopType ==
  ASSUME TypeOK, Stop
  PROVE  /\ pc' \in Labels /\ offset' \in 0..Len(Kind) + 1
         /\ inbox' \subseteq Updates /\ noticed' \in BOOLEAN
         /\ batch' \in Batches \cup {0}
         /\ sig' \in Snapshots \cup {NoSnapshot}
         /\ view' \in [sig: Snapshots, read: Snapshots] \cup {NoView}
         /\ outbox' \in [Batches -> Answers]
         /\ dropped' \subseteq Batches
<1>0. 0 \in 0..Len(Kind) + 1
  BY Numbers
<1>1. /\ pc' \in Labels /\ offset' \in 0..Len(Kind) + 1
      /\ inbox' \subseteq Updates /\ noticed' \in BOOLEAN
      /\ batch' \in Batches \cup {0}
  BY <1>0, Zenon DEF Stop, Labels
<1>2. /\ sig' \in Snapshots \cup {NoSnapshot}
      /\ view' \in [sig: Snapshots, read: Snapshots] \cup {NoView}
  BY DEF Stop
<1>3. outbox' \in [Batches -> Answers] /\ dropped' \subseteq Batches
  BY DEF Stop, Answers, TypeOK
<1>4. QED
  BY <1>1, <1>2, <1>3

\* Changing the state of one task gives a directory.
LEMMA DirectoryType ==
  ASSUME TypeOK, NEW b \in Batches, NEW a \in Agents, NEW s \in TaskStates
  PROVE  [tasks EXCEPT ![b][a] = s] \in Directory
<1>1. tasks \in [Batches -> [Agents -> TaskStates]]
  BY DEF TypeOK, Directory
<1>2. [tasks[b] EXCEPT ![a] = s] \in [Agents -> TaskStates]
  BY <1>1
<1>3. [tasks EXCEPT ![b][a] = s] = [tasks EXCEPT ![b] = [tasks[b] EXCEPT ![a] = s]]
  BY <1>1
<1>4. QED
  BY <1>1, <1>2, <1>3 DEF Directory

\* So does its snapshot.
LEMMA SnapshotType == TypeOK => Snapshot \in Snapshots
  BY DEF TypeOK, Snapshot, Snapshots

\* The surroundings keep the types.
LEMMA SurroundingsType ==
  ASSUME TypeOK
  PROVE  /\ Arrive => TypeOK'
         /\ \A b \in Batches, a \in Agents : Complete(b, a) \/ Rewrite(b, a) \/ Prune(b, a) => TypeOK'
         /\ Tick => TypeOK'
         /\ Start \/ Kill \/ Restart => TypeOK'
         /\ UNCHANGED vars => TypeOK'
<1>1. ASSUME Arrive PROVE TypeOK'
  BY <1>1, Numbers DEF TypeOK, Arrive
<1>2. ASSUME NEW b \in Batches, NEW a \in Agents, Complete(b, a) \/ Rewrite(b, a) \/ Prune(b, a)
      PROVE  TypeOK'
  <2>0. PICK s \in {"open", "done", "pruned"} :
          tasks' = [tasks EXCEPT ![b][a] = s] /\ written' = written + 1
    BY <1>2 DEF Complete, Rewrite, Prune, Change
  <2>1. tasks' \in Directory
    <3>1. s \in TaskStates
      BY DEF TaskStates
    <3>2. QED
      BY <2>0, <3>1, DirectoryType
  <2>2. written' \in Nat
    BY <2>0 DEF TypeOK
  <2>3. QED
    BY <1>2, <2>1, <2>2 DEF TypeOK, Complete, Rewrite, Prune
<1>3. ASSUME Tick PROVE TypeOK'
  <2>1. age' \in [Batches -> 0..Timeout]
    <3>1. age \in [Batches -> 0..Timeout]
      BY DEF TypeOK
    <3>2. \A n \in 0..Timeout : Min2(n + 1, Timeout) \in 0..Timeout
      BY Numbers DEF Min2
    <3>3. QED
      BY <1>3, <3>1, <3>2 DEF Tick
  <2>2. QED
    BY <1>3, <2>1 DEF TypeOK, Tick
<1>4. ASSUME Start \/ Kill \/ Restart PROVE TypeOK'
  <2>1. CASE Start
    BY <2>1 DEF TypeOK, Start, Labels
  <2>2. CASE Kill
    <3>1. /\ restart' \in Nat /\ missed' \in BOOLEAN /\ kills' \in Nat
          /\ UNCHANGED <<telegram, dir, pending, age, notice, installed, serving,
                         installs, handled, sent>>
      BY <2>2 DEF TypeOK, Kill
    <3>2. QED
      BY <2>2, <3>1, StopType DEF TypeOK, Kill
  <2>3. CASE Restart
    <3>1. /\ restart' \in Nat /\ missed' \in BOOLEAN /\ serving' \in Nat
          /\ UNCHANGED <<telegram, dir, pending, age, notice, installed, installs,
                         handled, sent, kills>>
      <4>1. restart \in Nat /\ installed \in Nat
        BY DEF TypeOK
      <4>2. restart' \in Nat /\ serving' \in Nat
        BY <2>3, <4>1 DEF Restart
      <4>3. QED
        BY <2>3, <4>2, Zenon DEF Restart
    <3>2. QED
      BY <2>3, <3>1, StopType DEF TypeOK, Restart
  <2>4. QED
    BY <1>4, <2>1, <2>2, <2>3
<1>5. ASSUME UNCHANGED vars PROVE TypeOK'
  BY <1>5 DEF TypeOK, vars
<1>6. QED
  BY <1>1, <1>2, <1>3, <1>4, <1>5

\* A handler that is done keeps the types of what it changes.
LEMMA HandledType ==
  ASSUME TypeOK, NEW u \in Updates, Handled(u)
  PROVE  /\ handled' \subseteq Updates
         /\ inbox' \subseteq Updates
         /\ pc' \in Labels
  BY DEF TypeOK, Handled, Labels

\* Where the daemon is says what it holds: an update while it handles one, a
\* batch while it creates one, results while it sends them.
Handling == {"dispatch", "record"} \cup Upgrading
USE DEF Upgrading
Position ==
  /\ pc \in Handling => inbox # {}
  /\ pc \in {"dispatch", "record"} => batch \in Batches
  /\ pc \notin {"dispatch", "record"} => batch = 0
  /\ pc # "send" => \A b \in Batches : outbox[b] = "none"

\* The update that is being handled is the least of the inbox.
LEMMA LeastUpdate ==
  ASSUME TypeOK, inbox # {}
  PROVE  /\ Least(inbox) \in inbox /\ Least(inbox) \in Updates
         /\ \A v \in inbox : Least(inbox) <= v
<1>1. inbox \subseteq Nat
  BY Numbers DEF TypeOK
<1>2. QED
  BY <1>1, LeastIsLeast DEF TypeOK

\* A batch that is begun has a number that was not used.
LEMMA FreshBatch ==
  ASSUME Unused # {}
  PROVE  Least(Unused) \in Unused /\ Least(Unused) \in Batches
<1>1. Unused \subseteq Batches /\ Unused \subseteq Nat
  BY Numbers DEF Unused, Batches
<1>2. QED
  BY <1>1, LeastIsLeast

\* The notice and getUpdates keep the types.
LEMMA PollType ==
  ASSUME TypeOK
  PROVE  /\ NoNotice => TypeOK'
         /\ \A ok \in BOOLEAN : SendNotice(ok) => TypeOK'
         /\ GetUpdates => TypeOK'
         /\ GetUpdatesFails => TypeOK'
<1>1. ASSUME NoNotice PROVE TypeOK'
  BY <1>1 DEF TypeOK, NoNotice, Labels
<1>2. ASSUME NEW ok \in BOOLEAN, SendNotice(ok) PROVE TypeOK'
  BY <1>2 DEF TypeOK, SendNotice, Noticed, Labels
<1>3. Max2(confirmed, offset) \in 1..Len(Kind) + 1
  BY Numbers DEF TypeOK, Max2
<1>4. ASSUME GetUpdates PROVE TypeOK'
  <2>1. confirmed' \in 1..Len(Kind) + 1 /\ confirmed' \in Nat \ {0}
    BY <1>3, <1>4, Numbers DEF GetUpdates
  <2>2. inbox' \subseteq Updates
    BY <1>4, <2>1, Numbers DEF TypeOK, GetUpdates, Min2
  <2>3. QED
    BY <1>4, <2>1, <2>2 DEF TypeOK, GetUpdates, Labels
<1>5. ASSUME GetUpdatesFails PROVE TypeOK'
  <2>1. confirmed' \in 1..Len(Kind) + 1
    BY <1>3, <1>5 DEF TypeOK, GetUpdatesFails
  <2>2. QED
    BY <1>5, <2>1 DEF TypeOK, GetUpdatesFails, Labels
<1>6. QED
  BY <1>1, <1>2, <1>4, <1>5

\* Handling an update keeps the types.
LEMMA HandleType ==
  ASSUME TypeOK, Position
  PROVE  /\ \A u \in Updates : Handle(u) \/ Install(u) => TypeOK'
         /\ \A a \in Agents : CreateTask(a) => TypeOK'
         /\ CreateFails \/ Created \/ Record \/ RecordFails => TypeOK'
         /\ Announce \/ Schedule \/ ScheduleFails => TypeOK'
<1>0. pc \in Handling => Least(inbox) \in Updates
  BY LeastUpdate DEF Position
<1>1. ASSUME NEW u \in Updates, Handle(u) PROVE TypeOK'
  <2>1. offset' \in 0..Len(Kind) + 1
    BY <1>1, Numbers DEF TypeOK, Handle, NextOffset, Max2
  <2>2. /\ UNCHANGED <<telegram, dir, pending, age, notice, hub, noticed, listing,
                       outbox, sent, dropped, kills>>
        /\ pc' \in Labels /\ handled' \subseteq Updates
        /\ inbox' \subseteq Updates
    BY <1>1, HandledType DEF TypeOK, Handle, Labels
  <2>3. batch' \in Batches \cup {0}
    BY <1>1, FreshBatch DEF TypeOK, Handle
  <2>4. QED
    BY <2>1, <2>2, <2>3 DEF TypeOK
<1>2. ASSUME NEW a \in Agents, CreateTask(a) PROVE TypeOK'
  <2>1. tasks' \in Directory
    BY <1>2, DirectoryType DEF Position, CreateTask, Change, TaskStates
  <2>2. written' \in Nat
    BY <1>2 DEF TypeOK, CreateTask, Change
  <2>3. QED
    BY <1>2, <2>1, <2>2 DEF TypeOK, CreateTask
<1>3. ASSUME CreateFails PROVE TypeOK'
  BY <1>0, <1>3, HandledType DEF TypeOK, CreateFails, Handling
<1>4. ASSUME Created PROVE TypeOK'
  <2>1. /\ UNCHANGED <<telegram, dir, pending, age, notice, hub, offset, noticed,
                       listing, outbox, sent, dropped, kills>>
        /\ pc' \in Labels /\ handled' \subseteq Updates
        /\ inbox' \subseteq Updates
        /\ batch' \in Batches \cup {0}
    BY <1>0, <1>4, HandledType DEF TypeOK, Created, Handling, Labels
  <2>2. QED
    BY <2>1 DEF TypeOK
<1>5. ASSUME Record PROVE TypeOK'
  <2>0. batch \in Batches /\ 0 \in 0..Timeout
    BY <1>5, Numbers DEF Record, Position
  <2>1. /\ pending' \subseteq Batches /\ dropped' \subseteq Batches
        /\ age' \in [Batches -> 0..Timeout]
    BY <1>5, <2>0 DEF TypeOK, Record
  <2>2. QED
    BY <1>0, <1>5, <2>1, HandledType DEF TypeOK, Record, Handling
<1>6. ASSUME RecordFails PROVE TypeOK'
  BY <1>0, <1>6, HandledType DEF TypeOK, RecordFails, Handling
<1>7. ASSUME Announce PROVE TypeOK'
  BY <1>7 DEF TypeOK, Announce, Labels
<1>8. ASSUME Schedule PROVE TypeOK'
  <2>1. restart' \in Nat
    BY <1>8 DEF TypeOK, Schedule
  <2>2. QED
    BY <1>0, <1>8, <2>1, HandledType DEF TypeOK, Schedule, Handling
<1>9. ASSUME ScheduleFails PROVE TypeOK'
  <2>1. notice' \in BOOLEAN
    BY <1>9 DEF TypeOK, ScheduleFails
  <2>2. QED
    BY <1>0, <1>9, <2>1, HandledType DEF TypeOK, ScheduleFails, Handling
<1>10. ASSUME NEW u \in Updates, Install(u) PROVE TypeOK'
  <2>1. offset' \in 0..Len(Kind) + 1
    BY <1>10, Numbers DEF TypeOK, Install, NextOffset, Max2
  <2>2. /\ installed' \in Nat /\ installs' \in Nat /\ missed' \in BOOLEAN
        /\ UNCHANGED <<telegram, dir, pending, age, notice, serving, restart,
                       batch, noticed, listing, outbox, sent, dropped, kills>>
    <3>1. Target[u] \in Nat /\ installs + 1 \in Nat
      BY Numbers DEF TypeOK
    <3>2. QED
      BY <1>10, <3>1 DEF TypeOK, Install, Handled
  <2>3. pc' \in Labels /\ handled' \subseteq Updates /\ inbox' \subseteq Updates
    BY <1>10, HandledType DEF TypeOK, Install, Labels
  <2>4. QED
    BY <2>1, <2>2, <2>3 DEF TypeOK
<1>11. QED
  BY <1>1, <1>2, <1>3, <1>4, <1>5, <1>6, <1>7, <1>8, <1>9, <1>10

\* A snapshot c is no younger than d, and they are the same if their stamps are.
Before(c, d) == c.stamp <= d.stamp /\ (c.stamp = d.stamp => c.tasks = d.tasks)

\* A signature is older than the listing stored with it, and both are older than
\* the next signature that is taken.
Listing ==
  /\ pc = "collect" => sig \in Snapshots /\ Before(sig, Snapshot)
  /\ view # NoView => Before(view.sig, view.read) /\ Before(view.read, Snapshot)
  /\ pc = "collect" /\ view # NoView => Before(view.read, sig)

\* Collecting keeps the types.
LEMMA CollectType ==
  ASSUME TypeOK, Listing
  PROVE  /\ Sign => TypeOK'
         /\ Collect \/ CollectFails => TypeOK'
         /\ \A b \in Batches, ok \in BOOLEAN : Send(b, ok) => TypeOK'
         /\ SendEnds => TypeOK'
<1>1. ASSUME Sign PROVE TypeOK'
  BY <1>1, SnapshotType DEF TypeOK, Sign, Labels
<1>2. pc = "collect" => [sig |-> sig, read |-> Snapshot] \in [sig: Snapshots, read: Snapshots]
  BY SnapshotType DEF Listing
<1>3. ASSUME Collect PROVE TypeOK'
  <2>1. view' \in [sig: Snapshots, read: Snapshots] \cup {NoView}
    BY <1>2, <1>3 DEF TypeOK, Collect
  <2>2. \A b \in Batches : Answer(view'.read.tasks, b) \in Answers
    BY DEF Answer, Answers
  <2>3. outbox' \in [Batches -> Answers] /\ pending' \subseteq Batches
    BY <1>3, <2>2 DEF TypeOK, Collect, Remaining, Answers
  <2>4. QED
    BY <1>3, <2>1, <2>3 DEF TypeOK, Collect, Labels
<1>4. ASSUME CollectFails PROVE TypeOK'
  <2>1. view' \in [sig: Snapshots, read: Snapshots] \cup {NoView}
    BY <1>2, <1>4 DEF TypeOK, CollectFails
  <2>2. QED
    BY <1>4, <2>1 DEF TypeOK, CollectFails, Labels
<1>5. ASSUME NEW b \in Batches, NEW ok \in BOOLEAN, Send(b, ok) PROVE TypeOK'
  <2>1. /\ outbox' \in [Batches -> Answers] /\ sent' \in [Batches -> Nat]
        /\ dropped' \subseteq Batches
    <3>1. outbox \in [Batches -> Answers] /\ sent \in [Batches -> Nat]
          /\ dropped \subseteq Batches
      BY DEF TypeOK
    <3>2. QED
      BY <1>5, <3>1 DEF Send, Answers
  <2>2. QED
    BY <1>5, <2>1 DEF TypeOK, Send
<1>6. ASSUME SendEnds PROVE TypeOK'
  BY <1>6 DEF TypeOK, SendEnds, Labels
<1>7. QED
  BY <1>1, <1>3, <1>4, <1>5, <1>6

-------------------------------------------------------------------------------
(* The inductive invariants *)

\* What was delivered: what is below the offset was handled or is being
\* handled, and the inbox has no gap that was not handled.
Delivery ==
  /\ ConfirmedIsHandled
  /\ \A u \in Updates :
       u < offset => u \in handled \/ (pc \in Handling /\ u = Least(inbox))
  /\ \A u \in inbox, v \in Updates : v < u => v \in handled \/ v \in inbox

\* A batch is unused, begun, pending, about to be answered, answered: in this
\* order, and never back.
Begun(b) == sent[b] = 0 /\ outbox[b] = "none" /\ b \notin pending
Answering ==
  /\ ResultSentOnce
  /\ \A b \in Batches :
       /\ b \in pending \/ outbox[b] # "none" => sent[b] = 0
       /\ b \in pending => outbox[b] = "none"
       /\ ~Used(b) \/ batch = b => Begun(b)
  /\ pc = "record" => \A a \in Agents : tasks[batch][a] # "none"

-------------------------------------------------------------------------------
(* The steps keep the position and the types *)

\* A handler that is done holds no batch and no result.
LEMMA PositionStep ==
  ASSUME TypeOK, Position, [Next]_vars
  PROVE  Position'
<1>1. CASE Work
  <2>1. CASE NoNotice \/ \E ok \in BOOLEAN : SendNotice(ok)
    BY <2>1 DEF Position, NoNotice, SendNotice, Handling
  <2>2. CASE GetUpdates \/ GetUpdatesFails
    BY <2>2 DEF Position, GetUpdates, GetUpdatesFails, Handling
  <2>3. CASE \E u \in Updates : Handle(u)
    BY <2>3, FreshBatch DEF Position, Handle, Handled, Handling
  <2>11. CASE \E u \in Updates : Install(u)
    BY <2>11 DEF Position, Install, Handled, Handling
  <2>4. CASE \E a \in Agents : CreateTask(a)
    BY <2>4 DEF Position, CreateTask
  <2>5. CASE CreateFails \/ Created
    BY <2>5 DEF Position, CreateFails, Created, Handled, Handling
  <2>6. CASE Record \/ RecordFails
    BY <2>6 DEF Position, Record, RecordFails, Handled, Handling
  <2>7. CASE Announce \/ Schedule \/ ScheduleFails
    BY <2>7 DEF Position, Announce, Schedule, ScheduleFails, Handled, Handling
  <2>8. CASE Sign \/ Collect \/ CollectFails
    BY <2>8 DEF Position, Sign, Collect, CollectFails, Handling
  <2>9. CASE (\E b \in Batches, ok \in BOOLEAN : Send(b, ok)) \/ SendEnds
    BY <2>9 DEF Position, Send, SendEnds, Handling
  <2>10. QED
    BY <1>1, <2>1, <2>2, <2>3, <2>4, <2>5, <2>6, <2>7, <2>8, <2>9, <2>11 DEF Work
<1>2. CASE Start \/ Kill \/ Restart
  BY <1>2 DEF Position, Start, Kill, Restart, Stop, Handling
<1>3. CASE Arrive \/ Tick \/ \E b \in Batches, a \in Agents : Complete(b, a) \/ Rewrite(b, a) \/ Prune(b, a)
  BY <1>3 DEF Position, Arrive, Tick, Complete, Rewrite, Prune
<1>4. CASE UNCHANGED vars
  BY <1>4 DEF Position, vars
<1>5. QED
  BY <1>1, <1>2, <1>3, <1>4 DEF Next

\* Every step keeps the types.
LEMMA TypeStep ==
  ASSUME TypeOK, Position, Listing, [Next]_vars
  PROVE  TypeOK'
BY SurroundingsType, PollType, HandleType, CollectType DEF Next, Work

\* The initial state has the types and the position.
LEMMA InitType == Init => TypeOK /\ Position
<1> SUFFICES ASSUME Init PROVE TypeOK /\ Position
  OBVIOUS
<1>1. 0 \in 0..Len(Kind) /\ 1 \in 1..Len(Kind) + 1 /\ 0 \in 0..Timeout
      /\ 0 \in 0..Len(Kind) + 1
  BY Numbers
<1>2. /\ arrived \in 0..Len(Kind) /\ confirmed \in 1..Len(Kind) + 1
      /\ offset \in 0..Len(Kind) + 1 /\ age \in [Batches -> 0..Timeout]
  BY <1>1 DEF Init
<1>3. /\ tasks \in Directory /\ pc \in Labels /\ outbox \in [Batches -> Answers]
  BY DEF Init, Directory, TaskStates, Labels, Answers
<1>4. sig = NoSnapshot /\ view = NoView
  BY DEF Init
<1>5. Position
  BY DEF Init, Position, Handling
<1>6. {notice, missed, noticed} \subseteq BOOLEAN
  BY Zenon DEF Init
<1>7. /\ handled \subseteq Updates
      /\ {written, installed, serving, installs, restart, kills} \subseteq Nat
      /\ pending \subseteq Batches /\ inbox \subseteq Updates /\ batch = 0
      /\ sent \in [Batches -> Nat] /\ dropped \subseteq Batches
  BY DEF Init
<1>8. QED
  BY <1>2, <1>3, <1>4, <1>5, <1>6, <1>7 DEF TypeOK

-------------------------------------------------------------------------------
(* Delivery *)

\* Every step keeps what is known of the updates that were delivered.
LEMMA DeliveryStep ==
  ASSUME TypeOK, Position, Delivery, [Next]_vars
  PROVE  Delivery'
<1> USE DEF Delivery, ConfirmedIsHandled
<1>0. /\ confirmed \in Nat /\ offset \in Nat /\ Updates \subseteq Nat
      /\ handled \subseteq Updates /\ inbox \subseteq Updates
  BY Numbers DEF TypeOK
<1>1. ASSUME NEW u \in inbox, Handled(u)
      PROVE  /\ handled' = handled \cup {u}
             /\ pc' \notin Handling
             /\ \A w \in inbox', v \in Updates : v < w => v \in handled' \/ v \in inbox'
  BY <1>1 DEF Handled, Handling
<1>2. ASSUME NEW u \in inbox, u = Least(inbox), Handled(u), pc \in Handling,
             UNCHANGED <<confirmed, offset>>
      PROVE  Delivery'
  BY <1>1, <1>2
<1>3. pc \in Handling => Least(inbox) \in inbox
  BY LeastUpdate DEF Position
<1>4. CASE Work
  <2>1. CASE NoNotice \/ \E ok \in BOOLEAN : SendNotice(ok)
    BY <2>1 DEF NoNotice, SendNotice, Handling
  <2>2. CASE GetUpdates \/ GetUpdatesFails
    <3>1. pc \notin Handling /\ pc' \notin Handling /\ UNCHANGED <<offset, handled>>
      BY <2>2 DEF GetUpdates, GetUpdatesFails, Handling
    <3>2. confirmed' \in {confirmed, Max2(confirmed, offset)}
      BY <2>2 DEF GetUpdates, GetUpdatesFails
    <3>3. \A u \in Updates : u < confirmed' => u \in handled'
      BY <3>1, <3>2 DEF Max2
    <3>4. \A u \in inbox', v \in Updates : v < u => v \in handled' \/ v \in inbox'
      <4>1. CASE GetUpdates
        <5>1. inbox' = confirmed'..Min2(arrived, confirmed' + Limit - 1)
          BY <4>1 DEF GetUpdates
        <5>2. confirmed' \in Nat /\ arrived \in Nat /\ Limit \in Nat
          BY <1>0, <3>2, Numbers DEF Max2, TypeOK
        <5>3. confirmed' + Limit - 1 \in Int /\ arrived \in Int
          BY <5>2
        <5>4. Min2(arrived, confirmed' + Limit - 1) \in Int
          BY <5>3, Zenon DEF Min2
        <5>5. QED
          BY <1>0, <3>3, <5>1, <5>2, <5>4
      <4>2. CASE GetUpdatesFails
        BY <3>1, <4>2 DEF GetUpdatesFails
      <4>3. QED
        BY <2>2, <4>1, <4>2
    <3>5. QED
      BY <3>1, <3>3, <3>4
  <2>3. ASSUME NEW u \in Updates, Handle(u) \/ Install(u) PROVE Delivery'
    <3>1. pc = "handle" /\ inbox # {} /\ u = Least(inbox) /\ u \in inbox
          /\ \A v \in inbox : u <= v
      BY <2>3, LeastUpdate DEF Handle, Install
    <3>2. \A v \in Updates : v < offset => v \in handled
      BY <3>1 DEF Handling
    <3>3. \A v \in Updates : v < u => v \in handled
      BY <1>0, <3>1
    <3>4. offset' = Max2(offset, u + 1) /\ confirmed' = confirmed
      BY <2>3 DEF Handle, Install, NextOffset
    <3>5. \A v \in Updates : v < offset' => v = u \/ v \in handled
      BY <1>0, <3>2, <3>3, <3>4 DEF Max2
    <3>6. CASE Handled(u)
      BY <1>1, <3>1, <3>4, <3>5, <3>6
    <3>7. CASE ~Handled(u)
      <4>1. pc' \in Handling /\ UNCHANGED <<inbox, handled>>
        BY <2>3, <3>7 DEF Handle, Install, Handling
      <4>2. QED
        BY <3>1, <3>4, <3>5, <4>1
    <3>8. QED
      BY <3>6, <3>7
  <2>4. CASE \E a \in Agents : CreateTask(a)
    BY <2>4 DEF CreateTask
  <2>5. CASE CreateFails \/ RecordFails \/ Record \/ Schedule \/ ScheduleFails
    <3>1. pc \in Handling /\ Handled(Least(inbox)) /\ UNCHANGED <<confirmed, offset>>
      BY <2>5 DEF CreateFails, RecordFails, Record, Schedule, ScheduleFails, Handling
    <3>2. QED
      BY <1>2, <1>3, <3>1
  <2>6. CASE Created
    <3>1. CASE Kind[Least(inbox)] = "command"
      BY <2>6, <3>1 DEF Created, Handling
    <3>2. CASE Kind[Least(inbox)] # "command"
      <4>1. pc \in Handling /\ Handled(Least(inbox)) /\ UNCHANGED <<confirmed, offset>>
        BY <2>6, <3>2 DEF Created, Handling
      <4>2. QED
        BY <1>2, <1>3, <4>1
    <3>3. QED
      BY <3>1, <3>2
  <2>7. CASE Announce
    BY <2>7 DEF Announce, Handling
  <2>8. CASE Sign \/ Collect \/ CollectFails
    BY <2>8 DEF Sign, Collect, CollectFails, Handling
  <2>9. CASE (\E b \in Batches, ok \in BOOLEAN : Send(b, ok)) \/ SendEnds
    BY <2>9 DEF Send, SendEnds, Handling
  <2>10. QED
    BY <1>4, <2>1, <2>2, <2>3, <2>4, <2>5, <2>6, <2>7, <2>8, <2>9 DEF Work
<1>5. CASE Start
  BY <1>5 DEF Start, Handling
<1>6. CASE Kill \/ Restart
  <2>1. offset' = 0 /\ inbox' = {} /\ UNCHANGED <<confirmed, handled>>
    BY <1>6 DEF Kill, Restart, Stop
  <2>2. \A u \in Updates : ~(u < 0)
    BY <1>0
  <2>3. QED
    BY <2>1, <2>2
<1>7. CASE Arrive \/ Tick \/ \E b \in Batches, a \in Agents : Complete(b, a) \/ Rewrite(b, a) \/ Prune(b, a)
  BY <1>7 DEF Arrive, Tick, Complete, Rewrite, Prune
<1>8. CASE UNCHANGED vars
  BY <1>8 DEF vars
<1>9. QED
  BY <1>4, <1>5, <1>6, <1>7, <1>8 DEF Next
-------------------------------------------------------------------------------
(* Restarts *)

\* An installed version has its restart on the way, or is known to miss it: what
\* ends the announcement schedules the restart or misses it, and so does what
\* takes a scheduled restart away.
LEMMA RestartingStep ==
  ASSUME TypeOK, UpdateReachesHub, [Next]_vars
  PROVE  UpdateReachesHub'
<1> USE DEF UpdateReachesHub
<1>1. restart \in Nat
  BY DEF TypeOK
<1>2. ASSUME UNCHANGED hub, pc \notin Upgrading PROVE UpdateReachesHub'
  BY <1>2
<1>3. CASE Work
  <2>1. CASE NoNotice \/ \E ok \in BOOLEAN : SendNotice(ok)
    BY <1>2, <2>1 DEF NoNotice, SendNotice
  <2>2. CASE GetUpdates \/ GetUpdatesFails \/ \E a \in Agents : CreateTask(a)
    BY <1>2, <2>2 DEF GetUpdates, GetUpdatesFails, CreateTask
  <2>3. CASE \E u \in Updates : Handle(u)
    BY <1>2, <2>3 DEF Handle
  <2>4. CASE \E u \in Updates : Install(u)
    BY <2>4 DEF Install, Handled
  <2>5. CASE CreateFails \/ Created \/ Record \/ RecordFails
    BY <1>2, <2>5 DEF CreateFails, Created, Record, RecordFails
  <2>6. CASE Announce
    BY <2>6 DEF Announce
  <2>7. CASE Schedule
    BY <1>1, <2>7 DEF Schedule
  <2>8. CASE ScheduleFails
    BY <2>8 DEF ScheduleFails
  <2>9. CASE Sign \/ Collect \/ CollectFails
    BY <1>2, <2>9 DEF Sign, Collect, CollectFails
  <2>10. CASE (\E b \in Batches, ok \in BOOLEAN : Send(b, ok)) \/ SendEnds
    BY <1>2, <2>10 DEF Send, SendEnds
  <2>11. QED
    BY <1>3, <2>1, <2>2, <2>3, <2>4, <2>5, <2>6, <2>7, <2>8, <2>9, <2>10 DEF Work
<1>4. CASE Start
  BY <1>2, <1>4 DEF Start
<1>5. CASE Kill
  BY <1>1, <1>5 DEF Kill
<1>6. CASE Restart
  BY <1>6 DEF Restart
<1>7. CASE Arrive \/ Tick \/ \E b \in Batches, a \in Agents : Complete(b, a) \/ Rewrite(b, a) \/ Prune(b, a)
  BY <1>7 DEF Arrive, Tick, Complete, Rewrite, Prune
<1>8. CASE UNCHANGED vars
  BY <1>8 DEF vars
<1>9. QED
  BY <1>3, <1>4, <1>5, <1>6, <1>7, <1>8 DEF Next

-------------------------------------------------------------------------------
(* Answers *)

\* Every step keeps the order in which a batch is answered.
LEMMA AnsweringStep ==
  ASSUME TypeOK, Position, Answering, [Next]_vars
  PROVE  Answering'
<1> USE DEF Answering, ResultSentOnce, Begun
<1>0. /\ sent \in [Batches -> Nat] /\ outbox \in [Batches -> Answers]
      /\ pending \subseteq Batches
  BY DEF TypeOK
<1>1. CASE Work
  <2>1. CASE NoNotice \/ \E ok \in BOOLEAN : SendNotice(ok)
    BY <2>1 DEF NoNotice, SendNotice, Used
  <2>2. CASE GetUpdates \/ GetUpdatesFails \/ Announce
    BY <2>2 DEF GetUpdates, GetUpdatesFails, Announce, Used
  <2>3. CASE Schedule \/ ScheduleFails
    BY <2>3 DEF Schedule, ScheduleFails, Handled, Used
  <2>13. CASE \E u \in Updates : Install(u)
    BY <2>13 DEF Install, Handled, Used
  <2>4. ASSUME NEW u \in Updates, Handle(u) PROVE Answering'
    <3>1. UNCHANGED <<tasks, pending, outbox, sent>> /\ pc' # "record"
      BY <2>4 DEF Handle, Handled
    <3>2. batch' = batch \/ (Unused # {} /\ batch' = Least(Unused))
      BY <2>4 DEF Handle
    <3>3. Unused # {} => Begun(Least(Unused))
      <4>1. \A b \in Unused : b \in Batches /\ b \in b..MaxBatches
        BY Numbers DEF Unused, Batches
      <4>2. \A b \in Unused : ~Used(b)
        BY <4>1 DEF Unused
      <4>3. QED
        BY <4>1, <4>2, FreshBatch
    <3>4. QED
      BY <3>1, <3>2, <3>3 DEF Used
  <2>5. ASSUME NEW a \in Agents, CreateTask(a) PROVE Answering'
    <3>1. /\ UNCHANGED <<pc, pending, outbox, sent, batch>> /\ pc = "dispatch"
          /\ batch \in Batches
          /\ tasks' = [tasks EXCEPT ![batch][a] = "open"]
      BY <2>5 DEF CreateTask, Change, Position
    <3>2. \A c \in Batches, d \in Agents :
            tasks'[c][d] = IF c = batch /\ d = a THEN "open" ELSE tasks[c][d]
      <4>1. tasks \in [Batches -> [Agents -> TaskStates]]
        BY DEF TypeOK, Directory
      <4>2. QED
        BY <3>1, <4>1
    <3>3. \A c \in Batches : Used(c) => Used(c)'
      BY <3>2 DEF Used
    <3>4. QED
      BY <3>1, <3>3
  <2>6. CASE CreateFails \/ RecordFails
    BY <2>6 DEF CreateFails, RecordFails, Handled, Used, Batches
  <2>7. CASE Created
    BY <2>7 DEF Created, Handled, Used, Batches
  <2>8. CASE Record
    <3>1. batch \in Batches /\ pc = "record" /\ Used(batch) /\ Begun(batch)
      BY <2>8, TelegramAssumption DEF Record, Position, Used
    <3>2. /\ pending' \subseteq pending \cup {batch}
          /\ UNCHANGED <<tasks, outbox, sent>> /\ batch' = 0 /\ pc' = "handle"
      BY <2>8 DEF Record, Handled
    <3>3. 0 \notin Batches
      BY Numbers DEF Batches
    <3>4. QED
      BY <3>1, <3>2, <3>3 DEF Used
  <2>9. CASE Sign \/ CollectFails \/ SendEnds
    BY <2>9 DEF Sign, CollectFails, SendEnds, Used
  <2>10. CASE Collect
    <3>1. /\ UNCHANGED <<tasks, sent, batch>> /\ pc' = "send"
          /\ pending' \subseteq pending
      BY <2>10 DEF Collect, Remaining
    <3>2. \A b \in Batches : outbox'[b] # "none" => b \in pending /\ b \notin pending'
      BY <2>10 DEF Collect, Remaining
    <3>3. QED
      BY <3>1, <3>2, <1>0 DEF Used, Position
  <2>11. ASSUME NEW b \in Batches, NEW ok \in BOOLEAN, Send(b, ok) PROVE Answering'
    <3>1. /\ UNCHANGED <<tasks, pending, pc, batch>> /\ outbox[b] # "none" /\ pc = "send"
          /\ outbox' = [outbox EXCEPT ![b] = "none"]
          /\ sent' = [sent EXCEPT ![b] = @ + 1] \/ sent' = sent
      BY <2>11 DEF Send
    <3>2. sent[b] = 0 /\ b \notin pending /\ Used(b)
      BY <3>1
    <3>3. \A c \in Batches : c # b => outbox'[c] = outbox[c] /\ sent'[c] = sent[c]
      BY <1>0, <3>1
    <3>4. outbox'[b] = "none" /\ sent'[b] \in {0, 1}
      BY <1>0, <3>1, <3>2
    <3>5. batch # b
      BY <3>1 
    <3>6. QED
      BY <3>1, <3>2, <3>3, <3>4, <3>5 DEF Used
  <2>12. QED
    BY <1>1, <2>1, <2>2, <2>3, <2>4, <2>5, <2>6, <2>7, <2>8, <2>9, <2>10, <2>11,
       <2>13 DEF Work
<1>2. CASE Start
  BY <1>2 DEF Start, Used
<1>3. CASE Kill \/ Restart
  <2>1. /\ UNCHANGED <<tasks, pending, sent>> /\ batch' = 0 /\ pc' = "down"
        /\ \A b \in Batches : outbox'[b] = "none"
    BY <1>3 DEF Kill, Restart, Stop
  <2>2. 0 \notin Batches
    BY Numbers DEF Batches
  <2>3. QED
    BY <2>1, <2>2 DEF Used
<1>4. CASE Arrive \/ Tick
  BY <1>4 DEF Arrive, Tick, Used
<1>5. ASSUME NEW b \in Batches, NEW a \in Agents, Complete(b, a) \/ Rewrite(b, a) \/ Prune(b, a)
      PROVE  Answering'
  <2>1. PICK s \in {"open", "done", "pruned"} : tasks' = [tasks EXCEPT ![b][a] = s]
    BY <1>5 DEF Complete, Rewrite, Prune, Change
  <2>2. UNCHANGED <<pending, outbox, sent, batch, pc>> /\ tasks[b][a] # "none"
    BY <1>5 DEF Complete, Rewrite, Prune, Change
  <2>3. \A c \in Batches, d \in Agents :
          tasks'[c][d] = IF c = b /\ d = a THEN s ELSE tasks[c][d]
    <3>1. tasks \in [Batches -> [Agents -> TaskStates]]
      BY DEF TypeOK, Directory
    <3>2. QED
      BY <2>1, <3>1
  <2>4. \A c \in Batches : Used(c) <=> Used(c)'
    BY <2>2, <2>3 DEF Used
  <2>5. pc = "record" => batch \in Batches
    BY DEF Position
  <2>6. QED
    BY <2>2, <2>3, <2>4, <2>5
<1>6. CASE UNCHANGED vars
  BY <1>6 DEF vars, Used
<1>7. QED
  BY <1>1, <1>2, <1>3, <1>4, <1>5, <1>6 DEF Next
-------------------------------------------------------------------------------
(* Listings *)

\* A snapshot is before itself, and before what is written later.
LEMMA SnapshotsAdvance ==
  ASSUME TypeOK, UNCHANGED dir \/ written' = written + 1
  PROVE  /\ Before(Snapshot, Snapshot)
         /\ \A c \in Snapshots \cup {NoSnapshot} :
              Before(c, Snapshot) => Before(c, Snapshot')
<1>1. written \in Nat /\ NoSnapshot.stamp \in Nat
  BY DEF TypeOK, NoSnapshot
<1>2. QED
  BY <1>1 DEF Before, Snapshot, Snapshots

\* Every step keeps the order of the snapshots.
LEMMA ListingStep ==
  ASSUME TypeOK, Position, Listing, [Next]_vars
  PROVE  Listing'
<1>0. /\ sig \in Snapshots \cup {NoSnapshot} /\ Snapshot \in Snapshots
      /\ view \in [sig: Snapshots, read: Snapshots] \cup {NoView}
  BY SnapshotType DEF TypeOK
<1>1. ASSUME UNCHANGED listing, UNCHANGED dir \/ written' = written + 1,
             pc' = "collect" => pc = "collect"
      PROVE  Listing'
  <2>1. \A c \in Snapshots : Before(c, Snapshot) => Before(c, Snapshot')
    BY <1>1, SnapshotsAdvance
  <2>2. view # NoView => view.read \in Snapshots
    BY <1>0
  <2>3. pc' = "collect" => sig' \in Snapshots /\ Before(sig', Snapshot')
    BY <1>1, <2>1 DEF Listing
  <2>4. view' # NoView => Before(view'.sig, view'.read) /\ Before(view'.read, Snapshot')
    BY <1>1, <2>1, <2>2 DEF Listing
  <2>5. pc' = "collect" /\ view' # NoView => Before(view'.read, sig')
    BY <1>1 DEF Listing
  <2>6. QED
    BY <2>3, <2>4, <2>5 DEF Listing
<1>3. ASSUME Stop PROVE Listing'
  BY <1>3 DEF Stop, Listing
<1>4. CASE Work
  <2>1. CASE NoNotice \/ \E ok \in BOOLEAN : SendNotice(ok)
    BY <1>1, <2>1 DEF NoNotice, SendNotice
  <2>2. CASE GetUpdates \/ GetUpdatesFails \/ \E u \in Updates : Handle(u) \/ Install(u)
    BY <1>1, <2>2 DEF GetUpdates, GetUpdatesFails, Handle, Install, Handled
  <2>3. CASE \E a \in Agents : CreateTask(a)
    BY <2>3 DEF CreateTask, Listing
  <2>4. CASE CreateFails \/ Created \/ Record \/ RecordFails
    BY <1>1, <2>4 DEF CreateFails, Created, Record, RecordFails, Handled
  <2>5. CASE Announce \/ Schedule \/ ScheduleFails
    BY <1>1, <2>5 DEF Announce, Schedule, ScheduleFails, Handled
  <2>6. CASE Sign
    <3>1. sig' = Snapshot /\ Snapshot' = Snapshot /\ UNCHANGED view
      BY <2>6 DEF Sign, Snapshot
    <3>2. Before(Snapshot, Snapshot)
      BY SnapshotsAdvance, <2>6 DEF Sign
    <3>3. QED
      BY <1>0, <3>1, <3>2 DEF Listing
  <2>7. CASE Collect \/ CollectFails
    <3>1. /\ pc = "collect" /\ pc' # "collect" /\ Snapshot' = Snapshot
          /\ view' = view \/ view' = [sig |-> sig, read |-> Snapshot]
      BY <2>7 DEF Collect, CollectFails, Snapshot
    <3>2. CASE view' = view
      BY <3>1, <3>2 DEF Listing
    <3>3. CASE view' = [sig |-> sig, read |-> Snapshot]
      <4>1. Before(sig, Snapshot) /\ Before(Snapshot, Snapshot)
        BY <2>7, <3>1, SnapshotsAdvance DEF Listing, Collect, CollectFails
      <4>2. QED
        BY <3>1, <3>3, <4>1 DEF Listing
    <3>4. QED
      BY <3>1, <3>2, <3>3
  <2>8. CASE (\E b \in Batches, ok \in BOOLEAN : Send(b, ok)) \/ SendEnds
    BY <1>1, <2>8 DEF Send, SendEnds
  <2>9. QED
    BY <1>4, <2>1, <2>2, <2>3, <2>4, <2>5, <2>6, <2>7, <2>8 DEF Work
<1>5. CASE Start \/ Kill \/ Restart
  BY <1>1, <1>3, <1>5 DEF Start, Kill, Restart
<1>6. CASE Arrive \/ Tick
  BY <1>1, <1>6 DEF Arrive, Tick
<1>7. CASE \E b \in Batches, a \in Agents : Complete(b, a) \/ Rewrite(b, a) \/ Prune(b, a)
  BY <1>1, <1>7 DEF Complete, Rewrite, Prune, Change
<1>8. CASE UNCHANGED vars
  BY <1>1, <1>8 DEF vars
<1>9. QED
  BY <1>4, <1>5, <1>6, <1>7, <1>8 DEF Next

\* An answer is true of the listing it is made from.
LEMMA AnswerIsTrue ==
  ASSUME NEW d \in Directory, NEW b \in Batches
  PROVE  True(Answer(d, b), d, b)
<1>1. \A a \in Agents : d[b][a] \in TaskStates
  BY DEF Directory
<1>2. CASE Listed(d, b) = {}
  <2>1. \A a \in Agents : d[b][a] \in {"none", "pruned"}
    BY <1>1, <1>2 DEF Listed, TaskStates
  <2>2. Answer(d, b) \in {"missing", "none"}
    BY <1>2 DEF Answer
  <2>3. QED
    BY <2>1, <2>2 DEF True
<1>3. CASE Ready(d, b)
  <2>1. Answer(d, b) = "complete" /\ \A a \in Agents : d[b][a] # "open"
    BY <1>3 DEF Answer, Ready, Listed
  <2>2. QED
    BY <2>1 DEF True
<1>4. CASE Listed(d, b) # {} /\ ~Ready(d, b)
  <2>1. Answer(d, b) \in {"partial", "none"} /\ \E a \in Agents : d[b][a] = "open"
    BY <1>4 DEF Answer, Ready, Listed
  <2>2. QED
    BY <2>1 DEF True
<1>5. QED
  BY <1>2, <1>3, <1>4

\* What a step that fills the outbox says of a batch is so.
LEMMA AnswersStep ==
  ASSUME TypeOK, Position, Listing, [Next]_vars,
         NEW b \in Batches, outbox'[b] # outbox[b], outbox'[b] # "none"
  PROVE  \E d \in {sig, Snapshot} :
           view'.read = d /\ True(outbox'[b], d.tasks, b)
<1>0. tasks \in [Batches -> [Agents -> TaskStates]] /\ outbox \in [Batches -> Answers]
  BY DEF TypeOK, Directory
<1>1. Collect
  <2>1. ASSUME Stop PROVE FALSE
    BY <2>1 DEF Stop
  <2>2. ASSUME NEW c \in Batches, NEW ok \in BOOLEAN, Send(c, ok) PROVE FALSE
    BY <1>0, <2>2 DEF Send
  <2>3. ~(Start \/ Kill \/ Restart \/ Arrive \/ Tick \/ UNCHANGED vars)
    BY <2>1 DEF Start, Kill, Restart, Arrive, Tick, vars
  <2>4. ~\E c \in Batches, a \in Agents : Complete(c, a) \/ Rewrite(c, a) \/ Prune(c, a)
    BY DEF Complete, Rewrite, Prune
  <2>5. ~(NoNotice \/ (\E ok \in BOOLEAN : SendNotice(ok)) \/ GetUpdates \/ GetUpdatesFails)
    BY DEF NoNotice, SendNotice, GetUpdates, GetUpdatesFails
  <2>6. ~((\E u \in Updates : Handle(u) \/ Install(u)) \/ (\E a \in Agents : CreateTask(a)))
    BY DEF Handle, Install, CreateTask
  <2>7. ~(CreateFails \/ Created \/ Record \/ RecordFails \/ Announce \/ Schedule
            \/ ScheduleFails)
    BY DEF CreateFails, Created, Record, RecordFails, Announce, Schedule, ScheduleFails
  <2>8. ~(Sign \/ CollectFails \/ SendEnds)
    BY DEF Sign, CollectFails, SendEnds
  <2>9. QED
    BY <2>2, <2>3, <2>4, <2>5, <2>6, <2>7, <2>8 DEF Next, Work
<1>2. Snapshot \in Snapshots /\ sig \in Snapshots /\ Before(sig, Snapshot)
  BY <1>1, SnapshotType DEF Collect, Listing
<1>3. view'.read \in {sig, Snapshot}
  <2>1. CASE Hit /\ UNCHANGED view
    <3>1. /\ view.sig \in Snapshots /\ view.read \in Snapshots
          /\ Before(view.sig, view.read) /\ Before(view.read, sig)
          /\ view.sig.stamp = sig.stamp
      BY <1>1, <2>1 DEF Hit, Listing, Collect, TypeOK
    <3>2. /\ view.sig.stamp \in Nat /\ view.read.stamp \in Nat /\ sig.stamp \in Nat
          /\ view.sig.stamp <= view.read.stamp /\ view.read.stamp <= sig.stamp
      BY <1>2, <3>1 DEF Snapshots, Before
    <3>3. view.read.stamp = sig.stamp /\ view.read.tasks = sig.tasks
      BY <3>1, <3>2 DEF Before
    <3>4. view.read = sig
      BY <1>2, <3>1, <3>3 DEF Snapshots
    <3>5. QED
      BY <2>1, <3>4
  <2>2. CASE view' = [sig |-> sig, read |-> Snapshot]
    BY <2>2
  <2>3. QED
    BY <1>1, <2>1, <2>2 DEF Collect
<1>4. outbox'[b] = Answer(view'.read.tasks, b)
  BY <1>1 DEF Collect
<1>5. view'.read.tasks \in Directory
  BY <1>2, <1>3 DEF Snapshots
<1>6. QED
  BY <1>3, <1>4, <1>5, AnswerIsTrue
-------------------------------------------------------------------------------
(* The theorems *)

\* Everything that is known of the daemon at every moment.
DaemonInv ==
  TypeOK /\ Position /\ Delivery /\ UpdateReachesHub /\ Answering /\ Listing

LEMMA DaemonInvariant == Spec => []DaemonInv
<1>1. Init => DaemonInv
  <2> SUFFICES ASSUME Init PROVE DaemonInv
    OBVIOUS
  <2>1. Delivery
    <3>1. /\ confirmed = 1 /\ offset = 0 /\ inbox = {} /\ Updates \subseteq Nat \ {0}
      BY Numbers DEF Init
    <3>2. QED
      BY <3>1 DEF Delivery, ConfirmedIsHandled
  <2>2. UpdateReachesHub
    BY DEF Init, UpdateReachesHub
  <2>3. Answering
    BY DEF Init, Answering, ResultSentOnce, Begun
  <2>4. Listing
    BY DEF Init, Listing
  <2>5. QED
    BY InitType, <2>1, <2>2, <2>3, <2>4 DEF DaemonInv
<1>2. DaemonInv /\ [Next]_vars => DaemonInv'
  BY TypeStep, PositionStep, DeliveryStep, RestartingStep, AnsweringStep, ListingStep
     DEF DaemonInv
<1>3. QED
  BY <1>1, <1>2, PTL DEF Spec

\* Type correctness of the daemon.
THEOREM TypeCorrect == Spec => []TypeOK
  BY DaemonInvariant, PTL DEF DaemonInv

\* Telegram forgets no update that was not handled: the offset moves before
\* the handler runs, but is only sent when the inbox is done, and what is lost
\* by a kill is delivered again.
THEOREM ConfirmedAreHandled == Spec => []ConfirmedIsHandled
<1>1. DaemonInv => ConfirmedIsHandled
  BY DEF DaemonInv, Delivery
<1>2. QED
  BY <1>1, DaemonInvariant, PTL

\* However often updates of the Hub are delivered, fail or are killed half way,
\* the Hub service gets to the installed version unless the restart was given up
\* or lost.
THEOREM UpdatesReachHub == Spec => []UpdateReachesHub
<1>1. DaemonInv => UpdateReachesHub
  BY DEF DaemonInv
<1>2. QED
  BY <1>1, DaemonInvariant, PTL

\* No pending batch is answered twice, since it leaves the file before its
\* result is sent.
THEOREM ResultsSentAtMostOnce == Spec => []ResultSentOnce
<1>1. DaemonInv => ResultSentOnce
  BY DEF DaemonInv, Answering
<1>2. QED
  BY <1>1, DaemonInvariant, PTL

\* What a result says of its batch was so when the signature was taken or is so
\* when the files are read, although the daemon keeps a view of the directory and
\* completed tasks are written again.
THEOREM ResultsAreTrue == Spec => AnswersAreTrue
<1>1. DaemonInv /\ [Next]_vars =>
        [\A b \in Batches : outbox'[b] # outbox[b] /\ outbox'[b] # "none" =>
           \E d \in {sig, Snapshot} :
             view'.read = d /\ True(outbox'[b], d.tasks, b)]_vars
  BY AnswersStep DEF DaemonInv
<1>2. QED
  BY <1>1, DaemonInvariant, PTL DEF Spec, AnswersAreTrue
==============================================================================
