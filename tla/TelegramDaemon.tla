----------------------------- MODULE TelegramDaemon -----------------------------
(***************************************************************************)
(* The bot daemon of the Hub: one loop that sends the restart notice, gets *)
(* updates from Telegram, handles them one after the other, and collects   *)
(* the batches of tasks it promised a result for.                          *)
(*                                                                         *)
(* It keeps the offset of getUpdates and its view of the task directory in *)
(* memory, the pending batches and the restart notice in files.  The Hub   *)
(* process changes the task directory meanwhile; the service manager       *)
(* restarts the daemon, which an update of the Hub itself asks for.        *)
(*                                                                         *)
(* What is abstracted: an update is its number and what it asks for; a     *)
(* task is open until it is done, failed or cancelled (HubTasks has how);  *)
(* time is the age of a pending batch; the signature of the task directory *)
(* (names, sizes, times of its files) is a number that every write to it   *)
(* raises; a version is a number.                                          *)
(***************************************************************************)
EXTENDS Integers, Sequences, FiniteSets

CONSTANTS
  Kind,            \* a sequence: what each update asks for
  Target,          \* [Updates -> Nat], the version an update of the Hub names
  Agents,          \* the agents a command is dispatched to
  MaxBatches,      \* bound on the batches
  MaxPending,      \* maxPendingTGBatches
  Timeout,         \* tgBatchResultTimeoutSec
  Limit,           \* bot-daemon --limit
  MaxInstalls,     \* bound on the installations of a behaviour
  MaxWrites,       \* bound on the task writes after which none is repeated
  MaxKills         \* bound on the kills of the daemon

Updates == DOMAIN Kind
\* An update of the Hub names a version, or asks for the latest.
Upgrades == {"update", "latest"}
Kinds == {"command", "sync", "other"} \cup Upgrades

ASSUME TelegramAssumption ==
  /\ Kind \in Seq(Kinds)
  /\ Agents # {}                 \* a selector that matches none is an error
  /\ {MaxBatches, MaxPending, Timeout, Limit} \subseteq Nat \ {0}
  /\ Target \in [Updates -> Nat]
  /\ {MaxInstalls, MaxWrites, MaxKills} \subseteq Nat

VARIABLES
  arrived,     \* the last update that was sent to the bot
  confirmed,   \* Telegram has forgotten the updates before this one
  tasks,       \* [Batches -> [Agents -> TaskStates]], the task directory
  written,     \* how often a file of it was written or removed
  pending,     \* telegram-pending-batches.json
  age,         \* [Batches -> 0..Timeout], since the batch was recorded
  notice,      \* the restart notice file is there
  installed,   \* the version of the program files
  serving,     \* the version the Hub service runs
  installs,    \* how often a version was installed
  restart,     \* how many restarts of the Hub and its bot are scheduled
  missed,      \* a version was installed whose restart does not come
  pc,          \* where the daemon is
  offset,      \* its getUpdates offset
  inbox,       \* the updates it got and has not handled
  batch,       \* the batch it is dispatching, 0 if none
  noticed,     \* restartNoticeSent
  sig,         \* the signature it took of the task directory
  view,        \* its view of the task directory, and the signature of that
  outbox,      \* [Batches -> Answers], the results it has yet to send
  handled,     \* SUBSET Updates, those that were handled
  sent,        \* [Batches -> Nat], the results sent
  dropped,     \* SUBSET Batches, those whose result will not be sent
  kills        \* how often the daemon was killed

telegram == <<arrived, confirmed>>
dir      == <<tasks, written>>
hub      == <<installed, serving, installs, restart, missed>>
memory   == <<offset, inbox, noticed>>
listing  == <<sig, view>>
counts   == <<handled, sent, dropped>>
vars == <<telegram, dir, pending, age, notice, hub, pc, memory, batch,
          listing, outbox, counts, kills>>

-------------------------------------------------------------------------------
(* Types and helpers *)

Batches == 1..MaxBatches
TaskStates == {"none", "open", "done", "pruned"}
Directory == [Batches -> [Agents -> TaskStates]]
NoDirectory == [b \in {} |-> {}]
\* The task directory at some moment; its stamp is all that a signature tells.
Snapshots == [stamp: Nat, tasks: Directory]
NoSnapshot == [stamp |-> 0, tasks |-> NoDirectory]
Snapshot == [stamp |-> written, tasks |-> tasks]
NoView == [sig |-> NoSnapshot, read |-> NoSnapshot]
Answers == {"none", "complete", "partial", "missing"}
Labels == {"down", "notice", "poll", "handle", "dispatch", "record",
           "announce", "schedule", "schedule_unannounced", "collect", "send"}

Min2(a, b) == IF a < b THEN a ELSE b
Max2(a, b) == IF a > b THEN a ELSE b
Least(S) == CHOOSE u \in S : \A v \in S : u <= v

Used(b) == \E a \in Agents : tasks[b][a] # "none"
\* A batch id is random: it is not used by any other batch.
Unused == {b \in Batches : \A c \in b..MaxBatches : ~Used(c) /\ c \notin pending}

\* The state of a batch by a listing of the task directory.
Listed(d, b) == {a \in Agents : d[b][a] \in {"open", "done"}}
Ready(d, b) == Listed(d, b) # {} /\ \A a \in Listed(d, b) : d[b][a] = "done"

Init ==
  /\ arrived = 0 /\ confirmed = 1
  /\ tasks = [b \in Batches |-> [a \in Agents |-> "none"]]
  /\ written = 0
  /\ pending = {}
  /\ age = [b \in Batches |-> 0]
  /\ notice = FALSE
  /\ installed = 0 /\ serving = 0 /\ installs = 0
  /\ restart = 0 /\ missed = FALSE
  /\ pc = "down"
  /\ offset = 0 /\ inbox = {} /\ noticed = FALSE
  /\ batch = 0
  /\ sig = NoSnapshot /\ view = NoView
  /\ outbox = [b \in Batches |-> "none"]
  /\ handled = {}
  /\ sent = [b \in Batches |-> 0] /\ dropped = {}
  /\ kills = 0

-------------------------------------------------------------------------------
(* The surroundings *)

Arrive ==
  /\ arrived + 1 \in Updates
  /\ arrived' = arrived + 1
  /\ UNCHANGED <<confirmed, dir, pending, age, notice, hub, pc, memory, batch,
                 listing, outbox, counts, kills>>

Change(b, a, s) ==
  /\ tasks' = [tasks EXCEPT ![b][a] = s]
  /\ written' = written + 1

\* A task is completed: done, failed or cancelled.
Complete(b, a) ==
  /\ tasks[b][a] = "open"
  /\ Change(b, a, "done")
  /\ UNCHANGED <<telegram, pending, age, notice, hub, pc, memory, batch,
                 listing, outbox, counts, kills>>

\* A completed task is written again: its result comes a second time or late, or
\* a recovery that loaded it before it was completed writes it back to the queue.
Rewrite(b, a) ==
  /\ tasks[b][a] \in {"done", "pruned"} /\ written < MaxWrites
  /\ \E s \in {"open", "done"} : Change(b, a, s)
  /\ UNCHANGED <<telegram, pending, age, notice, hub, pc, memory, batch,
                 listing, outbox, counts, kills>>

\* The Hub removes a completed task: there are too many, or it is too old.
Prune(b, a) ==
  /\ tasks[b][a] = "done"
  /\ Change(b, a, "pruned")
  /\ UNCHANGED <<telegram, pending, age, notice, hub, pc, memory, batch,
                 listing, outbox, counts, kills>>

Tick ==
  /\ \E b \in pending : age[b] < Timeout
  /\ age' = [b \in Batches |-> IF b \in pending THEN Min2(age[b] + 1, Timeout)
                                               ELSE age[b]]
  /\ UNCHANGED <<telegram, dir, pending, notice, hub, pc, memory, batch,
                 listing, outbox, counts, kills>>

-------------------------------------------------------------------------------
(* The daemon starts and stops *)

Start ==
  /\ pc = "down"
  /\ pc' = "notice"
  /\ UNCHANGED <<telegram, dir, pending, age, notice, hub, memory, batch,
                 listing, outbox, counts, kills>>

\* What is in memory is lost, the results it was to send among it.
Stop ==
  /\ pc' = "down"
  /\ offset' = 0 /\ inbox' = {} /\ noticed' = FALSE
  /\ batch' = 0
  /\ sig' = NoSnapshot /\ view' = NoView
  /\ outbox' = [b \in Batches |-> "none"]
  /\ dropped' = dropped \cup {b \in Batches : outbox[b] # "none"}

Upgrading == {"announce", "schedule", "schedule_unannounced"}

\* The shell that waits to restart the services belongs to the daemon's service:
\* whether it survives depends on the service manager.
Kill ==
  /\ pc # "down" /\ kills < MaxKills
  /\ kills' = kills + 1
  /\ Stop
  /\ restart' \in {0, restart}
  /\ missed' = (missed \/ restart' < restart \/ pc \in Upgrading)
  /\ UNCHANGED <<telegram, dir, pending, age, notice, installed, serving,
                 installs, handled, sent>>

\* Seeded fault: only the bot is restarted.
RestartBotOnly ==
  /\ restart > 0 /\ restart' \in {0, restart - 1}
  /\ missed' = FALSE
  /\ Stop
  /\ UNCHANGED <<telegram, dir, pending, age, notice, installed, serving,
                 installs, handled, sent, kills>>
\* A restart that an update of the Hub scheduled: both services run what is
\* installed.  It may end the shell of another one.
Restart ==
  /\ restart > 0 /\ restart' \in {0, restart - 1}
  /\ serving' = installed /\ missed' = FALSE
  /\ Stop
  /\ UNCHANGED <<telegram, dir, pending, age, notice, installed, installs,
                 handled, sent, kills>>

-------------------------------------------------------------------------------
(* The restart notice *)

\* Seeded fault: a notice that could not be sent counts as sent.
NoticedAlways(ok) == TRUE
Noticed(ok) == ok

\* There is no notice, or it was sent before: on to getUpdates.
NoNotice ==
  /\ pc = "notice" /\ (noticed \/ ~notice)
  /\ pc' = "poll"
  /\ noticed' = TRUE
  /\ UNCHANGED <<telegram, dir, pending, age, notice, hub, offset, inbox,
                 batch, listing, outbox, counts, kills>>

\* Sent, then removed; either can fail, and it is sent again later.
SendNotice(ok) ==
  /\ pc = "notice" /\ ~noticed /\ notice
  /\ pc' = "poll"
  /\ notice' = ~ok
  /\ noticed' = Noticed(ok)
  /\ UNCHANGED <<telegram, dir, pending, age, hub, offset, inbox, batch,
                 listing, outbox, counts, kills>>

-------------------------------------------------------------------------------
(* getUpdates *)

\* Telegram forgets what is before the offset and returns what comes next.
GetUpdates ==
  /\ pc = "poll"
  /\ confirmed' = Max2(confirmed, offset)
  /\ inbox' = confirmed'..Min2(arrived, confirmed' + Limit - 1)
  /\ pc' = "handle"
  /\ UNCHANGED <<arrived, dir, pending, age, notice, hub, offset, noticed,
                 batch, listing, outbox, counts, kills>>

\* The request or the answer is lost.
GetUpdatesFails ==
  /\ pc = "poll"
  /\ confirmed' \in {confirmed, Max2(confirmed, offset)}
  /\ pc' = "notice"
  /\ UNCHANGED <<arrived, dir, pending, age, notice, hub, memory, batch,
                 listing, outbox, counts, kills>>

-------------------------------------------------------------------------------
(* Handling an update *)

\* Seeded fault: the offset skips an update.
OffsetTooFar(u) == u + 2
NextOffset(u) == u + 1

\* The handler is done with the first update of the inbox.
Handled(u) ==
  /\ handled' = handled \cup {u}
  /\ inbox' = inbox \ {u}
  /\ pc' = "handle"

\* The script compares what is installed with what is asked for, and installs
\* when it cannot find out what the latest version is.
AlreadyCurrent(u, resolved) == resolved /\ installed = Target[u]

\* The first update of the inbox is handled.  A command goes on to create the
\* tasks of a batch; everything else is answered at once, and so is an error.
Handle(u) ==
  /\ pc = "handle" /\ inbox # {} /\ u = Least(inbox)
  /\ offset' = Max2(offset, NextOffset(u))
  /\ \/ /\ Kind[u] \in {"command", "sync"} /\ Unused # {}
        /\ batch' = Least(Unused)
        /\ pc' = "dispatch"
        /\ UNCHANGED <<inbox, handled>>
     \/ Handled(u) /\ UNCHANGED batch
  /\ UNCHANGED <<telegram, dir, pending, age, notice, hub, noticed, listing,
                 outbox, sent, dropped, kills>>

\* An update of the Hub installs the version.  If the script is stopped or fails
\* after that, or no restart is asked for, it is answered and nothing is restarted.
Install(u) ==
  /\ pc = "handle" /\ inbox # {} /\ u = Least(inbox)
  /\ Kind[u] \in Upgrades /\ installs < MaxInstalls
  /\ \E resolved \in BOOLEAN : /\ Kind[u] = "update" => resolved
                               /\ ~AlreadyCurrent(u, resolved)
  /\ offset' = Max2(offset, NextOffset(u))
  /\ installed' = Target[u] /\ installs' = installs + 1
  /\ \/ pc' = "announce" /\ UNCHANGED <<inbox, handled, missed>>
     \/ Handled(u) /\ missed' = TRUE
  /\ UNCHANGED <<telegram, dir, pending, age, notice, serving, restart, batch,
                 noticed, listing, outbox, sent, dropped, kills>>

\* One task file; the write drops the daemon's view.
CreateTask(a) ==
  /\ pc = "dispatch" /\ tasks[batch][a] = "none"
  /\ Change(batch, a, "open")
  /\ view' = NoView
  /\ UNCHANGED <<telegram, pending, age, notice, hub, pc, memory, batch, sig,
                 outbox, counts, kills>>

\* A task file that cannot be written ends the command with an error.
CreateFails ==
  /\ pc = "dispatch"
  /\ Handled(Least(inbox))
  /\ batch' = 0
  /\ UNCHANGED <<telegram, dir, pending, age, notice, hub, offset, noticed,
                 listing, outbox, sent, dropped, kills>>

\* All tasks are there.  Only an answer with a line for the batch is followed
\* up; that of sync has none.
Created ==
  /\ pc = "dispatch" /\ \A a \in Agents : tasks[batch][a] # "none"
  /\ IF Kind[Least(inbox)] = "command"
     THEN pc' = "record" /\ UNCHANGED <<inbox, handled, batch>>
     ELSE Handled(Least(inbox)) /\ batch' = 0
  /\ UNCHANGED <<telegram, dir, pending, age, notice, hub, offset, noticed,
                 listing, outbox, sent, dropped, kills>>

Full == Cardinality(pending) >= MaxPending

\* The batch joins the pending ones; the oldest makes room for it.
Record ==
  /\ pc = "record"
  /\ \E evicted \in SUBSET pending :
       /\ IF Full THEN \E b \in pending : /\ evicted = {b}
                                          /\ \A c \in pending : age[c] <= age[b]
                  ELSE evicted = {}
       /\ pending' = (pending \ evicted) \cup {batch}
       /\ dropped' = dropped \cup evicted
  /\ age' = [age EXCEPT ![batch] = 0]
  /\ batch' = 0
  /\ Handled(Least(inbox))
  /\ UNCHANGED <<telegram, dir, notice, hub, offset, noticed, listing, outbox,
                 sent, kills>>

\* The file cannot be read or written: the answer says so.
RecordFails ==
  /\ pc = "record"
  /\ batch' = 0
  /\ Handled(Least(inbox))
  /\ UNCHANGED <<telegram, dir, pending, age, notice, hub, offset, noticed,
                 listing, outbox, sent, dropped, kills>>

\* The notice for after the restart is recorded, or cannot be.
Announce ==
  /\ pc = "announce"
  /\ \/ notice' = TRUE /\ pc' = "schedule"
     \/ UNCHANGED notice /\ pc' = "schedule_unannounced"
  /\ UNCHANGED <<telegram, dir, pending, age, hub, memory, batch, listing,
                 outbox, counts, kills>>

Schedule ==
  /\ pc \in {"schedule", "schedule_unannounced"}
  /\ restart' = restart + 1
  /\ Handled(Least(inbox))
  /\ UNCHANGED <<telegram, dir, pending, age, notice, installed, serving,
                 installs, missed, offset, noticed, batch, listing, outbox, sent,
                 dropped, kills>>

\* No service manager: a notice recorded for it is taken back, and the answer
\* says that nothing will be restarted.
ScheduleFails ==
  /\ pc \in {"schedule", "schedule_unannounced"}
  /\ IF pc = "schedule" THEN notice' \in {FALSE, notice} ELSE UNCHANGED notice
  /\ missed' = TRUE
  /\ Handled(Least(inbox))
  /\ UNCHANGED <<telegram, dir, pending, age, installed, serving, installs,
                 restart, offset, noticed, batch, listing, outbox, sent, dropped,
                 kills>>

-------------------------------------------------------------------------------
(* Collecting the pending batches *)

\* The inbox is done: the signature of the task directory is taken.
Sign ==
  /\ pc = "handle" /\ inbox = {}
  /\ sig' = Snapshot
  /\ pc' = "collect"
  /\ UNCHANGED <<telegram, dir, pending, age, notice, hub, memory, batch, view,
                 outbox, counts, kills>>

\* Seeded fault: a view is good as long as it is young.
HitByAge == view # NoView
Hit == view # NoView /\ view.sig.stamp = sig.stamp

Expired(b) == age[b] >= Timeout

\* Seeded fault: a batch without tasks is waited for.
AnswerIfListed(d, b) ==
  IF Listed(d, b) = {} THEN "none"
  ELSE IF Ready(d, b) THEN "complete"
  ELSE IF Expired(b) THEN "partial" ELSE "none"
\* What a pending batch is answered with, by a listing.
Answer(d, b) ==
  IF Listed(d, b) = {} THEN IF Expired(b) THEN "missing" ELSE "none"
  ELSE IF Ready(d, b) THEN "complete"
  ELSE IF Expired(b) THEN "partial" ELSE "none"

\* Seeded fault: a batch that is answered stays pending.
RemainingAll(answered) == pending
Remaining(answered) == pending \ answered

\* A view of that signature is used if it is young enough; otherwise the task
\* files are loaded, and stored with the signature taken before.  The batches
\* that have an answer leave the pending file before they are sent.
Collect ==
  /\ pc = "collect"
  /\ \/ Hit /\ UNCHANGED view
     \/ view' = [sig |-> sig, read |-> Snapshot]
  /\ LET d == view'.read.tasks
         answered == {b \in pending : Answer(d, b) # "none"} IN
     /\ outbox' = [b \in Batches |->
          IF b \in answered THEN Answer(d, b) ELSE "none"]
     /\ pending' = Remaining(answered)
  /\ sig' = NoSnapshot
  /\ pc' = "send"
  /\ UNCHANGED <<telegram, dir, age, notice, hub, memory, batch, counts,
                 kills>>

\* The task files or the pending file cannot be read, or not written.
CollectFails ==
  /\ pc = "collect"
  /\ sig' = NoSnapshot
  /\ view' \in {view, [sig |-> sig, read |-> Snapshot]}
  /\ pc' = "notice"
  /\ UNCHANGED <<telegram, dir, pending, age, notice, hub, memory, batch,
                 outbox, counts, kills>>

\* A result is sent once, whether or not that works.
Send(b, ok) ==
  /\ pc = "send" /\ outbox[b] # "none"
  /\ outbox' = [outbox EXCEPT ![b] = "none"]
  /\ IF ok THEN sent' = [sent EXCEPT ![b] = @ + 1] /\ UNCHANGED dropped
            ELSE dropped' = dropped \cup {b} /\ UNCHANGED sent
  /\ UNCHANGED <<telegram, dir, pending, age, notice, hub, pc, memory, batch,
                 listing, handled, kills>>

SendEnds ==
  /\ pc = "send" /\ \A b \in Batches : outbox[b] = "none"
  /\ pc' = "notice"
  /\ UNCHANGED <<telegram, dir, pending, age, notice, hub, memory, batch,
                 listing, outbox, counts, kills>>

-------------------------------------------------------------------------------
(* Specification *)

Work ==
  \/ NoNotice \/ \E ok \in BOOLEAN : SendNotice(ok)
  \/ GetUpdates \/ GetUpdatesFails
  \/ \E u \in Updates : Handle(u) \/ Install(u)
  \/ \E a \in Agents : CreateTask(a)
  \/ CreateFails \/ Created \/ Record \/ RecordFails
  \/ Announce \/ Schedule \/ ScheduleFails
  \/ Sign \/ Collect \/ CollectFails
  \/ \E b \in Batches, ok \in BOOLEAN : Send(b, ok)
  \/ SendEnds

Next ==
  \/ Work \/ Start \/ Kill \/ Restart
  \/ Arrive \/ Tick
  \/ \E b \in Batches, a \in Agents : Complete(b, a) \/ Rewrite(b, a) \/ Prune(b, a)

Spec == Init /\ [][Next]_vars

\* The loop runs, the service manager starts it again, a scheduled restart
\* happens, time passes, and neither Telegram nor the disk fails forever.
FairSpec ==
  /\ Spec
  /\ WF_vars(Work) /\ WF_vars(Start) /\ WF_vars(Restart) /\ WF_vars(Tick)
  /\ SF_vars(GetUpdates) /\ SF_vars(Collect)
  /\ SF_vars(SendNotice(TRUE))

-------------------------------------------------------------------------------
(* Properties *)

TypeOK ==
  /\ arrived \in 0..Len(Kind)
  /\ confirmed \in 1..Len(Kind) + 1
  /\ tasks \in Directory
  /\ pending \subseteq Batches
  /\ age \in [Batches -> 0..Timeout]
  /\ {notice, missed, noticed} \subseteq BOOLEAN
  /\ {written, installed, serving, installs, restart, kills} \subseteq Nat
  /\ pc \in Labels
  /\ offset \in 0..Len(Kind) + 1
  /\ inbox \subseteq Updates
  /\ batch \in Batches \cup {0}
  /\ sig \in Snapshots \cup {NoSnapshot}
  /\ view \in [sig: Snapshots, read: Snapshots] \cup {NoView}
  /\ outbox \in [Batches -> Answers]
  /\ handled \subseteq Updates
  /\ sent \in [Batches -> Nat] /\ dropped \subseteq Batches

\* Telegram is told to forget an update only after it was handled, although
\* the offset moves before the handler runs.
ConfirmedIsHandled ==
  \A u \in Updates : u < confirmed => u \in handled

\* The Hub does not stay on an older version than the one installed: a restart
\* is on its way, unless the update was answered as a failure or killed.  It gets
\* there although the daemon dies before its update is confirmed, and the update,
\* delivered again to the next one, finds nothing to do.
UpdateReachesHub ==
  serving # installed => restart > 0 \/ pc \in Upgrading \/ missed

\* A pending batch is answered at most once, whatever is killed and restarted.
ResultSentOnce == \A b \in Batches : sent[b] <= 1

\* What a listing has to say of a batch for an answer to be true.  Tasks that
\* were removed do not count: the answer is about those that are listed.
True(answer, d, b) ==
  CASE answer = "complete" -> \A a \in Agents : d[b][a] # "open"
    [] answer = "partial"  -> \E a \in Agents : d[b][a] = "open"
    [] answer = "missing"  -> \A a \in Agents : d[b][a] \in {"none", "pruned"}
    [] OTHER -> TRUE

\* The result of a batch is made from the task files as they were when the
\* signature was taken or as they are now, never from an older view of them, and
\* is true of these -- although completed tasks change again and are removed.
AnswersAreTrue ==
  [][\A b \in Batches : outbox'[b] # outbox[b] /\ outbox'[b] # "none" =>
       \E d \in {sig, Snapshot} :
         view'.read = d /\ True(outbox'[b], d.tasks, b)]_vars

\* A pending batch is answered in the end even if its agents never report and its
\* task files are removed, unless it had to make room for another one, or its
\* result got lost: sending it failed, or the daemon was stopped with it.
PendingIsAnswered ==
  \A b \in Batches : b \in pending ~> sent[b] > 0 \/ b \in dropped

\* The notice of a restart that was scheduled is sent in the end, however
\* often sending it failed.
NoticeIsSent == notice /\ restart > 0 ~> ~notice

\* docs/HUB.md: "the Hub tracks the batch and sends one aggregate Telegram
\* result": the batch of every update that was handled is tracked.
DispatchIsTracked ==
  [][pc = "dispatch" /\ pc' = "handle"
       /\ (\A a \in Agents : tasks[batch][a] # "none") => batch \in pending']_vars
===============================================================================
