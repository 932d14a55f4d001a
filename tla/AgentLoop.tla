------------------------------- MODULE AgentLoop -------------------------------
(***************************************************************************)
(* One agent host: the five enrollment files, the command line that writes *)
(* them (agent-enroll, agent-set-ip-mode), and the poll loop that loads    *)
(* them, reloads them when agent.json changed, and works through the tasks *)
(* the Hub leases to it.                                                   *)
(*                                                                         *)
(* The command line and the loop are two processes without a lock.  The    *)
(* command line writes the files one after the other, agent.json last; the *)
(* loop reads agent.json first, then the others, then takes the stamp of   *)
(* agent.json it compares with from then on.                               *)
(*                                                                         *)
(* What is abstracted: the content of a file is the number of the          *)
(* enrollment it was written for; a stamp is the number of the write of    *)
(* agent.json (each has a time of its own) and stands for the ip_mode it   *)
(* holds; the Hub is the last token it issued and the status of the tasks  *)
(* (HubTasks has the rest), of which done and failed are one; a version is *)
(* a number; how long a pause is (the interval, or twice the last backoff) *)
(* is left out.                                                            *)
(***************************************************************************)
EXTENDS Integers, FiniteSets, Sequences

CONSTANTS
  Tasks,           \* task ids queued for this agent
  Updates,         \* the tasks with command self_update
  Latest,          \* those that ask for the latest version
  Target,          \* [Updates -> Nat], the version each is to install
  MaxLeases,       \* defaultTaskMaxLeaseCount
  DefaultLimit,    \* what the Hub makes of ?limit=0
  MaxTasks,        \* agent-poll-loop --max-tasks
  MaxEnrolls,      \* bound on the enrollments the Hub issues
  MaxWrites,       \* bound on the writes of agent.json
  MaxInstalls,     \* bound on the installations of a behaviour
  MaxKills         \* bound on the kills of the two processes

ASSUME AgentLoopAssumption ==
  /\ Latest \subseteq Updates /\ Updates \subseteq Tasks
  /\ Target \in [Updates -> Nat]
  /\ {MaxLeases, DefaultLimit, MaxTasks, MaxEnrolls, MaxWrites}
       \subseteq Nat \ {0}
  /\ {MaxInstalls, MaxKills} \subseteq Nat

VARIABLES
  issued,      \* the last enrollment issued: the only token the Hub accepts
  task,        \* [Tasks -> HubTask], the Hub's task files
  file,        \* [Files -> Enrolls], the enrollment each file is of
  stamp,       \* how often agent.json was written
  cli,         \* what the command line is doing
  pc,          \* [Pollers -> Labels], where each poller is
  cred,        \* [Pollers -> Cred], what each poller signs its requests with
  fresh,       \* Cred, what the loop is loading
  seen,        \* the loop's stamp of agent.json
  todo,        \* [Pollers -> SUBSET Tasks], leased and not yet executed
  cur,         \* [Pollers -> Tasks \cup {None}], the task in its hands
  installed,   \* the version of the program files
  serving,     \* the version the loop was started with
  installs,    \* how often a version was installed
  restart,     \* how many restarts of the service are scheduled
  missed,      \* a version was installed whose restart does not come
  kills

hub    == <<issued, task>>
disk   == <<file, stamp>>
loop   == <<fresh, seen>>
work   == <<pc, cred, todo, cur>>
update == <<installed, serving, installs, restart, missed>>
vars   == <<hub, disk, cli, work, loop, update, kills>>

-------------------------------------------------------------------------------
(* Types and helpers *)

\* Seeded fault: agent.json is written before the files it names.
OrderConfFirst == <<"conf", "ca", "cert", "key", "token">>
\* The files in the order they are written.
Order == <<"ca", "cert", "key", "token", "conf">>
Files == {"ca", "cert", "key", "token", "conf"}
Enrolls == 0..MaxEnrolls

\* The loop, and the one poll of agent-enroll --poll-once.
Pollers == {"loop", "once"}
Loading == {"conf", "token", "pair", "stamp"}
Labels == Loading \cup {"down", "beat", "get", "run", "install", "schedule",
                      "post", "sleep"}

\* A task ends done or failed.
HubTask == [status: {"queued", "running", "ended"}, leases: Nat]
None == "none"

\* read is the write of agent.json the credentials were loaded from.
Cred == [conf: Enrolls, token: Enrolls, ca: Enrolls, cert: Enrolls,
         read: Nat]
NoCred == [conf |-> 0, token |-> 0, ca |-> 0, cert |-> 0, read |-> 0]

\* step is the file agent-enroll writes next.
Cli == [op: {"idle", "enroll", "poll"}, enroll: Enrolls, step: 1..5]
Idle == [op |-> "idle", enroll |-> 0, step |-> 1]

Min2(a, b) == IF a < b THEN a ELSE b

Loaded(p) == cred[p] # NoCred

Init ==
  /\ issued = 0
  /\ task = [t \in Tasks |-> [status |-> "queued", leases |-> 0]]
  /\ file = [f \in Files |-> 0]
  /\ stamp = 0
  /\ cli = Idle
  /\ pc = [p \in Pollers |-> "down"]
  /\ cred = [p \in Pollers |-> NoCred]
  /\ fresh = NoCred
  /\ seen = 0
  /\ todo = [p \in Pollers |-> {}]
  /\ cur = [p \in Pollers |-> None]
  /\ installed = 0 /\ serving = 0 /\ installs = 0
  /\ restart = 0 /\ missed = FALSE
  /\ kills = 0

-------------------------------------------------------------------------------
(* The command line *)

\* The poller of agent-enroll --poll-once, built from the files just written.
FilesCred == [conf |-> file["conf"], token |-> file["token"],
              ca |-> file["ca"], cert |-> file["cert"], read |-> stamp]

\* POST /api/enroll, or a bundle the Hub provisioned.  The Hub accepts the new
\* token only; an answer (a bundle) that is lost leaves the files as they are.
Redeem ==
  /\ cli = Idle
  /\ issued < MaxEnrolls /\ stamp < MaxWrites
  /\ issued' = issued + 1
  /\ \/ cli' = [op |-> "enroll", enroll |-> issued', step |-> 1]
     \/ UNCHANGED cli
  /\ UNCHANGED <<task, disk, work, loop, update, kills>>

WriteFile ==
  /\ cli.op = "enroll"
  /\ LET f == Order[cli.step] IN
     /\ file' = [file EXCEPT ![f] = cli.enroll]
     /\ stamp' = IF f = "conf" THEN stamp + 1 ELSE stamp
  /\ cli' = IF cli.step < Len(Order) THEN [cli EXCEPT !.step = @ + 1]
                                     ELSE [Idle EXCEPT !.op = "poll"]
  /\ UNCHANGED <<hub, work, loop, update, kills>>

\* The enrollment is complete; with --poll-once it ends with a poll.
EnrollEnds(polls) ==
  /\ cli.op = "poll" /\ pc["once"] = "down"
  /\ IF polls
     THEN /\ pc' = [pc EXCEPT !["once"] = "beat"]
          /\ cred' = [cred EXCEPT !["once"] = FilesCred]
          /\ UNCHANGED cli
     ELSE cli' = Idle /\ UNCHANGED <<pc, cred>>
  /\ UNCHANGED <<hub, disk, todo, cur, loop, update, kills>>

\* agent-set-ip-mode reads agent.json and writes it back with the new mode.
SetIPMode ==
  /\ cli = Idle
  /\ file["conf"] # 0 /\ stamp < MaxWrites
  /\ stamp' = stamp + 1
  /\ UNCHANGED <<hub, file, cli, work, loop, update, kills>>

-------------------------------------------------------------------------------
(* Loading agent.json and the files it names *)

Goto(p, label) == pc' = [pc EXCEPT ![p] = label]

\* The service manager starts the loop, from the program files as they are.
StartLoop ==
  /\ pc["loop"] = "down"
  /\ Goto("loop", "conf")
  /\ serving' = installed /\ missed' = FALSE
  /\ UNCHANGED <<hub, disk, cli, cred, todo, cur, loop, installed, installs,
                 restart, kills>>

\* The pause ends and an iteration begins: agent.json is loaded again if its
\* stamp has changed.
Wake ==
  /\ pc["loop"] = "sleep"
  /\ Goto("loop", IF stamp = seen THEN "beat" ELSE "conf")
  /\ UNCHANGED <<hub, disk, cli, cred, todo, cur, loop, update, kills>>

\* What the next read finds: a file that is there, a key of its certificate.
Readable ==
  CASE pc["loop"] = "conf"  -> file["conf"] # 0
    [] pc["loop"] = "token" -> file["token"] # 0
    [] pc["loop"] = "pair"  -> file["cert"] # 0 /\ file["key"] = file["cert"]
    [] OTHER                -> TRUE

ReadConf ==
  /\ pc["loop"] = "conf" /\ Readable
  /\ fresh' = [fresh EXCEPT !.conf = file["conf"], !.read = stamp]
  /\ Goto("loop", "token")
  /\ UNCHANGED <<hub, disk, cli, cred, todo, cur, seen, update, kills>>

ReadToken ==
  /\ pc["loop"] = "token" /\ Readable
  /\ fresh' = [fresh EXCEPT !.token = file["token"]]
  /\ Goto("loop", "pair")
  /\ UNCHANGED <<hub, disk, cli, cred, todo, cur, seen, update, kills>>

ReadPair ==
  /\ pc["loop"] = "pair" /\ Readable
  /\ fresh' = [fresh EXCEPT !.ca = file["ca"], !.cert = file["cert"]]
  /\ Goto("loop", "stamp")
  /\ UNCHANGED <<hub, disk, cli, cred, todo, cur, seen, update, kills>>

\* The stamp is the last thing taken: the poller takes over with it.
TakeStamp ==
  /\ pc["loop"] = "stamp"
  /\ cred' = [cred EXCEPT !["loop"] = fresh]
  /\ fresh' = NoCred
  /\ seen' = stamp
  /\ Goto("loop", "beat")
  /\ UNCHANGED <<hub, disk, cli, todo, cur, update, kills>>

\* A running loop goes on with the poller it has and its stamp; a starting one
\* exits.
LoadFails ==
  /\ pc["loop"] \in Loading /\ ~Readable
  /\ Goto("loop", IF Loaded("loop") THEN "beat" ELSE "down")
  /\ fresh' = NoCred
  /\ UNCHANGED <<hub, disk, cli, cred, todo, cur, seen, update, kills>>

-------------------------------------------------------------------------------
(* pollOnce *)

\* pollOnce returns, with an error or not: the tasks it has not executed are
\* forgotten.
Return(p) ==
  /\ todo' = [todo EXCEPT ![p] = {}]
  /\ cur' = [cur EXCEPT ![p] = None]
  /\ IF p = "loop"
     THEN Goto(p, "sleep") /\ UNCHANGED <<cli, cred>>
     ELSE /\ Goto(p, "down")
          /\ cred' = [cred EXCEPT ![p] = NoCred]
          /\ cli' = Idle

\* The Hub handles a request only if it is signed with the token it issued
\* last; the request and the answer can be lost.
Accepted(p) == cred[p].token = issued

RequestFails(p) ==
  /\ pc[p] \in {"beat", "get", "post"}
  /\ Return(p)
  /\ UNCHANGED <<hub, disk, loop, update, kills>>

Heartbeat(p) ==
  /\ pc[p] = "beat" /\ Accepted(p)
  /\ Goto(p, "get")
  /\ UNCHANGED <<hub, disk, cli, cred, todo, cur, loop, update, kills>>

\* Seeded fault: a stale task is left as it is.
RecoveredNever(f) == f
Recovered(f) ==
  [f EXCEPT !.status = IF f.leases >= MaxLeases THEN "ended" ELSE "queued"]

\* ?limit=<max tasks>; the poller of --poll-once asks for none and is served
\* the Hub's default.
LimitOf(p) == IF p = "loop" THEN MaxTasks ELSE DefaultLimit

\* The Hub recovers the stale leases, then leases what is queued.
Lease(p, stale, leased) ==
  /\ stale \subseteq {t \in Tasks : task[t].status = "running"}
  /\ LET queued == {t \in Tasks : task[t].status = "queued"}
                     \cup {t \in stale : task[t].leases < MaxLeases}
     IN /\ leased \subseteq queued
        /\ Cardinality(leased) = Min2(LimitOf(p), Cardinality(queued))
  /\ task' = [t \in Tasks |->
       LET f == IF t \in stale THEN Recovered(task[t]) ELSE task[t] IN
       IF t \in leased
       THEN [f EXCEPT !.status = "running", !.leases = @ + 1]
       ELSE f]

GetTasks(p, stale, leased) ==
  /\ pc[p] = "get" /\ Accepted(p)
  /\ Lease(p, stale, leased)
  /\ todo' = [todo EXCEPT ![p] = leased]
  /\ Goto(p, "run")
  /\ UNCHANGED <<issued, disk, cli, cred, cur, loop, update, kills>>

\* The answer is lost: the tasks are leased, and nobody has them.
TasksLost(p, stale, leased) ==
  /\ pc[p] = "get" /\ Accepted(p)
  /\ Lease(p, stale, leased)
  /\ Return(p)
  /\ UNCHANGED <<issued, disk, loop, update, kills>>

PollEnds(p) ==
  /\ pc[p] = "run" /\ todo[p] = {}
  /\ Return(p)
  /\ UNCHANGED <<hub, disk, loop, update, kills>>

Took(p, t, label) ==
  /\ pc[p] = "run" /\ t \in todo[p]
  /\ todo' = [todo EXCEPT ![p] = @ \ {t}]
  /\ cur' = [cur EXCEPT ![p] = t]
  /\ Goto(p, label)

\* executeTask.  A self_update that installs nothing failed, or found the version
\* of the task installed.
Run(p, t) ==
  /\ Took(p, t, "post")
  /\ UNCHANGED <<hub, disk, cli, cred, loop, update, kills>>

\* The script compares the versions: that of the task is not installed, or it
\* cannot find out what the latest is.  It downloads for as long as it takes.
Compare(p, t) ==
  /\ Took(p, t, "install")
  /\ t \in Latest \/ installed # Target[t]
  /\ UNCHANGED <<hub, disk, cli, cred, loop, update, kills>>

InstallFails(p) ==
  /\ pc[p] = "install"
  /\ Goto(p, "post")
  /\ UNCHANGED <<hub, disk, cli, cred, todo, cur, loop, update, kills>>

\* The program files are replaced, whatever they have become since the versions
\* were compared.  No restart follows if none is asked for, or if the script
\* fails or runs out of time after that.
Install(p, t) ==
  /\ pc[p] = "install" /\ t = cur[p] /\ installs < MaxInstalls
  /\ installed' = Target[t] /\ installs' = installs + 1
  /\ \/ Goto(p, "schedule") /\ UNCHANGED missed
     \/ Goto(p, "post") /\ missed' = TRUE
  /\ UNCHANGED <<hub, disk, cli, cred, todo, cur, loop, serving, restart, kills>>

\* The restart is scheduled, or cannot be: only the text of the result says which.
Schedule(p) ==
  /\ pc[p] = "schedule"
  /\ \/ restart' = restart + 1 /\ UNCHANGED missed
     \/ missed' = TRUE /\ UNCHANGED restart
  /\ Goto(p, "post")
  /\ UNCHANGED <<hub, disk, cli, cred, todo, cur, loop, installed, serving,
                 installs, kills>>

\* The Hub takes a result whatever the status of the task.
Complete(t) == task' = [task EXCEPT ![t].status = "ended"]

PostResult(p) ==
  /\ pc[p] = "post" /\ Accepted(p)
  /\ Complete(cur[p])
  /\ cur' = [cur EXCEPT ![p] = None]
  /\ Goto(p, "run")
  /\ UNCHANGED <<issued, disk, cli, cred, todo, loop, update, kills>>

ResultAnswerLost(p) ==
  /\ pc[p] = "post" /\ Accepted(p)
  /\ Complete(cur[p])
  /\ Return(p)
  /\ UNCHANGED <<issued, disk, loop, update, kills>>

-------------------------------------------------------------------------------
(* Restarts and kills *)

Stop(p) ==
  /\ Goto(p, "down")
  /\ cred' = [cred EXCEPT ![p] = NoCred]
  /\ todo' = [todo EXCEPT ![p] = {}]
  /\ cur' = [cur EXCEPT ![p] = None]

StopLoop ==
  /\ Stop("loop")
  /\ fresh' = NoCred /\ seen' = 0

\* Seeded fault: another service is restarted.
RestartAnother ==
  /\ restart > 0 /\ restart' \in {0, restart - 1}
  /\ UNCHANGED <<hub, disk, cli, work, loop, installed, serving, installs,
                 missed, kills>>
\* A restart that an update scheduled, whether or not its result was posted.  It
\* may end the shell that waits for another one.
RestartService ==
  /\ restart > 0 /\ restart' \in {0, restart - 1}
  /\ StopLoop
  /\ UNCHANGED <<hub, disk, cli, installed, serving, installs, missed, kills>>

KillLoop ==
  /\ kills < MaxKills /\ kills' = kills + 1
  /\ pc["loop"] # "down"
  /\ StopLoop
  /\ restart' \in {0, restart}
  /\ UNCHANGED <<hub, disk, cli, installed, serving, installs, missed>>

KillCli ==
  /\ kills < MaxKills /\ kills' = kills + 1
  /\ cli # Idle
  /\ cli' = Idle
  /\ Stop("once")
  /\ restart' \in {0, restart}
  /\ missed' = (missed \/ restart' < restart \/ pc["once"] = "schedule")
  /\ UNCHANGED <<hub, disk, loop, installed, serving, installs>>

-------------------------------------------------------------------------------
(* Specification *)

Load == ReadConf \/ ReadToken \/ ReadPair \/ TakeStamp \/ LoadFails

Poll(p) ==
  \/ Heartbeat(p) \/ RequestFails(p) \/ PollEnds(p)
  \/ PostResult(p) \/ ResultAnswerLost(p)
  \/ \E stale, leased \in SUBSET Tasks :
       GetTasks(p, stale, leased) \/ TasksLost(p, stale, leased)
  \/ \E t \in Tasks : Run(p, t)
  \/ \E t \in Updates : Compare(p, t) \/ Install(p, t)
  \/ InstallFails(p) \/ Schedule(p)

Next ==
  \/ Redeem \/ SetIPMode \/ WriteFile
  \/ \E polls \in BOOLEAN : EnrollEnds(polls)
  \/ StartLoop \/ Wake \/ Load
  \/ \E p \in Pollers : Poll(p)
  \/ RestartService \/ KillLoop \/ KillCli

Spec == Init /\ [][Next]_vars

\* The loop keeps running, the service manager starts it again, and a request
\* that it sends again and again is answered at last; by then the leases that
\* were let go are stale.  Nothing is assumed of the command line.
FairSpec ==
  /\ Spec
  /\ WF_vars(StartLoop \/ Wake \/ Load \/ Poll("loop"))
  /\ SF_vars(Heartbeat("loop"))
  /\ SF_vars(\E leased \in SUBSET Tasks :
               GetTasks("loop", {t \in Tasks : task[t].status = "running"},
                        leased))
  /\ SF_vars(PostResult("loop"))

-------------------------------------------------------------------------------
(* Properties *)

TypeOK ==
  /\ issued \in Enrolls
  /\ task \in [Tasks -> HubTask]
  /\ file \in [Files -> Enrolls]
  /\ stamp \in 0..MaxWrites
  /\ cli \in Cli
  /\ pc \in [Pollers -> Labels]
  /\ cred \in [Pollers -> Cred]
  /\ fresh \in Cred
  /\ seen \in 0..MaxWrites
  /\ todo \in [Pollers -> SUBSET Tasks]
  /\ cur \in [Pollers -> Tasks \cup {None}]
  /\ {installed, serving, installs, restart} \subseteq Nat
  /\ missed \in BOOLEAN
  /\ kills \in 0..MaxKills

\* Every file is of the same, complete enrollment and nobody is writing.
Whole(e) == cli.op # "enroll" /\ \A f \in Files : file[f] = e

\* agent.json was written while the loop was loading it: the stamp the loop
\* took is not that of the file it read.
Raced == cred["loop"].read # seen

\* Once an enrollment is complete, a loop that sees nothing to reload holds all
\* of it: never the token of one enrollment with the certificate or the Hub
\* address of another.  This rests on agent.json being written last and read
\* first.  The one exception is a write of agent.json during a load.
LoopHoldsTheEnrollment ==
  \A e \in Enrolls \ {0} :
    /\ Whole(e) /\ Loaded("loop") /\ seen = stamp /\ ~Raced
    /\ pc["loop"] \notin Loading
    => cred["loop"] = [conf |-> e, token |-> e, ca |-> e, cert |-> e,
                       read |-> stamp]

\* A loop that runs does not stay on another version than the one installed: the
\* restart is scheduled or about to be, unless it is known to be missed.  Two
\* pollers may both find the version old and install, an update may be executed
\* again and install again, and each is stopped at any point.
UpdateReachesLoop ==
  pc["loop"] # "down" /\ serving # installed =>
    restart > 0 \/ missed \/ \E p \in Pollers : pc[p] = "schedule"

\* agent-enroll --poll-once: "run one heartbeat poll after writing files".
PollOnceIsAHeartbeat == todo["once"] = {} /\ cur["once"] = None

\* The files hold the enrollment the Hub accepts, for good, and the loop was
\* not caught loading them.
Settled == issued > 0 /\ Whole(issued) /\ ~Raced

\* A loop whose files hold the Hub's last enrollment ends up polling with it,
\* whatever it was loaded with before and however long it was refused.
EnrollmentTakesOver ==
  <>[]Settled => <>[](cred["loop"].token = issued)

\* And then every task of the agent is reported done or failed, whatever
\* answers were lost and whenever the loop was restarted.
TasksSettle ==
  <>[]Settled => \A t \in Tasks : <>[](task[t].status = "ended")
===============================================================================
