-------------------------------- MODULE LinkFlow --------------------------------
(***************************************************************************)
(* How a transit is linked to a landing, and how the link is taken apart   *)
(* when one of the two is removed.                                         *)
(*                                                                         *)
(* A /link command queues an export_endpoint task for the landing.  In     *)
(* mesh mode it generates the keys of both ends: the landing writes its    *)
(* WireGuard configuration and brings the interface up when it executes    *)
(* the export; the result makes the Hub queue a bind_endpoint task for the *)
(* transit, which does the same with its half and binds the link in its    *)
(* sing-box configuration.  Linking the same two again makes new keys for  *)
(* the same interface.  The removal of an agent queues an unbind_endpoint  *)
(* or a teardown_mesh task for the other one, by the links the transit     *)
(* reported last.  The follow-up may fail, or the Hub may die before it:   *)
(* the export is done then and has no bind.                                *)
(*                                                                         *)
(* What is abstracted: the keys, addresses and endpoint of a link are its  *)
(* number, its interface is always the same one; sing-box is the link it   *)
(* routes to (TransitConfig has its files); what overlapping handlers do   *)
(* to one task file is in HubTasks, so the Hub completes one task at a     *)
(* time, and an agent waits for it; a lease may run out at any other time; *)
(* the endpoint snapshot that a link needs is there; nobody but the agent  *)
(* brings its interface up or down.                                        *)
(***************************************************************************)
EXTENDS Integers, Sequences, FiniteSets, SequencesExt

CONSTANTS
  Links,       \* the link commands: 1..n
  Removable,   \* the roles that may be removed, while both are there
  MaxLeases,   \* defaultTaskMaxLeaseCount
  MaxFaults    \* bound: the messages that get lost, the leases that run out on a
               \* task the agent has, the executions and follow-ups that fail,
               \* the times the Hub dies, the tasks of one second

Roles == {"transit", "landing"}

\* A mesh's configuration is in the default directory or in the one that
\* --mesh-config-dir gave; with --mesh-no-up it is written and not brought up.
Dirs == {"default", "other"}
Direct == [mesh |-> FALSE, up |-> FALSE, dir |-> "default"]
Modes == {Direct} \cup [mesh: {TRUE}, up: BOOLEAN, dir: Dirs]

ASSUME LinkAssumption ==
  /\ IsFiniteSet(Links) /\ Links = 1..Cardinality(Links)
  /\ Removable \subseteq Roles
  /\ MaxLeases \in Nat \ {0} /\ MaxFaults \in Nat

VARIABLES
  linked,      \* the last link command that was given
  second,      \* the second the last task was created in
  tasks,       \* [TaskIds -> Task], the task files
  faults,      \* those that happened
  missed,      \* history: the export that was followed up last got no bind
  registered,  \* [Roles -> BOOLEAN], hub-agents.json: the agent is there
  report,      \* its topology: the link the transit reported last, 0 if none
  hub,         \* the completion the Hub is at
  removal,     \* the removal the Hub is at
  queue,       \* [Roles -> Seq(TaskIds)], the tasks an agent has yet to execute
  result,      \* [Roles -> Result], the result an agent is posting
  conf,        \* [Roles -> [Dirs -> 0..Links]], the WireGuard configurations
               \* of a host
  iface,       \* [Roles -> 0..Links], what the interface is up with, 0: down
  stuck,       \* history: the hosts where a teardown left the interface up
  stored,      \* the link of the endpoint file on the transit, 0 if none
  bound        \* the link the transit's sing-box routes to, 0 if none

server == <<linked, second, tasks, faults, missed, registered, report, hub, removal>>
hosts  == <<queue, result, conf, iface, stuck, stored, bound>>
flow == <<server, hosts>>

-------------------------------------------------------------------------------
(* Types and helpers *)

Gens == {0} \cup Links
Command(kind, g) == [kind |-> kind, link |-> g]
TaskIds == [kind: {"export", "bind"}, link: Links]
           \cup [kind: {"unbind", "teardown"}, link: {0}]
Statuses == {"none", "queued", "running", "done", "failed", "cancelled"}
Task == [status: Statuses, at: Nat, leases: 0..MaxLeases, mode: Modes]
NoTask == [status |-> "none", at |-> 0, leases |-> 0, mode |-> Direct]
Result == [task: TaskIds, ok: BOOLEAN]
NoResult == [task |-> Command("none", 0), ok |-> FALSE]
HubIdle == [pc |-> "idle"]
RemovalIdle == [pc |-> "idle"]

\* The agent that executes a task.
Host(t) == IF t.kind \in {"export", "teardown"} THEN "landing" ELSE "transit"
OfHost(r, status) == {t \in TaskIds : Host(t) = r /\ tasks[t].status = status}

Fault == faults < MaxFaults /\ faults' = faults + 1
NoFault == UNCHANGED faults
FaultUnless(b) == IF b THEN NoFault ELSE Fault

\* A task file is named for its second and a random number.
Create(t, mode) ==
  /\ second' \in {second, second + 1}
  /\ tasks' = [tasks EXCEPT ![t] =
       [status |-> "queued", at |-> second', leases |-> 0, mode |-> mode]]

FlowInit ==
  /\ linked = 0 /\ second = 0 /\ faults = 0 /\ missed = FALSE
  /\ tasks = [t \in TaskIds |-> NoTask]
  /\ registered = [r \in Roles |-> TRUE]
  /\ report = 0
  /\ hub = HubIdle /\ removal = RemovalIdle
  /\ queue = [r \in Roles |-> <<>>]
  /\ result = [r \in Roles |-> NoResult]
  /\ conf = [r \in Roles |-> [d \in Dirs |-> 0]]
  /\ iface = [r \in Roles |-> 0] /\ stuck = {}
  /\ stored = 0 /\ bound = 0

-------------------------------------------------------------------------------
(* The Hub: links and removals *)

\* /link transit landing --mode direct or mesh, with a --mesh-config-dir, with
\* --mesh-no-up.
Link ==
  /\ linked + 1 \in Links
  /\ \A r \in Roles : registered[r]
  /\ linked' = linked + 1
  /\ \E mode \in Modes : Create(Command("export", linked'), mode)
  /\ FaultUnless(second' # second)
  /\ UNCHANGED <<missed, registered, report, hub, removal, hosts>>

\* The mode of a link, in its tasks; of the topology is only whether it is a mesh.
Mode(g) == tasks[Command("export", g)].mode
Mesh(g) == Mode(g).mesh
\* A landing's removal unbinds the link that was reported; a transit's takes
\* down the mesh, if the link had one.
CleanedUp(r) == report # 0 /\ (r = "landing" \/ Mesh(report))

Other(r) == IF r = "landing" THEN "transit" ELSE "landing"
Cleanup(r) == Command(IF r = "landing" THEN "unbind" ELSE "teardown", 0)

\* The registry is loaded and the other agent gets its cleanup task.
RemoveAgent(r) ==
  /\ removal = RemovalIdle /\ r \in Removable
  /\ \A q \in Roles : registered[q]
  /\ removal' = [pc |-> "save", role |-> r]
  /\ IF CleanedUp(r)
     THEN Create(Cleanup(r), Mode(report)) /\ FaultUnless(second' # second)
     ELSE UNCHANGED <<second, tasks, faults>>
  /\ UNCHANGED <<linked, missed, registered, report, hub, hosts>>

SaveRegistry ==
  /\ removal.pc = "save"
  /\ registered' = [registered EXCEPT ![removal.role] = FALSE]
  /\ report' = IF removal.role = "transit" THEN 0 ELSE report
  /\ removal' = [removal EXCEPT !.pc = "cancel"]
  /\ UNCHANGED <<linked, second, tasks, faults, missed, hub, hosts>>

CancelTasks ==
  /\ removal.pc = "cancel"
  /\ tasks' = [t \in TaskIds |->
       IF Host(t) = removal.role /\ tasks[t].status \in {"queued", "running"}
       THEN [tasks[t] EXCEPT !.status = "cancelled"] ELSE tasks[t]]
  /\ removal' = RemovalIdle
  /\ UNCHANGED <<linked, second, faults, missed, registered, report, hub, hosts>>

-------------------------------------------------------------------------------
(* The Hub: leases and results *)

\* The transit's routes, described by its endpoint files.
Topology == IF bound = 0 THEN 0 ELSE stored

\* The transit's heartbeat replaces its topology.
Heartbeat ==
  /\ registered["transit"] /\ report # Topology
  /\ report' = Topology
  /\ UNCHANGED <<linked, second, tasks, faults, missed, registered, hub, removal,
                 hosts>>

\* Seeded fault: the newest task comes first.
InOrderNewest(s) == \A i, j \in DOMAIN s : i < j => tasks[s[i]].at >= tasks[s[j]].at
\* Tasks are leased in the order of their names, that is, of their seconds.
InOrder(s) == \A i, j \in DOMAIN s : i < j => tasks[s[i]].at <= tasks[s[j]].at

\* The queued tasks of an agent become running, and reach it or not.
Lease(r) ==
  /\ registered[r] /\ queue[r] = <<>> /\ result[r] = NoResult
  /\ OfHost(r, "queued") # {}
  /\ tasks' = [t \in TaskIds |->
       IF t \in OfHost(r, "queued")
       THEN [tasks[t] EXCEPT !.status = "running", !.leases = @ + 1] ELSE tasks[t]]
  /\ \/ \E s \in SetToSeqs(OfHost(r, "queued")) :
          InOrder(s) /\ queue' = [queue EXCEPT ![r] = s] /\ NoFault
     \/ UNCHANGED queue /\ Fault
  /\ UNCHANGED <<linked, second, missed, registered, report, hub, removal,
                 result, conf, iface, stuck, stored, bound>>

\* An agent has a task to execute or to answer.
AtAgent(t) == result[Host(t)].task = t \/ t \in Range(queue[Host(t)])

\* A lease has run out.
Recover(t) ==
  /\ tasks[t].status = "running"
  /\ hub # HubIdle => hub.task # t
  /\ tasks' = [tasks EXCEPT ![t].status =
       IF tasks[t].leases >= MaxLeases THEN "failed" ELSE "queued"]
  /\ FaultUnless(~ AtAgent(t))
  /\ UNCHANGED <<linked, second, missed, registered, report, hub, removal, hosts>>

\* The result reaches the Hub, which knows the agent.
Post(r) ==
  /\ result[r] # NoResult /\ registered[r] /\ hub = HubIdle
  /\ hub' = [pc |-> "write", task |-> result[r].task, ok |-> result[r].ok]
  /\ UNCHANGED <<linked, second, tasks, faults, missed, registered, report, removal,
                 hosts>>

\* The handler is done.  An agent that gets no answer drops the rest of its batch.
Answer ==
  LET r == Host(hub.task) IN
  /\ hub' = HubIdle
  /\ result' = [result EXCEPT ![r] = NoResult]
  /\ queue' \in {queue, [queue EXCEPT ![r] = <<>>]}
  /\ UNCHANGED <<conf, iface, stuck, stored, bound>>

Write ==
  /\ hub.pc = "write"
  /\ tasks' = [tasks EXCEPT ![hub.task].status = IF hub.ok THEN "done" ELSE "failed"]
  /\ IF hub.task.kind = "export" /\ hub.ok
     THEN hub' = [hub EXCEPT !.pc = "follow"] /\ NoFault /\ UNCHANGED hosts
     ELSE Answer /\ FaultUnless(queue' = queue)
  /\ UNCHANGED <<linked, second, missed, registered, report, removal>>

\* The bind_endpoint task for the transit is the last thing a follow-up does.
Follow ==
  /\ hub.pc = "follow" /\ registered["transit"]
  /\ Create(Command("bind", hub.task.link), tasks[hub.task].mode)
  /\ missed' = FALSE
  /\ Answer
  /\ FaultUnless(second' # second /\ queue' = queue)
  /\ UNCHANGED <<linked, registered, report, removal>>

\* The transit is not there any more, or a check or a file fails: there is no
\* bind, whether or not the error can be noted in the export.
FollowFails ==
  /\ hub.pc = "follow"
  /\ missed' = TRUE
  /\ Answer
  /\ FaultUnless(~ registered["transit"] /\ queue' = queue)
  /\ UNCHANGED <<linked, second, tasks, registered, report, removal>>

\* The Hub is killed before the result is written or before it is followed up,
\* and starts again.
HubDies ==
  /\ hub # HubIdle /\ Fault
  /\ missed' = (missed \/ hub.pc = "follow")
  /\ hub' = HubIdle
  /\ result' = [result EXCEPT ![Host(hub.task)] = NoResult]
  /\ queue' = [queue EXCEPT ![Host(hub.task)] = <<>>]
  /\ UNCHANGED <<linked, second, tasks, registered, report, removal,
                 conf, iface, stuck, stored, bound>>

-------------------------------------------------------------------------------
(* The agents *)

ConfIs(r, d, g) == conf' = [conf EXCEPT ![r][d] = g]
IfaceIs(r, g) == iface' = [iface EXCEPT ![r] = g]

\* Seeded fault: an interface that is up is left alone.
EnsureIfDown(r, g) ==
  IF iface[r] # 0 THEN UNCHANGED <<conf, iface>>
  ELSE ConfIs(r, Mode(g).dir, g) /\ IfaceIs(r, g)
\* The configuration is written; wg-quick down and up, if the link says so.
EnsureWireGuardMesh(r, g) ==
  /\ ConfIs(r, Mode(g).dir, g)
  /\ IF Mode(g).up THEN IfaceIs(r, g) ELSE UNCHANGED iface

\* The configuration is written; taking the interface down worked or not, and
\* bringing it up does not.
MeshFails(r, g) ==
  /\ Mode(g).up
  /\ ConfIs(r, Mode(g).dir, g)
  /\ UNCHANGED iface \/ IfaceIs(r, 0)

\* Both halves of a link: in mesh mode the interface, in direct mode nothing.
Ensure(r, g) == IF Mesh(g) THEN EnsureWireGuardMesh(r, g)
                           ELSE UNCHANGED <<conf, iface>>

\* The export of a landing: it can fail before the mesh, in it, or after it.
ExecuteExport(g, ok) ==
  /\ \/ Ensure("landing", g)
     \/ ~ok /\ UNCHANGED <<conf, iface>>
     \/ ~ok /\ Mesh(g) /\ MeshFails("landing", g)
  /\ UNCHANGED <<stuck, stored, bound>>

\* The bind of a transit: the mesh, the endpoint's file, sing-box, its reload.
ExecuteBind(g, ok) ==
  /\ \/ Ensure("transit", g) /\ stored' = g /\ bound' = g
     \/ ~ok /\ Ensure("transit", g) /\ stored' \in {stored, g} /\ UNCHANGED bound
     \/ ~ok /\ UNCHANGED <<conf, iface, stored, bound>>
     \/ ~ok /\ Mesh(g) /\ MeshFails("transit", g) /\ UNCHANGED <<stored, bound>>
  /\ UNCHANGED stuck

\* Seeded fault: a failing wg-quick down ends the teardown.
TeardownIfDown(r) ==
  \/ ConfIs(r, "default", 0) /\ IfaceIs(r, 0) /\ UNCHANGED stuck
  \/ UNCHANGED <<conf, iface, stuck>>
\* The endpoint does not say where the configuration is: it is looked for in the
\* default directory.  One that is absent is left at that; otherwise it goes,
\* even if wg-quick down fails.
TeardownMesh(r) ==
  IF conf[r]["default"] = 0 THEN UNCHANGED <<conf, iface, stuck>>
  ELSE /\ ConfIs(r, "default", 0)
       /\ \/ IfaceIs(r, 0) /\ UNCHANGED stuck
          \/ iface[r] # 0 /\ UNCHANGED iface /\ stuck' = stuck \cup {r}

\* The configuration cannot be read or removed; the interface may be down.
TeardownFails(r) == (UNCHANGED iface \/ IfaceIs(r, 0)) /\ UNCHANGED <<conf, stuck>>

\* The routes, the endpoint's file, and the mesh if the link that was reported
\* had one.
ExecuteUnbind(mesh, ok) ==
  \/ /\ ok /\ stored' = 0 /\ bound' = 0
     /\ IF mesh THEN TeardownMesh("transit") ELSE UNCHANGED <<conf, iface, stuck>>
  \/ /\ ~ok /\ UNCHANGED <<conf, iface, stuck>>
     /\ \/ UNCHANGED <<stored, bound>>
        \/ bound' = 0 /\ stored' \in {stored, 0}
  \/ ~ok /\ mesh /\ stored' = 0 /\ bound' = 0 /\ TeardownFails("transit")

ExecuteTeardown(ok) ==
  /\ IF ok THEN TeardownMesh("landing") ELSE TeardownFails("landing")
  /\ UNCHANGED <<stored, bound>>

\* The next task of the batch is executed; its result is posted next.
Execute(r) ==
  /\ queue[r] # <<>> /\ result[r] = NoResult
  /\ \E ok \in BOOLEAN :
       LET t == Head(queue[r]) IN
       /\ FaultUnless(ok)
       /\ result' = [result EXCEPT ![r] = [task |-> t, ok |-> ok]]
       /\ CASE t.kind = "export"   -> ExecuteExport(t.link, ok)
            [] t.kind = "bind"     -> ExecuteBind(t.link, ok)
            [] t.kind = "unbind"   -> ExecuteUnbind(tasks[t].mode.mesh, ok)
            [] t.kind = "teardown" -> ExecuteTeardown(ok)
  /\ queue' = [queue EXCEPT ![r] = Tail(@)]
  /\ UNCHANGED <<linked, second, tasks, missed, registered, report, hub, removal>>

\* The request is lost, or the Hub does not know the agent any more: the rest of
\* the batch is not executed.
PostFails(r) ==
  /\ result[r] # NoResult /\ (hub # HubIdle => Host(hub.task) # r)
  /\ FaultUnless(~ registered[r])
  /\ result' = [result EXCEPT ![r] = NoResult]
  /\ queue' = [queue EXCEPT ![r] = <<>>]
  /\ UNCHANGED <<linked, second, tasks, missed, registered, report, hub, removal,
                 conf, iface, stuck, stored, bound>>

-------------------------------------------------------------------------------
(* Specification *)

FlowNext ==
  \/ Link \/ SaveRegistry \/ CancelTasks \/ Heartbeat
  \/ Write \/ Follow \/ FollowFails \/ HubDies
  \/ \E r \in Roles : RemoveAgent(r) \/ Lease(r) \/ Post(r)
                      \/ Execute(r) \/ PostFails(r)
  \/ \E t \in TaskIds : Recover(t)

FlowSpec == FlowInit /\ [][FlowNext]_flow

-------------------------------------------------------------------------------
(* Properties *)

FlowTypeOK ==
  /\ {linked, report, stored, bound} \subseteq Gens
  /\ second \in Nat /\ faults \in 0..MaxFaults /\ missed \in BOOLEAN
  /\ tasks \in [TaskIds -> Task]
  /\ registered \in [Roles -> BOOLEAN]
  /\ hub \in {HubIdle} \cup [pc: {"write", "follow"}, task: TaskIds, ok: BOOLEAN]
  /\ removal \in {RemovalIdle} \cup [pc: {"save", "cancel"}, role: Roles]
  /\ queue \in [Roles -> Seq(TaskIds)]
  /\ result \in [Roles -> Result \cup {NoResult}]
  /\ \A r \in Roles : /\ \A i \in DOMAIN queue[r] : Host(queue[r][i]) = r
                      /\ result[r] # NoResult => Host(result[r].task) = r
  /\ conf \in [Roles -> [Dirs -> Gens]] /\ iface \in [Roles -> Gens]
  /\ stuck \subseteq Roles

\* Nothing is going on: no task is open, and no handler or agent is at work.
Quiet ==
  /\ hub = HubIdle /\ removal = RemovalIdle
  /\ \A t \in TaskIds : tasks[t].status \notin {"queued", "running"}
  /\ \A r \in Roles : queue[r] = <<>> /\ result[r] = NoResult

Created(kind) == {t \in TaskIds : t.kind = kind /\ tasks[t].status # "none"}

\* The tasks of a set reached their agent by their first lease, and were
\* created in different seconds.
Orderly(S) ==
  /\ \A t \in S : tasks[t].leases = 1
  /\ \A t, u \in S : tasks[t].at = tasks[u].at => t = u

\* A host has the keys of a link where the link puts them, and runs on them if
\* the link brings them up.
Runs(r, g) == conf[r][Mode(g).dir] = g /\ (Mode(g).up => iface[r] = g)

\* However often two agents are linked, and in whatever order and how often the
\* landing executes its exports: when all is done, both ends of the mesh that
\* the transit routes to have the keys of the same link, and run on them unless
\* it was made with --mesh-no-up.  It rests on the transit's tasks alone being
\* orderly, and on the last follow-up: one that failed, or that the Hub died
\* before, leaves the landing on the keys of a link that the transit never got.
MeshMatches ==
  /\ Quiet /\ Orderly(Created("bind")) /\ ~ missed
  /\ \A r \in Roles : registered[r]
  /\ \A t \in Created("export") \cup Created("bind") : tasks[t].status = "done"
  /\ bound # 0 /\ Mesh(bound)
  => \A r \in Roles : Runs(r, bound)

\* A host has no configuration in the default directory, and its interface is
\* down but for two reasons: a wg-quick down failed, or a configuration in
\* another directory was left behind.
TakenDown(r) ==
  /\ conf[r]["default"] = 0
  /\ iface[r] # 0 => r \in stuck \/ conf[r]["other"] # 0

\* A landing that is removed while it is linked leaves no route to it on the
\* transit, and the reported mesh is taken down there as far as the unbind looks
\* for it - unless a bind of it was queued after the unbind, or had to be leased
\* again.
RemovedLandingIsUnbound ==
  LET unbind == Command("unbind", 0) IN
  /\ Quiet /\ tasks[unbind].status = "done"
  /\ Orderly(Created("bind") \cup {unbind})
  /\ \A t \in Created("bind") : tasks[t].at < tasks[unbind].at
  => bound = 0 /\ (tasks[unbind].mode.mesh => TakenDown("transit"))

\* A transit that is removed while a mesh link to it was reported leaves that
\* taken down on the landing, as far as the teardown looks for it, under the
\* same condition.
RemovedTransitIsTornDown ==
  LET teardown == Command("teardown", 0) IN
  /\ Quiet /\ tasks[teardown].status = "done"
  /\ Orderly(Created("export") \cup {teardown})
  /\ \A t \in Created("export") : tasks[t].at < tasks[teardown].at
  => TakenDown("landing")
===============================================================================
