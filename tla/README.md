# RelayPilot in TLA+

RelayPilot manages sing-box relays from one place.  A *Hub* keeps a registry of
*agents*, each on a *landing* (where traffic leaves) or a *transit* (where
clients come in), and hands them tasks.  An agent polls the Hub, carries out
what it gets on its own machine and posts the results.  An operator works the
Hub from the command line or through a Telegram bot.

Everything is kept in JSON files.  There is no database and, with few
exceptions, no lock: the Hub's HTTP server runs a goroutine per request, and the
bot daemon and every command are processes of their own that read and write the
same files.  That is what makes the program hard to test, and it is what the
modules here are about: an operation is modelled as the reads and writes of
whole files that it consists of, not as one step.

The program is `src/cmd/relaypilot`; line numbers in `PROJECT.json` refer to it.

## 1. Inventory

| Component | State | Operations | Talks to |
|---|---|---|---|
| Hub task queue (`hub.go`) | `hub-tasks/<id>.json`, time of the last pruning (in memory) | create, lease, recover, complete, cancel, prune | agents (HTTP), link flow, registry (removal) |
| Hub registry, tokens, enrollment codes (`hub.go`, `enrollment.go`) | `hub-agents.json`, `hub-agent-tokens.json`, `hub-enroll-codes.json`, `hub-removed-agents.json` | heartbeat, sync, invite, redeem, provision, import, remove, issue, rotate, revoke | agents, operator, alerts (removal by button) |
| Remote decommission (`hub.go`, `agent.go`) | the scheduled cleanup (outside the files), `agent-policy.json` | preview, decommission, cleanup | task queue, registry, service manager |
| Request authentication (`hub.go`, `server_proxy.go`) | `hub-nonces.json` | verify a signature and its timestamp, consume a nonce | in front of every agent request |
| HTTP routing (`server_proxy.go`) | none | one handler per request, concurrently | task queue, registry |
| Agent poll loop (`agent.go`) | backoff, caches of topology and public IP, stamp of `agent.json` | poll, heartbeat, reload | Hub, task execution |
| Agent task execution (`agent.go`, `server_proxy.go`, `system.go`) | sing-box and WireGuard configuration, endpoint files | the task commands | sing-box, systemd |
| Transit links (`server_proxy.go`, `agent.go`) | users, outbounds and route rules in the sing-box files, endpoint files | bind, unbind, bind-transit, check, reload | sing-box |
| Agent enrollment files (`enrollment.go`) | `agent.json`, token, CA, certificate, key | write from an enrollment, load, reload | Hub registry, poll loop |
| Link flow and mesh (`hub.go`) | WireGuard keys and addresses in the agents' files | link transit and landing, ensure a mesh, follow up an export | task queue |
| Offline alerts (`display.go`) | `hub-alerts.json` | scan, send, acknowledge, remove an agent | registry, Telegram |
| Telegram daemon and batches (`telegram.go`, `display.go`) | update offset (in memory), pending batches, restart notice | poll updates, dispatch, collect, send | task queue, Telegram |
| View caches (`hub.go`) | per-process caches with directory signatures | read, invalidate | task queue, registry |
| File store (`core.go`) | every JSON file | load, write (temporary file and rename), migrate | everybody |

Left aside for good: text and keyboard formatting, flag parsing, certificates
(calls of the Go library), generated inbound and landing sections, the installer
and menu scripts.  They have no state machine of their own.

### What is hard, and what correct means

* **Task queue.**  Every operation loads a task, changes the copy and writes it
  back, while others do the same.  A lease expires while the agent is still
  busy; the answer to a poll is lost; results come late, twice or after the task
  was cancelled; the Hub is killed between two writes.  Correct: no more leases
  than the retry cap, no task that stays running, a status that agrees with the
  result, an export that is followed up.
* **Registry.**  Four files, each with the data of all agents, are read and
  written whole.  A heartbeat may hold its copy for two seconds while it looks up
  a location.  An enrollment touches three of the files, one after the other.
  Correct: an operation on one agent leaves the others alone, a code is used
  once, an enrolled agent stays known, a removed one stays out.
* **Transit links.**  A link is one entry in each of up to three files; a task
  may be killed between two of them and is then run again, perhaps after other
  tasks.  Correct: users with distinct names and UUIDs, each with a route, no
  rule to an outbound that is gone, what is half done is repaired by repetition,
  links other than the task's untouched.
* **Authentication.**  Nonce store read and written whole; two time windows that
  have to fit together.  Correct: a request is accepted once.
* **Agent.**  A failing report ends the poll with tasks leased and not executed;
  an enrollment may be written while it is being loaded.  Correct: every leased
  task is reported or recovered, the agent ends up with one enrollment's files.
* **Link flow.**  Both ends of a mesh get new keys with every link; three tasks
  on two machines, each of which may fail, be lost or run again, and a removal
  that takes apart what was reported last.  Correct: when all is done both ends
  agree, and what is removed leaves neither route nor mesh, but for the losses that
  section 3 names.
* **Decommission.**  An agent schedules its own end, reports, and dies; the host
  may be enrolled again before or after.  Correct: it goes once and is gone when it
  said so, and a command that was cancelled is executed by no later enrollment.
* **Alerts and batches.**  A message is sent and the file that says so is
  written: whichever comes first, a failure in between repeats or loses it.
  Correct: what the operator was told holds, each agent that stays offline is
  reported, each batch is answered, no answer is false.

`PROJECT.json` lists the places in the code where each of these bites
("hazards"), with the properties that cover it or the reason why none does.

## 2. Modules

| Module | Stands for |
|---|---|
| `TaskLifecycle` | abstract: the phase and the number of leases of each task, one step per operation |
| `HubTasks` | the task files and every operation on them, file access by file access |
| `AgentDirectory` | abstract: agents, tokens and codes, one step per operation |
| `HubRegistry` | the four registry files and every operation on them |
| `LinkTable` | abstract: which endpoint each user of a transit leaves through |
| `TransitConfig` | the sing-box files of a transit, bind, unbind, bind-transit, check and reload |
| `RequestAuth` | the timestamp window and the nonce file in front of every agent request |
| `AgentLoop` | one agent host: enrollment files, the command line that writes them, the poll loop |
| `TelegramDaemon` | the bot daemon: updates, batches, notices, its cache of the task directory |
| `OfflineAlerts` | scan and button handler on one alert file |
| `LinkFlow` | a transit, a landing and the Hub: export, bind, mesh, and the cleanup of a removal |
| `Decommission` | the retirement of a host by a task, and its re-enrollment |
| `HubTasksProofs`, `HubRegistryProofs`, `TransitConfigProofs`, `AgentLoopProofs`, `TelegramDaemonProofs`, `OfflineAlertsProofs`, `DecommissionProofs` | theorems about the modules of these names |
| `RequestAndFlowProofs` | theorems about `RequestAuth`, and about `LinkFlow`, whose initial predicate, next-state relation, specification and types are called `FlowInit`, `FlowNext`, `FlowSpec` and `FlowTypeOK` so that one module can extend both |
| `MC...` | small instances for TLC |

A detailed module and its abstract one are connected by `INSTANCE ... WITH` at
the end of the detailed module (`Lifecycle`, `Directory`, `Links`).

`HubTasks`, `HubRegistry` and `TransitConfig` have the same shape.  A *worker* is one goroutine or
process; `pc[w]` names the point between two file accesses where it is, and the
operation's local variables (`copy`, `todo`, `cur`, ...) are functions of the
worker.  `Start...`/`...Load` actions begin an operation, the actions named in
`Proceed` continue it, `Crash` kills it.  With one worker the operations are
serialised; with two, every interleaving of their file accesses happens.
Reading a file and writing a file are one step each, because `writeJSON` renames
a finished temporary file into place.

Definitions with the comment "Seeded fault" are not part of a specification:
each is a plausible mistake in the definition after it, used to see that a
property would notice.

### HubTasks

`disk[t]` is the file of task `t`: status, `lease_count`, whether `leased_at` is
set, the kind of result, whether `followup_error` is set.  `owed[t]` counts the
deliveries that the agent has not answered yet.

| Code | Actions |
|---|---|
| `createHubTaskWithPayload` | `CreateTask` |
| `maybePruneHubTasks`, `pruneHubTasks` | `StartPoll`, `PruneRemove`, `PruneEnd` |
| `recoverStaleHubTasks` | `StartRecoverCommand`, `RecoverLoad`, `RecoverWrite`, `RecoverEnd` |
| `leaseHubAgentTasks` | `LeaseLoad`, `LeaseWrite`, `LeaseReturn`; `LoadFails` where a listed file has gone |
| `completeHubTask`, `queueBindEndpointFromExportResult` | `ResultLoad`, `ResultWrite`, `FollowupBind`, `FollowupError`, `ResultFinish` |
| `cancelAgentTasks` | `StartCancel`, `CancelWrite`, `CancelEnd` |
| lost answers, forgetful agents, time | `LeaseReturn`, `ForgetExecution`, `Tick` |
| kills, files that cannot be written | `Crash`, `WriteFails` |

`unfollowed` are the exports whose follow-up was cut short: the worker was killed
between the two writes of `completeHubTask`, or could write neither the bind nor
the reason.  A repeated result that is followed up takes its export out again.

Abstractions: a timestamp is an age, counted up to `MaxAge`, past every
threshold.  Pruning reads all files when the poll starts and deletes them one by
one.  The cached listing is taken as fresh.  Tasks of one command are alike,
except exports and the binds queued from them.

### HubRegistry

`registry`, `verifier`, `codes` and `tombstones` are the four files; `token[a]`
is what agent `a` has on its machine, so a heartbeat is possible exactly while
`token[a] = verifier[a]` (signatures are taken as unforgeable; the window and
nonces are in `RequestAuth`).  An entry is `pending`, `live` or absent, following
`isPendingAgent`.  `invites`, `granted` and `removed` record what was told to the
outside.  A code's expiry needs no state: an expired code is one whose redemption
does not start.

| Code | Actions |
|---|---|
| `updateHeartbeat`, `storeHubSyncSnapshot` | `BeatLoad`, `BeatSave` |
| `importAgentRegistration` | `ImportLoad`, `ImportSave` |
| `createHubEnrollInvite`, `upsertPendingHubAgent` | `InviteLoad`, `InviteCodes`, `InviteKnown` / `InviteAgents`, `InviteSave` |
| `redeemHubEnrollCode`, `provisionHubAgentBundle` | `RedeemLoad` / `Provision`, `RedeemAgents` ... `RedeemAnswer`, `RedeemFails` |
| `issueHubAgentToken`, `rotateHubAgentToken`, `revokeHubAgentToken` | `IssueLoad`, `RevokeLoad`, `KeysSave` |
| `removeHubAgent` | `RemoveLoad`, `RemoveSave`, `RemoveTombs`, `TombsSave`, `RemoveUnrecorded` |

### TransitConfig

`conf` is the configuration in the files; `Layout` says which section is in which
file.  An operation takes a `copy` of all files, changes it and writes the
modified files in the order of their names (`dirty`).  `interrupted` are the jobs
that were cut short and have not been repeated since.  What sing-box has loaded is
not in the state: `Check` and `Reload` are steps that leave the files alone.

| Code | Actions |
|---|---|
| `executeBindEndpointTask`, `bindTransit` | `StartBind`, `BindLoad`, `Save`, `Saved` |
| command `bind-transit` | `StartLink`, then the same |
| `executeUnbindEndpointTask`, `unbindTransit` | `StartUnbind`, `UnbindLoad`, `Save`, `Forget` |
| `applyDataPlaneChange` | `Check`, `Reload` |

Three facts of the code that the model keeps and a reader may not expect.  An
unbind task does not reload sing-box.  A bind task that is executed a second time
gives the client a new UUID, since the Hub's payload does not contain one.  And a
bind-transit that renames a client by its UUID and is killed after the inbound's
file leaves the rule of the old name behind, also when it is repeated, because
the old user can no longer be found; the rule has no effect until that name is
bound again (therefore `LinksSpec` promises nothing after a crash).

### RequestAuth

A delivery is checked in three steps: `Check` reads the clock and tests the
window (`verifySignature`), `LoadNonces` loads the nonce file, reads the clock
again, prunes and tests, and `Save` and `Accept` write it back and handle the
request (`consumeNonce`, `requireAuth`).  Handlers of all agents share the file.
`overwritten` records that a handler wrote back a copy that was stale; `overdue`,
that the second reading of the clock found the window passed.  Both are
exceptions of `HandledOnce`: overlapping write-backs lose nonces, and the two
clock readings leave a gap of one second at the end of the window.

### AgentLoop

`file[f]` is the number of the enrollment each of the five files was written for,
`cred[p]` what a poller holds.  Two pollers: the loop of the service and the
single poll of `agent-enroll --poll-once`.

| Code | Actions |
|---|---|
| `agentEnrollInvite`, `writeAgentEnrollmentFromPayload` | `Redeem`, `WriteFile` (one per file), `EnrollEnds` |
| `updateAgentIPMode` | `SetIPMode` |
| `agentPollLoopWithEnrollmentFile`, `reloadAgentPollerFromEnrollmentFileIfChanged` | `StartLoop`, `Wake`, `ReadConf`, `ReadToken`, `ReadPair`, `TakeStamp`, `LoadFails` |
| `pollOnce`, `executeTask` | `Heartbeat`, `GetTasks`, `TasksLost`, `Run`, `PostResult`, `ResultAnswerLost`, `RequestFails`, `PollEnds` |
| `executeSelfUpdateTask`, `relaypilot.sh update` | `Run` (nothing is installed), or `Compare`, then `Install` or `InstallFails`, then `Schedule` |
| restart after a self-update, systemd, kills | `RestartService`, `KillLoop`, `KillCli` |

`installed` is the version of the program files, `serving` the one the loop was
started with.  The script compares versions, downloads, and replaces the files
without a lock, and goes on when it cannot find out what the latest version is: both
pollers may install, and a repeated update may install again (`Target` is the version
a task names).  `restart` counts the restarts that are scheduled; `missed` says that
a version was installed whose restart does not come: none was asked for, the script
failed after it replaced the files, scheduling failed, or `agent-enroll` was killed
before it, or together with the shell that waits.  A restart that was scheduled is
taken to succeed.  Done and failed are one status here (`"ended"`), and pauses have
no length.

### TelegramDaemon

`pc` walks through one turn of `runTelegramHubDaemon`: `SendNotice`,
`GetUpdates`, `Handle` of one update after the other (`CreateTask`, `Record` for
a command; `Install`, `Announce`, `Schedule` for an update of the Hub), `Collect`,
`Send`.  The text of `/sync` has no line with a batch, so its batch is created and
not tracked (`Created`).

`sig` and `view` are the cached listing of the task directory with its signature:
`Sign` is the step before the load in `Collect`.  A listing is a `Snapshot`, and its
stamp is what the signature tells of it.  `Complete`, `Rewrite` and `Prune` are the
Hub process at work on the directory; `Rewrite` is a late result or a recovery that
writes a completed task again, which `HubTasks` has in detail.

`installed` is the version of the program files and `serving` the one the Hub service
runs.  An update installs a version unless the script finds it installed, and the
script goes on when it cannot find out what the latest is (`AlreadyCurrent`).  `restart`
counts the restarts that are scheduled; `missed` says that a version was installed
whose restart does not come: none was asked for, the script failed after it moved the
files, scheduling failed, or the daemon was killed before it scheduled the restart
or together with the shell that waits for it (`Kill`).

`dropped` are the batches whose result will not be sent: they made room for another
(`Record`), their sending failed (`Send`), or the daemon was stopped with them
(`Stop`).

### OfflineAlerts

| Code | Actions |
|---|---|
| `scanOfflineAgentAlerts` | `StartScan`, `LoadAgents`, `LoadAlerts`, `SendAlert`, `SendFails`, `SaveScan`, `SaveScanFails` |
| `handleHubAlertCallback` | `PressObserve`, `PressRemove`, `RemoveAgent`, `SaveCall`, `CallFails` |

`quiet[a]` is the time until which the operator was told to expect nothing; it
is a history variable, as is `scan.base`, the file a process started from.

### LinkFlow

| Code | Actions |
|---|---|
| `hubLinkTransitLanding` | `Link` |
| `leaseHubAgentTasks`, `recoverStaleHubTasks` | `Lease`, `Recover` |
| `completeHubTask`, `queueBindEndpointFromExportResult` | `Post`, `Answer`, `Write`, `Follow`, `FollowFails`, `HubDies` |
| `executeExportEndpointTask`, `executeBindEndpointTask`, `ensureWireGuardMesh` | `ExecuteExport`, `ExecuteBind`, `EnsureWireGuardMesh`, `MeshFails` |
| `unbindTransit`, `teardownWireGuardMesh`, `executeTeardownMeshTask` | `ExecuteUnbind`, `ExecuteTeardown`, `TeardownMesh`, `TeardownFails` |
| `removeHubAgent`, `queueRemovalCleanupTasks`, `cancelAgentTasks` | `RemoveAgent`, `SaveRegistry`, `CancelTasks` |
| `updateHeartbeat`, `collectTopology` | `Heartbeat` |

`conf[r]` has the WireGuard configurations of a host, in the default directory and in
another, and `iface[r]` what its interface runs on, as the number of the link that
made the keys; `bound` is the link sing-box routes to and `stored` that of the endpoint
file on the transit.  A link is direct or a mesh, and a mesh has a directory
(`--mesh-config-dir`) and is brought up or not (`--mesh-no-up`): `Modes`.

Facts of the code that the model keeps: a configuration is taken down before it is
brought up; an unbind does not reload sing-box, so what is bound is what the files say;
a mesh stays in place when the link is made again without one; a teardown does not know
of another directory, takes a configuration that is absent for success, and removes one
that is there even if `wg-quick down` failed; a failing follow-up leaves the export
done.  `missed` and `stuck` are history variables: the export that was followed up last
got no bind, and the hosts where a failed `wg-quick down` left the interface up.
`Follow`, `FollowFails` and `HubDies` are the outcomes of what follows the write of a
result; that the error may be noted in the export or not is in `HubTasks`.

### Decommission

| Code | Actions |
|---|---|
| `hubDecommissionCommand`, `parseDecommissionArgs` | `Command` |
| `leaseHubAgentTasks`, `recoverStaleHubTasks`, `completeHubTask` | `Poll`, `Recover`, `Post`, `PostFails` |
| `executeDecommissionAgentTask`, `scheduleDecommissionCleanup` | `Execute`, `ExecuteOther` |
| the scheduled `leave-hub`, `reset-agent`, `uninstall` | `Cleanup`, `Reboot` |
| `removeHubAgent`, `cancelAgentTasks`, `agent-enroll` | `RemoveAgent`, `CancelTasks`, `Enroll` |

`retired[t][e]` counts how often command `t` was carried out by enrollment `e`;
`host.age` is the time a newcomer has been there, counted up to `Grown`.  An execution
takes any time up to `ExecTime`, and time stands still while something is due, so that
the request's timeout, the delay and the lease can be compared.

A confirmed command is executed in one of two ways.  `systemd-run` starts a oneshot
unit and waits for it to end (`agent.go:389-405`), so the agent is `waiting` until the
cleanup stops its service; without `systemd-run` the cleanup is a shell of its own and
the agent goes on to report.  The foreground mode, which only tests set, is left out; the
shell is the way of hosts without systemd, where a child outlives the service.  The
removal of an agent takes it out of the registry first and cancels its tasks after
that, or never, with `--keep-tasks` or when it is killed.  A cleanup wipes the
enrollment that the host has when it runs; it is taken to succeed.  Cancelling all the
tasks is one step.

## 3. What TLC checks

| Run | Instance | Shows |
|---|---|---|
| `HubTasksLive` | 1 task, 2 agents, 2 workers, 1 kill or failed write, caps of 2 | `TypeOK`, `LeaseCap`, `RunningIsRecoverable`, `ResultMatchesStatus`: stale copies written back do not break them; `TasksSettle`, `RunningEnds`: nothing stays open |
| `HubTasksExport` | an export and its bind, 2 workers, 1 kill or failed write | `DoneExportIsFollowed`: a done export has led to its bind or says why not, unless its follow-up was cut short |
| `HubTasksSerial` | 3 tasks of 2 agents, 1 worker, 1 kill or failed write | `LifecycleSpec` (implements `TaskLifecycle`), `ExecutionsAreCounted` |
| `RegistrySerial` | 2 agents, 2 codes for one of them, 1 worker, 1 crash | `DirectorySpec` (implements `AgentDirectory`), `CodeIsSingleUse`, `EnrolledIsRegistered`, `RemovedStaysOut` |
| `TransitSerial` | 2 users, 3 UUIDs, 2 endpoints, 3 files, 1 worker, 2 crashes | `SettledIsConsistent`, `BindNeverDangles`, `UsersAreDistinct`, `LinksSpec` (implements `LinkTable` until the first crash) |
| `RequestAuth` | 3 requests of 2 agents, 2 handlers, 4 deliveries, clocks off by 1 | `HandledOnce`, `HandledIsRemembered`: until a handler writes a stale copy of the nonce file back, a nonce is kept for as long as its request could pass, so that replays are refused but for one second (section 2); after such a write nothing is promised |
| `AgentLoop` | 2 enrollments, 2 tasks (one self-update), 2 installations, 1 kill | `LoopHoldsTheEnrollment`, `UpdateReachesLoop`: the loop does not stay on another version than the one installed, unless the restart is known to be missed; `EnrollmentTakesOver`, `TasksSettle` |
| `TelegramDaemon` | an update of the Hub and a command for 2 agents, 2 installations, 1 kill | `ConfirmedIsHandled`, `UpdateReachesHub`, `ResultSentOnce`, `AnswersAreTrue`: no answer contradicts the tasks that are listed when the signature is taken or the files are read |
| `TelegramLive` | an update, a `/sync` and a command for 1 agent, 2 batches | `PendingIsAnswered`: the result of a batch is sent, unless it made room for another, its one sending failed or the daemon was stopped with it; `NoticeIsSent` |
| `OfflineAlerts` | 1 agent, 4 ticks, 2 tokens, 1 kill | `QuietIsKept`, `ButtonsKeepWorking`, `OfflineIsReported` |
| `LinkFlow` | 2 agents linked twice in five modes, 1 removal, 1 fault, cap 2 | `MeshMatches`: both ends have the keys of the link that is routed to, if the last follow-up led to a bind; `RemovedLandingIsUnbound`, `RemovedTransitIsTornDown`: no route and nothing in the default directory is left, and the interface is down unless a `wg-quick down` failed or another directory was used |
| `Decommission` | 2 commands, 2 enrollments, 1 reboot, with `systemd-run` or without | `ReportPrecedesCleanup` (without `systemd-run`), `RetiredOnce`; `NewcomersAreSpared`: once its tasks are cancelled, what strikes the next enrollment is only what was under way; `DoneIsCarriedOut` |

Every module defines its type invariant, `TypeOK` (`FlowTypeOK` in `LinkFlow`), too.
It is proved (section 4) for all modules.  The inductive invariants of the proofs
were checked on these instances, too, before they were proved.

### What the code does not keep

Sentences of the documentation that one would state as properties, and that the
models refute.  No run checks them; each can be reproduced from the definition
and the instance named.

* *A completed task is final.*  An execution whose lease had expired reports after
  the next one did, or after a cancellation, and `completeHubTask` does not look
  at the status (`hub.go:1675`; `HubTasks!CompletedIsFinal`, one worker is
  enough).
* *Only a running task is requeued* (`docs/PROTOCOL_CONTRACT.md:163-169`).
  Recovery that loaded a task while it was running writes its copy after the
  result was stored (`hub.go:1561`; `HubTasks!OnlyRunningIsRequeued`, two
  workers).
* *An export is followed by a bind* (`docs/HUB.md:193-196`), when the Hub is killed after it
  stored the result, or when neither the bind nor `followup_error` can be written: the
  export shows as done and nothing follows (`hub.go:1702`; `HubTasks`, where `unfollowed`
  is not empty).
* *A code is single-use* (`docs/PROTOCOL_CONTRACT.md:225-226`), when two
  redemptions overlap: both answer with credentials, the token of the first is
  void (`enrollment.go:1286`; `RegistrySerial` with two workers and no crash).
* *A reused nonce is rejected* (`docs/PROTOCOL_CONTRACT.md:288`), when two requests
  overlap: each handler writes back the file it loaded, and one of the nonces is
  lost (`hub.go:917`; `RequestAuth`, where every such write sets `overwritten` and
  ends what `HandledOnce` and `HandledIsRemembered` promise).
* *A removed agent is gone* (`docs/HUB.md:417`), when a heartbeat of another agent
  was begun before the removal: it writes the whole registry back
  (`hub.go:1268`; `RegistrySerial` with two workers and no crash).
* *A mesh has the same keys at both ends when the task queue has settled*: the landing
  takes the keys of a new link when it exports, and if the follow-up fails or the Hub
  dies before it, the transit keeps those of the link before (`hub.go:1696-1713`;
  `LinkFlow`, where `missed` is true).
* *A removal takes the mesh down* (`docs/HUB.md:421-423`): the endpoint that the Hub keeps
  has no `config_dir` (`hub.go:1859-1863`, `2068`), so a configuration in another directory
  stays and the teardown answers "absent" with success (`server_proxy.go:2009-2013`); and a
  failed `wg-quick down` leaves the interface up with its configuration gone
  (`server_proxy.go:2022-2031`; `LinkFlow!TeardownMesh`).
* *An agent that is offline for a day is alerted about* (`docs/HUB.md:443-444`), when
  it was removed by the button of an alert and enrolled again: its alert stays
  closed (`display.go:1040`; `OfflineAlerts!EveryOfflineIsReported`).
* *The Hub tracks the batch of every command*: not that of `/sync`
  (`TelegramDaemon!DispatchIsTracked`).
* *... and sends one aggregate result after all target agents finish, or after a
  bounded timeout* (`docs/HUB.md:543-546`): the oldest batch is dropped when there are too
  many, a batch has left the file when its result is sent (`display.go:957-968`), so
  that a failed send or a stopped daemon loses it (`TelegramDaemon`, `dropped`), and
  a result leaves out tasks whose files were removed.
* *An update that is installed is not installed again*: an update of the Hub that is
  delivered again after a kill reinstalls and restarts when the latest version
  cannot be found out (`relaypilot.sh:1366-1371`; `TelegramDaemon!Install`), and a
  restart that was announced can be lost with the shell that waits for it.  The same
  holds of a `self_update` that an agent executes again, of two that overlap, and of two
  that name different versions: each restarts the service (`AgentLoop!Install`).
* *The agent reports first and cleans up after the delay* (`hub.go:2327`, in the
  operator's answer): where `systemd-run` is there, the agent waits for the cleanup and is
  stopped by it, so it never reports, and the task stays running until its lease ends
  (`Decommission!Execute`, `waiting`).
* *A command is carried out once*, when a batch takes longer than the lease, with a
  `self_update` of up to ten minutes before the decommission: the task is leased again
  before the cleanup has ended the first enrollment (`Decommission` with a `LeaseTimeout`
  of 5).
* *A removed agent's command does not strike the next enrollment*: it does if its tasks
  were kept (`--keep-tasks`) or the removal was killed before it cancelled them, and a
  cleanup that was scheduled before wipes the newcomer's files as long as the delay lasts
  (`Decommission!Cleanup`).
* *`agent-enroll --poll-once` runs one heartbeat*: it leases and executes tasks as
  well, and at most as many as the Hub's default limit
  (`AgentLoop!PollOnceIsAHeartbeat`).

### Why the bounds are enough

* *Two workers.*  Every hazard listed is of one operation's copy being written
  over another's change; a third operation can be serialised before or after.
  The theorems of section 4 hold for any number.
* *One task where operations overlap.*  Operations on different tasks meet only in
  the listing (a file that disappears between listing and loading, `LoadFails`,
  needs one) and in the retention limit (`MaxCompleted`), which `HubTasksSerial`
  reaches with three tasks.
* *Retry caps of 2, all timeouts 1.*  Enough for a task to be leased, requeued and
  given up; ages are compared with thresholds only.  That the larger of two
  different caps holds is the theorem `LeasesAreCapped`.
* *Two agents.*  One that an operation is about and one that must not notice.
* *Two codes for one agent* is a renewed invitation while the first is still
  valid.  `MaxTokens` is what the agent that is enrolled from the start and both codes
  need together; a rotation may take a new token or name one of these.
* *Three UUIDs* let a client change its UUID while both others are taken; *two
  users and two endpoints* let links share an endpoint, move and be renamed.
* *Crashes.*  `MaxCrashes`, in `HubTasks` `MaxFaults`, bounds them; after one,
  every continuation is explored, and in `TransitSerial` a second crash can hit the
  repetition.

* *RequestAuth.*  Skew and drift of one unit put timestamps at both edges of the
  window and one beyond; three requests are one that is repeated, one of the same
  agent and one of another that write over its nonce.
* *AgentLoop.*  Two enrollments are an old one and the one that takes over; two
  writes of `agent.json`, so that one can hit a load.  `MaxLeases` 2 hands a task out
  again, and `MaxInstalls` 2 lets the update install again or in both pollers at once;
  two updates that name different versions were checked once (860 thousand states)
  and are covered by the theorem.
* *TelegramDaemon.*  `Limit` 2 puts both updates in one answer.  Two agents make a
  batch mixed: finished, open and removed tasks at once.  `MaxInstalls` 2 lets an
  update that is delivered again install again, `MaxWrites` 5 lets both tasks
  be created and completed and one of them be written again.  The liveness run has
  two batches, and `MaxPending` 1 makes the older one give way; in it no completed
  task is written again, since a task that is reopened and completed forever would
  need a fairness of its own.
* *OfflineAlerts.*  One agent, whose entry both processes save; a scan that saves
  an old entry of a second agent does so for the same reason.  The safety
  properties were also checked once with two agents, two ticks and a snooze of
  one (2.3 million states).
* *LinkFlow.*  The second link is what can mix up keys, also those of two modes; either
  end can be removed once.  One fault is one execution or follow-up that fails, one
  death of the Hub, one lease that runs out while the agent has the task, one lost
  message, or one task created in the same second as the one before it.  A follow-up
  that fails since the transit is gone, and a lease of a task that no agent has, cost
  nothing.  1.8 million states; two faults were checked once (18.8 million states).
* *Decommission.*  A unit is the agent's timeout of ten seconds.  The delay of
  twelve is two units, an execution takes up to one, and the lease, twelve units in the
  code, is six: as short as a batch of two commands (`MaxTasks`) and the delay allow.
  With a lease of five, `RetiredOnce` fails: the code's lease has to outlast a batch.
  What is needed of the times is the hypothesis `Timing` of section 4.  The safety
  properties were also checked once with three enrollments (4.1 million states).

Deadlock is checked where an operation can always start (the `HubTasks`,
`HubRegistry`, `TransitConfig` and `RequestAuth` runs).  In the others the system
stops when bounded inputs - enrollments, updates, links, commands, the clock - are
used up, and the runs say so.

### Fairness

`HubTasksLive`: a goroutine or process that has
started an operation goes on (`WF` of `Proceed`; there is no lock or channel it
could wait for), and time passes (`WF` of `Tick`).  The premise of a property is
that an agent polls again and again, which is what `agent` does in its loop and
what an agent that was switched off does not do.  It is strong fairness because
the model has two workers where the Hub has a goroutine for every request: a poll
cannot be kept out by others that are being served.  Nothing is assumed of
answers (they may all be lost), results (executions may all be forgotten) or
operators.

`AgentLoop`: the loop goes on and systemd starts it again; a request of the loop
that is sent again and again is answered at last (strong fairness of `Heartbeat`,
`GetTasks`, `PostResult`), which is all that a retry can hope for.  Nothing is
assumed of the command line.  Its properties
have the premise that the enrollment settles.

`TelegramLive`: the loop goes on, systemd restarts it, time passes; a request to
Telegram and a write that are tried again and again succeed at last.
`OfflineAlerts`: a scan and a callback that have begun go on, and sending and
saving succeed at last; the timer that starts scans is in `ScanStep`.

`Decommission`: time passes, the agent goes on, the service manager starts what is
due.  Nothing is assumed of answers or of the operator.

## 4. What is proved

The theorems hold for any values of the constants that satisfy the assumption of
the module, and for any number of workers unless a hypothesis is named below.
The assumptions say that bounds are numbers (positive where the code's are),
that the values for "none" are not agents, tasks or names, and that each task,
code and request has its owner.  Beyond that, `HubTasksAssumption`: exports and
binds are different tasks; `HubRegistryAssumption`: the agents enrolled at the
start are finitely many and no more than the tokens there are;
`TelegramAssumption`: the updates are a sequence (of any length) and there is an
agent; `TransitConfigAssumption`: every section of the configuration is in exactly
one file; `DecommissionAssumption`: the commands are finitely many numbers;
`LinkAssumption`: the links are the numbers from one to any bound, and a task may
be leased at least once.

| Module | Theorem | States | Hypotheses |
|---|---|---|---|
| `HubTasks` | `TypeCorrect` | `Spec => []TypeOK` | |
| | `FilesAreWellFormed` | `Spec => []FilesWellFormed` | |
| | `LeasesAreCapped` | `Spec => []LeaseCap` | |
| | `RunningTasksAreRecoverable` | `Spec => []RunningIsRecoverable` | |
| | `ResultsMatchStatuses` | `Spec => []ResultMatchesStatus` | |
| | `DoneExportsAreFollowed` | `Spec => []DoneExportIsFollowed` | |
| | `ExecutionsAreLeases` | `Spec => []ExecutionsAreCounted` | `Serialised` |
| | `TasksImplementLifecycle` | `Spec => LifecycleSpec` | `Serialised` |
| `HubRegistry` | `RegistryTypeCorrect` | `Spec => []TypeOK` | |
| | `RegistryIsSteady` | `Spec => []SteadyRegistry` | |
| | `CodesAreSingleUse` | `Spec => []CodeIsSingleUse` | `Serialised` |
| | `EnrolledAreRegistered` | `Spec => []EnrolledIsRegistered` | `Serialised` |
| | `RemovedStayOut` | `Spec => []RemovedStaysOut` | `Serialised` |
| | `RegistryImplementsDirectory` | `Spec => DirectorySpec` | `Serialised` |
| `TransitConfig` | `TransitTypeCorrect` | `Spec => []TypeOK` | |
| | `UsersStayDistinct` | `Spec => []UsersAreDistinct` | |
| | `BindsNeverDangle` | `Spec => []BindNeverDangles` | `Serialised`, `OutboundsAreFirst` |
| | `SettledStaysConsistent` | `Spec => []SettledIsConsistent` | `Serialised`, `UsersAreFirst` |
| | `LinksImplementTable` | `Spec => LinksSpec` | `Serialised`, a worker |
| `RequestAuth` | `RequestTypeCorrect` | `Spec => []TypeOK` | |
| | `RequestHandledOnce` | `Spec => []HandledOnce` | |
| | `RequestRemembered` | `Spec => []HandledIsRemembered` | |
| `LinkFlow` | `FlowTypeCorrect` | `FlowSpec => []FlowTypeOK` | |
| | `MeshesMatch` | `FlowSpec => []MeshMatches` | |
| | `RemovedLandingsAreUnbound` | `FlowSpec => []RemovedLandingIsUnbound` | |
| | `RemovedTransitsAreTornDown` | `FlowSpec => []RemovedTransitIsTornDown` | |
| `AgentLoop` | `AgentLoopTypeCorrect` | `Spec => []TypeOK` | |
| | `LoopHoldsOneEnrollment` | `Spec => []LoopHoldsTheEnrollment` | |
| | `UpdatesReachLoop` | `Spec => []UpdateReachesLoop` | |
| `TelegramDaemon` | `TypeCorrect` | `Spec => []TypeOK` | |
| | `ConfirmedAreHandled` | `Spec => []ConfirmedIsHandled` | |
| | `UpdatesReachHub` | `Spec => []UpdateReachesHub` | |
| | `ResultsSentAtMostOnce` | `Spec => []ResultSentOnce` | |
| | `ResultsAreTrue` | `Spec => AnswersAreTrue` | |
| `OfflineAlerts` | `AlertsTypeCorrect` | `Spec => []TypeOK` | |
| | `QuietStaysKept` | `Spec => QuietIsKept` | |
| | `ButtonsStayGood` | `Spec => ButtonsKeepWorking` | |
| `Decommission` | `DecommissionTypeCorrect` | `Spec => []TypeOK` | |
| | `NewcomersStaySpared` | `Spec => []NewcomersAreSpared` | |
| | `CarriedOutOnce` | `Spec => []RetiredOnce` | `Timing` |
| | `ReportsPrecedeCleanups` | `Spec => []ReportPrecedesCleanup` | `Timing` |

The hypotheses:

* `Serialised`: there is at most one worker, so operations do not overlap.  The
  properties need it: section 3 says what two redemptions, or a heartbeat and a
  removal, do to them.  The agent's poll loop runs its tasks one after the other,
  so that for `TransitConfig` only an operator's command beside the agent breaks
  it; the Hub keeps it as long as one request or command comes at a time.
* `OutboundsAreFirst`, `UsersAreFirst`: the file with the route rules does not come
  before the one with the outbounds, with the users.  RelayPilot creates
  `00-relaypilot-reality.json`, `90-relaypilot-outbounds.json` and
  `91-relaypilot-route.json` and writes them in the order of their names; a single
  `config.json` satisfies both as well.  The names an operator chooses may not.
  Each theorem needs the hypothesis it has: with the constants of the one-process run
  and another layout, TLC finds `BindNeverDangles` violated when the rules come before
  the outbounds (a bind writes, and killed there leaves, a rule without its outbound), and
  `SettledIsConsistent` when they come before the users (an unbind finds a user of
  another name by the rule to its endpoint; killed after the rule is gone, it does
  not find the user when it is repeated).  `LinksSpec` needs neither.
* `Timing`: the agent's timeout is less than the delay of the cleanup, and the
  lease outlasts the executions and timeouts of a full batch and the delay.  In the
  code 10, 12 and 120 seconds with 5 tasks to a batch: 10 < 12, and
  4 * (x + 10) + x + 12 < 120 for executions of x <= 13 seconds.  Slower ones break it, see
  section 3.

### The arguments

*HubTasks.*
`LeaseCap` and the properties next to it are not inductive: a step may write a copy that was
loaded any time ago, and they say nothing of copies.  `FilesWellFormed` says of
*every* copy in memory what is to hold of the files.  It is inductive because
each operation makes a well-formed file of a well-formed file whatever the file
on disk has become since (`RecoveredWellFormed`, `LeasedWellFormed`, ...); the
fact that carries `LeaseCap` is that recovery requeues only below its cap, so
that a queued file can always be leased once more.  Type correctness comes
first, because these lemmas need a worker that writes to hold a file.
`DoneExportIsFollowed` adds what a worker that is following up an export has done
so far (`Following`); what it holds of an export stays held until a follow-up of the
export begins again.  With one worker, a copy is of the file as it still is
(`CopyCurrent`), and the deliveries in flight are counted in the lease
(`GotCounted`); then each write is a step of `TaskLifecycle` and all other steps
are stutters.

*HubRegistry.*  `SteadyRegistry` is strengthened to
`Steady`: the enrolled agents are live in the file and in every copy that a
worker is about to write, so it does not matter whose copy is written last.  The
step that carries it is `InviteAgents`: an invitation makes an agent pending only
if it is not live, and an enrolled one is.  With removals it cannot
hold: an enrolled agent may itself be removed.  `SerialInv`, for one worker, says
of each of the three files which copy of it a worker holds and how that differs
from the file (`AgentsCurrent`, `KeysCurrent`, `CodesCurrent`), and that tokens
that were given out were issued.

*TransitConfig.*  `UsersAreDistinct` already speaks of the copies; `DistinctEverywhere`
only adds that they are a function of the worker.  `BoundDistinct` is where the
lookup by name and by UUID in `upsertVlessUser` is needed.  What a killed
operation leaves behind is in `HalfDone`: each rule to an outbound there is none
of is *explained* by an unbind task that is going on or was cut short and, run to
its end, removes it, or, when the outbounds may come after the rules, by a bind
that adds the outbound; under `UsersAreFirst` each user without a rule is owed one
by a bind.  It is kept while files are written because of `Saving`: what is being
written leaves nothing to the worker's own job; it has no users or outbounds but
those of the files and its job's; a rule in the files to an outbound it lacks is
explained; and every section in which it differs from the files is still to be
written.  When nothing is interrupted and nobody is working, nothing can explain
anything, so nothing is half done.
`LinksImplementTable` rests on `Unbroken`: until a crash, each name is linked in
the files as it is in what is being written (`Alike`), or the job is about it.

*RequestAuth.*  `HandledOnce` and `HandledIsRemembered` speak of the file; between load and write
the nonce is only in a handler's copy.  `AuthInv` adds that, as long as no stale
copy was written, the file (`StoreIsComplete`) and every copy that is not stale
(`CopyIsComplete`) hold all nonces of handled requests that are not forgotten.
The arithmetic of the two windows is in one lemma: what is in the window is not
forgotten.  The argument is per write, so the number of handlers, agents and
requests does not matter.

*LinkFlow.*  The three properties speak of a state in which all is done, so
`FlowInv` says what each task that has succeeded left on its host, and why no older
one can come after it.  What an unbind or a teardown may leave is `Kept`: a host
whose interface is up has a configuration, or a `wg-quick down` failed there.  Why that is: tasks get their first lease in the order of
their creation (`InTurn`), a batch is executed in that order (`Batched`), and an
agent polls again only when its batch is empty; so when a task has succeeded,
every older one of the same agent that was leased only once is behind it
(`NoneBehind`).  A task that was leased again may be executed later, whatever its
age: that is why the properties ask for one lease, and only of the tasks
that need it.  From there the last bind, the unbind and the teardown have the last
word on their hosts (`TransitMatches`, `Unbound`, `TornDown`).  The landing's
exports need no such order (`LandingMatches`): a landing waits for the Hub's answer
to an export, and the Hub creates the bind before it answers, so the bind that is
created last is of the export that was executed last, even when exports were
handed out again in another order (`Exported`, `Answering`) - unless that export was
`missed`.  The proof distinguishes not twelve
actions but four kinds of steps (`Kinds`): one that creates a task, one that
creates and leases none and leaves the hosts alone, a lease, and an execution.

*AgentLoop.*  The files are written in one order and read in another.  `DiskInv`
says that each file is of the same enrollment as the one written after it, or of
a newer one (`Chain`); `LoopInv`, that what was read of `agent.json` is what it said
at its stamp, and that what was read after it is not older (`Reading`).  A loop
that has nothing to reload then holds, of each file, neither less nor more than
the files' one enrollment.
`UpdateReachesLoop` is inductive as it stands: a version that is installed leaves its
poller about to schedule the restart, or sets `missed`, as does every step that takes
a scheduled restart away and leaves the loop running.

*TelegramDaemon.*  `DaemonInv` relates the offset, what Telegram has forgotten and
what was fetched (`Delivery`), says which batches are waiting, sent or dropped
(`Answering`), and orders the snapshots (`Listing`): a cached listing is no older than
its signature, and no newer than the directory or the next signature.  Two
signatures that are alike then leave no room for a write between them, so the listing
is the one that the signature was taken of.  Nothing is needed of what the writes do
to the tasks.  `UpdateReachesHub` is inductive as it stands: every step that takes
away a scheduled restart, or ends an update without one, sets `missed`.

*OfflineAlerts.*  `AlertsInv`: what was saved (`alerts`) and what the operator was
told (`quiet`) agree, for the file and for the copies of a scan and a pressed
button with the file they were made from (`Sending`, `Pressed`).

*Decommission.*  `NewcomersAreSpared` follows from two invariants.  `Spared`: what was
cancelled is not open, and is with enrollments from before the cancelling only.
`Passing`: an enrollment that was replaced executes one task more at most, since its
token is refused when it reports; so what it schedules comes within `ExecTime` and the
delay of the newcomer.  `OnceInv` adds up the times (`Spent`, `Due`): while a command's
lease runs, what is before it in the batch, its own execution and post and its cleanup
fit into what is left of the lease, so that it is not handed out again to an enrollment
that carries it out.  An agent that waits for its cleanup may lose the leases of the
rest of its batch; it does not come to them.

`RegistryIsSteady` and `UsersStayDistinct` are about operations that overlap, which
the runs of their modules do not have: `RegistrySerial` checks other properties,
one operation at a time, and `TransitSerial` the same one.

Some facts about data need induction, and the library's induction theorems take an
operator as a parameter, which the provers cannot instantiate.  They are proved
from a least counterexample instead: `NatMinimum` (`FirstNumber` for `LinkFlow`: a
set of numbers that is not empty has a least one) follows from the
well-foundedness of the naturals.  With it, the recursive function in
`TransitConfig!Without` exists and removes from a list of rules exactly those that
it should (`WithoutRange`), `TelegramDaemon` gets the oldest update first, and among
the binds of `LinkFlow` one is the youngest.

### What is only model-checked

Liveness (`TasksSettle`, `RunningEnds`, `EnrollmentTakesOver`, `PendingIsAnswered`,
`NoticeIsSent`, `OfflineIsReported`, `DoneIsCarriedOut`): it needs `ENABLED`, which
is out of the prover's reach.  Everything else that a run checks is proved, some of
it under the hypotheses above.

## 5. Not modelled

* Formatting, keyboards, flag parsing, certificates, generated inbound and landing
  sections, installer and menu: see section 1.
* The temporary file inside `writeJSON` (one name per process, which goroutines
  share) and `migrateStateDir`.  Every module takes a write of a file as one step.
* The agent's caches of topology and public IP, two writes of `agent.json` within
  one tick of the file system's clock, and systemd's limit on restarts.
* The caches of the Hub other than the listing of tasks; `HubTasks` and
  `HubRegistry` take every listing as fresh.
* In `LinkFlow`: links with interfaces of their own (`--mesh-iface`), a configuration
  that RelayPilot did not write (it is refused, an execution that fails), and an
  execution that is killed midway, which `TransitConfig` has for the sing-box files.
* The commands of an agent that only read (sync, probe, status).
* In the modelled components: HTTP status codes and body limits, contents of
  results, locations, roles and names in the registry, other inbounds, rules
  written by hand, backups of configuration files (written, never read).

## 6. Plan

Modelled and checked: everything in section 2.  Proved: every safety property, action
property and implementation that a run checks.  Left are the parts that are
modelled in part or not at all (section 5, where each is listed with the reason),
and liveness, which stays with TLC.
