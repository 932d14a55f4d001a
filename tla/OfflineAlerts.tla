------------------------------ MODULE OfflineAlerts ------------------------------
(***************************************************************************)
(* The alerts about agents that have not been seen for a day.              *)
(*                                                                         *)
(* A timer starts a scan, a process of its own: it loads the registry and  *)
(* hub-alerts.json, sends a Telegram message with two buttons about every  *)
(* agent that is due, and saves the alerts when all are sent.  The bot     *)
(* daemon or the command line handles a button: it loads the same file,    *)
(* finds the alert the button's token belongs to, removes the agent or     *)
(* snoozes the alert, and saves the file.  Nothing locks it.               *)
(*                                                                         *)
(* What is abstracted: removeHubAgent is one step (HubRegistry has its     *)
(* files); the two tokens of an alert, which are made and kept together,   *)
(* are one; a clock tick is a part of the snooze time.                     *)
(***************************************************************************)
EXTENDS Integers, FiniteSets

CONSTANTS
  Agents,
  Threshold,   \* --threshold-seconds
  Snooze,      \* --snooze-seconds
  MaxClock,    \* bound on the clock
  MaxTokens,   \* bound on the tokens made
  MaxKills     \* bound on the scans and callbacks that are killed

ASSUME AlertsAssumption ==
  /\ {Threshold, Snooze} \subseteq Nat \ {0}
  /\ {MaxClock, MaxTokens, MaxKills} \subseteq Nat

VARIABLES
  clock,
  seen,      \* [Agents -> Times \cup {Gone}], hub-agents.json: last_seen
  alerts,    \* [Agents -> Alerts], hub-alerts.json
  made,      \* the tokens made so far
  chat,      \* the buttons in the chat: pairs of an agent and a token
  scan,      \* the scan process
  call,      \* the process that handles a button
  quiet,     \* [Agents -> 0..MaxClock + Snooze], until when the operator was
             \* told to hear no more of an agent
  kills

vars == <<clock, seen, alerts, made, chat, scan, call, quiet, kills>>

-------------------------------------------------------------------------------
(* Types and helpers *)

Times == 0..MaxClock
Gone == -1
Tokens == 0..MaxTokens
Statuses == {"none", "alerted", "observing", "removed"}
Alert == [status: Statuses, next: 0..MaxClock + Snooze,
          until: 0..MaxClock + Snooze, token: Tokens]
NoAlert == [status |-> "none", next |-> 0, until |-> 0, token |-> 0]
NoAlerts == [a \in Agents |-> NoAlert]

Scan == [pc: {"idle", "agents", "alerts", "send"}, n: Times,
         list: [Agents -> Times \cup {Gone}], base: [Agents -> Alert],
         copy: [Agents -> Alert], quiet: [Agents -> 0..MaxClock + Snooze]]
ScanIdle == [pc |-> "idle", n |-> 0, list |-> [a \in Agents |-> Gone],
             base |-> NoAlerts, copy |-> NoAlerts,
             quiet |-> [a \in Agents |-> 0]]

Call == [pc: {"idle", "remove", "save"}, base: [Agents -> Alert],
         copy: [Agents -> Alert], agent: SUBSET Agents]
CallIdle == [pc |-> "idle", base |-> NoAlerts, copy |-> NoAlerts, agent |-> {}]

Init ==
  /\ clock = 0
  /\ seen = [a \in Agents |-> 0]
  /\ alerts = NoAlerts
  /\ made = 0
  /\ chat = {}
  /\ scan = ScanIdle
  /\ call = CallIdle
  /\ quiet = [a \in Agents |-> 0]
  /\ kills = 0

\* The entries of the file a save overwrites although they were changed since
\* they were loaded.
Clobbered(base) == {a \in Agents : alerts[a] # base[a]}

-------------------------------------------------------------------------------
(* The surroundings *)

Tick == /\ clock < MaxClock
        /\ clock' = clock + 1
        /\ UNCHANGED <<seen, alerts, made, chat, scan, call, quiet, kills>>

\* A heartbeat, or a registration of an agent that was removed.
Seen(a) == /\ seen[a] # clock
           /\ seen' = [seen EXCEPT ![a] = clock]
           /\ UNCHANGED <<clock, alerts, made, chat, scan, call, quiet, kills>>

Kill == /\ kills < MaxKills /\ kills' = kills + 1
        /\ \/ scan # ScanIdle /\ scan' = ScanIdle /\ UNCHANGED call
           \/ call # CallIdle /\ call' = CallIdle /\ UNCHANGED scan
        /\ UNCHANGED <<clock, seen, alerts, made, chat, quiet>>

-------------------------------------------------------------------------------
(* The scan *)

StartScan ==
  /\ scan.pc = "idle"
  /\ scan' = [scan EXCEPT !.pc = "agents", !.n = clock]
  /\ UNCHANGED <<clock, seen, alerts, made, chat, call, quiet, kills>>

LoadAgents ==
  /\ scan.pc = "agents"
  /\ scan' = [scan EXCEPT !.pc = "alerts", !.list = seen]
  /\ UNCHANGED <<clock, seen, alerts, made, chat, call, quiet, kills>>

LoadAlerts ==
  /\ scan.pc = "alerts"
  /\ scan' = [scan EXCEPT !.pc = "send", !.base = alerts, !.copy = alerts,
                          !.quiet = quiet]
  /\ UNCHANGED <<clock, seen, alerts, made, chat, call, quiet, kills>>

Offline(last, n) == last # Gone /\ n - last >= Threshold

\* Seeded fault: a snooze is not looked at.
ShouldSendSnoozed(alert, n) == alert.status # "removed" /\ n >= alert.next
\* Seeded fault: an alert that was sent is over.
ShouldSendOnce(alert, n) == alert.status = "none"
\* An alert is sent unless it is closed, snoozed, or was sent too recently.
ShouldSend(alert, n) ==
  /\ alert.status # "removed"
  /\ n >= alert.until
  /\ n >= alert.next

Due(a) == Offline(scan.list[a], scan.n) /\ ShouldSend(scan.copy[a], scan.n)

\* Seeded fault: every message gets a token of its own.
TokenAnew(alert) == made + 1
\* The token of an alert is kept; a first one is made.
Token(alert) == IF alert.token = 0 THEN made + 1 ELSE alert.token

NextAlert(n) == n + Snooze

SendAlert(a) ==
  /\ scan.pc = "send" /\ Due(a)
  /\ LET token == Token(scan.copy[a]) IN
     /\ token \in Tokens
     /\ made' = IF token > made THEN token ELSE made
     /\ chat' = chat \cup {<<a, token>>}
     /\ scan' = [scan EXCEPT !.copy[a] =
          [status |-> "alerted", next |-> NextAlert(scan.n), until |-> 0,
           token |-> token]]
  /\ UNCHANGED <<clock, seen, alerts, call, quiet, kills>>

\* The scan ends with an error, and saves nothing.  The message may have come
\* through: what failed may be the answer.
SendFails(a) ==
  /\ scan.pc = "send" /\ Due(a)
  /\ LET token == Token(scan.copy[a]) IN
     \/ UNCHANGED <<made, chat>>
     \/ /\ token \in Tokens
        /\ made' = IF token > made THEN token ELSE made
        /\ chat' = chat \cup {<<a, token>>}
  /\ scan' = ScanIdle
  /\ UNCHANGED <<clock, seen, alerts, call, quiet, kills>>

\* All are sent.  The file is written if any was.
SaveScan ==
  /\ scan.pc = "send" /\ \A a \in Agents : ~Due(a)
  /\ IF scan.copy = scan.base
     THEN UNCHANGED <<alerts, quiet>>
     ELSE /\ alerts' = scan.copy
          /\ quiet' = [a \in Agents |->
               IF scan.copy[a] # scan.base[a] THEN scan.n + Snooze
               ELSE IF a \in Clobbered(scan.base) THEN 0 ELSE quiet[a]]
  /\ scan' = ScanIdle
  /\ UNCHANGED <<clock, seen, made, chat, call, kills>>

\* The write fails; nothing is saved.
SaveScanFails ==
  /\ scan.pc = "send" /\ scan.copy # scan.base
  /\ \A a \in Agents : ~Due(a)
  /\ scan' = ScanIdle
  /\ UNCHANGED <<clock, seen, alerts, made, chat, call, quiet, kills>>

-------------------------------------------------------------------------------
(* The buttons *)

\* The operator presses a button, now or later, once or again.
Match(button) == {a \in Agents : alerts[a].token = button[2]}

SnoozeUntil == clock + Snooze

\* "Observe": the alert the token belongs to is snoozed.
PressObserve(button) ==
  /\ call.pc = "idle" /\ Match(button) # {}
  /\ \E a \in Match(button) :
       call' = [pc |-> "save", base |-> alerts, agent |-> {a},
                copy |-> [alerts EXCEPT ![a].status = "observing",
                                        ![a].until = SnoozeUntil]]
  /\ UNCHANGED <<clock, seen, alerts, made, chat, scan, quiet, kills>>

\* "Remove": the agent of the alert is removed before the alert is changed.
PressRemove(button) ==
  /\ call.pc = "idle" /\ Match(button) # {}
  /\ \E a \in Match(button) :
       call' = [pc |-> "remove", base |-> alerts, agent |-> {a},
                copy |-> [alerts EXCEPT ![a].status = "removed"]]
  /\ UNCHANGED <<clock, seen, alerts, made, chat, scan, quiet, kills>>

\* An agent that is not in the registry is an error, and nothing is saved.
RemoveAgent ==
  /\ call.pc = "remove"
  /\ \E a \in call.agent :
       IF seen[a] = Gone
       THEN call' = CallIdle /\ UNCHANGED seen
       ELSE call' = [call EXCEPT !.pc = "save"] /\ seen' = [seen EXCEPT ![a] = Gone]
  /\ UNCHANGED <<clock, alerts, made, chat, scan, quiet, kills>>

SaveCall ==
  /\ call.pc = "save"
  /\ alerts' = call.copy
  /\ quiet' = [a \in Agents |->
       IF a \in call.agent /\ call.copy[a].status = "observing"
       THEN call.copy[a].until
       ELSE IF a \in Clobbered(call.base) THEN 0 ELSE quiet[a]]
  /\ call' = CallIdle
  /\ UNCHANGED <<clock, seen, made, chat, scan, kills>>

\* The removal or the write fails.
CallFails ==
  /\ call.pc \in {"remove", "save"}
  /\ call' = CallIdle
  /\ UNCHANGED <<clock, seen, alerts, made, chat, scan, quiet, kills>>

-------------------------------------------------------------------------------
(* Specification *)

ScanStep ==
  \/ StartScan \/ LoadAgents \/ LoadAlerts
  \/ \E a \in Agents : SendAlert(a) \/ SendFails(a)
  \/ SaveScan \/ SaveScanFails

CallStep ==
  \/ \E button \in chat : PressObserve(button) \/ PressRemove(button)
  \/ RemoveAgent \/ SaveCall \/ CallFails

Next ==
  \/ Tick \/ Kill \/ ScanStep \/ CallStep
  \/ \E a \in Agents : Seen(a)

Spec == Init /\ [][Next]_vars

\* The timer starts scans again and again, a scan and a callback go on, and
\* neither Telegram nor the disk fails forever.
FairSpec ==
  /\ Spec
  /\ WF_vars(ScanStep)
  /\ WF_vars(RemoveAgent \/ SaveCall \/ CallFails)
  /\ SF_vars(SaveScan)
  /\ \A a \in Agents : SF_vars(SendAlert(a))

-------------------------------------------------------------------------------
(* Properties *)

TypeOK ==
  /\ clock \in Times
  /\ seen \in [Agents -> Times \cup {Gone}]
  /\ alerts \in [Agents -> Alert]
  /\ made \in Tokens
  /\ chat \subseteq Agents \X Tokens
  /\ scan \in Scan
  /\ call \in Call
  /\ quiet \in [Agents -> 0..MaxClock + Snooze]
  /\ kills \in 0..MaxKills

\* A scan sends nothing about an agent before the time the operator was told:
\* a snooze after the last message that was recorded, or the end of the
\* observation that was asked for - unless that was recorded after the scan
\* loaded the file, or a save undid it.
QuietIsKept ==
  [][\A a \in Agents :
       scan.pc = "send" /\ scan'.pc = "send" /\ scan'.copy[a] # scan.copy[a]
         => scan.n >= scan.quiet[a]]_vars

Works(button) == alerts[button[1]].token = button[2]

\* The buttons of all messages about an agent stay good: later alerts,
\* failures, snoozes and removals invalidate none of them, only a save that
\* undoes what was saved since its load does.
ButtonsKeepWorking ==
  [][\A button \in chat :
       Works(button) /\ ~Works(button)' =>
         button[1] \in Clobbered(IF scan' # scan THEN scan.base ELSE call.base)
    ]_vars

\* An agent of the registry is offline, and nothing the operator was told keeps
\* the Hub from saying so.
Unreported(a) == /\ Offline(seen[a], clock)
                 /\ clock >= quiet[a]
                 /\ made < MaxTokens

\* An agent that stays offline is reported, and reported again after each
\* snooze, unless its alert was closed by removing it.
OfflineIsReported ==
  \A a \in Agents :
    Unreported(a) ~> ~Unreported(a) \/ alerts[a].status = "removed"

\* docs/HUB.md: "Hub can scan for agents that have been offline for more than 24
\* hours and send one human-facing Telegram alert with inline buttons": also
\* for an agent that was removed by such a button and enrolled again.
EveryOfflineIsReported ==
  \A a \in Agents : Unreported(a) ~> ~Unreported(a)
===============================================================================
