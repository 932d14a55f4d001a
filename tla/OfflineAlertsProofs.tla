------------------------- MODULE OfflineAlertsProofs -------------------------
(***************************************************************************)
(* Theorems about OfflineAlerts, for any number of agents and scans, with  *)
(* scans and buttons overlapping and killed anywhere: a scan keeps quiet   *)
(* for as long as the file it loaded says, and no button of a message      *)
(* stops working but by a save that undoes another.                        *)
(***************************************************************************)
EXTENDS OfflineAlerts, TLAPS

-------------------------------------------------------------------------------
(* The inductive invariant *)

\* Until when the operator was told to hear no more is written in the alert.
Quieted(q, al) ==
  \A a \in Agents : q[a] <= al[a].next \/ q[a] <= al[a].until

\* While it sends, a scan changes the alerts it sends and keeps their tokens.
Sending ==
  scan.pc = "send" =>
    /\ Quieted(scan.quiet, scan.copy)
    /\ \A a \in Agents :
         /\ scan.copy[a] # scan.base[a] => scan.copy[a].next = scan.n + Snooze
         /\ scan.base[a].token # 0 => scan.copy[a].token = scan.base[a].token

\* A button changes the one alert it is of: its status, and until when it is
\* observed.
Pressed ==
  call.pc # "idle" =>
    \A a \in Agents :
      /\ call.copy[a].token = call.base[a].token
      /\ call.copy[a].next = call.base[a].next
      /\ (a \in call.agent /\ call.copy[a].status = "observing")
           \/ call.copy[a].until = call.base[a].until

\* No message goes out without a token.
Buttons == \A button \in chat : button[2] # 0

AlertsInv == TypeOK /\ Quieted(quiet, alerts) /\ Sending /\ Pressed /\ Buttons

-------------------------------------------------------------------------------
(* Types *)

LEMMA Numbers ==
  /\ MaxClock \in Nat /\ Snooze \in Nat \ {0} /\ MaxTokens \in Nat
  /\ MaxKills \in Nat /\ Threshold \in Nat
  BY AlertsAssumption

LEMMA Starts ==
  /\ NoAlert \in Alert /\ NoAlerts \in [Agents -> Alert]
  /\ ScanIdle \in Scan /\ ScanIdle.pc = "idle"
  /\ CallIdle \in Call /\ CallIdle.pc = "idle"
<1>1. NoAlert \in Alert
  BY Numbers DEF NoAlert, Alert, Statuses, Tokens
<1>2. NoAlerts \in [Agents -> Alert]
  BY <1>1 DEF NoAlerts
<1>3. ScanIdle \in Scan /\ ScanIdle.pc = "idle"
  BY <1>2, Numbers DEF ScanIdle, Scan, Times
<1>4. CallIdle \in Call /\ CallIdle.pc = "idle"
  BY <1>2 DEF CallIdle, Call
<1>5. QED
  BY <1>1, <1>2, <1>3, <1>4

\* The values of an alert.
LEMMA AlertValues ==
  ASSUME NEW al \in [Agents -> Alert], NEW a \in Agents
  PROVE  /\ al[a] \in Alert /\ al[a].next \in Nat /\ al[a].until \in Nat
         /\ al[a].token \in Tokens
<1>1. al[a] \in Alert
  OBVIOUS
<1>2. /\ al[a].next \in 0..MaxClock + Snooze
      /\ al[a].until \in 0..MaxClock + Snooze /\ al[a].token \in Tokens
  BY <1>1 DEF Alert
<1>3. QED
  BY <1>1, <1>2

LEMMA InitAlerts == Init => AlertsInv
<1> SUFFICES ASSUME Init
             PROVE  AlertsInv
  OBVIOUS
<1>1. TypeOK
  BY Starts, Numbers DEF Init, TypeOK, Times, Tokens
<1>2. Quieted(quiet, alerts)
  BY DEF Init, Quieted, NoAlerts, NoAlert
<1>3. Sending /\ Pressed /\ Buttons
  BY Starts DEF Init, Sending, Pressed, Buttons
<1>4. QED
  BY <1>1, <1>2, <1>3 DEF AlertsInv

-------------------------------------------------------------------------------
(* The surroundings *)

\* A step that leaves the alerts and the chat alone, and each process as it is
\* or idle.
LEMMA Undisturbed ==
  ASSUME AlertsInv, UNCHANGED <<alerts, chat, quiet>>,
         scan' = scan \/ scan' = ScanIdle, call' = call \/ call' = CallIdle,
         clock' \in Times, seen' \in [Agents -> Times \cup {Gone}],
         made' \in Tokens, kills' \in 0..MaxKills
  PROVE  AlertsInv'
<1>1. TypeOK'
  BY Starts DEF AlertsInv, TypeOK
<1>2. Quieted(quiet, alerts)'
  BY DEF AlertsInv, Quieted
<1>3. Sending'
  BY Starts DEF AlertsInv, Sending, Quieted
<1>4. Pressed'
  BY Starts DEF AlertsInv, Pressed
<1>5. Buttons'
  BY DEF AlertsInv, Buttons
<1>6. QED
  BY <1>1, <1>2, <1>3, <1>4, <1>5 DEF AlertsInv

LEMMA Surroundings ==
  ASSUME AlertsInv, Tick \/ Kill \/ (\E a \in Agents : Seen(a)) \/ UNCHANGED vars
  PROVE  AlertsInv'
<1>1. /\ clock \in 0..MaxClock /\ seen \in [Agents -> Times \cup {Gone}]
      /\ made \in Tokens /\ kills \in 0..MaxKills
  BY DEF AlertsInv, TypeOK, Times
<1>2. CASE Tick
  <2>1. clock' \in Times
    BY <1>1, <1>2, Numbers DEF Tick, Times
  <2>2. QED
    BY <1>1, <1>2, <2>1, Undisturbed DEF Tick
<1>3. CASE Kill
  <2>1. kills' \in 0..MaxKills
    BY <1>1, <1>3, Numbers DEF Kill
  <2>2. QED
    BY <1>1, <1>3, <2>1, Undisturbed DEF Kill, Times
<1>4. ASSUME NEW a \in Agents, Seen(a)
      PROVE  AlertsInv'
  <2>1. seen' \in [Agents -> Times \cup {Gone}]
    BY <1>1, <1>4 DEF Seen, Times
  <2>2. QED
    BY <1>1, <1>4, <2>1, Undisturbed DEF Seen, Times
<1>5. CASE UNCHANGED vars
  BY <1>1, <1>5, Undisturbed DEF vars, Times
<1>6. QED
  BY <1>2, <1>3, <1>4, <1>5

-------------------------------------------------------------------------------
(* The scan *)

\* A step of the scan that leaves the files as they are.
LEMMA ScanMoves ==
  ASSUME AlertsInv, scan' \in Scan, Sending', Buttons',
         chat' \subseteq Agents \X Tokens, made' \in Tokens,
         UNCHANGED <<clock, seen, alerts, call, quiet, kills>>
  PROVE  AlertsInv'
<1>1. TypeOK'
  BY DEF AlertsInv, TypeOK
<1>2. Quieted(quiet, alerts)' /\ Pressed'
  BY DEF AlertsInv, Quieted, Pressed
<1>3. QED
  BY <1>1, <1>2 DEF AlertsInv

LEMMA LoadSteps ==
  ASSUME AlertsInv, StartScan \/ LoadAgents \/ LoadAlerts
  PROVE  AlertsInv'
<1>1. /\ scan \in Scan /\ clock \in Times /\ seen \in [Agents -> Times \cup {Gone}]
      /\ alerts \in [Agents -> Alert]
      /\ quiet \in [Agents -> 0..MaxClock + Snooze]
      /\ chat \subseteq Agents \X Tokens /\ made \in Tokens /\ Buttons
      /\ Quieted(quiet, alerts)
  BY DEF AlertsInv, TypeOK
<1>2. CASE StartScan
  <2>1. scan' \in Scan /\ scan'.pc = "agents"
    BY <1>1, <1>2 DEF StartScan, Scan
  <2>2. Sending' /\ Buttons'
    BY <1>1, <1>2, <2>1 DEF StartScan, Sending, Buttons
  <2>3. QED
    BY <1>1, <1>2, <2>1, <2>2, ScanMoves DEF StartScan
<1>3. CASE LoadAgents
  <2>1. scan' \in Scan /\ scan'.pc = "alerts"
    BY <1>1, <1>3 DEF LoadAgents, Scan
  <2>2. Sending' /\ Buttons'
    BY <1>1, <1>3, <2>1 DEF LoadAgents, Sending, Buttons
  <2>3. QED
    BY <1>1, <1>3, <2>1, <2>2, ScanMoves DEF LoadAgents
<1>4. CASE LoadAlerts
  <2>1. /\ scan' \in Scan /\ scan'.pc = "send" /\ scan'.base = alerts
        /\ scan'.copy = alerts /\ scan'.quiet = quiet
    BY <1>1, <1>4 DEF LoadAlerts, Scan
  <2>2. Sending' /\ Buttons'
    BY <1>1, <1>4, <2>1 DEF LoadAlerts, Sending, Buttons, Quieted
  <2>3. QED
    BY <1>1, <1>4, <2>1, <2>2, ScanMoves DEF LoadAlerts
<1>5. QED
  BY <1>2, <1>3, <1>4

\* Every message has a token: the one of its alert, where it has one.
LEMMA TokenMade ==
  ASSUME AlertsInv, NEW a \in Agents, Token(scan.copy[a]) \in Tokens
  PROVE  /\ Token(scan.copy[a]) # 0
         /\ scan.copy[a].token # 0 => Token(scan.copy[a]) = scan.copy[a].token
         /\ chat \cup {<<a, Token(scan.copy[a])>>} \subseteq Agents \X Tokens
<1>1. made \in Nat /\ chat \subseteq Agents \X Tokens
  BY DEF AlertsInv, TypeOK, Tokens
<1>2. made + 1 # 0
  BY <1>1
<1>3. QED
  BY <1>1, <1>2 DEF Token

LEMMA SendAlertStep ==
  ASSUME AlertsInv, NEW a \in Agents, SendAlert(a)
  PROVE  AlertsInv'
<1> DEFINE token == Token(scan.copy[a])
           alert == [status |-> "alerted", next |-> scan.n + Snooze, until |-> 0,
                     token |-> token]
<1>1. /\ scan.pc = "send" /\ Due(a) /\ token \in Tokens
      /\ made' = IF token > made THEN token ELSE made
      /\ chat' = chat \cup {<<a, token>>}
      /\ scan' = [scan EXCEPT !.copy = [scan.copy EXCEPT ![a] = alert]]
      /\ UNCHANGED <<clock, seen, alerts, call, quiet, kills>>
  BY DEF SendAlert, NextAlert
<1>2. /\ scan \in Scan /\ scan.n \in 0..MaxClock /\ scan.copy \in [Agents -> Alert]
      /\ scan.base \in [Agents -> Alert]
      /\ scan.quiet \in [Agents -> 0..MaxClock + Snooze] /\ Sending
      /\ made \in Tokens /\ Buttons
  BY DEF AlertsInv, TypeOK, Scan, Times
<1>3. /\ token # 0 /\ (scan.copy[a].token # 0 => token = scan.copy[a].token)
      /\ chat \cup {<<a, token>>} \subseteq Agents \X Tokens
  BY <1>1, TokenMade
<1> HIDE DEF token
<1>4. alert \in Alert
  <2>1. scan.n + Snooze \in 0..MaxClock + Snooze /\ 0 \in 0..MaxClock + Snooze
    BY <1>2, Numbers
  <2>2. QED
    BY <1>1, <2>1 DEF Alert, Statuses
<1>5. /\ scan'.copy = [scan.copy EXCEPT ![a] = alert]
      /\ scan'.base = scan.base /\ scan'.n = scan.n /\ scan'.quiet = scan.quiet
      /\ scan' \in Scan
  BY <1>1, <1>2, <1>4 DEF Scan
<1>6. Buttons'
  BY <1>1, <1>2, <1>3 DEF Buttons
<1>7. Sending'
  <2>1. /\ Quieted(scan.quiet, scan.copy)
        /\ \A b \in Agents :
             /\ scan.copy[b] # scan.base[b] => scan.copy[b].next = scan.n + Snooze
             /\ scan.base[b].token # 0 => scan.copy[b].token = scan.base[b].token
    BY <1>1, <1>2 DEF Sending
  <2>2. scan.quiet[a] <= scan.n + Snooze
    <3>1. scan.n >= scan.copy[a].until /\ scan.n >= scan.copy[a].next
      BY <1>1 DEF Due, ShouldSend
    <3>2. scan.quiet[a] <= scan.copy[a].next \/ scan.quiet[a] <= scan.copy[a].until
      BY <2>1 DEF Quieted
    <3>3. scan.copy[a].next \in Nat /\ scan.copy[a].until \in Nat
      BY <1>2, AlertValues
    <3>4. scan.quiet[a] \in Nat /\ scan.n \in Nat
      BY <1>2, Numbers
    <3>5. QED
      BY <3>1, <3>2, <3>3, <3>4, Numbers
  <2>3. /\ scan'.copy[a] = alert
        /\ \A b \in Agents : b # a => scan'.copy[b] = scan.copy[b]
    BY <1>2, <1>5
  <2>4. \A b \in Agents : \/ scan'.quiet[b] <= scan'.copy[b].next
                          \/ scan'.quiet[b] <= scan'.copy[b].until
    BY <1>5, <2>1, <2>2, <2>3 DEF Quieted
  <2>5. \A b \in Agents :
          /\ scan'.copy[b] # scan'.base[b] => scan'.copy[b].next = scan'.n + Snooze
          /\ scan'.base[b].token # 0 => scan'.copy[b].token = scan'.base[b].token
    BY <1>3, <1>5, <2>1, <2>3
  <2>6. QED
    BY <2>4, <2>5 DEF Sending, Quieted
<1>8. made' \in Tokens
  BY <1>1, <1>2
<1>9. QED
  BY <1>1, <1>3, <1>5, <1>6, <1>7, <1>8, ScanMoves

\* A scan that fails leaves its message in the chat, or does not.
LEMMA SendFailsStep ==
  ASSUME AlertsInv, NEW a \in Agents, SendFails(a)
  PROVE  AlertsInv'
<1>1. scan' = ScanIdle /\ UNCHANGED <<clock, seen, alerts, call, quiet, kills>>
  BY DEF SendFails
<1>2. /\ chat \subseteq Agents \X Tokens /\ made \in Tokens /\ Buttons
      /\ scan' \in Scan
  BY <1>1, Starts DEF AlertsInv, TypeOK
<1>3. Sending'
  BY <1>1, Starts DEF Sending
<1>4. /\ chat' \subseteq Agents \X Tokens /\ made' \in Tokens /\ Buttons'
  <2> DEFINE token == Token(scan.copy[a])
  <2>1. CASE UNCHANGED <<made, chat>>
    BY <1>2, <2>1 DEF Buttons
  <2>2. CASE /\ token \in Tokens
             /\ made' = IF token > made THEN token ELSE made
             /\ chat' = chat \cup {<<a, token>>}
    <3>1. token # 0 /\ chat \cup {<<a, token>>} \subseteq Agents \X Tokens
      BY <2>2, TokenMade
    <3> HIDE DEF token
    <3>2. QED
      BY <1>2, <2>2, <3>1 DEF Buttons
  <2>3. QED
    BY <2>1, <2>2 DEF SendFails
<1>5. QED
  BY <1>1, <1>2, <1>3, <1>4, ScanMoves

\* What a save writes over it makes up for.
LEMMA SaveScanStep ==
  ASSUME AlertsInv, SaveScan \/ SaveScanFails
  PROVE  AlertsInv'
<1>1. /\ scan \in Scan /\ alerts \in [Agents -> Alert]
      /\ quiet \in [Agents -> 0..MaxClock + Snooze]
      /\ scan.copy \in [Agents -> Alert] /\ scan.n \in 0..MaxClock
      /\ clock \in Times /\ seen \in [Agents -> Times \cup {Gone}]
      /\ made \in Tokens /\ kills \in 0..MaxKills
      /\ Quieted(quiet, alerts) /\ Sending /\ Pressed /\ Buttons
  BY DEF AlertsInv, TypeOK, Scan, Times
<1>2. CASE UNCHANGED <<alerts, quiet>>
  BY <1>1, <1>2, Undisturbed DEF SaveScan, SaveScanFails
<1>3. CASE SaveScan /\ scan.copy # scan.base
  <2>1. /\ alerts' = scan.copy /\ scan' = ScanIdle /\ scan.pc = "send"
        /\ quiet' = [a \in Agents |->
             IF scan.copy[a] # scan.base[a] THEN scan.n + Snooze
             ELSE IF a \in Clobbered(scan.base) THEN 0 ELSE quiet[a]]
        /\ UNCHANGED <<clock, seen, made, chat, call, kills>>
    BY <1>3 DEF SaveScan
  <2>2. scan.n + Snooze \in 0..MaxClock + Snooze /\ 0 \in 0..MaxClock + Snooze
    BY <1>1, Numbers
  <2>3. quiet' \in [Agents -> 0..MaxClock + Snooze]
    BY <1>1, <2>1, <2>2
  <2>4. TypeOK'
    BY <1>1, <2>1, <2>3, Starts DEF AlertsInv, TypeOK
  <2>5. Quieted(quiet, alerts)'
    <3>1. SUFFICES ASSUME NEW a \in Agents
                   PROVE  \/ quiet'[a] <= scan.copy[a].next
                          \/ quiet'[a] <= scan.copy[a].until
      BY <2>1 DEF Quieted
    <3>2. scan.copy[a].next \in Nat /\ scan.copy[a].until \in Nat
      BY <1>1, AlertValues
    <3>3. CASE scan.copy[a] # scan.base[a]
      <4>1. scan.copy[a].next = scan.n + Snooze
        BY <1>1, <2>1, <3>3 DEF Sending
      <4>2. QED
        BY <2>1, <2>2, <3>2, <3>3, <4>1
    <3>4. CASE scan.copy[a] = scan.base[a] /\ a \in Clobbered(scan.base)
      BY <2>1, <3>2, <3>4
    <3>5. CASE scan.copy[a] = scan.base[a] /\ a \notin Clobbered(scan.base)
      <4>1. quiet'[a] = quiet[a] /\ scan.copy[a] = alerts[a]
        BY <2>1, <3>5 DEF Clobbered
      <4>2. QED
        BY <1>1, <4>1 DEF Quieted
    <3>6. QED
      BY <3>3, <3>4, <3>5
  <2>6. Sending' /\ Pressed' /\ Buttons'
    BY <1>1, <2>1, Starts DEF Sending, Pressed, Buttons
  <2>7. QED
    BY <2>4, <2>5, <2>6 DEF AlertsInv
<1>4. QED
  BY <1>2, <1>3 DEF SaveScan, SaveScanFails

-------------------------------------------------------------------------------
(* The buttons *)

\* A step of the process that handles a button and saves nothing.
LEMMA CallMoves ==
  ASSUME AlertsInv, call' \in Call, Pressed',
         seen' \in [Agents -> Times \cup {Gone}],
         UNCHANGED <<clock, alerts, made, chat, scan, quiet, kills>>
  PROVE  AlertsInv'
<1>1. TypeOK'
  BY DEF AlertsInv, TypeOK
<1>2. Quieted(quiet, alerts)' /\ Sending' /\ Buttons'
  BY DEF AlertsInv, Quieted, Sending, Buttons
<1>3. QED
  BY <1>1, <1>2 DEF AlertsInv

LEMMA PressStep ==
  ASSUME AlertsInv, NEW button \in chat,
         PressObserve(button) \/ PressRemove(button)
  PROVE  AlertsInv'
<1>1. /\ alerts \in [Agents -> Alert] /\ clock \in 0..MaxClock
      /\ seen \in [Agents -> Times \cup {Gone}]
      /\ UNCHANGED <<clock, seen, alerts, made, chat, scan, quiet, kills>>
  BY DEF AlertsInv, TypeOK, PressObserve, PressRemove, Times
<1>2. CASE PressObserve(button)
  <2>1. PICK a \in Agents :
          call' = [pc |-> "save", base |-> alerts, agent |-> {a},
                   copy |-> [alerts EXCEPT ![a].status = "observing",
                                           ![a].until = SnoozeUntil]]
    BY <1>2 DEF PressObserve, Match
  <2> DEFINE alert == [alerts[a] EXCEPT !.status = "observing",
                                        !.until = SnoozeUntil]
             copy == [alerts EXCEPT ![a].status = "observing",
                                    ![a].until = SnoozeUntil]
  <2>2. SnoozeUntil \in 0..MaxClock + Snooze
    BY <1>1, Numbers DEF SnoozeUntil
  <2>3. alerts[a] \in Alert
    BY <1>1
  <2>4. /\ alert \in Alert /\ alert.token = alerts[a].token
        /\ alert.next = alerts[a].next /\ alert.status = "observing"
    BY <2>2, <2>3 DEF Alert, Statuses
  <2>5. copy \in [Agents -> Alert] /\ copy[a] = alert
        /\ \A b \in Agents : b # a => copy[b] = alerts[b]
    BY <1>1, <2>4
  <2> HIDE DEF alert, copy
  <2>6. call' = [pc |-> "save", base |-> alerts, agent |-> {a}, copy |-> copy]
    BY <2>1 DEF copy
  <2>7. call' \in Call
    BY <1>1, <2>5, <2>6 DEF Call
  <2>8. Pressed'
    BY <2>4, <2>5, <2>6 DEF Pressed
  <2>9. QED
    BY <1>1, <2>7, <2>8, CallMoves
<1>3. CASE PressRemove(button)
  <2>1. PICK a \in Agents :
          call' = [pc |-> "remove", base |-> alerts, agent |-> {a},
                   copy |-> [alerts EXCEPT ![a].status = "removed"]]
    BY <1>3 DEF PressRemove, Match
  <2> DEFINE alert == [alerts[a] EXCEPT !.status = "removed"]
             copy == [alerts EXCEPT ![a].status = "removed"]
  <2>2. alerts[a] \in Alert
    BY <1>1
  <2>3. /\ alert \in Alert /\ alert.token = alerts[a].token
        /\ alert.next = alerts[a].next /\ alert.until = alerts[a].until
    BY <2>2 DEF Alert, Statuses
  <2>4. copy \in [Agents -> Alert] /\ copy[a] = alert
        /\ \A b \in Agents : b # a => copy[b] = alerts[b]
    BY <1>1, <2>3
  <2> HIDE DEF alert, copy
  <2>5. call' = [pc |-> "remove", base |-> alerts, agent |-> {a}, copy |-> copy]
    BY <2>1 DEF copy
  <2>6. call' \in Call
    BY <1>1, <2>4, <2>5 DEF Call
  <2>7. Pressed'
    BY <2>3, <2>4, <2>5 DEF Pressed
  <2>8. QED
    BY <1>1, <2>6, <2>7, CallMoves
<1>4. QED
  BY <1>2, <1>3

LEMMA CallSteps ==
  ASSUME AlertsInv, RemoveAgent \/ CallFails
  PROVE  AlertsInv'
<1>1. /\ call \in Call /\ seen \in [Agents -> Times \cup {Gone}] /\ Pressed
      /\ UNCHANGED <<clock, alerts, made, chat, scan, quiet, kills>>
  BY DEF AlertsInv, TypeOK, RemoveAgent, CallFails
<1>2. CASE call' = CallIdle /\ seen' = seen
  <2>1. call' \in Call /\ Pressed'
    BY <1>2, Starts DEF Pressed
  <2>2. QED
    BY <1>1, <1>2, <2>1, CallMoves
<1>3. CASE /\ call.pc = "remove" /\ call' = [call EXCEPT !.pc = "save"]
           /\ \E a \in Agents : seen' = [seen EXCEPT ![a] = Gone]
  <2>1. /\ call' \in Call /\ call'.copy = call.copy /\ call'.base = call.base
        /\ call'.agent = call.agent
    BY <1>1, <1>3 DEF Call
  <2>2. Pressed'
    BY <1>1, <1>3, <2>1 DEF Pressed
  <2>3. seen' \in [Agents -> Times \cup {Gone}]
    BY <1>1, <1>3
  <2>4. QED
    BY <1>1, <2>1, <2>2, <2>3, CallMoves
<1>4. call.agent \subseteq Agents
  BY <1>1 DEF Call
<1>5. QED
  BY <1>2, <1>3, <1>4 DEF RemoveAgent, CallFails

LEMMA SaveCallStep ==
  ASSUME AlertsInv, SaveCall
  PROVE  AlertsInv'
<1>1. /\ call \in Call /\ alerts \in [Agents -> Alert]
      /\ quiet \in [Agents -> 0..MaxClock + Snooze]
      /\ call.copy \in [Agents -> Alert]
      /\ Quieted(quiet, alerts) /\ Sending /\ Pressed /\ Buttons
  BY DEF AlertsInv, TypeOK, Call
<1>2. /\ call.pc = "save" /\ alerts' = call.copy /\ call' = CallIdle
      /\ quiet' = [a \in Agents |->
           IF a \in call.agent /\ call.copy[a].status = "observing"
           THEN call.copy[a].until
           ELSE IF a \in Clobbered(call.base) THEN 0 ELSE quiet[a]]
      /\ UNCHANGED <<clock, seen, made, chat, scan, kills>>
  BY DEF SaveCall
<1>3. quiet' \in [Agents -> 0..MaxClock + Snooze]
  <2>1. \A a \in Agents : call.copy[a].until \in 0..MaxClock + Snooze
    BY <1>1 DEF Alert
  <2>2. 0 \in 0..MaxClock + Snooze
    BY Numbers
  <2>3. QED
    BY <1>1, <1>2, <2>1, <2>2
<1>4. TypeOK'
  BY <1>1, <1>2, <1>3, Starts DEF AlertsInv, TypeOK
<1>5. Quieted(quiet, alerts)'
  <2>1. SUFFICES ASSUME NEW a \in Agents
                 PROVE  \/ quiet'[a] <= call.copy[a].next
                        \/ quiet'[a] <= call.copy[a].until
    BY <1>2 DEF Quieted
  <2>2. call.copy[a].next \in Nat /\ call.copy[a].until \in Nat
    BY <1>1, AlertValues
  <2>3. CASE a \in call.agent /\ call.copy[a].status = "observing"
    BY <1>2, <2>2, <2>3
  <2>4. CASE /\ ~(a \in call.agent /\ call.copy[a].status = "observing")
             /\ a \in Clobbered(call.base)
    BY <1>2, <2>2, <2>4
  <2>5. CASE /\ ~(a \in call.agent /\ call.copy[a].status = "observing")
             /\ a \notin Clobbered(call.base)
    <3>1. quiet'[a] = quiet[a] /\ call.base[a] = alerts[a]
      BY <1>2, <2>5 DEF Clobbered
    <3>2. /\ call.copy[a].next = alerts[a].next
          /\ call.copy[a].until = alerts[a].until
      BY <1>1, <1>2, <2>5, <3>1 DEF Pressed
    <3>3. QED
      BY <1>1, <3>1, <3>2 DEF Quieted
  <2>6. QED
    BY <2>3, <2>4, <2>5
<1>6. Sending' /\ Pressed' /\ Buttons'
  BY <1>1, <1>2, Starts DEF Sending, Pressed, Buttons
<1>7. QED
  BY <1>4, <1>5, <1>6 DEF AlertsInv

LEMMA NextAlerts == AlertsInv /\ [Next]_vars => AlertsInv'
<1> SUFFICES ASSUME AlertsInv, [Next]_vars
             PROVE  AlertsInv'
  OBVIOUS
<1>1. CASE ScanStep
  BY <1>1, LoadSteps, SendAlertStep, SendFailsStep, SaveScanStep DEF ScanStep
<1>2. CASE CallStep
  BY <1>2, PressStep, CallSteps, SaveCallStep DEF CallStep
<1>3. CASE Tick \/ Kill \/ (\E a \in Agents : Seen(a)) \/ UNCHANGED vars
  BY <1>3, Surroundings
<1>4. QED
  BY <1>1, <1>2, <1>3 DEF Next

-------------------------------------------------------------------------------
(* The theorems *)

\* The registry, the alerts, the chat, the scan and the buttons keep the values
\* they are of.
THEOREM AlertsTypeCorrect == Spec => []TypeOK
<1>1. AlertsInv => TypeOK
  BY DEF AlertsInv
<1>2. QED
  BY <1>1, InitAlerts, NextAlerts, PTL DEF Spec

\* A scan sends nothing about an agent before the time that the operator was
\* told when the scan loaded the alerts, whatever buttons, heartbeats and kills
\* do meanwhile; a save that undid a snooze has reset that time.
THEOREM QuietStaysKept == Spec => QuietIsKept
<1>1. AlertsInv /\ [Next]_vars =>
        [\A a \in Agents :
           scan.pc = "send" /\ scan'.pc = "send" /\ scan'.copy[a] # scan.copy[a]
             => scan.n >= scan.quiet[a]]_vars
  <2> SUFFICES ASSUME AlertsInv, [Next]_vars, NEW a \in Agents,
                      scan.pc = "send", scan'.pc = "send",
                      scan'.copy[a] # scan.copy[a]
               PROVE  scan.n >= scan.quiet[a]
    OBVIOUS
  <2>1. /\ scan \in Scan /\ scan.copy \in [Agents -> Alert]
        /\ scan.quiet \in [Agents -> 0..MaxClock + Snooze]
        /\ scan.n \in 0..MaxClock /\ Quieted(scan.quiet, scan.copy)
    BY DEF AlertsInv, TypeOK, Scan, Sending, Times
  <2>2. PICK b \in Agents : SendAlert(b)
    BY Starts DEF Next, ScanStep, CallStep, Tick, Kill, Seen, StartScan,
                  LoadAgents, LoadAlerts, SendFails, SaveScan, SaveScanFails,
                  PressObserve, PressRemove, RemoveAgent, SaveCall, CallFails,
                  vars
  <2>3. a = b
    <3>1. scan' = [scan EXCEPT !.copy = [scan.copy EXCEPT ![b] = scan'.copy[b]]]
      BY <2>1, <2>2 DEF SendAlert, Scan
    <3>2. QED
      BY <2>1, <3>1 DEF Scan
  <2>4. scan.n >= scan.copy[a].until /\ scan.n >= scan.copy[a].next
    BY <2>2, <2>3 DEF SendAlert, Due, ShouldSend
  <2>5. \/ scan.quiet[a] <= scan.copy[a].next
        \/ scan.quiet[a] <= scan.copy[a].until
    BY <2>1 DEF Quieted
  <2>6. scan.copy[a].next \in Nat /\ scan.copy[a].until \in Nat
    BY <2>1, AlertValues
  <2>7. scan.quiet[a] \in Nat /\ scan.n \in Nat
    BY <2>1, Numbers
  <2>8. QED
    BY <2>4, <2>5, <2>6, <2>7
<1>2. QED
  BY <1>1, InitAlerts, NextAlerts, PTL DEF Spec, QuietIsKept

\* Whatever is sent, snoozed, removed, killed or fails, the buttons of the
\* messages in the chat go on finding their alert; only a save of an alert that
\* was changed since the saving process loaded it disables its button.
THEOREM ButtonsStayGood == Spec => ButtonsKeepWorking
<1>1. AlertsInv /\ [Next]_vars =>
        [\A button \in chat :
           Works(button) /\ ~Works(button)' =>
             button[1] \in Clobbered(IF scan' # scan THEN scan.base
                                                     ELSE call.base)]_vars
  <2> SUFFICES ASSUME AlertsInv, [Next]_vars, NEW button \in chat,
                      alerts[button[1]].token = button[2],
                      alerts'[button[1]].token # button[2]
               PROVE  button[1] \in Clobbered(IF scan' # scan THEN scan.base
                                                              ELSE call.base)
    BY DEF Works
  <2>1. button[1] \in Agents /\ button[2] # 0
    BY DEF AlertsInv, TypeOK, Buttons
  <2>2. \/ SaveScan /\ scan.copy # scan.base
        \/ SaveCall
    BY DEF Next, ScanStep, CallStep, Tick, Kill, Seen, StartScan, LoadAgents,
           LoadAlerts, SendAlert, SendFails, SaveScan, SaveScanFails,
           PressObserve, PressRemove, RemoveAgent, CallFails, vars
  <2>3. CASE SaveScan /\ scan.copy # scan.base
    <3>1. /\ scan.pc = "send" /\ scan' = ScanIdle /\ alerts' = scan.copy
      BY <2>3 DEF SaveScan
    <3>2. scan' # scan
      BY <3>1, Starts
    <3>3. scan.base[button[1]].token # 0 =>
            scan.copy[button[1]].token = scan.base[button[1]].token
      BY <2>1, <3>1 DEF AlertsInv, Sending
    <3>4. QED
      BY <2>1, <3>1, <3>2, <3>3 DEF Clobbered
  <2>4. CASE SaveCall
    <3>1. call.pc = "save" /\ scan' = scan /\ alerts' = call.copy
      BY <2>4 DEF SaveCall
    <3>2. call.copy[button[1]].token = call.base[button[1]].token
      BY <2>1, <3>1 DEF AlertsInv, Pressed
    <3>3. QED
      BY <2>1, <3>1, <3>2 DEF Clobbered
  <2>5. QED
    BY <2>2, <2>3, <2>4
<1>2. QED
  BY <1>1, InitAlerts, NextAlerts, PTL DEF Spec, ButtonsKeepWorking
===============================================================================
