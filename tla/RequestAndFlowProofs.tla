------------------------- MODULE RequestAndFlowProofs -------------------------
(***************************************************************************)
(* Theorems about two components, RequestAuth and LinkFlow, which have no  *)
(* name in common (the initial predicate, the next-state relation and the  *)
(* type invariant of LinkFlow are FlowInit, FlowNext and FlowTypeOK).  No  *)
(* theorem is about both.                                                  *)
(*                                                                         *)
(* RequestAuth, for every number of requests, agents and handlers: TypeOK, *)
(* then HandledOnce and HandledIsRemembered from the inductive invariant   *)
(* AuthInv.                                                                *)
(*                                                                         *)
(* LinkFlow, for every number of links, leases and faults: that both ends  *)
(* of a mesh match when all is done, and that what a removal takes apart   *)
(* stays so, from the inductive invariant FlowInv.  It follows the batches *)
(* of the two agents: tasks are first leased in the order of their         *)
(* creation, so that one that was leased only once is executed before      *)
(* every younger one.                                                      *)
(***************************************************************************)
EXTENDS RequestAuth, LinkFlow,
        FiniteSetTheorems, SequenceTheorems, WellFoundedInduction, TLAPS

-------------------------------------------------------------------------------
(* RequestAuth *)

LEMMA NotSentIsInt == NotSent \in Int
BY RequestAuthAssumption DEF NotSent

LEMMA IdleIsHandler == Idle \in Handler /\ Idle.pc = "idle"
BY DEF Idle, Handler

\* A handler that starts on a delivery.
LEMMA StartIsHandler ==
  ASSUME NEW r \in Requests
  PROVE  /\ [Idle EXCEPT !.pc = "load", !.req = r] \in Handler
         /\ [Idle EXCEPT !.pc = "load", !.req = r].req = r
         /\ [Idle EXCEPT !.pc = "load", !.req = r].pc = "load"
BY DEF Idle, Handler

LEMMA TypeInit == Init => TypeOK
<1> SUFFICES ASSUME Init PROVE TypeOK
  OBVIOUS
<1>1. handler \in [Handlers -> Handler]
  BY IdleIsHandler DEF Init
<1>2. \A h \in Handlers : handler[h].pc = "idle"
  BY IdleIsHandler DEF Init
<1>3. ts \in [Requests -> Int]
  BY NotSentIsInt DEF Init
<1> QED BY <1>1, <1>2, <1>3 DEF Init, TypeOK

\* What Save leaves behind.
LEMMA SaveType ==
  ASSUME TypeOK, NEW h \in Handlers, Save(h)
  PROVE  /\ store' \subseteq Requests
         /\ overwritten' \in BOOLEAN
         /\ handler' \in [Handlers -> Handler]
         /\ \A g \in Handlers : handler'[g].pc # "idle" =>
              /\ handler'[g].req \in Requests
              /\ handler[g].pc # "idle"
              /\ handler'[g].req = handler[g].req
         /\ \A g \in Handlers : handler'[g].pc = "write" => handler'[g].stale
<1>1. \A g \in Handlers : handler[g] \in Handler
  BY DEF TypeOK
<1>2. \A g \in Handlers :
        /\ [handler[g] EXCEPT !.stale = TRUE] \in Handler
        /\ [handler[g] EXCEPT !.stale = TRUE].req = handler[g].req
        /\ [handler[g] EXCEPT !.stale = TRUE].pc = handler[g].pc
        /\ [handler[g] EXCEPT !.stale = TRUE].stale
  BY <1>1 DEF Handler
<1>3. \A g \in Handlers : handler'[g] \in {Idle, handler[g], [handler[g] EXCEPT !.stale = TRUE]}
  BY DEF Save
<1>4. handler' \in [Handlers -> Handler]
  BY <1>1, <1>2, IdleIsHandler DEF Save
<1>5. store' \subseteq Requests /\ overwritten' \in BOOLEAN
  BY <1>1 DEF Save, Handler, TypeOK
<1>6. ASSUME NEW g \in Handlers, handler'[g].pc # "idle"
      PROVE  /\ handler[g].pc # "idle"
             /\ handler'[g].req = handler[g].req
  BY <1>2, <1>3, <1>6, IdleIsHandler
<1>7. ASSUME NEW g \in Handlers, handler'[g].pc = "write" PROVE handler'[g].stale
  BY <1>2, <1>7, IdleIsHandler DEF Save
<1> QED BY <1>4, <1>5, <1>6, <1>7 DEF TypeOK

LEMMA TypeNext == TypeOK /\ [Next]_vars => TypeOK'
<1> SUFFICES ASSUME TypeOK, [Next]_vars PROVE TypeOK'
  OBVIOUS
<1> USE RequestAuthAssumption DEF TypeOK
<1>1. ASSUME NEW r \in Requests, NEW drift \in -MaxDrift..MaxDrift, Send(r, drift)
      PROVE TypeOK'
  BY <1>1 DEF Send
<1>2. ASSUME NEW h \in Handlers, NEW r \in Requests, Check(h, r)
      PROVE TypeOK'
  <2> DEFINE start == [Idle EXCEPT !.pc = "load", !.req = r]
  <2>0. handler' = [handler EXCEPT ![h] = start]
    BY <1>2 DEF Check
  <2>s. start \in Handler /\ start.req = r
    BY StartIsHandler
  <2> HIDE DEF start
  <2>1. handler' \in [Handlers -> Handler]
    BY <2>0, <2>s
  <2>2. \A g \in Handlers : handler'[g].pc # "idle" => handler'[g].req \in Requests
    BY <2>0, <2>s
  <2> QED BY <1>2, <2>1, <2>2 DEF Check
<1>3. ASSUME NEW h \in Handlers, LoadNonces(h) PROVE TypeOK'
  <2>1. handler[h] \in Handler /\ handler[h].req \in Requests
    BY <1>3 DEF LoadNonces
  <2>2. Pruned(handler[h].req) \cup {handler[h].req} \subseteq Requests
    BY <2>1 DEF Pruned
  <2> DEFINE next == [handler[h] EXCEPT !.pc = "write",
                        !.copy = Pruned(handler[h].req) \cup {handler[h].req}]
  <2>3. next \in Handler /\ next.req \in Requests
    BY <2>1, <2>2 DEF Handler
  <2>4. \E a \in {Idle, next} : handler' = [handler EXCEPT ![h] = a]
    BY <1>3 DEF LoadNonces
  <2> HIDE DEF next
  <2>5. handler' \in [Handlers -> Handler]
    BY <2>3, <2>4, IdleIsHandler
  <2>6. \A g \in Handlers : handler'[g].pc # "idle" => handler'[g].req \in Requests
    BY <2>3, <2>4, IdleIsHandler
  <2>7. overdue' \subseteq Requests
    BY <1>3, <2>1 DEF LoadNonces
  <2> QED BY <1>3, <2>5, <2>6, <2>7 DEF LoadNonces
<1>5. ASSUME NEW h \in Handlers, Accept(h) PROVE TypeOK'
  <2>1. handler[h].req \in Requests
    BY <1>5 DEF Accept
  <2>2. Save(h)
    BY <1>5 DEF Accept
  <2> QED BY <1>5, <2>1, <2>2, SaveType DEF Accept
<1>6. ASSUME NEW h \in Handlers, WriteFails(h) PROVE TypeOK'
  <2>1. CASE Save(h)
    BY <1>6, <2>1, SaveType DEF WriteFails
  <2>2. CASE handler' = [handler EXCEPT ![h] = Idle] /\ UNCHANGED <<store, overwritten>>
    BY <1>6, <2>2, IdleIsHandler DEF WriteFails
  <2> QED BY <1>6, <2>1, <2>2 DEF WriteFails
<1>7. CASE Restart
  BY <1>7, IdleIsHandler DEF Restart
<1>8. CASE Tick
  BY <1>8 DEF Tick
<1>9. CASE UNCHANGED vars
  BY <1>9 DEF vars
<1> QED BY <1>1, <1>2, <1>3, <1>5, <1>6, <1>7, <1>8, <1>9 DEF Next

\* Every reachable state has its type: the windows, the nonce file and the
\* handlers' copies stay what verifySignature and consumeNonce take them for.
THEOREM RequestTypeCorrect == Spec => []TypeOK
BY TypeInit, TypeNext, PTL DEF Spec

-------------------------------------------------------------------------------
LEMMA AuthInit == Init => AuthInv
BY IdleIsHandler
DEF Init, AuthInv, SentFirst, HandledOnce, StoreIsComplete, CopyIsComplete

\* A nonce that was forgotten once stays forgotten: the clock does not go back.
LEMMA ForgottenIsFinal ==
  ASSUME TypeOK, clock' \in Nat, clock' >= clock,
         NEW r \in Requests, ts'[r] = ts[r], Forgotten(r)
  PROVE  Forgotten(r)'
BY RequestAuthAssumption DEF TypeOK, Forgotten

\* Writing the nonce file back keeps every nonce that counts, unless it is
\* written over another handler's write.
LEMMA SaveKeepsNonces ==
  ASSUME TypeOK, AuthInv, NEW h \in Handlers, handler[h].pc = "write", Save(h),
         ~overwritten'
  PROVE  /\ ~overwritten
         /\ \A r \in Requests : handled[r] > 0 => r \in store' \/ Forgotten(r)
         /\ handler[h].req \in store'
         /\ handled[handler[h].req] > 0 => handler[h].req \in overdue
<1>1. ~overwritten /\ ~handler[h].stale
  BY DEF Save, TypeOK, Handler
<1>2. CopyIsComplete
  BY <1>1 DEF AuthInv
<1>3. store' = handler[h].copy
  BY DEF Save
<1> QED BY <1>1, <1>2, <1>3 DEF CopyIsComplete

LEMMA AuthNext == TypeOK /\ AuthInv /\ [Next]_vars => AuthInv'
<1> SUFFICES ASSUME TypeOK, AuthInv, [Next]_vars PROVE AuthInv'
  OBVIOUS
<1>t. TypeOK'
  BY TypeNext
<1>1. ASSUME NEW r \in Requests, NEW drift \in -MaxDrift..MaxDrift, Send(r, drift)
      PROVE AuthInv'
  <2>1. \A n \in Requests : n # r => ts'[n] = ts[n]
    BY <1>1 DEF Send, TypeOK
  <2>2. handled[r] = 0 /\ \A h \in Handlers : handler[h].pc # "idle" => handler[h].req # r
    BY <1>1 DEF Send, AuthInv, SentFirst, TypeOK
  <2>3. UNCHANGED <<clock, store, handler, handled, overwritten, overdue>>
    BY <1>1 DEF Send
  <2>4. SentFirst'
    BY <2>1, <2>2, <2>3 DEF AuthInv, SentFirst, TypeOK
  <2>5. HandledOnce'
    BY <2>3 DEF AuthInv, HandledOnce
  <2>6. \A n \in Requests : handled'[n] > 0 /\ Forgotten(n) => Forgotten(n)'
    BY <2>1, <2>2, <2>3 DEF Forgotten
  <2>7. StoreIsComplete => StoreIsComplete'
    BY <2>3, <2>6 DEF StoreIsComplete
  <2>8. CopyIsComplete => CopyIsComplete'
    BY <2>3, <2>6 DEF CopyIsComplete
  <2> QED BY <2>3, <2>4, <2>5, <2>7, <2>8 DEF AuthInv
<1>2. ASSUME NEW h \in Handlers, NEW r \in Requests, Check(h, r)
      PROVE AuthInv'
  <2> DEFINE start == [Idle EXCEPT !.pc = "load", !.req = r]
  <2>0. handler' = [handler EXCEPT ![h] = start] /\ ts[r] # NotSent
    BY <1>2 DEF Check
  <2>s. start.req = r /\ start.pc = "load"
    BY StartIsHandler
  <2> HIDE DEF start
  <2>1. UNCHANGED <<clock, ts, store, handled, overwritten, overdue>>
    BY <1>2 DEF Check
  <2>2. SentFirst'
    BY <2>0, <2>s, <2>1 DEF AuthInv, SentFirst, TypeOK
  <2>3. CopyIsComplete => CopyIsComplete'
    BY <2>0, <2>s, <2>1 DEF CopyIsComplete, Forgotten, TypeOK
  <2>4. StoreIsComplete => StoreIsComplete'
    BY <2>1 DEF StoreIsComplete, Forgotten
  <2>5. HandledOnce'
    BY <2>1 DEF AuthInv, HandledOnce
  <2> QED BY <2>1, <2>2, <2>3, <2>4, <2>5 DEF AuthInv
<1>3. ASSUME NEW h \in Handlers, LoadNonces(h) PROVE AuthInv'
  <2> DEFINE r == handler[h].req
  <2> DEFINE next == [handler[h] EXCEPT !.pc = "write", !.copy = Pruned(r) \cup {r}]
  <2>0. UNCHANGED <<clock, ts, store, handled, overwritten>>
    BY <1>3 DEF LoadNonces
  <2>1. handler[h] \in Handler /\ r \in Requests /\ handler[h].pc # "idle"
    BY <1>3 DEF LoadNonces, TypeOK
  <2>2. next.req = r /\ next.pc = "write" /\ next.copy = Pruned(r) \cup {r}
    BY <2>1 DEF Handler
  <2>3. \/ handler' = [handler EXCEPT ![h] = Idle]
        \/ r \notin Pruned(r) /\ handler' = [handler EXCEPT ![h] = next]
    BY <1>3 DEF LoadNonces
  <2>4. overdue \subseteq overdue' /\ (Forgotten(r) => r \in overdue')
    BY <1>3, <2>1, RequestAuthAssumption DEF LoadNonces, Forgotten, Overdue, TypeOK
  <2> HIDE DEF next
  <2>5. SentFirst'
    BY <2>0, <2>1, <2>2, <2>3, IdleIsHandler DEF AuthInv, SentFirst, TypeOK
  <2>6. HandledOnce'
    BY <2>0, <2>4 DEF AuthInv, HandledOnce
  <2>7. StoreIsComplete => StoreIsComplete'
    BY <2>0 DEF StoreIsComplete, Forgotten
  <2>8. ASSUME StoreIsComplete, CopyIsComplete PROVE CopyIsComplete'
    <3>1. \A n \in Requests : handled[n] > 0 => n \in Pruned(r) \/ Forgotten(n)
      BY <2>8 DEF StoreIsComplete, Pruned
    <3>2. ASSUME r \notin Pruned(r), handled[r] > 0 PROVE r \in overdue'
      BY <2>1, <2>4, <3>1, <3>2
    <3>3. \A n \in Requests : Forgotten(n) => Forgotten(n)'
      BY <2>0 DEF Forgotten
    <3>4. CASE handler' = [handler EXCEPT ![h] = Idle]
      BY <2>0, <2>4, <2>8, <3>3, <3>4, IdleIsHandler DEF CopyIsComplete, TypeOK
    <3>5. CASE r \notin Pruned(r) /\ handler' = [handler EXCEPT ![h] = next]
      <4> SUFFICES ASSUME NEW g \in Handlers, handler'[g].pc = "write", ~handler'[g].stale
                   PROVE  /\ \A n \in Requests :
                               handled'[n] > 0 => n \in handler'[g].copy \/ Forgotten(n)'
                          /\ handled'[handler'[g].req] > 0 => handler'[g].req \in overdue'
                          /\ handler'[g].req \in handler'[g].copy
        BY DEF CopyIsComplete
      <4>1. CASE g = h
        <5>1. handler'[g] = next
          BY <3>5, <4>1 DEF TypeOK
        <5> QED BY <5>1, <2>0, <2>2, <3>1, <3>2, <3>3, <3>5
      <4>2. CASE g # h
        <5>1. handler'[g] = handler[g]
          BY <3>5, <4>2 DEF TypeOK
        <5> QED BY <5>1, <2>0, <2>4, <2>8, <3>3 DEF CopyIsComplete
      <4> QED BY <4>1, <4>2
    <3> QED BY <2>3, <3>4, <3>5
  <2> QED BY <2>0, <2>5, <2>6, <2>7, <2>8 DEF AuthInv
<1>4. ASSUME NEW h \in Handlers, handler[h].pc = "write", Save(h),
             UNCHANGED <<clock, ts, overdue>>,
             \A n \in Requests : n # handler[h].req => handled'[n] = handled[n],
             \/ handled'[handler[h].req] = handled[handler[h].req]
             \/ handled'[handler[h].req] = handled[handler[h].req] + 1
      PROVE AuthInv'
  <2> DEFINE r == handler[h].req
  <2>1. r \in Requests /\ ts[r] # NotSent
    BY <1>4 DEF TypeOK, AuthInv, SentFirst
  <2>2. \A n \in Requests : ts[n] # NotSent \/ handled'[n] = 0
    BY <1>4, <2>1 DEF TypeOK, AuthInv, SentFirst
  <2>3. SentFirst'
    BY <1>4, <1>t, <2>2, SaveType DEF AuthInv, SentFirst, TypeOK
  <2>4. ASSUME ~overwritten'
        PROVE  /\ ~overwritten
               /\ \A n \in Requests : handled[n] > 0 => n \in store' \/ Forgotten(n)
               /\ r \in store'
               /\ handled[r] > 0 => r \in overdue
    BY <1>4, <2>4, SaveKeepsNonces
  <2>5. \A n \in Requests : Forgotten(n) => Forgotten(n)'
    BY <1>4 DEF Forgotten
  <2>6. ASSUME ~overwritten' PROVE StoreIsComplete'
    BY <1>4, <2>4, <2>5, <2>6 DEF StoreIsComplete
  <2>7. CopyIsComplete'
    BY <1>4, SaveType DEF CopyIsComplete
  <2>8. ASSUME ~overwritten', NEW n \in Requests, handled'[n] > 1 PROVE n \in overdue'
    <3>1. CASE n = r
      BY <1>4, <2>1, <2>4, <2>8, <3>1 DEF TypeOK
    <3>2. CASE n # r
      BY <1>4, <2>4, <2>8, <3>2 DEF AuthInv, HandledOnce
    <3> QED BY <3>1, <3>2
  <2>9. HandledOnce'
    BY <2>8 DEF HandledOnce
  <2> QED BY <2>3, <2>6, <2>7, <2>9 DEF AuthInv
<1>5. ASSUME NEW h \in Handlers, Accept(h) PROVE AuthInv'
  BY <1>4, <1>5 DEF Accept, TypeOK
<1>6. ASSUME NEW h \in Handlers, handler' = [handler EXCEPT ![h] = Idle],
             UNCHANGED <<clock, ts, store, handled, overwritten, overdue>>
      PROVE AuthInv'
  <2>1. \A n \in Requests : Forgotten(n) => Forgotten(n)'
    BY <1>6 DEF Forgotten
  <2>2. SentFirst'
    BY <1>6, IdleIsHandler DEF AuthInv, SentFirst, TypeOK
  <2>3. CopyIsComplete => CopyIsComplete'
    BY <1>6, <2>1, IdleIsHandler DEF CopyIsComplete, TypeOK
  <2>4. StoreIsComplete => StoreIsComplete'
    BY <1>6, <2>1 DEF StoreIsComplete
  <2> QED BY <1>6, <2>2, <2>3, <2>4 DEF AuthInv, HandledOnce
<1>7. ASSUME NEW h \in Handlers, WriteFails(h) PROVE AuthInv'
  BY <1>4, <1>6, <1>7 DEF WriteFails
<1>8. CASE Restart
  <2>1. \A n \in Requests : Forgotten(n) => Forgotten(n)'
    BY <1>8 DEF Restart, Forgotten
  <2>2. \A h \in Handlers : handler'[h].pc = "idle"
    BY <1>8, IdleIsHandler DEF Restart
  <2> QED BY <1>8, <2>1, <2>2
          DEF Restart, AuthInv, SentFirst, HandledOnce, StoreIsComplete, CopyIsComplete
<1>9. CASE Tick
  <2>1. clock' \in Nat /\ clock' >= clock
    BY <1>9, <1>t DEF Tick, TypeOK
  <2>2. \A n \in Requests : Forgotten(n) => Forgotten(n)'
    BY <1>9, <2>1, ForgottenIsFinal DEF Tick
  <2> QED BY <1>9, <2>2
          DEF Tick, AuthInv, SentFirst, HandledOnce, StoreIsComplete, CopyIsComplete
<1>10. CASE UNCHANGED vars
  BY <1>10 DEF vars, AuthInv, SentFirst, HandledOnce, StoreIsComplete,
               CopyIsComplete, Forgotten
<1> QED BY <1>1, <1>2, <1>3, <1>5, <1>7, <1>8, <1>9, <1>10 DEF Next

LEMMA AuthInvariant == Spec => []AuthInv
BY AuthInit, RequestTypeCorrect, AuthNext, PTL DEF Spec

\* The window a nonce is kept for covers the window a request is accepted in.
LEMMA ForgottenIsOutside ==
  ASSUME TypeOK, NEW r \in Requests, Forgotten(r)
  PROVE  ~InWindow(r)
BY RequestAuthAssumption DEF TypeOK, Forgotten, InWindow, Distance

\* For every number of overlapping handlers and agents: a request that is
\* delivered again is handled again only if the nonce file was written over or
\* its window passed between the two clock readings of consumeNonce's caller.
THEOREM RequestHandledOnce == Spec => []HandledOnce
<1>1. AuthInv => HandledOnce
  BY DEF AuthInv
<1> QED BY <1>1, AuthInvariant, PTL

\* And as long as no handler wrote a stale copy of the file back, the nonce of a
\* handled request is in it while the window would let another delivery pass,
\* however far the agent's clock is off.
THEOREM RequestRemembered == Spec => []HandledIsRemembered
<1>1. TypeOK /\ AuthInv => HandledIsRemembered
  BY ForgottenIsOutside DEF AuthInv, StoreIsComplete, HandledIsRemembered
<1> QED BY <1>1, RequestTypeCorrect, AuthInvariant, PTL

-------------------------------------------------------------------------------
(***************************************************************************)
(* LinkFlow: the inductive invariant                                       *)
(***************************************************************************)

\* A task that was never leased.
Fresh(t) == tasks[t].status = "queued" /\ tasks[t].leases = 0

\* No task is of a later second than the last one.
Aged == \A t \in TaskIds : tasks[t].at <= second

\* A lease is counted, and one that is open is not the last.
Counted ==
  \A t \in TaskIds : /\ tasks[t].status = "running" => tasks[t].leases >= 1
                     /\ tasks[t].status = "queued" => tasks[t].leases < MaxLeases

\* An agent's tasks get their first lease in the order of their creation.
InTurn ==
  \A t, u \in TaskIds :
    Host(t) = Host(u) /\ tasks[t].leases >= 1 /\ Fresh(u)
    => tasks[t].at <= tasks[u].at

\* A link that was not commanded has no export.
Given == \A g \in Links : g > linked => tasks[Command("export", g)].status = "none"

\* A batch holds different tasks, oldest first, none of which is done.
Batched ==
  \A r \in Roles : \A i \in DOMAIN queue[r] :
    /\ tasks[queue[r][i]].status \notin {"none", "done"}
    /\ queue[r][i] # result[r].task
    /\ \A j \in DOMAIN queue[r] : i < j =>
         /\ queue[r][i] # queue[r][j]
         /\ tasks[queue[r][i]].leases >= 1 /\ tasks[queue[r][j]].leases >= 1
            => tasks[queue[r][i]].at <= tasks[queue[r][j]].at

\* The Hub completes what the agent is waiting for, and follows up an export
\* that is done.
Answering ==
  hub # HubIdle =>
    /\ result[Host(hub.task)] = [task |-> hub.task, ok |-> hub.ok]
    /\ hub.pc = "follow" => /\ hub.ok /\ hub.task.kind = "export"
                            /\ tasks[hub.task].status = "done"

\* A result is of a task that was created and is not done, unless it is being
\* followed up.
Posting ==
  \A r \in Roles : result[r] # NoResult =>
    /\ tasks[result[r].task].status # "none"
    /\ tasks[result[r].task].status = "done"
       => hub.pc = "follow" /\ hub.task = result[r].task

\* A task was executed with success, and its result is known or on its way.
Succeeded(t) == tasks[t].status = "done" \/ result[Host(t)] = [task |-> t, ok |-> TRUE]

\* When a task has succeeded, no batch holds an older one of the same agent
\* that was leased only once: it was handed out before.
NoneBehind ==
  \A t, u \in TaskIds :
    /\ Host(t) = Host(u)
    /\ tasks[t].leases >= 1 /\ tasks[u].leases = 1 /\ tasks[u].at < tasks[t].at
    /\ Succeeded(t)
    => \A i \in DOMAIN queue[Host(u)] : queue[Host(u)][i] # u

\* A bind was created for an export.
Followed ==
  \A g \in Links : tasks[Command("bind", g)].status # "none"
                   => tasks[Command("export", g)].status # "none"

\* There is no cleanup task while both agents are there to stay.
NotRemoved ==
  /\ removal.pc = "cancel" => ~ registered[removal.role]
  /\ (\A r \in Roles : registered[r]) /\ removal.pc # "save" =>
       /\ tasks[Command("unbind", 0)].status = "none"
       /\ tasks[Command("teardown", 0)].status = "none"

\* The transit routes to a link whose bind was created.
Routed == bound # 0 => tasks[Command("bind", bound)].status # "none"

\* What a step makes a host run on.
RunsNext(r, g) == conf'[r][Mode(g).dir] = g /\ (Mode(g).up => iface'[r] = g)

\* A landing that waits for the answer to an export runs on its keys.
Exported ==
  \A g \in Links :
    /\ result["landing"] = [task |-> Command("export", g), ok |-> TRUE]
    /\ Mesh(g)
    => Runs("landing", g)

\* The bind of a link is younger than every other one.
LastBind(g) ==
  /\ tasks[Command("bind", g)].status # "none"
  /\ \A u \in Created("bind") :
       u # Command("bind", g) => tasks[u].at < tasks[Command("bind", g)].at

\* When the exports are done and the last was followed up, the landing runs on the keys of
\* the last bind: in whatever order it executed the exports, the binds follow it.
LandingMatches ==
  /\ tasks[Command("teardown", 0)].status = "none"
  /\ \A t \in Created("export") : tasks[t].status = "done"
  /\ hub.pc # "follow" /\ ~ missed
  => \A g \in Links : LastBind(g) /\ Mesh(g) => Runs("landing", g)

\* When the last bind has succeeded and each had one lease, the transit runs on it.
TransitMatches ==
  /\ tasks[Command("unbind", 0)].status = "none"
  /\ \A u \in Created("bind") : tasks[u].leases = 1
  => \A g \in Links : LastBind(g) /\ Succeeded(Command("bind", g)) =>
       /\ bound = g
       /\ Mesh(g) => Runs("transit", g)

\* A cleanup task has succeeded by its first lease, and what it cleans up after
\* is older and had one lease.
CleansUp(c, kind) ==
  /\ tasks[c].leases = 1 /\ Succeeded(c)
  /\ \A u \in Created(kind) : tasks[u].leases = 1 /\ tasks[u].at < tasks[c].at

\* What an unbind and a teardown have taken apart stays so.
Unbound ==
  LET unbind == Command("unbind", 0) IN
  CleansUp(unbind, "bind")
  => bound = 0 /\ (tasks[unbind].mode.mesh => conf["transit"]["default"] = 0)

TornDown == CleansUp(Command("teardown", 0), "export") => conf["landing"]["default"] = 0

\* An interface that is up has a configuration on its host, unless a teardown
\* could not take it down.
KeptAt(r) == iface[r] # 0 => r \in stuck \/ \E d \in Dirs : conf[r][d] # 0
Kept == \A r \in Roles : KeptAt(r)

FlowInv ==
  /\ FlowTypeOK /\ Aged /\ Counted /\ InTurn /\ Given
  /\ Batched /\ Answering /\ Posting /\ NoneBehind
  /\ Followed /\ NotRemoved /\ Routed
  /\ Exported /\ LandingMatches /\ TransitMatches /\ Unbound /\ TornDown /\ Kept

-------------------------------------------------------------------------------
(* Numbers, tasks and sequences *)

LEMMA FlowNumbers ==
  /\ Cardinality(Links) \in Nat /\ Links = 1..Cardinality(Links)
  /\ Links \subseteq Nat \ {0} /\ Gens \subseteq Nat
  /\ MaxLeases \in Nat \ {0} /\ MaxFaults \in Nat
<1>1. IsFiniteSet(Links) /\ Links = 1..Cardinality(Links)
  BY LinkAssumption
<1>2. Cardinality(Links) \in Nat
  BY <1>1, FS_CardinalityType
<1>3. Links \subseteq Nat \ {0}
  BY <1>1, <1>2
<1>4. QED
  BY <1>1, <1>2, <1>3, LinkAssumption DEF Gens

\* A task is known by its kind and its link, and is one agent's.
LEMMA TaskForms ==
  /\ \A t \in TaskIds :
       /\ Host(t) \in Roles
       /\ \/ t.kind \in {"export", "bind"} /\ t.link \in Links
          \/ t.kind \in {"unbind", "teardown"} /\ t.link = 0
       /\ t = Command(t.kind, t.link)
  /\ \A g \in Links :
       /\ Command("export", g) \in TaskIds /\ Command("bind", g) \in TaskIds
       /\ Host(Command("export", g)) = "landing"
       /\ Host(Command("bind", g)) = "transit"
  /\ Command("unbind", 0) \in TaskIds /\ Host(Command("unbind", 0)) = "transit"
  /\ Command("teardown", 0) \in TaskIds /\ Host(Command("teardown", 0)) = "landing"
  /\ \A k, g : Command(k, g).kind = k /\ Command(k, g).link = g
BY DEF TaskIds, Command, Host, Roles

LEMMA RolesAre == Roles = {"transit", "landing"}
BY DEF Roles

LEMMA TaskIdsFinite == IsFiniteSet(TaskIds)
<1>1. IsFiniteSet({"export", "bind", "unbind", "teardown"})
  <2>1. /\ IsFiniteSet({"export"}) /\ IsFiniteSet({"bind"})
        /\ IsFiniteSet({"unbind"}) /\ IsFiniteSet({"teardown"})
    BY FS_Singleton
  <2>2. IsFiniteSet({"export"} \cup {"bind"}) /\ IsFiniteSet({"unbind"} \cup {"teardown"})
    BY <2>1, FS_Union
  <2>3. IsFiniteSet(({"export"} \cup {"bind"}) \cup ({"unbind"} \cup {"teardown"}))
    BY <2>2, FS_Union
  <2>4. {"export", "bind", "unbind", "teardown"}
          = ({"export"} \cup {"bind"}) \cup ({"unbind"} \cup {"teardown"})
    OBVIOUS
  <2>5. QED
    BY <2>3, <2>4
<1>2. IsFiniteSet(Gens)
  BY LinkAssumption, FS_Singleton, FS_Union DEF Gens
<1>3. IsFiniteSet({"export", "bind", "unbind", "teardown"} \X Gens)
  BY <1>1, <1>2, FS_Product
<1>. DEFINE f == [t \in TaskIds |-> <<t.kind, t.link>>]
<1>4. f \in [TaskIds -> {"export", "bind", "unbind", "teardown"} \X Gens]
  BY TaskForms DEF Gens
<1>5. \A t, u \in TaskIds : f[t] = f[u] => t = u
  BY TaskForms
<1>6. f \in Injection(TaskIds, {"export", "bind", "unbind", "teardown"} \X Gens)
  BY <1>4, <1>5 DEF Injection, IsInjective
<1>7. QED
  BY <1>3, <1>6, FS_Injection

\* The sequences that a set can be put in.
LEMMA Sequenced ==
  ASSUME NEW S, IsFiniteSet(S), NEW s \in SetToSeqs(S)
  PROVE  /\ s \in Seq(S)
         /\ \A i, j \in DOMAIN s : i # j => s[i] # s[j]
<1>1. Cardinality(S) \in Nat
  BY FS_CardinalityType
<1>2. s \in [1..Cardinality(S) -> S]
  BY DEF SetToSeqs
<1>3. s \in Seq(S)
  BY <1>1, <1>2
<1>4. \A i, j \in 1..Cardinality(S) : i # j => s[i] # s[j]
  BY DEF SetToSeqs
<1>5. QED
  BY <1>2, <1>3, <1>4

\* What happens stays within the bound.
LEMMA FaultStep ==
  ASSUME FlowTypeOK, Fault \/ NoFault
  PROVE  faults' \in 0..MaxFaults
BY FlowNumbers DEF FlowTypeOK, Fault, NoFault

\* What is left of a batch when its first task is taken.
LEMMA TailOf ==
  ASSUME NEW S, NEW s \in Seq(S), s # <<>>
  PROVE  /\ Head(s) \in S /\ Head(s) = s[1] /\ 1 \in DOMAIN s
         /\ Tail(s) \in Seq(S)
         /\ \A i \in DOMAIN Tail(s) :
              i \in Nat /\ i >= 1 /\ i + 1 \in DOMAIN s /\ Tail(s)[i] = s[i + 1]
BY HeadTailProperties

-------------------------------------------------------------------------------
(* What the actions do to the tasks and the batches *)

\* A new task is the youngest.
LEMMA CreateStep ==
  ASSUME FlowTypeOK, NEW x \in TaskIds, NEW mode \in Modes, Create(x, mode)
  PROVE  /\ second' \in Nat /\ second <= second'
         /\ tasks' \in [TaskIds -> Task]
         /\ tasks'[x].status = "queued" /\ tasks'[x].at = second'
         /\ tasks'[x].leases = 0 /\ tasks'[x].mode = mode
         /\ \A t \in TaskIds : t # x => tasks'[t] = tasks[t]
<1>1. second' \in Nat /\ second <= second'
  BY DEF Create, FlowTypeOK
<1>. DEFINE new == [status |-> "queued", at |-> second', leases |-> 0, mode |-> mode]
<1>2. new \in Task
  BY <1>1, FlowNumbers DEF Task, Statuses
<1>3. tasks \in [TaskIds -> Task] /\ tasks' = [tasks EXCEPT ![x] = new]
  BY DEF Create, FlowTypeOK
<1>4. new.status = "queued" /\ new.at = second' /\ new.leases = 0 /\ new.mode = mode
  OBVIOUS
<1>. HIDE DEF new
<1>5. QED
  BY <1>1, <1>2, <1>3, <1>4

\* A lease hands over every task that is queued for the agent, oldest first.
LEMMA LeaseStep ==
  ASSUME FlowTypeOK, Counted, NEW r \in Roles, Lease(r)
  PROVE  /\ queue[r] = <<>> /\ result[r] = NoResult
         /\ tasks' \in [TaskIds -> Task]
         /\ \A t \in TaskIds :
              IF Host(t) = r /\ tasks[t].status = "queued"
              THEN /\ tasks'[t].status = "running"
                   /\ tasks'[t].leases = tasks[t].leases + 1
                   /\ tasks'[t].at = tasks[t].at /\ tasks'[t].mode = tasks[t].mode
              ELSE tasks'[t] = tasks[t]
         /\ queue' \in [Roles -> Seq(TaskIds)]
         /\ \A q \in Roles : q # r => queue'[q] = queue[q]
         /\ \A i \in DOMAIN queue'[r] :
              /\ queue'[r][i] \in TaskIds /\ Host(queue'[r][i]) = r
              /\ tasks[queue'[r][i]].status = "queued"
              /\ \A j \in DOMAIN queue'[r] : i < j =>
                   /\ queue'[r][i] # queue'[r][j]
                   /\ tasks[queue'[r][i]].at <= tasks[queue'[r][j]].at
<1>. DEFINE open == OfHost(r, "queued")
<1>1. open \subseteq TaskIds /\ \A t \in open : Host(t) = r /\ tasks[t].status = "queued"
  BY DEF OfHost
<1>2. \A t \in TaskIds : t \in open <=> Host(t) = r /\ tasks[t].status = "queued"
  BY DEF OfHost
<1>3. IsFiniteSet(open)
  BY <1>1, TaskIdsFinite, FS_Subset
<1>4. tasks \in [TaskIds -> Task] /\ queue \in [Roles -> Seq(TaskIds)]
  BY DEF FlowTypeOK
<1>5. tasks' = [t \in TaskIds |->
        IF t \in open THEN [tasks[t] EXCEPT !.status = "running", !.leases = @ + 1]
                      ELSE tasks[t]]
  BY DEF Lease
<1>6. \/ \E s \in SetToSeqs(open) : InOrder(s) /\ queue' = [queue EXCEPT ![r] = s]
      \/ queue' = queue
  BY DEF Lease
<1>7. queue[r] = <<>> /\ result[r] = NoResult
  BY DEF Lease
<1>. HIDE DEF open
<1>8. \A t \in TaskIds :
        IF t \in open
        THEN /\ tasks'[t].status = "running"
             /\ tasks'[t].leases = tasks[t].leases + 1
             /\ tasks'[t].at = tasks[t].at /\ tasks'[t].mode = tasks[t].mode
             /\ tasks'[t] \in Task
        ELSE tasks'[t] = tasks[t] /\ tasks'[t] \in Task
  <2> SUFFICES ASSUME NEW t \in TaskIds
               PROVE  IF t \in open
                      THEN /\ tasks'[t].status = "running"
                           /\ tasks'[t].leases = tasks[t].leases + 1
                           /\ tasks'[t].at = tasks[t].at /\ tasks'[t].mode = tasks[t].mode
                           /\ tasks'[t] \in Task
                      ELSE tasks'[t] = tasks[t] /\ tasks'[t] \in Task
    OBVIOUS
  <2>1. tasks[t] \in Task
    BY <1>4
  <2>2. CASE t \in open
    <3>1. tasks'[t] = [tasks[t] EXCEPT !.status = "running", !.leases = @ + 1]
      BY <1>5, <2>2
    <3>2. tasks[t].leases < MaxLeases
      BY <1>1, <2>2 DEF Counted
    <3>3. tasks[t].leases + 1 \in 0..MaxLeases
      BY <2>1, <3>2, FlowNumbers DEF Task
    <3>4. tasks'[t] = [status |-> "running", at |-> tasks[t].at,
                       leases |-> tasks[t].leases + 1, mode |-> tasks[t].mode]
      BY <2>1, <3>1 DEF Task
    <3>5. /\ tasks'[t].status = "running" /\ tasks'[t].leases = tasks[t].leases + 1
          /\ tasks'[t].at = tasks[t].at /\ tasks'[t].mode = tasks[t].mode
      BY <3>4
    <3>6. tasks'[t] \in Task
      BY <2>1, <3>3, <3>4 DEF Task, Statuses
    <3>7. QED
      BY <2>2, <3>5, <3>6
  <2>3. CASE t \notin open
    BY <1>5, <2>1, <2>3
  <2>4. QED
    BY <2>2, <2>3
<1>9. tasks' \in [TaskIds -> Task]
  BY <1>5, <1>8
<1>10. CASE queue' = queue
  BY <1>2, <1>4, <1>7, <1>8, <1>9, <1>10
<1>11. ASSUME NEW s \in SetToSeqs(open), InOrder(s), queue' = [queue EXCEPT ![r] = s]
       PROVE  /\ queue' \in [Roles -> Seq(TaskIds)]
              /\ \A q \in Roles : q # r => queue'[q] = queue[q]
              /\ \A i \in DOMAIN queue'[r] :
                   /\ queue'[r][i] \in TaskIds /\ Host(queue'[r][i]) = r
                   /\ tasks[queue'[r][i]].status = "queued"
                   /\ \A j \in DOMAIN queue'[r] : i < j =>
                        /\ queue'[r][i] # queue'[r][j]
                        /\ tasks[queue'[r][i]].at <= tasks[queue'[r][j]].at
  <2>1. s \in Seq(open) /\ \A i, j \in DOMAIN s : i # j => s[i] # s[j]
    BY <1>3, <1>11, Sequenced
  <2>2. s \in Seq(TaskIds)
    BY <1>1, <2>1, SeqMonotonic
  <2>3. queue'[r] = s
    BY <1>4, <1>11
  <2>4. \A i \in DOMAIN s : i \in Nat /\ s[i] \in open
    BY <2>1
  <2>5. \A i, j \in DOMAIN s : i < j => tasks[s[i]].at <= tasks[s[j]].at
    BY <1>11 DEF InOrder
  <2>6. \A i, j \in DOMAIN s : i < j => s[i] # s[j]
    BY <2>1, <2>4
  <2>7. queue' \in [Roles -> Seq(TaskIds)] /\ \A q \in Roles : q # r => queue'[q] = queue[q]
    BY <1>4, <1>11, <2>2
  <2>8. QED
    BY <1>1, <2>3, <2>4, <2>5, <2>6, <2>7
<1>12. QED
  BY <1>2, <1>6, <1>7, <1>8, <1>9, <1>10, <1>11

\* A lease that runs out opens the task again, or ends it.
LEMMA RecoverStep ==
  ASSUME FlowTypeOK, NEW x \in TaskIds, Recover(x)
  PROVE  /\ tasks[x].status = "running" /\ (hub # HubIdle => hub.task # x)
         /\ tasks' \in [TaskIds -> Task]
         /\ \/ tasks'[x].status = "failed"
            \/ tasks'[x].status = "queued" /\ tasks[x].leases < MaxLeases
         /\ tasks'[x].leases = tasks[x].leases
         /\ tasks'[x].at = tasks[x].at /\ tasks'[x].mode = tasks[x].mode
         /\ \A t \in TaskIds : t # x => tasks'[t] = tasks[t]
<1>1. tasks \in [TaskIds -> Task] /\ tasks[x] \in Task
  BY DEF FlowTypeOK
<1>2. PICK st \in {"failed", "queued"} :
        /\ st = "queued" => ~ (tasks[x].leases >= MaxLeases)
        /\ tasks' = [tasks EXCEPT ![x].status = st]
  BY DEF Recover
<1>3. tasks'[x] = [tasks[x] EXCEPT !.status = st]
  BY <1>1, <1>2
<1>4. /\ tasks'[x].status = st /\ tasks'[x].leases = tasks[x].leases
      /\ tasks'[x].at = tasks[x].at /\ tasks'[x].mode = tasks[x].mode
      /\ tasks'[x] \in Task
  BY <1>1, <1>3 DEF Task, Statuses
<1>5. \A t \in TaskIds : t # x => tasks'[t] = tasks[t]
  BY <1>1, <1>2
<1>6. tasks' \in [TaskIds -> Task]
  BY <1>1, <1>2, <1>4, <1>5
<1>7. tasks[x].leases \in Nat
  BY <1>1, FlowNumbers DEF Task
<1>8. tasks[x].status = "running" /\ (hub # HubIdle => hub.task # x)
  BY DEF Recover
<1>9. QED
  BY <1>2, <1>4, <1>5, <1>6, <1>7, <1>8, FlowNumbers

\* A removal cancels what is open for the agent.
LEMMA CancelStep ==
  ASSUME FlowTypeOK, CancelTasks
  PROVE  /\ tasks' \in [TaskIds -> Task]
         /\ \A t \in TaskIds :
              /\ \/ tasks'[t] = tasks[t]
                 \/ /\ tasks[t].status \in {"queued", "running"}
                    /\ tasks'[t].status = "cancelled"
              /\ tasks'[t].leases = tasks[t].leases
              /\ tasks'[t].at = tasks[t].at /\ tasks'[t].mode = tasks[t].mode
<1>1. \A t \in TaskIds :
        /\ tasks'[t] \in Task
        /\ \/ tasks'[t] = tasks[t]
           \/ /\ tasks[t].status \in {"queued", "running"}
              /\ tasks'[t].status = "cancelled"
        /\ tasks'[t].leases = tasks[t].leases
        /\ tasks'[t].at = tasks[t].at /\ tasks'[t].mode = tasks[t].mode
  <2> SUFFICES ASSUME NEW t \in TaskIds
               PROVE  /\ tasks'[t] \in Task
                      /\ \/ tasks'[t] = tasks[t]
                         \/ /\ tasks[t].status \in {"queued", "running"}
                            /\ tasks'[t].status = "cancelled"
                      /\ tasks'[t].leases = tasks[t].leases
                      /\ tasks'[t].at = tasks[t].at /\ tasks'[t].mode = tasks[t].mode
    OBVIOUS
  <2>1. tasks[t] \in Task
    BY DEF FlowTypeOK
  <2>2. \/ tasks'[t] = tasks[t]
        \/ /\ tasks[t].status \in {"queued", "running"}
           /\ tasks'[t] = [tasks[t] EXCEPT !.status = "cancelled"]
    BY DEF CancelTasks
  <2>3. QED
    BY <2>1, <2>2 DEF Task, Statuses
<1>2. tasks' = [t \in TaskIds |-> tasks'[t]]
  BY DEF CancelTasks
<1>3. QED
  BY <1>1, <1>2

\* The status of a task is written as its result says.
LEMMA WriteStep ==
  ASSUME FlowTypeOK, Write
  PROVE  /\ hub # HubIdle /\ hub.pc = "write"
         /\ hub.task \in TaskIds /\ hub.ok \in BOOLEAN
         /\ tasks' \in [TaskIds -> Task]
         /\ tasks'[hub.task].status = IF hub.ok THEN "done" ELSE "failed"
         /\ tasks'[hub.task].leases = tasks[hub.task].leases
         /\ tasks'[hub.task].at = tasks[hub.task].at
         /\ tasks'[hub.task].mode = tasks[hub.task].mode
         /\ \A t \in TaskIds : t # hub.task => tasks'[t] = tasks[t]
<1>1. hub # HubIdle /\ hub.pc = "write"
  BY DEF Write, HubIdle
<1>2. hub.task \in TaskIds /\ hub.ok \in BOOLEAN
  BY <1>1 DEF FlowTypeOK
<1>3. tasks \in [TaskIds -> Task] /\ tasks[hub.task] \in Task
  BY <1>2 DEF FlowTypeOK
<1>. DEFINE st == IF hub.ok THEN "done" ELSE "failed"
<1>4. st \in Statuses
  BY DEF Statuses
<1>5. tasks' = [tasks EXCEPT ![hub.task].status = st]
  BY DEF Write
<1>. HIDE DEF st
<1>6. tasks'[hub.task] = [tasks[hub.task] EXCEPT !.status = st]
  BY <1>2, <1>3, <1>5
<1>7. /\ tasks'[hub.task].status = st /\ tasks'[hub.task].leases = tasks[hub.task].leases
      /\ tasks'[hub.task].at = tasks[hub.task].at
      /\ tasks'[hub.task].mode = tasks[hub.task].mode
      /\ tasks'[hub.task] \in Task
  BY <1>3, <1>4, <1>6 DEF Task
<1>8. \A t \in TaskIds : t # hub.task => tasks'[t] = tasks[t]
  BY <1>3, <1>5
<1>9. tasks' \in [TaskIds -> Task]
  BY <1>3, <1>5, <1>7, <1>8
<1>10. QED
  BY <1>1, <1>2, <1>7, <1>8, <1>9 DEF st

\* A batch is its agent's, and so is a result.
LEMMA BatchHosts ==
  ASSUME FlowTypeOK, NEW r \in Roles
  PROVE  /\ \A i \in DOMAIN queue[r] : queue[r][i] \in TaskIds /\ Host(queue[r][i]) = r
         /\ result[r] # NoResult => result[r].task \in TaskIds /\ Host(result[r].task) = r
<1>1. /\ \A i \in DOMAIN queue[r] : Host(queue[r][i]) = r
      /\ result[r] # NoResult => Host(result[r].task) = r
  BY Zenon DEF FlowTypeOK
<1>2. queue[r] \in Seq(TaskIds) /\ result[r] \in Result \cup {NoResult}
  BY DEF FlowTypeOK
<1>3. \A i \in DOMAIN queue[r] : queue[r][i] \in TaskIds
  BY <1>2
<1>4. result[r] # NoResult => result[r].task \in TaskIds
  BY <1>2 DEF Result
<1>5. QED
  BY <1>1, <1>3, <1>4

LEMMA EmptyBatch == DOMAIN <<>> = {}
OBVIOUS

\* What the answer to a result leaves of it and of the agent's batch.
LEMMA AnswerStep ==
  ASSUME FlowTypeOK, hub.task \in TaskIds, Answer
  PROVE  /\ hub' = HubIdle
         /\ result' \in [Roles -> Result \cup {NoResult}]
         /\ result'[Host(hub.task)] = NoResult
         /\ \A q \in Roles : q # Host(hub.task) => result'[q] = result[q]
         /\ queue' \in [Roles -> Seq(TaskIds)]
         /\ \A q \in Roles : queue'[q] = queue[q] \/ queue'[q] = <<>>
         /\ UNCHANGED <<conf, iface, stuck, stored, bound>>
<1>. DEFINE r == Host(hub.task)
<1>1. r \in Roles
  BY TaskForms
<1>2. /\ result \in [Roles -> Result \cup {NoResult}]
      /\ queue \in [Roles -> Seq(TaskIds)]
  BY DEF FlowTypeOK
<1>3. /\ hub' = HubIdle /\ result' = [result EXCEPT ![r] = NoResult]
      /\ queue' = queue \/ queue' = [queue EXCEPT ![r] = <<>>]
      /\ UNCHANGED <<conf, iface, stuck, stored, bound>>
  BY DEF Answer
<1>4. <<>> \in Seq(TaskIds)
  OBVIOUS
<1>. HIDE DEF r
<1>5. /\ result' \in [Roles -> Result \cup {NoResult}] /\ result'[r] = NoResult
      /\ \A q \in Roles : q # r => result'[q] = result[q]
  BY <1>1, <1>2, <1>3
<1>6. /\ queue' \in [Roles -> Seq(TaskIds)]
      /\ \A q \in Roles : queue'[q] = queue[q] \/ queue'[q] = <<>>
  BY <1>1, <1>2, <1>3, <1>4
<1>7. QED
  BY <1>3, <1>5, <1>6 DEF r

\* An agent takes the first task of its batch and has its result.
LEMMA ExecuteStep ==
  ASSUME FlowTypeOK, NEW r \in Roles, NEW ok \in BOOLEAN, queue[r] # <<>>,
         result' = [result EXCEPT ![r] = [task |-> Head(queue[r]), ok |-> ok]],
         queue' = [queue EXCEPT ![r] = Tail(@)]
  PROVE  /\ Head(queue[r]) \in TaskIds /\ Host(Head(queue[r])) = r
         /\ Head(queue[r]) = queue[r][1] /\ 1 \in DOMAIN queue[r]
         /\ result' \in [Roles -> Result \cup {NoResult}]
         /\ result'[r] = [task |-> Head(queue[r]), ok |-> ok]
         /\ result'[r].task = Head(queue[r])
         /\ \A q \in Roles : q # r => result'[q] = result[q]
         /\ queue' \in [Roles -> Seq(TaskIds)]
         /\ \A q \in Roles : q # r => queue'[q] = queue[q]
         /\ \A i \in DOMAIN queue'[r] :
              i \in Nat /\ i >= 1 /\ i + 1 \in DOMAIN queue[r]
              /\ queue'[r][i] = queue[r][i + 1]
<1>1. /\ result \in [Roles -> Result \cup {NoResult}]
      /\ queue \in [Roles -> Seq(TaskIds)] /\ queue[r] \in Seq(TaskIds)
  BY DEF FlowTypeOK
<1>2. /\ Head(queue[r]) \in TaskIds
      /\ Head(queue[r]) = queue[r][1] /\ 1 \in DOMAIN queue[r]
      /\ Tail(queue[r]) \in Seq(TaskIds)
      /\ \A i \in DOMAIN Tail(queue[r]) :
           i \in Nat /\ i >= 1 /\ i + 1 \in DOMAIN queue[r]
           /\ Tail(queue[r])[i] = queue[r][i + 1]
  BY <1>1, TailOf
<1>3. Host(Head(queue[r])) = r
  <2>1. \A i \in DOMAIN queue[r] : Host(queue[r][i]) = r
    BY BatchHosts
  <2>2. QED
    BY <1>2, <2>1
<1>4. [task |-> Head(queue[r]), ok |-> ok] \in Result
  BY <1>2 DEF Result
<1>5. queue'[r] = Tail(queue[r])
  BY <1>1
<1>6. /\ queue' \in [Roles -> Seq(TaskIds)]
      /\ \A q \in Roles : q # r => queue'[q] = queue[q]
  BY <1>1, <1>2
<1>7. /\ result' \in [Roles -> Result \cup {NoResult}]
      /\ result'[r] = [task |-> Head(queue[r]), ok |-> ok]
      /\ \A q \in Roles : q # r => result'[q] = result[q]
  BY <1>1, <1>4
<1>8. QED
  BY <1>2, <1>3, <1>5, <1>6, <1>7

LEMMA DirsAre == \A g : Mode(g) \in Modes => Mode(g).dir \in Dirs
<1>1. \A m \in [mesh: {TRUE}, up: BOOLEAN, dir: Dirs] : m.dir \in Dirs
  OBVIOUS
<1>2. Direct.dir \in Dirs
  BY DEF Direct, Dirs
<1>3. \A m \in Modes : m.dir \in Dirs
  BY <1>1, <1>2 DEF Modes
<1>4. QED
  BY <1>3

\* The mode of a link is one.
LEMMA ModeType ==
  ASSUME FlowTypeOK, NEW g \in Links
  PROVE  Mode(g) \in Modes /\ Mode(g).dir \in Dirs
<1>1. tasks[Command("export", g)] \in Task
  BY TaskForms DEF FlowTypeOK
<1>2. Mode(g) \in Modes
  BY <1>1 DEF Mode, Task
<1>3. QED
  BY <1>2, DirsAre

\* A mesh is raised to the new link, left as it was, or broken.
LEMMA EnsureStep ==
  ASSUME FlowTypeOK, NEW r \in Roles, NEW g \in Links, Ensure(r, g), stuck' = stuck
  PROVE  /\ conf' \in [Roles -> [Dirs -> Gens]] /\ iface' \in [Roles -> Gens]
         /\ \A q \in Roles : q # r => conf'[q] = conf[q] /\ iface'[q] = iface[q]
         /\ Mesh(g) => RunsNext(r, g)
         /\ \A q \in Roles : KeptAt(q) => KeptAt(q)'
<1>1. /\ conf \in [Roles -> [Dirs -> Gens]] /\ iface \in [Roles -> Gens]
      /\ g \in Gens /\ g # 0
  BY FlowNumbers DEF FlowTypeOK, Gens
<1>. DEFINE d == Mode(g).dir
<1>d. d \in Dirs
  BY ModeType
<1>. HIDE DEF d
<1>2. CASE Mesh(g)
  <2>1. /\ conf' = [conf EXCEPT ![r][d] = g]
        /\ IF Mode(g).up THEN iface' = [iface EXCEPT ![r] = g] ELSE iface' = iface
    BY <1>2 DEF Ensure, EnsureWireGuardMesh, ConfIs, IfaceIs, d
  <2>2. /\ conf' \in [Roles -> [Dirs -> Gens]] /\ conf'[r][d] = g
        /\ \A q \in Roles : q # r => conf'[q] = conf[q]
    BY <1>1, <1>d, <2>1
  <2>3. /\ iface' \in [Roles -> Gens] /\ (Mode(g).up => iface'[r] = g)
        /\ \A q \in Roles : q # r => iface'[q] = iface[q]
    BY <1>1, <2>1
  <2>4. RunsNext(r, g)
    BY <2>2, <2>3 DEF RunsNext, d
  <2>5. \A q \in Roles : KeptAt(q) => KeptAt(q)'
    BY <1>1, <1>d, <2>2, <2>3 DEF KeptAt
  <2>6. QED
    BY <2>2, <2>3, <2>4, <2>5
<1>3. CASE ~ Mesh(g)
  <2>1. conf' = conf /\ iface' = iface
    BY <1>3 DEF Ensure
  <2>2. QED
    BY <1>1, <1>3, <2>1 DEF KeptAt
<1>4. QED
  BY <1>2, <1>3

LEMMA MeshFailsStep ==
  ASSUME FlowTypeOK, NEW r \in Roles, NEW g \in Links, MeshFails(r, g), stuck' = stuck
  PROVE  /\ conf' \in [Roles -> [Dirs -> Gens]] /\ iface' \in [Roles -> Gens]
         /\ \A q \in Roles : q # r => conf'[q] = conf[q] /\ iface'[q] = iface[q]
         /\ \A q \in Roles : KeptAt(q) => KeptAt(q)'
<1>1. /\ conf \in [Roles -> [Dirs -> Gens]] /\ iface \in [Roles -> Gens]
      /\ g \in Gens /\ 0 \in Gens /\ g # 0
  BY FlowNumbers DEF FlowTypeOK, Gens
<1>2. Mode(g).dir \in Dirs
  BY ModeType
<1>3. /\ conf' = [conf EXCEPT ![r][Mode(g).dir] = g]
      /\ iface' = iface \/ iface' = [iface EXCEPT ![r] = 0]
  BY DEF MeshFails, ConfIs, IfaceIs
<1>4. /\ conf' \in [Roles -> [Dirs -> Gens]] /\ conf'[r][Mode(g).dir] = g
      /\ \A q \in Roles : q # r => conf'[q] = conf[q]
  BY <1>1, <1>2, <1>3
<1>5. /\ iface' \in [Roles -> Gens]
      /\ \A q \in Roles : q # r => iface'[q] = iface[q]
  BY <1>1, <1>3
<1>6. \A q \in Roles : KeptAt(q) => KeptAt(q)'
  BY <1>1, <1>2, <1>4, <1>5 DEF KeptAt
<1>7. QED
  BY <1>4, <1>5, <1>6

\* The configuration in the default directory goes, if there is one.
LEMMA TeardownStep ==
  ASSUME FlowTypeOK, NEW r \in Roles, TeardownMesh(r)
  PROVE  /\ conf' \in [Roles -> [Dirs -> Gens]] /\ iface' \in [Roles -> Gens]
         /\ stuck' \subseteq Roles
         /\ \A q \in Roles : q # r => conf'[q] = conf[q] /\ iface'[q] = iface[q]
         /\ conf'[r]["default"] = 0
         /\ \A q \in Roles : KeptAt(q) => KeptAt(q)'
<1>1. /\ conf \in [Roles -> [Dirs -> Gens]] /\ iface \in [Roles -> Gens]
      /\ stuck \subseteq Roles /\ 0 \in Gens /\ "default" \in Dirs
  BY DEF FlowTypeOK, Gens, Dirs
<1>2. CASE conf[r]["default"] = 0
  <2>1. conf' = conf /\ iface' = iface /\ stuck' = stuck
    BY <1>2 DEF TeardownMesh
  <2>2. QED
    BY <1>1, <1>2, <2>1 DEF KeptAt
<1>3. CASE conf[r]["default"] # 0
  <2>1. /\ conf' = [conf EXCEPT ![r]["default"] = 0]
        /\ \/ iface' = [iface EXCEPT ![r] = 0] /\ stuck' = stuck
           \/ iface' = iface /\ stuck' = stuck \cup {r}
    BY <1>3 DEF TeardownMesh, ConfIs, IfaceIs
  <2>2. /\ conf' \in [Roles -> [Dirs -> Gens]] /\ conf'[r]["default"] = 0
        /\ \A q \in Roles : q # r => conf'[q] = conf[q]
    BY <1>1, <2>1
  <2>3. /\ iface' \in [Roles -> Gens] /\ stuck' \subseteq Roles
        /\ stuck \subseteq stuck' /\ (iface'[r] = 0 \/ r \in stuck')
        /\ \A q \in Roles : q # r => iface'[q] = iface[q]
    BY <1>1, <2>1
  <2>4. \A q \in Roles : KeptAt(q) => KeptAt(q)'
    BY <2>2, <2>3 DEF KeptAt
  <2>5. QED
    BY <2>2, <2>3, <2>4
<1>4. QED
  BY <1>2, <1>3

LEMMA TeardownFailsStep ==
  ASSUME FlowTypeOK, NEW r \in Roles, TeardownFails(r)
  PROVE  /\ conf' = conf /\ iface' \in [Roles -> Gens] /\ stuck' = stuck
         /\ \A q \in Roles : q # r => iface'[q] = iface[q]
         /\ \A q \in Roles : KeptAt(q) => KeptAt(q)'
<1>1. iface \in [Roles -> Gens] /\ 0 \in Gens
  BY DEF FlowTypeOK, Gens
<1>2. /\ conf' = conf /\ stuck' = stuck
      /\ iface' = iface \/ iface' = [iface EXCEPT ![r] = 0]
  BY DEF TeardownFails, IfaceIs
<1>3. /\ iface' \in [Roles -> Gens]
      /\ \A q \in Roles : (iface'[q] = iface[q] \/ (q = r /\ iface'[q] = 0))
  BY <1>1, <1>2
<1>4. QED
  BY <1>2, <1>3 DEF KeptAt

\* What the landing's tasks do to it.
LEMMA LandingStep ==
  ASSUME FlowTypeOK, NEW ok \in BOOLEAN, NEW t \in TaskIds,
         \/ t.kind = "export" /\ ExecuteExport(t.link, ok)
         \/ t.kind = "teardown" /\ ExecuteTeardown(ok)
  PROVE  /\ conf' \in [Roles -> [Dirs -> Gens]] /\ iface' \in [Roles -> Gens]
         /\ stuck' \subseteq Roles
         /\ conf'["transit"] = conf["transit"] /\ iface'["transit"] = iface["transit"]
         /\ stored' = stored /\ bound' = bound
         /\ t.kind = "export" /\ ok /\ Mesh(t.link) => RunsNext("landing", t.link)
         /\ t.kind = "teardown" /\ ok => conf'["landing"]["default"] = 0
         /\ t.kind = "teardown" /\ ~ ok => conf' = conf
         /\ \A q \in Roles : KeptAt(q) => KeptAt(q)'
<1>1. /\ conf \in [Roles -> [Dirs -> Gens]] /\ iface \in [Roles -> Gens]
      /\ stuck \subseteq Roles /\ "landing" \in Roles /\ "transit" \in Roles
  BY DEF FlowTypeOK, Roles
<1>2. CASE t.kind = "export" /\ ExecuteExport(t.link, ok)
  <2>1. t.link \in Links
    BY <1>2, TaskForms
  <2>2. stored' = stored /\ bound' = bound /\ stuck' = stuck
    BY <1>2 DEF ExecuteExport
  <2>3. \/ Ensure("landing", t.link)
        \/ ~ ok /\ conf' = conf /\ iface' = iface
        \/ ~ ok /\ MeshFails("landing", t.link)
    BY <1>2 DEF ExecuteExport
  <2>4. CASE Ensure("landing", t.link)
    BY <1>1, <1>2, <2>1, <2>2, <2>4, EnsureStep
  <2>5. CASE ~ ok /\ conf' = conf /\ iface' = iface
    BY <1>1, <1>2, <2>2, <2>5 DEF KeptAt
  <2>6. CASE ~ ok /\ MeshFails("landing", t.link)
    BY <1>1, <1>2, <2>1, <2>2, <2>6, MeshFailsStep
  <2>7. QED
    BY <2>3, <2>4, <2>5, <2>6
<1>3. CASE t.kind = "teardown" /\ ExecuteTeardown(ok)
  <2>1. stored' = stored /\ bound' = bound
    BY <1>3 DEF ExecuteTeardown
  <2>2. \/ ok /\ TeardownMesh("landing")
        \/ ~ ok /\ TeardownFails("landing")
    BY <1>3 DEF ExecuteTeardown
  <2>3. CASE ok /\ TeardownMesh("landing")
    BY <1>1, <1>3, <2>1, <2>3, TeardownStep
  <2>4. CASE ~ ok /\ TeardownFails("landing")
    BY <1>1, <1>3, <2>1, <2>4, TeardownFailsStep
  <2>5. QED
    BY <2>2, <2>3, <2>4
<1>4. QED
  BY <1>2, <1>3

\* What the transit's tasks do to it.
LEMMA TransitStep ==
  ASSUME FlowTypeOK, NEW ok \in BOOLEAN, NEW t \in TaskIds,
         \/ t.kind = "bind" /\ ExecuteBind(t.link, ok)
         \/ t.kind = "unbind" /\ ExecuteUnbind(tasks[t].mode.mesh, ok)
  PROVE  /\ conf' \in [Roles -> [Dirs -> Gens]] /\ iface' \in [Roles -> Gens]
         /\ stuck' \subseteq Roles
         /\ conf'["landing"] = conf["landing"] /\ iface'["landing"] = iface["landing"]
         /\ stored' \in Gens /\ bound' \in Gens
         /\ bound' # bound => bound' = 0 \/ (t.kind = "bind" /\ bound' = t.link)
         /\ t.kind = "bind" /\ ok =>
              /\ bound' = t.link
              /\ Mesh(t.link) => RunsNext("transit", t.link)
         /\ t.kind = "unbind" /\ ok =>
              bound' = 0 /\ (tasks[t].mode.mesh => conf'["transit"]["default"] = 0)
         /\ t.kind = "unbind" /\ ~ ok => conf' = conf /\ (bound = 0 => bound' = 0)
         /\ \A q \in Roles : KeptAt(q) => KeptAt(q)'
<1>1. /\ conf \in [Roles -> [Dirs -> Gens]] /\ iface \in [Roles -> Gens]
      /\ stuck \subseteq Roles /\ "landing" \in Roles /\ "transit" \in Roles
      /\ stored \in Gens /\ bound \in Gens /\ 0 \in Gens
  BY DEF FlowTypeOK, Roles, Gens
<1>2. CASE t.kind = "bind" /\ ExecuteBind(t.link, ok)
  <2>1. t.link \in Links /\ t.link \in Gens
    BY <1>2, TaskForms DEF Gens
  <2>s. stuck' = stuck
    BY <1>2 DEF ExecuteBind
  <2>2. \/ Ensure("transit", t.link) /\ stored' = t.link /\ bound' = t.link
        \/ /\ ~ ok /\ Ensure("transit", t.link)
           /\ stored' \in {stored, t.link} /\ bound' = bound
        \/ ~ ok /\ conf' = conf /\ iface' = iface /\ stored' = stored /\ bound' = bound
        \/ ~ ok /\ MeshFails("transit", t.link) /\ stored' = stored /\ bound' = bound
    BY <1>2 DEF ExecuteBind
  <2>3. CASE Ensure("transit", t.link) /\ stored' = t.link /\ bound' = t.link
    BY <1>1, <1>2, <2>1, <2>s, <2>3, EnsureStep
  <2>4. CASE /\ ~ ok /\ Ensure("transit", t.link)
             /\ stored' \in {stored, t.link} /\ bound' = bound
    BY <1>1, <1>2, <2>1, <2>s, <2>4, EnsureStep
  <2>5. CASE ~ ok /\ conf' = conf /\ iface' = iface /\ stored' = stored /\ bound' = bound
    BY <1>1, <1>2, <2>s, <2>5 DEF KeptAt
  <2>6. CASE ~ ok /\ MeshFails("transit", t.link) /\ stored' = stored /\ bound' = bound
    BY <1>1, <1>2, <2>1, <2>s, <2>6, MeshFailsStep
  <2>7. QED
    BY <2>2, <2>3, <2>4, <2>5, <2>6
<1>3. CASE t.kind = "unbind" /\ ExecuteUnbind(tasks[t].mode.mesh, ok)
  <2>1. \/ /\ ok /\ stored' = 0 /\ bound' = 0
           /\ \/ TeardownMesh("transit")
              \/ ~ tasks[t].mode.mesh /\ UNCHANGED <<conf, iface, stuck>>
        \/ /\ ~ ok /\ UNCHANGED <<conf, iface, stuck>>
           /\ \/ stored' = stored /\ bound' = bound
              \/ bound' = 0 /\ stored' \in {stored, 0}
        \/ ~ ok /\ stored' = 0 /\ bound' = 0 /\ TeardownFails("transit")
    BY <1>3 DEF ExecuteUnbind
  <2>2. CASE ok /\ stored' = 0 /\ bound' = 0 /\ TeardownMesh("transit")
    BY <1>1, <1>3, <2>2, TeardownStep
  <2>3. CASE /\ ok /\ stored' = 0 /\ bound' = 0
             /\ ~ tasks[t].mode.mesh /\ UNCHANGED <<conf, iface, stuck>>
    BY <1>1, <1>3, <2>3 DEF KeptAt
  <2>4. CASE /\ ~ ok /\ UNCHANGED <<conf, iface, stuck>>
             /\ \/ stored' = stored /\ bound' = bound
                \/ bound' = 0 /\ stored' \in {stored, 0}
    BY <1>1, <1>3, <2>4 DEF KeptAt
  <2>5. CASE ~ ok /\ stored' = 0 /\ bound' = 0 /\ TeardownFails("transit")
    BY <1>1, <1>3, <2>5, TeardownFailsStep
  <2>6. QED
    BY <2>1, <2>2, <2>3, <2>4, <2>5
<1>4. QED
  BY <1>2, <1>3

\* Every execution is of a task of the landing or of one of the transit.
LEMMA ExecuteCases ==
  ASSUME FlowTypeOK, NEW r \in Roles, Execute(r)
  PROVE  \E ok \in BOOLEAN :
           /\ queue[r] # <<>> /\ result[r] = NoResult
           /\ result' = [result EXCEPT ![r] = [task |-> Head(queue[r]), ok |-> ok]]
           /\ queue' = [queue EXCEPT ![r] = Tail(@)]
           /\ faults' \in 0..MaxFaults
           /\ UNCHANGED <<linked, second, tasks, missed, registered, report, hub, removal>>
           /\ \/ /\ r = "landing"
                 /\ \/ Head(queue[r]).kind = "export"
                         /\ ExecuteExport(Head(queue[r]).link, ok)
                    \/ Head(queue[r]).kind = "teardown" /\ ExecuteTeardown(ok)
              \/ /\ r = "transit"
                 /\ \/ Head(queue[r]).kind = "bind"
                         /\ ExecuteBind(Head(queue[r]).link, ok)
                    \/ Head(queue[r]).kind = "unbind"
                         /\ ExecuteUnbind(tasks[Head(queue[r])].mode.mesh, ok)
<1>. DEFINE t == Head(queue[r])
<1>1. queue[r] # <<>> /\ queue[r] \in Seq(TaskIds)
  BY DEF Execute, FlowTypeOK
<1>2. t \in TaskIds /\ t = queue[r][1] /\ 1 \in DOMAIN queue[r]
  BY <1>1, TailOf
<1>3. Host(t) = r
  <2>1. \A i \in DOMAIN queue[r] : Host(queue[r][i]) = r
    BY BatchHosts
  <2>2. QED
    BY <1>2, <2>1
<1>4. PICK ok \in BOOLEAN :
        /\ FaultUnless(ok)
        /\ result' = [result EXCEPT ![r] = [task |-> t, ok |-> ok]]
        /\ CASE t.kind = "export"   -> ExecuteExport(t.link, ok)
             [] t.kind = "bind"     -> ExecuteBind(t.link, ok)
             [] t.kind = "unbind"   -> ExecuteUnbind(tasks[t].mode.mesh, ok)
             [] t.kind = "teardown" -> ExecuteTeardown(ok)
  BY DEF Execute
<1>5. faults' \in 0..MaxFaults
  BY <1>4, FaultStep DEF FaultUnless
<1>6. t.kind \in {"export", "bind", "unbind", "teardown"}
  BY <1>2, TaskForms
<1>7. \/ /\ r = "landing"
         /\ \/ t.kind = "export" /\ ExecuteExport(t.link, ok)
            \/ t.kind = "teardown" /\ ExecuteTeardown(ok)
      \/ /\ r = "transit"
         /\ \/ t.kind = "bind" /\ ExecuteBind(t.link, ok)
            \/ t.kind = "unbind" /\ ExecuteUnbind(tasks[t].mode.mesh, ok)
  <2>1. CASE t.kind = "export"
    BY <1>3, <1>4, <2>1 DEF Host
  <2>2. CASE t.kind = "bind"
    BY <1>3, <1>4, <2>2 DEF Host
  <2>3. CASE t.kind = "unbind"
    BY <1>3, <1>4, <2>3 DEF Host
  <2>4. CASE t.kind = "teardown"
    BY <1>3, <1>4, <2>4 DEF Host
  <2>5. QED
    BY <1>6, <2>1, <2>2, <2>3, <2>4
<1>8. /\ result[r] = NoResult /\ queue' = [queue EXCEPT ![r] = Tail(@)]
      /\ UNCHANGED <<linked, second, tasks, missed, registered, report, hub, removal>>
  BY DEF Execute
<1>9. QED
  BY <1>1, <1>4, <1>5, <1>7, <1>8

-------------------------------------------------------------------------------
(* Types *)

LEMMA FlowTypeInit == FlowInit => FlowTypeOK
<1> SUFFICES ASSUME FlowInit PROVE FlowTypeOK
  OBVIOUS
<1>1. NoTask \in Task
  BY FlowNumbers DEF NoTask, Task, Statuses, Modes
<1>2. tasks \in [TaskIds -> Task]
  BY <1>1 DEF FlowInit
<1>3. queue \in [Roles -> Seq(TaskIds)] /\ result \in [Roles -> Result \cup {NoResult}]
  BY DEF FlowInit
<1>4. \A r \in Roles : queue[r] = <<>> /\ result[r] = NoResult
  BY DEF FlowInit
<1>5. \A r \in Roles : /\ \A i \in DOMAIN queue[r] : Host(queue[r][i]) = r
                       /\ result[r] # NoResult => Host(result[r].task) = r
  BY <1>4, EmptyBatch
<1>6. 0 \in Gens
  BY DEF Gens
<1>7. registered \in [Roles -> BOOLEAN] /\ iface \in [Roles -> Gens]
  BY <1>6 DEF FlowInit
<1>8. conf \in [Roles -> [Dirs -> Gens]]
  BY <1>6 DEF FlowInit
<1>9. /\ {linked, report, stored, bound} \subseteq Gens /\ stuck \subseteq Roles
      /\ second \in Nat /\ faults \in 0..MaxFaults
  BY <1>6, FlowNumbers DEF FlowInit
<1>10. missed \in BOOLEAN /\ hub = HubIdle /\ removal = RemovalIdle
  BY DEF FlowInit
<1>11. QED
  BY <1>2, <1>3, <1>5, <1>7, <1>8, <1>9, <1>10 DEF FlowTypeOK

LEMMA CountedInit == FlowInit => Counted
BY DEF FlowInit, Counted, NoTask

\* An agent's results and batches are its own after a step that leaves the others'.
LEMMA FlowTypeNext ==
  FlowTypeOK /\ Counted /\ Answering /\ [FlowNext]_flow => FlowTypeOK'
<1> SUFFICES ASSUME FlowTypeOK, Counted, Answering, [FlowNext]_flow PROVE FlowTypeOK'
  OBVIOUS
<1>. USE FlowNumbers
<1>t. /\ {linked, report, stored, bound} \subseteq Gens
      /\ second \in Nat /\ faults \in 0..MaxFaults
      /\ missed \in BOOLEAN /\ stuck \subseteq Roles
      /\ tasks \in [TaskIds -> Task] /\ registered \in [Roles -> BOOLEAN]
      /\ queue \in [Roles -> Seq(TaskIds)] /\ result \in [Roles -> Result \cup {NoResult}]
      /\ conf \in [Roles -> [Dirs -> Gens]] /\ iface \in [Roles -> Gens]
  BY DEF FlowTypeOK
<1>h. hub \in {HubIdle} \cup [pc: {"write", "follow"}, task: TaskIds, ok: BOOLEAN]
  BY DEF FlowTypeOK
<1>r. removal \in {RemovalIdle} \cup [pc: {"save", "cancel"}, role: Roles]
  BY DEF FlowTypeOK
<1>b. \A r \in Roles : /\ \A i \in DOMAIN queue[r] : Host(queue[r][i]) = r
                       /\ result[r] # NoResult => Host(result[r].task) = r
  BY BatchHosts
<1>1. CASE Link
  <2>1. linked' \in Links /\ linked' \in Gens
    BY <1>1 DEF Link, Gens
  <2>2. PICK mode \in Modes : Create(Command("export", linked'), mode)
    BY <1>1 DEF Link
  <2>3. second' \in Nat /\ tasks' \in [TaskIds -> Task]
    BY <2>1, <2>2, CreateStep, TaskForms
  <2>4. UNCHANGED <<missed, registered, report, hub, removal, hosts>>
    BY <1>1 DEF Link
  <2>5. faults' \in 0..MaxFaults
    BY <1>1, FaultStep DEF Link, FaultUnless
  <2>6. QED
    BY <1>t, <1>h, <1>r, <1>b, <2>1, <2>3, <2>4, <2>5 DEF FlowTypeOK, hosts
<1>2. CASE SaveRegistry
  <2>1. removal \in [pc: {"save", "cancel"}, role: Roles]
    BY <1>2, <1>r DEF SaveRegistry, RemovalIdle
  <2>2. removal' \in [pc: {"save", "cancel"}, role: Roles]
    BY <1>2, <2>1 DEF SaveRegistry
  <2>3. registered' \in [Roles -> BOOLEAN] /\ report' \in Gens
    BY <1>2, <1>t, <2>1 DEF SaveRegistry, Gens
  <2>4. UNCHANGED <<linked, second, tasks, faults, missed, hub, hosts>>
    BY <1>2 DEF SaveRegistry
  <2>5. QED
    BY <1>t, <1>h, <1>b, <2>2, <2>3, <2>4 DEF FlowTypeOK, hosts
<1>3. CASE CancelTasks
  <2>1. tasks' \in [TaskIds -> Task]
    BY <1>3, CancelStep
  <2>2. removal' = RemovalIdle
        /\ UNCHANGED <<linked, second, faults, missed, registered, report, hub, hosts>>
    BY <1>3 DEF CancelTasks
  <2>3. QED
    BY <1>t, <1>h, <1>b, <2>1, <2>2 DEF FlowTypeOK, hosts
<1>4. CASE Heartbeat
  <2>1. report' \in Gens
    BY <1>4, <1>t DEF Heartbeat, Topology, Gens
  <2>2. UNCHANGED <<linked, second, tasks, faults, missed, registered, hub, removal,
                    hosts>>
    BY <1>4 DEF Heartbeat
  <2>3. QED
    BY <1>t, <1>h, <1>r, <1>b, <2>1, <2>2 DEF FlowTypeOK, hosts
<1>5. CASE Write
  <2>1. /\ hub # HubIdle /\ hub.task \in TaskIds
        /\ tasks' \in [TaskIds -> Task]
    BY <1>5, WriteStep
  <2>2. UNCHANGED <<linked, second, missed, registered, report, removal>>
    BY <1>5 DEF Write
  <2>f. faults' \in 0..MaxFaults
    BY <1>5, FaultStep DEF Write, FaultUnless
  <2>3. CASE hub' = [hub EXCEPT !.pc = "follow"] /\ UNCHANGED hosts
    <3>1. hub' \in [pc: {"write", "follow"}, task: TaskIds, ok: BOOLEAN]
      BY <1>h, <2>1, <2>3
    <3>2. QED
      BY <1>t, <1>r, <1>b, <2>1, <2>2, <2>f, <2>3, <3>1 DEF FlowTypeOK, hosts
  <2>4. CASE Answer
    <3>1. /\ hub' = HubIdle /\ UNCHANGED <<conf, iface, stuck, stored, bound>>
          /\ result' \in [Roles -> Result \cup {NoResult}]
          /\ \A q \in Roles : result'[q] \in {result[q], NoResult}
          /\ queue' \in [Roles -> Seq(TaskIds)]
          /\ \A q \in Roles : queue'[q] = queue[q] \/ queue'[q] = <<>>
      BY <2>1, <2>4, AnswerStep
    <3>2. \A q \in Roles : /\ \A i \in DOMAIN queue'[q] : Host(queue'[q][i]) = q
                           /\ result'[q] # NoResult => Host(result'[q].task) = q
      BY <1>b, <3>1, EmptyBatch
    <3>3. QED
      BY <1>t, <1>r, <2>1, <2>2, <2>f, <3>1, <3>2 DEF FlowTypeOK
  <2>5. QED
    BY <1>5, <2>3, <2>4 DEF Write
<1>a. ASSUME NEW q \in Roles,
             /\ result' = [result EXCEPT ![q] = NoResult]
             /\ queue' = queue \/ queue' = [queue EXCEPT ![q] = <<>>]
      PROVE  /\ result' \in [Roles -> Result \cup {NoResult}]
             /\ queue' \in [Roles -> Seq(TaskIds)]
             /\ \A p \in Roles : /\ \A i \in DOMAIN queue'[p] : Host(queue'[p][i]) = p
                                 /\ result'[p] # NoResult => Host(result'[p].task) = p
  <2>1. <<>> \in Seq(TaskIds)
    OBVIOUS
  <2>2. /\ result' \in [Roles -> Result \cup {NoResult}]
        /\ \A p \in Roles : result'[p] \in {result[p], NoResult}
    BY <1>t, <1>a
  <2>3. /\ queue' \in [Roles -> Seq(TaskIds)]
        /\ \A p \in Roles : queue'[p] = queue[p] \/ queue'[p] = <<>>
    BY <1>t, <1>a, <2>1
  <2>4. QED
    BY <1>b, <2>2, <2>3, EmptyBatch
<1>c. ASSUME hub # HubIdle, Answer
      PROVE  /\ hub' = HubIdle /\ UNCHANGED <<conf, iface, stuck, stored, bound>>
             /\ result' \in [Roles -> Result \cup {NoResult}]
             /\ queue' \in [Roles -> Seq(TaskIds)]
             /\ \A p \in Roles : /\ \A i \in DOMAIN queue'[p] : Host(queue'[p][i]) = p
                                 /\ result'[p] # NoResult => Host(result'[p].task) = p
  <2>1. hub.task \in TaskIds /\ Host(hub.task) \in Roles
    BY <1>h, <1>c, TaskForms
  <2>2. /\ hub' = HubIdle /\ UNCHANGED <<conf, iface, stuck, stored, bound>>
        /\ result' = [result EXCEPT ![Host(hub.task)] = NoResult]
        /\ queue' = queue \/ queue' = [queue EXCEPT ![Host(hub.task)] = <<>>]
    BY <1>c DEF Answer
  <2>3. QED
    BY <1>a, <2>1, <2>2
<1>6. CASE Follow
  <2>1. hub # HubIdle /\ hub.pc = "follow"
    BY <1>6 DEF Follow, HubIdle
  <2>2. hub.task \in TaskIds /\ hub.task.link \in Links
    BY <1>h, <2>1, TaskForms DEF Answering
  <2>3. second' \in Nat /\ tasks' \in [TaskIds -> Task]
    <3>1. tasks[hub.task].mode \in Modes
      BY <1>t, <2>2 DEF Task
    <3>2. Create(Command("bind", hub.task.link), tasks[hub.task].mode)
      BY <1>6 DEF Follow
    <3>3. QED
      BY <2>2, <3>1, <3>2, CreateStep, TaskForms
  <2>4. UNCHANGED <<linked, registered, report, removal>> /\ missed' = FALSE /\ Answer
    BY <1>6 DEF Follow
  <2>5. faults' \in 0..MaxFaults
    BY <1>6, FaultStep DEF Follow, FaultUnless
  <2>6. /\ hub' = HubIdle /\ UNCHANGED <<conf, iface, stuck, stored, bound>>
        /\ result' \in [Roles -> Result \cup {NoResult}]
        /\ queue' \in [Roles -> Seq(TaskIds)]
        /\ \A p \in Roles : /\ \A i \in DOMAIN queue'[p] : Host(queue'[p][i]) = p
                            /\ result'[p] # NoResult => Host(result'[p].task) = p
    BY <1>c, <2>1, <2>4
  <2>7. {linked, report, stored, bound}' \subseteq Gens /\ missed' \in BOOLEAN
    BY <1>t, <2>4, <2>6
  <2>8. registered' \in [Roles -> BOOLEAN] /\ removal' = removal
    BY <1>t, <2>4
  <2>9. conf' \in [Roles -> [Dirs -> Gens]] /\ iface' \in [Roles -> Gens] /\ stuck' \subseteq Roles
    BY <1>t, <2>6
  <2>10. QED
    BY <1>r, <2>3, <2>5, <2>6, <2>7, <2>8, <2>9 DEF FlowTypeOK
<1>15. CASE FollowFails
  <2>1. hub # HubIdle
    BY <1>15 DEF FollowFails, HubIdle
  <2>2. /\ UNCHANGED <<linked, second, tasks, registered, report, removal>>
        /\ missed' = TRUE /\ Answer
    BY <1>15 DEF FollowFails
  <2>3. faults' \in 0..MaxFaults
    BY <1>15, FaultStep DEF FollowFails, FaultUnless
  <2>4. QED
    BY <1>t, <1>r, <1>c, <2>1, <2>2, <2>3 DEF FlowTypeOK
<1>16. CASE HubDies
  <2>1. hub # HubIdle /\ Host(hub.task) \in Roles
    BY <1>16, <1>h, TaskForms DEF HubDies
  <2>2. /\ UNCHANGED <<linked, second, tasks, registered, report, removal,
                       conf, iface, stuck, stored, bound>>
        /\ hub' = HubIdle /\ missed' \in BOOLEAN
        /\ result' = [result EXCEPT ![Host(hub.task)] = NoResult]
        /\ queue' = [queue EXCEPT ![Host(hub.task)] = <<>>]
    BY <1>16 DEF HubDies
  <2>3. faults' \in 0..MaxFaults
    BY <1>16, FaultStep DEF HubDies
  <2>4. QED
    BY <1>t, <1>r, <1>a, <2>1, <2>2, <2>3 DEF FlowTypeOK
<1>7. ASSUME NEW r \in Roles, RemoveAgent(r) PROVE FlowTypeOK'
  <2>1. removal' \in [pc: {"save", "cancel"}, role: Roles]
    BY <1>7 DEF RemoveAgent
  <2>2. UNCHANGED <<linked, missed, registered, report, hub, hosts>>
    BY <1>7 DEF RemoveAgent
  <2>f. faults' \in 0..MaxFaults
    BY <1>7, FaultStep DEF RemoveAgent, FaultUnless, NoFault
  <2>3. second' \in Nat /\ tasks' \in [TaskIds -> Task]
    <3>1. CASE CleanedUp(r)
      <4>1. report \in Links
        BY <1>t, <3>1 DEF CleanedUp, Gens
      <4>2. Mode(report) \in Modes
        BY <1>t, <4>1, TaskForms DEF Mode, Task
      <4>3. Cleanup(r) \in TaskIds
        BY TaskForms DEF Cleanup
      <4>4. Create(Cleanup(r), Mode(report))
        BY <1>7, <3>1 DEF RemoveAgent
      <4>5. QED
        BY <4>2, <4>3, <4>4, CreateStep
    <3>2. CASE ~ CleanedUp(r)
      BY <1>7, <1>t, <3>2 DEF RemoveAgent
    <3>3. QED
      BY <3>1, <3>2
  <2>4. QED
    BY <1>t, <1>h, <1>b, <2>1, <2>2, <2>f, <2>3 DEF FlowTypeOK, hosts
<1>8. ASSUME NEW r \in Roles, Lease(r) PROVE FlowTypeOK'
  <2>1. /\ tasks' \in [TaskIds -> Task] /\ queue' \in [Roles -> Seq(TaskIds)]
        /\ \A q \in Roles : q # r => queue'[q] = queue[q]
        /\ \A i \in DOMAIN queue'[r] : Host(queue'[r][i]) = r
    BY <1>8, LeaseStep
  <2>2. UNCHANGED <<linked, second, missed, registered, report, hub, removal, result,
                    conf, iface, stuck, stored, bound>>
    BY <1>8 DEF Lease
  <2>f. faults' \in 0..MaxFaults
    BY <1>8, FaultStep DEF Lease
  <2>3. \A q \in Roles : /\ \A i \in DOMAIN queue'[q] : Host(queue'[q][i]) = q
                         /\ result'[q] # NoResult => Host(result'[q].task) = q
    BY <1>b, <2>1, <2>2
  <2>4. QED
    BY <1>t, <1>h, <1>r, <2>1, <2>2, <2>f, <2>3 DEF FlowTypeOK
<1>9. ASSUME NEW r \in Roles, Post(r) PROVE FlowTypeOK'
  <2>1. result[r] \in Result
    BY <1>9, <1>t DEF Post
  <2>2. hub' \in [pc: {"write", "follow"}, task: TaskIds, ok: BOOLEAN]
    BY <1>9, <2>1 DEF Post, Result
  <2>3. UNCHANGED <<linked, second, tasks, faults, missed, registered, report, removal,
                    hosts>>
    BY <1>9 DEF Post
  <2>4. QED
    BY <1>t, <1>r, <1>b, <2>2, <2>3 DEF FlowTypeOK, hosts
<1>10. ASSUME NEW r \in Roles, Execute(r) PROVE FlowTypeOK'
  <2>1. PICK ok \in BOOLEAN :
          /\ queue[r] # <<>> /\ result[r] = NoResult
          /\ result' = [result EXCEPT ![r] = [task |-> Head(queue[r]), ok |-> ok]]
          /\ queue' = [queue EXCEPT ![r] = Tail(@)]
          /\ faults' \in 0..MaxFaults
          /\ UNCHANGED <<linked, second, tasks, missed, registered, report, hub, removal>>
          /\ \/ /\ r = "landing"
                /\ \/ Head(queue[r]).kind = "export"
                        /\ ExecuteExport(Head(queue[r]).link, ok)
                   \/ Head(queue[r]).kind = "teardown" /\ ExecuteTeardown(ok)
             \/ /\ r = "transit"
                /\ \/ Head(queue[r]).kind = "bind"
                        /\ ExecuteBind(Head(queue[r]).link, ok)
                   \/ Head(queue[r]).kind = "unbind"
                        /\ ExecuteUnbind(tasks[Head(queue[r])].mode.mesh, ok)
    BY <1>10, ExecuteCases
  <2>2. /\ Head(queue[r]) \in TaskIds /\ Host(Head(queue[r])) = r
        /\ result' \in [Roles -> Result \cup {NoResult}]
        /\ result'[r].task = Head(queue[r])
        /\ \A q \in Roles : q # r => result'[q] = result[q]
        /\ queue' \in [Roles -> Seq(TaskIds)]
        /\ \A q \in Roles : q # r => queue'[q] = queue[q]
        /\ \A i \in DOMAIN queue'[r] :
             i + 1 \in DOMAIN queue[r] /\ queue'[r][i] = queue[r][i + 1]
    BY <2>1, ExecuteStep
  <2>3. \A q \in Roles : /\ \A i \in DOMAIN queue'[q] : Host(queue'[q][i]) = q
                         /\ result'[q] # NoResult => Host(result'[q].task) = q
    <3>1. /\ \A i \in DOMAIN queue'[r] : Host(queue'[r][i]) = r
          /\ result'[r] # NoResult => Host(result'[r].task) = r
      BY <1>b, <2>2
    <3>2. QED
      BY <1>b, <2>2, <3>1
  <2>4. /\ conf' \in [Roles -> [Dirs -> Gens]] /\ iface' \in [Roles -> Gens]
        /\ stuck' \subseteq Roles /\ stored' \in Gens /\ bound' \in Gens
    <3>1. CASE r = "landing"
      BY <1>t, <2>1, <2>2, <3>1, LandingStep
    <3>2. CASE r = "transit"
      BY <1>t, <2>1, <2>2, <3>2, TransitStep
    <3>3. QED
      BY <3>1, <3>2, RolesAre
  <2>5. QED
    BY <1>t, <1>h, <1>r, <2>1, <2>2, <2>3, <2>4 DEF FlowTypeOK
<1>11. ASSUME NEW r \in Roles, PostFails(r) PROVE FlowTypeOK'
  <2>1. /\ UNCHANGED <<linked, second, tasks, missed, registered, report, hub, removal,
                       conf, iface, stuck, stored, bound>>
        /\ result' = [result EXCEPT ![r] = NoResult]
        /\ queue' = [queue EXCEPT ![r] = <<>>]
    BY <1>11 DEF PostFails
  <2>2. faults' \in 0..MaxFaults
    BY <1>11, FaultStep DEF PostFails, FaultUnless
  <2>3. QED
    BY <1>t, <1>h, <1>r, <1>a, <2>1, <2>2 DEF FlowTypeOK
<1>12. ASSUME NEW t \in TaskIds, Recover(t) PROVE FlowTypeOK'
  <2>1. tasks' \in [TaskIds -> Task]
    BY <1>12, RecoverStep
  <2>2. UNCHANGED <<linked, second, missed, registered, report, hub, removal, hosts>>
    BY <1>12 DEF Recover
  <2>3. faults' \in 0..MaxFaults
    BY <1>12, FaultStep DEF Recover, FaultUnless
  <2>4. QED
    BY <1>t, <1>h, <1>r, <1>b, <2>1, <2>2, <2>3 DEF FlowTypeOK, hosts
<1>13. CASE UNCHANGED flow
  BY <1>t, <1>h, <1>r, <1>b, <1>13 DEF FlowTypeOK, flow, server, hosts
<1>14. QED
  BY <1>1, <1>2, <1>3, <1>4, <1>5, <1>6, <1>7, <1>8, <1>9, <1>10, <1>11, <1>12, <1>13,
     <1>15, <1>16
     DEF FlowNext

-------------------------------------------------------------------------------
(* The kinds of steps *)

\* Batches and results are kept or dropped, and the hosts are left alone.  The
\* result that a bind follows from is dropped when it did.
Shrinks ==
  /\ \A q \in Roles : /\ queue'[q] = queue[q] \/ queue'[q] = <<>>
                      /\ result'[q] = result[q] \/ result'[q] = NoResult
  /\ conf' = conf /\ iface' = iface /\ stuck' = stuck /\ bound' = bound
  /\ hub.pc = "follow" => hub' = hub \/ result'[Host(hub.task)] = NoResult

\* A task is created: an export by the next link command, a bind by the result
\* of its export, and a cleanup task by a removal.
Creates(x) ==
  /\ \E mode \in Modes : Create(x, mode)
  /\ linked' = IF x.kind = "export" THEN linked + 1 ELSE linked
  /\ x.kind = "export" => x.link = linked'
  /\ x.kind = "bind" => hub.pc = "follow" /\ hub.task.link = x.link
  /\ x.kind # "bind" => hub' = hub /\ missed' = missed

\* Tasks are neither created nor leased; one is done when its result said so, and
\* a follow-up that ends has been missed.
Proceeds ==
  /\ linked' = linked /\ second' = second
  /\ \A t \in TaskIds :
       /\ tasks'[t].leases = tasks[t].leases
       /\ tasks'[t].at = tasks[t].at /\ tasks'[t].mode = tasks[t].mode
       /\ tasks'[t].status = "none" <=> tasks[t].status = "none"
       /\ tasks'[t].status = "queued" =>
            \/ tasks[t].status = "queued"
            \/ tasks[t].status = "running" /\ tasks[t].leases < MaxLeases
       /\ tasks'[t].status = "running" => tasks[t].status = "running"
       /\ tasks'[t].status = "done" /\ tasks[t].status # "done" =>
            /\ hub # HubIdle /\ hub.task = t /\ hub.ok
            /\ IF t.kind = "export" THEN hub'.pc = "follow" /\ hub'.task = t
                                    ELSE result'[Host(t)] = NoResult
  /\ missed \/ (hub.pc = "follow" /\ hub'.pc # "follow") => missed'

\* A task the Hub is at has a result, and was created.
LEMMA AtHub ==
  ASSUME FlowTypeOK, Answering, Posting, hub # HubIdle
  PROVE  /\ hub.task \in TaskIds /\ hub.ok \in BOOLEAN /\ hub.pc \in {"write", "follow"}
         /\ result[Host(hub.task)] # NoResult
         /\ result[Host(hub.task)].task = hub.task
         /\ result[Host(hub.task)].ok = hub.ok
         /\ result[Host(hub.task)] = [task |-> hub.task, ok |-> hub.ok]
         /\ tasks[hub.task].status # "none"
<1>1. /\ hub.task \in TaskIds /\ hub.ok \in BOOLEAN /\ hub.pc \in {"write", "follow"}
  BY DEF FlowTypeOK
<1>2. result[Host(hub.task)] = [task |-> hub.task, ok |-> hub.ok]
  BY DEF Answering
<1>3. /\ result[Host(hub.task)].task = hub.task /\ result[Host(hub.task)].ok = hub.ok
  BY <1>2
<1>4. NoResult.task \notin TaskIds
  BY TaskForms DEF NoResult
<1>5. result[Host(hub.task)] # NoResult
  BY <1>1, <1>3, <1>4
<1>6. Host(hub.task) \in Roles
  BY <1>1, TaskForms
<1>7. tasks[hub.task].status # "none"
  BY <1>3, <1>5, <1>6 DEF Posting
<1>8. QED
  BY <1>1, <1>2, <1>3, <1>5, <1>7

LEMMA Kinds ==
  ASSUME FlowTypeOK, Answering, Posting, [FlowNext]_flow
  PROVE  \/ \E x \in TaskIds : Creates(x) /\ Shrinks
         \/ Proceeds /\ Shrinks
         \/ \E r \in Roles : Lease(r)
         \/ \E r \in Roles : Execute(r)
<1>t. /\ tasks \in [TaskIds -> Task] /\ queue \in [Roles -> Seq(TaskIds)]
      /\ result \in [Roles -> Result \cup {NoResult}]
  BY DEF FlowTypeOK
<1>s. UNCHANGED <<linked, second, tasks, hub, missed>> => Proceeds
  BY DEF Proceeds
<1>h. UNCHANGED hosts /\ (hub' = hub \/ hub.pc # "follow") => Shrinks
  BY DEF Shrinks, hosts
<1>1. CASE Link
  <2>1. linked' \in Links /\ linked' = linked + 1
    BY <1>1 DEF Link
  <2>2. \E mode \in Modes : Create(Command("export", linked'), mode)
    BY <1>1 DEF Link
  <2>3. UNCHANGED <<hub, missed, hosts>>
    BY <1>1 DEF Link
  <2>4. Creates(Command("export", linked'))
    BY <2>1, <2>2, <2>3, TaskForms DEF Creates
  <2>5. QED
    BY <1>h, <2>1, <2>3, <2>4, TaskForms
<1>2. CASE SaveRegistry
  BY <1>2, <1>s, <1>h DEF SaveRegistry
<1>3. CASE CancelTasks
  <2>1. \A t \in TaskIds :
          /\ \/ tasks'[t] = tasks[t]
             \/ /\ tasks[t].status \in {"queued", "running"}
                /\ tasks'[t].status = "cancelled"
          /\ tasks'[t].leases = tasks[t].leases
          /\ tasks'[t].at = tasks[t].at /\ tasks'[t].mode = tasks[t].mode
    BY <1>3, CancelStep
  <2>2. UNCHANGED <<linked, second, hub, missed, hosts>>
    BY <1>3 DEF CancelTasks
  <2>3. Proceeds
    BY <2>1, <2>2 DEF Proceeds
  <2>4. QED
    BY <1>h, <2>2, <2>3
<1>4. CASE Heartbeat
  BY <1>4, <1>s, <1>h DEF Heartbeat
<1>5. CASE Write
  <2>1. /\ hub # HubIdle /\ hub.pc = "write"
        /\ hub.task \in TaskIds /\ hub.ok \in BOOLEAN
        /\ tasks'[hub.task].status = IF hub.ok THEN "done" ELSE "failed"
        /\ tasks'[hub.task].leases = tasks[hub.task].leases
        /\ tasks'[hub.task].at = tasks[hub.task].at
        /\ tasks'[hub.task].mode = tasks[hub.task].mode
        /\ \A t \in TaskIds : t # hub.task => tasks'[t] = tasks[t]
    BY <1>5, WriteStep
  <2>2. tasks[hub.task].status # "none"
    BY <2>1, AtHub
  <2>3. UNCHANGED <<linked, second, missed>>
    BY <1>5 DEF Write
  <2>4. IF hub.task.kind = "export" /\ hub.ok
        THEN hub'.pc = "follow" /\ hub'.task = hub.task
        ELSE result'[Host(hub.task)] = NoResult
    <3>1. hub.task.kind = "export" /\ hub.ok => hub' = [hub EXCEPT !.pc = "follow"]
      BY <1>5 DEF Write
    <3>2. hub \in [pc: {"write", "follow"}, task: TaskIds, ok: BOOLEAN]
      BY <2>1 DEF FlowTypeOK
    <3>3. ~ (hub.task.kind = "export" /\ hub.ok) => Answer
      BY <1>5 DEF Write
    <3>4. QED
      BY <2>1, <3>1, <3>2, <3>3, AnswerStep
  <2>5. Proceeds
    BY <2>1, <2>2, <2>3, <2>4 DEF Proceeds
  <2>6. Shrinks
    <3>1. CASE UNCHANGED hosts
      BY <1>h, <2>1, <3>1
    <3>2. CASE Answer
      BY <2>1, <3>2, AnswerStep DEF Shrinks
    <3>3. QED
      BY <1>5, <3>1, <3>2 DEF Write
  <2>7. QED
    BY <2>5, <2>6
<1>6. CASE Follow
  <2>1. hub # HubIdle /\ hub.pc = "follow"
    BY <1>6 DEF Follow, HubIdle
  <2>2. hub.task \in TaskIds /\ hub.task.kind = "export"
    BY <2>1, AtHub DEF Answering
  <2>3. Answer /\ linked' = linked
    BY <1>6 DEF Follow
  <2>4. Shrinks
    BY <2>2, <2>3, AnswerStep DEF Shrinks
  <2>5. hub.task.link \in Links
    BY <2>2, TaskForms
  <2>6. tasks[hub.task].mode \in Modes
    BY <1>t, <2>2 DEF Task
  <2>7. Create(Command("bind", hub.task.link), tasks[hub.task].mode)
    BY <1>6 DEF Follow
  <2>8. Creates(Command("bind", hub.task.link))
    BY <2>1, <2>3, <2>6, <2>7, TaskForms DEF Creates
  <2>9. QED
    BY <2>4, <2>5, <2>8, TaskForms
<1>15. CASE FollowFails
  <2>1. hub # HubIdle /\ hub.task \in TaskIds
    BY <1>15, AtHub DEF FollowFails, HubIdle
  <2>2. Answer /\ UNCHANGED <<linked, second, tasks>> /\ missed' = TRUE
    BY <1>15 DEF FollowFails
  <2>3. Shrinks
    BY <2>1, <2>2, AnswerStep DEF Shrinks
  <2>4. Proceeds
    BY <2>2 DEF Proceeds
  <2>5. QED
    BY <2>3, <2>4
<1>16. CASE HubDies
  <2>1. hub # HubIdle /\ hub.task \in TaskIds /\ Host(hub.task) \in Roles
    BY <1>16, AtHub, TaskForms DEF HubDies
  <2>2. /\ UNCHANGED <<linked, second, tasks, conf, iface, stuck, bound>>
        /\ missed' = (missed \/ hub.pc = "follow")
        /\ result' = [result EXCEPT ![Host(hub.task)] = NoResult]
        /\ queue' = [queue EXCEPT ![Host(hub.task)] = <<>>]
    BY <1>16 DEF HubDies
  <2>3. Shrinks
    BY <1>t, <2>1, <2>2 DEF Shrinks
  <2>4. Proceeds
    BY <2>2 DEF Proceeds
  <2>5. QED
    BY <2>3, <2>4
<1>7. ASSUME NEW r \in Roles, RemoveAgent(r)
      PROVE  \/ \E x \in TaskIds : Creates(x) /\ Shrinks
             \/ Proceeds /\ Shrinks
  <2>1. UNCHANGED <<linked, hub, missed, hosts>>
    BY <1>7 DEF RemoveAgent
  <2>2. CASE CleanedUp(r)
    <3>1. report \in Links
      BY <2>2 DEF CleanedUp, Gens, FlowTypeOK
    <3>2. Mode(report) \in Modes
      BY <1>t, <3>1, TaskForms DEF Mode, Task
    <3>3. Create(Cleanup(r), Mode(report))
      BY <1>7, <2>2 DEF RemoveAgent
    <3>4. Cleanup(r) \in TaskIds /\ Cleanup(r).kind \in {"unbind", "teardown"}
      BY TaskForms DEF Cleanup
    <3>5. Creates(Cleanup(r))
      BY <2>1, <3>2, <3>3, <3>4 DEF Creates
    <3>6. QED
      BY <1>h, <2>1, <3>4, <3>5
  <2>3. CASE ~ CleanedUp(r)
    <3>1. UNCHANGED <<second, tasks>>
      BY <1>7, <2>3 DEF RemoveAgent
    <3>2. QED
      BY <1>s, <1>h, <2>1, <3>1
  <2>4. QED
    BY <2>2, <2>3
<1>9. ASSUME NEW r \in Roles, Post(r) PROVE Proceeds /\ Shrinks
  <2>1. UNCHANGED <<linked, second, tasks, missed, hosts>> /\ hub = HubIdle
    BY <1>9 DEF Post
  <2>2. hub.pc # "follow"
    BY <2>1 DEF HubIdle
  <2>3. QED
    BY <1>h, <2>1, <2>2 DEF Proceeds
<1>11. ASSUME NEW r \in Roles, PostFails(r) PROVE Proceeds /\ Shrinks
  <2>1. /\ UNCHANGED <<linked, second, tasks, hub, missed, conf, iface, stuck, bound>>
        /\ result' = [result EXCEPT ![r] = NoResult]
        /\ queue' = [queue EXCEPT ![r] = <<>>]
    BY <1>11 DEF PostFails
  <2>2. QED
    BY <1>t, <1>s, <2>1 DEF Shrinks
<1>12. ASSUME NEW x \in TaskIds, Recover(x) PROVE Proceeds /\ Shrinks
  <2>1. /\ tasks[x].status = "running"
        /\ \/ tasks'[x].status = "failed"
           \/ tasks'[x].status = "queued" /\ tasks[x].leases < MaxLeases
        /\ tasks'[x].leases = tasks[x].leases
        /\ tasks'[x].at = tasks[x].at /\ tasks'[x].mode = tasks[x].mode
        /\ \A t \in TaskIds : t # x => tasks'[t] = tasks[t]
    BY <1>12, RecoverStep
  <2>2. UNCHANGED <<linked, second, hub, missed, hosts>>
    BY <1>12 DEF Recover
  <2>3. Proceeds
    BY <2>1, <2>2 DEF Proceeds
  <2>4. QED
    BY <1>h, <2>2, <2>3
<1>13. CASE UNCHANGED flow
  BY <1>13, <1>s, <1>h DEF flow, server
<1>14. QED
  BY <1>1, <1>2, <1>3, <1>4, <1>5, <1>6, <1>7, <1>9, <1>11, <1>12, <1>13, <1>15, <1>16
     DEF FlowNext

\* What is created is new, and the rest is as it was.
LEMMA CreatesStep ==
  ASSUME FlowTypeOK, NEW x \in TaskIds, Creates(x)
  PROVE  /\ second' \in Nat /\ second <= second'
         /\ tasks'[x].status = "queued" /\ tasks'[x].at = second'
         /\ tasks'[x].leases = 0
         /\ \A t \in TaskIds : t # x => tasks'[t] = tasks[t]
<1>1. PICK mode \in Modes : Create(x, mode)
  BY DEF Creates
<1>2. QED
  BY <1>1, CreateStep

\* No task has succeeded by such a step that had not before.
LEMMA NoneSucceeds ==
  ASSUME FlowTypeOK, Answering, Posting, Shrinks,
         Proceeds \/ \E x \in TaskIds : Creates(x),
         NEW t \in TaskIds, Succeeded(t)'
  PROVE  Succeeded(t)
<1>1. [task |-> t, ok |-> TRUE] # NoResult
  BY DEF NoResult
<1>2. Host(t) \in Roles
  BY TaskForms
<1>3. result'[Host(t)] = [task |-> t, ok |-> TRUE] => result[Host(t)] = [task |-> t, ok |-> TRUE]
  BY <1>1, <1>2 DEF Shrinks
<1>4. CASE Proceeds
  <2>1. tasks'[t].status = "done" /\ tasks[t].status # "done" =>
          hub # HubIdle /\ hub.task = t /\ hub.ok
    BY <1>4 DEF Proceeds
  <2>2. hub # HubIdle /\ hub.task = t /\ hub.ok
          => result[Host(t)] = [task |-> t, ok |-> TRUE]
    BY AtHub
  <2>3. QED
    BY <1>3, <2>1, <2>2 DEF Succeeded
<1>5. ASSUME NEW x \in TaskIds, Creates(x) PROVE Succeeded(t)
  <2>1. tasks'[t].status = "done" => tasks[t].status = "done"
    BY <1>5, CreatesStep
  <2>2. QED
    BY <1>3, <2>1 DEF Succeeded
<1>6. QED
  BY <1>4, <1>5

\* The fields of a task are numbers.
LEMMA TaskFields ==
  ASSUME FlowTypeOK, NEW t \in TaskIds
  PROVE  /\ tasks[t].at \in Nat /\ tasks[t].leases \in Nat /\ tasks[t].mode \in Modes
         /\ second \in Nat
<1>1. tasks[t] \in Task
  BY DEF FlowTypeOK
<1>2. QED
  BY <1>1, FlowNumbers DEF Task, FlowTypeOK

\* A task that has succeeded is not leased again, and what is leased for the
\* first time is no older.
LEMMA LeaseKeeps ==
  ASSUME FlowTypeOK, Counted, InTurn, NEW r \in Roles, Lease(r),
         NEW t \in TaskIds, Succeeded(t)'
  PROVE  /\ Succeeded(t) /\ tasks'[t] = tasks[t]
         /\ \A u \in TaskIds :
              Host(u) = Host(t) /\ tasks[t].leases >= 1
              /\ tasks'[u].leases = 1 /\ tasks'[u].at < tasks'[t].at
              => tasks'[u] = tasks[u]
<1>l. /\ result[r] = NoResult
      /\ \A u \in TaskIds :
           IF Host(u) = r /\ tasks[u].status = "queued"
           THEN /\ tasks'[u].status = "running"
                /\ tasks'[u].leases = tasks[u].leases + 1
                /\ tasks'[u].at = tasks[u].at /\ tasks'[u].mode = tasks[u].mode
           ELSE tasks'[u] = tasks[u]
  BY LeaseStep
<1>r. result' = result
  BY DEF Lease
<1>1. tasks'[t] = tasks[t]
  <2>1. [task |-> t, ok |-> TRUE] # NoResult
    BY DEF NoResult
  <2>2. CASE Host(t) = r
    <3>1. tasks'[t].status = "done"
      BY <1>l, <1>r, <2>1, <2>2 DEF Succeeded
    <3>2. QED
      BY <1>l, <3>1
  <2>3. CASE Host(t) # r
    BY <1>l, <2>3
  <2>4. QED
    BY <2>2, <2>3
<1>2. Succeeded(t)
  BY <1>1, <1>r DEF Succeeded
<1>3. ASSUME NEW u \in TaskIds, Host(u) = Host(t), tasks[t].leases >= 1,
             tasks'[u].leases = 1, tasks'[u].at < tasks'[t].at, tasks'[u] # tasks[u]
      PROVE  FALSE
  <2>1. /\ Host(u) = r /\ tasks[u].status = "queued"
        /\ tasks'[u].leases = tasks[u].leases + 1 /\ tasks'[u].at = tasks[u].at
    BY <1>l, <1>3
  <2>2. /\ tasks[u].leases \in Nat /\ tasks[u].at \in Nat /\ tasks[t].at \in Nat
    BY TaskFields
  <2>3. Fresh(u)
    BY <1>3, <2>1, <2>2 DEF Fresh
  <2>4. tasks[t].at <= tasks[u].at
    BY <1>3, <2>3 DEF InTurn
  <2>5. QED
    BY <1>1, <1>3, <2>1, <2>2, <2>4
<1>4. QED
  BY <1>1, <1>2, <1>3

\* Of the tasks that were leased once, those that a batch still holds were
\* created after those that have succeeded.
LEMMA ExecuteKeeps ==
  ASSUME FlowTypeOK, Batched, NoneBehind, NEW r \in Roles, Execute(r),
         NEW t \in TaskIds, Host(t) = r, tasks[t].leases >= 1, Succeeded(t)'
  PROVE  /\ queue[r] # <<>> /\ Head(queue[r]) \in TaskIds
         /\ \/ t = Head(queue[r]) /\ result'[r] = [task |-> t, ok |-> TRUE]
            \/ Succeeded(t) /\ t # Head(queue[r])
         /\ tasks[Head(queue[r])].leases = 1 /\ t # Head(queue[r])
            => ~ (tasks[Head(queue[r])].at < tasks[t].at)
<1>. DEFINE h == Head(queue[r])
<1>1. PICK ok \in BOOLEAN :
        /\ queue[r] # <<>> /\ result[r] = NoResult
        /\ result' = [result EXCEPT ![r] = [task |-> h, ok |-> ok]]
        /\ queue' = [queue EXCEPT ![r] = Tail(@)]
        /\ tasks' = tasks
  BY ExecuteCases
<1>2. /\ h \in TaskIds /\ Host(h) = r /\ h = queue[r][1] /\ 1 \in DOMAIN queue[r]
      /\ result'[r] = [task |-> h, ok |-> ok] /\ result'[r].task = h
  BY <1>1, ExecuteStep
<1>3. tasks[h].status # "done"
  BY <1>2 DEF Batched
<1>4. CASE t = h
  <2>1. result'[r] = [task |-> t, ok |-> TRUE]
    BY <1>1, <1>3, <1>4 DEF Succeeded
  <2>2. QED
    BY <1>1, <1>2, <1>4, <2>1
<1>5. CASE t # h
  <2>1. tasks[t].status = "done"
    BY <1>1, <1>2, <1>5 DEF Succeeded
  <2>2. Succeeded(t)
    BY <2>1 DEF Succeeded
  <2>3. tasks[h].leases = 1 => ~ (tasks[h].at < tasks[t].at)
    BY <1>2, <2>2 DEF NoneBehind
  <2>4. QED
    BY <1>1, <1>2, <1>5, <2>2, <2>3
<1>6. QED
  BY <1>4, <1>5

-------------------------------------------------------------------------------
(* The ages of tasks and their leases *)

LEMMA AgesInit == FlowInit => Aged /\ Counted /\ InTurn /\ Given
BY DEF FlowInit, Aged, Counted, InTurn, Given, Fresh, NoTask, Command, TaskIds

LEMMA AgedNext ==
  FlowTypeOK /\ Counted /\ Answering /\ Posting /\ Aged /\ [FlowNext]_flow => Aged'
<1> SUFFICES ASSUME FlowTypeOK, Counted, Answering, Posting, Aged, [FlowNext]_flow,
                    NEW t \in TaskIds
             PROVE  tasks'[t].at <= second'
  BY DEF Aged
<1>a. tasks[t].at \in Nat /\ second \in Nat /\ tasks[t].at <= second
  BY TaskFields DEF Aged
<1>1. ASSUME NEW x \in TaskIds, Creates(x) PROVE tasks'[t].at <= second'
  BY <1>a, <1>1, CreatesStep
<1>2. CASE Proceeds
  BY <1>a, <1>2 DEF Proceeds
<1>3. ASSUME NEW r \in Roles, Lease(r) PROVE tasks'[t].at <= second'
  <2>1. tasks'[t].at = tasks[t].at
    BY <1>3, LeaseStep
  <2>2. second' = second
    BY <1>3 DEF Lease
  <2>3. QED
    BY <1>a, <2>1, <2>2
<1>4. ASSUME NEW r \in Roles, Execute(r) PROVE tasks'[t].at <= second'
  BY <1>a, <1>4 DEF Execute
<1>5. QED
  BY <1>1, <1>2, <1>3, <1>4, Kinds

LEMMA CountedNext ==
  FlowTypeOK /\ Counted /\ Answering /\ Posting /\ [FlowNext]_flow => Counted'
<1> SUFFICES ASSUME FlowTypeOK, Counted, Answering, Posting, [FlowNext]_flow,
                    NEW t \in TaskIds
             PROVE  /\ tasks'[t].status = "running" => tasks'[t].leases >= 1
                    /\ tasks'[t].status = "queued" => tasks'[t].leases < MaxLeases
  BY DEF Counted
<1>. DEFINE goal == /\ tasks'[t].status = "running" => tasks'[t].leases >= 1
                    /\ tasks'[t].status = "queued" => tasks'[t].leases < MaxLeases
<1>a. /\ tasks[t].leases \in Nat
      /\ tasks[t].status = "running" => tasks[t].leases >= 1
      /\ tasks[t].status = "queued" => tasks[t].leases < MaxLeases
  BY TaskFields DEF Counted
<1>1. ASSUME NEW x \in TaskIds, Creates(x) PROVE goal
  BY <1>a, <1>1, CreatesStep, FlowNumbers
<1>2. CASE Proceeds
  BY <1>a, <1>2 DEF Proceeds
<1>3. ASSUME NEW r \in Roles, Lease(r) PROVE goal
  BY <1>a, <1>3, LeaseStep
<1>4. ASSUME NEW r \in Roles, Execute(r) PROVE goal
  BY <1>a, <1>4 DEF Execute
<1>5. QED
  BY <1>1, <1>2, <1>3, <1>4, Kinds

LEMMA InTurnNext ==
  /\ FlowTypeOK /\ Counted /\ Answering /\ Posting /\ Aged /\ InTurn
  /\ [FlowNext]_flow
  => InTurn'
<1> SUFFICES ASSUME FlowTypeOK, Counted, Answering, Posting, Aged, InTurn,
                    [FlowNext]_flow,
                    NEW t \in TaskIds, NEW u \in TaskIds, Host(t) = Host(u),
                    tasks'[t].leases >= 1,
                    tasks'[u].status = "queued", tasks'[u].leases = 0
             PROVE  tasks'[t].at <= tasks'[u].at
  BY DEF InTurn, Fresh
<1>a. /\ tasks[t].at \in Nat /\ tasks[t].leases \in Nat /\ tasks[t].at <= second
      /\ tasks[u].at \in Nat /\ tasks[u].leases \in Nat /\ second \in Nat
  BY TaskFields DEF Aged
<1>b. tasks[t].leases >= 1 /\ tasks[u].status = "queued" /\ tasks[u].leases = 0
        => tasks[t].at <= tasks[u].at
  BY DEF InTurn, Fresh
<1>1. ASSUME NEW x \in TaskIds, Creates(x) PROVE tasks'[t].at <= tasks'[u].at
  <2>1. /\ tasks'[x].leases = 0 /\ tasks'[x].at = second'
        /\ second' \in Nat /\ second <= second'
        /\ t # x => tasks'[t] = tasks[t]
        /\ u # x => tasks'[u] = tasks[u]
    BY <1>1, CreatesStep
  <2>2. t # x
    BY <2>1
  <2>3. QED
    BY <1>a, <1>b, <2>1, <2>2
<1>2. CASE Proceeds
  <2>1. /\ tasks'[t].leases = tasks[t].leases /\ tasks'[t].at = tasks[t].at
        /\ tasks'[u].leases = tasks[u].leases /\ tasks'[u].at = tasks[u].at
        /\ \/ tasks[u].status = "queued"
           \/ tasks[u].status = "running"
    BY <1>2 DEF Proceeds
  <2>2. tasks[u].status # "running"
    BY <2>1 DEF Counted
  <2>3. QED
    BY <1>b, <2>1, <2>2
<1>3. ASSUME NEW r \in Roles, Lease(r) PROVE tasks'[t].at <= tasks'[u].at
  <2>1. \A v \in TaskIds :
          IF Host(v) = r /\ tasks[v].status = "queued"
          THEN /\ tasks'[v].status = "running" /\ tasks'[v].at = tasks[v].at
          ELSE tasks'[v] = tasks[v]
    BY <1>3, LeaseStep
  <2>2. tasks'[u] = tasks[u] /\ Host(u) # r
    BY <2>1
  <2>3. tasks'[t] = tasks[t]
    BY <2>1, <2>2
  <2>4. QED
    BY <1>b, <2>2, <2>3
<1>4. ASSUME NEW r \in Roles, Execute(r) PROVE tasks'[t].at <= tasks'[u].at
  BY <1>b, <1>4 DEF Execute
<1>5. QED
  BY <1>1, <1>2, <1>3, <1>4, Kinds

LEMMA GivenNext ==
  FlowTypeOK /\ Counted /\ Answering /\ Posting /\ Given /\ [FlowNext]_flow => Given'
<1> SUFFICES ASSUME FlowTypeOK, Counted, Answering, Posting, Given, [FlowNext]_flow,
                    NEW e \in TaskIds, e.kind = "export", e.link > linked'
             PROVE  tasks'[e].status = "none"
  BY TaskForms DEF Given
<1>e. e.link \in Nat /\ linked \in Nat
  BY TaskForms, FlowNumbers DEF FlowTypeOK
<1>g. e.link > linked => tasks[e].status = "none"
  BY TaskForms DEF Given
<1>1. ASSUME NEW x \in TaskIds, Creates(x) PROVE tasks'[e].status = "none"
  <2>1. linked' = (IF x.kind = "export" THEN linked + 1 ELSE linked)
        /\ (x.kind = "export" => x.link = linked')
    BY <1>1 DEF Creates
  <2>2. x # e
    BY <1>e, <2>1
  <2>3. e.link > linked
    BY <1>e, <2>1
  <2>4. QED
    BY <1>1, <1>e, <1>g, <2>2, <2>3, CreatesStep
<1>2. CASE Proceeds
  BY <1>2, <1>e, <1>g DEF Proceeds
<1>3. ASSUME NEW r \in Roles, Lease(r) PROVE tasks'[e].status = "none"
  <2>1. tasks[e].status = "none"
    BY <1>3, <1>g DEF Lease
  <2>2. QED
    BY <1>3, <1>e, <2>1, LeaseStep
<1>4. ASSUME NEW r \in Roles, Execute(r) PROVE tasks'[e].status = "none"
  BY <1>4, <1>g DEF Execute
<1>5. QED
  BY <1>1, <1>2, <1>3, <1>4, Kinds

-------------------------------------------------------------------------------
(* Batches and results *)

LEMMA BatchesInit == FlowInit => Batched /\ Answering /\ Posting /\ NoneBehind
<1> SUFFICES ASSUME FlowInit PROVE Batched /\ Answering /\ Posting /\ NoneBehind
  OBVIOUS
<1>1. \A r \in Roles : queue[r] = <<>> /\ result[r] = NoResult
  BY DEF FlowInit
<1>2. hub = HubIdle /\ \A t \in TaskIds : tasks[t].status = "none" /\ tasks[t].leases = 0
  BY DEF FlowInit, NoTask
<1>3. Batched /\ Posting
  BY <1>1, EmptyBatch DEF Batched, Posting
<1>4. Answering /\ NoneBehind
  BY <1>2 DEF Answering, NoneBehind
<1>5. QED
  BY <1>3, <1>4

\* Two places of a batch, the earlier first.
Places(r, i, j) ==
  /\ tasks[queue[r][i]].status \notin {"none", "done"}
  /\ queue[r][i] # result[r].task
  /\ i < j =>
       /\ queue[r][i] # queue[r][j]
       /\ tasks[queue[r][i]].leases >= 1 /\ tasks[queue[r][j]].leases >= 1
          => tasks[queue[r][i]].at <= tasks[queue[r][j]].at

LEMMA BatchedNext ==
  /\ FlowTypeOK /\ Counted /\ Answering /\ Posting /\ Batched
  /\ [FlowNext]_flow
  => Batched'
<1> SUFFICES ASSUME FlowTypeOK, Counted, Answering, Posting, Batched, [FlowNext]_flow,
                    NEW r \in Roles, NEW i \in DOMAIN queue'[r], NEW j \in DOMAIN queue'[r]
             PROVE  Places(r, i, j)'
  BY DEF Batched, Places
<1>b. \A m, n \in DOMAIN queue[r] : Places(r, m, n)
  BY DEF Batched, Places
<1>h. \A m \in DOMAIN queue[r] : queue[r][m] \in TaskIds /\ Host(queue[r][m]) = r
  BY BatchHosts
<1>n. \A m \in DOMAIN queue[r] : queue[r][m] # NoResult.task
  BY <1>h, TaskForms DEF NoResult
<1>1. ASSUME NEW x \in TaskIds, Creates(x), Shrinks PROVE Places(r, i, j)'
  <2>1. queue'[r] = queue[r] /\ i \in DOMAIN queue[r] /\ j \in DOMAIN queue[r]
    BY <1>1, EmptyBatch DEF Shrinks
  <2>2. Places(r, i, j)
    BY <1>b, <2>1
  <2>3. queue[r][i] # result'[r].task
    BY <1>1, <1>n, <2>1, <2>2 DEF Shrinks, Places
  <2>4. /\ tasks'[x].status = "queued" /\ tasks'[x].leases = 0
        /\ \A t \in TaskIds : t # x => tasks'[t] = tasks[t]
    BY <1>1, CreatesStep
  <2>5. queue[r][i] \in TaskIds /\ queue[r][j] \in TaskIds
    BY <1>h, <2>1
  <2>6. QED
    BY <2>1, <2>2, <2>3, <2>4, <2>5 DEF Places
<1>2. CASE Proceeds /\ Shrinks
  <2>1. queue'[r] = queue[r] /\ i \in DOMAIN queue[r] /\ j \in DOMAIN queue[r]
    BY <1>2, EmptyBatch DEF Shrinks
  <2>2. Places(r, i, j)
    BY <1>b, <2>1
  <2>3. queue[r][i] # result'[r].task
    BY <1>2, <1>n, <2>1, <2>2 DEF Shrinks, Places
  <2>4. queue[r][i] \in TaskIds /\ queue[r][j] \in TaskIds /\ Host(queue[r][i]) = r
    BY <1>h, <2>1
  <2>5. \A t \in TaskIds :
          /\ tasks'[t].leases = tasks[t].leases /\ tasks'[t].at = tasks[t].at
          /\ tasks'[t].status = "none" <=> tasks[t].status = "none"
          /\ tasks'[t].status = "done" /\ tasks[t].status # "done" =>
               hub # HubIdle /\ hub.task = t
    BY <1>2 DEF Proceeds
  <2>6. hub # HubIdle => result[Host(hub.task)].task = hub.task
    BY AtHub
  <2>7. tasks'[queue[r][i]].status \notin {"none", "done"}
    BY <2>2, <2>4, <2>5, <2>6 DEF Places
  <2>8. QED
    BY <2>1, <2>2, <2>3, <2>4, <2>5, <2>7 DEF Places
<1>3. ASSUME NEW q \in Roles, Lease(q) PROVE Places(r, i, j)'
  <2>l. /\ result[q] = NoResult
        /\ \A t \in TaskIds :
             IF Host(t) = q /\ tasks[t].status = "queued"
             THEN tasks'[t].status = "running" /\ tasks'[t].at = tasks[t].at
             ELSE tasks'[t] = tasks[t]
        /\ \A p \in Roles : p # q => queue'[p] = queue[p]
        /\ \A m \in DOMAIN queue'[q] :
             /\ queue'[q][m] \in TaskIds /\ Host(queue'[q][m]) = q
             /\ tasks[queue'[q][m]].status = "queued"
             /\ \A n \in DOMAIN queue'[q] : m < n =>
                  /\ queue'[q][m] # queue'[q][n]
                  /\ tasks[queue'[q][m]].at <= tasks[queue'[q][n]].at
    BY <1>3, LeaseStep
  <2>r. result' = result
    BY <1>3 DEF Lease
  <2>1. CASE r = q
    <3>1. /\ queue'[r][i] \in TaskIds /\ tasks'[queue'[r][i]].status = "running"
          /\ tasks'[queue'[r][i]].at = tasks[queue'[r][i]].at
          /\ tasks'[queue'[r][j]].at = tasks[queue'[r][j]].at
      BY <2>l, <2>1
    <3>2. queue'[r][i] # NoResult.task
      BY <3>1, TaskForms DEF NoResult
    <3>3. QED
      BY <2>l, <2>r, <2>1, <3>1, <3>2 DEF Places
  <2>2. CASE r # q
    <3>1. queue'[r] = queue[r]
      BY <2>l, <2>2
    <3>2. \A m \in DOMAIN queue[r] : tasks'[queue[r][m]] = tasks[queue[r][m]]
      BY <1>h, <2>l, <2>2
    <3>3. QED
      BY <1>b, <2>r, <3>1, <3>2 DEF Places
  <2>3. QED
    BY <2>1, <2>2
<1>4. ASSUME NEW q \in Roles, Execute(q) PROVE Places(r, i, j)'
  <2>1. PICK ok \in BOOLEAN :
          /\ queue[q] # <<>>
          /\ result' = [result EXCEPT ![q] = [task |-> Head(queue[q]), ok |-> ok]]
          /\ queue' = [queue EXCEPT ![q] = Tail(@)]
          /\ tasks' = tasks
    BY <1>4, ExecuteCases
  <2>2. /\ Head(queue[q]) = queue[q][1] /\ 1 \in DOMAIN queue[q]
        /\ result'[q].task = Head(queue[q])
        /\ \A p \in Roles : p # q => result'[p] = result[p]
        /\ \A p \in Roles : p # q => queue'[p] = queue[p]
        /\ \A m \in DOMAIN queue'[q] :
             m \in Nat /\ m >= 1 /\ m + 1 \in DOMAIN queue[q]
             /\ queue'[q][m] = queue[q][m + 1]
    BY <2>1, ExecuteStep
  <2>3. CASE r = q
    <3>1. /\ i \in Nat /\ i >= 1 /\ i + 1 \in DOMAIN queue[r]
          /\ queue'[r][i] = queue[r][i + 1]
          /\ j \in Nat /\ j >= 1 /\ j + 1 \in DOMAIN queue[r]
          /\ queue'[r][j] = queue[r][j + 1]
      BY <2>2, <2>3
    <3>2. Places(r, i + 1, j + 1) /\ Places(r, 1, i + 1)
      BY <1>b, <2>2, <2>3, <3>1
    <3>3. queue[r][i + 1] # result'[r].task
      BY <2>2, <2>3, <3>1, <3>2 DEF Places
    <3>4. QED
      BY <2>1, <3>1, <3>2, <3>3 DEF Places
  <2>4. CASE r # q
    BY <1>b, <2>1, <2>2, <2>4 DEF Places
  <2>5. QED
    BY <2>3, <2>4
<1>5. QED
  BY <1>1, <1>2, <1>3, <1>4, Kinds

LEMMA NoneBehindNext ==
  /\ FlowTypeOK /\ Counted /\ InTurn /\ Batched /\ Answering /\ Posting /\ NoneBehind
  /\ [FlowNext]_flow
  => NoneBehind'
<1> SUFFICES ASSUME FlowTypeOK, Counted, InTurn, Batched, Answering, Posting, NoneBehind,
                    [FlowNext]_flow,
                    NEW t \in TaskIds, NEW u \in TaskIds, Host(t) = Host(u),
                    tasks'[t].leases >= 1, tasks'[u].leases = 1,
                    tasks'[u].at < tasks'[t].at, Succeeded(t)',
                    NEW i \in DOMAIN queue'[Host(u)], queue'[Host(u)][i] = u
             PROVE  FALSE
  BY DEF NoneBehind
<1>b. /\ tasks[t].leases >= 1 /\ tasks[u].leases = 1
      /\ tasks[u].at < tasks[t].at /\ Succeeded(t)
      => \A m \in DOMAIN queue[Host(u)] : queue[Host(u)][m] # u
  BY DEF NoneBehind
<1>r. Host(u) \in Roles
  BY TaskForms
<1>1. ASSUME NEW x \in TaskIds, Creates(x), Shrinks PROVE FALSE
  <2>1. Succeeded(t)
    BY <1>1, NoneSucceeds
  <2>2. /\ tasks'[x].leases = 0 /\ \A v \in TaskIds : v # x => tasks'[v] = tasks[v]
    BY <1>1, CreatesStep
  <2>3. tasks'[t] = tasks[t] /\ tasks'[u] = tasks[u]
    BY <2>2
  <2>4. queue'[Host(u)] = queue[Host(u)]
    BY <1>1, <1>r, EmptyBatch DEF Shrinks
  <2>5. QED
    BY <1>b, <2>1, <2>3, <2>4
<1>2. CASE Proceeds /\ Shrinks
  <2>1. Succeeded(t)
    BY <1>2, NoneSucceeds
  <2>2. \A v \in TaskIds : tasks'[v].leases = tasks[v].leases /\ tasks'[v].at = tasks[v].at
    BY <1>2 DEF Proceeds
  <2>3. queue'[Host(u)] = queue[Host(u)]
    BY <1>2, <1>r, EmptyBatch DEF Shrinks
  <2>4. QED
    BY <1>b, <2>1, <2>2, <2>3
<1>3. ASSUME NEW r \in Roles, Lease(r) PROVE FALSE
  <2>1. Succeeded(t) /\ tasks'[t] = tasks[t] /\ tasks'[u] = tasks[u]
    BY <1>3, LeaseKeeps
  <2>2. CASE Host(u) = r
    <3>1. tasks[u].status = "queued"
      BY <1>3, <2>2, LeaseStep
    <3>2. tasks'[u].status = "running"
      BY <1>3, <2>2, <3>1, LeaseStep
    <3>3. QED
      BY <2>1, <3>1, <3>2
  <2>3. CASE Host(u) # r
    <3>1. queue'[Host(u)] = queue[Host(u)]
      BY <1>3, <1>r, <2>3, LeaseStep
    <3>2. QED
      BY <1>b, <2>1, <3>1
  <2>4. QED
    BY <2>2, <2>3
<1>4. ASSUME NEW r \in Roles, Execute(r) PROVE FALSE
  <2>1. PICK ok \in BOOLEAN :
          /\ queue[r] # <<>>
          /\ result' = [result EXCEPT ![r] = [task |-> Head(queue[r]), ok |-> ok]]
          /\ queue' = [queue EXCEPT ![r] = Tail(@)]
          /\ tasks' = tasks
    BY <1>4, ExecuteCases
  <2>2. /\ Head(queue[r]) = queue[r][1] /\ 1 \in DOMAIN queue[r]
        /\ \A p \in Roles : p # r => result'[p] = result[p] /\ queue'[p] = queue[p]
        /\ \A m \in DOMAIN queue'[r] :
             m \in Nat /\ m >= 1 /\ m + 1 \in DOMAIN queue[r]
             /\ queue'[r][m] = queue[r][m + 1]
    BY <2>1, ExecuteStep
  <2>3. CASE Host(u) = r
    <3>1. i + 1 \in DOMAIN queue[r] /\ queue[r][i + 1] = u /\ 1 < i + 1
      BY <2>2, <2>3
    <3>2. t = Head(queue[r]) \/ Succeeded(t)
      BY <1>4, <2>1, <2>3, ExecuteKeeps
    <3>3. CASE Succeeded(t)
      BY <1>b, <2>1, <2>3, <3>1, <3>3
    <3>4. CASE t = Head(queue[r])
      <4>1. tasks[t].at <= tasks[u].at
        <5>1. tasks[queue[r][1]].leases >= 1 /\ tasks[queue[r][i + 1]].leases >= 1
          BY <2>1, <2>2, <3>1, <3>4
        <5>2. tasks[queue[r][1]].at <= tasks[queue[r][i + 1]].at
          BY <2>2, <2>3, <1>r, <3>1, <5>1 DEF Batched
        <5>3. QED
          BY <2>2, <3>1, <3>4, <5>2
      <4>2. tasks[t].at \in Nat /\ tasks[u].at \in Nat
        BY TaskFields
      <4>3. QED
        BY <2>1, <4>1, <4>2
    <3>5. QED
      BY <3>2, <3>3, <3>4
  <2>4. CASE Host(u) # r
    <3>1. Succeeded(t)
      BY <1>r, <2>1, <2>2, <2>4 DEF Succeeded
    <3>2. queue'[Host(u)] = queue[Host(u)]
      BY <1>r, <2>2, <2>4
    <3>3. QED
      BY <1>b, <2>1, <3>1, <3>2
  <2>5. QED
    BY <2>3, <2>4
<1>5. QED
  BY <1>1, <1>2, <1>3, <1>4, Kinds

-------------------------------------------------------------------------------
(* The Hub's handler and the results *)

LEMMA AnsweringNext ==
  /\ FlowTypeOK /\ Counted /\ Given /\ Answering /\ Posting
  /\ [FlowNext]_flow
  => Answering'
<1> SUFFICES ASSUME FlowTypeOK, Counted, Given, Answering, Posting, [FlowNext]_flow,
                    hub' # HubIdle
             PROVE  /\ result'[Host(hub'.task)] = [task |-> hub'.task, ok |-> hub'.ok]
                    /\ hub'.pc = "follow" => /\ hub'.ok /\ hub'.task.kind = "export"
                                             /\ tasks'[hub'.task].status = "done"
  BY DEF Answering
<1>. DEFINE goal == /\ result'[Host(hub'.task)] = [task |-> hub'.task, ok |-> hub'.ok]
                    /\ hub'.pc = "follow" => /\ hub'.ok /\ hub'.task.kind = "export"
                                             /\ tasks'[hub'.task].status = "done"
<1>a. hub # HubIdle =>
        /\ hub.task \in TaskIds /\ Host(hub.task) \in Roles
        /\ result[Host(hub.task)] = [task |-> hub.task, ok |-> hub.ok]
        /\ result[Host(hub.task)] # NoResult
        /\ tasks[hub.task].status # "none"
        /\ hub.pc = "follow" => /\ hub.ok /\ hub.task.kind = "export"
                                /\ tasks[hub.task].status = "done"
  BY AtHub, TaskForms DEF Answering
\* A task that is done stays so, and the handler with it.
<1>k. /\ hub' = hub
      /\ result'[Host(hub.task)] = result[Host(hub.task)]
      /\ hub # HubIdle /\ hub.pc = "follow" => tasks'[hub.task].status = "done"
      => goal
  BY <1>a
<1>. HIDE DEF goal
<1>1. ASSUME Link PROVE goal
  <2>1. /\ linked' \in Links /\ linked' = linked + 1 /\ linked \in Nat
        /\ \E mode \in Modes : Create(Command("export", linked'), mode)
        /\ hub' = hub /\ result' = result
    BY <1>1, FlowNumbers DEF Link, hosts, FlowTypeOK
  <2>2. tasks[Command("export", linked')].status = "none"
    BY <2>1 DEF Given
  <2>3. Command("export", linked') \in TaskIds
    BY <2>1, TaskForms
  <2>4. \A t \in TaskIds : t # Command("export", linked') => tasks'[t] = tasks[t]
    BY <2>1, <2>3, CreateStep
  <2>5. hub # HubIdle /\ hub.pc = "follow" => tasks'[hub.task].status = "done"
    BY <1>a, <2>2, <2>4
  <2>6. QED
    BY <1>k, <2>1, <2>5
<1>2. ASSUME SaveRegistry PROVE goal
  <2>1. hub' = hub /\ result' = result /\ tasks' = tasks
    BY <1>2 DEF SaveRegistry, hosts
  <2>2. QED
    BY <1>a, <1>k, <2>1
<1>3. ASSUME CancelTasks PROVE goal
  <2>1. hub' = hub /\ result' = result
    BY <1>3 DEF CancelTasks, hosts
  <2>2. hub # HubIdle /\ hub.pc = "follow" => tasks'[hub.task].status = "done"
    BY <1>3, <1>a, CancelStep
  <2>3. QED
    BY <1>k, <2>1, <2>2
<1>4. ASSUME Heartbeat PROVE goal
  <2>1. hub' = hub /\ result' = result /\ tasks' = tasks
    BY <1>4 DEF Heartbeat, hosts
  <2>2. QED
    BY <1>a, <1>k, <2>1
<1>5. ASSUME Write PROVE goal
  <2>1. /\ hub # HubIdle /\ hub.pc = "write"
        /\ hub.task \in TaskIds /\ hub.ok \in BOOLEAN
        /\ tasks'[hub.task].status = IF hub.ok THEN "done" ELSE "failed"
    BY <1>5, WriteStep
  <2>2. ~ Answer
    BY DEF Answer
  <2>3. /\ hub.task.kind = "export" /\ hub.ok
        /\ hub' = [hub EXCEPT !.pc = "follow"] /\ UNCHANGED hosts
    BY <1>5, <2>2 DEF Write
  <2>4. hub \in [pc: {"write", "follow"}, task: TaskIds, ok: BOOLEAN]
    BY <2>1 DEF FlowTypeOK
  <2>5. hub'.task = hub.task /\ hub'.ok = hub.ok /\ result' = result
    BY <2>3, <2>4 DEF hosts
  <2>6. QED
    BY <1>a, <2>1, <2>3, <2>5 DEF goal
<1>6. ASSUME Follow PROVE goal
  <2>1. Answer
    BY <1>6 DEF Follow
  <2>2. QED
    BY <2>1 DEF Answer
<1>15. ASSUME FollowFails \/ HubDies PROVE goal
  BY <1>15 DEF FollowFails, HubDies, Answer
<1>7. ASSUME NEW r \in Roles, RemoveAgent(r) PROVE goal
  <2>1. hub' = hub /\ result' = result
    BY <1>7 DEF RemoveAgent, hosts
  <2>2. CASE CleanedUp(r)
    <3>1. report \in Links
      BY <2>2 DEF CleanedUp, Gens, FlowTypeOK
    <3>2. Mode(report) \in Modes
      BY <3>1, TaskForms, TaskFields DEF Mode
    <3>3. Create(Cleanup(r), Mode(report))
      BY <1>7, <2>2 DEF RemoveAgent
    <3>4. Cleanup(r) \in TaskIds /\ Cleanup(r).kind \in {"unbind", "teardown"}
      BY TaskForms DEF Cleanup
    <3>5. \A t \in TaskIds : t # Cleanup(r) => tasks'[t] = tasks[t]
      BY <3>2, <3>3, <3>4, CreateStep
    <3>6. hub # HubIdle /\ hub.pc = "follow" => tasks'[hub.task].status = "done"
      BY <1>a, <3>4, <3>5
    <3>7. QED
      BY <1>k, <2>1, <3>6
  <2>3. CASE ~ CleanedUp(r)
    <3>1. tasks' = tasks
      BY <1>7, <2>3 DEF RemoveAgent
    <3>2. QED
      BY <1>a, <1>k, <2>1, <3>1
  <2>4. QED
    BY <2>2, <2>3
<1>8. ASSUME NEW r \in Roles, Lease(r) PROVE goal
  <2>1. hub' = hub /\ result' = result
    BY <1>8 DEF Lease
  <2>2. hub # HubIdle /\ hub.pc = "follow" => tasks'[hub.task].status = "done"
    BY <1>8, <1>a, LeaseStep
  <2>3. QED
    BY <1>k, <2>1, <2>2
<1>9. ASSUME NEW r \in Roles, Post(r) PROVE goal
  <2>1. /\ result[r] # NoResult /\ result' = result
        /\ hub' = [pc |-> "write", task |-> result[r].task, ok |-> result[r].ok]
    BY <1>9 DEF Post, hosts
  <2>2. Host(result[r].task) = r
    BY <2>1, BatchHosts
  <2>3. result[r] = [task |-> result[r].task, ok |-> result[r].ok]
    BY <2>1 DEF FlowTypeOK, Result
  <2>4. hub'.pc = "write" /\ hub'.task = result[r].task /\ hub'.ok = result[r].ok
    BY <2>1
  <2>5. QED
    BY <2>1, <2>2, <2>3, <2>4 DEF goal
<1>10. ASSUME NEW r \in Roles, Execute(r) PROVE goal
  <2>1. PICK ok \in BOOLEAN :
          /\ queue[r] # <<>> /\ result[r] = NoResult
          /\ result' = [result EXCEPT ![r] = [task |-> Head(queue[r]), ok |-> ok]]
          /\ tasks' = tasks /\ hub' = hub
    BY <1>10, ExecuteCases
  <2>2. hub # HubIdle => r # Host(hub.task)
    BY <1>a, <2>1
  <2>3. hub # HubIdle => result'[Host(hub.task)] = result[Host(hub.task)]
    BY <1>a, <2>1, <2>2 DEF FlowTypeOK
  <2>4. QED
    BY <1>a, <1>k, <2>1, <2>3
<1>11. ASSUME NEW r \in Roles, PostFails(r) PROVE goal
  <2>1. /\ hub # HubIdle => Host(hub.task) # r
        /\ result' = [result EXCEPT ![r] = NoResult]
        /\ tasks' = tasks /\ hub' = hub
    BY <1>11 DEF PostFails
  <2>2. hub # HubIdle => result'[Host(hub.task)] = result[Host(hub.task)]
    BY <1>a, <2>1 DEF FlowTypeOK
  <2>3. QED
    BY <1>a, <1>k, <2>1, <2>2
<1>12. ASSUME NEW x \in TaskIds, Recover(x) PROVE goal
  <2>1. hub' = hub /\ result' = result
    BY <1>12 DEF Recover, hosts
  <2>2. hub # HubIdle /\ hub.pc = "follow" => tasks'[hub.task].status = "done"
    BY <1>12, <1>a, RecoverStep
  <2>3. QED
    BY <1>k, <2>1, <2>2
<1>13. ASSUME UNCHANGED flow PROVE goal
  <2>1. hub' = hub /\ result' = result /\ tasks' = tasks
    BY <1>13 DEF flow, server, hosts
  <2>2. QED
    BY <1>a, <1>k, <2>1
<1>14. goal
  BY <1>1, <1>2, <1>3, <1>4, <1>5, <1>6, <1>7, <1>8, <1>9, <1>10, <1>11, <1>12, <1>13,
     <1>15
     DEF FlowNext
<1>16. QED
  BY <1>14 DEF goal

LEMMA PostingNext ==
  /\ FlowTypeOK /\ Counted /\ Batched /\ Answering /\ Posting
  /\ [FlowNext]_flow
  => Posting'
<1> SUFFICES ASSUME FlowTypeOK, Counted, Batched, Answering, Posting, [FlowNext]_flow,
                    NEW r \in Roles, result'[r] # NoResult
             PROVE  /\ tasks'[result'[r].task].status # "none"
                    /\ tasks'[result'[r].task].status = "done"
                       => hub'.pc = "follow" /\ hub'.task = result'[r].task
  BY DEF Posting
<1>. DEFINE s == result[r].task
            goal == /\ tasks'[result'[r].task].status # "none"
                    /\ tasks'[result'[r].task].status = "done"
                       => hub'.pc = "follow" /\ hub'.task = result'[r].task
<1>a. result[r] # NoResult =>
        /\ s \in TaskIds /\ Host(s) = r
        /\ tasks[s].status # "none"
        /\ tasks[s].status = "done" => hub.pc = "follow" /\ hub.task = s
  BY BatchHosts DEF Posting
\* The result that is kept is not the one that was followed up.
<1>b. Shrinks /\ hub.pc = "follow" /\ hub.task = s => hub' = hub
  <2>1. Shrinks => result[r] # NoResult
    BY DEF Shrinks
  <2>2. QED
    BY <1>a, <2>1 DEF Shrinks
<1>1. ASSUME NEW x \in TaskIds, Creates(x), Shrinks PROVE goal
  <2>1. result'[r] = result[r]
    BY <1>1 DEF Shrinks
  <2>2. /\ tasks'[x].status = "queued" /\ \A t \in TaskIds : t # x => tasks'[t] = tasks[t]
    BY <1>1, CreatesStep
  <2>3. QED
    BY <1>a, <1>b, <1>1, <2>1, <2>2
<1>2. ASSUME Proceeds, Shrinks PROVE goal
  <2>1. result'[r] = result[r]
    BY <1>2 DEF Shrinks
  <2>2. /\ tasks'[s].status = "none" <=> tasks[s].status = "none"
        /\ tasks'[s].status = "done" /\ tasks[s].status # "done" =>
             hub'.pc = "follow" /\ hub'.task = s
    BY <1>a, <1>2, <2>1 DEF Proceeds
  <2>3. QED
    BY <1>a, <1>b, <1>2, <2>1, <2>2
<1>3. ASSUME NEW q \in Roles, Lease(q) PROVE goal
  <2>1. result' = result /\ hub' = hub
    BY <1>3 DEF Lease
  <2>2. /\ tasks'[s].status = "running" \/ tasks'[s] = tasks[s]
    BY <1>a, <1>3, <2>1, LeaseStep
  <2>3. QED
    BY <1>a, <2>1, <2>2
<1>4. ASSUME NEW q \in Roles, Execute(q) PROVE goal
  <2>1. PICK ok \in BOOLEAN :
          /\ queue[q] # <<>>
          /\ result' = [result EXCEPT ![q] = [task |-> Head(queue[q]), ok |-> ok]]
          /\ queue' = [queue EXCEPT ![q] = Tail(@)]
          /\ tasks' = tasks /\ hub' = hub
    BY <1>4, ExecuteCases
  <2>2. /\ Head(queue[q]) = queue[q][1] /\ 1 \in DOMAIN queue[q]
        /\ result'[q].task = Head(queue[q])
        /\ \A p \in Roles : p # q => result'[p] = result[p]
    BY <2>1, ExecuteStep
  <2>3. tasks[Head(queue[q])].status \notin {"none", "done"}
    BY <2>2 DEF Batched
  <2>4. QED
    BY <1>a, <2>1, <2>2, <2>3
<1>5. goal
  BY <1>1, <1>2, <1>3, <1>4, Kinds
<1>6. QED
  BY <1>5

-------------------------------------------------------------------------------
(* What is created for whom *)

LEMMA HistoryInit == FlowInit => Followed /\ NotRemoved /\ Routed
BY TaskForms DEF FlowInit, Followed, NotRemoved, Routed, NoTask, RemovalIdle

LEMMA FollowedNext ==
  FlowTypeOK /\ Counted /\ Answering /\ Posting /\ Followed /\ [FlowNext]_flow => Followed'
<1> SUFFICES ASSUME FlowTypeOK, Counted, Answering, Posting, Followed, [FlowNext]_flow,
                    NEW b \in TaskIds, NEW e \in TaskIds, b.kind = "bind",
                    e = Command("export", b.link), tasks'[b].status # "none"
             PROVE  tasks'[e].status # "none"
  BY TaskForms DEF Followed
<1>f. tasks[b].status # "none" => tasks[e].status # "none"
  BY TaskForms DEF Followed
<1>e. e.kind = "export" /\ e.link = b.link
  BY TaskForms
<1>1. ASSUME NEW x \in TaskIds, Creates(x) PROVE tasks'[e].status # "none"
  <2>1. /\ tasks'[x].status = "queued"
        /\ \A t \in TaskIds : t # x => tasks'[t] = tasks[t]
    BY <1>1, CreatesStep
  <2>2. CASE x = b
    <3>1. hub.pc = "follow" /\ hub.task.link = b.link
      BY <1>1, <2>2 DEF Creates
    <3>2. hub # HubIdle
      BY <3>1 DEF HubIdle
    <3>3. hub.task \in TaskIds /\ hub.task.kind = "export" /\ tasks[hub.task].status # "none"
      BY <3>1, <3>2, AtHub DEF Answering
    <3>4. hub.task = e
      BY <3>1, <3>3, TaskForms
    <3>5. QED
      BY <2>1, <3>3, <3>4
  <2>3. CASE x # b
    BY <1>f, <2>1, <2>3
  <2>4. QED
    BY <2>2, <2>3
<1>2. CASE Proceeds
  BY <1>f, <1>2 DEF Proceeds
<1>3. ASSUME NEW r \in Roles, Lease(r) PROVE tasks'[e].status # "none"
  <2>1. \A t \in TaskIds :
          tasks'[t] # tasks[t] => tasks[t].status = "queued" /\ tasks'[t].status = "running"
    BY <1>3, LeaseStep
  <2>2. QED
    BY <1>f, <2>1
<1>4. ASSUME NEW r \in Roles, Execute(r) PROVE tasks'[e].status # "none"
  BY <1>f, <1>4 DEF Execute
<1>5. QED
  BY <1>1, <1>2, <1>3, <1>4, Kinds

\* Only a removal creates a cleanup task.
LEMMA NotRemovedNext ==
  FlowTypeOK /\ Counted /\ Answering /\ Posting /\ NotRemoved /\ [FlowNext]_flow => NotRemoved'
<1> SUFFICES ASSUME FlowTypeOK, Counted, Answering, Posting, NotRemoved, [FlowNext]_flow
             PROVE  NotRemoved'
  OBVIOUS
<1>. DEFINE u == Command("unbind", 0)
            d == Command("teardown", 0)
            clean == tasks[u].status = "none" /\ tasks[d].status = "none"
<1>u. /\ u \in TaskIds /\ u.kind = "unbind"
      /\ d \in TaskIds /\ d.kind = "teardown"
  BY TaskForms
<1>n. /\ removal.pc = "cancel" => ~ registered[removal.role]
      /\ (\A r \in Roles : registered[r]) /\ removal.pc # "save" => clean
  BY DEF NotRemoved
<1>k. ASSUME (\A r \in Roles : registered[r]) /\ removal.pc # "save" => clean',
             UNCHANGED <<registered, removal>>
      PROVE  NotRemoved'
  BY <1>n, <1>k DEF NotRemoved
<1>. HIDE DEF u, d
<1>r. removal \in {RemovalIdle} \cup [pc: {"save", "cancel"}, role: Roles]
      /\ registered \in [Roles -> BOOLEAN]
  BY DEF FlowTypeOK
<1>1. CASE Link
  <2>1. /\ linked' \in Links
        /\ \E mode \in Modes : Create(Command("export", linked'), mode)
        /\ UNCHANGED <<registered, removal>>
    BY <1>1 DEF Link
  <2>2. Command("export", linked') \in TaskIds /\ Command("export", linked').kind = "export"
    BY <2>1, TaskForms
  <2>3. \A t \in TaskIds : t # Command("export", linked') => tasks'[t] = tasks[t]
    BY <2>1, <2>2, CreateStep
  <2>4. clean => clean'
    BY <1>u, <2>2, <2>3
  <2>5. QED
    BY <1>n, <1>k, <2>1, <2>4
<1>2. CASE SaveRegistry
  <2>1. removal \in [pc: {"save", "cancel"}, role: Roles]
    BY <1>2, <1>r DEF SaveRegistry, RemovalIdle
  <2>2. /\ removal' = [removal EXCEPT !.pc = "cancel"]
        /\ registered' = [registered EXCEPT ![removal.role] = FALSE]
    BY <1>2 DEF SaveRegistry
  <2>3. /\ removal'.role = removal.role /\ removal.role \in Roles
        /\ ~ registered'[removal.role]
    BY <1>r, <2>1, <2>2
  <2>4. QED
    BY <2>3 DEF NotRemoved
<1>3. CASE CancelTasks
  <2>1. /\ removal.pc = "cancel" /\ removal' = RemovalIdle /\ registered' = registered
    BY <1>3 DEF CancelTasks
  <2>2. removal.role \in Roles /\ ~ registered'[removal.role]
    BY <1>n, <1>r, <2>1 DEF RemovalIdle
  <2>3. removal'.pc # "cancel"
    BY <2>1 DEF RemovalIdle
  <2>4. QED
    BY <2>2, <2>3 DEF NotRemoved
<1>4. CASE Heartbeat
  BY <1>4, <1>n, <1>k DEF Heartbeat
<1>5. CASE Write
  <2>1. /\ \A t \in TaskIds : t # hub.task => tasks'[t] = tasks[t]
        /\ hub.task \in TaskIds /\ tasks[hub.task].status # "none"
    BY <1>5, WriteStep, AtHub
  <2>2. UNCHANGED <<registered, removal>>
    BY <1>5 DEF Write
  <2>3. clean => clean'
    BY <1>u, <2>1
  <2>4. QED
    BY <1>n, <1>k, <2>2, <2>3
<1>6. CASE Follow
  <2>1. UNCHANGED <<registered, removal>>
    BY <1>6 DEF Follow
  <2>2. hub # HubIdle /\ hub.pc = "follow"
    BY <1>6 DEF Follow, HubIdle
  <2>3. hub.task \in TaskIds /\ hub.task.link \in Links
    BY <2>2, AtHub, TaskForms DEF Answering
  <2>4. clean => clean'
    <3>1. Create(Command("bind", hub.task.link), tasks[hub.task].mode)
      BY <1>6 DEF Follow
    <3>2. tasks[hub.task].mode \in Modes
      BY <2>3, TaskFields
    <3>3. /\ Command("bind", hub.task.link) \in TaskIds
          /\ Command("bind", hub.task.link).kind = "bind"
      BY <2>3, TaskForms
    <3>4. \A t \in TaskIds : t # Command("bind", hub.task.link) => tasks'[t] = tasks[t]
      BY <3>1, <3>2, <3>3, CreateStep
    <3>5. QED
      BY <1>u, <3>3, <3>4
  <2>5. QED
    BY <1>n, <1>k, <2>1, <2>4
<1>15. CASE FollowFails \/ HubDies
  BY <1>15, <1>n, <1>k DEF FollowFails, HubDies
<1>7. ASSUME NEW r \in Roles, RemoveAgent(r) PROVE NotRemoved'
  BY <1>7 DEF RemoveAgent, NotRemoved
<1>8. ASSUME NEW r \in Roles, Lease(r) PROVE NotRemoved'
  <2>1. UNCHANGED <<registered, removal>>
    BY <1>8 DEF Lease
  <2>2. clean => clean'
    BY <1>8, <1>u, LeaseStep
  <2>3. QED
    BY <1>n, <1>k, <2>1, <2>2
<1>9. ASSUME NEW r \in Roles, Post(r) PROVE NotRemoved'
  BY <1>9, <1>n, <1>k DEF Post
<1>10. ASSUME NEW r \in Roles, Execute(r) PROVE NotRemoved'
  BY <1>10, <1>n, <1>k DEF Execute
<1>11. ASSUME NEW r \in Roles, PostFails(r) PROVE NotRemoved'
  BY <1>11, <1>n, <1>k DEF PostFails
<1>12. ASSUME NEW x \in TaskIds, Recover(x) PROVE NotRemoved'
  <2>1. UNCHANGED <<registered, removal>>
    BY <1>12 DEF Recover
  <2>2. clean => clean'
    BY <1>12, <1>u, RecoverStep
  <2>3. QED
    BY <1>n, <1>k, <2>1, <2>2
<1>13. CASE UNCHANGED flow
  BY <1>13, <1>n, <1>k DEF flow, server
<1>14. QED
  BY <1>1, <1>2, <1>3, <1>4, <1>5, <1>6, <1>7, <1>8, <1>9, <1>10, <1>11, <1>12, <1>13,
     <1>15
     DEF FlowNext

LEMMA RoutedNext ==
  /\ FlowTypeOK /\ Counted /\ Batched /\ Answering /\ Posting /\ Routed
  /\ [FlowNext]_flow
  => Routed'
<1> SUFFICES ASSUME FlowTypeOK, Counted, Batched, Answering, Posting, Routed,
                    [FlowNext]_flow, bound' # 0
             PROVE  tasks'[Command("bind", bound')].status # "none"
  BY DEF Routed
<1>b. bound # 0 => /\ Command("bind", bound) \in TaskIds
                   /\ tasks[Command("bind", bound)].status # "none"
  BY TaskForms DEF Routed, FlowTypeOK, Gens
<1>1. ASSUME NEW x \in TaskIds, Creates(x), Shrinks
      PROVE  tasks'[Command("bind", bound')].status # "none"
  <2>1. bound' = bound
    BY <1>1 DEF Shrinks
  <2>2. /\ tasks'[x].status = "queued" /\ \A t \in TaskIds : t # x => tasks'[t] = tasks[t]
    BY <1>1, CreatesStep
  <2>3. QED
    BY <1>b, <2>1, <2>2
<1>2. CASE Proceeds /\ Shrinks
  <2>1. bound' = bound
    BY <1>2 DEF Shrinks
  <2>2. QED
    BY <1>b, <1>2, <2>1 DEF Proceeds
<1>3. ASSUME NEW r \in Roles, Lease(r)
      PROVE  tasks'[Command("bind", bound')].status # "none"
  <2>1. bound' = bound
    BY <1>3 DEF Lease
  <2>2. \A t \in TaskIds :
          tasks'[t] # tasks[t] => tasks[t].status = "queued" /\ tasks'[t].status = "running"
    BY <1>3, LeaseStep
  <2>3. QED
    BY <1>b, <2>1, <2>2
<1>4. ASSUME NEW r \in Roles, Execute(r)
      PROVE  tasks'[Command("bind", bound')].status # "none"
  <2>. DEFINE h == Head(queue[r])
  <2>1. PICK ok \in BOOLEAN :
          /\ queue[r] # <<>>
          /\ result' = [result EXCEPT ![r] = [task |-> h, ok |-> ok]]
          /\ queue' = [queue EXCEPT ![r] = Tail(@)]
          /\ tasks' = tasks
          /\ \/ h.kind = "export" /\ ExecuteExport(h.link, ok)
             \/ h.kind = "teardown" /\ ExecuteTeardown(ok)
             \/ h.kind = "bind" /\ ExecuteBind(h.link, ok)
             \/ h.kind = "unbind" /\ ExecuteUnbind(tasks[h].mode.mesh, ok)
    BY <1>4, ExecuteCases
  <2>2. h \in TaskIds /\ h = queue[r][1] /\ 1 \in DOMAIN queue[r]
    BY <2>1, ExecuteStep
  <2>3. tasks[h].status # "none"
    BY <2>2 DEF Batched
  <2>4. \/ bound' = bound
        \/ h.kind = "bind" /\ bound' = h.link
    BY <2>1, <2>2, LandingStep, TransitStep
  <2>5. h.kind = "bind" => h = Command("bind", h.link)
    BY <2>2, TaskForms
  <2>6. QED
    BY <1>b, <2>1, <2>3, <2>4, <2>5
<1>5. QED
  BY <1>1, <1>2, <1>3, <1>4, Kinds

-------------------------------------------------------------------------------
(* What the hosts run on *)

LEMMA MatchesInit ==
  FlowInit => /\ Exported /\ LandingMatches /\ TransitMatches
              /\ Unbound /\ TornDown /\ Kept
<1> SUFFICES ASSUME FlowInit
             PROVE  /\ Exported /\ LandingMatches /\ TransitMatches
                    /\ Unbound /\ TornDown /\ Kept
  OBVIOUS
<1>1. result["landing"] = NoResult
  BY RolesAre DEF FlowInit
<1>2. \A t \in TaskIds : tasks[t].status = "none" /\ tasks[t].leases = 0
  BY DEF FlowInit, NoTask
<1>3. Exported
  BY <1>1, FlowNumbers DEF Exported, NoResult
<1>4. \A g \in Links : ~ LastBind(g)
  BY <1>2, TaskForms DEF LastBind
<1>5. LandingMatches /\ TransitMatches
  BY <1>4 DEF LandingMatches, TransitMatches
<1>6. Unbound /\ TornDown
  BY <1>2, TaskForms DEF Unbound, TornDown, CleansUp
<1>7. Kept
  BY DEF FlowInit, Kept, KeptAt
<1>8. QED
  BY <1>3, <1>5, <1>6, <1>7

\* The mode of a link does not change once its tasks are there.
LEMMA ModeKeeps ==
  ASSUME FlowTypeOK, Counted, Answering, Posting, Given, [FlowNext]_flow,
         NEW g \in Links, tasks[Command("export", g)].status # "none"
  PROVE  Mode(g)' = Mode(g) /\ Mesh(g)' = Mesh(g)
<1>. DEFINE e == Command("export", g)
<1>e. e \in TaskIds /\ e.kind = "export" /\ e.link = g /\ ~ (g > linked)
  BY TaskForms DEF Given
<1>1. ASSUME NEW x \in TaskIds, Creates(x) PROVE tasks'[e] = tasks[e]
  <2>1. x.kind = "export" => x.link = linked + 1
    BY <1>1 DEF Creates
  <2>2. g \in Nat /\ linked \in Nat
    BY FlowNumbers DEF FlowTypeOK
  <2>3. x # e
    BY <1>e, <2>1, <2>2
  <2>4. QED
    BY <1>1, <1>e, <2>3, CreatesStep
<1>2. CASE Proceeds
  BY <1>2, <1>e DEF Proceeds, Mode, Mesh
<1>3. ASSUME NEW r \in Roles, Lease(r) PROVE tasks'[e].mode = tasks[e].mode
  <2>1. \A t \in TaskIds : tasks'[t].mode = tasks[t].mode
    BY <1>3, LeaseStep
  <2>2. QED
    BY <1>e, <2>1
<1>4. ASSUME NEW r \in Roles, Execute(r) PROVE tasks' = tasks
  BY <1>4 DEF Execute
<1>5. QED
  BY <1>1, <1>2, <1>3, <1>4, Kinds DEF Mode, Mesh

\* A host whose configurations and interface stay runs on what it ran on.
LEMMA RunsKeeps ==
  ASSUME NEW g \in Links, NEW r \in Roles, Mode(g)' = Mode(g)
  PROVE  /\ conf'[r] = conf[r] /\ iface'[r] = iface[r] /\ Runs(r, g) => Runs(r, g)'
         /\ RunsNext(r, g) => Runs(r, g)'
BY DEF Runs, RunsNext

LEMMA ExportedNext ==
  /\ FlowTypeOK /\ Counted /\ Given /\ Batched /\ Answering /\ Posting /\ Exported
  /\ [FlowNext]_flow
  => Exported'
<1> SUFFICES ASSUME FlowTypeOK, Counted, Given, Batched, Answering, Posting, Exported,
                    [FlowNext]_flow,
                    NEW e \in TaskIds, e.kind = "export", Mesh(e.link)',
                    result'["landing"] = [task |-> e, ok |-> TRUE]
             PROVE  Runs("landing", e.link)'
  BY TaskForms DEF Exported
<1>n. /\ [task |-> e, ok |-> TRUE] # NoResult /\ [task |-> e, ok |-> TRUE].task = e
      /\ e.link \in Links /\ e = Command("export", e.link) /\ "landing" \in Roles
  BY TaskForms, RolesAre DEF NoResult
<1>k. result["landing"] = [task |-> e, ok |-> TRUE]
      => Runs("landing", e.link) /\ Mode(e.link)' = Mode(e.link)
  <2> HAVE result["landing"] = [task |-> e, ok |-> TRUE]
  <2>1. tasks[Command("export", e.link)].status # "none"
    BY <1>n DEF Posting
  <2>2. Mesh(e.link) /\ Mode(e.link)' = Mode(e.link)
    BY <1>n, <2>1, ModeKeeps
  <2>3. QED
    BY <1>n, <2>2 DEF Exported
<1>s. result["landing"] = [task |-> e, ok |-> TRUE] /\ conf'["landing"] = conf["landing"]
      /\ iface'["landing"] = iface["landing"]
      => Runs("landing", e.link)'
  BY <1>n, <1>k, RunsKeeps
<1>1. CASE Shrinks
  BY <1>n, <1>s, <1>1 DEF Shrinks
<1>2. ASSUME NEW r \in Roles, Lease(r)
      PROVE  Runs("landing", e.link)'
  BY <1>s, <1>2 DEF Lease
<1>3. ASSUME NEW r \in Roles, Execute(r)
      PROVE  Runs("landing", e.link)'
  <2>. DEFINE h == Head(queue[r])
  <2>1. PICK ok \in BOOLEAN :
          /\ queue[r] # <<>>
          /\ result' = [result EXCEPT ![r] = [task |-> h, ok |-> ok]]
          /\ queue' = [queue EXCEPT ![r] = Tail(@)]
          /\ tasks' = tasks
          /\ \/ /\ r = "landing"
                /\ \/ h.kind = "export" /\ ExecuteExport(h.link, ok)
                   \/ h.kind = "teardown" /\ ExecuteTeardown(ok)
             \/ /\ r = "transit"
                /\ \/ h.kind = "bind" /\ ExecuteBind(h.link, ok)
                   \/ h.kind = "unbind" /\ ExecuteUnbind(tasks[h].mode.mesh, ok)
    BY <1>3, ExecuteCases
  <2>2. /\ h \in TaskIds /\ result'[r] = [task |-> h, ok |-> ok]
        /\ \A q \in Roles : q # r => result'[q] = result[q]
    BY <2>1, ExecuteStep
  <2>3. CASE r = "landing"
    <3>1. h = e /\ ok
      BY <2>2, <2>3
    <3>2. h.kind = "export" /\ ExecuteExport(h.link, ok)
      BY <2>1, <2>3, <3>1
    <3>3. Mesh(e.link) /\ Mode(e.link)' = Mode(e.link)
      BY <2>1 DEF Mode, Mesh
    <3>4. RunsNext("landing", e.link)
      BY <2>2, <3>1, <3>2, <3>3, LandingStep
    <3>5. QED
      BY <1>n, <3>3, <3>4, RunsKeeps
  <2>4. CASE r = "transit"
    <3>1. result'["landing"] = result["landing"]
      BY <1>n, <2>2, <2>4
    <3>2. conf'["landing"] = conf["landing"] /\ iface'["landing"] = iface["landing"]
      BY <2>1, <2>2, <2>4, TransitStep
    <3>3. QED
      BY <1>s, <3>1, <3>2
  <2>5. QED
    BY <2>3, <2>4, RolesAre
<1>4. QED
  BY <1>1, <1>2, <1>3, Kinds

\* When the exports are all done, the landing runs on the one that was done last,
\* which is the one whose bind is the youngest.
LEMMA LandingMatchesNext ==
  /\ FlowTypeOK /\ Counted /\ Aged /\ Given /\ Batched /\ Answering /\ Posting
  /\ Followed /\ Exported /\ LandingMatches /\ [FlowNext]_flow
  => LandingMatches'
<1> SUFFICES ASSUME FlowTypeOK, Counted, Aged, Given, Batched, Answering, Posting,
                    Followed, Exported, LandingMatches, [FlowNext]_flow,
                    NEW d \in TaskIds, d = Command("teardown", 0),
                    tasks'[d].status = "none",
                    \A t \in Created("export")' : tasks'[t].status = "done",
                    hub'.pc # "follow", ~ missed',
                    NEW g \in Links, LastBind(g)', Mesh(g)'
             PROVE  Runs("landing", g)'
  BY TaskForms DEF LandingMatches
<1>. DEFINE b == Command("bind", g)
            goal == Runs("landing", g)'
<1>b. b \in TaskIds /\ b.kind = "bind" /\ b.link = g /\ Host(b) = "transit"
  BY TaskForms
<1>d. d.kind = "teardown" /\ Host(d) = "landing"
  BY TaskForms
<1>e. \A t \in TaskIds :
        t.kind = "export" /\ tasks'[t].status # "none" => tasks'[t].status = "done"
  BY DEF Created
<1>l. /\ tasks'[b].status # "none"
      /\ \A t \in TaskIds :
           t.kind = "bind" /\ tasks'[t].status # "none" /\ t # b
           => tasks'[t].at < tasks'[b].at
  BY DEF LastBind, Created
<1>m. tasks[b].status # "none" => Mesh(g) /\ Mode(g)' = Mode(g)
  BY ModeKeeps DEF Followed
\* It was so before, if the exports were done before and the bind the youngest.
<1>k. ASSUME tasks[d].status = "none", hub.pc # "follow", ~ missed,
             \A t \in TaskIds :
               t.kind = "export" /\ tasks[t].status # "none" => tasks[t].status = "done",
             tasks[b].status # "none",
             \A t \in TaskIds :
               t.kind = "bind" /\ tasks[t].status # "none" /\ t # b
               => tasks[t].at < tasks[b].at,
             conf'["landing"] = conf["landing"], iface'["landing"] = iface["landing"]
      PROVE  goal
  <2>1. \A t \in Created("export") : tasks[t].status = "done"
    BY <1>k DEF Created
  <2>2. LastBind(g)
    BY <1>k DEF LastBind, Created
  <2>3. Runs("landing", g)
    BY <1>k, <1>m, <2>1, <2>2 DEF LandingMatches
  <2>4. QED
    BY <1>k, <1>m, <2>3, RunsKeeps, RolesAre
<1>. HIDE DEF b, goal
<1>1. ASSUME NEW x \in TaskIds, Creates(x), Shrinks PROVE goal
  <2>1. /\ tasks'[x].status = "queued" /\ tasks'[x].at = second'
        /\ second' \in Nat /\ second <= second'
        /\ \A t \in TaskIds : t # x => tasks'[t] = tasks[t]
    BY <1>1, CreatesStep
  <2>2. x.kind # "export" /\ x # d
    BY <1>e, <2>1
  <2>3. CASE x.kind = "bind"
    <3>1. hub.pc = "follow" /\ hub.task.link = x.link /\ hub # HubIdle
      BY <1>1, <2>3 DEF Creates, HubIdle
    <3>2. /\ hub.task \in TaskIds /\ hub.task.kind = "export" /\ hub.ok
          /\ result[Host(hub.task)] = [task |-> hub.task, ok |-> hub.ok]
          /\ tasks[hub.task].status # "none"
      BY <3>1, AtHub DEF Answering
    <3>3. hub.task = Command("export", x.link) /\ Host(hub.task) = "landing"
          /\ x.link \in Links
      BY <3>1, <3>2, TaskForms
    <3>4. x = b
      <4>1. SUFFICES ASSUME x # b PROVE FALSE
        OBVIOUS
      <4>2. tasks'[x].at < tasks'[b].at /\ tasks'[b] = tasks[b]
        BY <1>b, <1>l, <2>1, <2>3, <4>1
      <4>3. tasks[b].at <= second /\ tasks[b].at \in Nat /\ second \in Nat
        BY <1>b, TaskFields DEF Aged
      <4>4. QED
        BY <2>1, <4>2, <4>3
    <3>5. x.link = g
      BY <1>b, <3>4
    <3>6. Mesh(g) /\ Mode(g)' = Mode(g)
      BY <3>2, <3>3, <3>5, ModeKeeps
    <3>7. result["landing"] = [task |-> Command("export", g), ok |-> TRUE]
      BY <3>2, <3>3, <3>5
    <3>8. Runs("landing", g)
      BY <3>6, <3>7 DEF Exported
    <3>9. conf'["landing"] = conf["landing"] /\ iface'["landing"] = iface["landing"]
      BY <1>1 DEF Shrinks
    <3>10. QED
      BY <3>6, <3>8, <3>9, RunsKeeps, RolesAre DEF goal
  <2>4. CASE x.kind # "bind"
    <3>1. hub' = hub /\ missed' = missed /\ conf' = conf /\ iface' = iface
      BY <1>1, <2>4 DEF Creates, Shrinks
    <3>2. \A t \in TaskIds : t.kind \in {"export", "bind"} => tasks'[t] = tasks[t]
      BY <2>1, <2>2, <2>4
    <3>3. QED
      BY <1>b, <1>e, <1>k, <1>l, <2>1, <2>2, <3>1, <3>2
  <2>5. QED
    BY <2>3, <2>4
<1>2. ASSUME Proceeds, Shrinks PROVE goal
  <2>1. \A t \in TaskIds :
          /\ tasks'[t].at = tasks[t].at
          /\ tasks'[t].status = "none" <=> tasks[t].status = "none"
          /\ t.kind = "export" /\ tasks'[t].status = "done" => tasks[t].status = "done"
    BY <1>2 DEF Proceeds
  <2>2. hub.pc # "follow" /\ ~ missed /\ conf' = conf /\ iface' = iface
    BY <1>2 DEF Proceeds, Shrinks
  <2>3. QED
    BY <1>b, <1>e, <1>k, <1>l, <2>1, <2>2
<1>3. ASSUME NEW r \in Roles, Lease(r) PROVE goal
  <2>1. \A t \in TaskIds :
          /\ tasks'[t].at = tasks[t].at
          /\ tasks'[t] # tasks[t] => tasks[t].status = "queued" /\ tasks'[t].status = "running"
    BY <1>3, LeaseStep
  <2>2. hub' = hub /\ missed' = missed /\ conf' = conf /\ iface' = iface
    BY <1>3 DEF Lease
  <2>3. QED
    BY <1>b, <1>e, <1>k, <1>l, <2>1, <2>2
<1>4. ASSUME NEW r \in Roles, Execute(r) PROVE goal
  <2>. DEFINE h == Head(queue[r])
  <2>1. PICK ok \in BOOLEAN :
          /\ queue[r] # <<>>
          /\ result' = [result EXCEPT ![r] = [task |-> h, ok |-> ok]]
          /\ queue' = [queue EXCEPT ![r] = Tail(@)]
          /\ tasks' = tasks /\ hub' = hub /\ missed' = missed
          /\ \/ /\ r = "landing"
                /\ h.kind = "export" \/ h.kind = "teardown"
             \/ /\ r = "transit"
                /\ \/ h.kind = "bind" /\ ExecuteBind(h.link, ok)
                   \/ h.kind = "unbind" /\ ExecuteUnbind(tasks[h].mode.mesh, ok)
    BY <1>4, ExecuteCases
  <2>2. h \in TaskIds /\ h = queue[r][1] /\ 1 \in DOMAIN queue[r]
    BY <2>1, ExecuteStep
  <2>3. tasks[h].status \notin {"none", "done"}
    BY <2>2 DEF Batched
  <2>4. r = "transit"
    <3>1. h.kind # "export"
      BY <1>e, <2>1, <2>2, <2>3
    <3>2. h.kind # "teardown"
      BY <2>1, <2>2, <2>3, TaskForms
    <3>3. QED
      BY <2>1, <3>1, <3>2
  <2>5. conf'["landing"] = conf["landing"] /\ iface'["landing"] = iface["landing"]
    BY <2>1, <2>2, <2>4, TransitStep
  <2>6. QED
    BY <1>b, <1>e, <1>k, <1>l, <2>1, <2>5
<1>5. goal
  BY <1>1, <1>2, <1>3, <1>4, Kinds
<1>6. QED
  BY <1>5 DEF goal

\* A transit whose binds were each leased once runs on the youngest of them.
LEMMA TransitMatchesNext ==
  /\ FlowTypeOK /\ Counted /\ InTurn /\ Given /\ Batched /\ Answering /\ Posting
  /\ NoneBehind /\ Followed /\ TransitMatches /\ [FlowNext]_flow
  => TransitMatches'
<1> SUFFICES ASSUME FlowTypeOK, Counted, InTurn, Given, Batched, Answering, Posting,
                    NoneBehind, Followed, TransitMatches, [FlowNext]_flow,
                    NEW n \in TaskIds, n = Command("unbind", 0),
                    tasks'[n].status = "none",
                    \A u \in Created("bind")' : tasks'[u].leases = 1,
                    NEW b \in TaskIds, NEW g \in Links, b = Command("bind", g),
                    LastBind(g)', Succeeded(b)'
             PROVE  /\ bound' = g
                    /\ Mesh(g)' => Runs("transit", g)'
  BY TaskForms DEF TransitMatches
<1>. DEFINE goal == /\ bound' = g
                    /\ Mesh(g)' => Runs("transit", g)'
<1>b. b.kind = "bind" /\ b.link = g /\ Host(b) = "transit" /\ "transit" \in Roles
  BY TaskForms, RolesAre
<1>n. n.kind = "unbind"
  BY TaskForms
<1>e. \A u \in TaskIds :
        u.kind = "bind" /\ tasks'[u].status # "none" => tasks'[u].leases = 1
  BY DEF Created
<1>l. /\ tasks'[b].status # "none"
      /\ \A u \in TaskIds :
           u.kind = "bind" /\ tasks'[u].status # "none" /\ u # b
           => tasks'[u].at < tasks'[b].at
  BY DEF LastBind, Created
<1>m. tasks[b].status # "none" => Mode(g)' = Mode(g) /\ Mesh(g)' = Mesh(g)
  BY ModeKeeps DEF Followed
\* It was so before, if the binds were as they are.
<1>k. ASSUME tasks[n].status = "none", Succeeded(b), tasks[b].status # "none",
             \A u \in TaskIds :
               u.kind = "bind" /\ tasks[u].status # "none" =>
                 /\ tasks[u].leases = 1
                 /\ u # b => tasks[u].at < tasks[b].at,
             bound' = bound, conf'["transit"] = conf["transit"],
             iface'["transit"] = iface["transit"]
      PROVE  goal
  <2>1. \A u \in Created("bind") : tasks[u].leases = 1
    BY <1>k DEF Created
  <2>2. LastBind(g)
    BY <1>k DEF LastBind, Created
  <2>3. bound = g /\ (Mesh(g) => Runs("transit", g))
    BY <1>k, <2>1, <2>2 DEF TransitMatches
  <2>4. QED
    BY <1>k, <1>b, <1>m, <2>3, RunsKeeps
<1>1. ASSUME NEW x \in TaskIds, Creates(x), Shrinks PROVE goal
  <2>1. /\ tasks'[x].status = "queued" /\ tasks'[x].leases = 0
        /\ \A t \in TaskIds : t # x => tasks'[t] = tasks[t]
    BY <1>1, CreatesStep
  <2>2. x # n /\ x.kind # "bind"
    BY <1>e, <2>1
  <2>3. Succeeded(b)
    BY <1>1, NoneSucceeds
  <2>4. \A t \in TaskIds : t.kind = "bind" => tasks'[t] = tasks[t]
    BY <2>1, <2>2
  <2>5. tasks[n].status = "none" /\ tasks[b].status # "none"
    BY <1>b, <1>l, <2>1, <2>2
  <2>6. bound' = bound /\ conf' = conf /\ iface' = iface
    BY <1>1 DEF Shrinks
  <2>7. QED
    BY <1>e, <1>k, <1>l, <1>b, <2>3, <2>4, <2>5, <2>6
<1>2. ASSUME Proceeds, Shrinks PROVE goal
  <2>1. \A t \in TaskIds :
          /\ tasks'[t].at = tasks[t].at /\ tasks'[t].leases = tasks[t].leases
          /\ tasks'[t].status = "none" <=> tasks[t].status = "none"
    BY <1>2 DEF Proceeds
  <2>2. Succeeded(b)
    BY <1>2, NoneSucceeds
  <2>3. tasks[n].status = "none" /\ tasks[b].status # "none"
    BY <1>l, <2>1
  <2>4. bound' = bound /\ conf' = conf /\ iface' = iface
    BY <1>2 DEF Shrinks
  <2>5. QED
    BY <1>e, <1>k, <1>l, <2>1, <2>2, <2>3, <2>4
<1>3. ASSUME NEW r \in Roles, Lease(r) PROVE goal
  <2>1. /\ Succeeded(b) /\ tasks'[b] = tasks[b]
        /\ \A u \in TaskIds :
             Host(u) = Host(b) /\ tasks[b].leases >= 1
             /\ tasks'[u].leases = 1 /\ tasks'[u].at < tasks'[b].at
             => tasks'[u] = tasks[u]
    BY <1>3, LeaseKeeps
  <2>2. \A t \in TaskIds :
          tasks'[t] # tasks[t] => tasks[t].status = "queued" /\ tasks'[t].status = "running"
    BY <1>3, LeaseStep
  <2>3. tasks[b].leases = 1 /\ tasks[b].status # "none"
    BY <1>b, <1>e, <1>l, <2>1
  <2>4. \A u \in TaskIds : u.kind = "bind" => Host(u) = Host(b)
    BY <1>b DEF Host
  <2>5. \A u \in TaskIds : u.kind = "bind" /\ tasks[u].status # "none" => tasks'[u] = tasks[u]
    <3>1. SUFFICES ASSUME NEW u \in TaskIds, u.kind = "bind", tasks[u].status # "none"
                   PROVE  tasks'[u] = tasks[u]
      OBVIOUS
    <3>2. tasks'[u].status # "none"
      BY <2>2, <3>1
    <3>3. tasks'[u].leases = 1 /\ (u # b => tasks'[u].at < tasks'[b].at)
      BY <1>e, <1>l, <3>1, <3>2
    <3>4. QED
      BY <2>1, <2>3, <2>4, <3>1, <3>3
  <2>6. tasks[n].status = "none"
    BY <2>2
  <2>7. bound' = bound /\ conf' = conf /\ iface' = iface
    BY <1>3 DEF Lease
  <2>8. QED
    BY <1>e, <1>k, <1>l, <2>1, <2>3, <2>5, <2>6, <2>7
<1>4. ASSUME NEW r \in Roles, Execute(r) PROVE goal
  <2>. DEFINE h == Head(queue[r])
  <2>1. PICK ok \in BOOLEAN :
          /\ queue[r] # <<>>
          /\ result' = [result EXCEPT ![r] = [task |-> h, ok |-> ok]]
          /\ queue' = [queue EXCEPT ![r] = Tail(@)]
          /\ tasks' = tasks
          /\ \/ /\ r = "landing"
                /\ \/ h.kind = "export" /\ ExecuteExport(h.link, ok)
                   \/ h.kind = "teardown" /\ ExecuteTeardown(ok)
             \/ /\ r = "transit"
                /\ \/ h.kind = "bind" /\ ExecuteBind(h.link, ok)
                   \/ h.kind = "unbind" /\ ExecuteUnbind(tasks[h].mode.mesh, ok)
    BY <1>4, ExecuteCases
  <2>2. /\ h \in TaskIds /\ h = queue[r][1] /\ 1 \in DOMAIN queue[r]
        /\ result'[r] = [task |-> h, ok |-> ok]
        /\ \A q \in Roles : q # r => result'[q] = result[q]
    BY <2>1, ExecuteStep
  <2>3. tasks[h].status \notin {"none", "done"}
    BY <2>2 DEF Batched
  <2>m. Mode(g)' = Mode(g) /\ Mesh(g)' = Mesh(g)
    BY <2>1 DEF Mode, Mesh
  <2>4. CASE r = "landing"
    <3>1. Succeeded(b)
      BY <1>b, <2>1, <2>2, <2>4 DEF Succeeded
    <3>2. /\ bound' = bound /\ conf'["transit"] = conf["transit"]
          /\ iface'["transit"] = iface["transit"]
      BY <2>1, <2>2, <2>4, LandingStep
    <3>3. QED
      BY <1>e, <1>k, <1>l, <2>1, <3>1, <3>2
  <2>5. CASE r = "transit"
    <3>1. h.kind # "unbind"
      BY <1>n, <2>1, <2>2, <2>3, TaskForms
    <3>2. h.kind = "bind" /\ ExecuteBind(h.link, ok)
      BY <2>1, <2>5, <3>1
    <3>3. tasks[h].leases = 1 /\ (h # b => tasks[h].at < tasks[b].at) /\ tasks[b].leases >= 1
      BY <1>b, <1>e, <1>l, <2>1, <2>2, <2>3, <3>2
    <3>4. h = b /\ result'[r] = [task |-> b, ok |-> TRUE]
      BY <1>4, <1>b, <2>5, <3>3, ExecuteKeeps
    <3>5. ok
      BY <2>2, <3>4
    <3>6. bound' = g /\ (Mesh(g) => RunsNext("transit", g))
      BY <1>b, <2>2, <3>2, <3>4, <3>5, TransitStep
    <3>7. QED
      BY <1>b, <2>m, <3>6, RunsKeeps
  <2>6. QED
    BY <2>4, <2>5, RolesAre
<1>5. QED
  BY <1>1, <1>2, <1>3, <1>4, Kinds

\* A cleanup task that has succeeded by its first lease, after every task of its
\* host before it did so too, has done so in this step, or in an earlier one and
\* its host has not changed since.
LEMMA CleanupStays ==
  ASSUME FlowTypeOK, Counted, InTurn, Batched, Answering, Posting, NoneBehind,
         [FlowNext]_flow,
         NEW c \in TaskIds, NEW kind,
         \/ kind = "bind" /\ c.kind = "unbind"
         \/ kind = "export" /\ c.kind = "teardown",
         CleansUp(c, kind)'
  PROVE  \/ /\ CleansUp(c, kind) /\ tasks'[c].mode = tasks[c].mode
            /\ conf'[Host(c)] = conf[Host(c)]
            /\ Host(c) = "transit" => bound' = bound
         \/ /\ tasks' = tasks
            /\ \/ c.kind = "unbind" /\ ExecuteUnbind(tasks[c].mode.mesh, TRUE)
               \/ c.kind = "teardown" /\ ExecuteTeardown(TRUE)
<1>c. /\ Host(c) \in Roles
      /\ \A u \in TaskIds : u.kind = kind => Host(u) = Host(c)
      /\ \A u \in TaskIds : u.kind = c.kind => u = c
      /\ \A u \in TaskIds : Host(u) = Host(c) => u.kind = kind \/ u.kind = c.kind
  <2>1. \A u \in TaskIds : u.kind = c.kind => u = c
    BY TaskForms
  <2>2. \A u \in TaskIds : u.kind \in {"export", "bind", "unbind", "teardown"}
    BY TaskForms
  <2>3. QED
    BY <2>1, <2>2, RolesAre DEF Host
<1>a. /\ tasks'[c].leases = 1 /\ Succeeded(c)'
      /\ \A u \in TaskIds : u.kind = kind /\ tasks'[u].status # "none" =>
           tasks'[u].leases = 1 /\ tasks'[u].at < tasks'[c].at
  BY DEF CleansUp, Created
<1>. DEFINE before == CleansUp(c, kind) /\ tasks'[c].mode = tasks[c].mode
            goal ==
              \/ /\ before /\ conf'[Host(c)] = conf[Host(c)]
                 /\ Host(c) = "transit" => bound' = bound
              \/ /\ tasks' = tasks
                 /\ \/ c.kind = "unbind" /\ ExecuteUnbind(tasks[c].mode.mesh, TRUE)
                    \/ c.kind = "teardown" /\ ExecuteTeardown(TRUE)
<1>1. ASSUME NEW x \in TaskIds, Creates(x), Shrinks PROVE goal
  <2>1. /\ tasks'[x].status = "queued" /\ tasks'[x].leases = 0
        /\ \A t \in TaskIds : t # x => tasks'[t] = tasks[t]
    BY <1>1, CreatesStep
  <2>2. x # c /\ x.kind # kind
    BY <1>a, <2>1
  <2>3. Succeeded(c)
    BY <1>a, <1>1, NoneSucceeds
  <2>4. before
    BY <1>a, <2>1, <2>2, <2>3 DEF CleansUp, Created
  <2>5. QED
    BY <1>1, <2>4 DEF Shrinks
<1>2. ASSUME Proceeds, Shrinks PROVE goal
  <2>1. \A t \in TaskIds :
          /\ tasks'[t].at = tasks[t].at /\ tasks'[t].leases = tasks[t].leases
          /\ tasks'[t].mode = tasks[t].mode
          /\ tasks'[t].status = "none" <=> tasks[t].status = "none"
    BY <1>2 DEF Proceeds
  <2>2. Succeeded(c)
    BY <1>a, <1>2, NoneSucceeds
  <2>3. before
    BY <1>a, <2>1, <2>2 DEF CleansUp, Created
  <2>4. QED
    BY <1>2, <2>3 DEF Shrinks
<1>3. ASSUME NEW r \in Roles, Lease(r) PROVE goal
  <2>1. /\ Succeeded(c) /\ tasks'[c] = tasks[c]
        /\ \A u \in TaskIds :
             Host(u) = Host(c) /\ tasks[c].leases >= 1
             /\ tasks'[u].leases = 1 /\ tasks'[u].at < tasks'[c].at
             => tasks'[u] = tasks[u]
    BY <1>a, <1>3, LeaseKeeps
  <2>2. \A t \in TaskIds :
          tasks'[t] # tasks[t] => tasks[t].status = "queued" /\ tasks'[t].status = "running"
    BY <1>3, LeaseStep
  <2>3. \A u \in TaskIds : u.kind = kind /\ tasks[u].status # "none" => tasks'[u] = tasks[u]
    BY <1>a, <1>c, <2>1, <2>2
  <2>4. before
    BY <1>a, <2>1, <2>3 DEF CleansUp, Created
  <2>5. bound' = bound /\ conf' = conf
    BY <1>3 DEF Lease
  <2>6. QED
    BY <2>4, <2>5
<1>4. ASSUME NEW r \in Roles, Execute(r) PROVE goal
  <2>. DEFINE h == Head(queue[r])
  <2>1. PICK ok \in BOOLEAN :
          /\ queue[r] # <<>>
          /\ result' = [result EXCEPT ![r] = [task |-> h, ok |-> ok]]
          /\ queue' = [queue EXCEPT ![r] = Tail(@)]
          /\ tasks' = tasks
          /\ \/ /\ r = "landing"
                /\ \/ h.kind = "export" /\ ExecuteExport(h.link, ok)
                   \/ h.kind = "teardown" /\ ExecuteTeardown(ok)
             \/ /\ r = "transit"
                /\ \/ h.kind = "bind" /\ ExecuteBind(h.link, ok)
                   \/ h.kind = "unbind" /\ ExecuteUnbind(tasks[h].mode.mesh, ok)
    BY <1>4, ExecuteCases
  <2>2. /\ h \in TaskIds /\ h = queue[r][1] /\ 1 \in DOMAIN queue[r]
        /\ Host(h) = r /\ result'[r] = [task |-> h, ok |-> ok]
        /\ \A q \in Roles : q # r => result'[q] = result[q]
    BY <2>1, ExecuteStep
  <2>3. CASE r # Host(c)
    <3>1. Succeeded(c)
      BY <1>a, <1>c, <2>1, <2>2, <2>3 DEF Succeeded
    <3>2. before
      BY <1>a, <2>1, <3>1 DEF CleansUp, Created
    <3>3. CASE r = "landing"
      BY <2>1, <2>2, <2>3, <3>2, <3>3, <1>c, RolesAre, LandingStep
    <3>4. CASE r = "transit"
      BY <2>1, <2>2, <2>3, <3>2, <3>4, <1>c, RolesAre, TransitStep
    <3>5. QED
      BY <3>3, <3>4, RolesAre
  <2>4. CASE r = Host(c)
    <3>1. tasks[h].status \notin {"none", "done"}
      BY <2>2 DEF Batched
    <3>2. h # c => tasks[h].leases = 1 /\ tasks[h].at < tasks[c].at
      BY <1>a, <1>c, <2>1, <2>2, <2>4, <3>1
    <3>3. tasks[c].leases >= 1
      BY <1>a, <2>1
    <3>4. h = c /\ result'[r] = [task |-> c, ok |-> TRUE]
      BY <1>a, <1>4, <2>4, <3>2, <3>3, ExecuteKeeps
    <3>5. ok = TRUE
      BY <2>2, <3>4
    <3>6. QED
      BY <2>1, <3>4, <3>5
  <2>5. QED
    BY <2>3, <2>4
<1>5. QED
  BY <1>1, <1>2, <1>3, <1>4, Kinds

LEMMA UnboundNext ==
  /\ FlowTypeOK /\ Counted /\ InTurn /\ Batched /\ Answering /\ Posting
  /\ NoneBehind /\ Unbound /\ [FlowNext]_flow
  => Unbound'
<1> SUFFICES ASSUME FlowTypeOK, Counted, InTurn, Batched, Answering, Posting,
                    NoneBehind, Unbound, [FlowNext]_flow,
                    NEW c \in TaskIds, c = Command("unbind", 0), CleansUp(c, "bind")'
             PROVE  bound' = 0 /\ (tasks'[c].mode.mesh => conf'["transit"]["default"] = 0)
  BY TaskForms DEF Unbound
<1>1. c.kind = "unbind" /\ Host(c) = "transit"
  BY TaskForms
<1>2. \/ /\ CleansUp(c, "bind") /\ tasks'[c].mode = tasks[c].mode
         /\ conf'["transit"] = conf["transit"] /\ bound' = bound
      \/ tasks' = tasks /\ ExecuteUnbind(tasks[c].mode.mesh, TRUE)
  BY <1>1, CleanupStays
<1>3. CASE /\ CleansUp(c, "bind") /\ tasks'[c].mode = tasks[c].mode
           /\ conf'["transit"] = conf["transit"] /\ bound' = bound
  BY <1>3 DEF Unbound
<1>4. CASE tasks' = tasks /\ ExecuteUnbind(tasks[c].mode.mesh, TRUE)
  BY <1>1, <1>4, TransitStep
<1>5. QED
  BY <1>2, <1>3, <1>4

LEMMA TornDownNext ==
  /\ FlowTypeOK /\ Counted /\ InTurn /\ Batched /\ Answering /\ Posting
  /\ NoneBehind /\ TornDown /\ [FlowNext]_flow
  => TornDown'
<1> SUFFICES ASSUME FlowTypeOK, Counted, InTurn, Batched, Answering, Posting,
                    NoneBehind, TornDown, [FlowNext]_flow,
                    NEW c \in TaskIds, c = Command("teardown", 0), CleansUp(c, "export")'
             PROVE  conf'["landing"]["default"] = 0
  BY TaskForms DEF TornDown
<1>1. c.kind = "teardown" /\ Host(c) = "landing"
  BY TaskForms
<1>2. \/ CleansUp(c, "export") /\ conf'["landing"] = conf["landing"]
      \/ ExecuteTeardown(TRUE)
  BY <1>1, CleanupStays
<1>3. CASE CleansUp(c, "export") /\ conf'["landing"] = conf["landing"]
  BY <1>3 DEF TornDown
<1>4. CASE ExecuteTeardown(TRUE)
  BY <1>1, <1>4, LandingStep
<1>5. QED
  BY <1>2, <1>3, <1>4

LEMMA KeptNext ==
  FlowTypeOK /\ Answering /\ Posting /\ Kept /\ [FlowNext]_flow => Kept'
<1> SUFFICES ASSUME FlowTypeOK, Answering, Posting, Kept, [FlowNext]_flow,
                    NEW q \in Roles
             PROVE  KeptAt(q)'
  BY DEF Kept
<1>1. KeptAt(q)
  BY DEF Kept
<1>2. CASE UNCHANGED <<conf, iface, stuck>>
  BY <1>1, <1>2 DEF KeptAt
<1>3. ASSUME NEW r \in Roles, Execute(r) PROVE KeptAt(q)'
  <2>. DEFINE h == Head(queue[r])
  <2>1. PICK ok \in BOOLEAN :
          /\ queue[r] # <<>>
          /\ result' = [result EXCEPT ![r] = [task |-> h, ok |-> ok]]
          /\ queue' = [queue EXCEPT ![r] = Tail(@)]
          /\ \/ h.kind = "export" /\ ExecuteExport(h.link, ok)
             \/ h.kind = "teardown" /\ ExecuteTeardown(ok)
             \/ h.kind = "bind" /\ ExecuteBind(h.link, ok)
             \/ h.kind = "unbind" /\ ExecuteUnbind(tasks[h].mode.mesh, ok)
    BY <1>3, ExecuteCases
  <2>2. h \in TaskIds
    BY <2>1, ExecuteStep
  <2>3. QED
    BY <1>1, <2>1, <2>2, LandingStep, TransitStep
<1>4. ASSUME NEW r \in Roles, Lease(r) PROVE UNCHANGED <<conf, iface, stuck>>
  BY <1>4 DEF Lease
<1>5. QED
  BY <1>2, <1>3, <1>4, Kinds DEF Shrinks

-------------------------------------------------------------------------------
(* LinkFlow: the theorems *)

LEMMA FlowInvInit == FlowInit => FlowInv
BY FlowTypeInit, AgesInit, BatchesInit, HistoryInit, MatchesInit DEF FlowInv

LEMMA FlowInvNext == FlowInv /\ [FlowNext]_flow => FlowInv'
<1> SUFFICES ASSUME FlowInv, [FlowNext]_flow PROVE FlowInv'
  OBVIOUS
<1>1. FlowTypeOK' /\ Aged' /\ Counted' /\ InTurn' /\ Given'
  BY FlowTypeNext, AgedNext, CountedNext, InTurnNext, GivenNext DEF FlowInv
<1>2. Batched' /\ Answering' /\ Posting' /\ NoneBehind'
  BY BatchedNext, AnsweringNext, PostingNext, NoneBehindNext DEF FlowInv
<1>3. Followed' /\ NotRemoved' /\ Routed'
  BY FollowedNext, NotRemovedNext, RoutedNext DEF FlowInv
<1>4. Exported' /\ LandingMatches' /\ TransitMatches'
  BY ExportedNext, LandingMatchesNext, TransitMatchesNext DEF FlowInv
<1>5. Unbound' /\ TornDown' /\ Kept'
  BY UnboundNext, TornDownNext, KeptNext DEF FlowInv
<1>6. QED
  BY <1>1, <1>2, <1>3, <1>4, <1>5 DEF FlowInv

LEMMA FlowInvariant == FlowSpec => []FlowInv
BY FlowInvInit, FlowInvNext, PTL DEF FlowSpec

\* Every variable has its type: tasks are leased at most MaxLeases times, and an
\* agent holds, executes and answers tasks of its own only.
THEOREM FlowTypeCorrect == FlowSpec => []FlowTypeOK
<1>1. FlowInv => FlowTypeOK
  BY DEF FlowInv
<1>2. QED
  BY <1>1, FlowInvariant, PTL

\* A set of numbers that is not empty has a least one.
LEMMA FirstNumber ==
  ASSUME NEW S, S \subseteq Nat, S # {}
  PROVE  \E x \in S : \A y \in S : x <= y
<1>1. \A y, z \in Nat : y < z => <<y, z>> \in OpToRel(<, Nat)
  <2>1. OpToRel(<, Nat) = {p \in Nat \X Nat : p[1] < p[2]}
    BY Zenon DEF OpToRel
  <2>2. QED
    BY <2>1
<1>2. \E R : /\ IsWellFoundedOn(R, Nat)
             /\ \A y, z \in Nat : y < z => <<y, z>> \in R
  BY <1>1, NatLessThanWellFounded, Zenon
<1>3. PICK R : /\ IsWellFoundedOn(R, Nat)
               /\ \A y, z \in Nat : y < z => <<y, z>> \in R
  BY <1>2, Zenon
<1>4. IsWellFoundedOn(R, Nat)
  BY <1>3
<1>5. PICK x \in S : \A y \in S : ~ (<<y, x>> \in R)
  BY <1>4, WFMin
<1>6. \A y \in S : x \in Nat /\ y \in Nat /\ ~(y < x)
  BY <1>3, <1>5
<1>7. QED
  BY <1>6

\* Of binds that were created in different seconds, one is the last.
LEMMA LastBindIs ==
  ASSUME FlowTypeOK, Aged, Created("bind") # {}, Orderly(Created("bind"))
  PROVE  \E g \in Links : LastBind(g)
<1>1. \A b \in Created("bind") :
        /\ b \in TaskIds /\ b.kind = "bind" /\ tasks[b].status # "none"
        /\ tasks[b].at \in Nat /\ second \in Nat /\ tasks[b].at <= second
  BY TaskFields DEF Created, Aged
<1>. DEFINE S == {second - tasks[b].at : b \in Created("bind")}
<1>2. S \subseteq Nat /\ S # {}
  BY <1>1
<1>3. PICK x \in S : \A y \in S : x <= y
  BY <1>2, FirstNumber
<1>4. PICK b \in Created("bind") : x = second - tasks[b].at
  BY <1>3
<1>5. ASSUME NEW u \in Created("bind"), u # b PROVE tasks[u].at < tasks[b].at
  <2>1. second - tasks[b].at <= second - tasks[u].at
    BY <1>3, <1>4
  <2>2. tasks[u].at # tasks[b].at
    BY <1>5 DEF Orderly
  <2>3. QED
    BY <1>1, <2>1, <2>2
<1>6. b.link \in Links /\ b = Command("bind", b.link)
  BY <1>1, TaskForms
<1>7. LastBind(b.link)
  BY <1>1, <1>5, <1>6 DEF LastBind
<1>8. QED
  BY <1>6, <1>7

\* When all is done and the last export was followed up, both ends of the mesh
\* that the transit routes to have the keys of the same link, and run on them if
\* the link brings them up.
THEOREM MeshesMatch == FlowSpec => []MeshMatches
<1>1. ASSUME FlowInv PROVE MeshMatches
  <2> SUFFICES ASSUME Quiet, Orderly(Created("bind")), ~ missed,
                      \A r \in Roles : registered[r],
                      \A t \in Created("export") \cup Created("bind") :
                        tasks[t].status = "done",
                      bound # 0, Mesh(bound)
               PROVE  \A r \in Roles : Runs(r, bound)
    BY DEF MeshMatches
  <2>1. hub.pc # "follow" /\ removal.pc # "save"
    BY DEF Quiet, HubIdle, RemovalIdle
  <2>3. /\ tasks[Command("unbind", 0)].status = "none"
        /\ tasks[Command("teardown", 0)].status = "none"
    BY <1>1, <2>1 DEF FlowInv, NotRemoved
  <2>4. Created("bind") # {}
    <3>1. bound \in Links
      BY <1>1 DEF FlowInv, FlowTypeOK, Gens
    <3>2. Command("bind", bound) \in Created("bind")
      BY <1>1, <3>1, TaskForms DEF FlowInv, Routed, Created
    <3>3. QED
      BY <3>2
  <2>5. PICK g \in Links : LastBind(g)
    BY <1>1, <2>4, LastBindIs DEF FlowInv
  <2>6. Command("bind", g) \in Created("bind")
    BY <2>5, TaskForms DEF LastBind, Created
  <2>7. Succeeded(Command("bind", g))
    BY <2>6 DEF Succeeded
  <2>8. \A u \in Created("bind") : tasks[u].leases = 1
    BY DEF Orderly
  <2>9. bound = g /\ (Mesh(g) => Runs("transit", g))
    BY <1>1, <2>3, <2>5, <2>7, <2>8 DEF FlowInv, TransitMatches
  <2>10. Runs("landing", g)
    BY <1>1, <2>1, <2>3, <2>5, <2>9 DEF FlowInv, LandingMatches
  <2>11. QED
    BY <2>9, <2>10, RolesAre
<1>2. QED
  BY <1>1, FlowInvariant, PTL

\* What is taken down in the default directory is down, but for a wg-quick down
\* that failed and a configuration in another directory.
LEMMA DownWhenGone ==
  ASSUME FlowInv, NEW r \in Roles, conf[r]["default"] = 0
  PROVE  TakenDown(r)
BY DEF FlowInv, Kept, KeptAt, TakenDown, Dirs

\* A landing that is removed while it is linked leaves no route to it on the
\* transit, and the reported mesh is taken down there.
THEOREM RemovedLandingsAreUnbound == FlowSpec => []RemovedLandingIsUnbound
<1>1. ASSUME FlowInv PROVE RemovedLandingIsUnbound
  <2> SUFFICES ASSUME NEW c, c = Command("unbind", 0), tasks[c].status = "done",
                      Orderly(Created("bind") \cup {c}),
                      \A t \in Created("bind") : tasks[t].at < tasks[c].at
               PROVE  bound = 0 /\ (tasks[c].mode.mesh => TakenDown("transit"))
    BY DEF RemovedLandingIsUnbound
  <2>1. tasks[c].leases = 1 /\ \A t \in Created("bind") : tasks[t].leases = 1
    BY DEF Orderly
  <2>2. CleansUp(c, "bind")
    BY <2>1 DEF CleansUp, Succeeded
  <2>3. QED
    BY <1>1, <2>2, DownWhenGone, RolesAre DEF FlowInv, Unbound
<1>2. QED
  BY <1>1, FlowInvariant, PTL

\* A transit that is removed while a mesh link to it was reported leaves that
\* taken down on the landing.
THEOREM RemovedTransitsAreTornDown == FlowSpec => []RemovedTransitIsTornDown
<1>1. ASSUME FlowInv PROVE RemovedTransitIsTornDown
  <2> SUFFICES ASSUME NEW c, c = Command("teardown", 0), tasks[c].status = "done",
                      Orderly(Created("export") \cup {c}),
                      \A t \in Created("export") : tasks[t].at < tasks[c].at
               PROVE  TakenDown("landing")
    BY DEF RemovedTransitIsTornDown
  <2>1. tasks[c].leases = 1 /\ \A t \in Created("export") : tasks[t].leases = 1
    BY DEF Orderly
  <2>2. CleansUp(c, "export")
    BY <2>1 DEF CleansUp, Succeeded
  <2>3. QED
    BY <1>1, <2>2, DownWhenGone, RolesAre DEF FlowInv, TornDown
<1>2. QED
  BY <1>1, FlowInvariant, PTL
===============================================================================
