------------------------------ MODULE RequestAuth ------------------------------
(***************************************************************************)
(* How the Hub decides whether it handles a signed agent request: the      *)
(* timestamp window, the signature, and the nonce file that tells a        *)
(* request sent again (by the agent's HTTP transport, or by the network)   *)
(* from a new one.                                                         *)
(*                                                                         *)
(* Every delivery runs in a handler of its own.  A handler reads the clock *)
(* and tests the window, then loads the nonce file, reads the clock again, *)
(* prunes and tests, then writes the file back: three steps between which  *)
(* the clock moves on and other handlers run, of the same and of other     *)
(* agents - the file is one for all of them.                               *)
(*                                                                         *)
(* What is abstracted: a request is its nonce; its timestamp is chosen     *)
(* when it is sent, by a clock that may be ahead of the Hub's or behind;   *)
(* whether the agent id, the certificate and the signature fit is a choice.*)
(***************************************************************************)
EXTENDS Integers, FiniteSets

CONSTANTS
  Requests,        \* the nonces
  Agents,
  Owner,           \* [Requests -> Agents], who signs each request
  Handlers,        \* the handlers that may be running at a time
  Skew,            \* agentAuthSkewSeconds
  MaxDrift,        \* bound on the distance of an agent's clock from the Hub's
  MaxClock,        \* bound on the Hub's clock
  MaxDeliveries    \* bound on the deliveries of requests

ASSUME RequestAuthAssumption ==
  /\ Owner \in [Requests -> Agents]
  /\ {Skew, MaxDrift, MaxClock, MaxDeliveries} \subseteq Nat

VARIABLES
  clock,       \* the Hub's now()
  ts,          \* [Requests -> Int \cup {NotSent}], the signed timestamps
  store,       \* the nonces in hub-auth-nonces.json
  handler,     \* [Handlers -> Handler], the deliveries being verified
  deliveries,  \* how many there were
  handled,     \* [Requests -> Nat], how often each request was let through
  overwritten, \* a handler wrote the file back over another handler's write
  overdue      \* the requests whose nonce was tested after their window

vars == <<clock, ts, store, handler, deliveries, handled, overwritten, overdue>>

-------------------------------------------------------------------------------
(* Types and helpers *)

\* Timestamps are at least -MaxDrift.
NotSent == -MaxDrift - 1

\* copy is the store to be written back; stale tells (for the properties)
\* that the file was written since it was loaded.
Handler == [pc: {"idle", "load", "write"}, req: Requests \cup {"none"},
            copy: SUBSET Requests, stale: BOOLEAN]
Idle == [pc |-> "idle", req |-> "none", copy |-> {}, stale |-> FALSE]

Distance(a, b) == IF a < b THEN b - a ELSE a - b
InWindow(r) == Distance(clock, ts[r]) <= Skew

\* Seeded fault: nonces are kept for less than the window is wide.
ForgottenOnTheEdge(r) == ts[r] <= clock - Skew
\* A nonce this old is dropped from the store.
Forgotten(r) == ts[r] < clock - Skew

\* The window of a request is behind the Hub's clock.
Overdue(r) == clock - ts[r] > Skew

\* Seeded fault: the store is rebuilt with the nonces of one agent.
PrunedToOwn(r) == {n \in store : Owner[n] = Owner[r] /\ ~Forgotten(n)}
\* The nonces a handler goes by: those of other agents are left alone.
Pruned(r) == {n \in store : Owner[n] = Owner[r] => ~Forgotten(n)}

Init ==
  /\ clock = 0
  /\ ts = [r \in Requests |-> NotSent]
  /\ store = {}
  /\ handler = [h \in Handlers |-> Idle]
  /\ deliveries = 0
  /\ handled = [r \in Requests |-> 0]
  /\ overwritten = FALSE
  /\ overdue = {}

-------------------------------------------------------------------------------
(* Actions *)

\* The agent signs a request with the time its own clock shows.
Send(r, drift) ==
  /\ ts[r] = NotSent
  /\ ts' = [ts EXCEPT ![r] = clock + drift]
  /\ UNCHANGED <<clock, store, handler, deliveries, handled, overwritten,
                 overdue>>

\* A delivery reaches the Hub and passes the window and the signature.
Check(h, r) ==
  /\ handler[h] = Idle
  /\ ts[r] # NotSent /\ InWindow(r)
  /\ deliveries < MaxDeliveries /\ deliveries' = deliveries + 1
  /\ handler' = [handler EXCEPT ![h] = [Idle EXCEPT !.pc = "load", !.req = r]]
  /\ UNCHANGED <<clock, ts, store, handled, overwritten, overdue>>

\* Load, prune, test.
LoadNonces(h) ==
  /\ handler[h].pc = "load"
  /\ LET r == handler[h].req IN
     /\ handler' = [handler EXCEPT ![h] =
          IF r \in Pruned(r)
          THEN Idle
          ELSE [@ EXCEPT !.pc = "write", !.copy = Pruned(r) \cup {r}]]
     /\ overdue' = IF Overdue(r) THEN overdue \cup {r} ELSE overdue
  /\ UNCHANGED <<clock, ts, store, deliveries, handled, overwritten>>

\* The file is replaced; what the other handlers have loaded is old now.
Save(h) ==
  /\ store' = handler[h].copy
  /\ overwritten' = (overwritten \/ handler[h].stale)
  /\ handler' = [g \in Handlers |->
       IF g = h THEN Idle
       ELSE IF handler[g].pc = "write" THEN [handler[g] EXCEPT !.stale = TRUE]
       ELSE handler[g]]

\* The nonce is recorded: the request goes to its handler.
Accept(h) ==
  /\ handler[h].pc = "write"
  /\ Save(h)
  /\ handled' = [handled EXCEPT ![handler[h].req] = @ + 1]
  /\ UNCHANGED <<clock, ts, deliveries, overdue>>

\* The file cannot be written, or its mode cannot be set once it is.
WriteFails(h) ==
  /\ handler[h].pc = "write"
  /\ \/ Save(h)
     \/ handler' = [handler EXCEPT ![h] = Idle] /\ UNCHANGED <<store, overwritten>>
  /\ UNCHANGED <<clock, ts, deliveries, handled, overdue>>

\* The Hub is killed and restarted: the file is all that is left.
Restart ==
  /\ handler' = [h \in Handlers |-> Idle]
  /\ UNCHANGED <<clock, ts, store, deliveries, handled, overwritten, overdue>>

Tick ==
  /\ clock < MaxClock /\ clock' = clock + 1
  /\ UNCHANGED <<ts, store, handler, deliveries, handled, overwritten, overdue>>

Next ==
  \/ \E r \in Requests, drift \in -MaxDrift..MaxDrift : Send(r, drift)
  \/ \E h \in Handlers, r \in Requests : Check(h, r)
  \/ \E h \in Handlers : LoadNonces(h) \/ Accept(h) \/ WriteFails(h)
  \/ Restart \/ Tick

Spec == Init /\ [][Next]_vars

-------------------------------------------------------------------------------
(* Properties *)

TypeOK ==
  /\ clock \in Nat
  /\ ts \in [Requests -> Int]
  /\ store \subseteq Requests
  /\ handler \in [Handlers -> Handler]
  /\ \A h \in Handlers : handler[h].pc # "idle" => handler[h].req \in Requests
  /\ deliveries \in Nat
  /\ handled \in [Requests -> Nat]
  /\ overwritten \in BOOLEAN
  /\ overdue \subseteq Requests

\* A request delivered again is not handled again ("Hub rejects ... reused
\* nonces", docs/HUB.md), with two exceptions: a handler wrote the nonce file
\* back over another one's write, or the second of the two clock readings of
\* the later delivery found its window passed and its own nonce forgotten.
HandledOnce ==
  \A r \in Requests : handled[r] > 1 => overwritten \/ r \in overdue

\* As long as no handler wrote the nonce file back over another one's write, the
\* nonce of a request that was handled is kept while a delivery of the request
\* could still pass the window, by clocks ahead of the Hub's and behind it alike.
HandledIsRemembered ==
  overwritten \/ \A r \in Requests : handled[r] > 0 /\ InWindow(r) => r \in store

-------------------------------------------------------------------------------
(* The inductive invariant behind both *)

\* A handler that is about to write, from a file nobody has written since, holds
\* every nonce that still counts, and verifies a request that was not handled.
CopyIsComplete ==
  \A h \in Handlers :
    handler[h].pc = "write" /\ ~handler[h].stale =>
      /\ \A r \in Requests : handled[r] > 0 => r \in handler[h].copy \/ Forgotten(r)
      /\ handled[handler[h].req] > 0 => handler[h].req \in overdue
      /\ handler[h].req \in handler[h].copy

StoreIsComplete ==
  \A r \in Requests : handled[r] > 0 => r \in store \/ Forgotten(r)

\* Only requests that were sent are verified and handled.
SentFirst ==
  /\ \A r \in Requests : handled[r] > 0 => ts[r] # NotSent
  /\ \A h \in Handlers : handler[h].pc # "idle" => ts[handler[h].req] # NotSent

AuthInv ==
  /\ SentFirst
  /\ HandledOnce
  /\ overwritten \/ (StoreIsComplete /\ CopyIsComplete)
===============================================================================
