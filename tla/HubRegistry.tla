------------------------------ MODULE HubRegistry ------------------------------
(***************************************************************************)
(* The files in which the Hub keeps its agents (hub-agents.json), token    *)
(* verifiers (hub-agent-tokens.json), enrollment codes                     *)
(* (hub-enroll-codes.json) and removed agents (hub-removed-agents.json),   *)
(* and the operations on them: a heartbeat, an invitation, the redemption  *)
(* of its code by an agent, the provisioning, import and removal of an     *)
(* agent, and the issue and revocation of its token.                       *)
(*                                                                         *)
(* Each file holds the data of all agents.  An operation loads the whole   *)
(* file, changes an entry and writes the whole file back; nothing locks    *)
(* it.  A worker is one goroutine of the HTTP server or one process of the *)
(* command line or bot.  With one worker operations are serialised, with   *)
(* two they overlap in every way.                                          *)
(*                                                                         *)
(* The expiry of a code is not a variable: an expired code is one whose    *)
(* redemption is never started.                                            *)
(***************************************************************************)
EXTENDS Integers, FiniteSets

CONSTANTS
  Workers,
  Agents,
  NoAgent,
  Codes,      \* enrollment codes, by code_id
  NoCode,     \* "no code": the agent is provisioned with a bundle
  CodeAgent,  \* [Codes -> Agents], the agent a code is bound to
  Enrolled,   \* the agents that are enrolled when the behaviour starts
  Commands,   \* the operations other than a heartbeat that take place
  MaxTokens,  \* bound on the tokens issued in a behaviour
  MaxCrashes  \* bound on the crashes of a behaviour

AllCommands == {"invite", "redeem", "provision", "import", "remove",
                "issue", "revoke"}

ASSUME HubRegistryAssumption ==
  /\ NoAgent \notin Agents
  /\ NoCode \notin Codes
  /\ CodeAgent \in [Codes -> Agents]
  /\ Enrolled \subseteq Agents /\ IsFiniteSet(Enrolled)
  /\ Cardinality(Enrolled) <= MaxTokens
  /\ Commands \subseteq AllCommands
  /\ MaxTokens \in Nat /\ MaxCrashes \in Nat

VARIABLES
  registry,  \* [Agents -> Entries], hub-agents.json
  verifier,  \* [Agents -> Tokens], hub-agent-tokens.json
  codes,     \* [Codes -> CodeStates], hub-enroll-codes.json
  tombstones,\* SUBSET Agents, hub-removed-agents.json
  issued,    \* tokens generated so far
  token,     \* [Agents -> Tokens], the token the agent has on its machine
  invites,   \* SUBSET Codes, the invitations printed for their agents
  granted,   \* [Codes -> Nat], credentials answered for a code
  removed,   \* SUBSET Agents, removed on purpose and not added again since
  pc,        \* [Workers -> Labels]
  who,       \* [Workers -> Agents \cup {NoAgent}]
  code,      \* [Workers -> Codes \cup {NoCode}]
  new,       \* [Workers -> Tokens], the token it is issuing
  agentsCopy,\* [Workers -> [Agents -> Entries]], its copies in memory
  keysCopy,  \* [Workers -> [Agents -> Tokens]]
  codesCopy, \* [Workers -> [Codes -> CodeStates]]
  tombsCopy, \* [Workers -> SUBSET Agents]
  crashes

files == <<registry, verifier, codes, tombstones>>
outside == <<token, invites, granted, removed>>
copies == <<agentsCopy, keysCopy, codesCopy, tombsCopy>>
work == <<pc, who, code, new, copies>>
vars == <<files, issued, outside, work, crashes>>

-------------------------------------------------------------------------------

\* An entry is pending while enrollment_status is pending and last_seen is not
\* set (isPendingAgent); validateRegistration sets last_seen, so registering an
\* agent makes it live.
Entries == {"absent", "pending", "live"}
CodeStates == {"none", "open", "used"}
Tokens == 0..MaxTokens      \* 0: none
Labels == {"idle", "beatSave", "importSave", "inviteCodes", "inviteAgents",
           "inviteSave", "redeemAgents", "redeemSave", "redeemToken",
           "redeemKeys", "redeemCodes", "redeemAnswer", "keysSave",
           "removeSave", "removeTombs", "tombsSave"}

NoAgents == [a \in Agents |-> "absent"]
NoKeys == [a \in Agents |-> 0]
NoCodes == [c \in Codes |-> "none"]

Goto(w, label) == pc' = [pc EXCEPT ![w] = label]

Begin(w, label, a, c) == /\ pc[w] = "idle"
                         /\ Goto(w, label)
                         /\ who' = [who EXCEPT ![w] = a]
                         /\ code' = [code EXCEPT ![w] = c]

\* Load hub-agents.json and change one entry of the copy.
TakeAgents(w, a, e) ==
  agentsCopy' = [agentsCopy EXCEPT ![w] = [registry EXCEPT ![a] = e]]
TakeKeys(w, a, k) ==
  keysCopy' = [keysCopy EXCEPT ![w] = [verifier EXCEPT ![a] = k]]
TakeCodes(w, c, s) ==
  codesCopy' = [codesCopy EXCEPT ![w] = [codes EXCEPT ![c] = s]]

\* The operation ends: it has answered, failed with an error, or died.
Release(w) == /\ Goto(w, "idle")
              /\ who' = [who EXCEPT ![w] = NoAgent]
              /\ code' = [code EXCEPT ![w] = NoCode]
              /\ new' = [new EXCEPT ![w] = 0]
              /\ agentsCopy' = [agentsCopy EXCEPT ![w] = NoAgents]
              /\ keysCopy' = [keysCopy EXCEPT ![w] = NoKeys]
              /\ codesCopy' = [codesCopy EXCEPT ![w] = NoCodes]
              /\ tombsCopy' = [tombsCopy EXCEPT ![w] = {}]

\* A token nobody has: a random one, or one the operator makes up.
Generate(w) == /\ issued < MaxTokens
               /\ issued' = issued + 1
               /\ new' = [new EXCEPT ![w] = issued + 1]

\* Before the behaviour starts the agents of Enrolled were given a token each.
InitialTokens ==
  {t \in [Agents -> 0..Cardinality(Enrolled)] :
     /\ \A a \in Agents : t[a] # 0 <=> a \in Enrolled
     /\ \A a, b \in Enrolled : t[a] = t[b] => a = b}

Init ==
  /\ registry = [a \in Agents |-> IF a \in Enrolled THEN "live" ELSE "absent"]
  /\ verifier \in InitialTokens
  /\ token = verifier
  /\ issued = Cardinality(Enrolled)
  /\ codes = NoCodes
  /\ tombstones = {} /\ removed = {} /\ invites = {}
  /\ granted = [c \in Codes |-> 0]
  /\ pc = [w \in Workers |-> "idle"]
  /\ who = [w \in Workers |-> NoAgent]
  /\ code = [w \in Workers |-> NoCode]
  /\ new = [w \in Workers |-> 0]
  /\ agentsCopy = [w \in Workers |-> NoAgents]
  /\ keysCopy = [w \in Workers |-> NoKeys]
  /\ codesCopy = [w \in Workers |-> NoCodes]
  /\ tombsCopy = [w \in Workers |-> {}]
  /\ crashes = 0

-------------------------------------------------------------------------------
(* Operations that load hub-agents.json, change an entry and save *)

\* Seeded fault: a heartbeat registers an agent the Hub does not know.
BeatLoadUnknown(w, a) ==
  /\ token[a] # 0 /\ token[a] = verifier[a]
  /\ Begin(w, "beatSave", a, NoCode)
  /\ TakeAgents(w, a, "live")
  /\ UNCHANGED <<files, issued, outside, new, keysCopy, codesCopy, tombsCopy,
                 crashes>>

\* updateHeartbeat (and storeHubSyncSnapshot, which leaves last_seen alone), for
\* a request signed with the agent's token.  Between the load and the save the
\* Hub may be looking up the location of the agent's address.
BeatLoad(w, a) ==
  /\ token[a] # 0 /\ token[a] = verifier[a]
  /\ registry[a] # "absent"
  /\ Begin(w, "beatSave", a, NoCode)
  /\ \E e \in {"live", registry[a]} : TakeAgents(w, a, e)
  /\ UNCHANGED <<files, issued, outside, new, keysCopy, codesCopy, tombsCopy,
                 crashes>>

\* Seeded fault: the agents that are not heard from are not written back.
BeatSaveAlone(w) ==
  /\ pc[w] = "beatSave"
  /\ registry' = [NoAgents EXCEPT ![who[w]] = agentsCopy[w][who[w]]]
  /\ Release(w)
  /\ UNCHANGED <<verifier, codes, tombstones, issued, outside, crashes>>

BeatSave(w) ==
  /\ pc[w] = "beatSave"
  /\ registry' = agentsCopy[w]
  /\ Release(w)
  /\ UNCHANGED <<verifier, codes, tombstones, issued, outside, crashes>>

\* importAgentRegistration
ImportLoad(w, a) ==
  /\ "import" \in Commands
  /\ Begin(w, "importSave", a, NoCode)
  /\ TakeAgents(w, a, "live")
  /\ UNCHANGED <<files, issued, outside, new, keysCopy, codesCopy, tombsCopy,
                 crashes>>

ImportSave(w) ==
  /\ pc[w] = "importSave"
  /\ registry' = agentsCopy[w]
  /\ removed' = removed \ {who[w]}
  /\ Release(w)
  /\ UNCHANGED <<verifier, codes, tombstones, issued, token, invites, granted,
                 crashes>>

-------------------------------------------------------------------------------
(* createHubEnrollInvite: the code is stored, then its agent as pending *)

InviteLoad(w, c) ==
  /\ "invite" \in Commands
  /\ codes[c] = "none"
  /\ c \notin invites /\ \A v \in Workers : code[v] # c
  /\ Begin(w, "inviteCodes", CodeAgent[c], c)
  /\ TakeCodes(w, c, "open")
  /\ UNCHANGED <<files, issued, outside, new, agentsCopy, keysCopy, tombsCopy,
                 crashes>>

InviteCodes(w) ==
  /\ pc[w] = "inviteCodes"
  /\ codes' = codesCopy[w]
  /\ Goto(w, "inviteAgents")
  /\ UNCHANGED <<registry, verifier, tombstones, issued, outside, who, code, new,
                 copies, crashes>>

\* Seeded fault: an invitation shows its agent as pending in any case.
InviteKnownPending(w) ==
  /\ pc[w] = "inviteAgents" /\ registry[who[w]] = "live"
  /\ TakeAgents(w, who[w], "pending")
  /\ Goto(w, "inviteSave")
  /\ UNCHANGED <<files, issued, outside, who, code, new, keysCopy, codesCopy,
                 tombsCopy, crashes>>

\* upsertPendingHubAgent leaves the entry of a connected agent alone.
InviteKnown(w) ==
  /\ pc[w] = "inviteAgents" /\ registry[who[w]] = "live"
  /\ invites' = invites \cup {code[w]}
  /\ Release(w)
  /\ UNCHANGED <<files, issued, token, granted, removed, crashes>>

InviteAgents(w) ==
  /\ pc[w] = "inviteAgents" /\ registry[who[w]] # "live"
  /\ TakeAgents(w, who[w], "pending")
  /\ Goto(w, "inviteSave")
  /\ UNCHANGED <<files, issued, outside, who, code, new, keysCopy, codesCopy,
                 tombsCopy, crashes>>

InviteSave(w) ==
  /\ pc[w] = "inviteSave"
  /\ registry' = agentsCopy[w]
  /\ removed' = removed \ {who[w]}
  /\ invites' = invites \cup {code[w]}
  /\ Release(w)
  /\ UNCHANGED <<verifier, codes, tombstones, issued, token, granted, crashes>>

-------------------------------------------------------------------------------
(* redeemHubEnrollCode, and provisionHubAgentBundle, which has no code *)

\* The code is checked and marked in memory; the file is written only once the
\* credentials are there.
RedeemLoad(w, c) ==
  /\ "redeem" \in Commands
  /\ c \in invites /\ codes[c] = "open"
  /\ Begin(w, "redeemAgents", CodeAgent[c], c)
  /\ TakeCodes(w, c, "used")
  /\ UNCHANGED <<files, issued, outside, new, agentsCopy, keysCopy, tombsCopy,
                 crashes>>

Provision(w, a) ==
  /\ "provision" \in Commands
  /\ Begin(w, "redeemAgents", a, NoCode)
  /\ UNCHANGED <<files, issued, outside, new, copies, crashes>>

RedeemAgents(w) ==
  /\ pc[w] = "redeemAgents"
  /\ TakeAgents(w, who[w], "live")
  /\ Goto(w, "redeemSave")
  /\ UNCHANGED <<files, issued, outside, who, code, new, keysCopy, codesCopy,
                 tombsCopy, crashes>>

RedeemSave(w) ==
  /\ pc[w] = "redeemSave"
  /\ registry' = agentsCopy[w]
  /\ removed' = removed \ {who[w]}
  /\ Goto(w, "redeemToken")
  /\ UNCHANGED <<verifier, codes, tombstones, issued, token, invites, granted,
                 who, code, new, copies, crashes>>

\* issueHubAgentToken wants the agent to be in the registry.
RedeemToken(w) ==
  /\ pc[w] = "redeemToken" /\ registry[who[w]] # "absent"
  /\ Generate(w)
  /\ TakeKeys(w, who[w], issued + 1)
  /\ Goto(w, "redeemKeys")
  /\ UNCHANGED <<files, outside, who, code, agentsCopy, codesCopy, tombsCopy,
                 crashes>>

RedeemKeys(w) ==
  /\ pc[w] = "redeemKeys"
  /\ verifier' = keysCopy[w]
  /\ Goto(w, IF code[w] = NoCode THEN "redeemAnswer" ELSE "redeemCodes")
  /\ UNCHANGED <<registry, codes, tombstones, issued, outside, who, code, new,
                 copies, crashes>>

\* Seeded fault: the used code is never written back.
RedeemCodesUnmarked(w) ==
  /\ pc[w] = "redeemCodes"
  /\ Goto(w, "redeemAnswer")
  /\ UNCHANGED <<files, issued, outside, who, code, new, copies, crashes>>

\* The codes are written back as they were when the redemption started.
RedeemCodes(w) ==
  /\ pc[w] = "redeemCodes"
  /\ codes' = codesCopy[w]
  /\ Goto(w, "redeemAnswer")
  /\ UNCHANGED <<registry, verifier, tombstones, issued, outside, who, code, new,
                 copies, crashes>>

\* The agent is not in the registry (any more), or its token or certificate
\* cannot be made: the caller gets an error.
RedeemFails(w) ==
  /\ pc[w] \in {"redeemToken", "redeemCodes"}
  /\ Release(w)
  /\ UNCHANGED <<files, issued, outside, crashes>>

\* The agent writes the answer to its enrollment files, or never gets it.
RedeemAnswer(w) ==
  /\ pc[w] = "redeemAnswer"
  /\ granted' = IF code[w] = NoCode THEN granted
                                    ELSE [granted EXCEPT ![code[w]] = @ + 1]
  /\ token' \in {token, [token EXCEPT ![who[w]] = new[w]]}
  /\ Release(w)
  /\ UNCHANGED <<files, issued, invites, removed, crashes>>

-------------------------------------------------------------------------------
(* issueHubAgentToken, rotateHubAgentToken, revokeHubAgentToken *)

\* The operator's --token: any that was issued before, be it in use or not.
Given(w, k) == /\ k \in 1..issued
               /\ new' = [new EXCEPT ![w] = k]
               /\ UNCHANGED issued

IssueLoad(w, a) ==
  /\ "issue" \in Commands
  /\ registry[a] # "absent"
  /\ Begin(w, "keysSave", a, NoCode)
  /\ Generate(w) \/ \E k \in Tokens : Given(w, k)
  /\ TakeKeys(w, a, new'[w])
  /\ UNCHANGED <<files, outside, agentsCopy, codesCopy, tombsCopy, crashes>>

RevokeLoad(w, a) ==
  /\ "revoke" \in Commands
  /\ Begin(w, "keysSave", a, NoCode)
  /\ TakeKeys(w, a, 0)
  /\ UNCHANGED <<files, issued, outside, new, agentsCopy, codesCopy, tombsCopy,
                 crashes>>

\* The operator takes a new token to the agent's machine, or has not yet.
KeysSave(w) ==
  /\ pc[w] = "keysSave"
  /\ verifier' = keysCopy[w]
  /\ \/ UNCHANGED token
     \/ new[w] # 0 /\ token' = [token EXCEPT ![who[w]] = new[w]]
  /\ Release(w)
  /\ UNCHANGED <<registry, codes, tombstones, issued, invites, granted, removed,
                 crashes>>

-------------------------------------------------------------------------------
(* removeHubAgent; the cancellation of the agent's tasks is in HubTasks *)

RemoveLoad(w, a) ==
  /\ "remove" \in Commands
  /\ registry[a] # "absent"
  /\ Begin(w, "removeSave", a, NoCode)
  /\ TakeAgents(w, a, "absent")
  /\ UNCHANGED <<files, issued, outside, new, keysCopy, codesCopy, tombsCopy,
                 crashes>>

RemoveSave(w) ==
  /\ pc[w] = "removeSave"
  /\ registry' = agentsCopy[w]
  /\ removed' = removed \cup {who[w]}
  /\ Goto(w, "removeTombs")
  /\ UNCHANGED <<verifier, codes, tombstones, issued, token, invites, granted,
                 who, code, new, copies, crashes>>

RemoveTombs(w) ==
  /\ pc[w] = "removeTombs"
  /\ tombsCopy' = [tombsCopy EXCEPT ![w] = tombstones \cup {who[w]}]
  /\ Goto(w, "tombsSave")
  /\ UNCHANGED <<files, issued, outside, who, code, new, agentsCopy, keysCopy,
                 codesCopy, crashes>>

\* --no-tombstone
RemoveUnrecorded(w) ==
  /\ pc[w] = "removeTombs"
  /\ Release(w)
  /\ UNCHANGED <<files, issued, outside, crashes>>

TombsSave(w) ==
  /\ pc[w] = "tombsSave"
  /\ tombstones' = tombsCopy[w]
  /\ Release(w)
  /\ UNCHANGED <<registry, verifier, codes, issued, outside, crashes>>

-------------------------------------------------------------------------------

\* The process a worker runs in is killed.
Crash(w) ==
  /\ pc[w] # "idle"
  /\ crashes < MaxCrashes
  /\ crashes' = crashes + 1
  /\ Release(w)
  /\ UNCHANGED <<files, issued, outside>>

Start(w) ==
  \/ \E a \in Agents : \/ BeatLoad(w, a) \/ ImportLoad(w, a) \/ Provision(w, a)
                       \/ IssueLoad(w, a) \/ RevokeLoad(w, a) \/ RemoveLoad(w, a)
  \/ \E c \in Codes : InviteLoad(w, c) \/ RedeemLoad(w, c)

Proceed(w) ==
  \/ BeatSave(w) \/ ImportSave(w)
  \/ InviteCodes(w) \/ InviteKnown(w) \/ InviteAgents(w) \/ InviteSave(w)
  \/ RedeemAgents(w) \/ RedeemSave(w) \/ RedeemToken(w) \/ RedeemKeys(w)
  \/ RedeemCodes(w) \/ RedeemFails(w) \/ RedeemAnswer(w)
  \/ KeysSave(w)
  \/ RemoveSave(w) \/ RemoveTombs(w) \/ RemoveUnrecorded(w) \/ TombsSave(w)

Next == \E w \in Workers : Start(w) \/ Proceed(w) \/ Crash(w)

Spec == Init /\ [][Next]_vars

-------------------------------------------------------------------------------
(* What holds however the operations overlap *)

Inviting == {"inviteCodes", "inviteAgents", "inviteSave"}

TypeOK ==
  /\ registry \in [Agents -> Entries]
  /\ verifier \in [Agents -> Tokens]
  /\ codes \in [Codes -> CodeStates]
  /\ tombstones \subseteq Agents
  /\ issued \in Tokens
  /\ token \in [Agents -> Tokens]
  /\ invites \subseteq Codes
  /\ granted \in [Codes -> Nat]
  /\ removed \subseteq Agents
  /\ pc \in [Workers -> Labels]
  /\ who \in [Workers -> Agents \cup {NoAgent}]
  /\ code \in [Workers -> Codes \cup {NoCode}]
  /\ new \in [Workers -> Tokens]
  /\ agentsCopy \in [Workers -> [Agents -> Entries]]
  /\ keysCopy \in [Workers -> [Agents -> Tokens]]
  /\ codesCopy \in [Workers -> [Codes -> CodeStates]]
  /\ tombsCopy \in [Workers -> SUBSET Agents]
  /\ crashes \in Nat
  /\ \A w \in Workers : pc[w] # "idle" => who[w] \in Agents
  /\ \A w \in Workers : pc[w] \in Inviting => code[w] \in Codes

\* As long as no agent is removed, the agents that are enrolled neither drop out
\* of the registry nor show as pending again, although every operation writes
\* back entries of other agents that it read some time ago, and although they
\* may be invited, enrolled and imported again.
SteadyRegistry ==
  "remove" \notin Commands => \A a \in Enrolled : registry[a] = "live"

-------------------------------------------------------------------------------
(* What holds while the operations do not overlap *)

\* docs/PROTOCOL_CONTRACT.md: a "short-lived, single-use code".  However often an
\* invitation is redeemed, and whenever the Hub dies while it is, credentials
\* are answered for it once.
CodeIsSingleUse == \A c \in Codes : granted[c] <= 1

\* An agent that has its credentials is known to the Hub until it is removed:
\* otherwise its heartbeats are refused with "agent not found" for good.
EnrolledIsRegistered ==
  \A a \in Agents : token[a] # 0 /\ a \notin removed => registry[a] # "absent"

\* docs/HUB.md: of a removed agent the "active registry entry is removed".  It
\* comes back only if it is invited, enrolled, provisioned or imported again.
RemovedStaysOut == \A a \in removed : registry[a] = "absent"

Directory == INSTANCE AgentDirectory WITH
               entry <- registry, key <- verifier, code <- codes,
               Keys <- 1..MaxTokens, NoKey <- 0

DirectorySpec == Directory!Spec
===============================================================================
