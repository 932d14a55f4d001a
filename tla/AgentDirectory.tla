---------------------------- MODULE AgentDirectory ----------------------------
(***************************************************************************)
(* What the Hub promises about its agents, enrollment codes and tokens: an *)
(* operation changes the entry of the agent it is about, and no other, and *)
(* a code is used once.  HubRegistry, where an operation reads whole files *)
(* and later writes whole files, is shown to implement this specification  *)
(* as long as the operations do not overlap.                               *)
(***************************************************************************)
CONSTANTS Agents, Codes, Keys, NoKey

VARIABLES entry, \* [Agents -> {"absent", "pending", "live"}]
          key,   \* [Agents -> Keys \cup {NoKey}], the token verifier
          code   \* [Codes -> {"none", "open", "used"}]

vars == <<entry, key, code>>

TypeOK == /\ entry \in [Agents -> {"absent", "pending", "live"}]
          /\ key \in [Agents -> Keys \cup {NoKey}]
          /\ code \in [Codes -> {"none", "open", "used"}]

Init == /\ TypeOK
        /\ \A a \in Agents : entry[a] = "pending" => key[a] = NoKey
        /\ code = [c \in Codes |-> "none"]

Entry(a, e) == /\ entry' = [entry EXCEPT ![a] = e]
               /\ UNCHANGED <<key, code>>

\* An invitation shows its agent as pending, unless it is connected already.
Invite(a) == entry[a] # "live" /\ Entry(a, "pending")

\* Enrolling, importing, provisioning and a heartbeat make an agent live.
Register(a) == Entry(a, "live")

Remove(a) == entry[a] # "absent" /\ Entry(a, "absent")

\* A token is issued to a known agent.  It may be one in use: an operator can
\* name it.
Issue(a) == /\ entry[a] # "absent"
            /\ \E k \in Keys : key' = [key EXCEPT ![a] = k]
            /\ UNCHANGED <<entry, code>>

Revoke(a) == /\ key' = [key EXCEPT ![a] = NoKey]
             /\ UNCHANGED <<entry, code>>

OpenCode(c) == /\ code[c] = "none"
               /\ code' = [code EXCEPT ![c] = "open"]
               /\ UNCHANGED <<entry, key>>

UseCode(c) == /\ code[c] = "open"
              /\ code' = [code EXCEPT ![c] = "used"]
              /\ UNCHANGED <<entry, key>>

Next == \/ \E a \in Agents : \/ Invite(a) \/ Register(a) \/ Remove(a) \/ Issue(a)
                             \/ Revoke(a)
        \/ \E c \in Codes : OpenCode(c) \/ UseCode(c)

Spec == Init /\ [][Next]_vars
===============================================================================
