-------------------------- MODULE HubRegistryProofs --------------------------
(***************************************************************************)
(* Theorems about HubRegistry, for any number of agents, codes and         *)
(* workers: its type correctness, and that overlapping operations other    *)
(* than removals leave the enrolled agents in the registry.  And, for one  *)
(* worker, that is while operations do not overlap: the invariants on      *)
(* codes, enrolled and removed agents, and that the files implement        *)
(* AgentDirectory.                                                         *)
(***************************************************************************)
EXTENDS HubRegistry, FiniteSetTheorems, TLAPS

USE DEF files, outside, copies, work

FilesTypeOK == /\ registry \in [Agents -> Entries]
               /\ verifier \in [Agents -> Tokens]
               /\ codes \in [Codes -> CodeStates]
               /\ tombstones \subseteq Agents

OutsideTypeOK == /\ issued \in Tokens
                 /\ token \in [Agents -> Tokens]
                 /\ invites \subseteq Codes
                 /\ granted \in [Codes -> Nat]
                 /\ removed \subseteq Agents
                 /\ crashes \in Nat

WorkTypeOK == /\ pc \in [Workers -> Labels]
              /\ who \in [Workers -> Agents \cup {NoAgent}]
              /\ code \in [Workers -> Codes \cup {NoCode}]
              /\ new \in [Workers -> Tokens]
              /\ \A w \in Workers : pc[w] # "idle" => who[w] \in Agents
              /\ \A w \in Workers : pc[w] \in Inviting => code[w] \in Codes

CopiesTypeOK == /\ agentsCopy \in [Workers -> [Agents -> Entries]]
                /\ keysCopy \in [Workers -> [Agents -> Tokens]]
                /\ codesCopy \in [Workers -> [Codes -> CodeStates]]
                /\ tombsCopy \in [Workers -> SUBSET Agents]

\* The type invariant holds after a step if its four parts do.
LEMMA TypeParts ==
  FilesTypeOK' /\ OutsideTypeOK' /\ WorkTypeOK' /\ CopiesTypeOK' => TypeOK'
  BY DEF TypeOK, FilesTypeOK, OutsideTypeOK, WorkTypeOK, CopiesTypeOK

\* The values the operations store are values of their files.
LEMMA Values ==
  /\ \A e \in {"absent", "pending", "live"} : e \in Entries
  /\ \A s \in {"none", "open", "used"} : s \in CodeStates
  /\ 0 \in Tokens
  /\ NoAgents \in [Agents -> Entries]
  /\ NoKeys \in [Agents -> Tokens]
  /\ NoCodes \in [Codes -> CodeStates]
  BY HubRegistryAssumption
  DEF Entries, CodeStates, Tokens, NoAgents, NoKeys, NoCodes

\* A copy of a file with one entry changed has the type of the file.
LEMMA TakeType ==
  ASSUME TypeOK, NEW w \in Workers
  PROVE  /\ \A a \in Agents, e \in Entries :
              TakeAgents(w, a, e) =>
                agentsCopy' \in [Workers -> [Agents -> Entries]]
         /\ \A a \in Agents, k \in Tokens :
              TakeKeys(w, a, k) => keysCopy' \in [Workers -> [Agents -> Tokens]]
         /\ \A c \in Codes, s \in CodeStates :
              TakeCodes(w, c, s) =>
                codesCopy' \in [Workers -> [Codes -> CodeStates]]
<1>1. ASSUME NEW a \in Agents, NEW e \in Entries, TakeAgents(w, a, e)
      PROVE  agentsCopy' \in [Workers -> [Agents -> Entries]]
  <2>1. [registry EXCEPT ![a] = e] \in [Agents -> Entries]
    BY DEF TypeOK
  <2>2. QED
    BY <1>1, <2>1 DEF TypeOK, TakeAgents
<1>2. ASSUME NEW a \in Agents, NEW k \in Tokens, TakeKeys(w, a, k)
      PROVE  keysCopy' \in [Workers -> [Agents -> Tokens]]
  <2>1. [verifier EXCEPT ![a] = k] \in [Agents -> Tokens]
    BY DEF TypeOK
  <2>2. QED
    BY <1>2, <2>1 DEF TypeOK, TakeKeys
<1>3. ASSUME NEW c \in Codes, NEW s \in CodeStates, TakeCodes(w, c, s)
      PROVE  codesCopy' \in [Workers -> [Codes -> CodeStates]]
  <2>1. [codes EXCEPT ![c] = s] \in [Codes -> CodeStates]
    BY DEF TypeOK
  <2>2. QED
    BY <1>3, <2>1 DEF TypeOK, TakeCodes
<1>4. QED
  BY <1>1, <1>2, <1>3

\* A new token is a token.
LEMMA GenerateType ==
  ASSUME TypeOK, NEW w \in Workers, Generate(w)
  PROVE  /\ issued + 1 \in Tokens
         /\ issued' \in Tokens
         /\ new' \in [Workers -> Tokens]
  BY HubRegistryAssumption DEF TypeOK, Generate, Tokens

\* A worker that goes on keeps the types of its local variables.
LEMMA GotoType ==
  ASSUME TypeOK, NEW w \in Workers, NEW l \in Labels, pc[w] # "idle",
         l \in Inviting => code[w] \in Codes,
         Goto(w, l), UNCHANGED <<who, code, new>>
  PROVE  WorkTypeOK'
  BY DEF TypeOK, WorkTypeOK, Goto

\* Beginning an operation on an agent keeps the types of the local variables.
LEMMA BeginType ==
  ASSUME TypeOK, NEW w \in Workers, NEW l \in Labels, NEW a \in Agents,
         NEW c \in Codes \cup {NoCode}, l \in Inviting => c \in Codes,
         Begin(w, l, a, c),
         new' \in [Workers -> Tokens]
  PROVE  WorkTypeOK'
  BY DEF TypeOK, WorkTypeOK, Begin, Goto

\* Ending it does, too, and clears the copies.
LEMMA ReleaseType ==
  ASSUME TypeOK, NEW w \in Workers, Release(w)
  PROVE  WorkTypeOK' /\ CopiesTypeOK'
<1>1. "idle" \in Labels /\ "idle" \notin Inviting
  BY DEF Labels, Inviting
<1>2. WorkTypeOK'
  BY <1>1, Values DEF TypeOK, WorkTypeOK, Release, Goto
<1>3. CopiesTypeOK'
  BY Values DEF TypeOK, CopiesTypeOK, Release
<1>4. QED
  BY <1>2, <1>3

\* What a step leaves alone keeps its type.
LEMMA UnchangedType ==
  ASSUME TypeOK
  PROVE  /\ UNCHANGED files => FilesTypeOK'
         /\ UNCHANGED <<issued, outside, crashes>> => OutsideTypeOK'
         /\ UNCHANGED <<pc, who, code, new>> => WorkTypeOK'
         /\ UNCHANGED copies => CopiesTypeOK'
  BY DEF TypeOK, FilesTypeOK, OutsideTypeOK, WorkTypeOK, CopiesTypeOK

\* Beginning an operation keeps the types.
LEMMA StartType ==
  ASSUME TypeOK, NEW w \in Workers, Start(w)
  PROVE  TypeOK'
<1> USE Values, TakeType
<1>1. ASSUME NEW a \in Agents, BeatLoad(w, a)
      PROVE  TypeOK'
  <2>1. PICK e \in {"live", registry[a]} : TakeAgents(w, a, e)
    BY <1>1 DEF BeatLoad
  <2>2. e \in Entries
    BY DEF TypeOK
  <2>3. WorkTypeOK'
    BY <1>1, BeginType DEF BeatLoad, Labels, Inviting, TypeOK
  <2>4. CopiesTypeOK'
    BY <1>1, <2>1, <2>2 DEF BeatLoad, TypeOK, CopiesTypeOK
  <2>5. QED
    BY <1>1, <2>3, <2>4, UnchangedType, TypeParts DEF BeatLoad
<1>2. ASSUME NEW a \in Agents, ImportLoad(w, a)
      PROVE  TypeOK'
  <2>1. WorkTypeOK'
    BY <1>2, BeginType DEF ImportLoad, Labels, Inviting, TypeOK
  <2>2. CopiesTypeOK'
    BY <1>2 DEF ImportLoad, TypeOK, CopiesTypeOK
  <2>3. QED
    BY <1>2, <2>1, <2>2, UnchangedType, TypeParts DEF ImportLoad
<1>3. ASSUME NEW a \in Agents, Provision(w, a)
      PROVE  TypeOK'
  <2>1. WorkTypeOK'
    BY <1>3, BeginType DEF Provision, Labels, Inviting, TypeOK
  <2>2. QED
    BY <1>3, <2>1, UnchangedType, TypeParts DEF Provision
<1>4. ASSUME NEW a \in Agents, IssueLoad(w, a)
      PROVE  TypeOK'
  <2>1. issued' \in Tokens /\ new' \in [Workers -> Tokens]
    <3>1. CASE Generate(w)
      BY <3>1, GenerateType
    <3>2. CASE \E k \in Tokens : Given(w, k)
      BY <3>2 DEF Given, TypeOK
    <3>3. QED
      BY <1>4, <3>1, <3>2 DEF IssueLoad
  <2>2. WorkTypeOK'
    BY <1>4, <2>1, BeginType DEF IssueLoad, Labels, Inviting
  <2>3. CopiesTypeOK'
    <3>1. /\ keysCopy' = [keysCopy EXCEPT ![w] = [verifier EXCEPT ![a] = new'[w]]]
          /\ UNCHANGED <<agentsCopy, codesCopy, tombsCopy>>
      BY <1>4 DEF IssueLoad, TakeKeys
    <3>2. new'[w] \in Tokens
      BY <2>1
    <3>3. QED
      BY <3>1, <3>2 DEF TypeOK, CopiesTypeOK
  <2>4. OutsideTypeOK'
    BY <1>4, <2>1 DEF IssueLoad, TypeOK, OutsideTypeOK
  <2>5. QED
    BY <1>4, <2>2, <2>3, <2>4, UnchangedType, TypeParts DEF IssueLoad
<1>5. ASSUME NEW a \in Agents, RevokeLoad(w, a)
      PROVE  TypeOK'
  <2>1. WorkTypeOK'
    BY <1>5, BeginType DEF RevokeLoad, Labels, Inviting, TypeOK
  <2>2. CopiesTypeOK'
    BY <1>5 DEF RevokeLoad, TypeOK, CopiesTypeOK
  <2>3. QED
    BY <1>5, <2>1, <2>2, UnchangedType, TypeParts DEF RevokeLoad
<1>6. ASSUME NEW a \in Agents, RemoveLoad(w, a)
      PROVE  TypeOK'
  <2>1. WorkTypeOK'
    BY <1>6, BeginType DEF RemoveLoad, Labels, Inviting, TypeOK
  <2>2. CopiesTypeOK'
    BY <1>6 DEF RemoveLoad, TypeOK, CopiesTypeOK
  <2>3. QED
    BY <1>6, <2>1, <2>2, UnchangedType, TypeParts DEF RemoveLoad
<1>7. ASSUME NEW c \in Codes, InviteLoad(w, c)
      PROVE  TypeOK'
  <2>1. WorkTypeOK'
    BY <1>7, BeginType, HubRegistryAssumption DEF InviteLoad, Labels, Inviting, TypeOK
  <2>2. CopiesTypeOK'
    BY <1>7 DEF InviteLoad, TypeOK, CopiesTypeOK
  <2>3. QED
    BY <1>7, <2>1, <2>2, UnchangedType, TypeParts DEF InviteLoad
<1>8. ASSUME NEW c \in Codes, RedeemLoad(w, c)
      PROVE  TypeOK'
  <2>1. WorkTypeOK'
    BY <1>8, BeginType, HubRegistryAssumption DEF RedeemLoad, Labels, Inviting, TypeOK
  <2>2. CopiesTypeOK'
    BY <1>8 DEF RedeemLoad, TypeOK, CopiesTypeOK
  <2>3. QED
    BY <1>8, <2>1, <2>2, UnchangedType, TypeParts DEF RedeemLoad
<1>9. QED
  BY <1>1, <1>2, <1>3, <1>4, <1>5, <1>6, <1>7, <1>8 DEF Start

\* Writing a file and ending keeps the types ...
LEMMA SaveType ==
  ASSUME TypeOK, NEW w \in Workers,
         BeatSave(w) \/ ImportSave(w) \/ InviteSave(w) \/ KeysSave(w)
           \/ TombsSave(w)
  PROVE  TypeOK'
<1>1. pc[w] # "idle" /\ who[w] \in Agents /\ Release(w)
  BY DEF TypeOK, BeatSave, ImportSave, InviteSave, KeysSave, TombsSave
<1>2. FilesTypeOK'
  BY DEF TypeOK, FilesTypeOK, BeatSave, ImportSave, InviteSave, KeysSave,
         TombsSave
<1>3. CASE InviteSave(w)
  <2>1. code[w] \in Codes
    BY <1>3 DEF InviteSave, TypeOK, Inviting
  <2>2. QED
    BY <1>1, <1>2, <1>3, <2>1, ReleaseType, TypeParts
    DEF InviteSave, TypeOK, OutsideTypeOK
<1>4. CASE ~InviteSave(w)
  <2>1. OutsideTypeOK'
    BY <1>1, <1>4 DEF TypeOK, OutsideTypeOK, BeatSave, ImportSave, KeysSave,
                      TombsSave
  <2>2. QED
    BY <1>1, <1>2, <2>1, ReleaseType, TypeParts
<1>5. QED
  BY <1>3, <1>4

\* ... and so do the other steps of an invitation ...
LEMMA InviteType ==
  ASSUME TypeOK, NEW w \in Workers,
         InviteCodes(w) \/ InviteKnown(w) \/ InviteAgents(w)
  PROVE  TypeOK'
<1> USE Values, TakeType
<1>1. pc[w] # "idle" /\ who[w] \in Agents /\ code[w] \in Codes
  BY DEF TypeOK, Inviting, InviteCodes, InviteKnown, InviteAgents
<1>2. CASE InviteCodes(w)
  <2>1. WorkTypeOK'
    BY <1>1, <1>2, GotoType DEF InviteCodes, Labels
  <2>2. FilesTypeOK'
    BY <1>2 DEF InviteCodes, TypeOK, FilesTypeOK
  <2>3. QED
    BY <1>2, <2>1, <2>2, UnchangedType, TypeParts DEF InviteCodes
<1>3. CASE InviteKnown(w)
  <2>1. OutsideTypeOK'
    BY <1>1, <1>3 DEF InviteKnown, TypeOK, OutsideTypeOK
  <2>2. QED
    BY <1>3, <2>1, ReleaseType, UnchangedType, TypeParts DEF InviteKnown
<1>4. CASE InviteAgents(w)
  <2>1. WorkTypeOK'
    BY <1>1, <1>4, GotoType DEF InviteAgents, Labels
  <2>2. CopiesTypeOK'
    BY <1>1, <1>4 DEF InviteAgents, TypeOK, CopiesTypeOK
  <2>3. QED
    BY <1>4, <2>1, <2>2, UnchangedType, TypeParts DEF InviteAgents
<1>5. QED
  BY <1>2, <1>3, <1>4

\* ... of a redemption ...
LEMMA RedeemType ==
  ASSUME TypeOK, NEW w \in Workers,
         \/ RedeemAgents(w) \/ RedeemSave(w) \/ RedeemToken(w) \/ RedeemKeys(w)
         \/ RedeemCodes(w) \/ RedeemFails(w) \/ RedeemAnswer(w)
  PROVE  TypeOK'
<1> USE Values, TakeType
<1>1. pc[w] # "idle" /\ who[w] \in Agents
  BY DEF TypeOK, RedeemAgents, RedeemSave, RedeemToken, RedeemKeys, RedeemCodes,
         RedeemFails, RedeemAnswer
<1>2. CASE RedeemAgents(w)
  <2>1. WorkTypeOK'
    BY <1>1, <1>2, GotoType DEF RedeemAgents, Labels, Inviting
  <2>2. CopiesTypeOK'
    BY <1>1, <1>2 DEF RedeemAgents, TypeOK, CopiesTypeOK
  <2>3. QED
    BY <1>2, <2>1, <2>2, UnchangedType, TypeParts DEF RedeemAgents
<1>3. CASE RedeemSave(w)
  <2>1. WorkTypeOK'
    BY <1>1, <1>3, GotoType DEF RedeemSave, Labels, Inviting
  <2>2. FilesTypeOK'
    BY <1>3 DEF RedeemSave, TypeOK, FilesTypeOK
  <2>3. OutsideTypeOK'
    BY <1>3 DEF RedeemSave, TypeOK, OutsideTypeOK
  <2>4. QED
    BY <1>3, <2>1, <2>2, <2>3, UnchangedType, TypeParts DEF RedeemSave
<1>4. CASE RedeemToken(w)
  <2>1. /\ issued + 1 \in Tokens
        /\ issued' \in Tokens
        /\ new' \in [Workers -> Tokens]
    BY <1>4, GenerateType DEF RedeemToken
  <2>2. WorkTypeOK'
    BY <1>1, <1>4, <2>1 DEF RedeemToken, Goto, Labels, Inviting, TypeOK, WorkTypeOK
  <2>3. CopiesTypeOK'
    BY <1>1, <1>4, <2>1 DEF RedeemToken, TypeOK, CopiesTypeOK
  <2>4. OutsideTypeOK'
    BY <1>4, <2>1 DEF RedeemToken, TypeOK, OutsideTypeOK
  <2>5. QED
    BY <1>4, <2>2, <2>3, <2>4, UnchangedType, TypeParts DEF RedeemToken
<1>5. CASE RedeemKeys(w)
  <2>1. WorkTypeOK'
    BY <1>1, <1>5, GotoType DEF RedeemKeys, Labels, Inviting
  <2>2. FilesTypeOK'
    BY <1>5 DEF RedeemKeys, TypeOK, FilesTypeOK
  <2>3. QED
    BY <1>5, <2>1, <2>2, UnchangedType, TypeParts DEF RedeemKeys
<1>6. CASE RedeemCodes(w)
  <2>1. WorkTypeOK'
    BY <1>1, <1>6, GotoType DEF RedeemCodes, Labels, Inviting
  <2>2. FilesTypeOK'
    BY <1>6 DEF RedeemCodes, TypeOK, FilesTypeOK
  <2>3. QED
    BY <1>6, <2>1, <2>2, UnchangedType, TypeParts DEF RedeemCodes
<1>7. CASE RedeemFails(w)
  BY <1>7, ReleaseType, UnchangedType, TypeParts DEF RedeemFails
<1>8. CASE RedeemAnswer(w)
  <2>1. granted' \in [Codes -> Nat]
    BY <1>8 DEF RedeemAnswer, TypeOK
  <2>2. token' \in [Agents -> Tokens]
    BY <1>8 DEF RedeemAnswer, TypeOK
  <2>3. OutsideTypeOK'
    BY <1>8, <2>1, <2>2 DEF RedeemAnswer, TypeOK, OutsideTypeOK
  <2>4. QED
    BY <1>8, <2>3, ReleaseType, UnchangedType, TypeParts DEF RedeemAnswer
<1>9. QED
  BY <1>2, <1>3, <1>4, <1>5, <1>6, <1>7, <1>8

\* ... and of a removal.
LEMMA RemoveType ==
  ASSUME TypeOK, NEW w \in Workers,
         RemoveSave(w) \/ RemoveTombs(w) \/ RemoveUnrecorded(w)
  PROVE  TypeOK'
<1>1. pc[w] # "idle" /\ who[w] \in Agents
  BY DEF TypeOK, RemoveSave, RemoveTombs, RemoveUnrecorded
<1>2. CASE RemoveSave(w)
  <2>1. WorkTypeOK'
    BY <1>1, <1>2, GotoType DEF RemoveSave, Labels, Inviting
  <2>2. FilesTypeOK'
    BY <1>2 DEF RemoveSave, TypeOK, FilesTypeOK
  <2>3. OutsideTypeOK'
    BY <1>1, <1>2 DEF RemoveSave, TypeOK, OutsideTypeOK
  <2>4. QED
    BY <1>2, <2>1, <2>2, <2>3, UnchangedType, TypeParts DEF RemoveSave
<1>3. CASE RemoveTombs(w)
  <2>1. WorkTypeOK'
    BY <1>1, <1>3, GotoType DEF RemoveTombs, Labels, Inviting
  <2>2. CopiesTypeOK'
    BY <1>1, <1>3 DEF RemoveTombs, TypeOK, CopiesTypeOK
  <2>3. QED
    BY <1>3, <2>1, <2>2, UnchangedType, TypeParts DEF RemoveTombs
<1>4. CASE RemoveUnrecorded(w)
  BY <1>4, ReleaseType, UnchangedType, TypeParts DEF RemoveUnrecorded
<1>5. QED
  BY <1>2, <1>3, <1>4

\* The types hold at the start.
LEMMA InitType == Init => TypeOK
<1> SUFFICES ASSUME Init
             PROVE  TypeOK
  OBVIOUS
<1>1. Cardinality(Enrolled) \in Nat /\ Cardinality(Enrolled) \in Tokens
  BY FS_CardinalityType, HubRegistryAssumption DEF Tokens
<1>2. verifier \in [Agents -> Tokens] /\ token \in [Agents -> Tokens]
  BY <1>1, HubRegistryAssumption DEF Init, InitialTokens, Tokens
<1>3. registry \in [Agents -> Entries] /\ codes \in [Codes -> CodeStates]
  BY Values DEF Init
<1>4. pc \in [Workers -> Labels] /\ \A w \in Workers : pc[w] = "idle"
  BY DEF Init, Labels
<1>5. /\ agentsCopy \in [Workers -> [Agents -> Entries]]
      /\ keysCopy \in [Workers -> [Agents -> Tokens]]
      /\ codesCopy \in [Workers -> [Codes -> CodeStates]]
      /\ new \in [Workers -> Tokens]
  BY Values DEF Init
<1>6. QED
  BY <1>1, <1>2, <1>3, <1>4, <1>5 DEF Init, TypeOK, Inviting

\* Every step keeps the types.
LEMMA NextType == TypeOK /\ [Next]_vars => TypeOK'
<1> SUFFICES ASSUME TypeOK, [Next]_vars
             PROVE  TypeOK'
  OBVIOUS
<1>1. ASSUME NEW w \in Workers, Start(w)
      PROVE  TypeOK'
  BY <1>1, StartType
<1>2. ASSUME NEW w \in Workers, Proceed(w)
      PROVE  TypeOK'
  BY <1>2, SaveType, InviteType, RedeemType, RemoveType DEF Proceed
<1>3. ASSUME NEW w \in Workers, Crash(w)
      PROVE  TypeOK'
  <2>1. OutsideTypeOK'
    BY <1>3 DEF Crash, TypeOK, OutsideTypeOK
  <2>2. QED
    BY <1>3, <2>1, ReleaseType, UnchangedType, TypeParts DEF Crash
<1>4. CASE UNCHANGED vars
  BY <1>4, UnchangedType, TypeParts DEF vars
<1>5. QED
  BY <1>1, <1>2, <1>3, <1>4 DEF Next

\* Whatever the operations interleave, files and copies keep their types, every
\* worker that is busy has its agent, and one that invites has its code.
THEOREM RegistryTypeCorrect == Spec => []TypeOK
  BY InitType, NextType, PTL DEF Spec

-------------------------------------------------------------------------------
(* Enrolled agents stay in the registry *)

\* The labels at which a worker is about to write back hub-agents.json.
Saving == {"beatSave", "importSave", "inviteSave", "redeemSave"}

\* The inductive invariant: without removals the enrolled agents are live in the
\* file and in every copy of it that is still to be written, so that it does not
\* matter whose copy is written last.
Steady ==
  /\ \A w \in Workers : pc[w] # "removeSave"
  /\ \A a \in Enrolled : /\ registry[a] = "live"
                         /\ \A w \in Workers :
                              pc[w] \in Saving => agentsCopy[w][a] = "live"

\* A worker that takes a copy in which the enrolled agents are live, and goes to
\* save it, keeps the invariant.
LEMMA TakeSteady ==
  ASSUME TypeOK, Steady, NEW w \in Workers, NEW a \in Agents, NEW e \in Entries,
         a \in Enrolled => e = "live",
         NEW l \in Saving, Goto(w, l), TakeAgents(w, a, e), registry' = registry
  PROVE  Steady'
<1>1. pc' = [pc EXCEPT ![w] = l] /\ pc \in [Workers -> Labels]
  BY DEF Goto, TypeOK
<1>2. \A v \in Workers : pc'[v] # "removeSave"
  BY <1>1 DEF Steady, Saving
<1>3. ASSUME NEW b \in Enrolled, NEW v \in Workers, pc'[v] \in Saving
      PROVE  agentsCopy'[v][b] = "live"
  <2>1. b \in Agents /\ registry[b] = "live" /\ registry \in [Agents -> Entries]
    BY HubRegistryAssumption DEF Steady, TypeOK
  <2>2. CASE v = w
    <3>1. agentsCopy'[v] = [registry EXCEPT ![a] = e]
      BY <2>2 DEF TakeAgents, TypeOK
    <3>2. QED
      BY <2>1, <3>1
  <2>3. CASE v # w
    <3>1. agentsCopy'[v] = agentsCopy[v] /\ pc'[v] = pc[v]
      BY <1>1, <2>3 DEF TakeAgents, TypeOK
    <3>2. QED
      BY <1>3, <3>1 DEF Steady
  <2>4. QED
    BY <2>2, <2>3
<1>4. QED
  BY <1>2, <1>3 DEF Steady

\* A worker that goes on without a copy of the registry, and leaves the registry
\* alone or writes its copy, keeps the invariant.
LEMMA MoveSteady ==
  ASSUME TypeOK, Steady, NEW w \in Workers,
         NEW l \in Labels \ (Saving \cup {"removeSave"}), Goto(w, l),
         \A v \in Workers \ {w} : agentsCopy'[v] = agentsCopy[v],
         \/ registry' = registry
         \/ pc[w] \in Saving /\ registry' = agentsCopy[w]
  PROVE  Steady'
<1>1. pc' = [pc EXCEPT ![w] = l] /\ pc \in [Workers -> Labels]
  BY DEF Goto, TypeOK
<1>2. \A a \in Enrolled : registry'[a] = "live"
  BY DEF Steady
<1>3. \A v \in Workers : pc'[v] \in Saving => v # w /\ pc[v] \in Saving
  BY <1>1
<1>4. \A v \in Workers : pc'[v] # "removeSave"
  BY <1>1 DEF Steady
<1>5. QED
  BY <1>2, <1>3, <1>4 DEF Steady

\* Ending an operation is such a step.
LEMMA ReleaseSteady ==
  ASSUME TypeOK, Steady, NEW w \in Workers, Release(w),
         \/ registry' = registry
         \/ pc[w] \in Saving /\ registry' = agentsCopy[w]
  PROVE  Steady'
<1>1. "idle" \in Labels \ (Saving \cup {"removeSave"})
  BY DEF Labels, Saving
<1>2. \A v \in Workers \ {w} : agentsCopy'[v] = agentsCopy[v]
  BY DEF Release, TypeOK
<1>3. QED
  BY <1>1, <1>2, MoveSteady DEF Release

\* Beginning an operation keeps the invariant, as long as it is no removal.
LEMMA StartSteady ==
  ASSUME TypeOK, Steady, "remove" \notin Commands, NEW w \in Workers, Start(w)
  PROVE  Steady'
<1> USE Values
<1>1. ASSUME NEW a \in Agents, BeatLoad(w, a)
      PROVE  Steady'
  <2>1. PICK e \in {"live", registry[a]} : TakeAgents(w, a, e)
    BY <1>1 DEF BeatLoad
  <2>2. e \in Entries /\ (a \in Enrolled => e = "live")
    BY DEF TypeOK, Steady
  <2>3. QED
    BY <1>1, <2>1, <2>2, TakeSteady DEF BeatLoad, Begin, Saving
<1>2. ASSUME NEW a \in Agents, ImportLoad(w, a)
      PROVE  Steady'
  BY <1>2, TakeSteady DEF ImportLoad, Begin, Saving
<1>3. ASSUME NEW a \in Agents, Provision(w, a) \/ IssueLoad(w, a) \/ RevokeLoad(w, a)
      PROVE  Steady'
  BY <1>3, MoveSteady
  DEF Provision, IssueLoad, RevokeLoad, Begin, Labels, Saving
<1>4. ASSUME NEW c \in Codes, InviteLoad(w, c) \/ RedeemLoad(w, c)
      PROVE  Steady'
  BY <1>4, MoveSteady DEF InviteLoad, RedeemLoad, Begin, Labels, Saving
<1>5. ASSUME NEW a \in Agents, RemoveLoad(w, a)
      PROVE  Steady'
  BY <1>5 DEF RemoveLoad
<1>6. QED
  BY <1>1, <1>2, <1>3, <1>4, <1>5 DEF Start

\* Every further step of an operation keeps it: an invitation takes no copy in
\* which an enrolled agent is pending, because it leaves live ones alone.
LEMMA ProceedSteady ==
  ASSUME TypeOK, Steady, NEW w \in Workers, Proceed(w)
  PROVE  Steady'
<1> USE Values
<1>1. CASE BeatSave(w) \/ ImportSave(w) \/ InviteSave(w)
  BY <1>1, ReleaseSteady DEF BeatSave, ImportSave, InviteSave, Saving
<1>2. CASE InviteKnown(w) \/ RedeemFails(w) \/ RedeemAnswer(w) \/ KeysSave(w)
             \/ TombsSave(w) \/ RemoveUnrecorded(w)
  BY <1>2, ReleaseSteady
  DEF InviteKnown, RedeemFails, RedeemAnswer, KeysSave, TombsSave,
      RemoveUnrecorded
<1>3. CASE InviteCodes(w) \/ RedeemToken(w) \/ RedeemKeys(w) \/ RedeemCodes(w)
             \/ RemoveTombs(w)
  BY <1>3, MoveSteady
  DEF InviteCodes, RedeemToken, RedeemKeys, RedeemCodes, RemoveTombs, Labels,
      Saving
<1>4. CASE InviteAgents(w)
  <2>1. who[w] \in Agents /\ who[w] \notin Enrolled
    BY <1>4 DEF InviteAgents, TypeOK, Steady
  <2>2. QED
    BY <1>4, <2>1, TakeSteady DEF InviteAgents, Saving
<1>5. CASE RedeemAgents(w)
  <2>1. who[w] \in Agents
    BY <1>5 DEF RedeemAgents, TypeOK
  <2>2. QED
    BY <1>5, <2>1, TakeSteady DEF RedeemAgents, Saving
<1>6. CASE RedeemSave(w)
  BY <1>6, MoveSteady DEF RedeemSave, Labels, Saving
<1>7. CASE RemoveSave(w)
  BY <1>7 DEF RemoveSave, Steady
<1>8. QED
  BY <1>1, <1>2, <1>3, <1>4, <1>5, <1>6, <1>7 DEF Proceed

\* As long as no agent is removed, an enrolled agent stays in the registry and
\* live, whatever copies heartbeats, invitations, redemptions and imports of
\* other agents write back in whatever order.
THEOREM RegistryIsSteady == Spec => []SteadyRegistry
<1>1. Init /\ "remove" \notin Commands => Steady
  BY HubRegistryAssumption DEF Init, Steady, Saving
<1>2. TypeOK /\ Steady /\ "remove" \notin Commands /\ [Next]_vars => Steady'
  <2> SUFFICES ASSUME TypeOK, Steady, "remove" \notin Commands, [Next]_vars
               PROVE  Steady'
    OBVIOUS
  <2>1. ASSUME NEW w \in Workers, Start(w)
        PROVE  Steady'
    BY <2>1, StartSteady
  <2>2. ASSUME NEW w \in Workers, Proceed(w)
        PROVE  Steady'
    BY <2>2, ProceedSteady
  <2>3. ASSUME NEW w \in Workers, Crash(w)
        PROVE  Steady'
    BY <2>3, ReleaseSteady DEF Crash
  <2>4. CASE UNCHANGED vars
    BY <2>4 DEF vars, Steady
  <2>5. QED
    BY <2>1, <2>2, <2>3, <2>4 DEF Next
<1>3. Steady => SteadyRegistry
  BY DEF Steady, SteadyRegistry
<1>4. "remove" \in Commands => SteadyRegistry
  BY DEF SteadyRegistry
<1>5. CASE "remove" \in Commands
  BY <1>4, <1>5, PTL
<1>6. CASE "remove" \notin Commands
  BY <1>1, <1>2, <1>3, <1>6, RegistryTypeCorrect, PTL DEF Spec
<1>7. QED
  BY <1>5, <1>6

-------------------------------------------------------------------------------
(* While the operations do not overlap *)

\* The copy of hub-agents.json that an operation is about to write is the file
\* with the entry of its own agent changed, and the agent is one it may change.
AgentsCurrent(w) ==
  /\ pc[w] = "beatSave" =>
       /\ registry[who[w]] # "absent"
       /\ \E e \in {"live", registry[who[w]]} :
            agentsCopy[w] = [registry EXCEPT ![who[w]] = e]
  /\ pc[w] \in {"importSave", "redeemSave"} =>
       agentsCopy[w] = [registry EXCEPT ![who[w]] = "live"]
  /\ pc[w] = "inviteSave" =>
       /\ registry[who[w]] # "live"
       /\ agentsCopy[w] = [registry EXCEPT ![who[w]] = "pending"]
  /\ pc[w] = "removeSave" =>
       /\ registry[who[w]] # "absent"
       /\ agentsCopy[w] = [registry EXCEPT ![who[w]] = "absent"]

\* So is its copy of the verifiers; a token it issues is new and its agent known.
KeysCurrent(w) ==
  /\ new[w] <= issued
  /\ pc[w] = "idle" => new[w] = 0
  /\ pc[w] \in {"redeemKeys", "keysSave"} =>
       keysCopy[w] = [verifier EXCEPT ![who[w]] = new[w]]
  /\ pc[w] = "redeemKeys" => new[w] # 0
  /\ pc[w] \in {"redeemToken", "redeemKeys", "redeemCodes", "redeemAnswer"} =>
       registry[who[w]] # "absent"
  /\ pc[w] = "keysSave" /\ new[w] # 0 => registry[who[w]] # "absent"

\* So is its copy of the codes; a redemption answers for a code that is stored as
\* used and was never answered for.
CodesCurrent(w) ==
  /\ pc[w] = "inviteCodes" =>
       /\ codes[code[w]] = "none"
       /\ codesCopy[w] = [codes EXCEPT ![code[w]] = "open"]
  /\ pc[w] \in {"redeemAgents", "redeemSave", "redeemToken", "redeemKeys",
               "redeemCodes"} /\ code[w] # NoCode =>
       /\ codes[code[w]] = "open"
       /\ codesCopy[w] = [codes EXCEPT ![code[w]] = "used"]
  /\ pc[w] = "redeemCodes" => code[w] # NoCode
  /\ pc[w] = "redeemAnswer" /\ code[w] # NoCode =>
       codes[code[w]] = "used" /\ granted[code[w]] = 0

\* Only a code that is stored as used has been answered for, and once.
GrantedOnce == \A c \in Codes : /\ granted[c] <= 1
                                /\ granted[c] # 0 => codes[c] = "used"

\* The verifiers are of tokens generated before.
KeysAreIssued == \A a \in Agents : verifier[a] <= issued

SerialFiles == /\ GrantedOnce
               /\ KeysAreIssued
               /\ EnrolledIsRegistered
               /\ RemovedStaysOut

\* The inductive invariant of operations that do not overlap.
SerialInv == /\ SerialFiles
             /\ \A w \in Workers : /\ AgentsCurrent(w)
                                   /\ KeysCurrent(w)
                                   /\ CodesCurrent(w)

\* There is one worker: an operation ends before the next one starts.
Serialised == \A v, w \in Workers : v = w

\* What the steps of a worker leave in its variables.
LEMMA BegunAt ==
  ASSUME TypeOK, NEW w \in Workers, NEW l, NEW a, NEW c, Begin(w, l, a, c)
  PROVE  pc'[w] = l /\ who'[w] = a /\ code'[w] = c
  BY DEF TypeOK, Begin, Goto

LEMMA GoneAt ==
  ASSUME TypeOK, NEW w \in Workers, NEW l, Goto(w, l)
  PROVE  pc'[w] = l
  BY DEF TypeOK, Goto

LEMMA AgentsTakenAt ==
  ASSUME TypeOK, NEW w \in Workers, NEW a, NEW e, TakeAgents(w, a, e)
  PROVE  agentsCopy'[w] = [registry EXCEPT ![a] = e]
  BY DEF TypeOK, TakeAgents

LEMMA KeysTakenAt ==
  ASSUME TypeOK, NEW w \in Workers, NEW a, NEW k, TakeKeys(w, a, k)
  PROVE  keysCopy'[w] = [verifier EXCEPT ![a] = k]
  BY DEF TypeOK, TakeKeys

LEMMA CodesTakenAt ==
  ASSUME TypeOK, NEW w \in Workers, NEW c, NEW s, TakeCodes(w, c, s)
  PROVE  codesCopy'[w] = [codes EXCEPT ![c] = s]
  BY DEF TypeOK, TakeCodes

LEMMA GeneratedAt ==
  ASSUME TypeOK, NEW w \in Workers, Generate(w)
  PROVE  /\ new'[w] = issued + 1 /\ issued' = issued + 1
         /\ issued \in Nat
  BY HubRegistryAssumption DEF TypeOK, Generate, Tokens

\* With one worker its own part of the invariant is all there is ...
LEMMA OneWorker ==
  ASSUME Serialised, NEW w \in Workers, SerialFiles',
         AgentsCurrent(w)', KeysCurrent(w)', CodesCurrent(w)'
  PROVE  SerialInv'
<1>1. \A v \in Workers : v = w
  BY DEF Serialised
<1>2. QED
  BY <1>1 DEF SerialInv

\* ... and once it has ended its operation, what it says of the files is.
LEMMA SerialRelease ==
  ASSUME TypeOK, TypeOK', Serialised, NEW w \in Workers, Release(w), SerialFiles'
  PROVE  SerialInv'
<1>1. pc'[w] = "idle" /\ new'[w] = 0
  BY GoneAt DEF Release, TypeOK
<1>2. 0 <= issued'
  BY HubRegistryAssumption DEF TypeOK, Tokens
<1>3. AgentsCurrent(w)' /\ KeysCurrent(w)' /\ CodesCurrent(w)'
  BY <1>1, <1>2 DEF AgentsCurrent, KeysCurrent, CodesCurrent
<1>4. QED
  BY <1>3, OneWorker

\* What the invariant says of the files does not depend on the workers.
LEMMA SerialUnchanged ==
  ASSUME SerialFiles, UNCHANGED <<files, issued, token, granted, removed>>
  PROVE  SerialFiles'
  BY DEF SerialFiles, GrantedOnce, KeysAreIssued, EnrolledIsRegistered,
         RemovedStaysOut

\* An operation begins with what the files say.
LEMMA StartSerial ==
  ASSUME TypeOK, TypeOK', Serialised, SerialInv, NEW w \in Workers, Start(w)
  PROVE  SerialInv'
<1> USE BegunAt
<1>1. SerialFiles /\ new[w] <= issued /\ new[w] \in Tokens /\ issued \in Tokens
  BY DEF SerialInv, KeysCurrent, TypeOK
<1>2. ASSUME NEW a \in Agents, BeatLoad(w, a)
      PROVE  SerialInv'
  <2>1. SerialFiles' /\ pc'[w] = "beatSave" /\ who'[w] = a /\ new'[w] <= issued'
    BY <1>1, <1>2, SerialUnchanged DEF BeatLoad
  <2>2. PICK e \in {"live", registry[a]} : TakeAgents(w, a, e)
    BY <1>2 DEF BeatLoad
  <2>3. AgentsCurrent(w)'
    <3>1. registry' = registry /\ registry[a] # "absent"
      BY <1>2 DEF BeatLoad
    <3>2. agentsCopy'[w] = [registry EXCEPT ![a] = e]
      BY <2>2, AgentsTakenAt
    <3>3. QED
      BY <2>1, <3>1, <3>2 DEF AgentsCurrent
  <2>4. KeysCurrent(w)' /\ CodesCurrent(w)'
    BY <2>1 DEF KeysCurrent, CodesCurrent
  <2>5. QED
    BY <2>1, <2>3, <2>4, OneWorker
<1>3. ASSUME NEW a \in Agents, ImportLoad(w, a)
      PROVE  SerialInv'
  <2>1. SerialFiles' /\ pc'[w] = "importSave" /\ who'[w] = a /\ new'[w] <= issued'
    BY <1>1, <1>3, SerialUnchanged DEF ImportLoad
  <2>2. AgentsCurrent(w)' /\ KeysCurrent(w)' /\ CodesCurrent(w)'
    <3>1. /\ registry' = registry
          /\ agentsCopy'[w] = [registry EXCEPT ![a] = "live"]
      BY <1>3, AgentsTakenAt DEF ImportLoad
    <3>2. AgentsCurrent(w)'
      BY <2>1, <3>1 DEF AgentsCurrent
    <3>3. KeysCurrent(w)' /\ CodesCurrent(w)'
      BY <2>1 DEF KeysCurrent, CodesCurrent
    <3>4. QED
      BY <3>2, <3>3
  <2>3. QED
    BY <2>1, <2>2, OneWorker
<1>4. ASSUME NEW a \in Agents, Provision(w, a)
      PROVE  SerialInv'
  <2>1. /\ SerialFiles' /\ new'[w] <= issued'
        /\ pc'[w] = "redeemAgents" /\ code'[w] = NoCode
    BY <1>1, <1>4, SerialUnchanged DEF Provision
  <2>2. AgentsCurrent(w)' /\ KeysCurrent(w)' /\ CodesCurrent(w)'
    BY <2>1 DEF AgentsCurrent, KeysCurrent, CodesCurrent
  <2>3. QED
    BY <2>1, <2>2, OneWorker
<1>5. ASSUME NEW a \in Agents, IssueLoad(w, a)
      PROVE  SerialInv'
  <2>1. /\ new'[w] <= issued' /\ issued <= issued'
        /\ issued \in Nat /\ issued' \in Nat
        /\ pc'[w] = "keysSave" /\ who'[w] = a
    <3>1. CASE Generate(w)
      BY <1>5, <3>1, GeneratedAt DEF IssueLoad
    <3>2. CASE \E k \in Tokens : Given(w, k)
      <4>1. PICK k \in Tokens : Given(w, k)
        BY <3>2
      <4>2. new'[w] = k /\ k \in 1..issued /\ issued' = issued
        BY <4>1 DEF Given, TypeOK
      <4>3. issued \in Nat
        BY <1>1, HubRegistryAssumption DEF Tokens
      <4>4. pc'[w] = "keysSave" /\ who'[w] = a
        BY <1>5 DEF IssueLoad
      <4>5. QED
        BY <4>2, <4>3, <4>4
    <3>3. QED
      BY <1>5, <3>1, <3>2 DEF IssueLoad
  <2>2. \A b \in Agents : verifier[b] \in Nat /\ verifier[b] <= issued
    BY <1>1, HubRegistryAssumption
    DEF SerialFiles, KeysAreIssued, TypeOK, Tokens
  <2>3. \A b \in Agents : verifier[b] <= issued'
    BY <2>1, <2>2
  <2>4. SerialFiles'
    BY <1>1, <1>5, <2>1, <2>3
    DEF IssueLoad, SerialFiles, GrantedOnce, KeysAreIssued,
        EnrolledIsRegistered, RemovedStaysOut
  <2>5. KeysCurrent(w)'
    <3>1. /\ keysCopy'[w] = [verifier EXCEPT ![a] = new'[w]]
          /\ verifier' = verifier /\ registry' = registry /\ registry[a] # "absent"
      BY <1>5, KeysTakenAt DEF IssueLoad
    <3>2. QED
      BY <2>1, <3>1 DEF KeysCurrent
  <2>6. AgentsCurrent(w)' /\ CodesCurrent(w)'
    BY <2>1 DEF AgentsCurrent, CodesCurrent
  <2>7. QED
    BY <2>4, <2>5, <2>6, OneWorker
<1>6. ASSUME NEW a \in Agents, RevokeLoad(w, a)
      PROVE  SerialInv'
  <2>1. new[w] = 0
    BY <1>6 DEF RevokeLoad, Begin, SerialInv, KeysCurrent
  <2>2. /\ SerialFiles' /\ new'[w] = 0 /\ new'[w] <= issued'
        /\ pc'[w] = "keysSave" /\ who'[w] = a
    BY <1>1, <1>6, <2>1, SerialUnchanged DEF RevokeLoad
  <2>3. AgentsCurrent(w)' /\ KeysCurrent(w)' /\ CodesCurrent(w)'
    <3>1. verifier' = verifier /\ keysCopy'[w] = [verifier EXCEPT ![a] = 0]
      BY <1>6, KeysTakenAt DEF RevokeLoad
    <3>2. QED
      BY <2>2, <3>1 DEF AgentsCurrent, KeysCurrent, CodesCurrent
  <2>4. QED
    BY <2>2, <2>3, OneWorker
<1>7. ASSUME NEW a \in Agents, RemoveLoad(w, a)
      PROVE  SerialInv'
  <2>1. SerialFiles' /\ pc'[w] = "removeSave" /\ who'[w] = a /\ new'[w] <= issued'
    BY <1>1, <1>7, SerialUnchanged DEF RemoveLoad
  <2>2. AgentsCurrent(w)' /\ KeysCurrent(w)' /\ CodesCurrent(w)'
    <3>1. /\ registry' = registry /\ registry[a] # "absent"
          /\ agentsCopy'[w] = [registry EXCEPT ![a] = "absent"]
      BY <1>7, AgentsTakenAt DEF RemoveLoad
    <3>2. AgentsCurrent(w)'
      BY <2>1, <3>1 DEF AgentsCurrent
    <3>3. KeysCurrent(w)' /\ CodesCurrent(w)'
      BY <2>1 DEF KeysCurrent, CodesCurrent
    <3>4. QED
      BY <3>2, <3>3
  <2>3. QED
    BY <2>1, <2>2, OneWorker
<1>8. ASSUME NEW c \in Codes, InviteLoad(w, c)
      PROVE  SerialInv'
  <2>1. SerialFiles' /\ pc'[w] = "inviteCodes" /\ code'[w] = c /\ new'[w] <= issued'
    BY <1>1, <1>8, SerialUnchanged DEF InviteLoad
  <2>2. AgentsCurrent(w)' /\ KeysCurrent(w)' /\ CodesCurrent(w)'
    <3>1. /\ codes' = codes /\ codes[c] = "none"
          /\ codesCopy'[w] = [codes EXCEPT ![c] = "open"]
      BY <1>8, CodesTakenAt DEF InviteLoad
    <3>2. QED
      BY <2>1, <3>1 DEF AgentsCurrent, KeysCurrent, CodesCurrent
  <2>3. QED
    BY <2>1, <2>2, OneWorker
<1>9. ASSUME NEW c \in Codes, RedeemLoad(w, c)
      PROVE  SerialInv'
  <2>1. SerialFiles' /\ pc'[w] = "redeemAgents" /\ code'[w] = c /\ new'[w] <= issued'
    BY <1>1, <1>9, SerialUnchanged DEF RedeemLoad
  <2>2. AgentsCurrent(w)' /\ KeysCurrent(w)' /\ CodesCurrent(w)'
    <3>1. /\ codes' = codes /\ codes[c] = "open"
          /\ codesCopy'[w] = [codes EXCEPT ![c] = "used"]
      BY <1>9, CodesTakenAt DEF RedeemLoad
    <3>2. QED
      BY <2>1, <3>1 DEF AgentsCurrent, KeysCurrent, CodesCurrent
  <2>3. QED
    BY <2>1, <2>2, OneWorker
<1>10. QED
  BY <1>2, <1>3, <1>4, <1>5, <1>6, <1>7, <1>8, <1>9 DEF Start

\* Writing hub-agents.json registers the agent, shows it as pending or removes it.
LEMMA AgentsSaveSerial ==
  ASSUME TypeOK, TypeOK', Serialised, SerialInv, NEW w \in Workers,
         BeatSave(w) \/ ImportSave(w) \/ InviteSave(w) \/ RedeemSave(w)
           \/ RemoveSave(w)
  PROVE  SerialInv'
<1> DEFINE a == who[w]
<1>1. /\ a \in Agents
      /\ registry \in [Agents -> Entries]
      /\ removed \subseteq Agents
  BY DEF TypeOK, BeatSave, ImportSave, InviteSave, RedeemSave, RemoveSave
<1>2. /\ SerialFiles /\ AgentsCurrent(w) /\ KeysCurrent(w) /\ CodesCurrent(w)
      /\ GrantedOnce /\ KeysAreIssued /\ EnrolledIsRegistered /\ RemovedStaysOut
  BY DEF SerialInv, SerialFiles
<1>3. GrantedOnce' /\ KeysAreIssued'
  BY <1>2 DEF GrantedOnce, KeysAreIssued, BeatSave, ImportSave, InviteSave,
              RedeemSave, RemoveSave
<1>4. CASE BeatSave(w)
  <2>1. /\ registry' = agentsCopy[w] /\ registry[a] # "absent" /\ Release(w)
        /\ token' = token /\ removed' = removed
    BY <1>2, <1>4 DEF BeatSave, AgentsCurrent
  <2>2. PICK e \in {"live", registry[a]} : registry' = [registry EXCEPT ![a] = e]
    BY <1>2, <1>4 DEF BeatSave, AgentsCurrent
  <2>3. /\ registry'[a] # "absent"
        /\ \A b \in Agents : b # a => registry'[b] = registry[b]
    BY <1>1, <2>1, <2>2
  <2>4. EnrolledIsRegistered' /\ RemovedStaysOut'
    BY <1>1, <1>2, <2>1, <2>3 DEF EnrolledIsRegistered, RemovedStaysOut
  <2>5. QED
    BY <1>3, <2>1, <2>4, SerialRelease DEF SerialFiles
<1>5. CASE ImportSave(w) \/ InviteSave(w) \/ RedeemSave(w)
  <2>1. /\ registry' = agentsCopy[w] /\ token' = token
        /\ removed' = removed \ {a}
    BY <1>5 DEF ImportSave, InviteSave, RedeemSave
  <2>2. PICK e \in {"live", "pending"} : registry' = [registry EXCEPT ![a] = e]
    BY <1>2, <1>5 DEF ImportSave, InviteSave, RedeemSave, AgentsCurrent
  <2>3. /\ registry'[a] # "absent"
        /\ \A b \in Agents : b # a => registry'[b] = registry[b]
    BY <1>1, <2>2
  <2>4. EnrolledIsRegistered' /\ RemovedStaysOut'
    BY <1>1, <1>2, <2>1, <2>3 DEF EnrolledIsRegistered, RemovedStaysOut
  <2>5. SerialFiles'
    BY <1>3, <2>4 DEF SerialFiles
  <2>6. CASE ImportSave(w) \/ InviteSave(w)
    BY <2>5, <2>6, SerialRelease DEF ImportSave, InviteSave
  <2>7. CASE RedeemSave(w)
    <3>1. /\ pc[w] = "redeemSave" /\ pc'[w] = "redeemToken"
          /\ UNCHANGED <<codes, issued, who, code, new, codesCopy>>
      BY <2>7, GoneAt DEF RedeemSave
    <3>2. AgentsCurrent(w)' /\ KeysCurrent(w)' /\ CodesCurrent(w)'
      BY <1>2, <2>3, <3>1 DEF AgentsCurrent, KeysCurrent, CodesCurrent
    <3>3. QED
      BY <2>5, <3>2, OneWorker
  <2>8. QED
    BY <1>5, <2>6, <2>7
<1>6. CASE RemoveSave(w)
  <2>1. /\ registry' = [registry EXCEPT ![a] = "absent"]
        /\ token' = token /\ removed' = removed \cup {a}
    BY <1>2, <1>6 DEF RemoveSave, AgentsCurrent
  <2>2. EnrolledIsRegistered' /\ RemovedStaysOut'
    BY <1>1, <1>2, <2>1 DEF EnrolledIsRegistered, RemovedStaysOut
  <2>3. /\ pc[w] = "removeSave" /\ pc'[w] = "removeTombs"
        /\ UNCHANGED <<issued, new>>
    BY <1>6, GoneAt DEF RemoveSave
  <2>4. AgentsCurrent(w)' /\ KeysCurrent(w)' /\ CodesCurrent(w)'
    BY <1>2, <2>3 DEF AgentsCurrent, KeysCurrent, CodesCurrent
  <2>5. QED
    BY <1>3, <2>2, <2>4, OneWorker DEF SerialFiles
<1>7. QED
  BY <1>4, <1>5, <1>6

\* Before that an invitation stores its code, and takes the copy of the registry.
LEMMA InviteSerial ==
  ASSUME TypeOK, TypeOK', Serialised, SerialInv, NEW w \in Workers,
         InviteCodes(w) \/ InviteKnown(w) \/ InviteAgents(w)
  PROVE  SerialInv'
<1> DEFINE c == code[w]
<1>1. /\ c \in Codes /\ who[w] \in Agents /\ codes \in [Codes -> CodeStates]
  BY DEF TypeOK, Inviting, InviteCodes, InviteKnown, InviteAgents
<1>2. SerialFiles /\ AgentsCurrent(w) /\ KeysCurrent(w) /\ CodesCurrent(w)
  BY DEF SerialInv
<1>3. new[w] <= issued
  BY <1>2 DEF KeysCurrent
<1>4. CASE InviteCodes(w)
  <2>1. codes' = [codes EXCEPT ![c] = "open"] /\ codes[c] = "none"
    BY <1>2, <1>4 DEF InviteCodes, CodesCurrent
  <2>2. UNCHANGED <<registry, verifier, issued, token, granted, removed, new>>
    BY <1>4 DEF InviteCodes
  <2>3. GrantedOnce
    BY <1>2 DEF SerialFiles
  <2>4. GrantedOnce'
    BY <1>1, <2>1, <2>2, <2>3 DEF GrantedOnce
  <2>5. SerialFiles'
    BY <1>2, <2>2, <2>4
    DEF SerialFiles, KeysAreIssued, EnrolledIsRegistered, RemovedStaysOut
  <2>6. pc'[w] = "inviteAgents"
    BY <1>4, GoneAt DEF InviteCodes
  <2>7. AgentsCurrent(w)' /\ KeysCurrent(w)' /\ CodesCurrent(w)'
    BY <1>3, <2>2, <2>6 DEF AgentsCurrent, KeysCurrent, CodesCurrent
  <2>8. QED
    BY <2>5, <2>7, OneWorker
<1>5. CASE InviteKnown(w)
  <2>1. SerialFiles'
    BY <1>2, <1>5, SerialUnchanged DEF InviteKnown
  <2>2. QED
    BY <1>5, <2>1, SerialRelease DEF InviteKnown
<1>6. CASE InviteAgents(w)
  <2>1. SerialFiles' /\ UNCHANGED <<registry, who, new, issued>>
    BY <1>2, <1>6, SerialUnchanged DEF InviteAgents
  <2>2. pc'[w] = "inviteSave" /\ registry[who[w]] # "live"
    BY <1>6, GoneAt DEF InviteAgents
  <2>3. agentsCopy'[w] = [registry EXCEPT ![who[w]] = "pending"]
    BY <1>6, AgentsTakenAt DEF InviteAgents
  <2>4. AgentsCurrent(w)'
    BY <2>1, <2>2, <2>3 DEF AgentsCurrent
  <2>5. KeysCurrent(w)' /\ CodesCurrent(w)'
    BY <1>3, <2>1, <2>2 DEF KeysCurrent, CodesCurrent
  <2>6. QED
    BY <2>1, <2>4, <2>5, OneWorker
<1>7. QED
  BY <1>4, <1>5, <1>6

\* A redemption takes its copies, generates the token, and stores it and the code.
LEMMA RedeemSerial ==
  ASSUME TypeOK, TypeOK', Serialised, SerialInv, NEW w \in Workers,
         \/ RedeemAgents(w) \/ RedeemToken(w) \/ RedeemKeys(w) \/ RedeemCodes(w)
         \/ RedeemFails(w)
  PROVE  SerialInv'
<1> DEFINE a == who[w]
           c == code[w]
<1>1. /\ a \in Agents /\ c \in Codes \cup {NoCode}
      /\ codes \in [Codes -> CodeStates] /\ verifier \in [Agents -> Tokens]
      /\ issued \in Nat /\ new[w] \in Nat
      /\ \A b \in Agents : verifier[b] \in Nat
  BY HubRegistryAssumption
  DEF TypeOK, Tokens, RedeemAgents, RedeemToken, RedeemKeys, RedeemCodes,
      RedeemFails
<1>2. /\ SerialFiles /\ AgentsCurrent(w) /\ KeysCurrent(w) /\ CodesCurrent(w)
      /\ GrantedOnce /\ KeysAreIssued /\ EnrolledIsRegistered /\ RemovedStaysOut
  BY DEF SerialInv, SerialFiles
<1>3. new[w] <= issued
  BY <1>2 DEF KeysCurrent
<1>4. CASE RedeemAgents(w)
  <2>1. /\ SerialFiles'
        /\ UNCHANGED <<registry, codes, who, code, new, issued, codesCopy>>
    BY <1>2, <1>4, SerialUnchanged DEF RedeemAgents
  <2>2. pc'[w] = "redeemSave" /\ pc[w] = "redeemAgents"
    BY <1>4, GoneAt DEF RedeemAgents
  <2>3. agentsCopy'[w] = [registry EXCEPT ![who[w]] = "live"]
    BY <1>4, AgentsTakenAt DEF RedeemAgents
  <2>4. AgentsCurrent(w)'
    BY <2>1, <2>2, <2>3 DEF AgentsCurrent
  <2>5. KeysCurrent(w)' /\ CodesCurrent(w)'
    BY <1>2, <1>3, <2>1, <2>2 DEF KeysCurrent, CodesCurrent
  <2>6. QED
    BY <2>1, <2>4, <2>5, OneWorker
<1>5. CASE RedeemToken(w)
  <2>1. /\ new'[w] = issued + 1 /\ issued' = issued + 1
        /\ pc'[w] = "redeemKeys" /\ pc[w] = "redeemToken"
        /\ registry[a] # "absent"
    BY <1>5, GeneratedAt, GoneAt DEF RedeemToken
  <2>2. /\ UNCHANGED <<registry, verifier, codes, token, granted, removed, who,
                      code, codesCopy>>
    BY <1>5 DEF RedeemToken
  <2>3. \A b \in Agents : verifier[b] <= issued + 1
    BY <1>1, <1>2 DEF KeysAreIssued
  <2>4. SerialFiles'
    BY <1>2, <2>1, <2>2, <2>3
    DEF SerialFiles, GrantedOnce, KeysAreIssued, EnrolledIsRegistered,
        RemovedStaysOut
  <2>5. keysCopy'[w] = [verifier EXCEPT ![a] = issued + 1]
    BY <1>5, KeysTakenAt DEF RedeemToken
  <2>6. KeysCurrent(w)'
    BY <1>1, <2>1, <2>2, <2>3, <2>5 DEF KeysCurrent
  <2>7. AgentsCurrent(w)' /\ CodesCurrent(w)'
    BY <1>2, <2>1, <2>2 DEF AgentsCurrent, CodesCurrent
  <2>8. QED
    BY <2>4, <2>6, <2>7, OneWorker
<1>6. CASE RedeemKeys(w)
  <2>1. verifier' = [verifier EXCEPT ![a] = new[w]]
    BY <1>2, <1>6 DEF RedeemKeys, KeysCurrent
  <2>2. UNCHANGED <<registry, codes, issued, token, granted, removed, who, code,
                    new, codesCopy>>
    BY <1>6 DEF RedeemKeys
  <2>3. \A b \in Agents : verifier'[b] <= issued
    BY <1>1, <1>2, <1>3, <2>1 DEF KeysAreIssued
  <2>4. SerialFiles'
    BY <1>2, <2>2, <2>3
    DEF SerialFiles, GrantedOnce, KeysAreIssued, EnrolledIsRegistered,
        RemovedStaysOut
  <2>5. /\ pc[w] = "redeemKeys"
        /\ pc'[w] = IF c = NoCode THEN "redeemAnswer" ELSE "redeemCodes"
    BY <1>6, GoneAt DEF RedeemKeys
  <2>6. AgentsCurrent(w)' /\ KeysCurrent(w)'
    BY <1>2, <2>2, <2>5 DEF AgentsCurrent, KeysCurrent
  <2>7. CodesCurrent(w)'
    BY <1>2, <2>2, <2>5 DEF CodesCurrent
  <2>8. QED
    BY <2>4, <2>6, <2>7, OneWorker
<1>7. CASE RedeemCodes(w)
  <2>1. /\ c \in Codes /\ codes[c] = "open" /\ pc[w] = "redeemCodes"
        /\ codes' = [codes EXCEPT ![c] = "used"]
    BY <1>1, <1>2, <1>7 DEF RedeemCodes, CodesCurrent
  <2>2. UNCHANGED <<registry, verifier, issued, token, granted, removed, who,
                    code, new>>
    BY <1>7 DEF RedeemCodes
  <2>3. GrantedOnce'
    BY <1>1, <1>2, <2>1, <2>2 DEF GrantedOnce
  <2>4. SerialFiles'
    BY <1>2, <2>2, <2>3
    DEF SerialFiles, KeysAreIssued, EnrolledIsRegistered, RemovedStaysOut
  <2>5. pc'[w] = "redeemAnswer"
    BY <1>7, GoneAt DEF RedeemCodes
  <2>6. codes'[c] = "used" /\ granted[c] = 0
    <3>1. \A d \in Codes : granted[d] # 0 => codes[d] = "used"
      BY <1>2 DEF GrantedOnce
    <3>2. granted' = granted
      BY <2>2
    <3>3. QED
      BY <1>1, <2>1, <3>1
  <2>7. AgentsCurrent(w)' /\ KeysCurrent(w)' /\ CodesCurrent(w)'
    BY <1>2, <2>1, <2>2, <2>5, <2>6 DEF AgentsCurrent, KeysCurrent, CodesCurrent
  <2>8. QED
    BY <2>4, <2>7, OneWorker
<1>8. CASE RedeemFails(w)
  <2>1. SerialFiles'
    BY <1>2, <1>8, SerialUnchanged DEF RedeemFails
  <2>2. QED
    BY <1>8, <2>1, SerialRelease DEF RedeemFails
<1>9. QED
  BY <1>4, <1>5, <1>6, <1>7, <1>8

\* A token reaches an agent that is in the registry, and counts for its code once.
LEMMA TokenSerial ==
  ASSUME TypeOK, TypeOK', Serialised, SerialInv, NEW w \in Workers,
         RedeemAnswer(w) \/ KeysSave(w)
  PROVE  SerialInv'
<1> DEFINE a == who[w]
           c == code[w]
<1>1. /\ a \in Agents /\ c \in Codes \cup {NoCode}
      /\ token \in [Agents -> Tokens] /\ verifier \in [Agents -> Tokens]
      /\ granted \in [Codes -> Nat]
      /\ issued \in Nat /\ new[w] \in Nat
      /\ \A b \in Agents : verifier[b] \in Nat
  BY HubRegistryAssumption DEF TypeOK, Tokens, RedeemAnswer, KeysSave
<1>2. /\ AgentsCurrent(w) /\ KeysCurrent(w) /\ CodesCurrent(w)
      /\ GrantedOnce /\ KeysAreIssued /\ EnrolledIsRegistered /\ RemovedStaysOut
  BY DEF SerialInv, SerialFiles
<1>3. CASE RedeemAnswer(w)
  <2>1. /\ UNCHANGED <<registry, verifier, codes, issued, removed>>
        /\ registry[a] # "absent"
    BY <1>2, <1>3 DEF RedeemAnswer, KeysCurrent
  <2>2. \A b \in Agents : b # a => token'[b] = token[b]
    BY <1>1, <1>3 DEF RedeemAnswer
  <2>3. GrantedOnce'
    <3>1. CASE c = NoCode
      BY <1>2, <1>3, <2>1, <3>1 DEF RedeemAnswer, GrantedOnce
    <3>2. CASE c # NoCode
      <4>1. c \in Codes /\ codes[c] = "used" /\ granted[c] = 0
        BY <1>1, <1>2, <1>3, <3>2 DEF RedeemAnswer, CodesCurrent
      <4>2. granted' = [granted EXCEPT ![c] = granted[c] + 1]
        BY <1>3, <3>2 DEF RedeemAnswer
      <4>3. granted'[c] = 1 /\ \A d \in Codes : d # c => granted'[d] = granted[d]
        BY <1>1, <4>1, <4>2
      <4>4. QED
        BY <1>2, <2>1, <4>1, <4>3 DEF GrantedOnce
    <3>3. QED
      BY <3>1, <3>2
  <2>4. KeysAreIssued' /\ EnrolledIsRegistered' /\ RemovedStaysOut'
    BY <1>2, <2>1, <2>2 DEF KeysAreIssued, EnrolledIsRegistered, RemovedStaysOut
  <2>5. QED
    BY <1>3, <2>3, <2>4, SerialRelease DEF RedeemAnswer, SerialFiles
<1>4. CASE KeysSave(w)
  <2>1. /\ verifier' = [verifier EXCEPT ![a] = new[w]] /\ new[w] <= issued
        /\ UNCHANGED <<registry, codes, issued, granted, removed>>
    BY <1>2, <1>4 DEF KeysSave, KeysCurrent
  <2>2. \A b \in Agents : verifier'[b] <= issued
    BY <1>1, <1>2, <2>1 DEF KeysAreIssued
  <2>3. \A b \in Agents : token'[b] # token[b] => b = a /\ registry[a] # "absent"
    BY <1>1, <1>2, <1>4 DEF KeysSave, KeysCurrent
  <2>4. GrantedOnce' /\ KeysAreIssued' /\ EnrolledIsRegistered' /\ RemovedStaysOut'
    BY <1>2, <2>1, <2>2, <2>3
    DEF GrantedOnce, KeysAreIssued, EnrolledIsRegistered, RemovedStaysOut
  <2>5. QED
    BY <1>4, <2>4, SerialRelease DEF KeysSave, SerialFiles
<1>5. QED
  BY <1>3, <1>4

\* The rest of a removal, and a crash, change no file the invariant is about.
LEMMA TombsSerial ==
  ASSUME TypeOK, TypeOK', Serialised, SerialInv, NEW w \in Workers,
         RemoveTombs(w) \/ RemoveUnrecorded(w) \/ TombsSave(w) \/ Crash(w)
  PROVE  SerialInv'
<1>1. SerialFiles'
  <2>1. SerialFiles
    BY DEF SerialInv
  <2>2. UNCHANGED <<registry, verifier, codes>>
    BY DEF RemoveTombs, RemoveUnrecorded, TombsSave, Crash
  <2>3. UNCHANGED <<issued, token, granted, removed>>
    BY DEF RemoveTombs, RemoveUnrecorded, TombsSave, Crash
  <2>4. QED
    BY <2>1, <2>2, <2>3
    DEF SerialFiles, GrantedOnce, KeysAreIssued, EnrolledIsRegistered,
        RemovedStaysOut
<1>2. CASE RemoveTombs(w)
  <2>1. /\ pc'[w] = "tombsSave" /\ new'[w] = new[w] /\ issued' = issued
        /\ new[w] <= issued
    BY <1>2, GoneAt DEF RemoveTombs, SerialInv, KeysCurrent
  <2>2. AgentsCurrent(w)' /\ KeysCurrent(w)' /\ CodesCurrent(w)'
    BY <2>1 DEF AgentsCurrent, KeysCurrent, CodesCurrent
  <2>3. QED
    BY <1>1, <2>2, OneWorker
<1>3. CASE RemoveUnrecorded(w) \/ TombsSave(w) \/ Crash(w)
  BY <1>1, <1>3, SerialRelease DEF RemoveUnrecorded, TombsSave, Crash
<1>4. QED
  BY <1>2, <1>3

\* The invariant holds at the start ...
LEMMA InitSerial == Init => SerialInv
<1> SUFFICES ASSUME Init
             PROVE  SerialInv
  OBVIOUS
<1>1. Cardinality(Enrolled) \in Nat
  BY FS_CardinalityType, HubRegistryAssumption
<1>2. \A a \in Agents : verifier[a] <= issued
  BY <1>1 DEF Init, InitialTokens
<1>3. \A a \in Agents : token[a] # 0 => registry[a] # "absent"
  BY DEF Init, InitialTokens
<1>4. SerialFiles
  BY <1>2, <1>3
  DEF Init, SerialFiles, GrantedOnce, KeysAreIssued, EnrolledIsRegistered,
      RemovedStaysOut
<1>5. \A w \in Workers : pc[w] = "idle" /\ new[w] = 0 /\ 0 <= issued
  BY <1>1 DEF Init
<1>6. QED
  BY <1>4, <1>5 DEF SerialInv, AgentsCurrent, KeysCurrent, CodesCurrent

\* ... and every step of one worker keeps it.
LEMMA NextSerial ==
  ASSUME Serialised, TypeOK, TypeOK', SerialInv, [Next]_vars
  PROVE  SerialInv'
<1>1. ASSUME NEW w \in Workers, Start(w)
      PROVE  SerialInv'
  BY <1>1, StartSerial
<1>2. ASSUME NEW w \in Workers, Proceed(w)
      PROVE  SerialInv'
  BY <1>2, AgentsSaveSerial, InviteSerial, RedeemSerial, TokenSerial, TombsSerial
  DEF Proceed
<1>3. ASSUME NEW w \in Workers, Crash(w)
      PROVE  SerialInv'
  BY <1>3, TombsSerial
<1>4. CASE UNCHANGED vars
  <2>1. SerialFiles'
    BY <1>4, SerialUnchanged DEF vars, outside, SerialInv
  <2>2. ASSUME NEW w \in Workers
        PROVE  AgentsCurrent(w)' /\ KeysCurrent(w)' /\ CodesCurrent(w)'
    BY <1>4 DEF vars, outside, SerialInv, AgentsCurrent, KeysCurrent, CodesCurrent
  <2>3. QED
    BY <2>1, <2>2 DEF SerialInv
<1>5. QED
  BY <1>1, <1>2, <1>3, <1>4 DEF Next

LEMMA RegistryIsSerial ==
  ASSUME Serialised
  PROVE  Spec => []SerialInv
  BY InitSerial, NextSerial, RegistryTypeCorrect, PTL DEF Spec

\* While the Hub's operations do not overlap, credentials are answered for an
\* enrollment code once, whenever the Hub dies and however often it is redeemed.
THEOREM CodesAreSingleUse ==
  ASSUME Serialised
  PROVE  Spec => []CodeIsSingleUse
<1>1. SerialInv => CodeIsSingleUse
  BY DEF SerialInv, SerialFiles, GrantedOnce, CodeIsSingleUse
<1>2. QED
  BY <1>1, RegistryIsSerial, PTL

\* While they do not overlap, an agent that has its credentials is in the registry
\* until it is removed.
THEOREM EnrolledAreRegistered ==
  ASSUME Serialised
  PROVE  Spec => []EnrolledIsRegistered
<1>1. SerialInv => EnrolledIsRegistered
  BY DEF SerialInv, SerialFiles
<1>2. QED
  BY <1>1, RegistryIsSerial, PTL

\* While they do not overlap, a removed agent is out of the registry until it is
\* invited, enrolled, provisioned or imported again.
THEOREM RemovedStayOut ==
  ASSUME Serialised
  PROVE  Spec => []RemovedStaysOut
<1>1. SerialInv => RemovedStaysOut
  BY DEF SerialInv, SerialFiles
<1>2. QED
  BY <1>1, RegistryIsSerial, PTL

-------------------------------------------------------------------------------
(* The files implement the directory *)

\* What a step of the directory is, when it changes one of its three maps.
LEMMA DirectoryMove ==
  /\ \A a \in Agents :
       /\ registry' = [registry EXCEPT ![a] = "live"]
       /\ UNCHANGED <<verifier, codes>>
       => Directory!Next
  /\ \A a \in Agents :
       /\ registry[a] # "live" /\ registry' = [registry EXCEPT ![a] = "pending"]
       /\ UNCHANGED <<verifier, codes>>
       => Directory!Next
  /\ \A a \in Agents :
       /\ registry[a] # "absent" /\ registry' = [registry EXCEPT ![a] = "absent"]
       /\ UNCHANGED <<verifier, codes>>
       => Directory!Next
  /\ \A c \in Codes :
       /\ codes[c] = "none" /\ codes' = [codes EXCEPT ![c] = "open"]
       /\ UNCHANGED <<registry, verifier>>
       => Directory!Next
  /\ \A c \in Codes :
       /\ codes[c] = "open" /\ codes' = [codes EXCEPT ![c] = "used"]
       /\ UNCHANGED <<registry, verifier>>
       => Directory!Next
  BY DEF Directory!Next, Directory!Register, Directory!Invite, Directory!Remove,
         Directory!OpenCode, Directory!UseCode, Directory!Entry

LEMMA DirectoryKey ==
  ASSUME NEW a \in Agents, NEW k \in Nat,
         verifier' = [verifier EXCEPT ![a] = k], UNCHANGED <<registry, codes>>,
         k # 0 => k \in 1..MaxTokens /\ registry[a] # "absent"
  PROVE  Directory!Next
<1>1. CASE k = 0
  BY <1>1 DEF Directory!Next, Directory!Revoke
<1>2. CASE k # 0
  <2>1. Directory!Issue(a)
    BY <1>2 DEF Directory!Issue
  <2>2. QED
    BY <2>1 DEF Directory!Next
<1>3. QED
  BY <1>1, <1>2

\* A write of one of the three files is a step of the directory ...
LEMMA SaveMaps ==
  ASSUME TypeOK, SerialInv, NEW w \in Workers,
         \/ BeatSave(w) \/ ImportSave(w) \/ InviteSave(w) \/ RedeemSave(w)
         \/ RemoveSave(w)
         \/ InviteCodes(w) \/ RedeemCodes(w) \/ RedeemKeys(w) \/ KeysSave(w)
  PROVE  Directory!Next \/ UNCHANGED <<registry, verifier, codes>>
<1> DEFINE a == who[w]
<1>1. /\ a \in Agents /\ registry \in [Agents -> Entries]
      /\ code[w] \in Codes \cup {NoCode} /\ new[w] \in 0..MaxTokens
  BY DEF TypeOK, Tokens, BeatSave, ImportSave, InviteSave, RedeemSave, RemoveSave,
         InviteCodes, RedeemCodes, RedeemKeys, KeysSave
<1>2. AgentsCurrent(w) /\ KeysCurrent(w) /\ CodesCurrent(w)
  BY DEF SerialInv
<1>3. CASE BeatSave(w)
  <2>1. PICK e \in {"live", registry[a]} : registry' = [registry EXCEPT ![a] = e]
    BY <1>2, <1>3 DEF BeatSave, AgentsCurrent
  <2>2. UNCHANGED <<verifier, codes>>
    BY <1>3 DEF BeatSave
  <2>3. e = "live" \/ registry' = registry
    BY <1>1, <2>1
  <2>4. QED
    BY <1>1, <2>1, <2>2, <2>3, DirectoryMove
<1>4. CASE ImportSave(w) \/ RedeemSave(w)
  <2>1. registry' = [registry EXCEPT ![a] = "live"]
    BY <1>2, <1>4 DEF ImportSave, RedeemSave, AgentsCurrent
  <2>2. UNCHANGED <<verifier, codes>>
    BY <1>4 DEF ImportSave, RedeemSave
  <2>3. QED
    BY <1>1, <2>1, <2>2, DirectoryMove
<1>5. CASE InviteSave(w)
  <2>1. registry[a] # "live" /\ registry' = [registry EXCEPT ![a] = "pending"]
    BY <1>2, <1>5 DEF InviteSave, AgentsCurrent
  <2>2. UNCHANGED <<verifier, codes>>
    BY <1>5 DEF InviteSave
  <2>3. QED
    BY <1>1, <2>1, <2>2, DirectoryMove
<1>6. CASE RemoveSave(w)
  <2>1. registry[a] # "absent" /\ registry' = [registry EXCEPT ![a] = "absent"]
    BY <1>2, <1>6 DEF RemoveSave, AgentsCurrent
  <2>2. UNCHANGED <<verifier, codes>>
    BY <1>6 DEF RemoveSave
  <2>3. QED
    BY <1>1, <2>1, <2>2, DirectoryMove
<1>7. CASE InviteCodes(w)
  <2>1. codes[code[w]] = "none" /\ codes' = [codes EXCEPT ![code[w]] = "open"]
    BY <1>2, <1>7 DEF InviteCodes, CodesCurrent
  <2>2. UNCHANGED <<registry, verifier>> /\ code[w] \in Codes
    BY <1>7 DEF InviteCodes, TypeOK, Inviting
  <2>3. QED
    BY <2>1, <2>2, DirectoryMove
<1>8. CASE RedeemCodes(w)
  <2>1. /\ code[w] \in Codes /\ codes[code[w]] = "open"
        /\ codes' = [codes EXCEPT ![code[w]] = "used"]
    BY <1>1, <1>2, <1>8 DEF RedeemCodes, CodesCurrent
  <2>2. UNCHANGED <<registry, verifier>>
    BY <1>8 DEF RedeemCodes
  <2>3. QED
    BY <2>1, <2>2, DirectoryMove
<1>9. CASE RedeemKeys(w) \/ KeysSave(w)
  <2>1. /\ verifier' = [verifier EXCEPT ![a] = new[w]]
        /\ new[w] # 0 => registry[a] # "absent"
    BY <1>2, <1>9 DEF RedeemKeys, KeysSave, KeysCurrent
  <2>2. UNCHANGED <<registry, codes>>
    BY <1>9 DEF RedeemKeys, KeysSave
  <2>3. new[w] \in Nat /\ (new[w] # 0 => new[w] \in 1..MaxTokens)
    BY <1>1, HubRegistryAssumption
  <2>4. QED
    BY <1>1, <2>1, <2>2, <2>3, DirectoryKey
<1>10. QED
  BY <1>3, <1>4, <1>5, <1>6, <1>7, <1>8, <1>9

\* ... and every other step leaves the three files alone.
LEMMA OtherMaps ==
  ASSUME NEW w \in Workers,
         \/ Start(w) \/ Crash(w)
         \/ InviteKnown(w) \/ InviteAgents(w) \/ RedeemAgents(w)
         \/ RedeemToken(w) \/ RedeemFails(w) \/ RedeemAnswer(w)
         \/ RemoveTombs(w) \/ RemoveUnrecorded(w) \/ TombsSave(w)
  PROVE  UNCHANGED <<registry, verifier, codes>>
<1>1. CASE Start(w)
  BY <1>1 DEF Start, BeatLoad, ImportLoad, Provision, IssueLoad, RevokeLoad,
              RemoveLoad, InviteLoad, RedeemLoad
<1>2. CASE ~Start(w)
  BY <1>2 DEF Crash, InviteKnown, InviteAgents, RedeemAgents, RedeemToken,
              RedeemFails, RedeemAnswer, RemoveTombs, RemoveUnrecorded, TombsSave
<1>3. QED
  BY <1>1, <1>2

LEMMA InitDirectory == Init => Directory!Init
<1> SUFFICES ASSUME Init
             PROVE  Directory!Init
  OBVIOUS
<1>1. verifier \in [Agents -> (1..MaxTokens) \cup {0}]
  <2>1. verifier \in [Agents -> 0..MaxTokens]
    BY InitType DEF TypeOK, Tokens
  <2>2. 0..MaxTokens = (1..MaxTokens) \cup {0}
    BY HubRegistryAssumption
  <2>3. QED
    BY <2>1, <2>2
<1>2. /\ registry \in [Agents -> {"absent", "pending", "live"}]
      /\ \A a \in Agents : registry[a] # "pending"
      /\ codes = [c \in Codes |-> "none"]
  BY DEF Init, NoCodes
<1>3. codes \in [Codes -> {"none", "open", "used"}]
  BY <1>2
<1>4. QED
  BY <1>1, <1>2, <1>3 DEF Directory!Init, Directory!TypeOK

\* While operations do not overlap, reading whole files and writing them back
\* implements the directory of agents, tokens and codes: every write changes the
\* entry of the agent the operation is about and no other, a token is given to an
\* agent that is in the registry, and a code is opened and used once.
THEOREM RegistryImplementsDirectory ==
  ASSUME Serialised
  PROVE  Spec => DirectorySpec
<1>1. TypeOK /\ SerialInv /\ [Next]_vars => [Directory!Next]_(Directory!vars)
  <2> SUFFICES ASSUME TypeOK, SerialInv, [Next]_vars
               PROVE  Directory!Next \/ UNCHANGED <<registry, verifier, codes>>
    BY DEF Directory!vars
  <2>1. CASE UNCHANGED vars
    BY <2>1 DEF vars
  <2>2. ASSUME NEW w \in Workers, Start(w) \/ Proceed(w) \/ Crash(w)
        PROVE  Directory!Next \/ UNCHANGED <<registry, verifier, codes>>
    BY <2>2, SaveMaps, OtherMaps DEF Proceed
  <2>3. QED
    BY <2>1, <2>2 DEF Next
<1>2. QED
  BY <1>1, InitDirectory, RegistryTypeCorrect, RegistryIsSerial, PTL
  DEF Spec, DirectorySpec, Directory!Spec
===============================================================================
