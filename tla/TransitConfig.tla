---------------------------- MODULE TransitConfig ----------------------------
(***************************************************************************)
(* The sing-box configuration of a transit and the operations that change  *)
(* the links in it: the agent's bind_endpoint and unbind_endpoint tasks    *)
(* and the operator's bind-transit command.                                *)
(*                                                                         *)
(* A link is spread over three sections: the user in the VLESS inbound,    *)
(* the endpoint's outbound and the route rule from the one to the other.   *)
(* An operation loads all files of the configuration, changes the sections *)
(* in memory and writes back the files it modified, one after the other,   *)
(* in the order of their names.  A worker is a process: the agent, which   *)
(* runs its tasks one at a time, or an operator's command beside it.       *)
(*                                                                         *)
(* What sing-box itself has loaded is not part of the state: the check and *)
(* the reload at the end of a bind task are steps after which the files    *)
(* are as they were.                                                       *)
(*                                                                         *)
(* Left out: other inbounds, the rules an operator wrote by hand (they are *)
(* kept), the backups (they are made, and never read), flows and ports.    *)
(* An endpoint's outbound is identified with the endpoint.                 *)
(***************************************************************************)
EXTENDS Integers, Sequences, SequencesExt, FiniteSets

CONSTANTS
  Workers,
  Names,     \* auth_user names
  Ids,       \* client UUIDs
  Endpoints,
  None,      \* no name, no endpoint
  Layout,    \* Seq(SUBSET Sections): the sections in each file, in file order
  MaxCrashes

Sections == {"users", "outbounds", "rules"}

ASSUME TransitConfigAssumption ==
  /\ None \notin Names \cup Endpoints
  /\ Layout \in Seq(SUBSET Sections)
  /\ UNION Range(Layout) = Sections
  /\ \A i, j \in DOMAIN Layout : i # j => Layout[i] \cap Layout[j] = {}
  /\ MaxCrashes \in Nat

VARIABLES
  conf,     \* Config, the files
  stored,   \* SUBSET Endpoints, the endpoint files in the state directory
  pc,       \* [Workers -> Labels]
  job,      \* [Workers -> Jobs], what the worker carries out
  copy,     \* [Workers -> Config], its copy in memory
  dirty,    \* [Workers -> SUBSET (DOMAIN Layout)], modified, not yet written
  interrupted, \* SUBSET Jobs, cut short and not repeated since
  crashes

vars == <<conf, stored, pc, job, copy, dirty, interrupted, crashes>>

-------------------------------------------------------------------------------
(* Configurations *)

Users == [name: Names, id: Ids]
Rules == [user: Names, out: Endpoints]
Config == [users: SUBSET Users, outbounds: SUBSET Endpoints, rules: Seq(Rules)]

Empty == [users |-> {}, outbounds |-> {}, rules |-> <<>>]

\* A job: bind (a task), link (the command) or unbind; user and endpoint, the
\* client's UUID, and whether the task names the outbound to remove.
Jobs == [kind: {"none", "bind", "link", "unbind"}, user: Names \cup {None},
         endpoint: Endpoints \cup {None}, tagged: BOOLEAN]
NoJob == [kind |-> "none", user |-> None, endpoint |-> None, tagged |-> FALSE]

HasUser(c, u) == \E x \in c.users : x.name = u

\* sing-box routes by the first rule that matches.
Routed(c, u) == LET i == SelectInSeq(c.rules, LAMBDA r : r.user = u)
                IN IF i = 0 THEN None ELSE c.rules[i].out

\* sing-box refuses a configuration with a rule to an outbound it does not have.
Checks(c) == \A r \in Range(c.rules) : r.out \in c.outbounds

\* The rules that are not in gone, in their order.
Without(rules, gone) ==
  LET kept[i \in 0..Len(rules)] ==
        IF i = 0 THEN <<>>
        ELSE IF rules[i] \in gone THEN kept[i - 1]
        ELSE Append(kept[i - 1], rules[i])
  IN kept[Len(rules)]

\* upsertVlessUser: the users with the name or the UUID make room for the one.
Replaced(c, u, i) == {x \in c.users : x.name = u \/ x.id = i}

\* Seeded fault: only the user's name is looked up, not the UUID.
BoundByName(c, u, e, i) ==
  [users |-> {x \in c.users : x.name # u} \cup {[name |-> u, id |-> i]},
   outbounds |-> c.outbounds \cup {e},
   rules |-> <<[user |-> u, out |-> e]>>
             \o Without(c.rules, [user : {u}, out : Endpoints])]

\* bindTransit
Bound(c, u, e, i) ==
  LET names == {u} \cup {x.name : x \in Replaced(c, u, i)}
  IN [users |-> (c.users \ Replaced(c, u, i)) \cup {[name |-> u, id |-> i]},
      outbounds |-> c.outbounds \cup {e},
      rules |-> <<[user |-> u, out |-> e]>>
                \o Without(c.rules, [user : names, out : Endpoints])]

\* Seeded fault: the rules are matched by the user only.
UnboundByUser(c, u, e) ==
  [users |-> {x \in c.users : x.name # u},
   outbounds |-> c.outbounds \ {e},
   rules |-> Without(c.rules, [user : {u}, out : Endpoints])]
\* unbindTransit: e is None when the outbound is not known.
Unbound(c, u, e) ==
  LET hits == {r \in Range(c.rules) : r.user = u \/ r.out = e}
      gone == {u} \cup {r.user : r \in hits}
  IN [users |-> {x \in c.users : x.name \notin gone},
      outbounds |-> c.outbounds \ {e},
      rules |-> Without(c.rules, hits)]

\* The files with a section in which c and d differ.
Modified(c, d) == {k \in DOMAIN Layout : \E s \in Layout[k] : c[s] # d[s]}

\* A file with the sections in S is written from d.
Overwritten(c, d, S) ==
  [users |-> IF "users" \in S THEN d.users ELSE c.users,
   outbounds |-> IF "outbounds" \in S THEN d.outbounds ELSE c.outbounds,
   rules |-> IF "rules" \in S THEN d.rules ELSE c.rules]

-------------------------------------------------------------------------------
(* Workers *)

Labels == {"idle", "load", "save", "forget", "check", "reload"}

Goto(w, label) == pc' = [pc EXCEPT ![w] = label]

Release(w) == /\ Goto(w, "idle")
              /\ job' = [job EXCEPT ![w] = NoJob]
              /\ copy' = [copy EXCEPT ![w] = Empty]
              /\ dirty' = [dirty EXCEPT ![w] = {}]

Init == /\ conf = Empty
        /\ stored = {} /\ interrupted = {} /\ crashes = 0
        /\ pc = [w \in Workers |-> "idle"]
        /\ job = [w \in Workers |-> NoJob]
        /\ copy = [w \in Workers |-> Empty]
        /\ dirty = [w \in Workers |-> {}]

Take(w, j) == /\ pc[w] = "idle"
              /\ job' = [job EXCEPT ![w] = j]
              /\ Goto(w, "load")
              /\ interrupted' = interrupted \ {j}

\* executeBindEndpointTask stores the endpoint before it binds.
StartBind(w, u, e) ==
  /\ Take(w, [kind |-> "bind", user |-> u, endpoint |-> e, tagged |-> TRUE])
  /\ stored' = stored \cup {e}
  /\ UNCHANGED <<conf, copy, dirty, crashes>>

StartLink(w, u, e) ==
  /\ Take(w, [kind |-> "link", user |-> u, endpoint |-> e, tagged |-> TRUE])
  /\ UNCHANGED <<conf, stored, copy, dirty, crashes>>

StartUnbind(w, u, e, tagged) ==
  /\ Take(w, [kind |-> "unbind", user |-> u, endpoint |-> e, tagged |-> tagged])
  /\ UNCHANGED <<conf, stored, copy, dirty, crashes>>

Change(w, d, files) == /\ copy' = [copy EXCEPT ![w] = d]
                       /\ dirty' = [dirty EXCEPT ![w] = files]
                       /\ Goto(w, "save")

\* A task carries no UUID: the client gets a new one.  The operator may give one
\* that is in use.
BindLoad(w) ==
  /\ pc[w] = "load" /\ job[w].kind \in {"bind", "link"}
  /\ \E i \in Ids :
       /\ job[w].kind = "bind" => i \notin {x.id : x \in conf.users}
       /\ Change(w, Bound(conf, job[w].user, job[w].endpoint, i), DOMAIN Layout)
  /\ UNCHANGED <<conf, stored, job, interrupted, crashes>>

UnbindLoad(w) ==
  /\ pc[w] = "load" /\ job[w].kind = "unbind"
  /\ LET j == job[w]
         out == IF j.tagged \/ j.endpoint \in stored THEN j.endpoint ELSE None
         d == Unbound(conf, j.user, out)
     IN Change(w, d, Modified(conf, d))
  /\ UNCHANGED <<conf, stored, job, interrupted, crashes>>

\* Seeded fault: the files are written in the opposite order.
SaveBackwards(w, k) ==
  /\ pc[w] = "save" /\ k \in dirty[w]
  /\ \A i \in dirty[w] : i <= k
  /\ conf' = Overwritten(conf, copy[w], Layout[k])
  /\ dirty' = [dirty EXCEPT ![w] = @ \ {k}]
  /\ UNCHANGED <<stored, pc, job, copy, interrupted, crashes>>

\* saveConfigFiles writes a file with all the sections it has in memory.
Save(w, k) ==
  /\ pc[w] = "save" /\ k \in dirty[w]
  /\ \A i \in dirty[w] : k <= i
  /\ conf' = Overwritten(conf, copy[w], Layout[k])
  /\ dirty' = [dirty EXCEPT ![w] = @ \ {k}]
  /\ UNCHANGED <<stored, pc, job, copy, interrupted, crashes>>

\* All files are written: a bind task applies the change, bind-transit leaves
\* that to the operator, an unbind task forgets the endpoint.
Saved(w) ==
  /\ pc[w] = "save" /\ dirty[w] = {}
  /\ CASE job[w].kind = "bind" -> Goto(w, "check") /\ UNCHANGED <<job, copy, dirty>>
       [] job[w].kind = "unbind" -> Goto(w, "forget") /\ UNCHANGED <<job, copy, dirty>>
       [] OTHER -> Release(w)
  /\ UNCHANGED <<conf, stored, interrupted, crashes>>

Forget(w) ==
  /\ pc[w] = "forget"
  /\ stored' = stored \ {job[w].endpoint}
  /\ Release(w)
  /\ UNCHANGED <<conf, interrupted, crashes>>

\* applyDataPlaneChange: sing-box check, and a reload (or restart) if it passes
\* and the agent is set up to do so.
Check(w) ==
  /\ pc[w] = "check"
  /\ \/ Checks(conf) /\ Goto(w, "reload") /\ UNCHANGED <<job, copy, dirty>>
     \/ Release(w)
  /\ UNCHANGED <<conf, stored, interrupted, crashes>>

Reload(w) ==
  /\ pc[w] = "reload"
  /\ Release(w)
  /\ UNCHANGED <<conf, stored, interrupted, crashes>>

\* The process is killed.  The Hub hands the task out again when its lease has
\* expired; a command is repeated by the operator, or not.
Crash(w) ==
  /\ pc[w] # "idle"
  /\ crashes < MaxCrashes
  /\ crashes' = crashes + 1
  /\ interrupted' = interrupted \cup {job[w]}
  /\ Release(w)
  /\ UNCHANGED <<conf, stored>>

-------------------------------------------------------------------------------

Proceed(w) == \/ BindLoad(w) \/ UnbindLoad(w)
              \/ \E k \in DOMAIN Layout : Save(w, k)
              \/ Saved(w) \/ Forget(w) \/ Check(w) \/ Reload(w)

Start(w) == \E u \in Names, e \in Endpoints :
              \/ StartBind(w, u, e) \/ StartLink(w, u, e)
              \/ \E tagged \in BOOLEAN : StartUnbind(w, u, e, tagged)

Next == \E w \in Workers : Start(w) \/ Proceed(w) \/ Crash(w)

Spec == Init /\ [][Next]_vars

-------------------------------------------------------------------------------
(* What holds however the operations overlap *)

TypeOK ==
  /\ conf \in Config
  /\ stored \subseteq Endpoints
  /\ pc \in [Workers -> Labels]
  /\ job \in [Workers -> Jobs]
  /\ copy \in [Workers -> Config]
  /\ dirty \in [Workers -> SUBSET (DOMAIN Layout)]
  /\ interrupted \subseteq Jobs
  /\ crashes \in Nat

\* No two users of the inbound have the same name or the same UUID: the clients
\* of the one would take the routes of the other.
Distinct(c) == \A x, y \in c.users : x.name = y.name \/ x.id = y.id => x = y

\* However the processes interleave and wherever they are killed, users stay
\* distinct: the file is always written from a copy in which they are.
UsersAreDistinct == Distinct(conf) /\ \A w \in Workers : Distinct(copy[w])

-------------------------------------------------------------------------------
(* What holds while the operations do not overlap *)

\* Every user has a route (without one its traffic would leave by the default
\* outbound, from the transit itself), and sing-box accepts the configuration.
Consistent(c) == /\ \A x \in c.users : Routed(c, x.name) # None
                 /\ Checks(c)

\* Whatever was killed between two files, once it has been repeated nothing of
\* it is left half done, also if other tasks were carried out in between.
SettledIsConsistent ==
  (interrupted = {} /\ \A w \in Workers : pc[w] = "idle") => Consistent(conf)

\* With the files in their usual order only an unbind task can leave a rule to
\* an outbound that is gone: a killed bind task does not keep sing-box from
\* starting.
BindNeverDangles ==
  ~Checks(conf) => \/ \E j \in interrupted : j.kind = "unbind"
                   \/ \E w \in Workers : job[w].kind = "unbind"

Links == INSTANCE LinkTable WITH
  link <- [u \in Names |-> IF HasUser(conf, u) THEN Routed(conf, u) ELSE None],
  task <- job[CHOOSE w \in Workers : TRUE],     \* of the only worker
  broken <- crashes > 0

\* As long as none has been cut short, a task or command changes the links of
\* the user and endpoint it is about, and no others, and has done so when it
\* ends.
LinksSpec == Links!Spec
===============================================================================
