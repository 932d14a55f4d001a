------------------------------ MODULE LinkTable ------------------------------
(***************************************************************************)
(* What binding and unbinding promise: a table of the endpoint that each   *)
(* user of a transit leaves through.  While a task is carried out the      *)
(* table may change in several steps, but only where the task is about     *)
(* it, and when the task ends the table is as the task wants it.  Nothing  *)
(* is promised once a task has been cut short: the route of a client that  *)
(* was being renamed may then stay behind under its old name.              *)
(* TransitConfig, where a link is a user, an outbound and a route rule in  *)
(* up to three files, is shown to implement this as long as tasks run one  *)
(* after the other.                                                        *)
(***************************************************************************)
CONSTANTS Names,     \* auth_user names
          Endpoints, \* the endpoints of the landings
          None       \* "not linked"

VARIABLES link,      \* [Names -> Endpoints \cup {None}]
          task,      \* the task being carried out
          broken     \* a task has been cut short

vars == <<link, task, broken>>

Kinds == {"none", "bind", "link", "unbind"}

Init == /\ link = [u \in Names |-> None]
        /\ task.kind = "none"
        /\ broken = FALSE

Ask == /\ task.kind = "none"
       /\ task'.kind \in Kinds \ {"none"}
       /\ UNCHANGED link

\* The user is linked to the endpoint, whatever it was linked to before.  With
\* the UUID of a client known by another name the operator's command takes that
\* name's link away.
Bind == /\ task.kind \in {"bind", "link"}
        /\ \E old \in IF task.kind = "link" THEN Names ELSE {task.user} :
             \A v \in Names : link'[v] \in
               {link[v]} \cup (IF v = task.user THEN {task.endpoint} ELSE {})
                         \cup (IF v = old /\ v # task.user THEN {None} ELSE {})
        /\ UNCHANGED task

\* The link of the user and the links to the endpoint end, no others.
Unbind == /\ task.kind = "unbind"
          /\ \A v \in Names : link'[v] \in
               {link[v]} \cup (IF v = task.user \/ link[v] = task.endpoint
                               THEN {None} ELSE {})
          /\ UNCHANGED task

\* A task that names the outbound, or an endpoint the transit knows, leaves no
\* link to it.
Done == /\ CASE task.kind \in {"bind", "link"} -> link[task.user] = task.endpoint
             [] task.kind = "unbind" ->
                  /\ link[task.user] = None
                  /\ task.tagged => \A v \in Names : link[v] # task.endpoint
             [] OTHER -> FALSE
        /\ task'.kind = "none"
        /\ UNCHANGED link

Step == /\ ~broken
        /\ link' \in [Names -> Endpoints \cup {None}]
        /\ Ask \/ Bind \/ Unbind \/ Done
        /\ UNCHANGED broken

Break == broken'

Next == Step \/ Break

Spec == Init /\ [][Next]_vars
==============================================================================
