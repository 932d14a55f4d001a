----------------------------- MODULE MCHubTasks -----------------------------
(* HubTasks on small instances.                                            *)
EXTENDS HubTasks, TLC

CONSTANTS a1, a2,          \* agents
          t1, t2, b1, b2   \* tasks

\* Every agent owns one dispatched task; the bind task of an export goes to the
\* other agent, as a landing's export is bound on a transit.
MCOwner == [t \in Tasks |-> IF t = t1 THEN a1 ELSE a2]
MCOneOwner == [t \in Tasks |-> a1]

\* Workers are interchangeable (used without liveness properties only).
MCSymmetry == Permutations(Workers)
=============================================================================
