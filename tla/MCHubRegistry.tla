---------------------------- MODULE MCHubRegistry ----------------------------
(* HubRegistry on small instances.                                         *)
EXTENDS HubRegistry, TLC

CONSTANTS a1, a2, c1, c2

\* Both codes are bound to the same agent, as when its invitation is renewed, or
\* each to its own.
MCSameAgent == [c \in Codes |-> a1]
MCOwnAgent == [c \in Codes |-> IF c = c1 THEN a1 ELSE a2]

\* Workers are interchangeable.
MCSymmetry == Permutations(Workers)
===============================================================================
