--------------------------- MODULE MCTransitConfig ---------------------------
(* TransitConfig on small instances.                                       *)
EXTENDS TransitConfig, TLC

CONSTANTS u1, u2, e1, e2

\* A directory as RelayPilot creates it: 00-relaypilot-reality.json,
\* 90-relaypilot-outbounds.json, 91-relaypilot-route.json.
MCThreeFiles == <<{"users"}, {"outbounds"}, {"rules"}>>

\* Names, UUIDs, endpoints and workers are interchangeable.
MCSymmetry == Permutations(Workers) \cup Permutations(Names)
                \cup Permutations(Ids) \cup Permutations(Endpoints)
===============================================================================
