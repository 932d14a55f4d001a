----------------------------- MODULE MCRequestAuth -----------------------------
(* RequestAuth with two requests of one agent and one of another.            *)
EXTENDS RequestAuth, TLC

CONSTANTS a1, a2, r1, r2, r3, h1, h2

MCOwner == (r1 :> a1) @@ (r2 :> a1) @@ (r3 :> a2)

\* The handlers are alike, and so are the two requests of a1.
MCSymmetry == Permutations({h1, h2}) \cup Permutations({r1, r2})
===============================================================================
