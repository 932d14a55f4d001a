------------------------------- MODULE MCLinkFlow -------------------------------
(* LinkFlow with two agents that are linked twice, in every mode.            *)
EXTENDS LinkFlow

MCLinks == 1..2
===============================================================================
