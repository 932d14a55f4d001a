------------------------------ MODULE MCAgentLoop ------------------------------
(* AgentLoop with a self_update that asks for the latest version, and another *)
(* task.                                                                     *)
EXTENDS AgentLoop

CONSTANTS plain, upgrade

MCTarget == [t \in {upgrade} |-> 1]
===============================================================================
