----------------------------- MODULE MCDecommission -----------------------------
(* Decommission with two commands, two enrollments and one reboot.  A unit   *)
(* of time is the agent's timeout of 10 seconds: the delay of 12 seconds is  *)
(* two, and the lease of 120 seconds is the shortest that outlasts a batch   *)
(* of both commands, with executions of one unit, and the delay.             *)
EXTENDS Decommission
===============================================================================
