----------------------------- MODULE MCOfflineAlerts -----------------------------
(* OfflineAlerts with one agent: what a save undoes is its own entry.        *)
EXTENDS OfflineAlerts
===============================================================================
