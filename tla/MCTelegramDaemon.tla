---------------------------- MODULE MCTelegramDaemon ----------------------------
(* TelegramDaemon: an update of the Hub and a command; or, for liveness, a   *)
(* command between two updates that are answered at once.                   *)
EXTENDS TelegramDaemon, TLC

MCKind == <<"latest", "command">>
MCTarget == <<1, 0>>
MCSymmetry == Permutations(Agents)
MCKindLive == <<"update", "sync", "command">>
MCTargetLive == <<1, 0, 0>>
===============================================================================
