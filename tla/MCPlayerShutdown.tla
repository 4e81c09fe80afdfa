-------------------------- MODULE MCPlayerShutdown --------------------------
(* Small instance of PlayerShutdown: main and one protocol thread, a queue   *)
(* with one ordinary and one reserved slot.                                  *)
EXTENDS PlayerShutdown

CONSTANTS main_thread, protocol

MCSubmitters == {main_thread, protocol}
MCStoppers == {main_thread}
MCSessions == {"app", "cast"}
MCCommands == {[kind |-> "OPEN", session |-> "cast"],
               [kind |-> "SEEK_MS", session |-> "cast"],
               [kind |-> "RELEASE_LEASE", session |-> "cast"],
               StopAny}
=============================================================================
