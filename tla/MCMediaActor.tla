---------------------------- MODULE MCMediaActor ----------------------------
(* Small instance of MediaActor: an ordinary command that can be coalesced   *)
(* and a shutdown-class one that cannot, and a queue with one reserved slot. *)
EXTENDS MediaActor, TLC

CONSTANTS s1, s2, t1, app, cast

MCSubmitters == {s1, s2}
MCStoppers == {t1}
MCSessions == {app, cast}
MCCommands == {[kind |-> "SEEK_MS", session |-> cast],
               [kind |-> "STOP_ANY", session |-> app]}

Symmetry == Permutations(MCSubmitters)
=============================================================================
