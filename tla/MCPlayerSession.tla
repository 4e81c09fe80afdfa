--------------------------- MODULE MCPlayerSession ---------------------------
(* Small instance of PlayerSession: two protocols, two leases, an open, a    *)
(* stop and a release for each lease, and the application's stop of all.     *)
EXTENDS PlayerSession, TLC

CONSTANTS s1, s2

MCSubmitters == {s1, s2}
MCSessions == 0 .. MaxClaims
MCCommands ==
    [kind : {"OPEN", "STOP", "RELEASE_LEASE"}, session : 1 .. MaxClaims]
        \cup {[kind |-> "STOP_ANY", session |-> 0]}

Symmetry == Permutations(MCSubmitters)
=============================================================================
