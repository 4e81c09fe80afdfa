------------------------- MODULE MCMediaCoordinator -------------------------
(* Small instance of MediaCoordinator: IPTV on the main thread, one DLNA and *)
(* one AirPlay thread; generations of three bits that start just before they *)
(* wrap.                                                                     *)
EXTENDS MediaCoordinator

MCThreads == {"main", "dlna", "airplay"}
MCClaims == [main |-> {"IPTV"}, dlna |-> {"DLNA"},
             airplay |-> {"AIRPLAY_VIDEO", "AIRPLAY_MIRROR"}]
MCFirstGenerations == {6}
=============================================================================
