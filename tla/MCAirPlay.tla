------------------------------ MODULE MCAirPlay ------------------------------
(* Small instances of the AirPlay components.  They do not share variables:  *)
(* a behaviour picks one of them at the start and runs that one, so that one *)
(* run checks them all without multiplying their states.                     *)
EXTENDS MirrorClock, MirrorControl, AirPlayServer, RemoteVideo,
        LogicalSession, MirrorMedia, Discovery

VARIABLE part   \* the component this behaviour is one of

Components == {"clock", "mirror", "server", "remote", "logical", "media", "discovery"}

MCControlSlots == {"s1", "s2"}
MCLocalSlots == {"l1"}

MCInit ==
    /\ part \in Components
    /\ ClockInit /\ MirrorInit /\ ServerInit
    /\ RemoteInit /\ LogicalInit /\ MirrorMediaInit /\ DiscoveryInit
    \* The receiver that does not run is of one kind.
    /\ part # "media" => receiver.kind = "timing"

ClockRuns == ClockNext /\ UNCHANGED <<MirrorVars, ServerVars, RemoteVars,
                                      LogicalVars, MirrorMediaVars, DiscoveryVars>>
MirrorRuns == MirrorNext /\ UNCHANGED <<ClockVars, ServerVars, RemoteVars,
                                        LogicalVars, MirrorMediaVars, DiscoveryVars>>
ServerRuns == ServerNext /\ UNCHANGED <<ClockVars, MirrorVars, RemoteVars,
                                        LogicalVars, MirrorMediaVars, DiscoveryVars>>
RemoteRuns == RemoteNext /\ UNCHANGED <<ClockVars, MirrorVars, ServerVars,
                                        LogicalVars, MirrorMediaVars, DiscoveryVars>>
LogicalRuns == LogicalNext /\ UNCHANGED <<ClockVars, MirrorVars, ServerVars,
                                          RemoteVars, MirrorMediaVars, DiscoveryVars>>
MediaRuns == MirrorMediaNext /\ UNCHANGED <<ClockVars, MirrorVars, ServerVars,
                                            RemoteVars, LogicalVars, DiscoveryVars>>
DiscoveryRuns == DiscoveryNext /\ UNCHANGED <<ClockVars, MirrorVars, ServerVars,
                                              RemoteVars, LogicalVars, MirrorMediaVars>>

MCNext ==
    /\ \/ part = "clock" /\ ClockRuns
       \/ part = "mirror" /\ MirrorRuns
       \/ part = "server" /\ ServerRuns
       \/ part = "remote" /\ RemoteRuns
       \/ part = "logical" /\ LogicalRuns
       \/ part = "media" /\ MediaRuns
       \/ part = "discovery" /\ DiscoveryRuns
    /\ UNCHANGED part

MCVars == <<part, ClockVars, MirrorVars, ServerVars, RemoteVars, LogicalVars,
            MirrorMediaVars, DiscoveryVars>>

MCSpec == MCInit /\ [][MCNext]_MCVars

\* The type invariants of the components.
TypeOK ==
    /\ part \in Components
    /\ CASE part = "clock" -> ClockTypeOK
         [] part = "mirror" -> MirrorTypeOK
         [] part = "server" -> ServerTypeOK
         [] part = "remote" -> RemoteTypeOK
         [] part = "logical" -> LogicalTypeOK
         [] part = "media" -> MirrorMediaTypeOK
         [] part = "discovery" -> DiscoveryTypeOK
=============================================================================
