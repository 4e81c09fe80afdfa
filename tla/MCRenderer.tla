----------------------------- MODULE MCRenderer -----------------------------
(* Small instances of what plays and of what is asked to play: the player's  *)
(* session (two protocols and two leases; an open, a stop and a release for  *)
(* the one that can become stale, an open for its successor), the DLNA       *)
(* server and transport, the libmpv backend and IPTV.  They do not share     *)
(* variables: a behaviour picks one of them at the start.                    *)
EXTENDS PlayerSession, DlnaServer, DlnaTransport, Libmpv, Iptv, TLC

CONSTANTS s1, s2

VARIABLE part   \* the component this behaviour is one of

Components == {"session", "dlna", "transport", "mpv", "iptv"}

MCSubmitters == {s1, s2}
MCSessions == 0 .. MaxClaims
MCCommands ==
    {[kind |-> kind, session |-> 1] : kind \in {"OPEN", "STOP", "RELEASE_LEASE"}}
        \cup {[kind |-> "OPEN", session |-> 2]}

Symmetry == Permutations(MCSubmitters)

MCInit ==
    /\ part \in Components
    /\ SessionInit /\ DlnaInit /\ TransportInit /\ LibmpvInit /\ IptvInit

SessionRuns == SessionNext /\ UNCHANGED <<DlnaVars, TransportVars, LibmpvVars, IptvVars>>
DlnaRuns == DlnaNext /\ UNCHANGED <<allVars, TransportVars, LibmpvVars, IptvVars>>
TransportRuns == TransportNext /\ UNCHANGED <<allVars, DlnaVars, LibmpvVars, IptvVars>>
LibmpvRuns == LibmpvNext /\ UNCHANGED <<allVars, DlnaVars, TransportVars, IptvVars>>
IptvRuns == IptvNext /\ UNCHANGED <<allVars, DlnaVars, TransportVars, LibmpvVars>>

MCNext ==
    /\ \/ part = "session" /\ SessionRuns
       \/ part = "dlna" /\ DlnaRuns
       \/ part = "transport" /\ TransportRuns
       \/ part = "mpv" /\ LibmpvRuns
       \/ part = "iptv" /\ IptvRuns
    /\ UNCHANGED part

MCVars == <<part, allVars, DlnaVars, TransportVars, LibmpvVars, IptvVars>>

MCSpec == MCInit /\ [][MCNext]_MCVars

\* The type invariants of the components.
RendererTypeOK ==
    /\ part \in Components
    /\ CASE part = "session" -> SessionTypeOK
         [] part = "dlna" -> DlnaTypeOK
         [] part = "transport" -> TransportTypeOK
         [] part = "mpv" -> LibmpvTypeOK
         [] part = "iptv" -> IptvTypeOK
=============================================================================
