---------------------------- MODULE DlnaTransport ----------------------------
(***************************************************************************)
(* The SOAP actions of the DLNA renderer (dlna/control/soap_server.c,      *)
(* action/avtransport.c, action/renderingcontrol.c), the state they report *)
(* (protocol_state.c, handler.c) and the return home a Stop asks for       *)
(* (controller_session.c, main.c), against the player's actor and the      *)
(* media lease, which another protocol takes and leaves as it likes.       *)
(*                                                                         *)
(* The build is the one with exclusive media resources.  The HTTP thread   *)
(* serves one action at a time and waits 750 ms for the player: a command  *)
(* that was not done by then stays in the queue, and the actor looks at    *)
(* its lease only when it gets to it.  A guard samples the lease, it does  *)
(* not hold it.  A URI is the number of the action that set it; the        *)
(* coalescing of volume commands (see MediaActor) is left out.             *)
(***************************************************************************)
EXTENDS Naturals, Sequences

CONSTANTS
    MaxActions,   \* bound on the SOAP actions
    MaxLeases,    \* bound on the leases ever given
    MaxWaiting    \* capacity of the actor's queue

ASSUME TransportAssumption ==
    MaxActions \in Nat /\ MaxLeases \in Nat /\ MaxWaiting \in Nat \ {0}

VARIABLES
    dlna_lease,  \* the current lease, and the last generation given
    soap,        \* the HTTP thread inside an action
    view,        \* the protocol state: TransportState, status and URI
    commands,    \* the actor's queue
    playing,     \* the player: its state and media
    executing,   \* the command the actor has begun, with the waiter's result
    event,       \* a state change on its way to the protocol state
    home,        \* g_home_requested
    frame,       \* the main thread in its frame
    fate         \* per action: its answer, and what became of its command

TransportVars == <<dlna_lease, soap, view, commands, playing, executing, event,
                   home, frame, fate>>
Player == <<commands, playing, executing, event>>

Actions == 1 .. MaxActions
NoOne == [owner |-> "none", generation |-> 0]
Leases == [owner : {"DLNA", "OTHER"}, generation : 1 .. MaxLeases] \cup {NoOne}

Transport == {"SetURI", "Play", "Pause", "Seek", "Stop"}
Rendering == {"SetVolume", "SetMute"}
Queries == {"GetTransportInfo", "GetDeviceCapabilities", "GetTransportSettings"}
Reports == {"GetCurrentTransportActions", "GetMediaInfo", "GetPositionInfo"}

\* An action claims the player in a transaction of its own.
claims_media(act) == act \in {"SetURI", "Play"}

NoSoap == [at |-> "idle", act |-> "none", n |-> 0, lease |-> NoOne, claimed |-> FALSE]
NotExecuting == [kind |-> "none", n |-> 0, lease |-> NoOne]
TransportCommand == [kind : Transport \cup Rendering \cup {"STOP_ANY"}, n : 0 .. MaxActions,
            lease : Leases]
RendererStates == {"IDLE", "LOADING", "PLAYING", "PAUSED", "STOPPED", "ERROR"}

TransportTypeOK ==
    /\ dlna_lease \in [current : Leases, last : 0 .. MaxLeases]
    /\ soap \in [at : {"idle", "check", "guard", "begin", "resources", "submit", "wait",
                       "end", "abort", "release", "unowned", "apply", "home", "fault"},
                 act : Transport \cup Rendering \cup {"none"}, n : 0 .. MaxActions,
                 lease : Leases, claimed : BOOLEAN]
    /\ view \in [state : {"STOPPED", "PLAYING", "PAUSED_PLAYBACK"},
                 status : {"OK", "ERROR_OCCURRED"}, uri : 0 .. MaxActions]
    /\ commands \in Seq(TransportCommand) /\ Len(commands) <= MaxWaiting
    /\ playing \in [state : RendererStates, media : 0 .. MaxActions]
    /\ executing \in TransportCommand \cup {NotExecuting}
    /\ event \in [at : {"none", "emitted", "passed"}, state : RendererStates]
    /\ home \in BOOLEAN
    /\ frame \in [at : {"top", "sampled", "home"}, active : BOOLEAN, lease : Leases]
    /\ fate \in [Actions -> [answer : {"none", "ok", "fault"},
                             command : {"none", "queued", "begun", "done", "failed", "stale"}]]

TransportInit ==
    /\ dlna_lease = [current |-> NoOne, last |-> 0]
    /\ soap = NoSoap
    /\ view = [state |-> "STOPPED", status |-> "OK", uri |-> 0]
    /\ commands = <<>> /\ playing = [state |-> "IDLE", media |-> 0]
    /\ executing = NotExecuting /\ event = [at |-> "none", state |-> "IDLE"]
    /\ home = FALSE /\ frame = [at |-> "top", active |-> FALSE, lease |-> NoOne]
    /\ fate = [n \in Actions |-> [answer |-> "none", command |-> "none"]]

-----------------------------------------------------------------------------
(* The lease. *)

claimed_by(owner) ==
    [current |-> [owner |-> owner, generation |-> dlna_lease.last + 1],
     last |-> dlna_lease.last + 1]
released(lease) ==
    IF lease # NoOne /\ dlna_lease.current = lease
    THEN [dlna_lease EXCEPT !.current = NoOne] ELSE dlna_lease

\* Another protocol takes the player, or leaves it.
other_claims ==
    /\ dlna_lease.last < MaxLeases /\ dlna_lease' = claimed_by("OTHER")
    /\ UNCHANGED <<soap, view, Player, home, frame, fate>>
other_releases ==
    /\ dlna_lease.current.owner = "OTHER"
    /\ dlna_lease' = released(dlna_lease.current)
    /\ UNCHANGED <<soap, view, Player, home, frame, fate>>

-----------------------------------------------------------------------------
(* A SOAP action, from the request to its answer. *)

number ==
    CHOOSE n \in Actions : fate[n].answer = "none" /\ \A m \in 1 .. n - 1 : fate[m].answer # "none"
room == \E n \in Actions : fate[n].answer = "none"

\* soap_server_try_handle_http and soap_router_route_action find the action.
soap_receives(act) ==
    /\ soap.at = "idle" /\ room
    /\ soap' = [NoSoap EXCEPT !.at = "check", !.act = act, !.n = number]
    /\ UNCHANGED <<dlna_lease, view, Player, home, frame, fate>>

continues(place) == soap' = [soap EXCEPT !.at = place]

\* The answer: build_soap_success or build_soap_fault
answers(answer) ==
    /\ soap' = NoSoap
    /\ fate' = [fate EXCEPT ![soap.n].answer = answer]

\* A seek needs a URI; a unit or a track it does not know is 710 or 711.
seekable == view.uri # 0

\* The arguments: a missing one is 402, and without a URI there is nothing to
\* play, pause or seek (701).
soap_checks ==
    /\ soap.at = "check"
    /\ \/ continues("fault")
       \/ /\ soap.act \in {"Play", "Pause"} => view.uri # 0
          /\ soap.act = "Seek" => seekable
          /\ continues(IF soap.act = "SetURI" THEN "begin" ELSE "guard")
    /\ UNCHANGED <<dlna_lease, view, Player, home, frame, fate>>

soap_faults ==
    /\ soap.at = "fault" /\ answers("fault")
    /\ UNCHANGED <<dlna_lease, view, Player, home, frame>>

answered(answer) ==
    /\ soap.at = "idle" /\ room
    /\ fate' = [fate EXCEPT ![number].answer = answer]
    /\ UNCHANGED <<dlna_lease, soap, view, Player, home, frame>>

\* A query reads the protocol state; that it counts as a poll is left out.
soap_queries == \E query \in Queries : answered("ok")

\* A report reads the player's snapshot too, if DLNA owns it, and refreshes
\* the times, which are left out.
soap_reports == \E report \in Reports : answered("ok")

\* Next and Previous: the one track there is has no neighbour (711, 701).
soap_navigates == answered("fault")

\* SetPlayMode: NORMAL, or 712
soap_sets_mode == \E answer \in {"ok", "fault"} : answered(answer)

owned == dlna_lease.current.owner = "DLNA"

\* protocol_coordinator_media_guard_begin
soap_guards ==
    /\ soap.at = "guard"
    /\ IF owned THEN soap' = [soap EXCEPT !.at = "submit", !.lease = dlna_lease.current]
       ELSE continues(IF soap.act \in Rendering /\ dlna_lease.current = NoOne THEN "submit"
                      ELSE IF soap.act = "Play" THEN "begin"
                      ELSE IF soap.act = "Stop" THEN "unowned" ELSE "fault")
    /\ UNCHANGED <<dlna_lease, view, Player, home, frame, fate>>

\* Nothing of ours to stop: fine, unless another protocol plays.
soap_stops_nothing ==
    /\ soap.at = "unowned"
    /\ continues(IF dlna_lease.current = NoOne THEN "apply" ELSE "fault")
    /\ UNCHANGED <<dlna_lease, view, Player, home, frame, fate>>

\* protocol_coordinator_media_begin: whoever plays is taken over from
soap_begins ==
    /\ soap.at = "begin"
    /\ \/ /\ dlna_lease.last < MaxLeases /\ dlna_lease' = claimed_by("DLNA")
          /\ soap' = [soap EXCEPT !.at = "resources", !.claimed = TRUE,
                                  !.lease = dlna_lease'.current]
       \/ continues("fault") /\ UNCHANGED dlna_lease
    /\ UNCHANGED <<view, Player, home, frame, fate>>

\* protocol_coordinator_media_wait_resources: the lease is lost meanwhile,
\* or the time is up
soap_waits_resources ==
    /\ soap.at = "resources"
    /\ \/ dlna_lease.current = soap.lease /\ continues("submit")
       \/ continues("abort")
    /\ UNCHANGED <<dlna_lease, view, Player, home, frame, fate>>

\* player_submit_command_wait: the queue takes it, or it is full
soap_submits ==
    /\ soap.at = "submit"
    /\ IF Len(commands) < MaxWaiting
       THEN /\ commands' = Append(commands, [kind |-> soap.act, n |-> soap.n, lease |-> soap.lease])
            /\ fate' = [fate EXCEPT ![soap.n].command = "queued"]
            /\ continues("wait")
       ELSE /\ continues(IF soap.claimed THEN "abort" ELSE "fault")
            /\ UNCHANGED <<commands, fate>>
    /\ UNCHANGED <<dlna_lease, view, playing, executing, event, home, frame>>

succeeds ==
    IF soap.claimed THEN "end"
    ELSE IF soap.act = "Stop" THEN "release"
    ELSE IF soap.act \in Transport THEN "apply" ELSE "end"

\* The command was completed, or the time is up and it goes on without us.
soap_waits ==
    /\ soap.at = "wait"
    /\ \/ fate[soap.n].command = "done" /\ continues(succeeds)
       \/ fate[soap.n].command # "done" /\ continues(IF soap.claimed THEN "abort" ELSE "fault")
    /\ UNCHANGED <<dlna_lease, view, Player, home, frame, fate>>

mutant_soap_aborts ==
    /\ soap.at = "abort" /\ continues("fault")
    /\ UNCHANGED <<dlna_lease, view, Player, home, frame, fate>>
\* protocol_coordinator_media_abort
soap_aborts ==
    /\ soap.at = "abort" /\ continues("fault")
    /\ dlna_lease' = released(soap.lease)
    /\ UNCHANGED <<view, Player, home, frame, fate>>

\* protocol_coordinator_media_end, dlna_controller_session_reset; a rendering
\* action is answered without touching the protocol state, its event will
soap_ends ==
    /\ soap.at = "end"
    /\ home' = (IF soap.act = "SetURI" THEN FALSE ELSE home)
    /\ IF soap.act \in Rendering THEN answers("ok") ELSE continues("apply") /\ UNCHANGED fate
    /\ UNCHANGED <<dlna_lease, view, Player, frame>>

soap_releases ==
    /\ soap.at = "release" /\ continues("apply")
    /\ dlna_lease' = released(soap.lease)
    /\ UNCHANGED <<view, Player, home, frame, fate>>

\* dlna_protocol_state_apply_set_uri, _play, _pause, _stop, _seek_target
applied_view ==
    CASE soap.act = "SetURI" -> [state |-> "PAUSED_PLAYBACK", status |-> "OK", uri |-> soap.n]
      [] soap.act = "Play" -> [view EXCEPT !.state = "PLAYING", !.status = "OK"]
      [] soap.act = "Pause" -> [view EXCEPT !.state = "PAUSED_PLAYBACK", !.status = "OK"]
      [] soap.act = "Stop" -> [view EXCEPT !.state = "STOPPED", !.status = "OK"]
      [] soap.act = "Seek" -> [view EXCEPT !.status = "OK"]

soap_applies ==
    /\ soap.at = "apply" /\ view' = applied_view
    /\ IF soap.act = "Stop" THEN continues("home") /\ UNCHANGED fate ELSE answers("ok")
    /\ UNCHANGED <<dlna_lease, Player, home, frame>>

\* dlna_controller_session_request_home
soap_requests_home ==
    /\ soap.at = "home" /\ home' = TRUE /\ answers("ok")
    /\ UNCHANGED <<dlna_lease, view, Player, frame>>

-----------------------------------------------------------------------------
(* The actor, and the events it raises. *)

becomes(n, what) == IF n = 0 THEN fate ELSE [fate EXCEPT ![n].command = what]

\* A command without a lease (from the interface) is valid for everyone.
actor_begins ==
    /\ executing = NotExecuting /\ event.at = "none" /\ commands # <<>>
    /\ LET command == Head(commands)
           valid == command.lease \in {NoOne, dlna_lease.current}
       IN  /\ commands' = Tail(commands)
           /\ executing' = (IF valid THEN command ELSE NotExecuting)
           /\ fate' = becomes(command.n, IF valid THEN "begun" ELSE "stale")
    /\ UNCHANGED <<dlna_lease, soap, view, playing, event, home, frame>>

\* What a command makes of the player (player_open_media, _play, _pause,
\* _stop); a seek and the volume leave its state alone.
played(command) ==
    CASE command.kind = "SetURI" -> [state |-> "LOADING", media |-> command.n]
      [] command.kind = "Play" -> [playing EXCEPT !.state = "PLAYING"]
      [] command.kind = "Pause" -> [playing EXCEPT !.state = "PAUSED"]
      [] command.kind \in {"Stop", "STOP_ANY"} -> [state |-> "STOPPED", media |-> 0]
      [] OTHER -> playing

\* The change of state is emitted before the waiter hears of it.
raises == event' = IF playing'.state # playing.state
                   THEN [at |-> "emitted", state |-> playing'.state] ELSE event

actor_finishes(ok) ==
    /\ executing # NotExecuting /\ event.at = "none"
    /\ fate' = becomes(executing.n, IF ok THEN "done" ELSE "failed")
    /\ playing' = (IF ok THEN played(executing) ELSE playing)
    /\ executing' = NotExecuting /\ raises
    /\ UNCHANGED <<dlna_lease, soap, view, commands, home, frame>>

\* pump_events: what was loading plays or fails, what plays comes to its end
actor_pumps ==
    /\ executing = NotExecuting /\ event.at = "none"
    /\ \/ playing.state = "LOADING" /\ \E s \in {"PLAYING", "ERROR"} : playing' = [playing EXCEPT !.state = s]
       \/ playing.state = "PLAYING" /\ playing' = [state |-> "STOPPED", media |-> 0]
    /\ raises
    /\ UNCHANGED <<dlna_lease, soap, view, commands, executing, home, frame, fate>>

\* soap_handler_on_renderer_event: not while another protocol owns the player
event_filtered ==
    /\ event.at = "emitted"
    /\ event' = [event EXCEPT !.at = IF dlna_lease.current.owner = "OTHER" THEN "none" ELSE "passed"]
    /\ UNCHANGED <<dlna_lease, soap, view, commands, playing, executing, home, frame, fate>>

\* should_apply_transport_state_from_renderer: a passing state is not shown
shown(state) ==
    CASE state = "PLAYING" -> [view EXCEPT !.state = "PLAYING", !.status = "OK"]
      [] state = "PAUSED" -> [view EXCEPT !.state = "PAUSED_PLAYBACK", !.status = "OK"]
      [] state \in {"STOPPED", "IDLE"} -> [view EXCEPT !.state = "STOPPED", !.status = "OK"]
      [] state = "ERROR" -> [view EXCEPT !.state = "STOPPED", !.status = "ERROR_OCCURRED"]
      [] OTHER -> view

event_applied ==
    /\ event.at = "passed" /\ event' = [event EXCEPT !.at = "none"]
    /\ view' = shown(event.state)
    /\ UNCHANGED <<dlna_lease, soap, commands, playing, executing, home, frame, fate>>

-----------------------------------------------------------------------------
(* The main thread's frame: the return home after a Stop. *)

\* The snapshot of the frame
frame_samples ==
    /\ frame.at = "top"
    /\ frame' = [frame EXCEPT !.at = "sampled", !.active = playing.state \notin {"IDLE", "STOPPED"}]
    /\ UNCHANGED <<dlna_lease, soap, view, Player, home, fate>>

\* dlna_controller_session_consume_home_request
frame_consumes ==
    /\ frame.at = "sampled" /\ home' = FALSE
    /\ frame' = [frame EXCEPT !.at = IF home THEN "home" ELSE "top", !.lease = dlna_lease.current]
    /\ UNCHANGED <<dlna_lease, soap, view, Player, fate>>

\* main_request_player_home: what plays is stopped, else the lease read
\* before is let go; if it cannot be done now, it is tried again.
frame_returns_home ==
    /\ frame.at = "home" /\ frame' = [frame EXCEPT !.at = "top", !.active = FALSE, !.lease = NoOne]
    /\ IF frame.active
       THEN /\ IF Len(commands) < MaxWaiting
               THEN /\ commands' = Append(commands, [kind |-> "STOP_ANY", n |-> 0, lease |-> NoOne])
                    /\ UNCHANGED home
               ELSE home' = TRUE /\ UNCHANGED commands
            /\ UNCHANGED dlna_lease
       ELSE dlna_lease' = released(frame.lease) /\ home' \in {home, TRUE} /\ UNCHANGED commands
    /\ UNCHANGED <<soap, view, playing, executing, event, fate>>

TransportNext ==
    \/ \E act \in Transport \cup Rendering : soap_receives(act)
    \/ soap_queries \/ soap_reports \/ soap_navigates \/ soap_sets_mode
    \/ soap_checks \/ soap_faults \/ soap_guards \/ soap_stops_nothing \/ soap_begins
    \/ soap_waits_resources \/ soap_submits \/ soap_waits \/ soap_aborts \/ soap_ends
    \/ soap_releases \/ soap_applies \/ soap_requests_home
    \/ actor_begins \/ \E ok \in BOOLEAN : actor_finishes(ok)
    \/ actor_pumps \/ event_filtered \/ event_applied
    \/ frame_samples \/ frame_consumes \/ frame_returns_home
    \/ other_claims \/ other_releases

TransportSpec == TransportInit /\ [][TransportNext]_TransportVars

-----------------------------------------------------------------------------
\* A control point can believe its answer, however late the actor is and
\* whoever takes the player meanwhile.  The OPEN of a
\* SetAVTransportURI that was refused, for whatever it waited too long, never
\* begins afterwards; and a transport command begins only under the lease its action saw, while no other
\* protocol owns the player (avtransport_submit_leased_command,
\* avtransport_set_uri, protocol_coordinator_media_abort).
RefusedNeverPlays ==
    [][\A n \in Actions :
          fate[n].command = "queued" /\ fate'[n].command = "begun" =>
             /\ executing'.kind \in Transport =>
                    dlna_lease.current.owner = "DLNA" /\ executing'.lease = dlna_lease.current
             /\ executing'.kind = "SetURI" => fate[n].answer = "none"]_TransportVars
=============================================================================
