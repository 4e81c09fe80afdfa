---------------------------- MODULE RemoteVideo ----------------------------
(***************************************************************************)
(* AirPlay URL playback (airplay/media/remote_video.c, remote_hls.c and    *)
(* the integration_remote_* half of airplay/integration.c): one owner      *)
(* session, a generation per /play, the exchange of reverse HLS playlists, *)
(* the ownership lease of the player, and the references that keep a       *)
(* logical session alive while it plays.                                   *)
(*                                                                         *)
(* Requests of different connections run on their own threads.  The remote *)
(* mutex covers single blocks of a handler; between them it is free, so a  *)
(* request is a record in calls that walks from step to step.  Bodies, URLs*)
(* and positions are abstracted; a request that is malformed changes       *)
(* nothing and is left out.  The player obeys a command when its lease is  *)
(* the current one (module PlayerSession).                                 *)
(***************************************************************************)
EXTENDS Integers, FiniteSets

CONSTANTS
    RemoteSessions,  \* logical session ids
    RemoteThreads,   \* server threads that may be in a handler at once
    MaxPlays,        \* bound on generation, which is 32 bits wide
    MaxMedia         \* media playlists a master names at most, 16 in the code

ASSUME RemoteAssumption ==
    /\ 0 \notin RemoteSessions /\ MaxPlays \in Nat /\ MaxMedia \in Nat

\* parse_play_request: a direct or a reverse HLS location, and where to start
Starts == {"none", "seconds", "fraction"}
PlayRequests == [reverse : BOOLEAN, start : Starts]

NoRemoteLease == [token |-> 0, generation |-> 0]
NoCall == [at |-> "idle", session |-> 0, generation |-> 0, reverse |-> FALSE, reuse |-> FALSE,
           stop |-> FALSE, release |-> FALSE, victim |-> 0, victim_generation |-> 0,
           then |-> "idle", lease |-> NoRemoteLease]

VARIABLES
    remote,    \* struct AirPlayRemoteVideo
    hls,       \* struct AirPlayRemoteHls
    remote_lease,     \* g_airplay.remote_lease
    current,   \* the player's ownership lease; token 0: nobody, or another protocol
    loaded,    \* the media of this protocol: who loaded it, who stopped it
    playback_refs,      \* media_reference_count of the logical sessions
    calls,     \* the handlers in progress
    takeover,  \* airplay_integration_release_active_media in progress
    overlapped \* history: a play, or a takeover, began beside another request

RemoteVars == <<remote, hls, remote_lease, current, loaded, playback_refs, calls, takeover,
                overlapped>>

IdleRemote == [state |-> "IDLE", owner_session_id |-> 0, owner_claimed |-> FALSE,
         control_attached |-> FALSE, pending_seek |-> "none", pending_scrub |-> FALSE,
         requested_rate |-> 0, generation |-> 0]
NoHls == [active |-> FALSE, session_id |-> 0, generation |-> 0, expecting_master |-> FALSE,
          pending_media_index |-> 0, media_count |-> 0, expected_request_id |-> 0]

Leases == [token : RemoteSessions \cup {0}, generation : Nat]
RemoteTypeOK ==
    /\ remote \in [state : {"IDLE", "PENDING_HLS", "ACTIVE"},
                   owner_session_id : RemoteSessions \cup {0}, owner_claimed : BOOLEAN,
                   control_attached : BOOLEAN, pending_seek : Starts, pending_scrub : BOOLEAN,
                   requested_rate : 0 .. 1, generation : 0 .. MaxPlays]
    /\ hls \in [active : BOOLEAN, session_id : RemoteSessions \cup {0}, generation : 0 .. MaxPlays,
                expecting_master : BOOLEAN, pending_media_index : 0 .. MaxMedia,
                media_count : 0 .. MaxMedia, expected_request_id : 0 .. MaxMedia + 1]
    /\ remote_lease \in Leases /\ current \in Leases
    /\ loaded \in [playing : BOOLEAN, generation : 0 .. MaxPlays, stopped_by : 0 .. MaxPlays]
    /\ playback_refs \in [RemoteSessions -> Nat]
    /\ DOMAIN calls = RemoteThreads /\ overlapped \in BOOLEAN

\* airplay_remote_video_create, airplay_remote_hls_create
RemoteInit ==
    /\ remote = IdleRemote /\ hls = NoHls /\ remote_lease = NoRemoteLease /\ current = NoRemoteLease
    /\ loaded = [playing |-> FALSE, generation |-> 0, stopped_by |-> 0]
    /\ playback_refs = [s \in RemoteSessions |-> 0]
    /\ calls = [t \in RemoteThreads |-> NoCall]
    /\ takeover = [at |-> "idle", lease |-> NoRemoteLease] /\ overlapped = FALSE

-----------------------------------------------------------------------------
(* The helpers. *)

owned(s) == remote.state = "ACTIVE" /\ remote.owner_session_id = s
hls_pending(s) == remote.state = "PENDING_HLS" /\ remote.owner_session_id = s
bound(s) == remote.state # "IDLE" /\ remote.owner_session_id = s

\* clear_owner_locked; the generation moves on in most callers.
clear_owner(step) == [IdleRemote EXCEPT !.generation = remote.generation + step]

\* airplay_remote_hls_reset of one exchange, and of whatever there is
hls_reset(s, generation) == IF hls.session_id = s /\ hls.generation = generation THEN NoHls ELSE hls

\* The start of airplay_remote_video_route: the owner's control is back.
routed(s) == [remote EXCEPT !.control_attached = @ \/ owned(s)]

\* protocol_coordinator_media_begin
claimed_lease(s) == [token |-> s, generation |-> current.generation + 1]
mine(l) == l.token # 0 /\ l = current

\* integration_remote_stop: whatever lease is the latest is told to stop.
stop_ordered(by) ==
    IF mine(remote_lease) /\ loaded.playing THEN [loaded EXCEPT !.playing = FALSE, !.stopped_by = by] ELSE loaded

\* integration_remote_load and _play, on the latest lease too
load_ordered(generation) == [playing |-> TRUE, generation |-> generation, stopped_by |-> 0]

goes(t, call) == calls' = [calls EXCEPT ![t] = IF call.at = "idle" THEN NoCall ELSE call]
alone == takeover.at = "idle" /\ \A t \in RemoteThreads : calls[t].at = "idle"
fresh(t) == calls[t].at = "idle" /\ overlapped' = (overlapped \/ takeover.at # "idle")
fresh_play(t) == calls[t].at = "idle" /\ overlapped' = (overlapped \/ ~alone)

-----------------------------------------------------------------------------
(* POST /play *)

\* Under the mutex the request becomes the owner at once.
play_begins(t, s, play) ==
    LET reverse == play.reverse
        reuse == ~reverse /\ owned(s) /\ remote.owner_claimed
        replace == remote.state # "IDLE" /\ ~reuse
        generation == remote.generation + 1
    IN  /\ fresh_play(t)
        /\ generation < MaxPlays
        /\ remote' = [routed(s) EXCEPT
              !.state = IF reverse THEN "PENDING_HLS" ELSE "ACTIVE",
              !.owner_claimed = reuse, !.owner_session_id = s,
              !.generation = generation, !.requested_rate = 1, !.pending_seek = play.start]
        /\ goes(t, [NoCall EXCEPT
              !.at = IF replace THEN "reset" ELSE "clear",
              !.session = s, !.generation = generation, !.reverse = reverse, !.reuse = reuse,
              !.stop = replace /\ remote.state = "ACTIVE",
              !.release = replace /\ remote.owner_claimed,
              !.victim = remote.owner_session_id, !.victim_generation = remote.generation,
              !.then = "clear"])
        /\ UNCHANGED <<hls, remote_lease, current, loaded, playback_refs, takeover>>

\* What is unwound on behalf of a session: its HLS exchange ...
unwind_resets(t) ==
    /\ calls[t].at = "reset"
    /\ hls' = hls_reset(calls[t].victim, calls[t].victim_generation)
    /\ goes(t, [calls[t] EXCEPT !.at = "stop"])
    /\ UNCHANGED <<remote, remote_lease, current, loaded, playback_refs, takeover>>

\* ... its media, by ops.stop ...
unwind_stops(t) ==
    /\ calls[t].at = "stop"
    /\ loaded' = IF calls[t].stop THEN stop_ordered(calls[t].generation) ELSE loaded
    /\ goes(t, [calls[t] EXCEPT !.at = "release"])
    /\ UNCHANGED <<remote, hls, remote_lease, current, playback_refs, takeover>>

\* ... and its lease: integration_remote_release reads remote_lease ...
release_reads(t) ==
    LET holds == calls[t].release /\ remote_lease.token # 0 /\ remote_lease.token = calls[t].victim IN
    /\ calls[t].at = "release"
    /\ goes(t, [calls[t] EXCEPT !.at = IF holds THEN "releasing" ELSE calls[t].then, !.lease = remote_lease])
    /\ UNCHANGED <<remote, hls, remote_lease, current, loaded, playback_refs, takeover>>

\* ... gives it back, and clears the one that is there by then.
release_clears(t) ==
    LET call == calls[t] IN
    /\ call.at = "releasing"
    /\ current' = IF mine(call.lease) THEN [current EXCEPT !.token = 0] ELSE current
    /\ loaded' = IF mine(call.lease) /\ loaded.playing
                 THEN [loaded EXCEPT !.playing = FALSE, !.stopped_by = call.generation] ELSE loaded
    /\ remote_lease' = NoRemoteLease
    /\ playback_refs' = [playback_refs EXCEPT ![call.victim] = IF @ > 0 THEN @ - 1 ELSE 0]
    /\ goes(t, [call EXCEPT !.at = call.then])
    /\ UNCHANGED <<remote, hls, takeover>>

\* airplay_remote_hls_reset(hls, 0, 0)
play_clears(t) ==
    /\ calls[t].at = "clear"
    /\ hls' = NoHls
    /\ goes(t, [calls[t] EXCEPT !.at = IF calls[t].reverse THEN "begin"
                                       ELSE IF calls[t].reuse THEN "load" ELSE "claim"])
    /\ UNCHANGED <<remote, remote_lease, current, loaded, playback_refs, takeover>>

\* A reverse play asks the sender for the master playlist.
hls_begins(t, sent) ==
    /\ calls[t].at = "begin"
    /\ hls' = [NoHls EXCEPT !.active = TRUE, !.session_id = calls[t].session,
                            !.generation = calls[t].generation, !.expecting_master = TRUE,
                            !.expected_request_id = 1]
    /\ goes(t, IF sent THEN NoCall ELSE [calls[t] EXCEPT !.at = "fail"])
    /\ UNCHANGED <<remote, remote_lease, current, loaded, playback_refs, takeover>>

\* fail_generation
fails_generation(t) ==
    LET call == calls[t]
        matches == bound(call.session) /\ remote.generation = call.generation
    IN  /\ call.at = "fail"
        /\ remote' = IF matches THEN clear_owner(1) ELSE remote
        /\ goes(t, [call EXCEPT !.at = "reset",
                                !.stop = matches /\ remote.state = "ACTIVE",
                                !.release = matches /\ remote.owner_claimed,
                                !.victim = call.session, !.victim_generation = call.generation,
                                !.then = "idle"])
        /\ UNCHANGED <<hls, remote_lease, current, loaded, playback_refs, takeover>>

\* A direct play claims the player (integration_remote_claim): the lease ...
play_claims(t) ==
    /\ calls[t].at = "claim"
    /\ current' = claimed_lease(calls[t].session)
    /\ loaded' = [loaded EXCEPT !.playing = FALSE]
    /\ goes(t, [calls[t] EXCEPT !.at = "install", !.lease = claimed_lease(calls[t].session)])
    /\ UNCHANGED <<remote, hls, remote_lease, playback_refs, takeover>>

\* ... the resources and the reference to the logical session, then
\* remote_lease ...
play_installs(t) ==
    /\ calls[t].at = "install"
    /\ remote_lease' = calls[t].lease
    /\ playback_refs' = [playback_refs EXCEPT ![calls[t].session] = @ + 1]
    /\ goes(t, [calls[t] EXCEPT !.at = "load"])
    /\ UNCHANGED <<remote, hls, current, loaded, takeover>>

\* ... or the claim is refused, or aborted, and the request answers 409.
play_refused(t) ==
    /\ calls[t].at \in {"claim", "install"}
    /\ current' = IF calls[t].at = "install" /\ mine(calls[t].lease)
                  THEN [current EXCEPT !.token = 0] ELSE current
    /\ remote' = IF remote.generation = calls[t].generation
                    /\ remote.owner_session_id = calls[t].session
                 THEN clear_owner(0) ELSE remote
    /\ goes(t, NoCall)
    /\ UNCHANGED <<hls, remote_lease, loaded, playback_refs, takeover>>

\* The request is still the latest: the media is loaded, under the mutex.
still_owner(t) == owned(calls[t].session) /\ remote.generation = calls[t].generation
play_loads(t, accepted) ==
    /\ calls[t].at = "load" /\ still_owner(t)
    /\ accepted => mine(remote_lease)
    /\ IF accepted
       THEN /\ remote' = [remote EXCEPT !.owner_claimed = TRUE, !.control_attached = TRUE]
            /\ loaded' = load_ordered(remote.generation)
            /\ goes(t, NoCall)
       ELSE /\ remote' = clear_owner(1)
            /\ UNCHANGED loaded
            /\ goes(t, [calls[t] EXCEPT !.at = "stop", !.stop = TRUE, !.release = TRUE,
                                        !.victim = calls[t].session, !.then = "idle"])
    /\ UNCHANGED <<hls, remote_lease, current, playback_refs, takeover>>

\* It is not: what it claimed is given back.
mutant_play_superseded(t) ==
    /\ calls[t].at = "load" /\ ~still_owner(t)
    /\ goes(t, NoCall)
    /\ UNCHANGED <<remote, hls, remote_lease, current, loaded, playback_refs, takeover>>
play_superseded(t) ==
    /\ calls[t].at = "load" /\ ~still_owner(t)
    /\ goes(t, [calls[t] EXCEPT !.at = "release", !.release = TRUE,
                                !.victim = calls[t].session, !.then = "idle"])
    /\ UNCHANGED <<remote, hls, remote_lease, current, loaded, playback_refs, takeover>>

-----------------------------------------------------------------------------
(* POST /action: the sender's answers to the playlist requests. *)

\* airplay_remote_hls_handle_action with the answer that is expected: the
\* master names the media playlists, which are then asked for in turn.
hls_answered(t, s, count) ==
    LET next == IF hls.expecting_master THEN 0 ELSE hls.pending_media_index + 1
        total == IF hls.expecting_master THEN count ELSE hls.media_count
        more == next < total
    IN  /\ fresh_play(t)
        /\ hls.active /\ hls.session_id = s /\ hls.expected_request_id # 0
        /\ hls.expecting_master \/ hls.pending_media_index < hls.media_count
        /\ hls' = [hls EXCEPT !.expecting_master = FALSE, !.media_count = total,
                              !.pending_media_index = next,
                              !.expected_request_id = IF more THEN @ + 1 ELSE 0]
        /\ remote' = routed(s)
        /\ goes(t, [NoCall EXCEPT !.at = IF more THEN "next" ELSE "ready",
                                  !.session = s, !.generation = hls.generation])
        /\ UNCHANGED <<remote_lease, current, loaded, playback_refs, takeover>>

pending_generation(t) == hls_pending(calls[t].session) /\ remote.generation = calls[t].generation

\* REQUEST_NEXT
action_next(t, sent) ==
    /\ calls[t].at = "next"
    /\ goes(t, IF pending_generation(t) /\ ~sent THEN [calls[t] EXCEPT !.at = "fail"] ELSE NoCall)
    /\ UNCHANGED <<remote, hls, remote_lease, current, loaded, playback_refs, takeover>>

\* READY, the claim and the load with the mutex held
action_ready(t, accepted) ==
    LET s == calls[t].session
        new == claimed_lease(s)
    IN  /\ calls[t].at = "ready" /\ pending_generation(t)
        /\ current' = new /\ remote_lease' = new
        /\ playback_refs' = [playback_refs EXCEPT ![s] = @ + 1]
        /\ IF accepted
           THEN /\ remote' = [remote EXCEPT !.state = "ACTIVE", !.owner_claimed = TRUE,
                                            !.control_attached = TRUE]
                /\ loaded' = load_ordered(remote.generation)
                /\ goes(t, NoCall)
           ELSE /\ remote' = clear_owner(1)
                /\ loaded' = [loaded EXCEPT !.playing = FALSE]
                /\ goes(t, [calls[t] EXCEPT !.at = "reset", !.stop = TRUE, !.release = TRUE,
                                            !.victim = s, !.victim_generation = calls[t].generation])
        /\ UNCHANGED <<hls, takeover>>

\* READY of an exchange that was replaced, or whose claim is refused
action_refused(t) ==
    /\ calls[t].at = "ready"
    /\ goes(t, IF pending_generation(t) THEN [calls[t] EXCEPT !.at = "fail"] ELSE NoCall)
    /\ UNCHANGED <<remote, hls, remote_lease, current, loaded, playback_refs, takeover>>

-----------------------------------------------------------------------------
(* The other requests. *)

\* GET /playback-info and /scrub: the seek that waited for the duration is
\* made (apply_pending_seek).
seek_applied(s) == [routed(s) EXCEPT !.pending_seek = "none", !.pending_scrub = FALSE]
polls(t, s, seekable) ==
    /\ fresh(t) /\ bound(s)
    /\ remote' = IF seekable /\ owned(s) THEN seek_applied(s) ELSE routed(s)
    /\ UNCHANGED <<hls, remote_lease, current, loaded, playback_refs, calls, takeover>>

\* POST /scrub: remembered while the playlists are exchanged, else made
scrubs(t, s) ==
    /\ fresh(t) /\ bound(s)
    /\ remote' = IF hls_pending(s) THEN [remote EXCEPT !.pending_scrub = TRUE]
                 ELSE seek_applied(s)
    /\ UNCHANGED <<hls, remote_lease, current, loaded, playback_refs, calls, takeover>>

\* POST /rate: remembered, and the player paused or resumed if there is one
rates(t, s, rate) ==
    /\ fresh(t) /\ bound(s)
    /\ remote' = [routed(s) EXCEPT !.requested_rate = rate]
    /\ UNCHANGED <<hls, remote_lease, current, loaded, playback_refs, calls, takeover>>

\* POST /stop, and the end of the session's transport (terminate_session)
terminates(t, s) ==
    /\ fresh(t) /\ bound(s) /\ remote.generation < MaxPlays
    /\ remote' = clear_owner(1)
    /\ goes(t, [NoCall EXCEPT !.at = "reset", !.session = s, !.generation = remote.generation,
                              !.stop = remote.state = "ACTIVE", !.release = remote.owner_claimed,
                              !.victim = s, !.victim_generation = remote.generation])
    /\ UNCHANGED <<hls, remote_lease, current, loaded, playback_refs, takeover>>

\* airplay_remote_video_session_closed, with the last connection of a session
session_ends(t, s) ==
    /\ fresh(t) /\ bound(s) /\ remote.generation < MaxPlays
    /\ IF hls_pending(s)
       THEN /\ remote' = clear_owner(1)
            /\ goes(t, [NoCall EXCEPT !.at = "reset", !.session = s, !.generation = remote.generation,
                                      !.victim = s, !.victim_generation = remote.generation])
       ELSE /\ remote.control_attached
            /\ remote' = [remote EXCEPT !.control_attached = FALSE]
            /\ UNCHANGED calls
    /\ UNCHANGED <<hls, remote_lease, current, loaded, playback_refs, takeover>>

-----------------------------------------------------------------------------
(* airplay_integration_release_active_media: another protocol takes over. *)

takeover_releases ==
    /\ takeover.at = "idle" /\ mine(remote_lease)
    /\ overlapped' = (overlapped \/ ~alone)
    /\ takeover' = [at |-> "relinquish", lease |-> remote_lease]
    /\ current' = [current EXCEPT !.token = 0]
    /\ loaded' = [loaded EXCEPT !.playing = FALSE]
    /\ UNCHANGED <<remote, hls, remote_lease, playback_refs, calls>>

\* airplay_remote_video_relinquish_session
takeover_relinquishes ==
    /\ takeover.at = "relinquish"
    /\ IF bound(takeover.lease.token)
       THEN /\ remote.generation < MaxPlays
            /\ remote' = clear_owner(1)
            /\ hls' = hls_reset(takeover.lease.token, remote.generation)
       ELSE UNCHANGED <<remote, hls>>
    /\ takeover' = [takeover EXCEPT !.at = "clear"]
    /\ UNCHANGED <<remote_lease, current, loaded, playback_refs, calls>>

takeover_clears ==
    /\ takeover.at = "clear"
    /\ remote_lease' = IF remote_lease = takeover.lease THEN NoRemoteLease ELSE remote_lease
    /\ playback_refs' = [playback_refs EXCEPT ![takeover.lease.token] = IF @ > 0 THEN @ - 1 ELSE 0]
    /\ takeover' = [at |-> "idle", lease |-> NoRemoteLease]
    /\ UNCHANGED <<remote, hls, current, loaded, calls>>

RemoteRequest(t) ==
    \E s \in RemoteSessions :
      \/ \E play \in PlayRequests : play_begins(t, s, play)
      \/ \E count \in 0 .. MaxMedia : hls_answered(t, s, count)
      \/ \E seekable \in BOOLEAN : polls(t, s, seekable)
      \/ \E rate \in 0 .. 1 : rates(t, s, rate)
      \/ scrubs(t, s) \/ terminates(t, s) \/ session_ends(t, s)
RemoteProgress(t) ==
    \/ unwind_resets(t) \/ unwind_stops(t) \/ release_reads(t) \/ release_clears(t)
    \/ play_clears(t) \/ fails_generation(t)
    \/ play_claims(t) \/ play_installs(t) \/ play_refused(t) \/ play_superseded(t)
    \/ \E ok \in BOOLEAN : \/ hls_begins(t, ok) \/ play_loads(t, ok)
                           \/ action_next(t, ok) \/ action_ready(t, ok)
    \/ action_refused(t)

RemoteNext ==
    \/ \E t \in RemoteThreads : RemoteRequest(t) \/ (RemoteProgress(t) /\ UNCHANGED overlapped)
    \/ takeover_releases
    \/ (takeover_relinquishes \/ takeover_clears) /\ UNCHANGED overlapped

RemoteSpec == RemoteInit /\ [][RemoteNext]_RemoteVars

-----------------------------------------------------------------------------
\* Once every request has returned, and if no play and no takeover began while
\* another request was under way, the pieces agree: an active owner holds the
\* lease and one reference to its logical session, an idle one nothing, the
\* playlists kept are the owner's, and what plays is the owner's.
RemoteSettles ==
    alone /\ ~overlapped =>
        /\ \A s \in RemoteSessions : playback_refs[s] = (IF remote_lease.token = s THEN 1 ELSE 0)
        /\ remote.state = "ACTIVE" => remote.owner_claimed /\ remote_lease.token = remote.owner_session_id
        /\ remote.state # "ACTIVE" => remote_lease = NoRemoteLease
        /\ remote.state = "PENDING_HLS" => /\ hls_pending(hls.session_id) /\ hls.active
                                          /\ hls.generation = remote.generation
        /\ loaded.playing => remote.state = "ACTIVE" /\ loaded.generation = remote.generation

\* A request of an older generation never stops media that a newer one
\* loaded: "A stale runtime generation cannot stop or release a newer
\* AirPlay playback generation." (docs/AIRPLAY_PROTOCOL_COMPATIBILITY.md:36;
\* handle_play unwinds the owner it replaced after unlocking).
StaleCannotStopNewer == loaded.stopped_by # 0 => loaded.stopped_by >= loaded.generation
=============================================================================
