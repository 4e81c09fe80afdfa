------------------------------- MODULE Libmpv -------------------------------
(***************************************************************************)
(* The libmpv backend of the player (player/backend/libmpv.c).  The actor  *)
(* thread calls it (commands, then pump_events); mpv is an external        *)
(* machine that takes the asynchronous commands in order and answers with  *)
(* a queue of events, a property change being told only when that queue is *)
(* empty.  What the backend knows of the media is therefore always a       *)
(* little old, and two files may be on their way at once.                  *)
(*                                                                         *)
(* A deadline is armed or not: the clock may reach an armed one whenever   *)
(* it likes.  Positions, durations, the volume and the render context are  *)
(* left out, and the event sink with them; so is MPV_EVENT_SHUTDOWN, which *)
(* mpv sends when it is told to quit and nothing here tells it to.         *)
(*                                                                         *)
(* overtaken is a history variable: no step looks at it.                   *)
(***************************************************************************)
EXTENDS Naturals, Sequences

CONSTANTS
    MaxCalls,   \* bound on the commands given to the backend
    MaxAudio    \* bound on g_airplay_audio_serial

ASSUME LibmpvAssumption == MaxCalls \in Nat /\ MaxAudio \in Nat

VARIABLES
    g,          \* the g_* variables of the file, under g_mutex
    mpv,        \* the player: its commands, its events and what it is doing
    wanted,     \* what the last accepted command asked of the media
    overtaken,  \* history: the last loadfile was given to an mpv not at rest
    calls       \* number of commands given

LibmpvVars == <<g, mpv, wanted, overtaken, calls>>

PlayerStates == {"IDLE", "STOPPED", "LOADING", "PLAYING", "PAUSED", "BUFFERING",
                 "SEEKING", "ERROR"}
Media == {"none", "url", "mirror"}
Properties == {"pause", "seeking", "paused-for-cache", "seekable"}

BackendFlags == {"up", "stopped", "file_loaded", "load_pending", "hold", "restart_seen",
          "seek_inflight", "seek_event_seen", "play_requested", "unpause_pending",
          "deadline", "pause", "seeking", "paused_for_cache", "pending_seek",
          "seekable", "last_error", "stream_bridge", "audio_bridge", "audio_pending"}

\* libmpv_derive_state_locked: the first case that applies.
derive_state(b) ==
    IF b.last_error THEN "ERROR"
    ELSE IF b.media = "none" THEN "IDLE"
    ELSE IF b.stopped THEN "STOPPED"
    ELSE IF ~b.file_loaded \/ b.hold THEN "LOADING"
    ELSE IF b.seeking THEN "SEEKING"
    ELSE IF b.paused_for_cache /\ ~b.pause THEN "BUFFERING"
    ELSE IF b.pause THEN "PAUSED" ELSE "PLAYING"

refresh_state(b) == [b EXCEPT !.state = derive_state(b)]

reset_startup_gate(b) ==
    [b EXCEPT !.hold = FALSE, !.restart_seen = FALSE, !.seek_inflight = FALSE,
              !.seek_event_seen = FALSE, !.play_requested = FALSE,
              !.unpause_pending = FALSE, !.deadline = FALSE]

release_startup_gate(b) ==
    IF b.hold THEN [b EXCEPT !.hold = FALSE, !.seek_inflight = FALSE,
                             !.seek_event_seen = FALSE, !.deadline = FALSE]
              ELSE b

\* libmpv_reset_locked, with mpv created or not; the audio serial goes on.
reset(up, serial) ==
    [f \in BackendFlags \cup {"media", "state", "serial"} |->
        CASE f = "media" -> "none"
          [] f = "state" -> "IDLE"
          [] f = "serial" -> serial
          [] f = "up" -> up
          [] f = "pause" -> TRUE
          [] OTHER -> FALSE]

-----------------------------------------------------------------------------
(* mpv, as the backend uses it.                                            *)

NoFile == [media |-> "none", paused |-> FALSE]
FreshMpv == [cmds |-> <<>>, evs |-> <<>>, changed |-> {}, file |-> "idle",
             next |-> NoFile, media |-> "none", pause |-> FALSE, seeking |-> FALSE,
             cache |-> FALSE, seekable |-> FALSE, adding |-> {}, tracks |-> {},
             refused |-> FALSE]

\* mpv_command_async and mpv_set_property_async.
sent(m, op, arg) == [m EXCEPT !.cmds = Append(@, [op |-> op, arg |-> arg])]
told(m, id, arg) == [m EXCEPT !.evs = Append(@, [id |-> id, arg |-> arg])]

\* A property takes a value; the observer hears of it later.
took(m, property, field, value) ==
    IF m[field] = value THEN m
    ELSE [m EXCEPT ![field] = value, !.changed = @ \cup {property}]

\* The end of the file mpv has open: what belonged to it goes with it.
closed(m, reason) ==
    IF m.file = "idle" THEN m
    ELSE LET quiet == took(took(m, "seeking", "seeking", FALSE),
                           "paused-for-cache", "cache", FALSE)
         IN  told([quiet EXCEPT !.file = "idle", !.media = "none", !.tracks = {}],
                  "END_FILE", reason)

\* libmpv_airplay_stream_open: whether a uri finds its bridge.
stream_open(uri) ==
    IF uri = 0 THEN g.stream_bridge ELSE g.audio_bridge /\ uri = g.serial

mpv_command ==
    /\ mpv.cmds # <<>>
    /\ LET c == Head(mpv.cmds)
           m == [mpv EXCEPT !.cmds = Tail(@)]
       IN  \/ /\ c.op = "load"
              /\ mpv' = [m EXCEPT !.next = c.arg]
           \/ /\ c.op = "load"
              /\ mpv' = told([m EXCEPT !.refused = TRUE], "REPLY_FAILED", "load")
           \/ /\ c.op = "stop"
              /\ mpv' = closed([m EXCEPT !.next = NoFile], "stop")
           \/ /\ c.op = "pause"
              /\ mpv' = took(m, "pause", "pause", c.arg)
           \/ /\ c.op = "seek"
              /\ mpv' = IF m.file = "playing" /\ m.seekable
                        THEN told(took(m, "seeking", "seeking", TRUE), "SEEK", 0)
                        ELSE told(m, "REPLY_FAILED", "seek")
           \/ /\ c.op = "audio-add"
              /\ mpv' = IF stream_open(c.arg) THEN [m EXCEPT !.adding = @ \cup {c.arg}]
                        ELSE told(m, "ADD_FAILED", c.arg)
           \/ /\ c.op = "audio-remove"
              /\ mpv' = [m EXCEPT !.tracks = @ \ {c.arg}]
           \/ /\ c.op = "aid"
              /\ mpv' = IF c.arg \in m.tracks THEN told(m, "SELECTED", c.arg)
                        ELSE told(m, "SELECT_FAILED", c.arg)
    /\ UNCHANGED <<g, wanted, overtaken, calls>>

\* The open file gives way to the next one; the options given with loadfile
\* are applied when that one starts.
mpv_start ==
    /\ mpv.next # NoFile
    /\ LET m == told(closed(mpv, "stop"), "START_FILE", 0)
       IN  mpv' = took([m EXCEPT !.file = "starting", !.media = mpv.next.media,
                                 !.next = NoFile, !.refused = FALSE],
                       "pause", "pause", mpv.next.paused)
    /\ UNCHANGED <<g, wanted, overtaken, calls>>

\* The demuxer opens the file, or cannot.
mpv_load ==
    /\ mpv.file = "starting" /\ mpv.next = NoFile
    /\ \/ /\ mpv.media = "mirror" => stream_open(0)
          /\ \E seekable \in BOOLEAN :
                mpv' = told(took([mpv EXCEPT !.file = "loaded"], "seekable", "seekable",
                                 seekable), "FILE_LOADED", 0)
       \/ mpv' = closed(mpv, "error")
    /\ UNCHANGED <<g, wanted, overtaken, calls>>

\* The first frame, and the first one after a seek.
mpv_restart ==
    /\ mpv.next = NoFile
    /\ mpv.file = "loaded" \/ (mpv.file = "playing" /\ mpv.seeking)
    /\ mpv' = told(took([mpv EXCEPT !.file = "playing"], "seeking", "seeking", FALSE),
                   "PLAYBACK_RESTART", 0)
    /\ UNCHANGED <<g, wanted, overtaken, calls>>

mpv_buffer ==
    /\ mpv.file = "playing"
    /\ mpv' = took(mpv, "paused-for-cache", "cache", ~mpv.cache)
    /\ UNCHANGED <<g, wanted, overtaken, calls>>

mpv_end ==
    /\ mpv.file \in {"loaded", "playing"}
    /\ \E reason \in {"eof", "error"} : mpv' = closed(mpv, reason)
    /\ UNCHANGED <<g, wanted, overtaken, calls>>

\* An audio-add ends; a cancelled bridge may still have become a track.
mpv_added ==
    /\ \E serial \in mpv.adding :
         LET m == [mpv EXCEPT !.adding = @ \ {serial}]
         IN  \/ mpv' = told(m, "ADD_FAILED", serial)
             \/ /\ mpv.file # "idle"
                /\ mpv' = told([m EXCEPT !.tracks = @ \cup {serial}], "ADDED", serial)
    /\ UNCHANGED <<g, wanted, overtaken, calls>>

-----------------------------------------------------------------------------
(* The AirPlay bridges.  Each step below takes the pair of backend and     *)
(* player and gives it back changed.                                       *)

\* libmpv_airplay_remove_audio_locked: only a track mpv already lists.
remove_audio(m, serial) ==
    IF serial \in m.tracks THEN sent(m, "audio-remove", serial) ELSE m

\* libmpv_airplay_attach_audio_locked.
attach_audio(s) ==
    IF s.b.audio_pending /\ s.b.audio_bridge /\ s.b.file_loaded
    THEN [b |-> [s.b EXCEPT !.audio_pending = FALSE],
          m |-> sent(s.m, "audio-add", s.b.serial)]
    ELSE s

\* player_libmpv_set_airplay_audio_bridge, past its check.  The audio-add of
\* the previous bridge is aborted, its track removed when it is there.
set_audio_bridge(s, bridge) ==
    LET previous == IF s.b.audio_bridge THEN s.b.serial ELSE 0
        b == [s.b EXCEPT !.audio_bridge = bridge, !.serial = @ + 1,
                         !.audio_pending = bridge]
    IN  attach_audio([b |-> b, m |-> remove_audio(s.m, previous)])

\* Clearing what is clear already only moves the serial on.
drop_audio(s) ==
    IF s.b.audio_bridge THEN set_audio_bridge(s, FALSE) ELSE s

commit(s) == g' = s.b /\ mpv' = s.m

\* mpv is at rest: nothing is on its way to it or from it.
settled ==
    /\ mpv.cmds = <<>> /\ mpv.evs = <<>> /\ mpv.next = NoFile /\ mpv.adding = {}
    /\ mpv.file \in {"idle", "playing"} /\ ~mpv.seeking
call == calls < MaxCalls /\ calls' = calls + 1

set_airplay_audio_bridge(bridge) ==
    /\ call
    /\ g.serial < MaxAudio
    /\ bridge => g.up /\ g.stream_bridge
    /\ commit(set_audio_bridge([b |-> g, m |-> mpv], bridge))
    /\ UNCHANGED <<wanted, overtaken>>

\* player_libmpv_set_airplay_stream_bridge: the sound goes first.
set_airplay_stream_bridge(bridge) ==
    /\ call
    /\ LET s == drop_audio([b |-> g, m |-> mpv])
       IN  commit(IF bridge /\ ~g.up THEN s
                  ELSE [s EXCEPT !.b.stream_bridge = bridge])
    /\ UNCHANGED <<wanted, overtaken>>

-----------------------------------------------------------------------------
(* The commands.                                                           *)

\* libmpv_async_load_current, once mpv accepted the command.
async_load_current(s, paused) ==
    [b |-> refresh_state(
             [s.b EXCEPT !.last_error = FALSE, !.pause = paused, !.stopped = FALSE,
                !.file_loaded = FALSE, !.load_pending = TRUE, !.hold = TRUE,
                !.restart_seen = FALSE, !.seek_inflight = FALSE,
                !.seek_event_seen = FALSE, !.play_requested = ~paused,
                !.unpause_pending = FALSE, !.deadline = TRUE, !.seeking = FALSE,
                !.paused_for_cache = FALSE, !.pending_seek = FALSE]),
     m |-> sent(s.m, "load", [media |-> s.b.media, paused |-> paused])]

\* libmpv_set_media: a refused loadfile puts the uri and the error back.
set_media(media) ==
    /\ call
    /\ g.up
    /\ LET s == [b |-> [g EXCEPT !.media = media, !.last_error = FALSE], m |-> mpv]
           t == IF media = "mirror" THEN s ELSE drop_audio(s)
       IN  \/ /\ commit(async_load_current(t, TRUE))
              /\ wanted' = "pause" /\ overtaken' = ~settled
           \/ /\ commit([t EXCEPT !.b.media = g.media, !.b.last_error = g.last_error])
              /\ UNCHANGED <<wanted, overtaken>>

\* libmpv_play of a stopped media loads it again, or is refused and changes
\* nothing.
play_again ==
    /\ call
    /\ g.up /\ g.media # "none" /\ g.state = "STOPPED"
    /\ \/ /\ commit(async_load_current([b |-> g, m |-> mpv], FALSE))
          /\ wanted' = "play" /\ overtaken' = ~settled
       \/ UNCHANGED <<g, mpv, wanted, overtaken>>

\* Whether the unpause has to wait for FILE_LOADED.
play_deferred == ~g.file_loaded

play ==
    /\ call
    /\ g.up /\ g.media # "none" /\ g.state # "STOPPED"
    /\ LET b == [g EXCEPT !.last_error = FALSE, !.play_requested = TRUE,
                          !.deadline = @ \/ g.hold,
                          !.unpause_pending = play_deferred]
       IN  \/ /\ play_deferred
              /\ g' = refresh_state(b) /\ wanted' = "play"
              /\ UNCHANGED mpv
           \/ /\ ~play_deferred
              /\ g' = refresh_state([b EXCEPT !.pause = FALSE]) /\ wanted' = "play"
              /\ mpv' = sent(mpv, "pause", FALSE)
           \/ /\ ~play_deferred   \* libmpv_dispatch_play_locked failed
              /\ g' = b /\ wanted' = "none"
              /\ UNCHANGED mpv
    /\ UNCHANGED overtaken

pause ==
    /\ call
    /\ g.up /\ g.media # "none" /\ g.state # "STOPPED"
    /\ \/ /\ g' = refresh_state([release_startup_gate(g) EXCEPT
                !.last_error = FALSE, !.play_requested = FALSE,
                !.unpause_pending = FALSE, !.pause = TRUE])
          /\ mpv' = sent(mpv, "pause", TRUE)
          /\ wanted' = "pause"
       \/ UNCHANGED <<g, mpv, wanted>>   \* mpv refused the command
    /\ UNCHANGED overtaken

\* What a stop and the end of the file leave of the media.
halted(b) ==
    [reset_startup_gate(b) EXCEPT
        !.stopped = TRUE, !.file_loaded = FALSE, !.seeking = FALSE,
        !.paused_for_cache = FALSE, !.pause = TRUE, !.pending_seek = FALSE]

\* libmpv_stop: the sound is gone even when mpv refuses the command.
stop ==
    /\ call
    /\ g.up /\ g.media # "none"
    /\ LET s == drop_audio([b |-> g, m |-> mpv])
           b == [halted(s.b) EXCEPT !.load_pending = FALSE, !.last_error = FALSE]
       IN  \/ /\ commit([b |-> refresh_state(b), m |-> sent(s.m, "stop", 0)])
              /\ wanted' = "stop"
           \/ commit(s) /\ UNCHANGED wanted
    /\ UNCHANGED overtaken

\* libmpv_send_seek_target_locked.
send_seek(s) ==
    [b |-> refresh_state([s.b EXCEPT !.last_error = FALSE, !.seeking = TRUE]),
     m |-> sent(s.m, "seek", 0)]

\* libmpv_maybe_issue_pending_seek_locked.
maybe_issue_pending_seek(s) ==
    IF s.b.pending_seek /\ s.b.file_loaded /\ s.b.seekable /\ s.b.state # "STOPPED"
    THEN LET t == send_seek(s) IN [t EXCEPT !.b.pending_seek = FALSE]
    ELSE s

\* libmpv_seek_target, libmpv_seek_ms.  A seek during the start is merged with
\* it: the gate waits for the seek, or for its own deadline.
seek_target ==
    /\ call
    /\ g.up /\ g.media = "url" /\ g.state # "STOPPED"
    /\ LET merged == [g EXCEPT !.seek_inflight = TRUE, !.seek_event_seen = FALSE,
                               !.deadline = TRUE]
           b == IF g.hold THEN merged ELSE g
       IN  commit(IF ~g.file_loaded
                  THEN [b |-> [b EXCEPT !.pending_seek = TRUE], m |-> mpv]
                  ELSE send_seek([b |-> b, m |-> mpv]))
    /\ UNCHANGED <<wanted, overtaken>>

libmpv_init ==
    /\ ~g.up
    /\ g' = reset(TRUE, g.serial)
    /\ UNCHANGED <<mpv, wanted, overtaken, calls>>

\* libmpv_deinit: mpv_terminate_destroy takes commands and events with it.
libmpv_deinit ==
    /\ call
    /\ g.up
    /\ g' = reset(FALSE, g.serial)
    /\ mpv' = FreshMpv
    /\ wanted' = "none" /\ overtaken' = FALSE

-----------------------------------------------------------------------------
(* libmpv_pump_events: the events, one by one.                             *)

heard(m) == [m EXCEPT !.evs = Tail(@)]

START_FILE ==
    /\ g' = refresh_state([g EXCEPT !.last_error = FALSE, !.stopped = FALSE,
                !.file_loaded = FALSE, !.load_pending = FALSE, !.seeking = FALSE])
    /\ mpv' = heard(mpv)

\* The deferred unpause is sent, unless mpv refuses it.
FILE_LOADED ==
    LET s == maybe_issue_pending_seek(attach_audio(
                 [b |-> [g EXCEPT !.last_error = FALSE, !.stopped = FALSE,
                                  !.file_loaded = TRUE],
                  m |-> heard(mpv)]))
        due == s.b.play_requested /\ s.b.unpause_pending
        b == [s.b EXCEPT !.unpause_pending = FALSE]
    IN  \/ /\ ~due
           /\ commit([s EXCEPT !.b = refresh_state(s.b)])
           /\ UNCHANGED wanted
        \/ /\ due
           /\ commit([b |-> refresh_state([b EXCEPT !.pause = FALSE]),
                      m |-> sent(s.m, "pause", FALSE)])
           /\ UNCHANGED wanted
        \/ /\ due
           /\ commit([b |-> refresh_state(b), m |-> s.m])
           /\ wanted' = "none"

SEEK ==
    /\ g' = refresh_state([g EXCEPT !.seeking = TRUE,
                !.seek_event_seen = @ \/ (g.hold /\ g.seek_inflight)])
    /\ mpv' = heard(mpv)

\* A restart opens the gate when the seek it waits for is over, or when it is
\* the second; the first one only opens a window for a seek to come in.
gate_at_restart(b) ==
    IF ~(b.hold /\ b.play_requested) THEN b
    ELSE IF b.seek_inflight /\ b.seek_event_seen THEN release_startup_gate(b)
    ELSE IF ~b.restart_seen THEN [b EXCEPT !.restart_seen = TRUE, !.deadline = TRUE]
    ELSE IF ~b.seek_inflight THEN release_startup_gate(b) ELSE b

PLAYBACK_RESTART ==
    LET s == maybe_issue_pending_seek(
                 [b |-> [g EXCEPT !.file_loaded = TRUE, !.stopped = FALSE,
                                  !.seeking = FALSE],
                  m |-> heard(mpv)])
    IN  commit([s EXCEPT !.b = refresh_state(gate_at_restart(s.b))])

mutant_replaced_previous == FALSE

\* The end of a file that a later loadfile replaced.
replaced_previous == g.load_pending

END_FILE(reason) ==
    /\ mpv' = heard(mpv)
    /\ g' = IF replaced_previous THEN g
            ELSE refresh_state([halted(g) EXCEPT !.last_error = (reason = "error")])

REPLY_FAILED(op) ==
    /\ g' = refresh_state([g EXCEPT !.seeking = @ /\ op # "seek",
                                    !.load_pending = @ /\ op # "load"])
    /\ mpv' = heard(mpv)

\* A reply to the audio-add of a bridge that is no longer the one.
obsolete(serial) == ~(g.audio_bridge /\ serial = g.serial)

\* libmpv_airplay_audio_reply.
audio_reply(id, serial) ==
    /\ LET m == heard(mpv)
       IN  mpv' = CASE id \in {"ADDED", "ADD_FAILED"} /\ obsolete(serial)
                         -> remove_audio(m, serial)
                    [] id = "ADDED" /\ ~obsolete(serial) /\ serial \in m.tracks
                         -> sent(m, "aid", serial)
                    [] OTHER -> m
    /\ UNCHANGED g

handle_event ==
    /\ g.up /\ mpv.evs # <<>>
    /\ LET e == Head(mpv.evs)
       IN  \/ e.id = "FILE_LOADED" /\ FILE_LOADED
           \/ /\ \/ e.id = "START_FILE" /\ START_FILE
                 \/ e.id = "SEEK" /\ SEEK
                 \/ e.id = "PLAYBACK_RESTART" /\ PLAYBACK_RESTART
                 \/ e.id = "END_FILE" /\ END_FILE(e.arg)
                 \/ e.id = "REPLY_FAILED" /\ REPLY_FAILED(e.arg)
                 \/ /\ e.id \in {"ADDED", "ADD_FAILED", "SELECTED", "SELECT_FAILED"}
                    /\ audio_reply(e.id, e.arg)
              /\ UNCHANGED wanted
    /\ UNCHANGED <<overtaken, calls>>

\* libmpv_handle_property_change.
handle_property_change(property) ==
    /\ g.up /\ mpv.evs = <<>> /\ property \in mpv.changed
    /\ LET m == [mpv EXCEPT !.changed = @ \ {property}]
       IN  \/ /\ property = "pause"
              /\ g' = refresh_state([g EXCEPT !.pause = mpv.pause])
              /\ mpv' = m
           \/ /\ property = "seeking"
              /\ g' = refresh_state([g EXCEPT !.seeking = mpv.seeking])
              /\ mpv' = m
           \/ /\ property = "paused-for-cache"
              /\ g' = refresh_state([g EXCEPT !.paused_for_cache = mpv.cache])
              /\ mpv' = m
           \/ /\ property = "seekable"
              /\ commit(maybe_issue_pending_seek(
                    [b |-> [g EXCEPT !.seekable = mpv.seekable /\ g.media # "mirror"],
                     m |-> m]))
    /\ UNCHANGED <<wanted, overtaken, calls>>

\* libmpv_release_expired_startup_gate: an unloaded file gets more time.
release_expired_startup_gate ==
    /\ g.up /\ g.hold /\ g.deadline /\ g.file_loaded
    /\ g' = refresh_state(release_startup_gate(g))
    /\ UNCHANGED <<mpv, wanted, overtaken, calls>>

-----------------------------------------------------------------------------
LibmpvInit ==
    /\ g = reset(FALSE, 0)
    /\ mpv = FreshMpv
    /\ wanted = "none" /\ overtaken = FALSE
    /\ calls = 0

LibmpvNext ==
    \/ mpv_command \/ mpv_start \/ mpv_load \/ mpv_restart \/ mpv_buffer \/ mpv_end
    \/ mpv_added
    \/ \E bridge \in BOOLEAN : \/ set_airplay_audio_bridge(bridge)
                               \/ set_airplay_stream_bridge(bridge)
    \/ \E media \in {"url", "mirror"} : set_media(media)
    \/ play_again \/ play \/ pause \/ stop \/ seek_target \/ libmpv_init \/ libmpv_deinit
    \/ handle_event
    \/ \E property \in Properties : handle_property_change(property)
    \/ release_expired_startup_gate

LibmpvSpec == LibmpvInit /\ [][LibmpvNext]_LibmpvVars

LibmpvTypeOK ==
    /\ DOMAIN g = BackendFlags \cup {"media", "state", "serial"}
    /\ \A f \in BackendFlags : g[f] \in BOOLEAN
    /\ g.media \in Media /\ g.state \in PlayerStates /\ g.serial \in 0 .. MaxAudio + MaxCalls
    /\ mpv.file \in {"idle", "starting", "loaded", "playing"}
    /\ mpv.changed \subseteq Properties
    /\ wanted \in {"none", "play", "pause", "stop"} /\ overtaken \in BOOLEAN
    /\ calls \in 0 .. MaxCalls

\* Nothing is on its way between the backend and mpv, and mpv did not refuse
\* the last loadfile (which would leave the backend LOADING for good).
quiet ==
    settled /\ ~mpv.refused /\ mpv.changed = {} /\ g.up

\* What the backend tells the player is what mpv does once the two have
\* settled.  Whatever the order of commands and events: a file that ended, or
\* never came, is not shown as there, and one that is there is not shown as
\* stopped; the track of a bridge that was taken away is gone; a media still
\* held back by the startup gate has a deadline that opens it.  When the last
\* loadfile was given to an mpv at rest, pause is shown as it is and a play
\* asked for last does happen; otherwise an event of the file that was being
\* replaced may be taken for one of its successor (AutoplayHappens).
ReportsWhatMpvDoes ==
    /\ g.hold => g.deadline /\ ~g.stopped /\ g.media # "none"
    /\ quiet =>
        /\ mpv.file = "idle" <=> g.state \in {"IDLE", "STOPPED", "ERROR"}
        /\ mpv.tracks \subseteq (IF g.audio_bridge THEN {g.serial} ELSE {})
    /\ quiet /\ ~overtaken =>
        /\ g.state = "PAUSED" => mpv.pause
        /\ g.state = "PLAYING" => ~mpv.pause
        /\ mpv.file = "playing" /\ wanted = "play" => ~mpv.pause

\* The comment in libmpv_play: "Defer the unpause until FILE_LOADED so
\* pause=yes cannot overwrite autoplay."
AutoplayHappens ==
    quiet /\ mpv.file = "playing" /\ wanted = "play" => ~mpv.pause
=============================================================================
