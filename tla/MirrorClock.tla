----------------------------- MODULE MirrorClock -----------------------------
(***************************************************************************)
(* The clocks that put AirPlay's pictures and sound on one timeline        *)
(* (airplay/mirror/clock.c).  The video bridge's clock anchors NTP times   *)
(* to presentation times; the audio bridge's clock copies that anchor      *)
(* before each frame (airplay_stream_bridge_sync_video_timeline) and adds  *)
(* RTP times to it through the sync packets of the control channel.        *)
(*                                                                         *)
(* Times are small integers: the thresholds of clock.c and its 32-bit RTP  *)
(* counter are constants here.  Jitter, drift and counters feed only the   *)
(* diagnostics and are left out; airplay_mirror_clock_reset has no caller. *)
(***************************************************************************)
EXTENDS Integers

CONSTANTS
    NtpTimes,       \* the NTP times a sender may use, all positive
    RtpModulus,     \* 2^32 in the code
    NtpPerTick,     \* NTP units in one tick of the 90 kHz time base
    TimeBase,       \* ticks per second
    SampleRates,    \* the rates of the accepted audio formats
    Deadband, MaxCorrection, SyncJump,   \* AIRPLAY_CLOCK_..._TICKS
    VideoBackward, VideoForward, MaxSkew,
    MaxPts          \* bound on presentation times

ASSUME ClockAssumption ==
    /\ NtpTimes \subseteq Nat \ {0} /\ SampleRates \subseteq Nat \ {0}
    /\ RtpModulus \in Nat \ {0} /\ NtpPerTick \in Nat \ {0} /\ TimeBase \in Nat \ {0}
    /\ Deadband \in Nat /\ MaxCorrection \in Nat /\ SyncJump \in Nat
    /\ Deadband + MaxCorrection <= SyncJump
    /\ VideoBackward \in Nat /\ VideoForward \in Nat /\ MaxSkew \in Nat /\ MaxPts \in Nat

VARIABLES
    video_clock,    \* of the bridge that carries the pictures
    audio_clock,    \* of the bridge that carries the sound
    timeline        \* the copy sync_video_timeline makes between two locks

ClockVars == <<video_clock, audio_clock, timeline>>

Timelines == [anchor_ntp : NtpTimes, anchor_pts : Int, last_ntp : NtpTimes, last_pts : Int]
NoTimeline == [anchor_ntp |-> 0]

\* The C quotient, rounded towards zero.
trunc_div(a, b) == IF a >= 0 THEN a \div b ELSE -((-a) \div b)
absolute(value) == IF value >= 0 THEN value ELSE -value

\* ntp_delta_to_90k
ntp_delta(ntp, anchor) == trunc_div(ntp - anchor, NtpPerTick)

\* The difference of two RTP times as a signed integer of their width.
rtp_delta(rtp, base) ==
    LET d == (rtp - base) % RtpModulus
    IN  IF 2 * d >= RtpModulus THEN d - RtpModulus ELSE d

\* calloc, and audio_only by the bridge's profile.
clock_create(audio_only) ==
    [audio_only |-> audio_only, video_ready |-> FALSE, anchor_ntp |-> 0, anchor_pts |-> 0,
     last_ntp |-> 0, last_pts |-> 0, sample_rate |-> 0, sync_ready |-> FALSE, sync_rtp |-> 0,
     sync_ntp |-> 0, adjust |-> 0, audio_ready |-> FALSE, last_audio_pts |-> 0,
     result |-> "OK"]

map_video_ntp(c, ntp) == c.anchor_pts + ntp_delta(ntp, c.anchor_ntp)

\* Where an RTP time lies on the video's timeline.
map_rtp(c, rtp) ==
    map_video_ntp(c, c.sync_ntp) + c.adjust
        + trunc_div(rtp_delta(rtp, c.sync_rtp) * TimeBase, c.sample_rate)

reset_audio_mapping(c) ==
    [c EXCEPT !.sync_ready = FALSE, !.audio_ready = FALSE, !.adjust = 0]

\* airplay_mirror_clock_set_audio_rate
set_audio_rate(c, rate) ==
    [IF c.sample_rate \notin {0, rate} THEN reset_audio_mapping(c) ELSE c
        EXCEPT !.sample_rate = rate]

\* airplay_mirror_clock_set_video_timeline
set_video_timeline(c, t) ==
    [IF c.video_ready /\ (c.anchor_ntp # t.anchor_ntp \/ c.anchor_pts # t.anchor_pts)
     THEN reset_audio_mapping(c) ELSE c
        EXCEPT !.audio_only = FALSE, !.video_ready = TRUE, !.anchor_ntp = t.anchor_ntp,
               !.anchor_pts = t.anchor_pts, !.last_ntp = t.last_ntp, !.last_pts = t.last_pts]

\* An audio-only session has no pictures: its first sync packet is the anchor.
anchor_audio_only(c, ntp) ==
    IF c.audio_only /\ ~c.video_ready
    THEN [c EXCEPT !.video_ready = TRUE, !.anchor_ntp = ntp, !.anchor_pts = 0,
                   !.last_ntp = ntp, !.last_pts = 0]
    ELSE c

\* A plausible slip: the whole correction is applied.
mutant_applied(correction) == IF absolute(correction) <= Deadband THEN 0 ELSE correction

\* How much of an observed correction is applied at once.
applied(correction) ==
    IF absolute(correction) <= Deadband THEN 0
    ELSE IF correction > MaxCorrection THEN MaxCorrection
    ELSE IF correction < -MaxCorrection THEN -MaxCorrection
    ELSE correction

\* airplay_mirror_clock_update_audio_sync
update_audio_sync(clock, rtp, ntp) ==
    LET c == anchor_audio_only(clock, ntp)
        predicted == map_rtp(c, rtp)
        observed == map_video_ntp(c, ntp)
        correction == observed - predicted
        jump == absolute(correction) > SyncJump
        synced == [c EXCEPT !.sync_rtp = rtp, !.sync_ntp = ntp, !.sync_ready = TRUE,
                            !.result = "OK"]
    IN  IF ~(c.sync_ready /\ c.video_ready) THEN synced
        ELSE IF jump
        THEN [synced EXCEPT !.adjust = 0, !.audio_ready = FALSE, !.result = "DISCONTINUITY"]
        ELSE [synced EXCEPT !.adjust = predicted + applied(correction) - observed]

\* airplay_mirror_clock_map_video; last_pts is the time it hands out.
map_video(c, ntp) ==
    LET delta == ntp_delta(ntp, c.last_ntp)
        jump == delta < -VideoBackward \/ delta > VideoForward
        pts == map_video_ntp(c, ntp)
    IN  IF ~c.video_ready
        THEN [c EXCEPT !.video_ready = TRUE, !.anchor_ntp = ntp, !.anchor_pts = 0,
                       !.last_ntp = ntp, !.last_pts = 0]
        ELSE IF jump
        THEN [reset_audio_mapping(c) EXCEPT
                !.anchor_ntp = ntp, !.anchor_pts = c.last_pts + 1, !.last_ntp = ntp,
                !.last_pts = c.last_pts + 1]
        ELSE [c EXCEPT !.last_ntp = ntp,
                       !.last_pts = IF pts <= c.last_pts THEN c.last_pts + 1 ELSE pts]

\* airplay_mirror_clock_map_audio: dropped without sync, or too far from the video.
audio_mappable(c, rtp) ==
    /\ c.sample_rate # 0 /\ c.video_ready /\ c.sync_ready
    /\ map_rtp(c, rtp) >= 0 /\ absolute(map_rtp(c, rtp) - c.last_pts) <= MaxSkew
map_audio(c, rtp) ==
    LET pts == map_rtp(c, rtp)
    IN  [c EXCEPT !.audio_ready = TRUE,
                  !.last_audio_pts = IF c.audio_ready /\ pts <= @ THEN @ + 1 ELSE pts]

-----------------------------------------------------------------------------
ClockInit ==
    /\ video_clock = clock_create(FALSE)
    /\ audio_clock = clock_create(TRUE)
    /\ timeline = NoTimeline

InBounds(c) == c.last_pts <= MaxPts /\ c.last_audio_pts <= MaxPts

Picture(ntp) ==
    /\ video_clock' = map_video(video_clock, ntp)
    /\ InBounds(video_clock')
    /\ UNCHANGED <<audio_clock, timeline>>

SetRate(rate) ==
    /\ audio_clock.sample_rate # rate
    /\ audio_clock' = set_audio_rate(audio_clock, rate)
    /\ UNCHANGED <<video_clock, timeline>>

Sync(rtp, ntp) ==
    /\ audio_clock.sample_rate # 0
    /\ audio_clock' = update_audio_sync(audio_clock, rtp, ntp)
    /\ UNCHANGED <<video_clock, timeline>>

\* airplay_mirror_clock_get_video_timeline, under the video bridge's lock ...
GetTimeline ==
    /\ timeline = NoTimeline /\ video_clock.video_ready
    /\ timeline' = [anchor_ntp |-> video_clock.anchor_ntp, anchor_pts |-> video_clock.anchor_pts,
                    last_ntp |-> video_clock.last_ntp, last_pts |-> video_clock.last_pts]
    /\ UNCHANGED <<video_clock, audio_clock>>

\* ... and its use under the audio bridge's.
SetTimeline ==
    /\ timeline # NoTimeline
    /\ audio_clock' = set_video_timeline(audio_clock, timeline)
    /\ timeline' = NoTimeline
    /\ UNCHANGED video_clock

\* Pictures have not started: the sound only learns that it is not alone.
SetNotAudioOnly ==
    /\ timeline = NoTimeline /\ ~video_clock.video_ready /\ audio_clock.audio_only
    /\ audio_clock' = [audio_clock EXCEPT !.audio_only = FALSE]
    /\ UNCHANGED <<video_clock, timeline>>

Sound(rtp) ==
    /\ timeline = NoTimeline /\ audio_mappable(audio_clock, rtp)
    /\ audio_clock' = map_audio(audio_clock, rtp)
    /\ InBounds(audio_clock')
    /\ UNCHANGED <<video_clock, timeline>>

ClockNext ==
    \/ \E ntp \in NtpTimes : Picture(ntp)
    \/ \E rate \in SampleRates : SetRate(rate)
    \/ \E rtp \in 0 .. RtpModulus - 1, ntp \in NtpTimes : Sync(rtp, ntp)
    \/ GetTimeline \/ SetTimeline \/ SetNotAudioOnly
    \/ \E rtp \in 0 .. RtpModulus - 1 : Sound(rtp)

ClockSpec == ClockInit /\ [][ClockNext]_ClockVars

-----------------------------------------------------------------------------
\* The two clocks have the values their fields may take.
ClockTypeOK ==
    /\ \A c \in {video_clock, audio_clock} :
          /\ c.sample_rate \in SampleRates \cup {0}
          /\ c.anchor_ntp \in NtpTimes \cup {0} /\ c.last_ntp \in NtpTimes \cup {0}
          /\ c.sync_rtp \in 0 .. RtpModulus - 1 /\ c.sync_ntp \in NtpTimes \cup {0}
    /\ timeline = NoTimeline \/ timeline \in Timelines

\* A correction that is left for later never outgrows the jump that would
\* make it a discontinuity: the sound's error stays bounded.
AdjustBounded == absolute(audio_clock.adjust) <= SyncJump - MaxCorrection

\* The pictures' presentation times only grow, whatever the sender's NTP clock
\* does; so do the sound's until its mapping is reset; and a sync packet that
\* is no discontinuity moves the sound by at most MAX_CORRECTION: a listener
\* hears no jump (clock.c:207-227).
MovesSmoothly ==
    /\ video_clock.video_ready /\ video_clock' # video_clock =>
          video_clock'.last_pts > video_clock.last_pts
    /\ LET before == audio_clock  after == audio_clock'
       IN  before.sync_ready /\ after.sync_ready /\ before.video_ready
           /\ <<before.sync_rtp, before.sync_ntp>> # <<after.sync_rtp, after.sync_ntp>>
           /\ after.result # "DISCONTINUITY"
           => absolute(map_rtp(after, after.sync_rtp) - map_rtp(before, after.sync_rtp))
                 <= MaxCorrection
    /\ audio_clock.audio_ready /\ audio_clock'.audio_ready
       /\ audio_clock.last_audio_pts # audio_clock'.last_audio_pts
          => audio_clock'.last_audio_pts > audio_clock.last_audio_pts
ClockMovesSmoothly == []AdjustBounded /\ [][MovesSmoothly]_ClockVars
=============================================================================
