---------------------------- MODULE StreamBridge ----------------------------
(***************************************************************************)
(* The ring buffer between AirPlay's receiver threads and libmpv           *)
(* (airplay/media/stream_bridge.c).  Two locks: mux_mutex is held over a   *)
(* whole push or finish, ring_mutex only over a copy; a writer that waits  *)
(* for room keeps mux_mutex, and only a read or a cancellation frees it.   *)
(*                                                                         *)
(* The multiplexer of libavformat is external: a packet becomes a short    *)
(* sequence of writes, and a byte is its number in the stream.  Clocks are *)
(* module MirrorClock's subject: here a packet is mapped or not.  Counters *)
(* and traces are left out.                                                *)
(***************************************************************************)
EXTENDS Integers, Sequences

CONSTANTS
    RingCapacity,      \* of the ring, in bytes
    Packets,       \* what a packet may be written as: sizes of its writes
    MaxReadSize,   \* the largest output_size
    MaxGeneration, \* bound on config_generation
    MaxBytes       \* bound on the bytes produced

ASSUME BridgeAssumption ==
    /\ RingCapacity \in Nat \ {0} /\ MaxReadSize \in Nat \ {0}
    /\ MaxGeneration \in Nat /\ MaxBytes \in Nat
    /\ Packets \subseteq Seq(1 .. RingCapacity)

Header == <<1>>
Trailer == <<1>>
Pushers == {"video", "audio"}

VARIABLES
    bridge,     \* struct AirPlayStreamBridge
    muxing,     \* who holds mux_mutex, and the writes it has still to make
    finisher,   \* the thread that calls finish
    reader,     \* libmpv's demuxer thread
    output      \* what the last read delivered

BridgeVars == <<bridge, muxing, finisher, reader, output>>

Unlocked == [holder |-> "none", pending |-> <<>>]

BridgeTypeOK ==
    /\ bridge \in [profile : {"AUDIO_ONLY", "VIDEO_AUDIO"},
                   ring : [0 .. RingCapacity - 1 -> Nat],
                   read_offset : 0 .. RingCapacity - 1, write_offset : 0 .. RingCapacity - 1,
                   buffered : 0 .. RingCapacity, bytes_written : Nat,
                   reader_claimed : BOOLEAN, eof : BOOLEAN, cancelled : BOOLEAN,
                   mux_finished : BOOLEAN, header_written : BOOLEAN,
                   sized : BOOLEAN, audio_stream : BOOLEAN,
                   video_config_generation : 0 .. MaxGeneration]
    /\ muxing \in [holder : Pushers \cup {"none", "finisher"}, pending : Seq(1 .. RingCapacity)]
    /\ finisher \in {"idle", "mux", "eof"}
    /\ reader \in {"none", "idle", "reading"}

\* airplay_stream_bridge_create_profile
BridgeInit ==
    /\ bridge \in [profile : {"AUDIO_ONLY", "VIDEO_AUDIO"},
                   ring : {[i \in 0 .. RingCapacity - 1 |-> 0]},
                   read_offset : {0}, write_offset : {0}, buffered : {0}, bytes_written : {0},
                   reader_claimed : {FALSE}, eof : {FALSE}, cancelled : {FALSE},
                   mux_finished : {FALSE}, header_written : {FALSE},
                   sized : {FALSE}, audio_stream : {FALSE}, video_config_generation : {0}]
    /\ muxing = Unlocked /\ finisher = "idle" /\ reader = "none" /\ output = <<>>

-----------------------------------------------------------------------------
(* The multiplexer's side, under mux_mutex. *)

closed == bridge.mux_finished \/ bridge.cancelled
has_video_stream == bridge.profile = "VIDEO_AUDIO"

\* The header can be written once the streams it describes are known.
can_write_header(b) == b.sized \/ (b.profile = "AUDIO_ONLY" /\ b.audio_stream)

\* bridge_ensure_header, followed by the writes of what comes next.
ensure_header(b, writes) == IF b.header_written THEN writes ELSE Header \o writes

Total(writes) == LET sum[i \in 0 .. Len(writes)] == IF i = 0 THEN 0 ELSE sum[i - 1] + writes[i]
                 IN  sum[Len(writes)]
lock_mux(holder, writes) ==
    /\ muxing.holder = "none"
    /\ bridge.bytes_written + Total(writes) <= MaxBytes
    /\ muxing' = [holder |-> holder, pending |-> writes]

\* airplay_stream_bridge_push_video: a unit of an older configuration, or one
\* of a newer that is no key frame, is dropped; the first is parsed for the
\* size; one the clock rejects leaves the header behind.
push_video(generation, keyframe, mapped, packet) ==
    /\ has_video_stream /\ ~closed
    /\ generation >= bridge.video_config_generation
    /\ generation > bridge.video_config_generation => keyframe
    /\ lock_mux("video", ensure_header(bridge, IF mapped THEN packet ELSE <<>>))
    /\ bridge' = [bridge EXCEPT
          !.sized = TRUE, !.header_written = TRUE,
          !.video_config_generation = IF mapped THEN generation ELSE @]
    /\ UNCHANGED <<finisher, reader, output>>

\* airplay_stream_bridge_configure_audio
configure_audio ==
    /\ muxing.holder = "none" /\ ~closed
    /\ ~bridge.header_written /\ ~bridge.audio_stream
    /\ bridge' = [bridge EXCEPT !.audio_stream = TRUE]
    /\ UNCHANGED <<muxing, finisher, reader, output>>

\* airplay_stream_bridge_push_audio: dropped until the video has its size.
push_audio(mapped, packet) ==
    /\ bridge.audio_stream /\ ~closed
    /\ bridge.header_written \/ can_write_header(bridge)
    /\ lock_mux("audio", ensure_header(bridge, IF mapped THEN packet ELSE <<>>))
    /\ bridge' = [bridge EXCEPT !.header_written = TRUE]
    /\ UNCHANGED <<finisher, reader, output>>

\* airplay_stream_bridge_finish: the trailer ...
finish_muxes ==
    /\ finisher = "idle" /\ muxing.holder = "none"
    /\ finisher' = "mux"
    /\ LET writes == bridge.header_written \/ can_write_header(bridge)
       IN  IF closed \/ ~writes
           THEN /\ lock_mux("finisher", <<>>)
                /\ bridge' = [bridge EXCEPT !.mux_finished = @ \/ ~bridge.cancelled]
           ELSE /\ lock_mux("finisher", ensure_header(bridge, Trailer))
                /\ bridge' = [bridge EXCEPT !.header_written = TRUE, !.mux_finished = TRUE]
    /\ UNCHANGED <<reader, output>>

\* ... and, after mux_mutex, the end of the stream.
finish_ends ==
    /\ finisher = "eof"
    /\ finisher' = "idle"
    /\ bridge' = [bridge EXCEPT !.eof = ~bridge.cancelled]
    /\ UNCHANGED <<muxing, reader, output>>

\* A plausible slip: a write that wraps restarts at the front of the ring.
mutant_written(size) ==
    LET at == IF bridge.write_offset + size > RingCapacity THEN 0 ELSE bridge.write_offset
    IN  [bridge EXCEPT
           !.ring = [i \in 0 .. RingCapacity - 1 |->
                        LET k == i - at
                        IN  IF k \in 0 .. size - 1 THEN bridge.bytes_written + k + 1 ELSE @[i]],
           !.write_offset = (at + size) % RingCapacity,
           !.buffered = @ + size, !.bytes_written = @ + size]

\* The two copies of bridge_avio_write.
written(size) ==
    [bridge EXCEPT
       !.ring = [i \in 0 .. RingCapacity - 1 |->
                    LET k == (i - bridge.write_offset) % RingCapacity
                    IN  IF k < size THEN bridge.bytes_written + k + 1 ELSE @[i]],
       !.write_offset = (@ + size) % RingCapacity,
       !.buffered = @ + size, !.bytes_written = @ + size]

\* bridge_avio_write: it waits for room for all of its input.
avio_write ==
    /\ muxing.pending # <<>>
    /\ IF bridge.cancelled
       THEN muxing' = [muxing EXCEPT !.pending = <<>>] /\ UNCHANGED bridge
       ELSE /\ RingCapacity - bridge.buffered >= Head(muxing.pending)
            /\ bridge' = written(Head(muxing.pending))
            /\ muxing' = [muxing EXCEPT !.pending = Tail(@)]
    /\ UNCHANGED <<finisher, reader, output>>

unlock_mux ==
    /\ muxing.holder # "none" /\ muxing.pending = <<>>
    /\ muxing' = Unlocked
    /\ finisher' = IF muxing.holder = "finisher" THEN "eof" ELSE finisher
    /\ UNCHANGED <<bridge, reader, output>>

-----------------------------------------------------------------------------
(* The reader's side. *)

claim_reader ==
    /\ reader = "none" /\ ~bridge.reader_claimed /\ ~bridge.cancelled
    /\ bridge' = [bridge EXCEPT !.reader_claimed = TRUE]
    /\ reader' = "idle"
    /\ UNCHANGED <<muxing, finisher, output>>

release_reader ==
    /\ reader = "idle"
    /\ bridge' = [bridge EXCEPT !.reader_claimed = FALSE]
    /\ reader' = "none"
    /\ UNCHANGED <<muxing, finisher, output>>

read_waits ==
    /\ reader = "idle"
    /\ reader' = "reading"
    /\ UNCHANGED <<bridge, muxing, finisher, output>>

\* A plausible slip: a reader that waits for bytes is not told of a cancellation.
mutant_read_returns(output_size) ==
    /\ reader = "reading"
    /\ bridge.buffered > 0 \/ bridge.eof
    /\ reader' = "idle"
    /\ UNCHANGED <<bridge, output, muxing, finisher>>

\* airplay_stream_bridge_read returns: an error, the end, or bytes.
read_returns(output_size) ==
    /\ reader = "reading"
    /\ reader' = "idle"
    /\ \/ /\ bridge.cancelled \/ (bridge.buffered = 0 /\ bridge.eof)
          /\ UNCHANGED <<bridge, output>>
       \/ /\ ~bridge.cancelled /\ bridge.buffered > 0
          /\ LET amount == IF output_size < bridge.buffered THEN output_size ELSE bridge.buffered
             IN  /\ output' = [i \in 1 .. amount |->
                                  bridge.ring[(bridge.read_offset + i - 1) % RingCapacity]]
                 /\ bridge' = [bridge EXCEPT !.read_offset = (@ + amount) % RingCapacity,
                                             !.buffered = @ - amount]
    /\ UNCHANGED <<muxing, finisher>>

\* airplay_stream_bridge_cancel
cancel_bridge ==
    /\ bridge' = [bridge EXCEPT !.cancelled = TRUE]
    /\ UNCHANGED <<muxing, finisher, reader, output>>

-----------------------------------------------------------------------------
BridgeThreads == avio_write \/ unlock_mux \/ finish_ends

BridgeNext ==
    \/ \E generation \in 0 .. MaxGeneration, keyframe, mapped \in BOOLEAN, packet \in Packets :
          push_video(generation, keyframe, mapped, packet)
    \/ \E mapped \in BOOLEAN, packet \in Packets : push_audio(mapped, packet)
    \/ configure_audio
    \/ finish_muxes
    \/ BridgeThreads
    \/ claim_reader \/ release_reader \/ read_waits
    \/ \E output_size \in 1 .. MaxReadSize : read_returns(output_size)
    \/ cancel_bridge

\* A thread in a call of the bridge goes on when it can; nothing makes one
\* push, read, finish or cancel.
BridgeFairness ==
    /\ WF_BridgeVars(BridgeThreads)
    /\ WF_BridgeVars(\E output_size \in 1 .. MaxReadSize : read_returns(output_size))

BridgeSpec == BridgeInit /\ [][BridgeNext]_BridgeVars /\ BridgeFairness

-----------------------------------------------------------------------------
(* Properties. *)

\* The ring, its offsets and the two locks implement a stream of bytes that
\* is delivered in order, closes after its last byte and can be cancelled.
Stream == INSTANCE ByteStream WITH
    stream <- [i \in 1 .. bridge.buffered |-> bridge.ring[(bridge.read_offset + i - 1) % RingCapacity]],
    sent <- bridge.bytes_written,
    delivery <- output,
    phase <- IF bridge.cancelled THEN "cancelled" ELSE IF bridge.eof THEN "closed" ELSE "open"

BridgeIsByteStream == []BridgeTypeOK /\ Stream!StreamSpec

\* A cancelled bridge lets everybody go: the writer that waits for room with
\* mux_mutex held, the finisher behind it, and the reader that waits for bytes.
CancelFreesAll ==
    /\ bridge.cancelled ~> muxing.holder = "none"
    /\ bridge.cancelled ~> reader # "reading"
=============================================================================
