----------------------------- MODULE MirrorMedia -----------------------------
(***************************************************************************)
(* The receiving ends of AirPlay mirroring: the pictures (mirror_session.c *)
(* and video.c), the sound (audio.c) and the timing requests (timing.c).   *)
(* Each is an object with sockets and one thread, made by a caller that    *)
(* later destroys it; a behaviour follows one of them.                     *)
(*                                                                         *)
(* Sound packets come over UDP: any may be lost, doubled or late.  They    *)
(* are numbered here without bound, and carry that number modulo           *)
(* SequenceSpace, as on the wire.  Pictures come over TCP, one connection  *)
(* at a time.  Decryption and the layout of packets are left out, but for  *)
(* their failures.                                                         *)
(***************************************************************************)
EXTENDS Integers, Sequences, FiniteSets

CONSTANTS
    Window,          \* AIRPLAY_MIRROR_AUDIO_WINDOW
    Threshold,       \* AIRPLAY_AUDIO_REORDER_THRESHOLD
    SequenceSpace,   \* 2^16
    MaxLate,         \* bound: a packet is at most this late
    MaxSound,        \* bound on the sound packets sent
    MaxConnections,  \* bound on the connections of the pictures
    MaxPictures,     \* bound on the packets of the pictures
    VideoConfigs     \* parameter sets (SPS and PPS) a sender may use

ASSUME MirrorMediaAssumption ==
    /\ Window \in Nat \ {0} /\ Threshold \in 1 .. Window
    /\ SequenceSpace \in Nat /\ SequenceSpace % Window = 0
    /\ 2 * Window <= SequenceSpace /\ 2 * MaxLate <= SequenceSpace
    /\ MaxLate \in Nat /\ MaxSound \in Nat
    /\ MaxConnections \in Nat /\ MaxPictures \in Nat

VARIABLES
    receiver,   \* the object: its kind, its flags, its sockets and its thread
    sound,      \* AirPlayMirrorAudio: the reorder window
    heard,      \* the last frames given to the callback
    picture,    \* AirPlayMirrorVideo
    source      \* the sender: what it has sent, the sound packet that is expected

MirrorMediaVars == <<receiver, sound, heard, picture, source>>

Kinds == {"video", "audio", "timing"}
Sockets(kind) == CASE kind = "video" -> {"listener", "client"}
                   [] kind = "audio" -> {"data", "control"}
                   [] OTHER -> {"data"}
Vacant == -1

NoPicture == [config |-> "none", waiting |-> TRUE, has_last |-> FALSE, last |-> 0,
              shown |-> TRUE]
NoSound == [slots |-> [i \in 0 .. Window - 1 |-> Vacant], expected |-> 0,
            ready |-> FALSE, discontinuity |-> FALSE]

MirrorMediaInit ==
    /\ receiver \in [kind : Kinds, at : {"none"}, running : {FALSE},
                     recording : {FALSE}, open : {{}}, own : {{}}, thread : {"none"}]
    /\ sound = NoSound
    /\ heard = <<>>
    /\ picture = NoPicture
    /\ source = [sounds |-> 0, heard |-> 0, connections |-> 0, pictures |-> 0,
                 config |-> "none", linked |-> FALSE, orderly |-> TRUE]

-----------------------------------------------------------------------------
(* The life of a receiver.                                                 *)

\* Creation: sockets, then the thread.  A stage that fails destroys the rest.
creates(kind, made) ==
    /\ receiver.kind = kind /\ receiver.at = "none"
    /\ \/ receiver' = [receiver EXCEPT !.at = "up", !.running = TRUE,
                          !.open = made, !.own = made, !.thread = "wait"]
       \/ \E some \in SUBSET made :
            receiver' = [receiver EXCEPT !.at = "destroy", !.open = some, !.own = some]
    /\ UNCHANGED <<sound, heard, picture, source>>

session_create == creates("video", {"listener"})
audio_create == creates("audio", {"data", "control"})
timing_create == creates("timing", {"data"})

\* RECORD; it is never taken back.
receiver_set_recording ==
    /\ receiver.at = "up" /\ ~receiver.recording
    /\ receiver' = [receiver EXCEPT !.recording = TRUE]
    /\ UNCHANGED <<sound, heard, picture, source>>

receiver_destroy ==
    /\ receiver.at = "up"
    /\ receiver' = [receiver EXCEPT !.at = "destroy", !.running = FALSE]
    /\ UNCHANGED <<sound, heard, picture, source>>

\* close_owned_socket: only the one who takes the descriptor closes it.
close_owned(r, x) ==
    IF x \in r.own THEN [r EXCEPT !.own = @ \ {x}, !.open = @ \ {x}] ELSE r

\* The sockets are closed one after the other, and the thread joined.
destroy_closes ==
    /\ receiver.at \in {"destroy", "close"}
    /\ receiver' =
         [IF receiver.at = "destroy"
          THEN close_owned(receiver, IF receiver.kind = "video" THEN "client" ELSE "data")
          ELSE close_owned(receiver, IF receiver.kind = "video" THEN "listener" ELSE "control")
          EXCEPT !.at = IF receiver.at = "destroy" THEN "close" ELSE "join"]
    /\ UNCHANGED <<sound, heard, picture, source>>

destroy_joins ==
    /\ receiver.at = "join" /\ receiver.thread \in {"none", "done"}
    /\ receiver' = [receiver EXCEPT !.at = "gone", !.thread = "none"]
    /\ sound' = NoSound /\ picture' = [NoPicture EXCEPT !.shown = picture.shown]
    /\ UNCHANGED <<heard, source>>

\* The loop of any of the threads ends: told to stop, or on a socket that is
\* closed or broken.
thread_ends ==
    /\ receiver.thread = "wait"
    /\ \/ ~receiver.running
       \/ receiver.kind # "timing"
    /\ receiver' = [receiver EXCEPT !.thread = "done"]
    /\ UNCHANGED <<sound, heard, picture, source>>

\* timing_worker: a request, and 300 ms for an answer that may never come.
timing_request ==
    /\ receiver.kind = "timing" /\ receiver.thread = "wait"
    /\ receiver.running /\ source.sounds < MaxSound
    /\ \/ source' = [source EXCEPT !.sounds = @ + 1, !.heard = @ + 1]
       \/ source' = [source EXCEPT !.sounds = @ + 1]
    /\ UNCHANGED <<receiver, sound, heard, picture>>

-----------------------------------------------------------------------------
(* audio.c: the reorder window.                                            *)

sequence(n) == n % SequenceSpace
distance(n, expected) == (sequence(n) - expected) % SequenceSpace
holds(s, k) ==
    LET slot == s.slots[(s.expected + k) % Window]
    IN  slot # Vacant /\ sequence(slot) = (s.expected + k) % SequenceSpace
filled(s) == {i \in DOMAIN s.slots : s.slots[i] # Vacant}

slots_clear(s) == [s EXCEPT !.slots = NoSound.slots]

\* audio_emit_ready: how many frames are in order now, and the window without
\* them.
run(s) == CHOOSE k \in 0 .. Window :
    (\A i \in 0 .. k - 1 : holds(s, i)) /\ (k = Window \/ ~holds(s, k))
emitted(s) == [i \in 1 .. run(s) |->
    [id |-> s.slots[(s.expected + i - 1) % Window], gap |-> i = 1 /\ s.discontinuity]]
emit_ready(s) ==
    [s EXCEPT !.slots = [i \in DOMAIN s.slots |->
                           IF \E k \in 0 .. run(s) - 1 : i = (s.expected + k) % Window
                           THEN Vacant ELSE s.slots[i]],
              !.expected = (@ + run(s)) % SequenceSpace,
              !.discontinuity = @ /\ run(s) = 0]

mutant_skip_gap(s) ==
    IF Cardinality(filled(s)) < Threshold THEN s
    ELSE LET nearest == CHOOSE i \in filled(s) : \A j \in filled(s) :
                distance(s.slots[i], s.expected) <= distance(s.slots[j], s.expected)
         IN  [s EXCEPT !.expected = sequence(s.slots[nearest])]

\* audio_skip_gap_if_needed: with enough frames waiting behind a gap, the
\* window goes on at the nearest.
skip_gap(s) ==
    IF Cardinality(filled(s)) < Threshold THEN s
    ELSE LET nearest == CHOOSE i \in filled(s) : \A j \in filled(s) :
                distance(s.slots[i], s.expected) <= distance(s.slots[j], s.expected)
         IN  [s EXCEPT !.expected = sequence(s.slots[nearest]),
                       !.discontinuity = @ \/ sequence(s.slots[nearest]) # s.expected]

\* A packet far ahead restarts the window at it.
restarted(s, n) ==
    IF distance(n, s.expected) >= Window
    THEN [slots_clear(s) EXCEPT !.expected = sequence(n), !.discontinuity = TRUE]
    ELSE s

\* A slot that is taken by another packet is freed.
freed(s, n) ==
    IF s.slots[n % Window] = Vacant THEN s
    ELSE [s EXCEPT !.slots[n % Window] = Vacant, !.discontinuity = TRUE]

\* airplay_mirror_audio_process_packet, from the data or the control socket (a
\* resent packet).  Copying or decrypting it may fail.
process_packet(n, ok) ==
    LET s0 == IF sound.ready THEN sound
              ELSE [sound EXCEPT !.ready = TRUE, !.expected = sequence(n)]
        s1 == restarted(s0, n)
        s2 == [freed(s1, n) EXCEPT !.slots[n % Window] = n]
        s3 == emit_ready(s2)
        s4 == skip_gap(s3)
        frames == emitted(s2) \o emitted(s4)
        all == IF receiver.recording THEN heard \o frames ELSE heard
        old == distance(n, s0.expected) >= SequenceSpace \div 2
        double == s1.slots[n % Window] # Vacant
                    /\ sequence(s1.slots[n % Window]) = sequence(n)
    IN  IF old \/ double THEN sound' = s0 /\ UNCHANGED heard
        ELSE IF ~ok THEN sound' = freed(s1, n) /\ UNCHANGED heard
        ELSE /\ sound' = emit_ready(s4)
             /\ heard' = SubSeq(all, IF Len(all) > Threshold + 1 THEN Len(all) - Threshold ELSE 1,
                                Len(all))

\* The sender's next packet; the one expected is less than the sequence space
\* behind.
sound_sent ==
    /\ receiver.kind = "audio" /\ receiver.at = "up"
    /\ source.sounds < MaxSound /\ source.sounds - source.heard < SequenceSpace
    /\ source' = [source EXCEPT !.sounds = @ + 1]
    /\ UNCHANGED <<receiver, sound, heard, picture>>

\* audio_thread: a packet arrives, at once or late, for the first time or again.
audio_thread ==
    /\ receiver.kind = "audio" /\ receiver.thread = "wait" /\ receiver.open # {}
    /\ \E n \in (IF source.sounds > MaxLate THEN source.sounds - MaxLate ELSE 0)
                .. source.sounds - 1, ok \in BOOLEAN :
         /\ process_packet(n, ok)
         /\ source' = [source EXCEPT !.heard =
                LET from == IF sound.ready THEN @ ELSE n
                IN  CHOOSE m \in from .. from + SequenceSpace - 1 :
                      sequence(m) = sound'.expected]
    /\ UNCHANGED <<receiver, picture>>

-----------------------------------------------------------------------------
(* mirror_session.c and video.c: one connection after the other.           *)

pictures(next) == receiver' = next /\ UNCHANGED <<sound, heard>>

mirror_accepts ==
    /\ receiver.kind = "video" /\ receiver.thread = "wait" /\ receiver.running
    /\ "listener" \in receiver.open
    /\ source.connections < MaxConnections
    /\ source' = [source EXCEPT !.connections = @ + 1, !.config = "none",
                                !.linked = FALSE, !.orderly = TRUE]
    /\ pictures([receiver EXCEPT !.thread = "accepted", !.open = @ \cup {"client"}])
    /\ picture' = [picture EXCEPT !.shown = TRUE]

\* airplay_mirror_video_reset: a new connection starts at a keyframe.
video_reset(p) == [p EXCEPT !.has_last = FALSE, !.last = 0, !.waiting = TRUE]

\* The descriptor is only now where destroy finds it.
process_client ==
    /\ receiver.thread = "accepted"
    /\ picture' = video_reset(picture)
    /\ pictures([receiver EXCEPT !.thread = "client", !.own = @ \cup {"client"}])
    /\ UNCHANGED source

\* The connection ends: the sender leaves, the receiver stops or a packet is
\* refused.
client_ends == close_owned([receiver EXCEPT !.thread = "wait"], "client")
client_left ==
    /\ receiver.thread = "client"
    /\ pictures(client_ends)
    /\ UNCHANGED <<picture, source>>

receives(next) ==
    /\ receiver.thread = "client" /\ receiver.running /\ "client" \in receiver.open
    /\ source.pictures < MaxPictures
    /\ source' = [next EXCEPT !.pictures = @ + 1]

\* parse_parameter_sets finds no parameter sets in it.
config_refused == receives(source) /\ pictures(client_ends) /\ UNCHANGED picture

\* airplay_mirror_video_process_config: new parameter sets wait for a keyframe.
process_config ==
    \/ \E c \in VideoConfigs :
         /\ receives([source EXCEPT !.config = c, !.linked = @ /\ c = source.config])
         /\ picture' = [picture EXCEPT !.config = c, !.waiting = @ \/ c # picture.config]
         /\ pictures(receiver)
    \/ config_refused

\* airplay_mirror_video_process_access_unit.  A keyframe carries its parameter
\* sets; linked says whether the decoder has what the next picture needs.  A
\* picture older than the last is dropped, and the ones that refer to it are
\* not: orderly says that the sender has given its parameter sets first and,
\* since its last keyframe, no such picture.
process_access_unit ==
    \E key \in BOOLEAN, timestamp \in (picture.last - 1 .. picture.last + 1) \cap Nat :
        LET late == picture.has_last /\ timestamp < picture.last
            drop == picture.config = "none" \/ late \/ (picture.waiting /\ ~key)
            give == receiver.recording /\ ~drop
        IN  /\ receives([source EXCEPT
                  !.linked = give /\ (key \/ @),
                  !.orderly = source.config # "none" /\ ~late /\ (@ \/ (give /\ key))])
            /\ picture' = IF ~give THEN picture
                          ELSE [picture EXCEPT
                                  !.waiting = FALSE, !.has_last = TRUE, !.last = timestamp,
                                  !.shown = IF key THEN picture.config = source.config
                                            ELSE source.linked]
            /\ pictures(receiver)

\* A bad header, a bad access unit or no memory: the connection is closed.
access_unit_refused ==
    /\ receives([source EXCEPT !.linked = FALSE])
    /\ pictures(client_ends)
    /\ UNCHANGED picture

MirrorMediaNext ==
    \/ session_create \/ audio_create \/ timing_create
    \/ receiver_set_recording \/ receiver_destroy
    \/ destroy_closes \/ destroy_joins \/ thread_ends \/ timing_request
    \/ sound_sent \/ audio_thread
    \/ mirror_accepts \/ process_client \/ client_left
    \/ process_config \/ process_access_unit \/ access_unit_refused

MirrorMediaSpec == MirrorMediaInit /\ [][MirrorMediaNext]_MirrorMediaVars

-----------------------------------------------------------------------------
MirrorMediaTypeOK ==
    /\ receiver.kind \in Kinds /\ receiver.own \subseteq receiver.open
    /\ receiver.open \subseteq Sockets(receiver.kind)
    /\ sound.expected \in 0 .. SequenceSpace - 1
    /\ \A i \in DOMAIN sound.slots : sound.slots[i] \in {Vacant} \cup (0 .. MaxSound)
    /\ picture.config \in VideoConfigs \cup {"none"}

\* What the receivers hand on is whole, whatever the network loses, doubles or
\* delays: sound comes in the order it was sent, each frame once, with every
\* gap marked, and never waits behind a gap with a threshold of frames in
\* hand; a picture of an orderly sender comes only when the decoder has the
\* parameter sets and all the pictures it refers to; and a receiver that is
\* gone has left no socket.  Behind a picture dropped for its time the
\* pictures are not whole again before the next keyframe.
StreamsWhole ==
    /\ \A i \in 1 .. Len(heard) - 1 :
         /\ heard[i].id < heard[i + 1].id
         /\ heard[i + 1].id # heard[i].id + 1 => heard[i + 1].gap
    /\ Cardinality(filled(sound)) < Threshold
    /\ source.orderly => picture.shown
    /\ receiver.at = "gone" => receiver.open = {}
=============================================================================
