---------------------------- MODULE MirrorControl ----------------------------
(***************************************************************************)
(* AirPlay mirroring from the RTSP request to the player: the SETUP,       *)
(* RECORD and TEARDOWN handlers of each connection's thread                *)
(* (airplay/protocol/handlers.c), the runtime they share                   *)
(* (airplay/media/mirror_runtime.c), its command queue and worker, the     *)
(* receiver threads' callbacks, and the lease the integration keeps for    *)
(* the worker (integration_mirror_... of airplay/integration.c, in the     *)
(* build without NXCAST_EXCLUSIVE_MEDIA_RESOURCES).                        *)
(*                                                                         *)
(* The runtime mutex is dropped while sockets, bridges and threads are     *)
(* created or destroyed: each such call is two or three steps here, and    *)
(* `opening' is what keeps a second one out.  A bridge is its reference    *)
(* count; modules StreamBridge and MirrorClock look inside.  Keys, ports   *)
(* and formats are left out: their errors are the choice ok = FALSE.       *)
(***************************************************************************)
EXTENDS Integers, Sequences, FiniteSets

CONSTANTS
    Connections,    \* RTSP connections; a RAOP one is its own session id
    BridgeIds,      \* bounds the bridges alive at once
    QueueCapacity,  \* AIRPLAY_RUNTIME_COMMAND_CAPACITY
    MaxRuntimeGeneration,  \* bound on runtime->generation
    MaxRequests     \* bound on the requests of all connections

ASSUME MirrorAssumption ==
    /\ {"none", "app"} \cap Connections = {} /\ BridgeIds \subseteq Nat \ {0}
    /\ IsFiniteSet(BridgeIds)
    /\ QueueCapacity \in Nat \ {0, 1} /\ MaxRuntimeGeneration \in Nat /\ MaxRequests \in Nat

VARIABLES
    runtime,     \* struct AirPlayMirrorRuntime
    commands,    \* its ring of commands
    worker,      \* the command runtime_worker holds, and how far it is
    refs,        \* reference count of each bridge; 0: freed
    cancelled,   \* bridges whose pushes return at once
    threads,     \* live mirror and audio receiver threads and their callback
    context,     \* AirPlayHandlerSession of each connection
    call,        \* what each connection's thread, or main, is in the middle of
    lease,       \* g_airplay.mirror_lease and its mirror_runtime_generation
    player,      \* the bridges bound to the player
    requests     \* requests made so far

MirrorVars == <<runtime, commands, worker, refs, cancelled, threads, context, call,
                lease, player, requests>>

Streams == {"video", "audio"}
Callers == Connections \cup {"app"}
Idle == [at |-> "idle"]
NoCommand == [type |-> "none", bridge |-> 0]
NoLease == [token |-> "none", generation |-> 0]
NoThread == [live |-> FALSE, recording |-> FALSE, on |-> {}, waits |-> {}, generation |-> 0]
NewThread == [NoThread EXCEPT !.live = TRUE]
FreshContext == [initial |-> FALSE, setup |-> {}, record |-> FALSE, started |-> {}, closed |-> FALSE]

\* airplay_mirror_runtime_create; airplay_handlers_create
MirrorInit ==
    /\ runtime = [mirror |-> 0, audio |-> 0, bridge |-> 0, audio_bridge |-> 0,
                  transport |-> "none", session |-> "none", generation |-> 0, status |-> "IDLE", opening |-> FALSE,
                  recording |-> FALSE, load_queued |-> FALSE, play_queued |-> FALSE,
                  attach_queued |-> FALSE, audio_only |-> FALSE]
    /\ commands = <<>> /\ worker = NoCommand
    /\ refs = [b \in BridgeIds |-> 0] /\ cancelled = {}
    /\ threads = [t \in Streams \X BridgeIds |-> NoThread]
    /\ context = [c \in Connections |-> FreshContext]
    /\ call = [c \in Callers |-> Idle]
    /\ lease = NoLease
    /\ player = [video |-> 0, audio |-> 0]
    /\ requests = 0

-----------------------------------------------------------------------------
(* Commands and references. *)

LoadCommand(g, b) == [type |-> "LOAD", generation |-> g, bridge |-> b]
PlayCommand(g) == [type |-> "PLAY", generation |-> g, bridge |-> 0]
StopCommand(g) == [type |-> "STOP", generation |-> g, bridge |-> 0]
AudioCommand(g, b) == [type |-> "AUDIO", generation |-> g, bridge |-> b]
NotifyCommand(g, s) == [type |-> "NOTIFY", generation |-> g, bridge |-> 0, status |-> s]

\* runtime_enqueue_locked: a command that finds no room is dropped.
enqueue(queue, command) ==
    IF Len(queue) = QueueCapacity THEN queue ELSE Append(queue, command)

\* runtime_set_status_locked
set_status(queue, rt, status) ==
    IF rt.status = status THEN queue
    ELSE enqueue(queue, NotifyCommand(rt.generation, status))

\* How many references to b the commands of a queue own.
InQueue(queue, b) == Cardinality({i \in DOMAIN queue : queue[i].bridge = b})

\* Reference counts after the queue grew, and `taken' and `dropped' changed.
Count(seq, b) == Cardinality({i \in DOMAIN seq : seq[i] = b})
counted(queue, taken, dropped) ==
    [b \in BridgeIds |-> refs[b] + (InQueue(queue, b) - InQueue(commands, b))
                                 + Count(taken, b) - Count(dropped, b)]

\* airplay_stream_bridge_create_profile returns one that nothing refers to.
Unused == {b \in BridgeIds : refs[b] = 0 /\ \A s \in Streams : ~threads[<<s, b>>].live}
Fresh(n) == CHOOSE s \in SUBSET Unused : Cardinality(s) = n
CanAllocate(n) == Cardinality(Unused) >= n
next_generation(g) == g + 1

active(generation) == runtime.session # "none" /\ runtime.generation = generation
Step(c, next) == call' = [call EXCEPT ![c] = next]

\* airplay_mirror_session_set_recording and airplay_mirror_audio_set_recording:
\* until then a receiver thread keeps what it receives to itself.
set_recording(ts, on) ==
    [t \in DOMAIN threads |->
        IF on /\ t \in ts THEN [threads[t] EXCEPT !.recording = TRUE] ELSE threads[t]]
Receivers == {<<"video", runtime.mirror>>, <<"audio", runtime.audio>>} \cap DOMAIN threads

-----------------------------------------------------------------------------
(* The runtime's entry points, on a connection's thread. *)

\* airplay_mirror_runtime_transport_prepare
transport_free == runtime.transport = "none" /\ runtime.session = "none"

\* airplay_mirror_runtime_open, first critical section.
may_open(c) ==
    /\ "video" \notin context[c].setup
    /\ ~runtime.opening /\ runtime.mirror = 0
    /\ runtime.transport \in {"none", c}
    /\ runtime.session # "none" =>
          runtime.session = c /\ runtime.bridge # 0 /\ runtime.audio_only

open_begins(c) ==
    /\ call[c].at = "open" /\ may_open(c)
    /\ LET n == IF runtime.audio # 0 THEN 2 ELSE 1
       IN  /\ CanAllocate(n)
           /\ LET new == Fresh(n)
                  b == CHOOSE x \in new : TRUE
                  ab == IF n = 2 THEN CHOOSE x \in new \ {b} : TRUE ELSE 0
              IN  /\ refs' = [x \in BridgeIds |-> IF x \in new THEN 1 ELSE refs[x]]
                  /\ cancelled' = cancelled \ new
                  /\ threads' = [threads EXCEPT ![<<"video", b>>] = NewThread]
                  /\ Step(c, [call[c] EXCEPT !.at = "opening", !.bridge = b, !.audio_bridge = ab,
                                             !.previous = runtime.generation,
                                             !.promotion = runtime.session = c])
    /\ runtime' = [runtime EXCEPT !.opening = TRUE]
    /\ UNCHANGED <<commands, worker, context, lease, player, requests>>

open_refused(c) ==
    /\ call[c].at = "open" /\ ~may_open(c)
    /\ Step(c, [at |-> "failed"])
    /\ UNCHANGED <<runtime, commands, worker, refs, cancelled, threads, context,
                   lease, player, requests>>

\* ... and the second: is everything as it was left?  A promotion that finds a
\* player load queued would enqueue a REPLACE command; PromotionIsUnloaded
\* shows that none does.
open_accepted(c) ==
    /\ runtime.opening /\ runtime.generation = call[c].previous /\ runtime.mirror = 0
    /\ runtime.transport \in {"none", c}
    /\ IF call[c].promotion
       THEN runtime.session = c /\ runtime.bridge # 0 /\ runtime.audio_only
       ELSE runtime.session = "none"
    /\ runtime.recording => Len(commands) < QueueCapacity

open_ends(c, ok) ==
    /\ call[c].at = "opening"
    /\ LET b == call[c].bridge
           opened == [runtime EXCEPT
                        !.mirror = b, !.bridge = b, !.audio_bridge = call[c].audio_bridge,
                        !.attach_queued = FALSE, !.transport = c, !.session = c,
                        !.generation = next_generation(call[c].previous), !.load_queued = FALSE,
                        !.play_queued = FALSE, !.opening = FALSE, !.audio_only = FALSE]
           mine == runtime.opening /\ runtime.generation = call[c].previous
           failed == [runtime EXCEPT !.opening = FALSE]
       IN  IF ok /\ open_accepted(c)
           THEN /\ commands' = set_status(commands, opened, "PREPARING")
                /\ runtime' = [opened EXCEPT !.status = "PREPARING"]
                /\ refs' = counted(commands, <<>>, <<runtime.bridge>>)
                /\ cancelled' = cancelled \cup ({runtime.bridge} \ {0})
                /\ context' = [context EXCEPT ![c].setup = @ \cup {"video"}]
                /\ threads' = set_recording({<<"video", b>>} , runtime.recording)
                /\ Step(c, [call[c] EXCEPT !.at = IF "audio" \in call[c].todo THEN "audio" ELSE "record"])
           ELSE /\ commands' = IF mine /\ ~call[c].promotion
                               THEN set_status(commands, failed, "ERROR") ELSE commands
                /\ runtime' = IF ~mine THEN runtime
                              ELSE IF call[c].promotion THEN failed
                              ELSE [failed EXCEPT !.status = "ERROR"]
                /\ refs' = counted(commands, <<>>, <<b, call[c].audio_bridge>>)
                /\ threads' = [threads EXCEPT ![<<"video", b>>] = NoThread]
                /\ Step(c, [at |-> "failed"])
                /\ UNCHANGED <<cancelled, context>>
    /\ UNCHANGED <<worker, lease, player, requests>>

\* airplay_mirror_runtime_audio_open, first critical section.
may_open_audio(c) ==
    /\ "audio" \notin context[c].setup
    /\ ~runtime.opening /\ runtime.audio = 0
    /\ runtime.transport = c /\ runtime.session \in {"none", c}

\* A session without a bridge gets one of its own profile; with a bridge, that
\* one is retained and a replacement for the sound is made.
audio_begins(c) ==
    /\ call[c].at = "audio" /\ may_open_audio(c) /\ CanAllocate(1)
    /\ LET new == Fresh(1)
           b == CHOOSE x \in new : TRUE
       IN  /\ refs' = [x \in BridgeIds |-> IF x = b THEN 1
                                           ELSE IF x = runtime.bridge THEN refs[x] + 1 ELSE refs[x]]
           /\ cancelled' = cancelled \ new
           /\ threads' = [threads EXCEPT ![<<"audio", b>>] = NewThread]
           /\ Step(c, [call[c] EXCEPT !.at = "audio_opening", !.audio_bridge = b,
                                      !.bridge = runtime.bridge, !.previous = runtime.generation])
    /\ runtime' = [runtime EXCEPT !.opening = TRUE]
    /\ UNCHANGED <<commands, worker, context, lease, player, requests>>

audio_refused(c) ==
    /\ call[c].at = "audio" /\ ~may_open_audio(c)
    /\ Step(c, [at |-> "failed"])
    /\ UNCHANGED <<runtime, commands, worker, refs, cancelled, threads, context,
                   lease, player, requests>>

audio_ends(c, ok) ==
    /\ call[c].at = "audio_opening"
    /\ LET b == call[c].bridge
           ab == call[c].audio_bridge
           created == b = 0
           accepted == /\ ok /\ runtime.opening /\ runtime.transport = c
                       /\ runtime.session \in {"none", c} /\ runtime.generation = call[c].previous
                       /\ runtime.audio = 0 /\ runtime.bridge = b
                       /\ created => runtime.session = "none"
           with_audio == [runtime EXCEPT !.audio = ab, !.audio_bridge = IF created THEN 0 ELSE ab,
                                         !.attach_queued = FALSE, !.opening = FALSE]
           opened == IF created
                     THEN [with_audio EXCEPT
                             !.bridge = ab, !.session = c, !.audio_only = TRUE,
                             !.generation = next_generation(call[c].previous),
                             !.load_queued = FALSE, !.play_queued = FALSE]
                     ELSE with_audio
           mine == /\ runtime.opening /\ runtime.generation = call[c].previous
                   /\ runtime.transport = c
       IN  IF accepted
           THEN /\ commands' = IF created THEN set_status(commands, opened, "PREPARING") ELSE commands
                /\ runtime' = IF created THEN [opened EXCEPT !.status = "PREPARING"] ELSE opened
                /\ refs' = counted(commands, <<>>, <<b>>)
                /\ context' = [context EXCEPT ![c].setup = @ \cup {"audio"}]
                /\ threads' = set_recording({<<"audio", ab>>}, runtime.recording)
                /\ Step(c, [call[c] EXCEPT !.at = "record"])
           ELSE /\ runtime' = [runtime EXCEPT !.opening = @ /\ ~mine]
                /\ refs' = counted(commands, <<>>, <<b, ab>>)
                /\ threads' = [threads EXCEPT ![<<"audio", ab>>] = NoThread]
                /\ Step(c, [at |-> "failed"])
                /\ UNCHANGED <<commands, context>>
    /\ UNCHANGED <<worker, cancelled, lease, player, requests>>

\* airplay_mirror_runtime_record_audio: refused when the video it would join
\* does not record, or when sound alone already does.
may_record_audio(c) ==
    /\ runtime.session = c /\ runtime.bridge # 0 /\ runtime.audio # 0
    /\ (runtime.mirror # 0) = runtime.recording
record_audio ==
    IF runtime.mirror # 0 THEN runtime
    ELSE [runtime EXCEPT !.recording = TRUE, !.load_queued = FALSE, !.play_queued = FALSE]

\* airplay_mirror_runtime_record
runtime_record(c) ==
    IF runtime.session = c /\ runtime.bridge # 0 /\ runtime.mirror # 0 /\ ~runtime.load_queued
    THEN LET queue == enqueue(commands, LoadCommand(runtime.generation, runtime.bridge))
             room == queue # commands
             status == IF room THEN "WAITING_KEYFRAME" ELSE "ERROR"
         IN  /\ commands' = set_status(queue, runtime, status)
             /\ runtime' = [runtime EXCEPT !.recording = TRUE, !.load_queued = room,
                                           !.status = status]
             /\ threads' = set_recording(Receivers, TRUE)
    ELSE UNCHANGED <<commands, runtime, threads>>

\* airplay_mirror_runtime_stop, first its critical section ...
stop_applies(token) == token \in {runtime.session, runtime.transport} \ {"none"}
stop_runtime(who, token, next) ==
    IF stop_applies(token)
    THEN LET stop == StopCommand(runtime.generation)
             queue == IF runtime.load_queued THEN enqueue(commands, stop) ELSE commands
             had_session == runtime.session # "none"
         IN  /\ commands' = IF had_session THEN set_status(queue, runtime, "DISCONNECTED") ELSE queue
             /\ runtime' = [runtime EXCEPT
                   !.mirror = 0, !.audio = 0, !.bridge = 0, !.audio_bridge = 0,
                   !.transport = "none", !.session = "none", !.opening = FALSE,
                   !.recording = FALSE, !.load_queued = FALSE, !.play_queued = FALSE,
                   !.attach_queued = FALSE, !.audio_only = FALSE,
                   !.status = IF had_session THEN "DISCONNECTED" ELSE @]
             /\ Step(who, [at |-> "cancel", mirror |-> runtime.mirror, audio |-> runtime.audio,
                           bridges |-> <<runtime.bridge, runtime.audio_bridge>>, next |-> next])
    ELSE UNCHANGED <<commands, runtime>> /\ Step(who, next)

\* airplay_mirror_runtime_stop_streams, first its critical section.
may_stop_streams(c) ==
    runtime.transport = c /\ ~runtime.opening /\ Len(commands) <= QueueCapacity - 2
stop_streams(c, streams) ==
    LET keep_video == runtime.mirror # 0 /\ "video" \notin streams
        keep_audio == runtime.audio # 0 /\ "audio" \notin streams
        sound_goes == "audio" \in streams
        \* The bridge the pictures leave: the sound's own takes its place.
        bridge_goes == ~keep_video /\ (runtime.mirror # 0 \/ ~keep_audio)
        detach == keep_video /\ sound_goes /\ runtime.attach_queued
        queue == IF detach THEN enqueue(commands, AudioCommand(runtime.generation, 0)) ELSE commands
        stopped == ~keep_video /\ runtime.load_queued
    IN  /\ commands' = IF stopped
                       THEN set_status(enqueue(queue, StopCommand(runtime.generation)),
                                       runtime, "DISCONNECTED")
                       ELSE queue
        /\ runtime' = [runtime EXCEPT
              !.opening = TRUE,
              !.mirror = IF "video" \in streams THEN 0 ELSE @,
              !.audio = IF sound_goes THEN 0 ELSE @,
              !.attach_queued = @ /\ ~sound_goes /\ keep_video,
              !.bridge = IF ~bridge_goes THEN @
                         ELSE IF keep_audio THEN runtime.audio_bridge ELSE 0,
              !.audio_bridge = IF sound_goes \/ ~keep_video THEN 0 ELSE @,
              !.session = IF keep_video \/ keep_audio THEN @ ELSE "none",
              !.recording = @ /\ (keep_video \/ keep_audio),
              !.load_queued = @ /\ keep_video, !.play_queued = @ /\ keep_video,
              !.audio_only = IF keep_video THEN @ ELSE keep_audio,
              !.status = IF stopped THEN "DISCONNECTED" ELSE @,
              !.generation = IF keep_video THEN @ ELSE next_generation(@)]
        /\ Step(c, [at |-> "cancel",
                    mirror |-> IF "video" \in streams THEN runtime.mirror ELSE 0,
                    audio |-> IF sound_goes THEN runtime.audio ELSE 0,
                    bridges |-> <<IF bridge_goes THEN runtime.bridge ELSE 0,
                                  IF sound_goes THEN runtime.audio_bridge ELSE 0>>,
                    next |-> [at |-> "stopped"]])

\* ... then the pushes of the removed bridges are made to return ...
cancels(who) ==
    /\ call[who].at = "cancel"
    /\ cancelled' = cancelled \cup ({call[who].bridges[i] : i \in 1 .. 2} \ {0})
    /\ Step(who, [call[who] EXCEPT !.at = "join"])
    /\ UNCHANGED <<runtime, commands, worker, refs, threads, context, lease, player, requests>>

\* ... the receiver threads are joined, and the bridges released.
Removed(who) == {<<"video", call[who].mirror>>, <<"audio", call[who].audio>>} \cap DOMAIN threads
joins(who) ==
    /\ call[who].at = "join"
    /\ \A t \in Removed(who) : threads[t].on = {}
    /\ threads' = [t \in DOMAIN threads |-> IF t \in Removed(who) THEN NoThread ELSE threads[t]]
    /\ refs' = counted(commands, <<>>, call[who].bridges)
    /\ Step(who, call[who].next)
    /\ UNCHANGED <<runtime, commands, worker, cancelled, context, lease, player, requests>>

mutant_streams_stopped(c) ==
    /\ call[c].at = "stopped"
    /\ Step(c, Idle)
    /\ UNCHANGED <<runtime, commands, worker, refs, cancelled, threads, context, lease, player, requests>>
\* ... and another request may open streams again.
streams_stopped(c) ==
    /\ call[c].at = "stopped"
    /\ runtime' = [runtime EXCEPT !.opening = @ /\ runtime.transport # c]
    /\ Step(c, Idle)
    /\ UNCHANGED <<commands, worker, refs, cancelled, threads, context, lease, player, requests>>

-----------------------------------------------------------------------------
(* The handlers of a connection. *)

Request(c) ==
    /\ call[c].at = "idle" /\ ~context[c].closed
    /\ requests < MaxRequests /\ runtime.generation < MaxRuntimeGeneration
    /\ requests' = requests + 1

NewCall(at, todo) == [at |-> at, todo |-> todo, bridge |-> 0, audio_bridge |-> 0, previous |-> 0,
                      promotion |-> FALSE]

\* handle_setup as far as setup_initial: keys are taken once, and only by the
\* connection that gets the transport.
handle_setup(c, initial, streams) ==
    /\ Request(c) /\ (initial \/ streams # {})
    /\ IF (IF initial THEN ~context[c].initial /\ transport_free ELSE context[c].initial)
       THEN /\ context' = [context EXCEPT ![c].initial = TRUE]
            /\ runtime' = [runtime EXCEPT !.transport = IF initial THEN c ELSE @]
            /\ Step(c, NewCall(IF "video" \in streams THEN "open"
                               ELSE IF "audio" \in streams THEN "audio" ELSE "record", streams))
       ELSE Step(c, [at |-> "failed"]) /\ UNCHANGED <<context, runtime>>
    /\ UNCHANGED <<commands, worker, refs, cancelled, threads, lease, player>>

\* handle_record, which also accepts a session that already records.
handle_record(c) ==
    /\ Request(c) /\ context[c].initial
    /\ context' = [context EXCEPT ![c].record = TRUE]
    /\ Step(c, NewCall("record", {}))
    /\ UNCHANGED <<runtime, commands, worker, refs, cancelled, threads, lease, player>>

\* The end of handle_setup and handle_record: start what is set up.
starts(c) ==
    LET setup == context[c].setup
        started == context[c].started
        begin(s) == context' = [context EXCEPT ![c].started = @ \cup {s}]
    IN  /\ call[c].at = "record"
        /\ IF context[c].record /\ "video" \in setup \ started
           THEN begin("video") /\ Step(c, [at |-> "claim"]) /\ UNCHANGED <<runtime, threads>>
           ELSE IF context[c].record /\ "audio" \in setup \ started
           THEN /\ begin("audio")
                /\ IF may_record_audio(c)
                   THEN /\ runtime' = record_audio /\ Step(c, Idle)
                        /\ threads' = set_recording({<<"audio", runtime.audio>>}, TRUE)
                   ELSE Step(c, [at |-> "failed"]) /\ UNCHANGED <<runtime, threads>>
           ELSE Step(c, Idle) /\ UNCHANGED <<context, runtime, threads>>
        /\ UNCHANGED <<commands, worker, refs, cancelled, lease, player, requests>>

\* A request that fails takes the whole session back.
fails(c) ==
    /\ call[c].at = "failed"
    /\ context' = [context EXCEPT ![c] = FreshContext]
    /\ IF context[c].initial THEN stop_runtime(c, c, Idle)
       ELSE Step(c, Idle) /\ UNCHANGED <<runtime, commands>>
    /\ UNCHANGED <<worker, refs, cancelled, threads, lease, player, requests>>

\* handle_teardown of named streams.
handle_teardown(c, streams) ==
    /\ Request(c) /\ streams # {}
    /\ LET stop == streams \cap context[c].setup
           gone == context' = [context EXCEPT ![c].setup = @ \ streams, ![c].started = @ \ streams]
       IN  IF stop = {} THEN gone /\ UNCHANGED <<runtime, commands, call>>
           ELSE IF may_stop_streams(c) THEN gone /\ stop_streams(c, stop)
           ELSE UNCHANGED <<context, runtime, commands, call>>
    /\ UNCHANGED <<worker, refs, cancelled, threads, lease, player>>

\* handle_teardown of the session, or airplay_handlers_session_closed.
session_closed(c) ==
    /\ call[c].at = "idle" /\ ~context[c].closed
    /\ context' = [context EXCEPT ![c] = [FreshContext EXCEPT !.closed = TRUE]]
    /\ IF context[c].initial THEN stop_runtime(c, c, Idle)
       ELSE UNCHANGED <<runtime, commands, call>>
    /\ UNCHANGED <<worker, refs, cancelled, threads, lease, player, requests>>

-----------------------------------------------------------------------------
(* The integration: it claims the player for a generation of the runtime. *)

\* integration_mirror_record: the claim waits for resources, and may fail.
mirror_claims(c, ok) ==
    /\ call[c].at = "claim"
    /\ IF ok /\ runtime.status = "PREPARING" /\ runtime.generation # 0
       THEN /\ Step(c, [at |-> "claimed", generation |-> runtime.generation])
            /\ UNCHANGED <<runtime, commands>>
       ELSE stop_runtime(c, c, Idle)
    /\ UNCHANGED <<worker, refs, cancelled, threads, context, lease, player, requests>>

mirror_records(c) ==
    /\ call[c].at = "claimed"
    /\ lease' = [token |-> c, generation |-> call[c].generation]
    /\ runtime_record(c)
    /\ refs' = counted(commands', <<>>, <<>>)
    /\ Step(c, [call[c] EXCEPT !.at = "observe"])
    /\ UNCHANGED <<worker, cancelled, context, player, requests>>

\* The status is read again: anything but WAITING_KEYFRAME gives the claim up.
mirror_observes(c) ==
    /\ call[c].at = "observe"
    /\ LET as_left == /\ runtime.status = "WAITING_KEYFRAME"
                      /\ runtime.generation = call[c].generation
       IN  lease' = IF ~as_left /\ lease.generation = call[c].generation THEN NoLease ELSE lease
    /\ Step(c, Idle)
    /\ UNCHANGED <<runtime, commands, worker, refs, cancelled, threads, context, player, requests>>

\* airplay_integration_stop_active_media, on main's or a coordinator's thread.
stop_active_media ==
    /\ call["app"].at = "idle" /\ lease # NoLease /\ requests < MaxRequests
    /\ requests' = requests + 1
    /\ stop_runtime("app", lease.token, Idle)
    /\ UNCHANGED <<worker, refs, cancelled, threads, context, lease, player>>

-----------------------------------------------------------------------------
(* The callbacks of the receiver threads. *)

\* runtime_video retains the bridge it finds; it waits for the bridge's lock
\* at least (mux_mutex, behind a push that waits for room), also where the
\* bridge is for sound only and refuses the picture ...
video_arrives(t) ==
    /\ threads[t].recording /\ threads[t].on = {} /\ t[1] = "video"
    /\ runtime.bridge # 0 /\ runtime.recording
    /\ threads' = [threads EXCEPT ![t].on = {runtime.bridge},
                                  ![t].waits = {runtime.bridge},
                                  ![t].generation = runtime.generation]
    /\ refs' = counted(commands, <<runtime.bridge>>, <<>>)
    /\ UNCHANGED <<runtime, commands, worker, cancelled, context, call, lease, player, requests>>

\* ... and after the push starts the player at the first key frame.
video_pushed(t, pushed, keyframe) ==
    LET g == threads[t].generation
        current == runtime.generation = g /\ runtime.recording
        play == current /\ pushed /\ keyframe /\ ~runtime.play_queued
        room == Len(commands) < QueueCapacity
        error == current /\ (~pushed \/ (play /\ ~room))
    IN  /\ t[1] = "video" /\ threads[t].on # {}
        /\ commands' = IF error THEN set_status(commands, runtime, "ERROR")
                       ELSE IF play THEN enqueue(commands, PlayCommand(g)) ELSE commands
        /\ runtime' = [runtime EXCEPT !.play_queued = @ \/ (play /\ room),
                                      !.status = IF error THEN "ERROR" ELSE @]
        /\ refs' = [b \in BridgeIds |-> refs[b] - (IF b \in threads[t].on THEN 1 ELSE 0)]
        /\ threads' = [threads EXCEPT ![t].on = {}, ![t].waits = {}, ![t].generation = 0]
        /\ UNCHANGED <<worker, cancelled, context, call, lease, player, requests>>

\* runtime_audio: the pictures' bridge lends its timeline, the sound's takes
\* the frame.  Sound alone has no sink and is dropped.
audio_arrives(t) ==
    /\ threads[t].recording /\ threads[t].on = {} /\ t[1] = "audio"
    /\ ~runtime.opening /\ runtime.audio # 0 /\ runtime.mirror # 0
    /\ runtime.audio_bridge # 0 /\ runtime.recording
    /\ threads' = [threads EXCEPT ![t].on = {runtime.bridge, runtime.audio_bridge},
                                  ![t].waits = {runtime.bridge, runtime.audio_bridge},
                                  ![t].generation = runtime.generation]
    /\ refs' = counted(commands, <<runtime.bridge, runtime.audio_bridge>>, <<>>)
    /\ UNCHANGED <<runtime, commands, worker, cancelled, context, call, lease, player, requests>>

audio_pushed(t, pushed) ==
    LET g == threads[t].generation
        ab == runtime.audio_bridge
        attach == /\ runtime.generation = g /\ runtime.recording /\ ab \in threads[t].on
                  /\ pushed /\ runtime.load_queued /\ ~runtime.attach_queued
        queue == IF attach THEN enqueue(commands, AudioCommand(g, ab)) ELSE commands
    IN  /\ t[1] = "audio" /\ threads[t].on # {}
        /\ commands' = queue
        /\ runtime' = [runtime EXCEPT !.attach_queued = @ \/ queue # commands]
        /\ refs' = [b \in BridgeIds |-> counted(queue, <<>>, <<>>)[b]
                                         - (IF b \in threads[t].on THEN 1 ELSE 0)]
        /\ threads' = [threads EXCEPT ![t].on = {}, ![t].waits = {}, ![t].generation = 0]
        /\ UNCHANGED <<worker, cancelled, context, call, lease, player, requests>>

-----------------------------------------------------------------------------
(* runtime_worker *)

worker_pops ==
    /\ worker = NoCommand /\ commands # <<>>
    /\ worker' = Head(commands) /\ commands' = Tail(commands)
    /\ UNCHANGED <<runtime, refs, cancelled, threads, context, call, lease, player, requests>>

\* integration_mirror_lease_for_generation: what the player is asked in the
\* name of another generation is refused.
lease_for(generation) == lease.generation = generation

\* runtime_command_complete
command_complete(generation, ok, success) ==
    LET status == IF ok THEN success ELSE "ERROR"
    IN  IF active(generation)
        THEN /\ commands' = set_status(commands, runtime, status)
             /\ runtime' = [runtime EXCEPT !.status = status]
        ELSE UNCHANGED <<commands, runtime>>

\* The player holds a reference to each bridge bound to it.
Bound(video, audio) == player' = [video |-> video, audio |-> audio]
mutant_Rebound(released) ==
    refs' = counted(commands', <<player'.video, player'.audio>>, <<player.video, player.audio>>)
Rebound(released) ==
    refs' = counted(commands', <<player'.video, player'.audio>>,
                    <<player.video, player.audio, released>>)

process_load(ok) ==
    /\ worker.type = "LOAD"
    /\ IF active(worker.generation) /\ ok /\ lease_for(worker.generation)
       THEN /\ Bound(worker.bridge, player.audio)
            /\ worker' = [worker EXCEPT !.type = "BOUND"]
            /\ UNCHANGED <<commands, runtime>> /\ Rebound(0)
       ELSE /\ worker' = NoCommand
            /\ command_complete(worker.generation, FALSE, "WAITING_KEYFRAME")
            /\ Bound(IF active(worker.generation) /\ lease_for(worker.generation)
                     THEN 0 ELSE player.video, player.audio)
            /\ Rebound(worker.bridge)
    /\ UNCHANGED <<cancelled, threads, context, call, lease, requests>>

\* A stop may have come between the binding and the load.
process_bound(ok) ==
    /\ worker.type = "BOUND"
    /\ LET loaded == ok /\ active(worker.generation) /\ lease_for(worker.generation)
       IN  /\ Bound(IF loaded \/ ~lease_for(worker.generation) THEN player.video ELSE 0, player.audio)
           /\ command_complete(worker.generation, loaded, "WAITING_KEYFRAME")
    /\ worker' = NoCommand /\ Rebound(worker.bridge)
    /\ UNCHANGED <<cancelled, threads, context, call, lease, requests>>

process_play(ok) ==
    /\ worker.type = "PLAY"
    /\ command_complete(worker.generation, ok /\ lease_for(worker.generation), "PLAYING")
    /\ worker' = NoCommand
    /\ UNCHANGED <<refs, cancelled, threads, context, call, lease, player, requests>>

process_stop ==
    /\ worker.type = "STOP"
    /\ IF lease_for(worker.generation) THEN Bound(0, 0) ELSE UNCHANGED player
    /\ worker' = NoCommand /\ UNCHANGED commands /\ Rebound(0)
    /\ UNCHANGED <<runtime, cancelled, threads, context, call, lease, requests>>

process_audio(ok) ==
    /\ worker.type = "AUDIO"
    /\ IF /\ ok /\ active(worker.generation) /\ lease_for(worker.generation)
          /\ worker.bridge \in {0, runtime.audio_bridge}
       THEN Bound(player.video, worker.bridge) ELSE UNCHANGED player
    /\ worker' = NoCommand /\ UNCHANGED commands /\ Rebound(worker.bridge)
    /\ UNCHANGED <<runtime, cancelled, threads, context, call, lease, requests>>

\* integration_mirror_status: the last notice of a generation gives up its lease.
process_notify ==
    /\ worker.type = "NOTIFY"
    /\ lease' = IF worker.status = "DISCONNECTED" /\ lease_for(worker.generation)
                THEN NoLease ELSE lease
    /\ worker' = NoCommand
    /\ UNCHANGED <<runtime, commands, refs, cancelled, threads, context, call, player, requests>>

-----------------------------------------------------------------------------
MirrorNext ==
    \/ \E c \in Connections :
          \/ \E initial \in BOOLEAN, streams \in SUBSET Streams : handle_setup(c, initial, streams)
          \/ handle_record(c) \/ starts(c) \/ fails(c) \/ session_closed(c)
          \/ \E streams \in SUBSET Streams : handle_teardown(c, streams)
          \/ open_begins(c) \/ open_refused(c) \/ audio_begins(c) \/ audio_refused(c)
          \/ \E ok \in BOOLEAN : open_ends(c, ok) \/ audio_ends(c, ok) \/ mirror_claims(c, ok)
          \/ mirror_records(c) \/ mirror_observes(c) \/ streams_stopped(c)
    \/ stop_active_media
    \/ \E who \in Callers : cancels(who) \/ joins(who)
    \/ \E t \in DOMAIN threads :
          \/ video_arrives(t) \/ audio_arrives(t)
          \/ \E pushed, keyframe \in BOOLEAN : video_pushed(t, pushed, keyframe)
          \/ \E pushed \in BOOLEAN : audio_pushed(t, pushed)
    \/ worker_pops \/ process_stop \/ process_notify
    \/ \E ok \in BOOLEAN : process_load(ok) \/ process_bound(ok) \/ process_play(ok) \/ process_audio(ok)

MirrorSpec == MirrorInit /\ [][MirrorNext]_MirrorVars

-----------------------------------------------------------------------------
MirrorTypeOK ==
    /\ runtime.generation \in Nat
    /\ {runtime.transport, runtime.session} \subseteq Connections \cup {"none"}
    /\ Len(commands) <= QueueCapacity
    /\ refs \in [BridgeIds -> Nat] /\ cancelled \subseteq BridgeIds

\* Who refers to bridge b.
CallHolds(c, b) ==
    CASE call[c].at \in {"opening", "audio_opening"} -> Count(<<call[c].bridge, call[c].audio_bridge>>, b)
      [] call[c].at \in {"cancel", "join"} -> Count(call[c].bridges, b)
      [] OTHER -> 0
Holders(b) ==
    Count(<<runtime.bridge, runtime.audio_bridge, player.video, player.audio, worker.bridge>>, b)
    + InQueue(commands, b)
    + Cardinality({t \in DOMAIN threads : b \in threads[t].on})
    + LET who == {c \in Callers : CallHolds(c, b) > 0}
          two == {c \in Callers : CallHolds(c, b) > 1}
      IN  Cardinality(who) + Cardinality(two)

\* Every bridge has exactly the references that the runtime, its queue, its
\* worker, the callbacks, the calls under way and the player hold: none is
\* freed under a thread that uses it, and none outlives its session, however
\* opens, stops and callbacks overlap (mirror_runtime.c:729-1330).
RefsBalanced == \A b \in BridgeIds : refs[b] = Holders(b)

\* A callback waits for room only in a bridge of the session in force, or in
\* one that its stop has cancelled or is about to cancel: however opens, stops
\* and promotions overlap, none waits for a bridge that nobody will end
\* (mirror_runtime.c:842-846, 1290-1305).  With no session in force, every
\* join therefore ends without the player.
BeingCancelled ==
    UNION {{call[who].bridges[i] : i \in 1 .. 2} : who \in {w \in Callers : call[w].at = "cancel"}}
WaitsEnd ==
    \A t \in DOMAIN threads :
        threads[t].waits \subseteq cancelled \cup BeingCancelled
                                   \cup {runtime.bridge, runtime.audio_bridge}

\* A promotion to video never finds a player load queued: the REPLACE command
\* of airplay_mirror_runtime_open stays unused.
PromotionIsUnloaded == runtime.audio_only => ~runtime.load_queued

\* Once everything is quiet with no session, nothing is left of one: the next
\* SETUP is not kept out, no receiver thread runs, and the transport belongs to
\* a connection that will give it back.
Quiet == /\ \A c \in Callers : call[c].at = "idle"
         /\ commands = <<>> /\ worker = NoCommand
NothingLeft ==
    Quiet /\ runtime.session = "none" =>
        /\ ~runtime.opening
        /\ \A t \in DOMAIN threads : ~threads[t].live
        /\ runtime.transport # "none" => context[runtime.transport].initial

\* ... nor a lease of a dead generation.
LeaseGivenUp == Quiet /\ runtime.session = "none" => lease = NoLease

MirrorSettles == WaitsEnd /\ PromotionIsUnloaded /\ NothingLeft /\ LeaseGivenUp
=============================================================================
