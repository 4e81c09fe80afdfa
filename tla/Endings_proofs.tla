---------------------------- MODULE Endings_proofs ----------------------------
(***************************************************************************)
(* Proofs about the components whose threads end together, each for every  *)
(* value of its constants: the player's shutdown, the stream bridge and    *)
(* the log.                                                                *)
(***************************************************************************)
EXTENDS PlayerShutdown, StreamBridge, Log, MediaActor_proofs, FiniteSetTheorems

-----------------------------------------------------------------------------
(* PlayerShutdown: the inductive invariant. *)

Phases == {"boot", "frames", "leave", "stop_any", "stop_wait", "quiesce", "drain",
           "drain_forever", "view_deinit", "deinit", "done"}

\* Past boot media_actor_start has returned, one way or the other.
BootedOK == main # "boot" => starter \in {"off", "up"}

\* Who may still wait: main only for its StopAny, the protocols only until
\* they are joined.
WaitersOK ==
    /\ main # "stop_wait" => waits[MainThread] = 0
    /\ main \notin {"boot", "frames", "leave"} => \A s \in Protocols : waits[s] = 0

\* Once drained, or without an actor, nothing is queued or in hand.
DrainedOK ==
    main \in {"view_deinit", "deinit", "done"} => queue = << >> /\ current_command_id = 0

ShutdownInv == main \in Phases /\ BootedOK /\ WaitersOK /\ DrainedOK

\* Main and the protocols drive the actor through its operations only.
LEMMA ShutdownActorStep ==
    ASSUME [ShutdownNext]_shutdownVars
    PROVE  [Next]_vars
  <1>1. CASE BootStarts \/ BootFails \/ BootReturns
    BY <1>1 DEF BootStarts, BootFails, BootReturns, Next, Start
  <1>2. CASE FrameActivates \/ FrameGivesUp \/ FrameLeaves
    BY <1>2 DEF FrameActivates, FrameGivesUp, FrameLeaves, Next
  <1>3. CASE StopAnySubmitted
    BY <1>3, MainAssumption DEF StopAnySubmitted, Next, Submit
  <1>4. CASE StopAnyReturns
    BY <1>4, MainAssumption DEF StopAnyReturns, Next
  <1>5. CASE MainDetaches \/ MainDeinits
    BY <1>5, MainAssumption DEF MainDetaches, MainDeinits, Next, Stop
  <1>6. CASE ProtocolsStopped \/ StopAnyRefused \/ MainQuiesces \/ MainDrained \/ DrainTimesOut
    BY <1>6 DEF ProtocolsStopped, StopAnyRefused, MainQuiesces, MainDrained, DrainTimesOut, Next
  <1>7. CASE PlayerWorker
    BY <1>7 DEF PlayerWorker, Next
  <1>8. ASSUME NEW s \in Protocols, ProtocolSubmits(s) \/ ProtocolReturns(s)
        PROVE  Next
    BY <1>8 DEF ProtocolSubmits, ProtocolReturns, Protocols, Next, Submit
  <1>9. CASE UNCHANGED shutdownVars
    BY <1>9 DEF shutdownVars
  <1> QED
    BY <1>1, <1>2, <1>3, <1>4, <1>5, <1>6, <1>7, <1>8, <1>9 DEF ShutdownNext, MainShutsDown

\* The application's player is a user of the media actor: whatever main and
\* the protocols do is a behaviour of the actor (main.c calls it through
\* session.c only), so that every theorem about the actor holds of it.
THEOREM ShutdownImplementsActor == ShutdownSpec => Spec
  <1>1. ShutdownInit => Init
    BY DEF ShutdownInit
  <1>2. [ShutdownNext]_shutdownVars => [Next]_vars
    BY ShutdownActorStep
  <1> QED
    BY <1>1, <1>2, PTL DEF ShutdownSpec, Spec

LEMMA ShutdownStarts == ShutdownInit => ShutdownInv
  BY MainAssumption DEF ShutdownInit, Init, ShutdownInv, Phases, BootedOK, WaitersOK, DrainedOK

\* Without a submission a drained actor stays drained.
LEMMA DrainKept ==
    ASSUME Inv5, [Next]_vars, queue = << >>, current_command_id = 0,
           \A s \in Submitters : ~Submit(s)
    PROVE  queue' = << >> /\ current_command_id' = 0
  <1>1. worker \notin {"validate", "execute"}
    BY DEF Inv5, Inv4, Inv2, CurrentOK
  <1>2. \A s \in Submitters, c \in Commands :
           /\ ~SubmitCoalesced(s, c) /\ ~SubmitAsync(s, c)
           /\ \A d \in BOOLEAN : ~SubmitWait(s, c, d)
    BY DEF Submit
  <1>3. CASE \E s \in Submitters : waits[s] # 0 /\ wait_returns(s)
    BY <1>3 DEF wait_returns, engine
  <1>4. CASE \E c \in Commands : DirectBegin(c)
    BY <1>4 DEF DirectBegin
  <1> QED
    BY <1>1, <1>2, <1>3, <1>4, RequestSteps DEF requests, WorkerPops

LEMMA ShutdownStep ==
    ASSUME ShutdownInv, Inv5, Inv3, [ShutdownNext]_shutdownVars
    PROVE  ShutdownInv'
  <1>0. /\ main \in Phases /\ BootedOK /\ WaitersOK /\ DrainedOK
        /\ waits \in [Submitters -> 0 .. MaxCommands]
        /\ MainThread \in Submitters /\ Protocols \subseteq Submitters /\ MainThread \notin Protocols
        /\ [Next]_vars
    BY MainAssumption, ShutdownActorStep
       DEF ShutdownInv, Inv5, Inv4, Inv2, Inv1, TypeOK, CallersTypeOK, Protocols
  <1> USE DEF Phases
  <1>1. CASE BootStarts \/ BootFails \/ BootReturns
    BY <1>0, <1>1 DEF BootStarts, BootFails, BootReturns, StartBegin, StartThread, StartFails,
       StartReturn, callers, goto, ShutdownInv, BootedOK, WaitersOK, DrainedOK
  <1>2. CASE FrameActivates \/ FrameGivesUp \/ FrameLeaves
    BY <1>0, <1>2 DEF FrameActivates, FrameGivesUp, FrameLeaves, Activate, threads, callers, vars,
       goto, ShutdownInv, BootedOK, WaitersOK, DrainedOK
  <1>3. CASE ProtocolsStopped
    <2>1. starter # "up" => queue = << >> /\ current_command_id = 0
      <3>1. starter # "up" => worker \in {"none", "exited"}
        BY <1>0, <1>3 DEF ProtocolsStopped, BootedOK, Inv3, Inv2, LifeOK
      <3> QED
        BY <3>1 DEF Inv3, EmptyOK, Inv2, CurrentOK
    <2> QED
      BY <1>0, <1>3, <2>1 DEF ProtocolsStopped, vars, threads, callers, store, engine, goto,
         ShutdownInv, BootedOK, WaitersOK, DrainedOK
  <1>4. CASE StopAnySubmitted \/ StopAnyRefused
    BY <1>0, <1>4 DEF StopAnySubmitted, StopAnyRefused, SubmitWait, threads, callers, vars,
       goto, ShutdownInv, BootedOK, WaitersOK, DrainedOK
  <1>5. CASE StopAnyReturns
    BY <1>0, <1>5 DEF StopAnyReturns, WaitCompleted, WaitTimeout, wait_returns, threads,
       goto, ShutdownInv, BootedOK, WaitersOK, DrainedOK
  <1>6. CASE MainQuiesces \/ DrainTimesOut
    BY <1>0, <1>6 DEF MainQuiesces, DrainTimesOut, Quiesce, threads, callers, vars,
       goto, ShutdownInv, BootedOK, WaitersOK, DrainedOK
  <1>7. CASE MainDrained
    BY <1>0, <1>7 DEF MainDrained, WaitIdle, threads, callers, store, engine,
       goto, ShutdownInv, BootedOK, WaitersOK, DrainedOK
  <1>8. CASE MainDetaches \/ MainDeinits
    BY <1>0, <1>8 DEF MainDetaches, MainDeinits, StopCalled, StopBegins, StopJoins, callers,
       store, engine, goto, ShutdownInv, BootedOK, WaitersOK, DrainedOK
  <1>9. CASE PlayerWorker
    <2>1. /\ UNCHANGED <<main, starter, waits>>
          /\ \A s \in Submitters : ~Submit(s)
      <3>1. UNCHANGED <<main, starter, waits, last_command_id>>
        BY <1>9 DEF PlayerWorker, WorkerStep, WorkerInitialized, WorkerInitializeFails,
           WorkerStops, WorkerLeavesBurst, WorkerPops, WorkerExecutes, WorkerPumps,
           WorkerFinishes, WorkerValidates, complete_current, threads, callers, store
      <3>2. \A s \in Submitters : Submit(s) => last_command_id' = last_command_id + 1
        BY DEF Submit, SubmitCoalesced, SubmitAsync, SubmitWait, enqueue, next_command_id
      <3>3. last_command_id \in Nat
        BY ConfigAssumption DEF Inv5, Inv4, Inv2, Inv1, TypeOK, StoreTypeOK
      <3> QED
        BY <3>1, <3>2, <3>3
    <2> QED
      BY <1>0, <2>1, DrainKept DEF ShutdownInv, BootedOK, WaitersOK, DrainedOK
  <1>10. ASSUME NEW s \in Protocols, ProtocolSubmits(s)
         PROVE  ShutdownInv'
    BY <1>0, <1>10 DEF ProtocolSubmits, SubmitCoalesced, SubmitAsync, SubmitWait, threads, callers,
       ShutdownInv, BootedOK, WaitersOK, DrainedOK
  <1>11. ASSUME NEW s \in Protocols, ProtocolReturns(s)
         PROVE  ShutdownInv'
    BY <1>0, <1>11 DEF ProtocolReturns, WaitCompleted, WaitTimeout, wait_returns, threads, engine,
       ShutdownInv, BootedOK, WaitersOK, DrainedOK
  <1>12. CASE UNCHANGED shutdownVars
    BY <1>0, <1>12 DEF shutdownVars, vars, threads, callers, store, engine,
       ShutdownInv, BootedOK, WaitersOK, DrainedOK
  <1> QED
    BY <1>1, <1>2, <1>3, <1>4, <1>5, <1>6, <1>7, <1>8, <1>9, <1>10, <1>11, <1>12
       DEF ShutdownNext, MainShutsDown

\* The render resources are released, and the player destroyed, only when no
\* command is queued or running and nobody waits for one, whether or not
\* StopAny was accepted, executed or timed out (main.c, the shutdown phases).
THEOREM DetachDrained == ShutdownSpec => []DetachOnlyWhenDrained
  <1>1. ShutdownSpec => []Inv5 /\ []Inv3
    BY ShutdownImplementsActor, LifetimeInvariant, EmptyInvariant, PTL
  <1>2. ShutdownInv /\ Inv5 /\ Inv3 /\ [ShutdownNext]_shutdownVars => ShutdownInv'
    BY ShutdownStep
  <1>3. ShutdownInv /\ Inv5 => DetachOnlyWhenDrained
    <2> SUFFICES ASSUME ShutdownInv, Inv5, main \in {"view_deinit", "deinit", "done"}
                 PROVE  /\ queue = << >> /\ worker \notin {"validate", "execute"}
                        /\ \A i \in Ids : request[i].outcome # "pending"
                        /\ \A s \in Submitters : waits[s] = 0
      BY DEF DetachOnlyWhenDrained
    <2>1. queue = << >> /\ current_command_id = 0
      BY DEF ShutdownInv, DrainedOK
    <2>2. worker \notin {"validate", "execute"}
      BY <2>1 DEF Inv5, Inv4, Inv2, CurrentOK
    <2>3. \A i \in Ids : ~ActorHolds(i)
      BY <2>1, ConfigAssumption DEF ActorHolds, Queued, Ids
    <2>4. \A i \in Ids : request[i].outcome # "pending"
      BY <2>3 DEF Inv5, OutcomeOK
    <2>5. \A s \in Submitters : waits[s] = 0
      BY DEF ShutdownInv, WaitersOK, Protocols
    <2> QED
      BY <2>1, <2>2, <2>4, <2>5
  <1> QED
    BY <1>1, <1>2, <1>3, ShutdownStarts, PTL DEF ShutdownSpec

-----------------------------------------------------------------------------
(* StreamBridge: the inductive invariant. *)

\* n bytes of the stream, after the first `from`.
Bytes(from, n) == [i \in 1 .. n |-> from + i]

\* The bytes in the ring, in the order a reader meets them.
Buffered ==
    [i \in 1 .. bridge.buffered |-> bridge.ring[(bridge.read_offset + i - 1) % RingCapacity]]

\* What is buffered are the last bytes written, in their order, wherever the
\* two copies of a write or of a read meet the end of the ring.
RingOK ==
    /\ bridge.write_offset = (bridge.read_offset + bridge.buffered) % RingCapacity
    /\ Buffered = Bytes(bridge.bytes_written - bridge.buffered, bridge.buffered)

\* Once the stream has ended nobody writes: the finisher marks the end of the
\* multiplexer under mux_mutex and the end of the stream after it.
EndOK ==
    /\ bridge.eof \/ finisher # "idle" => closed
    /\ bridge.mux_finished => muxing.holder \notin Pushers
    /\ muxing.holder = "finisher" <=> finisher = "mux"
    /\ muxing.holder = "none" => muxing.pending = <<>>
    /\ bridge.eof /\ ~bridge.cancelled => muxing.pending = <<>>

BridgeInv == BridgeTypeOK /\ RingOK /\ EndOK

\* Remainders within one turn around a ring of C places.
LEMMA Wraps ==
    ASSUME NEW C \in Nat \ {0}, NEW x \in Int, -C <= x, x < 2 * C
    PROVE  x % C = IF x < 0 THEN x + C ELSE IF x < C THEN x ELSE x - C
  OBVIOUS

LEMMA WrapsSum ==
    ASSUME NEW C \in Nat \ {0}, NEW o \in 0 .. C - 1, NEW n \in 0 .. C
    PROVE  /\ (o + n) % C = IF o + n < C THEN o + n ELSE o + n - C
           /\ (o + n) % C \in 0 .. C - 1
  <1>1. PICK x \in Int : x = o + n
    OBVIOUS
  <1>2. x < 2 * C /\ -C <= x /\ ~(x < 0)
    BY <1>1
  <1>3. x % C = IF x < C THEN x ELSE x - C
    BY <1>2, Wraps
  <1> QED
    BY <1>1, <1>3

\* How far the place number n from o is behind the place number m from o.
LEMMA RingDistance ==
    ASSUME NEW C \in Nat \ {0}, NEW o \in 0 .. C - 1, NEW n \in 0 .. C - 1, NEW m \in 0 .. C
    PROVE  (((o + n) % C) - ((o + m) % C)) % C = IF n >= m THEN n - m ELSE n - m + C
  <1>1. PICK p \in Int : p = (o + n) % C
    OBVIOUS
  <1>2. PICK q \in Int : q = (o + m) % C
    OBVIOUS
  <1>3. PICK r \in Int : r = p - q
    OBVIOUS
  <1>4. n \in 0 .. C
    OBVIOUS
  <1>5. p = IF o + n < C THEN o + n ELSE o + n - C
    BY <1>1, <1>4, WrapsSum
  <1>6. q = IF o + m < C THEN o + m ELSE o + m - C
    BY <1>2, WrapsSum
  <1>7. r < C /\ r < 2 * C /\ -C <= r
    BY <1>3, <1>5, <1>6
  <1>8. r % C = IF r < 0 THEN r + C ELSE r
    BY <1>7, Wraps
  <1>9. (IF r < 0 THEN r + C ELSE r) = IF n >= m THEN n - m ELSE n - m + C
    BY <1>3, <1>5, <1>6
  <1> QED
    BY <1>1, <1>2, <1>3, <1>8, <1>9

\* Going round the ring in two steps is going round it in one.
LEMMA WrapsTwice ==
    ASSUME NEW C \in Nat \ {0}, NEW o \in 0 .. C - 1, NEW n \in 0 .. C, NEW m \in 0 .. C, n + m <= C
    PROVE  (((o + n) % C) + m) % C = (o + n + m) % C
  <1>1. PICK p \in Int : p = (o + n) % C
    OBVIOUS
  <1>2. p = (IF o + n < C THEN o + n ELSE o + n - C) /\ p \in 0 .. C - 1
    BY <1>1, WrapsSum
  <1>3. (p + m) % C = IF p + m < C THEN p + m ELSE p + m - C
    BY <1>2, WrapsSum
  <1>4. PICK k \in 0 .. C : k = n + m
    OBVIOUS
  <1>5. (o + k) % C = IF o + k < C THEN o + k ELSE o + k - C
    BY WrapsSum
  <1>6. (p + m) % C = (o + k) % C
    BY <1>2, <1>3, <1>4, <1>5
  <1>7. o + k = o + n + m
    BY <1>4
  <1> QED
    BY <1>1, <1>6, <1>7

\* Joining and cutting runs of bytes.
LEMMA BytesJoin ==
    ASSUME NEW from \in Int, NEW n \in Nat, NEW m \in Nat
    PROVE  Bytes(from, n) \o Bytes(from + n, m) = Bytes(from, n + m)
  BY DEF Bytes

LEMMA BytesCut ==
    ASSUME NEW from \in Int, NEW n \in Nat, NEW m \in 0 .. n
    PROVE  /\ Len(Bytes(from, n)) = n
           /\ SubSeq(Bytes(from, n), 1, m) = Bytes(from, m)
           /\ SubSeq(Bytes(from, n), m + 1, n) = Bytes(from + m, n - m)
  BY DEF Bytes

\* The type of the bridge, its ranges named.
BridgeState ==
    [profile : {"AUDIO_ONLY", "VIDEO_AUDIO"},
     ring : [0 .. RingCapacity - 1 -> Nat],
     read_offset : 0 .. RingCapacity - 1, write_offset : 0 .. RingCapacity - 1,
     buffered : 0 .. RingCapacity, bytes_written : Nat,
     reader_claimed : BOOLEAN, eof : BOOLEAN, cancelled : BOOLEAN,
     mux_finished : BOOLEAN, header_written : BOOLEAN,
     sized : BOOLEAN, audio_stream : BOOLEAN,
     video_config_generation : 0 .. MaxGeneration]
MuxState == [holder : Pushers \cup {"none", "finisher"}, pending : Seq(1 .. RingCapacity)]

LEMMA BridgeTypes ==
    /\ BridgeTypeOK <=> /\ bridge \in BridgeState /\ muxing \in MuxState
                        /\ finisher \in {"idle", "mux", "eof"} /\ reader \in {"none", "idle", "reading"}
    /\ BridgeTypeOK' <=> /\ bridge' \in BridgeState /\ muxing' \in MuxState
                         /\ finisher' \in {"idle", "mux", "eof"} /\ reader' \in {"none", "idle", "reading"}
  BY DEF BridgeTypeOK, BridgeState, MuxState

\* The steps that leave the ring alone.
RingSame ==
    /\ bridge'.ring = bridge.ring /\ bridge'.read_offset = bridge.read_offset
    /\ bridge'.write_offset = bridge.write_offset /\ bridge'.buffered = bridge.buffered
    /\ bridge'.bytes_written = bridge.bytes_written

LEMMA RingKept ==
    ASSUME RingOK, RingSame
    PROVE  RingOK' /\ Buffered' = Buffered
  BY DEF RingOK, RingSame, Buffered

\* bridge_avio_write: the bytes go behind the buffered ones.
LEMMA WriteKeepsRing ==
    ASSUME bridge \in BridgeState, RingOK, NEW size \in 1 .. RingCapacity,
           RingCapacity - bridge.buffered >= size, bridge' = written(size)
    PROVE  /\ bridge' \in BridgeState /\ RingOK'
           /\ Buffered' = Buffered \o [i \in 1 .. size |-> bridge.bytes_written + i]
           /\ bridge'.bytes_written = bridge.bytes_written + size
           /\ bridge'.cancelled = bridge.cancelled /\ bridge'.eof = bridge.eof
           /\ bridge'.mux_finished = bridge.mux_finished
  <1> DEFINE C == RingCapacity
             o == bridge.read_offset
             b == bridge.buffered
             w == bridge.bytes_written
  <1>1. /\ C \in Nat \ {0} /\ o \in 0 .. C - 1 /\ b \in 0 .. C /\ w \in Nat /\ size \in 1 .. C
        /\ b + size \in 0 .. C /\ bridge.write_offset \in 0 .. C - 1
        /\ bridge.ring \in [0 .. C - 1 -> Nat]
    <2>1. /\ C \in Nat \ {0} /\ o \in 0 .. C - 1 /\ b \in 0 .. C /\ w \in Nat
          /\ bridge.write_offset \in 0 .. C - 1 /\ bridge.ring \in [0 .. C - 1 -> Nat]
      BY BridgeAssumption DEF BridgeState
    <2>2. b + size \in 0 .. C
      BY <2>1
    <2> QED
      BY <2>1, <2>2
  <1>2. bridge.write_offset = (o + b) % C
    BY DEF RingOK
  <1>3. /\ bridge'.read_offset = o /\ bridge'.buffered = b + size /\ bridge'.bytes_written = w + size
        /\ bridge'.write_offset = (bridge.write_offset + size) % C
        /\ bridge'.ring = [i \in 0 .. C - 1 |->
               IF (i - bridge.write_offset) % C < size
               THEN w + ((i - bridge.write_offset) % C) + 1 ELSE bridge.ring[i]]
        /\ bridge'.cancelled = bridge.cancelled /\ bridge'.eof = bridge.eof
        /\ bridge'.mux_finished = bridge.mux_finished
    BY DEF written, BridgeState
  <1>4. bridge'.write_offset = (o + (b + size)) % C /\ bridge'.write_offset \in 0 .. C - 1
    <2>1. (((o + b) % C) + size) % C = (o + b + size) % C
      BY <1>1, WrapsTwice, SMTT(30)
    <2>2. o + b + size = o + (b + size)
      BY <1>1
    <2>3. (o + (b + size)) % C \in 0 .. C - 1
      BY <1>1, WrapsSum
    <2> QED
      BY <1>2, <1>3, <2>1, <2>2, <2>3
  <1>5. ASSUME NEW j \in 1 .. b + size
        PROVE  bridge'.ring[(o + j - 1) % C] = w - b + j
    <2>1. PICK n \in 0 .. C - 1 : n = j - 1
      BY <1>1
    <2>2. PICK p \in 0 .. C - 1 : p = (o + n) % C
      <3>1. n \in 0 .. C
        BY <1>1
      <3>2. (o + n) % C \in 0 .. C - 1
        BY <1>1, <3>1, WrapsSum
      <3> QED
        BY <3>2
    <2>3. (p - bridge.write_offset) % C = IF n >= b THEN n - b ELSE n - b + C
      <3>1. (((o + n) % C) - ((o + b) % C)) % C = IF n >= b THEN n - b ELSE n - b + C
        BY <1>1, RingDistance
      <3> QED
        BY <1>2, <2>2, <3>1
    <2>4. o + j - 1 = o + n
      BY <1>1, <2>1
    <2>5. CASE n >= b
      <3>1. n - b < size
        BY <1>1, <2>1, <2>5, SMTT(30)
      <3>2. bridge'.ring[p] = w + (n - b) + 1
        BY <1>3, <2>3, <2>5, <3>1
      <3>3. w + (n - b) + 1 = w - b + j
        BY <1>1, <2>1, SMTT(30)
      <3> QED
        BY <2>2, <2>4, <3>2, <3>3
    <2>6. CASE n < b
      <3>1. ~((p - bridge.write_offset) % C < size)
        BY <1>1, <2>1, <2>3, <2>6
      <3>2. bridge'.ring[p] = bridge.ring[p]
        BY <1>3, <3>1
      <3>3. j \in 1 .. b
        BY <1>1, <2>1, <2>6
      <3>4. Buffered[j] = bridge.ring[(o + j - 1) % C] /\ Buffered[j] = w - b + j
        BY <3>3 DEF Buffered, RingOK, Bytes
      <3> QED
        BY <2>2, <2>4, <3>2, <3>4
    <2> QED
      BY <1>1, <2>5, <2>6
  <1>6. Buffered' = Bytes(w - b, b + size)
    BY <1>3, <1>5 DEF Buffered, Bytes
  <1>7. bridge'.bytes_written - bridge'.buffered = w - b
    <2>1. (w + size) - (b + size) = w - b
      BY <1>1
    <2> QED
      BY <1>3, <2>1
  <1>8. RingOK'
    BY <1>3, <1>4, <1>6, <1>7 DEF RingOK
  <1>9. Buffered' = Buffered \o [i \in 1 .. size |-> w + i]
    <2>1. Buffered = Bytes(w - b, b) /\ w - b \in Int /\ (w - b) + b = w
      BY <1>1 DEF RingOK
    <2>2. Bytes(w - b, b) \o Bytes((w - b) + b, size) = Bytes(w - b, b + size)
      <3>1. PICK from \in Int : from = w - b
        BY <2>1
      <3>2. b \in Nat /\ size \in Nat
        BY <1>1
      <3>3. Bytes(from, b) \o Bytes(from + b, size) = Bytes(from, b + size)
        BY <3>2, BytesJoin
      <3> QED
        BY <3>1, <3>3
    <2> QED
      BY <1>6, <2>1, <2>2 DEF Bytes
  <1>10. bridge' \in BridgeState
    <2>1. bridge'.ring \in [0 .. C - 1 -> Nat]
      <3> SUFFICES ASSUME NEW i \in 0 .. C - 1
                   PROVE  (IF (i - bridge.write_offset) % C < size
                           THEN w + ((i - bridge.write_offset) % C) + 1 ELSE bridge.ring[i]) \in Nat
        BY <1>3
      <3>1. PICK k : k = (i - bridge.write_offset) % C
        OBVIOUS
      <3>2. PICK x \in Int : x = i - bridge.write_offset
        BY <1>1
      <3>3. x % C \in Nat
        BY <1>1
      <3>4. k \in Nat /\ bridge.ring[i] \in Nat
        BY <1>1, <3>1, <3>2, <3>3
      <3>5. w + k + 1 \in Nat
        <4>1. w \in Nat /\ k \in Nat
          BY <1>1, <3>4
        <4> HIDE DEF w
        <4> QED
          BY <4>1
      <3>6. (IF k < size THEN w + k + 1 ELSE bridge.ring[i]) \in Nat
        BY <3>4, <3>5
      <3> QED
        BY <3>1, <3>6
    <2>2. bridge' = [bridge EXCEPT !.ring = bridge'.ring, !.write_offset = bridge'.write_offset,
                        !.buffered = bridge'.buffered, !.bytes_written = bridge'.bytes_written]
      BY <1>3 DEF written
    <2>3. bridge'.buffered \in 0 .. C /\ bridge'.bytes_written \in Nat /\ bridge'.write_offset \in 0 .. C - 1
      <3>1. w + size \in Nat
        BY <1>1, SMTT(30)
      <3> QED
        BY <1>1, <1>3, <1>4, <3>1
    <2> QED
      BY <2>1, <2>2, <2>3 DEF BridgeState
  <1> QED
    BY <1>3, <1>8, <1>9, <1>10

\* airplay_stream_bridge_read: the oldest bytes are delivered and given up.
LEMMA ReadKeepsRing ==
    ASSUME bridge \in BridgeState, RingOK, NEW amount \in 1 .. bridge.buffered,
           bridge' = [bridge EXCEPT !.read_offset = (@ + amount) % RingCapacity,
                                    !.buffered = @ - amount]
    PROVE  /\ bridge' \in BridgeState /\ RingOK'
           /\ SubSeq(Buffered, 1, amount) = [i \in 1 .. amount |->
                 bridge.ring[(bridge.read_offset + i - 1) % RingCapacity]]
           /\ Buffered' = SubSeq(Buffered, amount + 1, Len(Buffered))
           /\ Len(Buffered) = bridge.buffered /\ bridge'.bytes_written = bridge.bytes_written
           /\ bridge'.cancelled = bridge.cancelled /\ bridge'.eof = bridge.eof
           /\ bridge'.mux_finished = bridge.mux_finished
  <1> DEFINE C == RingCapacity
             o == bridge.read_offset
             b == bridge.buffered
             w == bridge.bytes_written
  <1>1. /\ C \in Nat \ {0} /\ o \in 0 .. C - 1 /\ b \in 0 .. C /\ w \in Nat /\ amount \in 1 .. b
        /\ amount \in 0 .. C /\ b - amount \in 0 .. C /\ amount + (b - amount) <= C
    <2>1. C \in Nat \ {0} /\ o \in 0 .. C - 1 /\ b \in 0 .. C /\ w \in Nat
      BY BridgeAssumption DEF BridgeState
    <2>2. amount \in 0 .. C /\ b - amount \in 0 .. C /\ amount + (b - amount) <= C
      BY <2>1
    <2> QED
      BY <2>1, <2>2
  <1>2. /\ bridge'.ring = bridge.ring /\ bridge'.read_offset = (o + amount) % C
        /\ bridge'.buffered = b - amount /\ bridge'.bytes_written = w
        /\ bridge'.write_offset = bridge.write_offset
        /\ bridge'.cancelled = bridge.cancelled /\ bridge'.eof = bridge.eof
        /\ bridge'.mux_finished = bridge.mux_finished
    BY DEF BridgeState
  <1>3. bridge' \in BridgeState
    <2>1. (o + amount) % C \in 0 .. C - 1
      BY <1>1, WrapsSum
    <2> QED
      BY <1>1, <2>1 DEF BridgeState
  <1>4. bridge'.write_offset = (bridge'.read_offset + bridge'.buffered) % C
    <2>1. (((o + amount) % C) + (b - amount)) % C = (o + amount + (b - amount)) % C
      BY <1>1, WrapsTwice
    <2>2. o + amount + (b - amount) = o + b
      BY <1>1
    <2> QED
      BY <1>2, <2>1, <2>2 DEF RingOK
  <1>5. ASSUME NEW i \in 1 .. b - amount
        PROVE  bridge.ring[(bridge'.read_offset + i - 1) % C] = (w - (b - amount)) + i
    <2>1. PICK n \in 0 .. C : n = i - 1
      BY <1>1
    <2>2. (((o + amount) % C) + n) % C = (o + amount + n) % C
      BY <1>1, <2>1, WrapsTwice
    <2>3. o + amount + n = o + (amount + i) - 1 /\ amount + i \in 1 .. b
      BY <1>1, <2>1
    <2>4. ((o + amount) % C) + n = bridge'.read_offset + i - 1
      BY <1>1, <1>2, <2>1
    <2>5. Buffered[amount + i] = bridge.ring[(o + (amount + i) - 1) % C]
      BY <2>3 DEF Buffered
    <2>6. Buffered[amount + i] = w - b + (amount + i)
      BY <2>3 DEF RingOK, Bytes
    <2>7. bridge.ring[(bridge'.read_offset + i - 1) % C] = Buffered[amount + i]
      BY <2>2, <2>3, <2>4, <2>5
    <2>8. w - b + (amount + i) = (w - (b - amount)) + i
      BY <1>1
    <2> QED
      BY <2>6, <2>7, <2>8
  <1>6. Buffered' = Bytes(w - (b - amount), b - amount)
    BY <1>2, <1>5 DEF Buffered, Bytes
  <1>7. RingOK'
    BY <1>2, <1>4, <1>6 DEF RingOK
  <1>8. /\ Len(Buffered) = b
        /\ SubSeq(Buffered, 1, amount) = Bytes(w - b, amount)
        /\ SubSeq(Buffered, amount + 1, b) = Bytes(w - b + amount, b - amount)
    <2>1. PICK from \in Int : from = w - b
      BY <1>1
    <2>2. b \in Nat /\ amount \in 0 .. b
      BY <1>1
    <2>3. /\ Len(Bytes(from, b)) = b /\ SubSeq(Bytes(from, b), 1, amount) = Bytes(from, amount)
          /\ SubSeq(Bytes(from, b), amount + 1, b) = Bytes(from + amount, b - amount)
      BY <2>2, BytesCut
    <2> QED
      BY <2>1, <2>3 DEF RingOK
  <1>9. w - b + amount = w - (b - amount)
    BY <1>1
  <1>10. Bytes(w - b, amount) = [i \in 1 .. amount |-> bridge.ring[(o + i - 1) % C]]
    <2>1. \A i \in 1 .. amount : i \in 1 .. b
      BY <1>1
    <2>2. \A i \in 1 .. b : bridge.ring[(o + i - 1) % C] = w - b + i
      BY DEF RingOK, Buffered, Bytes
    <2> QED
      BY <2>1, <2>2 DEF Bytes
  <1> QED
    BY <1>2, <1>3, <1>6, <1>7, <1>8, <1>9, <1>10

\* The abstract step of one that leaves the ring, the delivery and the phase
\* of the stream alone.
LEMMA StreamStutters ==
    ASSUME RingSame, UNCHANGED output, bridge'.cancelled = bridge.cancelled,
           bridge.cancelled \/ bridge'.eof = bridge.eof
    PROVE  UNCHANGED Stream!StreamVars
  BY DEF RingSame, Stream!StreamVars

LEMMA BridgeStarts == BridgeInit => BridgeInv /\ Stream!StreamInit
  <1> SUFFICES ASSUME BridgeInit PROVE BridgeInv /\ Stream!StreamInit
    OBVIOUS
  <1>1. RingCapacity \in Nat \ {0} /\ MaxGeneration \in Nat
    BY BridgeAssumption
  <1>2. /\ bridge.buffered = 0 /\ bridge.read_offset = 0 /\ bridge.write_offset = 0
        /\ bridge.bytes_written = 0 /\ ~bridge.eof /\ ~bridge.cancelled /\ ~bridge.mux_finished
        /\ muxing.holder = "none" /\ muxing.pending = <<>> /\ finisher = "idle" /\ output = <<>>
        /\ reader = "none"
    BY DEF BridgeInit, Unlocked
  <1>3. BridgeTypeOK
    <2>1. bridge \in BridgeState
      BY <1>1 DEF BridgeInit, BridgeState
    <2>2. muxing \in MuxState
      BY DEF BridgeInit, Unlocked, MuxState
    <2> QED
      BY <1>2, <2>1, <2>2, BridgeTypes
  <1>4. RingOK
    <2>1. (0 + 0) % RingCapacity = 0
      BY <1>1
    <2> QED
      BY <1>2, <2>1 DEF RingOK, Buffered, Bytes
  <1>5. EndOK
    BY <1>2 DEF EndOK, Pushers
  <1>6. Stream!StreamInit
    BY <1>2 DEF Stream!StreamInit
  <1> QED
    BY <1>3, <1>4, <1>5, <1>6 DEF BridgeInv

\* The writes of a packet behind those of the header.
LEMMA HeaderTyped ==
    ASSUME NEW b, NEW writes \in Seq(1 .. RingCapacity)
    PROVE  ensure_header(b, writes) \in Seq(1 .. RingCapacity)
  <1>1. Header \in Seq(1 .. RingCapacity)
    BY BridgeAssumption DEF Header
  <1>2. Header \o writes \in Seq(1 .. RingCapacity)
    BY <1>1
  <1> QED
    BY <1>2 DEF ensure_header

\* One write made, the others are to come.
LEMMA WritesShrink ==
    ASSUME NEW S, NEW writes \in Seq(S), writes # <<>>
    PROVE  Head(writes) \in S /\ Tail(writes) \in Seq(S)
  OBVIOUS

\* A step that leaves the ring and its reader's delivery alone, and ends or
\* cancels no stream.
LEMMA QuietStep ==
    ASSUME BridgeInv, RingSame, UNCHANGED output, BridgeTypeOK', EndOK',
           bridge'.cancelled = bridge.cancelled, bridge.cancelled \/ bridge'.eof = bridge.eof
    PROVE  BridgeInv' /\ UNCHANGED Stream!StreamVars
  BY RingKept, StreamStutters DEF BridgeInv

\* A push under mux_mutex, of the video or of the audio.
LEMMA PushStep ==
    ASSUME BridgeInv, NEW who \in Pushers, NEW writes \in Seq(1 .. RingCapacity),
           ~closed, muxing.holder = "none",
           muxing' = [holder |-> who, pending |-> writes],
           bridge' \in BridgeState, RingSame,
           bridge'.cancelled = bridge.cancelled, bridge'.eof = bridge.eof,
           bridge'.mux_finished = bridge.mux_finished,
           UNCHANGED <<finisher, reader, output>>
    PROVE  BridgeInv' /\ UNCHANGED Stream!StreamVars
  <1>1. BridgeTypeOK'
    <2>1. muxing' \in MuxState
      BY DEF MuxState
    <2> QED
      BY <2>1, BridgeTypes DEF BridgeInv
  <1>2. EndOK'
    <2>1. muxing'.holder = who /\ who \in {"video", "audio"}
      BY DEF Pushers
    <2>2. ~bridge.eof /\ ~bridge.mux_finished /\ ~bridge.cancelled /\ finisher = "idle"
      BY DEF closed, EndOK, BridgeInv
    <2> QED
      BY <2>1, <2>2 DEF EndOK
  <1> QED
    BY <1>1, <1>2, QuietStep

\* Every step of the bridge keeps its invariant and is a step of the stream.
LEMMA BridgeStep ==
    BridgeInv /\ [BridgeNext]_BridgeVars => BridgeInv' /\ [Stream!StreamNext]_(Stream!StreamVars)
  <1> SUFFICES ASSUME BridgeInv, [BridgeNext]_BridgeVars
               PROVE  BridgeInv' /\ [Stream!StreamNext]_(Stream!StreamVars)
    OBVIOUS
  <1>1. /\ bridge \in BridgeState /\ muxing \in MuxState
        /\ finisher \in {"idle", "mux", "eof"} /\ reader \in {"none", "idle", "reading"}
    BY BridgeTypes DEF BridgeInv
  <1>2. RingCapacity \in Nat \ {0} /\ MaxReadSize \in Nat \ {0} /\ Packets \subseteq Seq(1 .. RingCapacity)
    BY BridgeAssumption
  <1>3. ASSUME NEW generation \in 0 .. MaxGeneration, NEW keyframe \in BOOLEAN,
               NEW mapped \in BOOLEAN, NEW packet \in Packets,
               push_video(generation, keyframe, mapped, packet)
        PROVE  BridgeInv' /\ UNCHANGED Stream!StreamVars
    <2>1. PICK writes \in Seq(1 .. RingCapacity) : muxing' = [holder |-> "video", pending |-> writes]
      <3>1. (IF mapped THEN packet ELSE <<>>) \in Seq(1 .. RingCapacity)
        <4>1. <<>> \in Seq(1 .. RingCapacity)
          OBVIOUS
        <4> QED
          BY <1>2, <4>1
      <3> QED
        BY <1>3, <3>1, HeaderTyped DEF push_video, lock_mux
    <2>2. bridge' = [bridge EXCEPT !.sized = TRUE, !.header_written = TRUE,
              !.video_config_generation = IF mapped THEN generation ELSE @]
      BY <1>3 DEF push_video
    <2>3. bridge' \in BridgeState
      BY <1>1, <2>2 DEF BridgeState
    <2>4. /\ RingSame /\ bridge'.cancelled = bridge.cancelled /\ bridge'.eof = bridge.eof
          /\ bridge'.mux_finished = bridge.mux_finished
      BY <1>1, <2>2 DEF RingSame, BridgeState
    <2>5. ~closed /\ muxing.holder = "none" /\ UNCHANGED <<finisher, reader, output>>
      BY <1>3 DEF push_video, lock_mux
    <2>6. "video" \in Pushers
      BY DEF Pushers
    <2> QED
      BY <2>1, <2>3, <2>4, <2>5, <2>6, PushStep
  <1>4. ASSUME NEW mapped \in BOOLEAN, NEW packet \in Packets, push_audio(mapped, packet)
        PROVE  BridgeInv' /\ UNCHANGED Stream!StreamVars
    <2>1. PICK writes \in Seq(1 .. RingCapacity) : muxing' = [holder |-> "audio", pending |-> writes]
      <3>1. (IF mapped THEN packet ELSE <<>>) \in Seq(1 .. RingCapacity)
        <4>1. <<>> \in Seq(1 .. RingCapacity)
          OBVIOUS
        <4> QED
          BY <1>2, <4>1
      <3> QED
        BY <1>4, <3>1, HeaderTyped DEF push_audio, lock_mux
    <2>2. bridge' = [bridge EXCEPT !.header_written = TRUE]
      BY <1>4 DEF push_audio
    <2>3. bridge' \in BridgeState
      BY <1>1, <2>2 DEF BridgeState
    <2>4. /\ RingSame /\ bridge'.cancelled = bridge.cancelled /\ bridge'.eof = bridge.eof
          /\ bridge'.mux_finished = bridge.mux_finished
      BY <1>1, <2>2 DEF RingSame, BridgeState
    <2>5. ~closed /\ muxing.holder = "none" /\ UNCHANGED <<finisher, reader, output>>
      BY <1>4 DEF push_audio, lock_mux
    <2>6. "audio" \in Pushers
      BY DEF Pushers
    <2> QED
      BY <2>1, <2>3, <2>4, <2>5, <2>6, PushStep
  <1>5. CASE configure_audio
    <2>1. bridge' = [bridge EXCEPT !.audio_stream = TRUE] /\ UNCHANGED <<muxing, finisher, reader, output>>
      BY <1>5 DEF configure_audio
    <2>2. bridge' \in BridgeState
      BY <1>1, <2>1 DEF BridgeState
    <2>3. /\ RingSame /\ bridge'.cancelled = bridge.cancelled /\ bridge'.eof = bridge.eof
          /\ bridge'.mux_finished = bridge.mux_finished
      BY <1>1, <2>1 DEF RingSame, BridgeState
    <2>4. BridgeTypeOK' /\ EndOK'
      BY <1>1, <2>1, <2>2, <2>3, BridgeTypes DEF EndOK, closed, BridgeInv
    <2> QED
      BY <2>1, <2>3, <2>4, QuietStep
  <1>6. CASE finish_muxes
    <2>1. /\ finisher = "idle" /\ muxing.holder = "none" /\ finisher' = "mux"
          /\ UNCHANGED <<reader, output>>
      BY <1>6 DEF finish_muxes
    <2>2. PICK writes \in Seq(1 .. RingCapacity) :
             /\ muxing' = [holder |-> "finisher", pending |-> writes]
             /\ closed => writes = <<>>
      <3>1. <<>> \in Seq(1 .. RingCapacity)
        OBVIOUS
      <3>2. ensure_header(bridge, Trailer) \in Seq(1 .. RingCapacity)
        <4>1. Trailer \in Seq(1 .. RingCapacity)
          BY <1>2 DEF Trailer
        <4> QED
          BY <4>1, HeaderTyped
      <3> QED
        BY <1>6, <3>1, <3>2 DEF finish_muxes, lock_mux
    <2>3. /\ bridge' \in BridgeState /\ RingSame
          /\ bridge'.cancelled = bridge.cancelled /\ bridge'.eof = bridge.eof
          /\ bridge'.cancelled \/ bridge'.mux_finished
      <3>1. CASE bridge' = [bridge EXCEPT !.mux_finished = @ \/ ~bridge.cancelled]
        BY <1>1, <3>1 DEF BridgeState, RingSame
      <3>2. CASE bridge' = [bridge EXCEPT !.header_written = TRUE, !.mux_finished = TRUE]
        BY <1>1, <3>2 DEF BridgeState, RingSame
      <3> QED
        BY <1>6, <3>1, <3>2 DEF finish_muxes
    <2>4. BridgeTypeOK'
      <3>1. muxing' \in MuxState
        BY <2>2 DEF MuxState
      <3> QED
        BY <1>1, <2>1, <2>3, <3>1, BridgeTypes
    <2>5. EndOK'
      <3>1. muxing'.holder = "finisher" /\ muxing'.pending = writes
        BY <2>2
      <3>2. bridge.eof => closed
        BY DEF BridgeInv, EndOK
      <3> QED
        BY <2>1, <2>2, <2>3, <3>1, <3>2 DEF EndOK, closed, Pushers
    <2> QED
      BY <2>1, <2>3, <2>4, <2>5, QuietStep
  <1>7. CASE avio_write
    <2>1. muxing.pending # <<>> /\ UNCHANGED <<finisher, reader, output>>
      BY <1>7 DEF avio_write
    <2>2. muxing.holder # "none" /\ muxing.pending \in Seq(1 .. RingCapacity)
      BY <1>1, <2>1 DEF BridgeInv, EndOK, MuxState
    <2>3. CASE bridge.cancelled
      <3>1. UNCHANGED bridge /\ muxing' = [muxing EXCEPT !.pending = <<>>]
        BY <1>7, <2>3 DEF avio_write
      <3>2. muxing' \in MuxState /\ muxing'.holder = muxing.holder /\ muxing'.pending = <<>>
        <4>1. <<>> \in Seq(1 .. RingCapacity)
          OBVIOUS
        <4> QED
          BY <1>1, <3>1, <4>1 DEF MuxState
      <3>3. BridgeTypeOK'
        BY <1>1, <2>1, <3>1, <3>2, BridgeTypes
      <3>4. EndOK'
        BY <2>1, <3>1, <3>2 DEF EndOK, closed, BridgeInv
      <3>5. RingSame
        BY <3>1 DEF RingSame
      <3> QED
        BY <2>1, <3>1, <3>3, <3>4, <3>5, QuietStep
    <2>4. CASE ~bridge.cancelled
      <3>1. PICK size \in 1 .. RingCapacity : size = Head(muxing.pending)
        BY <2>1, <2>2, WritesShrink
      <3>2. /\ RingCapacity - bridge.buffered >= size /\ bridge' = written(size)
            /\ muxing' = [muxing EXCEPT !.pending = Tail(@)]
        BY <1>7, <2>4, <3>1 DEF avio_write
      <3>3. RingOK
        BY DEF BridgeInv
      <3>4. /\ bridge' \in BridgeState /\ RingOK'
            /\ Buffered' = Buffered \o [i \in 1 .. size |-> bridge.bytes_written + i]
            /\ bridge'.bytes_written = bridge.bytes_written + size
            /\ bridge'.cancelled = bridge.cancelled /\ bridge'.eof = bridge.eof
            /\ bridge'.mux_finished = bridge.mux_finished
        BY <1>1, <3>2, <3>3, WriteKeepsRing
      <3>5. muxing' \in MuxState /\ muxing'.holder = muxing.holder
        <4>1. Tail(muxing.pending) \in Seq(1 .. RingCapacity)
          BY <2>1, <2>2, WritesShrink
        <4> QED
          BY <1>1, <3>2, <4>1 DEF MuxState
      <3>6. BridgeTypeOK'
        BY <1>1, <2>1, <3>4, <3>5, BridgeTypes
      <3>7. ~bridge.eof
        BY <2>1, <2>4 DEF BridgeInv, EndOK
      <3>8. EndOK'
        BY <2>1, <2>2, <3>4, <3>5, <3>7 DEF EndOK, closed, BridgeInv
      <3>9. Stream!Put(size)
        BY <2>1, <2>4, <3>4, <3>7 DEF Stream!Put, Buffered
      <3>10. size \in 1 .. bridge'.bytes_written - bridge.bytes_written
        <4>1. bridge.bytes_written \in Nat
          BY <1>1 DEF BridgeState
        <4> QED
          BY <3>4, <4>1
      <3> QED
        BY <3>4, <3>6, <3>8, <3>9, <3>10 DEF BridgeInv, Stream!StreamNext
    <2> QED
      BY <2>3, <2>4
  <1>8. CASE unlock_mux
    <2>1. /\ muxing.holder # "none" /\ muxing.pending = <<>> /\ muxing' = Unlocked
          /\ finisher' = (IF muxing.holder = "finisher" THEN "eof" ELSE finisher)
          /\ UNCHANGED <<bridge, reader, output>>
      BY <1>8 DEF unlock_mux
    <2>2. muxing' \in MuxState /\ muxing'.holder = "none" /\ muxing'.pending = <<>>
      BY <2>1 DEF Unlocked, MuxState
    <2>3. BridgeTypeOK'
      BY <1>1, <2>1, <2>2, BridgeTypes
    <2>4. EndOK'
      BY <2>1, <2>2 DEF EndOK, closed, Pushers, BridgeInv
    <2>5. RingSame
      BY <2>1 DEF RingSame
    <2> QED
      BY <2>1, <2>3, <2>4, <2>5, QuietStep
  <1>9. CASE finish_ends
    <2>1. /\ finisher = "eof" /\ finisher' = "idle" /\ UNCHANGED <<muxing, reader, output>>
          /\ bridge' = [bridge EXCEPT !.eof = ~bridge.cancelled]
      BY <1>9 DEF finish_ends
    <2>2. /\ bridge' \in BridgeState /\ RingSame /\ bridge'.cancelled = bridge.cancelled
          /\ bridge'.mux_finished = bridge.mux_finished /\ bridge'.eof = ~bridge.cancelled
      BY <1>1, <2>1 DEF BridgeState, RingSame
    <2>3. BridgeTypeOK'
      BY <1>1, <2>1, <2>2, BridgeTypes
    <2>4. EndOK'
      <3>1. closed /\ muxing.holder # "finisher"
        BY <2>1 DEF EndOK, BridgeInv
      <3>2. ~bridge.cancelled => muxing.pending = <<>>
        BY <1>1, <3>1 DEF EndOK, BridgeInv, closed, MuxState
      <3> QED
        BY <2>1, <2>2, <3>1, <3>2 DEF EndOK, closed, BridgeInv
    <2>5. CASE bridge.cancelled \/ bridge.eof
      <3>1. bridge.cancelled \/ bridge'.eof = bridge.eof
        BY <1>1, <2>2, <2>5 DEF BridgeState
      <3> QED
        BY <2>1, <2>2, <2>3, <2>4, <3>1, QuietStep
    <2>6. CASE ~bridge.cancelled /\ ~bridge.eof
      <3>1. RingOK' /\ Buffered' = Buffered
        BY <2>2, RingKept DEF BridgeInv
      <3>2. Stream!Close
        BY <2>1, <2>2, <2>6, <3>1 DEF Stream!Close, Buffered, RingSame
      <3> QED
        BY <2>3, <2>4, <3>1, <3>2 DEF BridgeInv, Stream!StreamNext
    <2> QED
      BY <2>5, <2>6
  <1>10. CASE claim_reader \/ release_reader \/ read_waits
    <2>1. /\ bridge' \in BridgeState /\ RingSame /\ UNCHANGED <<muxing, finisher, output>>
          /\ bridge'.cancelled = bridge.cancelled /\ bridge'.eof = bridge.eof
          /\ bridge'.mux_finished = bridge.mux_finished
          /\ reader' \in {"none", "idle", "reading"}
      <3>1. CASE claim_reader
        BY <1>1, <3>1 DEF claim_reader, BridgeState, RingSame
      <3>2. CASE release_reader
        BY <1>1, <3>2 DEF release_reader, BridgeState, RingSame
      <3>3. CASE read_waits
        BY <1>1, <3>3 DEF read_waits, RingSame
      <3> QED
        BY <1>10, <3>1, <3>2, <3>3
    <2>2. BridgeTypeOK' /\ EndOK'
      BY <1>1, <2>1, BridgeTypes DEF EndOK, closed, BridgeInv
    <2> QED
      BY <2>1, <2>2, QuietStep
  <1>11. ASSUME NEW output_size \in 1 .. MaxReadSize, read_returns(output_size)
         PROVE  BridgeInv' /\ [Stream!StreamNext]_(Stream!StreamVars)
    <2>1. reader' = "idle" /\ UNCHANGED <<muxing, finisher>>
      BY <1>11 DEF read_returns
    <2>2. CASE UNCHANGED <<bridge, output>>
      <3>1. BridgeTypeOK' /\ EndOK'
        BY <1>1, <2>1, <2>2, BridgeTypes DEF EndOK, closed, BridgeInv
      <3>2. RingSame
        BY <2>2 DEF RingSame
      <3> QED
        BY <2>2, <3>1, <3>2, QuietStep
    <2>3. CASE ~UNCHANGED <<bridge, output>>
      <3>1. ~bridge.cancelled /\ bridge.buffered > 0
        BY <1>11, <2>3 DEF read_returns
      <3>2. bridge.buffered \in 0 .. RingCapacity
        BY <1>1 DEF BridgeState
      <3>3. PICK amount \in 1 .. bridge.buffered :
               /\ output' = [i \in 1 .. amount |->
                     bridge.ring[(bridge.read_offset + i - 1) % RingCapacity]]
               /\ bridge' = [bridge EXCEPT !.read_offset = (@ + amount) % RingCapacity,
                                           !.buffered = @ - amount]
        <4>1. (IF output_size < bridge.buffered THEN output_size ELSE bridge.buffered)
                 \in 1 .. bridge.buffered
          BY <1>2, <3>1, <3>2
        <4> QED
          BY <1>11, <2>3, <4>1 DEF read_returns
      <3>4. RingOK
        BY DEF BridgeInv
      <3>5. /\ bridge' \in BridgeState /\ RingOK'
            /\ SubSeq(Buffered, 1, amount) = [i \in 1 .. amount |->
                 bridge.ring[(bridge.read_offset + i - 1) % RingCapacity]]
            /\ Buffered' = SubSeq(Buffered, amount + 1, Len(Buffered))
            /\ Len(Buffered) = bridge.buffered /\ bridge'.bytes_written = bridge.bytes_written
            /\ bridge'.cancelled = bridge.cancelled /\ bridge'.eof = bridge.eof
            /\ bridge'.mux_finished = bridge.mux_finished
        BY <1>1, <3>3, <3>4, ReadKeepsRing
      <3>6. BridgeTypeOK' /\ EndOK'
        BY <1>1, <2>1, <3>5, BridgeTypes DEF EndOK, closed, BridgeInv
      <3>7. output' = SubSeq(Buffered, 1, amount)
        BY <3>3, <3>5
      <3>8. Stream!Take(amount)
        BY <3>1, <3>5, <3>7 DEF Stream!Take, Buffered
      <3>9. amount \in 1 .. Len(Buffered)
        BY <3>5
      <3> QED
        BY <3>5, <3>6, <3>8, <3>9 DEF BridgeInv, Stream!StreamNext, Buffered
    <2> QED
      BY <2>2, <2>3
  <1>12. CASE cancel_bridge
    <2>1. /\ bridge' = [bridge EXCEPT !.cancelled = TRUE]
          /\ UNCHANGED <<muxing, finisher, reader, output>>
      BY <1>12 DEF cancel_bridge
    <2>2. /\ bridge' \in BridgeState /\ RingSame /\ bridge'.cancelled
          /\ bridge'.mux_finished = bridge.mux_finished /\ bridge'.eof = bridge.eof
      BY <1>1, <2>1 DEF BridgeState, RingSame
    <2>3. BridgeTypeOK' /\ EndOK'
      BY <1>1, <2>1, <2>2, BridgeTypes DEF EndOK, closed, BridgeInv
    <2>4. CASE bridge.cancelled
      <3>1. bridge'.cancelled = bridge.cancelled
        BY <1>1, <2>2, <2>4 DEF BridgeState
      <3> QED
        BY <2>1, <2>2, <2>3, <2>4, <3>1, QuietStep
    <2>5. CASE ~bridge.cancelled
      <3>1. RingOK' /\ Buffered' = Buffered
        BY <2>2, RingKept DEF BridgeInv
      <3>2. Stream!Cancel
        BY <2>1, <2>2, <2>5, <3>1 DEF Stream!Cancel, Buffered, RingSame
      <3> QED
        BY <2>3, <3>1, <3>2 DEF BridgeInv, Stream!StreamNext
    <2> QED
      BY <2>4, <2>5
  <1>13. CASE UNCHANGED BridgeVars
    <2>1. UNCHANGED <<bridge, muxing, finisher, reader, output>>
      BY <1>13 DEF BridgeVars
    <2>2. BridgeTypeOK' /\ EndOK' /\ RingSame
      BY <1>1, <2>1, BridgeTypes DEF EndOK, closed, BridgeInv, RingSame
    <2> QED
      BY <2>1, <2>2, QuietStep
  <1> QED
    BY <1>3, <1>4, <1>5, <1>6, <1>7, <1>8, <1>9, <1>10, <1>11, <1>12, <1>13
    DEF BridgeNext, BridgeThreads

\* The bridge implements the stream of bytes: whatever the capacity of the
\* ring, the sizes of the writes and reads and the interleaving of the
\* receiver threads, the finisher, libmpv's reader and a cancellation, the
\* ring with its wrapping offsets delivers every byte once and in order, puts
\* none after the end and none after a cancellation.
THEOREM BridgeImplementsStream == BridgeSpec => BridgeIsByteStream
  <1>1. BridgeInit => BridgeInv /\ Stream!StreamInit
    BY BridgeStarts
  <1>2. BridgeInv /\ [BridgeNext]_BridgeVars => BridgeInv' /\ [Stream!StreamNext]_(Stream!StreamVars)
    BY BridgeStep
  <1>3. BridgeInv => BridgeTypeOK
    BY DEF BridgeInv
  <1> QED
    BY <1>1, <1>2, <1>3, PTL DEF BridgeSpec, BridgeIsByteStream, Stream!StreamSpec

-----------------------------------------------------------------------------
(* Log: the inductive invariant. *)

LogState ==
    [ring : [0 .. QueueSize - 1 -> 0 .. MaxLines], head : 0 .. QueueSize - 1,
     tail : 0 .. QueueSize - 1, count : 0 .. QueueSize,
     dropped : Nat, dropped_total : Nat, enqueued : Nat, processed : Nat,
     stop : BOOLEAN, started : BOOLEAN,
     history : [0 .. HistorySize - 1 -> 0 .. Notice],
     history_head : 0 .. HistorySize - 1, history_count : 0 .. HistorySize]
MoverState ==
    [at : {"none", "top", "append", "mirror", "exited"}, line : 0 .. Notice, dropped : Nat]
ToldState == [moved : SUBSET Nat, announced : Nat, cleared : Nat, forgotten : Nat]

LogShapes ==
    /\ log \in LogState /\ mover \in MoverState /\ told_of \in ToldState
    /\ owner \in [at : {"idle", "starting", "join"}, starts : Nat]
    /\ writing \subseteq Writers /\ IsFiniteSet(writing) /\ IsFiniteSet(told_of.moved)

\* A writer between the two locks has its place among the lines to come.
BoundOK == log.enqueued + Cardinality(writing) <= MaxLines

\* count lines are in the ring from head on, the last being number last.
Lines(ring, head, tail, count, last) ==
    /\ tail = (head + count) % QueueSize
    /\ \A i \in 0 .. count - 1 : ring[(head + i) % QueueSize] = last - count + 1 + i

LinesOK == Lines(log.ring, log.head, log.tail, log.count, log.enqueued)

\* The line in the worker's hand, if any, is newer than those of the history
\* and older than those of the ring: no line is counted twice.
InHand == mover.at = "append" /\ mover.line # Notice
Before == log.enqueued - log.count
FreshOK ==
    /\ InHand => mover.line <= Before /\ \A m \in told_of.moved : m < mover.line
    /\ ~InHand => \A m \in told_of.moved : m <= Before
    /\ InHand \/ mover.at \in {"none", "top", "exited"} => mover.dropped = 0

\* The two sums of LogAccounts.
LinesCounted ==
    Cardinality(told_of.moved) + log.count + log.dropped_total + told_of.cleared
       + (IF InHand THEN 1 ELSE 0) = log.enqueued
DropsCounted ==
    told_of.announced + log.dropped + told_of.forgotten
       + (IF mover.at = "append" THEN mover.dropped ELSE 0) = log.dropped_total

\* A worker runs only between a start of the log and the end of a shutdown.
OwnerOK == owner.at = "idle" /\ ~log.started => mover.at = "none"

\* The history owns the line that is sent to the socket.
MirrorOK == mover.at = "mirror" => \E i \in 0 .. HistorySize - 1 : log.history[i] = mover.line

LogInv ==
    /\ LogShapes /\ BoundOK /\ LinesOK /\ FreshOK
    /\ LinesCounted /\ DropsCounted /\ OwnerOK /\ MirrorOK

\* Two rings that differ at most in one slot.
SameElsewhere(ring, other, slot) ==
    \A j \in 0 .. QueueSize - 1 : j # slot => other[j] = ring[j]

\* The oldest line leaves the ring; its slot may be cleared.
LEMMA LinesAdvance ==
    ASSUME NEW ring, NEW other, NEW head \in 0 .. QueueSize - 1, NEW tail,
           NEW count \in 1 .. QueueSize, NEW last \in Nat,
           Lines(ring, head, tail, count, last),
           SameElsewhere(ring, other, head)
    PROVE  /\ Lines(other, (head + 1) % QueueSize, tail, count - 1, last)
           /\ (head + 1) % QueueSize \in 0 .. QueueSize - 1
           /\ ring[head] = last - count + 1
  <1> DEFINE C == QueueSize
  <1>1. C \in Nat \ {0} /\ 1 \in 0 .. C
    BY LogAssumption
  <1>2. (head + 1) % C \in 0 .. C - 1
    BY <1>1, WrapsSum
  <1>3. tail = (((head + 1) % C) + (count - 1)) % C
    <2>1. (((head + 1) % C) + (count - 1)) % C = (head + 1 + (count - 1)) % C
      BY <1>1, WrapsTwice
    <2>2. head + 1 + (count - 1) = head + count
      BY <1>1
    <2> QED
      BY <2>1, <2>2 DEF Lines
  <1>4. ASSUME NEW i \in 0 .. count - 1 - 1
        PROVE  other[(((head + 1) % C) + i) % C] = last - (count - 1) + 1 + i
    <2>1. PICK k \in 0 .. C - 1 : k = i + 1
      BY <1>1
    <2>2. k \in 0 .. C /\ k \in 0 .. count - 1 /\ k > 0
      BY <1>1, <2>1
    <2>3. (((head + 1) % C) + i) % C = (head + 1 + i) % C
      BY <1>1, WrapsTwice
    <2>4. head + 1 + i = head + k
      BY <1>1, <2>1
    <2>5. PICK p \in 0 .. C - 1 : p = (head + k) % C
      BY <1>1, <2>2, WrapsSum
    <2>6. (head + k) % C = IF head + k < C THEN head + k ELSE head + k - C
      BY <1>1, <2>2, WrapsSum
    <2>7. p # head
      BY <1>1, <2>1, <2>2, <2>5, <2>6
    <2>8. other[p] = ring[p]
      BY <2>7 DEF SameElsewhere
    <2>9. ring[p] = last - count + 1 + k
      BY <2>2, <2>5 DEF Lines
    <2>10. last - count + 1 + k = last - (count - 1) + 1 + i
      BY <2>1
    <2> QED
      BY <2>3, <2>4, <2>5, <2>8, <2>9, <2>10
  <1>5. ring[head] = last - count + 1
    <2>1. PICK k \in 0 .. C : k = 0 /\ k \in 0 .. count - 1
      BY <1>1
    <2>2. (head + k) % C = IF head + k < C THEN head + k ELSE head + k - C
      BY <1>1, WrapsSum
    <2>3. (head + k) % C = head
      BY <1>1, <2>1, <2>2
    <2>4. ring[(head + k) % C] = last - count + 1 + k
      BY <2>1 DEF Lines
    <2> QED
      BY <2>1, <2>3, <2>4
  <1> QED
    BY <1>2, <1>3, <1>4, <1>5 DEF Lines

\* A line is put at the tail of a ring with room.
LEMMA LinesPut ==
    ASSUME NEW ring \in [0 .. QueueSize - 1 -> 0 .. MaxLines], NEW head \in 0 .. QueueSize - 1,
           NEW tail \in 0 .. QueueSize - 1, NEW count \in 0 .. QueueSize - 1, NEW last \in Nat,
           Lines(ring, head, tail, count, last)
    PROVE  /\ Lines([ring EXCEPT ![tail] = last + 1], head, (tail + 1) % QueueSize, count + 1, last + 1)
           /\ (tail + 1) % QueueSize \in 0 .. QueueSize - 1
  <1> DEFINE C == QueueSize
  <1>1. C \in Nat \ {0} /\ 1 \in 0 .. C /\ count \in 0 .. C /\ count + 1 <= C
    BY LogAssumption
  <1>2. tail = (head + count) % C
    BY DEF Lines
  <1>3. (tail + 1) % C = (head + (count + 1)) % C
    <2>1. (((head + count) % C) + 1) % C = (head + count + 1) % C
      BY <1>1, WrapsTwice
    <2>2. head + count + 1 = head + (count + 1)
      BY <1>1
    <2> QED
      BY <1>2, <2>1, <2>2
  <1>4. (tail + 1) % C \in 0 .. C - 1
    BY <1>1, WrapsSum
  <1>5. ASSUME NEW i \in 0 .. count + 1 - 1
        PROVE  [ring EXCEPT ![tail] = last + 1][(head + i) % C] = last + 1 - (count + 1) + 1 + i
    <2>1. i \in 0 .. C
      BY <1>1
    <2>2. PICK p \in 0 .. C - 1 : p = (head + i) % C
      BY <1>1, <2>1, WrapsSum
    <2>3. CASE i = count
      <3>1. p = tail
        BY <1>2, <2>2, <2>3
      <3> QED
        BY <1>1, <2>2, <2>3, <3>1
    <2>4. CASE i # count
      <3>1. p = IF head + i < C THEN head + i ELSE head + i - C
        BY <1>1, <2>1, <2>2, WrapsSum
      <3>2. tail = IF head + count < C THEN head + count ELSE head + count - C
        BY <1>1, <1>2, WrapsSum
      <3>3. p # tail
        BY <1>1, <2>4, <3>1, <3>2
      <3>4. i \in 0 .. count - 1
        BY <1>1, <2>4
      <3>5. ring[(head + i) % C] = last - count + 1 + i
        BY <3>4 DEF Lines
      <3>6. last - count + 1 + i = last + 1 - (count + 1) + 1 + i
        BY <1>1
      <3> QED
        BY <2>2, <3>3, <3>5, <3>6
    <2> QED
      BY <2>3, <2>4
  <1> QED
    BY <1>3, <1>4, <1>5 DEF Lines

LEMMA LogStarts == LogInit => LogInv
  <1> SUFFICES ASSUME LogInit PROVE LogInv
    OBVIOUS
  <1>1. QueueSize \in Nat \ {0} /\ HistorySize \in Nat \ {0} /\ MaxLines \in Nat
    BY LogAssumption
  <1>2. /\ log.count = 0 /\ log.head = 0 /\ log.tail = 0 /\ log.dropped = 0
        /\ log.dropped_total = 0 /\ log.enqueued = 0
        /\ mover.at = "none" /\ mover.dropped = 0 /\ writing = {} /\ told_of.moved = {}
        /\ told_of.announced = 0 /\ told_of.cleared = 0 /\ told_of.forgotten = 0
    BY DEF LogInit, NoMover
  <1>3. IsFiniteSet({}) /\ Cardinality({}) = 0
    BY FS_EmptySet
  <1>4. LogShapes
    <2>1. log \in LogState
      BY <1>1 DEF LogInit, LogState, Notice
    <2>2. mover \in MoverState /\ told_of \in ToldState
      BY <1>1 DEF LogInit, MoverState, ToldState, NoMover, Notice
    <2> QED
      BY <1>2, <1>3, <2>1, <2>2 DEF LogInit, LogShapes
  <1>5. LinesOK
    <2>1. (0 + 0) % QueueSize = 0
      BY <1>1
    <2> QED
      BY <1>2, <2>1 DEF LinesOK, Lines
  <1>6. BoundOK /\ FreshOK /\ LinesCounted /\ DropsCounted /\ OwnerOK /\ MirrorOK
    BY <1>1, <1>2, <1>3 DEF BoundOK, FreshOK, LinesCounted, DropsCounted, OwnerOK, MirrorOK, InHand
  <1> QED
    BY <1>4, <1>5, <1>6 DEF LogInv

\* What the provers need of the shapes.
LEMMA LogNumbers ==
    ASSUME LogInv
    PROVE  /\ QueueSize \in Nat \ {0} /\ HistorySize \in Nat \ {0} /\ MaxLines \in Nat
           /\ log \in LogState /\ mover \in MoverState /\ told_of \in ToldState
           /\ log.count \in 0 .. QueueSize /\ log.enqueued \in Nat
           /\ log.dropped \in Nat /\ log.dropped_total \in Nat
           /\ mover.dropped \in Nat /\ mover.line \in 0 .. Notice
           /\ told_of.moved \in SUBSET Nat /\ told_of.announced \in Nat
           /\ told_of.cleared \in Nat /\ told_of.forgotten \in Nat
           /\ IsFiniteSet(told_of.moved) /\ Cardinality(told_of.moved) \in Nat
           /\ IsFiniteSet(writing) /\ Cardinality(writing) \in Nat
           /\ log.count <= log.enqueued /\ Before \in Nat /\ log.enqueued <= MaxLines
  <1>1. QueueSize \in Nat \ {0} /\ HistorySize \in Nat \ {0} /\ MaxLines \in Nat
    BY LogAssumption
  <1>2. log \in LogState /\ mover \in MoverState /\ told_of \in ToldState
    BY DEF LogInv, LogShapes
  <1>3. /\ log.count \in 0 .. QueueSize /\ log.enqueued \in Nat
        /\ log.dropped \in Nat /\ log.dropped_total \in Nat
        /\ mover.dropped \in Nat /\ mover.line \in 0 .. Notice
    BY <1>2 DEF LogState, MoverState
  <1>4. /\ told_of.moved \in SUBSET Nat /\ told_of.announced \in Nat
        /\ told_of.cleared \in Nat /\ told_of.forgotten \in Nat
    BY <1>2 DEF ToldState
  <1>5. /\ IsFiniteSet(told_of.moved) /\ Cardinality(told_of.moved) \in Nat
        /\ IsFiniteSet(writing) /\ Cardinality(writing) \in Nat
    BY FS_CardinalityType DEF LogInv, LogShapes
  <1>6. log.count <= log.enqueued
    BY <1>3, <1>4, <1>5 DEF LogInv, LinesCounted
  <1>7. Before \in Nat /\ log.enqueued <= MaxLines
    BY <1>1, <1>3, <1>5, <1>6 DEF Before, LogInv, BoundOK
  <1> QED
    BY <1>1, <1>2, <1>3, <1>4, <1>5, <1>6, <1>7

LEMMA LogWriterStep ==
    ASSUME LogInv, NEW w \in Writers, vlog_begins(w) \/ vlog_enqueues(w)
    PROVE  LogInv'
  <1> USE LogNumbers
  <1>1. CASE vlog_begins(w)
    <2>1. /\ w \notin writing /\ log.enqueued + Cardinality(writing) < MaxLines
          /\ writing' = writing \cup {w} /\ UNCHANGED <<log, mover, owner, told_of>>
      BY <1>1 DEF vlog_begins
    <2>2. IsFiniteSet(writing') /\ Cardinality(writing') = Cardinality(writing) + 1
      BY <2>1, FS_AddElement
    <2>3. LogShapes'
      BY <2>1, <2>2 DEF LogInv, LogShapes
    <2>4. BoundOK'
      BY <2>1, <2>2 DEF BoundOK
    <2> QED
      BY <2>1, <2>3, <2>4 DEF LogInv, LinesOK, FreshOK, InHand, Before, LinesCounted, DropsCounted,
         OwnerOK, MirrorOK
  <1>2. CASE vlog_enqueues(w)
    <2>16. PICK l : l = made_room(log)
      OBVIOUS
    <2>1. /\ w \in writing /\ writing' = writing \ {w} /\ UNCHANGED <<mover, owner, told_of>>
          /\ log' = [l EXCEPT !.ring[l.tail] = l.enqueued + 1, !.tail = (@ + 1) % QueueSize,
                              !.count = @ + 1, !.enqueued = @ + 1]
      BY <1>2, <2>16 DEF vlog_enqueues
    <2>2. IsFiniteSet(writing') /\ Cardinality(writing') = Cardinality(writing) - 1
      BY <2>1, FS_RemoveElement
    <2>3. Cardinality(writing) >= 1
      BY <2>1, FS_EmptySet
    <2>4. log.enqueued + 1 <= MaxLines
      BY <2>3 DEF LogInv, BoundOK
    <2>5. /\ l \in LogState /\ Lines(l.ring, l.head, l.tail, l.count, l.enqueued)
          /\ l.count < QueueSize /\ l.enqueued = log.enqueued
          /\ l.history = log.history /\ l.started = log.started
          /\ l.enqueued - l.count >= Before
          /\ l.count + l.dropped_total = log.count + log.dropped_total
          /\ l.dropped_total - l.dropped = log.dropped_total - log.dropped
      <3>1. CASE log.count < QueueSize
        BY <2>16, <3>1 DEF made_room, LogInv, LinesOK, Before
      <3>2. CASE ~(log.count < QueueSize)
        <4>1. log.count = QueueSize
          BY <3>2
        <4>2. l = [log EXCEPT !.head = (@ + 1) % QueueSize, !.count = @ - 1,
                              !.dropped = @ + 1, !.dropped_total = @ + 1]
          BY <2>16, <3>2 DEF made_room
        <4>3. /\ Lines(log.ring, (log.head + 1) % QueueSize, log.tail, log.count - 1, log.enqueued)
              /\ (log.head + 1) % QueueSize \in 0 .. QueueSize - 1
          <5>1. /\ log.head \in 0 .. QueueSize - 1 /\ log.count \in 1 .. QueueSize
                /\ Lines(log.ring, log.head, log.tail, log.count, log.enqueued)
            <6>1. QueueSize \in 1 .. QueueSize
              BY LogAssumption
            <6> QED
              BY <4>1, <6>1 DEF LogState, LogInv, LinesOK
          <5>2. SameElsewhere(log.ring, log.ring, log.head)
            BY DEF SameElsewhere
          <5> QED
            BY <5>1, <5>2, LinesAdvance
        <4>4. /\ l.ring = log.ring /\ l.head = (log.head + 1) % QueueSize /\ l.tail = log.tail
              /\ l.count = log.count - 1 /\ l.enqueued = log.enqueued /\ l.dropped = log.dropped + 1
              /\ l.dropped_total = log.dropped_total + 1
              /\ l.history = log.history /\ l.started = log.started
          BY <4>2 DEF LogState
        <4>5. l \in LogState
          <5>1. log.count - 1 \in 0 .. QueueSize /\ log.dropped + 1 \in Nat /\ log.dropped_total + 1 \in Nat
            BY <4>1
          <5> QED
            BY <4>2, <4>3, <5>1 DEF LogState
        <4> QED
          BY <4>1, <4>3, <4>4, <4>5 DEF Before
      <3> QED
        BY <3>1, <3>2
    <2>6. /\ l.ring \in [0 .. QueueSize - 1 -> 0 .. MaxLines] /\ l.head \in 0 .. QueueSize - 1
          /\ l.tail \in 0 .. QueueSize - 1 /\ l.count \in 0 .. QueueSize - 1 /\ l.enqueued \in Nat
          /\ l.dropped \in Nat /\ l.dropped_total \in Nat
      <3>1. /\ l.ring \in [0 .. QueueSize - 1 -> 0 .. MaxLines] /\ l.head \in 0 .. QueueSize - 1
            /\ l.tail \in 0 .. QueueSize - 1 /\ l.count \in 0 .. QueueSize /\ l.enqueued \in Nat
            /\ l.dropped \in Nat /\ l.dropped_total \in Nat
        BY <2>5 DEF LogState
      <3>2. ASSUME NEW c \in 0 .. QueueSize, c < QueueSize PROVE c \in 0 .. QueueSize - 1
        BY <3>2, LogAssumption
      <3> QED
        BY <2>5, <3>1, <3>2
    <2>7. PICK n \in 0 .. QueueSize - 1, last \in Nat, lost \in Nat, total \in Nat :
             l.count = n /\ l.enqueued = last /\ l.dropped = lost /\ l.dropped_total = total
      BY <2>6
    <2>8. /\ log'.ring = [l.ring EXCEPT ![l.tail] = last + 1] /\ log'.head = l.head
          /\ log'.tail = (l.tail + 1) % QueueSize /\ log'.count = n + 1
          /\ log'.enqueued = last + 1 /\ log'.dropped = lost
          /\ log'.dropped_total = total /\ log'.history = l.history
          /\ log'.started = l.started
      BY <2>1, <2>5, <2>7 DEF LogState
    <2>9. /\ Lines([l.ring EXCEPT ![l.tail] = last + 1], l.head, (l.tail + 1) % QueueSize,
                   n + 1, last + 1)
          /\ (l.tail + 1) % QueueSize \in 0 .. QueueSize - 1
      BY <2>5, <2>6, <2>7, LinesPut
    <2>10. LinesOK'
      BY <2>8, <2>9 DEF LinesOK
    <2>11. LogShapes' /\ BoundOK'
      <3>1. last = log.enqueued /\ last + 1 \in 0 .. MaxLines /\ n + 1 \in 0 .. QueueSize /\ last + 1 \in Nat
        BY <2>4, <2>5, <2>7
      <3>2. [l.ring EXCEPT ![l.tail] = last + 1] \in [0 .. QueueSize - 1 -> 0 .. MaxLines]
        BY <2>6, <3>1
      <3>3. log' = [l EXCEPT !.ring = [l.ring EXCEPT ![l.tail] = last + 1],
                       !.tail = (l.tail + 1) % QueueSize,
                       !.count = n + 1, !.enqueued = last + 1]
        BY <2>1, <2>5, <2>7 DEF LogState
      <3>4. log' \in LogState
        BY <2>5, <2>9, <3>1, <3>2, <3>3 DEF LogState
      <3>5. BoundOK'
        BY <2>2, <2>4, <2>8, <3>1 DEF LogInv, BoundOK
      <3> QED
        BY <2>1, <2>2, <3>4, <3>5 DEF LogInv, LogShapes
    <2>12. Before' >= Before /\ Before' \in Nat
      <3>1. PICK old \in Nat : old = Before
        OBVIOUS
      <3>2. last - n >= old /\ Before' = (last + 1) - (n + 1)
        BY <2>5, <2>7, <2>8, <3>1 DEF Before
      <3> QED
        BY <2>7, <3>1, <3>2
    <2>13. FreshOK'
      <3>1. \A m \in told_of.moved : m \in Nat
        OBVIOUS
      <3>2. mover.line \in Nat
        BY DEF Notice
      <3> HIDE DEF Before
      <3> QED
        BY <2>1, <2>12, <3>1, <3>2 DEF LogInv, FreshOK, InHand
    <2>14. LinesCounted'
      <3>1. PICK hand \in 0 .. 1 : hand = IF InHand THEN 1 ELSE 0
        OBVIOUS
      <3>2. n + total = log.count + log.dropped_total /\ last = log.enqueued
        BY <2>5, <2>7
      <3>3. Cardinality(told_of.moved) + log.count + log.dropped_total + told_of.cleared + hand
               = log.enqueued
        BY <3>1 DEF LogInv, LinesCounted
      <3>4. Cardinality(told_of.moved) + (n + 1) + total + told_of.cleared + hand = last + 1
        BY <2>7, <3>2, <3>3
      <3> QED
        BY <2>1, <2>8, <3>1, <3>4 DEF LinesCounted, InHand
    <2>15. DropsCounted'
      <3>1. PICK hand \in Nat : hand = IF mover.at = "append" THEN mover.dropped ELSE 0
        OBVIOUS
      <3>2. total - lost = log.dropped_total - log.dropped
        BY <2>5, <2>7
      <3>3. told_of.announced + log.dropped + told_of.forgotten + hand = log.dropped_total
        BY <3>1 DEF LogInv, DropsCounted
      <3>4. told_of.announced + lost + told_of.forgotten + hand = total
        BY <2>7, <3>2, <3>3
      <3> QED
        BY <2>1, <2>8, <3>1, <3>4 DEF DropsCounted
    <2>17. OwnerOK' /\ MirrorOK'
      BY <2>1, <2>5, <2>8 DEF LogInv, OwnerOK, MirrorOK
    <2> QED
      BY <2>10, <2>11, <2>13, <2>14, <2>15, <2>17 DEF LogInv
  <1> QED
    BY <1>1, <1>2

\* The arithmetic of a line taken from the ring.
LEMMA LineTaken ==
    ASSUME NEW n \in Nat, NEW last \in Nat, NEW max \in Nat, 1 <= n, n <= last, last <= max
    PROVE  /\ last - n + 1 \in 1 .. max /\ last - n + 1 <= last - (n - 1)
           /\ \A m \in Nat : m <= last - n => m < last - n + 1
           /\ \A q \in Nat : n <= q => n - 1 \in 0 .. q
  OBVIOUS

LEMMA OneMore ==
    ASSUME NEW q \in Nat, NEW k \in 0 .. q, k < q PROVE k + 1 \in 0 .. q
  OBVIOUS

LEMMA NoticeIsNoLine ==
    ASSUME NEW line \in 1 .. MaxLines
    PROVE  line # Notice /\ line \in 0 .. Notice /\ line \in Nat
  BY LogAssumption DEF Notice

\* The worker's steps.
LEMMA LogMoverStep == ASSUME LogInv, Mover PROVE LogInv'
  <1> USE LogNumbers
  <1>1. CASE mover_takes
    <2>1. /\ mover.at = "top" /\ log.count > 0 /\ UNCHANGED <<owner, writing, told_of>>
          /\ mover' = [mover EXCEPT !.at = "append", !.line = log.ring[log.head]]
          /\ log' = [log EXCEPT !.ring[log.head] = 0, !.head = (@ + 1) % QueueSize, !.count = @ - 1]
      BY <1>1 DEF mover_takes
    <2>2. PICK n \in 1 .. QueueSize, last \in 0 .. MaxLines :
             /\ n = log.count /\ last = log.enqueued
             /\ n \in Nat /\ last \in Nat /\ 1 <= n /\ n <= last /\ last <= MaxLines /\ n <= QueueSize
      BY <2>1
    <2>3. /\ log.ring \in [0 .. QueueSize - 1 -> 0 .. MaxLines] /\ log.head \in 0 .. QueueSize - 1
          /\ log.tail \in 0 .. QueueSize - 1
      BY DEF LogState
    <2>4. PICK other \in [0 .. QueueSize - 1 -> 0 .. MaxLines] : other = [log.ring EXCEPT ![log.head] = 0]
      <3>1. 0 \in 0 .. MaxLines
        OBVIOUS
      <3> QED
        BY <2>3, <3>1
    <2>5. /\ Lines(other, (log.head + 1) % QueueSize, log.tail, n - 1, last)
          /\ (log.head + 1) % QueueSize \in 0 .. QueueSize - 1
          /\ log.ring[log.head] = last - n + 1
      <3>1. Lines(log.ring, log.head, log.tail, n, last)
        BY <2>2 DEF LogInv, LinesOK
      <3>2. SameElsewhere(log.ring, other, log.head)
        BY <2>3, <2>4 DEF SameElsewhere
      <3>3. PICK head \in 0 .. QueueSize - 1 : head = log.head
        BY <2>3
      <3>4. PICK ring, tail : ring = log.ring /\ tail = log.tail
        OBVIOUS
      <3>5. Lines(ring, head, tail, n, last) /\ SameElsewhere(ring, other, head) /\ last \in Nat
        BY <2>2, <3>1, <3>2, <3>3, <3>4
      <3>6. /\ Lines(other, (head + 1) % QueueSize, tail, n - 1, last)
            /\ (head + 1) % QueueSize \in 0 .. QueueSize - 1
            /\ ring[head] = last - n + 1
        BY ONLY <3>5, LinesAdvance, n \in 1 .. QueueSize, head \in 0 .. QueueSize - 1
      <3> QED
        BY <3>3, <3>4, <3>6
    <2>6. /\ log'.ring = other /\ log'.head = (log.head + 1) % QueueSize /\ log'.tail = log.tail
          /\ log'.count = n - 1 /\ log'.enqueued = last /\ log'.dropped = log.dropped
          /\ log'.dropped_total = log.dropped_total /\ log'.started = log.started
          /\ log'.history = log.history
      BY <2>1, <2>2, <2>4 DEF LogState
    <2>7. PICK line \in 1 .. MaxLines : line = log.ring[log.head] /\ line = last - n + 1
      <3>1. last - n + 1 \in 1 .. MaxLines
        BY <2>2, LineTaken
      <3> QED
        BY <2>5, <3>1
    <2>8. line # Notice /\ line \in 0 .. Notice
      BY NoticeIsNoLine
    <2>9. mover' \in MoverState /\ mover'.at = "append" /\ mover'.line = line /\ mover'.dropped = 0
      <3>1. mover.dropped = 0
        BY <2>1 DEF LogInv, FreshOK
      <3> QED
        BY <2>1, <2>7, <2>8, <3>1 DEF MoverState
    <2>10. LogShapes'
      <3>1. log' = [log EXCEPT !.ring = other, !.head = (log.head + 1) % QueueSize, !.count = n - 1]
        BY <2>1, <2>2, <2>4 DEF LogState
      <3>2. n - 1 \in 0 .. QueueSize
        BY <2>2, LineTaken
      <3>3. log' \in LogState
        BY <2>4, <2>5, <3>1, <3>2 DEF LogState
      <3> QED
        BY <2>1, <2>9, <3>3 DEF LogInv, LogShapes
    <2>11. LinesOK' /\ BoundOK' /\ OwnerOK' /\ MirrorOK'
      BY <2>1, <2>2, <2>5, <2>6, <2>9 DEF LogInv, LinesOK, BoundOK, OwnerOK, MirrorOK
    <2>12. InHand' /\ ~InHand
      BY <2>1, <2>8, <2>9 DEF InHand, Notice
    <2>13. FreshOK'
      <3>1. \A m \in told_of.moved : m \in Nat /\ m <= last - n
        BY <2>2, <2>12 DEF LogInv, FreshOK, Before
      <3>2. \A m \in told_of.moved : m < line
        BY ONLY <2>2, <2>7, <3>1, LineTaken, LogAssumption, SMTT(30)
      <3>3. line <= last - (n - 1)
        BY <2>2, <2>7, LineTaken
      <3> QED
        BY <2>1, <2>6, <2>9, <2>12, <3>2, <3>3 DEF FreshOK, Before
    <2>14. LinesCounted'
      <3>1. Cardinality(told_of.moved) + n + log.dropped_total + told_of.cleared + 0 = last
        BY <2>2, <2>12 DEF LogInv, LinesCounted
      <3>2. PICK a, b, c \in Nat :
               a = Cardinality(told_of.moved) /\ b = log.dropped_total /\ c = told_of.cleared
        OBVIOUS
      <3>3. a + n + b + c + 0 = last
        BY <3>1, <3>2
      <3>4. a + (n - 1) + b + c + 1 = last
        BY ONLY <3>3, a \in Nat, b \in Nat, c \in Nat, n \in Nat, last \in Nat
      <3> QED
        BY <2>1, <2>6, <2>12, <3>2, <3>4 DEF LinesCounted
    <2>15. DropsCounted'
      BY <2>1, <2>6, <2>9 DEF LogInv, DropsCounted
    <2> QED
      BY <2>10, <2>11, <2>13, <2>14, <2>15 DEF LogInv
  <1>2. CASE mover_takes_dropped
    <2>1. /\ mover.at = "top" /\ UNCHANGED <<owner, writing, told_of>>
          /\ mover' = [mover EXCEPT !.at = "append", !.line = Notice, !.dropped = log.dropped]
          /\ log' = [log EXCEPT !.dropped = 0]
      BY <1>2 DEF mover_takes_dropped
    <2>2. Notice \in 0 .. Notice
      BY DEF Notice
    <2>3. /\ mover' \in MoverState /\ mover'.at = "append" /\ mover'.line = Notice
          /\ mover'.dropped = log.dropped
      BY <2>1, <2>2 DEF MoverState
    <2>4. /\ log' \in LogState /\ log'.dropped = 0 /\ log'.ring = log.ring /\ log'.head = log.head
          /\ log'.tail = log.tail /\ log'.count = log.count /\ log'.enqueued = log.enqueued
          /\ log'.dropped_total = log.dropped_total /\ log'.started = log.started
      BY <2>1 DEF LogState
    <2>5. ~InHand' /\ ~InHand /\ Before' = Before
      BY <2>1, <2>3, <2>4 DEF InHand, Before, Notice
    <2>6. LogShapes' /\ LinesOK' /\ BoundOK' /\ OwnerOK' /\ MirrorOK'
      BY <2>1, <2>3, <2>4 DEF LogInv, LogShapes, LinesOK, BoundOK, OwnerOK, MirrorOK
    <2>7. FreshOK' /\ LinesCounted'
      BY <2>1, <2>3, <2>4, <2>5 DEF LogInv, FreshOK, LinesCounted
    <2>8. DropsCounted'
      BY <2>1, <2>3, <2>4 DEF LogInv, DropsCounted
    <2> QED
      BY <2>6, <2>7, <2>8 DEF LogInv
  <1>3. CASE mover_leaves
    <2>1. /\ mover.at = "top" /\ UNCHANGED <<log, owner, writing, told_of>>
          /\ mover' = [mover EXCEPT !.at = "exited"]
      BY <1>3 DEF mover_leaves
    <2>2. mover' \in MoverState /\ mover'.at = "exited" /\ mover'.dropped = mover.dropped
      BY <2>1 DEF MoverState
    <2>3. ~InHand' /\ ~InHand /\ Before' = Before
      BY <2>1, <2>2 DEF InHand, Before
    <2>4. LogShapes' /\ LinesOK' /\ BoundOK' /\ OwnerOK' /\ MirrorOK'
      BY <2>1, <2>2 DEF LogInv, LogShapes, LinesOK, BoundOK, OwnerOK, MirrorOK
    <2>5. FreshOK' /\ LinesCounted' /\ DropsCounted'
      BY <2>1, <2>2, <2>3 DEF LogInv, FreshOK, LinesCounted, DropsCounted
    <2> QED
      BY <2>4, <2>5 DEF LogInv
  <1>4. CASE mover_appends
    <2>1. /\ mover.at = "append" /\ UNCHANGED <<owner, writing>>
          /\ log' = appended(log, mover.line) /\ mover' = [mover EXCEPT !.at = "mirror"]
          /\ told_of' = IF mover.line = Notice THEN [told_of EXCEPT !.announced = @ + mover.dropped]
                        ELSE [told_of EXCEPT !.moved = @ \cup {mover.line}]
      BY <1>4 DEF mover_appends
    <2>2. /\ mover' \in MoverState /\ mover'.at = "mirror" /\ mover'.line = mover.line
      BY <2>1 DEF MoverState
    <2>3. /\ log' \in LogState /\ log'.ring = log.ring /\ log'.head = log.head
          /\ log'.tail = log.tail /\ log'.count = log.count /\ log'.enqueued = log.enqueued
          /\ log'.dropped_total = log.dropped_total /\ log'.started = log.started
          /\ log'.dropped = log.dropped
          /\ \E i \in 0 .. HistorySize - 1 : log'.history[i] = mover.line
      <3>1. /\ log.history \in [0 .. HistorySize - 1 -> 0 .. Notice]
            /\ log.history_head \in 0 .. HistorySize - 1 /\ log.history_count \in 0 .. HistorySize
        BY DEF LogState
      <3>2. CASE log.history_count < HistorySize
        <4>1. PICK at \in 0 .. HistorySize - 1 : at = (log.history_head + log.history_count) % HistorySize
          BY <3>1, WrapsSum
        <4>2. PICK h \in [0 .. HistorySize - 1 -> 0 .. Notice] : h = [log.history EXCEPT ![at] = mover.line]
          BY <3>1
        <4>3. PICK n \in 0 .. HistorySize : n = log.history_count + 1
          <5>1. PICK k \in 0 .. HistorySize : k = log.history_count /\ k < HistorySize
            BY <3>1, <3>2
          <5>2. k + 1 \in 0 .. HistorySize
            BY <5>1, OneMore
          <5> QED
            BY <5>1, <5>2
        <4>4. log' = [log EXCEPT !.history = h, !.history_count = n]
          BY <2>1, <3>2, <4>1, <4>2, <4>3 DEF appended, LogState
        <4>5. h[at] = mover.line
          BY <3>1, <4>2
        <4> QED
          BY <4>4, <4>5 DEF LogState
      <3>3. CASE ~(log.history_count < HistorySize)
        <4>1. PICK at \in 0 .. HistorySize - 1 : at = log.history_head
          BY <3>1
        <4>2. PICK h \in [0 .. HistorySize - 1 -> 0 .. Notice] : h = [log.history EXCEPT ![at] = mover.line]
          BY <3>1
        <4>3. PICK n \in 0 .. HistorySize - 1 : n = (at + 1) % HistorySize
          <5>1. 1 \in 0 .. HistorySize
            OBVIOUS
          <5> QED
            BY <4>1, <5>1, WrapsSum
        <4>4. log' = [log EXCEPT !.history = h, !.history_head = n]
          BY <2>1, <3>3, <4>1, <4>2, <4>3 DEF appended, LogState
        <4>5. h[at] = mover.line
          BY <3>1, <4>2
        <4> QED
          BY <4>4, <4>5 DEF LogState
      <3> QED
        BY <3>2, <3>3
    <2>4. ~InHand' /\ Before' = Before
      BY <2>2, <2>3 DEF InHand, Before
    <2>5. LinesOK' /\ BoundOK' /\ OwnerOK' /\ MirrorOK'
      BY <2>1, <2>2, <2>3 DEF LogInv, LinesOK, BoundOK, OwnerOK, MirrorOK
    <2>6. CASE mover.line = Notice
      <3>1. ~InHand
        BY <2>6 DEF InHand
      <3>2. /\ told_of' \in ToldState /\ told_of'.moved = told_of.moved
            /\ told_of'.announced = told_of.announced + mover.dropped
            /\ told_of'.cleared = told_of.cleared /\ told_of'.forgotten = told_of.forgotten
        BY <2>1, <2>6 DEF ToldState
      <3>3. LogShapes'
        BY <2>1, <2>2, <2>3, <3>2 DEF LogInv, LogShapes
      <3>4. FreshOK' /\ LinesCounted'
        BY <2>2, <2>3, <2>4, <3>1, <3>2 DEF LogInv, FreshOK, LinesCounted
      <3>5. DropsCounted'
        <4>1. told_of.announced + log.dropped + told_of.forgotten + mover.dropped = log.dropped_total
          BY <2>1 DEF LogInv, DropsCounted
        <4>2. (told_of.announced + mover.dropped) + log.dropped + told_of.forgotten + 0 = log.dropped_total
          BY <4>1
        <4> QED
          BY <2>2, <2>3, <3>2, <4>2 DEF DropsCounted
      <3> QED
        BY <2>5, <3>3, <3>4, <3>5 DEF LogInv
    <2>7. CASE mover.line # Notice
      <3>1. InHand /\ mover.line \in Nat
        BY <2>1, <2>7 DEF InHand, Notice
      <3>2. /\ told_of' \in ToldState /\ told_of'.moved = told_of.moved \cup {mover.line}
            /\ told_of'.announced = told_of.announced
            /\ told_of'.cleared = told_of.cleared /\ told_of'.forgotten = told_of.forgotten
        BY <2>1, <2>7, <3>1 DEF ToldState
      <3>3. mover.line <= Before /\ \A m \in told_of.moved : m < mover.line
        BY <3>1 DEF LogInv, FreshOK
      <3>4. mover.line \notin told_of.moved
        BY <3>1, <3>3
      <3>5. IsFiniteSet(told_of'.moved) /\ Cardinality(told_of'.moved) = Cardinality(told_of.moved) + 1
        BY <3>2, <3>4, FS_AddElement
      <3>6. LogShapes'
        BY <2>1, <2>2, <2>3, <3>2, <3>5 DEF LogInv, LogShapes
      <3>7. FreshOK'
        <4>1. \A m \in told_of.moved : m \in Nat
          OBVIOUS
        <4>2. \A m \in told_of'.moved : m <= Before
          BY <3>1, <3>2, <3>3, <4>1
        <4> QED
          BY <2>2, <2>4, <4>2 DEF FreshOK
      <3>8. LinesCounted'
        <4>1. Cardinality(told_of.moved) + log.count + log.dropped_total + told_of.cleared + 1
                 = log.enqueued
          BY <3>1 DEF LogInv, LinesCounted
        <4>2. (Cardinality(told_of.moved) + 1) + log.count + log.dropped_total + told_of.cleared + 0
                 = log.enqueued
          BY <4>1
        <4> QED
          BY <2>3, <2>4, <3>2, <3>5, <4>2 DEF LinesCounted
      <3>9. DropsCounted'
        <4>1. mover.dropped = 0
          BY <3>1 DEF LogInv, FreshOK
        <4> QED
          BY <2>1, <2>2, <2>3, <3>2, <4>1 DEF LogInv, DropsCounted
      <3> QED
        BY <2>5, <3>6, <3>7, <3>8, <3>9 DEF LogInv
    <2> QED
      BY <2>6, <2>7
  <1>5. CASE mover_gives_up
    <2>1. /\ mover.at = "append" /\ mover.line = Notice /\ UNCHANGED <<log, owner, writing>>
          /\ mover' = [NoMover EXCEPT !.at = "top"]
          /\ told_of' = [told_of EXCEPT !.forgotten = @ + mover.dropped]
      BY <1>5 DEF mover_gives_up
    <2>2. mover' \in MoverState /\ mover'.at = "top" /\ mover'.dropped = 0
      BY <2>1 DEF MoverState, NoMover, Notice
    <2>3. /\ told_of' \in ToldState /\ told_of'.moved = told_of.moved
          /\ told_of'.announced = told_of.announced /\ told_of'.cleared = told_of.cleared
          /\ told_of'.forgotten = told_of.forgotten + mover.dropped
      BY <2>1 DEF ToldState
    <2>4. ~InHand' /\ ~InHand /\ Before' = Before
      BY <2>1, <2>2 DEF InHand, Before
    <2>5. LogShapes' /\ LinesOK' /\ BoundOK' /\ OwnerOK' /\ MirrorOK'
      BY <2>1, <2>2, <2>3 DEF LogInv, LogShapes, LinesOK, BoundOK, OwnerOK, MirrorOK
    <2>6. FreshOK' /\ LinesCounted'
      BY <2>1, <2>2, <2>3, <2>4 DEF LogInv, FreshOK, LinesCounted
    <2>7. DropsCounted'
      <3>1. told_of.announced + log.dropped + told_of.forgotten + mover.dropped = log.dropped_total
        BY <2>1 DEF LogInv, DropsCounted
      <3>2. told_of.announced + log.dropped + (told_of.forgotten + mover.dropped) + 0 = log.dropped_total
        BY <3>1
      <3> QED
        BY <2>1, <2>2, <2>3, <3>2 DEF DropsCounted
    <2> QED
      BY <2>5, <2>6, <2>7 DEF LogInv
  <1>6. CASE mover_mirrors
    <2>1. /\ mover.at = "mirror" /\ UNCHANGED <<owner, writing, told_of>>
          /\ log' = [log EXCEPT !.processed = @ + 1] /\ mover' = [NoMover EXCEPT !.at = "top"]
      BY <1>6 DEF mover_mirrors
    <2>2. mover' \in MoverState /\ mover'.at = "top" /\ mover'.dropped = 0
      BY <2>1 DEF MoverState, NoMover, Notice
    <2>3. /\ log' \in LogState /\ log'.dropped = log.dropped /\ log'.ring = log.ring
          /\ log'.head = log.head /\ log'.tail = log.tail /\ log'.count = log.count
          /\ log'.enqueued = log.enqueued /\ log'.dropped_total = log.dropped_total
          /\ log'.started = log.started
      <3>1. PICK n \in Nat : n = log.processed
        BY DEF LogState
      <3>2. n + 1 \in Nat
        OBVIOUS
      <3>3. log' = [log EXCEPT !.processed = n + 1]
        BY <2>1, <3>1
      <3> QED
        BY <3>2, <3>3 DEF LogState
    <2>4. ~InHand' /\ ~InHand /\ Before' = Before
      BY <2>1, <2>2, <2>3 DEF InHand, Before
    <2>5. LogShapes' /\ LinesOK' /\ BoundOK' /\ OwnerOK' /\ MirrorOK'
      BY <2>1, <2>2, <2>3 DEF LogInv, LogShapes, LinesOK, BoundOK, OwnerOK, MirrorOK
    <2>6. FreshOK' /\ LinesCounted' /\ DropsCounted'
      BY <2>1, <2>2, <2>3, <2>4 DEF LogInv, FreshOK, LinesCounted, DropsCounted
    <2> QED
      BY <2>5, <2>6 DEF LogInv
  <1> QED
    BY <1>1, <1>2, <1>3, <1>4, <1>5, <1>6 DEF Mover

\* The steps of log_runtime_init and log_runtime_shutdown.
LEMMA LogOwnerStep ==
    ASSUME LogInv, log_init \/ log_init_ends \/ log_shutdown \/ log_shutdown_ends
    PROVE  LogInv'
  <1> USE LogNumbers
  <1>1. CASE log_init
    <2>1. /\ owner.at = "idle" /\ ~log.started /\ log' = [log EXCEPT !.stop = FALSE]
          /\ UNCHANGED <<writing, told_of>>
          /\ \/ /\ owner' = [at |-> "starting", starts |-> owner.starts + 1]
                /\ mover' = [NoMover EXCEPT !.at = "top"]
             \/ owner' = [owner EXCEPT !.starts = @ + 1] /\ mover' = mover
      <3>1. owner.at = "idle" /\ ~log.started /\ log' = [log EXCEPT !.stop = FALSE]
        BY <1>1 DEF log_init
      <3>2. UNCHANGED <<writing, told_of>>
        BY <1>1 DEF log_init
      <3>3. \/ /\ owner' = [at |-> "starting", starts |-> owner.starts + 1]
               /\ mover' = [NoMover EXCEPT !.at = "top"]
            \/ owner' = [owner EXCEPT !.starts = @ + 1] /\ mover' = mover
        BY <1>1 DEF log_init
      <3> QED
        BY <3>1, <3>2, <3>3
    <2>2. mover.at = "none" /\ mover.dropped = 0
      BY <2>1 DEF LogInv, OwnerOK, FreshOK
    <2>3. /\ mover' \in MoverState /\ mover'.at \in {"none", "top"} /\ mover'.dropped = 0
          /\ mover'.at = "top" => owner'.at = "starting"
          /\ owner' \in [at : {"idle", "starting", "join"}, starts : Nat]
      <3>1. owner \in [at : {"idle", "starting", "join"}, starts : Nat]
        BY DEF LogInv, LogShapes
      <3> QED
        BY <2>1, <2>2, <3>1 DEF MoverState, NoMover, Notice
    <2>4. /\ log' \in LogState /\ log'.dropped = log.dropped /\ log'.ring = log.ring
          /\ log'.head = log.head /\ log'.tail = log.tail /\ log'.count = log.count
          /\ log'.enqueued = log.enqueued /\ log'.dropped_total = log.dropped_total
          /\ log'.started = log.started
      BY <2>1 DEF LogState
    <2>5. ~InHand' /\ ~InHand /\ Before' = Before
      BY <2>2, <2>3, <2>4 DEF InHand, Before
    <2>6. LogShapes' /\ LinesOK' /\ BoundOK' /\ OwnerOK' /\ MirrorOK'
      BY <2>1, <2>3, <2>4 DEF LogInv, LogShapes, LinesOK, BoundOK, OwnerOK, MirrorOK
    <2>7. FreshOK' /\ LinesCounted' /\ DropsCounted'
      BY <2>1, <2>2, <2>3, <2>4, <2>5 DEF LogInv, FreshOK, LinesCounted, DropsCounted
    <2> QED
      BY <2>6, <2>7 DEF LogInv
  <1>2. CASE log_init_ends \/ log_shutdown
    <2>1. /\ UNCHANGED <<mover, writing, told_of>>
          /\ owner' \in [at : {"idle", "starting", "join"}, starts : Nat]
          /\ log' \in LogState /\ log'.dropped = log.dropped /\ log'.ring = log.ring
          /\ log'.head = log.head /\ log'.tail = log.tail /\ log'.count = log.count
          /\ log'.enqueued = log.enqueued /\ log'.dropped_total = log.dropped_total
          /\ log'.started /\ log'.history = log.history
      <3>1. owner \in [at : {"idle", "starting", "join"}, starts : Nat]
        BY DEF LogInv, LogShapes
      <3>2. CASE log_init_ends
        BY <3>1, <3>2 DEF log_init_ends, LogState
      <3>3. CASE log_shutdown
        BY <3>1, <3>3 DEF log_shutdown, LogState
      <3> QED
        BY <1>2, <3>2, <3>3
    <2>2. LogShapes' /\ LinesOK' /\ BoundOK' /\ OwnerOK' /\ MirrorOK'
      BY <2>1 DEF LogInv, LogShapes, LinesOK, BoundOK, OwnerOK, MirrorOK
    <2>3. FreshOK' /\ LinesCounted' /\ DropsCounted'
      BY <2>1 DEF LogInv, FreshOK, LinesCounted, DropsCounted, InHand, Before
    <2> QED
      BY <2>2, <2>3 DEF LogInv
  <1>3. CASE log_shutdown_ends
    <2>1. /\ mover.at = "exited" /\ owner' = [owner EXCEPT !.at = "idle"] /\ mover' = NoMover
          /\ told_of' = [told_of EXCEPT !.cleared = @ + log.count, !.forgotten = @ + log.dropped]
          /\ log' = [log EXCEPT !.ring = [i \in 0 .. QueueSize - 1 |-> 0], !.head = 0, !.tail = 0,
                                !.count = 0, !.dropped = 0, !.started = FALSE]
          /\ UNCHANGED writing
      BY <1>3 DEF log_shutdown_ends
    <2>2. mover' \in MoverState /\ mover'.at = "none" /\ mover'.dropped = 0
      BY <2>1 DEF MoverState, NoMover, Notice
    <2>3. /\ log' \in LogState /\ log'.dropped = 0 /\ log'.head = 0 /\ log'.tail = 0
          /\ log'.count = 0 /\ log'.enqueued = log.enqueued /\ log'.dropped_total = log.dropped_total
      <3>1. /\ [i \in 0 .. QueueSize - 1 |-> 0] \in [0 .. QueueSize - 1 -> 0 .. MaxLines]
            /\ 0 \in 0 .. QueueSize - 1 /\ 0 \in 0 .. QueueSize
        OBVIOUS
      <3> QED
        BY <2>1, <3>1 DEF LogState
    <2>4. /\ told_of' \in ToldState /\ told_of'.moved = told_of.moved
          /\ told_of'.announced = told_of.announced /\ told_of'.cleared = told_of.cleared + log.count
          /\ told_of'.forgotten = told_of.forgotten + log.dropped
      <3>1. told_of.cleared + log.count \in Nat /\ told_of.forgotten + log.dropped \in Nat
        OBVIOUS
      <3> QED
        BY <2>1, <3>1 DEF ToldState
    <2>5. ~InHand' /\ ~InHand
      BY <2>1, <2>2 DEF InHand
    <2>6. LogShapes'
      BY <2>1, <2>2, <2>3, <2>4 DEF LogInv, LogShapes
    <2>7. LinesOK'
      <3>1. (0 + 0) % QueueSize = 0
        OBVIOUS
      <3> QED
        BY <2>3, <3>1 DEF LinesOK, Lines
    <2>8. BoundOK' /\ OwnerOK' /\ MirrorOK'
      BY <2>1, <2>2, <2>3 DEF LogInv, BoundOK, OwnerOK, MirrorOK
    <2>9. FreshOK'
      <3>1. \A m \in told_of.moved : m \in Nat /\ m <= log.enqueued - log.count
        BY <2>5 DEF LogInv, FreshOK, Before
      <3>2. \A m \in told_of.moved : m <= log.enqueued - 0
        BY <3>1
      <3> QED
        BY <2>2, <2>3, <2>4, <2>5, <3>2 DEF FreshOK, Before
    <2>10. LinesCounted' /\ DropsCounted'
      <3>1. Cardinality(told_of.moved) + log.count + log.dropped_total + told_of.cleared + 0 = log.enqueued
        BY <2>5 DEF LogInv, LinesCounted
      <3>2. Cardinality(told_of.moved) + 0 + log.dropped_total + (told_of.cleared + log.count) + 0
               = log.enqueued
        BY <3>1
      <3>3. told_of.announced + log.dropped + told_of.forgotten + 0 = log.dropped_total
        BY <2>1 DEF LogInv, DropsCounted
      <3>4. told_of.announced + 0 + (told_of.forgotten + log.dropped) + 0 = log.dropped_total
        BY <3>3
      <3> QED
        BY <2>2, <2>3, <2>4, <2>5, <3>2, <3>4 DEF LinesCounted, DropsCounted
    <2> QED
      BY <2>6, <2>7, <2>8, <2>9, <2>10 DEF LogInv
  <1> QED
    BY <1>1, <1>2, <1>3

LEMMA LogPromises == LogInv => LogTypeOK /\ LogAccounts
  <1> SUFFICES ASSUME LogInv PROVE LogTypeOK /\ LogAccounts
    OBVIOUS
  <1> USE LogNumbers
  <1>1. log.dropped \in 0 .. MaxLines
    BY DEF LogInv, LinesCounted, DropsCounted
  <1>2. LogTypeOK
    BY <1>1 DEF LogTypeOK, LogInv, LogShapes, LogState, MoverState
  <1>3. LogAccounts
    BY DEF LogAccounts, LogInv, LinesOK, Lines, LinesCounted, DropsCounted, MirrorOK, InHand
  <1> QED
    BY <1>2, <1>3

\* The log accounts for every line: whatever the threads write and whenever
\* the log is started and stopped, the ring holds the last lines in their
\* order, each line is in one place or counted as lost, each drop is told of,
\* still to be told of or forgotten, and the line on its way to the socket
\* belongs to the history (log.c:217-286, 325-350, 398-433).
THEOREM LogCorrect == LogSpec => [](LogTypeOK /\ LogAccounts)
  <1>1. LogInit => LogInv
    BY LogStarts
  <1>2. LogInv /\ [LogNext]_LogVars => LogInv'
    <2> SUFFICES ASSUME LogInv, [LogNext]_LogVars PROVE LogInv'
      OBVIOUS
    <2>1. CASE LogNext
      BY <2>1, LogWriterStep, LogMoverStep, LogOwnerStep DEF LogNext
    <2>2. CASE UNCHANGED LogVars
      BY <2>2 DEF LogVars, LogInv, LogShapes, BoundOK, LinesOK, FreshOK, InHand, Before,
         LinesCounted, DropsCounted, OwnerOK, MirrorOK
    <2> QED
      BY <2>1, <2>2
  <1>3. LogInv => LogTypeOK /\ LogAccounts
    BY LogPromises
  <1> QED
    BY <1>1, <1>2, <1>3, PTL DEF LogSpec
=============================================================================
