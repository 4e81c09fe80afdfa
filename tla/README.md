# NX-Cast: a TLA+ verification project

NX-Cast turns a Nintendo Switch into a media renderer: DLNA, AirPlay (video by
URL and screen mirroring) and IPTV all drive one libmpv player. This project
models the parts of the program in which threads meet: who may play, how commands
reach the player and libmpv, how the player is started and shut down, how the
protocol services are started, isolated from each other and stopped, and what
each service does with its connections, sessions, queues and files. Everything is
translated from the C source under `src/source/`; `PROJECT.json` maps each
definition to its lines.

Run a check with `tlc -config MCMediaActor.cfg MCMediaActor`, a proof with
`tlapm MediaActor_proofs.tla` (and so for the other proof modules).

## 1. The system: inventory

| Component | Source | State it keeps | Operations |
|---|---|---|---|
| Media actor | `player/core/media_actor.c` | bounded queue, requests with reference counts, worker thread, flags running / stopping / accepting / dispatch, health | create, start, activate, submit (async, wait), quiesce, wait_idle, stop, destroy |
| Media ownership | `player/core/ownership.c` | the current lease (owner, token, generation), generation counter, transition mutex | claim, current, validate, release, reset |
| Player front end | `player/core/session.c` | media and snapshot cache, actor handle | submit a command, actor callbacks (initialize, validate, execute, pump, finalize), init, deinit |
| Media session | `app/protocol_media_session.c` | lifecycle of the claimed lease | one transition function over events |
| Protocol coordinator | `app/protocol_coordinator.c` | lifecycle, service states, media session, desired and applied resource mode, service and resource workers | start, tick, stop, media_begin / validate / wait_resources / release / abort, guards, observe |
| Application thread | `main.c` | frame loop, activation and shutdown phases | start, frame, shutdown |
| AirPlay receiver, server | `airplay/receiver.c`, `server.c` | stages started, listener, client slots, reverse connections | start, accept, serve, send in reverse, stop |
| AirPlay logical session | `airplay/protocol/logical_session.c` | connections and the sender sessions they belong to | open, observe, pair, reference, tear down, close |
| AirPlay mirroring | `airplay/media/mirror_runtime.c`, `airplay/mirror/`, `handlers.c` | runtime, bridges, command queue, worker, receiver threads, reorder window, clocks | SETUP, RECORD, TEARDOWN, stop, packets |
| AirPlay URL playback | `airplay/media/remote_video.c`, `remote_hls.c`, `integration.c` | owner, generation, lease, playlists awaited | play, rate, scrub, stop, action, takeover |
| Stream bridge | `airplay/media/stream_bridge.c` | byte ring, two locks, cancelled, eof | push, finish, read, cancel |
| mDNS | `airplay/discovery/` | responder thread, socket, name | announce, rename, suspend, stop |
| DLNA server | `protocol/dlna_control.c`, `http/`, `event_server.c`, `ssdp.c` | three threads and their sockets, subscriptions, dirty flags | start, serve, subscribe, notify, stop |
| DLNA actions | `dlna/control/` | transport state, URI, the request to go home | SOAP actions |
| IPTV | `iptv/` | sources on the card and in memory, catalogue, refresh worker | add, remove, refresh, rebuild, suspend, play |
| libmpv backend | `player/backend/libmpv.c` | flags about the media, startup gate, deferred unpause and seek, audio track | set media, play, pause, seek, stop, pump |
| Log | `log/` | bounded queue, worker, mirror socket | write, drain, shutdown |

How they interact. Protocol threads claim the media lease through the
coordinator and submit commands that carry it to the actor. The actor's worker
validates each command against the lease in force and executes it on the
backend. The frame loop on the main thread samples the player state, reports it
to the coordinator (`observe_player_state`) and ticks it (`tick`), which copies
the lease into the coordinator's media session and derives the desired resource
mode. AirPlay gives its lease back either directly or with a `RELEASE_LEASE`
command that the actor executes later.

What is hard. Four kinds of threads (main, actor, protocol, service workers)
share state under five locks, none of which is held across a call into the
backend: a command is validated and executed in two steps, the coordinator's
tick does not take the transition mutex, waiting submissions have deadlines and
race their completion, and shutdown must drain an actor that may not have been
activated. `PROJECT.json` lists the hazards at the lines where they bite and the
property that watches each.

What makes each part correct. Actor: no request is lost, freed twice or left
behind, reserved slots stay reserved, stop and drain mean what they say. Lease:
a replaced session cannot act on its successor, releases hit only their own
lease. Coordinator: exclusive resources change hands only through a release, a
stopped coordinator is clean, session and mode follow the lease. Resources: one
thread drives a service at a time, media that waited for its mode has the
receivers to itself, failed and superseded transitions are made good, stop
leaves nothing running. Application: the player is destroyed only when drained,
and shutdown ends. Services: a socket is closed once and by its owner, a bridge
is freed when its last user lets go, whoever waits for a thread is not waited for
by it, an older request does not undo a newer one, and what is reported (to a
subscriber, a control point, the user) is what happened.

## 2. The modules

### MediaActor

One action per critical section of `actor->mutex` or per callback made outside
it. `queue` is the ring buffer as a sequence of ids; `request[i]` has the
command, the reference count, the outcome (its `completion_status`, or *pending*)
and how often `request_free` was called. `worker` is the place of
`actor_worker_run`: *poll* is the top of the inner loop, *validate* and *execute*
the two calls of `actor_execute_request`, *pump* the event pump, *finish* the
finalizer. `waits[s]` is the request a submitter waits for; `WaitTimeout` is
possible at any time when the wait has a deadline. `DirectBegin`/`DirectEnd` are
a waiting submission from the worker thread itself. `drained` records that
`wait_idle` returned true to a caller that had quiesced. Rejected submissions
(queue full, not running, shutting down, no memory) change no state and have no
action. `MaxCommands` bounds the ids; the code's counter has 64 bits.

### PlayerSession (extends MediaActor)

Adds the lease and what the backend has open. A submission is two steps
(`PlayerSubmitCheck`, then `PlayerSubmitEnqueue` or `PlayerSubmitRefused`) because
the code validates the lease before the actor's lock; validation and execution
on the worker are two steps for the same reason. `media` is the lease whose
media is open, `served` the lease of the last command executed with one. The
n-th claim creates lease n, so "older" and "newer" are comparisons of numbers.

### PlayerShutdown (extends MediaActor)

Adds `main()`: boot, frames (activation on a frame that finds the backend
ready), leaving the loop at any frame, and the phases of the shutdown. The
protocols submit between the activation attempt and the end of
`protocol_coordinator_stop`.

### MediaCoordinator

The lease with its real generation counter (`Wrap` values, 2^32 in the code), the
transition mutex, the coordinator's session, `seen_active` and desired mode, and
per thread the place in `media_begin`, `media_release`, `tick` or `observe`, with
its locals. A thread's step takes at most one inner lock, so tick, the actor's
release and a claim interleave as they can in the code. The lease token is left
out (generations already tell leases apart), as are the guards.

### ResourceCoordinator

The same coordinator from the side of the services: the first start by one worker
per service (`worker[s]`), each later change of mode by the resource worker
(`rw`), and `start`, `tick` and `stop` on the main thread (`main`), each variable
holding the place of its thread and its locals. An action is one critical section
of the coordinator mutex with the thread's own work up to the next. The calls into the
services are outside it, and what they do is state of its own: `up[s]`, what start
and stop left of a service (*partial* is a failed start that still wants its stop),
`cancel`, AirPlay's `stop_requested`, and `net`, IPTV's background fetches
(*draining* after a quiesce that timed out). The coordinator decides on what was
reported (`services`, `stop_required`, `applied`, `transition`); the properties
compare that with `up` and `net`.

Claims, releases and the tick's sync enter as `set_desired_resource_mode` with any
mode: which claims and releases change it is MediaCoordinator's subject. The
call to `request_stop` comes after the mutex, hence `CallerRequestsStop`; `caller`
is one such thread at a time. At the head of each loop of the resource worker the
code takes the mutex three times; the model reads once, where the last decides.
Time is one bit: `transition.waiting` says that `resource_retry_due_ms` is to come.
Left out: `snapshot.airplay`, `revision` and the ages, which only the UI reads, and
the suspension of discovery.

### The AirPlay modules

**ByteStream** says what a bridge promises: bytes delivered once, in order, until
closed or cancelled. **StreamBridge** is the ring with its offsets and two locks;
`muxing` is the holder of `mux_mutex` with the writes it has still to make,
`reader` libmpv's demuxer. Its refinement mapping reads the ring from
`read_offset` on; `BridgeIsByteStream` is the abstract specification as a
property.

**MirrorControl** follows a SETUP, RECORD or TEARDOWN from the connection's thread
(`call`) into the runtime. The runtime mutex is dropped around the creation and
destruction of sockets, bridges and threads, so each such call is two or three
steps and `opening` is what keeps others out. A bridge is its reference count;
`Holders` counts who has it. `worker` is the command in hand, `threads` the
receivers and the bridge they push to, `lease` what the integration keeps. The
module is the build without `NXCAST_EXCLUSIVE_MEDIA_RESOURCES`. That macro adds the
wait that ResourceCoordinator models and, on the ERROR notice, a stop of the
runtime, a STOP to the player and the release of the lease
(`integration.c:516-528`), which are not modelled. Two merged steps are kept: what
`open_ends` and `audio_ends` do after the unlock (`mirror_runtime.c:850-857`,
`1032-1037`) is in the same step as the section before it, so a use of `mirror` or
`audio` there is not examined; and `mirror_records` reads and writes the lease
(`integration.c:600-603`, `609`) in one step. **MirrorMedia** is what the receiver threads do: sound
over UDP with its reorder window, pictures over TCP, timing. A picture's time may
go back, and is then dropped without waiting for a keyframe (`video.c:257`);
`source.orderly` records that it never did. **MirrorClock** maps
their times to one timeline.

**AirPlayServer** has slots, threads and the kernel's descriptors; a descriptor is
reused as soon as it is closed, and the serial of a socket, which the program
does not see, tells whether it is still the one that was meant. **LogicalSession**
is the registry over connections, one action per operation under its mutex.
**RemoteVideo** is one record per request in progress, walking through the blocks
of `remote->mutex`; generations, the lease and the playback references are as
in the code. **Discovery** is the composed receiver (its stages, each of which may
fail, and the order they are taken down in) with the mDNS responder thread.

### The DLNA, player and IPTV modules

**DlnaServer**: the HTTP, event and SSDP threads and the control thread that starts
and stops them; every atomic exchange of a socket is a step, descriptors are
reused, `version` counts the changes of a service and `marked` the version at its
last dirty mark: renderer events and new subscriptions mark, the SOAP actions and
positions change the state without a mark. **DlnaTransport**: one SOAP action
at a time against the actor's queue, with a waiter that gives up, a lease that
another protocol takes at will, and main's return home; `fate` records per action
its answer and what became of its command. **Libmpv**: `g` is the backend's
variables, `mpv` the external player, which takes commands in order and answers
with a queue of events; a load may be given to it at any time. MPV_EVENT_SHUTDOWN is
not modelled. **Iptv**: the card (`sources.tsv`, its backup, the seed
list, cached playlists) apart from the memory, three threads, and losses of power
between any two renames. A rename that returned is assumed to be durable: nothing
here claims that a replacement is atomic on the SD card itself, which
`plans/2026-10-04-review-fixes/plan.md:47` rules out. **Log**: the ring, its worker,
and where each line went.

No action is kept from a race the code allows. Where a property fails after one, a
history variable, which no guard reads, records that it happened, and the property
says so: `overlapped` (RemoteVideo: a play or takeover began beside another
request; the run `remote_stale`), `overtaken` (Libmpv: the last load was given to an
mpv not at rest; the run `autoplay_lost`), `raced` and `hasty` (Iptv: a save beside
a rebuild, a resumption before the worker had let go; section 6), `orderly`
(MirrorMedia) and `marked` (DlnaServer).

### The MC modules

`MCAirPlay`, `MCRenderer` and `MCEndings` each hold several components that share no
variables. The variable `part`, chosen once, says which component a behaviour
runs; the others stay in their initial state. The states add instead of
multiplying, and every property is checked on its component's behaviours as
if it were alone.

### The proof modules

`MediaActor_proofs`, `MediaCoordinator_proofs` and `ResourceCoordinator_proofs`
hold the theorems about the module they are named after; `AirPlay_proofs` those
about LogicalSession, Discovery, AirPlayServer and RemoteVideo; `Mirror_proofs`
those about MirrorMedia, MirrorClock and MirrorControl; `Endings_proofs` those
about PlayerShutdown, StreamBridge and Log; `Renderer_proofs` those about
DlnaServer and DlnaTransport; `Playback_proofs` those about PlayerSession, Iptv and
Libmpv (section 5).

## 3. The runs

| Run | Instance | Shows |
|---|---|---|
| `actor` | 2 submitters, 1 stopper, capacity 2 with 1 reserved, burst 1, 3 ids, a coalescible and a stop-class command; symmetry on submitters; 1.9 M states | TypeOK, RequestLifetime, ReservedSlotsKept, NoneStranded, DrainHolds, CoalescingKeepsOrder |
| `session_stale` | 2 protocols, 2 leases, open / stop / release of each, StopAny, 3 ids | **violation** of StaleCannotMutate |
| `shutdown_early` | main and one protocol, 4 ids | **violation** of ShutdownCompletes |
| `coordinator` | main (IPTV), one DLNA, one AirPlay thread, 3 calls, 3-bit generations starting at 6; 1.0 M states | TypeOK, StoppedIsClean, ExclusiveHandOver, Convergence |
| `resources` | three services, exclusive with parallel startup or shared with serial startup, 2 failures, 3 changes of mode or stops; 650 k states | TypeOK, OneDriver, StopLeavesNothing, ReceiversIsolated, ResourcesConverge |
| `resources_home` | the exclusive build | **violation** of HomeIsComplete |
| `resources_quiesce` | the exclusive build | **violation** of ReadyMeansQuiesced |
| `renderer` | session: 2 protocols, 2 leases, 3 ids, an open, a stop and a release of the older lease and an open of the newer; DLNA server: 1 service, 1 subscription, 3 descriptors; transport: 2 actions, 3 leases; libmpv: 3 commands, 2 audio bridges; IPTV: 2 sources, 2 user actions, 1 suspension, 1 loss of power; 1.9 M states | RendererTypeOK, TakeoverIsFinal, SuccessorMediaSafe, ReleaseSparesSuccessor, DlnaSocketsOwned, SubscribersCaughtUp, RefusedNeverPlays, ReportsWhatMpvDoes, SourcesKept |
| `autoplay_lost` | 3 commands, 2 audio bridges | **violation** of AutoplayHappens |
| `airplay` | mirror: 1 connection, 3 requests, 2 generations; server: 2 + 1 slots, 3 descriptors; URL playback: 2 sessions, 2 threads, 3 plays; logical: 2 connections, 2 Apple ids, 2 clients; media: window 4 of 8 numbers, 14 packets; discovery: 2 starts; clock: 3 times, RTP modulo 3; 950 k states | TypeOK, RefsBalanced, MirrorSettles, ServerSettles, RemoteSettles, SessionsSettle, StreamsWhole, DiscoverySettles, ClockMovesSmoothly |
| `endings` | actor by itself: 1 submitter, 2 stoppers, burst 2, 2 ids; shutdown: main and one protocol, 4 ids; bridge: ring of 3 bytes, 6 bytes; log: 2 writers, ring of 2, 6 lines, 2 starts; 390 k states | StopIsComplete, SubmissionsReturn, DetachOnlyWhenDrained, ActivatedShutdownCompletes, BridgeIsByteStream, CancelFreesAll, LogSettles |
| `remote_stale` | 2 sessions, 2 threads, overlapping plays | **violation** of StaleCannotStopNewer |

Why the bounds are enough. A request's life involves its submitter, the worker
and a stopper; coalescing needs a tail to replace and a command between, hence
three ids; one ordinary and one reserved slot make "full for ordinary commands"
and "full" different. A takeover needs two leases. Three calls from generation 6
of 8 cross the wrap (7, then 1) with a claim on each side, while leases in use
stay less than half the range apart, as the signed comparison requires and as
2^31 claims guarantee in practice. For the resources three changes are a claim,
its release and one more claim or a stop, and two failures are a failed step and
a failed retry, or two steps of one transition. The configurations are those the
build profiles produce: only `full-serial` starts serially, and it is not
exclusive. Restart after stop is part of the actor and
coordinator models.

Descriptors are fewer than the sockets ever opened, so they are reused. The ring of
the bridge wraps and is smaller than two packets, so a writer waits; the log's ring
overflows. Fourteen sound packets cross the wrap of eight numbers, with the window
half of them as in the code, where it is far less. One connection to the mirror
runtime already overlaps with main's stop, the worker and two receiver threads,
and a second request of the same connection finds what the first left; two
connections hold as well (2.4 M states, too long for the regular run). Two SOAP
actions are one whose command outlives its answer and one that meets it. A loss of
power needs one save before it and a start and a save after.

Deadlock is not checked in the three runs with several components, whose bounds
(`MaxRequests`, `MaxBytes`, `MaxActions` ...) end a behaviour, and where `main()`
really ends; the waits that could deadlock are properties there (WaitsEnd in
MirrorSettles, CancelFreesAll, LogSettles, ActivatedShutdownCompletes).

Fairness. In `endings`, the actor assumes that the worker thread and woken waiters
run and that main activates an actor whose backend became ready (it does so on
every frame). It assumes nothing about deadlines: a waiter without one must return
too. The shutdown assumes that `main()`'s shutdown sequence, the worker and the
protocols' waits go on, backend calls return, and deadlines pass; it does not
assume that the frame loop is left or that activation happens. `coordinator`
assumes that a call in progress goes on and that frames follow each other; nothing
makes a thread claim or release. `resources` assumes that frames follow each
other, that worker threads run, that a service's start and stop return and that
the retry time passes; nothing makes main start or stop the coordinator, or a
thread claim. Failures and changes cease because they are bounded, which is the
premise of ResourcesConverge. The bridge assumes that its threads run when they
hold a lock or were signalled; nobody has to read, write or cancel. The log
assumes that its worker runs and that a shutdown in progress goes on. The
`renderer` and `airplay` runs check safety only and assume no fairness.

### What the six violations show

* `session_stale`. `actor_execute_request` validates and executes without a
  lock; a claim in between lets the old session's command run under the new
  lease, against "A stale session cannot mutate the currently active session"
  (`docs/threading-design.md:59-60`). The positive counterpart holds: such a
  command cannot hit media the successor has opened (SuccessorMediaSafe), since
  the successor's own open is behind it in the same queue.
* `shutdown_early`. Leaving the frame loop before the backend is ready: StopAny
  is accepted, never dispatched (the actor was not activated), times out and
  stays in the queue; `player_wait_idle(UINT32_MAX)` then waits for ever
  (`main.c:2326`). Once activation was attempted shutdown completes
  (ActivatedShutdownCompletes).
* `resources_home`. A claim is released while the resource worker is quiescing
  for it, before any service was stopped. The worker sees that its target is stale and
  ends; desired and applied mode are both HOME and all services run, so no further
  transition is launched, and only a completed one resumes IPTV's fetches: they
  stay suspended at home. HomeServicesRun, the second half of the property, fails
  by another way: a tick reads AirPlay's status, the resource worker stops AirPlay
  and records it, the tick then writes RUNNING from what it read, and a return to
  home finds AirPlay running and does not start it.
* `resources_quiesce`. A failed transition leaves `applied_resource_mode` as it
  was. After an exclusive mode was applied, a return to home that fails (having
  resumed the fetches) leaves the old mode applied; the next claim for that mode
  finds it applied with matching services although its own quiesce timed out. `wait_resources`
  tests for ready before it tests for failed, and nothing retries the quiesce.
  The counterpart for the services holds (ReceiversIsolated): receivers the mode
  excludes are down.
* `remote_stale`. A `/play` that replaces an owner records itself under the mutex,
  then stops the previous owner without it (`remote_video.c:564-573`).
  `integration_remote_stop` acts on whatever lease is the latest, so if a third
  `/play` has claimed and loaded in between, its media is what stops, against "A
  stale runtime generation cannot stop or release a newer AirPlay playback
  generation" (`docs/AIRPLAY_PROTOCOL_COMPATIBILITY.md:36`). With one play at a
  time everything agrees in the end (RemoteSettles).
* `autoplay_lost`. A media is set while mpv is starting the last one, then played.
  START_FILE of the old file clears `g_load_pending`, so its END_FILE is not taken
  for that of a replaced file but for the current one's, and resets the startup
  gate with the play that waits for FILE_LOADED. The new file then stays paused,
  against the comment "Defer the unpause until FILE_LOADED so pause=yes cannot
  overwrite autoplay" (`libmpv.c:2125-2126`). A media set when mpv is at rest does
  play (ReportsWhatMpvDoes).

## 4. What the properties say

* **RequestLifetime** - references equal the parties that can still touch the
  request; freed exactly when the last lets go.
* **ReservedSlotsKept** - position-wise: an ordinary command is never beyond the
  ordinary capacity.
* **NoneStranded**, **SubmissionsReturn** - no accepted request is forgotten by a failed
  start or a stop, and no waiter hangs.
* **DrainHolds**, **DetachOnlyWhenDrained** - a reported drain is one, also when
  StopAny timed out.
* **StopIsComplete** - no stopper returns before the join.
* **CoalescingKeepsOrder** - a replaced command is replaced by its equal with
  nothing queued in between.
* **TakeoverIsFinal**, **SuccessorMediaSafe**, **ReleaseSparesSuccessor** - what a
  replaced session can no longer do.
* **ExclusiveHandOver**, **StoppedIsClean**, **Convergence** - the coordinator follows
  the lease although tick and the actor bypass the transition mutex.

* **OneDriver** - start workers, the resource worker and stop never call into one
  service at the same time, although no lock is held over the calls.
* **StopLeavesNothing** - a stop in the middle of a startup or transition, failed
  starts included, leaves no thread, service or suspension behind.
* **ReceiversIsolated** - what `wait_resources` promises to a claim, in terms of the
  services themselves and not of what is reported.
* **ResourcesConverge** - the last desired mode is applied in the end.

* **BridgeIsByteStream** - refinement: ring, offsets and locks implement ByteStream.
* **CancelFreesAll** - a cancelled bridge frees the writer that holds a lock, the
  finisher behind it and the reader.
* **LogSettles** - every line is moved, dropped and counted, or cleared; drops are
  announced; the shutdown ends.
* **RefsBalanced** - a bridge's count is exactly its holders, at every step.
* **MirrorSettles** - no receiver callback waits for room in a bridge that nobody
  will cancel, a promotion to video finds nothing loaded, and nothing of a dead
  generation - thread, reservation, transport, lease - is left behind.
* **ServerSettles**, **DlnaSocketsOwned** - no descriptor is used or closed when it
  may be somebody else's; nothing is open after stop, or after a start that failed
  half way.
* **RemoteSettles**, **SessionsSettle** - owner, lease, playlists, references and
  connections agree once the calls under way are over; for URL playback if no play
  and no takeover began beside another request.
* **StreamsWhole** - what the network does to sound never becomes disorder, an
  unmarked gap or a stall; a sender whose picture times do not go back gets no
  undecodable picture shown. After a time that goes back, pictures may lack their
  reference until the next keyframe.
* **DiscoverySettles** - the responder lives inside the life of the server, and the
  network knows the current name.
* **ClockMovesSmoothly** - corrections are bounded, sound moves forward.
* **RefusedNeverPlays** - the OPEN of a SetAVTransportURI does not *begin* once the
  action was refused. One that had begun when its action timed out does play.
* **SubscribersCaughtUp** - an event thread at rest has told everyone (or tried to) a
  state as new as that of the last renderer event and the last subscription. What a
  SOAP action or a position changed since is not promised.
* **ReportsWhatMpvDoes** - a settled backend says whether mpv has a file open and
  which sound track, whatever crossed; and, if the last load was given to an mpv at
  rest, whether it is paused, and does play what was asked to play last.
* **SourcesKept** - the user's list survives failures, losses of power between
  renames and the worker, as long as no save ran beside a rebuild.

Each property of a passing run has a mutant in `PROJECT.json`: a plausible slip in
one definition (they are next to the definition, named `mutant_...`) under which
TLC finds the property violated.

## 5. What is proved

`MediaActor_proofs` proves, for any sets of submitters and stoppers, any
capacity, reserve and burst, and any bound on the ids, every safety property the
runs check of the actor: `TypeCorrect`, `LifetimeCorrect`, `ReservedSlots`,
`NothingStranded`, `DrainIsFinal`, `StopComplete`, `CoalescingOrdered`. The only
assumption is `ConfigAssumption`: the configurations that `media_actor_create`
accepts.

The argument is one inductive invariant, built in layers:

1. `Inv1` = TypeOK and BurstOK (a command in hand is inside a burst, else the
   burst counter could exceed its bound);
2. `Inv2` adds the control: LifeOK (start, worker and stop together), ClosedOK (a
   worker that left its loop leaves an actor that refuses submissions), DrainOK,
   CurrentOK (`current_command_id` is set exactly while a command is in hand);
3. `Inv3` adds EmptyOK: without ClosedOK a submission could be accepted behind the
   last rejection;
4. `Inv4` adds QueueOK: ids in the queue are increasing and newer than the command
   in hand, so no id is held twice;
5. `Inv5` adds OutcomeOK, WaitsOK and RequestLifetime: pending exactly while the
   actor holds it, one waiter per request;
6. `Inv6` adds GapOK: behind the newest queued request only direct commands were
   accepted, which is why a coalesced command jumps over nothing.

`RequestSteps` lists what a step can do to the queue and the requests; the lemmas
on the upper layers are by cases on it.

### The player's leases and its shutdown

PlayerSession and PlayerShutdown extend MediaActor, so their first theorem is that
they implement it: every step of `SessionSpec` and of `ShutdownSpec` is a step of
the actor or leaves its variables alone (`SessionImplementsActor`,
`ShutdownImplementsActor`). All theorems of the actor then hold of both, and their
own invariants are proved on top of `Inv4` and `Inv5`.

* `SessionInv` adds to them that the lease in force is the last one handed out
  (CurrentLeaseOK) and that a command past its validation carries a lease at least
  as new as any whose command was executed or whose media is open (HandOK). HandOK
  is the point: a takeover may come between validation and execution, and without
  it nothing relates the command in hand to the media it will touch. From it follow
  `TakeoverFinal`, `SuccessorSafe` and `ReleaseSpares`, for any number of leases.
* `ShutdownInv` says who may still wait in each phase of `main()` (WaitersOK) and
  that nothing is queued or in hand once drained (DrainedOK). `DetachDrained` rests
  on it. PlayerShutdown assumes `MainAssumption`: main is a submitter and a stopper,
  and its StopAny is a command.

### The coordinator

* `MediaCoordinator_proofs`: `TypeCorrect`, `StopIsClean`, `HandOverExclusive`, for
  any set of threads and any `Wrap`. The invariant needs the place of every thread
  that holds the transition mutex (TransitionOK), what a claim in progress wants
  (WantOK), that what was checked under the mutex still holds at the claim
  (ClaimOK), and what a tick of a stopped coordinator has read (SyncOK).
* `ResourceCoordinator_proofs`: `TypeCorrect`, `ServiceHasOneDriver`,
  `StopIsComplete`, `ExclusiveIsIsolated`, for any bounds on failures and on changes
  of mode. PhaseOK ties main's place to the lifecycle, ThreadsOK keeps the resource
  worker and the service workers apart, DrivenOK and StoppingOK say that whatever
  is up has a stop to come, and ReportOK that a service reported STOPPED is down
  with no thread about to start it: the report is what `ready` looks at.
  The configurations are those of the code: none is both serial and exclusive.

### AirPlay

* `SessionsCorrect`: the reference counts are exact (CountsOK), one session per id
  and per Apple device (DistinctOK). Counting bound connections needs
  `IsFiniteSet(ConnectionIds)`.
* `DiscoveryCorrect`: BuiltOK says which parts a start has built before each stage,
  ResponderOK that the thread, its descriptor and `started` exist together, KnownOK
  what the network knows.
* `ServerCorrect`, for any number of slots, descriptors and connections: the
  invariant lists who holds a descriptor (a slot, the stopper's list, the accepting
  listener: HoldersOK, AcceptedOK), that each is held once and none is forgotten
  (CoveredOK), and that each session begun has a thread that will close it
  (SerialsOK). A descriptor number may be given out again as soon as it is closed;
  HoldersOK is what keeps an old holder from closing the new connection.
* `RemoteAgrees` proves RemoteSettles. The invariant is `overlapped \/ RemoteInv`:
  until a play or takeover begins beside another request (the violation
  `remote_stale` shows what happens then), stops, ends of sessions and the other
  requests run between any two blocks of a handler. `RemoteTypeCorrect` needs no
  such condition and has an invariant of its own, RemoteBase. RemoteSettles speaks
  of the moments when every request has returned; the invariant `RemoteInv` says who
  owes what until then. LeaseHeld: a lease that the owner does not hold is one that
  some call will give back, or will load under, and there is one reference for it.
  OwnerHolds: an owner without a lease has its request under way or its playlists
  exchanged. CallOK ties each call to the owner and to the lease it may release,
  PairOK says that at most one call is more than an unwinding and that nothing is
  released beside a play that takes the player anew: an unwinding reads
  `remote_lease` again when it releases, and would otherwise take the newer lease
  for its own. GenerationsOK (no more leases than plays) is needed only for the
  bounds of the types.
* `LogicalTypeCorrect`, `DiscoveryTypeCorrect`, `ServerTypeCorrect`,
  `RemoteTypeCorrect`: the parts of the run's TypeOK that belong to these modules.

### Mirroring

* `StreamsCorrect` (MirrorMedia), for any window, sequence space and threshold that
  `MirrorMediaAssumption` admits (a threshold inside the window, a window of which
  the sequence space is a multiple and at least the double, late packets at most half
  the space behind). Numbers on the wire are remainders, the sender's are not;
  SoundPlaced says which number of the sender the window waits for, that each filled
  slot holds a packet of the window ahead of it, in the slot of its number, and that
  the frames handed on end before it. A packet that comes late, twice or beyond the
  window is then told apart by its remainder alone (`OneRemainder`), and each stage of
  `airplay_mirror_audio_process_packet` - placing, emitting the run that is ready,
  skipping the gap - keeps the frames in order. PicturesLinked says that
  while a client is served the decoder has the sender's parameter sets and an unbroken
  run of pictures, unless a key frame is waited for; SocketsHeld which sockets a
  receiver's creation, thread and destruction have in each of their steps.
* `ClockSmooth` (MirrorClock), for any NTP times, RTP modulus, rates and bounds with
  `Deadband + MaxCorrection <= SyncJump`. ClockInv bounds the correction left for
  later and gives a clock with pictures the times they are anchored to. The
  properties are about the two mappings before and after one step; the arithmetic
  of C's truncating division is a lemma (`TruncDivType`).
* `RefsCorrect` (MirrorControl), for any finite set of bridges and any number of
  connections, requests and generations. RefsBalanced is the heart of the invariant
  and far from inductive. What is counted is the sum over the runtime, the player,
  the worker, the queue, the receiver threads and the calls under way; the lemmas
  of the first part say how the sum moves when one of them does. `MirrorInv` adds
  who owns a receiver thread - the runtime, the call that is opening it or the call
  that is stopping it, never two of them, and a thread runs exactly while it has an
  owner (ThreadsOwned); that a thread delivers nothing before it is published and told
  to record (ThreadsQuiet, OpensQuiet); that an open under way still has the bridges
  it made (OpenLinked); that `opening` is set only while some call will clear it
  (OpeningOwned); and that the runtime's session, bridges and receivers agree
  (RuntimeLinked). FewCalls - at any time finitely many calls are under way - lets the
  sum range over any set of connections.
* `MirrorQuietens` proves three of the four parts of MirrorSettles from the same
  invariant, unconditionally.
* `MirrorSettled` proves all of MirrorSettles for the behaviours in which the command
  queue never fills (`[]RoomLeft`). The hypothesis is needed and is about the code:
  the lease is given up by a NOTIFY command, and `runtime_enqueue_locked` drops a
  command that finds the ring full; a session that ends just then would leave its
  lease until the next one. The 32 places are far more than the commands of a session
  and of its stop, and TLC with the real capacity never fills it. `LeaseInv` says
  why a lease does not outlive its session: a lease is of the session the player
  was asked to load, or the notice of that session's end is queued or in the
  worker's hand, or the thread that took the lease has still to look whether the
  session is there (LeaseKept); StatusLinked and LoadsLinked say that a session
  with a load under way has a status whose end is announced.
* `MediaTypeCorrect`, `ClockTypeCorrect`, `MirrorTypeCorrect`: the parts of the run's
  TypeOK that belong to these modules.

### The stream bridge and the log

* `BridgeImplementsStream`: StreamBridge implements ByteStream, for every capacity,
  packet and read size. RingOK says that the buffered bytes are the last written
  ones in order, wherever the ring wraps, and EndOK that nobody writes once the
  stream has ended; then a write is a Put, a read a Take, the end of a finish a
  Close, a cancellation a Cancel, and all else a stutter. The lemmas on remainders
  (`WrapsSum`, `WrapsTwice`, `RingDistance`) carry the wrapping.
* `LogCorrect`: the safety half of LogSettles. Beside the sums of LogAccounts the
  invariant needs FreshOK (the line in the worker's hand lies between those of the
  history and those of the ring, so that none is counted twice) and OwnerOK (a
  start finds no worker).

### The DLNA renderer

* `SocketsOwned` and `SubscribersServed` come from one invariant, `DlnaInv`. HttpOK,
  GenaOK and SsdpOK tie the place of each thread to the place of the start or stop
  that runs beside it, and say which of the two has the socket; RolesOK says that
  what a descriptor is follows from who holds it. Without the pair of fields (the
  thread's own and the one the stop took) nothing tells which of the racing threads
  may close. TableOK gives each subscription a SID of its own, and DueOK says that a
  subscription is due, about to become due or was told of the last mark's state: the
  property speaks only of the moment when the thread waits, and is lost at every
  other step. The assumption that `"idle"`, which marks that no renderer event is
  under way, is not a service is part of `DlnaAssumption`.
* `RefusalIsFinal` rests on `TransportInv`. A refusal and the queued command meet
  only through the lease: QueueOK says that a queued OPEN which could still begin is
  that of the action now waiting, or of one about to withdraw its lease, and LeaseOK
  that nothing carries a generation later than the last one given, so that a new
  lease is none of the withdrawn ones. SoapOK and FateOK relate the action
  in the HTTP thread to its answer and to the fate of its command.
* `DlnaTypeCorrect`, `TransportTypeCorrect`: the parts of RendererTypeOK that belong
  to these modules.

### IPTV

`SourcesSafe` proves SourcesKept for any sources, any number of losses of power and
any interleaving of the user's thread, the worker and the coordinator, without
assumptions; the invariant, like the property, is claimed only while `raced` is
FALSE. SourcesKept looks at the library only when nobody is busy with it, so the
invariant `IptvInv` says what holds in between. A save moves the only copy of the
list to `sources.tsv.bak` before the new one is put in place: CardOK says in which
of the two files the list is at each of these steps, and that a save begun on a card
with nothing but a backup gives up. MemoryOK compares memory with the card: a loaded
catalog has every source of `sources.txt` and every source kept, except that a
source being added does not count until it is saved. RebuildOK says that what a
rebuild has read is still what the card says when it is committed, which a save
beside the rebuild would break. StopOK and RefreshOK tie the flags of the worker to
its place, so that a refresh cut short by a stop or a suspension is still asked for,
unless the network was resumed before the worker had left it (`hasty`).

### The libmpv backend

`Playback_proofs` proves `LibmpvTypeCorrect` and `ReportsCorrect`
(ReportsWhatMpvDoes), for any number of commands and any order in which commands,
events and property changes cross, a load given to a busy mpv included. The property
speaks of backend and mpv at rest; `LibmpvInv` says of every other state what the two
queues still hold, with quantifiers over positions in them. It has two halves: `Sound`
(FileOK, EndOK, PendingOK, RefusalOK, TracksOK) holds in every state, `Exact`
(CommandsOK, LoadOK, LoadedOK, PauseOK, WantOK) when the last load was given to an mpv
at rest (`~overtaken`):

* PendingOK: `load_pending` is set only while some START_FILE or refusal is to come;
* CommandsOK and LoadOK: at most one load is under way and only removals of tracks
  come before it; `load_pending` is set from the load to its START_FILE or its
  refusal, unless a stop is behind it. This is what tells the END_FILE of a replaced
  file from the end of the current one;
* FileOK: the last event about the file says what mpv has open, and when none is
  under way `stopped` says it;
* EndOK and LoadedOK: an END_FILE that precedes an open file is followed by that
  file's START_FILE, so the error of the old file cannot be shown for the new one;
  a file not yet loaded will be told of;
* PauseOK and WantOK: the pause shown is mpv's, or is about to be told, or the last
  pause command (or the load) will make it so; a play asked for last has reached mpv,
  is in the queue, or waits for FILE_LOADED;
* TracksOK: a track is the current bridge's, or its removal or its ADDED is on the
  way.

With both queues empty these are the property. `Dead` marks the states in which
nothing will play whatever mpv does: a stop is under way, or mpv is idle or refused
the load, and nothing is loading.

### Only model-checked

Liveness, which is out of the prover's reach here: SubmissionsReturn,
ActivatedShutdownCompletes, Convergence, ResourcesConverge, CancelFreesAll, the
ending in LogSettles. The type invariants of the runs that put several components
together follow from those of the components, which are proved except for
IptvTypeOK, because of the list of recent channels, which is made with SelectSeq, a
recursive definition. The six violations are TLC's alone.

## 6. Not modelled

Cryptography, parsing and formatting (RTSP, property lists, DNS, SOAP, XML, M3U,
XMLTV, HLS rewriting), rendering, diagnostics, seek targets and cache policy: no
state that threads contend for. Times are abstracted to "the deadline may have
passed"; health counters and heartbeats are left out.

Observed while modelling, and not stated as properties since the code makes no
such promise:

* IPTV: a save does not take `g_catalog_mutex`, so a rebuild that read the older
  list commits it over the newer one (`raced`; both orders are in the model, and
  SourcesKept is not claimed after one); a suspension lifted before the worker has
  left what it was interrupted in leaves a refresh marked as running that the worker
  has dropped (`hasty`), and then every later refresh is refused;
  a crash between the two renames leaves only the backup, which a start does not
  restore; removing a source has no rollback.
* libmpv: a refused `loadfile` leaves the state LOADING; a pause during a reload is
  overwritten; a play between a stop and its late END_FILE is lost.
* Mirroring: a stop clears `opening` without a new generation; a full command queue
  drops a STOP, or the notice that gives up the lease; removing the sound alone may
  join a thread that waits for the pictures' bridge, which only the player or the
  session's stop frees; `runtime_video` does not ask which receiver calls it
  (`mirror_runtime.c:388-405`), so a thread of a stopped session that is not yet
  joined may push a frame into the next session's bridge, and its join then waits for
  that session's player. WaitsEnd says what does hold of these waits.
* DLNA: a SOAP action changes the evented state without marking it, so its
  subscribers hear of it only with the next renderer event; expired subscriptions
  are not pruned by a new one, a failed NOTIFY is not repeated, a byebye may be
  followed by an alive, the protocol state is read without a lock.
* mDNS: the thread may announce between the goodbye and the join, and a failed
  select ends it while it is reported as running.
* Log: lines written after the worker left are cleared at shutdown without being
  counted as dropped.
* Actor: a waiting submission from a backend event would run without being seen by
  `wait_idle`; no caller makes one.

## 7. Plan

Order of work, most important first:

1. *(done)* MediaActor, PlayerSession, PlayerShutdown, MediaCoordinator; proofs of
   the actor.
2. *(done)* ResourceCoordinator: service workers, resource worker, tick, stop,
   waiting for resources. It meets MediaCoordinator in `set_desired_resource_mode`;
   a composition of the two remains.
3. *(done)* AirPlay: server, receiver and discovery, logical sessions, URL
   playback, mirror control and media, clocks; the stream bridge with its abstract
   byte stream.
4. *(done)* DLNA: server threads, eventing, SSDP, SOAP actions; the libmpv backend;
   IPTV; the log.
5. Proofs. *(done)* The actor, the leases and the shutdown, both sides of the
   coordinator, the AirPlay server with discovery, sessions and URL playback, the
   stream bridge and the log, the DLNA service and its transport, IPTV, mirroring
   with its receivers and clocks, the libmpv backend against mpv.
6. Compositions: MediaCoordinator with the player state (a stale PLAYING sample
   releasing a new lease, `protocol_coordinator.c:1448`) and with
   ResourceCoordinator; an abstract actor (a FIFO of accepted commands, each ended
   once) that MediaActor implements.
7. The cached snapshot of the player front end (`session.c:1035`), pairing state
   of a connection, the guide and logo caches of IPTV.
