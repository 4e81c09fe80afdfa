----------------------------- MODULE MediaActor -----------------------------
(***************************************************************************)
(* The media actor of NX-Cast (source/player/core/media_actor.c): a        *)
(* bounded queue of player commands, one worker thread that executes them, *)
(* producers that submit with or without waiting, and the calls that       *)
(* start, activate, quiesce, drain and stop the actor.                     *)
(*                                                                         *)
(* One action is one critical section of actor->mutex, or one call made    *)
(* outside it (initialize, validate, execute, pump_events, finalize).  The *)
(* ring buffer queue[head .. head+count-1] is the sequence queue; the      *)
(* triple (producer, session_token, generation) is a session; a request    *)
(* is named by the command_id it is given when it is accepted.             *)
(*                                                                         *)
(* The configuration is the one player_init passes: initialize, validate,  *)
(* pump_events and wakeup are all set.  Whether a command is valid, and    *)
(* whether the backend executes it, is decided outside this module.        *)
(***************************************************************************)
EXTENDS Naturals, Sequences

CONSTANTS
    Submitters,      \* threads that submit commands
    Stoppers,        \* threads that call media_actor_stop
    Sessions,        \* producer sessions
    Commands,        \* the commands submitters may submit
    Capacity,        \* config.capacity
    Reserved,        \* config.reserved_capacity
    MaxBurst,        \* config.max_command_burst
    StartSuspended,  \* config.start_suspended
    MaxCommands      \* bound on last_command_id, so that TLC terminates

Kinds == {"OPEN", "PLAY", "PAUSE", "STOP", "STOP_ANY", "SEEK_TARGET",
          "SEEK_MS", "SET_VOLUME", "SET_MUTE", "SHOW_OSD", "BIND_STREAM",
          "RELEASE_LEASE", "QUIESCE", "SHUTDOWN"}

Command == [kind : Kinds, session : Sessions]

\* media_actor_create refuses every other configuration.
ASSUME ConfigAssumption ==
    /\ Capacity \in Nat /\ Reserved \in Nat /\ Reserved < Capacity
    /\ MaxBurst \in Nat \ {0}
    /\ StartSuspended \in BOOLEAN
    /\ MaxCommands \in Nat
    /\ Commands \subseteq Command

Ids == 1 .. MaxCommands

\* What a request became: not accepted yet, accepted and not completed, or
\* its completion_status.  ACCEPTED is the status of a coalesced request; an
\* id whose command is executed directly (DIRECT) has no request.
Outcomes == {"unused", "pending", "ACCEPTED", "EXECUTED", "EXECUTION_FAILED",
             "STALE", "SHUTTING_DOWN", "DIRECT"}

VARIABLES
    queue,               \* accepted requests, oldest first
    request,             \* per id: command, references, outcome, times freed
    last_command_id,     \* health.last_command_id
    current_command_id,  \* health.current_command_id, 0 when none
    running, stopping, accepting, dispatch_requested,
    thread_started, join_in_progress,
    ready,               \* health.ready
    initialization_failed,
    dispatch_enabled,    \* health.dispatch_enabled
    worker,              \* where the worker thread is
    processed,           \* commands of the current burst
    direct,              \* id the worker executes without queueing it, or 0
    starter,             \* where media_actor_start is
    waits,               \* per submitter: the id it waits for, or 0
    timed,               \* per submitter: its wait has a deadline
    stopper,             \* per stopper: where media_actor_stop is
    drained              \* media_actor_wait_idle returned true after quiesce

flags == <<running, stopping, accepting, dispatch_requested, ready,
           initialization_failed, dispatch_enabled>>
threads == <<thread_started, join_in_progress, starter, stopper>>
callers == <<waits, timed>>
store == <<queue, request, last_command_id>>
engine == <<worker, processed, direct, current_command_id>>
vars == <<store, engine, flags, threads, callers, drained>>

NoCommand == [kind |-> "NONE", session |-> "NONE"]

Request == [command : Command \cup {NoCommand}, references : Nat,
            outcome : Outcomes, freed : Nat]

WorkerStates == {"none", "init", "poll", "validate", "execute", "pump",
                 "finish", "exited"}

StoreTypeOK ==
    /\ queue \in Seq(Ids)
    /\ request \in [Ids -> Request]
    /\ last_command_id \in 0 .. MaxCommands

EngineTypeOK ==
    /\ worker \in WorkerStates
    /\ processed \in 0 .. MaxBurst
    /\ direct \in 0 .. MaxCommands
    /\ current_command_id \in 0 .. MaxCommands

FlagsTypeOK ==
    /\ running \in BOOLEAN /\ stopping \in BOOLEAN /\ accepting \in BOOLEAN
    /\ dispatch_requested \in BOOLEAN /\ ready \in BOOLEAN
    /\ initialization_failed \in BOOLEAN /\ dispatch_enabled \in BOOLEAN
    /\ drained \in BOOLEAN

ThreadsTypeOK ==
    /\ thread_started \in BOOLEAN /\ join_in_progress \in BOOLEAN
    /\ starter \in {"off", "creating", "created", "up"}
    /\ stopper \in [Stoppers -> {"idle", "waiting", "joining"}]

CallersTypeOK ==
    /\ waits \in [Submitters -> 0 .. MaxCommands]
    /\ timed \in [Submitters -> BOOLEAN]

\* Types, and the bounds of the burst counter and of the ids.
TypeOK ==
    StoreTypeOK /\ EngineTypeOK /\ FlagsTypeOK /\ ThreadsTypeOK /\ CallersTypeOK

-----------------------------------------------------------------------------
(* Commands and requests. *)

command_uses_reserved_slot(kind) ==
    kind \in {"STOP_ANY", "RELEASE_LEASE", "QUIESCE", "SHUTDOWN"}

command_is_replaceable(kind) == kind \in {"SEEK_MS", "SET_VOLUME", "SET_MUTE"}

\* Same kind, producer, session token and generation.
command_can_replace(queued, replacement) == queued = replacement

Queued == {queue[i] : i \in DOMAIN queue}

unused_request ==
    [command |-> NoCommand, references |-> 0, outcome |-> "unused", freed |-> 0]

\* request_free is called by whoever takes the last reference.
drop_reference(r) ==
    LET left == IF r.references > 0 THEN r.references - 1 ELSE 0
    IN  [command |-> r.command, references |-> left, outcome |-> r.outcome,
         freed |-> r.freed + (IF left = 0 THEN 1 ELSE 0)]

request_complete_locked(r, status) ==
    drop_reference([r EXCEPT !.outcome = status])

\* A plausible slip: pending requests are dropped and their waiters not told.
mutant_reject_pending == request

actor_reject_pending_locked ==
    [i \in Ids |-> IF i \in Queued
                   THEN request_complete_locked(request[i], "SHUTTING_DOWN")
                   ELSE request[i]]

-----------------------------------------------------------------------------
(* media_actor_create, media_actor_start *)

Init ==
    /\ queue = << >>
    /\ request = [i \in Ids |-> unused_request]
    /\ last_command_id = 0 /\ current_command_id = 0
    /\ running = FALSE /\ stopping = FALSE /\ accepting = FALSE
    /\ dispatch_requested = FALSE /\ dispatch_enabled = FALSE
    /\ ready = FALSE /\ initialization_failed = FALSE
    /\ thread_started = FALSE /\ join_in_progress = FALSE
    /\ worker = "none" /\ processed = 0 /\ direct = 0
    /\ starter = "off"
    /\ waits = [s \in Submitters |-> 0]
    /\ timed = [s \in Submitters |-> FALSE]
    /\ stopper = [t \in Stoppers |-> "idle"]
    /\ drained = FALSE

\* Up to the unlock before the thread is created.  main, which calls start,
\* never calls it while a stop is going on.
StartBegin ==
    /\ starter \in {"off", "up"}
    /\ \A t \in Stoppers : stopper[t] = "idle"
    /\ ~running /\ ~thread_started /\ queue = << >>
    /\ stopping' = FALSE /\ accepting' = TRUE /\ running' = TRUE
    /\ dispatch_requested' = ~StartSuspended
    /\ ready' = FALSE /\ initialization_failed' = FALSE
    /\ dispatch_enabled' = FALSE
    /\ starter' = "creating"
    /\ drained' = FALSE
    /\ UNCHANGED <<store, engine, thread_started, join_in_progress, stopper,
                   callers>>

StartThread ==
    /\ starter = "creating"
    /\ starter' = "created"
    /\ worker' = "init" /\ processed' = 0
    /\ UNCHANGED <<store, direct, current_command_id, flags, thread_started,
                   join_in_progress, stopper, callers, drained>>

\* actor_mark_start_failed_locked
StartFails ==
    /\ starter = "creating"
    /\ starter' = "off"
    /\ running' = FALSE /\ accepting' = FALSE
    /\ dispatch_requested' = FALSE /\ dispatch_enabled' = FALSE
    /\ ready' = FALSE /\ initialization_failed' = TRUE
    /\ UNCHANGED <<store, engine, stopping, thread_started, join_in_progress,
                   stopper, callers, drained>>

StartReturn ==
    /\ starter = "created"
    /\ starter' = "up"
    /\ thread_started' = TRUE
    /\ UNCHANGED <<store, engine, flags, join_in_progress, stopper, callers,
                   drained>>

-----------------------------------------------------------------------------
(* actor_submit, called on a thread that is not the worker.  Producers exist *)
(* once media_actor_start has returned true: player_init returns before any  *)
(* protocol is started.                                                      *)

CanSubmit(s) == starter = "up" /\ waits[s] = 0

normal_capacity == Capacity - Reserved

\* A plausible slip: every kind may fill the queue.
mutant_queue_has_room(kind) == Len(queue) < Capacity

queue_has_room(kind) ==
    /\ Len(queue) < Capacity
    /\ command_uses_reserved_slot(kind) \/ Len(queue) < normal_capacity

\* An asynchronous absolute update replaces the newest queued request when
\* that is the same update for the same session and nobody waits for it.
coalesces(c) ==
    /\ queue # << >>
    /\ command_is_replaceable(c.kind)
    /\ LET tail == request[queue[Len(queue)]]
       IN  tail.references = 1 /\ command_can_replace(tail.command, c)

accepted_request(c, references) ==
    [command |-> c, references |-> references, outcome |-> "pending",
     freed |-> 0]

next_command_id == last_command_id + 1

\* NO_MEMORY, NOT_RUNNING, SHUTTING_DOWN and QUEUE_FULL change no state here:
\* the request the caller allocated is freed before the call returns.
SubmitAllowed(s) ==
    /\ CanSubmit(s)
    /\ running /\ ~stopping /\ accepting
    /\ last_command_id < MaxCommands

\* A plausible slip: the oldest matching request is replaced where it stands.
mutant_SubmitCoalesced(s, c) ==
    /\ SubmitAllowed(s)
    /\ command_is_replaceable(c.kind)
    /\ \E k \in DOMAIN queue :
          /\ request[queue[k]].references = 1
          /\ command_can_replace(request[queue[k]].command, c)
          /\ request' = [request EXCEPT
                   ![queue[k]] = request_complete_locked(@, "ACCEPTED"),
                   ![next_command_id] = accepted_request(c, 1)]
          /\ queue' = [queue EXCEPT ![k] = next_command_id]
    /\ last_command_id' = next_command_id
    /\ UNCHANGED <<engine, flags, threads, callers, drained>>

SubmitCoalesced(s, c) ==
    /\ SubmitAllowed(s)
    /\ coalesces(c)
    /\ LET tail == queue[Len(queue)]
       IN  /\ request' = [request EXCEPT
                   ![tail] = request_complete_locked(@, "ACCEPTED"),
                   ![next_command_id] = accepted_request(c, 1)]
           /\ queue' = [queue EXCEPT ![Len(queue)] = next_command_id]
    /\ last_command_id' = next_command_id
    /\ UNCHANGED <<engine, flags, threads, callers, drained>>

\* queue_push_locked of a new request; enqueue(c, refs) is the locked part.
enqueue(c, references) ==
    /\ queue_has_room(c.kind)
    /\ request' = [request EXCEPT ![next_command_id] =
                                       accepted_request(c, references)]
    /\ queue' = Append(queue, next_command_id)
    /\ last_command_id' = next_command_id

SubmitAsync(s, c) ==
    /\ SubmitAllowed(s)
    /\ ~coalesces(c)
    /\ enqueue(c, 1)
    /\ UNCHANGED <<engine, flags, threads, callers, drained>>

\* deadline: timeout_ms is not MEDIA_ACTOR_WAIT_FOREVER.
SubmitWait(s, c, deadline) ==
    /\ SubmitAllowed(s)
    /\ enqueue(c, 2)
    /\ waits' = [waits EXCEPT ![s] = next_command_id]
    /\ timed' = [timed EXCEPT ![s] = deadline]
    /\ UNCHANGED <<engine, flags, threads, drained>>

\* The waiter wakes up with the request completed, or with its deadline
\* passed (status TIMEOUT; the command stays queued or goes on executing).
wait_returns(s) ==
    /\ request' = [request EXCEPT ![waits[s]] = drop_reference(@)]
    /\ waits' = [waits EXCEPT ![s] = 0]
    /\ timed' = [timed EXCEPT ![s] = FALSE]
    /\ UNCHANGED <<queue, last_command_id, engine, flags, threads, drained>>

WaitCompleted(s) ==
    /\ waits[s] # 0
    /\ request[waits[s]].outcome # "pending"
    /\ wait_returns(s)

\* A plausible slip: on timeout the caller frees the request as its own.
mutant_WaitTimeout(s) ==
    /\ waits[s] # 0 /\ timed[s]
    /\ request[waits[s]].outcome = "pending"
    /\ request' = [request EXCEPT ![waits[s]].references = 0,
                                  ![waits[s]].freed = @ + 1]
    /\ waits' = [waits EXCEPT ![s] = 0]
    /\ timed' = [timed EXCEPT ![s] = FALSE]
    /\ UNCHANGED <<queue, last_command_id, engine, flags, threads, drained>>

WaitTimeout(s) ==
    /\ waits[s] # 0 /\ timed[s]
    /\ request[waits[s]].outcome = "pending"
    /\ wait_returns(s)

-----------------------------------------------------------------------------
(* The worker thread: actor_worker_run. *)

\* actor_initialize_worker, by the result of config.initialize.
WorkerInitialized ==
    /\ worker = "init"
    /\ ready' = TRUE /\ initialization_failed' = FALSE
    /\ dispatch_enabled' = dispatch_requested
    /\ worker' = "poll"
    /\ UNCHANGED <<store, processed, direct, current_command_id, running,
                   stopping, accepting, dispatch_requested, threads, callers,
                   drained>>

WorkerInitializeFails ==
    /\ worker = "init"
    /\ ready' = FALSE /\ initialization_failed' = TRUE
    /\ dispatch_enabled' = FALSE
    /\ running' = FALSE /\ accepting' = FALSE
    /\ request' = actor_reject_pending_locked
    /\ queue' = << >>
    /\ worker' = "exited"
    /\ UNCHANGED <<last_command_id, processed, direct, current_command_id,
                   stopping, dispatch_requested, threads, callers, drained>>

\* A plausible slip: the burst runs one command too long.
mutant_burst_left == processed <= MaxBurst

\* The condition of the inner loop.
burst_left == processed < MaxBurst

\* The top of the inner loop; each action is one of its branches.
WorkerStops ==
    /\ worker = "poll" /\ burst_left
    /\ stopping
    /\ request' = actor_reject_pending_locked
    /\ queue' = << >>
    /\ worker' = "finish"
    /\ UNCHANGED <<last_command_id, processed, direct, current_command_id,
                   flags, threads, callers, drained>>

WorkerLeavesBurst ==
    /\ worker = "poll"
    /\ \/ ~burst_left
       \/ ~stopping /\ (~dispatch_enabled \/ queue = << >>)
    /\ worker' = "pump"
    /\ UNCHANGED <<store, processed, direct, current_command_id, flags,
                   threads, callers, drained>>

\* A plausible slip: the popped command is published only once validated.
mutant_WorkerPops ==
    /\ worker = "poll" /\ burst_left
    /\ ~stopping /\ dispatch_enabled /\ queue # << >>
    /\ queue' = Tail(queue)
    /\ worker' = "validate"
    /\ UNCHANGED <<request, last_command_id, processed, direct,
                   current_command_id, flags, threads, callers, drained>>

WorkerPops ==
    /\ worker = "poll" /\ burst_left
    /\ ~stopping /\ dispatch_enabled /\ queue # << >>
    /\ current_command_id' = Head(queue)
    /\ queue' = Tail(queue)
    /\ worker' = "validate"
    /\ UNCHANGED <<request, last_command_id, processed, direct, flags, threads,
                   callers, drained>>

\* actor_execute_request: the locked part that ends it.
complete_current(status) ==
    /\ request' = [request EXCEPT ![current_command_id] =
                                    request_complete_locked(@, status)]
    /\ current_command_id' = 0
    /\ processed' = processed + 1
    /\ worker' = "poll"
    /\ UNCHANGED <<queue, last_command_id, direct, flags, threads, callers,
                   drained>>

\* config.validate is called without the lock.
WorkerValidates(valid) ==
    /\ worker = "validate"
    /\ IF valid
       THEN /\ worker' = "execute"
            /\ UNCHANGED <<store, processed, direct, current_command_id, flags,
                           threads, callers, drained>>
       ELSE complete_current("STALE")

WorkerExecutes(ok) ==
    /\ worker = "execute" /\ direct = 0
    /\ complete_current(IF ok THEN "EXECUTED" ELSE "EXECUTION_FAILED")

WorkerPumps ==
    /\ worker = "pump" /\ direct = 0
    /\ processed' = 0
    /\ worker' = "poll"
    /\ UNCHANGED <<store, direct, current_command_id, flags, threads, callers,
                   drained>>

\* actor_finish_worker after finalize.
WorkerFinishes ==
    /\ worker = "finish"
    /\ running' = FALSE /\ accepting' = FALSE
    /\ dispatch_requested' = FALSE /\ dispatch_enabled' = FALSE
    /\ ready' = FALSE
    /\ worker' = "exited"
    /\ UNCHANGED <<store, processed, direct, current_command_id, stopping,
                   initialization_failed, threads, callers, drained>>

\* A waiting submission made by a callback on the worker thread itself is
\* validated and executed on the spot; it takes an id but no queue slot.
DirectBegin(c) ==
    /\ worker \in {"execute", "pump"} /\ direct = 0
    /\ running /\ ~stopping /\ accepting
    /\ last_command_id < MaxCommands
    /\ last_command_id' = next_command_id
    /\ request' = [request EXCEPT ![next_command_id].command = c,
                                  ![next_command_id].outcome = "DIRECT"]
    /\ direct' = next_command_id
    /\ UNCHANGED <<queue, worker, processed, current_command_id, flags, threads,
                   callers, drained>>

DirectEnd ==
    /\ direct # 0
    /\ direct' = 0
    /\ UNCHANGED <<store, worker, processed, current_command_id, flags, threads,
                   callers, drained>>

-----------------------------------------------------------------------------
(* Activation, quiescing and stopping. *)

Activate ==
    /\ starter = "up"
    /\ running /\ ~stopping /\ ~initialization_failed
    /\ dispatch_requested' = TRUE
    /\ dispatch_enabled' = ready
    /\ UNCHANGED <<store, engine, running, stopping, accepting, ready,
                   initialization_failed, threads, callers, drained>>

Quiesce ==
    /\ starter = "up"
    /\ accepting' = FALSE
    /\ UNCHANGED <<store, engine, running, stopping, dispatch_requested, ready,
                   initialization_failed, dispatch_enabled, threads, callers,
                   drained>>

\* media_actor_wait_idle returning true to a caller that has quiesced.
WaitIdle ==
    /\ starter = "up"
    /\ ~accepting
    /\ queue = << >> /\ current_command_id = 0
    /\ drained' = TRUE
    /\ UNCHANGED <<store, engine, flags, threads, callers>>

\* media_actor_stop on the worker thread only asks the loop to end.
StopOnWorker ==
    /\ worker \in {"execute", "pump"}
    /\ stopping' = TRUE /\ accepting' = FALSE
    /\ UNCHANGED <<store, engine, running, dispatch_requested, ready,
                   initialization_failed, dispatch_enabled, threads, callers,
                   drained>>

StopCalled(t) ==
    /\ starter = "up" /\ stopper[t] = "idle"
    /\ stopper' = [stopper EXCEPT ![t] = "waiting"]
    /\ UNCHANGED <<store, engine, flags, thread_started, join_in_progress,
                   starter, callers, drained>>

\* A plausible slip: a second stopper does not wait for the first one's join.
mutant_StopFindsNoThread(t) ==
    /\ stopper[t] = "waiting"
    /\ join_in_progress \/ ~thread_started
    /\ stopper' = [stopper EXCEPT ![t] = "idle"]
    /\ UNCHANGED <<store, engine, flags, thread_started, join_in_progress,
                   starter, callers, drained>>

StopFindsNoThread(t) ==
    /\ stopper[t] = "waiting"
    /\ ~join_in_progress /\ ~thread_started
    /\ stopper' = [stopper EXCEPT ![t] = "idle"]
    /\ UNCHANGED <<store, engine, flags, thread_started, join_in_progress,
                   starter, callers, drained>>

StopBegins(t) ==
    /\ stopper[t] = "waiting"
    /\ ~join_in_progress /\ thread_started
    /\ join_in_progress' = TRUE
    /\ stopping' = TRUE /\ accepting' = FALSE
    /\ stopper' = [stopper EXCEPT ![t] = "joining"]
    /\ UNCHANGED <<store, engine, running, dispatch_requested, ready,
                   initialization_failed, dispatch_enabled, thread_started,
                   starter, callers, drained>>

\* The join returns once the worker thread has ended.
StopJoins(t) ==
    /\ stopper[t] = "joining"
    /\ worker = "exited"
    /\ thread_started' = FALSE /\ join_in_progress' = FALSE
    /\ running' = FALSE
    /\ stopper' = [stopper EXCEPT ![t] = "idle"]
    /\ UNCHANGED <<store, engine, stopping, accepting, dispatch_requested,
                   ready, initialization_failed, dispatch_enabled, starter,
                   callers, drained>>

-----------------------------------------------------------------------------
Submit(s) ==
    \E c \in Commands :
        \/ SubmitCoalesced(s, c)
        \/ SubmitAsync(s, c)
        \/ \E deadline \in BOOLEAN : SubmitWait(s, c, deadline)

Direct ==
    \/ \E c \in Commands : DirectBegin(c)
    \/ DirectEnd

Start == StartBegin \/ StartThread \/ StartFails \/ StartReturn

\* The worker's own steps, the validity of the command in hand left open.
WorkerStep ==
    \/ WorkerInitialized \/ WorkerInitializeFails
    \/ WorkerStops \/ WorkerLeavesBurst \/ WorkerPops
    \/ \E ok \in BOOLEAN : WorkerExecutes(ok)
    \/ WorkerPumps \/ WorkerFinishes

Stop(t) == StopCalled(t) \/ StopFindsNoThread(t) \/ StopBegins(t) \/ StopJoins(t)

Next ==
    \/ Start
    \/ WorkerStep
    \/ \E valid \in BOOLEAN : WorkerValidates(valid)
    \/ Direct
    \/ Activate \/ Quiesce \/ WaitIdle \/ StopOnWorker
    \/ \E s \in Submitters : Submit(s) \/ WaitCompleted(s) \/ WaitTimeout(s)
    \/ \E t \in Stoppers : Stop(t)

Spec == Init /\ [][Next]_vars

\* The worker thread and woken waiters run, and main activates the actor on
\* the frame after the backend became ready.
Worker == WorkerStep \/ DirectEnd \/ \E valid \in BOOLEAN : WorkerValidates(valid)

Fairness ==
    /\ WF_vars(Worker)
    /\ WF_vars(Activate)
    /\ \A s \in Submitters : WF_vars(WaitCompleted(s))

FairSpec == Spec /\ Fairness

-----------------------------------------------------------------------------
(* Properties. *)

ActorHolds(i) == i \in Queued \/ i = current_command_id
WaitedFor(i) == \E s \in Submitters : waits[s] = i

\* Request lifetime (request_complete_locked against the waiter's exit from
\* actor_submit): whatever the order of completion, timeout, coalescing and
\* shutdown, a request has one reference per party that can still touch it,
\* is freed when the last one lets go, and is freed once.
RequestLifetime ==
    \A i \in Ids :
        LET r == request[i]
        IN  /\ r.references = (IF ActorHolds(i) THEN 1 ELSE 0)
                             + (IF WaitedFor(i) THEN 1 ELSE 0)
            /\ r.freed = (IF \/ r.outcome \in {"unused", "DIRECT"}
                            \/ r.references > 0 THEN 0 ELSE 1)

\* Queue policy: however submissions, coalescing and pops interleave, the
\* queue stays within its capacity and ordinary commands never sit in the
\* reserved slots, so that a stop or release can be refused only when
\* others of its class fill them.
ReservedSlotsKept ==
    /\ Len(queue) <= Capacity
    /\ \A i \in DOMAIN queue :
          \/ command_uses_reserved_slot(request[queue[i]].command.kind)
          \/ i <= normal_capacity

\* A worker that will execute nothing more (initialization failed, or the
\* loop left because of a stop) leaves no accepted request behind: every
\* one is completed, and none can be accepted after the last rejection.
NoneStranded ==
    worker \in {"none", "finish", "exited"} =>
        /\ queue = << >>
        /\ \A i \in Ids : request[i].outcome # "pending"

\* Quiesce then wait_idle is a drain: from the moment wait_idle returned true
\* no queued command is validated or executed until the next start.
DrainHolds ==
    drained => queue = << >> /\ worker \notin {"validate", "execute"}

\* Coalescing drops a command only for the same command of the same session
\* accepted right behind it: no command accepted in between is jumped over.
CoalescingKeepsOrder ==
    \A i \in Ids : request[i].outcome = "ACCEPTED" =>
        \E j \in i + 1 .. last_command_id :
            /\ request[j].command = request[i].command
            /\ request[j].outcome # "DIRECT"
            /\ \A k \in i + 1 .. j - 1 : request[k].outcome = "DIRECT"

\* media_actor_stop returns, to each of several concurrent callers, only when
\* the worker has exited and nothing is queued.
StopIsComplete ==
    [][\A t \in Stoppers : stopper[t] # "idle" /\ stopper'[t] = "idle" =>
           worker' = "exited" /\ queue' = << >>]_vars

\* Every submission that waits returns, with or without a deadline: executed,
\* refused as stale, timed out or rejected by shutdown.
WaitersReturn == \A s \in Submitters : waits[s] # 0 ~> waits[s] = 0
=============================================================================
