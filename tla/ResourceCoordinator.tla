------------------------ MODULE ResourceCoordinator ------------------------
(***************************************************************************)
(* How the coordinator (app/protocol_coordinator.c) starts, isolates and   *)
(* stops the protocol services: one worker thread per service for the      *)
(* first start, one resource worker for every later change of mode, the    *)
(* main thread's start, tick and stop, and the threads whose claims and    *)
(* releases change the desired mode (module MediaCoordinator).             *)
(*                                                                         *)
(* The coordinator mutex is never held over a call into a service: each    *)
(* action is one critical section together with the thread's own work up   *)
(* to the next one.  What the calls do to the services is the variable up, *)
(* and what they do to IPTV's background fetches is the variable net; no   *)
(* thread reads those two except through the services' own functions.      *)
(*                                                                         *)
(* Left out: snapshot.airplay, revision and the ages, which only the UI    *)
(* reads, and the suspension of discovery.                                 *)
(***************************************************************************)
EXTENDS Integers, FiniteSets

CONSTANTS
    Configs,        \* ProtocolCoordinatorConfig: serial, exclusive, enabled
    MaxFailures,    \* bound on failed starts, thread creations and quiesces
    MaxChanges      \* bound on changes of the desired mode and on stops

IPTV == 0
DLNA == 1
AIRPLAY == 2
COUNT == 3
Service == 0 .. COUNT - 1

\* No build is both: the makefile's profiles set one or the other.
ASSUME ResourceAssumption ==
    /\ Configs \subseteq [serial : BOOLEAN, exclusive : BOOLEAN, enabled : SUBSET Service]
    /\ \A c \in Configs : ~(c.serial /\ c.exclusive)
    /\ MaxFailures \in Nat /\ MaxChanges \in Nat

Mode == {"HOME", "IPTV_EXCLUSIVE", "DLNA_EXCLUSIVE", "AIRPLAY_EXCLUSIVE"}

VARIABLES
    config,            \* the configuration in force
    lifecycle,         \* ProtocolLifecycle
    runtime_active,
    services,          \* snapshot.services: the state reported per service
    stop_required,     \* per service: stop must be called
    worker,            \* per service: its start worker
    next_service,      \* next_service_to_start, of a serial startup
    desired,           \* desired_resource_mode
    applied,           \* applied_resource_mode
    transition,        \* resource_transition_active, _failed and whether
                       \* resource_retry_due_ms is still to come
    rw,                \* the resource worker
    suspended,         \* background_network_suspended
    main,              \* the main thread
    caller,            \* a thread inside coordinator_set_desired_resource_mode
    up,                \* per service: what start and stop left
    cancel,            \* g_airplay.stop_requested
    net,               \* IPTV's background fetches
    failures, changes  \* so far, for the bounds

reported == <<config, lifecycle, runtime_active, services>>
modes == <<desired, applied, transition>>
real == <<up, cancel, net, suspended>>
bounds == <<failures, changes>>
vars == <<reported, stop_required, worker, next_service, modes, rw, main, caller,
          real, bounds>>

WorkerPlaces == {"none", "launched", "starting", "started", "failed", "recorded", "finished"}
RwPlaces == {"none", "begin", "stop_loop", "stopping", "stopped", "start_loop",
             "prepare", "call", "starting", "started", "failed", "end", "finished"}
MainPlaces == {"idle", "launch", "serial", "resource", "create", "poll", "status", "polled",
               "request", "join_resource", "join_services", "stop_list", "stop_state", "clear"}

NoResourceWorker == [at |-> "none", target |-> "HOME", index |-> 0,
                     success |-> TRUE, completed |-> FALSE, start_call |-> FALSE]
IdleMain == [at |-> "idle", index |-> 0, target |-> "HOME", status |-> "down", list |-> {}]
Quiet == [active |-> FALSE, failed |-> FALSE, waiting |-> FALSE]

TypeOK ==
    /\ config \in Configs
    /\ lifecycle \in {"STOPPED", "STARTING", "RUNNING", "STOPPING"}
    /\ runtime_active \in BOOLEAN
    /\ services \in [Service -> {"DISABLED", "STOPPED", "STARTING", "RUNNING", "FAILED"}]
    /\ stop_required \in [Service -> BOOLEAN]
    /\ worker \in [Service -> WorkerPlaces]
    /\ next_service \in 0 .. COUNT
    /\ desired \in Mode /\ applied \in Mode
    /\ transition \in [active : BOOLEAN, failed : BOOLEAN, waiting : BOOLEAN]
    /\ rw \in [at : RwPlaces, target : Mode, index : 0 .. COUNT, success : BOOLEAN,
               completed : BOOLEAN, start_call : BOOLEAN]
    /\ suspended \in BOOLEAN
    /\ main \in [at : MainPlaces, index : 0 .. COUNT, target : Mode,
                 status : {"down", "starting", "up"}, list : SUBSET Service]
    /\ caller \in {"idle", "request_stop"}
    /\ up \in [Service -> {"down", "starting", "up", "partial"}]
    /\ cancel \in BOOLEAN
    /\ net \in {"active", "draining", "quiet"}
    /\ failures \in 0 .. MaxFailures /\ changes \in 0 .. MaxChanges

Init ==
    /\ config \in Configs
    /\ lifecycle = "STOPPED" /\ runtime_active = FALSE
    /\ services = [s \in Service |-> "DISABLED"]
    /\ stop_required = [s \in Service |-> FALSE]
    /\ worker = [s \in Service |-> "none"]
    /\ next_service = 0
    /\ desired = "HOME" /\ applied = "HOME" /\ transition = Quiet
    /\ rw = NoResourceWorker
    /\ suspended = FALSE
    /\ main = IdleMain
    /\ caller = "idle"
    /\ up = [s \in Service |-> "down"]
    /\ cancel = FALSE /\ net = "active"
    /\ failures = 0 /\ changes = 0

-----------------------------------------------------------------------------
(* What the critical sections read and write. *)

\* A step that fails, within the bound.
Fails == failures < MaxFailures /\ failures' = failures + 1

\* coordinator_resource_service_required
required(mode, s) ==
    /\ s \in config.enabled
    /\ CASE s = IPTV -> TRUE
         [] s = DLNA -> mode \in {"HOME", "DLNA_EXCLUSIVE"}
         [] s = AIRPLAY -> mode \in {"HOME", "AIRPLAY_EXCLUSIVE"}

\* A plausible slip: only the services that are required are looked at.
mutant_services_match(mode) ==
    \A s \in Service : required(mode, s) => services[s] = "RUNNING"

\* coordinator_resource_services_match_locked
services_match(mode) ==
    \A s \in Service :
        services[s] = IF s \notin config.enabled THEN "DISABLED"
                      ELSE IF required(mode, s) THEN "RUNNING" ELSE "STOPPED"

\* coordinator_recompute_state: startup ends when no service is STARTING.
recompute_state(from, states) ==
    IF from = "STARTING" /\ \A s \in Service : states[s] # "STARTING" THEN "RUNNING" ELSE from

\* protocol_coordinator_set_service_state
set_service_state(s, state) ==
    /\ services' = IF lifecycle = "STOPPED" THEN services ELSE [services EXCEPT ![s] = state]
    /\ lifecycle' = IF services' # services THEN recompute_state(lifecycle, services')
                    ELSE lifecycle
    /\ UNCHANGED <<config, runtime_active>>

may_run == runtime_active /\ lifecycle \notin {"STOPPING", "STOPPED"}

\* services[].stop_after_start_attempt: main sets it for IPTV.
stop_after_start_attempt(s) == s = IPTV

\* A service's start is called: AirPlay's forgets an earlier request to stop.
start_called(s) ==
    /\ up' = [up EXCEPT ![s] = "starting"]
    /\ cancel' = (cancel /\ s # AIRPLAY)
    /\ UNCHANGED <<net, suspended>>

\* It returns: started, failed by itself, or cancelled.
start_succeeds(s) ==
    /\ up' = [up EXCEPT ![s] = "up"]
    /\ UNCHANGED <<cancel, net, suspended, failures>>

start_fails(s) ==
    /\ up' = [up EXCEPT ![s] = IF stop_after_start_attempt(s) THEN "partial" ELSE "down"]
    /\ \/ s = AIRPLAY /\ cancel /\ UNCHANGED failures
       \/ Fails
    /\ UNCHANGED <<cancel, net, suspended>>

\* A service's stop, which also forgets AirPlay's request to stop.
stop_called(s) ==
    /\ up' = [up EXCEPT ![s] = "down"]
    /\ cancel' = (cancel /\ s # AIRPLAY)
    /\ UNCHANGED <<net, suspended>>

-----------------------------------------------------------------------------
(* coordinator_set_desired_resource_mode, for a claim, a release or the sync *)
(* of a tick.  request_stop is called after the mutex is released.           *)

set_desired_resource_mode(mode) ==
    /\ caller = "idle"
    /\ lifecycle # "STOPPED" /\ config.exclusive
    /\ desired # mode
    /\ changes < MaxChanges /\ changes' = changes + 1
    /\ desired' = mode
    /\ transition' = [transition EXCEPT !.failed = FALSE, !.waiting = FALSE]
    /\ caller' = IF /\ transition.active /\ rw.target # mode
                    /\ rw.start_call /\ rw.index = AIRPLAY
                 THEN "request_stop" ELSE "idle"
    /\ UNCHANGED <<reported, stop_required, worker, next_service, applied, rw, main,
                   real, failures>>

CallerRequestsStop ==
    /\ caller = "request_stop"
    /\ caller' = "idle"
    /\ cancel' = TRUE
    /\ UNCHANGED <<reported, stop_required, worker, next_service, modes, rw, main,
                   up, net, suspended, bounds>>

\* Time passes resource_retry_due_ms.
RetryDue ==
    /\ transition.waiting
    /\ transition' = [transition EXCEPT !.waiting = FALSE]
    /\ UNCHANGED <<reported, stop_required, worker, next_service, desired, applied, rw,
                   main, caller, real, bounds>>

-----------------------------------------------------------------------------
(* coordinator_service_worker_run *)

WorkerStarts(s) ==
    /\ worker[s] = "launched"
    /\ worker' = [worker EXCEPT ![s] = "starting"]
    /\ start_called(s)
    /\ UNCHANGED <<reported, stop_required, failures>>

\* The start returns, and coordinator_set_stop_required.
WorkerStartReturns(s) ==
    /\ worker[s] = "starting"
    /\ \/ start_succeeds(s) /\ worker' = [worker EXCEPT ![s] = "started"]
          /\ stop_required' = [stop_required EXCEPT ![s] = TRUE]
       \/ start_fails(s) /\ worker' = [worker EXCEPT ![s] = "failed"]
          /\ stop_required' = [stop_required EXCEPT ![s] = stop_after_start_attempt(s)]
    /\ UNCHANGED reported

WorkerReports(s) ==
    /\ worker[s] \in {"started", "failed"}
    /\ set_service_state(s, IF worker[s] = "started" THEN "RUNNING" ELSE "FAILED")
    /\ worker' = [worker EXCEPT ![s] = "recorded"]
    /\ UNCHANGED <<stop_required, real, failures>>

WorkerFinishes(s) ==
    /\ worker[s] = "recorded"
    /\ worker' = [worker EXCEPT ![s] = "finished"]
    /\ UNCHANGED <<reported, stop_required, real, failures>>

ServiceWorker(s) ==
    /\ WorkerStarts(s) \/ WorkerStartReturns(s) \/ WorkerReports(s) \/ WorkerFinishes(s)
    /\ UNCHANGED <<next_service, modes, rw, main, caller, changes>>

-----------------------------------------------------------------------------
(* coordinator_resource_worker_run.  Of the three reads at the head of each  *)
(* loop the last decides; a state that a tick rewrites between them is as if *)
(* rewritten after.                                                          *)

rw_goto(place) == rw' = [rw EXCEPT !.at = place]
target_current == desired = rw.target
abandoned == ~may_run \/ ~target_current

\* coordinator_set_background_network_suspended(true): the flag is set and
\* IPTV is asked to quiesce, again if it timed out the last time.
quiesces(quiesced) ==
    /\ suspended' = TRUE
    /\ \/ quiesced /\ net' = "quiet" /\ UNCHANGED failures
       \/ ~quiesced /\ net # "quiet" /\ net' = "draining" /\ Fails

\* coordinator_set_background_network_suspended(false)
resumes ==
    /\ suspended' = FALSE
    /\ net' = IF suspended THEN "active" ELSE net

RwSuspends ==
    /\ rw.at = "begin"
    /\ \E quiesced \in BOOLEAN :
          /\ IF rw.target = "HOME" THEN quiesced /\ UNCHANGED <<suspended, net, failures>>
                                   ELSE quiesces(quiesced)
          /\ rw' = [rw EXCEPT !.at = "stop_loop", !.index = COUNT - 1, !.success = quiesced]
    /\ UNCHANGED <<reported, stop_required, modes, up, cancel>>

\* A plausible slip: the loop runs past its first index.
mutant_after_stop_loop(i) ==
    IF i < 0 THEN [rw EXCEPT !.at = "start_loop", !.index = 0]
             ELSE [rw EXCEPT !.at = "stop_loop", !.index = i - 1]

after_stop_loop(i) ==
    IF i = 0 THEN [rw EXCEPT !.at = "start_loop", !.index = 0]
             ELSE [rw EXCEPT !.at = "stop_loop", !.index = i - 1]

\* The stop loop, up to the call of request_stop for a service it stops.
RwStopLoop ==
    /\ rw.at = "stop_loop"
    /\ LET s == rw.index
           keep == services[s] \in {"DISABLED", "STOPPED"} \/ required(rw.target, s)
       IN  /\ rw' = IF abandoned THEN [rw EXCEPT !.at = "end"]
                    ELSE IF keep THEN after_stop_loop(s)
                    ELSE [rw EXCEPT !.at = "stopping"]
           /\ cancel' = (cancel \/ (rw'.at = "stopping" /\ s = AIRPLAY))
    /\ UNCHANGED <<reported, stop_required, modes, up, net, suspended, failures>>

\* coordinator_resource_stop_service: stop is called if required ...
RwStops ==
    /\ rw.at = "stopping"
    /\ IF stop_required[rw.index] THEN stop_called(rw.index) ELSE UNCHANGED real
    /\ rw_goto("stopped")
    /\ UNCHANGED <<reported, stop_required, modes, failures>>

\* ... and the service is recorded as stopped; within a start, the start
\* goes on.
RwStopped ==
    /\ rw.at = "stopped"
    /\ stop_required' = [stop_required EXCEPT ![rw.index] = FALSE]
    /\ set_service_state(rw.index, "STOPPED")
    /\ rw' = IF rw.start_call THEN [rw EXCEPT !.at = "prepare"] ELSE after_stop_loop(rw.index)
    /\ UNCHANGED <<modes, real, failures>>

\* The start loop, up to coordinator_set_resource_start_call(service, true).
RwStartLoop ==
    /\ rw.at = "start_loop" /\ rw.index < COUNT
    /\ LET s == rw.index
       IN  rw' = IF abandoned THEN [rw EXCEPT !.at = "end"]
                 ELSE IF ~required(rw.target, s) \/ services[s] = "RUNNING"
                 THEN [rw EXCEPT !.index = s + 1]
                 ELSE [rw EXCEPT !.at = "prepare", !.start_call = TRUE]
    /\ UNCHANGED <<reported, stop_required, modes, real, failures>>

\* coordinator_resource_start_service: clean up, give up if the coordinator
\* stops, or report STARTING ...
RwPrepares ==
    /\ rw.at = "prepare"
    /\ LET s == rw.index
       IN  \/ /\ stop_required[s]
              /\ rw_goto("stopping")
              /\ cancel' = (cancel \/ s = AIRPLAY)
              /\ UNCHANGED <<reported, up, net, suspended>>
           \/ /\ ~stop_required[s] /\ ~may_run
              /\ rw' = [rw EXCEPT !.at = "start_loop", !.index = s + 1,
                                  !.start_call = FALSE, !.success = FALSE]
              /\ UNCHANGED <<reported, real>>
           \/ /\ ~stop_required[s] /\ may_run
              /\ set_service_state(s, "STARTING")
              /\ rw_goto("call")
              /\ UNCHANGED real
    /\ UNCHANGED <<stop_required, modes, failures>>

RwCallsStart ==
    /\ rw.at = "call"
    /\ start_called(rw.index)
    /\ rw_goto("starting")
    /\ UNCHANGED <<reported, stop_required, modes, failures>>

\* ... the start returns and stop_required is set ...
RwStartReturns ==
    /\ rw.at = "starting"
    /\ LET s == rw.index
       IN  \/ start_succeeds(s) /\ rw_goto("started")
              /\ stop_required' = [stop_required EXCEPT ![s] = TRUE]
           \/ start_fails(s) /\ rw_goto("failed")
              /\ stop_required' = [stop_required EXCEPT ![s] = stop_after_start_attempt(s)]
    /\ UNCHANGED <<reported, modes>>

\* ... and the outcome is reported.
RwStarted ==
    /\ rw.at \in {"started", "failed"}
    /\ set_service_state(rw.index, IF rw.at = "started" THEN "RUNNING" ELSE "FAILED")
    /\ rw' = [rw EXCEPT !.at = "start_loop", !.index = rw.index + 1, !.start_call = FALSE,
                        !.success = rw.success /\ rw.at = "started"]
    /\ UNCHANGED <<stop_required, modes, real, failures>>

\* After both loops: a target that is still wanted is complete.
RwCompletes ==
    /\ rw.at = "start_loop" /\ rw.index = COUNT
    /\ rw' = [rw EXCEPT !.at = "end", !.completed = target_current]
    /\ IF target_current /\ rw.target = "HOME" THEN resumes ELSE UNCHANGED <<suspended, net>>
    /\ UNCHANGED <<reported, stop_required, modes, up, cancel, failures>>

RwFinishes ==
    /\ rw.at = "end"
    /\ rw_goto("finished")
    /\ LET done == rw.completed /\ rw.success
           failed == rw.completed /\ ~rw.success
       IN  /\ applied' = IF done THEN rw.target ELSE applied
           /\ transition' = IF done THEN Quiet
                            ELSE IF failed THEN [active |-> FALSE, failed |-> TRUE, waiting |-> TRUE]
                            ELSE [transition EXCEPT !.active = FALSE]
    /\ UNCHANGED <<reported, stop_required, desired, real, failures>>

ResourceWorker ==
    /\ \/ RwSuspends \/ RwStopLoop \/ RwStops \/ RwStopped
       \/ RwStartLoop \/ RwPrepares \/ RwCallsStart \/ RwStartReturns \/ RwStarted
       \/ RwCompletes \/ RwFinishes
    /\ UNCHANGED <<worker, next_service, main, caller, changes>>

-----------------------------------------------------------------------------
(* protocol_coordinator_start, on main *)

main_goto(place) == main' = [main EXCEPT !.at = place]

Start ==
    /\ main.at = "idle" /\ lifecycle = "STOPPED"
    /\ services' = [s \in Service |-> IF s \in config.enabled THEN "STARTING" ELSE "DISABLED"]
    /\ lifecycle' = recompute_state("STARTING", services')
    /\ runtime_active' = TRUE
    /\ desired' = "HOME" /\ applied' = "HOME" /\ transition' = Quiet
    /\ next_service' = 0
    /\ main' = [main EXCEPT !.at = IF config.serial THEN "serial" ELSE "launch", !.index = 0]
    /\ UNCHANGED <<config, stop_required, worker, rw, caller, real, bounds>>

\* coordinator_launch_service_worker: the thread is created or not.
launch_service_worker(s) ==
    \/ /\ worker' = [worker EXCEPT ![s] = "launched"]
       /\ UNCHANGED <<reported, failures>>
    \/ /\ Fails
       /\ set_service_state(s, "FAILED")
       /\ UNCHANGED worker

\* The loop of a parallel startup.
LaunchEach ==
    /\ main.at = "launch"
    /\ IF main.index \in config.enabled THEN launch_service_worker(main.index)
                                        ELSE UNCHANGED <<reported, worker, failures>>
    /\ main' = IF main.index = COUNT - 1 THEN IdleMain ELSE [main EXCEPT !.index = @ + 1]
    /\ UNCHANGED <<stop_required, next_service, modes, rw, caller, real, changes>>

-----------------------------------------------------------------------------
(* protocol_coordinator_tick, on main.  Its coordinator_sync_active_media is *)
(* one of the callers of set_desired_resource_mode.                          *)

\* coordinator_reap_finished_workers
TickReaps ==
    /\ main.at = "idle" /\ runtime_active
    /\ worker' = [s \in Service |-> IF worker[s] = "finished" THEN "none" ELSE worker[s]]
    /\ rw' = IF rw.at = "finished" THEN [rw EXCEPT !.at = "none"] ELSE rw
    /\ main_goto(IF config.serial THEN "serial" ELSE "resource")
    /\ UNCHANGED <<reported, stop_required, next_service, modes, caller, real, bounds>>

worker_active == \E s \in Service : worker[s] # "none"

\* coordinator_launch_next_serial_worker
TickSerial ==
    /\ main.at = "serial"
    /\ LET left == {s \in config.enabled : s >= next_service}
       IN  IF may_run /\ ~worker_active
           THEN IF left # {}
                THEN LET s == CHOOSE x \in left : \A y \in left : x <= y
                     IN  next_service' = s + 1 /\ launch_service_worker(s)
                ELSE next_service' = COUNT /\ UNCHANGED <<reported, worker, failures>>
           ELSE UNCHANGED <<reported, worker, next_service, failures>>
    /\ main_goto("resource")
    /\ UNCHANGED <<stop_required, modes, rw, caller, real, changes>>

\* A plausible slip: a mode once applied is taken to stay in place.
mutant_launch_due ==
    /\ may_run /\ config.exclusive /\ rw.at = "none"
    /\ desired # applied
    /\ ~(transition.failed /\ transition.waiting)

launch_due ==
    /\ may_run /\ config.exclusive /\ rw.at = "none"
    /\ desired # applied \/ ~services_match(desired)
    /\ ~(transition.failed /\ transition.waiting)

\* A plausible slip: the service workers are not waited for.
mutant_TickChecks ==
    /\ main.at = "resource"
    /\ main' = IF launch_due THEN [main EXCEPT !.at = "create", !.target = desired]
                             ELSE [main EXCEPT !.at = "poll"]
    /\ UNCHANGED <<reported, stop_required, worker, next_service, modes, rw, caller, real, bounds>>

\* coordinator_launch_resource_worker: the checks ...
TickChecks ==
    /\ main.at = "resource"
    /\ main' = IF launch_due /\ ~worker_active
               THEN [main EXCEPT !.at = "create", !.target = desired]
               ELSE [main EXCEPT !.at = "poll"]
    /\ UNCHANGED <<reported, stop_required, worker, next_service, modes, rw, caller, real, bounds>>

\* ... and the creation of the thread, for the mode desired then.
TickCreates ==
    /\ main.at = "create"
    /\ \/ /\ rw' = [NoResourceWorker EXCEPT !.at = "begin", !.target = main.target]
          /\ transition' = [transition EXCEPT !.active = TRUE, !.failed = FALSE]
          /\ UNCHANGED failures
       \/ /\ Fails
          /\ rw' = [NoResourceWorker EXCEPT !.target = main.target]
          /\ transition' = [active |-> FALSE, failed |-> TRUE, waiting |-> TRUE]
    /\ main' = [IdleMain EXCEPT !.at = "poll"]
    /\ UNCHANGED <<reported, stop_required, worker, next_service, desired, applied, caller,
                   real, changes>>

TickPolls ==
    /\ main.at = "poll"
    /\ main_goto(IF may_run /\ stop_required[AIRPLAY] THEN "status" ELSE "idle")
    /\ UNCHANGED <<reported, stop_required, worker, next_service, modes, rw, caller, real, bounds>>

\* operations.airplay_get_status: nothing if AirPlay's mutex is taken.
TickReadsStatus ==
    /\ main.at = "status"
    /\ \/ main_goto("idle")
       \/ main' = [main EXCEPT !.at = "polled", !.status = up[AIRPLAY]]
    /\ UNCHANGED <<reported, stop_required, worker, next_service, modes, rw, caller, real, bounds>>

TickReports ==
    /\ main.at = "polled"
    /\ set_service_state(AIRPLAY, CASE main.status = "up" -> "RUNNING"
                                    [] main.status = "starting" -> "STARTING"
                                    [] OTHER -> "FAILED")
    /\ main' = IdleMain
    /\ UNCHANGED <<stop_required, worker, next_service, modes, rw, caller, real, bounds>>

Tick ==
    \/ TickReaps \/ TickSerial \/ TickChecks \/ TickCreates
    \/ TickPolls \/ TickReadsStatus \/ TickReports

-----------------------------------------------------------------------------
(* protocol_coordinator_stop, on main *)

BeginStop ==
    /\ main.at = "idle" /\ lifecycle \in {"STARTING", "RUNNING"}
    /\ changes < MaxChanges /\ changes' = changes + 1
    /\ lifecycle' = "STOPPING"
    /\ main_goto("request")
    /\ UNCHANGED <<config, runtime_active, services, stop_required, worker, next_service,
                   modes, rw, caller, real, failures>>

StopRequests ==
    /\ main.at = "request"
    /\ cancel' = (cancel \/ services[AIRPLAY] # "DISABLED")
    /\ main_goto("join_resource")
    /\ UNCHANGED <<reported, stop_required, worker, next_service, modes, rw, caller,
                   up, net, suspended, bounds>>

StopJoinsResource ==
    /\ main.at = "join_resource" /\ rw.at \in {"none", "finished"}
    /\ rw' = [rw EXCEPT !.at = "none"]
    /\ main_goto("join_services")
    /\ UNCHANGED <<reported, stop_required, worker, next_service, modes, caller, real, bounds>>

\* A plausible slip: what has to be stopped is read before the joins.
mutant_StopJoinsServices ==
    /\ main.at = "join_services"
    /\ main' = [main EXCEPT !.at = "stop_list", !.list = {s \in Service : stop_required[s]}]
    /\ worker' = [s \in Service |-> IF worker[s] = "finished" THEN "none" ELSE worker[s]]
    /\ UNCHANGED <<reported, stop_required, next_service, modes, rw, caller, real, bounds>>

\* The joins, then the services that have to be stopped.
StopJoinsServices ==
    /\ main.at = "join_services" /\ \A s \in Service : worker[s] \in {"none", "finished"}
    /\ worker' = [s \in Service |-> "none"]
    /\ main' = [main EXCEPT !.at = "stop_list", !.list = {s \in Service : stop_required[s]}]
    /\ UNCHANGED <<reported, stop_required, next_service, modes, rw, caller, real, bounds>>

\* In reverse order.
StopCalls ==
    /\ main.at = "stop_list" /\ main.list # {}
    /\ LET s == CHOOSE x \in main.list : \A y \in main.list : x >= y
       IN  /\ stop_called(s)
           /\ main' = [main EXCEPT !.at = "stop_state", !.index = s, !.list = @ \ {s}]
    /\ UNCHANGED <<reported, stop_required, worker, next_service, modes, rw, caller, bounds>>

StopReports ==
    /\ main.at = "stop_state"
    /\ set_service_state(main.index, "STOPPED")
    /\ main_goto("stop_list")
    /\ UNCHANGED <<stop_required, worker, next_service, modes, rw, caller, real, bounds>>

\* protocol_coordinator_finish_stop
FinishStop ==
    /\ main.at = "stop_list" /\ main.list = {}
    /\ services' = [s \in Service |-> IF services[s] = "DISABLED" THEN "DISABLED" ELSE "STOPPED"]
    /\ desired' = "HOME" /\ applied' = "HOME" /\ transition' = Quiet
    /\ lifecycle' = "STOPPED"
    /\ main_goto("clear")
    /\ UNCHANGED <<config, runtime_active, stop_required, worker, next_service, rw, caller,
                   real, bounds>>

\* Background fetches resume, and the runtime is cleared.
StopClears ==
    /\ main.at = "clear"
    /\ resumes
    /\ stop_required' = [s \in Service |-> FALSE]
    /\ runtime_active' = FALSE
    /\ next_service' = 0
    /\ rw' = NoResourceWorker
    /\ main' = IdleMain
    /\ UNCHANGED <<config, lifecycle, services, worker, modes, caller, up, cancel, bounds>>

Stop ==
    \/ StopRequests \/ StopJoinsResource \/ StopJoinsServices \/ StopCalls
    \/ StopReports \/ FinishStop \/ StopClears

-----------------------------------------------------------------------------
Next ==
    \/ Start \/ LaunchEach
    \/ Tick
    \/ BeginStop \/ Stop
    \/ \E s \in Service : ServiceWorker(s)
    \/ ResourceWorker
    \/ \E mode \in Mode : set_desired_resource_mode(mode)
    \/ CallerRequestsStop
    \/ RetryDue

Spec == Init /\ [][Next]_vars

\* Frames follow each other, threads run on, a service's start and stop
\* return, and time passes.  Nothing makes main start or stop, or a claim.
Fairness ==
    /\ WF_vars(LaunchEach \/ Tick \/ Stop)
    /\ \A s \in Service : WF_vars(ServiceWorker(s))
    /\ WF_vars(ResourceWorker)
    /\ WF_vars(CallerRequestsStop)
    /\ WF_vars(RetryDue)

FairSpec == Spec /\ Fairness

-----------------------------------------------------------------------------
(* Properties. *)

\* A service is driven by one thread at a time: no start or stop is called
\* while another thread is inside a start or stop of the same service.
Calls(s) ==
    (IF worker[s] \in {"launched", "starting"} THEN {"worker"} ELSE {})
    \cup (IF rw.at \in {"stopping", "call", "starting"} /\ rw.index = s THEN {"resource"} ELSE {})
    \cup (IF main.at = "stop_list" /\ s \in main.list THEN {"main"} ELSE {})

OneDriver == \A s \in Service : Cardinality(Calls(s)) <= 1

\* A coordinator that has stopped leaves no thread, no service that runs or
\* holds what a failed start took, and no suspended background fetches.
StopLeavesNothing ==
    lifecycle = "STOPPED" /\ main.at = "idle" =>
        /\ \A s \in Service : worker[s] = "none" /\ up[s] = "down"
        /\ rw.at = "none"
        /\ net = "active" /\ ~suspended

\* What protocol_coordinator_media_wait_resources waits for, the lease apart.
ready(mode) == applied = mode /\ ~transition.active /\ services_match(mode)

\* Media that waited for its exclusive resources has the receivers to
\* itself: every service its mode does not need is down, whatever failed,
\* was superseded or was reported late before.
ReceiversIsolated ==
    \A mode \in Mode : config.exclusive /\ ready(mode) =>
        \A s \in config.enabled : ~required(mode, s) => up[s] = "down"

\* A failed quiesce of IPTV's background fetches keeps an exclusive mode
\* unapplied: media that waited for it does not compete with them.
ReadyMeansQuiesced ==
    \A mode \in Mode \ {"HOME"} :
        config.exclusive /\ may_run /\ ready(mode) => net = "quiet"

\* Once claims and releases cease, the resources settle in the mode desired
\* last, in spite of superseded, cancelled and failed transitions.
Settled == desired = applied /\ services_match(desired)
ResourcesConverge == <>[](lifecycle = "STOPPED" \/ (config.exclusive => Settled))

\* The coordinator rests in home mode: nothing will be launched.
RestsAtHome ==
    /\ lifecycle = "RUNNING" /\ config.exclusive
    /\ main.at = "idle" /\ rw.at = "none"
    /\ desired = "HOME" /\ Settled /\ ~transition.failed

\* In home mode IPTV's refresh and logo fetches run, and so does every
\* enabled service.
HomeNetworkRuns == net = "active"
HomeServicesRun == \A s \in config.enabled : up[s] = "up"

HomeIsComplete == RestsAtHome => HomeNetworkRuns /\ HomeServicesRun
=============================================================================
