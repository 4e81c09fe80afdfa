---------------------- MODULE ResourceCoordinator_proofs ----------------------
(***************************************************************************)
(* Proofs about ResourceCoordinator for any configurations and any bounds  *)
(* on failures and on changes of the desired mode.                         *)
(***************************************************************************)
EXTENDS ResourceCoordinator, FiniteSetTheorems, TLAPS

-----------------------------------------------------------------------------
(* The parts of the inductive invariant. *)

TickPlaces == {"launch", "serial", "resource", "create", "poll", "status", "polled"}
StopPlaces == {"request", "join_resource", "join_services", "stop_list", "stop_state"}
Joined == {"stop_list", "stop_state", "clear"}
Loops == {"stop_loop", "stopping", "stopped", "prepare", "call", "starting", "started", "failed"}

\* Loop indices name services where they are used as one, and only IPTV's
\* failed start leaves something behind.
IndexOK ==
    /\ rw.at \in Loops => rw.index \in Service
    /\ main.at \in {"launch", "stop_state"} => main.index \in Service
    /\ \A s \in Service : up[s] = "partial" => s = IPTV

\* Where main is, by the lifecycle of the coordinator.
PhaseOK ==
    /\ main.at \in TickPlaces => lifecycle \in {"STARTING", "RUNNING"} /\ runtime_active
    /\ main.at \in StopPlaces => lifecycle = "STOPPING"
    /\ main.at = "clear" => lifecycle = "STOPPED"
    /\ main.at = "idle" => lifecycle # "STOPPING" /\ runtime_active = (lifecycle # "STOPPED")
    /\ main.at = "serial" => config.serial

NoWorkers == \A s \in Service : worker[s] = "none"

\* The resource worker runs only while no service worker does, and neither
\* kind outlives the joins of a stop.
ThreadsOK ==
    /\ rw.at \notin {"none", "finished"} => config.exclusive /\ NoWorkers
    /\ main.at = "create" => config.exclusive /\ NoWorkers
    /\ main.at = "launch" => \A s \in Service : s >= main.index => worker[s] = "none"
    /\ main.at \in {"launch", "create", "join_services"} => rw.at = "none"
    /\ main.at \in Joined \/ lifecycle = "STOPPED" => rw.at = "none" /\ NoWorkers

\* A service that is up, or holds something, has its stop required; one that
\* starts has a thread inside its start.
DrivenOK ==
    /\ \A s \in Service : up[s] \in {"up", "partial"} => stop_required[s]
    /\ \A s \in Service : up[s] = "starting" =>
           worker[s] = "starting" \/ (rw.at = "starting" /\ rw.index = s)
    /\ rw.at = "stopped" => up[rw.index] = "down"

\* A stop has called, or will call, the stop of every service not down.
StoppingOK ==
    /\ main.at \in Joined => \A s \in Service : up[s] # "down" => s \in main.list
    /\ main.at = "stop_state" => up[main.index] = "down"
    /\ main.at = "clear" => main.list = {}
    /\ main.at = "idle" /\ lifecycle = "STOPPED" =>
           ~suspended /\ \A s \in Service : up[s] = "down"

\* Background fetches are held back only while they are suspended.
NetOK == ~suspended => net = "active"

\* A service reported STOPPED is down, and no thread is about to start it.
ReportOK ==
    /\ \A s \in Service : services[s] = "STOPPED" => up[s] = "down"
    /\ \A s \in Service : worker[s] \in {"launched", "starting"} => services[s] # "STOPPED"
    /\ rw.at \in {"call", "starting"} => services[rw.index] # "STOPPED"
    /\ lifecycle \in {"STARTING", "RUNNING"} /\ (main.at = "launch" \/ ~config.exclusive) =>
           \A s \in Service : services[s] # "STOPPED"

Inv1 == TypeOK /\ IndexOK
Inv2 == Inv1 /\ PhaseOK /\ ThreadsOK
Inv3 == Inv2 /\ DrivenOK /\ StoppingOK /\ NetOK
Inv4 == Inv3 /\ ReportOK

-----------------------------------------------------------------------------
(* What the helpers do. *)

States == {"DISABLED", "STOPPED", "STARTING", "RUNNING", "FAILED"}
Lifecycles == {"STOPPED", "STARTING", "RUNNING", "STOPPING"}
RwState == [at : RwPlaces, target : Mode, index : 0 .. COUNT, success : BOOLEAN,
            completed : BOOLEAN, start_call : BOOLEAN]
MainState == [at : MainPlaces, index : 0 .. COUNT, target : Mode,
              status : {"down", "starting", "up"}, list : SUBSET Service]
TransitionState == [active : BOOLEAN, failed : BOOLEAN, waiting : BOOLEAN]
UpState == [Service -> {"down", "starting", "up", "partial"}]

ReportedOK == /\ config \in Configs
              /\ lifecycle \in Lifecycles
              /\ runtime_active \in BOOLEAN
              /\ services \in [Service -> States]
StartOK == /\ stop_required \in [Service -> BOOLEAN]
           /\ worker \in [Service -> WorkerPlaces]
           /\ next_service \in 0 .. COUNT
ModesOK == desired \in Mode /\ applied \in Mode /\ transition \in TransitionState
RealOK == up \in UpState /\ cancel \in BOOLEAN /\ net \in {"active", "draining", "quiet"}
          /\ suspended \in BOOLEAN
BoundsOK == failures \in 0 .. MaxFailures /\ changes \in 0 .. MaxChanges

Types == /\ ReportedOK /\ StartOK /\ ModesOK /\ RealOK /\ BoundsOK
         /\ rw \in RwState /\ main \in MainState
         /\ caller \in {"idle", "request_stop"}

Parts == /\ Types /\ IndexOK /\ PhaseOK /\ ThreadsOK /\ DrivenOK /\ StoppingOK /\ NetOK
         /\ ReportOK

LEMMA TypesAreParts == (TypeOK <=> Types) /\ (TypeOK' <=> Types')
  BY DEF TypeOK, Types, ReportedOK, StartOK, ModesOK, RealOK, BoundsOK, RwState, MainState,
     States, Lifecycles, TransitionState, UpState

LEMMA InvParts == (Inv4 <=> Parts) /\ (Inv4' <=> Parts')
  BY TypesAreParts DEF Inv4, Inv3, Inv2, Inv1, Parts

LEMMA ServiceIs == Service = {0, 1, 2} /\ COUNT = 3 /\ IPTV = 0 /\ DLNA = 1 /\ AIRPLAY = 2
  BY DEF Service, COUNT, IPTV, DLNA, AIRPLAY

\* The first and the last of some services.
LEMMA FirstAndLast ==
    ASSUME NEW S \in SUBSET Service, S # {}
    PROVE  /\ (CHOOSE x \in S : \A y \in S : x <= y) \in S
           /\ (CHOOSE x \in S : \A y \in S : x >= y) \in S
  <1>1. \E x \in S : \A y \in S : x <= y
    <2>1. CASE 0 \in S
      BY <2>1, ServiceIs
    <2>2. CASE 0 \notin S /\ 1 \in S
      BY <2>2, ServiceIs
    <2>3. CASE 0 \notin S /\ 1 \notin S
      <3>1. 2 \in S /\ \A y \in S : y = 2
        BY <2>3, ServiceIs
      <3> QED
        BY <3>1
    <2> QED
      BY <2>1, <2>2, <2>3
  <1>2. \E x \in S : \A y \in S : x >= y
    <2>1. CASE 2 \in S
      BY <2>1, ServiceIs
    <2>2. CASE 2 \notin S /\ 1 \in S
      BY <2>2, ServiceIs
    <2>3. CASE 2 \notin S /\ 1 \notin S
      <3>1. 0 \in S /\ \A y \in S : y = 0
        BY <2>3, ServiceIs
      <3> QED
        BY <3>1
    <2> QED
      BY <2>1, <2>2, <2>3
  <1> QED
    BY <1>1, <1>2

\* protocol_coordinator_set_service_state changes one service, and at most
\* ends the startup.
LEMMA SetState ==
    ASSUME ReportedOK, NEW s \in Service, NEW state \in States, set_service_state(s, state)
    PROVE  /\ ReportedOK' /\ UNCHANGED <<config, runtime_active>>
           /\ lifecycle' = lifecycle \/ (lifecycle = "STARTING" /\ lifecycle' = "RUNNING")
           /\ \A u \in Service \ {s} : services'[u] = services[u]
           /\ services'[s] = IF lifecycle = "STOPPED" THEN services[s] ELSE state
  <1>1. /\ services' \in [Service -> States]
        /\ \A u \in Service \ {s} : services'[u] = services[u]
        /\ services'[s] = IF lifecycle = "STOPPED" THEN services[s] ELSE state
    BY DEF set_service_state, ReportedOK
  <1>2. lifecycle' = lifecycle \/ (lifecycle = "STARTING" /\ lifecycle' = "RUNNING")
    BY DEF set_service_state, recompute_state
  <1>3. UNCHANGED <<config, runtime_active>>
    BY DEF set_service_state
  <1> QED
    BY <1>1, <1>2, <1>3 DEF ReportedOK, Lifecycles

\* What calling a service's start and stop does, and what a start returns.
LEMMA StartCalled ==
    ASSUME RealOK, NEW s \in Service, start_called(s)
    PROVE  /\ RealOK' /\ UNCHANGED <<net, suspended>>
           /\ up'[s] = "starting" /\ \A u \in Service \ {s} : up'[u] = up[u]
  BY DEF RealOK, start_called, UpState

LEMMA StopCalled ==
    ASSUME RealOK, NEW s \in Service, stop_called(s)
    PROVE  /\ RealOK' /\ UNCHANGED <<net, suspended>>
           /\ up'[s] = "down" /\ \A u \in Service \ {s} : up'[u] = up[u]
  BY DEF RealOK, stop_called, UpState

LEMMA StartSucceeds ==
    ASSUME RealOK, NEW s \in Service, start_succeeds(s)
    PROVE  /\ RealOK' /\ UNCHANGED <<net, suspended, failures>>
           /\ up'[s] = "up" /\ \A u \in Service \ {s} : up'[u] = up[u]
  BY DEF RealOK, start_succeeds, UpState

LEMMA StartFails ==
    ASSUME RealOK, BoundsOK, NEW s \in Service, start_fails(s)
    PROVE  /\ RealOK' /\ UNCHANGED <<net, suspended>> /\ failures' \in 0 .. MaxFailures
           /\ up'[s] = (IF s = IPTV THEN "partial" ELSE "down")
           /\ \A u \in Service \ {s} : up'[u] = up[u]
  <1>1. failures' \in 0 .. MaxFailures
    BY ResourceAssumption DEF start_fails, Fails, BoundsOK
  <1> QED
    BY <1>1 DEF RealOK, start_fails, UpState, stop_after_start_attempt

LEMMA RwGoto ==
    ASSUME rw \in RwState, NEW place \in RwPlaces, rw_goto(place)
    PROVE  /\ rw' \in RwState /\ rw'.at = place /\ rw'.index = rw.index
           /\ rw'.target = rw.target
  BY DEF rw_goto, RwState

LEMMA MainGoto ==
    ASSUME main \in MainState, NEW place \in MainPlaces, main_goto(place)
    PROVE  /\ main' \in MainState /\ main'.at = place /\ main'.index = main.index
           /\ main'.list = main.list
  BY DEF main_goto, MainState

LEMMA Records ==
    /\ IdleMain \in MainState /\ IdleMain.at = "idle" /\ IdleMain.list = {}
    /\ NoResourceWorker \in RwState /\ NoResourceWorker.at = "none"
    /\ Quiet \in TransitionState
  BY ServiceIs DEF IdleMain, MainState, NoResourceWorker, RwState, Quiet, TransitionState,
     MainPlaces, RwPlaces, Mode

-----------------------------------------------------------------------------
(* The steps of the service workers. *)

LEMMA ServiceWorkerStep ==
    ASSUME Inv4, NEW s \in Service, ServiceWorker(s)
    PROVE  Inv4'
  <1> USE DEF Parts, reported, modes, real, bounds
  <1>0. Parts
    BY InvParts
  <1>1. /\ worker \in [Service -> WorkerPlaces]
        /\ UNCHANGED <<next_service, modes, rw, main, caller, changes>>
    BY <1>0 DEF Types, StartOK, ServiceWorker
  <1>2. worker[s] # "none" =>
            /\ rw.at \in {"none", "finished"} /\ main.at # "create"
            /\ main.at \notin Joined /\ lifecycle # "STOPPED"
    BY <1>0 DEF ThreadsOK, NoWorkers
  <1>3. CASE WorkerStarts(s)
    <2>1. /\ worker[s] = "launched" /\ worker' \in [Service -> WorkerPlaces]
          /\ worker'[s] = "starting" /\ \A u \in Service \ {s} : worker'[u] = worker[u]
          /\ UNCHANGED <<reported, stop_required, failures>>
      BY <1>1, <1>3 DEF WorkerStarts, WorkerPlaces
    <2>2. /\ RealOK' /\ UNCHANGED <<net, suspended>>
          /\ up'[s] = "starting" /\ \A u \in Service \ {s} : up'[u] = up[u]
      BY <1>0, <1>3, StartCalled DEF WorkerStarts, Types
    <2>3. Types'
      BY <1>0, <1>1, <1>2, <2>1, <2>2 DEF Types, ReportedOK, StartOK, ModesOK, RealOK, BoundsOK
    <2>4. IndexOK' /\ PhaseOK' /\ NetOK'
      BY <1>0, <1>1, <1>2, <2>1, <2>2 DEF IndexOK, PhaseOK, NetOK, Loops, TickPlaces, StopPlaces
    <2>5. ThreadsOK'
      BY <1>0, <1>1, <1>2, <2>1, <2>2 DEF ThreadsOK, NoWorkers, Joined
    <2>6. DrivenOK'
      BY <1>0, <1>1, <1>2, <2>1, <2>2 DEF DrivenOK
    <2>7. StoppingOK'
      BY <1>0, <1>1, <1>2, <2>1, <2>2 DEF StoppingOK, Joined
    <2>8. ReportOK'
      BY <1>0, <1>1, <1>2, <2>1, <2>2 DEF ReportOK
    <2> QED
      BY <2>3, <2>4, <2>5, <2>6, <2>7, <2>8, InvParts DEF Parts
  <1>4. CASE WorkerStartReturns(s)
    <2>1. /\ worker[s] = "starting" /\ worker' \in [Service -> WorkerPlaces]
          /\ worker'[s] \in {"started", "failed"} /\ \A u \in Service \ {s} : worker'[u] = worker[u]
          /\ UNCHANGED reported
      BY <1>1, <1>4 DEF WorkerStartReturns, WorkerPlaces
    <2>2. /\ stop_required' \in [Service -> BOOLEAN]
          /\ \A u \in Service \ {s} : stop_required'[u] = stop_required[u]
          /\ RealOK' /\ UNCHANGED <<net, suspended>> /\ failures' \in 0 .. MaxFailures
          /\ up'[s] \in {"up", "partial", "down"} /\ \A u \in Service \ {s} : up'[u] = up[u]
          /\ up'[s] # "down" => stop_required'[s]
          /\ up'[s] = "partial" => s = IPTV
      <3>1. CASE start_succeeds(s) /\ stop_required' = [stop_required EXCEPT ![s] = TRUE]
        BY <1>0, <3>1, StartSucceeds DEF Types, StartOK, BoundsOK
      <3>2. CASE /\ start_fails(s)
                 /\ stop_required' = [stop_required EXCEPT ![s] = stop_after_start_attempt(s)]
        BY <1>0, <3>2, StartFails DEF Types, StartOK, BoundsOK, stop_after_start_attempt
      <3> QED
        BY <1>4, <3>1, <3>2 DEF WorkerStartReturns
    <2>3. Types'
      BY <1>0, <1>1, <1>2, <2>1, <2>2 DEF Types, ReportedOK, StartOK, ModesOK, RealOK, BoundsOK
    <2>4. IndexOK' /\ PhaseOK' /\ NetOK'
      BY <1>0, <1>1, <1>2, <2>1, <2>2 DEF IndexOK, PhaseOK, NetOK, Loops, TickPlaces, StopPlaces
    <2>5. ThreadsOK'
      BY <1>0, <1>1, <1>2, <2>1, <2>2 DEF ThreadsOK, NoWorkers, Joined
    <2>6. DrivenOK'
      BY <1>0, <1>1, <1>2, <2>1, <2>2 DEF DrivenOK
    <2>7. StoppingOK'
      BY <1>0, <1>1, <1>2, <2>1, <2>2 DEF StoppingOK, Joined
    <2>8. ReportOK'
      BY <1>0, <1>1, <1>2, <2>1, <2>2 DEF ReportOK
    <2> QED
      BY <2>3, <2>4, <2>5, <2>6, <2>7, <2>8, InvParts DEF Parts
  <1>5. CASE WorkerReports(s)
    <2>1. /\ worker[s] \in {"started", "failed"} /\ worker' \in [Service -> WorkerPlaces]
          /\ worker'[s] = "recorded" /\ \A u \in Service \ {s} : worker'[u] = worker[u]
          /\ UNCHANGED <<stop_required, real, failures>>
      BY <1>1, <1>5 DEF WorkerReports, WorkerPlaces
    <2>2. /\ ReportedOK' /\ UNCHANGED <<config, runtime_active>>
          /\ lifecycle' = lifecycle \/ (lifecycle = "STARTING" /\ lifecycle' = "RUNNING")
          /\ \A u \in Service \ {s} : services'[u] = services[u]
          /\ services'[s] # "STOPPED"
      BY <1>0, <1>2, <1>5, <2>1, SetState DEF WorkerReports, Types, States
    <2>3. Types'
      BY <1>0, <1>1, <1>2, <2>1, <2>2 DEF Types, ReportedOK, StartOK, ModesOK, RealOK, BoundsOK
    <2>4. IndexOK' /\ PhaseOK' /\ NetOK'
      BY <1>0, <1>1, <1>2, <2>1, <2>2 DEF IndexOK, PhaseOK, NetOK, Loops, TickPlaces, StopPlaces
    <2>5. ThreadsOK'
      BY <1>0, <1>1, <1>2, <2>1, <2>2 DEF ThreadsOK, NoWorkers, Joined
    <2>6. DrivenOK'
      BY <1>0, <1>1, <1>2, <2>1, <2>2 DEF DrivenOK
    <2>7. StoppingOK'
      BY <1>0, <1>1, <1>2, <2>1, <2>2 DEF StoppingOK, Joined
    <2>8. ReportOK'
      BY <1>0, <1>1, <1>2, <2>1, <2>2 DEF ReportOK
    <2> QED
      BY <2>3, <2>4, <2>5, <2>6, <2>7, <2>8, InvParts DEF Parts
  <1>6. CASE WorkerFinishes(s)
    <2>1. /\ worker[s] = "recorded" /\ worker' \in [Service -> WorkerPlaces]
          /\ worker'[s] = "finished" /\ \A u \in Service \ {s} : worker'[u] = worker[u]
          /\ UNCHANGED <<reported, stop_required, real, failures>>
      BY <1>1, <1>6 DEF WorkerFinishes, WorkerPlaces
    <2>2. Types'
      BY <1>0, <1>1, <1>2, <2>1 DEF Types, ReportedOK, StartOK, ModesOK, RealOK, BoundsOK
    <2>3. IndexOK' /\ PhaseOK' /\ NetOK'
      BY <1>0, <1>1, <1>2, <2>1 DEF IndexOK, PhaseOK, NetOK, Loops, TickPlaces, StopPlaces
    <2>4. ThreadsOK'
      BY <1>0, <1>1, <1>2, <2>1 DEF ThreadsOK, NoWorkers, Joined
    <2>5. DrivenOK'
      BY <1>0, <1>1, <1>2, <2>1 DEF DrivenOK
    <2>6. StoppingOK'
      BY <1>0, <1>1, <1>2, <2>1 DEF StoppingOK, Joined
    <2>7. ReportOK'
      BY <1>0, <1>1, <1>2, <2>1 DEF ReportOK
    <2> QED
      BY <2>2, <2>3, <2>4, <2>5, <2>6, <2>7, InvParts DEF Parts
  <1> QED
    BY <1>3, <1>4, <1>5, <1>6 DEF ServiceWorker

-----------------------------------------------------------------------------
(* The steps of the resource worker. *)

LEMMA AfterStopLoop ==
    ASSUME rw \in RwState, NEW i \in Service
    PROVE  /\ after_stop_loop(i) \in RwState
           /\ after_stop_loop(i).at \in {"stop_loop", "start_loop"}
           /\ after_stop_loop(i).at = "stop_loop" => after_stop_loop(i).index \in Service
  <1>1. CASE i = 0
    <2>1. 0 \in 0 .. COUNT
      BY ServiceIs
    <2> QED
      BY <1>1, <2>1 DEF after_stop_loop, RwState, RwPlaces
  <1>2. CASE i # 0
    <2>1. i - 1 \in Service /\ i - 1 \in 0 .. COUNT
      BY <1>2, ServiceIs
    <2> QED
      BY <1>2, <2>1 DEF after_stop_loop, RwState, RwPlaces
  <1> QED
    BY <1>1, <1>2

LEMMA ResourceWorkerStep ==
    ASSUME Inv4, ResourceWorker
    PROVE  Inv4'
  <1> USE DEF Parts, reported, modes, real, bounds
  <1>0. Parts
    BY InvParts
  <1>1. rw \in RwState /\ UNCHANGED <<worker, next_service, main, caller, changes>>
    BY <1>0 DEF Types, ResourceWorker
  <1>2. rw.at \notin {"none", "finished"} =>
            /\ config.exclusive /\ NoWorkers
            /\ main.at \notin Joined \cup {"launch", "create", "join_services"}
            /\ lifecycle # "STOPPED"
    BY <1>0 DEF ThreadsOK
  <1>3. rw.at \in Loops => rw.index \in Service
    BY <1>0 DEF IndexOK
  <1>4. CASE RwSuspends
    <2>1. /\ rw.at = "begin" /\ rw' \in RwState
          /\ rw'.at = "stop_loop" /\ rw'.index \in Service
          /\ UNCHANGED <<reported, stop_required, modes, up, cancel>>
      <3>1. COUNT - 1 \in Service /\ COUNT - 1 \in 0 .. COUNT
        BY ServiceIs
      <3>2. \E quiesced \in BOOLEAN :
                rw' = [rw EXCEPT !.at = "stop_loop", !.index = COUNT - 1, !.success = quiesced]
        BY <1>4 DEF RwSuspends
      <3> QED
        BY <1>1, <1>4, <3>1, <3>2 DEF RwSuspends, RwState, RwPlaces
    <2>2. /\ suspended' \in BOOLEAN /\ net' \in {"active", "draining", "quiet"}
          /\ failures' \in 0 .. MaxFailures
          /\ ~suspended' => net' = "active"
      <3>1. CASE UNCHANGED <<suspended, net, failures>>
        BY <1>0, <3>1 DEF Types, RealOK, BoundsOK, NetOK
      <3>2. ASSUME NEW quiesced \in BOOLEAN, quiesces(quiesced)
            PROVE  /\ suspended' = TRUE /\ net' \in {"draining", "quiet"}
                   /\ failures' \in 0 .. MaxFailures
        BY <1>0, <3>2, ResourceAssumption DEF quiesces, Fails, Types, BoundsOK
      <3> QED
        BY <1>4, <3>1, <3>2 DEF RwSuspends
    <2>3. Types'
      BY <1>0, <1>1, <1>2, <2>1, <2>2 DEF Types, ReportedOK, StartOK, ModesOK, RealOK, BoundsOK
    <2>4. IndexOK' /\ PhaseOK' /\ NetOK'
      BY <1>0, <1>1, <1>2, <2>1, <2>2 DEF IndexOK, PhaseOK, NetOK, Loops, TickPlaces, StopPlaces
    <2>5. ThreadsOK'
      BY <1>0, <1>1, <1>2, <2>1, <2>2 DEF ThreadsOK, NoWorkers, Joined
    <2>6. DrivenOK'
      BY <1>0, <1>1, <1>2, <2>1, <2>2 DEF DrivenOK, NoWorkers
    <2>7. StoppingOK'
      BY <1>0, <1>1, <1>2, <2>1, <2>2 DEF StoppingOK, Joined
    <2>8. ReportOK'
      BY <1>0, <1>1, <1>2, <2>1, <2>2 DEF ReportOK, NoWorkers
    <2> QED
      BY <2>3, <2>4, <2>5, <2>6, <2>7, <2>8, InvParts DEF Parts
  <1>5. CASE RwStopLoop
    <2>1. /\ rw.at = "stop_loop" /\ rw.index \in Service
          /\ UNCHANGED <<reported, stop_required, modes, up, net, suspended, failures>>
      BY <1>3, <1>5 DEF RwStopLoop, Loops
    <2>2. /\ rw' \in RwState /\ rw'.at \in {"end", "stop_loop", "start_loop", "stopping"}
          /\ rw'.at \in {"stop_loop", "stopping"} => rw'.index \in Service
      <3>1. CASE rw' = [rw EXCEPT !.at = "end"] \/ rw' = [rw EXCEPT !.at = "stopping"]
        BY <1>1, <2>1, <3>1 DEF RwState, RwPlaces
      <3>2. CASE rw' = after_stop_loop(rw.index)
        BY <1>1, <2>1, <3>2, AfterStopLoop
      <3> QED
        BY <1>5, <3>1, <3>2 DEF RwStopLoop
    <2>3. cancel' \in BOOLEAN
      BY <1>0, <1>5 DEF RwStopLoop, Types, RealOK
    <2>4. Types'
      BY <1>0, <1>1, <1>2, <2>1, <2>2, <2>3 DEF Types, ReportedOK, StartOK, ModesOK, RealOK, BoundsOK
    <2>5. IndexOK' /\ PhaseOK' /\ NetOK'
      BY <1>0, <1>1, <1>2, <2>1, <2>2, <2>3 DEF IndexOK, PhaseOK, NetOK, Loops, TickPlaces, StopPlaces
    <2>6. ThreadsOK'
      BY <1>0, <1>1, <1>2, <2>1, <2>2, <2>3 DEF ThreadsOK, NoWorkers, Joined
    <2>7. DrivenOK'
      BY <1>0, <1>1, <1>2, <2>1, <2>2, <2>3 DEF DrivenOK, NoWorkers
    <2>8. StoppingOK'
      BY <1>0, <1>1, <1>2, <2>1, <2>2, <2>3 DEF StoppingOK, Joined
    <2>9. ReportOK'
      BY <1>0, <1>1, <1>2, <2>1, <2>2, <2>3 DEF ReportOK, NoWorkers
    <2> QED
      BY <2>4, <2>5, <2>6, <2>7, <2>8, <2>9, InvParts DEF Parts
  <1>6. CASE RwStops
    <2>1. /\ rw.at = "stopping" /\ rw.index \in Service /\ rw' \in RwState
          /\ rw'.at = "stopped" /\ rw'.index = rw.index
          /\ UNCHANGED <<reported, stop_required, modes, failures>>
      BY <1>1, <1>3, <1>6, RwGoto DEF RwStops, Loops, RwPlaces
    <2>2. /\ RealOK' /\ UNCHANGED <<net, suspended>>
          /\ up'[rw.index] = "down" /\ \A u \in Service \ {rw.index} : up'[u] = up[u]
      <3>1. CASE stop_required[rw.index]
        BY <1>0, <1>6, <2>1, <3>1, StopCalled DEF RwStops, Types
      <3>2. CASE ~stop_required[rw.index]
        <4>1. up[rw.index] = "down"
          BY <1>0, <1>2, <2>1, <3>2 DEF DrivenOK, NoWorkers, Types, RealOK, UpState
        <4> QED
          BY <1>0, <1>6, <3>2, <4>1 DEF RwStops, Types, RealOK
      <3> QED
        BY <3>1, <3>2
    <2>3. Types'
      BY <1>0, <1>1, <1>2, <2>1, <2>2 DEF Types, ReportedOK, StartOK, ModesOK, RealOK, BoundsOK
    <2>4. IndexOK' /\ PhaseOK' /\ NetOK'
      BY <1>0, <1>1, <1>2, <2>1, <2>2 DEF IndexOK, PhaseOK, NetOK, Loops, TickPlaces, StopPlaces
    <2>5. ThreadsOK'
      BY <1>0, <1>1, <1>2, <2>1, <2>2 DEF ThreadsOK, NoWorkers, Joined
    <2>6. DrivenOK'
      BY <1>0, <1>1, <1>2, <2>1, <2>2 DEF DrivenOK, NoWorkers
    <2>7. StoppingOK'
      BY <1>0, <1>1, <1>2, <2>1, <2>2 DEF StoppingOK, Joined
    <2>8. ReportOK'
      BY <1>0, <1>1, <1>2, <2>1, <2>2 DEF ReportOK, NoWorkers
    <2> QED
      BY <2>3, <2>4, <2>5, <2>6, <2>7, <2>8, InvParts DEF Parts
  <1>7. CASE RwStopped
    <2>1. /\ rw.at = "stopped" /\ rw.index \in Service /\ up[rw.index] = "down"
          /\ UNCHANGED <<modes, real, failures>>
      BY <1>0, <1>3, <1>7 DEF RwStopped, Loops, DrivenOK
    <2>2. /\ stop_required' \in [Service -> BOOLEAN] /\ stop_required'[rw.index] = FALSE
          /\ \A u \in Service \ {rw.index} : stop_required'[u] = stop_required[u]
      BY <1>0, <1>7, <2>1 DEF RwStopped, Types, StartOK
    <2>3. /\ rw' \in RwState /\ rw'.at \in {"prepare", "stop_loop", "start_loop"}
          /\ rw'.at \in {"prepare", "stop_loop"} => rw'.index \in Service
      <3>1. CASE rw' = [rw EXCEPT !.at = "prepare"]
        BY <1>1, <2>1, <3>1 DEF RwState, RwPlaces
      <3>2. CASE rw' = after_stop_loop(rw.index)
        BY <1>1, <2>1, <3>2, AfterStopLoop
      <3> QED
        BY <1>7, <3>1, <3>2 DEF RwStopped
    <2>4. /\ ReportedOK' /\ UNCHANGED <<config, runtime_active>>
          /\ lifecycle' = lifecycle \/ (lifecycle = "STARTING" /\ lifecycle' = "RUNNING")
          /\ \A u \in Service \ {rw.index} : services'[u] = services[u]
      BY <1>0, <1>7, <2>1, SetState DEF RwStopped, Types, States
    <2>5. Types'
      BY <1>0, <1>1, <1>2, <2>1, <2>2, <2>3, <2>4 DEF Types, ReportedOK, StartOK, ModesOK, RealOK, BoundsOK
    <2>6. IndexOK' /\ PhaseOK' /\ NetOK'
      BY <1>0, <1>1, <1>2, <2>1, <2>2, <2>3, <2>4 DEF IndexOK, PhaseOK, NetOK, Loops, TickPlaces, StopPlaces
    <2>7. ThreadsOK'
      BY <1>0, <1>1, <1>2, <2>1, <2>2, <2>3, <2>4 DEF ThreadsOK, NoWorkers, Joined
    <2>8. DrivenOK'
      BY <1>0, <1>1, <1>2, <2>1, <2>2, <2>3, <2>4 DEF DrivenOK, NoWorkers
    <2>9. StoppingOK'
      BY <1>0, <1>1, <1>2, <2>1, <2>2, <2>3, <2>4 DEF StoppingOK, Joined
    <2>10. ReportOK'
      BY <1>0, <1>1, <1>2, <2>1, <2>2, <2>3, <2>4 DEF ReportOK, NoWorkers
    <2> QED
      BY <2>5, <2>6, <2>7, <2>8, <2>9, <2>10, InvParts DEF Parts
  <1>8. CASE RwStartLoop
    <2>1. /\ rw.at = "start_loop" /\ rw.index \in Service /\ rw.index + 1 \in 0 .. COUNT
          /\ UNCHANGED <<reported, stop_required, modes, real, failures>>
      BY <1>1, <1>8, ServiceIs DEF RwStartLoop, RwState
    <2>2. /\ rw' \in RwState /\ rw'.at \in {"end", "start_loop", "prepare"}
          /\ rw'.at = "prepare" => rw'.index \in Service
      BY <1>1, <1>8, <2>1 DEF RwStartLoop, RwState, RwPlaces
    <2>3. Types'
      BY <1>0, <1>1, <1>2, <2>1, <2>2 DEF Types, ReportedOK, StartOK, ModesOK, RealOK, BoundsOK
    <2>4. IndexOK' /\ PhaseOK' /\ NetOK'
      BY <1>0, <1>1, <1>2, <2>1, <2>2 DEF IndexOK, PhaseOK, NetOK, Loops, TickPlaces, StopPlaces
    <2>5. ThreadsOK'
      BY <1>0, <1>1, <1>2, <2>1, <2>2 DEF ThreadsOK, NoWorkers, Joined
    <2>6. DrivenOK'
      BY <1>0, <1>1, <1>2, <2>1, <2>2 DEF DrivenOK, NoWorkers
    <2>7. StoppingOK'
      BY <1>0, <1>1, <1>2, <2>1, <2>2 DEF StoppingOK, Joined
    <2>8. ReportOK'
      BY <1>0, <1>1, <1>2, <2>1, <2>2 DEF ReportOK, NoWorkers
    <2> QED
      BY <2>3, <2>4, <2>5, <2>6, <2>7, <2>8, InvParts DEF Parts
  <1>9. CASE RwPrepares
    <2>1. /\ rw.at = "prepare" /\ rw.index \in Service /\ rw.index + 1 \in 0 .. COUNT
          /\ UNCHANGED <<stop_required, modes, failures, up, net, suspended>>
          /\ cancel' \in BOOLEAN
      <3>1. rw.at = "prepare" /\ rw.index \in Service /\ rw.index + 1 \in 0 .. COUNT
        BY <1>3, <1>9, ServiceIs DEF RwPrepares, Loops
      <3>2. cancel' \in BOOLEAN
        BY <1>0, <1>9 DEF RwPrepares, Types, RealOK
      <3> QED
        BY <1>9, <3>1, <3>2 DEF RwPrepares
    <2>2. /\ rw' \in RwState /\ rw'.at \in {"stopping", "start_loop", "call"}
          /\ rw'.at # "start_loop" => rw'.index = rw.index
          /\ rw'.at # "call" => UNCHANGED reported
          /\ rw'.at = "call" => set_service_state(rw.index, "STARTING")
      BY <1>1, <1>9, <2>1 DEF RwPrepares, rw_goto, RwState, RwPlaces
    <2>3. /\ ReportedOK' /\ UNCHANGED <<config, runtime_active>>
          /\ lifecycle' = lifecycle \/ (lifecycle = "STARTING" /\ lifecycle' = "RUNNING")
          /\ \A u \in Service \ {rw.index} : services'[u] = services[u]
          /\ rw'.at = "call" => services'[rw.index] = "STARTING"
          /\ rw'.at # "call" => services'[rw.index] = services[rw.index]
      BY <1>0, <1>2, <2>1, <2>2, SetState DEF Types, States, ReportedOK
    <2>4. Types'
      BY <1>0, <1>1, <1>2, <2>1, <2>2, <2>3 DEF Types, ReportedOK, StartOK, ModesOK, RealOK, BoundsOK
    <2>5. IndexOK' /\ PhaseOK' /\ NetOK'
      BY <1>0, <1>1, <1>2, <2>1, <2>2, <2>3 DEF IndexOK, PhaseOK, NetOK, Loops, TickPlaces, StopPlaces
    <2>6. ThreadsOK'
      BY <1>0, <1>1, <1>2, <2>1, <2>2, <2>3 DEF ThreadsOK, NoWorkers, Joined
    <2>7. DrivenOK'
      BY <1>0, <1>1, <1>2, <2>1, <2>2, <2>3 DEF DrivenOK, NoWorkers
    <2>8. StoppingOK'
      BY <1>0, <1>1, <1>2, <2>1, <2>2, <2>3 DEF StoppingOK, Joined
    <2>9. ReportOK'
      BY <1>0, <1>1, <1>2, <2>1, <2>2, <2>3 DEF ReportOK, NoWorkers
    <2> QED
      BY <2>4, <2>5, <2>6, <2>7, <2>8, <2>9, InvParts DEF Parts
  <1>10. CASE RwCallsStart
    <2>1. /\ rw.at = "call" /\ rw.index \in Service /\ rw' \in RwState
          /\ rw'.at = "starting" /\ rw'.index = rw.index
          /\ UNCHANGED <<reported, stop_required, modes, failures>>
      BY <1>1, <1>3, <1>10, RwGoto DEF RwCallsStart, Loops, RwPlaces
    <2>2. /\ RealOK' /\ UNCHANGED <<net, suspended>>
          /\ up'[rw.index] = "starting" /\ \A u \in Service \ {rw.index} : up'[u] = up[u]
      BY <1>0, <1>10, <2>1, StartCalled DEF RwCallsStart, Types
    <2>3. Types'
      BY <1>0, <1>1, <1>2, <2>1, <2>2 DEF Types, ReportedOK, StartOK, ModesOK, RealOK, BoundsOK
    <2>4. IndexOK' /\ PhaseOK' /\ NetOK'
      BY <1>0, <1>1, <1>2, <2>1, <2>2 DEF IndexOK, PhaseOK, NetOK, Loops, TickPlaces, StopPlaces
    <2>5. ThreadsOK'
      BY <1>0, <1>1, <1>2, <2>1, <2>2 DEF ThreadsOK, NoWorkers, Joined
    <2>6. DrivenOK'
      BY <1>0, <1>1, <1>2, <2>1, <2>2 DEF DrivenOK, NoWorkers
    <2>7. StoppingOK'
      BY <1>0, <1>1, <1>2, <2>1, <2>2 DEF StoppingOK, Joined
    <2>8. ReportOK'
      BY <1>0, <1>1, <1>2, <2>1, <2>2 DEF ReportOK, NoWorkers
    <2> QED
      BY <2>3, <2>4, <2>5, <2>6, <2>7, <2>8, InvParts DEF Parts
  <1>11. CASE RwStartReturns
    <2>1. /\ rw.at = "starting" /\ rw.index \in Service /\ rw' \in RwState
          /\ rw'.at \in {"started", "failed"} /\ rw'.index = rw.index
          /\ UNCHANGED <<reported, modes>>
      BY <1>1, <1>3, <1>11, RwGoto DEF RwStartReturns, Loops, RwPlaces
    <2>2. /\ stop_required' \in [Service -> BOOLEAN]
          /\ \A u \in Service \ {rw.index} : stop_required'[u] = stop_required[u]
          /\ RealOK' /\ UNCHANGED <<net, suspended>> /\ failures' \in 0 .. MaxFailures
          /\ up'[rw.index] \in {"up", "partial", "down"}
          /\ \A u \in Service \ {rw.index} : up'[u] = up[u]
          /\ up'[rw.index] # "down" => stop_required'[rw.index]
          /\ up'[rw.index] = "partial" => rw.index = IPTV
      <3>1. CASE /\ start_succeeds(rw.index)
                 /\ stop_required' = [stop_required EXCEPT ![rw.index] = TRUE]
        BY <1>0, <2>1, <3>1, StartSucceeds DEF Types, StartOK, BoundsOK
      <3>2. CASE /\ start_fails(rw.index)
                 /\ stop_required' =
                        [stop_required EXCEPT ![rw.index] = stop_after_start_attempt(rw.index)]
        BY <1>0, <2>1, <3>2, StartFails DEF Types, StartOK, BoundsOK, stop_after_start_attempt
      <3> QED
        BY <1>11, <3>1, <3>2 DEF RwStartReturns
    <2>3. Types'
      BY <1>0, <1>1, <1>2, <2>1, <2>2 DEF Types, ReportedOK, StartOK, ModesOK, RealOK, BoundsOK
    <2>4. IndexOK' /\ PhaseOK' /\ NetOK'
      BY <1>0, <1>1, <1>2, <2>1, <2>2 DEF IndexOK, PhaseOK, NetOK, Loops, TickPlaces, StopPlaces
    <2>5. ThreadsOK'
      BY <1>0, <1>1, <1>2, <2>1, <2>2 DEF ThreadsOK, NoWorkers, Joined
    <2>6. DrivenOK'
      BY <1>0, <1>1, <1>2, <2>1, <2>2 DEF DrivenOK, NoWorkers
    <2>7. StoppingOK'
      BY <1>0, <1>1, <1>2, <2>1, <2>2 DEF StoppingOK, Joined
    <2>8. ReportOK'
      BY <1>0, <1>1, <1>2, <2>1, <2>2 DEF ReportOK, NoWorkers
    <2> QED
      BY <2>3, <2>4, <2>5, <2>6, <2>7, <2>8, InvParts DEF Parts
  <1>12. CASE RwStarted
    <2>1. /\ rw.at \in {"started", "failed"} /\ rw.index \in Service /\ rw.index + 1 \in 0 .. COUNT
          /\ UNCHANGED <<stop_required, modes, real, failures>>
      BY <1>3, <1>12, ServiceIs DEF RwStarted, Loops
    <2>2. rw' \in RwState /\ rw'.at = "start_loop"
      BY <1>1, <1>12, <2>1 DEF RwStarted, RwState, RwPlaces
    <2>3. /\ ReportedOK' /\ UNCHANGED <<config, runtime_active>>
          /\ lifecycle' = lifecycle \/ (lifecycle = "STARTING" /\ lifecycle' = "RUNNING")
          /\ \A u \in Service \ {rw.index} : services'[u] = services[u]
          /\ services'[rw.index] # "STOPPED"
      BY <1>0, <1>2, <1>12, <2>1, SetState DEF RwStarted, Types, States
    <2>4. Types'
      BY <1>0, <1>1, <1>2, <2>1, <2>2, <2>3 DEF Types, ReportedOK, StartOK, ModesOK, RealOK, BoundsOK
    <2>5. IndexOK' /\ PhaseOK' /\ NetOK'
      BY <1>0, <1>1, <1>2, <2>1, <2>2, <2>3 DEF IndexOK, PhaseOK, NetOK, Loops, TickPlaces, StopPlaces
    <2>6. ThreadsOK'
      BY <1>0, <1>1, <1>2, <2>1, <2>2, <2>3 DEF ThreadsOK, NoWorkers, Joined
    <2>7. DrivenOK'
      BY <1>0, <1>1, <1>2, <2>1, <2>2, <2>3 DEF DrivenOK, NoWorkers
    <2>8. StoppingOK'
      BY <1>0, <1>1, <1>2, <2>1, <2>2, <2>3 DEF StoppingOK, Joined
    <2>9. ReportOK'
      BY <1>0, <1>1, <1>2, <2>1, <2>2, <2>3 DEF ReportOK, NoWorkers
    <2> QED
      BY <2>4, <2>5, <2>6, <2>7, <2>8, <2>9, InvParts DEF Parts
  <1>13. CASE RwCompletes
    <2>1. /\ rw.at = "start_loop" /\ rw' \in RwState /\ rw'.at = "end"
          /\ UNCHANGED <<reported, stop_required, modes, up, cancel, failures>>
      BY <1>1, <1>13 DEF RwCompletes, target_current, RwState, RwPlaces
    <2>2. /\ suspended' \in BOOLEAN /\ net' \in {"active", "draining", "quiet"}
          /\ ~suspended' => net' = "active"
      BY <1>0, <1>13 DEF RwCompletes, resumes, Types, RealOK, NetOK
    <2>3. Types'
      BY <1>0, <1>1, <1>2, <2>1, <2>2 DEF Types, ReportedOK, StartOK, ModesOK, RealOK, BoundsOK
    <2>4. IndexOK' /\ PhaseOK' /\ NetOK'
      BY <1>0, <1>1, <1>2, <2>1, <2>2 DEF IndexOK, PhaseOK, NetOK, Loops, TickPlaces, StopPlaces
    <2>5. ThreadsOK'
      BY <1>0, <1>1, <1>2, <2>1, <2>2 DEF ThreadsOK, NoWorkers, Joined
    <2>6. DrivenOK'
      BY <1>0, <1>1, <1>2, <2>1, <2>2 DEF DrivenOK, NoWorkers
    <2>7. StoppingOK'
      BY <1>0, <1>1, <1>2, <2>1, <2>2 DEF StoppingOK, Joined
    <2>8. ReportOK'
      BY <1>0, <1>1, <1>2, <2>1, <2>2 DEF ReportOK, NoWorkers
    <2> QED
      BY <2>3, <2>4, <2>5, <2>6, <2>7, <2>8, InvParts DEF Parts
  <1>14. CASE RwFinishes
    <2>1. /\ rw.at = "end" /\ rw' \in RwState /\ rw'.at = "finished"
          /\ UNCHANGED <<reported, stop_required, desired, real, failures>>
      BY <1>1, <1>14, RwGoto DEF RwFinishes, RwPlaces
    <2>2. applied' \in Mode /\ transition' \in TransitionState
      <3>1. /\ transition \in TransitionState /\ applied \in Mode /\ rw.target \in Mode
            /\ [transition EXCEPT !.active = FALSE] \in TransitionState
            /\ [active |-> FALSE, failed |-> TRUE, waiting |-> TRUE] \in TransitionState
        BY <1>0, <1>1 DEF Types, ModesOK, TransitionState, RwState
      <3> QED
        BY <1>14, <3>1, Records DEF RwFinishes
    <2>3. Types'
      BY <1>0, <1>1, <1>2, <2>1, <2>2 DEF Types, ReportedOK, StartOK, ModesOK, RealOK, BoundsOK
    <2>4. IndexOK' /\ PhaseOK' /\ NetOK'
      BY <1>0, <1>1, <1>2, <2>1, <2>2 DEF IndexOK, PhaseOK, NetOK, Loops, TickPlaces, StopPlaces
    <2>5. ThreadsOK'
      BY <1>0, <1>1, <1>2, <2>1, <2>2 DEF ThreadsOK, NoWorkers, Joined
    <2>6. DrivenOK'
      BY <1>0, <1>1, <1>2, <2>1, <2>2 DEF DrivenOK, NoWorkers
    <2>7. StoppingOK'
      BY <1>0, <1>1, <1>2, <2>1, <2>2 DEF StoppingOK, Joined
    <2>8. ReportOK'
      BY <1>0, <1>1, <1>2, <2>1, <2>2 DEF ReportOK, NoWorkers
    <2> QED
      BY <2>3, <2>4, <2>5, <2>6, <2>7, <2>8, InvParts DEF Parts
  <1> QED
    BY <1>4, <1>5, <1>6, <1>7, <1>8, <1>9, <1>10, <1>11, <1>12, <1>13, <1>14 DEF ResourceWorker

-----------------------------------------------------------------------------
(* The steps of the main thread: start and tick. *)

\* A worker is launched, or its service is reported FAILED.
LEMMA LaunchWorker ==
    ASSUME Types, NEW s \in Service, launch_service_worker(s), lifecycle # "STOPPED"
    PROVE  /\ ReportedOK' /\ UNCHANGED <<config, runtime_active>>
           /\ failures' \in 0 .. MaxFailures
           /\ lifecycle' = lifecycle \/ (lifecycle = "STARTING" /\ lifecycle' = "RUNNING")
           /\ \A u \in Service : services'[u] \in {services[u], "FAILED"}
           /\ worker' \in [Service -> WorkerPlaces]
           /\ worker'[s] \in {worker[s], "launched"}
           /\ \A u \in Service \ {s} : worker'[u] = worker[u]
  <1>1. CASE worker' = [worker EXCEPT ![s] = "launched"] /\ UNCHANGED <<reported, failures>>
    BY <1>1 DEF Types, ReportedOK, StartOK, BoundsOK, WorkerPlaces, reported
  <1>2. CASE Fails /\ set_service_state(s, "FAILED") /\ UNCHANGED worker
    <2>1. failures' \in 0 .. MaxFailures
      BY <1>2, ResourceAssumption DEF Types, BoundsOK, Fails
    <2> QED
      BY <1>2, <2>1, SetState DEF Types, StartOK, States
  <1> QED
    BY <1>1, <1>2 DEF launch_service_worker

LEMMA StartAndTickStep ==
    ASSUME Inv4, Start \/ LaunchEach \/ Tick
    PROVE  Inv4'
  <1> USE DEF Parts, reported, modes, real, bounds
  <1>0. Parts
    BY InvParts
  <1>1. main \in MainState /\ rw \in RwState /\ \A c \in Configs : ~(c.serial /\ c.exclusive)
    BY <1>0, ResourceAssumption DEF Types
  <1>2. config \in Configs /\ AIRPLAY \in Service
    BY <1>0, ServiceIs DEF Types, ReportedOK
  <1>3. CASE Start
    <2>1. /\ main.at = "idle" /\ lifecycle = "STOPPED" /\ rw.at = "none" /\ NoWorkers
          /\ UNCHANGED <<config, stop_required, worker, rw, caller, real, bounds>>
      BY <1>0, <1>3 DEF Start, ThreadsOK
    <2>2. /\ main' \in MainState /\ main'.at \in {"serial", "launch"} /\ main'.index \in Service
          /\ main'.at = "serial" => config.serial
      <3>1. 0 \in Service /\ 0 \in 0 .. COUNT
        BY ServiceIs
      <3> QED
        BY <1>1, <1>3, <3>1 DEF Start, MainState, MainPlaces
    <2>3. /\ ReportedOK' /\ lifecycle' \in {"STARTING", "RUNNING"} /\ runtime_active'
          /\ \A u \in Service : services'[u] # "STOPPED"
      <3>1. lifecycle' \in {"STARTING", "RUNNING"} /\ runtime_active' = TRUE
        BY <1>3 DEF Start, recompute_state
      <3>2. services' \in [Service -> States] /\ \A u \in Service : services'[u] # "STOPPED"
        BY <1>3 DEF Start, States
      <3> QED
        BY <1>2, <2>1, <3>1, <3>2 DEF ReportedOK, Lifecycles
    <2>4. ModesOK' /\ next_service' \in 0 .. COUNT
      BY <1>3, ServiceIs, Records DEF Start, ModesOK, Mode
    <2>5. Types'
      BY <1>0, <1>1, <1>2, <2>1, <2>2, <2>3, <2>4 DEF Types, ReportedOK, StartOK, ModesOK, RealOK, BoundsOK
    <2>6. IndexOK' /\ PhaseOK' /\ NetOK'
      BY <1>0, <1>1, <1>2, <2>1, <2>2, <2>3, <2>4 DEF IndexOK, PhaseOK, NetOK, Loops, TickPlaces, StopPlaces
    <2>7. ThreadsOK'
      BY <1>0, <1>1, <1>2, <2>1, <2>2, <2>3, <2>4 DEF ThreadsOK, NoWorkers, Joined
    <2>8. DrivenOK'
      BY <1>0, <1>1, <1>2, <2>1, <2>2, <2>3, <2>4 DEF DrivenOK, NoWorkers
    <2>9. StoppingOK'
      BY <1>0, <1>1, <1>2, <2>1, <2>2, <2>3, <2>4 DEF StoppingOK, Joined
    <2>10. ReportOK'
      BY <1>0, <1>1, <1>2, <2>1, <2>2, <2>3, <2>4 DEF ReportOK, NoWorkers
    <2> QED
      BY <2>5, <2>6, <2>7, <2>8, <2>9, <2>10, InvParts DEF Parts
  <1>4. CASE LaunchEach
    <2>1. /\ main.at = "launch" /\ main.index \in Service /\ rw.at = "none"
          /\ lifecycle \in {"STARTING", "RUNNING"} /\ runtime_active
          /\ \A u \in Service : u >= main.index => worker[u] = "none"
          /\ UNCHANGED <<stop_required, next_service, modes, rw, caller, real, changes>>
      BY <1>0, <1>4 DEF LaunchEach, IndexOK, PhaseOK, TickPlaces, ThreadsOK
    <2>2. /\ main' \in MainState /\ main'.at \in {"idle", "launch"}
          /\ main'.at = "launch" => main'.index \in Service /\ main'.index = main.index + 1
      <3>1. CASE main.index = COUNT - 1
        BY <1>4, <3>1, Records DEF LaunchEach
      <3>2. CASE main.index # COUNT - 1
        <4>1. main.index + 1 \in Service /\ main.index + 1 \in 0 .. COUNT
          BY <2>1, <3>2, ServiceIs
        <4> QED
          BY <1>1, <1>4, <2>1, <3>2, <4>1 DEF LaunchEach, MainState
      <3> QED
        BY <3>1, <3>2
    <2>3. /\ ReportedOK' /\ UNCHANGED <<config, runtime_active>>
          /\ failures' \in 0 .. MaxFailures
          /\ lifecycle' = lifecycle \/ (lifecycle = "STARTING" /\ lifecycle' = "RUNNING")
          /\ \A u \in Service : services'[u] \in {services[u], "FAILED"}
          /\ worker' \in [Service -> WorkerPlaces]
          /\ worker'[main.index] \in {worker[main.index], "launched"}
          /\ \A u \in Service \ {main.index} : worker'[u] = worker[u]
      <3>1. CASE main.index \in config.enabled
        BY <1>0, <1>4, <2>1, <3>1, LaunchWorker DEF LaunchEach
      <3>2. CASE main.index \notin config.enabled
        BY <1>0, <1>4, <3>2 DEF LaunchEach, Types, ReportedOK, StartOK, BoundsOK
      <3> QED
        BY <3>1, <3>2
    <2>4. worker[main.index] = "none"
      BY <2>1, ServiceIs
    <2>5. Types'
      BY <1>0, <1>1, <1>2, <2>1, <2>2, <2>3, <2>4 DEF Types, ReportedOK, StartOK, ModesOK, RealOK, BoundsOK
    <2>6. IndexOK' /\ PhaseOK' /\ NetOK'
      BY <1>0, <1>1, <1>2, <2>1, <2>2, <2>3, <2>4 DEF IndexOK, PhaseOK, NetOK, Loops, TickPlaces, StopPlaces
    <2>7. ThreadsOK'
      BY <1>0, <1>1, <1>2, <2>1, <2>2, <2>3, <2>4 DEF ThreadsOK, NoWorkers, Joined, Service
    <2>8. DrivenOK'
      BY <1>0, <1>1, <1>2, <2>1, <2>2, <2>3, <2>4 DEF DrivenOK, NoWorkers
    <2>9. StoppingOK'
      BY <1>0, <1>1, <1>2, <2>1, <2>2, <2>3, <2>4 DEF StoppingOK, Joined
    <2>10. ReportOK'
      BY <1>0, <1>1, <1>2, <2>1, <2>2, <2>3, <2>4 DEF ReportOK, NoWorkers
    <2> QED
      BY <2>5, <2>6, <2>7, <2>8, <2>9, <2>10, InvParts DEF Parts
  <1>5. CASE TickReaps
    <2>1. /\ main.at = "idle" /\ runtime_active /\ lifecycle \in {"STARTING", "RUNNING"} /\ runtime_active
          /\ UNCHANGED <<reported, stop_required, next_service, modes, caller, real, bounds>>
      BY <1>0, <1>5 DEF TickReaps, PhaseOK, Types, ReportedOK, Lifecycles
    <2>2. /\ worker' \in [Service -> WorkerPlaces]
          /\ \A u \in Service : worker'[u] = worker[u] \/ (worker[u] = "finished" /\ worker'[u] = "none")
      BY <1>0, <1>5 DEF TickReaps, Types, StartOK, WorkerPlaces
    <2>3. /\ rw' \in RwState /\ rw'.index = rw.index
          /\ rw'.at = rw.at \/ (rw.at = "finished" /\ rw'.at = "none")
      BY <1>1, <1>5 DEF TickReaps, RwState, RwPlaces
    <2>4. /\ main' \in MainState /\ main'.at \in {"serial", "resource"}
          /\ main'.at = "serial" => config.serial
      BY <1>1, <1>5, MainGoto DEF TickReaps, MainPlaces
    <2>5. Types'
      BY <1>0, <1>1, <1>2, <2>1, <2>2, <2>3, <2>4 DEF Types, ReportedOK, StartOK, ModesOK, RealOK, BoundsOK
    <2>6. IndexOK' /\ PhaseOK' /\ NetOK'
      BY <1>0, <1>1, <1>2, <2>1, <2>2, <2>3, <2>4 DEF IndexOK, PhaseOK, NetOK, Loops, TickPlaces, StopPlaces
    <2>7. ThreadsOK'
      BY <1>0, <1>1, <1>2, <2>1, <2>2, <2>3, <2>4 DEF ThreadsOK, NoWorkers, Joined
    <2>8. DrivenOK'
      BY <1>0, <1>1, <1>2, <2>1, <2>2, <2>3, <2>4 DEF DrivenOK, NoWorkers
    <2>9. StoppingOK'
      BY <1>0, <1>1, <1>2, <2>1, <2>2, <2>3, <2>4 DEF StoppingOK, Joined
    <2>10. ReportOK'
      BY <1>0, <1>1, <1>2, <2>1, <2>2, <2>3, <2>4 DEF ReportOK, NoWorkers
    <2> QED
      BY <2>5, <2>6, <2>7, <2>8, <2>9, <2>10, InvParts DEF Parts
  <1>6. CASE TickSerial
    <2>1. /\ main.at = "serial" /\ lifecycle \in {"STARTING", "RUNNING"} /\ ~config.exclusive
          /\ main' \in MainState /\ main'.at = "resource"
          /\ UNCHANGED <<stop_required, modes, rw, caller, real, changes>>
      BY <1>0, <1>1, <1>2, <1>6, MainGoto DEF TickSerial, PhaseOK, TickPlaces, MainPlaces
    <2>2. /\ ReportedOK' /\ UNCHANGED <<config, runtime_active>>
          /\ failures' \in 0 .. MaxFailures /\ next_service' \in 0 .. COUNT
          /\ lifecycle' = lifecycle \/ (lifecycle = "STARTING" /\ lifecycle' = "RUNNING")
          /\ \A u \in Service : services'[u] \in {services[u], "FAILED"}
          /\ worker' \in [Service -> WorkerPlaces]
          /\ \A u \in Service : worker'[u] = worker[u] \/ (worker[u] = "none" /\ worker'[u] = "launched")
      <3> DEFINE left == {x \in config.enabled : x >= next_service}
                 s == CHOOSE x \in left : \A y \in left : x <= y
      <3>1. CASE may_run /\ ~worker_active /\ left # {}
        <4>1. s \in Service
          <5>1. left \in SUBSET Service
            BY <1>2, ResourceAssumption
          <5> QED
            BY <3>1, <5>1, FirstAndLast
        <4>2. next_service' = s + 1 /\ launch_service_worker(s)
          BY <1>6, <3>1 DEF TickSerial
        <4> HIDE DEF s
        <4>3. next_service' \in 0 .. COUNT
          BY <4>1, <4>2, ServiceIs
        <4>4. worker[s] = "none"
          BY <3>1, <4>1 DEF worker_active
        <4> QED
          BY <1>0, <2>1, <4>1, <4>2, <4>3, <4>4, LaunchWorker
      <3>2. CASE may_run /\ ~worker_active /\ left = {}
        BY <1>0, <1>6, <3>2, ServiceIs DEF TickSerial, Types, ReportedOK, StartOK, BoundsOK
      <3>3. CASE ~(may_run /\ ~worker_active)
        BY <1>0, <1>6, <3>3 DEF TickSerial, Types, ReportedOK, StartOK, BoundsOK
      <3> QED
        BY <3>1, <3>2, <3>3
    <2>3. rw.at \in {"none", "finished"}
      BY <1>0, <2>1 DEF ThreadsOK
    <2>4. Types'
      BY <1>0, <1>1, <1>2, <2>1, <2>2, <2>3 DEF Types, ReportedOK, StartOK, ModesOK, RealOK, BoundsOK
    <2>5. IndexOK' /\ PhaseOK' /\ NetOK'
      BY <1>0, <1>1, <1>2, <2>1, <2>2, <2>3 DEF IndexOK, PhaseOK, NetOK, Loops, TickPlaces, StopPlaces
    <2>6. ThreadsOK'
      BY <1>0, <1>1, <1>2, <2>1, <2>2, <2>3 DEF ThreadsOK, NoWorkers, Joined
    <2>7. DrivenOK'
      BY <1>0, <1>1, <1>2, <2>1, <2>2, <2>3 DEF DrivenOK, NoWorkers
    <2>8. StoppingOK'
      BY <1>0, <1>1, <1>2, <2>1, <2>2, <2>3 DEF StoppingOK, Joined
    <2>9. ReportOK'
      BY <1>0, <1>1, <1>2, <2>1, <2>2, <2>3 DEF ReportOK, NoWorkers
    <2> QED
      BY <2>4, <2>5, <2>6, <2>7, <2>8, <2>9, InvParts DEF Parts
  <1>7. CASE TickChecks
    <2>1. /\ main.at = "resource" /\ lifecycle \in {"STARTING", "RUNNING"} /\ runtime_active
          /\ UNCHANGED <<reported, stop_required, worker, next_service, modes, rw, caller, real, bounds>>
      BY <1>0, <1>7 DEF TickChecks, PhaseOK, TickPlaces
    <2>2. /\ main' \in MainState /\ main'.at \in {"create", "poll"}
          /\ main'.at = "create" => config.exclusive /\ NoWorkers /\ rw.at = "none"
      <3>1. CASE launch_due /\ ~worker_active
        <4>1. config.exclusive /\ rw.at = "none" /\ NoWorkers
          BY <3>1 DEF launch_due, worker_active, NoWorkers
        <4> QED
          BY <1>0, <1>1, <1>7, <3>1, <4>1 DEF TickChecks, MainState, MainPlaces, Types, ModesOK
      <3>2. CASE ~(launch_due /\ ~worker_active)
        BY <1>1, <1>7, <3>2 DEF TickChecks, MainState, MainPlaces
      <3> QED
        BY <3>1, <3>2
    <2>3. Types'
      BY <1>0, <1>1, <1>2, <2>1, <2>2 DEF Types, ReportedOK, StartOK, ModesOK, RealOK, BoundsOK
    <2>4. IndexOK' /\ PhaseOK' /\ NetOK'
      BY <1>0, <1>1, <1>2, <2>1, <2>2 DEF IndexOK, PhaseOK, NetOK, Loops, TickPlaces, StopPlaces
    <2>5. ThreadsOK'
      BY <1>0, <1>1, <1>2, <2>1, <2>2 DEF ThreadsOK, NoWorkers, Joined
    <2>6. DrivenOK'
      BY <1>0, <1>1, <1>2, <2>1, <2>2 DEF DrivenOK, NoWorkers
    <2>7. StoppingOK'
      BY <1>0, <1>1, <1>2, <2>1, <2>2 DEF StoppingOK, Joined
    <2>8. ReportOK'
      BY <1>0, <1>1, <1>2, <2>1, <2>2 DEF ReportOK, NoWorkers
    <2> QED
      BY <2>3, <2>4, <2>5, <2>6, <2>7, <2>8, InvParts DEF Parts
  <1>8. CASE TickCreates
    <2>1. /\ main.at = "create" /\ lifecycle \in {"STARTING", "RUNNING"}
          /\ config.exclusive /\ NoWorkers /\ rw.at = "none"
          /\ UNCHANGED <<reported, stop_required, worker, next_service, desired, applied, caller,
                       real, changes>>
      BY <1>0, <1>8 DEF TickCreates, PhaseOK, TickPlaces, ThreadsOK
    <2>2. main' \in MainState /\ main'.at = "poll"
      BY <1>8, Records DEF TickCreates, MainState, IdleMain, MainPlaces
    <2>3. rw' \in RwState /\ rw'.at \in {"begin", "none"}
      <3>1. main.target \in Mode
        BY <1>1 DEF MainState
      <3> QED
        BY <1>8, <3>1, Records DEF TickCreates, RwState, RwPlaces, NoResourceWorker
    <2>4. transition' \in TransitionState /\ failures' \in 0 .. MaxFailures
      <3>1. transition \in TransitionState /\ failures \in 0 .. MaxFailures
        BY <1>0 DEF Types, ModesOK, BoundsOK
      <3>2. CASE /\ transition' = [transition EXCEPT !.active = TRUE, !.failed = FALSE]
                 /\ UNCHANGED failures
        BY <3>1, <3>2 DEF TransitionState
      <3>3. CASE Fails /\ transition' = [active |-> FALSE, failed |-> TRUE, waiting |-> TRUE]
        BY <3>1, <3>3, ResourceAssumption DEF TransitionState, Fails
      <3> QED
        BY <1>8, <3>2, <3>3 DEF TickCreates
    <2>5. Types'
      BY <1>0, <1>1, <1>2, <2>1, <2>2, <2>3, <2>4 DEF Types, ReportedOK, StartOK, ModesOK, RealOK, BoundsOK
    <2>6. IndexOK' /\ PhaseOK' /\ NetOK'
      BY <1>0, <1>1, <1>2, <2>1, <2>2, <2>3, <2>4 DEF IndexOK, PhaseOK, NetOK, Loops, TickPlaces, StopPlaces
    <2>7. ThreadsOK'
      BY <1>0, <1>1, <1>2, <2>1, <2>2, <2>3, <2>4 DEF ThreadsOK, NoWorkers, Joined
    <2>8. DrivenOK'
      BY <1>0, <1>1, <1>2, <2>1, <2>2, <2>3, <2>4 DEF DrivenOK, NoWorkers
    <2>9. StoppingOK'
      BY <1>0, <1>1, <1>2, <2>1, <2>2, <2>3, <2>4 DEF StoppingOK, Joined
    <2>10. ReportOK'
      BY <1>0, <1>1, <1>2, <2>1, <2>2, <2>3, <2>4 DEF ReportOK, NoWorkers
    <2> QED
      BY <2>5, <2>6, <2>7, <2>8, <2>9, <2>10, InvParts DEF Parts
  <1>9. CASE TickPolls
    <2>1. /\ main.at = "poll" /\ lifecycle \in {"STARTING", "RUNNING"} /\ runtime_active
          /\ UNCHANGED <<reported, stop_required, worker, next_service, modes, rw, caller, real, bounds>>
      BY <1>0, <1>9 DEF TickPolls, PhaseOK, TickPlaces
    <2>2. main' \in MainState /\ main'.at \in {"status", "idle"}
      BY <1>1, <1>9, MainGoto DEF TickPolls, MainPlaces
    <2>3. Types'
      BY <1>0, <1>1, <1>2, <2>1, <2>2 DEF Types, ReportedOK, StartOK, ModesOK, RealOK, BoundsOK
    <2>4. IndexOK' /\ PhaseOK' /\ NetOK'
      BY <1>0, <1>1, <1>2, <2>1, <2>2 DEF IndexOK, PhaseOK, NetOK, Loops, TickPlaces, StopPlaces
    <2>5. ThreadsOK'
      BY <1>0, <1>1, <1>2, <2>1, <2>2 DEF ThreadsOK, NoWorkers, Joined
    <2>6. DrivenOK'
      BY <1>0, <1>1, <1>2, <2>1, <2>2 DEF DrivenOK, NoWorkers
    <2>7. StoppingOK'
      BY <1>0, <1>1, <1>2, <2>1, <2>2 DEF StoppingOK, Joined
    <2>8. ReportOK'
      BY <1>0, <1>1, <1>2, <2>1, <2>2 DEF ReportOK, NoWorkers
    <2> QED
      BY <2>3, <2>4, <2>5, <2>6, <2>7, <2>8, InvParts DEF Parts
  <1>10. CASE TickReadsStatus
    <2>1. /\ main.at = "status" /\ lifecycle \in {"STARTING", "RUNNING"} /\ runtime_active
          /\ UNCHANGED <<reported, stop_required, worker, next_service, modes, rw, caller, real, bounds>>
      BY <1>0, <1>10 DEF TickReadsStatus, PhaseOK, TickPlaces
    <2>2. main' \in MainState /\ main'.at \in {"polled", "idle"}
      <3>1. up[AIRPLAY] \in {"down", "starting", "up"}
        BY <1>0, <1>2, ServiceIs DEF Types, RealOK, UpState, IndexOK
      <3>2. CASE main_goto("idle")
        BY <1>1, <3>2, MainGoto DEF MainPlaces
      <3>3. CASE main' = [main EXCEPT !.at = "polled", !.status = up[AIRPLAY]]
        BY <1>1, <3>1, <3>3 DEF MainState, MainPlaces
      <3> QED
        BY <1>10, <3>2, <3>3 DEF TickReadsStatus
    <2>3. Types'
      BY <1>0, <1>1, <1>2, <2>1, <2>2 DEF Types, ReportedOK, StartOK, ModesOK, RealOK, BoundsOK
    <2>4. IndexOK' /\ PhaseOK' /\ NetOK'
      BY <1>0, <1>1, <1>2, <2>1, <2>2 DEF IndexOK, PhaseOK, NetOK, Loops, TickPlaces, StopPlaces
    <2>5. ThreadsOK'
      BY <1>0, <1>1, <1>2, <2>1, <2>2 DEF ThreadsOK, NoWorkers, Joined
    <2>6. DrivenOK'
      BY <1>0, <1>1, <1>2, <2>1, <2>2 DEF DrivenOK, NoWorkers
    <2>7. StoppingOK'
      BY <1>0, <1>1, <1>2, <2>1, <2>2 DEF StoppingOK, Joined
    <2>8. ReportOK'
      BY <1>0, <1>1, <1>2, <2>1, <2>2 DEF ReportOK, NoWorkers
    <2> QED
      BY <2>3, <2>4, <2>5, <2>6, <2>7, <2>8, InvParts DEF Parts
  <1>11. CASE TickReports
    <2>1. /\ main.at = "polled" /\ lifecycle \in {"STARTING", "RUNNING"} /\ runtime_active
          /\ main' \in MainState /\ main'.at = "idle"
          /\ UNCHANGED <<stop_required, worker, next_service, modes, rw, caller, real, bounds>>
      BY <1>0, <1>11, Records DEF TickReports, PhaseOK, TickPlaces
    <2>2. /\ ReportedOK' /\ UNCHANGED <<config, runtime_active>>
          /\ lifecycle' = lifecycle \/ (lifecycle = "STARTING" /\ lifecycle' = "RUNNING")
          /\ \A u \in Service \ {AIRPLAY} : services'[u] = services[u]
          /\ services'[AIRPLAY] # "STOPPED"
      <3> DEFINE state == CASE main.status = "up" -> "RUNNING"
                            [] main.status = "starting" -> "STARTING"
                            [] OTHER -> "FAILED"
      <3>1. set_service_state(AIRPLAY, state)
        BY <1>11 DEF TickReports
      <3>2. state \in {"RUNNING", "STARTING", "FAILED"}
        OBVIOUS
      <3> HIDE DEF state
      <3> QED
        BY <1>0, <1>2, <2>1, <3>1, <3>2, SetState DEF Types, States
    <2>3. Types'
      BY <1>0, <1>1, <1>2, <2>1, <2>2 DEF Types, ReportedOK, StartOK, ModesOK, RealOK, BoundsOK
    <2>4. IndexOK' /\ PhaseOK' /\ NetOK'
      BY <1>0, <1>1, <1>2, <2>1, <2>2 DEF IndexOK, PhaseOK, NetOK, Loops, TickPlaces, StopPlaces
    <2>5. ThreadsOK'
      BY <1>0, <1>1, <1>2, <2>1, <2>2 DEF ThreadsOK, NoWorkers, Joined
    <2>6. DrivenOK'
      BY <1>0, <1>1, <1>2, <2>1, <2>2 DEF DrivenOK, NoWorkers
    <2>7. StoppingOK'
      BY <1>0, <1>1, <1>2, <2>1, <2>2 DEF StoppingOK, Joined
    <2>8. ReportOK'
      BY <1>0, <1>1, <1>2, <2>1, <2>2 DEF ReportOK, NoWorkers, IndexOK, Loops
    <2> QED
      BY <2>3, <2>4, <2>5, <2>6, <2>7, <2>8, InvParts DEF Parts
  <1> QED
    BY <1>3, <1>4, <1>5, <1>6, <1>7, <1>8, <1>9, <1>10, <1>11 DEF Tick

-----------------------------------------------------------------------------
(* The steps of the main thread: stop; and those of the callers. *)

LEMMA StopStep ==
    ASSUME Inv4, BeginStop \/ Stop
    PROVE  Inv4'
  <1> USE DEF Parts, reported, modes, real, bounds
  <1>0. Parts
    BY InvParts
  <1>1. main \in MainState /\ rw \in RwState
    BY <1>0 DEF Types
  <1>2. config \in Configs /\ AIRPLAY \in Service
    BY <1>0, ServiceIs DEF Types, ReportedOK
  <1>3. CASE BeginStop
    <2>1. /\ main.at = "idle" /\ lifecycle \in {"STARTING", "RUNNING"} /\ lifecycle' = "STOPPING"
          /\ UNCHANGED <<config, runtime_active, services, stop_required, worker, next_service,
                       modes, rw, caller, real, failures>>
      BY <1>3 DEF BeginStop
    <2>2. main' \in MainState /\ main'.at = "request"
      BY <1>1, <1>3, MainGoto DEF BeginStop, MainPlaces
    <2>3. changes' \in 0 .. MaxChanges
      BY <1>0, <1>3, ResourceAssumption DEF BeginStop, Types, BoundsOK
    <2>4. Types'
      BY <1>0, <1>1, <1>2, <2>1, <2>2, <2>3 DEF Types, ReportedOK, StartOK, ModesOK, RealOK, BoundsOK, Lifecycles
    <2>5. IndexOK' /\ PhaseOK' /\ NetOK'
      BY <1>0, <1>1, <1>2, <2>1, <2>2, <2>3 DEF IndexOK, PhaseOK, NetOK, Loops, TickPlaces, StopPlaces
    <2>6. ThreadsOK'
      BY <1>0, <1>1, <1>2, <2>1, <2>2, <2>3 DEF ThreadsOK, NoWorkers, Joined
    <2>7. DrivenOK'
      BY <1>0, <1>1, <1>2, <2>1, <2>2, <2>3 DEF DrivenOK, NoWorkers
    <2>8. StoppingOK'
      BY <1>0, <1>1, <1>2, <2>1, <2>2, <2>3 DEF StoppingOK, Joined
    <2>9. ReportOK'
      BY <1>0, <1>1, <1>2, <2>1, <2>2, <2>3 DEF ReportOK, NoWorkers
    <2> QED
      BY <2>4, <2>5, <2>6, <2>7, <2>8, <2>9, InvParts DEF Parts
  <1>4. CASE StopRequests
    <2>1. /\ main.at = "request" /\ lifecycle = "STOPPING"
          /\ UNCHANGED <<reported, stop_required, worker, next_service, modes, rw, caller,
                       up, net, suspended, bounds>>
      BY <1>0, <1>4 DEF StopRequests, PhaseOK, StopPlaces
    <2>2. main' \in MainState /\ main'.at = "join_resource"
      BY <1>1, <1>4, MainGoto DEF StopRequests, MainPlaces
    <2>3. cancel' \in BOOLEAN
      BY <1>0, <1>4 DEF StopRequests, Types, RealOK
    <2>4. Types'
      BY <1>0, <1>1, <1>2, <2>1, <2>2, <2>3 DEF Types, ReportedOK, StartOK, ModesOK, RealOK, BoundsOK
    <2>5. IndexOK' /\ PhaseOK' /\ NetOK'
      BY <1>0, <1>1, <1>2, <2>1, <2>2, <2>3 DEF IndexOK, PhaseOK, NetOK, Loops, TickPlaces, StopPlaces
    <2>6. ThreadsOK'
      BY <1>0, <1>1, <1>2, <2>1, <2>2, <2>3 DEF ThreadsOK, NoWorkers, Joined
    <2>7. DrivenOK'
      BY <1>0, <1>1, <1>2, <2>1, <2>2, <2>3 DEF DrivenOK, NoWorkers
    <2>8. StoppingOK'
      BY <1>0, <1>1, <1>2, <2>1, <2>2, <2>3 DEF StoppingOK, Joined
    <2>9. ReportOK'
      BY <1>0, <1>1, <1>2, <2>1, <2>2, <2>3 DEF ReportOK, NoWorkers
    <2> QED
      BY <2>4, <2>5, <2>6, <2>7, <2>8, <2>9, InvParts DEF Parts
  <1>5. CASE StopJoinsResource
    <2>1. /\ main.at = "join_resource" /\ rw.at \in {"none", "finished"} /\ lifecycle = "STOPPING"
          /\ UNCHANGED <<reported, stop_required, worker, next_service, modes, caller, real, bounds>>
      BY <1>0, <1>5 DEF StopJoinsResource, PhaseOK, StopPlaces
    <2>2. main' \in MainState /\ main'.at = "join_services"
      BY <1>1, <1>5, MainGoto DEF StopJoinsResource, MainPlaces
    <2>3. rw' \in RwState /\ rw'.at = "none"
      BY <1>1, <1>5 DEF StopJoinsResource, RwState, RwPlaces
    <2>4. Types'
      BY <1>0, <1>1, <1>2, <2>1, <2>2, <2>3 DEF Types, ReportedOK, StartOK, ModesOK, RealOK, BoundsOK
    <2>5. IndexOK' /\ PhaseOK' /\ NetOK'
      BY <1>0, <1>1, <1>2, <2>1, <2>2, <2>3 DEF IndexOK, PhaseOK, NetOK, Loops, TickPlaces, StopPlaces
    <2>6. ThreadsOK'
      BY <1>0, <1>1, <1>2, <2>1, <2>2, <2>3 DEF ThreadsOK, NoWorkers, Joined
    <2>7. DrivenOK'
      BY <1>0, <1>1, <1>2, <2>1, <2>2, <2>3 DEF DrivenOK, NoWorkers
    <2>8. StoppingOK'
      BY <1>0, <1>1, <1>2, <2>1, <2>2, <2>3 DEF StoppingOK, Joined
    <2>9. ReportOK'
      BY <1>0, <1>1, <1>2, <2>1, <2>2, <2>3 DEF ReportOK, NoWorkers
    <2> QED
      BY <2>4, <2>5, <2>6, <2>7, <2>8, <2>9, InvParts DEF Parts
  <1>6. CASE StopJoinsServices
    <2>1. /\ main.at = "join_services" /\ rw.at = "none" /\ lifecycle = "STOPPING"
          /\ \A u \in Service : worker[u] \in {"none", "finished"}
          /\ UNCHANGED <<reported, stop_required, next_service, modes, rw, caller, real, bounds>>
      BY <1>0, <1>6 DEF StopJoinsServices, PhaseOK, StopPlaces, ThreadsOK
    <2>2. /\ main' \in MainState /\ main'.at = "stop_list"
          /\ main'.list = {u \in Service : stop_required[u]}
      <3>1. main' = [main EXCEPT !.at = "stop_list", !.list = {u \in Service : stop_required[u]}]
        BY <1>6 DEF StopJoinsServices
      <3> QED
        BY <1>1, <3>1 DEF MainState, MainPlaces
    <2>3. /\ worker' \in [Service -> WorkerPlaces]
          /\ \A u \in Service : worker'[u] = "none"
      BY <1>6 DEF StopJoinsServices, WorkerPlaces
    <2>4. \A u \in Service : up[u] # "down" => u \in main'.list
      BY <1>0, <2>1, <2>2 DEF Types, RealOK, UpState, DrivenOK
    <2>5. Types'
      BY <1>0, <1>1, <1>2, <2>1, <2>2, <2>3, <2>4 DEF Types, ReportedOK, StartOK, ModesOK, RealOK, BoundsOK
    <2>6. IndexOK' /\ PhaseOK' /\ NetOK'
      BY <1>0, <1>1, <1>2, <2>1, <2>2, <2>3, <2>4 DEF IndexOK, PhaseOK, NetOK, Loops, TickPlaces, StopPlaces
    <2>7. ThreadsOK'
      BY <1>0, <1>1, <1>2, <2>1, <2>2, <2>3, <2>4 DEF ThreadsOK, NoWorkers, Joined
    <2>8. DrivenOK'
      BY <1>0, <1>1, <1>2, <2>1, <2>2, <2>3, <2>4 DEF DrivenOK, NoWorkers
    <2>9. StoppingOK'
      BY <1>0, <1>1, <1>2, <2>1, <2>2, <2>3, <2>4 DEF StoppingOK, Joined
    <2>10. ReportOK'
      BY <1>0, <1>1, <1>2, <2>1, <2>2, <2>3, <2>4 DEF ReportOK, NoWorkers
    <2> QED
      BY <2>5, <2>6, <2>7, <2>8, <2>9, <2>10, InvParts DEF Parts
  <1>7. CASE StopCalls
    <2>1. /\ main.at = "stop_list" /\ lifecycle = "STOPPING" /\ rw.at = "none" /\ NoWorkers
          /\ UNCHANGED <<reported, stop_required, worker, next_service, modes, rw, caller, bounds>>
      BY <1>0, <1>7 DEF StopCalls, PhaseOK, StopPlaces, ThreadsOK, Joined
    <2>2. /\ main' \in MainState /\ main'.at = "stop_state" /\ main'.index \in main.list
          /\ main'.list = main.list \ {main'.index} /\ main.list \in SUBSET Service
          /\ stop_called(main'.index)
      <3> DEFINE s == CHOOSE x \in main.list : \A y \in main.list : x >= y
      <3>1. main.list # {} /\ main.list \in SUBSET Service
        BY <1>1, <1>7 DEF StopCalls, MainState
      <3>2. s \in main.list
        BY <3>1, FirstAndLast
      <3>3. /\ stop_called(s)
            /\ main' = [main EXCEPT !.at = "stop_state", !.index = s, !.list = @ \ {s}]
        BY <1>7 DEF StopCalls
      <3> HIDE DEF s
      <3>4. s \in 0 .. COUNT
        BY <3>1, <3>2, ServiceIs
      <3> QED
        BY <1>1, <3>1, <3>2, <3>3, <3>4 DEF MainState, MainPlaces
    <2>3. /\ RealOK' /\ UNCHANGED <<net, suspended>> /\ up'[main'.index] = "down"
          /\ \A u \in Service \ {main'.index} : up'[u] = up[u]
      BY <1>0, <2>2, StopCalled DEF Types
    <2>4. Types'
      BY <1>0, <1>1, <1>2, <2>1, <2>2, <2>3 DEF Types, ReportedOK, StartOK, ModesOK, RealOK, BoundsOK
    <2>5. IndexOK' /\ PhaseOK' /\ NetOK'
      BY <1>0, <1>1, <1>2, <2>1, <2>2, <2>3 DEF IndexOK, PhaseOK, NetOK, Loops, TickPlaces, StopPlaces
    <2>6. ThreadsOK'
      BY <1>0, <1>1, <1>2, <2>1, <2>2, <2>3 DEF ThreadsOK, NoWorkers, Joined
    <2>7. DrivenOK'
      BY <1>0, <1>1, <1>2, <2>1, <2>2, <2>3 DEF DrivenOK, NoWorkers
    <2>8. StoppingOK'
      BY <1>0, <1>1, <1>2, <2>1, <2>2, <2>3 DEF StoppingOK, Joined
    <2>9. ReportOK'
      BY <1>0, <1>1, <1>2, <2>1, <2>2, <2>3 DEF ReportOK, NoWorkers
    <2> QED
      BY <2>4, <2>5, <2>6, <2>7, <2>8, <2>9, InvParts DEF Parts
  <1>8. CASE StopReports
    <2>1. /\ main.at = "stop_state" /\ lifecycle = "STOPPING" /\ rw.at = "none" /\ NoWorkers
          /\ main.index \in Service
          /\ UNCHANGED <<stop_required, worker, next_service, modes, rw, caller, real, bounds>>
      BY <1>0, <1>8 DEF StopReports, PhaseOK, StopPlaces, ThreadsOK, Joined, IndexOK
    <2>2. main' \in MainState /\ main'.at = "stop_list" /\ main'.list = main.list
      BY <1>1, <1>8, MainGoto DEF StopReports, MainPlaces
    <2>3. /\ ReportedOK' /\ UNCHANGED <<config, runtime_active>> /\ lifecycle' = lifecycle
          /\ \A u \in Service \ {main.index} : services'[u] = services[u]
          /\ services'[main.index] = "STOPPED" /\ up[main.index] = "down"
      BY <1>0, <1>8, <2>1, SetState DEF StopReports, Types, States, StoppingOK
    <2>4. Types'
      BY <1>0, <1>1, <1>2, <2>1, <2>2, <2>3 DEF Types, ReportedOK, StartOK, ModesOK, RealOK, BoundsOK
    <2>5. IndexOK' /\ PhaseOK' /\ NetOK'
      BY <1>0, <1>1, <1>2, <2>1, <2>2, <2>3 DEF IndexOK, PhaseOK, NetOK, Loops, TickPlaces, StopPlaces
    <2>6. ThreadsOK'
      BY <1>0, <1>1, <1>2, <2>1, <2>2, <2>3 DEF ThreadsOK, NoWorkers, Joined
    <2>7. DrivenOK'
      BY <1>0, <1>1, <1>2, <2>1, <2>2, <2>3 DEF DrivenOK, NoWorkers
    <2>8. StoppingOK'
      BY <1>0, <1>1, <1>2, <2>1, <2>2, <2>3 DEF StoppingOK, Joined
    <2>9. ReportOK'
      BY <1>0, <1>1, <1>2, <2>1, <2>2, <2>3 DEF ReportOK, NoWorkers
    <2> QED
      BY <2>4, <2>5, <2>6, <2>7, <2>8, <2>9, InvParts DEF Parts
  <1>9. CASE FinishStop
    <2>1. /\ main.at = "stop_list" /\ main.list = {} /\ lifecycle = "STOPPING"
          /\ rw.at = "none" /\ NoWorkers /\ lifecycle' = "STOPPED"
          /\ UNCHANGED <<config, runtime_active, stop_required, worker, next_service, rw, caller,
                       real, bounds>>
      BY <1>0, <1>9 DEF FinishStop, PhaseOK, StopPlaces, ThreadsOK, Joined
    <2>2. main' \in MainState /\ main'.at = "clear" /\ main'.list = {}
      BY <1>1, <1>9, <2>1, MainGoto DEF FinishStop, MainPlaces
    <2>3. \A u \in Service : up[u] = "down"
      BY <1>0, <2>1 DEF StoppingOK, Joined
    <2>4. ReportedOK' /\ ModesOK'
      BY <1>0, <1>9, Records DEF FinishStop, Types, ReportedOK, Lifecycles, States, ModesOK, Mode
    <2>5. Types'
      BY <1>0, <1>1, <1>2, <2>1, <2>2, <2>3, <2>4 DEF Types, ReportedOK, StartOK, ModesOK, RealOK, BoundsOK
    <2>6. IndexOK' /\ PhaseOK' /\ NetOK'
      BY <1>0, <1>1, <1>2, <2>1, <2>2, <2>3, <2>4 DEF IndexOK, PhaseOK, NetOK, Loops, TickPlaces, StopPlaces
    <2>7. ThreadsOK'
      BY <1>0, <1>1, <1>2, <2>1, <2>2, <2>3, <2>4 DEF ThreadsOK, NoWorkers, Joined
    <2>8. DrivenOK'
      BY <1>0, <1>1, <1>2, <2>1, <2>2, <2>3, <2>4 DEF DrivenOK, NoWorkers
    <2>9. StoppingOK'
      BY <1>0, <1>1, <1>2, <2>1, <2>2, <2>3, <2>4 DEF StoppingOK, Joined
    <2>10. ReportOK'
      BY <1>0, <1>1, <1>2, <2>1, <2>2, <2>3, <2>4 DEF ReportOK, NoWorkers
    <2> QED
      BY <2>5, <2>6, <2>7, <2>8, <2>9, <2>10, InvParts DEF Parts
  <1>10. CASE StopClears
    <2>1. /\ main.at = "clear" /\ lifecycle = "STOPPED" /\ NoWorkers
          /\ runtime_active' = FALSE /\ main' = IdleMain /\ rw' = NoResourceWorker
          /\ suspended' = FALSE /\ net' = (IF suspended THEN "active" ELSE net)
          /\ UNCHANGED <<config, lifecycle, services, worker, modes, caller, up, cancel, bounds>>
      BY <1>0, <1>10 DEF StopClears, PhaseOK, ThreadsOK, resumes
    <2>2. /\ main' \in MainState /\ main'.at = "idle"
          /\ rw' \in RwState /\ rw'.at = "none"
      BY <2>1, Records
    <2>3. \A u \in Service : up[u] = "down"
      BY <1>0, <2>1 DEF StoppingOK, Joined
    <2>4. /\ stop_required' \in [Service -> BOOLEAN] /\ next_service' \in 0 .. COUNT
          /\ net' = "active"
      BY <1>0, <1>10, <2>1, ServiceIs DEF StopClears, NetOK, Types, RealOK
    <2>5. Types'
      BY <1>0, <1>1, <1>2, <2>1, <2>2, <2>3, <2>4 DEF Types, ReportedOK, StartOK, ModesOK, RealOK, BoundsOK
    <2>6. IndexOK' /\ PhaseOK' /\ NetOK'
      BY <1>0, <1>1, <1>2, <2>1, <2>2, <2>3, <2>4 DEF IndexOK, PhaseOK, NetOK, Loops, TickPlaces, StopPlaces
    <2>7. ThreadsOK'
      BY <1>0, <1>1, <1>2, <2>1, <2>2, <2>3, <2>4 DEF ThreadsOK, NoWorkers, Joined
    <2>8. DrivenOK'
      BY <1>0, <1>1, <1>2, <2>1, <2>2, <2>3, <2>4 DEF DrivenOK, NoWorkers
    <2>9. StoppingOK'
      BY <1>0, <1>1, <1>2, <2>1, <2>2, <2>3, <2>4 DEF StoppingOK, Joined
    <2>10. ReportOK'
      BY <1>0, <1>1, <1>2, <2>1, <2>2, <2>3, <2>4 DEF ReportOK, NoWorkers
    <2> QED
      BY <2>5, <2>6, <2>7, <2>8, <2>9, <2>10, InvParts DEF Parts
  <1> QED
    BY <1>3, <1>4, <1>5, <1>6, <1>7, <1>8, <1>9, <1>10 DEF Stop

LEMMA CallerStep ==
    ASSUME Inv4,
           (\E mode \in Mode : set_desired_resource_mode(mode)) \/ CallerRequestsStop \/ RetryDue
    PROVE  Inv4'
  <1> USE DEF Parts, reported, modes, real, bounds
  <1>0. Parts
    BY InvParts
  <1>1. transition \in TransitionState
    BY <1>0 DEF Types, ModesOK
  <1>2. UNCHANGED <<reported, stop_required, worker, next_service, rw, main, up, net,
                    suspended, failures>>
    BY DEF set_desired_resource_mode, CallerRequestsStop, RetryDue
  <1>3. ASSUME NEW mode \in Mode, set_desired_resource_mode(mode)
        PROVE  Inv4'
    <2>1. /\ ModesOK' /\ caller' \in {"idle", "request_stop"} /\ changes' \in 0 .. MaxChanges
          /\ UNCHANGED cancel
      <3>1. changes' \in 0 .. MaxChanges
        BY <1>0, <1>3, ResourceAssumption DEF set_desired_resource_mode, Types, BoundsOK
      <3>2. ModesOK'
        BY <1>0, <1>1, <1>3 DEF set_desired_resource_mode, Types, ModesOK, TransitionState
      <3> QED
        BY <1>3, <3>1, <3>2 DEF set_desired_resource_mode
    <2>2. Types'
      BY <1>0, <1>1, <1>2, <2>1 DEF Types, ReportedOK, StartOK, ModesOK, RealOK, BoundsOK
    <2>3. IndexOK' /\ PhaseOK' /\ NetOK'
      BY <1>0, <1>1, <1>2, <2>1 DEF IndexOK, PhaseOK, NetOK, Loops, TickPlaces, StopPlaces
    <2>4. ThreadsOK'
      BY <1>0, <1>1, <1>2, <2>1 DEF ThreadsOK, NoWorkers, Joined
    <2>5. DrivenOK'
      BY <1>0, <1>1, <1>2, <2>1 DEF DrivenOK, NoWorkers
    <2>6. StoppingOK'
      BY <1>0, <1>1, <1>2, <2>1 DEF StoppingOK, Joined
    <2>7. ReportOK'
      BY <1>0, <1>1, <1>2, <2>1 DEF ReportOK, NoWorkers
    <2> QED
      BY <2>2, <2>3, <2>4, <2>5, <2>6, <2>7, InvParts DEF Parts
  <1>4. CASE CallerRequestsStop
    <2>1. /\ UNCHANGED <<modes, changes>>
          /\ cancel' = TRUE /\ caller' = "idle"
      BY <1>4 DEF CallerRequestsStop
    <2>2. Types'
      BY <1>0, <1>1, <1>2, <2>1 DEF Types, ReportedOK, StartOK, ModesOK, RealOK, BoundsOK
    <2>3. IndexOK' /\ PhaseOK' /\ NetOK'
      BY <1>0, <1>1, <1>2, <2>1 DEF IndexOK, PhaseOK, NetOK, Loops, TickPlaces, StopPlaces
    <2>4. ThreadsOK'
      BY <1>0, <1>1, <1>2, <2>1 DEF ThreadsOK, NoWorkers, Joined
    <2>5. DrivenOK'
      BY <1>0, <1>1, <1>2, <2>1 DEF DrivenOK, NoWorkers
    <2>6. StoppingOK'
      BY <1>0, <1>1, <1>2, <2>1 DEF StoppingOK, Joined
    <2>7. ReportOK'
      BY <1>0, <1>1, <1>2, <2>1 DEF ReportOK, NoWorkers
    <2> QED
      BY <2>2, <2>3, <2>4, <2>5, <2>6, <2>7, InvParts DEF Parts
  <1>5. CASE RetryDue
    <2>1. /\ transition' \in TransitionState
          /\ UNCHANGED <<desired, applied, caller, cancel, changes>>
      BY <1>1, <1>5 DEF RetryDue, TransitionState
    <2>2. Types'
      BY <1>0, <1>1, <1>2, <2>1 DEF Types, ReportedOK, StartOK, ModesOK, RealOK, BoundsOK
    <2>3. IndexOK' /\ PhaseOK' /\ NetOK'
      BY <1>0, <1>1, <1>2, <2>1 DEF IndexOK, PhaseOK, NetOK, Loops, TickPlaces, StopPlaces
    <2>4. ThreadsOK'
      BY <1>0, <1>1, <1>2, <2>1 DEF ThreadsOK, NoWorkers, Joined
    <2>5. DrivenOK'
      BY <1>0, <1>1, <1>2, <2>1 DEF DrivenOK, NoWorkers
    <2>6. StoppingOK'
      BY <1>0, <1>1, <1>2, <2>1 DEF StoppingOK, Joined
    <2>7. ReportOK'
      BY <1>0, <1>1, <1>2, <2>1 DEF ReportOK, NoWorkers
    <2> QED
      BY <2>2, <2>3, <2>4, <2>5, <2>6, <2>7, InvParts DEF Parts
  <1> QED
    BY <1>3, <1>4, <1>5

LEMMA StutterStep ==
    ASSUME Inv4, UNCHANGED vars
    PROVE  Inv4'
  <1> USE DEF vars, reported, modes, real, bounds
  <1>1. Parts
    BY InvParts
  <1>2. Types'
    BY <1>1 DEF Parts, Types, ReportedOK, StartOK, ModesOK, RealOK, BoundsOK
  <1>3. IndexOK' /\ PhaseOK' /\ ThreadsOK'
    BY <1>1 DEF Parts, IndexOK, PhaseOK, ThreadsOK, NoWorkers
  <1>4. DrivenOK' /\ StoppingOK' /\ NetOK' /\ ReportOK'
    BY <1>1 DEF Parts, DrivenOK, StoppingOK, NetOK, ReportOK
  <1> QED
    BY <1>2, <1>3, <1>4, InvParts DEF Parts

-----------------------------------------------------------------------------
(* The invariant, and the theorems. *)

LEMMA InitInv == Init => Inv4
  <1> SUFFICES ASSUME Init PROVE Parts
    BY InvParts
  <1>1. /\ main \in MainState /\ main.at = "idle" /\ main.list = {}
        /\ rw \in RwState /\ rw.at = "none" /\ transition \in TransitionState
    BY Records DEF Init
  <1>2. Types
    <2>1. ReportedOK /\ ModesOK
      BY <1>1 DEF Init, ReportedOK, ModesOK, Lifecycles, States, Mode
    <2>2. StartOK
      BY ServiceIs DEF Init, StartOK, WorkerPlaces
    <2>3. RealOK
      BY DEF Init, RealOK, UpState
    <2>4. BoundsOK /\ caller = "idle"
      BY ResourceAssumption DEF Init, BoundsOK
    <2> QED
      BY <1>1, <2>1, <2>2, <2>3, <2>4 DEF Types
  <1>3. IndexOK /\ PhaseOK /\ ThreadsOK
    BY <1>1 DEF Init, IndexOK, PhaseOK, ThreadsOK, NoWorkers, Loops, TickPlaces, StopPlaces
  <1>4. DrivenOK /\ StoppingOK /\ NetOK /\ ReportOK
    BY <1>1 DEF Init, DrivenOK, StoppingOK, NetOK, ReportOK, Joined
  <1> QED
    BY <1>2, <1>3, <1>4 DEF Parts

LEMMA NextInv == Inv4 /\ [Next]_vars => Inv4'
  <1> SUFFICES ASSUME Inv4, [Next]_vars PROVE Inv4'
    OBVIOUS
  <1>1. CASE Start \/ LaunchEach \/ Tick
    BY <1>1, StartAndTickStep
  <1>2. CASE BeginStop \/ Stop
    BY <1>2, StopStep
  <1>3. CASE \E s \in Service : ServiceWorker(s)
    BY <1>3, ServiceWorkerStep
  <1>4. CASE ResourceWorker
    BY <1>4, ResourceWorkerStep
  <1>5. CASE (\E mode \in Mode : set_desired_resource_mode(mode)) \/ CallerRequestsStop \/ RetryDue
    BY <1>5, CallerStep
  <1>6. CASE UNCHANGED vars
    BY <1>6, StutterStep
  <1> QED
    BY <1>1, <1>2, <1>3, <1>4, <1>5, <1>6 DEF Next

LEMMA Invariant == Spec => []Inv4
  BY InitInv, NextInv, PTL DEF Spec

\* Every variable keeps its type: the loop indices of the resource worker and
\* of a stop stay within the services, for any number of failed starts.
THEOREM TypeCorrect == Spec => []TypeOK
  <1>1. Inv4 => TypeOK
    BY DEF Inv4, Inv3, Inv2, Inv1
  <1> QED
    BY <1>1, Invariant, PTL

\* No two threads are inside a start or stop of the same service.
THEOREM ServiceHasOneDriver == Spec => []OneDriver
  <1>1. ASSUME Inv4, NEW s \in Service
        PROVE  Cardinality(Calls(s)) <= 1
    <2>1. ThreadsOK
      BY <1>1 DEF Inv4, Inv3, Inv2
    <2>2. Calls(s) \in {{}, {"worker"}, {"resource"}, {"main"}}
      <3>1. CASE worker[s] \in {"launched", "starting"}
        <4>1. rw.at \notin {"stopping", "call", "starting"} /\ main.at # "stop_list"
          BY <2>1, <3>1 DEF ThreadsOK, NoWorkers, Joined
        <4> QED
          BY <3>1, <4>1 DEF Calls
      <3>2. CASE /\ worker[s] \notin {"launched", "starting"}
                 /\ rw.at \in {"stopping", "call", "starting"}
        <4>1. main.at # "stop_list"
          BY <2>1, <3>2 DEF ThreadsOK, Joined
        <4> QED
          BY <3>2, <4>1 DEF Calls
      <3>3. CASE /\ worker[s] \notin {"launched", "starting"}
                 /\ rw.at \notin {"stopping", "call", "starting"}
        BY <3>3 DEF Calls
      <3> QED
        BY <3>1, <3>2, <3>3
    <2>3. Cardinality({}) = 0
      BY FS_EmptySet
    <2>4. Cardinality({"worker"}) = 1 /\ Cardinality({"resource"}) = 1 /\ Cardinality({"main"}) = 1
      BY FS_Singleton
    <2> QED
      BY <2>2, <2>3, <2>4
  <1>2. Inv4 => OneDriver
    BY <1>1 DEF OneDriver
  <1> QED
    BY <1>2, Invariant, PTL

\* A stop that has returned leaves no thread, nothing running and no
\* background fetch held back, wherever it met the starts it waited for.
THEOREM StopIsComplete == Spec => []StopLeavesNothing
  <1>1. Inv4 => StopLeavesNothing
    <2> SUFFICES ASSUME Inv4, lifecycle = "STOPPED", main.at = "idle"
                 PROVE  /\ \A s \in Service : worker[s] = "none" /\ up[s] = "down"
                        /\ rw.at = "none" /\ net = "active" /\ ~suspended
      BY DEF StopLeavesNothing
    <2>1. ThreadsOK /\ StoppingOK /\ NetOK
      BY DEF Inv4, Inv3, Inv2
    <2> QED
      BY <2>1 DEF ThreadsOK, NoWorkers, StoppingOK, NetOK
  <1> QED
    BY <1>1, Invariant, PTL

\* Media that waited for its exclusive resources has the receivers to itself.
THEOREM ExclusiveIsIsolated == Spec => []ReceiversIsolated
  <1>1. Inv4 => ReceiversIsolated
    <2> SUFFICES ASSUME Inv4, NEW mode \in Mode, ready(mode),
                        NEW s \in config.enabled, ~required(mode, s)
                 PROVE  up[s] = "down"
      BY DEF ReceiversIsolated
    <2>1. ReportOK /\ s \in Service
      BY InvParts, ResourceAssumption DEF Parts, Types, ReportedOK
    <2>2. services[s] = "STOPPED"
      BY <2>1 DEF ready, services_match
    <2> QED
      BY <2>1, <2>2 DEF ReportOK
  <1> QED
    BY <1>1, Invariant, PTL
=============================================================================
