-------------------------- MODULE MediaActor_proofs --------------------------
(***************************************************************************)
(* Proofs about MediaActor for any number of submitters and stoppers, any  *)
(* capacity, reserve and burst.                                            *)
(***************************************************************************)
EXTENDS MediaActor, TLAPS

-----------------------------------------------------------------------------
(* The parts of the inductive invariant. *)

\* A command in hand is inside a burst.
BurstOK == worker \in {"validate", "execute"} => burst_left

\* Where media_actor_start, the worker and media_actor_stop can be together.
LifeOK ==
    /\ worker = "none" => starter \in {"off", "creating"}
    /\ starter \in {"off", "creating"} => worker \in {"none", "exited"}
    /\ starter # "up" => ~thread_started
    /\ starter = "up" => thread_started \/ worker = "exited"
    /\ \A t \in Stoppers : stopper[t] # "idle" => starter = "up"

\* A worker that has left its loop leaves an actor that refuses submissions.
ClosedOK ==
    worker \in {"finish", "exited"} /\ starter \in {"created", "up"} =>
        ~(running /\ ~stopping /\ accepting)

\* Only a drain of an actor that accepts nothing is recorded.
DrainOK == drained => ~accepting

\* health.current_command_id is set exactly while a command is in hand.
CurrentOK == current_command_id # 0 <=> worker \in {"validate", "execute"}

\* The queue holds ids already given out, in the order they were given out,
\* all newer than the command in hand.
QueueOK ==
    /\ \A i \in DOMAIN queue : /\ queue[i] <= last_command_id
                               /\ current_command_id < queue[i]
    /\ \A i, j \in DOMAIN queue : i < j => queue[i] < queue[j]
    /\ current_command_id <= last_command_id

\* A request is pending exactly while the actor holds it; ids not given out
\* yet are unused; nobody waits for an id that has no request.
OutcomeOK ==
    /\ \A i \in Ids : request[i].outcome = "pending" <=> ActorHolds(i)
    /\ \A i \in Ids : i > last_command_id => request[i] = unused_request
    /\ \A i \in Ids : WaitedFor(i) => request[i].outcome \notin {"unused", "DIRECT"}

\* Nobody waits for an id that was not given out, no two for the same one.
WaitsOK ==
    /\ \A s \in Submitters : waits[s] <= last_command_id
    /\ \A s, t \in Submitters : waits[s] = waits[t] /\ waits[s] # 0 => s = t

EmptyOK == worker \in {"none", "finish", "exited"} => queue = << >>

Inv1 == TypeOK /\ BurstOK
Inv2 == Inv1 /\ LifeOK /\ ClosedOK /\ DrainOK /\ CurrentOK
Inv3 == Inv2 /\ EmptyOK
Inv4 == Inv2 /\ QueueOK
Inv5 == Inv4 /\ OutcomeOK /\ WaitsOK /\ RequestLifetime

-----------------------------------------------------------------------------
(* Type correctness. *)

\* What dropping a reference does to a request: freed with the last one.
LEMMA DropReference ==
    ASSUME NEW r \in Request
    PROVE  /\ drop_reference(r) \in Request
           /\ drop_reference(r).command = r.command
           /\ drop_reference(r).outcome = r.outcome
           /\ drop_reference(r).references =
                  IF r.references > 0 THEN r.references - 1 ELSE 0
           /\ drop_reference(r).freed =
                  IF r.references > 1 THEN r.freed ELSE r.freed + 1
  <1>1. r.references \in Nat /\ r.freed \in Nat /\ r.outcome \in Outcomes
        /\ r.command \in Command \cup {NoCommand}
    BY DEF Request
  <1> QED
    BY <1>1 DEF drop_reference, Request

\* Completing a request records the status and drops the actor's reference.
LEMMA CompleteRequest ==
    ASSUME NEW r \in Request, NEW o \in Outcomes
    PROVE  /\ request_complete_locked(r, o) \in Request
           /\ request_complete_locked(r, o).command = r.command
           /\ request_complete_locked(r, o).outcome = o
           /\ request_complete_locked(r, o).references =
                  IF r.references > 0 THEN r.references - 1 ELSE 0
           /\ request_complete_locked(r, o).freed =
                  IF r.references > 1 THEN r.freed ELSE r.freed + 1
  <1> DEFINE q == [r EXCEPT !.outcome = o]
  <1>1. /\ q \in Request /\ q.command = r.command /\ q.outcome = o
        /\ q.references = r.references /\ q.freed = r.freed
    BY DEF Request
  <1>2. request_complete_locked(r, o) = drop_reference(q)
    BY DEF request_complete_locked
  <1> HIDE DEF q
  <1> QED
    BY <1>1, <1>2, DropReference

LEMMA TypeInit == Init => Inv1
  <1> SUFFICES ASSUME Init PROVE Inv1
    OBVIOUS
  <1> USE ConfigAssumption DEF Init, Ids
  <1>1. StoreTypeOK
    BY DEF StoreTypeOK, unused_request, Outcomes, Request
  <1>2. EngineTypeOK /\ BurstOK
    BY DEF EngineTypeOK, WorkerStates, BurstOK
  <1>3. FlagsTypeOK
    BY DEF FlagsTypeOK
  <1>4. /\ timed \in [Submitters -> BOOLEAN]
        /\ stopper \in [Stoppers -> {"idle", "waiting", "joining"}]
    OBVIOUS
  <1>5. waits \in [Submitters -> 0 .. MaxCommands]
    OBVIOUS
  <1>6. ThreadsTypeOK
    BY <1>4 DEF ThreadsTypeOK
  <1>7. CallersTypeOK
    BY <1>4, <1>5, Zenon DEF CallersTypeOK
  <1> QED
    BY <1>1, <1>2, <1>3, <1>6, <1>7 DEF Inv1, TypeOK

\* Rejecting every queued request keeps the commands and types.
LEMMA RejectPending ==
    ASSUME StoreTypeOK
    PROVE  /\ actor_reject_pending_locked \in [Ids -> Request]
           /\ \A i \in Ids : /\ i \in Queued => actor_reject_pending_locked[i] =
                                   request_complete_locked(request[i], "SHUTTING_DOWN")
                             /\ i \notin Queued => actor_reject_pending_locked[i] = request[i]
  <1>1. \A i \in Ids : request_complete_locked(request[i], "SHUTTING_DOWN") \in Request
    BY CompleteRequest DEF StoreTypeOK, Outcomes
  <1> QED
    BY <1>1 DEF StoreTypeOK, actor_reject_pending_locked

LEMMA AcceptedRequest ==
    ASSUME NEW c \in Command, NEW n \in Nat
    PROVE  accepted_request(c, n) \in Request
  BY DEF accepted_request, Request, Outcomes

-----------------------------------------------------------------------------
(* Which steps leave the store, the engine, ... well typed. *)

LEMMA StoreType ==
    ASSUME Inv1, [Next]_vars
    PROVE  StoreTypeOK'
  <1> USE ConfigAssumption DEF Inv1, TypeOK, Ids
  <1>1. ASSUME UNCHANGED store PROVE StoreTypeOK'
    BY <1>1 DEF store, StoreTypeOK
  <1>2. ASSUME NEW i \in Ids, NEW r \in Request,
               request' = [request EXCEPT ![i] = r],
               UNCHANGED <<queue, last_command_id>>
        PROVE  StoreTypeOK'
    BY <1>2 DEF StoreTypeOK
  <1>3. ASSUME NEW s \in Submitters, NEW c \in Commands, SubmitCoalesced(s, c)
        PROVE  StoreTypeOK'
    <2>1. next_command_id \in Ids /\ queue # << >> /\ queue \in Seq(Ids)
      BY <1>3 DEF SubmitCoalesced, SubmitAllowed, next_command_id, coalesces, StoreTypeOK
    <2>2. queue[Len(queue)] \in Ids
      BY <2>1
    <2>3. request_complete_locked(request[queue[Len(queue)]], "ACCEPTED") \in Request
      BY <2>2, CompleteRequest DEF StoreTypeOK, Outcomes
    <2>4. accepted_request(c, 1) \in Request
      BY AcceptedRequest
    <2>5. request' \in [Ids -> Request]
      BY <1>3, <2>1, <2>2, <2>3, <2>4 DEF SubmitCoalesced, StoreTypeOK
    <2>6. queue' \in Seq(Ids)
      BY <1>3, <2>1 DEF SubmitCoalesced
    <2> QED
      BY <1>3, <2>1, <2>5, <2>6 DEF SubmitCoalesced, StoreTypeOK
  <1>4. ASSUME NEW s \in Submitters, NEW c \in Commands, NEW n \in Nat,
               SubmitAllowed(s), enqueue(c, n)
        PROVE  StoreTypeOK'
    <2>1. next_command_id \in Ids
      BY <1>4 DEF SubmitAllowed, next_command_id, StoreTypeOK
    <2>2. accepted_request(c, n) \in Request
      BY AcceptedRequest
    <2> QED
      BY <1>4, <2>1, <2>2 DEF enqueue, StoreTypeOK
  <1>5. ASSUME NEW s \in Submitters, waits[s] # 0, wait_returns(s)
        PROVE  StoreTypeOK'
    <2>1. waits[s] \in Ids
      BY <1>5 DEF CallersTypeOK
    <2>2. drop_reference(request[waits[s]]) \in Request
      BY <2>1, DropReference DEF StoreTypeOK
    <2> QED
      BY <1>2, <1>5, <2>1, <2>2 DEF wait_returns
  <1>6. ASSUME queue' = << >>, request' = actor_reject_pending_locked,
               UNCHANGED last_command_id
        PROVE  StoreTypeOK'
    BY <1>6, RejectPending DEF StoreTypeOK
  <1>7. CASE WorkerPops
    BY <1>7 DEF WorkerPops, StoreTypeOK
  <1>8. ASSUME NEW status \in Outcomes, complete_current(status)
        PROVE  StoreTypeOK'
    <2>1. CASE current_command_id \in Ids
      <3>1. request_complete_locked(request[current_command_id], status) \in Request
        BY <2>1, CompleteRequest DEF StoreTypeOK
      <3> QED
        BY <1>2, <1>8, <2>1, <3>1 DEF complete_current
    <2>2. CASE current_command_id \notin Ids
      BY <1>8, <2>2 DEF complete_current, StoreTypeOK
    <2> QED
      BY <2>1, <2>2
  <1>9. ASSUME NEW c \in Commands, DirectBegin(c)
        PROVE  StoreTypeOK'
    <2>1. next_command_id \in Ids
      BY <1>9 DEF DirectBegin, next_command_id, StoreTypeOK
    <2>2. request' \in [Ids -> Request]
      BY <1>9, <2>1 DEF DirectBegin, StoreTypeOK, Request, Outcomes
    <2> QED
      BY <1>9, <2>1, <2>2 DEF DirectBegin, StoreTypeOK
  <1>10. CASE Start
    BY <1>1, <1>10 DEF Start, StartBegin, StartThread, StartFails, StartReturn
  <1>11. CASE WorkerStep
    <2>1. CASE WorkerInitializeFails
      BY <1>6, <2>1 DEF WorkerInitializeFails
    <2>2. CASE WorkerStops
      BY <1>6, <2>2 DEF WorkerStops
    <2>3. ASSUME NEW ok \in BOOLEAN, WorkerExecutes(ok)
          PROVE  StoreTypeOK'
      BY <1>8, <2>3 DEF WorkerExecutes, Outcomes
    <2>4. CASE WorkerInitialized \/ WorkerLeavesBurst \/ WorkerPumps \/ WorkerFinishes
      BY <1>1, <2>4 DEF WorkerInitialized, WorkerLeavesBurst, WorkerPumps, WorkerFinishes
    <2> QED
      BY <1>7, <1>11, <2>1, <2>2, <2>3, <2>4 DEF WorkerStep
  <1>12. ASSUME NEW valid \in BOOLEAN, WorkerValidates(valid)
         PROVE  StoreTypeOK'
    BY <1>1, <1>8, <1>12 DEF WorkerValidates, Outcomes
  <1>13. CASE Direct
    BY <1>1, <1>9, <1>13 DEF Direct, DirectEnd
  <1>14. CASE Activate \/ Quiesce \/ WaitIdle \/ StopOnWorker
    BY <1>1, <1>14 DEF Activate, Quiesce, WaitIdle, StopOnWorker
  <1>15. ASSUME NEW s \in Submitters, Submit(s) \/ WaitCompleted(s) \/ WaitTimeout(s)
         PROVE  StoreTypeOK'
    <2>1. CASE Submit(s)
      BY <1>3, <1>4, <2>1 DEF Submit, SubmitAsync, SubmitWait
    <2>2. CASE WaitCompleted(s) \/ WaitTimeout(s)
      BY <1>5, <2>2 DEF WaitCompleted, WaitTimeout
    <2> QED
      BY <1>15, <2>1, <2>2
  <1>16. ASSUME NEW t \in Stoppers, Stop(t)
         PROVE  StoreTypeOK'
    BY <1>1, <1>16 DEF Stop, StopCalled, StopFindsNoThread, StopBegins, StopJoins
  <1>17. CASE UNCHANGED vars
    BY <1>1, <1>17 DEF vars
  <1> QED
    BY <1>10, <1>11, <1>12, <1>13, <1>14, <1>15, <1>16, <1>17 DEF Next

\* The worker's place, burst counter and ids.
LEMMA EngineType ==
    ASSUME Inv1, [Next]_vars
    PROVE  EngineTypeOK' /\ BurstOK'
  <1> USE ConfigAssumption DEF Inv1, TypeOK, EngineTypeOK, BurstOK, burst_left,
                               WorkerStates
  <1>1. ASSUME UNCHANGED engine PROVE EngineTypeOK' /\ BurstOK'
    BY <1>1 DEF engine
  <1>2. ASSUME NEW status, complete_current(status), worker \in {"validate", "execute"}
        PROVE  EngineTypeOK' /\ BurstOK'
    BY <1>2 DEF complete_current
  <1>3. CASE Start
    <2>1. CASE StartThread
      BY <2>1 DEF StartThread
    <2> QED
      BY <1>1, <1>3, <2>1 DEF Start, StartBegin, StartFails, StartReturn
  <1>4. CASE WorkerStep
    <2>1. CASE WorkerPops
      <3>1. Head(queue) \in 0 .. MaxCommands
        BY <2>1 DEF WorkerPops, StoreTypeOK, Ids
      <3> QED
        BY <2>1, <3>1 DEF WorkerPops
    <2>2. ASSUME NEW ok \in BOOLEAN, WorkerExecutes(ok)
          PROVE  EngineTypeOK' /\ BurstOK'
      BY <1>2, <2>2 DEF WorkerExecutes
    <2>3. CASE WorkerInitialized \/ WorkerInitializeFails \/ WorkerStops
      BY <2>3 DEF WorkerInitialized, WorkerInitializeFails, WorkerStops
    <2>4. CASE WorkerLeavesBurst \/ WorkerPumps \/ WorkerFinishes
      BY <2>4 DEF WorkerLeavesBurst, WorkerPumps, WorkerFinishes
    <2> QED
      BY <1>4, <2>1, <2>2, <2>3, <2>4 DEF WorkerStep
  <1>5. ASSUME NEW valid \in BOOLEAN, WorkerValidates(valid)
        PROVE  EngineTypeOK' /\ BurstOK'
    BY <1>2, <1>5 DEF WorkerValidates
  <1>6. CASE Direct
    <2>1. ASSUME NEW c \in Commands, DirectBegin(c)
          PROVE  EngineTypeOK' /\ BurstOK'
      <3>1. last_command_id < MaxCommands /\ direct' = last_command_id + 1
        BY <2>1 DEF DirectBegin, next_command_id
      <3>2. direct' \in 0 .. MaxCommands
        BY <3>1 DEF StoreTypeOK
      <3>3. UNCHANGED <<worker, processed, current_command_id>>
        BY <2>1 DEF DirectBegin
      <3> QED
        BY <3>2, <3>3
    <2>2. CASE DirectEnd
      BY <2>2 DEF DirectEnd
    <2> QED
      BY <1>6, <2>1, <2>2 DEF Direct
  <1>7. CASE Activate \/ Quiesce \/ WaitIdle \/ StopOnWorker
    BY <1>1, <1>7 DEF Activate, Quiesce, WaitIdle, StopOnWorker
  <1>8. ASSUME NEW s \in Submitters, Submit(s) \/ WaitCompleted(s) \/ WaitTimeout(s)
        PROVE  EngineTypeOK' /\ BurstOK'
    BY <1>1, <1>8 DEF Submit, SubmitCoalesced, SubmitAsync, SubmitWait,
                      WaitCompleted, WaitTimeout, wait_returns
  <1>9. ASSUME NEW t \in Stoppers, Stop(t)
        PROVE  EngineTypeOK' /\ BurstOK'
    BY <1>1, <1>9 DEF Stop, StopCalled, StopFindsNoThread, StopBegins, StopJoins
  <1>10. CASE UNCHANGED vars
    BY <1>1, <1>10 DEF vars
  <1> QED
    BY <1>3, <1>4, <1>5, <1>6, <1>7, <1>8, <1>9, <1>10 DEF Next

\* The Boolean flags, and the places of starter and stoppers.
LEMMA ControlType ==
    ASSUME Inv1, [Next]_vars
    PROVE  FlagsTypeOK' /\ ThreadsTypeOK'
  <1> USE ConfigAssumption DEF Inv1, TypeOK, FlagsTypeOK, ThreadsTypeOK
  <1>1. ASSUME UNCHANGED <<flags, threads, drained>> PROVE FlagsTypeOK' /\ ThreadsTypeOK'
    BY <1>1 DEF flags, threads
  <1>2. CASE Start
    <2>1. CASE StartBegin
      BY <2>1 DEF StartBegin
    <2>2. CASE StartFails
      BY <2>2 DEF StartFails
    <2>3. CASE StartThread \/ StartReturn
      BY <2>3 DEF StartThread, StartReturn, flags
    <2> QED
      BY <1>2, <2>1, <2>2, <2>3 DEF Start
  <1>3. CASE WorkerStep
    <2>1. CASE WorkerInitialized
      BY <2>1 DEF WorkerInitialized, threads
    <2>2. CASE WorkerInitializeFails
      BY <2>2 DEF WorkerInitializeFails, threads
    <2>3. CASE WorkerFinishes
      BY <2>3 DEF WorkerFinishes, threads
    <2> QED
      BY <1>1, <1>3, <2>1, <2>2, <2>3 DEF WorkerStep, WorkerStops, WorkerLeavesBurst, WorkerPops,
                              WorkerExecutes, complete_current, WorkerPumps
  <1>4. ASSUME NEW valid \in BOOLEAN, WorkerValidates(valid)
        PROVE  FlagsTypeOK' /\ ThreadsTypeOK'
    BY <1>1, <1>4 DEF WorkerValidates, complete_current
  <1>5. CASE Direct
    BY <1>1, <1>5 DEF Direct, DirectBegin, DirectEnd
  <1>6. CASE Activate \/ Quiesce \/ WaitIdle \/ StopOnWorker
    <2>1. CASE Activate
      BY <2>1 DEF Activate, threads
    <2>2. CASE Quiesce
      BY <2>2 DEF Quiesce, threads
    <2>3. CASE WaitIdle
      BY <2>3 DEF WaitIdle, flags, threads
    <2>4. CASE StopOnWorker
      BY <2>4 DEF StopOnWorker, threads
    <2> QED
      BY <1>6, <2>1, <2>2, <2>3, <2>4
  <1>7. ASSUME NEW s \in Submitters, Submit(s) \/ WaitCompleted(s) \/ WaitTimeout(s)
        PROVE  FlagsTypeOK' /\ ThreadsTypeOK'
    BY <1>1, <1>7 DEF Submit, SubmitCoalesced, SubmitAsync, SubmitWait,
                      WaitCompleted, WaitTimeout, wait_returns
  <1>8. ASSUME NEW t \in Stoppers, Stop(t)
        PROVE  FlagsTypeOK' /\ ThreadsTypeOK'
    <2>1. stopper' \in [Stoppers -> {"idle", "waiting", "joining"}]
      BY <1>8 DEF Stop, StopCalled, StopFindsNoThread, StopBegins, StopJoins
    <2>2. CASE StopCalled(t) \/ StopFindsNoThread(t)
      BY <2>1, <2>2 DEF StopCalled, StopFindsNoThread, flags
    <2>3. CASE StopBegins(t)
      BY <2>1, <2>3 DEF StopBegins
    <2>4. CASE StopJoins(t)
      BY <2>1, <2>4 DEF StopJoins
    <2> QED
      BY <1>8, <2>2, <2>3, <2>4 DEF Stop
  <1>9. CASE UNCHANGED vars
    BY <1>1, <1>9 DEF vars
  <1> QED
    BY <1>2, <1>3, <1>4, <1>5, <1>6, <1>7, <1>8, <1>9 DEF Next

\* What submitters wait for.
LEMMA CallersType ==
    ASSUME Inv1, [Next]_vars
    PROVE  CallersTypeOK'
  <1> USE ConfigAssumption DEF Inv1, TypeOK, CallersTypeOK
  <1>1. ASSUME UNCHANGED callers PROVE CallersTypeOK'
    BY <1>1, Zenon DEF callers
  <1>2. ASSUME NEW s \in Submitters, NEW c \in Commands, NEW deadline \in BOOLEAN,
               SubmitWait(s, c, deadline)
        PROVE  CallersTypeOK'
    <2>1. next_command_id \in 0 .. MaxCommands
      BY <1>2 DEF SubmitWait, SubmitAllowed, next_command_id, StoreTypeOK
    <2>2. waits' \in [Submitters -> 0 .. MaxCommands]
      BY <1>2, <2>1 DEF SubmitWait
    <2>3. timed' \in [Submitters -> BOOLEAN]
      BY <1>2 DEF SubmitWait
    <2> QED
      BY <2>2, <2>3, Zenon
  <1>3. ASSUME NEW s \in Submitters, wait_returns(s)
        PROVE  CallersTypeOK'
    <2>1. waits' \in [Submitters -> 0 .. MaxCommands]
      BY <1>3 DEF wait_returns
    <2>2. timed' \in [Submitters -> BOOLEAN]
      BY <1>3 DEF wait_returns
    <2> QED
      BY <2>1, <2>2, Zenon
  <1>4. ASSUME NEW s \in Submitters, Submit(s) \/ WaitCompleted(s) \/ WaitTimeout(s)
        PROVE  CallersTypeOK'
    BY <1>1, <1>2, <1>3, <1>4 DEF Submit, SubmitCoalesced, SubmitAsync,
                                  WaitCompleted, WaitTimeout
  <1>5. CASE Start \/ Direct \/ Activate \/ Quiesce \/ WaitIdle \/ StopOnWorker
    BY <1>1, <1>5 DEF Start, StartBegin, StartThread, StartFails, StartReturn, Direct,
                      DirectBegin, DirectEnd, Activate, Quiesce, WaitIdle, StopOnWorker
  <1>6. CASE WorkerStep \/ \E valid \in BOOLEAN : WorkerValidates(valid)
    BY <1>1, <1>6 DEF WorkerStep, WorkerInitialized, WorkerInitializeFails, WorkerStops,
                      WorkerLeavesBurst, WorkerPops, WorkerExecutes, WorkerPumps,
                      WorkerFinishes, WorkerValidates, complete_current
  <1>7. ASSUME NEW t \in Stoppers, Stop(t)
        PROVE  CallersTypeOK'
    BY <1>1, <1>7 DEF Stop, StopCalled, StopFindsNoThread, StopBegins, StopJoins
  <1>8. CASE UNCHANGED vars
    BY <1>1, <1>8 DEF vars
  <1> QED
    BY <1>4, <1>5, <1>6, <1>7, <1>8 DEF Next

LEMMA TypeStep == Inv1 /\ [Next]_vars => Inv1'
  BY StoreType, EngineType, ControlType, CallersType DEF Inv1, TypeOK

\* Type correctness of the actor: ids and counters stay in their ranges, in
\* particular the burst never exceeds max_command_burst.
THEOREM TypeCorrect == Spec => []TypeOK
  <1>1. Spec => []Inv1
    BY TypeInit, TypeStep, PTL DEF Spec
  <1>2. Inv1 => TypeOK
    BY DEF Inv1
  <1> QED
    BY <1>1, <1>2, PTL

-----------------------------------------------------------------------------
(* Start, worker and stop together; the drain. *)

Control == LifeOK /\ ClosedOK /\ DrainOK /\ CurrentOK

LEMMA ControlInit == Init => Control
  BY DEF Init, Control, LifeOK, ClosedOK, DrainOK, CurrentOK

LEMMA ControlStep ==
    ASSUME Inv2, [Next]_vars
    PROVE  Control'
  <1> USE DEF Inv2, Control, LifeOK, ClosedOK, DrainOK, CurrentOK
  <1>1. ASSUME UNCHANGED <<worker, current_command_id, flags, threads, drained>>
        PROVE  Control'
    BY <1>1 DEF flags, threads
  <1>2. ASSUME NEW status, complete_current(status), worker \in {"validate", "execute"}
        PROVE  Control'
    BY <1>2 DEF complete_current, flags, threads
  <1>3. CASE Start
    <2>1. CASE StartBegin
      BY <2>1 DEF StartBegin, engine
    <2>2. CASE StartThread
      BY <2>2 DEF StartThread, flags
    <2>3. CASE StartFails
      BY <2>3 DEF StartFails, engine
    <2>4. CASE StartReturn
      BY <2>4 DEF StartReturn, engine, flags
    <2> QED
      BY <1>3, <2>1, <2>2, <2>3, <2>4 DEF Start
  <1>4. CASE WorkerStep
    <2>1. CASE WorkerInitialized
      BY <2>1 DEF WorkerInitialized, threads
    <2>2. CASE WorkerInitializeFails
      BY <2>2 DEF WorkerInitializeFails, threads
    <2>3. CASE WorkerStops
      BY <2>3 DEF WorkerStops, flags, threads
    <2>4. CASE WorkerLeavesBurst
      BY <2>4 DEF WorkerLeavesBurst, flags, threads
    <2>5. CASE WorkerPops
      <3>1. Head(queue) # 0
        BY <2>5 DEF WorkerPops, Inv1, TypeOK, StoreTypeOK, Ids
      <3> QED
        BY <2>5, <3>1 DEF WorkerPops, flags, threads
    <2>6. ASSUME NEW ok \in BOOLEAN, WorkerExecutes(ok)
          PROVE  Control'
      BY <1>2, <2>6 DEF WorkerExecutes
    <2>7. CASE WorkerPumps
      BY <2>7 DEF WorkerPumps, flags, threads
    <2>8. CASE WorkerFinishes
      BY <2>8 DEF WorkerFinishes, threads
    <2> QED
      BY <1>4, <2>1, <2>2, <2>3, <2>4, <2>5, <2>6, <2>7, <2>8 DEF WorkerStep
  <1>5. ASSUME NEW valid \in BOOLEAN, WorkerValidates(valid)
        PROVE  Control'
    <2>1. CASE valid
      BY <1>5, <2>1 DEF WorkerValidates, flags, threads
    <2>2. CASE ~valid
      BY <1>2, <1>5, <2>2 DEF WorkerValidates
    <2> QED
      BY <2>1, <2>2
  <1>6. CASE Direct
    BY <1>1, <1>6 DEF Direct, DirectBegin, DirectEnd
  <1>7. CASE Activate
    BY <1>7 DEF Activate, engine, threads
  <1>8. CASE Quiesce
    BY <1>8 DEF Quiesce, engine, threads
  <1>9. CASE WaitIdle
    BY <1>9 DEF WaitIdle, engine, flags, threads
  <1>10. CASE StopOnWorker
    BY <1>10 DEF StopOnWorker, engine, threads
  <1>11. ASSUME NEW s \in Submitters, Submit(s) \/ WaitCompleted(s) \/ WaitTimeout(s)
         PROVE  Control'
    BY <1>1, <1>11 DEF Submit, SubmitCoalesced, SubmitAsync, SubmitWait,
                       WaitCompleted, WaitTimeout, wait_returns, engine
  <1>12. ASSUME NEW t \in Stoppers, Stop(t)
         PROVE  Control'
    <2> USE <1>12 DEF Inv1, TypeOK, ThreadsTypeOK
    <2>1. CASE StopCalled(t)
      BY <2>1 DEF StopCalled, engine, flags
    <2>2. CASE StopFindsNoThread(t)
      BY <2>2 DEF StopFindsNoThread, engine, flags
    <2>3. CASE StopBegins(t)
      BY <2>3 DEF StopBegins, engine
    <2>4. CASE StopJoins(t)
      BY <2>4 DEF StopJoins, engine
    <2> QED
      BY <2>1, <2>2, <2>3, <2>4 DEF Stop
  <1>13. CASE UNCHANGED vars
    BY <1>1, <1>13 DEF vars, engine
  <1> QED
    BY <1>3, <1>4, <1>5, <1>6, <1>7, <1>8, <1>9, <1>10, <1>11, <1>12, <1>13 DEF Next

LEMMA ControlInvariant == Spec => []Inv2
  <1>1. Init => Inv2
    BY TypeInit, ControlInit DEF Inv2, Control
  <1>2. Inv2 /\ [Next]_vars => Inv2'
    BY TypeStep, ControlStep DEF Inv2, Control
  <1> QED
    BY <1>1, <1>2, PTL DEF Spec

\* A worker out of its loop leaves the queue empty.
LEMMA EmptyStep ==
    ASSUME Inv3, [Next]_vars
    PROVE  EmptyOK'
  <1> USE DEF Inv3, EmptyOK
  <1>1. ASSUME UNCHANGED <<queue, worker>> PROVE EmptyOK'
    BY <1>1
  <1>2. CASE Start
    BY <1>2 DEF Start, StartBegin, StartThread, StartFails, StartReturn, store, engine
  <1>3. CASE WorkerStep
    BY <1>3 DEF WorkerStep, WorkerInitialized, WorkerInitializeFails, WorkerStops,
                WorkerLeavesBurst, WorkerPops, WorkerExecutes, complete_current,
                WorkerPumps, WorkerFinishes, store
  <1>4. ASSUME NEW valid \in BOOLEAN, WorkerValidates(valid)
        PROVE  EmptyOK'
    BY <1>4 DEF WorkerValidates, complete_current
  <1>5. CASE Direct \/ Activate \/ Quiesce \/ WaitIdle \/ StopOnWorker
    BY <1>1, <1>5 DEF Direct, DirectBegin, DirectEnd, Activate, Quiesce, WaitIdle,
                      StopOnWorker, store, engine
  <1>6. ASSUME NEW s \in Submitters, Submit(s) \/ WaitCompleted(s) \/ WaitTimeout(s)
        PROVE  EmptyOK'
    <2>1. CASE Submit(s)
      <3>1. SubmitAllowed(s) /\ UNCHANGED worker
        BY <2>1 DEF Submit, SubmitCoalesced, SubmitAsync, SubmitWait, engine
      <3>2. worker \notin {"none", "finish", "exited"}
        BY <3>1 DEF SubmitAllowed, CanSubmit, Inv2, LifeOK, ClosedOK
      <3> QED
        BY <3>1, <3>2
    <2>2. CASE WaitCompleted(s) \/ WaitTimeout(s)
      BY <1>1, <2>2 DEF WaitCompleted, WaitTimeout, wait_returns, engine
    <2> QED
      BY <1>6, <2>1, <2>2
  <1>7. ASSUME NEW t \in Stoppers, Stop(t)
        PROVE  EmptyOK'
    BY <1>1, <1>7 DEF Stop, StopCalled, StopFindsNoThread, StopBegins, StopJoins,
                      store, engine
  <1>8. CASE UNCHANGED vars
    BY <1>1, <1>8 DEF vars, store, engine
  <1> QED
    BY <1>2, <1>3, <1>4, <1>5, <1>6, <1>7, <1>8 DEF Next

LEMMA EmptyInvariant == Spec => []Inv3
  <1>1. Init => EmptyOK
    BY DEF Init, EmptyOK
  <1>2. Inv3 /\ [Next]_vars => EmptyOK'
    BY EmptyStep
  <1> QED
    BY <1>1, <1>2, ControlInvariant, PTL DEF Spec, Inv3

\* media_actor_stop returns to every caller, one that joined the worker or one
\* that found it joined, only when the worker has exited and nothing is queued.
THEOREM StopComplete == Spec => StopIsComplete
  <1>1. ASSUME Inv3, Inv3', [Next]_vars,
               NEW t \in Stoppers, stopper[t] # "idle", stopper'[t] = "idle"
        PROVE  worker' = "exited" /\ queue' = << >>
    <2>1. ASSUME NEW u \in Stoppers, Stop(u)
          PROVE  worker' = "exited"
      BY <1>1, <2>1 DEF Stop, StopCalled, StopFindsNoThread, StopBegins, StopJoins,
                        engine, Inv3, Inv2, Inv1, TypeOK, ThreadsTypeOK, LifeOK
    <2>2. ASSUME UNCHANGED stopper PROVE FALSE
      BY <1>1, <2>2
    <2>3. \/ \E u \in Stoppers : Stop(u)
          \/ UNCHANGED stopper
      BY <1>1 DEF Next, Start, StartBegin, StartThread, StartFails, StartReturn,
                  WorkerStep, WorkerInitialized, WorkerInitializeFails, WorkerStops,
                  WorkerLeavesBurst, WorkerPops, WorkerExecutes, complete_current,
                  WorkerPumps, WorkerFinishes, WorkerValidates, Direct, DirectBegin,
                  DirectEnd, Activate, Quiesce, WaitIdle, StopOnWorker, Submit,
                  SubmitCoalesced, SubmitAsync, SubmitWait, WaitCompleted, WaitTimeout,
                  wait_returns, vars, threads
    <2> QED
      BY <1>1, <2>1, <2>2, <2>3 DEF Inv3, EmptyOK
  <1>2. Inv3 /\ Inv3' /\ [Next]_vars =>
            [\A t \in Stoppers : stopper[t] # "idle" /\ stopper'[t] = "idle" =>
                 worker' = "exited" /\ queue' = << >>]_vars
    BY <1>1
  <1> QED
    BY <1>2, EmptyInvariant, PTL DEF Spec, StopIsComplete

\* Quiesce then wait_idle is a drain.
THEOREM DrainIsFinal == Spec => []DrainHolds
  <1>1. Init => DrainHolds
    BY DEF Init, DrainHolds
  <1>2. ASSUME Inv2, Inv2', DrainHolds, [Next]_vars
        PROVE  DrainHolds'
    <2> USE <1>2 DEF DrainHolds
    <2>1. ASSUME UNCHANGED <<queue, worker, drained>> PROVE DrainHolds'
      BY <2>1
    <2>2. CASE Start
      BY <2>2 DEF Start, StartBegin, StartThread, StartFails, StartReturn, store, engine
    <2>3. CASE WorkerStep
      BY <2>3 DEF WorkerStep, WorkerInitialized, WorkerInitializeFails, WorkerStops,
                  WorkerLeavesBurst, WorkerPops, WorkerExecutes, complete_current,
                  WorkerPumps, WorkerFinishes, store
    <2>4. ASSUME NEW valid \in BOOLEAN, WorkerValidates(valid)
          PROVE  DrainHolds'
      BY <2>4 DEF WorkerValidates, complete_current, store
    <2>5. CASE Direct \/ Activate \/ Quiesce \/ StopOnWorker
      BY <2>1, <2>5 DEF Direct, DirectBegin, DirectEnd, Activate, Quiesce,
                        StopOnWorker, store, engine
    <2>6. CASE WaitIdle
      BY <2>6 DEF WaitIdle, store, engine, Inv2, CurrentOK
    <2>7. ASSUME NEW s \in Submitters, Submit(s) \/ WaitCompleted(s) \/ WaitTimeout(s)
          PROVE  DrainHolds'
      <3>1. CASE Submit(s)
        <4>1. SubmitAllowed(s) /\ UNCHANGED drained
          BY <3>1 DEF Submit, SubmitCoalesced, SubmitAsync, SubmitWait
        <4>2. ~drained
          BY <4>1 DEF SubmitAllowed, Inv2, DrainOK
        <4> QED
          BY <4>1, <4>2
      <3>2. CASE WaitCompleted(s) \/ WaitTimeout(s)
        BY <2>1, <3>2 DEF WaitCompleted, WaitTimeout, wait_returns, engine
      <3> QED
        BY <2>7, <3>1, <3>2
    <2>8. ASSUME NEW t \in Stoppers, Stop(t)
          PROVE  DrainHolds'
      BY <2>1, <2>8 DEF Stop, StopCalled, StopFindsNoThread, StopBegins, StopJoins,
                        store, engine
    <2>9. CASE UNCHANGED vars
      BY <2>1, <2>9 DEF vars, store, engine
    <2> QED
      BY <2>2, <2>3, <2>4, <2>5, <2>6, <2>7, <2>8, <2>9 DEF Next
  <1> QED
    BY <1>1, <1>2, ControlInvariant, PTL DEF Spec

-----------------------------------------------------------------------------
(* The queue. *)

requests == <<queue, request, last_command_id, current_command_id, waits>>

\* Everything a step can do to the queue and the requests.
LEMMA RequestSteps ==
    ASSUME [Next]_vars
    PROVE  \/ UNCHANGED requests
           \/ \E s \in Submitters, c \in Commands : SubmitCoalesced(s, c)
           \/ \E s \in Submitters, c \in Commands : SubmitAsync(s, c)
           \/ \E s \in Submitters, c \in Commands, d \in BOOLEAN : SubmitWait(s, c, d)
           \/ \E s \in Submitters : waits[s] # 0 /\ wait_returns(s)
           \/ /\ queue' = << >> /\ request' = actor_reject_pending_locked
              /\ worker \in {"init", "poll"}
              /\ UNCHANGED <<last_command_id, current_command_id, waits>>
           \/ WorkerPops
           \/ \E status \in {"STALE", "EXECUTED", "EXECUTION_FAILED"} :
                  worker \in {"validate", "execute"} /\ complete_current(status)
           \/ \E c \in Commands : DirectBegin(c)
  <1> USE DEF requests, store, engine, callers
  <1>1. CASE Start
    BY <1>1 DEF Start, StartBegin, StartThread, StartFails, StartReturn
  <1>2. CASE WorkerStep
    BY <1>2 DEF WorkerStep, WorkerInitialized, WorkerInitializeFails, WorkerStops,
                WorkerLeavesBurst, WorkerExecutes, WorkerPumps, WorkerFinishes
  <1>3. CASE \E valid \in BOOLEAN : WorkerValidates(valid)
    BY <1>3 DEF WorkerValidates
  <1>4. CASE Direct
    BY <1>4 DEF Direct, DirectEnd
  <1>5. CASE Activate \/ Quiesce \/ WaitIdle \/ StopOnWorker
    BY <1>5 DEF Activate, Quiesce, WaitIdle, StopOnWorker
  <1>6. ASSUME NEW s \in Submitters, Submit(s)
        PROVE  \/ \E c \in Commands : SubmitCoalesced(s, c)
               \/ \E c \in Commands : SubmitAsync(s, c)
               \/ \E c \in Commands, d \in BOOLEAN : SubmitWait(s, c, d)
    BY <1>6 DEF Submit
  <1>7. ASSUME NEW s \in Submitters, WaitCompleted(s) \/ WaitTimeout(s)
        PROVE  waits[s] # 0 /\ wait_returns(s)
    BY <1>7 DEF WaitCompleted, WaitTimeout
  <1>8. CASE \E t \in Stoppers : Stop(t)
    BY <1>8 DEF Stop, StopCalled, StopFindsNoThread, StopBegins, StopJoins
  <1>9. CASE UNCHANGED vars
    BY <1>9 DEF vars
  <1> QED
    BY <1>1, <1>2, <1>3, <1>4, <1>5, <1>6, <1>7, <1>8, <1>9 DEF Next

LEMMA QueueStep ==
    ASSUME Inv4, [Next]_vars
    PROVE  QueueOK'
  <1>0. /\ queue \in Seq(Ids) /\ last_command_id \in Nat
        /\ current_command_id \in Nat
        /\ \A i \in DOMAIN queue : queue[i] \in Nat /\ queue[i] > 0
    BY ConfigAssumption DEF Inv4, Inv2, Inv1, TypeOK, StoreTypeOK, EngineTypeOK, Ids
  <1> USE <1>0 DEF Inv4, QueueOK
  <1>1. CASE UNCHANGED requests
    BY <1>1 DEF requests
  <1>2. ASSUME NEW s \in Submitters, NEW c \in Commands, SubmitCoalesced(s, c)
        PROVE  QueueOK'
    <2>1. /\ queue # << >>
          /\ queue' = [queue EXCEPT ![Len(queue)] = last_command_id + 1]
          /\ last_command_id' = last_command_id + 1
          /\ UNCHANGED current_command_id
      BY <1>2 DEF SubmitCoalesced, coalesces, next_command_id, engine
    <2>2. /\ DOMAIN queue = 1 .. Len(queue) /\ Len(queue) \in Nat
          /\ DOMAIN queue' = DOMAIN queue
      BY <2>1
    <2>3. \A i \in DOMAIN queue : queue'[i] = IF i = Len(queue)
                                             THEN last_command_id + 1 ELSE queue[i]
      BY <2>1
    <2> HIDE DEF QueueOK
    <2>4. ASSUME NEW i \in DOMAIN queue
          PROVE  queue'[i] <= last_command_id + 1 /\ current_command_id < queue'[i]
      BY <2>3 DEF QueueOK
    <2>5. ASSUME NEW i \in DOMAIN queue, NEW j \in DOMAIN queue, i < j
          PROVE  queue'[i] < queue'[j]
      BY <2>2, <2>3, <2>5 DEF QueueOK
    <2> QED
      BY <2>1, <2>2, <2>4, <2>5 DEF QueueOK
  <1>3. ASSUME NEW s \in Submitters, NEW c \in Commands, NEW n \in Nat,
               SubmitAllowed(s), enqueue(c, n), UNCHANGED current_command_id
        PROVE  QueueOK'
    <2>1. /\ queue' = Append(queue, last_command_id + 1)
          /\ last_command_id' = last_command_id + 1
      BY <1>3 DEF enqueue, next_command_id
    <2>2. /\ DOMAIN queue = 1 .. Len(queue) /\ Len(queue) \in Nat
          /\ DOMAIN queue' = 1 .. Len(queue) + 1
      BY <2>1
    <2>3. \A i \in DOMAIN queue' :
              \/ i = Len(queue) + 1 /\ queue'[i] = last_command_id + 1
              \/ i \in DOMAIN queue /\ queue'[i] = queue[i]
      BY <2>1, <2>2
    <2> HIDE DEF QueueOK
    <2>4. ASSUME NEW i \in DOMAIN queue'
          PROVE  queue'[i] <= last_command_id + 1 /\ current_command_id < queue'[i]
      BY <2>3 DEF QueueOK
    <2>5. ASSUME NEW i \in DOMAIN queue', NEW j \in DOMAIN queue', i < j
          PROVE  queue'[i] < queue'[j]
      BY <2>2, <2>3, <2>5 DEF QueueOK
    <2> QED
      BY <1>3, <2>1, <2>4, <2>5 DEF QueueOK
  <1>4. ASSUME NEW s \in Submitters, wait_returns(s)
        PROVE  QueueOK'
    BY <1>4 DEF wait_returns, engine
  <1>5. CASE queue' = << >> /\ UNCHANGED <<last_command_id, current_command_id>>
    BY <1>5
  <1>6. CASE WorkerPops
    <2>1. /\ queue # << >>
          /\ queue' = Tail(queue) /\ current_command_id' = queue[1]
          /\ UNCHANGED last_command_id
      BY <1>6 DEF WorkerPops
    <2>2. \A i \in DOMAIN queue' : i + 1 \in DOMAIN queue /\ queue'[i] = queue[i + 1]
      BY <2>1
    <2>3. 1 \in DOMAIN queue
      BY <2>1
    <2> QED
      BY <2>1, <2>2, <2>3
  <1>7. ASSUME NEW status, complete_current(status)
        PROVE  QueueOK'
    BY <1>7 DEF complete_current
  <1>8. ASSUME NEW c \in Commands, DirectBegin(c)
        PROVE  QueueOK'
    <2>1. /\ UNCHANGED <<queue, current_command_id>>
          /\ last_command_id' = last_command_id + 1
      BY <1>8 DEF DirectBegin, next_command_id
    <2> QED
      BY <2>1
  <1> QED
    BY <1>1, <1>2, <1>3, <1>4, <1>5, <1>6, <1>7, <1>8, RequestSteps
       DEF SubmitAsync, SubmitWait, engine

LEMMA QueueInvariant == Spec => []Inv4
  <1>1. Init => QueueOK
    BY DEF Init, QueueOK
  <1>2. Inv4 /\ [Next]_vars => QueueOK'
    BY QueueStep
  <1> QED
    BY <1>1, <1>2, ControlInvariant, PTL DEF Spec, Inv4

\* The command of an id that was given out never changes.
LEMMA CommandKept ==
    ASSUME Inv4, [Next]_vars
    PROVE  \A i \in Ids : i <= last_command_id => request'[i].command = request[i].command
  <1> SUFFICES ASSUME NEW i \in Ids, i <= last_command_id
               PROVE  request'[i].command = request[i].command
    OBVIOUS
  <1>0. /\ request \in [Ids -> Request] /\ queue \in Seq(Ids)
        /\ last_command_id \in Nat /\ i \in Nat /\ i # next_command_id
    BY ConfigAssumption
       DEF Inv4, Inv2, Inv1, TypeOK, StoreTypeOK, Ids, next_command_id
  <1>1. \A o \in Outcomes :
            request_complete_locked(request[i], o).command = request[i].command
    BY <1>0, CompleteRequest
  <1>2. drop_reference(request[i]).command = request[i].command
    BY <1>0, DropReference
  <1>3. ASSUME NEW s \in Submitters, NEW c \in Commands, SubmitCoalesced(s, c)
        PROVE  request'[i].command = request[i].command
    BY <1>0, <1>1, <1>3 DEF SubmitCoalesced, Outcomes
  <1>4. ASSUME NEW c \in Commands, NEW n \in Nat, enqueue(c, n)
        PROVE  request'[i].command = request[i].command
    BY <1>0, <1>4 DEF enqueue
  <1>5. ASSUME NEW s \in Submitters, wait_returns(s)
        PROVE  request'[i].command = request[i].command
    BY <1>0, <1>2, <1>5 DEF wait_returns
  <1>6. ASSUME request' = actor_reject_pending_locked
        PROVE  request'[i].command = request[i].command
    BY <1>0, <1>1, <1>6 DEF actor_reject_pending_locked, Outcomes
  <1>7. ASSUME NEW status \in Outcomes, complete_current(status)
        PROVE  request'[i].command = request[i].command
    BY <1>0, <1>1, <1>7 DEF complete_current
  <1>8. ASSUME NEW c \in Commands, DirectBegin(c)
        PROVE  request'[i].command = request[i].command
    BY <1>0, <1>8 DEF DirectBegin
  <1>9. ASSUME UNCHANGED request
        PROVE  request'[i].command = request[i].command
    BY <1>9
  <1> QED
    BY <1>3, <1>4, <1>5, <1>6, <1>7, <1>8, <1>9, RequestSteps
       DEF requests, SubmitAsync, SubmitWait, WorkerPops, Outcomes

\* Ordinary commands stay out of the reserved slots.
LEMMA ReservedStep ==
    ASSUME Inv4, ReservedSlotsKept, [Next]_vars
    PROVE  ReservedSlotsKept'
  <1> DEFINE fits(i, kind) == command_uses_reserved_slot(kind) \/ i <= normal_capacity
  <1>0. /\ queue \in Seq(Ids) /\ last_command_id \in Nat
        /\ Len(queue) \in Nat /\ DOMAIN queue = 1 .. Len(queue)
        /\ \A i \in DOMAIN queue : queue[i] \in Ids /\ queue[i] <= last_command_id
    BY DEF Inv4, Inv2, Inv1, TypeOK, StoreTypeOK, QueueOK
  <1>1. Capacity \in Nat /\ normal_capacity \in Nat
    BY ConfigAssumption DEF normal_capacity
  <1>2. \A i \in DOMAIN queue : fits(i, request'[queue[i]].command.kind)
    BY <1>0, CommandKept DEF ReservedSlotsKept
  <1>3. Len(queue) <= Capacity
    BY DEF ReservedSlotsKept
  <1>4. ASSUME UNCHANGED queue PROVE ReservedSlotsKept'
    BY <1>2, <1>3, <1>4 DEF ReservedSlotsKept, normal_capacity
  <1>5. ASSUME queue' = << >> PROVE ReservedSlotsKept'
    BY <1>1, <1>5 DEF ReservedSlotsKept
  <1>6. ASSUME WorkerPops PROVE ReservedSlotsKept'
    <2>1. queue # << >> /\ queue' = Tail(queue)
      BY <1>6 DEF WorkerPops
    <2>2. /\ Len(queue') <= Len(queue)
          /\ \A i \in DOMAIN queue' :
                 i \in Nat /\ i + 1 \in DOMAIN queue /\ queue'[i] = queue[i + 1]
      BY <1>0, <2>1
    <2>3. \A i \in DOMAIN queue' : fits(i, request'[queue'[i]].command.kind)
      BY <1>1, <1>2, <2>2
    <2>4. Len(queue') <= Capacity
      BY <1>0, <1>1, <1>3, <2>1
    <2> QED
      BY <2>3, <2>4 DEF ReservedSlotsKept, normal_capacity
  <1>7. ASSUME NEW s \in Submitters, NEW c \in Commands, SubmitCoalesced(s, c)
        PROVE  ReservedSlotsKept'
    <2>1. /\ queue # << >> /\ queue' = [queue EXCEPT ![Len(queue)] = next_command_id]
          /\ next_command_id \in Ids
          /\ request[queue[Len(queue)]].command = c
      BY <1>0, <1>7, ConfigAssumption
         DEF SubmitCoalesced, SubmitAllowed, coalesces, command_can_replace,
             next_command_id, Ids
    <2>2. request'[next_command_id].command = c
      BY <1>7, <2>1
         DEF SubmitCoalesced, accepted_request, Inv4, Inv2, Inv1, TypeOK, StoreTypeOK
    <2>3. fits(Len(queue), c.kind)
      BY <1>0, <2>1 DEF ReservedSlotsKept
    <2>4. /\ Len(queue') = Len(queue) /\ DOMAIN queue' = DOMAIN queue
          /\ \A i \in DOMAIN queue : queue'[i] = IF i = Len(queue)
                                               THEN next_command_id ELSE queue[i]
      BY <1>0, <2>1
    <2>5. \A i \in DOMAIN queue' : fits(i, request'[queue'[i]].command.kind)
      BY <1>2, <2>2, <2>3, <2>4
    <2> QED
      BY <1>3, <2>4, <2>5 DEF ReservedSlotsKept, normal_capacity
  <1>8. ASSUME NEW s \in Submitters, NEW c \in Commands, NEW n \in Nat,
               SubmitAllowed(s), enqueue(c, n)
        PROVE  ReservedSlotsKept'
    <2>1. /\ queue' = Append(queue, next_command_id)
          /\ next_command_id \in Ids
          /\ Len(queue) < Capacity
          /\ command_uses_reserved_slot(c.kind) \/ Len(queue) < normal_capacity
      BY <1>0, <1>8, ConfigAssumption
         DEF SubmitAllowed, enqueue, queue_has_room, next_command_id, Ids
    <2>2. request'[next_command_id].command = c
      BY <1>8, <2>1 DEF enqueue, accepted_request, Inv4, Inv2, Inv1, TypeOK, StoreTypeOK
    <2>3. fits(Len(queue) + 1, c.kind)
      BY <1>0, <1>1, <2>1
    <2>4. /\ Len(queue') = Len(queue) + 1
          /\ \A i \in DOMAIN queue' :
                 \/ i = Len(queue) + 1 /\ queue'[i] = next_command_id
                 \/ i \in DOMAIN queue /\ queue'[i] = queue[i]
      BY <1>0, <2>1
    <2>5. \A i \in DOMAIN queue' : fits(i, request'[queue'[i]].command.kind)
      BY <1>2, <2>2, <2>3, <2>4
    <2>6. Len(queue') <= Capacity
      BY <1>0, <1>1, <2>1, <2>4
    <2> QED
      BY <2>5, <2>6 DEF ReservedSlotsKept, normal_capacity
  <1> QED
    BY <1>4, <1>5, <1>6, <1>7, <1>8, RequestSteps
       DEF requests, SubmitAsync, SubmitWait, wait_returns, complete_current, DirectBegin

\* Queue policy: the queue stays within its capacity and ordinary commands
\* never sit in the reserved slots, for every capacity and reserve.
THEOREM ReservedSlots == Spec => []ReservedSlotsKept
  <1>1. Init => ReservedSlotsKept
    BY ConfigAssumption DEF Init, ReservedSlotsKept
  <1>2. Inv4 /\ ReservedSlotsKept /\ [Next]_vars => ReservedSlotsKept'
    BY ReservedStep
  <1> QED
    BY <1>1, <1>2, QueueInvariant, PTL DEF Spec

-----------------------------------------------------------------------------
(* The lifetime of requests. *)

\* The references and the frees that a request must have.
LifetimeOK(i) ==
    /\ request[i].references = (IF ActorHolds(i) THEN 1 ELSE 0)
                              + (IF WaitedFor(i) THEN 1 ELSE 0)
    /\ request[i].freed = (IF \/ request[i].outcome \in {"unused", "DIRECT"}
                              \/ request[i].references > 0 THEN 0 ELSE 1)
    /\ request[i].outcome = "pending" <=> ActorHolds(i)
    /\ i > last_command_id => request[i] = unused_request
    /\ WaitedFor(i) => request[i].outcome \notin {"unused", "DIRECT"}

LEMMA LifetimeParts ==
    OutcomeOK /\ RequestLifetime <=> \A i \in Ids : LifetimeOK(i)
  BY DEF OutcomeOK, RequestLifetime, LifetimeOK

\* What Inv5 says about the ids and the next id, ready for the steps.
LEMMA IdFacts ==
    ASSUME Inv5
    PROVE  /\ last_command_id \in Nat /\ next_command_id = last_command_id + 1
           /\ Ids \subseteq Nat /\ 0 \notin Ids
           /\ request \in [Ids -> Request]
           /\ \A i \in Ids : LifetimeOK(i)
           /\ \A i \in Ids : ActorHolds(i) \/ WaitedFor(i) => i <= last_command_id
           /\ \A i \in Ids : i \in Queued => i # current_command_id
           /\ current_command_id # 0 => current_command_id \in Ids
  <1> USE ConfigAssumption DEF Inv5, Inv4, Inv2, Inv1, TypeOK, StoreTypeOK, Ids
  <1>1. \A i \in Ids : LifetimeOK(i)
    BY LifetimeParts
  <1>2. \A i \in Ids : ActorHolds(i) => i <= last_command_id
    BY DEF ActorHolds, Queued, QueueOK
  <1>3. \A i \in Ids : WaitedFor(i) => i <= last_command_id
    BY DEF WaitedFor, WaitsOK
  <1>4. \A i \in Ids : i \in Queued => i # current_command_id
    BY DEF Queued, QueueOK, EngineTypeOK
  <1>5. current_command_id # 0 => current_command_id \in Ids
    BY DEF EngineTypeOK
  <1> QED
    BY <1>1, <1>2, <1>3, <1>4, <1>5 DEF next_command_id

\* A request that a step leaves alone and whose holders it leaves alone.
LEMMA OtherIds ==
    ASSUME Inv5, UNCHANGED last_command_id,
           NEW i \in Ids, request'[i] = request[i],
           ActorHolds(i)' <=> ActorHolds(i), WaitedFor(i)' <=> WaitedFor(i)
    PROVE  LifetimeOK(i)'
  BY IdFacts DEF LifetimeOK, unused_request

\* The actor gives up a request it held: executed, refused, replaced, rejected.
LEMMA Completed ==
    ASSUME Inv5, NEW i \in Ids, NEW status \in Outcomes \ {"unused", "DIRECT", "pending"},
           request'[i] = request_complete_locked(request[i], status),
           ActorHolds(i), ~ActorHolds(i)', WaitedFor(i)' <=> WaitedFor(i),
           last_command_id' \in Nat, last_command_id' >= last_command_id
    PROVE  LifetimeOK(i)'
  <1>1. /\ LifetimeOK(i) /\ i <= last_command_id' /\ request[i] \in Request
        /\ i \in Nat
    BY IdFacts
  <1>2. /\ request[i].references = IF WaitedFor(i) THEN 2 ELSE 1
        /\ request[i].freed = 0
    BY <1>1 DEF LifetimeOK
  <1>3. /\ request'[i].outcome = status
        /\ request'[i].references = IF WaitedFor(i) THEN 1 ELSE 0
        /\ request'[i].freed = IF WaitedFor(i) THEN 0 ELSE 1
    BY <1>1, <1>2, CompleteRequest
  <1> QED
    BY <1>1, <1>3 DEF LifetimeOK

LEMMA LifetimeStep ==
    ASSUME Inv5, Inv4', [Next]_vars
    PROVE  \A i \in Ids : LifetimeOK(i)'
  <1> SUFFICES ASSUME NEW i \in Ids PROVE LifetimeOK(i)'
    OBVIOUS
  <1>0. /\ queue \in Seq(Ids) /\ Len(queue) \in Nat /\ DOMAIN queue = 1 .. Len(queue)
        /\ \A k \in DOMAIN queue : queue[k] \in Ids /\ queue[k] <= last_command_id
        /\ \A k, l \in DOMAIN queue : k < l => queue[k] < queue[l]
        /\ waits \in [Submitters -> 0 .. MaxCommands]
    BY DEF Inv5, Inv4, Inv2, Inv1, TypeOK, StoreTypeOK, QueueOK, CallersTypeOK
  <1>f. /\ last_command_id \in Nat /\ next_command_id = last_command_id + 1
        /\ Ids \subseteq Nat /\ 0 \notin Ids
        /\ request \in [Ids -> Request]
        /\ \A k \in Ids : LifetimeOK(k)
        /\ \A k \in Ids : ActorHolds(k) \/ WaitedFor(k) => k <= last_command_id
        /\ \A k \in Ids : k \in Queued => k # current_command_id
        /\ current_command_id # 0 => current_command_id \in Ids
    BY IdFacts
  <1>n. ASSUME last_command_id < MaxCommands PROVE next_command_id \in Ids
    BY <1>f, <1>n, ConfigAssumption DEF Ids
  <1>1. CASE UNCHANGED requests
    BY <1>1, OtherIds DEF requests, ActorHolds, Queued, WaitedFor
  <1>2. ASSUME NEW s \in Submitters, NEW c \in Commands, SubmitCoalesced(s, c)
        PROVE  LifetimeOK(i)'
    <2> DEFINE n == next_command_id
               tail == queue[Len(queue)]
    <2>0. queue # << >> /\ last_command_id < MaxCommands
      BY <1>2 DEF SubmitCoalesced, SubmitAllowed, coalesces
    <2>0a. Len(queue) \in DOMAIN queue
      BY <1>0, <2>0
    <2>0b. n \in Ids /\ tail \in Ids /\ tail < n /\ tail \in Queued
      <3>1. tail \in Ids /\ tail <= last_command_id /\ tail \in Queued
        BY <1>0, <2>0a DEF Queued
      <3>2. n \in Ids
        BY <1>n, <2>0
      <3>3. tail < n
        <4> HIDE DEF tail
        <4> QED BY <1>f, <3>1
      <3> QED
        BY <3>1, <3>2, <3>3
    <2>1. /\ queue # << >> /\ n \in Ids /\ tail \in Ids /\ tail < n /\ tail \in Queued
          /\ queue' = [queue EXCEPT ![Len(queue)] = n]
          /\ last_command_id' = n
          /\ request' = [request EXCEPT ![tail] = request_complete_locked(@, "ACCEPTED"),
                                        ![n] = accepted_request(c, 1)]
          /\ UNCHANGED <<current_command_id, waits>>
          /\ last_command_id < MaxCommands
          /\ request[tail].references = 1
      BY <1>2, <2>0, <2>0b DEF SubmitCoalesced, coalesces, engine, callers
    <2>2. \A k \in DOMAIN queue' : queue'[k] = IF k = Len(queue) THEN n ELSE queue[k]
      BY <1>0, <2>1
    <2>2a. DOMAIN queue' = DOMAIN queue /\ Len(queue) \in DOMAIN queue
      BY <1>0, <2>1
    <2>2b. \A k \in DOMAIN queue : k # Len(queue) => queue[k] # tail
      <3>1. ASSUME NEW k \in DOMAIN queue, k # Len(queue) PROVE queue[k] < tail
        <4>1. k < Len(queue)
          BY <1>0, <3>1
        <4> QED
          BY <1>0, <2>2a, <4>1
      <3>2. \A k \in DOMAIN queue : queue[k] \in Nat
        BY <1>0, <1>f
      <3> QED
        BY <2>2a, <3>1, <3>2
    <2>3. /\ n \in Queued' /\ tail \notin Queued'
          /\ \A k \in Ids : k # n /\ k # tail => (k \in Queued' <=> k \in Queued)
      <3>1. n \in Queued'
        BY <2>2, <2>2a DEF Queued
      <3>2. tail \notin Queued'
        BY <1>f, <2>1, <2>2, <2>2a, <2>2b DEF Queued
      <3>3. ASSUME NEW k \in Ids, k # n, k # tail
            PROVE  k \in Queued' <=> k \in Queued
        BY <3>3, <2>2, <2>2a DEF Queued
      <3> QED
        BY <3>1, <3>2, <3>3
    <2>4. WaitedFor(i)' <=> WaitedFor(i)
      BY <2>1 DEF WaitedFor
    <2> HIDE DEF n, tail
    <2>5. CASE i = tail
      <3>1. request'[i] = request_complete_locked(request[i], "ACCEPTED")
        BY <1>f, <2>1, <2>5
      <3>2. ActorHolds(i) /\ ~ActorHolds(i)'
        BY <1>f, <2>1, <2>3, <2>5 DEF ActorHolds
      <3>3. last_command_id' \in Nat /\ last_command_id' >= last_command_id
        BY <1>f, <2>1 DEF n
      <3>4. "ACCEPTED" \in Outcomes \ {"unused", "DIRECT", "pending"}
        BY DEF Outcomes
      <3> QED
        BY <2>4, <3>1, <3>2, <3>3, <3>4, Completed
    <2>6. CASE i = n
      <3>1. ~WaitedFor(i)
        BY <1>f, <2>6 DEF n
      <3>2. request'[i] = accepted_request(c, 1) /\ ActorHolds(i)'
        BY <1>f, <2>1, <2>3, <2>6 DEF ActorHolds
      <3> QED
        BY <1>f, <2>1, <2>4, <2>6, <3>1, <3>2 DEF LifetimeOK, accepted_request
    <2>7. CASE i # n /\ i # tail
      <3>1. request'[i] = request[i] /\ (ActorHolds(i)' <=> ActorHolds(i))
        BY <1>f, <2>1, <2>3, <2>7 DEF ActorHolds
      <3>2. i > last_command_id' => i > last_command_id
        BY <1>f, <2>1 DEF n
      <3> QED
        BY <1>f, <2>4, <3>1, <3>2 DEF LifetimeOK, unused_request
    <2> QED
      BY <2>5, <2>6, <2>7
  <1>3. ASSUME NEW s \in Submitters, NEW c \in Commands, NEW refs \in {1, 2},
               SubmitAllowed(s), enqueue(c, refs), UNCHANGED current_command_id,
               refs = 1 => UNCHANGED waits,
               refs = 2 => waits' = [waits EXCEPT ![s] = next_command_id]
        PROVE  LifetimeOK(i)'
    <2> DEFINE n == next_command_id
    <2>1. /\ n \in Ids /\ last_command_id' = n /\ queue' = Append(queue, n)
          /\ request' = [request EXCEPT ![n] = accepted_request(c, refs)]
          /\ waits[s] = 0
      BY <1>3, <1>n DEF SubmitAllowed, CanSubmit, enqueue
    <2>2. /\ DOMAIN queue' = DOMAIN queue \cup {Len(queue) + 1}
          /\ queue'[Len(queue) + 1] = n
          /\ \A k \in DOMAIN queue : queue'[k] = queue[k]
      BY <1>0, <2>1
    <2>3. Queued' = Queued \cup {n}
      BY <2>2 DEF Queued
    <2>4. WaitedFor(i)' <=> WaitedFor(i) \/ (i = n /\ refs = 2)
      BY <1>0, <1>3, <1>f, <2>1 DEF WaitedFor
    <2> HIDE DEF n
    <2>5. CASE i = n
      <3>1. ~WaitedFor(i)
        BY <1>f, <2>5 DEF n
      <3>2. request'[i] = accepted_request(c, refs) /\ ActorHolds(i)'
        BY <1>f, <2>1, <2>3, <2>5 DEF ActorHolds
      <3> QED
        BY <1>f, <2>1, <2>4, <2>5, <3>1, <3>2 DEF LifetimeOK, accepted_request
    <2>6. CASE i # n
      <3>1. request'[i] = request[i] /\ (ActorHolds(i)' <=> ActorHolds(i))
        BY <1>3, <1>f, <2>1, <2>3, <2>6 DEF ActorHolds
      <3>2. i > last_command_id' => i > last_command_id
        BY <1>f, <2>1 DEF n
      <3> QED
        BY <1>f, <2>4, <2>6, <3>1, <3>2 DEF LifetimeOK, unused_request
    <2> QED
      BY <2>5, <2>6
  <1>4. ASSUME NEW s \in Submitters, waits[s] # 0, wait_returns(s)
        PROVE  LifetimeOK(i)'
    <2>1. /\ waits[s] \in Ids /\ waits' = [waits EXCEPT ![s] = 0]
          /\ request' = [request EXCEPT ![waits[s]] = drop_reference(@)]
          /\ UNCHANGED <<queue, last_command_id, current_command_id>>
      BY <1>0, <1>4, ConfigAssumption DEF wait_returns, engine, Ids
    <2>2. ActorHolds(i)' <=> ActorHolds(i)
      BY <2>1 DEF ActorHolds, Queued
    <2>3. WaitedFor(i)' <=> WaitedFor(i) /\ i # waits[s]
      BY <1>0, <1>f, <2>1 DEF WaitedFor, Inv5, WaitsOK
    <2>4. CASE i = waits[s]
      <3>1. request'[i] = drop_reference(request[i]) /\ request[i] \in Request
        BY <1>f, <2>1, <2>4
      <3>2. WaitedFor(i) /\ LifetimeOK(i) /\ i <= last_command_id
        BY <1>f, <2>4 DEF WaitedFor
      <3>3. /\ request[i].references = IF ActorHolds(i) THEN 2 ELSE 1
            /\ request[i].freed = 0
        BY <3>2 DEF LifetimeOK
      <3>4. /\ request'[i].outcome = request[i].outcome
            /\ request'[i].references = IF ActorHolds(i) THEN 1 ELSE 0
            /\ request'[i].freed = IF ActorHolds(i) THEN 0 ELSE 1
        BY <3>1, <3>3, DropReference
      <3>5. request[i].outcome \notin {"unused", "DIRECT"}
        BY <3>2 DEF LifetimeOK
      <3> QED
        BY <1>f, <2>1, <2>2, <2>3, <2>4, <3>2, <3>4, <3>5 DEF LifetimeOK
    <2>5. CASE i # waits[s]
      BY <1>f, <2>1, <2>2, <2>3, <2>5, OtherIds
    <2> QED
      BY <2>4, <2>5
  <1>5. CASE /\ queue' = << >> /\ request' = actor_reject_pending_locked
             /\ worker \in {"init", "poll"}
             /\ UNCHANGED <<last_command_id, current_command_id, waits>>
    <2>1. /\ ~ActorHolds(i)' /\ (WaitedFor(i)' <=> WaitedFor(i))
          /\ ActorHolds(i) <=> i \in Queued
      BY <1>5, <1>f DEF ActorHolds, Queued, WaitedFor, Inv5, Inv4, Inv2, CurrentOK
    <2>2. CASE i \in Queued
      <3>1. request'[i] = request_complete_locked(request[i], "SHUTTING_DOWN")
        BY <1>5, <2>2 DEF actor_reject_pending_locked
      <3>2. "SHUTTING_DOWN" \in Outcomes \ {"unused", "DIRECT", "pending"}
        BY DEF Outcomes
      <3> QED
        BY <1>5, <1>f, <2>1, <2>2, <3>1, <3>2, Completed
    <2>3. CASE i \notin Queued
      <3>1. request'[i] = request[i]
        BY <1>5, <2>3 DEF actor_reject_pending_locked
      <3> QED
        BY <1>5, <2>1, <2>3, <3>1, OtherIds
    <2> QED
      BY <2>2, <2>3
  <1>6. CASE WorkerPops
    <2>1. /\ queue # << >> /\ queue' = Tail(queue) /\ current_command_id' = queue[1]
          /\ current_command_id = 0
          /\ UNCHANGED <<request, last_command_id, waits>>
      BY <1>6 DEF WorkerPops, callers, Inv5, Inv4, Inv2, CurrentOK
    <2>2. i \in Queued <=> i \in Queued' \/ i = queue[1]
      <3>1. \A k \in DOMAIN queue' : k + 1 \in DOMAIN queue /\ queue'[k] = queue[k + 1]
        BY <1>0, <2>1
      <3>2. 1 \in DOMAIN queue
        BY <1>0, <2>1
      <3>3. \A k \in DOMAIN queue : k = 1 \/ (k - 1 \in DOMAIN queue' /\ queue'[k - 1] = queue[k])
        BY <1>0, <2>1
      <3> QED
        BY <3>1, <3>2, <3>3 DEF Queued
    <2>3. ActorHolds(i)' <=> ActorHolds(i)
      BY <1>f, <2>1, <2>2 DEF ActorHolds
    <2> QED
      BY <2>1, <2>3, OtherIds DEF WaitedFor
  <1>7. ASSUME NEW status \in {"STALE", "EXECUTED", "EXECUTION_FAILED"},
               worker \in {"validate", "execute"}, complete_current(status)
        PROVE  LifetimeOK(i)'
    <2>1. /\ current_command_id \in Ids /\ current_command_id' = 0
          /\ request' = [request EXCEPT ![current_command_id] =
                                           request_complete_locked(@, status)]
          /\ UNCHANGED <<queue, last_command_id, waits>>
      BY <1>7, <1>f DEF complete_current, callers, Inv5, Inv4, Inv2, CurrentOK
    <2>2. ActorHolds(i)' <=> ActorHolds(i) /\ i # current_command_id
      BY <1>f, <2>1 DEF ActorHolds, Queued
    <2>3. WaitedFor(i)' <=> WaitedFor(i)
      BY <2>1 DEF WaitedFor
    <2>4. CASE i = current_command_id
      <3>1. request'[i] = request_complete_locked(request[i], status)
        BY <1>f, <2>1, <2>4
      <3>2. status \in Outcomes \ {"unused", "DIRECT", "pending"}
        BY <1>7 DEF Outcomes
      <3>3. ActorHolds(i)
        BY <2>4 DEF ActorHolds
      <3> QED
        BY <1>f, <2>1, <2>2, <2>3, <2>4, <3>1, <3>2, <3>3, Completed
    <2>5. CASE i # current_command_id
      BY <1>f, <2>1, <2>2, <2>3, <2>5, OtherIds
    <2> QED
      BY <2>4, <2>5
  <1>8. ASSUME NEW c \in Commands, DirectBegin(c)
        PROVE  LifetimeOK(i)'
    <2> DEFINE n == next_command_id
    <2>1. /\ n \in Ids /\ last_command_id' = n
          /\ UNCHANGED <<queue, current_command_id, waits>>
          /\ request' = [request EXCEPT ![n].command = c, ![n].outcome = "DIRECT"]
      BY <1>8, <1>n DEF DirectBegin, callers
    <2>2. /\ ActorHolds(i)' <=> ActorHolds(i)
          /\ WaitedFor(i)' <=> WaitedFor(i)
      BY <2>1 DEF ActorHolds, Queued, WaitedFor
    <2>3. i > last_command_id' => i > last_command_id
      BY <1>f, <2>1
    <2> HIDE DEF n
    <2>4. CASE i = n
      <3>1. ~ActorHolds(i) /\ ~WaitedFor(i) /\ request[i] = unused_request
        BY <1>f, <2>4 DEF n, LifetimeOK
      <3>2. /\ request'[i].references = 0 /\ request'[i].freed = 0
            /\ request'[i].outcome = "DIRECT"
        BY <1>f, <2>1, <2>4, <3>1 DEF unused_request, Request
      <3> QED
        BY <1>f, <2>1, <2>2, <2>4, <3>1, <3>2 DEF LifetimeOK
    <2>5. CASE i # n
      <3>1. request'[i] = request[i]
        BY <1>f, <2>1, <2>5
      <3> QED
        BY <1>f, <2>2, <2>3, <3>1 DEF LifetimeOK, unused_request
    <2> QED
      BY <2>4, <2>5
  <1>9. ASSUME NEW s \in Submitters, NEW c \in Commands, SubmitAsync(s, c)
        PROVE  LifetimeOK(i)'
    BY <1>3, <1>9 DEF SubmitAsync, engine, callers
  <1>10. ASSUME NEW s \in Submitters, NEW c \in Commands, NEW d \in BOOLEAN,
                SubmitWait(s, c, d)
         PROVE  LifetimeOK(i)'
    <2>1. /\ SubmitAllowed(s) /\ enqueue(c, 2) /\ UNCHANGED current_command_id
          /\ waits' = [waits EXCEPT ![s] = next_command_id]
      BY <1>10 DEF SubmitWait, engine
    <2>2. /\ 2 \in {1, 2} /\ (2 = 1 => UNCHANGED waits)
          /\ 2 = 2 => waits' = [waits EXCEPT ![s] = next_command_id]
      BY <2>1
    <2> QED
      BY <1>3, <2>1, <2>2, Zenon
  <1>11. CASE \E s \in Submitters, c \in Commands : \/ SubmitCoalesced(s, c)
                                                    \/ SubmitAsync(s, c)
    BY <1>2, <1>9, <1>11
  <1>12. CASE \E s \in Submitters, c \in Commands, d \in BOOLEAN : SubmitWait(s, c, d)
    BY <1>10, <1>12
  <1>13. CASE \E s \in Submitters : waits[s] # 0 /\ wait_returns(s)
    BY <1>4, <1>13
  <1>14. CASE \E status \in {"STALE", "EXECUTED", "EXECUTION_FAILED"} :
                 worker \in {"validate", "execute"} /\ complete_current(status)
    BY <1>7, <1>14
  <1>15. CASE \E c \in Commands : DirectBegin(c)
    BY <1>8, <1>15
  <1> QED
    BY <1>1, <1>5, <1>6, <1>11, <1>12, <1>13, <1>14, <1>15, RequestSteps

\* Every wait is for one id, given out, and no id is waited for twice.
LEMMA WaitsStep ==
    ASSUME Inv5, [Next]_vars
    PROVE  WaitsOK'
  <1>0. /\ last_command_id \in Nat /\ next_command_id = last_command_id + 1
        /\ waits \in [Submitters -> Nat]
        /\ \A s \in Submitters : waits[s] <= last_command_id
        /\ \A s, t \in Submitters : waits[s] = waits[t] /\ waits[s] # 0 => s = t
    BY ConfigAssumption DEF Inv5, Inv4, Inv2, Inv1, TypeOK, StoreTypeOK, CallersTypeOK,
                            WaitsOK, next_command_id
  <1>1. ASSUME UNCHANGED waits,
               last_command_id' \in {last_command_id, next_command_id}
        PROVE  WaitsOK'
    BY <1>0, <1>1 DEF WaitsOK
  <1>2. ASSUME NEW s \in Submitters, NEW c \in Commands, NEW d \in BOOLEAN,
               SubmitWait(s, c, d)
        PROVE  WaitsOK'
    <2>1. /\ waits' = [waits EXCEPT ![s] = next_command_id]
          /\ last_command_id' = next_command_id
      BY <1>2 DEF SubmitWait, enqueue
    <2>2. \A t \in Submitters : waits'[t] = IF t = s THEN next_command_id ELSE waits[t]
      BY <1>0, <2>1
    <2> QED
      BY <1>0, <2>1, <2>2 DEF WaitsOK
  <1>3. ASSUME NEW s \in Submitters, wait_returns(s)
        PROVE  WaitsOK'
    <2>1. waits' = [waits EXCEPT ![s] = 0] /\ UNCHANGED last_command_id
      BY <1>3 DEF wait_returns
    <2>2. \A t \in Submitters : waits'[t] = IF t = s THEN 0 ELSE waits[t]
      BY <1>0, <2>1
    <2> QED
      BY <1>0, <2>1, <2>2 DEF WaitsOK
  <1>4. ASSUME NEW s \in Submitters, NEW c \in Commands,
               SubmitCoalesced(s, c) \/ SubmitAsync(s, c)
        PROVE  WaitsOK'
    BY <1>1, <1>4 DEF SubmitCoalesced, SubmitAsync, enqueue, callers
  <1>5. ASSUME NEW c \in Commands, DirectBegin(c) PROVE WaitsOK'
    BY <1>1, <1>5 DEF DirectBegin, callers
  <1>6. ASSUME WorkerPops PROVE WaitsOK'
    BY <1>1, <1>6 DEF WorkerPops, callers
  <1>7. ASSUME NEW status, complete_current(status) PROVE WaitsOK'
    BY <1>1, <1>7 DEF complete_current, callers
  <1>8. ASSUME UNCHANGED <<last_command_id, waits>> PROVE WaitsOK'
    BY <1>1, <1>8
  <1> QED
    BY <1>2, <1>3, <1>4, <1>5, <1>6, <1>7, <1>8, RequestSteps DEF requests

LEMMA LifetimeInvariant == Spec => []Inv5
  <1>1. Init => OutcomeOK /\ WaitsOK /\ RequestLifetime
    <2> SUFFICES ASSUME Init PROVE OutcomeOK /\ WaitsOK /\ RequestLifetime
      OBVIOUS
    <2>1. /\ Ids \subseteq Nat /\ 0 \notin Ids
          /\ \A s \in Submitters : waits[s] = 0
          /\ queue = << >> /\ current_command_id = 0 /\ last_command_id = 0
          /\ \A i \in Ids : request[i] = unused_request
      BY ConfigAssumption DEF Init, Ids
    <2>2. \A i \in Ids : ~ActorHolds(i) /\ ~WaitedFor(i)
      BY <2>1 DEF ActorHolds, WaitedFor, Queued
    <2>3. WaitsOK
      BY <2>1 DEF WaitsOK
    <2>4. \A i \in Ids : LifetimeOK(i)
      BY <2>1, <2>2 DEF LifetimeOK, unused_request
    <2> QED
      BY <2>3, <2>4, LifetimeParts
  <1>2. Inv5 /\ Inv4' /\ [Next]_vars => (OutcomeOK /\ WaitsOK /\ RequestLifetime)'
    <2> SUFFICES ASSUME Inv5, Inv4', [Next]_vars
                 PROVE  OutcomeOK' /\ WaitsOK' /\ RequestLifetime'
      OBVIOUS
    <2>1. \A i \in Ids : LifetimeOK(i)'
      BY LifetimeStep
    <2>2. OutcomeOK' /\ RequestLifetime'
      BY <2>1 DEF LifetimeOK, OutcomeOK, RequestLifetime
    <2> QED
      BY <2>2, WaitsStep
  <1> QED
    BY <1>1, <1>2, QueueInvariant, PTL DEF Spec, Inv5

\* Whatever the order of completion, timeout, coalescing and shutdown, a
\* request has one reference per party that can still touch it, is freed when
\* the last one lets go, and is freed once.
THEOREM LifetimeCorrect == Spec => []RequestLifetime
  BY LifetimeInvariant, PTL DEF Inv5

\* A worker that will execute nothing more leaves no accepted request behind.
THEOREM NothingStranded == Spec => []NoneStranded
  <1>1. Inv3 /\ Inv5 => NoneStranded
    <2> SUFFICES ASSUME Inv3, Inv5, worker \in {"none", "finish", "exited"}
                 PROVE  queue = << >> /\ \A i \in Ids : request[i].outcome # "pending"
      BY DEF NoneStranded
    <2>1. queue = << >> /\ current_command_id = 0
      BY DEF Inv3, EmptyOK, Inv2, CurrentOK
    <2>2. \A i \in Ids : ~ActorHolds(i)
      BY <2>1, IdFacts DEF ActorHolds, Queued
    <2> QED
      BY <2>1, <2>2 DEF Inv5, OutcomeOK
  <1> QED
    BY <1>1, EmptyInvariant, LifetimeInvariant, PTL

-----------------------------------------------------------------------------
(* Coalescing. *)

\* Behind the newest queued request only direct commands were accepted.
GapOK ==
    queue # << >> =>
        \A k \in Ids : queue[Len(queue)] < k /\ k <= last_command_id =>
            request[k].outcome = "DIRECT"

Inv6 == Inv5 /\ GapOK

\* What can happen to the outcome of an id that was given out.
LEMMA OutcomeKept ==
    ASSUME Inv5, [Next]_vars, NEW i \in Ids, i <= last_command_id
    PROVE  /\ request'[i].outcome = "DIRECT" <=> request[i].outcome = "DIRECT"
           /\ request'[i].outcome = "ACCEPTED" =>
                 \/ request[i].outcome = "ACCEPTED"
                 \/ /\ queue # << >> /\ i = queue[Len(queue)]
                    /\ \E s \in Submitters, c \in Commands : SubmitCoalesced(s, c)
  <1> DEFINE kept == request'[i].outcome = request[i].outcome
             ended(o) == request[i].outcome # "DIRECT" /\ request'[i].outcome = o
             goal == \/ kept
                     \/ \E o \in Outcomes \ {"DIRECT", "ACCEPTED"} : ended(o)
                     \/ /\ ended("ACCEPTED")
                        /\ queue # << >> /\ i = queue[Len(queue)]
                        /\ \E s \in Submitters, c \in Commands : SubmitCoalesced(s, c)
  <1>0. /\ request \in [Ids -> Request] /\ queue \in Seq(Ids)
        /\ last_command_id \in Nat /\ i # next_command_id
    BY IdFacts DEF Inv5, Inv4, Inv2, Inv1, TypeOK, StoreTypeOK
  <1>1. \A o \in Outcomes : request_complete_locked(request[i], o).outcome = o
    BY <1>0, CompleteRequest
  <1>2. drop_reference(request[i]).outcome = request[i].outcome
    BY <1>0, DropReference
  <1>h. ActorHolds(i) => request[i].outcome # "DIRECT"
    BY DEF Inv5, OutcomeOK
  <1>3. ASSUME NEW s \in Submitters, NEW c \in Commands, SubmitCoalesced(s, c)
        PROVE  goal
    <2>1. queue # << >>
      BY <1>3 DEF SubmitCoalesced, coalesces
    <2>2. Len(queue) \in DOMAIN queue
      BY <1>0, <2>1
    <2>3. CASE i = queue[Len(queue)]
      <3>1. ended("ACCEPTED")
        BY <1>0, <1>1, <1>h, <1>3, <2>2, <2>3
           DEF SubmitCoalesced, Outcomes, ActorHolds, Queued
      <3> QED
        BY <1>3, <2>1, <2>3, <3>1
    <2>4. CASE i # queue[Len(queue)]
      BY <1>0, <1>3, <2>4 DEF SubmitCoalesced
    <2> QED
      BY <2>3, <2>4
  <1>4. ASSUME NEW c \in Commands, NEW n \in Nat, enqueue(c, n)
        PROVE  kept
    BY <1>0, <1>4 DEF enqueue
  <1>5. ASSUME NEW s \in Submitters, wait_returns(s)
        PROVE  kept
    BY <1>0, <1>2, <1>5 DEF wait_returns
  <1>6. ASSUME request' = actor_reject_pending_locked
        PROVE  kept \/ ended("SHUTTING_DOWN")
    BY <1>0, <1>1, <1>6, <1>h DEF actor_reject_pending_locked, Outcomes, ActorHolds
  <1>7. ASSUME NEW status \in {"STALE", "EXECUTED", "EXECUTION_FAILED"},
               complete_current(status)
        PROVE  kept \/ ended(status)
    BY <1>0, <1>1, <1>7, <1>h DEF complete_current, Outcomes, ActorHolds
  <1>8. ASSUME NEW c \in Commands, DirectBegin(c)
        PROVE  kept
    BY <1>0, <1>8 DEF DirectBegin
  <1>9. ASSUME UNCHANGED request PROVE kept
    BY <1>9
  <1>10. goal
    BY <1>3, <1>4, <1>5, <1>6, <1>7, <1>8, <1>9, RequestSteps
       DEF requests, SubmitAsync, SubmitWait, WorkerPops, Outcomes
  <1> QED
    BY <1>10

LEMMA GapStep ==
    ASSUME Inv6, Inv5', [Next]_vars
    PROVE  GapOK'
  <1> SUFFICES ASSUME queue' # << >>, NEW k \in Ids,
                      queue'[Len(queue')] < k, k <= last_command_id'
               PROVE  request'[k].outcome = "DIRECT"
    BY DEF GapOK
  <1>0. /\ queue \in Seq(Ids) /\ Len(queue) \in Nat /\ k \in Nat
        /\ last_command_id \in Nat /\ next_command_id = last_command_id + 1
        /\ request \in [Ids -> Request]
    BY IdFacts DEF Inv6, Inv5, Inv4, Inv2, Inv1, TypeOK, StoreTypeOK
  <1>1. ASSUME queue # << >>, queue'[Len(queue')] = queue[Len(queue)],
               UNCHANGED last_command_id
        PROVE  request'[k].outcome = "DIRECT"
    BY <1>1, OutcomeKept DEF Inv6, GapOK
  <1>2. ASSUME queue'[Len(queue')] = next_command_id, last_command_id' = next_command_id
        PROVE  FALSE
    BY <1>0, <1>2
  <1>3. ASSUME NEW s \in Submitters, NEW c \in Commands, SubmitCoalesced(s, c)
        PROVE  FALSE
    <2>1. /\ queue # << >> /\ queue' = [queue EXCEPT ![Len(queue)] = next_command_id]
          /\ last_command_id' = next_command_id
      BY <1>3 DEF SubmitCoalesced, coalesces
    <2>2. queue'[Len(queue')] = next_command_id
      BY <1>0, <2>1
    <2> QED
      BY <1>2, <2>1, <2>2
  <1>4. ASSUME NEW c \in Commands, NEW n \in Nat, enqueue(c, n)
        PROVE  FALSE
    <2>1. queue' = Append(queue, next_command_id) /\ last_command_id' = next_command_id
      BY <1>4 DEF enqueue
    <2>2. queue'[Len(queue')] = next_command_id
      BY <1>0, <2>1
    <2> QED
      BY <1>2, <2>1, <2>2
  <1>5. ASSUME WorkerPops PROVE request'[k].outcome = "DIRECT"
    <2>1. queue # << >> /\ queue' = Tail(queue) /\ UNCHANGED last_command_id
      BY <1>5 DEF WorkerPops
    <2>2. queue'[Len(queue')] = queue[Len(queue)]
      BY <1>0, <2>1
    <2> QED
      BY <1>1, <2>1, <2>2
  <1>6. ASSUME NEW c \in Commands, DirectBegin(c) PROVE request'[k].outcome = "DIRECT"
    <2>1. /\ UNCHANGED queue /\ last_command_id' = next_command_id
          /\ request' = [request EXCEPT ![next_command_id].command = c,
                                        ![next_command_id].outcome = "DIRECT"]
      BY <1>6 DEF DirectBegin
    <2>2. CASE k = next_command_id
      BY <1>0, <2>1, <2>2 DEF Request
    <2>3. CASE k # next_command_id
      <3>1. k <= last_command_id
        BY <1>0, <2>1, <2>3
      <3>2. request'[k] = request[k]
        BY <1>0, <2>1, <2>3
      <3> QED
        BY <2>1, <3>1, <3>2 DEF Inv6, GapOK
    <2> QED
      BY <2>2, <2>3
  <1>7. ASSUME UNCHANGED <<queue, last_command_id>> PROVE request'[k].outcome = "DIRECT"
    BY <1>1, <1>7
  <1> QED
    BY <1>3, <1>4, <1>5, <1>6, <1>7, RequestSteps
       DEF requests, SubmitAsync, SubmitWait, wait_returns, complete_current

LEMMA CoalesceStep ==
    ASSUME Inv6, Inv5', CoalescingKeepsOrder, [Next]_vars
    PROVE  CoalescingKeepsOrder'
  <1> SUFFICES ASSUME NEW i \in Ids, request'[i].outcome = "ACCEPTED"
               PROVE  \E j \in i + 1 .. last_command_id' :
                          /\ request'[j].command = request'[i].command
                          /\ request'[j].outcome # "DIRECT"
                          /\ \A k \in i + 1 .. j - 1 : request'[k].outcome = "DIRECT"
    BY DEF CoalescingKeepsOrder
  <1>0. /\ last_command_id \in Nat /\ next_command_id = last_command_id + 1
        /\ i \in Nat /\ 0 < i /\ last_command_id <= MaxCommands /\ MaxCommands \in Nat
        /\ queue \in Seq(Ids) /\ request \in [Ids -> Request]
        /\ last_command_id' \in Nat /\ last_command_id' <= MaxCommands
    BY ConfigAssumption, IdFacts
       DEF Inv6, Inv5, Inv4, Inv2, Inv1, TypeOK, StoreTypeOK, Ids
  <1>1. last_command_id <= last_command_id'
    <2>1. UNCHANGED last_command_id \/ last_command_id' = next_command_id
      <3>1. \A s, c : SubmitCoalesced(s, c) \/ SubmitAsync(s, c) =>
                         last_command_id' = next_command_id
        BY DEF SubmitCoalesced, SubmitAsync, enqueue
      <3>2. \A s, c, d : SubmitWait(s, c, d) => last_command_id' = next_command_id
        BY DEF SubmitWait, enqueue
      <3>3. \A c : DirectBegin(c) => last_command_id' = next_command_id
        BY DEF DirectBegin
      <3>4. \A s : wait_returns(s) \/ complete_current(s) \/ WorkerPops =>
                      UNCHANGED last_command_id
        BY DEF wait_returns, complete_current, WorkerPops
      <3> QED
        BY <3>1, <3>2, <3>3, <3>4, RequestSteps DEF requests
    <2> QED
      BY <1>0, <2>1
  <1>c. \A j \in Ids : j <= last_command_id => request'[j].command = request[j].command
    BY CommandKept DEF Inv6, Inv5
  <1>2. CASE i <= last_command_id /\ request[i].outcome = "ACCEPTED"
    <2>1. PICK j \in i + 1 .. last_command_id :
                   /\ request[j].command = request[i].command
                   /\ request[j].outcome # "DIRECT"
                   /\ \A k \in i + 1 .. j - 1 : request[k].outcome = "DIRECT"
      BY <1>2 DEF CoalescingKeepsOrder
    <2>2. j \in Ids /\ j <= last_command_id /\ j \in i + 1 .. last_command_id'
      BY <1>0, <1>1 DEF Ids
    <2>3. request'[j].command = request'[i].command
      BY <1>2, <1>c, <2>1, <2>2
    <2>4. request'[j].outcome # "DIRECT"
      BY <2>1, <2>2, OutcomeKept DEF Inv6
    <2>5. ASSUME NEW k \in i + 1 .. j - 1 PROVE request'[k].outcome = "DIRECT"
      <3>1. k \in Ids /\ k <= last_command_id
        BY <1>0, <2>2 DEF Ids
      <3> QED
        BY <2>1, <3>1, OutcomeKept DEF Inv6
    <2> QED
      BY <2>2, <2>3, <2>4, <2>5
  <1>3. ASSUME i <= last_command_id, queue # << >>, i = queue[Len(queue)],
               NEW s \in Submitters, NEW c \in Commands, SubmitCoalesced(s, c)
        PROVE  \E j \in i + 1 .. last_command_id' :
                          /\ request'[j].command = request'[i].command
                          /\ request'[j].outcome # "DIRECT"
                          /\ \A k \in i + 1 .. j - 1 : request'[k].outcome = "DIRECT"
    <2> DEFINE n == next_command_id
    <2>1. /\ n \in Ids /\ last_command_id' = n /\ i # n
          /\ request[i].command = c
          /\ request' = [request EXCEPT ![i] = request_complete_locked(@, "ACCEPTED"),
                                        ![n] = accepted_request(c, 1)]
      BY <1>0, <1>3 DEF SubmitCoalesced, SubmitAllowed, coalesces, command_can_replace, Ids
    <2>2. request'[n].command = c /\ request'[n].outcome = "pending"
      BY <1>0, <2>1 DEF accepted_request
    <2>3. request'[i].command = c
      BY <1>3, <1>c, <2>1
    <2>4. ASSUME NEW k \in i + 1 .. n - 1 PROVE request'[k].outcome = "DIRECT"
      <3>1. k \in Ids /\ k <= last_command_id /\ i < k
        BY <1>0 DEF Ids
      <3>2. request[k].outcome = "DIRECT"
        BY <1>3, <3>1 DEF Inv6, GapOK
      <3> QED
        BY <3>1, <3>2, OutcomeKept DEF Inv6
    <2>5. n \in i + 1 .. last_command_id'
      BY <1>0, <1>3, <2>1
    <2> QED
      BY <2>2, <2>3, <2>4, <2>5
  <1>4. CASE i > last_command_id
    <2>1. request[i].outcome = "unused"
      BY <1>4 DEF Inv6, Inv5, OutcomeOK, unused_request
    <2>2. ~ActorHolds(i) /\ ~WaitedFor(i)
      BY <1>0, <1>4, IdFacts DEF Inv6
    <2>3. CASE i > last_command_id'
      BY <2>3 DEF Inv5, OutcomeOK, unused_request
    <2>4. CASE i <= last_command_id'
      <3>1. ASSUME NEW c \in Commands, NEW m \in Nat, enqueue(c, m) PROVE FALSE
        <4>1. i = next_command_id
          BY <1>0, <1>4, <2>4, <3>1 DEF enqueue
        <4> QED
          BY <1>0, <3>1, <4>1 DEF enqueue, accepted_request
      <3>2. ASSUME NEW s \in Submitters, NEW c \in Commands, SubmitCoalesced(s, c)
            PROVE FALSE
        <4>1. i = next_command_id
          BY <1>0, <1>4, <2>4, <3>2 DEF SubmitCoalesced
        <4> QED
          BY <1>0, <3>2, <4>1 DEF SubmitCoalesced, accepted_request
      <3>3. ASSUME NEW c \in Commands, DirectBegin(c) PROVE FALSE
        <4>1. i = next_command_id
          BY <1>0, <1>4, <2>4, <3>3 DEF DirectBegin
        <4> QED
          BY <1>0, <3>3, <4>1 DEF DirectBegin, Request
      <3>4. ASSUME UNCHANGED last_command_id PROVE FALSE
        BY <1>0, <1>4, <2>4, <3>4
      <3> QED
        BY <3>1, <3>2, <3>3, <3>4, RequestSteps
           DEF requests, SubmitAsync, SubmitWait, wait_returns, WorkerPops, complete_current
    <2> QED
      BY <1>0, <2>3, <2>4
  <1>5. i <= last_command_id => \/ request[i].outcome = "ACCEPTED"
                               \/ /\ queue # << >> /\ i = queue[Len(queue)]
                                  /\ \E s \in Submitters, c \in Commands :
                                         SubmitCoalesced(s, c)
    BY OutcomeKept DEF Inv6
  <1>6. i <= last_command_id \/ i > last_command_id
    BY <1>0
  <1> QED
    BY <1>2, <1>3, <1>4, <1>5, <1>6

\* A coalesced command is replaced by the same command of the same session,
\* and nothing that was queued in between is jumped over.
THEOREM CoalescingOrdered == Spec => []CoalescingKeepsOrder
  <1>1. Init => GapOK /\ CoalescingKeepsOrder
    BY DEF Init, GapOK, CoalescingKeepsOrder, unused_request
  <1>2. Inv6 /\ Inv5' /\ [Next]_vars => GapOK'
    BY GapStep
  <1>3. Inv6 /\ Inv5' /\ CoalescingKeepsOrder /\ [Next]_vars => CoalescingKeepsOrder'
    BY CoalesceStep
  <1> QED
    BY <1>1, <1>2, <1>3, LifetimeInvariant, PTL DEF Spec, Inv6
=============================================================================
