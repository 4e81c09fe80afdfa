----------------------- MODULE MediaCoordinator_proofs -----------------------
(***************************************************************************)
(* Proofs about MediaCoordinator for any set of threads, any claims, any   *)
(* width of the generation and with or without exclusive resources.        *)
(***************************************************************************)
EXTENDS MediaCoordinator, TLAPS

-----------------------------------------------------------------------------
(* The parts of the inductive invariant. *)

\* Where a thread holds the transition mutex.
Held == {"claim", "claimed", "desire", "released", "reset", "home"}

TransitionOK == \A t \in Threads : at(t) \in Held => transition = t

\* A claim in progress knows its owner, also while it releases AirPlay first.
WantOK ==
    \A t \in Threads :
        /\ at(t) \in {"takeover", "begin", "claim", "claimed", "desire"}
               => thread[t].want \in Owner
        /\ thread[t].then = "begin" =>
               /\ thread[t].want \in Owner
               /\ at(t) \in Held \cup {"release", "begin"}

\* Main reports to the session only a player state that makes an event.
ObserveOK == at(MainThread) = "observe" => player \in {"LOADING", "PLAYING", "ERROR"}

\* What was checked under the transition mutex still holds when the lease is
\* claimed: nobody else can have claimed, and the coordinator has not stopped.
ClaimOK ==
    \A t \in Threads :
        /\ at(t) = "claim" => ~exclusive_conflict(current, thread[t].want)
        /\ at(t) \in {"claim", "claimed", "desire"} => lifecycle # "STOPPED"

\* The tick of a stopped coordinator found no lease.
SyncOK ==
    lifecycle = "STOPPED" =>
        /\ at(MainThread) = "sync" => target(MainThread) = NoLease
        /\ at(MainThread) \in {"sync_apply", "sync_mode"} => thread[MainThread].want = "NONE"

Control == TransitionOK /\ WantOK /\ ObserveOK
Inv1 == TypeOK /\ Control
Inv2 == Inv1 /\ ClaimOK /\ SyncOK /\ StoppedIsClean

-----------------------------------------------------------------------------
(* What the helpers return. *)

Session == [lease : Lease, lifecycle : SessionLifecycles]
Kinds == {"CLAIMED", "RELEASED", "STOP_REQUESTED", "ENDED", "FAILED",
          "LOAD_REQUESTED", "ACTIVE"}
ThreadState == [at : Places, want : Owner \cup {"NONE"}, lease : Lease,
                target : Lease, then : {"idle", "begin", "tick"}]

\* A generation has a successor in its range: MaxAttempts < Wrap \div 2 leaves
\* room for 0 and 1.
LEMMA GenerationType ==
    ASSUME NEW g \in 0 .. Wrap - 1
    PROVE  generation_after(g) \in 0 .. Wrap - 1
  <1>1. Wrap \in Nat /\ Wrap > 1
    BY CoordinatorAssumption
  <1> QED
    BY <1>1 DEF generation_after

LEMMA LeaseType ==
    /\ NoLease \in Lease
    /\ IdleSession \in Session
    /\ \A l \in Lease : l.owner \in Owner \cup {"NONE"} /\ (l = NoLease <=> l.owner = "NONE")
    /\ \A l \in Lease : lease_valid(l) => l # NoLease
  BY DEF NoLease, Lease, IdleSession, Session, SessionLifecycles, Owner, lease_valid

LEMMA ModeType == \A o : resource_mode_for_owner(o) \in Modes
  BY DEF resource_mode_for_owner, Modes

\* Every event leaves a media session.
LEMMA SessionType ==
    ASSUME NEW s \in Session, NEW kind \in Kinds, NEW l \in Lease
    PROVE  protocol_media_session_transition(s, kind, l) \in Session
  <1>1. apply_claim(s, l) \in Session
    BY DEF apply_claim, Session, SessionLifecycles
  <1>2. IdleSession \in Session
    BY LeaseType
  <1>3. \A k \in SessionLifecycles : [s EXCEPT !.lifecycle = k] \in Session
    BY DEF Session
  <1> QED
    BY <1>1, <1>2, <1>3 DEF protocol_media_session_transition, Kinds, SessionLifecycles

\* Only a claim wakes an idle session.
LEMMA IdleStays ==
    ASSUME NEW kind \in Kinds \ {"CLAIMED"}, NEW l \in Lease
    PROVE  protocol_media_session_transition(IdleSession, kind, l) = IdleSession
  <1>1. ~lease_valid(l) \/ IdleSession.lease # l
    BY LeaseType DEF IdleSession
  <1> QED
    BY <1>1 DEF protocol_media_session_transition, Kinds

-----------------------------------------------------------------------------
(* Type correctness and the places of the threads. *)

Claiming == {"takeover", "begin", "claim", "claimed", "desire"}

\* A step of thread t keeps the threads' part of the invariant if it takes or
\* frees the transition mutex properly and leaves t itself in order.
LEMMA BecomesStep ==
    ASSUME Inv1, NEW t \in Threads, NEW r \in ThreadState, becomes(t, r),
           transition' # transition => transition \in {"free", t},
           r.at \in Held => transition' = t,
           r.at \in Claiming => r.want \in Owner,
           r.then = "begin" => r.want \in Owner /\ r.at \in Held \cup {"release", "begin"},
           r.at = "observe" => player' \in {"LOADING", "PLAYING", "ERROR"},
           t # MainThread => player' = player
    PROVE  thread' \in [Threads -> ThreadState] /\ Control'
  <1>1. thread \in [Threads -> ThreadState] /\ TransitionOK /\ WantOK /\ ObserveOK
    BY DEF Inv1, Control, TypeOK, ThreadState
  <1>2. /\ thread' \in [Threads -> ThreadState]
        /\ thread'[t] = r
        /\ \A u \in Threads \ {t} : thread'[u] = thread[u]
    BY <1>1 DEF becomes
  <1>3. TransitionOK'
    BY <1>1, <1>2, CoordinatorAssumption DEF TransitionOK, at
  <1>4. WantOK'
    BY <1>1, <1>2 DEF WantOK, at, Claiming
  <1>5. ObserveOK'
    BY <1>1, <1>2, CoordinatorAssumption DEF ObserveOK, at
  <1> QED
    BY <1>2, <1>3, <1>4, <1>5 DEF Control

\* The same for a step that only moves t on, or ends its call.
LEMMA GotoStep ==
    ASSUME Inv1, NEW t \in Threads, NEW place \in Places \ {"observe"}, goto(t, place),
           transition' # transition => transition \in {"free", t},
           place \in Held => transition' = t,
           place \in Claiming => thread[t].want \in Owner,
           thread[t].then = "begin" => place \in Held \cup {"release", "begin", "idle", "tick"},
           t # MainThread => player' = player
    PROVE  thread' \in [Threads -> ThreadState] /\ Control'
  <1>1. thread \in [Threads -> ThreadState] /\ WantOK
    BY DEF Inv1, Control, TypeOK, ThreadState
  <1>2. CASE place \in {"idle", "tick"}
    <2> DEFINE r == [IdleThread EXCEPT !.at = place, !.lease = thread[t].lease]
    <2>1. r \in ThreadState /\ r.at = place /\ r.then = "idle"
      BY <1>1, LeaseType DEF ThreadState, IdleThread, Places
    <2>2. becomes(t, r)
      BY <1>2 DEF goto
    <2> HIDE DEF r
    <2> QED
      BY <1>2, <2>1, <2>2, BecomesStep DEF Held, Claiming
  <1>3. CASE place \notin {"idle", "tick"}
    <2> DEFINE r == [thread[t] EXCEPT !.at = place]
    <2>1. r \in ThreadState /\ r.at = place /\ r.then = thread[t].then
          /\ r.want = thread[t].want
      BY <1>1 DEF ThreadState
    <2>2. becomes(t, r)
      BY <1>3 DEF goto
    <2>3. r.then = "begin" => r.want \in Owner
      BY <1>1, <2>1 DEF WantOK
    <2> HIDE DEF r
    <2> QED
      BY <1>3, <2>1, <2>2, <2>3, BecomesStep
  <1> QED
    BY <1>2, <1>3

\* An event applied to the session leaves a session.
LEMMA EventType ==
    ASSUME NEW kind \in Kinds, NEW l \in Lease, TypeOK,
           coordinator_apply_media_event(kind, l)
    PROVE  session' \in Session /\ seen_active' \in BOOLEAN
  <1>1. session \in Session /\ seen_active \in BOOLEAN
    BY DEF TypeOK, Session
  <1> QED
    BY <1>1, SessionType DEF coordinator_apply_media_event

LEMMA DesiredType ==
    ASSUME NEW mode \in Modes, coordinator_set_desired_resource_mode(mode)
    PROVE  desired' \in Modes
  BY DEF coordinator_set_desired_resource_mode, Modes

LEMMA InvInit == Init => Inv2
  <1> SUFFICES ASSUME Init PROVE Inv2
    OBVIOUS
  <1>1. IdleThread \in ThreadState /\ IdleThread.at = "idle" /\ IdleThread.then = "idle"
    BY LeaseType DEF IdleThread, ThreadState, Places
  <1>2. thread \in [Threads -> ThreadState] /\ \A t \in Threads : thread[t] = IdleThread
    BY <1>1 DEF Init
  <1>3. TypeOK
    <2>1. session \in Session /\ current \in Lease
      BY LeaseType DEF Init
    <2>2. next_generation \in 0 .. Wrap - 1 /\ attempts \in 0 .. MaxAttempts
      BY CoordinatorAssumption DEF Init
    <2> QED
      BY <1>2, <2>1, <2>2 DEF Init, TypeOK, ThreadState, Session, Modes
  <1>4. Control /\ ClaimOK /\ SyncOK /\ StoppedIsClean
    BY <1>1, <1>2, CoordinatorAssumption
    DEF Control, TransitionOK, WantOK, ObserveOK, ClaimOK, SyncOK, StoppedIsClean, at, target,
        Held, Init
  <1> QED
    BY <1>3, <1>4 DEF Inv2, Inv1

\* The steps of a claim.
LEMMA BeginStep ==
    ASSUME Inv1, NEW t \in Threads,
           Begin(t) \/ \E o \in Claims[t] : BeginCheck(t, o)
    PROVE  Inv1'
  <1> USE CoordinatorAssumption DEF ownership, media
  <1>0. TypeOK /\ thread \in [Threads -> ThreadState] /\ TransitionOK /\ WantOK
    BY DEF Inv1, Control, TypeOK, ThreadState
  <1>1. ASSUME NEW o \in Claims[t], BeginCheck(t, o) PROVE Inv1'
    <2> DEFINE place == IF exclusive_conflict(current, o) /\ owner_is_airplay(current.owner)
                        THEN "takeover" ELSE "begin"
               r == [thread[t] EXCEPT !.want = o, !.target = current, !.at = place]
    <2>1. o \in Owner /\ current \in Lease /\ place \in {"takeover", "begin"}
      BY <1>0 DEF TypeOK
    <2>2. becomes(t, r) /\ at(t) = "idle" /\ UNCHANGED <<transition, player>>
      BY <1>1 DEF BeginCheck
    <2>3. thread[t].then # "begin"
      BY <1>0, <2>2 DEF WantOK, Held, at
    <2> HIDE DEF place
    <2>4. r \in ThreadState /\ r.at = place /\ r.want = o /\ r.then = thread[t].then
      BY <1>0, <2>1 DEF ThreadState, Places
    <2> HIDE DEF r
    <2>5. thread' \in [Threads -> ThreadState] /\ Control'
      BY <2>1, <2>2, <2>3, <2>4, BecomesStep DEF Held, Claiming
    <2>6. attempts' \in 0 .. MaxAttempts
      <3>1. attempts \in 0 .. MaxAttempts /\ attempts < MaxAttempts /\ attempts' = attempts + 1
        BY <1>0, <1>1 DEF TypeOK, BeginCheck
      <3> QED
        BY <3>1
    <2>7. UNCHANGED <<ownership, transition, lifecycle, media, desired, player>>
      BY <1>1 DEF BeginCheck
    <2>8. TypeOK'
      BY <1>0, <2>5, <2>6, <2>7 DEF TypeOK, ThreadState
    <2> QED
      BY <2>5, <2>8 DEF Inv1
  <1>2. CASE TakeoverFails(t) \/ BeginRejected(t)
    <2>1. thread' \in [Threads -> ThreadState] /\ Control'
      BY <1>2, GotoStep DEF TakeoverFails, BeginRejected, Held, Claiming, Places
    <2>2. TypeOK'
      BY <1>0, <1>2, <2>1 DEF TypeOK, TakeoverFails, BeginRejected, ThreadState
    <2> QED
      BY <2>1, <2>2 DEF Inv1
  <1>3. CASE TakeoverReleases(t)
    <2> DEFINE r == [thread[t] EXCEPT !.at = "release", !.then = "begin"]
    <2>1. r \in ThreadState /\ r.at = "release" /\ r.want = thread[t].want
      BY <1>0 DEF ThreadState, Places
    <2>2. becomes(t, r) /\ at(t) = "takeover" /\ UNCHANGED <<transition, player>>
      BY <1>3 DEF TakeoverReleases
    <2>3. r.want \in Owner
      BY <1>0, <2>1, <2>2 DEF WantOK, at
    <2> HIDE DEF r
    <2>4. thread' \in [Threads -> ThreadState] /\ Control'
      BY <2>1, <2>2, <2>3, BecomesStep DEF Held, Claiming
    <2>5. TypeOK'
      BY <1>0, <1>3, <2>4 DEF TypeOK, TakeoverReleases, ThreadState
    <2> QED
      BY <2>4, <2>5 DEF Inv1
  <1>4. CASE BeginLocks(t)
    <2>1. thread[t].want \in Owner
      BY <1>0, <1>4 DEF BeginLocks, WantOK, at
    <2>2. thread' \in [Threads -> ThreadState] /\ Control'
      BY <1>4, <2>1, GotoStep DEF BeginLocks, Held, Claiming, Places
    <2>3. TypeOK'
      BY <1>0, <1>4, <2>2 DEF TypeOK, BeginLocks, ThreadState
    <2> QED
      BY <2>2, <2>3 DEF Inv1
  <1>5. CASE player_ownership_claim(t)
    <2> DEFINE r == [thread[t] EXCEPT !.at = "claimed", !.lease = current']
    <2>1. becomes(t, r) /\ at(t) = "claim" /\ UNCHANGED <<transition, player>>
      BY <1>5 DEF player_ownership_claim
    <2>2. thread[t].want \in Owner /\ transition = t
      BY <1>0, <2>1 DEF WantOK, TransitionOK, at, Held
    <2>3. next_generation' \in 0 .. Wrap - 1
      BY <1>0, <1>5, GenerationType DEF TypeOK, player_ownership_claim
    <2>4. current' \in Lease
      BY <1>5, <2>2, <2>3 DEF player_ownership_claim, Lease
    <2>5. r \in ThreadState /\ r.at = "claimed" /\ r.want = thread[t].want
          /\ r.then = thread[t].then
      BY <1>0, <2>4 DEF ThreadState, Places
    <2> HIDE DEF r
    <2>6. thread' \in [Threads -> ThreadState] /\ Control'
      BY <2>1, <2>2, <2>5, BecomesStep DEF Held, Claiming
    <2>7. TypeOK'
      BY <1>0, <1>5, <2>3, <2>4, <2>6 DEF TypeOK, player_ownership_claim, ThreadState
    <2> QED
      BY <2>6, <2>7 DEF Inv1
  <1>6. CASE BeginSession(t)
    <2>1. thread[t].want \in Owner /\ transition = t
      BY <1>0, <1>6 DEF BeginSession, WantOK, TransitionOK, at, Held
    <2>2. thread' \in [Threads -> ThreadState] /\ Control'
      BY <1>6, <2>1, GotoStep DEF BeginSession, Held, Claiming, Places
    <2>3. session' \in Session /\ seen_active' \in BOOLEAN
      BY <1>0, <1>6, EventType DEF BeginSession, Kinds, ThreadState
    <2>4. TypeOK'
      BY <1>0, <1>6, <2>2, <2>3 DEF TypeOK, BeginSession, ThreadState, Session
    <2> QED
      BY <2>2, <2>4 DEF Inv1
  <1>7. CASE BeginEnds(t)
    <2>1. transition = t
      BY <1>0, <1>7 DEF BeginEnds, TransitionOK, at, Held
    <2>2. thread' \in [Threads -> ThreadState] /\ Control'
      BY <1>7, <2>1, GotoStep DEF BeginEnds, Held, Claiming, Places
    <2>3. desired' \in Modes
      BY <1>7, ModeType, DesiredType DEF BeginEnds
    <2>4. TypeOK'
      BY <1>0, <1>7, <2>2, <2>3 DEF TypeOK, BeginEnds, ThreadState
    <2> QED
      BY <2>2, <2>4 DEF Inv1
  <1> QED
    BY <1>1, <1>2, <1>3, <1>4, <1>5, <1>6, <1>7 DEF Begin

\* The steps of a release.
LEMMA ReleaseStep ==
    ASSUME Inv1, NEW t \in Threads, Release(t) \/ ReleaseCalled(t)
    PROVE  Inv1'
  <1> USE CoordinatorAssumption DEF ownership, media
  <1>0. TypeOK /\ thread \in [Threads -> ThreadState] /\ TransitionOK /\ WantOK
    BY DEF Inv1, Control, TypeOK, ThreadState
  <1>1. CASE ReleaseCalled(t)
    <2> DEFINE r == [thread[t] EXCEPT !.at = "release", !.then = "idle",
                                      !.target = thread[t].lease, !.lease = NoLease]
    <2>1. r \in ThreadState /\ r.at = "release" /\ r.then = "idle"
      BY <1>0, LeaseType DEF ThreadState, Places
    <2>2. becomes(t, r) /\ UNCHANGED <<transition, player>>
      BY <1>1 DEF ReleaseCalled
    <2> HIDE DEF r
    <2>3. thread' \in [Threads -> ThreadState] /\ Control'
      BY <2>1, <2>2, BecomesStep DEF Held, Claiming
    <2>4. TypeOK'
      BY <1>0, <1>1, <2>3 DEF TypeOK, ReleaseCalled, ThreadState
    <2> QED
      BY <2>3, <2>4 DEF Inv1
  <1>2. CASE ReleaseLocks(t)
    <2>1. thread' \in [Threads -> ThreadState] /\ Control'
      BY <1>2, GotoStep DEF ReleaseLocks, Held, Claiming, Places
    <2>2. TypeOK'
      BY <1>0, <1>2, <2>1, LeaseType DEF TypeOK, ReleaseLocks, ThreadState
    <2> QED
      BY <2>1, <2>2 DEF Inv1
  <1>3. CASE ReleaseRejected(t)
    <2> DEFINE place == IF thread[t].then = "begin" THEN "idle" ELSE thread[t].then
    <2>1. place \in {"idle", "tick"}
      BY <1>0 DEF ThreadState
    <2>2. goto(t, place) /\ UNCHANGED <<transition, player>>
      BY <1>3 DEF ReleaseRejected
    <2> HIDE DEF place
    <2>3. thread' \in [Threads -> ThreadState] /\ Control'
      BY <2>1, <2>2, GotoStep DEF Held, Claiming, Places
    <2>4. TypeOK'
      BY <1>0, <1>3, <2>3 DEF TypeOK, ReleaseRejected, ThreadState
    <2> QED
      BY <2>3, <2>4 DEF Inv1
  <1>4. CASE ReleaseReads(t)
    <2> DEFINE r == [thread[t] EXCEPT !.at = "reset", !.target = session.lease]
    <2>1. becomes(t, r) /\ at(t) = "released" /\ UNCHANGED <<transition, player>>
      BY <1>4 DEF ReleaseReads
    <2>2. transition = t /\ session.lease \in Lease
      BY <1>0, <2>1 DEF TransitionOK, at, Held, TypeOK
    <2>3. r \in ThreadState /\ r.at = "reset" /\ r.want = thread[t].want
          /\ r.then = thread[t].then
      BY <1>0, <2>2 DEF ThreadState, Places
    <2>4. r.then = "begin" => r.want \in Owner
      BY <1>0, <2>3 DEF WantOK
    <2> HIDE DEF r
    <2>5. thread' \in [Threads -> ThreadState] /\ Control'
      BY <2>1, <2>2, <2>3, <2>4, BecomesStep DEF Held, Claiming
    <2>6. TypeOK'
      BY <1>0, <1>4, <2>5 DEF TypeOK, ReleaseReads, ThreadState
    <2> QED
      BY <2>5, <2>6 DEF Inv1
  <1>5. CASE ReleaseResets(t)
    <2>1. transition = t
      BY <1>0, <1>5 DEF ReleaseResets, TransitionOK, at, Held
    <2>2. thread' \in [Threads -> ThreadState] /\ Control'
      BY <1>5, <2>1, GotoStep DEF ReleaseResets, Held, Claiming, Places
    <2>3. session' \in Session /\ seen_active' \in BOOLEAN
      BY <1>0, <1>5, EventType DEF ReleaseResets, Kinds, ThreadState, target
    <2>4. TypeOK'
      BY <1>0, <1>5, <2>2, <2>3 DEF TypeOK, ReleaseResets, ThreadState, Session
    <2> QED
      BY <2>2, <2>4 DEF Inv1
  <1>6. CASE ReleaseEnds(t)
    <2>1. transition = t /\ thread[t].then \in {"idle", "begin", "tick"}
      BY <1>0, <1>6 DEF ReleaseEnds, TransitionOK, at, Held, ThreadState
    <2>2. thread[t].then = "begin" => thread[t].want \in Owner
      BY <1>0 DEF WantOK
    <2>3. thread' \in [Threads -> ThreadState] /\ Control'
      BY <1>6, <2>1, <2>2, GotoStep DEF ReleaseEnds, Held, Claiming, Places
    <2>4. desired' \in Modes
      BY <1>6, DesiredType DEF ReleaseEnds, Modes
    <2>5. TypeOK'
      BY <1>0, <1>6, <2>3, <2>4 DEF TypeOK, ReleaseEnds, ThreadState
    <2> QED
      BY <2>3, <2>5 DEF Inv1
  <1> QED
    BY <1>1, <1>2, <1>3, <1>4, <1>5, <1>6 DEF Release

\* The steps of the frame loop: the tick and the observation of the player.
LEMMA TickStep ==
    ASSUME Inv1, Tick
    PROVE  Inv1'
  <1> USE CoordinatorAssumption DEF ownership, media, m
  <1>0. TypeOK /\ thread \in [Threads -> ThreadState] /\ WantOK
    BY DEF Inv1, Control, TypeOK, ThreadState
  <1>1. CASE SyncReadsCurrent
    <2> DEFINE r == [thread[m] EXCEPT !.at = "sync", !.target = current]
    <2>1. becomes(m, r) /\ at(m) \in {"idle", "tick"} /\ UNCHANGED <<transition, player>>
      BY <1>1 DEF SyncReadsCurrent
    <2>2. thread[m].then # "begin"
      BY <1>0, <2>1 DEF WantOK, at, Held
    <2>3. r \in ThreadState /\ r.at = "sync" /\ r.then = thread[m].then
      BY <1>0 DEF ThreadState, Places, TypeOK
    <2> HIDE DEF r
    <2>4. thread' \in [Threads -> ThreadState] /\ Control'
      BY <2>1, <2>2, <2>3, BecomesStep DEF Held, Claiming
    <2>5. TypeOK'
      BY <1>0, <1>1, <2>4 DEF TypeOK, SyncReadsCurrent, ThreadState
    <2> QED
      BY <2>4, <2>5 DEF Inv1
  <1>2. CASE SyncReadsSession
    <2> DEFINE place == IF session.lease = target(m) THEN "sync_mode" ELSE "sync_apply"
               l == IF target(m) # NoLease THEN thread[m].target ELSE session.lease
               r == [thread[m] EXCEPT !.at = place, !.want = target(m).owner, !.target = l]
    <2>1. becomes(m, r) /\ at(m) = "sync" /\ UNCHANGED <<transition, player>>
      BY <1>2 DEF SyncReadsSession
    <2>2. /\ thread[m].then # "begin"
          /\ l \in Lease /\ target(m).owner \in Owner \cup {"NONE"}
          /\ place \in {"sync_mode", "sync_apply"}
      BY <1>0, <2>1, LeaseType DEF WantOK, at, Held, ThreadState, target, TypeOK
    <2> HIDE DEF place, l
    <2>3. r \in ThreadState /\ r.at = place /\ r.then = thread[m].then
      BY <1>0, <2>2 DEF ThreadState, Places
    <2> HIDE DEF r
    <2>4. thread' \in [Threads -> ThreadState] /\ Control'
      BY <2>1, <2>2, <2>3, BecomesStep DEF Held, Claiming
    <2>5. TypeOK'
      BY <1>0, <1>2, <2>4 DEF TypeOK, SyncReadsSession, ThreadState
    <2> QED
      BY <2>4, <2>5 DEF Inv1
  <1>3. CASE SyncApplies
    <2>1. thread[m].then # "begin"
      BY <1>0, <1>3 DEF WantOK, at, Held, SyncApplies
    <2>2. thread' \in [Threads -> ThreadState] /\ Control'
      BY <1>3, <2>1, GotoStep DEF SyncApplies, Held, Claiming, Places
    <2>3. session' \in Session /\ seen_active' \in BOOLEAN
      BY <1>0, <1>3, EventType DEF SyncApplies, Kinds, ThreadState, target
    <2>4. TypeOK'
      BY <1>0, <1>3, <2>2, <2>3 DEF TypeOK, SyncApplies, ThreadState, Session
    <2> QED
      BY <2>2, <2>4 DEF Inv1
  <1>4. CASE SyncSetsMode
    <2>1. thread' \in [Threads -> ThreadState] /\ Control'
      BY <1>4, GotoStep DEF SyncSetsMode, Held, Claiming, Places
    <2>2. desired' \in Modes
      BY <1>4, ModeType, DesiredType DEF SyncSetsMode
    <2>3. TypeOK'
      BY <1>0, <1>4, <2>1, <2>2 DEF TypeOK, SyncSetsMode, ThreadState
    <2> QED
      BY <2>1, <2>3 DEF Inv1
  <1> QED
    BY <1>1, <1>2, <1>3, <1>4 DEF Tick

LEMMA ObserveStep ==
    ASSUME Inv1, Observe \/ \E p \in PlayerStates : ObserveReads(p)
    PROVE  Inv1'
  <1> USE CoordinatorAssumption DEF ownership, media, m
  <1>0. TypeOK /\ thread \in [Threads -> ThreadState] /\ WantOK /\ ObserveOK
    BY DEF Inv1, Control, TypeOK, ThreadState
  <1>1. ASSUME NEW p \in PlayerStates, ObserveReads(p) PROVE Inv1'
    <2> DEFINE place == IF current # NoLease /\ p # "STOPPED" THEN "observe" ELSE "decide"
               r == [thread[m] EXCEPT !.target = current, !.at = place]
    <2>1. becomes(m, r) /\ at(m) = "idle" /\ UNCHANGED transition
      BY <1>1 DEF ObserveReads
    <2>2. /\ place = "observe" => player' \in {"LOADING", "PLAYING", "ERROR"}
          /\ player' \in PlayerStates \cup {"NONE"}
          /\ place \in {"observe", "decide"}
      BY <1>1 DEF ObserveReads, PlayerStates
    <2>3. thread[m].then # "begin"
      BY <1>0, <2>1 DEF WantOK, at, Held
    <2> HIDE DEF place
    <2>4. r \in ThreadState /\ r.at = place /\ r.then = thread[m].then
      BY <1>0, <2>2 DEF ThreadState, Places, TypeOK
    <2> HIDE DEF r
    <2>5. thread' \in [Threads -> ThreadState] /\ Control'
      BY <2>1, <2>2, <2>3, <2>4, BecomesStep DEF Held, Claiming
    <2>6. TypeOK'
      BY <1>0, <1>1, <2>2, <2>5 DEF TypeOK, ObserveReads, ThreadState
    <2> QED
      BY <2>5, <2>6 DEF Inv1
  <1>2. CASE ObserveSubmits
    <2> DEFINE place == IF active(player) THEN "observe_again" ELSE "decide"
               kind == CASE player = "LOADING" -> "LOAD_REQUESTED"
                         [] player = "PLAYING" -> "ACTIVE"
                         [] player = "ERROR" -> "FAILED"
    <2>1. goto(m, place) /\ at(m) = "observe" /\ UNCHANGED <<transition, player>>
          /\ coordinator_apply_media_event(kind, target(m))
      BY <1>2 DEF ObserveSubmits
    <2>2. kind \in Kinds /\ place \in {"observe_again", "decide"}
      BY <1>0, <2>1 DEF ObserveOK, Kinds
    <2>3. thread[m].then # "begin" /\ target(m) \in Lease
      BY <1>0, <2>1 DEF WantOK, at, Held, ThreadState, target
    <2> HIDE DEF place, kind
    <2>4. thread' \in [Threads -> ThreadState] /\ Control'
      BY <2>1, <2>2, <2>3, GotoStep DEF Held, Claiming, Places
    <2>5. session' \in Session /\ seen_active' \in BOOLEAN
      BY <1>0, <2>1, <2>2, <2>3, EventType
    <2>6. TypeOK'
      BY <1>0, <1>2, <2>4, <2>5 DEF TypeOK, ObserveSubmits, ThreadState, Session
    <2> QED
      BY <2>4, <2>6 DEF Inv1
  <1>3. CASE ObserveReadsAgain
    <2> DEFINE place == IF current # NoLease THEN "observe_active" ELSE "decide"
               r == [thread[m] EXCEPT !.target = current, !.at = place]
    <2>1. becomes(m, r) /\ at(m) = "observe_again" /\ UNCHANGED <<transition, player>>
      BY <1>3 DEF ObserveReadsAgain
    <2>2. thread[m].then # "begin" /\ place \in {"observe_active", "decide"}
      BY <1>0, <2>1 DEF WantOK, at, Held
    <2> HIDE DEF place
    <2>3. r \in ThreadState /\ r.at = place /\ r.then = thread[m].then
      BY <1>0, <2>2 DEF ThreadState, Places, TypeOK
    <2> HIDE DEF r
    <2>4. thread' \in [Threads -> ThreadState] /\ Control'
      BY <2>1, <2>2, <2>3, BecomesStep DEF Held, Claiming
    <2>5. TypeOK'
      BY <1>0, <1>3, <2>4 DEF TypeOK, ObserveReadsAgain, ThreadState
    <2> QED
      BY <2>4, <2>5 DEF Inv1
  <1>4. CASE ObserveSubmitsActive
    <2>1. thread[m].then # "begin"
      BY <1>0, <1>4 DEF WantOK, at, Held, ObserveSubmitsActive
    <2>2. thread' \in [Threads -> ThreadState] /\ Control'
      BY <1>4, <2>1, GotoStep DEF ObserveSubmitsActive, Held, Claiming, Places
    <2>3. session' \in Session /\ seen_active' \in BOOLEAN
      BY <1>0, <1>4, EventType DEF ObserveSubmitsActive, Kinds, ThreadState, target
    <2>4. TypeOK'
      BY <1>0, <1>4, <2>2, <2>3 DEF TypeOK, ObserveSubmitsActive, ThreadState, Session
    <2> QED
      BY <2>2, <2>4 DEF Inv1
  <1>5. ASSUME NEW graced \in BOOLEAN, ObserveDecides(graced) PROVE Inv1'
    <2> DEFINE r == [thread[m] EXCEPT !.at = "ended", !.then = "tick",
                                      !.target = session.lease]
    <2>1. /\ becomes(m, r) \/ goto(m, "tick")
          /\ UNCHANGED <<attempts, ownership, transition, lifecycle, session, desired>>
          /\ player' = "NONE"
      BY <1>5 DEF ObserveDecides
    <2>2. seen_active' \in BOOLEAN
      BY <1>0, <1>5 DEF ObserveDecides, TypeOK
    <2>3. r \in ThreadState /\ r.at = "ended" /\ r.then = "tick"
      BY <1>0 DEF ThreadState, Places, TypeOK
    <2> HIDE DEF r
    <2>4. thread' \in [Threads -> ThreadState] /\ Control'
      BY <2>1, <2>3, BecomesStep, GotoStep DEF Held, Claiming, Places
    <2>5. TypeOK'
      BY <1>0, <2>1, <2>2, <2>4 DEF TypeOK, ThreadState
    <2> QED
      BY <2>4, <2>5 DEF Inv1
  <1>6. CASE ObserveEnds
    <2>1. thread' \in [Threads -> ThreadState] /\ Control'
      BY <1>6, GotoStep DEF ObserveEnds, Held, Claiming, Places
    <2>2. session' \in Session /\ seen_active' \in BOOLEAN
      BY <1>0, <1>6, EventType DEF ObserveEnds, Kinds, ThreadState, target
    <2>3. TypeOK'
      BY <1>0, <1>6, <2>1, <2>2 DEF TypeOK, ObserveEnds, ThreadState, Session
    <2> QED
      BY <2>1, <2>3 DEF Inv1
  <1> QED
    BY <1>1, <1>2, <1>3, <1>4, <1>5, <1>6 DEF Observe

\* The protocols' events, the actor's release, and start and stop.
LEMMA OtherStep ==
    ASSUME Inv1,
           \/ \E t \in Threads, kind \in {"LOAD_REQUESTED", "STOP_REQUESTED"} :
                  SubmitEvent(t, kind)
           \/ ActorReleases
           \/ protocol_coordinator_begin_start
           \/ protocol_coordinator_begin_stop
           \/ protocol_coordinator_finish_stop
    PROVE  Inv1'
  <1> USE CoordinatorAssumption DEF ownership, media, m
  <1>0. TypeOK /\ thread \in [Threads -> ThreadState] /\ WantOK /\ Control
    BY DEF Inv1, Control, TypeOK, ThreadState
  <1>1. ASSUME UNCHANGED <<thread, transition, player>> PROVE Control'
    BY <1>0, <1>1 DEF Control, TransitionOK, WantOK, ObserveOK, at
  <1>2. ASSUME NEW t \in Threads, NEW kind \in {"LOAD_REQUESTED", "STOP_REQUESTED"},
               SubmitEvent(t, kind)
        PROVE  Inv1'
    <2>1. session' \in Session /\ seen_active' \in BOOLEAN
      BY <1>0, <1>2, EventType DEF SubmitEvent, Kinds, ThreadState
    <2>2. TypeOK'
      BY <1>0, <1>2, <2>1 DEF TypeOK, SubmitEvent, Session
    <2> QED
      BY <1>1, <1>2, <2>2 DEF Inv1, SubmitEvent
  <1>3. CASE ActorReleases
    <2>1. TypeOK'
      BY <1>0, <1>3, LeaseType DEF TypeOK, ActorReleases
    <2> QED
      BY <1>1, <1>3, <2>1 DEF Inv1, ActorReleases
  <1>4. CASE protocol_coordinator_begin_start
    <2>1. TypeOK'
      BY <1>0, <1>4, LeaseType DEF TypeOK, protocol_coordinator_begin_start, Session, Modes
    <2> QED
      BY <1>1, <1>4, <2>1 DEF Inv1, protocol_coordinator_begin_start
  <1>5. CASE protocol_coordinator_begin_stop
    <2>1. thread[m].then # "begin"
      BY <1>0, <1>5 DEF WantOK, at, Held, protocol_coordinator_begin_stop
    <2>2. thread' \in [Threads -> ThreadState] /\ Control'
      BY <1>5, <2>1, GotoStep DEF protocol_coordinator_begin_stop, Held, Claiming, Places
    <2>3. attempts' \in 0 .. MaxAttempts
      BY <1>0, <1>5 DEF TypeOK, protocol_coordinator_begin_stop
    <2>4. TypeOK'
      BY <1>0, <1>5, <2>2, <2>3 DEF TypeOK, protocol_coordinator_begin_stop, ThreadState
    <2> QED
      BY <2>2, <2>4 DEF Inv1
  <1>6. CASE protocol_coordinator_finish_stop
    <2>1. thread' \in [Threads -> ThreadState] /\ Control'
      BY <1>6, GotoStep DEF protocol_coordinator_finish_stop, Held, Claiming, Places
    <2>2. next_generation' \in 0 .. Wrap - 1
      BY <1>0, <1>6, GenerationType DEF TypeOK, protocol_coordinator_finish_stop
    <2>3. TypeOK'
      BY <1>0, <1>6, <2>1, <2>2, LeaseType
      DEF TypeOK, protocol_coordinator_finish_stop, ThreadState, Session, Modes
    <2> QED
      BY <2>1, <2>3 DEF Inv1
  <1> QED
    BY <1>2, <1>3, <1>4, <1>5, <1>6

LEMMA StutterStep == Inv1 /\ UNCHANGED vars => Inv1'
  BY DEF Inv1, TypeOK, Control, TransitionOK, WantOK, ObserveOK, at, vars, ownership, media

LEMMA ControlStep == Inv1 /\ [Next]_vars => Inv1'
  BY BeginStep, ReleaseStep, TickStep, ObserveStep, OtherStep, StutterStep DEF Next

\* Leases, media sessions, generations across their wrap and the threads'
\* locals keep their types.
THEOREM TypeCorrect == Spec => []TypeOK
  <1>1. Init => Inv1
    BY InvInit DEF Inv2
  <1>2. Inv1 => TypeOK
    BY DEF Inv1
  <1> QED
    BY <1>1, <1>2, ControlStep, PTL DEF Spec

-----------------------------------------------------------------------------
(* A claim, and a stopped coordinator. *)

\* Only thread t moves.
Moved(t) == \A u \in Threads \ {t} : thread'[u] = thread[u]

LEMMA BecomesMoves ==
    ASSUME thread \in [Threads -> ThreadState], NEW t \in Threads, NEW r, becomes(t, r)
    PROVE  Moved(t) /\ thread'[t] = r
  BY DEF becomes, Moved

LEMMA GotoMoves ==
    ASSUME thread \in [Threads -> ThreadState], NEW t \in Threads, NEW place, goto(t, place)
    PROVE  /\ Moved(t) /\ thread'[t].at = place
           /\ place \notin {"idle", "tick"} => thread'[t].want = thread[t].want
  <1>1. CASE place \in {"idle", "tick"}
    <2> DEFINE r == [IdleThread EXCEPT !.at = place, !.lease = thread[t].lease]
    <2>1. r.at = place
      BY DEF IdleThread
    <2>2. becomes(t, r)
      BY <1>1 DEF goto
    <2> HIDE DEF r
    <2> QED
      BY <1>1, <2>1, <2>2, BecomesMoves
  <1>2. CASE place \notin {"idle", "tick"}
    <2> DEFINE r == [thread[t] EXCEPT !.at = place]
    <2>1. r.at = place /\ r.want = thread[t].want
      BY DEF ThreadState
    <2>2. becomes(t, r)
      BY <1>2 DEF goto
    <2> HIDE DEF r
    <2> QED
      BY <2>1, <2>2, BecomesMoves
  <1> QED
    BY <1>1, <1>2

\* What a thread's step does to the places a claim passes under the mutex.
Locked == {"claim", "claimed", "desire"}

\* No step but the claims' own can disturb a claim.
LEMMA ClaimKept ==
    ASSUME Inv2,
           current' \in {current, NoLease},
           lifecycle' = "STOPPED" => lifecycle = "STOPPED" \/ transition = "free",
           \/ UNCHANGED thread
           \/ \E t \in Threads : Moved(t) /\ at(t)' \notin Locked
    PROVE  ClaimOK'
  <1>1. ClaimOK /\ TransitionOK
    BY DEF Inv2, Inv1, Control
  <1>2. ASSUME NEW u \in Threads, at(u)' \in Locked
        PROVE  at(u) = at(u)' /\ thread'[u].want = thread[u].want
    BY <1>2 DEF Moved, at
  <1>3. ASSUME NEW u \in Threads, at(u)' = "claim"
        PROVE  ~exclusive_conflict(current, thread[u].want)'
    <2>1. at(u) = "claim" /\ thread'[u].want = thread[u].want
      BY <1>2, <1>3 DEF Locked
    <2> QED
      BY <1>1, <2>1 DEF ClaimOK, exclusive_conflict
  <1>4. ASSUME NEW u \in Threads, at(u)' \in Locked
        PROVE  lifecycle' # "STOPPED"
    <2>1. at(u) \in Locked
      BY <1>2, <1>4
    <2>2. lifecycle # "STOPPED" /\ transition = u
      BY <1>1, <2>1 DEF ClaimOK, TransitionOK, Locked, Held
    <2> QED
      BY <2>2, CoordinatorAssumption
  <1> QED
    BY <1>3, <1>4 DEF ClaimOK, Locked

LEMMA ClaimStep == Inv2 /\ [Next]_vars => ClaimOK'
  <1> SUFFICES ASSUME Inv2, [Next]_vars PROVE ClaimOK'
    OBVIOUS
  <1> USE CoordinatorAssumption DEF ownership, media, m
  <1>0. /\ TypeOK /\ thread \in [Threads -> ThreadState] /\ TransitionOK /\ ClaimOK
        /\ ObserveOK
    BY DEF Inv2, Inv1, Control, TypeOK, ThreadState
  <1>1. ASSUME NEW t \in Threads, NEW o \in Claims[t], BeginCheck(t, o) PROVE ClaimOK'
    <2> DEFINE place == IF exclusive_conflict(current, o) /\ owner_is_airplay(current.owner)
                        THEN "takeover" ELSE "begin"
               r == [thread[t] EXCEPT !.want = o, !.target = current, !.at = place]
    <2>1. becomes(t, r) /\ UNCHANGED <<current, lifecycle>>
      BY <1>1 DEF BeginCheck
    <2>2. r.at \notin Locked
      BY <1>0 DEF ThreadState, Locked
    <2> HIDE DEF r
    <2> QED
      BY <1>0, <2>1, <2>2, BecomesMoves, ClaimKept DEF at
  <1>2. ASSUME NEW t \in Threads, BeginLocks(t) PROVE ClaimOK'
    <2>1. goto(t, "claim") /\ ~exclusive_conflict(current, thread[t].want)
          /\ lifecycle = "RUNNING" /\ transition = "free" /\ UNCHANGED <<current, lifecycle>>
      BY <1>2 DEF BeginLocks, coordinator_accepts_media
    <2>2. Moved(t) /\ thread'[t].want = thread[t].want
      BY <1>0, <2>1, GotoMoves
    <2>3. \A u \in Threads \ {t} : at(u)' \notin Locked
      BY <1>0, <2>1, <2>2 DEF TransitionOK, Moved, Held, Locked, at
    <2> QED
      BY <2>1, <2>2, <2>3 DEF ClaimOK, exclusive_conflict, Locked
  <1>3. ASSUME NEW t \in Threads, player_ownership_claim(t) \/ BeginSession(t)
        PROVE  ClaimOK'
    <2>1. at(t) \in Locked /\ UNCHANGED lifecycle
      BY <1>3 DEF player_ownership_claim, BeginSession, Locked
    <2>2. lifecycle # "STOPPED" /\ transition = t
      BY <1>0, <2>1 DEF ClaimOK, TransitionOK, Locked, Held
    <2>3. Moved(t) /\ at(t)' # "claim"
      <3>1. CASE player_ownership_claim(t)
        <4> DEFINE r == [thread[t] EXCEPT !.at = "claimed", !.lease = current']
        <4>1. becomes(t, r)
          BY <3>1 DEF player_ownership_claim
        <4>2. r.at = "claimed"
          BY <1>0 DEF ThreadState
        <4> HIDE DEF r
        <4> QED
          BY <1>0, <4>1, <4>2, BecomesMoves DEF at
      <3>2. CASE BeginSession(t)
        BY <1>0, <3>2, GotoMoves DEF BeginSession, at
      <3> QED
        BY <1>3, <3>1, <3>2
    <2>4. \A u \in Threads \ {t} : at(u)' \notin Locked
      BY <1>0, <2>2, <2>3 DEF TransitionOK, Moved, Held, Locked, at
    <2> QED
      BY <2>1, <2>2, <2>3, <2>4 DEF ClaimOK, Locked
  <1>4. ASSUME NEW t \in Threads,
               \/ TakeoverFails(t) \/ BeginRejected(t) \/ BeginEnds(t)
               \/ ReleaseLocks(t) \/ ReleaseResets(t)
        PROVE  ClaimOK'
    <2>1. goto(t, "idle") \/ goto(t, "released") \/ goto(t, "home")
      BY <1>4 DEF TakeoverFails, BeginRejected, BeginEnds, ReleaseLocks, ReleaseResets
    <2>2. Moved(t) /\ at(t)' \notin Locked
      BY <1>0, <2>1, GotoMoves DEF Locked, at
    <2>3. current' \in {current, NoLease} /\ UNCHANGED lifecycle
      BY <1>4 DEF TakeoverFails, BeginRejected, BeginEnds, ReleaseLocks, ReleaseResets
    <2> QED
      BY <2>2, <2>3, ClaimKept
  <1>5. ASSUME NEW t \in Threads, ReleaseRejected(t) \/ ReleaseEnds(t) PROVE ClaimOK'
    <2>1. thread[t].then \in {"idle", "begin", "tick"}
      BY <1>0 DEF ThreadState
    <2>2. \E place \in {"idle", "begin", "tick"} : goto(t, place)
      BY <1>5, <2>1 DEF ReleaseRejected, ReleaseEnds
    <2>3. Moved(t) /\ at(t)' \notin Locked
      BY <1>0, <2>2, GotoMoves DEF Locked, at
    <2>4. UNCHANGED <<current, lifecycle>>
      BY <1>5 DEF ReleaseRejected, ReleaseEnds
    <2> QED
      BY <2>3, <2>4, ClaimKept
  <1>6. ASSUME NEW t \in Threads,
               TakeoverReleases(t) \/ ReleaseCalled(t) \/ ReleaseReads(t)
        PROVE  ClaimOK'
    <2>2. Moved(t) /\ at(t)' \notin Locked
      <3>1. CASE TakeoverReleases(t)
        BY <1>0, <3>1 DEF TakeoverReleases, becomes, Moved, at, ThreadState, Locked
      <3>2. CASE ReleaseCalled(t)
        BY <1>0, <3>2 DEF ReleaseCalled, becomes, Moved, at, ThreadState, Locked
      <3>3. CASE ReleaseReads(t)
        BY <1>0, <3>3 DEF ReleaseReads, becomes, Moved, at, ThreadState, Locked
      <3> QED
        BY <1>6, <3>1, <3>2, <3>3
    <2>3. UNCHANGED <<current, lifecycle>>
      BY <1>6 DEF TakeoverReleases, ReleaseCalled, ReleaseReads
    <2> QED
      BY <2>2, <2>3, ClaimKept
  <1>7. ASSUME Tick \/ Observe \/ \E p \in PlayerStates : ObserveReads(p)
        PROVE  ClaimOK'
    <2>1. UNCHANGED <<current, lifecycle>>
      BY <1>7 DEF Tick, SyncReadsCurrent, SyncReadsSession, SyncApplies, SyncSetsMode, Observe,
          ObserveReads, ObserveSubmits, ObserveReadsAgain, ObserveSubmitsActive, ObserveDecides,
          ObserveEnds
    <2>2. /\ Moved(m)
          /\ at(m)' \notin Locked
      <3> USE <1>0 DEF becomes, Moved, at, ThreadState, Locked
      <3>1. ASSUME NEW p \in PlayerStates, ObserveReads(p) PROVE Moved(m) /\ at(m)' \notin Locked
        BY <3>1 DEF ObserveReads
      <3>2. CASE SyncReadsCurrent
        BY <3>2 DEF SyncReadsCurrent
      <3>3. CASE SyncReadsSession
        BY <3>3 DEF SyncReadsSession
      <3>4. CASE ObserveReadsAgain
        BY <3>4 DEF ObserveReadsAgain
      <3>5. ASSUME NEW graced \in BOOLEAN, ObserveDecides(graced)
            PROVE  Moved(m) /\ at(m)' \notin Locked
        BY <3>5, GotoMoves DEF ObserveDecides
      <3>6. CASE SyncApplies \/ SyncSetsMode \/ ObserveSubmits \/ ObserveSubmitsActive \/ ObserveEnds
        BY <3>6, GotoMoves DEF SyncApplies, SyncSetsMode, ObserveSubmits, ObserveSubmitsActive,
           ObserveEnds
      <3> QED
        BY <1>7, <3>1, <3>2, <3>3, <3>4, <3>5, <3>6 DEF Tick, Observe
    <2> QED
      BY <2>1, <2>2, ClaimKept
  <1>8. CASE \/ \E t \in Threads, kind \in {"LOAD_REQUESTED", "STOP_REQUESTED"} :
                   SubmitEvent(t, kind)
             \/ ActorReleases \/ protocol_coordinator_begin_start \/ UNCHANGED vars
    BY <1>8, ClaimKept DEF SubmitEvent, ActorReleases, protocol_coordinator_begin_start, vars
  <1>9. CASE protocol_coordinator_begin_stop \/ protocol_coordinator_finish_stop
    <2>1. goto(m, "stopping") \/ goto(m, "idle")
      BY <1>9 DEF protocol_coordinator_begin_stop, protocol_coordinator_finish_stop
    <2>2. Moved(m) /\ at(m)' \notin Locked
      BY <1>0, <2>1, GotoMoves DEF Locked, at
    <2> QED
      BY <1>9, <2>2, ClaimKept DEF protocol_coordinator_begin_stop,
         protocol_coordinator_finish_stop
  <1> QED
    BY <1>1, <1>2, <1>3, <1>4, <1>5, <1>6, <1>7, <1>8, <1>9 DEF Next, Begin, Release

\* While the coordinator is stopped a tick finds no lease to apply.
LEMMA SyncStep == Inv2 /\ [Next]_vars => SyncOK'
  <1> SUFFICES ASSUME Inv2, [Next]_vars, lifecycle' = "STOPPED"
               PROVE  /\ at(m)' = "sync" => target(m)' = NoLease
                      /\ at(m)' \in {"sync_apply", "sync_mode"} => thread'[m].want = "NONE"
    BY DEF SyncOK, m
  <1> USE CoordinatorAssumption DEF ownership, media, m
  <1> DEFINE Syncing == {"sync", "sync_apply", "sync_mode"}
  <1>0. TypeOK /\ thread \in [Threads -> ThreadState] /\ SyncOK /\ StoppedIsClean
    BY DEF Inv2, Inv1, TypeOK, ThreadState
  <1>1. CASE protocol_coordinator_finish_stop
    BY <1>0, <1>1, GotoMoves DEF protocol_coordinator_finish_stop, at
  <1>2. CASE protocol_coordinator_begin_stop \/ protocol_coordinator_begin_start
    BY <1>2 DEF protocol_coordinator_begin_stop, protocol_coordinator_begin_start
  <1>3. ASSUME NEW t \in Threads, Moved(t), UNCHANGED lifecycle, at(t)' \notin Syncing
        PROVE  /\ at(m)' = "sync" => target(m)' = NoLease
               /\ at(m)' \in {"sync_apply", "sync_mode"} => thread'[m].want = "NONE"
    BY <1>0, <1>3 DEF SyncOK, Moved, at, target
  <1>4. ASSUME NEW t \in Threads,
               \/ TakeoverFails(t) \/ BeginRejected(t) \/ BeginLocks(t) \/ BeginSession(t)
               \/ BeginEnds(t) \/ ReleaseLocks(t) \/ ReleaseResets(t)
        PROVE  Moved(t) /\ UNCHANGED lifecycle /\ at(t)' \notin Syncing
    BY <1>0, <1>4, GotoMoves DEF TakeoverFails, BeginRejected, BeginLocks, BeginSession,
       BeginEnds, ReleaseLocks, ReleaseResets, at
  <1>5. ASSUME NEW t \in Threads, ReleaseRejected(t) \/ ReleaseEnds(t)
        PROVE  Moved(t) /\ UNCHANGED lifecycle /\ at(t)' \notin Syncing
    <2>1. thread[t].then \in {"idle", "begin", "tick"}
      BY <1>0 DEF ThreadState
    <2>2. UNCHANGED lifecycle /\ \E place \in {"idle", "begin", "tick"} : goto(t, place)
      BY <1>5, <2>1 DEF ReleaseRejected, ReleaseEnds
    <2> QED
      BY <1>0, <2>2, GotoMoves DEF at
  <1>6. ASSUME NEW t \in Threads,
               \/ TakeoverReleases(t) \/ player_ownership_claim(t)
               \/ ReleaseCalled(t) \/ ReleaseReads(t)
        PROVE  Moved(t) /\ UNCHANGED lifecycle /\ at(t)' \notin Syncing
    <2> USE <1>0 DEF becomes, Moved, at, ThreadState
    <2>1. CASE TakeoverReleases(t)
      BY <2>1 DEF TakeoverReleases
    <2>2. CASE player_ownership_claim(t)
      BY <2>2 DEF player_ownership_claim
    <2>3. CASE ReleaseCalled(t)
      BY <2>3 DEF ReleaseCalled
    <2>4. CASE ReleaseReads(t)
      BY <2>4 DEF ReleaseReads
    <2> QED
      BY <1>6, <2>1, <2>2, <2>3, <2>4
  <1>7. ASSUME NEW t \in Threads, NEW o \in Claims[t], BeginCheck(t, o)
        PROVE  Moved(t) /\ UNCHANGED lifecycle /\ at(t)' \notin Syncing
    BY <1>0, <1>7 DEF BeginCheck, becomes, Moved, at, ThreadState
  <1>8. ASSUME Observe \/ \E p \in PlayerStates : ObserveReads(p)
        PROVE  Moved(m) /\ UNCHANGED lifecycle /\ at(m)' \notin Syncing
    <2> USE <1>0 DEF becomes, Moved, at, ThreadState
    <2>1. ASSUME NEW p \in PlayerStates, ObserveReads(p)
          PROVE  Moved(m) /\ UNCHANGED lifecycle /\ at(m)' \notin Syncing
      BY <2>1 DEF ObserveReads
    <2>2. CASE ObserveReadsAgain
      BY <2>2 DEF ObserveReadsAgain
    <2>3. ASSUME NEW graced \in BOOLEAN, ObserveDecides(graced)
          PROVE  Moved(m) /\ UNCHANGED lifecycle /\ at(m)' \notin Syncing
      <3>1. CASE goto(m, "tick")
        BY <2>3, <3>1, GotoMoves DEF ObserveDecides
      <3>2. CASE becomes(m, [thread[m] EXCEPT !.at = "ended", !.then = "tick",
                                              !.target = session.lease])
        BY <2>3, <3>2 DEF ObserveDecides
      <3> QED
        BY <2>3, <3>1, <3>2 DEF ObserveDecides
    <2>4. CASE ObserveSubmits \/ ObserveSubmitsActive \/ ObserveEnds
      BY <2>4, GotoMoves DEF ObserveSubmits, ObserveSubmitsActive, ObserveEnds
    <2> QED
      BY <1>8, <2>1, <2>2, <2>3, <2>4 DEF Observe
  <1>9. CASE SyncReadsCurrent
    <2>1. current = NoLease
      BY <1>0, <1>9 DEF StoppedIsClean, SyncReadsCurrent
    <2> QED
      BY <1>0, <1>9, <2>1 DEF SyncReadsCurrent, becomes, at, target, ThreadState
  <1>10. CASE SyncReadsSession
    <2>1. target(m) = NoLease
      BY <1>0, <1>10 DEF SyncOK, SyncReadsSession
    <2>2. target(m).owner = "NONE"
      BY <2>1 DEF NoLease
    <2> QED
      BY <1>0, <1>10, <2>2 DEF SyncReadsSession, becomes, at, ThreadState
  <1>11. CASE SyncApplies
    BY <1>0, <1>11, GotoMoves DEF SyncApplies, SyncOK, at
  <1>12. CASE SyncSetsMode
    BY <1>0, <1>12, GotoMoves DEF SyncSetsMode, at
  <1>13. CASE \/ \E t \in Threads, kind \in {"LOAD_REQUESTED", "STOP_REQUESTED"} :
                    SubmitEvent(t, kind)
              \/ ActorReleases \/ UNCHANGED vars
    BY <1>0, <1>13 DEF SubmitEvent, ActorReleases, vars, SyncOK, at, target
  <1> HIDE DEF Syncing
  <1> QED
    BY <1>1, <1>2, <1>3, <1>4, <1>5, <1>6, <1>7, <1>8, <1>9, <1>10, <1>11, <1>12, <1>13
    DEF Next, Begin, Release, Tick

\* Neither a call in flight nor a tick makes a stopped coordinator unclean.
LEMMA CleanStep == Inv2 /\ [Next]_vars => StoppedIsClean'
  <1> SUFFICES ASSUME Inv2, [Next]_vars, lifecycle' = "STOPPED"
               PROVE  current' = NoLease /\ session' = IdleSession /\ desired' = "HOME"
    BY DEF StoppedIsClean
  <1> USE CoordinatorAssumption DEF ownership, media, m
  <1>0. /\ TypeOK /\ thread \in [Threads -> ThreadState]
        /\ ClaimOK /\ SyncOK /\ ObserveOK /\ StoppedIsClean
    BY DEF Inv2, Inv1, Control, TypeOK, ThreadState
  <1>1. CASE protocol_coordinator_finish_stop
    BY <1>1 DEF protocol_coordinator_finish_stop
  <1>2. CASE protocol_coordinator_begin_stop \/ protocol_coordinator_begin_start
    BY <1>2 DEF protocol_coordinator_begin_stop, protocol_coordinator_begin_start
  <1>3. CASE UNCHANGED <<current, session, desired, lifecycle>>
    BY <1>0, <1>3 DEF StoppedIsClean
  <1>4. ASSUME NEW kind \in Kinds \ {"CLAIMED"}, NEW l \in Lease,
               coordinator_apply_media_event(kind, l),
               UNCHANGED <<current, desired, lifecycle>>
        PROVE  current' = NoLease /\ session' = IdleSession /\ desired' = "HOME"
    BY <1>0, <1>4, IdleStays DEF StoppedIsClean, coordinator_apply_media_event
  <1>5. ASSUME NEW t \in Threads PROVE thread[t].lease \in Lease /\ target(t) \in Lease
    BY <1>0 DEF ThreadState, target
  <1>6. ASSUME NEW t \in Threads, player_ownership_claim(t) \/ BeginSession(t) \/ BeginEnds(t)
        PROVE  FALSE
    BY <1>0, <1>6 DEF ClaimOK, player_ownership_claim, BeginSession, BeginEnds
  <1>7. ASSUME NEW t \in Threads, ReleaseLocks(t) \/ ReleaseEnds(t)
        PROVE  current' = NoLease /\ session' = IdleSession /\ desired' = "HOME"
    BY <1>0, <1>7 DEF StoppedIsClean, ReleaseLocks, ReleaseEnds,
       coordinator_set_desired_resource_mode
  <1>8. CASE ActorReleases
    BY <1>0, <1>8 DEF StoppedIsClean, ActorReleases
  <1>9. ASSUME NEW t \in Threads, ReleaseResets(t)
        PROVE  current' = NoLease /\ session' = IdleSession /\ desired' = "HOME"
    BY <1>4, <1>5, <1>9 DEF ReleaseResets, Kinds
  <1>10. ASSUME NEW t \in Threads, NEW kind \in {"LOAD_REQUESTED", "STOP_REQUESTED"},
                SubmitEvent(t, kind)
         PROVE  current' = NoLease /\ session' = IdleSession /\ desired' = "HOME"
    BY <1>4, <1>5, <1>10 DEF SubmitEvent, Kinds
  <1>11. CASE SyncApplies
    <2>1. thread[m].want = "NONE" /\ coordinator_apply_media_event("RELEASED", target(m))
      BY <1>0, <1>11 DEF SyncApplies, SyncOK
    <2> QED
      BY <1>4, <1>5, <1>11, <2>1 DEF SyncApplies, Kinds
  <1>12. CASE SyncSetsMode
    <2>1. thread[m].want = "NONE"
      BY <1>0, <1>12 DEF SyncSetsMode, SyncOK
    <2>2. resource_mode_for_owner("NONE") = "HOME"
      BY DEF resource_mode_for_owner, owner_is_airplay
    <2> QED
      BY <1>0, <1>12, <2>1, <2>2 DEF SyncSetsMode, StoppedIsClean,
         coordinator_set_desired_resource_mode
  <1>13. CASE ObserveSubmits
    <2> DEFINE kind == CASE player = "LOADING" -> "LOAD_REQUESTED"
                         [] player = "PLAYING" -> "ACTIVE"
                         [] player = "ERROR" -> "FAILED"
    <2>1. coordinator_apply_media_event(kind, target(m)) /\ UNCHANGED <<current, desired, lifecycle>>
      BY <1>13 DEF ObserveSubmits
    <2>2. kind \in Kinds \ {"CLAIMED"}
      BY <1>0, <1>13 DEF ObserveSubmits, ObserveOK, Kinds
    <2> HIDE DEF kind
    <2> QED
      BY <1>4, <1>5, <2>1, <2>2
  <1>14. CASE ObserveSubmitsActive \/ ObserveEnds
    BY <1>4, <1>5, <1>14 DEF ObserveSubmitsActive, ObserveEnds, Kinds
  <1>15. ASSUME NEW t \in Threads,
                \/ TakeoverFails(t) \/ TakeoverReleases(t) \/ BeginLocks(t) \/ BeginRejected(t)
                \/ ReleaseCalled(t) \/ ReleaseRejected(t) \/ ReleaseReads(t)
                \/ \E o \in Claims[t] : BeginCheck(t, o)
         PROVE  UNCHANGED <<current, session, desired, lifecycle>>
    BY <1>15 DEF TakeoverFails, TakeoverReleases, BeginLocks, BeginRejected, ReleaseCalled,
       ReleaseRejected, ReleaseReads, BeginCheck
  <1>16. ASSUME \/ SyncReadsCurrent \/ SyncReadsSession \/ ObserveReadsAgain
                \/ \E p \in PlayerStates : ObserveReads(p)
                \/ \E graced \in BOOLEAN : ObserveDecides(graced)
                \/ UNCHANGED vars
         PROVE  UNCHANGED <<current, session, desired, lifecycle>>
    BY <1>16 DEF SyncReadsCurrent, SyncReadsSession, ObserveReadsAgain, ObserveReads,
       ObserveDecides, vars
  <1> QED
    BY <1>1, <1>2, <1>3, <1>6, <1>7, <1>8, <1>9, <1>10, <1>11, <1>12, <1>13, <1>14, <1>15, <1>16
    DEF Next, Begin, Release, Tick, Observe

LEMMA CleanInvariant == Spec => []Inv2
  <1>1. Inv2 /\ [Next]_vars => Inv2'
    BY ControlStep, ClaimStep, SyncStep, CleanStep DEF Inv2
  <1> QED
    BY <1>1, InvInit, PTL DEF Spec

\* A coordinator that protocol_coordinator_finish_stop has stopped holds no
\* lease, no media session and no exclusive mode until it is started again,
\* whatever claims, releases, ticks and observations were in flight.
THEOREM StopIsClean == Spec => []StoppedIsClean
  <1>1. Inv2 => StoppedIsClean
    BY DEF Inv2
  <1> QED
    BY <1>1, CleanInvariant, PTL

\* A claim never takes the lease from a protocol of another mode that has
\* not released it: the check that protocol_coordinator_media_begin makes
\* under the transition mutex is still true when it claims.
THEOREM HandOverExclusive == Spec => ExclusiveHandOver
  <1> DEFINE HandOver ==
          Exclusive /\ current # NoLease /\ current' # NoLease =>
              resource_mode_for_owner(current'.owner) = resource_mode_for_owner(current.owner)
  <1>1. Inv2 /\ [Next]_vars => [HandOver]_vars
    <2> SUFFICES ASSUME Inv2, Next, Exclusive, current # NoLease, current' # NoLease
                 PROVE  resource_mode_for_owner(current'.owner) =
                            resource_mode_for_owner(current.owner)
      OBVIOUS
    <2> USE DEF ownership, media
    <2>1. ASSUME NEW t \in Threads, player_ownership_claim(t)
          PROVE  resource_mode_for_owner(current'.owner) = resource_mode_for_owner(current.owner)
      <3>1. ~exclusive_conflict(current, thread[t].want)
        BY <2>1 DEF Inv2, ClaimOK, player_ownership_claim
      <3>2. current'.owner = thread[t].want
        BY <2>1 DEF player_ownership_claim
      <3> QED
        BY <3>1, <3>2 DEF exclusive_conflict
    <2>2. ASSUME NEW t \in Threads,
                 \/ TakeoverFails(t) \/ TakeoverReleases(t) \/ BeginLocks(t) \/ BeginRejected(t)
                 \/ BeginSession(t) \/ BeginEnds(t) \/ ReleaseCalled(t) \/ ReleaseRejected(t)
                 \/ ReleaseReads(t) \/ ReleaseResets(t) \/ ReleaseEnds(t)
                 \/ \E o \in Claims[t] : BeginCheck(t, o)
                 \/ \E kind \in {"LOAD_REQUESTED", "STOP_REQUESTED"} : SubmitEvent(t, kind)
          PROVE  current' = current
      BY <2>2 DEF TakeoverFails, TakeoverReleases, BeginLocks, BeginRejected, BeginSession,
         BeginEnds, ReleaseCalled, ReleaseRejected, ReleaseReads, ReleaseResets, ReleaseEnds,
         BeginCheck, SubmitEvent
    <2>3. ASSUME \/ Tick \/ Observe \/ \E p \in PlayerStates : ObserveReads(p)
                 \/ protocol_coordinator_begin_start \/ protocol_coordinator_begin_stop
          PROVE  current' = current
      BY <2>3 DEF Tick, SyncReadsCurrent, SyncReadsSession, SyncApplies, SyncSetsMode, Observe,
         ObserveReads, ObserveSubmits, ObserveReadsAgain, ObserveSubmitsActive, ObserveDecides,
         ObserveEnds, protocol_coordinator_begin_start, protocol_coordinator_begin_stop
    <2>4. ASSUME \/ \E t \in Threads : ReleaseLocks(t)
                 \/ ActorReleases \/ protocol_coordinator_finish_stop
          PROVE  current' = NoLease
      BY <2>4 DEF ReleaseLocks, ActorReleases, protocol_coordinator_finish_stop
    <2> QED
      BY <2>1, <2>2, <2>3, <2>4 DEF Next, Begin, Release
  <1> QED
    BY <1>1, CleanInvariant, PTL DEF Spec, ExclusiveHandOver
=============================================================================
