-------------------------- MODULE MediaCoordinator --------------------------
(***************************************************************************)
(* Who may play: the media ownership lease (player/core/ownership.c), the  *)
(* coordinator's media session and desired resource mode                   *)
(* (app/protocol_media_session.c, app/protocol_coordinator.c), and the     *)
(* frame loop that keeps them in step (main.c).                            *)
(*                                                                         *)
(* Three locks are involved and each step takes at most one of the inner   *)
(* two: the transition mutex (held over several steps, variable            *)
(* transition), the ownership mutex (current, next_generation) and the     *)
(* coordinator mutex (session, desired, lifecycle).  The main thread's     *)
(* tick and the actor's RELEASE_LEASE touch the inner state WITHOUT the    *)
(* transition mutex.                                                       *)
(*                                                                         *)
(* A lease's token, which its owner picks afresh for each session, is left *)
(* out: the generation alone tells leases apart.  The services STARTING    *)
(* and RUNNING accept media alike and are one lifecycle.  Of the session,  *)
(* playback and control, which no decision reads, are left out.            *)
(***************************************************************************)
EXTENDS Integers

CONSTANTS
    Threads,            \* threads that claim and release media
    MainThread,         \* the one that also runs the frame loop
    Claims,             \* per thread: the owners it claims for
    Exclusive,          \* config.exclusive_media_resources
    Wrap,               \* number of values of a generation (2^32 in the code)
    FirstGenerations,   \* values of g_next_generation to start from
    MaxAttempts         \* bound on calls that may consume a generation

Owner == {"IPTV", "DLNA", "AIRPLAY_VIDEO", "AIRPLAY_MIRROR"}

\* The signed comparison of generations is meaningful only while leases in
\* use are less than half the number range apart.
ASSUME CoordinatorAssumption ==
    /\ MainThread \in Threads /\ "free" \notin Threads
    /\ Claims \in [Threads -> SUBSET Owner]
    /\ Exclusive \in BOOLEAN
    /\ Wrap \in Nat
    /\ FirstGenerations \subseteq 0 .. Wrap - 1
    /\ MaxAttempts \in Nat /\ MaxAttempts < Wrap \div 2

NoLease == [owner |-> "NONE", generation |-> 0]
Lease == [owner : Owner, generation : 0 .. Wrap - 1] \cup {NoLease}

VARIABLES
    current,          \* g_current
    next_generation,  \* g_next_generation
    attempts,         \* calls of media_begin and stop so far, for the bound
    transition,       \* who holds g_transition_mutex, or "free"
    lifecycle,        \* of the coordinator
    session,          \* snapshot.media_session: lease and lifecycle
    seen_active,      \* playback_seen_active of the session's lease
    desired,          \* snapshot.desired_resource_mode
    thread,           \* per thread: where it is, and its locals
    player            \* main's copy of the player state, while it observes

ownership == <<current, next_generation>>
media == <<session, seen_active>>
vars == <<ownership, attempts, transition, lifecycle, media, desired, thread,
          player>>

Modes == {"HOME", "IPTV_EXCLUSIVE", "DLNA_EXCLUSIVE", "AIRPLAY_EXCLUSIVE"}
SessionLifecycles == {"IDLE", "PREPARING", "LOADING", "ACTIVE", "STOPPING", "FAILED"}
PlayerStates == {"LOADING", "PLAYING", "ERROR", "STOPPED"}

Places == {"idle", "takeover", "begin", "claim", "claimed", "desire",
           "release", "released", "reset", "home",
           "sync", "sync_apply", "sync_mode",
           "observe", "observe_again", "observe_active", "decide", "ended",
           "tick", "stopping"}

TypeOK ==
    /\ current \in Lease
    /\ next_generation \in 0 .. Wrap - 1
    /\ attempts \in 0 .. MaxAttempts
    /\ transition \in Threads \cup {"free"}
    /\ lifecycle \in {"STOPPED", "RUNNING", "STOPPING"}
    /\ session \in [lease : Lease, lifecycle : SessionLifecycles]
    /\ seen_active \in BOOLEAN
    /\ desired \in Modes
    /\ thread \in [Threads -> [at : Places, want : Owner \cup {"NONE"},
                               lease : Lease, target : Lease,
                               then : {"idle", "begin", "tick"}]]
    /\ player \in PlayerStates \cup {"NONE"}

IdleSession == [lease |-> NoLease, lifecycle |-> "IDLE"]
IdleThread == [at |-> "idle", want |-> "NONE", lease |-> NoLease,
               target |-> NoLease, then |-> "idle"]

Init ==
    /\ current = NoLease
    /\ next_generation \in FirstGenerations
    /\ attempts = 0
    /\ transition = "free"
    /\ lifecycle = "STOPPED"
    /\ session = IdleSession /\ seen_active = FALSE
    /\ desired = "HOME"
    /\ thread = [t \in Threads |-> IdleThread]
    /\ player = "NONE"

-----------------------------------------------------------------------------
(* Generations, modes and media session transitions. *)

\* A plausible slip: the counter is wider than the lease's generation.
mutant_generation_after(g) == g + 1

\* next_generation()
generation_after(g) == IF g = Wrap - 1 THEN 1 ELSE g + 1

\* A plausible slip: generations are compared as unsigned numbers.
mutant_generation_newer(candidate, g) == candidate > g

\* (int32_t)(candidate - current) > 0
generation_newer(candidate, g) == (candidate - g) % Wrap \in 1 .. Wrap \div 2 - 1

owner_is_airplay(o) == o \in {"AIRPLAY_VIDEO", "AIRPLAY_MIRROR"}

resource_mode_for_owner(o) ==
    CASE o = "IPTV" -> "IPTV_EXCLUSIVE"
      [] o = "DLNA" -> "DLNA_EXCLUSIVE"
      [] owner_is_airplay(o) -> "AIRPLAY_EXCLUSIVE"
      [] OTHER -> "HOME"

lease_valid(l) == l.owner # "NONE" /\ l.generation # 0

apply_claim(s, l) ==
    IF /\ lease_valid(l)
       /\ \/ s.lease.generation = 0
          \/ generation_newer(l.generation, s.lease.generation)
    THEN [lease |-> l, lifecycle |-> "PREPARING"]
    ELSE s

\* protocol_media_session_transition: events of another lease are stale, and
\* a stopping or failed session only stops, fails or is released.
protocol_media_session_transition(s, kind, l) ==
    LET to(state) == [s EXCEPT !.lifecycle = state]
        stale == ~lease_valid(l) \/ s.lease # l
    IN  IF kind = "CLAIMED" THEN apply_claim(s, l)
        ELSE IF stale THEN s
        ELSE CASE kind = "RELEASED" -> IdleSession
               [] kind \in {"STOP_REQUESTED", "ENDED"} -> to("STOPPING")
               [] kind = "FAILED" -> IF s.lifecycle = "STOPPING" THEN s ELSE to("FAILED")
               [] kind \in {"LOAD_REQUESTED", "ACTIVE"} ->
                      IF s.lifecycle \in {"STOPPING", "FAILED"} THEN s
                      ELSE to(IF kind = "ACTIVE" THEN "ACTIVE" ELSE "LOADING")

\* coordinator_apply_media_event: a new lease, or none, has not played yet.
\* playback_observed_generation always equals the session's generation.
coordinator_apply_media_event(kind, l) ==
    /\ session' = protocol_media_session_transition(session, kind, l)
    /\ seen_active' = (seen_active /\ session'.lease = session.lease)

\* coordinator_set_desired_resource_mode
coordinator_set_desired_resource_mode(mode) ==
    desired' = IF Exclusive THEN mode ELSE "HOME"

coordinator_accepts_media == lifecycle = "RUNNING"

exclusive_conflict(l, o) ==
    /\ Exclusive /\ l # NoLease
    /\ resource_mode_for_owner(l.owner) # resource_mode_for_owner(o)

becomes(t, state) == thread' = [thread EXCEPT ![t] = state]

\* Locals are forgotten at the end of a call; the lease it gave is kept.
goto(t, place) ==
    becomes(t, IF place \in {"idle", "tick"}
               THEN [IdleThread EXCEPT !.at = place, !.lease = thread[t].lease]
               ELSE [thread[t] EXCEPT !.at = place])

at(t) == thread[t].at
target(t) == thread[t].target

-----------------------------------------------------------------------------
(* protocol_coordinator_media_begin *)

\* The checks before the transition mutex; an AirPlay owner in another mode
\* is asked to release first (operations.airplay_release_active_media).
BeginCheck(t, o) ==
    /\ at(t) = "idle"
    /\ coordinator_accepts_media
    /\ attempts < MaxAttempts /\ attempts' = attempts + 1
    /\ becomes(t, [thread[t] EXCEPT
           !.want = o,
           !.target = current,
           !.at = IF exclusive_conflict(current, o) /\ owner_is_airplay(current.owner)
                  THEN "takeover" ELSE "begin"])
    /\ UNCHANGED <<ownership, transition, lifecycle, media, desired, player>>

\* airplay_integration_release_active_media: nothing it recognises as its
\* own, or it stops its player path and releases exactly that lease.
TakeoverFails(t) ==
    /\ at(t) = "takeover"
    /\ goto(t, "idle")
    /\ UNCHANGED <<attempts, ownership, transition, lifecycle, media, desired, player>>

TakeoverReleases(t) ==
    /\ at(t) = "takeover"
    /\ becomes(t, [thread[t] EXCEPT !.at = "release", !.then = "begin"])
    /\ UNCHANGED <<attempts, ownership, transition, lifecycle, media, desired, player>>

\* A plausible slip: only the check made before the mutex is relied on.
mutant_BeginLocks(t) ==
    /\ at(t) = "begin" /\ transition = "free"
    /\ coordinator_accepts_media
    /\ transition' = t
    /\ goto(t, "claim")
    /\ UNCHANGED <<attempts, ownership, lifecycle, media, desired, player>>

BeginLocks(t) ==
    /\ at(t) = "begin" /\ transition = "free"
    /\ coordinator_accepts_media
    /\ ~exclusive_conflict(current, thread[t].want)
    /\ transition' = t
    /\ goto(t, "claim")
    /\ UNCHANGED <<attempts, ownership, lifecycle, media, desired, player>>

BeginRejected(t) ==
    /\ at(t) = "begin" /\ transition = "free"
    /\ ~coordinator_accepts_media \/ exclusive_conflict(current, thread[t].want)
    /\ goto(t, "idle")
    /\ UNCHANGED <<attempts, ownership, transition, lifecycle, media, desired, player>>

player_ownership_claim(t) ==
    /\ at(t) = "claim"
    /\ next_generation' = generation_after(next_generation)
    /\ current' = [owner |-> thread[t].want, generation |-> next_generation']
    /\ becomes(t, [thread[t] EXCEPT !.at = "claimed", !.lease = current'])
    /\ UNCHANGED <<attempts, transition, lifecycle, media, desired, player>>

BeginSession(t) ==
    /\ at(t) = "claimed"
    /\ coordinator_apply_media_event("CLAIMED", thread[t].lease)
    /\ goto(t, "desire")
    /\ UNCHANGED <<attempts, ownership, transition, lifecycle, desired, player>>

BeginEnds(t) ==
    /\ at(t) = "desire"
    /\ coordinator_set_desired_resource_mode(resource_mode_for_owner(thread[t].want))
    /\ transition' = "free"
    /\ goto(t, "idle")
    /\ UNCHANGED <<attempts, ownership, lifecycle, media, player>>

-----------------------------------------------------------------------------
(* protocol_coordinator_media_release, _abort, _release_current *)

ReleaseCalled(t) ==
    /\ at(t) = "idle" /\ thread[t].lease # NoLease
    /\ becomes(t, [thread[t] EXCEPT !.at = "release", !.then = "idle",
                                    !.target = thread[t].lease, !.lease = NoLease])
    /\ UNCHANGED <<attempts, ownership, transition, lifecycle, media, desired, player>>

\* player_ownership_release: the exact lease, or nothing.
ReleaseLocks(t) ==
    /\ at(t) = "release" /\ transition = "free"
    /\ target(t) = current
    /\ current' = NoLease
    /\ transition' = t
    /\ goto(t, "released")
    /\ UNCHANGED <<attempts, next_generation, lifecycle, media, desired, player>>

\* A rejected release of the AirPlay owner rejects the claim that asked.
ReleaseRejected(t) ==
    /\ at(t) = "release" /\ transition = "free"
    /\ target(t) # current
    /\ goto(t, IF thread[t].then = "begin" THEN "idle" ELSE thread[t].then)
    /\ UNCHANGED <<attempts, ownership, transition, lifecycle, media, desired, player>>

\* coordinator_set_active_media(NULL): read the session's lease ...
ReleaseReads(t) ==
    /\ at(t) = "released"
    /\ becomes(t, [thread[t] EXCEPT !.at = "reset", !.target = session.lease])
    /\ UNCHANGED <<attempts, ownership, transition, lifecycle, media, desired, player>>

\* ... and release it under a second lock.
ReleaseResets(t) ==
    /\ at(t) = "reset"
    /\ coordinator_apply_media_event("RELEASED", target(t))
    /\ goto(t, "home")
    /\ UNCHANGED <<attempts, ownership, transition, lifecycle, desired, player>>

ReleaseEnds(t) ==
    /\ at(t) = "home"
    /\ coordinator_set_desired_resource_mode("HOME")
    /\ transition' = "free"
    /\ goto(t, thread[t].then)
    /\ UNCHANGED <<attempts, ownership, lifecycle, media, player>>

\* The actor executes RELEASE_LEASE of the lease in force, on its own thread
\* and without telling the coordinator.
ActorReleases ==
    /\ owner_is_airplay(current.owner)
    /\ current' = NoLease
    /\ UNCHANGED <<attempts, next_generation, transition, lifecycle, media,
                   desired, thread, player>>

\* protocol_coordinator_media_submit_event of a protocol for its lease.
SubmitEvent(t, kind) ==
    /\ at(t) = "idle" /\ thread[t].lease # NoLease
    /\ coordinator_apply_media_event(kind, thread[t].lease)
    /\ UNCHANGED <<attempts, ownership, transition, lifecycle, desired, thread, player>>

-----------------------------------------------------------------------------
(* protocol_coordinator_tick: coordinator_sync_active_media, on main. *)

m == MainThread

SyncReadsCurrent ==
    /\ at(m) \in {"idle", "tick"}
    /\ becomes(m, [thread[m] EXCEPT !.at = "sync", !.target = current])
    /\ UNCHANGED <<attempts, ownership, transition, lifecycle, media, desired, player>>

\* target becomes the lease of the event; want tells which event it is.
SyncReadsSession ==
    /\ at(m) = "sync"
    /\ LET claimed == target(m) # NoLease
       IN  becomes(m, [thread[m] EXCEPT
               !.at = IF session.lease = target(m) THEN "sync_mode" ELSE "sync_apply",
               !.want = target(m).owner,
               !.target = IF claimed THEN @ ELSE session.lease])
    /\ UNCHANGED <<attempts, ownership, transition, lifecycle, media, desired, player>>

SyncApplies ==
    /\ at(m) = "sync_apply"
    /\ coordinator_apply_media_event(
           IF thread[m].want # "NONE" THEN "CLAIMED" ELSE "RELEASED", target(m))
    /\ goto(m, "sync_mode")
    /\ UNCHANGED <<attempts, ownership, transition, lifecycle, desired, player>>

SyncSetsMode ==
    /\ at(m) = "sync_mode"
    /\ coordinator_set_desired_resource_mode(resource_mode_for_owner(thread[m].want))
    /\ goto(m, "idle")
    /\ UNCHANGED <<attempts, ownership, transition, lifecycle, media, player>>

-----------------------------------------------------------------------------
(* protocol_coordinator_observe_player_state and _observe_playback, on main. *)

active(p) == p = "PLAYING"
terminal(p) == p \in {"STOPPED", "ERROR"}

\* A frame observes the player, then ticks.  Without a lease, or without a
\* player, activity is not reported.
ObserveReads(p) ==
    /\ at(m) = "idle"
    /\ player' = IF current = NoLease /\ active(p) THEN "NONE" ELSE p
    /\ becomes(m, [thread[m] EXCEPT !.target = current,
           !.at = IF current # NoLease /\ p # "STOPPED" THEN "observe" ELSE "decide"])
    /\ UNCHANGED <<attempts, ownership, transition, lifecycle, media, desired>>

ObserveSubmits ==
    /\ at(m) = "observe"
    /\ coordinator_apply_media_event(
           CASE player = "LOADING" -> "LOAD_REQUESTED"
             [] player = "PLAYING" -> "ACTIVE"
             [] player = "ERROR" -> "FAILED", target(m))
    /\ goto(m, IF active(player) THEN "observe_again" ELSE "decide")
    /\ UNCHANGED <<attempts, ownership, transition, lifecycle, desired, player>>

\* observe_playback reads the lease again before it reports activity.
ObserveReadsAgain ==
    /\ at(m) = "observe_again"
    /\ becomes(m, [thread[m] EXCEPT !.target = current,
           !.at = IF current # NoLease THEN "observe_active" ELSE "decide"])
    /\ UNCHANGED <<attempts, ownership, transition, lifecycle, media, desired, player>>

ObserveSubmitsActive ==
    /\ at(m) = "observe_active"
    /\ coordinator_apply_media_event("ACTIVE", target(m))
    /\ goto(m, "decide")
    /\ UNCHANGED <<attempts, ownership, transition, lifecycle, desired, player>>

\* The decision under the coordinator mutex.  graced: the resources of the
\* mode have been in place for PROTOCOL_TERMINAL_RELEASE_GRACE_MS.
ObserveDecides(graced) ==
    /\ at(m) = "decide"
    /\ LET tracked == Exclusive /\ session.lease # NoLease
           ends == tracked /\ terminal(player) /\ (seen_active \/ graced)
       IN  /\ seen_active' = (seen_active \/ (tracked /\ active(player)))
           /\ IF ends
              THEN becomes(m, [thread[m] EXCEPT !.at = "ended", !.then = "tick",
                                                !.target = session.lease])
              ELSE goto(m, "tick")
    /\ player' = "NONE"
    /\ UNCHANGED <<attempts, ownership, transition, lifecycle, session, desired>>

\* ENDED, then protocol_coordinator_media_release of the lease decided on.
ObserveEnds ==
    /\ at(m) = "ended"
    /\ coordinator_apply_media_event("ENDED", target(m))
    /\ goto(m, "release")
    /\ UNCHANGED <<attempts, ownership, transition, lifecycle, desired, player>>

-----------------------------------------------------------------------------
(* Start and stop, on main. *)

protocol_coordinator_begin_start ==
    /\ at(m) = "idle" /\ lifecycle = "STOPPED"
    /\ lifecycle' = "RUNNING"
    /\ session' = IdleSession /\ seen_active' = FALSE
    /\ desired' = "HOME"
    /\ UNCHANGED <<attempts, ownership, transition, thread, player>>

protocol_coordinator_begin_stop ==
    /\ at(m) = "idle" /\ lifecycle = "RUNNING"
    /\ attempts < MaxAttempts /\ attempts' = attempts + 1
    /\ lifecycle' = "STOPPING"
    /\ goto(m, "stopping")
    /\ UNCHANGED <<ownership, transition, media, desired, player>>

\* A plausible slip: the lifecycle ends without the transition mutex.
mutant_finish_stop ==
    /\ at(m) = "stopping"
    /\ current' = NoLease
    /\ next_generation' = generation_after(next_generation)
    /\ session' = IdleSession /\ seen_active' = FALSE
    /\ desired' = "HOME"
    /\ lifecycle' = "STOPPED"
    /\ goto(m, "idle")
    /\ UNCHANGED <<attempts, transition, player>>

\* Under the transition mutex; player_ownership_reset takes a generation.
protocol_coordinator_finish_stop ==
    /\ at(m) = "stopping" /\ transition = "free"
    /\ current' = NoLease
    /\ next_generation' = generation_after(next_generation)
    /\ session' = IdleSession /\ seen_active' = FALSE
    /\ desired' = "HOME"
    /\ lifecycle' = "STOPPED"
    /\ goto(m, "idle")
    /\ UNCHANGED <<attempts, transition, player>>

-----------------------------------------------------------------------------
Begin(t) ==
    \/ TakeoverFails(t) \/ TakeoverReleases(t)
    \/ BeginLocks(t) \/ BeginRejected(t)
    \/ player_ownership_claim(t) \/ BeginSession(t) \/ BeginEnds(t)

Release(t) ==
    \/ ReleaseLocks(t) \/ ReleaseRejected(t)
    \/ ReleaseReads(t) \/ ReleaseResets(t) \/ ReleaseEnds(t)

Tick == SyncReadsCurrent \/ SyncReadsSession \/ SyncApplies \/ SyncSetsMode

Observe ==
    \/ ObserveSubmits \/ ObserveReadsAgain \/ ObserveSubmitsActive
    \/ \E graced \in BOOLEAN : ObserveDecides(graced)
    \/ ObserveEnds

Next ==
    \/ \E t \in Threads :
          \/ \E o \in Claims[t] : BeginCheck(t, o)
          \/ Begin(t)
          \/ ReleaseCalled(t)
          \/ Release(t)
          \/ \E kind \in {"LOAD_REQUESTED", "STOP_REQUESTED"} : SubmitEvent(t, kind)
    \/ ActorReleases
    \/ Tick
    \/ \E p \in PlayerStates : ObserveReads(p)
    \/ Observe
    \/ protocol_coordinator_begin_start
    \/ protocol_coordinator_begin_stop
    \/ protocol_coordinator_finish_stop

Spec == Init /\ [][Next]_vars

\* Every thread runs on: calls in progress go on, main's frames follow each
\* other.  Nothing makes a thread begin, release or stop.
Frame == (\E p \in PlayerStates : ObserveReads(p)) \/ Observe \/ Tick
            \/ protocol_coordinator_finish_stop

Fairness ==
    /\ \A t \in Threads : WF_vars(Begin(t) \/ Release(t))
    /\ WF_vars(Frame)

FairSpec == Spec /\ Fairness

-----------------------------------------------------------------------------
(* Properties. *)

\* With exclusive resources the lease passes directly only between owners of
\* the same mode: a claim never takes it from another protocol that has not
\* released it, whatever happened between the first check, the takeover
\* callback and the claim.
ExclusiveHandOver ==
    [][Exclusive /\ current # NoLease /\ current' # NoLease =>
           resource_mode_for_owner(current'.owner) =
               resource_mode_for_owner(current.owner)]_vars

\* A stopped coordinator is clean: no lease, no media session, home resources,
\* however claims, releases and ticks in flight interleave with the stop.
StoppedIsClean ==
    lifecycle = "STOPPED" =>
        /\ current = NoLease
        /\ session = IdleSession
        /\ desired = "HOME"

\* Without the transition mutex main's tick may apply a lease that is no longer
\* in force, or clear one that is; once claims and releases cease, the
\* session and the desired mode agree with the lease in force, also across
\* the wrap of the generation counter.
Agreement ==
    /\ session.lease = current
    /\ desired = IF Exclusive THEN resource_mode_for_owner(current.owner) ELSE "HOME"

Convergence == <>[]Agreement
=============================================================================
