---------------------------- MODULE PlayerSession ----------------------------
(***************************************************************************)
(* The player front end (source/player/core/session.c) over the media      *)
(* actor and the media ownership lease (source/player/core/ownership.c):   *)
(* protocols claim the lease, submit commands that carry it, lose it to    *)
(* another protocol or release it, while the actor works through its queue.*)
(*                                                                         *)
(* The n-th claim creates lease n: owner, token and generation are one     *)
(* number, and generations do not wrap within MaxClaims claims.  Lease 0   *)
(* is "no lease": the producers APP and UI.  The lease lock, the actor     *)
(* lock and the backend call are three separate steps, as in the code.     *)
(***************************************************************************)
EXTENDS MediaActor

CONSTANTS
    MaxClaims   \* bound on the number of claims

ASSUME SessionAssumption ==
    MaxClaims \in Nat /\ Sessions = 0 .. MaxClaims

VARIABLES
    current,    \* g_current: the lease in force, 0 when none
    claims,     \* g_next_generation: the last lease handed out
    lease,      \* per submitter: the lease it was given, 0 when none
    checked,    \* per submitter: the command it found valid and will enqueue
    media,      \* the lease whose media the backend has open
    served      \* lease of the last command executed with one

sessionVars == <<current, claims, lease, checked, media, served>>
allVars == <<vars, sessionVars>>

SessionTypeOK ==
    /\ claims \in 0 .. MaxClaims
    /\ current \in 0 .. claims
    /\ lease \in [Submitters -> 0 .. claims]
    /\ checked \in [Submitters -> Command \cup {NoCommand}]
    /\ media \in 0 .. claims
    /\ served \in 0 .. claims

SessionInit ==
    /\ Init
    /\ current = 0 /\ claims = 0
    /\ lease = [s \in Submitters |-> 0]
    /\ checked = [s \in Submitters |-> NoCommand]
    /\ media = 0 /\ served = 0

-----------------------------------------------------------------------------
(* The lease: player_ownership_claim, _validate, _release. *)

\* A plausible slip: the generation counter is not advanced.
mutant_player_ownership_claim(s) ==
    /\ starter = "up" /\ claims < MaxClaims
    /\ waits[s] = 0 /\ checked[s] = NoCommand
    /\ current' = claims + 1
    /\ lease' = [lease EXCEPT ![s] = claims + 1]
    /\ UNCHANGED <<vars, claims, checked, media, served>>

player_ownership_claim(s) ==
    /\ starter = "up" /\ claims < MaxClaims
    /\ waits[s] = 0 /\ checked[s] = NoCommand
    /\ claims' = claims + 1
    /\ current' = claims + 1
    /\ lease' = [lease EXCEPT ![s] = claims + 1]
    /\ UNCHANGED <<vars, checked, media, served>>

player_ownership_validate(l) == l # 0 /\ l = current

\* protocol_coordinator_media_release of the caller's own lease.
player_ownership_release(s) ==
    /\ lease[s] # 0 /\ lease[s] = current
    /\ waits[s] = 0 /\ checked[s] = NoCommand
    /\ current' = 0
    /\ UNCHANGED <<vars, claims, lease, checked, media, served>>

-----------------------------------------------------------------------------
(* player_submit_command *)

\* A source with an owner must show that owner's lease and cannot stop
\* everything; APP and UI carry no lease.
player_command_request_valid(s, c) ==
    \/ c.session = 0
    \/ c.session = lease[s] /\ c.kind # "STOP_ANY"

\* The lease is validated before the command is offered to the actor ...
PlayerSubmitCheck(s, c) ==
    /\ CanSubmit(s) /\ checked[s] = NoCommand
    /\ player_command_request_valid(s, c)
    /\ c.session # 0 => player_ownership_validate(c.session)
    /\ checked' = [checked EXCEPT ![s] = c]
    /\ UNCHANGED <<vars, current, claims, lease, media, served>>

\* ... and may change before it is enqueued; wait: player_submit_command_wait.
PlayerSubmitEnqueue(s) ==
    LET c == checked[s]
    IN  /\ c # NoCommand
        /\ \/ SubmitCoalesced(s, c)
           \/ SubmitAsync(s, c)
           \/ SubmitWait(s, c, TRUE)
        /\ checked' = [checked EXCEPT ![s] = NoCommand]
        /\ UNCHANGED <<current, claims, lease, media, served>>

\* NOT_RUNNING, SHUTTING_DOWN or QUEUE_FULL.
PlayerSubmitRefused(s) ==
    LET c == checked[s]
    IN  /\ c # NoCommand
        /\ ~SubmitAllowed(s) \/ (~coalesces(c) /\ ~queue_has_room(c.kind))
        /\ checked' = [checked EXCEPT ![s] = NoCommand]
        /\ UNCHANGED <<vars, current, claims, lease, media, served>>

-----------------------------------------------------------------------------
(* The actor's callbacks. *)

command_in_hand ==
    IF current_command_id = 0 THEN NoCommand
                              ELSE request[current_command_id].command

\* A plausible slip: the lease is validated only when the command is accepted.
mutant_player_validate_actor_command(c) == TRUE

\* APP and UI are always valid.
player_validate_actor_command(c) ==
    c.session = 0 \/ player_ownership_validate(c.session)

PlayerValidates ==
    /\ WorkerValidates(player_validate_actor_command(command_in_hand))
    /\ UNCHANGED sessionVars

serves(l) == IF l = 0 THEN served ELSE l

\* player_execute_actor_command of every kind but RELEASE_LEASE.  An open that
\* fails failed to set the media, or to play what it had set.
PlayerExecutes(ok) ==
    /\ worker = "execute" /\ command_in_hand.kind # "RELEASE_LEASE"
    /\ WorkerExecutes(ok)
    /\ media' \in
           CASE command_in_hand.kind = "OPEN" ->
                    {command_in_hand.session} \cup (IF ok THEN {} ELSE {media})
             [] ok /\ command_in_hand.kind \in {"STOP", "STOP_ANY", "QUIESCE"} -> {0}
             [] OTHER -> {media}
    /\ served' = serves(command_in_hand.session)
    /\ UNCHANGED <<current, claims, lease, checked>>

\* A plausible slip: whoever holds the lease loses it.
mutant_PlayerExecutesRelease ==
    /\ command_in_hand.kind = "RELEASE_LEASE"
    /\ WorkerExecutes(TRUE)
    /\ current' = 0
    /\ served' = serves(command_in_hand.session)
    /\ UNCHANGED <<claims, lease, checked, media>>

\* RELEASE_LEASE gives up the lease it carries, if that is still in force.
PlayerExecutesRelease ==
    /\ command_in_hand.kind = "RELEASE_LEASE"
    /\ LET held == command_in_hand.session = current
       IN  /\ WorkerExecutes(held)
           /\ current' = IF held THEN 0 ELSE current
    /\ served' = serves(command_in_hand.session)
    /\ UNCHANGED <<claims, lease, checked, media>>

\* The actor's other steps while protocols run; main stops the protocols
\* before it quiesces and stops the player (PlayerShutdown).
ActorOther ==
    /\ \/ Start
       \/ WorkerInitialized \/ WorkerInitializeFails
       \/ WorkerLeavesBurst \/ WorkerPops \/ WorkerPumps
       \/ Activate
       \/ \E s \in Submitters : WaitCompleted(s) \/ WaitTimeout(s)
    /\ UNCHANGED sessionVars

SessionNext ==
    \/ ActorOther
    \/ PlayerValidates
    \/ PlayerExecutesRelease
    \/ \E ok \in BOOLEAN : PlayerExecutes(ok)
    \/ \E s \in Submitters :
          \/ player_ownership_claim(s)
          \/ player_ownership_release(s)
          \/ \E c \in Commands : PlayerSubmitCheck(s, c)
          \/ PlayerSubmitEnqueue(s)
          \/ PlayerSubmitRefused(s)

SessionSpec == SessionInit /\ [][SessionNext]_allVars

-----------------------------------------------------------------------------
(* Properties. *)

\* A takeover is final: once a command of a lease was executed, no command of
\* an older lease is executed, however long it sat in the queue and whatever
\* its submitter believed when it was accepted.
TakeoverIsFinal ==
    [][served' # served => served' > served]_allVars

\* A command of a lease cannot disturb media that a later lease opened, not
\* even a command that was already past its validation at the takeover: the
\* stop, or the open, of a replaced session hits its own media or older.
SuccessorMediaSafe ==
    [][media' # media =>
           command_in_hand.session = 0 \/ command_in_hand.session >= media]_allVars

\* RELEASE_LEASE, executed by the actor long after it was submitted, gives up
\* only the lease it carries: it leaves the successor's lease in force.
ReleaseSparesSuccessor ==
    [][worker = "execute" /\ worker' = "poll" /\ current' # current =>
           command_in_hand.session = current]_allVars

\* docs/threading-design.md, invariant 6: "A stale session cannot mutate the
\* currently active session."  While a lease is in force no command of an
\* earlier one changes what the player has open.
StaleCannotMutate ==
    [][media' # media /\ current # 0 =>
           command_in_hand.session \in {0, current}]_allVars
=============================================================================
