--------------------------- MODULE PlayerShutdown ---------------------------
(***************************************************************************)
(* The application thread (source/main.c) around the media actor: it       *)
(* starts the player suspended, activates it on a later frame, starts the  *)
(* protocols, may leave the frame loop at any frame, and then shuts the    *)
(* player down in phases: stop the protocols, StopAny with a deadline,     *)
(* quiesce, drain, destroy.                                                *)
(***************************************************************************)
EXTENDS MediaActor

CONSTANTS MainThread   \* the application thread: it submits and it stops

StopAny == [kind |-> "STOP_ANY", session |-> "app"]

ASSUME MainAssumption ==
    MainThread \in Submitters \cap Stoppers /\ StopAny \in Commands

VARIABLES
    main,        \* where main() is: boot, frames, leave, stop_any, stop_wait,
                 \* quiesce, drain, drain_forever, view_deinit, deinit, done
    attempted    \* playerActivationAttempted; the protocols run after it

shutdownVars == <<vars, main, attempted>>

Protocols == Submitters \ {MainThread}

ShutdownInit == Init /\ main = "boot" /\ attempted = FALSE

goto(phase) == main' = phase /\ UNCHANGED attempted

-----------------------------------------------------------------------------
(* player_init; without a player the activation counts as attempted. *)

BootStarts ==
    /\ main = "boot" /\ starter # "up"
    /\ StartBegin \/ StartThread
    /\ UNCHANGED <<main, attempted>>

BootFails ==
    /\ main = "boot"
    /\ StartFails
    /\ main' = "frames" /\ attempted' = TRUE

BootReturns ==
    /\ main = "boot"
    /\ StartReturn
    /\ goto("frames")

-----------------------------------------------------------------------------
(* The frame loop. *)

\* A plausible slip: the attempt is recorded and player_activate not called.
mutant_FrameActivates ==
    /\ main = "frames" /\ ~attempted
    /\ ready
    /\ attempted' = TRUE /\ UNCHANGED <<vars, main>>

FrameActivates ==
    /\ main = "frames" /\ ~attempted
    /\ ready
    /\ Activate
    /\ attempted' = TRUE /\ UNCHANGED main

FrameGivesUp ==
    /\ main = "frames" /\ ~attempted
    /\ ~ready /\ initialization_failed
    /\ attempted' = TRUE /\ UNCHANGED <<vars, main>>

\* The + button, or appletMainLoop() ending.
FrameLeaves ==
    /\ main = "frames"
    /\ goto("leave")
    /\ UNCHANGED vars

\* Protocol threads exist from the coordinator's start, after the activation
\* attempt, to the end of its stop.  None of them may stop everything
\* (player_command_request_valid); the last id is kept for StopAny.
ProtocolSubmits(s) ==
    /\ attempted /\ main \in {"frames", "leave"}
    /\ next_command_id < MaxCommands
    /\ \E c \in {x \in Commands : x.kind # "STOP_ANY"} :
          SubmitCoalesced(s, c) \/ SubmitAsync(s, c) \/ SubmitWait(s, c, TRUE)
    /\ UNCHANGED <<main, attempted>>

-----------------------------------------------------------------------------
(* The shutdown sequence. *)

\* protocol_coordinator_stop joins the protocol threads.
ProtocolsStopped ==
    /\ main = "leave"
    /\ \A s \in Protocols : waits[s] = 0
    /\ goto(IF starter = "up" THEN "stop_any" ELSE "done")
    /\ UNCHANGED vars

StopAnySubmitted ==
    /\ main = "stop_any"
    /\ SubmitWait(MainThread, StopAny, TRUE)
    /\ goto("stop_wait")

StopAnyRefused ==
    /\ main = "stop_any"
    /\ ~(running /\ ~stopping /\ accepting) \/ ~queue_has_room("STOP_ANY")
    /\ goto("quiesce")
    /\ UNCHANGED vars

StopAnyReturns ==
    /\ main = "stop_wait"
    /\ WaitCompleted(MainThread) \/ WaitTimeout(MainThread)
    /\ goto("quiesce")

MainQuiesces ==
    /\ main = "quiesce"
    /\ Quiesce
    /\ goto("drain")

\* player_wait_idle, first with a deadline and then without.
MainDrained ==
    /\ main \in {"drain", "drain_forever"}
    /\ WaitIdle
    /\ goto("view_deinit")

\* A plausible slip: the stalled drain is logged and shutdown goes on.
mutant_DrainTimesOut ==
    /\ main = "drain"
    /\ ~(queue = << >> /\ current_command_id = 0)
    /\ goto("view_deinit")
    /\ UNCHANGED vars

DrainTimesOut ==
    /\ main = "drain"
    /\ ~(queue = << >> /\ current_command_id = 0)
    /\ goto("drain_forever")
    /\ UNCHANGED vars

\* player_view_deinit releases the render resources, then player_deinit.
MainDetaches ==
    /\ main = "view_deinit"
    /\ StopCalled(MainThread)
    /\ goto("deinit")

MainDeinits ==
    /\ main = "deinit"
    /\ \/ StopBegins(MainThread) /\ goto("deinit")
       \/ StopJoins(MainThread) /\ goto("done")

-----------------------------------------------------------------------------
PlayerWorker ==
    /\ WorkerStep \/ \E valid \in BOOLEAN : WorkerValidates(valid)
    /\ UNCHANGED <<main, attempted>>

ProtocolReturns(s) ==
    /\ WaitCompleted(s) \/ WaitTimeout(s)
    /\ UNCHANGED <<main, attempted>>

MainShutsDown ==
    \/ ProtocolsStopped
    \/ StopAnySubmitted \/ StopAnyRefused \/ StopAnyReturns
    \/ MainQuiesces \/ MainDrained \/ DrainTimesOut
    \/ MainDetaches \/ MainDeinits

ShutdownNext ==
    \/ BootStarts \/ BootFails \/ BootReturns
    \/ FrameActivates \/ FrameGivesUp \/ FrameLeaves
    \/ MainShutsDown
    \/ PlayerWorker
    \/ \E s \in Protocols : ProtocolSubmits(s) \/ ProtocolReturns(s)

\* main() and the worker run; backend calls return; deadlines pass; the frame
\* loop may go on for ever.
ShutdownSpec ==
    /\ ShutdownInit /\ [][ShutdownNext]_shutdownVars
    /\ WF_shutdownVars(MainShutsDown)
    /\ WF_shutdownVars(PlayerWorker)
    /\ \A s \in Protocols : WF_shutdownVars(ProtocolReturns(s))

-----------------------------------------------------------------------------
(* Properties. *)

\* The render resources are released (player_view_deinit) and the player is
\* destroyed only when no command is queued or running in the backend, and
\* nobody waits for one, even when StopAny timed out or was refused.
DetachOnlyWhenDrained ==
    main \in {"view_deinit", "deinit", "done"} =>
        /\ queue = << >> /\ worker \notin {"validate", "execute"}
        /\ \A i \in Ids : request[i].outcome # "pending"
        /\ \A s \in Submitters : waits[s] = 0

\* Once the activation was attempted (made, or given up because the backend
\* failed), leaving the frame loop ends in a destroyed player: neither the
\* deadline of StopAny nor the drain without one hangs.
ActivatedShutdownCompletes ==
    (main = "leave" /\ attempted) ~> (main = "done" /\ worker \in {"none", "exited"})

\* docs/threading-design.md, Shutdown Phases: "3. QUIESCE_AND_DRAIN: reject new
\* commands and wait until the actor has no queued or active command. ... 5.
\* DESTROY_PLAYER: actor finalizes the backend on its own thread and exits."
\* Leaving the frame loop at any frame ends there.
ShutdownCompletes == main = "leave" ~> main = "done"
=============================================================================
