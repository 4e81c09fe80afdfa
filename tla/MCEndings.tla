------------------------------ MODULE MCEndings ------------------------------
(* Small instances of the components whose threads wait for each other when  *)
(* they end: the player's shutdown (main and one protocol thread, a queue    *)
(* with one ordinary and one reserved slot), the media actor by itself (one  *)
(* submitter, two threads that stop it, two commands), the stream bridge and *)
(* the log.  A behaviour picks one of them at the start.                     *)
EXTENDS PlayerShutdown, StreamBridge, Log

CONSTANTS main_thread, protocol, other

VARIABLE part   \* the component this behaviour is one of

MCSubmitters == {main_thread, protocol}
MCStoppers == {main_thread, other}
MCSessions == {"app", "cast"}
MCCommands == {[kind |-> "OPEN", session |-> "cast"],
               [kind |-> "SEEK_MS", session |-> "cast"],
               [kind |-> "RELEASE_LEASE", session |-> "cast"],
               StopAny}
MCActorCommands == {[kind |-> "SEEK_MS", session |-> "cast"], StopAny}
MCPackets == {<<1>>, <<2>>, <<1, 2>>}

\* The actor by itself, on the variables of the shutdown.
Actor == INSTANCE MediaActor WITH Submitters <- {protocol}, Commands <- MCActorCommands,
                                  MaxCommands <- 2

MCInit ==
    /\ part \in {"shutdown", "actor", "bridge", "log"}
    /\ IF part = "actor" THEN Actor!Init /\ main = "boot" /\ attempted = FALSE ELSE ShutdownInit
    /\ BridgeInit /\ LogInit
    /\ part # "bridge" => bridge.profile = "AUDIO_ONLY"

ShutdownRuns == ShutdownNext /\ UNCHANGED <<BridgeVars, LogVars>>
ActorRuns == Actor!Next /\ UNCHANGED <<main, attempted, BridgeVars, LogVars>>
BridgeRuns == BridgeNext /\ UNCHANGED <<shutdownVars, LogVars>>
LogRuns == LogNext /\ UNCHANGED <<shutdownVars, BridgeVars>>

MCNext ==
    /\ \/ part = "shutdown" /\ ShutdownRuns
       \/ part = "actor" /\ ActorRuns
       \/ part = "bridge" /\ BridgeRuns
       \/ part = "log" /\ LogRuns
    /\ UNCHANGED part

\* The fairness of ShutdownSpec, of MediaActor, BridgeFairness and LogFairness,
\* each for the component that runs.
MCFairness ==
    /\ WF_shutdownVars(part = "shutdown" /\ MainShutsDown)
    /\ WF_shutdownVars(part = "shutdown" /\ PlayerWorker)
    /\ \A s \in Protocols : WF_shutdownVars(part = "shutdown" /\ ProtocolReturns(s))
    /\ WF_vars(part = "actor" /\ Actor!Worker)
    /\ WF_vars(part = "actor" /\ Actor!Activate)
    /\ WF_vars(part = "actor" /\ Actor!WaitCompleted(protocol))
    /\ WF_BridgeVars(part = "bridge" /\ BridgeThreads)
    /\ WF_BridgeVars(part = "bridge" /\ \E output_size \in 1 .. MaxReadSize : read_returns(output_size))
    /\ WF_LogVars(part = "log" /\ Mover)
    /\ WF_LogVars(part = "log" /\ log_shutdown_ends)

MCSpec == MCInit /\ [][MCNext]_<<part, shutdownVars, BridgeVars, LogVars>> /\ MCFairness

\* Every submission that waits in actor_submit returns, with or without a
\* deadline: executed, refused as stale, timed out or rejected by a stop.
SubmissionsReturn == part = "actor" => Actor!WaitersReturn
=============================================================================
