----------------------------- MODULE Discovery -----------------------------
(***************************************************************************)
(* The composed AirPlay receiver (receiver.c) and its mDNS responder       *)
(* (discovery/mdns.c).                                                     *)
(*                                                                         *)
(* airplay_receiver_start builds the parts one after the other, each of    *)
(* which may fail, and undoes them through airplay_receiver_stop.  One     *)
(* control thread at a time runs either (ResourceCoordinator's OneDriver). *)
(* The responder is a thread of its own: it announces the service, answers *)
(* queries, renames the service when another host has its name, sleeps     *)
(* while the main thread suspends discovery and announces again when it is *)
(* resumed.  Both services, AirPlay and RAOP, are announced together and   *)
(* stand for one here; a record is its name, the conflict suffix.          *)
(***************************************************************************)
EXTENDS Naturals, Sequences, FiniteSets

CONSTANTS
    MaxSuffix,          \* AIRPLAY_MDNS_CONFLICT_SUFFIX_MAX
    MaxReceiverStarts   \* bound: calls of airplay_receiver_start

ASSUME DiscoveryAssumption == /\ MaxSuffix \in Nat \ {0}
                              /\ MaxReceiverStarts \in Nat \ {0}

VARIABLES
    composed,   \* g_receiver and the thread that starts or stops it
    mdns,       \* g_mdns and its suspended flag
    responder,  \* the mDNS thread
    air         \* what the network knows, and the open mDNS descriptors

DiscoveryVars == <<composed, mdns, responder, air>>

\* The stages of airplay_receiver_start before the optional mDNS one, and the
\* order airplay_receiver_stop takes the parts down in.
Stages == <<"pairing", "txt", "handlers", "sessions", "server", "lifecycle">>
StopOrder == <<"server", "sessions", "lifecycle", "handlers", "pairing">>
Parts == {StopOrder[i] : i \in DOMAIN StopOrder}

Stopped == [started |-> FALSE, running |-> FALSE, suspended |-> FALSE,
            socket_fd |-> 0, suffix |-> 0]

DiscoveryInit ==
    /\ composed = [at |-> "idle", step |-> 1, parts |-> {}, discovery_started |-> FALSE, starts |-> 0]
    /\ mdns = Stopped
    /\ responder = [at |-> "none", fd |-> 0, was_suspended |-> FALSE]
    /\ air = [known |-> 0, lost |-> FALSE, open |-> {}]

-----------------------------------------------------------------------------
\* send_announcement with the service's TTL: nothing is sent without a socket,
\* and either datagram may fail.
announces(name) ==
    \E sent \in {TRUE, FALSE} :
        /\ sent => mdns.socket_fd # 0
        /\ air' = [air EXCEPT !.known = IF sent THEN name ELSE @, !.lost = ~sent]

\* airplay_receiver_start.
receiver_start ==
    /\ composed.at = "idle"
    /\ composed.starts < MaxReceiverStarts
    /\ composed' = [composed EXCEPT !.at = "start", !.step = 1, !.starts = @ + 1]
    /\ UNCHANGED <<mdns, responder, air>>

\* What a stage that succeeds leaves behind; the TXT record is a local.
built == composed.parts \union ({Stages[composed.step]} \intersect Parts)

\* One stage.  A failed pairing stage may have created the service already.
receiver_stage ==
    /\ composed.at = "start"
    /\ composed.step <= Len(Stages)
    /\ \/ composed' = [composed EXCEPT !.parts = built, !.step = @ + 1]
       \/ composed' = [composed EXCEPT !.at = "stop"]
       \/ Stages[composed.step] = "pairing" /\ composed' = [composed EXCEPT !.parts = built, !.at = "stop"]
    /\ UNCHANGED <<mdns, responder, air>>

receiver_without_discovery ==
    /\ composed.at = "start"
    /\ composed.step > Len(Stages)
    /\ composed' = [composed EXCEPT !.at = "running"]
    /\ UNCHANGED <<mdns, responder, air>>

\* airplay_mdns_start up to its socket; the descriptor is closed when binding
\* it or joining the group fails.
mdns_socket ==
    /\ composed.at = "start"
    /\ composed.step > Len(Stages)
    /\ \/ /\ mdns' = [started |-> TRUE, running |-> TRUE, suspended |-> FALSE,
                      socket_fd |-> composed.starts, suffix |-> 1]
          /\ air' = [air EXCEPT !.open = @ \union {composed.starts}, !.lost = FALSE]
          /\ composed' = [composed EXCEPT !.at = "mdns"]
       \/ /\ mdns' = [Stopped EXCEPT !.suffix = 1]
          /\ composed' = [composed EXCEPT !.at = "stop"]
          /\ UNCHANGED air
    /\ UNCHANGED responder

\* The rest of it: the thread, or the socket closed again.
mdns_thread_start ==
    /\ composed.at = "mdns"
    /\ \/ /\ responder' = [at |-> "enter", fd |-> 0, was_suspended |-> FALSE]
          /\ composed' = [composed EXCEPT !.at = "running", !.discovery_started = TRUE]
          /\ UNCHANGED <<mdns, air>>
       \/ /\ mdns' = [Stopped EXCEPT !.suffix = 1]
          /\ air' = [air EXCEPT !.open = @ \ {mdns.socket_fd}]
          /\ composed' = [composed EXCEPT !.at = "stop"]
          /\ UNCHANGED responder

-----------------------------------------------------------------------------
\* airplay_receiver_stop, called from outside.
receiver_stop ==
    /\ composed.at = "running"
    /\ composed' = [composed EXCEPT !.at = "stop"]
    /\ UNCHANGED <<mdns, responder, air>>

\* airplay_mdns_stop: the goodbye (TTL 0) while the responder still runs.
mdns_goodbye ==
    /\ composed.at = "stop"
    /\ composed.discovery_started
    /\ composed' = [composed EXCEPT !.at = "flags"]
    /\ air' \in {air, [air EXCEPT !.known = 0]}
    /\ UNCHANGED <<mdns, responder>>

\* Mutant: the descriptor is closed before the thread is joined.
mutant_mdns_stop_flags ==
    /\ composed.at = "flags"
    /\ mdns' = [mdns EXCEPT !.running = FALSE, !.suspended = FALSE, !.socket_fd = 0]
    /\ composed' = [composed EXCEPT !.at = "join"]
    /\ air' = [air EXCEPT !.open = {}]
    /\ UNCHANGED responder

\* Then the flags, and the socket is taken and shut down.
mdns_stop_flags ==
    /\ composed.at = "flags"
    /\ mdns' = [mdns EXCEPT !.running = FALSE, !.suspended = FALSE, !.socket_fd = 0]
    /\ composed' = [composed EXCEPT !.at = "join"]
    /\ UNCHANGED <<responder, air>>

\* The join, and only then the close.
mdns_join ==
    /\ composed.at = "join"
    /\ responder.at = "done"
    /\ responder' = [responder EXCEPT !.at = "none"]
    /\ air' = [air EXCEPT !.open = {}]
    /\ mdns' = Stopped
    /\ composed' = [composed EXCEPT !.at = "stop", !.discovery_started = FALSE]

\* The other parts, in StopOrder, those never built included.
receiver_stop_part ==
    /\ composed.at = "stop"
    /\ ~composed.discovery_started
    /\ composed.parts # {}
    /\ LET first == CHOOSE i \in DOMAIN StopOrder :
                       /\ StopOrder[i] \in composed.parts
                       /\ \A j \in 1 .. i - 1 : StopOrder[j] \notin composed.parts
       IN composed' = [composed EXCEPT !.parts = @ \ {StopOrder[first]}]
    /\ UNCHANGED <<mdns, responder, air>>

receiver_stopped ==
    /\ composed.at = "stop"
    /\ ~composed.discovery_started
    /\ composed.parts = {}
    /\ composed' = [composed EXCEPT !.at = "idle"]
    /\ UNCHANGED <<mdns, responder, air>>

\* airplay_mdns_set_suspended, by the coordinator on the main thread.
mdns_set_suspended ==
    /\ mdns' = [mdns EXCEPT !.suspended = ~@]
    /\ UNCHANGED <<composed, responder, air>>

-----------------------------------------------------------------------------
\* mdns_thread: the first announcement.
responder_enters ==
    /\ responder.at = "enter"
    /\ announces(mdns.suffix)
    /\ responder' = [responder EXCEPT !.at = "loop"]
    /\ UNCHANGED <<composed, mdns>>

\* The head of the loop: leave, sleep, or wait for a packet; after a sleep
\* the service is announced again.
responder_leaves ==
    /\ responder.at = "loop"
    /\ ~mdns.running \/ mdns.socket_fd = 0
    /\ responder' = [responder EXCEPT !.at = "done"]
    /\ UNCHANGED <<composed, mdns, air>>

awake == /\ responder.at = "loop"
         /\ mdns.running /\ mdns.socket_fd # 0

responder_sleeps ==
    /\ awake
    /\ mdns.suspended
    /\ responder' = [responder EXCEPT !.was_suspended = TRUE]
    /\ UNCHANGED <<composed, mdns, air>>

responder_waits ==
    /\ awake
    /\ ~mdns.suspended
    /\ responder' = [at |-> "select", fd |-> mdns.socket_fd, was_suspended |-> FALSE]
    /\ IF responder.was_suspended THEN announces(mdns.suffix) ELSE UNCHANGED air
    /\ UNCHANGED <<composed, mdns>>

\* select fails for good, or returns after the flag was cleared.
responder_ends ==
    /\ responder.at = "select"
    /\ responder' = [responder EXCEPT !.at = "done", !.fd = 0]
    /\ air' = [air EXCEPT !.lost = TRUE]
    /\ UNCHANGED <<composed, mdns>>

\* Mutant: the last suffix is passed by one.
mutant_handle_conflict ==
    /\ responder.at = "select"
    /\ mdns.running
    /\ mdns.suffix <= MaxSuffix
    /\ mdns' = [mdns EXCEPT !.suffix = @ + 1]
    /\ announces(mdns.suffix + 1)
    /\ responder' = [responder EXCEPT !.at = "loop", !.fd = 0]
    /\ UNCHANGED composed

\* handle_packet of a packet that claims the service's name.
handle_conflict ==
    /\ responder.at = "select"
    /\ mdns.running
    /\ mdns.suffix < MaxSuffix
    /\ mdns' = [mdns EXCEPT !.suffix = @ + 1]
    /\ announces(mdns.suffix + 1)
    /\ responder' = [responder EXCEPT !.at = "loop", !.fd = 0]
    /\ UNCHANGED composed

\* Any other packet, or none: queries are answered with the current record,
\* and every interval it is announced.
responder_serves ==
    /\ responder.at = "select"
    /\ mdns.running
    /\ air' = air \/ announces(mdns.suffix)
    /\ responder' = [responder EXCEPT !.at = "loop", !.fd = 0]
    /\ UNCHANGED <<composed, mdns>>

\* The record outlives the announcement interval, so that it only expires
\* while the responder sleeps.
record_expires ==
    /\ responder.at = "loop"
    /\ responder.was_suspended
    /\ air.known # 0
    /\ air' = [air EXCEPT !.known = 0]
    /\ UNCHANGED <<composed, mdns, responder>>

DiscoveryNext ==
    \/ receiver_start \/ receiver_stage \/ receiver_without_discovery
    \/ mdns_socket \/ mdns_thread_start
    \/ receiver_stop \/ mdns_goodbye \/ mdns_stop_flags \/ mdns_join
    \/ receiver_stop_part \/ receiver_stopped \/ mdns_set_suspended
    \/ responder_enters \/ responder_leaves \/ responder_sleeps \/ responder_waits
    \/ responder_ends \/ handle_conflict \/ responder_serves \/ record_expires

DiscoverySpec == DiscoveryInit /\ [][DiscoveryNext]_DiscoveryVars

-----------------------------------------------------------------------------
DiscoveryTypeOK ==
    /\ composed \in [at : {"idle", "start", "mdns", "running", "stop", "flags", "join"},
                     step : 1 .. Len(Stages) + 1, parts : SUBSET Parts,
                     discovery_started : BOOLEAN, starts : 0 .. MaxReceiverStarts]
    /\ mdns \in [started : BOOLEAN, running : BOOLEAN, suspended : BOOLEAN,
                 socket_fd : 0 .. MaxReceiverStarts, suffix : 0 .. MaxSuffix]
    /\ responder \in [at : {"none", "enter", "loop", "select", "done"},
                      fd : 0 .. MaxReceiverStarts, was_suspended : BOOLEAN]
    /\ air \in [known : 0 .. MaxSuffix, lost : BOOLEAN, open : SUBSET (1 .. MaxReceiverStarts)]

\* The responder never waits on a closed descriptor and never outlives the
\* server it announces; the server's threads have every part they call into;
\* a receiver that stopped, or failed to start at any stage, leaves no part,
\* descriptor or thread; and whenever the responder waits for packets the
\* network has its current name, unless a send failed: after a rename and
\* after a suspension it was announced anew (receiver.c:386-417,
\* mdns.c:563-716, 936-966).
DiscoverySettles ==
    /\ responder.at = "select" => responder.fd \in air.open
    /\ responder.at # "none" => "server" \in composed.parts
    /\ "server" \in composed.parts => {"pairing", "handlers", "sessions"} \subseteq composed.parts
    /\ composed.at = "idle" =>
          /\ composed.parts = {} /\ air.open = {} /\ responder.at = "none" /\ ~mdns.started
    /\ composed.at = "running" /\ responder.at = "select" =>
          air.known = mdns.suffix \/ air.lost
=============================================================================
