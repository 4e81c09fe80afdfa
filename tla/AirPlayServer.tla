--------------------------- MODULE AirPlayServer ---------------------------
(***************************************************************************)
(* The control server of AirPlay (airplay/server.c): a listener thread,    *)
(* one thread per accepted connection in a slot of one of two pools, and   *)
(* the thread that starts and stops the server.  File descriptors are      *)
(* numbers the kernel hands out again as soon as they are closed, so a     *)
(* number held too long names somebody else's connection; a connection is  *)
(* identified by its serial, which the program never sees.                 *)
(*                                                                         *)
(* Parsing and the routes are other modules' subject: a request is served, *)
(* and its answer may ask for a reverse connection or for the end.         *)
(***************************************************************************)
EXTENDS Integers, FiniteSets

CONSTANTS
    ControlSlots,      \* AIRPLAY_SERVER_MAX_CONTROL_CLIENTS of them
    LocalSlots,        \* AIRPLAY_SERVER_MAX_LOCAL_MEDIA_CLIENTS of them
    Descriptors,       \* the kernel's file descriptors
    LogicalIds,        \* logical_session_id of the reverse connections
    MaxSerial          \* bound on the sockets ever opened

ASSUME ServerAssumption ==
    /\ ControlSlots \cap LocalSlots = {}
    /\ 0 \notin LogicalIds /\ Descriptors \subseteq Nat /\ MaxSerial \in Nat

Slots == ControlSlots \cup LocalSlots
Closed == -1       \* no descriptor

VARIABLES
    server,     \* running, listener_started, listen_socket
    slots,      \* clients[]
    kernel,     \* descriptor -> serial of the socket it names, 0 when free
    serial,     \* the last socket opened
    listener,   \* the listener thread
    client_threads,    \* the client threads, by slot
    stopper,    \* the thread in airplay_server_stop, and what it has taken
    sessions    \* serial -> how often its session began and was closed

ServerVars == <<server, slots, kernel, serial, listener, client_threads, stopper, sessions>>

FreeSlot == [thread_started |-> FALSE, active |-> FALSE, finished |-> FALSE,
             socket_fd |-> Closed, reverse_session_id |-> 0]
NoClient == [at |-> "none", fd |-> Closed, serial |-> 0, session |-> FALSE]
AtRest == [at |-> "none", fd |-> Closed, slot |-> "none"]
NotStopping == [at |-> "idle", listen |-> Closed, taken |-> {}]

ServerTypeOK ==
    /\ server \in [running : BOOLEAN, listener_started : BOOLEAN,
                   listen_socket : Descriptors \cup {Closed}]
    /\ slots \in [Slots -> [thread_started : BOOLEAN, active : BOOLEAN, finished : BOOLEAN,
                            socket_fd : Descriptors \cup {Closed},
                            reverse_session_id : LogicalIds \cup {0}]]
    /\ kernel \in [Descriptors -> 0 .. MaxSerial] /\ serial \in 0 .. MaxSerial
    /\ listener \in [at : {"none", "poll", "select", "accepted", "placed", "finish", "join"},
                     fd : Descriptors \cup {Closed}, slot : Slots \cup {"none"}]
    /\ client_threads \in [Slots -> [at : {"none", "enter", "serve", "finish", "close", "exit"},
                              fd : Descriptors \cup {Closed}, serial : 0 .. MaxSerial,
                              session : BOOLEAN]]
    /\ stopper \in [at : {"idle", "take", "join"}, listen : Descriptors \cup {Closed},
                    taken : SUBSET (Slots \X Descriptors \X (0 .. MaxSerial))]
    /\ sessions \in [1 .. MaxSerial -> [begun : 0 .. 1, closed : 0 .. 2]]

ServerInit ==
    /\ server = [running |-> FALSE, listener_started |-> FALSE, listen_socket |-> Closed]
    /\ slots = [s \in Slots |-> FreeSlot]
    /\ kernel = [d \in Descriptors |-> 0] /\ serial = 0
    /\ listener = AtRest /\ client_threads = [s \in Slots |-> NoClient] /\ stopper = NotStopping
    /\ sessions = [n \in 1 .. MaxSerial |-> [begun |-> 0, closed |-> 0]]

\* The kernel: socket() and accept() return the lowest free descriptor.
free_descriptors == {d \in Descriptors : kernel[d] = 0}
opens(d) ==
    /\ serial < MaxSerial
    /\ d \in free_descriptors /\ \A e \in free_descriptors : d <= e
    /\ serial' = serial + 1 /\ kernel' = [kernel EXCEPT ![d] = serial + 1]
close_all(held) == [d \in Descriptors |-> IF d \in held THEN 0 ELSE kernel[d]]

-----------------------------------------------------------------------------
(* Start and stop. *)

\* airplay_server_start: the listening socket and the listener thread; both
\* are given back when the thread cannot be created.
server_starts(created) ==
    /\ ~server.listener_started /\ stopper.at = "idle" /\ listener.at = "none"
    /\ slots' = [s \in Slots |-> FreeSlot]
    /\ IF created
       THEN \E d \in Descriptors :
              /\ opens(d)
              /\ server' = [running |-> TRUE, listener_started |-> TRUE, listen_socket |-> d]
              /\ listener' = [AtRest EXCEPT !.at = "poll"]
       ELSE /\ server' = [running |-> FALSE, listener_started |-> FALSE, listen_socket |-> Closed]
            /\ UNCHANGED <<kernel, serial, listener>>
    /\ UNCHANGED <<client_threads, stopper, sessions>>

\* airplay_server_stop: no more work, and the listening socket is taken ...
server_stops ==
    /\ server.listener_started /\ stopper.at = "idle"
    /\ stopper' = [at |-> "take", listen |-> server.listen_socket, taken |-> {}]
    /\ server' = [server EXCEPT !.running = FALSE, !.listen_socket = Closed]
    /\ UNCHANGED <<slots, kernel, serial, listener, client_threads, sessions>>

\* ... then every client's, shut down but still open: its thread holds it.
\* The serial is for SocketsOwned only.
takes_all ==
    {<<s, slots[s].socket_fd, kernel[slots[s].socket_fd]>> :
        s \in {x \in Slots : slots[x].socket_fd # Closed}}
mutant_server_takes ==
    /\ stopper.at = "take"
    /\ stopper' = [stopper EXCEPT !.at = "join", !.taken = takes_all]
    /\ slots' = [s \in Slots |-> [slots[s] EXCEPT !.socket_fd = Closed]]
    /\ kernel' = close_all({t[2] : t \in takes_all})
    /\ UNCHANGED <<server, serial, listener, client_threads, sessions>>
server_takes ==
    /\ stopper.at = "take"
    /\ stopper' = [stopper EXCEPT !.at = "join", !.taken = takes_all]
    /\ slots' = [s \in Slots |-> [slots[s] EXCEPT !.socket_fd = Closed]]
    /\ UNCHANGED <<server, kernel, serial, listener, client_threads, sessions>>

\* ... and once the listener thread is joined all of them are closed.
server_stopped ==
    /\ stopper.at = "join" /\ listener.at = "none"
    /\ kernel' = close_all({t[2] : t \in stopper.taken} \cup {stopper.listen})
    /\ server' = [server EXCEPT !.listener_started = FALSE]
    /\ stopper' = NotStopping
    /\ UNCHANGED <<slots, serial, listener, client_threads, sessions>>

-----------------------------------------------------------------------------
(* The listener thread. *)

\* airplay_server_reap_clients: the threads that have finished are joined.
reapable == {s \in Slots : slots[s].thread_started /\ slots[s].finished}
reap_clients ==
    /\ slots' = [s \in Slots |-> IF s \in reapable
                    THEN [slots[s] EXCEPT !.thread_started = FALSE, !.finished = FALSE] ELSE slots[s]]
    /\ client_threads' = [s \in Slots |-> IF s \in reapable THEN NoClient ELSE client_threads[s]]

listener_polls ==
    /\ listener.at = "poll"
    /\ IF server.running /\ server.listen_socket # Closed
       THEN reap_clients /\ listener' = [listener EXCEPT !.at = "select"] /\ UNCHANGED server
       ELSE /\ listener' = [listener EXCEPT !.at = "finish"]
            /\ server' = [server EXCEPT !.running = FALSE]
            /\ UNCHANGED <<slots, client_threads>>
    /\ UNCHANGED <<kernel, serial, stopper, sessions>>

\* select fails for good, or times out
listener_selects(failed) ==
    /\ listener.at = "select"
    /\ listener' = [listener EXCEPT !.at = IF failed \/ ~server.running THEN "finish" ELSE "poll"]
    /\ server' = IF listener'.at = "finish" THEN [server EXCEPT !.running = FALSE] ELSE server
    /\ UNCHANGED <<slots, kernel, serial, client_threads, stopper, sessions>>

\* or announces a connection, which accept takes
listener_accepts ==
    /\ listener.at = "select" /\ server.running
    /\ \E d \in Descriptors : opens(d) /\ listener' = [listener EXCEPT !.at = "accepted", !.fd = d]
    /\ UNCHANGED <<server, slots, client_threads, stopper, sessions>>

\* airplay_server_available_client, in the pool of the peer's address
available(pool) == {s \in pool : ~slots[s].thread_started \/ slots[s].finished}

\* A stopped server, or a full pool (503), turns the connection away.  Only
\* the first looks at running: a stop may come after that.
listener_rejects(pool) ==
    /\ listener.at = "accepted"
    /\ kernel' = close_all({listener.fd})
    /\ \/ /\ ~server.running
          /\ listener' = [AtRest EXCEPT !.at = "finish"]
          /\ UNCHANGED <<slots, client_threads>>
       \/ /\ available(pool) = {}
          /\ listener' = [AtRest EXCEPT !.at = "poll"]
          /\ reap_clients
    /\ UNCHANGED <<server, serial, stopper, sessions>>

\* Otherwise the slot gets it, where a stop can already take it.
listener_places(pool, s) ==
    /\ listener.at = "accepted"
    /\ s \in available(pool)
    /\ listener' = [listener EXCEPT !.at = "placed", !.slot = s]
    /\ slots' = [x \in Slots |->
          IF x = s THEN [FreeSlot EXCEPT !.socket_fd = listener.fd, !.active = TRUE]
          ELSE IF x \in reapable THEN [slots[x] EXCEPT !.thread_started = FALSE, !.finished = FALSE]
          ELSE slots[x]]
    /\ client_threads' = [x \in Slots |-> IF x \in reapable THEN NoClient ELSE client_threads[x]]
    /\ UNCHANGED <<server, kernel, serial, stopper, sessions>>

listener_starts_thread(created) ==
    LET s == listener.slot IN
    /\ listener.at = "placed"
    /\ listener' = [AtRest EXCEPT !.at = "poll"]
    /\ IF created
       THEN /\ slots' = [slots EXCEPT ![s].thread_started = TRUE]
            /\ client_threads' = [client_threads EXCEPT ![s] =
                 [NoClient EXCEPT !.at = "enter", !.serial = kernel[listener.fd]]]
            /\ UNCHANGED kernel
       ELSE /\ kernel' = close_all({slots[s].socket_fd})
            /\ slots' = [slots EXCEPT ![s].socket_fd = Closed, ![s].active = FALSE]
            /\ UNCHANGED client_threads
    /\ UNCHANGED <<server, serial, stopper, sessions>>

\* airplay_server_finish_clients: the sockets still there are closed ...
finish_clients_closes ==
    /\ listener.at = "finish"
    /\ kernel' = close_all({slots[s].socket_fd : s \in Slots})
    /\ slots' = [s \in Slots |-> [slots[s] EXCEPT !.socket_fd = Closed]]
    /\ listener' = [listener EXCEPT !.at = "join"]
    /\ UNCHANGED <<server, serial, client_threads, stopper, sessions>>

\* ... and the threads joined; then the listener thread ends.
finish_clients_joins ==
    /\ listener.at = "join"
    /\ \A s \in Slots : slots[s].thread_started => client_threads[s].at = "exit"
    /\ slots' = [s \in Slots |-> [FreeSlot EXCEPT !.socket_fd = slots[s].socket_fd]]
    /\ client_threads' = [s \in Slots |-> NoClient]
    /\ listener' = AtRest
    /\ UNCHANGED <<server, kernel, serial, stopper, sessions>>

-----------------------------------------------------------------------------
(* airplay_server_client_thread *)

\* The thread reads socket_fd of the slot as it finds it by then; without
\* memory for its buffers it ends with no session.
client_enters(s, initialised) ==
    /\ client_threads[s].at = "enter"
    /\ client_threads' = [client_threads EXCEPT ![s].at = IF initialised THEN "serve" ELSE "finish",
                                  ![s].fd = slots[s].socket_fd, ![s].session = initialised]
    /\ sessions' = IF initialised
                   THEN [sessions EXCEPT ![client_threads[s].serial].begun = @ + 1] ELSE sessions
    /\ UNCHANGED <<server, slots, kernel, serial, listener, stopper>>

\* airplay_server_send_client_response: only on the socket the slot still has
response_sent(s) ==
    slots[s].active /\ slots[s].socket_fd = client_threads[s].fd /\ client_threads[s].fd # Closed

\* airplay_server_register_reverse: one connection per logical session; the
\* one it replaces is shut down.  One step, as the registry's mutex is held
\* throughout and the thread of the replaced connection takes it before it
\* closes its socket (only a dying listener, which opens no more, does not).
register_reverse(s, id) ==
    [x \in Slots |-> [slots[x] EXCEPT !.reverse_session_id =
        IF x = s THEN id ELSE IF @ = id THEN 0 ELSE @]]

\* A request answered by a connection that becomes a reverse one.
client_registers(s, id) ==
    /\ client_threads[s].at = "serve" /\ server.running
    /\ slots[s].reverse_session_id = 0 /\ response_sent(s)
    /\ slots' = register_reverse(s, id)
    /\ UNCHANGED <<server, kernel, serial, listener, client_threads, stopper, sessions>>

\* The loop ends: the server stops, the peer closes, a request is malformed,
\* too large or late, its answer cannot be sent or asks for the end.
client_leaves(s) ==
    /\ client_threads[s].at = "serve"
    /\ client_threads' = [client_threads EXCEPT ![s].at = "finish"]
    /\ UNCHANGED <<server, slots, kernel, serial, listener, stopper, sessions>>

\* airplay_server_unregister_reverse, then session_closed_handler
client_unregisters(s) ==
    /\ client_threads[s].at = "finish"
    /\ slots' = [slots EXCEPT ![s].reverse_session_id = 0]
    /\ client_threads' = [client_threads EXCEPT ![s].at = "close"]
    /\ sessions' = IF client_threads[s].session
                   THEN [sessions EXCEPT ![client_threads[s].serial].closed = @ + 1] ELSE sessions
    /\ UNCHANGED <<server, kernel, serial, listener, stopper>>

\* airplay_server_close_client_socket, and the slot is marked finished
client_closes(s) ==
    /\ client_threads[s].at = "close"
    /\ kernel' = close_all({slots[s].socket_fd})
    /\ slots' = [slots EXCEPT ![s].socket_fd = Closed, ![s].active = FALSE, ![s].finished = TRUE]
    /\ client_threads' = [client_threads EXCEPT ![s].at = "exit"]
    /\ UNCHANGED <<server, serial, listener, stopper, sessions>>

\* airplay_server_send_reverse_request fails: the connection is given up.
reverse_send_fails(id) ==
    /\ server.running
    /\ \E s \in Slots :
          /\ slots[s].active /\ slots[s].reverse_session_id = id /\ slots[s].socket_fd # Closed
          /\ slots' = [slots EXCEPT ![s].reverse_session_id = 0]
    /\ UNCHANGED <<server, kernel, serial, listener, client_threads, stopper, sessions>>

ServerNext ==
    \/ \E created \in BOOLEAN : server_starts(created) \/ listener_starts_thread(created)
    \/ server_stops \/ server_takes \/ server_stopped
    \/ listener_polls
    \/ \E failed \in BOOLEAN : listener_selects(failed)
    \/ listener_accepts
    \/ \E pool \in {ControlSlots, LocalSlots} :
          listener_rejects(pool) \/ \E s \in pool : listener_places(pool, s)
    \/ finish_clients_closes \/ finish_clients_joins
    \/ \E s \in Slots :
          \/ \E initialised \in BOOLEAN : client_enters(s, initialised)
          \/ \E id \in LogicalIds : client_registers(s, id)
          \/ client_leaves(s) \/ client_unregisters(s) \/ client_closes(s)
    \/ \E id \in LogicalIds : reverse_send_fails(id)

ServerSpec == ServerInit /\ [][ServerNext]_ServerVars

-----------------------------------------------------------------------------
\* The connection a running thread was given; what a slot or the stopper
\* holds in its name is that connection's descriptor and no other.
working(s) == client_threads[s].at \in {"enter", "serve", "finish", "close"}

\* A descriptor held in a slot, by a client thread that has not closed it or
\* by a stop in progress still names the socket it was got for, so that a
\* send, a shutdown or a close never reaches another connection that was
\* given the same number; the one exception is a thread whose socket the
\* dying listener closes under it, before it is joined
\* (airplay_server_take_client_socket, airplay_server_finish_clients).
SocketsOwned ==
    /\ \A s \in Slots : working(s) /\ client_threads[s].fd # Closed =>
          \/ kernel[client_threads[s].fd] = client_threads[s].serial
          \/ listener.at = "join" /\ kernel[client_threads[s].fd] = 0
    /\ \A s \in Slots : slots[s].socket_fd # Closed =>
          /\ kernel[slots[s].socket_fd] # 0
          /\ working(s) => client_threads[s].serial = kernel[slots[s].socket_fd]
    /\ \A s, t \in Slots : slots[s].socket_fd # Closed /\ slots[s].socket_fd = slots[t].socket_fd => s = t
    /\ \A t \in stopper.taken : kernel[t[2]] = t[3]

\* When airplay_server_stop has returned every descriptor is closed, no
\* thread runs, no slot keeps a reverse connection, and every session that
\* began was closed exactly once.
StopIsClean ==
    ~server.listener_started /\ stopper.at = "idle" =>
        /\ \A d \in Descriptors : kernel[d] = 0
        /\ \A s \in Slots : /\ client_threads[s].at = "none"
                            /\ slots[s].reverse_session_id = 0 /\ slots[s].socket_fd = Closed
        /\ \A n \in 1 .. MaxSerial : sessions[n].begun = sessions[n].closed

\* Descriptors are never confused while the server runs, and none is left
\* when it has stopped (server.c: airplay_server_take_client_socket,
\* airplay_server_finish_clients, airplay_server_stop).
ServerSettles == SocketsOwned /\ StopIsClean
=============================================================================
