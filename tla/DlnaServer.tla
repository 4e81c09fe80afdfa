----------------------------- MODULE DlnaServer -----------------------------
(***************************************************************************)
(* The DLNA service: its HTTP thread (http_server.c), the GENA event       *)
(* thread with its subscriptions (event_server.c), the SSDP responder      *)
(* (ssdp.c), and the start and stop of the three by dlna_control.c.        *)
(*                                                                         *)
(* One action is one step between two points where another thread can see  *)
(* it: a load, store or exchange of an atomic, a region under              *)
(* g_event_mutex, a socket call.  Sockets are descriptors, given out       *)
(* lowest first as the system does, so that a descriptor closed too early  *)
(* comes back as another thread's.  What a packet or a property set says   *)
(* is abstracted to the version of the state it reports.                   *)
(***************************************************************************)
EXTENDS Integers

CONSTANTS
    EventServices,      \* EVENT_SERVICE_*
    MaxSubscriptions,   \* EVENT_MAX_SUBSCRIPTIONS
    MaxSid,             \* bound on the subscriptions ever made
    MaxVersion,         \* bound on the renderer events of a service
    MaxDescriptor,      \* bound on the open sockets
    MaxDlnaStarts       \* bound on dlna_control_start

ASSUME DlnaAssumption ==
    /\ MaxSubscriptions \in Nat \ {0} /\ MaxSid \in Nat /\ MaxVersion \in Nat
    /\ MaxDescriptor \in Nat \ {0} /\ MaxDlnaStarts \in Nat
    /\ "idle" \notin EventServices

VARIABLES
    control,     \* the service worker in dlna_control_start and _stop
    roles,       \* what each descriptor is, "free" if it is not open
    misused,     \* a descriptor was used or closed as what it is not
    http,        \* g_http_server, and its thread
    gena,        \* the event thread, with its flags
    table,       \* g_event_subscriptions
    next_sid,    \* g_next_sid
    version,     \* the state of each service, as a count of its changes
    marked,      \* history: the state a mark last promised to the subscribers
    dirty,       \* g_avtransport_state_dirty, g_renderingcontrol_dirty, ...
    notified_of, \* the version each subscription was last told of, or should have been
    emitting,    \* the actor inside soap_handler_on_renderer_event
    ssdp,        \* g_ssdp, and its thread
    starts

DlnaVars == <<control, roles, misused, http, gena, table, next_sid, version,
              marked, dirty, notified_of, emitting, ssdp, starts>>
Sockets == <<roles, misused>>
Events == <<gena, table, next_sid, version, marked, dirty, notified_of, emitting>>

Fds == 1 .. MaxDescriptor
NoFd == 0
Sids == 1 .. MaxSid
TableSlots == 1 .. MaxSubscriptions
EmptySlot == [sid |-> 0, service |-> "none", live |-> FALSE]
QuietHttp == [at |-> "none", running |-> FALSE, listen |-> NoFd, client |-> NoFd,
              fd |-> NoFd, took_listen |-> NoFd, took_client |-> NoFd]
QuietGena == [at |-> "none", stop |-> FALSE, active |-> NoFd, fd |-> NoFd,
              took |-> NoFd, todo |-> {}]
QuietSsdp == [at |-> "none", running |-> FALSE, fd |-> NoFd, took |-> NoFd,
              suspended |-> FALSE, was |-> FALSE]

DlnaTypeOK ==
    /\ control \in {"off", "event", "http", "ssdp", "on",
                    "take_ssdp", "join_ssdp",
                    "stop_http", "take_listen", "take_client", "join_http",
                    "stop_event", "take_event", "join_event", "stop_soap"}
    /\ roles \in [Fds -> {"free", "listen", "client", "notify", "ssdp"}]
    /\ misused \in BOOLEAN
    /\ http \in [at : {"none", "top", "select", "accept", "store", "check", "handle",
                       "done", "exited"},
                 running : BOOLEAN, listen : Fds \cup {NoFd}, client : Fds \cup {NoFd},
                 fd : Fds \cup {NoFd}, took_listen : Fds \cup {NoFd},
                 took_client : Fds \cup {NoFd}]
    /\ gena \in [at : {"none", "wait", "next", "socket", "store", "check", "connect",
                       "send", "finish", "exited"},
                 stop : BOOLEAN, active : Fds \cup {NoFd}, fd : Fds \cup {NoFd},
                 took : Fds \cup {NoFd}, todo : SUBSET [sid : Sids, service : EventServices]]
    /\ table \in [TableSlots -> [sid : Sids, service : EventServices, live : BOOLEAN]
                                    \cup {EmptySlot}]
    /\ next_sid \in 1 .. MaxSid + 1
    /\ version \in [EventServices -> 0 .. MaxVersion]
    /\ marked \in [EventServices -> 0 .. MaxVersion]
    /\ dirty \subseteq EventServices /\ notified_of \in [Sids -> -1 .. MaxVersion]
    /\ emitting \in EventServices \cup {"idle"}
    /\ ssdp \in [at : {"none", "top", "select", "packet", "exited"}, running : BOOLEAN,
                 fd : Fds \cup {NoFd}, took : Fds \cup {NoFd},
                 suspended : BOOLEAN, was : BOOLEAN]
    /\ starts \in 0 .. MaxDlnaStarts

DlnaInit ==
    /\ control = "off" /\ roles = [fd \in Fds |-> "free"] /\ misused = FALSE
    /\ http = QuietHttp /\ gena = QuietGena /\ ssdp = QuietSsdp
    /\ table = [s \in TableSlots |-> EmptySlot] /\ next_sid = 1
    /\ version = [s \in EventServices |-> 0] /\ marked = version /\ dirty = {}
    /\ notified_of = [sid \in Sids |-> -1] /\ emitting = "idle" /\ starts = 0

-----------------------------------------------------------------------------
(* Sockets: *_diagnostic_socket, _accept, _close and the calls that use one. *)

fresh(fd) == roles[fd] = "free" /\ \A other \in 1 .. fd - 1 : roles[other] # "free"
opens(fd, role) ==
    /\ fresh(fd) /\ roles' = [roles EXCEPT ![fd] = role]
    /\ UNCHANGED misused
closes(fds, role) ==
    /\ roles' = [fd \in Fds |-> IF fd \in fds THEN "free" ELSE roles[fd]]
    /\ misused' = (misused \/ \E fd \in fds : roles[fd] # role)
uses(fd, role) ==
    /\ misused' = (misused \/ (fd # NoFd /\ roles[fd] # role))
    /\ UNCHANGED roles

-----------------------------------------------------------------------------
(* The HTTP thread. *)

\* http_server_thread: one turn of its loop, up to select
http_top ==
    /\ http.at = "top"
    /\ http' = IF http.running /\ http.listen # NoFd
               THEN [http EXCEPT !.at = "select", !.fd = http.listen]
               ELSE [http EXCEPT !.at = "exited", !.running = FALSE]
    /\ UNCHANGED <<control, Sockets, Events, ssdp, starts>>

\* select: nothing, a connection, or an error, which ends the thread
http_select ==
    /\ http.at = "select" /\ uses(http.fd, "listen")
    /\ \/ http' = [http EXCEPT !.at = IF http.running THEN "top" ELSE "exited"]
       \/ http' = IF http.running THEN [http EXCEPT !.at = "accept"]
                  ELSE [http EXCEPT !.at = "exited"]
       \/ http' = [http EXCEPT !.at = "exited", !.running = FALSE]
    /\ UNCHANGED <<control, Events, ssdp, starts>>

http_accept ==
    /\ http.at = "accept"
    /\ \/ \E fd \in Fds : /\ opens(fd, "client")
                          /\ http' = [http EXCEPT !.at = "store", !.fd = fd]
       \/ http' = [http EXCEPT !.at = "top"] /\ uses(http.fd, "listen")
    /\ UNCHANGED <<control, Events, ssdp, starts>>

http_store ==
    /\ http.at = "store"
    /\ http' = [http EXCEPT !.at = "check", !.client = http.fd]
    /\ UNCHANGED <<control, Sockets, Events, ssdp, starts>>

http_check ==
    /\ http.at = "check"
    /\ http' = [http EXCEPT !.at = IF http.running THEN "handle" ELSE "done"]
    /\ UNCHANGED <<control, Sockets, Events, ssdp, starts>>

\* The end of a client: whoever takes active_client_sock closes it.
mutant_http_done ==
    /\ http.at = "done"
    /\ closes({http.fd}, "client")
    /\ http' = [http EXCEPT !.at = "top", !.client = NoFd]
    /\ UNCHANGED <<control, Events, ssdp, starts>>
http_done ==
    /\ http.at = "done"
    /\ IF http.client = http.fd
       THEN /\ http' = [http EXCEPT !.at = "top", !.client = NoFd]
            /\ closes({http.fd}, "client")
       ELSE http' = [http EXCEPT !.at = "top"] /\ UNCHANGED Sockets
    /\ UNCHANGED <<control, Events, ssdp, starts>>

\* handle_client: a request is received and answered while the socket is
\* still its own (http_diagnostic_recv, http_diagnostic_send).
handled ==
    /\ http.at = "handle"
    /\ http' = [http EXCEPT !.at = "done"]
    /\ IF http.client = http.fd THEN uses(http.fd, "client") ELSE UNCHANGED Sockets
    /\ UNCHANGED <<control, ssdp, starts>>

\* recv_full_http_request fails (no whole request within the time, too large,
\* a closed socket): the client is let go without an answer.
handle_nothing == handled /\ UNCHANGED Events

\* A bad request line (400), no handler (404), a SOAP action that only reads
\* or fails, or a description: nothing of this module changes.
handle_other == handled /\ UNCHANGED Events

\* A change of state that marks nothing
changes(service) ==
    /\ version[service] < MaxVersion /\ version' = [version EXCEPT ![service] = @ + 1]
    /\ UNCHANGED <<gena, table, next_sid, marked, dirty, notified_of, emitting>>

\* A SOAP action that changes the evented state itself (avtransport.c:
\* dlna_protocol_state_apply_set_uri, _play, _pause, _stop, _seek_target): the
\* subscribers hear of it with the next mark.
handle_soap(service) == handled /\ changes(service)

\* A SUBSCRIBE or UNSUBSCRIBE refused: its timeout, callback, NT or SID
\* (400, 412), its method (405), or a full table (503)
event_refuses == handled /\ UNCHANGED Events

\* event_handle_subscribe without a SID: a free slot, or 503
subscribe(service) ==
    /\ handled /\ next_sid <= MaxSid
    /\ \E s \in TableSlots :
          /\ table[s] = EmptySlot /\ \A r \in 1 .. s - 1 : table[r] # EmptySlot
          /\ table' = [table EXCEPT ![s] = [sid |-> next_sid, service |-> service, live |-> TRUE]]
    /\ next_sid' = next_sid + 1
    /\ dirty' = dirty \cup {service} /\ marked' = [marked EXCEPT ![service] = version[service]]
    /\ UNCHANGED <<gena, version, notified_of, emitting>>

\* ... with one: the subscription is renewed, expired or not, if it is there
renew(s) ==
    /\ handled /\ table[s] # EmptySlot
    /\ table' = [table EXCEPT ![s].live = TRUE]
    /\ UNCHANGED <<gena, next_sid, version, marked, dirty, notified_of, emitting>>

\* event_handle_unsubscribe
unsubscribe(s) ==
    /\ handled /\ table[s] # EmptySlot
    /\ table' = [table EXCEPT ![s] = EmptySlot]
    /\ UNCHANGED <<gena, next_sid, version, marked, dirty, notified_of, emitting>>

\* A subscription's time runs out; only the event thread prunes it.
expires(s) ==
    /\ table[s].live /\ table' = [table EXCEPT ![s].live = FALSE]
    /\ UNCHANGED <<control, Sockets, http, gena, next_sid, version, marked, dirty, notified_of,
                   emitting, ssdp, starts>>

-----------------------------------------------------------------------------
(* The actor in soap_handler_on_renderer_event: the state, then the flag.   *)

registered == control \notin {"off"}

emit_state(service) ==
    /\ registered /\ emitting = "idle" /\ version[service] < MaxVersion
    /\ version' = [version EXCEPT ![service] = @ + 1]
    /\ marked' = [marked EXCEPT ![service] = version[service] + 1]
    /\ emitting' = service
    /\ UNCHANGED <<control, Sockets, http, gena, table, next_sid, dirty, notified_of, ssdp,
                   starts>>

\* PLAYER_EVENT_POSITION_CHANGED: the state changes, nothing is marked.
emit_position(service) ==
    /\ registered /\ emitting = "idle" /\ changes(service)
    /\ UNCHANGED <<control, Sockets, http, ssdp, starts>>

\* event_server_on_renderer_event
emit_event ==
    /\ emitting # "idle" /\ emitting' = "idle"
    /\ dirty' = dirty \cup {emitting}
    /\ UNCHANGED <<control, Sockets, http, gena, table, next_sid, version, marked,
                   notified_of, ssdp, starts>>

-----------------------------------------------------------------------------
(* The event thread. *)

\* event_prune_expired_locked
pruned == [s \in TableSlots |-> IF table[s].live THEN table[s] ELSE EmptySlot]

\* event_collect_targets_locked, for every dirty service (the order of the
\* sends is left open)
collected ==
    {[sid |-> pruned[s].sid, service |-> pruned[s].service] :
        s \in {r \in TableSlots : pruned[r] # EmptySlot /\ pruned[r].service \in dirty}}

\* event_thread_main: woken, it leaves or takes what is due and clears the flags
event_wakes ==
    /\ gena.at = "wait"
    /\ gena.stop \/ dirty # {}
    /\ IF gena.stop THEN gena' = [gena EXCEPT !.at = "exited"] /\ UNCHANGED <<table, dirty>>
       ELSE /\ gena' = [gena EXCEPT !.at = "next", !.todo = collected]
            /\ table' = pruned /\ dirty' = {}
    /\ UNCHANGED <<control, Sockets, http, next_sid, version, marked, notified_of,
                   emitting, ssdp, starts>>

\* A turn of the sends.  (The mutant clears the flags after the sends.)
mutant_event_next ==
    /\ gena.at = "next"
    /\ IF gena.todo = {} \/ gena.stop
       THEN gena' = [gena EXCEPT !.at = "wait", !.todo = {}] /\ dirty' = {} /\ UNCHANGED notified_of
       ELSE \E target \in gena.todo :
            /\ notified_of' = [notified_of EXCEPT ![target.sid] = version[target.service]]
            /\ gena' = [gena EXCEPT !.at = "socket", !.todo = gena.todo \ {target}]
            /\ UNCHANGED dirty
    /\ UNCHANGED <<control, Sockets, http, table, next_sid, version, marked, emitting,
                   ssdp, starts>>
\* The next target, unless the thread is to stop: event_build_propertyset
\* reads the state as it is now, or fails, and the target is not tried again.
event_next ==
    /\ gena.at = "next"
    /\ IF gena.todo = {} \/ gena.stop
       THEN gena' = [gena EXCEPT !.at = "wait", !.todo = {}] /\ UNCHANGED notified_of
       ELSE \E target \in gena.todo :
            /\ notified_of' = [notified_of EXCEPT ![target.sid] = version[target.service]]
            /\ \E at \in {"socket", "next"} :
                  gena' = [gena EXCEPT !.at = at, !.todo = gena.todo \ {target}]
    /\ UNCHANGED <<control, Sockets, http, table, next_sid, version, marked, dirty,
                   emitting, ssdp, starts>>

sends_on == <<control, http, table, next_sid, version, marked, dirty, notified_of, emitting,
              ssdp, starts>>

\* event_send_notify: a socket ...
event_socket ==
    /\ gena.at = "socket"
    /\ \/ \E fd \in Fds : opens(fd, "notify") /\ gena' = [gena EXCEPT !.at = "store", !.fd = fd]
       \/ gena' = [gena EXCEPT !.at = "next"] /\ UNCHANGED Sockets
    /\ UNCHANGED sends_on

event_store ==
    /\ gena.at = "store"
    /\ gena' = [gena EXCEPT !.at = "check", !.active = gena.fd]
    /\ UNCHANGED <<sends_on, Sockets>>

\* ... that may have been stored too late for a stop to find it
event_check ==
    /\ gena.at = "check"
    /\ gena' = [gena EXCEPT !.at = IF gena.stop THEN "finish" ELSE "connect"]
    /\ UNCHANGED <<sends_on, Sockets>>

\* event_diagnostic_connect: it may fail or time out
event_connect ==
    /\ gena.at = "connect" /\ uses(gena.fd, "notify")
    /\ \/ gena' = [gena EXCEPT !.at = "finish"]
       \/ ~gena.stop /\ gena.active = gena.fd /\ gena' = [gena EXCEPT !.at = "send"]
    /\ UNCHANGED sends_on

\* event_send_all
event_send ==
    /\ gena.at = "send"
    /\ gena' = [gena EXCEPT !.at = "finish"]
    /\ IF gena.stop \/ gena.active # gena.fd THEN UNCHANGED Sockets ELSE uses(gena.fd, "notify")
    /\ UNCHANGED sends_on

event_finish ==
    /\ gena.at = "finish"
    /\ IF gena.active = gena.fd
       THEN /\ gena' = [gena EXCEPT !.at = "next", !.active = NoFd]
            /\ closes({gena.fd}, "notify")
       ELSE gena' = [gena EXCEPT !.at = "next"] /\ UNCHANGED Sockets
    /\ UNCHANGED sends_on

-----------------------------------------------------------------------------
(* The SSDP responder. *)

others_of_ssdp == <<control, http, Events, starts>>

\* One turn of ssdp_thread, up to select; back from a suspension it announces
\* the device again (send_alive_notifications).
ssdp_top ==
    /\ ssdp.at = "top"
    /\ ssdp' = IF ~ssdp.running \/ ssdp.fd = NoFd THEN [ssdp EXCEPT !.at = "exited"]
               ELSE IF ssdp.suspended THEN [ssdp EXCEPT !.was = TRUE]
               ELSE [ssdp EXCEPT !.at = "select", !.was = FALSE]
    /\ IF ssdp.running /\ ssdp.was /\ ~ssdp.suspended THEN uses(ssdp.fd, "ssdp")
       ELSE UNCHANGED Sockets
    /\ UNCHANGED others_of_ssdp

\* select returns: an error ends the thread, running or not
ssdp_select ==
    /\ ssdp.at = "select"
    /\ uses(IF ssdp.took # NoFd THEN ssdp.took ELSE ssdp.fd, "ssdp")
    /\ ssdp' \in {[ssdp EXCEPT !.at = IF ssdp.running THEN "packet" ELSE "exited"],
                  [ssdp EXCEPT !.at = "exited"]}
    /\ UNCHANGED others_of_ssdp

\* Every sender loads the socket again and gives up if it is gone.
ssdp_sends == IF ssdp.fd # NoFd THEN uses(ssdp.fd, "ssdp") ELSE UNCHANGED Sockets

\* Nothing came: the advertisements are due, or they are not.
ssdp_alive ==
    /\ ssdp.at = "packet" /\ ssdp' = [ssdp EXCEPT !.at = "top"]
    /\ ssdp_sends \/ UNCHANGED Sockets
    /\ UNCHANGED others_of_ssdp

\* A packet is received on the socket the turn began with, also if the stop
\* has shut it down since; an M-SEARCH is answered (respond_to_msearch).
ssdp_searched ==
    /\ ssdp.at = "packet" /\ ssdp' = [ssdp EXCEPT !.at = "top"]
    /\ uses(IF ssdp.took # NoFd THEN ssdp.took ELSE ssdp.fd, "ssdp")
    /\ UNCHANGED others_of_ssdp

\* ssdp_set_suspended
ssdp_suspends ==
    /\ control = "on" /\ ssdp' = [ssdp EXCEPT !.suspended = ~@]
    /\ UNCHANGED <<others_of_ssdp, Sockets>>

-----------------------------------------------------------------------------
(* dlna_control_start and dlna_control_stop, on a service worker. *)

\* scpd_start and soap_server_start: the event callback is registered.
control_starts ==
    /\ control = "off" /\ starts < MaxDlnaStarts
    /\ control' = "event" /\ starts' = starts + 1
    /\ UNCHANGED <<Sockets, http, Events, ssdp>>

\* event_server_start
control_starts_event ==
    /\ control = "event"
    /\ \/ /\ control' = "http"
          /\ gena' = [QuietGena EXCEPT !.at = "wait"]
          /\ table' = [s \in TableSlots |-> EmptySlot] /\ dirty' = {}
       \/ control' = "stop_soap" /\ UNCHANGED <<gena, table, dirty>>
    /\ UNCHANGED <<Sockets, http, next_sid, version, marked, notified_of, emitting, ssdp,
                   starts>>

\* http_server_start: on failure what was started is stopped
control_starts_http ==
    /\ control = "http"
    /\ \/ \E fd \in Fds :
             /\ opens(fd, "listen") /\ control' = "ssdp"
             /\ http' = [QuietHttp EXCEPT !.at = "top", !.running = TRUE, !.listen = fd]
       \/ control' = "stop_event" /\ UNCHANGED <<Sockets, http>>
    /\ UNCHANGED <<Events, ssdp, starts>>

\* ssdp_start
control_starts_ssdp ==
    /\ control = "ssdp"
    /\ \/ \E fd \in Fds :
             /\ opens(fd, "ssdp") /\ control' = "on"
             /\ ssdp' = [QuietSsdp EXCEPT !.at = "top", !.running = TRUE, !.fd = fd]
       \/ control' = "stop_http" /\ UNCHANGED <<Sockets, ssdp>>
    /\ UNCHANGED <<http, Events, starts>>

send_byebye_notifications == uses(ssdp.fd, "ssdp")

\* ssdp_stop: no more turns, goodbye, the socket shut down, the thread joined
control_stops ==
    /\ control = "on" /\ control' = "take_ssdp"
    /\ ssdp' = [ssdp EXCEPT !.running = FALSE]
    /\ send_byebye_notifications
    /\ UNCHANGED <<http, Events, starts>>
control_takes_ssdp ==
    /\ control = "take_ssdp" /\ control' = "join_ssdp"
    /\ ssdp' = [ssdp EXCEPT !.fd = NoFd, !.took = ssdp.fd]
    /\ UNCHANGED <<Sockets, http, Events, starts>>
control_joins_ssdp ==
    /\ control = "join_ssdp" /\ ssdp.at = "exited" /\ control' = "stop_http"
    /\ closes({ssdp.took} \ {NoFd}, "ssdp") /\ ssdp' = QuietSsdp
    /\ UNCHANGED <<http, Events, starts>>

\* http_server_stop: running off, then each socket taken
control_stops_http ==
    /\ control = "stop_http" /\ control' = "take_listen"
    /\ http' = [http EXCEPT !.running = FALSE]
    /\ UNCHANGED <<Sockets, Events, ssdp, starts>>
control_takes_listen ==
    /\ control = "take_listen" /\ control' = "take_client"
    /\ http' = [http EXCEPT !.listen = NoFd, !.took_listen = http.listen]
    /\ UNCHANGED <<Sockets, Events, ssdp, starts>>
control_takes_client ==
    /\ control = "take_client" /\ control' = "join_http"
    /\ http' = [http EXCEPT !.client = NoFd, !.took_client = http.client]
    /\ UNCHANGED <<Sockets, Events, ssdp, starts>>
\* The thread is joined, and only then are the sockets closed.
control_joins_http ==
    /\ control = "join_http" /\ http.at = "exited" /\ control' = "stop_event"
    /\ roles' = [fd \in Fds |-> IF fd \in {http.took_listen, http.took_client} THEN "free"
                                ELSE roles[fd]]
    /\ misused' = \/ misused
                  \/ http.took_listen # NoFd /\ roles[http.took_listen] # "listen"
                  \/ http.took_client # NoFd /\ roles[http.took_client] # "client"
    /\ http' = QuietHttp
    /\ UNCHANGED <<Events, ssdp, starts>>

\* event_server_stop: stop requested under the mutex, the socket exchanged
control_stops_event ==
    /\ control = "stop_event" /\ control' = "take_event"
    /\ gena' = [gena EXCEPT !.stop = TRUE]
    /\ UNCHANGED <<Sockets, http, table, next_sid, version, marked, dirty, notified_of,
                   emitting, ssdp, starts>>
control_takes_event ==
    /\ control = "take_event" /\ control' = "join_event"
    /\ gena' = [gena EXCEPT !.active = NoFd, !.took = gena.active]
    /\ UNCHANGED <<Sockets, http, table, next_sid, version, marked, dirty, notified_of,
                   emitting, ssdp, starts>>
control_joins_event ==
    /\ control = "join_event" /\ gena.at = "exited" /\ control' = "stop_soap"
    /\ closes({gena.took} \ {NoFd}, "notify")
    /\ gena' = QuietGena /\ table' = [s \in TableSlots |-> EmptySlot] /\ dirty' = {}
    /\ UNCHANGED <<http, next_sid, version, marked, notified_of, emitting, ssdp, starts>>

\* soap_server_stop and scpd_stop: the callback is gone, except one in flight
control_ends ==
    /\ control = "stop_soap" /\ control' = "off"
    /\ UNCHANGED <<Sockets, http, Events, ssdp, starts>>

ControlNext ==
    \/ control_starts \/ control_starts_event \/ control_starts_http \/ control_starts_ssdp
    \/ control_stops \/ control_takes_ssdp \/ control_joins_ssdp
    \/ control_stops_http \/ control_takes_listen \/ control_takes_client \/ control_joins_http
    \/ control_stops_event \/ control_takes_event \/ control_joins_event \/ control_ends

DlnaNext ==
    \/ http_top \/ http_select \/ http_accept \/ http_store \/ http_check \/ http_done
    \/ handle_nothing \/ handle_other \/ event_refuses
    \/ \E service \in EventServices :
          \/ handle_soap(service) \/ subscribe(service)
          \/ emit_state(service) \/ emit_position(service)
    \/ \E s \in TableSlots : renew(s) \/ unsubscribe(s) \/ expires(s)
    \/ emit_event
    \/ event_wakes \/ event_next \/ event_socket \/ event_store \/ event_check
    \/ event_connect \/ event_send \/ event_finish
    \/ ssdp_top \/ ssdp_select \/ ssdp_alive \/ ssdp_searched \/ ssdp_suspends
    \/ ControlNext

DlnaSpec == DlnaInit /\ [][DlnaNext]_DlnaVars

-----------------------------------------------------------------------------
\* Whoever stops the service and whoever is serving a client or a subscriber
\* race for its socket, and exactly one closes it: no descriptor is used or
\* closed once it may be another thread's, and when the service is off no
\* socket is open, no thread runs and no subscription is left
\* (http_server_stop, event_server_stop, ssdp_stop, and the unwinding of a
\* start that failed half way).
DlnaSocketsOwned ==
    /\ ~misused
    /\ control = "off" =>
          /\ \A fd \in Fds : roles[fd] = "free"
          /\ {http.at, gena.at, ssdp.at} = {"none"}
          /\ \A s \in TableSlots : table[s] = EmptySlot

\* No mark is lost on a subscriber: when the event thread has nothing left to
\* do and no renderer event is under way, every subscription was last told (or
\* the telling was tried) of a state at least as new as that of the last
\* renderer event and that of the last subscription to its service, whatever
\* came between the wake-up, the collection and the sends (event_thread_main,
\* event_mark_dirty_locked, soap_handler_on_renderer_event).  A newer state, of
\* a SOAP action or a position, it need not have: those mark nothing.
SubscribersCaughtUp ==
    gena.at = "wait" /\ ~gena.stop =>
        \A s \in TableSlots :
            table[s] # EmptySlot /\ table[s].service \notin dirty \cup {emitting}
            => notified_of[table[s].sid] >= marked[table[s].service]
=============================================================================
