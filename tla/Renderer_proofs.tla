--------------------------- MODULE Renderer_proofs ---------------------------
(***************************************************************************)
(* Proofs about the DLNA service and its transport actions, for every      *)
(* number of subscriptions, descriptors, starts, actions and leases.       *)
(***************************************************************************)
EXTENDS DlnaServer, DlnaTransport, WellFoundedInduction, TLAPS

-----------------------------------------------------------------------------
(* The inductive invariant. *)

\* Where the service worker is while each thread lives, and once it has told
\* the thread to stop.
HttpLives == {"ssdp", "on", "take_ssdp", "join_ssdp", "stop_http", "take_listen",
              "take_client", "join_http"}
GenaLives == HttpLives \cup {"http", "stop_event", "take_event", "join_event"}
SsdpLives == {"on", "take_ssdp", "join_ssdp"}

\* The HTTP thread: the client it serves is its own or was taken by the stop,
\* which takes one only while it is served, and the loop ends without one.
HttpOK ==
    /\ http.at = "none" <=> control \notin HttpLives
    /\ http.at = "none" => http = QuietHttp
    /\ control \in {"take_listen", "take_client", "join_http"} => ~http.running
    /\ control \in HttpLives \ {"take_client", "join_http"} =>
          http.listen # NoFd /\ http.took_listen = NoFd
    /\ control \in {"take_client", "join_http"} => http.listen = NoFd /\ http.took_listen # NoFd
    /\ control # "join_http" => http.took_client = NoFd
    /\ http.at \in {"select", "accept"} => http.fd \in {http.listen, http.took_listen} \ {NoFd}
    /\ http.at \in {"store", "check", "handle", "done"} => http.fd # NoFd
    /\ http.at \in {"none", "top", "select", "accept", "store", "exited"} => http.client = NoFd
    /\ http.at \in {"check", "handle", "done"} =>
          {http.client, http.took_client} = {http.fd, NoFd}
    /\ http.at \in {"select", "accept", "store"} => http.took_client = NoFd

\* The event thread, alike; while it waits nothing is due.
GenaOK ==
    /\ gena.at = "none" <=> control \notin GenaLives
    /\ gena.at = "none" => gena = QuietGena
    /\ gena.stop <=> control \in {"take_event", "join_event"}
    /\ control # "join_event" => gena.took = NoFd
    /\ gena.at \in {"store", "check", "connect", "send", "finish"} => gena.fd # NoFd
    /\ gena.at \in {"none", "wait", "next", "socket", "store", "exited"} => gena.active = NoFd
    /\ gena.at \in {"check", "connect", "send", "finish"} =>
          {gena.active, gena.took} = {gena.fd, NoFd}
    /\ gena.at \in {"socket", "store"} => gena.took = NoFd
    /\ gena.at = "wait" => gena.todo = {}

\* The responder.
SsdpOK ==
    /\ ssdp.at = "none" <=> control \notin SsdpLives
    /\ ssdp.at = "none" => ssdp = QuietSsdp
    /\ ssdp.running <=> control = "on"
    /\ control \in {"on", "take_ssdp"} => ssdp.fd # NoFd /\ ssdp.took = NoFd
    /\ control = "join_ssdp" => ssdp.fd = NoFd /\ ssdp.took # NoFd

\* What each descriptor is follows from who holds it: the field of a thread
\* or of the stop, or the call that has just opened it.
SocketRoles == {"listen", "client", "notify", "ssdp"}
HeldAs(role) ==
    IF role = "listen" THEN {http.listen, http.took_listen} \ {NoFd}
    ELSE IF role = "client" THEN ({http.client, http.took_client}
                                    \cup (IF http.at = "store" THEN {http.fd} ELSE {})) \ {NoFd}
    ELSE IF role = "notify" THEN ({gena.active, gena.took}
                                    \cup (IF gena.at = "store" THEN {gena.fd} ELSE {})) \ {NoFd}
    ELSE {ssdp.fd, ssdp.took} \ {NoFd}
RolesOK ==
    /\ ~misused
    /\ \A fd \in Fds, role \in SocketRoles : roles[fd] = role <=> fd \in HeldAs(role)

\* The subscriptions: none without the event thread, each with a SID of its
\* own given out already, and a target taken for sending is one of them or gone.
TableOK ==
    /\ gena.at = "none" => \A s \in TableSlots : table[s] = EmptySlot
    /\ \A s \in TableSlots : table[s] # EmptySlot => table[s].sid < next_sid
    /\ \A s, r \in TableSlots : table[s] # EmptySlot /\ table[s].sid = table[r].sid => s = r
    /\ \A target \in gena.todo :
          /\ target.sid < next_sid
          /\ \A s \in TableSlots :
                table[s].sid = target.sid => table[s].service = target.service

\* Until the thread is told to stop, a subscription is due, about to become
\* due, or was told of a state as new as the last mark's.
DueOK ==
    /\ \A service \in EventServices : marked[service] <= version[service]
    /\ ~gena.stop =>
        \A s \in TableSlots :
            table[s] # EmptySlot =>
               \/ [sid |-> table[s].sid, service |-> table[s].service] \in gena.todo
               \/ table[s].service \in dirty \cup {emitting}
               \/ notified_of[table[s].sid] >= marked[table[s].service]

DlnaInv == DlnaTypeOK /\ HttpOK /\ GenaOK /\ SsdpOK /\ RolesOK /\ TableOK /\ DueOK

-----------------------------------------------------------------------------
(* Types, and the two halves of the invariant: the sockets with the threads, *)
(* and the subscriptions.                                                    *)

Phases == {"off", "event", "http", "ssdp", "on", "take_ssdp", "join_ssdp", "stop_http",
           "take_listen", "take_client", "join_http", "stop_event", "take_event",
           "join_event", "stop_soap"}
Roles == {"free", "listen", "client", "notify", "ssdp"}
HttpSteps == {"none", "top", "select", "accept", "store", "check", "handle", "done", "exited"}
GenaSteps == {"none", "wait", "next", "socket", "store", "check", "connect", "send", "finish",
              "exited"}
SsdpSteps == {"none", "top", "select", "packet", "exited"}
HttpState == [at : HttpSteps, running : BOOLEAN, listen : Fds \cup {NoFd},
              client : Fds \cup {NoFd}, fd : Fds \cup {NoFd}, took_listen : Fds \cup {NoFd},
              took_client : Fds \cup {NoFd}]
Targets == [sid : Sids, service : EventServices]
GenaState == [at : GenaSteps, stop : BOOLEAN, active : Fds \cup {NoFd}, fd : Fds \cup {NoFd},
              took : Fds \cup {NoFd}, todo : SUBSET Targets]
SsdpState == [at : SsdpSteps, running : BOOLEAN, fd : Fds \cup {NoFd},
              took : Fds \cup {NoFd}, suspended : BOOLEAN, was : BOOLEAN]
Subscriptions == [sid : Sids, service : EventServices, live : BOOLEAN]

ServiceTypes ==
    /\ control \in Phases /\ starts \in 0 .. MaxDlnaStarts
    /\ roles \in [Fds -> Roles] /\ misused \in BOOLEAN
    /\ http \in HttpState /\ gena \in GenaState /\ ssdp \in SsdpState
EventTypes ==
    /\ gena \in GenaState
    /\ table \in [TableSlots -> Subscriptions \cup {EmptySlot}] /\ next_sid \in 1 .. MaxSid + 1
    /\ version \in [EventServices -> 0 .. MaxVersion] /\ dirty \subseteq EventServices
    /\ marked \in [EventServices -> 0 .. MaxVersion]
    /\ notified_of \in [Sids -> -1 .. MaxVersion] /\ emitting \in EventServices \cup {"idle"}

ServiceInv == ServiceTypes /\ HttpOK /\ GenaOK /\ SsdpOK /\ RolesOK
EventInv == EventTypes /\ TableOK /\ DueOK

LEMMA DlnaHalves ==
    /\ DlnaInv <=> ServiceInv /\ EventInv
    /\ DlnaInv' <=> ServiceInv' /\ EventInv'
  <1>1. DlnaTypeOK <=> ServiceTypes /\ EventTypes
    BY DEF DlnaTypeOK, ServiceTypes, EventTypes, Phases, Roles, HttpSteps, GenaSteps, SsdpSteps,
           HttpState, GenaState, SsdpState, Targets, Subscriptions
  <1>2. DlnaTypeOK' <=> ServiceTypes' /\ EventTypes'
    BY DEF DlnaTypeOK, ServiceTypes, EventTypes, Phases, Roles, HttpSteps, GenaSteps, SsdpSteps,
           HttpState, GenaState, SsdpState, Targets, Subscriptions
  <1> QED
    BY <1>1, <1>2 DEF DlnaInv, ServiceInv, EventInv

\* Descriptors and SIDs are positive, and a thread at rest is of its type.
LEMMA DlnaFacts ==
    /\ Fds \subseteq Nat \ {0} /\ NoFd = 0 /\ NoFd \notin Fds
    /\ Sids \subseteq Nat \ {0} /\ 0 \notin Sids
    /\ QuietHttp \in HttpState /\ QuietGena \in GenaState /\ QuietSsdp \in SsdpState
    /\ \A sub \in Subscriptions : sub # EmptySlot /\ sub.sid \in Sids /\ sub.sid # EmptySlot.sid
    /\ EmptySlot.sid = 0 /\ ~EmptySlot.live
  <1>1. Fds \subseteq Nat \ {0} /\ Sids \subseteq Nat \ {0} /\ NoFd = 0
    BY DlnaAssumption DEF Fds, Sids, NoFd
  <1>2. QuietHttp \in HttpState /\ QuietGena \in GenaState /\ QuietSsdp \in SsdpState
    BY DEF QuietHttp, QuietGena, QuietSsdp, HttpState, GenaState, SsdpState, HttpSteps,
           GenaSteps, SsdpSteps
  <1>3. EmptySlot.sid = 0 /\ ~EmptySlot.live
    BY DEF EmptySlot
  <1>4. \A sub \in Subscriptions : sub # EmptySlot /\ sub.sid \in Sids /\ sub.sid # EmptySlot.sid
    BY <1>1, <1>3 DEF Subscriptions
  <1> QED
    BY <1>1, <1>2, <1>3, <1>4

-----------------------------------------------------------------------------
(* Sockets: a call on a held one, a fresh one, and the end of held ones. *)

LEMMA RolesUsed ==
    ASSUME RolesOK, NEW role \in SocketRoles, NEW fd, fd = NoFd \/ fd \in HeldAs(role) \cap Fds,
           uses(fd, role), \A r \in SocketRoles : HeldAs(r)' = HeldAs(r)
    PROVE  RolesOK'
  BY DEF RolesOK, uses

LEMMA RolesUntouched ==
    ASSUME RolesOK, UNCHANGED Sockets, \A r \in SocketRoles : HeldAs(r)' = HeldAs(r)
    PROVE  RolesOK'
  BY DEF RolesOK, Sockets

LEMMA RolesOpened ==
    ASSUME RolesOK, ServiceTypes, NEW role \in SocketRoles, NEW fd \in Fds, opens(fd, role),
           HeldAs(role)' = HeldAs(role) \cup {fd},
           \A r \in SocketRoles \ {role} : HeldAs(r)' = HeldAs(r)
    PROVE  RolesOK'
  <1>1. \A r \in SocketRoles : fd \notin HeldAs(r)
    BY DEF RolesOK, opens, fresh, SocketRoles
  <1>2. roles' = [roles EXCEPT ![fd] = role] /\ ~misused'
    BY DEF opens, RolesOK
  <1>3. ASSUME NEW other \in Fds, NEW r \in SocketRoles
        PROVE  roles'[other] = r <=> other \in HeldAs(r)'
    BY <1>1, <1>2 DEF RolesOK, ServiceTypes
  <1> QED
    BY <1>2, <1>3 DEF RolesOK

LEMMA RolesClosed ==
    ASSUME RolesOK, ServiceTypes, NEW role \in SocketRoles, NEW fds \in SUBSET Fds,
           fds \subseteq HeldAs(role), closes(fds, role),
           HeldAs(role)' = HeldAs(role) \ fds,
           \A r \in SocketRoles \ {role} : HeldAs(r)' = HeldAs(r)
    PROVE  RolesOK'
  <1>1. ~misused'
    BY DEF RolesOK, closes
  <1>2. ASSUME NEW other \in Fds, NEW r \in SocketRoles
        PROVE  roles'[other] = r <=> other \in HeldAs(r)'
    <2>1. CASE other \in fds
      <3>1. roles'[other] = "free" /\ roles[other] = role
        BY <2>1 DEF closes, RolesOK
      <3>2. r # role => other \notin HeldAs(r)
        BY <3>1 DEF RolesOK
      <3> QED
        BY <2>1, <3>1, <3>2 DEF SocketRoles
    <2>2. CASE other \notin fds
      BY <2>2 DEF closes, RolesOK
    <2> QED
      BY <2>1, <2>2
  <1> QED
    BY <1>1, <1>2 DEF RolesOK

\* What is held changes with the thread that holds it only.
LEMMA HeldFrame ==
    /\ http' = http => HeldAs("listen")' = HeldAs("listen") /\ HeldAs("client")' = HeldAs("client")
    /\ gena' = gena => HeldAs("notify")' = HeldAs("notify")
    /\ ssdp' = ssdp => HeldAs("ssdp")' = HeldAs("ssdp")
  BY DEF HeldAs

\* The subscriptions see of the event thread its life, its stop and its targets.
LEMMA EventFrame ==
    ASSUME EventInv, gena' \in GenaState, gena'.stop = gena.stop, gena'.todo = gena.todo,
           gena'.at = "none" <=> gena.at = "none",
           UNCHANGED <<table, next_sid, version, marked, dirty, notified_of, emitting>>
    PROVE  EventInv'
  BY DEF EventInv, EventTypes, TableOK, DueOK

LEMMA SocketsTyped ==
    ASSUME ServiceTypes,
           \/ UNCHANGED Sockets
           \/ \E fd, role : uses(fd, role)
           \/ \E fds, role : closes(fds, role)
           \/ \E fd \in Fds, role \in SocketRoles : opens(fd, role)
    PROVE  roles' \in [Fds -> Roles] /\ misused' \in BOOLEAN
  <1>1. CASE UNCHANGED Sockets
    BY <1>1 DEF ServiceTypes, Sockets
  <1>2. ASSUME NEW fd, NEW role, uses(fd, role)
        PROVE  roles' \in [Fds -> Roles] /\ misused' \in BOOLEAN
    BY <1>2 DEF ServiceTypes, uses
  <1>3. ASSUME NEW fds, NEW role, closes(fds, role)
        PROVE  roles' \in [Fds -> Roles] /\ misused' \in BOOLEAN
    BY <1>3 DEF ServiceTypes, closes, Roles
  <1>4. ASSUME NEW fd \in Fds, NEW role \in SocketRoles, opens(fd, role)
        PROVE  roles' \in [Fds -> Roles] /\ misused' \in BOOLEAN
    BY <1>4 DEF ServiceTypes, opens, Roles, SocketRoles
  <1> QED
    BY <1>1, <1>2, <1>3, <1>4

-----------------------------------------------------------------------------
(* The HTTP thread. *)

\* A step of the thread leaves the others alone.
LEMMA HttpOnly ==
    ASSUME ServiceInv, UNCHANGED <<control, gena, ssdp, starts>>, http' \in HttpState, HttpOK',
           RolesOK', roles' \in [Fds -> Roles], misused' \in BOOLEAN
    PROVE  ServiceInv'
  <1>1. GenaOK' /\ SsdpOK'
    BY DEF ServiceInv, GenaOK, SsdpOK
  <1> QED
    BY <1>1 DEF ServiceInv, ServiceTypes

LEMMA HttpTop ==
    ASSUME ServiceInv, http_top
    PROVE  ServiceInv'
  <1>1. /\ http \in HttpState /\ HttpOK /\ http.at = "top"
        /\ UNCHANGED <<control, roles, misused, gena, ssdp, starts>>
    BY DEF ServiceInv, ServiceTypes, http_top, Sockets, Events
  <1>2. http' \in HttpState
    BY <1>1 DEF http_top, HttpState, HttpSteps
  <1>3. HttpOK'
    BY <1>1, <1>2, DlnaFacts DEF http_top, HttpState, HttpOK, HttpLives
  <1>4. HeldAs("listen")' = HeldAs("listen") /\ HeldAs("client")' = HeldAs("client")
    BY <1>1 DEF http_top, HttpState, HeldAs
  <1>5. RolesOK'
    BY <1>1, <1>4, HeldFrame, RolesUntouched DEF ServiceInv, SocketRoles, Sockets
  <1> QED
    BY <1>1, <1>2, <1>3, <1>5, HttpOnly DEF ServiceInv, ServiceTypes

LEMMA HttpSelect ==
    ASSUME ServiceInv, http_select
    PROVE  ServiceInv'
  <1>1. /\ http \in HttpState /\ HttpOK /\ http.at = "select" /\ uses(http.fd, "listen")
        /\ UNCHANGED <<control, gena, ssdp, starts>>
    BY DEF ServiceInv, ServiceTypes, http_select, Events
  <1>2. http' \in HttpState
    <2>1. PICK at \in HttpSteps, running \in BOOLEAN :
             \/ http' = [http EXCEPT !.at = at]
             \/ http' = [http EXCEPT !.at = at, !.running = running]
      BY DEF http_select, HttpSteps
    <2> QED
      BY <1>1, <2>1 DEF HttpState
  <1>3. HttpOK'
    <2>1. CASE http' = [http EXCEPT !.at = "top"] /\ http.running
      BY <1>1, <2>1, DlnaFacts DEF HttpState, HttpOK, HttpLives
    <2>2. CASE http' = [http EXCEPT !.at = "exited"]
      BY <1>1, <2>2, DlnaFacts DEF HttpState, HttpOK, HttpLives
    <2>3. CASE http' = [http EXCEPT !.at = "accept"]
      BY <1>1, <2>3, DlnaFacts DEF HttpState, HttpOK, HttpLives
    <2>4. CASE http' = [http EXCEPT !.at = "exited", !.running = FALSE]
      BY <1>1, <2>4, DlnaFacts DEF HttpState, HttpOK, HttpLives
    <2> QED
      BY <2>1, <2>2, <2>3, <2>4 DEF http_select
  <1>4. HeldAs("listen")' = HeldAs("listen") /\ HeldAs("client")' = HeldAs("client")
    BY <1>1 DEF http_select, HttpState, HeldAs
  <1>5. http.fd \in HeldAs("listen") \cap Fds
    BY <1>1 DEF HttpOK, HeldAs, HttpState
  <1>6. RolesOK'
    BY <1>1, <1>4, <1>5, HeldFrame, RolesUsed DEF ServiceInv, SocketRoles
  <1> QED
    BY <1>1, <1>2, <1>3, <1>6, HttpOnly, SocketsTyped DEF ServiceInv

LEMMA HttpAccept ==
    ASSUME ServiceInv, http_accept
    PROVE  ServiceInv'
  <1>1. /\ http \in HttpState /\ HttpOK /\ http.at = "accept"
        /\ UNCHANGED <<control, gena, ssdp, starts>>
    BY DEF ServiceInv, ServiceTypes, http_accept, Events
  <1>2. ASSUME NEW fd \in Fds, opens(fd, "client"), http' = [http EXCEPT !.at = "store", !.fd = fd]
        PROVE  ServiceInv'
    <2>1. http' \in HttpState
      BY <1>1, <1>2 DEF HttpState, HttpSteps
    <2>2. HttpOK'
      BY <1>1, <1>2, DlnaFacts DEF HttpState, HttpOK, HttpLives
    <2>3. HeldAs("listen")' = HeldAs("listen") /\ HeldAs("client")' = HeldAs("client") \cup {fd}
      BY <1>1, <1>2, DlnaFacts DEF HttpState, HeldAs
    <2>4. RolesOK'
      BY <1>1, <1>2, <2>3, HeldFrame, RolesOpened DEF ServiceInv, SocketRoles
    <2> QED
      BY <1>1, <1>2, <2>1, <2>2, <2>4, HttpOnly, SocketsTyped DEF ServiceInv, SocketRoles
  <1>3. ASSUME http' = [http EXCEPT !.at = "top"], uses(http.fd, "listen")
        PROVE  ServiceInv'
    <2>1. http' \in HttpState
      BY <1>1, <1>3 DEF HttpState, HttpSteps
    <2>2. HttpOK'
      BY <1>1, <1>3, DlnaFacts DEF HttpState, HttpOK, HttpLives
    <2>3. HeldAs("listen")' = HeldAs("listen") /\ HeldAs("client")' = HeldAs("client")
      BY <1>1, <1>3 DEF HttpState, HeldAs
    <2>4. http.fd \in HeldAs("listen") \cap Fds
      BY <1>1 DEF HttpOK, HeldAs, HttpState
    <2>5. RolesOK'
      BY <1>1, <1>3, <2>3, <2>4, HeldFrame, RolesUsed DEF ServiceInv, SocketRoles
    <2> QED
      BY <1>1, <1>3, <2>1, <2>2, <2>5, HttpOnly, SocketsTyped DEF ServiceInv
  <1> QED
    BY <1>2, <1>3 DEF http_accept

LEMMA HttpStoresChecks ==
    ASSUME ServiceInv, http_store \/ http_check
    PROVE  ServiceInv'
  <1>1. /\ http \in HttpState /\ HttpOK
        /\ UNCHANGED <<control, roles, misused, gena, ssdp, starts>>
    BY DEF ServiceInv, ServiceTypes, http_store, http_check, Sockets, Events
  <1>2. http' \in HttpState
    BY <1>1 DEF http_store, http_check, HttpState, HttpSteps
  <1>3. /\ HttpOK'
        /\ HeldAs("listen")' = HeldAs("listen") /\ HeldAs("client")' = HeldAs("client")
    <2>1. CASE http_store
      <3>1. http.at = "store" /\ http' = [http EXCEPT !.at = "check", !.client = http.fd]
        BY <2>1 DEF http_store
      <3>2. http.client = NoFd /\ http.took_client = NoFd /\ http.fd # NoFd
        BY <1>1, <3>1 DEF HttpOK
      <3>3. HttpOK'
        BY <1>1, <3>1, <3>2 DEF HttpState, HttpOK, HttpLives
      <3> QED
        BY <1>1, <3>1, <3>2, <3>3 DEF HttpState, HeldAs
    <2>2. CASE http_check
      <3>1. http.at = "check" /\ \E at \in {"handle", "done"} : http' = [http EXCEPT !.at = at]
        BY <2>2 DEF http_check
      <3>2. HttpOK'
        BY <1>1, <3>1 DEF HttpState, HttpOK, HttpLives
      <3> QED
        BY <1>1, <3>1, <3>2 DEF HttpState, HeldAs
    <2> QED
      BY <2>1, <2>2
  <1>4. RolesOK'
    BY <1>1, <1>3, HeldFrame, RolesUntouched DEF ServiceInv, SocketRoles, Sockets
  <1> QED
    BY <1>1, <1>2, <1>3, <1>4, HttpOnly DEF ServiceInv, ServiceTypes

LEMMA HttpDone ==
    ASSUME ServiceInv, http_done
    PROVE  ServiceInv'
  <1>1. /\ http \in HttpState /\ HttpOK /\ http.at = "done" /\ http.fd \in Fds
        /\ UNCHANGED <<control, gena, ssdp, starts>>
    BY DEF ServiceInv, ServiceTypes, http_done, Events, HttpOK, HttpState
  <1>2. http' \in HttpState
    <2>1. \/ http' = [http EXCEPT !.at = "top"]
          \/ http' = [http EXCEPT !.at = "top", !.client = NoFd]
      BY DEF http_done
    <2> QED
      BY <1>1, <2>1 DEF HttpState, HttpSteps
  <1>3. HttpOK'
    <2>1. CASE http.client = http.fd
      <3>1. http' = [http EXCEPT !.at = "top", !.client = NoFd]
        BY <2>1 DEF http_done
      <3> QED
        BY <1>1, <2>1, <3>1 DEF HttpState, HttpOK, HttpLives
    <2>2. CASE http.client # http.fd
      <3>1. http' = [http EXCEPT !.at = "top"] /\ http.client = NoFd
        BY <1>1, <2>2 DEF http_done, HttpOK
      <3> QED
        BY <1>1, <2>2, <3>1 DEF HttpState, HttpOK, HttpLives
    <2> QED
      BY <2>1, <2>2
  <1>4. HeldAs("listen")' = HeldAs("listen")
    BY <1>1 DEF http_done, HttpState, HeldAs
  <1>5. CASE http.client = http.fd
    <2>1. closes({http.fd}, "client") /\ http' = [http EXCEPT !.at = "top", !.client = NoFd]
      BY <1>5 DEF http_done
    <2>2. HeldAs("client") = {http.fd} /\ HeldAs("client")' = {}
      BY <1>1, <1>5, <2>1, DlnaFacts DEF HttpState, HeldAs, HttpOK
    <2>3. RolesOK'
      BY <1>1, <1>4, <2>1, <2>2, HeldFrame, RolesClosed DEF ServiceInv, SocketRoles
    <2> QED
      BY <1>1, <1>2, <1>3, <2>1, <2>3, HttpOnly, SocketsTyped DEF ServiceInv
  <1>6. CASE http.client # http.fd
    <2>1. UNCHANGED Sockets /\ http' = [http EXCEPT !.at = "top"]
      BY <1>6 DEF http_done
    <2>2. HeldAs("client")' = HeldAs("client")
      BY <1>1, <2>1 DEF HttpState, HeldAs
    <2>3. RolesOK'
      BY <1>1, <1>4, <2>1, <2>2, HeldFrame, RolesUntouched DEF ServiceInv, SocketRoles
    <2> QED
      BY <1>1, <1>2, <1>3, <2>1, <2>3, HttpOnly, SocketsTyped DEF ServiceInv
  <1> QED
    BY <1>5, <1>6

LEMMA Handled ==
    ASSUME ServiceInv, handled, UNCHANGED gena
    PROVE  ServiceInv'
  <1>1. /\ http \in HttpState /\ HttpOK /\ http.at = "handle" /\ http.fd \in Fds
        /\ http' = [http EXCEPT !.at = "done"]
        /\ UNCHANGED <<control, gena, ssdp, starts>>
    BY DEF ServiceInv, ServiceTypes, handled, HttpOK, HttpState
  <1>2. http' \in HttpState
    BY <1>1 DEF HttpState, HttpSteps
  <1>3. HttpOK'
    BY <1>1, <1>2, DlnaFacts DEF HttpState, HttpOK, HttpLives
  <1>4. HeldAs("listen")' = HeldAs("listen") /\ HeldAs("client")' = HeldAs("client")
    BY <1>1 DEF HttpState, HeldAs
  <1>5. http.fd \in HeldAs("client")
    BY <1>1, DlnaFacts DEF HttpState, HeldAs, HttpOK
  <1>6. RolesOK'
    BY <1>1, <1>4, <1>5, HeldFrame, RolesUsed, RolesUntouched DEF ServiceInv, SocketRoles, handled
  <1>7. roles' \in [Fds -> Roles] /\ misused' \in BOOLEAN
    BY SocketsTyped DEF handled, ServiceInv
  <1> QED
    BY <1>1, <1>2, <1>3, <1>6, <1>7, HttpOnly

-----------------------------------------------------------------------------
(* The event thread: the sockets. *)

LEMMA GenaOnly ==
    ASSUME ServiceInv, UNCHANGED <<control, http, ssdp, starts>>, gena' \in GenaState, GenaOK',
           RolesOK', roles' \in [Fds -> Roles], misused' \in BOOLEAN
    PROVE  ServiceInv'
  <1>1. HttpOK' /\ SsdpOK'
    BY DEF ServiceInv, HttpOK, SsdpOK
  <1> QED
    BY <1>1 DEF ServiceInv, ServiceTypes

\* A step that opens and closes nothing, and leaves what is held.
LEMMA GenaQuiet ==
    ASSUME ServiceInv, UNCHANGED <<control, http, ssdp, starts>>, UNCHANGED Sockets,
           gena' \in GenaState, GenaOK', HeldAs("notify")' = HeldAs("notify")
    PROVE  ServiceInv'
  <1>1. RolesOK'
    BY HeldFrame, RolesUntouched DEF ServiceInv, SocketRoles
  <1> QED
    BY <1>1, GenaOnly, SocketsTyped DEF ServiceInv

LEMMA EventWakesNext ==
    ASSUME ServiceInv, event_wakes \/ event_next, gena' \in GenaState
    PROVE  ServiceInv'
  <1>1. /\ gena \in GenaState /\ GenaOK /\ UNCHANGED Sockets
        /\ UNCHANGED <<control, http, ssdp, starts>>
    BY DEF ServiceInv, ServiceTypes, event_wakes, event_next, Sockets
  <1>2. PICK at \in {"exited", "next", "wait", "socket"}, todo \in SUBSET Targets :
           gena' = [gena EXCEPT !.at = at, !.todo = todo]
    <2>1. PICK at, todo : gena' = [gena EXCEPT !.at = at, !.todo = todo]
                          /\ at \in {"exited", "next", "wait", "socket"}
      <3>1. CASE event_wakes /\ gena.stop
        <4>1. gena' = [gena EXCEPT !.at = "exited"]
          BY <3>1 DEF event_wakes
        <4>2. gena' = [gena EXCEPT !.at = "exited", !.todo = gena.todo]
          BY <1>1, <4>1 DEF GenaState
        <4> QED
          BY <4>2
      <3>2. CASE event_wakes /\ ~gena.stop
        BY <3>2 DEF event_wakes
      <3>3. CASE event_next
        BY <3>3 DEF event_next
      <3> QED
        BY <3>1, <3>2, <3>3
    <2>2. todo \in SUBSET Targets
      BY <1>1, <2>1 DEF GenaState
    <2> QED
      BY <2>1, <2>2
  <1>3. /\ gena.at \in {"wait", "next"}
        /\ at = "wait" => todo = {}
        /\ at = "socket" => ~gena.stop
    <2>1. gena'.at = at /\ gena'.todo = todo
      BY <1>1, <1>2 DEF GenaState
    <2>2. CASE event_wakes
      BY <1>1, <2>1, <2>2 DEF event_wakes, GenaState
    <2>3. CASE event_next
      BY <1>1, <2>1, <2>3 DEF event_next, GenaState
    <2> QED
      BY <2>2, <2>3
  <1>4. GenaOK'
    BY <1>1, <1>2, <1>3 DEF GenaState, GenaOK, GenaLives, HttpLives
  <1>5. HeldAs("notify")' = HeldAs("notify")
    BY <1>1, <1>2, <1>3 DEF GenaState, HeldAs
  <1> QED
    BY <1>1, <1>4, <1>5, GenaQuiet

LEMMA EventSocket ==
    ASSUME ServiceInv, event_socket
    PROVE  ServiceInv' /\ gena' \in GenaState
  <1>1. /\ gena \in GenaState /\ GenaOK /\ gena.at = "socket"
        /\ UNCHANGED <<control, http, ssdp, starts>>
    BY DEF ServiceInv, ServiceTypes, event_socket, sends_on
  <1>2. ASSUME NEW fd \in Fds, opens(fd, "notify"), gena' = [gena EXCEPT !.at = "store", !.fd = fd]
        PROVE  ServiceInv' /\ gena' \in GenaState
    <2>1. gena' \in GenaState
      BY <1>1, <1>2 DEF GenaState, GenaSteps
    <2>2. GenaOK'
      BY <1>1, <1>2, DlnaFacts DEF GenaState, GenaOK, GenaLives, HttpLives
    <2>3. HeldAs("notify")' = HeldAs("notify") \cup {fd}
      BY <1>1, <1>2, DlnaFacts DEF GenaState, HeldAs
    <2>4. RolesOK'
      BY <1>1, <1>2, <2>3, HeldFrame, RolesOpened DEF ServiceInv, SocketRoles
    <2> QED
      BY <1>1, <1>2, <2>1, <2>2, <2>4, GenaOnly, SocketsTyped DEF ServiceInv, SocketRoles
  <1>3. ASSUME gena' = [gena EXCEPT !.at = "next"], UNCHANGED Sockets
        PROVE  ServiceInv' /\ gena' \in GenaState
    <2>1. gena' \in GenaState
      BY <1>1, <1>3 DEF GenaState, GenaSteps
    <2>2. GenaOK'
      BY <1>1, <1>3, DlnaFacts DEF GenaState, GenaOK, GenaLives, HttpLives
    <2>3. HeldAs("notify")' = HeldAs("notify")
      BY <1>1, <1>3 DEF GenaState, HeldAs
    <2> QED
      BY <1>1, <1>3, <2>1, <2>2, <2>3, GenaQuiet
  <1> QED
    BY <1>2, <1>3 DEF event_socket

LEMMA EventStoresChecks ==
    ASSUME ServiceInv, event_store \/ event_check
    PROVE  ServiceInv' /\ gena' \in GenaState
  <1>1. /\ gena \in GenaState /\ GenaOK /\ UNCHANGED Sockets
        /\ UNCHANGED <<control, http, ssdp, starts>>
    BY DEF ServiceInv, ServiceTypes, event_store, event_check, sends_on
  <1>2. CASE event_store
    <2>1. gena.at = "store" /\ gena' = [gena EXCEPT !.at = "check", !.active = gena.fd]
      BY <1>2 DEF event_store
    <2>2. gena.active = NoFd /\ gena.took = NoFd /\ gena.fd # NoFd
      BY <1>1, <2>1 DEF GenaOK
    <2>3. gena' \in GenaState
      BY <1>1, <2>1 DEF GenaState, GenaSteps
    <2>4. GenaOK'
      BY <1>1, <2>1, <2>2 DEF GenaState, GenaOK, GenaLives, HttpLives
    <2>5. HeldAs("notify")' = HeldAs("notify")
      BY <1>1, <2>1, <2>2 DEF GenaState, HeldAs
    <2> QED
      BY <1>1, <2>3, <2>4, <2>5, GenaQuiet
  <1>3. CASE event_check
    <2>1. gena.at = "check" /\ \E at \in {"finish", "connect"} : gena' = [gena EXCEPT !.at = at]
      BY <1>3 DEF event_check
    <2>2. gena' \in GenaState
      BY <1>1, <2>1 DEF GenaState, GenaSteps
    <2>3. GenaOK'
      BY <1>1, <2>1 DEF GenaState, GenaOK, GenaLives, HttpLives
    <2>4. HeldAs("notify")' = HeldAs("notify")
      BY <1>1, <2>1 DEF GenaState, HeldAs
    <2> QED
      BY <1>1, <2>2, <2>3, <2>4, GenaQuiet
  <1> QED
    BY <1>2, <1>3

LEMMA EventSends ==
    ASSUME ServiceInv, event_connect \/ event_send
    PROVE  ServiceInv' /\ gena' \in GenaState
  <1>1. /\ gena \in GenaState /\ GenaOK /\ gena.at \in {"connect", "send"}
        /\ UNCHANGED <<control, http, ssdp, starts>>
    BY DEF ServiceInv, ServiceTypes, event_connect, event_send, sends_on
  <1>2. PICK at \in {"finish", "send"} : gena' = [gena EXCEPT !.at = at]
    BY DEF event_connect, event_send
  <1>3. gena' \in GenaState
    BY <1>1, <1>2 DEF GenaState, GenaSteps
  <1>4. GenaOK'
    BY <1>1, <1>2 DEF GenaState, GenaOK, GenaLives, HttpLives
  <1>5. HeldAs("notify")' = HeldAs("notify")
    BY <1>1, <1>2 DEF GenaState, HeldAs
  <1>6. gena.fd \in HeldAs("notify") \cap Fds
    BY <1>1, DlnaFacts DEF GenaState, GenaOK, HeldAs
  <1>7. UNCHANGED Sockets \/ uses(gena.fd, "notify")
    BY DEF event_connect, event_send
  <1>8. RolesOK'
    BY <1>1, <1>5, <1>6, <1>7, HeldFrame, RolesUsed, RolesUntouched DEF ServiceInv, SocketRoles
  <1> QED
    BY <1>1, <1>3, <1>4, <1>7, <1>8, GenaOnly, SocketsTyped DEF ServiceInv

LEMMA EventFinish ==
    ASSUME ServiceInv, event_finish
    PROVE  ServiceInv' /\ gena' \in GenaState
  <1>1. /\ gena \in GenaState /\ GenaOK /\ gena.at = "finish" /\ gena.fd \in Fds
        /\ UNCHANGED <<control, http, ssdp, starts>>
    BY DEF ServiceInv, ServiceTypes, event_finish, sends_on, GenaState, GenaOK
  <1>2. CASE gena.active = gena.fd
    <2>1. closes({gena.fd}, "notify") /\ gena' = [gena EXCEPT !.at = "next", !.active = NoFd]
      BY <1>2 DEF event_finish
    <2>2. gena' \in GenaState
      BY <1>1, <2>1 DEF GenaState, GenaSteps
    <2>3. GenaOK'
      BY <1>1, <2>1 DEF GenaState, GenaOK, GenaLives, HttpLives
    <2>4. HeldAs("notify") = {gena.fd} /\ HeldAs("notify")' = {}
      BY <1>1, <1>2, <2>1, DlnaFacts DEF GenaState, HeldAs, GenaOK
    <2>5. RolesOK'
      BY <1>1, <2>1, <2>4, HeldFrame, RolesClosed DEF ServiceInv, SocketRoles
    <2> QED
      BY <1>1, <2>1, <2>2, <2>3, <2>5, GenaOnly, SocketsTyped DEF ServiceInv
  <1>3. CASE gena.active # gena.fd
    <2>1. gena.active = NoFd /\ UNCHANGED Sockets /\ gena' = [gena EXCEPT !.at = "next"]
      BY <1>1, <1>3 DEF event_finish, GenaOK
    <2>2. gena' \in GenaState
      BY <1>1, <2>1 DEF GenaState, GenaSteps
    <2>3. GenaOK'
      BY <1>1, <2>1 DEF GenaState, GenaOK, GenaLives, HttpLives
    <2>4. HeldAs("notify")' = HeldAs("notify")
      BY <1>1, <2>1 DEF GenaState, HeldAs
    <2> QED
      BY <1>1, <2>1, <2>2, <2>3, <2>4, GenaQuiet
  <1> QED
    BY <1>2, <1>3

-----------------------------------------------------------------------------
(* The SSDP responder. *)

LEMMA SsdpOnly ==
    ASSUME ServiceInv, UNCHANGED <<control, http, gena, starts>>, ssdp' \in SsdpState, SsdpOK',
           HeldAs("ssdp")' = HeldAs("ssdp"),
           \/ UNCHANGED Sockets
           \/ \E fd \in HeldAs("ssdp") \cap Fds : uses(fd, "ssdp")
    PROVE  ServiceInv'
  <1>1. HttpOK' /\ GenaOK'
    BY DEF ServiceInv, HttpOK, GenaOK
  <1>2. RolesOK'
    BY HeldFrame, RolesUsed, RolesUntouched DEF ServiceInv, SocketRoles
  <1>3. roles' \in [Fds -> Roles] /\ misused' \in BOOLEAN
    BY SocketsTyped DEF ServiceInv
  <1> QED
    BY <1>1, <1>2, <1>3 DEF ServiceInv, ServiceTypes

LEMMA SsdpStep ==
    ASSUME ServiceInv, ssdp_top \/ ssdp_select \/ ssdp_alive \/ ssdp_searched \/ ssdp_suspends
    PROVE  ServiceInv'
  <1>1. ssdp \in SsdpState /\ SsdpOK /\ UNCHANGED <<control, http, gena, starts>>
    BY DEF ServiceInv, ServiceTypes, ssdp_top, ssdp_select, ssdp_alive, ssdp_searched,
           ssdp_suspends, others_of_ssdp, Events
  <1>2. /\ ssdp' \in SsdpState /\ ssdp'.fd = ssdp.fd /\ ssdp'.took = ssdp.took
        /\ ssdp'.running = ssdp.running /\ (ssdp'.at = "none" <=> ssdp.at = "none")
    <2>1. CASE ssdp_top
      BY <1>1, <2>1 DEF ssdp_top, SsdpState, SsdpSteps
    <2>2. CASE ssdp_select
      BY <1>1, <2>2 DEF ssdp_select, SsdpState, SsdpSteps
    <2>3. CASE ssdp_alive \/ ssdp_searched
      BY <1>1, <2>3 DEF ssdp_alive, ssdp_searched, SsdpState, SsdpSteps
    <2>4. CASE ssdp_suspends
      BY <1>1, <2>4 DEF ssdp_suspends, SsdpState, SsdpSteps
    <2> QED
      BY <2>1, <2>2, <2>3, <2>4
  <1>3. HeldAs("ssdp")' = HeldAs("ssdp")
    BY <1>2 DEF HeldAs
  <1>4. ssdp.at = "none" => ~ssdp_top /\ ~ssdp_select /\ ~ssdp_alive /\ ~ssdp_searched /\ ~ssdp_suspends
    BY <1>1 DEF ssdp_top, ssdp_select, ssdp_alive, ssdp_searched, ssdp_suspends, SsdpOK, SsdpLives
  <1>5. SsdpOK'
    BY <1>1, <1>2, <1>4 DEF SsdpOK
  <1>6. /\ (IF ssdp.took # NoFd THEN ssdp.took ELSE ssdp.fd) \in HeldAs("ssdp") \cap Fds
        /\ ssdp.fd # NoFd => ssdp.fd \in HeldAs("ssdp") \cap Fds
        /\ ssdp.running => ssdp.fd # NoFd
    BY <1>1, <1>4, DlnaFacts DEF SsdpState, SsdpOK, SsdpLives, HeldAs
  <1>7. UNCHANGED Sockets \/ \E fd \in HeldAs("ssdp") \cap Fds : uses(fd, "ssdp")
    BY <1>6 DEF ssdp_top, ssdp_select, ssdp_alive, ssdp_searched, ssdp_suspends, ssdp_sends
  <1> QED
    BY <1>1, <1>2, <1>3, <1>5, <1>7, SsdpOnly

-----------------------------------------------------------------------------
(* dlna_control_start and dlna_control_stop. *)

LEMMA ControlStarts ==
    ASSUME ServiceInv, control_starts
    PROVE  ServiceInv'
  <1>1. /\ control = "off" /\ control' = "event" /\ starts' \in 0 .. MaxDlnaStarts
        /\ UNCHANGED Sockets /\ UNCHANGED <<roles, misused, http, gena, ssdp>>
    BY DlnaAssumption DEF control_starts, ServiceInv, ServiceTypes, Sockets, Events
  <1>2. HttpOK' /\ GenaOK' /\ SsdpOK'
    BY <1>1 DEF ServiceInv, HttpOK, GenaOK, SsdpOK, HttpLives, GenaLives, SsdpLives
  <1>3. RolesOK'
    BY <1>1, HeldFrame, RolesUntouched DEF ServiceInv, SocketRoles
  <1> QED
    BY <1>1, <1>2, <1>3 DEF ServiceInv, ServiceTypes, Phases

LEMMA ControlStartsEvent ==
    ASSUME ServiceInv, control_starts_event
    PROVE  ServiceInv' /\ gena' \in GenaState
  <1>1. /\ control = "event" /\ gena = QuietGena
        /\ UNCHANGED Sockets /\ UNCHANGED <<roles, misused, http, ssdp, starts>>
    BY DEF control_starts_event, ServiceInv, GenaOK, GenaLives, HttpLives, Sockets
  <1>2. HttpOK' /\ SsdpOK' /\ control' \in Phases
    BY <1>1 DEF control_starts_event, ServiceInv, HttpOK, SsdpOK, HttpLives, SsdpLives, Phases
  <1>3. gena' \in GenaState /\ GenaOK'
    <2>1. CASE control' = "http" /\ gena' = [QuietGena EXCEPT !.at = "wait"]
      <3>1. gena' \in GenaState
        BY <2>1 DEF QuietGena, GenaState, GenaSteps
      <3> QED
        BY <2>1, <3>1 DEF GenaOK, GenaLives, HttpLives, QuietGena
    <2>2. CASE control' = "stop_soap" /\ UNCHANGED gena
      BY <1>1, <2>2, DlnaFacts DEF GenaOK, GenaLives, HttpLives, QuietGena
    <2> QED
      BY <2>1, <2>2 DEF control_starts_event
  <1>4. HeldAs("notify")' = HeldAs("notify")
    BY <1>1 DEF control_starts_event, HeldAs, QuietGena
  <1>5. RolesOK'
    BY <1>1, <1>4, HeldFrame, RolesUntouched DEF ServiceInv, SocketRoles
  <1> QED
    BY <1>1, <1>2, <1>3, <1>5 DEF ServiceInv, ServiceTypes

LEMMA ControlStartsHttp ==
    ASSUME ServiceInv, control_starts_http
    PROVE  ServiceInv'
  <1>1. /\ control = "http" /\ http = QuietHttp /\ UNCHANGED <<gena, ssdp, starts>>
    BY DEF control_starts_http, ServiceInv, HttpOK, HttpLives, Events
  <1>2. ASSUME NEW fd \in Fds, opens(fd, "listen"), control' = "ssdp",
               http' = [QuietHttp EXCEPT !.at = "top", !.running = TRUE, !.listen = fd]
        PROVE  ServiceInv'
    <2>1. http' \in HttpState
      BY <1>2 DEF QuietHttp, HttpState, HttpSteps
    <2>2. HttpOK'
      BY <1>1, <1>2, DlnaFacts DEF HttpOK, HttpLives, QuietHttp
    <2>3. GenaOK' /\ SsdpOK'
      BY <1>1, <1>2 DEF ServiceInv, GenaOK, SsdpOK, GenaLives, HttpLives, SsdpLives
    <2>4. HeldAs("listen")' = HeldAs("listen") \cup {fd} /\ HeldAs("client")' = HeldAs("client")
      BY <1>1, <1>2, DlnaFacts DEF HeldAs, QuietHttp
    <2>5. RolesOK'
      BY <1>1, <1>2, <2>4, HeldFrame, RolesOpened DEF ServiceInv, SocketRoles
    <2>6. roles' \in [Fds -> Roles] /\ misused' \in BOOLEAN
      BY <1>2, SocketsTyped DEF ServiceInv, SocketRoles
    <2> QED
      BY <1>1, <1>2, <2>1, <2>2, <2>3, <2>5, <2>6 DEF ServiceInv, ServiceTypes, Phases
  <1>3. ASSUME control' = "stop_event", UNCHANGED <<Sockets, http>>
        PROVE  ServiceInv'
    <2>1. HttpOK' /\ GenaOK' /\ SsdpOK'
      BY <1>1, <1>3 DEF ServiceInv, HttpOK, GenaOK, SsdpOK, GenaLives, HttpLives, SsdpLives
    <2>2. RolesOK'
      BY <1>1, <1>3, HeldFrame, RolesUntouched DEF ServiceInv, SocketRoles
    <2> QED
      BY <1>1, <1>3, <2>1, <2>2 DEF ServiceInv, ServiceTypes, Phases, Sockets
  <1> QED
    BY <1>2, <1>3 DEF control_starts_http

LEMMA ControlStartsSsdp ==
    ASSUME ServiceInv, control_starts_ssdp
    PROVE  ServiceInv'
  <1>1. /\ control = "ssdp" /\ ssdp = QuietSsdp /\ UNCHANGED <<http, gena, starts>>
    BY DEF control_starts_ssdp, ServiceInv, SsdpOK, SsdpLives, Events
  <1>2. ASSUME NEW fd \in Fds, opens(fd, "ssdp"), control' = "on",
               ssdp' = [QuietSsdp EXCEPT !.at = "top", !.running = TRUE, !.fd = fd]
        PROVE  ServiceInv'
    <2>1. ssdp' \in SsdpState
      BY <1>2 DEF QuietSsdp, SsdpState, SsdpSteps
    <2>2. SsdpOK'
      BY <1>1, <1>2, DlnaFacts DEF SsdpOK, SsdpLives, QuietSsdp
    <2>3. HttpOK' /\ GenaOK'
      BY <1>1, <1>2 DEF ServiceInv, GenaOK, HttpOK, GenaLives, HttpLives
    <2>4. HeldAs("ssdp")' = HeldAs("ssdp") \cup {fd}
      BY <1>1, <1>2, DlnaFacts DEF HeldAs, QuietSsdp
    <2>5. RolesOK'
      BY <1>1, <1>2, <2>4, HeldFrame, RolesOpened DEF ServiceInv, SocketRoles
    <2>6. roles' \in [Fds -> Roles] /\ misused' \in BOOLEAN
      BY <1>2, SocketsTyped DEF ServiceInv, SocketRoles
    <2> QED
      BY <1>1, <1>2, <2>1, <2>2, <2>3, <2>5, <2>6 DEF ServiceInv, ServiceTypes, Phases
  <1>3. ASSUME control' = "stop_http", UNCHANGED <<Sockets, ssdp>>
        PROVE  ServiceInv'
    <2>1. HttpOK' /\ GenaOK' /\ SsdpOK'
      BY <1>1, <1>3 DEF ServiceInv, HttpOK, GenaOK, SsdpOK, GenaLives, HttpLives, SsdpLives
    <2>2. RolesOK'
      BY <1>1, <1>3, HeldFrame, RolesUntouched DEF ServiceInv, SocketRoles
    <2> QED
      BY <1>1, <1>3, <2>1, <2>2 DEF ServiceInv, ServiceTypes, Phases, Sockets
  <1> QED
    BY <1>2, <1>3 DEF control_starts_ssdp

\* ssdp_stop
LEMMA ControlStopsSsdp ==
    ASSUME ServiceInv, control_stops \/ control_takes_ssdp \/ control_joins_ssdp
    PROVE  ServiceInv'
  <1>1. ssdp \in SsdpState /\ SsdpOK /\ UNCHANGED <<http, gena, starts>>
    BY DEF ServiceInv, ServiceTypes, control_stops, control_takes_ssdp, control_joins_ssdp, Events
  <1>2. /\ control \in {"on", "take_ssdp", "join_ssdp"}
        /\ control' \in {"take_ssdp", "join_ssdp", "stop_http"}
    BY DEF control_stops, control_takes_ssdp, control_joins_ssdp
  <1>3. HttpOK' /\ GenaOK' /\ control' \in Phases
    BY <1>1, <1>2 DEF ServiceInv, HttpOK, GenaOK, GenaLives, HttpLives, Phases
  <1>4. roles' \in [Fds -> Roles] /\ misused' \in BOOLEAN
    BY SocketsTyped DEF ServiceInv, control_stops, control_takes_ssdp, control_joins_ssdp,
                        send_byebye_notifications
  <1>5. CASE control_stops
    <2>1. control = "on" /\ control' = "take_ssdp" /\ ssdp' = [ssdp EXCEPT !.running = FALSE]
      BY <1>5 DEF control_stops
    <2>2. ssdp' \in SsdpState /\ SsdpOK'
      BY <1>1, <2>1 DEF SsdpState, SsdpOK, SsdpLives
    <2>3. HeldAs("ssdp")' = HeldAs("ssdp") /\ ssdp.fd \in HeldAs("ssdp") \cap Fds
      BY <1>1, <2>1 DEF SsdpState, SsdpOK, HeldAs
    <2>4. RolesOK'
      BY <1>1, <1>5, <2>3, HeldFrame, RolesUsed
         DEF ServiceInv, SocketRoles, control_stops, send_byebye_notifications
    <2> QED
      BY <1>1, <1>3, <1>4, <2>2, <2>4 DEF ServiceInv, ServiceTypes
  <1>6. CASE control_takes_ssdp
    <2>1. /\ control = "take_ssdp" /\ control' = "join_ssdp"
          /\ ssdp' = [ssdp EXCEPT !.fd = NoFd, !.took = ssdp.fd]
      BY <1>6 DEF control_takes_ssdp
    <2>2. ssdp' \in SsdpState /\ SsdpOK'
      BY <1>1, <2>1 DEF SsdpState, SsdpOK, SsdpLives
    <2>3. HeldAs("ssdp")' = HeldAs("ssdp")
      BY <1>1, <2>1 DEF SsdpState, SsdpOK, HeldAs
    <2>4. RolesOK'
      BY <1>1, <1>6, <2>3, HeldFrame, RolesUntouched DEF ServiceInv, SocketRoles, control_takes_ssdp
    <2> QED
      BY <1>1, <1>3, <1>4, <2>2, <2>4 DEF ServiceInv, ServiceTypes
  <1>7. CASE control_joins_ssdp
    <2>1. /\ control = "join_ssdp" /\ control' = "stop_http" /\ ssdp' = QuietSsdp
          /\ closes({ssdp.took} \ {NoFd}, "ssdp")
      BY <1>7 DEF control_joins_ssdp
    <2>2. ssdp' \in SsdpState /\ SsdpOK'
      BY <2>1, DlnaFacts DEF SsdpOK, SsdpLives, QuietSsdp
    <2>3. /\ {ssdp.took} \ {NoFd} \in SUBSET Fds
          /\ HeldAs("ssdp") = {ssdp.took} \ {NoFd} /\ HeldAs("ssdp")' = {}
      BY <1>1, <2>1 DEF SsdpState, SsdpOK, HeldAs, QuietSsdp
    <2>4. RolesOK'
      BY <1>1, <2>1, <2>3, HeldFrame, RolesClosed DEF ServiceInv, SocketRoles
    <2> QED
      BY <1>1, <1>3, <1>4, <2>2, <2>4 DEF ServiceInv, ServiceTypes
  <1> QED
    BY <1>5, <1>6, <1>7

\* http_server_stop: the stop takes the client only if the thread still has it.
LEMMA ControlTakesHttp ==
    ASSUME ServiceInv, control_stops_http \/ control_takes_listen \/ control_takes_client
    PROVE  ServiceInv'
  <1>1. /\ http \in HttpState /\ HttpOK /\ UNCHANGED Sockets
        /\ UNCHANGED <<roles, misused, gena, ssdp, starts>>
    BY DEF ServiceInv, ServiceTypes, control_stops_http, control_takes_listen,
           control_takes_client, Events, Sockets
  <1>2. /\ control \in {"stop_http", "take_listen", "take_client"}
        /\ control' \in {"take_listen", "take_client", "join_http"}
    BY DEF control_stops_http, control_takes_listen, control_takes_client
  <1>3. SsdpOK' /\ GenaOK' /\ control' \in Phases
    BY <1>1, <1>2 DEF ServiceInv, SsdpOK, GenaOK, SsdpLives, GenaLives, HttpLives, Phases
  <1>4. /\ http' \in HttpState /\ HttpOK'
        /\ HeldAs("listen")' = HeldAs("listen") /\ HeldAs("client")' = HeldAs("client")
    <2>1. CASE control_stops_http
      <3>1. /\ control = "stop_http" /\ control' = "take_listen"
            /\ http' = [http EXCEPT !.running = FALSE]
        BY <2>1 DEF control_stops_http
      <3>2. http' \in HttpState
        BY <1>1, <3>1 DEF HttpState
      <3>3. HttpOK'
        BY <1>1, <3>1 DEF HttpState, HttpOK, HttpLives
      <3> QED
        BY <1>1, <3>1, <3>2, <3>3 DEF HttpState, HeldAs
    <2>2. CASE control_takes_listen
      <3>1. /\ control = "take_listen" /\ control' = "take_client"
            /\ http' = [http EXCEPT !.listen = NoFd, !.took_listen = http.listen]
        BY <2>2 DEF control_takes_listen
      <3>2. http' \in HttpState
        BY <1>1, <3>1 DEF HttpState
      <3>3. HttpOK'
        BY <1>1, <3>1, DlnaFacts DEF HttpState, HttpOK, HttpLives
      <3> QED
        BY <1>1, <3>1, <3>2, <3>3 DEF HttpState, HeldAs, HttpOK, HttpLives
    <2>3. CASE control_takes_client
      <3>1. /\ control = "take_client" /\ control' = "join_http"
            /\ http' = [http EXCEPT !.client = NoFd, !.took_client = http.client]
        BY <2>3 DEF control_takes_client
      <3>2. http' \in HttpState
        BY <1>1, <3>1 DEF HttpState
      <3>3. HttpOK'
        BY <1>1, <3>1, DlnaFacts DEF HttpState, HttpOK, HttpLives
      <3> QED
        BY <1>1, <3>1, <3>2, <3>3 DEF HttpState, HeldAs, HttpOK, HttpLives
    <2> QED
      BY <2>1, <2>2, <2>3
  <1>5. RolesOK'
    BY <1>1, <1>4, HeldFrame, RolesUntouched DEF ServiceInv, SocketRoles
  <1> QED
    BY <1>1, <1>3, <1>4, <1>5 DEF ServiceInv, ServiceTypes

LEMMA ControlJoinsHttp ==
    ASSUME ServiceInv, control_joins_http
    PROVE  ServiceInv'
  <1>1. /\ http \in HttpState /\ HttpOK /\ control = "join_http" /\ control' = "stop_event"
        /\ http.at = "exited" /\ http' = QuietHttp /\ UNCHANGED <<gena, ssdp, starts>>
    BY DEF ServiceInv, ServiceTypes, control_joins_http, Events
  <1>2. http' \in HttpState /\ HttpOK'
    BY <1>1, DlnaFacts DEF HttpOK, HttpLives, QuietHttp
  <1>3. SsdpOK' /\ GenaOK' /\ control' \in Phases
    BY <1>1 DEF ServiceInv, SsdpOK, GenaOK, SsdpLives, GenaLives, HttpLives, Phases
  <1>4. /\ HeldAs("listen") = {http.took_listen} \ {NoFd}
        /\ HeldAs("client") = {http.took_client} \ {NoFd}
        /\ HeldAs("listen")' = {} /\ HeldAs("client")' = {}
    BY <1>1 DEF HttpState, HttpOK, HeldAs, QuietHttp
  <1>5. HeldAs("notify")' = HeldAs("notify") /\ HeldAs("ssdp")' = HeldAs("ssdp")
    BY <1>1, HeldFrame
  <1>6. ~misused'
    BY <1>1, <1>4 DEF ServiceInv, RolesOK, HttpState, control_joins_http, SocketRoles
  <1>7. ASSUME NEW fd \in Fds, NEW role \in SocketRoles
        PROVE  roles'[fd] = role <=> fd \in HeldAs(role)'
    <2>1. roles'[fd] = IF fd \in {http.took_listen, http.took_client} THEN "free" ELSE roles[fd]
      BY DEF control_joins_http
    <2>2. \A r \in SocketRoles : roles[fd] = r <=> fd \in HeldAs(r)
      BY DEF ServiceInv, RolesOK
    <2>3. CASE fd \in {http.took_listen, http.took_client}
      <3>1. roles[fd] \in {"listen", "client"}
        BY <1>4, <2>2, <2>3, DlnaFacts DEF SocketRoles
      <3> QED
        BY <1>4, <1>5, <2>1, <2>2, <2>3, <3>1 DEF SocketRoles
    <2>4. CASE fd \notin {http.took_listen, http.took_client}
      BY <1>4, <1>5, <2>1, <2>2, <2>4 DEF SocketRoles
    <2> QED
      BY <2>3, <2>4
  <1>8. roles' \in [Fds -> Roles] /\ misused' \in BOOLEAN
    BY <1>6 DEF ServiceInv, ServiceTypes, control_joins_http, Roles
  <1> QED
    BY <1>1, <1>2, <1>3, <1>6, <1>7, <1>8 DEF ServiceInv, ServiceTypes, RolesOK

\* event_server_stop, alike
LEMMA ControlStopsEvent ==
    ASSUME ServiceInv, control_stops_event \/ control_takes_event \/ control_joins_event
    PROVE  ServiceInv' /\ gena' \in GenaState
  <1>1. gena \in GenaState /\ GenaOK /\ UNCHANGED <<http, ssdp, starts>>
    BY DEF ServiceInv, ServiceTypes, control_stops_event, control_takes_event, control_joins_event
  <1>2. /\ control \in {"stop_event", "take_event", "join_event"}
        /\ control' \in {"take_event", "join_event", "stop_soap"}
    BY DEF control_stops_event, control_takes_event, control_joins_event
  <1>3. HttpOK' /\ SsdpOK' /\ control' \in Phases
    BY <1>1, <1>2 DEF ServiceInv, HttpOK, SsdpOK, SsdpLives, HttpLives, Phases
  <1>4. roles' \in [Fds -> Roles] /\ misused' \in BOOLEAN
    BY SocketsTyped DEF ServiceInv, control_stops_event, control_takes_event, control_joins_event
  <1>5. CASE control_stops_event
    <2>1. /\ control = "stop_event" /\ control' = "take_event"
          /\ gena' = [gena EXCEPT !.stop = TRUE] /\ UNCHANGED Sockets
      BY <1>5 DEF control_stops_event
    <2>2. gena' \in GenaState
      BY <1>1, <2>1 DEF GenaState
    <2>3. GenaOK'
      BY <1>1, <2>1 DEF GenaState, GenaOK, GenaLives, HttpLives
    <2>4. HeldAs("notify")' = HeldAs("notify")
      BY <1>1, <2>1 DEF GenaState, HeldAs
    <2>5. RolesOK'
      BY <1>1, <2>1, <2>4, HeldFrame, RolesUntouched DEF ServiceInv, SocketRoles
    <2> QED
      BY <1>1, <1>3, <1>4, <2>2, <2>3, <2>5 DEF ServiceInv, ServiceTypes
  <1>6. CASE control_takes_event
    <2>1. /\ control = "take_event" /\ control' = "join_event"
          /\ gena' = [gena EXCEPT !.active = NoFd, !.took = gena.active] /\ UNCHANGED Sockets
      BY <1>6 DEF control_takes_event
    <2>2. gena' \in GenaState
      BY <1>1, <2>1 DEF GenaState
    <2>3. GenaOK'
      BY <1>1, <2>1 DEF GenaState, GenaOK, GenaLives, HttpLives
    <2>4. HeldAs("notify")' = HeldAs("notify")
      BY <1>1, <2>1 DEF GenaState, HeldAs, GenaOK
    <2>5. RolesOK'
      BY <1>1, <2>1, <2>4, HeldFrame, RolesUntouched DEF ServiceInv, SocketRoles
    <2> QED
      BY <1>1, <1>3, <1>4, <2>2, <2>3, <2>5 DEF ServiceInv, ServiceTypes
  <1>7. CASE control_joins_event
    <2>1. /\ control = "join_event" /\ control' = "stop_soap" /\ gena.at = "exited"
          /\ gena' = QuietGena /\ closes({gena.took} \ {NoFd}, "notify")
      BY <1>7 DEF control_joins_event
    <2>2. gena' \in GenaState /\ GenaOK'
      BY <2>1, DlnaFacts DEF GenaOK, GenaLives, HttpLives, QuietGena
    <2>3. /\ {gena.took} \ {NoFd} \in SUBSET Fds
          /\ HeldAs("notify") = {gena.took} \ {NoFd} /\ HeldAs("notify")' = {}
      BY <1>1, <2>1 DEF GenaState, GenaOK, HeldAs, QuietGena
    <2>4. RolesOK'
      BY <1>1, <2>1, <2>3, HeldFrame, RolesClosed DEF ServiceInv, SocketRoles
    <2> QED
      BY <1>1, <1>3, <1>4, <2>2, <2>4 DEF ServiceInv, ServiceTypes
  <1> QED
    BY <1>5, <1>6, <1>7

LEMMA ControlEnds ==
    ASSUME ServiceInv, control_ends
    PROVE  ServiceInv'
  <1>1. /\ control = "stop_soap" /\ control' = "off" /\ UNCHANGED Sockets
        /\ UNCHANGED <<roles, misused, http, gena, ssdp, starts>>
    BY DEF control_ends, Sockets, Events
  <1>2. HttpOK' /\ GenaOK' /\ SsdpOK'
    BY <1>1 DEF ServiceInv, HttpOK, GenaOK, SsdpOK, HttpLives, GenaLives, SsdpLives
  <1>3. RolesOK'
    BY <1>1, HeldFrame, RolesUntouched DEF ServiceInv, SocketRoles
  <1> QED
    BY <1>1, <1>2, <1>3 DEF ServiceInv, ServiceTypes, Phases

-----------------------------------------------------------------------------
(* The subscriptions. *)

\* A table without subscriptions is right whatever else there is.
LEMMA TableCleared ==
    ASSUME EventInv, gena' \in GenaState, gena'.todo = {},
           table' = [s \in TableSlots |-> EmptySlot], dirty' = {},
           UNCHANGED <<next_sid, version, marked, notified_of, emitting>>
    PROVE  EventInv'
  <1>1. EventTypes'
    BY DEF EventInv, EventTypes
  <1>2. TableOK' /\ DueOK'
    BY DEF EventInv, TableOK, DueOK
  <1> QED
    BY <1>1, <1>2 DEF EventInv

LEMMA Subscribe ==
    ASSUME EventInv, GenaOK, HttpOK, NEW service \in EventServices, subscribe(service)
    PROVE  EventInv'
  <1> DEFINE new == [sid |-> next_sid, service |-> service, live |-> TRUE]
  <1>1. PICK t \in TableSlots : table[t] = EmptySlot /\ table' = [table EXCEPT ![t] = new]
    BY DEF subscribe
  <1>2. /\ next_sid \in Sids /\ next_sid' = next_sid + 1 /\ dirty' = dirty \cup {service}
        /\ marked' = [marked EXCEPT ![service] = version[service]]
        /\ UNCHANGED <<gena, version, notified_of, emitting>>
    BY DEF subscribe, EventInv, EventTypes, Sids
  <1>3. gena.at # "none"
    BY DEF subscribe, handled, GenaOK, HttpOK, GenaLives
  <1>4. new \in Subscriptions /\ new # EmptySlot /\ new.sid = next_sid /\ new.service = service
    BY <1>2, DlnaFacts DEF Subscriptions
  <1>5. EventTypes'
    BY <1>1, <1>2, <1>4, DlnaAssumption DEF EventInv, EventTypes, Sids
  <1>6. \A s \in TableSlots : table'[s] = IF s = t THEN new ELSE table[s]
    BY <1>1 DEF EventInv, EventTypes
  <1>7. \A s \in TableSlots : table[s].sid < next_sid
    BY DlnaFacts, DlnaAssumption DEF EventInv, EventTypes, TableOK
  <1>8. TableOK'
    <2>1. \A s \in TableSlots : table'[s].sid < next_sid'
      BY <1>2, <1>4, <1>6, <1>7, DlnaFacts DEF EventInv, EventTypes, Subscriptions
    <2>2. ASSUME NEW s \in TableSlots, NEW r \in TableSlots, table'[s] # EmptySlot,
                 table'[s].sid = table'[r].sid
          PROVE  s = r
      <3>1. \A q \in TableSlots : table[q].sid # next_sid
        BY <1>7, DlnaFacts DEF EventInv, EventTypes, Subscriptions
      <3> QED
        BY <1>4, <1>6, <2>2, <3>1 DEF EventInv, TableOK
    <2>3. ASSUME NEW target \in gena'.todo
          PROVE  /\ target.sid < next_sid'
                 /\ \A s \in TableSlots : table'[s].sid = target.sid => table'[s].service = target.service
      <3>1. target \in Targets /\ target.sid < next_sid
        BY <1>2 DEF EventInv, EventTypes, TableOK, GenaState
      <3>2. target.sid \in Nat /\ next_sid \in Nat
        BY <1>2, <3>1, DlnaFacts DEF Targets
      <3>3. target.sid # next_sid /\ target.sid < next_sid'
        BY <1>2, <3>1, <3>2
      <3> QED
        BY <1>2, <1>4, <1>6, <3>3 DEF EventInv, TableOK
    <2> QED
      BY <1>2, <1>3, <2>1, <2>2, <2>3 DEF TableOK
  <1>9. DueOK'
    <2>1. /\ marked'[service] = version[service]
          /\ \A x \in EventServices : x # service => marked'[x] = marked[x]
      BY <1>2 DEF EventInv, EventTypes
    <2>2. \A x \in EventServices : version[x] \in Int
      BY DEF EventInv, EventTypes
    <2>3. \A x \in EventServices : marked'[x] <= version'[x]
      BY <1>2, <2>1, <2>2 DEF EventInv, DueOK
    <2>4. \A s \in TableSlots : table[s] # EmptySlot => table[s].service \in EventServices
      BY DlnaFacts DEF EventInv, EventTypes, Subscriptions
    <2>5. ASSUME ~gena.stop, NEW s \in TableSlots, table'[s] # EmptySlot, table'[s].service # service
          PROVE  \/ [sid |-> table'[s].sid, service |-> table'[s].service] \in gena.todo
                 \/ table'[s].service \in dirty \cup {emitting}
                 \/ notified_of[table'[s].sid] >= marked'[table'[s].service]
      <3>1. table'[s] = table[s]
        BY <1>4, <1>6, <2>5
      <3>2. marked'[table[s].service] = marked[table[s].service]
        BY <2>1, <2>4, <2>5, <3>1
      <3> QED
        BY <2>5, <3>1, <3>2 DEF EventInv, DueOK
    <2> QED
      BY <1>2, <2>3, <2>5 DEF DueOK
  <1> QED
    BY <1>5, <1>8, <1>9 DEF EventInv

\* A subscription keeps its SID and service, or ends.
LEMMA TableThins ==
    ASSUME EventInv, UNCHANGED <<gena, next_sid, version, marked, dirty, notified_of, emitting>>,
           table' \in [TableSlots -> Subscriptions \cup {EmptySlot}],
           \A s \in TableSlots :
              table'[s] # EmptySlot => /\ table[s] # EmptySlot
                                       /\ table'[s].sid = table[s].sid
                                       /\ table'[s].service = table[s].service
    PROVE  EventInv'
  <1>1. EventTypes'
    BY DEF EventInv, EventTypes
  <1>2. TableOK'
    <2>1. \A s \in TableSlots : table'[s] # EmptySlot => table'[s].sid < next_sid'
      BY DEF EventInv, TableOK
    <2>2. gena'.at = "none" => \A s \in TableSlots : table'[s] = EmptySlot
      BY DEF EventInv, TableOK
    <2>3. ASSUME NEW s \in TableSlots, NEW r \in TableSlots, table'[s] # EmptySlot,
                 table'[s].sid = table'[r].sid
          PROVE  s = r
      <3>1. table'[s].sid \in Sids
        BY <2>3, DlnaFacts
      <3>2. table'[r] # EmptySlot
        BY <2>3, <3>1, DlnaFacts
      <3> QED
        BY <2>3, <3>2 DEF EventInv, TableOK
    <2>4. ASSUME NEW target \in gena'.todo
          PROVE  /\ target.sid < next_sid'
                 /\ \A s \in TableSlots : table'[s].sid = target.sid => table'[s].service = target.service
      <3>1. target.sid \in Sids
        BY <1>1 DEF EventTypes, GenaState, Targets
      <3>2. \A s \in TableSlots : table'[s].sid = target.sid => table'[s] # EmptySlot
        BY <3>1, DlnaFacts
      <3> QED
        BY <3>2 DEF EventInv, TableOK
    <2> QED
      BY <2>1, <2>2, <2>3, <2>4 DEF TableOK
  <1>3. DueOK'
    BY DEF EventInv, DueOK
  <1> QED
    BY <1>1, <1>2, <1>3 DEF EventInv

LEMMA SubscriptionChanges ==
    ASSUME EventInv, NEW t \in TableSlots, renew(t) \/ unsubscribe(t) \/ expires(t)
    PROVE  EventInv'
  <1>1. table \in [TableSlots -> Subscriptions \cup {EmptySlot}]
    BY DEF EventInv, EventTypes
  <1>2. UNCHANGED <<gena, next_sid, version, marked, dirty, notified_of, emitting>>
    BY DEF renew, unsubscribe, expires
  <1>3. table[t] \in Subscriptions
    BY <1>1, DlnaFacts DEF renew, unsubscribe, expires
  <1>4. PICK e \in {[table[t] EXCEPT !.live = TRUE], [table[t] EXCEPT !.live = FALSE], EmptySlot} :
           table' = [table EXCEPT ![t] = e]
    BY DEF renew, unsubscribe, expires
  <1>5. e # EmptySlot => e \in Subscriptions /\ e.sid = table[t].sid /\ e.service = table[t].service
    BY <1>3, <1>4 DEF Subscriptions
  <1>6. table[t] # EmptySlot
    BY <1>3, DlnaFacts
  <1>7. table' \in [TableSlots -> Subscriptions \cup {EmptySlot}]
    BY <1>1, <1>4, <1>5
  <1> QED
    BY <1>1, <1>2, <1>4, <1>5, <1>6, <1>7, TableThins

\* A state that grows without a mark.
LEMMA Changes ==
    ASSUME EventInv, NEW service \in EventServices, changes(service)
    PROVE  EventInv'
  <1>1. /\ version[service] < MaxVersion /\ version' = [version EXCEPT ![service] = version[service] + 1]
        /\ UNCHANGED <<gena, table, next_sid, marked, dirty, notified_of, emitting>>
    BY DEF changes
  <1>2. version[service] + 1 \in 0 .. MaxVersion
    BY <1>1, DlnaAssumption DEF EventInv, EventTypes
  <1>3. EventTypes'
    BY <1>1, <1>2 DEF EventInv, EventTypes
  <1>4. \A x \in EventServices : marked[x] <= version'[x]
    <2>1. \A x \in EventServices : marked[x] \in Int /\ version[x] \in Int /\ marked[x] <= version[x]
      BY DEF EventInv, EventTypes, DueOK
    <2>2. \A x \in EventServices : version'[x] = IF x = service THEN version[x] + 1 ELSE version[x]
      BY <1>1 DEF EventInv, EventTypes
    <2> QED
      BY <2>1, <2>2
  <1>5. TableOK' /\ DueOK'
    BY <1>1, <1>4 DEF EventInv, TableOK, DueOK
  <1> QED
    BY <1>3, <1>5 DEF EventInv

LEMMA Emits ==
    ASSUME EventInv, emit_event \/ \E service \in EventServices : emit_state(service)
    PROVE  EventInv'
  <1>1. CASE emit_event
    <2>1. /\ emitting \in EventServices /\ emitting' = "idle" /\ dirty' = dirty \cup {emitting}
          /\ UNCHANGED <<gena, table, next_sid, version, marked, notified_of>>
      BY <1>1 DEF emit_event, EventInv, EventTypes
    <2>2. EventTypes'
      BY <2>1 DEF EventInv, EventTypes
    <2>3. TableOK' /\ DueOK'
      BY <2>1 DEF EventInv, TableOK, DueOK
    <2> QED
      BY <2>2, <2>3 DEF EventInv
  <1>2. ASSUME NEW service \in EventServices, emit_state(service)
        PROVE  EventInv'
    <2>1. /\ emitting = "idle" /\ emitting' = service /\ version[service] < MaxVersion
          /\ version' = [version EXCEPT ![service] = version[service] + 1]
          /\ marked' = [marked EXCEPT ![service] = version[service] + 1]
          /\ UNCHANGED <<gena, table, next_sid, dirty, notified_of>>
      BY <1>2 DEF emit_state
    <2>2. version[service] + 1 \in 0 .. MaxVersion
      BY <2>1, DlnaAssumption DEF EventInv, EventTypes
    <2>3. EventTypes'
      BY <2>1, <2>2 DEF EventInv, EventTypes
    <2>4. TableOK'
      BY <2>1 DEF EventInv, TableOK
    <2>5. /\ marked'[service] = version'[service] /\ version'[service] \in Int
          /\ \A x \in EventServices : x # service => marked'[x] = marked[x] /\ version'[x] = version[x]
      BY <2>1, <2>2 DEF EventInv, EventTypes
    <2>6. \A x \in EventServices : marked'[x] <= version'[x]
      BY <2>5 DEF EventInv, DueOK
    <2>7. ASSUME ~gena.stop, NEW s \in TableSlots, table[s] # EmptySlot, table[s].service # service
          PROVE  \/ [sid |-> table[s].sid, service |-> table[s].service] \in gena.todo
                 \/ table[s].service \in dirty
                 \/ notified_of[table[s].sid] >= marked'[table[s].service]
      <3>1. table[s].service \in EventServices
        BY <2>7, DlnaFacts DEF EventInv, EventTypes, Subscriptions
      <3> QED
        BY <2>1, <2>5, <2>7, <3>1, DlnaAssumption DEF EventInv, DueOK
    <2>8. DueOK'
      BY <2>1, <2>6, <2>7 DEF DueOK
    <2> QED
      BY <2>3, <2>4, <2>8 DEF EventInv
  <1> QED
    BY <1>1, <1>2

\* The collection: every dirty subscription that is left becomes due.
LEMMA EventWakes ==
    ASSUME EventInv, GenaOK, event_wakes
    PROVE  EventInv' /\ gena' \in GenaState
  <1>1. /\ gena \in GenaState /\ gena.at = "wait" /\ gena.todo = {}
        /\ UNCHANGED <<next_sid, version, marked, notified_of, emitting>>
    BY DEF EventInv, EventTypes, GenaOK, event_wakes
  <1>2. CASE gena.stop
    <2>1. gena' = [gena EXCEPT !.at = "exited"] /\ UNCHANGED <<table, dirty>>
      BY <1>2 DEF event_wakes
    <2>2. gena' \in GenaState
      BY <1>1, <2>1 DEF GenaState, GenaSteps
    <2> QED
      BY <1>1, <2>1, <2>2, EventFrame DEF GenaState
  <1>3. CASE ~gena.stop
    <2>1. /\ gena' = [gena EXCEPT !.at = "next", !.todo = collected]
          /\ table' = pruned /\ dirty' = {}
      BY <1>3 DEF event_wakes
    <2>2. table \in [TableSlots -> Subscriptions \cup {EmptySlot}]
      BY DEF EventInv, EventTypes
    <2>3. \A s \in TableSlots : pruned[s] # EmptySlot => pruned[s] = table[s] /\ table[s] \in Subscriptions
      BY <2>2 DEF pruned
    <2>4. collected \subseteq Targets
      BY <2>3 DEF collected, Targets, Subscriptions
    <2>5. gena' \in GenaState /\ gena'.todo = collected /\ gena'.at = "next" /\ gena'.stop = gena.stop
      BY <1>1, <2>1, <2>4 DEF GenaState, GenaSteps
    <2>6. table' \in [TableSlots -> Subscriptions \cup {EmptySlot}]
      BY <2>1, <2>2 DEF pruned
    <2>7. EventTypes'
      BY <1>1, <2>1, <2>5, <2>6 DEF EventInv, EventTypes
    <2>8. TableOK'
      <3>1. \A s \in TableSlots : table'[s] # EmptySlot => table'[s].sid < next_sid'
        BY <1>1, <2>1, <2>3 DEF EventInv, TableOK
      <3>2. ASSUME NEW s \in TableSlots, NEW r \in TableSlots, table'[s] # EmptySlot,
                   table'[s].sid = table'[r].sid
            PROVE  s = r
        <4>1. table'[r] # EmptySlot
          BY <2>1, <2>3, <3>2, DlnaFacts
        <4> QED
          BY <2>1, <2>3, <3>2, <4>1 DEF EventInv, TableOK
      <3>3. ASSUME NEW target \in gena'.todo
            PROVE  /\ target.sid < next_sid'
                   /\ \A s \in TableSlots :
                         table'[s].sid = target.sid => table'[s].service = target.service
        <4>1. PICK r \in TableSlots :
                 /\ pruned[r] # EmptySlot
                 /\ target = [sid |-> pruned[r].sid, service |-> pruned[r].service]
          BY <2>5, <3>3 DEF collected
        <4>2. target.sid = table'[r].sid /\ target.service = table'[r].service /\ table'[r] # EmptySlot
          BY <2>1, <4>1
        <4> QED
          BY <3>1, <3>2, <4>2
      <3> QED
        BY <2>5, <3>1, <3>2, <3>3 DEF TableOK
    <2>9. DueOK'
      <3>1. ASSUME NEW s \in TableSlots, table'[s] # EmptySlot
            PROVE  \/ [sid |-> table'[s].sid, service |-> table'[s].service] \in gena'.todo
                   \/ table'[s].service = emitting'
                   \/ notified_of'[table'[s].sid] >= marked'[table'[s].service]
        <4>1. table'[s] = table[s] /\ table[s] # EmptySlot /\ pruned[s] = table[s]
          BY <2>1, <2>3, <3>1
        <4>2. table[s].service \in dirty => [sid |-> table[s].sid, service |-> table[s].service] \in collected
          BY <4>1 DEF collected
        <4> QED
          BY <1>1, <1>3, <2>5, <4>1, <4>2 DEF EventInv, DueOK
      <3>2. \A x \in EventServices : marked'[x] <= version'[x]
        BY <1>1 DEF EventInv, DueOK
      <3> QED
        BY <3>1, <3>2 DEF DueOK
    <2> QED
      BY <2>5, <2>7, <2>8, <2>9 DEF EventInv
  <1> QED
    BY <1>2, <1>3

\* A send: the property set holds the newest state of the target's service,
\* which is that of the subscription with its SID, if there still is one.
LEMMA EventNext ==
    ASSUME EventInv, GenaOK, event_next
    PROVE  EventInv' /\ gena' \in GenaState
  <1>1. /\ gena \in GenaState /\ gena.at = "next"
        /\ UNCHANGED <<table, next_sid, version, marked, dirty, emitting>>
    BY DEF EventInv, EventTypes, event_next
  <1>2. CASE gena.todo = {} \/ gena.stop
    <2>1. gena' = [gena EXCEPT !.at = "wait", !.todo = {}] /\ UNCHANGED notified_of
      BY <1>2 DEF event_next
    <2>2. gena' \in GenaState /\ gena'.at = "wait" /\ gena'.todo = {} /\ gena'.stop = gena.stop
      BY <1>1, <2>1 DEF GenaState, GenaSteps
    <2>3. EventTypes' /\ TableOK' /\ DueOK'
      BY <1>1, <1>2, <2>1, <2>2 DEF EventInv, EventTypes, TableOK, DueOK
    <2> QED
      BY <2>2, <2>3 DEF EventInv
  <1>3. CASE ~(gena.todo = {} \/ gena.stop)
    <2>1. PICK target \in gena.todo, at \in {"socket", "next"} :
             /\ notified_of' = [notified_of EXCEPT ![target.sid] = version[target.service]]
             /\ gena' = [gena EXCEPT !.at = at, !.todo = gena.todo \ {target}]
      BY <1>3 DEF event_next
    <2>2. target \in Targets /\ target.sid \in Sids /\ target.service \in EventServices
      BY <1>1, <2>1 DEF GenaState, Targets
    <2>3. /\ gena' \in GenaState /\ gena'.at = at /\ gena'.todo = gena.todo \ {target}
          /\ gena'.stop = gena.stop
      BY <1>1, <2>1 DEF GenaState, GenaSteps
    <2>4. EventTypes'
      <3>1. version[target.service] \in -1 .. MaxVersion
        BY <2>2, DlnaAssumption DEF EventInv, EventTypes
      <3> QED
        BY <1>1, <2>1, <2>2, <2>3, <3>1 DEF EventInv, EventTypes
    <2>5. TableOK'
      BY <1>1, <2>3 DEF EventInv, TableOK
    <2>6. DueOK'
      <3>1. ASSUME NEW s \in TableSlots, table[s] # EmptySlot
            PROVE  \/ [sid |-> table[s].sid, service |-> table[s].service] \in gena'.todo
                   \/ table[s].service \in dirty \cup {emitting}
                   \/ notified_of'[table[s].sid] >= marked[table[s].service]
        <4>1. table[s].sid \in Sids
          BY <3>1, DlnaFacts DEF EventInv, EventTypes
        <4>2. CASE table[s].sid = target.sid
          <5>1. table[s].service = target.service
            BY <2>1, <4>2 DEF EventInv, TableOK
          <5>2. notified_of'[table[s].sid] = version[table[s].service]
            BY <2>1, <2>2, <4>2, <5>1 DEF EventInv, EventTypes
          <5>3. version[table[s].service] >= marked[table[s].service]
            BY <2>2, <5>1 DEF EventInv, EventTypes, DueOK
          <5> QED
            BY <5>2, <5>3
        <4>3. CASE table[s].sid # target.sid
          <5>1. notified_of'[table[s].sid] = notified_of[table[s].sid]
            BY <2>1, <4>1, <4>3 DEF EventInv, EventTypes
          <5>2. [sid |-> table[s].sid, service |-> table[s].service] # target
            BY <4>3
          <5> QED
            BY <1>3, <2>3, <3>1, <5>1, <5>2 DEF EventInv, DueOK
        <4> QED
          BY <4>2, <4>3
      <3> QED
        BY <1>1, <3>1 DEF DueOK, EventInv
    <2> QED
      BY <2>3, <2>4, <2>5, <2>6 DEF EventInv
  <1> QED
    BY <1>2, <1>3

\* The steps that only move the event thread, or not even that.
LEMMA EventsStay ==
    ASSUME EventInv, UNCHANGED Events
    PROVE  EventInv'
  BY EventFrame DEF Events, EventInv, EventTypes

LEMMA EventMoves ==
    ASSUME EventInv, gena' \in GenaState,
           event_socket \/ event_store \/ event_check \/ event_connect \/ event_send \/ event_finish
    PROVE  EventInv'
  <1>1. gena \in GenaState /\ UNCHANGED <<table, next_sid, version, marked, dirty, notified_of, emitting>>
    BY DEF EventInv, EventTypes, event_socket, event_store, event_check, event_connect,
           event_send, event_finish, sends_on
  <1>2. /\ gena'.stop = gena.stop /\ gena'.todo = gena.todo
        /\ gena'.at # "none" /\ gena.at # "none"
    BY <1>1 DEF event_socket, event_store, event_check, event_connect, event_send, event_finish,
                GenaState
  <1> QED
    BY <1>1, <1>2, EventFrame

LEMMA EventsControlled ==
    ASSUME EventInv, gena' \in GenaState,
           control_starts_event \/ control_stops_event \/ control_takes_event \/ control_joins_event
    PROVE  EventInv'
  <1>1. gena \in GenaState
    BY DEF EventInv, EventTypes
  <1>2. CASE control_starts_event
    <2>1. CASE UNCHANGED <<gena, table, dirty>>
      BY <1>1, <1>2, <2>1, EventFrame DEF control_starts_event
    <2>2. CASE ~UNCHANGED <<gena, table, dirty>>
      <3>1. gena' = [QuietGena EXCEPT !.at = "wait"]
        BY <1>2, <2>2 DEF control_starts_event
      <3>2. gena'.todo = {}
        BY <3>1 DEF QuietGena
      <3> QED
        BY <1>2, <2>2, <3>2, TableCleared DEF control_starts_event
    <2> QED
      BY <2>1, <2>2
  <1>3. CASE control_stops_event
    <2>1. /\ gena' = [gena EXCEPT !.stop = TRUE]
          /\ UNCHANGED <<table, next_sid, version, marked, dirty, notified_of, emitting>>
      BY <1>3 DEF control_stops_event
    <2>2. gena'.stop /\ gena'.todo = gena.todo /\ gena'.at = gena.at
      BY <1>1, <2>1 DEF GenaState
    <2>3. EventTypes' /\ TableOK' /\ DueOK'
      BY <2>1, <2>2 DEF EventInv, EventTypes, TableOK, DueOK
    <2> QED
      BY <2>3 DEF EventInv
  <1>4. CASE control_takes_event
    <2>1. /\ gena' = [gena EXCEPT !.active = NoFd, !.took = gena.active]
          /\ UNCHANGED <<table, next_sid, version, marked, dirty, notified_of, emitting>>
      BY <1>4 DEF control_takes_event
    <2>2. gena'.stop = gena.stop /\ gena'.todo = gena.todo /\ gena'.at = gena.at
      BY <1>1, <2>1 DEF GenaState
    <2> QED
      BY <2>1, <2>2, EventFrame
  <1>5. CASE control_joins_event
    <2>1. gena'.todo = {}
      BY <1>5 DEF control_joins_event, QuietGena
    <2> QED
      BY <1>5, <2>1, TableCleared DEF control_joins_event
  <1> QED
    BY <1>2, <1>3, <1>4, <1>5

-----------------------------------------------------------------------------
(* The theorems. *)

LEMMA DlnaInitInv == DlnaInit => DlnaInv
  <1> SUFFICES ASSUME DlnaInit PROVE DlnaInv
    OBVIOUS
  <1>1. ServiceTypes /\ EventTypes
    <2>1. ServiceTypes
      <3>1. control \in Phases /\ roles \in [Fds -> Roles]
        BY DEF DlnaInit, Phases, Roles
      <3>2. starts \in 0 .. MaxDlnaStarts
        BY DlnaAssumption DEF DlnaInit
      <3>3. misused \in BOOLEAN
        BY DEF DlnaInit
      <3> QED
        BY <3>1, <3>2, <3>3, DlnaFacts DEF DlnaInit, ServiceTypes
    <2>2. /\ next_sid \in 1 .. MaxSid + 1
          /\ version \in [EventServices -> 0 .. MaxVersion] /\ dirty \subseteq EventServices
          /\ marked \in [EventServices -> 0 .. MaxVersion]
      BY DlnaAssumption DEF DlnaInit
    <2>3. notified_of \in [Sids -> -1 .. MaxVersion]
      <3>1. -1 \in -1 .. MaxVersion
        BY DlnaAssumption
      <3> QED
        BY <3>1 DEF DlnaInit
    <2> QED
      BY <2>1, <2>2, <2>3, DlnaFacts DEF DlnaInit, EventTypes
  <1>2. HttpOK /\ GenaOK /\ SsdpOK
    BY DEF DlnaInit, HttpOK, GenaOK, SsdpOK, HttpLives, GenaLives, SsdpLives, QuietHttp,
           QuietGena, QuietSsdp
  <1>3. RolesOK
    BY DEF DlnaInit, RolesOK, SocketRoles, HeldAs, QuietHttp, QuietGena, QuietSsdp
  <1>4. TableOK /\ DueOK
    BY DEF DlnaInit, TableOK, DueOK, QuietGena
  <1> QED
    BY <1>1, <1>2, <1>3, <1>4, DlnaHalves DEF ServiceInv, EventInv

LEMMA DlnaNextInv == DlnaInv /\ [DlnaNext]_DlnaVars => DlnaInv'
  <1> SUFFICES ASSUME ServiceInv, EventInv, [DlnaNext]_DlnaVars
               PROVE  ServiceInv' /\ EventInv'
    BY DlnaHalves
  <1>0. GenaOK /\ HttpOK /\ gena \in GenaState
    BY DEF ServiceInv, ServiceTypes
  <1>1. CASE http_top \/ http_select \/ http_accept \/ http_store \/ http_check \/ http_done
    <2>1. ServiceInv'
      BY <1>1, HttpTop, HttpSelect, HttpAccept, HttpStoresChecks, HttpDone
    <2>2. UNCHANGED Events
      BY <1>1 DEF http_top, http_select, http_accept, http_store, http_check, http_done
    <2> QED
      BY <2>1, <2>2, EventsStay
  <1>2. CASE handle_nothing \/ handle_other \/ event_refuses
    <2>1. handled /\ UNCHANGED Events
      BY <1>2 DEF handle_nothing, handle_other, event_refuses
    <2> QED
      BY <2>1, EventsStay, Handled DEF Events
  <1>3. ASSUME NEW service \in EventServices, subscribe(service) \/ handle_soap(service)
        PROVE  ServiceInv' /\ EventInv'
    <2>1. CASE subscribe(service)
      BY <1>0, <2>1, Subscribe, Handled DEF subscribe
    <2>2. CASE handle_soap(service)
      <3>1. handled /\ changes(service) /\ UNCHANGED gena
        BY <2>2 DEF handle_soap, changes
      <3> QED
        BY <3>1, Changes, Handled
    <2> QED
      BY <1>3, <2>1, <2>2
  <1>4. CASE emit_event \/ \E service \in EventServices : emit_state(service) \/ emit_position(service)
    <2>1. UNCHANGED <<control, roles, misused, http, gena, ssdp, starts>>
      BY <1>4 DEF emit_event, emit_state, emit_position, changes, Sockets
    <2>2. ServiceInv'
      BY <2>1, HeldFrame DEF ServiceInv, ServiceTypes, HttpOK, GenaOK, SsdpOK, RolesOK, SocketRoles
    <2>3. EventInv'
      BY <1>4, Emits, Changes DEF emit_position
    <2> QED
      BY <2>2, <2>3
  <1>5. ASSUME NEW s \in TableSlots, renew(s) \/ unsubscribe(s) \/ expires(s)
        PROVE  ServiceInv' /\ EventInv'
    <2>1. EventInv'
      BY <1>5, SubscriptionChanges
    <2>2. CASE renew(s) \/ unsubscribe(s)
      BY <2>1, <2>2, Handled DEF renew, unsubscribe
    <2>3. CASE expires(s)
      <3>1. UNCHANGED <<control, roles, misused, http, gena, ssdp, starts>>
        BY <2>3 DEF expires, Sockets
      <3> QED
        BY <2>1, <3>1, HeldFrame
           DEF ServiceInv, ServiceTypes, HttpOK, GenaOK, SsdpOK, RolesOK, SocketRoles
    <2> QED
      BY <1>5, <2>2, <2>3
  <1>6. CASE event_wakes \/ event_next
    BY <1>0, <1>6, EventWakes, EventNext, EventWakesNext
  <1>7. CASE event_socket \/ event_store \/ event_check \/ event_connect \/ event_send \/ event_finish
    BY <1>7, EventSocket, EventStoresChecks, EventSends, EventFinish, EventMoves
  <1>8. CASE ssdp_top \/ ssdp_select \/ ssdp_alive \/ ssdp_searched \/ ssdp_suspends
    <2>1. UNCHANGED Events
      BY <1>8 DEF ssdp_top, ssdp_select, ssdp_alive, ssdp_searched, ssdp_suspends, others_of_ssdp
    <2> QED
      BY <1>8, <2>1, SsdpStep, EventsStay
  <1>9. CASE control_starts_event \/ control_stops_event \/ control_takes_event \/ control_joins_event
    BY <1>9, ControlStartsEvent, ControlStopsEvent, EventsControlled
  <1>10. CASE \/ control_starts \/ control_starts_http \/ control_starts_ssdp
              \/ control_stops \/ control_takes_ssdp \/ control_joins_ssdp
              \/ control_stops_http \/ control_takes_listen \/ control_takes_client
              \/ control_joins_http \/ control_ends
    <2>1. UNCHANGED Events
      BY <1>10 DEF control_starts, control_starts_http, control_starts_ssdp, control_stops,
         control_takes_ssdp, control_joins_ssdp, control_stops_http, control_takes_listen,
         control_takes_client, control_joins_http, control_ends
    <2> QED
      BY <1>10, <2>1, EventsStay, ControlStarts, ControlStartsHttp, ControlStartsSsdp,
         ControlStopsSsdp, ControlTakesHttp, ControlJoinsHttp, ControlEnds
  <1>11. CASE UNCHANGED DlnaVars
    <2>1. /\ UNCHANGED Events
          /\ UNCHANGED <<control, roles, misused, http, gena, ssdp, starts>>
      BY <1>11 DEF DlnaVars, Events
    <2> QED
      BY <2>1, EventsStay, HeldFrame
         DEF ServiceInv, ServiceTypes, HttpOK, GenaOK, SsdpOK, RolesOK, SocketRoles
  <1> QED
    BY <1>1, <1>2, <1>3, <1>4, <1>5, <1>6, <1>7, <1>8, <1>9, <1>10, <1>11 DEF DlnaNext, ControlNext

LEMMA DlnaInvariant == DlnaSpec => []DlnaInv
  BY DlnaInitInv, DlnaNextInv, PTL DEF DlnaSpec

\* Type correctness of the DLNA service (dlna_control.c, http_server.c,
\* event_server.c, ssdp.c).
THEOREM DlnaTypeCorrect == DlnaSpec => []DlnaTypeOK
  <1>1. DlnaInv => DlnaTypeOK
    BY DEF DlnaInv
  <1> QED
    BY <1>1, DlnaInvariant, PTL

\* However many descriptors and starts there are, no socket is used or closed
\* once it may be another thread's, and a stop, or a start that failed half
\* way, leaves no socket, thread or subscription (http_server_stop,
\* event_server_stop, ssdp_stop, dlna_control_start).
THEOREM SocketsOwned == DlnaSpec => []DlnaSocketsOwned
  <1>1. ASSUME DlnaInv PROVE DlnaSocketsOwned
    <2>1. ServiceInv /\ EventInv
      BY <1>1, DlnaHalves
    <2>2. ~misused
      BY <2>1 DEF ServiceInv, RolesOK
    <2>3. ASSUME control = "off"
          PROVE  /\ http = QuietHttp /\ gena = QuietGena /\ ssdp = QuietSsdp
                 /\ http.at = "none" /\ gena.at = "none" /\ ssdp.at = "none"
      BY <2>1, <2>3 DEF ServiceInv, HttpOK, GenaOK, SsdpOK, HttpLives, GenaLives, SsdpLives
    <2>4. ASSUME control = "off", NEW fd \in Fds PROVE roles[fd] = "free"
      <3>1. \A role \in SocketRoles : HeldAs(role) = {}
        BY <2>3, <2>4 DEF HeldAs, QuietHttp, QuietGena, QuietSsdp
      <3>2. roles[fd] \notin SocketRoles /\ roles[fd] \in Roles
        BY <2>1, <3>1 DEF ServiceInv, RolesOK, ServiceTypes
      <3> QED
        BY <3>2 DEF Roles, SocketRoles
    <2>5. ASSUME control = "off", NEW s \in TableSlots PROVE table[s] = EmptySlot
      BY <2>1, <2>3, <2>5 DEF EventInv, TableOK
    <2> QED
      BY <2>2, <2>3, <2>4, <2>5 DEF DlnaSocketsOwned
  <1> QED
    BY <1>1, DlnaInvariant, PTL

\* However many subscriptions, services and events there are, none is left
\* behind by an event thread with nothing to do: every subscription is due, or
\* was last told of a state as new as that of the last mark, though perhaps not
\* of what a SOAP action changed since (event_thread_main,
\* event_mark_dirty_locked, soap_handler_on_renderer_event).
THEOREM SubscribersServed == DlnaSpec => []SubscribersCaughtUp
  <1>1. ASSUME DlnaInv PROVE SubscribersCaughtUp
    <2>1. DueOK /\ GenaOK
      BY <1>1 DEF DlnaInv
    <2> QED
      BY <2>1 DEF DueOK, GenaOK, SubscribersCaughtUp
  <1> QED
    BY <1>1, DlnaInvariant, PTL

-----------------------------------------------------------------------------
(* DlnaTransport: the inductive invariant. *)

\* The lease is the last one given, or nobody's; nothing has a later one.
LeaseOK ==
    /\ dlna_lease.current.generation <= dlna_lease.last
    /\ soap.lease.generation <= dlna_lease.last

\* An action under way has a number of its own, unanswered, and has put no
\* command in the queue before it submits one; a transport command it submits
\* has the lease DLNA held, a SetURI one claimed for it.
SoapOK ==
    /\ soap.at = "idle" <=> soap.n = 0
    /\ soap.at # "idle" => soap.act # "none" /\ fate[soap.n].answer = "none"
    /\ soap.at \in {"check", "guard", "begin", "resources", "submit", "unowned"} =>
          fate[soap.n].command = "none"
    /\ soap.at \in {"apply", "unowned", "release", "home"} => soap.act \in Transport
    /\ soap.claimed => soap.lease.owner = "DLNA"
    /\ soap.at \in {"resources", "abort"} => soap.claimed
    /\ soap.at = "submit" /\ soap.act \in Transport => soap.lease.owner = "DLNA"
    /\ soap.act = "SetURI" =>
          /\ soap.at \notin {"guard", "unowned", "release", "home"}
          /\ soap.at \in {"submit", "wait", "end"} => soap.claimed

\* What is in the queue has not begun; a SetURI command that could still
\* begin is one its action waits for, or is about to withdraw the lease of.
Waiting(c) ==
    /\ c.n # 0 => fate[c.n].command = "queued"
    /\ c.kind \in Transport => c.n # 0 /\ c.lease.owner = "DLNA"
    /\ c.lease.generation <= dlna_lease.last
    /\ c.kind = "SetURI" /\ c.lease = dlna_lease.current =>
          /\ soap.at \in {"wait", "abort"} /\ soap.n = c.n
          /\ soap.claimed /\ soap.lease = c.lease
QueueOK ==
    /\ \A i \in 1 .. Len(commands) : Waiting(commands[i])
    /\ \A i, j \in 1 .. Len(commands) :
          commands[i].n # 0 /\ commands[i].n = commands[j].n => i = j

\* A command that was begun is not in the queue, and a number without an
\* answer is unused or that of the action under way.
FateOK ==
    /\ executing.n # 0 => fate[executing.n].command = "begun"
    /\ \A n \in Actions : fate[n].answer = "none" /\ n # soap.n => fate[n].command = "none"

TransportInv == TransportTypeOK /\ LeaseOK /\ SoapOK /\ QueueOK /\ FateOK

SoapSteps == {"idle", "check", "guard", "begin", "resources", "submit", "wait", "end", "abort",
              "release", "unowned", "apply", "home", "fault"}
SoapState == [at : SoapSteps, act : Transport \cup Rendering \cup {"none"}, n : 0 .. MaxActions,
              lease : Leases, claimed : BOOLEAN]
LeaseState == [current : Leases, last : 0 .. MaxLeases]
ViewState == [state : {"STOPPED", "PLAYING", "PAUSED_PLAYBACK"},
              status : {"OK", "ERROR_OCCURRED"}, uri : 0 .. MaxActions]
PlayingState == [state : RendererStates, media : 0 .. MaxActions]
EventState == [at : {"none", "emitted", "passed"}, state : RendererStates]
FrameState == [at : {"top", "sampled", "home"}, active : BOOLEAN, lease : Leases]
Fate == [answer : {"none", "ok", "fault"},
         command : {"none", "queued", "begun", "done", "failed", "stale"}]

TransportTypes ==
    /\ dlna_lease \in LeaseState /\ soap \in SoapState /\ view \in ViewState
    /\ commands \in Seq(TransportCommand) /\ Len(commands) <= MaxWaiting
    /\ playing \in PlayingState /\ executing \in TransportCommand \cup {NotExecuting}
    /\ event \in EventState /\ home \in BOOLEAN /\ frame \in FrameState
    /\ fate \in [Actions -> Fate]

LEMMA TransportTyped ==
    (TransportTypeOK <=> TransportTypes) /\ (TransportTypeOK' <=> TransportTypes')
  BY DEF TransportTypeOK, TransportTypes, SoapSteps, SoapState, LeaseState, ViewState,
         PlayingState, EventState, FrameState, Fate

LEMMA TransportFacts ==
    /\ NoOne \in Leases /\ NoOne.generation = 0 /\ NoOne.owner = "none"
    /\ \A l \in Leases : l.generation \in 0 .. MaxLeases /\ (l.owner = "none" <=> l = NoOne)
    /\ NoSoap \in SoapState /\ NotExecuting.n = 0
    /\ NotExecuting \notin TransportCommand
    /\ \A n \in 0 .. MaxActions : n \in Actions <=> n # 0
    /\ 0 \notin Actions /\ Actions \subseteq 0 .. MaxActions
  <1>1. NoOne \in Leases /\ NoOne.generation = 0 /\ NoOne.owner = "none"
    BY DEF NoOne, Leases
  <1>2. \A l \in Leases : l.generation \in 0 .. MaxLeases /\ (l.owner = "none" <=> l = NoOne)
    BY TransportAssumption DEF NoOne, Leases
  <1>3. NoSoap \in SoapState
    BY <1>1, TransportAssumption DEF NoSoap, SoapState, SoapSteps
  <1>4. NotExecuting.n = 0 /\ NotExecuting \notin TransportCommand
    BY DEF NotExecuting, TransportCommand, Transport, Rendering
  <1>5. \A n \in 0 .. MaxActions : n \in Actions <=> n # 0
    BY TransportAssumption DEF Actions
  <1>6. 0 \notin Actions /\ Actions \subseteq 0 .. MaxActions
    BY TransportAssumption DEF Actions
  <1> QED
    BY <1>1, <1>2, <1>3, <1>4, <1>5, <1>6

\* The next action's number exists while there is room.
LEMMA NumberIsFree ==
    ASSUME room
    PROVE  number \in Actions /\ fate[number].answer = "none"
  <1> DEFINE T == {n \in Actions : fate[n].answer = "none"}
  <1>1. T \subseteq Nat /\ T # {}
    BY TransportAssumption DEF room, Actions
  <1>2. PICK n \in T : \A m \in T : ~(<<m, n>> \in OpToRel(<, Nat))
    BY <1>1, NatLessThanWellFounded, WFMin
  <1>3. \A m \in T : ~(m < n)
    BY <1>1, <1>2 DEF OpToRel
  <1>4. \A m \in 1 .. n - 1 : fate[m].answer # "none"
    <2> SUFFICES ASSUME NEW m \in 1 .. n - 1, fate[m].answer = "none" PROVE FALSE
      OBVIOUS
    <2>1. m \in Actions /\ m < n
      BY TransportAssumption DEF Actions
    <2> QED
      BY <1>3, <2>1
  <1>5. \E k \in Actions : fate[k].answer = "none" /\ \A m \in 1 .. k - 1 : fate[m].answer # "none"
    BY <1>2, <1>4
  <1> QED
    BY <1>5 DEF number

-----------------------------------------------------------------------------
(* The queue. *)

\* It stays: what each command waits for is all that matters.
LEMMA QueueStays ==
    ASSUME TransportTypes, QueueOK, UNCHANGED commands,
           \A c \in TransportCommand : Waiting(c) => Waiting(c)'
    PROVE  QueueOK'
  <1>1. \A i \in 1 .. Len(commands) : commands[i] \in TransportCommand
    BY DEF TransportTypes
  <1> QED
    BY <1>1 DEF QueueOK

\* It takes one more, whose action had none in it.
LEMMA QueueGrows ==
    ASSUME TransportTypes, QueueOK, NEW new \in TransportCommand, Waiting(new)',
           commands' = Append(commands, new), Len(commands) < MaxWaiting,
           \A c \in TransportCommand : Waiting(c) => Waiting(c)' /\ (new.n # 0 => c.n # new.n)
    PROVE  QueueOK' /\ commands' \in Seq(TransportCommand) /\ Len(commands') <= MaxWaiting
  <1>1. /\ commands \in Seq(TransportCommand) /\ Len(commands) \in Nat
        /\ \A i \in 1 .. Len(commands) : commands[i] \in TransportCommand
    BY DEF TransportTypes
  <1>2. /\ Len(commands') = Len(commands) + 1 /\ commands' \in Seq(TransportCommand)
        /\ \A i \in 1 .. Len(commands') :
              commands'[i] = IF i <= Len(commands) THEN commands[i] ELSE new
    BY <1>1
  <1>3. ASSUME NEW i \in 1 .. Len(commands') PROVE Waiting(commands[i])'
    <2>1. CASE i \in 1 .. Len(commands)
      BY <1>1, <1>2, <2>1 DEF QueueOK
    <2>2. CASE i \notin 1 .. Len(commands)
      BY <1>1, <1>2, <2>2
    <2> QED
      BY <2>1, <2>2
  <1>4. ASSUME NEW i \in 1 .. Len(commands'), NEW j \in 1 .. Len(commands'),
               commands'[i].n # 0, commands'[i].n = commands'[j].n
        PROVE  i = j
    <2>1. CASE i \in 1 .. Len(commands) /\ j \in 1 .. Len(commands)
      BY <1>1, <1>2, <1>4, <2>1 DEF QueueOK
    <2>2. CASE i \in 1 .. Len(commands) /\ j \notin 1 .. Len(commands)
      BY <1>1, <1>2, <1>4, <2>2 DEF QueueOK
    <2>3. CASE i \notin 1 .. Len(commands) /\ j \in 1 .. Len(commands)
      BY <1>1, <1>2, <1>4, <2>3 DEF QueueOK
    <2>4. CASE i \notin 1 .. Len(commands) /\ j \notin 1 .. Len(commands)
      BY <1>1, <1>2, <2>4
    <2> QED
      BY <2>1, <2>2, <2>3, <2>4
  <1>5. Len(commands') <= MaxWaiting
    BY <1>1, <1>2, TransportAssumption
  <1> QED
    BY <1>2, <1>3, <1>4, <1>5 DEF QueueOK

\* Its first command leaves; no other has the same number.
LEMMA QueueShrinks ==
    ASSUME TransportTypes, QueueOK, commands # <<>>, commands' = Tail(commands),
           \A c \in TransportCommand :
               Waiting(c) /\ (c.n = 0 \/ c.n # Head(commands).n) => Waiting(c)'
    PROVE  /\ Head(commands) \in TransportCommand /\ Waiting(Head(commands))
           /\ QueueOK' /\ commands' \in Seq(TransportCommand) /\ Len(commands') <= MaxWaiting
  <1>1. /\ commands \in Seq(TransportCommand) /\ Len(commands) \in Nat \ {0}
        /\ \A i \in 1 .. Len(commands) : commands[i] \in TransportCommand
        /\ Head(commands) = commands[1]
    BY DEF TransportTypes
  <1>2. /\ Len(commands') = Len(commands) - 1 /\ commands' \in Seq(TransportCommand)
        /\ \A i \in 1 .. Len(commands') : commands'[i] = commands[i + 1]
    BY <1>1
  <1>3. 1 \in 1 .. Len(commands) /\ Waiting(commands[1])
    BY <1>1 DEF QueueOK
  <1>4. ASSUME NEW i \in 1 .. Len(commands') PROVE Waiting(commands[i])'
    <2>1. i + 1 \in 1 .. Len(commands) /\ i + 1 # 1
      BY <1>1, <1>2
    <2>2. Waiting(commands[i + 1]) /\ (commands[i + 1].n = 0 \/ commands[i + 1].n # commands[1].n)
      BY <1>3, <2>1 DEF QueueOK
    <2> QED
      BY <1>1, <1>2, <2>1, <2>2
  <1>5. ASSUME NEW i \in 1 .. Len(commands'), NEW j \in 1 .. Len(commands'),
               commands'[i].n # 0, commands'[i].n = commands'[j].n
        PROVE  i = j
    <2>1. i + 1 \in 1 .. Len(commands) /\ j + 1 \in 1 .. Len(commands)
      BY <1>1, <1>2
    <2>2. i + 1 = j + 1
      BY <1>2, <1>5, <2>1 DEF QueueOK
    <2> QED
      BY <2>2
  <1>6. Len(commands') <= MaxWaiting
    BY <1>1, <1>2, TransportAssumption DEF TransportTypes
  <1> QED
    BY <1>1, <1>2, <1>3, <1>4, <1>5, <1>6 DEF QueueOK

-----------------------------------------------------------------------------
(* The actions. *)

TransportHolds == TransportTypes /\ LeaseOK /\ SoapOK /\ QueueOK /\ FateOK

\* A step of the action that leaves lease, queue and fates alone: it keeps
\* waiting for what could still begin, or goes to withdraw it.
LEMMA SoapMovesOn ==
    ASSUME TransportHolds, soap' \in SoapState, SoapOK',
           soap'.n = soap.n, soap'.claimed = soap.claimed,
           soap'.lease \in {soap.lease, dlna_lease.current},
           soap.at \in {"wait", "abort"} /\ soap.claimed
              /\ (\E c \in TransportCommand :
                     Waiting(c) /\ c.kind = "SetURI" /\ c.n = soap.n)
           => soap'.at \in {"wait", "abort"} /\ soap'.lease = soap.lease,
           view' \in ViewState, home' \in BOOLEAN,
           UNCHANGED <<dlna_lease, commands, playing, executing, event, frame, fate>>
    PROVE  TransportHolds'
  <1>1. TransportTypes'
    BY DEF TransportHolds, TransportTypes
  <1>2. LeaseOK' /\ FateOK'
    BY DEF TransportHolds, LeaseOK, FateOK
  <1>3. \A c \in TransportCommand : Waiting(c) => Waiting(c)'
    BY DEF Waiting
  <1>4. QueueOK'
    BY <1>3, QueueStays DEF TransportHolds
  <1> QED
    BY <1>1, <1>2, <1>4 DEF TransportHolds

LEMMA SoapMoves ==
    ASSUME TransportHolds, soap' \in SoapState, SoapOK',
           soap'.n = soap.n, soap'.claimed = soap.claimed,
           soap'.lease \in {soap.lease, dlna_lease.current},
           soap.at \in {"wait", "abort"} /\ soap.claimed
              /\ (\E c \in TransportCommand :
                     Waiting(c) /\ c.kind = "SetURI" /\ c.n = soap.n)
           => soap'.at \in {"wait", "abort"} /\ soap'.lease = soap.lease,
           UNCHANGED <<dlna_lease, view, commands, playing, executing, event, home, frame, fate>>
    PROVE  TransportHolds'
  <1>1. view' \in ViewState /\ home' \in BOOLEAN
    BY DEF TransportHolds, TransportTypes
  <1> QED
    BY <1>1, SoapMovesOn

LEMMA SoapChecks ==
    ASSUME TransportHolds, soap_checks
    PROVE  TransportHolds'
  <1>1. PICK at \in {"fault", "begin", "guard"} :
           /\ soap' = [soap EXCEPT !.at = at] /\ soap.at = "check"
           /\ soap.act = "SetURI" => at # "guard"
    BY DEF soap_checks, continues
  <1>2. soap \in SoapState /\ SoapOK /\ UNCHANGED fate
    BY DEF TransportHolds, TransportTypes, soap_checks
  <1>3. /\ soap' \in SoapState /\ soap'.n = soap.n /\ soap'.claimed = soap.claimed
        /\ soap'.act = soap.act /\ soap'.lease = soap.lease /\ soap'.at = at
    BY <1>1, <1>2 DEF SoapState, SoapSteps
  <1>4. SoapOK'
    BY <1>1, <1>2, <1>3 DEF SoapOK
  <1> QED
    BY <1>1, <1>3, <1>4, SoapMoves DEF soap_checks, Player

LEMMA SoapGuards ==
    ASSUME TransportHolds, soap_guards
    PROVE  TransportHolds'
  <1>1. soap \in SoapState /\ SoapOK /\ UNCHANGED fate /\ soap.at = "guard" /\ dlna_lease.current \in Leases
    BY DEF TransportHolds, TransportTypes, soap_guards, LeaseState
  <1>2. PICK at \in SoapSteps, lease \in {soap.lease, dlna_lease.current} :
           /\ soap' \in SoapState /\ soap'.n = soap.n /\ soap'.claimed = soap.claimed
           /\ soap'.act = soap.act /\ soap'.lease = lease /\ soap'.at = at
           /\ at \in {"submit", "begin", "unowned", "fault"}
           /\ at = "unowned" => soap.act = "Stop"
           /\ at = "submit" => soap.act \in Rendering \/ lease.owner = "DLNA"
           /\ lease = soap.lease \/ lease.owner = "DLNA"
    <2>1. CASE owned
      <3>1. soap' = [soap EXCEPT !.at = "submit", !.lease = dlna_lease.current]
        BY <2>1 DEF soap_guards
      <3>2. /\ soap' \in SoapState /\ soap'.n = soap.n /\ soap'.claimed = soap.claimed
            /\ soap'.act = soap.act /\ soap'.lease = dlna_lease.current /\ soap'.at = "submit"
        BY <1>1, <3>1 DEF SoapState, SoapSteps
      <3> QED
        BY <2>1, <3>2 DEF owned, SoapSteps
    <2>2. CASE ~owned
      <3>1. PICK at \in {"submit", "begin", "unowned", "fault"} :
               /\ soap' = [soap EXCEPT !.at = at]
               /\ at = "unowned" => soap.act = "Stop"
               /\ at = "submit" => soap.act \in Rendering
        BY <2>2 DEF soap_guards, continues
      <3>2. /\ soap' \in SoapState /\ soap'.n = soap.n /\ soap'.claimed = soap.claimed
            /\ soap'.act = soap.act /\ soap'.lease = soap.lease /\ soap'.at = at
        BY <1>1, <3>1 DEF SoapState, SoapSteps
      <3> QED
        BY <3>1, <3>2 DEF SoapSteps
    <2> QED
      BY <2>1, <2>2
  <1>3. ~soap.claimed \/ soap.lease.owner = "DLNA"
    BY <1>1 DEF SoapOK
  <1>4. SoapOK'
    BY <1>1, <1>2, <1>3 DEF SoapOK, Transport, Rendering
  <1> QED
    BY <1>1, <1>2, <1>4, SoapMoves DEF soap_guards, Player

LEMMA SoapStopsNothing ==
    ASSUME TransportHolds, soap_stops_nothing
    PROVE  TransportHolds'
  <1>1. PICK at \in {"apply", "fault"} : soap' = [soap EXCEPT !.at = at] /\ soap.at = "unowned"
    BY DEF soap_stops_nothing, continues
  <1>2. soap \in SoapState /\ SoapOK /\ UNCHANGED fate
    BY DEF TransportHolds, TransportTypes, soap_stops_nothing
  <1>3. /\ soap' \in SoapState /\ soap'.n = soap.n /\ soap'.claimed = soap.claimed
        /\ soap'.act = soap.act /\ soap'.lease = soap.lease /\ soap'.at = at
    BY <1>1, <1>2 DEF SoapState, SoapSteps
  <1>4. SoapOK'
    BY <1>1, <1>2, <1>3 DEF SoapOK
  <1> QED
    BY <1>1, <1>3, <1>4, SoapMoves DEF soap_stops_nothing, Player

LEMMA SoapWaitsResources ==
    ASSUME TransportHolds, soap_waits_resources
    PROVE  TransportHolds'
  <1>1. PICK at \in {"submit", "abort"} : soap' = [soap EXCEPT !.at = at] /\ soap.at = "resources"
    BY DEF soap_waits_resources, continues
  <1>2. soap \in SoapState /\ SoapOK /\ UNCHANGED fate
    BY DEF TransportHolds, TransportTypes, soap_waits_resources
  <1>3. /\ soap' \in SoapState /\ soap'.n = soap.n /\ soap'.claimed = soap.claimed
        /\ soap'.act = soap.act /\ soap'.lease = soap.lease /\ soap'.at = at
    BY <1>1, <1>2 DEF SoapState, SoapSteps
  <1>4. SoapOK'
    BY <1>1, <1>2, <1>3 DEF SoapOK
  <1> QED
    BY <1>1, <1>3, <1>4, SoapMoves DEF soap_waits_resources, Player

\* A command still in the queue is not done: its action withdraws the lease.
LEMMA SoapWaits ==
    ASSUME TransportHolds, soap_waits
    PROVE  TransportHolds'
  <1>1. PICK at \in {"end", "release", "apply", "abort", "fault"} :
           /\ soap' = [soap EXCEPT !.at = at] /\ soap.at = "wait"
           /\ at \in {"end", "release", "apply"} => fate[soap.n].command = "done"
           /\ at = "abort" => soap.claimed
           /\ at = "fault" => ~soap.claimed
           /\ at = "release" => soap.act = "Stop"
           /\ at = "apply" => soap.act \in Transport /\ ~soap.claimed
    BY DEF soap_waits, continues, succeeds
  <1>2. soap \in SoapState /\ SoapOK /\ UNCHANGED fate
    BY DEF TransportHolds, TransportTypes, soap_waits
  <1>3. /\ soap' \in SoapState /\ soap'.n = soap.n /\ soap'.claimed = soap.claimed
        /\ soap'.act = soap.act /\ soap'.lease = soap.lease /\ soap'.at = at
    BY <1>1, <1>2 DEF SoapState, SoapSteps
  <1>4. SoapOK'
    BY <1>1, <1>2, <1>3 DEF SoapOK, Transport
  <1>5. ASSUME NEW c \in TransportCommand, Waiting(c), c.kind = "SetURI", c.n = soap.n, soap.claimed
        PROVE  at = "abort"
    <2>1. fate[soap.n].command = "queued"
      BY <1>5 DEF Waiting, Transport
    <2> QED
      BY <1>1, <1>5, <2>1
  <1> QED
    BY <1>1, <1>3, <1>4, <1>5, SoapMoves DEF soap_waits, Player

\* A new action gets a number nothing was done under.
LEMMA SoapReceives ==
    ASSUME TransportHolds, NEW act \in Transport \cup Rendering, soap_receives(act)
    PROVE  TransportHolds'
  <1>1. /\ soap.at = "idle" /\ room /\ soap' = [NoSoap EXCEPT !.at = "check", !.act = act, !.n = number]
        /\ UNCHANGED <<dlna_lease, view, commands, playing, executing, event, home, frame, fate>>
    BY DEF soap_receives, Player
  <1>2. number \in Actions /\ fate[number].answer = "none" /\ number # 0 /\ number \in 0 .. MaxActions
    BY <1>1, NumberIsFree, TransportFacts
  <1>3. /\ soap' \in SoapState /\ soap'.at = "check" /\ soap'.act = act /\ soap'.n = number
        /\ soap'.lease = NoOne /\ soap'.claimed = FALSE
    BY <1>1, <1>2, TransportFacts DEF NoSoap, SoapState, SoapSteps
  <1>4. soap.n = 0 /\ fate[number].command = "none"
    BY <1>1, <1>2 DEF TransportHolds, SoapOK, FateOK
  <1>5. TransportTypes'
    BY <1>1, <1>3 DEF TransportHolds, TransportTypes
  <1>6. LeaseOK'
    BY <1>1, <1>3, <1>5, TransportFacts DEF TransportHolds, LeaseOK, TransportTypes, LeaseState
  <1>7. SoapOK'
    BY <1>1, <1>2, <1>3, <1>4 DEF SoapOK, Transport, Rendering
  <1>8. FateOK'
    BY <1>1, <1>4, TransportFacts DEF TransportHolds, FateOK
  <1>9. \A c \in TransportCommand : Waiting(c) => Waiting(c)'
    BY <1>1 DEF Waiting
  <1>10. QueueOK'
    BY <1>1, <1>9, QueueStays DEF TransportHolds
  <1> QED
    BY <1>5, <1>6, <1>7, <1>8, <1>10 DEF TransportHolds

\* An answer: the action had no command that could still begin.
LEMMA SoapAnswers ==
    ASSUME TransportHolds, soap.at \notin {"idle", "wait", "abort"}, NEW answer \in {"ok", "fault"},
           answers(answer), view' \in ViewState, home' \in BOOLEAN,
           UNCHANGED <<dlna_lease, commands, playing, executing, event, frame>>
    PROVE  TransportHolds'
  <1>1. /\ soap \in SoapState /\ soap.n \in Actions /\ fate \in [Actions -> Fate]
    BY TransportFacts DEF TransportHolds, TransportTypes, SoapOK, SoapState
  <1>2. soap' = NoSoap /\ fate' = [fate EXCEPT ![soap.n] = [fate[soap.n] EXCEPT !.answer = answer]]
    BY DEF answers
  <1>3. fate[soap.n] \in Fate /\ [fate[soap.n] EXCEPT !.answer = answer] \in Fate
    BY <1>1 DEF Fate
  <1>4. /\ fate' \in [Actions -> Fate]
        /\ \A n \in Actions : /\ fate'[n].command = fate[n].command
                              /\ n # soap.n => fate'[n].answer = fate[n].answer
        /\ fate'[soap.n].answer = answer
    BY <1>1, <1>2, <1>3 DEF Fate
  <1>5. /\ NoSoap.at = "idle" /\ NoSoap.n = 0 /\ NoSoap.lease = NoOne /\ ~NoSoap.claimed
        /\ NoSoap.act = "none"
    BY DEF NoSoap
  <1>6. TransportTypes'
    BY <1>2, <1>4, TransportFacts DEF TransportHolds, TransportTypes
  <1>7. LeaseOK'
    BY <1>2, <1>5, <1>6, TransportFacts DEF TransportHolds, LeaseOK, TransportTypes, LeaseState
  <1>8. SoapOK'
    BY <1>2, <1>5 DEF SoapOK
  <1>9. FateOK'
    <2>1. executing.n # 0 => executing.n \in Actions
      BY TransportFacts DEF TransportHolds, TransportTypes, TransportCommand
    <2> QED
      BY <1>2, <1>4, <1>5, <2>1 DEF TransportHolds, FateOK
  <1>10. ASSUME NEW c \in TransportCommand, Waiting(c) PROVE Waiting(c)'
    <2>1. c.n # 0 => c.n \in Actions
      BY TransportFacts DEF TransportCommand
    <2> QED
      BY <1>4, <1>10, <2>1 DEF Waiting
  <1>11. QueueOK'
    BY <1>10, QueueStays DEF TransportHolds
  <1> QED
    BY <1>6, <1>7, <1>8, <1>9, <1>11 DEF TransportHolds

\* The actions that are answered at once.
LEMMA SoapAnswered ==
    ASSUME TransportHolds, NEW answer \in {"ok", "fault"}, answered(answer)
    PROVE  TransportHolds'
  <1>1. /\ soap.at = "idle" /\ room
        /\ fate' = [fate EXCEPT ![number] = [fate[number] EXCEPT !.answer = answer]]
        /\ UNCHANGED <<dlna_lease, soap, view, commands, playing, executing, event, home, frame>>
    BY DEF answered, Player
  <1>2. number \in Actions /\ fate \in [Actions -> Fate] /\ soap.n = 0
    BY <1>1, NumberIsFree DEF TransportHolds, TransportTypes, SoapOK
  <1>3. fate[number] \in Fate /\ [fate[number] EXCEPT !.answer = answer] \in Fate
    BY <1>2 DEF Fate
  <1>4. /\ fate' \in [Actions -> Fate]
        /\ \A n \in Actions : /\ fate'[n].command = fate[n].command
                              /\ n # number => fate'[n].answer = fate[n].answer
        /\ fate'[number].answer = answer
    BY <1>1, <1>2, <1>3 DEF Fate
  <1>5. TransportTypes' /\ LeaseOK'
    BY <1>1, <1>4 DEF TransportHolds, TransportTypes, LeaseOK
  <1>6. SoapOK'
    BY <1>1, <1>2 DEF TransportHolds, SoapOK
  <1>7. FateOK'
    <2>1. executing.n # 0 => executing.n \in Actions
      BY TransportFacts DEF TransportHolds, TransportTypes, TransportCommand
    <2> QED
      BY <1>1, <1>4, <2>1 DEF TransportHolds, FateOK
  <1>8. ASSUME NEW c \in TransportCommand, Waiting(c) PROVE Waiting(c)'
    <2>1. c.n # 0 => c.n \in Actions
      BY TransportFacts DEF TransportCommand
    <2> QED
      BY <1>1, <1>4, <1>8, <2>1 DEF Waiting
  <1>9. QueueOK'
    BY <1>1, <1>8, QueueStays DEF TransportHolds
  <1> QED
    BY <1>5, <1>6, <1>7, <1>9 DEF TransportHolds

LEMMA SoapFaults ==
    ASSUME TransportHolds, soap_faults
    PROVE  TransportHolds'
  <1>1. view' \in ViewState /\ home' \in BOOLEAN
    BY DEF soap_faults, TransportHolds, TransportTypes
  <1> QED
    BY <1>1, SoapAnswers DEF soap_faults, Player

\* A claim makes every other lease an old one.
LEMMA LeaseClaimed ==
    ASSUME TransportHolds, NEW owner \in {"DLNA", "OTHER"}, dlna_lease.last < MaxLeases
    PROVE  LET new == claimed_by(owner) IN
           /\ new \in LeaseState /\ new.last = dlna_lease.last + 1
           /\ new.current.generation = new.last /\ new.current.owner = owner
           /\ \A l \in Leases : l.generation <= dlna_lease.last =>
                 l # new.current /\ l.generation <= new.last
  <1>1. dlna_lease.last \in Nat /\ dlna_lease.last + 1 \in 1 .. MaxLeases
    BY TransportAssumption DEF TransportHolds, TransportTypes, LeaseState
  <1>2. [owner |-> owner, generation |-> dlna_lease.last + 1] \in Leases
    BY <1>1 DEF Leases
  <1>3. \A l \in Leases : l.generation \in Int
    BY TransportFacts, TransportAssumption
  <1> QED
    BY <1>1, <1>2, <1>3 DEF claimed_by, LeaseState

\* A release leaves nobody the lease, or somebody else.
LEMMA LeaseReleased ==
    ASSUME TransportHolds, NEW l \in Leases
    PROVE  LET left == released(l) IN
           /\ left \in LeaseState /\ left.last = dlna_lease.last
           /\ left.current \in {dlna_lease.current, NoOne}
           /\ l # NoOne => left.current # l
  <1>1. dlna_lease \in LeaseState
    BY DEF TransportHolds, TransportTypes
  <1>2. CASE l # NoOne /\ dlna_lease.current = l
    BY <1>1, <1>2, TransportFacts DEF released, LeaseState
  <1>3. CASE ~(l # NoOne /\ dlna_lease.current = l)
    BY <1>1, <1>3 DEF released
  <1> QED
    BY <1>2, <1>3

LEMMA SoapBegins ==
    ASSUME TransportHolds, soap_begins
    PROVE  TransportHolds'
  <1>1. soap \in SoapState /\ SoapOK /\ soap.at = "begin" /\ dlna_lease \in LeaseState
    BY DEF TransportHolds, TransportTypes, soap_begins
  <1>2. UNCHANGED <<view, commands, playing, executing, event, home, frame, fate>>
    BY DEF soap_begins, Player
  <1>3. ASSUME dlna_lease.last < MaxLeases, dlna_lease' = claimed_by("DLNA"),
               soap' = [soap EXCEPT !.at = "resources", !.claimed = TRUE, !.lease = dlna_lease'.current]
        PROVE  TransportHolds'
    <2>1. /\ dlna_lease' \in LeaseState /\ dlna_lease'.last = dlna_lease.last + 1
          /\ dlna_lease'.current.generation = dlna_lease'.last /\ dlna_lease'.current.owner = "DLNA"
          /\ \A l \in Leases : l.generation <= dlna_lease.last =>
                l # dlna_lease'.current /\ l.generation <= dlna_lease'.last
      BY <1>3, LeaseClaimed
    <2>2. /\ soap' \in SoapState /\ soap'.n = soap.n /\ soap'.act = soap.act /\ soap'.claimed
          /\ soap'.at = "resources" /\ soap'.lease = dlna_lease'.current
      BY <1>1, <1>3, <2>1 DEF SoapState, SoapSteps, LeaseState
    <2>3. TransportTypes'
      BY <1>2, <2>1, <2>2 DEF TransportHolds, TransportTypes
    <2>4. LeaseOK'
      BY <2>1, <2>2, TransportAssumption DEF LeaseOK, LeaseState
    <2>5. SoapOK'
      BY <1>1, <1>2, <2>1, <2>2 DEF SoapOK
    <2>6. FateOK'
      BY <1>2, <2>2 DEF TransportHolds, FateOK
    <2>7. ASSUME NEW c \in TransportCommand, Waiting(c) PROVE Waiting(c)'
      <3>1. c.lease \in Leases
        BY DEF TransportCommand
      <3> QED
        BY <1>2, <2>1, <2>7, <3>1 DEF Waiting
    <2>8. QueueOK'
      BY <1>2, <2>7, QueueStays DEF TransportHolds
    <2> QED
      BY <2>3, <2>4, <2>5, <2>6, <2>8 DEF TransportHolds
  <1>4. ASSUME soap' = [soap EXCEPT !.at = "fault"], UNCHANGED dlna_lease
        PROVE  TransportHolds'
    <2>1. /\ soap' \in SoapState /\ soap'.n = soap.n /\ soap'.claimed = soap.claimed
          /\ soap'.act = soap.act /\ soap'.lease = soap.lease /\ soap'.at = "fault"
      BY <1>1, <1>4 DEF SoapState, SoapSteps
    <2>2. SoapOK'
      BY <1>1, <1>2, <2>1 DEF SoapOK
    <2> QED
      BY <1>1, <1>2, <1>4, <2>1, <2>2, SoapMoves
  <1> QED
    BY <1>3, <1>4 DEF soap_begins, continues

\* The command of an action is the only one of its number.
LEMMA SoapSubmits ==
    ASSUME TransportHolds, soap_submits
    PROVE  TransportHolds'
  <1>1. /\ soap \in SoapState /\ SoapOK /\ soap.at = "submit" /\ soap.n \in Actions /\ soap.act # "none"
        /\ fate \in [Actions -> Fate] /\ fate[soap.n].command = "none"
        /\ UNCHANGED <<dlna_lease, view, playing, executing, event, home, frame>>
    BY TransportFacts DEF TransportHolds, TransportTypes, soap_submits, SoapOK, SoapState
  <1>2. CASE Len(commands) < MaxWaiting
    <2>1. /\ commands' = Append(commands, [kind |-> soap.act, n |-> soap.n, lease |-> soap.lease])
          /\ fate' = [fate EXCEPT ![soap.n] = [fate[soap.n] EXCEPT !.command = "queued"]]
          /\ soap' = [soap EXCEPT !.at = "wait"]
      BY <1>2 DEF soap_submits, continues
    <2>2. PICK new \in TransportCommand : new = [kind |-> soap.act, n |-> soap.n, lease |-> soap.lease]
      BY <1>1 DEF TransportCommand, SoapState
    <2>3. /\ soap' \in SoapState /\ soap'.n = soap.n /\ soap'.claimed = soap.claimed
          /\ soap'.act = soap.act /\ soap'.lease = soap.lease /\ soap'.at = "wait"
      BY <1>1, <2>1 DEF SoapState, SoapSteps
    <2>4. fate[soap.n] \in Fate /\ [fate[soap.n] EXCEPT !.command = "queued"] \in Fate
      BY <1>1 DEF Fate
    <2>5. /\ fate' \in [Actions -> Fate] /\ fate'[soap.n].command = "queued"
          /\ \A n \in Actions : /\ fate'[n].answer = fate[n].answer
                                /\ n # soap.n => fate'[n].command = fate[n].command
      BY <1>1, <2>1, <2>4 DEF Fate
    <2>6. LeaseOK'
      BY <1>1, <2>3 DEF TransportHolds, LeaseOK
    <2>7. SoapOK'
      BY <1>1, <2>3, <2>5 DEF SoapOK
    <2>8. FateOK'
      <3>1. executing.n # 0 => executing.n \in Actions /\ executing.n # soap.n
        BY <1>1, TransportFacts DEF TransportHolds, TransportTypes, TransportCommand, FateOK
      <3> QED
        BY <1>1, <2>3, <2>5, <3>1 DEF TransportHolds, FateOK
    <2>9. ASSUME NEW c \in TransportCommand, Waiting(c)
          PROVE  Waiting(c)' /\ (new.n # 0 => c.n # new.n)
      <3>1. c.n # 0 => c.n \in Actions /\ c.n # soap.n
        BY <1>1, <2>9, TransportFacts DEF TransportCommand, Waiting
      <3> QED
        BY <1>1, <2>2, <2>5, <2>9, <3>1, TransportFacts DEF Waiting
    <2>10. Waiting(new)'
      <3>1. /\ new.kind = soap.act /\ new.n = soap.n /\ new.lease = soap.lease
        BY <2>2
      <3>2. soap.lease.generation <= dlna_lease.last
        BY DEF TransportHolds, LeaseOK
      <3>3. soap.act \in Transport => soap.lease.owner = "DLNA"
        BY <1>1 DEF SoapOK
      <3>4. soap.act = "SetURI" => soap.claimed
        BY <1>1 DEF SoapOK
      <3> QED
        BY <1>1, <2>3, <2>5, <3>1, <3>2, <3>3, <3>4, TransportFacts DEF Waiting
    <2>11. commands' = Append(commands, new)
      BY <2>1, <2>2
    <2>12. QueueOK' /\ commands' \in Seq(TransportCommand) /\ Len(commands') <= MaxWaiting
      BY <1>2, <2>9, <2>10, <2>11, QueueGrows DEF TransportHolds
    <2>13. TransportTypes'
      BY <1>1, <2>3, <2>5, <2>12 DEF TransportHolds, TransportTypes
    <2> QED
      BY <2>6, <2>7, <2>8, <2>12, <2>13 DEF TransportHolds
  <1>3. CASE ~(Len(commands) < MaxWaiting)
    <2>1. PICK at \in {"abort", "fault"} :
             /\ soap' = [soap EXCEPT !.at = at] /\ (at = "abort" => soap.claimed)
             /\ UNCHANGED <<commands, fate>>
      BY <1>3 DEF soap_submits, continues
    <2>2. /\ soap' \in SoapState /\ soap'.n = soap.n /\ soap'.claimed = soap.claimed
          /\ soap'.act = soap.act /\ soap'.lease = soap.lease /\ soap'.at = at
      BY <1>1, <2>1 DEF SoapState, SoapSteps
    <2>3. SoapOK'
      BY <1>1, <2>1, <2>2 DEF SoapOK
    <2> QED
      BY <1>1, <2>1, <2>2, <2>3, SoapMoves
  <1> QED
    BY <1>2, <1>3

\* The lease is given up: whatever was queued with it is stale from now on.
LEMMA SoapGivesUp ==
    ASSUME TransportHolds, soap_aborts \/ soap_releases
    PROVE  TransportHolds'
  <1>1. /\ soap \in SoapState /\ SoapOK /\ soap.lease \in Leases /\ dlna_lease' = released(soap.lease)
        /\ UNCHANGED <<view, commands, playing, executing, event, home, frame, fate>>
    BY DEF TransportHolds, TransportTypes, soap_aborts, soap_releases, SoapState, Player
  <1>2. PICK at \in {"fault", "apply"} :
           /\ soap' = [soap EXCEPT !.at = at]
           /\ at = "fault" => soap.at = "abort"
           /\ at = "apply" => soap.at = "release"
    BY DEF soap_aborts, soap_releases, continues
  <1>3. /\ soap' \in SoapState /\ soap'.n = soap.n /\ soap'.claimed = soap.claimed
        /\ soap'.act = soap.act /\ soap'.lease = soap.lease /\ soap'.at = at
    BY <1>1, <1>2 DEF SoapState, SoapSteps
  <1>4. /\ dlna_lease' \in LeaseState /\ dlna_lease'.last = dlna_lease.last
        /\ dlna_lease'.current \in {dlna_lease.current, NoOne}
        /\ soap.lease # NoOne => dlna_lease'.current # soap.lease
    BY <1>1, LeaseReleased
  <1>5. TransportTypes'
    BY <1>1, <1>3, <1>4 DEF TransportHolds, TransportTypes
  <1>6. LeaseOK'
    BY <1>3, <1>4, TransportFacts DEF TransportHolds, LeaseOK, LeaseState
  <1>7. SoapOK'
    BY <1>1, <1>2, <1>3 DEF SoapOK
  <1>8. FateOK'
    BY <1>1, <1>3 DEF TransportHolds, FateOK
  <1>9. ASSUME NEW c \in TransportCommand, Waiting(c) PROVE Waiting(c)'
    <2>1. c.kind = "SetURI" => c.lease # NoOne
      BY <1>9, TransportFacts DEF Waiting, Transport
    <2>2. c.kind = "SetURI" => c.lease # dlna_lease'.current
      BY <1>2, <1>4, <1>9, <2>1 DEF Waiting
    <2> QED
      BY <1>1, <1>4, <1>9, <2>2 DEF Waiting
  <1>10. QueueOK'
    BY <1>1, <1>9, QueueStays DEF TransportHolds
  <1> QED
    BY <1>5, <1>6, <1>7, <1>8, <1>10 DEF TransportHolds

LEMMA SoapEnds ==
    ASSUME TransportHolds, soap_ends
    PROVE  TransportHolds'
  <1>1. /\ soap \in SoapState /\ SoapOK /\ soap.at = "end" /\ soap.act # "none"
        /\ UNCHANGED <<dlna_lease, view, commands, playing, executing, event, frame>>
    BY DEF TransportHolds, TransportTypes, soap_ends, SoapOK, Player
  <1>2. view' \in ViewState /\ home' \in BOOLEAN
    BY DEF TransportHolds, TransportTypes, soap_ends
  <1>3. CASE soap.act \in Rendering
    <2>1. answers("ok")
      BY <1>3 DEF soap_ends
    <2> QED
      BY <1>1, <1>2, <2>1, SoapAnswers
  <1>4. CASE soap.act \notin Rendering
    <2>1. soap' = [soap EXCEPT !.at = "apply"] /\ UNCHANGED fate
      BY <1>4 DEF soap_ends, continues
    <2>2. /\ soap' \in SoapState /\ soap'.n = soap.n /\ soap'.claimed = soap.claimed
          /\ soap'.act = soap.act /\ soap'.lease = soap.lease /\ soap'.at = "apply"
      BY <1>1, <2>1 DEF SoapState, SoapSteps
    <2>3. soap.act \in Transport
      BY <1>1, <1>4 DEF SoapState
    <2>4. SoapOK'
      BY <1>1, <2>1, <2>2, <2>3 DEF SoapOK
    <2> QED
      BY <1>1, <1>2, <2>1, <2>2, <2>4, SoapMovesOn
  <1> QED
    BY <1>3, <1>4

LEMMA SoapApplies ==
    ASSUME TransportHolds, soap_applies
    PROVE  TransportHolds'
  <1>1. /\ soap \in SoapState /\ SoapOK /\ soap.at = "apply" /\ soap.act \in Transport
        /\ view \in ViewState
        /\ UNCHANGED <<dlna_lease, commands, playing, executing, event, frame, home>>
    BY DEF TransportHolds, TransportTypes, soap_applies, SoapOK, Player
  <1>2. view' \in ViewState
    <2>1. view' = applied_view
      BY DEF soap_applies
    <2>2. CASE soap.act = "SetURI"
      BY <1>1, <2>1, <2>2 DEF applied_view, ViewState, SoapState
    <2>3. CASE soap.act = "Play"
      BY <1>1, <2>1, <2>3 DEF applied_view, ViewState
    <2>4. CASE soap.act = "Pause"
      BY <1>1, <2>1, <2>4 DEF applied_view, ViewState
    <2>5. CASE soap.act = "Stop"
      BY <1>1, <2>1, <2>5 DEF applied_view, ViewState
    <2>6. CASE soap.act = "Seek"
      BY <1>1, <2>1, <2>6 DEF applied_view, ViewState
    <2> QED
      BY <1>1, <2>2, <2>3, <2>4, <2>5, <2>6 DEF Transport
  <1>3. home' \in BOOLEAN
    BY <1>1 DEF TransportHolds, TransportTypes
  <1>4. CASE soap.act # "Stop"
    <2>1. answers("ok")
      BY <1>4 DEF soap_applies
    <2> QED
      BY <1>1, <1>2, <1>3, <2>1, SoapAnswers
  <1>5. CASE soap.act = "Stop"
    <2>1. soap' = [soap EXCEPT !.at = "home"] /\ UNCHANGED fate
      BY <1>5 DEF soap_applies, continues
    <2>2. /\ soap' \in SoapState /\ soap'.n = soap.n /\ soap'.claimed = soap.claimed
          /\ soap'.act = soap.act /\ soap'.lease = soap.lease /\ soap'.at = "home"
      BY <1>1, <2>1 DEF SoapState, SoapSteps
    <2>3. SoapOK'
      BY <1>1, <1>5, <2>1, <2>2 DEF SoapOK
    <2> QED
      BY <1>1, <1>2, <1>3, <2>1, <2>2, <2>3, SoapMovesOn
  <1> QED
    BY <1>4, <1>5

LEMMA SoapRequestsHome ==
    ASSUME TransportHolds, soap_requests_home
    PROVE  TransportHolds'
  <1>1. view' \in ViewState /\ home' \in BOOLEAN
    BY DEF TransportHolds, TransportTypes, soap_requests_home
  <1> QED
    BY <1>1, SoapAnswers DEF soap_requests_home, Player

-----------------------------------------------------------------------------
(* The actor, its events, the frame and the other protocols. *)

LEMMA ActorBegins ==
    ASSUME TransportHolds, actor_begins
    PROVE  TransportHolds'
  <1> DEFINE head == Head(commands)
             what == IF head.lease \in {NoOne, dlna_lease.current} THEN "begun" ELSE "stale"
  <1>1. /\ commands # <<>> /\ commands' = Tail(commands) /\ fate' = becomes(head.n, what)
        /\ executing' = (IF what = "begun" THEN head ELSE NotExecuting)
        /\ UNCHANGED <<dlna_lease, soap, view, playing, event, home, frame>>
    BY DEF actor_begins
  <1>2. head \in TransportCommand /\ Waiting(head)
    <2>1. /\ commands \in Seq(TransportCommand) /\ Len(commands) \in Nat \ {0}
          /\ head = commands[1]
      BY <1>1 DEF TransportHolds, TransportTypes
    <2>2. 1 \in 1 .. Len(commands)
      BY <2>1
    <2> QED
      BY <2>1, <2>2 DEF TransportHolds, QueueOK
  <1>3. /\ fate \in [Actions -> Fate] /\ head.n \in 0 .. MaxActions
        /\ head.n # 0 => head.n \in Actions /\ fate[head.n].command = "queued"
    BY <1>2, TransportFacts DEF TransportHolds, TransportTypes, TransportCommand, Waiting
  <1>4. /\ fate' \in [Actions -> Fate]
        /\ \A n \in Actions : /\ fate'[n].answer = fate[n].answer
                              /\ n # head.n => fate'[n].command = fate[n].command
        /\ head.n # 0 => fate'[head.n].command = what
    <2>1. CASE head.n = 0
      BY <1>1, <1>3, <2>1 DEF becomes
    <2>2. CASE head.n # 0
      <3>1. fate' = [fate EXCEPT ![head.n] = [fate[head.n] EXCEPT !.command = what]]
        BY <1>1, <2>2 DEF becomes
      <3>2. fate[head.n] \in Fate /\ what \in {"begun", "stale"}
        BY <1>3, <2>2
      <3>3. [fate[head.n] EXCEPT !.command = what] \in Fate
        BY <3>2 DEF Fate
      <3> HIDE DEF what
      <3> QED
        BY <1>3, <2>2, <3>1, <3>2, <3>3 DEF Fate
    <2> QED
      BY <2>1, <2>2
  <1>5. ASSUME NEW c \in TransportCommand, Waiting(c), c.n = 0 \/ c.n # Head(commands).n
        PROVE  Waiting(c)'
    <2>1. c.n # 0 => c.n \in Actions
      BY TransportFacts DEF TransportCommand
    <2> QED
      BY <1>1, <1>4, <1>5, <2>1 DEF Waiting
  <1>6. QueueOK' /\ commands' \in Seq(TransportCommand) /\ Len(commands') <= MaxWaiting
    BY <1>1, <1>5, QueueShrinks DEF TransportHolds
  <1>7. TransportTypes'
    BY <1>1, <1>2, <1>4, <1>6 DEF TransportHolds, TransportTypes
  <1>8. LeaseOK'
    BY <1>1 DEF TransportHolds, LeaseOK
  <1>9. SoapOK'
    <2>1. soap.n # 0 => soap.n \in Actions
      BY TransportFacts DEF TransportHolds, TransportTypes, SoapState
    <2>2. fate[soap.n].command = "none" /\ soap.n # 0 => soap.n # head.n
      BY <1>3
    <2> QED
      BY <1>1, <1>4, <2>1, <2>2 DEF TransportHolds, SoapOK
  <1>10. FateOK'
    BY <1>1, <1>3, <1>4, TransportFacts DEF TransportHolds, FateOK
  <1> QED
    BY <1>6, <1>7, <1>8, <1>9, <1>10 DEF TransportHolds

LEMMA ActorFinishes ==
    ASSUME TransportHolds, NEW ok \in BOOLEAN, actor_finishes(ok)
    PROVE  TransportHolds'
  <1> DEFINE what == IF ok THEN "done" ELSE "failed"
  <1>1. /\ executing # NotExecuting /\ fate' = becomes(executing.n, what)
        /\ playing' = (IF ok THEN played(executing) ELSE playing)
        /\ executing' = NotExecuting /\ raises
        /\ UNCHANGED <<dlna_lease, soap, view, commands, home, frame>>
    BY DEF actor_finishes
  <1>2. /\ executing \in TransportCommand /\ fate \in [Actions -> Fate]
        /\ executing.n # 0 => executing.n \in Actions /\ fate[executing.n].command = "begun"
    BY <1>1, TransportFacts DEF TransportHolds, TransportTypes, TransportCommand, FateOK
  <1>3. /\ fate' \in [Actions -> Fate]
        /\ \A n \in Actions : /\ fate'[n].answer = fate[n].answer
                              /\ n # executing.n => fate'[n].command = fate[n].command
    <2>1. CASE executing.n = 0
      BY <1>1, <1>2, <2>1 DEF becomes
    <2>2. CASE executing.n # 0
      <3>1. fate' = [fate EXCEPT ![executing.n] = [fate[executing.n] EXCEPT !.command = what]]
        BY <1>1, <2>2 DEF becomes
      <3>2. fate[executing.n] \in Fate /\ what \in {"done", "failed"}
        BY <1>2, <2>2
      <3>3. [fate[executing.n] EXCEPT !.command = what] \in Fate
        BY <3>2 DEF Fate
      <3> HIDE DEF what
      <3> QED
        BY <1>2, <2>2, <3>1, <3>2, <3>3 DEF Fate
    <2> QED
      BY <2>1, <2>2
  <1>4. playing' \in PlayingState
    <2>1. playing \in PlayingState
      BY DEF TransportHolds, TransportTypes
    <2>2. played(executing) \in PlayingState
      BY <1>2, <2>1, TransportAssumption DEF played, PlayingState, TransportCommand, RendererStates
    <2> QED
      BY <1>1, <2>1, <2>2
  <1>5. event' \in EventState
    BY <1>1, <1>4 DEF raises, EventState, PlayingState, TransportHolds, TransportTypes
  <1>6. TransportTypes' /\ LeaseOK'
    BY <1>1, <1>3, <1>4, <1>5 DEF TransportHolds, TransportTypes, LeaseOK
  <1>7. SoapOK'
    <2>1. soap.n # 0 => soap.n \in Actions
      BY TransportFacts DEF TransportHolds, TransportTypes, SoapState
    <2>2. fate[soap.n].command = "none" /\ soap.n # 0 => soap.n # executing.n
      BY <1>2
    <2> QED
      BY <1>1, <1>3, <2>1, <2>2 DEF TransportHolds, SoapOK
  <1>8. FateOK'
    BY <1>1, <1>2, <1>3, TransportFacts DEF TransportHolds, FateOK
  <1>9. ASSUME NEW c \in TransportCommand, Waiting(c) PROVE Waiting(c)'
    <2>1. c.n # 0 => c.n \in Actions /\ c.n # executing.n
      BY <1>2, <1>9, TransportFacts DEF TransportCommand, Waiting
    <2> QED
      BY <1>1, <1>3, <1>9, <2>1 DEF Waiting
  <1>10. QueueOK'
    BY <1>1, <1>9, QueueStays DEF TransportHolds
  <1> QED
    BY <1>6, <1>7, <1>8, <1>10 DEF TransportHolds

\* The steps that touch neither an action nor the queue nor the lease.
LEMMA Aside ==
    ASSUME TransportHolds, UNCHANGED <<dlna_lease, soap, commands, executing, fate>>,
           view' \in ViewState, playing' \in PlayingState, event' \in EventState,
           home' \in BOOLEAN, frame' \in FrameState
    PROVE  TransportHolds'
  <1>1. TransportTypes' /\ LeaseOK' /\ SoapOK' /\ FateOK'
    BY DEF TransportHolds, TransportTypes, LeaseOK, SoapOK, FateOK
  <1>2. \A c \in TransportCommand : Waiting(c) => Waiting(c)'
    BY DEF Waiting
  <1>3. QueueOK'
    BY <1>2, QueueStays DEF TransportHolds
  <1> QED
    BY <1>1, <1>3 DEF TransportHolds

LEMMA EventsAndFrame ==
    ASSUME TransportHolds,
           actor_pumps \/ event_filtered \/ event_applied \/ frame_samples \/ frame_consumes
    PROVE  TransportHolds'
  <1>1. /\ view \in ViewState /\ playing \in PlayingState /\ event \in EventState
        /\ home \in BOOLEAN /\ frame \in FrameState /\ dlna_lease.current \in Leases
    BY DEF TransportHolds, TransportTypes, LeaseState
  <1>2. CASE actor_pumps
    <2>1. playing' \in PlayingState
      BY <1>1, <1>2, TransportAssumption DEF actor_pumps, PlayingState, RendererStates
    <2>2. event' \in EventState
      BY <1>1, <1>2, <2>1 DEF actor_pumps, raises, PlayingState, EventState
    <2> QED
      BY <1>1, <1>2, <2>1, <2>2, Aside DEF actor_pumps
  <1>3. CASE event_filtered
    <2>1. event' \in EventState
      BY <1>1, <1>3 DEF event_filtered, EventState
    <2> QED
      BY <1>1, <1>3, <2>1, Aside DEF event_filtered
  <1>4. CASE event_applied
    <2>1. event' \in EventState
      BY <1>1, <1>4 DEF event_applied, EventState
    <2>2. view' \in ViewState
      BY <1>1, <1>4 DEF event_applied, shown, ViewState
    <2> QED
      BY <1>1, <1>4, <2>1, <2>2, Aside DEF event_applied
  <1>5. CASE frame_samples
    <2>1. frame' \in FrameState
      BY <1>1, <1>5 DEF frame_samples, FrameState
    <2> QED
      BY <1>1, <1>5, <2>1, Aside DEF frame_samples, Player
  <1>6. CASE frame_consumes
    <2>1. frame' \in FrameState /\ home' \in BOOLEAN
      BY <1>1, <1>6 DEF frame_consumes, FrameState
    <2> QED
      BY <1>1, <1>6, <2>1, Aside DEF frame_consumes, Player
  <1> QED
    BY <1>2, <1>3, <1>4, <1>5, <1>6

\* Somebody else moves the lease; none of DLNA's becomes current again.
LEMMA LeaseMoves ==
    ASSUME TransportHolds, dlna_lease' \in LeaseState,
           dlna_lease'.last \in {dlna_lease.last, dlna_lease.last + 1},
           dlna_lease'.current.generation <= dlna_lease'.last,
           \A l \in Leases : l.owner = "DLNA" /\ l.generation <= dlna_lease.last
                                /\ l = dlna_lease'.current => l = dlna_lease.current,
           home' \in BOOLEAN, frame' \in FrameState,
           UNCHANGED <<soap, view, commands, playing, executing, event, fate>>
    PROVE  TransportHolds'
  <1>1. TransportTypes' /\ SoapOK' /\ FateOK'
    BY DEF TransportHolds, TransportTypes, SoapOK, FateOK
  <1>2. \A l \in Leases : l.generation <= dlna_lease.last => l.generation <= dlna_lease'.last
    BY TransportFacts, TransportAssumption DEF TransportHolds, TransportTypes, LeaseState
  <1>3. LeaseOK'
    BY <1>2 DEF TransportHolds, TransportTypes, SoapState, LeaseOK
  <1>4. ASSUME NEW c \in TransportCommand, Waiting(c) PROVE Waiting(c)'
    <2>1. c.lease \in Leases
      BY DEF TransportCommand
    <2> QED
      BY <1>2, <1>4, <2>1 DEF Waiting, Transport
  <1>5. QueueOK'
    BY <1>4, QueueStays DEF TransportHolds
  <1> QED
    BY <1>1, <1>3, <1>5 DEF TransportHolds

LEMMA OthersMove ==
    ASSUME TransportHolds, other_claims \/ other_releases
    PROVE  TransportHolds'
  <1>1. /\ home' \in BOOLEAN /\ frame' \in FrameState /\ dlna_lease.current \in Leases
        /\ dlna_lease.last \in Nat
        /\ UNCHANGED <<soap, view, commands, playing, executing, event, fate>>
    BY TransportAssumption DEF TransportHolds, TransportTypes, LeaseState, other_claims, other_releases, Player
  <1>2. CASE other_claims
    <2>1. /\ dlna_lease' \in LeaseState /\ dlna_lease'.last = dlna_lease.last + 1
          /\ dlna_lease'.current.generation = dlna_lease'.last /\ dlna_lease'.current.owner = "OTHER"
      BY <1>2, LeaseClaimed DEF other_claims
    <2> QED
      BY <1>1, <2>1, LeaseMoves
  <1>3. CASE other_releases
    <2>1. /\ dlna_lease' \in LeaseState /\ dlna_lease'.last = dlna_lease.last
          /\ dlna_lease'.current \in {dlna_lease.current, NoOne}
      BY <1>1, <1>3, LeaseReleased DEF other_releases
    <2>2. dlna_lease'.current.generation <= dlna_lease'.last
      BY <1>1, <2>1, TransportFacts DEF TransportHolds, LeaseOK
    <2> QED
      BY <1>1, <2>1, <2>2, LeaseMoves, TransportFacts
  <1> QED
    BY <1>2, <1>3

LEMMA FrameReturnsHome ==
    ASSUME TransportHolds, frame_returns_home
    PROVE  TransportHolds'
  <1>1. /\ frame \in FrameState /\ frame.lease \in Leases /\ dlna_lease.current \in Leases
        /\ dlna_lease.last \in Nat /\ home \in BOOLEAN
        /\ UNCHANGED <<soap, view, playing, executing, event, fate>>
    BY TransportAssumption DEF TransportHolds, TransportTypes, FrameState, LeaseState, frame_returns_home
  <1>2. frame' \in FrameState
    BY <1>1, TransportFacts DEF frame_returns_home, FrameState
  <1>3. CASE frame.active /\ Len(commands) < MaxWaiting
    <2>1. /\ commands' = Append(commands, [kind |-> "STOP_ANY", n |-> 0, lease |-> NoOne])
          /\ UNCHANGED <<home, dlna_lease>>
      BY <1>3 DEF frame_returns_home
    <2>2. PICK new \in TransportCommand : new = [kind |-> "STOP_ANY", n |-> 0, lease |-> NoOne]
      <3>1. 0 \in 0 .. MaxActions
        BY TransportAssumption
      <3>2. [kind |-> "STOP_ANY", n |-> 0, lease |-> NoOne] \in TransportCommand
        BY <3>1, TransportFacts DEF TransportCommand
      <3> QED
        BY <3>2
    <2>3. \A c \in TransportCommand : Waiting(c) => Waiting(c)' /\ (new.n # 0 => c.n # new.n)
      BY <1>1, <2>1, <2>2 DEF Waiting
    <2>4. Waiting(new)'
      BY <1>1, <2>1, <2>2, TransportFacts DEF Waiting, Transport
    <2>5. commands' = Append(commands, new)
      BY <2>1, <2>2
    <2>6. QueueOK' /\ commands' \in Seq(TransportCommand) /\ Len(commands') <= MaxWaiting
      BY <1>3, <2>3, <2>4, <2>5, QueueGrows DEF TransportHolds
    <2>7. TransportTypes' /\ LeaseOK' /\ SoapOK' /\ FateOK'
      BY <1>1, <1>2, <2>1, <2>6 DEF TransportHolds, TransportTypes, LeaseOK, SoapOK, FateOK
    <2> QED
      BY <2>6, <2>7 DEF TransportHolds
  <1>4. CASE frame.active /\ ~(Len(commands) < MaxWaiting)
    <2>1. home' \in BOOLEAN /\ UNCHANGED <<dlna_lease, commands>>
      BY <1>4 DEF frame_returns_home
    <2>2. view' \in ViewState /\ playing' \in PlayingState /\ event' \in EventState
      BY <1>1 DEF TransportHolds, TransportTypes
    <2> QED
      BY <1>1, <1>2, <2>1, <2>2, Aside
  <1>5. CASE ~frame.active
    <2>1. dlna_lease' = released(frame.lease) /\ home' \in BOOLEAN /\ UNCHANGED commands
      BY <1>1, <1>5 DEF frame_returns_home
    <2>2. /\ dlna_lease' \in LeaseState /\ dlna_lease'.last = dlna_lease.last
          /\ dlna_lease'.current \in {dlna_lease.current, NoOne}
      BY <1>1, <2>1, LeaseReleased
    <2>3. dlna_lease'.current.generation <= dlna_lease'.last
      BY <1>1, <2>2, TransportFacts DEF TransportHolds, LeaseOK
    <2> QED
      BY <1>1, <1>2, <2>1, <2>2, <2>3, LeaseMoves, TransportFacts
  <1> QED
    BY <1>3, <1>4, <1>5

-----------------------------------------------------------------------------
(* The theorems. *)

LEMMA TransportHalves == (TransportInv <=> TransportHolds) /\ (TransportInv' <=> TransportHolds')
  BY TransportTyped DEF TransportInv, TransportHolds

LEMMA TransportInitInv == TransportInit => TransportInv
  <1> SUFFICES ASSUME TransportInit PROVE TransportHolds
    BY TransportHalves
  <1>1. dlna_lease \in LeaseState /\ frame \in FrameState
    BY TransportFacts, TransportAssumption DEF TransportInit, LeaseState, FrameState
  <1>2. view \in ViewState /\ playing \in PlayingState /\ event \in EventState
    BY TransportAssumption DEF TransportInit, ViewState, PlayingState, EventState, RendererStates
  <1>3. commands \in Seq(TransportCommand) /\ Len(commands) = 0 /\ Len(commands) <= MaxWaiting
    BY TransportAssumption DEF TransportInit
  <1>4. fate \in [Actions -> Fate]
    BY DEF TransportInit, Fate
  <1>5. home \in BOOLEAN
    BY DEF TransportInit
  <1>6. TransportTypes
    BY <1>1, <1>2, <1>3, <1>4, <1>5, TransportFacts DEF TransportInit, TransportTypes
  <1>7. LeaseOK /\ SoapOK
    BY TransportFacts DEF TransportInit, LeaseOK, SoapOK, NoSoap
  <1>8. QueueOK
    BY <1>3 DEF QueueOK
  <1>9. FateOK
    BY TransportFacts DEF TransportInit, FateOK
  <1> QED
    BY <1>6, <1>7, <1>8, <1>9 DEF TransportHolds

LEMMA TransportNextInv == TransportInv /\ [TransportNext]_TransportVars => TransportInv'
  <1> SUFFICES ASSUME TransportHolds, [TransportNext]_TransportVars
               PROVE  TransportHolds'
    BY TransportHalves
  <1>1. CASE soap_queries \/ soap_reports \/ soap_navigates \/ soap_sets_mode
    BY <1>1, SoapAnswered DEF soap_queries, soap_reports, soap_navigates, soap_sets_mode
  <1>2. CASE UNCHANGED TransportVars
    <2>1. /\ view' \in ViewState /\ playing' \in PlayingState /\ event' \in EventState
          /\ home' \in BOOLEAN /\ frame' \in FrameState
      BY <1>2 DEF TransportHolds, TransportTypes, TransportVars
    <2> QED
      BY <1>2, <2>1, Aside DEF TransportVars
  <1> QED
    BY <1>1, <1>2, SoapReceives, SoapChecks, SoapFaults, SoapGuards, SoapStopsNothing, SoapBegins,
       SoapWaitsResources, SoapSubmits, SoapWaits, SoapGivesUp, SoapEnds, SoapApplies,
       SoapRequestsHome, ActorBegins, ActorFinishes, EventsAndFrame, FrameReturnsHome, OthersMove
       DEF TransportNext

LEMMA TransportInvariant == TransportSpec => []TransportInv
  BY TransportInitInv, TransportNextInv, PTL DEF TransportSpec

\* Type correctness of the SOAP actions, the actor's queue and the protocol
\* state (soap_server.c, action/avtransport.c, protocol_state.c).
THEOREM TransportTypeCorrect == TransportSpec => []TransportTypeOK
  <1>1. TransportInv => TransportTypeOK
    BY DEF TransportInv
  <1> QED
    BY <1>1, TransportInvariant, PTL

\* However many actions, leases and queued commands there are, a refused
\* SetAVTransportURI never plays afterwards, and a transport command begins
\* only under the lease its action saw, still DLNA's
\* (avtransport_submit_leased_command, protocol_coordinator_media_abort).
THEOREM RefusalIsFinal == TransportSpec => RefusedNeverPlays
  <1> DEFINE Honest ==
        \A n \in Actions :
          fate[n].command = "queued" /\ fate'[n].command = "begun" =>
             /\ executing'.kind \in Transport =>
                    dlna_lease.current.owner = "DLNA" /\ executing'.lease = dlna_lease.current
             /\ executing'.kind = "SetURI" => fate[n].answer = "none"
  <1>1. ASSUME TransportInv, [TransportNext]_TransportVars PROVE [Honest]_TransportVars
    <2> SUFFICES ASSUME TransportHolds, TransportNext, NEW n \in Actions,
                        fate[n].command = "queued", fate'[n].command = "begun"
                 PROVE  /\ executing'.kind \in Transport =>
                            dlna_lease.current.owner = "DLNA" /\ executing'.lease = dlna_lease.current
                        /\ executing'.kind = "SetURI" => fate[n].answer = "none"
      BY <1>1, TransportHalves DEF TransportVars
    <2>1. fate \in [Actions -> Fate] /\ soap.n \in 0 .. MaxActions
      BY DEF TransportHolds, TransportTypes, SoapState
    <2>2. CASE actor_begins
      <3> DEFINE head == Head(commands)
      <3>1. head \in TransportCommand /\ Waiting(head)
        <4>1. /\ commands \in Seq(TransportCommand) /\ Len(commands) \in Nat \ {0}
              /\ head = commands[1]
          BY <2>2 DEF TransportHolds, TransportTypes, actor_begins
        <4>2. 1 \in 1 .. Len(commands)
          BY <4>1
        <4> QED
          BY <4>1, <4>2 DEF TransportHolds, QueueOK
      <3>2. fate'[n] # fate[n]
        OBVIOUS
      <3>3. head.n = n /\ head.lease \in {NoOne, dlna_lease.current} /\ executing' = head
        BY <2>1, <2>2, <3>1, <3>2 DEF actor_begins, becomes, Fate
      <3>4. head.kind \in Transport => head.lease.owner = "DLNA" /\ head.lease = dlna_lease.current
        BY <3>1, <3>3, TransportFacts DEF Waiting
      <3>5. head.kind = "SetURI" => soap.n = n /\ soap.at # "idle"
        BY <3>1, <3>3, <3>4 DEF Waiting, Transport
      <3> QED
        BY <3>3, <3>4, <3>5 DEF TransportHolds, SoapOK
    <2>3. ASSUME NEW ok \in BOOLEAN, actor_finishes(ok) PROVE FALSE
      BY <2>1, <2>3 DEF actor_finishes, becomes, Fate
    <2>4. ASSUME NEW m, NEW answer, fate' = [fate EXCEPT ![m].answer = answer] PROVE FALSE
      BY <2>1, <2>4 DEF Fate
    <2>5. CASE soap_submits
      BY <2>1, <2>5 DEF soap_submits, Fate
    <2>6. ~UNCHANGED fate
      OBVIOUS
    <2>7. ~soap_queries /\ ~soap_reports /\ ~soap_navigates /\ ~soap_sets_mode
      BY <2>4, <2>6 DEF soap_queries, soap_reports, soap_navigates, soap_sets_mode, answered
    <2>8. ~soap_faults /\ ~soap_ends /\ ~soap_applies /\ ~soap_requests_home
      BY <2>4, <2>6 DEF soap_faults, soap_ends, soap_applies, soap_requests_home, answers
    <2>9. \A act : ~soap_receives(act)
      BY <2>6 DEF soap_receives
    <2>10. /\ ~soap_checks /\ ~soap_guards /\ ~soap_stops_nothing /\ ~soap_begins
           /\ ~soap_waits_resources /\ ~soap_waits /\ ~soap_aborts /\ ~soap_releases
      BY <2>6 DEF soap_checks, soap_guards, soap_stops_nothing, soap_begins, soap_waits_resources,
                  soap_waits, soap_aborts, soap_releases
    <2>11. /\ ~actor_pumps /\ ~event_filtered /\ ~event_applied /\ ~frame_samples
           /\ ~frame_consumes /\ ~frame_returns_home /\ ~other_claims /\ ~other_releases
      BY <2>6 DEF actor_pumps, event_filtered, event_applied, frame_samples, frame_consumes,
                  frame_returns_home, other_claims, other_releases
    <2> QED
      BY <2>2, <2>3, <2>5, <2>7, <2>8, <2>9, <2>10, <2>11 DEF TransportNext
  <1>2. TransportSpec => [][Honest]_TransportVars
    BY <1>1, TransportInvariant, PTL DEF TransportSpec
  <1> QED
    BY <1>2 DEF RefusedNeverPlays
=============================================================================
