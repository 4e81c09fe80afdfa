--------------------------- MODULE LogicalSession ---------------------------
(***************************************************************************)
(* The connections of an AirPlay sender and the logical sessions they      *)
(* belong to (airplay/protocol/logical_session.c, driven by receiver.c).   *)
(* A logical session lives as long as a connection is bound to it or media *)
(* holds a reference; a mirroring transport that ends takes the URL        *)
(* playback of the same device with it once its last connection is gone.   *)
(*                                                                         *)
(* Each operation holds the manager's mutex throughout and is one action.  *)
(* A request that is refused changes nothing: the receiver answers it and  *)
(* closes the connection.                                                  *)
(***************************************************************************)
EXTENDS Integers, FiniteSets

CONSTANTS
    ConnectionIds,      \* session->id of the server's connections
    AppleIds,           \* X-Apple-Session-ID
    ClientIds,          \* identities proved by pairing
    MaxLogical,         \* AIRPLAY_SESSION_MAX_LOGICAL_SESSIONS
    MaxLogicalId,       \* bound on the ids allocated
    MaxReferences       \* bound on media_reference_count

ASSUME LogicalAssumption ==
    /\ "none" \notin AppleIds \cup ClientIds
    /\ IsFiniteSet(ConnectionIds)
    /\ MaxLogical \in Nat \ {0} /\ MaxLogicalId \in Nat /\ MaxReferences \in Nat

VARIABLES
    connections,   \* manager->connections, by connection id
    logicals,      \* manager->logical_sessions
    next_id,       \* manager->next_logical_session_id
    ordered        \* the logical sessions whose media was told to stop

LogicalVars == <<connections, logicals, next_id, ordered>>

ConnectionKinds == {"UNKNOWN", "RAOP", "AIRPLAY", "BLE"}
UnusedEntry == [used |-> FALSE, kind |-> "UNKNOWN", client |-> "none", logical |-> 0]
NoLogical == [used |-> FALSE, id |-> 0, apple |-> "none", client |-> "none",
              connection_count |-> 0, media_references |-> 0, transport_terminated |-> FALSE]
LogicalSlots == 1 .. MaxLogical

LogicalTypeOK ==
    /\ connections \in [ConnectionIds -> [used : BOOLEAN, kind : ConnectionKinds,
                           client : ClientIds \cup {"none"}, logical : 0 .. MaxLogicalId]]
    /\ logicals \in [LogicalSlots -> [used : BOOLEAN, id : 0 .. MaxLogicalId,
                        apple : AppleIds \cup {"none"}, client : ClientIds \cup {"none"},
                        connection_count : 0 .. Cardinality(ConnectionIds),
                        media_references : 0 .. MaxReferences, transport_terminated : BOOLEAN]]
    /\ next_id \in 1 .. MaxLogicalId + 1 /\ ordered \subseteq 1 .. MaxLogicalId

\* airplay_session_manager_create
LogicalInit ==
    /\ connections = [c \in ConnectionIds |-> UnusedEntry]
    /\ logicals = [i \in LogicalSlots |-> NoLogical]
    /\ next_id = 1 /\ ordered = {}

-----------------------------------------------------------------------------
(* Lookups. *)

find_by_id(id) == {i \in LogicalSlots : logicals[i].used /\ logicals[i].id = id}
find_by_apple(apple) == {i \in LogicalSlots : logicals[i].used /\ logicals[i].apple = apple}
find_free == {i \in LogicalSlots : ~logicals[i].used}

\* classify_request: what a request says of its connection
classify(request) ==
    IF request.ble THEN "BLE"
    ELSE IF request.cseq THEN "RAOP"
    ELSE IF request.apple # "none" \/ request.http THEN "AIRPLAY"
    ELSE "UNKNOWN"

\* Those that need a logical session are the remote video ones and /reverse.
LogicalRequests ==
    {r \in [ble : BOOLEAN, cseq : BOOLEAN, http : BOOLEAN, media : BOOLEAN,
            apple : AppleIds \cup {"none"}] :
        /\ r.cseq => r.apple = "none" /\ ~r.ble
        /\ r.ble => ~r.media /\ ~r.http}

\* release_logical_if_unreferenced
released(entry) ==
    IF entry.connection_count = 0 /\ entry.media_references = 0 THEN NoLogical ELSE entry

\* What airplay_session_manager_close leaves of its connection's entry
closed_entry(entry) == released([entry EXCEPT !.connection_count = @ - 1])

-----------------------------------------------------------------------------
(* The manager's operations. *)

\* airplay_session_manager_observe: the entry of the request's session, by
\* the connection's binding or by the Apple id; none where it needs none.
entry_for(c, request) ==
    LET at == connections[c].logical
        known == find_by_apple(request.apple)
    IN  IF at # 0 THEN {i \in find_by_id(at) : request.apple \in {"none", logicals[i].apple}}
        ELSE IF request.apple = "none" THEN {}
        ELSE IF known # {} THEN known
        ELSE {i \in find_free : \A j \in find_free : i <= j}

kind_agrees(c, request) ==
    connections[c].kind = "UNKNOWN" \/ classify(request) \in {"UNKNOWN", connections[c].kind}

\* bind_connection, to an entry allocated for it if need be
bound_entry(i, c, request) ==
    LET entry == IF logicals[i].used THEN logicals[i]
                 ELSE [NoLogical EXCEPT !.used = TRUE, !.id = next_id, !.apple = request.apple]
    IN  [entry EXCEPT !.connection_count = @ + 1,
                      !.client = IF @ = "none" THEN connections[c].client ELSE @]

clients_agree(c, i) ==
    \/ connections[c].client = "none" \/ logicals[i].client = "none"
    \/ connections[c].client = logicals[i].client

\* A connection says what it is ...
observe(c, request) ==
    /\ kind_agrees(c, request)
    /\ request.apple = "none" \/ connections[c].logical # 0
    /\ connections[c].logical # 0 => entry_for(c, request) # {}
    /\ request.media => connections[c].logical # 0
    /\ connections' = [connections EXCEPT ![c].used = TRUE,
          ![c].kind = IF @ = "UNKNOWN" THEN classify(request) ELSE @]
    /\ connections' # connections
    /\ UNCHANGED <<logicals, next_id, ordered>>

\* ... and, with its first Apple id, whose it is.  A refusal changes nothing:
\* two clients can only disagree on a connection whose kind is known, and one
\* identifier more than there are entries is always tried.
observe_binds(c, request) ==
    /\ kind_agrees(c, request)
    /\ request.apple # "none" /\ connections[c].logical = 0
    /\ \E i \in entry_for(c, request) :
          /\ clients_agree(c, i)
          /\ logicals[i].used \/ next_id <= MaxLogicalId
          /\ logicals' = [logicals EXCEPT ![i] = bound_entry(i, c, request)]
          /\ connections' = [connections EXCEPT ![c].used = TRUE,
                ![c].kind = IF @ = "UNKNOWN" THEN classify(request) ELSE @,
                ![c].logical = logicals'[i].id]
          /\ next_id' = IF logicals[i].used THEN next_id ELSE next_id + 1
    /\ UNCHANGED ordered

\* airplay_session_manager_bind_client, after a pairing that succeeded: a
\* pairing request is observed first and classified RAOP or AIRPLAY.
bind_client(c, client) ==
    /\ connections[c].kind \in {"RAOP", "AIRPLAY"} /\ connections[c].client \in {"none", client}
    /\ \A i \in find_by_id(connections[c].logical) : logicals[i].client \in {"none", client}
    /\ connections' = [connections EXCEPT ![c].client = client]
    /\ logicals' = [i \in LogicalSlots |->
          IF i \in find_by_id(connections[c].logical) THEN [logicals[i] EXCEPT !.client = client]
          ELSE logicals[i]]
    /\ UNCHANGED <<next_id, ordered>>

\* airplay_session_manager_retain_media, for a request on a connection
retain_media(c) ==
    \E i \in find_by_id(connections[c].logical) :
        /\ connections[c].used
        /\ logicals[i].media_references < MaxReferences
        /\ logicals' = [logicals EXCEPT ![i].media_references = @ + 1]
        /\ UNCHANGED <<connections, next_id, ordered>>

\* airplay_session_manager_release_media, by whoever gives the player up
release_media(i) ==
    /\ logicals[i].used /\ logicals[i].media_references > 0
    /\ logicals' = [logicals EXCEPT ![i] = released([logicals[i] EXCEPT !.media_references = @ - 1])]
    /\ UNCHANGED <<connections, next_id, ordered>>

\* A TEARDOWN that ended its RTSP session: mark_transport_teardown, and the
\* media is stopped at once if no connection of its session is left.
playing_of(client) ==
    {i \in LogicalSlots : logicals[i].used /\ logicals[i].client = client
                          /\ logicals[i].media_references > 0}
mark_transport_teardown(c) ==
    LET matching == playing_of(connections[c].client)
    IN  /\ connections[c].used /\ connections[c].kind = "RAOP" /\ connections[c].client # "none"
        /\ Cardinality(matching) = 1
        /\ logicals' = [i \in LogicalSlots |->
              IF i \in matching THEN [logicals[i] EXCEPT !.transport_terminated = TRUE]
              ELSE logicals[i]]
        /\ ordered' = ordered \cup
              {logicals[i].id : i \in {j \in matching : logicals[j].connection_count = 0}}
        /\ UNCHANGED <<connections, next_id>>

\* receiver_session_closed: airplay_session_manager_close, then the media of
\* a terminated session is stopped with its last connection.
mutant_close_connection(c) ==
    LET found == find_by_id(connections[c].logical) IN
    /\ connections[c].used
    /\ logicals' = [i \in LogicalSlots |->
          IF i \in found THEN closed_entry(logicals[i]) ELSE logicals[i]]
    /\ connections' = [connections EXCEPT ![c] = UnusedEntry]
    /\ UNCHANGED <<next_id, ordered>>
close_connection(c) ==
    LET found == find_by_id(connections[c].logical)
        last == {i \in found : logicals[i].connection_count = 1}
    IN  /\ connections[c].used
        /\ logicals' = [i \in LogicalSlots |->
              IF i \in found THEN closed_entry(logicals[i]) ELSE logicals[i]]
        /\ connections' = [connections EXCEPT ![c] = UnusedEntry]
        /\ ordered' = ordered \cup
              {logicals[i].id : i \in {j \in last : /\ logicals[j].transport_terminated
                                                    /\ logicals[j].media_references > 0}}
        /\ UNCHANGED next_id

LogicalNext ==
    \/ \E c \in ConnectionIds :
          \/ \E r \in LogicalRequests : observe(c, r) \/ observe_binds(c, r)
          \/ \E client \in ClientIds : bind_client(c, client)
          \/ retain_media(c) \/ mark_transport_teardown(c) \/ close_connection(c)
    \/ \E i \in LogicalSlots : release_media(i)

LogicalSpec == LogicalInit /\ [][LogicalNext]_LogicalVars

-----------------------------------------------------------------------------
bound_to(id) == {c \in ConnectionIds : connections[c].used /\ connections[c].logical = id}

\* The table is exact over every order of requests, pairings, closes and
\* media claims: an entry is used exactly while a bound connection or media
\* refers to it, its count is the connections bound to it, no two entries
\* share an id or an Apple id, and no connection is bound to the session of
\* another paired device (bind_connection, release_logical_if_unreferenced).
SessionsReferenced ==
    /\ \A i \in LogicalSlots : logicals[i].used =>
          /\ logicals[i].connection_count = Cardinality(bound_to(logicals[i].id))
          /\ logicals[i].connection_count + logicals[i].media_references > 0
          /\ \A j \in LogicalSlots \ {i} : logicals[j].used =>
                logicals[i].id # logicals[j].id /\ logicals[i].apple # logicals[j].apple
    /\ \A c \in ConnectionIds : connections[c].logical # 0 =>
          \E i \in find_by_id(connections[c].logical) : clients_agree(c, i)

\* A transport that was torn down takes its device's playback with it,
\* whether its TEARDOWN comes before or after the session's last connection
\* closes: never does media go on with neither (mark_transport_teardown,
\* airplay_session_manager_close).
TeardownReachesMedia ==
    \A i \in LogicalSlots :
        /\ logicals[i].used /\ logicals[i].transport_terminated
        /\ logicals[i].connection_count = 0 /\ logicals[i].media_references > 0
        => logicals[i].id \in ordered

\* Sessions are shared by exactly those that use them, and end with them
\* (logical_session.c).
SessionsSettle == SessionsReferenced /\ TeardownReachesMedia
=============================================================================
