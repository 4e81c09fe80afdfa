--------------------------- MODULE AirPlay_proofs ---------------------------
(***************************************************************************)
(* Proofs about the AirPlay components, each for every value of its        *)
(* constants: any number of connections, logical sessions, slots,          *)
(* descriptors, threads and plays.                                         *)
(***************************************************************************)
EXTENDS LogicalSession, Discovery, AirPlayServer, RemoteVideo, FiniteSetTheorems, TLAPS

-----------------------------------------------------------------------------
(* LogicalSession: the inductive invariant. *)

ConnectionEntry == [used : BOOLEAN, kind : ConnectionKinds,
                    client : ClientIds \cup {"none"}, logical : 0 .. MaxLogicalId]
LogicalEntry == [used : BOOLEAN, id : 0 .. MaxLogicalId,
                 apple : AppleIds \cup {"none"}, client : ClientIds \cup {"none"},
                 connection_count : 0 .. Cardinality(ConnectionIds),
                 media_references : 0 .. MaxReferences, transport_terminated : BOOLEAN]

\* bound_to and find_by_id of any tables.
BoundIn(cs, id) == {c \in ConnectionIds : cs[c].used /\ cs[c].logical = id}
FoundIn(ls, id) == {i \in LogicalSlots : ls[i].used /\ ls[i].id = id}

\* A used entry has an id given out already and an Apple id; a free one is
\* as it was created.
EntriesOK ==
    \A i \in LogicalSlots :
        /\ logicals[i].used => /\ logicals[i].id \in 1 .. next_id - 1
                               /\ logicals[i].apple # "none"
        /\ ~logicals[i].used => logicals[i] = NoLogical

\* A bound connection has a session, and a paired one has made it its own.
BoundOK ==
    \A c \in ConnectionIds :
        /\ ~connections[c].used => connections[c] = UnusedEntry
        /\ connections[c].logical # 0 =>
              \E i \in FoundIn(logicals, connections[c].logical) :
                  connections[c].client \in {"none", logicals[i].client}

\* The reference counts are exact.
CountsOK ==
    \A i \in LogicalSlots : logicals[i].used =>
        /\ logicals[i].connection_count = Cardinality(BoundIn(connections, logicals[i].id))
        /\ logicals[i].connection_count + logicals[i].media_references > 0

DistinctOK ==
    \A i, j \in LogicalSlots : i # j /\ logicals[i].used /\ logicals[j].used =>
        logicals[i].id # logicals[j].id /\ logicals[i].apple # logicals[j].apple

LogicalInv == /\ LogicalTypeOK /\ EntriesOK /\ BoundOK /\ CountsOK /\ DistinctOK
              /\ TeardownReachesMedia

Tables == /\ connections \in [ConnectionIds -> ConnectionEntry]
          /\ logicals \in [LogicalSlots -> LogicalEntry]
          /\ next_id \in 1 .. MaxLogicalId + 1 /\ ordered \subseteq 1 .. MaxLogicalId

LEMMA TablesType == (LogicalTypeOK <=> Tables) /\ (LogicalTypeOK' <=> Tables')
  BY DEF LogicalTypeOK, Tables, ConnectionEntry, LogicalEntry

\* The connections bound to a session are finitely many.
LEMMA BoundFinite ==
    ASSUME NEW id
    PROVE  /\ IsFiniteSet(BoundIn(connections, id)) /\ IsFiniteSet(BoundIn(connections', id))
           /\ Cardinality(BoundIn(connections, id)) \in 0 .. Cardinality(ConnectionIds)
           /\ Cardinality(BoundIn(connections', id)) \in 0 .. Cardinality(ConnectionIds)
  <1>1. ASSUME NEW S \in SUBSET ConnectionIds
        PROVE  IsFiniteSet(S) /\ Cardinality(S) \in 0 .. Cardinality(ConnectionIds)
    <2>1. IsFiniteSet(S) /\ Cardinality(S) <= Cardinality(ConnectionIds)
      BY FS_Subset, LogicalAssumption
    <2>2. Cardinality(S) \in Nat /\ Cardinality(ConnectionIds) \in Nat
      BY <2>1, FS_CardinalityType, LogicalAssumption
    <2> QED
      BY <2>1, <2>2
  <1>2. BoundIn(connections, id) \in SUBSET ConnectionIds /\ BoundIn(connections', id) \in SUBSET ConnectionIds
    BY DEF BoundIn
  <1> QED
    BY <1>1, <1>2

\* A count of none means no connection; an unused one is bound to nothing.
LEMMA NoneBound ==
    ASSUME BoundOK, NEW id \in Nat \ {0}
    PROVE  /\ BoundIn(connections, id) = {c \in ConnectionIds : connections[c].logical = id}
           /\ Cardinality(BoundIn(connections, id)) = 0 => \A c \in ConnectionIds : connections[c].logical # id
  <1>1. BoundIn(connections, id) = {c \in ConnectionIds : connections[c].logical = id}
    BY DEF BoundOK, BoundIn, UnusedEntry
  <1>2. Cardinality(BoundIn(connections, id)) = 0 => BoundIn(connections, id) = {}
    BY BoundFinite, FS_EmptySet
  <1> QED
    BY <1>1, <1>2

LEMMA SlotsNat == LogicalSlots \subseteq Nat
  BY LogicalAssumption DEF LogicalSlots

\* What bounds of a used entry follow from the invariant.
LEMMA UsedEntry ==
    ASSUME LogicalInv, NEW i \in LogicalSlots, logicals[i].used
    PROVE  /\ logicals[i] \in LogicalEntry /\ logicals[i].id \in Nat \ {0} /\ logicals[i].id < next_id
           /\ logicals[i].id \in 1 .. MaxLogicalId /\ next_id \in Nat
           /\ logicals[i].apple # "none"
           /\ logicals[i].connection_count = Cardinality(BoundIn(connections, logicals[i].id))
           /\ logicals[i].connection_count \in Nat /\ logicals[i].media_references \in Nat
           /\ logicals[i].connection_count + logicals[i].media_references > 0
  <1>1. /\ logicals[i] \in LogicalEntry /\ next_id \in 1 .. MaxLogicalId + 1
        /\ MaxLogicalId \in Nat /\ MaxReferences \in Nat
    BY TablesType, LogicalAssumption DEF LogicalInv, Tables
  <1>2. /\ logicals[i].id \in 1 .. next_id - 1 /\ logicals[i].apple # "none"
        /\ logicals[i].connection_count = Cardinality(BoundIn(connections, logicals[i].id))
        /\ logicals[i].connection_count + logicals[i].media_references > 0
    BY DEF LogicalInv, EntriesOK, CountsOK
  <1>3. Cardinality(ConnectionIds) \in Nat
    BY LogicalAssumption, FS_CardinalityType
  <1>4. logicals[i].connection_count \in Nat /\ logicals[i].media_references \in Nat
    BY <1>1, <1>3 DEF LogicalEntry
  <1> QED
    BY <1>1, <1>2, <1>4

LEMMA ClassifyType == ASSUME NEW r PROVE classify(r) \in ConnectionKinds
  BY DEF classify, ConnectionKinds

-----------------------------------------------------------------------------
(* LogicalSession: the steps. *)

LEMMA ObserveStep ==
    ASSUME LogicalInv, NEW c \in ConnectionIds, NEW r \in LogicalRequests, observe(c, r)
    PROVE  LogicalInv'
  <1>0. Tables
    BY TablesType DEF LogicalInv
  <1>1. UNCHANGED <<logicals, next_id, ordered>>
    BY DEF observe
  <1>2. /\ connections' \in [ConnectionIds -> ConnectionEntry]
        /\ \A x \in ConnectionIds \ {c} : connections'[x] = connections[x]
        /\ connections'[c].used /\ connections'[c].logical = connections[c].logical
        /\ connections'[c].client = connections[c].client
    <2>1. PICK kind \in ConnectionKinds :
              connections' = [connections EXCEPT ![c].used = TRUE, ![c].kind = kind]
      <3>1. connections[c].kind \in ConnectionKinds
        BY <1>0 DEF Tables, ConnectionEntry
      <3> QED
        BY <3>1, ClassifyType DEF observe
    <2> QED
      BY <1>0, <2>1 DEF Tables, ConnectionEntry
  <1>3. ASSUME NEW id \in Nat \ {0}
        PROVE  BoundIn(connections', id) = BoundIn(connections, id)
    BY <1>2 DEF LogicalInv, BoundOK, BoundIn, UnusedEntry
  <1>4. LogicalTypeOK'
    BY <1>0, <1>1, <1>2, TablesType DEF Tables
  <1>5. EntriesOK' /\ DistinctOK' /\ TeardownReachesMedia'
    BY <1>1 DEF LogicalInv, EntriesOK, DistinctOK, TeardownReachesMedia
  <1>6. BoundOK'
    BY <1>1, <1>2 DEF LogicalInv, BoundOK, FoundIn
  <1>7. CountsOK'
    BY <1>1, <1>3, UsedEntry DEF CountsOK
  <1> QED
    BY <1>4, <1>5, <1>6, <1>7 DEF LogicalInv

LEMMA BindClientStep ==
    ASSUME LogicalInv, NEW c \in ConnectionIds, NEW client \in ClientIds, bind_client(c, client)
    PROVE  LogicalInv'
  <1>0. Tables
    BY TablesType DEF LogicalInv
  <1>1. UNCHANGED <<next_id, ordered>>
    BY DEF bind_client
  <1>2. /\ connections' \in [ConnectionIds -> ConnectionEntry]
        /\ \A x \in ConnectionIds \ {c} : connections'[x] = connections[x]
        /\ connections'[c].logical = connections[c].logical
        /\ connections'[c].client = client
        /\ connections[c].used /\ connections'[c].used
    <2>1. connections' = [connections EXCEPT ![c].client = client]
      BY DEF bind_client
    <2>2. connections[c].used
      BY DEF LogicalInv, BoundOK, bind_client, UnusedEntry
    <2> QED
      BY <1>0, <2>1, <2>2 DEF Tables, ConnectionEntry
  <1>3. /\ logicals' \in [LogicalSlots -> LogicalEntry]
        /\ \A i \in LogicalSlots :
              /\ logicals'[i].used = logicals[i].used /\ logicals'[i].id = logicals[i].id
              /\ logicals'[i].apple = logicals[i].apple
              /\ logicals'[i].connection_count = logicals[i].connection_count
              /\ logicals'[i].media_references = logicals[i].media_references
              /\ logicals'[i].transport_terminated = logicals[i].transport_terminated
              /\ IF i \in FoundIn(logicals, connections[c].logical)
                 THEN logicals'[i].client = client /\ logicals[i].client \in {"none", client}
                 ELSE logicals'[i] = logicals[i]
    <2>1. \A i \in LogicalSlots : logicals'[i] =
              IF i \in FoundIn(logicals, connections[c].logical)
              THEN [logicals[i] EXCEPT !.client = client] ELSE logicals[i]
      BY DEF bind_client, find_by_id, FoundIn
    <2>2. \A i \in FoundIn(logicals, connections[c].logical) :
              i \in LogicalSlots /\ logicals[i].client \in {"none", client}
      BY DEF bind_client, find_by_id, FoundIn
    <2>3. \A i \in LogicalSlots : [logicals[i] EXCEPT !.client = client] \in LogicalEntry
      BY <1>0 DEF Tables, LogicalEntry
    <2>4. logicals' \in [LogicalSlots -> LogicalEntry]
      <3>1. logicals' = [i \in LogicalSlots |-> logicals'[i]]
        BY DEF bind_client
      <3> QED
        BY <1>0, <2>1, <2>3, <3>1 DEF Tables
    <2> QED
      BY <1>0, <2>1, <2>2, <2>4 DEF Tables, LogicalEntry
  <1>4. ASSUME NEW id
        PROVE  BoundIn(connections', id) = BoundIn(connections, id) /\ FoundIn(logicals', id) = FoundIn(logicals, id)
    BY <1>2, <1>3 DEF BoundIn, FoundIn
  <1>5. LogicalTypeOK'
    BY <1>0, <1>1, <1>2, <1>3, TablesType DEF Tables
  <1>6. EntriesOK' /\ DistinctOK' /\ TeardownReachesMedia'
    BY <1>1, <1>3 DEF LogicalInv, EntriesOK, DistinctOK, TeardownReachesMedia, FoundIn
  <1>7. BoundOK'
    BY <1>2, <1>3, <1>4 DEF LogicalInv, BoundOK, FoundIn
  <1>8. CountsOK'
    BY <1>3, <1>4 DEF LogicalInv, CountsOK
  <1> QED
    BY <1>5, <1>6, <1>7, <1>8 DEF LogicalInv

LEMMA RetainMediaStep ==
    ASSUME LogicalInv, NEW c \in ConnectionIds, retain_media(c)
    PROVE  LogicalInv'
  <1>0. Tables
    BY TablesType DEF LogicalInv
  <1>1. PICK i \in FoundIn(logicals, connections[c].logical) :
            /\ logicals[i].media_references < MaxReferences
            /\ logicals' = [logicals EXCEPT ![i].media_references = @ + 1]
            /\ UNCHANGED <<connections, next_id, ordered>>
    BY DEF retain_media, find_by_id, FoundIn
  <1>2. i \in LogicalSlots /\ logicals[i].used
    BY DEF FoundIn
  <1>3. /\ logicals' \in [LogicalSlots -> LogicalEntry]
        /\ \A j \in LogicalSlots \ {i} : logicals'[j] = logicals[j]
        /\ logicals'[i].used = logicals[i].used /\ logicals'[i].id = logicals[i].id
        /\ logicals'[i].apple = logicals[i].apple /\ logicals'[i].client = logicals[i].client
        /\ logicals'[i].connection_count = logicals[i].connection_count
        /\ logicals'[i].media_references = logicals[i].media_references + 1
        /\ logicals'[i].transport_terminated = logicals[i].transport_terminated
    <2>1. logicals[i].media_references + 1 \in 0 .. MaxReferences
      BY <1>1, <1>2, UsedEntry, LogicalAssumption
    <2> QED
      BY <1>0, <1>1, <1>2, <2>1 DEF Tables, LogicalEntry
  <1>4. ASSUME NEW id
        PROVE  BoundIn(connections', id) = BoundIn(connections, id) /\ FoundIn(logicals', id) = FoundIn(logicals, id)
    BY <1>1, <1>2, <1>3 DEF BoundIn, FoundIn
  <1>5. LogicalTypeOK'
    BY <1>0, <1>1, <1>3, TablesType DEF Tables
  <1>6. EntriesOK' /\ DistinctOK'
    BY <1>1, <1>2, <1>3 DEF LogicalInv, EntriesOK, DistinctOK
  <1>7. BoundOK'
    BY <1>1, <1>2, <1>3, <1>4 DEF LogicalInv, BoundOK, FoundIn
  <1>8. CountsOK'
    BY <1>2, <1>3, <1>4, UsedEntry DEF LogicalInv, CountsOK
  <1>9. TeardownReachesMedia'
    BY <1>1, <1>2, <1>3, UsedEntry DEF LogicalInv, TeardownReachesMedia
  <1> QED
    BY <1>5, <1>6, <1>7, <1>8, <1>9 DEF LogicalInv

LEMMA TeardownStep ==
    ASSUME LogicalInv, NEW c \in ConnectionIds, mark_transport_teardown(c)
    PROVE  LogicalInv'
  <1> DEFINE matching == playing_of(connections[c].client)
  <1>0. Tables
    BY TablesType DEF LogicalInv
  <1>1. /\ UNCHANGED <<connections, next_id>>
        /\ ordered' = ordered \cup
              {logicals[i].id : i \in {j \in matching : logicals[j].connection_count = 0}}
    BY DEF mark_transport_teardown
  <1>2. \A i \in matching : i \in LogicalSlots /\ logicals[i].used
    BY DEF playing_of
  <1>3. /\ logicals' \in [LogicalSlots -> LogicalEntry]
        /\ \A i \in LogicalSlots :
              /\ logicals'[i].used = logicals[i].used /\ logicals'[i].id = logicals[i].id
              /\ logicals'[i].apple = logicals[i].apple /\ logicals'[i].client = logicals[i].client
              /\ logicals'[i].connection_count = logicals[i].connection_count
              /\ logicals'[i].media_references = logicals[i].media_references
              /\ i \notin matching => logicals'[i] = logicals[i]
    BY <1>0 DEF mark_transport_teardown, Tables, LogicalEntry
  <1> HIDE DEF matching
  <1>4. ASSUME NEW id
        PROVE  BoundIn(connections', id) = BoundIn(connections, id) /\ FoundIn(logicals', id) = FoundIn(logicals, id)
    BY <1>1, <1>3 DEF BoundIn, FoundIn
  <1>5. LogicalTypeOK'
    <2>1. ordered' \subseteq 1 .. MaxLogicalId
      BY <1>0, <1>1, <1>2, UsedEntry DEF Tables
    <2> QED
      BY <1>0, <1>1, <1>3, <2>1, TablesType DEF Tables
  <1>6. EntriesOK' /\ DistinctOK'
    BY <1>1, <1>2, <1>3 DEF LogicalInv, EntriesOK, DistinctOK
  <1>7. BoundOK'
    BY <1>1, <1>3, <1>4 DEF LogicalInv, BoundOK, FoundIn
  <1>8. CountsOK'
    BY <1>3, <1>4 DEF LogicalInv, CountsOK
  <1>9. TeardownReachesMedia'
    BY <1>1, <1>3 DEF LogicalInv, TeardownReachesMedia
  <1> QED
    BY <1>5, <1>6, <1>7, <1>8, <1>9 DEF LogicalInv

LEMMA NoLogicalEntry ==
    /\ NoLogical \in LogicalEntry /\ ~NoLogical.used /\ NoLogical.client = "none"
    /\ NoLogical.connection_count = 0 /\ NoLogical.media_references = 0
    /\ NoLogical.transport_terminated = FALSE
  <1>1. 0 \in 0 .. MaxLogicalId /\ 0 \in 0 .. MaxReferences /\ 0 \in 0 .. Cardinality(ConnectionIds)
    BY LogicalAssumption, FS_CardinalityType
  <1> QED
    BY <1>1 DEF NoLogical, LogicalEntry

\* release_logical_if_unreferenced, of an entry one of whose counts fell.
LEMMA Released ==
    ASSUME NEW e \in LogicalEntry, e.used
    PROVE  /\ released(e) \in LogicalEntry
           /\ released(e).used <=> e.connection_count # 0 \/ e.media_references # 0
           /\ released(e).used => released(e) = e
           /\ ~released(e).used => released(e) = NoLogical
  BY NoLogicalEntry DEF released

LEMMA ReleaseMediaStep ==
    ASSUME LogicalInv, NEW i \in LogicalSlots, release_media(i)
    PROVE  LogicalInv'
  <1> DEFINE e == [logicals[i] EXCEPT !.media_references = @ - 1]
  <1>0. Tables
    BY TablesType DEF LogicalInv
  <1>1. /\ logicals[i].used /\ logicals[i].media_references > 0
        /\ UNCHANGED <<connections, next_id, ordered>>
        /\ logicals' = [logicals EXCEPT ![i] = released(e)]
    BY DEF release_media
  <1>2. /\ e \in LogicalEntry /\ e.used /\ e.id = logicals[i].id /\ e.apple = logicals[i].apple
        /\ e.client = logicals[i].client /\ e.connection_count = logicals[i].connection_count
        /\ e.media_references = logicals[i].media_references - 1
        /\ e.transport_terminated = logicals[i].transport_terminated
    <2>1. logicals[i].media_references - 1 \in 0 .. MaxReferences
      BY <1>0, <1>1, LogicalAssumption DEF Tables, LogicalEntry
    <2> QED
      BY <1>0, <1>1, <2>1 DEF Tables, LogicalEntry
  <1> HIDE DEF e
  <1>3. /\ logicals' \in [LogicalSlots -> LogicalEntry] /\ logicals'[i] = released(e)
        /\ \A j \in LogicalSlots \ {i} : logicals'[j] = logicals[j]
    BY <1>0, <1>1, <1>2, Released DEF Tables
  <1>4. ASSUME NEW id
        PROVE  BoundIn(connections', id) = BoundIn(connections, id)
    BY <1>1 DEF BoundIn
  <1>5. /\ e.connection_count \in Nat /\ e.media_references \in Nat /\ e.id \in Nat \ {0}
        /\ e.connection_count = Cardinality(BoundIn(connections, e.id))
    BY <1>1, <1>2, UsedEntry
  <1>6. CASE released(e).used
    <2>1. logicals'[i] = e /\ (e.connection_count # 0 \/ e.media_references # 0)
      BY <1>2, <1>3, <1>6, Released
    <2>2. LogicalTypeOK'
      BY <1>0, <1>1, <1>3, TablesType DEF Tables
    <2>3. EntriesOK' /\ DistinctOK' /\ TeardownReachesMedia'
      BY <1>1, <1>2, <1>3, <2>1 DEF LogicalInv, EntriesOK, DistinctOK, TeardownReachesMedia
    <2>4. BoundOK'
      BY <1>1, <1>2, <1>3, <2>1 DEF LogicalInv, BoundOK, FoundIn
    <2>5. CountsOK'
      <3>1. e.connection_count + e.media_references > 0
        BY <1>5, <2>1
      <3>2. \A j \in LogicalSlots : BoundIn(connections', logicals'[j].id) = BoundIn(connections, logicals'[j].id)
        BY <1>4
      <3> QED
        BY <1>1, <1>3, <1>5, <2>1, <3>1, <3>2 DEF LogicalInv, CountsOK
    <2> QED
      BY <2>2, <2>3, <2>4, <2>5 DEF LogicalInv
  <1>7. CASE ~released(e).used
    <2>1. logicals'[i] = NoLogical /\ e.connection_count = 0 /\ ~logicals'[i].used
      BY <1>2, <1>3, <1>7, Released
    <2>2. \A c \in ConnectionIds : connections[c].logical # logicals[i].id
      BY <1>2, <1>5, <2>1, NoneBound DEF LogicalInv
    <2>3. LogicalTypeOK'
      BY <1>0, <1>1, <1>3, TablesType DEF Tables
    <2>4. EntriesOK' /\ DistinctOK' /\ TeardownReachesMedia'
      BY <1>1, <1>3, <2>1 DEF LogicalInv, EntriesOK, DistinctOK, TeardownReachesMedia
    <2>5. BoundOK'
      BY <1>1, <1>3, <2>1, <2>2 DEF LogicalInv, BoundOK, FoundIn
    <2>6. CountsOK'
      BY <1>1, <1>3, <1>4, <2>1 DEF LogicalInv, CountsOK
    <2> QED
      BY <2>3, <2>4, <2>5, <2>6 DEF LogicalInv
  <1> QED
    BY <1>6, <1>7

LEMMA CloseStep ==
    ASSUME LogicalInv, NEW c \in ConnectionIds, close_connection(c)
    PROVE  LogicalInv'
  <1> DEFINE found == FoundIn(logicals, connections[c].logical)
             e(i) == [logicals[i] EXCEPT !.connection_count = @ - 1]
  <1>0. Tables
    BY TablesType DEF LogicalInv
  <1>1. /\ connections[c].used /\ UNCHANGED next_id
        /\ connections' = [connections EXCEPT ![c] = UnusedEntry]
        /\ \A i \in LogicalSlots \ found : logicals'[i] = logicals[i]
        /\ \A i \in found : logicals'[i] = released(e(i))
        /\ ordered' = ordered \cup
              {logicals[i].id : i \in {j \in {k \in found : logicals[k].connection_count = 1} :
                  logicals[j].transport_terminated /\ logicals[j].media_references > 0}}
        /\ DOMAIN logicals' = LogicalSlots /\ logicals' = [i \in LogicalSlots |-> logicals'[i]]
    BY DEF close_connection, closed_entry, find_by_id, FoundIn
  <1>2. \A i \in found : i \in LogicalSlots /\ logicals[i].used /\ logicals[i].id = connections[c].logical
    BY DEF FoundIn
  <1>3. \A i \in LogicalSlots \ found : logicals[i].used => logicals[i].id # connections[c].logical
    BY DEF FoundIn
  <1> HIDE DEF found
  <1>4. /\ connections' \in [ConnectionIds -> ConnectionEntry] /\ connections'[c] = UnusedEntry
        /\ \A x \in ConnectionIds \ {c} : connections'[x] = connections[x]
    <2>1. UnusedEntry \in ConnectionEntry
      BY LogicalAssumption DEF UnusedEntry, ConnectionEntry, ConnectionKinds
    <2> QED
      BY <1>0, <1>1, <2>1 DEF Tables
  <1>5. ASSUME NEW id \in Nat \ {0}
        PROVE  /\ BoundIn(connections', id) = BoundIn(connections, id) \ {c}
               /\ c \in BoundIn(connections, id) <=> connections[c].logical = id
    BY <1>1, <1>4 DEF BoundIn, UnusedEntry
  <1>6. ASSUME NEW i \in found
        PROVE  /\ e(i) \in LogicalEntry /\ e(i).used /\ e(i).id = logicals[i].id
               /\ e(i).apple = logicals[i].apple /\ e(i).client = logicals[i].client
               /\ e(i).connection_count = logicals[i].connection_count - 1
               /\ e(i).media_references = logicals[i].media_references
               /\ e(i).transport_terminated = logicals[i].transport_terminated
               /\ e(i).connection_count = Cardinality(BoundIn(connections', e(i).id))
               /\ e(i).connection_count \in Nat /\ e(i).media_references \in Nat
    <2>1. /\ logicals[i] \in LogicalEntry /\ logicals[i].id \in Nat \ {0} /\ logicals[i].used
          /\ logicals[i].connection_count = Cardinality(BoundIn(connections, logicals[i].id))
          /\ logicals[i].connection_count \in Nat /\ logicals[i].media_references \in Nat
          /\ i \in LogicalSlots
      BY <1>2, UsedEntry
    <2>2. Cardinality(BoundIn(connections, logicals[i].id) \ {c}) = logicals[i].connection_count - 1
      <3>1. /\ c \in BoundIn(connections, logicals[i].id)
            /\ IsFiniteSet(BoundIn(connections, logicals[i].id))
        BY <1>2, <1>5, <2>1, BoundFinite
      <3> DEFINE S == BoundIn(connections, logicals[i].id)
      <3> HIDE DEF e, S
      <3>2. Cardinality(S \ {c}) = IF c \in S THEN Cardinality(S) - 1 ELSE Cardinality(S)
        BY <3>1, FS_RemoveElement, Zenon DEF S
      <3> QED
        BY <2>1, <3>1, <3>2 DEF S
    <2>3. BoundIn(connections', logicals[i].id) = BoundIn(connections, logicals[i].id) \ {c}
      BY <1>5, <2>1
    <2>4. /\ logicals[i].connection_count - 1 \in 0 .. Cardinality(ConnectionIds)
          /\ Cardinality(ConnectionIds) \in Nat
      BY <2>2, <2>3, <2>1, BoundFinite, FS_CardinalityType, LogicalAssumption
    <2>5. /\ e(i) \in LogicalEntry /\ e(i).used /\ e(i).id = logicals[i].id
          /\ e(i).apple = logicals[i].apple /\ e(i).client = logicals[i].client
          /\ e(i).connection_count = logicals[i].connection_count - 1
          /\ e(i).media_references = logicals[i].media_references
          /\ e(i).transport_terminated = logicals[i].transport_terminated
      BY <2>1, <2>4 DEF LogicalEntry
    <2> HIDE DEF e
    <2>6. logicals[i].connection_count - 1 \in Nat
      BY <2>4
    <2>7. Cardinality(BoundIn(connections', logicals[i].id)) = logicals[i].connection_count - 1
      BY <2>2, <2>3
    <2> QED
      BY <2>1, <2>5, <2>6, <2>7
  <1> HIDE DEF e
  <1>7. \A i \in found : /\ logicals'[i] \in LogicalEntry
                         /\ logicals'[i].used <=> e(i).connection_count # 0 \/ e(i).media_references # 0
                         /\ logicals'[i].used => logicals'[i] = e(i)
                         /\ ~logicals'[i].used => logicals'[i] = NoLogical
    BY <1>1, <1>6, Released
  <1>8. LogicalTypeOK'
    <2>1. logicals' \in [LogicalSlots -> LogicalEntry]
      BY <1>0, <1>1, <1>7 DEF Tables
    <2>2. ordered' \subseteq 1 .. MaxLogicalId
      BY <1>0, <1>1, <1>2, UsedEntry DEF Tables
    <2> QED
      BY <1>0, <1>1, <1>4, <2>1, <2>2, TablesType DEF Tables
  <1>9. EntriesOK' /\ DistinctOK'
    BY <1>1, <1>2, <1>6, <1>7 DEF LogicalInv, EntriesOK, DistinctOK
  <1>10. CountsOK'
    <2> SUFFICES ASSUME NEW i \in LogicalSlots, logicals'[i].used
                 PROVE  /\ logicals'[i].connection_count = Cardinality(BoundIn(connections', logicals'[i].id))
                        /\ logicals'[i].connection_count + logicals'[i].media_references > 0
      BY DEF CountsOK
    <2>1. CASE i \in found
      BY <1>6, <1>7, <2>1
    <2>2. CASE i \notin found
      <3>1. logicals'[i] = logicals[i] /\ logicals[i].id # connections[c].logical
        BY <1>1, <1>3, <2>2
      <3>2. BoundIn(connections', logicals[i].id) = BoundIn(connections, logicals[i].id)
        <4>1. logicals[i].id \in Nat \ {0}
          BY <3>1, UsedEntry
        <4> QED
          BY <1>5, <3>1, <4>1
      <3> QED
        BY <3>1, <3>2 DEF LogicalInv, CountsOK
    <2> QED
      BY <2>1, <2>2
  <1>11. TeardownReachesMedia'
    <2> SUFFICES ASSUME NEW i \in LogicalSlots, logicals'[i].used, logicals'[i].transport_terminated,
                        logicals'[i].connection_count = 0, logicals'[i].media_references > 0
                 PROVE  logicals'[i].id \in ordered'
      BY DEF TeardownReachesMedia
    <2>1. CASE i \in found
      <3>1. /\ logicals'[i].id = logicals[i].id /\ logicals[i].connection_count = 1
            /\ logicals[i].transport_terminated /\ logicals[i].media_references > 0
        BY <1>2, <1>6, <1>7, <2>1, UsedEntry
      <3> QED
        BY <1>1, <2>1, <3>1
    <2>2. CASE i \notin found
      BY <1>1, <2>2 DEF LogicalInv, TeardownReachesMedia
    <2> QED
      BY <2>1, <2>2
  <1>12. BoundOK'
    <2> SUFFICES ASSUME NEW x \in ConnectionIds
                 PROVE  /\ ~connections'[x].used => connections'[x] = UnusedEntry
                        /\ connections'[x].logical # 0 =>
                              \E i \in FoundIn(logicals', connections'[x].logical) :
                                  connections'[x].client \in {"none", logicals'[i].client}
      BY DEF BoundOK
    <2>1. CASE x = c
      BY <1>4, <2>1 DEF UnusedEntry
    <2>2. CASE x # c /\ connections[x].logical = 0
      BY <1>4, <2>2 DEF LogicalInv, BoundOK
    <2>3. CASE x # c /\ connections[x].logical # 0
      <3>1. connections'[x] = connections[x] /\ connections[x].used
        BY <1>4, <2>3 DEF LogicalInv, BoundOK, UnusedEntry
      <3>2. PICK i \in FoundIn(logicals, connections[x].logical) :
                connections[x].client \in {"none", logicals[i].client}
        BY <2>3 DEF LogicalInv, BoundOK
      <3>3. i \in LogicalSlots /\ logicals[i].used /\ logicals[i].id = connections[x].logical
        BY <3>2 DEF FoundIn
      <3>4. CASE i \notin found
        BY <1>1, <3>1, <3>2, <3>3, <3>4 DEF FoundIn
      <3>5. CASE i \in found
        <4>1. x \in BoundIn(connections', logicals[i].id)
          BY <3>1, <3>3 DEF BoundIn
        <4>2. e(i).connection_count # 0
          <5>1. BoundIn(connections', e(i).id) # {} /\ e(i).connection_count = Cardinality(BoundIn(connections', e(i).id))
            BY <1>6, <3>5, <4>1
          <5> QED
            BY <5>1, BoundFinite, FS_EmptySet
        <4>3. logicals'[i] = e(i) /\ e(i).used /\ e(i).id = logicals[i].id
              /\ e(i).client = logicals[i].client
          BY <1>6, <1>7, <3>5, <4>2
        <4> QED
          BY <3>1, <3>2, <3>3, <4>3 DEF FoundIn
      <3> QED
        BY <3>4, <3>5
    <2> QED
      BY <2>1, <2>2, <2>3
  <1> QED
    BY <1>8, <1>9, <1>10, <1>11, <1>12 DEF LogicalInv

\* The entry a connection is bound to: its sender's, or a free one when no
\* entry has the Apple id yet.
LEMMA EntryFor ==
    ASSUME LogicalInv, NEW c \in ConnectionIds, NEW r \in LogicalRequests,
           connections[c].logical = 0, r.apple # "none", NEW i \in entry_for(c, r)
    PROVE  /\ i \in LogicalSlots
           /\ \/ logicals[i].used /\ logicals[i].apple = r.apple
              \/ /\ ~logicals[i].used
                 /\ \A j \in LogicalSlots : logicals[j].used => logicals[j].apple # r.apple
  BY DEF entry_for, find_by_apple, find_free

LEMMA BindsStep ==
    ASSUME LogicalInv, NEW c \in ConnectionIds, NEW r \in LogicalRequests, observe_binds(c, r)
    PROVE  LogicalInv'
  <1>0. Tables /\ MaxLogicalId \in Nat
    BY TablesType, LogicalAssumption DEF LogicalInv
  <1>1. r.apple # "none" /\ connections[c].logical = 0 /\ UNCHANGED ordered /\ r.apple \in AppleIds
    <2>1. r.apple \in AppleIds \cup {"none"}
      BY DEF LogicalRequests
    <2> QED
      BY <2>1 DEF observe_binds
  <1>2. PICK i \in entry_for(c, r) :
          /\ clients_agree(c, i)
          /\ logicals[i].used \/ next_id <= MaxLogicalId
          /\ logicals' = [logicals EXCEPT ![i] = bound_entry(i, c, r)]
          /\ connections' = [connections EXCEPT ![c].used = TRUE,
                ![c].kind = IF @ = "UNKNOWN" THEN classify(r) ELSE @,
                ![c].logical = logicals'[i].id]
          /\ next_id' = IF logicals[i].used THEN next_id ELSE next_id + 1
    BY DEF observe_binds
  <1>3. /\ i \in LogicalSlots
        /\ \/ logicals[i].used /\ logicals[i].apple = r.apple
           \/ /\ ~logicals[i].used
              /\ \A j \in LogicalSlots : logicals[j].used => logicals[j].apple # r.apple
    BY <1>1, EntryFor
  <1> DEFINE id == IF logicals[i].used THEN logicals[i].id ELSE next_id
             n == IF logicals[i].used THEN logicals[i].connection_count ELSE 0
             e == bound_entry(i, c, r)
  <1>4. id \in 1 .. MaxLogicalId /\ next_id' \in 1 .. MaxLogicalId + 1 /\ id < next_id'
        /\ next_id <= next_id' /\ next_id \in Nat /\ next_id' \in Nat
    <2>1. CASE logicals[i].used
      BY <1>0, <1>2, <1>3, <2>1, UsedEntry DEF Tables
    <2>2. CASE ~logicals[i].used
      BY <1>0, <1>2, <2>2 DEF Tables
    <2> QED
      BY <2>1, <2>2
  \* No connection is bound to a new id.
  <1>5. /\ n = Cardinality(BoundIn(connections, id)) /\ n \in Nat /\ c \notin BoundIn(connections, id)
        /\ \A j \in LogicalSlots \ {i} : logicals[j].used =>
              logicals[j].id # id /\ logicals[j].apple # r.apple
    <2>1. c \notin BoundIn(connections, id)
      BY <1>1, <1>4 DEF BoundIn
    <2>2. CASE logicals[i].used
      BY <1>3, <2>1, <2>2, UsedEntry DEF LogicalInv, DistinctOK
    <2>3. CASE ~logicals[i].used
      <3>1. \A j \in LogicalSlots : logicals[j].used => logicals[j].id < next_id
                                                        /\ logicals[j].id \in Nat
        BY UsedEntry
      <3>2. BoundIn(connections, next_id) = {}
        <4>1. \A x \in ConnectionIds : connections[x].logical # 0 =>
                  \E j \in LogicalSlots : logicals[j].used /\ logicals[j].id = connections[x].logical
          BY DEF LogicalInv, BoundOK, FoundIn
        <4> QED
          BY <1>4, <2>3, <3>1, <4>1 DEF BoundIn
      <3>3. \A j \in LogicalSlots : logicals[j].used => logicals[j].id # next_id
        BY <1>4, <3>1
      <3> QED
        BY <1>3, <2>1, <2>3, <3>2, <3>3, FS_EmptySet
    <2> QED
      BY <2>2, <2>3
  <1>6. /\ BoundIn(connections, id) \cup {c} \in SUBSET ConnectionIds
        /\ Cardinality(BoundIn(connections, id) \cup {c}) = n + 1
        /\ n + 1 \in 0 .. Cardinality(ConnectionIds)
    <2>1. BoundIn(connections, id) \cup {c} \in SUBSET ConnectionIds
      BY DEF BoundIn
    <2>2. Cardinality(BoundIn(connections, id) \cup {c}) = n + 1
      <3>1. IsFiniteSet(BoundIn(connections, id)) /\ c \notin BoundIn(connections, id)
        BY <1>5, BoundFinite
      <3> DEFINE S == BoundIn(connections, id)
      <3> HIDE DEF S, n, e
      <3>2. Cardinality(S \cup {c}) = IF c \in S THEN Cardinality(S) ELSE Cardinality(S) + 1
        BY <3>1, FS_AddElement, Zenon DEF S
      <3> QED
        BY <1>5, <3>1, <3>2 DEF S
    <2>3. Cardinality(BoundIn(connections, id) \cup {c}) <= Cardinality(ConnectionIds)
      BY <2>1, FS_Subset, LogicalAssumption
    <2>4. Cardinality(ConnectionIds) \in Nat
      BY FS_CardinalityType, LogicalAssumption
    <2> QED
      BY <1>5, <2>1, <2>2, <2>3, <2>4
  <1>7. /\ e \in LogicalEntry /\ e.used /\ e.id = id /\ e.apple = r.apple
        /\ e.connection_count = n + 1
        /\ e.media_references = (IF logicals[i].used THEN logicals[i].media_references ELSE 0)
        /\ e.media_references \in Nat
        /\ connections[c].client \in {"none", e.client}
        /\ logicals[i].used /\ logicals[i].client # "none" => e.client = logicals[i].client
    <2>1. connections[c].client \in ClientIds \cup {"none"}
      BY <1>0 DEF Tables, ConnectionEntry
    <2>2. CASE logicals[i].used
      <3>1. /\ logicals[i] \in LogicalEntry /\ logicals[i].media_references \in Nat
            /\ e = [logicals[i] EXCEPT !.connection_count = @ + 1,
                        !.client = IF @ = "none" THEN connections[c].client ELSE @]
        BY <1>3, <2>2, UsedEntry DEF bound_entry
      <3> QED
        BY <1>2, <1>3, <1>6, <2>1, <2>2, <3>1 DEF LogicalEntry, clients_agree
    <2>3. CASE ~logicals[i].used
      <3> DEFINE new == [NoLogical EXCEPT !.used = TRUE, !.id = next_id, !.apple = r.apple]
      <3>1. /\ NoLogical \in LogicalEntry /\ NoLogical.client = "none"
            /\ NoLogical.connection_count = 0 /\ NoLogical.media_references = 0
            /\ NoLogical.transport_terminated = FALSE
        BY NoLogicalEntry
      <3>2. /\ new \in LogicalEntry /\ new.used /\ new.id = next_id /\ new.apple = r.apple
            /\ new.client = "none" /\ new.connection_count = 0 /\ new.media_references = 0
            /\ new.transport_terminated = FALSE
        <4>1. next_id \in 0 .. MaxLogicalId
          BY <1>4, <2>3
        <4> HIDE DEF e, n, id
        <4> QED
          BY <1>1, <3>1, <4>1 DEF LogicalEntry
      <3> HIDE DEF new
      <3>3. e = [new EXCEPT !.connection_count = @ + 1,
                            !.client = IF @ = "none" THEN connections[c].client ELSE @]
        BY <2>3 DEF bound_entry, new
      <3>4. n = 0 /\ id = next_id
        BY <2>3
      <3>5. n + 1 \in 0 .. Cardinality(ConnectionIds)
        BY <1>6
      <3> HIDE DEF e, n, id
      <3>6. /\ e \in LogicalEntry /\ e.used /\ e.id = id /\ e.apple = r.apple
            /\ e.connection_count = n + 1 /\ e.media_references = 0
            /\ e.transport_terminated = FALSE /\ e.client = connections[c].client
        BY <2>1, <3>2, <3>3, <3>4, <3>5 DEF LogicalEntry
      <3> QED
        BY <2>3, <3>6
    <2> QED
      BY <2>2, <2>3
  <1> HIDE DEF e, id, n
  <1>8. /\ logicals' \in [LogicalSlots -> LogicalEntry] /\ logicals'[i] = e
        /\ \A j \in LogicalSlots \ {i} : logicals'[j] = logicals[j]
    BY <1>0, <1>2, <1>3, <1>7 DEF Tables, e
  <1>9. /\ connections' \in [ConnectionIds -> ConnectionEntry]
        /\ \A x \in ConnectionIds \ {c} : connections'[x] = connections[x]
        /\ connections'[c].used /\ connections'[c].logical = id
        /\ connections'[c].client = connections[c].client
    <2>1. connections[c].kind \in ConnectionKinds /\ id \in 0 .. MaxLogicalId
      BY <1>0, <1>4 DEF Tables, ConnectionEntry
    <2>2. PICK kind \in ConnectionKinds :
              connections' = [connections EXCEPT ![c].used = TRUE, ![c].kind = kind, ![c].logical = id]
      BY <1>2, <1>7, <1>8, <2>1, ClassifyType
    <2> QED
      BY <1>0, <2>1, <2>2 DEF Tables, ConnectionEntry
  <1>10. ASSUME NEW k \in Nat \ {0}
         PROVE  BoundIn(connections', k) = IF k = id THEN BoundIn(connections, k) \cup {c} ELSE BoundIn(connections, k)
    BY <1>1, <1>9 DEF BoundIn, LogicalInv, BoundOK, UnusedEntry
  <1>11. LogicalTypeOK'
    BY <1>0, <1>1, <1>4, <1>8, <1>9, TablesType DEF Tables
  <1>12. EntriesOK'
    <2> SUFFICES ASSUME NEW j \in LogicalSlots
                 PROVE  /\ logicals'[j].used => /\ logicals'[j].id \in 1 .. next_id' - 1
                                                /\ logicals'[j].apple # "none"
                        /\ ~logicals'[j].used => logicals'[j] = NoLogical
      BY DEF EntriesOK
    <2>1. CASE j = i
      BY <1>1, <1>4, <1>7, <1>8, <2>1
    <2>2. CASE j # i
      BY <1>4, <1>8, <2>2, UsedEntry DEF LogicalInv, EntriesOK
    <2> QED
      BY <2>1, <2>2
  <1>13. DistinctOK'
    BY <1>3, <1>5, <1>7, <1>8 DEF LogicalInv, DistinctOK
  <1>14. CountsOK'
    <2> SUFFICES ASSUME NEW j \in LogicalSlots, logicals'[j].used
                 PROVE  /\ logicals'[j].connection_count = Cardinality(BoundIn(connections', logicals'[j].id))
                        /\ logicals'[j].connection_count + logicals'[j].media_references > 0
      BY DEF CountsOK
    <2>1. CASE j = i
      <3>1. BoundIn(connections', id) = BoundIn(connections, id) \cup {c}
        BY <1>4, <1>10
      <3> QED
        BY <1>5, <1>6, <1>7, <1>8, <2>1, <3>1, n + 1 + e.media_references > 0
    <2>2. CASE j # i
      <3>1. logicals'[j] = logicals[j] /\ logicals[j].id # id
        BY <1>5, <1>8, <2>2
      <3>2. BoundIn(connections', logicals[j].id) = BoundIn(connections, logicals[j].id)
        BY <1>10, <3>1, UsedEntry
      <3> QED
        BY <3>1, <3>2 DEF LogicalInv, CountsOK
    <2> QED
      BY <2>1, <2>2
  <1>15. TeardownReachesMedia'
    <2> SUFFICES ASSUME NEW j \in LogicalSlots, logicals'[j].used, logicals'[j].transport_terminated,
                        logicals'[j].connection_count = 0, logicals'[j].media_references > 0
                 PROVE  logicals'[j].id \in ordered'
      BY DEF TeardownReachesMedia
    <2>1. j # i
      BY <1>5, <1>7, <1>8
    <2> QED
      BY <1>1, <1>8, <2>1 DEF LogicalInv, TeardownReachesMedia
  <1>16. BoundOK'
    <2> SUFFICES ASSUME NEW x \in ConnectionIds
                 PROVE  /\ ~connections'[x].used => connections'[x] = UnusedEntry
                        /\ connections'[x].logical # 0 =>
                              \E j \in FoundIn(logicals', connections'[x].logical) :
                                  connections'[x].client \in {"none", logicals'[j].client}
      BY DEF BoundOK
    <2>1. CASE x = c
      BY <1>3, <1>7, <1>8, <1>9, <2>1 DEF FoundIn
    <2>2. CASE x # c
      <3>1. connections'[x] = connections[x]
        BY <1>9, <2>2
      <3>2. ASSUME connections[x].logical # 0
            PROVE  \E j \in FoundIn(logicals', connections'[x].logical) :
                       connections'[x].client \in {"none", logicals'[j].client}
        <4>1. PICK j \in FoundIn(logicals, connections[x].logical) :
                  connections[x].client \in {"none", logicals[j].client}
          BY <3>2 DEF LogicalInv, BoundOK
        <4>2. j \in LogicalSlots /\ logicals[j].used /\ logicals[j].id = connections[x].logical
          BY <4>1 DEF FoundIn
        <4>3. /\ logicals'[j].used /\ logicals'[j].id = logicals[j].id
              /\ logicals[j].client # "none" => logicals'[j].client = logicals[j].client
          BY <1>7, <1>8, <4>2 DEF id
        <4> QED
          BY <3>1, <4>1, <4>2, <4>3 DEF FoundIn
      <3> QED
        BY <3>1, <3>2 DEF LogicalInv, BoundOK
    <2> QED
      BY <2>1, <2>2
  <1> QED
    BY <1>11, <1>12, <1>13, <1>14, <1>15, <1>16 DEF LogicalInv

LEMMA LogicalInitInv == LogicalInit => LogicalInv
  <1> SUFFICES ASSUME LogicalInit PROVE LogicalInv
    OBVIOUS
  <1>1. \A i \in LogicalSlots : logicals[i] = NoLogical /\ ~logicals[i].used
    BY DEF LogicalInit, NoLogical
  <1>2. \A c \in ConnectionIds : connections[c] = UnusedEntry /\ connections[c].logical = 0
    BY DEF LogicalInit, UnusedEntry
  <1>3. Tables
    <2>1. 0 \in 0 .. MaxLogicalId /\ 1 \in 1 .. MaxLogicalId + 1
      BY LogicalAssumption
    <2>2. UnusedEntry \in ConnectionEntry
      BY <2>1 DEF UnusedEntry, ConnectionEntry, ConnectionKinds
    <2> QED
      BY <2>1, <2>2, NoLogicalEntry DEF LogicalInit, Tables
  <1>4. EntriesOK /\ BoundOK /\ CountsOK /\ DistinctOK /\ TeardownReachesMedia
    BY <1>1, <1>2 DEF EntriesOK, BoundOK, CountsOK, DistinctOK, TeardownReachesMedia
  <1> QED
    BY <1>3, <1>4, TablesType DEF LogicalInv

LEMMA LogicalNextInv == LogicalInv /\ [LogicalNext]_LogicalVars => LogicalInv'
  <1> SUFFICES ASSUME LogicalInv, [LogicalNext]_LogicalVars PROVE LogicalInv'
    OBVIOUS
  <1>1. CASE LogicalNext
    BY <1>1, ObserveStep, BindsStep, BindClientStep, RetainMediaStep, TeardownStep, CloseStep,
       ReleaseMediaStep DEF LogicalNext
  <1>2. CASE UNCHANGED LogicalVars
    <2> USE <1>2 DEF LogicalVars
    <2>1. LogicalTypeOK' /\ EntriesOK' /\ DistinctOK' /\ TeardownReachesMedia'
      BY DEF LogicalInv, LogicalTypeOK, EntriesOK, DistinctOK, TeardownReachesMedia
    <2>2. BoundOK' /\ CountsOK'
      BY DEF LogicalInv, BoundOK, FoundIn, CountsOK, BoundIn
    <2> QED
      BY <2>1, <2>2 DEF LogicalInv
  <1> QED
    BY <1>1, <1>2

LEMMA LogicalInvariant == LogicalSpec => []LogicalInv
  BY LogicalInitInv, LogicalNextInv, PTL DEF LogicalSpec

\* The counts of the table stay within their fields, for any number of
\* connections.
THEOREM LogicalTypeCorrect == LogicalSpec => []LogicalTypeOK
  <1>1. LogicalInv => LogicalTypeOK
    BY DEF LogicalInv
  <1> QED
    BY <1>1, LogicalInvariant, PTL

\* An entry of the table is used exactly while a connection or media refers
\* to it, no connection is bound to another device's session, and a transport
\* torn down takes the playback of its device with it, in whatever order
\* requests, pairings, closes and media claims arrive.
THEOREM SessionsCorrect == LogicalSpec => []SessionsSettle
  <1>1. LogicalInv => SessionsSettle
    <2> SUFFICES ASSUME LogicalInv PROVE SessionsReferenced
      BY DEF LogicalInv, SessionsSettle
    <2>1. \A i \in LogicalSlots : logicals[i].used =>
            /\ logicals[i].connection_count = Cardinality(BoundIn(connections, logicals[i].id))
            /\ logicals[i].connection_count + logicals[i].media_references > 0
            /\ \A j \in LogicalSlots \ {i} : logicals[j].used =>
                  logicals[i].id # logicals[j].id /\ logicals[i].apple # logicals[j].apple
      BY DEF LogicalInv, CountsOK, DistinctOK
    <2>2. \A c \in ConnectionIds : connections[c].logical # 0 =>
            \E i \in FoundIn(logicals, connections[c].logical) : clients_agree(c, i)
      BY DEF LogicalInv, BoundOK, clients_agree
    <2> QED
      BY <2>1, <2>2 DEF SessionsReferenced, find_by_id, bound_to, FoundIn, BoundIn
  <1> QED
    BY <1>1, LogicalInvariant, PTL

-----------------------------------------------------------------------------
(* Discovery: the inductive invariant. *)

StepNumbers == 1 .. Len(Stages) + 1
StartNumbers == 0 .. MaxReceiverStarts
OpenNumbers == 1 .. MaxReceiverStarts
Suffixes == 0 .. MaxSuffix
ReceiverState == [at : {"idle", "start", "mdns", "running", "stop", "flags", "join"},
                  step : StepNumbers, parts : SUBSET Parts,
                  discovery_started : BOOLEAN, starts : StartNumbers]
MdnsState == [started : BOOLEAN, running : BOOLEAN, suspended : BOOLEAN,
              socket_fd : StartNumbers, suffix : Suffixes]
ResponderState == [at : {"none", "enter", "loop", "select", "done"},
                   fd : StartNumbers, was_suspended : BOOLEAN]
AirState == [known : Suffixes, lost : BOOLEAN, open : SUBSET OpenNumbers]

\* What a start has built before each stage, and what the server needs.
BuiltOK ==
    /\ composed.at = "idle" => composed.parts = {}
    /\ composed.at # "idle" => composed.starts # 0
    /\ composed.at = "start" =>
          /\ composed.step = 1 => composed.parts = {}
          /\ composed.step > 1 => "pairing" \in composed.parts
          /\ composed.step > 3 => "handlers" \in composed.parts
          /\ composed.step > 4 => "sessions" \in composed.parts
          /\ composed.step > 5 <=> "server" \in composed.parts
    /\ "server" \in composed.parts => {"pairing", "handlers", "sessions"} \subseteq composed.parts

\* The responder, its thread and its descriptor exist together.
ResponderOK ==
    /\ composed.at \in {"idle", "start", "mdns"} => ~composed.discovery_started
    /\ composed.at \in {"flags", "join"} => composed.discovery_started
    /\ composed.at = "mdns" => /\ "server" \in composed.parts /\ responder.at = "none"
                               /\ mdns.socket_fd # 0 /\ air.open = {mdns.socket_fd}
    /\ composed.discovery_started => "server" \in composed.parts /\ responder.at # "none"
    /\ ~composed.discovery_started /\ composed.at # "mdns" =>
          responder.at = "none" /\ ~mdns.started /\ mdns.socket_fd = 0 /\ air.open = {}
    /\ mdns.socket_fd # 0 => mdns.socket_fd \in air.open
    /\ responder.at = "select" => responder.fd \in air.open /\ ~responder.was_suspended
    /\ responder.at = "enter" => ~responder.was_suspended

\* The network has the current name, unless a send failed or it expired while
\* the responder slept.
KnownOK ==
    composed.at = "running" /\ responder.at \in {"loop", "select"} /\ ~responder.was_suspended =>
        air.known = mdns.suffix \/ air.lost

DiscoveryInv == DiscoveryTypeOK /\ BuiltOK /\ ResponderOK /\ KnownOK

DiscoveryTypes == /\ composed \in ReceiverState /\ mdns \in MdnsState
                  /\ responder \in ResponderState /\ air \in AirState

LEMMA DiscoveryTypesOK == (DiscoveryTypeOK <=> DiscoveryTypes) /\ (DiscoveryTypeOK' <=> DiscoveryTypes')
  BY DEF DiscoveryTypeOK, DiscoveryTypes, ReceiverState, MdnsState, ResponderState, AirState,
     StepNumbers, StartNumbers, OpenNumbers, Suffixes

LEMMA StageFacts ==
    /\ Len(Stages) = 6
    /\ Stages[1] = "pairing" /\ Stages[2] = "txt" /\ Stages[3] = "handlers"
    /\ Stages[4] = "sessions" /\ Stages[5] = "server" /\ Stages[6] = "lifecycle"
    /\ DOMAIN StopOrder = 1 .. 5
    /\ StopOrder[1] = "server" /\ StopOrder[2] = "sessions" /\ StopOrder[3] = "lifecycle"
    /\ StopOrder[4] = "handlers" /\ StopOrder[5] = "pairing"
    /\ Parts = {"server", "sessions", "lifecycle", "handlers", "pairing"}
  <1>1. /\ DOMAIN StopOrder = 1 .. 5
        /\ StopOrder[1] = "server" /\ StopOrder[2] = "sessions" /\ StopOrder[3] = "lifecycle"
        /\ StopOrder[4] = "handlers" /\ StopOrder[5] = "pairing"
    BY DEF StopOrder
  <1>2. Parts = {"server", "sessions", "lifecycle", "handlers", "pairing"}
    BY <1>1 DEF Parts
  <1> QED
    BY <1>1, <1>2 DEF Stages

-----------------------------------------------------------------------------
(* Discovery: the steps. *)

\* airplay_receiver_stop takes the server down before anything it uses.
LEMMA ServerStopsFirst ==
    ASSUME DiscoveryInv, receiver_stop_part
    PROVE  \E part \in composed.parts :
              /\ composed' = [composed EXCEPT !.parts = @ \ {part}]
              /\ "server" \in composed.parts => part = "server"
  <1> DEFINE Is(i) == /\ StopOrder[i] \in composed.parts
                      /\ \A j \in 1 .. i - 1 : StopOrder[j] \notin composed.parts
             first == CHOOSE i \in DOMAIN StopOrder : Is(i)
  <1>1. composed.parts # {} /\ composed.parts \subseteq Parts
    BY DiscoveryTypesOK DEF DiscoveryInv, DiscoveryTypes, ReceiverState, receiver_stop_part
  <1>2. \E i \in DOMAIN StopOrder : Is(i)
    <2>1. CASE "server" \in composed.parts
      <3>1. Is(1) /\ 1 \in DOMAIN StopOrder
        BY <2>1, StageFacts
      <3> QED
        BY <3>1
    <2>2. CASE "server" \notin composed.parts /\ "sessions" \in composed.parts
      <3>1. Is(2) /\ 2 \in DOMAIN StopOrder
        BY <2>2, StageFacts
      <3> QED
        BY <3>1
    <2>3. CASE /\ "server" \notin composed.parts /\ "sessions" \notin composed.parts
               /\ "lifecycle" \in composed.parts
      <3>1. Is(3) /\ 3 \in DOMAIN StopOrder
        BY <2>3, StageFacts
      <3> QED
        BY <3>1
    <2>4. CASE /\ "server" \notin composed.parts /\ "sessions" \notin composed.parts
               /\ "lifecycle" \notin composed.parts /\ "handlers" \in composed.parts
      <3>1. Is(4) /\ 4 \in DOMAIN StopOrder
        BY <2>4, StageFacts
      <3> QED
        BY <3>1
    <2>5. CASE /\ "server" \notin composed.parts /\ "sessions" \notin composed.parts
               /\ "lifecycle" \notin composed.parts /\ "handlers" \notin composed.parts
      <3>1. Is(5) /\ 5 \in DOMAIN StopOrder
        BY <1>1, <2>5, StageFacts
      <3> QED
        BY <3>1
    <2> QED
      BY <2>1, <2>2, <2>3, <2>4, <2>5
  <1>3. first \in DOMAIN StopOrder /\ Is(first)
    <2> HIDE DEF Is
    <2> QED
      BY <1>2
  <1>4. composed' = [composed EXCEPT !.parts = @ \ {StopOrder[first]}]
    BY DEF receiver_stop_part
  <1> HIDE DEF first
  <1>5. "server" \in composed.parts => StopOrder[first] = "server"
    <2> SUFFICES ASSUME "server" \in composed.parts PROVE first = 1
      BY StageFacts
    <2>1. first \in 1 .. 5
      BY <1>3, StageFacts
    <2>2. first > 1 => 1 \in 1 .. first - 1
      BY <2>1
    <2> QED
      BY <1>3, <2>1, <2>2, StageFacts
  <1> QED
    BY <1>3, <1>4, <1>5

\* An announcement leaves the current name with the network, or is lost.
LEMMA Announces ==
    ASSUME air \in AirState, NEW name \in Suffixes, announces(name)
    PROVE  air' \in AirState /\ air'.open = air.open /\ (air'.known = name \/ air'.lost)
  <1>1. PICK sent \in {TRUE, FALSE} :
            air' = [air EXCEPT !.known = IF sent THEN name ELSE @, !.lost = ~sent]
    BY DEF announces
  <1>2. CASE sent = TRUE
    BY <1>1, <1>2 DEF AirState
  <1>3. CASE sent = FALSE
    BY <1>1, <1>3 DEF AirState
  <1> QED
    BY <1>1, <1>2, <1>3

LEMMA DiscoveryStep ==
    ASSUME DiscoveryInv, [DiscoveryNext]_DiscoveryVars
    PROVE  DiscoveryInv'
  <1>0. /\ DiscoveryTypes /\ BuiltOK /\ ResponderOK /\ KnownOK
        /\ MaxSuffix \in Nat \ {0} /\ MaxReceiverStarts \in Nat \ {0}
    BY DiscoveryTypesOK, DiscoveryAssumption DEF DiscoveryInv
  <1>98. /\ 0 \in StartNumbers /\ 0 \in Suffixes /\ 1 \in Suffixes /\ 1 \in StepNumbers
         /\ composed.step \in 1 .. 7 /\ (composed.step < 7 => composed.step + 1 \in StepNumbers)
         /\ composed.starts < MaxReceiverStarts =>
               composed.starts + 1 \in StartNumbers /\ composed.starts + 1 # 0
         /\ mdns.suffix < MaxSuffix => mdns.suffix + 1 \in Suffixes
         /\ composed.at # "idle" => composed.starts \in OpenNumbers /\ composed.starts # 0
    BY <1>0, StageFacts DEF DiscoveryTypes, ReceiverState, MdnsState, BuiltOK, StepNumbers,
       StartNumbers, OpenNumbers, Suffixes
  <1>99. /\ Stopped \in MdnsState /\ ~Stopped.started /\ Stopped.socket_fd = 0
        /\ [Stopped EXCEPT !.suffix = 1] \in MdnsState
        /\ ~[Stopped EXCEPT !.suffix = 1].started /\ [Stopped EXCEPT !.suffix = 1].socket_fd = 0
    <2>1. Stopped \in MdnsState /\ ~Stopped.started /\ Stopped.socket_fd = 0
      BY <1>98 DEF Stopped, MdnsState
    <2> QED
      BY <1>98, <2>1 DEF MdnsState
  <1>1. CASE receiver_start
    <2>1. DiscoveryTypes'
      <3>1. composed' \in ReceiverState
        BY <1>0, <1>1, <1>98, <1>99, StageFacts DEF receiver_start, DiscoveryTypes, ReceiverState, BuiltOK
      <3>2. mdns' \in MdnsState
        BY <1>0, <1>1, <1>98, <1>99 DEF receiver_start, DiscoveryTypes, ReceiverState, MdnsState, BuiltOK
      <3>3. responder' \in ResponderState
        BY <1>0, <1>1, <1>98, <1>99 DEF receiver_start, DiscoveryTypes, MdnsState, ResponderState
      <3>4. air' \in AirState
        BY <1>0, <1>1, <1>98, <1>99 DEF receiver_start, DiscoveryTypes, ReceiverState, MdnsState, AirState, BuiltOK
      <3> QED
        BY <3>1, <3>2, <3>3, <3>4 DEF DiscoveryTypes
    <2>2. BuiltOK'
      BY <1>0, <1>1, <1>98, <1>99, StageFacts DEF receiver_start, DiscoveryTypes, ReceiverState, BuiltOK
    <2>3. ResponderOK'
      BY <1>0, <1>1, <2>1, <1>98, <1>99, StageFacts DEF receiver_start, DiscoveryTypes, ReceiverState, MdnsState,
         ResponderState, AirState, BuiltOK, ResponderOK
    <2>4. KnownOK'
      BY <1>0, <1>1, <1>98, <1>99, <2>1 DEF receiver_start, DiscoveryTypes, ReceiverState, MdnsState,
         ResponderState, AirState, ResponderOK, KnownOK
    <2> QED
      BY <2>1, <2>2, <2>3, <2>4, DiscoveryTypesOK DEF DiscoveryInv
  <1>2. CASE receiver_stage
    <2>1. /\ composed.at = "start" /\ composed.step \in 1 .. 6 /\ composed.step + 1 \in StepNumbers
          /\ UNCHANGED <<mdns, responder, air>> /\ composed \in ReceiverState
      BY <1>0, <1>2, <1>98, StageFacts DEF receiver_stage, DiscoveryTypes
    <2>2. /\ built \in SUBSET Parts
          /\ "pairing" \in built <=> "pairing" \in composed.parts \/ composed.step = 1
          /\ "handlers" \in built <=> "handlers" \in composed.parts \/ composed.step = 3
          /\ "sessions" \in built <=> "sessions" \in composed.parts \/ composed.step = 4
          /\ "server" \in built <=> "server" \in composed.parts \/ composed.step = 5
      <3>1. /\ built \in SUBSET Parts
            /\ \A x \in Parts : x \in built <=> x \in composed.parts \/ x = Stages[composed.step]
        BY <2>1 DEF built, ReceiverState
      <3>2. {"pairing", "handlers", "sessions", "server"} \subseteq Parts
        BY StageFacts
      <3>3. composed.step \in {1, 2, 3, 4, 5, 6}
        BY <2>1
      <3>4. /\ Stages[composed.step] = "pairing" <=> composed.step = 1
            /\ Stages[composed.step] = "handlers" <=> composed.step = 3
            /\ Stages[composed.step] = "sessions" <=> composed.step = 4
            /\ Stages[composed.step] = "server" <=> composed.step = 5
        BY <3>3, StageFacts
      <3> QED
        BY <3>1, <3>2, <3>4
    <2>3. CASE composed' = [composed EXCEPT !.parts = built, !.step = @ + 1]
      <3>1. /\ composed' \in ReceiverState /\ composed'.at = "start" /\ composed'.parts = built
            /\ composed'.step = composed.step + 1 /\ composed'.starts = composed.starts
            /\ composed'.discovery_started = composed.discovery_started
        BY <2>1, <2>2, <2>3 DEF ReceiverState
      <3>2. BuiltOK'
        BY <1>0, <2>1, <2>2, <3>1 DEF BuiltOK
      <3>3. ResponderOK' /\ KnownOK'
        BY <1>0, <2>1, <3>1 DEF ResponderOK, KnownOK
      <3> QED
        BY <1>0, <2>1, <3>1, <3>2, <3>3, DiscoveryTypesOK DEF DiscoveryInv, DiscoveryTypes
    <2>4. CASE \/ composed' = [composed EXCEPT !.at = "stop"]
               \/ composed' = [composed EXCEPT !.parts = built, !.at = "stop"] /\ composed.step = 1
      <3>1. /\ composed' \in ReceiverState /\ composed'.at = "stop"
            /\ composed'.parts = composed.parts \/ (composed'.parts = built /\ composed.step = 1)
            /\ composed'.starts = composed.starts
            /\ composed'.discovery_started = composed.discovery_started
        BY <2>1, <2>2, <2>4 DEF ReceiverState
      <3>2. BuiltOK'
        BY <1>0, <2>1, <2>2, <3>1 DEF BuiltOK
      <3>3. ResponderOK' /\ KnownOK'
        BY <1>0, <2>1, <3>1 DEF ResponderOK, KnownOK
      <3> QED
        BY <1>0, <2>1, <3>1, <3>2, <3>3, DiscoveryTypesOK DEF DiscoveryInv, DiscoveryTypes
    <2>5. Stages[composed.step] = "pairing" => composed.step = 1
      BY <2>1, StageFacts
    <2> QED
      BY <1>2, <2>3, <2>4, <2>5 DEF receiver_stage
  <1>3. CASE receiver_without_discovery
    <2>1. DiscoveryTypes'
      BY <1>0, <1>3, <1>98, <1>99, StageFacts DEF receiver_without_discovery, DiscoveryTypes, ReceiverState, MdnsState,
         ResponderState, AirState, BuiltOK
    <2>2. BuiltOK'
      BY <1>0, <1>3, <1>98, <1>99, StageFacts DEF receiver_without_discovery, DiscoveryTypes, ReceiverState, BuiltOK
    <2>3. ResponderOK'
      BY <1>0, <1>3, <2>1, <1>98, <1>99, StageFacts DEF receiver_without_discovery, DiscoveryTypes, ReceiverState, MdnsState,
         ResponderState, AirState, BuiltOK, ResponderOK
    <2>4. KnownOK'
      BY <1>0, <1>3, <1>98, <1>99, <2>1 DEF receiver_without_discovery, DiscoveryTypes, ReceiverState, MdnsState,
         ResponderState, AirState, ResponderOK, KnownOK
    <2> QED
      BY <2>1, <2>2, <2>3, <2>4, DiscoveryTypesOK DEF DiscoveryInv
  <1>4. CASE mdns_socket
    <2>1. /\ composed.at = "start" /\ composed.step > 6 /\ composed \in ReceiverState
          /\ "server" \in composed.parts /\ UNCHANGED responder
          /\ composed.starts \in OpenNumbers /\ composed.starts \in StartNumbers /\ composed.starts # 0
      BY <1>0, <1>4, <1>98, StageFacts DEF mdns_socket, DiscoveryTypes, ReceiverState, BuiltOK
    <2>2. ~composed.discovery_started /\ responder.at = "none" /\ air.open = {} /\ air \in AirState
      BY <1>0, <2>1 DEF ResponderOK, DiscoveryTypes
    <2>3. CASE /\ mdns' = [started |-> TRUE, running |-> TRUE, suspended |-> FALSE,
                           socket_fd |-> composed.starts, suffix |-> 1]
               /\ air' = [air EXCEPT !.open = @ \union {composed.starts}, !.lost = FALSE]
               /\ composed' = [composed EXCEPT !.at = "mdns"]
      <3>1. mdns' \in MdnsState /\ mdns'.socket_fd = composed.starts
        BY <1>98, <2>1, <2>3 DEF MdnsState
      <3>2. air' \in AirState /\ air'.open = {composed.starts}
        BY <2>1, <2>2, <2>3 DEF AirState
      <3>3. /\ composed' \in ReceiverState /\ composed'.at = "mdns" /\ composed'.parts = composed.parts
            /\ composed'.starts = composed.starts /\ ~composed'.discovery_started
        BY <2>1, <2>2, <2>3 DEF ReceiverState
      <3>4. BuiltOK' /\ ResponderOK' /\ KnownOK'
        BY <1>0, <2>1, <2>2, <3>1, <3>2, <3>3 DEF BuiltOK, ResponderOK, KnownOK
      <3> QED
        BY <1>0, <2>1, <3>1, <3>2, <3>3, <3>4, DiscoveryTypesOK DEF DiscoveryInv, DiscoveryTypes
    <2>4. CASE /\ mdns' = [Stopped EXCEPT !.suffix = 1] /\ UNCHANGED air
               /\ composed' = [composed EXCEPT !.at = "stop"]
      <3>1. /\ composed' \in ReceiverState /\ composed'.at = "stop" /\ composed'.parts = composed.parts
            /\ composed'.starts = composed.starts /\ ~composed'.discovery_started
        BY <2>1, <2>2, <2>4 DEF ReceiverState
      <3>2. BuiltOK' /\ ResponderOK' /\ KnownOK'
        BY <1>0, <1>99, <2>1, <2>2, <2>4, <3>1 DEF BuiltOK, ResponderOK, KnownOK
      <3> QED
        BY <1>0, <1>99, <2>1, <2>4, <3>1, <3>2, DiscoveryTypesOK DEF DiscoveryInv, DiscoveryTypes
    <2> QED
      BY <1>4, <2>3, <2>4 DEF mdns_socket
  <1>5. CASE mdns_thread_start
    <2>1. /\ composed.at = "mdns" /\ composed \in ReceiverState /\ ~composed.discovery_started
          /\ responder.at = "none" /\ mdns.socket_fd # 0 /\ air.open = {mdns.socket_fd}
          /\ "server" \in composed.parts /\ air \in AirState
      BY <1>0, <1>5 DEF mdns_thread_start, DiscoveryTypes, ResponderOK
    <2>2. CASE /\ responder' = [at |-> "enter", fd |-> 0, was_suspended |-> FALSE]
               /\ composed' = [composed EXCEPT !.at = "running", !.discovery_started = TRUE]
               /\ UNCHANGED <<mdns, air>>
      <3>1. responder' \in ResponderState /\ responder'.at = "enter" /\ ~responder'.was_suspended
        BY <1>98, <2>2 DEF ResponderState
      <3>2. /\ composed' \in ReceiverState /\ composed'.at = "running" /\ composed'.parts = composed.parts
            /\ composed'.starts = composed.starts /\ composed'.discovery_started
        BY <2>1, <2>2 DEF ReceiverState
      <3>3. BuiltOK' /\ ResponderOK' /\ KnownOK'
        BY <1>0, <2>1, <2>2, <3>1, <3>2 DEF BuiltOK, ResponderOK, KnownOK
      <3> QED
        BY <1>0, <2>2, <3>1, <3>2, <3>3, DiscoveryTypesOK DEF DiscoveryInv, DiscoveryTypes
    <2>3. CASE /\ mdns' = [Stopped EXCEPT !.suffix = 1]
               /\ air' = [air EXCEPT !.open = @ \ {mdns.socket_fd}]
               /\ composed' = [composed EXCEPT !.at = "stop"]
               /\ UNCHANGED responder
      <3>1. air' \in AirState /\ air'.open = {}
        BY <2>1, <2>3 DEF AirState
      <3>2. /\ composed' \in ReceiverState /\ composed'.at = "stop" /\ composed'.parts = composed.parts
            /\ composed'.starts = composed.starts /\ ~composed'.discovery_started
        BY <2>1, <2>3 DEF ReceiverState
      <3>3. BuiltOK' /\ ResponderOK' /\ KnownOK'
        BY <1>0, <1>99, <2>1, <2>3, <3>1, <3>2 DEF BuiltOK, ResponderOK, KnownOK
      <3> QED
        BY <1>0, <1>99, <2>3, <3>1, <3>2, <3>3, DiscoveryTypesOK DEF DiscoveryInv, DiscoveryTypes
    <2> QED
      BY <1>5, <2>2, <2>3 DEF mdns_thread_start
  <1>6. CASE receiver_stop
    <2>1. DiscoveryTypes'
      BY <1>0, <1>6, <1>98, <1>99, StageFacts DEF receiver_stop, DiscoveryTypes, ReceiverState, MdnsState,
         ResponderState, AirState, BuiltOK
    <2>2. BuiltOK'
      BY <1>0, <1>6, <1>98, <1>99, StageFacts DEF receiver_stop, DiscoveryTypes, ReceiverState, BuiltOK
    <2>3. ResponderOK'
      BY <1>0, <1>6, <2>1, <1>98, <1>99, StageFacts DEF receiver_stop, DiscoveryTypes, ReceiverState, MdnsState,
         ResponderState, AirState, BuiltOK, ResponderOK
    <2>4. KnownOK'
      BY <1>0, <1>6, <1>98, <1>99, <2>1 DEF receiver_stop, DiscoveryTypes, ReceiverState, MdnsState,
         ResponderState, AirState, ResponderOK, KnownOK
    <2> QED
      BY <2>1, <2>2, <2>3, <2>4, DiscoveryTypesOK DEF DiscoveryInv
  <1>7. CASE mdns_goodbye
    <2>1. DiscoveryTypes'
      <3>1. composed' \in ReceiverState
        BY <1>0, <1>7, <1>98, <1>99, StageFacts DEF mdns_goodbye, DiscoveryTypes, ReceiverState, BuiltOK
      <3>2. mdns' \in MdnsState
        BY <1>0, <1>7, <1>98, <1>99 DEF mdns_goodbye, DiscoveryTypes, ReceiverState, MdnsState, BuiltOK
      <3>3. responder' \in ResponderState
        BY <1>0, <1>7, <1>98, <1>99 DEF mdns_goodbye, DiscoveryTypes, MdnsState, ResponderState
      <3>4. air' \in AirState
        BY <1>0, <1>7, <1>98, <1>99 DEF mdns_goodbye, DiscoveryTypes, ReceiverState, MdnsState, AirState, BuiltOK
      <3> QED
        BY <3>1, <3>2, <3>3, <3>4 DEF DiscoveryTypes
    <2>2. BuiltOK'
      BY <1>0, <1>7, <1>98, <1>99, StageFacts DEF mdns_goodbye, DiscoveryTypes, ReceiverState, BuiltOK
    <2>3. ResponderOK'
      BY <1>0, <1>7, <2>1, <1>98, <1>99, StageFacts DEF mdns_goodbye, DiscoveryTypes, ReceiverState, MdnsState,
         ResponderState, AirState, BuiltOK, ResponderOK
    <2>4. KnownOK'
      BY <1>0, <1>7, <1>98, <1>99, <2>1 DEF mdns_goodbye, DiscoveryTypes, ReceiverState, MdnsState,
         ResponderState, AirState, ResponderOK, KnownOK
    <2> QED
      BY <2>1, <2>2, <2>3, <2>4, DiscoveryTypesOK DEF DiscoveryInv
  <1>8. CASE mdns_stop_flags
    <2>1. DiscoveryTypes'
      <3>1. composed' \in ReceiverState
        BY <1>0, <1>8, <1>98, <1>99, StageFacts DEF mdns_stop_flags, DiscoveryTypes, ReceiverState, BuiltOK
      <3>2. mdns' \in MdnsState
        BY <1>0, <1>8, <1>98, <1>99 DEF mdns_stop_flags, DiscoveryTypes, ReceiverState, MdnsState, BuiltOK
      <3>3. responder' \in ResponderState
        BY <1>0, <1>8, <1>98, <1>99 DEF mdns_stop_flags, DiscoveryTypes, MdnsState, ResponderState
      <3>4. air' \in AirState
        BY <1>0, <1>8, <1>98, <1>99 DEF mdns_stop_flags, DiscoveryTypes, ReceiverState, MdnsState, AirState, BuiltOK
      <3> QED
        BY <3>1, <3>2, <3>3, <3>4 DEF DiscoveryTypes
    <2>2. BuiltOK'
      BY <1>0, <1>8, <1>98, <1>99, StageFacts DEF mdns_stop_flags, DiscoveryTypes, ReceiverState, BuiltOK
    <2>3. ResponderOK'
      BY <1>0, <1>8, <2>1, <1>98, <1>99, StageFacts DEF mdns_stop_flags, DiscoveryTypes, ReceiverState, MdnsState,
         ResponderState, AirState, BuiltOK, ResponderOK
    <2>4. KnownOK'
      BY <1>0, <1>8, <1>98, <1>99, <2>1 DEF mdns_stop_flags, DiscoveryTypes, ReceiverState, MdnsState,
         ResponderState, AirState, ResponderOK, KnownOK
    <2> QED
      BY <2>1, <2>2, <2>3, <2>4, DiscoveryTypesOK DEF DiscoveryInv
  <1>9. CASE mdns_join
    <2>1. DiscoveryTypes'
      <3>1. composed' \in ReceiverState
        BY <1>0, <1>9, <1>98, <1>99, StageFacts DEF mdns_join, DiscoveryTypes, ReceiverState, BuiltOK
      <3>2. mdns' \in MdnsState
        BY <1>0, <1>9, <1>98, <1>99 DEF mdns_join, DiscoveryTypes, ReceiverState, MdnsState, BuiltOK
      <3>3. responder' \in ResponderState
        BY <1>0, <1>9, <1>98, <1>99 DEF mdns_join, DiscoveryTypes, MdnsState, ResponderState
      <3>4. air' \in AirState
        BY <1>0, <1>9, <1>98, <1>99 DEF mdns_join, DiscoveryTypes, ReceiverState, MdnsState, AirState, BuiltOK
      <3> QED
        BY <3>1, <3>2, <3>3, <3>4 DEF DiscoveryTypes
    <2>2. BuiltOK'
      BY <1>0, <1>9, <1>98, <1>99, StageFacts DEF mdns_join, DiscoveryTypes, ReceiverState, BuiltOK
    <2>3. ResponderOK'
      BY <1>0, <1>9, <2>1, <1>98, <1>99, StageFacts DEF mdns_join, DiscoveryTypes, ReceiverState, MdnsState,
         ResponderState, AirState, BuiltOK, ResponderOK
    <2>4. KnownOK'
      BY <1>0, <1>9, <1>98, <1>99, <2>1 DEF mdns_join, DiscoveryTypes, ReceiverState, MdnsState,
         ResponderState, AirState, ResponderOK, KnownOK
    <2> QED
      BY <2>1, <2>2, <2>3, <2>4, DiscoveryTypesOK DEF DiscoveryInv
  <1>10. CASE receiver_stop_part
    <2>1. PICK part \in composed.parts :
              /\ composed' = [composed EXCEPT !.parts = @ \ {part}]
              /\ "server" \in composed.parts => part = "server"
      BY <1>10, ServerStopsFirst
    <2>2. /\ composed.at = "stop" /\ ~composed.discovery_started
          /\ UNCHANGED <<mdns, responder, air>>
      BY <1>10 DEF receiver_stop_part
    <2>3. DiscoveryTypes'
      BY <1>0, <2>1, <2>2 DEF DiscoveryTypes, ReceiverState
    <2>4. BuiltOK'
      BY <1>0, <2>1, <2>2 DEF DiscoveryTypes, ReceiverState, BuiltOK
    <2>5. ResponderOK' /\ KnownOK'
      BY <1>0, <2>1, <2>2 DEF DiscoveryTypes, ReceiverState, ResponderOK, KnownOK
    <2> QED
      BY <2>3, <2>4, <2>5, DiscoveryTypesOK DEF DiscoveryInv
  <1>11. CASE receiver_stopped
    <2>1. DiscoveryTypes'
      BY <1>0, <1>11, <1>98, <1>99, StageFacts DEF receiver_stopped, DiscoveryTypes, ReceiverState, MdnsState,
         ResponderState, AirState, BuiltOK
    <2>2. BuiltOK'
      BY <1>0, <1>11, <1>98, <1>99, StageFacts DEF receiver_stopped, DiscoveryTypes, ReceiverState, BuiltOK
    <2>3. ResponderOK'
      BY <1>0, <1>11, <2>1, <1>98, <1>99, StageFacts DEF receiver_stopped, DiscoveryTypes, ReceiverState, MdnsState,
         ResponderState, AirState, BuiltOK, ResponderOK
    <2>4. KnownOK'
      BY <1>0, <1>11, <1>98, <1>99, <2>1 DEF receiver_stopped, DiscoveryTypes, ReceiverState, MdnsState,
         ResponderState, AirState, ResponderOK, KnownOK
    <2> QED
      BY <2>1, <2>2, <2>3, <2>4, DiscoveryTypesOK DEF DiscoveryInv
  <1>12. CASE mdns_set_suspended
    <2>1. DiscoveryTypes'
      <3>1. mdns \in MdnsState /\ mdns' = [mdns EXCEPT !.suspended = ~@] /\ UNCHANGED <<composed, responder, air>>
        BY <1>0, <1>12 DEF mdns_set_suspended, DiscoveryTypes
      <3>2. mdns' \in MdnsState
        BY <3>1, Zenon DEF MdnsState
      <3> QED
        BY <1>0, <3>1, <3>2 DEF DiscoveryTypes
    <2>2. BuiltOK'
      BY <1>0, <1>12, <1>98, <1>99, StageFacts DEF mdns_set_suspended, DiscoveryTypes, ReceiverState, BuiltOK
    <2>3. ResponderOK'
      BY <1>0, <1>12, <2>1, <1>98, <1>99, StageFacts DEF mdns_set_suspended, DiscoveryTypes, ReceiverState, MdnsState,
         ResponderState, AirState, BuiltOK, ResponderOK
    <2>4. KnownOK'
      BY <1>0, <1>12, <1>98, <1>99, <2>1 DEF mdns_set_suspended, DiscoveryTypes, ReceiverState, MdnsState,
         ResponderState, AirState, ResponderOK, KnownOK
    <2> QED
      BY <2>1, <2>2, <2>3, <2>4, DiscoveryTypesOK DEF DiscoveryInv
  <1>13. CASE responder_enters
    <2>1. DiscoveryTypes'
      <3>1. composed' \in ReceiverState
        BY <1>0, <1>13, <1>98, <1>99, StageFacts DEF responder_enters, announces, DiscoveryTypes, ReceiverState, BuiltOK
      <3>2. mdns' \in MdnsState
        BY <1>0, <1>13, <1>98, <1>99 DEF responder_enters, announces, DiscoveryTypes, ReceiverState, MdnsState, BuiltOK
      <3>3. responder' \in ResponderState
        BY <1>0, <1>13, <1>98, <1>99 DEF responder_enters, announces, DiscoveryTypes, MdnsState, ResponderState
      <3>4. air' \in AirState
        BY <1>0, <1>13, <1>98, <1>99 DEF responder_enters, announces, DiscoveryTypes, ReceiverState, MdnsState, AirState, BuiltOK
      <3> QED
        BY <3>1, <3>2, <3>3, <3>4 DEF DiscoveryTypes
    <2>2. BuiltOK'
      BY <1>0, <1>13, <1>98, <1>99, StageFacts DEF responder_enters, announces, DiscoveryTypes, ReceiverState, BuiltOK
    <2>3. ResponderOK'
      BY <1>0, <1>13, <2>1, <1>98, <1>99, StageFacts DEF responder_enters, announces, DiscoveryTypes, ReceiverState, MdnsState,
         ResponderState, AirState, BuiltOK, ResponderOK
    <2>4. KnownOK'
      BY <1>0, <1>13, <1>98, <1>99, <2>1 DEF responder_enters, announces, DiscoveryTypes, ReceiverState, MdnsState,
         ResponderState, AirState, ResponderOK, KnownOK
    <2> QED
      BY <2>1, <2>2, <2>3, <2>4, DiscoveryTypesOK DEF DiscoveryInv
  <1>14. CASE responder_leaves
    <2>1. DiscoveryTypes'
      BY <1>0, <1>14, <1>98, <1>99, StageFacts DEF responder_leaves, DiscoveryTypes, ReceiverState, MdnsState,
         ResponderState, AirState, BuiltOK
    <2>2. BuiltOK'
      BY <1>0, <1>14, <1>98, <1>99, StageFacts DEF responder_leaves, DiscoveryTypes, ReceiverState, BuiltOK
    <2>3. ResponderOK'
      BY <1>0, <1>14, <2>1, <1>98, <1>99, StageFacts DEF responder_leaves, DiscoveryTypes, ReceiverState, MdnsState,
         ResponderState, AirState, BuiltOK, ResponderOK
    <2>4. KnownOK'
      BY <1>0, <1>14, <1>98, <1>99, <2>1 DEF responder_leaves, DiscoveryTypes, ReceiverState, MdnsState,
         ResponderState, AirState, ResponderOK, KnownOK
    <2> QED
      BY <2>1, <2>2, <2>3, <2>4, DiscoveryTypesOK DEF DiscoveryInv
  <1>15. CASE responder_sleeps
    <2>1. DiscoveryTypes'
      BY <1>0, <1>15, <1>98, <1>99, StageFacts DEF responder_sleeps, awake, DiscoveryTypes, ReceiverState, MdnsState,
         ResponderState, AirState, BuiltOK
    <2>2. BuiltOK'
      BY <1>0, <1>15, <1>98, <1>99, StageFacts DEF responder_sleeps, awake, DiscoveryTypes, ReceiverState, BuiltOK
    <2>3. ResponderOK'
      BY <1>0, <1>15, <2>1, <1>98, <1>99, StageFacts DEF responder_sleeps, awake, DiscoveryTypes, ReceiverState, MdnsState,
         ResponderState, AirState, BuiltOK, ResponderOK
    <2>4. KnownOK'
      BY <1>0, <1>15, <1>98, <1>99, <2>1 DEF responder_sleeps, awake, DiscoveryTypes, ReceiverState, MdnsState,
         ResponderState, AirState, ResponderOK, KnownOK
    <2> QED
      BY <2>1, <2>2, <2>3, <2>4, DiscoveryTypesOK DEF DiscoveryInv
  <1>16. CASE responder_waits
    <2>1. /\ responder.at = "loop" /\ mdns.socket_fd # 0 /\ UNCHANGED <<composed, mdns>>
          /\ responder' = [at |-> "select", fd |-> mdns.socket_fd, was_suspended |-> FALSE]
      BY <1>16 DEF responder_waits, awake
    <2>2. /\ responder' \in ResponderState /\ responder'.at = "select"
          /\ responder'.fd = mdns.socket_fd /\ ~responder'.was_suspended
      BY <1>0, <2>1 DEF DiscoveryTypes, MdnsState, ResponderState
    <2>3. /\ air' \in AirState /\ air'.open = air.open
          /\ (air' = air /\ ~responder.was_suspended) \/ (air'.known = mdns.suffix \/ air'.lost)
      <3>1. mdns.suffix \in Suffixes /\ air \in AirState
        BY <1>0 DEF DiscoveryTypes, MdnsState
      <3> QED
        BY <1>16, <3>1, Announces DEF responder_waits
    <2>4. BuiltOK' /\ ResponderOK' /\ KnownOK'
      BY <1>0, <2>1, <2>2, <2>3 DEF BuiltOK, ResponderOK, KnownOK
    <2> QED
      BY <1>0, <2>1, <2>2, <2>3, <2>4, DiscoveryTypesOK DEF DiscoveryInv, DiscoveryTypes
  <1>17. CASE responder_ends
    <2>1. DiscoveryTypes'
      <3>1. composed' \in ReceiverState
        BY <1>0, <1>17, <1>98, <1>99, StageFacts DEF responder_ends, DiscoveryTypes, ReceiverState, BuiltOK
      <3>2. mdns' \in MdnsState
        BY <1>0, <1>17, <1>98, <1>99 DEF responder_ends, DiscoveryTypes, ReceiverState, MdnsState, BuiltOK
      <3>3. responder' \in ResponderState
        BY <1>0, <1>17, <1>98, <1>99 DEF responder_ends, DiscoveryTypes, MdnsState, ResponderState
      <3>4. air' \in AirState
        BY <1>0, <1>17, <1>98, <1>99 DEF responder_ends, DiscoveryTypes, ReceiverState, MdnsState, AirState, BuiltOK
      <3> QED
        BY <3>1, <3>2, <3>3, <3>4 DEF DiscoveryTypes
    <2>2. BuiltOK'
      BY <1>0, <1>17, <1>98, <1>99, StageFacts DEF responder_ends, DiscoveryTypes, ReceiverState, BuiltOK
    <2>3. ResponderOK'
      BY <1>0, <1>17, <2>1, <1>98, <1>99, StageFacts DEF responder_ends, DiscoveryTypes, ReceiverState, MdnsState,
         ResponderState, AirState, BuiltOK, ResponderOK
    <2>4. KnownOK'
      BY <1>0, <1>17, <1>98, <1>99, <2>1 DEF responder_ends, DiscoveryTypes, ReceiverState, MdnsState,
         ResponderState, AirState, ResponderOK, KnownOK
    <2> QED
      BY <2>1, <2>2, <2>3, <2>4, DiscoveryTypesOK DEF DiscoveryInv
  <1>18. CASE handle_conflict
    <2>1. DiscoveryTypes'
      <3>1. composed' \in ReceiverState
        BY <1>0, <1>18, <1>98, <1>99, StageFacts DEF handle_conflict, announces, DiscoveryTypes, ReceiverState, BuiltOK
      <3>2. mdns' \in MdnsState
        BY <1>0, <1>18, <1>98, <1>99 DEF handle_conflict, announces, DiscoveryTypes, ReceiverState, MdnsState, BuiltOK
      <3>3. responder' \in ResponderState
        BY <1>0, <1>18, <1>98, <1>99 DEF handle_conflict, announces, DiscoveryTypes, MdnsState, ResponderState
      <3>4. air' \in AirState
        BY <1>0, <1>18, <1>98, <1>99 DEF handle_conflict, announces, DiscoveryTypes, ReceiverState, MdnsState, AirState, BuiltOK
      <3> QED
        BY <3>1, <3>2, <3>3, <3>4 DEF DiscoveryTypes
    <2>2. BuiltOK'
      BY <1>0, <1>18, <1>98, <1>99, StageFacts DEF handle_conflict, announces, DiscoveryTypes, ReceiverState, BuiltOK
    <2>3. ResponderOK'
      BY <1>0, <1>18, <2>1, <1>98, <1>99, StageFacts DEF handle_conflict, announces, DiscoveryTypes, ReceiverState, MdnsState,
         ResponderState, AirState, BuiltOK, ResponderOK
    <2>4. KnownOK'
      BY <1>0, <1>18, <1>98, <1>99, <2>1 DEF handle_conflict, announces, DiscoveryTypes, ReceiverState, MdnsState,
         ResponderState, AirState, ResponderOK, KnownOK
    <2> QED
      BY <2>1, <2>2, <2>3, <2>4, DiscoveryTypesOK DEF DiscoveryInv
  <1>19. CASE responder_serves
    <2>1. /\ responder.at = "select" /\ UNCHANGED <<composed, mdns>>
          /\ responder' = [responder EXCEPT !.at = "loop", !.fd = 0]
      BY <1>19 DEF responder_serves
    <2>2. /\ responder' \in ResponderState /\ responder'.at = "loop" /\ ~responder'.was_suspended
      BY <1>0, <1>98, <2>1 DEF DiscoveryTypes, ResponderState, ResponderOK
    <2>3. /\ air' \in AirState /\ air'.open = air.open
          /\ air' = air \/ air'.known = mdns.suffix \/ air'.lost
      <3>1. mdns.suffix \in Suffixes /\ air \in AirState
        BY <1>0 DEF DiscoveryTypes, MdnsState
      <3> QED
        BY <1>19, <3>1, Announces DEF responder_serves
    <2>4. BuiltOK' /\ ResponderOK' /\ KnownOK'
      BY <1>0, <2>1, <2>2, <2>3 DEF BuiltOK, ResponderOK, KnownOK
    <2> QED
      BY <1>0, <2>1, <2>2, <2>3, <2>4, DiscoveryTypesOK DEF DiscoveryInv, DiscoveryTypes
  <1>20. CASE record_expires
    <2>1. DiscoveryTypes'
      BY <1>0, <1>20, <1>98, <1>99, StageFacts DEF record_expires, DiscoveryTypes, ReceiverState, MdnsState,
         ResponderState, AirState, BuiltOK
    <2>2. BuiltOK'
      BY <1>0, <1>20, <1>98, <1>99, StageFacts DEF record_expires, DiscoveryTypes, ReceiverState, BuiltOK
    <2>3. ResponderOK'
      BY <1>0, <1>20, <2>1, <1>98, <1>99, StageFacts DEF record_expires, DiscoveryTypes, ReceiverState, MdnsState,
         ResponderState, AirState, BuiltOK, ResponderOK
    <2>4. KnownOK'
      BY <1>0, <1>20, <1>98, <1>99, <2>1 DEF record_expires, DiscoveryTypes, ReceiverState, MdnsState,
         ResponderState, AirState, ResponderOK, KnownOK
    <2> QED
      BY <2>1, <2>2, <2>3, <2>4, DiscoveryTypesOK DEF DiscoveryInv
  <1>21. CASE UNCHANGED DiscoveryVars
    BY <1>0, <1>21, DiscoveryTypesOK DEF DiscoveryVars, DiscoveryTypes, BuiltOK, ResponderOK, KnownOK,
       DiscoveryInv
  <1> QED
    BY <1>1, <1>2, <1>3, <1>4, <1>5, <1>6, <1>7, <1>8, <1>9, <1>10, <1>11, <1>12, <1>13, <1>14, <1>15, <1>16, <1>17, <1>18, <1>19, <1>20, <1>21 DEF DiscoveryNext

LEMMA DiscoveryInitInv == DiscoveryInit => DiscoveryInv
  <1> SUFFICES ASSUME DiscoveryInit PROVE DiscoveryInv
    OBVIOUS
  <1>1. DiscoveryTypes
    BY DiscoveryAssumption, StageFacts DEF DiscoveryInit, DiscoveryTypes, ReceiverState, MdnsState,
       ResponderState, AirState, Stopped, StepNumbers, StartNumbers, OpenNumbers, Suffixes
  <1>2. BuiltOK /\ ResponderOK /\ KnownOK
    BY DEF DiscoveryInit, Stopped, BuiltOK, ResponderOK, KnownOK
  <1> QED
    BY <1>1, <1>2, DiscoveryTypesOK DEF DiscoveryInv

LEMMA DiscoveryInvariant == DiscoverySpec => []DiscoveryInv
  BY DiscoveryInitInv, DiscoveryStep, PTL DEF DiscoverySpec

\* The conflict suffix stays within its limit, for any number of conflicts
\* and starts.
THEOREM DiscoveryTypeCorrect == DiscoverySpec => []DiscoveryTypeOK
  <1>1. DiscoveryInv => DiscoveryTypeOK
    BY DEF DiscoveryInv
  <1> QED
    BY <1>1, DiscoveryInvariant, PTL

\* The responder waits on an open descriptor only and never outlives the
\* server; a receiver that stopped, or failed at any stage, leaves nothing;
\* the network has the current name after every rename and suspension.
THEOREM DiscoveryCorrect == DiscoverySpec => []DiscoverySettles
  <1>1. DiscoveryInv => DiscoverySettles
    BY DEF DiscoveryInv, BuiltOK, ResponderOK, KnownOK, DiscoverySettles
  <1> QED
    BY <1>1, DiscoveryInvariant, PTL

-----------------------------------------------------------------------------
(* AirPlayServer: the inductive invariant. *)

\* How far a stop has come, and what the listener thread leaves behind.
StopPhaseOK ==
    /\ stopper.at = "idle" => stopper = NotStopping
    /\ stopper.at # "idle" =>
          server.listener_started /\ ~server.running /\ server.listen_socket = Closed
    /\ stopper.at # "join" => stopper.taken = {}
    /\ listener.at = "join" => \A s \in Slots : slots[s].socket_fd = Closed
    /\ ~server.listener_started => listener.at = "none" /\ \A d \in Descriptors : kernel[d] = 0
    /\ listener.at = "none" =>
          \A s \in Slots : /\ slots[s].socket_fd = Closed /\ slots[s].reverse_session_id = 0
                           /\ client_threads[s].at = "none"

\* The flags of a slot follow its thread; the slot the listener fills has none.
SlotFlagsOK ==
    /\ \A s \in Slots : /\ slots[s].thread_started <=> client_threads[s].at # "none"
                        /\ slots[s].finished <=> client_threads[s].at = "exit"
                        /\ client_threads[s].at = "enter" => client_threads[s].fd = Closed
                        /\ client_threads[s].at = "serve" => client_threads[s].session
    /\ listener.at = "placed" => /\ listener.slot \in Slots
                                 /\ client_threads[listener.slot].at = "none"

\* Who holds which descriptor: a slot, a stop, a client thread.
SlotsHold ==
    \A s \in Slots : slots[s].socket_fd # Closed =>
        /\ kernel[slots[s].socket_fd] # 0
        /\ working(s) => client_threads[s].serial = kernel[slots[s].socket_fd]
        /\ ~working(s) => /\ listener.at = "placed" /\ listener.slot = s
                          /\ slots[s].socket_fd = listener.fd
HeldOnce ==
    \A s, t \in Slots : slots[s].socket_fd # Closed /\ slots[s].socket_fd = slots[t].socket_fd => s = t
StopHolds ==
    \A t \in stopper.taken :
        /\ kernel[t[2]] = t[3] /\ t[3] # 0
        /\ \A s \in Slots : slots[s].socket_fd # t[2]
ThreadsHold ==
    \A s \in Slots : working(s) /\ client_threads[s].fd # Closed =>
        \/ slots[s].socket_fd = client_threads[s].fd
        \/ <<s, client_threads[s].fd, client_threads[s].serial>> \in stopper.taken
        \/ listener.at = "join" /\ kernel[client_threads[s].fd] = 0
HoldersOK == SlotsHold /\ HeldOnce /\ StopHolds /\ ThreadsHold

\* The connection just accepted is nobody else's yet.
AcceptedOK ==
    /\ listener.at \in {"accepted", "placed"} =>
          /\ listener.fd \in Descriptors /\ kernel[listener.fd] \in 1 .. serial
          /\ sessions[kernel[listener.fd]].begun = 0 /\ sessions[kernel[listener.fd]].closed = 0
          /\ \A s \in Slots : client_threads[s].at # "none" =>
                client_threads[s].serial # kernel[listener.fd]
    /\ listener.at = "accepted" => /\ \A s \in Slots : slots[s].socket_fd # listener.fd
                                   /\ \A t \in stopper.taken : t[2] # listener.fd

\* No descriptor is open that nobody will close.
CoveredOK ==
    \A d \in Descriptors : kernel[d] # 0 =>
        \/ d \in {server.listen_socket, stopper.listen}
        \/ listener.at = "accepted" /\ d = listener.fd
        \/ \E s \in Slots : slots[s].socket_fd = d
        \/ \E t \in stopper.taken : t[2] = d

\* A session that began and is not closed has a thread that will close it.
SerialsOK ==
    /\ \A s \in Slots : client_threads[s].at # "none" => client_threads[s].serial \in 1 .. serial
    /\ \A s, t \in Slots : s # t /\ client_threads[s].at # "none" /\ client_threads[t].at # "none" =>
          client_threads[s].serial # client_threads[t].serial
    /\ \A s \in Slots : client_threads[s].at = "enter" =>
          sessions[client_threads[s].serial].begun = 0 /\ sessions[client_threads[s].serial].closed = 0
    /\ \A s \in Slots : client_threads[s].at \in {"serve", "finish"} /\ client_threads[s].session =>
          sessions[client_threads[s].serial].begun = 1 /\ sessions[client_threads[s].serial].closed = 0
    /\ \A n \in 1 .. MaxSerial :
          /\ n > serial => sessions[n].begun = 0 /\ sessions[n].closed = 0
          /\ sessions[n].begun # sessions[n].closed =>
                \E s \in Slots : /\ client_threads[s].at \in {"serve", "finish"}
                                 /\ client_threads[s].session /\ client_threads[s].serial = n

ServerInv == /\ ServerTypeOK /\ StopPhaseOK /\ SlotFlagsOK /\ HoldersOK
             /\ AcceptedOK /\ CoveredOK /\ SerialsOK

\* The types, with their ranges hidden behind names.
Held == Descriptors \cup {Closed}
Serials == 0 .. MaxSerial
SessionNumbers == 1 .. MaxSerial
ServerState == [running : BOOLEAN, listener_started : BOOLEAN, listen_socket : Held]
SlotState == [thread_started : BOOLEAN, active : BOOLEAN, finished : BOOLEAN,
              socket_fd : Held, reverse_session_id : LogicalIds \cup {0}]
ListenerState == [at : {"none", "poll", "select", "accepted", "placed", "finish", "join"},
                  fd : Held, slot : Slots \cup {"none"}]
ThreadState == [at : {"none", "enter", "serve", "finish", "close", "exit"},
                fd : Held, serial : Serials, session : BOOLEAN]
StopperState == [at : {"idle", "take", "join"}, listen : Held,
                 taken : SUBSET (Slots \X Descriptors \X Serials)]
Begins == 0 .. 1
Closings == 0 .. 2
SessionState == [begun : Begins, closed : Closings]
ServerTypes ==
    /\ server \in ServerState /\ slots \in [Slots -> SlotState]
    /\ kernel \in [Descriptors -> Serials] /\ serial \in Serials
    /\ listener \in ListenerState /\ client_threads \in [Slots -> ThreadState]
    /\ stopper \in StopperState /\ sessions \in [SessionNumbers -> SessionState]

LEMMA ServerTypesOK == (ServerTypeOK <=> ServerTypes) /\ (ServerTypeOK' <=> ServerTypes')
  BY DEF ServerTypeOK, ServerTypes, Held, Serials, SessionNumbers, ServerState, SlotState,
     ListenerState, ThreadState, StopperState, SessionState, Begins, Closings

\* -1 is no descriptor, and the numbers the provers need of the ranges.
LEMMA ServerFacts ==
    /\ Closed \notin Descriptors /\ 0 \in Serials /\ 0 \in Begins /\ 1 \in Begins
    /\ 0 \in Closings /\ 1 \in Closings /\ Serials \subseteq Nat /\ MaxSerial \in Nat
    /\ \A n \in Serials : n # 0 => n \in SessionNumbers
    /\ \A n \in Serials : n < MaxSerial => n + 1 \in Serials /\ n + 1 # 0
    /\ \A n \in SessionNumbers : n \in Serials /\ n # 0 /\ n \in Nat
    /\ \A n \in Serials : \A m \in 1 .. n : m \in SessionNumbers
  BY ServerAssumption DEF Closed, Serials, Begins, Closings, SessionNumbers

\* The records the code puts back are states of their kinds.
LEMMA ServerRecords ==
    /\ FreeSlot \in SlotState /\ FreeSlot.socket_fd = Closed /\ ~FreeSlot.thread_started
    /\ ~FreeSlot.finished /\ FreeSlot.reverse_session_id = 0
    /\ NoClient \in ThreadState /\ NoClient.at = "none" /\ NoClient.fd = Closed /\ ~NoClient.session
    /\ AtRest \in ListenerState /\ AtRest.at = "none" /\ AtRest.fd = Closed
    /\ NotStopping \in StopperState /\ NotStopping.at = "idle" /\ NotStopping.listen = Closed
    /\ NotStopping.taken = {}
  BY ServerFacts DEF FreeSlot, NoClient, AtRest, NotStopping, SlotState, ThreadState,
     ListenerState, StopperState, Held

\* Closing descriptors frees those and no other.
LEMMA CloseAll ==
    ASSUME ServerTypes, NEW held
    PROVE  /\ close_all(held) \in [Descriptors -> Serials]
           /\ \A d \in Descriptors : d \in held => close_all(held)[d] = 0
           /\ \A d \in Descriptors : d \notin held => close_all(held)[d] = kernel[d]
  BY ServerFacts DEF ServerTypes, close_all

LEMMA ServerBegins == ServerInit => ServerInv
  <1> SUFFICES ASSUME ServerInit PROVE ServerInv
    OBVIOUS
  <1>1. ServerTypes
    <2>1. server \in ServerState
      BY DEF ServerInit, ServerState, Held
    <2>2. sessions \in [SessionNumbers -> SessionState]
      BY ServerFacts DEF ServerInit, SessionState, SessionNumbers
    <2> QED
      BY <2>1, <2>2, ServerFacts, ServerRecords DEF ServerInit, ServerTypes
  <1>2. StopPhaseOK /\ SlotFlagsOK
    BY <1>1, ServerRecords DEF ServerInit, StopPhaseOK, SlotFlagsOK
  <1>3. HoldersOK /\ AcceptedOK /\ CoveredOK
    BY <1>1, ServerRecords DEF ServerInit, HoldersOK, AcceptedOK, CoveredOK, working, SlotsHold, HeldOnce,
       StopHolds, ThreadsHold
  <1>4. SerialsOK
    BY <1>1, ServerRecords, ServerFacts DEF ServerInit, SerialsOK, SessionNumbers
  <1> QED
    BY <1>1, <1>2, <1>3, <1>4, ServerTypesOK DEF ServerInv

\* airplay_server_stop, its first critical section.
LEMMA ServerStops ==
    ASSUME ServerInv, server_stops
    PROVE  ServerInv'
  <1>0. ServerTypes /\ StopPhaseOK /\ SlotFlagsOK /\ HoldersOK /\ AcceptedOK /\ CoveredOK /\ SerialsOK
    BY ServerTypesOK DEF ServerInv
  <1>1. ServerTypes'
    BY <1>0, ServerFacts, ServerRecords DEF server_stops, ServerTypes, ServerState, SlotState, ListenerState, ThreadState, StopperState
  <1>2. StopPhaseOK'
    BY <1>1, <1>0, ServerFacts, ServerRecords DEF server_stops, ServerTypes, ServerState, SlotState, ListenerState, ThreadState, StopperState, StopPhaseOK, SlotFlagsOK, HoldersOK, AcceptedOK, CoveredOK, SerialsOK, working, SlotsHold, HeldOnce, StopHolds, ThreadsHold
  <1>3. SlotFlagsOK'
    BY <1>1, <1>0, ServerFacts, ServerRecords DEF server_stops, ServerTypes, ServerState, SlotState, ListenerState, ThreadState, StopperState, StopPhaseOK, SlotFlagsOK, HoldersOK, AcceptedOK, CoveredOK, SerialsOK, working, SlotsHold, HeldOnce, StopHolds, ThreadsHold
  <1>4. HoldersOK'
    <2>1. stopper.taken = {} /\ stopper'.taken = {}
      BY <1>0, ServerRecords DEF server_stops, StopPhaseOK
    <2> QED
      BY <1>0, <2>1 DEF server_stops, HoldersOK, working, SlotsHold, HeldOnce, StopHolds, ThreadsHold
  <1>5. AcceptedOK'
    BY <1>1, <1>0, ServerFacts, ServerRecords DEF server_stops, ServerTypes, ServerState, SlotState, ListenerState, ThreadState, StopperState, StopPhaseOK, SlotFlagsOK, HoldersOK, AcceptedOK, CoveredOK, SerialsOK, working, SlotsHold, HeldOnce, StopHolds, ThreadsHold
  <1>6. CoveredOK'
    BY <1>1, <1>0, ServerFacts, ServerRecords DEF server_stops, ServerTypes, ServerState, SlotState, ListenerState, ThreadState, StopperState, StopPhaseOK, SlotFlagsOK, HoldersOK, AcceptedOK, CoveredOK, SerialsOK, working, SlotsHold, HeldOnce, StopHolds, ThreadsHold
  <1>7. SerialsOK'
    BY <1>1, <1>0, ServerFacts, ServerRecords DEF server_stops, ServerTypes, ServerState, SlotState, ListenerState, ThreadState, StopperState, StopPhaseOK, SlotFlagsOK, HoldersOK, AcceptedOK, CoveredOK, SerialsOK, working, SlotsHold, HeldOnce, StopHolds, ThreadsHold
  <1> QED
    BY <1>1, <1>2, <1>3, <1>4, <1>5, <1>6, <1>7, ServerTypesOK DEF ServerInv

\* airplay_server_stop takes the clients' sockets.
LEMMA ServerTakes ==
    ASSUME ServerInv, server_takes
    PROVE  ServerInv'
  <1>0. ServerTypes /\ StopPhaseOK /\ SlotFlagsOK /\ HoldersOK /\ AcceptedOK /\ CoveredOK /\ SerialsOK
    BY ServerTypesOK DEF ServerInv
  <1>11. /\ UNCHANGED <<server, kernel, serial, listener, client_threads, sessions>>
         /\ stopper.at = "take" /\ stopper' = [stopper EXCEPT !.at = "join", !.taken = takes_all]
         /\ slots' = [x \in Slots |-> [slots[x] EXCEPT !.socket_fd = Closed]]
    BY DEF server_takes
  <1>12. /\ \A t \in takes_all : /\ t[1] \in Slots /\ t[2] \in Descriptors /\ t[3] \in Serials
                                 /\ slots[t[1]].socket_fd = t[2] /\ t[3] = kernel[t[2]]
                                 /\ t = <<t[1], t[2], t[3]>>
         /\ \A x \in Slots : slots[x].socket_fd # Closed =>
               /\ slots[x].socket_fd \in Descriptors
               /\ <<x, slots[x].socket_fd, kernel[slots[x].socket_fd]>> \in takes_all
               /\ \E t \in takes_all : t[2] = slots[x].socket_fd
    <2>1. \A x \in Slots : slots[x].socket_fd # Closed =>
             slots[x].socket_fd \in Descriptors /\ kernel[slots[x].socket_fd] \in Serials
      BY <1>0 DEF ServerTypes, SlotState, Held
    <2>2. \A x \in Slots : slots[x].socket_fd # Closed =>
             <<x, slots[x].socket_fd, kernel[slots[x].socket_fd]>> \in takes_all
      BY DEF takes_all
    <2>3. ASSUME NEW t \in takes_all
          PROVE  /\ t[1] \in Slots /\ t[2] \in Descriptors /\ t[3] \in Serials
                 /\ slots[t[1]].socket_fd = t[2] /\ t[3] = kernel[t[2]] /\ t = <<t[1], t[2], t[3]>>
      <3>1. PICK x \in Slots : /\ slots[x].socket_fd # Closed
                               /\ t = <<x, slots[x].socket_fd, kernel[slots[x].socket_fd]>>
        BY <2>3 DEF takes_all
      <3> QED
        BY <2>1, <3>1
    <2>4. \A x \in Slots : <<x, slots[x].socket_fd, kernel[slots[x].socket_fd]>>[2] = slots[x].socket_fd
      OBVIOUS
    <2> QED
      BY <2>1, <2>2, <2>3, <2>4
  <1>13. takes_all \subseteq Slots \X Descriptors \X Serials
    BY <1>12
  <1>14. \A x \in Slots : /\ slots[x] \in SlotState /\ slots'[x] \in SlotState
                          /\ slots'[x].socket_fd = Closed
                          /\ slots'[x].thread_started = slots[x].thread_started
                          /\ slots'[x].finished = slots[x].finished
                          /\ slots'[x].active = slots[x].active
                          /\ slots'[x].reverse_session_id = slots[x].reverse_session_id
    BY <1>0, <1>11 DEF ServerTypes, SlotState, Held
  <1>15. /\ stopper' \in StopperState /\ stopper'.at = "join" /\ stopper'.taken = takes_all
         /\ stopper'.listen = stopper.listen
    BY <1>0, <1>11, <1>13 DEF ServerTypes, StopperState
  <1>16. slots' \in [Slots -> SlotState]
    BY <1>11, <1>14
  <1>1. ServerTypes'
    BY <1>0, <1>11, <1>15, <1>16 DEF ServerTypes
  <1>2. StopPhaseOK'
    BY <1>0, <1>11, <1>14, <1>15 DEF StopPhaseOK
  <1>3. SlotFlagsOK'
    BY <1>0, <1>11, <1>14 DEF SlotFlagsOK
  <1>4. HoldersOK'
    <2>1. \A t \in takes_all : /\ kernel[t[2]] = t[3] /\ t[3] # 0 /\ t[2] # Closed
      BY <1>0, <1>12, ServerFacts DEF HoldersOK, SlotFlagsOK, working, SlotsHold, HeldOnce, StopHolds, ThreadsHold
    <2>2. stopper.taken = {} /\ Closed \notin Descriptors
      BY <1>0, <1>11, ServerFacts DEF StopPhaseOK
    <2>3. SlotsHold' /\ HeldOnce'
      BY <1>14 DEF SlotsHold, HeldOnce
    <2>4. StopHolds'
      BY <1>11, <1>14, <1>15, <2>1 DEF StopHolds
    <2>5. ThreadsHold'
      <3>1. \A x \in Slots : working(x) /\ slots[x].socket_fd # Closed =>
               <<x, slots[x].socket_fd, client_threads[x].serial>> \in takes_all
        BY <1>0, <1>12 DEF HoldersOK, SlotsHold
      <3> QED
        BY <1>0, <1>11, <1>15, <2>2, <3>1 DEF HoldersOK, ThreadsHold, working
    <2> QED
      BY <2>3, <2>4, <2>5 DEF HoldersOK
  <1>5. AcceptedOK'
    BY <1>0, <1>11, <1>12, <1>14, <1>15, ServerFacts DEF AcceptedOK
  <1>6. CoveredOK'
    <2>1. \A d \in Descriptors : \A x \in Slots : slots[x].socket_fd = d => \E t \in takes_all : t[2] = d
      BY <1>12, ServerFacts
    <2>2. stopper.taken = {}
      BY <1>0, <1>11 DEF StopPhaseOK
    <2> QED
      BY <1>0, <1>11, <1>15, <2>1, <2>2 DEF CoveredOK
  <1>7. SerialsOK'
    BY <1>0, <1>11 DEF SerialsOK
  <1> QED
    BY <1>1, <1>2, <1>3, <1>4, <1>5, <1>6, <1>7, ServerTypesOK DEF ServerInv

\* airplay_server_stop, after the join.
LEMMA ServerStopped ==
    ASSUME ServerInv, server_stopped
    PROVE  ServerInv'
  <1>0. ServerTypes /\ StopPhaseOK /\ SlotFlagsOK /\ HoldersOK /\ AcceptedOK /\ CoveredOK /\ SerialsOK
    BY ServerTypesOK DEF ServerInv
  <1>1. ServerTypes'
    BY <1>0, ServerFacts, ServerRecords, CloseAll DEF server_stopped, ServerTypes, ServerState, SlotState, ListenerState, ThreadState, StopperState
  <1>2. StopPhaseOK'
    <2>1. \A d \in Descriptors : kernel'[d] = 0
      <3> SUFFICES ASSUME NEW d \in Descriptors PROVE kernel'[d] = 0
        OBVIOUS
      <3>1. kernel[d] # 0 => d \in {t[2] : t \in stopper.taken} \cup {stopper.listen}
        BY <1>0, ServerFacts DEF server_stopped, CoveredOK, StopPhaseOK
      <3> QED
        BY <1>0, <3>1, CloseAll DEF server_stopped
    <2>2. /\ listener' = listener /\ listener.at = "none" /\ stopper' = NotStopping
          /\ UNCHANGED <<slots, client_threads>>
          /\ \A x \in Slots : slots[x].socket_fd = Closed
      BY <1>0, ServerRecords DEF server_stopped, StopPhaseOK
    <2> QED
      BY <1>0, <2>1, <2>2, ServerRecords DEF StopPhaseOK
  <1>3. SlotFlagsOK'
    BY <1>1, <1>0, ServerFacts, ServerRecords, CloseAll DEF server_stopped, ServerTypes, ServerState, SlotState, ListenerState, ThreadState, StopperState, StopPhaseOK, SlotFlagsOK, HoldersOK, AcceptedOK, CoveredOK, SerialsOK, working, SlotsHold, HeldOnce, StopHolds, ThreadsHold
  <1>4. HoldersOK'
    BY <1>1, <1>0, ServerFacts, ServerRecords, CloseAll DEF server_stopped, ServerTypes, ServerState, SlotState, ListenerState, ThreadState, StopperState, StopPhaseOK, SlotFlagsOK, HoldersOK, AcceptedOK, CoveredOK, SerialsOK, working, SlotsHold, HeldOnce, StopHolds, ThreadsHold
  <1>5. AcceptedOK'
    BY <1>1, <1>0, ServerFacts, ServerRecords, CloseAll DEF server_stopped, ServerTypes, ServerState, SlotState, ListenerState, ThreadState, StopperState, StopPhaseOK, SlotFlagsOK, HoldersOK, AcceptedOK, CoveredOK, SerialsOK, working, SlotsHold, HeldOnce, StopHolds, ThreadsHold
  <1>6. CoveredOK'
    BY <1>1, <1>0, ServerFacts, ServerRecords, CloseAll DEF server_stopped, ServerTypes, ServerState, SlotState, ListenerState, ThreadState, StopperState, StopPhaseOK, SlotFlagsOK, HoldersOK, AcceptedOK, CoveredOK, SerialsOK, working, SlotsHold, HeldOnce, StopHolds, ThreadsHold
  <1>7. SerialsOK'
    BY <1>1, <1>0, ServerFacts, ServerRecords, CloseAll DEF server_stopped, ServerTypes, ServerState, SlotState, ListenerState, ThreadState, StopperState, StopPhaseOK, SlotFlagsOK, HoldersOK, AcceptedOK, CoveredOK, SerialsOK, working, SlotsHold, HeldOnce, StopHolds, ThreadsHold
  <1> QED
    BY <1>1, <1>2, <1>3, <1>4, <1>5, <1>6, <1>7, ServerTypesOK DEF ServerInv

\* select fails or times out.
LEMMA ListenerSelects ==
    ASSUME ServerInv, NEW failed \in BOOLEAN, listener_selects(failed)
    PROVE  ServerInv'
  <1>0. ServerTypes /\ StopPhaseOK /\ SlotFlagsOK /\ HoldersOK /\ AcceptedOK /\ CoveredOK /\ SerialsOK
    BY ServerTypesOK DEF ServerInv
  <1>1. ServerTypes'
    BY <1>0, ServerFacts, ServerRecords DEF listener_selects, ServerTypes, ServerState, SlotState, ListenerState, ThreadState, StopperState
  <1>2. StopPhaseOK'
    BY <1>1, <1>0, ServerFacts, ServerRecords DEF listener_selects, ServerTypes, ServerState, SlotState, ListenerState, ThreadState, StopperState, StopPhaseOK, SlotFlagsOK, HoldersOK, AcceptedOK, CoveredOK, SerialsOK, working, SlotsHold, HeldOnce, StopHolds, ThreadsHold
  <1>3. SlotFlagsOK'
    BY <1>1, <1>0, ServerFacts, ServerRecords DEF listener_selects, ServerTypes, ServerState, SlotState, ListenerState, ThreadState, StopperState, StopPhaseOK, SlotFlagsOK, HoldersOK, AcceptedOK, CoveredOK, SerialsOK, working, SlotsHold, HeldOnce, StopHolds, ThreadsHold
  <1>4. HoldersOK'
    BY <1>1, <1>0, ServerFacts, ServerRecords DEF listener_selects, ServerTypes, ServerState, SlotState, ListenerState, ThreadState, StopperState, StopPhaseOK, SlotFlagsOK, HoldersOK, AcceptedOK, CoveredOK, SerialsOK, working, SlotsHold, HeldOnce, StopHolds, ThreadsHold
  <1>5. AcceptedOK'
    BY <1>1, <1>0, ServerFacts, ServerRecords DEF listener_selects, ServerTypes, ServerState, SlotState, ListenerState, ThreadState, StopperState, StopPhaseOK, SlotFlagsOK, HoldersOK, AcceptedOK, CoveredOK, SerialsOK, working, SlotsHold, HeldOnce, StopHolds, ThreadsHold
  <1>6. CoveredOK'
    <2>1. /\ UNCHANGED <<slots, kernel, stopper>> /\ listener.at # "accepted"
          /\ server'.listen_socket = server.listen_socket
      BY <1>0 DEF listener_selects, ServerTypes, ServerState
    <2> QED
      BY <1>0, <2>1 DEF CoveredOK
  <1>7. SerialsOK'
    BY <1>1, <1>0, ServerFacts, ServerRecords DEF listener_selects, ServerTypes, ServerState, SlotState, ListenerState, ThreadState, StopperState, StopPhaseOK, SlotFlagsOK, HoldersOK, AcceptedOK, CoveredOK, SerialsOK, working, SlotsHold, HeldOnce, StopHolds, ThreadsHold
  <1> QED
    BY <1>1, <1>2, <1>3, <1>4, <1>5, <1>6, <1>7, ServerTypesOK DEF ServerInv

\* The loop of a client thread ends.
LEMMA ClientLeaves ==
    ASSUME ServerInv, NEW s \in Slots, client_leaves(s)
    PROVE  ServerInv'
  <1>0. ServerTypes /\ StopPhaseOK /\ SlotFlagsOK /\ HoldersOK /\ AcceptedOK /\ CoveredOK /\ SerialsOK
    BY ServerTypesOK DEF ServerInv
  <1>1. ServerTypes'
    BY <1>0, ServerFacts, ServerRecords, SMTT(30) DEF client_leaves, ServerTypes, ServerState, SlotState, ListenerState, ThreadState, StopperState
  <1>2. StopPhaseOK'
    BY <1>1, <1>0, ServerFacts, ServerRecords DEF client_leaves, ServerTypes, ServerState, SlotState, ListenerState, ThreadState, StopperState, StopPhaseOK, SlotFlagsOK, HoldersOK, AcceptedOK, CoveredOK, SerialsOK, working, SlotsHold, HeldOnce, StopHolds, ThreadsHold
  <1>3. SlotFlagsOK'
    BY <1>1, <1>0, ServerFacts, ServerRecords DEF client_leaves, ServerTypes, ServerState, SlotState, ListenerState, ThreadState, StopperState, StopPhaseOK, SlotFlagsOK, HoldersOK, AcceptedOK, CoveredOK, SerialsOK, working, SlotsHold, HeldOnce, StopHolds, ThreadsHold
  <1>4. HoldersOK'
    BY <1>1, <1>0, ServerFacts, ServerRecords DEF client_leaves, ServerTypes, ServerState, SlotState, ListenerState, ThreadState, StopperState, StopPhaseOK, SlotFlagsOK, HoldersOK, AcceptedOK, CoveredOK, SerialsOK, working, SlotsHold, HeldOnce, StopHolds, ThreadsHold
  <1>5. AcceptedOK'
    BY <1>1, <1>0, ServerFacts, ServerRecords DEF client_leaves, ServerTypes, ServerState, SlotState, ListenerState, ThreadState, StopperState, StopPhaseOK, SlotFlagsOK, HoldersOK, AcceptedOK, CoveredOK, SerialsOK, working, SlotsHold, HeldOnce, StopHolds, ThreadsHold
  <1>6. CoveredOK'
    BY <1>1, <1>0, ServerFacts, ServerRecords DEF client_leaves, ServerTypes, ServerState, SlotState, ListenerState, ThreadState, StopperState, StopPhaseOK, SlotFlagsOK, HoldersOK, AcceptedOK, CoveredOK, SerialsOK, working, SlotsHold, HeldOnce, StopHolds, ThreadsHold
  <1>7. SerialsOK'
    BY <1>1, <1>0, ServerFacts, ServerRecords DEF client_leaves, ServerTypes, ServerState, SlotState, ListenerState, ThreadState, StopperState, StopPhaseOK, SlotFlagsOK, HoldersOK, AcceptedOK, CoveredOK, SerialsOK, working, SlotsHold, HeldOnce, StopHolds, ThreadsHold
  <1> QED
    BY <1>1, <1>2, <1>3, <1>4, <1>5, <1>6, <1>7, ServerTypesOK DEF ServerInv

\* A client thread reads its slot.
LEMMA ClientEnters ==
    ASSUME ServerInv, NEW s \in Slots, NEW initialised \in BOOLEAN, client_enters(s, initialised)
    PROVE  ServerInv'
  <1>0. ServerTypes /\ StopPhaseOK /\ SlotFlagsOK /\ HoldersOK /\ AcceptedOK /\ CoveredOK /\ SerialsOK
    BY ServerTypesOK DEF ServerInv
  <1>11. /\ UNCHANGED <<server, slots, kernel, serial, listener, stopper>>
         /\ client_threads[s].at = "enter" /\ client_threads[s].serial \in SessionNumbers
         /\ sessions[client_threads[s].serial].begun = 0
         /\ sessions[client_threads[s].serial].closed = 0
    BY <1>0, ServerFacts DEF client_enters, SerialsOK, ServerTypes
  <1>12. /\ \A x \in Slots : client_threads'[x].serial = client_threads[x].serial
         /\ \A x \in Slots : x # s => client_threads'[x] = client_threads[x]
         /\ client_threads'[s].at = (IF initialised THEN "serve" ELSE "finish")
         /\ client_threads'[s].fd = slots[s].socket_fd /\ client_threads'[s].session = initialised
    BY <1>0 DEF client_enters, ServerTypes, ThreadState
  <1>13. sessions' \in [SessionNumbers -> SessionState]
    BY <1>0, <1>11, ServerFacts DEF client_enters, ServerTypes, SessionState
  <1>14. /\ \A n \in SessionNumbers : n # client_threads[s].serial => sessions'[n] = sessions[n]
         /\ initialised => sessions'[client_threads[s].serial].begun = 1
         /\ ~initialised => sessions' = sessions
         /\ sessions'[client_threads[s].serial].closed = 0
    BY <1>0, <1>11, ServerFacts DEF client_enters, ServerTypes, SessionState
  <1>1. ServerTypes'
    <2>1. client_threads' \in [Slots -> ThreadState]
      <3>1. client_threads[s] \in ThreadState /\ slots[s].socket_fd \in Held
        BY <1>0 DEF ServerTypes, SlotState
      <3>2. \A at \in {"serve", "finish"} : [client_threads[s] EXCEPT !.at = at,
               !.fd = slots[s].socket_fd, !.session = initialised] \in ThreadState
        BY <3>1 DEF ThreadState
      <3>3. [client_threads[s] EXCEPT !.at = IF initialised THEN "serve" ELSE "finish",
               !.fd = slots[s].socket_fd, !.session = initialised] \in ThreadState
        BY <3>2
      <3> QED
        BY <1>0, <3>3 DEF client_enters, ServerTypes
    <2> QED
      BY <1>0, <1>11, <1>13, <2>1 DEF ServerTypes
  <1>2. StopPhaseOK'
    BY <1>1, <1>0, ServerFacts, ServerRecords DEF client_enters, ServerTypes, ServerState, SlotState, ListenerState, ThreadState, StopperState, StopPhaseOK, SlotFlagsOK, HoldersOK, AcceptedOK, CoveredOK, SerialsOK, working, SlotsHold, HeldOnce, StopHolds, ThreadsHold
  <1>3. SlotFlagsOK'
    BY <1>1, <1>0, ServerFacts, ServerRecords, SMTT(30) DEF client_enters, ServerTypes, ServerState, SlotState, ListenerState, ThreadState, StopperState, StopPhaseOK, SlotFlagsOK, HoldersOK, AcceptedOK, CoveredOK, SerialsOK, working, SlotsHold, HeldOnce, StopHolds, ThreadsHold
  <1>4. HoldersOK'
    BY <1>1, <1>0, ServerFacts, ServerRecords DEF client_enters, ServerTypes, ServerState, SlotState, ListenerState, ThreadState, StopperState, StopPhaseOK, SlotFlagsOK, HoldersOK, AcceptedOK, CoveredOK, SerialsOK, working, SlotsHold, HeldOnce, StopHolds, ThreadsHold
  <1>5. AcceptedOK'
    BY <1>1, <1>0, ServerFacts, ServerRecords DEF client_enters, ServerTypes, ServerState, SlotState, ListenerState, ThreadState, StopperState, StopPhaseOK, SlotFlagsOK, HoldersOK, AcceptedOK, CoveredOK, SerialsOK, working, SlotsHold, HeldOnce, StopHolds, ThreadsHold
  <1>6. CoveredOK'
    BY <1>1, <1>0, ServerFacts, ServerRecords DEF client_enters, ServerTypes, ServerState, SlotState, ListenerState, ThreadState, StopperState, StopPhaseOK, SlotFlagsOK, HoldersOK, AcceptedOK, CoveredOK, SerialsOK, working, SlotsHold, HeldOnce, StopHolds, ThreadsHold
  <1>7. SerialsOK'
    <2>1. \A x \in Slots : client_threads[x].at # "none" => client_threads[x].serial \in SessionNumbers
      BY <1>0, ServerFacts DEF SerialsOK, ServerTypes
    <2>2. \A n \in SessionNumbers :
            /\ n > serial' => sessions'[n].begun = 0 /\ sessions'[n].closed = 0
            /\ sessions'[n].begun # sessions'[n].closed =>
                  \E x \in Slots : /\ client_threads'[x].at \in {"serve", "finish"}
                                   /\ client_threads'[x].session /\ client_threads'[x].serial = n
      <3> SUFFICES ASSUME NEW n \in SessionNumbers
                   PROVE  /\ n > serial' => sessions'[n].begun = 0 /\ sessions'[n].closed = 0
                          /\ sessions'[n].begun # sessions'[n].closed =>
                               \E x \in Slots : /\ client_threads'[x].at \in {"serve", "finish"}
                                   /\ client_threads'[x].session /\ client_threads'[x].serial = n
        OBVIOUS
      <3>1. CASE n = client_threads[s].serial
        <4>1. ~(n > serial)
          BY <1>0, <1>11, <3>1, ServerFacts DEF SerialsOK, ServerTypes
        <4> QED
          BY <1>11, <1>12, <1>14, <3>1, <4>1
      <3>2. CASE n # client_threads[s].serial
        <4>1. sessions'[n] = sessions[n]
          BY <1>14, <3>2
        <4>2. \A x \in Slots : client_threads[x].serial = n => client_threads'[x] = client_threads[x]
          BY <1>12, <3>2
        <4> QED
          BY <1>0, <1>11, <4>1, <4>2 DEF SerialsOK, SessionNumbers
      <3> QED
        BY <3>1, <3>2
    <2> QED
      BY <1>0, <1>11, <1>12, <1>14, <2>1, <2>2 DEF SerialsOK, SessionNumbers
  <1> QED
    BY <1>1, <1>2, <1>3, <1>4, <1>5, <1>6, <1>7, ServerTypesOK DEF ServerInv

\* A client thread closes its session.
LEMMA ClientUnregisters ==
    ASSUME ServerInv, NEW s \in Slots, client_unregisters(s)
    PROVE  ServerInv'
  <1>0. ServerTypes /\ StopPhaseOK /\ SlotFlagsOK /\ HoldersOK /\ AcceptedOK /\ CoveredOK /\ SerialsOK
    BY ServerTypesOK DEF ServerInv
  <1>11. /\ UNCHANGED <<server, kernel, serial, listener, stopper>>
         /\ client_threads[s].at = "finish" /\ client_threads[s].serial \in SessionNumbers
         /\ client_threads[s].session => /\ sessions[client_threads[s].serial].begun = 1
                                         /\ sessions[client_threads[s].serial].closed = 0
    BY <1>0, ServerFacts DEF client_unregisters, SerialsOK, ServerTypes
  <1>12. sessions' \in [SessionNumbers -> SessionState]
    BY <1>0, <1>11, ServerFacts DEF client_unregisters, ServerTypes, SessionState
  <1>13. slots' \in [Slots -> SlotState] /\ client_threads' \in [Slots -> ThreadState]
    BY <1>0 DEF client_unregisters, ServerTypes, SlotState, ThreadState
  <1>1. ServerTypes'
    BY <1>0, <1>11, <1>12, <1>13 DEF ServerTypes
  <1>2. StopPhaseOK'
    BY <1>1, <1>0, ServerFacts, ServerRecords DEF client_unregisters, ServerTypes, ServerState, SlotState, ListenerState, ThreadState, StopperState, StopPhaseOK, SlotFlagsOK, HoldersOK, AcceptedOK, CoveredOK, SerialsOK, working, SlotsHold, HeldOnce, StopHolds, ThreadsHold
  <1>3. SlotFlagsOK'
    BY <1>1, <1>0, ServerFacts, ServerRecords DEF client_unregisters, ServerTypes, ServerState, SlotState, ListenerState, ThreadState, StopperState, StopPhaseOK, SlotFlagsOK, HoldersOK, AcceptedOK, CoveredOK, SerialsOK, working, SlotsHold, HeldOnce, StopHolds, ThreadsHold
  <1>4. HoldersOK'
    BY <1>1, <1>0, ServerFacts, ServerRecords DEF client_unregisters, ServerTypes, ServerState, SlotState, ListenerState, ThreadState, StopperState, StopPhaseOK, SlotFlagsOK, HoldersOK, AcceptedOK, CoveredOK, SerialsOK, working, SlotsHold, HeldOnce, StopHolds, ThreadsHold
  <1>5. AcceptedOK'
    BY <1>1, <1>0, ServerFacts, ServerRecords DEF client_unregisters, ServerTypes, ServerState, SlotState, ListenerState, ThreadState, StopperState, StopPhaseOK, SlotFlagsOK, HoldersOK, AcceptedOK, CoveredOK, SerialsOK, working, SlotsHold, HeldOnce, StopHolds, ThreadsHold
  <1>6. CoveredOK'
    BY <1>1, <1>0, ServerFacts, ServerRecords, SMTT(30) DEF client_unregisters, ServerTypes, ServerState, SlotState, ListenerState, ThreadState, StopperState, StopPhaseOK, SlotFlagsOK, HoldersOK, AcceptedOK, CoveredOK, SerialsOK, working, SlotsHold, HeldOnce, StopHolds, ThreadsHold
  <1>7. SerialsOK'
    BY <1>1, <1>0, ServerFacts, ServerRecords DEF client_unregisters, ServerTypes, ServerState, SlotState, ListenerState, ThreadState, StopperState, StopPhaseOK, SlotFlagsOK, HoldersOK, AcceptedOK, CoveredOK, SerialsOK, working, SlotsHold, HeldOnce, StopHolds, ThreadsHold
  <1> QED
    BY <1>1, <1>2, <1>3, <1>4, <1>5, <1>6, <1>7, ServerTypesOK DEF ServerInv

\* A client thread closes its socket.
LEMMA ClientCloses ==
    ASSUME ServerInv, NEW s \in Slots, client_closes(s)
    PROVE  ServerInv'
  <1>0. ServerTypes /\ StopPhaseOK /\ SlotFlagsOK /\ HoldersOK /\ AcceptedOK /\ CoveredOK /\ SerialsOK
    BY ServerTypesOK DEF ServerInv
  <1>11. slots' \in [Slots -> SlotState] /\ client_threads' \in [Slots -> ThreadState]
    <2>1. [slots[s] EXCEPT !.socket_fd = Closed, !.active = FALSE, !.finished = TRUE] \in SlotState
      BY <1>0 DEF ServerTypes, SlotState, Held
    <2>2. [client_threads[s] EXCEPT !.at = "exit"] \in ThreadState
      BY <1>0 DEF ServerTypes, ThreadState
    <2> QED
      BY <1>0, <2>1, <2>2 DEF client_closes, ServerTypes
  <1>1. ServerTypes'
    BY <1>0, <1>11, CloseAll DEF client_closes, ServerTypes
  <1>2. StopPhaseOK'
    BY <1>1, <1>0, ServerFacts, ServerRecords, CloseAll DEF client_closes, ServerTypes, ServerState, SlotState, ListenerState, ThreadState, StopperState, StopPhaseOK, SlotFlagsOK, HoldersOK, AcceptedOK, CoveredOK, SerialsOK, working, SlotsHold, HeldOnce, StopHolds, ThreadsHold
  <1>3. SlotFlagsOK'
    BY <1>1, <1>0, ServerFacts, ServerRecords, CloseAll DEF client_closes, ServerTypes, ServerState, SlotState, ListenerState, ThreadState, StopperState, StopPhaseOK, SlotFlagsOK, HoldersOK, AcceptedOK, CoveredOK, SerialsOK, working, SlotsHold, HeldOnce, StopHolds, ThreadsHold
  <1>12. /\ UNCHANGED <<server, serial, listener, stopper, sessions>> /\ client_threads[s].at = "close"
         /\ \A x \in Slots : x # s => slots'[x] = slots[x] /\ client_threads'[x] = client_threads[x]
         /\ slots'[s].socket_fd = Closed /\ client_threads'[s].at = "exit"
         /\ \A d \in Descriptors : d # slots[s].socket_fd => kernel'[d] = kernel[d]
         /\ \A d \in Descriptors : d = slots[s].socket_fd => kernel'[d] = 0
    BY <1>0, CloseAll DEF client_closes, ServerTypes, SlotState, ThreadState
  <1>13. /\ \A x \in Slots : slots[x].socket_fd # Closed => slots[x].socket_fd \in Descriptors
         /\ \A x \in Slots : client_threads[x].fd # Closed => client_threads[x].fd \in Descriptors
         /\ \A t \in stopper.taken : t[2] \in Descriptors
    BY <1>0 DEF ServerTypes, SlotState, ThreadState, StopperState, Held
  <1>4. HoldersOK'
    <2>1. \A x \in Slots : slots'[x].socket_fd # Closed =>
             /\ x # s /\ slots'[x] = slots[x]
             /\ kernel'[slots[x].socket_fd] = kernel[slots[x].socket_fd]
      BY <1>0, <1>12, <1>13 DEF HoldersOK, HeldOnce
    <2>2. SlotsHold'
      BY <1>0, <1>12, <2>1 DEF HoldersOK, SlotsHold, working
    <2>3. HeldOnce'
      BY <1>0, <2>1 DEF HoldersOK, HeldOnce
    <2>4. StopHolds'
      BY <1>0, <1>12, <1>13, ServerFacts DEF HoldersOK, StopHolds
    <2>5. ThreadsHold'
      <3> SUFFICES ASSUME NEW x \in Slots, x # s, working(x), client_threads[x].fd # Closed
                   PROVE  \/ slots[x].socket_fd = client_threads[x].fd
                          \/ <<x, client_threads[x].fd, client_threads[x].serial>> \in stopper.taken
                          \/ listener.at = "join" /\ kernel'[client_threads[x].fd] = 0
        BY <1>12 DEF ThreadsHold, working
      <3> QED
        BY <1>0, <1>12, <1>13 DEF HoldersOK, ThreadsHold
    <2> QED
      BY <2>2, <2>3, <2>4, <2>5 DEF HoldersOK
  <1>5. AcceptedOK'
    BY <1>1, <1>0, ServerFacts, ServerRecords, CloseAll DEF client_closes, ServerTypes, ServerState, SlotState, ListenerState, ThreadState, StopperState, StopPhaseOK, SlotFlagsOK, HoldersOK, AcceptedOK, CoveredOK, SerialsOK, working, SlotsHold, HeldOnce, StopHolds, ThreadsHold
  <1>6. CoveredOK'
    <2>1. \A d \in Descriptors : kernel'[d] # 0 => kernel[d] # 0 /\ d # slots[s].socket_fd
      BY <1>12
    <2>2. \A x \in Slots : x # s => slots'[x].socket_fd = slots[x].socket_fd
      BY <1>12
    <2> QED
      BY <1>0, <1>12, <2>1, <2>2 DEF CoveredOK
  <1>7. SerialsOK'
    BY <1>1, <1>0, ServerFacts, ServerRecords, CloseAll DEF client_closes, ServerTypes, ServerState, SlotState, ListenerState, ThreadState, StopperState, StopPhaseOK, SlotFlagsOK, HoldersOK, AcceptedOK, CoveredOK, SerialsOK, working, SlotsHold, HeldOnce, StopHolds, ThreadsHold
  <1> QED
    BY <1>1, <1>2, <1>3, <1>4, <1>5, <1>6, <1>7, ServerTypesOK DEF ServerInv

\* A connection becomes a reverse one.
LEMMA ClientRegisters ==
    ASSUME ServerInv, NEW s \in Slots, NEW id \in LogicalIds, client_registers(s, id)
    PROVE  ServerInv'
  <1>0. ServerTypes /\ StopPhaseOK /\ SlotFlagsOK /\ HoldersOK /\ AcceptedOK /\ CoveredOK /\ SerialsOK
    BY ServerTypesOK DEF ServerInv
  <1>11. slots' \in [Slots -> SlotState]
    BY <1>0 DEF client_registers, register_reverse, ServerTypes, SlotState
  <1>1. ServerTypes'
    BY <1>0, <1>11 DEF client_registers, ServerTypes
  <1>2. StopPhaseOK'
    BY <1>1, <1>0, ServerFacts, ServerRecords DEF client_registers, register_reverse, ServerTypes, ServerState, SlotState, ListenerState, ThreadState, StopperState, StopPhaseOK, SlotFlagsOK, HoldersOK, AcceptedOK, CoveredOK, SerialsOK, working, SlotsHold, HeldOnce, StopHolds, ThreadsHold
  <1>3. SlotFlagsOK'
    BY <1>1, <1>0, ServerFacts, ServerRecords DEF client_registers, register_reverse, ServerTypes, ServerState, SlotState, ListenerState, ThreadState, StopperState, StopPhaseOK, SlotFlagsOK, HoldersOK, AcceptedOK, CoveredOK, SerialsOK, working, SlotsHold, HeldOnce, StopHolds, ThreadsHold
  <1>4. HoldersOK'
    BY <1>1, <1>0, ServerFacts, ServerRecords DEF client_registers, register_reverse, ServerTypes, ServerState, SlotState, ListenerState, ThreadState, StopperState, StopPhaseOK, SlotFlagsOK, HoldersOK, AcceptedOK, CoveredOK, SerialsOK, working, SlotsHold, HeldOnce, StopHolds, ThreadsHold
  <1>5. AcceptedOK'
    BY <1>1, <1>0, ServerFacts, ServerRecords DEF client_registers, register_reverse, ServerTypes, ServerState, SlotState, ListenerState, ThreadState, StopperState, StopPhaseOK, SlotFlagsOK, HoldersOK, AcceptedOK, CoveredOK, SerialsOK, working, SlotsHold, HeldOnce, StopHolds, ThreadsHold
  <1>6. CoveredOK'
    BY <1>1, <1>0, ServerFacts, ServerRecords, SMTT(30) DEF client_registers, register_reverse, ServerTypes, ServerState, SlotState, ListenerState, ThreadState, StopperState, StopPhaseOK, SlotFlagsOK, HoldersOK, AcceptedOK, CoveredOK, SerialsOK, working, SlotsHold, HeldOnce, StopHolds, ThreadsHold
  <1>7. SerialsOK'
    BY <1>1, <1>0, ServerFacts, ServerRecords DEF client_registers, register_reverse, ServerTypes, ServerState, SlotState, ListenerState, ThreadState, StopperState, StopPhaseOK, SlotFlagsOK, HoldersOK, AcceptedOK, CoveredOK, SerialsOK, working, SlotsHold, HeldOnce, StopHolds, ThreadsHold
  <1> QED
    BY <1>1, <1>2, <1>3, <1>4, <1>5, <1>6, <1>7, ServerTypesOK DEF ServerInv

\* A reverse connection is given up.
LEMMA ReverseSendFails ==
    ASSUME ServerInv, NEW id \in LogicalIds, reverse_send_fails(id)
    PROVE  ServerInv'
  <1>0. ServerTypes /\ StopPhaseOK /\ SlotFlagsOK /\ HoldersOK /\ AcceptedOK /\ CoveredOK /\ SerialsOK
    BY ServerTypesOK DEF ServerInv
  <1>1. ServerTypes'
    BY <1>0, ServerFacts, ServerRecords DEF reverse_send_fails, ServerTypes, ServerState, SlotState, ListenerState, ThreadState, StopperState
  <1>2. StopPhaseOK'
    BY <1>1, <1>0, ServerFacts, ServerRecords DEF reverse_send_fails, ServerTypes, ServerState, SlotState, ListenerState, ThreadState, StopperState, StopPhaseOK, SlotFlagsOK, HoldersOK, AcceptedOK, CoveredOK, SerialsOK, working, SlotsHold, HeldOnce, StopHolds, ThreadsHold
  <1>3. SlotFlagsOK'
    BY <1>1, <1>0, ServerFacts, ServerRecords DEF reverse_send_fails, ServerTypes, ServerState, SlotState, ListenerState, ThreadState, StopperState, StopPhaseOK, SlotFlagsOK, HoldersOK, AcceptedOK, CoveredOK, SerialsOK, working, SlotsHold, HeldOnce, StopHolds, ThreadsHold
  <1>4. HoldersOK'
    BY <1>1, <1>0, ServerFacts, ServerRecords DEF reverse_send_fails, ServerTypes, ServerState, SlotState, ListenerState, ThreadState, StopperState, StopPhaseOK, SlotFlagsOK, HoldersOK, AcceptedOK, CoveredOK, SerialsOK, working, SlotsHold, HeldOnce, StopHolds, ThreadsHold
  <1>5. AcceptedOK'
    BY <1>1, <1>0, ServerFacts, ServerRecords DEF reverse_send_fails, ServerTypes, ServerState, SlotState, ListenerState, ThreadState, StopperState, StopPhaseOK, SlotFlagsOK, HoldersOK, AcceptedOK, CoveredOK, SerialsOK, working, SlotsHold, HeldOnce, StopHolds, ThreadsHold
  <1>6. CoveredOK'
    BY <1>1, <1>0, ServerFacts, ServerRecords DEF reverse_send_fails, ServerTypes, ServerState, SlotState, ListenerState, ThreadState, StopperState, StopPhaseOK, SlotFlagsOK, HoldersOK, AcceptedOK, CoveredOK, SerialsOK, working, SlotsHold, HeldOnce, StopHolds, ThreadsHold
  <1>7. SerialsOK'
    BY <1>1, <1>0, ServerFacts, ServerRecords DEF reverse_send_fails, ServerTypes, ServerState, SlotState, ListenerState, ThreadState, StopperState, StopPhaseOK, SlotFlagsOK, HoldersOK, AcceptedOK, CoveredOK, SerialsOK, working, SlotsHold, HeldOnce, StopHolds, ThreadsHold
  <1> QED
    BY <1>1, <1>2, <1>3, <1>4, <1>5, <1>6, <1>7, ServerTypesOK DEF ServerInv

\* airplay_server_reap_clients: what joining the finished threads changes.
LEMMA ReapClients ==
    ASSUME ServerTypes, SlotFlagsOK, reap_clients
    PROVE  /\ slots' \in [Slots -> SlotState] /\ client_threads' \in [Slots -> ThreadState]
           /\ \A x \in Slots : /\ slots'[x].socket_fd = slots[x].socket_fd
                               /\ slots'[x].reverse_session_id = slots[x].reverse_session_id
           /\ \A x \in Slots : client_threads[x].at # "exit" =>
                 slots'[x] = slots[x] /\ client_threads'[x] = client_threads[x]
           /\ \A x \in Slots : client_threads[x].at = "exit" =>
                 /\ ~slots'[x].thread_started /\ ~slots'[x].finished
                 /\ client_threads'[x] = NoClient
  <1>1. \A x \in Slots : x \in reapable <=> client_threads[x].at = "exit"
    BY DEF reapable, SlotFlagsOK
  <1>2. ASSUME NEW x \in Slots
        PROVE  [slots[x] EXCEPT !.thread_started = FALSE, !.finished = FALSE] \in SlotState
    BY DEF ServerTypes, SlotState
  <1>3. slots' \in [Slots -> SlotState] /\ client_threads' \in [Slots -> ThreadState]
    BY <1>2, ServerRecords DEF reap_clients, ServerTypes
  <1> QED
    BY <1>1, <1>3 DEF reap_clients, ServerTypes, SlotState

\* The listener thread looks whether it goes on.
LEMMA ListenerPolls ==
    ASSUME ServerInv, listener_polls
    PROVE  ServerInv'
  <1>0. ServerTypes /\ StopPhaseOK /\ SlotFlagsOK /\ HoldersOK /\ AcceptedOK /\ CoveredOK /\ SerialsOK
    BY ServerTypesOK DEF ServerInv
  <1>11. /\ UNCHANGED <<kernel, serial, stopper, sessions>>
         /\ server' \in ServerState /\ server'.listener_started = server.listener_started
         /\ server'.listen_socket = server.listen_socket /\ (~server.running => ~server'.running)
         /\ listener' \in ListenerState /\ listener.at = "poll"
         /\ listener'.at \in {"select", "finish"} /\ (listener'.at = "select" => server'.running)
    BY <1>0 DEF listener_polls, ServerTypes, ServerState, ListenerState
  <1>12. \/ UNCHANGED <<slots, client_threads>>
         \/ reap_clients
    BY DEF listener_polls
  <1>13. /\ slots' \in [Slots -> SlotState] /\ client_threads' \in [Slots -> ThreadState]
         /\ \A x \in Slots : /\ slots'[x].socket_fd = slots[x].socket_fd
                             /\ slots'[x].reverse_session_id = slots[x].reverse_session_id
         /\ \A x \in Slots : \/ slots'[x] = slots[x] /\ client_threads'[x] = client_threads[x]
                             \/ /\ ~slots'[x].thread_started /\ ~slots'[x].finished
                                /\ client_threads[x].at = "exit" /\ client_threads'[x] = NoClient
    BY <1>0, <1>12, ReapClients DEF ServerTypes
  <1>1. ServerTypes'
    BY <1>0, <1>11, <1>13 DEF ServerTypes
  <1>2. StopPhaseOK'
    BY <1>0, <1>1, <1>11, <1>13, ServerFacts, ServerRecords DEF StopPhaseOK
  <1>3. SlotFlagsOK'
    BY <1>0, <1>1, <1>11, <1>13, ServerFacts, ServerRecords DEF SlotFlagsOK
  <1>4. HoldersOK'
    <2>1. \A x \in Slots : client_threads'[x].at \in {"enter", "serve", "finish", "close"} =>
             client_threads'[x] = client_threads[x]
      BY <1>11, <1>13, ServerRecords
    <2>2. SlotsHold'
      BY <1>0, <2>1, <1>11, <1>13 DEF HoldersOK, SlotsHold, working
    <2>3. HeldOnce'
      BY <1>0, <1>11, <1>13 DEF HoldersOK, HeldOnce
    <2>4. StopHolds'
      BY <1>0, <2>1, <1>11, <1>13 DEF HoldersOK, StopHolds, working, ServerTypes, StopperState
    <2>5. ThreadsHold'
      BY <1>0, <2>1, <1>11, <1>13 DEF HoldersOK, ThreadsHold, working
    <2> QED
      BY <2>2, <2>3, <2>4, <2>5 DEF HoldersOK
  <1>5. AcceptedOK'
    BY <1>0, <1>1, <1>11, <1>13, ServerFacts, ServerRecords DEF AcceptedOK
  <1>6. CoveredOK'
    BY <1>0, <1>1, <1>11, <1>13, ServerFacts, ServerRecords DEF CoveredOK, StopPhaseOK
  <1>7. SerialsOK'
    BY <1>0, <1>1, <1>11, <1>13, ServerFacts, ServerRecords DEF SerialsOK
  <1> QED
    BY <1>1, <1>2, <1>3, <1>4, <1>5, <1>6, <1>7, ServerTypesOK DEF ServerInv

\* A connection is turned away.
LEMMA ListenerRejects ==
    ASSUME ServerInv, NEW pool, listener_rejects(pool)
    PROVE  ServerInv'
  <1>0. ServerTypes /\ StopPhaseOK /\ SlotFlagsOK /\ HoldersOK /\ AcceptedOK /\ CoveredOK /\ SerialsOK
    BY ServerTypesOK DEF ServerInv
  <1>11. /\ UNCHANGED <<server, serial, stopper, sessions>>
         /\ kernel' = close_all({listener.fd}) /\ listener.at = "accepted"
         /\ listener' \in ListenerState /\ listener'.at \in {"poll", "finish"}
    BY <1>0, ServerRecords DEF listener_rejects, ServerTypes, ListenerState
  <1>12. \/ UNCHANGED <<slots, client_threads>>
         \/ reap_clients
    BY DEF listener_rejects
  <1>13. /\ slots' \in [Slots -> SlotState] /\ client_threads' \in [Slots -> ThreadState]
         /\ \A x \in Slots : /\ slots'[x].socket_fd = slots[x].socket_fd
                             /\ slots'[x].reverse_session_id = slots[x].reverse_session_id
         /\ \A x \in Slots : \/ slots'[x] = slots[x] /\ client_threads'[x] = client_threads[x]
                             \/ /\ ~slots'[x].thread_started /\ ~slots'[x].finished
                                /\ client_threads[x].at = "exit" /\ client_threads'[x] = NoClient
    BY <1>0, <1>12, ReapClients DEF ServerTypes
  <1>14. /\ kernel' \in [Descriptors -> Serials] /\ listener.fd \in Descriptors
         /\ kernel'[listener.fd] = 0
         /\ \A d \in Descriptors : d # listener.fd => kernel'[d] = kernel[d]
         /\ \A x \in Slots : slots[x].socket_fd # listener.fd
         /\ \A t \in stopper.taken : t[2] # listener.fd /\ t[2] \in Descriptors
    BY <1>0, <1>11, CloseAll DEF AcceptedOK, ServerTypes, StopperState
  <1>15. \A x \in Slots : /\ slots[x].socket_fd # Closed => slots[x].socket_fd \in Descriptors
                          /\ client_threads[x].fd # Closed => client_threads[x].fd \in Descriptors
    BY <1>0 DEF ServerTypes, SlotState, ThreadState, Held
  <1>1. ServerTypes'
    BY <1>0, <1>11, <1>13, <1>14 DEF ServerTypes
  <1>2. StopPhaseOK'
    BY <1>0, <1>1, <1>11, <1>13, <1>14, <1>15, ServerFacts, ServerRecords DEF StopPhaseOK
  <1>3. SlotFlagsOK'
    BY <1>0, <1>1, <1>11, <1>13, ServerFacts, ServerRecords DEF SlotFlagsOK
  <1>4. HoldersOK'
    <2>1. \A x \in Slots : client_threads'[x].at \in {"enter", "serve", "finish", "close"} \/
                           client_threads[x].at \in {"enter", "serve", "finish", "close"} =>
             client_threads'[x] = client_threads[x]
      BY <1>13, ServerRecords
    <2>2. SlotsHold'
      <3> SUFFICES ASSUME NEW x \in Slots, slots[x].socket_fd # Closed
                   PROVE  /\ kernel'[slots[x].socket_fd] # 0
                          /\ client_threads'[x].at \in {"enter", "serve", "finish", "close"}
                          /\ client_threads'[x].serial = kernel'[slots[x].socket_fd]
        BY <1>13 DEF SlotsHold, working
      <3>1. kernel'[slots[x].socket_fd] = kernel[slots[x].socket_fd]
        BY <1>14, <1>15
      <3>2. working(x)
        BY <1>0, <1>11 DEF HoldersOK, SlotsHold
      <3> QED
        BY <1>0, <2>1, <3>1, <3>2 DEF HoldersOK, SlotsHold, working
    <2>3. HeldOnce'
      BY <1>0, <1>13 DEF HoldersOK, HeldOnce
    <2>4. StopHolds'
      <3> SUFFICES ASSUME NEW t \in stopper.taken
                   PROVE  /\ kernel'[t[2]] = t[3] /\ t[3] # 0
                          /\ \A x \in Slots : slots'[x].socket_fd # t[2]
        BY <1>11 DEF StopHolds
      <3>1. kernel'[t[2]] = kernel[t[2]]
        BY <1>14
      <3> QED
        BY <1>0, <1>13, <3>1 DEF HoldersOK, StopHolds
    <2>5. ThreadsHold'
      BY <1>0, <2>1, <1>11, <1>13, <1>14, <1>15 DEF HoldersOK, ThreadsHold, working
    <2> QED
      BY <2>2, <2>3, <2>4, <2>5 DEF HoldersOK
  <1>5. AcceptedOK'
    BY <1>0, <1>1, <1>11, <1>13, ServerFacts, ServerRecords DEF AcceptedOK
  <1>6. CoveredOK'
    <2>1. \A d \in Descriptors : kernel'[d] # 0 => kernel[d] # 0 /\ d # listener.fd
      BY <1>14
    <2> SUFFICES ASSUME NEW d \in Descriptors, kernel'[d] # 0
                 PROVE  \/ d \in {server.listen_socket, stopper.listen}
                        \/ \E x \in Slots : slots'[x].socket_fd = d
                        \/ \E t \in stopper.taken : t[2] = d
      BY <1>11 DEF CoveredOK
    <2> QED
      BY <1>0, <1>11, <1>13, <2>1 DEF CoveredOK
  <1>7. SerialsOK'
    BY <1>0, <1>1, <1>11, <1>13, ServerFacts, ServerRecords DEF SerialsOK
  <1> QED
    BY <1>1, <1>2, <1>3, <1>4, <1>5, <1>6, <1>7, ServerTypesOK DEF ServerInv

\* airplay_server_finish_clients joins the threads.
LEMMA FinishJoins ==
    ASSUME ServerInv, finish_clients_joins
    PROVE  ServerInv'
  <1>0. ServerTypes /\ StopPhaseOK /\ SlotFlagsOK /\ HoldersOK /\ AcceptedOK /\ CoveredOK /\ SerialsOK
    BY ServerTypesOK DEF ServerInv
  <1>11. slots' \in [Slots -> SlotState]
    BY <1>0, ServerRecords DEF finish_clients_joins, ServerTypes, SlotState
  <1>1. ServerTypes'
    BY <1>0, <1>11, ServerRecords DEF finish_clients_joins, ServerTypes
  <1>2. StopPhaseOK'
    BY <1>1, <1>0, ServerFacts, ServerRecords DEF finish_clients_joins, ServerTypes, ServerState, SlotState, ListenerState, ThreadState, StopperState, StopPhaseOK, SlotFlagsOK, HoldersOK, AcceptedOK, CoveredOK, SerialsOK, working, SlotsHold, HeldOnce, StopHolds, ThreadsHold
  <1>3. SlotFlagsOK'
    BY <1>1, <1>0, ServerFacts, ServerRecords DEF finish_clients_joins, ServerTypes, ServerState, SlotState, ListenerState, ThreadState, StopperState, StopPhaseOK, SlotFlagsOK, HoldersOK, AcceptedOK, CoveredOK, SerialsOK, working, SlotsHold, HeldOnce, StopHolds, ThreadsHold
  <1>4. HoldersOK'
    BY <1>1, <1>0, ServerFacts, ServerRecords DEF finish_clients_joins, ServerTypes, ServerState, SlotState, ListenerState, ThreadState, StopperState, StopPhaseOK, SlotFlagsOK, HoldersOK, AcceptedOK, CoveredOK, SerialsOK, working, SlotsHold, HeldOnce, StopHolds, ThreadsHold
  <1>5. AcceptedOK'
    BY <1>1, <1>0, ServerFacts, ServerRecords DEF finish_clients_joins, ServerTypes, ServerState, SlotState, ListenerState, ThreadState, StopperState, StopPhaseOK, SlotFlagsOK, HoldersOK, AcceptedOK, CoveredOK, SerialsOK, working, SlotsHold, HeldOnce, StopHolds, ThreadsHold
  <1>6. CoveredOK'
    <2>1. \A x \in Slots : slots[x].socket_fd = Closed
      BY <1>0 DEF finish_clients_joins, StopPhaseOK
    <2> QED
      BY <1>0, <2>1, ServerFacts DEF finish_clients_joins, CoveredOK
  <1>7. SerialsOK'
    <2>1. \A x \in Slots : client_threads[x].at \notin {"serve", "finish"}
      BY <1>0 DEF finish_clients_joins, SlotFlagsOK
    <2>2. \A x \in Slots : client_threads'[x].at = "none"
      BY ServerRecords DEF finish_clients_joins
    <2> QED
      BY <1>0, <2>1, <2>2 DEF finish_clients_joins, SerialsOK
  <1> QED
    BY <1>1, <1>2, <1>3, <1>4, <1>5, <1>6, <1>7, ServerTypesOK DEF ServerInv

\* airplay_server_finish_clients closes the sockets.
LEMMA FinishCloses ==
    ASSUME ServerInv, finish_clients_closes
    PROVE  ServerInv'
  <1>0. ServerTypes /\ StopPhaseOK /\ SlotFlagsOK /\ HoldersOK /\ AcceptedOK /\ CoveredOK /\ SerialsOK
    BY ServerTypesOK DEF ServerInv
  <1>11. /\ UNCHANGED <<server, serial, client_threads, stopper, sessions>>
         /\ listener.at = "finish" /\ listener' \in ListenerState /\ listener'.at = "join"
    BY <1>0 DEF finish_clients_closes, ServerTypes, ListenerState
  <1>12. /\ slots' \in [Slots -> SlotState]
         /\ \A x \in Slots : /\ slots'[x].socket_fd = Closed
                             /\ slots'[x].thread_started = slots[x].thread_started
                             /\ slots'[x].finished = slots[x].finished
                             /\ slots'[x].reverse_session_id = slots[x].reverse_session_id
    <2>1. \A x \in Slots : [slots[x] EXCEPT !.socket_fd = Closed] \in SlotState
      BY <1>0 DEF ServerTypes, SlotState, Held
    <2> QED
      BY <1>0, <2>1 DEF finish_clients_closes, ServerTypes, SlotState
  <1>13. /\ kernel' \in [Descriptors -> Serials]
         /\ \A d \in Descriptors : (\E x \in Slots : slots[x].socket_fd = d) => kernel'[d] = 0
         /\ \A d \in Descriptors : (\A x \in Slots : slots[x].socket_fd # d) => kernel'[d] = kernel[d]
    BY <1>0, CloseAll DEF finish_clients_closes
  <1>14. \A x \in Slots : /\ slots[x].socket_fd # Closed => slots[x].socket_fd \in Descriptors
                          /\ client_threads[x].fd # Closed => client_threads[x].fd \in Descriptors
    BY <1>0 DEF ServerTypes, SlotState, ThreadState, Held
  <1>1. ServerTypes'
    BY <1>0, <1>11, <1>12, <1>13 DEF ServerTypes
  <1>2. StopPhaseOK'
    <2>1. server.listener_started
      BY <1>0, <1>11 DEF StopPhaseOK
    <2> QED
      BY <1>0, <1>11, <1>12, <2>1 DEF StopPhaseOK
  <1>3. SlotFlagsOK'
    BY <1>0, <1>11, <1>12 DEF SlotFlagsOK
  <1>4. HoldersOK'
    <2>1. SlotsHold' /\ HeldOnce'
      BY <1>12 DEF SlotsHold, HeldOnce
    <2>2. \A t \in stopper.taken : t[2] \in Descriptors /\ kernel'[t[2]] = kernel[t[2]]
      <3>1. \A t \in stopper.taken : \A x \in Slots : slots[x].socket_fd # t[2]
        BY <1>0 DEF HoldersOK, StopHolds
      <3>2. \A t \in stopper.taken : t[2] \in Descriptors
        BY <1>0 DEF ServerTypes, StopperState
      <3> QED
        BY <1>13, <3>1, <3>2
    <2>3. StopHolds'
      BY <1>0, <1>11, <1>12, <2>2, ServerFacts DEF HoldersOK, StopHolds
    <2>4. ThreadsHold'
      BY <1>0, <1>11, <1>13, <1>14 DEF HoldersOK, ThreadsHold, working
    <2> QED
      BY <2>1, <2>3, <2>4 DEF HoldersOK
  <1>5. AcceptedOK'
    BY <1>11 DEF AcceptedOK
  <1>6. CoveredOK'
    <2> SUFFICES ASSUME NEW d \in Descriptors, kernel'[d] # 0
                 PROVE  \/ d \in {server.listen_socket, stopper.listen}
                        \/ \E t \in stopper.taken : t[2] = d
      BY <1>11 DEF CoveredOK
    <2>1. kernel[d] # 0 /\ \A x \in Slots : slots[x].socket_fd # d
      BY <1>13
    <2> QED
      BY <1>0, <1>11, <2>1 DEF CoveredOK
  <1>7. SerialsOK'
    BY <1>0, <1>11 DEF SerialsOK
  <1> QED
    BY <1>1, <1>2, <1>3, <1>4, <1>5, <1>6, <1>7, ServerTypesOK DEF ServerInv

\* socket() and accept(): a free descriptor names a new connection.
LEMMA Opens ==
    ASSUME ServerTypes, NEW d \in Descriptors, opens(d)
    PROVE  /\ kernel[d] = 0 /\ kernel' \in [Descriptors -> Serials] /\ kernel'[d] = serial + 1
           /\ \A e \in Descriptors : e # d => kernel'[e] = kernel[e]
           /\ serial' = serial + 1 /\ serial' \in Serials /\ serial + 1 \in SessionNumbers
           /\ serial \in Nat /\ serial + 1 # 0
  BY ServerFacts DEF ServerTypes, opens, free_descriptors

\* A descriptor held is in use.
LEMMA HeldInUse ==
    ASSUME ServerInv
    PROVE  /\ \A x \in Slots : slots[x].socket_fd # Closed =>
                 slots[x].socket_fd \in Descriptors /\ kernel[slots[x].socket_fd] # 0
           /\ \A t \in stopper.taken :
                 t[1] \in Slots /\ t[2] \in Descriptors /\ kernel[t[2]] # 0
           /\ \A x \in Slots : client_threads[x].fd # Closed => client_threads[x].fd \in Descriptors
  BY ServerTypesOK DEF ServerInv, ServerTypes, SlotState, Held, StopperState, ThreadState,
     HoldersOK, SlotsHold, StopHolds

\* airplay_server_start.
LEMMA ServerStarts ==
    ASSUME ServerInv, NEW created \in BOOLEAN, server_starts(created)
    PROVE  ServerInv'
  <1>0. ServerTypes /\ StopPhaseOK /\ SlotFlagsOK /\ HoldersOK /\ AcceptedOK /\ CoveredOK /\ SerialsOK
    BY ServerTypesOK DEF ServerInv
  <1>11. /\ UNCHANGED <<client_threads, stopper, sessions>> /\ stopper = NotStopping
         /\ slots' = [x \in Slots |-> FreeSlot]
         /\ \A x \in Slots : client_threads[x].at = "none"
         /\ \A e \in Descriptors : kernel[e] = 0
    BY <1>0 DEF server_starts, StopPhaseOK
  <1>12. slots' \in [Slots -> SlotState]
    BY <1>11, ServerRecords
  <1>13. /\ server' \in ServerState /\ listener' \in ListenerState
         /\ kernel' \in [Descriptors -> Serials] /\ serial' \in Serials
         /\ listener'.at \in {"poll", "none"} /\ (listener'.at = "none" <=> ~server'.listener_started)
         /\ \A e \in Descriptors : kernel'[e] # 0 => e = server'.listen_socket
         /\ ~server'.listener_started => \A e \in Descriptors : kernel'[e] = 0
         /\ serial' = serial \/ serial' = serial + 1
         /\ serial \in Nat
    <2>1. CASE created
      <3>1. PICK d \in Descriptors :
              /\ opens(d)
              /\ server' = [running |-> TRUE, listener_started |-> TRUE, listen_socket |-> d]
              /\ listener' = [AtRest EXCEPT !.at = "poll"]
        BY <2>1 DEF server_starts
      <3>2. server' \in ServerState /\ server'.listener_started /\ server'.listen_socket = d
        BY <3>1 DEF ServerState, Held
      <3>3. listener' \in ListenerState /\ listener'.at = "poll"
        BY <3>1, ServerRecords DEF ListenerState
      <3> QED
        BY <1>0, <1>11, <3>1, <3>2, <3>3, Opens
    <2>2. CASE ~created
      <3>1. /\ UNCHANGED <<kernel, serial, listener>> /\ listener.at = "none"
            /\ server' = [running |-> FALSE, listener_started |-> FALSE, listen_socket |-> Closed]
        BY <2>2 DEF server_starts
      <3>2. server' \in ServerState /\ ~server'.listener_started
        BY <3>1 DEF ServerState, Held
      <3> QED
        BY <1>0, <1>11, <3>1, <3>2, ServerFacts DEF ServerTypes
    <2> QED
      BY <2>1, <2>2
  <1>1. ServerTypes'
    BY <1>0, <1>11, <1>12, <1>13 DEF ServerTypes
  <1>2. StopPhaseOK'
    BY <1>0, <1>11, <1>13, ServerRecords DEF StopPhaseOK
  <1>3. SlotFlagsOK'
    BY <1>0, <1>11, <1>13, ServerRecords DEF SlotFlagsOK
  <1>4. HoldersOK'
    BY <1>0, <1>11, <1>13, ServerRecords DEF HoldersOK, SlotsHold, HeldOnce, StopHolds, ThreadsHold, working
  <1>5. AcceptedOK'
    BY <1>0, <1>11, <1>13, ServerRecords DEF AcceptedOK
  <1>6. CoveredOK'
    BY <1>0, <1>11, <1>13, ServerRecords DEF CoveredOK
  <1>7. SerialsOK'
    <2>1. \A n \in SessionNumbers : n > serial' => n > serial
      BY <1>13, ServerFacts
    <2> QED
      BY <1>0, <1>11, <2>1 DEF SerialsOK, SessionNumbers
  <1> QED
    BY <1>1, <1>2, <1>3, <1>4, <1>5, <1>6, <1>7, ServerTypesOK DEF ServerInv

\* accept takes a connection.
LEMMA ListenerAccepts ==
    ASSUME ServerInv, listener_accepts
    PROVE  ServerInv'
  <1>0. ServerTypes /\ StopPhaseOK /\ SlotFlagsOK /\ HoldersOK /\ AcceptedOK /\ CoveredOK /\ SerialsOK
    BY ServerTypesOK DEF ServerInv
  <1>11. PICK d \in Descriptors : opens(d) /\ listener' = [listener EXCEPT !.at = "accepted", !.fd = d]
    BY DEF listener_accepts
  <1>12. /\ UNCHANGED <<server, slots, client_threads, stopper, sessions>>
         /\ listener.at = "select" /\ server.running /\ server.listener_started
         /\ listener' \in ListenerState /\ listener'.at = "accepted" /\ listener'.fd = d
    BY <1>0, <1>11 DEF listener_accepts, StopPhaseOK, ServerTypes, ListenerState, Held
  <1>13. /\ kernel[d] = 0 /\ kernel' \in [Descriptors -> Serials] /\ kernel'[d] = serial + 1
         /\ \A e \in Descriptors : e # d => kernel'[e] = kernel[e]
         /\ serial' = serial + 1 /\ serial' \in Serials /\ serial + 1 \in SessionNumbers
         /\ serial \in Nat /\ serial + 1 # 0
    BY <1>0, <1>11, Opens
  <1>14. /\ \A x \in Slots : slots[x].socket_fd # Closed =>
               /\ slots[x].socket_fd \in Descriptors /\ slots[x].socket_fd # d
               /\ kernel'[slots[x].socket_fd] = kernel[slots[x].socket_fd]
         /\ \A t \in stopper.taken : t[2] # d /\ kernel'[t[2]] = kernel[t[2]]
         /\ \A x \in Slots : client_threads[x].fd # Closed => client_threads[x].fd \in Descriptors
    BY <1>13, HeldInUse
  <1>1. ServerTypes'
    BY <1>0, <1>12, <1>13 DEF ServerTypes
  <1>2. StopPhaseOK'
    BY <1>0, <1>12 DEF StopPhaseOK
  <1>3. SlotFlagsOK'
    BY <1>0, <1>12 DEF SlotFlagsOK
  <1>4. HoldersOK'
    <2>1. SlotsHold'
      BY <1>0, <1>12, <1>14 DEF HoldersOK, SlotsHold, working
    <2>2. HeldOnce'
      BY <1>0, <1>12 DEF HoldersOK, HeldOnce
    <2>3. StopHolds'
      BY <1>0, <1>12, <1>14 DEF HoldersOK, StopHolds, working
    <2>4. ThreadsHold'
      BY <1>0, <1>12 DEF HoldersOK, ThreadsHold, working
    <2> QED
      BY <2>1, <2>2, <2>3, <2>4 DEF HoldersOK
  <1>5. AcceptedOK'
    <2>1. sessions[serial + 1].begun = 0 /\ sessions[serial + 1].closed = 0
      BY <1>0, <1>13 DEF SerialsOK, SessionNumbers
    <2>2. \A x \in Slots : client_threads[x].at # "none" => client_threads[x].serial # serial + 1
      BY <1>0, <1>13 DEF SerialsOK
    <2>3. serial + 1 \in 1 .. serial'
      BY <1>13
    <2>4. \A x \in Slots : slots[x].socket_fd # d
      BY <1>14, ServerFacts
    <2> QED
      BY <1>12, <1>13, <1>14, <2>1, <2>2, <2>3, <2>4 DEF AcceptedOK
  <1>6. CoveredOK'
    <2>1. \A e \in Descriptors : kernel'[e] # 0 => kernel[e] # 0 \/ e = d
      BY <1>13
    <2> QED
      BY <1>0, <1>12, <2>1 DEF CoveredOK
  <1>7. SerialsOK'
    <2>1. \A x \in Slots : client_threads[x].at # "none" => client_threads[x].serial \in 1 .. serial'
      BY <1>0, <1>13 DEF SerialsOK
    <2>2. \A n \in SessionNumbers : n > serial' => n > serial
      BY <1>13, ServerFacts
    <2> QED
      BY <1>0, <1>12, <2>1, <2>2 DEF SerialsOK, SessionNumbers
  <1> QED
    BY <1>1, <1>2, <1>3, <1>4, <1>5, <1>6, <1>7, ServerTypesOK DEF ServerInv

\* A slot gets the connection.
LEMMA ListenerPlaces ==
    ASSUME ServerInv, NEW pool, NEW s \in Slots, listener_places(pool, s)
    PROVE  ServerInv'
  <1>0. ServerTypes /\ StopPhaseOK /\ SlotFlagsOK /\ HoldersOK /\ AcceptedOK /\ CoveredOK /\ SerialsOK
    BY ServerTypesOK DEF ServerInv
  <1>11. /\ UNCHANGED <<server, kernel, serial, stopper, sessions>>
         /\ listener.at = "accepted"
         /\ listener' \in ListenerState /\ listener'.at = "placed" /\ listener'.slot = s
         /\ listener'.fd = listener.fd /\ listener.fd # Closed
    BY <1>0, ServerFacts DEF listener_places, ServerTypes, ListenerState, AcceptedOK
  <1>12. server.listener_started
    BY <1>0, <1>11 DEF StopPhaseOK
  <1>13. client_threads[s].at \in {"none", "exit"} /\ slots[s].socket_fd = Closed
    <2>1. ~slots[s].thread_started \/ slots[s].finished
      BY DEF listener_places, available
    <2>2. client_threads[s].at \in {"none", "exit"}
      BY <1>0, <2>1 DEF SlotFlagsOK
    <2> QED
      BY <1>0, <1>11, <2>2 DEF HoldersOK, SlotsHold, working
  <1>14. \A x \in Slots : x \in reapable <=> client_threads[x].at = "exit"
    BY <1>0 DEF reapable, SlotFlagsOK
  <1>15. /\ [FreeSlot EXCEPT !.socket_fd = listener.fd, !.active = TRUE] \in SlotState
         /\ [FreeSlot EXCEPT !.socket_fd = listener.fd, !.active = TRUE].socket_fd = listener.fd
         /\ ~[FreeSlot EXCEPT !.socket_fd = listener.fd, !.active = TRUE].thread_started
         /\ ~[FreeSlot EXCEPT !.socket_fd = listener.fd, !.active = TRUE].finished
    BY <1>0, ServerRecords DEF SlotState, ServerTypes, ListenerState
  <1>16. \A x \in Slots :
            LET r == [slots[x] EXCEPT !.thread_started = FALSE, !.finished = FALSE]
            IN  r \in SlotState /\ ~r.thread_started /\ ~r.finished /\ r.socket_fd = slots[x].socket_fd
    BY <1>0 DEF SlotState, ServerTypes
  <1>17. slots' \in [Slots -> SlotState] /\ client_threads' \in [Slots -> ThreadState]
    BY <1>0, <1>15, <1>16, ServerRecords DEF listener_places, ServerTypes
  <1>18. /\ slots'[s].socket_fd = listener.fd /\ ~slots'[s].thread_started /\ ~slots'[s].finished
         /\ client_threads'[s].at = "none"
         /\ \A x \in Slots \ {s} : slots'[x].socket_fd = slots[x].socket_fd
         /\ \A x \in Slots \ {s} : client_threads[x].at = "exit" =>
               ~slots'[x].thread_started /\ ~slots'[x].finished
         /\ \A x \in Slots \ {s} : client_threads[x].at # "exit" => slots'[x] = slots[x]
         /\ \A x \in Slots : client_threads[x].at = "exit" => client_threads'[x] = NoClient
         /\ \A x \in Slots : client_threads[x].at # "exit" => client_threads'[x] = client_threads[x]
    BY <1>0, <1>13, <1>14, <1>15, <1>16, ServerRecords DEF listener_places, ServerTypes
  <1>19. \A x \in Slots : \/ client_threads'[x].at = "none"
                          \/ client_threads[x].at # "exit" /\ client_threads'[x] = client_threads[x]
    BY <1>18, ServerRecords
  <1>1. ServerTypes'
    BY <1>0, <1>11, <1>17 DEF ServerTypes
  <1>2. StopPhaseOK'
    BY <1>0, <1>11, <1>12 DEF StopPhaseOK
  <1>3. SlotFlagsOK'
    <2>1. \A x \in Slots : /\ slots'[x].thread_started <=> client_threads'[x].at # "none"
                           /\ slots'[x].finished <=> client_threads'[x].at = "exit"
      BY <1>0, <1>18, ServerRecords DEF SlotFlagsOK
    <2> QED
      BY <1>0, <1>11, <1>18, <1>19, <2>1 DEF SlotFlagsOK
  <1>4. HoldersOK'
    <2>1. SlotsHold'
      BY <1>0, <1>11, <1>13, <1>18, <1>19, ServerFacts DEF HoldersOK, SlotsHold, AcceptedOK, working
    <2>2. HeldOnce'
      BY <1>0, <1>11, <1>18 DEF HoldersOK, HeldOnce, AcceptedOK
    <2>3. StopHolds'
      BY <1>0, <1>11, <1>18 DEF HoldersOK, StopHolds, AcceptedOK
    <2>4. ThreadsHold'
      BY <1>0, <1>11, <1>18, <1>19 DEF HoldersOK, ThreadsHold, working
    <2> QED
      BY <2>1, <2>2, <2>3, <2>4 DEF HoldersOK
  <1>5. AcceptedOK'
    BY <1>0, <1>11, <1>19 DEF AcceptedOK
  <1>6. CoveredOK'
    <2>1. \A x \in Slots : \A e \in Descriptors : slots[x].socket_fd = e => slots'[x].socket_fd = e
      BY <1>13, <1>18, ServerFacts
    <2> QED
      BY <1>0, <1>11, <1>18, <2>1 DEF CoveredOK
  <1>7. SerialsOK'
    <2>1. \A x \in Slots : client_threads[x].at \in {"serve", "finish"} =>
             client_threads'[x] = client_threads[x]
      BY <1>18
    <2> QED
      BY <1>0, <1>11, <1>19, <2>1 DEF SerialsOK
  <1> QED
    BY <1>1, <1>2, <1>3, <1>4, <1>5, <1>6, <1>7, ServerTypesOK DEF ServerInv

\* The thread of a connection is created, or the connection given up.
LEMMA ListenerStartsThread ==
    ASSUME ServerInv, NEW created \in BOOLEAN, listener_starts_thread(created)
    PROVE  ServerInv'
  <1>0. ServerTypes /\ StopPhaseOK /\ SlotFlagsOK /\ HoldersOK /\ AcceptedOK /\ CoveredOK /\ SerialsOK
    BY ServerTypesOK DEF ServerInv
  <1> DEFINE s == listener.slot
  <1>11. /\ UNCHANGED <<server, serial, stopper, sessions>> /\ listener.at = "placed"
         /\ listener' \in ListenerState /\ listener'.at = "poll"
         /\ s \in Slots /\ client_threads[s].at = "none"
         /\ listener.fd \in Descriptors /\ kernel[listener.fd] \in SessionNumbers
         /\ slots[s].socket_fd = Closed \/ slots[s].socket_fd = listener.fd
         /\ ~slots[s].thread_started /\ ~slots[s].finished /\ server.listener_started
    <2>1. listener' \in ListenerState /\ listener'.at = "poll"
      BY ServerRecords DEF listener_starts_thread, ListenerState
    <2>2. listener.at = "placed" /\ UNCHANGED <<server, serial, stopper, sessions>>
      BY DEF listener_starts_thread
    <2>3. s \in Slots /\ client_threads[s].at = "none" /\ ~slots[s].thread_started /\ ~slots[s].finished
      BY <1>0, <2>2 DEF SlotFlagsOK
    <2>4. listener.fd \in Descriptors /\ kernel[listener.fd] \in SessionNumbers
      BY <1>0, <2>2, ServerFacts DEF AcceptedOK, ServerTypes
    <2> QED
      BY <1>0, <2>1, <2>2, <2>3, <2>4 DEF HoldersOK, SlotsHold, working, StopPhaseOK
  <1> HIDE DEF s
  <1>12. ASSUME created
         PROVE  /\ kernel' = kernel
                /\ slots' \in [Slots -> SlotState] /\ client_threads' \in [Slots -> ThreadState]
                /\ \A x \in Slots : x # s => slots'[x] = slots[x] /\ client_threads'[x] = client_threads[x]
                /\ slots'[s].thread_started /\ slots'[s].finished = slots[s].finished
                /\ slots'[s].socket_fd = slots[s].socket_fd
                /\ slots'[s].reverse_session_id = slots[s].reverse_session_id
                /\ client_threads'[s].at = "enter" /\ client_threads'[s].fd = Closed
                /\ client_threads'[s].serial = kernel[listener.fd] /\ ~client_threads'[s].session
    <2>1. /\ slots' = [slots EXCEPT ![s].thread_started = TRUE]
          /\ client_threads' = [client_threads EXCEPT ![s] =
                 [NoClient EXCEPT !.at = "enter", !.serial = kernel[listener.fd]]]
          /\ kernel' = kernel
      BY <1>12 DEF listener_starts_thread, s
    <2>2. LET r == [NoClient EXCEPT !.at = "enter", !.serial = kernel[listener.fd]]
          IN  /\ r \in ThreadState /\ r.at = "enter" /\ r.fd = Closed
              /\ r.serial = kernel[listener.fd] /\ ~r.session
      BY <1>11, ServerFacts, ServerRecords DEF ThreadState
    <2>3. LET r == [slots[s] EXCEPT !.thread_started = TRUE]
          IN  /\ r \in SlotState /\ r.thread_started /\ r.finished = slots[s].finished
              /\ r.socket_fd = slots[s].socket_fd /\ r.reverse_session_id = slots[s].reverse_session_id
      BY <1>0, <1>11 DEF ServerTypes, SlotState
    <2> QED
      BY <1>0, <1>11, <2>1, <2>2, <2>3 DEF ServerTypes
  <1>13. ASSUME ~created
         PROVE  /\ client_threads' = client_threads /\ slots' \in [Slots -> SlotState]
                /\ \A x \in Slots : x # s => slots'[x] = slots[x]
                /\ slots'[s].thread_started = slots[s].thread_started
                /\ slots'[s].finished = slots[s].finished /\ slots'[s].socket_fd = Closed
                /\ slots'[s].reverse_session_id = slots[s].reverse_session_id
                /\ kernel' \in [Descriptors -> Serials]
                /\ \A d \in Descriptors : d # slots[s].socket_fd => kernel'[d] = kernel[d]
                /\ \A d \in Descriptors : d = slots[s].socket_fd => kernel'[d] = 0
    <2>1. /\ slots' = [slots EXCEPT ![s].socket_fd = Closed, ![s].active = FALSE]
          /\ client_threads' = client_threads /\ kernel' = close_all({slots[s].socket_fd})
      BY <1>13 DEF listener_starts_thread, s
    <2>2. LET r == [slots[s] EXCEPT !.socket_fd = Closed, !.active = FALSE]
          IN  /\ r \in SlotState /\ r.thread_started = slots[s].thread_started
              /\ r.finished = slots[s].finished /\ r.socket_fd = Closed
              /\ r.reverse_session_id = slots[s].reverse_session_id
      BY <1>0, <1>11 DEF ServerTypes, SlotState, Held
    <2> QED
      BY <1>0, <1>11, <2>1, <2>2, CloseAll DEF ServerTypes
  <1>1. ServerTypes'
    <2>1. CASE created
      BY <1>0, <1>11, <1>12, <2>1 DEF ServerTypes
    <2>2. CASE ~created
      BY <1>0, <1>11, <1>13, <2>2 DEF ServerTypes
    <2> QED
      BY <2>1, <2>2
  <1>2. StopPhaseOK'
    <2>1. CASE created
      BY <1>0, <1>11, <1>12, <2>1 DEF StopPhaseOK
    <2>2. CASE ~created
      BY <1>0, <1>11, <1>13, <2>2 DEF StopPhaseOK
    <2> QED
      BY <2>1, <2>2
  <1>3. SlotFlagsOK'
    <2>1. CASE created
      BY <1>0, <1>11, <1>12, <2>1 DEF SlotFlagsOK
    <2>2. CASE ~created
      BY <1>0, <1>11, <1>13, <2>2 DEF SlotFlagsOK
    <2> QED
      BY <2>1, <2>2
  <1>4. HoldersOK'
    <2>1. CASE created
      <3>1. SlotsHold'
        <4>1. \A x \in Slots : x # s /\ slots[x].socket_fd # Closed => working(x)
          BY <1>0 DEF HoldersOK, SlotsHold, s
        <4> QED
          BY <1>0, <1>11, <1>12, <2>1, <4>1 DEF HoldersOK, SlotsHold, working
      <3>2. HeldOnce'
        BY <1>0, <1>11, <1>12, <2>1 DEF HoldersOK, HeldOnce
      <3>3. StopHolds'
        BY <1>0, <1>11, <1>12, <2>1, HeldInUse DEF HoldersOK, StopHolds, working, s
      <3>4. ThreadsHold'
        BY <1>0, <1>11, <1>12, <2>1 DEF HoldersOK, ThreadsHold, working
      <3> QED
        BY <3>1, <3>2, <3>3, <3>4 DEF HoldersOK
    <2>2. CASE ~created
      <3>1. \A x \in Slots : slots'[x].socket_fd # Closed =>
               /\ x # s /\ slots'[x].socket_fd = slots[x].socket_fd
               /\ kernel'[slots[x].socket_fd] = kernel[slots[x].socket_fd]
        BY <1>0, <1>11, <1>13, <2>2, HeldInUse DEF HoldersOK, HeldOnce
      <3>2. SlotsHold'
        <4>1. \A x \in Slots : slots'[x].socket_fd # Closed => working(x)
          BY <1>0, <3>1 DEF HoldersOK, SlotsHold, s
        <4>2. client_threads' = client_threads
          BY <1>13, <2>2
        <4> QED
          BY <1>0, <3>1, <4>1, <4>2 DEF HoldersOK, SlotsHold, working
      <3>3. HeldOnce'
        BY <1>0, <1>13, <2>2, <3>1 DEF HoldersOK, HeldOnce
      <3>4. \A t \in stopper.taken : kernel'[t[2]] = kernel[t[2]]
        <4>1. \A t \in stopper.taken : slots[s].socket_fd # t[2]
          BY <1>0, <1>11 DEF HoldersOK, StopHolds
        <4> QED
          BY <1>13, <2>2, <4>1, HeldInUse
      <3>5. StopHolds'
        <4>1. \A x \in Slots : slots'[x].socket_fd = Closed \/ slots'[x].socket_fd = slots[x].socket_fd
          BY <3>1
        <4> QED
          BY <1>0, <1>11, <3>4, <4>1, HeldInUse, ServerFacts DEF HoldersOK, StopHolds
      <3>6. ThreadsHold'
        BY <1>0, <1>11, <1>13, <2>2 DEF HoldersOK, ThreadsHold, working
      <3> QED
        BY <3>2, <3>3, <3>5, <3>6 DEF HoldersOK
    <2> QED
      BY <2>1, <2>2
  <1>5. AcceptedOK'
    BY <1>11 DEF AcceptedOK
  <1>6. CoveredOK'
    <2>1. CASE created
      <3>1. \A x \in Slots : slots'[x].socket_fd = slots[x].socket_fd
        BY <1>12, <2>1
      <3> QED
        BY <1>0, <1>11, <1>12, <2>1, <3>1 DEF CoveredOK
    <2>2. CASE ~created
      <3>1. \A d \in Descriptors : kernel'[d] # 0 => kernel[d] # 0 /\ d # slots[s].socket_fd
        BY <1>13, <2>2
      <3>2. \A x \in Slots : x # s => slots'[x].socket_fd = slots[x].socket_fd
        BY <1>13, <2>2
      <3> QED
        BY <1>0, <1>11, <1>13, <2>2, <3>1, <3>2 DEF CoveredOK
    <2> QED
      BY <2>1, <2>2
  <1>7. SerialsOK'
    <2>1. CASE created
      <3>1. /\ kernel[listener.fd] \in 1 .. serial
            /\ sessions[kernel[listener.fd]].begun = 0 /\ sessions[kernel[listener.fd]].closed = 0
            /\ \A x \in Slots : client_threads[x].at # "none" => client_threads[x].serial # kernel[listener.fd]
        BY <1>0, <1>11 DEF AcceptedOK
      <3>2. \A x \in Slots : client_threads[x].at \in {"serve", "finish"} =>
               client_threads'[x] = client_threads[x]
        BY <1>11, <1>12, <2>1
      <3> QED
        BY <1>0, <1>11, <1>12, <2>1, <3>1, <3>2 DEF SerialsOK
    <2>2. CASE ~created
      BY <1>0, <1>11, <1>13, <2>2 DEF SerialsOK
    <2> QED
      BY <2>1, <2>2
  <1> QED
    BY <1>1, <1>2, <1>3, <1>4, <1>5, <1>6, <1>7, ServerTypesOK DEF ServerInv

\* Every step of the server keeps the invariant.
LEMMA ServerStep == ServerInv /\ [ServerNext]_ServerVars => ServerInv'
  <1> SUFFICES ASSUME ServerInv, [ServerNext]_ServerVars PROVE ServerInv'
    OBVIOUS
  <1>1. ASSUME UNCHANGED ServerVars PROVE ServerInv'
    BY <1>1 DEF ServerVars, ServerInv, ServerTypeOK, StopPhaseOK, SlotFlagsOK, HoldersOK, SlotsHold,
       HeldOnce, StopHolds, ThreadsHold, AcceptedOK, CoveredOK, SerialsOK, working
  <1>2. CASE \E created \in BOOLEAN : server_starts(created) \/ listener_starts_thread(created)
    BY <1>2, ServerStarts, ListenerStartsThread
  <1>3. CASE server_stops \/ server_takes \/ server_stopped
    BY <1>3, ServerStops, ServerTakes, ServerStopped
  <1>4. CASE listener_polls \/ listener_accepts \/ \E failed \in BOOLEAN : listener_selects(failed)
    BY <1>4, ListenerPolls, ListenerAccepts, ListenerSelects
  <1>5. CASE \E pool \in {ControlSlots, LocalSlots} :
                listener_rejects(pool) \/ \E s \in pool : listener_places(pool, s)
    BY <1>5, ListenerRejects, ListenerPlaces DEF Slots
  <1>6. CASE finish_clients_closes \/ finish_clients_joins
    BY <1>6, FinishCloses, FinishJoins
  <1>7. CASE \E s \in Slots :
                \/ \E initialised \in BOOLEAN : client_enters(s, initialised)
                \/ \E id \in LogicalIds : client_registers(s, id)
                \/ client_leaves(s) \/ client_unregisters(s) \/ client_closes(s)
    BY <1>7, ClientEnters, ClientRegisters, ClientLeaves, ClientUnregisters, ClientCloses
  <1>8. CASE \E id \in LogicalIds : reverse_send_fails(id)
    BY <1>8, ReverseSendFails
  <1> QED
    BY <1>1, <1>2, <1>3, <1>4, <1>5, <1>6, <1>7, <1>8 DEF ServerNext

LEMMA ServerInvariant == ServerSpec => []ServerInv
  BY ServerBegins, ServerStep, PTL DEF ServerSpec

\* The variables of the control server keep their types, for any number of
\* slots, descriptors and connections (airplay/server.c).
THEOREM ServerTypeCorrect == ServerSpec => []ServerTypeOK
  <1>1. ServerInv => ServerTypeOK
    BY DEF ServerInv
  <1> QED
    BY <1>1, ServerInvariant, PTL

\* A descriptor held by a slot, a thread or a stop names its own connection,
\* and when airplay_server_stop has returned nothing is open and every
\* session that began was closed exactly once (airplay/server.c:
\* airplay_server_take_client_socket, airplay_server_finish_clients,
\* airplay_server_stop).
THEOREM ServerCorrect == ServerSpec => []ServerSettles
  <1>1. ASSUME ServerInv PROVE SocketsOwned
    <2>1. /\ ServerTypes /\ StopPhaseOK /\ SlotFlagsOK /\ SlotsHold /\ HeldOnce /\ StopHolds
          /\ ThreadsHold
      BY <1>1, ServerTypesOK DEF ServerInv, HoldersOK
    <2>2. \A s \in Slots : working(s) /\ client_threads[s].fd # Closed =>
             \/ kernel[client_threads[s].fd] = client_threads[s].serial
             \/ listener.at = "join" /\ kernel[client_threads[s].fd] = 0
      <3> SUFFICES ASSUME NEW s \in Slots, working(s), client_threads[s].fd # Closed
                   PROVE  \/ kernel[client_threads[s].fd] = client_threads[s].serial
                          \/ listener.at = "join" /\ kernel[client_threads[s].fd] = 0
        OBVIOUS
      <3>1. CASE slots[s].socket_fd = client_threads[s].fd
        BY <2>1, <3>1 DEF SlotsHold
      <3>2. CASE <<s, client_threads[s].fd, client_threads[s].serial>> \in stopper.taken
        BY <2>1, <3>2 DEF StopHolds
      <3> QED
        BY <2>1, <3>1, <3>2 DEF ThreadsHold
    <2> QED
      BY <2>1, <2>2 DEF SocketsOwned, SlotsHold, HeldOnce, StopHolds
  <1>2. ASSUME ServerInv PROVE StopIsClean
    BY <1>2 DEF ServerInv, StopIsClean, StopPhaseOK, SerialsOK
  <1>3. ServerInv => ServerSettles
    BY <1>1, <1>2 DEF ServerSettles
  <1> QED
    BY <1>3, ServerInvariant, PTL

-----------------------------------------------------------------------------
(* RemoteVideo: the types, whatever overlaps, and the inductive invariant of *)
(* the behaviours in which no play and no takeover began beside a request.   *)

Unwinding == {"reset", "stop", "release", "releasing"}
CallStates ==
    [at : Unwinding \cup {"idle", "clear", "begin", "fail", "claim", "install", "load", "next",
                          "ready"},
     session : RemoteSessions \cup {0}, generation : 0 .. MaxPlays, reverse : BOOLEAN,
     reuse : BOOLEAN, stop : BOOLEAN, release : BOOLEAN, victim : RemoteSessions \cup {0},
     victim_generation : 0 .. MaxPlays, then : {"idle", "clear"}, lease : Leases]
RemoteStates ==
    [state : {"IDLE", "PENDING_HLS", "ACTIVE"}, owner_session_id : RemoteSessions \cup {0},
     owner_claimed : BOOLEAN, control_attached : BOOLEAN, pending_seek : Starts,
     pending_scrub : BOOLEAN, requested_rate : 0 .. 1, generation : 0 .. MaxPlays]
HlsStates ==
    [active : BOOLEAN, session_id : RemoteSessions \cup {0}, generation : 0 .. MaxPlays,
     expecting_master : BOOLEAN, pending_media_index : 0 .. MaxMedia,
     media_count : 0 .. MaxMedia, expected_request_id : 0 .. MaxMedia + 1]
LoadedStates == [playing : BOOLEAN, generation : 0 .. MaxPlays, stopped_by : 0 .. MaxPlays]
RemoteTypes ==
    /\ remote \in RemoteStates /\ hls \in HlsStates /\ remote_lease \in Leases
    /\ current \in Leases /\ loaded \in LoadedStates
    /\ playback_refs \in [RemoteSessions -> Nat]
    /\ calls \in [RemoteThreads -> CallStates]
    /\ takeover \in [at : {"idle", "relinquish", "clear"}, lease : Leases]

\* A call unwinds what it replaced and goes on, or unwinds and returns.  Those
\* that go on, and the others past their unwinding, are the main ones: one
\* request begun while no other was under way.
Unwinds(c) == c.at \in Unwinding
Returns(c) == Unwinds(c) /\ c.then = "idle"
Plays(c) == \/ Unwinds(c) /\ c.then = "clear"
            \/ c.at \in {"clear", "begin", "claim", "install", "load"}
Main(c) == Plays(c) \/ c.at \in {"fail", "next", "ready"}
Releases(c) == Unwinds(c) /\ c.release

\* A play is the owner until somebody clears it; whoever returns finds no
\* owner; a release is of the lease there is, and a new lease finds none.
CallOK(c) ==
    /\ c.at # "idle" => c.session # 0
    /\ Unwinds(c) => c.victim # 0
    /\ Returns(c) => remote.state = "IDLE"
    /\ Plays(c) /\ remote.state # "IDLE" =>
          /\ remote.owner_session_id = c.session /\ remote.generation = c.generation
          /\ remote.state = IF c.reverse THEN "PENDING_HLS" ELSE "ACTIVE"
          /\ remote.owner_claimed <=> c.reuse
    /\ c.at = "fail" /\ remote.state # "IDLE" =>
          /\ remote.owner_session_id = c.session /\ remote.generation = c.generation
          /\ remote.state = "PENDING_HLS"
    /\ c.at = "begin" => c.reverse
    /\ c.at \in {"claim", "install"} => ~c.reuse /\ ~c.reverse
    /\ c.at = "load" => ~c.reverse
    /\ Plays(c) /\ c.reuse => ~c.reverse /\ c.at \in {"clear", "load"}
    /\ Releases(c) => remote_lease.token \in {0, c.victim}
    /\ c.at = "releasing" =>
          /\ c.release /\ c.lease.token = c.victim
          /\ remote_lease \in {NoRemoteLease, c.lease}
    /\ c.at = "install" => c.lease.token = c.session
    /\ Plays(c) /\ ~c.reuse /\ c.at # "load" /\ ~Releases(c) => remote_lease = NoRemoteLease
    /\ c.at = "load" \/ (c.at = "clear" /\ c.reuse) => remote_lease.token \in {0, c.session}
    /\ c.at = "ready" => c.then = "idle"

\* One main call, and nobody releases while it takes the player anew.
PairOK(c, d) ==
    /\ ~(Main(c) /\ Main(d))
    /\ Plays(c) /\ ~c.reuse => ~Releases(d)
CallsOK ==
    /\ \A t \in RemoteThreads : CallOK(calls[t])
    /\ \A t, u \in RemoteThreads : t # u => PairOK(calls[t], calls[u])

\* Somebody will give the lease back, and there is a reference for it.
LeaseHeld ==
    /\ remote_lease.token = 0 => remote_lease = NoRemoteLease
    /\ remote_lease.token # 0 =>
          \/ remote.owner_claimed \/ takeover.at # "idle"
          \/ \E t \in RemoteThreads : Releases(calls[t]) \/ calls[t].at = "load"
    /\ \A s \in RemoteSessions : playback_refs[s] = IF remote_lease.token = s THEN 1 ELSE 0

\* An owner has the lease, or its request is under way, or its playlists are
\* exchanged.
OwnerHolds ==
    /\ remote.state # "IDLE" => remote.owner_session_id # 0 /\ remote.generation < MaxPlays
    /\ remote.owner_claimed =>
          remote.state = "ACTIVE" /\ remote_lease.token = remote.owner_session_id
    /\ remote.state = "ACTIVE" /\ ~remote.owner_claimed =>
          \E t \in RemoteThreads : Plays(calls[t])
    /\ remote.state = "PENDING_HLS" =>
          \/ \E t \in RemoteThreads : Plays(calls[t])
          \/ /\ hls.active /\ hls.session_id = remote.owner_session_id
             /\ hls.generation = remote.generation

LoadedOK ==
    loaded.playing =>
        /\ mine(remote_lease)
        /\ remote.owner_claimed /\ (\A t \in RemoteThreads : ~Plays(calls[t]))
           => loaded.generation = remote.generation

TakeoverOK ==
    takeover.at # "idle" =>
        /\ \A t \in RemoteThreads : calls[t].at = "idle"
        /\ remote_lease = takeover.lease /\ takeover.lease.token # 0 /\ ~loaded.playing
        /\ takeover.at = "relinquish" => remote.owner_claimed
        /\ takeover.at = "clear" => remote.state = "IDLE"

ExchangeOK ==
    /\ hls.expected_request_id # 0 =>
          IF hls.expecting_master THEN hls.expected_request_id = 1
          ELSE /\ hls.expected_request_id = hls.pending_media_index + 2
               /\ hls.pending_media_index < hls.media_count
    /\ hls.active => hls.session_id # 0

\* A generation of the lease for each play at most.
NewLease(c) == Plays(c) /\ ~c.reuse /\ c.at \notin {"install", "load"}
GenerationsOK ==
    /\ current.generation <= remote.generation
    /\ remote_lease.token # 0 => remote.generation > 0
    /\ remote.state = "PENDING_HLS" => current.generation < remote.generation
    /\ \A t \in RemoteThreads : NewLease(calls[t]) => current.generation < remote.generation
    /\ \A t \in RemoteThreads : calls[t].at = "install" => remote.generation > 0

RemoteInv ==
    /\ RemoteTypes /\ CallsOK /\ LeaseHeld /\ OwnerHolds /\ LoadedOK /\ TakeoverOK /\ ExchangeOK
    /\ GenerationsOK

-----------------------------------------------------------------------------
(* Calls one by one. *)

SameOwner ==
    /\ remote'.state = remote.state /\ remote'.owner_session_id = remote.owner_session_id
    /\ remote'.owner_claimed = remote.owner_claimed /\ remote'.generation = remote.generation

LEMMA NoCallOK ==
    ASSUME NEW c \in CallStates, c.at = "idle"
    PROVE  /\ CallOK(c) /\ CallOK(c)' /\ ~Main(c) /\ ~Plays(c) /\ ~Releases(c) /\ ~NewLease(c)
           /\ \A d : PairOK(c, d) /\ PairOK(d, c)
  BY DEF CallOK, PairOK, Main, Plays, Releases, Unwinds, Returns, Unwinding, NewLease

LEMMA NoCallTyped ==
    NoCall \in CallStates /\ NoCall.at = "idle" /\ NoRemoteLease \in Leases
  BY RemoteAssumption DEF NoCall, CallStates, NoRemoteLease, Leases

\* What a call relies on stays, or the owner goes, or the lease does; a call
\* that only returns relies on no lease.
Undisturbed(c) ==
    \/ SameOwner /\ UNCHANGED remote_lease
    \/ remote'.state = "IDLE" /\ UNCHANGED remote_lease
    \/ SameOwner /\ remote_lease' = NoRemoteLease
    \/ SameOwner /\ ~Main(c) /\ ~Releases(c)

LEMMA CallKept ==
    ASSUME NEW c \in CallStates, CallOK(c), Undisturbed(c)
    PROVE  CallOK(c)'
  <1>1. NoRemoteLease.token = 0
    BY DEF NoRemoteLease
  <1>2. CASE SameOwner /\ UNCHANGED remote_lease
    BY <1>2 DEF CallOK, SameOwner
  <1>3. CASE remote'.state = "IDLE" /\ UNCHANGED remote_lease
    BY <1>3 DEF CallOK
  <1>4. CASE SameOwner /\ remote_lease' = NoRemoteLease
    BY <1>1, <1>4 DEF CallOK, SameOwner
  <1>5. CASE SameOwner /\ ~Main(c) /\ ~Releases(c)
    BY <1>5 DEF CallOK, SameOwner, Main, Plays, Releases, Unwinds, Unwinding, Returns
  <1> QED
    BY <1>2, <1>3, <1>4, <1>5 DEF Undisturbed

LEMMA CallsStep ==
    ASSUME RemoteTypes, CallsOK, NEW t \in RemoteThreads, NEW c \in CallStates,
           calls' = [calls EXCEPT ![t] = c], CallOK(c)',
           \A u \in RemoteThreads \ {t} : Undisturbed(calls[u]),
           \A u \in RemoteThreads \ {t} : PairOK(c, calls[u]) /\ PairOK(calls[u], c)
    PROVE  CallsOK'
  <1>1. \A u \in RemoteThreads : calls[u] \in CallStates /\ calls'[u] = IF u = t THEN c ELSE calls[u]
    BY DEF RemoteTypes
  <1>2. \A u \in RemoteThreads : CallOK(calls[u])'
    <2> SUFFICES ASSUME NEW u \in RemoteThreads PROVE CallOK(calls[u])'
      OBVIOUS
    <2>1. CASE u = t
      BY <1>1, <2>1 DEF CallOK
    <2>2. CASE u # t
      <3> DEFINE d == calls[u]
      <3>1. d \in CallStates /\ CallOK(d) /\ calls'[u] = d /\ Undisturbed(d)
        BY <1>1, <2>2 DEF CallsOK
      <3>2. ASSUME NEW e \in CallStates, CallOK(e), Undisturbed(e) PROVE CallOK(e)'
        BY <3>2, CallKept
      <3>3. PICK e \in CallStates : e = d /\ CallOK(e) /\ Undisturbed(e)
        BY <3>1
      <3>4. CallOK(e)'
        BY <3>2, <3>3
      <3> QED
        BY <3>1, <3>3, <3>4 DEF CallOK
    <2> QED
      BY <2>1, <2>2
  <1>3. \A u, v \in RemoteThreads : u # v => PairOK(calls'[u], calls'[v])
    BY <1>1 DEF CallsOK
  <1> QED
    BY <1>2, <1>3 DEF CallsOK

\* The exchange is the owner's.
Matching(h) == h.active /\ h.session_id = remote.owner_session_id /\ h.generation = remote.generation

\* A step of a call that leaves the owner and the lease alone.
LEMMA GoesWith ==
    ASSUME RemoteInv, takeover.at = "idle", NEW t \in RemoteThreads, NEW c \in CallStates,
           calls' = [calls EXCEPT ![t] = c], SameOwner, remote' \in RemoteStates,
           hls' \in HlsStates, loaded' \in LoadedStates,
           UNCHANGED <<remote_lease, playback_refs, takeover>>, current' \in Leases,
           CallOK(c),
           \A u \in RemoteThreads \ {t} : PairOK(c, calls[u]) /\ PairOK(calls[u], c),
           /\ remote_lease.token # 0 /\ ~remote.owner_claimed
           /\ Releases(calls[t]) \/ calls[t].at = "load"
           => Releases(c) \/ c.at = "load",
           Plays(calls[t]) /\ remote.state # "IDLE"
           => Plays(c) \/ (remote.state # "ACTIVE" /\ Matching(hls')),
           remote.state = "PENDING_HLS" /\ Matching(hls) => Matching(hls') \/ Plays(c),
           loaded'.playing => loaded' = loaded /\ current' = current,
           ExchangeOK', GenerationsOK'
    PROVE  RemoteInv'
  <1>1. \A u \in RemoteThreads : calls'[u] = IF u = t THEN c ELSE calls[u]
    BY DEF RemoteInv, RemoteTypes
  <1>2. RemoteTypes'
    BY DEF RemoteInv, RemoteTypes
  <1>3. CallsOK'
    <2>1. CallOK(c)'
      BY CallKept DEF Undisturbed
    <2> QED
      BY <2>1, CallsStep DEF RemoteInv, Undisturbed
  <1>4. LeaseHeld'
    <2>1. remote_lease.token # 0 /\ ~remote.owner_claimed
          => \E u \in RemoteThreads : Releases(calls'[u]) \/ calls'[u].at = "load"
      BY <1>1 DEF RemoteInv, LeaseHeld
    <2> QED
      BY <2>1 DEF RemoteInv, LeaseHeld, SameOwner
  <1>5. OwnerHolds'
    <2>1. remote.state # "IDLE" /\ (\E u \in RemoteThreads : Plays(calls[u]))
          => (\E u \in RemoteThreads : Plays(calls'[u]))
             \/ (remote.state # "ACTIVE" /\ Matching(hls'))
      BY <1>1
    <2>2. Matching(hls) /\ remote.state = "PENDING_HLS"
          => Matching(hls') \/ \E u \in RemoteThreads : Plays(calls'[u])
      BY <1>1
    <2> QED
      BY <2>1, <2>2 DEF RemoteInv, OwnerHolds, SameOwner, Matching
  <1>6. LoadedOK'
    <2> SUFFICES ASSUME loaded'.playing PROVE LoadedOK'
      BY DEF LoadedOK
    <2>1. mine(remote_lease)'
      BY DEF RemoteInv, LoadedOK, mine
    <2>2. ASSUME remote.owner_claimed, \A u \in RemoteThreads : ~Plays(calls'[u])
          PROVE  loaded.generation = remote.generation
      <3>1. remote.state = "ACTIVE" /\ \A u \in RemoteThreads : ~Plays(calls[u])
        BY <1>1, <2>2 DEF RemoteInv, OwnerHolds
      <3> QED
        BY <2>2, <3>1 DEF RemoteInv, LoadedOK
    <2> QED
      BY <2>1, <2>2 DEF LoadedOK, SameOwner
  <1>7. TakeoverOK'
    BY <1>1 DEF RemoteInv, TakeoverOK
  <1> QED
    BY <1>2, <1>3, <1>4, <1>5, <1>6, <1>7 DEF RemoteInv

LEMMA Goes ==
    ASSUME RemoteInv, takeover.at = "idle", NEW t \in RemoteThreads, NEW c \in CallStates,
           calls' = [calls EXCEPT ![t] = c], SameOwner, remote' \in RemoteStates,
           hls' \in HlsStates, loaded' \in LoadedStates,
           UNCHANGED <<remote_lease, current, playback_refs, takeover>>,
           CallOK(c),
           \A u \in RemoteThreads \ {t} : PairOK(c, calls[u]) /\ PairOK(calls[u], c),
           /\ remote_lease.token # 0 /\ ~remote.owner_claimed
           /\ Releases(calls[t]) \/ calls[t].at = "load"
           => Releases(c) \/ c.at = "load",
           Plays(calls[t]) /\ remote.state # "IDLE"
           => Plays(c) \/ (remote.state # "ACTIVE" /\ Matching(hls')),
           remote.state = "PENDING_HLS" /\ Matching(hls) => Matching(hls') \/ Plays(c),
           NewLease(c) => NewLease(calls[t]), c.at # "install",
           loaded'.playing => loaded' = loaded,
           ExchangeOK'
    PROVE  RemoteInv'
  <1>1. \A u \in RemoteThreads : calls'[u] = IF u = t THEN c ELSE calls[u]
    BY DEF RemoteInv, RemoteTypes
  <1>2. GenerationsOK' /\ current' \in Leases
    BY <1>1 DEF RemoteInv, RemoteTypes, GenerationsOK, SameOwner
  <1> QED
    BY <1>2, GoesWith

LEMMA Busy ==
    ASSUME RemoteInv, NEW t \in RemoteThreads, calls[t].at # "idle"
    PROVE  /\ takeover.at = "idle" /\ calls[t] \in CallStates /\ CallOK(calls[t])
           /\ \A u \in RemoteThreads \ {t} :
                 /\ calls[u] \in CallStates /\ CallOK(calls[u])
                 /\ PairOK(calls[t], calls[u]) /\ PairOK(calls[u], calls[t])
  BY DEF RemoteInv, RemoteTypes, TakeoverOK, CallsOK

LEMMA Free ==
    ASSUME RemoteInv, NEW t \in RemoteThreads, calls[t].at = "idle"
    PROVE  /\ calls[t] \in CallStates /\ ~Main(calls[t]) /\ ~Plays(calls[t])
           /\ ~Releases(calls[t]) /\ ~NewLease(calls[t])
           /\ \A c : PairOK(c, calls[t]) /\ PairOK(calls[t], c)
  BY NoCallOK DEF RemoteInv, RemoteTypes

\* A call ends, or goes to a step that is not idle.
LEMMA Ends ==
    ASSUME RemoteInv, NEW t \in RemoteThreads, takeover.at = "idle",
           goes(t, NoCall), UNCHANGED <<remote, hls, remote_lease, current, loaded, playback_refs, takeover>>,
           remote_lease.token # 0 /\ ~remote.owner_claimed
           => ~Releases(calls[t]) /\ calls[t].at # "load",
           Plays(calls[t]) /\ remote.state # "IDLE" => remote.state # "ACTIVE" /\ Matching(hls)
    PROVE  RemoteInv'
  <1>1. calls' = [calls EXCEPT ![t] = NoCall]
    BY NoCallTyped DEF goes
  <1>2. /\ CallOK(NoCall) /\ ~Plays(NoCall) /\ ~NewLease(NoCall) /\ NoCall \in CallStates
        /\ NoCall.at # "install" /\ \A d : PairOK(NoCall, d) /\ PairOK(d, NoCall)
    BY NoCallTyped, NoCallOK
  <1>3. /\ SameOwner /\ remote' \in RemoteStates /\ hls' \in HlsStates /\ loaded' \in LoadedStates
        /\ ExchangeOK' /\ hls' = hls /\ loaded' = loaded
    BY DEF SameOwner, RemoteInv, RemoteTypes, ExchangeOK
  <1> QED
    BY <1>1, <1>2, <1>3, Goes

LEMMA NoHlsOK ==
    /\ NoHls \in HlsStates /\ ~NoHls.active /\ NoHls.expected_request_id = 0
  BY RemoteAssumption DEF NoHls, HlsStates

\* A call goes on unwinding.
LEMMA Unwound ==
    ASSUME RemoteInv, NEW t \in RemoteThreads, calls[t].at \in {"reset", "stop"},
           NEW at \in {"stop", "release"}, goes(t, [calls[t] EXCEPT !.at = at]),
           UNCHANGED <<remote, remote_lease, current, playback_refs, takeover>>,
           hls' \in HlsStates, ExchangeOK', calls[t].at = "reset" \/ hls' = hls,
           loaded' \in LoadedStates, loaded'.playing => loaded' = loaded
    PROVE  RemoteInv'
  <1> DEFINE c == [calls[t] EXCEPT !.at = at]
  <1>1. /\ takeover.at = "idle" /\ calls[t] \in CallStates /\ CallOK(calls[t])
        /\ \A u \in RemoteThreads \ {t} : PairOK(calls[t], calls[u]) /\ PairOK(calls[u], calls[t])
    BY Busy
  <1>2. /\ c \in CallStates /\ c.at = at /\ c.then = calls[t].then /\ c.release = calls[t].release
        /\ c.session = calls[t].session /\ c.victim = calls[t].victim /\ c.reuse = calls[t].reuse
        /\ c.reverse = calls[t].reverse /\ c.generation = calls[t].generation
    BY <1>1 DEF CallStates, Unwinding
  <1>3. calls' = [calls EXCEPT ![t] = c]
    BY <1>2 DEF goes
  <1> HIDE DEF c
  <1>4. /\ CallOK(c) /\ (Plays(c) <=> Plays(calls[t])) /\ (NewLease(c) <=> NewLease(calls[t]))
        /\ (Main(c) <=> Main(calls[t])) /\ (Releases(c) <=> Releases(calls[t]))
    BY <1>1, <1>2 DEF CallOK, Plays, NewLease, Main, Releases, Unwinds, Unwinding, Returns
  <1>5. \A u \in RemoteThreads \ {t} : PairOK(c, calls[u]) /\ PairOK(calls[u], c)
    BY <1>1, <1>2, <1>4 DEF PairOK
  <1>6. Plays(c) \/ remote.state = "IDLE"
    BY <1>1, <1>4 DEF CallOK, Plays, Returns, Unwinds, Unwinding, CallStates
  <1> QED
    BY <1>1, <1>2, <1>3, <1>4, <1>5, <1>6, Goes DEF SameOwner, RemoteInv, RemoteTypes

LEMMA Remote_resets ==
    ASSUME RemoteInv, NEW t \in RemoteThreads, unwind_resets(t)
    PROVE  RemoteInv'
  <1>1. hls' \in HlsStates /\ ExchangeOK'
    BY NoHlsOK DEF unwind_resets, hls_reset, RemoteInv, RemoteTypes, ExchangeOK
  <1> QED
    BY <1>1, Unwound DEF unwind_resets, RemoteInv, RemoteTypes

LEMMA Remote_stops ==
    ASSUME RemoteInv, NEW t \in RemoteThreads, unwind_stops(t)
    PROVE  RemoteInv'
  <1>1. calls[t] \in CallStates /\ loaded \in LoadedStates
    BY DEF RemoteInv, RemoteTypes
  <1>2. loaded' \in LoadedStates /\ (loaded'.playing => loaded' = loaded)
    BY <1>1 DEF unwind_stops, stop_ordered, LoadedStates, CallStates
  <1>3. hls' = hls /\ hls' \in HlsStates /\ ExchangeOK'
    BY DEF unwind_stops, RemoteInv, RemoteTypes, ExchangeOK
  <1> QED
    BY <1>2, <1>3, Unwound DEF unwind_stops

LEMMA Remote_release_reads ==
    ASSUME RemoteInv, NEW t \in RemoteThreads, release_reads(t)
    PROVE  RemoteInv'
  <1> DEFINE holds == /\ calls[t].release /\ remote_lease.token # 0
                      /\ remote_lease.token = calls[t].victim
             c == [calls[t] EXCEPT !.at = IF holds THEN "releasing" ELSE calls[t].then,
                                   !.lease = remote_lease]
  <1>1. /\ takeover.at = "idle" /\ calls[t] \in CallStates /\ CallOK(calls[t])
        /\ \A u \in RemoteThreads \ {t} : PairOK(calls[t], calls[u]) /\ PairOK(calls[u], calls[t])
        /\ calls[t].at = "release" /\ goes(t, c) /\ remote_lease \in Leases
        /\ remote_lease.token = 0 => remote_lease = NoRemoteLease
        /\ UNCHANGED <<remote, hls, remote_lease, current, loaded, playback_refs, takeover>>
    BY Busy DEF release_reads, RemoteInv, RemoteTypes, LeaseHeld
  <1>2. /\ c \in CallStates /\ c.at = (IF holds THEN "releasing" ELSE calls[t].then)
        /\ c.then = calls[t].then /\ c.release = calls[t].release /\ c.lease = remote_lease
        /\ c.session = calls[t].session /\ c.victim = calls[t].victim /\ c.reuse = calls[t].reuse
        /\ c.reverse = calls[t].reverse /\ c.generation = calls[t].generation
    BY <1>1 DEF CallStates, Unwinding
  <1>3. ~holds /\ Releases(calls[t]) => remote_lease.token = 0
    BY <1>1 DEF CallOK, Releases
  <1>4. CASE ~holds /\ calls[t].then = "idle"
    <2>1. goes(t, NoCall)
      BY <1>1, <1>2, <1>4, NoCallTyped DEF goes
    <2>2. ~Plays(calls[t])
      BY <1>1, <1>4 DEF Plays
    <2> QED
      BY <1>1, <1>3, <1>4, <2>1, <2>2, Ends
  <1>5. CASE holds \/ calls[t].then = "clear"
    <2> HIDE DEF c
    <2>1. c.at \notin {"idle", "install"}
      BY <1>2, <1>5
    <2>2. calls' = [calls EXCEPT ![t] = c]
      BY <1>1, <2>1 DEF goes
    <2>3. /\ CallOK(c) /\ (Plays(c) <=> Plays(calls[t])) /\ (NewLease(c) <=> NewLease(calls[t]))
          /\ (Main(c) <=> Main(calls[t])) /\ (Releases(c) => Releases(calls[t]))
          /\ holds => Releases(c)
      BY <1>1, <1>2, <1>3, <1>5
         DEF CallOK, Plays, NewLease, Main, Releases, Unwinds, Unwinding, Returns
    <2>4. \A u \in RemoteThreads \ {t} : PairOK(c, calls[u]) /\ PairOK(calls[u], c)
      BY <1>1, <1>2, <2>3 DEF PairOK
    <2> QED
      BY <1>1, <1>2, <1>3, <2>1, <2>2, <2>3, <2>4, Goes DEF SameOwner, RemoteInv, RemoteTypes, ExchangeOK
  <1> QED
    BY <1>1, <1>4, <1>5 DEF CallStates

LEMMA Remote_clears ==
    ASSUME RemoteInv, NEW t \in RemoteThreads, play_clears(t)
    PROVE  RemoteInv'
  <1> DEFINE at == IF calls[t].reverse THEN "begin" ELSE IF calls[t].reuse THEN "load" ELSE "claim"
             c == [calls[t] EXCEPT !.at = at]
  <1>1. /\ takeover.at = "idle" /\ calls[t] \in CallStates /\ CallOK(calls[t])
        /\ \A u \in RemoteThreads \ {t} : PairOK(calls[t], calls[u]) /\ PairOK(calls[u], calls[t])
        /\ calls[t].at = "clear" /\ goes(t, c) /\ hls' = NoHls
        /\ UNCHANGED <<remote, remote_lease, current, loaded, playback_refs, takeover>>
    BY Busy DEF play_clears
  <1>2. /\ c \in CallStates /\ c.at = at
        /\ c.then = calls[t].then /\ c.release = calls[t].release
        /\ c.session = calls[t].session /\ c.victim = calls[t].victim /\ c.reuse = calls[t].reuse
        /\ c.reverse = calls[t].reverse /\ c.generation = calls[t].generation
    BY <1>1 DEF CallStates, Unwinding
  <1>3. calls' = [calls EXCEPT ![t] = c]
    BY <1>1, <1>2 DEF goes
  <1> HIDE DEF c
  <1>4. /\ CallOK(c) /\ Plays(c) /\ Plays(calls[t]) /\ (NewLease(c) => NewLease(calls[t]))
        /\ Main(c) /\ Main(calls[t]) /\ ~Releases(c) /\ ~Releases(calls[t])
    BY <1>1, <1>2 DEF CallOK, Plays, NewLease, Main, Releases, Unwinds, Unwinding, Returns
  <1>5. \A u \in RemoteThreads \ {t} : PairOK(c, calls[u]) /\ PairOK(calls[u], c)
    BY <1>1, <1>2, <1>4 DEF PairOK
  <1>6. hls' \in HlsStates /\ ExchangeOK'
    BY <1>1, NoHlsOK DEF ExchangeOK
  <1> QED
    BY <1>1, <1>2, <1>3, <1>4, <1>5, <1>6, Goes DEF SameOwner, RemoteInv, RemoteTypes

\* A main call that does not play ends, or fails.
LEMMA MainFails ==
    ASSUME RemoteInv, NEW t \in RemoteThreads, calls[t].at \in {"begin", "next", "ready"},
           goes(t, [calls[t] EXCEPT !.at = "fail"]),
           UNCHANGED <<remote, remote_lease, current, loaded, playback_refs, takeover>>,
           hls' \in HlsStates, ExchangeOK',
           remote.state # "IDLE" =>
              /\ remote.owner_session_id = calls[t].session
              /\ remote.generation = calls[t].generation /\ remote.state = "PENDING_HLS"
              /\ hls' = hls \/ Matching(hls'),
           calls[t].at = "begin" => Matching(hls') \/ remote.state = "IDLE"
    PROVE  RemoteInv'
  <1> DEFINE c == [calls[t] EXCEPT !.at = "fail"]
  <1>1. /\ takeover.at = "idle" /\ calls[t] \in CallStates /\ CallOK(calls[t])
        /\ \A u \in RemoteThreads \ {t} : PairOK(calls[t], calls[u]) /\ PairOK(calls[u], calls[t])
    BY Busy
  <1>2. /\ c \in CallStates /\ c.at = "fail" /\ c.session = calls[t].session
        /\ c.generation = calls[t].generation
    BY <1>1 DEF CallStates, Unwinding
  <1>3. calls' = [calls EXCEPT ![t] = c]
    BY <1>2 DEF goes
  <1> HIDE DEF c
  <1>4. CallOK(c) /\ ~Plays(c) /\ ~NewLease(c) /\ Main(calls[t]) /\ ~Releases(c) /\ ~Releases(calls[t])
    BY <1>1, <1>2 DEF CallOK, Plays, NewLease, Main, Releases, Unwinds, Unwinding, Returns
  <1>5. \A u \in RemoteThreads \ {t} : PairOK(c, calls[u]) /\ PairOK(calls[u], c)
    BY <1>1, <1>2, <1>4 DEF PairOK
  <1>6. Plays(calls[t]) => calls[t].at = "begin"
    BY DEF Plays, Unwinds, Unwinding
  <1> QED
    BY <1>1, <1>2, <1>3, <1>4, <1>5, <1>6, Goes DEF SameOwner, RemoteInv, RemoteTypes

LEMMA Remote_action_next ==
    ASSUME RemoteInv, NEW t \in RemoteThreads, NEW sent, action_next(t, sent) \/ action_refused(t)
    PROVE  RemoteInv'
  <1>1. /\ takeover.at = "idle" /\ calls[t].at \in {"next", "ready"}
        /\ UNCHANGED <<remote, hls, remote_lease, current, loaded, playback_refs, takeover>>
    BY Busy DEF action_next, action_refused
  <1>2. ~Plays(calls[t]) /\ ~Releases(calls[t])
    BY <1>1 DEF Plays, Releases, Unwinds, Unwinding
  <1>3. CASE goes(t, NoCall)
    BY <1>1, <1>2, <1>3, Ends
  <1>4. CASE pending_generation(t) /\ goes(t, [calls[t] EXCEPT !.at = "fail"])
    BY <1>1, <1>4, MainFails
       DEF pending_generation, hls_pending, RemoteInv, RemoteTypes, ExchangeOK
  <1> QED
    BY <1>3, <1>4 DEF action_next, action_refused

LEMMA Remote_hls_begins ==
    ASSUME RemoteInv, NEW t \in RemoteThreads, NEW sent, hls_begins(t, sent)
    PROVE  RemoteInv'
  <1>1. /\ takeover.at = "idle" /\ calls[t] \in CallStates /\ CallOK(calls[t])
        /\ calls[t].at = "begin"
        /\ UNCHANGED <<remote, remote_lease, current, loaded, playback_refs, takeover>>
    BY Busy DEF hls_begins
  <1>2. /\ hls'.active /\ hls'.session_id = calls[t].session /\ hls'.expecting_master
        /\ hls'.generation = calls[t].generation /\ hls'.expected_request_id = 1
        /\ hls' \in HlsStates
    <2>1. 0 \in 0 .. MaxMedia /\ 1 \in 0 .. MaxMedia + 1
      BY RemoteAssumption
    <2>2. calls[t].session \in RemoteSessions \cup {0} /\ calls[t].generation \in 0 .. MaxPlays
      BY <1>1 DEF CallStates
    <2>3. hls' = [active |-> TRUE, session_id |-> calls[t].session,
                  generation |-> calls[t].generation, expecting_master |-> TRUE,
                  pending_media_index |-> 0, media_count |-> 0, expected_request_id |-> 1]
      BY DEF hls_begins, NoHls
    <2> QED
      BY <2>1, <2>2, <2>3 DEF HlsStates
  <1>3. /\ ExchangeOK'
        /\ remote.state # "IDLE" =>
              /\ remote.owner_session_id = calls[t].session
              /\ remote.generation = calls[t].generation /\ remote.state = "PENDING_HLS"
              /\ Matching(hls')
    BY <1>1, <1>2 DEF CallOK, Plays, ExchangeOK, Matching
  <1>4. CASE goes(t, NoCall)
    <2>1. calls' = [calls EXCEPT ![t] = NoCall]
      BY <1>4, NoCallTyped DEF goes
    <2>2. /\ CallOK(NoCall) /\ ~Plays(NoCall) /\ ~NewLease(NoCall) /\ NoCall \in CallStates
          /\ NoCall.at # "install" /\ \A d : PairOK(NoCall, d) /\ PairOK(d, NoCall)
      BY NoCallTyped, NoCallOK
    <2>3. ~Releases(calls[t]) /\ calls[t].at # "load"
      BY <1>1 DEF Releases, Unwinds, Unwinding
    <2>4. remote' \in RemoteStates /\ loaded' \in LoadedStates /\ SameOwner /\ loaded' = loaded
      BY <1>1 DEF RemoteInv, RemoteTypes, SameOwner
    <2> QED
      BY <1>1, <1>2, <1>3, <2>1, <2>2, <2>3, <2>4, Goes
  <1>5. CASE goes(t, [calls[t] EXCEPT !.at = "fail"])
    BY <1>1, <1>2, <1>3, <1>5, MainFails
  <1> QED
    BY <1>4, <1>5 DEF hls_begins

LEMMA Remote_superseded ==
    ASSUME RemoteInv, NEW t \in RemoteThreads, play_superseded(t)
    PROVE  RemoteInv'
  <1> DEFINE c == [calls[t] EXCEPT !.at = "release", !.release = TRUE,
                                   !.victim = calls[t].session, !.then = "idle"]
  <1>1. /\ takeover.at = "idle" /\ calls[t] \in CallStates /\ CallOK(calls[t])
        /\ \A u \in RemoteThreads \ {t} : PairOK(calls[t], calls[u]) /\ PairOK(calls[u], calls[t])
        /\ calls[t].at = "load" /\ ~still_owner(t) /\ goes(t, c)
        /\ UNCHANGED <<remote, hls, remote_lease, current, loaded, playback_refs, takeover>>
    BY Busy DEF play_superseded
  <1>2. /\ c \in CallStates /\ c.at = "release" /\ c.release /\ c.then = "idle"
        /\ c.session = calls[t].session /\ c.victim = calls[t].session
    BY <1>1 DEF CallStates, Unwinding
  <1> HIDE DEF c
  <1>3. calls' = [calls EXCEPT ![t] = c]
    BY <1>1, <1>2 DEF goes
  <1>4. remote.state = "IDLE"
    BY <1>1 DEF CallOK, Plays, still_owner, owned
  <1>5. CallOK(c) /\ ~Plays(c) /\ ~NewLease(c) /\ ~Main(c) /\ Releases(c) /\ Main(calls[t])
    BY <1>1, <1>2, <1>4 DEF CallOK, Plays, NewLease, Main, Releases, Unwinds, Unwinding, Returns
  <1>6. \A u \in RemoteThreads \ {t} : PairOK(c, calls[u]) /\ PairOK(calls[u], c)
    BY <1>1, <1>5 DEF PairOK, Main
  <1> QED
    BY <1>1, <1>2, <1>3, <1>4, <1>5, <1>6, Goes DEF SameOwner, RemoteInv, RemoteTypes, ExchangeOK

\* A request that only sets what the owner asked for.
LEMMA Controls ==
    ASSUME RemoteInv, NEW t \in RemoteThreads, calls[t].at = "idle", takeover.at = "idle",
           SameOwner, remote' \in RemoteStates,
           UNCHANGED <<hls, remote_lease, current, loaded, playback_refs, calls, takeover>>
    PROVE  RemoteInv'
  <1>1. /\ calls[t] \in CallStates /\ ~Plays(calls[t]) /\ ~Releases(calls[t])
        /\ ~NewLease(calls[t]) /\ \A c : PairOK(c, calls[t]) /\ PairOK(calls[t], c)
    BY Free
  <1>2. /\ CallOK(calls[t]) /\ calls' = [calls EXCEPT ![t] = calls[t]] /\ ExchangeOK'
        /\ hls' = hls /\ hls' \in HlsStates /\ loaded' = loaded /\ loaded' \in LoadedStates
    BY DEF RemoteInv, RemoteTypes, CallsOK, ExchangeOK
  <1> QED
    BY <1>1, <1>2, Goes

LEMMA Remote_controls ==
    ASSUME RemoteInv, ~overlapped', NEW t \in RemoteThreads, NEW s \in RemoteSessions,
           \/ \E seekable \in BOOLEAN : polls(t, s, seekable)
           \/ \E rate \in 0 .. 1 : rates(t, s, rate)
           \/ scrubs(t, s)
    PROVE  RemoteInv'
  <1>1. /\ calls[t].at = "idle" /\ takeover.at = "idle"
        /\ UNCHANGED <<hls, remote_lease, current, loaded, playback_refs, calls, takeover>>
    BY DEF polls, rates, scrubs, fresh
  <1>2. remote \in RemoteStates
    BY DEF RemoteInv, RemoteTypes
  <1>3. SameOwner /\ remote' \in RemoteStates
    <2> DEFINE r == routed(s)
    <2>1. /\ r \in RemoteStates /\ r.state = remote.state /\ r.generation = remote.generation
          /\ r.owner_session_id = remote.owner_session_id /\ r.owner_claimed = remote.owner_claimed
      <3>1. (remote.control_attached \/ owned(s)) \in BOOLEAN
        OBVIOUS
      <3>2. r = [remote EXCEPT !.control_attached = remote.control_attached \/ owned(s)]
        BY DEF routed
      <3> QED
        BY <1>2, <3>1, <3>2 DEF RemoteStates
    <2>2. CASE remote' = r
      BY <2>1, <2>2 DEF SameOwner
    <2>3. CASE remote' = seek_applied(s)
      <3>1. remote' = [r EXCEPT !.pending_seek = "none", !.pending_scrub = FALSE]
        BY <2>3 DEF seek_applied
      <3> HIDE DEF r
      <3> QED
        BY <2>1, <3>1 DEF SameOwner, RemoteStates, Starts
    <2>4. CASE remote' = [remote EXCEPT !.pending_scrub = TRUE]
      BY <1>2, <2>4 DEF SameOwner, RemoteStates
    <2>5. CASE \E rate \in 0 .. 1 : remote' = [r EXCEPT !.requested_rate = rate]
      <3> HIDE DEF r
      <3> QED
        BY <2>1, <2>5 DEF SameOwner, RemoteStates
    <2> QED
      BY <2>2, <2>3, <2>4, <2>5 DEF polls, rates, scrubs
  <1> QED
    BY <1>1, <1>3, Controls

LEMMA Remote_answered ==
    ASSUME RemoteInv, ~overlapped', NEW t \in RemoteThreads, NEW s \in RemoteSessions,
           NEW count \in 0 .. MaxMedia, hls_answered(t, s, count)
    PROVE  RemoteInv'
  <1> DEFINE next == IF hls.expecting_master THEN 0 ELSE hls.pending_media_index + 1
             total == IF hls.expecting_master THEN count ELSE hls.media_count
             more == next < total
             c == [NoCall EXCEPT !.at = IF more THEN "next" ELSE "ready",
                                 !.session = s, !.generation = hls.generation]
  <1>1. /\ takeover.at = "idle" /\ (\A u \in RemoteThreads : calls[u].at = "idle")
        /\ hls.active /\ hls.session_id = s /\ hls.expected_request_id # 0
        /\ hls.expecting_master \/ hls.pending_media_index < hls.media_count
        /\ hls' = [hls EXCEPT !.expecting_master = FALSE, !.media_count = total,
                              !.pending_media_index = next,
                              !.expected_request_id = IF more THEN @ + 1 ELSE 0]
        /\ remote' = routed(s) /\ goes(t, c)
        /\ UNCHANGED <<remote_lease, current, loaded, playback_refs, takeover>>
    BY DEF hls_answered, fresh_play, alone
  <1>2. hls \in HlsStates /\ remote \in RemoteStates /\ ExchangeOK /\ loaded \in LoadedStates
    BY DEF RemoteInv, RemoteTypes
  <1>3. hls' \in HlsStates /\ ExchangeOK' /\ (Matching(hls) => Matching(hls'))
    <2>1. next \in 0 .. MaxMedia /\ total \in 0 .. MaxMedia
      BY <1>1, <1>2, RemoteAssumption DEF HlsStates
    <2>2. more => hls.expected_request_id + 1 = next + 2
      BY <1>1, <1>2 DEF HlsStates, ExchangeOK
    <2> HIDE DEF next, total
    <2>3. more => hls.expected_request_id + 1 \in 0 .. MaxMedia + 1
      BY <2>1, <2>2, RemoteAssumption
    <2> DEFINE id == IF more THEN hls.expected_request_id + 1 ELSE 0
    <2>4. id \in 0 .. MaxMedia + 1
      BY <2>3, RemoteAssumption
    <2>5. hls' = [hls EXCEPT !.expecting_master = FALSE, !.media_count = total,
                             !.pending_media_index = next, !.expected_request_id = id]
      BY <1>1
    <2> HIDE DEF id
    <2>6. hls' \in HlsStates
      BY <1>2, <2>1, <2>4, <2>5 DEF HlsStates
    <2> USE DEF id
    <2>7. /\ ~hls'.expecting_master /\ hls'.media_count = total /\ hls'.pending_media_index = next
          /\ hls'.expected_request_id = IF more THEN hls.expected_request_id + 1 ELSE 0
          /\ hls'.active = hls.active /\ hls'.session_id = s /\ hls'.generation = hls.generation
      BY <1>1, <1>2 DEF HlsStates
    <2> QED
      BY <1>1, <2>2, <2>6, <2>7, RemoteAssumption DEF ExchangeOK, Matching
  <1>4. SameOwner /\ remote' \in RemoteStates
    BY <1>1, <1>2 DEF routed, owned, SameOwner, RemoteStates
  <1>5. /\ c \in CallStates /\ c.at \in {"next", "ready"} /\ c.session = s /\ c.then = "idle"
    <2>1. hls.generation \in 0 .. MaxPlays
      BY <1>2 DEF HlsStates
    <2>2. (IF more THEN "next" ELSE "ready") \in {"next", "ready"}
      OBVIOUS
    <2> HIDE DEF next, total, more
    <2> QED
      BY <2>1, <2>2, NoCallTyped DEF NoCall, CallStates
  <1> HIDE DEF c, next, total
  <1>6. calls' = [calls EXCEPT ![t] = c]
    BY <1>1, <1>5 DEF goes
  <1>7. CallOK(c) /\ ~Plays(c) /\ ~NewLease(c) /\ ~Releases(c)
    BY <1>5, RemoteAssumption DEF CallOK, Plays, NewLease, Releases, Unwinds, Unwinding, Returns
  <1>8. \A u \in RemoteThreads : PairOK(c, calls[u]) /\ PairOK(calls[u], c) /\ ~Releases(calls[u])
                                 /\ ~Plays(calls[u])
    BY <1>1, Free
  <1> QED
    BY <1>1, <1>2, <1>3, <1>4, <1>5, <1>6, <1>7, <1>8, Goes

LEMMA Remote_claims ==
    ASSUME RemoteInv, NEW t \in RemoteThreads, play_claims(t)
    PROVE  RemoteInv'
  <1> DEFINE new == claimed_lease(calls[t].session)
             c == [calls[t] EXCEPT !.at = "install", !.lease = new]
  <1>1. /\ takeover.at = "idle" /\ calls[t] \in CallStates /\ CallOK(calls[t])
        /\ \A u \in RemoteThreads \ {t} : PairOK(calls[t], calls[u]) /\ PairOK(calls[u], calls[t])
        /\ calls[t].at = "claim" /\ goes(t, c) /\ current' = new
        /\ loaded' = [loaded EXCEPT !.playing = FALSE]
        /\ UNCHANGED <<remote, hls, remote_lease, playback_refs, takeover>>
    BY Busy DEF play_claims
  <1>2. remote \in RemoteStates /\ current \in Leases /\ loaded \in LoadedStates /\ hls \in HlsStates
    BY DEF RemoteInv, RemoteTypes
  <1>3. /\ Plays(calls[t]) /\ NewLease(calls[t]) /\ Main(calls[t]) /\ ~Releases(calls[t])
        /\ ~calls[t].reuse
    BY <1>1 DEF CallOK, Plays, NewLease, Main, Releases, Unwinds, Unwinding
  <1>4. current.generation < remote.generation
    BY <1>3 DEF RemoteInv, GenerationsOK
  <1>5. /\ new \in Leases /\ new.token = calls[t].session
        /\ new.generation = current.generation + 1 /\ new.generation <= remote.generation
        /\ remote.generation > 0
    BY <1>1, <1>2, <1>4, RemoteAssumption DEF claimed_lease, Leases, RemoteStates, CallStates
  <1> HIDE DEF new
  <1>6. /\ c \in CallStates /\ c.at = "install" /\ c.lease = new
        /\ c.session = calls[t].session /\ c.reuse = calls[t].reuse
        /\ c.reverse = calls[t].reverse /\ c.generation = calls[t].generation
    BY <1>1, <1>5 DEF CallStates
  <1> HIDE DEF c
  <1>7. calls' = [calls EXCEPT ![t] = c]
    BY <1>1, <1>6 DEF goes
  <1>8. CallOK(c) /\ Plays(c) /\ ~NewLease(c) /\ Main(c) /\ ~Releases(c)
    BY <1>1, <1>3, <1>5, <1>6
       DEF CallOK, Plays, NewLease, Main, Releases, Unwinds, Unwinding, Returns
  <1>9. \A u \in RemoteThreads \ {t} :
           PairOK(c, calls[u]) /\ PairOK(calls[u], c) /\ ~NewLease(calls[u])
    BY <1>1, <1>3, <1>6, <1>8 DEF PairOK, NewLease, Main
  <1>10. remote.state # "PENDING_HLS"
    BY <1>1, <1>3 DEF CallOK
  <1>11. \A u \in RemoteThreads : calls'[u] = IF u = t THEN c ELSE calls[u]
    BY <1>7 DEF RemoteInv, RemoteTypes
  <1>12. GenerationsOK'
    BY <1>1, <1>5, <1>8, <1>9, <1>10, <1>11 DEF GenerationsOK, RemoteInv
  <1>13. /\ loaded' \in LoadedStates /\ ~loaded'.playing /\ ExchangeOK' /\ SameOwner
         /\ remote' \in RemoteStates /\ hls' = hls /\ hls' \in HlsStates
    BY <1>1, <1>2 DEF LoadedStates, RemoteInv, ExchangeOK, SameOwner
  <1> QED
    BY <1>1, <1>3, <1>5, <1>6, <1>7, <1>8, <1>9, <1>12, <1>13, GoesWith

\* Beside a main call of an owner there is none, and beside a play that
\* takes the player anew none that releases.
LEMMA OthersIdle ==
    ASSUME RemoteInv, NEW t \in RemoteThreads, Main(calls[t]), remote.state # "IDLE",
           NEW u \in RemoteThreads, u # t
    PROVE  calls[u].at = "idle" /\ ~Plays(calls[u]) /\ ~Releases(calls[u])
  <1>1. calls[u] \in CallStates /\ CallOK(calls[u]) /\ PairOK(calls[t], calls[u])
    BY DEF RemoteInv, RemoteTypes, CallsOK
  <1>2. ~Main(calls[u]) /\ ~Returns(calls[u])
    BY <1>1 DEF PairOK, CallOK
  <1> QED
    BY <1>1, <1>2 DEF CallStates, Main, Plays, Returns, Releases, Unwinds, Unwinding

LEMMA Remote_installs ==
    ASSUME RemoteInv, NEW t \in RemoteThreads, play_installs(t)
    PROVE  RemoteInv'
  <1> DEFINE s == calls[t].session
  <1>1. /\ takeover.at = "idle" /\ calls[t] \in CallStates /\ CallOK(calls[t])
        /\ \A u \in RemoteThreads \ {t} :
              /\ calls[u] \in CallStates /\ CallOK(calls[u])
              /\ PairOK(calls[t], calls[u]) /\ PairOK(calls[u], calls[t])
        /\ calls[t].at = "install" /\ goes(t, [calls[t] EXCEPT !.at = "load"]) /\ remote_lease' = calls[t].lease
        /\ playback_refs' = [playback_refs EXCEPT ![s] = @ + 1]
        /\ UNCHANGED <<remote, hls, current, loaded, takeover>>
    BY Busy DEF play_installs
  <1>2. /\ Plays(calls[t]) /\ Main(calls[t]) /\ ~Releases(calls[t])
        /\ ~calls[t].reuse /\ ~calls[t].reverse /\ s \in RemoteSessions
        /\ remote_lease = NoRemoteLease /\ remote_lease'.token = s /\ remote_lease' \in Leases
    BY <1>1, RemoteAssumption DEF CallOK, Plays, Main, Releases, Unwinds, Unwinding, CallStates
  <1>3. PICK c \in CallStates :
        /\ c = [calls[t] EXCEPT !.at = "load"] /\ c.at = "load" /\ c.session = s /\ c.reuse = calls[t].reuse
        /\ c.reverse = calls[t].reverse /\ c.generation = calls[t].generation
    BY <1>1 DEF CallStates
  <1>4. calls' = [calls EXCEPT ![t] = c]
    BY <1>1, <1>3 DEF goes
  <1>5. \A u \in RemoteThreads : calls'[u] = IF u = t THEN c ELSE calls[u]
    BY <1>4 DEF RemoteInv, RemoteTypes
  <1>6. Plays(c) /\ ~NewLease(c) /\ Main(c) /\ ~Releases(c)
    BY <1>3 DEF Plays, NewLease, Main, Releases, Unwinds, Unwinding
  <1>7. \A u \in RemoteThreads \ {t} :
           PairOK(c, calls[u]) /\ PairOK(calls[u], c) /\ ~Main(calls[u]) /\ ~Releases(calls[u])
    BY <1>1, <1>2, <1>3, <1>6 DEF PairOK
  <1>8. CallsOK'
    <2>1. CallOK(c)'
      BY <1>1, <1>2, <1>3 DEF CallOK, Plays, Releases, Unwinds, Unwinding, Returns
    <2>2. \A u \in RemoteThreads \ {t} : Undisturbed(calls[u])
      BY <1>1, <1>7 DEF Undisturbed, SameOwner
    <2> QED
      BY <1>3, <1>4, <1>7, <2>1, <2>2, CallsStep DEF RemoteInv
  <1>9. /\ remote_lease.token = 0 /\ \A r \in RemoteSessions : playback_refs[r] = 0
    BY <1>2, RemoteAssumption DEF RemoteInv, LeaseHeld, NoRemoteLease
  <1>10. \A r \in RemoteSessions : playback_refs'[r] = IF r = s THEN 1 ELSE 0
    BY <1>1, <1>2, <1>9 DEF RemoteInv, RemoteTypes
  <1>11. remote.generation > 0 /\ MaxPlays > 0 /\ remote \in RemoteStates
    BY <1>1, RemoteAssumption DEF RemoteInv, RemoteTypes, GenerationsOK, RemoteStates
  <1>12. playback_refs' \in [RemoteSessions -> Nat]
    BY <1>1, <1>2, <1>9, <1>11, RemoteAssumption DEF RemoteInv, RemoteTypes
  <1>13. RemoteTypes'
    BY <1>1, <1>2, <1>3, <1>4, <1>12 DEF RemoteInv, RemoteTypes
  <1>14. LeaseHeld'
    BY <1>2, <1>3, <1>5, <1>10, RemoteAssumption DEF LeaseHeld
  <1>15. OwnerHolds'
    <2>1. \E u \in RemoteThreads : Plays(calls'[u])
      BY <1>5, <1>6
    <2>2. ~remote.owner_claimed
      BY <1>1, <1>2 DEF CallOK, RemoteInv, OwnerHolds
    <2> QED
      BY <1>1, <2>1, <2>2 DEF RemoteInv, OwnerHolds
  <1>16. ~loaded.playing
    BY <1>9 DEF RemoteInv, LoadedOK, mine
  <1>17. LoadedOK' /\ TakeoverOK' /\ ExchangeOK' /\ GenerationsOK'
    BY <1>1, <1>3, <1>5, <1>6, <1>11, <1>16
       DEF RemoteInv, LoadedOK, TakeoverOK, ExchangeOK, GenerationsOK
  <1> QED
    BY <1>8, <1>13, <1>14, <1>15, <1>17 DEF RemoteInv

LEMMA Remote_release_clears ==
    ASSUME RemoteInv, NEW t \in RemoteThreads, release_clears(t)
    PROVE  RemoteInv'
  <1> DEFINE s == calls[t].victim
  <1>1. /\ takeover.at = "idle" /\ calls[t] \in CallStates /\ CallOK(calls[t])
        /\ \A u \in RemoteThreads \ {t} :
              /\ calls[u] \in CallStates /\ CallOK(calls[u])
              /\ PairOK(calls[t], calls[u]) /\ PairOK(calls[u], calls[t])
        /\ calls[t].at = "releasing" /\ remote_lease' = NoRemoteLease
        /\ UNCHANGED <<remote, hls, takeover>>
    BY Busy DEF release_clears
  <1>2. current \in Leases /\ loaded \in LoadedStates /\ remote \in RemoteStates
    BY DEF RemoteInv, RemoteTypes
  <1>3. /\ current' \in Leases /\ current'.generation = current.generation
        /\ loaded' \in LoadedStates /\ ~loaded'.playing
    <2>1. loaded.playing => mine(calls[t].lease)
      BY <1>1 DEF RemoteInv, LoadedOK, CallOK, mine, NoRemoteLease
    <2>2. current' \in Leases /\ current'.generation = current.generation
      BY <1>2 DEF release_clears, Leases
    <2>3. loaded' \in LoadedStates /\ ~loaded'.playing
      BY <1>1, <1>2, <2>1 DEF release_clears, LoadedStates, CallStates
    <2> QED
      BY <2>2, <2>3
  <1>4. /\ Unwinds(calls[t]) /\ Releases(calls[t]) /\ s \in RemoteSessions
        /\ remote_lease.token \in {0, s}
    BY <1>1 DEF CallOK, Releases, Unwinds, Unwinding, CallStates
  <1>5. PICK c \in CallStates :
           /\ calls' = [calls EXCEPT ![t] = c] /\ (calls[t].then = "idle" => c = NoCall)
           /\ calls[t].then = "clear" =>
                 /\ c.at = "clear" /\ c.session = calls[t].session
                 /\ c.reuse = calls[t].reuse /\ c.reverse = calls[t].reverse
                 /\ c.generation = calls[t].generation
    <2>1. CASE calls[t].then = "idle"
      BY <1>1, <2>1, NoCallTyped DEF release_clears, goes, CallStates
    <2>2. CASE calls[t].then = "clear"
      <3> DEFINE d == [calls[t] EXCEPT !.at = calls[t].then]
      <3>1. /\ d \in CallStates /\ d.at = "clear" /\ d.session = calls[t].session
            /\ d.reuse = calls[t].reuse /\ d.reverse = calls[t].reverse
            /\ d.generation = calls[t].generation
        BY <1>1, <2>2 DEF CallStates
      <3>2. goes(t, d)
        BY DEF release_clears
      <3> HIDE DEF d
      <3> QED
        BY <2>2, <3>1, <3>2 DEF goes
    <2> QED
      BY <1>1, <2>1, <2>2 DEF CallStates
  <1>6. calls[t].then \in {"idle", "clear"}
    BY <1>1 DEF CallStates
  <1>7. /\ c \in CallStates /\ ~Releases(c) /\ c.at # "install"
        /\ (Plays(c) <=> Plays(calls[t])) /\ (Main(c) <=> Main(calls[t]))
        /\ (NewLease(c) => NewLease(calls[t])) /\ (Plays(c) => c.reuse = calls[t].reuse)
    <2>1. CASE calls[t].then = "idle"
      BY <1>1, <1>5, <2>1, NoCallTyped, NoCallOK DEF Plays, Main, Unwinds, Unwinding
    <2>2. CASE calls[t].then = "clear"
      BY <1>1, <1>5, <2>2 DEF Plays, Main, NewLease, Releases, Unwinds, Unwinding
    <2> QED
      BY <1>6, <2>1, <2>2
  <1>8. CallOK(c)'
    <2>1. CASE calls[t].then = "idle"
      BY <1>5, <1>7, <2>1, NoCallTyped, NoCallOK
    <2>2. CASE calls[t].then = "clear"
      BY <1>1, <1>5, <2>2 DEF CallOK, Plays, Releases, Unwinds, Unwinding, Returns, NoRemoteLease
    <2> QED
      BY <1>6, <2>1, <2>2
  <1>9. \A u \in RemoteThreads \ {t} : PairOK(c, calls[u]) /\ PairOK(calls[u], c)
    BY <1>1, <1>7 DEF PairOK, Main
  <1>10. CallsOK'
    <2>1. \A u \in RemoteThreads \ {t} : Undisturbed(calls[u])
      BY <1>1 DEF Undisturbed, SameOwner
    <2> QED
      BY <1>5, <1>7, <1>8, <1>9, <2>1, CallsStep DEF RemoteInv
  <1>11. \A u \in RemoteThreads : calls'[u] = IF u = t THEN c ELSE calls[u]
    BY <1>5 DEF RemoteInv, RemoteTypes
  <1>12. /\ playback_refs' \in [RemoteSessions -> Nat]
         /\ \A r \in RemoteSessions : playback_refs'[r] = 0
    <2>1. /\ playback_refs \in [RemoteSessions -> Nat]
          /\ \A r \in RemoteSessions : playback_refs[r] = IF remote_lease.token = r THEN 1 ELSE 0
          /\ playback_refs' = [playback_refs EXCEPT ![s] = IF @ > 0 THEN @ - 1 ELSE 0]
      BY DEF RemoteInv, RemoteTypes, LeaseHeld, release_clears
    <2> QED
      BY <1>4, <2>1, RemoteAssumption
  <1>13. RemoteTypes' /\ LeaseHeld'
    BY <1>1, <1>3, <1>5, <1>7, <1>12, NoCallTyped, RemoteAssumption
       DEF RemoteInv, RemoteTypes, LeaseHeld, NoRemoteLease
  <1>14. ~remote.owner_claimed
    BY <1>1, <1>4, <1>6 DEF RemoteInv, OwnerHolds, CallOK, Plays, Returns
  <1>15. OwnerHolds'
    <2>1. (\E u \in RemoteThreads : Plays(calls[u])) => \E u \in RemoteThreads : Plays(calls'[u])
      BY <1>7, <1>11
    <2> QED
      BY <1>1, <1>14, <2>1 DEF RemoteInv, OwnerHolds
  <1>16. LoadedOK' /\ TakeoverOK' /\ ExchangeOK'
    BY <1>1, <1>3 DEF RemoteInv, LoadedOK, TakeoverOK, ExchangeOK
  <1>17. GenerationsOK'
    BY <1>1, <1>3, <1>7, <1>11 DEF RemoteInv, GenerationsOK, NoRemoteLease
  <1> QED
    BY <1>10, <1>13, <1>15, <1>16, <1>17 DEF RemoteInv

\* The owner goes: whoever cleared it gives the lease back.
LEMMA Clears ==
    ASSUME RemoteInv, takeover.at = "idle", NEW t \in RemoteThreads, NEW c \in CallStates,
           calls' = [calls EXCEPT ![t] = c], CallOK(c)', ~Plays(c),
           \A u \in RemoteThreads \ {t} : PairOK(c, calls[u]) /\ PairOK(calls[u], c),
           remote' \in RemoteStates, remote'.state = "IDLE", ~remote'.owner_claimed,
           remote'.generation >= remote.generation,
           current' \in Leases, current'.generation = current.generation,
           current' = current \/ ~loaded.playing,
           UNCHANGED <<hls, remote_lease, loaded, playback_refs, takeover>>,
           remote_lease.token # 0
           => \/ Releases(c)
              \/ ~remote.owner_claimed /\ ~Releases(calls[t]) /\ calls[t].at # "load"
    PROVE  RemoteInv'
  <1>1. \A u \in RemoteThreads : calls'[u] = IF u = t THEN c ELSE calls[u]
    BY DEF RemoteInv, RemoteTypes
  <1>2. RemoteTypes'
    BY DEF RemoteInv, RemoteTypes
  <1>3. CallsOK'
    <2>1. \A u \in RemoteThreads \ {t} : Undisturbed(calls[u])
      BY DEF Undisturbed
    <2> QED
      BY <2>1, CallsStep DEF RemoteInv
  <1>4. LeaseHeld'
    <2>1. remote_lease.token # 0
          => \E u \in RemoteThreads : Releases(calls'[u]) \/ calls'[u].at = "load"
      BY <1>1 DEF RemoteInv, LeaseHeld
    <2> QED
      BY <2>1 DEF RemoteInv, LeaseHeld
  <1>5. OwnerHolds' /\ TakeoverOK' /\ ExchangeOK'
    BY DEF RemoteInv, OwnerHolds, TakeoverOK, ExchangeOK
  <1>6. LoadedOK'
    BY DEF RemoteInv, LoadedOK, mine
  <1>7. GenerationsOK'
    <2>1. /\ remote.generation \in Nat /\ remote'.generation \in Nat /\ current.generation \in Nat
      BY RemoteAssumption DEF RemoteInv, RemoteTypes, RemoteStates, Leases
    <2>2. ~NewLease(c) /\ c.at # "install"
      BY DEF NewLease, Plays
    <2> QED
      BY <1>1, <2>1, <2>2 DEF RemoteInv, GenerationsOK
  <1> QED
    BY <1>2, <1>3, <1>4, <1>5, <1>6, <1>7 DEF RemoteInv

LEMMA IdleTyped ==
    ASSUME NEW g \in 0 .. MaxPlays
    PROVE  LET r == [IdleRemote EXCEPT !.generation = g]
           IN  r \in RemoteStates /\ r.state = "IDLE" /\ ~r.owner_claimed /\ r.generation = g
  <1>1. 0 \in 0 .. MaxPlays /\ 0 \in 0 .. 1
    BY RemoteAssumption
  <1>2. IdleRemote \in RemoteStates
    BY <1>1 DEF IdleRemote, RemoteStates, Starts
  <1>3. IdleRemote.state = "IDLE" /\ ~IdleRemote.owner_claimed
    BY DEF IdleRemote
  <1> QED
    BY <1>2, <1>3 DEF RemoteStates

\* clear_owner_locked
LEMMA Cleared ==
    ASSUME RemoteInv, NEW step \in {0, 1}, remote.generation < MaxPlays
    PROVE  LET r == clear_owner(step)
           IN  /\ r \in RemoteStates /\ r.state = "IDLE" /\ ~r.owner_claimed
               /\ r.generation >= remote.generation
  <1>1. remote.generation \in 0 .. MaxPlays
    BY DEF RemoteInv, RemoteTypes, RemoteStates
  <1> DEFINE g == remote.generation + step
  <1>2. g \in 0 .. MaxPlays /\ g >= remote.generation
    BY <1>1, RemoteAssumption
  <1>3. clear_owner(step) = [IdleRemote EXCEPT !.generation = g]
    BY DEF clear_owner
  <1> HIDE DEF g
  <1> QED
    BY <1>2, <1>3, IdleTyped

\* A call that returns, once the owner is gone.
LEMMA ReturnsOK ==
    ASSUME NEW c \in CallStates, Returns(c), remote'.state = "IDLE", c.session # 0, c.victim # 0,
           c.at # "releasing", Releases(c) => remote_lease'.token \in {0, c.victim}
    PROVE  CallOK(c)' /\ ~Plays(c) /\ ~Main(c)
  BY DEF CallOK, Returns, Plays, Main, Releases, Unwinds, Unwinding

LEMMA Remote_fails ==
    ASSUME RemoteInv, NEW t \in RemoteThreads, fails_generation(t)
    PROVE  RemoteInv'
  <1> DEFINE s == calls[t].session
             matches == bound(s) /\ remote.generation = calls[t].generation
             e == [calls[t] EXCEPT !.at = "reset", !.stop = matches /\ remote.state = "ACTIVE",
                                   !.release = matches /\ remote.owner_claimed,
                                   !.victim = s, !.victim_generation = calls[t].generation,
                                   !.then = "idle"]
  <1>1. /\ takeover.at = "idle" /\ calls[t] \in CallStates /\ CallOK(calls[t])
        /\ \A u \in RemoteThreads \ {t} : PairOK(calls[t], calls[u]) /\ PairOK(calls[u], calls[t])
        /\ calls[t].at = "fail" /\ goes(t, e)
        /\ remote' = IF matches THEN clear_owner(1) ELSE remote
        /\ UNCHANGED <<hls, remote_lease, current, loaded, playback_refs, takeover>>
    BY Busy DEF fails_generation
  <1>2. remote.state # "IDLE" => matches /\ ~remote.owner_claimed /\ remote.generation < MaxPlays
    BY <1>1 DEF CallOK, bound, RemoteInv, OwnerHolds
  <1>3. ~remote.owner_claimed /\ (~matches => remote.state = "IDLE")
    BY <1>2 DEF RemoteInv, OwnerHolds
  <1>4. remote.generation \in Nat /\ remote \in RemoteStates
    BY DEF RemoteInv, RemoteTypes, RemoteStates
  <1>5. /\ remote' \in RemoteStates /\ remote'.state = "IDLE" /\ ~remote'.owner_claimed
        /\ remote'.generation >= remote.generation
    BY <1>1, <1>2, <1>3, <1>4, Cleared DEF bound
  <1>6. /\ e \in CallStates /\ e.at = "reset" /\ e.session = s /\ e.victim = s /\ e.then = "idle"
        /\ ~e.release
    BY <1>1, <1>3 DEF CallStates, Unwinding
  <1> HIDE DEF e
  <1>7. PICK c \in CallStates : /\ c.at = "reset" /\ c.session = s /\ c.victim = s /\ c.then = "idle"
                                /\ ~c.release /\ calls' = [calls EXCEPT ![t] = c]
    BY <1>1, <1>6 DEF goes
  <1>8. /\ Returns(c) /\ ~Releases(c) /\ s # 0 /\ Main(calls[t]) /\ ~Releases(calls[t])
        /\ calls[t].at # "load"
    BY <1>1, <1>7 DEF CallOK, Returns, Releases, Main, Unwinds, Unwinding
  <1>9. CallOK(c)' /\ ~Plays(c) /\ ~Main(c)
    BY <1>5, <1>7, <1>8, ReturnsOK
  <1>10. \A u \in RemoteThreads \ {t} : PairOK(c, calls[u]) /\ PairOK(calls[u], c)
    BY <1>1, <1>8, <1>9 DEF PairOK
  <1>11. current \in Leases
    BY DEF RemoteInv, RemoteTypes
  <1> QED
    BY <1>1, <1>3, <1>5, <1>7, <1>8, <1>9, <1>10, <1>11, Clears

LEMMA Remote_refused ==
    ASSUME RemoteInv, NEW t \in RemoteThreads, play_refused(t)
    PROVE  RemoteInv'
  <1> DEFINE matches == /\ remote.generation = calls[t].generation
                        /\ remote.owner_session_id = calls[t].session
  <1>1. /\ takeover.at = "idle" /\ calls[t] \in CallStates /\ CallOK(calls[t])
        /\ calls[t].at \in {"claim", "install"} /\ goes(t, NoCall)
        /\ remote' = IF matches THEN clear_owner(0) ELSE remote
        /\ UNCHANGED <<hls, remote_lease, loaded, playback_refs, takeover>>
    BY Busy DEF play_refused
  <1>2. /\ remote_lease = NoRemoteLease /\ ~Releases(calls[t]) /\ calls[t].at # "load"
        /\ remote.state # "IDLE" => matches /\ ~remote.owner_claimed
    BY <1>1 DEF CallOK, Plays, Releases, Unwinds, Unwinding
  <1>3. /\ ~remote.owner_claimed /\ ~loaded.playing
        /\ remote.state # "IDLE" => remote.generation < MaxPlays
    BY <1>2 DEF RemoteInv, OwnerHolds, LoadedOK, mine, NoRemoteLease
  <1>4. remote.generation \in 0 .. MaxPlays /\ remote \in RemoteStates /\ current \in Leases
    BY DEF RemoteInv, RemoteTypes, RemoteStates
  <1>5. /\ remote' \in RemoteStates /\ remote'.state = "IDLE" /\ ~remote'.owner_claimed
        /\ remote'.generation >= remote.generation
    <2>1. CASE remote.state = "IDLE" /\ matches
      <3>1. remote.generation + 0 = remote.generation
        BY <1>4
      <3>2. remote' = [IdleRemote EXCEPT !.generation = remote.generation]
        BY <1>1, <2>1, <3>1 DEF clear_owner
      <3> QED
        BY <1>4, <3>2, IdleTyped
    <2>2. CASE remote.state # "IDLE"
      BY <1>1, <1>2, <1>3, <2>2, Cleared
    <2>3. CASE remote.state = "IDLE" /\ ~matches
      BY <1>1, <1>3, <1>4, <2>3
    <2> QED
      BY <2>1, <2>2, <2>3
  <1>6. current' \in Leases /\ current'.generation = current.generation
    BY <1>4 DEF play_refused, Leases
  <1>7. PICK c \in CallStates : c.at = "idle" /\ calls' = [calls EXCEPT ![t] = c]
    BY <1>1, NoCallTyped DEF goes
  <1>8. CallOK(c)' /\ ~Plays(c) /\ \A d : PairOK(c, d) /\ PairOK(d, c)
    BY <1>7, NoCallOK
  <1> QED
    BY <1>1, <1>2, <1>3, <1>5, <1>6, <1>7, <1>8, Clears

\* The load is refused.
LEMMA Remote_load_refused ==
    ASSUME RemoteInv, NEW t \in RemoteThreads, play_loads(t, FALSE)
    PROVE  RemoteInv'
  <1> DEFINE s == calls[t].session
             e == [calls[t] EXCEPT !.at = "stop", !.stop = TRUE, !.release = TRUE,
                                   !.victim = s, !.then = "idle"]
  <1>1. /\ takeover.at = "idle" /\ calls[t] \in CallStates /\ CallOK(calls[t])
        /\ \A u \in RemoteThreads \ {t} : PairOK(calls[t], calls[u]) /\ PairOK(calls[u], calls[t])
        /\ calls[t].at = "load" /\ goes(t, e) /\ remote.state = "ACTIVE"
        /\ remote' = clear_owner(1)
        /\ UNCHANGED <<hls, remote_lease, current, loaded, playback_refs, takeover>>
    BY Busy DEF play_loads, still_owner, owned
  <1>2. /\ remote' \in RemoteStates /\ remote'.state = "IDLE" /\ ~remote'.owner_claimed
        /\ remote'.generation >= remote.generation
    BY <1>1, Cleared DEF RemoteInv, OwnerHolds
  <1>3. e \in CallStates /\ e.at = "stop" /\ e.session = s /\ e.victim = s /\ e.then = "idle" /\ e.release
    BY <1>1 DEF CallStates, Unwinding
  <1> HIDE DEF e
  <1>4. PICK c \in CallStates : /\ c.at = "stop" /\ c.session = s /\ c.victim = s /\ c.then = "idle"
                                /\ c.release /\ calls' = [calls EXCEPT ![t] = c]
    BY <1>1, <1>3 DEF goes
  <1>5. /\ Returns(c) /\ Releases(c) /\ s # 0 /\ Main(calls[t]) /\ remote_lease.token \in {0, s}
    BY <1>1, <1>4 DEF CallOK, Returns, Releases, Main, Plays, Unwinds, Unwinding
  <1>6. CallOK(c)' /\ ~Plays(c) /\ ~Main(c)
    BY <1>1, <1>2, <1>4, <1>5, ReturnsOK
  <1>7. \A u \in RemoteThreads \ {t} : PairOK(c, calls[u]) /\ PairOK(calls[u], c)
    BY <1>1, <1>5, <1>6 DEF PairOK, Main
  <1>8. current \in Leases
    BY DEF RemoteInv, RemoteTypes
  <1> QED
    BY <1>1, <1>2, <1>4, <1>5, <1>6, <1>7, <1>8, Clears

\* A request that ends what there is.
LEMMA Terminated ==
    ASSUME RemoteInv, takeover.at = "idle", NEW t \in RemoteThreads, calls[t].at = "idle",
           NEW s \in RemoteSessions, bound(s), remote.generation < MaxPlays,
           NEW c \in CallStates, c.at = "reset", c.session = s, c.victim = s, c.then = "idle",
           c.release <=> remote.owner_claimed, calls' = [calls EXCEPT ![t] = c],
           remote' = clear_owner(1),
           UNCHANGED <<hls, remote_lease, current, loaded, playback_refs, takeover>>
    PROVE  RemoteInv'
  <1>1. calls[t] \in CallStates /\ ~Plays(calls[t]) /\ ~Releases(calls[t]) /\ ~Main(calls[t])
    BY Free
  <1>2. /\ remote' \in RemoteStates /\ remote'.state = "IDLE" /\ ~remote'.owner_claimed
        /\ remote'.generation >= remote.generation
    BY Cleared
  <1>3. Returns(c) /\ (Releases(c) <=> remote.owner_claimed) /\ s # 0
    BY RemoteAssumption DEF Returns, Releases, Unwinds, Unwinding
  <1>4. remote.owner_claimed => remote_lease.token = s
    BY DEF RemoteInv, OwnerHolds, bound
  <1>5. CallOK(c)' /\ ~Plays(c) /\ ~Main(c)
    BY <1>2, <1>3, <1>4, ReturnsOK
  <1>6. \A u \in RemoteThreads \ {t} : PairOK(c, calls[u]) /\ PairOK(calls[u], c)
    <2>1. \A u \in RemoteThreads : Plays(calls[u]) => (remote.owner_claimed <=> calls[u].reuse)
      BY DEF RemoteInv, CallsOK, CallOK, bound
    <2> QED
      BY <1>3, <1>5, <2>1 DEF PairOK
  <1>7. current \in Leases
    BY DEF RemoteInv, RemoteTypes
  <1> QED
    BY <1>1, <1>2, <1>3, <1>5, <1>6, <1>7, Clears

LEMMA Remote_terminates ==
    ASSUME RemoteInv, ~overlapped', NEW t \in RemoteThreads, NEW s \in RemoteSessions,
           terminates(t, s)
    PROVE  RemoteInv'
  <1> DEFINE e == [NoCall EXCEPT !.at = "reset", !.session = s, !.generation = remote.generation,
                                 !.stop = remote.state = "ACTIVE", !.release = remote.owner_claimed,
                                 !.victim = s, !.victim_generation = remote.generation]
  <1>1. /\ calls[t].at = "idle" /\ takeover.at = "idle" /\ bound(s) /\ remote.generation < MaxPlays
        /\ remote' = clear_owner(1) /\ goes(t, e)
        /\ UNCHANGED <<hls, remote_lease, current, loaded, playback_refs, takeover>>
    BY DEF terminates, fresh
  <1>2. remote.generation \in 0 .. MaxPlays /\ remote.owner_claimed \in BOOLEAN
    BY DEF RemoteInv, RemoteTypes, RemoteStates
  <1>3. /\ e \in CallStates /\ e.at = "reset" /\ e.session = s /\ e.victim = s /\ e.then = "idle"
        /\ e.release = remote.owner_claimed
    BY <1>2, NoCallTyped DEF NoCall, CallStates, Unwinding
  <1> HIDE DEF e
  <1>4. calls' = [calls EXCEPT ![t] = e]
    BY <1>1, <1>3 DEF goes
  <1> QED
    BY <1>1, <1>3, <1>4, Terminated

LEMMA Remote_session_ends ==
    ASSUME RemoteInv, ~overlapped', NEW t \in RemoteThreads, NEW s \in RemoteSessions,
           session_ends(t, s)
    PROVE  RemoteInv'
  <1>1. /\ calls[t].at = "idle" /\ takeover.at = "idle" /\ bound(s) /\ remote.generation < MaxPlays
        /\ UNCHANGED <<hls, remote_lease, current, loaded, playback_refs, takeover>>
    BY DEF session_ends, fresh
  <1>2. remote.generation \in 0 .. MaxPlays /\ remote \in RemoteStates
    BY DEF RemoteInv, RemoteTypes, RemoteStates
  <1>3. CASE hls_pending(s)
    <2> DEFINE e == [NoCall EXCEPT !.at = "reset", !.session = s, !.generation = remote.generation,
                                   !.victim = s, !.victim_generation = remote.generation]
    <2>1. remote' = clear_owner(1) /\ goes(t, e)
      BY <1>3 DEF session_ends
    <2>2. /\ e \in CallStates /\ e.at = "reset" /\ e.session = s /\ e.victim = s /\ e.then = "idle"
          /\ ~e.release
      BY <1>2, NoCallTyped DEF NoCall, CallStates, Unwinding
    <2>3. ~remote.owner_claimed
      BY <1>3 DEF hls_pending, RemoteInv, OwnerHolds
    <2> HIDE DEF e
    <2>4. calls' = [calls EXCEPT ![t] = e]
      BY <2>1, <2>2 DEF goes
    <2> QED
      BY <1>1, <2>1, <2>2, <2>3, <2>4, Terminated
  <1>4. CASE ~hls_pending(s)
    <2>1. remote' = [remote EXCEPT !.control_attached = FALSE] /\ UNCHANGED calls
      BY <1>4 DEF session_ends
    <2>2. SameOwner /\ remote' \in RemoteStates
      BY <1>2, <2>1 DEF SameOwner, RemoteStates
    <2> QED
      BY <1>1, <2>1, <2>2, Controls
  <1> QED
    BY <1>3, <1>4

\* A step beside which no other call is under way.
LEMMA OneCall ==
    ASSUME RemoteTypes, NEW t \in RemoteThreads, NEW c \in CallStates,
           calls' = [calls EXCEPT ![t] = c], CallOK(c)',
           \A u \in RemoteThreads \ {t} : calls[u].at = "idle"
    PROVE  /\ CallsOK' /\ calls' \in [RemoteThreads -> CallStates] /\ calls'[t] = c
           /\ \A u \in RemoteThreads \ {t} :
                 /\ ~Plays(calls'[u]) /\ ~Releases(calls'[u]) /\ ~NewLease(calls'[u])
                 /\ calls'[u].at = "idle"
  <1>1. \A u \in RemoteThreads : calls[u] \in CallStates /\ calls'[u] = IF u = t THEN c ELSE calls[u]
    BY DEF RemoteTypes
  <1>2. ASSUME NEW d \in CallStates, d.at = "idle"
        PROVE  /\ CallOK(d)' /\ ~Plays(d) /\ ~Releases(d) /\ ~NewLease(d)
               /\ \A e : PairOK(d, e) /\ PairOK(e, d)
    BY <1>2, NoCallOK
  <1>3. ASSUME NEW u \in RemoteThreads, u # t
        PROVE  /\ CallOK(calls[u])' /\ ~Plays(calls'[u]) /\ ~Releases(calls'[u])
               /\ ~NewLease(calls'[u]) /\ calls'[u].at = "idle"
               /\ \A e : PairOK(calls'[u], e) /\ PairOK(e, calls'[u])
    <2>1. PICK d \in CallStates : d = calls[u] /\ d.at = "idle"
      BY <1>1, <1>3
    <2>2. /\ CallOK(d)' /\ ~Plays(d) /\ ~Releases(d) /\ ~NewLease(d)
          /\ \A e : PairOK(d, e) /\ PairOK(e, d)
      BY <1>2, <2>1
    <2>3. calls'[u] = d
      BY <1>1, <1>3, <2>1
    <2>4. CallOK(calls[u])'
      BY <2>2, <2>3 DEF CallOK
    <2> QED
      BY <2>1, <2>2, <2>3, <2>4
  <1>4. CallOK(calls[t])'
    BY <1>1 DEF CallOK
  <1>5. CallsOK'
    BY <1>3, <1>4 DEF CallsOK
  <1>6. calls' \in [RemoteThreads -> CallStates] /\ calls'[t] = c
    BY <1>1 DEF RemoteTypes
  <1> QED
    BY <1>3, <1>5, <1>6

LEMMA Remote_load_accepted ==
    ASSUME RemoteInv, NEW t \in RemoteThreads, play_loads(t, TRUE)
    PROVE  RemoteInv'
  <1>1. /\ takeover.at = "idle" /\ calls[t] \in CallStates /\ CallOK(calls[t])
        /\ calls[t].at = "load" /\ goes(t, NoCall) /\ remote.state = "ACTIVE"
        /\ remote.owner_session_id = calls[t].session /\ mine(remote_lease)
        /\ remote' = [remote EXCEPT !.owner_claimed = TRUE, !.control_attached = TRUE]
        /\ loaded' = load_ordered(remote.generation)
        /\ UNCHANGED <<hls, remote_lease, current, playback_refs, takeover>>
    BY Busy DEF play_loads, still_owner, owned
  <1>2. remote \in RemoteStates /\ RemoteTypes
    BY DEF RemoteInv, RemoteTypes
  <1>3. Main(calls[t]) /\ remote_lease.token = calls[t].session
    BY <1>1 DEF CallOK, mine, Main, Plays
  <1>4. \A u \in RemoteThreads \ {t} : calls[u].at = "idle"
    BY <1>1, <1>3, OthersIdle
  <1>5. PICK c \in CallStates : c.at = "idle" /\ calls' = [calls EXCEPT ![t] = c]
    BY <1>1, NoCallTyped DEF goes
  <1>6. CallOK(c)' /\ ~Plays(c) /\ ~Releases(c) /\ ~NewLease(c)
    BY <1>5, NoCallOK
  <1>7. /\ CallsOK' /\ calls' \in [RemoteThreads -> CallStates]
        /\ \A u \in RemoteThreads : ~Plays(calls'[u]) /\ ~NewLease(calls'[u]) /\ calls'[u].at = "idle"
    BY <1>2, <1>4, <1>5, <1>6, OneCall
  <1>8. /\ remote' \in RemoteStates /\ remote'.state = "ACTIVE" /\ remote'.owner_claimed
        /\ remote'.owner_session_id = remote.owner_session_id
        /\ remote'.generation = remote.generation
    BY <1>1, <1>2 DEF RemoteStates
  <1>9. loaded' \in LoadedStates /\ loaded'.generation = remote.generation
    <2>1. 0 \in 0 .. MaxPlays /\ remote.generation \in 0 .. MaxPlays
      BY <1>2, RemoteAssumption DEF RemoteStates
    <2> QED
      BY <1>1, <2>1 DEF load_ordered, LoadedStates
  <1>10. RemoteTypes' /\ LeaseHeld' /\ OwnerHolds'
    BY <1>1, <1>3, <1>7, <1>8, <1>9 DEF RemoteInv, RemoteTypes, LeaseHeld, OwnerHolds
  <1>11. LoadedOK' /\ TakeoverOK' /\ ExchangeOK' /\ GenerationsOK'
    BY <1>1, <1>7, <1>8, <1>9
       DEF RemoteInv, LoadedOK, TakeoverOK, ExchangeOK, GenerationsOK, mine
  <1> QED
    BY <1>7, <1>10, <1>11 DEF RemoteInv

LEMMA Remote_ready ==
    ASSUME RemoteInv, NEW t \in RemoteThreads, NEW accepted \in BOOLEAN, action_ready(t, accepted)
    PROVE  RemoteInv'
  <1> DEFINE s == calls[t].session
             new == claimed_lease(s)
             e == [calls[t] EXCEPT !.at = "reset", !.stop = TRUE, !.release = TRUE,
                                   !.victim = s, !.victim_generation = calls[t].generation]
  <1>1. /\ takeover.at = "idle" /\ calls[t] \in CallStates /\ CallOK(calls[t])
        /\ calls[t].at = "ready" /\ remote.state = "PENDING_HLS" /\ remote.owner_session_id = s
        /\ current' = new /\ remote_lease' = new
        /\ playback_refs' = [playback_refs EXCEPT ![s] = @ + 1]
        /\ UNCHANGED <<hls, takeover>>
    BY Busy DEF action_ready, pending_generation, hls_pending
  <1>2. /\ remote \in RemoteStates /\ RemoteTypes /\ current \in Leases /\ loaded \in LoadedStates
        /\ remote.generation \in Nat /\ current.generation \in Nat
    BY RemoteAssumption DEF RemoteInv, RemoteTypes, RemoteStates, Leases
  <1>3. /\ Main(calls[t]) /\ ~Plays(calls[t]) /\ ~Releases(calls[t]) /\ calls[t].at # "load"
        /\ s \in RemoteSessions
    BY <1>1 DEF CallOK, Main, Plays, Releases, Unwinds, Unwinding, CallStates
  <1>4. \A u \in RemoteThreads \ {t} : calls[u].at = "idle" /\ ~Releases(calls[u])
    BY <1>1, <1>3, OthersIdle
  <1>5. current.generation < remote.generation /\ remote.generation < MaxPlays
    BY <1>1 DEF RemoteInv, GenerationsOK, OwnerHolds
  <1>6. /\ new \in Leases /\ new.token = s /\ new.generation <= remote.generation
        /\ new.generation > 0
    BY <1>2, <1>3, <1>5, RemoteAssumption DEF claimed_lease, Leases
  <1> HIDE DEF new
  <1>7. remote_lease.token = 0
    <2>1. ~remote.owner_claimed
      BY <1>1 DEF RemoteInv, OwnerHolds
    <2>2. \A u \in RemoteThreads : ~Releases(calls[u]) /\ calls[u].at # "load"
      BY <1>3, <1>4
    <2> QED
      BY <1>1, <2>1, <2>2 DEF RemoteInv, LeaseHeld
  <1>8. /\ playback_refs' \in [RemoteSessions -> Nat]
        /\ \A r \in RemoteSessions : playback_refs'[r] = IF new.token = r THEN 1 ELSE 0
    <2>1. /\ playback_refs \in [RemoteSessions -> Nat]
          /\ \A r \in RemoteSessions : playback_refs[r] = 0
      BY <1>7, RemoteAssumption DEF RemoteInv, RemoteTypes, LeaseHeld
    <2>2. 1 \in 0 .. MaxPlays
      BY <1>2, <1>5, RemoteAssumption
    <2> QED
      BY <1>1, <1>3, <1>6, <2>1, <2>2, RemoteAssumption
  <1>9. CASE accepted
    <2>1. /\ remote' = [remote EXCEPT !.state = "ACTIVE", !.owner_claimed = TRUE,
                                      !.control_attached = TRUE]
          /\ loaded' = load_ordered(remote.generation) /\ goes(t, NoCall)
      BY <1>9 DEF action_ready
    <2>2. PICK c \in CallStates : c.at = "idle" /\ calls' = [calls EXCEPT ![t] = c]
      BY <2>1, NoCallTyped DEF goes
    <2>3. CallOK(c)' /\ ~Plays(c) /\ ~Releases(c) /\ ~NewLease(c)
      BY <2>2, NoCallOK
    <2>4. /\ CallsOK' /\ calls' \in [RemoteThreads -> CallStates]
          /\ \A u \in RemoteThreads : ~Plays(calls'[u]) /\ ~NewLease(calls'[u]) /\ calls'[u].at = "idle"
      BY <1>2, <1>4, <2>2, <2>3, OneCall
    <2>5. /\ remote' \in RemoteStates /\ remote'.state = "ACTIVE" /\ remote'.owner_claimed
          /\ remote'.owner_session_id = s /\ remote'.generation = remote.generation
      BY <1>1, <1>2, <2>1 DEF RemoteStates
    <2>6. loaded' \in LoadedStates /\ loaded'.generation = remote.generation
      <3>1. 0 \in 0 .. MaxPlays /\ remote.generation \in 0 .. MaxPlays
        BY <1>2, RemoteAssumption DEF RemoteStates
      <3> QED
        BY <2>1, <3>1 DEF load_ordered, LoadedStates
    <2>7. RemoteTypes' /\ LeaseHeld' /\ OwnerHolds'
      BY <1>1, <1>2, <1>3, <1>5, <1>6, <1>8, <2>4, <2>5, <2>6, RemoteAssumption
         DEF RemoteInv, RemoteTypes, LeaseHeld, OwnerHolds
    <2>8. LoadedOK' /\ TakeoverOK' /\ ExchangeOK' /\ GenerationsOK'
      BY <1>1, <1>2, <1>3, <1>5, <1>6, <2>4, <2>5, <2>6, RemoteAssumption
         DEF RemoteInv, LoadedOK, TakeoverOK, ExchangeOK, GenerationsOK, mine
    <2> QED
      BY <2>4, <2>7, <2>8 DEF RemoteInv
  <1>10. CASE ~accepted
    <2>1. /\ remote' = clear_owner(1) /\ loaded' = [loaded EXCEPT !.playing = FALSE] /\ goes(t, e)
      BY <1>10 DEF action_ready
    <2>2. /\ e \in CallStates /\ e.at = "reset" /\ e.session = s /\ e.victim = s /\ e.release
          /\ e.then = "idle"
      BY <1>1 DEF CallStates, Unwinding, CallOK
    <2> HIDE DEF e
    <2>3. PICK c \in CallStates : /\ c.at = "reset" /\ c.session = s /\ c.victim = s /\ c.release
                                  /\ c.then = "idle" /\ calls' = [calls EXCEPT ![t] = c]
      BY <2>1, <2>2 DEF goes
    <2>4. /\ remote' \in RemoteStates /\ remote'.state = "IDLE" /\ ~remote'.owner_claimed
          /\ remote'.generation >= remote.generation
      BY <1>5, <2>1, Cleared
    <2>5. Returns(c) /\ Releases(c) /\ s # 0
      BY <1>3, <2>3, RemoteAssumption DEF Returns, Releases, Unwinds, Unwinding
    <2>6. CallOK(c)' /\ ~Plays(c) /\ ~NewLease(c)
      <3>1. remote_lease'.token = s
        BY <1>1, <1>6
      <3>2. CallOK(c)' /\ ~Plays(c) /\ ~Main(c)
        BY <2>3, <2>4, <2>5, <3>1, ReturnsOK
      <3> QED
        BY <3>2 DEF NewLease
    <2>7. /\ CallsOK' /\ calls' \in [RemoteThreads -> CallStates] /\ calls'[t] = c
          /\ \A u \in RemoteThreads : ~NewLease(calls'[u]) /\ calls'[u].at # "install"
      BY <1>2, <1>4, <2>3, <2>6, OneCall
    <2>8. loaded' \in LoadedStates /\ ~loaded'.playing
      BY <1>2, <2>1 DEF LoadedStates
    <2>9. remote'.generation \in Nat
      BY <2>4, RemoteAssumption DEF RemoteStates
    <2>10. RemoteTypes' /\ LeaseHeld' /\ OwnerHolds'
      BY <1>1, <1>2, <1>3, <1>6, <1>8, <2>4, <2>5, <2>7, <2>8, RemoteAssumption
         DEF RemoteTypes, LeaseHeld, OwnerHolds
    <2>11. LoadedOK' /\ TakeoverOK' /\ ExchangeOK'
      BY <1>1, <2>8 DEF RemoteInv, LoadedOK, TakeoverOK, ExchangeOK
    <2>12. GenerationsOK'
      <3>1. new.generation \in Nat
        BY <1>6, RemoteAssumption DEF Leases
      <3> QED
        BY <1>1, <1>2, <1>5, <1>6, <2>4, <2>7, <2>9, <3>1 DEF GenerationsOK
    <2> QED
      BY <2>7, <2>10, <2>11, <2>12 DEF RemoteInv
  <1> QED
    BY <1>9, <1>10

LEMMA Remote_begins ==
    ASSUME RemoteInv, ~overlapped', NEW t \in RemoteThreads, NEW s \in RemoteSessions,
           NEW play \in PlayRequests, play_begins(t, s, play)
    PROVE  RemoteInv'
  <1> DEFINE reuse == ~play.reverse /\ owned(s) /\ remote.owner_claimed
             replace == remote.state # "IDLE" /\ ~reuse
             g == remote.generation + 1
             r == [routed(s) EXCEPT
                     !.state = IF play.reverse THEN "PENDING_HLS" ELSE "ACTIVE",
                     !.owner_claimed = reuse, !.owner_session_id = s,
                     !.generation = g, !.requested_rate = 1, !.pending_seek = play.start]
             e == [NoCall EXCEPT
                     !.at = IF replace THEN "reset" ELSE "clear",
                     !.session = s, !.generation = g, !.reverse = play.reverse, !.reuse = reuse,
                     !.stop = replace /\ remote.state = "ACTIVE",
                     !.release = replace /\ remote.owner_claimed,
                     !.victim = remote.owner_session_id, !.victim_generation = remote.generation,
                     !.then = "clear"]
  <1>1. /\ takeover.at = "idle" /\ (\A u \in RemoteThreads : calls[u].at = "idle") /\ g < MaxPlays
        /\ remote' = r /\ goes(t, e)
        /\ UNCHANGED <<hls, remote_lease, current, loaded, playback_refs, takeover>>
    BY DEF play_begins, fresh_play, alone
  <1>2. /\ remote \in RemoteStates /\ RemoteTypes /\ current \in Leases /\ s # 0
        /\ remote.generation \in Nat /\ current.generation \in Nat
        /\ play.reverse \in BOOLEAN /\ play.start \in Starts
    BY RemoteAssumption DEF RemoteInv, RemoteTypes, RemoteStates, Leases, PlayRequests
  <1>3. g \in 0 .. MaxPlays /\ g > remote.generation /\ g \in Nat
    BY <1>1, <1>2, RemoteAssumption
  <1>4. reuse \in BOOLEAN /\ replace \in BOOLEAN
    OBVIOUS
  <1>5. /\ remote' \in RemoteStates /\ remote'.owner_session_id = s /\ remote'.generation = g
        /\ remote'.state = (IF play.reverse THEN "PENDING_HLS" ELSE "ACTIVE")
        /\ remote'.owner_claimed = reuse
    <2> DEFINE q == routed(s)
    <2>1. q \in RemoteStates
      <3>1. (remote.control_attached \/ owned(s)) \in BOOLEAN
        OBVIOUS
      <3>2. q = [remote EXCEPT !.control_attached = remote.control_attached \/ owned(s)]
        BY DEF routed
      <3> QED
        BY <1>2, <3>1, <3>2 DEF RemoteStates
    <2>2. remote' = [q EXCEPT
                     !.state = IF play.reverse THEN "PENDING_HLS" ELSE "ACTIVE",
                     !.owner_claimed = reuse, !.owner_session_id = s,
                     !.generation = g, !.requested_rate = 1, !.pending_seek = play.start]
      BY <1>1
    <2>3. 1 \in 0 .. 1 /\ (IF play.reverse THEN "PENDING_HLS" ELSE "ACTIVE") \in {"PENDING_HLS", "ACTIVE"}
      OBVIOUS
    <2> HIDE DEF q, reuse, g
    <2> QED
      BY <1>2, <1>3, <1>4, <2>1, <2>2, <2>3 DEF RemoteStates
  <1>6. /\ e \in CallStates /\ e.at = (IF replace THEN "reset" ELSE "clear") /\ e.session = s
        /\ e.generation = g /\ e.reverse = play.reverse /\ e.reuse = reuse
        /\ (e.release <=> replace /\ remote.owner_claimed)
        /\ e.victim = remote.owner_session_id /\ e.then = "clear"
    <2>1. /\ remote.owner_session_id \in RemoteSessions \cup {0} /\ remote.generation \in 0 .. MaxPlays
          /\ remote.owner_claimed \in BOOLEAN
      BY <1>2 DEF RemoteStates
    <2> DEFINE at == IF replace THEN "reset" ELSE "clear"
               stop == replace /\ remote.state = "ACTIVE"
               release == replace /\ remote.owner_claimed
    <2>2. stop \in BOOLEAN /\ release \in BOOLEAN /\ at \in {"reset", "clear"}
      OBVIOUS
    <2> DEFINE k == [NoCall EXCEPT !.at = at, !.session = s, !.generation = g,
                                   !.reverse = play.reverse, !.reuse = reuse]
    <2>3. e = [k EXCEPT !.stop = stop, !.release = release, !.victim = remote.owner_session_id,
                        !.victim_generation = remote.generation, !.then = "clear"]
      OBVIOUS
    <2> HIDE DEF reuse, g, at, stop, release, e
    <2>4. /\ k \in CallStates /\ k.at = at /\ k.session = s /\ k.generation = g
          /\ k.reverse = play.reverse /\ k.reuse = reuse
      BY <1>2, <1>3, <1>4, <2>2, NoCallTyped DEF CallStates, Unwinding
    <2> HIDE DEF k
    <2>5. /\ e \in CallStates /\ e.at = at /\ e.session = s /\ e.generation = g
          /\ e.reverse = play.reverse /\ e.reuse = reuse /\ e.release = release
          /\ e.victim = remote.owner_session_id /\ e.then = "clear"
      BY <2>1, <2>2, <2>3, <2>4 DEF CallStates
    <2> QED
      BY <2>5 DEF at, release
  <1>7. reuse => remote.state = "ACTIVE" /\ remote.owner_claimed /\ remote_lease.token = s
    BY DEF owned, RemoteInv, OwnerHolds
  <1>8. remote_lease.token # 0 => remote.owner_claimed
    <2>1. \A u \in RemoteThreads : ~Releases(calls[u]) /\ calls[u].at # "load"
      BY <1>1, Free
    <2> QED
      BY <1>1, <2>1 DEF RemoteInv, LeaseHeld
  <1>9. remote.owner_claimed => remote.state = "ACTIVE" /\ remote_lease.token = remote.owner_session_id
    BY DEF RemoteInv, OwnerHolds
  <1>10. remote.state # "IDLE" => remote.owner_session_id # 0
    BY DEF RemoteInv, OwnerHolds
  <1>11. /\ remote_lease.token = 0 => remote_lease = NoRemoteLease
         /\ current.generation <= remote.generation
    BY DEF RemoteInv, LeaseHeld, GenerationsOK
  <1>12. reuse => ~play.reverse
    OBVIOUS
  <1> HIDE DEF e, r, reuse, g
  <1>13. PICK c \in CallStates :
            /\ c.at = (IF replace THEN "reset" ELSE "clear") /\ c.session = s
            /\ c.generation = g /\ c.reverse = play.reverse /\ c.reuse = reuse
            /\ (c.release <=> replace /\ remote.owner_claimed)
            /\ c.victim = remote.owner_session_id /\ c.then = "clear"
            /\ calls' = [calls EXCEPT ![t] = c]
    BY <1>1, <1>6 DEF goes
  <1>14. Plays(c) /\ ~Returns(c) /\ (Releases(c) <=> replace /\ remote.owner_claimed)
         /\ (Unwinds(c) <=> replace)
    BY <1>13 DEF Plays, Returns, Releases, Unwinds, Unwinding
  <1>15. replace <=> remote.state # "IDLE" /\ ~reuse
    OBVIOUS
  <1> HIDE DEF replace
  <1>16. CallOK(c)'
    <2>1. Releases(c) => remote_lease'.token \in {0, c.victim}
      BY <1>1, <1>9, <1>13, <1>14
    <2>2. Plays(c) /\ ~c.reuse /\ c.at # "load" /\ ~Releases(c) => remote_lease' = NoRemoteLease
      BY <1>1, <1>8, <1>9, <1>11, <1>13, <1>14, <1>15
    <2>3. c.at = "load" \/ (c.at = "clear" /\ c.reuse) => remote_lease'.token \in {0, c.session}
      BY <1>1, <1>7, <1>13
    <2>4. c.at \in {"reset", "clear"} /\ (c.reuse => c.at = "clear")
      BY <1>13, <1>15
    <2> QED
      BY <1>2, <1>5, <1>10, <1>12, <1>13, <1>14, <1>15, <2>1, <2>2, <2>3, <2>4 DEF CallOK
  <1>17. /\ CallsOK' /\ calls' \in [RemoteThreads -> CallStates] /\ calls'[t] = c
         /\ \A u \in RemoteThreads \ {t} : ~NewLease(calls'[u]) /\ calls'[u].at = "idle"
    BY <1>1, <1>2, <1>13, <1>16, OneCall
  <1>18. c.at # "install"
    BY <1>13
  <1>19. RemoteTypes'
    BY <1>1, <1>5, <1>17 DEF RemoteInv, RemoteTypes
  <1>20. LeaseHeld'
    BY <1>1, <1>5, <1>8, <1>9, <1>14, <1>15, <1>17 DEF RemoteInv, LeaseHeld
  <1>21. OwnerHolds'
    BY <1>1, <1>2, <1>5, <1>7, <1>12, <1>14, <1>17 DEF OwnerHolds
  <1>22. LoadedOK' /\ TakeoverOK' /\ ExchangeOK'
    BY <1>1, <1>14, <1>17 DEF RemoteInv, LoadedOK, TakeoverOK, ExchangeOK, mine
  <1>23. GenerationsOK'
    BY <1>1, <1>2, <1>3, <1>5, <1>11, <1>17, <1>18 DEF GenerationsOK
  <1> QED
    BY <1>17, <1>19, <1>20, <1>21, <1>22, <1>23 DEF RemoteInv

\* While another protocol takes over, no request is under way.
LEMMA AllIdle ==
    ASSUME RemoteTypes, \A u \in RemoteThreads : calls[u].at = "idle", UNCHANGED calls
    PROVE  /\ CallsOK'
           /\ \A u \in RemoteThreads : /\ ~Plays(calls[u]) /\ ~Releases(calls[u]) /\ ~NewLease(calls[u])
                                       /\ calls[u].at \notin {"load", "install"}
  <1>1. ASSUME NEW d \in CallStates, d.at = "idle"
        PROVE  /\ CallOK(d)' /\ ~Plays(d) /\ ~Releases(d) /\ ~NewLease(d)
               /\ \A e : PairOK(d, e) /\ PairOK(e, d)
    BY <1>1, NoCallOK
  <1>2. ASSUME NEW u \in RemoteThreads
        PROVE  /\ CallOK(calls[u])' /\ ~Plays(calls[u]) /\ ~Releases(calls[u]) /\ ~NewLease(calls[u])
               /\ \A e : PairOK(calls'[u], e) /\ PairOK(e, calls'[u])
    <2>1. PICK d \in CallStates : d = calls[u] /\ d.at = "idle"
      BY DEF RemoteTypes
    <2>2. /\ CallOK(d)' /\ ~Plays(d) /\ ~Releases(d) /\ ~NewLease(d)
          /\ \A e : PairOK(d, e) /\ PairOK(e, d)
      BY <1>1, <2>1
    <2>3. CallOK(calls[u])'
      BY <2>1, <2>2 DEF CallOK
    <2> QED
      BY <2>1, <2>2, <2>3
  <1> QED
    BY <1>2 DEF CallsOK

LEMMA Remote_takeover ==
    ASSUME RemoteInv, ~overlapped', takeover_releases \/ takeover_relinquishes \/ takeover_clears
    PROVE  RemoteInv'
  <1>1. /\ RemoteTypes /\ remote \in RemoteStates /\ current \in Leases /\ remote_lease \in Leases
        /\ loaded \in LoadedStates /\ takeover \in [at : {"idle", "relinquish", "clear"}, lease : Leases]
    BY DEF RemoteInv, RemoteTypes
  <1>2. /\ \A u \in RemoteThreads : calls[u].at = "idle"
        /\ UNCHANGED calls
    BY DEF takeover_releases, takeover_relinquishes, takeover_clears, alone, RemoteInv, TakeoverOK
  <1>3. /\ CallsOK'
        /\ \A u \in RemoteThreads : /\ ~Plays(calls[u]) /\ ~Releases(calls[u]) /\ ~NewLease(calls[u])
                                    /\ calls[u].at \notin {"load", "install"}
    BY <1>1, <1>2, AllIdle
  <1>4. CASE takeover_releases
    <2>1. /\ takeover.at = "idle" /\ mine(remote_lease)
          /\ takeover' = [at |-> "relinquish", lease |-> remote_lease]
          /\ current' = [current EXCEPT !.token = 0] /\ loaded' = [loaded EXCEPT !.playing = FALSE]
          /\ UNCHANGED <<remote, hls, remote_lease, playback_refs>>
      BY <1>4 DEF takeover_releases
    <2>2. /\ current' \in Leases /\ current'.generation = current.generation
          /\ loaded' \in LoadedStates /\ ~loaded'.playing
      BY <1>1, <2>1 DEF Leases, LoadedStates
    <2>3. remote_lease.token # 0 /\ remote.owner_claimed
      BY <1>3, <2>1 DEF mine, RemoteInv, LeaseHeld
    <2>4. RemoteTypes' /\ LeaseHeld' /\ OwnerHolds' /\ ExchangeOK'
      BY <1>1, <1>2, <2>1, <2>2, <2>3 DEF RemoteInv, RemoteTypes, LeaseHeld, OwnerHolds, ExchangeOK
    <2>5. LoadedOK' /\ TakeoverOK' /\ GenerationsOK'
      BY <1>1, <1>2, <2>1, <2>2, <2>3 DEF RemoteInv, LoadedOK, TakeoverOK, GenerationsOK
    <2> QED
      BY <1>3, <2>4, <2>5 DEF RemoteInv
  <1>5. CASE takeover_relinquishes
    <2>1. /\ takeover.at = "relinquish" /\ remote.owner_claimed /\ remote_lease = takeover.lease
          /\ takeover.lease.token # 0 /\ ~loaded.playing
          /\ remote.state = "ACTIVE" /\ remote_lease.token = remote.owner_session_id
          /\ UNCHANGED <<remote_lease, current, loaded, playback_refs>>
          /\ takeover' = [takeover EXCEPT !.at = "clear"]
      BY <1>5 DEF takeover_relinquishes, RemoteInv, TakeoverOK, OwnerHolds
    <2>2. /\ remote.generation < MaxPlays /\ remote' = clear_owner(1)
          /\ hls' = hls_reset(takeover.lease.token, remote.generation)
      BY <1>5, <2>1 DEF takeover_relinquishes, bound
    <2>3. /\ remote' \in RemoteStates /\ remote'.state = "IDLE" /\ ~remote'.owner_claimed
          /\ remote'.generation >= remote.generation
      BY <2>2, Cleared
    <2>4. hls' \in HlsStates /\ ExchangeOK'
      BY <2>2, NoHlsOK DEF hls_reset, RemoteInv, RemoteTypes, ExchangeOK
    <2>5. /\ takeover' \in [at : {"idle", "relinquish", "clear"}, lease : Leases]
          /\ takeover'.at = "clear" /\ takeover'.lease = takeover.lease
      BY <1>1, <2>1
    <2>6. /\ remote.generation \in Nat /\ remote'.generation \in Nat /\ current.generation \in Nat
      BY <1>1, <2>3, RemoteAssumption DEF RemoteStates, Leases
    <2>7. RemoteTypes' /\ LeaseHeld' /\ OwnerHolds' /\ LoadedOK' /\ TakeoverOK'
      BY <1>1, <1>2, <2>1, <2>3, <2>4, <2>5
         DEF RemoteInv, RemoteTypes, LeaseHeld, OwnerHolds, LoadedOK, TakeoverOK
    <2>8. GenerationsOK'
      BY <1>2, <1>3, <2>1, <2>3, <2>6 DEF RemoteInv, GenerationsOK
    <2> QED
      BY <1>3, <2>4, <2>7, <2>8 DEF RemoteInv
  <1>6. CASE takeover_clears
    <2> DEFINE s == takeover.lease.token
    <2>1. /\ takeover.at = "clear" /\ remote_lease = takeover.lease /\ s \in RemoteSessions
          /\ ~loaded.playing /\ remote.state = "IDLE"
          /\ remote_lease' = NoRemoteLease /\ takeover' = [at |-> "idle", lease |-> NoRemoteLease]
          /\ playback_refs' = [playback_refs EXCEPT ![s] = IF @ > 0 THEN @ - 1 ELSE 0]
          /\ UNCHANGED <<remote, hls, current, loaded>>
      BY <1>1, <1>6 DEF takeover_clears, RemoteInv, TakeoverOK, Leases
    <2>2. /\ playback_refs' \in [RemoteSessions -> Nat]
          /\ \A r \in RemoteSessions : playback_refs'[r] = 0
      <3>1. /\ playback_refs \in [RemoteSessions -> Nat]
            /\ \A r \in RemoteSessions : playback_refs[r] = IF s = r THEN 1 ELSE 0
        BY <2>1 DEF RemoteInv, RemoteTypes, LeaseHeld
      <3> QED
        BY <2>1, <3>1, RemoteAssumption
    <2>3. takeover' \in [at : {"idle", "relinquish", "clear"}, lease : Leases]
      BY <2>1, NoCallTyped
    <2>4. RemoteTypes' /\ LeaseHeld' /\ OwnerHolds'
      BY <1>1, <1>2, <2>1, <2>2, <2>3, NoCallTyped, RemoteAssumption
         DEF RemoteInv, RemoteTypes, LeaseHeld, OwnerHolds, NoRemoteLease
    <2>5. LoadedOK' /\ TakeoverOK' /\ ExchangeOK' /\ GenerationsOK'
      BY <1>2, <2>1 DEF RemoteInv, LoadedOK, TakeoverOK, ExchangeOK, GenerationsOK, NoRemoteLease
    <2> QED
      BY <1>3, <2>4, <2>5 DEF RemoteInv
  <1> QED
    BY <1>4, <1>5, <1>6

LEMMA Remote_init == ASSUME RemoteInit PROVE RemoteInv
  <1>1. /\ remote = IdleRemote /\ hls = NoHls /\ remote_lease = NoRemoteLease /\ current = NoRemoteLease
        /\ loaded = [playing |-> FALSE, generation |-> 0, stopped_by |-> 0]
        /\ takeover = [at |-> "idle", lease |-> NoRemoteLease]
        /\ \A t \in RemoteThreads : calls[t] = NoCall
        /\ \A s \in RemoteSessions : playback_refs[s] = 0
    BY DEF RemoteInit
  <1>2. RemoteTypes
    <2>1. remote \in RemoteStates
      <3>1. IdleRemote = [IdleRemote EXCEPT !.generation = 0] /\ 0 \in 0 .. MaxPlays
        BY RemoteAssumption DEF IdleRemote
      <3> QED
        BY <1>1, <3>1, IdleTyped
    <2>2. hls \in HlsStates /\ loaded \in LoadedStates
      BY <1>1, NoHlsOK, RemoteAssumption DEF LoadedStates
    <2>3. /\ playback_refs \in [RemoteSessions -> Nat]
          /\ calls \in [RemoteThreads -> CallStates]
      BY NoCallTyped, RemoteAssumption DEF RemoteInit
    <2> QED
      BY <1>1, <2>1, <2>2, <2>3, NoCallTyped DEF RemoteTypes
  <1>3. \A t \in RemoteThreads :
           /\ CallOK(calls[t]) /\ ~Plays(calls[t]) /\ ~NewLease(calls[t]) /\ calls[t].at = "idle"
           /\ \A d : PairOK(calls[t], d)
    BY <1>1, NoCallTyped, NoCallOK
  <1>4. CallsOK /\ LeaseHeld /\ OwnerHolds
    BY <1>1, <1>3, RemoteAssumption DEF CallsOK, LeaseHeld, OwnerHolds, IdleRemote, NoRemoteLease
  <1>5. LoadedOK /\ TakeoverOK /\ ExchangeOK
    BY <1>1 DEF LoadedOK, TakeoverOK, ExchangeOK, NoHls
  <1>6. GenerationsOK
    BY <1>1, <1>3 DEF GenerationsOK, IdleRemote, NoRemoteLease
  <1> QED
    BY <1>2, <1>4, <1>5, <1>6 DEF RemoteInv

LEMMA Remote_steps ==
    ASSUME RemoteInv, ~overlapped', [RemoteNext]_RemoteVars
    PROVE  RemoteInv'
  <1>1. ASSUME NEW t \in RemoteThreads, NEW s \in RemoteSessions,
               \/ \E play \in PlayRequests : play_begins(t, s, play)
               \/ \E count \in 0 .. MaxMedia : hls_answered(t, s, count)
               \/ \E seekable \in BOOLEAN : polls(t, s, seekable)
               \/ \E rate \in 0 .. 1 : rates(t, s, rate)
               \/ scrubs(t, s) \/ terminates(t, s) \/ session_ends(t, s)
        PROVE  RemoteInv'
    BY <1>1, Remote_begins, Remote_answered, Remote_controls, Remote_terminates, Remote_session_ends
  <1>2. ASSUME NEW t \in RemoteThreads,
               \/ unwind_resets(t) \/ unwind_stops(t) \/ release_reads(t) \/ release_clears(t)
               \/ play_clears(t) \/ fails_generation(t)
        PROVE  RemoteInv'
    BY <1>2, Remote_resets, Remote_stops, Remote_release_reads, Remote_release_clears,
       Remote_clears, Remote_fails
  <1>3. ASSUME NEW t \in RemoteThreads,
               play_claims(t) \/ play_installs(t) \/ play_refused(t) \/ play_superseded(t)
        PROVE  RemoteInv'
    BY <1>3, Remote_claims, Remote_installs, Remote_refused, Remote_superseded
  <1>4. ASSUME NEW t \in RemoteThreads, NEW ok \in BOOLEAN,
               hls_begins(t, ok) \/ action_next(t, ok) \/ action_ready(t, ok) \/ action_refused(t)
        PROVE  RemoteInv'
    BY <1>4, Remote_hls_begins, Remote_action_next, Remote_ready
  <1>5. ASSUME NEW t \in RemoteThreads, NEW ok \in BOOLEAN, play_loads(t, ok)
        PROVE  RemoteInv'
    <2>1. CASE ok = TRUE
      BY <1>5, <2>1, Remote_load_accepted
    <2>2. CASE ok = FALSE
      BY <1>5, <2>2, Remote_load_refused
    <2> QED
      BY <2>1, <2>2
  <1>6. ASSUME UNCHANGED RemoteVars PROVE RemoteInv'
    BY <1>6 DEF RemoteVars, RemoteInv, RemoteTypes, CallsOK, CallOK, LeaseHeld, OwnerHolds,
                LoadedOK, mine, TakeoverOK, ExchangeOK, GenerationsOK
  <1>7. ASSUME takeover_releases \/ takeover_relinquishes \/ takeover_clears PROVE RemoteInv'
    BY <1>7, Remote_takeover
  <1> QED
    BY <1>1, <1>2, <1>3, <1>4, <1>5, <1>6, <1>7 DEF RemoteNext, RemoteRequest, RemoteProgress

-----------------------------------------------------------------------------
(* What holds whatever overlaps. *)

\* The request that is expected is the one of the playlist that comes next.
AskedOK ==
    hls.expected_request_id # 0 =>
        IF hls.expecting_master THEN hls.expected_request_id = 1
        ELSE /\ hls.expected_request_id = hls.pending_media_index + 2
             /\ hls.pending_media_index < hls.media_count
RemoteBase ==
    /\ RemoteTypes /\ AskedOK /\ overlapped \in BOOLEAN
    /\ remote.state # "IDLE" => remote.generation < MaxPlays

Owner(r) == r \in RemoteStates /\ (r.state # "IDLE" => r.generation < MaxPlays)
Asked(h) ==
    /\ h \in HlsStates
    /\ h.expected_request_id # 0 =>
          IF h.expecting_master THEN h.expected_request_id = 1
          ELSE /\ h.expected_request_id = h.pending_media_index + 2
               /\ h.pending_media_index < h.media_count
Others ==
    /\ remote_lease \in Leases /\ current \in Leases /\ loaded \in LoadedStates
    /\ playback_refs \in [RemoteSessions -> Nat]
    /\ takeover \in [at : {"idle", "relinquish", "clear"}, lease : Leases]

LEMMA BaseParts ==
    /\ RemoteBase <=> /\ Owner(remote) /\ Asked(hls) /\ Others /\ overlapped \in BOOLEAN
                      /\ calls \in [RemoteThreads -> CallStates]
    /\ RemoteBase' <=> /\ Owner(remote') /\ Asked(hls') /\ Others' /\ overlapped' \in BOOLEAN
                       /\ calls' \in [RemoteThreads -> CallStates]
  BY DEF RemoteBase, RemoteTypes, AskedOK, Owner, Asked, Others

LEMMA GoesTyped ==
    ASSUME NEW t \in RemoteThreads, NEW c \in CallStates, calls \in [RemoteThreads -> CallStates],
           goes(t, c)
    PROVE  calls' \in [RemoteThreads -> CallStates]
  BY NoCallTyped DEF goes

LEMMA OwnerCleared ==
    ASSUME Owner(remote), NEW step \in {0, 1}, step = 0 \/ remote.generation < MaxPlays
    PROVE  Owner(clear_owner(step))
  <1>1. remote.generation \in 0 .. MaxPlays
    BY DEF Owner, RemoteStates
  <1> DEFINE g == remote.generation + step
  <1>2. g \in 0 .. MaxPlays
    BY <1>1, RemoteAssumption
  <1>3. clear_owner(step) = [IdleRemote EXCEPT !.generation = g]
    BY DEF clear_owner
  <1> HIDE DEF g
  <1> QED
    BY <1>2, <1>3, IdleTyped DEF Owner

LEMMA OwnerRouted ==
    ASSUME Owner(remote), NEW s
    PROVE  /\ Owner(routed(s)) /\ routed(s).state = remote.state
           /\ routed(s).generation = remote.generation
  <1>1. (remote.control_attached \/ owned(s)) \in BOOLEAN
    OBVIOUS
  <1>2. routed(s) = [remote EXCEPT !.control_attached = remote.control_attached \/ owned(s)]
    BY DEF routed
  <1> QED
    BY <1>1, <1>2 DEF Owner, RemoteStates

LEMMA RefsTyped ==
    ASSUME playback_refs \in [RemoteSessions -> Nat], NEW s
    PROVE  /\ [playback_refs EXCEPT ![s] = @ + 1] \in [RemoteSessions -> Nat]
           /\ [playback_refs EXCEPT ![s] = IF @ > 0 THEN @ - 1 ELSE 0] \in [RemoteSessions -> Nat]
  <1>1. \A r \in RemoteSessions : /\ playback_refs[r] \in Nat /\ playback_refs[r] + 1 \in Nat
                                  /\ playback_refs[r] > 0 => playback_refs[r] - 1 \in Nat
    OBVIOUS
  <1>2. CASE s \in RemoteSessions
    BY <1>1, <1>2
  <1>3. CASE s \notin RemoteSessions
    <2>1. /\ [playback_refs EXCEPT ![s] = @ + 1] = playback_refs
          /\ [playback_refs EXCEPT ![s] = IF @ > 0 THEN @ - 1 ELSE 0] = playback_refs
      BY <1>3
    <2> QED
      BY <2>1
  <1> QED
    BY <1>2, <1>3

LEMMA AskedReset == ASSUME Asked(hls), NEW s, NEW g PROVE Asked(hls_reset(s, g)) /\ Asked(NoHls)
  BY NoHlsOK DEF Asked, hls_reset

\* A step of a request that is under way.
LEMMA Base_progress ==
    ASSUME RemoteBase, NEW t \in RemoteThreads, RemoteProgress(t), UNCHANGED overlapped
    PROVE  RemoteBase'
  <1> DEFINE call == calls[t]
  <1>0. /\ Owner(remote) /\ Asked(hls) /\ Others /\ overlapped \in BOOLEAN
        /\ calls \in [RemoteThreads -> CallStates] /\ call \in CallStates
    BY BaseParts
  <1>a. SUFFICES /\ Owner(remote') /\ Asked(hls') /\ Others'
                 /\ calls' \in [RemoteThreads -> CallStates]
    BY <1>0, BaseParts
  <1>b. ASSUME NEW l \in Leases PROVE [l EXCEPT !.token = 0] \in Leases
    BY DEF Leases
  <1>c. [loaded EXCEPT !.playing = FALSE] \in LoadedStates
    BY <1>0 DEF Others, LoadedStates
  <1>d. \A by \in 0 .. MaxPlays : [loaded EXCEPT !.playing = FALSE, !.stopped_by = by] \in LoadedStates
    BY <1>0 DEF Others, LoadedStates
  <1>e. load_ordered(remote.generation) \in LoadedStates
    BY <1>0, RemoteAssumption DEF Owner, RemoteStates, load_ordered, LoadedStates
  <1>f. /\ call.generation \in 0 .. MaxPlays /\ call.session \in RemoteSessions \cup {0}
        /\ call.lease \in Leases /\ remote_lease \in Leases /\ current \in Leases
        /\ NoRemoteLease \in Leases /\ playback_refs \in [RemoteSessions -> Nat]
        /\ loaded \in LoadedStates
    BY <1>0, NoCallTyped DEF CallStates, Others
  <1>g. claimed_lease(call.session) \in Leases
    BY <1>f DEF claimed_lease, Leases
  <1>h. /\ \A s : [playback_refs EXCEPT ![s] = @ + 1] \in [RemoteSessions -> Nat]
        /\ \A s : [playback_refs EXCEPT ![s] = IF @ > 0 THEN @ - 1 ELSE 0] \in [RemoteSessions -> Nat]
    BY <1>f, RefsTyped
  <1>i. ASSUME NEW at \in Unwinding \cup {"idle", "clear", "begin", "fail", "claim", "install",
                                          "load", "next", "ready"}
        PROVE  [call EXCEPT !.at = at] \in CallStates
    BY <1>0 DEF CallStates
  <1>j. \A c \in CallStates : goes(t, c) => calls' \in [RemoteThreads -> CallStates]
    BY <1>0, GoesTyped
  <1>k. Asked(NoHls) /\ \A s, g : Asked(hls_reset(s, g))
    BY <1>0, AskedReset
  <1>l. Owner(clear_owner(0)) /\ (remote.state # "IDLE" => Owner(clear_owner(1)))
    BY <1>0, OwnerCleared DEF Owner
  <1> HIDE DEF call
  <1>1. CASE unwind_resets(t)
    <2>1. goes(t, [call EXCEPT !.at = "stop"]) /\ [call EXCEPT !.at = "stop"] \in CallStates
      BY <1>1, <1>i DEF unwind_resets, Unwinding, call
    <2> QED
      BY <1>0, <1>1, <1>j, <1>k, <2>1 DEF unwind_resets, Others
  <1>2. CASE unwind_stops(t)
    <2>1. goes(t, [call EXCEPT !.at = "release"]) /\ [call EXCEPT !.at = "release"] \in CallStates
      BY <1>2, <1>i DEF unwind_stops, Unwinding, call
    <2>2. loaded' \in LoadedStates
      BY <1>2, <1>d, <1>f DEF unwind_stops, stop_ordered, call
    <2> QED
      BY <1>0, <1>2, <1>j, <2>1, <2>2 DEF unwind_stops, Others
  <1>3. CASE release_reads(t)
    <2> DEFINE at == IF calls[t].release /\ remote_lease.token # 0 /\ remote_lease.token = calls[t].victim
                     THEN "releasing" ELSE calls[t].then
               c == [call EXCEPT !.at = at, !.lease = remote_lease]
    <2>1. at \in Unwinding \cup {"idle", "clear"} /\ goes(t, c)
      BY <1>0, <1>3 DEF release_reads, Unwinding, CallStates, call
    <2> HIDE DEF at
    <2>2. c \in CallStates
      BY <1>0, <1>f, <2>1 DEF CallStates
    <2> QED
      BY <1>0, <1>3, <1>j, <2>1, <2>2 DEF release_reads, Others
  <1>4. CASE release_clears(t)
    <2>1. goes(t, [call EXCEPT !.at = call.then]) /\ [call EXCEPT !.at = call.then] \in CallStates
      BY <1>0, <1>4, <1>i DEF release_clears, CallStates, call
    <2>2. current' \in Leases /\ loaded' \in LoadedStates
      BY <1>4, <1>b, <1>d, <1>f DEF release_clears, call
    <2>3. remote_lease' \in Leases /\ playback_refs' \in [RemoteSessions -> Nat]
      BY <1>4, <1>f, <1>h DEF release_clears
    <2> QED
      BY <1>0, <1>4, <1>j, <2>1, <2>2, <2>3 DEF release_clears, Others
  <1>5. CASE play_clears(t)
    <2> DEFINE at == IF calls[t].reverse THEN "begin" ELSE IF calls[t].reuse THEN "load" ELSE "claim"
    <2>1. goes(t, [call EXCEPT !.at = at]) /\ [call EXCEPT !.at = at] \in CallStates
      BY <1>5, <1>i DEF play_clears, call
    <2> QED
      BY <1>0, <1>5, <1>j, <1>k, <2>1 DEF play_clears, Others
  <1>6. CASE fails_generation(t)
    <2> DEFINE matches == bound(call.session) /\ remote.generation = call.generation
               stops == matches /\ remote.state = "ACTIVE"
               frees == matches /\ remote.owner_claimed
               c == [call EXCEPT !.at = "reset", !.stop = stops, !.release = frees,
                                 !.victim = call.session, !.victim_generation = call.generation,
                                 !.then = "idle"]
    <2>1. goes(t, c) /\ stops \in BOOLEAN /\ frees \in BOOLEAN
      BY <1>0, <1>6 DEF fails_generation, call
    <2>2. Owner(remote')
      BY <1>0, <1>6, <1>l DEF fails_generation, bound
    <2> HIDE DEF stops, frees
    <2>3. c \in CallStates
      BY <1>0, <1>f, <2>1 DEF CallStates, Unwinding
    <2> QED
      BY <1>0, <1>6, <1>j, <2>1, <2>2, <2>3 DEF fails_generation, Others
  <1>7. CASE play_claims(t)
    <2> DEFINE c == [call EXCEPT !.at = "install", !.lease = claimed_lease(call.session)]
    <2>1. goes(t, c) /\ c \in CallStates
      BY <1>0, <1>7, <1>g DEF play_claims, CallStates, call
    <2> QED
      BY <1>0, <1>7, <1>c, <1>g, <1>j, <2>1 DEF play_claims, Others, call
  <1>8. CASE play_installs(t)
    <2>1. goes(t, [call EXCEPT !.at = "load"]) /\ [call EXCEPT !.at = "load"] \in CallStates
      BY <1>8, <1>i DEF play_installs, call
    <2>2. remote_lease' \in Leases /\ playback_refs' \in [RemoteSessions -> Nat]
      BY <1>8, <1>f, <1>h DEF play_installs, call
    <2> QED
      BY <1>0, <1>8, <1>j, <2>1, <2>2 DEF play_installs, Others
  <1>9. CASE play_refused(t)
    <2>1. goes(t, NoCall) /\ NoCall \in CallStates
      BY <1>9, NoCallTyped DEF play_refused
    <2>2. current' \in Leases /\ Owner(remote')
      BY <1>0, <1>9, <1>b, <1>f, <1>l DEF play_refused
    <2> QED
      BY <1>0, <1>9, <1>j, <2>1, <2>2 DEF play_refused, Others
  <1>10. CASE play_superseded(t)
    <2> DEFINE c == [call EXCEPT !.at = "release", !.release = TRUE, !.victim = call.session,
                                 !.then = "idle"]
    <2>1. goes(t, c) /\ c \in CallStates
      BY <1>0, <1>10, <1>f DEF play_superseded, CallStates, Unwinding, call
    <2> QED
      BY <1>0, <1>10, <1>j, <2>1 DEF play_superseded, Others
  <1>11. ASSUME NEW ok \in BOOLEAN, hls_begins(t, ok)
         PROVE  Owner(remote') /\ Asked(hls') /\ Others' /\ calls' \in [RemoteThreads -> CallStates]
    <2> DEFINE c == IF ok THEN NoCall ELSE [call EXCEPT !.at = "fail"]
    <2>1. goes(t, c) /\ c \in CallStates
      BY <1>11, <1>i, NoCallTyped DEF hls_begins, call
    <2> DEFINE s == call.session
               g == call.generation
    <2>2. hls' = [NoHls EXCEPT !.active = TRUE, !.session_id = s, !.generation = g,
                               !.expecting_master = TRUE, !.expected_request_id = 1]
      BY <1>11 DEF hls_begins, call
    <2>3. /\ s \in RemoteSessions \cup {0} /\ g \in 0 .. MaxPlays /\ NoHls \in HlsStates
          /\ 1 \in 0 .. MaxMedia + 1
      BY <1>f, NoHlsOK, RemoteAssumption
    <2> HIDE DEF s, g
    <2>4. /\ hls' \in HlsStates /\ hls'.expecting_master /\ hls'.expected_request_id = 1
      BY <2>2, <2>3 DEF HlsStates
    <2>5. Asked(hls')
      BY <2>4 DEF Asked
    <2> QED
      BY <1>0, <1>11, <1>j, <2>1, <2>5 DEF hls_begins, Others
  <1>12. ASSUME NEW ok \in BOOLEAN, play_loads(t, ok)
         PROVE  Owner(remote') /\ Asked(hls') /\ Others' /\ calls' \in [RemoteThreads -> CallStates]
    <2> DEFINE c == [call EXCEPT !.at = "stop", !.stop = TRUE, !.release = TRUE,
                                 !.victim = call.session, !.then = "idle"]
    <2>1. c \in CallStates
      BY <1>0, <1>f DEF CallStates, Unwinding
    <2>2. calls' \in [RemoteThreads -> CallStates]
      BY <1>12, <1>j, <2>1, NoCallTyped DEF play_loads, call
    <2>3. loaded' \in LoadedStates
      BY <1>12, <1>e, <1>f DEF play_loads
    <2>4. [remote EXCEPT !.owner_claimed = TRUE, !.control_attached = TRUE] \in RemoteStates
      BY <1>0 DEF Owner, RemoteStates
    <2>5. Owner(remote')
      BY <1>0, <1>12, <1>l, <2>4 DEF play_loads, still_owner, owned, Owner, RemoteStates
    <2> QED
      BY <1>0, <1>12, <2>2, <2>3, <2>5 DEF play_loads, Others
  <1>13. ASSUME NEW ok \in BOOLEAN, action_next(t, ok)
         PROVE  Owner(remote') /\ Asked(hls') /\ Others' /\ calls' \in [RemoteThreads -> CallStates]
    <2> DEFINE c == IF pending_generation(t) /\ ~ok THEN [call EXCEPT !.at = "fail"] ELSE NoCall
    <2>1. goes(t, c) /\ c \in CallStates
      BY <1>13, <1>i, NoCallTyped DEF action_next, call
    <2> QED
      BY <1>0, <1>13, <1>j, <2>1 DEF action_next, Others
  <1>14. ASSUME NEW ok \in BOOLEAN, action_ready(t, ok)
         PROVE  Owner(remote') /\ Asked(hls') /\ Others' /\ calls' \in [RemoteThreads -> CallStates]
    <2> DEFINE c == [call EXCEPT !.at = "reset", !.stop = TRUE, !.release = TRUE,
                                 !.victim = call.session, !.victim_generation = call.generation]
    <2>1. c \in CallStates
      BY <1>0, <1>f DEF CallStates, Unwinding
    <2>2. calls' \in [RemoteThreads -> CallStates]
      BY <1>14, <1>j, <2>1, NoCallTyped DEF action_ready, call
    <2>3. loaded' \in LoadedStates /\ current' \in Leases
      BY <1>14, <1>c, <1>e, <1>g DEF action_ready, call
    <2>4. remote_lease' \in Leases /\ playback_refs' \in [RemoteSessions -> Nat]
      BY <1>14, <1>g, <1>h DEF action_ready, call
    <2>5. [remote EXCEPT !.state = "ACTIVE", !.owner_claimed = TRUE, !.control_attached = TRUE]
            \in RemoteStates
      BY <1>0 DEF Owner, RemoteStates
    <2>6. remote.state # "IDLE" /\ remote.generation < MaxPlays
      BY <1>0, <1>14 DEF action_ready, pending_generation, hls_pending, Owner
    <2>7. Owner(remote')
      BY <1>0, <1>14, <1>l, <2>5, <2>6 DEF action_ready, Owner, RemoteStates
    <2> QED
      BY <1>0, <1>14, <2>2, <2>3, <2>4, <2>7 DEF action_ready, Others
  <1>15. CASE action_refused(t)
    <2> DEFINE c == IF pending_generation(t) THEN [call EXCEPT !.at = "fail"] ELSE NoCall
    <2>1. goes(t, c) /\ c \in CallStates
      BY <1>15, <1>i, NoCallTyped DEF action_refused, call
    <2> QED
      BY <1>0, <1>15, <1>j, <2>1 DEF action_refused, Others
  <1> QED
    BY <1>1, <1>2, <1>3, <1>4, <1>5, <1>6, <1>7, <1>8, <1>9, <1>10, <1>11, <1>12, <1>13, <1>14, <1>15
       DEF RemoteProgress

\* A request that begins.
LEMMA Base_request ==
    ASSUME RemoteBase, NEW t \in RemoteThreads, RemoteRequest(t)
    PROVE  RemoteBase' /\ (overlapped => overlapped')
  <1>0. /\ Owner(remote) /\ Asked(hls) /\ Others /\ overlapped \in BOOLEAN
        /\ calls \in [RemoteThreads -> CallStates] /\ NoCall \in CallStates
        /\ remote \in RemoteStates
    BY BaseParts, NoCallTyped DEF Owner
  <1>1. \A c \in CallStates : goes(t, c) => calls' \in [RemoteThreads -> CallStates]
    BY <1>0, GoesTyped
  <1>2. overlapped' \in BOOLEAN /\ (overlapped => overlapped') /\ Others'
    BY <1>0 DEF RemoteRequest, play_begins, hls_answered, polls, rates, scrubs, terminates,
                session_ends, fresh, fresh_play, Others
  <1>3. SUFFICES Owner(remote') /\ Asked(hls') /\ calls' \in [RemoteThreads -> CallStates]
    BY <1>2, BaseParts
  <1>4. PICK s \in RemoteSessions :
          \/ \E play \in PlayRequests : play_begins(t, s, play)
          \/ \E count \in 0 .. MaxMedia : hls_answered(t, s, count)
          \/ \E seekable \in BOOLEAN : polls(t, s, seekable)
          \/ \E rate \in 0 .. 1 : rates(t, s, rate)
          \/ scrubs(t, s) \/ terminates(t, s) \/ session_ends(t, s)
    BY DEF RemoteRequest
  <1> DEFINE r == routed(s)
  <1>5. r \in RemoteStates /\ r.state = remote.state /\ r.generation = remote.generation /\ Owner(r)
    BY <1>0, OwnerRouted DEF Owner
  <1>6. CASE \E play \in PlayRequests : play_begins(t, s, play)
    <2>1. PICK play \in PlayRequests : play_begins(t, s, play)
      BY <1>6
    <2> DEFINE reuse == ~play.reverse /\ owned(s) /\ remote.owner_claimed
               replace == remote.state # "IDLE" /\ ~reuse
               state == IF play.reverse THEN "PENDING_HLS" ELSE "ACTIVE"
               g == remote.generation + 1
               at == IF replace THEN "reset" ELSE "clear"
               stops == replace /\ remote.state = "ACTIVE"
               frees == replace /\ remote.owner_claimed
               victim == remote.owner_session_id
               old == remote.generation
               reverse == play.reverse
               start == play.start
    <2>2. /\ reuse \in BOOLEAN /\ stops \in BOOLEAN /\ frees \in BOOLEAN /\ reverse \in BOOLEAN
          /\ start \in Starts /\ at \in {"reset", "clear"} /\ state \in {"PENDING_HLS", "ACTIVE"}
      BY DEF PlayRequests
    <2>3. /\ g \in 0 .. MaxPlays /\ g < MaxPlays /\ old \in 0 .. MaxPlays
          /\ victim \in RemoteSessions \cup {0} /\ 1 \in 0 .. 1
      BY <1>0, <2>1, RemoteAssumption DEF play_begins, RemoteStates
    <2>4. /\ remote' = [r EXCEPT !.state = state, !.owner_claimed = reuse, !.owner_session_id = s,
                                 !.generation = g, !.requested_rate = 1, !.pending_seek = start]
          /\ goes(t, [NoCall EXCEPT !.at = at, !.session = s, !.generation = g, !.reverse = reverse,
                                    !.reuse = reuse, !.stop = stops, !.release = frees,
                                    !.victim = victim, !.victim_generation = old, !.then = "clear"])
          /\ hls' = hls
      BY <2>1 DEF play_begins
    <2> HIDE DEF reuse, replace, state, g, at, stops, frees, victim, old, reverse, start, r
    <2>5. remote' \in RemoteStates /\ remote'.generation = g
      BY <1>5, <2>2, <2>3, <2>4 DEF RemoteStates
    <2> DEFINE c1 == [NoCall EXCEPT !.at = at, !.session = s, !.generation = g, !.reverse = reverse,
                                    !.reuse = reuse]
               c == [c1 EXCEPT !.stop = stops, !.release = frees,
                               !.victim = victim, !.victim_generation = old, !.then = "clear"]
    <2>6. c1 \in CallStates
      BY <1>0, <2>2, <2>3 DEF CallStates, Unwinding
    <2>7. goes(t, c)
      BY <2>4
    <2> HIDE DEF c1
    <2>8. c \in CallStates
      BY <2>2, <2>3, <2>6 DEF CallStates
    <2> QED
      BY <1>0, <1>1, <2>3, <2>4, <2>5, <2>7, <2>8 DEF Owner
  <1>7. CASE \E count \in 0 .. MaxMedia : hls_answered(t, s, count)
    <2>1. PICK count \in 0 .. MaxMedia : hls_answered(t, s, count)
      BY <1>7
    <2> DEFINE next == IF hls.expecting_master THEN 0 ELSE hls.pending_media_index + 1
               total == IF hls.expecting_master THEN count ELSE hls.media_count
               more == next < total
               id == IF more THEN hls.expected_request_id + 1 ELSE 0
               g == hls.generation
               at == IF more THEN "next" ELSE "ready"
    <2>2. hls \in HlsStates
      BY <1>0 DEF Asked
    <2>3. /\ hls.pending_media_index \in 0 .. MaxMedia /\ hls.media_count \in 0 .. MaxMedia
          /\ hls.expected_request_id \in 0 .. MaxMedia + 1 /\ g \in 0 .. MaxPlays
          /\ hls.expecting_master \in BOOLEAN
      BY <2>2 DEF HlsStates
    <2>4. /\ hls' = [hls EXCEPT !.expecting_master = FALSE, !.media_count = total,
                                !.pending_media_index = next, !.expected_request_id = id]
          /\ goes(t, [NoCall EXCEPT !.at = at, !.session = s, !.generation = g])
          /\ hls.expected_request_id # 0 /\ remote' = r
          /\ hls.expecting_master \/ hls.pending_media_index < hls.media_count
      BY <2>1 DEF hls_answered
    <2>5. /\ next \in 0 .. MaxMedia /\ total \in 0 .. MaxMedia /\ id \in 0 .. MaxMedia + 1
          /\ id # 0 => id = next + 2 /\ next < total
      BY <1>0, <2>3, <2>4, RemoteAssumption DEF Asked
    <2> HIDE DEF next, total, id, g, at, r, more
    <2>6. /\ hls' \in HlsStates /\ ~hls'.expecting_master /\ hls'.expected_request_id = id
          /\ hls'.pending_media_index = next /\ hls'.media_count = total
      BY <2>2, <2>4, <2>5 DEF HlsStates
    <2>7. at \in {"next", "ready"}
      BY DEF at
    <2>8. [NoCall EXCEPT !.at = at, !.session = s, !.generation = g] \in CallStates
      BY <1>0, <2>3, <2>7 DEF CallStates
    <2>9. Asked(hls')
      BY <2>5, <2>6 DEF Asked
    <2> QED
      BY <1>1, <1>5, <2>4, <2>8, <2>9
  <1>8. CASE \/ \E seekable \in BOOLEAN : polls(t, s, seekable)
             \/ \E rate \in 0 .. 1 : rates(t, s, rate)
             \/ scrubs(t, s)
    <2>1. UNCHANGED <<hls, calls>>
      BY <1>8 DEF polls, rates, scrubs
    <2>2. CASE remote' = r
      BY <1>0, <1>5, <2>1, <2>2
    <2>3. CASE remote' = seek_applied(s)
      <3>1. remote' = [r EXCEPT !.pending_seek = "none", !.pending_scrub = FALSE]
        BY <2>3 DEF seek_applied
      <3> HIDE DEF r
      <3> QED
        BY <1>0, <1>5, <2>1, <3>1 DEF Owner, RemoteStates, Starts
    <2>4. CASE remote' = [remote EXCEPT !.pending_scrub = TRUE]
      BY <1>0, <2>1, <2>4 DEF Owner, RemoteStates
    <2>5. CASE \E rate \in 0 .. 1 : remote' = [r EXCEPT !.requested_rate = rate]
      <3> HIDE DEF r
      <3> QED
        BY <1>0, <1>5, <2>1, <2>5 DEF Owner, RemoteStates
    <2> QED
      BY <1>8, <2>2, <2>3, <2>4, <2>5 DEF polls, rates, scrubs
  <1>9. CASE terminates(t, s) \/ session_ends(t, s)
    <2>1. UNCHANGED hls
      BY <1>9 DEF terminates, session_ends
    <2> DEFINE stops == remote.state = "ACTIVE"
               frees == remote.owner_claimed
               g == remote.generation
               c1 == [NoCall EXCEPT !.at = "reset", !.session = s, !.generation = g,
                                    !.stop = stops, !.release = frees,
                                    !.victim = s, !.victim_generation = g]
               c2 == [NoCall EXCEPT !.at = "reset", !.session = s, !.generation = g,
                                    !.victim = s, !.victim_generation = g]
    <2>2. stops \in BOOLEAN /\ frees \in BOOLEAN /\ g \in 0 .. MaxPlays
      BY <1>0 DEF RemoteStates
    <2>3. /\ \/ goes(t, c1) \/ goes(t, c2) \/ UNCHANGED calls
          /\ \/ remote' = clear_owner(1) /\ remote.generation < MaxPlays
             \/ remote' = [remote EXCEPT !.control_attached = FALSE]
      BY <1>9 DEF terminates, session_ends
    <2> HIDE DEF stops, frees, g
    <2>4. c1 \in CallStates /\ c2 \in CallStates
      BY <1>0, <2>2 DEF CallStates, Unwinding
    <2> HIDE DEF c1, c2
    <2>5. [remote EXCEPT !.control_attached = FALSE] \in RemoteStates
      BY <1>0 DEF RemoteStates
    <2>6. Owner(remote')
      BY <1>0, <2>3, <2>5, OwnerCleared DEF Owner, RemoteStates
    <2> QED
      BY <1>0, <1>1, <2>1, <2>3, <2>4, <2>6
  <1> QED
    BY <1>4, <1>6, <1>7, <1>8, <1>9

LEMMA Base_takeover ==
    ASSUME RemoteBase, takeover_releases \/ takeover_relinquishes \/ takeover_clears,
           overlapped' \in BOOLEAN
    PROVE  RemoteBase'
  <1>0. /\ Owner(remote) /\ Asked(hls) /\ Others /\ calls \in [RemoteThreads -> CallStates]
    BY BaseParts
  <1>1. /\ remote_lease \in Leases /\ current \in Leases /\ loaded \in LoadedStates
        /\ playback_refs \in [RemoteSessions -> Nat] /\ NoRemoteLease \in Leases
        /\ takeover \in [at : {"idle", "relinquish", "clear"}, lease : Leases]
    BY <1>0, NoCallTyped DEF Others
  <1>2. SUFFICES Owner(remote') /\ Asked(hls') /\ Others'
    BY <1>0, BaseParts DEF takeover_releases, takeover_relinquishes, takeover_clears
  <1>3. CASE takeover_releases
    <2>1. current' \in Leases /\ loaded' \in LoadedStates
      BY <1>1, <1>3 DEF takeover_releases, Leases, LoadedStates
    <2> QED
      BY <1>0, <1>1, <1>3, <2>1 DEF takeover_releases, Others
  <1>4. CASE takeover_relinquishes
    <2>1. Owner(remote') /\ Asked(hls')
      BY <1>0, <1>4, OwnerCleared, AskedReset DEF takeover_relinquishes
    <2> QED
      BY <1>1, <1>4, <2>1 DEF takeover_relinquishes, Others
  <1>5. CASE takeover_clears
    <2>1. playback_refs' \in [RemoteSessions -> Nat]
      BY <1>1, <1>5, RefsTyped DEF takeover_clears
    <2> QED
      BY <1>0, <1>1, <1>5, <2>1 DEF takeover_clears, Others
  <1> QED
    BY <1>3, <1>4, <1>5

LEMMA Base_steps ==
    ASSUME RemoteBase, [RemoteNext]_RemoteVars
    PROVE  RemoteBase' /\ (overlapped => overlapped')
  <1>1. ASSUME NEW t \in RemoteThreads, RemoteRequest(t) PROVE RemoteBase' /\ (overlapped => overlapped')
    BY <1>1, Base_request
  <1>2. ASSUME NEW t \in RemoteThreads, RemoteProgress(t), UNCHANGED overlapped
        PROVE  RemoteBase' /\ (overlapped => overlapped')
    BY <1>2, Base_progress
  <1>3. ASSUME takeover_releases PROVE RemoteBase' /\ (overlapped => overlapped')
    <2>1. overlapped' \in BOOLEAN /\ (overlapped => overlapped')
      BY <1>3 DEF takeover_releases
    <2> QED
      BY <1>3, <2>1, Base_takeover
  <1>4. ASSUME takeover_relinquishes \/ takeover_clears, UNCHANGED overlapped
        PROVE  RemoteBase' /\ (overlapped => overlapped')
    <2>1. overlapped' \in BOOLEAN /\ (overlapped => overlapped')
      BY <1>4 DEF RemoteBase
    <2> QED
      BY <1>4, <2>1, Base_takeover
  <1>5. ASSUME UNCHANGED RemoteVars PROVE RemoteBase' /\ (overlapped => overlapped')
    BY <1>5 DEF RemoteVars, RemoteBase, RemoteTypes, AskedOK
  <1> QED
    BY <1>1, <1>2, <1>3, <1>4, <1>5 DEF RemoteNext

\* The types always, and the invariant until something overlaps.
LEMMA RemoteInductive == RemoteSpec => [](RemoteBase /\ (overlapped \/ RemoteInv))
  <1>1. ASSUME RemoteInit PROVE RemoteBase /\ RemoteInv
    <2>1. RemoteInv
      BY <1>1, Remote_init
    <2>2. AskedOK /\ RemoteTypes
      BY <2>1 DEF RemoteInv, ExchangeOK, AskedOK
    <2>3. overlapped \in BOOLEAN /\ remote.state = "IDLE"
      BY <1>1 DEF RemoteInit, IdleRemote
    <2> QED
      BY <2>1, <2>2, <2>3 DEF RemoteBase
  <1>2. ASSUME RemoteBase, overlapped \/ RemoteInv, [RemoteNext]_RemoteVars
        PROVE  RemoteBase' /\ (overlapped' \/ RemoteInv')
    BY <1>2, Base_steps, Remote_steps
  <1> QED
    BY <1>1, <1>2, PTL DEF RemoteSpec

\* URL playback keeps its types, for any numbers of sessions, threads, plays
\* and media playlists, also when plays and takeovers overlap (remote_video.c,
\* remote_hls.c).
THEOREM RemoteTypeCorrect == RemoteSpec => []RemoteTypeOK
  <1>1. RemoteBase => RemoteTypeOK
    BY DEF RemoteBase, RemoteTypes, RemoteTypeOK, RemoteStates, HlsStates, LoadedStates
  <1> QED
    BY <1>1, RemoteInductive, PTL

\* RemoteSettles, for any numbers of sessions, threads, plays and media
\* playlists, whatever the requests of other connections do between the
\* blocks a handler holds the mutex for: once every request has returned, the
\* owner, the lease, the references to logical sessions, the playlists and the
\* media agree (remote_video.c, integration_remote_*), if no play and no
\* takeover began beside another request.  MCRemoteStale shows what happens
\* when one does.
THEOREM RemoteAgrees == RemoteSpec => []RemoteSettles
  <1>1. (overlapped \/ RemoteInv) => RemoteSettles
    <2> SUFFICES ASSUME RemoteInv, alone PROVE RemoteSettles
      BY DEF RemoteSettles
    <2>1. /\ takeover.at = "idle"
          /\ \A t \in RemoteThreads : ~Plays(calls[t]) /\ ~Releases(calls[t]) /\ calls[t].at = "idle"
      BY Free DEF alone
    <2>2. /\ remote_lease.token # 0 => remote.owner_claimed
          /\ remote_lease.token = 0 => remote_lease = NoRemoteLease
          /\ \A s \in RemoteSessions : playback_refs[s] = IF remote_lease.token = s THEN 1 ELSE 0
      BY <2>1 DEF RemoteInv, LeaseHeld
    <2>3. /\ remote.owner_claimed <=> remote.state = "ACTIVE"
          /\ remote.owner_claimed => remote_lease.token = remote.owner_session_id
          /\ remote.state = "PENDING_HLS" => /\ hls.active /\ hls.session_id = remote.owner_session_id
                                             /\ hls.generation = remote.generation
      BY <2>1 DEF RemoteInv, OwnerHolds
    <2>4. loaded.playing => remote_lease.token # 0
      BY DEF RemoteInv, LoadedOK, mine
    <2>5. loaded.playing /\ remote.owner_claimed => loaded.generation = remote.generation
      BY <2>1 DEF RemoteInv, LoadedOK
    <2> QED
      BY <2>2, <2>3, <2>4, <2>5 DEF RemoteSettles, hls_pending
  <1> QED
    BY <1>1, RemoteInductive, PTL
=============================================================================
