--------------------------- MODULE Playback_proofs ---------------------------
(***************************************************************************)
(* Theorems about what plays and from where.                               *)
(*                                                                         *)
(* PlayerSession, for any number of protocols, leases and commands.  Every *)
(* step of the front end is a step of the actor or leaves it alone, so the *)
(* actor's invariants hold; what is added says how the lease, the command  *)
(* in hand and the media in the backend are related.                       *)
(*                                                                         *)
(* Iptv: the user's sources survive, for any sources, any number of losses *)
(* of power and any interleaving of the user's thread, the worker and the  *)
(* coordinator, up to the first save by the user beside a rebuild; what is *)
(* shown as refreshing, up to a suspension lifted before the worker idled. *)
(*                                                                         *)
(* Libmpv: what the backend shows once it and mpv have settled, for any    *)
(* number of commands.  The invariant says of every state what the two     *)
(* queues still hold: which event about the file comes last, whether a     *)
(* load, a stop or a pause is on its way, which removals are to come.  The *)
(* half that is about pauses holds as long as the last load was given to   *)
(* an mpv at rest.                                                         *)
(***************************************************************************)
EXTENDS PlayerSession, Iptv, Libmpv, MediaActor_proofs, Integers, WellFoundedInduction

-----------------------------------------------------------------------------
(* PlayerSession: the inductive invariant. *)

\* A submitter remembers a command it may submit.
CheckedOK == checked \in [Submitters -> Commands \cup {NoCommand}]

\* The lease in force is the last one handed out.
CurrentLeaseOK == current = 0 \/ current = claims

\* A command past its validation carries no lease, or one at least as new as
\* every lease whose command was executed or whose media is open.
HandOK ==
    worker = "execute" =>
        \/ command_in_hand.session = 0
        \/ /\ command_in_hand.session \in Nat /\ command_in_hand.session <= claims
           /\ served <= command_in_hand.session /\ media <= command_in_hand.session

SessionInv == Inv4 /\ SessionTypeOK /\ CheckedOK /\ CurrentLeaseOK /\ HandOK

-----------------------------------------------------------------------------
(* PlayerSession: the actor below. *)

\* The front end drives the actor through its operations only.
LEMMA SessionActorStep ==
    ASSUME CheckedOK, [SessionNext]_allVars
    PROVE  [Next]_vars
  <1>1. CASE ActorOther
    BY <1>1 DEF ActorOther, Next, WorkerStep
  <1>2. CASE PlayerValidates
    <2>1. player_validate_actor_command(command_in_hand) \in BOOLEAN
      BY DEF player_validate_actor_command, player_ownership_validate
    <2> QED
      BY <1>2, <2>1 DEF PlayerValidates, Next
  <1>3. CASE PlayerExecutesRelease
    <2>1. (command_in_hand.session = current) \in BOOLEAN
      OBVIOUS
    <2> QED
      BY <1>3, <2>1 DEF PlayerExecutesRelease, Next, WorkerStep
  <1>4. CASE \E ok \in BOOLEAN : PlayerExecutes(ok)
    BY <1>4 DEF PlayerExecutes, Next, WorkerStep
  <1>5. ASSUME NEW s \in Submitters, PlayerSubmitEnqueue(s)
        PROVE  Next
    <2>1. checked[s] \in Commands
      BY <1>5 DEF PlayerSubmitEnqueue, CheckedOK
    <2>2. Submit(s)
      BY <1>5, <2>1 DEF PlayerSubmitEnqueue, Submit
    <2> QED
      BY <2>2 DEF Next
  <1>6. ASSUME NEW s \in Submitters,
               \/ player_ownership_claim(s) \/ player_ownership_release(s)
               \/ PlayerSubmitRefused(s) \/ \E c \in Commands : PlayerSubmitCheck(s, c)
        PROVE  UNCHANGED vars
    BY <1>6 DEF player_ownership_claim, player_ownership_release, PlayerSubmitRefused,
       PlayerSubmitCheck
  <1>7. CASE UNCHANGED allVars
    BY <1>7 DEF allVars
  <1> QED
    BY <1>1, <1>2, <1>3, <1>4, <1>5, <1>6, <1>7 DEF SessionNext

-----------------------------------------------------------------------------
(* The invariant. *)

LEMMA SessionStarts == SessionInit => SessionInv
  <1> SUFFICES ASSUME SessionInit PROVE SessionInv
    OBVIOUS
  <1>1. Inv4
    <2>1. Inv2
      BY TypeInit, ControlInit DEF SessionInit, Inv2, Control
    <2>2. QueueOK
      BY DEF SessionInit, Init, QueueOK
    <2> QED
      BY <2>1, <2>2 DEF Inv4
  <1>2. SessionTypeOK /\ CheckedOK
    BY SessionAssumption DEF SessionInit, SessionTypeOK, CheckedOK
  <1>3. CurrentLeaseOK /\ HandOK
    BY DEF SessionInit, Init, CurrentLeaseOK, HandOK
  <1> QED
    BY <1>1, <1>2, <1>3 DEF SessionInv

\* The command in hand stays the same command while the worker has it.
LEMMA HandKept ==
    ASSUME Inv4, [Next]_vars, worker \in {"validate", "execute"},
           UNCHANGED current_command_id
    PROVE  command_in_hand' = command_in_hand
  <1>1. current_command_id \in Ids /\ current_command_id <= last_command_id
    BY ConfigAssumption DEF Inv4, QueueOK, Inv2, CurrentOK, Inv1, TypeOK, EngineTypeOK, Ids
  <1>2. request'[current_command_id].command = request[current_command_id].command
    BY <1>1, CommandKept
  <1> QED
    BY <1>2 DEF command_in_hand

LEMMA SessionStep == SessionInv /\ [SessionNext]_allVars => SessionInv'
  <1> SUFFICES ASSUME SessionInv, [SessionNext]_allVars PROVE SessionInv'
    OBVIOUS
  <1>0. /\ Inv4 /\ SessionTypeOK /\ CheckedOK /\ CurrentLeaseOK /\ HandOK
        /\ MaxClaims \in Nat /\ Commands \subseteq Command
    BY SessionAssumption, ConfigAssumption DEF SessionInv
  <1>1. [Next]_vars /\ Inv4'
    <2>1. [Next]_vars
      BY <1>0, SessionActorStep
    <2>2. Inv2'
      BY <1>0, <2>1, TypeStep, ControlStep DEF Inv4, Inv2, Control
    <2> QED
      BY <1>0, <2>1, <2>2, QueueStep DEF Inv4
  <1>2. CASE UNCHANGED sessionVars /\ (worker' = "execute" => UNCHANGED <<worker, current_command_id>>)
    <2>1. HandOK'
      BY <1>0, <1>1, <1>2, HandKept DEF HandOK, sessionVars
    <2> QED
      BY <1>0, <1>1, <1>2, <2>1 DEF SessionInv, sessionVars, SessionTypeOK, CheckedOK, CurrentLeaseOK
  <1>3. CASE ActorOther
    <2>1. worker' = "execute" => UNCHANGED <<worker, current_command_id>>
      BY <1>3 DEF ActorOther, Start, StartBegin, StartThread, StartFails, StartReturn,
         WorkerInitialized, WorkerInitializeFails, WorkerLeavesBurst, WorkerPops, WorkerPumps,
         Activate, WaitCompleted, WaitTimeout, wait_returns, engine
    <2> QED
      BY <1>2, <1>3, <2>1 DEF ActorOther
  <1>4. CASE PlayerValidates
    <2>1. UNCHANGED sessionVars /\ worker = "validate"
      BY <1>4 DEF PlayerValidates, WorkerValidates
    <2>2. ASSUME worker' = "execute"
          PROVE  /\ UNCHANGED current_command_id
                 /\ command_in_hand.session = 0 \/ command_in_hand.session = current
      BY <1>4, <2>2 DEF PlayerValidates, WorkerValidates, complete_current,
         player_validate_actor_command, player_ownership_validate
    <2>3. HandOK'
      BY <1>0, <1>1, <2>1, <2>2, HandKept DEF HandOK, sessionVars, CurrentLeaseOK, SessionTypeOK
    <2> QED
      BY <1>0, <1>1, <2>1, <2>3 DEF SessionInv, sessionVars, SessionTypeOK, CheckedOK, CurrentLeaseOK
  <1>5. CASE PlayerExecutesRelease \/ \E ok \in BOOLEAN : PlayerExecutes(ok)
    <2>1. /\ worker = "execute" /\ worker' = "poll" /\ UNCHANGED <<claims, lease, checked>>
          /\ served' = serves(command_in_hand.session) /\ current' \in {0, current}
          /\ media' \in {0, media, command_in_hand.session}
      BY <1>5 DEF PlayerExecutesRelease, PlayerExecutes, WorkerExecutes, complete_current
    <2>2. /\ command_in_hand.session \in 0 .. claims
          /\ served' \in 0 .. claims /\ media' \in 0 .. claims
      BY <1>0, <2>1 DEF HandOK, SessionTypeOK, serves
    <2> QED
      BY <1>0, <1>1, <2>1, <2>2 DEF SessionInv, SessionTypeOK, CheckedOK, CurrentLeaseOK, HandOK
  <1>6. ASSUME NEW s \in Submitters, player_ownership_claim(s)
        PROVE  SessionInv'
    <2>1. /\ claims' = claims + 1 /\ current' = claims' /\ claims' \in 0 .. MaxClaims
          /\ lease' = [lease EXCEPT ![s] = claims'] /\ UNCHANGED <<vars, checked, media, served>>
      BY <1>0, <1>6 DEF player_ownership_claim, SessionTypeOK
    <2>2. SessionTypeOK' /\ CheckedOK' /\ CurrentLeaseOK'
      BY <1>0, <2>1 DEF SessionTypeOK, CheckedOK, CurrentLeaseOK
    <2>3. UNCHANGED <<worker, command_in_hand>>
      BY <2>1 DEF vars, engine, store, command_in_hand
    <2>4. HandOK'
      BY <1>0, <2>1, <2>3 DEF HandOK, SessionTypeOK
    <2> QED
      BY <1>1, <2>2, <2>4 DEF SessionInv
  <1>7. ASSUME NEW s \in Submitters,
               \/ player_ownership_release(s) \/ PlayerSubmitRefused(s) \/ PlayerSubmitEnqueue(s)
               \/ \E c \in Commands : PlayerSubmitCheck(s, c)
        PROVE  SessionInv'
    <2>1. /\ UNCHANGED <<claims, lease, media, served>> /\ current' \in {0, current}
          /\ UNCHANGED <<worker, current_command_id>>
      BY <1>7 DEF player_ownership_release, PlayerSubmitRefused, PlayerSubmitEnqueue,
         PlayerSubmitCheck, SubmitCoalesced, SubmitAsync, SubmitWait, vars, engine
    <2>2. CheckedOK'
      BY <1>0, <1>7 DEF player_ownership_release, PlayerSubmitRefused, PlayerSubmitEnqueue,
         PlayerSubmitCheck, CheckedOK
    <2>3. SessionTypeOK' /\ CurrentLeaseOK'
      BY <1>0, <2>1, <2>2 DEF SessionTypeOK, CurrentLeaseOK, CheckedOK
    <2>4. HandOK'
      BY <1>0, <1>1, <2>1, HandKept DEF HandOK
    <2> QED
      BY <1>1, <2>2, <2>3, <2>4 DEF SessionInv
  <1>8. CASE UNCHANGED allVars
    BY <1>2, <1>8 DEF allVars, vars, engine
  <1> QED
    BY <1>3, <1>4, <1>5, <1>6, <1>7, <1>8 DEF SessionNext

LEMMA SessionInvariant == SessionSpec => []SessionInv
  BY SessionStarts, SessionStep, PTL DEF SessionSpec

-----------------------------------------------------------------------------
(* Theorems. *)

\* The player's front end is a user of the media actor: whatever it does is a
\* behaviour of the actor (session.c calls media_actor.c only through its
\* operations), so that every theorem about the actor holds of the player.
THEOREM SessionImplementsActor == SessionSpec => Spec
  <1>1. SessionInv /\ [SessionNext]_allVars => [Next]_vars
    BY SessionActorStep DEF SessionInv
  <1>2. SessionInit => Init
    BY DEF SessionInit
  <1> QED
    BY <1>1, <1>2, SessionInvariant, PTL DEF SessionSpec, Spec

\* The variables of the front end keep their types; leases stay below the
\* last one handed out.
THEOREM SessionTypeCorrect == SessionSpec => []SessionTypeOK
  <1>1. SessionInv => SessionTypeOK
    BY DEF SessionInv
  <1> QED
    BY <1>1, SessionInvariant, PTL

\* What an execution does to the lease served, the media and the lease in
\* force; no other step touches the first two.
LEMMA ExecutionSteps ==
    ASSUME SessionInv, [SessionNext]_allVars
    PROVE  /\ media' # media \/ served' # served =>
                 worker = "execute" /\ served' = serves(command_in_hand.session)
           /\ worker = "execute" /\ worker' = "poll" /\ current' # current =>
                 command_in_hand.session = current
  <1>1. CASE PlayerExecutesRelease
    BY <1>1 DEF PlayerExecutesRelease, WorkerExecutes
  <1>2. CASE \E ok \in BOOLEAN : PlayerExecutes(ok)
    BY <1>2 DEF PlayerExecutes
  <1>3. CASE ActorOther \/ PlayerValidates
    BY <1>3 DEF ActorOther, PlayerValidates, sessionVars
  <1>4. ASSUME NEW s \in Submitters, player_ownership_claim(s) \/ player_ownership_release(s)
        PROVE  UNCHANGED <<media, served, worker>>
    BY <1>4 DEF player_ownership_claim, player_ownership_release, vars, engine
  <1>5. ASSUME NEW s \in Submitters,
               \/ PlayerSubmitRefused(s) \/ PlayerSubmitEnqueue(s)
               \/ \E c \in Commands : PlayerSubmitCheck(s, c)
        PROVE  UNCHANGED <<media, served, current>>
    BY <1>5 DEF PlayerSubmitRefused, PlayerSubmitEnqueue, PlayerSubmitCheck
  <1>6. CASE UNCHANGED allVars
    BY <1>6 DEF allVars, sessionVars
  <1> QED
    BY <1>1, <1>2, <1>3, <1>4, <1>5, <1>6 DEF SessionNext

\* Once a command of a lease was executed no command of an older lease is,
\* however long it was queued: player_validate_actor_command lets through
\* only the lease in force, which is the newest.
THEOREM TakeoverFinal == SessionSpec => TakeoverIsFinal
  <1>1. SessionInv /\ [SessionNext]_allVars => [served' # served => served' > served]_allVars
    <2> SUFFICES ASSUME SessionInv, [SessionNext]_allVars, served' # served
                 PROVE  served' > served
      OBVIOUS
    <2>1. worker = "execute" /\ served' = serves(command_in_hand.session)
      BY ExecutionSteps
    <2> QED
      BY <2>1 DEF SessionInv, HandOK, SessionTypeOK, serves
  <1> QED
    BY <1>1, SessionInvariant, PTL DEF SessionSpec, TakeoverIsFinal

\* A command of a replaced session, even one already past its validation,
\* never disturbs media that a later lease opened.
THEOREM SuccessorSafe == SessionSpec => SuccessorMediaSafe
  <1>1. SessionInv /\ [SessionNext]_allVars =>
            [media' # media =>
                command_in_hand.session = 0 \/ command_in_hand.session >= media]_allVars
    <2> SUFFICES ASSUME SessionInv, [SessionNext]_allVars, media' # media
                 PROVE  command_in_hand.session = 0 \/ command_in_hand.session >= media
      OBVIOUS
    <2>1. worker = "execute"
      BY ExecutionSteps
    <2> QED
      BY <2>1 DEF SessionInv, HandOK, SessionTypeOK
  <1> QED
    BY <1>1, SessionInvariant, PTL DEF SessionSpec, SuccessorMediaSafe

\* RELEASE_LEASE, executed long after it was submitted, gives up only the
\* lease it carries.
THEOREM ReleaseSpares == SessionSpec => ReleaseSparesSuccessor
  <1>1. SessionInv /\ [SessionNext]_allVars =>
            [worker = "execute" /\ worker' = "poll" /\ current' # current =>
                command_in_hand.session = current]_allVars
    BY ExecutionSteps
  <1> QED
    BY <1>1, SessionInvariant, PTL DEF SessionSpec, ReleaseSparesSuccessor

-----------------------------------------------------------------------------
(* Iptv: the inductive invariant. *)

Lists == [present : BOOLEAN, list : SUBSET Sources]
IsCard(c) ==
    c \in [tsv : Lists, bak : Lists, txt : SUBSET Sources, cached : SUBSET Sources,
           recent : {c.recent}]
IsCatalog(c) ==
    c \in [up : BOOLEAN, sources : SUBSET Sources, channels : SUBSET Sources,
           selected : Sources \cup {0}, recent : {c.recent}, playing : Sources \cup {0},
           refresh_needed : BOOLEAN, stale : BOOLEAN]
UserPlaces == {"idle", "reload", "init", "join", "add", "epg", "save", "place", "refresh",
               "build", "commit", "select", "refresh_all"}
UserStates == [at : UserPlaces,
               then : {"none", "init", "add", "epg", "remove", "select", "refresh_all"},
               source : Sources \cup {0}, existed : BOOLEAN]
RebuildStates == [by : {"nobody", "user", "worker"}, read : BOOLEAN, list : SUBSET Sources,
                  channels : SUBSET Sources, needed : BOOLEAN]
RefreshStates == [all : BOOLEAN, source : Sources \cup {0}, refreshing : BOOLEAN,
                  suspended : BOOLEAN, stop : BOOLEAN, started : BOOLEAN, busy : BOOLEAN]
JobPlaces == {"none", "wait", "snapshot", "fetch", "rebuild", "build", "commit", "finish",
              "finished"}
JobStates == [at : JobPlaces, all : BOOLEAN, source : Sources \cup {0}, left : SUBSET Sources,
              cancelled : BOOLEAN]

LibraryTypes ==
    /\ IsCard(card) /\ IsCatalog(catalog) /\ user \in UserStates
    /\ rebuild \in RebuildStates /\ kept \subseteq Sources
WorkerTypes ==
    /\ refresh \in RefreshStates /\ job \in JobStates
    /\ suspender \in {"idle", "waiting", "suspended"} /\ hasty \in BOOLEAN

\* The user's thread holds g_mutex through a save.  A catalog is loaded once
\* the first rebuild has been committed.  A source being added counts only
\* when it is saved, and the list it joins is in the backup meanwhile.
Saving == user.at \in {"save", "place"}
Loaded == catalog.up /\ ~(user.then = "init" /\ user.at \in {"reload", "build", "commit"})
Remembered == IF Saving /\ user.then = "add" THEN catalog.sources \ {user.source}
              ELSE catalog.sources
Saved == IF user.at = "place" THEN card.bak.list ELSE card.tsv.list

\* A card holds the list: in its place, or moved away.
Safe(c, list) ==
    /\ ~c.tsv.present => c.tsv.list = {}
    /\ ~c.bak.present => c.bak.list = {}
    /\ list \subseteq IF c.tsv.present THEN c.tsv.list ELSE c.bak.list

\* What the user's thread does, and when there is a worker.
UserOK ==
    /\ ~catalog.up => catalog = NoCatalog /\ user.at = "idle" /\ job.at = "none"
    /\ user.at = "init" => user.then = "init"
    /\ user.then = "init" => user.at \in {"reload", "build", "commit", "init"} /\ job.at = "none"
    /\ Saving <=> user.then \in {"add", "epg", "remove"}
    /\ user.at = "add" => user.source \in Sources
    /\ catalog.selected \in Remembered \cup {0}

\* One rebuild at a time, none during a save, and what it has read is still
\* what the card says.
RebuildOK ==
    /\ rebuild.by = "user" <=> user.at \in {"build", "commit"}
    /\ rebuild.by = "worker" <=> job.at \in {"build", "commit"}
    /\ rebuild.read <=> user.at = "commit" \/ job.at = "commit"
    /\ rebuild.read => rebuild.list = card.tsv.list /\ card.txt \subseteq rebuild.list
    /\ Saving => rebuild.by = "nobody"

CardOK ==
    /\ Safe(card, kept)
    /\ user.at = "place" => ~card.tsv.present /\ (user.existed <=> card.bak.present)

\* A loaded catalog has every source sources.txt names and every source kept,
\* unless only the backup is left, and is the saved list unless it is stale.
MemoryOK ==
    Loaded /\ ~rebuild.read =>
        /\ card.txt \subseteq Remembered
        /\ card.tsv.present \/ user.at = "place" => kept \subseteq Remembered
        /\ ~catalog.stale /\ user.then # "remove" /\ (user.at = "place" \/ ~only_copy(card))
           => Remembered = Saved

\* A stop is waited for; a suspension need not be, its wait has an end.
StopOK ==
    /\ refresh.stop /\ catalog.up => user.at = "join"
    /\ job.at # "none" => refresh.started
    /\ refresh.busy <=> job.at \notin {"none", "wait"}
    /\ refresh.suspended <=> suspender # "idle"

\* A refresh shown as running is under way or asked for, unless a stop or a
\* suspension cut it short: then the worker is not done with it.  A resumption
\* that did not wait for that breaks it until the worker ends a refresh.
RefreshOK ==
    /\ ~hasty /\ refresh.refreshing /\ ~refresh.stop
    /\ job.at \in {"none", "wait"} \/ (job.at = "finished" /\ ~refresh.suspended)
    => refresh.all \/ refresh.source # 0

LibraryInv == LibraryTypes /\ UserOK /\ RebuildOK /\ CardOK /\ MemoryOK
WorkerInv == WorkerTypes /\ StopOK /\ RefreshOK
IptvInv == ~raced => LibraryInv /\ WorkerInv

-----------------------------------------------------------------------------
(* Saving a list. *)

LEMMA SaveStarts ==
    ASSUME NEW c, IsCard(c), NEW list, Safe(c, list), NEW s \in save_starts(c)
    PROVE  /\ IsCard(s.card) /\ Safe(s.card, list) /\ s.card.txt = c.txt /\ s.ok \in BOOLEAN
           /\ ~s.ok => s.card.tsv = c.tsv /\ (only_copy(s.card) <=> only_copy(c))
           /\ s.ok => /\ ~s.card.tsv.present /\ ~only_copy(c)
                      /\ s.card.bak.present <=> c.tsv.present
                      /\ s.card.bak.list = c.tsv.list
  <1>1. CASE s = [card |-> c, ok |-> FALSE]
    BY <1>1
  <1>2. CASE s = [card |-> unbacked(c), ok |-> FALSE] /\ ~only_copy(c)
    BY <1>2 DEF unbacked, only_copy, IsCard, Safe, Lists, Absent
  <1>3. CASE s = [card |-> IF c.tsv.present THEN moved(unbacked(c)) ELSE unbacked(c), ok |-> TRUE]
             /\ ~only_copy(c)
    BY <1>3 DEF unbacked, moved, only_copy, IsCard, Safe, Lists, Absent
  <1> QED
    BY <1>1, <1>2, <1>3 DEF save_starts

LEMMA SaveEnds ==
    ASSUME NEW c, IsCard(c), NEW list, Safe(c, list), ~c.tsv.present,
           NEW existed \in BOOLEAN, existed <=> c.bak.present,
           NEW new \in SUBSET Sources, list \subseteq new, NEW s \in save_ends(c, existed, new)
    PROVE  /\ IsCard(s.card) /\ Safe(s.card, list) /\ s.card.txt = c.txt /\ s.ok \in BOOLEAN
           /\ s.ok => s.card.tsv = File(new)
           /\ ~s.ok /\ ~only_copy(s.card) => s.card.tsv.list = c.bak.list
  <1>1. CASE s = [card |-> placed(c, new), ok |-> TRUE]
    BY <1>1 DEF placed, File, IsCard, Safe, Lists
  <1>2. CASE s = [card |-> unbacked(placed(c, new)), ok |-> TRUE]
    BY <1>2 DEF placed, unbacked, File, IsCard, Safe, Lists, Absent
  <1>3. CASE s = [card |-> c, ok |-> FALSE]
    BY <1>3 DEF IsCard, Safe, Lists, only_copy
  <1>4. CASE s = [card |-> restored(c), ok |-> FALSE] /\ existed
    BY <1>4 DEF restored, IsCard, Safe, Lists, Absent
  <1> QED
    BY <1>1, <1>2, <1>3, <1>4 DEF save_ends

LEMMA Replaces ==
    ASSUME NEW c, IsCard(c), NEW list, Safe(c, list), NEW new \in SUBSET Sources,
           ~only_copy(c) => list \subseteq new, NEW s \in replace_saved_file(c, new)
    PROVE  /\ IsCard(s.card) /\ Safe(s.card, list) /\ s.card.txt = c.txt /\ s.ok \in BOOLEAN
           /\ s.ok => s.card.tsv = File(new)
           /\ only_copy(c) => ~s.ok /\ s.card = c
  <1>1. CASE s \in save_starts(c) /\ ~s.ok
    <2>1. only_copy(c) => s.card = c
      BY <1>1 DEF save_starts
    <2> QED
      BY <1>1, <2>1, SaveStarts
  <1>2. ASSUME NEW b \in save_starts(c), b.ok, s \in save_ends(b.card, c.tsv.present, new)
        PROVE  /\ IsCard(s.card) /\ Safe(s.card, list) /\ s.card.txt = c.txt /\ s.ok \in BOOLEAN
               /\ s.ok => s.card.tsv = File(new)
               /\ ~only_copy(c)
    <2>1. /\ IsCard(b.card) /\ Safe(b.card, list) /\ b.card.txt = c.txt
          /\ ~b.card.tsv.present /\ ~only_copy(c) /\ (b.card.bak.present <=> c.tsv.present)
      BY <1>2, SaveStarts
    <2>2. c.tsv.present \in BOOLEAN
      BY DEF IsCard, Lists
    <2> QED
      BY <1>2, <2>1, <2>2, SaveEnds
  <1> QED
    BY <1>1, <1>2 DEF replace_saved_file

\* The list is read, sources.txt merged in and the result saved if it differs.
LEMMA Loads ==
    ASSUME NEW c, IsCard(c), NEW list, Safe(c, list), NEW s \in load_remote_sources(c)
    PROVE  /\ IsCard(s.card) /\ Safe(s.card, list) /\ s.card.txt = c.txt
           /\ s.ok => /\ Safe(s.card, list \cup c.txt)
                      /\ s.card.tsv.list = merge_preinstalled_sources(c)
           /\ only_copy(c) \/ c.txt \subseteq c.tsv.list => s.card = c
           /\ merge_preinstalled_sources(c) \in SUBSET Sources
  <1> DEFINE new == merge_preinstalled_sources(c)
  <1>1. new = c.tsv.list \cup c.txt /\ new \in SUBSET Sources
    BY DEF merge_preinstalled_sources, IsCard, Lists
  <1>2. CASE new = c.tsv.list
    <2>1. s = [card |-> c, ok |-> TRUE]
      BY <1>2 DEF load_remote_sources
    <2> QED
      BY <1>1, <1>2, <2>1 DEF Safe
  <1>3. CASE new # c.tsv.list
    <2>1. s \in replace_saved_file(c, new)
      BY <1>3 DEF load_remote_sources
    <2>2. ~only_copy(c) => list \subseteq new
      BY <1>1 DEF Safe, only_copy, IsCard, Lists
    <2>3. /\ IsCard(s.card) /\ Safe(s.card, list) /\ s.card.txt = c.txt /\ s.ok \in BOOLEAN
          /\ s.ok => s.card.tsv = File(new) /\ ~only_copy(c)
          /\ only_copy(c) => s.card = c
      <3> HIDE DEF new
      <3> QED BY <1>1, <2>1, <2>2, Replaces
    <2>4. ~(c.txt \subseteq c.tsv.list)
      BY <1>1, <1>3
    <2>5. s.ok => Safe(s.card, list \cup c.txt) /\ s.card.tsv.list = new
      BY <1>1, <2>2, <2>3 DEF Safe, File
    <2> QED
      BY <1>1, <2>3, <2>4, <2>5
  <1> QED
    BY <1>2, <1>3

-----------------------------------------------------------------------------
(* The library: the card, the catalog, the user's thread and the rebuild. *)

\* Nothing of it changes, and the worker is where it was as far as it matters.
LEMMA LibraryFrame ==
    ASSUME LibraryInv, UNCHANGED <<card, catalog, user, rebuild, kept>>,
           job'.at = "none" \/ (job.at # "none" /\ job'.at # "none"),
           job'.at \in {"build", "commit"} \/ job.at \in {"build", "commit"} => job'.at = job.at
    PROVE  LibraryInv'
  BY DEF LibraryInv, LibraryTypes, UserOK, RebuildOK, CardOK, MemoryOK, Saving, Loaded,
         Remembered, Saved

\* The user's thread goes on, outside a save, a rebuild and the start.
LEMMA UserMoves ==
    ASSUME LibraryInv, UNCHANGED <<card, rebuild, kept, job>>, catalog.up,
           IsCatalog(catalog'), catalog'.up, catalog'.sources = catalog.sources,
           catalog'.stale = catalog.stale, catalog'.selected \in catalog.sources \cup {0},
           user' \in UserStates,
           user.at \notin {"save", "place", "build", "commit"}, user.then # "init",
           user'.at \notin {"save", "place", "build", "commit", "init"},
           user'.at = "add" => user'.source \in Sources,
           user'.then \notin {"init", "add", "epg", "remove"}
    PROVE  LibraryInv'
  BY DEF LibraryInv, LibraryTypes, UserOK, RebuildOK, CardOK, MemoryOK, Saving, Loaded,
         Remembered, Saved

LEMMA Init_Library ==
    ASSUME IptvInit
    PROVE  LibraryInv
  BY IptvAssumption
     DEF IptvInit, LibraryInv, LibraryTypes, UserOK, RebuildOK, CardOK, MemoryOK, Saving, Loaded,
         Remembered, Saved, IsCard, IsCatalog, Lists, UserStates, UserPlaces, RebuildStates,
         Safe, Absent, NoCatalog, NoUser, NoJob, NoRebuild

LEMMA Library_init ==
    ASSUME LibraryInv, iptv_init
    PROVE  LibraryInv'
  BY DEF histories, iptv_init, goes, NoUser, LibraryInv, LibraryTypes, UserOK, RebuildOK, CardOK, MemoryOK,
         Saving, Loaded, Remembered, Saved, IsCatalog, UserStates, UserPlaces, NoCatalog

LEMMA Library_init_done ==
    ASSUME LibraryInv, iptv_init_done
    PROVE  LibraryInv'
  <1>1. /\ UNCHANGED <<card, rebuild, kept>> /\ user.at = "init" /\ user.then = "init"
        /\ job.at = "none" /\ catalog.up /\ Loaded
        /\ user' = [at |-> "idle", then |-> "none", source |-> 0, existed |-> FALSE]
    BY DEF histories, iptv_init_done, goes, NoUser, LibraryInv, UserOK, Loaded
  <1>2. /\ IsCatalog(catalog') /\ catalog'.up /\ catalog'.sources = catalog.sources
        /\ catalog'.stale = catalog.stale /\ catalog'.selected = catalog.selected
    BY <1>1 DEF histories, iptv_init_done, LibraryInv, LibraryTypes, IsCatalog
  <1>3. job'.at \in {"none", "wait"}
    BY <1>1 DEF histories, iptv_init_done, NoJob
  <1>4. user' \in UserStates
    BY <1>1 DEF UserStates, UserPlaces
  <1> QED
    BY <1>1, <1>2, <1>3, <1>4
       DEF LibraryInv, LibraryTypes, UserOK, RebuildOK, CardOK, MemoryOK, Saving, Loaded,
           Remembered, Saved

LEMMA Library_deinit ==
    ASSUME LibraryInv, iptv_deinit
    PROVE  LibraryInv'
  BY UserMoves DEF histories, iptv_deinit, act, goes, NoUser, LibraryInv, LibraryTypes, UserOK, UserStates,
                   UserPlaces, Remembered, Saving

LEMMA Library_deinit_done ==
    ASSUME LibraryInv, iptv_deinit_done
    PROVE  LibraryInv'
  BY DEF histories, iptv_deinit_done, goes, NoUser, LibraryInv, LibraryTypes, UserOK, RebuildOK, CardOK,
         MemoryOK, Saving, Loaded, Remembered, Saved, IsCatalog, UserStates, UserPlaces, NoCatalog

LEMMA Library_asks ==
    ASSUME LibraryInv, user_asks
    PROVE  LibraryInv'
  <1>1. /\ UNCHANGED <<card, catalog, rebuild, kept, job>> /\ catalog.up /\ user.at = "idle"
        /\ IsCatalog(catalog) /\ user.then # "init" /\ catalog.selected \in catalog.sources \cup {0}
    BY DEF histories, user_asks, act, LibraryInv, LibraryTypes, UserOK, Remembered, Saving
  <1>2. CASE \E s \in Sources : goes("add", "none", s)
    <2>1. /\ user' \in UserStates /\ user'.at = "add" /\ user'.then = "none"
          /\ user'.source \in Sources
      BY <1>2 DEF goes, NoUser, UserStates, UserPlaces
    <2> QED
      BY <1>1, <2>1, UserMoves
  <1>3. CASE goes("epg", "none", catalog.selected)
    <2>1. user' \in UserStates /\ user'.at = "epg" /\ user'.then = "none"
      BY <1>1, <1>3 DEF goes, NoUser, UserStates, UserPlaces, IsCatalog
    <2> QED
      BY <1>1, <2>1, UserMoves
  <1> QED
    BY <1>2, <1>3 DEF histories, user_asks

LEMMA Library_reloads ==
    ASSUME LibraryInv, user_reloads
    PROVE  LibraryInv'
  BY UserMoves DEF histories, user_reloads, act, goes, NoUser, LibraryInv, LibraryTypes, UserOK, UserStates,
                   UserPlaces, Remembered, Saving

LEMMA Library_select ==
    ASSUME LibraryInv, select_added
    PROVE  LibraryInv'
  BY UserMoves DEF histories, select_added, goes, NoUser, LibraryInv, LibraryTypes, UserOK, UserStates,
                   UserPlaces, Remembered, Saving, IsCatalog

LEMMA Library_refresh ==
    ASSUME LibraryInv, refresh_selected_source
    PROVE  LibraryInv'
  BY UserMoves DEF histories, refresh_selected_source, act, goes, NoUser, LibraryInv, LibraryTypes, UserOK,
                   UserStates, UserPlaces, Remembered, Saving

LEMMA Library_refresh_all ==
    ASSUME LibraryInv, refresh_all
    PROVE  LibraryInv'
  BY UserMoves DEF histories, refresh_all, goes, NoUser, LibraryInv, LibraryTypes, UserOK, UserStates,
                   UserPlaces, Remembered, Saving, IsCatalog

LEMMA Library_play ==
    ASSUME LibraryInv, play_channel
    PROVE  LibraryInv'
  <1>1. UNCHANGED <<user, job, rebuild, kept>> /\ user.at = "idle" /\ catalog.up
    BY DEF histories, play_channel, act
  <1>2. /\ IsCatalog(catalog') /\ catalog'.up /\ catalog'.sources = catalog.sources
        /\ catalog'.stale = catalog.stale /\ catalog'.selected = catalog.selected
    BY <1>1 DEF histories, play_channel, LibraryInv, LibraryTypes, IsCatalog
  <1>3. /\ IsCard(card') /\ card'.tsv = card.tsv /\ card'.bak = card.bak
        /\ card'.txt = card.txt
    BY DEF histories, play_channel, LibraryInv, LibraryTypes, IsCard
  <1> QED
    BY <1>1, <1>2, <1>3
       DEF LibraryInv, LibraryTypes, UserOK, RebuildOK, CardOK, MemoryOK, Saving, Loaded,
           Remembered, Saved, Safe, only_copy

LEMMA Library_add ==
    ASSUME LibraryInv, add_source, ~raced'
    PROVE  LibraryInv'
  <1>1. /\ UNCHANGED <<card, job, rebuild, kept>> /\ user.at = "add"
        /\ catalog.up /\ user.then \notin {"init", "add", "epg", "remove"}
        /\ Remembered = catalog.sources /\ Saved = card.tsv.list
    BY DEF add_source, histories, LibraryInv, UserOK, Saving, Remembered, Saved
  <1>2. CASE user.source \in catalog.sources
    <2>1. /\ catalog' = [catalog EXCEPT !.selected = user.source]
          /\ user' = [at |-> "refresh", then |-> "none", source |-> 0, existed |-> FALSE]
      BY <1>2 DEF histories, add_source, goes, NoUser
    <2>2. /\ IsCatalog(catalog') /\ catalog'.up /\ catalog'.stale = catalog.stale
          /\ catalog'.selected = user.source /\ catalog'.sources = catalog.sources
      BY <1>1, <1>2, <2>1 DEF LibraryInv, LibraryTypes, IsCatalog
    <2>3. user' \in UserStates
      BY <2>1 DEF UserStates, UserPlaces
    <2> QED
      BY <1>1, <1>2, <2>1, <2>2, <2>3, UserMoves
  <1>3. CASE user.source \notin catalog.sources
    <2>1. /\ catalog' = [catalog EXCEPT !.sources = @ \cup {user.source}]
          /\ user' = [at |-> "save", then |-> "add", source |-> user.source, existed |-> FALSE]
          /\ rebuild.by = "nobody"
      BY <1>3 DEF histories, add_source, goes, NoUser, races
    <2>2. user.source \in Sources
      BY <1>1 DEF LibraryInv, UserOK
    <2>3. /\ IsCatalog(catalog') /\ catalog'.up /\ catalog'.stale = catalog.stale
          /\ catalog'.selected = catalog.selected
          /\ catalog'.sources = catalog.sources \cup {user.source}
      BY <1>1, <2>1, <2>2 DEF LibraryInv, LibraryTypes, IsCatalog
    <2>4. Remembered' = catalog.sources /\ Saved' = card.tsv.list
      BY <1>1, <1>3, <2>1, <2>3 DEF Remembered, Saved, Saving
    <2>5. LibraryTypes'
      BY <1>1, <2>1, <2>2, <2>3 DEF LibraryInv, LibraryTypes, UserStates, UserPlaces
    <2> QED
      BY <1>1, <2>1, <2>3, <2>4, <2>5
         DEF LibraryInv, UserOK, RebuildOK, CardOK, MemoryOK, Saving, Loaded
  <1> QED
    BY <1>2, <1>3

LEMMA Library_epg ==
    ASSUME LibraryInv, set_source_epg, ~raced'
    PROVE  LibraryInv'
  BY DEF histories, set_source_epg, races, goes, NoUser, LibraryInv, LibraryTypes, UserOK, RebuildOK,
         CardOK, MemoryOK, Saving, Loaded, Remembered, Saved, UserStates, UserPlaces

LEMMA Library_remove ==
    ASSUME LibraryInv, remove_selected_source, ~raced'
    PROVE  LibraryInv'
  <1> DEFINE gone == catalog.selected
             list == catalog.sources \ {gone}
  <1>1. /\ UNCHANGED <<job, rebuild>> /\ user.at = "idle" /\ rebuild.by = "nobody"
        /\ catalog.up /\ gone # 0 /\ ~Saving /\ Remembered = catalog.sources
    BY DEF histories, remove_selected_source, act, races, Saving, Remembered
  <1>2. CASE card' \in preinstalled_kept(card) /\ UNCHANGED <<catalog, user, kept>>
    <2>1. CASE card' = card
      BY <1>1, <1>2, <2>1, LibraryFrame
    <2>2. CASE card' = [card EXCEPT !.txt = {}]
      <3>1. /\ IsCard(card') /\ card'.tsv = card.tsv /\ card'.bak = card.bak
            /\ card'.txt = {}
        BY <2>2 DEF LibraryInv, LibraryTypes, IsCard
      <3> QED
        BY <1>1, <1>2, <3>1
           DEF LibraryInv, LibraryTypes, UserOK, RebuildOK, CardOK, MemoryOK, Saving, Loaded,
               Remembered, Saved, Safe, only_copy
    <2> QED
      BY <1>2, <2>1, <2>2 DEF preinstalled_kept
  <1>3. CASE /\ card' = remove_preinstalled_source(card, gone)
             /\ catalog' = [catalog EXCEPT !.sources = list,
                   !.selected = IF list = {} THEN 0 ELSE CHOOSE x \in list : TRUE]
             /\ kept' = kept \ {gone}
             /\ goes("save", "remove", gone)
    <2>1. user' = [at |-> "save", then |-> "remove", source |-> gone, existed |-> FALSE]
      BY <1>3 DEF goes, NoUser
    <2>2. /\ IsCatalog(catalog') /\ catalog'.up /\ catalog'.sources = list
          /\ catalog'.selected \in list \cup {0}
      BY <1>1, <1>3 DEF LibraryInv, LibraryTypes, IsCatalog
    <2>3. /\ IsCard(card') /\ card'.tsv = card.tsv /\ card'.bak = card.bak
          /\ card'.txt = card.txt \ {gone}
      BY <1>3 DEF remove_preinstalled_source, LibraryInv, LibraryTypes, IsCard
    <2>4. Remembered' = list
      BY <2>1, <2>2 DEF Remembered
    <2>5. LibraryTypes'
      BY <1>1, <1>3, <2>1, <2>2, <2>3
         DEF LibraryInv, LibraryTypes, IsCatalog, UserStates, UserPlaces
    <2> QED
      BY <1>1, <1>3, <2>1, <2>2, <2>3, <2>4, <2>5
         DEF LibraryInv, UserOK, RebuildOK, CardOK, MemoryOK, Saving, Loaded, Safe
  <1> QED
    BY <1>2, <1>3 DEF histories, remove_selected_source

\* A save that failed leaves what was remembered before it.
LEMMA SaveFails ==
    ASSUME LibraryInv, Saving, save_failed
    PROVE  /\ IsCatalog(catalog') /\ catalog'.up /\ catalog'.sources = Remembered
           /\ catalog'.selected = catalog.selected
           /\ ~catalog'.stale => ~catalog.stale /\ user.then # "remove"
           /\ user' = NoUser
  <1>1. IsCatalog(catalog) /\ catalog.up /\ user.then \in {"add", "epg", "remove"}
    BY DEF LibraryInv, LibraryTypes, UserOK, Saving
  <1>2. user' = NoUser
    BY DEF save_failed, goes, NoUser
  <1>3. CASE user.then = "add"
    BY <1>1, <1>2, <1>3 DEF save_failed, IsCatalog, Remembered
  <1>4. CASE user.then = "remove"
    BY <1>1, <1>2, <1>4 DEF save_failed, IsCatalog, Remembered
  <1>5. CASE user.then = "epg"
    BY <1>1, <1>2, <1>5 DEF save_failed, IsCatalog, Remembered
  <1> QED
    BY <1>1, <1>3, <1>4, <1>5

LEMMA Library_save_begins ==
    ASSUME LibraryInv, save_begins
    PROVE  LibraryInv'
  <1>1. PICK s \in save_starts(card) :
           /\ card' = s.card
           /\ \/ /\ s.ok
                 /\ user' = [user EXCEPT !.at = "place", !.existed = card.tsv.present]
                 /\ UNCHANGED catalog
              \/ ~s.ok /\ save_failed
    BY DEF histories, save_begins
  <1>2. /\ UNCHANGED <<job, rebuild, kept>> /\ user.at = "save" /\ Saving
        /\ rebuild.by = "nobody" /\ ~rebuild.read /\ catalog.up /\ Loaded
        /\ user.then \in {"add", "epg", "remove"}
        /\ user.at \notin {"build", "commit"} /\ job.at \notin {"build", "commit"}
    BY DEF histories, save_begins, LibraryInv, UserOK, RebuildOK, Saving, Loaded
  <1>3. /\ IsCard(card') /\ Safe(card', kept) /\ card'.txt = card.txt
        /\ ~s.ok => card'.tsv = card.tsv /\ (only_copy(card') <=> only_copy(card))
        /\ s.ok => /\ ~card'.tsv.present /\ ~only_copy(card)
                   /\ card'.bak.present <=> card.tsv.present
                   /\ card'.bak.list = card.tsv.list
    BY <1>1, SaveStarts DEF LibraryInv, LibraryTypes, CardOK
  <1>4. CASE s.ok
    <2>1. /\ user' = [user EXCEPT !.at = "place", !.existed = card.tsv.present]
          /\ UNCHANGED catalog
      BY <1>1, <1>4
    <2>2. /\ user' \in UserStates /\ user'.at = "place" /\ user'.then = user.then
          /\ user'.source = user.source /\ user'.existed = card.tsv.present
      BY <2>1 DEF LibraryInv, LibraryTypes, UserStates, UserPlaces, IsCard, Lists
    <2>3. Remembered' = Remembered /\ Saved = card.tsv.list /\ Saved' = card'.bak.list /\ Saving'
      BY <1>2, <2>1, <2>2 DEF Remembered, Saved, Saving
    <2>4. kept \subseteq Remembered
      BY <1>2, <1>3, <1>4 DEF LibraryInv, MemoryOK, CardOK, Safe, only_copy
    <2> QED
      BY <1>2, <1>3, <1>4, <2>1, <2>2, <2>3, <2>4
         DEF LibraryInv, LibraryTypes, UserOK, RebuildOK, CardOK, MemoryOK, Loaded
  <1>5. CASE ~s.ok
    <2>1. /\ IsCatalog(catalog') /\ catalog'.up /\ catalog'.sources = Remembered
          /\ catalog'.selected = catalog.selected
          /\ ~catalog'.stale => ~catalog.stale /\ user.then # "remove"
          /\ user' = NoUser
      BY <1>1, <1>2, <1>5, SaveFails
    <2>2. user' \in UserStates /\ user'.at = "idle" /\ user'.then = "none"
      BY <2>1 DEF NoUser, UserStates, UserPlaces
    <2>3. Remembered' = Remembered /\ Saved' = Saved /\ ~Saving'
      BY <1>2, <1>3, <1>5, <2>1, <2>2 DEF Remembered, Saved, Saving
    <2> QED
      BY <1>2, <1>3, <1>5, <2>1, <2>2, <2>3
         DEF LibraryInv, LibraryTypes, UserOK, RebuildOK, CardOK, MemoryOK
  <1> QED
    BY <1>4, <1>5

LEMMA Library_save_finishes ==
    ASSUME LibraryInv, save_finishes
    PROVE  LibraryInv'
  <1>1. PICK s \in save_ends(card, user.existed, catalog.sources) :
           \/ /\ s.ok /\ user.then = "remove"
              /\ card' = [s.card EXCEPT !.cached = @ \ {user.source}]
              /\ goes("reload", "none", 0)
              /\ UNCHANGED <<catalog, kept>>
           \/ /\ s.ok /\ user.then # "remove"
              /\ card' = s.card
              /\ IF user.then = "add" THEN goes("reload", "select", user.source)
                 ELSE goes("refresh", "none", 0)
              /\ kept' = kept \cup catalog.sources
              /\ UNCHANGED catalog
           \/ /\ ~s.ok /\ save_failed
              /\ card' = s.card
              /\ UNCHANGED kept
    BY DEF histories, save_finishes
  <1>2. /\ UNCHANGED <<job, rebuild>> /\ user.at = "place" /\ Saving
        /\ rebuild.by = "nobody" /\ ~rebuild.read /\ catalog.up /\ Loaded
        /\ user.then \in {"add", "epg", "remove"} /\ user \in UserStates
        /\ job.at \notin {"build", "commit"} /\ kept \subseteq Sources
    BY DEF histories, save_finishes, LibraryInv, LibraryTypes, UserOK, RebuildOK, Saving, Loaded
  <1>3. /\ kept \subseteq Remembered /\ Remembered \subseteq catalog.sources
        /\ card.txt \subseteq Remembered /\ Saved = card.bak.list
        /\ catalog.sources \in SUBSET Sources
    BY <1>2 DEF LibraryInv, LibraryTypes, IsCatalog, MemoryOK, Remembered, Saved
  <1>4. /\ IsCard(s.card) /\ Safe(s.card, kept) /\ s.card.txt = card.txt /\ s.ok \in BOOLEAN
        /\ s.ok => s.card.tsv = File(catalog.sources)
        /\ ~s.ok /\ ~only_copy(s.card) => s.card.tsv.list = card.bak.list
    <2>1. /\ IsCard(card) /\ Safe(card, kept) /\ ~card.tsv.present /\ user.existed \in BOOLEAN
          /\ user.existed <=> card.bak.present
          /\ kept \subseteq catalog.sources
      BY <1>2, <1>3 DEF LibraryInv, LibraryTypes, CardOK, UserStates
    <2> QED
      BY <1>3, <2>1, SaveEnds
  <1>5. CASE s.ok
    <2>1. /\ UNCHANGED catalog /\ user' \in UserStates
          /\ user'.at \in {"reload", "refresh"} /\ user'.then \in {"none", "select"}
          /\ kept' \subseteq kept \cup catalog.sources
      BY <1>1, <1>2, <1>5 DEF goes, NoUser, UserStates, UserPlaces
    <2>2. /\ IsCard(card') /\ card'.tsv = File(catalog.sources) /\ card'.txt = card.txt
          /\ card'.bak = s.card.bak
      BY <1>1, <1>4, <1>5 DEF IsCard
    <2>3. /\ Remembered' = catalog.sources /\ Saved' = catalog.sources /\ ~Saving'
          /\ card'.tsv.present
      BY <2>1, <2>2 DEF Remembered, Saved, Saving, File
    <2>4. Safe(card', kept') /\ kept' \subseteq catalog.sources
      BY <1>3, <1>4, <2>1, <2>2 DEF Safe, File
    <2>5. UserOK' /\ RebuildOK'
      BY <1>2, <1>3, <2>1, <2>2, <2>3 DEF LibraryInv, UserOK, RebuildOK, Saving
    <2> QED
      BY <1>2, <1>3, <2>1, <2>2, <2>3, <2>4, <2>5
         DEF LibraryInv, LibraryTypes, CardOK, MemoryOK
  <1>6. CASE ~s.ok
    <2>1. /\ IsCatalog(catalog') /\ catalog'.up /\ catalog'.sources = Remembered
          /\ catalog'.selected = catalog.selected
          /\ ~catalog'.stale => ~catalog.stale /\ user.then # "remove"
          /\ user' = NoUser
          /\ card' = s.card /\ UNCHANGED kept
      BY <1>1, <1>2, <1>6, SaveFails
    <2>2. user' \in UserStates /\ user'.at = "idle" /\ user'.then = "none"
      BY <2>1 DEF NoUser, UserStates, UserPlaces
    <2>3. Remembered' = Remembered /\ Saved' = card'.tsv.list /\ ~Saving'
      BY <2>1, <2>2 DEF Remembered, Saved, Saving
    <2>4. MemoryOK'
      BY <1>2, <1>3, <1>4, <1>6, <2>1, <2>2, <2>3 DEF LibraryInv, MemoryOK
    <2> QED
      BY <1>2, <1>4, <1>6, <2>1, <2>2, <2>3, <2>4
         DEF LibraryInv, LibraryTypes, UserOK, RebuildOK, CardOK
  <1> QED
    BY <1>4, <1>5, <1>6

-----------------------------------------------------------------------------
(* The rebuild, by either thread. *)

LEMMA Library_reload_begins ==
    ASSUME LibraryInv, reload_begins
    PROVE  LibraryInv'
  BY DEF histories, reload_begins, rebuild_begins, NoRebuild, LibraryInv, LibraryTypes, UserOK, RebuildOK,
         CardOK, MemoryOK, Saving, Loaded, Remembered, Saved, UserStates, UserPlaces,
         RebuildStates

\* The list was read: what the card says now, and more is kept.
LEMMA ListRead ==
    ASSUME LibraryInv, NEW s \in load_remote_sources(card), s.ok,
           card' = s.card, kept' = kept \cup card.txt, NEW list, NEW needed \in BOOLEAN,
           list = merge_preinstalled_sources(card),
           rebuild' = [rebuild EXCEPT !.read = TRUE, !.list = list,
                         !.channels = list \cap card.cached, !.needed = needed]
    PROVE  /\ IsCard(card') /\ Safe(card', kept') /\ kept' \subseteq Sources
           /\ rebuild' \in RebuildStates /\ rebuild'.read /\ rebuild'.by = rebuild.by
           /\ rebuild'.list = card'.tsv.list /\ card'.txt \subseteq rebuild'.list
  <1>1. /\ IsCard(card') /\ Safe(card', kept') /\ card'.txt = card.txt
        /\ card'.tsv.list = list /\ list \in SUBSET Sources
    BY Loads DEF LibraryInv, LibraryTypes, CardOK
  <1>2. list = card.tsv.list \cup card.txt /\ card.txt \subseteq Sources /\ kept \subseteq Sources
    BY DEF merge_preinstalled_sources, LibraryInv, LibraryTypes, IsCard
  <1>3. /\ rebuild' \in RebuildStates /\ rebuild'.read /\ rebuild'.by = rebuild.by
        /\ rebuild'.list = list
    BY <1>1 DEF LibraryInv, LibraryTypes, RebuildStates
  <1> QED
    BY <1>1, <1>2, <1>3

\* The build failed: the list may have been saved first, but a list that is
\* neither stale nor only in the backup needed no saving.
LEMMA BuildFails ==
    ASSUME LibraryInv, ~Saving, rebuild.by # "nobody", ~rebuild.read, UNCHANGED kept,
           card' \in {s.card : s \in load_remote_sources(card)}
    PROVE  /\ IsCard(card') /\ Safe(card', kept') /\ card'.txt = card.txt
           /\ Loaded /\ card'.tsv.present => kept' \subseteq catalog.sources
           /\ Loaded /\ ~catalog.stale /\ ~only_copy(card') => card'.tsv.list = catalog.sources
  <1>1. PICK s \in load_remote_sources(card) : card' = s.card
    OBVIOUS
  <1>2. /\ IsCard(card') /\ Safe(card', kept') /\ card'.txt = card.txt
        /\ only_copy(card) \/ card.txt \subseteq card.tsv.list => card' = card
    BY <1>1, Loads DEF LibraryInv, LibraryTypes, CardOK
  <1>3. /\ user.at # "place" /\ Remembered = catalog.sources /\ Saved = card.tsv.list
        /\ user.then # "remove"
    BY DEF Saving, Remembered, Saved, LibraryInv, UserOK
  <1>4. Loaded => /\ card.txt \subseteq catalog.sources
                  /\ card.tsv.present => kept \subseteq catalog.sources
                  /\ ~catalog.stale /\ ~only_copy(card) => card.tsv.list = catalog.sources
    BY <1>3 DEF LibraryInv, MemoryOK
  <1>5. ~card.tsv.present /\ ~only_copy(card) => kept = {}
    BY DEF LibraryInv, CardOK, Safe, only_copy
  <1> QED
    BY <1>2, <1>4, <1>5 DEF only_copy

LEMMA Library_reload_builds ==
    ASSUME LibraryInv, reload_builds
    PROVE  LibraryInv'
  <1>1. /\ user.at = "build" /\ rebuild.by = "user" /\ ~rebuild.read /\ ~Saving /\ catalog.up
        /\ UNCHANGED job /\ job.at \notin {"build", "commit"} /\ user \in UserStates
        /\ user.then \notin {"add", "epg", "remove"}
    BY DEF histories, reload_builds, catalog_build, LibraryInv, LibraryTypes, UserOK, RebuildOK, Saving
  <1>2. CASE \E s \in load_remote_sources(card) :
               /\ s.ok /\ card' = s.card /\ kept' = kept \cup card.txt
               /\ LET list == merge_preinstalled_sources(card)
                  IN  rebuild' = [rebuild EXCEPT !.read = TRUE, !.list = list,
                                    !.channels = list \cap card.cached,
                                    !.needed = preinstalled_refresh_needed(card)]
               /\ user' = [user EXCEPT !.at = "commit"] /\ UNCHANGED catalog
    <2>1. /\ IsCard(card') /\ Safe(card', kept') /\ kept' \subseteq Sources
          /\ rebuild' \in RebuildStates /\ rebuild'.read /\ rebuild'.by = "user"
          /\ rebuild'.list = card'.tsv.list /\ card'.txt \subseteq rebuild'.list
      <3>1. PICK needed \in BOOLEAN : preinstalled_refresh_needed(card) = needed
        BY DEF preinstalled_refresh_needed
      <3> QED
        BY <1>1, <1>2, <3>1, ListRead
    <2>2. user' \in UserStates /\ user'.at = "commit" /\ user'.then = user.then /\ UNCHANGED catalog
      BY <1>1, <1>2 DEF UserStates, UserPlaces
    <2> QED
      BY <1>1, <2>1, <2>2
         DEF LibraryInv, LibraryTypes, UserOK, RebuildOK, CardOK, MemoryOK, Saving, Remembered
  <1>3. CASE /\ card' \in {s.card : s \in load_remote_sources(card)}
             /\ rebuild' = NoRebuild /\ UNCHANGED kept
             /\ catalog' = IF user.then = "init" THEN NoCatalog
                           ELSE [catalog EXCEPT !.stale = TRUE]
             /\ goes("idle", "none", 0)
    <2>1. /\ IsCard(card') /\ Safe(card', kept') /\ card'.txt = card.txt
          /\ Loaded /\ card'.tsv.present => kept' \subseteq catalog.sources
      BY <1>1, <1>3, BuildFails
    <2>2. user' \in UserStates /\ user'.at = "idle" /\ user'.then = "none" /\ ~Saving'
      BY <1>3 DEF goes, NoUser, UserStates, UserPlaces, Saving
    <2>3. /\ rebuild' \in RebuildStates /\ rebuild'.by = "nobody" /\ ~rebuild'.read
          /\ Remembered' = catalog'.sources
      BY <1>3, <2>2 DEF NoRebuild, RebuildStates, Remembered
    <2>4. CASE user.then = "init"
      <3>1. catalog' = NoCatalog /\ job.at = "none" /\ IsCatalog(catalog') /\ ~catalog'.up
            /\ catalog'.selected = 0
        BY <1>3, <2>4 DEF LibraryInv, UserOK, NoCatalog, IsCatalog
      <3> QED
        BY <1>1, <1>3, <2>1, <2>2, <2>3, <3>1
           DEF LibraryInv, LibraryTypes, UserOK, RebuildOK, CardOK, MemoryOK, Loaded
    <2>5. CASE user.then # "init"
      <3>1. /\ catalog' = [catalog EXCEPT !.stale = TRUE] /\ IsCatalog(catalog)
            /\ Loaded /\ Remembered = catalog.sources
        BY <1>1, <1>3, <2>5 DEF LibraryInv, LibraryTypes, Loaded, Remembered
      <3>2. /\ IsCatalog(catalog') /\ catalog'.up /\ catalog'.stale
            /\ catalog'.sources = catalog.sources /\ catalog'.selected = catalog.selected
        BY <1>1, <3>1 DEF IsCatalog
      <3> QED
        BY <1>1, <1>3, <2>1, <2>2, <2>3, <3>1, <3>2
           DEF LibraryInv, LibraryTypes, UserOK, RebuildOK, CardOK, MemoryOK
    <2> QED
      BY <2>4, <2>5
  <1> QED
    BY <1>2, <1>3 DEF histories, reload_builds, catalog_build

\* The selection after a commit is a source of the new list.
LEMMA Commits ==
    ASSUME LibraryInv, rebuild.read, catalog' = committed(catalog)
    PROVE  /\ IsCatalog(catalog') /\ catalog'.up = catalog.up /\ ~catalog'.stale
           /\ catalog'.sources = rebuild.list /\ catalog'.selected \in rebuild.list \cup {0}
  <1> DEFINE least == CHOOSE s \in rebuild.list : \A t \in rebuild.list : s <= t
  <1>1. rebuild.list \subseteq Nat /\ rebuild.list \subseteq Sources
    BY IptvAssumption DEF LibraryInv, LibraryTypes, RebuildStates
  <1>2. rebuild.list # {} => least \in rebuild.list
    <2> SUFFICES ASSUME rebuild.list # {} PROVE least \in rebuild.list
      OBVIOUS
    <2>1. PICK s \in rebuild.list : \A t \in rebuild.list : ~(<<t, s>> \in OpToRel(<, Nat))
      BY <1>1, NatLessThanWellFounded, WFMin
    <2>2. \A t \in rebuild.list : ~(t < s)
      BY <1>1, <2>1 DEF OpToRel
    <2>3. \A t \in rebuild.list : s <= t
      BY <1>1, <2>2
    <2> QED
      BY <2>3
  <1> HIDE DEF least
  <1>3. catalog' = [catalog EXCEPT
            !.sources = rebuild.list, !.channels = rebuild.channels,
            !.selected = IF catalog.selected \in rebuild.list THEN catalog.selected
                         ELSE IF rebuild.list = {} THEN 0 ELSE least,
            !.refresh_needed = catalog.refresh_needed \/ rebuild.needed,
            !.recent = card.recent, !.stale = FALSE]
    BY DEF committed, least
  <1> QED
    BY <1>1, <1>2, <1>3 DEF LibraryInv, LibraryTypes, IsCatalog, RebuildStates

LEMMA Library_reload_commits ==
    ASSUME LibraryInv, reload_commits
    PROVE  LibraryInv'
  <1>1. /\ user.at = "commit" /\ rebuild.by = "user" /\ rebuild.read /\ ~Saving /\ catalog.up
        /\ UNCHANGED <<card, job, kept>> /\ job.at \notin {"build", "commit"}
        /\ user \in UserStates /\ user.then \notin {"add", "epg", "remove"}
        /\ rebuild.list = card.tsv.list /\ card.txt \subseteq rebuild.list
    BY DEF histories, reload_commits, commit_catalog, LibraryInv, LibraryTypes, UserOK, RebuildOK, Saving
  <1>2. /\ IsCatalog(catalog') /\ catalog'.up /\ ~catalog'.stale
        /\ catalog'.sources = rebuild.list /\ catalog'.selected \in rebuild.list \cup {0}
    BY <1>1, Commits DEF histories, reload_commits, commit_catalog
  <1>3. /\ rebuild' \in RebuildStates /\ rebuild'.by = "nobody" /\ ~rebuild'.read
    BY DEF histories, reload_commits, commit_catalog, NoRebuild, RebuildStates
  <1>4. /\ user' \in UserStates
        /\ \/ user'.at = "init" /\ user'.then = "init" /\ user.then = "init"
           \/ /\ user'.at \in {"select", "refresh_all", "idle"}
              /\ user'.then \in {"none", "select", "refresh_all"}
    BY <1>1 DEF histories, reload_commits, NoUser, UserStates, UserPlaces
  <1>5. ~Saving' /\ Remembered' = rebuild.list /\ Saved' = card.tsv.list
    BY <1>1, <1>2, <1>4 DEF Saving, Remembered, Saved
  <1> QED
    BY <1>1, <1>2, <1>3, <1>4, <1>5
       DEF LibraryInv, LibraryTypes, UserOK, RebuildOK, CardOK, MemoryOK, Safe

LEMMA Library_worker ==
    ASSUME LibraryInv, job \in JobStates,
           \/ worker_takes \/ worker_snapshots \/ worker_finishes \/ worker_job_finished
           \/ worker_exits
    PROVE  LibraryInv'
  <1>1. /\ UNCHANGED <<card, catalog, user, rebuild, kept>> /\ job.at # "none"
        /\ job.at \notin {"build", "commit"}
    BY DEF histories, worker_takes, worker_snapshots, worker_finishes, worker_job_finished, worker_exits, works
  <1> DEFINE rest == {"none", "wait", "snapshot", "fetch", "finished"}
  <1>2. worker_takes \/ worker_job_finished \/ worker_exits => job'.at \in rest
    BY DEF histories, worker_takes, worker_job_finished, worker_exits, works, NoJob
  <1>3. worker_snapshots => job'.at \in rest
    <2>1. ASSUME NEW at \in rest, NEW left, job' = [job EXCEPT !.at = at, !.left = left]
          PROVE  job'.at \in rest
      BY <2>1 DEF JobStates
    <2> QED
      BY <2>1 DEF histories, worker_snapshots, works
  <1>4. worker_finishes => job'.at \in rest
    BY DEF histories, worker_finishes, works, JobStates
  <1> QED
    BY <1>1, <1>2, <1>3, <1>4, LibraryFrame

LEMMA Library_worker_fetches ==
    ASSUME LibraryInv, job \in JobStates, worker_fetches
    PROVE  LibraryInv'
  <1>1. /\ UNCHANGED <<catalog, user, rebuild, kept>> /\ job.at = "fetch"
        /\ job'.at \in {"fetch", "finished", "rebuild"}
    BY DEF histories, worker_fetches, works, JobStates
  <1>2. /\ IsCard(card') /\ card'.tsv = card.tsv /\ card'.bak = card.bak
        /\ card'.txt = card.txt
    <2>1. ASSUME NEW s \in job.left, card' \in fetch_to_file(card, s)
          PROVE  /\ IsCard(card') /\ card'.tsv = card.tsv /\ card'.bak = card.bak
                 /\ card'.txt = card.txt
      <3>1. s \in Sources
        BY DEF JobStates
      <3> QED
        BY <2>1, <3>1 DEF fetch_to_file, LibraryInv, LibraryTypes, IsCard
    <2> QED
      BY <2>1 DEF histories, worker_fetches, LibraryInv, LibraryTypes
  <1> QED
    BY <1>1, <1>2
       DEF LibraryInv, LibraryTypes, UserOK, RebuildOK, CardOK, MemoryOK, Saving, Loaded,
           Remembered, Saved, Safe, only_copy

LEMMA Library_worker_rebuilds ==
    ASSUME LibraryInv, job \in JobStates, worker_rebuilds, ~raced'
    PROVE  LibraryInv'
  BY DEF histories, worker_rebuilds, rebuild_begins, races, works, NoRebuild, LibraryInv, LibraryTypes, UserOK,
         RebuildOK, CardOK, MemoryOK, Saving, Loaded, Remembered, Saved, RebuildStates, JobStates

LEMMA Library_worker_builds ==
    ASSUME LibraryInv, job \in JobStates, worker_builds
    PROVE  LibraryInv'
  <1>1. /\ job.at = "build" /\ rebuild.by = "worker" /\ ~rebuild.read /\ ~Saving
        /\ UNCHANGED <<catalog, user>> /\ user.at \notin {"build", "commit"}
        /\ catalog.up /\ Loaded
    BY DEF histories, worker_builds, catalog_build, works, LibraryInv, LibraryTypes, UserOK, RebuildOK, Saving,
           Loaded
  <1>2. CASE \E s \in load_remote_sources(card) :
               /\ s.ok /\ card' = s.card /\ kept' = kept \cup card.txt
               /\ LET list == merge_preinstalled_sources(card)
                  IN  rebuild' = [rebuild EXCEPT !.read = TRUE, !.list = list,
                                    !.channels = list \cap card.cached,
                                    !.needed = preinstalled_refresh_needed(card)]
               /\ works([job EXCEPT !.at = "commit"])
    <2>1. /\ IsCard(card') /\ Safe(card', kept') /\ kept' \subseteq Sources
          /\ rebuild' \in RebuildStates /\ rebuild'.read /\ rebuild'.by = "worker"
          /\ rebuild'.list = card'.tsv.list /\ card'.txt \subseteq rebuild'.list
      <3>1. PICK needed \in BOOLEAN : preinstalled_refresh_needed(card) = needed
        BY DEF preinstalled_refresh_needed
      <3> QED
        BY <1>1, <1>2, <3>1, ListRead
    <2>2. job'.at = "commit"
      BY <1>2 DEF works, JobStates
    <2> QED
      BY <1>1, <2>1, <2>2
         DEF LibraryInv, LibraryTypes, UserOK, RebuildOK, CardOK, MemoryOK, Saving, Remembered
  <1>3. CASE /\ card' \in {s.card : s \in load_remote_sources(card)}
             /\ rebuild' = NoRebuild /\ UNCHANGED kept
             /\ works([job EXCEPT !.at = "finish"])
    <2>1. /\ IsCard(card') /\ Safe(card', kept') /\ card'.txt = card.txt
          /\ card'.tsv.present => kept' \subseteq catalog.sources
          /\ ~catalog.stale /\ ~only_copy(card') => card'.tsv.list = catalog.sources
      BY <1>1, <1>3, BuildFails
    <2>2. /\ rebuild' \in RebuildStates /\ rebuild'.by = "nobody" /\ ~rebuild'.read
          /\ job'.at = "finish"
      BY <1>3 DEF NoRebuild, RebuildStates, works, JobStates
    <2>3. /\ Remembered = catalog.sources /\ Remembered' = catalog.sources
          /\ Saved' = card'.tsv.list /\ ~Saving' /\ user.at # "place"
      BY <1>1 DEF Remembered, Saved, Saving
    <2> QED
      BY <1>1, <1>3, <2>1, <2>2, <2>3
         DEF LibraryInv, LibraryTypes, UserOK, RebuildOK, CardOK, MemoryOK
  <1> QED
    BY <1>2, <1>3 DEF histories, worker_builds, catalog_build

LEMMA Library_worker_commits ==
    ASSUME LibraryInv, job \in JobStates, worker_commits
    PROVE  LibraryInv'
  <1>1. /\ job.at = "commit" /\ rebuild.by = "worker" /\ rebuild.read /\ ~Saving /\ catalog.up
        /\ UNCHANGED <<card, user, kept>> /\ user.at \notin {"build", "commit"}
        /\ user.then # "init" /\ rebuild.list = card.tsv.list /\ card.txt \subseteq rebuild.list
    BY DEF histories, worker_commits, commit_catalog, works, LibraryInv, UserOK, RebuildOK, Saving
  <1>2. /\ IsCatalog(catalog') /\ catalog'.up /\ ~catalog'.stale
        /\ catalog'.sources = rebuild.list /\ catalog'.selected \in rebuild.list \cup {0}
    BY <1>1, Commits DEF histories, worker_commits, commit_catalog
  <1>3. /\ rebuild' \in RebuildStates /\ rebuild'.by = "nobody" /\ ~rebuild'.read
        /\ job'.at = "finish"
    BY DEF histories, worker_commits, commit_catalog, works, NoRebuild, RebuildStates, JobStates
  <1>4. ~Saving' /\ Remembered' = rebuild.list /\ Saved' = card.tsv.list /\ user.at # "place"
    BY <1>1, <1>2 DEF Saving, Remembered, Saved
  <1> QED
    BY <1>1, <1>2, <1>3, <1>4
       DEF LibraryInv, LibraryTypes, UserOK, RebuildOK, CardOK, MemoryOK, Safe

\* A loss of power leaves the card as it is, or as the first steps of a save
\* by the rebuild left it, or with sources.txt moved away.
LEMMA Library_power_lost ==
    ASSUME LibraryInv, power_lost
    PROVE  LibraryInv'
  <1>1. IsCard(card') /\ Safe(card', kept)
    <2>1. \/ card' = card \/ card' = [card EXCEPT !.txt = {}]
          \/ \E s \in save_starts(card) : card' = s.card
      BY DEF histories, power_lost, preinstalled_kept
    <2>2. IsCard(card) /\ Safe(card, kept)
      BY DEF LibraryInv, LibraryTypes, CardOK
    <2>3. CASE card' = [card EXCEPT !.txt = {}]
      BY <2>2, <2>3 DEF IsCard, Safe
    <2> QED
      BY <2>1, <2>2, <2>3, SaveStarts
  <1> QED
    BY <1>1
       DEF histories, power_lost, LibraryInv, LibraryTypes, UserOK, RebuildOK, CardOK, MemoryOK, Saving,
           Loaded, Remembered, IsCatalog, UserStates, UserPlaces, RebuildStates, NoCatalog, NoUser, NoJob,
           NoRebuild

LEMMA Library_others ==
    ASSUME LibraryInv, tv_lease_lost \/ suspend \/ quiesced \/ resume \/ UNCHANGED IptvVars
    PROVE  LibraryInv'
  BY LibraryFrame DEF tv_lease_lost, suspend, quiesced, resume, IptvVars, histories

LEMMA LibraryNext ==
    ASSUME LibraryInv, WorkerInv, [IptvNext]_IptvVars, ~raced'
    PROVE  LibraryInv'
  <1>1. LibraryInv /\ job \in JobStates
    BY DEF WorkerInv, WorkerTypes
  <1> QED
    BY <1>1, Library_init, Library_init_done, Library_deinit, Library_deinit_done, Library_asks,
       Library_add, Library_epg, Library_remove, Library_save_begins, Library_save_finishes,
       Library_reloads, Library_reload_begins, Library_reload_builds, Library_reload_commits,
       Library_select, Library_refresh, Library_refresh_all, Library_play, Library_worker,
       Library_worker_fetches, Library_worker_rebuilds, Library_worker_builds,
       Library_worker_commits, Library_power_lost, Library_others
       DEF IptvNext

-----------------------------------------------------------------------------
(* The worker and what is asked of it. *)

LEMMA WorkerNext ==
    ASSUME LibraryInv, WorkerInv, [IptvNext]_IptvVars
    PROVE  WorkerInv'
  <1> USE DEF WorkerInv, WorkerTypes, StopOK, RefreshOK, RefreshStates, JobStates, JobPlaces
  <1>0. /\ WorkerInv /\ catalog.up \in BOOLEAN /\ catalog.selected \in Sources \cup {0}
        /\ ~catalog.up => user.at = "idle" /\ job.at = "none"
        /\ catalog.refresh_needed \in BOOLEAN
        /\ user.at = "init" => job.at = "none"
        /\ catalog.sources \subseteq Sources
        /\ user.at # "idle" => catalog.up
    BY DEF LibraryInv, LibraryTypes, IsCatalog, UserOK
  <1>1. CASE iptv_init
    BY <1>0, <1>1 DEF histories, iptv_init, goes, NoUser, NoRequest
  <1>2. CASE iptv_init_done
    <2>1. job.at = "none" /\ ~refresh.stop /\ UNCHANGED <<suspender, hasty>>
      BY <1>0, <1>2 DEF histories, iptv_init_done
    <2>2. CASE UNCHANGED <<refresh, catalog, job>>
      BY <1>0, <2>1, <2>2
    <2>3. CASE /\ refresh' = [refresh EXCEPT !.started = TRUE,
                    !.refreshing = @ \/ catalog.refresh_needed,
                    !.all = @ \/ catalog.refresh_needed]
               /\ job' = [NoJob EXCEPT !.at = "wait"]
      <3>1. job' \in JobStates /\ job'.at = "wait"
        BY <2>3 DEF NoJob
      <3>2. CASE refresh' = [refresh EXCEPT !.started = TRUE, !.refreshing = TRUE, !.all = TRUE]
        BY <1>0, <2>1, <3>1, <3>2
      <3>3. CASE refresh' = [refresh EXCEPT !.started = TRUE]
        BY <1>0, <2>1, <3>1, <3>3
      <3>4. catalog.refresh_needed \/ refresh' = [refresh EXCEPT !.started = TRUE]
        BY <1>0, <2>3
      <3>5. catalog.refresh_needed
            => refresh' = [refresh EXCEPT !.started = TRUE, !.refreshing = TRUE, !.all = TRUE]
        BY <1>0, <2>3
      <3> QED
        BY <3>2, <3>3, <3>4, <3>5
    <2> QED
      BY <1>2, <2>2, <2>3 DEF histories, iptv_init_done
  <1>3. CASE iptv_deinit
    BY <1>0, <1>3 DEF histories, iptv_deinit, act, goes, NoUser
  <1>4. CASE iptv_deinit_done
    BY <1>0, <1>4 DEF histories, iptv_deinit_done, NoCatalog
  <1>5. CASE \/ user_asks \/ add_source \/ set_source_epg \/ remove_selected_source
             \/ save_begins \/ save_finishes \/ user_reloads \/ reload_begins \/ reload_builds
             \/ reload_commits \/ select_added \/ play_channel \/ tv_lease_lost
    <2>1. UNCHANGED <<refresh, job, suspender, hasty>> /\ (user.at = "join" => tv_lease_lost)
      BY <1>5 DEF histories, user_asks, act, add_source, set_source_epg, remove_selected_source, save_begins,
                  save_finishes, user_reloads, reload_begins, rebuild_begins, races,
                  reload_builds, catalog_build, reload_commits, select_added, play_channel,
                  tv_lease_lost
    <2>2. tv_lease_lost => UNCHANGED <<catalog, user>>
      BY DEF histories, tv_lease_lost
    <2>3. ~catalog.up => ~catalog'.up
      BY <1>0, <1>5
         DEF histories, user_asks, act, add_source, set_source_epg, remove_selected_source, save_begins,
                  save_finishes, user_reloads, reload_begins, reload_builds,
                  reload_commits, select_added, play_channel, tv_lease_lost
    <2> QED
      BY <1>0, <2>1, <2>2, <2>3
  <1>6. CASE refresh_selected_source
    <2>1. /\ UNCHANGED <<catalog, job, suspender, hasty>> /\ user.at # "join"
      BY <1>6 DEF histories, refresh_selected_source, act
    <2>2. CASE refresh' = refresh
      BY <1>0, <2>1, <2>2
    <2>3. CASE /\ catalog.selected # 0
               /\ refresh' = [refresh EXCEPT !.refreshing = TRUE, !.source = catalog.selected]
      BY <1>0, <2>1, <2>3
    <2> QED
      BY <1>6, <2>2, <2>3 DEF histories, refresh_selected_source
  <1>7. CASE refresh_all
    <2>1. /\ UNCHANGED <<job, suspender, hasty>> /\ user.at = "refresh_all"
      BY <1>7 DEF histories, refresh_all
    <2>2. CASE refresh' = refresh
      BY <1>0, <2>1, <2>2
    <2>3. CASE refresh' = [refresh EXCEPT !.refreshing = TRUE, !.all = TRUE]
      BY <1>0, <2>1, <2>3
    <2> QED
      BY <1>7, <2>2, <2>3 DEF histories, refresh_all
  <1>8. CASE worker_takes
    BY <1>0, <1>8 DEF histories, worker_takes, works
  <1>9. CASE worker_snapshots
    BY <1>0, <1>9 DEF histories, worker_snapshots, works
  <1>10. CASE worker_fetches
    <2>1. UNCHANGED <<catalog, refresh, user, suspender, hasty>> /\ job.at = "fetch"
      BY <1>10 DEF histories, worker_fetches, works
    <2>2. CASE \E s \in job.left : job' = [job EXCEPT !.left = @ \ {s}]
      BY <1>0, <2>1, <2>2
    <2>3. CASE interrupted /\ job' = [job EXCEPT !.at = "finished", !.cancelled = TRUE]
      BY <1>0, <2>1, <2>3 DEF interrupted
    <2>4. CASE ~interrupted /\ job' = [job EXCEPT !.at = "rebuild", !.cancelled = FALSE]
      BY <1>0, <2>1, <2>4
    <2>5. job' = [job EXCEPT !.at = IF interrupted THEN "finished" ELSE "rebuild",
                             !.cancelled = interrupted]
          => \/ interrupted /\ job' = [job EXCEPT !.at = "finished", !.cancelled = TRUE]
             \/ ~interrupted /\ job' = [job EXCEPT !.at = "rebuild", !.cancelled = FALSE]
      BY DEF interrupted
    <2> QED
      BY <1>10, <2>2, <2>3, <2>4, <2>5 DEF histories, worker_fetches, works
  <1>11. CASE worker_rebuilds
    BY <1>0, <1>11 DEF worker_rebuilds, rebuild_begins, races, works
  <1>12. CASE worker_builds
    BY <1>0, <1>12 DEF histories, worker_builds, catalog_build, works
  <1>13. CASE worker_commits
    BY <1>0, <1>13 DEF histories, worker_commits, commit_catalog, committed, works
  <1>14. CASE worker_finishes
    BY <1>0, <1>14 DEF histories, worker_finishes, works
  <1>15. CASE worker_job_finished
    <2>1. /\ UNCHANGED <<catalog, user, suspender, hasty>> /\ job.at = "finished"
          /\ job' \in JobStates /\ job'.at = "wait"
      BY <1>15 DEF histories, worker_job_finished, works, NoJob
    <2>2. CASE refresh.suspended /\ ~refresh.stop
      <3>1. refresh' \in RefreshStates /\ ~refresh'.refreshing /\ ~refresh'.busy
            /\ refresh'.stop = refresh.stop /\ refresh'.started = refresh.started
            /\ refresh'.suspended = refresh.suspended
        BY <1>0, <1>15, <2>2 DEF histories, worker_job_finished
      <3> QED
        BY <1>0, <2>1, <2>2, <3>1
    <2>3. CASE ~(refresh.suspended /\ ~refresh.stop)
      <3>1. refresh' = [refresh EXCEPT !.busy = FALSE]
        BY <1>15, <2>3 DEF histories, worker_job_finished
      <3> QED
        BY <1>0, <2>1, <2>3, <3>1
    <2> QED
      BY <2>2, <2>3
  <1>16. CASE worker_exits
    BY <1>0, <1>16 DEF histories, worker_exits, works, NoJob
  <1>17. CASE suspend \/ quiesced \/ resume
    <2>1. CASE suspend
      BY <1>0, <2>1 DEF histories, suspend
    <2>2. CASE quiesced
      BY <1>0, <2>2 DEF histories, quiesced
    <2>3. CASE resume
      BY <1>0, <2>3 DEF histories, resume
    <2> QED
      BY <1>17, <2>1, <2>2, <2>3
  <1>18. CASE power_lost
    BY <1>0, <1>18 DEF histories, power_lost, NoRequest, NoJob, NoCatalog
  <1>19. CASE UNCHANGED IptvVars
    BY <1>0, <1>19 DEF IptvVars, histories
  <1> QED
    BY <1>1, <1>2, <1>3, <1>4, <1>5, <1>6, <1>7, <1>8, <1>9, <1>10, <1>11, <1>12, <1>13, <1>14,
       <1>15, <1>16, <1>17, <1>18, <1>19 DEF IptvNext

\* Once a save and a rebuild have overlapped, that stays on record.
LEMMA RacedStays ==
    ASSUME raced, [IptvNext]_IptvVars
    PROVE  raced'
  <1>1. CASE \/ iptv_init \/ iptv_init_done \/ iptv_deinit \/ iptv_deinit_done \/ user_asks
             \/ save_begins \/ save_finishes \/ user_reloads \/ reload_builds \/ reload_commits
             \/ select_added \/ refresh_selected_source \/ refresh_all \/ play_channel
             \/ tv_lease_lost
    BY <1>1 DEF histories, iptv_init, iptv_init_done, iptv_deinit, iptv_deinit_done, user_asks,
                save_begins, save_finishes, user_reloads, reload_builds, catalog_build,
                reload_commits, select_added, refresh_selected_source, refresh_all, play_channel,
                tv_lease_lost
  <1>2. CASE \/ add_source \/ set_source_epg \/ remove_selected_source \/ reload_begins
             \/ worker_rebuilds
    BY <1>2 DEF histories, add_source, set_source_epg, remove_selected_source, reload_begins,
                worker_rebuilds, rebuild_begins, races
  <1>3. CASE \/ worker_takes \/ worker_snapshots \/ worker_fetches \/ worker_builds
             \/ worker_commits \/ worker_finishes \/ worker_job_finished \/ worker_exits
             \/ suspend \/ quiesced \/ resume \/ power_lost
    BY <1>3 DEF histories, worker_takes, worker_snapshots, worker_fetches, worker_builds,
                catalog_build, worker_commits, worker_finishes, worker_job_finished, worker_exits,
                suspend, quiesced, resume, power_lost
  <1>4. CASE UNCHANGED IptvVars
    BY <1>4 DEF IptvVars, histories
  <1> QED
    BY <1>1, <1>2, <1>3, <1>4 DEF IptvNext

LEMMA InitWorker ==
    ASSUME IptvInit
    PROVE  WorkerInv
  BY DEF IptvInit, WorkerInv, WorkerTypes, StopOK, RefreshOK, RefreshStates, JobStates, JobPlaces,
         NoRequest, NoJob, NoCatalog

\* As long as no save of the user's ran beside a rebuild, the sources the user
\* saved and did not remove are on the card at any time, between any two renames
\* and after any loss of power, and the list in memory is the saved one once
\* nobody is busy; and a refresh shown as running will be done, unless it was
\* broken off by a suspension that was lifted before the worker had left it.
THEOREM SourcesSafe == IptvSpec => []SourcesKept
  <1>1. IptvInit => IptvInv
    BY Init_Library, InitWorker DEF IptvInv
  <1>2. IptvInv /\ [IptvNext]_IptvVars => IptvInv'
    BY LibraryNext, WorkerNext, RacedStays DEF IptvInv
  <1>3. IptvInv => SourcesKept
    <2> SUFFICES ASSUME IptvInv, ~raced PROVE SourcesKept
      BY DEF SourcesKept
    <2>1. kept \subseteq card.tsv.list \cup card.bak.list
      BY DEF IptvInv, LibraryInv, CardOK, Safe
    <2>2. ASSUME IptvQuiet, card.tsv.present, ~catalog.stale
          PROVE  catalog.sources = card.tsv.list
      BY <2>2 DEF IptvQuiet, IptvInv, LibraryInv, UserOK, RebuildOK, MemoryOK, Loaded, Saving,
                  Remembered, Saved, only_copy
    <2>3. ASSUME IptvQuiet, ~hasty, refresh.refreshing
          PROVE  refresh.all \/ refresh.source # 0
      BY <2>3 DEF IptvQuiet, IptvInv, WorkerInv, StopOK, RefreshOK
    <2> QED
      BY <2>1, <2>2, <2>3 DEF SourcesKept
  <1> QED
    BY <1>1, <1>2, <1>3, PTL DEF IptvSpec

-----------------------------------------------------------------------------
(* Libmpv: what the two queues between backend and mpv hold. *)

Ops == {"load", "stop", "pause", "seek", "audio-add", "audio-remove", "aid"}
Files == [media : {"url", "mirror"}, paused : BOOLEAN]
Args == Files \cup BOOLEAN \cup Nat
Fits(op, arg) ==
    /\ op = "load" => arg \in Files
    /\ op = "pause" => arg \in BOOLEAN
    /\ op \notin {"load", "pause"} => arg \in Nat
Requests == {e \in [op : Ops, arg : Args] : Fits(e.op, e.arg)}

\* The events that say what became of a file.
Alive == {"START_FILE", "FILE_LOADED", "PLAYBACK_RESTART"}
Life == Alive \cup {"END_FILE"}
EventIds == Life \cup {"SEEK", "REPLY_FAILED", "ADDED", "ADD_FAILED", "SELECTED", "SELECT_FAILED"}
Events == [id : EventIds, arg : {"load", "seek", "stop", "eof", "error"} \cup Nat]

\* Commands.
Has(q, op) == \E i \in DOMAIN q : q[i].op = op
LastPause(q, v) ==
    \E i \in DOMAIN q : /\ q[i].op = "pause" /\ q[i].arg = v
                        /\ \A j \in DOMAIN q : j > i => q[j].op # "pause"
\* A load that no stop follows.
LoadsLast(q) ==
    \E i \in DOMAIN q : q[i].op = "load" /\ \A j \in DOMAIN q : j > i => q[j].op # "stop"
LoadsWith(q, v) == \E i \in DOMAIN q : q[i].op = "load" /\ q[i].arg.paused = v
Removes(q, t) == \E i \in DOMAIN q : q[i].op = "audio-remove" /\ q[i].arg = t
\* Only the track of the previous file is removed ahead of a load.
LoadFirst(q) ==
    \A i \in DOMAIN q : q[i].op = "load" =>
        q[i].arg \in Files /\ \A j \in DOMAIN q : j < i => q[j].op = "audio-remove"
PausesTyped(q) == \A i \in DOMAIN q : q[i].op = "pause" => q[i].arg \in BOOLEAN

\* Events.
Tells(q, id) == \E i \in DOMAIN q : q[i].id = id
Refuses(q) == \E i \in DOMAIN q : q[i].id = "REPLY_FAILED" /\ q[i].arg = "load"
\* A refused load that was followed by the start of another file.
RefusedStarts(q) ==
    \A i \in DOMAIN q : q[i].id = "REPLY_FAILED" /\ q[i].arg = "load" =>
        \E k \in DOMAIN q : i < k /\ q[k].id = "START_FILE"
Adds(q, t) == \E i \in DOMAIN q : q[i].id = "ADDED" /\ q[i].arg = t
LastLife(q, S) ==
    \E i \in DOMAIN q : q[i].id \in S /\ \A j \in DOMAIN q : j > i => q[j].id \notin Life
NoLife(q) == \A i \in DOMAIN q : q[i].id \notin Life
NoneAlive(q) == \A i \in DOMAIN q : q[i].id \notin Alive
StartFirst(q) ==
    \A i, j \in DOMAIN q : q[i].id = "START_FILE" /\ q[j].id \in Alive => i <= j
EndStarts(q) ==
    \A i \in DOMAIN q : q[i].id = "END_FILE" =>
        \E k \in DOMAIN q : i < k /\ q[k].id = "START_FILE"
RestartStarts(q) ==
    \A i, j \in DOMAIN q : i < j /\ q[i].id = "END_FILE" /\ q[j].id = "PLAYBACK_RESTART" =>
        \E k \in DOMAIN q : i < k /\ k < j /\ q[k].id = "START_FILE"
RestartLater(q) ==
    \A j \in DOMAIN q : q[j].id = "PLAYBACK_RESTART" =>
        \E k \in DOMAIN q : k < j /\ q[k].id = "START_FILE"

\* A queue that grew.
Grown(q, r, e) ==
    /\ DOMAIN r = DOMAIN q \cup {Len(q) + 1} /\ DOMAIN q = 1 .. Len(q) /\ Len(q) \in Nat
    /\ \A i \in DOMAIN q : r[i] = q[i]
    /\ r[Len(q) + 1] = e
\* Append makes a queue grow.
LEMMA AppendGrows ==
    ASSUME NEW S, NEW q \in Seq(S), NEW e \in S
    PROVE  Append(q, e) \in Seq(S) /\ Grown(q, Append(q, e), e)
  BY DEF Grown

\* A queue whose first element was taken.
Shrunk(q, r) ==
    /\ DOMAIN r = 1 .. Len(q) - 1 /\ DOMAIN q = 1 .. Len(q) /\ Len(q) \in Nat \ {0}
    /\ \A i \in DOMAIN r : r[i] = q[i + 1] /\ i + 1 \in DOMAIN q
    /\ \A i \in DOMAIN q : i # 1 => i - 1 \in DOMAIN r /\ r[i - 1] = q[i]
    /\ q[1] = Head(q) /\ 1 \in DOMAIN q
\* Tail takes the first element.
LEMMA TailShrinks ==
    ASSUME NEW S, NEW q \in Seq(S), q # <<>>
    PROVE  Tail(q) \in Seq(S) /\ Head(q) \in S /\ Shrunk(q, Tail(q))
  BY DEF Shrunk

-----------------------------------------------------------------------------
(* Libmpv: the commands. *)

\* A command that neither loads, stops nor pauses.
SameCommands(q, r) ==
    /\ Has(r, "load") <=> Has(q, "load")
    /\ Has(r, "stop") <=> Has(q, "stop")
    /\ Has(r, "pause") <=> Has(q, "pause")
    /\ \A v : LastPause(r, v) <=> LastPause(q, v)
    /\ \A v : LoadsWith(r, v) <=> LoadsWith(q, v)
    /\ LoadsLast(r) <=> LoadsLast(q)
    /\ LoadFirst(q) => LoadFirst(r)
    /\ PausesTyped(q) => PausesTyped(r)
Plain == {"seek", "audio-add", "audio-remove", "aid"}

\* Sending such a command keeps what is known of the others.
LEMMA PlainSent ==
    ASSUME NEW q, NEW r, NEW e, Grown(q, r, e), e.op \in Plain
    PROVE  SameCommands(q, r)
  <1>1. Has(r, "load") <=> Has(q, "load")
    BY DEF Grown, Has, Plain
  <1>2. Has(r, "stop") <=> Has(q, "stop")
    BY DEF Grown, Has, Plain
  <1>3. Has(r, "pause") <=> Has(q, "pause")
    BY DEF Grown, Has, Plain
  <1>4. ASSUME NEW v PROVE LastPause(r, v) <=> LastPause(q, v)
    <2>1. ASSUME LastPause(q, v) PROVE LastPause(r, v)
      BY <2>1 DEF Grown, LastPause, Plain
    <2>2. ASSUME LastPause(r, v) PROVE LastPause(q, v)
      BY <2>2 DEF Grown, LastPause, Plain
    <2> QED
      BY <2>1, <2>2
  <1>5. ASSUME NEW v PROVE LoadsWith(r, v) <=> LoadsWith(q, v)
    BY DEF Grown, LoadsWith, Plain
  <1>6. LoadFirst(q) => LoadFirst(r)
    BY DEF Grown, LoadFirst, Plain
  <1>7. PausesTyped(q) => PausesTyped(r)
    BY DEF Grown, PausesTyped, Plain
  <1>8. LoadsLast(r) <=> LoadsLast(q)
    <2>1. ASSUME LoadsLast(q) PROVE LoadsLast(r)
      BY <2>1 DEF Grown, LoadsLast, Plain
    <2>2. ASSUME LoadsLast(r) PROVE LoadsLast(q)
      BY <2>2 DEF Grown, LoadsLast, Plain
    <2> QED
      BY <2>1, <2>2
  <1> QED
    BY <1>1, <1>2, <1>3, <1>4, <1>5, <1>6, <1>7, <1>8 DEF SameCommands

\* So does taking one.
LEMMA PlainTaken ==
    ASSUME NEW q, NEW r, Shrunk(q, r), Head(q).op \in Plain
    PROVE  SameCommands(q, r)
  <1>1. ASSUME NEW op, op \notin Plain PROVE Has(r, op) <=> Has(q, op)
    <2>1. ASSUME NEW i \in DOMAIN q, q[i].op = op PROVE Has(r, op)
      BY <1>1, <2>1 DEF Shrunk, Has
    <2>2. ASSUME NEW i \in DOMAIN r, r[i].op = op PROVE Has(q, op)
      BY <1>1, <2>2 DEF Shrunk, Has
    <2> QED
      BY <2>1, <2>2 DEF Has
  <1>2. {"load", "stop", "pause"} \cap Plain = {}
    BY DEF Plain
  <1>4. ASSUME NEW v PROVE LastPause(r, v) <=> LastPause(q, v)
    <2>1. ASSUME NEW i \in DOMAIN q, q[i].op = "pause", q[i].arg = v, \A j \in DOMAIN q : j > i => q[j].op # "pause"
          PROVE  LastPause(r, v)
      <3>1. i # 1 /\ i - 1 \in DOMAIN r /\ r[i - 1] = q[i]
        BY <1>2, <2>1 DEF Shrunk
      <3>2. \A j \in DOMAIN r : j > i - 1 => r[j].op # "pause"
        BY <2>1 DEF Shrunk
      <3> QED
        BY <2>1, <3>1, <3>2 DEF LastPause
    <2>2. ASSUME NEW i \in DOMAIN r, r[i].op = "pause", r[i].arg = v, \A j \in DOMAIN r : j > i => r[j].op # "pause"
          PROVE  LastPause(q, v)
      <3>1. i + 1 \in DOMAIN q /\ r[i] = q[i + 1]
        BY DEF Shrunk
      <3>2. \A j \in DOMAIN q : j > i + 1 => q[j].op # "pause"
        BY <2>2 DEF Shrunk
      <3> QED
        BY <2>2, <3>1, <3>2 DEF LastPause
    <2> QED
      BY <2>1, <2>2 DEF LastPause
  <1>5. ASSUME NEW v PROVE LoadsWith(r, v) <=> LoadsWith(q, v)
    <2>1. ASSUME NEW i \in DOMAIN q, q[i].op = "load" PROVE i # 1 /\ i - 1 \in DOMAIN r /\ r[i - 1] = q[i]
      BY <1>2, <2>1 DEF Shrunk
    <2>2. ASSUME NEW i \in DOMAIN r PROVE i + 1 \in DOMAIN q /\ r[i] = q[i + 1]
      BY DEF Shrunk
    <2> QED
      BY <2>1, <2>2 DEF LoadsWith
  <1>6. ASSUME LoadFirst(q) PROVE LoadFirst(r)
    <2> SUFFICES ASSUME NEW i \in DOMAIN r, r[i].op = "load"
                 PROVE  r[i].arg \in Files /\ \A j \in DOMAIN r : j < i => r[j].op = "audio-remove"
      BY DEF LoadFirst
    <2>1. i + 1 \in DOMAIN q /\ r[i] = q[i + 1] /\ i \in Int
      BY DEF Shrunk
    <2>2. r[i].arg \in Files /\ \A j \in DOMAIN q : j < i + 1 => q[j].op = "audio-remove"
      BY <1>6, <2>1 DEF LoadFirst
    <2>3. ASSUME NEW j \in DOMAIN r, j < i PROVE r[j].op = "audio-remove"
      BY <2>1, <2>2, <2>3 DEF Shrunk
    <2> QED
      BY <2>2, <2>3
  <1>7. PausesTyped(q) => PausesTyped(r)
    BY DEF Shrunk, PausesTyped
  <1>8. LoadsLast(r) <=> LoadsLast(q)
    <2>1. ASSUME NEW i \in DOMAIN q, q[i].op = "load", \A j \in DOMAIN q : j > i => q[j].op # "stop"
          PROVE  LoadsLast(r)
      <3>1. i # 1 /\ i - 1 \in DOMAIN r /\ r[i - 1] = q[i]
        BY <1>2, <2>1 DEF Shrunk
      <3>2. \A j \in DOMAIN r : j > i - 1 => r[j].op # "stop"
        BY <2>1 DEF Shrunk
      <3> QED
        BY <2>1, <3>1, <3>2 DEF LoadsLast
    <2>2. ASSUME NEW i \in DOMAIN r, r[i].op = "load", \A j \in DOMAIN r : j > i => r[j].op # "stop"
          PROVE  LoadsLast(q)
      <3>1. i + 1 \in DOMAIN q /\ r[i] = q[i + 1]
        BY DEF Shrunk
      <3>2. \A j \in DOMAIN q : j > i + 1 => q[j].op # "stop"
        BY <2>2 DEF Shrunk
      <3> QED
        BY <2>2, <3>1, <3>2 DEF LoadsLast
    <2> QED
      BY <2>1, <2>2 DEF LoadsLast
  <1> QED
    BY <1>1, <1>2, <1>4, <1>5, <1>6, <1>7, <1>8 DEF SameCommands

\* Only a stop that is sent covers the loads before it.
LEMMA LoadsLastSent ==
    ASSUME NEW q, NEW r, NEW e, Grown(q, r, e)
    PROVE  /\ e.op = "load" => LoadsLast(r)
           /\ LoadsLast(q) /\ e.op # "stop" => LoadsLast(r)
  <1>1. e.op = "load" => LoadsLast(r)
    BY DEF Grown, LoadsLast
  <1>2. LoadsLast(q) /\ e.op # "stop" => LoadsLast(r)
    BY DEF Grown, LoadsLast
  <1> QED
    BY <1>1, <1>2
\* A load that no stop follows stays, or is the one taken.
LEMMA LoadsLastTaken ==
    ASSUME NEW q, NEW r, Shrunk(q, r), LoadsLast(q)
    PROVE  LoadsLast(r) \/ (Head(q).op = "load" /\ ~Has(r, "stop"))
  <1>1. PICK i \in DOMAIN q : q[i].op = "load" /\ \A j \in DOMAIN q : j > i => q[j].op # "stop"
    BY DEF LoadsLast
  <1>2. CASE i = 1
    BY <1>1, <1>2 DEF Shrunk, Has
  <1>3. CASE i # 1
    <2>1. i - 1 \in DOMAIN r /\ r[i - 1] = q[i]
      BY <1>3 DEF Shrunk
    <2>2. \A j \in DOMAIN r : j > i - 1 => r[j].op # "stop"
      BY <1>1 DEF Shrunk
    <2> QED
      BY <1>1, <2>1, <2>2 DEF LoadsLast
  <1> QED
    BY <1>2, <1>3

\* A pause that is sent is the last one in the queue.
LEMMA PauseSent ==
    ASSUME NEW q, NEW r, NEW e, Grown(q, r, e), e.op = "pause"
    PROVE  /\ Has(r, "load") <=> Has(q, "load")
           /\ Has(r, "stop") <=> Has(q, "stop")
           /\ LastPause(r, e.arg)
           /\ LoadFirst(q) => LoadFirst(r)
           /\ PausesTyped(q) /\ e.arg \in BOOLEAN => PausesTyped(r)
  <1>1. (Has(r, "load") <=> Has(q, "load")) /\ (Has(r, "stop") <=> Has(q, "stop"))
    BY DEF Grown, Has
  <1>2. LastPause(r, e.arg)
    BY DEF Grown, LastPause
  <1>3. LoadFirst(q) => LoadFirst(r)
    BY DEF Grown, LoadFirst
  <1>4. PausesTyped(q) /\ e.arg \in BOOLEAN => PausesTyped(r)
    BY DEF Grown, PausesTyped
  <1> QED
    BY <1>1, <1>2, <1>3, <1>4

\* A stop that is sent is in the queue.
LEMMA StopSent ==
    ASSUME NEW q, NEW r, NEW e, Grown(q, r, e), e.op = "stop"
    PROVE  /\ Has(r, "load") <=> Has(q, "load")
           /\ Has(r, "stop")
           /\ LoadFirst(q) => LoadFirst(r)
           /\ PausesTyped(q) => PausesTyped(r)
  <1>1. (Has(r, "load") <=> Has(q, "load")) /\ Has(r, "stop")
    BY DEF Grown, Has
  <1>2. LoadFirst(q) => LoadFirst(r)
    BY DEF Grown, LoadFirst
  <1>3. PausesTyped(q) => PausesTyped(r)
    BY DEF Grown, PausesTyped
  <1> QED
    BY <1>1, <1>2, <1>3

\* A load is sent when mpv has settled, at most after the removal of a track.
OnlyRemoves(q) == \A i \in DOMAIN q : q[i].op = "audio-remove"
\* A load sent behind removals is the only load, and no pause comes before it.
LEMMA LoadSent ==
    ASSUME NEW q, NEW r, NEW e, Grown(q, r, e), e.op = "load", e.arg \in Files, OnlyRemoves(q)
    PROVE  /\ Has(r, "load") /\ ~Has(r, "stop") /\ ~Has(r, "pause")
           /\ LoadsWith(r, e.arg.paused) /\ LoadFirst(r) /\ PausesTyped(r)
  <1>1. Has(r, "load") /\ ~Has(r, "stop") /\ ~Has(r, "pause")
    BY DEF Grown, Has, OnlyRemoves
  <1>2. LoadsWith(r, e.arg.paused)
    BY DEF Grown, LoadsWith
  <1>3. LoadFirst(r)
    BY DEF Grown, LoadFirst, OnlyRemoves
  <1>4. PausesTyped(r)
    BY DEF Grown, PausesTyped, OnlyRemoves
  <1> QED
    BY <1>1, <1>2, <1>3, <1>4

\* What stays to be removed.
LEMMA RemovesSent ==
    ASSUME NEW q, NEW r, NEW e, Grown(q, r, e), NEW t
    PROVE  /\ Removes(q, t) => Removes(r, t)
           /\ e.op = "audio-remove" /\ e.arg = t => Removes(r, t)
  BY DEF Grown, Removes
\* A removal is in the queue until it is the command taken.
LEMMA RemovesTaken ==
    ASSUME NEW q, NEW r, Shrunk(q, r), NEW t, Removes(q, t)
    PROVE  Removes(r, t) \/ (Head(q).op = "audio-remove" /\ Head(q).arg = t)
  <1>1. PICK i \in DOMAIN q : q[i].op = "audio-remove" /\ q[i].arg = t
    BY DEF Removes
  <1>2. CASE i = 1
    BY <1>1, <1>2 DEF Shrunk
  <1>3. CASE i # 1
    BY <1>1, <1>3 DEF Shrunk, Removes
  <1> QED
    BY <1>2, <1>3

\* What taking the first command leaves.
LEMMA HasTaken ==
    ASSUME NEW q, NEW r, Shrunk(q, r), NEW op
    PROVE  /\ Has(r, op) => Has(q, op)
           /\ Head(q).op # op => (Has(r, op) <=> Has(q, op))
           /\ PausesTyped(q) => PausesTyped(r)
  <1>1. ASSUME Has(r, op) PROVE Has(q, op)
    BY <1>1 DEF Shrunk, Has
  <1>2. ASSUME Has(q, op), Head(q).op # op PROVE Has(r, op)
    <2>1. PICK i \in DOMAIN q : q[i].op = op
      BY <1>2 DEF Has
    <2> QED
      BY <1>2, <2>1 DEF Shrunk, Has
  <1>3. PausesTyped(q) => PausesTyped(r)
    BY DEF Shrunk, PausesTyped
  <1> QED
    BY <1>1, <1>2, <1>3

\* Unless a removal is taken, no load is left in the queue.
LEMMA OtherTaken ==
    ASSUME NEW q, NEW r, Shrunk(q, r), LoadFirst(q), Head(q).op # "audio-remove"
    PROVE  /\ ~Has(r, "load") /\ LoadFirst(r)
           /\ Head(q).op # "load" => ~Has(q, "load")
           /\ Head(q).op = "load" => Head(q).arg \in Files
           /\ \A v : LoadsWith(q, v) => Head(q).op = "load" /\ Head(q).arg.paused = v
  <1>1. ASSUME NEW i \in DOMAIN q, q[i].op = "load" PROVE i = 1
    BY <1>1 DEF LoadFirst, Shrunk
  <1>2. ~Has(r, "load")
    BY <1>1 DEF Shrunk, Has
  <1>3. LoadFirst(r)
    BY <1>2 DEF Has, LoadFirst
  <1>4. Head(q).op # "load" => ~Has(q, "load")
    BY <1>1 DEF Shrunk, Has
  <1>5. Head(q).op = "load" => Head(q).arg \in Files
    BY DEF Shrunk, LoadFirst
  <1>6. ASSUME NEW v, LoadsWith(q, v) PROVE Head(q).op = "load" /\ Head(q).arg.paused = v
    BY <1>1, <1>6 DEF Shrunk, LoadsWith
  <1> QED
    BY <1>2, <1>3, <1>4, <1>5, <1>6

\* The last pause stays the last, or is the one taken.
LEMMA PauseLeft ==
    ASSUME NEW q, NEW r, Shrunk(q, r), NEW v
    PROVE  /\ LastPause(q, v) => LastPause(r, v) \/ (Head(q).op = "pause" /\ Head(q).arg = v /\ ~Has(r, "pause"))
           /\ Head(q).op # "pause" => (LastPause(r, v) <=> LastPause(q, v))
  <1>1. ASSUME NEW i \in DOMAIN q, q[i].op = "pause", q[i].arg = v, \A j \in DOMAIN q : j > i => q[j].op # "pause"
        PROVE  LastPause(r, v) \/ (Head(q).op = "pause" /\ Head(q).arg = v /\ ~Has(r, "pause"))
    <2>1. CASE i = 1
      BY <1>1, <2>1 DEF Shrunk, Has
    <2>2. CASE i # 1
      <3>1. i - 1 \in DOMAIN r /\ r[i - 1] = q[i]
        BY <2>2 DEF Shrunk
      <3>2. \A j \in DOMAIN r : j > i - 1 => r[j].op # "pause"
        BY <1>1 DEF Shrunk
      <3> QED
        BY <1>1, <3>1, <3>2 DEF LastPause
    <2> QED
      BY <2>1, <2>2
  <1>2. ASSUME NEW i \in DOMAIN r, r[i].op = "pause", r[i].arg = v, \A j \in DOMAIN r : j > i => r[j].op # "pause"
        PROVE  LastPause(q, v)
    <2>1. i + 1 \in DOMAIN q /\ r[i] = q[i + 1]
      BY DEF Shrunk
    <2>2. \A j \in DOMAIN q : j > i + 1 => q[j].op # "pause"
      BY <1>2 DEF Shrunk
    <2> QED
      BY <1>2, <2>1, <2>2 DEF LastPause
  <1> QED
    BY <1>1, <1>2 DEF LastPause

-----------------------------------------------------------------------------
(* Libmpv: the events. *)

\* Events that are told, and what they leave true.
LEMMA EventTold ==
    ASSUME NEW q, NEW r, NEW e, Grown(q, r, e)
    PROVE  /\ \A id : Tells(r, id) <=> Tells(q, id) \/ e.id = id
           /\ Refuses(r) <=> Refuses(q) \/ (e.id = "REPLY_FAILED" /\ e.arg = "load")
           /\ \A t : Adds(q, t) \/ (e.id = "ADDED" /\ e.arg = t) => Adds(r, t)
           /\ \A S : LastLife(q, S) /\ e.id \notin Life => LastLife(r, S)
           /\ \A S : e.id \in S => LastLife(r, S)
           /\ NoLife(q) /\ e.id \notin Life => NoLife(r)
           /\ NoneAlive(q) /\ e.id \notin Alive => NoneAlive(r)
           /\ StartFirst(q) /\ e.id # "START_FILE" => StartFirst(r)
           /\ NoneAlive(q) => StartFirst(r)
           /\ EndStarts(q) /\ e.id # "END_FILE" => EndStarts(r)
           /\ e.id = "START_FILE" => EndStarts(r)
           /\ RestartStarts(q) /\ (e.id = "PLAYBACK_RESTART" => EndStarts(q)) => RestartStarts(r)
           /\ RestartLater(q) /\ (e.id = "PLAYBACK_RESTART" => Tells(q, "START_FILE"))
                 => RestartLater(r)
           /\ RefusedStarts(q) /\ ~(e.id = "REPLY_FAILED" /\ e.arg = "load") => RefusedStarts(r)
           /\ e.id = "START_FILE" => RefusedStarts(r)
  <1> DEFINE n == Len(q) + 1
  <1>1. /\ DOMAIN r = DOMAIN q \cup {n} /\ n \in Int /\ n \notin DOMAIN q
        /\ \A i \in DOMAIN q : i \in Int /\ i < n /\ i # n /\ r[i] = q[i]
        /\ r[n] = e
    BY DEF Grown
  <1> HIDE DEF n
  <1>2. \A id : Tells(r, id) <=> Tells(q, id) \/ e.id = id
    BY <1>1 DEF Tells
  <1>3. Refuses(r) <=> Refuses(q) \/ (e.id = "REPLY_FAILED" /\ e.arg = "load")
    BY <1>1 DEF Refuses
  <1>4. \A t : Adds(q, t) \/ (e.id = "ADDED" /\ e.arg = t) => Adds(r, t)
    BY <1>1 DEF Adds
  <1>5. ASSUME NEW S PROVE LastLife(q, S) /\ e.id \notin Life => LastLife(r, S)
    BY <1>1 DEF LastLife
  <1>6. ASSUME NEW S PROVE e.id \in S => LastLife(r, S)
    BY <1>1 DEF LastLife
  <1>7. NoLife(q) /\ e.id \notin Life => NoLife(r)
    BY <1>1 DEF NoLife
  <1>8. NoneAlive(q) /\ e.id \notin Alive => NoneAlive(r)
    BY <1>1 DEF NoneAlive
  <1>9. StartFirst(q) /\ e.id # "START_FILE" => StartFirst(r)
    BY <1>1 DEF StartFirst
  <1>10. NoneAlive(q) => StartFirst(r)
    BY <1>1 DEF NoneAlive, StartFirst, Alive
  <1>11. EndStarts(q) /\ e.id # "END_FILE" => EndStarts(r)
    BY <1>1 DEF EndStarts
  <1>12. e.id = "START_FILE" => EndStarts(r)
    BY <1>1 DEF EndStarts
  <1>13. ASSUME RestartStarts(q), e.id = "PLAYBACK_RESTART" => EndStarts(q) PROVE RestartStarts(r)
    <2> SUFFICES ASSUME NEW i \in DOMAIN r, NEW j \in DOMAIN r, i < j, r[i].id = "END_FILE",
                        r[j].id = "PLAYBACK_RESTART"
                 PROVE  \E k \in DOMAIN r : i < k /\ k < j /\ r[k].id = "START_FILE"
      BY DEF RestartStarts
    <2>1. i \in DOMAIN q /\ r[i] = q[i]
      BY <1>1
    <2>2. CASE j = n
      <3>1. PICK k \in DOMAIN q : i < k /\ q[k].id = "START_FILE"
        BY <1>1, <1>13, <2>1, <2>2 DEF EndStarts
      <3> QED
        BY <1>1, <2>2, <3>1
    <2>3. CASE j # n
      <3>1. j \in DOMAIN q /\ r[j] = q[j]
        BY <1>1, <2>3
      <3>2. PICK k \in DOMAIN q : i < k /\ k < j /\ q[k].id = "START_FILE"
        BY <1>13, <2>1, <3>1 DEF RestartStarts
      <3> QED
        BY <1>1, <3>2
    <2> QED
      BY <2>2, <2>3
  <1>14. RestartLater(q) /\ (e.id = "PLAYBACK_RESTART" => Tells(q, "START_FILE")) => RestartLater(r)
    BY <1>1 DEF RestartLater, Tells
  <1>15. RefusedStarts(q) /\ ~(e.id = "REPLY_FAILED" /\ e.arg = "load") => RefusedStarts(r)
    BY <1>1 DEF RefusedStarts
  <1>16. e.id = "START_FILE" => RefusedStarts(r)
    BY <1>1 DEF RefusedStarts
  <1> QED
    BY <1>2, <1>3, <1>4, <1>5, <1>6, <1>7, <1>8, <1>9, <1>10, <1>11, <1>12, <1>13, <1>14, <1>15,
       <1>16

\* Events that are heard.
LEMMA EventHeard ==
    ASSUME NEW q, NEW r, Shrunk(q, r)
    PROVE  /\ \A id : Tells(r, id) => Tells(q, id)
           /\ \A id : Tells(q, id) /\ Head(q).id # id => Tells(r, id)
           /\ \A id : Head(q).id = id => Tells(q, id)
           /\ Refuses(r) => Refuses(q)
           /\ Refuses(q) => Refuses(r) \/ (Head(q).id = "REPLY_FAILED" /\ Head(q).arg = "load")
           /\ Head(q).id = "REPLY_FAILED" /\ Head(q).arg = "load" => Refuses(q)
           /\ \A t : Adds(q, t) => Adds(r, t) \/ (Head(q).id = "ADDED" /\ Head(q).arg = t)
           /\ \A S : LastLife(q, S) => LastLife(r, S) \/ (NoLife(r) /\ Head(q).id \in S)
           /\ NoLife(q) => NoLife(r) /\ Head(q).id \notin Life
           /\ NoneAlive(q) => NoneAlive(r) /\ Head(q).id \notin Alive
           /\ StartFirst(q) => StartFirst(r)
           /\ StartFirst(q) /\ Head(q).id \in Alive => ~Tells(r, "START_FILE")
           /\ EndStarts(q) => EndStarts(r)
           /\ EndStarts(q) /\ Head(q).id = "END_FILE" => Tells(r, "START_FILE")
           /\ RestartStarts(q) => RestartStarts(r)
           /\ RestartStarts(q) /\ Head(q).id = "END_FILE" => RestartLater(r)
           /\ RestartLater(q) /\ Head(q).id # "START_FILE" => RestartLater(r)
           /\ RestartLater(q) => Head(q).id # "PLAYBACK_RESTART"
           /\ RefusedStarts(q) => RefusedStarts(r)
           /\ RefusedStarts(q) /\ Head(q).id = "REPLY_FAILED" /\ Head(q).arg = "load"
                 => Tells(r, "START_FILE")
  <1>1. /\ \A i \in DOMAIN r : i \in Int /\ i >= 1 /\ i + 1 \in DOMAIN q /\ r[i] = q[i + 1]
        /\ \A i \in DOMAIN q : i \in Int /\ i >= 1
        /\ \A i \in DOMAIN q : i # 1 => i - 1 \in DOMAIN r /\ r[i - 1] = q[i]
        /\ q[1] = Head(q) /\ 1 \in DOMAIN q
    BY DEF Shrunk
  <1>2. /\ \A id : Tells(r, id) => Tells(q, id)
        /\ \A id : Tells(q, id) /\ Head(q).id # id => Tells(r, id)
        /\ \A id : Head(q).id = id => Tells(q, id)
    BY <1>1 DEF Tells
  <1>3. /\ Refuses(r) => Refuses(q)
        /\ Refuses(q) => Refuses(r) \/ (Head(q).id = "REPLY_FAILED" /\ Head(q).arg = "load")
        /\ Head(q).id = "REPLY_FAILED" /\ Head(q).arg = "load" => Refuses(q)
    BY <1>1 DEF Refuses
  <1>4. \A t : Adds(q, t) => Adds(r, t) \/ (Head(q).id = "ADDED" /\ Head(q).arg = t)
    BY <1>1 DEF Adds
  <1>5. ASSUME NEW S, LastLife(q, S) PROVE LastLife(r, S) \/ (NoLife(r) /\ Head(q).id \in S)
    <2>1. PICK i \in DOMAIN q : q[i].id \in S /\ \A j \in DOMAIN q : j > i => q[j].id \notin Life
      BY <1>5 DEF LastLife
    <2>2. CASE i = 1
      BY <1>1, <2>1, <2>2 DEF NoLife
    <2>3. CASE i # 1
      <3>1. i - 1 \in DOMAIN r /\ r[i - 1].id \in S
        BY <1>1, <2>1, <2>3
      <3>2. \A j \in DOMAIN r : j > i - 1 => r[j].id \notin Life
        BY <1>1, <2>1
      <3> QED
        BY <3>1, <3>2 DEF LastLife
    <2> QED
      BY <2>2, <2>3
  <1>6. NoLife(q) => NoLife(r) /\ Head(q).id \notin Life
    BY <1>1 DEF NoLife
  <1>7. NoneAlive(q) => NoneAlive(r) /\ Head(q).id \notin Alive
    BY <1>1 DEF NoneAlive
  <1>8. StartFirst(q) => StartFirst(r)
    BY <1>1 DEF StartFirst
  <1>9. StartFirst(q) /\ Head(q).id \in Alive => ~Tells(r, "START_FILE")
    BY <1>1 DEF StartFirst, Tells
  <1>10. ASSUME EndStarts(q) PROVE EndStarts(r)
    <2> SUFFICES ASSUME NEW i \in DOMAIN r, r[i].id = "END_FILE"
                 PROVE  \E k \in DOMAIN r : i < k /\ r[k].id = "START_FILE"
      BY DEF EndStarts
    <2>1. PICK k \in DOMAIN q : i + 1 < k /\ q[k].id = "START_FILE"
      BY <1>1, <1>10 DEF EndStarts
    <2>2. k - 1 \in DOMAIN r /\ i < k - 1 /\ r[k - 1].id = "START_FILE"
      BY <1>1, <2>1
    <2> QED
      BY <2>2
  <1>11. EndStarts(q) /\ Head(q).id = "END_FILE" => Tells(r, "START_FILE")
    <2> SUFFICES ASSUME EndStarts(q), Head(q).id = "END_FILE" PROVE Tells(r, "START_FILE")
      OBVIOUS
    <2>1. PICK k \in DOMAIN q : 1 < k /\ q[k].id = "START_FILE"
      BY <1>1 DEF EndStarts
    <2> QED
      BY <1>1, <2>1 DEF Tells
  <1>12. ASSUME RestartStarts(q) PROVE RestartStarts(r)
    <2> SUFFICES ASSUME NEW i \in DOMAIN r, NEW j \in DOMAIN r, i < j, r[i].id = "END_FILE",
                        r[j].id = "PLAYBACK_RESTART"
                 PROVE  \E k \in DOMAIN r : i < k /\ k < j /\ r[k].id = "START_FILE"
      BY DEF RestartStarts
    <2>1. PICK k \in DOMAIN q : i + 1 < k /\ k < j + 1 /\ q[k].id = "START_FILE"
      BY <1>1, <1>12 DEF RestartStarts
    <2>2. k - 1 \in DOMAIN r /\ i < k - 1 /\ k - 1 < j /\ r[k - 1].id = "START_FILE"
      BY <1>1, <2>1
    <2> QED
      BY <2>2
  <1>13. ASSUME RestartStarts(q), Head(q).id = "END_FILE" PROVE RestartLater(r)
    <2> SUFFICES ASSUME NEW j \in DOMAIN r, r[j].id = "PLAYBACK_RESTART"
                 PROVE  \E k \in DOMAIN r : k < j /\ r[k].id = "START_FILE"
      BY DEF RestartLater
    <2>1. PICK k \in DOMAIN q : 1 < k /\ k < j + 1 /\ q[k].id = "START_FILE"
      BY <1>1, <1>13 DEF RestartStarts
    <2>2. k - 1 \in DOMAIN r /\ k - 1 < j /\ r[k - 1].id = "START_FILE"
      BY <1>1, <2>1
    <2> QED
      BY <2>2
  <1>14. ASSUME RestartLater(q), Head(q).id # "START_FILE" PROVE RestartLater(r)
    <2> SUFFICES ASSUME NEW j \in DOMAIN r, r[j].id = "PLAYBACK_RESTART"
                 PROVE  \E k \in DOMAIN r : k < j /\ r[k].id = "START_FILE"
      BY DEF RestartLater
    <2>1. PICK k \in DOMAIN q : k < j + 1 /\ q[k].id = "START_FILE"
      BY <1>1, <1>14 DEF RestartLater
    <2>2. k # 1 /\ k - 1 \in DOMAIN r /\ k - 1 < j /\ r[k - 1].id = "START_FILE"
      BY <1>1, <1>14, <2>1
    <2> QED
      BY <2>2
  <1>15. RestartLater(q) => Head(q).id # "PLAYBACK_RESTART"
    BY <1>1 DEF RestartLater
  <1>16. ASSUME RefusedStarts(q) PROVE RefusedStarts(r)
    <2> SUFFICES ASSUME NEW i \in DOMAIN r, r[i].id = "REPLY_FAILED", r[i].arg = "load"
                 PROVE  \E k \in DOMAIN r : i < k /\ r[k].id = "START_FILE"
      BY DEF RefusedStarts
    <2>1. PICK k \in DOMAIN q : i + 1 < k /\ q[k].id = "START_FILE"
      BY <1>1, <1>16 DEF RefusedStarts
    <2>2. k - 1 \in DOMAIN r /\ i < k - 1 /\ r[k - 1].id = "START_FILE"
      BY <1>1, <2>1
    <2> QED
      BY <2>2
  <1>17. ASSUME RefusedStarts(q), Head(q).id = "REPLY_FAILED", Head(q).arg = "load"
         PROVE  Tells(r, "START_FILE")
    <2>1. PICK k \in DOMAIN q : 1 < k /\ q[k].id = "START_FILE"
      BY <1>1, <1>17 DEF RefusedStarts
    <2> QED
      BY <1>1, <2>1 DEF Tells
  <1> QED
    BY <1>2, <1>3, <1>4, <1>5, <1>6, <1>7, <1>8, <1>9, <1>10, <1>11, <1>12, <1>13, <1>14, <1>15,
       <1>16, <1>17

\* Two queues that say the same of the file.
SameEvents(q, r) ==
    /\ \A id \in {"START_FILE", "FILE_LOADED"} : Tells(r, id) <=> Tells(q, id)
    /\ \A S : LastLife(q, S) /\ S \subseteq Life => LastLife(r, S)
    /\ NoLife(q) => NoLife(r)
    /\ NoneAlive(q) => NoneAlive(r)
    /\ StartFirst(q) => StartFirst(r)
    /\ EndStarts(q) => EndStarts(r)
    /\ RestartStarts(q) => RestartStarts(r)
    /\ RestartLater(q) => RestartLater(r)
\* Telling an event that says nothing of the file.
LEMMA OtherTold ==
    ASSUME NEW q, NEW r, NEW e, Grown(q, r, e), e.id \notin Life
    PROVE  SameEvents(q, r)
  <1>1. e.id \notin Alive /\ e.id # "START_FILE" /\ e.id # "FILE_LOADED" /\ e.id # "END_FILE"
        /\ e.id # "PLAYBACK_RESTART"
    BY DEF Life, Alive
  <1> QED
    BY <1>1, EventTold DEF SameEvents
\* Hearing one.
LEMMA OtherHeard ==
    ASSUME NEW q, NEW r, Shrunk(q, r), Head(q).id \notin Life
    PROVE  SameEvents(q, r)
  <1>1. Head(q).id # "START_FILE" /\ Head(q).id # "FILE_LOADED"
    BY DEF Life, Alive
  <1> QED
    BY <1>1, EventHeard DEF SameEvents

-----------------------------------------------------------------------------
(* Libmpv: the invariant.  b is the backend, m is mpv, w is what was asked,*)
(* o whether the last load was given to an mpv that was not at rest.       *)

Backends ==
    [up : BOOLEAN, stopped : BOOLEAN, file_loaded : BOOLEAN, load_pending : BOOLEAN,
     hold : BOOLEAN, restart_seen : BOOLEAN, seek_inflight : BOOLEAN,
     seek_event_seen : BOOLEAN, play_requested : BOOLEAN, unpause_pending : BOOLEAN,
     deadline : BOOLEAN, pause : BOOLEAN, seeking : BOOLEAN, paused_for_cache : BOOLEAN,
     pending_seek : BOOLEAN, seekable : BOOLEAN, last_error : BOOLEAN,
     stream_bridge : BOOLEAN, audio_bridge : BOOLEAN, audio_pending : BOOLEAN,
     media : Media, state : PlayerStates, serial : Nat]
FileStates == {"idle", "starting", "loaded", "playing"}
Players ==
    [cmds : Seq(Requests), evs : Seq(Events), changed : SUBSET Properties,
     file : FileStates, next : Files \cup {NoFile}, media : Media, pause : BOOLEAN,
     seeking : BOOLEAN, cache : BOOLEAN, seekable : BOOLEAN, adding : SUBSET Nat,
     tracks : SUBSET Nat, refused : BOOLEAN]

\* A file is on its way, or nothing will play whatever mpv does next.
Loading(m) == Has(m.cmds, "load") \/ m.next # NoFile
Dead(m) == Has(m.cmds, "stop") \/ (~Loading(m) /\ (m.file = "idle" \/ m.refused))
\* The next file starts with this pause.
WillPause(m, v) ==
    /\ ~Has(m.cmds, "pause")
    /\ LoadsWith(m.cmds, v) \/ (m.next # NoFile /\ m.next.paused = v)

\* Without a media mpv is untouched.
Unused(b, m) ==
    /\ ~b.up => b.media = "none"
    /\ b.media = "none" => /\ m = FreshMpv
                           /\ ~b.file_loaded /\ ~b.hold /\ ~b.last_error /\ ~b.load_pending
\* The startup gate always has a deadline.
Gate(b) == b.hold => b.deadline /\ ~b.stopped /\ b.media # "none"
\* load_pending covers the time to a START_FILE or a refusal, whosesoever.
PendingOK(b, m) ==
    b.load_pending =>
      \/ Tells(m.evs, "START_FILE") \/ Refuses(m.evs) \/ LoadsLast(m.cmds)
      \/ m.next # NoFile /\ ~Has(m.cmds, "stop")
\* A refusal that is not the last word on the file.
RefusalOK(m) == m.refused \/ RefusedStarts(m.evs)
\* One load at a time, given to a player at rest.
CommandsOK(b, m) ==
    /\ LoadFirst(m.cmds) /\ PausesTyped(m.cmds)
    /\ Has(m.cmds, "load") => m.next = NoFile /\ m.file \in {"idle", "playing"} /\ ~m.seeking
    /\ Has(m.cmds, "stop") => ~b.load_pending
\* Then it covers the time to the START_FILE or the refusal of this file.
LoadOK(b, m) ==
    /\ Loading(m) => ~b.file_loaded /\ ~Refuses(m.evs) /\ NoneAlive(m.evs)
    /\ Refuses(m.evs) => m.refused /\ ~Tells(m.evs, "START_FILE")
    /\ b.load_pending => Loading(m) \/ Tells(m.evs, "START_FILE") \/ Refuses(m.evs)
    /\ (Loading(m) \/ Tells(m.evs, "START_FILE")) /\ ~Dead(m) => b.load_pending
    /\ StartFirst(m.evs)
\* The last event about the file says what mpv has open.
FileOK(b, m) ==
    ~m.refused =>
      /\ m.file = "idle" =>
            \/ LastLife(m.evs, {"END_FILE"})
            \/ NoLife(m.evs) /\ (b.stopped \/ b.media = "none" \/ b.load_pending)
      /\ m.file # "idle" =>
            \/ LastLife(m.evs, Alive)
            \/ Has(m.cmds, "stop")
            \/ NoLife(m.evs) /\ ~b.stopped
\* The end of a file is followed by the start of the one that is open.
EndOK(b, m) ==
    /\ b.last_error => b.stopped /\ ~b.file_loaded /\ RestartLater(m.evs)
    /\ m.file # "idle" => EndStarts(m.evs)
    /\ m.file # "idle" /\ b.last_error => Tells(m.evs, "START_FILE")
    /\ RestartStarts(m.evs)
\* A file that is not loaded will be, or is not coming.
LoadedOK(b, m) ==
    /\ Tells(m.evs, "START_FILE") =>
          m.file \in {"idle", "starting"} \/ Tells(m.evs, "FILE_LOADED")
    /\ ~Dead(m) /\ ~b.file_loaded =>
          Loading(m) \/ m.file = "starting" \/ Tells(m.evs, "FILE_LOADED")
Tale(b, m) == FileOK(b, m) /\ EndOK(b, m) /\ PendingOK(b, m) /\ RefusalOK(m)
Story(b, m) == CommandsOK(b, m) /\ LoadOK(b, m) /\ LoadedOK(b, m)
\* The pause the backend knows of is mpv's, or will be, or is about to be told.
PauseOK(b, m) ==
    \/ Dead(m) \/ "pause" \in m.changed \/ b.pause = m.pause
    \/ LastPause(m.cmds, b.pause) \/ WillPause(m, b.pause)
\* What was asked to play does, or will, or waits for FILE_LOADED.
WantOK(b, m, w) ==
    w = "play" =>
      \/ Dead(m)
      \/ LastPause(m.cmds, FALSE) /\ ~Loading(m)
      \/ ~Has(m.cmds, "pause") /\ ~Loading(m) /\ ~m.pause
      \/ WillPause(m, FALSE)
      \/ /\ b.unpause_pending /\ b.play_requested
         /\ Loading(m) \/ m.file = "starting" \/ Tells(m.evs, "FILE_LOADED")
\* A track belongs to the bridge in use, or its removal is on the way.
TracksOK(b, m) ==
    \A t \in m.tracks : (b.audio_bridge /\ t = b.serial) \/ Removes(m.cmds, t) \/ Adds(m.evs, t)

\* What holds in every state, and what a load given to a player at rest adds.
Sound(b, m) ==
    /\ b \in Backends /\ m \in Players
    /\ Unused(b, m) /\ Gate(b) /\ TracksOK(b, m) /\ Tale(b, m)
Exact(b, m, w) == Story(b, m) /\ PauseOK(b, m) /\ WantOK(b, m, w)
Timely(o) == o = FALSE
Good(b, m, w, o) == Sound(b, m) /\ (Timely(o) => Exact(b, m, w))
Derived(b) == b.state = derive_state(b)
Wants == {"none", "play", "pause", "stop"}
LibmpvInv ==
    /\ Good(g, mpv, wanted, overtaken) /\ Derived(g)
    /\ wanted \in Wants /\ overtaken \in BOOLEAN
    /\ calls \in Nat /\ g.serial <= calls /\ calls <= MaxCalls

-----------------------------------------------------------------------------
(* Libmpv: steps that do not touch the file. *)

Alike(b, c) ==
    /\ c.media = b.media /\ c.file_loaded = b.file_loaded /\ c.load_pending = b.load_pending
    /\ c.stopped = b.stopped
    /\ c.last_error => b.last_error
SamePause(b, c) ==
    /\ c.pause = b.pause /\ c.unpause_pending = b.unpause_pending
    /\ c.play_requested = b.play_requested
SameFile(m, n) ==
    /\ n.file = m.file /\ n.next = m.next /\ n.refused = m.refused /\ n.pause = m.pause
    /\ "pause" \in m.changed => "pause" \in n.changed
    /\ SameCommands(m.cmds, n.cmds)
    /\ SameEvents(m.evs, n.evs)
    /\ Refuses(n.evs) <=> Refuses(m.evs)
    /\ RefusedStarts(m.evs) => RefusedStarts(n.evs)
\* No seek begins ahead of a load.
Steady(m, n) == m.seeking \/ ~n.seeking \/ ~Has(n.cmds, "load")

\* Such steps keep the story of the file.
LEMMA TaleKept ==
    ASSUME NEW b, NEW c, NEW m, NEW n, Alike(b, c), SameFile(m, n), Tale(b, m)
    PROVE  Tale(c, n)
  <1>5. Alive \subseteq Life /\ {"END_FILE"} \subseteq Life
    BY DEF Alive, Life
  <1>6. FileOK(c, n)
    BY <1>5 DEF Tale, FileOK, SameFile, SameEvents, SameCommands, Alike
  <1>7. EndOK(c, n)
    BY DEF Tale, EndOK, SameFile, SameEvents, Alike
  <1>8. PendingOK(c, n)
    BY DEF Tale, PendingOK, SameFile, SameEvents, SameCommands, Alike
  <1>9. RefusalOK(n)
    BY DEF Tale, RefusalOK, SameFile
  <1> QED
    BY <1>6, <1>7, <1>8, <1>9 DEF Tale
\* The same when each load was given to a player at rest.
LEMMA StoryKept ==
    ASSUME NEW b, NEW c, NEW m, NEW n, Alike(b, c), SameFile(m, n), Steady(m, n), Story(b, m)
    PROVE  Story(c, n)
  <1>1. Loading(n) <=> Loading(m)
    BY DEF SameFile, SameCommands, Loading
  <1>2. Dead(n) <=> Dead(m)
    BY <1>1 DEF SameFile, SameCommands, Dead
  <1>3. CommandsOK(c, n)
    BY DEF Story, CommandsOK, SameFile, SameCommands, Alike, Steady
  <1>4. LoadOK(c, n)
    BY <1>1, <1>2 DEF Story, LoadOK, SameFile, SameEvents, Alike
  <1>8. LoadedOK(c, n)
    BY <1>1, <1>2 DEF Story, LoadedOK, SameFile, SameEvents, Alike
  <1> QED
    BY <1>3, <1>4, <1>8 DEF Story
\* They keep the pause and what was asked, too.
LEMMA PauseKept ==
    ASSUME NEW b, NEW c, NEW m, NEW n, NEW w, SamePause(b, c), SameFile(m, n)
    PROVE  /\ PauseOK(b, m) => PauseOK(c, n)
           /\ WantOK(b, m, w) => WantOK(c, n, w)
  <1>1. Loading(n) <=> Loading(m)
    BY DEF SameFile, SameCommands, Loading
  <1>2. Dead(n) <=> Dead(m)
    BY <1>1 DEF SameFile, SameCommands, Dead
  <1>3. \A v : WillPause(n, v) <=> WillPause(m, v)
    BY DEF SameFile, SameCommands, WillPause
  <1>4. PauseOK(b, m) => PauseOK(c, n)
    BY <1>2, <1>3 DEF PauseOK, SamePause, SameFile, SameCommands
  <1>5. WantOK(b, m, w) => WantOK(c, n, w)
    BY <1>1, <1>2, <1>3 DEF WantOK, SamePause, SameFile, SameCommands, SameEvents
  <1> QED
    BY <1>4, <1>5

\* Only the commands, or only the events, are different.
SameButQueues(m, n) ==
    /\ n.changed = m.changed /\ n.file = m.file /\ n.next = m.next /\ n.media = m.media
    /\ n.pause = m.pause /\ n.seeking = m.seeking /\ n.cache = m.cache
    /\ n.seekable = m.seekable /\ n.adding = m.adding /\ n.tracks = m.tracks
    /\ n.refused = m.refused
Tidings == {"load", "seek", "stop", "eof", "error"} \cup Nat
\* What mpv_command_async changes.
LEMMA SentType ==
    ASSUME NEW m \in Players, NEW op \in Ops, NEW arg \in Args, Fits(op, arg)
    PROVE  /\ sent(m, op, arg) \in Players
           /\ SameButQueues(m, sent(m, op, arg)) /\ sent(m, op, arg).evs = m.evs
           /\ Grown(m.cmds, sent(m, op, arg).cmds, [op |-> op, arg |-> arg])
           /\ [op |-> op, arg |-> arg].op = op /\ [op |-> op, arg |-> arg].arg = arg
  <1> DEFINE e == [op |-> op, arg |-> arg]
  <1>1. e \in Requests
    BY DEF Requests
  <1>2. m.cmds \in Seq(Requests)
    BY DEF Players
  <1>3. Append(m.cmds, e) \in Seq(Requests) /\ Grown(m.cmds, Append(m.cmds, e), e)
    BY <1>1, <1>2, AppendGrows
  <1> DEFINE q == Append(m.cmds, e)
  <1>4. sent(m, op, arg) = [m EXCEPT !.cmds = q]
    BY DEF sent
  <1>5. q \in Seq(Requests)
    BY <1>3
  <1> HIDE DEF q
  <1>6. /\ sent(m, op, arg) \in Players
        /\ SameButQueues(m, sent(m, op, arg)) /\ sent(m, op, arg).evs = m.evs
        /\ sent(m, op, arg).cmds = q
    BY <1>4, <1>5 DEF Players, SameButQueues
  <1> QED
    BY <1>3, <1>6 DEF q
\* What an event of mpv changes.
LEMMA ToldType ==
    ASSUME NEW m \in Players, NEW id \in EventIds, NEW arg \in Tidings
    PROVE  /\ told(m, id, arg) \in Players
           /\ SameButQueues(m, told(m, id, arg)) /\ told(m, id, arg).cmds = m.cmds
           /\ Grown(m.evs, told(m, id, arg).evs, [id |-> id, arg |-> arg])
           /\ [id |-> id, arg |-> arg].id = id /\ [id |-> id, arg |-> arg].arg = arg
  <1> DEFINE e == [id |-> id, arg |-> arg]
  <1>1. e \in Events
    BY DEF Events, Tidings
  <1>2. m.evs \in Seq(Events)
    BY DEF Players
  <1>3. Append(m.evs, e) \in Seq(Events) /\ Grown(m.evs, Append(m.evs, e), e)
    BY <1>1, <1>2, AppendGrows
  <1> DEFINE q == Append(m.evs, e)
  <1>4. told(m, id, arg) = [m EXCEPT !.evs = q]
    BY DEF told
  <1>5. q \in Seq(Events)
    BY <1>3
  <1> HIDE DEF q
  <1>6. /\ told(m, id, arg) \in Players
        /\ SameButQueues(m, told(m, id, arg)) /\ told(m, id, arg).cmds = m.cmds
        /\ told(m, id, arg).evs = q
    BY <1>4, <1>5 DEF Players, SameButQueues
  <1> QED
    BY <1>3, <1>6 DEF q
\* What hearing an event changes.
LEMMA HeardType ==
    ASSUME NEW m \in Players, m.evs # <<>>
    PROVE  /\ heard(m) \in Players
           /\ SameButQueues(m, heard(m)) /\ heard(m).cmds = m.cmds
           /\ Shrunk(m.evs, heard(m).evs) /\ Head(m.evs) \in Events
  <1>1. m.evs \in Seq(Events)
    BY DEF Players
  <1> DEFINE q == Tail(m.evs)
  <1>2. q \in Seq(Events) /\ Shrunk(m.evs, q) /\ Head(m.evs) \in Events
    BY <1>1, TailShrinks
  <1>3. heard(m) = [m EXCEPT !.evs = q]
    BY DEF heard
  <1> HIDE DEF q
  <1> QED
    BY <1>2, <1>3 DEF Players, SameButQueues
taken(m) == [m EXCEPT !.cmds = Tail(@)]
\* What taking a command changes.
LEMMA TakenType ==
    ASSUME NEW m \in Players, m.cmds # <<>>
    PROVE  /\ taken(m) \in Players
           /\ SameButQueues(m, taken(m)) /\ taken(m).evs = m.evs
           /\ Shrunk(m.cmds, taken(m).cmds) /\ Head(m.cmds) \in Requests
  <1>1. m.cmds \in Seq(Requests)
    BY DEF Players
  <1> DEFINE q == Tail(m.cmds)
  <1>2. q \in Seq(Requests) /\ Shrunk(m.cmds, q) /\ Head(m.cmds) \in Requests
    BY <1>1, TailShrinks
  <1>3. taken(m) = [m EXCEPT !.cmds = q]
    BY DEF taken
  <1> HIDE DEF q
  <1> QED
    BY <1>2, <1>3 DEF Players, SameButQueues

\* A queue says the same as itself.
LEMMA SameQueues ==
    ASSUME NEW q
    PROVE  SameCommands(q, q) /\ SameEvents(q, q)
  BY DEF SameCommands, SameEvents

\* A command that does not touch the file is sent.
LEMMA PlainCommand ==
    ASSUME NEW m \in Players, NEW op \in Plain, NEW arg \in Nat, NEW b, TracksOK(b, m)
    PROVE  /\ sent(m, op, arg) \in Players
           /\ SameButQueues(m, sent(m, op, arg)) /\ sent(m, op, arg).evs = m.evs
           /\ SameFile(m, sent(m, op, arg))
           /\ TracksOK(b, sent(m, op, arg))
  <1> DEFINE n == sent(m, op, arg)  e == [op |-> op, arg |-> arg]
  <1>1. op \in Ops /\ arg \in Args /\ Fits(op, arg)
    BY DEF Ops, Plain, Args, Fits
  <1>2. /\ n \in Players /\ SameButQueues(m, n) /\ n.evs = m.evs
        /\ Grown(m.cmds, n.cmds, e) /\ e.op = op
    BY <1>1, SentType
  <1> HIDE DEF n, e
  <1>3. SameCommands(m.cmds, n.cmds)
    BY <1>2, PlainSent
  <1>4. SameFile(m, n)
    BY <1>2, <1>3, SameQueues DEF SameFile, SameButQueues
  <1>5. \A t : Removes(m.cmds, t) => Removes(n.cmds, t)
    BY <1>2, RemovesSent
  <1>6. TracksOK(b, n)
    BY <1>2, <1>5 DEF TracksOK, SameButQueues
  <1> QED
    BY <1>2, <1>4, <1>6 DEF n

\* An event that does not tell of the file.
LEMMA PlainEvent ==
    ASSUME NEW m \in Players, NEW id \in EventIds, NEW arg \in Tidings, id \notin Life,
           ~(id = "REPLY_FAILED" /\ arg = "load"), NEW b, TracksOK(b, m)
    PROVE  /\ told(m, id, arg) \in Players
           /\ SameButQueues(m, told(m, id, arg)) /\ told(m, id, arg).cmds = m.cmds
           /\ SameFile(m, told(m, id, arg))
           /\ TracksOK(b, told(m, id, arg))
  <1> DEFINE n == told(m, id, arg)  e == [id |-> id, arg |-> arg]
  <1>2. /\ n \in Players /\ SameButQueues(m, n) /\ n.cmds = m.cmds
        /\ Grown(m.evs, n.evs, e) /\ e.id = id /\ e.arg = arg
    BY ToldType
  <1> HIDE DEF n, e
  <1>3. SameEvents(m.evs, n.evs)
    BY <1>2, OtherTold
  <1>4. /\ Refuses(n.evs) <=> Refuses(m.evs)
        /\ RefusedStarts(m.evs) => RefusedStarts(n.evs)
        /\ \A t : Adds(m.evs, t) => Adds(n.evs, t)
    BY <1>2, EventTold
  <1>5. SameFile(m, n)
    BY <1>2, <1>3, <1>4, SameQueues DEF SameFile, SameButQueues
  <1>6. TracksOK(b, n)
    BY <1>2, <1>4 DEF TracksOK, SameButQueues
  <1> QED
    BY <1>2, <1>5, <1>6 DEF n

\* A property of mpv changes; the observer will hear of it.
LEMMA TookPause ==
    ASSUME NEW m \in Players, NEW v \in BOOLEAN
    PROVE  LET n == took(m, "pause", "pause", v)
           IN  /\ n \in Players /\ n.cmds = m.cmds /\ n.evs = m.evs /\ n.file = m.file
               /\ n.next = m.next /\ n.refused = m.refused /\ n.tracks = m.tracks
               /\ n.seeking = m.seeking /\ n.pause = v
               /\ "pause" \in m.changed => "pause" \in n.changed
               /\ m.pause # v => "pause" \in n.changed
  <1>1. CASE m.pause = v
    BY <1>1 DEF took
  <1>2. CASE m.pause # v
    <2>1. took(m, "pause", "pause", v) = [m EXCEPT !.pause = v, !.changed = @ \cup {"pause"}]
      BY <1>2 DEF took
    <2>2. m.changed \cup {"pause"} \in SUBSET Properties
      BY DEF Players, Properties
    <2> QED
      BY <1>2, <2>1, <2>2 DEF Players
  <1> QED
    BY <1>1, <1>2
SameButNews(m, n) ==
    /\ n.cmds = m.cmds /\ n.evs = m.evs /\ n.file = m.file /\ n.next = m.next
    /\ n.media = m.media /\ n.pause = m.pause /\ n.refused = m.refused
    /\ n.tracks = m.tracks
    /\ "pause" \in m.changed => "pause" \in n.changed
\* The property seeking changes.
LEMMA TookSeeking ==
    ASSUME NEW m \in Players, NEW v \in BOOLEAN
    PROVE  LET n == took(m, "seeking", "seeking", v)
           IN  n \in Players /\ SameButNews(m, n) /\ n.seeking = v
  <1>1. CASE m.seeking = v
    BY <1>1 DEF took, SameButNews
  <1>2. CASE m.seeking # v
    <2>1. took(m, "seeking", "seeking", v) = [m EXCEPT !.seeking = v, !.changed = @ \cup {"seeking"}]
      BY <1>2 DEF took
    <2>2. m.changed \cup {"seeking"} \in SUBSET Properties
      BY DEF Players, Properties
    <2> QED
      BY <1>2, <2>1, <2>2 DEF Players, SameButNews
  <1> QED
    BY <1>1, <1>2
\* The property paused-for-cache changes.
LEMMA TookCache ==
    ASSUME NEW m \in Players, NEW v \in BOOLEAN
    PROVE  LET n == took(m, "paused-for-cache", "cache", v)
           IN  n \in Players /\ SameButNews(m, n) /\ n.seeking = m.seeking
  <1>1. CASE m.cache = v
    BY <1>1 DEF took, SameButNews
  <1>2. CASE m.cache # v
    <2>1. took(m, "paused-for-cache", "cache", v)
          = [m EXCEPT !.cache = v, !.changed = @ \cup {"paused-for-cache"}]
      BY <1>2 DEF took
    <2>2. m.changed \cup {"paused-for-cache"} \in SUBSET Properties
      BY DEF Players, Properties
    <2> QED
      BY <1>2, <2>1, <2>2, ZenonT(60) DEF Players, SameButNews
  <1> QED
    BY <1>1, <1>2
\* The property seekable changes.
LEMMA TookSeekable ==
    ASSUME NEW m \in Players, NEW v \in BOOLEAN
    PROVE  LET n == took(m, "seekable", "seekable", v)
           IN  n \in Players /\ SameButNews(m, n) /\ n.seeking = m.seeking
  <1>1. CASE m.seekable = v
    BY <1>1 DEF took, SameButNews
  <1>2. CASE m.seekable # v
    <2>1. took(m, "seekable", "seekable", v)
          = [m EXCEPT !.seekable = v, !.changed = @ \cup {"seekable"}]
      BY <1>2 DEF took
    <2>2. m.changed \cup {"seekable"} \in SUBSET Properties
      BY DEF Players, Properties
    <2> QED
      BY <1>2, <2>1, <2>2, ZenonT(60) DEF Players, SameButNews
  <1> QED
    BY <1>1, <1>2
\* News of the properties leave the file as it was.
LEMMA NewsOnly ==
    ASSUME NEW m, NEW n, SameButNews(m, n), NEW b
    PROVE  SameFile(m, n) /\ (TracksOK(b, m) => TracksOK(b, n))
  <1>1. SameFile(m, n)
    BY SameQueues DEF SameFile, SameButNews
  <1>2. TracksOK(b, m) => TracksOK(b, n)
    BY DEF TracksOK, SameButNews
  <1> QED
    BY <1>1, <1>2

\* The file that mpv has open is closed.
LEMMA ClosedType ==
    ASSUME NEW m \in Players, NEW reason \in {"stop", "eof", "error"}, m.file # "idle"
    PROVE  LET n == closed(m, reason)
           IN  /\ n \in Players /\ n.cmds = m.cmds /\ n.next = m.next /\ n.pause = m.pause
               /\ n.refused = m.refused /\ ~n.seeking /\ n.file = "idle" /\ n.tracks = {}
               /\ "pause" \in m.changed => "pause" \in n.changed
               /\ \E e : Grown(m.evs, n.evs, e) /\ e.id = "END_FILE" /\ e.arg = reason
  <1> DEFINE a == took(m, "seeking", "seeking", FALSE)
             c == took(a, "paused-for-cache", "cache", FALSE)
             d == [c EXCEPT !.file = "idle", !.media = "none", !.tracks = {}]
  <1>1. a \in Players /\ SameButNews(m, a) /\ a.seeking = FALSE
    BY TookSeeking
  <1> HIDE DEF a
  <1>2. c \in Players /\ SameButNews(a, c) /\ c.seeking = a.seeking
    BY <1>1, TookCache
  <1> HIDE DEF c
  <1>3. /\ d \in Players /\ d.cmds = m.cmds /\ d.evs = m.evs /\ d.next = m.next
        /\ d.pause = m.pause /\ d.refused = m.refused /\ ~d.seeking /\ d.file = "idle"
        /\ d.tracks = {} /\ ("pause" \in m.changed => "pause" \in d.changed)
    <2>1. "idle" \in FileStates /\ "none" \in Media /\ {} \in SUBSET Nat
      BY DEF FileStates, Media
    <2>2. d \in Players
      BY <1>2, <2>1 DEF Players
    <2>3. /\ d.cmds = c.cmds /\ d.evs = c.evs /\ d.next = c.next /\ d.pause = c.pause
          /\ d.refused = c.refused /\ d.seeking = c.seeking /\ d.changed = c.changed
      BY <1>2 DEF Players
    <2>4. d.file = "idle" /\ d.tracks = {}
      BY <1>2 DEF Players
    <2> HIDE DEF d
    <2> QED
      BY <1>1, <1>2, <2>2, <2>3, <2>4 DEF SameButNews
  <1>4. closed(m, reason) = told(d, "END_FILE", reason)
    BY DEF closed, a, c
  <1> HIDE DEF d
  <1>5. "END_FILE" \in EventIds /\ reason \in Tidings
    BY DEF EventIds, Life, Tidings
  <1> DEFINE n == told(d, "END_FILE", reason)  e == [id |-> "END_FILE", arg |-> reason]
  <1>6. /\ n \in Players /\ SameButQueues(d, n) /\ n.cmds = d.cmds
        /\ Grown(d.evs, n.evs, e) /\ e.id = "END_FILE" /\ e.arg = reason
    BY <1>3, <1>5, ToldType
  <1> HIDE DEF n, e
  <1>7. /\ n \in Players /\ n.cmds = m.cmds /\ n.next = m.next /\ n.pause = m.pause
        /\ n.refused = m.refused /\ ~n.seeking /\ n.file = "idle" /\ n.tracks = {}
        /\ ("pause" \in m.changed => "pause" \in n.changed)
        /\ \E x : Grown(m.evs, n.evs, x) /\ x.id = "END_FILE" /\ x.arg = reason
    BY <1>3, <1>6 DEF SameButQueues
  <1> QED
    BY <1>4, <1>7 DEF n

-----------------------------------------------------------------------------
(* Libmpv: what mpv does. *)

\* An mpv that has anything to do has been given a media.
LEMMA Busy ==
    ASSUME NEW b, NEW m, Sound(b, m),
           \/ m.cmds # <<>> \/ m.evs # <<>> \/ m.file # "idle" \/ m.next # NoFile
           \/ m.adding # {}
    PROVE  b.media # "none" /\ \A n : Unused(b, n)
  BY DEF Sound, Unused, FreshMpv
\* The parts of the invariant, and what is left to show of a step.
LEMMA GoodParts ==
    ASSUME NEW b, NEW m, NEW w, NEW o, Good(b, m, w, o)
    PROVE  /\ b \in Backends /\ m \in Players /\ Gate(b) /\ TracksOK(b, m) /\ Unused(b, m)
           /\ FileOK(b, m) /\ EndOK(b, m) /\ PendingOK(b, m) /\ RefusalOK(m) /\ Tale(b, m)
           /\ Sound(b, m)
           /\ Timely(o) => Exact(b, m, w)
           /\ Timely(o) => /\ LoadFirst(m.cmds) /\ PausesTyped(m.cmds)
                          /\ CommandsOK(b, m) /\ LoadOK(b, m) /\ LoadedOK(b, m)
                          /\ PauseOK(b, m) /\ WantOK(b, m, w) /\ Story(b, m)
  BY DEF Good, Sound, Tale, Exact, Story, CommandsOK
\* A step that keeps what is known of the file.
LEMMA GoodKept ==
    ASSUME NEW b, NEW m, NEW w, NEW o, Good(b, m, w, o), NEW c \in Backends, NEW n \in Players,
           Alike(b, c), SamePause(b, c), SameFile(m, n), Timely(o) => Steady(m, n), Gate(c),
           Unused(c, n), TracksOK(c, n)
    PROVE  Good(c, n, w, o)
  <1>1. Sound(c, n)
    BY TaleKept DEF Good, Sound
  <1>2. Timely(o) => Exact(c, n, w)
    BY StoryKept, PauseKept DEF Good, Exact
  <1> QED
    BY <1>1, <1>2 DEF Good
\* A backend is like itself.
LEMMA AlikeSelf == ASSUME NEW b PROVE Alike(b, b) /\ SamePause(b, b)
  BY DEF Alike, SamePause

\* The first command is one that does not touch the file.
LEMMA PlainCommandTaken ==
    ASSUME NEW b, NEW m, NEW w, NEW o, Good(b, m, w, o), m.cmds # <<>>,
           Head(m.cmds).op \in Plain, Head(m.cmds).op # "audio-remove"
    PROVE  /\ taken(m) \in Players /\ SameButQueues(m, taken(m))
           /\ SameFile(m, taken(m)) /\ TracksOK(b, taken(m))
           /\ Timely(o) => ~Has(taken(m).cmds, "load")
  <1> DEFINE n == taken(m)
  <1>1. m \in Players /\ TracksOK(b, m) /\ (Timely(o) => LoadFirst(m.cmds))
    BY GoodParts
  <1>2. n \in Players /\ SameButQueues(m, n) /\ n.evs = m.evs /\ Shrunk(m.cmds, n.cmds)
    BY <1>1, TakenType
  <1> HIDE DEF n
  <1>3. SameCommands(m.cmds, n.cmds)
    BY <1>2, PlainTaken
  <1>4. SameFile(m, n)
    BY <1>2, <1>3, SameQueues DEF SameFile, SameButQueues
  <1>5. \A t : Removes(m.cmds, t) => Removes(n.cmds, t)
    BY <1>2, RemovesTaken
  <1>6. TracksOK(b, n)
    BY <1>1, <1>2, <1>5 DEF TracksOK, SameButQueues
  <1>7. Timely(o) => ~Has(n.cmds, "load")
    BY <1>1, <1>2, OtherTaken
  <1> QED
    BY <1>2, <1>4, <1>6, <1>7 DEF n
\* Two steps that leave the file alone.
LEMMA SameFileTwice ==
    ASSUME NEW m, NEW n, NEW p, SameFile(m, n), SameFile(n, p)
    PROVE  SameFile(m, p)
  BY DEF SameFile, SameCommands, SameEvents

\* The argument of a command fits the command.
LEMMA HeadArg ==
    ASSUME NEW m \in Players, m.cmds # <<>>
    PROVE  /\ Head(m.cmds).op \notin {"load", "pause"} => Head(m.cmds).arg \in Nat
           /\ Head(m.cmds).op = "pause" => Head(m.cmds).arg \in BOOLEAN
           /\ Head(m.cmds).op = "load" => Head(m.cmds).arg \in Files
  BY TakenType DEF Requests, Fits

\* mpv takes a seek.
LEMMA SeekTaken ==
    ASSUME NEW b, NEW m, NEW w, NEW o, Good(b, m, w, o), m.cmds # <<>>, Head(m.cmds).op = "seek", NEW n,
           n = IF taken(m).file = "playing" /\ taken(m).seekable
               THEN told(took(taken(m), "seeking", "seeking", TRUE), "SEEK", 0)
               ELSE told(taken(m), "REPLY_FAILED", "seek")
    PROVE  Good(b, n, w, o)
  <1> DEFINE p == taken(m)  q == took(p, "seeking", "seeking", TRUE)
  <1>1. /\ p \in Players /\ SameButQueues(m, p) /\ SameFile(m, p) /\ TracksOK(b, p)
        /\ (Timely(o) => ~Has(p.cmds, "load"))
    BY PlainCommandTaken DEF Plain
  <1>2. b \in Backends /\ Gate(b) /\ Unused(b, n) /\ m \in Players
    BY GoodParts, Busy
  <1> SUFFICES n \in Players /\ SameFile(m, n) /\ TracksOK(b, n) /\ (Timely(o) => Steady(m, n))
    BY <1>2, AlikeSelf, GoodKept
  <1>3. "SEEK" \in EventIds \ Life /\ "REPLY_FAILED" \in EventIds \ Life /\ 0 \in Tidings /\ "seek" \in Tidings
    BY DEF EventIds, Life, Alive, Tidings
  <1> HIDE DEF p
  <1>4. CASE p.file = "playing" /\ p.seekable
    <2>1. q \in Players /\ SameButNews(p, q)
      BY <1>1, TookSeeking
    <2>2. n = told(q, "SEEK", 0)
      BY <1>4 DEF p
    <2> HIDE DEF q
    <2>3. SameFile(p, q) /\ TracksOK(b, q) /\ (Timely(o) => ~Has(q.cmds, "load"))
      BY <1>1, <2>1, NewsOnly DEF SameButNews
    <2> DEFINE z == told(q, "SEEK", 0)
    <2>4. z \in Players /\ SameFile(q, z) /\ TracksOK(b, z) /\ z.cmds = q.cmds
      BY <1>3, <2>1, <2>3, PlainEvent
    <2> HIDE DEF z
    <2>6. n \in Players /\ SameFile(q, n) /\ TracksOK(b, n) /\ n.cmds = q.cmds
      BY <2>2, <2>4 DEF z
    <2>5. SameFile(m, q)
      BY <1>1, <2>3, SameFileTwice
    <2> QED
      BY <2>3, <2>5, <2>6, SameFileTwice DEF Steady
  <1>5. CASE ~(p.file = "playing" /\ p.seekable)
    <2>2. n = told(p, "REPLY_FAILED", "seek")
      BY <1>5 DEF p
    <2> DEFINE z == told(p, "REPLY_FAILED", "seek")
    <2>4. z \in Players /\ SameFile(p, z) /\ TracksOK(b, z) /\ z.cmds = p.cmds
      BY <1>1, <1>3, PlainEvent
    <2> HIDE DEF z
    <2>5. n \in Players /\ SameFile(p, n) /\ TracksOK(b, n) /\ n.cmds = p.cmds
      BY <2>2, <2>4 DEF z
    <2> QED
      BY <1>1, <2>5, SameFileTwice DEF Steady
  <1> QED
    BY <1>4, <1>5
\* mpv takes an audio-add.
LEMMA AudioAddTaken ==
    ASSUME NEW b, NEW m, NEW w, NEW o, Good(b, m, w, o), m.cmds # <<>>, Head(m.cmds).op = "audio-add",
           NEW n,
           \/ n = [taken(m) EXCEPT !.adding = @ \cup {Head(m.cmds).arg}]
           \/ n = told(taken(m), "ADD_FAILED", Head(m.cmds).arg)
    PROVE  Good(b, n, w, o)
  <1> DEFINE p == taken(m)  t == Head(m.cmds).arg
  <1>1. /\ p \in Players /\ SameButQueues(m, p) /\ SameFile(m, p) /\ TracksOK(b, p)
        /\ (Timely(o) => ~Has(p.cmds, "load"))
    BY PlainCommandTaken DEF Plain
  <1>2. b \in Backends /\ Gate(b) /\ Unused(b, n) /\ m \in Players
    BY GoodParts, Busy
  <1> SUFFICES n \in Players /\ SameFile(m, n) /\ TracksOK(b, n) /\ (Timely(o) => Steady(m, n))
    BY <1>2, AlikeSelf, GoodKept
  <1>3. "ADD_FAILED" \in EventIds \ Life /\ t \in Tidings /\ "ADD_FAILED" # "REPLY_FAILED"
    BY <1>2, HeadArg DEF EventIds, Life, Alive, Tidings
  <1>4. t \in Nat
    BY <1>2, HeadArg
  <1>5. (n = [p EXCEPT !.adding = @ \cup {t}]) \/ n = told(p, "ADD_FAILED", t)
    OBVIOUS
  <1> HIDE DEF p, t
  <1>6. CASE n = [p EXCEPT !.adding = @ \cup {t}]
    <2>0. p.adding \cup {t} \in SUBSET Nat
      BY <1>1, <1>4 DEF Players
    <2>1. n \in Players /\ SameButNews(p, n) /\ n.seeking = p.seeking
      BY <1>1, <1>6, <2>0 DEF Players, SameButNews
    <2> QED
      BY <1>1, <2>1, NewsOnly, SameFileTwice DEF SameButNews, Steady
  <1>7. CASE n = told(p, "ADD_FAILED", t)
    <2>4. n \in Players /\ SameFile(p, n) /\ TracksOK(b, n) /\ n.cmds = p.cmds
      BY <1>1, <1>3, <1>7, PlainEvent
    <2> QED
      BY <1>1, <2>4, SameFileTwice DEF Steady
  <1> QED
    BY <1>5, <1>6, <1>7
\* mpv takes the selection of a track.
LEMMA AidTaken ==
    ASSUME NEW b, NEW m, NEW w, NEW o, Good(b, m, w, o), m.cmds # <<>>, Head(m.cmds).op = "aid",
           NEW n, NEW id \in {"SELECTED", "SELECT_FAILED"},
           n = told(taken(m), id, Head(m.cmds).arg)
    PROVE  Good(b, n, w, o)
  <1> DEFINE p == taken(m)
  <1>1. /\ p \in Players /\ SameButQueues(m, p) /\ SameFile(m, p) /\ TracksOK(b, p)
        /\ (Timely(o) => ~Has(p.cmds, "load"))
    BY PlainCommandTaken DEF Plain
  <1>2. b \in Backends /\ Gate(b) /\ Unused(b, n) /\ m \in Players
    BY GoodParts, Busy
  <1>3. id \in EventIds \ Life /\ Head(m.cmds).arg \in Tidings /\ id # "REPLY_FAILED"
    BY <1>2, HeadArg DEF EventIds, Life, Alive, Tidings
  <1>4. n \in Players /\ SameFile(p, n) /\ TracksOK(b, n) /\ n.cmds = p.cmds
    BY <1>1, <1>3, PlainEvent
  <1>5. SameFile(m, n)
    BY <1>1, <1>4, SameFileTwice
  <1> QED
    BY <1>1, <1>2, <1>4, <1>5, AlikeSelf, GoodKept DEF Steady

\* mpv removes a track.
LEMMA AudioRemoveTaken ==
    ASSUME NEW b, NEW m, NEW w, NEW o, Good(b, m, w, o), m.cmds # <<>>, Head(m.cmds).op = "audio-remove",
           NEW n, n = [taken(m) EXCEPT !.tracks = @ \ {Head(m.cmds).arg}]
    PROVE  Good(b, n, w, o)
  <1> DEFINE p == taken(m)
  <1>1. m \in Players /\ TracksOK(b, m)
    BY GoodParts
  <1>2. p \in Players /\ SameButQueues(m, p) /\ p.evs = m.evs /\ Shrunk(m.cmds, p.cmds)
    BY <1>1, TakenType
  <1>3. n = [p EXCEPT !.tracks = @ \ {Head(m.cmds).arg}]
    OBVIOUS
  <1> HIDE DEF p
  <1>4. SameCommands(m.cmds, p.cmds)
    BY <1>2, PlainTaken DEF Plain
  <1>5. p.tracks \ {Head(m.cmds).arg} \in SUBSET Nat
    BY <1>2 DEF Players
  <1>6. /\ n \in Players /\ n.tracks = m.tracks \ {Head(m.cmds).arg}
        /\ n.cmds = p.cmds /\ n.evs = m.evs /\ n.file = m.file /\ n.next = m.next
        /\ n.refused = m.refused /\ n.pause = m.pause /\ n.changed = m.changed
        /\ n.seeking = m.seeking
    BY <1>2, <1>3, <1>5 DEF Players, SameButQueues
  <1>7. SameFile(m, n)
    BY <1>4, <1>6, SameQueues DEF SameFile
  <1>8. \A t : Removes(m.cmds, t) => Removes(p.cmds, t) \/ Head(m.cmds).arg = t
    BY <1>2, RemovesTaken
  <1>9. TracksOK(b, n)
    BY <1>1, <1>6, <1>8 DEF TracksOK
  <1>10. b \in Backends /\ Gate(b) /\ Unused(b, n)
    BY GoodParts, Busy
  <1> QED
    BY <1>6, <1>7, <1>9, <1>10, AlikeSelf, GoodKept DEF Steady

\* pause: mpv takes the value and tells of it when it is a new one.
LEMMA PauseTaken ==
    ASSUME NEW b, NEW m, NEW w, NEW o, Good(b, m, w, o), m.cmds # <<>>, Head(m.cmds).op = "pause",
           NEW n, n = took(taken(m), "pause", "pause", Head(m.cmds).arg)
    PROVE  Good(b, n, w, o)
  <1> DEFINE p == taken(m)  v == Head(m.cmds).arg
  <1>1. /\ m \in Players /\ b \in Backends /\ Gate(b) /\ TracksOK(b, m)
        /\ FileOK(b, m) /\ EndOK(b, m) /\ PendingOK(b, m) /\ RefusalOK(m)
    BY GoodParts
  <1>2. p \in Players /\ SameButQueues(m, p) /\ p.evs = m.evs /\ Shrunk(m.cmds, p.cmds)
    BY <1>1, TakenType
  <1>3. v \in BOOLEAN
    BY <1>1, HeadArg
  <1>4. n = took(p, "pause", "pause", v)
    OBVIOUS
  <1> HIDE DEF p, v
  <1>5. /\ n \in Players /\ n.cmds = p.cmds /\ n.evs = m.evs /\ n.file = m.file
        /\ n.next = m.next /\ n.refused = m.refused /\ n.tracks = m.tracks
        /\ n.seeking = m.seeking /\ n.pause = v
        /\ ("pause" \in m.changed => "pause" \in n.changed)
        /\ (m.pause # v => "pause" \in n.changed)
    BY <1>2, <1>3, <1>4, TookPause DEF SameButQueues
  <1>20. Has(n.cmds, "stop") <=> Has(m.cmds, "stop")
    BY <1>2, <1>5, HasTaken
  <1>12. FileOK(b, n)
    BY <1>1, <1>5, <1>20 DEF FileOK
  <1>13. EndOK(b, n)
    BY <1>1, <1>5 DEF EndOK
  <1>21. PendingOK(b, n)
    BY <1>1, <1>2, <1>5, <1>20, LoadsLastTaken DEF PendingOK
  <1>22. RefusalOK(n)
    BY <1>1, <1>5 DEF RefusalOK
  <1>17. \A t : Removes(m.cmds, t) => Removes(n.cmds, t)
    BY <1>2, <1>5, RemovesTaken
  <1>18. TracksOK(b, n)
    BY <1>1, <1>5, <1>17 DEF TracksOK
  <1>19. Unused(b, n)
    BY GoodParts, Busy
  <1>30. Sound(b, n)
    BY <1>1, <1>5, <1>12, <1>13, <1>18, <1>19, <1>21, <1>22 DEF Sound, Tale
  <1> SUFFICES ASSUME Timely(o) PROVE Exact(b, n, w)
    BY <1>30 DEF Good
  <1>90. /\ LoadFirst(m.cmds) /\ PausesTyped(m.cmds)
         /\ CommandsOK(b, m) /\ LoadOK(b, m) /\ LoadedOK(b, m)
         /\ PauseOK(b, m) /\ WantOK(b, m, w)
    BY GoodParts
  <1>6. /\ ~Has(m.cmds, "load") /\ ~Has(n.cmds, "load") /\ LoadFirst(n.cmds)
        /\ PausesTyped(n.cmds) /\ (Has(n.cmds, "stop") <=> Has(m.cmds, "stop"))
        /\ \A x : ~LoadsWith(m.cmds, x)
    BY <1>1, <1>90, <1>2, <1>5, HasTaken, OtherTaken
  <1>7. \A x : LastPause(m.cmds, x) => LastPause(n.cmds, x) \/ (v = x /\ ~Has(n.cmds, "pause"))
    BY <1>2, <1>5, PauseLeft DEF v
  <1>8. Has(m.cmds, "pause")
    BY <1>2 DEF Has, Shrunk
  <1>9. (Loading(n) <=> Loading(m)) /\ (Dead(n) <=> Dead(m))
    BY <1>5, <1>6 DEF Loading, Dead
  <1>10. CommandsOK(b, n)
    BY <1>1, <1>90, <1>6 DEF CommandsOK
  <1>11. LoadOK(b, n)
    BY <1>1, <1>90, <1>5, <1>9 DEF LoadOK
  <1>14. LoadedOK(b, n)
    BY <1>1, <1>90, <1>5, <1>9 DEF LoadedOK
  <1>15. PauseOK(b, n)
    BY <1>1, <1>90, <1>5, <1>7, <1>8, <1>9 DEF PauseOK, WillPause
  <1>16. WantOK(b, n, w)
    BY <1>1, <1>90, <1>5, <1>7, <1>8, <1>9 DEF WantOK, WillPause
  <1> QED
    BY <1>10, <1>11, <1>14, <1>15, <1>16 DEF Exact, Story

\* loadfile, accepted: the file is the next one.
LEMMA LoadTaken ==
    ASSUME NEW b, NEW m, NEW w, NEW o, Good(b, m, w, o), m.cmds # <<>>, Head(m.cmds).op = "load",
           NEW n, n = [taken(m) EXCEPT !.next = Head(m.cmds).arg]
    PROVE  Good(b, n, w, o)
  <1> DEFINE p == taken(m)  file == Head(m.cmds).arg
  <1>1. /\ m \in Players /\ b \in Backends /\ Gate(b) /\ TracksOK(b, m)
        /\ FileOK(b, m) /\ EndOK(b, m) /\ PendingOK(b, m) /\ RefusalOK(m)
    BY GoodParts
  <1>2. p \in Players /\ SameButQueues(m, p) /\ p.evs = m.evs /\ Shrunk(m.cmds, p.cmds)
    BY <1>1, TakenType
  <1>3. file \in Files
    BY <1>1, HeadArg
  <1>4. n = [p EXCEPT !.next = file]
    OBVIOUS
  <1>5. Has(m.cmds, "load")
    BY <1>2 DEF Has, Shrunk
  <1>6. /\ (Has(p.cmds, "stop") <=> Has(m.cmds, "stop"))
        /\ (Has(p.cmds, "pause") <=> Has(m.cmds, "pause"))
        /\ \A x : LastPause(p.cmds, x) <=> LastPause(m.cmds, x)
    BY <1>2, HasTaken, PauseLeft
  <1> HIDE DEF p, file
  <1>7. /\ n \in Players /\ n.cmds = p.cmds /\ n.evs = m.evs /\ n.file = m.file
        /\ n.next = file /\ n.refused = m.refused /\ n.tracks = m.tracks
        /\ n.seeking = m.seeking /\ n.pause = m.pause /\ n.changed = m.changed
    BY <1>2, <1>3, <1>4 DEF Players, SameButQueues
  <1>8. file # NoFile
    BY <1>3 DEF Files, NoFile
  <1>13. FileOK(b, n)
    BY <1>1, <1>6, <1>7 DEF FileOK
  <1>14. EndOK(b, n)
    BY <1>1, <1>7 DEF EndOK
  <1>31. PendingOK(b, n)
    BY <1>1, <1>2, <1>6, <1>7, <1>8, LoadsLastTaken DEF PendingOK
  <1>32. RefusalOK(n)
    BY <1>1, <1>7 DEF RefusalOK
  <1>19. \A t : Removes(m.cmds, t) => Removes(n.cmds, t)
    BY <1>2, <1>7, RemovesTaken
  <1>20. TracksOK(b, n)
    BY <1>1, <1>7, <1>19 DEF TracksOK
  <1>21. Unused(b, n)
    BY GoodParts, Busy
  <1>30. Sound(b, n)
    BY <1>1, <1>7, <1>13, <1>14, <1>20, <1>21, <1>31, <1>32 DEF Sound, Tale
  <1> SUFFICES ASSUME Timely(o) PROVE Exact(b, n, w)
    BY <1>30 DEF Good
  <1>90. /\ LoadFirst(m.cmds) /\ PausesTyped(m.cmds)
         /\ CommandsOK(b, m) /\ LoadOK(b, m) /\ LoadedOK(b, m)
         /\ PauseOK(b, m) /\ WantOK(b, m, w)
    BY GoodParts
  <1>33. /\ ~Has(p.cmds, "load") /\ LoadFirst(p.cmds) /\ PausesTyped(p.cmds)
         /\ \A x : LoadsWith(m.cmds, x) => file.paused = x
    BY <1>2, <1>90, OtherTaken, HasTaken DEF file
  <1>9. m.next = NoFile
    BY <1>5, <1>90 DEF CommandsOK
  <1>10. Loading(n) /\ Loading(m) /\ (Dead(n) <=> Dead(m))
    BY <1>5, <1>6, <1>7, <1>8 DEF Loading, Dead
  <1>11. CommandsOK(b, n)
    BY <1>6, <1>7, <1>33, <1>90 DEF CommandsOK
  <1>12. LoadOK(b, n)
    BY <1>1, <1>90, <1>7, <1>10 DEF LoadOK
  <1>15. LoadedOK(b, n)
    BY <1>1, <1>90, <1>7, <1>10 DEF LoadedOK
  <1>16. \A x : WillPause(m, x) => WillPause(n, x)
    BY <1>6, <1>7, <1>8, <1>9, <1>33 DEF WillPause
  <1>17. PauseOK(b, n)
    BY <1>1, <1>90, <1>6, <1>7, <1>10, <1>16 DEF PauseOK
  <1>18. WantOK(b, n, w)
    BY <1>1, <1>90, <1>6, <1>7, <1>10, <1>16 DEF WantOK
  <1> QED
    BY <1>11, <1>12, <1>15, <1>17, <1>18 DEF Exact, Story

\* loadfile, refused: nothing will play, and the reply says so.
LEMMA LoadRefused ==
    ASSUME NEW b, NEW m, NEW w, NEW o, Good(b, m, w, o), m.cmds # <<>>, Head(m.cmds).op = "load",
           NEW n, n = told([taken(m) EXCEPT !.refused = TRUE], "REPLY_FAILED", "load")
    PROVE  Good(b, n, w, o)
  <1> DEFINE p == taken(m)  r == [p EXCEPT !.refused = TRUE]
             e == [id |-> "REPLY_FAILED", arg |-> "load"]
  <1>1. /\ m \in Players /\ b \in Backends /\ Gate(b) /\ TracksOK(b, m)
        /\ FileOK(b, m) /\ EndOK(b, m) /\ PendingOK(b, m) /\ RefusalOK(m)
    BY GoodParts
  <1>2. p \in Players /\ SameButQueues(m, p) /\ p.evs = m.evs /\ Shrunk(m.cmds, p.cmds)
    BY <1>1, TakenType
  <1>4. Has(m.cmds, "load")
    BY <1>2 DEF Has, Shrunk
  <1>5. Has(p.cmds, "stop") <=> Has(m.cmds, "stop")
    BY <1>2, HasTaken
  <1>6. /\ r \in Players /\ r.cmds = p.cmds /\ r.evs = m.evs /\ r.file = m.file
        /\ r.next = m.next /\ r.refused /\ r.tracks = m.tracks
    BY <1>2 DEF Players, SameButQueues
  <1>7. n = told(r, "REPLY_FAILED", "load")
    OBVIOUS
  <1> HIDE DEF p, r
  <1>8. "REPLY_FAILED" \in EventIds \ Life /\ "load" \in Tidings
    BY DEF EventIds, Life, Alive, Tidings
  <1>9. /\ n \in Players /\ SameButQueues(r, n) /\ n.cmds = r.cmds
        /\ Grown(r.evs, n.evs, e) /\ e.id = "REPLY_FAILED" /\ e.arg = "load"
    BY <1>6, <1>7, <1>8, ToldType
  <1> HIDE DEF e
  <1>10. /\ n.cmds = p.cmds /\ n.file = m.file /\ n.next = m.next /\ n.refused
         /\ n.tracks = m.tracks /\ Grown(m.evs, n.evs, e)
    BY <1>6, <1>9 DEF SameButQueues
  <1>11. SameEvents(m.evs, n.evs)
    BY <1>8, <1>9, <1>10, OtherTold
  <1>12. Refuses(n.evs) /\ \A t : Adds(m.evs, t) => Adds(n.evs, t)
    BY <1>9, <1>10, EventTold
  <1>18. FileOK(b, n)
    BY <1>10 DEF FileOK
  <1>19. EndOK(b, n)
    BY <1>1, <1>10, <1>11 DEF EndOK, SameEvents
  <1>31. PendingOK(b, n)
    BY <1>1, <1>12 DEF PendingOK
  <1>32. RefusalOK(n)
    BY <1>10 DEF RefusalOK
  <1>22. \A t : Removes(m.cmds, t) => Removes(n.cmds, t)
    BY <1>2, <1>10, RemovesTaken
  <1>23. TracksOK(b, n)
    BY <1>1, <1>10, <1>12, <1>22 DEF TracksOK
  <1>24. Unused(b, n)
    BY GoodParts, Busy
  <1>30. Sound(b, n)
    BY <1>1, <1>9, <1>18, <1>19, <1>23, <1>24, <1>31, <1>32 DEF Sound, Tale
  <1> SUFFICES ASSUME Timely(o) PROVE Exact(b, n, w)
    BY <1>30 DEF Good
  <1>90. /\ LoadFirst(m.cmds) /\ PausesTyped(m.cmds)
         /\ CommandsOK(b, m) /\ LoadOK(b, m) /\ LoadedOK(b, m)
         /\ PauseOK(b, m) /\ WantOK(b, m, w)
    BY GoodParts
  <1>3. ~Has(p.cmds, "load") /\ LoadFirst(p.cmds) /\ PausesTyped(p.cmds)
    BY <1>2, <1>90, OtherTaken, HasTaken
  <1>13. NoneAlive(m.evs) => ~Tells(m.evs, "START_FILE")
    BY DEF NoneAlive, Tells, Alive
  <1>14. m.next = NoFile
    BY <1>4, <1>90 DEF CommandsOK
  <1>15. ~Loading(n) /\ Loading(m) /\ Dead(n)
    BY <1>3, <1>4, <1>10, <1>14 DEF Loading, Dead
  <1>16. CommandsOK(b, n)
    BY <1>1, <1>90, <1>3, <1>5, <1>10 DEF CommandsOK
  <1>17. LoadOK(b, n)
    BY <1>1, <1>90, <1>10, <1>11, <1>12, <1>13, <1>15 DEF LoadOK, SameEvents
  <1>20. LoadedOK(b, n)
    BY <1>1, <1>90, <1>10, <1>11, <1>15 DEF LoadedOK, SameEvents
  <1>21. PauseOK(b, n) /\ WantOK(b, n, w)
    BY <1>15 DEF PauseOK, WantOK
  <1> QED
    BY <1>16, <1>17, <1>20, <1>21 DEF Exact, Story

\* stop: the next file is forgotten and the open one closed.
LEMMA StopTaken ==
    ASSUME NEW b, NEW m, NEW w, NEW o, Good(b, m, w, o), m.cmds # <<>>, Head(m.cmds).op = "stop",
           NEW n, n = closed([taken(m) EXCEPT !.next = NoFile], "stop")
    PROVE  Good(b, n, w, o)
  <1> DEFINE p == taken(m)  r == [p EXCEPT !.next = NoFile]
  <1>1. /\ m \in Players /\ b \in Backends /\ Gate(b) /\ TracksOK(b, m)
        /\ FileOK(b, m) /\ EndOK(b, m) /\ PendingOK(b, m) /\ RefusalOK(m)
    BY GoodParts
  <1>2. p \in Players /\ SameButQueues(m, p) /\ p.evs = m.evs /\ Shrunk(m.cmds, p.cmds)
    BY <1>1, TakenType
  <1>4. Has(m.cmds, "stop")
    BY <1>2 DEF Has, Shrunk
  <1>5. LoadsLast(m.cmds) => LoadsLast(p.cmds)
    BY <1>2, LoadsLastTaken
  <1>6. /\ r \in Players /\ r.cmds = p.cmds /\ r.evs = m.evs /\ r.file = m.file
        /\ r.next = NoFile /\ r.refused = m.refused /\ r.tracks = m.tracks
    BY <1>2 DEF Players, SameButQueues
  <1>7. n = closed(r, "stop")
    OBVIOUS
  <1> HIDE DEF p, r
  <1>9. \A t : Removes(m.cmds, t) => Removes(p.cmds, t)
    BY <1>2, RemovesTaken
  <1>10. Unused(b, n)
    BY GoodParts, Busy
  <1>11. ASSUME Timely(o)
         PROVE  /\ ~Has(p.cmds, "load") /\ LoadFirst(p.cmds) /\ PausesTyped(p.cmds)
                /\ ~b.load_pending /\ LoadOK(b, m) /\ LoadedOK(b, m)
    <2>1. LoadFirst(m.cmds) /\ PausesTyped(m.cmds) /\ CommandsOK(b, m) /\ LoadOK(b, m) /\ LoadedOK(b, m)
      BY <1>11, GoodParts
    <2> QED
      BY <1>2, <1>4, <2>1, OtherTaken, HasTaken DEF CommandsOK
  <1>12. CASE m.file = "idle"
    <2>1. n = r
      BY <1>6, <1>7, <1>12 DEF closed
    <2>2. FileOK(b, n) /\ EndOK(b, n) /\ RefusalOK(n)
      BY <1>1, <1>6, <1>12, <2>1 DEF FileOK, EndOK, RefusalOK
    <2>3. PendingOK(b, n)
      BY <1>1, <1>4, <1>5, <1>6, <2>1 DEF PendingOK
    <2>5. TracksOK(b, n)
      BY <1>1, <1>6, <1>9, <2>1 DEF TracksOK
    <2>6. Sound(b, n)
      BY <1>1, <1>6, <1>10, <2>1, <2>2, <2>3, <2>5 DEF Sound, Tale
    <2> SUFFICES ASSUME Timely(o) PROVE Exact(b, n, w)
      BY <2>6 DEF Good
    <2>7. ~Loading(n) /\ Dead(n)
      BY <1>6, <1>11, <1>12, <2>1 DEF Loading, Dead
    <2>8. CommandsOK(b, n) /\ LoadOK(b, n) /\ LoadedOK(b, n)
      BY <1>6, <1>11, <1>12, <2>1, <2>7 DEF CommandsOK, LoadOK, LoadedOK
    <2> QED
      BY <2>7, <2>8 DEF Exact, Story, PauseOK, WantOK
  <1>13. CASE m.file # "idle"
    <2>1. /\ n \in Players /\ n.cmds = p.cmds /\ n.next = NoFile /\ n.refused = m.refused
          /\ n.file = "idle" /\ n.tracks = {}
          /\ \E e : Grown(m.evs, n.evs, e) /\ e.id = "END_FILE" /\ e.arg = "stop"
      BY <1>6, <1>7, <1>13, ClosedType
    <2>2. PICK e : Grown(m.evs, n.evs, e) /\ e.id = "END_FILE" /\ e.arg = "stop"
      BY <2>1
    <2>4. /\ Tells(n.evs, "START_FILE") <=> Tells(m.evs, "START_FILE")
          /\ Refuses(n.evs) <=> Refuses(m.evs)
          /\ RefusedStarts(m.evs) => RefusedStarts(n.evs)
          /\ LastLife(n.evs, {"END_FILE"})
          /\ StartFirst(m.evs) => StartFirst(n.evs)
          /\ RestartStarts(m.evs) => RestartStarts(n.evs)
          /\ RestartLater(m.evs) => RestartLater(n.evs)
      BY <2>2, EventTold
    <2>5. FileOK(b, n) /\ EndOK(b, n) /\ RefusalOK(n)
      BY <1>1, <2>1, <2>4 DEF FileOK, EndOK, RefusalOK
    <2>6. PendingOK(b, n)
      BY <1>1, <1>4, <1>5, <2>1, <2>4 DEF PendingOK
    <2>7. TracksOK(b, n)
      BY <2>1 DEF TracksOK
    <2>8. Sound(b, n)
      BY <1>1, <1>10, <2>1, <2>5, <2>6, <2>7 DEF Sound, Tale
    <2> SUFFICES ASSUME Timely(o) PROVE Exact(b, n, w)
      BY <2>8 DEF Good
    <2>9. ~Loading(n) /\ Dead(n)
      BY <1>11, <2>1 DEF Loading, Dead
    <2>10. CommandsOK(b, n) /\ LoadedOK(b, n)
      BY <1>11, <2>1, <2>4, <2>9 DEF CommandsOK, LoadedOK
    <2>11. LoadOK(b, n)
      BY <1>11, <2>1, <2>4, <2>9 DEF LoadOK
    <2> QED
      BY <2>9, <2>10, <2>11 DEF Exact, Story, PauseOK, WantOK
  <1> QED
    BY <1>12, <1>13


\* The open file ends by itself, with or without a next one on its way.
LEMMA FileEnds ==
    ASSUME NEW b, NEW m, NEW w, NEW o, Good(b, m, w, o), m.file # "idle", NEW reason \in {"eof", "error"},
           NEW n, n = closed(m, reason)
    PROVE  Good(b, n, w, o)
  <1>1. /\ m \in Players /\ b \in Backends /\ Gate(b) /\ TracksOK(b, m)
        /\ FileOK(b, m) /\ EndOK(b, m) /\ PendingOK(b, m) /\ RefusalOK(m)
    BY GoodParts
  <1>2. /\ n \in Players /\ n.cmds = m.cmds /\ n.next = m.next /\ n.refused = m.refused
        /\ n.pause = m.pause /\ n.file = "idle" /\ n.tracks = {} /\ ~n.seeking
        /\ ("pause" \in m.changed => "pause" \in n.changed)
        /\ \E e : Grown(m.evs, n.evs, e) /\ e.id = "END_FILE" /\ e.arg = reason
    BY <1>1, ClosedType
  <1>3. PICK e : Grown(m.evs, n.evs, e) /\ e.id = "END_FILE" /\ e.arg = reason
    BY <1>2
  <1>5. "END_FILE" \notin Alive
    BY DEF Alive
  <1>6. /\ Tells(n.evs, "START_FILE") <=> Tells(m.evs, "START_FILE")
        /\ Refuses(n.evs) <=> Refuses(m.evs)
        /\ RefusedStarts(m.evs) => RefusedStarts(n.evs)
        /\ LastLife(n.evs, {"END_FILE"})
        /\ NoneAlive(m.evs) => NoneAlive(n.evs)
        /\ StartFirst(m.evs) => StartFirst(n.evs)
        /\ RestartStarts(m.evs) => RestartStarts(n.evs)
        /\ RestartLater(m.evs) => RestartLater(n.evs)
    BY <1>3, <1>5, EventTold
  <1>20. FileOK(b, n) /\ RefusalOK(n)
    BY <1>1, <1>2, <1>6 DEF FileOK, RefusalOK
  <1>21. EndOK(b, n)
    BY <1>1, <1>2, <1>6 DEF EndOK
  <1>22. PendingOK(b, n)
    BY <1>1, <1>2, <1>6 DEF PendingOK
  <1>13. TracksOK(b, n) /\ Unused(b, n)
    BY <1>2, GoodParts, Busy DEF TracksOK
  <1>30. Sound(b, n)
    BY <1>1, <1>2, <1>13, <1>20, <1>21, <1>22 DEF Sound, Tale
  <1> SUFFICES ASSUME Timely(o) PROVE Exact(b, n, w)
    BY <1>30 DEF Good
  <1>90. /\ LoadFirst(m.cmds) /\ PausesTyped(m.cmds)
         /\ CommandsOK(b, m) /\ LoadOK(b, m) /\ LoadedOK(b, m)
         /\ PauseOK(b, m) /\ WantOK(b, m, w)
    BY GoodParts
  <1>4. (Loading(n) <=> Loading(m)) /\ (Dead(m) => Dead(n)) /\ (Loading(n) \/ Dead(n))
    BY <1>2 DEF Loading, Dead
  <1>7. CommandsOK(b, n)
    BY <1>2, <1>90 DEF CommandsOK
  <1>8. LoadOK(b, n)
    BY <1>1, <1>90, <1>2, <1>4, <1>6 DEF LoadOK
  <1>9. LoadedOK(b, n)
    BY <1>2, <1>4, <1>6, <1>90 DEF LoadedOK
  <1>10. \A x : WillPause(m, x) <=> WillPause(n, x)
    BY <1>2 DEF WillPause
  <1>11. PauseOK(b, n)
    BY <1>1, <1>90, <1>2, <1>4, <1>10 DEF PauseOK
  <1>12. WantOK(b, n, w)
    BY <1>1, <1>90, <1>2, <1>4, <1>10 DEF WantOK
  <1> QED
    BY <1>7, <1>8, <1>9, <1>11, <1>12 DEF Exact, Story

\* What closing leaves, whether a file was open or not.
LEMMA MaybeClosed ==
    ASSUME NEW m \in Players
    PROVE  LET n == closed(m, "stop")
           IN  /\ n \in Players /\ n.cmds = m.cmds /\ n.next = m.next /\ n.pause = m.pause
               /\ n.file = "idle" /\ n.tracks \subseteq m.tracks
               /\ (n.seeking => m.seeking)
               /\ ("pause" \in m.changed => "pause" \in n.changed)
               /\ NoneAlive(m.evs) => NoneAlive(n.evs)
               /\ RestartStarts(m.evs) => RestartStarts(n.evs)
               /\ RestartLater(m.evs) => RestartLater(n.evs)
               /\ Refuses(n.evs) <=> Refuses(m.evs)
               /\ \A t : Adds(m.evs, t) => Adds(n.evs, t)
  <1>1. CASE m.file = "idle"
    BY <1>1 DEF closed
  <1>2. CASE m.file # "idle"
    <2> DEFINE n == closed(m, "stop")
    <2>1. /\ n \in Players /\ n.cmds = m.cmds /\ n.next = m.next /\ n.pause = m.pause
          /\ n.refused = m.refused /\ ~n.seeking /\ n.file = "idle" /\ n.tracks = {}
          /\ ("pause" \in m.changed => "pause" \in n.changed)
          /\ \E e : Grown(m.evs, n.evs, e) /\ e.id = "END_FILE" /\ e.arg = "stop"
      BY <1>2, ClosedType
    <2> HIDE DEF n
    <2>2. PICK e : Grown(m.evs, n.evs, e) /\ e.id = "END_FILE" /\ e.arg = "stop"
      BY <2>1
    <2>3. "END_FILE" \notin Alive
      BY DEF Alive
    <2>4. /\ NoneAlive(m.evs) => NoneAlive(n.evs)
          /\ RestartStarts(m.evs) => RestartStarts(n.evs)
          /\ RestartLater(m.evs) => RestartLater(n.evs)
          /\ Refuses(n.evs) <=> Refuses(m.evs)
          /\ \A t : Adds(m.evs, t) => Adds(n.evs, t)
      BY <2>2, <2>3, EventTold
    <2> QED
      BY <2>1, <2>4 DEF n
  <1> QED
    BY <1>1, <1>2

\* The next file starts: with its own pause, and with START_FILE.
LEMMA NextStarts ==
    ASSUME NEW b, NEW m, NEW w, NEW o, Good(b, m, w, o), m.next # NoFile, NEW n,
           n = took([told(closed(m, "stop"), "START_FILE", 0) EXCEPT
                        !.file = "starting", !.media = m.next.media, !.next = NoFile,
                        !.refused = FALSE], "pause", "pause", m.next.paused)
    PROVE  Good(b, n, w, o)
  <1> DEFINE x == closed(m, "stop")  y == told(x, "START_FILE", 0)
             z == [y EXCEPT !.file = "starting", !.media = m.next.media, !.next = NoFile,
                            !.refused = FALSE]
             e == [id |-> "START_FILE", arg |-> 0]
  <1>1. /\ m \in Players /\ b \in Backends /\ Gate(b) /\ TracksOK(b, m)
        /\ FileOK(b, m) /\ EndOK(b, m) /\ PendingOK(b, m) /\ RefusalOK(m)
    BY GoodParts
  <1>2. /\ x \in Players /\ x.cmds = m.cmds /\ x.next = m.next /\ x.pause = m.pause
        /\ x.tracks \subseteq m.tracks /\ ("pause" \in m.changed => "pause" \in x.changed)
        /\ NoneAlive(m.evs) => NoneAlive(x.evs)
        /\ RestartStarts(m.evs) => RestartStarts(x.evs)
        /\ RestartLater(m.evs) => RestartLater(x.evs)
        /\ Refuses(x.evs) <=> Refuses(m.evs)
        /\ \A t : Adds(m.evs, t) => Adds(x.evs, t)
    BY <1>1, MaybeClosed
  <1> HIDE DEF x
  <1>3. "START_FILE" \in EventIds /\ 0 \in Tidings /\ "START_FILE" \in Alive
    BY DEF EventIds, Life, Alive, Tidings
  <1>4. /\ y \in Players /\ SameButQueues(x, y) /\ y.cmds = x.cmds
        /\ Grown(x.evs, y.evs, e) /\ e.id = "START_FILE"
    BY <1>2, <1>3, ToldType
  <1> HIDE DEF y, e
  <1>5. m.next \in Files
    BY <1>1 DEF Players
  <1>6. m.next.media \in Media /\ m.next.paused \in BOOLEAN
    BY <1>5 DEF Files, Media
  <1>7. /\ z \in Players /\ z.cmds = m.cmds /\ z.evs = y.evs /\ z.file = "starting"
        /\ z.next = NoFile /\ ~z.refused /\ z.pause = m.pause /\ z.tracks = x.tracks
        /\ z.changed = x.changed
    BY <1>2, <1>4, <1>6 DEF Players, SameButQueues, FileStates
  <1>8. n = took(z, "pause", "pause", m.next.paused)
    BY DEF x, y
  <1> HIDE DEF z
  <1>9. /\ n \in Players /\ n.cmds = m.cmds /\ n.evs = y.evs /\ n.file = "starting"
        /\ n.next = NoFile /\ ~n.refused /\ n.tracks \subseteq m.tracks
        /\ n.pause = m.next.paused
        /\ ("pause" \in m.changed => "pause" \in n.changed)
        /\ (m.pause # m.next.paused => "pause" \in n.changed)
    BY <1>2, <1>6, <1>7, <1>8, TookPause
  <1>10. /\ Tells(n.evs, "START_FILE")
         /\ Refuses(n.evs) <=> Refuses(m.evs)
         /\ LastLife(n.evs, Alive)
         /\ NoneAlive(m.evs) => StartFirst(n.evs)
         /\ EndStarts(n.evs) /\ RefusedStarts(n.evs)
         /\ RestartStarts(m.evs) => RestartStarts(n.evs)
         /\ RestartLater(m.evs) => RestartLater(n.evs)
         /\ \A t : Adds(m.evs, t) => Adds(n.evs, t)
    BY <1>2, <1>3, <1>4, <1>9, EventTold
  <1>31. FileOK(b, n) /\ RefusalOK(n)
    BY <1>9, <1>10 DEF FileOK, RefusalOK
  <1>32. EndOK(b, n)
    BY <1>1, <1>9, <1>10 DEF EndOK
  <1>33. PendingOK(b, n)
    BY <1>10 DEF PendingOK
  <1>19. TracksOK(b, n)
    BY <1>1, <1>9, <1>10 DEF TracksOK
  <1>20. Unused(b, n)
    BY GoodParts, Busy
  <1>30. Sound(b, n)
    BY <1>1, <1>9, <1>19, <1>20, <1>31, <1>32, <1>33 DEF Sound, Tale
  <1> SUFFICES ASSUME Timely(o) PROVE Exact(b, n, w)
    BY <1>30 DEF Good
  <1>90. /\ LoadFirst(m.cmds) /\ PausesTyped(m.cmds)
         /\ CommandsOK(b, m) /\ LoadOK(b, m) /\ LoadedOK(b, m)
         /\ PauseOK(b, m) /\ WantOK(b, m, w)
    BY GoodParts
  <1>11. ~Has(m.cmds, "load") /\ Loading(m) /\ ~Loading(n) /\ (Dead(n) <=> Dead(m))
    BY <1>1, <1>90, <1>9 DEF CommandsOK, Loading, Dead
  <1>12. CommandsOK(b, n)
    BY <1>9, <1>11, <1>90 DEF CommandsOK
  <1>13. LoadOK(b, n)
    BY <1>1, <1>90, <1>9, <1>10, <1>11 DEF LoadOK
  <1>14. LoadedOK(b, n)
    BY <1>9, <1>10, <1>11, <1>90 DEF LoadedOK
  <1>15. \A v : ~LoadsWith(m.cmds, v)
    BY <1>11 DEF LoadsWith, Has
  <1>16. \A v : WillPause(m, v) => n.pause = v /\ ~Has(n.cmds, "pause")
    BY <1>9, <1>15 DEF WillPause
  <1>17. PauseOK(b, n)
    BY <1>1, <1>90, <1>9, <1>11, <1>16 DEF PauseOK
  <1>18. WantOK(b, n, w)
    BY <1>1, <1>90, <1>9, <1>11, <1>16 DEF WantOK
  <1> QED
    BY <1>12, <1>13, <1>14, <1>17, <1>18 DEF Exact, Story

\* The file is loaded: FILE_LOADED.
LEMMA FileLoads ==
    ASSUME NEW b, NEW m, NEW w, NEW o, Good(b, m, w, o), m.file = "starting", m.next = NoFile,
           NEW v \in BOOLEAN, NEW n,
           n = told(took([m EXCEPT !.file = "loaded"], "seekable", "seekable", v), "FILE_LOADED", 0)
    PROVE  Good(b, n, w, o)
  <1> DEFINE x == [m EXCEPT !.file = "loaded"]  y == took(x, "seekable", "seekable", v)
             e == [id |-> "FILE_LOADED", arg |-> 0]
  <1>1. /\ m \in Players /\ b \in Backends /\ Gate(b) /\ TracksOK(b, m)
        /\ FileOK(b, m) /\ EndOK(b, m) /\ PendingOK(b, m) /\ RefusalOK(m)
    BY GoodParts
  <1>2. /\ x \in Players /\ x.cmds = m.cmds /\ x.evs = m.evs /\ x.next = m.next
        /\ x.pause = m.pause /\ x.refused = m.refused /\ x.tracks = m.tracks
        /\ x.file = "loaded" /\ x.changed = m.changed
    BY <1>1 DEF Players, FileStates
  <1> HIDE DEF x
  <1>3. y \in Players /\ SameButNews(x, y)
    BY <1>2, TookSeekable
  <1> HIDE DEF y
  <1>4. "FILE_LOADED" \in EventIds /\ 0 \in Tidings /\ "FILE_LOADED" \in Alive
    BY DEF EventIds, Life, Alive, Tidings
  <1>5. n = told(y, "FILE_LOADED", 0)
    BY DEF x, y
  <1>6. /\ n \in Players /\ SameButQueues(y, n) /\ n.cmds = y.cmds
        /\ Grown(y.evs, n.evs, e) /\ e.id = "FILE_LOADED"
    BY <1>3, <1>4, <1>5, ToldType
  <1> HIDE DEF e
  <1>7. /\ n.cmds = m.cmds /\ n.next = NoFile /\ n.pause = m.pause /\ n.refused = m.refused
        /\ n.tracks = m.tracks /\ n.file = "loaded" /\ Grown(m.evs, n.evs, e)
        /\ ("pause" \in m.changed => "pause" \in n.changed)
    BY <1>2, <1>3, <1>6 DEF SameButNews, SameButQueues
  <1>8. /\ Tells(n.evs, "FILE_LOADED")
        /\ Tells(n.evs, "START_FILE") <=> Tells(m.evs, "START_FILE")
        /\ Refuses(n.evs) <=> Refuses(m.evs)
        /\ RefusedStarts(m.evs) => RefusedStarts(n.evs)
        /\ LastLife(n.evs, Alive)
        /\ StartFirst(m.evs) => StartFirst(n.evs)
        /\ EndStarts(m.evs) => EndStarts(n.evs)
        /\ RestartStarts(m.evs) => RestartStarts(n.evs)
        /\ RestartLater(m.evs) => RestartLater(n.evs)
        /\ \A t : Adds(m.evs, t) => Adds(n.evs, t)
    BY <1>4, <1>6, <1>7, EventTold
  <1>31. FileOK(b, n) /\ RefusalOK(n)
    BY <1>1, <1>7, <1>8 DEF FileOK, RefusalOK
  <1>32. EndOK(b, n)
    BY <1>1, <1>7, <1>8 DEF EndOK
  <1>33. PendingOK(b, n)
    BY <1>1, <1>7, <1>8 DEF PendingOK
  <1>16. TracksOK(b, n) /\ Unused(b, n)
    BY <1>1, <1>7, <1>8, GoodParts, Busy DEF TracksOK
  <1>30. Sound(b, n)
    BY <1>1, <1>6, <1>16, <1>31, <1>32, <1>33 DEF Sound, Tale
  <1> SUFFICES ASSUME Timely(o) PROVE Exact(b, n, w)
    BY <1>30 DEF Good
  <1>90. /\ LoadFirst(m.cmds) /\ PausesTyped(m.cmds)
         /\ CommandsOK(b, m) /\ LoadOK(b, m) /\ LoadedOK(b, m)
         /\ PauseOK(b, m) /\ WantOK(b, m, w)
    BY GoodParts
  <1>9. ~Has(m.cmds, "load") /\ ~Loading(m) /\ ~Loading(n) /\ (Dead(n) <=> Dead(m))
    BY <1>1, <1>90, <1>7 DEF CommandsOK, Loading, Dead
  <1>10. CommandsOK(b, n)
    BY <1>7, <1>9, <1>90 DEF CommandsOK
  <1>11. LoadOK(b, n)
    BY <1>1, <1>90, <1>7, <1>8, <1>9 DEF LoadOK
  <1>12. LoadedOK(b, n)
    BY <1>7, <1>8, <1>9, <1>90 DEF LoadedOK
  <1>13. \A y1 : WillPause(m, y1) <=> WillPause(n, y1)
    BY <1>7 DEF WillPause
  <1>14. PauseOK(b, n)
    BY <1>1, <1>90, <1>7, <1>9, <1>13 DEF PauseOK
  <1>15. WantOK(b, n, w)
    BY <1>1, <1>90, <1>7, <1>8, <1>9, <1>13 DEF WantOK
  <1> QED
    BY <1>10, <1>11, <1>12, <1>14, <1>15 DEF Exact, Story

\* PLAYBACK_RESTART is told.
LEMMA RestartTold ==
    ASSUME NEW m \in Players, NEW n, n = told(m, "PLAYBACK_RESTART", 0)
    PROVE  /\ n \in Players /\ SameButQueues(m, n) /\ n.cmds = m.cmds
           /\ Tells(n.evs, "FILE_LOADED") <=> Tells(m.evs, "FILE_LOADED")
           /\ Tells(n.evs, "START_FILE") <=> Tells(m.evs, "START_FILE")
           /\ Refuses(n.evs) <=> Refuses(m.evs)
           /\ RefusedStarts(m.evs) => RefusedStarts(n.evs)
           /\ LastLife(n.evs, Alive)
           /\ StartFirst(m.evs) => StartFirst(n.evs)
           /\ EndStarts(m.evs) => EndStarts(n.evs)
           /\ RestartStarts(m.evs) /\ EndStarts(m.evs) => RestartStarts(n.evs)
           /\ RestartLater(m.evs) /\ Tells(m.evs, "START_FILE") => RestartLater(n.evs)
           /\ \A t : Adds(m.evs, t) => Adds(n.evs, t)
  <1> DEFINE e == [id |-> "PLAYBACK_RESTART", arg |-> 0]
  <1>1. "PLAYBACK_RESTART" \in EventIds /\ 0 \in Tidings /\ "PLAYBACK_RESTART" \in Alive
    BY DEF EventIds, Life, Alive, Tidings
  <1>2. /\ n \in Players /\ SameButQueues(m, n) /\ n.cmds = m.cmds
        /\ Grown(m.evs, n.evs, e) /\ e.id = "PLAYBACK_RESTART"
    BY <1>1, ToldType
  <1> HIDE DEF e
  <1>3. e.id # "START_FILE" /\ e.id # "FILE_LOADED" /\ e.id # "END_FILE" /\ e.id # "REPLY_FAILED"
        /\ e.id \in Alive
    BY <1>1, <1>2
  <1>4. /\ Tells(n.evs, "FILE_LOADED") <=> Tells(m.evs, "FILE_LOADED")
        /\ Tells(n.evs, "START_FILE") <=> Tells(m.evs, "START_FILE")
        /\ Refuses(n.evs) <=> Refuses(m.evs)
        /\ RefusedStarts(m.evs) => RefusedStarts(n.evs)
        /\ LastLife(n.evs, Alive)
    BY <1>2, <1>3, EventTold
  <1>5. /\ StartFirst(m.evs) => StartFirst(n.evs)
        /\ EndStarts(m.evs) => EndStarts(n.evs)
        /\ RestartStarts(m.evs) /\ EndStarts(m.evs) => RestartStarts(n.evs)
        /\ RestartLater(m.evs) /\ Tells(m.evs, "START_FILE") => RestartLater(n.evs)
        /\ \A t : Adds(m.evs, t) => Adds(n.evs, t)
    BY <1>2, <1>3, EventTold
  <1> QED
    BY <1>2, <1>4, <1>5

\* The first frame, or the one after a seek: PLAYBACK_RESTART.
LEMMA PlaybackRestarts ==
    ASSUME NEW b, NEW m, NEW w, NEW o, Good(b, m, w, o), m.next = NoFile,
           m.file = "loaded" \/ (m.file = "playing" /\ m.seeking), NEW n,
           n = told(took([m EXCEPT !.file = "playing"], "seeking", "seeking", FALSE),
                    "PLAYBACK_RESTART", 0)
    PROVE  Good(b, n, w, o)
  <1> DEFINE x == [m EXCEPT !.file = "playing"]  y == took(x, "seeking", "seeking", FALSE)
  <1>1. /\ m \in Players /\ b \in Backends /\ Gate(b) /\ TracksOK(b, m)
        /\ FileOK(b, m) /\ EndOK(b, m) /\ PendingOK(b, m) /\ RefusalOK(m)
    BY GoodParts
  <1>2. /\ x \in Players /\ x.cmds = m.cmds /\ x.evs = m.evs /\ x.next = m.next
        /\ x.pause = m.pause /\ x.refused = m.refused /\ x.tracks = m.tracks
        /\ x.file = "playing" /\ x.changed = m.changed
    BY <1>1 DEF Players, FileStates
  <1> HIDE DEF x
  <1>3. y \in Players /\ SameButNews(x, y)
    BY <1>2, TookSeeking
  <1> HIDE DEF y
  <1>5. n = told(y, "PLAYBACK_RESTART", 0)
    BY DEF x, y
  <1>6. /\ n \in Players /\ SameButQueues(y, n) /\ n.cmds = y.cmds
        /\ Tells(n.evs, "FILE_LOADED") <=> Tells(y.evs, "FILE_LOADED")
        /\ Tells(n.evs, "START_FILE") <=> Tells(y.evs, "START_FILE")
        /\ Refuses(n.evs) <=> Refuses(y.evs)
        /\ RefusedStarts(y.evs) => RefusedStarts(n.evs)
        /\ LastLife(n.evs, Alive)
        /\ StartFirst(y.evs) => StartFirst(n.evs)
        /\ EndStarts(y.evs) => EndStarts(n.evs)
        /\ RestartStarts(y.evs) /\ EndStarts(y.evs) => RestartStarts(n.evs)
        /\ RestartLater(y.evs) /\ Tells(y.evs, "START_FILE") => RestartLater(n.evs)
        /\ \A t : Adds(y.evs, t) => Adds(n.evs, t)
    BY <1>3, <1>5, RestartTold
  <1>7. /\ n.cmds = m.cmds /\ n.next = NoFile /\ n.pause = m.pause /\ n.refused = m.refused
        /\ n.tracks = m.tracks /\ n.file = "playing"
        /\ ("pause" \in m.changed => "pause" \in n.changed)
    BY <1>2, <1>3, <1>6 DEF SameButNews, SameButQueues
  <1>8. y.evs = m.evs
    BY <1>2, <1>3 DEF SameButNews
  <1>31. FileOK(b, n) /\ RefusalOK(n)
    BY <1>1, <1>6, <1>7, <1>8 DEF FileOK, RefusalOK
  <1>32. EndOK(b, n)
    BY <1>1, <1>6, <1>7, <1>8 DEF EndOK
  <1>33. PendingOK(b, n)
    BY <1>1, <1>6, <1>7, <1>8 DEF PendingOK
  <1>16. TracksOK(b, n) /\ Unused(b, n)
    BY <1>1, <1>6, <1>7, <1>8, GoodParts, Busy DEF TracksOK
  <1>30. Sound(b, n)
    BY <1>1, <1>6, <1>16, <1>31, <1>32, <1>33 DEF Sound, Tale
  <1> SUFFICES ASSUME Timely(o) PROVE Exact(b, n, w)
    BY <1>30 DEF Good
  <1>90. /\ LoadFirst(m.cmds) /\ PausesTyped(m.cmds)
         /\ CommandsOK(b, m) /\ LoadOK(b, m) /\ LoadedOK(b, m)
         /\ PauseOK(b, m) /\ WantOK(b, m, w)
    BY GoodParts
  <1>9. ~Has(m.cmds, "load") /\ ~Loading(m) /\ ~Loading(n) /\ (Dead(n) <=> Dead(m))
    BY <1>1, <1>90, <1>7 DEF CommandsOK, Loading, Dead
  <1>10. CommandsOK(b, n)
    BY <1>7, <1>9, <1>90 DEF CommandsOK
  <1>11. LoadOK(b, n)
    BY <1>1, <1>90, <1>6, <1>7, <1>8, <1>9 DEF LoadOK
  <1>12. LoadedOK(b, n)
    BY <1>6, <1>7, <1>8, <1>9, <1>90 DEF LoadedOK
  <1>13. \A v : WillPause(m, v) <=> WillPause(n, v)
    BY <1>7 DEF WillPause
  <1>14. PauseOK(b, n)
    BY <1>1, <1>90, <1>7, <1>9, <1>13 DEF PauseOK
  <1>15. WantOK(b, n, w)
    BY <1>1, <1>90, <1>6, <1>7, <1>8, <1>9, <1>13 DEF WantOK
  <1> QED
    BY <1>10, <1>11, <1>12, <1>14, <1>15 DEF Exact, Story

\* mpv starts or ends to wait for its cache.
LEMMA Buffers ==
    ASSUME NEW b, NEW m, NEW w, NEW o, Good(b, m, w, o), m.file = "playing", NEW n,
           n = took(m, "paused-for-cache", "cache", ~m.cache)
    PROVE  Good(b, n, w, o)
  <1>1. m \in Players /\ b \in Backends /\ Gate(b) /\ TracksOK(b, m) /\ Unused(b, n)
    BY GoodParts, Busy
  <1>2. n \in Players /\ SameButNews(m, n) /\ n.seeking = m.seeking
    BY <1>1, TookCache
  <1>3. SameFile(m, n) /\ TracksOK(b, n)
    BY <1>1, <1>2, NewsOnly
  <1> QED
    BY <1>1, <1>2, <1>3, AlikeSelf, GoodKept DEF Steady

\* An audio-add ends.
LEMMA AudioEnds ==
    ASSUME NEW b, NEW m, NEW w, NEW o, Good(b, m, w, o), NEW t \in m.adding, NEW n,
           \/ n = told([m EXCEPT !.adding = @ \ {t}], "ADD_FAILED", t)
           \/ n = told([[m EXCEPT !.adding = @ \ {t}] EXCEPT !.tracks = @ \cup {t}], "ADDED", t)
    PROVE  Good(b, n, w, o)
  <1>1. m \in Players /\ b \in Backends /\ Gate(b) /\ TracksOK(b, m) /\ Unused(b, n)
    BY GoodParts, Busy
  <1>2. t \in Nat /\ m.adding \ {t} \in SUBSET Nat /\ m.tracks \cup {t} \in SUBSET Nat
    BY <1>1 DEF Players
  <1> DEFINE x == [m EXCEPT !.adding = @ \ {t}]  y == [x EXCEPT !.tracks = @ \cup {t}]
             e == [id |-> "ADDED", arg |-> t]
  <1>3. x \in Players /\ SameButNews(m, x) /\ x.seeking = m.seeking
    BY <1>1, <1>2 DEF Players, SameButNews
  <1>4. n = told(x, "ADD_FAILED", t) \/ n = told(y, "ADDED", t)
    OBVIOUS
  <1> HIDE DEF x
  <1>5. /\ y \in Players /\ y.cmds = x.cmds /\ y.evs = x.evs /\ y.file = x.file
        /\ y.next = x.next /\ y.pause = x.pause /\ y.refused = x.refused
        /\ y.changed = x.changed /\ y.seeking = x.seeking /\ y.tracks = m.tracks \cup {t}
    BY <1>2, <1>3 DEF Players, SameButNews
  <1> HIDE DEF y
  <1>6. {"ADDED", "ADD_FAILED"} \subseteq EventIds \ Life /\ t \in Tidings
    BY <1>2 DEF EventIds, Life, Alive, Tidings
  <1>7. SameFile(m, x) /\ TracksOK(b, x)
    BY <1>1, <1>3, NewsOnly
  <1>8. CASE n = told(x, "ADD_FAILED", t)
    <2>1. n \in Players /\ SameButQueues(x, n) /\ n.cmds = x.cmds /\ SameFile(x, n) /\ TracksOK(b, n)
      BY <1>3, <1>6, <1>7, <1>8, PlainEvent
    <2>2. SameFile(m, n) /\ Steady(m, n)
      BY <1>3, <1>7, <2>1, SameFileTwice DEF Steady, SameButNews, SameButQueues
    <2> QED
      BY <1>1, <2>1, <2>2, AlikeSelf, GoodKept
  <1>9. CASE n = told(y, "ADDED", t)
    <2>1. /\ n \in Players /\ SameButQueues(y, n) /\ n.cmds = y.cmds
          /\ Grown(y.evs, n.evs, e) /\ e.id = "ADDED" /\ e.arg = t
      BY <1>5, <1>6, <1>9, ToldType
    <2> HIDE DEF e
    <2>2. Grown(m.evs, n.evs, e)
      BY <1>3, <1>5, <2>1 DEF SameButNews
    <2>3. SameEvents(m.evs, n.evs)
      BY <1>6, <2>1, <2>2, OtherTold
    <2>4. /\ Refuses(n.evs) <=> Refuses(m.evs)
          /\ RefusedStarts(m.evs) => RefusedStarts(n.evs)
          /\ \A s : Adds(m.evs, s) => Adds(n.evs, s)
          /\ Adds(n.evs, t)
      BY <2>1, <2>2, EventTold
    <2>5. SameFile(m, n) /\ Steady(m, n)
      BY <1>3, <1>5, <2>1, <2>3, <2>4, SameQueues DEF SameFile, SameButNews, SameButQueues, Steady
    <2>6. n.cmds = m.cmds /\ n.tracks = m.tracks \cup {t}
      BY <1>3, <1>5, <2>1 DEF SameButNews, SameButQueues
    <2>7. TracksOK(b, n)
      BY <1>1, <2>4, <2>6 DEF TracksOK
    <2> QED
      BY <1>1, <2>1, <2>5, <2>7, AlikeSelf, GoodKept
  <1> QED
    BY <1>4, <1>8, <1>9

-----------------------------------------------------------------------------
(* Libmpv: what the backend does besides the file. *)

SameShown(b, c) ==
    /\ c.state = b.state /\ c.last_error = b.last_error /\ c.media = b.media
    /\ c.stopped = b.stopped /\ c.file_loaded = b.file_loaded /\ c.hold = b.hold
    /\ c.seeking = b.seeking /\ c.paused_for_cache = b.paused_for_cache
    /\ c.pause = b.pause
\* The state follows from what is shown.
LEMMA ShownDerived ==
    ASSUME NEW b, NEW c, SameShown(b, c), Derived(b)
    PROVE  Derived(c)
  BY DEF SameShown, Derived, derive_state
\* What libmpv_derive_state_locked and its caller change: the state alone.
LEMMA RefreshType ==
    ASSUME NEW b \in Backends
    PROVE  /\ refresh_state(b) \in Backends /\ Derived(refresh_state(b))
           /\ Alike(b, refresh_state(b)) /\ SamePause(b, refresh_state(b))
           /\ refresh_state(b).up = b.up /\ refresh_state(b).hold = b.hold
           /\ refresh_state(b).deadline = b.deadline
           /\ refresh_state(b).audio_bridge = b.audio_bridge
           /\ refresh_state(b).serial = b.serial
           /\ refresh_state(b).last_error = b.last_error
  <1> DEFINE c == refresh_state(b)  v == derive_state(b)
  <1>1. v \in PlayerStates
    BY DEF derive_state, PlayerStates
  <1>2. c = [b EXCEPT !.state = v]
    BY DEF refresh_state
  <1> HIDE DEF v
  <1>3. /\ c \in Backends /\ c.state = v /\ c.last_error = b.last_error /\ c.media = b.media
        /\ c.stopped = b.stopped /\ c.file_loaded = b.file_loaded /\ c.hold = b.hold
        /\ c.seeking = b.seeking /\ c.paused_for_cache = b.paused_for_cache
        /\ c.pause = b.pause /\ c.up = b.up /\ c.deadline = b.deadline
        /\ c.audio_bridge = b.audio_bridge /\ c.serial = b.serial
        /\ c.load_pending = b.load_pending /\ c.unpause_pending = b.unpause_pending
        /\ c.play_requested = b.play_requested
    BY <1>1, <1>2 DEF Backends
  <1> HIDE DEF c
  <1>4. Derived(c)
    BY <1>3 DEF Derived, v, derive_state
  <1> QED
    BY <1>3, <1>4 DEF c, Alike, SamePause

\* A step aside: the bridges, a seek, the shown state.
SideStep(b, m, c, n) ==
    /\ c \in Backends /\ n \in Players
    /\ Alike(b, c) /\ SamePause(b, c) /\ c.up = b.up /\ c.hold = b.hold
    /\ c.hold /\ b.deadline => c.deadline
    /\ SameFile(m, n) /\ n.seeking = m.seeking /\ n.tracks = m.tracks /\ n.evs = m.evs
    /\ TracksOK(c, n)
    /\ n = m \/ m.tracks # {} \/ b.file_loaded
\* A step aside keeps the invariant.
LEMMA SideGood ==
    ASSUME NEW b, NEW m, NEW w, NEW o, Good(b, m, w, o), NEW c, NEW n, SideStep(b, m, c, n)
    PROVE  Good(c, n, w, o)
  <1>1. Gate(c)
    BY GoodParts DEF SideStep, Gate, Alike
  <1>2. b.media = "none" => m.tracks = {} /\ ~b.file_loaded
    BY GoodParts DEF Unused, FreshMpv
  <1>3. Unused(c, n)
    BY <1>2, GoodParts DEF SideStep, Unused, Alike
  <1> QED
    BY <1>1, <1>3, GoodKept DEF SideStep, Steady
\* Two steps aside are one.
LEMMA SideTwice ==
    ASSUME NEW b, NEW m, NEW c, NEW n, NEW d, NEW p, SideStep(b, m, c, n), SideStep(c, n, d, p)
    PROVE  SideStep(b, m, d, p)
  <1>1. SameFile(m, p)
    BY SameFileTwice DEF SideStep
  <1>2. Alike(b, d) /\ SamePause(b, d)
    BY DEF SideStep, Alike, SamePause
  <1>3. p = m \/ m.tracks # {} \/ b.file_loaded
    BY DEF SideStep, Alike
  <1> QED
    BY <1>1, <1>2, <1>3 DEF SideStep
\* Showing the state is a step aside.
LEMMA SideRefresh ==
    ASSUME NEW b \in Backends, NEW m \in Players, TracksOK(b, m)
    PROVE  SideStep(b, m, refresh_state(b), m) /\ Derived(refresh_state(b))
  <1>1. SameFile(m, m)
    BY SameQueues DEF SameFile
  <1>2. TracksOK(refresh_state(b), m)
    BY RefreshType DEF TracksOK
  <1> QED
    BY <1>1, <1>2, RefreshType DEF SideStep

\* So is the audio-add of the bridge.
LEMMA AttachSide ==
    ASSUME NEW b \in Backends, NEW m \in Players, TracksOK(b, m)
    PROVE  LET t == attach_audio([b |-> b, m |-> m])
           IN  SideStep(b, m, t.b, t.m) /\ SameShown(b, t.b) /\ t.b.serial = b.serial
  <1>1. SameFile(m, m)
    BY SameQueues DEF SameFile
  <1>2. CASE ~(b.audio_pending /\ b.audio_bridge /\ b.file_loaded)
    <2>1. attach_audio([b |-> b, m |-> m]) = [b |-> b, m |-> m]
      BY <1>2 DEF attach_audio
    <2> QED
      BY <1>1, <2>1 DEF SideStep, Alike, SamePause, SameShown
  <1>3. CASE b.audio_pending /\ b.audio_bridge /\ b.file_loaded
    <2> DEFINE c == [b EXCEPT !.audio_pending = FALSE]  n == sent(m, "audio-add", b.serial)
    <2>1. attach_audio([b |-> b, m |-> m]) = [b |-> c, m |-> n]
      BY <1>3 DEF attach_audio
    <2>2. "audio-add" \in Plain /\ b.serial \in Nat
      BY DEF Plain, Backends
    <2>3. n \in Players /\ SameButQueues(m, n) /\ n.evs = m.evs /\ SameFile(m, n) /\ TracksOK(b, n)
      BY <2>2, PlainCommand
    <2> HIDE DEF n
    <2>4. c \in Backends /\ Alike(b, c) /\ SamePause(b, c) /\ SameShown(b, c)
      BY DEF Backends, Alike, SamePause, SameShown
    <2>5. /\ c.up = b.up /\ c.hold = b.hold /\ c.deadline = b.deadline
          /\ c.audio_bridge = b.audio_bridge /\ c.serial = b.serial
      BY DEF Backends
    <2> HIDE DEF c
    <2>6. TracksOK(c, n)
      BY <2>3, <2>5 DEF TracksOK
    <2>7. SideStep(b, m, c, n)
      BY <1>3, <2>3, <2>4, <2>5, <2>6 DEF SideStep, SameButQueues
    <2> QED
      BY <2>1, <2>4, <2>5, <2>7
  <1> QED
    BY <1>2, <1>3

\* A bridge takes the place of the previous one, whose track goes.
LEMMA BridgeSide ==
    ASSUME NEW b \in Backends, NEW m \in Players, TracksOK(b, m), NEW bridge \in BOOLEAN
    PROVE  LET t == set_audio_bridge([b |-> b, m |-> m], bridge)
           IN  SideStep(b, m, t.b, t.m) /\ SameShown(b, t.b) /\ t.b.serial = b.serial + 1
  <1> DEFINE old == IF b.audio_bridge THEN b.serial ELSE 0
             c == [b EXCEPT !.audio_bridge = bridge, !.serial = @ + 1, !.audio_pending = bridge]
             n == remove_audio(m, old)
             t == attach_audio([b |-> c, m |-> n])
  <1>1. set_audio_bridge([b |-> b, m |-> m], bridge) = t
    BY DEF set_audio_bridge
  <1>2. old \in Nat /\ (b.audio_bridge => old = b.serial) /\ "audio-remove" \in Plain
    BY DEF Backends, Plain
  <1>3. b.serial \in Nat /\ b.serial + 1 \in Nat
    BY DEF Backends
  <1>4. /\ c \in Backends /\ c.serial = b.serial + 1 /\ c.up = b.up /\ c.hold = b.hold
        /\ c.deadline = b.deadline /\ Alike(b, c) /\ SamePause(b, c) /\ SameShown(b, c)
    BY <1>3, ZenonT(60) DEF Backends, Alike, SamePause, SameShown
  <1> HIDE DEF old
  <1>5. /\ n \in Players /\ n.evs = m.evs /\ SameFile(m, n) /\ n.seeking = m.seeking
        /\ n.tracks = m.tracks /\ (n = m \/ m.tracks # {})
        /\ \A x \in m.tracks : x = old \/ Removes(m.cmds, x) \/ Adds(m.evs, x)
                               => Removes(n.cmds, x) \/ Adds(n.evs, x)
    <2>1. CASE old \notin m.tracks
      <3>1. n = m
        BY <2>1 DEF remove_audio
      <3> QED
        BY <2>1, <3>1, SameQueues DEF SameFile
    <2>2. CASE old \in m.tracks
      <3> DEFINE e == [op |-> "audio-remove", arg |-> old]
      <3>1. n = sent(m, "audio-remove", old)
        BY <2>2 DEF remove_audio
      <3> HIDE DEF n
      <3>2. n \in Players /\ SameButQueues(m, n) /\ n.evs = m.evs /\ SameFile(m, n)
        BY <1>2, <3>1, PlainCommand
      <3>3. "audio-remove" \in Ops /\ old \in Args /\ Fits("audio-remove", old)
        BY <1>2 DEF Ops, Args, Fits
      <3>4. Grown(m.cmds, n.cmds, e) /\ e.op = "audio-remove" /\ e.arg = old
        BY <1>2, <3>1, <3>3, SentType
      <3> HIDE DEF e
      <3>5. Removes(n.cmds, old) /\ \A x : Removes(m.cmds, x) => Removes(n.cmds, x)
        BY <3>4, RemovesSent
      <3> QED
        BY <2>2, <3>2, <3>5 DEF SameButQueues
    <2> QED
      BY <2>1, <2>2
  <1> HIDE DEF n
  <1>6. TracksOK(c, n)
    BY <1>2, <1>5 DEF TracksOK
  <1>7. SideStep(b, m, c, n)
    BY <1>4, <1>5, <1>6 DEF SideStep
  <1> HIDE DEF c
  <1>8. SideStep(c, n, t.b, t.m) /\ SameShown(c, t.b) /\ t.b.serial = c.serial
    BY <1>4, <1>5, <1>6, AttachSide
  <1> HIDE DEF t
  <1>9. SideStep(b, m, t.b, t.m)
    BY <1>7, <1>8, SideTwice
  <1>10. SameShown(b, t.b)
    BY <1>4, <1>8 DEF SameShown
  <1> QED
    BY <1>1, <1>4, <1>8, <1>9, <1>10
\* The sound of the media is let go of; only removals are sent for it.
LEMMA DropSide ==
    ASSUME NEW b \in Backends, NEW m \in Players, TracksOK(b, m)
    PROVE  LET t == drop_audio([b |-> b, m |-> m])
           IN  /\ SideStep(b, m, t.b, t.m) /\ SameShown(b, t.b)
               /\ t.b.serial \in {b.serial, b.serial + 1}
  <1>1. CASE b.audio_bridge
    <2>1. drop_audio([b |-> b, m |-> m]) = set_audio_bridge([b |-> b, m |-> m], FALSE)
      BY <1>1 DEF drop_audio
    <2> QED
      BY <2>1, BridgeSide
  <1>2. CASE ~b.audio_bridge
    <2>1. drop_audio([b |-> b, m |-> m]) = [b |-> b, m |-> m]
      BY <1>2 DEF drop_audio
    <2>2. SameFile(m, m)
      BY SameQueues DEF SameFile
    <2> QED
      BY <2>1, <2>2 DEF SideStep, Alike, SamePause, SameShown
  <1> QED
    BY <1>1, <1>2
\* Letting go of the sound of a player at rest sends at most a removal.
LEMMA DropRemoves ==
    ASSUME NEW b \in Backends, NEW m \in Players, TracksOK(b, m), m.cmds = <<>>
    PROVE  OnlyRemoves(drop_audio([b |-> b, m |-> m]).m.cmds)
  <1>1. OnlyRemoves(m.cmds)
    BY DEF OnlyRemoves
  <1>2. CASE b.audio_bridge
    <2> DEFINE c == [b EXCEPT !.audio_bridge = FALSE, !.serial = @ + 1, !.audio_pending = FALSE]
               n == remove_audio(m, b.serial)  e == [op |-> "audio-remove", arg |-> b.serial]
    <2>1. drop_audio([b |-> b, m |-> m]) = attach_audio([b |-> c, m |-> n])
      BY <1>2 DEF drop_audio, set_audio_bridge
    <2>2. ~c.audio_pending
      BY DEF Backends
    <2> HIDE DEF c, n
    <2>3. attach_audio([b |-> c, m |-> n]) = [b |-> c, m |-> n]
      BY <2>2 DEF attach_audio
    <2>4. CASE n = m
      BY <1>1, <2>1, <2>3, <2>4
    <2>5. CASE n # m
      <3>1. n = sent(m, "audio-remove", b.serial)
        BY <2>5 DEF n, remove_audio
      <3>2. "audio-remove" \in Ops /\ b.serial \in Args /\ Fits("audio-remove", b.serial)
        BY DEF Ops, Args, Backends, Fits
      <3>3. Grown(m.cmds, n.cmds, e) /\ e.op = "audio-remove"
        BY <3>1, <3>2, SentType
      <3> HIDE DEF e
      <3>4. OnlyRemoves(n.cmds)
        BY <1>1, <3>3 DEF OnlyRemoves, Grown
      <3> QED
        BY <2>1, <2>3, <3>4
    <2> QED
      BY <2>4, <2>5
  <1>3. CASE ~b.audio_bridge
    BY <1>1, <1>3 DEF drop_audio
  <1> QED
    BY <1>2, <1>3

\* A seek is sent.
LEMMA SeekSide ==
    ASSUME NEW b \in Backends, NEW m \in Players, TracksOK(b, m), b.file_loaded
    PROVE  LET t == send_seek([b |-> b, m |-> m])
           IN  SideStep(b, m, t.b, t.m) /\ Derived(t.b) /\ t.b.serial = b.serial
  <1> DEFINE c == [b EXCEPT !.last_error = FALSE, !.seeking = TRUE]
             d == refresh_state(c)  n == sent(m, "seek", 0)
  <1>1. send_seek([b |-> b, m |-> m]) = [b |-> d, m |-> n]
    BY DEF send_seek
  <1>2. "seek" \in Plain /\ 0 \in Nat
    BY DEF Plain
  <1>3. n \in Players /\ SameButQueues(m, n) /\ n.evs = m.evs /\ SameFile(m, n) /\ TracksOK(b, n)
    BY <1>2, PlainCommand
  <1> HIDE DEF n
  <1>4. /\ c \in Backends /\ Alike(b, c) /\ SamePause(b, c) /\ c.up = b.up /\ c.hold = b.hold
        /\ c.deadline = b.deadline /\ c.audio_bridge = b.audio_bridge /\ c.serial = b.serial
    BY DEF Backends, Alike, SamePause
  <1> HIDE DEF c
  <1>5. TracksOK(c, n)
    BY <1>3, <1>4 DEF TracksOK
  <1>6. SideStep(b, m, c, n)
    BY <1>3, <1>4, <1>5 DEF SideStep, SameButQueues
  <1>7. SideStep(c, n, d, n) /\ Derived(d) /\ d.serial = c.serial
    BY <1>3, <1>4, <1>5, SideRefresh, RefreshType
  <1> HIDE DEF d
  <1>8. SideStep(b, m, d, n)
    BY <1>6, <1>7, SideTwice
  <1> QED
    BY <1>1, <1>4, <1>7, <1>8
\* libmpv_maybe_issue_pending_seek_locked: a step aside as well.
LEMMA MaybeSeekSide ==
    ASSUME NEW b \in Backends, NEW m \in Players, TracksOK(b, m)
    PROVE  LET t == maybe_issue_pending_seek([b |-> b, m |-> m])
           IN  /\ SideStep(b, m, t.b, t.m) /\ t.b.serial = b.serial
               /\ Derived(b) => Derived(t.b)
  <1>1. CASE ~(b.pending_seek /\ b.file_loaded /\ b.seekable /\ b.state # "STOPPED")
    <2>1. maybe_issue_pending_seek([b |-> b, m |-> m]) = [b |-> b, m |-> m]
      BY <1>1 DEF maybe_issue_pending_seek
    <2>2. SameFile(m, m)
      BY SameQueues DEF SameFile
    <2> QED
      BY <2>1, <2>2 DEF SideStep, Alike, SamePause
  <1>2. CASE b.pending_seek /\ b.file_loaded /\ b.seekable /\ b.state # "STOPPED"
    <2> DEFINE t == send_seek([b |-> b, m |-> m])  c == t.b  n == t.m
               d == [c EXCEPT !.pending_seek = FALSE]
    <2>1. t = [b |-> c, m |-> n]
      BY DEF send_seek
    <2>2. SideStep(b, m, c, n) /\ Derived(c) /\ c.serial = b.serial
      BY <1>2, SeekSide
    <2> HIDE DEF c, n
    <2>3. maybe_issue_pending_seek([b |-> b, m |-> m]) = [t EXCEPT !.b.pending_seek = FALSE]
      BY <1>2 DEF maybe_issue_pending_seek
    <2> HIDE DEF t
    <2>4. /\ maybe_issue_pending_seek([b |-> b, m |-> m]).b = d
          /\ maybe_issue_pending_seek([b |-> b, m |-> m]).m = n
      <3>1. /\ [[b |-> c, m |-> n] EXCEPT !.b.pending_seek = FALSE].b = d
            /\ [[b |-> c, m |-> n] EXCEPT !.b.pending_seek = FALSE].m = n
        OBVIOUS
      <3> QED
        BY <2>1, <2>3, <3>1
    <2>5. c \in Backends /\ n \in Players /\ TracksOK(c, n)
      BY <2>2 DEF SideStep
    <2>6. /\ d \in Backends /\ Alike(c, d) /\ SamePause(c, d) /\ d.up = c.up /\ d.hold = c.hold
          /\ d.deadline = c.deadline /\ d.audio_bridge = c.audio_bridge /\ d.serial = c.serial
          /\ SameShown(c, d)
      BY <2>5, ZenonT(60) DEF Backends, Alike, SamePause, SameShown
    <2> HIDE DEF d
    <2>7. TracksOK(d, n) /\ SameFile(n, n)
      BY <2>5, <2>6, SameQueues DEF TracksOK, SameFile
    <2>8. SideStep(c, n, d, n)
      BY <2>5, <2>6, <2>7 DEF SideStep
    <2>9. SideStep(b, m, d, n) /\ Derived(d)
      BY <2>2, <2>6, <2>8, SideTwice, ShownDerived
    <2> QED
      BY <2>2, <2>4, <2>6, <2>9
  <1> QED
    BY <1>1, <1>2

\* The pause is changed, and mpv asked to follow.
LEMMA PauseSet ==
    ASSUME NEW b, NEW m \in Players, Tale(b, m), TracksOK(b, m), b.media # "none",
           NEW c \in Backends, NEW w, NEW o, NEW v \in BOOLEAN, Alike(b, c), Gate(c), c.up,
           c.audio_bridge = b.audio_bridge, c.serial = b.serial, c.pause = v,
           Timely(o) => Story(b, m) /\ (w = "play" => v = FALSE /\ ~Loading(m))
    PROVE  Good(c, sent(m, "pause", v), w, o)
  <1> DEFINE n == sent(m, "pause", v)  e == [op |-> "pause", arg |-> v]
  <1>1. "pause" \in Ops /\ v \in Args /\ Fits("pause", v)
    BY DEF Ops, Args, Fits
  <1>2. /\ n \in Players /\ SameButQueues(m, n) /\ n.evs = m.evs
        /\ Grown(m.cmds, n.cmds, e) /\ e.op = "pause" /\ e.arg = v
    BY <1>1, SentType
  <1> HIDE DEF n, e
  <1>3. /\ Has(n.cmds, "load") <=> Has(m.cmds, "load")
        /\ Has(n.cmds, "stop") <=> Has(m.cmds, "stop")
        /\ LastPause(n.cmds, v)
        /\ LoadFirst(m.cmds) => LoadFirst(n.cmds)
        /\ PausesTyped(m.cmds) => PausesTyped(n.cmds)
        /\ LoadsLast(m.cmds) => LoadsLast(n.cmds)
    BY <1>2, PauseSent, LoadsLastSent
  <1>4. \A t : Removes(m.cmds, t) => Removes(n.cmds, t)
    BY <1>2, RemovesSent
  <1>5. /\ n.file = m.file /\ n.next = m.next /\ n.refused = m.refused /\ n.tracks = m.tracks
        /\ n.seeking = m.seeking
    BY <1>2 DEF SameButQueues
  <1>6. FileOK(c, n) /\ RefusalOK(n)
    BY <1>2, <1>3, <1>5 DEF Tale, FileOK, RefusalOK, Alike
  <1>7. EndOK(c, n)
    BY <1>2, <1>5 DEF Tale, EndOK, Alike
  <1>8. PendingOK(c, n)
    BY <1>2, <1>3, <1>5 DEF Tale, PendingOK, Alike
  <1>9. TracksOK(c, n)
    BY <1>2, <1>4, <1>5 DEF TracksOK
  <1>10. Unused(c, n)
    BY DEF Unused, Alike
  <1>11. Sound(c, n)
    BY <1>2, <1>6, <1>7, <1>8, <1>9, <1>10 DEF Sound, Tale
  <1>12. ASSUME Timely(o) PROVE Exact(c, n, w)
    <2>1. Story(b, m) /\ (w = "play" => v = FALSE /\ ~Loading(m))
      BY <1>12
    <2>2. (Loading(n) <=> Loading(m)) /\ (Dead(n) <=> Dead(m))
      BY <1>3, <1>5 DEF Loading, Dead
    <2>3. CommandsOK(c, n)
      BY <1>2, <1>3, <1>5, <2>1 DEF Story, CommandsOK, Alike
    <2>4. LoadOK(c, n)
      BY <1>2, <1>5, <2>1, <2>2 DEF Story, LoadOK, Alike
    <2>5. LoadedOK(c, n)
      BY <1>2, <1>5, <2>1, <2>2 DEF Story, LoadedOK, Alike
    <2>6. PauseOK(c, n) /\ WantOK(c, n, w)
      BY <1>3, <2>1, <2>2 DEF PauseOK, WantOK
    <2> QED
      BY <2>3, <2>4, <2>5, <2>6 DEF Exact, Story
  <1> QED
    BY <1>11, <1>12 DEF Good, n


-----------------------------------------------------------------------------
(* Libmpv: the commands. *)

\* The second half of the flags a load sets.
LEMMA LateFlags ==
    ASSUME NEW b \in Backends, NEW v \in BOOLEAN
    PROVE  [b EXCEPT !.seek_event_seen = FALSE, !.play_requested = v,
                     !.unpause_pending = FALSE, !.deadline = TRUE, !.seeking = FALSE,
                     !.paused_for_cache = FALSE, !.pending_seek = FALSE] \in Backends
  BY ZenonT(60) DEF Backends
Started(b, paused) ==
    [b EXCEPT !.last_error = FALSE, !.pause = paused, !.stopped = FALSE,
             !.file_loaded = FALSE, !.load_pending = TRUE, !.hold = TRUE,
             !.restart_seen = FALSE, !.seek_inflight = FALSE,
             !.seek_event_seen = FALSE, !.play_requested = ~paused,
             !.unpause_pending = FALSE, !.deadline = TRUE, !.seeking = FALSE,
             !.paused_for_cache = FALSE, !.pending_seek = FALSE]
\* What a load leaves of the backend.
LEMMA StartedFlags ==
    ASSUME NEW b \in Backends, NEW paused \in BOOLEAN
    PROVE  /\ Started(b, paused) \in Backends /\ Started(b, paused).last_error = FALSE
           /\ Started(b, paused).pause = paused /\ Started(b, paused).stopped = FALSE
           /\ Started(b, paused).file_loaded = FALSE /\ Started(b, paused).load_pending = TRUE
           /\ Started(b, paused).hold = TRUE /\ Started(b, paused).deadline = TRUE
           /\ Started(b, paused).up = b.up /\ Started(b, paused).media = b.media
           /\ Started(b, paused).audio_bridge = b.audio_bridge
           /\ Started(b, paused).serial = b.serial
  <1> DEFINE c == Started(b, paused)  v == ~paused
  <1>0. v \in BOOLEAN
    OBVIOUS
  <1> DEFINE d == [b EXCEPT !.last_error = FALSE, !.pause = paused, !.stopped = FALSE,
                     !.file_loaded = FALSE, !.load_pending = TRUE, !.hold = TRUE,
                     !.restart_seen = FALSE, !.seek_inflight = FALSE]
  <1>1. c = [d EXCEPT !.seek_event_seen = FALSE, !.play_requested = v,
                !.unpause_pending = FALSE, !.deadline = TRUE, !.seeking = FALSE,
                !.paused_for_cache = FALSE, !.pending_seek = FALSE]
    BY DEF Started
  <1>2. d \in Backends
    BY ZenonT(60) DEF Backends
  <1> HIDE DEF d, v
  <1>3. [d EXCEPT !.seek_event_seen = FALSE, !.play_requested = v,
                !.unpause_pending = FALSE, !.deadline = TRUE, !.seeking = FALSE,
                !.paused_for_cache = FALSE, !.pending_seek = FALSE] \in Backends
    BY <1>0, <1>2, LateFlags, Zenon
  <1>4. c \in Backends
    BY <1>1, <1>3, Zenon
  <1>5. /\ c.last_error = FALSE /\ c.pause = paused /\ c.stopped = FALSE
        /\ c.file_loaded = FALSE /\ c.load_pending = TRUE /\ c.hold = TRUE
        /\ c.deadline = TRUE
    BY DEF Backends, Started
  <1>6. /\ c.up = b.up /\ c.media = b.media
        /\ c.audio_bridge = b.audio_bridge /\ c.serial = b.serial
    BY DEF Backends, Started
  <1> HIDE DEF c
  <1>7. /\ c \in Backends /\ c.last_error = FALSE /\ c.pause = paused /\ c.stopped = FALSE
        /\ c.file_loaded = FALSE /\ c.load_pending = TRUE /\ c.hold = TRUE
        /\ c.deadline = TRUE /\ c.up = b.up /\ c.media = b.media
        /\ c.audio_bridge = b.audio_bridge /\ c.serial = b.serial
    BY <1>4, <1>5, <1>6, Zenon
  <1> QED
    BY <1>7, Zenon DEF c

\* A media is loaded; exactly that when the player is at rest.
LEMMA LoadCurrent ==
    ASSUME NEW b \in Backends, NEW m \in Players, TracksOK(b, m), NEW a, Tale(a, m),
           b.up = TRUE, b.media \in {"url", "mirror"}, NEW paused \in BOOLEAN, NEW w, NEW o,
           Timely(o) => /\ OnlyRemoves(m.cmds) /\ m.evs = <<>> /\ m.next = NoFile
                        /\ m.file \in {"idle", "playing"} /\ m.seeking = FALSE
                        /\ (w = "play" => paused = FALSE)
    PROVE  LET t == async_load_current([b |-> b, m |-> m], paused)
           IN  Good(t.b, t.m, w, o) /\ Derived(t.b) /\ t.b.serial = b.serial
  <1> DEFINE c == [b EXCEPT !.last_error = FALSE, !.pause = paused, !.stopped = FALSE,
                !.file_loaded = FALSE, !.load_pending = TRUE, !.hold = TRUE,
                !.restart_seen = FALSE, !.seek_inflight = FALSE,
                !.seek_event_seen = FALSE, !.play_requested = ~paused,
                !.unpause_pending = FALSE, !.deadline = TRUE, !.seeking = FALSE,
                !.paused_for_cache = FALSE, !.pending_seek = FALSE]
             file == [media |-> b.media, paused |-> paused]
             n == sent(m, "load", file)  e == [op |-> "load", arg |-> file]
             d == refresh_state(c)
  <1>1. async_load_current([b |-> b, m |-> m], paused) = [b |-> d, m |-> n]
    BY DEF async_load_current
  <1>2. /\ c \in Backends /\ ~c.last_error /\ c.pause = paused /\ ~c.stopped /\ ~c.file_loaded
        /\ c.load_pending /\ c.hold /\ c.deadline /\ c.up = b.up /\ c.media = b.media
        /\ c.audio_bridge = b.audio_bridge /\ c.serial = b.serial
    <2>2. c = Started(b, paused)
      BY DEF Started
    <2> HIDE DEF c
    <2>3. /\ c \in Backends /\ c.last_error = FALSE /\ c.pause = paused /\ c.stopped = FALSE
          /\ c.file_loaded = FALSE /\ c.load_pending = TRUE /\ c.hold = TRUE
          /\ c.deadline = TRUE /\ c.up = b.up /\ c.media = b.media
          /\ c.audio_bridge = b.audio_bridge /\ c.serial = b.serial
      BY <2>2, StartedFlags
    <2> QED
      BY <2>3
  <1>3. file \in Files /\ file.paused = paused
    BY DEF Files
  <1> HIDE DEF c, file
  <1>4. "load" \in Ops /\ file \in Args /\ Fits("load", file)
    BY <1>3 DEF Ops, Args, Fits
  <1>5. /\ n \in Players /\ SameButQueues(m, n) /\ n.evs = m.evs
        /\ Grown(m.cmds, n.cmds, e) /\ e.op = "load" /\ e.arg = file
    BY <1>4, SentType
  <1> HIDE DEF n, e
  <1>6. n.file = m.file /\ n.next = m.next /\ n.refused = m.refused /\ n.tracks = m.tracks
    BY <1>5 DEF SameButQueues
  <1>7. LoadsLast(n.cmds) /\ (Has(m.cmds, "stop") => Has(n.cmds, "stop"))
    <2>1. LoadsLast(n.cmds)
      BY <1>5, LoadsLastSent
    <2>2. Has(m.cmds, "stop") => Has(n.cmds, "stop")
      BY <1>5 DEF Grown, Has
    <2> QED
      BY <2>1, <2>2
  <1>8. FileOK(c, n) /\ RefusalOK(n)
    BY <1>2, <1>5, <1>6, <1>7 DEF Tale, FileOK, RefusalOK
  <1>9. EndOK(c, n) /\ PendingOK(c, n)
    BY <1>2, <1>5, <1>6, <1>7 DEF Tale, EndOK, PendingOK
  <1>10. \A t : Removes(m.cmds, t) => Removes(n.cmds, t)
    BY <1>5, RemovesSent
  <1>11. TracksOK(c, n)
    BY <1>2, <1>5, <1>6, <1>10 DEF TracksOK
  <1>12. Unused(c, n) /\ Gate(c)
    BY <1>2 DEF Unused, Gate
  <1>13. Sound(c, n)
    BY <1>2, <1>5, <1>8, <1>9, <1>11, <1>12 DEF Sound, Tale
  <1>14. ASSUME Timely(o) PROVE Exact(c, n, w)
    <2>1. /\ OnlyRemoves(m.cmds) /\ m.evs = <<>> /\ m.next = NoFile
          /\ m.file \in {"idle", "playing"} /\ m.seeking = FALSE
          /\ (w = "play" => paused = FALSE)
      BY <1>14
    <2>2. /\ Has(n.cmds, "load") /\ ~Has(n.cmds, "stop") /\ ~Has(n.cmds, "pause")
          /\ LoadsWith(n.cmds, paused) /\ LoadFirst(n.cmds) /\ PausesTyped(n.cmds)
      BY <1>3, <1>5, <2>1, LoadSent
    <2>3. /\ n.evs = <<>> /\ n.file \in {"idle", "playing"} /\ n.next = NoFile /\ ~n.seeking
      BY <1>5, <2>1 DEF SameButQueues
    <2>4. /\ ~Refuses(n.evs) /\ NoneAlive(n.evs) /\ StartFirst(n.evs)
          /\ ~Tells(n.evs, "START_FILE")
      BY <2>3 DEF Refuses, NoneAlive, StartFirst, Tells
    <2>5. Loading(n) /\ ~Dead(n) /\ WillPause(n, paused)
      BY <2>2 DEF Loading, Dead, WillPause
    <2>6. CommandsOK(c, n) /\ LoadOK(c, n) /\ LoadedOK(c, n)
      BY <1>2, <2>2, <2>3, <2>4, <2>5 DEF CommandsOK, LoadOK, LoadedOK
    <2>7. PauseOK(c, n) /\ WantOK(c, n, w)
      BY <1>2, <2>1, <2>5 DEF PauseOK, WantOK
    <2> QED
      BY <2>6, <2>7 DEF Exact, Story
  <1>15. Good(c, n, w, o)
    BY <1>13, <1>14 DEF Good
  <1>16. SideStep(c, n, d, n) /\ Derived(d) /\ d.serial = c.serial
    BY <1>2, <1>5, <1>11, SideRefresh, RefreshType
  <1> HIDE DEF d
  <1>17. Good(d, n, w, o)
    BY <1>15, <1>16, SideGood
  <1> QED
    BY <1>1, <1>2, <1>16, <1>17


\* The parts of the invariant.
LEMMA InvFacts ==
    ASSUME LibmpvInv
    PROVE  /\ g \in Backends /\ mpv \in Players /\ TracksOK(g, mpv) /\ Tale(g, mpv)
           /\ Gate(g) /\ Unused(g, mpv) /\ Derived(g) /\ Good(g, mpv, wanted, overtaken)
           /\ g.serial \in Nat /\ calls \in Nat /\ g.serial <= calls /\ calls <= MaxCalls
           /\ wanted \in Wants /\ overtaken \in BOOLEAN
           /\ Timely(overtaken) => /\ Story(g, mpv) /\ PauseOK(g, mpv)
                                   /\ WantOK(g, mpv, wanted)
  BY GoodParts DEF LibmpvInv, Backends
\* A command is counted; the audio serial moves at most once with it.
LEMMA CallCounts ==
    ASSUME LibmpvInv, call
    PROVE  /\ calls' \in Nat /\ calls' <= MaxCalls /\ g.serial <= calls'
           /\ \A s \in {g.serial, g.serial + 1} : s <= calls'
  BY InvFacts, LibmpvAssumption DEF call

\* player_libmpv_set_airplay_audio_bridge keeps the invariant.
LEMMA BridgeInv ==
    ASSUME LibmpvInv, NEW bridge \in BOOLEAN, set_airplay_audio_bridge(bridge)
    PROVE  LibmpvInv'
  <1> DEFINE t == set_audio_bridge([b |-> g, m |-> mpv], bridge)
  <1>1. g' = t.b /\ mpv' = t.m /\ wanted' = wanted /\ overtaken' = overtaken /\ call
    BY DEF set_airplay_audio_bridge, commit
  <1>2. SideStep(g, mpv, t.b, t.m) /\ SameShown(g, t.b) /\ t.b.serial = g.serial + 1
    BY InvFacts, BridgeSide
  <1> HIDE DEF t
  <1>3. Good(t.b, t.m, wanted, overtaken) /\ Derived(t.b)
    BY <1>2, InvFacts, SideGood, ShownDerived
  <1> QED
    BY <1>1, <1>2, <1>3, InvFacts, CallCounts DEF LibmpvInv
\* player_libmpv_set_airplay_stream_bridge keeps it.
LEMMA StreamInv ==
    ASSUME LibmpvInv, NEW bridge \in BOOLEAN, set_airplay_stream_bridge(bridge)
    PROVE  LibmpvInv'
  <1> DEFINE t == drop_audio([b |-> g, m |-> mpv])
             c == IF bridge /\ ~g.up THEN t.b ELSE [t.b EXCEPT !.stream_bridge = bridge]
  <1>1. wanted' = wanted /\ overtaken' = overtaken /\ call
    BY DEF set_airplay_stream_bridge
  <1>2. /\ SideStep(g, mpv, t.b, t.m) /\ SameShown(g, t.b)
        /\ t.b.serial \in {g.serial, g.serial + 1}
    BY InvFacts, DropSide
  <1>3. g' = c /\ mpv' = t.m
    <2>1. CASE bridge /\ ~g.up
      BY <2>1 DEF set_airplay_stream_bridge, commit
    <2>2. CASE ~(bridge /\ ~g.up)
      <3>1. g' = [t EXCEPT !.b.stream_bridge = bridge].b /\ mpv' = [t EXCEPT !.b.stream_bridge = bridge].m
        BY <2>2 DEF set_airplay_stream_bridge, commit
      <3>2. \E x, y : t = [b |-> x, m |-> y]
        BY DEF drop_audio, set_audio_bridge, attach_audio
      <3>3. PICK x, y : t = [b |-> x, m |-> y]
        BY <3>2
      <3> HIDE DEF t
      <3>4. /\ [[b |-> x, m |-> y] EXCEPT !.b.stream_bridge = bridge].b = [x EXCEPT !.stream_bridge = bridge]
            /\ [[b |-> x, m |-> y] EXCEPT !.b.stream_bridge = bridge].m = y
        OBVIOUS
      <3>5. t.b = x /\ t.m = y
        BY <3>3
      <3> QED
        BY <2>2, <3>1, <3>3, <3>4, <3>5
    <2> QED
      BY <2>1, <2>2
  <1> HIDE DEF t
  <1>4. t.b \in Backends /\ t.m \in Players /\ TracksOK(t.b, t.m)
    BY <1>2 DEF SideStep
  <1>5. /\ c \in Backends /\ Alike(t.b, c) /\ SamePause(t.b, c) /\ SameShown(t.b, c)
        /\ c.up = t.b.up /\ c.hold = t.b.hold /\ c.deadline = t.b.deadline
        /\ c.audio_bridge = t.b.audio_bridge /\ c.serial = t.b.serial
    BY <1>4 DEF Backends, Alike, SamePause, SameShown
  <1> HIDE DEF c
  <1>6. SameFile(t.m, t.m) /\ TracksOK(c, t.m)
    BY <1>4, <1>5, SameQueues DEF SameFile, TracksOK
  <1>7. SideStep(t.b, t.m, c, t.m)
    BY <1>4, <1>5, <1>6 DEF SideStep
  <1>8. Good(c, t.m, wanted, overtaken) /\ Derived(c)
    BY <1>2, <1>5, <1>7, InvFacts, SideGood, SideTwice, ShownDerived
  <1> QED
    BY <1>1, <1>2, <1>3, <1>5, <1>8, InvFacts, CallCounts DEF LibmpvInv

\* What libmpv_reset_locked leaves.
LEMMA ResetType ==
    ASSUME NEW up \in BOOLEAN, NEW s \in Nat
    PROVE  /\ reset(up, s) \in Backends /\ Derived(reset(up, s))
           /\ reset(up, s).media = "none" /\ reset(up, s).serial = s
           /\ ~reset(up, s).file_loaded /\ ~reset(up, s).hold
           /\ ~reset(up, s).last_error /\ ~reset(up, s).load_pending
  <1> DEFINE r == reset(up, s)
             D == BackendFlags \cup {"media", "state", "serial"}
  <1>1. /\ DOMAIN r = D /\ r.media = "none" /\ r.state = "IDLE" /\ r.serial = s
        /\ r.up = up /\ r.pause = TRUE
        /\ \A f \in BackendFlags \ {"up", "pause"} : r[f] = FALSE
    BY DEF reset, BackendFlags
  <1>2. r = [f \in D |-> r[f]]
    BY DEF reset
  <1> HIDE DEF r
  <1>3. /\ r.stopped = FALSE /\ r.file_loaded = FALSE /\ r.load_pending = FALSE
        /\ r.hold = FALSE /\ r.restart_seen = FALSE /\ r.seek_inflight = FALSE
        /\ r.seek_event_seen = FALSE /\ r.play_requested = FALSE
        /\ r.unpause_pending = FALSE /\ r.deadline = FALSE
    BY <1>1 DEF BackendFlags
  <1>4. /\ r.seeking = FALSE /\ r.paused_for_cache = FALSE /\ r.pending_seek = FALSE
        /\ r.seekable = FALSE /\ r.last_error = FALSE /\ r.stream_bridge = FALSE
        /\ r.audio_bridge = FALSE /\ r.audio_pending = FALSE
    BY <1>1 DEF BackendFlags
  <1>5. r \in Backends
    BY <1>1, <1>2, <1>3, <1>4 DEF Backends, BackendFlags, Media, PlayerStates
  <1>6. Derived(r)
    BY <1>1, <1>4 DEF Derived, derive_state
  <1>7. /\ r \in Backends /\ Derived(r) /\ r.media = "none" /\ r.serial = s
        /\ ~r.file_loaded /\ ~r.hold /\ ~r.last_error /\ ~r.load_pending
    BY <1>1, <1>3, <1>4, <1>5, <1>6
  <1> QED
    BY <1>7 DEF r
\* A backend without a media, and an mpv nobody has used.
LEMMA FreshGood ==
    ASSUME NEW b \in Backends, b.media = "none", ~b.file_loaded, ~b.hold, ~b.last_error,
           ~b.load_pending, NEW w, NEW o
    PROVE  Good(b, FreshMpv, w, o)
  <1> DEFINE m == FreshMpv
  <1>1. m \in Players
    <2>1. <<>> \in Seq(Requests) /\ <<>> \in Seq(Events)
      OBVIOUS
    <2>2. NoFile \in Files \cup {NoFile}
      OBVIOUS
    <2> QED
      BY <2>1, <2>2 DEF FreshMpv, Players, FileStates, Media
  <1>2. /\ m.cmds = <<>> /\ m.evs = <<>> /\ m.file = "idle" /\ m.next = NoFile /\ ~m.refused
        /\ m.tracks = {}
    BY DEF FreshMpv
  <1> HIDE DEF m
  <1>3. /\ \A op : ~Has(m.cmds, op)
        /\ LoadFirst(m.cmds) /\ PausesTyped(m.cmds)
    BY <1>2 DEF Has, LoadFirst, PausesTyped
  <1>4. /\ ~Refuses(m.evs) /\ NoLife(m.evs) /\ StartFirst(m.evs) /\ RefusedStarts(m.evs)
        /\ RestartStarts(m.evs) /\ ~Tells(m.evs, "START_FILE")
    BY <1>2 DEF Refuses, NoLife, StartFirst, RestartStarts, Tells, RefusedStarts
  <1>5. ~Loading(m) /\ Dead(m)
    BY <1>2, <1>3 DEF Loading, Dead
  <1>6. Tale(b, m)
    BY <1>2, <1>4 DEF Tale, FileOK, EndOK, PendingOK, RefusalOK
  <1>7. Story(b, m)
    BY <1>2, <1>3, <1>4, <1>5 DEF Story, CommandsOK, LoadOK, LoadedOK
  <1>8. PauseOK(b, m) /\ WantOK(b, m, w) /\ TracksOK(b, m) /\ Unused(b, m) /\ Gate(b)
    BY <1>2, <1>5 DEF PauseOK, WantOK, TracksOK, Unused, Gate, m
  <1> QED
    BY <1>1, <1>6, <1>7, <1>8 DEF Good, Sound, Exact, m


\* The invariant holds at the start.
LEMMA InitInv == LibmpvInit => LibmpvInv
  <1> SUFFICES ASSUME LibmpvInit PROVE LibmpvInv
    OBVIOUS
  <1>1. g = reset(FALSE, 0) /\ mpv = FreshMpv /\ wanted = "none" /\ overtaken = FALSE /\ calls = 0
    BY DEF LibmpvInit
  <1>2. Good(g, mpv, wanted, overtaken) /\ Derived(g) /\ g.serial = 0
    BY <1>1, ResetType, FreshGood
  <1>3. wanted \in Wants
    BY <1>1 DEF Wants
  <1>4. calls \in Nat /\ g.serial <= calls /\ calls <= MaxCalls
    <2>1. calls = 0 /\ g.serial = 0
      BY <1>1, <1>2
    <2> QED
      BY <2>1, LibmpvAssumption
  <1> QED
    BY <1>1, <1>2, <1>3, <1>4 DEF LibmpvInv
\* libmpv_init keeps it.
LEMMA OpenInv ==
    ASSUME LibmpvInv, libmpv_init
    PROVE  LibmpvInv'
  <1>1. /\ g' = reset(TRUE, g.serial) /\ mpv' = mpv /\ wanted' = wanted /\ overtaken' = overtaken
        /\ calls' = calls /\ ~g.up
    BY DEF libmpv_init
  <1>2. mpv = FreshMpv
    BY <1>1, InvFacts DEF Unused
  <1>3. Good(g', mpv', wanted', overtaken') /\ Derived(g') /\ g'.serial = g.serial
    BY <1>1, <1>2, InvFacts, ResetType, FreshGood
  <1> QED
    BY <1>1, <1>3, InvFacts DEF LibmpvInv
\* libmpv_deinit keeps it: mpv is gone with its queues.
LEMMA CloseInv ==
    ASSUME LibmpvInv, libmpv_deinit
    PROVE  LibmpvInv'
  <1>1. g' = reset(FALSE, g.serial) /\ mpv' = FreshMpv /\ wanted' = "none" /\ overtaken' = FALSE /\ call
    BY DEF libmpv_deinit
  <1>2. Good(g', mpv', wanted', overtaken') /\ Derived(g') /\ g'.serial = g.serial
    BY <1>1, InvFacts, ResetType, FreshGood
  <1> QED
    BY <1>1, <1>2, InvFacts, CallCounts DEF LibmpvInv, Wants

\* The media is named and its predecessor's sound let go of.
LEMMA MediaNamed ==
    ASSUME LibmpvInv, NEW uri \in {"url", "mirror"}, NEW c, NEW t,
           c = [g EXCEPT !.media = uri, !.last_error = FALSE],
           t = IF uri = "mirror" THEN [b |-> c, m |-> mpv] ELSE drop_audio([b |-> c, m |-> mpv])
    PROVE  /\ t = [b |-> t.b, m |-> t.m] /\ SideStep(c, mpv, t.b, t.m) /\ SameShown(c, t.b)
           /\ t.b.serial \in {g.serial, g.serial + 1}
           /\ mpv.cmds = <<>> => OnlyRemoves(t.m.cmds)
           /\ c.media = uri /\ c.up = g.up /\ c.stopped = g.stopped
           /\ c.file_loaded = g.file_loaded /\ c.load_pending = g.load_pending
           /\ c.hold = g.hold /\ c.deadline = g.deadline /\ c.pause = g.pause
           /\ c.unpause_pending = g.unpause_pending /\ c.play_requested = g.play_requested
           /\ c.state = g.state /\ c.seeking = g.seeking
           /\ c.paused_for_cache = g.paused_for_cache
  <1>1. g \in Backends /\ mpv \in Players /\ TracksOK(g, mpv)
    BY InvFacts
  <1>2. uri \in Media
    BY DEF Media
  <1>3. c \in Backends
    BY <1>1, <1>2 DEF Backends
  <1>4. /\ c.media = uri /\ c.up = g.up /\ c.stopped = g.stopped
        /\ c.file_loaded = g.file_loaded /\ c.load_pending = g.load_pending
        /\ c.hold = g.hold /\ c.deadline = g.deadline /\ c.pause = g.pause
        /\ c.unpause_pending = g.unpause_pending /\ c.play_requested = g.play_requested
        /\ c.state = g.state /\ c.seeking = g.seeking
        /\ c.paused_for_cache = g.paused_for_cache
        /\ c.audio_bridge = g.audio_bridge /\ c.serial = g.serial
    BY <1>1 DEF Backends
  <1>5. TracksOK(c, mpv)
    BY <1>1, <1>4 DEF TracksOK
  <1>6. CASE uri = "mirror"
    <2>1. t = [b |-> c, m |-> mpv]
      BY <1>6
    <2>2. t.b = c /\ t.m = mpv
      BY <2>1
    <2>3. SideStep(c, mpv, c, mpv) /\ SameShown(c, c)
      BY <1>1, <1>3, <1>5, SameQueues DEF SideStep, SameFile, Alike, SamePause, SameShown
    <2>4. mpv.cmds = <<>> => OnlyRemoves(mpv.cmds)
      BY DEF OnlyRemoves
    <2> QED
      BY <1>4, <2>1, <2>2, <2>3, <2>4
  <1>7. CASE uri # "mirror"
    <2>1. t = drop_audio([b |-> c, m |-> mpv])
      BY <1>7
    <2>2. t = [b |-> t.b, m |-> t.m]
      <3>1. PICK x, y : drop_audio([b |-> c, m |-> mpv]) = [b |-> x, m |-> y]
        BY DEF drop_audio, set_audio_bridge, attach_audio
      <3> QED
        BY <2>1, <3>1
    <2>3. SideStep(c, mpv, t.b, t.m) /\ SameShown(c, t.b) /\ t.b.serial \in {c.serial, c.serial + 1}
      BY <1>1, <1>3, <1>5, <2>1, DropSide
    <2>4. mpv.cmds = <<>> => OnlyRemoves(t.m.cmds)
      BY <1>1, <1>3, <1>5, <2>1, DropRemoves
    <2> QED
      BY <1>4, <2>2, <2>3, <2>4
  <1> QED
    BY <1>6, <1>7
\* libmpv_set_media keeps it, the loadfile accepted or refused.
LEMMA MediaInv ==
    ASSUME LibmpvInv, NEW uri \in {"url", "mirror"}, set_media(uri)
    PROVE  LibmpvInv'
  <1> DEFINE c == [g EXCEPT !.media = uri, !.last_error = FALSE]
             t == IF uri = "mirror" THEN [b |-> c, m |-> mpv] ELSE drop_audio([b |-> c, m |-> mpv])
             u == async_load_current(t, TRUE)
             v == [t EXCEPT !.b.media = g.media, !.b.last_error = g.last_error]
  <1>1. /\ call /\ g.up
        /\ \/ g' = u.b /\ mpv' = u.m /\ wanted' = "pause" /\ overtaken' = ~settled
           \/ g' = v.b /\ mpv' = v.m /\ wanted' = wanted /\ overtaken' = overtaken
    BY DEF set_media, commit
  <1>2. /\ t = [b |-> t.b, m |-> t.m] /\ SideStep(c, mpv, t.b, t.m) /\ SameShown(c, t.b)
        /\ t.b.serial \in {g.serial, g.serial + 1}
        /\ mpv.cmds = <<>> => OnlyRemoves(t.m.cmds)
        /\ c.media = uri /\ c.up = g.up /\ c.stopped = g.stopped
        /\ c.file_loaded = g.file_loaded /\ c.load_pending = g.load_pending
        /\ c.hold = g.hold /\ c.deadline = g.deadline /\ c.pause = g.pause
        /\ c.unpause_pending = g.unpause_pending /\ c.play_requested = g.play_requested
        /\ c.state = g.state /\ c.seeking = g.seeking
        /\ c.paused_for_cache = g.paused_for_cache
    BY MediaNamed, ZenonT(60)
  <1> HIDE DEF c, t
  <1>3. CASE g' = u.b /\ mpv' = u.m /\ wanted' = "pause" /\ overtaken' = ~settled
    <2> DEFINE b == t.b  m == t.m  x == async_load_current([b |-> b, m |-> m], TRUE)
    <2>1. x = u
      BY <1>2
    <2>2. /\ b \in Backends /\ m \in Players /\ TracksOK(b, m) /\ m.evs = mpv.evs
          /\ m.next = mpv.next /\ m.file = mpv.file /\ m.seeking = mpv.seeking
          /\ b.up = c.up /\ b.media = c.media
      BY <1>2 DEF SideStep, SameFile, Alike
    <2>3. Tale(g, m)
      BY <1>2, InvFacts, AlikeSelf, TaleKept DEF SideStep
    <2>4. b.up = TRUE
      BY <1>1, <1>2, <2>2 DEF Backends
    <2>8. Timely(overtaken') => /\ OnlyRemoves(m.cmds) /\ m.evs = <<>> /\ m.next = NoFile
                                /\ m.file \in {"idle", "playing"} /\ m.seeking = FALSE
      BY <1>2, <1>3, <2>2 DEF Timely, settled, Players
    <2> DEFINE o == overtaken'
    <2> HIDE DEF b, m, o
    <2>5. Good(x.b, x.m, "pause", o) /\ Derived(x.b) /\ x.b.serial = b.serial
      BY <1>2, <2>2, <2>3, <2>4, <2>8, LoadCurrent DEF o
    <2> HIDE DEF x
    <2>6. Good(g', mpv', wanted', overtaken') /\ Derived(g') /\ g'.serial \in {g.serial, g.serial + 1}
      BY <1>2, <1>3, <2>1, <2>5 DEF b, o
    <2>7. wanted' \in Wants /\ overtaken' \in BOOLEAN
      BY <1>3 DEF Wants
    <2> QED
      BY <1>1, <2>6, <2>7, CallCounts DEF LibmpvInv
  <1>4. CASE g' = v.b /\ mpv' = v.m /\ wanted' = wanted /\ overtaken' = overtaken
    <2> DEFINE b == t.b  m == t.m  d == [b EXCEPT !.media = g.media, !.last_error = g.last_error]
    <2>1. g' = d /\ mpv' = m
      <3>1. /\ [[b |-> b, m |-> m] EXCEPT !.b.media = g.media, !.b.last_error = g.last_error].b = d
            /\ [[b |-> b, m |-> m] EXCEPT !.b.media = g.media, !.b.last_error = g.last_error].m = m
        OBVIOUS
      <3> QED
        BY <1>2, <1>4, <3>1
    <2>2. /\ SideStep(c, mpv, b, m) /\ SameShown(c, b) /\ b \in Backends /\ m \in Players
          /\ TracksOK(b, m)
      BY <1>2 DEF SideStep
    <2>3. g \in Backends /\ g.media \in Media /\ g.last_error \in BOOLEAN
      BY InvFacts DEF Backends
    <2>4. t.b.serial = b.serial
      OBVIOUS
    <2> HIDE DEF b, m
    <2>5. /\ d \in Backends /\ d.media = g.media /\ d.last_error = g.last_error
      BY <2>2, <2>3 DEF Backends
    <2>6. /\ d.file_loaded = b.file_loaded
          /\ d.load_pending = b.load_pending /\ d.stopped = b.stopped
          /\ d.hold = b.hold /\ d.pause = b.pause /\ d.seeking = b.seeking
          /\ d.paused_for_cache = b.paused_for_cache /\ d.state = b.state
          /\ d.unpause_pending = b.unpause_pending /\ d.play_requested = b.play_requested
      BY <2>2 DEF Backends
    <2>7. /\ d.deadline = b.deadline /\ d.up = b.up
          /\ d.audio_bridge = b.audio_bridge /\ d.serial = b.serial
      BY <2>2 DEF Backends
    <2> HIDE DEF d
    <2>8. Alike(g, d) /\ SamePause(g, d) /\ SameShown(g, d)
      BY <1>2, <2>2, <2>5, <2>6 DEF Alike, SamePause, SameShown, SideStep
    <2>9. TracksOK(d, m)
      BY <2>2, <2>7 DEF TracksOK
    <2>10. SideStep(g, mpv, d, m)
      BY <1>2, <2>2, <2>5, <2>6, <2>7, <2>8, <2>9 DEF SideStep
    <2>11. Good(d, m, wanted, overtaken) /\ Derived(d)
      BY <2>8, <2>10, InvFacts, SideGood, ShownDerived
    <2>12. d.serial \in {g.serial, g.serial + 1}
      BY <1>2, <2>4, <2>7
    <2> QED
      BY <1>1, <1>4, <2>1, <2>11, <2>12, InvFacts, CallCounts DEF LibmpvInv
  <1> QED
    BY <1>1, <1>3, <1>4

\* play, while the file is still on its way: FILE_LOADED will unpause; or one
\* that mpv refused.
LEMMA PlayDeferred ==
    ASSUME LibmpvInv, g.media # "none", NEW w, NEW c \in Backends, Alike(g, c),
           c.up = g.up, c.hold = g.hold, c.hold => c.deadline, c.pause = g.pause,
           w = "play" => g.file_loaded = FALSE /\ c.unpause_pending = TRUE /\ c.play_requested = TRUE,
           c.audio_bridge = g.audio_bridge, c.serial = g.serial
    PROVE  Good(c, mpv, w, overtaken)
  <1>1. SameFile(mpv, mpv) /\ Steady(mpv, mpv)
    BY InvFacts, SameQueues DEF SameFile, Steady, Players
  <1>2. Tale(c, mpv)
    BY <1>1, InvFacts, TaleKept
  <1>3. TracksOK(c, mpv)
    BY InvFacts DEF TracksOK
  <1>4. Gate(c) /\ Unused(c, mpv)
    BY InvFacts DEF Gate, Unused, Alike
  <1>5. Sound(c, mpv)
    BY <1>2, <1>3, <1>4, InvFacts DEF Sound
  <1> SUFFICES ASSUME Timely(overtaken) PROVE Exact(c, mpv, w)
    BY <1>5 DEF Good
  <1>6. Story(c, mpv)
    BY <1>1, InvFacts, StoryKept
  <1>7. PauseOK(c, mpv)
    BY InvFacts DEF PauseOK
  <1>8. LoadedOK(c, mpv) /\ c.file_loaded = g.file_loaded
    BY <1>6 DEF Story, Alike
  <1>9. WantOK(c, mpv, w)
    BY <1>8 DEF WantOK, LoadedOK
  <1> QED
    BY <1>6, <1>7, <1>9 DEF Exact
\* libmpv_play keeps it: an unpause, one put off, or one refused.
LEMMA PlayInv ==
    ASSUME LibmpvInv, play
    PROVE  LibmpvInv'
  <1> DEFINE dl == g.deadline \/ g.hold
             b == [g EXCEPT !.last_error = FALSE, !.play_requested = TRUE,
                            !.deadline = dl, !.unpause_pending = play_deferred]
             c == [b EXCEPT !.pause = FALSE]
             n == sent(mpv, "pause", FALSE)
  <1>1. /\ call /\ g.up /\ g.media # "none" /\ overtaken' = overtaken
        /\ \/ /\ g.file_loaded = FALSE /\ play_deferred = TRUE
              /\ g' = refresh_state(b) /\ mpv' = mpv /\ wanted' = "play"
           \/ /\ g.file_loaded = TRUE /\ play_deferred = FALSE
              /\ g' = refresh_state(c) /\ mpv' = n /\ wanted' = "play"
           \/ /\ g.file_loaded = TRUE /\ play_deferred = FALSE
              /\ g' = b /\ mpv' = mpv /\ wanted' = "none"
    BY InvFacts DEF play, play_deferred, Backends
  <1>2. wanted' \in Wants
    BY <1>1 DEF Wants
  <1> SUFFICES Good(g', mpv', wanted', overtaken) /\ Derived(g') /\ g'.serial = g.serial
    BY <1>1, <1>2, InvFacts, CallCounts DEF LibmpvInv
  <1>3. g \in Backends /\ mpv \in Players /\ TracksOK(g, mpv) /\ Tale(g, mpv) /\ Gate(g) /\ Derived(g)
    BY InvFacts
  <1>4. dl \in BOOLEAN /\ (g.hold => dl) /\ play_deferred \in BOOLEAN
    BY DEF play_deferred
  <1> HIDE DEF dl, n
  <1>5. b \in Backends
    BY <1>3, <1>4 DEF Backends
  <1>6. /\ b.media = g.media /\ b.file_loaded = g.file_loaded
        /\ b.load_pending = g.load_pending /\ b.stopped = g.stopped /\ b.last_error = FALSE
        /\ b.hold = g.hold /\ b.pause = g.pause
    BY <1>3 DEF Backends
  <1>7. /\ b.up = g.up /\ b.unpause_pending = play_deferred
        /\ b.play_requested = TRUE /\ b.audio_bridge = g.audio_bridge /\ b.serial = g.serial
        /\ b.deadline = dl
    BY <1>3 DEF Backends
  <1>8. b.state = g.state /\ b.seeking = g.seeking /\ b.paused_for_cache = g.paused_for_cache
    BY <1>3 DEF Backends
  <1> HIDE DEF b
  <1>9. Alike(g, b)
    BY <1>6 DEF Alike
  <1>10. CASE g.file_loaded = FALSE /\ play_deferred = TRUE /\ g' = refresh_state(b) /\ mpv' = mpv /\ wanted' = "play"
    <2>1. Good(b, mpv, "play", overtaken)
      BY <1>1, <1>4, <1>5, <1>6, <1>7, <1>9, <1>10, PlayDeferred
    <2>2. SideStep(b, mpv, refresh_state(b), mpv) /\ Derived(refresh_state(b))
      BY <1>5, <2>1, GoodParts, SideRefresh
    <2>3. Good(refresh_state(b), mpv, "play", overtaken)
      BY <2>1, <2>2, SideGood
    <2>4. refresh_state(b).serial = g.serial
      BY <1>5, <1>7, RefreshType
    <2> QED
      BY <1>10, <2>2, <2>3, <2>4
  <1>11. CASE g.file_loaded = TRUE /\ play_deferred = FALSE /\ g' = refresh_state(c) /\ mpv' = n /\ wanted' = "play"
    <2>1. c \in Backends
      BY <1>5 DEF Backends
    <2>2. /\ c.media = b.media /\ c.file_loaded = b.file_loaded
          /\ c.load_pending = b.load_pending /\ c.stopped = b.stopped /\ c.last_error = FALSE
          /\ c.hold = b.hold /\ c.pause = FALSE
      BY <1>5, <1>6 DEF Backends
    <2>3. c.up = b.up /\ c.audio_bridge = b.audio_bridge /\ c.serial = b.serial /\ c.deadline = b.deadline
      BY <1>5 DEF Backends
    <2> HIDE DEF c
    <2>4. Alike(g, c) /\ Gate(c) /\ c.up
      BY <1>1, <1>3, <1>4, <1>6, <1>7, <2>2, <2>3 DEF Alike, Gate
    <2>5. Timely(overtaken) => Story(g, mpv) /\ ~Loading(mpv)
      BY <1>11, InvFacts DEF Story, LoadOK
    <2>6. Good(c, n, "play", overtaken)
      BY <1>1, <1>3, <1>7, <2>1, <2>2, <2>3, <2>4, <2>5, PauseSet DEF n
    <2>7. SideStep(c, n, refresh_state(c), n) /\ Derived(refresh_state(c))
      BY <2>1, <2>6, GoodParts, SideRefresh
    <2>8. Good(refresh_state(c), n, "play", overtaken)
      BY <2>6, <2>7, SideGood
    <2>9. refresh_state(c).serial = g.serial
      BY <1>7, <2>1, <2>3, RefreshType
    <2> QED
      BY <1>11, <2>7, <2>8, <2>9
  <1>12. CASE g.file_loaded = TRUE /\ play_deferred = FALSE /\ g' = b /\ mpv' = mpv /\ wanted' = "none"
    <2>1. Good(b, mpv, "none", overtaken)
      BY <1>1, <1>4, <1>5, <1>6, <1>7, <1>9, <1>12, PlayDeferred
    <2>2. g.last_error = FALSE
      BY <1>3, <1>12 DEF Tale, EndOK, Backends
    <2>3. Derived(b)
      BY <1>3, <1>6, <1>8, <2>2, ShownDerived DEF SameShown
    <2> QED
      BY <1>7, <1>12, <2>1, <2>3
  <1> QED
    BY <1>1, <1>10, <1>11, <1>12
\* libmpv_play of a stopped media keeps it, the loadfile accepted or refused.
LEMMA AgainInv ==
    ASSUME LibmpvInv, play_again
    PROVE  LibmpvInv'
  <1> DEFINE t == async_load_current([b |-> g, m |-> mpv], FALSE)
  <1>1. /\ call /\ g.up /\ g.media # "none"
        /\ \/ g' = t.b /\ mpv' = t.m /\ wanted' = "play" /\ overtaken' = ~settled
           \/ g' = g /\ mpv' = mpv /\ wanted' = wanted /\ overtaken' = overtaken
    BY DEF play_again, commit
  <1>2. g \in Backends /\ mpv \in Players /\ TracksOK(g, mpv) /\ Tale(g, mpv)
    BY InvFacts
  <1>3. CASE g' = t.b /\ mpv' = t.m /\ wanted' = "play" /\ overtaken' = ~settled
    <2>1. settled => /\ OnlyRemoves(mpv.cmds) /\ mpv.evs = <<>> /\ mpv.next = NoFile
                     /\ mpv.file \in {"idle", "playing"} /\ mpv.seeking = FALSE
      BY <1>2 DEF settled, Players, OnlyRemoves
    <2>2. g.up = TRUE /\ g.media \in {"url", "mirror"}
      BY <1>1, <1>2 DEF Backends, Media
    <2> DEFINE o == overtaken'
    <2>3. Timely(o) => settled
      BY <1>3 DEF Timely
    <2>4. o \in BOOLEAN
      BY <1>3
    <2> HIDE DEF o
    <2>5. Good(t.b, t.m, "play", o) /\ Derived(t.b) /\ t.b.serial = g.serial
      BY <1>2, <2>1, <2>2, <2>3, LoadCurrent
    <2> HIDE DEF t
    <2>6. Good(g', mpv', wanted', overtaken') /\ Derived(g') /\ g'.serial = g.serial
      BY <1>3, <2>5 DEF o
    <2>7. wanted' \in Wants /\ overtaken' \in BOOLEAN
      BY <1>3, <2>4 DEF Wants, o
    <2> QED
      BY <1>1, <2>6, <2>7, CallCounts DEF LibmpvInv
  <1>4. CASE g' = g /\ mpv' = mpv /\ wanted' = wanted /\ overtaken' = overtaken
    BY <1>1, <1>4, InvFacts, CallCounts DEF LibmpvInv, Derived, derive_state
  <1> QED
    BY <1>1, <1>3, <1>4
\* What opening the startup gate changes.
LEMMA ReleaseType ==
    ASSUME NEW b \in Backends
    PROVE  LET r == release_startup_gate(b)
           IN  /\ r \in Backends /\ r.hold = FALSE
               /\ r.media = b.media /\ r.file_loaded = b.file_loaded
               /\ r.load_pending = b.load_pending /\ r.stopped = b.stopped
               /\ r.last_error = b.last_error /\ SamePause(b, r)
               /\ r.up = b.up /\ r.audio_bridge = b.audio_bridge /\ r.serial = b.serial
  <1>1. CASE b.hold = TRUE
    <2> DEFINE r == [b EXCEPT !.hold = FALSE, !.seek_inflight = FALSE,
                              !.seek_event_seen = FALSE, !.deadline = FALSE]
    <2>1. release_startup_gate(b) = r
      BY <1>1 DEF release_startup_gate
    <2>2. r \in Backends
      BY DEF Backends
    <2>3. /\ r.hold = FALSE /\ r.media = b.media /\ r.file_loaded = b.file_loaded
          /\ r.load_pending = b.load_pending /\ r.stopped = b.stopped
          /\ r.last_error = b.last_error
      BY DEF Backends
    <2>4. /\ r.pause = b.pause /\ r.unpause_pending = b.unpause_pending
          /\ r.play_requested = b.play_requested /\ r.up = b.up
          /\ r.audio_bridge = b.audio_bridge /\ r.serial = b.serial
      BY DEF Backends
    <2> HIDE DEF r
    <2> QED
      BY <2>1, <2>2, <2>3, <2>4 DEF SamePause
  <1>2. CASE b.hold = FALSE
    <2>1. release_startup_gate(b) = b
      BY <1>2 DEF release_startup_gate
    <2> QED
      BY <1>2, <2>1 DEF SamePause
  <1> QED
    BY <1>1, <1>2 DEF Backends
\* libmpv_pause keeps it.
LEMMA PauseInv ==
    ASSUME LibmpvInv, pause
    PROVE  LibmpvInv'
  <1> DEFINE r == release_startup_gate(g)
             c == [r EXCEPT !.last_error = FALSE, !.play_requested = FALSE,
                            !.unpause_pending = FALSE, !.pause = TRUE]
             n == sent(mpv, "pause", TRUE)
  <1>1. /\ call /\ g.up /\ g.media # "none" /\ overtaken' = overtaken
        /\ \/ g' = refresh_state(c) /\ mpv' = n /\ wanted' = "pause"
           \/ g' = g /\ mpv' = mpv /\ wanted' = wanted
    BY DEF pause
  <1>2. CASE g' = g /\ mpv' = mpv /\ wanted' = wanted
    BY <1>1, <1>2, InvFacts, CallCounts DEF LibmpvInv, Derived, derive_state
  <1>13. "pause" \in Wants
    BY DEF Wants
  <1>3. g \in Backends /\ mpv \in Players /\ TracksOK(g, mpv) /\ Tale(g, mpv) /\ Gate(g)
    BY InvFacts
  <1>4. /\ r \in Backends /\ r.hold = FALSE /\ r.media = g.media /\ r.file_loaded = g.file_loaded
        /\ r.load_pending = g.load_pending /\ r.stopped = g.stopped /\ r.up = g.up
        /\ r.audio_bridge = g.audio_bridge /\ r.serial = g.serial
    BY <1>3, ReleaseType
  <1> HIDE DEF r
  <1>5. c \in Backends
    BY <1>4 DEF Backends
  <1>6. /\ c.media = r.media /\ c.file_loaded = r.file_loaded
        /\ c.load_pending = r.load_pending /\ c.stopped = r.stopped /\ c.last_error = FALSE
        /\ c.hold = r.hold /\ c.pause = TRUE
    BY <1>4 DEF Backends
  <1>7. /\ c.up = r.up /\ c.audio_bridge = r.audio_bridge /\ c.serial = r.serial
    BY <1>4 DEF Backends
  <1> HIDE DEF c
  <1>8. Alike(g, c) /\ Gate(c) /\ c.up
    BY <1>1, <1>4, <1>6, <1>7 DEF Alike, Gate
  <1>14. Timely(overtaken) => Story(g, mpv)
    BY InvFacts
  <1>9. Good(c, n, "pause", overtaken)
    BY <1>14, <1>1, <1>3, <1>4, <1>5, <1>6, <1>7, <1>8, PauseSet
  <1> HIDE DEF n
  <1>10. SideStep(c, n, refresh_state(c), n) /\ Derived(refresh_state(c))
    BY <1>5, <1>9, GoodParts, SideRefresh
  <1>11. Good(refresh_state(c), n, "pause", overtaken)
    BY <1>9, <1>10, SideGood
  <1>12. refresh_state(c).serial = g.serial
    BY <1>4, <1>5, <1>7, RefreshType
  <1> QED
    BY <1>1, <1>2, <1>10, <1>11, <1>12, <1>13, InvFacts, CallCounts DEF LibmpvInv

\* The flags of a media that is over.
LEMMA HaltFlags ==
    ASSUME NEW b \in Backends
    PROVE  [b EXCEPT !.stopped = TRUE, !.file_loaded = FALSE, !.seeking = FALSE,
                     !.paused_for_cache = FALSE, !.pause = TRUE, !.pending_seek = FALSE] \in Backends
  BY ZenonT(60) DEF Backends
\* What a stop and the end of a file leave of the backend.
LEMMA HaltedType ==
    ASSUME NEW b \in Backends
    PROVE  LET c == halted(b)
           IN  /\ c \in Backends /\ c.hold = FALSE /\ c.stopped = TRUE /\ c.file_loaded = FALSE
               /\ c.media = b.media /\ c.load_pending = b.load_pending
               /\ c.last_error = b.last_error /\ c.up = b.up
               /\ c.audio_bridge = b.audio_bridge /\ c.serial = b.serial
  <1> DEFINE r == reset_startup_gate(b)
             c == [r EXCEPT !.stopped = TRUE, !.file_loaded = FALSE, !.seeking = FALSE,
                     !.paused_for_cache = FALSE, !.pause = TRUE, !.pending_seek = FALSE]
  <1>1. halted(b) = c
    BY DEF halted
  <1>2. r \in Backends
    BY ZenonT(60) DEF reset_startup_gate, Backends
  <1>3. /\ r.hold = FALSE /\ r.media = b.media /\ r.load_pending = b.load_pending
        /\ r.last_error = b.last_error /\ r.up = b.up
        /\ r.audio_bridge = b.audio_bridge /\ r.serial = b.serial
    BY DEF reset_startup_gate, Backends
  <1> HIDE DEF r
  <1>4. c \in Backends
    BY <1>2, HaltFlags, Zenon
  <1>5. /\ c.stopped = TRUE /\ c.file_loaded = FALSE /\ c.hold = r.hold /\ c.media = r.media
        /\ c.load_pending = r.load_pending /\ c.last_error = r.last_error
    BY <1>2 DEF Backends
  <1>6. c.up = r.up /\ c.audio_bridge = r.audio_bridge /\ c.serial = r.serial
    BY <1>2 DEF Backends
  <1> HIDE DEF c
  <1>7. /\ c \in Backends /\ c.hold = FALSE /\ c.stopped = TRUE /\ c.file_loaded = FALSE
        /\ c.media = b.media /\ c.load_pending = b.load_pending
        /\ c.last_error = b.last_error /\ c.up = b.up
        /\ c.audio_bridge = b.audio_bridge /\ c.serial = b.serial
    BY <1>3, <1>4, <1>5, <1>6
  <1> QED
    BY <1>1, <1>7

\* stop: whatever was on its way, nothing will play.
LEMMA StopSet ==
    ASSUME NEW b, NEW m \in Players, Tale(b, m), TracksOK(b, m), NEW c \in Backends,
           c.media = b.media, c.media # "none", c.up, c.load_pending = FALSE,
           c.last_error = FALSE, c.stopped = TRUE, c.file_loaded = FALSE, c.hold = FALSE,
           c.audio_bridge = b.audio_bridge, c.serial = b.serial, NEW w,
           NEW o, Timely(o) => Story(b, m)
    PROVE  Good(c, sent(m, "stop", 0), w, o)
  <1> DEFINE n == sent(m, "stop", 0)  e == [op |-> "stop", arg |-> 0]
  <1>1. "stop" \in Ops /\ 0 \in Args /\ Fits("stop", 0)
    BY DEF Ops, Args, Fits
  <1>2. /\ n \in Players /\ SameButQueues(m, n) /\ n.evs = m.evs
        /\ Grown(m.cmds, n.cmds, e) /\ e.op = "stop"
    BY <1>1, SentType
  <1> HIDE DEF n, e
  <1>3. /\ Has(n.cmds, "load") <=> Has(m.cmds, "load")
        /\ Has(n.cmds, "stop")
        /\ LoadFirst(m.cmds) => LoadFirst(n.cmds)
        /\ PausesTyped(m.cmds) => PausesTyped(n.cmds)
    BY <1>2, StopSent
  <1>4. \A t : Removes(m.cmds, t) => Removes(n.cmds, t)
    BY <1>2, RemovesSent
  <1>5. /\ n.file = m.file /\ n.next = m.next /\ n.refused = m.refused /\ n.tracks = m.tracks
        /\ n.seeking = m.seeking
    BY <1>2 DEF SameButQueues
  <1>6. (Loading(n) <=> Loading(m)) /\ Dead(n)
    BY <1>3, <1>5 DEF Loading, Dead
  <1>7. FileOK(c, n) /\ RefusalOK(n)
    BY <1>2, <1>3, <1>5 DEF Tale, FileOK, RefusalOK
  <1>8. EndOK(c, n) /\ PendingOK(c, n)
    BY <1>2, <1>5 DEF Tale, EndOK, PendingOK
  <1>9. TracksOK(c, n)
    BY <1>2, <1>4, <1>5 DEF TracksOK
  <1>10. Unused(c, n) /\ Gate(c)
    BY DEF Unused, Gate
  <1>11. Sound(c, n)
    BY <1>2, <1>7, <1>8, <1>9, <1>10 DEF Sound, Tale
  <1>12. ASSUME Timely(o) PROVE Exact(c, n, w)
    <2>1. Story(b, m)
      BY <1>12
    <2>2. CommandsOK(c, n)
      BY <1>2, <1>3, <1>5, <2>1 DEF Story, CommandsOK
    <2>3. LoadOK(c, n)
      BY <1>2, <1>5, <1>6, <2>1 DEF Story, LoadOK
    <2>4. LoadedOK(c, n)
      BY <1>2, <1>5, <1>6, <2>1 DEF Story, LoadedOK
    <2>5. PauseOK(c, n) /\ WantOK(c, n, w)
      BY <1>6 DEF PauseOK, WantOK
    <2> QED
      BY <2>2, <2>3, <2>4, <2>5 DEF Exact, Story
  <1> QED
    BY <1>11, <1>12 DEF Good, n
\* libmpv_stop keeps it.
LEMMA StopInv ==
    ASSUME LibmpvInv, stop
    PROVE  LibmpvInv'
  <1> DEFINE t == drop_audio([b |-> g, m |-> mpv])  h == halted(t.b)
             c == [h EXCEPT !.load_pending = FALSE, !.last_error = FALSE]
             n == sent(t.m, "stop", 0)
  <1>1. /\ call /\ g.up /\ g.media # "none" /\ overtaken' = overtaken
        /\ \/ g' = refresh_state(c) /\ mpv' = n /\ wanted' = "stop"
           \/ g' = t.b /\ mpv' = t.m /\ wanted' = wanted
    BY DEF stop, commit
  <1>2. "stop" \in Wants
    BY DEF Wants
  <1>3. /\ SideStep(g, mpv, t.b, t.m) /\ t.b.serial \in {g.serial, g.serial + 1}
        /\ SameShown(g, t.b)
    BY InvFacts, DropSide
  <1> HIDE DEF t
  <1>4. Good(t.b, t.m, wanted, overtaken) /\ t.b.media = g.media /\ t.b.up = g.up
    BY <1>3, InvFacts, SideGood DEF SideStep, Alike
  <1>5. t.b \in Backends /\ t.m \in Players /\ Tale(t.b, t.m) /\ TracksOK(t.b, t.m)
    BY <1>4, GoodParts
  <1>13. Timely(overtaken) => Story(t.b, t.m)
    BY <1>4, GoodParts
  <1>14. CASE g' = t.b /\ mpv' = t.m /\ wanted' = wanted
    <2>1. Derived(t.b)
      BY <1>3, InvFacts, ShownDerived
    <2> QED
      BY <1>1, <1>3, <1>4, <1>14, <2>1, InvFacts, CallCounts DEF LibmpvInv
  <1>6. /\ h \in Backends /\ h.hold = FALSE /\ h.stopped = TRUE /\ h.file_loaded = FALSE
        /\ h.media = t.b.media /\ h.up = t.b.up
        /\ h.audio_bridge = t.b.audio_bridge /\ h.serial = t.b.serial
    BY <1>5, HaltedType
  <1> HIDE DEF h
  <1>7. c \in Backends
    BY <1>6 DEF Backends
  <1>8. /\ c.load_pending = FALSE /\ c.last_error = FALSE /\ c.hold = h.hold
        /\ c.stopped = h.stopped /\ c.file_loaded = h.file_loaded /\ c.media = h.media
        /\ c.up = h.up /\ c.audio_bridge = h.audio_bridge /\ c.serial = h.serial
    BY <1>6 DEF Backends
  <1> HIDE DEF c
  <1>9. Good(c, n, "stop", overtaken)
    <2>1. c.up /\ c.media = t.b.media /\ c.media # "none"
      BY <1>1, <1>4, <1>6, <1>8
    <2>2. /\ c.stopped = TRUE /\ c.file_loaded = FALSE /\ c.hold = FALSE
          /\ c.audio_bridge = t.b.audio_bridge /\ c.serial = t.b.serial
      BY <1>6, <1>8
    <2> QED
      BY <1>5, <1>13, <1>7, <1>8, <2>1, <2>2, StopSet
  <1> HIDE DEF n
  <1>10. SideStep(c, n, refresh_state(c), n) /\ Derived(refresh_state(c))
    BY <1>7, <1>9, GoodParts, SideRefresh
  <1>11. Good(refresh_state(c), n, "stop", overtaken)
    BY <1>9, <1>10, SideGood
  <1>12. refresh_state(c).serial \in {g.serial, g.serial + 1}
    BY <1>3, <1>6, <1>7, <1>8, RefreshType
  <1> QED
    BY <1>1, <1>2, <1>10, <1>11, <1>12, <1>14, InvFacts, CallCounts DEF LibmpvInv

\* A seek keeps it, sent or put off.
LEMMA SeekInv ==
    ASSUME LibmpvInv, seek_target
    PROVE  LibmpvInv'
  <1> DEFINE merged == [g EXCEPT !.seek_inflight = TRUE, !.seek_event_seen = FALSE,
                                 !.deadline = TRUE]
             b == IF g.hold THEN merged ELSE g
             d == [b EXCEPT !.pending_seek = TRUE]
             t == send_seek([b |-> b, m |-> mpv])
  <1>1. /\ call /\ wanted' = wanted /\ overtaken' = overtaken
        /\ \/ g.file_loaded = FALSE /\ g' = d /\ mpv' = mpv
           \/ g.file_loaded = TRUE /\ g' = t.b /\ mpv' = t.m
    <2>1. g.file_loaded \in BOOLEAN
      BY InvFacts DEF Backends
    <2>2. CASE g.file_loaded = FALSE
      BY <2>2 DEF seek_target, commit
    <2>3. CASE g.file_loaded = TRUE
      BY <2>3 DEF seek_target, commit
    <2> QED
      BY <2>1, <2>2, <2>3
  <1>2. g \in Backends /\ mpv \in Players /\ TracksOK(g, mpv) /\ Derived(g)
    BY InvFacts
  <1>3. merged \in Backends /\ SameShown(g, merged) /\ Alike(g, merged) /\ SamePause(g, merged)
    BY <1>2 DEF Backends, SameShown, Alike, SamePause
  <1>4. /\ merged.deadline = TRUE /\ merged.up = g.up /\ merged.audio_bridge = g.audio_bridge
        /\ merged.serial = g.serial
    BY <1>2 DEF Backends
  <1> HIDE DEF merged
  <1>5. /\ b \in Backends /\ SameShown(g, b) /\ Alike(g, b) /\ SamePause(g, b)
        /\ b.up = g.up /\ b.audio_bridge = g.audio_bridge /\ b.serial = g.serial
        /\ (g.deadline => b.deadline)
    BY <1>2, <1>3, <1>4 DEF SameShown, Alike, SamePause
  <1> HIDE DEF b
  <1>6. SameFile(mpv, mpv) /\ TracksOK(b, mpv)
    BY <1>2, <1>5, SameQueues DEF SameFile, TracksOK
  <1>7. SideStep(g, mpv, b, mpv)
    BY <1>2, <1>5, <1>6 DEF SideStep, SameShown
  <1>8. CASE g.file_loaded = FALSE /\ g' = d /\ mpv' = mpv
    <2>1. d \in Backends /\ SameShown(b, d) /\ Alike(b, d) /\ SamePause(b, d)
      BY <1>5 DEF Backends, SameShown, Alike, SamePause
    <2>2. /\ d.up = b.up /\ d.audio_bridge = b.audio_bridge /\ d.serial = b.serial
          /\ d.deadline = b.deadline
      BY <1>5 DEF Backends
    <2> HIDE DEF d
    <2>3. TracksOK(d, mpv)
      BY <1>6, <2>2 DEF TracksOK
    <2>4. SideStep(b, mpv, d, mpv)
      BY <1>2, <1>6, <2>1, <2>2, <2>3 DEF SideStep, SameShown
    <2>5. SideStep(g, mpv, d, mpv)
      BY <1>7, <2>4, SideTwice
    <2>6. Good(d, mpv, wanted, overtaken) /\ Derived(d)
      BY <1>2, <1>5, <2>1, <2>5, InvFacts, SideGood, ShownDerived
    <2> QED
      BY <1>1, <1>5, <1>8, <2>2, <2>6, InvFacts, CallCounts DEF LibmpvInv
  <1>9. CASE g.file_loaded = TRUE /\ g' = t.b /\ mpv' = t.m
    <2>1. b.file_loaded
      BY <1>5, <1>9 DEF Alike
    <2>2. SideStep(b, mpv, t.b, t.m) /\ Derived(t.b) /\ t.b.serial = b.serial
      BY <1>2, <1>5, <1>6, <2>1, SeekSide
    <2> HIDE DEF t
    <2>3. SideStep(g, mpv, t.b, t.m)
      BY <1>7, <2>2, SideTwice
    <2>4. Good(t.b, t.m, wanted, overtaken)
      BY <2>3, InvFacts, SideGood
    <2> QED
      BY <1>1, <1>5, <1>9, <2>2, <2>4, InvFacts, CallCounts DEF LibmpvInv
  <1> QED
    BY <1>1, <1>8, <1>9
\* libmpv_release_expired_startup_gate keeps it.
LEMMA ExpireInv ==
    ASSUME LibmpvInv, release_expired_startup_gate
    PROVE  LibmpvInv'
  <1> DEFINE r == release_startup_gate(g)
  <1>1. g' = refresh_state(r) /\ mpv' = mpv /\ wanted' = wanted /\ calls' = calls
        /\ overtaken' = overtaken
    BY DEF release_expired_startup_gate
  <1>2. g \in Backends /\ mpv \in Players /\ TracksOK(g, mpv) /\ Unused(g, mpv)
    BY InvFacts
  <1>3. /\ r \in Backends /\ r.hold = FALSE /\ r.media = g.media /\ r.file_loaded = g.file_loaded
        /\ r.load_pending = g.load_pending /\ r.stopped = g.stopped
        /\ r.last_error = g.last_error /\ SamePause(g, r)
        /\ r.up = g.up /\ r.audio_bridge = g.audio_bridge /\ r.serial = g.serial
    BY <1>2, ReleaseType
  <1> HIDE DEF r
  <1>4. Alike(g, r) /\ Gate(r) /\ SameFile(mpv, mpv) /\ Steady(mpv, mpv)
    BY <1>2, <1>3, SameQueues DEF Alike, Gate, SameFile, Steady, Players
  <1>5. TracksOK(r, mpv) /\ Unused(r, mpv)
    BY <1>2, <1>3 DEF TracksOK, Unused
  <1>6. Good(r, mpv, wanted, overtaken)
    BY <1>2, <1>3, <1>4, <1>5, InvFacts, GoodKept
  <1>7. SideStep(r, mpv, refresh_state(r), mpv) /\ Derived(refresh_state(r))
    BY <1>2, <1>3, <1>5, SideRefresh
  <1>8. Good(refresh_state(r), mpv, wanted, overtaken) /\ refresh_state(r).serial = g.serial
    BY <1>3, <1>6, <1>7, SideGood, RefreshType
  <1> QED
    BY <1>1, <1>7, <1>8, InvFacts DEF LibmpvInv

-----------------------------------------------------------------------------
(* Libmpv: the events. *)

\* The end of most handlers: the state is derived anew.
LEMMA ShownFor ==
    ASSUME LibmpvInv, NEW c, NEW n, NEW w \in Wants, Good(c, n, w, overtaken),
           c.serial = g.serial, g' = refresh_state(c), mpv' = n, wanted' = w,
           UNCHANGED <<overtaken, calls>>
    PROVE  LibmpvInv'
  <1>1. SideStep(c, n, refresh_state(c), n) /\ Derived(refresh_state(c))
    BY GoodParts, SideRefresh
  <1>2. Good(refresh_state(c), n, w, overtaken) /\ refresh_state(c).serial = g.serial
    BY <1>1, GoodParts, SideGood, RefreshType
  <1> QED
    BY <1>1, <1>2, InvFacts DEF LibmpvInv
\* What was asked of the media is the same.
LEMMA ShownInv ==
    ASSUME LibmpvInv, NEW c, NEW n, Good(c, n, wanted, overtaken), c.serial = g.serial,
           g' = refresh_state(c), mpv' = n, UNCHANGED <<wanted, overtaken, calls>>
    PROVE  LibmpvInv'
  BY InvFacts, ShownFor
\* What the backend hears, and what is left to hear.
LEMMA Hears ==
    ASSUME LibmpvInv, mpv.evs # <<>>, NEW n, n = heard(mpv)
    PROVE  /\ n \in Players /\ n.cmds = mpv.cmds /\ n.changed = mpv.changed
           /\ n.file = mpv.file /\ n.next = mpv.next /\ n.pause = mpv.pause
           /\ n.seeking = mpv.seeking /\ n.refused = mpv.refused /\ n.tracks = mpv.tracks
           /\ Shrunk(mpv.evs, n.evs) /\ Head(mpv.evs) \in Events
           /\ g.media # "none" /\ g.up
           /\ (Loading(n) <=> Loading(mpv)) /\ (Dead(n) <=> Dead(mpv))
           /\ \A v : WillPause(n, v) <=> WillPause(mpv, v)
           /\ Head(mpv.evs).id # "ADDED" => TracksOK(g, n)
  <1>1. mpv \in Players /\ TracksOK(g, mpv) /\ Good(g, mpv, wanted, overtaken)
    BY InvFacts
  <1>2. /\ n \in Players /\ SameButQueues(mpv, n) /\ n.cmds = mpv.cmds
        /\ Shrunk(mpv.evs, n.evs) /\ Head(mpv.evs) \in Events
    BY <1>1, HeardType
  <1>3. /\ n.changed = mpv.changed
        /\ n.file = mpv.file /\ n.next = mpv.next /\ n.pause = mpv.pause
        /\ n.seeking = mpv.seeking /\ n.refused = mpv.refused /\ n.tracks = mpv.tracks
    BY <1>2 DEF SameButQueues
  <1>4. g.media # "none" /\ g.up
    BY <1>1, Busy, GoodParts DEF Unused
  <1>5. Loading(n) <=> Loading(mpv)
    BY <1>2, <1>3 DEF Loading
  <1>6. Dead(n) <=> Dead(mpv)
    BY <1>2, <1>3, <1>5 DEF Dead
  <1>7. \A v : WillPause(n, v) <=> WillPause(mpv, v)
    BY <1>2, <1>3 DEF WillPause
  <1>8. \A t : Adds(mpv.evs, t) => Adds(n.evs, t) \/ Head(mpv.evs).id = "ADDED"
    BY <1>2, EventHeard
  <1>9. Head(mpv.evs).id # "ADDED" => TracksOK(g, n)
    BY <1>1, <1>2, <1>3, <1>8 DEF TracksOK
  <1> QED
    BY <1>2, <1>3, <1>4, <1>5, <1>6, <1>7, <1>9

\* START_FILE: the load has become a file.
LEMMA StartInv ==
    ASSUME LibmpvInv, mpv.evs # <<>>, Head(mpv.evs).id = "START_FILE", START_FILE,
           UNCHANGED <<wanted, overtaken, calls>>
    PROVE  LibmpvInv'
  <1> DEFINE c == [g EXCEPT !.last_error = FALSE, !.stopped = FALSE,
                     !.file_loaded = FALSE, !.load_pending = FALSE, !.seeking = FALSE]
             n == heard(mpv)
  <1>1. g' = refresh_state(c) /\ mpv' = n
    BY DEF START_FILE
  <1>2. /\ g \in Backends /\ mpv \in Players /\ Tale(g, mpv) /\ Gate(g)
    BY InvFacts
  <1>3. /\ n \in Players /\ n.cmds = mpv.cmds /\ n.changed = mpv.changed
        /\ n.file = mpv.file /\ n.next = mpv.next /\ n.pause = mpv.pause
        /\ n.seeking = mpv.seeking /\ n.refused = mpv.refused
        /\ Shrunk(mpv.evs, n.evs) /\ g.media # "none" /\ g.up
        /\ (Loading(n) <=> Loading(mpv)) /\ (Dead(n) <=> Dead(mpv))
        /\ \A v : WillPause(n, v) <=> WillPause(mpv, v)
        /\ TracksOK(g, n)
    BY Hears
  <1> HIDE DEF n
  <1>4. c \in Backends
    BY <1>2, ZenonT(60) DEF Backends
  <1>5. /\ c.last_error = FALSE /\ c.stopped = FALSE /\ c.file_loaded = FALSE
        /\ c.load_pending = FALSE /\ c.media = g.media /\ c.up = g.up
        /\ c.hold = g.hold /\ c.deadline = g.deadline
    BY <1>2 DEF Backends
  <1>6. /\ c.pause = g.pause /\ c.unpause_pending = g.unpause_pending
        /\ c.play_requested = g.play_requested
        /\ c.audio_bridge = g.audio_bridge /\ c.serial = g.serial
    BY <1>2 DEF Backends
  <1> HIDE DEF c
  <1>7. "START_FILE" \in Alive /\ "START_FILE" \in Life
    BY DEF Alive, Life
  <1>8. /\ Tells(mpv.evs, "START_FILE") /\ ~NoneAlive(mpv.evs) /\ ~NoLife(mpv.evs)
        /\ StartFirst(mpv.evs) => ~Tells(n.evs, "START_FILE") /\ StartFirst(n.evs)
        /\ Tells(n.evs, "FILE_LOADED") <=> Tells(mpv.evs, "FILE_LOADED")
        /\ Refuses(n.evs) => Refuses(mpv.evs)
        /\ LastLife(mpv.evs, {"END_FILE"}) => LastLife(n.evs, {"END_FILE"})
        /\ LastLife(mpv.evs, Alive) => LastLife(n.evs, Alive) \/ NoLife(n.evs)
        /\ EndStarts(mpv.evs) => EndStarts(n.evs)
        /\ RestartStarts(mpv.evs) => RestartStarts(n.evs)
        /\ RefusedStarts(mpv.evs) => RefusedStarts(n.evs)
    BY <1>3, <1>7, EventHeard
  <1>9. FileOK(c, n)
    BY <1>2, <1>3, <1>5, <1>8 DEF Tale, FileOK
  <1>10. EndOK(c, n) /\ PendingOK(c, n) /\ RefusalOK(n)
    BY <1>2, <1>3, <1>5, <1>8 DEF Tale, EndOK, PendingOK, RefusalOK
  <1>11. TracksOK(c, n)
    BY <1>3, <1>6 DEF TracksOK
  <1>12. Unused(c, n) /\ Gate(c)
    BY <1>2, <1>3, <1>5 DEF Unused, Gate
  <1>13. Sound(c, n)
    BY <1>3, <1>4, <1>9, <1>10, <1>11, <1>12 DEF Sound, Tale
  <1>14. ASSUME Timely(overtaken) PROVE Exact(c, n, wanted)
    <2>1. Story(g, mpv) /\ PauseOK(g, mpv) /\ WantOK(g, mpv, wanted)
      BY <1>14, InvFacts
    <2>2. ~Loading(mpv) /\ ~Refuses(mpv.evs)
      BY <1>8, <2>1 DEF Story, LoadOK
    <2>3. CommandsOK(c, n) /\ LoadOK(c, n)
      BY <1>3, <1>5, <1>8, <2>1, <2>2 DEF Story, CommandsOK, LoadOK
    <2>4. Dead(n) \/ n.file # "idle"
      BY <1>3, <2>2 DEF Dead
    <2>5. LoadedOK(c, n)
      BY <1>3, <1>8, <2>1, <2>4 DEF Story, LoadedOK
    <2>6. PauseOK(c, n)
      BY <1>3, <1>6, <2>1 DEF PauseOK
    <2>7. WantOK(c, n, wanted)
      BY <1>3, <1>6, <1>8, <2>1 DEF WantOK
    <2> QED
      BY <2>3, <2>5, <2>6, <2>7 DEF Exact, Story
  <1>15. Good(c, n, wanted, overtaken)
    BY <1>13, <1>14 DEF Good
  <1> QED
    BY <1>1, <1>6, <1>15, ShownInv


\* An event that says nothing of the file.
LEMMA AsideHeard ==
    ASSUME LibmpvInv, mpv.evs # <<>>, Head(mpv.evs).id \notin Life, NEW n, n = heard(mpv)
    PROVE  /\ ~(Head(mpv.evs).id = "REPLY_FAILED" /\ Head(mpv.evs).arg = "load") => SameFile(mpv, n)
           /\ SameEvents(mpv.evs, n.evs)
           /\ Steady(mpv, n)
  <1>1. /\ n \in Players /\ n.cmds = mpv.cmds /\ n.changed = mpv.changed
        /\ n.file = mpv.file /\ n.next = mpv.next /\ n.pause = mpv.pause
        /\ n.seeking = mpv.seeking /\ n.refused = mpv.refused
        /\ Shrunk(mpv.evs, n.evs)
    BY Hears
  <1>2. SameEvents(mpv.evs, n.evs)
    BY <1>1, OtherHeard
  <1>3. /\ Refuses(n.evs) => Refuses(mpv.evs)
        /\ Refuses(mpv.evs) =>
              Refuses(n.evs) \/ (Head(mpv.evs).id = "REPLY_FAILED" /\ Head(mpv.evs).arg = "load")
        /\ RefusedStarts(mpv.evs) => RefusedStarts(n.evs)
    BY <1>1, EventHeard
  <1>4. ASSUME ~(Head(mpv.evs).id = "REPLY_FAILED" /\ Head(mpv.evs).arg = "load")
        PROVE  SameFile(mpv, n)
    BY <1>1, <1>2, <1>3, <1>4, SameQueues DEF SameFile
  <1>5. Steady(mpv, n)
    BY <1>1 DEF Steady, Players
  <1> QED
    BY <1>2, <1>4, <1>5
\* SEEK: the gate may learn of the seek it waits for.
LEMMA SeekHeard ==
    ASSUME LibmpvInv, mpv.evs # <<>>, Head(mpv.evs).id = "SEEK", SEEK, UNCHANGED <<wanted, overtaken, calls>>
    PROVE  LibmpvInv'
  <1> DEFINE v == g.seek_event_seen \/ (g.hold /\ g.seek_inflight)
             c == [g EXCEPT !.seeking = TRUE, !.seek_event_seen = v]
             n == heard(mpv)
  <1>1. g' = refresh_state(c) /\ mpv' = n
    BY DEF SEEK
  <1>2. v \in BOOLEAN
    OBVIOUS
  <1> HIDE DEF v
  <1>3. g \in Backends /\ Gate(g) /\ Unused(g, mpv)
    BY InvFacts
  <1>4. n \in Players /\ TracksOK(g, n) /\ g.media # "none"
    BY Hears
  <1>5. Head(mpv.evs).id \notin Life
    BY DEF Life, Alive
  <1>6. SameFile(mpv, n) /\ Steady(mpv, n)
    BY <1>5, AsideHeard
  <1> HIDE DEF n
  <1>7. c \in Backends /\ Alike(g, c) /\ SamePause(g, c)
    BY <1>2, <1>3 DEF Backends, Alike, SamePause
  <1>8. /\ c.hold = g.hold /\ c.deadline = g.deadline /\ c.up = g.up
        /\ c.audio_bridge = g.audio_bridge /\ c.serial = g.serial
        /\ c.stopped = g.stopped /\ c.media = g.media
    BY <1>3 DEF Backends
  <1> HIDE DEF c
  <1>9. Gate(c) /\ Unused(c, n) /\ TracksOK(c, n)
    BY <1>3, <1>4, <1>8 DEF Gate, Unused, TracksOK
  <1>10. Good(c, n, wanted, overtaken)
    BY <1>4, <1>6, <1>7, <1>9, InvFacts, GoodKept
  <1> QED
    BY <1>1, <1>8, <1>10, ShownInv
\* END_FILE: of a file that was replaced, or of the one that is over.
LEMMA EndInv ==
    ASSUME LibmpvInv, mpv.evs # <<>>, Head(mpv.evs).id = "END_FILE", NEW reason, END_FILE(reason),
           UNCHANGED <<wanted, overtaken, calls>>
    PROVE  LibmpvInv'
  <1> DEFINE n == heard(mpv)
  <1>1. /\ g \in Backends /\ mpv \in Players /\ Tale(g, mpv) /\ Gate(g)
    BY InvFacts
  <1>2. /\ n \in Players /\ n.cmds = mpv.cmds /\ n.changed = mpv.changed
        /\ n.file = mpv.file /\ n.next = mpv.next /\ n.pause = mpv.pause
        /\ n.seeking = mpv.seeking /\ n.refused = mpv.refused
        /\ Shrunk(mpv.evs, n.evs) /\ g.media # "none" /\ g.up
        /\ (Loading(n) <=> Loading(mpv)) /\ (Dead(n) <=> Dead(mpv))
        /\ \A v : WillPause(n, v) <=> WillPause(mpv, v)
        /\ TracksOK(g, n)
    BY Hears
  <1>3. mpv' = n
    BY DEF END_FILE
  <1> HIDE DEF n
  <1>4. "END_FILE" \in Life /\ "END_FILE" \notin Alive
    BY DEF Alive, Life
  <1>5. /\ ~NoLife(mpv.evs)
        /\ StartFirst(mpv.evs) => StartFirst(n.evs)
        /\ Tells(n.evs, "START_FILE") <=> Tells(mpv.evs, "START_FILE")
        /\ Tells(n.evs, "FILE_LOADED") <=> Tells(mpv.evs, "FILE_LOADED")
        /\ Refuses(n.evs) <=> Refuses(mpv.evs)
        /\ NoneAlive(mpv.evs) => NoneAlive(n.evs)
        /\ RefusedStarts(mpv.evs) => RefusedStarts(n.evs)
        /\ RestartLater(mpv.evs) => RestartLater(n.evs)
    BY <1>2, <1>4, EventHeard
  <1>6. /\ LastLife(mpv.evs, {"END_FILE"}) => LastLife(n.evs, {"END_FILE"}) \/ NoLife(n.evs)
        /\ LastLife(mpv.evs, Alive) => LastLife(n.evs, Alive)
        /\ EndStarts(mpv.evs) => EndStarts(n.evs) /\ Tells(n.evs, "START_FILE")
        /\ RestartStarts(mpv.evs) => RestartStarts(n.evs) /\ RestartLater(n.evs)
    BY <1>2, <1>4, EventHeard
  <1>7. CASE g.load_pending = TRUE
    <2>1. g' = g
      BY <1>7 DEF END_FILE, replaced_previous
    <2>2. FileOK(g, n)
      BY <1>1, <1>2, <1>5, <1>6, <1>7 DEF Tale, FileOK
    <2>3. EndOK(g, n)
      BY <1>1, <1>2, <1>5, <1>6 DEF Tale, EndOK
    <2>4. PendingOK(g, n) /\ RefusalOK(n)
      BY <1>1, <1>2, <1>5 DEF Tale, PendingOK, RefusalOK
    <2>5. Unused(g, n)
      BY <1>2 DEF Unused
    <2>6. Sound(g, n)
      BY <1>1, <1>2, <2>2, <2>3, <2>4, <2>5 DEF Sound, Tale
    <2>7. ASSUME Timely(overtaken) PROVE Exact(g, n, wanted)
      <3>1. Story(g, mpv) /\ PauseOK(g, mpv) /\ WantOK(g, mpv, wanted)
        BY <2>7, InvFacts
      <3>2. CommandsOK(g, n) /\ LoadOK(g, n)
        BY <1>2, <1>5, <3>1 DEF Story, CommandsOK, LoadOK
      <3>3. LoadedOK(g, n)
        BY <1>2, <1>5, <3>1 DEF Story, LoadedOK
      <3>4. PauseOK(g, n) /\ WantOK(g, n, wanted)
        BY <1>2, <1>5, <3>1 DEF PauseOK, WantOK
      <3> QED
        BY <3>2, <3>3, <3>4 DEF Exact, Story
    <2>8. Good(g, n, wanted, overtaken)
      BY <2>6, <2>7 DEF Good
    <2> QED
      BY <1>3, <2>1, <2>8, InvFacts DEF LibmpvInv, Derived, derive_state
  <1>8. CASE g.load_pending = FALSE
    <2> DEFINE v == (reason = "error")  h == halted(g)
               c == [h EXCEPT !.last_error = v]
    <2>1. g' = refresh_state(c)
      BY <1>8 DEF END_FILE, replaced_previous
    <2>2. v \in BOOLEAN
      OBVIOUS
    <2>3. /\ h \in Backends /\ h.hold = FALSE /\ h.stopped = TRUE /\ h.file_loaded = FALSE
          /\ h.media = g.media /\ h.load_pending = g.load_pending /\ h.up = g.up
          /\ h.audio_bridge = g.audio_bridge /\ h.serial = g.serial
      BY <1>1, HaltedType
    <2> HIDE DEF v, h
    <2>4. c \in Backends
      BY <2>2, <2>3 DEF Backends
    <2>5. /\ c.hold = h.hold /\ c.stopped = h.stopped /\ c.file_loaded = h.file_loaded
          /\ c.media = h.media /\ c.load_pending = h.load_pending
      BY <2>3 DEF Backends
    <2>6. c.up = h.up /\ c.audio_bridge = h.audio_bridge /\ c.serial = h.serial
      BY <2>3 DEF Backends
    <2> HIDE DEF c
    <2>7. FileOK(c, n)
      BY <1>1, <1>2, <1>5, <1>6, <2>3, <2>5 DEF Tale, FileOK
    <2>8. EndOK(c, n)
      BY <1>1, <1>2, <1>6, <2>3, <2>5 DEF Tale, EndOK
    <2>9. PendingOK(c, n) /\ RefusalOK(n)
      BY <1>1, <1>2, <1>5, <1>8, <2>3, <2>5 DEF Tale, PendingOK, RefusalOK
    <2>10. Unused(c, n) /\ Gate(c) /\ TracksOK(c, n)
      BY <1>2, <2>3, <2>5, <2>6 DEF Unused, Gate, TracksOK
    <2>11. Sound(c, n)
      BY <1>2, <2>4, <2>7, <2>8, <2>9, <2>10 DEF Sound, Tale
    <2>12. ASSUME Timely(overtaken) PROVE Exact(c, n, wanted)
      <3>1. Story(g, mpv)
        BY <2>12, InvFacts
      <3>2. Dead(n)
        <4>1. CASE mpv.file # "idle"
          BY <1>1, <1>2, <1>5, <1>6, <1>8, <3>1, <4>1 DEF Tale, EndOK, Story, LoadOK
        <4>2. CASE mpv.file = "idle"
          BY <1>2, <1>8, <3>1, <4>2 DEF Story, LoadOK, Dead
        <4> QED
          BY <4>1, <4>2
      <3>3. CommandsOK(c, n)
        BY <1>2, <1>8, <2>3, <2>5, <3>1 DEF Story, CommandsOK
      <3>4. LoadOK(c, n)
        BY <1>2, <1>5, <1>8, <2>3, <2>5, <3>1, <3>2 DEF Story, LoadOK
      <3>5. LoadedOK(c, n)
        BY <1>2, <1>5, <3>1, <3>2 DEF Story, LoadedOK
      <3>6. PauseOK(c, n) /\ WantOK(c, n, wanted)
        BY <3>2 DEF PauseOK, WantOK
      <3> QED
        BY <3>3, <3>4, <3>5, <3>6 DEF Exact, Story
    <2>13. Good(c, n, wanted, overtaken)
      BY <2>11, <2>12 DEF Good
    <2> QED
      BY <1>3, <2>1, <2>3, <2>6, <2>13, ShownInv
  <1> QED
    BY <1>1, <1>7, <1>8 DEF Backends

\* REPLY_FAILED: mpv refused the loadfile, a seek or something else.
LEMMA FailedInv ==
    ASSUME LibmpvInv, mpv.evs # <<>>, Head(mpv.evs).id = "REPLY_FAILED", NEW op,
           op = Head(mpv.evs).arg, REPLY_FAILED(op), UNCHANGED <<wanted, overtaken, calls>>
    PROVE  LibmpvInv'
  <1> DEFINE s == g.seeking /\ op # "seek"  l == g.load_pending /\ op # "load"
             c == [g EXCEPT !.seeking = s, !.load_pending = l]
             n == heard(mpv)
  <1>1. g' = refresh_state(c) /\ mpv' = n
    BY DEF REPLY_FAILED
  <1>2. s \in BOOLEAN /\ l \in BOOLEAN
    OBVIOUS
  <1>3. g \in Backends /\ Gate(g) /\ Tale(g, mpv)
    BY InvFacts
  <1>4. /\ n \in Players /\ n.cmds = mpv.cmds /\ n.changed = mpv.changed
        /\ n.file = mpv.file /\ n.next = mpv.next /\ n.pause = mpv.pause
        /\ n.seeking = mpv.seeking /\ n.refused = mpv.refused
        /\ Shrunk(mpv.evs, n.evs) /\ g.media # "none" /\ g.up
        /\ (Loading(n) <=> Loading(mpv)) /\ (Dead(n) <=> Dead(mpv))
        /\ \A v : WillPause(n, v) <=> WillPause(mpv, v)
        /\ TracksOK(g, n)
    BY Hears
  <1>5. Head(mpv.evs).id \notin Life
    BY DEF Life, Alive
  <1>6. /\ op # "load" => SameFile(mpv, n)
        /\ SameEvents(mpv.evs, n.evs) /\ Steady(mpv, n)
    BY <1>5, AsideHeard
  <1>7. op # "load" => l = g.load_pending
    BY <1>3 DEF Backends
  <1>8. op = "load" => l = FALSE
    OBVIOUS
  <1> HIDE DEF n, s, l
  <1>9. c \in Backends
    BY <1>2, <1>3 DEF Backends
  <1>10. /\ c.load_pending = l /\ c.media = g.media /\ c.file_loaded = g.file_loaded
         /\ c.stopped = g.stopped /\ c.last_error = g.last_error
    BY <1>3 DEF Backends
  <1>11. SamePause(g, c) /\ c.hold = g.hold /\ c.deadline = g.deadline
    BY <1>3 DEF Backends, SamePause
  <1>12. c.up = g.up /\ c.audio_bridge = g.audio_bridge /\ c.serial = g.serial
    BY <1>3 DEF Backends
  <1> HIDE DEF c
  <1>13. Gate(c) /\ Unused(c, n) /\ TracksOK(c, n)
    BY <1>3, <1>4, <1>10, <1>11, <1>12 DEF Gate, Unused, TracksOK
  <1>14. CASE op # "load"
    <2>1. Alike(g, c) /\ SameFile(mpv, n) /\ Steady(mpv, n)
      BY <1>6, <1>7, <1>10, <1>14 DEF Alike
    <2>2. Good(c, n, wanted, overtaken)
      BY <1>4, <1>9, <1>11, <1>13, <2>1, InvFacts, GoodKept
    <2> QED
      BY <1>1, <1>12, <2>2, ShownInv
  <1>15. CASE op = "load"
    <2>1. /\ Refuses(mpv.evs)
          /\ Refuses(n.evs) => Refuses(mpv.evs)
          /\ RefusedStarts(mpv.evs) => RefusedStarts(n.evs) /\ Tells(n.evs, "START_FILE")
      BY <1>4, <1>15, EventHeard
    <2>2. c.load_pending = FALSE
      BY <1>8, <1>10, <1>15
    <2>3. Tells(n.evs, "START_FILE") => ~NoLife(n.evs) /\ ~NoLife(mpv.evs)
      BY <1>6 DEF Tells, NoLife, Life, Alive, SameEvents
    <2>4. FileOK(c, n)
      <3>1. Alive \subseteq Life /\ {"END_FILE"} \subseteq Life
        BY DEF Alive, Life
      <3> QED
        BY <1>3, <1>4, <1>6, <2>1, <2>3, <3>1 DEF Tale, RefusalOK, FileOK, SameEvents
    <2>5. EndOK(c, n)
      BY <1>3, <1>4, <1>6, <1>10 DEF Tale, EndOK, SameEvents
    <2>6. PendingOK(c, n) /\ RefusalOK(n)
      BY <1>3, <1>4, <2>1, <2>2 DEF Tale, PendingOK, RefusalOK
    <2>7. Sound(c, n)
      BY <1>4, <1>9, <1>13, <2>4, <2>5, <2>6 DEF Sound, Tale
    <2>8. ASSUME Timely(overtaken) PROVE Exact(c, n, wanted)
      <3>1. Story(g, mpv)
        BY <2>8, InvFacts
      <3>2. mpv.refused /\ ~Loading(mpv) /\ ~Tells(mpv.evs, "START_FILE")
        BY <2>1, <3>1 DEF Story, LoadOK
      <3>3. Dead(n)
        BY <1>4, <3>2 DEF Dead
      <3>4. ~Tells(n.evs, "START_FILE") /\ (StartFirst(mpv.evs) => StartFirst(n.evs))
        BY <1>6, <3>2 DEF SameEvents
      <3>5. CommandsOK(c, n)
        BY <1>4, <2>2, <3>1 DEF Story, CommandsOK
      <3>6. LoadOK(c, n)
        BY <1>4, <2>2, <3>1, <3>2, <3>3, <3>4 DEF Story, LoadOK
      <3>7. LoadedOK(c, n) /\ PauseOK(c, n) /\ WantOK(c, n, wanted)
        BY <3>3, <3>4 DEF LoadedOK, PauseOK, WantOK
      <3> QED
        BY <3>5, <3>6, <3>7 DEF Exact, Story
    <2>9. Good(c, n, wanted, overtaken)
      BY <2>7, <2>8 DEF Good
    <2> QED
      BY <1>1, <1>12, <2>9, ShownInv
  <1> QED
    BY <1>14, <1>15
\* The replies about a track: one that nobody asks for any more is removed.
LEMMA ReplyInv ==
    ASSUME LibmpvInv, mpv.evs # <<>>,
           Head(mpv.evs).id \in {"ADDED", "ADD_FAILED", "SELECTED", "SELECT_FAILED"},
           audio_reply(Head(mpv.evs).id, Head(mpv.evs).arg), UNCHANGED <<wanted, overtaken, calls>>
    PROVE  LibmpvInv'
  <1> DEFINE n == heard(mpv)  id == Head(mpv.evs).id  s == Head(mpv.evs).arg
             p == sent(n, "audio-remove", s)  q == sent(n, "aid", s)
  <1>1. /\ g' = g
        /\ \/ id \in {"ADDED", "ADD_FAILED"} /\ obsolete(s) /\ s \in n.tracks /\ mpv' = p
           \/ id = "ADDED" /\ ~obsolete(s) /\ s \in n.tracks /\ mpv' = q
           \/ id = "ADDED" /\ obsolete(s) /\ s \notin n.tracks /\ mpv' = n
           \/ id = "ADDED" /\ ~obsolete(s) /\ s \notin n.tracks /\ mpv' = n
           \/ id # "ADDED" /\ mpv' = n
    <2>1. g' = g
      BY DEF audio_reply
    <2>2. CASE id \in {"ADDED", "ADD_FAILED"} /\ obsolete(s)
      BY <2>1, <2>2 DEF audio_reply, remove_audio
    <2>3. CASE id = "ADDED" /\ ~obsolete(s)
      BY <2>1, <2>3 DEF audio_reply
    <2>4. CASE id # "ADDED" /\ ~(id = "ADD_FAILED" /\ obsolete(s))
      BY <2>1, <2>4 DEF audio_reply
    <2> QED
      BY <2>2, <2>3, <2>4
  <1>2. g \in Backends /\ Gate(g) /\ TracksOK(g, mpv)
    BY InvFacts
  <1>3. /\ n \in Players /\ n.cmds = mpv.cmds /\ n.tracks = mpv.tracks
        /\ Shrunk(mpv.evs, n.evs) /\ g.media # "none" /\ g.up
        /\ id # "ADDED" => TracksOK(g, n)
    BY Hears
  <1>4. Head(mpv.evs).id \notin Life
    BY DEF Life, Alive
  <1>5. SameFile(mpv, n) /\ Steady(mpv, n)
    BY <1>4, AsideHeard
  <1>6. \A t : Adds(mpv.evs, t) => Adds(n.evs, t) \/ (id = "ADDED" /\ s = t)
    BY <1>3, EventHeard
  <1> HIDE DEF n, id, s
  <1>7. \A t \in n.tracks : (g.audio_bridge /\ t = g.serial) \/ Removes(n.cmds, t)
                            \/ Adds(n.evs, t) \/ (id = "ADDED" /\ t = s)
    BY <1>2, <1>3, <1>6 DEF TracksOK
  <1> SUFFICES Good(g, mpv', wanted, overtaken)
    BY <1>1, InvFacts DEF LibmpvInv, Derived, derive_state
  <1>8. Alike(g, g) /\ SamePause(g, g)
    BY AlikeSelf
  <1>9. n.tracks \subseteq Nat
    BY <1>3 DEF Players
  <1>10. ~obsolete(s) => TracksOK(g, n)
    BY <1>7 DEF TracksOK, obsolete
  <1>11. s \notin n.tracks => TracksOK(g, n)
    BY <1>7 DEF TracksOK
  <1>12. ASSUME TracksOK(g, n), mpv' = n PROVE Good(g, mpv', wanted, overtaken)
    BY <1>2, <1>3, <1>5, <1>8, <1>12, InvFacts, GoodKept DEF Unused
  <1>13. CASE obsolete(s) /\ s \in n.tracks /\ mpv' = p
    <2> DEFINE e == [op |-> "audio-remove", arg |-> s]
    <2>1. "audio-remove" \in Ops /\ s \in Args /\ s \in Nat /\ Fits("audio-remove", s)
      BY <1>9, <1>13 DEF Ops, Args, Fits
    <2>2. /\ p \in Players /\ SameButQueues(n, p) /\ p.evs = n.evs
          /\ Grown(n.cmds, p.cmds, e) /\ e.op = "audio-remove" /\ e.arg = s
      BY <1>3, <2>1, SentType
    <2> HIDE DEF p, e
    <2>3. SameCommands(n.cmds, p.cmds)
      BY <2>2, PlainSent DEF Plain
    <2>4. SameFile(n, p)
      BY <2>2, <2>3, SameQueues DEF SameFile, SameButQueues
    <2>5. Removes(p.cmds, s) /\ \A t : Removes(n.cmds, t) => Removes(p.cmds, t)
      BY <2>2, RemovesSent
    <2>6. TracksOK(g, p)
      BY <1>7, <2>2, <2>5 DEF TracksOK, SameButQueues
    <2>7. SameFile(mpv, p) /\ Steady(mpv, p)
      <3>1. p.seeking = n.seeking
        BY <2>2 DEF SameButQueues
      <3> QED
        BY <1>5, <2>3, <2>4, <3>1, SameFileTwice DEF Steady, SameCommands
    <2>8. Unused(g, p)
      BY <1>3 DEF Unused
    <2> QED
      BY <1>2, <1>8, <1>13, <2>2, <2>6, <2>7, <2>8, InvFacts, GoodKept
  <1>14. CASE ~obsolete(s) /\ s \in n.tracks /\ mpv' = q
    <2>1. "aid" \in Plain /\ s \in Nat
      BY <1>9, <1>14 DEF Plain
    <2>2. /\ q \in Players /\ SameButQueues(n, q) /\ SameFile(n, q) /\ TracksOK(g, q)
      BY <1>3, <1>10, <1>14, <2>1, PlainCommand
    <2> HIDE DEF q
    <2>3. SameFile(mpv, q) /\ Steady(mpv, q)
      <3>1. q.seeking = n.seeking
        BY <2>2 DEF SameButQueues
      <3> QED
        BY <1>5, <2>2, <3>1, SameFileTwice DEF Steady, SameFile, SameCommands
    <2>4. Unused(g, q)
      BY <1>3 DEF Unused
    <2> QED
      BY <1>2, <1>8, <1>14, <2>2, <2>3, <2>4, InvFacts, GoodKept
  <1> QED
    BY <1>1, <1>3, <1>10, <1>11, <1>12, <1>13, <1>14

\* A property change is heard of: what is left to tell.
LEMMA PropertyHeard ==
    ASSUME LibmpvInv, NEW property \in mpv.changed, NEW n, n = [mpv EXCEPT !.changed = @ \ {property}]
    PROVE  /\ n \in Players /\ n.cmds = mpv.cmds /\ n.evs = mpv.evs /\ n.file = mpv.file
           /\ n.next = mpv.next /\ n.pause = mpv.pause /\ n.seeking = mpv.seeking
           /\ n.refused = mpv.refused /\ n.tracks = mpv.tracks /\ TracksOK(g, n)
           /\ property # "pause" => SameFile(mpv, n)
           /\ Steady(mpv, n)
           /\ g.media # "none" /\ g.up
  <1>1. mpv \in Players /\ TracksOK(g, mpv) /\ Unused(g, mpv)
    BY InvFacts
  <1> DEFINE S == mpv.changed \ {property}
  <1>2. S \in SUBSET Properties /\ n = [mpv EXCEPT !.changed = S]
    BY <1>1 DEF Players
  <1>3. property # "pause" /\ "pause" \in mpv.changed => "pause" \in S
    OBVIOUS
  <1> HIDE DEF S
  <1>4. n \in Players
    BY <1>1, <1>2 DEF Players
  <1>5. /\ n.cmds = mpv.cmds /\ n.evs = mpv.evs /\ n.file = mpv.file
        /\ n.next = mpv.next /\ n.pause = mpv.pause /\ n.seeking = mpv.seeking
        /\ n.refused = mpv.refused /\ n.tracks = mpv.tracks /\ n.changed = S
    BY <1>1, <1>2 DEF Players
  <1>6. TracksOK(g, n)
    BY <1>1, <1>5 DEF TracksOK
  <1>7. property # "pause" => SameFile(mpv, n)
    BY <1>3, <1>5, SameQueues DEF SameFile
  <1>8. mpv # FreshMpv
    BY DEF FreshMpv
  <1>9. g.media # "none" /\ g.up
    BY <1>1, <1>8 DEF Unused
  <1>10. Steady(mpv, n)
    BY <1>4, <1>5 DEF Steady, Players
  <1> QED
    BY <1>4, <1>5, <1>6, <1>7, <1>9, <1>10
\* The pause mpv is in is now the one the backend knows.
LEMMA PausePropertyInv ==
    ASSUME LibmpvInv, "pause" \in mpv.changed, g' = refresh_state([g EXCEPT !.pause = mpv.pause]),
           mpv' = [mpv EXCEPT !.changed = @ \ {"pause"}], UNCHANGED <<wanted, overtaken, calls>>
    PROVE  LibmpvInv'
  <1> DEFINE c == [g EXCEPT !.pause = mpv.pause]
             n == [mpv EXCEPT !.changed = @ \ {"pause"}]
  <1>1. /\ g \in Backends /\ mpv \in Players /\ Gate(g) /\ Tale(g, mpv)
    BY InvFacts
  <1>2. /\ n \in Players /\ n.cmds = mpv.cmds /\ n.evs = mpv.evs /\ n.file = mpv.file
        /\ n.next = mpv.next /\ n.pause = mpv.pause /\ n.seeking = mpv.seeking
        /\ n.refused = mpv.refused /\ n.tracks = mpv.tracks /\ TracksOK(g, n)
        /\ g.media # "none" /\ g.up
    BY PropertyHeard
  <1> HIDE DEF n
  <1>3. mpv.pause \in BOOLEAN
    BY <1>1 DEF Players
  <1>4. c \in Backends
    BY <1>1, <1>3 DEF Backends
  <1>5. /\ c.pause = mpv.pause /\ c.media = g.media /\ c.file_loaded = g.file_loaded
        /\ c.load_pending = g.load_pending /\ c.stopped = g.stopped
        /\ c.last_error = g.last_error
    BY <1>1 DEF Backends
  <1>6. /\ c.unpause_pending = g.unpause_pending /\ c.play_requested = g.play_requested
        /\ c.hold = g.hold /\ c.deadline = g.deadline
    BY <1>1 DEF Backends
  <1>7. c.up = g.up /\ c.audio_bridge = g.audio_bridge /\ c.serial = g.serial
    BY <1>1 DEF Backends
  <1> HIDE DEF c
  <1>8. (Loading(n) <=> Loading(mpv)) /\ (Dead(n) <=> Dead(mpv))
    BY <1>2 DEF Loading, Dead
  <1>9. FileOK(c, n) /\ EndOK(c, n)
    BY <1>1, <1>2, <1>5 DEF Tale, FileOK, EndOK
  <1>10. PendingOK(c, n) /\ RefusalOK(n)
    BY <1>1, <1>2, <1>5 DEF Tale, PendingOK, RefusalOK
  <1>11. Gate(c) /\ Unused(c, n) /\ TracksOK(c, n)
    BY <1>1, <1>2, <1>5, <1>6, <1>7 DEF Gate, Unused, TracksOK
  <1>12. Sound(c, n)
    BY <1>2, <1>4, <1>9, <1>10, <1>11 DEF Sound, Tale
  <1>13. ASSUME Timely(overtaken) PROVE Exact(c, n, wanted)
    <2>1. Story(g, mpv) /\ PauseOK(g, mpv) /\ WantOK(g, mpv, wanted)
      BY <1>13, InvFacts
    <2>2. CommandsOK(c, n) /\ LoadOK(c, n)
      BY <1>2, <1>5, <1>8, <2>1 DEF Story, CommandsOK, LoadOK
    <2>3. LoadedOK(c, n)
      BY <1>2, <1>5, <1>8, <2>1 DEF Story, LoadedOK
    <2>4. PauseOK(c, n)
      BY <1>2, <1>5 DEF PauseOK
    <2>5. WantOK(c, n, wanted)
      BY <1>2, <1>6, <1>8, <2>1 DEF WantOK, WillPause
    <2> QED
      BY <2>2, <2>3, <2>4, <2>5 DEF Exact, Story
  <1>14. Good(c, n, wanted, overtaken)
    BY <1>12, <1>13 DEF Good
  <1> QED
    BY <1>7, <1>14, ShownInv DEF c, n


\* The other properties.
LEMMA PropertyInv ==
    ASSUME LibmpvInv, NEW property \in Properties, handle_property_change(property)
    PROVE  LibmpvInv'
  <1> DEFINE n == [mpv EXCEPT !.changed = @ \ {property}]
             v == mpv.seekable /\ g.media # "mirror"
             cs == [g EXCEPT !.seeking = mpv.seeking]
             cc == [g EXCEPT !.paused_for_cache = mpv.cache]
             ck == [g EXCEPT !.seekable = v]
             t == maybe_issue_pending_seek([b |-> ck, m |-> n])
  <1>1. /\ property \in mpv.changed /\ UNCHANGED <<wanted, overtaken, calls>>
        /\ \/ property = "pause" /\ g' = refresh_state([g EXCEPT !.pause = mpv.pause]) /\ mpv' = n
           \/ property = "seeking" /\ g' = refresh_state(cs) /\ mpv' = n
           \/ property = "paused-for-cache" /\ g' = refresh_state(cc) /\ mpv' = n
           \/ property = "seekable" /\ g' = t.b /\ mpv' = t.m
    BY DEF handle_property_change, commit
  <1>2. /\ g \in Backends /\ mpv \in Players /\ Gate(g)
    BY InvFacts
  <1>3. /\ n \in Players /\ TracksOK(g, n) /\ g.media # "none" /\ g.up
        /\ property # "pause" => SameFile(mpv, n)
        /\ Steady(mpv, n)
    BY <1>1, PropertyHeard
  <1>4. mpv.seeking \in BOOLEAN /\ mpv.cache \in BOOLEAN /\ v \in BOOLEAN
    BY <1>2 DEF Players
  <1>5. ASSUME property # "pause", NEW c \in Backends, Alike(g, c), SamePause(g, c),
               c.hold = g.hold, c.deadline = g.deadline, c.up = g.up,
               c.audio_bridge = g.audio_bridge, c.serial = g.serial
        PROVE  Good(c, n, wanted, overtaken)
    <2> HIDE DEF n
    <2>1. Gate(c) /\ Unused(c, n) /\ TracksOK(c, n)
      BY <1>2, <1>3, <1>5 DEF Gate, Unused, TracksOK, Alike
    <2> QED
      BY <1>3, <1>5, <2>1, InvFacts, GoodKept
  <1>6. CASE property = "pause" /\ g' = refresh_state([g EXCEPT !.pause = mpv.pause]) /\ mpv' = n
    BY <1>1, <1>6, PausePropertyInv
  <1>7. CASE property = "seeking" /\ g' = refresh_state(cs) /\ mpv' = n
    <2> HIDE DEF n
    <2>1. cs \in Backends /\ Alike(g, cs) /\ SamePause(g, cs)
      BY <1>2, <1>4 DEF Backends, Alike, SamePause
    <2>2. /\ cs.hold = g.hold /\ cs.deadline = g.deadline /\ cs.up = g.up
          /\ cs.audio_bridge = g.audio_bridge /\ cs.serial = g.serial
      BY <1>2 DEF Backends
    <2> HIDE DEF cs
    <2>3. Good(cs, n, wanted, overtaken)
      BY <1>5, <1>7, <2>1, <2>2
    <2> QED
      BY <1>1, <1>7, <2>2, <2>3, ShownInv
  <1>8. CASE property = "paused-for-cache" /\ g' = refresh_state(cc) /\ mpv' = n
    <2> HIDE DEF n
    <2>1. cc \in Backends /\ Alike(g, cc) /\ SamePause(g, cc)
      BY <1>2, <1>4 DEF Backends, Alike, SamePause
    <2>2. /\ cc.hold = g.hold /\ cc.deadline = g.deadline /\ cc.up = g.up
          /\ cc.audio_bridge = g.audio_bridge /\ cc.serial = g.serial
      BY <1>2 DEF Backends
    <2> HIDE DEF cc
    <2>3. Good(cc, n, wanted, overtaken)
      BY <1>5, <1>8, <2>1, <2>2
    <2> QED
      BY <1>1, <1>8, <2>2, <2>3, ShownInv
  <1>9. CASE property = "seekable" /\ g' = t.b /\ mpv' = t.m
    <2> HIDE DEF n, v
    <2>1. ck \in Backends /\ Alike(g, ck) /\ SamePause(g, ck) /\ SameShown(g, ck)
      BY <1>2, <1>4 DEF Backends, Alike, SamePause, SameShown
    <2>2. /\ ck.hold = g.hold /\ ck.deadline = g.deadline /\ ck.up = g.up
          /\ ck.audio_bridge = g.audio_bridge /\ ck.serial = g.serial
      BY <1>2 DEF Backends
    <2> HIDE DEF ck
    <2>3. Good(ck, n, wanted, overtaken) /\ Derived(ck)
      BY <1>5, <1>9, <2>1, <2>2, InvFacts, ShownDerived
    <2>4. SideStep(ck, n, t.b, t.m) /\ t.b.serial = ck.serial /\ Derived(t.b)
      BY <1>3, <2>1, <2>3, GoodParts, MaybeSeekSide
    <2> HIDE DEF t
    <2>5. Good(t.b, t.m, wanted, overtaken)
      BY <2>3, <2>4, SideGood
    <2> QED
      BY <1>1, <1>9, <2>2, <2>4, <2>5, InvFacts DEF LibmpvInv
  <1> QED
    BY <1>1, <1>6, <1>7, <1>8, <1>9

\* The gate at a restart: opened, or given a deadline.
LEMMA GateType ==
    ASSUME NEW b \in Backends
    PROVE  LET r == gate_at_restart(b)
           IN  /\ r \in Backends /\ Alike(b, r) /\ SamePause(b, r)
               /\ r.hold => b.hold /\ (b.deadline => r.deadline)
               /\ r.up = b.up /\ r.audio_bridge = b.audio_bridge /\ r.serial = b.serial
  <1> DEFINE l == release_startup_gate(b)
             s == [b EXCEPT !.restart_seen = TRUE, !.deadline = TRUE]
  <1>1. gate_at_restart(b) \in {b, l, s}
    BY DEF gate_at_restart
  <1>2. /\ l \in Backends /\ l.hold = FALSE /\ Alike(b, l) /\ SamePause(b, l)
        /\ l.up = b.up /\ l.audio_bridge = b.audio_bridge /\ l.serial = b.serial
    BY ReleaseType DEF Alike
  <1> HIDE DEF l
  <1>3. s \in Backends /\ Alike(b, s) /\ SamePause(b, s)
    BY DEF Backends, Alike, SamePause
  <1>4. /\ s.hold = b.hold /\ s.deadline = TRUE
        /\ s.up = b.up /\ s.audio_bridge = b.audio_bridge /\ s.serial = b.serial
    BY DEF Backends
  <1> HIDE DEF s
  <1>5. Alike(b, b) /\ SamePause(b, b)
    BY AlikeSelf
  <1> DEFINE r == gate_at_restart(b)
  <1>6. r = b \/ r = l \/ r = s
    BY <1>1
  <1> HIDE DEF r
  <1>7. /\ r \in Backends /\ Alike(b, r) /\ SamePause(b, r)
        /\ r.hold => b.hold /\ (b.deadline => r.deadline)
        /\ r.up = b.up /\ r.audio_bridge = b.audio_bridge /\ r.serial = b.serial
    BY <1>2, <1>3, <1>4, <1>5, <1>6
  <1> QED
    BY <1>7 DEF r
\* The pair a pending seek gives back is a pair.
LEMMA MaybePair ==
    ASSUME NEW b, NEW m, NEW x
    PROVE  LET t == maybe_issue_pending_seek([b |-> b, m |-> m])
           IN  [t EXCEPT !.b = x].b = x /\ [t EXCEPT !.b = x].m = t.m
  <1> DEFINE t == maybe_issue_pending_seek([b |-> b, m |-> m])
  <1>1. "b" \in DOMAIN t /\ "m" \in DOMAIN t
    <2>1. CASE ~(b.pending_seek /\ b.file_loaded /\ b.seekable /\ b.state # "STOPPED")
      <3>1. t = [b |-> b, m |-> m]
        BY <2>1 DEF maybe_issue_pending_seek
      <3> QED
        BY <3>1
    <2>2. CASE b.pending_seek /\ b.file_loaded /\ b.seekable /\ b.state # "STOPPED"
      <3> DEFINE u == send_seek([b |-> b, m |-> m])  y == u.b  z == u.m
      <3>1. u = [b |-> y, m |-> z]
        BY DEF send_seek
      <3>2. t = [u EXCEPT !.b.pending_seek = FALSE]
        BY <2>2 DEF maybe_issue_pending_seek
      <3> HIDE DEF u, y, z
      <3>3. DOMAIN [[b |-> y, m |-> z] EXCEPT !.b.pending_seek = FALSE] = {"b", "m"}
        OBVIOUS
      <3>4. DOMAIN t = {"b", "m"}
        BY <3>1, <3>2, <3>3
      <3> QED
        BY <3>4
    <2> QED
      BY <2>1, <2>2
  <1> HIDE DEF t
  <1>2. [t EXCEPT !.b = x].b = x /\ [t EXCEPT !.b = x].m = t.m
    BY <1>1
  <1> QED
    BY <1>2 DEF t

\* A restart says that the file is loaded and plays.
LEMMA RestartShown ==
    ASSUME LibmpvInv, mpv.evs # <<>>, Head(mpv.evs).id = "PLAYBACK_RESTART", NEW c, NEW n,
           c = [g EXCEPT !.file_loaded = TRUE, !.stopped = FALSE, !.seeking = FALSE],
           n = heard(mpv)
    PROVE  Good(c, n, wanted, overtaken) /\ c.serial = g.serial
  <1>1. /\ g \in Backends /\ mpv \in Players /\ Tale(g, mpv) /\ Gate(g)
    BY InvFacts
  <1>2. /\ n \in Players /\ n.cmds = mpv.cmds /\ n.changed = mpv.changed
        /\ n.file = mpv.file /\ n.next = mpv.next /\ n.pause = mpv.pause
        /\ n.seeking = mpv.seeking /\ n.refused = mpv.refused
        /\ Shrunk(mpv.evs, n.evs) /\ g.media # "none" /\ g.up
        /\ (Loading(n) <=> Loading(mpv)) /\ (Dead(n) <=> Dead(mpv))
        /\ \A v : WillPause(n, v) <=> WillPause(mpv, v)
        /\ TracksOK(g, n)
    BY Hears
  <1>3. c \in Backends
    BY <1>1, ZenonT(60) DEF Backends
  <1>4. /\ c.file_loaded = TRUE /\ c.stopped = FALSE /\ c.last_error = g.last_error
        /\ c.load_pending = g.load_pending /\ c.media = g.media /\ c.up = g.up
    BY <1>1 DEF Backends
  <1>5. /\ c.hold = g.hold /\ c.deadline = g.deadline
        /\ c.pause = g.pause /\ c.unpause_pending = g.unpause_pending
        /\ c.play_requested = g.play_requested
    BY <1>1 DEF Backends
  <1>6. c.audio_bridge = g.audio_bridge /\ c.serial = g.serial
    BY <1>1 DEF Backends
  <1>7. "PLAYBACK_RESTART" \in Alive /\ "PLAYBACK_RESTART" \in Life
    BY DEF Alive, Life
  <1>8. /\ ~NoneAlive(mpv.evs) /\ ~NoLife(mpv.evs) /\ ~RestartLater(mpv.evs)
        /\ StartFirst(mpv.evs) => ~Tells(n.evs, "START_FILE") /\ StartFirst(n.evs)
        /\ Tells(n.evs, "START_FILE") <=> Tells(mpv.evs, "START_FILE")
        /\ Tells(n.evs, "FILE_LOADED") <=> Tells(mpv.evs, "FILE_LOADED")
        /\ Refuses(n.evs) <=> Refuses(mpv.evs)
    BY <1>2, <1>7, EventHeard
  <1>9. /\ LastLife(mpv.evs, {"END_FILE"}) => LastLife(n.evs, {"END_FILE"})
        /\ LastLife(mpv.evs, Alive) => LastLife(n.evs, Alive) \/ NoLife(n.evs)
        /\ EndStarts(mpv.evs) => EndStarts(n.evs)
        /\ RestartStarts(mpv.evs) => RestartStarts(n.evs)
        /\ RefusedStarts(mpv.evs) => RefusedStarts(n.evs)
    BY <1>2, <1>7, EventHeard
  <1>10. g.last_error = FALSE
    BY <1>1, <1>8 DEF Tale, EndOK, Backends
  <1>11. FileOK(c, n)
    BY <1>1, <1>2, <1>4, <1>8, <1>9 DEF Tale, FileOK
  <1>12. EndOK(c, n)
    BY <1>1, <1>2, <1>4, <1>8, <1>9, <1>10 DEF Tale, EndOK
  <1>13. PendingOK(c, n) /\ RefusalOK(n)
    BY <1>1, <1>2, <1>4, <1>8, <1>9 DEF Tale, PendingOK, RefusalOK
  <1>14. Unused(c, n) /\ Gate(c) /\ TracksOK(c, n)
    BY <1>1, <1>2, <1>4, <1>5, <1>6 DEF Unused, Gate, TracksOK
  <1>15. Sound(c, n)
    BY <1>2, <1>3, <1>11, <1>12, <1>13, <1>14 DEF Sound, Tale
  <1>16. ASSUME Timely(overtaken) PROVE Exact(c, n, wanted)
    <2>1. Story(g, mpv) /\ PauseOK(g, mpv) /\ WantOK(g, mpv, wanted)
      BY <1>16, InvFacts
    <2>2. ~Loading(mpv)
      BY <1>8, <2>1 DEF Story, LoadOK
    <2>3. CommandsOK(c, n) /\ LoadOK(c, n)
      BY <1>2, <1>4, <1>8, <2>1, <2>2 DEF Story, CommandsOK, LoadOK
    <2>4. LoadedOK(c, n)
      BY <1>2, <1>4, <1>8, <2>1, <2>2 DEF Story, LoadOK, LoadedOK
    <2>5. PauseOK(c, n) /\ WantOK(c, n, wanted)
      BY <1>2, <1>5, <1>8, <2>1 DEF PauseOK, WantOK
    <2> QED
      BY <2>3, <2>4, <2>5 DEF Exact, Story
  <1> QED
    BY <1>6, <1>15, <1>16 DEF Good
\* PLAYBACK_RESTART keeps the invariant.
LEMMA RestartInv ==
    ASSUME LibmpvInv, mpv.evs # <<>>, Head(mpv.evs).id = "PLAYBACK_RESTART", PLAYBACK_RESTART,
           UNCHANGED <<wanted, overtaken, calls>>
    PROVE  LibmpvInv'
  <1> DEFINE c == [g EXCEPT !.file_loaded = TRUE, !.stopped = FALSE, !.seeking = FALSE]
             n == heard(mpv)
             t == maybe_issue_pending_seek([b |-> c, m |-> n])
             r == gate_at_restart(t.b)
  <1>1. g' = refresh_state(r) /\ mpv' = t.m
    <2>1. g' = [t EXCEPT !.b = refresh_state(r)].b /\ mpv' = [t EXCEPT !.b = refresh_state(r)].m
      BY DEF PLAYBACK_RESTART, commit
    <2> HIDE DEF c, n, r
    <2>2. [t EXCEPT !.b = refresh_state(r)].b = refresh_state(r)
          /\ [t EXCEPT !.b = refresh_state(r)].m = t.m
      BY MaybePair
    <2> QED
      BY <2>1, <2>2
  <1>2. Good(c, n, wanted, overtaken) /\ c.serial = g.serial
    BY RestartShown
  <1> HIDE DEF c, n
  <1>3. SideStep(c, n, t.b, t.m) /\ t.b.serial = c.serial
    BY <1>2, GoodParts, MaybeSeekSide
  <1> HIDE DEF t
  <1>4. Good(t.b, t.m, wanted, overtaken)
    BY <1>2, <1>3, SideGood
  <1> DEFINE b == t.b  m == t.m
  <1>5. b \in Backends /\ m \in Players /\ Gate(b) /\ TracksOK(b, m) /\ Unused(b, m)
    BY <1>4, GoodParts
  <1>6. Good(b, m, wanted, overtaken) /\ b.serial = c.serial /\ r = gate_at_restart(b) /\ mpv' = m
    BY <1>1, <1>3, <1>4
  <1> HIDE DEF b, m, r
  <1>7. /\ r \in Backends /\ Alike(b, r) /\ SamePause(b, r)
        /\ r.hold => b.hold /\ (b.deadline => r.deadline)
        /\ r.up = b.up /\ r.audio_bridge = b.audio_bridge /\ r.serial = b.serial
    BY <1>5, <1>6, GateType
  <1>8. Gate(r) /\ TracksOK(r, m) /\ SameFile(m, m) /\ Steady(m, m)
    BY <1>5, <1>7, SameQueues DEF Gate, TracksOK, SameFile, Alike, Steady, Players
  <1>9. Unused(r, m)
    BY <1>5, <1>7 DEF Unused, Alike
  <1>10. Good(r, m, wanted, overtaken)
    BY <1>5, <1>6, <1>7, <1>8, <1>9, GoodKept
  <1> QED
    BY <1>1, <1>2, <1>6, <1>7, <1>10, ShownInv
\* FILE_LOADED: the file is there; a play that waited for it is still to be sent.
LEMMA LoadedShown ==
    ASSUME LibmpvInv, mpv.evs # <<>>, Head(mpv.evs).id = "FILE_LOADED", NEW c, NEW n,
           c = [g EXCEPT !.last_error = FALSE, !.stopped = FALSE, !.file_loaded = TRUE],
           n = heard(mpv)
    PROVE  /\ c \in Backends /\ n \in Players /\ Tale(c, n) /\ Unused(c, n) /\ Gate(c)
           /\ TracksOK(c, n)
           /\ Timely(overtaken) =>
                /\ Story(c, n) /\ PauseOK(c, n) /\ ~Loading(n)
                /\ WantOK(c, n, wanted) \/ (c.play_requested /\ c.unpause_pending)
           /\ c.serial = g.serial /\ c.media # "none" /\ c.up
  <1>1. /\ g \in Backends /\ mpv \in Players /\ Tale(g, mpv) /\ Gate(g)
    BY InvFacts
  <1>2. /\ n \in Players /\ n.cmds = mpv.cmds /\ n.changed = mpv.changed
        /\ n.file = mpv.file /\ n.next = mpv.next /\ n.pause = mpv.pause
        /\ n.seeking = mpv.seeking /\ n.refused = mpv.refused
        /\ Shrunk(mpv.evs, n.evs) /\ g.media # "none" /\ g.up
        /\ (Loading(n) <=> Loading(mpv)) /\ (Dead(n) <=> Dead(mpv))
        /\ \A v : WillPause(n, v) <=> WillPause(mpv, v)
        /\ TracksOK(g, n)
    BY Hears
  <1>3. c \in Backends
    BY <1>1 DEF Backends
  <1>4. /\ c.file_loaded = TRUE /\ c.stopped = FALSE /\ c.last_error = FALSE
        /\ c.load_pending = g.load_pending /\ c.media = g.media /\ c.up = g.up
    BY <1>1 DEF Backends
  <1>5. /\ c.hold = g.hold /\ c.deadline = g.deadline
        /\ c.pause = g.pause /\ c.unpause_pending = g.unpause_pending
        /\ c.play_requested = g.play_requested
    BY <1>1 DEF Backends
  <1>6. c.audio_bridge = g.audio_bridge /\ c.serial = g.serial
    BY <1>1 DEF Backends
  <1>7. "FILE_LOADED" \in Alive /\ "FILE_LOADED" \in Life
    BY DEF Alive, Life
  <1>8. /\ ~NoneAlive(mpv.evs) /\ ~NoLife(mpv.evs)
        /\ StartFirst(mpv.evs) => ~Tells(n.evs, "START_FILE") /\ StartFirst(n.evs)
        /\ Tells(n.evs, "START_FILE") <=> Tells(mpv.evs, "START_FILE")
        /\ Refuses(n.evs) <=> Refuses(mpv.evs)
    BY <1>2, <1>7, EventHeard
  <1>9. /\ LastLife(mpv.evs, {"END_FILE"}) => LastLife(n.evs, {"END_FILE"})
        /\ LastLife(mpv.evs, Alive) => LastLife(n.evs, Alive) \/ NoLife(n.evs)
        /\ EndStarts(mpv.evs) => EndStarts(n.evs)
        /\ RestartStarts(mpv.evs) => RestartStarts(n.evs)
        /\ RefusedStarts(mpv.evs) => RefusedStarts(n.evs)
    BY <1>2, <1>7, EventHeard
  <1>10. FileOK(c, n)
    BY <1>1, <1>2, <1>4, <1>8, <1>9 DEF Tale, FileOK
  <1>11. EndOK(c, n)
    BY <1>1, <1>2, <1>4, <1>9 DEF Tale, EndOK
  <1>12. PendingOK(c, n) /\ RefusalOK(n)
    BY <1>1, <1>2, <1>4, <1>8, <1>9 DEF Tale, PendingOK, RefusalOK
  <1>13. Unused(c, n) /\ Gate(c) /\ TracksOK(c, n)
    BY <1>1, <1>2, <1>4, <1>5, <1>6 DEF Unused, Gate, TracksOK
  <1>14. ASSUME Timely(overtaken)
         PROVE  /\ Story(c, n) /\ PauseOK(c, n) /\ ~Loading(n)
                /\ WantOK(c, n, wanted) \/ (c.play_requested /\ c.unpause_pending)
    <2>1. Story(g, mpv) /\ PauseOK(g, mpv) /\ WantOK(g, mpv, wanted)
      BY <1>14, InvFacts
    <2>2. ~Loading(mpv) /\ ~Tells(n.evs, "START_FILE")
      BY <1>8, <2>1 DEF Story, LoadOK
    <2>3. CommandsOK(c, n) /\ LoadOK(c, n)
      BY <1>2, <1>4, <1>8, <2>1, <2>2 DEF Story, CommandsOK, LoadOK
    <2>4. LoadedOK(c, n)
      BY <1>4, <2>2 DEF LoadedOK
    <2>5. PauseOK(c, n)
      BY <1>2, <1>5, <2>1 DEF PauseOK
    <2>6. WantOK(c, n, wanted) \/ (c.play_requested /\ c.unpause_pending)
      BY <1>2, <1>5, <2>1 DEF WantOK
    <2> QED
      BY <1>2, <2>2, <2>3, <2>4, <2>5, <2>6 DEF Story
  <1> QED
    BY <1>2, <1>3, <1>4, <1>6, <1>10, <1>11, <1>12, <1>13, <1>14 DEF Tale
\* FILE_LOADED keeps it: sound, seek and unpause that waited are sent now.
LEMMA LoadedInv ==
    ASSUME LibmpvInv, mpv.evs # <<>>, Head(mpv.evs).id = "FILE_LOADED", FILE_LOADED,
           UNCHANGED <<overtaken, calls>>
    PROVE  LibmpvInv'
  <1> DEFINE c == [g EXCEPT !.last_error = FALSE, !.stopped = FALSE, !.file_loaded = TRUE]
             n == heard(mpv)
             a == attach_audio([b |-> c, m |-> n])
             t == maybe_issue_pending_seek(a)
             f == [t.b EXCEPT !.unpause_pending = FALSE]
             d == [f EXCEPT !.pause = FALSE]
             p == sent(t.m, "pause", FALSE)
             due == t.b.play_requested /\ t.b.unpause_pending
  <1>1. /\ c \in Backends /\ n \in Players /\ Tale(c, n) /\ Unused(c, n) /\ Gate(c)
        /\ TracksOK(c, n) /\ c.serial = g.serial /\ c.media # "none" /\ c.up
        /\ Timely(overtaken) =>
              /\ Story(c, n) /\ PauseOK(c, n) /\ ~Loading(n)
              /\ WantOK(c, n, wanted) \/ (c.play_requested /\ c.unpause_pending)
    BY LoadedShown
  <1>2. \/ /\ ~due /\ wanted' = wanted
           /\ g' = [t EXCEPT !.b = refresh_state(t.b)].b
           /\ mpv' = [t EXCEPT !.b = refresh_state(t.b)].m
        \/ g' = refresh_state(d) /\ mpv' = p /\ wanted' = wanted
        \/ g' = refresh_state(f) /\ mpv' = t.m /\ wanted' = "none"
    BY DEF FILE_LOADED, commit
  <1> HIDE DEF c, n
  <1> DEFINE x == a.b  y == a.m
  <1>3. a = [b |-> x, m |-> y]
    BY DEF attach_audio
  <1>4. SideStep(c, n, x, y) /\ x.serial = c.serial
    BY <1>1, AttachSide
  <1> HIDE DEF a, x, y
  <1>5. /\ [t EXCEPT !.b = refresh_state(t.b)].b = refresh_state(t.b)
        /\ [t EXCEPT !.b = refresh_state(t.b)].m = t.m
    BY <1>3, MaybePair
  <1>6. SideStep(x, y, t.b, t.m) /\ t.b.serial = x.serial
    BY <1>3, <1>4, MaybeSeekSide DEF SideStep
  <1> HIDE DEF t
  <1>7. SideStep(c, n, t.b, t.m) /\ t.b.serial = g.serial
    BY <1>1, <1>4, <1>6, SideTwice
  <1>8. SamePause(c, t.b) /\ t.b.media # "none" /\ t.b.up
    BY <1>1, <1>7 DEF SideStep, Alike
  <1> DEFINE b == t.b  m == t.m
  <1>9. /\ b \in Backends /\ m \in Players /\ TracksOK(b, m) /\ Alike(c, b) /\ SameFile(n, m)
        /\ b.hold = c.hold /\ (b.hold /\ c.deadline => b.deadline) /\ b.media # "none" /\ b.up
        /\ b.serial = g.serial /\ Steady(n, m) /\ SamePause(c, b)
    BY <1>7, <1>8 DEF SideStep, Steady
  <1>10. f = [b EXCEPT !.unpause_pending = FALSE] /\ p = sent(m, "pause", FALSE) /\ t.m = m
    OBVIOUS
  <1>11. CASE g' = refresh_state(d) /\ mpv' = p /\ wanted' = wanted
    <2> HIDE DEF b, m, f, p
    <2>1. Tale(b, m) /\ (Timely(overtaken) => Story(b, m) /\ ~Loading(m))
      BY <1>1, <1>9, TaleKept, StoryKept DEF SameFile, SameCommands, Loading
    <2>2. f \in Backends /\ d \in Backends
      BY <1>9, <1>10 DEF Backends
    <2>3. /\ d.media = b.media /\ d.file_loaded = b.file_loaded /\ d.load_pending = b.load_pending
          /\ d.stopped = b.stopped /\ d.last_error = b.last_error /\ d.pause = FALSE
      BY <1>9, <1>10 DEF Backends
    <2>4. /\ d.hold = b.hold /\ d.deadline = b.deadline /\ d.up = b.up
          /\ d.audio_bridge = b.audio_bridge /\ d.serial = b.serial
      BY <1>9, <1>10 DEF Backends
    <2> HIDE DEF d
    <2>5. Alike(b, d) /\ Gate(d) /\ d.up
      BY <1>1, <1>9, <2>3, <2>4 DEF Alike, Gate
    <2>6. Good(d, p, wanted, overtaken)
      BY <1>9, <1>10, <2>1, <2>2, <2>3, <2>4, <2>5, PauseSet
    <2> QED
      BY <1>9, <1>11, <2>4, <2>6, ShownInv
  <1>12. CASE g' = refresh_state(f) /\ mpv' = t.m /\ wanted' = "none"
    <2> HIDE DEF b, m
    <2>1. f \in Backends
      BY <1>9, <1>10 DEF Backends
    <2>2. /\ f.media = b.media /\ f.file_loaded = b.file_loaded /\ f.load_pending = b.load_pending
          /\ f.stopped = b.stopped /\ f.last_error = b.last_error /\ f.pause = b.pause
      BY <1>9, <1>10 DEF Backends
    <2>3. /\ f.hold = b.hold /\ f.deadline = b.deadline /\ f.up = b.up
          /\ f.audio_bridge = b.audio_bridge /\ f.serial = b.serial
      BY <1>9, <1>10 DEF Backends
    <2> HIDE DEF f
    <2>4. Alike(c, f) /\ Gate(f) /\ TracksOK(f, m) /\ Unused(f, m)
      BY <1>1, <1>9, <2>2, <2>3 DEF Alike, Gate, TracksOK, Unused
    <2>5. Sound(f, m)
      BY <1>1, <1>9, <2>1, <2>4, TaleKept DEF Sound
    <2>6. ASSUME Timely(overtaken) PROVE Exact(f, m, "none")
      <3>1. PauseOK(b, m)
        BY <1>1, <1>9, <2>6, PauseKept
      <3>2. Story(f, m)
        BY <1>1, <1>9, <2>4, <2>6, StoryKept
      <3> QED
        BY <2>2, <3>1, <3>2 DEF Exact, PauseOK, WantOK
    <2>7. Good(f, m, "none", overtaken) /\ "none" \in Wants
      BY <2>5, <2>6 DEF Good, Wants
    <2> QED
      BY <1>9, <1>10, <1>12, <2>3, <2>7, ShownFor
  <1>13. CASE ~due /\ wanted' = wanted /\ g' = refresh_state(t.b) /\ mpv' = t.m
    <2>1. Timely(overtaken) => WantOK(c, n, wanted)
      BY <1>1, <1>8, <1>13 DEF SamePause
    <2>2. Good(c, n, wanted, overtaken)
      BY <1>1, <2>1 DEF Good, Sound, Exact
    <2>3. Good(t.b, t.m, wanted, overtaken)
      BY <1>7, <2>2, SideGood
    <2> QED
      BY <1>7, <1>13, <2>3, ShownInv
  <1> QED
    BY <1>2, <1>5, <1>11, <1>12, <1>13

-----------------------------------------------------------------------------
(* Libmpv: the theorems. *)

\* Every event that is handled keeps the invariant.
LEMMA HandlesInv ==
    ASSUME LibmpvInv, handle_event
    PROVE  LibmpvInv'
  <1> DEFINE e == Head(mpv.evs)
  <1>1. /\ mpv.evs # <<>> /\ UNCHANGED <<overtaken, calls>>
        /\ e.id = "FILE_LOADED" \/ wanted' = wanted
        /\ \/ e.id = "START_FILE" /\ START_FILE
           \/ e.id = "FILE_LOADED" /\ FILE_LOADED
           \/ e.id = "SEEK" /\ SEEK
           \/ e.id = "PLAYBACK_RESTART" /\ PLAYBACK_RESTART
           \/ e.id = "END_FILE" /\ END_FILE(e.arg)
           \/ e.id = "REPLY_FAILED" /\ REPLY_FAILED(e.arg)
           \/ /\ e.id \in {"ADDED", "ADD_FAILED", "SELECTED", "SELECT_FAILED"}
              /\ audio_reply(e.id, e.arg)
    BY DEF handle_event
  <1>2. CASE e.id = "START_FILE" /\ START_FILE
    BY <1>1, <1>2, StartInv
  <1>3. CASE e.id = "FILE_LOADED" /\ FILE_LOADED
    BY <1>1, <1>3, LoadedInv
  <1>4. CASE e.id = "SEEK" /\ SEEK
    BY <1>1, <1>4, SeekHeard
  <1>5. CASE e.id = "PLAYBACK_RESTART" /\ PLAYBACK_RESTART
    BY <1>1, <1>5, RestartInv
  <1>6. CASE e.id = "END_FILE" /\ END_FILE(e.arg)
    BY <1>1, <1>6, EndInv
  <1>7. CASE e.id = "REPLY_FAILED" /\ REPLY_FAILED(e.arg)
    BY <1>1, <1>7, FailedInv
  <1>8. CASE e.id \in {"ADDED", "ADD_FAILED", "SELECTED", "SELECT_FAILED"} /\ audio_reply(e.id, e.arg)
    BY <1>1, <1>8, ReplyInv
  <1> QED
    BY <1>1, <1>2, <1>3, <1>4, <1>5, <1>6, <1>7, <1>8

\* Every step mpv takes by itself keeps it.
LEMMA PlayerSteps ==
    ASSUME LibmpvInv, mpv_start \/ mpv_load \/ mpv_restart \/ mpv_buffer \/ mpv_end \/ mpv_added
    PROVE  LibmpvInv'
  <1>1. Good(g, mpv, wanted, overtaken)
    BY InvFacts
  <1>2. g' = g /\ wanted' = wanted /\ calls' = calls /\ overtaken' = overtaken
    BY DEF mpv_start, mpv_load, mpv_restart, mpv_buffer, mpv_end, mpv_added
  <1> SUFFICES Good(g, mpv', wanted, overtaken)
    BY <1>2, InvFacts DEF LibmpvInv, Derived, derive_state
  <1>3. CASE mpv_start
    <2>1. mpv' = took([told(closed(mpv, "stop"), "START_FILE", 0) EXCEPT
                        !.file = "starting", !.media = mpv.next.media, !.next = NoFile,
                        !.refused = FALSE], "pause", "pause", mpv.next.paused)
          /\ mpv.next # NoFile
      BY <1>3 DEF mpv_start
    <2> QED
      BY <1>1, <2>1, NextStarts
  <1>4. CASE mpv_load
    <2>1. CASE mpv' = closed(mpv, "error")
      BY <1>1, <1>4, <2>1, FileEnds DEF mpv_load
    <2>2. CASE mpv' # closed(mpv, "error")
      <3>1. PICK v \in BOOLEAN : mpv' = told(took([mpv EXCEPT !.file = "loaded"], "seekable", "seekable", v),
                                              "FILE_LOADED", 0)
        BY <1>4, <2>2 DEF mpv_load
      <3> QED
        BY <1>1, <1>4, <3>1, FileLoads DEF mpv_load
    <2> QED
      BY <2>1, <2>2
  <1>5. CASE mpv_restart
    BY <1>1, <1>5, PlaybackRestarts DEF mpv_restart
  <1>6. CASE mpv_buffer
    BY <1>1, <1>6, Buffers DEF mpv_buffer
  <1>7. CASE mpv_end
    BY <1>1, <1>7, FileEnds DEF mpv_end
  <1>8. CASE mpv_added
    <2>1. PICK t \in mpv.adding :
              \/ mpv' = told([mpv EXCEPT !.adding = @ \ {t}], "ADD_FAILED", t)
              \/ mpv' = told([[mpv EXCEPT !.adding = @ \ {t}] EXCEPT !.tracks = @ \cup {t}], "ADDED", t)
      BY <1>8 DEF mpv_added
    <2> QED
      BY <1>1, <2>1, AudioEnds
  <1> QED
    BY <1>3, <1>4, <1>5, <1>6, <1>7, <1>8
\* Every command mpv takes keeps it.
LEMMA CommandSteps ==
    ASSUME LibmpvInv, mpv_command
    PROVE  LibmpvInv'
  <1> DEFINE c == Head(mpv.cmds)  m == taken(mpv)
  <1>1. Good(g, mpv, wanted, overtaken)
    BY InvFacts
  <1>2. mpv.cmds # <<>> /\ g' = g /\ wanted' = wanted /\ calls' = calls /\ overtaken' = overtaken
    BY DEF mpv_command
  <1> SUFFICES Good(g, mpv', wanted, overtaken)
    BY <1>2, InvFacts DEF LibmpvInv, Derived, derive_state
  <1>3. \/ c.op = "load" /\ mpv' = [m EXCEPT !.next = c.arg]
        \/ c.op = "load" /\ mpv' = told([m EXCEPT !.refused = TRUE], "REPLY_FAILED", "load")
        \/ c.op = "stop" /\ mpv' = closed([m EXCEPT !.next = NoFile], "stop")
        \/ c.op = "pause" /\ mpv' = took(m, "pause", "pause", c.arg)
        \/ /\ c.op = "seek"
           /\ mpv' = IF m.file = "playing" /\ m.seekable
                     THEN told(took(m, "seeking", "seeking", TRUE), "SEEK", 0)
                     ELSE told(m, "REPLY_FAILED", "seek")
        \/ /\ c.op = "audio-add"
           /\ \/ mpv' = [m EXCEPT !.adding = @ \cup {c.arg}]
              \/ mpv' = told(m, "ADD_FAILED", c.arg)
        \/ c.op = "audio-remove" /\ mpv' = [m EXCEPT !.tracks = @ \ {c.arg}]
        \/ /\ c.op = "aid"
           /\ \E id \in {"SELECTED", "SELECT_FAILED"} : mpv' = told(m, id, c.arg)
    BY DEF mpv_command, taken
  <1> HIDE DEF m
  <1>4. CASE c.op = "load"
    BY <1>1, <1>2, <1>3, <1>4, LoadTaken, LoadRefused DEF m
  <1>5. CASE c.op = "stop"
    BY <1>1, <1>2, <1>3, <1>5, StopTaken DEF m
  <1>6. CASE c.op = "pause"
    BY <1>1, <1>2, <1>3, <1>6, PauseTaken DEF m
  <1>7. CASE c.op = "seek"
    BY <1>1, <1>2, <1>3, <1>7, SeekTaken DEF m
  <1>8. CASE c.op = "audio-add"
    BY <1>1, <1>2, <1>3, <1>8, AudioAddTaken DEF m
  <1>9. CASE c.op = "audio-remove"
    BY <1>1, <1>2, <1>3, <1>9, AudioRemoveTaken DEF m
  <1>10. CASE c.op = "aid"
    BY <1>1, <1>2, <1>3, <1>10, AidTaken DEF m
  <1> QED
    BY <1>3, <1>4, <1>5, <1>6, <1>7, <1>8, <1>9, <1>10

\* The invariant is inductive.
LEMMA NextInv ==
    ASSUME LibmpvInv, [LibmpvNext]_LibmpvVars
    PROVE  LibmpvInv'
  <1>1. CASE UNCHANGED LibmpvVars
    <2>1. g' = g /\ mpv' = mpv /\ wanted' = wanted /\ calls' = calls /\ overtaken' = overtaken
      BY <1>1 DEF LibmpvVars
    <2> QED
      BY <2>1, InvFacts DEF LibmpvInv, Derived, derive_state
  <1>2. CASE mpv_command
    BY <1>2, CommandSteps
  <1>3. CASE mpv_start \/ mpv_load \/ mpv_restart \/ mpv_buffer \/ mpv_end \/ mpv_added
    BY <1>3, PlayerSteps
  <1>4. CASE \E bridge \in BOOLEAN : set_airplay_audio_bridge(bridge) \/ set_airplay_stream_bridge(bridge)
    BY <1>4, BridgeInv, StreamInv
  <1>5. CASE \E uri \in {"url", "mirror"} : set_media(uri)
    BY <1>5, MediaInv
  <1>15. CASE play_again
    BY <1>15, AgainInv
  <1>6. CASE play
    BY <1>6, PlayInv
  <1>7. CASE pause
    BY <1>7, PauseInv
  <1>8. CASE stop
    BY <1>8, StopInv
  <1>9. CASE seek_target
    BY <1>9, SeekInv
  <1>10. CASE libmpv_init
    BY <1>10, OpenInv
  <1>11. CASE libmpv_deinit
    BY <1>11, CloseInv
  <1>12. CASE handle_event
    BY <1>12, HandlesInv
  <1>13. CASE \E property \in Properties : handle_property_change(property)
    BY <1>13, PropertyInv
  <1>14. CASE release_expired_startup_gate
    BY <1>14, ExpireInv
  <1> QED
    BY <1>1, <1>2, <1>3, <1>4, <1>5, <1>6, <1>7, <1>8, <1>9, <1>10, <1>11, <1>12, <1>13, <1>14, <1>15
       DEF LibmpvNext

\* It contains the types.
LEMMA InvTypes == ASSUME LibmpvInv PROVE LibmpvTypeOK
  <1>1. g \in Backends /\ mpv \in Players /\ wanted \in Wants /\ overtaken \in BOOLEAN
    BY InvFacts
  <1>2. DOMAIN g = BackendFlags \cup {"media", "state", "serial"}
    BY <1>1 DEF Backends, BackendFlags
  <1>3. \A f \in BackendFlags : g[f] \in BOOLEAN
    BY <1>1 DEF Backends, BackendFlags
  <1>4. g.media \in Media /\ g.state \in PlayerStates
    BY <1>1 DEF Backends
  <1>5. g.serial \in 0 .. MaxAudio + MaxCalls /\ calls \in 0 .. MaxCalls
    BY InvFacts, LibmpvAssumption
  <1>6. mpv.file \in {"idle", "starting", "loaded", "playing"} /\ mpv.changed \subseteq Properties
    BY <1>1 DEF Players, FileStates
  <1> QED
    BY <1>1, <1>2, <1>3, <1>4, <1>5, <1>6 DEF LibmpvTypeOK, Wants

\* With both queues empty it is the property.
LEMMA InvReports == ASSUME LibmpvInv PROVE ReportsWhatMpvDoes
  <1>1. /\ g \in Backends /\ mpv \in Players /\ Gate(g) /\ Tale(g, mpv)
        /\ TracksOK(g, mpv) /\ Unused(g, mpv) /\ Derived(g)
    BY InvFacts
  <1> SUFFICES ASSUME quiet
               PROVE  /\ mpv.file = "idle" <=> g.state \in {"IDLE", "STOPPED", "ERROR"}
                      /\ mpv.tracks \subseteq (IF g.audio_bridge THEN {g.serial} ELSE {})
                      /\ ~overtaken =>
                           /\ g.state = "PAUSED" => mpv.pause
                           /\ g.state = "PLAYING" => ~mpv.pause
                           /\ mpv.file = "playing" /\ wanted = "play" => ~mpv.pause
    BY <1>1 DEF ReportsWhatMpvDoes, Gate
  <1>2. /\ mpv.cmds = <<>> /\ mpv.evs = <<>> /\ mpv.next = NoFile
        /\ mpv.file \in {"idle", "playing"} /\ ~mpv.refused /\ mpv.changed = {}
    BY DEF quiet, settled
  <1>3. /\ \A op : ~Has(mpv.cmds, op)
        /\ \A v : ~LastPause(mpv.cmds, v) /\ ~LoadsWith(mpv.cmds, v)
        /\ \A t : ~Removes(mpv.cmds, t)
    BY <1>2 DEF Has, LastPause, LoadsWith, Removes
  <1>4. /\ \A id : ~Tells(mpv.evs, id)
        /\ \A S : ~LastLife(mpv.evs, S)
        /\ \A t : ~Adds(mpv.evs, t)
        /\ ~Refuses(mpv.evs)
    BY <1>2 DEF Tells, LastLife, Adds, Refuses
  <1>5. ~Loading(mpv) /\ (Dead(mpv) <=> mpv.file = "idle") /\ \A v : ~WillPause(mpv, v)
    BY <1>2, <1>3 DEF Loading, Dead, WillPause
  <1>6. ~g.load_pending
    BY <1>1, <1>2, <1>3, <1>4 DEF Tale, PendingOK, LoadsLast
  <1>7. mpv.file = "idle" => g.stopped \/ g.media = "none"
    BY <1>1, <1>2, <1>4, <1>6 DEF Tale, FileOK
  <1>8. mpv.file # "idle" => ~g.stopped /\ ~g.last_error /\ g.media # "none"
    <2>1. mpv.file # "idle" => ~g.stopped
      BY <1>1, <1>2, <1>3, <1>4 DEF Tale, FileOK
    <2>2. g.last_error => g.stopped
      BY <1>1 DEF Tale, EndOK
    <2>3. g.media = "none" => mpv.file = "idle"
      BY <1>1 DEF Unused, FreshMpv
    <2> QED
      BY <2>1, <2>2, <2>3
  <1>9. mpv.file = "idle" <=> g.state \in {"IDLE", "STOPPED", "ERROR"}
    BY <1>1, <1>7, <1>8 DEF Derived, derive_state
  <1>10. mpv.tracks \subseteq (IF g.audio_bridge THEN {g.serial} ELSE {})
    BY <1>1, <1>3, <1>4 DEF TracksOK
  <1>11. ASSUME overtaken = FALSE
         PROVE  /\ g.state = "PAUSED" => mpv.pause
                /\ g.state = "PLAYING" => ~mpv.pause
                /\ mpv.file = "playing" /\ wanted = "play" => ~mpv.pause
    <2>1. PauseOK(g, mpv) /\ WantOK(g, mpv, wanted)
      BY <1>11, InvFacts DEF Timely
    <2>2. mpv.file # "idle" => g.pause = mpv.pause
      BY <1>2, <1>3, <1>5, <2>1 DEF PauseOK
    <2>3. /\ g.state = "PAUSED" => g.pause /\ ~g.stopped /\ g.media # "none"
          /\ g.state = "PLAYING" => ~g.pause /\ ~g.stopped /\ g.media # "none"
      BY <1>1 DEF Derived, derive_state
    <2>4. mpv.file = "playing" /\ wanted = "play" => ~mpv.pause
      BY <1>3, <1>4, <1>5, <2>1 DEF WantOK
    <2> QED
      BY <1>7, <2>2, <2>3, <2>4
  <1>12. overtaken \in BOOLEAN
    BY InvFacts
  <1> QED
    BY <1>9, <1>10, <1>11, <1>12


\* The invariant holds in every state of the backend and mpv, whatever the
\* commands overtake: its second half when the last load did not overtake any.
THEOREM LibmpvInvariant == LibmpvSpec => []LibmpvInv
  <1>1. LibmpvInit => LibmpvInv
    BY InitInv
  <1>2. LibmpvInv /\ [LibmpvNext]_LibmpvVars => LibmpvInv'
    BY NextInv
  <1> QED
    BY <1>1, <1>2, PTL DEF LibmpvSpec

\* The variables of the backend keep their types.
THEOREM LibmpvTypeCorrect == LibmpvSpec => []LibmpvTypeOK
  <1>1. LibmpvInv => LibmpvTypeOK
    BY InvTypes
  <1> QED
    BY <1>1, LibmpvInvariant, PTL

\* However commands, events and property changes cross, a backend and an mpv
\* that have settled agree: what ended or never came is shown so, what is open
\* is not shown as over, the track of a bridge that was taken away is gone; and
\* a media held back by the startup gate has its deadline.  When the last load
\* was given to an mpv at rest, the pause shown is mpv's and a play asked for
\* last does play.
THEOREM ReportsCorrect == LibmpvSpec => []ReportsWhatMpvDoes
  <1>1. LibmpvInv => ReportsWhatMpvDoes
    BY InvReports
  <1> QED
    BY <1>1, LibmpvInvariant, PTL

=============================================================================
