-------------------------------- MODULE Iptv --------------------------------
(***************************************************************************)
(* IPTV (iptv/iptv.c): the sources on the SD card and in memory, the       *)
(* catalog built from them, the background worker that refreshes them and  *)
(* the suspension the resource coordinator puts on it.  Three threads: the *)
(* user's (main), the worker and the coordinator.  g_mutex covers one step *)
(* of a thread, g_catalog_mutex a whole rebuild.                           *)
(*                                                                         *)
(* A source is a number and brings one channel once its playlist is        *)
(* cached.  Playlists in the IPTV folder itself, the programme guide, the  *)
(* logos, the filters and the wording of the status are left out.  The     *)
(* user's save of the list is a step per rename, a save by a rebuild is    *)
(* one; the console may lose power between any two renames of either.  A   *)
(* rename that returned is taken to be on the card, which the code, having *)
(* no way to flush the SD card, does not promise.                          *)
(*                                                                         *)
(* kept, raced and hasty are history variables: no step looks at them.     *)
(***************************************************************************)
EXTENDS Naturals, Sequences, FiniteSets

CONSTANTS
    Sources,          \* ids of remote sources
    Preinstalled,     \* those sources.txt names at first
    MaxRecent,        \* IPTV_MAX_RECENT
    MaxUserActions,   \* bound on what the user does
    MaxSuspensions,   \* bound on the suspensions
    MaxCrashes        \* bound on the losses of power

ASSUME IptvAssumption ==
    /\ Sources \subseteq Nat \ {0} /\ Preinstalled \subseteq Sources
    /\ MaxRecent \in Nat \ {0} /\ MaxUserActions \in Nat
    /\ MaxSuspensions \in Nat /\ MaxCrashes \in Nat

VARIABLES
    card,        \* sources.tsv and its .bak, sources.txt, the cached playlists
    catalog,     \* g_sources, g_channels, the selection and the recent channels
    refresh,     \* g_refresh_*, g_refreshing, g_background_suspended, g_worker_*
    user,        \* the user's thread: where it is, and the source it works on
    job,         \* the worker: where it is, what it took, what is left to fetch
    suspender,   \* the coordinator's thread
    rebuild,     \* holder of g_catalog_mutex and what it has read
    tv_lease,    \* token of the playback, and whether it still owns the player
    kept,        \* history: the sources saved and not removed by the user
    raced,       \* history: a save of the user's overlapped a rebuild
    hasty,       \* history: resumed before the worker let go of what it was
                 \* interrupted in, and it has not ended a refresh since
    spent        \* the bounds

histories == <<kept, raced, hasty>>
IptvVars == <<card, catalog, refresh, user, job, suspender, rebuild, tv_lease, histories,
              spent>>

Absent == [present |-> FALSE, list |-> {}]
File(list) == [present |-> TRUE, list |-> list]

NoRequest == [all |-> FALSE, source |-> 0, refreshing |-> FALSE, suspended |-> FALSE,
              stop |-> FALSE, started |-> FALSE, busy |-> FALSE]
NoCatalog == [up |-> FALSE, sources |-> {}, channels |-> {}, selected |-> 0,
              recent |-> <<>>, playing |-> 0, refresh_needed |-> FALSE, stale |-> FALSE]
NoJob == [at |-> "none", all |-> FALSE, source |-> 0, left |-> {}, cancelled |-> FALSE]
NoUser == [at |-> "idle", then |-> "none", source |-> 0, existed |-> FALSE]
NoRebuild == [by |-> "nobody", read |-> FALSE, list |-> {}, channels |-> {},
              needed |-> FALSE]

IptvInit ==
    /\ card = [tsv |-> Absent, bak |-> Absent, txt |-> Preinstalled, cached |-> {},
               recent |-> <<>>]
    /\ catalog = NoCatalog
    /\ refresh = NoRequest
    /\ user = NoUser
    /\ job = NoJob
    /\ suspender = "idle"
    /\ rebuild = NoRebuild
    /\ tv_lease = [token |-> 0, owned |-> FALSE]
    /\ kept = {} /\ raced = FALSE /\ hasty = FALSE
    /\ spent = [actions |-> 0, suspensions |-> 0, crashes |-> 0]

-----------------------------------------------------------------------------
(* iptv_replace_saved_file: the old list is moved to .bak, the new one to  *)
(* its place, and .bak removed.  Each step may fail.                       *)

mutant_only_copy(c) == FALSE

\* "Never discard the only remaining copy after a failed rollback."
only_copy(c) == c.bak.present /\ ~c.tsv.present

unbacked(c) == [c EXCEPT !.bak = Absent]
moved(c) == [c EXCEPT !.bak = c.tsv, !.tsv = Absent]
placed(c, list) == [c EXCEPT !.tsv = File(list)]
restored(c) == [c EXCEPT !.tsv = c.bak, !.bak = Absent]

\* Up to the first rename: a refusal or a failure, or the list moved away.
save_starts(c) ==
    IF only_copy(c) THEN {[card |-> c, ok |-> FALSE]}
    ELSE {[card |-> c, ok |-> FALSE], [card |-> unbacked(c), ok |-> FALSE]}
         \cup {[card |-> IF c.tsv.present THEN moved(unbacked(c)) ELSE unbacked(c),
                ok |-> TRUE]}

\* The second rename, and the backup removed if it can be; or the rollback,
\* which may fail too.
save_ends(c, existed, list) ==
    {[card |-> x, ok |-> TRUE] : x \in {placed(c, list), unbacked(placed(c, list))}}
    \cup {[card |-> x, ok |-> FALSE] : x \in {c, IF existed THEN restored(c) ELSE c}}

replace_saved_file(c, list) ==
    {s \in save_starts(c) : ~s.ok}
    \cup UNION {save_ends(s.card, c.tsv.present, list) : s \in {s \in save_starts(c) : s.ok}}

-----------------------------------------------------------------------------
(* The catalog.                                                            *)

\* The sources of sources.txt are merged into the saved ones; a source of it
\* that has no playlist yet asks for a refresh.
merge_preinstalled_sources(c) == c.tsv.list \cup c.txt
preinstalled_refresh_needed(c) == c.txt \ c.cached # {}

\* Saved only when the merge changed the list.
load_remote_sources(c) ==
    LET list == merge_preinstalled_sources(c)
    IN  IF list = c.tsv.list THEN {[card |-> c, ok |-> TRUE]}
        ELSE replace_saved_file(c, list)

\* iptv_catalog_build, by a thread that holds the catalog mutex: what the card
\* says now.  Any error fails it.
catalog_build(thread, next, failed) ==
    /\ rebuild.by = thread /\ ~rebuild.read
    /\ \/ \E s \in load_remote_sources(card) :
            /\ s.ok
            /\ card' = s.card
            /\ kept' = kept \cup card.txt
            /\ LET list == merge_preinstalled_sources(card)
               IN  rebuild' = [rebuild EXCEPT !.read = TRUE, !.list = list,
                                 !.channels = list \cap card.cached,
                                 !.needed = preinstalled_refresh_needed(card)]
            /\ next
       \/ /\ card' \in {s.card : s \in load_remote_sources(card)}
          /\ rebuild' = NoRebuild /\ failed /\ UNCHANGED kept
    /\ UNCHANGED <<raced, hasty>>

\* iptv_commit_catalog: the selection follows the source it was on.
committed(c) ==
    [c EXCEPT
        !.sources = rebuild.list, !.channels = rebuild.channels,
        !.selected = IF c.selected \in rebuild.list THEN c.selected
                     ELSE IF rebuild.list = {} THEN 0
                     ELSE CHOOSE s \in rebuild.list : \A t \in rebuild.list : s <= t,
        !.refresh_needed = @ \/ rebuild.needed,
        !.recent = card.recent, !.stale = FALSE]

commit_catalog(thread) ==
    /\ rebuild.by = thread /\ rebuild.read
    /\ catalog' = committed(catalog)
    /\ rebuild' = NoRebuild

\* A save by the user, which takes g_mutex only, overlaps a rebuild, which
\* takes g_catalog_mutex only: they write the same files.
races(with) == raced' = (raced \/ with) /\ UNCHANGED hasty

\* iptv_rebuild_catalog waits for the catalog mutex, and for nothing else.
rebuild_begins(thread) ==
    /\ rebuild.by = "nobody"
    /\ rebuild' = [NoRebuild EXCEPT !.by = thread]
    /\ races(user.at \in {"save", "place"}) /\ UNCHANGED kept

-----------------------------------------------------------------------------
(* The user's thread.                                                      *)

act == /\ user.at = "idle" /\ catalog.up
       /\ spent.actions < MaxUserActions
       /\ spent' = [spent EXCEPT !.actions = @ + 1]
goes(at, then, source) ==
    user' = [NoUser EXCEPT !.at = at, !.then = then, !.source = source]

\* iptv_init: a first catalog, then the worker.
iptv_init ==
    /\ user.at = "idle" /\ ~catalog.up
    /\ refresh' = [NoRequest EXCEPT !.suspended = refresh.suspended]
    /\ catalog' = [catalog EXCEPT !.up = TRUE, !.refresh_needed = FALSE,
                                  !.recent = card.recent]
    /\ goes("reload", "init", 0)
    /\ hasty' = FALSE
    /\ UNCHANGED <<card, job, suspender, rebuild, tv_lease, spent, kept, raced>>

\* The worker starts; new preinstalled sources are refreshed at once.
iptv_init_done ==
    /\ user.at = "init"
    /\ goes("idle", "none", 0)
    /\ \/ /\ refresh' = [refresh EXCEPT !.started = TRUE,
                !.refreshing = @ \/ catalog.refresh_needed,
                !.all = @ \/ catalog.refresh_needed]
          /\ catalog' = [catalog EXCEPT !.refresh_needed = FALSE]
          /\ job' = [NoJob EXCEPT !.at = "wait"]
       \/ UNCHANGED <<refresh, catalog, job>>
    /\ UNCHANGED <<card, suspender, rebuild, tv_lease, spent, histories>>

\* iptv_deinit: the worker is told to stop, and joined; the lease is let go.
iptv_deinit ==
    /\ act
    /\ refresh' = [refresh EXCEPT !.stop = TRUE]
    /\ goes("join", "none", 0)
    /\ UNCHANGED <<card, catalog, job, suspender, rebuild, tv_lease, histories>>

iptv_deinit_done ==
    /\ user.at = "join" /\ job.at = "none"
    /\ catalog' = NoCatalog
    /\ refresh' = [refresh EXCEPT !.started = FALSE, !.busy = FALSE,
                                  !.refreshing = FALSE]
    /\ tv_lease' = [tv_lease EXCEPT !.owned = FALSE]
    /\ goes("idle", "none", 0)
    /\ UNCHANGED <<card, job, suspender, rebuild, spent, histories>>

\* iptv_add_source_url, iptv_prompt_set_source_epg: refused during a refresh,
\* a check that is not repeated once the url is known.
user_asks ==
    /\ act
    /\ ~refresh.refreshing
    /\ \/ \E s \in Sources : goes("add", "none", s)
       \/ catalog.selected # 0 /\ goes("epg", "none", catalog.selected)
    /\ UNCHANGED <<card, catalog, refresh, job, suspender, rebuild, tv_lease, histories>>

\* A known source is only refreshed; a new one is saved first.
add_source ==
    /\ user.at = "add"
    /\ \/ /\ user.source \in catalog.sources
          /\ catalog' = [catalog EXCEPT !.selected = user.source]
          /\ goes("refresh", "none", 0) /\ UNCHANGED histories
       \/ /\ user.source \notin catalog.sources
          /\ catalog' = [catalog EXCEPT !.sources = @ \cup {user.source}]
          /\ goes("save", "add", user.source)
          /\ races(rebuild.by # "nobody") /\ UNCHANGED kept
    /\ UNCHANGED <<card, refresh, job, suspender, rebuild, tv_lease, spent>>

set_source_epg ==
    /\ user.at = "epg"
    /\ goes("save", "epg", 0)
    /\ races(rebuild.by # "nobody") /\ UNCHANGED kept
    /\ UNCHANGED <<card, catalog, refresh, job, suspender, rebuild, tv_lease, spent>>

\* The line goes from sources.txt by the same two renames; a failure leaves the
\* file as it was or, its rollback failing too, moved to a .bak nobody reads.
remove_preinstalled_source(c, gone) == [c EXCEPT !.txt = @ \ {gone}]
preinstalled_kept(c) == {c, [c EXCEPT !.txt = {}]}

\* iptv_remove_selected_source: the line goes from sources.txt (or cannot), the
\* source from memory, and the list is saved.
remove_selected_source ==
    /\ act
    /\ ~refresh.refreshing /\ catalog.selected # 0
    /\ LET gone == catalog.selected
           list == catalog.sources \ {gone}
       IN  \/ /\ card' = remove_preinstalled_source(card, gone)
              /\ catalog' = [catalog EXCEPT !.sources = list,
                    !.selected = IF list = {} THEN 0 ELSE CHOOSE x \in list : TRUE]
              /\ kept' = kept \ {gone}
              /\ goes("save", "remove", gone)
           \/ /\ gone \in card.txt /\ card' \in preinstalled_kept(card)
              /\ UNCHANGED <<catalog, user, kept>>
    /\ races(rebuild.by # "nobody")
    /\ UNCHANGED <<refresh, job, suspender, rebuild, tv_lease>>

\* A save that failed: an added source goes from memory again, a removed one
\* does not come back.
save_failed ==
    /\ catalog' = CASE user.then = "add" ->
                        [catalog EXCEPT !.sources = @ \ {user.source}]
                     [] user.then = "remove" -> [catalog EXCEPT !.stale = TRUE]
                     [] OTHER -> catalog
    /\ goes("idle", "none", 0)

\* iptv_save_sources_locked, under g_mutex to its end.
save_begins ==
    /\ user.at = "save"
    /\ \E s \in save_starts(card) :
         /\ card' = s.card
         /\ \/ /\ s.ok
               /\ user' = [user EXCEPT !.at = "place", !.existed = card.tsv.present]
               /\ UNCHANGED catalog
            \/ ~s.ok /\ save_failed
    /\ UNCHANGED <<refresh, job, suspender, rebuild, tv_lease, histories, spent>>

save_finishes ==
    /\ user.at = "place"
    /\ \E s \in save_ends(card, user.existed, catalog.sources) :
         \/ /\ s.ok /\ user.then = "remove"
            /\ card' = [s.card EXCEPT !.cached = @ \ {user.source}]
            /\ goes("reload", "none", 0)
            /\ UNCHANGED <<catalog, kept>>
         \/ /\ s.ok /\ user.then # "remove"
            /\ card' = s.card
            /\ IF user.then = "add" THEN goes("reload", "select", user.source)
               ELSE goes("refresh", "none", 0)
            /\ kept' = kept \cup catalog.sources
            /\ UNCHANGED catalog
         \/ /\ ~s.ok /\ save_failed
            /\ card' = s.card
            /\ UNCHANGED kept
    /\ UNCHANGED <<refresh, job, suspender, rebuild, tv_lease, raced, hasty, spent>>

\* iptv_reload, by the user or before a refresh of all sources.
user_reloads ==
    /\ act
    /\ \/ goes("reload", "none", 0)
       \/ /\ refresh.started /\ ~refresh.refreshing /\ ~refresh.suspended
          /\ goes("reload", "refresh_all", 0)
    /\ UNCHANGED <<card, catalog, refresh, job, suspender, rebuild, tv_lease, histories>>

reload_begins ==
    /\ user.at = "reload"
    /\ rebuild_begins("user")
    /\ user' = [user EXCEPT !.at = "build"]
    /\ UNCHANGED <<card, catalog, refresh, job, suspender, tv_lease, spent>>

reload_builds ==
    /\ user.at = "build"
    /\ catalog_build("user", user' = [user EXCEPT !.at = "commit"] /\ UNCHANGED catalog,
         /\ catalog' = IF user.then = "init" THEN NoCatalog
                       ELSE [catalog EXCEPT !.stale = TRUE]
         /\ goes("idle", "none", 0))
    /\ UNCHANGED <<refresh, job, suspender, tv_lease, spent>>

reload_commits ==
    /\ user.at = "commit"
    /\ commit_catalog("user")
    /\ user' = CASE user.then = "init" -> [user EXCEPT !.at = "init"]
                 [] user.then = "select" -> [user EXCEPT !.at = "select"]
                 [] user.then = "refresh_all" -> [user EXCEPT !.at = "refresh_all"]
                 [] OTHER -> NoUser
    /\ UNCHANGED <<card, refresh, job, suspender, tv_lease, spent, histories>>

select_added ==
    /\ user.at = "select"
    /\ catalog' = [catalog EXCEPT !.selected =
                     IF user.source \in catalog.sources THEN user.source ELSE @]
    /\ goes("refresh", "none", 0)
    /\ UNCHANGED <<card, refresh, job, suspender, rebuild, tv_lease, spent, histories>>

\* iptv_refresh_selected_source_async, on its own or at the end of the others.
may_refresh == refresh.started /\ ~refresh.refreshing /\ ~refresh.suspended
refresh_selected_source ==
    /\ \/ user.at = "refresh" /\ UNCHANGED spent
       \/ act
    /\ refresh' = IF may_refresh /\ catalog.selected # 0
                  THEN [refresh EXCEPT !.refreshing = TRUE, !.source = catalog.selected]
                  ELSE refresh
    /\ goes("idle", "none", 0)
    /\ UNCHANGED <<card, catalog, job, suspender, rebuild, tv_lease, histories>>

refresh_all ==
    /\ user.at = "refresh_all"
    /\ LET go == may_refresh /\ catalog.sources # {}
       IN  /\ refresh' = IF go THEN [refresh EXCEPT !.refreshing = TRUE, !.all = TRUE]
                         ELSE refresh
           /\ catalog' = IF go THEN [catalog EXCEPT !.refresh_needed = FALSE] ELSE catalog
    /\ goes("idle", "none", 0)
    /\ UNCHANGED <<card, job, suspender, rebuild, tv_lease, spent, histories>>

\* The channel comes first in the recent list, once, and the oldest goes.
recently(recent, c) ==
    LET others == SelectSeq(recent, LAMBDA x : x # c)
    IN  SubSeq(<<c>> \o others, 1, IF Len(others) < MaxRecent THEN Len(others) + 1
                                   ELSE MaxRecent)

\* iptv_play_channel: a new token claims the player and opens the channel, or
\* is given back.  The recent list is saved as far as the card allows.
play_channel ==
    /\ act
    /\ \E c \in catalog.channels :
         \/ /\ tv_lease' = [token |-> tv_lease.token + 1, owned |-> TRUE]
            /\ LET recent == recently(catalog.recent, c)
               IN  /\ catalog' = [catalog EXCEPT !.playing = c, !.recent = recent]
                   /\ card' = [card EXCEPT !.recent = recent] \/ UNCHANGED card
         \/ /\ tv_lease' = [token |-> tv_lease.token + 1, owned |-> FALSE]
            /\ UNCHANGED <<card, catalog>>
    /\ UNCHANGED <<refresh, user, job, suspender, rebuild, histories>>

\* Another protocol takes the player.
tv_lease_lost ==
    /\ tv_lease.owned
    /\ tv_lease' = [tv_lease EXCEPT !.owned = FALSE]
    /\ UNCHANGED <<card, catalog, refresh, user, job, suspender, rebuild, spent, histories>>

-----------------------------------------------------------------------------
(* iptv_worker.                                                            *)

\* The user's thread holds g_mutex through a save.
locked == user.at \in {"save", "place"}
interrupted == refresh.stop \/ refresh.suspended
works(next) == job' = next /\ UNCHANGED <<user, suspender, tv_lease, spent>>

worker_takes ==
    /\ job.at = "wait" /\ ~locked
    /\ ~refresh.stop /\ ~refresh.suspended /\ (refresh.all \/ refresh.source # 0)
    /\ refresh' = [refresh EXCEPT !.all = FALSE, !.source = 0, !.busy = TRUE,
                                  !.refreshing = TRUE]
    /\ works([at |-> "snapshot", all |-> refresh.all, source |-> refresh.source,
               left |-> {}, cancelled |-> FALSE])
    /\ UNCHANGED <<card, catalog, rebuild, histories>>

\* The sources as they are now; one that was removed is only reported.
worker_snapshots ==
    /\ job.at = "snapshot" /\ ~locked
    /\ LET left == IF job.all THEN catalog.sources
                   ELSE catalog.sources \cap {job.source}
           missing == left = {} /\ ~job.all
       IN  /\ refresh' = IF missing THEN [refresh EXCEPT !.refreshing = FALSE]
                         ELSE refresh
           /\ works([job EXCEPT !.at = IF missing THEN "finished" ELSE "fetch",
                                 !.left = left])
    /\ UNCHANGED <<card, catalog, rebuild, histories>>

\* iptv_fetch_to_file: the old playlist is removed before the new one is moved
\* to its place, which may fail.
fetch_to_file(c, s) ==
    {c, [c EXCEPT !.cached = @ \cup {s}], [c EXCEPT !.cached = @ \ {s}]}

\* iptv_refresh_source_files: a playlist is fetched, or not; an interruption
\* is seen before it and after it.
worker_fetches ==
    /\ job.at = "fetch" /\ ~locked
    /\ \/ /\ job.left # {} /\ ~interrupted
          /\ \E s \in job.left :
               /\ card' \in fetch_to_file(card, s)
               /\ works([job EXCEPT !.left = @ \ {s}])
       \/ /\ job.left # {} /\ interrupted
          /\ works([job EXCEPT !.at = "finished", !.cancelled = TRUE])
          /\ UNCHANGED card
       \/ /\ job.left = {}
          /\ works([job EXCEPT !.at = IF interrupted THEN "finished" ELSE "rebuild",
                                !.cancelled = interrupted])
          /\ UNCHANGED card
    /\ UNCHANGED <<catalog, refresh, rebuild, histories>>

worker_rebuilds ==
    /\ job.at = "rebuild"
    /\ rebuild_begins("worker")
    /\ works([job EXCEPT !.at = "build"])
    /\ UNCHANGED <<card, catalog, refresh>>

worker_builds ==
    /\ job.at = "build"
    /\ catalog_build("worker", works([job EXCEPT !.at = "commit"]),
                     works([job EXCEPT !.at = "finish"]))
    /\ UNCHANGED <<catalog, refresh>>

worker_commits ==
    /\ job.at = "commit" /\ ~locked
    /\ commit_catalog("worker")
    /\ works([job EXCEPT !.at = "finish"])
    /\ UNCHANGED <<card, refresh, histories>>

\* iptv_finish_refresh.
worker_finishes ==
    /\ job.at = "finish" /\ ~locked
    /\ refresh' = [refresh EXCEPT !.refreshing = FALSE]
    /\ works([job EXCEPT !.at = "finished"])
    /\ hasty' = FALSE
    /\ UNCHANGED <<card, catalog, rebuild, kept, raced>>

\* job_finished: what a suspension cut short is asked for again.
worker_job_finished ==
    /\ job.at = "finished" /\ ~locked
    /\ refresh' = IF refresh.suspended /\ ~refresh.stop
                  THEN [refresh EXCEPT !.all = @ \/ job.all,
                          !.source = IF job.all \/ job.source = 0 THEN @ ELSE job.source,
                          !.refreshing = FALSE, !.busy = FALSE]
                  ELSE [refresh EXCEPT !.busy = FALSE]
    /\ works([NoJob EXCEPT !.at = "wait"])
    /\ UNCHANGED <<card, catalog, rebuild, histories>>

worker_exits ==
    /\ job.at = "wait" /\ refresh.stop /\ ~locked
    /\ refresh' = [refresh EXCEPT !.busy = FALSE]
    /\ works(NoJob)
    /\ UNCHANGED <<card, catalog, rebuild, histories>>

-----------------------------------------------------------------------------
(* iptv_set_background_network_suspended, on the coordinator's thread.     *)

suspend ==
    /\ suspender = "idle" /\ spent.suspensions < MaxSuspensions
    /\ refresh' = [refresh EXCEPT !.suspended = TRUE]
    /\ suspender' = "waiting"
    /\ spent' = [spent EXCEPT !.suspensions = @ + 1]
    /\ UNCHANGED <<card, catalog, user, job, rebuild, tv_lease, histories>>

\* The wait ends once the worker is idle, or after four seconds: at any time.
quiesced ==
    /\ suspender = "waiting" /\ ~locked
    /\ suspender' = "suspended"
    /\ UNCHANGED <<card, catalog, refresh, user, job, rebuild, tv_lease, spent, histories>>

resume ==
    /\ suspender = "suspended"
    /\ refresh' = [refresh EXCEPT !.suspended = FALSE]
    /\ suspender' = "idle"
    /\ hasty' = (hasty \/ (refresh.started /\ refresh.busy))
    /\ UNCHANGED <<card, catalog, user, job, rebuild, tv_lease, spent, kept, raced>>

\* The power goes, inside a save or anywhere else.
power_lost ==
    /\ spent.crashes < MaxCrashes
    /\ spent' = [spent EXCEPT !.crashes = @ + 1]
    /\ card' \in {card}
         \cup (IF rebuild.by # "nobody" /\ ~rebuild.read
                   /\ merge_preinstalled_sources(card) # card.tsv.list
              THEN {s.card : s \in save_starts(card)} ELSE {})
         \cup (IF user.at = "idle" /\ catalog.up /\ catalog.selected \in card.txt
              THEN preinstalled_kept(card) ELSE {})
    /\ catalog' = NoCatalog /\ refresh' = NoRequest /\ user' = NoUser /\ job' = NoJob
    /\ suspender' = "idle" /\ rebuild' = NoRebuild
    /\ tv_lease' = [token |-> 0, owned |-> FALSE]
    /\ hasty' = FALSE /\ UNCHANGED <<kept, raced>>

IptvNext ==
    \/ iptv_init \/ iptv_init_done \/ iptv_deinit \/ iptv_deinit_done
    \/ user_asks \/ add_source \/ set_source_epg \/ remove_selected_source
    \/ save_begins \/ save_finishes
    \/ user_reloads \/ reload_begins \/ reload_builds \/ reload_commits
    \/ select_added \/ refresh_selected_source \/ refresh_all
    \/ play_channel \/ tv_lease_lost
    \/ worker_takes \/ worker_snapshots \/ worker_fetches \/ worker_rebuilds
    \/ worker_builds \/ worker_commits \/ worker_finishes \/ worker_job_finished
    \/ worker_exits
    \/ suspend \/ quiesced \/ resume \/ power_lost

IptvSpec == IptvInit /\ [][IptvNext]_IptvVars

-----------------------------------------------------------------------------
IptvTypeOK ==
    /\ card.tsv.list \subseteq Sources /\ card.bak.list \subseteq Sources
    /\ card.txt \subseteq Sources /\ card.cached \subseteq Sources
    /\ catalog.sources \subseteq Sources /\ catalog.channels \subseteq Sources
    /\ catalog.selected \in catalog.sources \cup {0}
    /\ Len(catalog.recent) <= MaxRecent
    /\ refresh.source \in Sources \cup {0}
    /\ rebuild.by \in {"nobody", "user", "worker"}
    /\ suspender \in {"idle", "waiting", "suspended"}

\* Nobody is in the middle of something.
IptvQuiet == catalog.up /\ user.at = "idle" /\ job.at \in {"wait", "none"}

\* The user's sources are neither lost nor stuck wherever the power goes, as
\* long as no save of the user's ran beside a rebuild: a source that was saved
\* and not removed is on the card, in sources.tsv or in its backup; once nobody
\* is busy the list in memory is the saved one, unless the last save or reload
\* failed or only the backup is left; and a refresh that is shown as running is
\* one the worker will do, unless the network was resumed while the worker was
\* still leaving the refresh that the suspension broke off (g_refreshing may then
\* stay set with nothing asked for, which refuses every later refresh, addition
\* and removal until a restart).
SourcesKept ==
    ~raced =>
        /\ kept \subseteq card.tsv.list \cup card.bak.list
        /\ IptvQuiet =>
            /\ card.tsv.present /\ ~catalog.stale => catalog.sources = card.tsv.list
            /\ ~hasty /\ refresh.refreshing => refresh.all \/ refresh.source # 0
=============================================================================
