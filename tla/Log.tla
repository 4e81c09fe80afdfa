-------------------------------- MODULE Log --------------------------------
(***************************************************************************)
(* The log (source/log/log.c): every thread writes lines into a bounded    *)
(* ring, whose oldest line gives way when it is full; one worker moves the *)
(* lines to the history, tells of those that were dropped and sends what   *)
(* it moved to the debugging socket with no lock held.  main starts and    *)
(* stops the worker.                                                       *)
(*                                                                         *)
(* A line is the number of its enqueue.  Levels, formatting and the        *)
(* socket's own losses are left out.                                       *)
(***************************************************************************)
EXTENDS Naturals, Sequences, FiniteSets

CONSTANTS
    Writers,           \* threads that log
    QueueSize,         \* LOG_QUEUE_CAPACITY
    HistorySize,       \* LOG_HISTORY_CAPACITY
    MaxLines,          \* bound on the lines written
    MaxLogStarts       \* bound on log_runtime_init

ASSUME LogAssumption ==
    /\ QueueSize \in Nat \ {0} /\ HistorySize \in Nat \ {0}
    /\ MaxLines \in Nat /\ MaxLogStarts \in Nat

VARIABLES
    log,        \* the g_log* state under g_logMutex
    mover,      \* log_worker_thread
    owner,      \* the thread in log_runtime_init or log_runtime_shutdown
    writing,    \* the writers between vlog_write's two locks
    told_of     \* what became of the lines (history variable)

LogVars == <<log, mover, owner, writing, told_of>>

Notice == MaxLines + 1     \* "log queue full, dropped n messages" in the history
NoMover == [at |-> "none", line |-> 0, dropped |-> 0]

LogInit ==
    /\ log = [ring |-> [i \in 0 .. QueueSize - 1 |-> 0], head |-> 0, tail |-> 0, count |-> 0,
              dropped |-> 0, dropped_total |-> 0, enqueued |-> 0, processed |-> 0,
              stop |-> FALSE, started |-> FALSE,
              history |-> [i \in 0 .. HistorySize - 1 |-> 0], history_head |-> 0, history_count |-> 0]
    /\ mover = NoMover
    /\ owner = [at |-> "idle", starts |-> 0]
    /\ writing = {}
    /\ told_of = [moved |-> {}, announced |-> 0, cleared |-> 0, forgotten |-> 0]

-----------------------------------------------------------------------------
(* vlog_write *)

\* The level is read under the lock, the line is formatted without it ...
vlog_begins(w) ==
    /\ w \notin writing
    /\ log.enqueued + Cardinality(writing) < MaxLines
    /\ writing' = writing \cup {w}
    /\ UNCHANGED <<log, mover, owner, told_of>>

\* A plausible slip: the slot is taken back and the head is left where it was.
mutant_made_room(l) ==
    IF l.count < QueueSize THEN l
    ELSE [l EXCEPT !.count = @ - 1, !.dropped = @ + 1, !.dropped_total = @ + 1]

\* ... a full ring gives up its oldest line ...
made_room(l) ==
    IF l.count < QueueSize THEN l
    ELSE [l EXCEPT !.head = (@ + 1) % QueueSize, !.count = @ - 1,
                   !.dropped = @ + 1, !.dropped_total = @ + 1]

\* ... and the line is put at the tail.
vlog_enqueues(w) ==
    /\ w \in writing
    /\ writing' = writing \ {w}
    /\ LET l == made_room(log)
       IN  log' = [l EXCEPT !.ring[l.tail] = l.enqueued + 1, !.tail = (@ + 1) % QueueSize,
                            !.count = @ + 1, !.enqueued = @ + 1]
    /\ UNCHANGED <<mover, owner, told_of>>

-----------------------------------------------------------------------------
(* log_worker_thread *)

\* The first lock: a line, else the number of those dropped; it leaves only
\* when there is neither.
mover_takes ==
    /\ mover.at = "top"
    /\ log.count > 0
    /\ mover' = [mover EXCEPT !.at = "append", !.line = log.ring[log.head]]
    /\ log' = [log EXCEPT !.ring[log.head] = 0, !.head = (@ + 1) % QueueSize, !.count = @ - 1]
    /\ UNCHANGED <<owner, writing, told_of>>

mover_takes_dropped ==
    /\ mover.at = "top"
    /\ log.count = 0 /\ log.dropped > 0
    /\ mover' = [mover EXCEPT !.at = "append", !.line = Notice, !.dropped = log.dropped]
    /\ log' = [log EXCEPT !.dropped = 0]
    /\ UNCHANGED <<owner, writing, told_of>>

mover_leaves ==
    /\ mover.at = "top"
    /\ log.stop /\ log.count = 0 /\ log.dropped = 0
    /\ mover' = [mover EXCEPT !.at = "exited"]
    /\ UNCHANGED <<log, owner, writing, told_of>>

\* append_history_locked: a full history loses its oldest entry.
appended(l, line) ==
    IF l.history_count < HistorySize
    THEN [l EXCEPT !.history[(l.history_head + l.history_count) % HistorySize] = line,
                   !.history_count = @ + 1]
    ELSE [l EXCEPT !.history[l.history_head] = line, !.history_head = (@ + 1) % HistorySize]

\* The second lock: into the history.
mover_appends ==
    /\ mover.at = "append"
    /\ log' = appended(log, mover.line)
    /\ mover' = [mover EXCEPT !.at = "mirror"]
    /\ told_of' = IF mover.line = Notice THEN [told_of EXCEPT !.announced = @ + mover.dropped]
                                         ELSE [told_of EXCEPT !.moved = @ \cup {mover.line}]
    /\ UNCHANGED <<owner, writing>>

\* Without memory for the notice it is given up.
mover_gives_up ==
    /\ mover.at = "append" /\ mover.line = Notice
    /\ mover' = [NoMover EXCEPT !.at = "top"]
    /\ told_of' = [told_of EXCEPT !.forgotten = @ + mover.dropped]
    /\ UNCHANGED <<log, owner, writing>>

\* write_line_to_mirror, of the line that the history owns by now.
mover_mirrors ==
    /\ mover.at = "mirror"
    /\ log' = [log EXCEPT !.processed = @ + 1]
    /\ mover' = [NoMover EXCEPT !.at = "top"]
    /\ UNCHANGED <<owner, writing, told_of>>

Mover == \/ mover_takes \/ mover_takes_dropped \/ mover_leaves
         \/ mover_appends \/ mover_gives_up \/ mover_mirrors

-----------------------------------------------------------------------------
\* log_runtime_init: started is set after the thread runs; creating it may fail.
log_init ==
    /\ owner.at = "idle" /\ ~log.started /\ owner.starts < MaxLogStarts
    /\ log' = [log EXCEPT !.stop = FALSE]
    /\ \/ owner' = [at |-> "starting", starts |-> owner.starts + 1] /\ mover' = [NoMover EXCEPT !.at = "top"]
       \/ owner' = [owner EXCEPT !.starts = @ + 1] /\ UNCHANGED mover
    /\ UNCHANGED <<writing, told_of>>

log_init_ends ==
    /\ owner.at = "starting"
    /\ owner' = [owner EXCEPT !.at = "idle"]
    /\ log' = [log EXCEPT !.started = TRUE]
    /\ UNCHANGED <<mover, writing, told_of>>

\* log_runtime_shutdown: the worker is told, joined, and what was written
\* after it had left is thrown away.
log_shutdown ==
    /\ owner.at = "idle" /\ log.started
    /\ owner' = [owner EXCEPT !.at = "join"]
    /\ log' = [log EXCEPT !.stop = TRUE]
    /\ UNCHANGED <<mover, writing, told_of>>

\* clear_queue_locked is part of it.
log_shutdown_ends ==
    /\ owner.at = "join" /\ mover.at = "exited"
    /\ owner' = [owner EXCEPT !.at = "idle"]
    /\ mover' = NoMover
    /\ told_of' = [told_of EXCEPT !.cleared = @ + log.count, !.forgotten = @ + log.dropped]
    /\ log' = [log EXCEPT !.ring = [i \in 0 .. QueueSize - 1 |-> 0], !.head = 0, !.tail = 0,
                          !.count = 0, !.dropped = 0, !.started = FALSE]
    /\ UNCHANGED writing

LogNext ==
    \/ \E w \in Writers : vlog_begins(w) \/ vlog_enqueues(w)
    \/ Mover
    \/ log_init \/ log_init_ends \/ log_shutdown \/ log_shutdown_ends

\* The worker is scheduled, and a join returns when the thread has ended.
LogFairness == WF_LogVars(Mover) /\ WF_LogVars(log_shutdown_ends)

LogSpec == LogInit /\ [][LogNext]_LogVars /\ LogFairness

-----------------------------------------------------------------------------
LogTypeOK ==
    /\ log.ring \in [0 .. QueueSize - 1 -> 0 .. MaxLines]
    /\ log.head \in 0 .. QueueSize - 1 /\ log.tail \in 0 .. QueueSize - 1
    /\ log.count \in 0 .. QueueSize /\ log.dropped \in 0 .. MaxLines
    /\ log.history \in [0 .. HistorySize - 1 -> 0 .. Notice] /\ log.history_count \in 0 .. HistorySize
    /\ mover.at \in {"none", "top", "append", "mirror", "exited"}
    /\ owner.at \in {"idle", "starting", "join"} /\ writing \subseteq Writers

\* Nothing is lost without being counted.  The ring holds the last lines
\* written, in their order; each line is in the ring, in the worker's hand, in
\* the history, dropped and counted, or cleared by a shutdown; each drop was
\* announced, is still to be, or was forgotten by a shutdown or for want of
\* memory; and the line sent to the socket is still in the history that owns it.
LogAccounts ==
    /\ log.tail = (log.head + log.count) % QueueSize
    /\ \A i \in 0 .. log.count - 1 :
          log.ring[(log.head + i) % QueueSize] = log.enqueued - log.count + 1 + i
    /\ LET in_hand == mover.at = "append" /\ mover.line # Notice
       IN  Cardinality(told_of.moved) + log.count + log.dropped_total + told_of.cleared
              + (IF in_hand THEN 1 ELSE 0) = log.enqueued
    /\ LET in_hand == IF mover.at = "append" THEN mover.dropped ELSE 0
       IN  told_of.announced + log.dropped + told_of.forgotten + in_hand = log.dropped_total
    /\ mover.at = "mirror" => \E i \in 0 .. HistorySize - 1 : log.history[i] = mover.line

\* The accounts are right, and a shutdown of the log ends: the worker empties
\* the ring and leaves (log.c:217-286, 325-350, 398-433).
LogSettles ==
    /\ [](LogTypeOK /\ LogAccounts)
    /\ owner.at = "join" ~> owner.at = "idle"
=============================================================================
