------------------------------- MODULE HubLog -------------------------------
(***************************************************************************)
(* The logs of storage/local_db.py, written by the control task (main.py), *)
(* read and marked by storage/hub_sync.py, thinned by cleanup_retention,   *)
(* all over one SQLite connection and in tasks that take turns at every    *)
(* await.                                                                  *)
(*                                                                         *)
(* log is what the connection sees, logDisk what is committed.  A write    *)
(* may fail at its statement, which leaves nothing, or at its commit,      *)
(* which leaves the statement to whoever commits next.                     *)
(***************************************************************************)
EXTENDS Integers, FiniteSets

CONSTANTS
    Table, Place,  \* HubSync.TABLES, which cleanup_retention takes too, and their order
    BatchSize,     \* batch_size
    RetentionDays,
    MaxRows, LastDay, MaxLogFaults   \* bounds: rows of a table, days, failed writes
                                     \* and crashes together

ASSUME HubLogAssumption ==
    /\ Place \in [Table -> Nat] /\ BatchSize \in Nat \ {0} /\ RetentionDays \in Nat \ {0}
    /\ MaxRows \in Nat /\ LastDay \in Nat \ {0} /\ MaxLogFaults \in Nat

VARIABLES
    log, logDisk,  \* rows, and sqlite_sequence: the highest id ever given
    logDay,        \* today
    hub,           \* the hub task: its table is the one it reads or marks
    thinning,      \* cleanup_retention: the tables it has not come to yet
    logFaults,
    taken          \* history: the rows the hub has read

hubVars == <<log, logDisk, logDay, hub, thinning, logFaults, taken>>

Row == [table : Table, id : 1..MaxRows, day : 1..LastDay, synced : BOOLEAN]
NoTable == "none"
NoThinning == [on |-> FALSE, left |-> {}]

\* The one of S whose turn it is.
FirstIn(S) == {t \in S : \A u \in S : Place[t] <= Place[u]}

HubTypeOK ==
    /\ {log, logDisk} \subseteq [rows : SUBSET Row, seq : [Table -> 0..MaxRows]]
    /\ logDay \in 1..LastDay
    /\ hub \in [dry : BOOLEAN, left : SUBSET Table, table : Table \cup {NoTable}, last : 0..MaxRows]
    /\ thinning \in [on : BOOLEAN, left : SUBSET Table]
    /\ logFaults \in 0..MaxLogFaults
    /\ taken \subseteq Row

HubInit ==
    /\ log = [rows |-> {}, seq |-> [t \in Table |-> 0]] /\ logDisk = log
    /\ logDay = 1
    /\ hub \in [dry : BOOLEAN, left : {{}}, table : {NoTable}, last : {0}]
    /\ thinning = NoThinning /\ logFaults = 0 /\ taken = {}

------------------------------------------------------------------------------
(* local_db.                                                               *)

LogCommitted(new) == log' = new /\ logDisk' = new /\ UNCHANGED logFaults

\* The statement fails, or its commit does.
LogNotCommitted(new) ==
    /\ logFaults < MaxLogFaults /\ logFaults' = logFaults + 1
    /\ log' \in {log, new} /\ UNCHANGED logDisk

\* Mutant: an id that is free is given again (no AUTOINCREMENT).
WithRowOfFreeId(t) ==
    LET ids == {r.id : r \in {q \in log.rows : q.table = t}}
        free == CHOOSE n \in 1..MaxRows : n \notin ids
    IN  [seq |-> [log.seq EXCEPT ![t] = @ + 1],
         rows |-> log.rows \cup {[table |-> t, id |-> free, day |-> logDay, synced |-> FALSE]}]

\* write_cycle, write_event, write_audit: ids only grow (AUTOINCREMENT).
WithRow(t) ==
    [seq |-> [log.seq EXCEPT ![t] = @ + 1],
     rows |-> log.rows \cup {[table |-> t, id |-> log.seq[t] + 1, day |-> logDay, synced |-> FALSE]}]

Unsynced(t) == {r \in log.rows : r.table = t /\ ~r.synced}

\* get_unsynced_rows: the lowest ids, at most a batch of them.
Fetched(t) == {r \in Unsynced(t) : Cardinality({q \in Unsynced(t) : q.id < r.id}) < BatchSize}

\* mark_synced: every unsynced row up to last.
WithMark(t, last) ==
    LET marked == {r \in Unsynced(t) : r.id <= last}
    IN  [log EXCEPT !.rows = (@ \ marked) \cup {[r EXCEPT !.synced = TRUE] : r \in marked}]

\* What is older goes, synced or not.  The comparison is one of strings, in which a row of the
\* day of the limit is never the smaller one.
WithoutOld(t) == [log EXCEPT !.rows = {r \in @ : r.table = t => r.day >= logDay - RetentionDays}]

------------------------------------------------------------------------------
(* The tasks.                                                              *)

\* The end of a cycle, or the state of charge at midnight; a failure is ignored.
Persist ==
    /\ \E t \in Table :
         /\ log.seq[t] < MaxRows
         /\ LogCommitted(WithRow(t)) \/ LogNotCommitted(WithRow(t))
    /\ UNCHANGED <<logDay, hub, thinning, taken>>

\* A DELETE of its own for each table; if one fails, those before it are left to whoever commits
\* next.  A run that begins when no row is old is left out.
CleanupRetention ==
    /\ thinning.on \/ \E t \in Table : WithoutOld(t) # log
    /\ LET left == IF thinning.on THEN thinning.left ELSE Table
       IN  \E t \in FirstIn(left) :
             \/ /\ log' = WithoutOld(t) /\ UNCHANGED logFaults
                /\ thinning' = [on |-> TRUE, left |-> left \ {t}]
             \/ /\ logFaults < MaxLogFaults /\ logFaults' = logFaults + 1 /\ UNCHANGED log
                /\ thinning' = NoThinning
    /\ UNCHANGED <<logDisk, logDay, hub, taken>>

\* One commit after the last of them.
CommitCleanup ==
    /\ thinning.on /\ thinning.left = {} /\ thinning' = NoThinning
    /\ LogCommitted(log) \/ LogNotCommitted(log)
    /\ UNCHANGED <<logDay, hub, taken>>

Sync ==
    /\ hub.left = {}
    /\ hub' = [hub EXCEPT !.left = Table]
    /\ UNCHANGED <<log, logDisk, logDay, thinning, logFaults, taken>>

\* A table is done without a mark if nothing is unsynced, or if this is a dry run.
ReadTable ==
    /\ hub.table = NoTable
    /\ \E t \in FirstIn(hub.left) :
         LET rows == Fetched(t)
         IN  IF rows = {} \/ hub.dry
             THEN hub' = [hub EXCEPT !.left = @ \ {t}] /\ UNCHANGED taken
             ELSE /\ \E r \in rows :
                       /\ \A q \in rows : q.id <= r.id
                       /\ hub' = [hub EXCEPT !.table = t, !.last = r.id]
                  /\ taken' = taken \cup rows
    /\ UNCHANGED <<log, logDisk, logDay, thinning, logFaults>>

\* An error of SQLite is none of those sync() catches: it ends the pass.
MarkTable ==
    /\ hub.table # NoTable
    /\ \/ /\ LogCommitted(WithMark(hub.table, hub.last))
          /\ hub' = [hub EXCEPT !.left = @ \ {hub.table}, !.table = NoTable, !.last = 0]
       \/ /\ LogNotCommitted(WithMark(hub.table, hub.last))
          /\ hub' = [hub EXCEPT !.left = {}, !.table = NoTable, !.last = 0]
    /\ UNCHANGED <<logDay, thinning, taken>>

NewLogDay ==
    /\ logDay < LastDay /\ logDay' = logDay + 1
    /\ UNCHANGED <<log, logDisk, hub, thinning, logFaults, taken>>

\* The process dies and comes back, initialize() included.
HubRestart ==
    /\ logFaults < MaxLogFaults /\ logFaults' = logFaults + 1
    /\ log' = logDisk /\ thinning' = NoThinning /\ UNCHANGED <<logDisk, logDay>>
    /\ hub' = [hub EXCEPT !.left = {}, !.table = NoTable, !.last = 0]
    /\ taken' = {r \in taken : r.id <= logDisk.seq[r.table]}

HubNext ==
    \/ Sync \/ ReadTable \/ MarkTable
    \/ CleanupRetention \/ CommitCleanup
    \/ Persist \/ NewLogDay \/ HubRestart

HubSpec == HubInit /\ [][HubNext]_hubVars

------------------------------------------------------------------------------
(* Properties.                                                             *)

\* A row counts as synced only if the hub task has read it, also when rows are written or thinned
\* between its reading and its marking; a dry run marks nothing.  That what was read is
\* inserted anywhere is not said: the code between the two inserts nothing.
MarkedWereRead ==
    \A r \in log.rows : r.synced => ~hub.dry /\ [r EXCEPT !.synced = FALSE] \in taken
=============================================================================
