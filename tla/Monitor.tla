------------------------------ MODULE Monitor ------------------------------
(***************************************************************************)
(* gnomevfs.monitor_add and monitor_cancel (gnomevfs/vfsmodule.c): the     *)
(* table that maps the integer ids given to Python to GnomeVFS monitors,   *)
(* the PyGVFSCustomNotify record of each monitor, and the marshaller that  *)
(* GnomeVFS calls from the main loop for each event.                       *)
(*                                                                         *)
(* monitor_add gives the GIL up around gnome_vfs_monitor_add, so it is two *)
(* steps: several threads may be between them, and events of a monitor may *)
(* arrive before its id exists.  The marshaller is three: GnomeVFS calls   *)
(* it and it waits for the GIL, it calls Python, Python returns.           *)
(***************************************************************************)
EXTENDS Integers, Sequences, FiniteSets

CONSTANTS
    Monitors,   \* calls of monitor_add
    Half,       \* 2^31 in the code: a gint holds -Half .. Half - 1
    MaxWatched, \* bound: monitors between monitor_add and monitor_cancel
    MaxDepth,   \* bound: nested marshallers
    NULL

Ids == -Half .. Half - 1

ASSUME MonitorConstants ==
    /\ Half \in Nat \ {0}
    /\ MaxWatched \in 1 .. 2 * Half
    /\ MaxDepth \in Nat
    /\ NULL \notin Monitors
    /\ NULL \notin Int

VARIABLES
    monitor_hash,       \* id -> monitor, NULL where the table has no entry
    monitor_id_counter,
    increments,         \* history: how often the counter was incremented
    status,             \* progress of each monitor
    issued,             \* the id monitor_add returned
    cunote,             \* the record: "none", "live" or "freed"
    waiting,            \* the monitor whose marshaller waits for the GIL
    calling             \* monitors whose Python callback runs, innermost last

vars == <<monitor_hash, monitor_id_counter, increments, status, issued,
          cunote, waiting, calling>>

\* "watched": GnomeVFS watches, but monitor_add has not the GIL back yet.
Statuses == {"new", "adding", "failed", "watched", "active", "cancelled"}

TypeOK ==
    /\ monitor_hash \in [Ids -> Monitors \cup {NULL}]
    /\ monitor_id_counter \in Ids
    /\ increments \in Nat
    /\ status \in [Monitors -> Statuses]
    /\ issued \in [Monitors -> Ids \cup {NULL}]
    /\ cunote \in [Monitors -> {"none", "live", "freed"}]
    /\ waiting \in Monitors \cup {NULL}
    /\ calling \in Seq(Monitors)

Init ==
    /\ monitor_hash = [i \in Ids |-> NULL]
    /\ monitor_id_counter = 0
    /\ increments = 0
    /\ status = [m \in Monitors |-> "new"]
    /\ issued = [m \in Monitors |-> NULL]
    /\ cunote = [m \in Monitors |-> "none"]
    /\ waiting = NULL
    /\ calling = <<>>

-----------------------------------------------------------------------------
\* monitor_id_counter after k increments, k <= 2 * Half.  Overflow of a
\* signed integer wraps in every build of this code.
Advance(c, k) == IF c + k < Half THEN c + k ELSE c + k - 2 * Half

\* Mutant: the table is not consulted.
LoopRunsOnce(k) == k = 1

\* do monitor_id = ++monitor_id_counter; while the table has monitor_id: k is
\* how often the loop body runs.
LoopRuns(k) ==
    /\ monitor_hash[Advance(monitor_id_counter, k)] = NULL
    /\ \A j \in 1 .. k - 1 :
          monitor_hash[Advance(monitor_id_counter, j)] # NULL

\* Up to the point where monitor_add gives up the GIL.
pygvfs_monitor_add_begin(m) ==
    /\ status[m] = "new"
    /\ Cardinality({n \in Monitors :
          status[n] \in {"adding", "watched", "active"}}) < MaxWatched
    /\ status' = [status EXCEPT ![m] = "adding"]
    /\ cunote' = [cunote EXCEPT ![m] = "live"]
    /\ UNCHANGED <<monitor_hash, monitor_id_counter, increments, issued,
                   waiting, calling>>

\* gnome_vfs_monitor_add, without the GIL.
gnome_vfs_monitor_add(m) ==
    /\ status[m] = "adding"
    /\ \E s \in {"watched", "failed"} : status' = [status EXCEPT ![m] = s]
    /\ UNCHANGED <<monitor_hash, monitor_id_counter, increments, issued,
                   cunote, waiting, calling>>

\* Mutant: the counter is wider than the ids and does not wrap.
add_end_wide_counter(m) ==
    /\ status[m] = "watched"
    /\ \E k \in 1 .. 2 * Half :
          LET id == Advance(monitor_id_counter, k) IN
          /\ LoopRuns(k)
          /\ monitor_id_counter' = monitor_id_counter + k
          /\ increments' = increments + k
          /\ monitor_hash' = [monitor_hash EXCEPT ![id] = m]
          /\ issued' = [issued EXCEPT ![m] = id]
    /\ status' = [status EXCEPT ![m] = "active"]
    /\ UNCHANGED <<cunote, waiting, calling>>

\* With the GIL again: the id is chosen and entered in the table.  (After a
\* failure the call only raises; the record is not given back.)
pygvfs_monitor_add_end(m) ==
    /\ status[m] = "watched"
    /\ \E k \in 1 .. 2 * Half :
          LET id == Advance(monitor_id_counter, k) IN
          /\ LoopRuns(k)
          /\ monitor_id_counter' = id
          /\ increments' = increments + k
          /\ monitor_hash' = [monitor_hash EXCEPT ![id] = m]
          /\ issued' = [issued EXCEPT ![m] = id]
    /\ status' = [status EXCEPT ![m] = "active"]
    /\ UNCHANGED <<cunote, waiting, calling>>

\* Mutant: the record is freed as soon as its monitor is cancelled.
cancel_frees_record(id) ==
    /\ monitor_hash[id] # NULL
    /\ status' = [status EXCEPT ![monitor_hash[id]] = "cancelled"]
    /\ monitor_hash' = [monitor_hash EXCEPT ![id] = NULL]
    /\ cunote' = [cunote EXCEPT ![monitor_hash[id]] = "freed"]
    /\ UNCHANGED <<monitor_id_counter, increments, issued, waiting, calling>>

\* Mutant: the counter is set back so that the id can be used again.
cancel_recycles_id(id) ==
    /\ monitor_hash[id] # NULL
    /\ status' = [status EXCEPT ![monitor_hash[id]] = "cancelled"]
    /\ monitor_hash' = [monitor_hash EXCEPT ![id] = NULL]
    /\ monitor_id_counter' = IF id = -Half THEN Half - 1 ELSE id - 1
    /\ UNCHANGED <<increments, issued, cunote, waiting, calling>>

\* monitor_cancel with any integer; an unknown id raises ValueError and
\* changes nothing.  The record is not freed.
pygvfs_monitor_cancel(id) ==
    /\ monitor_hash[id] # NULL
    /\ status' = [status EXCEPT ![monitor_hash[id]] = "cancelled"]
    /\ monitor_hash' = [monitor_hash EXCEPT ![id] = NULL]
    /\ UNCHANGED <<monitor_id_counter, increments, issued, cunote, waiting,
                   calling>>

-----------------------------------------------------------------------------
\* The main loop calls the marshaller, which blocks in pyg_gil_state_ensure.
\* GnomeVFS delivers nothing once a monitor is cancelled, but a marshaller
\* that already waits is not called back.
MarshalEnter(m) ==
    /\ waiting = NULL
    /\ Len(calling) < MaxDepth
    /\ status[m] \in {"watched", "active"}
    /\ waiting' = m
    /\ UNCHANGED <<monitor_hash, monitor_id_counter, increments, status,
                   issued, cunote, calling>>

\* The GIL is there: cunote->func and cunote->data are read and called.
pygvfs_monitor_marshal ==
    /\ waiting # NULL
    /\ calling' = Append(calling, waiting)
    /\ waiting' = NULL
    /\ UNCHANGED <<monitor_hash, monitor_id_counter, increments, status,
                   issued, cunote>>

\* The callback returns; the main loop thread is not waiting elsewhere.
MarshalReturn ==
    /\ calling # <<>>
    /\ waiting = NULL
    /\ calling' = SubSeq(calling, 1, Len(calling) - 1)
    /\ UNCHANGED <<monitor_hash, monitor_id_counter, increments, status,
                   issued, cunote, waiting>>

Next ==
    \/ \E m \in Monitors :
          \/ pygvfs_monitor_add_begin(m)
          \/ gnome_vfs_monitor_add(m)
          \/ pygvfs_monitor_add_end(m)
          \/ MarshalEnter(m)
    \/ \E id \in Ids : pygvfs_monitor_cancel(id)
    \/ pygvfs_monitor_marshal
    \/ MarshalReturn

Spec == Init /\ [][Next]_vars

-----------------------------------------------------------------------------
(***************************************************************************)
(* Properties.                                                             *)
(***************************************************************************)

\* The table is exact: the id monitor_add returned names its monitor until
\* it is cancelled and nothing afterwards, however many threads add at the
\* same time and also once the counter has wrapped.  So no monitor is lost
\* (overwritten by another) and no cancel hits a foreign monitor.
TableExact ==
    \A m \in Monitors, id \in Ids :
        monitor_hash[id] = m <=> status[m] = "active" /\ issued[m] = id

\* Before the counter has gone round all the values of a gint no two calls
\* of monitor_add ever return the same id, those cancelled in between
\* included: a stale id is refused and never cancels somebody else's monitor.
StaleIdsRefused ==
    increments < 2 * Half =>
        \A m, n \in Monitors :
            m # n /\ issued[m] # NULL => issued[m] # issued[n]

\* What makes StaleIdsRefused inductive: in the first round the counter is
\* the number of increments, wrapped, and has passed every id issued.
Unwrapped(id) == IF id > 0 THEN id ELSE id + 2 * Half

FirstRound ==
    increments < 2 * Half =>
        /\ monitor_id_counter = Advance(0, increments)
        /\ \A m \in Monitors : issued[m] # NULL =>
              Unwrapped(issued[m]) \in 1 .. increments

\* The marshaller never reads a freed record, also when the monitor was
\* cancelled while it waited for the GIL.
RecordOutlivesEvents ==
    /\ waiting # NULL => cunote[waiting] = "live"
    /\ \A m \in Monitors : status[m] \in {"watched", "active"} =>
          cunote[m] = "live"

=============================================================================
