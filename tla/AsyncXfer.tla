----------------------------- MODULE AsyncXfer -----------------------------
(***************************************************************************)
(* gnomevfs.async.xfer (gnomevfs/vfs-async-handle.c) with its two Python   *)
(* callbacks: progress_sync_callback, which GnomeVFS calls in the job      *)
(* thread (pygvfs_xfer_progress_callback, gnomevfs/vfsmodule.c), and       *)
(* progress_update_callback, which it calls in the main loop.  Both live   *)
(* in one PyGVFSAsyncXferData block, full_data, that the update callback   *)
(* frees when it sees the phase COMPLETED.                                 *)
(*                                                                         *)
(* The job thread reports each stage first to the sync callback and then   *)
(* to the update callback, for which it waits; stage COMPLETED is the last *)
(* one.  A cancel discards an update that is queued.  This is GnomeVFS,    *)
(* modelled from how the wrapper relies on it.                             *)
(***************************************************************************)
EXTENDS Integers, FiniteSets

CONSTANTS
    Xfers,      \* transfers
    MaxStages,  \* bound: stages reported before COMPLETED
    MaxHandles  \* bound: gnomevfs.async.Handle wrappers of one transfer

ASSUME XferConstants == MaxStages \in Nat /\ MaxHandles \in Nat \ {0}

VARIABLES
    full_data,  \* "none", "live" or "freed"
    frees,      \* how often full_data was freed
    sync,       \* a sync callback was given
    job,        \* where the job thread is
    stage,      \* stages reported so far
    completed,  \* the stage being reported is COMPLETED
    abort,      \* a callback answered ABORT
    linked,     \* progress info wrappers that point to the C structure
    phase,      \* info->phase: "own", as GnomeVFS set it, or what Python did
    assigned,   \* history: what Python assigned to it
    handles,    \* wrappers the program has, each with its own fd
    cancelled   \* gnome_vfs_async_cancel was called

vars == <<full_data, frees, sync, job, stage, completed, abort, linked,
          phase, assigned, handles, cancelled>>

\* "sync_wait" and "update_wait": the callback was called and waits for the
\* GIL; "sync" and "update": Python runs; "queued": the update is in the main
\* loop; "between": the job thread works.
JobStates == {"none", "failed", "between", "sync_wait", "sync", "synced",
              "queued", "update_wait", "update", "ended"}

TypeOK ==
    /\ full_data \in [Xfers -> {"none", "live", "freed"}]
    /\ frees \in [Xfers -> Nat]
    /\ sync \in [Xfers -> BOOLEAN]
    /\ job \in [Xfers -> JobStates]
    /\ stage \in [Xfers -> 0 .. MaxStages]
    /\ completed \in [Xfers -> BOOLEAN]
    /\ abort \in [Xfers -> BOOLEAN]
    /\ linked \in [Xfers -> BOOLEAN]
    /\ phase \in [Xfers -> {"own", "COMPLETED", "other"}]
    /\ assigned \in [Xfers -> SUBSET {"COMPLETED", "other"}]
    /\ handles \in [Xfers -> 0 .. MaxHandles]
    /\ cancelled \in [Xfers -> BOOLEAN]

Init ==
    /\ full_data = [x \in Xfers |-> "none"]
    /\ frees = [x \in Xfers |-> 0]
    /\ sync = [x \in Xfers |-> FALSE]
    /\ job = [x \in Xfers |-> "none"]
    /\ stage = [x \in Xfers |-> 0]
    /\ completed = [x \in Xfers |-> FALSE]
    /\ abort = [x \in Xfers |-> FALSE]
    /\ linked = [x \in Xfers |-> FALSE]
    /\ phase = [x \in Xfers |-> "own"]
    /\ assigned = [x \in Xfers |-> {}]
    /\ handles = [x \in Xfers |-> 0]
    /\ cancelled = [x \in Xfers |-> FALSE]

\* The job thread goes on; with the transfer its progress info ends.
GotoPhase(x, s, p) ==
    job' = [job EXCEPT ![x] = s] /\ phase' = [phase EXCEPT ![x] = p]
Goto(x, s) == GotoPhase(x, s, IF s = "ended" THEN "own" ELSE phase[x])

-----------------------------------------------------------------------------
(***************************************************************************)
(* Python: starting and cancelling.                                        *)
(***************************************************************************)

\* Arguments that are refused raise and give full_data back (all but those
\* that do not parse); a transfer that GnomeVFS refuses raises and keeps it.
pygvfs_async_xfer(x) ==
    /\ job[x] = "none"
    /\ full_data' = [full_data EXCEPT ![x] = "live"]
    /\ \E s \in BOOLEAN : sync' = [sync EXCEPT ![x] = s]
    /\ \/ Goto(x, "between") /\ handles' = [handles EXCEPT ![x] = 1]
       \/ Goto(x, "failed") /\ UNCHANGED handles
    /\ UNCHANGED <<frees, stage, completed, abort, linked, assigned, cancelled>>

\* Mutant: the block is freed when the transfer is cancelled.
cancel_frees_data(x) ==
    /\ handles[x] > 0
    /\ handles' = [handles EXCEPT ![x] = @ - 1]
    /\ cancelled' = [cancelled EXCEPT ![x] = TRUE]
    /\ IF job[x] = "queued" THEN Goto(x, "ended")
                          ELSE UNCHANGED <<job, phase>>
    /\ full_data' = [full_data EXCEPT ![x] = "freed"]
    /\ UNCHANGED <<frees, sync, stage, completed, abort, linked, assigned>>

\* Mutant: self->fd is not checked.
cancel_unchecked(x) ==
    /\ job[x] # "none"
    /\ handles' = [handles EXCEPT ![x] = @ - 1]
    /\ cancelled' = [cancelled EXCEPT ![x] = TRUE]
    /\ IF job[x] = "queued" THEN Goto(x, "ended")
                          ELSE UNCHANGED <<job, phase>>
    /\ UNCHANGED <<full_data, frees, sync, stage, completed, abort, linked,
                   assigned>>

\* Handle.cancel on any of the wrappers: the one async.xfer returned or one
\* that an update callback got.  Its fd is reset; the others keep theirs,
\* and cancelling once more, or after the end, is ignored by GnomeVFS.
pygvhandle_cancel(x) ==
    /\ handles[x] > 0
    /\ handles' = [handles EXCEPT ![x] = @ - 1]
    /\ cancelled' = [cancelled EXCEPT ![x] = TRUE]
    /\ IF job[x] = "queued" THEN Goto(x, "ended")
                          ELSE UNCHANGED <<job, phase>>
    /\ UNCHANGED <<full_data, frees, sync, stage, completed, abort, linked,
                   assigned>>

-----------------------------------------------------------------------------
(***************************************************************************)
(* GnomeVFS: the job thread.                                               *)
(***************************************************************************)

Reported(x) == IF sync[x] THEN "sync_wait" ELSE "synced"

\* The next stage is reported; after an ABORT or a cancel only COMPLETED.
\* info->phase is set at the start of a phase, which may have many stages.
LibStage(x) ==
    /\ job[x] = "between"
    /\ ~completed[x]
    /\ \/ /\ ~abort[x] /\ ~cancelled[x]
          /\ stage[x] < MaxStages
          /\ stage' = [stage EXCEPT ![x] = @ + 1]
          /\ \E p \in {phase[x], "own"} : GotoPhase(x, Reported(x), p)
          /\ UNCHANGED completed
       \/ /\ completed' = [completed EXCEPT ![x] = TRUE]
          /\ GotoPhase(x, Reported(x), "own")
          /\ UNCHANGED stage
    /\ UNCHANGED <<full_data, frees, sync, abort, linked, assigned, handles,
                   cancelled>>

\* The update of the stage is queued, unless the transfer was cancelled.
LibQueueUpdate(x) ==
    /\ job[x] = "synced"
    /\ Goto(x, IF ~cancelled[x] THEN "queued"
               ELSE IF completed[x] THEN "ended" ELSE "between")
    /\ UNCHANGED <<full_data, frees, sync, stage, completed, abort, linked,
                   assigned, handles, cancelled>>

\* The main loop calls the update callback.
LibUpdate(x) ==
    /\ job[x] = "queued"
    /\ \A y \in Xfers : job[y] # "update_wait"
    /\ Goto(x, "update_wait")
    /\ UNCHANGED <<full_data, frees, sync, stage, completed, abort, linked,
                   assigned, handles, cancelled>>

-----------------------------------------------------------------------------
(***************************************************************************)
(* The callbacks.                                                          *)
(***************************************************************************)

\* Either callback, with the GIL: full_data is read and Python called with a
\* new wrapper around the progress info.
pygvfs_xfer_progress_callback(x) ==
    /\ job[x] = "sync_wait"
    /\ Goto(x, "sync")
    /\ linked' = [linked EXCEPT ![x] = TRUE]
    /\ UNCHANGED <<full_data, frees, sync, stage, completed, abort,
                   assigned, handles, cancelled>>

pygvfs_async_xfer_progress_callback(x) ==
    /\ job[x] = "update_wait"
    /\ Goto(x, "update")
    /\ linked' = [linked EXCEPT ![x] = TRUE]
    /\ \E keep \in BOOLEAN :   \* the program may keep the handle passed
          /\ keep => handles[x] < MaxHandles
          /\ handles' = [handles EXCEPT ![x] = @ + IF keep THEN 1 ELSE 0]
    /\ UNCHANGED <<full_data, frees, sync, stage, completed, abort,
                   assigned, cancelled>>

\* Python assigns progress_info.phase.  setattr does it, and answers -1
\* (with no exception set) all the same, as for every attribute.
xfer_progress_info_setattr(x, p) ==
    /\ linked[x]
    /\ phase' = [phase EXCEPT ![x] = p]
    /\ assigned' = [assigned EXCEPT ![x] = @ \cup {p}]
    /\ UNCHANGED <<full_data, frees, sync, job, stage, completed, abort, linked,
                   handles, cancelled>>

\* Mutant: an exception returns before the wrapper is unlinked.
UnlinksUnlessError(error) == ~error

\* The wrapper is unlinked whatever the callback did.
Unlinks(error) == TRUE

\* An exception, or an answer that is not an int, is ABORT.
Answer(x, error) ==
    /\ abort' = [abort EXCEPT ![x] = @ \/ error]
    /\ linked' = [linked EXCEPT ![x] = ~Unlinks(error)]

SyncReturn(x) ==
    /\ job[x] = "sync"
    /\ \E error \in BOOLEAN : Answer(x, error)
    /\ Goto(x, "synced")
    /\ UNCHANGED <<full_data, frees, sync, stage, completed, assigned,
                   handles, cancelled>>

\* info->phase == GNOME_VFS_XFER_PHASE_COMPLETED, read after the callback.
PhaseCompleted(x) ==
    phase[x] = "COMPLETED" \/ (phase[x] = "own" /\ completed[x])

\* Mutant: the block is freed unless the callback failed.
FreesDataIfOK(x, error) == PhaseCompleted(x) /\ ~error

\* What makes the update callback free full_data.
FreesData(x, error) == PhaseCompleted(x)

UpdateReturn(x) ==
    /\ job[x] = "update"
    /\ \E error \in BOOLEAN :
          /\ Answer(x, error)
          /\ IF FreesData(x, error)
             THEN /\ full_data' = [full_data EXCEPT ![x] = "freed"]
                  /\ frees' = [frees EXCEPT ![x] = @ + 1]
             ELSE UNCHANGED <<full_data, frees>>
    /\ Goto(x, IF completed[x] THEN "ended" ELSE "between")
    /\ UNCHANGED <<sync, stage, completed, assigned, handles, cancelled>>

-----------------------------------------------------------------------------
Callback(x) ==
    \/ pygvfs_xfer_progress_callback(x)
    \/ pygvfs_async_xfer_progress_callback(x)
    \/ SyncReturn(x)
    \/ UpdateReturn(x)

Lib(x) == LibStage(x) \/ LibQueueUpdate(x) \/ LibUpdate(x)

Next ==
    \E x \in Xfers :
        \/ pygvfs_async_xfer(x)
        \/ pygvhandle_cancel(x)
        \/ Lib(x)
        \/ Callback(x)
        \/ \E p \in {"COMPLETED", "other"} : xfer_progress_info_setattr(x, p)

\* Job threads and the main loop run, and callbacks return.
Fairness == \A x \in Xfers : WF_vars(Lib(x)) /\ WF_vars(Callback(x))

Spec == Init /\ [][Next]_vars
FairSpec == Spec /\ Fairness

-----------------------------------------------------------------------------
(***************************************************************************)
(* Properties.                                                             *)
(***************************************************************************)

InCallback(x) == job[x] \in {"sync_wait", "sync", "update_wait", "update"}

\* Neither callback uses full_data after it was freed: the sync callback in
\* the job thread included, also when the transfer is cancelled while a
\* callback waits for the GIL or the update of an earlier stage failed.  The
\* one thing that breaks this is a callback that assigns COMPLETED to
\* progress_info.phase, which the update callback reads again.
DataOutlivesCallbacks ==
    \A x \in Xfers : "COMPLETED" \notin assigned[x] =>
        /\ InCallback(x) \/ job[x] \in {"between", "synced", "queued"} =>
              full_data[x] = "live"
        /\ frees[x] <= 1

\* A progress info wrapper that the program kept points to the C structure
\* only while GnomeVFS lends the structure to a callback ("we remove the
\* link from the python wrapper to the C structure").
LinkOnlyInCallback ==
    \A x \in Xfers : linked[x] => job[x] \in {"sync", "update"}

\* full_data is left behind only by a cancel, by a transfer that GnomeVFS
\* refused to start, and if a callback hid the phase COMPLETED.
XferLeaksOnlyOnCancel ==
    \A x \in Xfers :
        full_data[x] = "live" /\ job[x] \in {"ended", "failed"} =>
            \/ cancelled[x] \/ job[x] = "failed"
            \/ "other" \in assigned[x]

\* Every transfer that was started ends, and unless it was cancelled, or the
\* phase COMPLETED was hidden, its memory is given back, whatever its
\* callbacks answer.
XferEnds ==
    \A x \in Xfers :
        job[x] = "between" ~>
            /\ job[x] = "ended"
            /\ full_data[x] = "freed" \/ cancelled[x] \/ "other" \in assigned[x]

=============================================================================
