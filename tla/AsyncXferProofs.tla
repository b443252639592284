-------------------------- MODULE AsyncXferProofs --------------------------
(***************************************************************************)
(* Proofs about AsyncXfer, for any number of transfers and of stages: what *)
(* the callbacks use is alive, a wrapper is linked only while its callback *)
(* runs, and full_data is given back unless the transfer was cancelled.    *)
(***************************************************************************)
EXTENDS AsyncXfer, TLAPS

\* Every step keeps every variable in its type.
LEMMA TypeStep ==
    ASSUME TypeOK, [Next]_vars
    PROVE  TypeOK'
<1>1. ASSUME NEW x \in Xfers, pygvfs_async_xfer(x)
      PROVE  TypeOK'
  BY <1>1, XferConstants
     DEF TypeOK, JobStates, pygvfs_async_xfer, Goto, GotoPhase
<1>2. ASSUME NEW x \in Xfers, pygvhandle_cancel(x)
      PROVE  TypeOK'
  BY <1>2, XferConstants
     DEF TypeOK, JobStates, pygvhandle_cancel, Goto, GotoPhase
<1>3. ASSUME NEW x \in Xfers, LibStage(x)
      PROVE  TypeOK'
  <2>1. /\ Reported(x) \in JobStates
        /\ phase[x] \in {"own", "COMPLETED", "other"}
    BY DEF TypeOK, Reported, JobStates
  <2>2. PICK p \in {phase[x], "own"} : GotoPhase(x, Reported(x), p)
    BY <1>3 DEF LibStage
  <2>3. /\ job' \in [Xfers -> JobStates]
        /\ phase' \in [Xfers -> {"own", "COMPLETED", "other"}]
    BY <2>1, <2>2 DEF TypeOK, GotoPhase
  <2>4. stage' \in [Xfers -> 0 .. MaxStages]
    BY <1>3, XferConstants DEF TypeOK, LibStage
  <2>5. completed' \in [Xfers -> BOOLEAN]
    BY <1>3 DEF TypeOK, LibStage
  <2> QED
    BY <1>3, <2>3, <2>4, <2>5 DEF TypeOK, LibStage
<1>4. ASSUME NEW x \in Xfers, LibQueueUpdate(x)
      PROVE  TypeOK'
  BY <1>4 DEF TypeOK, JobStates, LibQueueUpdate, Goto, GotoPhase
<1>5. ASSUME NEW x \in Xfers, LibUpdate(x)
      PROVE  TypeOK'
  BY <1>5 DEF TypeOK, JobStates, LibUpdate, Goto, GotoPhase
<1>6. ASSUME NEW x \in Xfers, pygvfs_xfer_progress_callback(x)
      PROVE  TypeOK'
  BY <1>6
     DEF TypeOK, JobStates, pygvfs_xfer_progress_callback, Goto, GotoPhase
<1>7. ASSUME NEW x \in Xfers, pygvfs_async_xfer_progress_callback(x)
      PROVE  TypeOK'
  BY <1>7, XferConstants
     DEF TypeOK, JobStates, pygvfs_async_xfer_progress_callback, Goto, GotoPhase
<1>8. ASSUME NEW x \in Xfers, SyncReturn(x)
      PROVE  TypeOK'
  BY <1>8
     DEF TypeOK, JobStates, SyncReturn, Goto, GotoPhase, Answer, Unlinks
<1>9. ASSUME NEW x \in Xfers, UpdateReturn(x)
      PROVE  TypeOK'
  BY <1>9
     DEF TypeOK, JobStates, UpdateReturn, Goto, GotoPhase, Answer, Unlinks
<1>10. ASSUME NEW x \in Xfers, NEW p \in {"COMPLETED", "other"},
              xfer_progress_info_setattr(x, p)
       PROVE  TypeOK'
  BY <1>10 DEF TypeOK, xfer_progress_info_setattr
<1>11. CASE UNCHANGED vars
  BY <1>11 DEF TypeOK, vars
<1> QED
  BY <1>1, <1>2, <1>3, <1>4, <1>5, <1>6, <1>7, <1>8, <1>9, <1>10, <1>11
     DEF Next, Lib, Callback

\* Type correctness of the state of all transfers.
THEOREM TypeCorrect == Spec => []TypeOK
<1>1. Init => TypeOK
  BY XferConstants DEF Init, TypeOK, JobStates
<1> QED
  BY <1>1, TypeStep, PTL DEF Spec

-----------------------------------------------------------------------------
(***************************************************************************)
(* The inductive invariant.  full_data is freed by reading info->phase     *)
(* again after the callback, so the proofs rest on what phase can hold: as *)
(* GnomeVFS set it, or something that Python is known to have assigned.    *)
(***************************************************************************)

Started(x) == InCallback(x) \/ job[x] \in {"between", "synced", "queued"}

\* A phase that is not GnomeVFS's was assigned by a callback.
PhaseFromPython ==
    \A x \in Xfers : phase[x] # "own" => phase[x] \in assigned[x]

\* Unless Python assigned COMPLETED: nothing is freed before the job ended,
\* and a started transfer has its block.
FreedAtEnd ==
    \A x \in Xfers : "COMPLETED" \notin assigned[x] =>
        /\ job[x] # "ended" => frees[x] = 0
        /\ frees[x] <= 1
        /\ Started(x) => full_data[x] = "live"

XferInv ==
    /\ PhaseFromPython
    /\ FreedAtEnd
    /\ LinkOnlyInCallback
    /\ XferLeaksOnlyOnCancel

\* XferInv of one transfer; every action is about one.
XferInvOf(y) ==
    /\ phase[y] # "own" => phase[y] \in assigned[y]
    /\ "COMPLETED" \notin assigned[y] =>
          /\ job[y] # "ended" => frees[y] = 0
          /\ frees[y] <= 1
          /\ Started(y) => full_data[y] = "live"
    /\ linked[y] => job[y] \in {"sync", "update"}
    /\ full_data[y] = "live" /\ job[y] \in {"ended", "failed"} =>
          cancelled[y] \/ job[y] = "failed" \/ "other" \in assigned[y]

\* XferInv says the same of every transfer.
LEMMA XferInvSplit == XferInv <=> \A y \in Xfers : XferInvOf(y)
BY DEF XferInv, PhaseFromPython, FreedAtEnd, LinkOnlyInCallback,
       XferLeaksOnlyOnCancel, XferInvOf

\* One step keeps the invariant: the update callback frees the block only
\* with the phase COMPLETED, which is GnomeVFS's own at the last stage, and
\* then the job ends; only a cancel ends it in another way.
LEMMA XferStep ==
    ASSUME TypeOK, XferInv, [Next]_vars
    PROVE  XferInv'
<1>0. SUFFICES ASSUME NEW y \in Xfers
               PROVE  XferInvOf(y)'
  BY XferInvSplit DEF XferInv, PhaseFromPython, FreedAtEnd,
     LinkOnlyInCallback, XferLeaksOnlyOnCancel, XferInvOf
<1> USE DEF XferInvOf, TypeOK, JobStates, Started, InCallback
<1>y. XferInvOf(y)
  BY XferInvSplit
<1>1. ASSUME NEW x \in Xfers, pygvfs_async_xfer(x)
      PROVE  XferInvOf(y)'
  BY <1>1, <1>y DEF pygvfs_async_xfer, Goto, GotoPhase
<1>2. ASSUME NEW x \in Xfers, pygvhandle_cancel(x)
      PROVE  XferInvOf(y)'
  BY <1>2, <1>y DEF pygvhandle_cancel, Goto, GotoPhase
<1>3. ASSUME NEW x \in Xfers, LibStage(x)
      PROVE  XferInvOf(y)'
  <2>1. PICK p \in {phase[x], "own"} : GotoPhase(x, Reported(x), p)
    BY <1>3 DEF LibStage
  <2> QED
    BY <1>3, <1>y, <2>1 DEF LibStage, GotoPhase, Reported
<1>4. ASSUME NEW x \in Xfers, LibQueueUpdate(x)
      PROVE  XferInvOf(y)'
  BY <1>4, <1>y DEF LibQueueUpdate, Goto, GotoPhase
<1>5. ASSUME NEW x \in Xfers, LibUpdate(x)
      PROVE  XferInvOf(y)'
  BY <1>5, <1>y DEF LibUpdate, Goto, GotoPhase
<1>6. ASSUME NEW x \in Xfers, pygvfs_xfer_progress_callback(x)
      PROVE  XferInvOf(y)'
  BY <1>6, <1>y DEF pygvfs_xfer_progress_callback, Goto, GotoPhase
<1>7. ASSUME NEW x \in Xfers, pygvfs_async_xfer_progress_callback(x)
      PROVE  XferInvOf(y)'
  BY <1>7, <1>y DEF pygvfs_async_xfer_progress_callback, Goto, GotoPhase
<1>8. ASSUME NEW x \in Xfers, SyncReturn(x)
      PROVE  XferInvOf(y)'
  BY <1>8, <1>y DEF SyncReturn, Goto, GotoPhase, Answer, Unlinks
<1>9. ASSUME NEW x \in Xfers, UpdateReturn(x)
      PROVE  XferInvOf(y)'
  <2>1. CASE y # x
    BY <1>9, <1>y, <2>1 DEF UpdateReturn, Goto, GotoPhase, Answer
  <2>2. CASE y = x
    <3>1. /\ job[x] = "update" /\ UNCHANGED <<completed, assigned, cancelled>>
          /\ job'[x] = IF completed[x] THEN "ended" ELSE "between"
          /\ completed[x] => phase'[x] = "own"
          /\ ~completed[x] => phase'[x] = phase[x]
      BY <1>9 DEF UpdateReturn, Goto, GotoPhase
    <3>2. ~linked'[x]
      BY <1>9 DEF UpdateReturn, Answer, Unlinks
    <3>3. IF PhaseCompleted(x)
          THEN full_data'[x] = "freed" /\ frees'[x] = frees[x] + 1
          ELSE full_data'[x] = full_data[x] /\ frees'[x] = frees[x]
      BY <1>9 DEF UpdateReturn, FreesData
    <3> QED
      BY <1>y, <2>2, <3>1, <3>2, <3>3 DEF PhaseCompleted
  <2> QED
    BY <2>1, <2>2
<1>10. ASSUME NEW x \in Xfers, NEW p \in {"COMPLETED", "other"},
              xfer_progress_info_setattr(x, p)
       PROVE  XferInvOf(y)'
  BY <1>10, <1>y DEF xfer_progress_info_setattr
<1>11. CASE UNCHANGED vars
  BY <1>11, <1>y DEF vars
<1> QED
  BY <1>1, <1>2, <1>3, <1>4, <1>5, <1>6, <1>7, <1>8, <1>9, <1>10, <1>11
     DEF Next, Lib, Callback

\* The inductive invariant holds in every state of every behaviour.
LEMMA XferInvariant == Spec => []XferInv
<1>1. Init => XferInv
  BY DEF Init, XferInv, PhaseFromPython, FreedAtEnd, LinkOnlyInCallback,
     XferLeaksOnlyOnCancel, Started, InCallback
<1> QED
  BY <1>1, TypeCorrect, XferStep, PTL DEF Spec

\* full_data is alive whenever GnomeVFS may still call a callback with it,
\* and is freed at most once, unless a callback assigned COMPLETED to the
\* phase that pygvfs_async_xfer_progress_callback reads again.
THEOREM DataOutlivesCallbacksHolds == Spec => []DataOutlivesCallbacks
<1>1. XferInv => DataOutlivesCallbacks
  BY DEF XferInv, FreedAtEnd, DataOutlivesCallbacks, Started
<1> QED
  BY <1>1, XferInvariant, PTL

\* A progress info wrapper points to GnomeVFS's structure only while the
\* callback it was made for runs, in the job thread or in the main loop.
THEOREM LinkOnlyInCallbackHolds == Spec => []LinkOnlyInCallback
<1>1. XferInv => LinkOnlyInCallback
  BY DEF XferInv
<1> QED
  BY <1>1, XferInvariant, PTL

\* The block of a transfer that ended is left behind only if the transfer
\* was cancelled, refused by GnomeVFS, or had its phase overwritten.
THEOREM XferLeaksOnlyOnCancelHolds == Spec => []XferLeaksOnlyOnCancel
<1>1. XferInv => XferLeaksOnlyOnCancel
  BY DEF XferInv
<1> QED
  BY <1>1, XferInvariant, PTL

=============================================================================
