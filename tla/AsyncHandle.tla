---------------------------- MODULE AsyncHandle ----------------------------
(***************************************************************************)
(* gnomevfs.async.Handle: the Python wrapper of a GnomeVFSAsyncHandle, the *)
(* PyGVFSAsyncNotify record that carries a Python callback through the     *)
(* GnomeVFS job queue, and the C marshallers that GnomeVFS calls from the  *)
(* main loop (gnomevfs/vfs-async-handle.c).                                *)
(*                                                                         *)
(* Every entry point runs with the GIL held from beginning to end, so it   *)
(* is one step.  A marshaller is two steps, before and after the Python    *)
(* callback it runs: while the callback runs, other threads and the        *)
(* callback itself may use any handle, and a callback that iterates the    *)
(* main loop lets GnomeVFS start further marshallers inside it.  The       *)
(* marshallers in progress are therefore a stack.                          *)
(*                                                                         *)
(* GnomeVFS itself (Lib...) is not part of the repository; it is modelled  *)
(* from how the wrapper relies on it.                                      *)
(***************************************************************************)
EXTENDS Integers, Sequences, FiniteSets

CONSTANTS
    Handles,    \* wrapper objects that can ever be created
    Ops,        \* operations (notify records) that can ever be started
    MaxPages,   \* bound: undelivered load_directory pages per operation
    MaxDepth,   \* bound: nested marshallers
    NULL

(***************************************************************************)
(* The origins of a notify record: the operations that create a handle and *)
(* the methods of an existing one.                                         *)
(***************************************************************************)
Starters == {"OPEN", "CREATE", "CREATE_SYMLINK", "G_INFO", "LOAD_DIRECTORY"}
Methods  == {"READ", "WRITE", "CLOSE"}
Origins  == Starters \cup Methods

ASSUME AsyncConstants ==
    /\ IsFiniteSet(Ops)
    /\ MaxPages \in Nat
    /\ MaxDepth \in Nat
    /\ NULL \notin Handles \cup Origins

VARIABLES
    object,     \* wrapper memory: "unborn", "alive" or "freed"
    rc,         \* ob_refcnt of the wrapper
    held,       \* the Python program holds a reference of its own
    fd,         \* self->fd is not NULL
    self,       \* notify->self
    origin,     \* notify->origin; NULL: the record was never allocated
    frees,      \* how many times async_notify_free ran on the record
    buffer,     \* what notify lends to GnomeVFS: "none", "lent", "released"
    stack,      \* marshallers in progress, innermost last
    lib,        \* GnomeVFS: state of the operation
    result,     \* GnomeVFS: the operation failed (an error or the final EOF)
    pages,      \* GnomeVFS: load_directory pages waiting in the main loop
    cancelled   \* GnomeVFS: gnome_vfs_async_cancel was called on the handle

objVars == <<object, rc, held, fd>>
notifyVars == <<self, origin, frees, buffer>>
libVars == <<lib, result, pages, cancelled>>
vars == <<objVars, notifyVars, stack, libVars>>

LibStates == {"none", "running", "ready", "done", "dropped"}
Frame == [op : Ops, self : Handles, error : BOOLEAN]

TypeOK ==
    /\ object \in [Handles -> {"unborn", "alive", "freed"}]
    /\ rc \in [Handles -> Int]
    /\ held \in [Handles -> BOOLEAN]
    /\ fd \in [Handles -> BOOLEAN]
    /\ self \in [Ops -> Handles \cup {NULL}]
    /\ origin \in [Ops -> Origins \cup {NULL}]
    /\ \A o \in Ops : origin[o] # NULL => self[o] \in Handles
    /\ frees \in [Ops -> Nat]
    /\ buffer \in [Ops -> {"none", "lent", "released"}]
    /\ stack \in Seq(Frame)
    /\ lib \in [Ops -> LibStates]
    /\ result \in [Ops -> BOOLEAN]
    /\ pages \in [Ops -> 0..MaxPages]
    /\ cancelled \in [Handles -> BOOLEAN]

Init ==
    /\ object = [h \in Handles |-> "unborn"]
    /\ rc = [h \in Handles |-> 0]
    /\ held = [h \in Handles |-> FALSE]
    /\ fd = [h \in Handles |-> FALSE]
    /\ self = [o \in Ops |-> NULL]
    /\ origin = [o \in Ops |-> NULL]
    /\ frees = [o \in Ops |-> 0]
    /\ buffer = [o \in Ops |-> "none"]
    /\ stack = <<>>
    /\ lib = [o \in Ops |-> "none"]
    /\ result = [o \in Ops |-> FALSE]
    /\ pages = [o \in Ops |-> 0]
    /\ cancelled = [h \in Handles |-> FALSE]

-----------------------------------------------------------------------------
(***************************************************************************)
(* Helpers.                                                                *)
(***************************************************************************)

Allocated(o) == origin[o] # NULL
Live(o) == Allocated(o) /\ frees[o] = 0

Top == stack[Len(stack)]

\* Running Python code can name h: it holds it, or h is the first argument
\* of the callback that is running.
CanUse(h) ==
    /\ object[h] = "alive"
    /\ held[h] \/ (stack # <<>> /\ Top.self = h)

\* Mutant: Py_INCREF(self) is missing.
SelfRefForgotten == 0

\* The references async_notify_new takes on notify->self.
SelfRef == 1

\* Mutant: notify->self is left zeroed.
async_notify_new_no_self(h, o, k) ==
    /\ ~Allocated(o)
    /\ self' = self
    /\ origin' = [origin EXCEPT ![o] = k]
    /\ frees' = frees

\* async_notify_new: the record owns a reference on the wrapper.
async_notify_new(h, o, k) ==
    /\ ~Allocated(o)
    /\ self' = [self EXCEPT ![o] = h]
    /\ origin' = [origin EXCEPT ![o] = k]
    /\ frees' = frees

\* Py_DECREF, n times; pygvhandle_dealloc frees the memory at zero and
\* neither closes nor cancels the operation.
DecRef(h, n) ==
    /\ rc' = [rc EXCEPT ![h] = @ - n]
    /\ object' = [object EXCEPT ![h] = IF rc[h] = n THEN "freed" ELSE @]

-----------------------------------------------------------------------------
(***************************************************************************)
(* Entry points called from Python.                                        *)
(***************************************************************************)

\* GnomeVFS accepts an operation: it will run in a job thread.
LibSubmit(o) ==
    /\ lib' = [lib EXCEPT ![o] = "running"]
    /\ UNCHANGED <<result, pages, cancelled>>

\* gnomevfs.async.Handle(): pygvhandle_init leaves the zeroed fd alone.
NewHandle(h) ==
    /\ object[h] = "unborn"
    /\ object' = [object EXCEPT ![h] = "alive"]
    /\ rc' = [rc EXCEPT ![h] = 1]
    /\ held' = [held EXCEPT ![h] = TRUE]
    /\ UNCHANGED <<fd, notifyVars, stack, libVars>>

\* The common shape of the five functions that return a new handle: GnomeVFS
\* stores the job in pyself->fd before it returns.
Start(h, o, k) ==
    /\ object[h] = "unborn"
    /\ object' = [object EXCEPT ![h] = "alive"]
    /\ held' = [held EXCEPT ![h] = TRUE]
    /\ fd' = [fd EXCEPT ![h] = TRUE]
    /\ async_notify_new(h, o, k)
    /\ rc' = [rc EXCEPT ![h] = 1 + SelfRef]
    /\ LibSubmit(o)
    /\ UNCHANGED <<buffer, stack>>

pygvfs_async_open(h, o) == Start(h, o, "OPEN")
pygvfs_async_create(h, o) == Start(h, o, "CREATE")
pygvfs_async_create_symbolic_link(h, o) == Start(h, o, "CREATE_SYMLINK")
pygvfs_async_get_file_info(h, o) == Start(h, o, "G_INFO")
pygvfs_async_load_directory(h, o) == Start(h, o, "LOAD_DIRECTORY")

\* The common shape of the methods of a handle; a NULL fd raises ValueError.
Method(h, o, k) ==
    /\ CanUse(h)
    /\ fd[h]
    /\ async_notify_new(h, o, k)
    /\ rc' = [rc EXCEPT ![h] = @ + SelfRef]
    /\ LibSubmit(o)
    /\ UNCHANGED <<object, held, stack>>

pygvhandle_close(h, o) ==
    /\ Method(h, o, "CLOSE")
    /\ fd' = [fd EXCEPT ![h] = FALSE]
    /\ UNCHANGED buffer

\* g_malloc of the read buffer; the marshaller frees it.
pygvhandle_read(h, o) ==
    /\ Method(h, o, "READ")
    /\ buffer' = [buffer EXCEPT ![o] = "lent"]
    /\ UNCHANGED fd

\* The string written is kept alive by notify->extra.
pygvhandle_write(h, o) ==
    /\ Method(h, o, "WRITE")
    /\ buffer' = [buffer EXCEPT ![o] = "lent"]
    /\ UNCHANGED fd

\* Mutant: the buffers of the operations cancelled are given back at once.
cancel_frees_buffers(h) ==
    /\ CanUse(h)
    /\ fd[h]
    /\ cancelled' = [cancelled EXCEPT ![h] = TRUE]
    /\ fd' = [fd EXCEPT ![h] = FALSE]
    /\ buffer' = [o \in Ops |-> IF self[o] = h /\ buffer[o] = "lent"
                               THEN "released" ELSE buffer[o]]
    /\ UNCHANGED <<object, rc, held, self, origin, frees, stack,
                   lib, result, pages>>

\* Mutant: self->fd survives the cancel.
cancel_keeps_fd(h) ==
    /\ CanUse(h)
    /\ fd[h]
    /\ cancelled' = [cancelled EXCEPT ![h] = TRUE]
    /\ UNCHANGED <<objVars, notifyVars, stack, lib, result, pages>>

\* cancel: GnomeVFS is told, the pending records are left to it.
pygvhandle_cancel(h) ==
    /\ CanUse(h)
    /\ fd[h]
    /\ cancelled' = [cancelled EXCEPT ![h] = TRUE]
    /\ fd' = [fd EXCEPT ![h] = FALSE]
    /\ UNCHANGED <<object, rc, held, notifyVars, stack, lib, result, pages>>

\* The Python program forgets a handle.
Drop(h) ==
    /\ held[h]
    /\ held' = [held EXCEPT ![h] = FALSE]
    /\ DecRef(h, 1)
    /\ UNCHANGED <<fd, notifyVars, stack, libVars>>

\* A callback stores the handle it was called with.
Keep(h) ==
    /\ stack # <<>>
    /\ Top.self = h
    /\ ~held[h]
    /\ held' = [held EXCEPT ![h] = TRUE]
    /\ rc' = [rc EXCEPT ![h] = @ + 1]
    /\ UNCHANGED <<object, fd, notifyVars, stack, libVars>>

-----------------------------------------------------------------------------
(***************************************************************************)
(* GnomeVFS: job threads and the main loop sources they queue.             *)
(***************************************************************************)

\* The job thread queues one page of a directory.
LibPage(o) ==
    /\ lib[o] = "running"
    /\ origin[o] = "LOAD_DIRECTORY"
    /\ pages[o] < MaxPages
    /\ pages' = [pages EXCEPT ![o] = @ + 1]
    /\ UNCHANGED <<objVars, notifyVars, stack, lib, result, cancelled>>

\* The job thread queues the final callback.  A directory always ends with
\* an error, EOF included.
LibFinish(o) ==
    /\ lib[o] = "running"
    /\ lib' = [lib EXCEPT ![o] = "ready"]
    /\ \E e \in BOOLEAN :
          /\ origin[o] = "LOAD_DIRECTORY" => e
          /\ result' = [result EXCEPT ![o] = e]
    /\ UNCHANGED <<objVars, notifyVars, stack, pages, cancelled>>

\* After a cancel GnomeVFS drops what is left of the operation, unless the
\* callback was on its way: the late callback races with this step.
LibDrop(o) ==
    /\ lib[o] \in {"running", "ready"}
    /\ cancelled[self[o]]
    /\ lib' = [lib EXCEPT ![o] = "dropped"]
    /\ pages' = [pages EXCEPT ![o] = 0]
    /\ UNCHANGED <<objVars, notifyVars, stack, result, cancelled>>

-----------------------------------------------------------------------------
(***************************************************************************)
(* Marshallers, first half: up to the call of the Python function, which   *)
(* receives a new reference on notify->self in its argument tuple.         *)
(***************************************************************************)

\* The main loop dispatches the final callback of o.
FinalCallback(o) ==
    /\ lib[o] = "ready"
    /\ pages[o] = 0
    /\ lib' = [lib EXCEPT ![o] = "done"]
    /\ UNCHANGED <<result, pages, cancelled>>

\* Mutant: the marshaller stores the handle it is called with in self->fd.
EnterStoresHandle(o, error, clearsFd) ==
    /\ Len(stack) < MaxDepth
    /\ stack' = Append(stack, [op |-> o, self |-> self[o], error |-> error])
    /\ rc' = [rc EXCEPT ![self[o]] = @ + 1]
    /\ fd' = [fd EXCEPT ![self[o]] = ~clearsFd]
    /\ UNCHANGED <<object, held, notifyVars>>

Enter(o, error, clearsFd) ==
    /\ Len(stack) < MaxDepth
    /\ stack' = Append(stack, [op |-> o, self |-> self[o], error |-> error])
    /\ rc' = [rc EXCEPT ![self[o]] = @ + 1]
    /\ fd' = IF clearsFd THEN [fd EXCEPT ![self[o]] = FALSE] ELSE fd
    /\ UNCHANGED <<object, held, notifyVars>>

\* Mutant: a failed create keeps its handle.
ClearsFdNotCreate(k, error) ==
    \/ k = "OPEN" /\ error
    \/ k = "CREATE_SYMLINK"

\* Which results make callback_marshal reset self->fd.
CallbackClearsFd(k, error) ==
    \/ k \in {"OPEN", "CREATE"} /\ error
    \/ k = "CREATE_SYMLINK"

callback_marshal(o) ==
    /\ origin[o] \in {"OPEN", "CREATE", "CREATE_SYMLINK", "CLOSE"}
    /\ FinalCallback(o)
    /\ Enter(o, result[o], CallbackClearsFd(origin[o], result[o]))

read_write_marshal(o) ==
    /\ origin[o] \in {"READ", "WRITE"}
    /\ FinalCallback(o)
    /\ Enter(o, result[o], FALSE)

get_info_marshal(o) ==
    /\ origin[o] = "G_INFO"
    /\ FinalCallback(o)
    /\ Enter(o, FALSE, TRUE)

\* load_dir_marshal is called once per page and once more with the error
\* that ends the directory.
load_dir_page(o) ==
    /\ origin[o] = "LOAD_DIRECTORY"
    /\ pages[o] > 0
    /\ pages' = [pages EXCEPT ![o] = @ - 1]
    /\ UNCHANGED <<lib, result, cancelled>>
    /\ Enter(o, FALSE, FALSE)

load_dir_end(o) ==
    /\ origin[o] = "LOAD_DIRECTORY"
    /\ FinalCallback(o)
    /\ Enter(o, result[o], result[o])

(***************************************************************************)
(* Marshallers, second half: the callback returned (an exception is only   *)
(* printed); the argument tuple goes, then the marshaller's own cleanup.   *)
(***************************************************************************)

\* Mutant: load_dir_marshal looks at self->fd after the callback returned
\* instead of at the error it was called with.
FreesIfClosed(f) == origin[f.op] = "LOAD_DIRECTORY" => ~fd[f.self]

\* Mutant: the record of a failed operation is kept.
FreesIfOK(f) == IF origin[f.op] = "LOAD_DIRECTORY" THEN f.error ELSE ~f.error

\* load_dir_marshal keeps the record unless this call reported an error.
FreesNotify(f) == origin[f.op] = "LOAD_DIRECTORY" => f.error

Return ==
    /\ stack # <<>>
    /\ stack' = SubSeq(stack, 1, Len(stack) - 1)
    /\ frees' = IF FreesNotify(Top) THEN [frees EXCEPT ![Top.op] = @ + 1]
                                    ELSE frees
    /\ buffer' = IF FreesNotify(Top) /\ buffer[Top.op] = "lent"
                 THEN [buffer EXCEPT ![Top.op] = "released"]
                 ELSE buffer
    /\ DecRef(Top.self, IF FreesNotify(Top) THEN 1 + SelfRef ELSE 1)
    /\ UNCHANGED <<held, fd, self, origin, libVars>>

-----------------------------------------------------------------------------
Python ==
    \/ \E h \in Handles :
          \/ NewHandle(h)
          \/ pygvhandle_cancel(h)
          \/ Drop(h)
          \/ Keep(h)
    \/ \E h \in Handles, o \in Ops :
          \/ pygvfs_async_open(h, o)
          \/ pygvfs_async_create(h, o)
          \/ pygvfs_async_create_symbolic_link(h, o)
          \/ pygvfs_async_get_file_info(h, o)
          \/ pygvfs_async_load_directory(h, o)
          \/ pygvhandle_close(h, o)
          \/ pygvhandle_read(h, o)
          \/ pygvhandle_write(h, o)

Dispatch(o) ==
    \/ callback_marshal(o)
    \/ read_write_marshal(o)
    \/ get_info_marshal(o)
    \/ load_dir_page(o)
    \/ load_dir_end(o)

Lib(o) == LibPage(o) \/ LibFinish(o) \/ LibDrop(o)

Next ==
    \/ Python
    \/ \E o \in Ops : Lib(o) \/ Dispatch(o)
    \/ Return

\* Job threads finish their work, the main loop dispatches what is queued,
\* and Python callbacks return.  Nothing obliges the Python program to do
\* anything, nor GnomeVFS to drop a cancelled operation.
Fairness ==
    /\ \A o \in Ops : WF_vars(LibFinish(o)) /\ WF_vars(Dispatch(o))
    /\ WF_vars(Return)

Spec == Init /\ [][Next]_vars
FairSpec == Spec /\ Fairness

-----------------------------------------------------------------------------
(***************************************************************************)
(* Safety.                                                                 *)
(***************************************************************************)

Frames == DOMAIN stack

\* The operation whose function returned h, if that is how h was made.
StarterOf(h, o) == self[o] = h /\ origin[o] \in Starters

LiveOn(h) == {o \in Ops : Live(o) /\ self[o] = h}
FramesOn(h) == {i \in Frames : stack[i].self = h}

\* Reference counting is exact: a wrapper is referenced by the program, by
\* every record that is not freed yet and by the argument tuple of every
\* callback in progress, and its memory goes exactly when none is left
\* (async_notify_new, async_notify_free, pygvhandle_dealloc).
RefsExact ==
    \A h \in Handles :
        /\ rc[h] = (IF held[h] THEN 1 ELSE 0) + Cardinality(LiveOn(h))
                   + Cardinality(FramesOn(h))
        /\ (object[h] = "alive") <=> (rc[h] > 0)

\* The life of a record: allocated when GnomeVFS takes the operation, not
\* freed before the final callback, and after it owned by exactly one
\* marshaller in progress, which frees it.
RecordLife(o) ==
    /\ origin[o] = NULL <=> lib[o] = "none"
    /\ lib[o] # "done" => frees[o] = 0
    /\ frees[o] <= 1
    /\ pages[o] > 0 => lib[o] \in {"running", "ready"}
    /\ lib[o] = "ready" /\ origin[o] = "LOAD_DIRECTORY" => result[o]
    /\ lib[o] = "dropped" => cancelled[self[o]]
    /\ lib[o] = "done" /\ frees[o] = 0 =>
          \E i \in Frames : stack[i].op = o /\ FreesNotify(stack[i])

FrameLife(i) ==
    /\ origin[stack[i].op] # NULL
    /\ FreesNotify(stack[i]) =>
          /\ lib[stack[i].op] = "done"
          /\ frees[stack[i].op] = 0
          /\ \A j \in Frames :
                stack[j].op = stack[i].op /\ FreesNotify(stack[j]) => i = j

\* The inductive invariant behind NoUseAfterFree and OnlyCancelLeaks.
LifeInv ==
    /\ \A o \in Ops : RecordLife(o)
    /\ \A i \in Frames : FrameLife(i)

\* No marshaller ever dereferences freed memory: whatever GnomeVFS may still
\* call back, and every marshaller that will touch its record after the
\* Python callback returns, has a record that is not freed, and no record is
\* freed twice, however callbacks nest (load_dir_marshal decides from the
\* error it saw before the callback ran).
NoUseAfterFree ==
    /\ \A o \in Ops :
          /\ frees[o] <= 1
          /\ lib[o] \in {"running", "ready"} \/ pages[o] > 0 => Live(o)
    /\ \A i \in Frames :
          /\ FreesNotify(stack[i]) => Live(stack[i].op)
          /\ \A j \in Frames :
                stack[i].op = stack[j].op /\ FreesNotify(stack[i])
                    /\ FreesNotify(stack[j]) => i = j

\* A wrapper says it is open exactly while it is: its starting operation is
\* under way or ended as a successful open or create, and nobody closed or
\* cancelled it, whatever the order of callbacks, closes and cancels.
FdTracksHandle ==
    \A h \in Handles :
        fd[h] <=>
            /\ \E o \in Ops :
                  /\ StarterOf(h, o)
                  /\ lib[o] = "done" =>
                        origin[o] \in {"OPEN", "CREATE"} /\ ~result[o]
            /\ ~cancelled[h]
            /\ ~\E o \in Ops : self[o] = h /\ origin[o] = "CLOSE"

\* The memory a job thread reads or writes stays allocated until the final
\* callback was delivered; after a cancel it is never given back, because
\* the job thread may still be using it (pygvhandle_read, pygvhandle_write).
BufferOutlivesIO ==
    \A o \in Ops :
        /\ lib[o] # "done" => buffer[o] # "released"
        /\ lib[o] \in {"running", "ready"} /\ origin[o] \in {"READ", "WRITE"} =>
              buffer[o] = "lent"

\* A record that is not freed is GnomeVFS's to call, or belongs to a
\* marshaller in progress that will free it, or was dropped by a cancel: only
\* a cancel can leak a record, its buffer and its wrapper.
OnlyCancelLeaks ==
    \A o \in Ops : Live(o) =>
        \/ lib[o] \in {"running", "ready"}
        \/ lib[o] = "dropped" /\ cancelled[self[o]]
        \/ \E i \in Frames : stack[i].op = o /\ FreesNotify(stack[i])

\* A handle is never reopened: once self->fd was reset no late callback sets
\* it again, and a freed wrapper is never written to.
NeverReopened ==
    [][\A h \in Handles :
          /\ object[h] # "unborn" /\ ~fd[h] => ~fd'[h]
          /\ object[h] = "freed" => object'[h] = "freed" /\ rc'[h] = rc[h]
                                    /\ fd'[h] = fd[h]]_vars

(***************************************************************************)
(* Liveness and the contract.                                              *)
(***************************************************************************)

\* Every operation whose handle is not cancelled ends: its callback runs and
\* returns, and its record is freed.
EveryOperationEnds ==
    \A o \in Ops : Live(o) ~> (frees[o] = 1 \/ (Live(o) /\ cancelled[self[o]]))

Phase(o) ==
    IF ~Allocated(o) THEN "idle"
    ELSE IF frees[o] > 0 THEN "done"
    ELSE IF lib[o] = "done" THEN "calling"
    ELSE IF lib[o] = "dropped" THEN "abandoned"
    ELSE "pending"

Contract == INSTANCE AsyncContract WITH
                phase <- [o \in Ops |-> Phase(o)],
                owner <- self,
                stopped <- cancelled

\* Every operation keeps the contract: one final callback, then its memory
\* is given back; abandoned only after a cancel.
ImplementsContract == Contract!CSpec

=============================================================================
