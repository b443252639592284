# A verification project for GNOME-Python

GNOME-Python binds GnomeVFS, GConf, Bonobo, libgnome(ui) and the GNOME canvas
to Python 2.  Most of it passes calls through.  What is hard is in the places
where C keeps Python objects alive across time: callbacks that come back from a
main loop or a job thread, handles shared by threads, and GnomeVFS methods that
are themselves written in Python.  This project models those parts in TLA+,
checks them with TLC on small instances and proves their safety properties with
TLAPS for every value of the constants.

## 1. Inventory

| component | source | state | operations | what makes it correct |
|---|---|---|---|---|
| async handles | `gnomevfs/vfs-async-handle.c` | wrapper objects (`fd`, reference count), one `PyGVFSAsyncNotify` record per operation, buffers lent to job threads | `open`, `create`, `create_symbolic_link`, `get_file_info`, `load_directory`, `read`, `write`, `close`, `cancel`; five marshallers | references exact, no freed record used, `is_open` true, buffers outlive the I/O, every operation ends |
| async transfer | `vfs-async-handle.c`, `vfsmodule.c`, `vfs-xfer-progress-info.c` | one `PyGVFSAsyncXferData` per transfer, progress info wrappers | `xfer`, a callback in the job thread, a callback in the main loop, `cancel`, assignments to `progress_info.phase` | the block outlives both callbacks, wrappers are unlinked, the transfer ends |
| monitors | `vfsmodule.c` | `monitor_hash`, `monitor_id_counter`, one record per monitor | `monitor_add`, `monitor_cancel`, marshaller | ids name the right monitor, records outlive events |
| Python methods | `gnome-vfs-python-method.c` | `pymethod_hash`, `MethodContainer`s, the GIL | 24 handlers, `vfs_module_init` | Python only runs with the GIL, the GIL is given back, objects and borrowed memory stay alive, calls return |
| sync handles | `vfs-handle.c`, `vfs-dir-handle.c`, `vfsmodule.c` | wrapper objects (`fd`, `dir`) | `__init__`, `create`, `open_fd`, `read`, `write`, `seek`, `tell`, `get_file_info`, `truncate`, iteration, `close`, destructors | files closed once and owned once, no I/O on a closed file |
| synchronous functions | `vfsmodule.c`, `vfs-uri.c` | URI objects with one reference each, lists of borrowed URIs and strings, the GIL | file operations, transfers, changes to the MIME database, DNS-SD, `resolve`, `url_show` | what GnomeVFS works on is alive, Python only with the GIL, nothing left behind |
| results | `vfsmodule.c`, `gnome-vfs-python-method.c` | exception classes | `pygnome_vfs_result_check`, `pygnome_vfs_exception_check`, `EXCEPTION_CHECK` | an error survives the methods it passes |
| file infos | `vfs-file-info.c` | fields and `valid_fields` | attribute access, wrappers of what GnomeVFS filled | what is assigned is read back, a valid bit means a value |
| callbacks in records | `vfs-volume.c`, `vfs-drive.c`, `vfs-async-handle.c`, `activationmodule.c`, `bonobo.override`, `pybonobo.c`, `gconf.override` | a record with function and user data; the operation data of `control` | `mount`, `unmount`, `eject`, `activate_async`, `get_object_async`, `find_directory`, `control`, Bonobo closures, GConf notifications | references exact, nothing freed in use, every accepted callback comes |
| gconf values, bonobo arguments | `gconf/`, `bonobo/` | values | conversion of lists, pairs, schemas, arguments | - |
| gnome, ui, canvas | `gnome/`, `gnomecanvas/` | popt tables, widgets | program initialisation, wrappers | - |

How they interact.  The Python program calls the entry points with the GIL.
GnomeVFS runs asynchronous operations in job threads, which queue callbacks in
the main loop; the marshallers take the GIL, call Python and clean up.  A
callback may call any entry point and may iterate the main loop, so marshallers
nest.  A Python-implemented method is entered by GnomeVFS on whatever thread
uses a URI of its scheme, job threads and threads that have the GIL included.

Hard behaviours: nested callbacks on one record, cancel against late callbacks,
the GIL given up in the middle of an operation, memory lent to a thread that
does not hold the GIL, error returns that skip a release, ids that wrap.
`PROJECT.json` lists them one by one under `hazards`.

## 2. Modules

| module | role |
|---|---|
| `AsyncHandle` | asynchronous handles, records, marshallers |
| `AsyncContract` | what an asynchronous operation promises; `AsyncHandle` implements it |
| `AsyncXfer` | `async.xfer` with its two callbacks |
| `Monitor` | monitors |
| `PythonMethod` | handlers, GIL and references of libpythonmethod |
| `SyncHandle` | `gnomevfs.Handle` and `DirectoryHandle` shared by threads |
| `Results` | result codes, exceptions, and what a method written in Python makes of them |
| `FileInfo` | one `gnomevfs.FileInfo` object |
| `SyncCalls` | the synchronous functions; composes `Results` and `FileInfo` |
| `Callbacks` | volume operations, activation, `find_directory`, `control`, closures, GConf notifications |
| `...Proofs` | theorems about the module of that name |
| `MC...` | symmetry sets for TLC |

Operators that begin with a comment `Mutant:` are faulty versions of the
operator that follows them.  They are not used by any specification: putting
one in the place of the original must make TLC report the property it is paired
with in `PROJECT.json`, which shows that the property can fail.

### AsyncHandle

State: `object`, `rc`, `fd` are the wrapper (`PyGnomeVFSAsyncHandle`); `self`,
`origin`, `frees`, `buffer` the record (`PyGVFSAsyncNotify`, with the read
buffer and the string written); `stack` the marshallers in progress; `held` the
program's references; `lib`, `result`, `pages`, `cancelled` are GnomeVFS.

Entry points hold the GIL throughout and are one action each; argument errors
raise before anything changes and are not steps.  A marshaller is a first half
(`callback_marshal`, `read_write_marshal`, `get_info_marshal`, `load_dir_page`,
`load_dir_end`), which does everything up to the Python call, and `Return`,
which does everything after it.  `error` in a frame is the local variable
`error_happened` of the C function, which lives across the call.  Between the
halves any action may happen.  Python exceptions in a callback are printed and
change nothing else, so they need no action of their own.

GnomeVFS is external.  The model lets it do what the wrapper must survive:
deliver pages and the final callback in the main loop, and after a cancel either
drop what is pending or deliver a callback late.  A directory load ends with
exactly one error (EOF included), as the comment in `load_dir_marshal`
("Supposedly we don't get called after errors?") assumes.

### AsyncXfer

`full_data` is the shared block, `job` follows the job thread through a stage:
sync callback, then update callback, for which it waits.  A wrapper that the
program keeps is counted in `handles`; any of them can cancel.  A callback may
assign `progress_info.phase`, which writes the structure GnomeVFS reads its phase
from (`phase`); the update callback looks at the phase again after it called
Python (`PhaseCompleted`) and then frees the block.  A program that writes
COMPLETED too early, or overwrites it, gets what it asked for: the properties
hold for transfers it left alone, and say what is lost otherwise (`assigned`).  Argument errors
free the block (all but a parse error, which leaks it) and change nothing; a
transfer refused by GnomeVFS leaks it, which the model has as `failed`.  The
synchronous `xfer_uri...` functions use the same sync callback with a block on
the C stack and return after the last callback.

### Monitor

`monitor_add` is three actions, because it gives up the GIL: `..._begin`
allocates the record, `gnome_vfs_monitor_add` runs without the GIL, `..._end`
chooses the id.  `Half` stands for 2^31: ids and counter are the values of a
`gint`, and the loop that looks for a free id is `LoopRuns(k)`: the k-th value is
the first one free.  `increments` is a history variable.  The records are never
freed by the code, neither by `monitor_cancel` nor when `monitor_add` fails.
`ChangeLog` (2004-06-20) speaks of a "pygvfs_monitor_cancel leak" that was
fixed; the table entry is removed, the record still leaks.  Freeing it at once
would be wrong: the mutant `cancel_frees_record` shows the marshaller that waits
for the GIL reading freed memory.

### PythonMethod

One thread has a stack of calls.  A handler is `do_...` (up to the point where
it needs the GIL), `Ensure`, then Python runs and may `Yield`, `Resume` or enter
GnomeVFS again, `Return` (result computed, GIL released) and `LeaveCall`.  The 24
handlers have one shape and differ in the operators `Slot`, `ArgFormat`,
`WrapsInfo`, `RefsInfo`, `WrapsContext` and `Result`.  A handler whose Python
method is missing returns NOT_SUPPORTED without touching the state and is not a
step.  `PyGILState_Ensure` is modelled by what it looks at: whether the state of
the thread is the current one (`current`), not who has the lock (`gil`).  The two
differ after `PyEval_ReleaseLock`, which gives the lock away and leaves the state
current until another thread takes the GIL.

`refs` counts references on the object behind a handle.  The argument tuple of
every call is leaked by the code (`PyObject_CallObject` does not take it over);
this hides three ownership errors: `do_get_file_info_from_handle` builds the
tuple with `N`, `do_read_directory` does not reference the file info, and every
handler wraps the caller's context.  `HandleObjectAlive` and `CallerMemoryAlive`
hold because of the leak, and the mutant `ArgsReleasedAfterCall` shows what a fix
of the leak alone would break.

Loading a method is `LoadMethod` (GnomeVFS wants the lock of its method table,
with the GIL if its caller has it), `vfs_module_init` (it has the lock and wants
the GIL, or starts the interpreter), and `InitSucceeds` or `InitFails`.  The error
returns keep the GIL (`stuck`).  Success ends with `PyEval_ReleaseLock` (`dropped`)
when the local variable `state` is 0: when the caller had the GIL, and when
`Py_Initialize` started the interpreter in a process that is no Python program.
In the first case the Python code that called goes on without the lock; in both
the next handler on that thread may take the lock for held.  A state in which
Python code runs without the lock (`Unsound`) is reached in the model, and nothing
is modelled after it.  `LoaderDeadlock` is a thread that waits for the loader's lock
with the GIL while the loading thread needs the GIL.  Assumed: a stretch of Python
code without the GIL makes at most one nested call before it takes the GIL again.
Not modelled: `vfs_module_shutdown`, an instance whose constructor raises.

### SyncHandle

`__init__`, `read`, `write`, `close` and the destructor are split where the GIL
is given up or can be lost.  A thread has a stack of calls: a call in one of the
phases `RunsPython` may run Python code on its own thread (a method written in
Python, a converted argument, `sys.excepthook` when an error is printed), and that
code may use the same object, at most `MaxDepth` calls deep.  All I/O methods but
`tell` check `self->fd`, then convert arguments (`io_args`, where an `__int__` may run;
`write` has nothing of the kind) and read `self->fd` again; `read` and `write` give up
the GIL in between, the others keep it.  `gnomevfs.create` and
`open_fd` are `NewHandle`, with the object made first.  The objects in
`Directories` are `DirectoryHandle`s: they have no `close`, their iterator does not
look whether they are open, and their destructor keeps the GIL.  `owner`, `met`
(objects on which a close and another call overlapped, on one thread or two) and
`lost` are history variables.  Whether the name of the file is a URI or a string
is abstracted away.

### Results, FileInfo, SyncCalls

`Results` has the two conversions as operators and `EXCEPTION_CHECK` as their
composition.  `FileInfo` is a small state machine of its own (`InfoSpec`): the
value fields with their widths, `valid_fields`, and one action per way to assign.
`access` takes any int: mode bits given to it end up in `permissions`.  `given`,
`masked` and `added` record what the program did.

In `SyncCalls` a thread that calls a function goes through `lib` (GnomeVFS works
on what was lent), `back` (done, the GIL is needed) and `check` (the result is
looked at with calls of the Python API).  A function is one line: which of its
arguments are lent, whether the GIL is given up (`Shapes`), how many GLists it
has made.  A string argument is first read, after the GIL was given up (phase
`text`, `PyString_AsString`).  `Held` says what keeps a URI object alive; `Settle` runs the destructors
of what nothing holds any more.  Other threads, and the progress callback of the
calling thread, create, drop, store and remove URIs at any moment the GIL
allows, also while a function that keeps the GIL runs a method written in Python
(`MethodYields`).  An error on its way back may pass methods written in Python
(`ThroughMethod`) any number of times.

### Callbacks

A record holds a function and user data until it is called (`OneShot`) or
removed (`Lasting`); `stack` has the callbacks in progress.  A call is two halves,
as in `AsyncHandle`.  `GivesAway` is the difference between the format characters
`N` and `O`: whether the argument tuple takes over the record's reference on the
user data.  `control` has in addition the `PyGVFSOperationData` that goes into a
method written in Python (`in`) and comes out of it (`out`), whose object is
released only in the second state.  GnomeVFS, bonobo-activation, GClosure and
GConf are external: one-shot records are called once, from the main loop.  A
closure or a notification whose last reference goes (`LetGo`) stays while it is
being called.  A closure whose watching wrapper dies is different
(`pybonobo_closure_invalidate`, an invalidate notifier): it gives back function and
arguments at once, inside its own call too.  `control` on a closed handle (`fd`
`NULL`, which the code does not check) queues nothing: record and operation data
are nobody's (`lost`).  The module has one main loop and no GIL: the wait for
the GIL at the beginning of a marshaller is part of its first half, and that
`pycorba_object_new` comes before that wait is not visible here.

## 3. Runs

| run | configuration | checks | shows |
|---|---|---|---|
| `async_handle_safety` | 2 handles, 3 operations, nesting 2, 2 pages, symmetry | `TypeOK`, `RefsExact`, `NoUseAfterFree`, `FdTracksHandle`, `BufferOutlivesIO`, `OnlyCancelLeaks` | memory and `is_open` are right in every order of callbacks, closes and cancels |
| `async_handle_live` | 1 handle, 2 operations, nesting 2, 1 page, with fairness | `NeverReopened`, `EveryOperationEnds`, `ImplementsContract` | operations end; the model implements `AsyncContract` |
| `async_xfer` | 1 transfer, 3 stages, 3 wrappers, with fairness | `TypeOK`, `DataOutlivesCallbacks`, `LinkOnlyInCallback`, `XferLeaksOnlyOnCancel`, `XferEnds` | the shared block and the progress wrappers are safe, transfers end, also if callbacks assign the phase |
| `monitor_safety` | 6 monitors, 4 ids, 3 at a time | `TypeOK`, `TableExact`, `StaleIdsRefused`, `RecordOutlivesEvents` | the table is exact across a wrap |
| `method_nested` | 2 threads, 1 handle, 2 methods, nesting 2, a class with `open`, `get_file_info`, `close` | `TypeOK`, `OnlyHolderRuns`, `GilGivenBack`, `HandleObjectAlive` | the GIL discipline of nested handlers |
| `method_all` | 2 threads, 1 handle, no nesting, all 24 handlers | `CallerMemoryAlive` | borrowed memory |
| `method_live` | 2 threads, 2 methods, nesting 2, a class with `unlink`, with fairness | `EveryCallAnswered` | every call returns, also those that wait for the loader |
| `method_slots` | violation expected | `OwnMethodCalled` | `vfs_truncate_handle` and `vfs_get_file_info_from_handle` are never called |
| `sync_shared` | 2 threads, a handle, a directory, 3 files, nesting 2 | `TypeOK`, `ClosedOnce`, `OpenFilesOwned`, `IOMeetsOpenFile` | ownership of open files among threads and code that the calls run |
| `sync_race` | violation expected | `NoIOOnClosedHandle` | I/O races with close |
| `sync_calls` | 2 threads, 1 URI, 2 lists, 3 operations of the program, 4 result codes, 6 attributes, fields of 4 and 16 values | `TypeOK`, `LentAlive`, `ErrorsSurvive`, `ListsFreed`, `PythonOnlyWithGil`, `ReadsBack`, `ValidMeansGiven` | the synchronous functions against other threads and their own callbacks; file infos |
| `callbacks` | 2 records, 2 objects, nesting 2, with fairness | `TypeOK`, `CalledAlive`, `AnswerDelivered`, `CallbackRefsExact`, `CallbacksRun` | references of nested, removed, failing and cancelled callbacks |

Where properties make room.  Several invariants name what the code does not
guarantee instead of leaving it out of the model.  `LentAlive` excepts an item
that no list given to the call has any more: the lists are borrowed.
`ErrorsSurvive` excepts BAD_PARAMETERS, which a method turns into BAD_FILE, and
counts codes without a class as what they are raised as, nothing.  `ListsFreed`
counts the lists lost in QUERY mode without a callback.  `PythonOnlyWithGil` excepts
`resolve`, and asks of the functions that read a string without the GIL that the
string is alive.  `ReadsBack` lets `permissions` read the mode bits given to
`access`, and `access` more than it was given; numbers that do not fit their field
are excepted.  `OnlyHolderRuns` excepts threads in `dropped`; `EveryCallAnswered` ends
its claim at `Unsound`, at a `stuck` thread and at `LoaderDeadlock`.  `CalledAlive`
excepts the function of a closure invalidated inside its own call.  `CallbacksRun`
speaks of what was queued, which `control` on a closed handle is not.
`NoIOOnClosedHandle` and `IOMeetsOpenFile` are one statement without and with the
exception for objects on which a close overlapped another call: the first fails,
the second holds.  `ClosedOnce` has the same exception.

Bounds.  Every defect these properties are about needs at most two operations
of one record or two actors: two nested callbacks of one operation, a callback
and a cancel, two threads.  The instances have two of each, and a third or more
where a value has to be reused: six monitors on four ids make the counter wrap
and meet ids in use, three files let an object be initialised twice.  Transfers
share nothing but the main loop, so one has all behaviours of several; the
three stages are a first, a middle and a last one.  In `sync_calls` three
operations are one to call a function, one to take the URI out of what holds
it, and one more; every property quantifies over single URIs and calls, and two
lists let a URI be in one, both or none of the arguments.  The four result codes
are success, one with a class, the one that changes on its way and one without a
class.  Fields of 4 and 16 values and the numbers 2, 5 and 16 stand for values
that fit both widths, one and none.  The bounds
`MaxPages`, `MaxDepth`, `MaxStages`, `MaxHandles`, `MaxWatched` and `MaxRefs` cap
counters that the code does not limit; `MaxOps` caps the program.  Deadlock checking is off: a program that
has used up its handles simply stops.

Fairness.  `AsyncHandle`: job threads finish, the main loop dispatches what is
queued, callbacks return; the program is not obliged to do anything, and
GnomeVFS is not obliged to drop cancelled work.  `AsyncXfer`: the same.
`PythonMethod`: weak fairness for leaving a call; strong fairness for getting the
GIL, because it comes and goes (the interpreter hands it over to waiting threads
every hundred bytecodes) and for getting the loader's lock, and for returning
from a Python method, at every nesting depth.  `Callbacks`: weak fairness for job threads and for GnomeVFS
freeing operation data; strong fairness for the call of a one-shot record,
because a lasting callback may come in between whenever the main loop runs, and
for the return of callbacks at every depth.  `SyncCalls` claims no liveness: its
functions wait for GnomeVFS.

## 4. Findings

1. `method_slots`: `examples/vfs/pygvfsmethod/README` says that the `vfs_xxxx`
   methods are "used to implement the VFS operations"; `do_truncate_handle` calls
   `vfs_truncate` and `do_get_file_info_from_handle` calls `vfs_get_file_info`.
2. `sync_race`: `read` and `write` refuse a closed handle ("I/O operation on
   closed handle"), but read `self->fd` again after giving up the GIL; and `close`
   resets `self->fd` only after `gnome_vfs_close`, so that `seek`, `tell` and the
   others meet a handle that is being closed.  One thread is enough: the code
   that `close` runs (a `vfs_close`, `sys.excepthook`) finds `self->fd` set, and the
   `__int__` of an argument of `seek` or `truncate` may close the handle after it
   was checked.

Observations without a run of their own, because nothing in the repository says
what should happen, or because the process ends there:

* `resolve` uses the Python API between `pyg_begin_allow_threads` and
  `pyg_end_allow_threads` (`vfsmodule.c:1656`).  `create`, `get_file_info`,
  `set_file_info`, `make_directory`, `remove_directory`, `unlink`, `exists` and
  `Handle` call `PyString_AsString` there (`vfsmodule.c:362`, 399, 439, 536, 569, 601,
  634, `vfs-handle.c:62`): an immutable string that the caller keeps alive, so
  nothing goes wrong, but it is the Python API without the GIL.
* The callbacks of `activate_async` and `get_object_async` make a Python object
  with `pycorba_object_new` before they take the GIL (`activationmodule.c:250`,
  `bonobo.override:831`).
* `vfs_module_init` ends with `PyEval_ReleaseLock` when the caller had the GIL and
  when it started the interpreter (`gnome-vfs-python-method.c:1285`): Python code
  can then run without the lock.  A thread that meets a new method with the GIL
  in hand can wait for ever for one that loads a method and needs the GIL
  (line 1196).
* `async.Handle.control` does not check `self->fd` (`vfs-async-handle.c:1157`): on a
  closed or cancelled handle it returns None and the callback never comes.
* A Bonobo closure that is invalidated inside its own call gives back the function
  that is running; `pybonobo_closure_marshal` has no reference of its own.
* `pygnome_vfs_exception_check` turns BadParametersError into BAD_FILE
  (`vfsmodule.c:259`); NO_DEFAULT, NO_HANDLER, PARSE and LAUNCH have no class, and a
  function that gets one of them reports success.
* `xfer_uri_list` and `xfer_delete_list` leak their lists when QUERY mode has no
  callback.  `xfer_delete_list` names its second and third argument the other way
  round than it uses them.
* A failing `Handle.write` frees the characters of its argument
  (`vfs-handle.c:155`).  `Handle.control` and `connect_to_server` always raise: format
  string and keyword list have different lengths.
* `FileInfo.access` never loses a bit and takes mode bits, which change
  `permissions`; a long that does not fit stores all ones
  with an exception pending, and `del info.attr` dereferences NULL.
* Assigning an attribute of a progress info assigns it and then fails with
  -1 (`vfs-xfer-progress-info.c`).
* `mount`, `unmount` and `eject` pass `py_user_data` where its address is needed.
* The list of URIs of `find_directory` is never freed.  Operation data that no method
  answered keeps its object, and so does the argument tuple of the method; a
  CORBA exception of `activate_async` leaves the record.
* `do_is_local` returns a result code where its caller expects a boolean.
* A failed `monitor_add` leaks its record.

## 5. Proofs

Every safety property that a run checks, state or action, is also proved, and so
are both refinements, for every value of the constants that satisfies the named
assumptions.  The assumptions are about the bounds (numbers), about `NULL` (not a
value of the other sets) and about subsets; those that say more are

* `AsyncConstants`: `Ops` is finite.  A process allocates finitely many records;
  `RefsExact` counts them.  (`Callbacks` has the same for its records without an
  assumption: that those holding an object are finitely many is proved.)
* `XferConstants`: `MaxHandles` is at least 1, `MonitorConstants`: the counter has
  at least the values -1 and 0, `InfoConstants`: a narrow field holds more than
  one value, 0 included, and a wide one at least as many.

Each proof has one lemma or step per action, and for each invariant the
strengthening that is inductive.  TLC checked every strengthening on the run's
instance before it was proved.

| module | theorems | inductive invariant, and why the property alone is not enough |
|---|---|---|
| `AsyncHandleProofs` | `NoUseAfterFreeHolds`, `OnlyCancelLeaksHolds` | `LifeInv`.  Whether a record is freed twice depends on the calls GnomeVFS may still make: a record is freed only after its final callback, pages come only before it, a directory ends with an error (`RecordLife`), and a marshaller that will free a record is the only one that will (`FrameLife`) |
| | `BufferOutlivesIOHolds` | `BufferInv`: a record not yet allocated lends nothing, and a read or write lends until its callback; that `Return` gives back only after it comes from `LifeInv` |
| | `RefsExactHolds` | `RefsInv`: the argument tuple of a callback holds the wrapper of its record (`FrameSelf`), so that `Return` gives both references back to the same count |
| | `FdTracksHandleHolds` | `FdInv`: nothing is known of a wrapper before it is made (`Fresh`), and one operation made it (`OneStarter`), so the callback that resets `fd` is that of the operation `fd` depends on |
| | `NeverReopenedHolds` | an action property, from `LifeInv` and `RefsInv`: nobody holds a freed wrapper |
| | `ContractImplemented` | `Spec => Contract!CSpec` under the mapping `Phase`, step by step, from `LifeInv` and `FdInv` (an operation is submitted only to a handle that is not cancelled, because `fd` says so) |
| `MonitorProofs` | `TableExactHolds` | inductive as it stands, given the types; the wrapped counter stays a `gint` (`AdvanceType`) |
| | `StaleIdsRefusedHolds` | `FirstRound`: in the first round the counter is the number of increments and has passed every id issued |
| | `RecordOutlivesEventsHolds` | `RecordInv`: a monitor past the beginning of `monitor_add` has its record; only such a one is called, and `TableExact` says that only such a one is cancelled |
| `AsyncXferProofs` | `DataOutlivesCallbacksHolds`, `LinkOnlyInCallbackHolds`, `XferLeaksOnlyOnCancelHolds` | `XferInv`: a phase that is not GnomeVFS's was assigned by Python (`PhaseFromPython`), and nothing is freed before the job ended (`FreedAtEnd`) |
| `SyncHandleProofs` | `ClosedOnceHolds`, `OpenFilesOwnedHolds`, `IOMeetsOpenFileHolds` | `HandleInv`: what each call of each thread's stack has in hand at each point of each method (`CallInv`), that a close and another call in progress on one object are in `met` (`PairInv`), that an object points to a file of its own (`ObjectInv`), and that an open file is lost, pointed to by its owner, or just being opened (`FileInv`) |
| `FileInfoProofs` | `InfoReadsBack`, `InfoValidMeansGiven` | inductive given the types (`InfoTypeOK`) |
| `SyncCallsProofs` | `ImplementsFileInfo`, `ReadsBackHolds`, `ValidMeansGivenHolds` | `Spec => InfoSpec`: the calls fill the object only in ways `FileInfo` allows, so its theorems carry over |
| | `ErrorsSurviveHolds` | `ErrorInv`: the same while a string is read, because `exists` may go from there straight back |
| | `RefsInvariant`, `LentAliveHolds`, `PythonOnlyWithGilHolds` | `RefsInv`: what the `ref_count` of a GnomeVFSURI counts, exactly; without the count nothing says when it drops to zero |
| | `ListsFreedHolds` | `ListsInv`: the lists that calls have are finitely many |
| `PythonMethodProofs` | `HandleObjectAliveHolds`, `CallerMemoryAliveHolds` | `AliveInv`: also a handle that was closed keeps its object, because references taken in `open` are never released |
| | `OnlyHolderRunsHolds`, `GilGivenBackHolds` | `GilInv`, which speaks of the whole stack of a thread: only Python code calls GnomeVFS again, a call that found the GIL held has Python code further out to give it back to, and a call made with the GIL found it held; a current state without the lock is that of a thread in `dropped` |
| `CallbacksProofs` | `CallbackRefsExactHolds`, `CalledAliveHolds`, `AnswerDeliveredHolds` | `ShapeInv` (a one-shot record is called once; when a tuple and an answer exist) and `CountInv`; the lemmas about `Times` say how one step changes the number of holders of an object |

Every module also has its type theorem; in `SyncCalls` and `Callbacks` it says
that no count goes below zero, and rests on the counting invariants.

Only model-checked: the liveness properties `EveryOperationEnds`, `XferEnds`,
`EveryCallAnswered` and `CallbacksRun`, because they need fairness and `ENABLED`,
which the prover does not reason about.  The two violations are TLC's as well:
they are single behaviours.

## 6. Plan

The modules of the plan are written and every safety property is proved.  What
is left:

1. Theorems beyond the runs' properties: what `AsyncContract` alone guarantees
   (a finished operation stays finished, an abandoned one has a cancelled
   owner), and with the refinement the same for `AsyncHandle`.
2. The proofs of `SyncCalls` and `Callbacks` are long; steps that several actions
   share can become lemmas of their own.
3. Threads and the GIL in `Callbacks`: a closure that is invalidated while its
   marshaller waits for the GIL (`pybonobo.c:47`), Python objects made before the
   GIL is taken (`activationmodule.c:250`).

Not modelled, and why:

* `vfs_module_shutdown`: it ends the interpreter when GnomeVFS unloads the module,
  which GnomeVFS does not do while the process lives.
* Functions that read the MIME database, escape or compare strings, format
  sizes; accessors of volumes and drives; the parts of a URI; Context: one call
  passed on, no state here.
* Conversions of GConf values and Bonobo arguments: data only, one call each,
  no step at which anything else can happen.
* bonobo.ui, gnome, gnome.ui, gnomecanvas: wrappers of widgets; where they keep
  callbacks they use the closures of `Callbacks` or PyGTK's own.
* Generated `.defs` bindings, build scripts, tests.
