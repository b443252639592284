---------------------------- MODULE PythonMethod ----------------------------
(***************************************************************************)
(* libpythonmethod (gnomevfs/gnome-vfs-python-method.c): GnomeVFS methods  *)
(* implemented by Python classes.  GnomeVFS calls the do_... handlers from *)
(* any thread; a handler takes the GIL, calls a vfs_... method of the      *)
(* Python object and turns its answer into a GnomeVFSResult.  The Python   *)
(* method may itself use gnomevfs, with the GIL held or given up, and so   *)
(* re-enter the handlers on its own thread: a thread has a stack of calls. *)
(*                                                                         *)
(* A handler is the steps do_... (it needs the GIL), Ensure (it has it and *)
(* Python runs), Yield and Resume (Python gives the GIL up for a while),   *)
(* Return (Python is back, the GIL is given back) and LeaveCall (GnomeVFS  *)
(* goes on with what the handler returned).  PyGILState_Ensure asks which  *)
(* thread state is current, not who has the lock: a thread that gave the   *)
(* lock away and left its state current is told that it has the GIL.       *)
(***************************************************************************)
EXTENDS Integers, Sequences, FiniteSets

CONSTANTS
    Threads,
    Handles,        \* MethodContainer records
    Methods,        \* method names (URI schemes)
    Implemented,    \* vfs_... methods the Python classes define
    MaxDepth,       \* bound: nested calls of one thread
    MaxRefs,        \* bound: references on the object behind a handle
    NULL

Openers == {"open", "create", "open_directory"}
Closers == {"close", "close_directory"}
DirectoryOps == {"close_directory", "read_directory"}
FileOps == {"close", "read", "write", "seek", "tell", "truncate_handle",
            "get_file_info_from_handle", "file_control"}
HandleOps == DirectoryOps \cup FileOps
UriOps == {"get_file_info", "is_local", "make_directory", "find_directory",
           "remove_directory", "move", "unlink", "check_same_fs",
           "set_file_info", "truncate", "create_symbolic_link"}
Ops == Openers \cup HandleOps \cup UriOps

ASSUME MethodConstants ==
    /\ Implemented \subseteq Ops
    /\ MaxDepth \in Nat /\ MaxRefs \in Nat
    /\ NULL \notin Threads \cup Handles \cup Methods

VARIABLES
    gil,        \* the thread that has the GIL, or NULL
    current,    \* the thread of _PyThreadState_Current, or NULL
    stack,      \* per thread: calls in progress, innermost last
    handle,     \* state of each MethodContainer
    refs,       \* ob_refcnt of container->object, owned references only
    registry,   \* pymethod_hash
    interpreter,\* Py_IsInitialized()
    stuck,      \* threads that left a failed vfs_module_init with the GIL
    dropped     \* history: threads whose vfs_module_init gave away the GIL
                \* with PyEval_ReleaseLock

vars == <<gil, current, stack, handle, refs, registry, interpreter, stuck,
          dropped>>

Results == {"OK", "ERROR_GENERIC", "ERROR_NOT_FOUND", "ERROR_mapped",
            "TRUE", "FALSE"}
Frame == [op : Ops \cup {"vfs_module_init"},
          on : Handles \cup Methods \cup {NULL},
          phase : {"loader", "ensure", "python", "released", "resuming",
                   "done"},
          state : {"LOCKED", "UNLOCKED"},   \* PyGILState_STATE
          info : Int,           \* references on the caller's file_info
          context : BOOLEAN,    \* the caller's context is not freed
          result : Results]

TypeOK ==
    /\ gil \in Threads \cup {NULL}
    /\ current \in Threads \cup {NULL}
    /\ stack \in [Threads -> Seq(Frame)]
    /\ handle \in [Handles -> {"unused", "opening", "file", "directory",
                               "closed"}]
    /\ refs \in [Handles -> Nat]
    /\ registry \in [Methods -> {"absent", "registered"}]
    /\ interpreter \in BOOLEAN
    /\ stuck \in SUBSET Threads
    /\ dropped \in SUBSET Threads

Init ==
    /\ gil = NULL
    /\ current = NULL
    /\ stack = [t \in Threads |-> <<>>]
    /\ handle = [h \in Handles |-> "unused"]
    /\ refs = [h \in Handles |-> 0]
    /\ registry = [m \in Methods |-> "absent"]
    /\ interpreter \in BOOLEAN  \* a Python program, or any other process
    /\ stuck = {}
    /\ dropped = {}

-----------------------------------------------------------------------------
(***************************************************************************)
(* Helpers.                                                                *)
(***************************************************************************)

Busy(t) == stack[t] # <<>>
Top(t) == stack[t][Len(stack[t])]
Push(t, f) == [stack EXCEPT ![t] = Append(@, f)]
SetTop(t, f) == [stack EXCEPT ![t][Len(stack[t])] = f]

\* GnomeVFS can be entered on t: from a thread outside Python, or from
\* Python code, with the GIL or without.
CanEnter(t) ==
    /\ Len(stack[t]) < MaxDepth
    /\ Busy(t) => \/ Top(t).phase = "python" /\ gil = t
                  \/ Top(t).phase = "released"

\* The vfs_... method a handler looks for and calls.
Slot(op) ==
    CASE op = "truncate_handle" -> "truncate"
      [] op = "get_file_info_from_handle" -> "get_file_info"
      [] OTHER -> op

\* How Py_BuildValue takes the container's object: "O" adds a reference to
\* the argument tuple, "N" gives the tuple the container's own.
ArgFormat(op) == IF op = "get_file_info_from_handle" THEN "N" ELSE "O"

\* The handlers that wrap the caller's file_info, and those that reference it
\* (or copy it) for the wrapper, whose dealloc gives a reference back.
WrapsInfo == {"read_directory", "get_file_info", "get_file_info_from_handle",
              "set_file_info"}
RefsInfo == WrapsInfo \ {"read_directory"}

\* context_new wraps the caller's context itself; the wrapper's dealloc
\* frees it.
WrapsContext == Ops \ {"tell", "is_local"}

\* Mutant: Py_DECREF of the argument tuple after the call.
ArgsReleasedAfterCall(op) == op \in Ops

\* PyObject_CallObject does not consume the tuple Py_BuildValue made, and no
\* handler releases it: the argument tuples are never freed.
ArgsReleased(op) == FALSE

NewFrame(op, x) ==
    [op |-> op, on |-> x, phase |-> "ensure", state |-> "LOCKED",
     info |-> IF op \in RefsInfo THEN 2 ELSE 1, context |-> TRUE,
     result |-> "OK"]

-----------------------------------------------------------------------------
(***************************************************************************)
(* Handlers, first part.  get_method_from_uri finds the method; without    *)
(* the vfs_... method the handler returns NOT_SUPPORTED at once, with the  *)
(* GIL untouched, which changes nothing here.                              *)
(***************************************************************************)
Call(t, op, x) ==
    /\ CanEnter(t)
    /\ \E m \in Methods : registry[m] = "registered"
    /\ Slot(op) \in Implemented
    /\ stack' = Push(t, NewFrame(op, x))
    /\ UNCHANGED <<gil, current, refs, registry, interpreter, stuck, dropped>>

Opener(t, op, h) ==
    /\ handle[h] = "unused"
    /\ handle' = [handle EXCEPT ![h] = "opening"]
    /\ Call(t, op, h)

\* GnomeVFS uses a handle between its open and its close; uses may overlap.
HandleOp(t, op, h) ==
    /\ handle[h] = IF op \in DirectoryOps THEN "directory" ELSE "file"
    /\ refs[h] < MaxRefs
    /\ handle' = IF op \in Closers THEN [handle EXCEPT ![h] = "closed"]
                                   ELSE handle
    /\ Call(t, op, h)

UriOp(t, op) == Call(t, op, NULL) /\ UNCHANGED handle

do_open(t, h) == Opener(t, "open", h)
do_create(t, h) == Opener(t, "create", h)
do_open_directory(t, h) == Opener(t, "open_directory", h)
do_close(t, h) == HandleOp(t, "close", h)
do_close_directory(t, h) == HandleOp(t, "close_directory", h)
do_read(t, h) == HandleOp(t, "read", h)
do_write(t, h) == HandleOp(t, "write", h)
do_seek(t, h) == HandleOp(t, "seek", h)
do_tell(t, h) == HandleOp(t, "tell", h)
do_truncate_handle(t, h) == HandleOp(t, "truncate_handle", h)
do_read_directory(t, h) == HandleOp(t, "read_directory", h)
do_get_file_info_from_handle(t, h) ==
    HandleOp(t, "get_file_info_from_handle", h)
\* Called from Python: the magic is IN; otherwise NOT_SUPPORTED at once.
do_file_control(t, h) == HandleOp(t, "file_control", h)
do_get_file_info(t) == UriOp(t, "get_file_info")
do_is_local(t) == UriOp(t, "is_local")
do_make_directory(t) == UriOp(t, "make_directory")
do_find_directory(t) == UriOp(t, "find_directory")
do_remove_directory(t) == UriOp(t, "remove_directory")
do_move(t) == UriOp(t, "move")
do_unlink(t) == UriOp(t, "unlink")
do_check_same_fs(t) == UriOp(t, "check_same_fs")
do_set_file_info(t) == UriOp(t, "set_file_info")
do_truncate(t) == UriOp(t, "truncate")
do_create_symbolic_link(t) == UriOp(t, "create_symbolic_link")

-----------------------------------------------------------------------------
(***************************************************************************)
(* Handlers, the GIL.                                                      *)
(***************************************************************************)

\* GILSTATE_ENSURE, then the argument tuple is built and Python called.  The
\* lock is waited for only if the thread's state is not the current one.
Ensure(t) ==
    /\ Busy(t)
    /\ Top(t).phase = "ensure"
    /\ current = t \/ gil = NULL
    /\ gil' = IF current = t THEN gil ELSE t
    /\ current' = t
    /\ stack' = SetTop(t, [Top(t) EXCEPT
          !.phase = "python",
          !.state = IF current = t THEN "LOCKED" ELSE "UNLOCKED"])
    /\ refs' = IF Top(t).op \in HandleOps /\ ArgFormat(Top(t).op) = "O"
               THEN [refs EXCEPT ![Top(t).on] = @ + 1] ELSE refs
    /\ UNCHANGED <<handle, registry, interpreter, stuck, dropped>>

\* The interpreter switches threads, or Python code calls something that
\* gives up the GIL.
Yield(t) ==
    /\ Busy(t)
    /\ Top(t).phase = "python"
    /\ gil = t
    /\ gil' = NULL
    /\ current' = NULL
    /\ stack' = SetTop(t, [Top(t) EXCEPT !.phase = "released"])
    /\ UNCHANGED <<handle, refs, registry, interpreter, stuck, dropped>>

Resume(t) ==
    /\ Busy(t)
    /\ Top(t).phase \in {"released", "resuming"}
    /\ gil = NULL
    /\ gil' = t
    /\ current' = t
    /\ stack' = SetTop(t, [Top(t) EXCEPT !.phase = "python"])
    /\ UNCHANGED <<handle, refs, registry, interpreter, stuck, dropped>>

\* What a Python method may answer; an exception of gnomevfs has a code.
Replies == {"int", "none", "uri", "false", "gnomevfs_exception", "exception"}
Raises == {"gnomevfs_exception", "exception"}

\* EXCEPTION_CHECK and the checks of the value returned.
Result(op, reply) ==
    CASE reply = "gnomevfs_exception" -> "ERROR_mapped"
      [] reply = "exception" -> "ERROR_GENERIC"
      [] op \in {"read", "write", "tell"} /\ reply \in {"uri", "false"} ->
            "ERROR_GENERIC"
      [] op = "find_directory" /\ reply = "none" -> "ERROR_NOT_FOUND"
      [] op = "find_directory" /\ reply \in {"int", "false"} ->
            "ERROR_GENERIC"
      [] op = "is_local" /\ reply \in {"none", "false"} -> "FALSE"
      [] op = "is_local" /\ reply \in {"int", "uri"} -> "TRUE"
      [] OTHER -> "OK"

\* Mutant: EXCEPTION_CHECK returns without GILSTATE_RELEASE.
GilKeptOnError(t, f, reply) ==
    IF f.state = "LOCKED" \/ reply \in Raises THEN t ELSE NULL

\* Mutant: PyEval_ReleaseLock in the place of PyGILState_Release.
GilAlwaysDropped(t, f, reply) == NULL

\* GILSTATE_RELEASE on every way out: the GIL is given back unless the thread
\* had it when the handler was called.
GilAfterCall(t, f, reply) == IF f.state = "LOCKED" THEN t ELSE NULL

\* SET_HANDLE: the container has the reference returned and one more.
ObjectRefs(f, reply) ==
    IF f.op \in Openers
    THEN IF reply \in Raises THEN refs ELSE [refs EXCEPT ![f.on] = 2]
    ELSE IF f.op \in HandleOps /\ ArgsReleased(f.op)
         THEN [refs EXCEPT ![f.on] = @ - 1] ELSE refs

HandleAfter(f, reply) ==
    IF f.op \in Openers
    THEN [handle EXCEPT ![f.on] = IF reply \in Raises THEN "unused"
                                  ELSE IF f.op = "open_directory"
                                       THEN "directory" ELSE "file"]
    ELSE handle

Return(t) ==
    /\ Busy(t)
    /\ Top(t).op # "vfs_module_init"
    /\ Top(t).phase = "python"
    /\ gil = t
    /\ \E reply \in Replies :
          LET f == Top(t) IN
          /\ gil' = GilAfterCall(t, f, reply)
          /\ current' = gil'
          /\ refs' = ObjectRefs(f, reply)
          /\ handle' = HandleAfter(f, reply)
          /\ stack' = SetTop(t, [f EXCEPT
                !.phase = "done",
                !.result = Result(f.op, reply),
                !.info = IF ArgsReleased(f.op) /\ f.op \in WrapsInfo
                         THEN @ - 1 ELSE @,
                !.context = ~(ArgsReleased(f.op) /\ f.op \in WrapsContext)])
    /\ UNCHANGED <<registry, interpreter, stuck, dropped>>

\* GnomeVFS reads the result, the file_info and the context it passed, and
\* returns.  Python code that called it without the GIL wants the GIL back.
LeaveCall(t) ==
    /\ Busy(t)
    /\ Top(t).phase = "done"
    /\ stack' = [stack EXCEPT ![t] =
          [i \in 1 .. Len(@) - 1 |->
             IF i = Len(@) - 1 /\ @[i].phase = "released"
             THEN [@[i] EXCEPT !.phase = "resuming"] ELSE @[i]]]
    /\ UNCHANGED <<gil, current, handle, refs, registry, interpreter, stuck,
                   dropped>>

-----------------------------------------------------------------------------
(***************************************************************************)
(* vfs_module_init.  GnomeVFS calls it under the recursive lock of its     *)
(* method table, which the thread may have to wait for, with the GIL if it *)
(* has it.  A name that is registered already is refused.  In a process    *)
(* without Python the first call initialises the interpreter, and the      *)
(* variable state keeps its initial value, 0, which is PyGILState_LOCKED.  *)
(***************************************************************************)

\* Another thread is in vfs_module_init.
OthersLoading(t) ==
    \E u \in Threads \ {t} : \E i \in DOMAIN stack[u] :
        /\ stack[u][i].op = "vfs_module_init"
        /\ stack[u][i].phase \notin {"loader", "done"}

\* GnomeVFS meets a method it does not know yet and looks for its module.
LoadMethod(t, m) ==
    /\ CanEnter(t)
    /\ registry[m] = "absent"
    /\ stack' = Push(t, [NewFrame("vfs_module_init", m)
                         EXCEPT !.phase = "loader"])
    /\ UNCHANGED <<gil, current, handle, refs, registry, interpreter, stuck,
                   dropped>>

vfs_module_init(t) ==
    /\ Busy(t)
    /\ Top(t).phase = "loader"
    /\ ~OthersLoading(t)
    /\ \/ /\ registry[Top(t).on] = "registered"
          /\ stack' = SetTop(t, [Top(t) EXCEPT !.phase = "done"])
          /\ UNCHANGED <<gil, current, interpreter>>
       \/ /\ registry[Top(t).on] = "absent" /\ interpreter
          /\ stack' = SetTop(t, [Top(t) EXCEPT !.phase = "ensure"])
          /\ UNCHANGED <<gil, current, interpreter>>
       \/ /\ ~interpreter
          /\ stack' = SetTop(t, [Top(t) EXCEPT !.phase = "python"])
          /\ gil' = t
          /\ current' = t
          /\ interpreter' = TRUE
    /\ UNCHANGED <<handle, refs, registry, stuck, dropped>>

\* Success gives the GIL up whether or not the caller had it.  With state
\* LOCKED (the caller had it, or Py_Initialize has just given it to the
\* thread) PyEval_ReleaseLock does: the thread's state stays current.
InitSucceeds(t) ==
    /\ Busy(t)
    /\ Top(t).op = "vfs_module_init"
    /\ Top(t).phase = "python"
    /\ gil = t
    /\ registry' = [registry EXCEPT ![Top(t).on] = "registered"]
    /\ gil' = NULL
    /\ IF Top(t).state = "LOCKED"
       THEN current' = current /\ dropped' = dropped \cup {t}
       ELSE current' = NULL /\ dropped' = dropped
    /\ stack' = SetTop(t, [Top(t) EXCEPT !.phase = "done"])
    /\ UNCHANGED <<handle, refs, interpreter, stuck>>

\* The three error returns (no module, no class, not a class) keep the GIL.
InitFails(t) ==
    /\ Busy(t)
    /\ Top(t).op = "vfs_module_init"
    /\ Top(t).phase = "python"
    /\ gil = t
    /\ stuck' = IF \E i \in 1 .. Len(stack[t]) - 1 :
                      stack[t][i].phase = "python"
                THEN stuck ELSE stuck \cup {t}
    /\ stack' = SetTop(t, [Top(t) EXCEPT !.phase = "done",
                                         !.result = "ERROR_GENERIC"])
    /\ UNCHANGED <<gil, current, handle, refs, registry, interpreter, dropped>>

-----------------------------------------------------------------------------
Handler(t) ==
    \/ \E h \in Handles :
          \/ do_open(t, h)
          \/ do_create(t, h)
          \/ do_open_directory(t, h)
          \/ do_close(t, h)
          \/ do_close_directory(t, h)
          \/ do_read(t, h)
          \/ do_write(t, h)
          \/ do_seek(t, h)
          \/ do_tell(t, h)
          \/ do_truncate_handle(t, h)
          \/ do_read_directory(t, h)
          \/ do_get_file_info_from_handle(t, h)
          \/ do_file_control(t, h)
    \/ do_get_file_info(t)
    \/ do_is_local(t)
    \/ do_make_directory(t)
    \/ do_find_directory(t)
    \/ do_remove_directory(t)
    \/ do_move(t)
    \/ do_unlink(t)
    \/ do_check_same_fs(t)
    \/ do_set_file_info(t)
    \/ do_truncate(t)
    \/ do_create_symbolic_link(t)

\* Some thread runs Python code without the GIL.  What such a process does
\* next is undefined: no behaviour goes on from there.
Unsound ==
    \E t \in Threads : Busy(t) /\ Top(t).phase = "python" /\ gil # t

Next ==
    /\ ~Unsound
    /\ \E t \in Threads :
          \/ Handler(t)
          \/ Ensure(t)
          \/ Yield(t)
          \/ Resume(t)
          \/ Return(t)
          \/ LeaveCall(t)
          \/ \E m \in Methods : LoadMethod(t, m)
          \/ vfs_module_init(t)
          \/ InitSucceeds(t)
          \/ InitFails(t)

\* Threads run, the GIL and the loader's lock are handed to whoever waits for
\* them often enough, and every Python method, however many calls it makes,
\* eventually returns.
Fairness ==
    \A t \in Threads :
        /\ WF_vars(~Unsound /\ LeaveCall(t))
        /\ SF_vars(~Unsound /\ (Ensure(t) \/ Resume(t) \/ vfs_module_init(t)))
        /\ \A d \in 1 .. MaxDepth :
              SF_vars(/\ ~Unsound
                      /\ Len(stack[t]) = d
                      /\ Return(t) \/ InitSucceeds(t) \/ InitFails(t))

Spec == Init /\ [][Next]_vars
FairSpec == Spec /\ Fairness

-----------------------------------------------------------------------------
(***************************************************************************)
(* Properties.                                                             *)
(***************************************************************************)

FrameOf(t, i) == stack[t][i]

\* Python code runs only on the thread that has the GIL, through all the
\* nesting of handlers on one thread.  The exception is a thread on which a
\* vfs_module_init ended with PyEval_ReleaseLock: Python code that called it
\* goes on without the GIL, and, as the thread's state stays current until
\* another thread takes the GIL, the next handler on that thread believes it
\* has it, after the embedded start of the interpreter too.
OnlyHolderRuns ==
    \A t \in Threads :
        Busy(t) /\ Top(t).phase = "python" =>
            gil = t \/ t \in dropped

\* The GIL always is with a thread that is in a Python method; only a failed
\* vfs_module_init takes it out of Python.
GilGivenBack ==
    \A t \in Threads :
        gil = t => \/ \E i \in DOMAIN stack[t] : FrameOf(t, i).phase = "python"
                   \/ t \in stuck

\* The Python object behind a handle stays alive as long as GnomeVFS or a
\* handler uses the handle, although do_get_file_info_from_handle gives away
\* a reference of the container in every call: the references that are never
\* released make up for it.
HandleObjectAlive ==
    /\ \A h \in Handles : handle[h] \in {"file", "directory"} => refs[h] > 0
    /\ \A t \in Threads : \A i \in DOMAIN stack[t] :
          FrameOf(t, i).op \in HandleOps => refs[FrameOf(t, i).on] > 0

\* The file_info and the context that GnomeVFS lends to a handler are not
\* freed by the Python wrappers around them.
CallerMemoryAlive ==
    \A t \in Threads : \A i \in DOMAIN stack[t] :
        FrameOf(t, i).info > 0 /\ FrameOf(t, i).context

\* A thread waits for the loader's lock with the GIL in hand, and the thread
\* that has the lock needs the GIL to finish its vfs_module_init.
LoaderDeadlock ==
    \E t \in Threads :
        /\ Busy(t) /\ Top(t).phase = "loader"
        /\ gil = t /\ OthersLoading(t)

\* Every call GnomeVFS makes is answered, however the threads share the GIL
\* and the loader's lock and however Python methods call back into GnomeVFS.
\* Three things can prevent it: a vfs_module_init that failed with the GIL in
\* hand, Python code that lost the GIL, and a thread that meets a new method
\* with the GIL in hand while another one loads a method.
EveryCallAnswered ==
    \A t \in Threads :
        Busy(t) ~> (~Busy(t) \/ Unsound \/ stuck # {} \/ LoaderDeadlock)

\* examples/vfs/pygvfsmethod/README: the vfs_xxxx methods "are then used to
\* implement the VFS operations": each operation calls the method of its
\* name.
OwnMethodCalled ==
    \A t \in Threads : \A i \in DOMAIN stack[t] :
        FrameOf(t, i).op \in Ops => Slot(FrameOf(t, i).op) = FrameOf(t, i).op

=============================================================================
