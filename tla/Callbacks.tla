----------------------------- MODULE Callbacks -----------------------------
(***************************************************************************)
(* The remaining callbacks: Python functions that C keeps in a record      *)
(* until GnomeVFS, bonobo-activation, Bonobo or GConf calls them from the  *)
(* main loop.                                                              *)
(*                                                                         *)
(*   "volume"    mount, unmount and eject (gnomevfs/vfs-drive.c,           *)
(*               gnomevfs/vfs-volume.c)                                    *)
(*   "activate"  activate_async (bonobo/activationmodule.c) and            *)
(*               get_object_async (bonobo/bonobo.override)                 *)
(*   "find"      async.find_directory (gnomevfs/vfs-async-handle.c)        *)
(*   "control"   async.Handle.control, with the operation data that a      *)
(*               method written in Python answers                          *)
(*   "closure"   pybonobo_closure_new (bonobo/pybonobo.c)                  *)
(*   "notify"    gconf.Client.notify_add (gconf/gconf.override)            *)
(*                                                                         *)
(* The first four are called once and free their record themselves; the    *)
(* other two last until they are removed.  A callback may do anything, so  *)
(* it may run the main loop, in which other callbacks are called.          *)
(***************************************************************************)
EXTENDS Integers, Sequences, FiniteSets

CONSTANTS
    Records,
    Objects,    \* Python objects: functions, user data, operation data
    Callables,  \* those that PyCallable_Check accepts
    MaxDepth,   \* bound: nested callbacks
    NULL

ASSUME CallbackConstants ==
    Callables \subseteq Objects /\ MaxDepth \in Nat /\ NULL \notin Objects

VARIABLES
    names,      \* objects the program has a reference on
    refs,       \* reference counts
    rec,        \* the records
    stack       \* callbacks in progress, the innermost last

vars == <<names, refs, rec, stack>>

OneShot == {"volume", "activate", "find", "control"}
Lasting == {"closure", "notify"}

\* state: "pending", waiting for its call or calls; "calling", a one-shot
\* record whose function is called; "removed", a lasting one that was removed
\* while its function is called; "invalid", a closure that has nothing left
\* while its function is called; "gone", freed; "lost", not freed, and never
\* to be called.
\* magic, operation: PyGVFSOperationData; "left": freed, its object not.
Unused ==
    [state |-> "unused", kind |-> NULL, func |-> NULL, data |-> NULL,
     job |-> "none", magic |-> "none", operation |-> NULL,
     tuple |-> NULL, answer |-> NULL]

Maybe == Objects \cup {NULL}

RecordType ==
    [state : {"unused", "pending", "calling", "removed", "invalid", "gone",
              "lost"},
     kind : OneShot \cup Lasting \cup {NULL},
     func : Maybe,
     data : Maybe,
     job : {"none", "queued", "done"},              \* of "control"
     magic : {"none", "in", "out", "left"},
     operation : Maybe,
     tuple : Maybe,     \* in the argument tuple of the method, never freed
     answer : Maybe]    \* history: what the method answered

FrameType == [rec : Records, data : Maybe, got : Maybe]

TypeOK ==
    /\ names \subseteq Objects
    /\ refs \in [Objects -> Nat]
    /\ rec \in [Records -> RecordType]
    /\ \A r \in Records :
          rec[r].state \notin {"unused", "invalid", "gone"} =>
             rec[r].func \in Objects
    /\ stack \in Seq(FrameType)
    /\ Len(stack) <= MaxDepth

Init ==
    /\ names = Objects
    /\ refs = [o \in Objects |-> 1]
    /\ rec = [r \in Records |-> Unused]
    /\ stack = <<>>

\* How often o is a value of s, a sequence or another function.
Times(o, s) == Cardinality({i \in DOMAIN s : s[i] = o})

\* Py_XINCREF of the objects in plus, Py_XDECREF of those in minus.
Count(plus, minus) ==
    refs' = [o \in Objects |-> refs[o] + Times(o, plus) - Times(o, minus)]

\* g_free of the record; operation data is a structure of its own.
Freed(r) ==
    [rec[r] EXCEPT !.state = "gone", !.kind = NULL, !.func = NULL,
                   !.data = NULL]

-----------------------------------------------------------------------------
(***************************************************************************)
(* The Python program: main program, other threads and callbacks.          *)
(* Arguments that are refused change nothing.                              *)
(***************************************************************************)
Known(o) == o \in names \cup {NULL}

Forget(o) ==
    /\ o \in names
    /\ names' = names \ {o}
    /\ Count(<<>>, <<o>>)
    /\ UNCHANGED <<rec, stack>>

Register(r, kind, f, d) ==
    /\ rec[r] = Unused
    /\ f \in names /\ Known(d)
    /\ rec' = [rec EXCEPT ![r] = [Unused EXCEPT !.state = "pending",
                 !.kind = kind, !.func = f, !.data = d]]
    /\ Count(<<f, d>>, <<>>)
    /\ UNCHANGED <<names, stack>>

\* Drive.mount, unmount, eject, Volume.unmount, eject.  PyArg_Parse... gets
\* py_user_data and not its address: the record has no user data (and a
\* program that passes some is stopped by the write to address NULL).
VolumeOp(r, f) == Register(r, "volume", f, NULL)
pygvdrive_mount(r, f) == VolumeOp(r, f)
pygvdrive_unmount(r, f) == VolumeOp(r, f)
pygvdrive_eject(r, f) == VolumeOp(r, f)
pygvvolume_unmount(r, f) == VolumeOp(r, f)
pygvvolume_eject(r, f) == VolumeOp(r, f)

wrap_ba_activate_async(r, f, d) == Register(r, "activate", f, d)
get_object_async(r, f, d) == Register(r, "activate", f, d)
pygvfs_async_find_directory(r, f, d) == Register(r, "find", f, d)
gconf_client_notify_add(r, f, d) == Register(r, "notify", f, d)

\* activate_async and get_object_async raise a CORBA exception; the record
\* was made and nobody will call it.
activate_fails(r, f, d) ==
    /\ rec[r] = Unused
    /\ f \in names /\ Known(d)
    /\ rec' = [rec EXCEPT ![r] = [Unused EXCEPT !.state = "lost",
                 !.kind = "activate", !.func = f, !.data = d]]
    /\ Count(<<f, d>>, <<>>)
    /\ UNCHANGED <<names, stack>>

\* Mutant: the closure does not store its callback.
closure_new_empty(r, f, d) ==
    /\ rec[r] = Unused
    /\ f \in names /\ Known(d)
    /\ rec' = [rec EXCEPT ![r] = [Unused EXCEPT !.state = "pending",
                 !.kind = "closure", !.data = d]]
    /\ Count(<<f, d>>, <<>>)
    /\ UNCHANGED <<names, stack>>

pybonobo_closure_new(r, f, d) == Register(r, "closure", f, d)

\* self->fd is any handle, or NULL if the file was closed or the operation
\* cancelled, which is not checked: then GnomeVFS queues nothing, the program
\* is told nothing, and record and operation data are nobody's.
pygvfs_async_file_control(r, f, d, o, fd) ==
    /\ rec[r] = Unused
    /\ f \in names /\ Known(d) /\ o \in names
    /\ rec' = [rec EXCEPT ![r] = [Unused EXCEPT
                 !.state = IF fd = NULL THEN "lost" ELSE "pending",
                 !.kind = "control", !.func = f, !.data = d,
                 !.job = IF fd = NULL THEN "none" ELSE "queued",
                 !.magic = "in", !.operation = o]]
    /\ Count(<<f, d, o>>, <<>>)
    /\ UNCHANGED <<names, stack>>

\* Handle.cancel while the operation is under way: its callback is dropped.
Cancel(r) ==
    /\ rec[r].state = "pending" /\ rec[r].kind = "control"
    /\ rec' = [rec EXCEPT ![r].state = "lost"]
    /\ UNCHANGED <<names, refs, stack>>

-----------------------------------------------------------------------------
(***************************************************************************)
(* The job of a "control" operation.                                       *)
(***************************************************************************)

\* A method written in Python answers the object a.  The argument tuple of
\* its call is not freed.
do_file_control(r, a) ==
    /\ rec[r].job = "queued"
    /\ a \in names
    /\ rec' = [rec EXCEPT ![r].job = "done", ![r].magic = "out",
                          ![r].operation = a, ![r].answer = a,
                          ![r].tuple = rec[r].operation]
    /\ Count(<<rec[r].operation, a>>, <<rec[r].operation>>)
    /\ UNCHANGED <<names, stack>>

\* It raises: operation_data stays as it is.
do_file_control_raises(r) ==
    /\ rec[r].job = "queued"
    /\ rec' = [rec EXCEPT ![r].job = "done", ![r].tuple = rec[r].operation]
    /\ Count(<<rec[r].operation>>, <<>>)
    /\ UNCHANGED <<names, stack>>

\* A method written in C, or one without file_control.
NotSupported(r) ==
    /\ rec[r].job = "queued"
    /\ rec' = [rec EXCEPT ![r].job = "done"]
    /\ UNCHANGED <<names, refs, stack>>

\* GnomeVFS is done with the operation and its callback.
pygvfs_operation_data_free(r) ==
    /\ rec[r].magic \in {"in", "out"}
    /\ rec[r].job = "done" /\ rec[r].state \in {"gone", "lost"}
    /\ IF rec[r].magic = "out"
       THEN /\ rec' = [rec EXCEPT ![r].magic = "none", ![r].operation = NULL,
                                  ![r].answer = NULL]
            /\ Count(<<>>, <<rec[r].operation>>)
       ELSE /\ rec' = [rec EXCEPT ![r].magic = "left"]
            /\ UNCHANGED refs
    /\ UNCHANGED <<names, stack>>

-----------------------------------------------------------------------------
(***************************************************************************)
(* Callbacks.  First half: up to the call of the Python function, for      *)
(* which an argument tuple takes a reference on what it is given with "O"  *)
(* and the record's own reference on what it is given with "N".            *)
(***************************************************************************)
GivesAway(kind) == kind \in {"find", "control"}

Invoke(r, got) ==
    /\ Len(stack) < MaxDepth
    /\ stack' = Append(stack, [rec |-> r, data |-> rec[r].data, got |-> got])
    /\ Count(IF GivesAway(rec[r].kind) THEN <<got>>
                                       ELSE <<rec[r].data, got>>, <<>>)
    /\ UNCHANGED names

InvokeOnce(r, kind, got) ==
    /\ rec[r].state = "pending" /\ rec[r].kind = kind
    /\ Invoke(r, got)
    /\ rec' = [rec EXCEPT ![r].state = "calling"]

InvokeLasting(r, kind) ==
    /\ rec[r].state = "pending" /\ rec[r].kind = kind
    /\ Invoke(r, NULL)
    /\ UNCHANGED rec

\* Mutant: the record is freed before its function is called.
freed_first(r) ==
    /\ rec[r].state = "pending" /\ rec[r].kind = "activate"
    /\ Len(stack) < MaxDepth
    /\ stack' = Append(stack, [rec |-> r, data |-> rec[r].data,
                               got |-> NULL])
    /\ rec' = [rec EXCEPT ![r] = Freed(r)]
    /\ Count(<<rec[r].data>>, <<rec[r].func, rec[r].data>>)
    /\ UNCHANGED names

wrap_gnomevfs_volume_op_callback(r) == InvokeOnce(r, "volume", NULL)
BonoboActivationCallback(r) == InvokeOnce(r, "activate", NULL)
pygvfs_async_find_directory_callback(r) == InvokeOnce(r, "find", NULL)
pybonobo_closure_marshal(r) == InvokeLasting(r, "closure")
pygconf_client_notify_add(r) == InvokeLasting(r, "notify")

\* Mutant: the operation data is passed on whatever its magic is.
control_unchecked(r) ==
    rec[r].job = "done" /\ InvokeOnce(r, "control", rec[r].operation)

pygvfs_async_file_control_callback(r) ==
    /\ rec[r].job = "done"
    /\ InvokeOnce(r, "control",
                  IF rec[r].magic = "out" THEN rec[r].operation ELSE NULL)

-----------------------------------------------------------------------------
(***************************************************************************)
(* Second half: the argument tuple is freed and an exception printed; then *)
(* a one-shot record gives back what it has left and is freed.             *)
(***************************************************************************)
Top == stack[Len(stack)]

InCall(r, s) == \E i \in DOMAIN s : s[i].rec = r

\* Mutant: every record gives back its user data.
LeftoversAll(r) == <<rec[r].func, rec[r].data>>

\* What a one-shot record still has after the call.
Leftovers(r) ==
    IF GivesAway(rec[r].kind) THEN <<rec[r].func>>
                              ELSE <<rec[r].func, rec[r].data>>

Removed(r) == rec[r].state \in {"removed", "invalid"}

\* Mutant: an exception returns before the record is freed.
return_early(error) ==
    /\ stack # <<>>
    /\ stack' = SubSeq(stack, 1, Len(stack) - 1)
    /\ LET r == Top.rec
           ends == \/ rec[r].kind \in OneShot /\ ~error
                   \/ Removed(r) /\ ~InCall(r, stack')
       IN  /\ Count(<<>>, <<Top.data, Top.got>>
                          \o IF ends THEN Leftovers(r) ELSE <<>>)
           /\ rec' = IF ends THEN [rec EXCEPT ![r] = Freed(r)] ELSE rec
    /\ UNCHANGED names

\* The call returns, or raises if error: no difference to the record.  A
\* lasting one that was removed is freed by the last call of it that ends:
\* g_closure_invoke, and GConf, keep it for the time of a call.
Return(error) ==
    /\ stack # <<>>
    /\ stack' = SubSeq(stack, 1, Len(stack) - 1)
    /\ LET r == Top.rec
           ends == \/ rec[r].kind \in OneShot
                   \/ Removed(r) /\ ~InCall(r, stack')
       IN  /\ Count(<<>>, <<Top.data, Top.got>>
                          \o IF ends THEN Leftovers(r) ELSE <<>>)
           /\ rec' = IF ends THEN [rec EXCEPT ![r] = Freed(r)] ELSE rec
    /\ UNCHANGED names

\* The last reference on a closure is given back, or notify_remove is called:
\* not before the calls in progress have ended.  What is left is then given
\* back by pybonobo_closure_invalidate, or with the tuple.
LetGo(r) ==
    /\ rec[r].state = "pending" /\ rec[r].kind \in Lasting
    /\ IF InCall(r, stack)
       THEN /\ rec' = [rec EXCEPT ![r].state = "removed"]
            /\ UNCHANGED refs
       ELSE /\ rec' = [rec EXCEPT ![r] = Freed(r)]
            /\ Count(<<>>, <<rec[r].func, rec[r].data>>)
    /\ UNCHANGED <<names, stack>>

\* The wrapper that watches a closure dies, which invalidates the closure: it
\* gives back what it has at once, even if it is being called, and nobody
\* calls it any more.
pybonobo_closure_invalidate(r) ==
    /\ rec[r].state \in {"pending", "removed"} /\ rec[r].kind = "closure"
    /\ rec' = [rec EXCEPT ![r] = IF InCall(r, stack)
                 THEN [rec[r] EXCEPT !.state = "invalid", !.func = NULL,
                                     !.data = NULL]
                 ELSE Freed(r)]
    /\ Count(<<>>, <<rec[r].func, rec[r].data>>)
    /\ UNCHANGED <<names, stack>>

-----------------------------------------------------------------------------
RegisterWith(r, f, d) ==
    \/ wrap_ba_activate_async(r, f, d)
    \/ get_object_async(r, f, d)
    \/ activate_fails(r, f, d)
    \/ pygvfs_async_find_directory(r, f, d)
    \/ pybonobo_closure_new(r, f, d)
    \/ gconf_client_notify_add(r, f, d)
    \/ \E o \in Objects, fd \in {"fd", NULL} :
          pygvfs_async_file_control(r, f, d, o, fd)

RegisterVolume(r, f) ==
    \/ pygvdrive_mount(r, f)
    \/ pygvdrive_unmount(r, f)
    \/ pygvdrive_eject(r, f)
    \/ pygvvolume_unmount(r, f)
    \/ pygvvolume_eject(r, f)

Job(r) ==
    \/ \E a \in Objects : do_file_control(r, a)
    \/ do_file_control_raises(r)
    \/ NotSupported(r)

CallOnce(r) ==
    \/ wrap_gnomevfs_volume_op_callback(r)
    \/ BonoboActivationCallback(r)
    \/ pygvfs_async_find_directory_callback(r)
    \/ pygvfs_async_file_control_callback(r)

Returns == \E error \in BOOLEAN : Return(error)

Next ==
    \/ \E o \in Objects : Forget(o)
    \/ \E r \in Records :
          \/ \E f \in Callables : RegisterVolume(r, f)
          \/ \E f \in Callables, d \in Maybe : RegisterWith(r, f, d)
          \/ Cancel(r)
          \/ Job(r)
          \/ pygvfs_operation_data_free(r)
          \/ CallOnce(r)
          \/ pybonobo_closure_marshal(r)
          \/ pygconf_client_notify_add(r)
          \/ LetGo(r)
          \/ pybonobo_closure_invalidate(r)
    \/ Returns

Spec == Init /\ [][Next]_vars

\* Job threads run; every operation that was accepted is answered from the
\* main loop, however often a lasting callback is called in between; and
\* every callback returns, the main loop it runs included.
Fairness ==
    /\ \A i \in 1 .. MaxDepth : SF_vars(Len(stack) = i /\ Returns)
    /\ \A r \in Records : /\ WF_vars(Job(r))
                          /\ SF_vars(CallOnce(r))
                          /\ WF_vars(pygvfs_operation_data_free(r))

FairSpec == Spec /\ Fairness

-----------------------------------------------------------------------------
(***************************************************************************)
(* Properties.                                                             *)
(***************************************************************************)

\* What each record has a reference on, if anything: its function, its user
\* data unless that went to an argument tuple, its operation data, and the
\* argument tuple of the method.
Keeps(r) == rec[r].state \notin {"unused", "gone"}
GaveAway(r) == rec[r].state = "calling" /\ GivesAway(rec[r].kind)
FuncOf == [r \in Records |-> IF Keeps(r) THEN rec[r].func ELSE NULL]
DataOf ==
    [r \in Records |-> IF Keeps(r) /\ ~GaveAway(r) THEN rec[r].data ELSE NULL]
OperationOf == [r \in Records |-> rec[r].operation]
TupleOf == [r \in Records |-> rec[r].tuple]

\* What the argument tuples of the calls in progress have references on.
CallData == [i \in DOMAIN stack |-> stack[i].data]
CallGot == [i \in DOMAIN stack |-> stack[i].got]

\* Every reference taken for a callback is given back exactly once, by the
\* record or by the argument tuple it went to ("N" or "O"), in whatever
\* order callbacks nest, return, are removed and are invalidated.  What is
\* left behind is only what a CORBA exception, a cancel, control on a closed
\* handle, the argument tuple of a method and operation data nobody answered
\* leave.
CallbackRefsExact ==
    \A o \in Objects :
        refs[o] = Times(o, FuncOf) + Times(o, DataOf)
                  + Times(o, OperationOf) + Times(o, TupleOf)
                  + Times(o, CallData) + Times(o, CallGot)
                  + (IF o \in names THEN 1 ELSE 0)

\* While a Python function is called its record is not freed, and function
\* and arguments are alive: also if the callback forgets them, is removed, or
\* runs the main loop, which may call the same closure once more.  The
\* exception is the function of a closure that is invalidated inside its own
\* call: pybonobo_closure_marshal has no reference of its own on it, only the
\* argument tuple has on the arguments.
CalledAlive ==
    \A i \in DOMAIN stack :
        LET r == stack[i].rec
        IN  /\ rec[r].state \in {"pending", "calling", "removed", "invalid"}
            /\ rec[r].state # "invalid" => refs[rec[r].func] > 0
            /\ \A o \in {stack[i].data, stack[i].got} \ {NULL} : refs[o] > 0

\* The callback of async.Handle.control gets what the method written in
\* Python answered, and None if none answered: never the object that went in.
AnswerDelivered ==
    \A i \in DOMAIN stack :
        LET r == stack[i].rec
        IN  rec[r].kind = "control" => stack[i].got = rec[r].answer

\* A record that was accepted is called and freed, unless its operation was
\* cancelled; operation data is freed either way.  Only control on a closed
\* handle leaves both for ever, although it returns as if it were accepted.
CallbacksRun ==
    \A r \in Records :
        /\ rec[r].state = "pending" /\ rec[r].kind \in OneShot ~>
              rec[r].state = "gone" \/ rec[r].state = "lost"
        /\ rec[r].job = "queued" ~> rec[r].magic \in {"none", "left"}

=============================================================================
