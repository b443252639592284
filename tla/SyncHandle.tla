----------------------------- MODULE SyncHandle -----------------------------
(***************************************************************************)
(* gnomevfs.Handle (gnomevfs/vfs-handle.c) and gnomevfs.DirectoryHandle    *)
(* (gnomevfs/vfs-dir-handle.c): the Python object around a GnomeVFSHandle  *)
(* or a GnomeVFSDirectoryHandle, shared by threads.  Opening, reading,     *)
(* writing and the close in the destructor of a Handle give up the GIL     *)
(* around the GnomeVFS call.  Everything else keeps it, but a method       *)
(* implemented in Python, or an error printed to a Python sys.stderr, runs *)
(* Python code in the middle of it: other threads run then, and so does    *)
(* code of the same thread that uses the same object once more.            *)
(***************************************************************************)
EXTENDS Integers, Sequences, FiniteSets

CONSTANTS
    Threads,
    Objects,    \* Handle and DirectoryHandle objects
    Directories,\* the DirectoryHandles among them
    Files,      \* GnomeVFSHandles, or directory handles, that can be opened
    MaxDepth,   \* bound: how deep calls nest on one thread
    NULL

ASSUME HandleConstants ==
    /\ Directories \subseteq Objects
    /\ NULL \notin Objects \cup Files
    /\ MaxDepth \in Nat

VARIABLES
    object,     \* "unborn", "alive" or "freed"
    refs,       \* refs[o]: the threads that have a reference on o
    met,        \* history: objects on which a close and another call, of any
                \* thread, were in progress at the same time
    fd,         \* self->fd, or self->dir
    file,       \* GnomeVFS: "none", "open" or "closed"
    closes,     \* how often gnome_vfs_close was called on a file
    owner,      \* history: the object whose __init__ stored the file
    lost,       \* open files whose pointer in self->fd was overwritten
    stack       \* stack[t]: the calls a thread is in, the innermost one last

vars == <<object, refs, met, fd, file, closes, owner, lost, stack>>

\* "opening": in gnome_vfs_open; "opened": after it; "io_args": self->fd is
\* checked, and the arguments are converted, maybe by a Python __int__;
\* "io_begin": checked, and the GIL is given up; "io": in gnome_vfs_read or
\* any other call that uses the file; "closing": in close, from the call of
\* gnome_vfs_close on; "dying": in the destructor.
Phases ==
    {"opening", "opened", "io_args", "io_begin", "io", "closing", "dying"}

\* The phases in which Python code may run on the same thread: a method of a
\* Python VFS module, a converted argument, or sys.stderr and sys.excepthook
\* when an error is printed.
RunsPython == {"opening", "io_args", "io", "closing", "dying"}

\* A call: its phase, its object, and the GnomeVFSHandle it works on.
Call == [pc : Phases, on : Objects, with : Files \cup {NULL}]

TypeOK ==
    /\ object \in [Objects -> {"unborn", "alive", "freed"}]
    /\ refs \in [Objects -> SUBSET Threads]
    /\ met \in SUBSET Objects
    /\ fd \in [Objects -> Files \cup {NULL}]
    /\ file \in [Files -> {"none", "open", "closed"}]
    /\ closes \in [Files -> Nat]
    /\ owner \in [Files -> Objects \cup {NULL}]
    /\ lost \in SUBSET Files
    /\ stack \in [Threads -> Seq(Call)]

Init ==
    /\ object = [o \in Objects |-> "unborn"]
    /\ refs = [o \in Objects |-> {}]
    /\ met = {}
    /\ fd = [o \in Objects |-> NULL]
    /\ file = [f \in Files |-> "none"]
    /\ closes = [f \in Files |-> 0]
    /\ owner = [f \in Files |-> NULL]
    /\ lost = {}
    /\ stack = [t \in Threads |-> <<>>]

\* The calls of t, as positions in its stack.
Calls(t) == 1 .. Len(stack[t])

Top(t) == stack[t][Len(stack[t])]

In(t, s) == stack[t] # <<>> /\ Top(t).pc = s

\* A call on o that begins in phase s meets one in progress, and one of the
\* two is close.
MeetsClose(o, s) ==
    \E u \in Threads : \E d \in Calls(u) :
        stack[u][d].on = o /\ "closing" \in {s, stack[u][d].pc}

\* t begins a call on o.
Begin(t, s, o, f) ==
    /\ stack' = [stack EXCEPT ![t] =
                    Append(@, [pc |-> s, on |-> o, with |-> f])]
    /\ met' = IF MeetsClose(o, s) THEN met \cup {o} ELSE met

\* The innermost call of t goes on.
Step(t, s, f) ==
    stack' = [stack EXCEPT ![t] = [@ EXCEPT ![Len(@)] =
                 [pc |-> s, on |-> Top(t).on, with |-> f]]]

\* It returns.
Return(t) == stack' = [stack EXCEPT ![t] = SubSeq(@, 1, Len(@) - 1)]

\* t runs Python code, which may begin another call.
Free(t) ==
    /\ stack[t] # <<>> => Top(t).pc \in RunsPython
    /\ Len(stack[t]) < MaxDepth

\* ... and has a reference on o.
Uses(t, o) == Free(t) /\ t \in refs[o]

CloseFile(f) ==
    /\ file' = [file EXCEPT ![f] = "closed"]
    /\ closes' = [closes EXCEPT ![f] = @ + 1]

-----------------------------------------------------------------------------
\* gnomevfs.Handle(uri), gnomevfs.DirectoryHandle(uri), or gnomevfs.create
\* and open_fd, which make the object when the file is open: a new object,
\* then its __init__.
NewHandle(t, o) ==
    /\ Free(t)
    /\ object[o] = "unborn"
    /\ object' = [object EXCEPT ![o] = "alive"]
    /\ refs' = [refs EXCEPT ![o] = {t}]
    /\ Begin(t, "opening", o, NULL)
    /\ UNCHANGED <<fd, file, closes, owner, lost>>

\* __init__ of an object that has been through it before.
InitAgain(t, o) ==
    /\ Uses(t, o)
    /\ Begin(t, "opening", o, NULL)
    /\ UNCHANGED <<object, refs, fd, file, closes, owner, lost>>

pygvhandle_init(t, o) == o \notin Directories /\ InitAgain(t, o)
pygvdir_init(t, o) == o \in Directories /\ InitAgain(t, o)

\* gnome_vfs_open, without the GIL, or gnome_vfs_directory_open.
gnome_vfs_open(t, f) ==
    /\ In(t, "opening")
    /\ file[f] = "none"
    /\ file' = [file EXCEPT ![f] = "open"]
    /\ Step(t, "opened", f)
    /\ UNCHANGED <<object, refs, met, fd, closes, owner, lost>>

\* The open fails: an exception, and self->fd is what it was.
OpenFails(t) ==
    /\ In(t, "opening")
    /\ Return(t)
    /\ UNCHANGED <<object, refs, met, fd, file, closes, owner, lost>>

\* o's self->fd becomes f, without a look at the old value.
StoreFd(o, f) ==
    /\ fd' = [fd EXCEPT ![o] = f]
    /\ lost' = IF fd[o] # NULL /\ file[fd[o]] = "open"
               THEN lost \cup {fd[o]} ELSE lost

\* Mutant: the result of the call ends up in self->fd.
init_stores_result(t) ==
    /\ In(t, "opened")
    /\ StoreFd(Top(t).on, file[Top(t).with])
    /\ owner' = [owner EXCEPT ![Top(t).with] = Top(t).on]
    /\ Return(t)
    /\ UNCHANGED <<object, refs, met, file, closes>>

\* With the GIL again: self->fd = handle.
InitEnds(t) ==
    /\ In(t, "opened")
    /\ StoreFd(Top(t).on, Top(t).with)
    /\ owner' = [owner EXCEPT ![Top(t).with] = Top(t).on]
    /\ Return(t)
    /\ UNCHANGED <<object, refs, met, file, closes>>

\* close calls gnome_vfs_close; without an open file it does nothing.
pygvhandle_close(t, o) ==
    /\ Uses(t, o) /\ o \notin Directories
    /\ fd[o] # NULL
    /\ CloseFile(fd[o])
    /\ Begin(t, "closing", o, fd[o])
    /\ UNCHANGED <<object, refs, fd, owner, lost>>

\* Mutant: self->fd is kept if gnome_vfs_close fails.
close_keeps_fd(t) ==
    /\ In(t, "closing")
    /\ StoreFd(Top(t).on, NULL) \/ UNCHANGED <<fd, lost>>
    /\ Return(t)
    /\ UNCHANGED <<object, refs, met, file, closes, owner>>

\* The rest of close, after gnome_vfs_close and after an error of it was
\* printed: self->fd = NULL in any case.
CloseEnds(t) ==
    /\ In(t, "closing")
    /\ StoreFd(Top(t).on, NULL)
    /\ Return(t)
    /\ UNCHANGED <<object, refs, met, file, closes, owner>>

\* Mutant: self->fd is not checked.
io_unchecked(t, o, s) ==
    /\ Uses(t, o) /\ o \notin Directories
    /\ Begin(t, s, o, NULL)
    /\ UNCHANGED <<object, refs, fd, file, closes, owner, lost>>

\* A NULL fd raises ValueError, "I/O operation on closed handle".
CheckedIO(t, o, s) ==
    /\ Uses(t, o) /\ o \notin Directories
    /\ fd[o] # NULL
    /\ Begin(t, s, o, NULL)
    /\ UNCHANGED <<object, refs, fd, file, closes, owner, lost>>

\* After the check, all but tell convert their arguments; read gives up the
\* GIL too.  What write converts is never a Python object's own code.
pygvhandle_read(t, o) == CheckedIO(t, o, "io_args")
pygvhandle_write(t, o) == CheckedIO(t, o, "io_begin")
pygvhandle_seek(t, o) == CheckedIO(t, o, "io_args")
pygvhandle_get_file_info(t, o) == CheckedIO(t, o, "io_args")
pygvhandle_truncate(t, o) == CheckedIO(t, o, "io_args")

\* The arguments cannot be converted, or zero bytes are to be read.
ArgsFail(t) ==
    /\ In(t, "io_args")
    /\ Return(t)
    /\ UNCHANGED <<object, refs, met, fd, file, closes, owner, lost>>

\* gnome_vfs_read(self->fd, ...) and the others: self->fd is read once more.
IOStart(t) ==
    /\ In(t, "io_args") \/ In(t, "io_begin")
    /\ Step(t, "io", fd[Top(t).on])
    /\ UNCHANGED <<object, refs, met, fd, file, closes, owner, lost>>

\* tell: the same check, and the call at once.
pygvhandle_tell(t, o) ==
    /\ Uses(t, o) /\ o \notin Directories
    /\ fd[o] # NULL
    /\ Begin(t, "io", o, fd[o])
    /\ UNCHANGED <<object, refs, fd, file, closes, owner, lost>>

\* The next item of a directory: self->dir is not checked.
pygvdir_iternext(t, o) ==
    /\ Uses(t, o) /\ o \in Directories
    /\ Begin(t, "io", o, fd[o])
    /\ UNCHANGED <<object, refs, fd, file, closes, owner, lost>>

IOEnd(t) ==
    /\ In(t, "io")
    /\ Return(t)
    /\ UNCHANGED <<object, refs, met, fd, file, closes, owner, lost>>

\* Another thread gets a reference.
Share(t, u, o) ==
    /\ Uses(t, o)
    /\ u \notin refs[o]
    /\ refs' = [refs EXCEPT ![o] = @ \cup {u}]
    /\ UNCHANGED <<object, met, fd, file, closes, owner, lost, stack>>

\* A call holds a reference on its object until it returns.
Forgets(t, o) ==
    /\ Uses(t, o)
    /\ \A d \in Calls(t) : stack[t][d].on # o
    /\ refs' = [refs EXCEPT ![o] = @ \ {t}]

\* Mutant: the destructor does not close the file.
drop_without_close(t, o) ==
    /\ Forgets(t, o)
    /\ object' = [object EXCEPT ![o] = IF refs[o] = {t} THEN "freed" ELSE @]
    /\ UNCHANGED <<met, fd, file, closes, owner, lost, stack>>

\* A thread forgets the object.  The last one runs the destructor, which
\* closes an open file: of a Handle, without the GIL.
Drop(t, o) ==
    /\ Forgets(t, o)
    /\ IF refs[o] = {t} /\ fd[o] # NULL
       THEN Begin(t, "dying", o, fd[o]) /\ UNCHANGED object
       ELSE /\ object' = [object EXCEPT ![o] =
                            IF refs[o] = {t} THEN "freed" ELSE @]
            /\ UNCHANGED <<met, stack>>
    /\ UNCHANGED <<fd, file, closes, owner, lost>>

Dealloc(t) ==
    /\ In(t, "dying")
    /\ CloseFile(Top(t).with)
    /\ object' = [object EXCEPT ![Top(t).on] = "freed"]
    /\ Return(t)
    /\ UNCHANGED <<refs, met, fd, owner, lost>>

pygvhandle_dealloc(t) == Dealloc(t) /\ Top(t).on \notin Directories
pygvdir_dealloc(t) == Dealloc(t) /\ Top(t).on \in Directories

-----------------------------------------------------------------------------
Next ==
    \E t \in Threads :
        \/ \E o \in Objects :
              \/ NewHandle(t, o)
              \/ pygvhandle_init(t, o)
              \/ pygvdir_init(t, o)
              \/ pygvhandle_close(t, o)
              \/ pygvhandle_read(t, o)
              \/ pygvhandle_write(t, o)
              \/ pygvhandle_seek(t, o)
              \/ pygvhandle_tell(t, o)
              \/ pygvhandle_get_file_info(t, o)
              \/ pygvhandle_truncate(t, o)
              \/ pygvdir_iternext(t, o)
              \/ Drop(t, o)
              \/ \E u \in Threads : Share(t, u, o)
        \/ \E f \in Files : gnome_vfs_open(t, f)
        \/ OpenFails(t)
        \/ InitEnds(t)
        \/ CloseEnds(t)
        \/ ArgsFail(t)
        \/ IOStart(t)
        \/ IOEnd(t)
        \/ pygvhandle_dealloc(t)
        \/ pygvdir_dealloc(t)

Spec == Init /\ [][Next]_vars

-----------------------------------------------------------------------------
(***************************************************************************)
(* Properties.                                                             *)
(***************************************************************************)

\* No GnomeVFSHandle is closed twice, whichever of close, the destructor and
\* a second __init__ meet and however many threads share the object, unless
\* a close of it and another call overlapped.  close leaves self->fd set
\* while gnome_vfs_close and PyErr_Print run Python code, so another thread
\* that closes overlaps it, and so does that Python code itself.
ClosedOnce ==
    \A f \in Files : closes[f] > 1 => owner[f] \in met

\* The calls, each a thread and a position in its stack, that have opened f
\* and not stored it yet.
Opening(f) ==
    {p \in Threads \X (1 .. MaxDepth) :
        /\ p[2] \in Calls(p[1])
        /\ stack[p[1]][p[2]].pc = "opened"
        /\ stack[p[1]][p[2]].with = f}

\* An open file belongs to exactly one object that will close it, or to the
\* call that is opening it; only a pointer overwritten (by a second
\* __init__, or by a close that overlaps one) loses it.
OpenFilesOwned ==
    \A f \in Files : file[f] = "open" =>
        Cardinality({o \in Objects : object[o] = "alive" /\ fd[o] = f}
                    \cup Opening(f))
        = IF f \in lost THEN 0 ELSE 1

OnOpenFile(c) == c.with # NULL /\ file[c.with] = "open"

\* The file that read, write and the rest work on is open, although they
\* look at self->fd once more after they converted their arguments or gave
\* up the GIL, unless a close of the object and another call overlapped.  A
\* directory stays open while it is iterated whatever else is done with it,
\* since only the destructor closes it; but iteration does not check
\* self->dir, which is NULL in an object that was never opened.
IOMeetsOpenFile ==
    \A t \in Threads : \A d \in Calls(t) :
        LET c == stack[t][d] IN
        c.pc = "io" /\ c.on \notin met \ Directories =>
            OnOpenFile(c) \/ (c.on \in Directories /\ c.with = NULL)

\* src/gnomevfs/vfs-handle.c:107, "I/O operation on closed handle", is what
\* read, write and the rest refuse: the file GnomeVFS works on is open.
NoIOOnClosedHandle ==
    \A t \in Threads : \A d \in Calls(t) :
        LET c == stack[t][d] IN
        c.pc = "io" /\ c.on \notin Directories => OnOpenFile(c)

=============================================================================
