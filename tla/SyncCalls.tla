----------------------------- MODULE SyncCalls -----------------------------
(***************************************************************************)
(* The synchronous functions of gnomevfs (gnomevfs/vfsmodule.c), called by *)
(* threads of a Python program.  A function takes its arguments with the   *)
(* GIL, lends pointers to them to GnomeVFS, which most functions call      *)
(* without the GIL, and turns the result into an exception or a value with *)
(* the GIL again.  What it lends are GnomeVFSURIs: of URI objects that are *)
(* arguments, and so referenced by the call, or of the items of a sequence *)
(* that is an argument, which only the sequence references.                *)
(*                                                                         *)
(* gil is the thread that is in C code with the GIL; while it is NULL the  *)
(* interpreter runs the Python code of any thread that is in Python.       *)
(***************************************************************************)
EXTENDS Results, FileInfo, FiniteSets

CONSTANTS
    Threads,
    URIs,       \* gnomevfs.URI objects, each with its GnomeVFSURI; a string
                \* object and its characters are no different
    Lists,      \* Python lists of them
    LibCodes,   \* bound: the result codes GnomeVFS answers
    MaxOps      \* bound: operations of the program

ASSUME CallConstants ==
    LibCodes \subseteq Codes /\ MaxOps \in Nat /\ NULL \notin Threads

VARIABLES
    gil,
    names,      \* names[u]: threads that have a reference on the object u
    content,    \* content[l]: the URIs in list l
    born,       \* URI objects that were made
    cref,       \* ref_count of the GnomeVFSURI
    call,       \* what a thread does
    glists,     \* GLists allocated and not freed
    lost,       \* history: GLists of calls refused for the QUERY error mode
    ops         \* operations of the program so far

callVars == <<gil, names, content, born, cref, call, glists, lost, ops>>
vars == <<callVars, infoVars>>

\* What a function does with the GIL and its answer: "free" gives up the GIL
\* for the call, "kept" does not; "string" gives it up and gets a string, not
\* a result code; "info" is get_file_info; exists, of a URI or of a string, and
\* resolve have ways of their own.
Shapes == {"free", "kept", "string", "info", "exists", "exists_text",
           "resolve"}

\* "text": a string argument is read with the Python API, without the GIL;
\* "ref", "reffed": exists, about to take a reference, and with it; "lib": in
\* GnomeVFS; "callback": in the progress callback; "back": GnomeVFS is done
\* and the thread needs the GIL; "check": the result is looked at, with
\* calls of the Python API.
Idle ==
    [pc |-> "idle", shape |-> "free", args |-> {}, lent |-> {}, lists |-> {},
     glists |-> 0, notify |-> FALSE, code |-> "OK", origin |-> "OK"]

CallRecord ==
    [pc : {"idle", "text", "ref", "reffed", "lib", "callback", "back", "check"},
     shape : Shapes,
     args : SUBSET URIs,            \* URI objects that are arguments
     lent : SUBSET URIs,            \* GnomeVFSURIs that GnomeVFS has
     lists : SUBSET Lists,          \* lists whose items GnomeVFS has
     glists : 0 .. 2,               \* GLists the call frees at its end
     notify : BOOLEAN,              \* there is a progress callback
     code : Codes,                  \* what GnomeVFS answers
     origin : Codes]                \* history: the error it began with

TypeOK ==
    /\ gil \in Threads \cup {NULL}
    /\ names \in [URIs -> SUBSET Threads]
    /\ content \in [Lists -> SUBSET URIs]
    /\ born \subseteq URIs
    /\ cref \in [URIs -> Nat]
    /\ call \in [Threads -> CallRecord]
    /\ glists \in Nat /\ lost \in Nat
    /\ ops \in 0 .. MaxOps
    /\ InfoTypeOK

\* Some URIs exist; threads, or lists, hold them.
Init ==
    /\ gil = NULL
    /\ names \in [URIs -> SUBSET Threads]
    /\ content \in [Lists -> SUBSET URIs]
    /\ born = {u \in URIs : names[u] # {} \/ \E l \in Lists : u \in content[l]}
    /\ cref = [u \in URIs |-> IF u \in born THEN 1 ELSE 0]
    /\ call = [t \in Threads |-> Idle]
    /\ glists = 0 /\ lost = 0
    /\ ops = 0
    /\ InfoInit

-----------------------------------------------------------------------------
(***************************************************************************)
(* URI objects.  The object lives while something holds it; its dealloc    *)
(* gives back the one reference it has on the GnomeVFSURI.                 *)
(***************************************************************************)
\* Mutant: a function gives back the reference it borrows with its argument.
held_by_program(u) ==
    \/ names[u] # {}
    \/ \E l \in Lists : u \in content[l]

Held(u) ==
    \/ names[u] # {}
    \/ \E l \in Lists : u \in content[l]
    \/ \E t \in Threads : u \in call[t].args

\* The reference counts after a step that takes the references plus and gives
\* back minus: pygvuri_dealloc runs for what nothing holds any more.
Settle(plus, minus) ==
    cref' = [u \in URIs |->
        cref[u] + (IF u \in plus THEN 1 ELSE 0)
                - (IF u \in minus THEN 1 ELSE 0)
                - (IF Held(u) /\ ~Held(u)' THEN 1 ELSE 0)]

Op == ops < MaxOps /\ ops' = ops + 1

\* t runs Python code.
Runs(t) == gil = NULL /\ call[t].pc \in {"idle", "callback"}

\* A URI object around a GnomeVFSURI that has the one reference.
pygnome_vfs_uri_new(t, u) ==
    /\ Op /\ Runs(t)
    /\ u \notin born
    /\ born' = born \cup {u}
    /\ names' = [names EXCEPT ![u] = {t}]
    /\ cref' = [cref EXCEPT ![u] = 1]
    /\ UNCHANGED <<gil, content, call, glists, lost, infoVars>>

\* gnomevfs.URI(text), and the methods of a URI object that answer a new one:
\* resolve_relative, append_string, append_path, append_file_name, copy.
pygvuri_init(t, u) == pygnome_vfs_uri_new(t, u)
pygvuri_derive(t, u) == pygnome_vfs_uri_new(t, u)

Forget(t, u) ==
    /\ Op /\ Runs(t)
    /\ t \in names[u]
    /\ names' = [names EXCEPT ![u] = @ \ {t}]
    /\ UNCHANGED <<gil, content, born, call, glists, lost, infoVars>>
    /\ Settle({}, {})

Store(t, u, l) ==
    /\ Op /\ Runs(t)
    /\ t \in names[u]
    /\ content' = [content EXCEPT ![l] = @ \cup {u}]
    /\ UNCHANGED <<gil, names, born, cref, call, glists, lost, infoVars>>

Fetch(t, u, l) ==
    /\ Op /\ Runs(t)
    /\ u \in content[l]
    /\ names' = [names EXCEPT ![u] = @ \cup {t}]
    /\ UNCHANGED <<gil, content, born, cref, call, glists, lost, infoVars>>

Remove(t, u, l) ==
    /\ Op /\ Runs(t)
    /\ u \in content[l]
    /\ content' = [content EXCEPT ![l] = @ \ {u}]
    /\ UNCHANGED <<gil, names, born, call, glists, lost, infoVars>>
    /\ Settle({}, {})

AssignInfo(t) ==
    /\ Op /\ Runs(t)
    /\ setattr \/ pygvfinfo_init
    /\ UNCHANGED <<gil, names, content, born, cref, call, glists, lost>>

-----------------------------------------------------------------------------
(***************************************************************************)
(* Functions, up to the call of GnomeVFS.                                  *)
(***************************************************************************)
Begin(t, c) ==
    /\ Op
    /\ gil = NULL /\ call[t].pc = "idle"
    /\ call' = [call EXCEPT ![t] = c]
    /\ gil' = IF c.shape = "kept" THEN t ELSE NULL
    /\ glists' = glists + c.glists
    /\ UNCHANGED <<names, content, born, cref, lost, infoVars>>

InLib(shape) == [Idle EXCEPT !.pc = "lib", !.shape = shape]

\* A URI object that is an argument is in the argument tuple for the time of
\* the call.
WithURIs(t, shape, us) ==
    /\ \A u \in us : t \in names[u]
    /\ Begin(t, [InLib(shape) EXCEPT !.args = us, !.lent = us])

\* The same for an argument that is a string: PyString_AsString is called when
\* the GIL has been given up.
WithString(t, shape, u) ==
    /\ t \in names[u]
    /\ Begin(t, [InLib(shape) EXCEPT !.pc = "text", !.args = {u},
                                     !.lent = {u}])

\* Functions that take a URI object or a string and give up the GIL.
WithURI(t, shape) ==
    \E u \in URIs : WithURIs(t, shape, {u}) \/ WithString(t, shape, u)

WithText(t, shape) == Begin(t, InLib(shape))

pygvfs_get_file_info(t) == WithURI(t, "info")
pygvfs_set_file_info(t) == WithURI(t, "free")
pygvfs_make_directory(t) == WithURI(t, "free")
pygvfs_remove_directory(t) == WithURI(t, "free")
pygvfs_unlink(t) == WithURI(t, "free")
pygvfs_create_symbolic_link(t, u) == WithURIs(t, "free", {u})
pygvfs_truncate(t, u) == WithURIs(t, "kept", {u})
pygvfs_get_volume_free_space(t, u) == WithURIs(t, "kept", {u})
pygvfs_read_entire_file(t) == WithText(t, "free")
pygvfs_get_mime_type(t) == WithText(t, "string")
pygvfs_get_mime_type_for_data(t) == WithText(t, "string")
dns_sd_browse_sync(t) == WithText(t, "free")
dns_sd_resolve_sync(t) == WithText(t, "free")
dns_sd_list_browse_domains_sync(t) == WithText(t, "free")
pygvfs_resolve(t) == WithText(t, "resolve")

\* The functions that change the MIME database take strings and keep the GIL.
pygvfs_mime_set_icon(t) == WithText(t, "kept")
pygvfs_mime_set_description(t) == WithText(t, "kept")
pygvfs_mime_set_can_be_executable(t) == WithText(t, "kept")
pygvfs_mime_set_default_action_type(t) == WithText(t, "kept")
pygvfs_mime_set_default_application(t) == WithText(t, "kept")
pygvfs_mime_set_default_component(t) == WithText(t, "kept")
pygvfs_mime_add_application_to_short_list(t) == WithText(t, "kept")
pygvfs_mime_remove_application_from_short_list(t) == WithText(t, "kept")
pygvfs_mime_add_component_to_short_list(t) == WithText(t, "kept")
pygvfs_mime_remove_component_from_short_list(t) == WithText(t, "kept")
pygvfs_mime_add_extension(t) == WithText(t, "kept")
pygvfs_mime_remove_extension(t) == WithText(t, "kept")

pygvfs_xfer_uri(t, u, v, notify) ==
    /\ t \in names[u] \cap names[v]
    /\ Begin(t, [InLib("free") EXCEPT !.args = {u, v}, !.lent = {u, v},
                                      !.notify = notify])

\* The items of the sequences ls as _pygvfs_uri_sequence_to_glist finds them.
\* A sequence of another type may make an item when it is asked for one; it
\* dies before the function goes on.
Items(ls, made) == (UNION {content[l] : l \in ls}) \cup made

pygvfs_xfer_uri_list(t, l, k, made, notify) ==
    Begin(t, [InLib("free") EXCEPT !.lists = {l, k}, !.glists = 2,
                                   !.lent = Items({l, k}, made),
                                   !.notify = notify])

pygvfs_xfer_delete_list(t, l, made, notify) ==
    Begin(t, [InLib("free") EXCEPT !.lists = {l}, !.glists = 1,
                                   !.lent = Items({l}, made),
                                   !.notify = notify])

\* string_list_converter: the strings of a list, borrowed in the same way; the
\* GIL is kept.  url_show borrows the strings of env, a list and no other
\* sequence, in an array of its own.
WithStrings(t, l, made, n) ==
    Begin(t, [InLib("kept") EXCEPT !.lists = {l}, !.glists = n,
                                   !.lent = Items({l}, made)])

pygvfs_mime_set_short_list_applications(t, l, made) ==
    WithStrings(t, l, made, 1)
pygvfs_mime_set_short_list_components(t, l, made) ==
    WithStrings(t, l, made, 1)
pygvfs_mime_extend_all_applications(t, l, made) ==
    WithStrings(t, l, made, 1)
pygvfs_mime_remove_from_all_applications(t, l, made) ==
    WithStrings(t, l, made, 1)
pygvfs_url_show(t, l) == WithStrings(t, l, {}, 0)

\* xfer_uri_list, with n = 2 lists, and xfer_delete_list, with 1, may raise
\* before they call GnomeVFS: an item of the first list or of the second is
\* no URI, QUERY error mode without a callback, a callback that cannot be
\* called.  By then they have this many lists; the one with the bad item
\* is freed where it is built.
Built(n, why) ==
    CASE why = "source" -> 0 [] why = "target" -> 1 [] OTHER -> n

\* Mutant: a callback that cannot be called frees one list of two.
freed_one(n, why) == IF why \in {"target", "callable"} THEN 1 ELSE 0

Freed(n, why) ==
    CASE why = "target" -> 1 [] why = "callable" -> n [] OTHER -> 0

xfer_list_fails(t, n, why) ==
    /\ Op
    /\ gil = NULL /\ call[t].pc = "idle"
    /\ why = "target" => n = 2
    /\ glists' = glists + Built(n, why) - Freed(n, why)
    /\ lost' = lost + (IF why = "query" THEN n ELSE 0)
    /\ UNCHANGED <<gil, names, content, born, cref, call, infoVars>>

\* exists gives up the GIL to take a reference, and has it for the call.  Of
\* a string it makes a GnomeVFSURI of its own, which nobody else has.
pygvfs_exists(t, u) ==
    \/ /\ t \in names[u]
       /\ Begin(t, [InLib("exists") EXCEPT !.pc = "ref", !.args = {u},
                                           !.lent = {u}])
    \/ WithString(t, "exists_text", u)

\* The characters of a string argument.  exists raises if they are no URI.
PyString_AsString(t) ==
    /\ call[t].pc = "text"
    /\ \E p \in IF call[t].shape = "exists_text" THEN {"reffed", "back"}
                                                 ELSE {"lib"} :
          call' = [call EXCEPT ![t].pc = p]
    /\ UNCHANGED <<gil, names, content, born, cref, glists, lost, ops,
                   infoVars>>

\* Mutant: the GnomeVFSURI is used without a reference of its own.
ref_forgotten(t) ==
    /\ call[t].pc = "ref"
    /\ call' = [call EXCEPT ![t].pc = "reffed"]
    /\ UNCHANGED <<gil, names, content, born, cref, glists, lost, ops,
                   infoVars>>

gnome_vfs_uri_ref(t) ==
    /\ call[t].pc = "ref"
    /\ call' = [call EXCEPT ![t].pc = "reffed"]
    /\ UNCHANGED <<gil, names, content, born, glists, lost, ops, infoVars>>
    /\ Settle(call[t].args, {})

exists_calls(t) ==
    /\ call[t].pc = "reffed"
    /\ gil = NULL
    /\ gil' = t
    /\ call' = [call EXCEPT ![t].pc = "lib"]
    /\ UNCHANGED <<names, content, born, cref, glists, lost, ops, infoVars>>

-----------------------------------------------------------------------------
(***************************************************************************)
(* GnomeVFS, and the rest of a function.                                   *)
(***************************************************************************)
HoldsGil(t) == call[t].shape \in {"kept", "exists", "exists_text"}

\* GnomeVFS runs a method written in Python, and other threads run.
MethodYields(t) ==
    /\ call[t].pc = "lib"
    /\ gil = t
    /\ gil' = NULL
    /\ UNCHANGED <<names, content, born, cref, call, glists, lost, ops,
                   infoVars>>

MethodResumes(t) ==
    /\ call[t].pc = "lib"
    /\ HoldsGil(t)
    /\ gil = NULL
    /\ gil' = t
    /\ UNCHANGED <<names, content, born, cref, call, glists, lost, ops,
                   infoVars>>

pygvfs_xfer_progress_callback(t) ==
    /\ call[t].pc = "lib"
    /\ call[t].notify
    /\ gil = NULL
    /\ call' = [call EXCEPT ![t].pc = "callback"]
    /\ UNCHANGED <<gil, names, content, born, cref, glists, lost, ops,
                   infoVars>>

CallbackReturns(t) ==
    /\ call[t].pc = "callback"
    /\ gil = NULL
    /\ call' = [call EXCEPT ![t].pc = "lib"]
    /\ UNCHANGED <<gil, names, content, born, cref, glists, lost, ops,
                   infoVars>>

\* Mutant: pygnome_vfs_result_check before pyg_end_allow_threads.
check_too_early(t) == "check"

\* Functions that gave up the GIL take it before they look at the result, all
\* but resolve.
AfterCall(t) ==
    IF HoldsGil(t) \/ call[t].shape = "resolve" THEN "check" ELSE "back"

\* GnomeVFS answers, with a result code, a string or, for exists, a boolean.
LibReturns(t, code) ==
    /\ call[t].pc = "lib"
    /\ HoldsGil(t) => gil = t
    /\ call[t].shape \in {"exists", "exists_text", "string"} => code = "OK"
    /\ call' = [call EXCEPT ![t].pc = AfterCall(t), ![t].lent = {},
                            ![t].lists = {}, ![t].notify = FALSE,
                            ![t].code = code, ![t].origin = code]
    /\ UNCHANGED <<gil, names, content, born, cref, glists, lost, ops,
                   infoVars>>

\* The call was made by a method written in Python, which has no handler for
\* the exception: its own caller gets the error.
ThroughMethod(t) ==
    /\ call[t].pc = "back"
    /\ call' = [call EXCEPT ![t].code =
                    MethodAnswers(pygnome_vfs_result_check(@))]
    /\ UNCHANGED <<gil, names, content, born, cref, glists, lost, ops,
                   infoVars>>

pyg_end_allow_threads(t) ==
    /\ call[t].pc = "back"
    /\ gil = NULL
    /\ gil' = t
    /\ call' = [call EXCEPT ![t].pc = "check"]
    /\ UNCHANGED <<names, content, born, cref, glists, lost, ops, infoVars>>

Raised(t) == pygnome_vfs_result_check(call[t].code)

\* get_file_info makes a FileInfo of whatever GnomeVFS filled, if nothing is
\* raised.  An error without a class leaves it empty.
InfoResult(t) ==
    IF call[t].shape # "info" \/ Raised(t) # "none" THEN UNCHANGED infoVars
    ELSE IF call[t].code = "OK"
    THEN \E s \in Strings :
            pygnome_vfs_file_info_new(ValidBits, s, 1, AccessBits)
    ELSE pygvfinfo_init

\* The function raises or returns; GLists are freed in either case, exists
\* gives its reference back, and the argument tuple is released.  resolve
\* takes the GIL only now.
Finish(t) ==
    /\ call[t].pc = "check"
    /\ gil = IF call[t].shape = "resolve" THEN NULL ELSE t
    /\ gil' = NULL
    /\ call' = [call EXCEPT ![t] = Idle]
    /\ UNCHANGED <<names, content, born, ops>>
    /\ glists' = glists - call[t].glists
    /\ UNCHANGED lost
    /\ Settle({}, IF call[t].shape = "exists" THEN call[t].args ELSE {})
    /\ InfoResult(t)

-----------------------------------------------------------------------------
Program(t) ==
    \/ \E u \in URIs :
          pygvuri_init(t, u) \/ pygvuri_derive(t, u) \/ Forget(t, u)
    \/ \E u \in URIs, l \in Lists :
          Store(t, u, l) \/ Fetch(t, u, l) \/ Remove(t, u, l)
    \/ AssignInfo(t)

\* Items that a sequence made and nobody has.
Unheld == {{}} \cup {{u} : u \in URIs \ born}

MimeChange(t) ==
    \/ pygvfs_mime_set_icon(t)
    \/ pygvfs_mime_set_description(t)
    \/ pygvfs_mime_set_can_be_executable(t)
    \/ pygvfs_mime_set_default_action_type(t)
    \/ pygvfs_mime_set_default_application(t)
    \/ pygvfs_mime_set_default_component(t)
    \/ pygvfs_mime_add_application_to_short_list(t)
    \/ pygvfs_mime_remove_application_from_short_list(t)
    \/ pygvfs_mime_add_component_to_short_list(t)
    \/ pygvfs_mime_remove_component_from_short_list(t)
    \/ pygvfs_mime_add_extension(t)
    \/ pygvfs_mime_remove_extension(t)

Function(t) ==
    \/ MimeChange(t)
    \/ pygvfs_get_file_info(t)
    \/ pygvfs_set_file_info(t)
    \/ pygvfs_make_directory(t)
    \/ pygvfs_remove_directory(t)
    \/ pygvfs_unlink(t)
    \/ pygvfs_read_entire_file(t)
    \/ pygvfs_get_mime_type(t)
    \/ pygvfs_get_mime_type_for_data(t)
    \/ dns_sd_browse_sync(t)
    \/ dns_sd_resolve_sync(t)
    \/ dns_sd_list_browse_domains_sync(t)
    \/ pygvfs_resolve(t)
    \/ \E u \in URIs :
          \/ pygvfs_create_symbolic_link(t, u)
          \/ pygvfs_truncate(t, u)
          \/ pygvfs_get_volume_free_space(t, u)
          \/ pygvfs_exists(t, u)
    \/ \E l \in Lists : pygvfs_url_show(t, l)
    \/ \E l \in Lists, made \in Unheld :
          \/ pygvfs_mime_set_short_list_applications(t, l, made)
          \/ pygvfs_mime_set_short_list_components(t, l, made)
          \/ pygvfs_mime_extend_all_applications(t, l, made)
          \/ pygvfs_mime_remove_from_all_applications(t, l, made)
    \/ \E notify \in BOOLEAN :
          \/ \E u, v \in URIs : pygvfs_xfer_uri(t, u, v, notify)
          \/ \E l, k \in Lists, made \in Unheld :
                pygvfs_xfer_uri_list(t, l, k, made, notify)
          \/ \E l \in Lists, made \in Unheld :
                pygvfs_xfer_delete_list(t, l, made, notify)
    \/ \E n \in 1 .. 2, why \in {"source", "target", "query", "callable"} :
          xfer_list_fails(t, n, why)

Next ==
    \E t \in Threads :
        \/ Program(t)
        \/ Function(t)
        \/ PyString_AsString(t)
        \/ gnome_vfs_uri_ref(t)
        \/ exists_calls(t)
        \/ MethodYields(t)
        \/ MethodResumes(t)
        \/ pygvfs_xfer_progress_callback(t)
        \/ CallbackReturns(t)
        \/ \E code \in LibCodes : LibReturns(t, code)
        \/ ThroughMethod(t)
        \/ pyg_end_allow_threads(t)
        \/ Finish(t)

Spec == Init /\ [][Next]_vars

-----------------------------------------------------------------------------
(***************************************************************************)
(* Properties.                                                             *)
(***************************************************************************)

\* A GnomeVFSURI that GnomeVFS works on is not freed, whatever the threads
\* and the progress callback do with their URI objects and lists: a URI that
\* is an argument, and one that exists has a reference on, never; an item of
\* a list only if no list given to the call has it any more
\* (_pygvfs_uri_sequence_to_glist and string_list_converter borrow the items
\* from the sequence).
LentAlive ==
    \A t \in Threads : \A u \in call[t].lent :
        \/ cref[u] > 0
        \/ /\ call[t].lists # {}
           /\ \A l \in call[t].lists : u \notin content[l]

\* An error that GnomeVFS reports is raised as the exception of its code,
\* through any number of methods written in Python that it passes on the way
\* (pygnome_vfs_result_check, EXCEPTION_CHECK).  BAD_PARAMETERS comes out as
\* BAD_FILE if it passes one; the codes without a class raise nothing.
ErrorsSurvive ==
    \A t \in Threads : call[t].pc \in {"back", "check"} =>
        \/ Raised(t) = pygnome_vfs_result_check(call[t].origin)
        \/ call[t].origin = "BAD_PARAMETERS" /\ Raised(t) = "BAD_FILE"

\* Every GList that is allocated belongs to a call that is in GnomeVFS and
\* will free it: xfer_uri_list, xfer_delete_list and the MIME functions free
\* theirs on every way out but one, QUERY error mode without a callback, which
\* loses all it has.
ListsFreed ==
    glists = lost + Cardinality({p \in Threads \X (1 .. 2) :
                                    p[2] <= call[p[1]].glists})

\* Functions use the Python API only with the GIL, so no two threads do at a
\* time, with two exceptions: resolve builds its list, and raises, without
\* it; and get_file_info, set_file_info, make_directory, remove_directory,
\* unlink and exists read a string argument with PyString_AsString after they
\* gave the GIL up, which is harmless only because the call keeps the string
\* alive.
PythonOnlyWithGil ==
    \A t \in Threads :
        /\ call[t].pc = "check" => gil = t \/ call[t].shape = "resolve"
        /\ call[t].pc = "text" => \A u \in call[t].args : cref[u] > 0

=============================================================================
