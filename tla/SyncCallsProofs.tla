-------------------------- MODULE SyncCallsProofs --------------------------
(***************************************************************************)
(* Proofs about SyncCalls, for any number of threads, URIs and lists: what *)
(* is lent to GnomeVFS is alive, errors survive, GLists are freed, and     *)
(* Python is used with the GIL.  FileInfo's results carry over, because    *)
(* all that the calls do with a FileInfo object are steps of FileInfo.     *)
(***************************************************************************)
EXTENDS SyncCalls, FileInfoProofs, FiniteSetTheorems

\* The types, without the fact that no counter falls below 0: that follows
\* from what the counters count.
BaseType ==
    /\ gil \in Threads \cup {NULL}
    /\ names \in [URIs -> SUBSET Threads]
    /\ content \in [Lists -> SUBSET URIs]
    /\ born \subseteq URIs
    /\ cref \in [URIs -> Int]
    /\ call \in [Threads -> CallRecord]
    /\ glists \in Int /\ lost \in Nat
    /\ ops \in 0 .. MaxOps

\* What Begin gets from any of the functions: a URI object among the
\* arguments is one the calling thread has, and without a list nothing but
\* the arguments is lent.
Opening(t, c) ==
    /\ c \in CallRecord
    /\ c.pc \in IF c.shape = "exists" THEN {"ref"} ELSE {"lib", "text"}
    /\ c.code = c.origin
    /\ \A u \in c.args : t \in names[u]
    /\ c.lists = {} => c.lent \subseteq c.args

\* The record of a call in GnomeVFS, field by field.
LEMMA InLibFields ==
    ASSUME NEW shape \in Shapes
    PROVE  /\ InLib(shape) \in CallRecord
           /\ InLib(shape).pc = "lib" /\ InLib(shape).shape = shape
           /\ InLib(shape).args = {} /\ InLib(shape).lent = {}
           /\ InLib(shape).lists = {}
           /\ InLib(shape).code = InLib(shape).origin
<1>1. "OK" \in Codes
  BY DEF Codes
<1>2. Idle \in CallRecord
  BY <1>1 DEF Idle, CallRecord, Shapes
<1>3. [Idle EXCEPT !.pc = "lib", !.shape = shape] \in CallRecord
  BY <1>2, Zenon DEF CallRecord
<1> QED
  BY <1>3 DEF InLib, Idle

\* Functions whose arguments are URI objects or strings.
LEMMA URIsOpen ==
    ASSUME NEW t \in Threads, NEW shape \in Shapes \ {"exists"},
           NEW us \in SUBSET URIs, WithURIs(t, shape, us)
    PROVE  \E c : Opening(t, c) /\ Begin(t, c)
<1>1. /\ InLib(shape) \in CallRecord
      /\ InLib(shape).pc = "lib" /\ InLib(shape).shape = shape
      /\ InLib(shape).lists = {}
      /\ InLib(shape).code = InLib(shape).origin
  BY InLibFields
<1>2. PICK c : c = [InLib(shape) EXCEPT !.args = us, !.lent = us]
  OBVIOUS
<1>3. c \in CallRecord
  BY <1>1, <1>2, Zenon DEF CallRecord
<1>4. /\ c.pc = "lib" /\ c.shape = shape /\ c.args = us /\ c.lent = us
      /\ c.code = c.origin
  BY <1>1, <1>2 DEF CallRecord
<1>5. Opening(t, c)
  BY <1>3, <1>4 DEF Opening, WithURIs
<1> QED
  BY <1>2, <1>5 DEF WithURIs

\* Functions that take strings only.
LEMMA TextOpens ==
    ASSUME NEW t \in Threads, NEW shape \in Shapes \ {"exists"},
           WithText(t, shape)
    PROVE  \E c : Opening(t, c) /\ Begin(t, c)
<1>1. Opening(t, InLib(shape))
  BY InLibFields DEF Opening
<1> QED
  BY <1>1 DEF WithText

\* Functions with a string argument that is read without the GIL.
LEMMA StringOpens ==
    ASSUME NEW t \in Threads, NEW shape \in Shapes \ {"exists"},
           NEW u \in URIs, WithString(t, shape, u)
    PROVE  \E c : Opening(t, c) /\ Begin(t, c)
<1>1. /\ InLib(shape) \in CallRecord /\ InLib(shape).shape = shape
      /\ InLib(shape).code = InLib(shape).origin
  BY InLibFields
<1>2. PICK c : c = [InLib(shape) EXCEPT !.pc = "text", !.args = {u},
                                        !.lent = {u}]
  OBVIOUS
<1>3. {u} \in SUBSET URIs
  OBVIOUS
<1>4. c \in CallRecord
  BY <1>1, <1>2, <1>3, Zenon DEF CallRecord
<1>5. /\ c.pc = "text" /\ c.shape = shape /\ c.args = {u} /\ c.lent = {u}
      /\ c.code = c.origin
  BY <1>1, <1>2 DEF CallRecord
<1>6. Opening(t, c)
  BY <1>4, <1>5 DEF Opening, WithString
<1> QED
  BY <1>2, <1>6 DEF WithString

\* exists, of a URI object or of a string.
LEMMA ExistsOpens ==
    ASSUME NEW t \in Threads, NEW u \in URIs, pygvfs_exists(t, u)
    PROVE  \E c : Opening(t, c) /\ Begin(t, c)
<1>1. /\ InLib("exists") \in CallRecord
      /\ InLib("exists").shape = "exists"
      /\ InLib("exists").code = InLib("exists").origin
  BY InLibFields DEF Shapes
<1>2. PICK c : c = [InLib("exists") EXCEPT !.pc = "ref", !.args = {u},
                                           !.lent = {u}]
  OBVIOUS
<1>3. {u} \in SUBSET URIs
  OBVIOUS
<1>4. c \in CallRecord
  BY <1>1, <1>2, <1>3, Zenon DEF CallRecord
<1>5. /\ c.pc = "ref" /\ c.shape = "exists" /\ c.args = {u} /\ c.lent = {u}
      /\ c.code = c.origin
  BY <1>1, <1>2 DEF CallRecord
<1>6. CASE t \in names[u] /\ Begin(t, c)
  BY <1>4, <1>5, <1>6 DEF Opening
<1>7. CASE WithString(t, "exists_text", u)
  <2>1. "exists_text" \in Shapes \ {"exists"}
    BY DEF Shapes
  <2> QED
    BY <1>7, <2>1, StringOpens
<1> QED
  BY <1>2, <1>6, <1>7 DEF pygvfs_exists

\* xfer_uri, which may have a progress callback.
LEMMA XferOpens ==
    ASSUME NEW t \in Threads, NEW u \in URIs, NEW v \in URIs,
           NEW notify \in BOOLEAN, pygvfs_xfer_uri(t, u, v, notify)
    PROVE  \E c : Opening(t, c) /\ Begin(t, c)
<1>1. /\ InLib("free") \in CallRecord
      /\ InLib("free").pc = "lib" /\ InLib("free").shape = "free"
      /\ InLib("free").code = InLib("free").origin
  BY InLibFields DEF Shapes
<1>2. PICK c : c = [InLib("free") EXCEPT !.args = {u, v}, !.lent = {u, v},
                                         !.notify = notify]
  OBVIOUS
<1>3. {u, v} \in SUBSET URIs
  OBVIOUS
<1>4. c \in CallRecord
  BY <1>1, <1>2, <1>3, Zenon DEF CallRecord
<1>5. /\ c.pc = "lib" /\ c.shape = "free"
      /\ c.args = {u, v} /\ c.lent = {u, v} /\ c.code = c.origin
  BY <1>1, <1>2 DEF CallRecord
<1>6. Opening(t, c)
  BY <1>4, <1>5 DEF Opening, pygvfs_xfer_uri
<1> QED
  BY <1>2, <1>6 DEF pygvfs_xfer_uri

\* The items of lists are URIs, made for the call or not.
LEMMA ItemsType ==
    ASSUME BaseType, NEW ls \in SUBSET Lists, NEW made \in Unheld
    PROVE  Items(ls, made) \in SUBSET URIs
<1>1. SUFFICES ASSUME NEW u \in Items(ls, made)
               PROVE  u \in URIs
  OBVIOUS
<1>2. CASE u \in made
  BY <1>2 DEF Unheld
<1>3. CASE \E l \in ls : u \in content[l]
  BY <1>3 DEF BaseType
<1>4. u \in made \/ u \in UNION {content[l] : l \in ls}
  BY <1>1 DEF Items
<1>5. PICK X : u \in made \/ (u \in X /\ X \in {content[l] : l \in ls})
  BY <1>4
<1> QED
  BY <1>2, <1>3, <1>5

\* xfer_uri_list and xfer_delete_list, with the items of one or two lists.
LEMMA XferListsOpen ==
    ASSUME NEW t \in Threads, NEW ls \in SUBSET Lists, ls # {},
           NEW us \in SUBSET URIs, NEW n \in 0 .. 2, NEW notify \in BOOLEAN,
           Begin(t, [InLib("free") EXCEPT !.lists = ls, !.glists = n,
                                          !.lent = us, !.notify = notify])
    PROVE  \E c : Opening(t, c) /\ Begin(t, c)
<1>1. /\ InLib("free") \in CallRecord /\ InLib("free").pc = "lib"
      /\ InLib("free").shape = "free" /\ InLib("free").args = {}
      /\ InLib("free").code = InLib("free").origin
  BY InLibFields DEF Shapes
<1>2. PICK c : c = [InLib("free") EXCEPT !.lists = ls, !.glists = n,
                                         !.lent = us, !.notify = notify]
  OBVIOUS
<1>3. c \in CallRecord
  BY <1>1, <1>2, Zenon DEF CallRecord
<1>4. /\ c.pc = "lib" /\ c.shape = "free" /\ c.args = {} /\ c.lists = ls
      /\ c.code = c.origin
  BY <1>1, <1>2 DEF CallRecord
<1>5. Opening(t, c)
  BY <1>3, <1>4 DEF Opening
<1> QED
  BY <1>2, <1>5

\* The MIME functions that take a list of strings, and url_show.
LEMMA StringsOpen ==
    ASSUME BaseType, NEW t \in Threads, NEW l \in Lists, NEW made \in Unheld,
           NEW n \in 0 .. 2, WithStrings(t, l, made, n)
    PROVE  \E c : Opening(t, c) /\ Begin(t, c)
<1>1. /\ InLib("kept") \in CallRecord /\ InLib("kept").pc = "lib"
      /\ InLib("kept").shape = "kept" /\ InLib("kept").args = {}
      /\ InLib("kept").code = InLib("kept").origin
  BY InLibFields DEF Shapes
<1>2. PICK c : c = [InLib("kept") EXCEPT !.lists = {l}, !.glists = n,
                                         !.lent = Items({l}, made)]
  OBVIOUS
<1>3. {l} \in SUBSET Lists /\ Items({l}, made) \in SUBSET URIs
  BY ItemsType
<1>4. c \in CallRecord
  BY <1>1, <1>2, <1>3, Zenon DEF CallRecord
<1>5. /\ c.pc = "lib" /\ c.shape = "kept" /\ c.args = {} /\ c.lists = {l}
      /\ c.code = c.origin
  BY <1>1, <1>2 DEF CallRecord
<1>6. Opening(t, c)
  BY <1>4, <1>5 DEF Opening
<1> QED
  BY <1>2, <1>6 DEF WithStrings

\* Every function of the module begins a call of this kind, or raises before
\* it has called GnomeVFS.
LEMMA FunctionOpens ==
    ASSUME BaseType, NEW t \in Threads, Function(t)
    PROVE  \/ \E c : Opening(t, c) /\ Begin(t, c)
           \/ \E n \in 1 .. 2,
                 why \in {"source", "target", "query", "callable"} :
                    xfer_list_fails(t, n, why)
<1> DEFINE Goal == \E c : Opening(t, c) /\ Begin(t, c)
<1>0. {"free", "kept", "string", "info", "resolve"}
          \subseteq Shapes \ {"exists"}
  BY DEF Shapes
<1>00. 1 \in 0 .. 2 /\ 2 \in 0 .. 2
  OBVIOUS
<1>1. ASSUME NEW shape \in {"free", "kept", "string", "resolve"},
             WithText(t, shape)
      PROVE  Goal
  BY <1>0, <1>1, TextOpens
<1>2. ASSUME NEW shape \in {"info", "free"}, WithURI(t, shape)
      PROVE  Goal
  <2>1. PICK u \in URIs : WithURIs(t, shape, {u}) \/ WithString(t, shape, u)
    BY <1>2 DEF WithURI
  <2>2. {u} \in SUBSET URIs
    OBVIOUS
  <2> QED
    BY <1>0, <2>1, <2>2, URIsOpen, StringOpens
<1>3. ASSUME NEW shape \in {"free", "kept"}, NEW u \in URIs,
             WithURIs(t, shape, {u})
      PROVE  Goal
  <2>1. {u} \in SUBSET URIs
    OBVIOUS
  <2> QED
    BY <1>0, <1>3, <2>1, URIsOpen
<1>4. ASSUME MimeChange(t)
      PROVE  Goal
  <2>1. WithText(t, "kept")
    BY <1>4
       DEF MimeChange, pygvfs_mime_set_icon, pygvfs_mime_set_description,
           pygvfs_mime_set_can_be_executable,
           pygvfs_mime_set_default_action_type,
           pygvfs_mime_set_default_application,
           pygvfs_mime_set_default_component,
           pygvfs_mime_add_application_to_short_list,
           pygvfs_mime_remove_application_from_short_list,
           pygvfs_mime_add_component_to_short_list,
           pygvfs_mime_remove_component_from_short_list,
           pygvfs_mime_add_extension, pygvfs_mime_remove_extension
  <2> QED
    BY <1>1, <2>1
<1>5. ASSUME \/ pygvfs_get_file_info(t) \/ pygvfs_set_file_info(t)
             \/ pygvfs_make_directory(t) \/ pygvfs_remove_directory(t)
             \/ pygvfs_unlink(t)
      PROVE  Goal
  BY <1>2, <1>5
     DEF pygvfs_get_file_info, pygvfs_set_file_info, pygvfs_make_directory,
         pygvfs_remove_directory, pygvfs_unlink
<1>6. ASSUME \/ pygvfs_read_entire_file(t) \/ pygvfs_get_mime_type(t)
             \/ pygvfs_get_mime_type_for_data(t) \/ dns_sd_browse_sync(t)
             \/ dns_sd_resolve_sync(t) \/ dns_sd_list_browse_domains_sync(t)
             \/ pygvfs_resolve(t)
      PROVE  Goal
  BY <1>1, <1>6
     DEF pygvfs_read_entire_file, pygvfs_get_mime_type,
         pygvfs_get_mime_type_for_data, dns_sd_browse_sync,
         dns_sd_resolve_sync, dns_sd_list_browse_domains_sync, pygvfs_resolve
<1>7. ASSUME NEW u \in URIs,
             \/ pygvfs_create_symbolic_link(t, u)
             \/ pygvfs_truncate(t, u)
             \/ pygvfs_get_volume_free_space(t, u)
      PROVE  Goal
  BY <1>3, <1>7
     DEF pygvfs_create_symbolic_link, pygvfs_truncate,
         pygvfs_get_volume_free_space
<1>8. ASSUME NEW l \in Lists, pygvfs_url_show(t, l)
      PROVE  Goal
  <2>1. {} \in Unheld
    BY DEF Unheld
  <2> QED
    BY <1>8, <2>1, StringsOpen DEF pygvfs_url_show
<1>9. ASSUME NEW l \in Lists, NEW made \in Unheld,
             \/ pygvfs_mime_set_short_list_applications(t, l, made)
             \/ pygvfs_mime_set_short_list_components(t, l, made)
             \/ pygvfs_mime_extend_all_applications(t, l, made)
             \/ pygvfs_mime_remove_from_all_applications(t, l, made)
      PROVE  Goal
  <2>1. WithStrings(t, l, made, 1)
    BY <1>9
       DEF pygvfs_mime_set_short_list_applications,
           pygvfs_mime_set_short_list_components,
           pygvfs_mime_extend_all_applications,
           pygvfs_mime_remove_from_all_applications
  <2> QED
    BY <2>1, StringsOpen
<1>10. ASSUME NEW l \in Lists, NEW k \in Lists, NEW made \in Unheld,
              NEW notify \in BOOLEAN, pygvfs_xfer_uri_list(t, l, k, made, notify)
       PROVE  Goal
  <2>1. {l, k} \in SUBSET Lists /\ {l, k} # {}
    OBVIOUS
  <2>2. Items({l, k}, made) \in SUBSET URIs
    BY <2>1, ItemsType
  <2> QED
    BY <1>10, <2>1, <2>2, <1>00, XferListsOpen, Zenon
       DEF pygvfs_xfer_uri_list
<1>11. ASSUME NEW l \in Lists, NEW made \in Unheld, NEW notify \in BOOLEAN,
              pygvfs_xfer_delete_list(t, l, made, notify)
       PROVE  Goal
  <2>1. {l} \in SUBSET Lists /\ {l} # {}
    OBVIOUS
  <2>2. Items({l}, made) \in SUBSET URIs
    BY <2>1, ItemsType
  <2> QED
    BY <1>11, <2>1, <2>2, <1>00, XferListsOpen, Zenon
       DEF pygvfs_xfer_delete_list
<1> HIDE DEF Goal
<1>12. \/ Goal
       \/ \E n \in 1 .. 2,
             why \in {"source", "target", "query", "callable"} :
                xfer_list_fails(t, n, why)
       \/ \E u \in URIs : pygvfs_exists(t, u)
       \/ \E notify \in BOOLEAN :
             \E u, v \in URIs : pygvfs_xfer_uri(t, u, v, notify)
  BY <1>4, <1>5, <1>6, <1>7, <1>8, <1>9, <1>10, <1>11 DEF Function
<1> QED
  BY <1>12, ExistsOpens, XferOpens DEF Goal

\* A step of a thread, with the functions reduced to what they have in common.
StepOf(t) ==
    \/ \E u \in URIs : pygnome_vfs_uri_new(t, u) \/ Forget(t, u)
    \/ \E u \in URIs, l \in Lists :
          Store(t, u, l) \/ Fetch(t, u, l) \/ Remove(t, u, l)
    \/ AssignInfo(t)
    \/ \E c : Opening(t, c) /\ Begin(t, c)
    \/ \E n \in 1 .. 2, why \in {"source", "target", "query", "callable"} :
          xfer_list_fails(t, n, why)
    \/ PyString_AsString(t)
    \/ gnome_vfs_uri_ref(t)
    \/ exists_calls(t)
    \/ MethodYields(t)
    \/ MethodResumes(t)
    \/ pygvfs_xfer_progress_callback(t)
    \/ CallbackReturns(t)
    \/ \E code \in LibCodes : LibReturns(t, code)
    \/ ThroughMethod(t)
    \/ pyg_end_allow_threads(t)
    \/ Finish(t)

\* Every step of the system is one of these.
LEMMA NextSteps ==
    ASSUME BaseType, [Next]_vars
    PROVE  (\E t \in Threads : StepOf(t)) \/ UNCHANGED vars
<1>1. ASSUME NEW t \in Threads, Program(t)
      PROVE  StepOf(t)
  BY <1>1 DEF Program, StepOf, pygvuri_init, pygvuri_derive
<1>2. ASSUME NEW t \in Threads, Function(t)
      PROVE  StepOf(t)
  BY <1>2, FunctionOpens DEF StepOf
<1> QED
  BY <1>1, <1>2 DEF Next, StepOf

\* The fields of a call, and the calls after one field of one was changed.
LEMMA PcChanged ==
    ASSUME BaseType, NEW t \in Threads,
           NEW pc \in {"reffed", "lib", "callback", "back", "check"},
           call' = [call EXCEPT ![t].pc = pc]
    PROVE  /\ call' \in [Threads -> CallRecord]
           /\ \A s \in Threads :
                 /\ s # t => call'[s] = call[s]
                 /\ call'[s].shape = call[s].shape
                 /\ call'[s].args = call[s].args
                 /\ call'[s].lent = call[s].lent
                 /\ call'[s].lists = call[s].lists
                 /\ call'[s].glists = call[s].glists
                 /\ call'[s].code = call[s].code
                 /\ call'[s].origin = call[s].origin
           /\ call'[t].pc = pc
BY DEF BaseType, CallRecord

\* The calls after one has read its string.
LEMMA TextRead ==
    ASSUME NEW t \in Threads, PyString_AsString(t)
    PROVE  /\ call[t].pc = "text"
           /\ \E pc \in {"reffed", "lib", "back"} :
                 call' = [call EXCEPT ![t].pc = pc]
           /\ UNCHANGED <<gil, names, content, born, cref, glists, lost, ops>>
BY DEF PyString_AsString

\* The calls after GnomeVFS has answered one.
LEMMA Returned ==
    ASSUME BaseType, NEW t \in Threads, NEW code \in LibCodes,
           LibReturns(t, code)
    PROVE  /\ call' \in [Threads -> CallRecord]
           /\ \A s \in Threads :
                 /\ s # t => call'[s] = call[s]
                 /\ call'[s].shape = call[s].shape
                 /\ call'[s].args = call[s].args
                 /\ call'[s].glists = call[s].glists
           /\ call'[t].pc = AfterCall(t)
           /\ call'[t].lent = {}
           /\ call'[t].code = code /\ call'[t].origin = code
<1>1. code \in Codes /\ AfterCall(t) \in {"check", "back"}
  BY CallConstants DEF AfterCall
<1>2. PICK r : r = [call[t] EXCEPT !.pc = AfterCall(t), !.lent = {},
                       !.lists = {}, !.notify = FALSE, !.code = code,
                       !.origin = code]
  OBVIOUS
<1>3. call[t] \in CallRecord
  BY DEF BaseType
<1>4. {} \in SUBSET URIs /\ {} \in SUBSET Lists /\ FALSE \in BOOLEAN
  OBVIOUS
<1>5. AfterCall(t) \in {"idle", "text", "ref", "reffed", "lib", "callback",
                        "back", "check"}
  BY <1>1
<1>6. r \in CallRecord
  BY <1>1, <1>2, <1>3, <1>4, <1>5, Zenon DEF CallRecord
<1>7. /\ r.pc = AfterCall(t) /\ r.lent = {} /\ r.code = code
      /\ r.origin = code /\ r.shape = call[t].shape
      /\ r.args = call[t].args /\ r.glists = call[t].glists
  BY <1>2, <1>3 DEF CallRecord
<1>8. call' = [call EXCEPT ![t] = r]
  BY <1>2 DEF LibReturns
<1> QED
  BY <1>6, <1>7, <1>8 DEF BaseType

\* The members of Classes that the checks treat in a way of their own.
LEMMA SpecialClasses ==
    /\ "BAD_PARAMETERS" \in Classes /\ "BAD_FILE" \in Classes
    /\ "GENERIC" \in Classes /\ "none" \notin Classes /\ "OK" \notin Classes
BY DEF Classes

\* An error that passes a method written in Python comes out as itself, all
\* but BAD_PARAMETERS.
LEMMA MethodAnswersCode ==
    ASSUME NEW code \in Codes
    PROVE  LET after == MethodAnswers(pygnome_vfs_result_check(code)) IN
           /\ after \in Codes
           /\ IF code = "BAD_PARAMETERS" THEN after = "BAD_FILE"
              ELSE pygnome_vfs_result_check(after)
                   = pygnome_vfs_result_check(code)
<1>1. CASE code \notin Classes
  BY <1>1, SpecialClasses DEF MethodAnswers, pygnome_vfs_result_check, Codes
<1>2. CASE code \in Classes
  <2>1. pygnome_vfs_result_check(code) = code /\ code # "none"
    BY <1>2, SpecialClasses DEF pygnome_vfs_result_check
  <2>2. pygnome_vfs_exception_check(code)
          = IF code = "BAD_PARAMETERS" THEN "BAD_FILE" ELSE code
    BY <1>2, <2>1 DEF pygnome_vfs_exception_check
  <2> QED
    BY <1>2, <2>1, <2>2, SpecialClasses
       DEF MethodAnswers, pygnome_vfs_result_check, Codes
<1> QED
  BY <1>1, <1>2

\* The calls after the error of one passed a method written in Python.
LEMMA Passed ==
    ASSUME BaseType, NEW t \in Threads, ThroughMethod(t)
    PROVE  /\ call' \in [Threads -> CallRecord]
           /\ \A s \in Threads :
                 /\ s # t => call'[s] = call[s]
                 /\ call'[s].pc = call[s].pc
                 /\ call'[s].shape = call[s].shape
                 /\ call'[s].args = call[s].args
                 /\ call'[s].lent = call[s].lent
                 /\ call'[s].lists = call[s].lists
                 /\ call'[s].glists = call[s].glists
                 /\ call'[s].origin = call[s].origin
           /\ call'[t].code =
                 MethodAnswers(pygnome_vfs_result_check(call[t].code))
<1>1. PICK code : code = MethodAnswers(pygnome_vfs_result_check(call[t].code))
  OBVIOUS
<1>2. call[t].code \in Codes
  BY DEF BaseType, CallRecord
<1>3. code \in Codes
  BY <1>1, <1>2, MethodAnswersCode
<1>4. call' = [call EXCEPT ![t].code = code]
  BY <1>1 DEF ThroughMethod
<1> QED
  BY <1>1, <1>3, <1>4 DEF BaseType, CallRecord

\* Idle is a call record, with nothing in it.
LEMMA IdleRecord ==
    /\ Idle \in CallRecord
    /\ Idle.pc = "idle" /\ Idle.shape = "free" /\ Idle.args = {}
    /\ Idle.lent = {} /\ Idle.lists = {} /\ Idle.glists = 0
<1>1. "OK" \in Codes
  BY DEF Codes
<1> QED
  BY <1>1 DEF Idle, CallRecord, Shapes

\* Settle computes an integer for every URI.
LEMMA SettleType ==
    ASSUME BaseType, NEW plus, NEW minus, Settle(plus, minus)
    PROVE  cref' \in [URIs -> Int]
BY DEF BaseType, Settle

\* Every step keeps the types.
LEMMA BaseStep ==
    ASSUME BaseType, [Next]_vars
    PROVE  BaseType'
<1> USE CallConstants DEF BaseType
<1>1. ASSUME NEW t \in Threads, NEW u \in URIs, pygnome_vfs_uri_new(t, u)
      PROVE  BaseType'
  BY <1>1 DEF pygnome_vfs_uri_new, Op
<1>2. ASSUME NEW t \in Threads, NEW u \in URIs, Forget(t, u)
      PROVE  BaseType'
  BY <1>2, SettleType DEF Forget, Op
<1>3. ASSUME NEW t \in Threads, NEW u \in URIs, NEW l \in Lists,
             Store(t, u, l)
      PROVE  BaseType'
  BY <1>3 DEF Store, Op
<1>4. ASSUME NEW t \in Threads, NEW u \in URIs, NEW l \in Lists,
             Fetch(t, u, l)
      PROVE  BaseType'
  BY <1>4 DEF Fetch, Op
<1>5. ASSUME NEW t \in Threads, NEW u \in URIs, NEW l \in Lists,
             Remove(t, u, l)
      PROVE  BaseType'
  BY <1>5, SettleType DEF Remove, Op
<1>6. ASSUME NEW t \in Threads, AssignInfo(t)
      PROVE  BaseType'
  BY <1>6 DEF AssignInfo, Op
<1>7. ASSUME NEW t \in Threads, NEW c, Opening(t, c), Begin(t, c)
      PROVE  BaseType'
  <2>1. c \in CallRecord /\ c.glists \in Int
    BY <1>7 DEF Opening, CallRecord
  <2> QED
    BY <1>7, <2>1 DEF Begin, Op
<1>8. ASSUME NEW t \in Threads, NEW n \in 1 .. 2,
             NEW why \in {"source", "target", "query", "callable"},
             xfer_list_fails(t, n, why)
      PROVE  BaseType'
  <2>1. Built(n, why) \in Nat /\ Freed(n, why) \in Nat
    BY DEF Built, Freed
  <2> QED
    BY <1>8, <2>1 DEF xfer_list_fails, Op
<1>9. ASSUME NEW t \in Threads, gnome_vfs_uri_ref(t)
      PROVE  BaseType'
  BY <1>9, PcChanged, SettleType DEF gnome_vfs_uri_ref
<1>10. ASSUME NEW t \in Threads, exists_calls(t)
       PROVE  BaseType'
  BY <1>10, PcChanged DEF exists_calls
<1>11. ASSUME NEW t \in Threads, MethodYields(t) \/ MethodResumes(t)
       PROVE  BaseType'
  BY <1>11 DEF MethodYields, MethodResumes
<1>12. ASSUME NEW t \in Threads,
              pygvfs_xfer_progress_callback(t) \/ CallbackReturns(t)
       PROVE  BaseType'
  BY <1>12, PcChanged DEF pygvfs_xfer_progress_callback, CallbackReturns
<1>13. ASSUME NEW t \in Threads, NEW code \in LibCodes, LibReturns(t, code)
       PROVE  BaseType'
  BY <1>13, Returned DEF LibReturns
<1>14. ASSUME NEW t \in Threads, ThroughMethod(t)
       PROVE  BaseType'
  BY <1>14, Passed DEF ThroughMethod
<1>15. ASSUME NEW t \in Threads, pyg_end_allow_threads(t)
       PROVE  BaseType'
  BY <1>15, PcChanged DEF pyg_end_allow_threads
<1>16. ASSUME NEW t \in Threads, Finish(t)
       PROVE  BaseType'
  <2>1. call[t].glists \in Int
    BY DEF CallRecord
  <2>2. cref' \in [URIs -> Int]
    BY <1>16, SettleType DEF Finish
  <2>3. call' \in [Threads -> CallRecord]
    BY <1>16, IdleRecord DEF Finish
  <2> QED
    BY <1>16, <2>1, <2>2, <2>3 DEF Finish
<1>18. ASSUME NEW t \in Threads, PyString_AsString(t)
       PROVE  BaseType'
  <2>1. PICK pc \in {"reffed", "lib", "back"} :
           /\ call[t].pc = "text"
           /\ call' = [call EXCEPT ![t].pc = pc]
           /\ UNCHANGED <<gil, names, content, born, cref, glists, lost, ops>>
    BY <1>18, TextRead
  <2> QED
    BY <2>1, PcChanged
<1>17. CASE UNCHANGED vars
  BY <1>17 DEF vars, callVars
<1> QED
  BY <1>1, <1>2, <1>3, <1>4, <1>5, <1>6, <1>7, <1>8, <1>9, <1>10, <1>11,
     <1>12, <1>13, <1>14, <1>15, <1>16, <1>17, <1>18, NextSteps
  DEF StepOf

\* Type correctness up to the signs of the counters.
LEMMA BaseCorrect == Spec => []BaseType
<1>1. Init => BaseType
  BY CallConstants, IdleRecord DEF Init, BaseType
<1> QED
  BY <1>1, BaseStep, PTL DEF Spec

-----------------------------------------------------------------------------
(***************************************************************************)
(* The GIL and the result.                                                 *)
(***************************************************************************)

\* The part of PythonOnlyWithGil that is about the GIL itself.
ChecksWithGil ==
    \A t \in Threads :
        call[t].pc = "check" => gil = t \/ call[t].shape = "resolve"

\* One step keeps it: the GIL changes hands only through NULL.
LEMMA GilStep ==
    ASSUME BaseType, ChecksWithGil, [Next]_vars
    PROVE  ChecksWithGil'
<1> USE CallConstants DEF BaseType, ChecksWithGil
<1>1. ASSUME NEW t \in Threads, NEW u \in URIs, pygnome_vfs_uri_new(t, u)
      PROVE  ChecksWithGil'
  BY <1>1 DEF pygnome_vfs_uri_new
<1>2. ASSUME NEW t \in Threads, NEW u \in URIs, Forget(t, u)
      PROVE  ChecksWithGil'
  BY <1>2 DEF Forget
<1>3. ASSUME NEW t \in Threads, NEW u \in URIs, NEW l \in Lists,
             Store(t, u, l)
      PROVE  ChecksWithGil'
  BY <1>3 DEF Store
<1>4. ASSUME NEW t \in Threads, NEW u \in URIs, NEW l \in Lists,
             Fetch(t, u, l)
      PROVE  ChecksWithGil'
  BY <1>4 DEF Fetch
<1>5. ASSUME NEW t \in Threads, NEW u \in URIs, NEW l \in Lists,
             Remove(t, u, l)
      PROVE  ChecksWithGil'
  BY <1>5 DEF Remove
<1>6. ASSUME NEW t \in Threads, AssignInfo(t)
      PROVE  ChecksWithGil'
  BY <1>6 DEF AssignInfo
<1>7. ASSUME NEW t \in Threads, NEW c, Opening(t, c), Begin(t, c)
      PROVE  ChecksWithGil'
  <2>1. call' = [call EXCEPT ![t] = c] /\ c.pc # "check"
    BY <1>7 DEF Opening, Begin
  <2> QED
    BY <1>7, <2>1 DEF Begin
<1>8. ASSUME NEW t \in Threads, NEW n \in 1 .. 2,
             NEW why \in {"source", "target", "query", "callable"},
             xfer_list_fails(t, n, why)
      PROVE  ChecksWithGil'
  BY <1>8 DEF xfer_list_fails
<1>9. ASSUME NEW t \in Threads, gnome_vfs_uri_ref(t)
      PROVE  ChecksWithGil'
  BY <1>9, PcChanged DEF gnome_vfs_uri_ref
<1>10. ASSUME NEW t \in Threads, exists_calls(t)
      PROVE  ChecksWithGil'
  BY <1>10, PcChanged DEF exists_calls
<1>11. ASSUME NEW t \in Threads, MethodYields(t) \/ MethodResumes(t)
      PROVE  ChecksWithGil'
  BY <1>11 DEF MethodYields, MethodResumes
<1>12. ASSUME NEW t \in Threads,
              pygvfs_xfer_progress_callback(t) \/ CallbackReturns(t)
      PROVE  ChecksWithGil'
  BY <1>12, PcChanged DEF pygvfs_xfer_progress_callback, CallbackReturns
<1>13. ASSUME NEW t \in Threads, NEW code \in LibCodes, LibReturns(t, code)
      PROVE  ChecksWithGil'
  <2>1. /\ \A s \in Threads : s # t => call'[s] = call[s]
        /\ call'[t].pc = AfterCall(t) /\ call'[t].shape = call[t].shape
    BY <1>13, Returned
  <2>2. (HoldsGil(t) => gil = t) /\ gil' = gil
    BY <1>13 DEF LibReturns
  <2> QED
    BY <2>1, <2>2 DEF AfterCall, HoldsGil
<1>14. ASSUME NEW t \in Threads, ThroughMethod(t)
      PROVE  ChecksWithGil'
  BY <1>14, Passed DEF ThroughMethod
<1>15. ASSUME NEW t \in Threads, pyg_end_allow_threads(t)
      PROVE  ChecksWithGil'
  BY <1>15, PcChanged DEF pyg_end_allow_threads
<1>16. ASSUME NEW t \in Threads, Finish(t)
      PROVE  ChecksWithGil'
  <2>1. call' = [call EXCEPT ![t] = Idle] /\ Idle.pc # "check"
    BY <1>16, IdleRecord DEF Finish
  <2> QED
    BY <1>16, <2>1 DEF Finish
<1>18. ASSUME NEW t \in Threads, PyString_AsString(t)
       PROVE  ChecksWithGil'
  <2>1. PICK pc \in {"reffed", "lib", "back"} :
           /\ call[t].pc = "text"
           /\ call' = [call EXCEPT ![t].pc = pc]
           /\ UNCHANGED <<gil, names, content, born, cref, glists, lost, ops>>
    BY <1>18, TextRead
  <2> QED
    BY <2>1, PcChanged
<1>17. CASE UNCHANGED vars
  BY <1>17 DEF vars, callVars
<1> QED
  BY <1>1, <1>2, <1>3, <1>4, <1>5, <1>6, <1>7, <1>8, <1>9, <1>10, <1>11,
     <1>12, <1>13, <1>14, <1>15, <1>16, <1>17, <1>18, NextSteps
  DEF StepOf

\* No thread looks at a result, with calls of the Python API, without the
\* GIL, except in resolve.
LEMMA ChecksWithGilHolds == Spec => []ChecksWithGil
<1>1. Init => ChecksWithGil
  BY IdleRecord DEF Init, ChecksWithGil
<1> QED
  BY <1>1, BaseCorrect, GilStep, PTL DEF Spec

\* The error in a call is that of GnomeVFS, or what became of it, before
\* GnomeVFS was called too.
ErrorInv ==
    \A t \in Threads : call[t].pc \in {"text", "back", "check"} =>
        \/ Raised(t) = pygnome_vfs_result_check(call[t].origin)
        \/ call[t].origin = "BAD_PARAMETERS" /\ Raised(t) = "BAD_FILE"

\* One step keeps the error: a method that it passes answers the code of the
\* exception it got.
LEMMA ErrorStep ==
    ASSUME BaseType, ErrorInv, [Next]_vars
    PROVE  ErrorInv'
<1> USE DEF BaseType, ErrorInv, Raised
<1>1. ASSUME NEW t \in Threads, NEW u \in URIs, pygnome_vfs_uri_new(t, u)
      PROVE  ErrorInv'
  BY <1>1 DEF pygnome_vfs_uri_new
<1>2. ASSUME NEW t \in Threads, NEW u \in URIs, Forget(t, u)
      PROVE  ErrorInv'
  BY <1>2 DEF Forget
<1>3. ASSUME NEW t \in Threads, NEW u \in URIs, NEW l \in Lists,
             Store(t, u, l)
      PROVE  ErrorInv'
  BY <1>3 DEF Store
<1>4. ASSUME NEW t \in Threads, NEW u \in URIs, NEW l \in Lists,
             Fetch(t, u, l)
      PROVE  ErrorInv'
  BY <1>4 DEF Fetch
<1>5. ASSUME NEW t \in Threads, NEW u \in URIs, NEW l \in Lists,
             Remove(t, u, l)
      PROVE  ErrorInv'
  BY <1>5 DEF Remove
<1>6. ASSUME NEW t \in Threads, AssignInfo(t)
      PROVE  ErrorInv'
  BY <1>6 DEF AssignInfo
<1>7. ASSUME NEW t \in Threads, NEW c, Opening(t, c), Begin(t, c)
      PROVE  ErrorInv'
  <2>1. call' = [call EXCEPT ![t] = c] /\ c.code = c.origin
    BY <1>7 DEF Opening, Begin
  <2> QED
    BY <2>1
<1>8. ASSUME NEW t \in Threads, NEW n \in 1 .. 2,
             NEW why \in {"source", "target", "query", "callable"},
             xfer_list_fails(t, n, why)
      PROVE  ErrorInv'
  BY <1>8 DEF xfer_list_fails
<1>9. ASSUME NEW t \in Threads, gnome_vfs_uri_ref(t)
      PROVE  ErrorInv'
  <2>1. call' = [call EXCEPT ![t].pc = "reffed"]
    BY <1>9 DEF gnome_vfs_uri_ref
  <2> QED
    BY <2>1, PcChanged
<1>10. ASSUME NEW t \in Threads, exists_calls(t)
      PROVE  ErrorInv'
  BY <1>10, PcChanged DEF exists_calls
<1>11. ASSUME NEW t \in Threads, MethodYields(t) \/ MethodResumes(t)
      PROVE  ErrorInv'
  BY <1>11 DEF MethodYields, MethodResumes
<1>12. ASSUME NEW t \in Threads,
              pygvfs_xfer_progress_callback(t) \/ CallbackReturns(t)
      PROVE  ErrorInv'
  BY <1>12, PcChanged DEF pygvfs_xfer_progress_callback, CallbackReturns
<1>13. ASSUME NEW t \in Threads, NEW code \in LibCodes, LibReturns(t, code)
      PROVE  ErrorInv'
  <2>1. /\ \A s \in Threads : s # t => call'[s] = call[s]
        /\ call'[t].code = code /\ call'[t].origin = code
    BY <1>13, Returned
  <2> QED
    BY <2>1
<1>14. ASSUME NEW t \in Threads, ThroughMethod(t)
      PROVE  ErrorInv'
  <2>1. call[t].code \in Codes
    BY DEF CallRecord
  <2> QED
    BY <1>14, <2>1, Passed, MethodAnswersCode, SpecialClasses
       DEF ThroughMethod, pygnome_vfs_result_check
<1>15. ASSUME NEW t \in Threads, pyg_end_allow_threads(t)
      PROVE  ErrorInv'
  BY <1>15, PcChanged DEF pyg_end_allow_threads
<1>16. ASSUME NEW t \in Threads, Finish(t)
      PROVE  ErrorInv'
  <2>1. call' = [call EXCEPT ![t] = Idle]
        /\ Idle.pc \notin {"text", "back", "check"}
    BY <1>16, IdleRecord DEF Finish
  <2> QED
    BY <2>1
<1>18. ASSUME NEW t \in Threads, PyString_AsString(t)
       PROVE  ErrorInv'
  <2>1. PICK pc \in {"reffed", "lib", "back"} :
           /\ call[t].pc = "text"
           /\ call' = [call EXCEPT ![t].pc = pc]
           /\ UNCHANGED <<gil, names, content, born, cref, glists, lost, ops>>
    BY <1>18, TextRead
  <2> QED
    BY <2>1, PcChanged
<1>17. CASE UNCHANGED vars
  BY <1>17 DEF vars, callVars
<1> QED
  BY <1>1, <1>2, <1>3, <1>4, <1>5, <1>6, <1>7, <1>8, <1>9, <1>10, <1>11,
     <1>12, <1>13, <1>14, <1>15, <1>16, <1>17, <1>18, NextSteps
  DEF StepOf

\* What GnomeVFS reports is what is raised, whichever methods written in
\* Python the error passed on the way, all but BAD_PARAMETERS.
THEOREM ErrorsSurviveHolds == Spec => []ErrorsSurvive
<1>1. Init => ErrorInv
  BY IdleRecord DEF Init, ErrorInv
<1>2. ErrorInv => ErrorsSurvive
  BY DEF ErrorInv, ErrorsSurvive
<1> QED
  BY <1>1, <1>2, BaseCorrect, ErrorStep, PTL DEF Spec

-----------------------------------------------------------------------------
(***************************************************************************)
(* The FileInfo objects: SyncCalls implements FileInfo's specification.    *)
(***************************************************************************)

\* Every step leaves the FileInfo object alone or is one of FileInfo's.
LEMMA InfoStep ==
    ASSUME BaseType, [Next]_vars
    PROVE  [InfoNext]_infoVars
<1>1. ASSUME NEW t \in Threads, AssignInfo(t)
      PROVE  [InfoNext]_infoVars
  BY <1>1 DEF AssignInfo, InfoNext
<1>2. ASSUME NEW t \in Threads, Finish(t)
      PROVE  [InfoNext]_infoVars
  <2>1. InfoResult(t)
    BY <1>2 DEF Finish
  <2>2. ASSUME NEW s \in Strings,
               pygnome_vfs_file_info_new(ValidBits, s, 1, AccessBits)
        PROVE  InfoNext
    <3>1. /\ ValidBits \in SUBSET ValidBits
          /\ AccessBits \in SUBSET (AccessBits \cup ModeBits)
          /\ 1 \in 0 .. Narrow - 1
      BY InfoConstants
    <3> QED
      BY <2>2, <3>1 DEF InfoNext
  <2> QED
    BY <2>1, <2>2 DEF InfoResult, InfoNext
<1>3. ASSUME NEW t \in Threads, StepOf(t), ~AssignInfo(t), ~Finish(t)
      PROVE  UNCHANGED infoVars
  BY <1>3 DEF StepOf, pygnome_vfs_uri_new, Forget, Store, Fetch, Remove,
     Begin, xfer_list_fails, PyString_AsString, gnome_vfs_uri_ref, exists_calls, MethodYields,
     MethodResumes, pygvfs_xfer_progress_callback, CallbackReturns,
     LibReturns, ThroughMethod, pyg_end_allow_threads
<1>4. CASE UNCHANGED vars
  BY <1>4 DEF vars
<1> QED
  BY <1>1, <1>2, <1>3, <1>4, NextSteps

\* The calls implement the specification of the FileInfo object they fill.
THEOREM ImplementsFileInfo == Spec => InfoSpec
<1>1. Init => InfoInit
  BY DEF Init
<1> QED
  BY <1>1, BaseCorrect, InfoStep, PTL DEF Spec, InfoSpec

\* Attributes read back as they were given, or as get_file_info filled them.
THEOREM ReadsBackHolds == Spec => []ReadsBack
BY ImplementsFileInfo, InfoReadsBack, PTL

\* A valid bit means a given attribute, for objects filled by a call too.
THEOREM ValidMeansGivenHolds == Spec => []ValidMeansGiven
BY ImplementsFileInfo, InfoValidMeansGiven, PTL

-----------------------------------------------------------------------------
(***************************************************************************)
(* The references on GnomeVFSURIs.  The inductive invariant says what      *)
(* cref counts: one for the URI object, while something holds it, and one  *)
(* for every exists that is past its gnome_vfs_uri_ref.                    *)
(***************************************************************************)

ExistsRefs(u) ==
    {t \in Threads : /\ call[t].shape = "exists" /\ call[t].pc # "ref"
                     /\ u \in call[t].args}

URIInv(u) ==
    /\ u \notin born => ~Held(u)
    /\ IsFiniteSet(ExistsRefs(u))
    /\ cref[u] = Cardinality(ExistsRefs(u)) + (IF Held(u) THEN 1 ELSE 0)

\* A thread between two calls has nothing; only exists waits to take a
\* reference; what is lent is an argument, or was found in a list.
CallInv(t) ==
    /\ call[t].pc = "idle" => call[t] = Idle
    /\ call[t].pc = "ref" => call[t].shape = "exists"
    /\ \A u \in call[t].lent : u \in call[t].args \/ call[t].lists # {}

RefsInv ==
    /\ \A t \in Threads : CallInv(t)
    /\ \A u \in URIs : URIInv(u)

\* The slots of the GLists that calls have and will free.
Slots == {p \in Threads \X (1 .. 2) : p[2] <= call[p[1]].glists}

ListsInv == IsFiniteSet(Slots) /\ glists = lost + Cardinality(Slots)

\* A step keeps what is known of each call.
LEMMA CallStep ==
    ASSUME BaseType, \A t \in Threads : CallInv(t), [Next]_vars
    PROVE  \A t \in Threads : CallInv(t)'
<1>0. SUFFICES ASSUME NEW v \in Threads
               PROVE  CallInv(v)'
  OBVIOUS
<1> USE DEF BaseType, CallInv
<1>1. ASSUME NEW t \in Threads, NEW u \in URIs, pygnome_vfs_uri_new(t, u)
      PROVE  CallInv(v)'
  BY <1>1 DEF pygnome_vfs_uri_new
<1>2. ASSUME NEW t \in Threads, NEW u \in URIs, Forget(t, u)
      PROVE  CallInv(v)'
  BY <1>2 DEF Forget
<1>3. ASSUME NEW t \in Threads, NEW u \in URIs, NEW l \in Lists,
             Store(t, u, l)
      PROVE  CallInv(v)'
  BY <1>3 DEF Store
<1>4. ASSUME NEW t \in Threads, NEW u \in URIs, NEW l \in Lists,
             Fetch(t, u, l)
      PROVE  CallInv(v)'
  BY <1>4 DEF Fetch
<1>5. ASSUME NEW t \in Threads, NEW u \in URIs, NEW l \in Lists,
             Remove(t, u, l)
      PROVE  CallInv(v)'
  BY <1>5 DEF Remove
<1>6. ASSUME NEW t \in Threads, AssignInfo(t)
      PROVE  CallInv(v)'
  BY <1>6 DEF AssignInfo
<1>7. ASSUME NEW t \in Threads, NEW c, Opening(t, c), Begin(t, c)
      PROVE  CallInv(v)'
  <2>1. call' = [call EXCEPT ![t] = c]
    BY <1>7 DEF Begin
  <2> QED
    BY <1>7, <2>1 DEF Opening
<1>8. ASSUME NEW t \in Threads, NEW n \in 1 .. 2,
             NEW why \in {"source", "target", "query", "callable"},
             xfer_list_fails(t, n, why)
      PROVE  CallInv(v)'
  BY <1>8 DEF xfer_list_fails
<1>9. ASSUME NEW t \in Threads, gnome_vfs_uri_ref(t)
      PROVE  CallInv(v)'
  <2>1. call' = [call EXCEPT ![t].pc = "reffed"]
    BY <1>9 DEF gnome_vfs_uri_ref
  <2> QED
    BY <2>1, PcChanged
<1>10. ASSUME NEW t \in Threads, exists_calls(t)
      PROVE  CallInv(v)'
  BY <1>10, PcChanged DEF exists_calls
<1>11. ASSUME NEW t \in Threads, MethodYields(t) \/ MethodResumes(t)
      PROVE  CallInv(v)'
  BY <1>11 DEF MethodYields, MethodResumes
<1>12. ASSUME NEW t \in Threads,
              pygvfs_xfer_progress_callback(t) \/ CallbackReturns(t)
      PROVE  CallInv(v)'
  BY <1>12, PcChanged DEF pygvfs_xfer_progress_callback, CallbackReturns
<1>13. ASSUME NEW t \in Threads, NEW code \in LibCodes, LibReturns(t, code)
      PROVE  CallInv(v)'
  <2>1. /\ \A s \in Threads : s # t => call'[s] = call[s]
        /\ call'[t].pc = AfterCall(t) /\ call'[t].lent = {}
    BY <1>13, Returned
  <2> QED
    BY <2>1 DEF AfterCall
<1>14. ASSUME NEW t \in Threads, ThroughMethod(t)
      PROVE  CallInv(v)'
  <2>1. call[t].pc = "back"
    BY <1>14 DEF ThroughMethod
  <2>2. \A s \in Threads : 
            /\ s # t => call'[s] = call[s]
            /\ call'[s].pc = call[s].pc
            /\ call'[s].args = call[s].args
            /\ call'[s].lent = call[s].lent
            /\ call'[s].lists = call[s].lists
    BY <1>14, Passed
  <2> QED
    BY <2>1, <2>2
<1>15. ASSUME NEW t \in Threads, pyg_end_allow_threads(t)
      PROVE  CallInv(v)'
  BY <1>15, PcChanged DEF pyg_end_allow_threads
<1>16. ASSUME NEW t \in Threads, Finish(t)
      PROVE  CallInv(v)'
  <2>1. call' = [call EXCEPT ![t] = Idle]
    BY <1>16 DEF Finish
  <2> QED
    BY <2>1, IdleRecord
<1>18. ASSUME NEW t \in Threads, PyString_AsString(t)
       PROVE  CallInv(v)'
  <2>1. PICK pc \in {"reffed", "lib", "back"} :
           /\ call[t].pc = "text"
           /\ call' = [call EXCEPT ![t].pc = pc]
           /\ UNCHANGED <<gil, names, content, born, cref, glists, lost, ops>>
    BY <1>18, TextRead
  <2> QED
    BY <2>1, PcChanged
<1>17. CASE UNCHANGED vars
  BY <1>17 DEF vars, callVars
<1> QED
  BY <1>1, <1>2, <1>3, <1>4, <1>5, <1>6, <1>7, <1>8, <1>9, <1>10, <1>11,
     <1>12, <1>13, <1>14, <1>15, <1>16, <1>17, <1>18, NextSteps
  DEF StepOf

\* A step that leaves the URI objects alone, and of the calls changes no more
\* than where they are, past gnome_vfs_uri_ref or before it.
LEMMA SameRefs ==
    ASSUME NEW u \in URIs, URIInv(u),
           UNCHANGED <<names, content, born, cref>>,
           \A t \in Threads :
              /\ call'[t].shape = call[t].shape
              /\ call'[t].args = call[t].args
              /\ call'[t].pc = "ref" <=> call[t].pc = "ref"
    PROVE  URIInv(u)'
<1>1. ExistsRefs(u)' = ExistsRefs(u)
  BY DEF ExistsRefs
<1>2. Held(u)' <=> Held(u)
  BY DEF Held
<1> QED
  BY <1>1, <1>2 DEF URIInv

\* The reference counts stay exact: the object gives its reference back when
\* the last holder goes, and exists when it ends.
LEMMA URIStep ==
    ASSUME BaseType, RefsInv, [Next]_vars
    PROVE  \A u \in URIs : URIInv(u)'
<1>0. SUFFICES ASSUME NEW v \in URIs
               PROVE  URIInv(v)'
  OBVIOUS
<1>v. URIInv(v) /\ \A t \in Threads : CallInv(t)
  BY DEF RefsInv
<1>c. Cardinality(ExistsRefs(v)) \in Nat
  BY <1>v, FS_CardinalityType DEF URIInv
<1>e. ExistsRefs(v) # {} => Held(v)
  BY DEF ExistsRefs, Held
<1>1. ASSUME NEW t \in Threads, NEW u \in URIs, pygnome_vfs_uri_new(t, u)
      PROVE  URIInv(v)'
  <2>1. ExistsRefs(v)' = ExistsRefs(v)
    BY <1>1 DEF pygnome_vfs_uri_new, ExistsRefs
  <2>2. CASE v = u
    <3>1. Held(v)' /\ cref'[v] = 1 /\ v \in born' /\ v \notin born
      BY <1>1, <2>2 DEF pygnome_vfs_uri_new, Held, BaseType
    <3>2. ExistsRefs(v) = {}
      BY <1>v, <1>e, <3>1 DEF URIInv
    <3> QED
      BY <2>1, <3>1, <3>2, FS_EmptySet DEF URIInv
  <2>3. CASE v # u
    <3>1. /\ Held(v)' <=> Held(v)
          /\ cref'[v] = cref[v] /\ (v \in born' <=> v \in born)
      BY <1>1, <2>3 DEF pygnome_vfs_uri_new, Held, BaseType
    <3> QED
      BY <1>v, <2>1, <3>1 DEF URIInv
  <2> QED
    BY <2>2, <2>3
<1>2. ASSUME NEW t \in Threads, NEW u \in URIs, Forget(t, u)
      PROVE  URIInv(v)'
  <2>1. ExistsRefs(v)' = ExistsRefs(v) /\ born' = born
    BY <1>2 DEF Forget, ExistsRefs
  <2>2. Held(v)' => Held(v)
    BY <1>2 DEF Forget, Held, BaseType
  <2>3. cref'[v] = cref[v] - (IF Held(v) /\ ~Held(v)' THEN 1 ELSE 0)
    BY <1>2 DEF Forget, Settle, BaseType
  <2> QED
    BY <1>v, <1>c, <2>1, <2>2, <2>3 DEF URIInv
<1>3. ASSUME NEW t \in Threads, NEW u \in URIs, NEW l \in Lists,
             Store(t, u, l)
      PROVE  URIInv(v)'
  <2>1. ExistsRefs(v)' = ExistsRefs(v) /\ UNCHANGED <<born, cref>>
    BY <1>3 DEF Store, ExistsRefs
  <2>2. Held(v)' <=> Held(v)
    BY <1>3 DEF Store, Held, BaseType
  <2> QED
    BY <1>v, <2>1, <2>2 DEF URIInv
<1>4. ASSUME NEW t \in Threads, NEW u \in URIs, NEW l \in Lists,
             Fetch(t, u, l)
      PROVE  URIInv(v)'
  <2>1. ExistsRefs(v)' = ExistsRefs(v) /\ UNCHANGED <<born, cref>>
    BY <1>4 DEF Fetch, ExistsRefs
  <2>2. Held(v)' <=> Held(v)
    BY <1>4 DEF Fetch, Held, BaseType
  <2> QED
    BY <1>v, <2>1, <2>2 DEF URIInv
<1>5. ASSUME NEW t \in Threads, NEW u \in URIs, NEW l \in Lists,
             Remove(t, u, l)
      PROVE  URIInv(v)'
  <2>1. ExistsRefs(v)' = ExistsRefs(v) /\ born' = born
    BY <1>5 DEF Remove, ExistsRefs
  <2>2. Held(v)' => Held(v)
    BY <1>5 DEF Remove, Held, BaseType
  <2>3. cref'[v] = cref[v] - (IF Held(v) /\ ~Held(v)' THEN 1 ELSE 0)
    BY <1>5 DEF Remove, Settle, BaseType
  <2> QED
    BY <1>v, <1>c, <2>1, <2>2, <2>3 DEF URIInv
<1>6. ASSUME NEW t \in Threads, AssignInfo(t)
      PROVE  URIInv(v)'
  BY <1>6, <1>v, SameRefs DEF AssignInfo
<1>7. ASSUME NEW t \in Threads, NEW c, Opening(t, c), Begin(t, c)
      PROVE  URIInv(v)'
  <2>1. /\ call' = [call EXCEPT ![t] = c]
        /\ UNCHANGED <<names, content, born, cref>>
        /\ call[t].pc = "idle"
    BY <1>7 DEF Begin
  <2>2. call[t].shape = "free" /\ call[t].args = {}
    BY <1>v, <2>1, IdleRecord DEF CallInv
  <2>3. c.shape = "exists" => c.pc = "ref"
    BY <1>7 DEF Opening
  <2>4. ExistsRefs(v)' = ExistsRefs(v)
    BY <2>1, <2>2, <2>3 DEF ExistsRefs, BaseType
  <2>5. Held(v)' <=> Held(v)
    BY <1>7, <2>1, <2>2 DEF Held, Opening, BaseType
  <2> QED
    BY <1>v, <2>1, <2>4, <2>5 DEF URIInv
<1>8. ASSUME NEW t \in Threads, NEW n \in 1 .. 2,
             NEW why \in {"source", "target", "query", "callable"},
             xfer_list_fails(t, n, why)
      PROVE  URIInv(v)'
  BY <1>8, <1>v, SameRefs DEF xfer_list_fails
<1>9. ASSUME NEW t \in Threads, gnome_vfs_uri_ref(t)
      PROVE  URIInv(v)'
  <2>1. /\ call[t].pc = "ref" /\ call[t].shape = "exists"
        /\ call' = [call EXCEPT ![t].pc = "reffed"]
        /\ UNCHANGED <<names, content, born>>
    BY <1>9, <1>v DEF gnome_vfs_uri_ref, CallInv
  <2>2. /\ \A s \in Threads : /\ s # t => call'[s] = call[s]
                              /\ call'[s].shape = call[s].shape
                              /\ call'[s].args = call[s].args
        /\ call'[t].pc = "reffed"
    <3>1. /\ \A s \in Threads : /\ s # t => call'[s] = call[s]
                                /\ call'[s].shape = call[s].shape
                                /\ call'[s].args = call[s].args
      BY <2>1, PcChanged
    <3>2. call[t] \in CallRecord /\ call'[t] = [call[t] EXCEPT !.pc = "reffed"]
      BY <2>1 DEF BaseType
    <3>3. call'[t].pc = "reffed"
      BY <3>2, Zenon DEF CallRecord
    <3> QED
      BY <3>1, <3>3
  <2>3. Held(v)' <=> Held(v)
    BY <2>1, <2>2 DEF Held
  <2>4. cref'[v] = cref[v] + (IF v \in call[t].args THEN 1 ELSE 0)
    BY <1>9, <2>3 DEF gnome_vfs_uri_ref, Settle, BaseType
  <2>5. CASE v \in call[t].args
    <3>1. t \notin ExistsRefs(v)
      BY <2>1 DEF ExistsRefs
    <3>2. ExistsRefs(v)' = ExistsRefs(v) \cup {t}
      BY <2>1, <2>2, <2>5 DEF ExistsRefs
    <3>3. /\ IsFiniteSet(ExistsRefs(v)')
          /\ Cardinality(ExistsRefs(v)') = Cardinality(ExistsRefs(v)) + 1
      BY <1>v, <3>1, <3>2, FS_AddElement DEF URIInv
    <3> QED
      BY <1>v, <1>c, <2>1, <2>3, <2>4, <2>5, <3>3 DEF URIInv
  <2>6. CASE v \notin call[t].args
    <3>1. ExistsRefs(v)' = ExistsRefs(v)
      BY <2>1, <2>2, <2>6 DEF ExistsRefs
    <3> QED
      BY <1>v, <1>c, <2>1, <2>3, <2>4, <2>6, <3>1 DEF URIInv
  <2> QED
    BY <2>5, <2>6
<1>10. ASSUME NEW t \in Threads, exists_calls(t)
      PROVE  URIInv(v)'
  BY <1>10, <1>v, SameRefs, PcChanged DEF exists_calls
<1>11. ASSUME NEW t \in Threads, MethodYields(t) \/ MethodResumes(t)
      PROVE  URIInv(v)'
  BY <1>11, <1>v, SameRefs DEF MethodYields, MethodResumes
<1>12. ASSUME NEW t \in Threads,
              pygvfs_xfer_progress_callback(t) \/ CallbackReturns(t)
      PROVE  URIInv(v)'
  BY <1>12, <1>v, SameRefs, PcChanged
     DEF pygvfs_xfer_progress_callback, CallbackReturns
<1>13. ASSUME NEW t \in Threads, NEW code \in LibCodes, LibReturns(t, code)
      PROVE  URIInv(v)'
  <2>1. UNCHANGED <<names, content, born, cref>> /\ call[t].pc = "lib"
    BY <1>13 DEF LibReturns
  <2>2. /\ \A s \in Threads : /\ s # t => call'[s] = call[s]
                              /\ call'[s].shape = call[s].shape
                              /\ call'[s].args = call[s].args
        /\ call'[t].pc # "ref"
    BY <1>13, Returned DEF AfterCall
  <2> QED
    BY <1>v, <2>1, <2>2, SameRefs
<1>14. ASSUME NEW t \in Threads, ThroughMethod(t)
      PROVE  URIInv(v)'
  <2>1. UNCHANGED <<names, content, born, cref>>
    BY <1>14 DEF ThroughMethod
  <2> QED
    BY <1>14, <1>v, <2>1, Passed, SameRefs
<1>15. ASSUME NEW t \in Threads, pyg_end_allow_threads(t)
      PROVE  URIInv(v)'
  BY <1>15, <1>v, SameRefs, PcChanged DEF pyg_end_allow_threads
<1>16. ASSUME NEW t \in Threads, Finish(t)
      PROVE  URIInv(v)'
  <2>1. /\ call[t].pc = "check"
        /\ call' = [call EXCEPT ![t] = Idle]
        /\ UNCHANGED <<names, content, born>>
    BY <1>16 DEF Finish
  <2>2. Held(v)' => Held(v)
    BY <2>1, IdleRecord DEF Held, BaseType
  <2>3. cref'[v] = cref[v] - (IF t \in ExistsRefs(v) THEN 1 ELSE 0)
                           - (IF Held(v) /\ ~Held(v)' THEN 1 ELSE 0)
    BY <1>16, <2>1 DEF Finish, Settle, ExistsRefs, BaseType
  <2>4. ExistsRefs(v)' = ExistsRefs(v) \ {t}
    BY <2>1, IdleRecord DEF ExistsRefs, BaseType
  <2>5. CASE t \in ExistsRefs(v)
    <3>1. /\ IsFiniteSet(ExistsRefs(v)')
          /\ Cardinality(ExistsRefs(v)') = Cardinality(ExistsRefs(v)) - 1
      BY <1>v, <2>4, <2>5, FS_RemoveElement DEF URIInv
    <3> QED
      BY <1>v, <1>c, <2>1, <2>2, <2>3, <2>5, <3>1 DEF URIInv
  <2>6. CASE t \notin ExistsRefs(v)
    <3>1. ExistsRefs(v)' = ExistsRefs(v)
      BY <2>4, <2>6
    <3> QED
      BY <1>v, <1>c, <2>1, <2>2, <2>3, <2>6, <3>1 DEF URIInv
  <2> QED
    BY <2>5, <2>6
<1>18. ASSUME NEW t \in Threads, PyString_AsString(t)
       PROVE  URIInv(v)'
  <2>1. PICK pc \in {"reffed", "lib", "back"} :
           /\ call[t].pc = "text"
           /\ call' = [call EXCEPT ![t].pc = pc]
           /\ UNCHANGED <<gil, names, content, born, cref, glists, lost, ops>>
    BY <1>18, TextRead
  <2> QED
    BY <1>v, <2>1, PcChanged, SameRefs
<1>17. CASE UNCHANGED vars
  BY <1>17, <1>v, SameRefs DEF vars, callVars
<1> QED
  BY <1>1, <1>2, <1>3, <1>4, <1>5, <1>6, <1>7, <1>8, <1>9, <1>10, <1>11,
     <1>12, <1>13, <1>14, <1>15, <1>16, <1>17, <1>18, NextSteps
  DEF StepOf

\* At every moment a GnomeVFSURI has exactly the references it should: that
\* of its URI object while something holds the object, and one for every
\* exists in progress.
THEOREM RefsInvariant == Spec => []RefsInv
<1>1. Init => RefsInv
  <2>1. SUFFICES ASSUME Init
                 PROVE  RefsInv
    OBVIOUS
  <2>2. \A t \in Threads : call[t] = Idle
    BY <2>1 DEF Init
  <2>3. \A t \in Threads : CallInv(t)
    BY <2>2, IdleRecord DEF CallInv
  <2>4. ASSUME NEW u \in URIs
        PROVE  URIInv(u)
    <3>1. ExistsRefs(u) = {}
      BY <2>2, IdleRecord DEF ExistsRefs
    <3>2. Held(u) <=> u \in born
      BY <2>1, <2>2, IdleRecord DEF Held, Init
    <3>3. cref[u] = IF u \in born THEN 1 ELSE 0
      BY <2>1 DEF Init
    <3> QED
      BY <3>1, <3>2, <3>3, FS_EmptySet DEF URIInv
  <2> QED
    BY <2>3, <2>4 DEF RefsInv
<1>2. BaseType /\ RefsInv /\ [Next]_vars => RefsInv'
  BY CallStep, URIStep DEF RefsInv
<1> QED
  BY <1>1, <1>2, BaseCorrect, PTL DEF Spec

\* A GnomeVFSURI that GnomeVFS works on is alive, unless it was borrowed from
\* a list that lost it.
THEOREM LentAliveHolds == Spec => []LentAlive
<1>1. ASSUME BaseType, RefsInv, NEW t \in Threads, NEW u \in call[t].lent
      PROVE  \/ cref[u] > 0
             \/ /\ call[t].lists # {}
                /\ \A l \in call[t].lists : u \notin content[l]
  <2>1. /\ u \in URIs /\ call[t].lists \in SUBSET Lists
        /\ call[t].args \in SUBSET URIs
    BY <1>1 DEF BaseType, CallRecord
  <2>2. URIInv(u) /\ CallInv(t)
    BY <1>1, <2>1 DEF RefsInv
  <2>3. Held(u) => cref[u] > 0
    <3>1. Cardinality(ExistsRefs(u)) \in Nat
      BY <2>2, FS_CardinalityType DEF URIInv
    <3> QED
      BY <2>2, <3>1 DEF URIInv
  <2> QED
    BY <2>1, <2>2, <2>3 DEF CallInv, Held
<1>2. BaseType /\ RefsInv => LentAlive
  BY <1>1 DEF LentAlive
<1> QED
  BY <1>2, BaseCorrect, RefsInvariant, PTL

\* No thread looks at a result, with calls of the Python API, without the
\* GIL, except in resolve; and a string that is read without the GIL is
\* alive, whatever the other threads do meanwhile.
THEOREM PythonOnlyWithGilHolds == Spec => []PythonOnlyWithGil
<1>1. ASSUME BaseType, RefsInv, NEW t \in Threads, NEW u \in call[t].args
      PROVE  cref[u] > 0
  <2>1. u \in URIs
    BY <1>1 DEF BaseType, CallRecord
  <2>2. URIInv(u) /\ Held(u)
    BY <1>1, <2>1 DEF RefsInv, Held
  <2>3. Cardinality(ExistsRefs(u)) \in Nat
    BY <2>2, FS_CardinalityType DEF URIInv
  <2> QED
    BY <2>2, <2>3 DEF URIInv
<1>2. BaseType /\ RefsInv /\ ChecksWithGil => PythonOnlyWithGil
  BY <1>1 DEF ChecksWithGil, PythonOnlyWithGil
<1> QED
  BY <1>2, BaseCorrect, RefsInvariant, ChecksWithGilHolds, PTL

-----------------------------------------------------------------------------
(***************************************************************************)
(* The GLists.                                                             *)
(***************************************************************************)

\* T are the slots S of other threads and n slots of t.
Adds(S, T, t, n) ==
    /\ \A p \in S : p[1] # t
    /\ \A p : p \in T <=> p \in S \/ (p \in {t} \X (1 .. 2) /\ p[2] <= n)

\* A call that gets n GLists adds n slots to those of the other calls.
LEMMA SlotsAdded ==
    ASSUME NEW S, IsFiniteSet(S), NEW T, NEW t, NEW n \in 0 .. 2,
           Adds(S, T, t, n)
    PROVE  IsFiniteSet(T) /\ Cardinality(T) = Cardinality(S) + n
<1> USE DEF Adds
<1>1. /\ <<t, 1>> \notin S /\ <<t, 2>> \notin S /\ <<t, 1>> # <<t, 2>>
      /\ \A p \in {t} \X (1 .. 2) : p = <<t, 1>> \/ p = <<t, 2>>
      /\ <<t, 1>> \in {t} \X (1 .. 2) /\ <<t, 2>> \in {t} \X (1 .. 2)
      /\ <<t, 1>>[2] = 1 /\ <<t, 2>>[2] = 2
  OBVIOUS
<1>2. Cardinality(S) \in Nat
  BY FS_CardinalityType
<1>3. CASE n = 0
  <2>1. T = S
    BY <1>1, <1>3
  <2>2. IsFiniteSet(T) /\ Cardinality(T) = Cardinality(S)
    BY <2>1, Zenon
  <2> QED
    BY <1>2, <1>3, <2>2
<1>4. CASE n = 1
  <2>1. T = S \cup {<<t, 1>>}
    BY <1>1, <1>4
  <2> QED
    BY <1>1, <1>4, <2>1, FS_AddElement
<1>5. CASE n = 2
  <2>1. PICK U : U = S \cup {<<t, 1>>}
    OBVIOUS
  <2>2. IsFiniteSet(U) /\ Cardinality(U) = Cardinality(S) + 1
    BY <1>1, <2>1, FS_AddElement
  <2>3. <<t, 2>> \notin U /\ T = U \cup {<<t, 2>>}
    BY <1>1, <1>5, <2>1
  <2>4. IsFiniteSet(T) /\ Cardinality(T) = Cardinality(U) + 1
    BY <2>2, <2>3, FS_AddElement
  <2> QED
    BY <1>2, <1>5, <2>2, <2>4
<1> QED
  BY <1>3, <1>4, <1>5

\* A step keeps the count of the GLists: a call frees what it allocated.
LEMMA ListsStep ==
    ASSUME BaseType, RefsInv, ListsInv, [Next]_vars
    PROVE  ListsInv'
<1>0. ASSUME \A t \in Threads : call'[t].glists = call[t].glists,
             UNCHANGED <<glists, lost>>
      PROVE  ListsInv'
  <2>1. Slots' = Slots
    BY <1>0 DEF Slots
  <2> QED
    BY <1>0, <2>1 DEF ListsInv
<1>n. Cardinality(Slots) \in Nat
  BY FS_CardinalityType DEF ListsInv
<1>1. ASSUME NEW t \in Threads, NEW u \in URIs, pygnome_vfs_uri_new(t, u)
      PROVE  ListsInv'
  BY <1>0, <1>1 DEF pygnome_vfs_uri_new
<1>2. ASSUME NEW t \in Threads, NEW u \in URIs, Forget(t, u)
      PROVE  ListsInv'
  BY <1>0, <1>2 DEF Forget
<1>3. ASSUME NEW t \in Threads, NEW u \in URIs, NEW l \in Lists,
             Store(t, u, l)
      PROVE  ListsInv'
  BY <1>0, <1>3 DEF Store
<1>4. ASSUME NEW t \in Threads, NEW u \in URIs, NEW l \in Lists,
             Fetch(t, u, l)
      PROVE  ListsInv'
  BY <1>0, <1>4 DEF Fetch
<1>5. ASSUME NEW t \in Threads, NEW u \in URIs, NEW l \in Lists,
             Remove(t, u, l)
      PROVE  ListsInv'
  BY <1>0, <1>5 DEF Remove
<1>6. ASSUME NEW t \in Threads, AssignInfo(t)
      PROVE  ListsInv'
  BY <1>0, <1>6 DEF AssignInfo
<1>7. ASSUME NEW t \in Threads, NEW c, Opening(t, c), Begin(t, c)
      PROVE  ListsInv'
  <2>1. /\ call[t].pc = "idle" /\ call' = [call EXCEPT ![t] = c]
        /\ glists' = glists + c.glists /\ lost' = lost
    BY <1>7 DEF Begin
  <2>2. call[t].glists = 0
    BY <2>1, IdleRecord DEF RefsInv, CallInv
  <2>3. c.glists \in 0 .. 2 /\ call'[t] = c
    BY <1>7, <2>1 DEF Opening, CallRecord, BaseType
  <2>4. \A p \in Slots : p[1] # t
    BY <2>2 DEF Slots
  <2>5. \A p : p \in Slots' <=> \/ p \in Slots
                                \/ p \in {t} \X (1 .. 2) /\ p[2] <= c.glists
    <3>1. ASSUME NEW p \in Threads \X (1 .. 2), p[1] # t
          PROVE  p \in Slots' <=> p \in Slots
      BY <2>1, <3>1 DEF Slots, BaseType
    <3>2. ASSUME NEW p \in Threads \X (1 .. 2), p[1] = t
          PROVE  p \in Slots' <=> p[2] <= c.glists
      BY <2>3, <3>2 DEF Slots
    <3>3. \A p \in Threads \X (1 .. 2) :
              p[1] = t <=> p \in {t} \X (1 .. 2)
      OBVIOUS
    <3>4. /\ \A p \in {t} \X (1 .. 2) : p \in Threads \X (1 .. 2)
          /\ \A p \in Slots : p \in Threads \X (1 .. 2)
          /\ \A p \in Slots' : p \in Threads \X (1 .. 2)
      BY DEF Slots
    <3>5. SUFFICES ASSUME NEW p
                   PROVE  p \in Slots' <=>
                             \/ p \in Slots
                             \/ p \in {t} \X (1 .. 2) /\ p[2] <= c.glists
      OBVIOUS
    <3>6. CASE p \in Threads \X (1 .. 2) /\ p[1] = t
      BY <2>4, <3>2, <3>3, <3>6
    <3>7. CASE p \in Threads \X (1 .. 2) /\ p[1] # t
      BY <3>1, <3>3, <3>7
    <3>8. CASE p \notin Threads \X (1 .. 2)
      BY <3>4, <3>8
    <3> QED
      BY <3>6, <3>7, <3>8
  <2>6. /\ IsFiniteSet(Slots')
        /\ Cardinality(Slots') = Cardinality(Slots) + c.glists
    <3>1. IsFiniteSet(Slots)
      BY DEF ListsInv
    <3>2. Adds(Slots, Slots', t, c.glists)
      BY <2>4, <2>5, Zenon DEF Adds
    <3> QED
      BY <2>3, <3>1, <3>2, SlotsAdded
  <2> QED
    BY <1>n, <2>1, <2>3, <2>6 DEF ListsInv, BaseType
<1>8. ASSUME NEW t \in Threads, NEW n \in 1 .. 2,
             NEW why \in {"source", "target", "query", "callable"},
             xfer_list_fails(t, n, why)
      PROVE  ListsInv'
  <2>1. /\ Slots' = Slots
        /\ glists' = glists + Built(n, why) - Freed(n, why)
        /\ lost' = lost + (IF why = "query" THEN n ELSE 0)
        /\ why = "target" => n = 2
    BY <1>8 DEF xfer_list_fails, Slots
  <2>2. Built(n, why) - Freed(n, why) = IF why = "query" THEN n ELSE 0
    BY DEF Built, Freed
  <2>3. Built(n, why) \in Nat /\ Freed(n, why) \in Nat
    BY DEF Built, Freed
  <2> QED
    BY <1>n, <2>1, <2>2, <2>3 DEF ListsInv, BaseType
<1>9. ASSUME NEW t \in Threads, gnome_vfs_uri_ref(t)
      PROVE  ListsInv'
  BY <1>0, <1>9, PcChanged DEF gnome_vfs_uri_ref
<1>10. ASSUME NEW t \in Threads, exists_calls(t)
      PROVE  ListsInv'
  BY <1>0, <1>10, PcChanged DEF exists_calls
<1>11. ASSUME NEW t \in Threads, MethodYields(t) \/ MethodResumes(t)
      PROVE  ListsInv'
  BY <1>0, <1>11 DEF MethodYields, MethodResumes
<1>12. ASSUME NEW t \in Threads,
              pygvfs_xfer_progress_callback(t) \/ CallbackReturns(t)
      PROVE  ListsInv'
  BY <1>0, <1>12, PcChanged
     DEF pygvfs_xfer_progress_callback, CallbackReturns
<1>13. ASSUME NEW t \in Threads, NEW code \in LibCodes, LibReturns(t, code)
      PROVE  ListsInv'
  <2>1. UNCHANGED <<glists, lost>>
    BY <1>13 DEF LibReturns
  <2> QED
    BY <1>0, <1>13, <2>1, Returned
<1>14. ASSUME NEW t \in Threads, ThroughMethod(t)
      PROVE  ListsInv'
  <2>1. UNCHANGED <<glists, lost>>
    BY <1>14 DEF ThroughMethod
  <2> QED
    BY <1>0, <1>14, <2>1, Passed
<1>15. ASSUME NEW t \in Threads, pyg_end_allow_threads(t)
      PROVE  ListsInv'
  BY <1>0, <1>15, PcChanged DEF pyg_end_allow_threads
<1>16. ASSUME NEW t \in Threads, Finish(t)
      PROVE  ListsInv'
  <2>1. /\ call' = [call EXCEPT ![t] = Idle]
        /\ glists' = glists - call[t].glists /\ lost' = lost
    BY <1>16 DEF Finish
  <2>2. call[t].glists \in 0 .. 2 /\ call'[t] = Idle
    BY <2>1 DEF CallRecord, BaseType
  <2>3. \A p : p \in Slots <=>
                 \/ p \in Slots'
                 \/ p \in {t} \X (1 .. 2) /\ p[2] <= call[t].glists
    BY <2>1, <2>2, IdleRecord DEF Slots, BaseType
  <2>4. Slots' \subseteq Slots
    BY <2>3
  <2>5. IsFiniteSet(Slots')
    BY <2>4, FS_Subset DEF ListsInv
  <2>6. \A p \in Slots' : p[1] # t
    BY <2>2, IdleRecord DEF Slots
  <2>7. Cardinality(Slots) = Cardinality(Slots') + call[t].glists
    <3>1. Adds(Slots', Slots, t, call[t].glists)
      BY <2>3, <2>6, Zenon DEF Adds
    <3> QED
      BY <2>2, <2>5, <3>1, SlotsAdded
  <2>8. Cardinality(Slots') \in Nat
    BY <2>5, FS_CardinalityType
  <2> QED
    BY <1>n, <2>1, <2>2, <2>5, <2>7, <2>8 DEF ListsInv, BaseType
<1>18. ASSUME NEW t \in Threads, PyString_AsString(t)
       PROVE  ListsInv'
  <2>1. PICK pc \in {"reffed", "lib", "back"} :
           /\ call[t].pc = "text"
           /\ call' = [call EXCEPT ![t].pc = pc]
           /\ UNCHANGED <<gil, names, content, born, cref, glists, lost, ops>>
    BY <1>18, TextRead
  <2> QED
    BY <1>0, <2>1, PcChanged
<1>17. CASE UNCHANGED vars
  BY <1>0, <1>17 DEF vars, callVars
<1> QED
  BY <1>1, <1>2, <1>3, <1>4, <1>5, <1>6, <1>7, <1>8, <1>9, <1>10, <1>11,
     <1>12, <1>13, <1>14, <1>15, <1>16, <1>17, <1>18, NextSteps
  DEF StepOf

\* Finitely many GLists are allocated, each of them lost by a refused call
\* or owned by a call that will free it.
LEMMA ListsInvariant == Spec => []ListsInv
<1>1. Init => ListsInv
  <2>1. SUFFICES ASSUME Init
                 PROVE  ListsInv
    OBVIOUS
  <2>2. \A t \in Threads : call[t].glists = 0
    BY <2>1, IdleRecord DEF Init
  <2>3. Slots = {}
    BY <2>2 DEF Slots
  <2> QED
    BY <2>1, <2>3, FS_EmptySet DEF Init, ListsInv
<1> QED
  BY <1>1, ListsStep, BaseCorrect, RefsInvariant, PTL DEF Spec

\* The functions that build GLists free them on every way out but the one
\* that refuses the QUERY error mode.
THEOREM ListsFreedHolds == Spec => []ListsFreed
<1>1. ListsInv => ListsFreed
  BY DEF ListsInv, Slots, ListsFreed
<1> QED
  BY <1>1, ListsInvariant, PTL

\* Type correctness, with counters that never fall below 0: no reference and
\* no GList is given back twice.
THEOREM TypeCorrect == Spec => []TypeOK
<1>1. ASSUME BaseType, RefsInv, ListsInv, InfoTypeOK
      PROVE  TypeOK
  <2>1. ASSUME NEW u \in URIs
        PROVE  cref[u] \in Nat
    <3>1. Cardinality(ExistsRefs(u)) \in Nat
      BY <1>1, FS_CardinalityType DEF RefsInv, URIInv
    <3> QED
      BY <1>1, <3>1 DEF RefsInv, URIInv
  <2>2. cref \in [URIs -> Nat]
    BY <1>1, <2>1 DEF BaseType
  <2>3. Cardinality(Slots) \in Nat
    BY <1>1, FS_CardinalityType DEF ListsInv
  <2>4. glists \in Nat
    BY <1>1, <2>3 DEF ListsInv, BaseType
  <2> QED
    BY <1>1, <2>2, <2>4 DEF BaseType, TypeOK
<1> QED
  BY <1>1, BaseCorrect, RefsInvariant, ListsInvariant, ImplementsFileInfo,
     InfoTypeCorrect, PTL

=============================================================================
