------------------------- MODULE AsyncHandleProofs -------------------------
(***************************************************************************)
(* Proofs about AsyncHandle, for every set of wrappers, every finite set   *)
(* of operations and every nesting depth.                                  *)
(***************************************************************************)
EXTENDS AsyncHandle, FiniteSetTheorems, TLAPS

\* Every variable keeps its type (all of vfs-async-handle.c's handle code).
LEMMA TypeStep == TypeOK /\ [Next]_vars => TypeOK'
<1> USE AsyncConstants
<1> SUFFICES ASSUME TypeOK, [Next]_vars PROVE TypeOK'
  OBVIOUS
<1> USE DEF TypeOK
<1>1. ASSUME NEW h \in Handles, NEW o \in Ops, NEW k \in Starters, Start(h, o, k)
      PROVE  TypeOK'
  BY <1>1 DEF Start, async_notify_new, LibSubmit, SelfRef, Allocated, LibStates,
              Starters, Origins
<1>2. ASSUME NEW h \in Handles, NEW o \in Ops, NEW k \in Methods, Method(h, o, k),
             fd' \in [Handles -> BOOLEAN],
             buffer' \in [Ops -> {"none", "lent", "released"}]
      PROVE  TypeOK'
  <2>1. UNCHANGED <<object, held, stack, frees, result, pages, cancelled>>
    BY <1>2 DEF Method, async_notify_new, LibSubmit
  <2>2. rc' \in [Handles -> Int]
    BY <1>2 DEF Method, SelfRef
  <2>3. /\ self' \in [Ops -> Handles \cup {NULL}]
        /\ origin' \in [Ops -> Origins \cup {NULL}]
        /\ \A x \in Ops : origin'[x] # NULL => self'[x] \in Handles
        /\ lib' \in [Ops -> LibStates]
    BY <1>2 DEF Method, async_notify_new, LibSubmit, LibStates, Methods, Origins
  <2>4. QED
    BY <1>2, <2>1, <2>2, <2>3
<1>3. ASSUME NEW h \in Handles, NEW o \in Ops,
             \/ pygvhandle_close(h, o)
             \/ pygvhandle_read(h, o)
             \/ pygvhandle_write(h, o)
      PROVE  TypeOK'
  <2>1. CASE pygvhandle_close(h, o)
    BY <1>2, <2>1 DEF pygvhandle_close, Methods
  <2>2. CASE pygvhandle_read(h, o)
    BY <1>2, <2>2 DEF pygvhandle_read, Methods
  <2>3. CASE pygvhandle_write(h, o)
    BY <1>2, <2>3 DEF pygvhandle_write, Methods
  <2>4. QED
    BY <1>3, <2>1, <2>2, <2>3
<1>4. ASSUME NEW h \in Handles,
             NewHandle(h) \/ pygvhandle_cancel(h) \/ Drop(h) \/ Keep(h)
      PROVE  TypeOK'
  <2>1. CASE NewHandle(h)
    BY <2>1 DEF NewHandle, notifyVars, libVars
  <2>2. CASE pygvhandle_cancel(h)
    BY <2>2 DEF pygvhandle_cancel, notifyVars
  <2>3. CASE Drop(h)
    BY <2>3 DEF Drop, DecRef, notifyVars, libVars
  <2>4. CASE Keep(h)
    BY <2>4 DEF Keep, notifyVars, libVars
  <2>5. QED
    BY <1>4, <2>1, <2>2, <2>3, <2>4
<1>5. ASSUME NEW o \in Ops, Lib(o) PROVE TypeOK'
  <2>1. CASE LibPage(o)
    BY <2>1 DEF LibPage, objVars, notifyVars
  <2>2. CASE LibFinish(o)
    BY <2>2 DEF LibFinish, objVars, notifyVars, LibStates
  <2>3. CASE LibDrop(o)
    BY <2>3 DEF LibDrop, objVars, notifyVars, LibStates
  <2>4. QED
    BY <1>5, <2>1, <2>2, <2>3 DEF Lib
<1>6. ASSUME NEW o \in Ops, NEW e \in BOOLEAN, NEW c \in BOOLEAN,
             origin[o] \in Origins, Enter(o, e, c),
             lib' \in [Ops -> LibStates], pages' \in [Ops -> 0..MaxPages],
             UNCHANGED <<result, cancelled>>
      PROVE  TypeOK'
  <2>1. self[o] \in Handles
    BY <1>6
  <2>2. stack' \in Seq(Frame)
    BY <1>6, <2>1 DEF Enter, Frame
  <2>3. rc' \in [Handles -> Int]
    BY <1>6, <2>1 DEF Enter
  <2>4. fd' \in [Handles -> BOOLEAN]
    BY <1>6, <2>1 DEF Enter
  <2>5. UNCHANGED <<object, held, notifyVars>>
    BY <1>6 DEF Enter
  <2>6. QED
    BY <1>6, <2>2, <2>3, <2>4, <2>5 DEF notifyVars
<1>7. ASSUME NEW o \in Ops, Dispatch(o) PROVE TypeOK'
  <2>1. FinalCallback(o) => /\ lib' \in [Ops -> LibStates]
                            /\ pages' \in [Ops -> 0..MaxPages]
                            /\ UNCHANGED <<result, cancelled>>
    BY DEF FinalCallback, LibStates
  <2>2. CallbackClearsFd(origin[o], result[o]) \in BOOLEAN
    BY DEF CallbackClearsFd
  <2>3. CASE callback_marshal(o)
    BY <1>6, <2>1, <2>2, <2>3 DEF callback_marshal, Origins, Starters, Methods
  <2>4. CASE read_write_marshal(o)
    BY <1>6, <2>1, <2>4 DEF read_write_marshal, Origins, Starters, Methods
  <2>5. CASE get_info_marshal(o)
    BY <1>6, <2>1, <2>5 DEF get_info_marshal, Origins, Starters, Methods
  <2>6. CASE load_dir_page(o)
    <3>1. pages' \in [Ops -> 0..MaxPages]
      BY <2>6 DEF load_dir_page
    <3>2. QED
      BY <1>6, <3>1, <2>6 DEF load_dir_page, Origins, Starters, Methods
  <2>7. CASE load_dir_end(o)
    BY <1>6, <2>1, <2>7 DEF load_dir_end, Origins, Starters, Methods
  <2>8. QED
    BY <1>7, <2>3, <2>4, <2>5, <2>6, <2>7 DEF Dispatch
<1>8. CASE Return
  <2>1. Top \in Frame
    BY <1>8 DEF Return, Top
  <2>2. stack' \in Seq(Frame)
    BY <1>8 DEF Return
  <2>3. /\ frees' \in [Ops -> Nat]
        /\ buffer' \in [Ops -> {"none", "lent", "released"}]
    <3>1. Top.op \in Ops
      BY <2>1 DEF Frame
    <3>2. frees' \in [Ops -> Nat]
      BY <1>8, <3>1 DEF Return
    <3>3. buffer' \in [Ops -> {"none", "lent", "released"}]
      BY <1>8, <3>1 DEF Return
    <3>4. QED
      BY <3>2, <3>3
  <2>4. /\ rc' \in [Handles -> Int]
        /\ object' \in [Handles -> {"unborn", "alive", "freed"}]
    <3>1. PICK n \in Int : DecRef(Top.self, n)
      BY <1>8 DEF Return, SelfRef
    <3>2. Top.self \in Handles
      BY <2>1 DEF Frame
    <3>3. QED
      BY <3>1, <3>2 DEF DecRef
  <2>5. QED
    BY <1>8, <2>2, <2>3, <2>4 DEF Return, libVars
<1>9. CASE UNCHANGED vars
  BY <1>9 DEF vars, objVars, notifyVars, libVars
<1>10. QED
  BY <1>1, <1>3, <1>4, <1>5, <1>7, <1>8, <1>9
     DEF Next, Python, Starters, pygvfs_async_open, pygvfs_async_create,
         pygvfs_async_create_symbolic_link, pygvfs_async_get_file_info,
         pygvfs_async_load_directory

\* Every variable keeps its type, whatever the program, the job threads and
\* the main loop do.
THEOREM TypeCorrect == Spec => []TypeOK
<1>1. Init => TypeOK
  BY AsyncConstants DEF Init, TypeOK, LibStates
<1>2. QED
  BY <1>1, TypeStep, PTL DEF Spec

-----------------------------------------------------------------------------
(***************************************************************************)
(* The life of a notify record.                                            *)
(***************************************************************************)

\* The marshallers in progress work on operations and wrappers.
LEMMA FrameTypes ==
  ASSUME TypeOK
  PROVE  /\ Frames = 1..Len(stack)
         /\ Len(stack) \in Nat
         /\ \A i \in Frames : /\ stack[i] \in Frame
                              /\ stack[i].op \in Ops
                              /\ stack[i].self \in Handles
                              /\ stack[i].error \in BOOLEAN
<1>1. /\ Frames = 1..Len(stack)
      /\ Len(stack) \in Nat
      /\ \A i \in Frames : stack[i] \in Frame
  BY DEF TypeOK, Frames
<1>2. \A f \in Frame : f.op \in Ops /\ f.self \in Handles /\ f.error \in BOOLEAN
  BY DEF Frame
<1>3. QED
  BY <1>1, <1>2

\* async_notify_new and the hand-over to GnomeVFS keep LifeInv: the record is
\* new, so no marshaller in progress has it.
LEMMA SubmitLife ==
  ASSUME TypeOK, LifeInv, NEW h \in Handles, NEW o \in Ops, NEW k \in Origins,
         async_notify_new(h, o, k), LibSubmit(o), UNCHANGED stack
  PROVE  LifeInv'
<1> USE AsyncConstants DEF TypeOK, async_notify_new, LibSubmit, Allocated
<1>1. ASSUME NEW i \in Frames
      PROVE  /\ i \in Frames'
             /\ stack[i].op # o
             /\ stack[i].op \in Ops
             /\ FreesNotify(stack[i])' <=> FreesNotify(stack[i])
  <2>1. stack[i].op \in Ops
    BY FrameTypes
  <2>2. stack[i].op # o
    BY DEF LifeInv, FrameLife
  <2>3. origin'[stack[i].op] = origin[stack[i].op]
    BY <2>1, <2>2
  <2>4. QED
    BY <2>1, <2>2, <2>3 DEF Frames, FreesNotify
<1>2. ASSUME NEW x \in Ops PROVE RecordLife(x)'
  <2>0. RecordLife(x)
    BY DEF LifeInv
  <2>1. CASE x = o
    <3>1. origin'[x] = k /\ lib'[x] = "running" /\ frees'[x] = frees[x]
      BY <2>1
    <3>2. origin[x] = NULL
      BY <2>1
    <3>3. QED
      BY <2>0, <3>1, <3>2 DEF RecordLife
  <2>2. CASE x # o
    <3>1. /\ origin'[x] = origin[x]
          /\ lib'[x] = lib[x]
          /\ self'[x] = self[x]
          /\ UNCHANGED <<frees, pages, result, cancelled>>
      BY <2>2
    <3>2. (\E i \in Frames : stack[i].op = x /\ FreesNotify(stack[i]))
          => (\E i \in Frames : stack[i].op = x /\ FreesNotify(stack[i]))'
      BY <1>1
    <3>3. QED
      BY <2>0, <3>1, <3>2 DEF RecordLife
  <2>3. QED
    BY <2>1, <2>2
<1>3. ASSUME NEW i \in Frames PROVE FrameLife(i)'
  <2>1. FrameLife(i)
    BY DEF LifeInv
  <2>2. /\ origin'[stack[i].op] = origin[stack[i].op]
        /\ lib'[stack[i].op] = lib[stack[i].op]
    BY <1>1
  <2>3. Frames' = Frames /\ stack' = stack /\ frees' = frees
    BY DEF Frames
  <2>4. QED
    BY <1>1, <2>1, <2>2, <2>3 DEF FrameLife
<1>4. QED
  BY <1>2, <1>3 DEF LifeInv, Frames

\* A step of the Python program that starts no operation keeps LifeInv.
LEMMA ProgramLife ==
  ASSUME TypeOK, LifeInv, UNCHANGED <<self, origin, frees, stack, lib, result, pages>>,
         \A h \in Handles : cancelled[h] => cancelled'[h]
  PROVE  LifeInv'
<1>1. ASSUME NEW x \in Ops PROVE RecordLife(x)'
  <2>1. lib[x] = "dropped" => self[x] \in Handles
    BY AsyncConstants DEF TypeOK, LifeInv, RecordLife
  <2>2. QED
    BY <2>1 DEF LifeInv, RecordLife, Frames, FreesNotify
<1>2. ASSUME NEW i \in Frames PROVE FrameLife(i)'
  BY DEF LifeInv, FrameLife, Frames, FreesNotify
<1>3. QED
  BY <1>1, <1>2 DEF LifeInv, Frames

\* The job threads keep LifeInv: they never touch a record that was freed.
LEMMA LibLife ==
  ASSUME TypeOK, LifeInv, NEW o \in Ops, Lib(o)
  PROVE  LifeInv'
<1> USE DEF TypeOK, notifyVars
<1>1. /\ UNCHANGED <<self, origin, frees, stack, cancelled>>
      /\ \A x \in Ops : x # o => lib'[x] = lib[x] /\ result'[x] = result[x]
                                 /\ pages'[x] = pages[x]
      /\ lib[o] \in {"running", "ready"}
      /\ lib'[o] \in {"running", "ready", "dropped"}
  BY DEF Lib, LibPage, LibFinish, LibDrop
<1>2. /\ lib'[o] = "ready" /\ origin[o] = "LOAD_DIRECTORY" => result'[o]
      /\ lib'[o] = "dropped" => cancelled[self[o]] /\ pages'[o] = 0
  BY DEF Lib, LibPage, LibFinish, LibDrop
<1>3. pages' \in [Ops -> 0..MaxPages]
  BY AsyncConstants DEF Lib, LibPage, LibFinish, LibDrop
<1>4. ASSUME NEW x \in Ops PROVE RecordLife(x)'
  BY <1>1, <1>2, <1>3, AsyncConstants DEF LifeInv, RecordLife, Frames, FreesNotify
<1>5. ASSUME NEW i \in Frames PROVE FrameLife(i)'
  <2>1. stack[i].op \in Ops
    BY FrameTypes
  <2>2. QED
    BY <1>1, <2>1 DEF LifeInv, FrameLife, Frames, FreesNotify
<1>6. QED
  BY <1>1, <1>4, <1>5 DEF LifeInv, Frames

\* Entering a marshaller pushes one frame and leaves the others.
LEMMA EnterFrames ==
  ASSUME TypeOK, NEW o \in Ops, NEW e \in BOOLEAN, NEW c \in BOOLEAN,
         self[o] \in Handles, Enter(o, e, c)
  PROVE  /\ Frames' = Frames \cup {Len(stack) + 1}
         /\ Len(stack) + 1 \notin Frames
         /\ stack'[Len(stack) + 1] = [op |-> o, self |-> self[o], error |-> e]
         /\ \A i \in Frames : stack'[i] = stack[i]
<1> DEFINE f == [op |-> o, self |-> self[o], error |-> e]
<1>1. f \in Frame
  BY DEF Frame
<1>2. stack \in Seq(Frame) /\ stack' = Append(stack, f)
  BY DEF TypeOK, Enter
<1> HIDE DEF f
<1>3. /\ Frames' = Frames \cup {Len(stack) + 1}
      /\ Len(stack) + 1 \notin Frames
      /\ stack'[Len(stack) + 1] = f
      /\ \A i \in Frames : stack'[i] = stack[i]
  BY <1>1, <1>2 DEF Frames
<1>4. QED
  BY <1>3 DEF f

\* The final callback: the record passes from GnomeVFS to the marshaller.
LEMMA FinalLife ==
  ASSUME TypeOK, LifeInv, NEW o \in Ops, NEW e \in BOOLEAN, NEW c \in BOOLEAN,
         FinalCallback(o), Enter(o, e, c),
         origin[o] = "LOAD_DIRECTORY" => e
  PROVE  LifeInv'
<1> USE DEF TypeOK
<1>0. PICK n \in Nat : n = Len(stack) + 1
  OBVIOUS
<1>1. /\ lib[o] = "ready" /\ frees[o] = 0 /\ pages[o] = 0
      /\ UNCHANGED <<self, origin, frees, pages, result, cancelled>>
      /\ lib' = [lib EXCEPT ![o] = "done"]
  BY DEF FinalCallback, Enter, notifyVars, LifeInv, RecordLife
<1>2. origin[o] # NULL /\ self[o] \in Handles
  BY <1>1 DEF LifeInv, RecordLife
<1>3. /\ Frames' = Frames \cup {n}
      /\ n \notin Frames
      /\ stack'[n].op = o
      /\ stack'[n].error = e
      /\ \A i \in Frames : stack'[i] = stack[i]
  <2>1. stack'[n] = [op |-> o, self |-> self[o], error |-> e]
    BY <1>0, <1>2, EnterFrames
  <2>2. stack'[n].op = o /\ stack'[n].error = e
    BY <2>1
  <2>3. QED
    BY <1>0, <1>2, <2>2, EnterFrames
<1>4. FreesNotify(stack[n])'
  BY <1>1, <1>3 DEF FreesNotify
<1>5. ASSUME NEW i \in Frames
      PROVE  /\ FreesNotify(stack[i])' <=> FreesNotify(stack[i])
             /\ FreesNotify(stack[i]) => stack[i].op # o
             /\ stack[i].op \in Ops
  <2>1. FreesNotify(stack[i])' <=> FreesNotify(stack[i])
    BY <1>1, <1>3 DEF FreesNotify
  <2>2. FreesNotify(stack[i]) => stack[i].op # o
    BY <1>1 DEF LifeInv, FrameLife
  <2>3. QED
    BY <2>1, <2>2, FrameTypes
<1>6. ASSUME NEW x \in Ops PROVE RecordLife(x)'
  <2>1. CASE x = o
    BY <1>1, <1>2, <1>3, <1>4, <2>1 DEF RecordLife
  <2>2. CASE x # o
    <3>1. RecordLife(x)
      BY DEF LifeInv
    <3>2. lib'[x] = lib[x]
      BY <1>1, <2>2
    <3>3. (\E i \in Frames : stack[i].op = x /\ FreesNotify(stack[i]))
          => (\E i \in Frames : stack[i].op = x /\ FreesNotify(stack[i]))'
      BY <1>3, <1>5
    <3>4. QED
      BY <1>1, <3>1, <3>2, <3>3 DEF RecordLife
  <2>3. QED
    BY <2>1, <2>2
<1>7. ASSUME NEW i \in Frames' PROVE FrameLife(i)'
  <2>1. CASE i = n
    BY <1>1, <1>2, <1>3, <1>4, <1>5, <2>1 DEF FrameLife
  <2>2. CASE i \in Frames
    BY <1>1, <1>3, <1>4, <1>5, <2>2 DEF FrameLife, LifeInv
  <2>3. QED
    BY <1>3, <2>1, <2>2
<1>8. QED
  BY <1>6, <1>7 DEF LifeInv

\* A page of a directory: the marshaller borrows the record.
LEMMA PageLife ==
  ASSUME TypeOK, LifeInv, NEW o \in Ops, load_dir_page(o)
  PROVE  LifeInv'
<1> USE DEF TypeOK
<1>0. PICK n \in Nat : n = Len(stack) + 1
  OBVIOUS
<1>1. /\ lib[o] \in {"running", "ready"}
      /\ origin[o] = "LOAD_DIRECTORY"
      /\ UNCHANGED <<self, origin, frees, lib, result, cancelled>>
      /\ pages' = [pages EXCEPT ![o] = @ - 1]
      /\ Enter(o, FALSE, FALSE)
      /\ pages[o] > 0
  BY DEF load_dir_page, Enter, notifyVars, LifeInv, RecordLife
<1>2. origin[o] # NULL /\ self[o] \in Handles
  BY <1>1 DEF LifeInv, RecordLife
<1>3. /\ Frames' = Frames \cup {n}
      /\ n \notin Frames
      /\ stack'[n].op = o
      /\ stack'[n].error = FALSE
      /\ \A i \in Frames : stack'[i] = stack[i]
  <2>1. stack'[n] = [op |-> o, self |-> self[o], error |-> FALSE]
    BY <1>0, <1>1, <1>2, EnterFrames
  <2>2. stack'[n].op = o /\ stack'[n].error = FALSE
    BY <2>1
  <2>3. QED
    BY <1>0, <1>1, <1>2, <2>2, EnterFrames
<1>4. ~FreesNotify(stack[n])'
  BY <1>1, <1>3 DEF FreesNotify
<1>5. ASSUME NEW i \in Frames
      PROVE  /\ FreesNotify(stack[i])' <=> FreesNotify(stack[i])
             /\ stack[i].op \in Ops
  <2>1. FreesNotify(stack[i])' <=> FreesNotify(stack[i])
    BY <1>1, <1>3 DEF FreesNotify
  <2>2. QED
    BY <2>1, FrameTypes
<1>6. ASSUME NEW x \in Ops PROVE RecordLife(x)'
  <2>1. RecordLife(x)
    BY DEF LifeInv
  <2>2. pages'[x] > 0 => pages[x] > 0
    BY <1>1
  <2>3. (\E i \in Frames : stack[i].op = x /\ FreesNotify(stack[i]))
        => (\E i \in Frames : stack[i].op = x /\ FreesNotify(stack[i]))'
    BY <1>3, <1>5
  <2>4. QED
    BY <1>1, <2>1, <2>2, <2>3 DEF RecordLife
<1>7. ASSUME NEW i \in Frames' PROVE FrameLife(i)'
  <2>1. CASE i = n
    <3>1. stack'[i].op = o /\ origin'[o] # NULL /\ ~FreesNotify(stack[i])'
      BY <1>1, <1>2, <1>3, <1>4, <2>1
    <3>2. QED
      BY <3>1 DEF FrameLife
  <2>2. CASE i \in Frames
    <3>1. FrameLife(i)
      BY <2>2 DEF LifeInv
    <3>2. /\ stack'[i] = stack[i]
          /\ FreesNotify(stack[i])' <=> FreesNotify(stack[i])
      BY <1>3, <1>5, <2>2
    <3>3. ASSUME NEW j \in Frames', stack'[j].op = stack'[i].op,
                 FreesNotify(stack[j])', FreesNotify(stack[i])'
          PROVE  i = j
      <4>1. j \in Frames
        BY <1>3, <1>4, <3>3
      <4>2. stack'[j] = stack[j] /\ FreesNotify(stack[j])
        BY <1>3, <1>5, <3>3, <4>1
      <4>3. QED
        BY <3>1, <3>2, <3>3, <4>1, <4>2 DEF FrameLife
    <3>4. origin' = origin /\ lib' = lib /\ frees' = frees
      BY <1>1
    <3>5. QED
      BY <3>1, <3>2, <3>3, <3>4 DEF FrameLife
  <2>3. QED
    BY <1>3, <2>1, <2>2
<1>8. QED
  BY <1>6, <1>7 DEF LifeInv

\* Leaving a marshaller pops its frame and leaves the others.
LEMMA ReturnFrames ==
  ASSUME TypeOK, Return
  PROVE  /\ Len(stack) \in Frames
         /\ Top \in Frame
         /\ Frames' = Frames \ {Len(stack)}
         /\ \A i \in Frames' : stack'[i] = stack[i]
BY DEF TypeOK, Return, Frames, Top

\* A marshaller that frees its record is the only one that would.
LEMMA ReturnLife ==
  ASSUME TypeOK, LifeInv, Return
  PROVE  LifeInv'
<1> USE DEF TypeOK
<1>0. PICK n \in Nat : n = Len(stack)
  OBVIOUS
<1>1. /\ n \in Frames /\ Top = stack[n] /\ Top.op \in Ops
      /\ Frames' = Frames \ {n}
      /\ \A i \in Frames' : stack'[i] = stack[i]
  BY <1>0, ReturnFrames DEF Top, Frame
<1>2. /\ UNCHANGED <<self, origin, lib, result, pages, cancelled>>
      /\ frees' = IF FreesNotify(Top) THEN [frees EXCEPT ![Top.op] = @ + 1]
                                      ELSE frees
  BY DEF Return, libVars
<1>3. FreesNotify(Top) => lib[Top.op] = "done" /\ frees[Top.op] = 0
  BY <1>1 DEF LifeInv, FrameLife
<1>4. ASSUME NEW i \in Frames'
      PROVE  /\ FreesNotify(stack[i])' <=> FreesNotify(stack[i])
             /\ FreesNotify(stack[i]) /\ FreesNotify(Top) => stack[i].op # Top.op
             /\ stack[i].op \in Ops
  <2>1. FreesNotify(stack[i])' <=> FreesNotify(stack[i])
    BY <1>1, <1>2 DEF FreesNotify
  <2>2. FreesNotify(stack[i]) /\ FreesNotify(Top) => stack[i].op # Top.op
    BY <1>1 DEF LifeInv, FrameLife
  <2>3. QED
    BY <1>1, <2>1, <2>2, FrameTypes
<1>5. ASSUME NEW x \in Ops PROVE RecordLife(x)'
  <2>1. CASE x = Top.op /\ FreesNotify(Top)
    BY <1>1, <1>2, <1>3, <2>1 DEF RecordLife, LifeInv
  <2>2. CASE ~(x = Top.op /\ FreesNotify(Top))
    <3>1. frees'[x] = frees[x]
      BY <1>1, <1>2, <2>2
    <3>2. ASSUME NEW i \in Frames, stack[i].op = x, FreesNotify(stack[i])
          PROVE  i \in Frames' /\ stack'[i].op = x /\ FreesNotify(stack[i])'
      BY <1>1, <1>4, <2>2, <3>2
    <3>3. QED
      BY <1>2, <3>1, <3>2 DEF RecordLife, LifeInv
  <2>3. QED
    BY <2>1, <2>2
<1>6. ASSUME NEW i \in Frames' PROVE FrameLife(i)'
  BY <1>1, <1>2, <1>4 DEF FrameLife, LifeInv
<1>7. QED
  BY <1>5, <1>6 DEF LifeInv

\* Every step keeps LifeInv: entry points, GnomeVFS, both halves of every
\* marshaller.
LEMMA LifeStep == TypeOK /\ LifeInv /\ [Next]_vars => LifeInv'
<1> SUFFICES ASSUME TypeOK, LifeInv, [Next]_vars PROVE LifeInv'
  OBVIOUS
<1>1. ASSUME NEW h \in Handles, NEW o \in Ops, NEW k \in Origins,
             Start(h, o, k) \/ Method(h, o, k)
      PROVE  LifeInv'
  BY <1>1, SubmitLife DEF Start, Method
<1>2. ASSUME NEW h \in Handles, NEW o \in Ops,
             \/ pygvfs_async_open(h, o)
             \/ pygvfs_async_create(h, o)
             \/ pygvfs_async_create_symbolic_link(h, o)
             \/ pygvfs_async_get_file_info(h, o)
             \/ pygvfs_async_load_directory(h, o)
             \/ pygvhandle_close(h, o)
             \/ pygvhandle_read(h, o)
             \/ pygvhandle_write(h, o)
      PROVE  LifeInv'
  BY <1>1, <1>2 DEF pygvfs_async_open, pygvfs_async_create,
     pygvfs_async_create_symbolic_link, pygvfs_async_get_file_info,
     pygvfs_async_load_directory, pygvhandle_close, pygvhandle_read,
     pygvhandle_write, Origins, Starters, Methods
<1>3. ASSUME NEW h \in Handles,
             NewHandle(h) \/ pygvhandle_cancel(h) \/ Drop(h) \/ Keep(h)
      PROVE  LifeInv'
  BY <1>3, ProgramLife DEF NewHandle, pygvhandle_cancel, Drop, Keep, notifyVars,
     libVars, TypeOK
<1>4. ASSUME NEW o \in Ops, Dispatch(o) PROVE LifeInv'
  <2> USE DEF TypeOK
  <2>1. CASE callback_marshal(o)
    <3>1. CallbackClearsFd(origin[o], result[o]) \in BOOLEAN
      BY DEF CallbackClearsFd
    <3>2. QED
      BY <2>1, <3>1, FinalLife DEF callback_marshal
  <2>2. CASE read_write_marshal(o)
    BY <2>2, FinalLife DEF read_write_marshal
  <2>3. CASE get_info_marshal(o)
    BY <2>3, FinalLife DEF get_info_marshal
  <2>4. CASE load_dir_page(o)
    BY <2>4, PageLife
  <2>5. CASE load_dir_end(o)
    <3>1. result[o] = TRUE
      BY <2>5 DEF load_dir_end, FinalCallback, LifeInv, RecordLife
    <3>2. QED
      BY <2>5, <3>1, FinalLife DEF load_dir_end
  <2>6. QED
    BY <1>4, <2>1, <2>2, <2>3, <2>4, <2>5 DEF Dispatch
<1>5. CASE UNCHANGED vars
  BY <1>5, ProgramLife DEF vars, objVars, notifyVars, libVars
<1>6. QED
  BY <1>2, <1>3, <1>4, <1>5, LibLife, ReturnLife DEF Next, Python

\* LifeInv holds throughout: a record is freed once, by the marshaller of its
\* final callback.
LEMMA LifeInvariant == Spec => [](TypeOK /\ LifeInv)
<1>1. Init => LifeInv
  BY AsyncConstants DEF Init, LifeInv, RecordLife, FrameLife, Frames
<1>2. QED
  BY <1>1, TypeCorrect, LifeStep, PTL DEF Spec

\* No marshaller dereferences a freed record and no record is freed twice,
\* however callbacks nest.
THEOREM NoUseAfterFreeHolds == Spec => []NoUseAfterFree
<1>1. TypeOK /\ LifeInv => NoUseAfterFree
  BY DEF TypeOK, LifeInv, RecordLife, FrameLife, NoUseAfterFree, Live, Allocated
<1>2. QED
  BY <1>1, LifeInvariant, PTL

\* A record that is not freed can still be called, is about to be freed, or
\* was dropped by a cancel.
THEOREM OnlyCancelLeaksHolds == Spec => []OnlyCancelLeaks
<1>1. TypeOK /\ LifeInv => OnlyCancelLeaks
  BY DEF TypeOK, LifeInv, RecordLife, OnlyCancelLeaks, Live, Allocated, LibStates
<1>2. QED
  BY <1>1, LifeInvariant, PTL

-----------------------------------------------------------------------------
(***************************************************************************)
(* The memory lent to the job threads.                                     *)
(***************************************************************************)

\* What makes BufferOutlivesIO inductive: a record that was never allocated
\* lends nothing, and a read or a write lends its memory until its callback.
BufferInv ==
    \A o \in Ops :
        /\ origin[o] = NULL => buffer[o] = "none"
        /\ lib[o] # "done" => buffer[o] # "released"
        /\ lib[o] # "done" /\ origin[o] \in {"READ", "WRITE"} => buffer[o] = "lent"

\* Every step keeps BufferInv: memory is given back only by the marshaller of
\* the final callback.
LEMMA BufferStep == TypeOK /\ LifeInv /\ BufferInv /\ [Next]_vars => BufferInv'
<1> SUFFICES ASSUME TypeOK, LifeInv, BufferInv, [Next]_vars PROVE BufferInv'
  OBVIOUS
<1> USE AsyncConstants DEF TypeOK, BufferInv
<1>1. ASSUME NEW h \in Handles, NEW o \in Ops, NEW k \in Starters \cup {"CLOSE"},
             async_notify_new(h, o, k), LibSubmit(o), UNCHANGED buffer
      PROVE  BufferInv'
  <2>1. k # NULL /\ k \notin {"READ", "WRITE"}
    BY DEF Starters, Methods, Origins
  <2>2. buffer[o] = "none"
    BY <1>1 DEF async_notify_new, Allocated
  <2>3. origin'[o] = k /\ buffer'[o] = "none"
    BY <1>1, <2>2 DEF async_notify_new
  <2>4. \A x \in Ops \ {o} : /\ origin'[x] = origin[x] /\ buffer'[x] = buffer[x]
                             /\ lib'[x] = lib[x]
    BY <1>1 DEF async_notify_new, LibSubmit
  <2> QED
    BY <2>1, <2>3, <2>4
<1>2. ASSUME NEW h \in Handles, NEW o \in Ops, NEW k \in {"READ", "WRITE"},
             async_notify_new(h, o, k), LibSubmit(o),
             buffer' = [buffer EXCEPT ![o] = "lent"]
      PROVE  BufferInv'
  <2>1. k # NULL
    <3>1. k \in Origins
      BY DEF Methods, Origins
    <3> QED
      BY <3>1
  <2>2. origin'[o] = k /\ buffer'[o] = "lent"
    <3>1. origin' = [origin EXCEPT ![o] = k]
      BY <1>2 DEF async_notify_new
    <3>2. origin'[o] = k
      BY <3>1
    <3> QED
      BY <1>2, <3>2
  <2>3. \A x \in Ops \ {o} : /\ origin'[x] = origin[x] /\ buffer'[x] = buffer[x]
                             /\ lib'[x] = lib[x]
    BY <1>2 DEF async_notify_new, LibSubmit
  <2>4. "lent" # "released" /\ origin'[o] # NULL
    BY <2>1, <2>2
  <2>5. SUFFICES ASSUME NEW x \in Ops
                 PROVE  /\ origin'[x] = NULL => buffer'[x] = "none"
                        /\ lib'[x] # "done" => buffer'[x] # "released"
                        /\ lib'[x] # "done" /\ origin'[x] \in {"READ", "WRITE"} =>
                              buffer'[x] = "lent"
    OBVIOUS
  <2>6. CASE x = o
    BY <2>2, <2>4, <2>6
  <2>7. CASE x # o
    BY <2>3, <2>7
  <2> QED
    BY <2>6, <2>7
<1>3. ASSUME NEW h \in Handles, NEW o \in Ops,
             \/ pygvfs_async_open(h, o)
             \/ pygvfs_async_create(h, o)
             \/ pygvfs_async_create_symbolic_link(h, o)
             \/ pygvfs_async_get_file_info(h, o)
             \/ pygvfs_async_load_directory(h, o)
      PROVE  BufferInv'
  <2>1. PICK k \in Starters : Start(h, o, k)
    BY <1>3 DEF pygvfs_async_open, pygvfs_async_create,
       pygvfs_async_create_symbolic_link, pygvfs_async_get_file_info,
       pygvfs_async_load_directory, Starters
  <2>2. async_notify_new(h, o, k) /\ LibSubmit(o) /\ UNCHANGED buffer
    BY <2>1 DEF Start
  <2> QED
    BY <1>1, <2>2
<1>4. ASSUME NEW h \in Handles, NEW o \in Ops, pygvhandle_close(h, o)
      PROVE  BufferInv'
  BY <1>1, <1>4 DEF pygvhandle_close, Method
<1>5. ASSUME NEW h \in Handles, NEW o \in Ops,
             pygvhandle_read(h, o) \/ pygvhandle_write(h, o)
      PROVE  BufferInv'
  BY <1>2, <1>5 DEF pygvhandle_read, pygvhandle_write, Method
<1>6. ASSUME NEW h \in Handles,
             NewHandle(h) \/ pygvhandle_cancel(h) \/ Drop(h) \/ Keep(h)
      PROVE  BufferInv'
  BY <1>6 DEF NewHandle, pygvhandle_cancel, Drop, Keep, notifyVars, libVars
<1>7. ASSUME NEW o \in Ops, Lib(o) PROVE BufferInv'
  <2>1. /\ UNCHANGED <<origin, buffer>>
        /\ \A x \in Ops : lib[x] = "done" => lib'[x] = "done"
    BY <1>7 DEF Lib, LibPage, LibFinish, LibDrop, notifyVars
  <2>2. lib[o] # "done"
    BY <1>7 DEF Lib, LibPage, LibFinish, LibDrop
  <2>3. \A x \in Ops : lib[x] # "done" \/ lib'[x] = "done"
    BY <2>1
  <2>4. \A x \in Ops : lib'[x] # "done" => lib[x] # "done"
    BY <2>1
  <2> QED
    BY <2>1, <2>4
<1>8. ASSUME NEW o \in Ops, Dispatch(o) PROVE BufferInv'
  BY <1>8 DEF Dispatch, callback_marshal, read_write_marshal, get_info_marshal,
     load_dir_page, load_dir_end, Enter, FinalCallback, notifyVars
<1>9. CASE Return
  <2>1. Top.op \in Ops
    BY <1>9, ReturnFrames DEF Frame
  <2>2. FreesNotify(Top) => lib[Top.op] = "done" /\ origin[Top.op] # NULL
    BY <1>9, ReturnFrames DEF LifeInv, FrameLife, Top
  <2>3. \A x \in Ops : \/ buffer'[x] = buffer[x]
                       \/ (lib[x] = "done" /\ origin[x] # NULL)
    <3>1. PICK t \in Ops : t = Top.op
      BY <2>1
    <3>2. buffer' = IF FreesNotify(Top) /\ buffer[t] = "lent"
                    THEN [buffer EXCEPT ![t] = "released"] ELSE buffer
      BY <1>9, <3>1 DEF Return
    <3>3. CASE FreesNotify(Top)
      <4>1. lib[t] = "done" /\ origin[t] # NULL
        BY <2>2, <3>1, <3>3
      <4>2. buffer' = [buffer EXCEPT ![t] = "released"] \/ buffer' = buffer
        BY <3>2
      <4> QED
        BY <4>1, <4>2
    <3>4. CASE ~FreesNotify(Top)
      BY <3>2, <3>4
    <3> QED
      BY <3>3, <3>4
  <2> QED
    BY <1>9, <2>3 DEF Return, libVars
<1>10. CASE UNCHANGED vars
  BY <1>10 DEF vars, notifyVars, libVars
<1> QED
  BY <1>3, <1>4, <1>5, <1>6, <1>7, <1>8, <1>9, <1>10 DEF Next, Python

\* The buffer of a read and the string of a write stay allocated until the
\* final callback, whatever is cancelled or forgotten in between.
THEOREM BufferOutlivesIOHolds == Spec => []BufferOutlivesIO
<1>1. Init => BufferInv
  BY AsyncConstants DEF Init, BufferInv, Origins, Methods
<1>2. BufferInv => BufferOutlivesIO
  BY DEF BufferInv, BufferOutlivesIO
<1> QED
  BY <1>1, <1>2, LifeInvariant, BufferStep, PTL DEF Spec

-----------------------------------------------------------------------------
(***************************************************************************)
(* References on the wrapper.                                              *)
(***************************************************************************)

\* The argument tuple of a callback holds the wrapper of its record.
FrameSelf == \A i \in Frames : stack[i].self = self[stack[i].op]

\* RefsExact for one wrapper.
Exact(h) ==
    /\ rc[h] = (IF held[h] THEN 1 ELSE 0) + Cardinality(LiveOn(h))
               + Cardinality(FramesOn(h))
    /\ (object[h] = "alive") <=> (rc[h] > 0)

\* What makes RefsExact inductive.
RefsInv == FrameSelf /\ \A h \in Handles : Exact(h)

\* The records and the callbacks that hold a wrapper are finitely many.
LEMMA CountTypes ==
  ASSUME TypeOK, NEW h \in Handles
  PROVE  /\ IsFiniteSet(LiveOn(h))
         /\ IsFiniteSet(FramesOn(h))
         /\ Cardinality(LiveOn(h)) \in Nat
         /\ Cardinality(FramesOn(h)) \in Nat
<1>1. IsFiniteSet(LiveOn(h))
  BY AsyncConstants, FS_Subset DEF LiveOn
<1>2. IsFiniteSet(Frames)
  BY FrameTypes, FS_Interval
<1>3. IsFiniteSet(FramesOn(h))
  BY <1>2, FS_Subset DEF FramesOn
<1> QED
  BY <1>1, <1>3, FS_CardinalityType

\* A step that leaves a wrapper's reference count, memory and holders alone
\* keeps its count exact.
LEMMA ExactKept ==
  ASSUME NEW h \in Handles, Exact(h), rc'[h] = rc[h], held'[h] = held[h],
         object'[h] = object[h], LiveOn(h)' = LiveOn(h), FramesOn(h)' = FramesOn(h)
  PROVE  Exact(h)'
BY DEF Exact

\* A wrapper some record or callback holds is alive.
LEMMA HolderAlive ==
  ASSUME TypeOK, NEW h \in Handles, Exact(h),
         held[h] \/ LiveOn(h) # {} \/ FramesOn(h) # {}
  PROVE  object[h] = "alive" /\ rc[h] > 0
<1>1. /\ LiveOn(h) # {} => Cardinality(LiveOn(h)) # 0
      /\ FramesOn(h) # {} => Cardinality(FramesOn(h)) # 0
  BY CountTypes, FS_EmptySet
<1>2. PICK l \in Nat, f \in Nat : l = Cardinality(LiveOn(h))
                                  /\ f = Cardinality(FramesOn(h))
  BY CountTypes
<1>3. rc[h] = (IF held[h] THEN 1 ELSE 0) + l + f
  BY <1>2 DEF Exact
<1>4. rc[h] > 0
  BY <1>1, <1>2, <1>3
<1> QED
  BY <1>4 DEF Exact

\* A wrapper that is not alive is held by nobody and its count is zero.
LEMMA DeadUnheld ==
  ASSUME TypeOK, NEW h \in Handles, Exact(h), object[h] # "alive"
  PROVE  /\ ~held[h] /\ LiveOn(h) = {} /\ FramesOn(h) = {} /\ rc[h] = 0
         /\ Cardinality(LiveOn(h)) = 0 /\ Cardinality(FramesOn(h)) = 0
<1>1. ~held[h] /\ LiveOn(h) = {} /\ FramesOn(h) = {}
  BY HolderAlive
<1>2. Cardinality(LiveOn(h)) = 0 /\ Cardinality(FramesOn(h)) = 0
  BY <1>1, FS_EmptySet
<1> QED
  BY <1>1, <1>2 DEF Exact

\* The new record is one more holder of its wrapper and of no other.
LEMMA SubmitHolders ==
  ASSUME TypeOK, LifeInv, NEW h \in Handles, NEW o \in Ops, NEW k \in Origins,
         async_notify_new(h, o, k)
  PROVE  /\ o \notin LiveOn(h)
         /\ LiveOn(h)' = LiveOn(h) \cup {o}
         /\ \A x \in Handles \ {h} : LiveOn(x)' = LiveOn(x)
<1> USE AsyncConstants
<1>1. /\ origin[o] = NULL /\ frees[o] = 0 /\ k # NULL
      /\ frees' = frees
      /\ self'[o] = h /\ origin'[o] = k
      /\ \A y \in Ops \ {o} : self'[y] = self[y] /\ origin'[y] = origin[y]
  BY DEF async_notify_new, Allocated, TypeOK, LifeInv, RecordLife
<1>2. \A y \in Ops \ {o} : \A x \in Handles : y \in LiveOn(x)' <=> y \in LiveOn(x)
  BY <1>1 DEF LiveOn, Live, Allocated
<1>3. \A x \in Handles : o \notin LiveOn(x)
  BY <1>1 DEF LiveOn, Live, Allocated
<1>4. \A x \in Handles : o \in LiveOn(x)' <=> x = h
  BY <1>1 DEF LiveOn, Live, Allocated
<1>5. \A x \in Handles : LiveOn(x) \subseteq Ops /\ LiveOn(x)' \subseteq Ops
  BY DEF LiveOn
<1> QED
  BY <1>2, <1>3, <1>4, <1>5

\* Starting an operation keeps the counts exact: the record owns the
\* reference async_notify_new takes, and the new wrapper is the program's.
LEMMA StartRefs ==
  ASSUME TypeOK, LifeInv, RefsInv, NEW h \in Handles, NEW o \in Ops,
         NEW k \in Origins, Start(h, o, k) \/ Method(h, o, k)
  PROVE  RefsInv'
<1>1. async_notify_new(h, o, k) /\ stack' = stack
  BY DEF Start, Method
<1>2. /\ o \notin LiveOn(h)
      /\ LiveOn(h)' = LiveOn(h) \cup {o}
      /\ \A x \in Handles \ {h} : LiveOn(x)' = LiveOn(x)
  BY <1>1, SubmitHolders
<1>3. \A x \in Handles : FramesOn(x)' = FramesOn(x)
  BY <1>1 DEF FramesOn, Frames
<1>4. FrameSelf'
  <2>1. \A i \in Frames : stack[i].op \in Ops /\ stack[i].op # o
    BY <1>1, FrameTypes DEF LifeInv, FrameLife, async_notify_new, Allocated
  <2> QED
    BY <1>1, <2>1 DEF RefsInv, FrameSelf, Frames, async_notify_new, TypeOK
<1>5. ASSUME NEW x \in Handles, x # h PROVE Exact(x)'
  <2>1. rc'[x] = rc[x] /\ held'[x] = held[x] /\ object'[x] = object[x]
    BY <1>5 DEF Start, Method, TypeOK
  <2>2. Exact(x)
    BY DEF RefsInv
  <2> QED
    BY <1>2, <1>3, <1>5, <2>1, <2>2, ExactKept
<1>6. Exact(h)'
  <2>0. Exact(h)
    BY DEF RefsInv
  <2>1. PICK l \in Nat, f \in Nat : l = Cardinality(LiveOn(h))
                                    /\ f = Cardinality(FramesOn(h))
    BY CountTypes
  <2>2. Cardinality(LiveOn(h)') = l + 1
    BY <1>2, <2>1, CountTypes, FS_AddElement
  <2>3. Cardinality(FramesOn(h)') = f
    BY <1>3, <2>1
  <2>4. CASE Start(h, o, k)
    <3>1. object[h] # "alive"
      BY <2>4 DEF Start
    <3>2. l = 0 /\ f = 0
      BY <2>0, <2>1, <3>1, DeadUnheld
    <3>3. rc'[h] = 2 /\ held'[h] = TRUE /\ object'[h] = "alive"
      BY <2>4 DEF Start, SelfRef, TypeOK
    <3> QED
      BY <2>2, <2>3, <3>2, <3>3 DEF Exact
  <2>5. CASE Method(h, o, k)
    <3>1. rc'[h] = rc[h] + 1 /\ held'[h] = held[h] /\ object'[h] = object[h]
      BY <2>5 DEF Method, SelfRef, TypeOK
    <3>2. object[h] = "alive"
      BY <2>5 DEF Method, CanUse
    <3>3. rc[h] = (IF held[h] THEN 1 ELSE 0) + l + f /\ rc[h] > 0
      BY <2>0, <2>1, <3>2 DEF Exact
    <3>4. rc'[h] = (IF held'[h] THEN 1 ELSE 0) + (l + 1) + f /\ rc'[h] > 0
      BY <3>1, <3>3
    <3> QED
      BY <2>2, <2>3, <3>1, <3>2, <3>4 DEF Exact
  <2> QED
    BY <2>4, <2>5
<1> QED
  BY <1>4, <1>5, <1>6 DEF RefsInv

\* Steps of the program that touch neither records nor callbacks: it makes,
\* cancels, forgets or stores one wrapper.
LEMMA ProgramRefs ==
  ASSUME TypeOK, RefsInv, NEW h \in Handles,
         NewHandle(h) \/ pygvhandle_cancel(h) \/ Drop(h) \/ Keep(h)
  PROVE  RefsInv'
<1>1. UNCHANGED <<self, origin, frees, stack>>
  BY DEF NewHandle, pygvhandle_cancel, Drop, Keep, notifyVars
<1>2. \A x \in Handles : LiveOn(x)' = LiveOn(x) /\ FramesOn(x)' = FramesOn(x)
  BY <1>1 DEF LiveOn, Live, Allocated, FramesOn, Frames
<1>3. FrameSelf'
  BY <1>1 DEF RefsInv, FrameSelf, Frames
<1>4. ASSUME NEW x \in Handles, x # h PROVE Exact(x)'
  <2>1. rc'[x] = rc[x] /\ held'[x] = held[x] /\ object'[x] = object[x]
    BY <1>4 DEF NewHandle, pygvhandle_cancel, Drop, DecRef, Keep, TypeOK
  <2>2. Exact(x)
    BY DEF RefsInv
  <2> QED
    BY <1>2, <2>1, <2>2, ExactKept
<1>5. Exact(h)'
  <2>0. Exact(h)
    BY DEF RefsInv
  <2>1. PICK l \in Nat, f \in Nat : l = Cardinality(LiveOn(h))
                                    /\ f = Cardinality(FramesOn(h))
    BY CountTypes
  <2>2. Cardinality(LiveOn(h)') = l /\ Cardinality(FramesOn(h)') = f
    BY <1>2, <2>1
  <2>3. rc[h] = (IF held[h] THEN 1 ELSE 0) + l + f
    BY <2>0, <2>1 DEF Exact
  <2>4. CASE NewHandle(h)
    <3>1. object[h] # "alive"
      BY <2>4 DEF NewHandle
    <3>2. l = 0 /\ f = 0
      BY <2>0, <2>1, <3>1, DeadUnheld
    <3>3. rc'[h] = 1 /\ held'[h] = TRUE /\ object'[h] = "alive"
      BY <2>4 DEF NewHandle, TypeOK
    <3> QED
      BY <2>2, <3>2, <3>3 DEF Exact
  <2>5. CASE pygvhandle_cancel(h)
    BY <1>2, <2>0, <2>5, ExactKept DEF pygvhandle_cancel
  <2>6. CASE Drop(h)
    <3>1. /\ rc'[h] = rc[h] - 1 /\ held[h] = TRUE /\ held'[h] = FALSE
          /\ object'[h] = IF rc[h] = 1 THEN "freed" ELSE object[h]
      BY <2>6 DEF Drop, DecRef, TypeOK
    <3>2. object[h] = "alive" /\ rc[h] > 0
      BY <2>0, <3>1, HolderAlive
    <3>3. rc'[h] = (IF held'[h] THEN 1 ELSE 0) + l + f
      BY <2>3, <3>1
    <3>4. (object'[h] = "alive") <=> (rc'[h] > 0)
      BY <2>3, <3>1, <3>2
    <3> QED
      BY <2>2, <3>3, <3>4 DEF Exact
  <2>7. CASE Keep(h)
    <3>1. /\ rc'[h] = rc[h] + 1 /\ held[h] = FALSE /\ held'[h] = TRUE
          /\ object'[h] = object[h]
      BY <2>7 DEF Keep, TypeOK
    <3>2. Len(stack) \in FramesOn(h)
      BY <2>7 DEF Keep, Top, FramesOn, Frames, TypeOK
    <3>3. object[h] = "alive" /\ rc[h] > 0
      BY <2>0, <3>2, HolderAlive
    <3>4. rc'[h] = (IF held'[h] THEN 1 ELSE 0) + l + f
      BY <2>3, <3>1
    <3>5. (object'[h] = "alive") <=> (rc'[h] > 0)
      BY <2>3, <3>1, <3>3
    <3> QED
      BY <2>2, <3>4, <3>5 DEF Exact
  <2> QED
    BY <2>4, <2>5, <2>6, <2>7
<1> QED
  BY <1>3, <1>4, <1>5 DEF RefsInv

\* Entering a marshaller: the argument tuple is one more holder of the
\* wrapper of the record, which the record keeps alive.
LEMMA EnterRefs ==
  ASSUME TypeOK, RefsInv, NEW o \in Ops, NEW e \in BOOLEAN, NEW c \in BOOLEAN,
         Live(o), Enter(o, e, c)
  PROVE  RefsInv'
<1>0. PICK n \in Nat : n = Len(stack) + 1
  BY FrameTypes
<1>1. PICK h \in Handles : h = self[o]
  BY DEF Live, Allocated, TypeOK
<1>2. /\ Frames' = Frames \cup {n}
      /\ n \notin Frames
      /\ stack'[n].op = o
      /\ stack'[n].self = h
      /\ \A i \in Frames : stack'[i] = stack[i]
  <2>1. stack'[n] = [op |-> o, self |-> self[o], error |-> e]
    BY <1>0, <1>1, EnterFrames
  <2>2. stack'[n].op = o /\ stack'[n].self = h
    BY <1>1, <2>1
  <2> QED
    BY <1>0, <1>1, <2>2, EnterFrames
<1>3. /\ UNCHANGED <<object, held, self, origin, frees>>
      /\ rc'[h] = rc[h] + 1
      /\ \A x \in Handles \ {h} : rc'[x] = rc[x]
  BY <1>1 DEF Enter, notifyVars, TypeOK
<1>4. FrameSelf'
  BY <1>1, <1>2, <1>3 DEF RefsInv, FrameSelf
<1>5. \A x \in Handles : LiveOn(x)' = LiveOn(x)
  BY <1>3 DEF LiveOn, Live, Allocated
<1>6. /\ FramesOn(h)' = FramesOn(h) \cup {n}
      /\ n \notin FramesOn(h)
      /\ \A x \in Handles \ {h} : FramesOn(x)' = FramesOn(x)
  BY <1>2 DEF FramesOn
<1>7. ASSUME NEW x \in Handles, x # h PROVE Exact(x)'
  <2>1. Exact(x)
    BY DEF RefsInv
  <2> QED
    BY <1>3, <1>5, <1>6, <1>7, <2>1, ExactKept
<1>8. Exact(h)'
  <2>0. Exact(h)
    BY DEF RefsInv
  <2>1. PICK l \in Nat, f \in Nat : l = Cardinality(LiveOn(h))
                                    /\ f = Cardinality(FramesOn(h))
    BY CountTypes
  <2>2. Cardinality(LiveOn(h)') = l /\ Cardinality(FramesOn(h)') = f + 1
    <3>1. IsFiniteSet(FramesOn(h))
      BY CountTypes
    <3>2. Cardinality(FramesOn(h) \cup {n}) = f + 1
      BY <1>6, <2>1, <3>1, FS_AddElement
    <3> QED
      BY <1>5, <1>6, <2>1, <3>2
  <2>3. o \in LiveOn(h)
    BY <1>1 DEF LiveOn
  <2>4. object[h] = "alive" /\ rc[h] > 0
    BY <2>0, <2>3, HolderAlive
  <2>5. rc[h] = (IF held[h] THEN 1 ELSE 0) + l + f
    BY <2>0, <2>1 DEF Exact
  <2>6. rc'[h] = (IF held'[h] THEN 1 ELSE 0) + l + (f + 1) /\ rc'[h] > 0
    BY <1>3, <2>4, <2>5
  <2> QED
    BY <1>3, <2>2, <2>4, <2>6 DEF Exact
<1> QED
  BY <1>4, <1>7, <1>8 DEF RefsInv

\* Leaving a marshaller: the argument tuple goes, and the record with it when
\* this call frees it; the memory of the wrapper goes when nobody is left.
LEMMA ReturnRefs ==
  ASSUME TypeOK, LifeInv, RefsInv, Return
  PROVE  RefsInv'
<1>0. PICK n \in Nat : n = Len(stack)
  BY FrameTypes
<1>1. /\ n \in Frames /\ Top = stack[n]
      /\ Frames' = Frames \ {n}
      /\ \A i \in Frames' : stack'[i] = stack[i]
  BY <1>0, ReturnFrames DEF Top
<1>2. PICK h \in Handles : h = Top.self
  BY <1>1, FrameTypes
<1>3. PICK o \in Ops : o = Top.op
  BY <1>1, FrameTypes
<1>4. self[o] = h
  BY <1>1, <1>2, <1>3 DEF RefsInv, FrameSelf
<1>5. /\ UNCHANGED <<held, self, origin>>
      /\ frees' = IF FreesNotify(Top) THEN [frees EXCEPT ![o] = @ + 1] ELSE frees
  BY <1>3 DEF Return
<1>6. FrameSelf'
  BY <1>1, <1>5 DEF RefsInv, FrameSelf
<1>7. /\ FramesOn(h)' = FramesOn(h) \ {n}
      /\ n \in FramesOn(h)
      /\ \A x \in Handles \ {h} : FramesOn(x)' = FramesOn(x)
  BY <1>1, <1>2 DEF FramesOn
<1>8. FreesNotify(Top) => Live(o)
  BY <1>1, <1>3 DEF LifeInv, FrameLife, Live, Allocated
<1>9. \A x \in Handles \ {h} : LiveOn(x)' = LiveOn(x)
  <2>1. \A y \in Ops \ {o} : frees'[y] = frees[y]
    BY <1>5 DEF TypeOK
  <2> QED
    BY <1>4, <1>5, <2>1 DEF LiveOn, Live, Allocated
<1>10. \A x \in Handles \ {h} : rc'[x] = rc[x] /\ object'[x] = object[x]
  BY <1>2 DEF Return, DecRef, TypeOK
<1>11. ASSUME NEW x \in Handles, x # h PROVE Exact(x)'
  <2>1. Exact(x)
    BY DEF RefsInv
  <2> QED
    BY <1>5, <1>7, <1>9, <1>10, <1>11, <2>1, ExactKept
<1>12. Exact(h)'
  <2>0. Exact(h)
    BY DEF RefsInv
  <2>1. PICK l \in Nat, f \in Nat : l = Cardinality(LiveOn(h))
                                    /\ f = Cardinality(FramesOn(h))
    BY CountTypes
  <2>2. Cardinality(FramesOn(h)') = f - 1 /\ f > 0
    <3>1. Cardinality(FramesOn(h)') = f - 1
      <4>1. IsFiniteSet(FramesOn(h))
        BY CountTypes
      <4>2. Cardinality(FramesOn(h) \ {n}) = f - 1
        BY <1>7, <2>1, <4>1, FS_RemoveElement
      <4> QED
        BY <1>7, <4>2
    <3>2. f # 0
      BY <1>7, <2>1, CountTypes, FS_EmptySet
    <3> QED
      BY <3>1, <3>2
  <2>3. object[h] = "alive" /\ rc[h] > 0
    BY <1>7, <2>0, HolderAlive
  <2>4. rc[h] = (IF held[h] THEN 1 ELSE 0) + l + f
    BY <2>0, <2>1 DEF Exact
  <2>5. CASE FreesNotify(Top)
    <3>1. /\ rc'[h] = rc[h] - 2
          /\ object'[h] = IF rc[h] = 2 THEN "freed" ELSE object[h]
      BY <1>2, <2>5 DEF Return, DecRef, SelfRef, TypeOK
    <3>2. o \in LiveOn(h) /\ LiveOn(h)' = LiveOn(h) \ {o}
      <4>1. /\ \A y \in Ops \ {o} : frees'[y] = frees[y]
            /\ frees'[o] # 0
        BY <1>5, <2>5 DEF TypeOK
      <4> QED
        BY <1>4, <1>5, <1>8, <2>5, <4>1 DEF LiveOn, Live, Allocated
    <3>3. Cardinality(LiveOn(h)') = l - 1 /\ l > 0
      <4>1. Cardinality(LiveOn(h)') = l - 1
        BY <2>1, <3>2, CountTypes, FS_RemoveElement
      <4>2. l # 0
        BY <2>1, <3>2, CountTypes, FS_EmptySet
      <4> QED
        BY <4>1, <4>2
    <3>4. rc'[h] = (IF held'[h] THEN 1 ELSE 0) + (l - 1) + (f - 1)
      BY <1>5, <2>4, <3>1
    <3>5. (object'[h] = "alive") <=> (rc'[h] > 0)
      BY <2>2, <2>3, <2>4, <3>1, <3>3
    <3> QED
      BY <2>2, <3>3, <3>4, <3>5 DEF Exact
  <2>6. CASE ~FreesNotify(Top)
    <3>1. /\ rc'[h] = rc[h] - 1
          /\ object'[h] = IF rc[h] = 1 THEN "freed" ELSE object[h]
      BY <1>2, <2>6 DEF Return, DecRef, TypeOK
    <3>2. Cardinality(LiveOn(h)') = l
      BY <1>5, <2>1, <2>6 DEF LiveOn, Live, Allocated
    <3>3. rc'[h] = (IF held'[h] THEN 1 ELSE 0) + l + (f - 1)
      BY <1>5, <2>4, <3>1
    <3>4. (object'[h] = "alive") <=> (rc'[h] > 0)
      BY <2>2, <2>3, <2>4, <3>1
    <3> QED
      BY <2>2, <3>2, <3>3, <3>4 DEF Exact
  <2> QED
    BY <2>5, <2>6
<1> QED
  BY <1>6, <1>11, <1>12 DEF RefsInv

\* Every dispatch enters a marshaller with a record that is not freed.
LEMMA DispatchEnters ==
  ASSUME TypeOK, LifeInv, NEW o \in Ops, Dispatch(o)
  PROVE  /\ Live(o)
         /\ \E e, c \in BOOLEAN : Enter(o, e, c)
<1> USE DEF TypeOK
<1>1. lib[o] = "ready" \/ pages[o] > 0
  BY DEF Dispatch, callback_marshal, read_write_marshal, get_info_marshal,
     load_dir_page, load_dir_end, FinalCallback
<1>2. Live(o)
  BY <1>1 DEF LifeInv, RecordLife, Live, Allocated
<1>3. CASE callback_marshal(o)
  <2>1. CallbackClearsFd(origin[o], result[o]) \in BOOLEAN
    BY DEF CallbackClearsFd
  <2> QED
    BY <1>2, <1>3, <2>1 DEF callback_marshal
<1>4. CASE read_write_marshal(o) \/ load_dir_end(o)
  BY <1>2, <1>4 DEF read_write_marshal, load_dir_end
<1>5. CASE get_info_marshal(o) \/ load_dir_page(o)
  BY <1>2, <1>5 DEF get_info_marshal, load_dir_page
<1> QED
  BY <1>3, <1>4, <1>5 DEF Dispatch

\* The operations that allocate a record, in their two common shapes.
LEMMA Submits ==
  ASSUME NEW h \in Handles, NEW o \in Ops,
         \/ pygvfs_async_open(h, o)
         \/ pygvfs_async_create(h, o)
         \/ pygvfs_async_create_symbolic_link(h, o)
         \/ pygvfs_async_get_file_info(h, o)
         \/ pygvfs_async_load_directory(h, o)
         \/ pygvhandle_close(h, o)
         \/ pygvhandle_read(h, o)
         \/ pygvhandle_write(h, o)
  PROVE  \/ \E k \in Starters : Start(h, o, k)
         \/ Method(h, o, "CLOSE") /\ fd' = [fd EXCEPT ![h] = FALSE]
         \/ \E k \in {"READ", "WRITE"} : Method(h, o, k) /\ UNCHANGED fd
BY DEF pygvfs_async_open, pygvfs_async_create, pygvfs_async_create_symbolic_link,
   pygvfs_async_get_file_info, pygvfs_async_load_directory, pygvhandle_close,
   pygvhandle_read, pygvhandle_write, Starters

\* Every step keeps the counts exact.
LEMMA RefsStep == TypeOK /\ LifeInv /\ RefsInv /\ [Next]_vars => RefsInv'
<1> SUFFICES ASSUME TypeOK, LifeInv, RefsInv, [Next]_vars PROVE RefsInv'
  OBVIOUS
<1>1. ASSUME NEW h \in Handles, NEW o \in Ops,
             \/ \E k \in Starters : Start(h, o, k)
             \/ Method(h, o, "CLOSE") /\ fd' = [fd EXCEPT ![h] = FALSE]
             \/ \E k \in {"READ", "WRITE"} : Method(h, o, k) /\ UNCHANGED fd
      PROVE  RefsInv'
  <2>1. PICK k \in Origins : Start(h, o, k) \/ Method(h, o, k)
    BY <1>1 DEF Origins, Methods
  <2> QED
    BY <2>1, StartRefs
<1>2. ASSUME NEW o \in Ops, Lib(o) PROVE RefsInv'
  <2>1. UNCHANGED <<objVars, notifyVars, stack>>
    BY <1>2 DEF Lib, LibPage, LibFinish, LibDrop
  <2> QED
    BY <2>1 DEF RefsInv, FrameSelf, Exact, LiveOn, Live, Allocated, FramesOn,
       Frames, objVars, notifyVars
<1>3. ASSUME NEW o \in Ops, Dispatch(o) PROVE RefsInv'
  BY <1>3, DispatchEnters, EnterRefs
<1>4. CASE UNCHANGED vars
  BY <1>4 DEF RefsInv, FrameSelf, Exact, LiveOn, Live, Allocated, FramesOn,
     Frames, vars, objVars, notifyVars
<1> QED
  BY <1>1, <1>2, <1>3, <1>4, Submits, ProgramRefs, ReturnRefs DEF Next, Python

\* The counts are exact in every reachable state.
LEMMA RefsInvariant == Spec => []RefsInv
<1>1. Init => RefsInv
  <2> SUFFICES ASSUME Init PROVE RefsInv
    OBVIOUS
  <2>1. ASSUME NEW h \in Handles PROVE LiveOn(h) = {} /\ FramesOn(h) = {}
    BY DEF Init, LiveOn, Live, Allocated, FramesOn, Frames
  <2>2. ASSUME NEW h \in Handles PROVE Exact(h)
    <3>1. Cardinality(LiveOn(h)) = 0 /\ Cardinality(FramesOn(h)) = 0
      BY <2>1, FS_EmptySet
    <3>2. held[h] = FALSE /\ rc[h] = 0 /\ object[h] = "unborn"
      BY DEF Init
    <3> QED
      BY <3>1, <3>2 DEF Exact
  <2> QED
    BY <2>2 DEF Init, RefsInv, FrameSelf, Frames
<1> QED
  BY <1>1, LifeInvariant, RefsStep, PTL DEF Spec

\* A wrapper's reference count is the number of its holders, and its memory
\* goes with the last of them, however callbacks nest.
THEOREM RefsExactHolds == Spec => []RefsExact
<1>1. RefsInv => RefsExact
  BY DEF RefsInv, Exact, RefsExact
<1> QED
  BY <1>1, RefsInvariant, PTL

-----------------------------------------------------------------------------
(***************************************************************************)
(* self->fd.                                                               *)
(***************************************************************************)

\* Nothing is known of a wrapper before it is made.
Fresh(h) ==
    /\ ~fd[h]
    /\ ~cancelled[h]
    /\ \A o \in Ops : Allocated(o) => self[o] # h

\* One function returned h, so at most one record is that function's.
OneStarter(h) ==
    \A o, p \in Ops : StarterOf(h, o) /\ StarterOf(h, p) => o = p

\* The operation that made h is under way or opened it.
Usable(h) ==
    \E o \in Ops :
        /\ StarterOf(h, o)
        /\ lib[o] = "done" => origin[o] \in {"OPEN", "CREATE"} /\ ~result[o]

Closed(h) == \E o \in Ops : self[o] = h /\ origin[o] = "CLOSE"

\* What makes FdTracksHandle inductive, for one wrapper.
HandleFd(h) ==
    /\ object[h] = "unborn" => Fresh(h)
    /\ OneStarter(h)
    /\ fd[h] <=> Usable(h) /\ ~cancelled[h] /\ ~Closed(h)

FdInv == \A h \in Handles : HandleFd(h)

\* A step that changes nothing of the operations on h that h's fd depends on.
SameOps(h) ==
    \A o \in Ops :
        /\ (Allocated(o) /\ self[o] = h) <=> (Allocated(o) /\ self[o] = h)'
        /\ Allocated(o) /\ self[o] = h => origin'[o] = origin[o]
        /\ StarterOf(h, o) =>
              /\ lib[o] = "done" <=> lib'[o] = "done"
              /\ lib[o] = "done" => result'[o] = result[o]

\* Such a step keeps HandleFd, if fd stays as well.
LEMMA FdKept ==
  ASSUME NEW h \in Handles, HandleFd(h), SameOps(h), fd'[h] = fd[h],
         cancelled'[h] = cancelled[h], object'[h] = "unborn" => object[h] = "unborn"
  PROVE  HandleFd(h)'
<1> USE AsyncConstants DEF SameOps
<1>1. \A o \in Ops : StarterOf(h, o)' <=> StarterOf(h, o)
  BY DEF StarterOf, Allocated, Origins
<1>2. \A o \in Ops : StarterOf(h, o) => origin'[o] = origin[o]
  BY DEF StarterOf, Allocated, Origins
<1>3. OneStarter(h)'
  BY <1>1 DEF HandleFd, OneStarter
<1>4. Usable(h)' <=> Usable(h)
  BY <1>1, <1>2 DEF Usable
<1>5. Closed(h)' <=> Closed(h)
  BY DEF Closed, Allocated, Origins, Methods
<1>6. object'[h] = "unborn" => Fresh(h)'
  BY DEF HandleFd, Fresh
<1> QED
  BY <1>3, <1>4, <1>5, <1>6 DEF HandleFd

\* Starting an operation: on a new wrapper it is the one that makes it, and a
\* method never is; close resets fd in the same step.
LEMMA StartFd ==
  ASSUME TypeOK, FdInv, NEW h \in Handles, NEW o \in Ops,
         \/ \E k \in Starters : Start(h, o, k)
         \/ Method(h, o, "CLOSE") /\ fd' = [fd EXCEPT ![h] = FALSE]
         \/ \E k \in {"READ", "WRITE"} : Method(h, o, k) /\ UNCHANGED fd
  PROVE  FdInv'
<1> USE AsyncConstants
<1>1. PICK k \in Origins : async_notify_new(h, o, k) /\ LibSubmit(o)
  BY DEF Start, Method, Origins, Methods
<1>2. /\ origin[o] = NULL /\ k # NULL
      /\ self'[o] = h /\ origin'[o] = k /\ lib'[o] = "running"
      /\ \A y \in Ops \ {o} : /\ self'[y] = self[y] /\ origin'[y] = origin[y]
                              /\ lib'[y] = lib[y]
      /\ UNCHANGED <<result, cancelled>>
  BY <1>1 DEF async_notify_new, LibSubmit, Allocated, TypeOK
<1>3. HandleFd(h)
  BY DEF FdInv
<1>4. ASSUME NEW x \in Handles, x # h PROVE HandleFd(x)'
  <2>1. SameOps(x)
    BY <1>2, <1>4 DEF SameOps, StarterOf, Allocated, Origins
  <2>2. fd'[x] = fd[x] /\ object'[x] = object[x]
    BY <1>4 DEF Start, Method, TypeOK
  <2>3. HandleFd(x)
    BY DEF FdInv
  <2> QED
    BY <1>2, <2>1, <2>2, <2>3, FdKept
<1>5. HandleFd(h)'
  <2>1. ASSUME NEW j \in Starters, Start(h, o, j) PROVE HandleFd(h)'
    <3>1. object[h] = "unborn" /\ object'[h] = "alive" /\ fd'[h] = TRUE
      BY <2>1 DEF Start, TypeOK
    <3>2. Fresh(h)
      BY <1>3, <3>1 DEF HandleFd
    <3>3. origin'[o] \in Starters
      BY <2>1 DEF Start, async_notify_new, TypeOK
    <3>4. \A y \in Ops : StarterOf(h, y)' <=> y = o
      BY <1>2, <3>2, <3>3 DEF Fresh, StarterOf, Allocated, Origins
    <3>5. OneStarter(h)'
      BY <3>4 DEF OneStarter
    <3>6. Usable(h)'
      BY <1>2, <3>4 DEF Usable
    <3>7. ~Closed(h)'
      BY <1>2, <3>2, <3>3 DEF Closed, Fresh, Allocated, Starters, Origins, Methods
    <3>8. ~cancelled'[h]
      BY <1>2, <3>2 DEF Fresh
    <3> QED
      BY <3>1, <3>5, <3>6, <3>7, <3>8 DEF HandleFd
  <2>2. ASSUME NEW j \in Methods, Method(h, o, j),
               fd'[h] <=> j # "CLOSE"
        PROVE  HandleFd(h)'
    <3>1. object'[h] = "alive" /\ fd[h]
      BY <2>2 DEF Method, CanUse
    <3>2. origin'[o] = j /\ j \notin Starters
      BY <2>2 DEF Method, async_notify_new, TypeOK, Methods, Starters
    <3>3. \A y \in Ops : StarterOf(h, y)' <=> StarterOf(h, y)
      BY <1>2, <3>2 DEF StarterOf, Origins
    <3>4. OneStarter(h)'
      BY <1>3, <3>3 DEF HandleFd, OneStarter
    <3>5. Usable(h) /\ ~cancelled[h] /\ ~Closed(h)
      BY <1>3, <3>1 DEF HandleFd
    <3>6. Usable(h)'
      BY <1>2, <3>3, <3>5 DEF Usable, StarterOf, Origins
    <3>7. Closed(h)' <=> j = "CLOSE"
      BY <1>2, <3>2, <3>5 DEF Closed
    <3> QED
      BY <1>2, <2>2, <3>1, <3>4, <3>5, <3>6, <3>7 DEF HandleFd
  <2>3. CASE Method(h, o, "CLOSE") /\ fd' = [fd EXCEPT ![h] = FALSE]
    BY <2>2, <2>3 DEF Methods, TypeOK
  <2>4. ASSUME NEW j \in {"READ", "WRITE"}, Method(h, o, j), UNCHANGED fd
        PROVE  HandleFd(h)'
    BY <2>2, <2>4 DEF Methods, Method
  <2> QED
    BY <2>1, <2>3, <2>4
<1> QED
  BY <1>4, <1>5 DEF FdInv

\* The final callback: of an operation that made a wrapper, it resets fd
\* unless the operation opened a file; of a method, it leaves fd alone.
LEMMA FinalFd ==
  ASSUME TypeOK, LifeInv, FdInv, NEW o \in Ops, NEW e \in BOOLEAN, NEW c \in BOOLEAN,
         FinalCallback(o), Enter(o, e, c),
         IF origin[o] \in Starters
         THEN c = ~(origin[o] \in {"OPEN", "CREATE"} /\ ~result[o])
         ELSE c = FALSE
  PROVE  FdInv'
<1> USE AsyncConstants
<1>1. /\ lib[o] = "ready" /\ lib'[o] = "done"
      /\ \A y \in Ops \ {o} : lib'[y] = lib[y]
      /\ UNCHANGED <<object, self, origin, result, cancelled>>
  BY DEF FinalCallback, Enter, notifyVars, TypeOK
<1>2. origin[o] # NULL
  BY <1>1 DEF LifeInv, RecordLife
<1>3. PICK h \in Handles : h = self[o]
  BY <1>2 DEF TypeOK
<1>4. /\ \A x \in Handles \ {h} : fd'[x] = fd[x]
      /\ fd'[h] <=> fd[h] /\ ~c
  BY <1>3 DEF Enter, TypeOK
<1>5. ASSUME NEW x \in Handles, x # h \/ origin[o] \notin Starters
      PROVE  HandleFd(x)'
  <2>1. SameOps(x)
    BY <1>1, <1>3, <1>5 DEF SameOps, StarterOf, Allocated
  <2>2. fd'[x] = fd[x]
    BY <1>4, <1>5 DEF Enter, TypeOK
  <2>3. HandleFd(x)
    BY DEF FdInv
  <2> QED
    BY <1>1, <2>1, <2>2, <2>3, FdKept
<1>6. ASSUME origin[o] \in Starters PROVE HandleFd(h)'
  <2>1. HandleFd(h)
    BY DEF FdInv
  <2>2. \A y \in Ops : StarterOf(h, y) <=> y = o
    BY <1>3, <1>6, <2>1 DEF HandleFd, OneStarter, StarterOf
  <2>3. \A y \in Ops : StarterOf(h, y)' <=> y = o
    BY <1>1, <2>2 DEF StarterOf
  <2>4. Usable(h)
    BY <1>1, <2>2 DEF Usable
  <2>5. Usable(h)' <=> origin[o] \in {"OPEN", "CREATE"} /\ ~result[o]
    BY <1>1, <2>3 DEF Usable
  <2>6. Usable(h)' <=> ~c
    BY <1>6, <2>5
  <2>7. Closed(h)' <=> Closed(h)
    BY <1>1 DEF Closed
  <2>8. object[h] # "unborn"
    BY <1>2, <1>3, <2>1 DEF HandleFd, Fresh, Allocated
  <2>9. OneStarter(h)'
    BY <2>3 DEF OneStarter
  <2> QED
    BY <1>1, <1>4, <2>1, <2>4, <2>6, <2>7, <2>8, <2>9 DEF HandleFd
<1> QED
  BY <1>5, <1>6 DEF FdInv

\* Every step keeps FdInv.
LEMMA FdStep == TypeOK /\ LifeInv /\ FdInv /\ [Next]_vars => FdInv'
<1> SUFFICES ASSUME TypeOK, LifeInv, FdInv, [Next]_vars PROVE FdInv'
  OBVIOUS
<1>0. ASSUME \A x \in Handles : SameOps(x), UNCHANGED <<fd, cancelled>>,
             \A x \in Handles : object'[x] = "unborn" => object[x] = "unborn"
      PROVE  FdInv'
  BY <1>0, FdKept DEF FdInv
<1>1. ASSUME NEW h \in Handles, NEW o \in Ops,
             \/ pygvfs_async_open(h, o)
             \/ pygvfs_async_create(h, o)
             \/ pygvfs_async_create_symbolic_link(h, o)
             \/ pygvfs_async_get_file_info(h, o)
             \/ pygvfs_async_load_directory(h, o)
             \/ pygvhandle_close(h, o)
             \/ pygvhandle_read(h, o)
             \/ pygvhandle_write(h, o)
      PROVE  FdInv'
  BY <1>1, Submits, StartFd
<1>2. UNCHANGED <<self, origin, lib, result>> => \A x \in Handles : SameOps(x)
  BY DEF SameOps, Allocated
<1>3. ASSUME NEW h \in Handles, NewHandle(h) \/ Drop(h) \/ Keep(h) PROVE FdInv'
  <2>1. UNCHANGED <<self, origin, lib, result, fd, cancelled>>
    BY <1>3 DEF NewHandle, Drop, Keep, notifyVars, libVars
  <2>2. \A x \in Handles : object'[x] = "unborn" => object[x] = "unborn"
    BY <1>3 DEF NewHandle, Drop, DecRef, Keep, TypeOK
  <2> QED
    BY <1>0, <1>2, <2>1, <2>2
<1>4. ASSUME NEW h \in Handles, pygvhandle_cancel(h) PROVE FdInv'
  <2>1. /\ UNCHANGED <<object, self, origin, lib, result>>
        /\ object[h] = "alive" /\ cancelled'[h] = TRUE /\ fd'[h] = FALSE
        /\ \A x \in Handles \ {h} : cancelled'[x] = cancelled[x] /\ fd'[x] = fd[x]
    BY <1>4 DEF pygvhandle_cancel, CanUse, notifyVars, TypeOK
  <2>2. HandleFd(h)'
    BY <2>1 DEF FdInv, HandleFd, OneStarter, StarterOf
  <2>3. ASSUME NEW x \in Handles, x # h PROVE HandleFd(x)'
    BY <1>2, <2>1, <2>3, FdKept DEF FdInv
  <2> QED
    BY <2>2, <2>3 DEF FdInv
<1>5. ASSUME NEW o \in Ops, Lib(o) PROVE FdInv'
  <2>1. /\ UNCHANGED <<object, fd, self, origin, cancelled>>
        /\ lib[o] # "done" /\ lib'[o] # "done"
        /\ \A y \in Ops \ {o} : lib'[y] = lib[y] /\ result'[y] = result[y]
    BY <1>5 DEF Lib, LibPage, LibFinish, LibDrop, objVars, notifyVars, TypeOK
  <2>2. \A x \in Handles : SameOps(x)
    BY <2>1 DEF SameOps, Allocated
  <2> QED
    BY <1>0, <2>1, <2>2
<1>6. ASSUME NEW o \in Ops, Dispatch(o) PROVE FdInv'
  <2> USE DEF TypeOK
  <2>0. result[o] \in BOOLEAN
    OBVIOUS
  <2>1. CASE callback_marshal(o)
    <3>1. PICK c \in BOOLEAN : c = CallbackClearsFd(origin[o], result[o])
      BY DEF CallbackClearsFd
    <3>2. FinalCallback(o) /\ Enter(o, result[o], c)
      BY <2>1, <3>1 DEF callback_marshal
    <3>3. IF origin[o] \in Starters
          THEN c = ~(origin[o] \in {"OPEN", "CREATE"} /\ ~result[o])
          ELSE c = FALSE
      BY <2>0, <2>1, <3>1 DEF callback_marshal, CallbackClearsFd, Starters
    <3> QED
      BY <2>0, <3>2, <3>3, FinalFd
  <2>2. CASE read_write_marshal(o)
    <3>1. origin[o] \notin Starters
      BY <2>2 DEF read_write_marshal, Starters
    <3> QED
      BY <2>0, <2>2, <3>1, FinalFd DEF read_write_marshal
  <2>3. CASE get_info_marshal(o)
    <3>1. origin[o] \in Starters /\ origin[o] \notin {"OPEN", "CREATE"}
      BY <2>3 DEF get_info_marshal, Starters
    <3> QED
      BY <2>3, <3>1, FinalFd DEF get_info_marshal
  <2>4. CASE load_dir_end(o)
    <3>1. origin[o] \in Starters /\ origin[o] \notin {"OPEN", "CREATE"}
      BY <2>4 DEF load_dir_end, Starters
    <3>2. result[o] = TRUE
      BY <2>0, <2>4 DEF load_dir_end, FinalCallback, LifeInv, RecordLife
    <3>3. FinalCallback(o) /\ Enter(o, TRUE, TRUE)
      BY <2>4, <3>2 DEF load_dir_end
    <3> QED
      BY <3>1, <3>3, FinalFd
  <2>5. CASE load_dir_page(o)
    <3>1. UNCHANGED <<object, fd, self, origin, lib, result, cancelled>>
      BY <2>5 DEF load_dir_page, Enter, notifyVars
    <3> QED
      BY <1>0, <1>2, <3>1
  <2> QED
    BY <1>6, <2>1, <2>2, <2>3, <2>4, <2>5 DEF Dispatch
<1>7. CASE Return
  <2>1. UNCHANGED <<self, origin, lib, result, fd, cancelled>>
    BY <1>7 DEF Return, libVars
  <2>2. \A x \in Handles : object'[x] = "unborn" => object[x] = "unborn"
    BY <1>7 DEF Return, DecRef, TypeOK
  <2> QED
    BY <1>0, <1>2, <2>1, <2>2
<1>8. CASE UNCHANGED vars
  BY <1>0, <1>2, <1>8 DEF vars, objVars, notifyVars, libVars
<1> QED
  BY <1>1, <1>3, <1>4, <1>5, <1>6, <1>7, <1>8 DEF Next, Python

\* FdInv holds in every reachable state.
LEMMA FdInvariant == Spec => []FdInv
<1>1. Init => FdInv
  <2> SUFFICES ASSUME Init, NEW h \in Handles PROVE HandleFd(h)
    BY DEF FdInv
  <2>1. \A o \in Ops : ~StarterOf(h, o) /\ origin[o] = NULL /\ origin[o] # "CLOSE"
    BY AsyncConstants DEF Init, StarterOf, Origins, Methods
  <2> QED
    BY <2>1 DEF Init, HandleFd, Fresh, OneStarter, Usable, Closed, Allocated
<1> QED
  BY <1>1, LifeInvariant, FdStep, PTL DEF Spec

\* A wrapper says it is open exactly while it is, whatever the order of
\* callbacks, closes and cancels.
THEOREM FdTracksHandleHolds == Spec => []FdTracksHandle
<1>1. FdInv => FdTracksHandle
  BY DEF FdInv, HandleFd, Usable, Closed, FdTracksHandle
<1> QED
  BY <1>1, FdInvariant, PTL

-----------------------------------------------------------------------------
(***************************************************************************)
(* What no step may do, and the contract.                                  *)
(***************************************************************************)

\* One step never sets the fd of a wrapper that was made before, and leaves
\* every wrapper whose memory is gone alone: nobody holds one.
LEMMA ReopenStep ==
  ASSUME TypeOK, LifeInv, RefsInv, [Next]_vars, NEW h \in Handles
  PROVE  /\ object[h] # "unborn" /\ ~fd[h] => ~fd'[h]
         /\ object[h] = "freed" => object'[h] = "freed" /\ rc'[h] = rc[h]
                                   /\ fd'[h] = fd[h]
<1> DEFINE Kept == /\ object[h] # "unborn" /\ ~fd[h] => ~fd'[h]
                   /\ object[h] = "freed" => object'[h] = "freed" /\ rc'[h] = rc[h]
                                             /\ fd'[h] = fd[h]
<1> SUFFICES Kept
  OBVIOUS
<1>0. Exact(h)
  BY DEF RefsInv
<1>1. object[h] = "freed" => ~held[h] /\ LiveOn(h) = {} /\ FramesOn(h) = {}
  BY <1>0, DeadUnheld
<1>2. stack # <<>> => Len(stack) \in FramesOn(Top.self)
  BY DEF FramesOn, Frames, Top, TypeOK
<1>3. ASSUME NEW x \in Handles, NEW o \in Ops,
             \/ \E k \in Starters : Start(x, o, k)
             \/ Method(x, o, "CLOSE") /\ fd' = [fd EXCEPT ![x] = FALSE]
             \/ \E k \in {"READ", "WRITE"} : Method(x, o, k) /\ UNCHANGED fd
      PROVE  Kept
  <2>1. CASE x = h
    BY <1>3, <2>1 DEF Start, Method, CanUse, TypeOK
  <2>2. CASE x # h
    BY <1>3, <2>2 DEF Start, Method, TypeOK
  <2> QED
    BY <2>1, <2>2
<1>4. ASSUME NEW x \in Handles,
             NewHandle(x) \/ pygvhandle_cancel(x) \/ Drop(x) \/ Keep(x)
      PROVE  Kept
  <2>1. CASE NewHandle(x)
    BY <2>1 DEF NewHandle, TypeOK
  <2>2. CASE pygvhandle_cancel(x)
    BY <2>2 DEF pygvhandle_cancel, CanUse, TypeOK
  <2>3. CASE Drop(x)
    <3>1. object[h] = "freed" => x # h
      BY <1>1, <2>3 DEF Drop
    <3> QED
      BY <2>3, <3>1 DEF Drop, DecRef, TypeOK
  <2>4. CASE Keep(x)
    <3>1. object[h] = "freed" => x # h
      BY <1>1, <1>2, <2>4 DEF Keep
    <3> QED
      BY <2>4, <3>1 DEF Keep, TypeOK
  <2> QED
    BY <1>4, <2>1, <2>2, <2>3, <2>4
<1>5. ASSUME NEW o \in Ops, Lib(o) PROVE Kept
  BY <1>5 DEF Lib, LibPage, LibFinish, LibDrop, objVars
<1>6. ASSUME NEW o \in Ops, Dispatch(o) PROVE Kept
  <2>1. Live(o)
    BY <1>6, DispatchEnters
  <2>2. PICK e, c \in BOOLEAN : Enter(o, e, c)
    BY <1>6, DispatchEnters
  <2>3. o \in LiveOn(self[o])
    BY <2>1 DEF LiveOn
  <2>4. object[h] = "freed" => self[o] # h
    BY <1>1, <2>3
  <2> QED
    BY <2>2, <2>4 DEF Enter, TypeOK
<1>7. CASE Return
  <2>1. object[h] = "freed" => Top.self # h
    BY <1>1, <1>2, <1>7 DEF Return
  <2>2. fd' = fd
    BY <1>7 DEF Return
  <2>3. Top.self # h => object'[h] = object[h] /\ rc'[h] = rc[h]
    BY <1>7 DEF Return, DecRef, TypeOK
  <2> QED
    BY <2>1, <2>2, <2>3
<1>8. CASE UNCHANGED vars
  BY <1>8 DEF vars, objVars
<1> QED
  BY <1>3, <1>4, <1>5, <1>6, <1>7, <1>8, Submits DEF Next, Python

\* Once fd was reset no late callback sets it again, and no step writes to a
\* wrapper whose memory is gone.
THEOREM NeverReopenedHolds == Spec => NeverReopened
<1>1. TypeOK /\ LifeInv /\ RefsInv /\ [Next]_vars =>
          [\A h \in Handles :
             /\ object[h] # "unborn" /\ ~fd[h] => ~fd'[h]
             /\ object[h] = "freed" => object'[h] = "freed" /\ rc'[h] = rc[h]
                                       /\ fd'[h] = fd[h]]_vars
  BY ReopenStep
<1> QED
  BY <1>1, LifeInvariant, RefsInvariant, PTL DEF Spec, NeverReopened

\* The contract's view of all operations.
Phases == [o \in Ops |-> Phase(o)]

\* A step that changes the phase of one operation only.
LEMMA OnePhase ==
  ASSUME NEW o \in Ops, NEW p, Phase(o)' = p,
         \A y \in Ops \ {o} : Phase(y)' = Phase(y)
  PROVE  Phases' = [Phases EXCEPT ![o] = p]
BY DEF Phases

\* Every step is a step of the contract or leaves what the contract sees
\* alone: an operation is submitted to a handle that is not cancelled, is
\* called once, gives its memory back after it, and is abandoned only after
\* a cancel.
LEMMA ContractStep ==
  ASSUME TypeOK, LifeInv, FdInv, [Next]_vars
  PROVE  [Contract!CNext]_(Contract!cvars)
<1> USE AsyncConstants
<1>0. ASSUME \A y \in Ops : Phase(y)' = Phase(y), UNCHANGED <<self, cancelled>>
      PROVE  UNCHANGED Contract!cvars
  BY <1>0 DEF Contract!cvars
<1>1. ASSUME UNCHANGED <<origin, frees, lib>>
      PROVE  \A y \in Ops : Phase(y)' = Phase(y)
  BY <1>1 DEF Phase, Allocated
<1>2. ASSUME NEW h \in Handles, NEW o \in Ops,
             \/ \E k \in Starters : Start(h, o, k)
             \/ Method(h, o, "CLOSE") /\ fd' = [fd EXCEPT ![h] = FALSE]
             \/ \E k \in {"READ", "WRITE"} : Method(h, o, k) /\ UNCHANGED fd
      PROVE  Contract!Submit(o, h)
  <2>1. PICK k \in Origins : async_notify_new(h, o, k) /\ LibSubmit(o)
    BY <1>2 DEF Start, Method, Origins, Methods
  <2>2. /\ origin[o] = NULL /\ frees[o] = 0
        /\ origin'[o] # NULL /\ lib'[o] = "running"
        /\ \A y \in Ops \ {o} : origin'[y] = origin[y] /\ lib'[y] = lib[y]
        /\ self' = [self EXCEPT ![o] = h]
        /\ UNCHANGED <<frees, cancelled>>
    BY <2>1 DEF async_notify_new, LibSubmit, Allocated, TypeOK, LifeInv, RecordLife
  <2>3. Phase(o) = "idle" /\ Phase(o)' = "pending"
    BY <2>2 DEF Phase, Allocated
  <2>4. \A y \in Ops \ {o} : Phase(y)' = Phase(y)
    BY <2>2 DEF Phase, Allocated
  <2>5. Phases' = [Phases EXCEPT ![o] = "pending"]
    BY <2>3, <2>4, OnePhase
  <2>6. object[h] = "unborn" \/ fd[h]
    BY <1>2 DEF Start, Method
  <2>7. ~cancelled[h]
    BY <2>6 DEF FdInv, HandleFd, Fresh
  <2> QED
    BY <2>2, <2>3, <2>5, <2>7 DEF Contract!Submit, Phases
<1>3. ASSUME NEW h \in Handles, pygvhandle_cancel(h)
      PROVE  Contract!Stop(h)
  <2>1. \A y \in Ops : Phase(y)' = Phase(y)
    BY <1>1, <1>3 DEF pygvhandle_cancel, notifyVars
  <2> QED
    BY <1>3, <2>1 DEF Contract!Stop, pygvhandle_cancel, notifyVars
<1>4. ASSUME NEW h \in Handles, NewHandle(h) \/ Drop(h) \/ Keep(h)
      PROVE  UNCHANGED Contract!cvars
  BY <1>0, <1>1, <1>4 DEF NewHandle, Drop, Keep, notifyVars, libVars
<1>5. ASSUME NEW o \in Ops, LibPage(o) PROVE UNCHANGED Contract!cvars
  BY <1>0, <1>1, <1>5 DEF LibPage, notifyVars
<1>6. ASSUME NEW o \in Ops, LibFinish(o) PROVE UNCHANGED Contract!cvars
  <2>1. \A y \in Ops : Phase(y)' = Phase(y)
    BY <1>6 DEF LibFinish, notifyVars, Phase, Allocated, TypeOK
  <2> QED
    BY <1>0, <1>6, <2>1 DEF LibFinish, notifyVars
<1>7. ASSUME NEW o \in Ops, LibDrop(o) PROVE Contract!Abandon(o)
  <2>1. /\ origin[o] # NULL /\ frees[o] = 0
        /\ lib[o] \in {"running", "ready"} /\ lib'[o] = "dropped"
        /\ \A y \in Ops \ {o} : lib'[y] = lib[y]
        /\ cancelled[self[o]]
        /\ UNCHANGED <<self, origin, frees, cancelled>>
    BY <1>7 DEF LibDrop, notifyVars, TypeOK, LifeInv, RecordLife
  <2>2. Phase(o) = "pending" /\ Phase(o)' = "abandoned"
    BY <2>1 DEF Phase, Allocated
  <2>3. \A y \in Ops \ {o} : Phase(y)' = Phase(y)
    BY <2>1 DEF Phase, Allocated
  <2>4. Phases' = [Phases EXCEPT ![o] = "abandoned"]
    BY <2>2, <2>3, OnePhase
  <2> QED
    BY <2>1, <2>2, <2>4 DEF Contract!Abandon, Phases
<1>8. ASSUME NEW o \in Ops, FinalCallback(o), UNCHANGED notifyVars
      PROVE  Contract!Call(o)
  <2>1. /\ origin[o] # NULL /\ frees[o] = 0
        /\ lib[o] = "ready" /\ lib'[o] = "done"
        /\ \A y \in Ops \ {o} : lib'[y] = lib[y]
        /\ UNCHANGED <<self, origin, frees, cancelled>>
    BY <1>8 DEF FinalCallback, notifyVars, TypeOK, LifeInv, RecordLife
  <2>2. Phase(o) = "pending" /\ Phase(o)' = "calling"
    BY <2>1 DEF Phase, Allocated
  <2>3. \A y \in Ops \ {o} : Phase(y)' = Phase(y)
    BY <2>1 DEF Phase, Allocated
  <2>4. Phases' = [Phases EXCEPT ![o] = "calling"]
    BY <2>2, <2>3, OnePhase
  <2> QED
    BY <2>1, <2>2, <2>4 DEF Contract!Call, Phases
<1>9. ASSUME NEW o \in Ops, Dispatch(o)
      PROVE  Contract!Call(o) \/ UNCHANGED Contract!cvars
  <2>1. CASE load_dir_page(o)
    BY <1>0, <1>1, <2>1 DEF load_dir_page, Enter, notifyVars
  <2>2. CASE ~load_dir_page(o)
    BY <1>8, <1>9, <2>2 DEF Dispatch, callback_marshal, read_write_marshal,
       get_info_marshal, load_dir_end, Enter
  <2> QED
    BY <2>1, <2>2
<1>10. CASE Return
  <2>1. PICK o \in Ops : o = Top.op
    BY <1>10, ReturnFrames DEF Frame
  <2>2. /\ UNCHANGED <<self, origin, lib, cancelled>>
        /\ frees' = IF FreesNotify(Top) THEN [frees EXCEPT ![o] = @ + 1] ELSE frees
    BY <1>10, <2>1 DEF Return, libVars
  <2>3. CASE FreesNotify(Top)
    <3>1. origin[o] # NULL /\ frees[o] = 0 /\ lib[o] = "done"
      BY <1>10, <2>1, <2>3, ReturnFrames DEF LifeInv, FrameLife, Top
    <3>2. frees'[o] = 1 /\ \A y \in Ops \ {o} : frees'[y] = frees[y]
      BY <2>2, <2>3, <3>1 DEF TypeOK
    <3>3. Phase(o) = "calling" /\ Phase(o)' = "done"
      BY <2>2, <3>1, <3>2 DEF Phase, Allocated
    <3>4. \A y \in Ops \ {o} : Phase(y)' = Phase(y)
      BY <2>2, <3>2 DEF Phase, Allocated
    <3>5. Phases' = [Phases EXCEPT ![o] = "done"]
      BY <3>3, <3>4, OnePhase
    <3>6. Contract!Finish(o)
      BY <2>2, <3>3, <3>5 DEF Contract!Finish, Phases
    <3> QED
      BY <3>6 DEF Contract!CNext
  <2>4. CASE ~FreesNotify(Top)
    BY <1>0, <1>1, <2>2, <2>4
  <2> QED
    BY <2>3, <2>4
<1>11. CASE UNCHANGED vars
  BY <1>0, <1>1, <1>11 DEF vars, notifyVars, libVars
<1> QED
  BY <1>2, <1>3, <1>4, <1>5, <1>6, <1>7, <1>9, <1>10, <1>11, Submits
     DEF Next, Python, Lib, Contract!CNext

\* Every operation of the wrapper keeps the contract: one final callback, then
\* its memory is given back; it is abandoned only after a cancel.
THEOREM ContractImplemented == Spec => ImplementsContract
<1>1. Init => Contract!CInit
  BY DEF Init, Contract!CInit, Phase, Allocated
<1> QED
  BY <1>1, LifeInvariant, FdInvariant, ContractStep, PTL
     DEF Spec, ImplementsContract, Contract!CSpec

=============================================================================
