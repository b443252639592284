------------------------- MODULE PythonMethodProofs -------------------------
(***************************************************************************)
(* Proofs about PythonMethod, for any number of threads, handles and       *)
(* methods and any depth of nesting: Python runs only on the thread that   *)
(* has the GIL, the GIL is given back, and what a handler was lent, or     *)
(* keeps in a handle, stays alive.                                         *)
(***************************************************************************)
EXTENDS PythonMethod, TLAPS

\* The stack of t after a push, s before it.
Pushed(s, r, f) ==
    /\ r \in Seq(Frame) /\ Len(r) = Len(s) + 1
    /\ r[Len(s) + 1] = f
    /\ \A i \in 1 .. Len(s) : r[i] = s[i]

\* The same after the innermost call changed.
Changed(s, r, f) ==
    /\ r \in Seq(Frame) /\ Len(r) = Len(s) /\ s # <<>>
    /\ r[Len(s)] = f
    /\ \A i \in 1 .. Len(s) - 1 : r[i] = s[i]

\* The same after the innermost call is gone: Python code that had called
\* without the GIL wants it back.
Popped(s, r) ==
    /\ r \in Seq(Frame) /\ Len(r) = Len(s) - 1 /\ s # <<>>
    /\ \A i \in 1 .. Len(s) - 1 :
          /\ r[i].op = s[i].op /\ r[i].on = s[i].on
          /\ r[i].state = s[i].state
          /\ r[i].info = s[i].info /\ r[i].context = s[i].context
          /\ \/ r[i].phase = s[i].phase
                /\ ~(i = Len(s) - 1 /\ s[i].phase = "released")
             \/ /\ i = Len(s) - 1
                /\ s[i].phase = "released" /\ r[i].phase = "resuming"

Others(t) == \A s \in Threads : s # t => stack'[s] = stack[s]

\* What Push does.
LEMMA PushEffect ==
    ASSUME TypeOK, NEW t \in Threads, NEW f \in Frame, stack' = Push(t, f)
    PROVE  /\ Pushed(stack[t], stack'[t], f) /\ Others(t)
           /\ stack' \in [Threads -> Seq(Frame)]
BY DEF TypeOK, Push, Pushed, Others

\* What SetTop does.
LEMMA SetTopEffect ==
    ASSUME TypeOK, NEW t \in Threads, Busy(t), NEW f \in Frame,
           stack' = SetTop(t, f)
    PROVE  /\ Changed(stack[t], stack'[t], f) /\ Others(t)
           /\ stack' \in [Threads -> Seq(Frame)]
<1>1. stack[t] \in Seq(Frame) /\ Len(stack[t]) \in 1 .. Len(stack[t])
  BY DEF TypeOK, Busy
<1>2. PICK r : r = [stack[t] EXCEPT ![Len(stack[t])] = f]
  OBVIOUS
<1>3. stack' = [stack EXCEPT ![t] = r]
  BY <1>2 DEF SetTop
<1>4. /\ r \in Seq(Frame) /\ Len(r) = Len(stack[t]) /\ r[Len(stack[t])] = f
      /\ \A i \in 1 .. Len(stack[t]) - 1 : r[i] = stack[t][i]
  BY <1>1, <1>2
<1> QED
  BY <1>3, <1>4 DEF TypeOK, Changed, Others, Busy

\* What LeaveCall does.
LEMMA LeaveEffect ==
    ASSUME TypeOK, NEW t \in Threads, LeaveCall(t)
    PROVE  /\ Popped(stack[t], stack'[t]) /\ Others(t)
           /\ stack' \in [Threads -> Seq(Frame)]
<1> DEFINE s == stack[t]
<1>1. s \in Seq(Frame) /\ s # <<>> /\ Len(s) \in Nat /\ Len(s) > 0
  BY DEF TypeOK, LeaveCall, Busy
<1>2. PICK r : r = [i \in 1 .. Len(s) - 1 |->
                      IF i = Len(s) - 1 /\ s[i].phase = "released"
                      THEN [s[i] EXCEPT !.phase = "resuming"] ELSE s[i]]
  OBVIOUS
<1>3. stack' = [stack EXCEPT ![t] = r]
  BY <1>2 DEF LeaveCall
<1>4. ASSUME NEW i \in 1 .. Len(s) - 1
      PROVE  /\ r[i] \in Frame
             /\ r[i].op = s[i].op /\ r[i].on = s[i].on
             /\ r[i].state = s[i].state
             /\ r[i].info = s[i].info /\ r[i].context = s[i].context
             /\ \/ r[i].phase = s[i].phase
                   /\ ~(i = Len(s) - 1 /\ s[i].phase = "released")
                \/ /\ i = Len(s) - 1
                   /\ s[i].phase = "released" /\ r[i].phase = "resuming"
  <2>1. s[i] \in Frame
    BY <1>1
  <2>2. CASE i = Len(s) - 1 /\ s[i].phase = "released"
    <3>1. r[i] = [s[i] EXCEPT !.phase = "resuming"]
      BY <1>2, <2>2
    <3> QED
      BY <2>1, <2>2, <3>1 DEF Frame
  <2>3. CASE ~(i = Len(s) - 1 /\ s[i].phase = "released")
    BY <1>2, <2>1, <2>3
  <2> QED
    BY <2>2, <2>3
<1> HIDE DEF s
<1>5. r \in Seq(Frame) /\ Len(r) = Len(s) - 1
  <2>1. PICK n \in Nat : n = Len(s) - 1
    BY <1>1
  <2>2. r \in [1 .. n -> Frame]
    BY <1>2, <1>4, <2>1
  <2> QED
    BY <2>1, <2>2
<1>6. Popped(s, r)
  BY <1>1, <1>4, <1>5 DEF Popped
<1> QED
  BY <1>3, <1>5, <1>6 DEF TypeOK, Others, s

-----------------------------------------------------------------------------
(***************************************************************************)
(* Steps: the handlers come in three kinds.                                *)
(***************************************************************************)

\* Some thread's handler is called.
Called(t) ==
    \/ \E op \in Openers, h \in Handles : Opener(t, op, h)
    \/ \E op \in HandleOps, h \in Handles : HandleOp(t, op, h)
    \/ \E op \in UriOps : UriOp(t, op)

\* A do_... handler is one of the three kinds.
LEMMA HandlerIsCalled ==
    ASSUME NEW t \in Threads, Handler(t)
    PROVE  Called(t)
<1>1. CASE \E h \in Handles :
             \/ do_open(t, h) \/ do_create(t, h) \/ do_open_directory(t, h)
  BY <1>1, Zenon DEF Called, Openers, do_open, do_create, do_open_directory
<1>2. CASE \E h \in Handles :
             \/ do_close(t, h) \/ do_close_directory(t, h) \/ do_read(t, h)
             \/ do_write(t, h) \/ do_seek(t, h) \/ do_tell(t, h)
             \/ do_truncate_handle(t, h) \/ do_read_directory(t, h)
             \/ do_get_file_info_from_handle(t, h) \/ do_file_control(t, h)
  <2>1. {"close", "close_directory", "read", "write", "seek", "tell",
         "truncate_handle", "read_directory", "get_file_info_from_handle",
         "file_control"} \subseteq HandleOps
    BY DEF HandleOps, DirectoryOps, FileOps
  <2>2. \E op \in HandleOps, h \in Handles : HandleOp(t, op, h)
    BY <1>2, <2>1
       DEF do_close, do_close_directory, do_read, do_write, do_seek, do_tell,
           do_truncate_handle, do_read_directory,
           do_get_file_info_from_handle, do_file_control
  <2> QED
    BY <2>2 DEF Called
<1>3. CASE \/ do_get_file_info(t) \/ do_is_local(t) \/ do_make_directory(t)
           \/ do_find_directory(t) \/ do_remove_directory(t) \/ do_move(t)
           \/ do_unlink(t) \/ do_check_same_fs(t) \/ do_set_file_info(t)
           \/ do_truncate(t) \/ do_create_symbolic_link(t)
  <2>1. \E op \in UriOps : UriOp(t, op)
    BY <1>3
       DEF UriOps, do_get_file_info, do_is_local, do_make_directory,
           do_find_directory, do_remove_directory, do_move, do_unlink,
           do_check_same_fs, do_set_file_info, do_truncate,
           do_create_symbolic_link
  <2> QED
    BY <2>1 DEF Called
<1> QED
  BY <1>1, <1>2, <1>3 DEF Handler

\* A new call's frame.
LEMMA NewFrameType ==
    ASSUME NEW op \in Ops \cup {"vfs_module_init"},
           NEW x \in Handles \cup Methods \cup {NULL}
    PROVE  /\ NewFrame(op, x) \in Frame
           /\ [NewFrame(op, x) EXCEPT !.phase = "loader"] \in Frame
           /\ NewFrame(op, x).op = op /\ NewFrame(op, x).on = x
           /\ NewFrame(op, x).phase = "ensure"
           /\ NewFrame(op, x).info > 0 /\ NewFrame(op, x).context
<1>1. (IF op \in RefsInfo THEN 2 ELSE 1) \in {1, 2}
  OBVIOUS
<1>2. PICK k \in {1, 2} : k = IF op \in RefsInfo THEN 2 ELSE 1
  BY <1>1
<1>3. NewFrame(op, x) = [op |-> op, on |-> x, phase |-> "ensure",
                         state |-> "LOCKED", info |-> k, context |-> TRUE,
                         result |-> "OK"]
  BY <1>2 DEF NewFrame
<1> HIDE DEF NewFrame
<1>4. NewFrame(op, x) \in Frame
  BY <1>3 DEF Frame, Results
<1>5. [NewFrame(op, x) EXCEPT !.phase = "loader"] \in Frame
  BY <1>4, Zenon DEF Frame
<1> QED
  BY <1>3, <1>4, <1>5

\* What a handler returns is a result.
LEMMA ResultType ==
    ASSUME NEW op, NEW reply \in Replies
    PROVE  Result(op, reply) \in Results
BY DEF Result, Results, Replies

\* t's innermost call goes to phase p as f, about the same thing as before and
\* with the same memory.
Moved(t, f, p) ==
    /\ f \in Frame /\ Changed(stack[t], stack'[t], f) /\ Others(t)
    /\ stack' \in [Threads -> Seq(Frame)]
    /\ f.op = Top(t).op /\ f.on = Top(t).on
    /\ f.info = Top(t).info /\ (Top(t).context => f.context)
    /\ f.phase = p

\* The innermost call is a frame.
LEMMA TopType ==
    ASSUME TypeOK, NEW t \in Threads, Busy(t)
    PROVE  /\ stack[t] \in Seq(Frame) /\ Len(stack[t]) \in Nat
           /\ Len(stack[t]) > 0 /\ Top(t) \in Frame
BY DEF TypeOK, Busy, Top

\* What Ensure does to the stack.
LEMMA EnsureEffect ==
    ASSUME TypeOK, NEW t \in Threads, Ensure(t)
    PROVE  \E f : /\ Moved(t, f, "python")
                  /\ f.state = IF current = t THEN "LOCKED" ELSE "UNLOCKED"
<1>1. Busy(t)
  BY DEF Ensure
<1>2. PICK st \in {"LOCKED", "UNLOCKED"} :
         st = IF current = t THEN "LOCKED" ELSE "UNLOCKED"
  OBVIOUS
<1>3. PICK f : f = [Top(t) EXCEPT !.phase = "python", !.state = st]
  OBVIOUS
<1>4. f \in Frame
  BY <1>1, <1>3, TopType, Zenon DEF Frame
<1>5. /\ f.op = Top(t).op /\ f.on = Top(t).on /\ f.info = Top(t).info
      /\ f.context = Top(t).context /\ f.phase = "python" /\ f.state = st
  BY <1>1, <1>3, TopType DEF Frame
<1>6. stack' = SetTop(t, f)
  BY <1>2, <1>3 DEF Ensure
<1> QED
  BY <1>1, <1>2, <1>4, <1>5, <1>6, SetTopEffect DEF Moved

\* What Yield and Resume do to the stack.
LEMMA SwitchEffect ==
    ASSUME TypeOK, NEW t \in Threads, Yield(t) \/ Resume(t)
    PROVE  \E f : /\ Moved(t, f, IF gil = t THEN "released" ELSE "python")
                  /\ f.state = Top(t).state
<1>0. gil = t <=> Yield(t)
  BY MethodConstants DEF Yield, Resume
<1>1. Busy(t)
  BY DEF Yield, Resume
<1>2. PICK p \in {"released", "python"} :
         p = IF gil = t THEN "released" ELSE "python"
  OBVIOUS
<1>3. PICK f : f = [Top(t) EXCEPT !.phase = p]
  OBVIOUS
<1>4. f \in Frame
  BY <1>1, <1>3, TopType, Zenon DEF Frame
<1>5. /\ f.op = Top(t).op /\ f.on = Top(t).on /\ f.info = Top(t).info
      /\ f.context = Top(t).context /\ f.phase = p /\ f.state = Top(t).state
  BY <1>1, <1>3, TopType DEF Frame
<1>6. stack' = SetTop(t, f)
  BY <1>0, <1>2, <1>3 DEF Yield, Resume
<1> QED
  BY <1>1, <1>2, <1>4, <1>5, <1>6, SetTopEffect DEF Moved

\* What Return does to the stack.
LEMMA ReturnEffect ==
    ASSUME TypeOK, NEW t \in Threads, Return(t)
    PROVE  \E f : Moved(t, f, "done")
<1>1. Busy(t)
  BY DEF Return
<1>2. PICK reply \in Replies :
         stack' = SetTop(t, [Top(t) EXCEPT
                !.phase = "done",
                !.result = Result(Top(t).op, reply),
                !.info = IF ArgsReleased(Top(t).op) /\ Top(t).op \in WrapsInfo
                         THEN @ - 1 ELSE @,
                !.context = ~(ArgsReleased(Top(t).op)
                              /\ Top(t).op \in WrapsContext)])
  BY DEF Return
<1>3. PICK res \in Results : res = Result(Top(t).op, reply)
  BY ResultType
<1>4. PICK f : f = [Top(t) EXCEPT !.phase = "done", !.result = res,
                                  !.info = Top(t).info, !.context = TRUE]
  OBVIOUS
<1>5. stack' = SetTop(t, f)
  BY <1>2, <1>3, <1>4 DEF ArgsReleased
<1>6. f \in Frame
  BY <1>1, <1>4, TopType, Zenon DEF Frame
<1>7. /\ f.op = Top(t).op /\ f.on = Top(t).on /\ f.info = Top(t).info
      /\ f.context = TRUE /\ f.phase = "done"
  BY <1>1, <1>4, TopType DEF Frame
<1> QED
  BY <1>1, <1>5, <1>6, <1>7, SetTopEffect DEF Moved

\* What the two ways out of vfs_module_init do to the stack.
LEMMA InitEffect ==
    ASSUME TypeOK, NEW t \in Threads, InitSucceeds(t) \/ InitFails(t)
    PROVE  \E f : Moved(t, f, "done")
<1>1. Busy(t)
  BY DEF InitSucceeds, InitFails
<1>2. PICK res \in Results :
         stack' = SetTop(t, [Top(t) EXCEPT !.phase = "done", !.result = res])
  <2>1. CASE InitSucceeds(t)
    <3>1. [Top(t) EXCEPT !.phase = "done"]
            = [Top(t) EXCEPT !.phase = "done", !.result = Top(t).result]
      BY <1>1, TopType DEF Frame
    <3>2. Top(t).result \in Results
      BY <1>1, TopType DEF Frame
    <3> QED
      BY <2>1, <3>1, <3>2 DEF InitSucceeds
  <2>2. CASE InitFails(t)
    BY <2>2 DEF InitFails, Results
  <2> QED
    BY <2>1, <2>2
<1>3. PICK f : f = [Top(t) EXCEPT !.phase = "done", !.result = res]
  OBVIOUS
<1>4. f \in Frame
  BY <1>1, <1>3, TopType, Zenon DEF Frame
<1>5. /\ f.op = Top(t).op /\ f.on = Top(t).on /\ f.info = Top(t).info
      /\ f.context = Top(t).context /\ f.phase = "done"
  BY <1>1, <1>3, TopType DEF Frame
<1> QED
  BY <1>1, <1>2, <1>3, <1>4, <1>5, SetTopEffect DEF Moved

\* The call t enters with frame f.
Entered(t, f) ==
    /\ f \in Frame /\ Pushed(stack[t], stack'[t], f) /\ Others(t)
    /\ stack' \in [Threads -> Seq(Frame)]
    /\ f.info > 0 /\ f.context
    /\ f.phase \in {"ensure", "loader"}

\* What a call of a handler does to the stack.
LEMMA CallEffect ==
    ASSUME TypeOK, NEW t \in Threads, NEW op \in Ops,
           NEW x \in Handles \cup {NULL}, Call(t, op, x)
    PROVE  \E f : /\ Entered(t, f)
                  /\ f.op = op /\ f.on = x /\ f.phase = "ensure"
<1>1. PICK f : f = NewFrame(op, x)
  OBVIOUS
<1>2. stack' = Push(t, f)
  BY <1>1 DEF Call
<1>a. /\ op \in Ops \cup {"vfs_module_init"}
      /\ x \in Handles \cup Methods \cup {NULL}
  OBVIOUS
<1>b. /\ NewFrame(op, x) \in Frame
      /\ NewFrame(op, x).op = op /\ NewFrame(op, x).on = x
      /\ NewFrame(op, x).phase = "ensure"
      /\ NewFrame(op, x).info > 0 /\ NewFrame(op, x).context
  BY <1>a, NewFrameType, Zenon
<1>3. f \in Frame /\ f.op = op /\ f.on = x /\ f.phase = "ensure" /\ f.info > 0
      /\ f.context
  BY <1>1, <1>b, Zenon
<1> QED
  BY <1>2, <1>3, PushEffect DEF Entered

\* What LoadMethod does to the stack.
LEMMA LoadEffect ==
    ASSUME TypeOK, NEW t \in Threads, NEW m \in Methods, LoadMethod(t, m)
    PROVE  \E f : /\ Entered(t, f)
                  /\ f.op = "vfs_module_init" /\ f.on = m
                  /\ f.phase = "loader"
<1>1. PICK g : g = NewFrame("vfs_module_init", m)
  OBVIOUS
<1>2. PICK f : f = [g EXCEPT !.phase = "loader"]
  OBVIOUS
<1>3. stack' = Push(t, f)
  BY <1>1, <1>2 DEF LoadMethod
<1>4. /\ g \in Frame /\ g.op = "vfs_module_init" /\ g.on = m /\ g.phase = "ensure"
      /\ g.info > 0 /\ g.context /\ [g EXCEPT !.phase = "loader"] \in Frame
  BY <1>1, NewFrameType
<1>5. /\ f \in Frame /\ f.op = "vfs_module_init" /\ f.on = m
      /\ f.phase = "loader" /\ f.info > 0 /\ f.context
  BY <1>2, <1>4 DEF Frame
<1> QED
  BY <1>3, <1>5, PushEffect DEF Entered

\* What vfs_module_init does to the stack: it finds the name registered, waits
\* for the GIL, or starts the interpreter and has it.
LEMMA ModuleEffect ==
    ASSUME TypeOK, NEW t \in Threads, vfs_module_init(t)
    PROVE  \E p \in {"done", "ensure", "python"} :
              /\ \E f : Moved(t, f, p)
              /\ p # "python" => UNCHANGED <<gil, current, interpreter>>
              /\ p = "python" => /\ ~interpreter /\ interpreter' = TRUE
                                 /\ gil' = t /\ current' = t
              /\ p = "ensure" => interpreter
              /\ p = "done" => registry[Top(t).on] = "registered"
<1>1. Busy(t)
  BY DEF vfs_module_init
<1>2. PICK p \in {"done", "ensure", "python"} :
              /\ stack' = SetTop(t, [Top(t) EXCEPT !.phase = p])
              /\ p # "python" => UNCHANGED <<gil, current, interpreter>>
              /\ p = "python" => /\ ~interpreter /\ interpreter' = TRUE
                                 /\ gil' = t /\ current' = t
              /\ p = "ensure" => interpreter
              /\ p = "done" => registry[Top(t).on] = "registered"
  BY DEF vfs_module_init
<1>3. PICK f : f = [Top(t) EXCEPT !.phase = p]
  OBVIOUS
<1>4. f \in Frame
  BY <1>1, <1>3, TopType, Zenon DEF Frame
<1>5. /\ f.op = Top(t).op /\ f.on = Top(t).on /\ f.info = Top(t).info
      /\ f.context = Top(t).context /\ f.phase = p
  BY <1>1, <1>3, TopType DEF Frame
<1>6. Moved(t, f, p)
  BY <1>1, <1>2, <1>3, <1>4, <1>5, SetTopEffect DEF Moved
<1> QED
  BY <1>2, <1>6

-----------------------------------------------------------------------------
(***************************************************************************)
(* What the handlers keep alive.                                           *)
(***************************************************************************)

\* A call works on what its operation is about.
CallsTyped ==
    \A t \in Threads : \A i \in DOMAIN stack[t] :
        /\ FrameOf(t, i).op \in Openers \cup HandleOps =>
              FrameOf(t, i).on \in Handles
        /\ FrameOf(t, i).op = "vfs_module_init" =>
              FrameOf(t, i).on \in Methods
        /\ FrameOf(t, i).phase = "loader" =>
              FrameOf(t, i).op = "vfs_module_init"

\* A handle that was opened, closed since or not, has its object.
OpenedAlive ==
    \A h \in Handles :
        handle[h] \in {"file", "directory", "closed"} => refs[h] > 0

\* The inductive invariant for what is kept alive.
AliveInv == CallsTyped /\ OpenedAlive /\ HandleObjectAlive /\ CallerMemoryAlive

\* A call entered keeps what is alive, when it is about the right thing.
LEMMA EnteredAlive ==
    ASSUME TypeOK, AliveInv, NEW t \in Threads, NEW f, Entered(t, f),
           f.op \in Openers \cup HandleOps => f.on \in Handles,
           f.op = "vfs_module_init" => f.on \in Methods,
           f.op \in HandleOps => refs[f.on] > 0,
           f.phase = "loader" => f.op = "vfs_module_init",
           refs' = refs
    PROVE  /\ CallsTyped' /\ CallerMemoryAlive'
           /\ \A s \in Threads : \A i \in DOMAIN stack'[s] :
                 stack'[s][i].op \in HandleOps => refs'[stack'[s][i].on] > 0
<1>1. ASSUME NEW s \in Threads, NEW i \in DOMAIN stack'[s]
      PROVE  stack'[s][i] = f \/ (i \in DOMAIN stack[s] /\ stack'[s][i] = stack[s][i])
  <2>1. stack[s] \in Seq(Frame) /\ stack'[s] \in Seq(Frame)
    BY DEF Entered, TypeOK
  <2>2. CASE s = t
    <3>1. Pushed(stack[s], stack'[s], f)
      BY <2>2 DEF Entered
    <3> QED
      BY <2>1, <3>1 DEF Pushed
  <2>3. CASE s # t
    BY <2>3 DEF Entered, Others
  <2> QED
    BY <2>2, <2>3
<1>2. CallsTyped'
  BY <1>1 DEF AliveInv, CallsTyped, FrameOf
<1>3. CallerMemoryAlive'
  BY <1>1 DEF AliveInv, CallerMemoryAlive, FrameOf, Entered
<1>4. \A s \in Threads : \A i \in DOMAIN stack'[s] :
         stack'[s][i].op \in HandleOps => refs'[stack'[s][i].on] > 0
  BY <1>1 DEF AliveInv, HandleObjectAlive, FrameOf
<1> QED
  BY <1>2, <1>3, <1>4

\* So does a call that goes on, as long as no reference is lost.
LEMMA MovedAlive ==
    ASSUME TypeOK, AliveInv, NEW t \in Threads, Busy(t), NEW f,
           NEW p \in {"ensure", "python", "released", "done"},
           Moved(t, f, p), refs' \in [Handles -> Nat],
           \A h \in Handles : refs'[h] >= refs[h] \/ refs'[h] > 0
    PROVE  /\ CallsTyped' /\ CallerMemoryAlive'
           /\ \A s \in Threads : \A i \in DOMAIN stack'[s] :
                 stack'[s][i].op \in HandleOps => refs'[stack'[s][i].on] > 0
<1>1. ASSUME NEW s \in Threads, NEW i \in DOMAIN stack'[s]
      PROVE  /\ i \in DOMAIN stack[s]
             /\ stack'[s][i].op = stack[s][i].op /\ stack'[s][i].on = stack[s][i].on
             /\ stack'[s][i].info = stack[s][i].info
             /\ stack[s][i].context => stack'[s][i].context
             /\ stack'[s][i].phase = "loader" => stack[s][i].phase = "loader"
  <2>1. stack[s] \in Seq(Frame) /\ stack'[s] \in Seq(Frame)
    BY DEF Moved, TypeOK
  <2>2. CASE s = t
    <3>1. Changed(stack[s], stack'[s], f) /\ Top(t) = stack[s][Len(stack[s])]
      BY <2>2 DEF Moved, Top
    <3>2. i \in 1 .. Len(stack[s]) /\ (i = Len(stack[s]) \/ i \in 1 .. Len(stack[s]) - 1)
      BY <2>1, <3>1 DEF Changed
    <3>3. CASE i = Len(stack[s])
      <4>1. stack'[s][i] = f /\ stack[s][i] = Top(t)
        BY <3>1, <3>3 DEF Changed
      <4> QED
        BY <2>1, <3>2, <4>1 DEF Moved
    <3>4. CASE i \in 1 .. Len(stack[s]) - 1
      BY <2>1, <3>1, <3>2, <3>4 DEF Changed
    <3> QED
      BY <3>2, <3>3, <3>4
  <2>3. CASE s # t
    BY <2>3 DEF Moved, Others
  <2> QED
    BY <2>2, <2>3
<1>2. \A h \in Handles : refs[h] > 0 => refs'[h] > 0
  BY DEF TypeOK
<1> QED
  BY <1>1, <1>2 DEF AliveInv, CallsTyped, CallerMemoryAlive, HandleObjectAlive,
                    FrameOf

\* So does a call that ends.
LEMMA PoppedAlive ==
    ASSUME TypeOK, AliveInv, NEW t \in Threads, LeaveCall(t)
    PROVE  AliveInv'
<1>1. ASSUME NEW s \in Threads, NEW i \in DOMAIN stack'[s]
      PROVE  /\ i \in DOMAIN stack[s]
             /\ stack'[s][i].op = stack[s][i].op /\ stack'[s][i].on = stack[s][i].on
             /\ stack'[s][i].info = stack[s][i].info
             /\ stack'[s][i].context = stack[s][i].context
             /\ stack'[s][i].phase = "loader" => stack[s][i].phase = "loader"
  <2>1. stack[s] \in Seq(Frame) /\ stack'[s] \in Seq(Frame)
    BY LeaveEffect DEF TypeOK
  <2>2. CASE s = t
    <3>1. Popped(stack[s], stack'[s])
      BY <2>2, LeaveEffect
    <3>2. i \in 1 .. Len(stack[s]) /\ i \in 1 .. Len(stack[s]) - 1
      BY <2>1, <3>1 DEF Popped
    <3> QED
      BY <2>1, <3>1, <3>2 DEF Popped
  <2>3. CASE s # t
    BY <2>3, LeaveEffect DEF Others
  <2> QED
    BY <2>2, <2>3
<1>2. handle' = handle /\ refs' = refs
  BY DEF LeaveCall
<1> QED
  BY <1>1, <1>2 DEF AliveInv, CallsTyped, OpenedAlive, HandleObjectAlive,
                    CallerMemoryAlive, FrameOf

\* What is alive stays alive in every step, whoever takes it.
LEMMA AliveStep ==
    ASSUME TypeOK, AliveInv, [Next]_vars
    PROVE  TypeOK' /\ AliveInv'
<1>1. ASSUME NEW t \in Threads, Called(t)
      PROVE  TypeOK' /\ AliveInv'
  <2>1. ASSUME NEW op \in Openers, NEW h \in Handles, Opener(t, op, h)
        PROVE  TypeOK' /\ AliveInv'
    <3>1. op \in Ops /\ op \notin HandleOps /\ op # "vfs_module_init"
      BY DEF Ops, Openers, HandleOps, DirectoryOps, FileOps
    <3>2. PICK f : Entered(t, f) /\ f.op = op /\ f.on = h /\ f.phase = "ensure"
      BY <2>1, <3>1, CallEffect DEF Opener
    <3>3. /\ refs' = refs /\ handle' = [handle EXCEPT ![h] = "opening"]
          /\ UNCHANGED <<gil, current, registry, interpreter, stuck, dropped>>
      BY <2>1 DEF Opener, Call
    <3>4. TypeOK'
      BY <3>2, <3>3 DEF TypeOK, Entered
    <3>5. OpenedAlive'
      BY <3>3 DEF AliveInv, OpenedAlive, TypeOK
    <3> QED
      BY <3>1, <3>2, <3>3, <3>4, <3>5, EnteredAlive
         DEF AliveInv, OpenedAlive, HandleObjectAlive, FrameOf
  <2>2. ASSUME NEW op \in HandleOps, NEW h \in Handles, HandleOp(t, op, h)
        PROVE  TypeOK' /\ AliveInv'
    <3>1. op \in Ops /\ op # "vfs_module_init"
      BY DEF Ops, HandleOps, DirectoryOps, FileOps
    <3>2. PICK f : Entered(t, f) /\ f.op = op /\ f.on = h /\ f.phase = "ensure"
      BY <2>2, <3>1, CallEffect DEF HandleOp
    <3>3. /\ refs' = refs
          /\ handle' = [handle EXCEPT ![h] = "closed"] \/ handle' = handle
          /\ handle[h] \in {"file", "directory"}
          /\ UNCHANGED <<gil, current, registry, interpreter, stuck, dropped>>
      BY <2>2 DEF HandleOp, Call
    <3>4. TypeOK'
      BY <3>2, <3>3 DEF TypeOK, Entered
    <3>5. OpenedAlive' /\ refs[h] > 0
      BY <3>3 DEF AliveInv, OpenedAlive, TypeOK
    <3> QED
      BY <3>1, <3>2, <3>3, <3>4, <3>5, EnteredAlive
         DEF AliveInv, OpenedAlive, HandleObjectAlive, FrameOf
  <2>3. ASSUME NEW op \in UriOps, UriOp(t, op)
        PROVE  TypeOK' /\ AliveInv'
    <3>1. op \in Ops /\ op \notin Openers \cup HandleOps /\ op # "vfs_module_init"
      BY DEF Ops, UriOps, Openers, HandleOps, DirectoryOps, FileOps
    <3>2. PICK f : Entered(t, f) /\ f.op = op /\ f.phase = "ensure"
      BY <2>3, <3>1, CallEffect DEF UriOp
    <3>3. UNCHANGED <<refs, handle, gil, current, registry, interpreter, stuck,
                     dropped>>
      BY <2>3 DEF UriOp, Call
    <3>4. TypeOK'
      BY <3>2, <3>3 DEF TypeOK, Entered
    <3> QED
      BY <3>1, <3>2, <3>3, <3>4, EnteredAlive
         DEF AliveInv, OpenedAlive, HandleObjectAlive, FrameOf
  <2> QED
    BY <1>1, <2>1, <2>2, <2>3 DEF Called
<1>2. ASSUME NEW t \in Threads, Ensure(t)
      PROVE  TypeOK' /\ AliveInv'
  <2>1. PICK f : Moved(t, f, "python")
    BY <1>2, EnsureEffect
  <2>2. /\ Busy(t) /\ gil' \in {gil, t} /\ current' = t
        /\ UNCHANGED <<handle, registry, interpreter, stuck, dropped>>
    BY <1>2 DEF Ensure
  <2>3. refs' \in [Handles -> Nat] /\ \A h \in Handles : refs'[h] >= refs[h]
    <3>1. CASE refs' = refs
      BY <3>1 DEF TypeOK
    <3>2. CASE /\ Top(t).op \in HandleOps
               /\ refs' = [refs EXCEPT ![Top(t).on] = @ + 1]
      <4>1. Top(t).on \in Handles
        BY <2>2, <3>2, TopType
           DEF AliveInv, CallsTyped, FrameOf, Top
      <4> QED
        BY <3>2, <4>1 DEF TypeOK
    <3> QED
      BY <1>2, <3>1, <3>2 DEF Ensure
  <2>4. TypeOK'
    BY <2>1, <2>2, <2>3 DEF TypeOK, Moved
  <2>5. OpenedAlive'
    BY <2>2, <2>3 DEF AliveInv, OpenedAlive, TypeOK
  <2> QED
    BY <2>1, <2>2, <2>3, <2>4, <2>5, MovedAlive
       DEF AliveInv, OpenedAlive, HandleObjectAlive, FrameOf
<1>3. ASSUME NEW t \in Threads, Yield(t) \/ Resume(t)
      PROVE  TypeOK' /\ AliveInv'
  <2>1. PICK p \in {"python", "released"} : \E f : Moved(t, f, p)
    BY <1>3, SwitchEffect
  <2>2. /\ Busy(t) /\ gil' \in Threads \cup {NULL} /\ current' = gil'
        /\ UNCHANGED <<handle, refs, registry, interpreter, stuck, dropped>>
    BY <1>3 DEF Yield, Resume
  <2>3. TypeOK'
    BY <2>1, <2>2 DEF TypeOK, Moved
  <2>4. refs' \in [Handles -> Nat] /\ \A h \in Handles : refs'[h] >= refs[h]
    BY <2>2 DEF TypeOK
  <2> QED
    BY <2>1, <2>2, <2>3, <2>4, MovedAlive
       DEF AliveInv, OpenedAlive, HandleObjectAlive, FrameOf
<1>4. ASSUME NEW t \in Threads, Return(t)
      PROVE  TypeOK' /\ AliveInv'
  <2>1. PICK f : Moved(t, f, "done")
    BY <1>4, ReturnEffect
  <2>2. /\ Busy(t) /\ Top(t).op # "vfs_module_init"
        /\ UNCHANGED <<registry, interpreter, stuck, dropped>>
    BY <1>4 DEF Return
  <2>3. PICK reply \in Replies :
           /\ gil' = GilAfterCall(t, Top(t), reply) /\ current' = gil'
           /\ refs' = ObjectRefs(Top(t), reply)
           /\ handle' = HandleAfter(Top(t), reply)
    BY <1>4 DEF Return
  <2>4. /\ refs' \in [Handles -> Nat]
        /\ handle' \in [Handles -> {"unused", "opening", "file", "directory",
                                    "closed"}]
        /\ \A h \in Handles : /\ refs'[h] >= refs[h] \/ refs'[h] > 0
                              /\ \/ handle'[h] = handle[h]
                                 \/ handle'[h] = "unused"
                                 \/ refs'[h] > 0
    <3>1. CASE Top(t).op \in Openers
      <4>1. Top(t).on \in Handles
        BY <2>2, <3>1, TopType DEF AliveInv, CallsTyped, FrameOf, Top
      <4>2. CASE reply \in Raises
        <5>1. refs' = refs /\ handle' = [handle EXCEPT ![Top(t).on] = "unused"]
          BY <2>3, <3>1, <4>2 DEF ObjectRefs, HandleAfter
        <5> QED
          BY <4>1, <5>1 DEF TypeOK
      <4>3. CASE reply \notin Raises
        <5>1. refs' = [refs EXCEPT ![Top(t).on] = 2]
          BY <2>3, <3>1, <4>3 DEF ObjectRefs
        <5>2. PICK v \in {"directory", "file"} :
                 handle' = [handle EXCEPT ![Top(t).on] = v]
          BY <2>3, <3>1, <4>3 DEF HandleAfter
        <5> QED
          BY <4>1, <5>1, <5>2 DEF TypeOK
      <4> QED
        BY <4>2, <4>3
    <3>2. CASE Top(t).op \notin Openers
      BY <2>3, <3>2 DEF ObjectRefs, HandleAfter, ArgsReleased, TypeOK
    <3> QED
      BY <3>1, <3>2
  <2>5. TypeOK'
    BY <2>1, <2>2, <2>3, <2>4 DEF TypeOK, Moved, GilAfterCall
  <2>6. OpenedAlive'
    BY <2>4 DEF AliveInv, OpenedAlive, TypeOK
  <2> QED
    BY <2>1, <2>2, <2>4, <2>5, <2>6, MovedAlive
       DEF AliveInv, OpenedAlive, HandleObjectAlive, FrameOf
<1>5. ASSUME NEW t \in Threads, LeaveCall(t)
      PROVE  TypeOK' /\ AliveInv'
  <2>1. TypeOK'
    BY <1>5, LeaveEffect DEF TypeOK, LeaveCall
  <2> QED
    BY <1>5, <2>1, PoppedAlive
<1>6. ASSUME NEW t \in Threads, NEW m \in Methods, LoadMethod(t, m)
      PROVE  TypeOK' /\ AliveInv'
  <2>1. PICK f : Entered(t, f) /\ f.op = "vfs_module_init" /\ f.on = m
    BY <1>6, LoadEffect
  <2>2. UNCHANGED <<gil, current, handle, refs, registry, interpreter, stuck,
                    dropped>>
    BY <1>6 DEF LoadMethod
  <2>3. TypeOK'
    BY <2>1, <2>2 DEF TypeOK, Entered
  <2>4. "vfs_module_init" \notin Openers \cup HandleOps
    BY DEF Openers, HandleOps, DirectoryOps, FileOps
  <2> QED
    BY <2>1, <2>2, <2>3, <2>4, EnteredAlive
       DEF AliveInv, OpenedAlive, HandleObjectAlive, FrameOf
<1>7. ASSUME NEW t \in Threads,
             vfs_module_init(t) \/ InitSucceeds(t) \/ InitFails(t)
      PROVE  TypeOK' /\ AliveInv'
  <2>1. PICK p \in {"done", "ensure", "python"} : \E f : Moved(t, f, p)
    BY <1>7, InitEffect, ModuleEffect
  <2>2. /\ Busy(t) /\ gil' \in {gil, t, NULL} /\ current' \in {current, t, NULL}
        /\ interpreter' \in {interpreter, TRUE} /\ UNCHANGED <<handle, refs>>
        /\ stuck' = stuck \/ stuck' = stuck \cup {t}
        /\ dropped' = dropped \/ dropped' = dropped \cup {t}
    BY <1>7 DEF vfs_module_init, InitSucceeds, InitFails
  <2>3. registry' \in [Methods -> {"absent", "registered"}]
    <3>1. CASE InitSucceeds(t)
      BY <3>1 DEF InitSucceeds, TypeOK
    <3>2. CASE vfs_module_init(t) \/ InitFails(t)
      BY <3>2 DEF vfs_module_init, InitFails, TypeOK
    <3> QED
      BY <1>7, <3>1, <3>2
  <2>4. TypeOK'
    BY <2>1, <2>2, <2>3 DEF TypeOK, Moved
  <2>5. refs' \in [Handles -> Nat] /\ \A h \in Handles : refs'[h] >= refs[h]
    BY <2>2 DEF TypeOK
  <2> QED
    BY <2>1, <2>2, <2>4, <2>5, MovedAlive
       DEF AliveInv, OpenedAlive, HandleObjectAlive, FrameOf
<1>8. CASE UNCHANGED vars
  BY <1>8 DEF vars, TypeOK, AliveInv, CallsTyped, OpenedAlive,
              HandleObjectAlive, CallerMemoryAlive, FrameOf
<1> QED
  BY <1>1, <1>2, <1>3, <1>4, <1>5, <1>6, <1>7, <1>8, HandlerIsCalled DEF Next

\* Type correctness and the invariant, in every reachable state.
LEMMA AliveInvariant == Spec => [](TypeOK /\ AliveInv)
<1>1. Init => TypeOK /\ AliveInv
  <2> SUFFICES ASSUME Init PROVE TypeOK /\ AliveInv
    OBVIOUS
  <2>1. TypeOK
    <3>1. <<>> \in Seq(Frame)
      OBVIOUS
    <3>2. stack \in [Threads -> Seq(Frame)]
      BY <3>1, Zenon DEF Init
    <3> QED
      BY <3>2 DEF Init, TypeOK
  <2>2. \A t \in Threads : DOMAIN stack[t] = {}
    BY DEF Init
  <2>3. \A h \in Handles : handle[h] = "unused"
    BY DEF Init
  <2> QED
    BY <2>1, <2>2, <2>3 DEF AliveInv, CallsTyped, OpenedAlive,
                            HandleObjectAlive, CallerMemoryAlive
<1> QED
  BY <1>1, AliveStep, PTL DEF Spec

\* Calls, handles, methods and the GIL are always of their types.
THEOREM TypeCorrect == Spec => []TypeOK
BY AliveInvariant, PTL

\* The object behind a handle has a reference as long as GnomeVFS or one of
\* its handlers uses the handle: SET_HANDLE's extra reference is never given
\* back, and no argument tuple is released.
THEOREM HandleObjectAliveHolds == Spec => []HandleObjectAlive
<1>1. AliveInv => HandleObjectAlive
  BY DEF AliveInv
<1> QED
  BY <1>1, AliveInvariant, PTL

\* No wrapper frees the file_info or the context a handler was lent.
THEOREM CallerMemoryAliveHolds == Spec => []CallerMemoryAlive
<1>1. AliveInv => CallerMemoryAlive
  BY DEF AliveInv
<1> QED
  BY <1>1, AliveInvariant, PTL

-----------------------------------------------------------------------------
(***************************************************************************)
(* The GIL, seen from one thread.                                          *)
(***************************************************************************)

\* Only Python code calls GnomeVFS again, with the GIL or without.
CallersInPython(t) ==
    \A i \in 1 .. Len(stack[t]) - 1 :
        stack[t][i].phase \in {"python", "released"}

\* The GIL was taken when a call found it held by its own thread: Python code
\* further out has it, or it was never given back.
LockedHasReason(t) ==
    \A i \in 1 .. Len(stack[t]) :
        /\ stack[t][i].phase \in {"python", "released", "resuming"}
        /\ stack[t][i].op # "vfs_module_init"
        /\ stack[t][i].state = "LOCKED"
        => \/ t \in stuck
           \/ \E j \in 1 .. i - 1 : stack[t][j].phase = "python"

\* A call made by Python code with the GIL found it held.
CalledWithGil(t) ==
    \A i \in 2 .. Len(stack[t]) :
        /\ stack[t][i - 1].phase = "python"
        /\ stack[t][i].phase \in {"python", "released", "resuming"}
        => stack[t][i].state = "LOCKED"

\* Before it runs Python such a call leaves the GIL alone, and after that too,
\* unless it was a vfs_module_init.
CallerKeepsGil(t) ==
    /\ Len(stack[t]) > 1
    /\ stack[t][Len(stack[t]) - 1].phase = "python"
    => /\ stack[t][Len(stack[t])].phase \in {"loader", "ensure"} => gil = t
       /\ stack[t][Len(stack[t])].phase = "done" => gil = t \/ t \in dropped

\* Python code runs on t.
Runs(t) == Len(stack[t]) > 0 /\ stack[t][Len(stack[t])].phase = "python"

\* Python code that runs has the GIL, or lost it in a vfs_module_init.
RunsWithGil(t) == Runs(t) => gil = t \/ t \in dropped

\* The GIL is with Python code, or was lost in a failed vfs_module_init.
GilHasReason(t) ==
    gil = t => \/ \E i \in 1 .. Len(stack[t]) : stack[t][i].phase = "python"
               \/ t \in stuck

\* The thread with the GIL is current; another one is only while nobody has the
\* GIL, after it gave the lock away in a vfs_module_init.
CurrentHasGil(t) ==
    /\ gil = t => current = t
    /\ current = t => gil = t \/ (gil = NULL /\ t \in dropped)

ThreadInv(t) ==
    /\ CallersInPython(t)
    /\ GilHasReason(t)
    /\ RunsWithGil(t)
    /\ CurrentHasGil(t)
    /\ (Runs(t) => gil = t) =>
          LockedHasReason(t) /\ CalledWithGil(t) /\ CallerKeepsGil(t)

\* Without an interpreter there is no method, no GIL to have, and no call but
\* those that wait for the loader.
NoInterpreter ==
    ~interpreter =>
        /\ gil = NULL /\ current = NULL
        /\ \A t \in Threads : \A i \in 1 .. Len(stack[t]) :
              stack[t][i].phase = "loader"
        /\ \A m \in Methods : registry[m] = "absent"

GilInv == NoInterpreter /\ \A t \in Threads : ThreadInv(t)

\* What Next's first conjunct says.
LEMMA SoundThreads ==
    ASSUME TypeOK, ~Unsound, NEW t \in Threads
    PROVE  Runs(t) => gil = t
BY DEF TypeOK, Unsound, Runs, Busy, Top

\* A thread that did not move, and neither lost nor got the GIL, is as before.
LEMMA OtherThread ==
    ASSUME NEW s \in Threads, ThreadInv(s), stack'[s] = stack[s],
           gil' = s <=> gil = s, stuck \subseteq stuck', dropped \subseteq dropped',
           UNCHANGED <<gil, current>> \/ (gil # s /\ current' # s)
    PROVE  ThreadInv(s)'
BY DEF ThreadInv, CallersInPython, LockedHasReason, GilHasReason, CalledWithGil,
       CallerKeepsGil, RunsWithGil, CurrentHasGil, Runs

\* A thread enters a handler, or waits for the loader.
LEMMA EnterThread ==
    ASSUME TypeOK, NEW t \in Threads, ThreadInv(t), Runs(t) => gil = t,
           CanEnter(t), NEW f, Entered(t, f),
           UNCHANGED <<gil, current, stuck, dropped>>
    PROVE  ThreadInv(t)'
<1>1. PICK n \in Nat : n = Len(stack[t])
  BY DEF TypeOK
<1>2. /\ Len(stack'[t]) = n + 1 /\ stack'[t][n + 1] = f
      /\ f.phase \in {"ensure", "loader"}
      /\ \A i \in 1 .. n : stack'[t][i] = stack[t][i]
  BY <1>1 DEF Entered, Pushed
<1>3. n > 0 => \/ stack[t][n].phase = "python" /\ gil = t
               \/ stack[t][n].phase = "released"
  BY <1>1 DEF CanEnter, Busy, Top, TypeOK
<1>4. CallersInPython(t)'
  <2> SUFFICES ASSUME NEW i \in 1 .. n
               PROVE  stack'[t][i].phase \in {"python", "released"}
    BY <1>2 DEF CallersInPython
  <2>1. CASE i = n
    BY <1>2, <1>3, <2>1
  <2>2. CASE i # n
    BY <1>1, <1>2, <2>2 DEF ThreadInv, CallersInPython
  <2> QED
    BY <2>1, <2>2
<1>a. LockedHasReason(t) /\ CalledWithGil(t)
  BY DEF ThreadInv
<1>5. LockedHasReason(t)'
  <2> SUFFICES ASSUME NEW i \in 1 .. n + 1,
                      stack'[t][i].phase \in {"python", "released", "resuming"},
                      stack'[t][i].op # "vfs_module_init",
                      stack'[t][i].state = "LOCKED",
                      t \notin stuck
               PROVE  \E j \in 1 .. i - 1 : stack'[t][j].phase = "python"
    BY <1>2 DEF LockedHasReason
  <2>1. i \in 1 .. n /\ stack'[t][i] = stack[t][i]
    BY <1>2
  <2>2. PICK j \in 1 .. i - 1 : stack[t][j].phase = "python"
    BY <1>1, <1>a, <2>1 DEF LockedHasReason
  <2>3. j \in 1 .. n /\ stack'[t][j] = stack[t][j]
    BY <1>2, <2>1, <2>2
  <2> QED
    BY <2>2, <2>3
<1>6. GilHasReason(t)'
  BY <1>1, <1>2 DEF ThreadInv, GilHasReason
<1>7. CalledWithGil(t)'
  <2> SUFFICES ASSUME NEW i \in 2 .. n + 1,
                      stack'[t][i - 1].phase = "python",
                      stack'[t][i].phase \in {"python", "released", "resuming"}
               PROVE  stack'[t][i].state = "LOCKED"
    BY <1>2 DEF CalledWithGil
  <2>1. /\ i \in 2 .. n /\ i - 1 \in 1 .. n
        /\ stack'[t][i] = stack[t][i] /\ stack'[t][i - 1] = stack[t][i - 1]
    BY <1>2
  <2> QED
    BY <1>1, <2>1 DEF ThreadInv, CalledWithGil
<1>8. CallerKeepsGil(t)' /\ RunsWithGil(t)' /\ CurrentHasGil(t)'
  BY <1>1, <1>2, <1>3
     DEF CallerKeepsGil, RunsWithGil, Runs, ThreadInv, CurrentHasGil
<1> QED
  BY <1>4, <1>5, <1>6, <1>7, <1>8 DEF ThreadInv

\* What a call that moves on leaves as it was.
LEMMA MovedFacts ==
    ASSUME TypeOK, NEW t \in Threads, Busy(t), NEW f, NEW p, Moved(t, f, p)
    PROVE  \E n \in Nat \ {0} :
              /\ n = Len(stack[t]) /\ Len(stack'[t]) = n
              /\ stack[t][n] = Top(t) /\ stack'[t][n] = f
              /\ f.phase = p /\ f.op = Top(t).op
              /\ \A i \in 1 .. n - 1 : stack'[t][i] = stack[t][i]
<1>1. PICK n \in Nat \ {0} : n = Len(stack[t]) /\ stack[t][n] = Top(t)
  BY TopType DEF Top
<1>2. /\ Len(stack'[t]) = n /\ stack'[t][n] = f
      /\ f.phase = p /\ f.op = Top(t).op
      /\ \A i \in 1 .. n - 1 : stack'[t][i] = stack[t][i]
  BY <1>1 DEF Moved, Changed
<1> QED
  BY <1>1, <1>2

\* A stack of more than one call has a caller at its first place.
LEMMA FirstIsCaller ==
    ASSUME NEW n \in Nat \ {0}, n # 1
    PROVE  1 \in 1 .. n - 1 /\ 1 \in 1 .. n
<1>1. n >= 2
  OBVIOUS
<1> QED
  BY <1>1

\* The first vfs_module_init of a process without Python.
LEMMA FirstThread ==
    ASSUME TypeOK, NEW t \in Threads, Busy(t), ThreadInv(t),
           \A i \in 1 .. Len(stack[t]) : stack[t][i].phase = "loader",
           NEW f, Moved(t, f, "python"), f.op = "vfs_module_init",
           gil' = t, current' = t
    PROVE  ThreadInv(t)'
<1>1. Len(stack'[t]) = 1 /\ stack'[t][1] = f /\ f.phase = "python"
  <2>1. PICK n \in Nat \ {0} :
              /\ n = Len(stack[t]) /\ Len(stack'[t]) = n
              /\ stack'[t][n] = f /\ f.phase = "python"
    BY MovedFacts
  <2>2. n = 1
    <3> SUFFICES ASSUME ~(n = 1) PROVE FALSE
      OBVIOUS
    <3>1. 1 \in 1 .. n - 1 /\ 1 \in 1 .. n
      BY FirstIsCaller
    <3>2. stack[t][1].phase \in {"python", "released"}
      BY <2>1, <3>1 DEF ThreadInv, CallersInPython
    <3>3. stack[t][1].phase = "loader"
      BY <2>1, <3>1
    <3> QED
      BY <3>2, <3>3
  <2> QED
    BY <2>1, <2>2
<1>2. CallersInPython(t)' /\ CalledWithGil(t)' /\ CallerKeepsGil(t)'
  BY <1>1 DEF CallersInPython, CalledWithGil, CallerKeepsGil
<1>3. LockedHasReason(t)' /\ GilHasReason(t)'
  BY <1>1 DEF LockedHasReason, GilHasReason
<1>4. RunsWithGil(t)' /\ CurrentHasGil(t)'
  BY DEF RunsWithGil, CurrentHasGil
<1> QED
  BY <1>2, <1>3, <1>4 DEF ThreadInv

\* The loader's lock is free, and Python runs already.
LEMMA LoaderThread ==
    ASSUME TypeOK, NEW t \in Threads, Busy(t), ThreadInv(t),
           Top(t).phase = "loader", NEW p \in {"done", "ensure"},
           NEW f, Moved(t, f, p), UNCHANGED <<gil, current, stuck, dropped>>
    PROVE  ThreadInv(t)'
<1>1. PICK n \in Nat \ {0} :
              /\ n = Len(stack[t]) /\ Len(stack'[t]) = n
              /\ stack[t][n].phase = "loader" /\ stack'[t][n].phase = p
              /\ \A i \in 1 .. n - 1 : stack'[t][i] = stack[t][i]
  BY MovedFacts
<1>2. CallersInPython(t)'
  BY <1>1 DEF ThreadInv, CallersInPython
<1>3. ~Runs(t) /\ ~Runs(t)'
  BY <1>1 DEF Runs
<1>4. LockedHasReason(t)'
  BY <1>1, <1>3 DEF ThreadInv, LockedHasReason
<1>5. GilHasReason(t)'
  BY <1>1 DEF ThreadInv, GilHasReason
<1>6. CalledWithGil(t)'
  BY <1>1, <1>3 DEF ThreadInv, CalledWithGil
<1>7. CallerKeepsGil(t)'
  BY <1>1, <1>3 DEF ThreadInv, CallerKeepsGil
<1>8. RunsWithGil(t)' /\ CurrentHasGil(t)'
  BY <1>3 DEF RunsWithGil, ThreadInv, CurrentHasGil
<1> QED
  BY <1>2, <1>4, <1>5, <1>6, <1>7, <1>8 DEF ThreadInv

\* A handler gets the GIL.
LEMMA EnsureThread ==
    ASSUME TypeOK, NEW t \in Threads, ThreadInv(t), Ensure(t)
    PROVE  ThreadInv(t)'
<1>0. /\ Busy(t) /\ Top(t).phase = "ensure" /\ current' = t
      /\ gil' = IF current = t THEN gil ELSE t
      /\ stuck' = stuck /\ dropped' = dropped
  BY DEF Ensure
<1>1. PICK f : /\ Moved(t, f, "python")
               /\ f.state = IF current = t THEN "LOCKED" ELSE "UNLOCKED"
  BY EnsureEffect
<1>a. ~Runs(t)
  BY <1>0, TopType DEF Runs, Top
<1>b. /\ gil = t => current = t
      /\ current = t => gil = t \/ (gil = NULL /\ t \in dropped)
  BY DEF ThreadInv, CurrentHasGil
<1>2. PICK n \in Nat \ {0} :
              /\ n = Len(stack[t]) /\ Len(stack'[t]) = n
              /\ stack[t][n].phase = "ensure" /\ stack'[t][n] = f
              /\ f.phase = "python"
              /\ \A i \in 1 .. n - 1 : stack'[t][i] = stack[t][i]
  BY <1>0, <1>1, MovedFacts
<1>3. CallersInPython(t)'
  BY <1>2 DEF ThreadInv, CallersInPython
<1>4. gil' = t => LockedHasReason(t)'
  <2> SUFFICES ASSUME gil' = t, NEW i \in 1 .. n,
                      stack'[t][i].phase \in {"python", "released", "resuming"},
                      stack'[t][i].op # "vfs_module_init",
                      stack'[t][i].state = "LOCKED",
                      t \notin stuck
               PROVE  \E j \in 1 .. i - 1 : stack'[t][j].phase = "python"
    BY <1>0, <1>2 DEF LockedHasReason
  <2>1. CASE i = n
    <3>1. gil = t
      BY <1>0, <1>1, <1>2, <2>1
    <3>2. PICK j \in 1 .. n : stack[t][j].phase = "python"
      BY <1>2, <3>1 DEF ThreadInv, GilHasReason
    <3>3. j # n
      BY <1>2, <3>2
    <3> QED
      BY <1>2, <2>1, <3>2, <3>3
  <2>2. CASE i # n
    <3>1. i \in 1 .. n - 1 /\ stack'[t][i] = stack[t][i] /\ LockedHasReason(t)
      BY <1>2, <1>a, <2>2 DEF ThreadInv
    <3>2. PICK j \in 1 .. i - 1 : stack[t][j].phase = "python"
      BY <1>2, <3>1 DEF LockedHasReason
    <3>3. j \in 1 .. n - 1 /\ stack'[t][j] = stack[t][j]
      BY <1>2, <3>1, <3>2
    <3> QED
      BY <3>2, <3>3
  <2> QED
    BY <2>1, <2>2
<1>5. GilHasReason(t)'
  BY <1>2 DEF GilHasReason
<1>6. CalledWithGil(t)'
  <2> SUFFICES ASSUME NEW i \in 2 .. n,
                      stack'[t][i - 1].phase = "python",
                      stack'[t][i].phase \in {"python", "released", "resuming"}
               PROVE  stack'[t][i].state = "LOCKED"
    BY <1>2 DEF CalledWithGil
  <2>1. CASE i = n
    <3>1. gil = t
      BY <1>2, <1>a, <2>1 DEF ThreadInv, CallerKeepsGil
    <3> QED
      BY <1>1, <1>2, <1>b, <2>1, <3>1
  <2>2. CASE i # n
    BY <1>2, <1>a, <2>2 DEF ThreadInv, CalledWithGil
  <2> QED
    BY <2>1, <2>2
<1>7. CallerKeepsGil(t)' /\ RunsWithGil(t)' /\ CurrentHasGil(t)'
  BY <1>0, <1>2, <1>b DEF CallerKeepsGil, RunsWithGil, CurrentHasGil
<1>8. Runs(t)'
  BY <1>2 DEF Runs
<1> QED
  BY <1>3, <1>4, <1>5, <1>6, <1>7, <1>8 DEF ThreadInv

\* Python code gives the GIL up for a while, or gets it back.
LEMMA SwitchThread ==
    ASSUME TypeOK, NEW t \in Threads, ThreadInv(t), Runs(t) => gil = t,
           Yield(t) \/ Resume(t)
    PROVE  ThreadInv(t)'
<1>0. /\ Busy(t) /\ Top(t).phase \in {"python", "released", "resuming"}
      /\ gil' = IF gil = t THEN NULL ELSE t
      /\ current' = gil' /\ stuck' = stuck /\ dropped' = dropped
  BY MethodConstants DEF Yield, Resume
<1>1. PICK f : /\ Moved(t, f, IF gil = t THEN "released" ELSE "python")
               /\ f.state = Top(t).state
  BY SwitchEffect
<1>2. PICK n \in Nat \ {0} :
              /\ n = Len(stack[t]) /\ Len(stack'[t]) = n
              /\ stack[t][n] = Top(t) /\ stack'[t][n] = f
              /\ f.phase = (IF gil = t THEN "released" ELSE "python")
              /\ f.op = Top(t).op
              /\ \A i \in 1 .. n - 1 : stack'[t][i] = stack[t][i]
  BY <1>0, <1>1, MovedFacts
<1>3. CallersInPython(t)'
  BY <1>2 DEF ThreadInv, CallersInPython
<1>4. LockedHasReason(t)'
  <2> SUFFICES ASSUME NEW i \in 1 .. n,
                      stack'[t][i].phase \in {"python", "released", "resuming"},
                      stack'[t][i].op # "vfs_module_init",
                      stack'[t][i].state = "LOCKED",
                      t \notin stuck
               PROVE  \E j \in 1 .. i - 1 : stack'[t][j].phase = "python"
    BY <1>0, <1>2 DEF LockedHasReason
  <2>1. /\ stack[t][i].phase \in {"python", "released", "resuming"}
        /\ stack[t][i].op # "vfs_module_init" /\ stack[t][i].state = "LOCKED"
    BY <1>0, <1>1, <1>2
  <2>2. PICK j \in 1 .. i - 1 : stack[t][j].phase = "python"
    BY <1>2, <2>1 DEF ThreadInv, LockedHasReason
  <2> QED
    BY <1>2, <2>2
<1>5. GilHasReason(t)'
  BY <1>0, <1>2, MethodConstants DEF GilHasReason
<1>6. CalledWithGil(t)'
  <2> SUFFICES ASSUME NEW i \in 2 .. n,
                      stack'[t][i - 1].phase = "python",
                      stack'[t][i].phase \in {"python", "released", "resuming"}
               PROVE  stack'[t][i].state = "LOCKED"
    BY <1>2 DEF CalledWithGil
  <2>1. /\ stack[t][i - 1].phase = "python"
        /\ stack[t][i].phase \in {"python", "released", "resuming"}
        /\ stack'[t][i].state = stack[t][i].state
    BY <1>0, <1>1, <1>2
  <2> QED
    BY <1>2, <2>1 DEF ThreadInv, CalledWithGil
<1>7. CallerKeepsGil(t)' /\ RunsWithGil(t)' /\ CurrentHasGil(t)'
  BY <1>0, <1>2, MethodConstants
     DEF CallerKeepsGil, RunsWithGil, Runs, CurrentHasGil
<1> QED
  BY <1>3, <1>4, <1>5, <1>6, <1>7 DEF ThreadInv

\* A handler, or vfs_module_init, is done with Python.  It may keep the GIL if
\* that has a reason, and must keep it if its caller runs Python code.
LEMMA DoneThread ==
    ASSUME TypeOK, NEW t \in Threads, ThreadInv(t), Runs(t) => gil = t, Busy(t),
           NEW f, Moved(t, f, "done"), Top(t).phase = "python",
           gil' \in {t, NULL}, stuck \subseteq stuck', dropped \subseteq dropped',
           current' = gil' \/ (current' = t /\ gil' = NULL /\ t \in dropped'),
           gil' = t => \/ t \in stuck'
                       \/ \E j \in 1 .. Len(stack[t]) - 1 :
                             stack[t][j].phase = "python",
           /\ Len(stack[t]) > 1
           /\ stack[t][Len(stack[t]) - 1].phase = "python"
           => gil' = t \/ t \in dropped'
    PROVE  ThreadInv(t)'
<1>1. PICK n \in Nat \ {0} :
              /\ n = Len(stack[t]) /\ Len(stack'[t]) = n
              /\ stack[t][n].phase = "python" /\ stack'[t][n].phase = "done"
              /\ \A i \in 1 .. n - 1 : stack'[t][i] = stack[t][i]
  BY MovedFacts
<1>2. CallersInPython(t)'
  BY <1>1 DEF ThreadInv, CallersInPython
<1>3. LockedHasReason(t)'
  <2> SUFFICES ASSUME NEW i \in 1 .. n,
                      stack'[t][i].phase \in {"python", "released", "resuming"},
                      stack'[t][i].op # "vfs_module_init",
                      stack'[t][i].state = "LOCKED",
                      t \notin stuck
               PROVE  \E j \in 1 .. i - 1 : stack'[t][j].phase = "python"
    BY <1>1 DEF LockedHasReason
  <2>1. i \in 1 .. n - 1 /\ stack'[t][i] = stack[t][i] /\ LockedHasReason(t)
    BY <1>1 DEF ThreadInv
  <2>2. PICK j \in 1 .. i - 1 : stack[t][j].phase = "python"
    BY <1>1, <2>1 DEF LockedHasReason
  <2>3. j \in 1 .. n - 1 /\ stack'[t][j] = stack[t][j]
    BY <1>1, <2>1, <2>2
  <2> QED
    BY <2>2, <2>3
<1>4. GilHasReason(t)'
  BY <1>1 DEF GilHasReason
<1>5. CalledWithGil(t)'
  BY <1>1 DEF ThreadInv, CalledWithGil
<1>6. CallerKeepsGil(t)' /\ RunsWithGil(t)' /\ CurrentHasGil(t)'
  BY <1>1, MethodConstants DEF CallerKeepsGil, RunsWithGil, Runs, CurrentHasGil
<1> QED
  BY <1>2, <1>3, <1>4, <1>5, <1>6 DEF ThreadInv

\* GnomeVFS takes the answer back to the caller.
LEMMA LeaveThread ==
    ASSUME TypeOK, NEW t \in Threads, ThreadInv(t), LeaveCall(t)
    PROVE  ThreadInv(t)'
<1>0. /\ UNCHANGED <<gil, current, stuck, dropped>>
      /\ Busy(t) /\ stack[t][Len(stack[t])].phase = "done"
  BY DEF LeaveCall, Top
<1>1. Popped(stack[t], stack'[t])
  BY LeaveEffect
<1>2. PICK n \in Nat \ {0} : n = Len(stack[t])
  BY <1>0, TopType
<1>3. /\ Len(stack'[t]) = n - 1 /\ stack[t][n].phase = "done"
      /\ \A i \in 1 .. n - 1 :
            /\ stack'[t][i].op = stack[t][i].op
            /\ stack'[t][i].state = stack[t][i].state
            /\ \/ stack'[t][i].phase = stack[t][i].phase
               \/ /\ i = n - 1 /\ stack[t][i].phase = "released"
                  /\ stack'[t][i].phase = "resuming"
  BY <1>0, <1>1, <1>2 DEF Popped
<1>a. ~Runs(t)
  BY <1>2, <1>3 DEF Runs
<1>b. LockedHasReason(t) /\ CalledWithGil(t) /\ CallerKeepsGil(t)
  BY <1>a DEF ThreadInv
<1>4. CallersInPython(t)'
  <2> SUFFICES ASSUME NEW i \in 1 .. n - 2
               PROVE  stack'[t][i].phase \in {"python", "released"}
    BY <1>2, <1>3 DEF CallersInPython
  <2>1. i \in 1 .. n - 1 /\ i # n - 1
    BY <1>2
  <2>2. stack[t][i].phase \in {"python", "released"}
    BY <1>2, <2>1 DEF ThreadInv, CallersInPython
  <2>3. stack'[t][i].phase = stack[t][i].phase
    BY <1>3, <2>1
  <2> QED
    BY <2>2, <2>3
<1>5. LockedHasReason(t)'
  <2> SUFFICES ASSUME NEW i \in 1 .. n - 1,
                      stack'[t][i].phase \in {"python", "released", "resuming"},
                      stack'[t][i].op # "vfs_module_init",
                      stack'[t][i].state = "LOCKED",
                      t \notin stuck
               PROVE  \E j \in 1 .. i - 1 : stack'[t][j].phase = "python"
    BY <1>0, <1>3 DEF LockedHasReason
  <2>1. /\ stack[t][i].phase \in {"python", "released", "resuming"}
        /\ stack[t][i].op # "vfs_module_init" /\ stack[t][i].state = "LOCKED"
    BY <1>3
  <2>2. PICK j \in 1 .. i - 1 : stack[t][j].phase = "python"
    BY <1>2, <1>b, <2>1 DEF LockedHasReason
  <2>3. j \in 1 .. n - 1 /\ stack[t][j].phase # "released"
    BY <2>2
  <2>4. stack'[t][j].phase = "python"
    BY <1>3, <2>2, <2>3
  <2> QED
    BY <2>4
<1>6. GilHasReason(t)'
  <2> SUFFICES ASSUME gil = t, t \notin stuck
               PROVE  \E i \in 1 .. n - 1 : stack'[t][i].phase = "python"
    BY <1>0, <1>3 DEF GilHasReason
  <2>1. PICK i \in 1 .. n : stack[t][i].phase = "python"
    BY <1>2 DEF ThreadInv, GilHasReason
  <2> QED
    BY <1>3, <2>1
<1>7. CalledWithGil(t)'
  <2> SUFFICES ASSUME NEW i \in 2 .. n - 1,
                      stack'[t][i - 1].phase = "python",
                      stack'[t][i].phase \in {"python", "released", "resuming"}
               PROVE  stack'[t][i].state = "LOCKED"
    BY <1>3 DEF CalledWithGil
  <2>1. /\ stack[t][i - 1].phase = "python"
        /\ stack[t][i].phase \in {"python", "released", "resuming"}
        /\ stack'[t][i].state = stack[t][i].state
    BY <1>3
  <2> QED
    BY <1>2, <1>b, <2>1 DEF CalledWithGil
<1>8. RunsWithGil(t)' /\ CurrentHasGil(t)'
  BY <1>0, <1>2, <1>3, <1>b
     DEF ThreadInv, CallerKeepsGil, RunsWithGil, Runs, CurrentHasGil
<1>9. CallerKeepsGil(t)'
  <2> SUFFICES ASSUME n - 1 > 1
               PROVE  stack'[t][n - 1].phase \notin {"loader", "ensure", "done"}
    BY <1>3 DEF CallerKeepsGil
  <2> QED
    BY <1>2, <1>3 DEF ThreadInv, CallersInPython
<1> QED
  BY <1>4, <1>5, <1>6, <1>7, <1>8, <1>9 DEF ThreadInv

\* Every step keeps the GIL where it belongs.
LEMMA GilStep ==
    ASSUME TypeOK, AliveInv, GilInv, [Next]_vars
    PROVE  GilInv'
<1>0. SUFFICES ASSUME NEW t \in Threads, ~Unsound,
                      \/ Called(t) \/ Ensure(t) \/ Yield(t) \/ Resume(t)
                      \/ Return(t) \/ LeaveCall(t)
                      \/ \E m \in Methods : LoadMethod(t, m)
                      \/ vfs_module_init(t)
                      \/ InitSucceeds(t) \/ InitFails(t)
               PROVE  GilInv'
  <2>1. CASE UNCHANGED vars
    <3>1. NoInterpreter'
      BY <2>1 DEF vars, GilInv, NoInterpreter
    <3>2. \A t \in Threads : ThreadInv(t)'
      BY <2>1, OtherThread DEF vars, GilInv
    <3> QED
      BY <3>1, <3>2 DEF GilInv
  <2> QED
    BY <2>1, HandlerIsCalled DEF Next
<1>1. ThreadInv(t) /\ NoInterpreter /\ (Runs(t) => gil = t)
  BY <1>0, SoundThreads DEF GilInv
<1>2. SUFFICES /\ ThreadInv(t)' /\ NoInterpreter' /\ Others(t)
               /\ stuck \subseteq stuck' /\ dropped \subseteq dropped'
               /\ \/ UNCHANGED <<gil, current>>
                  \/ /\ gil \in {t, NULL} /\ gil' \in {t, NULL}
                     /\ current' \in {t, NULL}
  <2>1. ASSUME NEW s \in Threads, s # t
        PROVE  ThreadInv(s)'
    BY <1>0, <1>2, <2>1, OtherThread, MethodConstants DEF GilInv, Others
  <2> QED
    BY <1>2, <2>1 DEF GilInv
<1>3. CASE Called(t)
  <2>1. PICK op \in Ops, x \in Handles \cup {NULL} : Call(t, op, x)
    BY <1>3 DEF Called, Opener, HandleOp, UriOp, Ops
  <2>2. PICK f : Entered(t, f) /\ f.phase = "ensure"
    BY <2>1, CallEffect
  <2>3. /\ CanEnter(t)
        /\ UNCHANGED <<gil, current, registry, interpreter, stuck, dropped>>
        /\ \E m \in Methods : registry[m] = "registered"
    BY <2>1 DEF Call
  <2>4. ThreadInv(t)'
    BY <1>1, <2>2, <2>3, EnterThread
  <2>5. interpreter
    BY <1>1, <2>3 DEF NoInterpreter
  <2> QED
    BY <2>2, <2>3, <2>4, <2>5 DEF NoInterpreter, Entered
<1>4. CASE Ensure(t) \/ Yield(t) \/ Resume(t)
  <2>1. ThreadInv(t)'
    BY <1>1, <1>4, EnsureThread, SwitchThread
  <2>2. Others(t)
    BY <1>4, EnsureEffect, SwitchEffect DEF Moved
  <2>3. /\ gil \in {t, NULL} /\ gil' \in {t, NULL} /\ current' \in {t, NULL}
        /\ Busy(t) /\ Top(t).phase # "loader"
        /\ UNCHANGED <<stuck, dropped, interpreter>>
    BY <1>1, <1>4 DEF Ensure, Yield, Resume, ThreadInv, CurrentHasGil
  <2>4. interpreter
    BY <1>1, <2>3, TopType DEF NoInterpreter, Top
  <2> QED
    BY <2>1, <2>2, <2>3, <2>4 DEF NoInterpreter
<1>5. CASE Return(t)
  <2>1. PICK f : Moved(t, f, "done")
    BY <1>5, ReturnEffect
  <2>2. /\ Busy(t) /\ Top(t).op # "vfs_module_init" /\ Top(t).phase = "python"
        /\ gil = t /\ current' = gil' /\ UNCHANGED <<stuck, interpreter, dropped>>
        /\ gil' = IF Top(t).state = "LOCKED" THEN t ELSE NULL
    BY <1>5 DEF Return, GilAfterCall
  <2>3. PICK n \in Nat \ {0} : n = Len(stack[t]) /\ stack[t][n] = Top(t)
    BY <2>2, TopType DEF Top
  <2>4. gil' = t => t \in stuck \/ \E j \in 1 .. n - 1 : stack[t][j].phase = "python"
    BY <1>1, <2>2, <2>3, MethodConstants DEF ThreadInv, LockedHasReason
  <2>5. n > 1 /\ stack[t][n - 1].phase = "python" => gil' = t
    BY <1>1, <2>2, <2>3 DEF ThreadInv, CalledWithGil
  <2>6. ThreadInv(t)'
    BY <1>1, <2>1, <2>2, <2>3, <2>4, <2>5, DoneThread
  <2>7. interpreter
    BY <1>1, <2>2, MethodConstants DEF NoInterpreter
  <2> QED
    BY <2>1, <2>2, <2>6, <2>7 DEF NoInterpreter, Moved
<1>6. CASE LeaveCall(t)
  <2>1. ThreadInv(t)' /\ Others(t)
    BY <1>1, <1>6, LeaveThread, LeaveEffect
  <2>2. /\ Busy(t) /\ Top(t).phase = "done"
        /\ UNCHANGED <<gil, current, stuck, dropped, interpreter>>
    BY <1>6 DEF LeaveCall
  <2>3. interpreter
    BY <1>1, <2>2, TopType DEF NoInterpreter, Top
  <2> QED
    BY <2>1, <2>2, <2>3 DEF NoInterpreter
<1>7. CASE \E m \in Methods : LoadMethod(t, m)
  <2>1. PICK m \in Methods : LoadMethod(t, m)
    BY <1>7
  <2>2. PICK f : Entered(t, f) /\ f.phase = "loader"
    BY <2>1, LoadEffect
  <2>3. /\ CanEnter(t)
        /\ UNCHANGED <<gil, current, registry, interpreter, stuck, dropped>>
    BY <2>1 DEF LoadMethod
  <2>4. ThreadInv(t)'
    BY <1>1, <2>2, <2>3, EnterThread
  <2>5. ASSUME ~interpreter, NEW s \in Threads, NEW i \in 1 .. Len(stack'[s])
        PROVE  stack'[s][i].phase = "loader"
    <3>1. CASE s = t
      <4>1. PICK n \in Nat : n = Len(stack[t])
        BY DEF TypeOK
      <4>2. /\ Len(stack'[t]) = n + 1 /\ stack'[t][n + 1] = f
            /\ \A j \in 1 .. n : stack'[t][j] = stack[t][j]
        BY <2>2, <4>1 DEF Entered, Pushed
      <4>3. CASE i = n + 1
        BY <2>2, <3>1, <4>2, <4>3
      <4>4. CASE i # n + 1
        <5>1. i \in 1 .. n /\ stack'[t][i] = stack[t][i]
          BY <2>5, <3>1, <4>1, <4>2, <4>4
        <5> QED
          BY <1>1, <2>5, <3>1, <4>1, <5>1 DEF NoInterpreter
      <4> QED
        BY <4>3, <4>4
    <3>2. CASE s # t
      BY <1>1, <2>2, <2>5, <3>2 DEF NoInterpreter, Entered, Others
    <3> QED
      BY <3>1, <3>2
  <2> QED
    BY <1>1, <2>2, <2>3, <2>4, <2>5 DEF NoInterpreter, Entered
<1>8. CASE vfs_module_init(t)
  <2>1. /\ Busy(t) /\ Top(t).phase = "loader"
        /\ UNCHANGED <<registry, stuck, dropped>>
    BY <1>8 DEF vfs_module_init
  <2>2. PICK p \in {"done", "ensure", "python"} :
              /\ \E f : Moved(t, f, p)
              /\ p # "python" => UNCHANGED <<gil, current, interpreter>>
              /\ p = "python" => /\ ~interpreter /\ interpreter' = TRUE
                                 /\ gil' = t /\ current' = t
              /\ p = "ensure" => interpreter
              /\ p = "done" => registry[Top(t).on] = "registered"
    BY <1>8, ModuleEffect
  <2>3. PICK f : Moved(t, f, p)
    BY <2>2
  <2>4. Top(t).op = "vfs_module_init" /\ Top(t).on \in Methods
    <3>1. PICK n \in Nat \ {0} : n = Len(stack[t]) /\ stack[t][n] = Top(t)
      BY <2>1, TopType DEF Top
    <3>2. n \in DOMAIN stack[t]
      BY <3>1, TopType, <2>1
    <3> QED
      BY <2>1, <3>1, <3>2 DEF AliveInv, CallsTyped, FrameOf
  <2>5. CASE p = "python"
    <3>1. ~interpreter /\ gil = NULL
      BY <1>1, <2>2, <2>5 DEF NoInterpreter
    <3>2. ThreadInv(t)'
      BY <1>1, <2>1, <2>2, <2>3, <2>4, <2>5, <3>1, FirstThread
         DEF NoInterpreter, Moved
    <3> QED
      BY <2>1, <2>2, <2>3, <2>5, <3>1, <3>2 DEF NoInterpreter, Moved
  <2>6. CASE p # "python"
    <3>1. interpreter
      BY <1>1, <2>2, <2>4, <2>6 DEF NoInterpreter
    <3>2. ThreadInv(t)'
      BY <1>1, <2>1, <2>2, <2>3, <2>6, LoaderThread
    <3> QED
      BY <2>1, <2>2, <2>3, <2>6, <3>1, <3>2 DEF NoInterpreter, Moved
  <2> QED
    BY <2>5, <2>6
<1>9. CASE InitSucceeds(t) \/ InitFails(t)
  <2>1. PICK f : Moved(t, f, "done")
    BY <1>9, InitEffect
  <2>2. /\ Busy(t) /\ Top(t).phase = "python" /\ gil = t
        /\ interpreter' = interpreter
    BY <1>9 DEF InitSucceeds, InitFails
  <2>3. PICK n \in Nat \ {0} : n = Len(stack[t]) /\ stack[t][n] = Top(t)
    BY <2>2, TopType DEF Top
  <2>4. interpreter
    BY <1>1, <2>2, MethodConstants DEF NoInterpreter
  <2>5. current = t
    BY <1>1, <2>2 DEF ThreadInv, CurrentHasGil
  <2>6. CASE InitSucceeds(t)
    <3>1. /\ gil' = NULL /\ stuck' = stuck
          /\ Top(t).state = "LOCKED" => current' = t /\ dropped' = dropped \cup {t}
          /\ Top(t).state # "LOCKED" => current' = NULL /\ dropped' = dropped
      BY <2>5, <2>6 DEF InitSucceeds
    <3>2. n > 1 /\ stack[t][n - 1].phase = "python" => t \in dropped'
      <4> SUFFICES ASSUME n > 1, stack[t][n - 1].phase = "python"
                   PROVE  t \in dropped'
        OBVIOUS
      <4>1. Top(t).state = "LOCKED"
        BY <1>1, <2>2, <2>3 DEF ThreadInv, CalledWithGil
      <4> QED
        BY <3>1, <4>1
    <3>3. gil' # t /\ dropped \subseteq dropped'
          /\ (current' = gil' \/ (current' = t /\ gil' = NULL /\ t \in dropped'))
      BY <3>1, MethodConstants
    <3>4. ThreadInv(t)'
      BY <1>1, <2>1, <2>2, <2>3, <3>1, <3>2, <3>3, DoneThread
    <3> QED
      BY <2>1, <2>2, <2>4, <3>1, <3>3, <3>4 DEF NoInterpreter, Moved
  <2>7. CASE InitFails(t)
    <3>1. /\ gil' = t /\ current' = t /\ dropped' = dropped
          /\ stuck' = IF \E i \in 1 .. n - 1 : stack[t][i].phase = "python"
                      THEN stuck ELSE stuck \cup {t}
      BY <2>2, <2>3, <2>5, <2>7 DEF InitFails
    <3>2. /\ stuck \subseteq stuck'
          /\ t \in stuck' \/ \E j \in 1 .. n - 1 : stack[t][j].phase = "python"
      BY <3>1
    <3>3. ThreadInv(t)'
      BY <1>1, <2>1, <2>2, <2>3, <3>1, <3>2, DoneThread
    <3> QED
      BY <2>1, <2>2, <2>4, <3>1, <3>2, <3>3 DEF NoInterpreter, Moved
  <2> QED
    BY <1>9, <2>6, <2>7
<1> QED
  BY <1>0, <1>3, <1>4, <1>5, <1>6, <1>7, <1>8, <1>9

\* The GIL is where it belongs in every reachable state.
LEMMA GilInvariant == Spec => []GilInv
<1>1. Init => GilInv
  <2> SUFFICES ASSUME Init PROVE GilInv
    OBVIOUS
  <2>1. /\ gil = NULL /\ current = NULL
        /\ \A t \in Threads : stack[t] = <<>> /\ Len(stack[t]) = 0
    BY DEF Init
  <2>2. NoInterpreter
    BY <2>1 DEF Init, NoInterpreter
  <2>3. ASSUME NEW t \in Threads
        PROVE  ThreadInv(t)
    BY <2>1, MethodConstants
       DEF ThreadInv, CallersInPython, LockedHasReason, GilHasReason,
           CalledWithGil, CallerKeepsGil, RunsWithGil, Runs, CurrentHasGil
  <2> QED
    BY <2>2, <2>3 DEF GilInv
<1> QED
  BY <1>1, AliveInvariant, GilStep, PTL DEF Spec

\* Python code runs only on the thread that has the GIL, however handlers and
\* vfs_module_init nest on one thread and interleave with other threads, but
\* on a thread where a vfs_module_init gave the GIL away with
\* PyEval_ReleaseLock.
THEOREM OnlyHolderRunsHolds == Spec => []OnlyHolderRuns
<1>1. TypeOK /\ GilInv => OnlyHolderRuns
  <2> SUFFICES ASSUME TypeOK, GilInv, NEW t \in Threads, Busy(t),
                      Top(t).phase = "python"
               PROVE  gil = t \/ t \in dropped
    BY DEF OnlyHolderRuns
  <2>1. Len(stack[t]) > 0
    BY TopType
  <2> QED
    BY <2>1 DEF GilInv, ThreadInv, RunsWithGil, Runs, Top
<1> QED
  BY <1>1, AliveInvariant, GilInvariant, PTL

\* A thread that has the GIL is in a Python method, or left a vfs_module_init
\* that failed: every other way out of a handler gives the GIL back.
THEOREM GilGivenBackHolds == Spec => []GilGivenBack
<1>1. TypeOK /\ GilInv => GilGivenBack
  <2> SUFFICES ASSUME TypeOK, GilInv, NEW t \in Threads, gil = t, t \notin stuck
               PROVE  \E i \in DOMAIN stack[t] : FrameOf(t, i).phase = "python"
    BY DEF GilGivenBack
  <2>1. DOMAIN stack[t] = 1 .. Len(stack[t])
    BY DEF TypeOK
  <2> QED
    BY <2>1 DEF GilInv, ThreadInv, GilHasReason, FrameOf
<1> QED
  BY <1>1, AliveInvariant, GilInvariant, PTL

=============================================================================
