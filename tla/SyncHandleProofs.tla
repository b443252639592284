-------------------------- MODULE SyncHandleProofs --------------------------
(***************************************************************************)
(* Proofs about SyncHandle, for any number of threads, objects and files   *)
(* and calls nested to any depth: a file is closed twice, or read or       *)
(* written after it was closed, only if a close of its object and another  *)
(* call overlapped; and an open file has one owner unless its pointer was  *)
(* overwritten.                                                            *)
(***************************************************************************)
EXTENDS SyncHandle, FiniteSetTheorems, TLAPS

-----------------------------------------------------------------------------
(***************************************************************************)
(* The stacks as sets of calls.                                            *)
(***************************************************************************)

\* The fields of a call.
Pc(t, d) == stack[t][d].pc
On(t, d) == stack[t][d].on
With(t, d) == stack[t][d].with

\* A call is what it was.
Same(u, e) ==
    Pc(u, e)' = Pc(u, e) /\ On(u, e)' = On(u, e) /\ With(u, e)' = With(u, e)

\* The call at n of t is in phase s on o with f.
Now(t, n, s, o, f) ==
    /\ n \in Calls(t)'
    /\ Pc(t, n)' = s /\ On(t, n)' = o /\ With(t, n)' = f

\* The calls are what they were, and there is a new one, at n of t.
Begun(t, n, s, o, f) ==
    /\ n \notin Calls(t) /\ n \in 1 .. MaxDepth /\ Now(t, n, s, o, f)
    /\ \A u \in Threads : \A e \in Calls(u)' :
          u # t \/ e # n => e \in Calls(u)
    /\ \A u \in Threads : \A e \in Calls(u) : e \in Calls(u)' /\ Same(u, e)

\* The call at n of t is its innermost one.
Innermost(t, n) ==
    /\ n \in Calls(t)
    /\ Top(t).pc = Pc(t, n) /\ Top(t).on = On(t, n) /\ Top(t).with = With(t, n)

\* It has gone on, to phase s, with f.
Went(t, n, s, f) ==
    /\ Innermost(t, n) /\ Now(t, n, s, On(t, n), f)
    /\ \A u \in Threads : \A e \in Calls(u)' : e \in Calls(u)
    /\ \A u \in Threads : \A e \in Calls(u) :
          e \in Calls(u)' /\ (u # t \/ e # n => Same(u, e))

\* It is gone.
Left(t, n) ==
    /\ Innermost(t, n)
    /\ \A u \in Threads : \A e \in Calls(u)' :
          e \in Calls(u) /\ (u # t \/ e # n) /\ Same(u, e)
    /\ \A u \in Threads : \A e \in Calls(u) :
          u # t \/ e # n => e \in Calls(u)'

\* The fields of a call have their types.
LEMMA CallType ==
    ASSUME TypeOK, NEW t \in Threads, NEW d \in Calls(t)
    PROVE  /\ Pc(t, d) \in Phases /\ On(t, d) \in Objects
           /\ With(t, d) \in Files \cup {NULL}
<1>1. stack[t] \in Seq(Call) /\ d \in 1 .. Len(stack[t])
  BY DEF TypeOK, Calls
<1>2. stack[t][d] \in Call
  BY <1>1
<1> QED
  BY <1>2 DEF Call, Pc, On, With

\* No stack is deeper than the bound.
DepthInv == \A t \in Threads : Len(stack[t]) <= MaxDepth

\* What Begin does to the stacks.
LEMMA BeginEffect ==
    ASSUME TypeOK, NEW t \in Threads, NEW s \in Phases, NEW o \in Objects,
           NEW f \in Files \cup {NULL}, Free(t), Begin(t, s, o, f)
    PROVE  /\ \E n \in Nat : Begun(t, n, s, o, f)
           /\ stack' \in [Threads -> Seq(Call)]
           /\ DepthInv => DepthInv'
<1>0. PICK n : n = Len(stack[t]) + 1
  OBVIOUS
<1>1. PICK c : c = [pc |-> s, on |-> o, with |-> f]
  OBVIOUS
<1>2. c \in Call
  BY <1>1 DEF Call
<1>3. stack[t] \in Seq(Call) /\ Len(stack[t]) \in Nat
  BY DEF TypeOK
<1>4. stack' = [stack EXCEPT ![t] = Append(stack[t], c)]
  BY <1>1 DEF Begin
<1>5. PICK r : r = Append(stack[t], c)
  OBVIOUS
<1>6. /\ r \in Seq(Call) /\ Len(r) = Len(stack[t]) + 1
      /\ r[Len(stack[t]) + 1] = c
      /\ \A i \in 1 .. Len(stack[t]) : r[i] = stack[t][i]
  BY <1>2, <1>3, <1>5
<1>7. stack'[t] = r /\ \A u \in Threads \ {t} : stack'[u] = stack[u]
  BY <1>4, <1>5 DEF TypeOK
<1>8. n \in 1 .. MaxDepth
  BY <1>0, <1>3, HandleConstants DEF Free
<1>9. Begun(t, n, s, o, f)
  <2>1. Now(t, n, s, o, f)
    <3>1. n \in Calls(t)'
      BY <1>0, <1>3, <1>6, <1>7 DEF Calls
    <3>2. stack'[t][n] = c
      BY <1>0, <1>6, <1>7
    <3> QED
      BY <1>1, <3>1, <3>2 DEF Now, Pc, On, With
  <2>2. ASSUME NEW u \in Threads, NEW e \in Calls(u)',
               u # t \/ e # n
        PROVE  e \in Calls(u)
    BY <1>0, <1>3, <1>6, <1>7, <2>2 DEF Calls
  <2>3. ASSUME NEW u \in Threads, NEW e \in Calls(u)
        PROVE  e \in Calls(u)' /\ Same(u, e)
    <3>1. CASE u = t
      BY <1>3, <1>6, <1>7, <2>3, <3>1 DEF Calls, Same, Pc, On, With
    <3>2. CASE u # t
      BY <1>7, <2>3, <3>2 DEF Calls, Same, Pc, On, With
    <3> QED
      BY <3>1, <3>2
  <2>4. n \notin Calls(t)
    BY <1>0, <1>3 DEF Calls
  <2> QED
    BY <1>8, <2>1, <2>2, <2>3, <2>4 DEF Begun
<1>10. stack' \in [Threads -> Seq(Call)]
  BY <1>4, <1>5, <1>6 DEF TypeOK
<1>11. DepthInv => DepthInv'
  BY <1>0, <1>3, <1>6, <1>7, <1>8 DEF DepthInv
<1> QED
  BY <1>0, <1>3, <1>9, <1>10, <1>11

\* What Step does to the stacks.
LEMMA StepEffect ==
    ASSUME TypeOK, NEW t \in Threads, stack[t] # <<>>, NEW s \in Phases,
           NEW f \in Files \cup {NULL}, Step(t, s, f)
    PROVE  /\ \E n \in Nat : Went(t, n, s, f)
           /\ Top(t) \in Call
           /\ stack' \in [Threads -> Seq(Call)]
           /\ DepthInv => DepthInv'
<1>0. PICK n : n = Len(stack[t])
  OBVIOUS
<1>1. PICK c : c = [pc |-> s, on |-> Top(t).on, with |-> f]
  OBVIOUS
<1>2. /\ stack[t] \in Seq(Call) /\ Len(stack[t]) \in Nat \ {0}
      /\ Top(t) \in Call
  BY DEF TypeOK, Top
<1>3. c \in Call
  BY <1>1, <1>2 DEF Call
<1>4. PICK r : r = [stack[t] EXCEPT ![Len(stack[t])] = c]
  OBVIOUS
<1>5. stack' = [stack EXCEPT ![t] = r]
  BY <1>1, <1>4 DEF Step
<1>6. /\ r \in Seq(Call) /\ Len(r) = Len(stack[t]) /\ r[Len(stack[t])] = c
      /\ \A i \in 1 .. Len(stack[t]) : i # Len(stack[t]) => r[i] = stack[t][i]
  BY <1>2, <1>3, <1>4
<1>7. stack'[t] = r /\ \A u \in Threads \ {t} : stack'[u] = stack[u]
  BY <1>5 DEF TypeOK
<1>8. Went(t, n, s, f)
  BY <1>0, <1>1, <1>2, <1>6, <1>7
     DEF Went, Innermost, Now, Same, Pc, On, With, Calls, Top
<1> QED
  BY <1>0, <1>2, <1>5, <1>6, <1>8 DEF TypeOK, DepthInv

\* What Return does to the stacks.
LEMMA ReturnEffect ==
    ASSUME TypeOK, NEW t \in Threads, stack[t] # <<>>, Return(t)
    PROVE  /\ \E n \in Nat : Left(t, n)
           /\ Top(t) \in Call
           /\ stack' \in [Threads -> Seq(Call)]
           /\ DepthInv => DepthInv'
<1>0. PICK n : n = Len(stack[t])
  OBVIOUS
<1>1. /\ stack[t] \in Seq(Call) /\ Len(stack[t]) \in Nat \ {0}
      /\ Top(t) \in Call
  BY DEF TypeOK, Top
<1>2. PICK r : r = SubSeq(stack[t], 1, Len(stack[t]) - 1)
  OBVIOUS
<1>3. stack' = [stack EXCEPT ![t] = r]
  BY <1>2 DEF Return
<1>4. /\ r \in Seq(Call) /\ Len(r) = Len(stack[t]) - 1
      /\ \A i \in 1 .. Len(stack[t]) - 1 : r[i] = stack[t][i]
  BY <1>1, <1>2
<1>5. stack'[t] = r /\ \A u \in Threads \ {t} : stack'[u] = stack[u]
  BY <1>3 DEF TypeOK
<1>6. Left(t, n)
  <2>1. Innermost(t, n)
    BY <1>0, <1>1 DEF Innermost, Calls, Top, Pc, On, With
  <2>2. ASSUME NEW u \in Threads, NEW e \in Calls(u)'
        PROVE  e \in Calls(u) /\ (u # t \/ e # n) /\ Same(u, e)
    <3>1. CASE u = t
      BY <1>0, <1>1, <1>4, <1>5, <2>2, <3>1 DEF Calls, Same, Pc, On, With
    <3>2. CASE u # t
      BY <1>5, <2>2, <3>2 DEF Calls, Same, Pc, On, With
    <3> QED
      BY <3>1, <3>2
  <2>3. ASSUME NEW u \in Threads, NEW e \in Calls(u),
               u # t \/ e # n
        PROVE  e \in Calls(u)'
    BY <1>0, <1>1, <1>4, <1>5, <2>3 DEF Calls
  <2> QED
    BY <2>1, <2>2, <2>3 DEF Left
<1>7. stack' \in [Threads -> Seq(Call)]
  BY <1>3, <1>4 DEF TypeOK
<1>8. DepthInv => DepthInv'
  <2>1. SUFFICES ASSUME DepthInv, NEW u \in Threads
                 PROVE  Len(stack'[u]) <= MaxDepth
    BY DEF DepthInv
  <2>2. CASE u = t
    BY <1>1, <1>4, <1>5, <2>1, <2>2, HandleConstants DEF DepthInv
  <2>3. CASE u # t
    BY <1>5, <2>1, <2>3 DEF DepthInv
  <2> QED
    BY <2>2, <2>3
<1> QED
  BY <1>0, <1>1, <1>6, <1>7, <1>8

-----------------------------------------------------------------------------
(***************************************************************************)
(* The inductive invariant.                                                *)
(***************************************************************************)

\* A call keeps a reference that keeps its object alive, except in the
\* destructor, which runs when there is no reference left; what it knows of
\* self->fd and of the file holds unless a close of the object overlapped.
CallInv(t, d) ==
    /\ object[On(t, d)] = "alive"
    /\ Pc(t, d) # "dying" => t \in refs[On(t, d)]
    /\ Pc(t, d) = "dying" =>
          /\ refs[On(t, d)] = {}
          /\ With(t, d) = fd[On(t, d)] /\ With(t, d) # NULL
    /\ Pc(t, d) = "opened" =>
          /\ With(t, d) \in Files
          /\ file[With(t, d)] = "open" /\ owner[With(t, d)] = NULL
    /\ Pc(t, d) \in {"closing", "io_args", "io_begin"} =>
          On(t, d) \notin Directories
    /\ Pc(t, d) \in {"io_args", "io_begin"} /\ On(t, d) \notin met =>
          fd[On(t, d)] # NULL
    /\ Pc(t, d) = "io" =>
          /\ With(t, d) # NULL =>
                /\ owner[With(t, d)] = On(t, d)
                /\ On(t, d) \notin met => file[With(t, d)] = "open"
          /\ With(t, d) = NULL => On(t, d) \in met \cup Directories

\* Two calls in progress: a destructor has its object for itself, a file is
\* opened by one call, and a close that is not alone is recorded.
PairInv(t, d, u, e) ==
    t # u \/ d # e =>
        /\ On(t, d) = On(u, e) =>
              Pc(t, d) # "dying" /\ (Pc(t, d) = "closing" => On(t, d) \in met)
        /\ With(t, d) = With(u, e) => Pc(t, d) # "opened" \/ Pc(u, e) # "opened"

\* An object points to a file that is its own.  The file is open as long as
\* the object is alive, except while a call is in the middle of close.
ObjectInv(o) ==
    /\ object[o] # "alive" => refs[o] = {}
    /\ object[o] = "unborn" => fd[o] = NULL
    /\ fd[o] # NULL =>
          /\ owner[fd[o]] = o
          /\ \/ object[o] = "alive" /\ file[fd[o]] = "open"
             \/ object[o] = "freed" /\ file[fd[o]] = "closed"
             \/ /\ file[fd[o]] = "closed" /\ o \notin Directories
                /\ \E t \in Threads : \E d \in Calls(t) :
                      Pc(t, d) = "closing" /\ On(t, d) = o

\* An open file is lost, or its owner points to it, or a call has just
\* opened it.
FileInv(f) ==
    /\ file[f] = "none" => owner[f] = NULL
    /\ file[f] # "closed" => closes[f] = 0
    /\ closes[f] > 1 => owner[f] \in met
    /\ f \in lost => owner[f] # NULL /\ \A o \in Objects : fd[o] # f
    /\ file[f] = "open" /\ f \notin lost =>
          \/ \E t \in Threads : \E d \in Calls(t) :
                Pc(t, d) = "opened" /\ With(t, d) = f
          \/ owner[f] # NULL /\ fd[owner[f]] = f
    /\ owner[f] \in Directories =>
          /\ fd[owner[f]] # NULL
          /\ object[owner[f]] # "freed" => file[f] = "open"

HandleInv ==
    /\ \A t \in Threads : \A d \in Calls(t) : CallInv(t, d)
    /\ \A t, u \in Threads : \A d \in Calls(t), e \in Calls(u) :
          PairInv(t, d, u, e)
    /\ \A o \in Objects : ObjectInv(o)
    /\ \A f \in Files : FileInv(f)

\* What Begin does to the history of close calls that were not alone.
LEMMA MeetEffect ==
    ASSUME NEW t, NEW s, NEW o, NEW f, Begin(t, s, o, f)
    PROVE  /\ met' = met \/ met' = met \cup {o}
           /\ \A u \in Threads : \A e \in Calls(u) :
                 On(u, e) = o /\ (s = "closing" \/ Pc(u, e) = "closing")
                 => o \in met'
BY DEF Begin, MeetsClose, On, Pc

\* What each step of the specification does to the invariant: a new object.
LEMMA NewStep ==
    ASSUME TypeOK, DepthInv, HandleInv, NEW t \in Threads, NEW o \in Objects,
           NewHandle(t, o)
    PROVE  TypeOK' /\ DepthInv' /\ HandleInv'
<1>0. \A u \in Threads : \A e \in Calls(u) :
         /\ Pc(u, e) \in Phases /\ On(u, e) \in Objects
         /\ With(u, e) \in Files \cup {NULL}
  BY CallType
<1>1. PICK n \in Nat : /\ Begun(t, n, "opening", o, NULL)
                    /\ stack' \in [Threads -> Seq(Call)] /\ DepthInv'
  BY BeginEffect DEF Phases, NewHandle
<1>m. /\ met' = met \/ met' = met \cup {o}
      /\ \A u \in Threads : \A e \in Calls(u) :
            On(u, e) = o /\ ("opening" = "closing" \/ Pc(u, e) = "closing")
            => o \in met'
  BY MeetEffect DEF NewHandle
<1>2. TypeOK'
  BY <1>0, <1>1, <1>m DEF TypeOK, Begun, Now, Same, NewHandle
<1>3. ASSUME NEW v \in Threads, NEW e \in Calls(v)'
      PROVE  CallInv(v, e)'
  <2>1. CASE v = t /\ e = n
    BY <1>0, <1>1, <1>m, <1>3, <2>1, HandleConstants
       DEF HandleInv, CallInv, PairInv, ObjectInv, FileInv, TypeOK, Begun,
           Now, Same, NewHandle
  <2>2. CASE v # t \/ e # n
    <3>1. e \in Calls(v) /\ Same(v, e) /\ CallInv(v, e)
      BY <1>1, <1>3, <2>2 DEF Begun, HandleInv
    <3> QED
      BY <1>0, <1>1, <1>m, <2>2, <3>1, HandleConstants
         DEF HandleInv, CallInv, PairInv, ObjectInv, FileInv, TypeOK, Begun,
             Now, Same, NewHandle
  <2> QED
    BY <2>1, <2>2
<1>4. ASSUME NEW v \in Threads, NEW w \in Threads,
             NEW d \in Calls(v)', NEW e \in Calls(w)'
      PROVE  PairInv(v, d, w, e)'
  <2>1. CASE (v # t \/ d # n) /\ (w # t \/ e # n)
    <3>1. /\ d \in Calls(v) /\ Same(v, d)
          /\ e \in Calls(w) /\ Same(w, e)
      BY <1>1, <1>4, <2>1 DEF Begun
    <3>2. PairInv(v, d, w, e)
      BY <3>1 DEF HandleInv
    <3> QED
      BY <1>m, <3>1, <3>2 DEF PairInv, Same
  <2>2. CASE v = t /\ d = n /\ (w # t \/ e # n)
    <3>1. e \in Calls(w) /\ Same(w, e) /\ CallInv(w, e)
      BY <1>1, <1>4, <2>2 DEF Begun, HandleInv
    <3> QED
      BY <1>0, <1>1, <1>m, <2>2, <3>1
         DEF CallInv, PairInv, Begun, Now, Same, NewHandle
  <2>3. CASE w = t /\ e = n /\ (v # t \/ d # n)
    <3>1. d \in Calls(v) /\ Same(v, d) /\ CallInv(v, d)
      BY <1>1, <1>4, <2>3 DEF Begun, HandleInv
    <3> QED
      BY <1>0, <1>1, <1>m, <2>3, <3>1
         DEF CallInv, PairInv, Begun, Now, Same, NewHandle
  <2>4. CASE v = t /\ d = n /\ w = t /\ e = n
    BY <2>4 DEF PairInv
  <2> QED
    BY <2>1, <2>2, <2>3, <2>4
<1>5. ASSUME NEW p \in Objects
      PROVE  ObjectInv(p)'
  <2>1. \A u \in Threads : \A e \in Calls(u) :
           /\ e \in Calls(u)'
           /\ Pc(u, e)' = Pc(u, e) /\ On(u, e)' = On(u, e)
           /\ With(u, e)' = With(u, e)
    BY <1>1 DEF Begun, Same
  <2>2. ObjectInv(p) /\ UNCHANGED <<fd, file, owner>>
    BY DEF HandleInv, NewHandle
  <2>3. CASE p = o
    BY <2>2, <2>3 DEF NewHandle, ObjectInv, TypeOK
  <2>4. CASE p # o
    BY <2>1, <2>2, <2>4 DEF NewHandle, ObjectInv, TypeOK
  <2> QED
    BY <2>3, <2>4
<1>6. ASSUME NEW g \in Files
      PROVE  FileInv(g)'
  <2>1. \A u \in Threads : \A e \in Calls(u) :
           /\ e \in Calls(u)'
           /\ Pc(u, e)' = Pc(u, e) /\ On(u, e)' = On(u, e)
           /\ With(u, e)' = With(u, e)
    BY <1>1 DEF Begun, Same
  <2>2. FileInv(g) /\ UNCHANGED <<fd, file, owner, closes, lost>>
    BY DEF HandleInv, NewHandle
  <2> QED
    BY <1>m, <2>1, <2>2, HandleConstants DEF NewHandle, FileInv, TypeOK
<1> QED
  BY <1>1, <1>2, <1>3, <1>4, <1>5, <1>6 DEF HandleInv

\* close is called.
LEMMA CloseStep ==
    ASSUME TypeOK, DepthInv, HandleInv, NEW t \in Threads, NEW o \in Objects,
           pygvhandle_close(t, o)
    PROVE  TypeOK' /\ DepthInv' /\ HandleInv'
<1>0. \A u \in Threads : \A e \in Calls(u) :
         /\ Pc(u, e) \in Phases /\ On(u, e) \in Objects
         /\ With(u, e) \in Files \cup {NULL}
  BY CallType
<1>1. PICK n \in Nat : /\ Begun(t, n, "closing", o, fd[o])
                    /\ stack' \in [Threads -> Seq(Call)] /\ DepthInv'
  BY BeginEffect DEF Phases, TypeOK, Uses, pygvhandle_close
<1>m. /\ met' = met \/ met' = met \cup {o}
      /\ \A u \in Threads : \A e \in Calls(u) :
            On(u, e) = o /\ ("closing" = "closing" \/ Pc(u, e) = "closing")
            => o \in met'
  BY MeetEffect DEF TypeOK, Uses, pygvhandle_close
<1>2. TypeOK'
  BY <1>0, <1>1, <1>m
     DEF TypeOK, Begun, Now, Same, pygvhandle_close, Uses, CloseFile
<1>3. ASSUME NEW v \in Threads, NEW e \in Calls(v)'
      PROVE  CallInv(v, e)'
  <2>1. CASE v = t /\ e = n
    BY <1>0, <1>1, <1>m, <1>3, <2>1, HandleConstants
       DEF HandleInv, CallInv, PairInv, ObjectInv, FileInv, TypeOK, Begun,
           Now, Same, pygvhandle_close, Uses, CloseFile
  <2>2. CASE v # t \/ e # n
    <3>1. e \in Calls(v) /\ Same(v, e) /\ CallInv(v, e)
      BY <1>1, <1>3, <2>2 DEF Begun, HandleInv
    <3> QED
      BY <1>0, <1>1, <1>m, <2>2, <3>1, HandleConstants
         DEF HandleInv, CallInv, PairInv, ObjectInv, FileInv, TypeOK, Begun,
             Now, Same, pygvhandle_close, Uses, CloseFile
  <2> QED
    BY <2>1, <2>2
<1>4. ASSUME NEW v \in Threads, NEW w \in Threads,
             NEW d \in Calls(v)', NEW e \in Calls(w)'
      PROVE  PairInv(v, d, w, e)'
  <2>1. CASE (v # t \/ d # n) /\ (w # t \/ e # n)
    <3>1. /\ d \in Calls(v) /\ Same(v, d)
          /\ e \in Calls(w) /\ Same(w, e)
      BY <1>1, <1>4, <2>1 DEF Begun
    <3>2. PairInv(v, d, w, e)
      BY <3>1 DEF HandleInv
    <3> QED
      BY <1>m, <3>1, <3>2 DEF PairInv, Same
  <2>2. CASE v = t /\ d = n /\ (w # t \/ e # n)
    <3>1. e \in Calls(w) /\ Same(w, e) /\ CallInv(w, e)
      BY <1>1, <1>4, <2>2 DEF Begun, HandleInv
    <3> QED
      BY <1>0, <1>1, <1>m, <2>2, <3>1
         DEF CallInv, PairInv, Begun, Now, Same, pygvhandle_close, Uses,
             CloseFile
  <2>3. CASE w = t /\ e = n /\ (v # t \/ d # n)
    <3>1. d \in Calls(v) /\ Same(v, d) /\ CallInv(v, d)
      BY <1>1, <1>4, <2>3 DEF Begun, HandleInv
    <3> QED
      BY <1>0, <1>1, <1>m, <2>3, <3>1
         DEF CallInv, PairInv, Begun, Now, Same, pygvhandle_close, Uses,
             CloseFile
  <2>4. CASE v = t /\ d = n /\ w = t /\ e = n
    BY <2>4 DEF PairInv
  <2> QED
    BY <2>1, <2>2, <2>3, <2>4
<1>5. ASSUME NEW p \in Objects
      PROVE  ObjectInv(p)'
  <2>1. \A u \in Threads : \A e \in Calls(u) :
           /\ e \in Calls(u)'
           /\ Pc(u, e)' = Pc(u, e) /\ On(u, e)' = On(u, e)
           /\ With(u, e)' = With(u, e)
    BY <1>1 DEF Begun, Same
  <2>2. /\ ObjectInv(p) /\ ObjectInv(o) /\ UNCHANGED <<object, refs, fd, owner>>
        /\ fd[o] \in Files /\ o \notin Directories
        /\ file' = [file EXCEPT ![fd[o]] = "closed"]
    BY DEF HandleInv, pygvhandle_close, CloseFile, TypeOK
  <2>3. CASE p = o
    <3>1. n \in Calls(t)' /\ Pc(t, n)' = "closing" /\ On(t, n)' = p
      BY <1>1, <2>3 DEF Begun, Now
    <3>2. file'[fd[o]] = "closed"
      BY <2>2 DEF TypeOK
    <3> QED
      BY <2>2, <2>3, <3>1, <3>2 DEF ObjectInv
  <2>4. CASE p # o
    <3>1. fd[p] # NULL => file'[fd[p]] = file[fd[p]]
      BY <2>2, <2>4, HandleConstants DEF ObjectInv, TypeOK
    <3> QED
      BY <2>1, <2>2, <2>4, <3>1 DEF ObjectInv
  <2> QED
    BY <2>3, <2>4
<1>6. ASSUME NEW g \in Files
      PROVE  FileInv(g)'
  <2>1. \A u \in Threads : \A e \in Calls(u) :
           /\ e \in Calls(u)'
           /\ Pc(u, e)' = Pc(u, e) /\ On(u, e)' = On(u, e)
           /\ With(u, e)' = With(u, e)
    BY <1>1 DEF Begun, Same
  <2>2. /\ FileInv(g) /\ ObjectInv(o)
        /\ UNCHANGED <<object, refs, fd, owner, lost>>
        /\ fd[o] \in Files /\ o \notin Directories
        /\ file' = [file EXCEPT ![fd[o]] = "closed"]
        /\ closes' = [closes EXCEPT ![fd[o]] = @ + 1]
    BY DEF HandleInv, pygvhandle_close, CloseFile, TypeOK
  <2>3. CASE g = fd[o]
    <3>1. owner[g] = o
      BY <2>2, <2>3, HandleConstants DEF ObjectInv
    <3>2. file'[g] = "closed" /\ closes'[g] = closes[g] + 1 /\ closes[g] \in Nat
      BY <2>2, <2>3 DEF TypeOK
    <3>3. closes[g] > 0 => o \in met'
      <4>1. object[o] = "alive"
        BY DEF pygvhandle_close, Uses, HandleInv, ObjectInv
      <4>2. ASSUME closes[g] > 0
            PROVE  \E u \in Threads : \E e \in Calls(u) : On(u, e) = o
        BY <2>2, <2>3, <4>1, <4>2, HandleConstants DEF ObjectInv, FileInv
      <4> QED
        BY <1>m, <4>2
    <3> QED
      BY <1>m, <2>2, <2>3, <3>1, <3>2, <3>3, HandleConstants DEF FileInv
  <2>4. CASE g # fd[o]
    <3>1. file'[g] = file[g] /\ closes'[g] = closes[g]
      BY <2>2, <2>4 DEF TypeOK
    <3> QED
      BY <1>m, <2>1, <2>2, <3>1 DEF FileInv
  <2> QED
    BY <2>3, <2>4
<1> QED
  BY <1>1, <1>2, <1>3, <1>4, <1>5, <1>6 DEF HandleInv

\* gnome_vfs_open returns a file.
LEMMA OpenStep ==
    ASSUME TypeOK, DepthInv, HandleInv, NEW t \in Threads, NEW f \in Files,
           gnome_vfs_open(t, f)
    PROVE  TypeOK' /\ DepthInv' /\ HandleInv'
<1>0. \A u \in Threads : \A e \in Calls(u) :
         /\ Pc(u, e) \in Phases /\ On(u, e) \in Objects
         /\ With(u, e) \in Files \cup {NULL}
  BY CallType
<1>1. PICK n \in Nat : /\ Went(t, n, "opened", f)
                    /\ stack' \in [Threads -> Seq(Call)] /\ DepthInv'
  BY StepEffect DEF Phases, In, gnome_vfs_open
<1>2. TypeOK'
  BY <1>0, <1>1 DEF TypeOK, Went, Innermost, Now, Same, gnome_vfs_open, In
<1>3. ASSUME NEW v \in Threads, NEW e \in Calls(v)'
      PROVE  CallInv(v, e)'
  <2>1. CASE v = t /\ e = n
    BY <1>0, <1>1, <1>3, <2>1, HandleConstants
       DEF HandleInv, CallInv, PairInv, ObjectInv, FileInv, TypeOK, Went,
           Innermost, Now, Same, gnome_vfs_open, In
  <2>2. CASE v # t \/ e # n
    <3>1. e \in Calls(v) /\ Same(v, e) /\ CallInv(v, e)
      BY <1>1, <1>3, <2>2 DEF Went, HandleInv
    <3> QED
      BY <1>0, <1>1, <2>2, <3>1, HandleConstants
         DEF HandleInv, CallInv, PairInv, ObjectInv, FileInv, TypeOK, Went,
             Innermost, Now, Same, gnome_vfs_open, In
  <2> QED
    BY <2>1, <2>2
<1>4. ASSUME NEW v \in Threads, NEW w \in Threads,
             NEW d \in Calls(v)', NEW e \in Calls(w)'
      PROVE  PairInv(v, d, w, e)'
  <2>1. d \in Calls(v) /\ e \in Calls(w) /\ met' = met
    BY <1>1, <1>4 DEF Went, gnome_vfs_open, In
  <2>2. /\ PairInv(v, d, w, e)
        /\ CallInv(v, d) /\ CallInv(w, e) /\ CallInv(t, n)
        /\ v # t \/ d # n => Same(v, d)
        /\ w # t \/ e # n => Same(w, e)
    BY <1>1, <2>1 DEF HandleInv, Went, Innermost
  <2>3. \A f0 \in Files : FileInv(f0)
    BY DEF HandleInv
  <2> QED
    BY <1>0, <1>1, <2>1, <2>2, <2>3
       DEF PairInv, Same, CallInv, FileInv, Went, Innermost, Now,
           gnome_vfs_open, In
<1>5. ASSUME NEW p \in Objects
      PROVE  ObjectInv(p)'
  <2>1. CallInv(t, n) /\ Pc(t, n) = "opening"
    BY <1>1 DEF HandleInv, Went, Innermost, gnome_vfs_open, In
  <2>2. ASSUME NEW u \in Threads, NEW e \in Calls(u), Pc(u, e) = "closing"
        PROVE  e \in Calls(u)' /\ Pc(u, e)' = "closing" /\ On(u, e)' = On(u, e)
    BY <1>1, <2>1, <2>2 DEF Went, Same
  <2>3. /\ ObjectInv(p) /\ UNCHANGED <<object, refs, fd, owner>>
        /\ file' = [file EXCEPT ![f] = "open"] /\ file[f] = "none"
    BY DEF HandleInv, gnome_vfs_open
  <2>4. fd[p] # NULL => file'[fd[p]] = file[fd[p]]
    BY <2>3, HandleConstants DEF ObjectInv, TypeOK
  <2> QED
    BY <2>2, <2>3, <2>4 DEF ObjectInv
<1>6. ASSUME NEW g \in Files
      PROVE  FileInv(g)'
  BY <1>0, <1>1, <1>6, HandleConstants
     DEF HandleInv, CallInv, PairInv, ObjectInv, FileInv, TypeOK, Went,
         Innermost, Now, Same, gnome_vfs_open, In
<1> QED
  BY <1>1, <1>2, <1>3, <1>4, <1>5, <1>6 DEF HandleInv

\* self->fd is read for the second time.
LEMMA IOStartStep ==
    ASSUME TypeOK, DepthInv, HandleInv, NEW t \in Threads,
           IOStart(t)
    PROVE  TypeOK' /\ DepthInv' /\ HandleInv'
<1>0. \A u \in Threads : \A e \in Calls(u) :
         /\ Pc(u, e) \in Phases /\ On(u, e) \in Objects
         /\ With(u, e) \in Files \cup {NULL}
  BY CallType
<1>1. PICK n \in Nat : /\ Went(t, n, "io", fd[Top(t).on])
                    /\ stack' \in [Threads -> Seq(Call)] /\ DepthInv'
  <2>1. stack[t] # <<>> /\ stack[t] \in Seq(Call)
    BY DEF IOStart, In, TypeOK
  <2>2. Top(t) \in Call
    BY <2>1 DEF Top
  <2>3. fd[Top(t).on] \in Files \cup {NULL}
    BY <2>2 DEF Call, TypeOK
  <2> QED
    BY <2>1, <2>3, StepEffect DEF Phases, IOStart
<1>2. TypeOK'
  BY <1>0, <1>1 DEF TypeOK, Went, Innermost, Now, Same, IOStart, In
<1>3. ASSUME NEW v \in Threads, NEW e \in Calls(v)'
      PROVE  CallInv(v, e)'
  <2>1. CASE v = t /\ e = n
    <3>1. PICK x \in Objects : x = On(t, n)
      BY <1>0, <1>1 DEF Went, Innermost
    <3>2. /\ Pc(v, e)' = "io" /\ On(v, e)' = x /\ With(v, e)' = fd[x]
          /\ UNCHANGED <<object, refs, met, fd, file, closes, owner, lost>>
      BY <1>1, <2>1, <3>1 DEF Went, Innermost, Now, IOStart
    <3>3. /\ CallInv(t, n) /\ ObjectInv(x) /\ Pc(t, n) \in {"io_args", "io_begin"}
      BY <1>1, <3>1 DEF HandleInv, Went, Innermost, IOStart, In
    <3>4. ASSUME NEW u \in Threads, NEW d \in Calls(u),
                 Pc(u, d) = "closing", On(u, d) = x
          PROVE  x \in met
      <4>1. PairInv(u, d, t, n)
        BY <1>1 DEF HandleInv, Went, Innermost
      <4> QED
        BY <3>1, <3>3, <3>4, <4>1 DEF PairInv
    <3>5. /\ object[x] = "alive" /\ t \in refs[x]
          /\ x \notin met => fd[x] # NULL
      BY <3>1, <3>3 DEF CallInv
    <3>6. /\ fd[x] # NULL => owner[fd[x]] = x
          /\ fd[x] # NULL /\ x \notin met => file[fd[x]] = "open"
      BY <3>3, <3>4, <3>5 DEF ObjectInv
    <3> QED
      BY <2>1, <3>2, <3>5, <3>6 DEF CallInv
  <2>2. CASE v # t \/ e # n
    <3>1. e \in Calls(v) /\ Same(v, e) /\ CallInv(v, e)
      BY <1>1, <1>3, <2>2 DEF Went, HandleInv
    <3> QED
      BY <1>0, <1>1, <2>2, <3>1, HandleConstants
         DEF HandleInv, CallInv, PairInv, ObjectInv, FileInv, TypeOK, Went,
             Innermost, Now, Same, IOStart, In
  <2> QED
    BY <2>1, <2>2
<1>4. ASSUME NEW v \in Threads, NEW w \in Threads,
             NEW d \in Calls(v)', NEW e \in Calls(w)'
      PROVE  PairInv(v, d, w, e)'
  <2>1. d \in Calls(v) /\ e \in Calls(w) /\ met' = met
    BY <1>1, <1>4 DEF Went, IOStart, In
  <2>2. /\ PairInv(v, d, w, e)
        /\ CallInv(v, d) /\ CallInv(w, e) /\ CallInv(t, n)
        /\ v # t \/ d # n => Same(v, d)
        /\ w # t \/ e # n => Same(w, e)
    BY <1>1, <2>1 DEF HandleInv, Went, Innermost
  <2>3. \A f0 \in Files : FileInv(f0)
    BY DEF HandleInv
  <2> QED
    BY <1>0, <1>1, <2>1, <2>2, <2>3
       DEF PairInv, Same, CallInv, FileInv, Went, Innermost, Now, IOStart, In
<1>5. ASSUME NEW p \in Objects
      PROVE  ObjectInv(p)'
  BY <1>0, <1>1, <1>5, HandleConstants
     DEF HandleInv, CallInv, PairInv, ObjectInv, FileInv, TypeOK, Went,
         Innermost, Now, Same, IOStart, In
<1>6. ASSUME NEW g \in Files
      PROVE  FileInv(g)'
  BY <1>0, <1>1, <1>6, HandleConstants
     DEF HandleInv, CallInv, PairInv, ObjectInv, FileInv, TypeOK, Went,
         Innermost, Now, Same, IOStart, In
<1> QED
  BY <1>1, <1>2, <1>3, <1>4, <1>5, <1>6 DEF HandleInv

\* A call that changes nothing more returns.
LEMMA LeaveStep ==
    ASSUME TypeOK, DepthInv, HandleInv, NEW t \in Threads,
           OpenFails(t) \/ ArgsFail(t) \/ IOEnd(t)
    PROVE  TypeOK' /\ DepthInv' /\ HandleInv'
<1>0. \A u \in Threads : \A e \in Calls(u) :
         /\ Pc(u, e) \in Phases /\ On(u, e) \in Objects
         /\ With(u, e) \in Files \cup {NULL}
  BY CallType
<1>1. PICK n \in Nat : /\ Left(t, n)
                    /\ stack' \in [Threads -> Seq(Call)] /\ DepthInv'
  BY ReturnEffect DEF In, OpenFails, ArgsFail, IOEnd
<1>2. TypeOK'
  BY <1>0, <1>1
     DEF TypeOK, Left, Innermost, Same, OpenFails, ArgsFail, IOEnd, In
<1>3. ASSUME NEW v \in Threads, NEW e \in Calls(v)'
      PROVE  CallInv(v, e)'
  <2>1. e \in Calls(v) /\ (v # t \/ e # n) /\ Same(v, e)
    BY <1>1, <1>3 DEF Left
  <2>2. CallInv(v, e) /\ PairInv(v, e, t, n) /\ PairInv(t, n, v, e)
    BY <1>1, <2>1 DEF HandleInv, Left, Innermost
  <2>3. CallInv(t, n)
    BY <1>1 DEF HandleInv, Left, Innermost
  <2> QED
    BY <1>0, <1>1, <1>3, <2>1, <2>2, <2>3, HandleConstants
       DEF HandleInv, CallInv, PairInv, ObjectInv, FileInv, TypeOK, Left,
           Innermost, Same, OpenFails, ArgsFail, IOEnd, In
<1>4. ASSUME NEW v \in Threads, NEW w \in Threads,
             NEW d \in Calls(v)', NEW e \in Calls(w)'
      PROVE  PairInv(v, d, w, e)'
  <2>1. /\ d \in Calls(v) /\ Same(v, d)
        /\ e \in Calls(w) /\ Same(w, e)
    BY <1>1, <1>4 DEF Left
  <2>2. PairInv(v, d, w, e) /\ met' = met
    BY <1>1, <2>1 DEF HandleInv, OpenFails, ArgsFail, IOEnd, In
  <2> QED
    BY <2>1, <2>2 DEF PairInv, Same
<1>5. ASSUME NEW p \in Objects
      PROVE  ObjectInv(p)'
  BY <1>0, <1>1, <1>5, HandleConstants
     DEF HandleInv, CallInv, PairInv, ObjectInv, FileInv, TypeOK, Left,
         Innermost, Same, OpenFails, ArgsFail, IOEnd, In
<1>6. ASSUME NEW g \in Files
      PROVE  FileInv(g)'
  BY <1>0, <1>1, <1>6, HandleConstants
     DEF HandleInv, CallInv, PairInv, ObjectInv, FileInv, TypeOK, Left,
         Innermost, Same, OpenFails, ArgsFail, IOEnd, In
<1> QED
  BY <1>1, <1>2, <1>3, <1>4, <1>5, <1>6 DEF HandleInv

\* __init__ stores the file.
LEMMA InitEndsStep ==
    ASSUME TypeOK, DepthInv, HandleInv, NEW t \in Threads,
           InitEnds(t)
    PROVE  TypeOK' /\ DepthInv' /\ HandleInv'
<1>0. \A u \in Threads : \A e \in Calls(u) :
         /\ Pc(u, e) \in Phases /\ On(u, e) \in Objects
         /\ With(u, e) \in Files \cup {NULL}
  BY CallType
<1>1. PICK n \in Nat : /\ Left(t, n)
                    /\ stack' \in [Threads -> Seq(Call)] /\ DepthInv'
  BY ReturnEffect DEF In, InitEnds
<1>2. TypeOK'
  <2>1. CallInv(t, n) /\ Pc(t, n) = "opened"
    BY <1>1 DEF HandleInv, Left, Innermost, InitEnds, In
  <2>2. With(t, n) \in Files /\ On(t, n) \in Objects
    BY <1>0, <1>1, <2>1 DEF CallInv, Left, Innermost
  <2>3. /\ fd' = [fd EXCEPT ![On(t, n)] = With(t, n)]
        /\ owner' = [owner EXCEPT ![With(t, n)] = On(t, n)]
        /\ lost' \in {lost, lost \cup {fd[On(t, n)]}}
        /\ lost' # lost => fd[On(t, n)] # NULL
        /\ UNCHANGED <<object, refs, met, file, closes>>
    BY <1>1 DEF InitEnds, StoreFd, Left, Innermost
  <2>4. lost' \in SUBSET Files
    BY <2>2, <2>3 DEF TypeOK
  <2> QED
    BY <1>1, <2>2, <2>3, <2>4 DEF TypeOK
<1>3. ASSUME NEW v \in Threads, NEW e \in Calls(v)'
      PROVE  CallInv(v, e)'
  <2>1. e \in Calls(v) /\ (v # t \/ e # n) /\ Same(v, e)
    BY <1>1, <1>3 DEF Left
  <2>2. CallInv(v, e) /\ PairInv(v, e, t, n) /\ PairInv(t, n, v, e)
    BY <1>1, <2>1 DEF HandleInv, Left, Innermost
  <2>3. CallInv(t, n)
    BY <1>1 DEF HandleInv, Left, Innermost
  <2>4. PICK y \in Objects, g \in Files : y = On(t, n) /\ g = With(t, n)
    BY <1>0, <1>1, <2>3 DEF CallInv, Left, Innermost, InitEnds, In
  <2>5. /\ Pc(t, n) = "opened" /\ owner[g] = NULL
        /\ fd' = [fd EXCEPT ![y] = g] /\ owner' = [owner EXCEPT ![g] = y]
        /\ UNCHANGED <<object, refs, met, file>>
    BY <1>1, <2>3, <2>4 DEF CallInv, Left, Innermost, InitEnds, StoreFd, In
  <2>6. /\ fd'[y] = g /\ \A x \in Objects \ {y} : fd'[x] = fd[x]
        /\ owner'[g] = y /\ \A h \in Files \ {g} : owner'[h] = owner[h]
    BY <2>4, <2>5 DEF TypeOK
  <2>7. /\ Pc(v, e) = "opened" => With(v, e) # g
        /\ Pc(v, e) = "dying" => On(v, e) # y
        /\ On(v, e) \in Objects /\ With(v, e) \in Files \cup {NULL}
    BY <1>0, <2>1, <2>2, <2>4, <2>5 DEF PairInv
  <2>8. Pc(v, e) = "io" /\ With(v, e) # NULL => With(v, e) # g
    BY <2>2, <2>5, <2>7, HandleConstants DEF CallInv
  <2> QED
    BY <2>1, <2>2, <2>5, <2>6, <2>7, <2>8, HandleConstants DEF CallInv, Same
<1>4. ASSUME NEW v \in Threads, NEW w \in Threads,
             NEW d \in Calls(v)', NEW e \in Calls(w)'
      PROVE  PairInv(v, d, w, e)'
  <2>1. /\ d \in Calls(v) /\ Same(v, d)
        /\ e \in Calls(w) /\ Same(w, e)
    BY <1>1, <1>4 DEF Left
  <2>2. PairInv(v, d, w, e) /\ met' = met
    BY <1>1, <2>1 DEF HandleInv, InitEnds, StoreFd, In
  <2> QED
    BY <2>1, <2>2 DEF PairInv, Same
<1>5. ASSUME NEW p \in Objects
      PROVE  ObjectInv(p)'
  BY <1>0, <1>1, <1>5, HandleConstants
     DEF HandleInv, CallInv, PairInv, ObjectInv, FileInv, TypeOK, Left,
         Innermost, Same, InitEnds, StoreFd, In
<1>6. ASSUME NEW g \in Files
      PROVE  FileInv(g)'
  BY <1>0, <1>1, <1>6, HandleConstants
     DEF HandleInv, CallInv, PairInv, ObjectInv, FileInv, TypeOK, Left,
         Innermost, Same, InitEnds, StoreFd, In
<1> QED
  BY <1>1, <1>2, <1>3, <1>4, <1>5, <1>6 DEF HandleInv

\* close ends.
LEMMA CloseEndsStep ==
    ASSUME TypeOK, DepthInv, HandleInv, NEW t \in Threads,
           CloseEnds(t)
    PROVE  TypeOK' /\ DepthInv' /\ HandleInv'
<1>0. \A u \in Threads : \A e \in Calls(u) :
         /\ Pc(u, e) \in Phases /\ On(u, e) \in Objects
         /\ With(u, e) \in Files \cup {NULL}
  BY CallType
<1>1. PICK n \in Nat : /\ Left(t, n)
                    /\ stack' \in [Threads -> Seq(Call)] /\ DepthInv'
  BY ReturnEffect DEF In, CloseEnds
<1>2. TypeOK'
  BY <1>0, <1>1 DEF TypeOK, Left, Innermost, Same, CloseEnds, StoreFd, In
<1>3. ASSUME NEW v \in Threads, NEW e \in Calls(v)'
      PROVE  CallInv(v, e)'
  <2>1. e \in Calls(v) /\ (v # t \/ e # n) /\ Same(v, e)
    BY <1>1, <1>3 DEF Left
  <2>2. CallInv(v, e) /\ PairInv(v, e, t, n) /\ PairInv(t, n, v, e)
    BY <1>1, <2>1 DEF HandleInv, Left, Innermost
  <2>3. CallInv(t, n)
    BY <1>1 DEF HandleInv, Left, Innermost
  <2> QED
    BY <1>0, <1>1, <1>3, <2>1, <2>2, <2>3, HandleConstants
       DEF HandleInv, CallInv, PairInv, ObjectInv, FileInv, TypeOK, Left,
           Innermost, Same, CloseEnds, StoreFd, In
<1>4. ASSUME NEW v \in Threads, NEW w \in Threads,
             NEW d \in Calls(v)', NEW e \in Calls(w)'
      PROVE  PairInv(v, d, w, e)'
  <2>1. /\ d \in Calls(v) /\ Same(v, d)
        /\ e \in Calls(w) /\ Same(w, e)
    BY <1>1, <1>4 DEF Left
  <2>2. PairInv(v, d, w, e) /\ met' = met
    BY <1>1, <2>1 DEF HandleInv, CloseEnds, StoreFd, In
  <2> QED
    BY <2>1, <2>2 DEF PairInv, Same
<1>5. ASSUME NEW p \in Objects
      PROVE  ObjectInv(p)'
  BY <1>0, <1>1, <1>5, HandleConstants
     DEF HandleInv, CallInv, PairInv, ObjectInv, FileInv, TypeOK, Left,
         Innermost, Same, CloseEnds, StoreFd, In
<1>6. ASSUME NEW g \in Files
      PROVE  FileInv(g)'
  BY <1>0, <1>1, <1>6, HandleConstants
     DEF HandleInv, CallInv, PairInv, ObjectInv, FileInv, TypeOK, Left,
         Innermost, Same, CloseEnds, StoreFd, In
<1> QED
  BY <1>1, <1>2, <1>3, <1>4, <1>5, <1>6 DEF HandleInv

\* The destructor ends.
LEMMA DeallocStep ==
    ASSUME TypeOK, DepthInv, HandleInv, NEW t \in Threads,
           Dealloc(t)
    PROVE  TypeOK' /\ DepthInv' /\ HandleInv'
<1>0. \A u \in Threads : \A e \in Calls(u) :
         /\ Pc(u, e) \in Phases /\ On(u, e) \in Objects
         /\ With(u, e) \in Files \cup {NULL}
  BY CallType
<1>1. PICK n \in Nat : /\ Left(t, n)
                    /\ stack' \in [Threads -> Seq(Call)] /\ DepthInv'
  BY ReturnEffect DEF In, Dealloc
<1>2. TypeOK'
  <2>1. CallInv(t, n) /\ Pc(t, n) = "dying"
    BY <1>1 DEF HandleInv, Left, Innermost, Dealloc, In
  <2>2. With(t, n) \in Files /\ On(t, n) \in Objects
    BY <1>0, <1>1, <2>1 DEF CallInv, Left, Innermost
  <2> QED
    BY <1>1, <2>2 DEF TypeOK, Left, Innermost, Dealloc, CloseFile
<1>3. ASSUME NEW v \in Threads, NEW e \in Calls(v)'
      PROVE  CallInv(v, e)'
  <2>1. e \in Calls(v) /\ (v # t \/ e # n) /\ Same(v, e)
    BY <1>1, <1>3 DEF Left
  <2>2. CallInv(v, e) /\ PairInv(v, e, t, n) /\ PairInv(t, n, v, e)
    BY <1>1, <2>1 DEF HandleInv, Left, Innermost
  <2>3. CallInv(t, n)
    BY <1>1 DEF HandleInv, Left, Innermost
  <2> QED
    BY <1>0, <1>1, <1>3, <2>1, <2>2, <2>3, HandleConstants
       DEF HandleInv, CallInv, PairInv, ObjectInv, FileInv, TypeOK, Left,
           Innermost, Same, Dealloc, CloseFile, In
<1>4. ASSUME NEW v \in Threads, NEW w \in Threads,
             NEW d \in Calls(v)', NEW e \in Calls(w)'
      PROVE  PairInv(v, d, w, e)'
  <2>1. /\ d \in Calls(v) /\ Same(v, d)
        /\ e \in Calls(w) /\ Same(w, e)
    BY <1>1, <1>4 DEF Left
  <2>2. PairInv(v, d, w, e) /\ met' = met
    BY <1>1, <2>1 DEF HandleInv, Dealloc, CloseFile, In
  <2> QED
    BY <2>1, <2>2 DEF PairInv, Same
<1>5. ASSUME NEW p \in Objects
      PROVE  ObjectInv(p)'
  <2>1. /\ CallInv(t, n) /\ Pc(t, n) = "dying" /\ On(t, n) \in Objects
        /\ n \in Calls(t)
    BY <1>0, <1>1 DEF HandleInv, Left, Innermost, Dealloc, In
  <2>2. PICK y \in Objects : y = On(t, n)
    BY <2>1
  <2>3. /\ refs[y] = {} /\ fd[y] # NULL /\ With(t, n) = fd[y]
        /\ fd[y] \in Files /\ ObjectInv(y)
    BY <2>1, <2>2 DEF CallInv, HandleInv, TypeOK
  <2>4. /\ UNCHANGED <<refs, fd, owner>>
        /\ object' = [object EXCEPT ![y] = "freed"]
        /\ file' = [file EXCEPT ![fd[y]] = "closed"]
    BY <1>1, <2>2, <2>3 DEF Dealloc, CloseFile, Left, Innermost
  <2>5. ASSUME NEW u \in Threads, NEW e \in Calls(u), Pc(u, e) = "closing"
        PROVE  e \in Calls(u)' /\ Pc(u, e)' = "closing" /\ On(u, e)' = On(u, e)
    BY <1>1, <2>1, <2>5 DEF Left, Same
  <2>6. CASE p = y
    <3>1. object'[p] = "freed" /\ file'[fd[p]] = "closed"
      BY <2>3, <2>4, <2>6 DEF TypeOK
    <3> QED
      BY <2>3, <2>4, <2>6, <3>1 DEF ObjectInv
  <2>7. CASE p # y
    <3>1. ObjectInv(p) /\ object'[p] = object[p]
      BY <2>4, <2>7 DEF HandleInv, TypeOK
    <3>2. fd[p] # NULL => file'[fd[p]] = file[fd[p]]
      BY <2>3, <2>4, <2>7, <3>1 DEF ObjectInv, TypeOK
    <3> QED
      BY <2>4, <2>5, <3>1, <3>2 DEF ObjectInv
  <2> QED
    BY <2>6, <2>7
<1>6. ASSUME NEW g \in Files
      PROVE  FileInv(g)'
  <2>1. /\ CallInv(t, n) /\ Pc(t, n) = "dying" /\ On(t, n) \in Objects
        /\ With(t, n) \in Files \cup {NULL}
    BY <1>0, <1>1 DEF HandleInv, Left, Innermost, Dealloc, In
  <2>2. PICK y \in Objects, h \in Files : y = On(t, n) /\ h = With(t, n)
    BY <2>1 DEF CallInv
  <2>3. /\ fd[y] = h /\ object[y] = "alive" /\ ObjectInv(y)
        /\ FileInv(g) /\ FileInv(h)
    BY <2>1, <2>2 DEF CallInv, HandleInv
  <2>4. ASSUME NEW u \in Threads, NEW d \in Calls(u), Pc(u, d) = "closing"
        PROVE  On(u, d) # y
    BY <1>1, <2>1, <2>2, <2>4 DEF HandleInv, PairInv, Left, Innermost
  <2>5. owner[h] = y /\ file[h] = "open" /\ closes[h] = 0
    BY <2>3, <2>4, HandleConstants DEF ObjectInv, FileInv
  <2>6. /\ object' = [object EXCEPT ![y] = "freed"]
        /\ file' = [file EXCEPT ![h] = "closed"]
        /\ closes' = [closes EXCEPT ![h] = @ + 1]
        /\ UNCHANGED <<met, fd, owner, lost>>
    BY <1>1, <2>2 DEF Left, Innermost, Dealloc, CloseFile
  <2>7. CASE g = h
    <3>1. file'[g] = "closed" /\ closes'[g] = 1 /\ object'[y] = "freed"
      BY <2>5, <2>6, <2>7 DEF TypeOK
    <3> QED
      BY <2>3, <2>5, <2>6, <2>7, <3>1, HandleConstants DEF FileInv
  <2>8. CASE g # h
    <3>1. /\ file'[g] = file[g] /\ closes'[g] = closes[g]
          /\ \A x \in Objects : object'[x] = "freed" \/ object'[x] = object[x]
      BY <2>6, <2>8 DEF TypeOK
    <3>2. ASSUME NEW u \in Threads, NEW d \in Calls(u), Pc(u, d) = "opened"
          PROVE  /\ d \in Calls(u)' /\ Pc(u, d)' = "opened"
                 /\ With(u, d)' = With(u, d)
      BY <1>1, <2>1, <3>2 DEF Left, Same
    <3> QED
      BY <2>3, <2>6, <3>1, <3>2, HandleConstants DEF FileInv
  <2> QED
    BY <2>7, <2>8
<1> QED
  BY <1>1, <1>2, <1>3, <1>4, <1>5, <1>6 DEF HandleInv

\* A call that begins without a change of the object or the file: __init__,
\* or one that uses self->fd, which is checked but for directories.
Plain(t, s, o, f) ==
    /\ Uses(t, o) /\ Begin(t, s, o, f)
    /\ s \in {"opening", "io_args", "io_begin", "io"}
    /\ s \in {"io_args", "io_begin"} => o \notin Directories /\ fd[o] # NULL
    /\ s = "io" => f = fd[o] /\ (fd[o] # NULL \/ o \in Directories)
    /\ UNCHANGED <<object, refs, fd, file, closes, owner, lost>>

\* Such a call begins.
LEMMA PlainStep ==
    ASSUME TypeOK, DepthInv, HandleInv, NEW t \in Threads, NEW o \in Objects,
           NEW s, NEW f \in Files \cup {NULL}, Plain(t, s, o, f)
    PROVE  TypeOK' /\ DepthInv' /\ HandleInv'
<1>0. \A u \in Threads : \A e \in Calls(u) :
         /\ Pc(u, e) \in Phases /\ On(u, e) \in Objects
         /\ With(u, e) \in Files \cup {NULL}
  BY CallType
<1>1. PICK n \in Nat : /\ Begun(t, n, s, o, f)
                    /\ stack' \in [Threads -> Seq(Call)] /\ DepthInv'
  BY BeginEffect DEF Phases, Uses, Plain
<1>m. /\ met' = met \/ met' = met \cup {o}
      /\ \A u \in Threads : \A e \in Calls(u) :
            On(u, e) = o /\ (s = "closing" \/ Pc(u, e) = "closing")
            => o \in met'
  BY MeetEffect DEF Plain
<1>u. UNCHANGED <<object, refs, fd, file, closes, owner, lost>>
  BY DEF Plain
<1>2. TypeOK'
  BY <1>0, <1>1, <1>m, <1>u DEF TypeOK
<1>3. ASSUME NEW v \in Threads, NEW e \in Calls(v)'
      PROVE  CallInv(v, e)'
  <2>1. CASE v = t /\ e = n
    <3>1. Pc(v, e)' = s /\ On(v, e)' = o /\ With(v, e)' = f
      BY <1>1, <2>1 DEF Begun, Now
    <3>2. t \in refs[o] /\ object[o] = "alive" /\ ObjectInv(o)
      BY DEF Plain, Uses, HandleInv, ObjectInv, TypeOK
    <3>3. fd[o] # NULL => /\ owner[fd[o]] = o
                          /\ o \notin met' => file[fd[o]] = "open"
      BY <1>m, <3>2 DEF ObjectInv
    <3> QED
      BY <1>u, <2>1, <3>1, <3>2, <3>3 DEF CallInv, Plain
  <2>2. CASE v # t \/ e # n
    <3>1. e \in Calls(v) /\ Same(v, e) /\ CallInv(v, e)
      BY <1>1, <1>3, <2>2 DEF Begun, HandleInv
    <3> QED
      BY <1>m, <1>u, <3>1 DEF CallInv, Same
  <2> QED
    BY <2>1, <2>2
<1>4. ASSUME NEW v \in Threads, NEW w \in Threads,
             NEW d \in Calls(v)', NEW e \in Calls(w)'
      PROVE  PairInv(v, d, w, e)'
  <2>1. CASE (v # t \/ d # n) /\ (w # t \/ e # n)
    <3>1. /\ d \in Calls(v) /\ Same(v, d)
          /\ e \in Calls(w) /\ Same(w, e)
      BY <1>1, <1>4, <2>1 DEF Begun
    <3>2. PairInv(v, d, w, e)
      BY <3>1 DEF HandleInv
    <3> QED
      BY <1>m, <3>1, <3>2 DEF PairInv, Same
  <2>2. CASE v = t /\ d = n /\ (w # t \/ e # n)
    <3>1. e \in Calls(w) /\ Same(w, e) /\ CallInv(w, e)
      BY <1>1, <1>4, <2>2 DEF Begun, HandleInv
    <3> QED
      BY <1>0, <1>1, <1>m, <2>2, <3>1
         DEF CallInv, PairInv, Begun, Now, Same, Plain, Uses
  <2>3. CASE w = t /\ e = n /\ (v # t \/ d # n)
    <3>1. d \in Calls(v) /\ Same(v, d) /\ CallInv(v, d)
      BY <1>1, <1>4, <2>3 DEF Begun, HandleInv
    <3> QED
      BY <1>0, <1>1, <1>m, <2>3, <3>1
         DEF CallInv, PairInv, Begun, Now, Same, Plain, Uses
  <2>4. CASE v = t /\ d = n /\ w = t /\ e = n
    BY <2>4 DEF PairInv
  <2> QED
    BY <2>1, <2>2, <2>3, <2>4
<1>5. ASSUME NEW p \in Objects
      PROVE  ObjectInv(p)'
  <2>1. \A u \in Threads : \A e \in Calls(u) :
           /\ e \in Calls(u)'
           /\ Pc(u, e)' = Pc(u, e) /\ On(u, e)' = On(u, e)
           /\ With(u, e)' = With(u, e)
    BY <1>1 DEF Begun, Same
  <2>2. ObjectInv(p)
    BY DEF HandleInv
  <2> QED
    BY <1>u, <2>1, <2>2 DEF ObjectInv
<1>6. ASSUME NEW g \in Files
      PROVE  FileInv(g)'
  <2>1. \A u \in Threads : \A e \in Calls(u) :
           /\ e \in Calls(u)'
           /\ Pc(u, e)' = Pc(u, e) /\ On(u, e)' = On(u, e)
           /\ With(u, e)' = With(u, e)
    BY <1>1 DEF Begun, Same
  <2>2. FileInv(g)
    BY DEF HandleInv
  <2> QED
    BY <1>m, <1>u, <2>1, <2>2 DEF FileInv
<1> QED
  BY <1>1, <1>2, <1>3, <1>4, <1>5, <1>6 DEF HandleInv

\* The stacks and everything else but the references stay the same: what
\* the calls know is about the references of their objects.
LEMMA SameStacks ==
    ASSUME stack' = stack
    PROVE  \A u \in Threads : /\ Calls(u)' = Calls(u)
                              /\ \A e \in Calls(u) : Same(u, e)
BY DEF Calls, Same, Pc, On, With

\* Another thread gets a reference.
LEMMA ShareStep ==
    ASSUME TypeOK, DepthInv, HandleInv, NEW t \in Threads, NEW w \in Threads,
           NEW o \in Objects, Share(t, w, o)
    PROVE  TypeOK' /\ DepthInv' /\ HandleInv'
<1>0. \A u \in Threads : \A e \in Calls(u) :
         /\ Pc(u, e) \in Phases /\ On(u, e) \in Objects
         /\ With(u, e) \in Files \cup {NULL}
  BY CallType
<1>1. /\ \A u \in Threads : Calls(u)' = Calls(u)
      /\ \A u \in Threads : \A e \in Calls(u) :
            /\ Pc(u, e)' = Pc(u, e) /\ On(u, e)' = On(u, e)
            /\ With(u, e)' = With(u, e)
  BY SameStacks DEF Share, Same
<1>2. TypeOK' /\ DepthInv'
  BY DEF Share, TypeOK, DepthInv
<1>3. /\ UNCHANGED <<object, met, fd, file, closes, owner, lost>>
      /\ refs'[o] = refs[o] \cup {w}
      /\ \A p \in Objects \ {o} : refs'[p] = refs[p]
      /\ t \in refs[o]
  BY DEF Share, Uses, TypeOK
<1>4. ASSUME NEW v \in Threads, NEW e \in Calls(v)
      PROVE  CallInv(v, e)'
  <2>1. CallInv(v, e) /\ On(v, e) \in Objects
    BY <1>0 DEF HandleInv
  <2> QED
    BY <1>1, <1>3, <2>1 DEF CallInv
<1>5. ASSUME NEW v \in Threads, NEW u \in Threads, NEW d \in Calls(v),
             NEW e \in Calls(u)
      PROVE  PairInv(v, d, u, e)'
  <2>1. PairInv(v, d, u, e)
    BY DEF HandleInv
  <2> QED
    BY <1>1, <1>3, <2>1 DEF PairInv
<1>6. ASSUME NEW p \in Objects
      PROVE  ObjectInv(p)'
  <2>1. ObjectInv(p)
    BY DEF HandleInv
  <2> QED
    BY <1>1, <1>3, <2>1 DEF ObjectInv
<1>7. ASSUME NEW g \in Files
      PROVE  FileInv(g)'
  <2>1. FileInv(g)
    BY DEF HandleInv
  <2> QED
    BY <1>1, <1>3, <2>1 DEF FileInv
<1> QED
  BY <1>1, <1>2, <1>4, <1>5, <1>6, <1>7 DEF HandleInv

\* A thread forgets an object, and the destructor has nothing to close.
LEMMA ForgetStep ==
    ASSUME TypeOK, DepthInv, HandleInv, NEW t \in Threads, NEW o \in Objects,
           Drop(t, o), ~(refs[o] = {t} /\ fd[o] # NULL)
    PROVE  TypeOK' /\ DepthInv' /\ HandleInv'
<1>0. \A u \in Threads : \A e \in Calls(u) :
         /\ Pc(u, e) \in Phases /\ On(u, e) \in Objects
         /\ With(u, e) \in Files \cup {NULL}
  BY CallType
<1>1. /\ \A u \in Threads : Calls(u)' = Calls(u)
      /\ \A u \in Threads : \A e \in Calls(u) :
            /\ Pc(u, e)' = Pc(u, e) /\ On(u, e)' = On(u, e)
            /\ With(u, e)' = With(u, e)
  BY SameStacks DEF Drop, Same
<1>2. TypeOK' /\ DepthInv'
  BY DEF Drop, Forgets, TypeOK, DepthInv
<1>3. /\ UNCHANGED <<met, fd, file, closes, owner, lost>>
      /\ refs'[o] = refs[o] \ {t}
      /\ object'[o] = IF refs[o] = {t} THEN "freed" ELSE object[o]
      /\ \A p \in Objects \ {o} : refs'[p] = refs[p] /\ object'[p] = object[p]
      /\ t \in refs[o] /\ (refs[o] = {t} => fd[o] = NULL)
      /\ \A d \in Calls(t) : On(t, d) # o
  BY DEF Drop, Forgets, Uses, TypeOK, On
<1>4. ASSUME NEW v \in Threads, NEW e \in Calls(v)
      PROVE  CallInv(v, e)'
  <2>1. CallInv(v, e) /\ On(v, e) \in Objects
    BY <1>0 DEF HandleInv
  <2>2. CASE On(v, e) = o
    <3>1. v # t /\ Pc(v, e) # "dying" /\ v \in refs[o]
      BY <1>3, <2>1, <2>2 DEF CallInv
    <3>2. refs[o] # {t} /\ v \in refs'[o]
      BY <1>3, <3>1
    <3> QED
      BY <1>1, <1>3, <2>1, <2>2, <3>1, <3>2 DEF CallInv
  <2>3. CASE On(v, e) # o
    BY <1>1, <1>3, <2>1, <2>3 DEF CallInv
  <2> QED
    BY <2>2, <2>3
<1>5. ASSUME NEW v \in Threads, NEW u \in Threads, NEW d \in Calls(v),
             NEW e \in Calls(u)
      PROVE  PairInv(v, d, u, e)'
  <2>1. PairInv(v, d, u, e)
    BY DEF HandleInv
  <2> QED
    BY <1>1, <1>3, <2>1 DEF PairInv
<1>6. ASSUME NEW p \in Objects
      PROVE  ObjectInv(p)'
  <2>1. ObjectInv(p)
    BY DEF HandleInv
  <2>2. CASE p = o
    BY <1>1, <1>3, <2>1, <2>2 DEF ObjectInv
  <2>3. CASE p # o
    BY <1>1, <1>3, <2>1, <2>3 DEF ObjectInv
  <2> QED
    BY <2>2, <2>3
<1>7. ASSUME NEW g \in Files
      PROVE  FileInv(g)'
  <2>1. FileInv(g)
    BY DEF HandleInv
  <2> QED
    BY <1>1, <1>3, <2>1, HandleConstants DEF FileInv
<1> QED
  BY <1>1, <1>2, <1>4, <1>5, <1>6, <1>7 DEF HandleInv

\* The last reference on an open object goes: the destructor begins.
LEMMA DyingStep ==
    ASSUME TypeOK, DepthInv, HandleInv, NEW t \in Threads, NEW o \in Objects,
           Drop(t, o), refs[o] = {t}, fd[o] # NULL
    PROVE  TypeOK' /\ DepthInv' /\ HandleInv'
<1>0. \A u \in Threads : \A e \in Calls(u) :
         /\ Pc(u, e) \in Phases /\ On(u, e) \in Objects
         /\ With(u, e) \in Files \cup {NULL}
  BY CallType
<1>a. Begin(t, "dying", o, fd[o]) /\ Uses(t, o) /\ fd[o] \in Files
  BY DEF Drop, Forgets, TypeOK
<1>1. PICK n \in Nat : /\ Begun(t, n, "dying", o, fd[o])
                    /\ stack' \in [Threads -> Seq(Call)] /\ DepthInv'
  BY <1>a, BeginEffect DEF Phases, Uses
<1>u. /\ UNCHANGED <<object, fd, file, closes, owner, lost>>
      /\ refs'[o] = {} /\ \A p \in Objects \ {o} : refs'[p] = refs[p]
      /\ refs' \in [Objects -> SUBSET Threads]
      /\ object[o] = "alive"
      /\ \A d \in Calls(t) : On(t, d) # o
  <2>1. /\ UNCHANGED <<object, fd, file, closes, owner, lost>>
        /\ refs' = [refs EXCEPT ![o] = @ \ {t}]
        /\ \A d \in Calls(t) : On(t, d) # o
    BY DEF Drop, Forgets, On
  <2>2. ObjectInv(o) /\ object[o] = "alive"
    BY DEF HandleInv, ObjectInv
  <2> QED
    BY <2>1, <2>2 DEF TypeOK
<1>b. ASSUME NEW u \in Threads, NEW e \in Calls(u)
      PROVE  On(u, e) # o
  <2>1. CallInv(u, e)
    BY DEF HandleInv
  <2> QED
    BY <1>u, <2>1 DEF CallInv
<1>m. met' = met
  BY <1>a, <1>b DEF Begin, MeetsClose, On
<1>2. TypeOK'
  BY <1>1, <1>m, <1>u DEF TypeOK
<1>3. ASSUME NEW v \in Threads, NEW e \in Calls(v)'
      PROVE  CallInv(v, e)'
  <2>1. CASE v = t /\ e = n
    <3>1. Pc(v, e)' = "dying" /\ On(v, e)' = o /\ With(v, e)' = fd[o]
      BY <1>1, <2>1 DEF Begun, Now
    <3> QED
      BY <1>u, <3>1 DEF CallInv
  <2>2. CASE v # t \/ e # n
    <3>1. /\ e \in Calls(v) /\ Same(v, e) /\ CallInv(v, e)
          /\ On(v, e) \in Objects \ {o}
      BY <1>0, <1>1, <1>3, <1>b, <2>2 DEF Begun, HandleInv
    <3> QED
      BY <1>m, <1>u, <3>1 DEF CallInv, Same
  <2> QED
    BY <2>1, <2>2
<1>4. ASSUME NEW v \in Threads, NEW w \in Threads,
             NEW d \in Calls(v)', NEW e \in Calls(w)'
      PROVE  PairInv(v, d, w, e)'
  <2>1. CASE (v # t \/ d # n) /\ (w # t \/ e # n)
    <3>1. /\ d \in Calls(v) /\ Same(v, d)
          /\ e \in Calls(w) /\ Same(w, e)
      BY <1>1, <1>4, <2>1 DEF Begun
    <3>2. PairInv(v, d, w, e)
      BY <3>1 DEF HandleInv
    <3> QED
      BY <1>m, <3>1, <3>2 DEF PairInv, Same
  <2>2. CASE v = t /\ d = n /\ (w # t \/ e # n)
    <3>1. e \in Calls(w) /\ Same(w, e) /\ CallInv(w, e)
      BY <1>1, <1>4, <2>2 DEF Begun, HandleInv
    <3> QED
      BY <1>0, <1>1, <1>b, <1>m, <2>2, <3>1
         DEF CallInv, PairInv, Begun, Now, Same
  <2>3. CASE w = t /\ e = n /\ (v # t \/ d # n)
    <3>1. d \in Calls(v) /\ Same(v, d) /\ CallInv(v, d)
      BY <1>1, <1>4, <2>3 DEF Begun, HandleInv
    <3> QED
      BY <1>0, <1>1, <1>b, <1>m, <2>3, <3>1
         DEF CallInv, PairInv, Begun, Now, Same
  <2>4. CASE v = t /\ d = n /\ w = t /\ e = n
    BY <2>4 DEF PairInv
  <2> QED
    BY <2>1, <2>2, <2>3, <2>4
<1>5. ASSUME NEW p \in Objects
      PROVE  ObjectInv(p)'
  <2>1. \A u \in Threads : \A e \in Calls(u) :
           /\ e \in Calls(u)'
           /\ Pc(u, e)' = Pc(u, e) /\ On(u, e)' = On(u, e)
           /\ With(u, e)' = With(u, e)
    BY <1>1 DEF Begun, Same
  <2>2. ObjectInv(p)
    BY DEF HandleInv
  <2>3. CASE p = o
    BY <1>b, <1>u, <2>1, <2>2, <2>3 DEF ObjectInv
  <2>4. CASE p # o
    BY <1>u, <2>1, <2>2, <2>4 DEF ObjectInv
  <2> QED
    BY <2>3, <2>4
<1>6. ASSUME NEW g \in Files
      PROVE  FileInv(g)'
  <2>1. \A u \in Threads : \A e \in Calls(u) :
           /\ e \in Calls(u)'
           /\ Pc(u, e)' = Pc(u, e) /\ On(u, e)' = On(u, e)
           /\ With(u, e)' = With(u, e)
    BY <1>1 DEF Begun, Same
  <2>2. FileInv(g)
    BY DEF HandleInv
  <2> QED
    BY <1>m, <1>u, <2>1, <2>2 DEF FileInv
<1> QED
  BY <1>1, <1>2, <1>3, <1>4, <1>5, <1>6 DEF HandleInv

\* Every step keeps the types, the bound and the invariant.
LEMMA HandleStep ==
    ASSUME TypeOK, DepthInv, HandleInv, [Next]_vars
    PROVE  TypeOK' /\ DepthInv' /\ HandleInv'
<1>1. ASSUME NEW t \in Threads, NEW o \in Objects, NewHandle(t, o)
      PROVE  TypeOK' /\ DepthInv' /\ HandleInv'
  BY <1>1, NewStep
<1>2. ASSUME NEW t \in Threads, NEW o \in Objects, InitAgain(t, o)
      PROVE  TypeOK' /\ DepthInv' /\ HandleInv'
  <2>1. Plain(t, "opening", o, NULL)
    BY <1>2 DEF InitAgain, Plain
  <2> QED
    BY <2>1, PlainStep
<1>3. ASSUME NEW t \in Threads, NEW o \in Objects, pygvhandle_close(t, o)
      PROVE  TypeOK' /\ DepthInv' /\ HandleInv'
  BY <1>3, CloseStep
<1>4. ASSUME NEW t \in Threads, NEW o \in Objects,
             NEW s \in {"io_args", "io_begin"}, CheckedIO(t, o, s)
      PROVE  TypeOK' /\ DepthInv' /\ HandleInv'
  <2>1. Plain(t, s, o, NULL)
    BY <1>4 DEF CheckedIO, Plain
  <2> QED
    BY <2>1, PlainStep
<1>5. ASSUME NEW t \in Threads, NEW o \in Objects,
             pygvhandle_tell(t, o) \/ pygvdir_iternext(t, o)
      PROVE  TypeOK' /\ DepthInv' /\ HandleInv'
  <2>1. Plain(t, "io", o, fd[o]) /\ fd[o] \in Files \cup {NULL}
    BY <1>5 DEF pygvhandle_tell, pygvdir_iternext, Plain, TypeOK
  <2> QED
    BY <2>1, PlainStep
<1>6. ASSUME NEW t \in Threads, NEW o \in Objects, Drop(t, o)
      PROVE  TypeOK' /\ DepthInv' /\ HandleInv'
  BY <1>6, ForgetStep, DyingStep
<1>7. ASSUME NEW t \in Threads, NEW o \in Objects, NEW u \in Threads,
             Share(t, u, o)
      PROVE  TypeOK' /\ DepthInv' /\ HandleInv'
  BY <1>7, ShareStep
<1>8. ASSUME NEW t \in Threads, NEW f \in Files, gnome_vfs_open(t, f)
      PROVE  TypeOK' /\ DepthInv' /\ HandleInv'
  BY <1>8, OpenStep
<1>9. ASSUME NEW t \in Threads, OpenFails(t) \/ ArgsFail(t) \/ IOEnd(t)
      PROVE  TypeOK' /\ DepthInv' /\ HandleInv'
  BY <1>9, LeaveStep
<1>10. ASSUME NEW t \in Threads, InitEnds(t)
       PROVE  TypeOK' /\ DepthInv' /\ HandleInv'
  BY <1>10, InitEndsStep
<1>11. ASSUME NEW t \in Threads, CloseEnds(t)
       PROVE  TypeOK' /\ DepthInv' /\ HandleInv'
  BY <1>11, CloseEndsStep
<1>12. ASSUME NEW t \in Threads, IOStart(t)
       PROVE  TypeOK' /\ DepthInv' /\ HandleInv'
  BY <1>12, IOStartStep
<1>13. ASSUME NEW t \in Threads, Dealloc(t)
       PROVE  TypeOK' /\ DepthInv' /\ HandleInv'
  BY <1>13, DeallocStep
<1>14. CASE UNCHANGED vars
  <2>1. UNCHANGED <<object, refs, met, fd, file, closes, owner, lost, stack>>
    BY <1>14 DEF vars
  <2> QED
    BY <2>1 DEF TypeOK, DepthInv, HandleInv, CallInv, PairInv, ObjectInv,
                FileInv, Calls, Pc, On, With
<1> QED
  BY <1>1, <1>2, <1>3, <1>4, <1>5, <1>6, <1>7, <1>8, <1>9, <1>10, <1>11,
     <1>12, <1>13, <1>14
     DEF Next, pygvhandle_init, pygvdir_init, pygvhandle_read,
         pygvhandle_write, pygvhandle_seek, pygvhandle_get_file_info,
         pygvhandle_truncate, pygvhandle_dealloc, pygvdir_dealloc

\* The types, the bound and the inductive invariant hold in every state.
LEMMA HandleInvariant == Spec => [](TypeOK /\ DepthInv /\ HandleInv)
<1>1. Init => TypeOK /\ DepthInv /\ HandleInv
  <2> SUFFICES ASSUME Init
               PROVE  TypeOK /\ DepthInv /\ HandleInv
    OBVIOUS
  <2>1. \A t \in Threads : stack[t] = <<>> /\ Calls(t) = {}
    BY DEF Init, Calls
  <2>2. TypeOK /\ DepthInv
    BY <2>1, HandleConstants DEF Init, TypeOK, DepthInv
  <2> QED
    BY <2>1, <2>2, HandleConstants DEF Init, HandleInv, ObjectInv, FileInv
<1> QED
  BY <1>1, HandleStep, PTL DEF Spec

\* Type correctness of the objects, the files and the stacks of calls.
THEOREM TypeCorrect == Spec => []TypeOK
BY HandleInvariant, PTL

\* close and the destructors close a file once, unless a close of the object
\* that owns it and another call, of any thread, overlapped.
THEOREM ClosedOnceHolds == Spec => []ClosedOnce
<1>1. HandleInv => ClosedOnce
  BY DEF HandleInv, FileInv, ClosedOnce
<1> QED
  BY <1>1, HandleInvariant, PTL

\* An open file whose pointer was not overwritten has exactly one owner: an
\* object that is alive, or the call in the middle of __init__.
THEOREM OpenFilesOwnedHolds == Spec => []OpenFilesOwned
<1>1. ASSUME TypeOK, DepthInv, HandleInv, NEW f \in Files, file[f] = "open"
      PROVE  Cardinality({o \in Objects : object[o] = "alive" /\ fd[o] = f}
                    \cup Opening(f))
             = IF f \in lost THEN 0 ELSE 1
  <2> DEFINE O == {o \in Objects : object[o] = "alive" /\ fd[o] = f}
  <2>0. /\ FileInv(f)
        /\ \A t \in Threads : \A d \in Calls(t) : CallInv(t, d)
        /\ \A o \in Objects : ObjectInv(o)
        /\ owner[f] \in Objects \cup {NULL}
    BY <1>1 DEF HandleInv, TypeOK
  <2>a. \A p \in Opening(f) :
           /\ p[1] \in Threads /\ p[2] \in Calls(p[1])
           /\ Pc(p[1], p[2]) = "opened" /\ With(p[1], p[2]) = f
           /\ p = <<p[1], p[2]>>
    BY DEF Opening, Pc, With
  <2>1. owner[f] # NULL => Opening(f) = {}
    BY <2>0, <2>a DEF CallInv
  <2>2. \A o \in O : owner[f] = o
    BY <2>0, HandleConstants DEF ObjectInv
  <2>3. CASE f \in lost
    <3>1. O \cup Opening(f) = {}
      BY <2>0, <2>1, <2>3 DEF FileInv
    <3> QED
      BY <2>3, <3>1, FS_EmptySet
  <2>4. CASE f \notin lost /\ owner[f] = NULL
    <3>1. O = {}
      BY <2>2, <2>4, HandleConstants
    <3>a. PICK t \in Threads :
             \E d \in Calls(t) : Pc(t, d) = "opened" /\ With(t, d) = f
      BY <1>1, <2>0, <2>4 DEF FileInv
    <3>2. PICK d \in Calls(t) : Pc(t, d) = "opened" /\ With(t, d) = f
      BY <3>a
    <3>3. <<t, d>> \in Opening(f)
      <4>1. d \in 1 .. MaxDepth
        BY <1>1, HandleConstants DEF Calls, DepthInv, TypeOK
      <4> QED
        BY <3>2, <4>1 DEF Opening, Pc, With
    <3>4. ASSUME NEW p \in Opening(f)
          PROVE  p = <<t, d>>
      <4>1. PairInv(p[1], p[2], t, d)
        BY <1>1, <2>a DEF HandleInv
      <4>2. p[1] = t /\ p[2] = d
        BY <2>a, <3>2, <4>1 DEF PairInv
      <4> QED
        BY <2>a, <4>2
    <3>5. O \cup Opening(f) = {<<t, d>>}
      BY <3>1, <3>3, <3>4
    <3> QED
      BY <2>4, <3>5, FS_Singleton
  <2>5. CASE f \notin lost /\ owner[f] # NULL
    <3>0. \A t \in Threads : \A d \in Calls(t) :
             ~(Pc(t, d) = "opened" /\ With(t, d) = f)
      BY <2>0, <2>5 DEF CallInv
    <3>1. owner[f] \in Objects /\ fd[owner[f]] = f
      BY <1>1, <2>0, <2>5, <3>0 DEF FileInv
    <3>2. object[owner[f]] = "alive"
      <4>1. PICK y \in Objects : y = owner[f] /\ fd[y] = f
        BY <3>1
      <4>2. ObjectInv(y) /\ f # NULL
        BY <2>0, HandleConstants
      <4> QED
        BY <1>1, <4>1, <4>2 DEF ObjectInv
    <3>3. O \cup Opening(f) = {owner[f]}
      BY <2>1, <2>2, <2>5, <3>1, <3>2
    <3> QED
      BY <2>5, <3>3, FS_Singleton
  <2> QED
    BY <2>3, <2>4, <2>5
<1>2. TypeOK /\ DepthInv /\ HandleInv => OpenFilesOwned
  BY <1>1 DEF OpenFilesOwned
<1> QED
  BY <1>2, HandleInvariant, PTL

\* read, write and the calls that keep the GIL work on an open file, unless
\* a close of the object and another call overlapped; and so does every
\* iteration over a directory that was opened, whatever overlaps it.
THEOREM IOMeetsOpenFileHolds == Spec => []IOMeetsOpenFile
<1>1. ASSUME TypeOK, HandleInv, NEW t \in Threads, NEW d \in Calls(t),
             Pc(t, d) = "io", On(t, d) \notin met \ Directories
      PROVE  \/ With(t, d) # NULL /\ file[With(t, d)] = "open"
             \/ On(t, d) \in Directories /\ With(t, d) = NULL
  <2>1. CallInv(t, d)
    BY <1>1 DEF HandleInv
  <2>2. CASE On(t, d) \in Directories /\ With(t, d) # NULL
    <3>1. With(t, d) \in Files
      BY <1>1, <2>2, CallType
    <3>2. FileInv(With(t, d)) /\ owner[With(t, d)] = On(t, d)
          /\ object[On(t, d)] = "alive"
      BY <1>1, <2>1, <2>2, <3>1 DEF HandleInv, CallInv
    <3> QED
      BY <2>2, <3>2 DEF FileInv
  <2>3. CASE On(t, d) \notin Directories \/ With(t, d) = NULL
    BY <1>1, <2>1, <2>3 DEF CallInv
  <2> QED
    BY <2>2, <2>3
<1>2. TypeOK /\ HandleInv => IOMeetsOpenFile
  BY <1>1 DEF IOMeetsOpenFile, OnOpenFile, Pc, On, With
<1> QED
  BY <1>2, HandleInvariant, PTL

=============================================================================
