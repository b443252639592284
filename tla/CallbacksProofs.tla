-------------------------- MODULE CallbacksProofs --------------------------
(***************************************************************************)
(* Proofs about Callbacks, for any number of records and objects and any   *)
(* depth of nested callbacks: the reference counts are exact, what a       *)
(* callback is called with is alive, and the callback of a control         *)
(* operation gets its answer.                                              *)
(***************************************************************************)
EXTENDS Callbacks, FiniteSetTheorems, TLAPS

\* One for the same object, one for a member.
Bit(a, o) == IF a = o THEN 1 ELSE 0
In(o, S) == IF o \in S THEN 1 ELSE 0

\* Both are numbers.
LEMMA BitType ==
    \A a, o : Bit(a, o) \in {0, 1} /\ In(o, a) \in {0, 1}
BY DEF Bit, In

-----------------------------------------------------------------------------
(***************************************************************************)
(* The invariant.                                                          *)
(***************************************************************************)

\* A record by itself.
RecordOK(r) ==
    /\ rec[r].state = "calling" => rec[r].kind \in OneShot
    /\ rec[r].kind = "control" /\ rec[r].state = "calling" =>
          rec[r].job = "done"
    /\ rec[r].job = "queued" => rec[r].magic = "in" /\ rec[r].tuple = NULL
    /\ IF rec[r].magic = "out" THEN rec[r].operation = rec[r].answer
                               ELSE rec[r].answer = NULL

\* A callback in progress: a one-shot record is called once, a lasting one as
\* often as the main loop is run.
CallOK(i) ==
    LET r == stack[i].rec
    IN  /\ \/ rec[r].kind \in OneShot /\ rec[r].state = "calling"
           \/ /\ rec[r].kind \in Lasting
              /\ rec[r].state \in {"pending", "removed", "invalid"}
        /\ rec[r].kind \in OneShot =>
              \A j \in DOMAIN stack : stack[j].rec = r => j = i
        /\ rec[r].kind = "control" => stack[i].got = rec[r].answer

ShapeInv ==
    /\ \A r \in Records : RecordOK(r)
    /\ \A i \in DOMAIN stack : CallOK(i)

\* The counts, of sets that are finite although Records may not be.
Holders(o, f) == {i \in DOMAIN f : f[i] = o}
FiniteHolders ==
    \A o \in Objects : /\ IsFiniteSet(Holders(o, FuncOf))
                       /\ IsFiniteSet(Holders(o, DataOf))
                       /\ IsFiniteSet(Holders(o, OperationOf))
                       /\ IsFiniteSet(Holders(o, TupleOf))

CountInv == FiniteHolders /\ CallbackRefsExact

-----------------------------------------------------------------------------
(***************************************************************************)
(* Counting.                                                               *)
(***************************************************************************)

\* Times counts holders.
LEMMA TimesHolders ==
    ASSUME NEW o, NEW f
    PROVE  Times(o, f) = Cardinality(Holders(o, f))
BY DEF Times, Holders

\* One value of a function changes.
LEMMA TimesChange ==
    ASSUME NEW S, NEW f, NEW g, NEW r \in S, NEW o,
           DOMAIN f = S, DOMAIN g = S,
           \A x \in S : x # r => g[x] = f[x],
           IsFiniteSet(Holders(o, f))
    PROVE  /\ IsFiniteSet(Holders(o, g))
           /\ Times(o, f) \in Nat /\ Times(o, g) \in Nat
           /\ Times(o, g) = Times(o, f) - Bit(f[r], o) + Bit(g[r], o)
<1> DEFINE A == Holders(o, f)
           B == Holders(o, g)
           C == A \ {r}
<1>1. IsFiniteSet(C) /\ Cardinality(C) \in Nat
      /\ Cardinality(C) = Cardinality(A) - Bit(f[r], o)
  <2>1. r \in A <=> f[r] = o
    BY DEF Holders
  <2> HIDE DEF A
  <2>2. Cardinality(A) \in Nat
    BY FS_CardinalityType DEF A
  <2>3. /\ IsFiniteSet(C)
        /\ Cardinality(C) = IF r \in A THEN Cardinality(A) - 1 ELSE Cardinality(A)
    BY FS_RemoveElement DEF A
  <2>4. Cardinality(C) \in Nat
    BY <2>3, FS_CardinalityType
  <2> QED
    BY <2>1, <2>2, <2>3, <2>4 DEF Bit
<1>2. /\ IsFiniteSet(B)
      /\ Cardinality(B) = Cardinality(C) + Bit(g[r], o)
  <2>1. CASE g[r] = o
    <3>1. B = C \cup {r} /\ r \notin C
      BY <2>1 DEF Holders
    <3> HIDE DEF B, C
    <3>2. IsFiniteSet(C \cup {r}) /\ Cardinality(C \cup {r}) = Cardinality(C) + 1
      BY <1>1, <3>1, FS_AddElement
    <3> QED
      BY <2>1, <3>1, <3>2 DEF Bit
  <2>2. CASE g[r] # o
    <3>1. B = C
      BY <2>2 DEF Holders
    <3> HIDE DEF B, C
    <3> QED
      BY <1>1, <2>2, <3>1 DEF Bit
  <2> QED
    BY <2>1, <2>2
<1>3. Cardinality(A) \in Nat /\ Cardinality(B) \in Nat
  BY <1>2, FS_CardinalityType
<1> QED
  BY <1>1, <1>2, <1>3, TimesHolders DEF Bit

\* A sequence has finitely many holders.
LEMMA TimesSequence ==
    ASSUME NEW n \in Nat, NEW f, DOMAIN f = 1 .. n, NEW o
    PROVE  IsFiniteSet(Holders(o, f)) /\ Times(o, f) \in Nat
<1>1. IsFiniteSet(1 .. n)
  BY FS_Interval
<1>2. Holders(o, f) \subseteq 1 .. n
  BY DEF Holders
<1>3. IsFiniteSet(Holders(o, f))
  BY <1>1, <1>2, FS_Subset
<1> QED
  BY <1>3, FS_CardinalityType, TimesHolders

\* One more item at the end of a sequence.
LEMMA TimesAppend ==
    ASSUME NEW n \in Nat, NEW f, NEW g, NEW o,
           DOMAIN f = 1 .. n, DOMAIN g = 1 .. n + 1,
           \A i \in 1 .. n : g[i] = f[i]
    PROVE  /\ Times(o, g) = Times(o, f) + Bit(g[n + 1], o)
           /\ Times(o, f) \in Nat
<1> DEFINE A == Holders(o, f)
           B == Holders(o, g)
<1>1. IsFiniteSet(A) /\ Cardinality(A) \in Nat
  BY TimesSequence, FS_CardinalityType
<1>2. CASE g[n + 1] = o
  <2>1. B = A \cup {n + 1} /\ n + 1 \notin A
    BY <1>2 DEF Holders
  <2> HIDE DEF A, B
  <2>2. Cardinality(A \cup {n + 1}) = Cardinality(A) + 1
    BY <1>1, <2>1, FS_AddElement
  <2> QED
    BY <1>1, <1>2, <2>1, <2>2, TimesHolders DEF Bit, A, B
<1>3. CASE g[n + 1] # o
  <2>1. B = A
    BY <1>3 DEF Holders
  <2> HIDE DEF A, B
  <2> QED
    BY <1>1, <1>3, <2>1, TimesHolders DEF Bit, A, B
<1> QED
  BY <1>2, <1>3

\* The argument lists of Count.
LEMMA TimesTuples ==
    ASSUME NEW o
    PROVE  /\ Times(o, <<>>) = 0
           /\ \A a : Times(o, <<a>>) = Bit(a, o)
           /\ \A a, b : Times(o, <<a, b>>) = Bit(a, o) + Bit(b, o)
           /\ \A a, b, c : Times(o, <<a, b, c>>)
                             = Bit(a, o) + Bit(b, o) + Bit(c, o)
           /\ \A a, b, c, d : Times(o, <<a, b, c, d>>)
                 = Bit(a, o) + Bit(b, o) + Bit(c, o) + Bit(d, o)
<1>1. Times(o, <<>>) = 0
  <2>1. Holders(o, <<>>) = {}
    BY DEF Holders
  <2> QED
    BY <2>1, TimesHolders, FS_EmptySet
<1>2. ASSUME NEW a
      PROVE  Times(o, <<a>>)
               = Bit(a, o)
  <2>0. PICK n \in Nat : n = 0
    OBVIOUS
  <2>1. PICK f, g : f = <<>> /\ g = <<a>>
    OBVIOUS
  <2>2. /\ DOMAIN f = 1 .. n /\ DOMAIN g = 1 .. n + 1
        /\ \A i \in 1 .. n : g[i] = f[i]
    BY <2>0, <2>1
  <2>3. g[n + 1] = a
    BY <2>0, <2>1
  <2>4. Times(o, g) = Times(o, f) + Bit(a, o)
    BY <2>2, <2>3, TimesAppend
  <2> QED
    BY <1>1, <2>1, <2>4 DEF Bit
<1>3. ASSUME NEW a, NEW b
      PROVE  Times(o, <<a, b>>)
               = Bit(a, o) + Bit(b, o)
  <2>0. PICK n \in Nat : n = 1
    OBVIOUS
  <2>1. PICK f, g : f = <<a>> /\ g = <<a, b>>
    OBVIOUS
  <2>2. /\ DOMAIN f = 1 .. n /\ DOMAIN g = 1 .. n + 1
        /\ \A i \in 1 .. n : g[i] = f[i]
    BY <2>0, <2>1
  <2>3. g[n + 1] = b
    BY <2>0, <2>1
  <2>4. Times(o, g) = Times(o, f) + Bit(b, o)
    BY <2>2, <2>3, TimesAppend
  <2> QED
    BY <1>2, <2>1, <2>4 DEF Bit
<1>4. ASSUME NEW a, NEW b, NEW c
      PROVE  Times(o, <<a, b, c>>)
               = Bit(a, o) + Bit(b, o) + Bit(c, o)
  <2>0. PICK n \in Nat : n = 2
    OBVIOUS
  <2>1. PICK f, g : f = <<a, b>> /\ g = <<a, b, c>>
    OBVIOUS
  <2>2. /\ DOMAIN f = 1 .. n /\ DOMAIN g = 1 .. n + 1
        /\ \A i \in 1 .. n : g[i] = f[i]
    BY <2>0, <2>1
  <2>3. g[n + 1] = c
    BY <2>0, <2>1
  <2>4. Times(o, g) = Times(o, f) + Bit(c, o)
    BY <2>2, <2>3, TimesAppend
  <2> QED
    BY <1>3, <2>1, <2>4 DEF Bit
<1>5. ASSUME NEW a, NEW b, NEW c, NEW d
      PROVE  Times(o, <<a, b, c, d>>)
               = Bit(a, o) + Bit(b, o) + Bit(c, o) + Bit(d, o)
  <2>0. PICK n \in Nat : n = 3
    OBVIOUS
  <2>1. PICK f, g : f = <<a, b, c>> /\ g = <<a, b, c, d>>
    OBVIOUS
  <2>2. /\ DOMAIN f = 1 .. n /\ DOMAIN g = 1 .. n + 1
        /\ \A i \in 1 .. n : g[i] = f[i]
    BY <2>0, <2>1
  <2>3. g[n + 1] = d
    BY <2>0, <2>1
  <2>4. Times(o, g) = Times(o, f) + Bit(d, o)
    BY <2>2, <2>3, TimesAppend
  <2> QED
    BY <1>4, <2>1, <2>4 DEF Bit
<1> QED
  BY <1>1, <1>2, <1>3, <1>4, <1>5

\* The references that go with a call and those that are left in its record.
WithOne(a, g, f) == <<a, g>> \o <<f>>
WithTwo(a, g, f, d) == <<a, g>> \o <<f, d>>

\* How often an object is among them.
LEMMA TimesConcat ==
    ASSUME NEW o, NEW a \in Maybe, NEW g \in Maybe, NEW f \in Maybe, NEW d \in Maybe
    PROVE  /\ Times(o, WithOne(a, g, f)) = Bit(a, o) + Bit(g, o) + Bit(f, o)
           /\ Times(o, WithTwo(a, g, f, d))
                 = Bit(a, o) + Bit(g, o) + Bit(f, o) + Bit(d, o)
<1>1. PICK n \in Nat : n = 2
  OBVIOUS
<1>2. PICK s, u, v : s = <<a, g>> /\ u = <<a, g>> \o <<f>> /\ v = <<a, g>> \o <<f, d>>
  OBVIOUS
<1>3. Times(o, s) = Bit(a, o) + Bit(g, o)
  BY <1>2, TimesTuples
<1>4. /\ <<a, g>> \in Seq(Maybe) /\ <<f>> \in Seq(Maybe) /\ <<f, d>> \in Seq(Maybe)
      /\ Len(<<a, g>>) = 2 /\ Len(<<f>>) = 1 /\ Len(<<f, d>>) = 2
  OBVIOUS
<1>5. /\ DOMAIN s = 1 .. n /\ DOMAIN u = 1 .. n + 1
      /\ \A i \in 1 .. n : u[i] = s[i]
  BY <1>1, <1>2, <1>4
<1>6. PICK m \in Nat : m = n + 1
  OBVIOUS
<1>7. /\ DOMAIN u = 1 .. m /\ DOMAIN v = 1 .. m + 1
      /\ \A i \in 1 .. m : v[i] = u[i]
  BY <1>1, <1>2, <1>4, <1>6
<1>8. u[n + 1] = f /\ v[m + 1] = d
  BY <1>1, <1>2, <1>4, <1>6
<1>9. Times(o, u) = Times(o, s) + Bit(u[n + 1], o)
  BY <1>5, TimesAppend
<1>10. Times(o, v) = Times(o, u) + Bit(v[m + 1], o)
  BY <1>7, TimesAppend
<1> QED
  BY <1>2, <1>3, <1>8, <1>9, <1>10, BitType DEF WithOne, WithTwo

-----------------------------------------------------------------------------
(***************************************************************************)
(* A step that changes one record.                                         *)
(***************************************************************************)

\* Only r changes, if any record does.
RecStep(r) ==
    /\ rec' \in [Records -> RecordType]
    /\ \A q \in Records : q # r => rec'[q] = rec[q]
    /\ rec'[r].state \notin {"unused", "invalid", "gone"} =>
          rec'[r].func \in Objects

\* References of the records and of the calls in progress on o.
RecordSum(o) ==
    Times(o, FuncOf) + Times(o, DataOf) + Times(o, OperationOf) + Times(o, TupleOf)
CallSum(o) == Times(o, CallData) + Times(o, CallGot)

\* What r has more after the step than before.
Delta(r, o) ==
      (Bit(FuncOf'[r], o) - Bit(FuncOf[r], o))
    + (Bit(DataOf'[r], o) - Bit(DataOf[r], o))
    + (Bit(OperationOf'[r], o) - Bit(OperationOf[r], o))
    + (Bit(TupleOf'[r], o) - Bit(TupleOf[r], o))

\* Records count what r counts more or less.
LEMMA RecordDelta ==
    ASSUME CountInv, NEW r \in Records, NEW o \in Objects,
           \A q \in Records : q # r => rec'[q] = rec[q]
    PROVE  /\ IsFiniteSet(Holders(o, FuncOf')) /\ IsFiniteSet(Holders(o, DataOf'))
           /\ IsFiniteSet(Holders(o, OperationOf')) /\ IsFiniteSet(Holders(o, TupleOf'))
           /\ RecordSum(o) \in Nat /\ RecordSum(o)' \in Nat
           /\ RecordSum(o)' = RecordSum(o) + Delta(r, o)
<1>1. /\ IsFiniteSet(Holders(o, FuncOf)) /\ IsFiniteSet(Holders(o, DataOf))
      /\ IsFiniteSet(Holders(o, OperationOf)) /\ IsFiniteSet(Holders(o, TupleOf))
  BY DEF CountInv, FiniteHolders
<1>2. /\ IsFiniteSet(Holders(o, FuncOf'))
      /\ Times(o, FuncOf) \in Nat /\ Times(o, FuncOf') \in Nat
      /\ Times(o, FuncOf') = Times(o, FuncOf) - Bit(FuncOf[r], o) + Bit(FuncOf'[r], o)
  <2>1. /\ DOMAIN FuncOf = Records /\ DOMAIN FuncOf' = Records
        /\ \A q \in Records : q # r => FuncOf'[q] = FuncOf[q]
    BY DEF FuncOf, Keeps
  <2> HIDE DEF FuncOf
  <2> QED
    BY <1>1, <2>1, TimesChange
<1>3. /\ IsFiniteSet(Holders(o, DataOf'))
      /\ Times(o, DataOf) \in Nat /\ Times(o, DataOf') \in Nat
      /\ Times(o, DataOf') = Times(o, DataOf) - Bit(DataOf[r], o) + Bit(DataOf'[r], o)
  <2>1. /\ DOMAIN DataOf = Records /\ DOMAIN DataOf' = Records
        /\ \A q \in Records : q # r => DataOf'[q] = DataOf[q]
    BY DEF DataOf, Keeps, GaveAway
  <2> HIDE DEF DataOf
  <2> QED
    BY <1>1, <2>1, TimesChange
<1>4. /\ IsFiniteSet(Holders(o, OperationOf'))
      /\ Times(o, OperationOf) \in Nat /\ Times(o, OperationOf') \in Nat
      /\ Times(o, OperationOf')
           = Times(o, OperationOf) - Bit(OperationOf[r], o) + Bit(OperationOf'[r], o)
  <2>1. /\ DOMAIN OperationOf = Records /\ DOMAIN OperationOf' = Records
        /\ \A q \in Records : q # r => OperationOf'[q] = OperationOf[q]
    BY DEF OperationOf
  <2> QED
    BY <1>1, <2>1, TimesChange
<1>5. /\ IsFiniteSet(Holders(o, TupleOf'))
      /\ Times(o, TupleOf) \in Nat /\ Times(o, TupleOf') \in Nat
      /\ Times(o, TupleOf') = Times(o, TupleOf) - Bit(TupleOf[r], o) + Bit(TupleOf'[r], o)
  <2>1. /\ DOMAIN TupleOf = Records /\ DOMAIN TupleOf' = Records
        /\ \A q \in Records : q # r => TupleOf'[q] = TupleOf[q]
    BY DEF TupleOf
  <2> QED
    BY <1>1, <2>1, TimesChange
<1> QED
  BY <1>2, <1>3, <1>4, <1>5, BitType DEF RecordSum, Delta

\* The counts of calls in progress are numbers.
LEMMA CallSumType ==
    ASSUME NEW o, stack \in Seq(FrameType)
    PROVE  CallSum(o) \in Nat
<1>1. PICK n \in Nat : DOMAIN stack = 1 .. n
  OBVIOUS
<1>2. DOMAIN CallData = 1 .. n /\ DOMAIN CallGot = 1 .. n
  BY <1>1 DEF CallData, CallGot
<1> QED
  BY <1>2, TimesSequence DEF CallSum

\* So they are after a step.
LEMMA CallSumTypeNext ==
    ASSUME NEW o, stack' \in Seq(FrameType)
    PROVE  CallSum(o)' \in Nat
<1>1. PICK n \in Nat : DOMAIN stack' = 1 .. n
  OBVIOUS
<1>2. DOMAIN CallData' = 1 .. n /\ DOMAIN CallGot' = 1 .. n
  BY <1>1 DEF CallData, CallGot
<1> QED
  BY <1>2, TimesSequence DEF CallSum

\* One call more.
LEMMA CallSumPush ==
    ASSUME NEW o, stack \in Seq(FrameType), NEW f \in FrameType,
           stack' = Append(stack, f)
    PROVE  CallSum(o)' = CallSum(o) + Bit(f.data, o) + Bit(f.got, o)
<1>1. PICK n \in Nat : n = Len(stack)
  OBVIOUS
<1>2. /\ DOMAIN stack = 1 .. n /\ DOMAIN stack' = 1 .. n + 1 /\ stack'[n + 1] = f
      /\ \A i \in 1 .. n : stack'[i] = stack[i]
  BY <1>1
<1>3. /\ DOMAIN CallData = 1 .. n /\ DOMAIN CallData' = 1 .. n + 1
      /\ \A i \in 1 .. n : CallData'[i] = CallData[i]
      /\ CallData'[n + 1] = f.data
  BY <1>2 DEF CallData
<1>4. /\ DOMAIN CallGot = 1 .. n /\ DOMAIN CallGot' = 1 .. n + 1
      /\ \A i \in 1 .. n : CallGot'[i] = CallGot[i]
      /\ CallGot'[n + 1] = f.got
  BY <1>2 DEF CallGot
<1>5. /\ Times(o, CallData') = Times(o, CallData) + Bit(f.data, o)
      /\ Times(o, CallData) \in Nat
  <2>1. /\ Times(o, CallData') = Times(o, CallData) + Bit(CallData'[n + 1], o)
        /\ Times(o, CallData) \in Nat
    BY <1>3, TimesAppend, Zenon
  <2> QED
    BY <1>3, <2>1
<1>6. /\ Times(o, CallGot') = Times(o, CallGot) + Bit(f.got, o)
      /\ Times(o, CallGot) \in Nat
  <2>1. /\ Times(o, CallGot') = Times(o, CallGot) + Bit(CallGot'[n + 1], o)
        /\ Times(o, CallGot) \in Nat
    BY <1>4, TimesAppend, Zenon
  <2> QED
    BY <1>4, <2>1
<1> QED
  BY <1>5, <1>6, BitType DEF CallSum

\* One call less.
LEMMA CallSumPop ==
    ASSUME NEW o, stack \in Seq(FrameType), stack # <<>>,
           stack' = SubSeq(stack, 1, Len(stack) - 1)
    PROVE  CallSum(o) = CallSum(o)' + Bit(Top.data, o) + Bit(Top.got, o)
<1>1. PICK n \in Nat : n + 1 = Len(stack)
  <2>1. Len(stack) \in Nat /\ Len(stack) > 0
    OBVIOUS
  <2>2. Len(stack) - 1 \in Nat /\ (Len(stack) - 1) + 1 = Len(stack)
    BY <2>1
  <2> QED
    BY <2>2
<1>2. /\ DOMAIN stack = 1 .. n + 1 /\ DOMAIN stack' = 1 .. n
      /\ \A i \in 1 .. n : stack[i] = stack'[i]
      /\ stack[n + 1] = Top
  BY <1>1 DEF Top
<1>3. /\ DOMAIN CallData' = 1 .. n /\ DOMAIN CallData = 1 .. n + 1
      /\ \A i \in 1 .. n : CallData[i] = CallData'[i]
      /\ CallData[n + 1] = Top.data
  BY <1>2 DEF CallData
<1>4. /\ DOMAIN CallGot' = 1 .. n /\ DOMAIN CallGot = 1 .. n + 1
      /\ \A i \in 1 .. n : CallGot[i] = CallGot'[i]
      /\ CallGot[n + 1] = Top.got
  BY <1>2 DEF CallGot
<1>5. /\ Times(o, CallData) = Times(o, CallData') + Bit(Top.data, o)
      /\ Times(o, CallData') \in Nat
  <2>1. /\ Times(o, CallData) = Times(o, CallData') + Bit(CallData[n + 1], o)
        /\ Times(o, CallData') \in Nat
    BY <1>3, TimesAppend, Zenon
  <2> QED
    BY <1>3, <2>1
<1>6. /\ Times(o, CallGot) = Times(o, CallGot') + Bit(Top.got, o)
      /\ Times(o, CallGot') \in Nat
  <2>1. /\ Times(o, CallGot) = Times(o, CallGot') + Bit(CallGot[n + 1], o)
        /\ Times(o, CallGot') \in Nat
    BY <1>4, TimesAppend, Zenon
  <2> QED
    BY <1>4, <2>1
<1> QED
  BY <1>5, <1>6, BitType DEF CallSum

\* The counts stay exact if references are taken and given back as records,
\* calls and names come and go.
LEMMA CountStep ==
    ASSUME TypeOK, CountInv, NEW r \in Records,
           \A q \in Records : q # r => rec'[q] = rec[q],
           stack' \in Seq(FrameType), DOMAIN refs' = Objects,
           refs' = [o \in Objects |-> refs'[o]],
           \A o \in Objects :
              refs'[o] = refs[o] + Delta(r, o) + (CallSum(o)' - CallSum(o))
                         + (In(o, names') - In(o, names))
    PROVE  CountInv' /\ refs' \in [Objects -> Nat]
<1>1. ASSUME NEW o \in Objects
      PROVE  /\ refs[o] = RecordSum(o) + CallSum(o) + In(o, names)
             /\ refs'[o] = RecordSum(o)' + CallSum(o)' + In(o, names')
             /\ refs'[o] \in Nat
  <2>1. /\ RecordSum(o) \in Nat /\ RecordSum(o)' \in Nat
        /\ RecordSum(o)' = RecordSum(o) + Delta(r, o)
    BY RecordDelta
  <2>2. CallSum(o) \in Nat
    BY CallSumType DEF TypeOK
  <2>3. CallSum(o)' \in Nat
    BY CallSumTypeNext
  <2>4. refs[o] = RecordSum(o) + CallSum(o) + In(o, names)
    <3>1. /\ Times(o, FuncOf) \in Nat /\ Times(o, DataOf) \in Nat
          /\ Times(o, OperationOf) \in Nat /\ Times(o, TupleOf) \in Nat
      BY FS_CardinalityType, TimesHolders DEF CountInv, FiniteHolders
    <3>2. Times(o, CallData) \in Nat /\ Times(o, CallGot) \in Nat
      <4>1. PICK n \in Nat : DOMAIN stack = 1 .. n
        BY DEF TypeOK
      <4>2. DOMAIN CallData = 1 .. n /\ DOMAIN CallGot = 1 .. n
        BY <4>1 DEF CallData, CallGot
      <4> QED
        BY <4>2, TimesSequence
    <3> QED
      BY <3>1, <3>2 DEF CountInv, CallbackRefsExact, RecordSum, CallSum, In
  <2>5. Delta(r, o) \in Int
    BY BitType DEF Delta
  <2>6. /\ refs'[o] = refs[o] + Delta(r, o) + (CallSum(o)' - CallSum(o))
                       + (In(o, names') - In(o, names))
        /\ In(o, names') \in {0, 1} /\ In(o, names) \in {0, 1}
    BY BitType
  <2>7. refs'[o] = RecordSum(o)' + CallSum(o)' + In(o, names')
    BY <2>1, <2>2, <2>3, <2>4, <2>5, <2>6
  <2> QED
    BY <2>1, <2>3, <2>4, <2>6, <2>7
<1>2. FiniteHolders'
  BY RecordDelta DEF FiniteHolders
<1>3. CallbackRefsExact'
  <2> SUFFICES ASSUME NEW o \in Objects
               PROVE  refs'[o] = Times(o, FuncOf') + Times(o, DataOf')
                          + Times(o, OperationOf') + Times(o, TupleOf')
                          + Times(o, CallData') + Times(o, CallGot')
                          + (IF o \in names' THEN 1 ELSE 0)
    BY DEF CallbackRefsExact
  <2>1. /\ Times(o, FuncOf') \in Nat /\ Times(o, DataOf') \in Nat
        /\ Times(o, OperationOf') \in Nat /\ Times(o, TupleOf') \in Nat
    BY <1>2, FS_CardinalityType, TimesHolders DEF FiniteHolders
  <2>2. Times(o, CallData') \in Nat /\ Times(o, CallGot') \in Nat
    <3>1. PICK n \in Nat : DOMAIN stack' = 1 .. n
      OBVIOUS
    <3>2. DOMAIN CallData' = 1 .. n /\ DOMAIN CallGot' = 1 .. n
      BY <3>1 DEF CallData, CallGot
    <3> QED
      BY <3>2, TimesSequence
  <2> QED
    BY <1>1, <2>1, <2>2 DEF RecordSum, CallSum, In
<1> QED
  BY <1>1, <1>2, <1>3 DEF CountInv

\* Reference counts after a Count.
Counted == DOMAIN refs' = Objects /\ refs' = [o \in Objects |-> refs'[o]]

\* What Count does.
LEMMA CountEffect ==
    ASSUME NEW plus, NEW minus, Count(plus, minus)
    PROVE  /\ Counted
           /\ \A o \in Objects :
                 refs'[o] = refs[o] + Times(o, plus) - Times(o, minus)
BY DEF Count, Counted

\* What a record owns.
Owns(r, f, d, x, t) ==
    FuncOf[r] = f /\ DataOf[r] = d /\ OperationOf[r] = x /\ TupleOf[r] = t

\* The change of what r owns.
LEMMA DeltaIs ==
    ASSUME NEW r, NEW o, NEW f, NEW d, NEW x, NEW t,
           NEW f2, NEW d2, NEW x2, NEW t2,
           Owns(r, f, d, x, t), Owns(r, f2, d2, x2, t2)'
    PROVE  Delta(r, o) = (Bit(f2, o) - Bit(f, o)) + (Bit(d2, o) - Bit(d, o))
                         + (Bit(x2, o) - Bit(x, o)) + (Bit(t2, o) - Bit(t, o))
BY DEF Delta, Owns

\* NULL is no object.
LEMMA NullBit == \A o \in Objects : Bit(NULL, o) = 0
BY CallbackConstants DEF Bit

\* A step that changes only the record r, and not the calls in progress.
LEMMA SameStackStep ==
    ASSUME TypeOK, ShapeInv, CountInv, NEW r \in Records, RecStep(r),
           stack' = stack, names' = names, Counted,
           \A o \in Objects : refs'[o] = refs[o] + Delta(r, o),
           RecordOK(r)',
           \A i \in DOMAIN stack : stack[i].rec = r => CallOK(i)'
    PROVE  TypeOK' /\ ShapeInv' /\ CountInv'
<1>1. CountInv' /\ refs' \in [Objects -> Nat]
  <2>1. ASSUME NEW o \in Objects
        PROVE  refs'[o] = refs[o] + Delta(r, o) + (CallSum(o)' - CallSum(o))
                          + (In(o, names') - In(o, names))
    <3>1. CallSum(o)' = CallSum(o)
      BY DEF CallSum, CallData, CallGot
    <3>2. CallSum(o) \in Nat /\ refs[o] \in Nat /\ Delta(r, o) \in Int
      BY CallSumType, BitType DEF TypeOK, Delta
    <3>3. In(o, names') = In(o, names) /\ In(o, names) \in Int
      BY BitType
    <3>4. refs'[o] = refs[o] + Delta(r, o)
      OBVIOUS
    <3> QED
      BY <3>1, <3>2, <3>3, <3>4
  <2>2. stack' \in Seq(FrameType)
    BY DEF TypeOK
  <2>3. \A q \in Records : q # r => rec'[q] = rec[q]
    BY DEF RecStep
  <2> QED
    BY <2>1, <2>2, <2>3, CountStep DEF Counted
<1>2. TypeOK'
  BY <1>1 DEF TypeOK, RecStep
<1>3. ASSUME NEW q \in Records
      PROVE  RecordOK(q)'
  BY DEF ShapeInv, RecordOK, RecStep
<1>4. ASSUME NEW i \in DOMAIN stack
      PROVE  CallOK(i)'
  <2>1. stack[i].rec \in Records
    <3>1. stack \in Seq(FrameType)
      BY DEF TypeOK
    <3>2. stack[i] \in FrameType
      BY <3>1
    <3> QED
      BY <3>2 DEF FrameType
  <2>2. CASE stack[i].rec # r
    <3>1. rec'[stack[i].rec] = rec[stack[i].rec]
      BY <2>1, <2>2 DEF RecStep
    <3>2. CallOK(i)
      BY DEF ShapeInv
    <3> QED
      BY <3>1, <3>2 DEF CallOK
  <2> QED
    BY <2>2
<1> QED
  BY <1>1, <1>2, <1>3, <1>4 DEF ShapeInv

\* r becomes the record v, with references on f, d and x.
Made(r, v, f, d, x) ==
    /\ rec[r] = Unused /\ rec' = [rec EXCEPT ![r] = v] /\ v \in RecordType
    /\ f \in Objects /\ d \in Maybe /\ x \in Maybe
    /\ v.state \in {"pending", "lost"} /\ v.func = f /\ v.data = d
    /\ v.operation = x /\ v.tuple = NULL /\ v.answer = NULL
    /\ v.magic # "out" /\ (v.job = "queued" => v.magic = "in")
    /\ Counted
    /\ \A o \in Objects : refs'[o] = refs[o] + Bit(f, o) + Bit(d, o) + Bit(x, o)
    /\ names' = names /\ stack' = stack

\* A record is made.
LEMMA MadeStep ==
    ASSUME TypeOK, ShapeInv, CountInv, NEW r \in Records,
           NEW v, NEW f, NEW d, NEW x, Made(r, v, f, d, x)
    PROVE  TypeOK' /\ ShapeInv' /\ CountInv'
<1> USE DEF Made
<1>1. /\ rec[r].state = "unused" /\ rec[r].operation = NULL /\ rec[r].tuple = NULL
      /\ rec'[r] = v
  BY DEF Unused, TypeOK
<1>2. Owns(r, NULL, NULL, NULL, NULL)
  BY <1>1 DEF Owns, FuncOf, DataOf, OperationOf, TupleOf, Keeps
<1>3. Owns(r, f, d, x, NULL)'
  BY <1>1 DEF Owns, FuncOf, DataOf, OperationOf, TupleOf, Keeps, GaveAway
<1>4. ASSUME NEW o \in Objects
      PROVE  refs'[o] = refs[o] + Delta(r, o)
  <2>1. Delta(r, o) = (Bit(f, o) - Bit(NULL, o)) + (Bit(d, o) - Bit(NULL, o))
                      + (Bit(x, o) - Bit(NULL, o)) + (Bit(NULL, o) - Bit(NULL, o))
    BY <1>2, <1>3, DeltaIs
  <2>2. refs'[o] = refs[o] + Bit(f, o) + Bit(d, o) + Bit(x, o) /\ refs[o] \in Nat
    BY DEF TypeOK
  <2> QED
    BY <2>1, <2>2, NullBit, BitType
<1>5. RecStep(r)
  BY <1>1 DEF RecStep, TypeOK
<1>6. RecordOK(r)'
  BY <1>1 DEF RecordOK
<1>7. \A i \in DOMAIN stack : stack[i].rec # r
  BY <1>1 DEF ShapeInv, CallOK
<1> QED
  BY <1>4, <1>5, <1>6, <1>7, SameStackStep

-----------------------------------------------------------------------------
(***************************************************************************)
(* The steps.                                                              *)
(***************************************************************************)

\* An unused record is a record.
LEMMA UnusedType ==
    /\ Unused \in RecordType
    /\ Unused.operation = NULL /\ Unused.tuple = NULL /\ Unused.answer = NULL
    /\ Unused.magic = "none" /\ Unused.job = "none"
BY DEF Unused, RecordType, Maybe

\* Register and activate_fails.
LEMMA RegisterStep ==
    ASSUME TypeOK, ShapeInv, CountInv, NEW r \in Records, rec[r] = Unused,
           NEW st \in {"pending", "lost"}, NEW k \in OneShot \cup Lasting,
           NEW f \in names, NEW d \in Maybe,
           rec' = [rec EXCEPT ![r] = [Unused EXCEPT !.state = st, !.kind = k,
                                                    !.func = f, !.data = d]],
           Count(<<f, d>>, <<>>), UNCHANGED <<names, stack>>
    PROVE  TypeOK' /\ ShapeInv' /\ CountInv'
<1>1. f \in Objects
  BY DEF TypeOK
<1>2. PICK v : v = [Unused EXCEPT !.state = st, !.kind = k, !.func = f, !.data = d]
  OBVIOUS
<1>3. /\ v \in RecordType /\ v.state = st /\ v.func = f /\ v.data = d
      /\ v.operation = NULL /\ v.tuple = NULL /\ v.answer = NULL
      /\ v.magic = "none" /\ v.job = "none"
  <2>1. v \in RecordType
    <3>1. f \in Maybe
      BY <1>1 DEF Maybe
    <3> QED
      BY <1>2, <3>1, UnusedType, Zenon DEF RecordType
  <2>2. /\ v.state = st /\ v.func = f /\ v.data = d
        /\ v.operation = NULL /\ v.tuple = NULL /\ v.answer = NULL
        /\ v.magic = "none" /\ v.job = "none"
    BY <1>2 DEF Unused
  <2> QED
    BY <2>1, <2>2
<1>4. ASSUME NEW o \in Objects
      PROVE  refs'[o] = refs[o] + Bit(f, o) + Bit(d, o) + Bit(NULL, o)
  <2>1. refs'[o] = refs[o] + Times(o, <<f, d>>) - Times(o, <<>>)
    BY CountEffect
  <2>2. Times(o, <<f, d>>) = Bit(f, o) + Bit(d, o) /\ Times(o, <<>>) = 0
    BY TimesTuples
  <2>3. refs[o] \in Nat
    BY DEF TypeOK
  <2> QED
    BY <2>1, <2>2, <2>3, NullBit, BitType
<1>5. rec' = [rec EXCEPT ![r] = v]
  BY <1>2
<1>6. Counted /\ names' = names /\ stack' = stack
  BY CountEffect
<1>7. NULL \in Maybe
  BY DEF Maybe
<1>8. rec[r] = Unused /\ d \in Maybe /\ st \in {"pending", "lost"}
  OBVIOUS
<1>9. Made(r, v, f, d, NULL)
  BY <1>1, <1>3, <1>4, <1>5, <1>6, <1>7, <1>8 DEF Made
<1> QED
  BY <1>9, MadeStep

\* pygvfs_async_file_control, on a handle that is open or not.
LEMMA ControlStep ==
    ASSUME TypeOK, ShapeInv, CountInv, NEW r \in Records, NEW f, NEW d \in Maybe, NEW x,
           NEW fd, pygvfs_async_file_control(r, f, d, x, fd)
    PROVE  TypeOK' /\ ShapeInv' /\ CountInv'
<1>1. rec[r] = Unused /\ f \in Objects /\ x \in Objects /\ x \in Maybe /\ f \in Maybe
  BY DEF TypeOK, pygvfs_async_file_control, Maybe
<1>0. PICK st, job : /\ st = IF fd = NULL THEN "lost" ELSE "pending"
                     /\ job = IF fd = NULL THEN "none" ELSE "queued"
  OBVIOUS
<1>00. st \in {"pending", "lost"} /\ job \in {"none", "queued"}
  BY <1>0
<1>2. PICK v : v = [Unused EXCEPT !.state = st, !.kind = "control",
                      !.func = f, !.data = d, !.job = job, !.magic = "in",
                      !.operation = x]
  OBVIOUS
<1>3. v \in RecordType
  <2>1. "control" \in OneShot \cup Lasting
    BY DEF OneShot
  <2>2. CASE st = "pending" /\ job = "queued"
    <3>1. v = [Unused EXCEPT !.state = "pending", !.kind = "control",
                 !.func = f, !.data = d, !.job = "queued", !.magic = "in",
                 !.operation = x]
      BY <1>2, <2>2
    <3> QED
      BY <1>1, <2>1, <3>1, UnusedType, Zenon DEF RecordType
  <2>3. CASE st = "lost" /\ job = "none"
    <3>1. v = [Unused EXCEPT !.state = "lost", !.kind = "control",
                 !.func = f, !.data = d, !.job = "none", !.magic = "in",
                 !.operation = x]
      BY <1>2, <2>3
    <3> QED
      BY <1>1, <2>1, <3>1, UnusedType, Zenon DEF RecordType
  <2> QED
    BY <1>0, <2>2, <2>3
<1>4. /\ v.state = st /\ v.func = f /\ v.data = d
      /\ v.operation = x /\ v.tuple = NULL /\ v.answer = NULL
      /\ v.magic = "in" /\ v.job = job
  BY <1>2 DEF Unused
<1>5. Count(<<f, d, x>>, <<>>)
  BY DEF pygvfs_async_file_control
<1>6. ASSUME NEW o \in Objects
      PROVE  refs'[o] = refs[o] + Bit(f, o) + Bit(d, o) + Bit(x, o)
  <2>1. refs'[o] = refs[o] + Times(o, <<f, d, x>>) - Times(o, <<>>)
    BY <1>5, CountEffect
  <2>2. /\ Times(o, <<f, d, x>>) = Bit(f, o) + Bit(d, o) + Bit(x, o)
        /\ Times(o, <<>>) = 0
    <3>1. /\ \A a, b, c : Times(o, <<a, b, c>>)
                             = Bit(a, o) + Bit(b, o) + Bit(c, o)
          /\ Times(o, <<>>) = 0
      BY TimesTuples
    <3> QED
      BY <3>1
  <2>3. refs[o] \in Nat
    BY DEF TypeOK
  <2> QED
    BY <2>1, <2>2, <2>3, BitType
<1>7. rec' = [rec EXCEPT ![r] = v]
  BY <1>0, <1>2 DEF pygvfs_async_file_control
<1>8. Counted /\ names' = names /\ stack' = stack
  BY <1>5, CountEffect DEF pygvfs_async_file_control
<1>9. d \in Maybe
  OBVIOUS
<1>10. Made(r, v, f, d, x)
  BY <1>1, <1>00, <1>3, <1>4, <1>6, <1>7, <1>8, <1>9 DEF Made
<1> QED
  BY <1>10, MadeStep

\* Reference counts that do not change.
LEMMA NothingCounted ==
    ASSUME TypeOK, refs' = refs
    PROVE  Counted /\ \A o \in Objects : refs'[o] = refs[o] /\ refs[o] \in Nat
BY DEF TypeOK, Counted

\* Cancel.
LEMMA CancelStep ==
    ASSUME TypeOK, ShapeInv, CountInv, NEW r \in Records, Cancel(r)
    PROVE  TypeOK' /\ ShapeInv' /\ CountInv'
<1>0. /\ rec[r] \in RecordType /\ rec[r].state = "pending" /\ rec[r].kind = "control"
      /\ UNCHANGED <<names, refs, stack>> /\ rec[r].func \in Objects
  BY DEF Cancel, TypeOK
<1>1. PICK v : v = [rec[r] EXCEPT !.state = "lost"]
  OBVIOUS
<1>2. rec' = [rec EXCEPT ![r] = v] /\ rec'[r] = v
  BY <1>1 DEF Cancel, TypeOK
<1>3. /\ v \in RecordType /\ v.state = "lost" /\ v.kind = rec[r].kind
      /\ v.func = rec[r].func /\ v.data = rec[r].data /\ v.job = rec[r].job
      /\ v.magic = rec[r].magic /\ v.operation = rec[r].operation
      /\ v.tuple = rec[r].tuple /\ v.answer = rec[r].answer
  <2>1. v \in RecordType
    BY <1>0, <1>1, Zenon DEF RecordType
  <2> QED
    BY <1>0, <1>1, <2>1 DEF RecordType
<1>4. PICK f, d, x, t : /\ f = rec[r].func /\ d = rec[r].data
                        /\ x = rec[r].operation /\ t = rec[r].tuple
  OBVIOUS
<1>5. Owns(r, f, d, x, t)
  BY <1>0, <1>4 DEF Owns, FuncOf, DataOf, OperationOf, TupleOf, Keeps, GaveAway
<1>6. Owns(r, f, d, x, t)'
  BY <1>2, <1>3, <1>4 DEF Owns, FuncOf, DataOf, OperationOf, TupleOf, Keeps, GaveAway
<1>7. ASSUME NEW o \in Objects
      PROVE  refs'[o] = refs[o] + Delta(r, o)
  <2>1. Delta(r, o) = (Bit(f, o) - Bit(f, o)) + (Bit(d, o) - Bit(d, o))
                      + (Bit(x, o) - Bit(x, o)) + (Bit(t, o) - Bit(t, o))
    BY <1>5, <1>6, DeltaIs
  <2>2. refs'[o] = refs[o] /\ refs[o] \in Nat
    BY <1>0, NothingCounted
  <2> QED
    BY <2>1, <2>2, BitType
<1>8. RecStep(r)
  BY <1>0, <1>2, <1>3 DEF RecStep, TypeOK
<1>9. RecordOK(r)'
  BY <1>2, <1>3 DEF ShapeInv, RecordOK
<1>10. \A i \in DOMAIN stack : stack[i].rec # r
  BY <1>0 DEF ShapeInv, CallOK, OneShot, Lasting
<1> QED
  BY <1>0, <1>7, <1>8, <1>9, <1>10, SameStackStep, NothingCounted

\* The fields the job of a control operation works on change; the others stay.
Worked(r, v) ==
    /\ rec' = [rec EXCEPT ![r] = v] /\ v \in RecordType
    /\ v.state = rec[r].state /\ v.kind = rec[r].kind
    /\ v.func = rec[r].func /\ v.data = rec[r].data

\* A job's step, or the end of operation data.
LEMMA WorkedStep ==
    ASSUME TypeOK, ShapeInv, CountInv, NEW r \in Records, NEW v, Worked(r, v),
           NEW x, NEW t, x = v.operation, t = v.tuple,
           v.job = "done",
           IF v.magic = "out" THEN v.operation = v.answer ELSE v.answer = NULL,
           rec[r].job = "queued" \/ rec[r].state \in {"gone", "lost"},
           UNCHANGED <<names, stack>>, Counted,
           \A o \in Objects :
              refs'[o] = refs[o] + (Bit(x, o) - Bit(rec[r].operation, o))
                                 + (Bit(t, o) - Bit(rec[r].tuple, o))
    PROVE  TypeOK' /\ ShapeInv' /\ CountInv'
<1>0. rec'[r] = v /\ rec[r] \in RecordType
  BY DEF Worked, TypeOK
<1>1. PICK f, d, x1, t1 : /\ f = FuncOf[r] /\ d = DataOf[r]
                          /\ x1 = rec[r].operation /\ t1 = rec[r].tuple
  OBVIOUS
<1>2. Owns(r, f, d, x1, t1)
  BY <1>1 DEF Owns, OperationOf, TupleOf
<1>3. Owns(r, f, d, x, t)'
  BY <1>0, <1>1 DEF Owns, FuncOf, DataOf, OperationOf, TupleOf, Keeps, GaveAway, Worked
<1>4. ASSUME NEW o \in Objects
      PROVE  refs'[o] = refs[o] + Delta(r, o)
  <2>1. Delta(r, o) = (Bit(f, o) - Bit(f, o)) + (Bit(d, o) - Bit(d, o))
                      + (Bit(x, o) - Bit(x1, o)) + (Bit(t, o) - Bit(t1, o))
    BY <1>2, <1>3, DeltaIs
  <2>2. /\ refs'[o] = refs[o] + (Bit(x, o) - Bit(x1, o)) + (Bit(t, o) - Bit(t1, o))
        /\ refs[o] \in Nat
    BY <1>1 DEF TypeOK
  <2> QED
    BY <2>1, <2>2, BitType
<1>5. RecStep(r)
  BY <1>0 DEF RecStep, TypeOK, Worked
<1>6. RecordOK(r)'
  BY <1>0 DEF ShapeInv, RecordOK, Worked
<1>7. ASSUME NEW i \in DOMAIN stack, stack[i].rec = r
      PROVE  CallOK(i)'
  <2>1. CallOK(i) /\ RecordOK(r)
    BY DEF ShapeInv
  <2>2. /\ rec[r].state \in {"pending", "calling", "removed", "invalid"}
        /\ rec[r].kind = "control" => rec[r].state = "calling"
    BY <1>7, <2>1 DEF CallOK, OneShot, Lasting
  <2>3. rec[r].kind # "control"
    BY <2>1, <2>2 DEF RecordOK
  <2> QED
    BY <1>0, <1>7, <2>1, <2>3 DEF CallOK, Worked
<1> QED
  BY <1>4, <1>5, <1>6, <1>7, SameStackStep

\* do_file_control: the method answers.
LEMMA AnswerStep ==
    ASSUME TypeOK, ShapeInv, CountInv, NEW r \in Records, NEW a, do_file_control(r, a)
    PROVE  TypeOK' /\ ShapeInv' /\ CountInv'
<1>0. /\ rec[r] \in RecordType /\ rec[r].job = "queued" /\ rec[r].tuple = NULL
      /\ a \in Maybe /\ UNCHANGED <<names, stack>>
  BY DEF TypeOK, ShapeInv, RecordOK, do_file_control, Maybe
<1>1. PICK x : x = rec[r].operation /\ x \in Maybe
  BY <1>0 DEF RecordType
<1>2. PICK v : v = [rec[r] EXCEPT !.job = "done", !.magic = "out", !.operation = a,
                                  !.answer = a, !.tuple = x]
  OBVIOUS
<1>3. rec' = [rec EXCEPT ![r] = v]
  BY <1>1, <1>2 DEF do_file_control, TypeOK
<1>4. v \in RecordType
  BY <1>0, <1>1, <1>2, Zenon DEF RecordType
<1>5. /\ v.state = rec[r].state /\ v.kind = rec[r].kind
      /\ v.func = rec[r].func /\ v.data = rec[r].data
      /\ v.job = "done" /\ v.magic = "out" /\ v.operation = a /\ v.answer = a
      /\ v.tuple = x
  BY <1>0, <1>2 DEF RecordType
<1>6. Worked(r, v)
  BY <1>3, <1>4, <1>5 DEF Worked
<1>7. Count(<<x, a>>, <<x>>)
  BY <1>1 DEF do_file_control
<1>8. ASSUME NEW o \in Objects
      PROVE  refs'[o] = refs[o] + (Bit(a, o) - Bit(rec[r].operation, o))
                                + (Bit(x, o) - Bit(rec[r].tuple, o))
  <2>1. refs'[o] = refs[o] + Times(o, <<x, a>>) - Times(o, <<x>>)
    BY <1>7, CountEffect
  <2>2. Times(o, <<x, a>>) = Bit(x, o) + Bit(a, o) /\ Times(o, <<x>>) = Bit(x, o)
    BY TimesTuples
  <2>3. refs[o] \in Nat /\ Bit(rec[r].operation, o) = Bit(x, o)
        /\ Bit(rec[r].tuple, o) = 0
    BY <1>0, <1>1, NullBit DEF TypeOK
  <2> QED
    BY <2>1, <2>2, <2>3, BitType
<1>9. Counted
  BY <1>7, CountEffect
<1> QED
  BY <1>0, <1>5, <1>6, <1>8, <1>9, WorkedStep

\* do_file_control: the method raises.
LEMMA RaiseStep ==
    ASSUME TypeOK, ShapeInv, CountInv, NEW r \in Records, do_file_control_raises(r)
    PROVE  TypeOK' /\ ShapeInv' /\ CountInv'
<1>0. /\ rec[r] \in RecordType /\ rec[r].job = "queued" /\ rec[r].tuple = NULL
      /\ rec[r].magic = "in" /\ rec[r].answer = NULL /\ UNCHANGED <<names, stack>>
  BY DEF TypeOK, ShapeInv, RecordOK, do_file_control_raises
<1>1. PICK x : x = rec[r].operation /\ x \in Maybe
  BY <1>0 DEF RecordType
<1>2. PICK v : v = [rec[r] EXCEPT !.job = "done", !.tuple = x]
  OBVIOUS
<1>3. rec' = [rec EXCEPT ![r] = v]
  BY <1>1, <1>2 DEF do_file_control_raises, TypeOK
<1>4. v \in RecordType
  BY <1>0, <1>1, <1>2, Zenon DEF RecordType
<1>5. /\ v.state = rec[r].state /\ v.kind = rec[r].kind
      /\ v.func = rec[r].func /\ v.data = rec[r].data
      /\ v.job = "done" /\ v.magic = "in" /\ v.operation = x /\ v.answer = NULL
      /\ v.tuple = x
  BY <1>0, <1>1, <1>2 DEF RecordType
<1>6. Worked(r, v)
  BY <1>3, <1>4, <1>5 DEF Worked
<1>7. Count(<<x>>, <<>>)
  BY <1>1 DEF do_file_control_raises
<1>8. ASSUME NEW o \in Objects
      PROVE  refs'[o] = refs[o] + (Bit(x, o) - Bit(rec[r].operation, o))
                                + (Bit(x, o) - Bit(rec[r].tuple, o))
  <2>1. refs'[o] = refs[o] + Times(o, <<x>>) - Times(o, <<>>)
    BY <1>7, CountEffect
  <2>2. Times(o, <<x>>) = Bit(x, o) /\ Times(o, <<>>) = 0
    BY TimesTuples
  <2>3. refs[o] \in Nat /\ Bit(rec[r].operation, o) = Bit(x, o)
        /\ Bit(rec[r].tuple, o) = 0
    BY <1>0, <1>1, NullBit DEF TypeOK
  <2> QED
    BY <2>1, <2>2, <2>3, BitType
<1>9. Counted
  BY <1>7, CountEffect
<1> QED
  BY <1>0, <1>5, <1>6, <1>8, <1>9, WorkedStep

\* The method is written in C, or has no file_control.
LEMMA NotSupportedStep ==
    ASSUME TypeOK, ShapeInv, CountInv, NEW r \in Records, NotSupported(r)
    PROVE  TypeOK' /\ ShapeInv' /\ CountInv'
<1>0. /\ rec[r] \in RecordType /\ rec[r].job = "queued"
      /\ rec[r].magic = "in" /\ rec[r].answer = NULL
      /\ UNCHANGED <<names, refs, stack>>
  BY DEF TypeOK, ShapeInv, RecordOK, NotSupported
<1>1. PICK x, t : x = rec[r].operation /\ t = rec[r].tuple
  OBVIOUS
<1>2. PICK v : v = [rec[r] EXCEPT !.job = "done"]
  OBVIOUS
<1>3. rec' = [rec EXCEPT ![r] = v]
  BY <1>2 DEF NotSupported, TypeOK
<1>4. v \in RecordType
  BY <1>0, <1>2, Zenon DEF RecordType
<1>5. /\ v.state = rec[r].state /\ v.kind = rec[r].kind
      /\ v.func = rec[r].func /\ v.data = rec[r].data
      /\ v.job = "done" /\ v.magic = "in" /\ v.operation = x /\ v.answer = NULL
      /\ v.tuple = t
  BY <1>0, <1>1, <1>2 DEF RecordType
<1>6. Worked(r, v)
  BY <1>3, <1>4, <1>5 DEF Worked
<1>7. ASSUME NEW o \in Objects
      PROVE  refs'[o] = refs[o] + (Bit(x, o) - Bit(rec[r].operation, o))
                                + (Bit(t, o) - Bit(rec[r].tuple, o))
  BY <1>0, <1>1, NothingCounted, BitType
<1> QED
  BY <1>0, <1>5, <1>6, <1>7, NothingCounted, WorkedStep

\* pygvfs_operation_data_free.
LEMMA DataFreeStep ==
    ASSUME TypeOK, ShapeInv, CountInv, NEW r \in Records,
           pygvfs_operation_data_free(r)
    PROVE  TypeOK' /\ ShapeInv' /\ CountInv'
<1>0. /\ rec[r] \in RecordType /\ rec[r].job = "done"
      /\ rec[r].magic \in {"in", "out"} /\ rec[r].state \in {"gone", "lost"}
      /\ UNCHANGED <<names, stack>>
      /\ rec[r].magic # "out" => rec[r].answer = NULL
  BY DEF TypeOK, ShapeInv, RecordOK, pygvfs_operation_data_free
<1>1. PICK x, t : x = rec[r].operation /\ t = rec[r].tuple
  OBVIOUS
<1>2. CASE rec[r].magic = "out"
  <2>1. PICK v : v = [rec[r] EXCEPT !.magic = "none", !.operation = NULL,
                                    !.answer = NULL]
    OBVIOUS
  <2>2. rec' = [rec EXCEPT ![r] = v]
    BY <1>2, <2>1 DEF pygvfs_operation_data_free, TypeOK
  <2>3. v \in RecordType
    <3>1. NULL \in Maybe
      BY DEF Maybe
    <3> QED
      BY <1>0, <2>1, <3>1, Zenon DEF RecordType
  <2>4. /\ v.state = rec[r].state /\ v.kind = rec[r].kind
        /\ v.func = rec[r].func /\ v.data = rec[r].data
        /\ v.job = "done" /\ v.magic = "none" /\ v.operation = NULL
        /\ v.answer = NULL /\ v.tuple = t
    BY <1>0, <1>1, <2>1 DEF RecordType
  <2>5. Worked(r, v)
    BY <2>2, <2>3, <2>4 DEF Worked
  <2>6. Count(<<>>, <<x>>)
    BY <1>1, <1>2 DEF pygvfs_operation_data_free
  <2>7. ASSUME NEW o \in Objects
        PROVE  refs'[o] = refs[o] + (Bit(NULL, o) - Bit(rec[r].operation, o))
                                  + (Bit(t, o) - Bit(rec[r].tuple, o))
    <3>1. refs'[o] = refs[o] + Times(o, <<>>) - Times(o, <<x>>)
      BY <2>6, CountEffect
    <3>2. Times(o, <<x>>) = Bit(x, o) /\ Times(o, <<>>) = 0
      BY TimesTuples
    <3>3. refs[o] \in Nat /\ Bit(rec[r].operation, o) = Bit(x, o)
          /\ Bit(rec[r].tuple, o) = Bit(t, o) /\ Bit(NULL, o) = 0
      BY <1>1, NullBit DEF TypeOK
    <3> QED
      BY <3>1, <3>2, <3>3, BitType
  <2>8. Counted
    BY <2>6, CountEffect
  <2> QED
    BY <1>0, <2>4, <2>5, <2>7, <2>8, WorkedStep
<1>3. CASE rec[r].magic # "out"
  <2>1. PICK v : v = [rec[r] EXCEPT !.magic = "left"]
    OBVIOUS
  <2>2. rec' = [rec EXCEPT ![r] = v] /\ refs' = refs
    BY <1>3, <2>1 DEF pygvfs_operation_data_free, TypeOK
  <2>3. v \in RecordType
    BY <1>0, <2>1, Zenon DEF RecordType
  <2>4. /\ v.state = rec[r].state /\ v.kind = rec[r].kind
        /\ v.func = rec[r].func /\ v.data = rec[r].data
        /\ v.job = "done" /\ v.magic = "left" /\ v.operation = x
        /\ v.answer = NULL /\ v.tuple = t
    BY <1>0, <1>1, <1>3, <2>1 DEF RecordType
  <2>5. Worked(r, v)
    BY <2>2, <2>3, <2>4 DEF Worked
  <2>6. ASSUME NEW o \in Objects
        PROVE  refs'[o] = refs[o] + (Bit(x, o) - Bit(rec[r].operation, o))
                                  + (Bit(t, o) - Bit(rec[r].tuple, o))
    BY <1>1, <2>2, NothingCounted, BitType
  <2> QED
    BY <1>0, <2>2, <2>4, <2>5, <2>6, NothingCounted, WorkedStep
<1> QED
  BY <1>2, <1>3

\* The record of a call in progress is a record.
LEMMA CallsRecord ==
    ASSUME TypeOK, NEW i \in DOMAIN stack
    PROVE  /\ stack[i] \in FrameType /\ stack[i].rec \in Records
           /\ rec[stack[i].rec] \in RecordType
<1>1. stack \in Seq(FrameType)
  BY DEF TypeOK
<1>2. stack[i] \in FrameType
  BY <1>1
<1>3. stack[i].rec \in Records
  BY <1>2 DEF FrameType
<1> QED
  BY <1>2, <1>3 DEF TypeOK

\* What Invoke does to the calls in progress.
LEMMA InvokeEffect ==
    ASSUME TypeOK, NEW r \in Records, NEW got \in Maybe, Invoke(r, got)
    PROVE  \E f \in FrameType, n \in Nat :
              /\ f.rec = r /\ f.data = rec[r].data /\ f.got = got
              /\ stack' = Append(stack, f) /\ n = Len(stack) /\ n + 1 <= MaxDepth
              /\ DOMAIN stack = 1 .. n /\ DOMAIN stack' = 1 .. n + 1
              /\ stack'[n + 1] = f /\ (\A i \in 1 .. n : stack'[i] = stack[i])
              /\ stack' \in Seq(FrameType) /\ Len(stack') = n + 1
<1>1. rec[r].data \in Maybe
  BY DEF TypeOK, RecordType
<1>2. PICK f : f = [rec |-> r, data |-> rec[r].data, got |-> got]
  OBVIOUS
<1>3. f \in FrameType /\ f.rec = r /\ f.data = rec[r].data /\ f.got = got
  BY <1>1, <1>2 DEF FrameType
<1>4. PICK n \in Nat : n = Len(stack)
  BY DEF TypeOK
<1>5. stack' = Append(stack, f) /\ n + 1 <= MaxDepth
  BY <1>2, <1>4, CallbackConstants DEF Invoke
<1> QED
  BY <1>3, <1>4, <1>5 DEF TypeOK

\* The callback of a one-shot record is called.
LEMMA InvokeOnceStep ==
    ASSUME TypeOK, ShapeInv, CountInv, NEW r \in Records,
           NEW kind \in OneShot, NEW got \in Maybe, InvokeOnce(r, kind, got),
           kind = "control" => rec[r].job = "done" /\ got = rec[r].answer
    PROVE  TypeOK' /\ ShapeInv' /\ CountInv'
<1>0. /\ rec[r] \in RecordType /\ rec[r].state = "pending" /\ rec[r].kind = kind
      /\ Invoke(r, got) /\ names' = names /\ rec[r].func \in Objects
  BY DEF InvokeOnce, Invoke, TypeOK
<1>1. PICK v : v = [rec[r] EXCEPT !.state = "calling"]
  OBVIOUS
<1>2. rec' = [rec EXCEPT ![r] = v] /\ rec'[r] = v
  BY <1>1 DEF InvokeOnce, TypeOK
<1>3. /\ v \in RecordType /\ v.state = "calling" /\ v.kind = kind
      /\ v.func = rec[r].func /\ v.data = rec[r].data /\ v.job = rec[r].job
      /\ v.magic = rec[r].magic /\ v.operation = rec[r].operation
      /\ v.tuple = rec[r].tuple /\ v.answer = rec[r].answer
  <2>1. v \in RecordType
    BY <1>0, <1>1, Zenon DEF RecordType
  <2> QED
    BY <1>0, <1>1, <2>1 DEF RecordType
<1>4. PICK f, d, x, t : /\ f = rec[r].func /\ d = rec[r].data
                        /\ x = rec[r].operation /\ t = rec[r].tuple
  OBVIOUS
<1>5. Owns(r, f, d, x, t)
  BY <1>0, <1>4 DEF Owns, FuncOf, DataOf, OperationOf, TupleOf, Keeps, GaveAway
<1>6. PICK d2 : d2 = IF GivesAway(kind) THEN NULL ELSE d
  OBVIOUS
<1>7. Owns(r, f, d2, x, t)'
  BY <1>2, <1>3, <1>4, <1>6
     DEF Owns, FuncOf, DataOf, OperationOf, TupleOf, Keeps, GaveAway
<1>8. PICK fr \in FrameType, n \in Nat :
         /\ fr.rec = r /\ fr.data = d /\ fr.got = got
         /\ stack' = Append(stack, fr) /\ n = Len(stack) /\ n + 1 <= MaxDepth
         /\ DOMAIN stack = 1 .. n /\ DOMAIN stack' = 1 .. n + 1
         /\ stack'[n + 1] = fr /\ (\A i \in 1 .. n : stack'[i] = stack[i])
         /\ stack' \in Seq(FrameType) /\ Len(stack') = n + 1
  BY <1>0, <1>4, InvokeEffect
<1>9. RecStep(r)
  BY <1>0, <1>2, <1>3 DEF RecStep, TypeOK
<1>10. Count(IF GivesAway(kind) THEN <<got>> ELSE <<d, got>>, <<>>)
  BY <1>0, <1>4 DEF Invoke
<1>11. ASSUME NEW o \in Objects
       PROVE  refs'[o] = refs[o] + Delta(r, o) + (CallSum(o)' - CallSum(o))
                         + (In(o, names') - In(o, names))
  <2>1. Delta(r, o) = (Bit(f, o) - Bit(f, o)) + (Bit(d2, o) - Bit(d, o))
                      + (Bit(x, o) - Bit(x, o)) + (Bit(t, o) - Bit(t, o))
    BY <1>5, <1>7, DeltaIs
  <2>2. CallSum(o)' = CallSum(o) + Bit(d, o) + Bit(got, o)
    BY <1>8, CallSumPush DEF TypeOK
  <2>3. refs'[o] = refs[o] + Bit(got, o) + Bit(d2, o)
    <3>1. CASE GivesAway(kind)
      <4>1. refs'[o] = refs[o] + Times(o, <<got>>) - Times(o, <<>>)
        BY <1>10, <3>1, CountEffect
      <4>2. Times(o, <<got>>) = Bit(got, o) /\ Times(o, <<>>) = 0
        BY TimesTuples
      <4>3. refs[o] \in Nat /\ Bit(d2, o) = 0
        BY <1>6, <3>1, NullBit DEF TypeOK
      <4> QED
        BY <4>1, <4>2, <4>3, BitType
    <3>2. CASE ~GivesAway(kind)
      <4>1. refs'[o] = refs[o] + Times(o, <<d, got>>) - Times(o, <<>>)
        BY <1>10, <3>2, CountEffect
      <4>2. Times(o, <<d, got>>) = Bit(d, o) + Bit(got, o) /\ Times(o, <<>>) = 0
        BY TimesTuples
      <4>3. refs[o] \in Nat /\ d2 = d
        BY <1>6, <3>2 DEF TypeOK
      <4> QED
        BY <4>1, <4>2, <4>3, BitType
    <3> QED
      BY <3>1, <3>2
  <2>4. CallSum(o) \in Nat /\ refs[o] \in Nat
    BY CallSumType DEF TypeOK
  <2>5. In(o, names') = In(o, names) /\ In(o, names) \in Int
    BY <1>0, BitType
  <2> QED
    BY <2>1, <2>2, <2>3, <2>4, <2>5, BitType
<1>12. CountInv' /\ refs' \in [Objects -> Nat]
  <2>1. Counted
    BY <1>10, CountEffect
  <2>2. \A q \in Records : q # r => rec'[q] = rec[q]
    BY <1>9 DEF RecStep
  <2> QED
    BY <1>8, <1>11, <2>1, <2>2, CountStep DEF Counted
<1>13. TypeOK'
  BY <1>0, <1>8, <1>9, <1>12 DEF TypeOK, RecStep
<1>14. ASSUME NEW q \in Records
       PROVE  RecordOK(q)'
  BY <1>2, <1>3, <1>9 DEF ShapeInv, RecordOK, RecStep
<1>15. \A i \in DOMAIN stack : stack[i].rec # r
  BY <1>0 DEF ShapeInv, CallOK, OneShot, Lasting
<1>16. ASSUME NEW i \in DOMAIN stack'
       PROVE  CallOK(i)'
  <2>1. CASE i = n + 1
    <3>1. \A j \in DOMAIN stack' : stack'[j].rec = r => j = i
      BY <1>8, <1>15, <2>1
    <3> QED
      BY <1>2, <1>3, <1>8, <2>1, <3>1 DEF CallOK
  <2>2. CASE i # n + 1
    <3>1. i \in DOMAIN stack /\ i \in 1 .. n /\ stack'[i] = stack[i]
      BY <1>8, <2>2
    <3>2. stack[i].rec # r /\ rec'[stack[i].rec] = rec[stack[i].rec]
      BY <1>9, <1>15, <3>1, CallsRecord DEF RecStep
    <3>3. CallOK(i)
      BY <3>1 DEF ShapeInv
    <3>4. ASSUME NEW j \in DOMAIN stack', stack'[j].rec = stack[i].rec
          PROVE  j \in DOMAIN stack /\ stack[j].rec = stack[i].rec
      BY <1>8, <3>2, <3>4
    <3> QED
      BY <3>1, <3>2, <3>3, <3>4 DEF CallOK
  <2> QED
    BY <2>1, <2>2
<1> QED
  BY <1>12, <1>13, <1>14, <1>16 DEF ShapeInv

\* The callback of a lasting record is called.
LEMMA InvokeLastingStep ==
    ASSUME TypeOK, ShapeInv, CountInv, NEW r \in Records,
           NEW kind \in Lasting, InvokeLasting(r, kind)
    PROVE  TypeOK' /\ ShapeInv' /\ CountInv'
<1>0. /\ rec[r] \in RecordType /\ rec[r].state = "pending" /\ rec[r].kind = kind
      /\ Invoke(r, NULL) /\ names' = names /\ rec' = rec /\ rec[r].func \in Objects
  BY DEF InvokeLasting, Invoke, TypeOK
<1>1. PICK d : d = rec[r].data
  OBVIOUS
<1>2. PICK fr \in FrameType, n \in Nat :
         /\ fr.rec = r /\ fr.data = d /\ fr.got = NULL
         /\ stack' = Append(stack, fr) /\ n = Len(stack) /\ n + 1 <= MaxDepth
         /\ DOMAIN stack = 1 .. n /\ DOMAIN stack' = 1 .. n + 1
         /\ stack'[n + 1] = fr /\ (\A i \in 1 .. n : stack'[i] = stack[i])
         /\ stack' \in Seq(FrameType) /\ Len(stack') = n + 1
  BY <1>0, <1>1, InvokeEffect DEF Maybe
<1>3. ~GivesAway(kind) /\ kind \notin OneShot /\ kind # "control"
  BY DEF GivesAway, Lasting, OneShot
<1>4. Count(<<d, NULL>>, <<>>)
  BY <1>0, <1>1, <1>3 DEF Invoke
<1>5. ASSUME NEW o \in Objects
      PROVE  refs'[o] = refs[o] + Delta(r, o) + (CallSum(o)' - CallSum(o))
                        + (In(o, names') - In(o, names))
  <2>1. Delta(r, o) = 0
    <3>1. /\ FuncOf' = FuncOf /\ DataOf' = DataOf /\ OperationOf' = OperationOf
          /\ TupleOf' = TupleOf
      BY <1>0 DEF FuncOf, DataOf, OperationOf, TupleOf, Keeps, GaveAway
    <3> QED
      BY <3>1, BitType DEF Delta
  <2>2. CallSum(o)' = CallSum(o) + Bit(d, o) + Bit(NULL, o)
    BY <1>2, CallSumPush DEF TypeOK
  <2>3. refs'[o] = refs[o] + Times(o, <<d, NULL>>) - Times(o, <<>>)
    BY <1>4, CountEffect
  <2>4. /\ Times(o, <<d, NULL>>) = Bit(d, o) + Bit(NULL, o)
        /\ Times(o, <<>>) = 0
    BY TimesTuples
  <2>5. CallSum(o) \in Nat /\ refs[o] \in Nat
    BY CallSumType DEF TypeOK
  <2>6. In(o, names') = In(o, names) /\ In(o, names) \in Int
    BY <1>0, BitType
  <2> QED
    BY <2>1, <2>2, <2>3, <2>4, <2>5, <2>6, BitType
<1>6. CountInv' /\ refs' \in [Objects -> Nat]
  <2>1. Counted
    BY <1>4, CountEffect
  <2> QED
    BY <1>0, <1>2, <1>5, <2>1, CountStep DEF Counted
<1>7. TypeOK'
  BY <1>0, <1>2, <1>6 DEF TypeOK
<1>8. ASSUME NEW q \in Records
      PROVE  RecordOK(q)'
  BY <1>0 DEF ShapeInv, RecordOK
<1>9. ASSUME NEW i \in DOMAIN stack'
      PROVE  CallOK(i)'
  <2>1. CASE i = n + 1
    BY <1>0, <1>2, <1>3, <2>1 DEF CallOK
  <2>2. CASE i # n + 1
    <3>1. i \in DOMAIN stack /\ stack'[i] = stack[i]
      BY <1>2, <2>2
    <3>2. CallOK(i)
      BY <3>1 DEF ShapeInv
    <3>3. ASSUME NEW j \in DOMAIN stack', stack'[j].rec = stack[i].rec,
                 rec[stack[i].rec].kind \in OneShot
          PROVE  j \in DOMAIN stack /\ stack[j].rec = stack[i].rec
      BY <1>0, <1>2, <1>3, <3>3
    <3> QED
      BY <1>0, <3>1, <3>2, <3>3 DEF CallOK
  <2> QED
    BY <2>1, <2>2
<1> QED
  BY <1>6, <1>7, <1>8, <1>9 DEF ShapeInv

\* What g_free leaves of a record.
LEMMA FreedType ==
    ASSUME TypeOK, NEW r \in Records
    PROVE  /\ Freed(r) \in RecordType /\ Freed(r).state = "gone"
           /\ Freed(r).job = rec[r].job /\ Freed(r).magic = rec[r].magic
           /\ Freed(r).operation = rec[r].operation /\ Freed(r).tuple = rec[r].tuple
           /\ Freed(r).answer = rec[r].answer
<1>1. rec[r] \in RecordType /\ NULL \in Maybe
  BY DEF TypeOK, Maybe
<1>2. PICK v : v = [rec[r] EXCEPT !.state = "gone", !.kind = NULL, !.func = NULL,
                                  !.data = NULL]
  OBVIOUS
<1>3. v \in RecordType
  BY <1>1, <1>2, Zenon DEF RecordType
<1>4. /\ v.state = "gone" /\ v.job = rec[r].job /\ v.magic = rec[r].magic
      /\ v.operation = rec[r].operation /\ v.tuple = rec[r].tuple
      /\ v.answer = rec[r].answer
  BY <1>1, <1>2 DEF RecordType
<1>5. Freed(r) = v
  BY <1>2 DEF Freed
<1> QED
  BY <1>3, <1>4, <1>5

\* A lasting callback is removed.
LEMMA LetGoStep ==
    ASSUME TypeOK, ShapeInv, CountInv, NEW r \in Records,
           LetGo(r)
    PROVE  TypeOK' /\ ShapeInv' /\ CountInv'
<1>0. /\ rec[r] \in RecordType /\ rec[r].state = "pending" /\ rec[r].kind \in Lasting
      /\ UNCHANGED <<names, stack>> /\ rec[r].func \in Objects
  BY DEF LetGo, TypeOK
<1>1. PICK f, d, x, t : /\ f = rec[r].func /\ d = rec[r].data
                        /\ x = rec[r].operation /\ t = rec[r].tuple
  OBVIOUS
<1>2. Owns(r, f, d, x, t)
  BY <1>0, <1>1 DEF Owns, FuncOf, DataOf, OperationOf, TupleOf, Keeps, GaveAway
<1>3. CASE InCall(r, stack)
  <2>1. PICK v : v = [rec[r] EXCEPT !.state = "removed"]
    OBVIOUS
  <2>2. rec' = [rec EXCEPT ![r] = v] /\ rec'[r] = v /\ refs' = refs
    BY <1>3, <2>1 DEF LetGo, TypeOK
  <2>3. /\ v \in RecordType /\ v.state = "removed" /\ v.kind = rec[r].kind
        /\ v.func = rec[r].func /\ v.data = rec[r].data /\ v.job = rec[r].job
        /\ v.magic = rec[r].magic /\ v.operation = rec[r].operation
        /\ v.tuple = rec[r].tuple /\ v.answer = rec[r].answer
    <3>1. v \in RecordType
      BY <1>0, <2>1, Zenon DEF RecordType
    <3> QED
      BY <1>0, <2>1, <3>1 DEF RecordType
  <2>4. Owns(r, f, d, x, t)'
    BY <1>1, <2>2, <2>3
       DEF Owns, FuncOf, DataOf, OperationOf, TupleOf, Keeps, GaveAway
  <2>5. ASSUME NEW o \in Objects
        PROVE  refs'[o] = refs[o] + Delta(r, o)
    <3>1. Delta(r, o) = (Bit(f, o) - Bit(f, o)) + (Bit(d, o) - Bit(d, o))
                        + (Bit(x, o) - Bit(x, o)) + (Bit(t, o) - Bit(t, o))
      BY <1>2, <2>4, DeltaIs
    <3>2. refs'[o] = refs[o] /\ refs[o] \in Nat
      BY <2>2, NothingCounted
    <3> QED
      BY <3>1, <3>2, BitType
  <2>6. RecStep(r)
    BY <1>0, <2>2, <2>3 DEF RecStep, TypeOK
  <2>7. RecordOK(r)'
    BY <2>2, <2>3 DEF ShapeInv, RecordOK
  <2>8. ASSUME NEW i \in DOMAIN stack, stack[i].rec = r
        PROVE  CallOK(i)'
    BY <1>0, <2>2, <2>3, <2>8 DEF ShapeInv, CallOK, OneShot, Lasting
  <2>9. Counted
    BY <2>2, NothingCounted
  <2> QED
    BY <1>0, <2>5, <2>6, <2>7, <2>8, <2>9, SameStackStep
<1>4. CASE ~InCall(r, stack)
  <2>1. PICK v : v = Freed(r)
    OBVIOUS
  <2>2. rec' = [rec EXCEPT ![r] = v] /\ rec'[r] = v /\ Count(<<>>, <<f, d>>)
    BY <1>1, <1>4, <2>1 DEF LetGo, TypeOK
  <2>3. /\ v \in RecordType /\ v.state = "gone" /\ v.job = rec[r].job
        /\ v.magic = rec[r].magic /\ v.operation = rec[r].operation
        /\ v.tuple = rec[r].tuple /\ v.answer = rec[r].answer
    BY <2>1, FreedType
  <2>4. Owns(r, NULL, NULL, x, t)'
    BY <1>1, <2>2, <2>3
       DEF Owns, FuncOf, DataOf, OperationOf, TupleOf, Keeps, GaveAway
  <2>5. ASSUME NEW o \in Objects
        PROVE  refs'[o] = refs[o] + Delta(r, o)
    <3>1. Delta(r, o) = (Bit(NULL, o) - Bit(f, o)) + (Bit(NULL, o) - Bit(d, o))
                        + (Bit(x, o) - Bit(x, o)) + (Bit(t, o) - Bit(t, o))
      BY <1>2, <2>4, DeltaIs
    <3>2. refs'[o] = refs[o] + Times(o, <<>>) - Times(o, <<f, d>>)
      BY <2>2, CountEffect
    <3>3. Times(o, <<f, d>>) = Bit(f, o) + Bit(d, o) /\ Times(o, <<>>) = 0
      BY TimesTuples
    <3>4. refs[o] \in Nat /\ Bit(NULL, o) = 0
      BY NullBit DEF TypeOK
    <3> QED
      BY <3>1, <3>2, <3>3, <3>4, BitType
  <2>6. RecStep(r)
    BY <2>2, <2>3 DEF RecStep, TypeOK
  <2>7. RecordOK(r)'
    BY <2>2, <2>3 DEF ShapeInv, RecordOK
  <2>8. \A i \in DOMAIN stack : stack[i].rec # r
    BY <1>4 DEF InCall
  <2>9. Counted
    BY <2>2, CountEffect
  <2> QED
    BY <1>0, <2>5, <2>6, <2>7, <2>8, <2>9, SameStackStep
<1> QED
  BY <1>3, <1>4

\* A closure is invalidated, in its own call or outside.
LEMMA InvalidateStep ==
    ASSUME TypeOK, ShapeInv, CountInv, NEW r \in Records,
           pybonobo_closure_invalidate(r)
    PROVE  TypeOK' /\ ShapeInv' /\ CountInv'
<1>0. /\ rec[r] \in RecordType /\ rec[r].state \in {"pending", "removed"}
      /\ rec[r].kind = "closure"
      /\ UNCHANGED <<names, stack>>
  BY DEF pybonobo_closure_invalidate, TypeOK
<1>1. PICK f, d, x, t : /\ f = rec[r].func /\ d = rec[r].data
                        /\ x = rec[r].operation /\ t = rec[r].tuple
  OBVIOUS
<1>2. Owns(r, f, d, x, t)
  BY <1>0, <1>1 DEF Owns, FuncOf, DataOf, OperationOf, TupleOf, Keeps, GaveAway
<1>3. PICK w : w = [rec[r] EXCEPT !.state = "invalid", !.func = NULL,
                                  !.data = NULL]
  OBVIOUS
<1>4. /\ w \in RecordType /\ w.state = "invalid" /\ w.kind = rec[r].kind
      /\ w.func = NULL /\ w.data = NULL /\ w.job = rec[r].job
      /\ w.magic = rec[r].magic /\ w.operation = rec[r].operation
      /\ w.tuple = rec[r].tuple /\ w.answer = rec[r].answer
  <2>1. NULL \in Maybe
    BY DEF Maybe
  <2>2. w \in RecordType
    BY <1>0, <1>3, <2>1, Zenon DEF RecordType
  <2> QED
    BY <1>0, <1>3, <2>2 DEF RecordType
<1>5. PICK v : v = IF InCall(r, stack) THEN w ELSE Freed(r)
  OBVIOUS
<1>6. rec' = [rec EXCEPT ![r] = v] /\ rec'[r] = v /\ Count(<<>>, <<f, d>>)
  BY <1>1, <1>3, <1>5 DEF pybonobo_closure_invalidate, TypeOK
<1>7. /\ v \in RecordType /\ v.job = rec[r].job
      /\ v.magic = rec[r].magic /\ v.operation = rec[r].operation
      /\ v.tuple = rec[r].tuple /\ v.answer = rec[r].answer
      /\ \/ v.state = "gone"
         \/ /\ v.state = "invalid" /\ v.kind = rec[r].kind
            /\ v.func = NULL /\ v.data = NULL
      /\ InCall(r, stack) => v.state = "invalid"
  BY <1>4, <1>5, FreedType
<1>8. Owns(r, NULL, NULL, x, t)'
  BY <1>1, <1>6, <1>7
     DEF Owns, FuncOf, DataOf, OperationOf, TupleOf, Keeps, GaveAway
<1>9. ASSUME NEW o \in Objects
      PROVE  refs'[o] = refs[o] + Delta(r, o)
  <2>1. Delta(r, o) = (Bit(NULL, o) - Bit(f, o)) + (Bit(NULL, o) - Bit(d, o))
                      + (Bit(x, o) - Bit(x, o)) + (Bit(t, o) - Bit(t, o))
    BY <1>2, <1>8, DeltaIs
  <2>2. refs'[o] = refs[o] + Times(o, <<>>) - Times(o, <<f, d>>)
    BY <1>6, CountEffect
  <2>3. Times(o, <<f, d>>) = Bit(f, o) + Bit(d, o) /\ Times(o, <<>>) = 0
    BY TimesTuples
  <2>4. refs[o] \in Nat /\ Bit(NULL, o) = 0
    BY NullBit DEF TypeOK
  <2> QED
    BY <2>1, <2>2, <2>3, <2>4, BitType
<1>10. RecStep(r)
  BY <1>6, <1>7 DEF RecStep, TypeOK
<1>11. RecordOK(r)'
  BY <1>6, <1>7 DEF ShapeInv, RecordOK
<1>12. ASSUME NEW i \in DOMAIN stack, stack[i].rec = r
       PROVE  CallOK(i)'
  <2>1. rec'[r].state = "invalid" /\ rec'[r].kind = "closure"
    BY <1>0, <1>6, <1>7, <1>12 DEF InCall
  <2> QED
    BY <1>0, <1>12, <2>1 DEF CallOK, OneShot, Lasting
<1>13. Counted
  BY <1>6, CountEffect
<1> QED
  BY <1>0, <1>9, <1>10, <1>11, <1>12, <1>13, SameStackStep

\* Does the record of the innermost call go with it?
Ends == \/ rec[Top.rec].kind \in OneShot
        \/ Removed(Top.rec) /\ ~InCall(Top.rec, stack')

\* A callback returns.
LEMMA ReturnStep ==
    ASSUME TypeOK, ShapeInv, CountInv, NEW error, Return(error)
    PROVE  TypeOK' /\ ShapeInv' /\ CountInv'
<1>0. /\ stack # <<>> /\ stack' = SubSeq(stack, 1, Len(stack) - 1) /\ names' = names
      /\ Count(<<>>, <<Top.data, Top.got>> \o (IF Ends THEN Leftovers(Top.rec) ELSE <<>>))
      /\ rec' = IF Ends THEN [rec EXCEPT ![Top.rec] = Freed(Top.rec)] ELSE rec
  BY DEF Return, Ends
<1>1. PICK n \in Nat : n + 1 = Len(stack)
  <2>1. Len(stack) \in Nat /\ Len(stack) > 0
    BY <1>0 DEF TypeOK
  <2>2. Len(stack) - 1 \in Nat /\ (Len(stack) - 1) + 1 = Len(stack)
    BY <2>1
  <2> QED
    BY <2>2
<1>2. /\ DOMAIN stack = 1 .. n + 1 /\ DOMAIN stack' = 1 .. n /\ Len(stack') = n
      /\ n + 1 \in DOMAIN stack
      /\ \A i \in 1 .. n : stack'[i] = stack[i]
      /\ stack[n + 1] = Top /\ stack' \in Seq(FrameType)
  BY <1>0, <1>1 DEF Top, TypeOK
<1>3. PICK r \in Records : r = Top.rec
  BY <1>2, CallsRecord
<1>4. CallOK(n + 1) /\ rec[r] \in RecordType /\ RecordOK(r)
  BY <1>2, <1>3 DEF ShapeInv, TypeOK
<1>5. /\ \/ rec[r].kind \in OneShot /\ rec[r].state = "calling"
         \/ /\ rec[r].kind \in Lasting
            /\ rec[r].state \in {"pending", "removed", "invalid"}
      /\ rec[r].kind \in OneShot =>
            \A j \in DOMAIN stack : stack[j].rec = r => j = n + 1
  BY <1>2, <1>3, <1>4 DEF CallOK
<1>6. PICK f, d, x, t, a, g :
         /\ f = rec[r].func /\ d = rec[r].data /\ x = rec[r].operation
         /\ t = rec[r].tuple /\ a = Top.data /\ g = Top.got
  OBVIOUS
<1>7. PICK d1 : d1 = IF rec[r].state = "calling" /\ GivesAway(rec[r].kind)
                     THEN NULL ELSE d
  OBVIOUS
<1>8. Owns(r, f, d1, x, t)
  BY <1>5, <1>6, <1>7 DEF Owns, FuncOf, DataOf, OperationOf, TupleOf, Keeps, GaveAway
<1>9. \A o : CallSum(o) = CallSum(o)' + Bit(a, o) + Bit(g, o)
  BY <1>0, <1>6, CallSumPop DEF TypeOK
<1>10. a \in Maybe /\ g \in Maybe /\ f \in Maybe /\ d \in Maybe
  BY <1>2, <1>4, <1>6, CallsRecord DEF FrameType, RecordType
<1>11. CASE Ends
  <2>1. PICK v : v = Freed(r)
    OBVIOUS
  <2>2. rec' = [rec EXCEPT ![r] = v] /\ rec'[r] = v
    BY <1>0, <1>3, <1>11, <2>1 DEF TypeOK
  <2>3. /\ v \in RecordType /\ v.state = "gone" /\ v.job = rec[r].job
        /\ v.magic = rec[r].magic /\ v.operation = rec[r].operation
        /\ v.tuple = rec[r].tuple /\ v.answer = rec[r].answer
    BY <2>1, FreedType
  <2>4. Owns(r, NULL, NULL, x, t)'
    BY <1>6, <2>2, <2>3
       DEF Owns, FuncOf, DataOf, OperationOf, TupleOf, Keeps, GaveAway
  <2>5. ASSUME NEW o \in Objects
        PROVE  refs'[o] = refs[o] - Bit(a, o) - Bit(g, o) - Bit(f, o) - Bit(d1, o)
    <3>1. refs[o] \in Nat /\ Times(o, <<>>) = 0
      BY TimesTuples DEF TypeOK
    <3>2. CASE GivesAway(rec[r].kind)
      <4>1. d1 = NULL
        BY <1>5, <1>7, <3>2 DEF GivesAway, Lasting
      <4>2. PICK s : s = WithOne(a, g, f)
        OBVIOUS
      <4>3. Count(<<>>, s)
        BY <1>0, <1>3, <1>6, <1>11, <3>2, <4>2 DEF Leftovers, WithOne
      <4>4. refs'[o] = refs[o] + Times(o, <<>>) - Times(o, s)
        BY <4>3, CountEffect
      <4>5. Times(o, s) = Bit(a, o) + Bit(g, o) + Bit(f, o)
        BY <1>10, <4>2, TimesConcat
      <4>6. Bit(d1, o) = 0
        BY <4>1, NullBit
      <4> QED
        BY <3>1, <4>4, <4>5, <4>6, BitType
    <3>3. CASE ~GivesAway(rec[r].kind)
      <4>1. d1 = d
        BY <1>7, <3>3
      <4>2. PICK s : s = WithTwo(a, g, f, d)
        OBVIOUS
      <4>3. Count(<<>>, s)
        BY <1>0, <1>3, <1>6, <1>11, <3>3, <4>2 DEF Leftovers, WithTwo
      <4>4. refs'[o] = refs[o] + Times(o, <<>>) - Times(o, s)
        BY <4>3, CountEffect
      <4>5. Times(o, s) = Bit(a, o) + Bit(g, o) + Bit(f, o) + Bit(d, o)
        BY <1>10, <4>2, TimesConcat
      <4> QED
        BY <3>1, <4>1, <4>4, <4>5, BitType
    <3> QED
      BY <3>2, <3>3
  <2>6. ASSUME NEW o \in Objects
        PROVE  refs'[o] = refs[o] + Delta(r, o) + (CallSum(o)' - CallSum(o))
                          + (In(o, names') - In(o, names))
    <3>1. Delta(r, o) = (Bit(NULL, o) - Bit(f, o)) + (Bit(NULL, o) - Bit(d1, o))
                        + (Bit(x, o) - Bit(x, o)) + (Bit(t, o) - Bit(t, o))
      BY <1>8, <2>4, DeltaIs
    <3>2. CallSum(o) = CallSum(o)' + Bit(a, o) + Bit(g, o)
      BY <1>9
    <3>3. CallSum(o) \in Nat /\ CallSum(o)' \in Nat /\ refs[o] \in Nat
      BY <1>2, CallSumType, CallSumTypeNext DEF TypeOK
    <3>4. In(o, names') = In(o, names) /\ In(o, names) \in Int /\ Bit(NULL, o) = 0
      BY <1>0, BitType, NullBit
    <3> QED
      BY <2>5, <3>1, <3>2, <3>3, <3>4, BitType
  <2>7. RecStep(r)
    BY <2>2, <2>3 DEF RecStep, TypeOK
  <2>8. CountInv' /\ refs' \in [Objects -> Nat]
    <3>1. Counted
      BY <1>0, CountEffect
    <3>2. \A q \in Records : q # r => rec'[q] = rec[q]
      BY <2>7 DEF RecStep
    <3> QED
      BY <1>2, <2>6, <3>1, <3>2, CountStep DEF Counted
  <2>9. TypeOK'
    BY <1>0, <1>1, <1>2, <2>7, <2>8, CallbackConstants DEF TypeOK, RecStep
  <2>10. ASSUME NEW q \in Records
         PROVE  RecordOK(q)'
    BY <2>2, <2>3, <2>7 DEF ShapeInv, RecordOK, RecStep
  <2>11. ASSUME NEW i \in DOMAIN stack'
         PROVE  CallOK(i)'
    <3>1. i \in DOMAIN stack /\ i # n + 1 /\ stack'[i] = stack[i]
      BY <1>2
    <3>2. stack[i].rec # r
      BY <1>3, <1>5, <1>11, <3>1 DEF Ends, InCall
    <3>3. rec'[stack[i].rec] = rec[stack[i].rec]
      BY <2>7, <3>1, <3>2, CallsRecord DEF RecStep
    <3>4. CallOK(i)
      BY <3>1 DEF ShapeInv
    <3>5. \A j \in DOMAIN stack' : j \in DOMAIN stack /\ stack'[j] = stack[j]
      BY <1>2
    <3> QED
      BY <3>1, <3>3, <3>4, <3>5 DEF CallOK
  <2> QED
    BY <2>8, <2>9, <2>10, <2>11 DEF ShapeInv
<1>12. CASE ~Ends
  <2>1. rec' = rec
    BY <1>0, <1>12
  <2>2. <<a, g>> \o <<>> = <<a, g>>
    OBVIOUS
  <2>3. Count(<<>>, <<a, g>>)
    BY <1>0, <1>6, <1>12, <2>2
  <2>4. ASSUME NEW o \in Objects
        PROVE  refs'[o] = refs[o] + Delta(r, o) + (CallSum(o)' - CallSum(o))
                          + (In(o, names') - In(o, names))
    <3>1. Delta(r, o) = 0
      <4>1. /\ FuncOf' = FuncOf /\ DataOf' = DataOf /\ OperationOf' = OperationOf
            /\ TupleOf' = TupleOf
        BY <2>1 DEF FuncOf, DataOf, OperationOf, TupleOf, Keeps, GaveAway
      <4> QED
        BY <4>1, BitType DEF Delta
    <3>2. CallSum(o) = CallSum(o)' + Bit(a, o) + Bit(g, o)
      BY <1>9
    <3>3. CallSum(o) \in Nat /\ CallSum(o)' \in Nat /\ refs[o] \in Nat
      BY <1>2, CallSumType, CallSumTypeNext DEF TypeOK
    <3>4. In(o, names') = In(o, names) /\ In(o, names) \in Int
      BY <1>0, BitType
    <3>5. refs'[o] = refs[o] + Times(o, <<>>) - Times(o, <<a, g>>)
      BY <2>3, CountEffect
    <3>6. Times(o, <<a, g>>) = Bit(a, o) + Bit(g, o) /\ Times(o, <<>>) = 0
      BY TimesTuples
    <3> QED
      BY <3>1, <3>2, <3>3, <3>4, <3>5, <3>6, BitType
  <2>5. CountInv' /\ refs' \in [Objects -> Nat]
    <3>1. Counted
      BY <2>3, CountEffect
    <3> QED
      BY <1>2, <2>1, <2>4, <3>1, CountStep DEF Counted
  <2>6. TypeOK'
    <3>1. Len(stack') <= MaxDepth
      BY <1>1, <1>2, CallbackConstants DEF TypeOK
    <3> QED
      BY <1>0, <1>2, <2>1, <2>5, <3>1 DEF TypeOK
  <2>7. ASSUME NEW q \in Records
        PROVE  RecordOK(q)'
    BY <2>1 DEF ShapeInv, RecordOK
  <2>8. ASSUME NEW i \in DOMAIN stack'
        PROVE  CallOK(i)'
    <3>1. /\ i \in DOMAIN stack /\ stack'[i] = stack[i]
          /\ \A j \in DOMAIN stack' : j \in DOMAIN stack /\ stack'[j] = stack[j]
      BY <1>2
    <3>2. CallOK(i)
      BY <3>1 DEF ShapeInv
    <3> QED
      BY <2>1, <3>1, <3>2 DEF CallOK
  <2> QED
    BY <2>5, <2>6, <2>7, <2>8 DEF ShapeInv
<1> QED
  BY <1>11, <1>12

\* The program lets go of an object.
LEMMA ForgetStep ==
    ASSUME TypeOK, ShapeInv, CountInv, NEW b \in Objects, Forget(b)
    PROVE  TypeOK' /\ ShapeInv' /\ CountInv'
<1>0. /\ b \in names /\ names' = names \ {b} /\ Count(<<>>, <<b>>)
      /\ rec' = rec /\ stack' = stack
  BY DEF Forget
<1>1. /\ FuncOf' = FuncOf /\ DataOf' = DataOf /\ OperationOf' = OperationOf
      /\ TupleOf' = TupleOf /\ CallData' = CallData /\ CallGot' = CallGot
  BY <1>0 DEF FuncOf, DataOf, OperationOf, TupleOf, Keeps, GaveAway, CallData, CallGot
<1>2. ASSUME NEW o \in Objects
      PROVE  /\ refs'[o] \in Nat
             /\ refs'[o] = Times(o, FuncOf) + Times(o, DataOf)
                           + Times(o, OperationOf) + Times(o, TupleOf)
                           + Times(o, CallData) + Times(o, CallGot)
                           + (IF o \in names' THEN 1 ELSE 0)
  <2>1. refs'[o] = refs[o] + Times(o, <<>>) - Times(o, <<b>>)
    BY <1>0, CountEffect
  <2>2. Times(o, <<b>>) = Bit(b, o) /\ Times(o, <<>>) = 0
    BY TimesTuples
  <2>3. refs[o] = Times(o, FuncOf) + Times(o, DataOf)
                  + Times(o, OperationOf) + Times(o, TupleOf)
                  + Times(o, CallData) + Times(o, CallGot)
                  + (IF o \in names THEN 1 ELSE 0)
    BY DEF CountInv, CallbackRefsExact
  <2>4. /\ Times(o, FuncOf) \in Nat /\ Times(o, DataOf) \in Nat
        /\ Times(o, OperationOf) \in Nat /\ Times(o, TupleOf) \in Nat
    BY FS_CardinalityType, TimesHolders DEF CountInv, FiniteHolders
  <2>5. Times(o, CallData) \in Nat /\ Times(o, CallGot) \in Nat
    <3>1. PICK n \in Nat : DOMAIN stack = 1 .. n
      BY DEF TypeOK
    <3>2. DOMAIN CallData = 1 .. n /\ DOMAIN CallGot = 1 .. n
      BY <3>1 DEF CallData, CallGot
    <3> QED
      BY <3>2, TimesSequence
  <2>6. CASE o = b
    BY <1>0, <2>1, <2>2, <2>3, <2>4, <2>5, <2>6 DEF Bit
  <2>7. CASE o # b
    BY <1>0, <2>1, <2>2, <2>3, <2>4, <2>5, <2>7 DEF Bit
  <2> QED
    BY <2>6, <2>7
<1>3. CountInv'
  <2>1. FiniteHolders'
    BY <1>1 DEF CountInv, FiniteHolders
  <2>2. CallbackRefsExact'
    BY <1>1, <1>2 DEF CallbackRefsExact
  <2> QED
    BY <2>1, <2>2 DEF CountInv
<1>4. refs' \in [Objects -> Nat]
  BY <1>0, <1>2, CountEffect DEF Counted
<1>5. TypeOK'
  BY <1>0, <1>4 DEF TypeOK
<1>6. ShapeInv'
  <2>1. \A r \in Records : RecordOK(r)'
    BY <1>0 DEF ShapeInv, RecordOK
  <2>2. \A i \in DOMAIN stack : CallOK(i)'
    BY <1>0 DEF ShapeInv, CallOK
  <2> QED
    BY <1>0, <2>1, <2>2 DEF ShapeInv
<1> QED
  BY <1>3, <1>5, <1>6

\* Every step keeps the invariant.
LEMMA CallbackStep ==
    ASSUME TypeOK, ShapeInv, CountInv, [Next]_vars
    PROVE  TypeOK' /\ ShapeInv' /\ CountInv'
<1>0. NULL \in Maybe /\ Callables \subseteq Objects
  BY CallbackConstants DEF Maybe
<1>1. ASSUME NEW b \in Objects, Forget(b)
      PROVE  TypeOK' /\ ShapeInv' /\ CountInv'
  BY <1>1, ForgetStep
<1>2. ASSUME NEW r \in Records, NEW k \in OneShot \cup Lasting,
             NEW f \in Callables, NEW d \in Maybe, Register(r, k, f, d)
      PROVE  TypeOK' /\ ShapeInv' /\ CountInv'
  BY <1>2, RegisterStep DEF Register
<1>3. ASSUME NEW r \in Records, NEW f \in Callables, RegisterVolume(r, f)
      PROVE  TypeOK' /\ ShapeInv' /\ CountInv'
  <2>1. Register(r, "volume", f, NULL)
    BY <1>3 DEF RegisterVolume, pygvdrive_mount, pygvdrive_unmount,
                pygvdrive_eject, pygvvolume_unmount, pygvvolume_eject, VolumeOp
  <2> QED
    BY <1>0, <1>2, <2>1 DEF OneShot
<1>4. ASSUME NEW r \in Records, NEW f \in Callables, NEW d \in Maybe,
             RegisterWith(r, f, d)
      PROVE  TypeOK' /\ ShapeInv' /\ CountInv'
  <2>1. CASE \/ Register(r, "activate", f, d) \/ Register(r, "find", f, d)
             \/ Register(r, "closure", f, d) \/ Register(r, "notify", f, d)
    BY <1>2, <2>1 DEF OneShot, Lasting
  <2>2. CASE activate_fails(r, f, d)
    <3>1. "activate" \in OneShot \cup Lasting
      BY DEF OneShot
    <3> QED
      BY <2>2, <3>1, RegisterStep DEF activate_fails
  <2>3. CASE \E o \in Objects, fd \in {"fd", NULL} :
                pygvfs_async_file_control(r, f, d, o, fd)
    BY <2>3, ControlStep
  <2> QED
    BY <1>4, <2>1, <2>2, <2>3
       DEF RegisterWith, wrap_ba_activate_async, get_object_async,
           pygvfs_async_find_directory, pybonobo_closure_new,
           gconf_client_notify_add
<1>5. ASSUME NEW r \in Records,
             \/ Cancel(r) \/ Job(r) \/ pygvfs_operation_data_free(r)
             \/ LetGo(r) \/ pybonobo_closure_invalidate(r)
      PROVE  TypeOK' /\ ShapeInv' /\ CountInv'
  BY <1>5, CancelStep, AnswerStep, RaiseStep, NotSupportedStep, DataFreeStep,
     LetGoStep, InvalidateStep DEF Job
<1>6. ASSUME NEW r \in Records, CallOnce(r)
      PROVE  TypeOK' /\ ShapeInv' /\ CountInv'
  <2>1. ASSUME NEW k \in {"volume", "activate", "find"}, InvokeOnce(r, k, NULL)
        PROVE  TypeOK' /\ ShapeInv' /\ CountInv'
    <3>1. k \in OneShot /\ k # "control"
      BY DEF OneShot
    <3> QED
      BY <1>0, <2>1, <3>1, InvokeOnceStep
  <2>2. CASE pygvfs_async_file_control_callback(r)
    <3>1. PICK got : got = IF rec[r].magic = "out" THEN rec[r].operation ELSE NULL
      OBVIOUS
    <3>2. rec[r].job = "done" /\ InvokeOnce(r, "control", got)
      BY <2>2, <3>1 DEF pygvfs_async_file_control_callback
    <3>3. got = rec[r].answer
      BY <3>1 DEF ShapeInv, RecordOK
    <3>4. got \in Maybe /\ "control" \in OneShot
      BY <3>3 DEF TypeOK, RecordType, OneShot
    <3> QED
      BY <3>2, <3>3, <3>4, InvokeOnceStep
  <2> QED
    BY <1>6, <2>1, <2>2
       DEF CallOnce, wrap_gnomevfs_volume_op_callback,
           BonoboActivationCallback, pygvfs_async_find_directory_callback
<1>7. ASSUME NEW r \in Records,
             pybonobo_closure_marshal(r) \/ pygconf_client_notify_add(r)
      PROVE  TypeOK' /\ ShapeInv' /\ CountInv'
  BY <1>7, InvokeLastingStep
     DEF pybonobo_closure_marshal, pygconf_client_notify_add, Lasting
<1>8. ASSUME Returns
      PROVE  TypeOK' /\ ShapeInv' /\ CountInv'
  BY <1>8, ReturnStep DEF Returns
<1>9. CASE UNCHANGED vars
  <2>1. /\ FuncOf' = FuncOf /\ DataOf' = DataOf /\ OperationOf' = OperationOf
        /\ TupleOf' = TupleOf /\ CallData' = CallData /\ CallGot' = CallGot
    BY <1>9 DEF vars, FuncOf, DataOf, OperationOf, TupleOf, Keeps, GaveAway,
                CallData, CallGot
  <2>2. CountInv'
    BY <1>9, <2>1 DEF vars, CountInv, FiniteHolders, CallbackRefsExact
  <2>3. TypeOK'
    BY <1>9 DEF vars, TypeOK
  <2>4. ShapeInv'
    BY <1>9 DEF vars, ShapeInv, RecordOK, CallOK
  <2> QED
    BY <2>2, <2>3, <2>4
<1> QED
  BY <1>1, <1>3, <1>4, <1>5, <1>6, <1>7, <1>8, <1>9 DEF Next

\* The invariant holds at the start.
LEMMA CallbackInit ==
    ASSUME Init
    PROVE  TypeOK /\ ShapeInv /\ CountInv
<1>1. /\ names = Objects /\ stack = <<>> /\ DOMAIN stack = {}
      /\ \A o \in Objects : refs[o] = 1
      /\ \A r \in Records : rec[r] = Unused
  BY DEF Init
<1>2. TypeOK
  BY <1>1, UnusedType, CallbackConstants DEF Init, TypeOK, Unused
<1>3. ShapeInv
  BY <1>1 DEF ShapeInv, RecordOK, Unused
<1>4. ASSUME NEW o \in Objects
      PROVE  /\ Holders(o, FuncOf) = {} /\ Holders(o, DataOf) = {}
             /\ Holders(o, OperationOf) = {} /\ Holders(o, TupleOf) = {}
             /\ Holders(o, CallData) = {} /\ Holders(o, CallGot) = {}
  <2>1. ASSUME NEW r \in Records
        PROVE  FuncOf[r] = NULL /\ DataOf[r] = NULL
               /\ OperationOf[r] = NULL /\ TupleOf[r] = NULL
    BY <1>1 DEF FuncOf, DataOf, OperationOf, TupleOf, Keeps, Unused
  <2>2. /\ DOMAIN FuncOf = Records /\ DOMAIN DataOf = Records
        /\ DOMAIN OperationOf = Records /\ DOMAIN TupleOf = Records
        /\ DOMAIN CallData = {} /\ DOMAIN CallGot = {}
    BY <1>1 DEF FuncOf, DataOf, OperationOf, TupleOf, CallData, CallGot
  <2>3. o # NULL
    BY CallbackConstants
  <2> QED
    BY <2>1, <2>2, <2>3 DEF Holders
<1>5. IsFiniteSet({}) /\ Cardinality({}) = 0
  BY FS_EmptySet
<1>6. CountInv
  <2>1. FiniteHolders
    BY <1>4, <1>5 DEF FiniteHolders
  <2>2. ASSUME NEW o \in Objects
        PROVE  refs[o] = Times(o, FuncOf) + Times(o, DataOf)
                  + Times(o, OperationOf) + Times(o, TupleOf)
                  + Times(o, CallData) + Times(o, CallGot)
                  + (IF o \in names THEN 1 ELSE 0)
    <3>1. /\ Times(o, FuncOf) = 0 /\ Times(o, DataOf) = 0
          /\ Times(o, OperationOf) = 0 /\ Times(o, TupleOf) = 0
          /\ Times(o, CallData) = 0 /\ Times(o, CallGot) = 0
      BY <1>4, <1>5, TimesHolders
    <3> QED
      BY <1>1, <3>1
  <2> QED
    BY <2>1, <2>2 DEF CountInv, CallbackRefsExact
<1> QED
  BY <1>2, <1>3, <1>6

\* The invariant, in every reachable state.
LEMMA CallbackInvariant == Spec => [](TypeOK /\ ShapeInv /\ CountInv)
BY CallbackInit, CallbackStep, PTL DEF Spec

-----------------------------------------------------------------------------
(***************************************************************************)
(* The theorems.                                                           *)
(***************************************************************************)

\* Records, calls and reference counts are always of their types: no count
\* goes below zero.
THEOREM TypeCorrect == Spec => []TypeOK
BY CallbackInvariant, PTL

\* The reference count of every object is the number of references that
\* records, argument tuples and the program have on it.
THEOREM CallbackRefsExactHolds == Spec => []CallbackRefsExact
<1>1. CountInv => CallbackRefsExact
  BY DEF CountInv
<1> QED
  BY <1>1, CallbackInvariant, PTL

\* The callback of async.Handle.control gets what the Python method answered.
THEOREM AnswerDeliveredHolds == Spec => []AnswerDelivered
<1>1. ShapeInv => AnswerDelivered
  BY DEF ShapeInv, CallOK, AnswerDelivered
<1> QED
  BY <1>1, CallbackInvariant, PTL

\* While a Python function is called, its record and the arguments are alive,
\* and so is the function, unless its closure was invalidated meanwhile.
THEOREM CalledAliveHolds == Spec => []CalledAlive
<1>1. TypeOK /\ ShapeInv /\ CountInv => CalledAlive
  <2> SUFFICES ASSUME TypeOK, ShapeInv, CountInv, NEW i \in DOMAIN stack
               PROVE  /\ rec[stack[i].rec].state
                            \in {"pending", "calling", "removed", "invalid"}
                      /\ rec[stack[i].rec].state # "invalid" =>
                            refs[rec[stack[i].rec].func] > 0
                      /\ \A o \in {stack[i].data, stack[i].got} \ {NULL} : refs[o] > 0
    BY DEF CalledAlive
  <2>1. PICK r \in Records : r = stack[i].rec
    BY CallsRecord
  <2>2. rec[r].state \in {"pending", "calling", "removed", "invalid"}
    BY <2>1 DEF ShapeInv, CallOK
  <2>3. ASSUME NEW o \in Objects,
               \/ r \in Holders(o, FuncOf)
               \/ i \in Holders(o, CallData)
               \/ i \in Holders(o, CallGot)
        PROVE  refs[o] > 0
    <3>1. refs[o] = Times(o, FuncOf) + Times(o, DataOf)
                  + Times(o, OperationOf) + Times(o, TupleOf)
                  + Times(o, CallData) + Times(o, CallGot)
                  + (IF o \in names THEN 1 ELSE 0)
      BY DEF CountInv, CallbackRefsExact
    <3>2. /\ Times(o, FuncOf) \in Nat /\ Times(o, DataOf) \in Nat
          /\ Times(o, OperationOf) \in Nat /\ Times(o, TupleOf) \in Nat
      BY FS_CardinalityType, TimesHolders DEF CountInv, FiniteHolders
    <3>3. /\ Times(o, CallData) \in Nat /\ Times(o, CallGot) \in Nat
          /\ IsFiniteSet(Holders(o, CallData)) /\ IsFiniteSet(Holders(o, CallGot))
      <4>1. PICK n \in Nat : DOMAIN stack = 1 .. n
        BY DEF TypeOK
      <4>2. DOMAIN CallData = 1 .. n /\ DOMAIN CallGot = 1 .. n
        BY <4>1 DEF CallData, CallGot
      <4> QED
        BY <4>2, TimesSequence
    <3>4. IsFiniteSet(Holders(o, FuncOf))
      BY DEF CountInv, FiniteHolders
    <3>5. ASSUME NEW S, IsFiniteSet(S), NEW e \in S
          PROVE  Cardinality(S) # 0
      BY <3>5, FS_EmptySet
    <3>6. \/ Times(o, FuncOf) # 0 \/ Times(o, CallData) # 0 \/ Times(o, CallGot) # 0
      <4>1. /\ Times(o, FuncOf) = Cardinality(Holders(o, FuncOf))
            /\ Times(o, CallData) = Cardinality(Holders(o, CallData))
            /\ Times(o, CallGot) = Cardinality(Holders(o, CallGot))
        BY TimesHolders
      <4> QED
        BY <2>3, <3>3, <3>4, <3>5, <4>1, Zenon
    <3>7. PICK k \in {0, 1} : k = IF o \in names THEN 1 ELSE 0
      OBVIOUS
    <3>8. PICK a \in Nat, b \in Nat, c \in Nat :
             a = Times(o, FuncOf) /\ b = Times(o, CallData) /\ c = Times(o, CallGot)
      BY <3>2, <3>3
    <3>9. PICK u \in Nat, v \in Nat, w \in Nat :
             u = Times(o, DataOf) /\ v = Times(o, OperationOf) /\ w = Times(o, TupleOf)
      BY <3>2
    <3>10. a > 0 \/ b > 0 \/ c > 0
      BY <3>6, <3>8
    <3>11. refs[o] = a + u + v + w + b + c + k
      BY <3>1, <3>7, <3>8, <3>9
    <3> QED
      BY <3>10, <3>11
  <2>4. ASSUME rec[r].state # "invalid"
        PROVE  refs[rec[r].func] > 0
    <3>1. rec[r].func \in Objects
      BY <2>2, <2>4 DEF TypeOK
    <3>2. r \in Holders(rec[r].func, FuncOf)
      BY <2>2 DEF Holders, FuncOf, Keeps
    <3> QED
      BY <2>3, <3>1, <3>2
  <2>5. ASSUME NEW o \in {stack[i].data, stack[i].got} \ {NULL}
        PROVE  refs[o] > 0
    <3>1. o \in Objects
      <4>1. stack[i] \in FrameType
        BY CallsRecord
      <4> QED
        BY <4>1 DEF FrameType, Maybe
    <3>2. i \in Holders(o, CallData) \/ i \in Holders(o, CallGot)
      BY DEF Holders, CallData, CallGot
    <3> QED
      BY <2>3, <3>1, <3>2
  <2> QED
    BY <2>1, <2>2, <2>4, <2>5
<1> QED
  BY <1>1, CallbackInvariant, PTL

=============================================================================
