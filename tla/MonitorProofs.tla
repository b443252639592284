--------------------------- MODULE MonitorProofs ---------------------------
(***************************************************************************)
(* Proofs about Monitor, for any number of monitors and any width of the   *)
(* counter: the table is exact, and ids are unique in the first round.     *)
(***************************************************************************)
EXTENDS Monitor, TLAPS

\* The counter after k increments is a value of its type.
LEMMA AdvanceType ==
    ASSUME NEW c \in Ids, NEW k \in 1 .. 2 * Half
    PROVE  Advance(c, k) \in Ids
BY MonitorConstants DEF Advance, Ids

\* Every step keeps every variable in its type.
LEMMA TypeStep ==
    ASSUME TypeOK, [Next]_vars
    PROVE  TypeOK'
<1>1. ASSUME NEW m \in Monitors, pygvfs_monitor_add_begin(m)
      PROVE  TypeOK'
  BY <1>1 DEF TypeOK, Statuses, pygvfs_monitor_add_begin
<1>2. ASSUME NEW m \in Monitors, gnome_vfs_monitor_add(m)
      PROVE  TypeOK'
  BY <1>2 DEF TypeOK, Statuses, gnome_vfs_monitor_add
<1>3. ASSUME NEW m \in Monitors, pygvfs_monitor_add_end(m)
      PROVE  TypeOK'
  <2>1. PICK k \in 1 .. 2 * Half :
            LET id == Advance(monitor_id_counter, k) IN
            /\ monitor_id_counter' = id
            /\ increments' = increments + k
            /\ monitor_hash' = [monitor_hash EXCEPT ![id] = m]
            /\ issued' = [issued EXCEPT ![m] = id]
    BY <1>3 DEF pygvfs_monitor_add_end
  <2>2. Advance(monitor_id_counter, k) \in Ids
    BY AdvanceType DEF TypeOK
  <2>3. k \in Nat
    BY MonitorConstants
  <2> QED
    BY <1>3, <2>1, <2>2, <2>3 DEF TypeOK, Statuses, pygvfs_monitor_add_end
<1>4. ASSUME NEW m \in Monitors, MarshalEnter(m)
      PROVE  TypeOK'
  BY <1>4 DEF TypeOK, MarshalEnter
<1>5. ASSUME NEW id \in Ids, pygvfs_monitor_cancel(id)
      PROVE  TypeOK'
  BY <1>5 DEF TypeOK, Statuses, pygvfs_monitor_cancel
<1>6. CASE pygvfs_monitor_marshal
  BY <1>6 DEF TypeOK, pygvfs_monitor_marshal
<1>7. CASE MarshalReturn
  <2>1. calling' \in Seq(Monitors)
    BY <1>7 DEF TypeOK, MarshalReturn
  <2> QED
    BY <1>7, <2>1 DEF TypeOK, MarshalReturn
<1>8. CASE UNCHANGED vars
  BY <1>8 DEF TypeOK, vars
<1> QED
  BY <1>1, <1>2, <1>3, <1>4, <1>5, <1>6, <1>7, <1>8 DEF Next

\* Type correctness of the monitor table and of what it refers to.
THEOREM TypeCorrect == Spec => []TypeOK
<1>1. Init => TypeOK
  BY MonitorConstants DEF Init, TypeOK, Ids, Statuses
<1> QED
  BY <1>1, TypeStep, PTL DEF Spec

-----------------------------------------------------------------------------
\* One step keeps the table exact: the id entered was free and its monitor
\* had none, and cancel removes the one entry of the monitor it stops.
LEMMA TableStep ==
    ASSUME TypeOK, TableExact, [Next]_vars
    PROVE  TableExact'
<1>0. SUFFICES ASSUME NEW n \in Monitors, NEW i \in Ids
               PROVE  (monitor_hash[i] = n
                          <=> status[n] = "active" /\ issued[n] = i)'
  BY DEF TableExact
<1>01. monitor_hash[i] = n <=> status[n] = "active" /\ issued[n] = i
  BY DEF TableExact
<1>1. ASSUME NEW m \in Monitors, pygvfs_monitor_add_begin(m)
      PROVE  (monitor_hash[i] = n <=> status[n] = "active" /\ issued[n] = i)'
  BY <1>1, <1>01 DEF TypeOK, pygvfs_monitor_add_begin
<1>2. ASSUME NEW m \in Monitors, gnome_vfs_monitor_add(m)
      PROVE  (monitor_hash[i] = n <=> status[n] = "active" /\ issued[n] = i)'
  BY <1>2, <1>01 DEF TypeOK, gnome_vfs_monitor_add
<1>3. ASSUME NEW m \in Monitors, pygvfs_monitor_add_end(m)
      PROVE  (monitor_hash[i] = n <=> status[n] = "active" /\ issued[n] = i)'
  <2>1. PICK k \in 1 .. 2 * Half :
            LET id == Advance(monitor_id_counter, k) IN
            /\ monitor_hash[id] = NULL
            /\ monitor_hash' = [monitor_hash EXCEPT ![id] = m]
            /\ issued' = [issued EXCEPT ![m] = id]
    BY <1>3 DEF pygvfs_monitor_add_end, LoopRuns
  <2>2. Advance(monitor_id_counter, k) \in Ids
    BY AdvanceType DEF TypeOK
  <2>3. /\ status[m] = "watched"
        /\ status' = [status EXCEPT ![m] = "active"]
    BY <1>3 DEF pygvfs_monitor_add_end
  <2>4. \A j \in Ids : monitor_hash[j] # m
    BY <2>3 DEF TableExact
  <2>5. NULL # n
    BY MonitorConstants
  <2> QED
    BY <1>01, <2>1, <2>2, <2>3, <2>4, <2>5 DEF TypeOK
<1>4. ASSUME NEW m \in Monitors, MarshalEnter(m)
      PROVE  (monitor_hash[i] = n <=> status[n] = "active" /\ issued[n] = i)'
  BY <1>4, <1>01 DEF MarshalEnter
<1>5. ASSUME NEW id \in Ids, pygvfs_monitor_cancel(id)
      PROVE  (monitor_hash[i] = n <=> status[n] = "active" /\ issued[n] = i)'
  <2>1. monitor_hash[id] \in Monitors
    BY <1>5 DEF TypeOK, pygvfs_monitor_cancel
  <2>2. /\ status[monitor_hash[id]] = "active"
        /\ issued[monitor_hash[id]] = id
    BY <2>1 DEF TableExact
  <2>3. NULL # n
    BY MonitorConstants
  <2> QED
    BY <1>5, <1>01, <2>1, <2>2, <2>3 DEF TypeOK, pygvfs_monitor_cancel
<1>6. CASE pygvfs_monitor_marshal
  BY <1>6, <1>01 DEF pygvfs_monitor_marshal
<1>7. CASE MarshalReturn
  BY <1>7, <1>01 DEF MarshalReturn
<1>8. CASE UNCHANGED vars
  BY <1>8, <1>01 DEF vars
<1> QED
  BY <1>1, <1>2, <1>3, <1>4, <1>5, <1>6, <1>7, <1>8 DEF Next

\* The ids that monitor_add returns and the table agree in every reachable
\* state, whatever the width of the counter and however it wraps.
THEOREM TableExactHolds == Spec => []TableExact
<1>1. Init => TableExact
  BY MonitorConstants DEF Init, TableExact
<1> QED
  BY <1>1, TypeCorrect, TableStep, PTL DEF Spec

-----------------------------------------------------------------------------
IdInv == FirstRound /\ StaleIdsRefused

\* In the first round the id chosen, unwrapped, is the number of increments,
\* which is beyond every id issued before.
LEMMA IdStep ==
    ASSUME TypeOK, IdInv, [Next]_vars
    PROVE  IdInv'
<1>1. ASSUME NEW m \in Monitors, pygvfs_monitor_add_end(m)
      PROVE  IdInv'
  <2>1. PICK k \in 1 .. 2 * Half :
            /\ monitor_id_counter' = Advance(monitor_id_counter, k)
            /\ increments' = increments + k
            /\ issued' = [issued EXCEPT ![m] = Advance(monitor_id_counter, k)]
    BY <1>1 DEF pygvfs_monitor_add_end
  <2>2. CASE increments' >= 2 * Half
    BY <2>2, <2>1, MonitorConstants DEF IdInv, FirstRound, StaleIdsRefused, TypeOK
  <2>3. CASE increments' < 2 * Half
    <3>1. /\ k \in Nat \ {0}
          /\ increments \in Nat
          /\ increments < 2 * Half
          /\ Half \in Nat \ {0}
      BY <2>1, <2>3, MonitorConstants DEF TypeOK
    <3>2. monitor_id_counter = Advance(0, increments)
      BY <3>1 DEF IdInv, FirstRound
    <3>3. monitor_id_counter' = Advance(0, increments')
      BY <2>1, <2>3, <3>1, <3>2 DEF Advance
    <3>4. Unwrapped(Advance(0, increments')) = increments'
      BY <2>1, <2>3, <3>1 DEF Advance, Unwrapped
    <3>5. /\ issued'[m] = Advance(0, increments')
          /\ \A n \in Monitors \ {m} : issued'[n] = issued[n]
      BY <2>1, <3>3 DEF TypeOK
    <3>6. ASSUME NEW n \in Monitors \ {m}, issued[n] # NULL
          PROVE  /\ Unwrapped(issued[n]) \in 1 .. increments
                 /\ issued[n] # issued'[m]
      BY <3>1, <3>4, <3>5, <3>6, <2>1 DEF IdInv, FirstRound
    <3>7. FirstRound'
      <4>1. ASSUME NEW n \in Monitors, issued'[n] # NULL
            PROVE  Unwrapped(issued'[n]) \in 1 .. increments'
        <5>1. CASE n = m
          BY <5>1, <3>1, <3>4, <3>5, <2>1
        <5>2. CASE n # m
          <6>1. issued[n] # NULL /\ issued'[n] = issued[n]
            BY <4>1, <5>2, <3>5
          <6>2. Unwrapped(issued[n]) \in 1 .. increments
            BY <6>1, <5>2, <3>6
          <6> QED
            BY <6>1, <6>2, <3>1, <2>1
        <5> QED
          BY <5>1, <5>2
      <4> QED
        BY <4>1, <3>3 DEF FirstRound, Unwrapped
    <3>8. StaleIdsRefused'
      <4>1. SUFFICES ASSUME NEW a \in Monitors, NEW b \in Monitors,
                            a # b, issued'[a] # NULL
                     PROVE  issued'[a] # issued'[b]
        BY DEF StaleIdsRefused
      <4>2. NULL # Advance(0, increments')
        BY <3>1, <2>1, MonitorConstants DEF Advance
      <4>3. CASE a # m /\ b # m
        BY <4>1, <4>3, <3>1, <3>5 DEF IdInv, StaleIdsRefused
      <4>4. CASE a = m
        BY <4>1, <4>2, <4>4, <3>5, <3>6
      <4>5. CASE b = m
        BY <4>1, <4>2, <4>5, <3>5, <3>6
      <4> QED
        BY <4>3, <4>4, <4>5
    <3> QED
      BY <3>7, <3>8 DEF IdInv
  <2> QED
    BY <2>1, <2>2, <2>3, MonitorConstants DEF TypeOK
<1>2. CASE UNCHANGED <<monitor_id_counter, increments, issued>>
  BY <1>2 DEF IdInv, FirstRound, StaleIdsRefused, Unwrapped
<1>3. [Next]_vars => \/ \E m \in Monitors : pygvfs_monitor_add_end(m)
                     \/ UNCHANGED <<monitor_id_counter, increments, issued>>
  BY DEF Next, vars, pygvfs_monitor_add_begin, gnome_vfs_monitor_add,
         MarshalEnter, pygvfs_monitor_cancel, pygvfs_monitor_marshal,
         MarshalReturn
<1> QED
  BY <1>1, <1>2, <1>3

\* As long as the counter has not gone round, monitor_add never returns an
\* id a second time.
THEOREM StaleIdsRefusedHolds == Spec => []StaleIdsRefused
<1>1. Init => IdInv
  BY MonitorConstants
     DEF Init, IdInv, FirstRound, StaleIdsRefused, Advance, Unwrapped
<1>2. IdInv => StaleIdsRefused
  BY DEF IdInv
<1> QED
  BY <1>1, <1>2, TypeCorrect, IdStep, PTL DEF Spec

-----------------------------------------------------------------------------
\* What makes RecordOutlivesEvents inductive: a record is there from the
\* beginning of monitor_add on, and only a monitor past that point is called.
RecordInv ==
    /\ \A m \in Monitors : status[m] # "new" => cunote[m] = "live"
    /\ waiting # NULL => status[waiting] # "new"

\* One step keeps every record that GnomeVFS may still reach: cancel takes a
\* monitor out of the table and leaves its record, however many marshallers
\* wait for the GIL or have called Python.
LEMMA RecordStep ==
    ASSUME TypeOK, TableExact, RecordInv, [Next]_vars
    PROVE  RecordInv'
<1> USE DEF TypeOK, RecordInv
<1>1. ASSUME NEW m \in Monitors, pygvfs_monitor_add_begin(m)
      PROVE  RecordInv'
  BY <1>1 DEF pygvfs_monitor_add_begin
<1>2. ASSUME NEW m \in Monitors, gnome_vfs_monitor_add(m)
      PROVE  RecordInv'
  BY <1>2 DEF gnome_vfs_monitor_add
<1>3. ASSUME NEW m \in Monitors, pygvfs_monitor_add_end(m)
      PROVE  RecordInv'
  BY <1>3 DEF pygvfs_monitor_add_end
<1>4. ASSUME NEW m \in Monitors, MarshalEnter(m)
      PROVE  RecordInv'
  BY <1>4 DEF MarshalEnter
<1>5. ASSUME NEW id \in Ids, pygvfs_monitor_cancel(id)
      PROVE  RecordInv'
  <2>1. PICK m \in Monitors : m = monitor_hash[id]
    BY <1>5 DEF pygvfs_monitor_cancel
  <2>2. status[m] = "active"
    BY <2>1 DEF TableExact
  <2> QED
    BY <1>5, <2>1, <2>2 DEF pygvfs_monitor_cancel
<1>6. CASE pygvfs_monitor_marshal
  BY <1>6 DEF pygvfs_monitor_marshal
<1>7. CASE MarshalReturn
  BY <1>7 DEF MarshalReturn
<1>8. CASE UNCHANGED vars
  BY <1>8 DEF vars
<1> QED
  BY <1>1, <1>2, <1>3, <1>4, <1>5, <1>6, <1>7, <1>8 DEF Next

\* Whatever is cancelled while a marshaller waits for the GIL, the record it
\* will read is there, and so is that of every monitor GnomeVFS watches.
THEOREM RecordOutlivesEventsHolds == Spec => []RecordOutlivesEvents
<1>1. Init => RecordInv
  BY DEF Init, RecordInv
<1>2. TypeOK /\ RecordInv => RecordOutlivesEvents
  BY DEF TypeOK, RecordInv, RecordOutlivesEvents
<1> QED
  BY <1>1, <1>2, TypeCorrect, TableExactHolds, RecordStep, PTL DEF Spec

=============================================================================
