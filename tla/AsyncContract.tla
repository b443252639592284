--------------------------- MODULE AsyncContract ---------------------------
(***************************************************************************)
(* What gnomevfs.async promises of one asynchronous operation, without the *)
(* records, buffers, references and nesting that carry it: the callback    *)
(* that ends the operation is called exactly once, the operation's memory  *)
(* is given back after it, and an operation is abandoned only when its     *)
(* handle was cancelled.                                                   *)
(***************************************************************************)
CONSTANTS Ops, Handles, NULL

VARIABLES
    phase,      \* idle, pending, calling, done or abandoned
    owner,      \* the handle of an operation that is not idle
    stopped     \* the handle was cancelled

cvars == <<phase, owner, stopped>>

CInit ==
    /\ phase = [o \in Ops |-> "idle"]
    /\ owner = [o \in Ops |-> NULL]
    /\ stopped = [h \in Handles |-> FALSE]

Submit(o, h) ==
    /\ phase[o] = "idle"
    /\ ~stopped[h]
    /\ phase' = [phase EXCEPT ![o] = "pending"]
    /\ owner' = [owner EXCEPT ![o] = h]
    /\ UNCHANGED stopped

Stop(h) ==
    /\ stopped' = [stopped EXCEPT ![h] = TRUE]
    /\ UNCHANGED <<phase, owner>>

Call(o) ==
    /\ phase[o] = "pending"
    /\ phase' = [phase EXCEPT ![o] = "calling"]
    /\ UNCHANGED <<owner, stopped>>

Finish(o) ==
    /\ phase[o] = "calling"
    /\ phase' = [phase EXCEPT ![o] = "done"]
    /\ UNCHANGED <<owner, stopped>>

Abandon(o) ==
    /\ phase[o] = "pending"
    /\ stopped[owner[o]]
    /\ phase' = [phase EXCEPT ![o] = "abandoned"]
    /\ UNCHANGED <<owner, stopped>>

CNext ==
    \/ \E h \in Handles : Stop(h)
    \/ \E o \in Ops :
          \/ \E h \in Handles : Submit(o, h)
          \/ Call(o)
          \/ Finish(o)
          \/ Abandon(o)

CSpec == CInit /\ [][CNext]_cvars

=============================================================================
