---------------------------- MODULE MCSyncCalls ----------------------------
(***************************************************************************)
(* SyncCalls for TLC.                                                      *)
(***************************************************************************)
EXTENDS SyncCalls, TLC

Symmetry == Permutations(Threads) \cup Permutations(Lists)

=============================================================================
