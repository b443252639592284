---------------------------- MODULE MCSyncHandle ----------------------------
(***************************************************************************)
(* SyncHandle for TLC.                                                     *)
(***************************************************************************)
EXTENDS SyncHandle, TLC

Symmetry ==
    Permutations(Threads) \cup Permutations(Objects \ Directories)
    \cup Permutations(Directories) \cup Permutations(Files)

=============================================================================
