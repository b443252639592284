--------------------------- MODULE MCAsyncHandle ---------------------------
(***************************************************************************)
(* Instances of AsyncHandle for TLC.  Wrappers and records are             *)
(* interchangeable, so the safety run uses both as symmetry sets.          *)
(***************************************************************************)
EXTENDS AsyncHandle, TLC

Symmetry == Permutations(Handles) \cup Permutations(Ops)

=============================================================================
