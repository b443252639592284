----------------------------- MODULE MCMonitor -----------------------------
(***************************************************************************)
(* Monitor on a gint of a few values, so that the counter wraps.           *)
(***************************************************************************)
EXTENDS Monitor, TLC

Symmetry == Permutations(Monitors)

=============================================================================
