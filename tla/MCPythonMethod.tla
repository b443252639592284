--------------------------- MODULE MCPythonMethod ---------------------------
(***************************************************************************)
(* PythonMethod for TLC: threads and methods are interchangeable.          *)
(***************************************************************************)
EXTENDS PythonMethod, TLC

Symmetry == Permutations(Threads) \cup Permutations(Methods)

=============================================================================
