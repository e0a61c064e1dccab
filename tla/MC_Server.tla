----------------------------- MODULE MC_Server -----------------------------
(***************************************************************************)
(* Server.tla for TLC: constants by symmetry sets of model values.         *)
(***************************************************************************)
EXTENDS Server, TLC

Symmetry == Permutations(Conn) \cup Permutations(Worker) \cup Permutations(Fd)
=============================================================================
