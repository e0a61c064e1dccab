---------------------------- MODULE MC_StoreRace ----------------------------
(* StoreRace.tla for TLC: calls and names are interchangeable.             *)
EXTENDS StoreRace, TLC

Symmetry == Permutations(Call) \cup Permutations(Name)
=============================================================================
