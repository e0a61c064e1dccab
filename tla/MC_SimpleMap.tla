---------------------------- MODULE MC_SimpleMap ----------------------------
(***************************************************************************)
(* SimpleMap.tla for TLC: every name has two key nodes, so a replaced pair *)
(* can be told from the new one.                                           *)
(***************************************************************************)
EXTENDS SimpleMap, TLC

CONSTANTS Tag

MCKeyNode == [name : Name, tag : Tag]
Symmetry == Permutations(Name) \cup Permutations(Value) \cup Permutations(Tag)
=============================================================================
