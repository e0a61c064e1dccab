--------------------------- MODULE MC_CmdHandler ---------------------------
(***************************************************************************)
(* CmdHandler.tla for TLC.  No step reads call and reply, and the          *)
(* properties that mention them speak of steps, which TLC checks whether   *)
(* or not they lead to a new state: the view leaves both out.              *)
(***************************************************************************)
EXTENDS CmdHandler, TLC

View == <<sm, heap, now>>
Symmetry == Permutations(Name) \cup Permutations(Value) \cup Permutations(Id)
=============================================================================
