----------------------------- MODULE Dictionary -----------------------------
(***************************************************************************)
(* What simple_map.c promises: a finite map from names to pairs of a key   *)
(* node and a value.  Setting a present name replaces the pair and hands   *)
(* the old one back; setting a new name, or getting a present one, may     *)
(* fail for lack of memory and then changes nothing.  SimpleMap.tla        *)
(* implements this module.                                                 *)
(***************************************************************************)
CONSTANTS Name, KeyNode, Value, NULL

VARIABLES dict,  \* dict[n]: the pair stored under name n, or NULL
          last   \* the last call and what it returned

vars == <<dict, last>>

Init ==
  /\ dict = [n \in Name |-> NULL]
  /\ last = [op |-> "create", rtn |-> "ok", pair |-> NULL]

Set(k, v) ==
  LET old == dict[k.name]
  IN  \/ /\ dict' = [dict EXCEPT ![k.name] = [key |-> k, value |-> v]]
         /\ last' = IF old = NULL
                    THEN [op |-> "set", rtn |-> "new", pair |-> [key |-> k, value |-> v]]
                    ELSE [op |-> "set", rtn |-> "replaced", pair |-> old]
      \/ /\ old = NULL
         /\ dict' = dict
         /\ last' = [op |-> "set", rtn |-> "failed", pair |-> [key |-> k, value |-> v]]

Get(k) ==
  /\ dict' = dict
  /\ \/ last' = [op |-> "get", rtn |-> "ok", pair |-> dict[k.name]]
     \/ dict[k.name] # NULL /\ last' = [op |-> "get", rtn |-> "failed", pair |-> NULL]

Remove(k) ==
  LET old == dict[k.name]
  IN  /\ dict' = [dict EXCEPT ![k.name] = NULL]
      /\ last' = [op |-> "remove", rtn |-> IF old = NULL THEN "absent" ELSE "removed",
                  pair |-> old]

Next == \E k \in KeyNode : Get(k) \/ Remove(k) \/ \E v \in Value : Set(k, v)

Spec == Init /\ [][Next]_vars
=============================================================================
