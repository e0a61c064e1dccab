----------------------------- MODULE SimpleMap -----------------------------
(***************************************************************************)
(* The map of src/src/simple_map.c under any sequence of set, get and      *)
(* remove_key calls by one thread, with either realloc, or the calloc of   *)
(* get, failing at any time.                                               *)
(***************************************************************************)
EXTENDS SimpleMapOps

CONSTANTS
  Name,     \* key contents (a key's size and bytes)
  KeyNode,  \* key nodes; k.name is the content of node k
  Value     \* value nodes

ASSUME KeyNodeAssumption ==
  /\ \A k \in KeyNode : k.name \in Name
  /\ NULL \notin KeyNode /\ UNDEF \notin KeyNode
  /\ NULL \notin [key : KeyNode, value : Value]

VARIABLES sm,   \* the map
          last  \* the last call and what it returned

vars == <<sm, last>>

Init ==
  /\ sm = create_simple_map
  /\ last = [op |-> "create", rtn |-> "ok", pair |-> NULL]

SetRtn == [n \in {ERROR_SET_SM_RTN, SUCESS_SET, SUCESS_UPGRADE} |->
             CASE n = ERROR_SET_SM_RTN -> "failed"
               [] n = SUCESS_SET       -> "new"
               [] n = SUCESS_UPGRADE   -> "replaced"]

Set(k, v, mem) ==
  LET r == set(sm, k, v, mem)
  IN  /\ sm' = r.sm
      /\ last' = [op |-> "set", rtn |-> SetRtn[r.rtn],
                  pair |-> [key |-> r.key, value |-> r.value]]

Get(k) ==
  /\ last' = [op |-> "get", rtn |-> "ok", pair |-> get(sm, k)]
  /\ UNCHANGED sm

\* The key is there, but not the memory for the pair: the caller gets NULL, as
\* for a key that is not.
GetFails(k) ==
  /\ find(sm, k) >= 0
  /\ last' = [op |-> "get", rtn |-> "failed", pair |-> NULL]
  /\ UNCHANGED sm

RemoveRtn(rtn) == CASE rtn = "REMOVE_SUCCESS"       -> "removed"
                    [] rtn = "REMOVE_KEY_NOT_FOUND" -> "absent"
                    [] rtn = "REMOVE_ERROR"         -> "failed"

Remove(k) ==
  LET r == remove_key(sm, k)
  IN  /\ sm' = r.sm
      /\ last' = [op |-> "remove", rtn |-> RemoveRtn(r.rtn), pair |-> r.pair]

Next ==
  \E k \in KeyNode :
    \/ Get(k)
    \/ GetFails(k)
    \/ Remove(k)
    \/ \E v \in Value, mem \in Memory : Set(k, v, mem)

Spec == Init /\ [][Next]_vars

-----------------------------------------------------------------------------
(* Properties.                                                             *)

\* The two arrays have capacity slots, and the used ones hold nodes: no scan
\* meets a null or an unwritten slot, so KEY_ARR_ERROR and REMOVE_ERROR are
\* never returned for a map that create_simple_map made.
TypeOK ==
  /\ sm.capacity \in Nat \ {0}
  /\ sm.top \in -1 .. sm.capacity - 1
  /\ sm.keys \in [0 .. sm.capacity - 1 -> KeyNode \cup {NULL, UNDEF}]
  /\ sm.values \in [0 .. sm.capacity - 1 -> Value \cup {NULL, UNDEF}]
  /\ \A i \in Used(sm) : sm.keys[i] \in KeyNode /\ sm.values[i] \in Value

\* A name is stored at most once, so the first match of a scan is the only one.
NamesDistinct ==
  \A i, j \in Used(sm) : sm.keys[i].name = sm.keys[j].name => i = j

\* A slot above top is never taken for an entry that remove_key forgot: once
\* it was used it is NULL, and only slots realloc added are unwritten.
AboveTop ==
  \A i \in 0 .. sm.capacity - 1 : i > sm.top =>
    /\ sm.keys[i] \in {NULL, UNDEF}
    /\ sm.keys[i] = sm.values[i]

\* The arrays are in order, through growth, failed growth and removal.
MapOK == TypeOK /\ NamesDistinct /\ AboveTop

\* The dictionary the arrays stand for.
dict == [n \in Name |->
  LET at == {i \in Used(sm) : sm.keys[i].name = n}
  IN  IF at = {} THEN NULL
      ELSE LET i == CHOOSE i \in at : TRUE
           IN  [key |-> sm.keys[i], value |-> sm.values[i]]]

Dict == INSTANCE Dictionary

\* Every call behaves as on a dictionary: it returns the pair last set under
\* the name, and the arrays' growth and shifting never show.
ImplementsDictionary == Dict!Spec
=============================================================================
