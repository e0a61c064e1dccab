---------------------------- MODULE SimpleMapOps ----------------------------
(***************************************************************************)
(* The array map of src/src/simple_map.c, as operators on a record with    *)
(* the fields of struct SimpleMap: keys and values (indexed from 0 to      *)
(* capacity - 1), top and capacity.  A slot holds the key or value node    *)
(* its wrapper points to; NULL is the null pointer, UNDEF the content of   *)
(* memory that realloc returned and nobody wrote.                          *)
(*                                                                         *)
(* An operator that changes the map returns the new map with its result.   *)
(* Which realloc finds no memory, if one does, is the parameter mem.  The  *)
(* callocs of the small wrappers always find some (SimpleMap.tla has the   *)
(* one of get that does not).                                              *)
(***************************************************************************)
EXTENDS Integers, FiniteSets

CONSTANTS NULL, UNDEF

ASSUME NullIsNotUndef == NULL # UNDEF

\* enum FindKeyStates, SetKeyValueRtn and RemoveItemState.
KEY_ARR_ERROR == -2
KEY_NOT_FOUND == -3
ERROR_SET_SM_RTN == 0
SUCESS_SET == 1
SUCESS_UPGRADE == 2

\* compare of cmd_handler.c: same size and same bytes.
compare(a, b) == a.name = b.name

create_simple_map ==
  [keys     |-> [i \in 0 .. 0 |-> NULL],
   values   |-> [i \in 0 .. 0 |-> NULL],
   capacity |-> 1,
   top      |-> -1]

Used(sm) == 0 .. sm.top

\* The scan that __find and remove_key share: it ends at the first slot that
\* is empty or holds the key.
Stops(sm, key) ==
  {i \in Used(sm) : sm.keys[i] = NULL \/ compare(sm.keys[i], key)}
FirstStop(sm, key) ==
  CHOOSE i \in Stops(sm, key) : \A j \in Stops(sm, key) : i =< j

find(sm, key) ==
  IF Stops(sm, key) = {} THEN KEY_NOT_FOUND
  ELSE IF sm.keys[FirstStop(sm, key)] = NULL THEN KEY_ARR_ERROR
  ELSE FirstStop(sm, key)

is_full(sm) == sm.top + 1 = sm.capacity

\* realloc keeps the old slots and leaves the new ones unwritten.
Grown(arr, capacity) ==
  [i \in 0 .. 2 * capacity - 1 |-> IF i < capacity THEN arr[i] ELSE UNDEF]

Shrunk(arr, capacity) == [i \in 0 .. capacity - 1 |-> arr[i]]

\* The realloc of the keys, or that of the values, fails.
Memory == {"ok", "keys", "values"}

\* Mutant: the new capacity stands although the values did not grow.
double_arrays_early(sm, mem) ==
  CASE mem = "keys"   -> sm
    [] mem = "values" -> [sm EXCEPT !.keys = Grown(@, sm.capacity), !.capacity = 2 * @]
    [] OTHER          -> [sm EXCEPT !.keys     = Grown(@, sm.capacity),
                                    !.values   = Grown(@, sm.capacity),
                                    !.capacity = 2 * @]

\* When the values cannot grow, the keys, which have, are shrunk back: the C
\* library never fails to shrink, so that keys does not become a null pointer.
double_arrays(sm, mem) ==
  CASE mem = "keys"   -> sm
    [] mem = "values" -> [sm EXCEPT !.keys = Shrunk(Grown(@, sm.capacity), sm.capacity)]
    [] OTHER          -> [sm EXCEPT !.keys     = Grown(@, sm.capacity),
                                    !.values   = Grown(@, sm.capacity),
                                    !.capacity = 2 * @]

\* __set behind the growth of the arrays.
Push(sm, key, value) ==
  [sm EXCEPT !.top = @ + 1,
             !.keys[sm.top + 1]   = key,
             !.values[sm.top + 1] = value]

\* __set: the pair is pushed if there is room or the arrays could be doubled.
CanPush(sm, mem) == ~ is_full(sm) \/ mem = "ok"
PushGrown(sm, key, value) ==
  Push(IF is_full(sm) THEN double_arrays(sm, "ok") ELSE sm, key, value)

\* __upgrade: the pair in the slot and the caller's pair change places.
upgrade(sm, pos, key, value) ==
  [sm EXCEPT !.keys[pos] = key, !.values[pos] = value]

\* set: rtn is what it returns, key and value the caller's pair afterwards.
set(sm, key, value, mem) ==
  LET pos == find(sm, key)
      failed == [sm |-> sm, rtn |-> ERROR_SET_SM_RTN, key |-> key, value |-> value]
  IN  CASE pos = KEY_ARR_ERROR -> failed
        [] pos = KEY_NOT_FOUND /\ ~ CanPush(sm, mem) ->
             [failed EXCEPT !.sm = double_arrays(sm, mem)]
        [] pos = KEY_NOT_FOUND /\ CanPush(sm, mem) ->
             [sm |-> PushGrown(sm, key, value), rtn |-> SUCESS_SET,
              key |-> key, value |-> value]
        [] OTHER ->
             [sm |-> upgrade(sm, pos, key, value), rtn |-> SUCESS_UPGRADE,
              key |-> sm.keys[pos], value |-> sm.values[pos]]

\* get: the stored pair, or NULL if the key is not there (or on an error).
get(sm, key) ==
  IF find(sm, key) < 0 THEN NULL
  ELSE [key |-> sm.keys[find(sm, key)], value |-> sm.values[find(sm, key)]]

\* remove_key behind the scan: every slot after pos moves down by one.
Shifted(arr, pos, top) ==
  [i \in DOMAIN arr |-> CASE i < pos \/ i > top -> arr[i]
                          [] i = top            -> NULL
                          [] OTHER              -> arr[i + 1]]
\* Mutant: only the keys move down.
RemoveAt_keys_only(sm, pos) ==
  [sm EXCEPT !.keys   = Shifted(@, pos, sm.top),
             !.values = [@ EXCEPT ![sm.top] = NULL],
             !.top    = @ - 1]

RemoveAt(sm, pos) ==
  [sm EXCEPT !.keys   = Shifted(@, pos, sm.top),
             !.values = Shifted(@, pos, sm.top),
             !.top    = @ - 1]

\* remove_key: rtn is the enumeration value it returns.
remove_key(sm, key) ==
  LET pos == find(sm, key)
  IN  CASE pos = KEY_NOT_FOUND -> [sm |-> sm, rtn |-> "REMOVE_KEY_NOT_FOUND", pair |-> NULL]
        [] pos = KEY_ARR_ERROR -> [sm |-> sm, rtn |-> "REMOVE_ERROR", pair |-> NULL]
        [] OTHER -> [sm |-> RemoveAt(sm, pos), rtn |-> "REMOVE_SUCCESS",
                     pair |-> get(sm, key)]
=============================================================================
