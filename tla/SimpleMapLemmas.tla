-------------------------- MODULE SimpleMapLemmas --------------------------
(***************************************************************************)
(* What the operators of SimpleMapOps.tla do to a map that is in order,    *)
(* for any size of the map.  SimpleMapProofs.tla and CmdHandlerProofs.tla  *)
(* rest on these lemmas.                                                   *)
(***************************************************************************)
EXTENDS SimpleMapOps, TLAPS

\* The map m is in order, its keys in K and its values in V: the arrays have
\* capacity slots, the used ones hold nodes with different names, and the others
\* nothing.
Map(m, K, V) ==
  /\ m = [keys |-> m.keys, values |-> m.values, capacity |-> m.capacity, top |-> m.top]
  /\ m.capacity \in Nat \ {0}
  /\ m.top \in -1 .. m.capacity - 1
  /\ m.keys \in [0 .. m.capacity - 1 -> K \cup {NULL, UNDEF}]
  /\ m.values \in [0 .. m.capacity - 1 -> V \cup {NULL, UNDEF}]
  /\ \A i \in Used(m) : m.keys[i] \in K /\ m.values[i] \in V
  /\ \A i, j \in Used(m) : m.keys[i].name = m.keys[j].name => i = j
  /\ \A i \in 0 .. m.capacity - 1 : i > m.top => m.keys[i] \in {NULL, UNDEF}
                                                /\ m.keys[i] = m.values[i]

\* No entry of m has the name of key.
Absent(m, key) == \A i \in Used(m) : m.keys[i].name # key.name

\* The entry at pos is the one with the name of key.
At(m, key, pos) == pos \in Used(m) /\ m.keys[pos].name = key.name

LEMMA CreatedMap ==
  ASSUME NEW K, NEW V
  PROVE  Map(create_simple_map, K, V)
  BY DEF Map, create_simple_map, Used

\* The scan finds the name if it is there, and never meets an empty slot.
LEMMA FindIs ==
  ASSUME NEW K, NEW V, NEW m, Map(m, K, V), NULL \notin K, NEW key
  PROVE  \/ find(m, key) = KEY_NOT_FOUND /\ Absent(m, key)
         \/ find(m, key) \in Nat /\ At(m, key, find(m, key))
<1>1. Stops(m, key) = {i \in Used(m) : m.keys[i].name = key.name}
  BY DEF Stops, Map, compare
<1>2. CASE Stops(m, key) = {}
  BY <1>1, <1>2 DEF find, Absent
<1>3. CASE Stops(m, key) # {}
  <2>1. PICK i \in Used(m) : Stops(m, key) = {i} /\ m.keys[i].name = key.name
    <3>1. PICK i \in Stops(m, key) : TRUE
      BY <1>3
    <3>2. \A j \in Stops(m, key) : j = i
      BY <1>1, <3>1 DEF Map
    <3> QED BY <1>1, <3>1, <3>2
  <2>2. i \in Nat /\ i <= i
    BY <2>1 DEF Used, Map
  <2>3. FirstStop(m, key) = i
    BY <2>1, <2>2 DEF FirstStop
  <2>4. m.keys[i] # NULL
    BY <2>1 DEF Map
  <2> QED BY <1>3, <2>1, <2>2, <2>3, <2>4 DEF find, At
<1> QED BY <1>2, <1>3

LEMMA CodesDiffer ==
  /\ KEY_NOT_FOUND # KEY_ARR_ERROR /\ KEY_NOT_FOUND < 0 /\ KEY_ARR_ERROR < 0
  /\ ERROR_SET_SM_RTN # SUCESS_SET /\ ERROR_SET_SM_RTN # SUCESS_UPGRADE
  /\ SUCESS_SET # SUCESS_UPGRADE
  BY DEF KEY_NOT_FOUND, KEY_ARR_ERROR, ERROR_SET_SM_RTN, SUCESS_SET, SUCESS_UPGRADE

\* get returns the pair of the name.
LEMMA GetIs ==
  ASSUME NEW K, NEW V, NEW m, Map(m, K, V), NULL \notin K, NEW key
  PROVE  /\ Absent(m, key) => get(m, key) = NULL
         /\ \A pos : At(m, key, pos) =>
              get(m, key) = [key |-> m.keys[pos], value |-> m.values[pos]]
<1>1. CASE find(m, key) = KEY_NOT_FOUND /\ Absent(m, key)
  BY <1>1, CodesDiffer DEF get, Absent, At
<1>2. CASE find(m, key) \in Nat /\ At(m, key, find(m, key))
  <2>1. get(m, key) = [key |-> m.keys[find(m, key)], value |-> m.values[find(m, key)]]
    BY <1>2 DEF get
  <2>2. ASSUME NEW pos, At(m, key, pos)
        PROVE  pos = find(m, key)
    BY <1>2, <2>2 DEF At, Map
  <2>3. ~ Absent(m, key)
    BY <1>2 DEF At, Absent
  <2> QED BY <2>1, <2>2, <2>3
<1> QED BY <1>1, <1>2, FindIs

\* Growth that fails, at the keys or at the values, leaves the map as it was.
LEMMA FailedGrowth ==
  ASSUME NEW K, NEW V, NEW m, Map(m, K, V), NEW mem \in Memory, mem # "ok"
  PROVE  double_arrays(m, mem) = m
<1> DEFINE c == m.capacity
<1>1. m = [keys |-> m.keys, values |-> m.values, capacity |-> c, top |-> m.top]
  BY DEF Map
<1>2. Shrunk(Grown(m.keys, c), c) = m.keys
  <2>1. c \in Nat /\ m.keys = [i \in 0 .. c - 1 |-> m.keys[i]]
    BY DEF Map
  <2>2. \A i \in 0 .. c - 1 : Grown(m.keys, c)[i] = m.keys[i]
    BY <2>1 DEF Grown
  <2> HIDE DEF c
  <2>3. Shrunk(Grown(m.keys, c), c) = [i \in 0 .. c - 1 |-> m.keys[i]]
    BY <2>2 DEF Shrunk
  <2> QED BY <2>1, <2>3
<1>3. CASE mem = "keys"
  BY <1>3 DEF double_arrays
<1>4. CASE mem = "values"
  <2>1. double_arrays(m, mem) = [m EXCEPT !.keys = Shrunk(Grown(m.keys, c), c)]
    BY <1>4 DEF double_arrays
  <2>2. double_arrays(m, mem) = [m EXCEPT !.keys = m.keys]
    BY <1>2, <2>1
  <2> QED BY <1>1, <2>2
<1> QED BY <1>3, <1>4 DEF Memory

\* set: the cases told apart.
LEMMA SetIs ==
  ASSUME NEW K, NEW V, NEW m, Map(m, K, V), NULL \notin K, NEW key, NEW value,
         NEW mem \in Memory
  PROVE  /\ Absent(m, key) /\ ~ CanPush(m, mem) =>
              set(m, key, value, mem) = [sm |-> m, rtn |-> ERROR_SET_SM_RTN,
                                         key |-> key, value |-> value]
         /\ Absent(m, key) /\ CanPush(m, mem) =>
              set(m, key, value, mem) = [sm |-> PushGrown(m, key, value), rtn |-> SUCESS_SET,
                                         key |-> key, value |-> value]
         /\ \A pos : At(m, key, pos) =>
              set(m, key, value, mem) = [sm |-> upgrade(m, pos, key, value),
                                         rtn |-> SUCESS_UPGRADE,
                                         key |-> m.keys[pos], value |-> m.values[pos]]
<1>1. CASE find(m, key) = KEY_NOT_FOUND /\ Absent(m, key)
  <2>1. find(m, key) # KEY_ARR_ERROR
    BY <1>1, CodesDiffer
  <2>2. ~ CanPush(m, mem) => set(m, key, value, mem) = [sm |-> m, rtn |-> ERROR_SET_SM_RTN,
                                                       key |-> key, value |-> value]
    <3> SUFFICES ASSUME ~ CanPush(m, mem)
                 PROVE  set(m, key, value, mem) = [sm |-> m, rtn |-> ERROR_SET_SM_RTN,
                                                   key |-> key, value |-> value]
      OBVIOUS
    <3> DEFINE failed == [sm |-> m, rtn |-> ERROR_SET_SM_RTN, key |-> key, value |-> value]
    <3>1. set(m, key, value, mem) = [failed EXCEPT !.sm = double_arrays(m, mem)]
      BY <1>1, <2>1, Zenon DEF set
    <3>2. double_arrays(m, mem) = m
      BY FailedGrowth DEF CanPush
    <3> QED BY <3>1, <3>2
  <2>3. CanPush(m, mem) => set(m, key, value, mem) = [sm |-> PushGrown(m, key, value),
                                   rtn |-> SUCESS_SET, key |-> key, value |-> value]
    BY <1>1, <2>1, Zenon DEF set
  <2>4. \A pos : ~ At(m, key, pos)
    BY <1>1 DEF At, Absent
  <2> QED BY <2>2, <2>3, <2>4
<1>2. CASE find(m, key) \in Nat /\ At(m, key, find(m, key))
  <2>1. find(m, key) # KEY_ARR_ERROR /\ find(m, key) # KEY_NOT_FOUND
    BY <1>2, CodesDiffer
  <2>2. set(m, key, value, mem) = [sm |-> upgrade(m, find(m, key), key, value),
                                   rtn |-> SUCESS_UPGRADE,
                                   key |-> m.keys[find(m, key)], value |-> m.values[find(m, key)]]
    BY <2>1, Zenon DEF set
  <2>3. ASSUME NEW pos, At(m, key, pos)
        PROVE  pos = find(m, key)
    BY <1>2, <2>3 DEF At, Map
  <2>4. ~ Absent(m, key)
    BY <1>2 DEF At, Absent
  <2> QED BY <2>2, <2>3, <2>4
<1> QED BY <1>1, <1>2, FindIs

\* remove_key: the cases told apart.
LEMMA RemoveIs ==
  ASSUME NEW K, NEW V, NEW m, Map(m, K, V), NULL \notin K, NEW key
  PROVE  /\ Absent(m, key) =>
              remove_key(m, key) = [sm |-> m, rtn |-> "REMOVE_KEY_NOT_FOUND", pair |-> NULL]
         /\ \A pos : At(m, key, pos) =>
              remove_key(m, key) = [sm |-> RemoveAt(m, pos), rtn |-> "REMOVE_SUCCESS",
                                    pair |-> [key |-> m.keys[pos], value |-> m.values[pos]]]
<1>1. CASE find(m, key) = KEY_NOT_FOUND /\ Absent(m, key)
  <2>1. find(m, key) # KEY_ARR_ERROR
    BY <1>1, CodesDiffer
  <2>2. remove_key(m, key) = [sm |-> m, rtn |-> "REMOVE_KEY_NOT_FOUND", pair |-> NULL]
    BY <1>1, <2>1, Zenon DEF remove_key
  <2>3. \A pos : ~ At(m, key, pos)
    BY <1>1 DEF At, Absent
  <2> QED BY <2>2, <2>3
<1>2. CASE find(m, key) \in Nat /\ At(m, key, find(m, key))
  <2>1. find(m, key) # KEY_ARR_ERROR /\ find(m, key) # KEY_NOT_FOUND
    BY <1>2, CodesDiffer
  <2>2. remove_key(m, key) = [sm |-> RemoveAt(m, find(m, key)), rtn |-> "REMOVE_SUCCESS",
                              pair |-> get(m, key)]
    BY <2>1, Zenon DEF remove_key
  <2>3. ASSUME NEW pos, At(m, key, pos)
        PROVE  pos = find(m, key)
    BY <1>2, <2>3 DEF At, Map
  <2>4. get(m, key) = [key |-> m.keys[find(m, key)], value |-> m.values[find(m, key)]]
    BY <1>2, GetIs
  <2>5. ~ Absent(m, key)
    BY <1>2 DEF At, Absent
  <2> QED BY <2>2, <2>3, <2>4, <2>5
<1> QED BY <1>1, <1>2, FindIs

-----------------------------------------------------------------------------
(* The three changes keep a map in order.                                  *)

\* Growing the arrays changes no entry and makes room.
LEMMA GrownMap ==
  ASSUME NEW K, NEW V, NEW m, Map(m, K, V), is_full(m), NEW d, d = double_arrays(m, "ok")
  PROVE  /\ Map(d, K, V) /\ ~ is_full(d) /\ d.top = m.top
         /\ \A i \in Used(m) : d.keys[i] = m.keys[i] /\ d.values[i] = m.values[i]
<1> DEFINE c == m.capacity
<1>1. c \in Nat \ {0} /\ m.top = c - 1
  BY DEF Map, is_full
<1>2. d = [keys |-> Grown(m.keys, c), values |-> Grown(m.values, c), capacity |-> 2 * c,
           top |-> m.top]
  <2>1. m = [keys |-> m.keys, values |-> m.values, capacity |-> m.capacity, top |-> m.top]
    BY DEF Map
  <2> QED BY <2>1 DEF double_arrays
<1>3. 2 * c = c + c /\ 2 * c \in Nat \ {0} /\ m.top \in -1 .. 2 * c - 1 /\ m.top + 1 # 2 * c
  BY <1>1
<1>4. /\ Grown(m.keys, c) \in [0 .. 2 * c - 1 -> K \cup {NULL, UNDEF}]
      /\ Grown(m.values, c) \in [0 .. 2 * c - 1 -> V \cup {NULL, UNDEF}]
  BY <1>1 DEF Grown, Map
<1>5. \A i \in Used(m) : /\ Grown(m.keys, c)[i] = m.keys[i]
                         /\ Grown(m.values, c)[i] = m.values[i]
  BY <1>1 DEF Grown, Map, Used
<1>6. \A i \in 0 .. 2 * c - 1 : i > m.top => Grown(m.keys, c)[i] = UNDEF
                                             /\ Grown(m.values, c)[i] = UNDEF
  BY <1>1 DEF Grown
<1> HIDE DEF c
<1>7. Used(d) = Used(m)
  BY <1>2 DEF Used
<1>8. /\ \A i \in Used(m) : Grown(m.keys, c)[i] \in K /\ Grown(m.values, c)[i] \in V
      /\ \A i, j \in Used(m) :
           Grown(m.keys, c)[i].name = Grown(m.keys, c)[j].name => i = j
  BY <1>5 DEF Map
<1>9. Map(d, K, V)
  BY <1>2, <1>3, <1>4, <1>6, <1>7, <1>8 DEF Map
<1> QED BY <1>2, <1>3, <1>5, <1>9 DEF is_full

\* Pushing into a map with room adds one entry, after the others.
LEMMA PushMap ==
  ASSUME NEW K, NEW V, NEW m, Map(m, K, V), ~ is_full(m),
         NEW key \in K, NEW value \in V, Absent(m, key), NEW r, r = Push(m, key, value)
  PROVE  /\ Map(r, K, V) /\ r.top = m.top + 1
         /\ \A i \in Used(m) : r.keys[i] = m.keys[i] /\ r.values[i] = m.values[i]
         /\ r.keys[r.top] = key /\ r.values[r.top] = value
<1> DEFINE t == m.top + 1
<1>1. m = [keys |-> m.keys, values |-> m.values, capacity |-> m.capacity, top |-> m.top]
  BY DEF Map
<1>2. r = [keys |-> [m.keys EXCEPT ![t] = key], values |-> [m.values EXCEPT ![t] = value],
           capacity |-> m.capacity, top |-> t]
  BY <1>1 DEF Push
<1>3. t \in 0 .. m.capacity - 1 /\ m.capacity \in Nat \ {0}
  BY DEF Map, is_full
<1>4. /\ r.keys \in [0 .. m.capacity - 1 -> K \cup {NULL, UNDEF}]
      /\ r.values \in [0 .. m.capacity - 1 -> V \cup {NULL, UNDEF}]
  BY <1>2, <1>3 DEF Map
<1>5. /\ r.keys[t] = key /\ r.values[t] = value
      /\ \A i \in 0 .. m.capacity - 1 : i # t => r.keys[i] = m.keys[i]
                                                /\ r.values[i] = m.values[i]
  BY <1>2, <1>3 DEF Map
<1>6. m.top \in Int /\ Used(r) = Used(m) \cup {t} /\ Used(m) \subseteq 0 .. m.capacity - 1
      /\ t \notin Used(m)
  BY <1>2, <1>3 DEF Used, Map
<1>7. /\ r.capacity = m.capacity /\ r.top = t
      /\ r = [keys |-> r.keys, values |-> r.values, capacity |-> r.capacity, top |-> r.top]
  BY <1>2
<1> HIDE DEF t
<1>8. \A i \in Used(m) : r.keys[i] = m.keys[i] /\ r.values[i] = m.values[i]
  BY <1>5, <1>6
<1>9. \A i \in Used(r) : r.keys[i] \in K /\ r.values[i] \in V
  BY <1>5, <1>6, <1>8 DEF Map
<1>10. \A i, j \in Used(r) : r.keys[i].name = r.keys[j].name => i = j
  BY <1>5, <1>6, <1>8 DEF Map, Absent
<1>11. \A i \in 0 .. m.capacity - 1 : i > t => r.keys[i] \in {NULL, UNDEF}
                                               /\ r.keys[i] = r.values[i]
  <2>1. \A i \in 0 .. m.capacity - 1 : i > t => i > m.top /\ i # t
    BY <1>3 DEF t, Map
  <2> QED BY <1>5, <2>1 DEF Map
<1>12. Map(r, K, V)
  BY <1>3, <1>4, <1>7, <1>9, <1>10, <1>11 DEF Map
<1> QED BY <1>5, <1>7, <1>8, <1>12 DEF t

\* __set adds one entry, whether it has to grow the arrays or not.
LEMMA PushGrownMap ==
  ASSUME NEW K, NEW V, NEW m, Map(m, K, V),
         NEW key \in K, NEW value \in V, Absent(m, key), NEW r, r = PushGrown(m, key, value)
  PROVE  /\ Map(r, K, V) /\ r.top = m.top + 1
         /\ \A i \in Used(m) : r.keys[i] = m.keys[i] /\ r.values[i] = m.values[i]
         /\ r.keys[r.top] = key /\ r.values[r.top] = value
<1>1. CASE ~ is_full(m)
  BY <1>1, PushMap DEF PushGrown
<1>2. CASE is_full(m)
  <2>0. PICK d : d = double_arrays(m, "ok")
    OBVIOUS
  <2>1. /\ Map(d, K, V) /\ ~ is_full(d) /\ d.top = m.top
        /\ \A i \in Used(m) : d.keys[i] = m.keys[i] /\ d.values[i] = m.values[i]
    BY <1>2, <2>0, GrownMap
  <2>2. Used(d) = Used(m)
    BY <2>1 DEF Used
  <2>3. Absent(d, key)
    BY <2>1, <2>2 DEF Absent
  <2>4. r = Push(d, key, value)
    BY <1>2, <2>0, Zenon DEF PushGrown
  <2>5. /\ Map(r, K, V) /\ r.top = d.top + 1
        /\ \A i \in Used(d) : r.keys[i] = d.keys[i] /\ r.values[i] = d.values[i]
        /\ r.keys[r.top] = key /\ r.values[r.top] = value
    BY <2>1, <2>3, <2>4, PushMap
  <2> QED BY <2>1, <2>2, <2>5
<1> QED BY <1>1, <1>2

\* __upgrade replaces one entry by another of the same name.
LEMMA UpgradeMap ==
  ASSUME NEW K, NEW V, NEW m, Map(m, K, V),
         NEW key \in K, NEW value \in V, NEW pos, At(m, key, pos),
         NEW r, r = upgrade(m, pos, key, value)
  PROVE  /\ Map(r, K, V) /\ r.top = m.top
         /\ \A i \in Used(m) \ {pos} : r.keys[i] = m.keys[i] /\ r.values[i] = m.values[i]
         /\ r.keys[pos] = key /\ r.values[pos] = value
<1>1. m = [keys |-> m.keys, values |-> m.values, capacity |-> m.capacity, top |-> m.top]
  BY DEF Map
<1>2. r = [keys |-> [m.keys EXCEPT ![pos] = key], values |-> [m.values EXCEPT ![pos] = value],
           capacity |-> m.capacity, top |-> m.top]
  BY <1>1 DEF upgrade
<1>3. pos \in 0 .. m.capacity - 1 /\ m.capacity \in Nat \ {0}
  BY DEF Map, At, Used
<1>4. /\ r.keys \in [0 .. m.capacity - 1 -> K \cup {NULL, UNDEF}]
      /\ r.values \in [0 .. m.capacity - 1 -> V \cup {NULL, UNDEF}]
  BY <1>2, <1>3 DEF Map
<1>5. /\ r.keys[pos] = key /\ r.values[pos] = value
      /\ \A i \in 0 .. m.capacity - 1 : i # pos => r.keys[i] = m.keys[i]
                                                  /\ r.values[i] = m.values[i]
  BY <1>2, <1>3 DEF Map
<1>6. /\ r.capacity = m.capacity /\ r.top = m.top
      /\ r = [keys |-> r.keys, values |-> r.values, capacity |-> r.capacity, top |-> r.top]
  BY <1>2
<1>7. Used(r) = Used(m) /\ Used(m) \subseteq 0 .. m.capacity - 1
  BY <1>6 DEF Used, Map
<1>8. \A i \in Used(m) \ {pos} : r.keys[i] = m.keys[i] /\ r.values[i] = m.values[i]
  BY <1>5, <1>7
<1>9. \A i \in Used(r) : r.keys[i] \in K /\ r.values[i] \in V
  BY <1>5, <1>7, <1>8 DEF Map
<1>10. \A i, j \in Used(r) : r.keys[i].name = r.keys[j].name => i = j
  <2>1. \A i \in Used(m) : r.keys[i].name = m.keys[i].name
    BY <1>5, <1>8 DEF At
  <2> QED BY <1>7, <2>1 DEF Map
<1>11. \A i \in 0 .. m.capacity - 1 : i > m.top => r.keys[i] \in {NULL, UNDEF}
                                                   /\ r.keys[i] = r.values[i]
  <2>1. \A i \in 0 .. m.capacity - 1 : i > m.top => i # pos
    BY DEF At, Used, Map
  <2> QED BY <1>5, <2>1 DEF Map
<1>12. Map(r, K, V)
  BY <1>3, <1>4, <1>6, <1>9, <1>10, <1>11 DEF Map
<1> QED BY <1>5, <1>6, <1>8, <1>12

\* The shift of one array keeps its length ...
LEMMA ShiftedIn ==
  ASSUME NEW arr, NEW c \in Nat, DOMAIN arr = 0 .. c - 1, NEW top, NEW pos, NEW S,
         \A i \in 0 .. c - 1 : Shifted(arr, pos, top)[i] \in S
  PROVE  Shifted(arr, pos, top) \in [0 .. c - 1 -> S]
<1> DEFINE slot(i) == CASE i < pos \/ i > top -> arr[i]
                        [] i = top            -> NULL
                        [] OTHER              -> arr[i + 1]
<1>1. Shifted(arr, pos, top) = [i \in 0 .. c - 1 |-> slot(i)]
  BY Zenon DEF Shifted
<1> HIDE DEF slot
<1> QED BY <1>1

\* ... and moves the elements behind pos, up to top, down by one.
LEMMA ShiftedIs ==
  ASSUME NEW arr, NEW c \in Nat, DOMAIN arr = 0 .. c - 1,
         NEW top \in 0 .. c - 1, NEW pos \in 0 .. top
  PROVE  \A i \in 0 .. c - 1 :
           /\ i < pos \/ i > top => Shifted(arr, pos, top)[i] = arr[i]
           /\ i = top => Shifted(arr, pos, top)[i] = NULL
           /\ i >= pos /\ i < top => Shifted(arr, pos, top)[i] = arr[i + 1]
<1>1. ASSUME NEW i \in 0 .. c - 1
      PROVE  /\ i < pos \/ i > top => Shifted(arr, pos, top)[i] = arr[i]
             /\ i = top => Shifted(arr, pos, top)[i] = NULL
             /\ i >= pos /\ i < top => Shifted(arr, pos, top)[i] = arr[i + 1]
  <2>1. CASE i < pos \/ i > top
    <3>1. i # top /\ ~ (i >= pos /\ i < top)
      BY <2>1
    <3>2. Shifted(arr, pos, top)[i] = arr[i]
      BY <2>1, <3>1, Zenon DEF Shifted
    <3> QED BY <3>1, <3>2
  <2>2. CASE i = top
    <3>1. ~ (i < pos \/ i > top) /\ ~ (i >= pos /\ i < top)
      BY <2>2
    <3>2. Shifted(arr, pos, top)[i] = NULL
      BY <2>2, <3>1, Zenon DEF Shifted
    <3> QED BY <3>1, <3>2
  <2>3. CASE i >= pos /\ i < top
    <3>1. ~ (i < pos \/ i > top) /\ i # top
      BY <2>3
    <3>2. Shifted(arr, pos, top)[i] = arr[i + 1]
      BY <3>1, Zenon DEF Shifted
    <3> QED BY <3>1, <3>2
  <2> QED BY <2>1, <2>2, <2>3
<1> QED BY <1>1

\* remove_key takes one entry out and moves the later ones down.
LEMMA RemoveMap ==
  ASSUME NEW K, NEW V, NEW m, Map(m, K, V), NEW pos \in Used(m),
         NEW r, r = RemoveAt(m, pos)
  PROVE  /\ Map(r, K, V) /\ r.top = m.top - 1
         /\ \A i \in Used(r) :
              IF i < pos THEN r.keys[i] = m.keys[i] /\ r.values[i] = m.values[i]
                         ELSE r.keys[i] = m.keys[i + 1] /\ r.values[i] = m.values[i + 1]
<1>1. m = [keys |-> m.keys, values |-> m.values, capacity |-> m.capacity, top |-> m.top]
  BY DEF Map
<1>2. r = [keys |-> Shifted(m.keys, pos, m.top), values |-> Shifted(m.values, pos, m.top),
           capacity |-> m.capacity, top |-> m.top - 1]
  BY <1>1 DEF RemoveAt
<1> PICK c, t : c = m.capacity /\ t = m.top
  OBVIOUS
<1>3. c \in Nat /\ c # 0 /\ t \in 0 .. c - 1 /\ pos \in 0 .. t
  BY DEF Map, Used
<1>4. /\ r.capacity = c /\ r.top = t - 1
      /\ r = [keys |-> r.keys, values |-> r.values, capacity |-> r.capacity, top |-> r.top]
  BY <1>2
<1>5. PICK ks, vs : /\ ks = m.keys /\ vs = m.values
                    /\ DOMAIN ks = 0 .. c - 1 /\ DOMAIN vs = 0 .. c - 1
  BY DEF Map
<1>6. r.keys = Shifted(ks, pos, t) /\ r.values = Shifted(vs, pos, t)
  BY <1>2, <1>5
<1>7. \A i \in 0 .. c - 1 :
        /\ i < pos \/ i > t => r.keys[i] = ks[i]
        /\ i = t => r.keys[i] = NULL
        /\ i >= pos /\ i < t => r.keys[i] = ks[i + 1]
  <2>1. \A i \in 0 .. c - 1 :
          /\ i < pos \/ i > t => Shifted(ks, pos, t)[i] = ks[i]
          /\ i = t => Shifted(ks, pos, t)[i] = NULL
          /\ i >= pos /\ i < t => Shifted(ks, pos, t)[i] = ks[i + 1]
    BY <1>3, <1>5, ShiftedIs
  <2> QED BY <1>6, <2>1, Zenon
<1>8. \A i \in 0 .. c - 1 :
        /\ i < pos \/ i > t => r.values[i] = vs[i]
        /\ i = t => r.values[i] = NULL
        /\ i >= pos /\ i < t => r.values[i] = vs[i + 1]
  <2>1. \A i \in 0 .. c - 1 :
          /\ i < pos \/ i > t => Shifted(vs, pos, t)[i] = vs[i]
          /\ i = t => Shifted(vs, pos, t)[i] = NULL
          /\ i >= pos /\ i < t => Shifted(vs, pos, t)[i] = vs[i + 1]
    BY <1>3, <1>5, ShiftedIs
  <2> QED BY <1>6, <2>1, Zenon
<1>9. \A i \in 0 .. t : ks[i] \in K /\ vs[i] \in V
  BY <1>5 DEF Map, Used
<1>10. \A i \in 0 .. c - 1 : ks[i] \in K \cup {NULL, UNDEF} /\ vs[i] \in V \cup {NULL, UNDEF}
  BY <1>5 DEF Map
<1>11. \A i \in 0 .. c - 1 : i > t => ks[i] \in {NULL, UNDEF} /\ ks[i] = vs[i]
  BY <1>5 DEF Map
<1>12. \A i, j \in 0 .. t : ks[i].name = ks[j].name => i = j
  BY <1>5 DEF Map, Used
<1>13. Used(r) = 0 .. t - 1
  BY <1>4 DEF Used
<1>14. \A i \in 0 .. c - 1 : /\ r.keys[i] \in K \cup {NULL, UNDEF}
                             /\ r.values[i] \in V \cup {NULL, UNDEF}
  <2> TAKE i \in 0 .. c - 1
  <2>1. CASE i < pos \/ i > t
    BY <1>7, <1>8, <1>10, <2>1
  <2>2. CASE i = t
    BY <1>7, <1>8, <2>2
  <2>3. CASE i >= pos /\ i < t
    <3>1. i + 1 \in 0 .. c - 1
      BY <1>3, <2>3
    <3> QED BY <1>7, <1>8, <1>10, <2>3, <3>1
  <2> QED BY <1>3, <2>1, <2>2, <2>3
<1>15. r.keys \in [0 .. c - 1 -> K \cup {NULL, UNDEF}]
  <2>1. PICK S : S = K \cup {NULL, UNDEF}
    OBVIOUS
  <2>2. \A i \in 0 .. c - 1 : Shifted(ks, pos, t)[i] \in S
    BY <1>6, <1>14, <2>1
  <2>3. Shifted(ks, pos, t) \in [0 .. c - 1 -> S]
    BY <1>3, <1>5, <2>2, ShiftedIn
  <2> QED BY <1>6, <2>1, <2>3
<1>16. r.values \in [0 .. c - 1 -> V \cup {NULL, UNDEF}]
  <2>1. PICK S : S = V \cup {NULL, UNDEF}
    OBVIOUS
  <2>2. \A i \in 0 .. c - 1 : Shifted(vs, pos, t)[i] \in S
    BY <1>6, <1>14, <2>1
  <2>3. Shifted(vs, pos, t) \in [0 .. c - 1 -> S]
    BY <1>3, <1>5, <2>2, ShiftedIn
  <2> QED BY <1>6, <2>1, <2>3
<1>17. \A i \in Used(r) :
         IF i < pos THEN r.keys[i] = ks[i] /\ r.values[i] = vs[i]
                    ELSE r.keys[i] = ks[i + 1] /\ r.values[i] = vs[i + 1]
  BY <1>3, <1>7, <1>8, <1>13
<1>18. \A i \in Used(r) : r.keys[i] \in K /\ r.values[i] \in V
  BY <1>3, <1>9, <1>13, <1>17
<1>19. \A i, j \in Used(r) : r.keys[i].name = r.keys[j].name => i = j
  <2> SUFFICES ASSUME NEW i \in Used(r), NEW j \in Used(r), r.keys[i].name = r.keys[j].name
               PROVE  i = j
    OBVIOUS
  <2> DEFINE s(x) == IF x < pos THEN x ELSE x + 1
  <2>1. s(i) \in 0 .. t /\ s(j) \in 0 .. t /\ r.keys[i] = ks[s(i)] /\ r.keys[j] = ks[s(j)]
    BY <1>3, <1>13, <1>17
  <2>2. s(i) = s(j)
    BY <1>12, <2>1
  <2> QED BY <1>3, <1>13, <2>2
<1>20. \A i \in 0 .. c - 1 : i > t - 1 => r.keys[i] \in {NULL, UNDEF} /\ r.keys[i] = r.values[i]
  BY <1>3, <1>7, <1>8, <1>11
<1>21. Map(r, K, V)
  BY <1>3, <1>4, <1>15, <1>16, <1>18, <1>19, <1>20 DEF Map
<1> QED BY <1>4, <1>5, <1>17, <1>21

\* After remove_key every entry but the one at pos is found again, and no other.
LEMMA RemoveEntries ==
  ASSUME NEW K, NEW V, NEW m, Map(m, K, V), NEW pos \in Used(m),
         NEW r, r = RemoveAt(m, pos)
  PROVE  /\ \A i \in Used(r) : \E j \in Used(m) \ {pos} :
              r.keys[i] = m.keys[j] /\ r.values[i] = m.values[j]
         /\ \A j \in Used(m) \ {pos} : \E i \in Used(r) :
              r.keys[i] = m.keys[j] /\ r.values[i] = m.values[j]
<1>1. /\ r.top = m.top - 1
      /\ \A i \in Used(r) :
           IF i < pos THEN r.keys[i] = m.keys[i] /\ r.values[i] = m.values[i]
                      ELSE r.keys[i] = m.keys[i + 1] /\ r.values[i] = m.values[i + 1]
  BY RemoveMap
<1>2. m.top \in Int /\ m.top >= -1
  BY DEF Map
<1>3. ASSUME NEW i \in Used(r)
      PROVE  \E j \in Used(m) \ {pos} : r.keys[i] = m.keys[j] /\ r.values[i] = m.values[j]
  <2>1. CASE i < pos
    <3>1. i \in Used(m) \ {pos}
      BY <1>1, <1>2, <2>1 DEF Used
    <3> QED BY <1>1, <2>1, <3>1
  <2>2. CASE ~ (i < pos)
    <3>1. i + 1 \in Used(m) \ {pos}
      BY <1>1, <1>2, <2>2 DEF Used
    <3> QED BY <1>1, <2>2, <3>1
  <2> QED BY <2>1, <2>2
<1>4. ASSUME NEW j \in Used(m) \ {pos}
      PROVE  \E i \in Used(r) : r.keys[i] = m.keys[j] /\ r.values[i] = m.values[j]
  <2>1. CASE j < pos
    <3>1. j \in Used(r)
      BY <1>1, <1>2, <2>1 DEF Used
    <3> QED BY <1>1, <2>1, <3>1
  <2>2. CASE j > pos
    <3>1. j - 1 \in Used(r) /\ ~ (j - 1 < pos) /\ j - 1 + 1 = j
      BY <1>1, <1>2, <2>2 DEF Used
    <3> QED BY <1>1, <3>1
  <2> QED BY <2>1, <2>2 DEF Used
<1> QED BY <1>3, <1>4

\* A name is absent or has a place.
LEMMA AbsentOrAt ==
  ASSUME NEW m, NEW key
  PROVE  Absent(m, key) \/ \E pos : At(m, key, pos)
  BY DEF Absent, At
=============================================================================
