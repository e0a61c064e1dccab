-------------------------- MODULE SimpleMapProofs --------------------------
(***************************************************************************)
(* Proofs about SimpleMap.tla: the arrays stay in order under any sequence *)
(* of calls, and behave as a dictionary, for any number of names.          *)
(***************************************************************************)
EXTENDS SimpleMap, SimpleMapLemmas

Inv == Map(sm, KeyNode, Value)

Pair(key, value) == [key |-> key, value |-> value]

\* The dictionary that the map m stands for.
DictOf(m) == [n \in Name |->
  LET at == {i \in Used(m) : m.keys[i].name = n}
  IN  IF at = {} THEN NULL
      ELSE LET i == CHOOSE i \in at : TRUE
           IN  [key |-> m.keys[i], value |-> m.values[i]]]

LEMMA PairIsNotNull ==
  ASSUME NEW key \in KeyNode, NEW value \in Value
  PROVE  Pair(key, value) # NULL
  BY KeyNodeAssumption DEF Pair

\* The dictionary holds the entries of the map, each under its name.
LEMMA DictOfIs ==
  ASSUME NEW m, Map(m, KeyNode, Value), NEW n \in Name
  PROVE  /\ (\A i \in Used(m) : m.keys[i].name # n) => DictOf(m)[n] = NULL
         /\ \A i \in Used(m) : m.keys[i].name = n
                                => DictOf(m)[n] = Pair(m.keys[i], m.values[i])
<1> DEFINE at == {i \in Used(m) : m.keys[i].name = n}
<1>1. CASE at = {}
  BY <1>1 DEF DictOf
<1>2. ASSUME NEW i \in Used(m), m.keys[i].name = n
      PROVE  DictOf(m)[n] = Pair(m.keys[i], m.values[i])
  <2>1. at = {i}
    BY <1>2 DEF Map
  <2>2. (CHOOSE j \in at : TRUE) = i
    BY <2>1
  <2>3. DictOf(m)[n] = [key |-> m.keys[CHOOSE j \in at : TRUE],
                        value |-> m.values[CHOOSE j \in at : TRUE]]
    BY <2>1 DEF DictOf
  <2> QED BY <2>2, <2>3 DEF Pair
<1> QED BY <1>1, <1>2

LEMMA KeyName ==
  ASSUME NEW m, Map(m, KeyNode, Value), NEW i \in Used(m)
  PROVE  m.keys[i] \in KeyNode /\ m.values[i] \in Value /\ m.keys[i].name \in Name
  BY KeyNodeAssumption DEF Map

-----------------------------------------------------------------------------
(* What the changes of the map do to the dictionary.                       *)

LEMMA PushDict ==
  ASSUME NEW m, Map(m, KeyNode, Value), NEW k \in KeyNode, NEW v \in Value, Absent(m, k)
  PROVE  /\ Map(PushGrown(m, k, v), KeyNode, Value)
         /\ DictOf(PushGrown(m, k, v)) = [DictOf(m) EXCEPT ![k.name] = Pair(k, v)]
<1>1. PICK r : r = PushGrown(m, k, v)
  OBVIOUS
<1>2. /\ Map(r, KeyNode, Value) /\ r.top = m.top + 1
      /\ \A i \in Used(m) : r.keys[i] = m.keys[i] /\ r.values[i] = m.values[i]
      /\ r.keys[r.top] = k /\ r.values[r.top] = v
  BY <1>1, PushGrownMap
<1>3. m.top \in Int /\ m.top >= -1
  BY DEF Map
<1>4. Used(r) = Used(m) \cup {r.top}
  BY <1>2, <1>3 DEF Used
<1>5. ASSUME NEW n \in Name
      PROVE  DictOf(r)[n] = IF n = k.name THEN Pair(k, v) ELSE DictOf(m)[n]
  <2>1. CASE n = k.name
    BY <1>2, <1>4, <2>1, DictOfIs
  <2>2. CASE n # k.name /\ \E i \in Used(m) : m.keys[i].name = n
    <3>1. PICK i \in Used(m) : m.keys[i].name = n
      BY <2>2
    <3>2. DictOf(m)[n] = Pair(m.keys[i], m.values[i])
      BY <3>1, DictOfIs
    <3>3. DictOf(r)[n] = Pair(r.keys[i], r.values[i])
      BY <1>2, <1>4, <3>1, DictOfIs
    <3> QED BY <1>2, <2>2, <3>2, <3>3
  <2>3. CASE n # k.name /\ \A i \in Used(m) : m.keys[i].name # n
    <3>1. \A i \in Used(r) : r.keys[i].name # n
      BY <1>2, <1>4, <2>3
    <3> QED BY <1>2, <2>3, <3>1, DictOfIs
  <2> QED BY <2>1, <2>2, <2>3
<1>6. DictOf(r) = [DictOf(m) EXCEPT ![k.name] = Pair(k, v)]
  <2>1. /\ DictOf(m) = [n \in Name |-> DictOf(m)[n]]
        /\ DictOf(r) = [n \in Name |-> DictOf(r)[n]]
    BY DEF DictOf
  <2> QED BY <1>5, <2>1
<1> QED BY <1>1, <1>2, <1>6

LEMMA UpgradeDict ==
  ASSUME NEW m, Map(m, KeyNode, Value), NEW k \in KeyNode, NEW v \in Value,
         NEW pos, At(m, k, pos)
  PROVE  /\ Map(upgrade(m, pos, k, v), KeyNode, Value)
         /\ DictOf(upgrade(m, pos, k, v)) = [DictOf(m) EXCEPT ![k.name] = Pair(k, v)]
<1>1. PICK r : r = upgrade(m, pos, k, v)
  OBVIOUS
<1>2. /\ Map(r, KeyNode, Value) /\ r.top = m.top
      /\ \A i \in Used(m) \ {pos} : r.keys[i] = m.keys[i] /\ r.values[i] = m.values[i]
      /\ r.keys[pos] = k /\ r.values[pos] = v
  BY <1>1, UpgradeMap
<1>3. Used(r) = Used(m) /\ pos \in Used(m) /\ m.keys[pos].name = k.name
  BY <1>2 DEF Used, At
<1>4. ASSUME NEW n \in Name
      PROVE  DictOf(r)[n] = IF n = k.name THEN Pair(k, v) ELSE DictOf(m)[n]
  <2>1. CASE n = k.name
    BY <1>2, <1>3, <2>1, DictOfIs
  <2>2. CASE n # k.name /\ \E i \in Used(m) : m.keys[i].name = n
    <3>1. PICK i \in Used(m) : m.keys[i].name = n
      BY <2>2
    <3>2. i # pos
      BY <1>3, <2>2, <3>1
    <3>3. DictOf(m)[n] = Pair(m.keys[i], m.values[i])
      BY <3>1, DictOfIs
    <3>4. DictOf(r)[n] = Pair(r.keys[i], r.values[i])
      BY <1>2, <1>3, <3>1, <3>2, DictOfIs
    <3> QED BY <1>2, <2>2, <3>2, <3>3, <3>4
  <2>3. CASE n # k.name /\ \A i \in Used(m) : m.keys[i].name # n
    <3>1. \A i \in Used(r) : r.keys[i].name # n
      BY <1>2, <1>3, <2>3
    <3> QED BY <1>2, <2>3, <3>1, DictOfIs
  <2> QED BY <2>1, <2>2, <2>3
<1>5. DictOf(r) = [DictOf(m) EXCEPT ![k.name] = Pair(k, v)]
  <2>1. /\ DictOf(m) = [n \in Name |-> DictOf(m)[n]]
        /\ DictOf(r) = [n \in Name |-> DictOf(r)[n]]
    BY DEF DictOf
  <2> QED BY <1>4, <2>1
<1> QED BY <1>1, <1>2, <1>5

LEMMA RemoveDict ==
  ASSUME NEW m, Map(m, KeyNode, Value), NEW k \in KeyNode, NEW pos, At(m, k, pos)
  PROVE  /\ Map(RemoveAt(m, pos), KeyNode, Value)
         /\ DictOf(RemoveAt(m, pos)) = [DictOf(m) EXCEPT ![k.name] = NULL]
<1>1. PICK r : r = RemoveAt(m, pos)
  OBVIOUS
<1>2. pos \in Used(m) /\ m.keys[pos].name = k.name
  BY DEF At
<1>3. Map(r, KeyNode, Value)
  BY <1>1, <1>2, RemoveMap
<1>4. /\ \A i \in Used(r) : \E j \in Used(m) \ {pos} :
           r.keys[i] = m.keys[j] /\ r.values[i] = m.values[j]
      /\ \A j \in Used(m) \ {pos} : \E i \in Used(r) :
           r.keys[i] = m.keys[j] /\ r.values[i] = m.values[j]
  BY <1>1, <1>2, RemoveEntries
<1>5. ASSUME NEW n \in Name
      PROVE  DictOf(r)[n] = IF n = k.name THEN NULL ELSE DictOf(m)[n]
  <2>1. CASE n = k.name
    <3>1. \A i \in Used(r) : r.keys[i].name # n
      <4> SUFFICES ASSUME NEW i \in Used(r), r.keys[i].name = n PROVE FALSE
        OBVIOUS
      <4>1. PICK j \in Used(m) \ {pos} : r.keys[i] = m.keys[j]
        BY <1>4
      <4> QED BY <1>2, <2>1, <4>1 DEF Map
    <3> QED BY <1>3, <2>1, <3>1, DictOfIs
  <2>2. CASE n # k.name /\ \E i \in Used(m) : m.keys[i].name = n
    <3>1. PICK j \in Used(m) : m.keys[j].name = n
      BY <2>2
    <3>2. PICK i \in Used(r) : r.keys[i] = m.keys[j] /\ r.values[i] = m.values[j]
      BY <1>2, <1>4, <2>2, <3>1
    <3>3. DictOf(m)[n] = Pair(m.keys[j], m.values[j])
      BY <3>1, DictOfIs
    <3>4. DictOf(r)[n] = Pair(r.keys[i], r.values[i])
      BY <1>3, <3>1, <3>2, DictOfIs
    <3> QED BY <2>2, <3>2, <3>3, <3>4
  <2>3. CASE n # k.name /\ \A i \in Used(m) : m.keys[i].name # n
    <3>1. \A i \in Used(r) : r.keys[i].name # n
      BY <1>4, <2>3
    <3> QED BY <1>3, <2>3, <3>1, DictOfIs
  <2> QED BY <2>1, <2>2, <2>3
<1>6. DictOf(r) = [DictOf(m) EXCEPT ![k.name] = NULL]
  <2>1. /\ DictOf(m) = [n \in Name |-> DictOf(m)[n]]
        /\ DictOf(r) = [n \in Name |-> DictOf(r)[n]]
    BY DEF DictOf
  <2> QED BY <1>5, <2>1
<1> QED BY <1>1, <1>3, <1>6

-----------------------------------------------------------------------------
(* The steps.                                                              *)

LEMMA SetRtnIs ==
  /\ SetRtn[ERROR_SET_SM_RTN] = "failed"
  /\ SetRtn[SUCESS_SET] = "new"
  /\ SetRtn[SUCESS_UPGRADE] = "replaced"
<1>1. SetRtn[ERROR_SET_SM_RTN] = "failed"
  BY CodesDiffer, Zenon DEF SetRtn
<1>2. SetRtn[SUCESS_SET] = "new"
  BY CodesDiffer, Zenon DEF SetRtn
<1>3. SetRtn[SUCESS_UPGRADE] = "replaced"
  BY CodesDiffer, Zenon DEF SetRtn
<1> QED BY <1>1, <1>2, <1>3

LEMMA RemoveRtnIs ==
  /\ RemoveRtn("REMOVE_SUCCESS") = "removed"
  /\ RemoveRtn("REMOVE_KEY_NOT_FOUND") = "absent"
  BY Zenon DEF RemoveRtn

\* The dictionary tells whether a name is absent.
LEMMA Lookup ==
  ASSUME NEW m, Map(m, KeyNode, Value), NEW k \in KeyNode
  PROVE  /\ k.name \in Name
         /\ Absent(m, k) => DictOf(m)[k.name] = NULL
         /\ \A pos : At(m, k, pos) =>
              /\ DictOf(m)[k.name] = Pair(m.keys[pos], m.values[pos])
              /\ DictOf(m)[k.name] # NULL
<1>1. k.name \in Name
  BY KeyNodeAssumption
<1>2. Absent(m, k) => DictOf(m)[k.name] = NULL
  BY <1>1, DictOfIs DEF Absent
<1>3. ASSUME NEW pos, At(m, k, pos)
      PROVE  /\ DictOf(m)[k.name] = Pair(m.keys[pos], m.values[pos])
             /\ DictOf(m)[k.name] # NULL
  <2>1. DictOf(m)[k.name] = Pair(m.keys[pos], m.values[pos])
    BY <1>1, <1>3, DictOfIs DEF At
  <2> QED BY <1>3, <2>1, KeyName, PairIsNotNull DEF At
<1> QED BY <1>1, <1>2, <1>3

\* set is a step of the dictionary.
LEMMA SetStep ==
  ASSUME Inv, NEW k \in KeyNode, NEW v \in Value, NEW mem \in Memory, Set(k, v, mem)
  PROVE  Inv' /\ Dict!Set(k, v)
<1> DEFINE old == DictOf(sm)[k.name]
<1>1. dict = DictOf(sm) /\ dict' = DictOf(sm')
  BY DEF dict, DictOf
<1>2. Map(sm, KeyNode, Value) /\ NULL \notin KeyNode
  BY KeyNodeAssumption DEF Inv
<1>3. PICK r : r = set(sm, k, v, mem) /\ sm' = r.sm
               /\ last' = [op |-> "set", rtn |-> SetRtn[r.rtn],
                           pair |-> [key |-> r.key, value |-> r.value]]
  BY DEF Set
<1>4. CASE Absent(sm, k) /\ ~ CanPush(sm, mem)
  <2>1. r = [sm |-> sm, rtn |-> ERROR_SET_SM_RTN, key |-> k, value |-> v]
    BY <1>2, <1>3, <1>4, SetIs
  <2>2. old = NULL
    BY <1>2, <1>4, Lookup
  <2>3. sm' = sm /\ last' = [op |-> "set", rtn |-> "failed", pair |-> [key |-> k, value |-> v]]
    BY <1>3, <2>1, SetRtnIs
  <2>4. Inv'
    BY <1>2, <2>3 DEF Inv
  <2> HIDE DEF old
  <2> QED BY <1>1, <2>2, <2>3, <2>4 DEF Dict!Set, old
<1>5. CASE Absent(sm, k) /\ CanPush(sm, mem)
  <2>1. r = [sm |-> PushGrown(sm, k, v), rtn |-> SUCESS_SET, key |-> k, value |-> v]
    BY <1>2, <1>3, <1>5, SetIs
  <2>2. old = NULL
    BY <1>2, <1>5, Lookup
  <2>3. sm' = PushGrown(sm, k, v)
        /\ last' = [op |-> "set", rtn |-> "new", pair |-> [key |-> k, value |-> v]]
    BY <1>3, <2>1, SetRtnIs
  <2>4. Map(sm', KeyNode, Value) /\ DictOf(sm') = [DictOf(sm) EXCEPT ![k.name] = Pair(k, v)]
    BY <1>2, <1>5, <2>3, PushDict
  <2> QED BY <1>1, <2>2, <2>3, <2>4 DEF Dict!Set, Pair, Inv
<1>6. ASSUME NEW pos, At(sm, k, pos)
      PROVE  Inv' /\ Dict!Set(k, v)
  <2>1. r = [sm |-> upgrade(sm, pos, k, v), rtn |-> SUCESS_UPGRADE,
             key |-> sm.keys[pos], value |-> sm.values[pos]]
    BY <1>2, <1>3, <1>6, SetIs
  <2>2. old = Pair(sm.keys[pos], sm.values[pos]) /\ old # NULL
    BY <1>2, <1>6, Lookup
  <2>3. sm' = upgrade(sm, pos, k, v) /\ last' = [op |-> "set", rtn |-> "replaced", pair |-> old]
    BY <1>3, <2>1, <2>2, SetRtnIs DEF Pair
  <2>4. Map(sm', KeyNode, Value) /\ DictOf(sm') = [DictOf(sm) EXCEPT ![k.name] = Pair(k, v)]
    BY <1>2, <1>6, <2>3, UpgradeDict
  <2> QED BY <1>1, <2>2, <2>3, <2>4 DEF Dict!Set, Pair, Inv
<1> QED BY <1>4, <1>5, <1>6, AbsentOrAt

\* get is a step of the dictionary.
LEMMA GetStep ==
  ASSUME Inv, NEW k \in KeyNode, Get(k)
  PROVE  Inv' /\ Dict!Get(k)
<1>1. dict = DictOf(sm) /\ dict' = DictOf(sm')
  BY DEF dict, DictOf
<1>2. Map(sm, KeyNode, Value) /\ NULL \notin KeyNode
  BY KeyNodeAssumption DEF Inv
<1>3. get(sm, k) = DictOf(sm)[k.name]
  <2>1. CASE Absent(sm, k)
    BY <1>2, <2>1, GetIs, Lookup
  <2>2. ASSUME NEW pos, At(sm, k, pos)
        PROVE  get(sm, k) = DictOf(sm)[k.name]
    BY <1>2, <2>2, GetIs, Lookup DEF Pair
  <2> QED BY <2>1, <2>2, AbsentOrAt
<1>4. sm' = sm /\ last' = [op |-> "get", rtn |-> "ok", pair |-> get(sm, k)]
  BY DEF Get
<1> QED BY <1>1, <1>2, <1>3, <1>4 DEF Dict!Get, Inv

\* So is a get without memory for the pair.
LEMMA GetFailsStep ==
  ASSUME Inv, NEW k \in KeyNode, GetFails(k)
  PROVE  Inv' /\ Dict!Get(k)
<1>1. dict = DictOf(sm) /\ dict' = DictOf(sm')
  BY DEF dict, DictOf
<1>2. Map(sm, KeyNode, Value) /\ NULL \notin KeyNode
  BY KeyNodeAssumption DEF Inv
<1>3. DictOf(sm)[k.name] # NULL
  <2>1. find(sm, k) # KEY_NOT_FOUND
    BY DEF GetFails, KEY_NOT_FOUND
  <2>2. At(sm, k, find(sm, k))
    BY <1>2, <2>1, FindIs
  <2> QED BY <1>2, <2>2, Lookup
<1>4. sm' = sm /\ last' = [op |-> "get", rtn |-> "failed", pair |-> NULL]
  BY DEF GetFails
<1> QED BY <1>1, <1>2, <1>3, <1>4 DEF Dict!Get, Inv

\* remove_key is a step of the dictionary.
LEMMA RemoveStep ==
  ASSUME Inv, NEW k \in KeyNode, Remove(k)
  PROVE  Inv' /\ Dict!Remove(k)
<1> DEFINE old == DictOf(sm)[k.name]
<1>1. dict = DictOf(sm) /\ dict' = DictOf(sm')
  BY DEF dict, DictOf
<1>2. Map(sm, KeyNode, Value) /\ NULL \notin KeyNode
  BY KeyNodeAssumption DEF Inv
<1>3. PICK r : r = remove_key(sm, k) /\ sm' = r.sm
               /\ last' = [op |-> "remove", rtn |-> RemoveRtn(r.rtn), pair |-> r.pair]
  BY DEF Remove
<1>4. CASE Absent(sm, k)
  <2>1. r = [sm |-> sm, rtn |-> "REMOVE_KEY_NOT_FOUND", pair |-> NULL]
    BY <1>2, <1>3, <1>4, RemoveIs
  <2>2. old = NULL /\ k.name \in Name
    BY <1>2, <1>4, Lookup
  <2>3. sm' = sm /\ last' = [op |-> "remove", rtn |-> "absent", pair |-> NULL]
    BY <1>3, <2>1, RemoveRtnIs
  <2>4. DictOf(sm) = [DictOf(sm) EXCEPT ![k.name] = NULL]
    <3>1. DictOf(sm) = [n \in Name |-> DictOf(sm)[n]]
      BY DEF DictOf
    <3> QED BY <2>2, <3>1
  <2> QED BY <1>1, <1>2, <2>2, <2>3, <2>4 DEF Dict!Remove, Inv
<1>5. ASSUME NEW pos, At(sm, k, pos)
      PROVE  Inv' /\ Dict!Remove(k)
  <2>1. r = [sm |-> RemoveAt(sm, pos), rtn |-> "REMOVE_SUCCESS",
             pair |-> [key |-> sm.keys[pos], value |-> sm.values[pos]]]
    BY <1>2, <1>3, <1>5, RemoveIs
  <2>2. old = Pair(sm.keys[pos], sm.values[pos]) /\ old # NULL
    BY <1>2, <1>5, Lookup
  <2>3. sm' = RemoveAt(sm, pos) /\ last' = [op |-> "remove", rtn |-> "removed", pair |-> old]
    BY <1>3, <2>1, <2>2, RemoveRtnIs DEF Pair
  <2>4. Map(sm', KeyNode, Value) /\ DictOf(sm') = [DictOf(sm) EXCEPT ![k.name] = NULL]
    BY <1>2, <1>5, <2>3, RemoveDict
  <2> QED BY <1>1, <2>2, <2>3, <2>4 DEF Dict!Remove, Inv
<1> QED BY <1>4, <1>5, AbsentOrAt

LEMMA InvStep == Inv /\ [Next]_vars => Inv' /\ [Dict!Next]_(Dict!vars)
<1> SUFFICES ASSUME Inv, [Next]_vars PROVE Inv' /\ [Dict!Next]_(Dict!vars)
  OBVIOUS
<1>1. CASE UNCHANGED vars
  BY <1>1 DEF vars, Inv, Dict!vars, dict
<1>2. CASE Next
  BY <1>2, SetStep, GetStep, GetFailsStep, RemoveStep DEF Next, Dict!Next
<1> QED BY <1>1, <1>2

LEMMA InvInit == Init => Inv /\ Dict!Init
<1> SUFFICES ASSUME Init PROVE Inv /\ Dict!Init
  OBVIOUS
<1>1. Inv
  BY CreatedMap DEF Init, Inv
<1>2. Used(sm) = {}
  BY DEF Init, create_simple_map, Used
<1>3. dict = [n \in Name |-> NULL]
  BY <1>2 DEF dict
<1> QED BY <1>1, <1>3 DEF Init, Dict!Init

\* The arrays of struct SimpleMap are in order after every call.
THEOREM MapInvariant == Spec => []Inv
  BY InvInit, InvStep, PTL DEF Spec

-----------------------------------------------------------------------------
(* The properties.                                                         *)

\* After any sequence of set, get and remove_key calls, with realloc failing at
\* will, the used slots hold nodes with different names, and no slot above top
\* can be taken for an entry.
THEOREM MapCorrect == Spec => []MapOK
<1>1. Inv => MapOK
  <2> SUFFICES ASSUME Inv PROVE MapOK
    OBVIOUS
  <2>1. TypeOK
    BY DEF Inv, Map, TypeOK
  <2>2. NamesDistinct
    BY DEF Inv, Map, NamesDistinct
  <2>3. AboveTop
    BY DEF Inv, Map, AboveTop
  <2> QED BY <2>1, <2>2, <2>3 DEF MapOK
<1> QED BY <1>1, MapInvariant, PTL

\* Every call returns what it would return on a dictionary, and changes the map
\* as it would change the dictionary.
THEOREM DictionaryCorrect == Spec => ImplementsDictionary
<1>1. Spec => Dict!Init
  BY InvInit, PTL DEF Spec
<1>2. Inv /\ [Next]_vars => [Dict!Next]_(Dict!vars)
  BY InvStep
<1> QED BY <1>1, <1>2, MapInvariant, PTL DEF Spec, ImplementsDictionary, Dict!Spec
=============================================================================
