-------------------------- MODULE LinkedQueueProofs --------------------------
(***************************************************************************)
(* Proofs about LinkedQueue.tla: the doubly linked list is a sequence, for *)
(* any number of nodes and whatever calls were made before.                *)
(*                                                                         *)
(* The invariant names the sequence: some s in Seq(Node) whose elements    *)
(* are linked in this order, both ways.  What the walk along next meets,   *)
(* a recursive definition, is then shown to be s, by the least position    *)
(* at which it would differ.                                               *)
(***************************************************************************)
EXTENDS LinkedQueue, FiniteSetTheorems, WellFoundedInduction, TLAPS

\* s is the list, from front to rear.
Links(s) ==
  /\ \A i, j \in 1 .. Len(s) : s[i] = s[j] => i = j
  /\ heap = {s[i] : i \in 1 .. Len(s)}
  /\ s = <<>> => front = NULL /\ rear = NULL
  /\ s # <<>> => front = s[1] /\ rear = s[Len(s)]
  /\ \A i \in 1 .. Len(s) :
       /\ data[s[i]] \in Data
       /\ next[s[i]] = IF i = Len(s) THEN NULL ELSE s[i + 1]
       /\ prev[s[i]] = IF i = 1 THEN NULL ELSE s[i - 1]

Inv ==
  /\ TypeOK
  /\ deleted \in BOOLEAN
  /\ deleted => heap = {}
  /\ ~ deleted => \E s \in Seq(Node) : Links(s)

-----------------------------------------------------------------------------
(* The walk.                                                               *)

\* A set of numbers that is not empty has a least one.
LEMMA LeastNat ==
  ASSUME NEW T, T \subseteq Nat, T # {}
  PROVE  \E x \in T : \A y \in T : x <= y
<1>1. PICK x \in T : \A y \in T : ~ (<<y, x>> \in OpToRel(<, Nat))
  BY NatLessThanWellFounded, WFMin
<1>2. \A y \in T : ~ (y < x)
  <2> TAKE y \in T
  <2>1. x \in Nat /\ y \in Nat
    OBVIOUS
  <2>2. <<y, x>> \in OpToRel(<, Nat) <=> y < x
    BY <2>1 DEF OpToRel
  <2> QED BY <1>1, <2>2
<1> QED BY <1>2

\* The equation that defines Walk, for a walk of c steps from f along nx.
Walks(w, c, f, nx) ==
  w = [n \in 0 .. c |-> IF n = 0 THEN f
                        ELSE IF w[n - 1] = NULL THEN NULL ELSE nx[w[n - 1]]]

\* Two walks are the same at every step.
LEMMA WalkUnique ==
  ASSUME NEW c \in Nat, NEW f, NEW nx, NEW v, Walks(v, c, f, nx), NEW w, Walks(w, c, f, nx)
  PROVE  \A n \in 0 .. c : v[n] = w[n]
<1> SUFFICES ASSUME {n \in 0 .. c : v[n] # w[n]} # {}
             PROVE  FALSE
  OBVIOUS
<1>1. PICK T : T = {n \in 0 .. c : v[n] # w[n]}
  OBVIOUS
<1>2. PICK x \in T : \A y \in T : x <= y
  BY <1>1, LeastNat
<1>3. x \in 0 .. c /\ v[x] # w[x]
  BY <1>1
<1>4. v[0] = f /\ w[0] = f
  BY DEF Walks
<1>5. x - 1 \in 0 .. c /\ x # 0
  BY <1>3, <1>4
<1>6. v[x - 1] = w[x - 1]
  BY <1>1, <1>2, <1>3, <1>5
<1>7. /\ v[x] = IF v[x - 1] = NULL THEN NULL ELSE nx[v[x - 1]]
      /\ w[x] = IF w[x - 1] = NULL THEN NULL ELSE nx[w[x - 1]]
  BY <1>3, <1>5 DEF Walks
<1> QED BY <1>3, <1>6, <1>7

LEMMA WalkDefined ==
  ASSUME NEW w, Walks(w, Cardinality(Node), front, next)
  PROVE  Walks(Walk, Cardinality(Node), front, next)
  BY DEF Walk, Walks

\* A list is no longer than there are nodes.
LEMMA LengthBound ==
  ASSUME NEW s \in Seq(Node), \A i, j \in 1 .. Len(s) : s[i] = s[j] => i = j
  PROVE  Cardinality(Node) \in Nat /\ Len(s) =< Cardinality(Node)
<1>1. IsFiniteSet(Node)
  BY NodeAssumption
<1>2. s \in Injection(1 .. Len(s), Node)
  BY DEF Injection, IsInjective
<1>3. Cardinality(1 .. Len(s)) =< Cardinality(Node)
  BY <1>1, <1>2, FS_Injection
<1>4. Cardinality(1 .. Len(s)) = Len(s)
  BY FS_Interval
<1> QED BY <1>1, <1>3, <1>4, FS_CardinalityType

\* Walk, Length, Chain and Elements are what the sequence says.
Spelled ==
  \A s \in Seq(Node) : Links(s) =>
    /\ \A n \in 0 .. Len(s) - 1 : Walk[n] = s[n + 1]
    /\ Length = Len(s)
    /\ Chain = s
    /\ Elements = [n \in 1 .. Len(s) |-> data[s[n]]]

LEMMA SpelledOut == Spelled
<1> SUFFICES ASSUME NEW s \in Seq(Node), Links(s)
             PROVE  /\ \A n \in 0 .. Len(s) - 1 : Walk[n] = s[n + 1]
                    /\ Length = Len(s)
                    /\ Chain = s
                    /\ Elements = [n \in 1 .. Len(s) |-> data[s[n]]]
  BY DEF Spelled
<1>1. PICK c \in Nat : c = Cardinality(Node) /\ Len(s) =< c /\ Len(s) \in Nat
  BY LengthBound DEF Links
<1>2. PICK w : w = [n \in 0 .. c |-> IF n < Len(s) THEN s[n + 1] ELSE NULL]
  OBVIOUS
<1>3. \A i \in 1 .. Len(s) : s[i] \in Node /\ s[i] # NULL
  BY NullAssumption
<1>4. Walks(w, c, front, next)
  <2>1. ASSUME NEW n \in 0 .. c
        PROVE  w[n] = IF n = 0 THEN front
                      ELSE IF w[n - 1] = NULL THEN NULL ELSE next[w[n - 1]]
    <3>1. CASE n = 0
      BY <1>1, <1>2, <3>1 DEF Links
    <3>2. CASE n # 0 /\ n < Len(s)
      <4>1. w[n] = s[n + 1] /\ w[n - 1] = s[n] /\ n \in 1 .. Len(s)
        BY <1>1, <1>2, <3>2
      <4> QED BY <1>1, <1>3, <3>2, <4>1 DEF Links
    <3>3. CASE n # 0 /\ n = Len(s)
      <4>1. w[n] = NULL /\ w[n - 1] = s[n] /\ n \in 1 .. Len(s)
        BY <1>1, <1>2, <3>3
      <4> QED BY <1>1, <1>3, <3>3, <4>1 DEF Links
    <3>4. CASE n # 0 /\ n > Len(s)
      <4>1. w[n] = NULL /\ w[n - 1] = NULL
        BY <1>1, <1>2, <3>4
      <4> QED BY <3>4, <4>1
    <3> QED BY <1>1, <3>1, <3>2, <3>3, <3>4
  <2> QED BY <1>2, <2>1 DEF Walks
<1>5. Walks(Walk, c, front, next)
  BY <1>1, <1>4, WalkDefined
<1>6. \A n \in 0 .. c : Walk[n] = w[n]
  BY <1>4, <1>5, WalkUnique
<1>7. \A n \in 0 .. Len(s) - 1 : Walk[n] = s[n + 1]
  BY <1>1, <1>2, <1>6
<1>8. Length = Len(s)
  <2>1. {n \in 0 .. c - 1 : Walk[n] # NULL} = 0 .. Len(s) - 1
    BY <1>1, <1>2, <1>3, <1>6
  <2>2. Cardinality(0 .. Len(s) - 1) = Len(s)
    <3>1. PICK b \in Int : b = Len(s) - 1 /\ b >= -1
      BY <1>1
    <3>2. Cardinality(0 .. b) = IF 0 > b THEN 0 ELSE b - 0 + 1
      BY FS_Interval
    <3> QED BY <1>1, <3>1, <3>2
  <2> QED BY <1>1, <2>1, <2>2 DEF Length
<1>9. Chain = s
  BY <1>1, <1>7, <1>8 DEF Chain
<1>10. Elements = [n \in 1 .. Len(s) |-> data[s[n]]]
  BY <1>1, <1>7, <1>8 DEF Elements
<1> QED BY <1>7, <1>8, <1>9, <1>10

-----------------------------------------------------------------------------
(* The calls.                                                              *)

LEMMA InitInv ==
  ASSUME Init
  PROVE  Inv
<1>1. TypeOK /\ deleted = FALSE
  BY DEF Init, TypeOK
<1>2. <<>> \in Seq(Node) /\ Len(<<>>) = 0
  OBVIOUS
<1>3. Links(<<>>)
  BY <1>2 DEF Init, Links
<1> QED BY <1>1, <1>2, <1>3 DEF Inv

\* A node put behind the rear.
LEMMA EnqueueLinks ==
  ASSUME TypeOK, NEW s \in Seq(Node), Links(s), NEW d \in Data, NEW n \in Node \ heap,
         heap' = heap \cup {n}, data' = [data EXCEPT ![n] = d],
         EnqueueFirst(n, d) \/ EnqueueRear(n, d)
  PROVE  TypeOK' /\ Append(s, n) \in Seq(Node) /\ Links(Append(s, n))'
<1>1. PICK t : t = Append(s, n)
  OBVIOUS
<1>2. PICK l \in Nat : l = Len(s)
  OBVIOUS
<1>3. /\ t \in Seq(Node) /\ Len(t) = l + 1 /\ t[l + 1] = n /\ t # <<>>
      /\ \A i \in 1 .. l : t[i] = s[i] /\ s[i] \in Node /\ s[i] # NULL
  BY <1>1, <1>2, NullAssumption
<1>4. \A i \in 1 .. l : s[i] # n
  BY <1>2 DEF Links
<1>5. \A i, j \in 1 .. l + 1 : t[i] = t[j] => i = j
  <2>1. \A i, j \in 1 .. l : s[i] = s[j] => i = j
    BY <1>2 DEF Links
  <2> QED BY <1>3, <1>4, <2>1
<1>6. heap' = {t[i] : i \in 1 .. l + 1}
  <2>1. heap = {s[i] : i \in 1 .. l}
    BY <1>2 DEF Links
  <2> QED BY <1>3, <2>1
<1>7. \A i \in 1 .. l + 1 : data'[t[i]] \in Data
  <2>1. \A i \in 1 .. l : data[s[i]] \in Data
    BY <1>2 DEF Links
  <2> QED BY <1>3, <1>4, <2>1 DEF TypeOK
<1>8. CASE EnqueueFirst(n, d)
  <2>1. s = <<>> /\ l = 0
    BY <1>2, <1>3, <1>8 DEF Links, EnqueueFirst
  <2>2. /\ front' = n /\ rear' = n /\ next' = [next EXCEPT ![n] = NULL]
        /\ prev' = [prev EXCEPT ![n] = NULL]
    BY <1>8 DEF EnqueueFirst
  <2>3. TypeOK'
    BY <2>2 DEF TypeOK
  <2>4. Links(t)'
    BY <1>3, <1>5, <1>6, <1>7, <2>1, <2>2 DEF Links, TypeOK
  <2> QED BY <1>1, <1>3, <2>3, <2>4
<1>9. CASE EnqueueRear(n, d)
  <2>1. s # <<>> /\ l >= 1
    BY <1>2, <1>9 DEF Links, EnqueueRear
  <2>2. front = s[1] /\ rear = s[l] /\ rear \in Node /\ rear # n
    BY <1>2, <1>3, <1>4, <2>1 DEF Links
  <2>3. /\ front' = front /\ rear' = n /\ next' = [next EXCEPT ![n] = NULL, ![rear] = n]
        /\ prev' = [prev EXCEPT ![n] = rear]
    BY <1>9 DEF EnqueueRear
  <2>4. TypeOK'
    BY <2>2, <2>3 DEF TypeOK
  <2>5. /\ next'[n] = NULL /\ next'[rear] = n /\ prev'[n] = rear
        /\ \A m \in Node \ {n, rear} : next'[m] = next[m]
        /\ \A m \in Node \ {n} : prev'[m] = prev[m]
    BY <2>2, <2>3 DEF TypeOK
  <2>6. \A i \in 1 .. l : /\ next[s[i]] = IF i = l THEN NULL ELSE s[i + 1]
                          /\ prev[s[i]] = IF i = 1 THEN NULL ELSE s[i - 1]
    BY <1>2 DEF Links
  <2>7. \A i \in 1 .. l : i # l => s[i] # rear
    BY <1>2, <2>1, <2>2 DEF Links
  <2>8. ASSUME NEW i \in 1 .. l + 1
        PROVE  /\ next'[t[i]] = IF i = l + 1 THEN NULL ELSE t[i + 1]
               /\ prev'[t[i]] = IF i = 1 THEN NULL ELSE t[i - 1]
    <3>1. CASE i = l + 1
      BY <1>3, <2>1, <2>2, <2>5, <3>1
    <3>2. CASE i = l
      BY <1>3, <1>4, <2>1, <2>2, <2>5, <2>6, <3>2
    <3>3. CASE i < l
      <4>1. i \in 1 .. l /\ i + 1 \in 1 .. l /\ s[i] \in Node \ {n, rear}
        BY <1>3, <1>4, <2>7, <3>3
      <4>2. next'[t[i]] = s[i + 1] /\ t[i + 1] = s[i + 1]
        <5>1. t[i] = s[i] /\ t[i + 1] = s[i + 1]
          BY <1>3, <4>1
        <5>2. next[s[i]] = s[i + 1]
          BY <2>6, <3>3, <4>1
        <5>3. next'[s[i]] = next[s[i]]
          BY <2>5, <4>1
        <5> QED BY <5>1, <5>2, <5>3
      <4>3. prev'[t[i]] = IF i = 1 THEN NULL ELSE s[i - 1]
        BY <1>3, <2>5, <2>6, <4>1
      <4>4. i # 1 => t[i - 1] = s[i - 1]
        BY <1>3, <4>1
      <4> QED BY <3>3, <4>2, <4>3, <4>4
    <3> QED BY <3>1, <3>2, <3>3
  <2>9. front' = t[1] /\ rear' = t[l + 1]
    BY <1>3, <2>1, <2>2, <2>3
  <2>10. Links(t)'
    BY <1>3, <1>5, <1>6, <1>7, <2>8, <2>9, ZenonT(40) DEF Links
  <2> QED BY <1>1, <1>3, <2>4, <2>10
<1> QED BY <1>8, <1>9

\* The front node taken away.
LEMMA DequeueLinks ==
  ASSUME TypeOK, NEW s \in Seq(Node), Links(s), s # <<>>,
         DequeueOnly \/ DequeueFront, heap' = heap \ {front}, data' = data
  PROVE  TypeOK' /\ Tail(s) \in Seq(Node) /\ Links(Tail(s))'
<1>1. PICK t : t = Tail(s)
  OBVIOUS
<1>2. PICK l \in Nat : l = Len(s) /\ l >= 1
  OBVIOUS
<1>3. /\ t \in Seq(Node) /\ Len(t) = l - 1
      /\ \A i \in 1 .. l - 1 : t[i] = s[i + 1]
      /\ \A i \in 1 .. l : s[i] \in Node /\ s[i] # NULL
  BY <1>1, <1>2, NullAssumption
<1>4. /\ \A i, j \in 1 .. l : s[i] = s[j] => i = j
      /\ heap = {s[i] : i \in 1 .. l}
      /\ front = s[1] /\ rear = s[l]
      /\ \A i \in 1 .. l : /\ data[s[i]] \in Data
                           /\ next[s[i]] = IF i = l THEN NULL ELSE s[i + 1]
                           /\ prev[s[i]] = IF i = 1 THEN NULL ELSE s[i - 1]
  BY <1>2 DEF Links
<1>5. \A i, j \in 1 .. l - 1 : t[i] = t[j] => i = j
  <2> SUFFICES ASSUME NEW i \in 1 .. l - 1, NEW j \in 1 .. l - 1, t[i] = t[j]
               PROVE  i = j
    OBVIOUS
  <2>1. s[i + 1] = s[j + 1] /\ i + 1 \in 1 .. l /\ j + 1 \in 1 .. l
    BY <1>3
  <2>2. i + 1 = j + 1
    BY <1>4, <2>1
  <2> QED BY <2>2
<1>6. heap' = {t[i] : i \in 1 .. l - 1}
  <2>1. ASSUME NEW m \in heap'
        PROVE  m \in {t[i] : i \in 1 .. l - 1}
    <3>1. PICK i \in 1 .. l : m = s[i]
      BY <1>4
    <3>2. i # 1
      BY <1>4, <3>1
    <3>3. i - 1 \in 1 .. l - 1 /\ t[i - 1] = s[i - 1 + 1] /\ i - 1 + 1 = i
      BY <1>3, <3>2
    <3> QED BY <3>1, <3>3
  <2>2. ASSUME NEW i \in 1 .. l - 1
        PROVE  t[i] \in heap'
    <3>1. t[i] = s[i + 1] /\ i + 1 \in 1 .. l /\ i + 1 # 1
      BY <1>3
    <3>2. s[i + 1] # s[1] /\ 1 \in 1 .. l
      BY <1>2, <1>4, <3>1
    <3> QED BY <1>4, <3>1, <3>2
  <2> QED BY <2>1, <2>2
<1>7. \A i \in 1 .. l - 1 : data'[t[i]] \in Data
  BY <1>3, <1>4, SMTT(30)
<1>8. CASE DequeueOnly
  <2>1. /\ front' = NULL /\ rear' = NULL /\ next' = next /\ prev' = prev
        /\ front = rear
    BY <1>8 DEF DequeueOnly
  <2>2. TypeOK'
    BY <2>1 DEF TypeOK
  <2>3. l = 1
    <3>1. 1 \in 1 .. l /\ l \in 1 .. l
      BY <1>2
    <3> QED BY <1>4, <2>1, <3>1
  <2>4. t = <<>> /\ Len(t) = 0 /\ heap' = {}
    BY <1>3, <1>6, <2>3
  <2>5. Links(t)'
    <3>1. \A i : i \notin 1 .. Len(t)
      BY <2>4
    <3>2. {t[i] : i \in 1 .. Len(t)} = {}
      BY <3>1
    <3> QED BY <2>1, <2>4, <3>1, <3>2 DEF Links
  <2> QED BY <1>1, <1>3, <2>2, <2>5
<1>9. CASE DequeueFront
  <2>1. /\ next' = [next EXCEPT ![front] = NULL] /\ front # rear
        /\ prev' = [prev EXCEPT ![next[front]] = NULL]
        /\ front' = next[front] /\ rear' = rear
    BY <1>9 DEF DequeueFront
  <2>2. l >= 2
    BY <1>2, <1>4, <2>1
  <2>3. next[front] = s[2] /\ s[2] \in Node /\ s[1] \in Node /\ s[1] # s[2]
    BY <1>3, <1>4, <2>2
  <2>4. TypeOK'
    BY <2>1, <2>3 DEF TypeOK
  <2>5. /\ \A m \in Node \ {s[1]} : next'[m] = next[m]
        /\ \A m \in Node \ {s[2]} : prev'[m] = prev[m]
        /\ prev'[s[2]] = NULL
    BY <1>4, <2>1, <2>3 DEF TypeOK
  <2>6. ASSUME NEW i \in 1 .. l - 1
        PROVE  /\ next'[t[i]] = IF i = l - 1 THEN NULL ELSE t[i + 1]
               /\ prev'[t[i]] = IF i = 1 THEN NULL ELSE t[i - 1]
    <3>1. t[i] = s[i + 1] /\ i + 1 \in 1 .. l /\ i + 1 # 1
      BY <1>3
    <3>2. s[i + 1] \in Node \ {s[1]}
      <4>1. 1 \in 1 .. l
        BY <2>2
      <4> QED BY <1>3, <1>4, <3>1, <4>1
    <3>3. next'[t[i]] = IF i + 1 = l THEN NULL ELSE s[i + 1 + 1]
      BY <1>4, <2>5, <3>1, <3>2
    <3>4. i # l - 1 => t[i + 1] = s[i + 1 + 1]
      BY <1>3
    <3>5. CASE i = 1
      BY <2>5, <3>1, <3>3, <3>4, <3>5
    <3>6. CASE i # 1
      <4>1. 2 \in 1 .. l /\ i + 1 # 2
        BY <2>2, <3>6
      <4>2. s[i + 1] \in Node \ {s[2]}
        BY <1>3, <1>4, <3>1, <4>1
      <4>3. prev'[t[i]] = s[i + 1 - 1] /\ i + 1 - 1 = i
        BY <1>4, <2>5, <3>1, <4>2
      <4>4. t[i - 1] = s[i - 1 + 1] /\ i - 1 + 1 = i
        BY <1>3, <3>6
      <4> QED BY <3>3, <3>4, <3>6, <4>3, <4>4
    <3> QED BY <3>5, <3>6
  <2>7. t # <<>> /\ front' = t[1] /\ rear' = t[l - 1]
    BY <1>3, <1>4, <2>1, <2>2, <2>3
  <2>8. Links(t)'
    BY <1>3, <1>5, <1>6, <1>7, <2>6, <2>7 DEF Links
  <2> QED BY <1>1, <1>3, <2>4, <2>8
<1> QED BY <1>8, <1>9

-----------------------------------------------------------------------------
(* The invariant.                                                          *)

LEMMA StepInv ==
  ASSUME Inv, [Next]_vars
  PROVE  Inv'
<1>1. CASE UNCHANGED vars
  BY <1>1 DEF vars, fields, Inv, TypeOK, Links
<1>2. ASSUME ~ deleted, NEW d \in Data, enqueue(d)
      PROVE  Inv'
  <2>1. PICK s \in Seq(Node) : Links(s)
    BY <1>2 DEF Inv
  <2>2. deleted' = deleted
    BY <1>2 DEF enqueue
  <2>3. ASSUME NEW n \in Node \ heap, heap' = heap \cup {n}, data' = [data EXCEPT ![n] = d],
               EnqueueFirst(n, d) \/ EnqueueRear(n, d)
        PROVE  Inv'
    <3>1. TypeOK' /\ Append(s, n) \in Seq(Node) /\ Links(Append(s, n))'
      BY <2>1, <2>3, EnqueueLinks DEF Inv
    <3>2. PICK t \in Seq(Node) : Links(t)'
      BY <3>1
    <3> QED BY <1>2, <2>2, <3>1, <3>2 DEF Inv
  <2>4. CASE UNCHANGED <<front, rear, fields, heap>>
    <3>1. Links(s)' /\ TypeOK'
      BY <2>1, <2>4 DEF Links, fields, Inv, TypeOK
    <3> QED BY <1>2, <2>2, <3>1 DEF Inv
  <2> QED BY <1>2, <2>3, <2>4 DEF enqueue
<1>3. ASSUME ~ deleted, dequeue
      PROVE  Inv'
  <2>1. PICK s \in Seq(Node) : Links(s)
    BY <1>3 DEF Inv
  <2>2. deleted' = deleted /\ data' = data /\ heap' = heap \ {front}
    BY <1>3 DEF dequeue
  <2>3. CASE s = <<>>
    <3>1. front = NULL /\ front' = front /\ rear' = rear /\ next' = next /\ prev' = prev
      BY <1>3, <2>1, <2>3 DEF Links, dequeue, DequeueNothing, DequeueOnly, DequeueFront
    <3>2. heap' = heap
      BY <2>2, <3>1, NullAssumption DEF Inv, TypeOK
    <3>3. Links(s)' /\ TypeOK'
      BY <2>1, <2>2, <3>1, <3>2 DEF Links, Inv, TypeOK
    <3> QED BY <1>3, <2>2, <3>3 DEF Inv
  <2>4. CASE s # <<>>
    <3>1. front # NULL
      BY <2>1, <2>4, NullAssumption DEF Links
    <3>2. DequeueOnly \/ DequeueFront
      BY <1>3, <3>1 DEF dequeue, DequeueNothing
    <3>3. TypeOK' /\ Tail(s) \in Seq(Node) /\ Links(Tail(s))'
      BY <2>1, <2>2, <2>4, <3>2, DequeueLinks DEF Inv
    <3>4. PICK t \in Seq(Node) : Links(t)'
      BY <3>3
    <3> QED BY <1>3, <2>2, <3>3, <3>4 DEF Inv
  <2> QED BY <2>3, <2>4
<1>4. CASE get_front \/ get_rear
  <2>1. UNCHANGED <<front, rear, fields, heap, deleted>>
    BY <1>4 DEF get_front, get_rear
  <2> QED BY <2>1 DEF fields, Inv, TypeOK, Links
<1>5. ASSUME ~ deleted, delete_queue
      PROVE  Inv'
  <2>1. PICK s \in Seq(Node) : Links(s)
    BY <1>5 DEF Inv
  <2>2. Chain = s /\ Length = Len(s)
    BY <2>1, SpelledOut DEF Spelled
  <2>3. heap' = {}
    BY <1>5, <2>1, <2>2 DEF delete_queue, Links
  <2>4. TypeOK' /\ deleted' = TRUE
    BY <1>5, <2>3 DEF delete_queue, fields, Inv, TypeOK
  <2> QED BY <2>3, <2>4 DEF Inv
<1> QED BY <1>1, <1>2, <1>3, <1>4, <1>5 DEF Next

\* Inv holds in every reachable state: the nodes are linked in the order of some
\* sequence, both ways, until the queue is deleted.
THEOREM QueueInvariant == Spec => []Inv
<1>1. Init => Inv
  BY InitInv
<1>2. Inv /\ [Next]_vars => Inv'
  BY StepInv
<1> QED BY <1>1, <1>2, PTL DEF Spec

\* The doubly linked list stays sound for any number of nodes, after any
\* sequence of enqueue, dequeue and delete_queue, whichever calloc failed.
THEOREM ListOKCorrect == Spec => []ListOK
<1>1. Inv => ListOK
  <2> SUFFICES ASSUME Inv PROVE ListOK
    OBVIOUS
  <2>1. CASE deleted
    BY <2>1 DEF Inv, ListOK, LinksAgree, NodesExact
  <2>2. CASE ~ deleted
    <3>1. PICK s \in Seq(Node) : Links(s)
      BY <2>2 DEF Inv
    <3>2. PICK l \in Nat : l = Len(s)
      OBVIOUS
    <3>3. /\ \A n \in 0 .. l - 1 : Walk[n] = s[n + 1]
          /\ Length = l /\ Chain = s
      BY <3>1, <3>2, SpelledOut DEF Spelled
    <3>4. \A i \in 1 .. l : s[i] \in Node /\ s[i] # NULL
      BY <3>2, NullAssumption
    <3>5. (front = NULL) = (rear = NULL)
      BY <3>1, <3>2, <3>4 DEF Links
    <3>6. front # NULL => prev[front] = NULL /\ next[rear] = NULL /\ Walk[l - 1] = rear
      BY <3>1, <3>2, <3>3 DEF Links
    <3>7. \A n \in 1 .. l - 1 : prev[s[n + 1]] = s[n]
      BY <3>1, <3>2 DEF Links
    <3>8. LinksAgree
      BY <3>3, <3>5, <3>6, <3>7 DEF LinksAgree
    <3>9. NodesExact
      BY <2>2, <3>1, <3>2, <3>3 DEF NodesExact, Links
    <3> QED BY <3>8, <3>9 DEF ListOK, Inv
  <2> QED BY <2>1, <2>2
<1> QED BY <1>1, QueueInvariant, PTL

-----------------------------------------------------------------------------
(* The refinement.                                                         *)

\* q holds the data of the nodes of s.
Shows(q, s, dt) ==
  /\ q \in Seq(Data) /\ Len(q) = Len(s)
  /\ \A i \in 1 .. Len(s) : q[i] = dt[s[i]]

Shown == \A s \in Seq(Node) : ~ deleted /\ Links(s) => Shows(queue, s, data)

LEMMA ShownOut == Shown
<1> SUFFICES ASSUME NEW s \in Seq(Node), ~ deleted, Links(s)
             PROVE  Shows(queue, s, data)
  BY DEF Shown
<1>1. queue = [n \in 1 .. Len(s) |-> data[s[n]]]
  BY SpelledOut DEF Spelled, queue
<1>2. \A n \in 1 .. Len(s) : data[s[n]] \in Data
  BY DEF Links
<1>3. PICK l \in Nat : l = Len(s)
  OBVIOUS
<1>4. queue \in [1 .. l -> Data]
  BY <1>1, <1>2, <1>3
<1> QED BY <1>1, <1>3, <1>4 DEF Shows

LEMMA ShownNext == Shown'
  BY ShownOut, PTL

LEMMA SameSeq ==
  ASSUME NEW S, NEW a \in Seq(S), NEW b \in Seq(S), Len(a) = Len(b),
         \A i \in 1 .. Len(a) : a[i] = b[i]
  PROVE  a = b
  OBVIOUS

LEMMA EnqueueShows ==
  ASSUME TypeOK, Inv, ~ deleted, ~ deleted', NEW d \in Data, NEW n \in Node \ heap,
         heap' = heap \cup {n}, data' = [data EXCEPT ![n] = d],
         EnqueueFirst(n, d) \/ EnqueueRear(n, d)
  PROVE  queue' = Append(queue, d)
<1>1. PICK s \in Seq(Node) : Links(s)
  BY DEF Inv
<1>2. PICK t \in Seq(Node) : t = Append(s, n) /\ Links(t)'
  BY <1>1, EnqueueLinks
<1>3. PICK p, q : p = queue /\ q = queue'
  OBVIOUS
<1>4. Shows(p, s, data) /\ Shows(q, t, data')
  BY <1>1, <1>2, <1>3, ShownOut, ShownNext DEF Shown
<1>5. PICK l \in Nat : l = Len(s)
  OBVIOUS
<1>6. /\ Len(t) = l + 1 /\ t[l + 1] = n /\ \A i \in 1 .. l : t[i] = s[i] /\ s[i] \in Node
      /\ Len(p) = l /\ Len(q) = l + 1 /\ p \in Seq(Data) /\ q \in Seq(Data)
  BY <1>2, <1>4, <1>5 DEF Shows
<1>7. \A i \in 1 .. l : s[i] # n
  BY <1>1, <1>5 DEF Links
<1>8. data'[n] = d /\ \A m \in Node \ {n} : data'[m] = data[m]
  BY DEF TypeOK
<1>9. \A i \in 1 .. l : q[i] = p[i]
  <2> TAKE i \in 1 .. l
  <2>1. q[i] = data'[t[i]] /\ p[i] = data[s[i]]
    BY <1>4, <1>5, <1>6 DEF Shows
  <2> QED BY <1>6, <1>7, <1>8, <2>1
<1>10. q[l + 1] = d
  BY <1>4, <1>6, <1>8 DEF Shows
<1>11. q = Append(p, d)
  <2>1. PICK r : r = Append(p, d)
    OBVIOUS
  <2>2. r \in Seq(Data) /\ Len(r) = l + 1 /\ r[l + 1] = d /\ \A i \in 1 .. l : r[i] = p[i]
    BY <1>6, <2>1
  <2>3. \A i \in 1 .. Len(q) : q[i] = r[i]
    BY <1>6, <1>9, <1>10, <2>2
  <2>4. q = r
    BY <1>6, <2>2, <2>3, SameSeq
  <2> QED BY <2>1, <2>4
<1> QED BY <1>3, <1>11

LEMMA DequeueShows ==
  ASSUME Inv, ~ deleted, ~ deleted', front # NULL, DequeueOnly \/ DequeueFront,
         heap' = heap \ {front}, data' = data
  PROVE  queue # <<>> /\ queue' = Tail(queue) /\ data[front] = Head(queue)
<1>1. PICK s \in Seq(Node) : Links(s)
  BY DEF Inv
<1>2. s # <<>>
  BY <1>1 DEF Links
<1>3. PICK t \in Seq(Node) : t = Tail(s) /\ Links(t)'
  BY <1>1, <1>2, DequeueLinks DEF Inv
<1>4. PICK p, q : p = queue /\ q = queue'
  OBVIOUS
<1>5. Shows(p, s, data) /\ Shows(q, t, data)
  BY <1>1, <1>3, <1>4, ShownOut, ShownNext DEF Shown
<1>6. PICK l \in Nat : l = Len(s) /\ l >= 1
  BY <1>2
<1>7. /\ Len(t) = l - 1 /\ \A i \in 1 .. l - 1 : t[i] = s[i + 1]
      /\ Len(p) = l /\ Len(q) = l - 1 /\ p \in Seq(Data) /\ q \in Seq(Data)
  BY <1>3, <1>5, <1>6 DEF Shows
<1>8. \A i \in 1 .. l - 1 : q[i] = p[i + 1]
  <2> TAKE i \in 1 .. l - 1
  <2>1. q[i] = data[t[i]] /\ i + 1 \in 1 .. l /\ p[i + 1] = data[s[i + 1]]
    BY <1>5, <1>6, <1>7 DEF Shows
  <2> QED BY <1>7, <2>1
<1>9. p # <<>> /\ Head(p) = data[front]
  BY <1>1, <1>2, <1>5, <1>6, <1>7 DEF Shows, Links
<1>10. q = Tail(p)
  <2>1. PICK r : r = Tail(p)
    OBVIOUS
  <2>2. r \in Seq(Data) /\ Len(r) = l - 1 /\ \A i \in 1 .. l - 1 : r[i] = p[i + 1]
    BY <1>6, <1>7, <1>9, <2>1
  <2>3. \A i \in 1 .. Len(q) : q[i] = r[i]
    BY <1>7, <1>8, <2>2
  <2>4. q = r
    BY <1>7, <2>2, <2>3, SameSeq
  <2> QED BY <2>1, <2>4
<1> QED BY <1>4, <1>9, <1>10

\* Both ends of the queue, as get_front and get_rear read them.
LEMMA EndsShow ==
  ASSUME Inv, ~ deleted
  PROVE  /\ queue = <<>> <=> front = NULL
         /\ queue = <<>> <=> rear = NULL
         /\ queue # <<>> => data[front] = Head(queue) /\ data[rear] = queue[Len(queue)]
<1>1. PICK s \in Seq(Node) : Links(s)
  BY DEF Inv
<1>2. PICK q : q = queue
  OBVIOUS
<1>3. Shows(q, s, data)
  BY <1>1, <1>2, ShownOut DEF Shown
<1>4. PICK l \in Nat : l = Len(s)
  OBVIOUS
<1>5. \A i \in 1 .. l : s[i] # NULL
  BY <1>4, NullAssumption
<1>6. CASE l = 0
  <2>1. q = <<>> /\ s = <<>>
    <3>1. q \in Seq(Data) /\ Len(q) = 0 /\ Len(s) = 0
      BY <1>3, <1>4, <1>6 DEF Shows
    <3>2. q = <<>>
      BY <3>1
    <3>3. s = <<>>
      BY <3>1
    <3> QED BY <3>2, <3>3
  <2> QED BY <1>1, <1>2, <2>1 DEF Links
<1>7. CASE l >= 1
  <2>1. q # <<>> /\ s # <<>> /\ Len(q) = l /\ q[1] = data[s[1]] /\ q[l] = data[s[l]]
    BY <1>3, <1>4, <1>7 DEF Shows
  <2>2. front = s[1] /\ rear = s[l] /\ front # NULL /\ rear # NULL
    BY <1>1, <1>4, <1>5, <1>7, <2>1 DEF Links
  <2>3. Head(q) = q[1]
    BY <1>3, <2>1 DEF Shows
  <2> QED BY <1>2, <2>1, <2>2, <2>3
<1> QED BY <1>6, <1>7

LEMMA QueueSame ==
  ASSUME Inv, ~ deleted, UNCHANGED <<front, rear, fields, heap, deleted>>
  PROVE  queue' = queue
<1>1. PICK s \in Seq(Node) : Links(s)
  BY DEF Inv
<1>2. Links(s)' /\ data' = data /\ ~ deleted'
  BY <1>1 DEF Links, fields
<1>3. PICK p, q : p = queue /\ q = queue'
  OBVIOUS
<1>4. Shows(p, s, data) /\ Shows(q, s, data)
  BY <1>1, <1>2, <1>3, ShownOut, ShownNext DEF Shown
<1>5. p = q
  BY <1>4, SameSeq DEF Shows
<1> QED BY <1>3, <1>5

LEMMA RefinesInit ==
  ASSUME Init
  PROVE  Abstract!Init
<1>1. Inv /\ ~ deleted /\ front = NULL
  BY InitInv DEF Init
<1>2. queue = <<>>
  BY <1>1, EndsShow
<1> QED BY <1>2 DEF Init, Abstract!Init

LEMMA RefinesStep ==
  ASSUME Inv, [Next]_vars
  PROVE  [Abstract!Next]_(Abstract!vars)
<1>1. CASE UNCHANGED vars
  <2>1. UNCHANGED <<front, rear, fields, heap, deleted>> /\ last' = last
    BY <1>1 DEF vars
  <2>2. CASE ~ deleted
    <3>1. queue' = queue
      BY <2>1, <2>2, QueueSame
    <3> QED BY <2>1, <3>1 DEF Abstract!vars
  <2>3. CASE deleted
    BY <2>1, <2>3 DEF Abstract!vars, queue
  <2> QED BY <2>2, <2>3
<1>2. ASSUME ~ deleted, NEW d \in Data, enqueue(d)
      PROVE  Abstract!Enqueue(d)
  <2>1. last' = [op |-> "enqueue", rtn |-> NULL] /\ deleted' = deleted
    BY <1>2 DEF enqueue
  <2>2. ASSUME NEW n \in Node \ heap, heap' = heap \cup {n}, data' = [data EXCEPT ![n] = d],
               EnqueueFirst(n, d) \/ EnqueueRear(n, d)
        PROVE  queue' = Append(queue, d)
    BY <1>2, <2>1, <2>2, EnqueueShows DEF Inv
  <2>3. ASSUME UNCHANGED <<front, rear, fields, heap>>
        PROVE  queue' = queue
    BY <1>2, <2>1, <2>3, QueueSame
  <2>4. queue' = Append(queue, d) \/ queue' = queue
    BY <1>2, <2>2, <2>3 DEF enqueue
  <2> QED BY <2>1, <2>4 DEF Abstract!Enqueue
<1>3. ASSUME ~ deleted, dequeue
      PROVE  Abstract!Dequeue
  <2>1. /\ last' = [op |-> "dequeue", rtn |-> IF front = NULL THEN NULL ELSE data[front]]
        /\ deleted' = deleted /\ data' = data /\ heap' = heap \ {front}
    BY <1>3 DEF dequeue
  <2>2. CASE front = NULL
    <3>1. heap' = heap
      BY <2>1, <2>2, NullAssumption DEF Inv, TypeOK
    <3>2. UNCHANGED <<front, rear, fields, heap, deleted>>
      BY <1>3, <2>1, <2>2, <3>1
         DEF dequeue, DequeueNothing, DequeueOnly, DequeueFront, fields
    <3>3. queue' = queue /\ queue = <<>>
      BY <1>3, <2>2, <3>2, QueueSame, EndsShow
    <3> QED BY <2>1, <2>2, <3>3 DEF Abstract!Dequeue
  <2>3. CASE front # NULL
    <3>1. DequeueOnly \/ DequeueFront
      BY <1>3, <2>3 DEF dequeue, DequeueNothing
    <3>2. queue # <<>> /\ queue' = Tail(queue) /\ data[front] = Head(queue)
      BY <1>3, <2>1, <2>3, <3>1, DequeueShows
    <3> QED BY <2>1, <2>3, <3>2 DEF Abstract!Dequeue
  <2> QED BY <2>2, <2>3
<1>4. ASSUME ~ deleted, get_front
      PROVE  Abstract!GetFront
  <2>1. /\ last' = [op |-> "get_front", rtn |-> IF front = NULL THEN NULL ELSE data[front]]
        /\ UNCHANGED <<front, rear, fields, heap, deleted>>
    BY <1>4 DEF get_front
  <2>2. queue' = queue
    BY <1>4, <2>1, QueueSame
  <2>3. /\ queue = <<>> <=> front = NULL
        /\ queue # <<>> => data[front] = Head(queue)
    BY <1>4, EndsShow
  <2> QED BY <2>1, <2>2, <2>3 DEF Abstract!GetFront
<1>5. ASSUME ~ deleted, get_rear
      PROVE  Abstract!GetRear
  <2>1. /\ last' = [op |-> "get_rear", rtn |-> IF rear = NULL THEN NULL ELSE data[rear]]
        /\ UNCHANGED <<front, rear, fields, heap, deleted>>
    BY <1>5 DEF get_rear
  <2>2. queue' = queue
    BY <1>5, <2>1, QueueSame
  <2>3. /\ queue = <<>> <=> rear = NULL
        /\ queue # <<>> => data[rear] = queue[Len(queue)]
    BY <1>5, EndsShow
  <2> QED BY <2>1, <2>2, <2>3 DEF Abstract!GetRear
<1>6. ASSUME ~ deleted, delete_queue
      PROVE  Abstract!Delete
  BY <1>6 DEF delete_queue, queue, Abstract!Delete
<1> QED BY <1>1, <1>2, <1>3, <1>4, <1>5, <1>6 DEF Next, Abstract!Next

\* The linked list implements the sequence that Server.tla takes a queue to be:
\* what a dequeue returns is what was enqueued first, for any number of nodes.
THEOREM FifoCorrect == Spec => ImplementsFifo
<1>1. Init => Abstract!Init
  BY RefinesInit
<1>2. Inv /\ [Next]_vars => [Abstract!Next]_(Abstract!vars)
  BY RefinesStep
<1> QED BY <1>1, <1>2, QueueInvariant, PTL DEF Spec, ImplementsFifo, Abstract!Spec
=============================================================================
