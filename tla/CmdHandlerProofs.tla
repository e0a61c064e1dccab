-------------------------- MODULE CmdHandlerProofs --------------------------
(***************************************************************************)
(* Proofs about CmdHandler.tla.  First the floats of has_key_expired: how  *)
(* far the comparison with the expiry of a key can be off.  Then who owns  *)
(* the nodes of the store, whatever SETs and GETs came before and          *)
(* whichever realloc failed.  Last, that the commands implement the        *)
(* keyspace of Keyspace.tla.                                               *)
(***************************************************************************)
EXTENDS CmdHandler, SimpleMapLemmas, WellFoundedInduction

-----------------------------------------------------------------------------
(* Arithmetic.                                                             *)

\* Multiplication keeps <= ...
LEMMA MulLe ==
  ASSUME NEW a \in Nat, NEW b \in Nat, NEW c \in Nat, a <= b
  PROVE  a * c <= b * c
  OBVIOUS

\* ... and of <, both ways.
LEMMA MulLt ==
  ASSUME NEW a \in Nat, NEW b \in Nat, NEW c \in Nat \ {0}
  PROVE  a * c < b * c <=> a < b
  OBVIOUS

\* Division with a remainder.
LEMMA Euclid ==
  ASSUME NEW t \in Nat, NEW u \in Nat \ {0}
  PROVE  \E q \in Nat, r \in 0 .. u - 1 : q = t \div u /\ r = t % u /\ t = q * u + r
<1>1. t % u \in 0 .. u - 1
  OBVIOUS
<1>2. t \div u \in Int
  OBVIOUS
<1>3. t = (t \div u) * u + (t % u)
  OBVIOUS
<1>4. t \div u >= 0
  BY <1>1, <1>2, <1>3
<1> QED BY <1>1, <1>2, <1>3, <1>4

\* Times that some float is above.
InRange(t) == t \in Nat /\ \E u \in Ulps : t < Digits * u

\* The distance of the floats around t is the least with which t can be reached.
LEMMA UlpIs ==
  ASSUME NEW t, InRange(t)
  PROVE  /\ Ulp(t) \in Ulps /\ t < Digits * Ulp(t)
         /\ \A v \in Ulps : t < Digits * v => Ulp(t) <= v
<1>1. PICK P : P = {u \in Ulps : t < Digits * u}
  OBVIOUS
<1>2. P \subseteq Nat /\ P # {}
  BY <1>1, FloatAssumption DEF InRange
<1>3. PICK m \in P : \A y \in P : <<y, m>> \notin OpToRel(<, Nat)
  BY <1>2, NatLessThanWellFounded, WFMin
<1>4. \A y \in P : m <= y
  <2> TAKE y \in P
  <2>1. m \in Nat /\ y \in Nat
    BY <1>2
  <2>2. <<y, m>> \in OpToRel(<, Nat) <=> y < m
    BY <2>1 DEF OpToRel
  <2>3. ~ (y < m)
    BY <1>3, <2>2, Zenon
  <2> QED BY <2>1, <2>3
<1>5. m \in Ulps /\ t < Digits * m /\ \A v \in Ulps : t < Digits * v => m <= v
  BY <1>1, <1>4
<1> QED BY <1>5 DEF Ulp

\* Where the floats are not the integers, t is in the upper half of what the
\* distance reaches.
LEMMA UlpHalf ==
  ASSUME NEW t, InRange(t), Ulp(t) # 1
  PROVE  \E u \in Ulps : Ulp(t) = 2 * u /\ Digits * u <= t
<1>1. PICK u \in Ulps : Ulp(t) = 2 * u
  BY UlpIs, FloatAssumption
<1>2. u \in Nat \ {0} /\ t \in Nat /\ Digits \in Nat
  BY FloatAssumption DEF InRange
<1>3. ~ t < Digits * u
  BY <1>1, <1>2, UlpIs
<1> QED BY <1>1, <1>2, <1>3

LEMMA UlpMono ==
  ASSUME NEW s, NEW t, InRange(s), InRange(t), s <= t
  PROVE  /\ Ulp(s) <= Ulp(t)
         /\ Ulp(s) # Ulp(t) => 2 * Ulp(s) <= Ulp(t)
<1>1. /\ Ulp(s) \in Ulps /\ Ulp(t) \in Ulps /\ t < Digits * Ulp(t)
      /\ \A v \in Ulps : s < Digits * v => Ulp(s) <= v
  BY UlpIs
<1>2. PICK a \in Nat \ {0}, b \in Nat \ {0} : a = Ulp(s) /\ b = Ulp(t)
  BY <1>1, FloatAssumption
<1>3. s \in Nat /\ t \in Nat /\ Digits * b \in Nat
  BY <1>2, FloatAssumption DEF InRange
<1>4. a <= b
  BY <1>1, <1>2, <1>3
<1>5. ASSUME a < b PROVE 2 * a <= b
  <2>1. a \in Ulps /\ b \in Ulps
    BY <1>1, <1>2
  <2>2. PICK k \in 1 .. b : b = 2 * a * k
    BY <1>5, <2>1, FloatAssumption, ZenonT(40)
  <2>3. 1 * (2 * a) <= k * (2 * a)
    BY <2>2, MulLe
  <2> QED BY <2>2, <2>3
<1> QED BY <1>2, <1>4, <1>5

\* The number u of the distances below t, the rest, and the rounding of t.
LEMMA FloatParts ==
  ASSUME NEW t, InRange(t), NEW u, u = Ulp(t)
  PROVE  \E q \in Nat, r \in 0 .. u - 1, a \in Nat :
           /\ a = q * u /\ (q + 1) * u = a + u /\ t = a + r
           /\ Float(t) = IF 2 * r < u \/ (2 * r = u /\ q % 2 = 0) THEN a ELSE a + u
<1>1. u \in Nat \ {0} /\ t \in Nat
  BY UlpIs, FloatAssumption DEF InRange
<1>2. PICK q \in Nat, r \in 0 .. u - 1 : q = t \div u /\ r = t % u /\ t = q * u + r
  BY <1>1, Euclid, Zenon
<1>3. Float(t) = IF 2 * r < u \/ (2 * r = u /\ q % 2 = 0) THEN q * u ELSE (q + 1) * u
  BY <1>2, Zenon DEF Float
<1>4. q * u \in Nat /\ (q + 1) * u = q * u + u
  BY <1>1
<1> QED BY <1>2, <1>3, <1>4

\* A float is a multiple of the distance, at most half of it away.
LEMMA FloatIs ==
  ASSUME NEW t, InRange(t), NEW u, u = Ulp(t)
  PROVE  /\ Float(t) \in Nat /\ Float(t) <= Digits * u
         /\ 2 * t <= 2 * Float(t) + u /\ 2 * Float(t) <= 2 * t + u
         /\ u = 1 => Float(t) = t
<1>1. u \in Nat \ {0} /\ t \in Nat /\ Digits \in Nat
  BY UlpIs, FloatAssumption DEF InRange
<1>2. PICK q \in Nat, r \in 0 .. u - 1, a \in Nat :
        /\ a = q * u /\ (q + 1) * u = a + u /\ t = a + r
        /\ Float(t) = IF 2 * r < u \/ (2 * r = u /\ q % 2 = 0) THEN a ELSE a + u
  BY FloatParts
<1>3. PICK b \in Nat : b = Digits * u
  BY <1>1
<1>4. a + u <= b
  <2>1. t < b
    BY <1>3, UlpIs
  <2>2. a <= t /\ a = q * u
    BY <1>2
  <2>3. a < b
    BY <1>1, <2>1, <2>2
  <2>4. q * u < Digits * u
    BY <1>3, <2>2, <2>3, Zenon
  <2>5. q < Digits
    BY <1>1, <2>4, MulLt, Zenon
  <2>6. q + 1 \in Nat /\ q + 1 <= Digits
    BY <1>1, <2>5
  <2>7. (q + 1) * u <= Digits * u
    BY <1>1, <2>6, MulLe
  <2> QED BY <1>2, <1>3, <2>7, Zenon
<1>5. /\ t = a + r
      /\ \/ Float(t) = a /\ 2 * r <= u
         \/ Float(t) = a + u /\ 2 * r >= u
  <2>1. t = a + r /\ Float(t) = IF 2 * r < u \/ (2 * r = u /\ q % 2 = 0) THEN a ELSE a + u
    BY <1>2
  <2>2. CASE 2 * r < u \/ (2 * r = u /\ q % 2 = 0)
    <3>1. Float(t) = a
      BY <2>1, <2>2
    <3>2. 2 * r <= u
      BY <1>1, <2>2
    <3> QED BY <2>1, <3>1, <3>2
  <2>3. CASE ~ (2 * r < u \/ (2 * r = u /\ q % 2 = 0))
    <3>1. Float(t) = a + u
      BY <2>1, <2>3
    <3>2. 2 * r >= u
      BY <1>1, <2>3
    <3> QED BY <2>1, <3>1, <3>2
  <2> QED BY <2>2, <2>3
<1>6. /\ Float(t) \in Nat /\ Float(t) <= b
      /\ 2 * t <= 2 * Float(t) + u /\ 2 * Float(t) <= 2 * t + u
      /\ u = 1 => Float(t) = t
  BY <1>1, <1>4, <1>5
<1> QED BY <1>3, <1>6, Zenon

\* Where the floats are not the integers, t and its float are in the upper half of
\* what the distance reaches.
LEMMA FloatHalf ==
  ASSUME NEW t, InRange(t), NEW u, u = Ulp(t), u # 1
  PROVE  Digits * u <= 2 * t /\ Digits * u <= 2 * Float(t)
<1>1. u \in Nat \ {0} /\ t \in Nat /\ Digits \in Nat
  BY UlpIs, FloatAssumption DEF InRange
<1>2. PICK w \in Ulps : u = 2 * w /\ Digits * w <= t
  BY UlpHalf
<1>3. PICK h \in Nat : Digits = 2 * h
  BY FloatAssumption
<1>4. w \in Nat
  BY FloatAssumption
<1>5. PICK b \in Nat : b = h * u
  BY <1>1
<1>6. Digits * w = b /\ Digits * u = 2 * b
  BY <1>1, <1>2, <1>3, <1>4, <1>5
<1>7. PICK q \in Nat, r \in 0 .. u - 1, a \in Nat :
        /\ a = q * u /\ (q + 1) * u = a + u /\ t = a + r
        /\ Float(t) = IF 2 * r < u \/ (2 * r = u /\ q % 2 = 0) THEN a ELSE a + u
  BY FloatParts
<1>8. b <= t /\ t < a + u
  BY <1>1, <1>2, <1>6, <1>7
<1>9. b <= a
  <2>1. h * u < (q + 1) * u
    BY <1>1, <1>5, <1>7, <1>8
  <2>2. q + 1 \in Nat
    OBVIOUS
  <2>3. h < q + 1
    BY <1>1, <2>1, <2>2, MulLt, Zenon
  <2>4. h <= q
    BY <2>3
  <2>5. h * u <= q * u
    BY <1>1, <2>4, MulLe
  <2> QED BY <1>5, <1>7, <2>5
<1>10. Float(t) \in {a, a + u}
  BY <1>7
<1>11. 2 * b <= 2 * t /\ 2 * b <= 2 * Float(t)
  BY <1>1, <1>8, <1>9, <1>10
<1> QED BY <1>6, <1>11, Zenon

LEMMA FloatDouble ==
  ASSUME NEW t, InRange(t)
  PROVE  Float(t) <= 2 * t
<1>1. PICK u : u = Ulp(t)
  OBVIOUS
<1>2. u \in Nat \ {0} /\ t \in Nat /\ Digits \in Nat /\ Digits >= 2
  <2>1. Digits >= 2
    BY FloatAssumption
  <2> QED BY <1>1, <2>1, UlpIs, FloatAssumption DEF InRange
<1>3. /\ Float(t) \in Nat /\ 2 * Float(t) <= 2 * t + u
      /\ u = 1 => Float(t) = t
  BY <1>1, FloatIs
<1>4. CASE u # 1
  <2>1. Digits * u <= 2 * t
    BY <1>1, <1>4, FloatHalf
  <2>2. 2 * u <= Digits * u
    BY <1>2, MulLe
  <2> QED BY <1>2, <1>3, <2>1, <2>2
<1> QED BY <1>2, <1>3, <1>4

\* Rounding keeps the order.
LEMMA FloatMono ==
  ASSUME NEW s, NEW t, InRange(s), InRange(t), s <= t
  PROVE  Float(s) <= Float(t)
<1>1. PICK u, v : u = Ulp(s) /\ v = Ulp(t)
  OBVIOUS
<1>2. /\ u \in Nat \ {0} /\ v \in Nat \ {0} /\ s \in Nat /\ t \in Nat
      /\ Digits \in Nat
  BY <1>1, UlpIs, FloatAssumption DEF InRange
<1>3. CASE u # v
  <2>1. 2 * u <= v
    BY <1>1, <1>3, UlpMono
  <2>2. v # 1
    BY <1>2, <2>1
  <2>3. Float(s) \in Nat /\ Float(s) <= Digits * u
    BY <1>1, FloatIs
  <2>4. Float(t) \in Nat /\ Digits * v <= 2 * Float(t)
    BY <1>1, <2>2, FloatIs, FloatHalf
  <2>5. (2 * u) * Digits <= v * Digits
    BY <1>2, <2>1, MulLe
  <2>6. 2 * (Digits * u) <= Digits * v
    BY <1>2, <2>5
  <2> QED BY <1>2, <2>3, <2>4, <2>6
<1>4. CASE u = v
  <2>1. PICK q \in Nat, r \in 0 .. u - 1 : q = s \div u /\ r = s % u /\ s = q * u + r
    BY <1>2, Euclid
  <2>2. PICK p \in Nat, o \in 0 .. u - 1 : p = t \div u /\ o = t % u /\ t = p * u + o
    BY <1>2, Euclid
  <2>3. Float(s) = IF 2 * r < u \/ (2 * r = u /\ q % 2 = 0) THEN q * u ELSE (q + 1) * u
    BY <1>1, <2>1, Zenon DEF Float
  <2>4. Float(t) = IF 2 * o < u \/ (2 * o = u /\ p % 2 = 0) THEN p * u ELSE (p + 1) * u
    BY <1>1, <1>4, <2>2, Zenon DEF Float
  <2>5. CASE q < p
    <3>1. (q + 1) * u <= p * u /\ q * u <= (q + 1) * u /\ p * u <= (p + 1) * u
      BY <1>2, <2>1, <2>2, <2>5, MulLe
    <3>2. Float(s) \in Nat /\ Float(s) <= (q + 1) * u
      BY <1>2, <2>1, <2>3, <3>1
    <3>3. Float(t) \in Nat /\ p * u <= Float(t)
      BY <1>2, <2>2, <2>4, <3>1
    <3> QED BY <1>2, <2>1, <2>2, <3>1, <3>2, <3>3
  <2>6. CASE q = p
    <3>1. r <= o
      BY <1>2, <2>1, <2>2, <2>6
    <3>2. PICK a \in Nat : a = q * u /\ (q + 1) * u = a + u
      BY <1>2, <2>1
    <3> QED BY <1>2, <2>1, <2>2, <2>3, <2>4, <2>6, <3>1, <3>2
  <2>7. CASE p < q
    <3>1. (p + 1) * u <= q * u /\ (p + 1) * u = p * u + u
      BY <1>2, <2>1, <2>2, <2>7, MulLe
    <3> QED BY <1>2, <2>1, <2>2, <3>1
  <2> QED BY <2>1, <2>2, <2>5, <2>6, <2>7
<1> QED BY <1>3, <1>4

\* The largest number a distance reaches is a float.
LEMMA FloatTop ==
  ASSUME NEW u \in Ulps, NEW t, t = Digits * u, InRange(t)
  PROVE  Float(t) = t
<1>1. PICK v : v = Ulp(t)
  OBVIOUS
<1>2. /\ v \in Nat \ {0} /\ v \in Ulps /\ u \in Nat \ {0} /\ t \in Nat
      /\ Digits \in Nat \ {0}
  BY <1>1, UlpIs, FloatAssumption DEF InRange
<1>3. u < v
  <2>1. t < Digits * v
    BY <1>1, UlpIs
  <2>2. u * Digits < v * Digits
    BY <1>2, <2>1
  <2> QED BY <1>2, <2>2, MulLt, Zenon
<1>4. v # 1
  BY <1>2, <1>3
<1>5. PICK w \in Ulps : v = 2 * w /\ Digits * w <= t
  BY <1>1, <1>4, UlpHalf
<1>6. w \in Nat
  BY FloatAssumption
<1>7. v = 2 * u
  <2>1. ~ (u < w)
    <3>1. u * Digits < w * Digits <=> u < w
      BY <1>2, <1>6, MulLt, Zenon
    <3>2. ~ (u * Digits < w * Digits)
      BY <1>2, <1>5, <1>6
    <3> QED BY <3>1, <3>2, Zenon
  <2>2. PICK k \in 1 .. v : v = 2 * u * k
    BY <1>2, <1>3, FloatAssumption
  <2>3. PICK z \in Nat : z = 2 * u
    BY <1>2
  <2>4. 1 * z <= k * z
    BY <2>2, MulLe
  <2>5. z <= v
    BY <2>2, <2>3, <2>4
  <2> QED BY <1>2, <1>5, <1>6, <2>1, <2>3, <2>5
<1>8. PICK h \in Nat : Digits = 2 * h
  BY FloatAssumption
<1>9. PICK q \in Nat, r \in 0 .. v - 1, a \in Nat :
        /\ a = q * v /\ (q + 1) * v = a + v /\ t = a + r
        /\ Float(t) = IF 2 * r < v \/ (2 * r = v /\ q % 2 = 0) THEN a ELSE a + v
  BY <1>1, FloatParts
<1>10. h * v = t
  BY <1>2, <1>7, <1>8
<1>11. h = q
  <2>1. q * v <= h * v /\ h * v < (q + 1) * v
    BY <1>2, <1>9, <1>10
  <2>2. q + 1 \in Nat
    OBVIOUS
  <2>3. h < q + 1
    BY <1>2, <2>1, <2>2, MulLt, Zenon
  <2>4. ~ (h < q)
    <3>1. h * v < q * v <=> h < q
      BY <1>2, MulLt, Zenon
    <3>2. ~ (h * v < q * v)
      BY <1>2, <2>1
    <3> QED BY <3>1, <3>2, Zenon
  <2> QED BY <2>3, <2>4
<1>12. a = t /\ r = 0
  BY <1>2, <1>9, <1>10, <1>11
<1> QED BY <1>2, <1>9, <1>12

-----------------------------------------------------------------------------
(* The times and the numbers the comparison meets are in range.            *)

LEMMA RangeDown ==
  ASSUME NEW s \in Nat, NEW t, InRange(t), s <= t
  PROVE  InRange(s)
<1>1. t \in Nat
  BY DEF InRange
<1>2. PICK u \in Ulps : t < Digits * u
  BY DEF InRange
<1>3. Digits * u \in Nat
  BY FloatAssumption
<1>4. s < Digits * u
  BY <1>1, <1>2, <1>3
<1> QED BY <1>4 DEF InRange

LEMMA Reach ==
  /\ \A t \in 0 .. 4 * MaxTime : InRange(t) /\ InRange(t * Kilo)
<1>1. MaxTime \in Nat /\ Kilo \in Nat \ {0}
  BY ClockAssumption
<1>2. PICK m \in Nat : m = 4 * MaxTime
  BY <1>1
<1>3. m * Kilo \in Nat /\ InRange(m * Kilo)
  BY <1>1, <1>2, ClockAssumption DEF InRange
<1> SUFFICES ASSUME NEW t \in 0 .. 4 * MaxTime
             PROVE  InRange(t) /\ InRange(t * Kilo)
  OBVIOUS
<1>4. t \in Nat /\ t <= m
  BY <1>1, <1>2
<1>5. t * Kilo <= m * Kilo
  BY <1>1, <1>4, MulLe
<1>6. t * Kilo \in Nat /\ t <= t * Kilo
  BY <1>1, <1>4
<1>7. InRange(t * Kilo)
  BY <1>3, <1>5, <1>6, RangeDown
<1> QED BY <1>4, <1>6, <1>7, RangeDown

-----------------------------------------------------------------------------
(* How far delta_sec is from the time that passed.                         *)

LEMMA DeltaIs ==
  ASSUME NEW c \in 0 .. MaxTime, NEW p \in 0 .. c, NEW u, u = Ulp(c)
  PROVE  /\ u \in Nat \ {0} /\ Delta(c, p) \in 0 .. 4 * MaxTime
         /\ Delta(c, p) <= Digits * u
         /\ 2 * (c - p) <= 2 * Delta(c, p) + 3 * u
         /\ 2 * Delta(c, p) <= 2 * (c - p) + 3 * u
         /\ u = 1 => Delta(c, p) = c - p
<1>1. /\ MaxTime \in Nat /\ c \in Nat /\ p \in Nat /\ p <= c
      /\ InRange(c) /\ InRange(p)
  BY Reach, ClockAssumption
<1>2. /\ u \in Ulps /\ u \in Nat \ {0} /\ c < Digits * u
      /\ Digits \in Nat \ {0}
  BY <1>1, UlpIs, FloatAssumption
<1>3. PICK v \in Nat \ {0} : v = Ulp(p) /\ v <= u
  BY <1>1, UlpIs, UlpMono, FloatAssumption
<1>4. /\ Float(c) \in Nat /\ Float(c) <= Digits * u
      /\ 2 * c <= 2 * Float(c) + u /\ 2 * Float(c) <= 2 * c + u
      /\ u = 1 => Float(c) = c
  BY <1>1, FloatIs
<1>5. /\ Float(p) \in Nat
      /\ 2 * p <= 2 * Float(p) + v /\ 2 * Float(p) <= 2 * p + v
      /\ v = 1 => Float(p) = p
  BY <1>1, <1>3, FloatIs
<1>6. Float(p) <= Float(c) /\ Float(c) <= 2 * c
  BY <1>1, FloatMono, FloatDouble
<1>7. PICK d \in Nat : d = Float(c) - Float(p)
  BY <1>4, <1>5, <1>6
<1>8. PICK b \in Nat : b = Digits * u
  BY <1>2
<1>9. d <= b /\ d <= 2 * c
  <2>1. Float(c) <= b
    BY <1>4, <1>8
  <2> QED BY <1>1, <1>4, <1>5, <1>6, <1>7, <2>1
<1>10. /\ 2 * (c - p) <= 2 * d + 2 * u /\ 2 * d <= 2 * (c - p) + 2 * u
       /\ u = 1 => d = c - p
  <2>1. /\ 2 * c <= 2 * Float(c) + u /\ 2 * Float(c) <= 2 * c + u
        /\ u = 1 => Float(c) = c
    BY <1>4
  <2>2. Float(c) \in Nat /\ Float(p) \in Nat /\ u \in Nat
    BY <1>2, <1>4, <1>5
  <2>3. 2 * (c - p) <= 2 * d + 2 * u /\ 2 * d <= 2 * (c - p) + 2 * u
    BY <1>1, <1>3, <1>5, <1>7, <2>1, <2>2
  <2>4. ASSUME u = 1 PROVE d = c - p
    BY <1>1, <1>3, <1>5, <1>7, <2>1, <2>2, <2>4
  <2> QED BY <2>3, <2>4
<1>11. d \in 0 .. 4 * MaxTime /\ InRange(d)
  <2>1. d \in 0 .. 4 * MaxTime
    BY <1>1, <1>9
  <2> QED BY <2>1, Reach
<1>12. /\ Float(d) \in Nat /\ Float(d) <= b
       /\ 2 * d <= 2 * Float(d) + u /\ 2 * Float(d) <= 2 * d + u
       /\ u = 1 => Float(d) = d
  <2>1. CASE d = b
    <3>1. Float(d) = d
      BY <1>2, <1>8, <1>11, <2>1, FloatTop
    <3> QED BY <1>2, <2>1, <3>1
  <2>2. CASE d < b
    <3>1. PICK w \in Nat \ {0} : w = Ulp(d) /\ w <= u
      <4>1. d < Digits * u
        BY <1>8, <2>2
      <4> QED BY <1>2, <1>11, <4>1, UlpIs, FloatAssumption
    <3>2. PICK e \in Nat : e = Digits * w
      BY <1>2
    <3>3. e <= b
      <4>1. w * Digits <= u * Digits
        BY <1>2, <3>1, MulLe
      <4> QED BY <1>2, <1>8, <3>2, <4>1
    <3>4. /\ Float(d) \in Nat /\ Float(d) <= e
          /\ 2 * d <= 2 * Float(d) + w /\ 2 * Float(d) <= 2 * d + w
          /\ w = 1 => Float(d) = d
      BY <1>11, <3>1, <3>2, FloatIs
    <3>5. u = 1 => w = 1
      BY <3>1
    <3> QED BY <1>2, <3>1, <3>3, <3>4, <3>5
  <2> QED BY <1>9, <2>1, <2>2
<1>13. Delta(c, p) = Float(d)
  BY <1>7 DEF Delta
<1>14. Float(d) <= 2 * d
  BY <1>11, FloatDouble
<1>15. /\ Delta(c, p) \in 0 .. 4 * MaxTime /\ Delta(c, p) <= b
       /\ 2 * (c - p) <= 2 * Delta(c, p) + 3 * u
       /\ 2 * Delta(c, p) <= 2 * (c - p) + 3 * u
       /\ u = 1 => Delta(c, p) = c - p
  <2>1. u \in Nat
    BY <1>2
  <2>2. Float(d) \in 0 .. 4 * MaxTime
    BY <1>1, <1>9, <1>12, <1>14
  <2>3. /\ 2 * (c - p) <= 2 * Float(d) + 3 * u
        /\ 2 * Float(d) <= 2 * (c - p) + 3 * u
    BY <1>1, <1>10, <1>12, <2>1
  <2> QED BY <1>10, <1>12, <1>13, <2>2, <2>3, Zenon
<1> QED BY <1>2, <1>8, <1>15, Zenon

-----------------------------------------------------------------------------
(* Comparing a rounded time x with the rounded expiry n.                   *)

\* The products that the two lemmas below speak of.
LEMMA Threshold ==
  ASSUME NEW n, InRange(n)
  PROVE  \E e \in Nat \ {0} :
           /\ n * TicksPerSec \in Nat /\ Float(n) * TicksPerSec \in Nat
           /\ 2 * (n * TicksPerSec) <= 2 * (Float(n) * TicksPerSec) + e
           /\ 2 * (Float(n) * TicksPerSec) <= 2 * (n * TicksPerSec) + e
           /\ \/ Float(n) = n
              \/ /\ e >= 2 /\ Digits * e <= 2 * (n * TicksPerSec)
                 /\ Digits * e <= 2 * (Float(n) * TicksPerSec)
<1>1. PICK v : v = Ulp(n)
  OBVIOUS
<1>2. /\ v \in Nat \ {0} /\ n \in Nat /\ Digits \in Nat \ {0}
      /\ TicksPerSec \in Nat \ {0}
  BY <1>1, UlpIs, FloatAssumption, ClockAssumption DEF InRange
<1>3. PICK f \in Nat : f = Float(n)
  BY FloatIs
<1>4. 2 * n <= 2 * f + v /\ 2 * f <= 2 * n + v /\ (v = 1 => f = n)
  BY <1>1, <1>3, FloatIs
<1>5. PICK e \in Nat \ {0} : e = v * TicksPerSec /\ v <= e
  BY <1>2
<1>6. PICK a \in Nat, b \in Nat : a = n * TicksPerSec /\ b = f * TicksPerSec
  BY <1>2
<1>7. 2 * a <= 2 * b + e
  <2>1. (2 * n) * TicksPerSec <= (2 * f + v) * TicksPerSec
    BY <1>2, <1>4, MulLe
  <2> QED BY <1>2, <1>5, <1>6, <2>1
<1>8. 2 * b <= 2 * a + e
  <2>1. (2 * f) * TicksPerSec <= (2 * n + v) * TicksPerSec
    BY <1>2, <1>4, MulLe
  <2> QED BY <1>2, <1>5, <1>6, <2>1
<1>9. ASSUME v # 1
      PROVE  e >= 2 /\ Digits * e <= 2 * a /\ Digits * e <= 2 * b
  <2>1. Digits * v <= 2 * n /\ Digits * v <= 2 * f
    BY <1>1, <1>3, <1>9, FloatHalf
  <2>2. PICK g \in Nat : g = Digits * v
    BY <1>2
  <2>3. g <= 2 * n /\ g <= 2 * f /\ 2 * n \in Nat /\ 2 * f \in Nat
    BY <1>2, <2>1, <2>2
  <2>4. /\ g * TicksPerSec <= (2 * n) * TicksPerSec
        /\ g * TicksPerSec <= (2 * f) * TicksPerSec
    BY <1>2, <2>3, MulLe, Zenon
  <2>5. g * TicksPerSec = Digits * e
    BY <1>2, <1>5, <2>2
  <2>6. (2 * n) * TicksPerSec = 2 * a /\ (2 * f) * TicksPerSec = 2 * b
    BY <1>2, <1>6
  <2>7. e >= 2
    BY <1>2, <1>5, <1>9
  <2> QED BY <2>4, <2>5, <2>6, <2>7, Zenon
<1> QED BY <1>3, <1>4, <1>6, <1>7, <1>8, <1>9, Zenon

\* With x at most 5/2 of z away from the time y, the comparison is at most 4 of z
\* off.
LEMMA Compare ==
  ASSUME NEW n, InRange(n), NEW x \in Nat, NEW y \in Nat, NEW z \in Nat,
         x <= Digits * z + z, y <= Digits * z,
         2 * x <= 2 * y + 5 * z, 2 * y <= 2 * x + 5 * z
  PROVE  /\ x > Float(n) * TicksPerSec => y + 4 * z > n * TicksPerSec
         /\ ~ (x > Float(n) * TicksPerSec) => y <= n * TicksPerSec + 4 * z
<1>1. PICK e \in Nat \ {0} :
        /\ n * TicksPerSec \in Nat /\ Float(n) * TicksPerSec \in Nat
        /\ 2 * (n * TicksPerSec) <= 2 * (Float(n) * TicksPerSec) + e
        /\ 2 * (Float(n) * TicksPerSec) <= 2 * (n * TicksPerSec) + e
        /\ \/ Float(n) = n
           \/ /\ e >= 2 /\ Digits * e <= 2 * (n * TicksPerSec)
              /\ Digits * e <= 2 * (Float(n) * TicksPerSec)
  BY Threshold
<1>2. PICK a \in Nat, b \in Nat : a = n * TicksPerSec /\ b = Float(n) * TicksPerSec
  BY <1>1
<1>3. 2 * a <= 2 * b + e /\ 2 * b <= 2 * a + e
  BY <1>1, <1>2
<1>4. a = b \/ (Digits * e <= 2 * a /\ Digits * e <= 2 * b)
  BY <1>1, <1>2, Zenon
<1>5. Digits \in Nat \ {0} /\ Digits >= 2
  BY FloatAssumption
<1>6. PICK m \in Nat : m = Digits * z
  BY <1>5
<1>7. x <= m + z /\ y <= m
  BY <1>6, Zenon
<1>8. PICK t \in Nat : t = 3 * z
  OBVIOUS
<1>9. 2 * z <= m /\ t * Digits = 3 * m
  <2>1. 2 * z <= Digits * z
    BY <1>5, MulLe
  <2> QED BY <1>5, <1>6, <1>8, <2>1
<1>10. PICK g \in Nat : g = Digits * e /\ g = e * Digits
  BY <1>5
<1>11. g < 3 * m <=> e < t
  BY <1>5, <1>9, <1>10, MulLt
<1>12. 3 * m < g <=> t < e
  BY <1>5, <1>9, <1>10, MulLt
<1>13. a = b \/ (g <= 2 * a /\ g <= 2 * b)
  BY <1>4, <1>10, Zenon
<1>14. ASSUME x > b PROVE y + 4 * z > a
  <2>1. CASE a = b
    BY <1>14, <2>1
  <2>2. CASE g <= 2 * b
    <3>1. g < 3 * m
      BY <1>7, <1>9, <1>14, <2>2
    <3>2. e < 3 * z
      BY <1>8, <1>11, <3>1
    <3> QED BY <1>3, <1>14, <3>2
  <2> QED BY <1>13, <2>1, <2>2
<1>15. ASSUME ~ (x > b) PROVE y <= a + 4 * z
  <2>1. CASE a = b
    BY <1>15, <2>1
  <2>2. CASE e <= 3 * z
    BY <1>3, <1>15, <2>2
  <2>3. CASE g <= 2 * a /\ e > 3 * z
    <3>1. 3 * m < g
      BY <1>8, <1>12, <2>3
    <3> QED BY <1>7, <2>3, <3>1
  <2> QED BY <1>13, <2>1, <2>2, <2>3
<1> QED BY <1>2, <1>14, <1>15, Zenon

\* As long as the numbers are small enough to be floats, it is exact.
LEMMA CompareExact ==
  ASSUME NEW n, InRange(n), NEW y \in Nat, y < Digits
  PROVE  y > Float(n) * TicksPerSec <=> y > n * TicksPerSec
<1>1. PICK e \in Nat \ {0} :
        /\ n * TicksPerSec \in Nat /\ Float(n) * TicksPerSec \in Nat
        /\ 2 * (n * TicksPerSec) <= 2 * (Float(n) * TicksPerSec) + e
        /\ 2 * (Float(n) * TicksPerSec) <= 2 * (n * TicksPerSec) + e
        /\ \/ Float(n) = n
           \/ /\ e >= 2 /\ Digits * e <= 2 * (n * TicksPerSec)
              /\ Digits * e <= 2 * (Float(n) * TicksPerSec)
  BY Threshold
<1>2. PICK a \in Nat, b \in Nat : a = n * TicksPerSec /\ b = Float(n) * TicksPerSec
  BY <1>1
<1>3. a = b \/ (e >= 2 /\ Digits * e <= 2 * a /\ Digits * e <= 2 * b)
  BY <1>1, <1>2, Zenon
<1>4. Digits \in Nat
  BY FloatAssumption
<1>5. PICK g \in Nat : g = Digits * e
  BY <1>4
<1>6. e >= 2 => 2 * Digits <= g
  <2>1. e >= 2 => 2 * Digits <= e * Digits
    BY <1>4, MulLe
  <2> QED BY <1>4, <1>5, <2>1
<1>7. a = b \/ (e >= 2 /\ g <= 2 * a /\ g <= 2 * b)
  BY <1>3, <1>5, Zenon
<1>8. y > b <=> y > a
  BY <1>4, <1>6, <1>7
<1> QED BY <1>2, <1>8, Zenon

-----------------------------------------------------------------------------
(* The two comparisons of has_key_expired.                                 *)

LEMMA BlurIs ==
  ASSUME NEW c \in 0 .. MaxTime, NEW u, u = Ulp(c)
  PROVE  /\ u \in Nat \ {0} /\ Blur(c) \in Nat /\ c < Digits * u
         /\ c * Kilo < Digits => u = 1 /\ Blur(c) = 0
         /\ ~ (c * Kilo < Digits) => Blur(c) = 4 * u
<1>1. MaxTime \in Nat /\ c \in Nat /\ InRange(c) /\ Kilo \in Nat \ {0}
  BY Reach, ClockAssumption
<1>2. /\ u \in Nat \ {0} /\ c < Digits * u
      /\ \A v \in Ulps : c < Digits * v => u <= v
  BY <1>1, UlpIs, FloatAssumption
<1>3. ASSUME c * Kilo < Digits PROVE u = 1 /\ Blur(c) = 0
  <2>1. c < Digits * 1 /\ 1 \in Ulps
    BY <1>1, <1>3, FloatAssumption
  <2> QED BY <1>2, <1>3, <2>1 DEF Blur
<1>4. ASSUME ~ (c * Kilo < Digits) PROVE Blur(c) = 4 * u
  BY <1>4 DEF Blur
<1> QED BY <1>2, <1>3, <1>4

\* The comparison of the seconds.
LEMMA ExClose ==
  ASSUME NEW c \in 0 .. MaxTime, NEW p \in 0 .. c, NEW n, InRange(n)
  PROVE  /\ Delta(c, p) > Float(n) * TicksPerSec => c + Blur(c) > p + n * TicksPerSec
         /\ ~ (Delta(c, p) > Float(n) * TicksPerSec) => c - Blur(c) <= p + n * TicksPerSec
<1>1. /\ MaxTime \in Nat /\ c \in Nat /\ p \in Nat /\ p <= c
      /\ Digits \in Nat /\ Kilo \in Nat \ {0}
  BY ClockAssumption, FloatAssumption
<1>2. PICK u \in Nat \ {0} : u = Ulp(c)
  BY BlurIs
<1>3. PICK x \in Nat : x = Delta(c, p)
  BY <1>1, DeltaIs
<1>4. PICK y \in Nat : y = c - p
  BY <1>1
<1>5. PICK a \in Nat : a = n * TicksPerSec
  BY Threshold
<1>6. PICK b \in Nat : b = Blur(c)
  BY BlurIs
<1>7. /\ x <= Digits * u
      /\ 2 * y <= 2 * x + 3 * u /\ 2 * x <= 2 * y + 3 * u
      /\ u = 1 => x = y
  BY <1>2, <1>3, <1>4, DeltaIs, Zenon
<1>8. CASE c * Kilo < Digits
  <2>1. x = y /\ b = 0
    BY <1>2, <1>6, <1>7, <1>8, BlurIs
  <2>2. y < Digits
    <3>1. c <= c * Kilo /\ c * Kilo \in Nat
      BY <1>1
    <3> QED BY <1>1, <1>4, <1>8, <3>1
  <2>3. x > Float(n) * TicksPerSec <=> x > a
    BY <1>5, <2>1, <2>2, CompareExact
  <2>4. /\ x > a => c + b > p + a
        /\ ~ (x > a) => c - b <= p + a
    BY <1>1, <1>4, <2>1
  <2> QED BY <1>3, <1>5, <1>6, <2>3, <2>4, Zenon
<1>9. CASE ~ (c * Kilo < Digits)
  <2>1. b = 4 * u
    BY <1>2, <1>6, <1>9, BlurIs
  <2>2. PICK m \in Nat : m = Digits * u
    BY <1>1
  <2>3. c < m
    BY <1>2, <2>2, BlurIs, Zenon
  <2>4. x <= m + u /\ y <= m
    <3>1. x <= m
      BY <1>7, <2>2, Zenon
    <3> QED BY <1>1, <1>4, <2>3, <3>1
  <2>5. 2 * x <= 2 * y + 5 * u /\ 2 * y <= 2 * x + 5 * u
    <3>1. 2 * y <= 2 * x + 3 * u /\ 2 * x <= 2 * y + 3 * u
      BY <1>7
    <3> QED BY <3>1
  <2>6. /\ x > Float(n) * TicksPerSec => y + 4 * u > a
        /\ ~ (x > Float(n) * TicksPerSec) => y <= a + 4 * u
    <3>1. x <= Digits * u + u /\ y <= Digits * u
      BY <2>2, <2>4, Zenon
    <3>2. u \in Nat
      OBVIOUS
    <3> QED BY <1>5, <2>5, <3>1, <3>2, Compare, Zenon
  <2>7. /\ y + 4 * u > a => c + b > p + a
        /\ y <= a + 4 * u => c - b <= p + a
    BY <1>1, <1>4, <2>1
  <2> QED BY <1>3, <1>5, <1>6, <2>6, <2>7, Zenon
<1> QED BY <1>8, <1>9

\* The comparison of the milliseconds: the difference is multiplied and rounded
\* once more.
LEMMA PxClose ==
  ASSUME NEW c \in 0 .. MaxTime, NEW p \in 0 .. c, NEW n, InRange(n)
  PROVE  /\ Float(Delta(c, p) * Kilo) > Float(n) * TicksPerSec =>
              (c + Blur(c)) * Kilo > p * Kilo + n * TicksPerSec
         /\ ~ (Float(Delta(c, p) * Kilo) > Float(n) * TicksPerSec) =>
              (c - Blur(c)) * Kilo <= p * Kilo + n * TicksPerSec
<1>1. /\ MaxTime \in Nat /\ c \in Nat /\ p \in Nat /\ p <= c
      /\ Digits \in Nat \ {0} /\ Kilo \in Nat \ {0}
  BY ClockAssumption, FloatAssumption
<1>2. PICK u \in Nat \ {0} : u = Ulp(c)
  BY BlurIs
<1>3. PICK d \in 0 .. 4 * MaxTime : d = Delta(c, p)
  BY <1>1, DeltaIs
<1>4. PICK a \in Nat : a = n * TicksPerSec
  BY Threshold
<1>5. PICK b \in Nat : b = Blur(c)
  BY BlurIs
<1>6. /\ d <= Digits * u
      /\ 2 * (c - p) <= 2 * d + 3 * u /\ 2 * d <= 2 * (c - p) + 3 * u
      /\ u = 1 => d = c - p
  BY <1>2, <1>3, DeltaIs, Zenon
<1>7. PICK k \in Nat : k = d * Kilo
  BY <1>1
<1>8. PICK x \in Nat, w \in Nat \ {0} :
        /\ w = Ulp(k) /\ x = Float(k)
        /\ 2 * k <= 2 * x + w /\ 2 * x <= 2 * k + w
        /\ w = 1 => x = k
        /\ w # 1 => Digits * w <= 2 * k
        /\ k < Digits => w <= 1
  <2>1. InRange(k)
    BY <1>3, <1>7, Reach
  <2>2. PICK w \in Nat \ {0} : w = Ulp(k)
    BY <2>1, UlpIs, FloatAssumption
  <2>3. w # 1 => Digits * w <= 2 * k
    BY <2>1, <2>2, FloatHalf
  <2>4. k < Digits => w <= 1
    <3>1. k < Digits * 1 => w <= 1
      BY <2>1, <2>2, UlpIs, FloatAssumption
    <3> QED BY <1>1, <3>1
  <2>5. PICK x \in Nat : /\ x = Float(k) /\ 2 * k <= 2 * x + w /\ 2 * x <= 2 * k + w
                         /\ w = 1 => x = k
    BY <2>1, <2>2, FloatIs
  <2> QED BY <2>2, <2>3, <2>4, <2>5
<1>9. PICK y \in Nat, cK \in Nat, pK \in Nat :
        cK = c * Kilo /\ pK = p * Kilo /\ y = cK - pK /\ y = (c - p) * Kilo
  <2>1. p * Kilo <= c * Kilo
    BY <1>1, MulLe
  <2> QED BY <1>1, <2>1
<1>10. CASE c * Kilo < Digits
  <2>1. u = 1 /\ b = 0
    BY <1>2, <1>5, <1>10, BlurIs
  <2>2. k = y /\ y < Digits
    BY <1>1, <1>6, <1>7, <1>9, <1>10, <2>1
  <2>3. x = y
    BY <1>8, <2>2
  <2>4. x > Float(n) * TicksPerSec <=> y > a
    BY <1>4, <2>2, <2>3, CompareExact
  <2>5. (c + b) * Kilo = cK /\ (c - b) * Kilo = cK
    BY <1>1, <1>9, <2>1
  <2>6. /\ y > a => (c + b) * Kilo > p * Kilo + a
        /\ ~ (y > a) => (c - b) * Kilo <= p * Kilo + a
    BY <1>9, <2>5
  <2> QED BY <1>3, <1>4, <1>5, <1>7, <1>8, <2>4, <2>6, Zenon
<1>11. CASE ~ (c * Kilo < Digits)
  <2>1. b = 4 * u
    BY <1>2, <1>5, <1>11, BlurIs
  <2>2. PICK z \in Nat, m \in Nat, o \in Nat :
          z = u * Kilo /\ o = Digits * u /\ m = o * Kilo /\ m = Digits * z
    BY <1>1
  <2>3. k <= m /\ y <= m
    <3>1. d <= o
      BY <1>6, <2>2, Zenon
    <3>2. c < o
      BY <1>2, <2>2, BlurIs, Zenon
    <3>3. c - p \in Nat /\ c - p <= o
      BY <1>1, <3>2
    <3>4. d \in Nat
      BY <1>1
    <3>5. d * Kilo <= o * Kilo
      BY <1>1, <3>1, <3>4, MulLe
    <3>6. (c - p) * Kilo <= o * Kilo
      BY <1>1, <3>3, MulLe
    <3> QED BY <1>7, <1>9, <2>2, <3>5, <3>6, Zenon
  <2>4. 2 * y <= 2 * k + 3 * z /\ 2 * k <= 2 * y + 3 * z
    <3>1. 2 * (c - p) \in Nat /\ 2 * d + 3 * u \in Nat /\ 2 * (c - p) <= 2 * d + 3 * u
      BY <1>1, <1>6
    <3>2. 2 * d \in Nat /\ 2 * (c - p) + 3 * u \in Nat /\ 2 * d <= 2 * (c - p) + 3 * u
      BY <1>1, <1>6
    <3>3. (2 * (c - p)) * Kilo <= (2 * d + 3 * u) * Kilo
      BY <1>1, <3>1, MulLe, Zenon
    <3>4. (2 * d) * Kilo <= (2 * (c - p) + 3 * u) * Kilo
      BY <1>1, <3>2, MulLe, Zenon
    <3>5. (2 * (c - p)) * Kilo = 2 * y /\ (2 * d + 3 * u) * Kilo = 2 * k + 3 * z
      BY <1>1, <1>7, <1>9, <2>2
    <3>6. (2 * d) * Kilo = 2 * k /\ (2 * (c - p) + 3 * u) * Kilo = 2 * y + 3 * z
      BY <1>1, <1>7, <1>9, <2>2
    <3> QED BY <3>3, <3>4, <3>5, <3>6, Zenon
  <2>5. 2 * k <= 2 * x + 2 * z /\ 2 * x <= 2 * k + 2 * z
    <3>1. CASE w = 1
      BY <1>8, <3>1
    <3>2. CASE w # 1
      <4>1. Digits * w <= 2 * m
        <5>1. Digits * w \in Nat /\ Digits * w <= 2 * k
          BY <1>1, <1>8, <3>2
        <5> QED BY <2>3, <5>1
      <4>2. 2 * m = (2 * z) * Digits
        BY <1>1, <2>2
      <4>3. ~ ((2 * z) * Digits < w * Digits)
        BY <1>1, <4>1, <4>2
      <4>4. 2 * z \in Nat
        OBVIOUS
      <4>5. ~ (2 * z < w)
        BY <1>1, <4>3, <4>4, MulLt, Zenon
      <4>6. 2 * k <= 2 * x + w /\ 2 * x <= 2 * k + w
        BY <1>8
      <4> QED BY <4>5, <4>6
    <3> QED BY <3>1, <3>2
  <2>6. x <= m + z /\ 2 * x <= 2 * y + 5 * z /\ 2 * y <= 2 * x + 5 * z
    BY <2>3, <2>4, <2>5
  <2>7. /\ x > Float(n) * TicksPerSec => y + 4 * z > a
        /\ ~ (x > Float(n) * TicksPerSec) => y <= a + 4 * z
    <3>1. x <= Digits * z + z /\ y <= Digits * z
      BY <2>2, <2>3, <2>6, Zenon
    <3> QED BY <1>4, <2>6, <3>1, Compare, Zenon
  <2>8. (c + b) * Kilo = cK + 4 * z /\ (c - b) * Kilo = cK - 4 * z
    BY <1>1, <1>9, <2>1, <2>2
  <2>9. /\ y + 4 * z > a => (c + b) * Kilo > p * Kilo + a
        /\ y <= a + 4 * z => (c - b) * Kilo <= p * Kilo + a
    BY <1>9, <2>8
  <2> QED BY <1>3, <1>4, <1>5, <1>7, <1>8, <2>7, <2>9, Zenon
<1> QED BY <1>10, <1>11

\* Rounding keeps the order all along, so what exceeds once always does.
LEMMA ExceedsStays ==
  ASSUME NEW c \in 0 .. MaxTime, NEW d \in 0 .. MaxTime, c <= d, NEW key,
         key.time \in 0 .. c, InRange(key.ex), InRange(key.px), Exceeds(c, key)
  PROVE  Exceeds(d, key)
<1>1. MaxTime \in Nat /\ Kilo \in Nat /\ c \in Nat /\ d \in Nat
  BY ClockAssumption
<1>2. PICK p \in 0 .. c : p = key.time
  OBVIOUS
<1>3. p \in 0 .. d /\ p \in Nat /\ p <= c
  BY <1>1
<1>4. PICK x \in 0 .. 4 * MaxTime, y \in 0 .. 4 * MaxTime :
        x = Delta(c, p) /\ y = Delta(d, p)
  BY <1>3, DeltaIs
<1>5. InRange(c) /\ InRange(d) /\ InRange(p)
  BY <1>1, <1>3, Reach
<1>6. PICK f \in Nat, g \in Nat, h \in Nat : f = Float(c) /\ g = Float(d) /\ h = Float(p)
  BY <1>5, FloatIs
<1>7. f <= g /\ h <= f
  BY <1>3, <1>5, <1>6, FloatMono
<1>8. x <= y
  <2>1. f - h \in Nat /\ g - h \in Nat /\ f - h <= g - h
    BY <1>7
  <2>2. g - h \in 0 .. 4 * MaxTime
    <3>1. g <= 2 * d
      BY <1>5, <1>6, FloatDouble
    <3> QED BY <1>1, <2>1, <3>1
  <2>3. InRange(g - h)
    BY <2>2, Reach
  <2>4. InRange(f - h)
    BY <2>1, <2>3, RangeDown
  <2>5. Float(f - h) <= Float(g - h)
    BY <2>1, <2>3, <2>4, FloatMono
  <2> QED BY <1>4, <1>6, <2>5 DEF Delta
<1>9. CASE key.ex # 0
  <2>1. PICK t \in Nat : t = Float(key.ex) * TicksPerSec
    BY Threshold
  <2>2. x > t
    BY <1>2, <1>4, <1>9, <2>1 DEF Exceeds
  <2>3. y > t
    BY <1>1, <1>8, <2>2
  <2> QED BY <1>2, <1>4, <1>9, <2>1, <2>3 DEF Exceeds
<1>10. CASE key.ex = 0
  <2>1. PICK t \in Nat : t = Float(key.px) * TicksPerSec
    BY Threshold
  <2>2. x * Kilo <= y * Kilo
    BY <1>1, <1>8, MulLe
  <2>3. InRange(x * Kilo) /\ InRange(y * Kilo)
    BY Reach
  <2>4. PICK v \in Nat, w \in Nat : v = Float(x * Kilo) /\ w = Float(y * Kilo)
    BY <2>3, FloatIs
  <2>5. v <= w
    BY <2>2, <2>3, <2>4, FloatMono
  <2>6. v > t
    BY <1>2, <1>4, <1>10, <2>1, <2>4 DEF Exceeds
  <2>7. w > t
    BY <2>5, <2>6
  <2> QED BY <1>2, <1>4, <1>10, <2>1, <2>4, <2>7 DEF Exceeds
<1> QED BY <1>9, <1>10
-----------------------------------------------------------------------------
(* The invariant.                                                          *)

\* The key nodes that a SET up to the time t can have made.
Aged(t) == {k \in KeyNode : k.time <= t /\ k.ex < UintSize /\ k.px < UintSize}

LEMMA AgedIs ==
  /\ \A t : Aged(t) \subseteq KeyNode /\ NULL \notin Aged(t)
  /\ \A t : NULL \notin [key : Aged(t), value : ValueNode]
  BY NodeAssumption DEF Aged

\* The nodes that the entries of the map m consist of.
NodesOf(m) == UNION {clean_up_kv(m.keys[i], m.values[i]) : i \in Used(m)}

\* The nodes of the map m are allocated, each belongs to one entry, and the two
\* of an entry were made by the same SET.
Owns(m, h) ==
  /\ \A i \in Used(m) : clean_up_kv(m.keys[i], m.values[i]) \subseteq h
  /\ \A i \in Used(m) : m.keys[i].id = m.values[i].id
  /\ \A i, j \in Used(m) : m.keys[i].id = m.keys[j].id => i = j

Inv ==
  /\ Map(sm, Aged(now), ValueNode)
  /\ Owns(sm, heap)
  /\ heap \subseteq {"key", "value"} \X Id
  /\ now \in 0 .. MaxTime

LEMMA NodesOfIs ==
  ASSUME NEW m, NEW x
  PROVE  x \in NodesOf(m) <=>
           \E i \in Used(m) : x \in clean_up_kv(m.keys[i], m.values[i])
  BY DEF NodesOf

\* Nodes of different entries are different.
LEMMA Unshared ==
  ASSUME NEW k, NEW v, NEW k2, NEW v2, k.id = v.id, k2.id = v2.id,
         NEW x, x \in clean_up_kv(k, v), x \in clean_up_kv(k2, v2)
  PROVE  k.id = k2.id
  BY DEF clean_up_kv

-----------------------------------------------------------------------------
(* What the changes of the map do to the ownership of the nodes.  In each  *)
(* case the nodes outside the map, h \ NodesOf(m), stay what they were.    *)

LEMMA PushOwns ==
  ASSUME NEW K, NEW m, Map(m, K, ValueNode), NEW h, Owns(m, h),
         NEW k \in K, NEW v \in ValueNode, k.id = v.id, Absent(m, k),
         clean_up_kv(k, v) \cap h = {}, NEW r, r = PushGrown(m, k, v)
  PROVE  /\ Map(r, K, ValueNode) /\ Owns(r, h \cup clean_up_kv(k, v))
         /\ (h \cup clean_up_kv(k, v)) \ NodesOf(r) = h \ NodesOf(m)
<1>1. /\ Map(r, K, ValueNode) /\ r.top = m.top + 1
      /\ \A i \in Used(m) : r.keys[i] = m.keys[i] /\ r.values[i] = m.values[i]
      /\ r.keys[r.top] = k /\ r.values[r.top] = v
  BY PushGrownMap
<1>2. m.top \in Int /\ m.top >= -1
  BY DEF Map
<1>3. Used(r) = Used(m) \cup {r.top}
  BY <1>1, <1>2 DEF Used
<1>4. \A i \in Used(m) : m.keys[i].id # k.id
  BY DEF Owns, clean_up_kv
<1>5. Owns(r, h \cup clean_up_kv(k, v))
  <2>1. \A i \in Used(r) : clean_up_kv(r.keys[i], r.values[i]) \subseteq h \cup clean_up_kv(k, v)
    BY <1>1, <1>3 DEF Owns
  <2>2. \A i \in Used(r) : r.keys[i].id = r.values[i].id
    BY <1>1, <1>3 DEF Owns
  <2>3. \A i, j \in Used(r) : r.keys[i].id = r.keys[j].id => i = j
    BY <1>1, <1>3, <1>4 DEF Owns
  <2> QED BY <2>1, <2>2, <2>3 DEF Owns
<1>6. NodesOf(r) = NodesOf(m) \cup clean_up_kv(k, v)
  <2>1. \A x : x \in NodesOf(r) <=> x \in NodesOf(m) \/ x \in clean_up_kv(k, v)
    BY <1>1, <1>3, NodesOfIs
  <2> QED BY <2>1
<1> QED BY <1>1, <1>5, <1>6

LEMMA UpgradeOwns ==
  ASSUME NEW K, NEW m, Map(m, K, ValueNode), NEW h, Owns(m, h),
         NEW k \in K, NEW v \in ValueNode, k.id = v.id, NEW pos, At(m, k, pos),
         clean_up_kv(k, v) \cap h = {}, NEW r, r = upgrade(m, pos, k, v),
         NEW old, old = clean_up_kv(m.keys[pos], m.values[pos]),
         NEW h2, h2 = (h \cup clean_up_kv(k, v)) \ old
  PROVE  /\ Map(r, K, ValueNode) /\ Owns(r, h2)
         /\ h2 \ NodesOf(r) = h \ NodesOf(m)
<1>1. /\ Map(r, K, ValueNode) /\ r.top = m.top
      /\ \A i \in Used(m) \ {pos} : r.keys[i] = m.keys[i] /\ r.values[i] = m.values[i]
      /\ r.keys[pos] = k /\ r.values[pos] = v
  BY UpgradeMap
<1>2. Used(r) = Used(m) /\ pos \in Used(m)
  BY <1>1 DEF Used, At
<1>3. \A i \in Used(m) : m.keys[i].id # k.id
  BY DEF Owns, clean_up_kv
<1>4. old \subseteq h /\ old \cap clean_up_kv(k, v) = {}
  BY <1>2 DEF Owns
<1>5. \A i \in Used(m) \ {pos} : clean_up_kv(m.keys[i], m.values[i]) \cap old = {}
  <2> SUFFICES ASSUME NEW i \in Used(m) \ {pos},
                      NEW x \in clean_up_kv(m.keys[i], m.values[i]), x \in old
               PROVE  FALSE
    OBVIOUS
  <2>1. m.keys[i].id = m.values[i].id /\ m.keys[pos].id = m.values[pos].id
    BY <1>2 DEF Owns
  <2>2. m.keys[i].id = m.keys[pos].id
    BY <2>1, Unshared
  <2> QED BY <1>2, <2>2 DEF Owns
<1>6. Owns(r, h2)
  <2>1. \A i \in Used(r) : clean_up_kv(r.keys[i], r.values[i]) \subseteq h2
    <3> SUFFICES ASSUME NEW i \in Used(r)
                 PROVE  clean_up_kv(r.keys[i], r.values[i]) \subseteq h2
      OBVIOUS
    <3>1. CASE i = pos
      BY <1>1, <1>4, <3>1
    <3>2. CASE i # pos
      <4>1. clean_up_kv(m.keys[i], m.values[i]) \subseteq h
        BY <1>2 DEF Owns
      <4> QED BY <1>1, <1>2, <1>5, <3>2, <4>1
    <3> QED BY <3>1, <3>2
  <2>2. \A i \in Used(r) : r.keys[i].id = r.values[i].id
    BY <1>1, <1>2 DEF Owns
  <2>3. \A i, j \in Used(r) : r.keys[i].id = r.keys[j].id => i = j
    BY <1>1, <1>2, <1>3 DEF Owns
  <2> QED BY <2>1, <2>2, <2>3 DEF Owns
<1>7. \A x : x \in NodesOf(r) <=> (x \in NodesOf(m) /\ x \notin old) \/ x \in clean_up_kv(k, v)
  <2> TAKE x
  <2>1. ASSUME x \in NodesOf(r)
        PROVE  (x \in NodesOf(m) /\ x \notin old) \/ x \in clean_up_kv(k, v)
    <3>1. PICK i \in Used(r) : x \in clean_up_kv(r.keys[i], r.values[i])
      BY <2>1, NodesOfIs
    <3>2. CASE i = pos
      BY <1>1, <3>1, <3>2
    <3>3. CASE i # pos
      <4>1. x \in clean_up_kv(m.keys[i], m.values[i])
        BY <1>1, <1>2, <3>1, <3>3
      <4> QED BY <1>2, <1>5, <3>3, <4>1, NodesOfIs
    <3> QED BY <3>2, <3>3
  <2>2. ASSUME x \in NodesOf(m), x \notin old
        PROVE  x \in NodesOf(r)
    <3>1. PICK i \in Used(m) : x \in clean_up_kv(m.keys[i], m.values[i])
      BY <2>2, NodesOfIs
    <3>2. i # pos
      BY <2>2, <3>1
    <3>3. x \in clean_up_kv(r.keys[i], r.values[i])
      BY <1>1, <3>1, <3>2
    <3> QED BY <1>2, <3>3, NodesOfIs
  <2>3. ASSUME x \in clean_up_kv(k, v)
        PROVE  x \in NodesOf(r)
    BY <1>1, <1>2, <2>3, NodesOfIs
  <2> QED BY <2>1, <2>2, <2>3
<1>8. \A x \in old : x \in NodesOf(m)
  BY <1>2, NodesOfIs
<1>9. h2 \ NodesOf(r) = h \ NodesOf(m)
  <2>1. \A x : x \in NodesOf(m) => x \in h
    BY NodesOfIs DEF Owns
  <2> QED BY <1>4, <1>7, <1>8, <2>1
<1> QED BY <1>1, <1>6, <1>9

LEMMA RemoveOwns ==
  ASSUME NEW K, NEW m, Map(m, K, ValueNode), NEW h, Owns(m, h), NEW pos \in Used(m),
         NEW r, r = RemoveAt(m, pos),
         NEW old, old = clean_up_kv(m.keys[pos], m.values[pos])
  PROVE  /\ Map(r, K, ValueNode) /\ Owns(r, h \ old)
         /\ (h \ old) \ NodesOf(r) = h \ NodesOf(m)
<1>1. Map(r, K, ValueNode)
  BY RemoveMap
<1>2. /\ \A i \in Used(r) : \E j \in Used(m) \ {pos} :
           r.keys[i] = m.keys[j] /\ r.values[i] = m.values[j]
      /\ \A j \in Used(m) \ {pos} : \E i \in Used(r) :
           r.keys[i] = m.keys[j] /\ r.values[i] = m.values[j]
  BY RemoveEntries
<1>3. \A i \in Used(m) \ {pos} : clean_up_kv(m.keys[i], m.values[i]) \cap old = {}
  <2> SUFFICES ASSUME NEW i \in Used(m) \ {pos},
                      NEW x \in clean_up_kv(m.keys[i], m.values[i]), x \in old
               PROVE  FALSE
    OBVIOUS
  <2>1. m.keys[i].id = m.values[i].id /\ m.keys[pos].id = m.values[pos].id
    BY DEF Owns
  <2>2. m.keys[i].id = m.keys[pos].id
    BY <2>1, Unshared
  <2> QED BY <2>2 DEF Owns
<1>4. Owns(r, h \ old)
  <2>1. ASSUME NEW i \in Used(r)
        PROVE  /\ clean_up_kv(r.keys[i], r.values[i]) \subseteq h \ old
               /\ r.keys[i].id = r.values[i].id
    <3>1. PICK j \in Used(m) \ {pos} : r.keys[i] = m.keys[j] /\ r.values[i] = m.values[j]
      BY <1>2
    <3>2. clean_up_kv(m.keys[j], m.values[j]) \subseteq h
      BY DEF Owns
    <3>3. clean_up_kv(m.keys[j], m.values[j]) \cap old = {}
      BY <1>3
    <3>4. clean_up_kv(r.keys[i], r.values[i]) \subseteq h \ old
      BY <3>1, <3>2, <3>3
    <3> QED BY <3>1, <3>4 DEF Owns
  <2>2. ASSUME NEW i \in Used(r), NEW j \in Used(r), r.keys[i].id = r.keys[j].id
        PROVE  i = j
    <3>1. PICK a \in Used(m) \ {pos} : r.keys[i] = m.keys[a]
      BY <1>2
    <3>2. PICK b \in Used(m) \ {pos} : r.keys[j] = m.keys[b]
      BY <1>2
    <3>3. a = b
      BY <2>2, <3>1, <3>2 DEF Owns
    <3>4. r.keys[i].name = r.keys[j].name
      BY <3>1, <3>2, <3>3
    <3> QED BY <1>1, <3>4 DEF Map
  <2> QED BY <2>1, <2>2 DEF Owns
<1>5. \A x : x \in NodesOf(r) <=> x \in NodesOf(m) /\ x \notin old
  <2> TAKE x
  <2>1. ASSUME x \in NodesOf(r)
        PROVE  x \in NodesOf(m) /\ x \notin old
    <3>1. PICK i \in Used(r) : x \in clean_up_kv(r.keys[i], r.values[i])
      BY <2>1, NodesOfIs
    <3>2. PICK j \in Used(m) \ {pos} : r.keys[i] = m.keys[j] /\ r.values[i] = m.values[j]
      BY <1>2
    <3>3. x \in clean_up_kv(m.keys[j], m.values[j])
      BY <3>1, <3>2
    <3> QED BY <1>3, <3>3, NodesOfIs
  <2>2. ASSUME x \in NodesOf(m), x \notin old
        PROVE  x \in NodesOf(r)
    <3>1. PICK j \in Used(m) : x \in clean_up_kv(m.keys[j], m.values[j])
      BY <2>2, NodesOfIs
    <3>2. PICK i \in Used(r) : r.keys[i] = m.keys[j] /\ r.values[i] = m.values[j]
      BY <1>2, <2>2, <3>1
    <3>3. x \in clean_up_kv(r.keys[i], r.values[i])
      BY <3>1, <3>2
    <3> QED BY <3>3, NodesOfIs
  <2> QED BY <2>1, <2>2
<1>6. \A x \in old : x \in NodesOf(m)
  BY NodesOfIs
<1> QED BY <1>1, <1>4, <1>5, <1>6

-----------------------------------------------------------------------------
(* What the functions behind execute_set_cmd do with the pair they are     *)
(* given.                                                                  *)

\* The pair went into a new entry, or changed places with an old one that was
\* then freed.
Stored(r, k, v) ==
  \/ Absent(sm, k) /\ r.sm = PushGrown(sm, k, v) /\ r.freed = {}
  \/ \E pos : /\ At(sm, k, pos) /\ r.sm = upgrade(sm, pos, k, v)
              /\ r.freed = clean_up_kv(sm.keys[pos], sm.values[pos])

\* The pair was freed.
Dropped(r, k, v) == r.sm = sm /\ r.freed = clean_up_kv(k, v)

\* The pair was forgotten.
Forgotten(r) == r.sm = sm /\ r.freed = {}

\* What get returns for a name that is there.
LEMMA FoundIs ==
  ASSUME NEW K, Map(sm, K, ValueNode), NULL \notin K, NULL \notin [key : K, value : ValueNode],
         NEW key, NEW pos, At(sm, key, pos)
  PROVE  /\ get(sm, key) = [key |-> sm.keys[pos], value |-> sm.values[pos]]
         /\ get(sm, key) # NULL /\ ValueOf(get(sm, key)) = sm.values[pos].val
<1>1. PICK pair : pair = [key |-> sm.keys[pos], value |-> sm.values[pos]]
  OBVIOUS
<1>2. get(sm, key) = pair
  BY <1>1, GetIs
<1>3. pair \in [key : K, value : ValueNode]
  BY <1>1 DEF Map, At
<1>4. pair # NULL /\ pair.value = sm.values[pos]
  BY <1>1, <1>3
<1> QED BY <1>1, <1>2, <1>4 DEF ValueOf

\* execute_set_basic and execute_set_get differ in the reply only.
LEMMA BasicIs ==
  ASSUME NEW key, NEW value, NEW mem, NEW r, r = set(sm, key, value, mem)
  PROVE  /\ r.rtn = ERROR_SET_SM_RTN =>
              /\ execute_set_basic(key, value, mem)
                   = Outcome(r.sm, clean_up_kv(r.key, r.value), "empty")
              /\ execute_set_get(key, value, mem)
                   = Outcome(r.sm, clean_up_kv(r.key, r.value), "error")
         /\ r.rtn = SUCESS_SET =>
              /\ execute_set_basic(key, value, mem) = Outcome(r.sm, {}, "OK")
              /\ execute_set_get(key, value, mem) = Outcome(r.sm, {}, "nil")
         /\ r.rtn = SUCESS_UPGRADE =>
              /\ execute_set_basic(key, value, mem)
                   = Outcome(r.sm, clean_up_kv(r.key, r.value), "OK")
              /\ execute_set_get(key, value, mem)
                   = Outcome(r.sm, clean_up_kv(r.key, r.value), r.value.val)
<1>1. CASE r.rtn = ERROR_SET_SM_RTN
  <2>1. r.rtn # SUCESS_SET /\ r.rtn # SUCESS_UPGRADE
    BY <1>1, CodesDiffer
  <2>2. execute_set_basic(key, value, mem) = Outcome(r.sm, clean_up_kv(r.key, r.value), "empty")
    BY <1>1, <2>1, Zenon DEF execute_set_basic
  <2>3. execute_set_get(key, value, mem) = Outcome(r.sm, clean_up_kv(r.key, r.value), "error")
    BY <1>1, <2>1, Zenon DEF execute_set_get
  <2> QED BY <2>1, <2>2, <2>3
<1>2. CASE r.rtn = SUCESS_SET
  <2>1. r.rtn # ERROR_SET_SM_RTN /\ r.rtn # SUCESS_UPGRADE
    BY <1>2, CodesDiffer
  <2>2. execute_set_basic(key, value, mem) = Outcome(r.sm, {}, "OK")
    BY <1>2, <2>1, Zenon DEF execute_set_basic
  <2>3. execute_set_get(key, value, mem) = Outcome(r.sm, {}, "nil")
    BY <1>2, <2>1, Zenon DEF execute_set_get
  <2> QED BY <2>1, <2>2, <2>3
<1>3. CASE r.rtn = SUCESS_UPGRADE
  <2>1. r.rtn # ERROR_SET_SM_RTN /\ r.rtn # SUCESS_SET
    BY <1>3, CodesDiffer
  <2>2. execute_set_basic(key, value, mem) = Outcome(r.sm, clean_up_kv(r.key, r.value), "OK")
    BY <1>3, <2>1, Zenon DEF execute_set_basic
  <2>3. execute_set_get(key, value, mem)
          = Outcome(r.sm, clean_up_kv(r.key, r.value), r.value.val)
    BY <1>3, <2>1, Zenon DEF execute_set_get
  <2> QED BY <2>1, <2>2, <2>3
<1> QED BY <1>1, <1>2, <1>3

LEMMA BasicSettles ==
  ASSUME NEW K, Map(sm, K, ValueNode), NULL \notin K, NULL \notin [key : K, value : ValueNode],
         NEW key, NEW value, NEW mem \in Memory,
         NEW b, b = execute_set_basic(key, value, mem),
         NEW g, g = execute_set_get(key, value, mem)
  PROVE  /\ \/ Stored(b, key, value) /\ b.reply = "OK"
            \/ Absent(sm, key) /\ Dropped(b, key, value) /\ b.reply = "empty"
         /\ \/ Stored(g, key, value) /\ g.reply = ValueOf(get(sm, key))
            \/ Absent(sm, key) /\ Dropped(g, key, value) /\ g.reply = "error"
<1>1. PICK r : r = set(sm, key, value, mem)
  OBVIOUS
<1>2. CASE Absent(sm, key) /\ ~ CanPush(sm, mem)
  <2>1. r = [sm |-> sm, rtn |-> ERROR_SET_SM_RTN, key |-> key, value |-> value]
    BY <1>1, <1>2, SetIs
  <2>2. r.rtn = ERROR_SET_SM_RTN /\ r.sm = sm /\ r.key = key /\ r.value = value
    BY <2>1
  <2>3. /\ b = Outcome(sm, clean_up_kv(key, value), "empty")
        /\ g = Outcome(sm, clean_up_kv(key, value), "error")
    BY <1>1, <2>2, BasicIs
  <2> QED BY <1>2, <2>3 DEF Dropped, Outcome
<1>3. CASE Absent(sm, key) /\ CanPush(sm, mem)
  <2>1. r = [sm |-> PushGrown(sm, key, value), rtn |-> SUCESS_SET, key |-> key, value |-> value]
    BY <1>1, <1>3, SetIs
  <2>2. r.rtn = SUCESS_SET /\ r.sm = PushGrown(sm, key, value)
    BY <2>1
  <2>3. b = Outcome(r.sm, {}, "OK") /\ g = Outcome(r.sm, {}, "nil")
    BY <1>1, <2>2, BasicIs
  <2>4. ValueOf(get(sm, key)) = "nil"
    BY <1>3, GetIs DEF ValueOf
  <2> QED BY <1>3, <2>2, <2>3, <2>4 DEF Stored, Outcome
<1>4. ASSUME NEW pos, At(sm, key, pos)
      PROVE  /\ Stored(b, key, value) /\ b.reply = "OK"
             /\ Stored(g, key, value) /\ g.reply = ValueOf(get(sm, key))
  <2>1. r = [sm |-> upgrade(sm, pos, key, value), rtn |-> SUCESS_UPGRADE,
             key |-> sm.keys[pos], value |-> sm.values[pos]]
    BY <1>1, <1>4, SetIs
  <2>2. /\ r.rtn = SUCESS_UPGRADE /\ r.sm = upgrade(sm, pos, key, value)
        /\ r.key = sm.keys[pos] /\ r.value = sm.values[pos]
    BY <2>1
  <2>3. /\ b = Outcome(r.sm, clean_up_kv(r.key, r.value), "OK")
        /\ g = Outcome(r.sm, clean_up_kv(r.key, r.value), r.value.val)
    BY <1>1, <2>2, BasicIs
  <2>4. ValueOf(get(sm, key)) = sm.values[pos].val
    BY <1>4, FoundIs
  <2> QED BY <1>4, <2>2, <2>3, <2>4 DEF Stored, Outcome
<1> QED BY <1>2, <1>3, <1>4, AbsentOrAt

\* execute_set_nx_xx, where it does not store a new name.
LEMMA NxXxIs ==
  ASSUME NEW key, NEW value, NEW option, NEW mem,
         NEW old, old = get(sm, key), NEW r, r = set(sm, key, value, mem)
  PROVE  /\ option = "XX" /\ old # NULL /\ r.rtn = SUCESS_UPGRADE =>
              execute_set_nx_xx(key, value, option, mem)
                = Outcome(r.sm, clean_up_kv(r.key, r.value), "OK")
         /\ ~ (option = "NX" /\ old = NULL) /\ ~ (option = "XX" /\ old # NULL) =>
              execute_set_nx_xx(key, value, option, mem)
                = Outcome(sm, clean_up_kv(key, value), "nil")
<1>1. ASSUME option = "XX", old # NULL, r.rtn = SUCESS_UPGRADE
      PROVE  execute_set_nx_xx(key, value, option, mem)
               = Outcome(r.sm, clean_up_kv(r.key, r.value), "OK")
  BY <1>1, Zenon DEF execute_set_nx_xx
<1>2. ASSUME ~ (option = "NX" /\ old = NULL), ~ (option = "XX" /\ old # NULL)
      PROVE  execute_set_nx_xx(key, value, option, mem)
               = Outcome(sm, clean_up_kv(key, value), "nil")
  BY <1>2, Zenon DEF execute_set_nx_xx
<1> QED BY <1>1, <1>2

\* NX forgets the pair when set finds no memory for it.
LEMMA NxXxSettles ==
  ASSUME NEW K, Map(sm, K, ValueNode), NULL \notin K, NULL \notin [key : K, value : ValueNode],
         NEW key, NEW value, NEW option, NEW mem \in Memory, NEW old, old = get(sm, key),
         NEW out, out = execute_set_nx_xx(key, value, option, mem)
  PROVE  /\ out = Outcome(out.sm, out.freed, out.reply)
         /\ old = NULL <=> Absent(sm, key)
         /\ \/ /\ (option = "NX" /\ old = NULL) \/ (option = "XX" /\ old # NULL)
               /\ Stored(out, key, value) /\ out.reply = "OK"
            \/ /\ ~ (option = "NX" /\ old = NULL) /\ ~ (option = "XX" /\ old # NULL)
               /\ Dropped(out, key, value) /\ out.reply = "nil"
            \/ /\ option = "NX" /\ old = NULL /\ is_full(sm)
               /\ Forgotten(out) /\ out.reply = "nil"
<1>1. PICK r : r = set(sm, key, value, mem)
  OBVIOUS
<1>2. old = NULL <=> Absent(sm, key)
  BY GetIs, FoundIs, AbsentOrAt
<1>3. CASE ~ (option = "NX" /\ old = NULL) /\ ~ (option = "XX" /\ old # NULL)
  <2>1. out = Outcome(sm, clean_up_kv(key, value), "nil")
    BY <1>1, <1>3, NxXxIs
  <2> QED BY <1>2, <1>3, <2>1 DEF Dropped, Outcome
<1>4. CASE option = "NX" /\ old = NULL /\ ~ CanPush(sm, mem)
  <2>1. r = [sm |-> sm, rtn |-> ERROR_SET_SM_RTN, key |-> key, value |-> value]
    BY <1>1, <1>2, <1>4, SetIs
  <2>2. r.rtn # SUCESS_SET /\ r.sm = sm
    BY <2>1, CodesDiffer
  <2>3. out = Outcome(r.sm, {}, "nil")
    BY <1>1, <1>4, <2>2, Zenon DEF execute_set_nx_xx
  <2> QED BY <1>2, <1>4, <2>2, <2>3 DEF Forgotten, Outcome, CanPush
<1>5. CASE option = "NX" /\ old = NULL /\ CanPush(sm, mem)
  <2>1. r = [sm |-> PushGrown(sm, key, value), rtn |-> SUCESS_SET, key |-> key, value |-> value]
    BY <1>1, <1>2, <1>5, SetIs
  <2>2. r.rtn = SUCESS_SET /\ r.sm = PushGrown(sm, key, value)
    BY <2>1
  <2>3. out = Outcome(r.sm, {}, "OK")
    BY <1>1, <1>5, <2>2, Zenon DEF execute_set_nx_xx
  <2> QED BY <1>2, <1>5, <2>2, <2>3 DEF Stored, Outcome
<1>6. CASE option = "XX" /\ old # NULL
  <2>1. PICK pos : At(sm, key, pos)
    BY <1>2, <1>6, AbsentOrAt
  <2>2. r = [sm |-> upgrade(sm, pos, key, value), rtn |-> SUCESS_UPGRADE,
             key |-> sm.keys[pos], value |-> sm.values[pos]]
    BY <1>1, <2>1, SetIs
  <2>3. /\ r.rtn = SUCESS_UPGRADE /\ r.sm = upgrade(sm, pos, key, value)
        /\ r.key = sm.keys[pos] /\ r.value = sm.values[pos]
    BY <2>2
  <2>4. out = Outcome(r.sm, clean_up_kv(r.key, r.value), "OK")
    BY <1>1, <1>6, <2>3, NxXxIs
  <2>5. Stored(out, key, value) /\ out.reply = "OK"
    BY <2>1, <2>3, <2>4 DEF Stored, Outcome
  <2> QED BY <1>2, <1>6, <2>4, <2>5 DEF Outcome
<1> QED BY <1>3, <1>4, <1>5, <1>6

LEMMA StatesDiffer ==
  /\ SET_BASIC # SET_GET /\ SET_BASIC # SET_NXXX /\ SET_BASIC # SET_NXXX_GET
  /\ SET_BASIC # SET_EX_PX_EXAL_PXAT /\ SET_GET # SET_NXXX /\ SET_GET # SET_NXXX_GET
  /\ SET_GET # SET_EX_PX_EXAL_PXAT /\ SET_NXXX # SET_NXXX_GET
  /\ SET_NXXX # SET_EX_PX_EXAL_PXAT /\ SET_NXXX_GET # SET_EX_PX_EXAL_PXAT
<1>1. /\ 3 \notin SET_BASIC /\ 2 \notin SET_BASIC /\ 1 \notin SET_BASIC
      /\ 3 \notin SET_GET /\ 2 \in SET_GET /\ 1 \notin SET_GET
      /\ 3 \in SET_NXXX /\ 2 \notin SET_NXXX /\ 1 \notin SET_NXXX
      /\ 3 \in SET_NXXX_GET /\ 2 \in SET_NXXX_GET /\ 1 \notin SET_NXXX_GET
      /\ 1 \in SET_EX_PX_EXAL_PXAT
  BY DEF SET_BASIC, SET_GET, SET_NXXX, SET_NXXX_GET, SET_EX_PX_EXAL_PXAT
<1> QED BY <1>1

\* The state tells which options a command has.
LEMMA StateIs ==
  ASSUME NEW cmd \in Command
  PROVE  /\ cmd.nxxx = NULL /\ ~ cmd.get /\ cmd.opt = NULL => StateOf(cmd) = SET_BASIC
         /\ cmd.nxxx = NULL /\ cmd.get /\ cmd.opt = NULL => StateOf(cmd) = SET_GET
         /\ cmd.nxxx # NULL /\ ~ cmd.get /\ cmd.opt = NULL => StateOf(cmd) = SET_NXXX
         /\ cmd.nxxx # NULL /\ cmd.get /\ cmd.opt = NULL => StateOf(cmd) = SET_NXXX_GET
         /\ cmd.nxxx = NULL /\ ~ cmd.get /\ cmd.opt # NULL =>
              StateOf(cmd) = SET_EX_PX_EXAL_PXAT
         /\ ~ Keys!Implemented(cmd) =>
              StateOf(cmd) \notin {SET_BASIC, SET_GET, SET_NXXX, SET_NXXX_GET,
                                  SET_EX_PX_EXAL_PXAT}
<1>1. cmd.get \in BOOLEAN
  BY DEF Command
<1>2. PICK N, G, O :
        /\ N = IF cmd.nxxx # NULL THEN {3} ELSE {}
        /\ G = IF cmd.get THEN {2} ELSE {}
        /\ O = IF cmd.opt # NULL THEN {1, 0} ELSE {}
  OBVIOUS
<1>3. StateOf(cmd) = SET_BASIC \cup N \cup G \cup O
  BY <1>2 DEF StateOf
<1>5. cmd.nxxx = NULL /\ ~ cmd.get /\ cmd.opt = NULL => StateOf(cmd) = SET_BASIC
  BY <1>3, <1>2
<1>6. cmd.nxxx = NULL /\ cmd.get /\ cmd.opt = NULL => StateOf(cmd) = SET_GET
  BY <1>3, <1>2 DEF SET_GET
<1>7. cmd.nxxx # NULL /\ ~ cmd.get /\ cmd.opt = NULL => StateOf(cmd) = SET_NXXX
  BY <1>3, <1>2 DEF SET_NXXX
<1>8. cmd.nxxx # NULL /\ cmd.get /\ cmd.opt = NULL => StateOf(cmd) = SET_NXXX_GET
  BY <1>3, <1>2 DEF SET_NXXX_GET
<1>9. cmd.nxxx = NULL /\ ~ cmd.get /\ cmd.opt # NULL => StateOf(cmd) = SET_EX_PX_EXAL_PXAT
  BY <1>3, <1>2 DEF SET_EX_PX_EXAL_PXAT
<1>10. ASSUME ~ Keys!Implemented(cmd)
       PROVE  StateOf(cmd) \notin {SET_BASIC, SET_GET, SET_NXXX, SET_NXXX_GET,
                                  SET_EX_PX_EXAL_PXAT}
  <2>1. cmd.opt # NULL /\ (cmd.nxxx # NULL \/ cmd.get)
    BY <1>10 DEF Keys!Implemented
  <2>2. 1 \in StateOf(cmd) /\ (3 \in StateOf(cmd) \/ 2 \in StateOf(cmd))
    BY <1>2, <1>3, <2>1
  <2>3. /\ 1 \notin SET_BASIC /\ 1 \notin SET_GET /\ 1 \notin SET_NXXX
        /\ 1 \notin SET_NXXX_GET
        /\ 3 \notin SET_EX_PX_EXAL_PXAT /\ 2 \notin SET_EX_PX_EXAL_PXAT
    BY DEF SET_BASIC, SET_GET, SET_NXXX, SET_NXXX_GET, SET_EX_PX_EXAL_PXAT
  <2> QED BY <2>2, <2>3
<1> QED BY <1>5, <1>6, <1>7, <1>8, <1>9, <1>10

\* execute_set_cmd: the states with options.
LEMMA CmdIs ==
  ASSUME NEW cmd, NEW key, NEW value, NEW mem, NEW state, state = StateOf(cmd)
  PROVE  /\ state = SET_NXXX =>
              execute_set_cmd(cmd, key, value, mem)
                = execute_set_nx_xx(key, value, cmd.nxxx, mem)
         /\ state = SET_NXXX_GET =>
              execute_set_cmd(cmd, key, value, mem)
                = execute_set_nxxx_get(key, value, cmd.nxxx, mem)
         /\ state = SET_EX_PX_EXAL_PXAT =>
              execute_set_cmd(cmd, key, value, mem)
                = execute_set_ex_px_exat_pxat(key, value, cmd.opt, cmd.time, mem)
         /\ state \notin {SET_BASIC, SET_GET, SET_NXXX, SET_NXXX_GET, SET_EX_PX_EXAL_PXAT} =>
              execute_set_cmd(cmd, key, value, mem) = Outcome(sm, {}, "error")
<1>1. ASSUME state = SET_NXXX
      PROVE  execute_set_cmd(cmd, key, value, mem)
               = execute_set_nx_xx(key, value, cmd.nxxx, mem)
  BY <1>1, StatesDiffer, Zenon DEF execute_set_cmd
<1>2. ASSUME state = SET_NXXX_GET
      PROVE  execute_set_cmd(cmd, key, value, mem)
               = execute_set_nxxx_get(key, value, cmd.nxxx, mem)
  BY <1>2, StatesDiffer, Zenon DEF execute_set_cmd
<1>3. ASSUME state = SET_EX_PX_EXAL_PXAT
      PROVE  execute_set_cmd(cmd, key, value, mem)
               = execute_set_ex_px_exat_pxat(key, value, cmd.opt, cmd.time, mem)
  BY <1>3, StatesDiffer, Zenon DEF execute_set_cmd
<1>4. ASSUME state \notin {SET_BASIC, SET_GET, SET_NXXX, SET_NXXX_GET, SET_EX_PX_EXAL_PXAT}
      PROVE  execute_set_cmd(cmd, key, value, mem) = Outcome(sm, {}, "error")
  BY <1>4, Zenon DEF execute_set_cmd
<1> QED BY <1>1, <1>2, <1>3, <1>4

\* How long the key that a command makes lives, and when it dies.
Span(cmd) ==
  CASE cmd.opt \in {"EX", "EXAT"} -> (cmd.time % UintSize) * TicksPerSec * Kilo
    [] cmd.opt \in {"PX", "PXAT"} -> (cmd.time % UintSize) * TicksPerSec
    [] OTHER                      -> 0
Death(cmd) == IF Span(cmd) = 0 THEN 0 ELSE now * Kilo + Span(cmd)

\* The nodes a SET makes, with and without an expiry.
LEMMA NewNodes ==
  ASSUME now \in Nat, NEW cmd \in Command, NEW id \in Id,
         NEW key, key = create_key_node(cmd.name, id),
         NEW value, value = create_value_node(cmd.val, id),
         NEW k, k = IF cmd.opt = NULL THEN key ELSE WithExpiry(key, cmd.opt, cmd.time)
  PROVE  /\ value \in ValueNode /\ value.id = id /\ value.val = cmd.val
         /\ k \in Aged(now) /\ k.id = id /\ k.name = cmd.name /\ k.name = key.name
         /\ Dies(k) = Death(cmd) /\ Span(cmd) \in Nat
<1>1. cmd.name \in Name /\ cmd.val \in Value
  BY DEF Command
<1>2. key = [name |-> cmd.name, ex |-> 0, px |-> 0, time |-> now, id |-> id]
  BY DEF create_key_node
<1>3. value \in ValueNode /\ value.id = id /\ value.val = cmd.val
  BY <1>1 DEF ValueNode, create_value_node
<1>4. UintSize \in Nat \ {0} /\ Kilo \in Nat \ {0} /\ TicksPerSec \in Nat \ {0}
  BY NumeralAssumption, ClockAssumption
<1>5. CASE cmd.opt = NULL
  <2>1. k = key
    BY <1>5
  <2>2. k \in Aged(now) /\ k.id = id /\ k.name = cmd.name /\ k.ex = 0 /\ k.px = 0
    BY <1>1, <1>2, <1>4, <2>1 DEF Aged, KeyNode
  <2>3. Dies(k) = 0
    BY <2>2, Zenon DEF Dies
  <2>4. Span(cmd) = 0
    <3>1. cmd.opt \notin {"EX", "EXAT"} /\ cmd.opt \notin {"PX", "PXAT"}
      BY <1>5, NameAssumption
    <3> QED BY <3>1, Zenon DEF Span
  <2> QED BY <1>2, <1>3, <2>2, <2>3, <2>4 DEF Death
<1>6. CASE cmd.opt # NULL
  <2>1. cmd.time \in Nat /\ cmd.opt \in {"EX", "PX", "EXAT", "PXAT"}
    BY <1>6, NumeralAssumption DEF Command
  <2>2. PICK n \in Nat : n = cmd.time % UintSize /\ n < UintSize
    BY <1>4, <2>1
  <2>3. PICK t \in Nat : t = n * TicksPerSec /\ (t = 0 <=> n = 0)
    BY <1>4
  <2>4. PICK m \in Nat : m = t * Kilo /\ (m = 0 <=> t = 0)
    BY <1>4
  <2>5. k = WithExpiry(key, cmd.opt, cmd.time)
    BY <1>6
  <2>6. CASE cmd.opt \in {"EX", "EXAT"}
    <3>1. k = [name |-> cmd.name, ex |-> n, px |-> 0, time |-> now, id |-> id]
      BY <1>2, <2>2, <2>5, <2>6 DEF WithExpiry, string_to_uint
    <3>2. /\ k \in Aged(now) /\ k.id = id /\ k.name = cmd.name
          /\ k.ex = n /\ k.px = 0 /\ k.time = now
      BY <1>1, <1>4, <2>2, <3>1 DEF Aged, KeyNode
    <3>3. Span(cmd) = m
      <4>1. Span(cmd) = (cmd.time % UintSize) * TicksPerSec * Kilo
        BY <2>6 DEF Span
      <4> QED BY <2>2, <2>3, <2>4, <4>1
    <3>4. CASE n = 0
      <4>1. Dies(k) = 0
        BY <3>2, <3>4, Zenon DEF Dies
      <4> QED BY <1>2, <1>3, <2>3, <2>4, <3>2, <3>3, <3>4, <4>1 DEF Death
    <3>5. CASE n # 0
      <4>1. Dies(k) = (k.time + k.ex * TicksPerSec) * Kilo
        BY <3>2, <3>5, Zenon DEF Dies
      <4>2. Dies(k) = (now + t) * Kilo
        BY <2>3, <3>2, <4>1
      <4>3. Dies(k) = now * Kilo + m
        BY <1>4, <2>4, <4>2
      <4> QED BY <1>2, <1>3, <2>3, <2>4, <3>2, <3>3, <3>5, <4>3 DEF Death
    <3> QED BY <3>4, <3>5
  <2>7. CASE cmd.opt \in {"PX", "PXAT"}
    <3>1. k = [name |-> cmd.name, ex |-> 0, px |-> n, time |-> now, id |-> id]
      BY <1>2, <2>2, <2>5, <2>7 DEF WithExpiry, string_to_uint
    <3>2. /\ k \in Aged(now) /\ k.id = id /\ k.name = cmd.name
          /\ k.ex = 0 /\ k.px = n /\ k.time = now
      BY <1>1, <1>4, <2>2, <3>1 DEF Aged, KeyNode
    <3>3. Span(cmd) = t
      <4>1. cmd.opt \notin {"EX", "EXAT"}
        BY <2>7
      <4>2. Span(cmd) = (cmd.time % UintSize) * TicksPerSec
        BY <2>7, <4>1, Zenon DEF Span
      <4> QED BY <2>2, <2>3, <4>2
    <3>4. CASE n = 0
      <4>1. Dies(k) = 0
        BY <3>2, <3>4, Zenon DEF Dies
      <4> QED BY <1>2, <1>3, <2>3, <3>2, <3>3, <3>4, <4>1 DEF Death
    <3>5. CASE n # 0
      <4>1. Dies(k) = k.time * Kilo + k.px * TicksPerSec
        BY <3>2, <3>5, Zenon DEF Dies
      <4>2. Dies(k) = now * Kilo + t
        BY <2>3, <3>2, <4>1
      <4> QED BY <1>2, <1>3, <2>3, <3>2, <3>3, <3>5, <4>2 DEF Death
    <3> QED BY <3>4, <3>5
  <2> QED BY <2>1, <2>6, <2>7
<1> QED BY <1>5, <1>6

\* The condition of the command, on the pair that get returned.
Permits(cmd, old) ==
  /\ cmd.nxxx = "NX" => old = NULL
  /\ cmd.nxxx = "XX" => old # NULL

\* What a command does and replies.  A pair is forgotten in two cases only.
Effect(cmd, old, out, k, value) ==
  \/ /\ Keys!Implemented(cmd) /\ Permits(cmd, old) /\ Stored(out, k, value)
     /\ out.reply = IF cmd.get THEN ValueOf(old) ELSE "OK"
  \/ /\ Keys!Implemented(cmd) /\ ~ Permits(cmd, old) /\ Dropped(out, k, value)
     /\ out.reply = IF cmd.get THEN ValueOf(old) ELSE "nil"
  \/ /\ Keys!Implemented(cmd) /\ cmd.nxxx = NULL /\ old = NULL /\ Dropped(out, k, value)
     /\ out.reply = IF cmd.get THEN "error" ELSE "empty"
  \/ /\ Keys!Implemented(cmd) /\ cmd.nxxx = "NX" /\ old = NULL /\ is_full(sm)
     /\ Forgotten(out) /\ out.reply = "nil"
  \/ ~ Keys!Implemented(cmd) /\ Forgotten(out) /\ out.reply = "error"

LEMMA CmdSettles ==
  ASSUME Map(sm, Aged(now), ValueNode), now \in Nat,
         NEW cmd \in Command, NEW id \in Id, NEW mem \in Memory,
         NEW key, key = create_key_node(cmd.name, id),
         NEW value, value = create_value_node(cmd.val, id),
         NEW out, out = execute_set_cmd(cmd, key, value, mem),
         NEW old, old = get(sm, key)
  PROVE  \E k \in Aged(now) :
           /\ k.id = id /\ k.name = cmd.name /\ Dies(k) = Death(cmd)
           /\ Effect(cmd, old, out, k, value)
<1>1. PICK k : k = IF cmd.opt = NULL THEN key ELSE WithExpiry(key, cmd.opt, cmd.time)
  OBVIOUS
<1>2. k \in Aged(now) /\ k.id = id /\ k.name = cmd.name /\ Dies(k) = Death(cmd)
  BY <1>1, NewNodes
<1>3. NULL \notin Aged(now) /\ NULL \notin [key : Aged(now), value : ValueNode]
  BY AgedIs
<1>4. /\ cmd.nxxx \in {NULL, "NX", "XX"} /\ cmd.get \in BOOLEAN
      /\ NULL # "NX" /\ NULL # "XX"
  BY NameAssumption DEF Command
<1>5. CASE cmd.opt = NULL /\ cmd.nxxx = NULL
  <2>1. k = key /\ Keys!Implemented(cmd) /\ Permits(cmd, old)
    BY <1>1, <1>4, <1>5 DEF Keys!Implemented, Permits
  <2>2. Absent(sm, key) => old = NULL
    BY <1>3, GetIs
  <2>3. CASE ~ cmd.get
    <3>1. out = execute_set_basic(key, value, mem)
      BY <1>5, <2>3, StateIs, StatesDiffer, Zenon DEF execute_set_cmd
    <3>2. \/ Stored(out, key, value) /\ out.reply = "OK"
          \/ Absent(sm, key) /\ Dropped(out, key, value) /\ out.reply = "empty"
      BY <1>3, <3>1, BasicSettles
    <3>3. Effect(cmd, old, out, k, value)
      BY <1>5, <2>1, <2>2, <2>3, <3>2, Zenon DEF Effect
    <3> QED BY <1>2, <3>3
  <2>4. CASE cmd.get
    <3>1. out = execute_set_get(key, value, mem)
      BY <1>5, <2>4, StateIs, StatesDiffer, Zenon DEF execute_set_cmd
    <3>2. \/ Stored(out, key, value) /\ out.reply = ValueOf(old)
          \/ Absent(sm, key) /\ Dropped(out, key, value) /\ out.reply = "error"
      BY <1>3, <3>1, BasicSettles
    <3>3. Effect(cmd, old, out, k, value)
      BY <1>5, <2>1, <2>2, <2>4, <3>2, Zenon DEF Effect
    <3> QED BY <1>2, <3>3
  <2> QED BY <1>4, <2>3, <2>4
<1>6. CASE cmd.opt = NULL /\ cmd.nxxx # NULL
  <2>1. k = key /\ Keys!Implemented(cmd) /\ cmd.nxxx \in {"NX", "XX"}
    BY <1>1, <1>4, <1>6 DEF Keys!Implemented
  <2>2. PICK opt : opt = cmd.nxxx
    OBVIOUS
  <2>3. PICK in : in = execute_set_nx_xx(key, value, opt, mem)
    OBVIOUS
  <2>4. /\ in = Outcome(in.sm, in.freed, in.reply)
        /\ \/ /\ (opt = "NX" /\ old = NULL) \/ (opt = "XX" /\ old # NULL)
              /\ Stored(in, key, value) /\ in.reply = "OK"
           \/ /\ ~ (opt = "NX" /\ old = NULL) /\ ~ (opt = "XX" /\ old # NULL)
              /\ Dropped(in, key, value) /\ in.reply = "nil"
           \/ opt = "NX" /\ old = NULL /\ is_full(sm) /\ Forgotten(in) /\ in.reply = "nil"
    BY <1>3, <2>3, NxXxSettles
  <2>5. Permits(cmd, old) <=> (opt = "NX" /\ old = NULL) \/ (opt = "XX" /\ old # NULL)
    BY <2>1, <2>2 DEF Permits
  <2>6. /\ out.sm = in.sm /\ out.freed = in.freed
        /\ out.reply = IF cmd.get THEN ValueOf(old) ELSE in.reply
    <3>1. CASE ~ cmd.get
      <4>1. out = in
        BY <1>6, <2>2, <2>3, <3>1, StateIs, CmdIs, Zenon
      <4> QED BY <3>1, <4>1
    <3>2. CASE cmd.get
      <4>1. out = execute_set_nxxx_get(key, value, opt, mem)
        BY <1>6, <2>2, <3>2, StateIs, CmdIs, Zenon
      <4>2. out = [in EXCEPT !.reply = ValueOf(old)]
        BY <2>3, <4>1 DEF execute_set_nxxx_get
      <4> QED BY <2>4, <3>2, <4>2 DEF Outcome
    <3> QED BY <1>4, <3>1, <3>2
  <2>7. /\ Stored(in, key, value) => Stored(out, k, value)
        /\ Dropped(in, key, value) => Dropped(out, k, value)
        /\ Forgotten(in) => Forgotten(out)
    BY <2>1, <2>6 DEF Stored, Dropped, Forgotten
  <2>8. old = NULL => ValueOf(old) = "nil"
    BY DEF ValueOf
  <2>9. CASE Permits(cmd, old) /\ Stored(in, key, value) /\ in.reply = "OK"
    <3>1. out.reply = IF cmd.get THEN ValueOf(old) ELSE "OK"
      BY <2>6, <2>9
    <3>2. Effect(cmd, old, out, k, value)
      BY <2>1, <2>7, <2>9, <3>1 DEF Effect
    <3> QED BY <1>2, <3>2
  <2>10. CASE ~ Permits(cmd, old) /\ Dropped(in, key, value) /\ in.reply = "nil"
    <3>1. out.reply = IF cmd.get THEN ValueOf(old) ELSE "nil"
      BY <2>6, <2>10
    <3>2. Effect(cmd, old, out, k, value)
      BY <2>1, <2>7, <2>10, <3>1 DEF Effect
    <3> QED BY <1>2, <3>2
  <2>11. CASE opt = "NX" /\ old = NULL /\ is_full(sm) /\ Forgotten(in) /\ in.reply = "nil"
    <3>1. out.reply = "nil"
      BY <2>6, <2>8, <2>11
    <3>2. Effect(cmd, old, out, k, value)
      BY <2>1, <2>2, <2>7, <2>11, <3>1 DEF Effect
    <3> QED BY <1>2, <3>2
  <2> QED BY <2>4, <2>5, <2>9, <2>10, <2>11
<1>7. CASE cmd.opt # NULL /\ Keys!Implemented(cmd)
  <2>1. cmd.nxxx = NULL /\ ~ cmd.get
    BY <1>7 DEF Keys!Implemented
  <2>2. Permits(cmd, old)
    BY <1>4, <2>1 DEF Permits
  <2>3. out = execute_set_ex_px_exat_pxat(key, value, cmd.opt, cmd.time, mem)
    BY <1>7, <2>1, StateIs, CmdIs, Zenon
  <2>4. out = execute_set_basic(k, value, mem)
    BY <1>1, <1>7, <2>3 DEF execute_set_ex_px_exat_pxat
  <2>5. \/ Stored(out, k, value) /\ out.reply = "OK"
        \/ Absent(sm, k) /\ Dropped(out, k, value) /\ out.reply = "empty"
    BY <1>3, <2>4, BasicSettles
  <2>6. Absent(sm, k) => old = NULL
    <3>1. k.name = key.name
      BY <1>1, NewNodes
    <3>2. Absent(sm, k) => Absent(sm, key)
      BY <3>1 DEF Absent
    <3> QED BY <1>3, <3>2, GetIs
  <2>7. Effect(cmd, old, out, k, value)
    BY <1>7, <2>1, <2>2, <2>5, <2>6, Zenon DEF Effect
  <2> QED BY <1>2, <2>7
<1>8. CASE ~ Keys!Implemented(cmd)
  <2>1. out = Outcome(sm, {}, "error")
    BY <1>8, StateIs, CmdIs, Zenon
  <2>2. Forgotten(out) /\ out.reply = "error"
    BY <2>1 DEF Forgotten, Outcome
  <2>3. Effect(cmd, old, out, k, value)
    BY <1>8, <2>2 DEF Effect
  <2> QED BY <1>2, <2>3
<1>9. cmd.opt = NULL => Keys!Implemented(cmd)
  BY DEF Keys!Implemented
<1> QED BY <1>5, <1>6, <1>7, <1>8, <1>9, Zenon

-----------------------------------------------------------------------------
(* The steps.  Each keeps Inv, and says what becomes of the leaked nodes.  *)

LEMMA LeakedIs ==
  /\ Leaked = heap \ NodesOf(sm)
  /\ Leaked' = heap' \ NodesOf(sm')
  BY DEF Leaked, Nodes, NodesOf

LEMMA SetStep ==
  ASSUME Inv, NEW cmd \in Command, NEW id \in Id, NEW mem \in Memory,
         HandleSet(cmd, id, mem)
  PROVE  Inv' /\ LeakStep
<1>1. PICK key, value, new, out :
        /\ key = create_key_node(cmd.name, id)
        /\ value = create_value_node(cmd.val, id)
        /\ new = {<<"key", id>>, <<"value", id>>}
        /\ out = execute_set_cmd(cmd, key, value, mem)
  OBVIOUS
<1>2. /\ new \cap heap = {} /\ sm' = out.sm /\ heap' = (heap \cup new) \ out.freed
      /\ reply' = out.reply /\ call' = cmd /\ now' = now
  BY <1>1 DEF HandleSet
<1>3. /\ Map(sm, Aged(now), ValueNode) /\ Owns(sm, heap) /\ now \in 0 .. MaxTime
      /\ now \in Nat /\ heap \subseteq {"key", "value"} \X Id
  BY ClockAssumption DEF Inv
<1>4. value \in ValueNode /\ value.id = id
  BY <1>1, <1>3, NewNodes
<1>5. now' \in 0 .. MaxTime /\ Aged(now') = Aged(now) /\ heap' \subseteq {"key", "value"} \X Id
  BY <1>1, <1>2, <1>3
<1>6. ASSUME NEW k \in Aged(now), k.id = id,
             Stored(out, k, value) \/ Dropped(out, k, value)
      PROVE  Inv' /\ LeakStep
  <2>1. clean_up_kv(k, value) = new /\ k.id = value.id
    BY <1>1, <1>4, <1>6 DEF clean_up_kv
  <2>2. clean_up_kv(k, value) \cap heap = {}
    BY <1>2, <2>1
  <2>3. CASE Absent(sm, k) /\ out.sm = PushGrown(sm, k, value) /\ out.freed = {}
    <3>1. sm' = PushGrown(sm, k, value) /\ heap' = heap \cup clean_up_kv(k, value)
      BY <1>2, <2>1, <2>3
    <3>2. /\ Map(sm', Aged(now), ValueNode) /\ Owns(sm', heap \cup clean_up_kv(k, value))
          /\ (heap \cup clean_up_kv(k, value)) \ NodesOf(sm') = heap \ NodesOf(sm)
      BY <1>3, <1>4, <2>1, <2>2, <2>3, <3>1, PushOwns
    <3>3. Inv'
      BY <1>5, <3>1, <3>2 DEF Inv
    <3>4. Leaked' = Leaked
      BY <3>1, <3>2, LeakedIs
    <3> QED BY <3>3, <3>4 DEF LeakStep
  <2>4. ASSUME NEW pos, At(sm, k, pos), out.sm = upgrade(sm, pos, k, value),
               out.freed = clean_up_kv(sm.keys[pos], sm.values[pos])
        PROVE  Inv' /\ LeakStep
    <3>1. PICK old : old = clean_up_kv(sm.keys[pos], sm.values[pos])
      OBVIOUS
    <3>2. sm' = upgrade(sm, pos, k, value) /\ heap' = (heap \cup clean_up_kv(k, value)) \ old
      BY <1>2, <2>1, <2>4, <3>1
    <3>3. /\ Map(sm', Aged(now), ValueNode) /\ Owns(sm', heap')
          /\ heap' \ NodesOf(sm') = heap \ NodesOf(sm)
      <4>1. PICK K, r, h2 :
              K = Aged(now) /\ r = upgrade(sm, pos, k, value)
              /\ h2 = (heap \cup clean_up_kv(k, value)) \ old
        OBVIOUS
      <4>2. Map(sm, K, ValueNode) /\ k \in K /\ Owns(sm, heap)
        BY <1>3, <4>1
      <4>3. At(sm, k, pos) /\ value \in ValueNode /\ k.id = value.id
        BY <1>4, <2>1, <2>4
      <4>4. /\ Map(r, K, ValueNode) /\ Owns(r, h2)
            /\ h2 \ NodesOf(r) = heap \ NodesOf(sm)
        BY <2>2, <3>1, <4>1, <4>2, <4>3, UpgradeOwns, SMTT(40)
      <4> QED BY <3>2, <4>1, <4>4
    <3>4. Inv'
      BY <1>5, <3>3 DEF Inv
    <3>5. Leaked' = Leaked
      BY <3>3, LeakedIs
    <3> QED BY <3>4, <3>5 DEF LeakStep
  <2>5. CASE Dropped(out, k, value)
    <3>1. sm' = sm /\ heap' = heap
      BY <1>2, <2>1, <2>5 DEF Dropped
    <3>2. Inv'
      BY <1>3, <1>5, <3>1 DEF Inv
    <3>3. Leaked' = Leaked
      BY <3>1, LeakedIs
    <3> QED BY <3>2, <3>3 DEF LeakStep
  <2> QED BY <1>6, <2>3, <2>4, <2>5 DEF Stored
<1>7. ASSUME Forgotten(out), out.reply \in {"nil", "error"},
             \/ ~ Keys!Implemented(cmd)
             \/ cmd.nxxx = "NX" /\ get(sm, key) = NULL /\ is_full(sm) /\ out.reply = "nil"
      PROVE  Inv' /\ LeakStep
  <2>1. sm' = sm /\ heap' = heap \cup new
    BY <1>2, <1>7 DEF Forgotten
  <2>2. Owns(sm, heap \cup new)
    BY <1>3 DEF Owns
  <2>3. Inv'
    BY <1>3, <1>5, <2>1, <2>2 DEF Inv
  <2>4. Leaked \subseteq Leaked'
    BY <2>1, LeakedIs
  <2>5. call' \in Command /\ reply' # "OK"
    BY <1>2, <1>7
  <2>6. \/ StateOf(call') \notin {SET_BASIC, SET_GET, SET_NXXX, SET_NXXX_GET,
                                  SET_EX_PX_EXAL_PXAT}
        \/ /\ call'.nxxx = "NX" /\ reply' = "nil" /\ sm' = sm
           /\ is_full(sm) /\ \A i \in Used(sm) : sm.keys[i].name # call'.name
    <3>1. get(sm, key) = NULL => Absent(sm, key)
      BY <1>3, AgedIs, FoundIs, AbsentOrAt
    <3>2. key.name = cmd.name
      BY <1>1 DEF create_key_node
    <3> QED BY <1>2, <1>7, <2>1, <3>1, <3>2, StateIs DEF Absent
  <2> QED BY <2>3, <2>4, <2>5, <2>6 DEF LeakStep
<1>8. PICK k \in Aged(now) : k.id = id /\ Effect(cmd, get(sm, key), out, k, value)
  BY <1>1, <1>3, CmdSettles
<1> QED BY <1>6, <1>7, <1>8 DEF Effect

LEMMA GetStep ==
  ASSUME Inv, NEW name \in Name, HandleGet(name)
  PROVE  Inv' /\ LeakStep
<1>1. PICK key, kvp, rmv :
        /\ key = create_key_node(name, NULL) /\ kvp = get(sm, key)
        /\ rmv = remove_key(sm, key)
  OBVIOUS
<1>2. /\ Map(sm, Aged(now), ValueNode) /\ Owns(sm, heap) /\ now \in 0 .. MaxTime
      /\ heap \subseteq {"key", "value"} \X Id
  BY DEF Inv
<1>3. NULL \notin Aged(now)
  BY AgedIs
<1>4. now' = now
  BY DEF HandleGet
<1>5. CASE kvp # NULL /\ has_key_expired(key.time, kvp.key)
  <2>1. /\ sm' = rmv.sm
        /\ heap' = IF rmv.rtn = "REMOVE_SUCCESS"
                   THEN heap \ clean_up_kv(rmv.pair.key, rmv.pair.value) ELSE heap
    BY <1>1, <1>5 DEF HandleGet
  <2>2. ~ Absent(sm, key)
    BY <1>1, <1>2, <1>3, <1>5, GetIs
  <2>3. PICK pos : At(sm, key, pos)
    BY <2>2, AbsentOrAt
  <2>4. rmv = [sm |-> RemoveAt(sm, pos), rtn |-> "REMOVE_SUCCESS",
               pair |-> [key |-> sm.keys[pos], value |-> sm.values[pos]]]
    BY <1>1, <1>2, <1>3, <2>3, RemoveIs
  <2>5. PICK old : old = clean_up_kv(sm.keys[pos], sm.values[pos])
    OBVIOUS
  <2>6. sm' = RemoveAt(sm, pos) /\ heap' = heap \ old
    BY <2>1, <2>4, <2>5
  <2>7. pos \in Used(sm)
    BY <2>3 DEF At
  <2>8. /\ Map(sm', Aged(now), ValueNode) /\ Owns(sm', heap \ old)
        /\ (heap \ old) \ NodesOf(sm') = heap \ NodesOf(sm)
    BY <1>2, <2>5, <2>6, <2>7, RemoveOwns
  <2>9. Inv'
    BY <1>2, <1>4, <2>6, <2>8 DEF Inv
  <2>10. Leaked' = Leaked
    BY <2>6, <2>8, LeakedIs
  <2> QED BY <2>9, <2>10 DEF LeakStep
<1>6. CASE ~ (kvp # NULL /\ has_key_expired(key.time, kvp.key))
  <2>1. sm' = sm /\ heap' = heap
    BY <1>1, <1>6 DEF HandleGet
  <2>2. Inv'
    BY <1>2, <1>4, <2>1 DEF Inv
  <2>3. Leaked' = Leaked
    BY <2>1, LeakedIs
  <2> QED BY <2>2, <2>3 DEF LeakStep
<1> QED BY <1>5, <1>6

LEMMA StoreInit ==
  ASSUME Init
  PROVE  Inv
<1>1. Map(sm, Aged(now), ValueNode)
  BY CreatedMap DEF Init
<1>2. Used(sm) = {}
  BY DEF Init, create_simple_map, Used
<1>3. now \in 0 .. MaxTime
  BY NumeralAssumption DEF Init
<1>4. heap \subseteq {"key", "value"} \X Id
  BY DEF Init
<1> QED BY <1>1, <1>2, <1>3, <1>4 DEF Inv, Owns

LEMMA StoreStep ==
  ASSUME Inv, [Next]_vars
  PROVE  Inv' /\ [LeakStep]_vars
<1>1. ASSUME NEW cmd \in Command, NEW id \in Id, NEW mem \in Memory, HandleSet(cmd, id, mem)
      PROVE  Inv' /\ LeakStep
  BY <1>1, SetStep
<1>2. ASSUME NEW name \in Name, HandleGet(name)
      PROVE  Inv' /\ LeakStep
  BY <1>2, GetStep
<1>3. CASE HandleRefused
  <2>1. sm' = sm /\ heap' = heap /\ now' = now
    BY <1>3 DEF HandleRefused
  <2>2. Leaked' = Leaked
    BY <2>1, LeakedIs
  <2> QED BY <2>1, <2>2 DEF Inv, LeakStep
<1>4. CASE Tick
  <2>1. sm' = sm /\ heap' = heap /\ now' \in 0 .. MaxTime /\ now' > now
    BY <1>4, NumeralAssumption DEF Tick
  <2>2. Leaked' = Leaked
    BY <2>1, LeakedIs
  <2>3. Aged(now) \subseteq Aged(now')
    BY <2>1, ClockAssumption DEF Aged, KeyNode, Inv
  <2>4. Map(sm, Aged(now'), ValueNode)
    BY <2>3 DEF Inv, Map
  <2> QED BY <2>1, <2>2, <2>4 DEF Inv, LeakStep
<1>5. CASE UNCHANGED vars
  BY <1>5 DEF vars, Inv
<1> QED BY <1>1, <1>2, <1>3, <1>4, <1>5 DEF Next

\* Inv holds in every reachable state: the arrays of the map are in order, and
\* its entries own their nodes.
THEOREM StoreInvariant == Spec => []Inv
<1>1. Init => Inv
  BY StoreInit
<1>2. Inv /\ [Next]_vars => Inv'
  BY StoreStep
<1> QED BY <1>1, <1>2, PTL DEF Spec

\* The store never points to a freed node and no two entries share one, for any
\* number of keys and whatever sequence of SET options, expiries, failed
\* reallocs and GETs came before.
THEOREM StoreOwnsNodesCorrect == Spec => []StoreOwnsNodes
<1>1. Inv => StoreOwnsNodes
  <2> SUFFICES ASSUME Inv PROVE StoreOwnsNodes
    OBVIOUS
  <2>1. TypeOK
    BY AgedIs, ClockAssumption DEF TypeOK, Inv, Map
  <2>2. Nodes \subseteq heap
    BY NodesOfIs DEF Nodes, NodesOf, Inv, Owns
  <2>3. \A i \in Used(sm) : sm.keys[i].id = sm.values[i].id
    BY DEF Inv, Owns
  <2>4. \A i, j \in Used(sm) :
          (sm.keys[i].id = sm.keys[j].id \/ sm.values[i].id = sm.values[j].id) => i = j
    BY <2>3 DEF Inv, Owns
  <2> QED BY <2>1, <2>2, <2>3, <2>4 DEF StoreOwnsNodes
<1> QED BY <1>1, StoreInvariant, PTL

\* A node leaks only in a combination of SET options that execute_set_cmd has no
\* case for, or in an NX that found no memory; and what leaked stays leaked.
THEOREM LeakOnlyThereCorrect == Spec => LeakOnlyThere
<1>1. Inv /\ [Next]_vars => [LeakStep]_vars
  BY StoreStep
<1> QED BY <1>1, StoreInvariant, PTL DEF Spec, LeakOnlyThere

-----------------------------------------------------------------------------
(* Expiry.                                                                 *)

LEMMA AgedInRange ==
  ASSUME NEW t, NEW k \in Aged(t)
  PROVE  InRange(k.ex) /\ InRange(k.px)
<1>1. InRange(UintSize)
  BY NumeralAssumption DEF InRange
<1>2. k.ex \in Nat /\ k.px \in Nat /\ k.ex <= UintSize /\ k.px <= UintSize
  BY NumeralAssumption DEF Aged, KeyNode
<1> QED BY <1>1, <1>2, RangeDown

\* A key that GET has found expired once is found expired ever after, although
\* has_key_expired rounds both times and their difference: no client can see an
\* expired key come back.
THEOREM StaysExpiredCorrect == Spec => StaysExpired
<1>1. ASSUME Inv, [Next]_vars, now' # now, NEW i \in Used(sm), has_key_expired(now, sm.keys[i])
      PROVE  has_key_expired(now', sm.keys[i])
  <2>1. now' \in 0 .. MaxTime /\ now' > now
    <3>1. Tick
      BY <1>1 DEF Next, vars, HandleSet, HandleGet, HandleRefused
    <3> QED BY <3>1, NumeralAssumption DEF Tick
  <2>2. now \in 0 .. MaxTime /\ MaxTime \in Nat
    BY <1>1, ClockAssumption DEF Inv
  <2>3. PICK k \in Aged(now) : k = sm.keys[i]
    BY <1>1 DEF Inv, Map
  <2>4. k.time \in 0 .. now
    BY <2>2 DEF Aged, KeyNode
  <2>5. InRange(k.ex) /\ InRange(k.px)
    BY AgedInRange
  <2>6. (k.ex # 0 \/ k.px # 0) /\ Exceeds(now, k)
    BY <1>1, <2>3 DEF has_key_expired
  <2>7. now <= now'
    BY <2>1, <2>2
  <2>8. Exceeds(now', k)
    BY <2>1, <2>2, <2>4, <2>5, <2>6, <2>7, ExceedsStays
  <2> QED BY <2>3, <2>6, <2>8 DEF has_key_expired
<1>2. Inv /\ [Next]_vars =>
        [now' # now => \A i \in Used(sm) :
           has_key_expired(now, sm.keys[i]) => has_key_expired(now', sm.keys[i])]_vars
  BY <1>1
<1> QED BY <1>2, StoreInvariant, PTL DEF Spec, StaysExpired

\* has_key_expired says when a key dies, up to Blur.
LEMMA ExpiredIs ==
  ASSUME now \in 0 .. MaxTime, NEW k \in Aged(now)
  PROVE  /\ Dies(k) \in Nat
         /\ has_key_expired(now, k) =>
              Dies(k) # 0 /\ (now - (-Blur(now))) * Kilo > Dies(k)
         /\ ~ has_key_expired(now, k) =>
              Dies(k) = 0 \/ ~ ((now - Blur(now)) * Kilo > Dies(k))
<1>1. /\ MaxTime \in Nat /\ now \in Nat /\ Kilo \in Nat \ {0}
      /\ TicksPerSec \in Nat \ {0}
  BY ClockAssumption
<1>2. /\ k.ex \in Nat /\ k.px \in Nat /\ k.time \in 0 .. now /\ k.time \in Nat
      /\ InRange(k.ex) /\ InRange(k.px)
  BY <1>1, AgedInRange DEF Aged, KeyNode
<1>3. PICK b \in Nat : b = Blur(now)
  BY BlurIs
<1>4. CASE k.ex = 0 /\ k.px = 0
  <2>1. Dies(k) = 0
    BY <1>4, Zenon DEF Dies
  <2>2. ~ has_key_expired(now, k)
    BY <1>4 DEF has_key_expired
  <2> QED BY <2>1, <2>2
<1>5. CASE k.ex # 0
  <2>1. PICK t \in Nat \ {0} : t = k.ex * TicksPerSec
    BY <1>1, <1>2, <1>5
  <2>2. Dies(k) = (k.time + t) * Kilo
    BY <1>5, <2>1, Zenon DEF Dies
  <2>3. Dies(k) \in Nat /\ Dies(k) # 0
    BY <1>1, <1>2, <2>2
  <2>4. has_key_expired(now, k) <=> Delta(now, k.time) > Float(k.ex) * TicksPerSec
    BY <1>5 DEF has_key_expired, Exceeds
  <2>5. /\ has_key_expired(now, k) => now + b > k.time + t
        /\ ~ has_key_expired(now, k) => now - b <= k.time + t
    BY <1>2, <1>3, <2>1, <2>4, ExClose
  <2>6. ASSUME now + b > k.time + t PROVE (now - (-b)) * Kilo > (k.time + t) * Kilo
    <3>1. now + b \in Nat /\ k.time + t \in Nat
      BY <1>1, <1>2
    <3>2. (k.time + t) * Kilo < (now + b) * Kilo
      BY <1>1, <2>6, <3>1, MulLt
    <3>3. now - (-b) = now + b
      BY <1>1
    <3> QED BY <1>1, <1>2, <3>2, <3>3
  <2>7. ASSUME now - b <= k.time + t PROVE ~ ((now - b) * Kilo > (k.time + t) * Kilo)
    BY <1>1, <1>2, <2>7
  <2> QED BY <1>3, <2>2, <2>3, <2>5, <2>6, <2>7, Zenon
<1>6. CASE k.ex = 0 /\ k.px # 0
  <2>1. PICK t \in Nat \ {0} : t = k.px * TicksPerSec
    BY <1>1, <1>2, <1>6
  <2>2. Dies(k) = k.time * Kilo + t
    BY <1>6, <2>1, Zenon DEF Dies
  <2>3. Dies(k) \in Nat /\ Dies(k) # 0
    BY <1>1, <1>2, <2>2
  <2>4. has_key_expired(now, k) <=>
          Float(Delta(now, k.time) * Kilo) > Float(k.px) * TicksPerSec
    BY <1>6 DEF has_key_expired, Exceeds
  <2>5. /\ has_key_expired(now, k) => (now + b) * Kilo > k.time * Kilo + t
        /\ ~ has_key_expired(now, k) => (now - b) * Kilo <= k.time * Kilo + t
    BY <1>2, <1>3, <2>1, <2>4, PxClose
  <2>6. now - (-b) = now + b
    BY <1>1
  <2>7. (now - b) * Kilo <= k.time * Kilo + t => ~ ((now - b) * Kilo > k.time * Kilo + t)
    BY <1>1, <1>2
  <2> QED BY <1>3, <2>2, <2>3, <2>5, <2>6, <2>7, Zenon
<1> QED BY <1>4, <1>5, <1>6

-----------------------------------------------------------------------------
(* The keyspace that the entries of a map stand for.                       *)

Item(k, v) == [val |-> v.val, dies |-> Dies(k)]

StoreOf(m) == [n \in Name |->
  LET at == {i \in Used(m) : m.keys[i].name = n}
  IN  IF at = {} THEN NULL
      ELSE LET i == CHOOSE i \in at : TRUE
           IN  [val |-> m.values[i].val, dies |-> Dies(m.keys[i])]]

LEMMA StoreIs == store = StoreOf(sm) /\ store' = StoreOf(sm')
  BY DEF store, StoreOf

\* The item of a name is that of its entry.
LEMMA StoreOfIs ==
  ASSUME NEW K, NEW V, NEW m, Map(m, K, V), NEW n \in Name
  PROVE  /\ \A i \in Used(m) : m.keys[i].name = n =>
              StoreOf(m)[n] = Item(m.keys[i], m.values[i])
         /\ (\A i \in Used(m) : m.keys[i].name # n) => StoreOf(m)[n] = NULL
<1>1. PICK at : at = {i \in Used(m) : m.keys[i].name = n}
  OBVIOUS
<1>2. StoreOf(m)[n] =
        IF at = {} THEN NULL
        ELSE Item(m.keys[CHOOSE i \in at : TRUE], m.values[CHOOSE i \in at : TRUE])
  BY <1>1, Zenon DEF StoreOf, Item
<1>3. ASSUME NEW i \in Used(m), m.keys[i].name = n
      PROVE  StoreOf(m)[n] = Item(m.keys[i], m.values[i])
  <2>1. at = {i}
    BY <1>1, <1>3 DEF Map
  <2>2. (CHOOSE j \in at : TRUE) = i
    BY <2>1
  <2>3. at # {}
    BY <2>1
  <2> QED BY <1>2, <2>2, <2>3, Zenon
<1>4. ASSUME \A i \in Used(m) : m.keys[i].name # n
      PROVE  StoreOf(m)[n] = NULL
  BY <1>1, <1>2, <1>4
<1> QED BY <1>3, <1>4

\* A change of the map that leaves the entries of other names alone.
LEMMA StoreChange ==
  ASSUME NEW K, NEW V, NEW m, NEW r, Map(m, K, V), Map(r, K, V), NEW name \in Name,
         \A i \in Used(m) : m.keys[i].name # name =>
           \E j \in Used(r) : r.keys[j] = m.keys[i] /\ r.values[j] = m.values[i],
         \A j \in Used(r) : r.keys[j].name # name =>
           \E i \in Used(m) : r.keys[j] = m.keys[i] /\ r.values[j] = m.values[i]
  PROVE  StoreOf(r) = [StoreOf(m) EXCEPT ![name] = StoreOf(r)[name]]
<1>1. ASSUME NEW n \in Name, n # name
      PROVE  StoreOf(r)[n] = StoreOf(m)[n]
  <2>1. CASE \E i \in Used(m) : m.keys[i].name = n
    <3>1. PICK i \in Used(m) : m.keys[i].name = n
      BY <2>1
    <3>2. PICK j \in Used(r) : r.keys[j] = m.keys[i] /\ r.values[j] = m.values[i]
      BY <1>1, <3>1
    <3>3. StoreOf(m)[n] = Item(m.keys[i], m.values[i])
      BY <3>1, StoreOfIs
    <3>4. StoreOf(r)[n] = Item(r.keys[j], r.values[j])
      BY <3>1, <3>2, StoreOfIs
    <3> QED BY <3>2, <3>3, <3>4
  <2>2. CASE \A i \in Used(m) : m.keys[i].name # n
    <3>1. \A j \in Used(r) : r.keys[j].name # n
      BY <1>1, <2>2
    <3> QED BY <2>2, <3>1, StoreOfIs
  <2> QED BY <2>1, <2>2
<1>2. /\ StoreOf(m) = [n \in Name |-> StoreOf(m)[n]]
      /\ StoreOf(r) = [n \in Name |-> StoreOf(r)[n]]
  BY DEF StoreOf
<1> QED BY <1>1, <1>2

LEMMA PushStore ==
  ASSUME NEW K, NEW V, NEW m, Map(m, K, V), NEW k \in K, NEW v \in V, k.name \in Name,
         Absent(m, k), NEW r, r = PushGrown(m, k, v)
  PROVE  StoreOf(r) = [StoreOf(m) EXCEPT ![k.name] = Item(k, v)]
<1>1. /\ Map(r, K, V) /\ r.top = m.top + 1
      /\ \A i \in Used(m) : r.keys[i] = m.keys[i] /\ r.values[i] = m.values[i]
      /\ r.keys[r.top] = k /\ r.values[r.top] = v
  BY PushGrownMap
<1>2. m.top \in Int /\ m.top >= -1
  BY DEF Map
<1>3. Used(r) = Used(m) \cup {r.top}
  BY <1>1, <1>2 DEF Used
<1>4. StoreOf(r)[k.name] = Item(k, v)
  BY <1>1, <1>3, StoreOfIs
<1>5. StoreOf(r) = [StoreOf(m) EXCEPT ![k.name] = StoreOf(r)[k.name]]
  BY <1>1, <1>3, StoreChange
<1> QED BY <1>4, <1>5

LEMMA UpgradeStore ==
  ASSUME NEW K, NEW V, NEW m, Map(m, K, V), NEW k \in K, NEW v \in V, k.name \in Name,
         NEW pos, At(m, k, pos), NEW r, r = upgrade(m, pos, k, v)
  PROVE  StoreOf(r) = [StoreOf(m) EXCEPT ![k.name] = Item(k, v)]
<1>1. /\ Map(r, K, V) /\ r.top = m.top
      /\ \A i \in Used(m) \ {pos} : r.keys[i] = m.keys[i] /\ r.values[i] = m.values[i]
      /\ r.keys[pos] = k /\ r.values[pos] = v
  BY UpgradeMap
<1>2. Used(r) = Used(m) /\ pos \in Used(m) /\ m.keys[pos].name = k.name
  BY <1>1 DEF Used, At
<1>3. StoreOf(r)[k.name] = Item(k, v)
  BY <1>1, <1>2, StoreOfIs
<1>4. /\ \A i \in Used(m) : m.keys[i].name # k.name =>
           \E j \in Used(r) : r.keys[j] = m.keys[i] /\ r.values[j] = m.values[i]
      /\ \A j \in Used(r) : r.keys[j].name # k.name =>
           \E i \in Used(m) : r.keys[j] = m.keys[i] /\ r.values[j] = m.values[i]
  BY <1>1, <1>2
<1>5. StoreOf(r) = [StoreOf(m) EXCEPT ![k.name] = StoreOf(r)[k.name]]
  BY <1>1, <1>4, StoreChange
<1> QED BY <1>3, <1>5

LEMMA RemoveStore ==
  ASSUME NEW K, NEW V, NEW m, Map(m, K, V), NEW k, k.name \in Name,
         NEW pos, At(m, k, pos), NEW r, r = RemoveAt(m, pos)
  PROVE  StoreOf(r) = [StoreOf(m) EXCEPT ![k.name] = NULL]
<1>1. pos \in Used(m) /\ m.keys[pos].name = k.name
  BY DEF At
<1>2. Map(r, K, V)
  BY <1>1, RemoveMap
<1>3. /\ \A i \in Used(r) : \E j \in Used(m) \ {pos} :
           r.keys[i] = m.keys[j] /\ r.values[i] = m.values[j]
      /\ \A j \in Used(m) \ {pos} : \E i \in Used(r) :
           r.keys[i] = m.keys[j] /\ r.values[i] = m.values[j]
  BY <1>1, RemoveEntries
<1>4. \A i \in Used(m) \ {pos} : m.keys[i].name # k.name
  BY <1>1 DEF Map
<1>5. \A i \in Used(r) : r.keys[i].name # k.name
  BY <1>3, <1>4
<1>6. StoreOf(r)[k.name] = NULL
  BY <1>2, <1>5, StoreOfIs
<1>7. StoreOf(r) = [StoreOf(m) EXCEPT ![k.name] = StoreOf(r)[k.name]]
  BY <1>1, <1>2, <1>3, StoreChange
<1> QED BY <1>6, <1>7

\* get and the keyspace agree.
LEMMA StoreLookup ==
  ASSUME Map(sm, Aged(now), ValueNode), now \in 0 .. MaxTime, NEW key, key.name \in Name
  PROVE  /\ StoreOf(sm)[key.name] = NULL <=> get(sm, key) = NULL
         /\ Absent(sm, key) <=> get(sm, key) = NULL
         /\ ValueOf(get(sm, key)) = IF StoreOf(sm)[key.name] = NULL THEN "nil"
                                    ELSE StoreOf(sm)[key.name].val
         /\ \A pos : At(sm, key, pos) =>
              StoreOf(sm)[key.name] = Item(sm.keys[pos], sm.values[pos])
<1>1. NULL \notin Aged(now) /\ NULL \notin [key : Aged(now), value : ValueNode]
  BY AgedIs
<1>2. CASE Absent(sm, key)
  <2>1. get(sm, key) = NULL
    BY <1>1, <1>2, GetIs
  <2>2. StoreOf(sm)[key.name] = NULL
    BY <1>2, StoreOfIs DEF Absent
  <2>3. \A pos : ~ At(sm, key, pos)
    BY <1>2 DEF Absent, At
  <2> QED BY <1>2, <2>1, <2>2, <2>3 DEF ValueOf
<1>3. ASSUME NEW pos, At(sm, key, pos)
      PROVE  /\ get(sm, key) # NULL /\ ValueOf(get(sm, key)) = sm.values[pos].val
             /\ StoreOf(sm)[key.name] = Item(sm.keys[pos], sm.values[pos])
             /\ StoreOf(sm)[key.name] # NULL
             /\ StoreOf(sm)[key.name].val = sm.values[pos].val
             /\ ~ Absent(sm, key)
  <2>1. get(sm, key) # NULL /\ ValueOf(get(sm, key)) = sm.values[pos].val
    BY <1>1, <1>3, FoundIs
  <2>2. StoreOf(sm)[key.name] = Item(sm.keys[pos], sm.values[pos])
    BY <1>3, StoreOfIs DEF At
  <2>3. PICK k \in Aged(now), v \in ValueNode : k = sm.keys[pos] /\ v = sm.values[pos]
    BY <1>3 DEF Map, At
  <2>4. Dies(k) \in Nat
    BY ExpiredIs
  <2>5. Item(k, v) \in [val : Value, dies : Nat] /\ Item(k, v).val = v.val
    BY <2>4 DEF Item, ValueNode
  <2>6. StoreOf(sm)[key.name] # NULL /\ StoreOf(sm)[key.name].val = sm.values[pos].val
    BY <2>2, <2>3, <2>5, NodeAssumption
  <2>7. ~ Absent(sm, key)
    BY <1>3 DEF Absent, At
  <2> QED BY <2>1, <2>2, <2>6, <2>7
<1>4. ASSUME NEW pos, At(sm, key, pos)
      PROVE  /\ StoreOf(sm)[key.name] = NULL <=> get(sm, key) = NULL
             /\ Absent(sm, key) <=> get(sm, key) = NULL
             /\ ValueOf(get(sm, key)) = IF StoreOf(sm)[key.name] = NULL THEN "nil"
                                        ELSE StoreOf(sm)[key.name].val
  BY <1>3, <1>4
<1> QED BY <1>2, <1>3, <1>4, AbsentOrAt

-----------------------------------------------------------------------------
(* The commands are steps of the keyspace.                                 *)

LEMMA SetRefines ==
  ASSUME Inv, NEW cmd \in Command, NEW id \in Id, NEW mem \in Memory,
         HandleSet(cmd, id, mem)
  PROVE  Keys!Set(cmd)
<1>1. PICK key, value, out, old :
        /\ key = create_key_node(cmd.name, id)
        /\ value = create_value_node(cmd.val, id)
        /\ out = execute_set_cmd(cmd, key, value, mem)
        /\ old = get(sm, key)
  OBVIOUS
<1>2. sm' = out.sm /\ reply' = out.reply /\ call' = cmd /\ now' = now
  BY <1>1 DEF HandleSet
<1>3. Map(sm, Aged(now), ValueNode) /\ now \in 0 .. MaxTime /\ now \in Nat
  BY ClockAssumption DEF Inv
<1>4. PICK k \in Aged(now) :
        /\ k.id = id /\ k.name = cmd.name /\ Dies(k) = Death(cmd)
        /\ Effect(cmd, old, out, k, value)
  BY <1>1, <1>3, CmdSettles
<1>5. value \in ValueNode /\ value.val = cmd.val
  BY <1>1, <1>3, NewNodes
<1>6. cmd.name \in Name /\ key.name = cmd.name
  BY <1>1 DEF Command, create_key_node
<1>7. store = StoreOf(sm) /\ store' = StoreOf(sm')
  BY StoreIs
<1>8. /\ store[cmd.name] = NULL <=> old = NULL
      /\ ValueOf(old) = Keys!Old(cmd.name)
  BY <1>1, <1>3, <1>6, <1>7, StoreLookup DEF Keys!Old
<1>9. Keys!Allowed(cmd) <=> Permits(cmd, old)
  BY <1>8 DEF Keys!Allowed, Permits
<1>10. CASE /\ Keys!Implemented(cmd) /\ Permits(cmd, old) /\ Stored(out, k, value)
            /\ out.reply = IF cmd.get THEN ValueOf(old) ELSE "OK"
  <2>1. Item(k, value) = [val |-> cmd.val, dies |-> Death(cmd)]
    BY <1>4, <1>5 DEF Item
  <2>2. StoreOf(sm') = [StoreOf(sm) EXCEPT ![k.name] = Item(k, value)]
    <3>1. k.name \in Name
      BY <1>4, <1>6
    <3>2. CASE Absent(sm, k) /\ sm' = PushGrown(sm, k, value)
      BY <1>3, <1>5, <3>1, <3>2, PushStore
    <3>3. ASSUME NEW pos, At(sm, k, pos), sm' = upgrade(sm, pos, k, value)
          PROVE  StoreOf(sm') = [StoreOf(sm) EXCEPT ![k.name] = Item(k, value)]
      BY <1>3, <1>5, <3>1, <3>3, UpgradeStore
    <3> QED BY <1>2, <1>10, <3>2, <3>3 DEF Stored
  <2>3. store' = [store EXCEPT ![cmd.name] = [val |-> cmd.val, dies |-> Death(cmd)]]
    BY <1>4, <1>7, <2>1, <2>2
  <2>4. reply' = IF cmd.get THEN Keys!Old(cmd.name) ELSE "OK"
    BY <1>2, <1>8, <1>10
  <2>5. Keys!Due(cmd, Death(cmd))
    <3>1. Span(cmd) \in Nat /\ Kilo \in Nat
      BY <1>1, <1>3, NewNodes, ClockAssumption
    <3>2. CASE cmd.opt \in {"EXAT", "PXAT"}
      BY <1>3, <3>1, <3>2 DEF Death, Keys!Due
    <3>3. CASE cmd.opt \notin {"EXAT", "PXAT"}
      <4>1. Span(cmd) = Life(cmd)
        <5>1. CASE cmd.opt = "EX"
          BY <5>1 DEF Span, Life
        <5>2. CASE cmd.opt = "PX"
          <6>1. Span(cmd) = (cmd.time % UintSize) * TicksPerSec
            BY <5>2, Zenon DEF Span
          <6>2. Life(cmd) = (cmd.time % UintSize) * TicksPerSec
            BY <5>2, Zenon DEF Life
          <6> QED BY <6>1, <6>2
        <5>3. CASE cmd.opt # "EX" /\ cmd.opt # "PX"
          BY <3>3, <5>3, Zenon DEF Span, Life
        <5> QED BY <5>1, <5>2, <5>3
      <4> QED BY <3>3, <4>1 DEF Death, Keys!Due
    <3> QED BY <3>2, <3>3
  <2>6. store'[cmd.name] = [val |-> cmd.val, dies |-> Death(cmd)] /\ store'[cmd.name] # NULL
    <3>1. store'[cmd.name] = [val |-> cmd.val, dies |-> Death(cmd)]
      BY <1>6, <2>3 DEF store
    <3>2. Death(cmd) \in Nat
      BY <1>1, <1>3, NewNodes, ClockAssumption DEF Death
    <3>3. cmd.val \in Value
      BY DEF Command
    <3>4. [val |-> cmd.val, dies |-> Death(cmd)] \in [val : Value, dies : Nat]
      BY <3>2, <3>3
    <3>5. NULL \notin [val : Value, dies : Nat]
      BY NodeAssumption
    <3>6. NULL # [val |-> cmd.val, dies |-> Death(cmd)]
      BY <3>4, <3>5, Zenon
    <3> QED BY <3>1, <3>6, ZenonT(60)
  <2>7. Keys!Put(cmd)
    <3>1. store'[cmd.name].dies = Death(cmd)
      BY <2>6
    <3>2. Keys!Due(cmd, store'[cmd.name].dies)
      BY <2>5, <3>1, Zenon
    <3>3. store' = [store EXCEPT ![cmd.name] = [val |-> cmd.val, dies |-> store'[cmd.name].dies]]
      BY <2>3, <3>1, Zenon
    <3> QED BY <1>9, <1>10, <2>4, <2>6, <3>2, <3>3, Zenon DEF Keys!Put
  <2> QED BY <1>2, <2>7 DEF Keys!Set
<1>11. CASE /\ Keys!Implemented(cmd) /\ ~ Permits(cmd, old) /\ Dropped(out, k, value)
            /\ out.reply = IF cmd.get THEN ValueOf(old) ELSE "nil"
  <2>1. store' = store
    BY <1>2, <1>7, <1>11 DEF Dropped
  <2>2. reply' = IF cmd.get THEN Keys!Old(cmd.name) ELSE "nil"
    BY <1>2, <1>8, <1>11
  <2>3. Keys!Decline(cmd)
    BY <1>9, <1>11, <2>1, <2>2 DEF Keys!Decline
  <2> QED BY <1>2, <2>3 DEF Keys!Set
<1>12. CASE /\ Keys!Implemented(cmd) /\ cmd.nxxx = NULL /\ old = NULL
            /\ Dropped(out, k, value) /\ out.reply = IF cmd.get THEN "error" ELSE "empty"
  <2>1. store' = store
    BY <1>2, <1>7, <1>12 DEF Dropped
  <2>2. NULL # "NX" /\ NULL # "XX"
    BY NameAssumption
  <2>3. Keys!Allowed(cmd) /\ store[cmd.name] = NULL
    BY <1>8, <1>12, <2>2 DEF Keys!Allowed
  <2>4. reply' = CASE ~ Keys!Implemented(cmd) \/ (cmd.get /\ cmd.nxxx = NULL) -> "error"
                   [] Keys!Implemented(cmd) /\ cmd.nxxx = "NX" -> "nil"
                   [] OTHER -> "empty"
    <3>1. CASE cmd.get
      <4>1. reply' = "error"
        BY <1>2, <1>12, <3>1
      <4>2. ~ (Keys!Implemented(cmd) /\ cmd.nxxx = "NX")
        BY <1>12, <2>2
      <4> QED BY <1>12, <3>1, <4>1, <4>2, Zenon
    <3>2. CASE ~ cmd.get
      <4>1. reply' = "empty"
        BY <1>2, <1>12, <3>2
      <4>2. ~ (Keys!Implemented(cmd) /\ cmd.nxxx = "NX")
        BY <1>12, <2>2
      <4>3. ~ (~ Keys!Implemented(cmd) \/ (cmd.get /\ cmd.nxxx = NULL))
        BY <1>12, <3>2
      <4> QED BY <4>1, <4>2, <4>3, Zenon
    <3> QED BY <3>1, <3>2
  <2>5. Keys!Fail(cmd)
    BY <2>1, <2>3, <2>4 DEF Keys!Fail
  <2> QED BY <1>2, <2>5 DEF Keys!Set
<1>13. CASE /\ Keys!Implemented(cmd) /\ cmd.nxxx = "NX" /\ old = NULL /\ is_full(sm)
            /\ Forgotten(out) /\ out.reply = "nil"
  <2>1. store' = store
    BY <1>2, <1>7, <1>13 DEF Forgotten
  <2>2. NULL # "NX"
    BY NameAssumption
  <2>3. Keys!Allowed(cmd) /\ store[cmd.name] = NULL
    BY <1>8, <1>13 DEF Keys!Allowed
  <2>4. ~ (~ Keys!Implemented(cmd) \/ (cmd.get /\ cmd.nxxx = NULL))
    BY <1>13, <2>2
  <2>5. reply' = CASE ~ Keys!Implemented(cmd) \/ (cmd.get /\ cmd.nxxx = NULL) -> "error"
                   [] Keys!Implemented(cmd) /\ cmd.nxxx = "NX" -> "nil"
                   [] OTHER -> "empty"
    BY <1>2, <1>13, <2>4, Zenon
  <2>6. Keys!Fail(cmd)
    BY <2>1, <2>3, <2>5 DEF Keys!Fail
  <2> QED BY <1>2, <2>6 DEF Keys!Set
<1>14. CASE ~ Keys!Implemented(cmd) /\ Forgotten(out) /\ out.reply = "error"
  <2>1. store' = store
    BY <1>2, <1>7, <1>14 DEF Forgotten
  <2>2. reply' = CASE ~ Keys!Implemented(cmd) \/ (cmd.get /\ cmd.nxxx = NULL) -> "error"
                   [] Keys!Implemented(cmd) /\ cmd.nxxx = "NX" -> "nil"
                   [] OTHER -> "empty"
    BY <1>2, <1>14, Zenon
  <2>3. Keys!Fail(cmd)
    BY <1>14, <2>1, <2>2 DEF Keys!Fail
  <2> QED BY <1>2, <2>3 DEF Keys!Set
<1> QED BY <1>4, <1>10, <1>11, <1>12, <1>13, <1>14 DEF Effect

LEMMA GetRefines ==
  ASSUME Inv, NEW name \in Name, HandleGet(name)
  PROVE  Keys!Get(name)
<1>1. PICK key, kvp, rmv :
        /\ key = create_key_node(name, NULL) /\ kvp = get(sm, key)
        /\ rmv = remove_key(sm, key)
  OBVIOUS
<1>2. Map(sm, Aged(now), ValueNode) /\ now \in 0 .. MaxTime
  BY DEF Inv
<1>3. NULL \notin Aged(now) /\ NULL \notin [key : Aged(now), value : ValueNode]
  BY AgedIs
<1>4. now' = now /\ call' = name /\ key.name = name /\ key.time = now
  BY <1>1 DEF HandleGet, create_key_node
<1>5. store = StoreOf(sm) /\ store' = StoreOf(sm')
  BY StoreIs
<1>6. /\ store[name] = NULL <=> kvp = NULL
      /\ ValueOf(kvp) = Keys!Old(name)
  BY <1>1, <1>2, <1>4, <1>5, StoreLookup DEF Keys!Old
<1>7. CASE kvp = NULL
  <2>1. sm' = sm /\ reply' = ValueOf(kvp)
    BY <1>1, <1>7 DEF HandleGet
  <2>2. ~ Keys!Dead(name, Blur(now))
    BY <1>6, <1>7 DEF Keys!Dead
  <2> QED BY <1>4, <1>5, <1>6, <2>1, <2>2 DEF Keys!Get
<1>8. CASE kvp # NULL
  <2>1. ~ Absent(sm, key)
    BY <1>1, <1>3, <1>2, <1>8, GetIs
  <2>2. PICK pos : At(sm, key, pos)
    BY <2>1, AbsentOrAt
  <2>3. PICK k \in Aged(now) : k = sm.keys[pos]
    BY <1>2, <2>2 DEF Map, At
  <2>4. kvp = [key |-> k, value |-> sm.values[pos]]
    BY <1>1, <1>2, <1>3, <2>2, <2>3, FoundIs
  <2>5. kvp.key = k
    BY <2>4
  <2>6. store[name] = Item(k, sm.values[pos])
    BY <1>1, <1>2, <1>4, <1>5, <2>2, <2>3, StoreLookup
  <2>7. store[name].dies = Dies(k) /\ store[name] # NULL
    BY <1>6, <1>8, <2>6 DEF Item
  <2>8. CASE has_key_expired(now, k)
    <3>1. sm' = rmv.sm /\ reply' = IF rmv.rtn = "REMOVE_ERROR" THEN "error" ELSE "nil"
      BY <1>1, <1>4, <1>8, <2>5, <2>8 DEF HandleGet
    <3>2. rmv = [sm |-> RemoveAt(sm, pos), rtn |-> "REMOVE_SUCCESS",
                 pair |-> [key |-> sm.keys[pos], value |-> sm.values[pos]]]
      BY <1>1, <1>2, <1>3, <2>2, RemoveIs
    <3>3. sm' = RemoveAt(sm, pos) /\ reply' = "nil"
      BY <3>1, <3>2
    <3>4. store' = [store EXCEPT ![name] = NULL]
      BY <1>2, <1>4, <1>5, <2>2, <3>3, RemoveStore
    <3>5. Dies(k) # 0 /\ (now - (-Blur(now))) * Kilo > Dies(k)
      BY <1>2, <2>8, ExpiredIs
    <3>6. Keys!Dead(name, -Blur(now))
      BY <2>7, <3>5, Zenon DEF Keys!Dead
    <3> QED BY <1>4, <3>3, <3>4, <3>6 DEF Keys!Get
  <2>9. CASE ~ has_key_expired(now, k)
    <3>1. sm' = sm /\ reply' = ValueOf(kvp)
      BY <1>1, <1>4, <2>5, <2>9 DEF HandleGet
    <3>2. Dies(k) = 0 \/ ~ ((now - Blur(now)) * Kilo > Dies(k))
      BY <1>2, <2>9, ExpiredIs
    <3>3. ~ Keys!Dead(name, Blur(now))
      BY <2>7, <3>2, Zenon DEF Keys!Dead
    <3> QED BY <1>4, <1>5, <1>6, <3>1, <3>3 DEF Keys!Get
  <2> QED BY <2>8, <2>9
<1> QED BY <1>7, <1>8

LEMMA KeyspaceInit == Init => Keys!Init
<1> SUFFICES ASSUME Init PROVE Keys!Init
  OBVIOUS
<1>1. Used(sm) = {}
  BY DEF Init, create_simple_map, Used
<1>2. store = [n \in Name |-> NULL]
  BY <1>1 DEF store
<1>3. now \in Nat
  BY NumeralAssumption, ClockAssumption DEF Init
<1> QED BY <1>2, <1>3 DEF Init, Keys!Init

LEMMA KeyspaceStep == Inv /\ [Next]_vars => [Keys!Next]_(Keys!vars)
<1> SUFFICES ASSUME Inv, [Next]_vars PROVE [Keys!Next]_(Keys!vars)
  OBVIOUS
<1>1. ASSUME NEW cmd \in Command, NEW id \in Id, NEW mem \in Memory, HandleSet(cmd, id, mem)
      PROVE  Keys!Next
  BY <1>1, SetRefines DEF Keys!Next
<1>2. ASSUME NEW name \in Name, HandleGet(name)
      PROVE  Keys!Next
  BY <1>2, GetRefines DEF Keys!Next
<1>3. CASE HandleRefused
  <2>1. Keys!Blank
    BY <1>3, StoreIs DEF HandleRefused, Keys!Blank
  <2> QED BY <2>1 DEF Keys!Next
<1>4. CASE Tick
  <2>1. now' \in Nat /\ now' > now
    BY <1>4, NumeralAssumption, ClockAssumption DEF Tick
  <2>2. Keys!Tick
    BY <1>4, <2>1, StoreIs DEF Tick, Keys!Tick
  <2> QED BY <2>2 DEF Keys!Next
<1>5. CASE UNCHANGED vars
  BY <1>5, StoreIs DEF vars, Keys!vars
<1> QED BY <1>1, <1>2, <1>3, <1>4, <1>5 DEF Next

\* SET and GET behave as on a keyspace, for any names, values, numbers and
\* times: the reply and the effect of a command are what the last SET of the key
\* and the clock say.  A death is observed exactly as long as the clock fits a
\* float, and later within four distances of the floats around it.
THEOREM KeyspaceCorrect == Spec => ImplementsKeyspace
<1>1. Spec => Keys!Init
  BY KeyspaceInit, PTL DEF Spec
<1>2. Inv /\ [Next]_vars => [Keys!Next]_(Keys!vars)
  BY KeyspaceStep
<1> QED BY <1>1, <1>2, StoreInvariant, PTL DEF Spec, ImplementsKeyspace, Keys!Spec
=============================================================================
