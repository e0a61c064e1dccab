-------------------------- MODULE SetParserProofs --------------------------
(***************************************************************************)
(* Proofs about what the program reads: the arguments of SET               *)
(* (SetParser.tla), the command and the words of CONFIG GET                *)
(* (Dispatch.tla), and RDB files (RdbParser.tla).  The three share no      *)
(* state: CmdSpec and RdbSpec are specifications of their own.             *)
(***************************************************************************)
EXTENDS SetParser, Dispatch, RdbParser, SequenceTheorems, FiniteSetTheorems, TLAPS

\* The number of arguments that a key, a value, h of NX and XX, g times GET and
\* e times an expiry with its number are.
Size(h, g, e) == 2 + h + g + e + e

\* The list begins with these arguments.
Begins(a, h, g, e) ==
  /\ Len(a) >= Size(h, g, e)
  /\ a[1] \in Bulk /\ a[2] \in Bulk
  /\ h = 1 => a[3] \in NxXx
  /\ g = 1 => a[3 + h] = "GET"
  /\ e = 1 => a[3 + h + g] \in Expiry /\ a[4 + h + g] \in Numeral

\* The options loop has taken these arguments and no others.
Taken(h, g, e) ==
  /\ Begins(input, h, g, e)
  /\ cur.state = {6, 5, 4} \cup (IF h = 1 THEN {3} ELSE {}) \cup (IF g = 1 THEN {2} ELSE {})
                           \cup (IF e = 1 THEN {1, 0} ELSE {})
  /\ cur.next = IF Size(h, g, e) < Len(input) THEN Size(h, g, e) + 1 ELSE NoNode
  /\ cur.parsed = [b \in 0 .. 5 |-> IF b = 5 THEN 1 ELSE
                                    IF b = 4 THEN 2 ELSE
                                    IF b = 3 /\ h = 1 THEN 3 ELSE
                                    IF b = 2 /\ g = 1 THEN 3 + h ELSE
                                    IF b = 1 /\ e = 1 THEN 3 + h + g ELSE
                                    IF b = 0 /\ e = 1 THEN 4 + h + g ELSE NoNode]

StageA ==
  /\ Len(input) >= 1
  /\ \/ /\ cur.state = {6} /\ cur.next = 1
        /\ cur.parsed = [b \in 0 .. 5 |-> NoNode]
     \/ /\ cur.state = {6, 5} /\ cur.next = 2
        /\ Len(input) >= 2 /\ input[1] \in Bulk
        /\ cur.parsed = [b \in 0 .. 5 |-> IF b = 5 THEN 1 ELSE NoNode]

\* The options loop stands behind a prefix of the syntax, or has met what rules
\* the list out; the verdict is right.
Inv ==
  /\ SlotsOK
  /\ pc = "start" => /\ cur.state = {} /\ cur.next = NoNode
                     /\ cur.parsed = [b \in 0 .. 5 |-> NoNode]
  /\ pc = "stage_a" => StageA
  /\ pc = "options" => \/ Negative(cur.state) /\ ~ Wellformed(input)
                       \/ \E h, g, e \in 0 .. 1 : Taken(h, g, e)
  /\ AcceptsGrammar

-----------------------------------------------------------------------------
(* The syntax.                                                             *)

LEMMA KindsDiffer ==
  /\ NxXx \cap Expiry = {} /\ "GET" \notin NxXx \cup Expiry
  /\ Numeral \cap (NxXx \cup Expiry \cup {"GET"}) = {}
  /\ NxXx \cup Expiry \cup {"GET"} = Option
  BY TokenAssumption DEF NxXx, Expiry, Option

\* The arguments that follow key and value.
LEMMA ArgumentsAfterTwo ==
  ASSUME NEW S, NEW a \in Seq(S), Len(a) >= 2
  PROVE  /\ SubSeq(a, 3, Len(a)) \in Seq(S)
         /\ Len(SubSeq(a, 3, Len(a))) = Len(a) - 2
         /\ \A q \in 1 .. Len(a) - 2 : SubSeq(a, 3, Len(a))[q] = a[q + 2]
<1>1. PICK m \in Int, n \in Int : m = 3 /\ n = Len(a)
  OBVIOUS
<1>2. \A q \in m .. n : a[q] \in S
  BY <1>1
<1>3. SubSeq(a, m, n) \in Seq(S)
  BY <1>2, SubSeqProperties
<1>4. Len(SubSeq(a, 3, Len(a))) = Len(a) - 2
  OBVIOUS
<1>5. \A q \in 1 .. Len(a) - 2 : SubSeq(a, 3, Len(a))[q] = a[q + 2]
  OBVIOUS
<1> QED BY <1>1, <1>3, <1>4, <1>5

\* A list of the syntax is one that begins with one of its parts and goes no
\* further.
LEMMA Parts ==
  ASSUME NEW a \in Seq(Token)
  PROVE  Wellformed(a) <=>
           \E h, g, e \in 0 .. 1 : Begins(a, h, g, e) /\ Len(a) = Size(h, g, e)
<1> DEFINE t == SubSeq(a, 3, Len(a))
<1>1. Len(a) \in Nat
  OBVIOUS
<1>2. ASSUME Len(a) >= 2
      PROVE  /\ t \in Seq(Token) /\ Len(t) = Len(a) - 2
             /\ \A q \in 1 .. Len(a) - 2 : t[q] = a[q + 2]
  BY <1>2, ArgumentsAfterTwo
<1> HIDE DEF t
<1>3. ASSUME Wellformed(a)
      PROVE  \E h, g, e \in 0 .. 1 : Begins(a, h, g, e) /\ Len(a) = Size(h, g, e)
  <2>1. PICK x \in SetIf, y \in Previous, z \in Lifetime : t = x \o y \o z
    BY <1>3 DEF Wellformed, t
  <2>2. PICK h \in 0 .. 1 : Len(x) = h /\ x \in Seq(Token) /\ (h = 1 => x[1] \in NxXx)
    <3>1. CASE x = <<>>
      <4>1. Len(x) = 0 /\ x \in Seq(Token)
        BY <3>1
      <4> QED BY <4>1
    <3>2. CASE \E o \in NxXx : x = <<o>>
      <4>1. PICK o \in NxXx : x = <<o>>
        BY <3>2
      <4>2. o \in Token
        BY KindsDiffer DEF Token, Bulk
      <4>3. Len(x) = 1 /\ x \in Seq(Token) /\ x[1] = o
        BY <4>1, <4>2
      <4> QED BY <4>3
    <3> QED BY <3>1, <3>2 DEF SetIf
  <2>3. PICK g \in 0 .. 1 : Len(y) = g /\ y \in Seq(Token) /\ (g = 1 => y[1] = "GET")
    <3>1. CASE y = <<>>
      <4>1. Len(y) = 0 /\ y \in Seq(Token)
        BY <3>1
      <4> QED BY <4>1
    <3>2. CASE y = <<"GET">>
      <4>1. "GET" \in Token
        BY KindsDiffer DEF Token, Bulk
      <4>2. Len(y) = 1 /\ y \in Seq(Token) /\ y[1] = "GET"
        BY <3>2, <4>1
      <4> QED BY <4>2
    <3> QED BY <3>1, <3>2 DEF Previous
  <2>4. PICK e \in 0 .. 1 : Len(z) = e + e /\ z \in Seq(Token)
                            /\ (e = 1 => z[1] \in Expiry /\ z[2] \in Numeral)
    <3>1. CASE z = <<>>
      <4>1. Len(z) = 0 + 0 /\ z \in Seq(Token)
        BY <3>1
      <4> QED BY <4>1
    <3>2. CASE \E o \in Expiry, n \in Numeral : z = <<o, n>>
      <4>1. PICK o \in Expiry, n \in Numeral : z = <<o, n>>
        BY <3>2
      <4>2. o \in Token /\ n \in Token
        BY KindsDiffer DEF Token, Bulk
      <4>3. Len(z) = 1 + 1 /\ z \in Seq(Token) /\ z[1] = o /\ z[2] = n
        BY <4>1, <4>2
      <4> QED BY <4>3
    <3> QED BY <3>1, <3>2 DEF Lifetime
  <2>5. /\ Len(t) = h + g + e + e
        /\ \A q \in 1 .. h : t[q] = x[q]
        /\ \A q \in 1 .. g : t[h + q] = y[q]
        /\ \A q \in 1 .. e + e : t[h + g + q] = z[q]
    BY <2>1, <2>2, <2>3, <2>4, SMTT(30)
  <2>6. Len(a) >= 2 /\ a[1] \in Bulk /\ a[2] \in Bulk
    BY <1>3 DEF Wellformed
  <2>7. Len(a) = Size(h, g, e)
    BY <1>2, <2>5, <2>6 DEF Size
  <2>8. h = 1 => a[3] \in NxXx
    BY <1>2, <2>2, <2>5, <2>6
  <2>9. g = 1 => a[3 + h] = "GET"
    BY <1>2, <2>3, <2>5, <2>6
  <2>10. e = 1 => a[3 + h + g] \in Expiry /\ a[4 + h + g] \in Numeral
    <3> SUFFICES ASSUME e = 1 PROVE a[3 + h + g] \in Expiry /\ a[4 + h + g] \in Numeral
      OBVIOUS
    <3>1. t[h + g + 1] = z[1] /\ t[h + g + 2] = z[2]
      BY <2>5
    <3>2. t[h + g + 1] = a[3 + h + g] /\ t[h + g + 2] = a[4 + h + g]
      BY <1>2, <2>5, <2>6
    <3> QED BY <2>4, <3>1, <3>2
  <2> QED BY <2>6, <2>7, <2>8, <2>9, <2>10 DEF Begins
<1>4. ASSUME NEW h \in 0 .. 1, NEW g \in 0 .. 1, NEW e \in 0 .. 1,
             Begins(a, h, g, e), Len(a) = Size(h, g, e)
      PROVE  Wellformed(a)
  <2> DEFINE x == IF h = 1 THEN <<a[3]>> ELSE <<>>
             y == IF g = 1 THEN <<"GET">> ELSE <<>>
             z == IF e = 1 THEN <<a[3 + h + g], a[4 + h + g]>> ELSE <<>>
  <2>1. Len(a) >= 2 /\ a[1] \in Bulk /\ a[2] \in Bulk
    BY <1>4 DEF Begins, Size
  <2>2. x \in SetIf
    BY <1>4 DEF Begins, SetIf
  <2>3. y \in Previous
    BY DEF Previous
  <2>4. z \in Lifetime
    BY <1>4 DEF Begins, Lifetime
  <2>5. x \in Seq(Token) /\ Len(x) = h
    <3>1. h = 1 => a[3] \in Token
      BY <1>4, KindsDiffer DEF Begins, Token, Bulk
    <3>2. CASE h = 0
      BY <3>2
    <3>3. CASE h = 1
      BY <3>1, <3>3
    <3> QED BY <3>2, <3>3
  <2>6. y \in Seq(Token) /\ Len(y) = g
    <3>1. "GET" \in Token
      BY KindsDiffer DEF Token, Bulk
    <3>2. CASE g = 0
      BY <3>2
    <3>3. CASE g = 1
      BY <3>1, <3>3
    <3> QED BY <3>2, <3>3
  <2>7. z \in Seq(Token) /\ Len(z) = e + e
    <3>1. e = 1 => a[3 + h + g] \in Token /\ a[4 + h + g] \in Token
      BY <1>4, KindsDiffer DEF Begins, Token, Bulk
    <3>2. CASE e = 0
      BY <3>2
    <3>3. CASE e = 1
      BY <3>1, <3>3
    <3> QED BY <3>2, <3>3
  <2>8. Len(t) = h + g + e + e
    BY <1>2, <1>4, <2>1 DEF Size
  <2>9. \A q \in 1 .. Len(t) : t[q] = (x \o y \o z)[q]
    <3> SUFFICES ASSUME NEW q \in 1 .. Len(t) PROVE t[q] = (x \o y \o z)[q]
      OBVIOUS
    <3>1. t[q] = a[q + 2]
      BY <1>2, <2>1
    <3>2. CASE q <= h
      <4>1. (x \o y \o z)[q] = x[q] /\ q = 1 /\ h = 1
        BY <2>5, <2>6, <2>7, <3>2
      <4> QED BY <3>1, <4>1
    <3>3. CASE q > h /\ q <= h + g
      <4>1. (x \o y \o z)[q] = y[q - h] /\ q = h + 1 /\ g = 1
        BY <2>5, <2>6, <2>7, <3>3
      <4> QED BY <1>4, <3>1, <4>1 DEF Begins
    <3>4. CASE q > h + g
      <4>1. (x \o y \o z)[q] = z[q - h - g] /\ q - h - g \in 1 .. 2 /\ e = 1
        BY <2>5, <2>6, <2>7, <2>8, <3>4
      <4>2. CASE q = h + g + 1
        BY <3>1, <4>1, <4>2
      <4>3. CASE q = h + g + 2
        BY <3>1, <4>1, <4>3
      <4> QED BY <4>1, <4>2, <4>3
    <3> QED BY <2>8, <3>2, <3>3, <3>4
  <2>10. t = x \o y \o z
    <3>1. x \o y \o z \in Seq(Token) /\ Len(x \o y \o z) = h + g + e + e
      BY <2>5, <2>6, <2>7
    <3>2. t \in Seq(Token)
      BY <1>2, <2>1
    <3> HIDE DEF x, y, z
    <3> QED BY <2>8, <2>9, <3>1, <3>2, SeqEqual
  <2> HIDE DEF x, y, z
  <2> QED BY <2>1, <2>2, <2>3, <2>4, <2>10 DEF Wellformed, t
<1> QED BY <1>3, <1>4

\* What may follow a beginning of a list of the syntax.
LEMMA NextArgument ==
  ASSUME NEW a \in Seq(Token), Wellformed(a),
         NEW h \in 0 .. 1, NEW g \in 0 .. 1, NEW e \in 0 .. 1, Begins(a, h, g, e),
         NEW n, n = Size(h, g, e) + 1, n <= Len(a)
  PROVE  /\ e = 0 /\ a[n] \in Option
         /\ a[n] \in NxXx => h = 0 /\ g = 0
         /\ a[n] = "GET" => g = 0
         /\ a[n] \in Expiry => Len(a) = n + 1 /\ a[n + 1] \in Numeral
<1>1. PICK q \in 0 .. 1, j \in 0 .. 1, k \in 0 .. 1 :
        Begins(a, q, j, k) /\ Len(a) = Size(q, j, k)
  BY Parts
<1>2. e = 0
  BY <1>1, KindsDiffer DEF Begins, Size
<1>3. CASE h = 0 /\ g = 0
  BY <1>1, <1>2, <1>3, KindsDiffer DEF Begins, Size
<1>4. CASE h = 1 /\ g = 0
  BY <1>1, <1>2, <1>4, KindsDiffer DEF Begins, Size
<1>5. CASE h = 0 /\ g = 1
  BY <1>1, <1>2, <1>5, KindsDiffer DEF Begins, Size
<1>6. CASE h = 1 /\ g = 1
  BY <1>1, <1>2, <1>6, KindsDiffer DEF Begins, Size
<1> QED BY <1>3, <1>4, <1>5, <1>6

-----------------------------------------------------------------------------
(* The parser.                                                             *)

LEMMA KindIs ==
  /\ Kind[0] = Numeral /\ Kind[1] = Expiry /\ Kind[2] = {"GET"} /\ Kind[3] = NxXx
  /\ Kind[4] = Bulk /\ Kind[5] = Bulk
<1>1. 0 \in 0 .. 5 /\ 1 \in 0 .. 5 /\ 2 \in 0 .. 5 /\ 3 \in 0 .. 5 /\ 4 \in 0 .. 5 /\ 5 \in 0 .. 5
  OBVIOUS
<1>2. 0 # 1 /\ 0 # 2 /\ 0 # 3 /\ 0 # 4 /\ 0 # 5 /\ 1 # 2 /\ 1 # 3 /\ 1 # 4 /\ 1 # 5
      /\ 2 # 3 /\ 2 # 4 /\ 2 # 5 /\ 3 # 4 /\ 3 # 5
  OBVIOUS
<1>3. Kind[0] = Numeral
  BY <1>1, <1>2, Zenon DEF Kind
<1>4. Kind[1] = Expiry
  BY <1>1, <1>2, Zenon DEF Kind
<1>5. Kind[2] = {"GET"}
  BY <1>1, <1>2, Zenon DEF Kind
<1>6. Kind[3] = NxXx
  BY <1>1, <1>2, Zenon DEF Kind
<1>7. Kind[4] = Bulk
  BY <1>1, <1>2, Zenon DEF Kind
<1>8. Kind[5] = Bulk
  BY <1>1, <1>2, Zenon DEF Kind
<1> QED BY <1>3, <1>4, <1>5, <1>6, <1>7, <1>8

LEMMA InvInit == Init => Inv
<1> SUFFICES ASSUME Init PROVE Inv
  OBVIOUS
<1>1. input \in Seq(Token)
  BY InputsAssumption DEF Init
<1>2. TypeOK
  BY <1>1 DEF Init, TypeOK, NoNode
<1>3. SlotsMatchBits /\ RolesInOrder
  BY DEF Init, SlotsMatchBits, RolesInOrder, NoNode
<1> QED BY <1>2, <1>3 DEF Init, Inv, SlotsOK, AcceptsGrammar

\* A step within the loops that leaves the list and the verdict alone.
Inside(p) == UNCHANGED <<input, verdict>> /\ pc' = p

\* The slots are in order once the arguments of the syntax are taken ...
LEMMA TakenSlots ==
  ASSUME Inv, Inside("options"), NEW h \in 0 .. 1, NEW g \in 0 .. 1, NEW e \in 0 .. 1,
         cur' = [state |-> cur'.state, parsed |-> cur'.parsed, next |-> cur'.next],
         Taken(h, g, e)'
  PROVE  SlotsOK'
<1>1. input' = input /\ input \in Seq(Token) /\ verdict' \in {"none", "valid", "null"}
      /\ pc' = "options"
  BY DEF Inv, SlotsOK, TypeOK, Inside
<1>2. /\ cur'.parsed \in [0 .. 5 -> 0 .. Len(input)]
      /\ cur'.state \subseteq 0 .. 7 /\ cur'.next \in 0 .. Len(input)
  BY <1>1 DEF Taken, Begins, Size, NoNode
<1>3. TypeOK'
  BY <1>1, <1>2 DEF TypeOK
<1>4. SlotsMatchBits'
  <2> SUFFICES ASSUME NEW b \in 0 .. 5
               PROVE  IF b \in cur'.state
                      THEN cur'.parsed[b] # NoNode /\ input[cur'.parsed[b]] \in Kind[b]
                      ELSE cur'.parsed[b] = NoNode
    BY <1>1 DEF SlotsMatchBits
  <2>1. CASE b = 0
    BY <1>1, <2>1, KindIs DEF Taken, Begins, NoNode
  <2>2. CASE b = 1
    BY <1>1, <2>2, KindIs DEF Taken, Begins, NoNode
  <2>3. CASE b = 2
    BY <1>1, <2>3, KindIs DEF Taken, Begins, NoNode
  <2>4. CASE b = 3
    BY <1>1, <2>4, KindIs DEF Taken, Begins, NoNode
  <2>5. CASE b = 4
    BY <1>1, <2>5, KindIs DEF Taken, Begins, NoNode
  <2>6. CASE b = 5
    BY <1>1, <2>6, KindIs DEF Taken, Begins, NoNode
  <2> QED BY <2>1, <2>2, <2>3, <2>4, <2>5, <2>6
<1>5. RolesInOrder'
  BY <1>1 DEF RolesInOrder, Taken, NoNode
<1> QED BY <1>3, <1>4, <1>5 DEF SlotsOK

\* ... and the loop goes on as Inv says.
LEMMA TakenInv ==
  ASSUME Inv, Inside("options"), NEW h \in 0 .. 1, NEW g \in 0 .. 1, NEW e \in 0 .. 1,
         cur' = [state |-> cur'.state, parsed |-> cur'.parsed, next |-> cur'.next],
         Taken(h, g, e)'
  PROVE  Inv'
  BY TakenSlots DEF Inv, Inside, AcceptsGrammar

\* A list that the syntax rules out puts the state at -1; a slot may have been
\* filled before, in the order of the roles.
LEMMA RefusedInv ==
  ASSUME Inv, Inside("options"), ~ Wellformed(input),
         cur'.state = MinusOne, RolesInOrder',
         cur' \in [state : SUBSET (0 .. 7), parsed : [0 .. 5 -> 0 .. Len(input)],
                   next : 0 .. Len(input)]
  PROVE  Inv'
<1>1. Negative(cur'.state)
  BY DEF Negative, MinusOne
<1>2. TypeOK'
  BY DEF TypeOK, Inv, SlotsOK, Inside
<1>3. SlotsMatchBits'
  BY <1>1 DEF SlotsMatchBits
<1>4. Negative(cur.state)' /\ ~ Wellformed(input)'
  BY <1>1 DEF Inside, Wellformed
<1> QED BY <1>2, <1>3, <1>4 DEF Inv, SlotsOK, Inside, AcceptsGrammar

\* The parser returns the right verdict.
LEMMA ReturnInv ==
  ASSUME Inv, NEW v \in {"valid", "null"}, Return(v), v = "valid" <=> Wellformed(input)
  PROVE  Inv'
<1>1. SlotsOK'
  BY DEF Inv, Return, SlotsOK, TypeOK, SlotsMatchBits, RolesInOrder, IsBulk
<1>2. AcceptsGrammar'
  BY DEF Return, AcceptsGrammar, Wellformed
<1> QED BY <1>1, <1>2 DEF Inv, Return

LEMMA StartStep ==
  ASSUME Inv, Start
  PROVE  Inv'
<1>1. input \in Seq(Token) /\ cur.parsed = [b \in 0 .. 5 |-> NoNode]
  BY DEF Inv, SlotsOK, TypeOK, Start
<1>2. CASE input = <<>> /\ Return("null")
  <2>1. ~ Wellformed(input)
    BY <1>2 DEF Wellformed
  <2> QED BY <1>2, <2>1, ReturnInv
<1>3. CASE input # <<>> /\ cur' = [cur EXCEPT !.state = {6}, !.next = 1]
           /\ pc' = "stage_a" /\ UNCHANGED <<input, verdict>>
  <2>1. Len(input) \in Nat /\ Len(input) >= 1
    BY <1>1, <1>3
  <2>2. cur' = [state |-> {6}, parsed |-> cur.parsed, next |-> 1]
    BY <1>3 DEF Inv, SlotsOK, TypeOK
  <2>3. TypeOK'
    BY <1>3, <2>1, <2>2 DEF Inv, SlotsOK, TypeOK
  <2>4. SlotsMatchBits' /\ RolesInOrder'
    BY <1>1, <2>2 DEF SlotsMatchBits, RolesInOrder, NoNode
  <2>5. StageA'
    BY <1>1, <1>3, <2>1, <2>2 DEF StageA
  <2> QED BY <1>3, <2>3, <2>4, <2>5 DEF Inv, SlotsOK, AcceptsGrammar
<1> QED BY <1>2, <1>3 DEF Start

LEMMA StageAStep ==
  ASSUME Inv, StageAKey \/ StageAValue
  PROVE  Inv'
<1>1. input \in Seq(Token) /\ Len(input) \in Nat /\ StageA /\ SlotsOK /\ pc = "stage_a"
  BY DEF Inv, SlotsOK, TypeOK, StageAKey, StageAValue
<1>2. cur = [state |-> cur.state, parsed |-> cur.parsed, next |-> cur.next]
      /\ cur.parsed \in [0 .. 5 -> 0 .. Len(input)]
  BY <1>1 DEF SlotsOK, TypeOK
<1>3. ASSUME StageAFails, ~ Wellformed(input)
      PROVE  Inv'
  <2>1. cur' = [state |-> MinusOne, parsed |-> cur.parsed, next |-> NoNode]
    BY <1>2, <1>3 DEF StageAFails
  <2>2. RolesInOrder'
    BY <1>1, <2>1 DEF SlotsOK, RolesInOrder
  <2>3. cur' \in [state : SUBSET (0 .. 7), parsed : [0 .. 5 -> 0 .. Len(input)],
                  next : 0 .. Len(input)]
    BY <1>1, <1>2, <2>1 DEF MinusOne, NoNode
  <2> QED BY <1>3, <2>1, <2>2, <2>3, RefusedInv DEF Inside, StageAFails
<1>4. CASE StageAKey
  <2>1. cur.state = {6} /\ cur.next = 1 /\ cur.parsed = [b \in 0 .. 5 |-> NoNode]
    BY <1>1, <1>4 DEF StageA, StageAKey
  <2>2. CASE (~ IsBulk(cur.next) \/ succ(cur.next) = NoNode) /\ StageAFails
    <3>1. ~ Wellformed(input)
      BY <1>1, <2>1, <2>2 DEF Wellformed, IsBulk, succ, NoNode
    <3> QED BY <1>3, <2>2, <3>1
  <2>3. CASE IsBulk(cur.next) /\ succ(cur.next) # NoNode /\ cur' = Take(cur, 5)
             /\ UNCHANGED <<input, pc, verdict>>
    <3>1. Len(input) >= 2 /\ input[1] \in Bulk
      BY <1>1, <2>1, <2>3 DEF IsBulk, succ, NoNode
    <3>2. cur' = [state |-> {6, 5}, parsed |-> [b \in 0 .. 5 |-> IF b = 5 THEN 1 ELSE NoNode],
                  next |-> 2]
      <4>1. [cur.parsed EXCEPT ![5] = 1] = [b \in 0 .. 5 |-> IF b = 5 THEN 1 ELSE NoNode]
        BY <2>1
      <4>2. {6} \cup {5} = {6, 5} /\ succ(1) = 2
        BY <1>1, <3>1 DEF succ
      <4> QED BY <2>1, <2>3, <4>1, <4>2 DEF Take
    <3>3. TypeOK'
      BY <1>1, <2>3, <3>1, <3>2, SMTT(30) DEF SlotsOK, TypeOK, NoNode
    <3>4. SlotsMatchBits'
      BY <2>3, <3>1, <3>2, KindIs DEF SlotsMatchBits, NoNode
    <3>5. RolesInOrder'
      BY <3>2 DEF RolesInOrder, NoNode
    <3>6. StageA'
      BY <1>1, <2>3, <3>1, <3>2 DEF StageA
    <3> QED BY <1>1, <2>3, <3>3, <3>4, <3>5, <3>6 DEF Inv, SlotsOK, AcceptsGrammar
  <2> QED BY <1>4, <2>2, <2>3 DEF StageAKey
<1>5. CASE StageAValue
  <2>1. cur.state = {6, 5} /\ cur.next = 2 /\ Len(input) >= 2 /\ input[1] \in Bulk
        /\ cur.parsed = [b \in 0 .. 5 |-> IF b = 5 THEN 1 ELSE NoNode]
    <3>1. {6, 5} # {6}
      OBVIOUS
    <3> QED BY <1>1, <1>5, <3>1 DEF StageA, StageAValue
  <2>2. CASE ~ IsBulk(cur.next) /\ StageAFails
    <3>1. ~ Wellformed(input)
      BY <1>1, <2>1, <2>2 DEF Wellformed, IsBulk
    <3> QED BY <1>3, <2>2, <3>1
  <2>3. CASE IsBulk(cur.next) /\ cur' = Take(cur, 4) /\ pc' = "options"
             /\ UNCHANGED <<input, verdict>>
    <3>1. cur' = [state |-> {6, 5} \cup {4}, parsed |-> [cur.parsed EXCEPT ![4] = 2],
                  next |-> succ(2)]
      BY <2>1, <2>3 DEF Take
    <3>2. [cur.parsed EXCEPT ![4] = 2]
            = [b \in 0 .. 5 |-> IF b = 5 THEN 1 ELSE IF b = 4 THEN 2 ELSE NoNode]
      BY <2>1
    <3>3. Begins(input, 0, 0, 0)
      BY <2>1, <2>3 DEF Begins, Size, IsBulk
    <3>4. Taken(0, 0, 0)'
      BY <1>1, <2>3, <3>1, <3>2, <3>3 DEF Taken, Size, succ, NoNode
    <3> QED BY <2>3, <3>1, <3>4, TakenInv DEF Inside
  <2> QED BY <1>5, <2>2, <2>3 DEF StageAValue
<1> QED BY <1>4, <1>5

\* In the options loop the arguments up to next are a beginning of the syntax.
LEMMA InLoopTaken ==
  ASSUME Inv, InLoop
  PROVE  \E h, g, e \in 0 .. 1 : Taken(h, g, e)
  BY DEF Inv, InLoop, Positive

\* An option that is refused where it stands.
LEMMA RefusedInPlace ==
  ASSUME Inv, Inside("options"), ~ Wellformed(input),
         cur' = [cur EXCEPT !.state = MinusOne]
  PROVE  Inv'
<1>1. cur' = [state |-> MinusOne, parsed |-> cur.parsed, next |-> cur.next]
  BY DEF Inv, SlotsOK, TypeOK
<1>2. RolesInOrder'
  BY <1>1 DEF Inv, SlotsOK, RolesInOrder
<1>3. cur' \in [state : SUBSET (0 .. 7), parsed : [0 .. 5 -> 0 .. Len(input)],
                next : 0 .. Len(input)]
  BY <1>1 DEF Inv, SlotsOK, TypeOK, MinusOne
<1> QED BY <1>1, <1>2, <1>3, RefusedInv

LEMMA FlagStep ==
  ASSUME Inv, ParseNxXx \/ ParseGet
  PROVE  Inv'
<1>1. InLoop /\ input \in Seq(Token) /\ Len(input) \in Nat
  BY DEF Inv, SlotsOK, TypeOK, ParseNxXx, ParseGet, ParseFlag
<1>2. PICK h \in 0 .. 1, g \in 0 .. 1, e \in 0 .. 1 : Taken(h, g, e)
  BY <1>1, InLoopTaken
<1>3. cur.next = Size(h, g, e) + 1 /\ cur.next <= Len(input) /\ Begins(input, h, g, e)
  BY <1>1, <1>2 DEF InLoop, Taken, Size, NoNode
<1>4. Inside("options")
  BY <1>1 DEF Inside, ParseNxXx, ParseGet, ParseFlag, InLoop
<1>5. cur = [state |-> cur.state, parsed |-> cur.parsed, next |-> cur.next]
  BY DEF Inv, SlotsOK, TypeOK
<1>6. cur.next # NoNode
  BY <1>1 DEF InLoop
<1>7. CASE ParseNxXx
  <2>1. input[cur.next] \in NxXx /\ cur' = handle_set_options(cur, 3)
    BY <1>7 DEF ParseNxXx, ParseFlag
  <2>2. CASE ~ is_set_option_valid(cur.state, 3)
    <3>1. ~ (h = 0 /\ g = 0 /\ e = 0)
      BY <1>2, <2>2 DEF is_set_option_valid, Taken
    <3>2. ~ Wellformed(input)
      BY <1>1, <1>3, <2>1, <3>1, NextArgument
    <3> QED BY <1>4, <2>1, <2>2, <3>2, RefusedInPlace DEF handle_set_options
  <2>3. CASE is_set_option_valid(cur.state, 3)
    <3>1. h = 0 /\ g = 0 /\ e = 0
      BY <1>2, <2>3 DEF is_set_option_valid, Taken
    <3>2. cur' = [state |-> cur.state \cup {3}, parsed |-> [cur.parsed EXCEPT ![3] = cur.next],
                  next |-> succ(cur.next)]
      BY <1>6, <2>1, <2>3 DEF handle_set_options, Take
    <3>3. Begins(input, 1, 0, 0)
      BY <1>3, <2>1, <3>1 DEF Begins, Size
    <3>4. cur'.state = {6, 5, 4} \cup {3}
      BY <1>2, <3>1, <3>2 DEF Taken
    <3>5. cur'.next = IF Size(1, 0, 0) < Len(input) THEN Size(1, 0, 0) + 1 ELSE NoNode
      BY <1>3, <3>1, <3>2 DEF Size, succ
    <3>6. cur'.parsed = [b \in 0 .. 5 |-> IF b = 5 THEN 1 ELSE IF b = 4 THEN 2 ELSE
                                         IF b = 3 THEN 3 ELSE NoNode]
      <4>1. cur.parsed = [b \in 0 .. 5 |-> IF b = 5 THEN 1 ELSE IF b = 4 THEN 2 ELSE NoNode]
        BY <1>2, <3>1 DEF Taken, NoNode
      <4>2. cur'.parsed = [cur.parsed EXCEPT ![3] = 3]
        BY <1>3, <3>1, <3>2 DEF Size
      <4> QED BY <4>1, <4>2
    <3>7. Taken(1, 0, 0)'
      BY <1>4, <3>3, <3>4, <3>5, <3>6 DEF Taken, Inside
    <3> QED BY <1>4, <3>2, <3>7, TakenInv
  <2> QED BY <2>2, <2>3
<1>8. CASE ParseGet
  <2>1. input[cur.next] = "GET" /\ cur' = handle_set_options(cur, 2)
    BY <1>8 DEF ParseGet, ParseFlag
  <2>2. CASE ~ is_set_option_valid(cur.state, 2)
    <3>1. ~ (g = 0 /\ e = 0)
      BY <1>2, <2>2 DEF is_set_option_valid, Taken
    <3>2. ~ Wellformed(input)
      BY <1>1, <1>3, <2>1, <3>1, NextArgument
    <3> QED BY <1>4, <2>1, <2>2, <3>2, RefusedInPlace DEF handle_set_options
  <2>3. CASE is_set_option_valid(cur.state, 2)
    <3>1. g = 0 /\ e = 0
      BY <1>2, <2>3 DEF is_set_option_valid, Taken
    <3>2. cur' = [state |-> cur.state \cup {2}, parsed |-> [cur.parsed EXCEPT ![2] = cur.next],
                  next |-> succ(cur.next)]
      BY <1>6, <2>1, <2>3 DEF handle_set_options, Take
    <3>3. Begins(input, h, 1, 0)
      BY <1>3, <2>1, <3>1 DEF Begins, Size
    <3>4. cur'.state = {6, 5, 4} \cup (IF h = 1 THEN {3} ELSE {}) \cup {2}
      BY <1>2, <3>1, <3>2 DEF Taken
    <3>5. cur'.next = IF Size(h, 1, 0) < Len(input) THEN Size(h, 1, 0) + 1 ELSE NoNode
      BY <1>3, <3>1, <3>2 DEF Size, succ
    <3>6. cur'.parsed = [b \in 0 .. 5 |-> IF b = 5 THEN 1 ELSE IF b = 4 THEN 2 ELSE
                                         IF b = 3 /\ h = 1 THEN 3 ELSE
                                         IF b = 2 THEN 3 + h ELSE NoNode]
      <4>1. cur.parsed = [b \in 0 .. 5 |-> IF b = 5 THEN 1 ELSE IF b = 4 THEN 2 ELSE
                                          IF b = 3 /\ h = 1 THEN 3 ELSE NoNode]
        BY <1>2, <3>1 DEF Taken, NoNode
      <4>2. cur'.parsed = [cur.parsed EXCEPT ![2] = 3 + h]
        BY <1>3, <3>1, <3>2 DEF Size
      <4> QED BY <4>1, <4>2
    <3>7. Taken(h, 1, 0)'
      BY <1>4, <3>3, <3>4, <3>5, <3>6 DEF Taken, Inside
    <3> QED BY <1>4, <3>2, <3>7, TakenInv
  <2> QED BY <2>2, <2>3
<1> QED BY <1>7, <1>8

LEMMA ExpiryStep ==
  ASSUME Inv, ParseExpiry
  PROVE  Inv'
<1> DEFINE opt == handle_set_options(cur, 1)
           num == handle_set_options(opt, 0)
           last == opt.next
<1>1. InLoop /\ input \in Seq(Token) /\ Len(input) \in Nat /\ input[cur.next] \in Expiry
  BY DEF Inv, SlotsOK, TypeOK, ParseExpiry
<1>2. PICK h \in 0 .. 1, g \in 0 .. 1, e \in 0 .. 1 : Taken(h, g, e)
  BY <1>1, InLoopTaken
<1>3. cur.next = Size(h, g, e) + 1 /\ cur.next <= Len(input) /\ Begins(input, h, g, e)
  BY <1>1, <1>2 DEF InLoop, Taken, Size, NoNode
<1>4. /\ cur = [state |-> cur.state, parsed |-> cur.parsed, next |-> cur.next]
      /\ cur.parsed \in [0 .. 5 -> 0 .. Len(input)] /\ cur.state \subseteq 0 .. 7
      /\ ~ Negative(cur.state) /\ cur.next # NoNode
  BY <1>1, <1>2 DEF Inv, SlotsOK, TypeOK, InLoop, Positive
<1>5. Wellformed(input) => e = 0 /\ Len(input) = cur.next + 1 /\ input[cur.next + 1] \in Numeral
  BY <1>1, <1>3, NextArgument
<1>6. CASE e = 1
  <2>1. ~ Wellformed(input)
    BY <1>5, <1>6
  <2>2. 1 \in cur.state
    BY <1>2, <1>6 DEF Taken
  <2>3. opt = [state |-> MinusOne, parsed |-> cur.parsed, next |-> cur.next]
    <3>1. ~ is_set_option_valid(cur.state, 1)
      BY <2>2 DEF is_set_option_valid
    <3>2. opt = [cur EXCEPT !.state = MinusOne]
      BY <3>1 DEF handle_set_options
    <3> QED BY <1>4, <3>2
  <2>4. num = [state |-> MinusOne, parsed |-> cur.parsed, next |-> cur.next]
    <3>1. ~ is_set_option_valid(opt.state, 0)
      BY <2>3 DEF is_set_option_valid, MinusOne
    <3>2. num = [opt EXCEPT !.state = MinusOne]
      BY <3>1 DEF handle_set_options
    <3> QED BY <2>3, <3>2
  <2>5. validate_px_ex_content(num, last) = num
    BY <2>4 DEF validate_px_ex_content, Negative, MinusOne
  <2>6. CASE Return("null")
    BY <2>1, <2>6, ReturnInv
  <2>7. CASE cur' = validate_px_ex_content(num, last) /\ UNCHANGED <<input, pc, verdict>>
    <3>1. cur' = [cur EXCEPT !.state = MinusOne]
      BY <1>4, <2>4, <2>5, <2>7, SMTT(30)
    <3> QED BY <1>1, <2>1, <2>7, <3>1, RefusedInPlace DEF Inside, InLoop
  <2> QED BY <2>6, <2>7 DEF ParseExpiry
<1>7. CASE e = 0
  <2>1. is_set_option_valid(cur.state, 1)
    BY <1>2, <1>7 DEF is_set_option_valid, Taken
  <2>2. opt = [state |-> cur.state \cup {1}, parsed |-> [cur.parsed EXCEPT ![1] = cur.next],
               next |-> succ(cur.next)]
    BY <1>4, <2>1 DEF handle_set_options, Take
  <2>3. CASE (last = NoNode \/ ~ IsBulk(last) \/ succ(last) # NoNode) /\ Return("null")
    <3>1. ~ Wellformed(input)
      <4> SUFFICES ASSUME Wellformed(input) PROVE FALSE
        OBVIOUS
      <4>1. last = cur.next + 1
        BY <1>1, <1>3, <1>5, <2>2 DEF succ, Size
      <4>2. IsBulk(last) /\ succ(last) = NoNode /\ last # NoNode
        BY <1>1, <1>3, <1>5, <4>1 DEF succ, IsBulk, Bulk, NoNode, Size
      <4> QED BY <2>3, <4>2
    <3> QED BY <2>3, <3>1, ReturnInv
  <2>4. CASE /\ ~ (last = NoNode \/ ~ IsBulk(last) \/ succ(last) # NoNode)
             /\ cur' = validate_px_ex_content(num, last) /\ UNCHANGED <<input, pc, verdict>>
    <3>1. Inside("options")
      BY <1>1, <2>4 DEF Inside, InLoop
    <3>2. last = cur.next + 1 /\ Len(input) = cur.next + 1 /\ succ(last) = NoNode
      BY <1>1, <1>3, <2>2, <2>4 DEF succ, Size, NoNode
    <3>3. is_set_option_valid(opt.state, 0)
      BY <1>2, <1>7, <2>2 DEF is_set_option_valid, Taken
    <3> DEFINE slots == [[cur.parsed EXCEPT ![1] = cur.next] EXCEPT ![0] = cur.next + 1]
    <3>4. num = [state |-> cur.state \cup {1} \cup {0}, parsed |-> slots, next |-> NoNode]
      BY <2>2, <2>4, <3>2, <3>3 DEF handle_set_options, Take
    <3>5. slots = [b \in 0 .. 5 |-> IF b = 5 THEN 1 ELSE
                                    IF b = 4 THEN 2 ELSE
                                    IF b = 3 /\ h = 1 THEN 3 ELSE
                                    IF b = 2 /\ g = 1 THEN 3 + h ELSE
                                    IF b = 1 THEN 3 + h + g ELSE
                                    IF b = 0 THEN 4 + h + g ELSE NoNode]
      BY <1>2, <1>3, <1>7, SMTT(30) DEF Taken, Size, NoNode
    <3> HIDE DEF slots, opt, num, last
    <3>6. CASE input[last] \in Numeral
      <4>1. cur' = num
        BY <2>4, <3>6 DEF validate_px_ex_content
      <4>2. Begins(input, h, g, 1)
        BY <1>1, <1>3, <1>7, <3>2, <3>6 DEF Begins, Size
      <4>3. cur'.state = {6, 5, 4} \cup (IF h = 1 THEN {3} ELSE {})
                                   \cup (IF g = 1 THEN {2} ELSE {}) \cup {1, 0}
        BY <1>2, <1>7, <3>4, <4>1 DEF Taken
      <4>4. Size(h, g, 1) = Len(input)
        BY <1>3, <1>7, <3>2 DEF Size
      <4>5. Taken(h, g, 1)'
        BY <1>1, <3>1, <3>4, <3>5, <4>1, <4>2, <4>3, <4>4 DEF Taken, Inside
      <4> QED BY <3>1, <3>4, <4>1, <4>5, TakenInv
    <3>7. CASE input[last] \notin Numeral
      <4>1. cur' = [state |-> MinusOne, parsed |-> slots, next |-> NoNode]
        <5>1. ~ Negative(num.state)
          BY <1>4, <3>4 DEF Negative
        <5> QED BY <2>4, <3>4, <3>7, <5>1 DEF validate_px_ex_content
      <4>2. ~ Wellformed(input)
        BY <1>5, <3>2, <3>7
      <4>3. RolesInOrder'
        BY <3>5, <4>1 DEF RolesInOrder, NoNode
      <4>4. slots \in [0 .. 5 -> 0 .. Len(input)]
        BY <1>1, <1>3, <1>7, <3>2, <3>5 DEF Size, NoNode
      <4>5. cur' \in [state : SUBSET (0 .. 7), parsed : [0 .. 5 -> 0 .. Len(input)],
                      next : 0 .. Len(input)]
        BY <1>1, <4>1, <4>4 DEF MinusOne, NoNode
      <4> QED BY <3>1, <4>1, <4>2, <4>3, <4>5, RefusedInv
    <3> QED BY <3>6, <3>7
  <2> QED BY <2>3, <2>4 DEF ParseExpiry
<1> QED BY <1>6, <1>7

LEMMA UnknownStep ==
  ASSUME Inv, ParseUnknown
  PROVE  Inv'
<1>1. InLoop /\ input \in Seq(Token) /\ Len(input) \in Nat /\ input[cur.next] \notin Option
  BY DEF Inv, SlotsOK, TypeOK, ParseUnknown
<1>2. PICK h \in 0 .. 1, g \in 0 .. 1, e \in 0 .. 1 : Taken(h, g, e)
  BY <1>1, InLoopTaken
<1>3. cur.next = Size(h, g, e) + 1 /\ cur.next <= Len(input) /\ Begins(input, h, g, e)
  BY <1>1, <1>2 DEF InLoop, Taken, Size, NoNode
<1>4. ~ Wellformed(input)
  BY <1>1, <1>3, NextArgument
<1> QED BY <1>4, ReturnInv DEF ParseUnknown

LEMMA FinishStep ==
  ASSUME Inv, Finish
  PROVE  Inv'
<1>1. input \in Seq(Token) /\ Len(input) \in Nat /\ pc = "options"
  BY DEF Inv, SlotsOK, TypeOK, Finish
<1>2. CASE Negative(cur.state) /\ ~ Wellformed(input)
  BY <1>2, ReturnInv DEF Finish
<1>3. ASSUME NEW h \in 0 .. 1, NEW g \in 0 .. 1, NEW e \in 0 .. 1, Taken(h, g, e)
      PROVE  Inv'
  <2>1. ~ Negative(cur.state) /\ Positive(cur.state)
    BY <1>3 DEF Taken, Negative, Positive
  <2>2. cur.next = NoNode
    BY <2>1 DEF Finish, InLoop
  <2>3. Len(input) = Size(h, g, e)
    BY <1>1, <1>3, <2>2 DEF Taken, Begins, Size, NoNode
  <2>4. Wellformed(input)
    BY <1>1, <1>3, <2>3, Parts DEF Taken
  <2> QED BY <2>1, <2>4, ReturnInv DEF Finish
<1> QED BY <1>1, <1>2, <1>3 DEF Inv

LEMMA InvStep == Inv /\ [Next]_vars => Inv'
<1> SUFFICES ASSUME Inv, [Next]_vars PROVE Inv'
  OBVIOUS
<1>1. CASE UNCHANGED vars
  <2>1. SlotsOK'
    BY <1>1 DEF Inv, vars, SlotsOK, TypeOK, SlotsMatchBits, RolesInOrder
  <2>2. AcceptsGrammar'
    BY <1>1 DEF Inv, vars, AcceptsGrammar, Wellformed
  <2>3. (\E h, g, e \in 0 .. 1 : Taken(h, g, e)) => (\E h, g, e \in 0 .. 1 : Taken(h, g, e))'
    BY <1>1 DEF vars, Taken, Begins
  <2> QED BY <1>1, <2>1, <2>2, <2>3 DEF Inv, vars, StageA, Wellformed
<1> QED BY <1>1, StartStep, StageAStep, FlagStep, ExpiryStep, UnknownStep, FinishStep DEF Next

\* The options loop of validate_set_cmd has taken a prefix of the syntax and no
\* other argument, or has put the state at -1 for a list the syntax rules out.
THEOREM ParserInvariant == Spec => []Inv
  BY InvInit, InvStep, PTL DEF Spec

-----------------------------------------------------------------------------
(* The properties.                                                         *)

\* For argument lists of any length, validate_set_cmd accepts exactly those of
\* the syntax.
THEOREM AcceptsGrammarCorrect == Spec => []AcceptsGrammar
<1>1. Inv => AcceptsGrammar
  BY DEF Inv
<1> QED BY <1>1, ParserInvariant, PTL

\* What execute_set_cmd relies on: the slots agree with the bits, in number, kind
\* and order, at every turn of the loops.
THEOREM SlotsCorrect == Spec => []SlotsOK
<1>1. Inv => SlotsOK
  BY DEF Inv
<1> QED BY <1>1, ParserInvariant, PTL

-----------------------------------------------------------------------------
(* The search for the command and CONFIG GET (Dispatch.tla), for requests  *)
(* of any length and depth.                                                *)

\* The word w is what the name p stands for.
Is(p, w) == does_the_strings_match(p, w)

\* parse_command has counted the arrays it has entered, up to UcharSize.
Counted ==
  /\ request \in Request
  /\ below \in 0 .. request.depth
  /\ first_array = (request.depth - below) % UcharSize
  /\ \/ cmd_pc \in {"find", "config", "word", "pair"}
     \/ cmd_pc = "done" /\ rtn # "NULL"
     => below = 0 /\ first_array = 1

\* A search for w stands at the entry it of table, and none before it is the one.
Searching(it, nx, table, size, w) ==
  /\ it \in 1 .. size + 1
  /\ \/ nx = it + 1
     \/ nx = 1 /\ it = 1
  /\ \A n \in 1 .. it - 1 : ~ Is(table[n], w)

\* What the search has found.
Found ==
  /\ cmd_pc \in {"setup", "parse", "exit"} => item = 0 /\ i = 0
  /\ item \in 0 .. 5 /\ i \in 0 .. 6
  /\ cmd_pc = "find" => Searching(item, i, command_table, 4, request.words[1])
  /\ cmd_pc \in {"config", "word", "pair"} => Is("CONFIG", request.words[1])
  /\ cmd_pc = "config" => Searching(item, i, config_cmd_options, 2, request.words[2])
  /\ cmd_pc = "done" =>
       \/ rtn \in {"ECHO", "SET", "GET"} /\ Is(rtn, request.words[1])
       \/ rtn = "NULL" /\ first_array # 1
       \/ rtn = "NULL" /\ \A n \in 1 .. 4 : ~ Is(command_table[n], request.words[1])
       \/ rtn = "NULL" /\ Is("ECHO", request.words[1]) /\ Len(request.words) = 1
       \/ rtn \in {"NULL", "pairs", "*0"} /\ Is("CONFIG", request.words[1])

Where == {"setup", "parse", "find", "config", "word", "pair", "done", "exit", "crash"}

\* The count and the searches.
DispatchInv == cmd_pc \in Where /\ Counted /\ Found

\* Division with a remainder.
LEMMA Divided ==
  ASSUME NEW t \in Nat, NEW u \in Nat \ {0}
  PROVE  \E q \in Int, r \in 0 .. u - 1 : r = t % u /\ t = q * u + r
<1>1. t % u \in 0 .. u - 1
  OBVIOUS
<1>2. t \div u \in Int
  OBVIOUS
<1>3. t = (t \div u) * u + (t % u)
  OBVIOUS
<1> QED BY <1>1, <1>2, <1>3

\* Counting on in an unsigned char is counting on.
LEMMA CountedOn ==
  ASSUME NEW u \in Nat \ {0}, NEW x \in Nat
  PROVE  ((x % u) + 1) % u = (x + 1) % u
<1>1. PICK q \in Int, r \in 0 .. u - 1 : r = x % u /\ x = q * u + r
  BY Divided
<1>2. PICK p \in Int, o \in 0 .. u - 1 : o = (x + 1) % u /\ x + 1 = p * u + o
  BY Divided
<1>3. PICK a \in Int, b \in Int : a = q * u /\ b = p * u
  OBVIOUS
<1>4. p * u = q * u + (p - q) * u
  OBVIOUS
<1>5. PICK c \in Int : c = (p - q) * u /\ b = a + c
  BY <1>3, <1>4
<1>6. p - q >= 2 => c >= u + u
  BY <1>5
<1>7. p - q < 0 => c <= 0 - u
  BY <1>5
<1>8. c = r + 1 - o
  BY <1>1, <1>2, <1>3, <1>5
<1>9. p - q = 0 \/ p - q = 1
  BY <1>6, <1>7, <1>8
<1>10. o = r + 1 \/ (o = 0 /\ r + 1 = u)
  BY <1>5, <1>8, <1>9
<1>11. CASE o = r + 1
  <2>1. (r + 1) % u = r + 1
    BY <1>11
  <2> QED BY <1>1, <1>2, <1>11, <2>1
<1>12. CASE o = 0 /\ r + 1 = u
  <2>1. (r + 1) % u = 0
    BY <1>12
  <2> QED BY <1>1, <1>2, <1>12, <2>1
<1> QED BY <1>10, <1>11, <1>12

\* The tables.
LEMMA Tables ==
  /\ Len(command_table) = 4 /\ DOMAIN command_table = 1 .. 4
  /\ command_table[1] = "ECHO" /\ command_table[2] = "SET"
  /\ command_table[3] = "GET" /\ command_table[4] = "CONFIG"
  /\ Len(config_cmd_options) = 2
BY DEF command_table, config_cmd_options

\* One more entry is not the one: the search moves on.
LEMMA SearchesOn ==
  ASSUME NEW it, NEW nx, NEW table, NEW size \in Nat, NEW w,
         Searching(it, nx, table, size, w), it <= size, ~ Is(table[it], w)
  PROVE  Searching(nx, nx + 1, table, size, w)
<1>1. it \in Nat /\ nx \in 1 .. size + 1 /\ (nx = it \/ nx = it + 1)
  BY DEF Searching
<1>2. \A n \in 1 .. nx - 1 : ~ Is(table[n], w)
  <2> SUFFICES ASSUME NEW n \in 1 .. nx - 1 PROVE ~ Is(table[n], w)
    OBVIOUS
  <2>1. CASE n = it
    BY <2>1
  <2>2. CASE n # it
    <3>1. n \in 1 .. it - 1
      BY <1>1, <2>2
    <3> QED BY <3>1 DEF Searching
  <2> QED BY <2>1, <2>2
<1> QED BY <1>1, <1>2 DEF Searching

\* The requests.
LEMMA Requests ==
  ASSUME request \in Request
  PROVE  /\ request.depth \in Nat \ {0} /\ Len(request.words) \in Nat \ {0}
         /\ UcharSize \in Nat \ {0}
BY DispatchAssumption

\* Nothing has been entered at first.
LEMMA DispatchInit ==
  ASSUME CmdInit
  PROVE  DispatchInv
<1>1. request \in Request /\ below = request.depth /\ first_array = 0
  BY DEF CmdInit
<1>2. (request.depth - below) % UcharSize = 0 /\ below \in 0 .. request.depth
  BY <1>1, Requests
<1>3. Counted
  BY <1>1, <1>2 DEF CmdInit, Counted
<1> QED BY <1>3 DEF CmdInit, DispatchInv, Where, Found

\* A step that neither counts nor searches nor answers.
LEMMA Resting ==
  ASSUME DispatchInv, UNCHANGED <<request, below, first_array, item, i, rtn>>,
         \/ cmd_pc' = cmd_pc
         \/ cmd_pc \in {"config", "word", "pair"} /\ cmd_pc' \in {"word", "pair", "crash"}
         \/ cmd_pc = "setup" /\ cmd_pc' \in {"parse", "exit"}
  PROVE  DispatchInv'
<1>1. cmd_pc' \in Where
  BY DEF DispatchInv, Where
<1>2. Counted'
  BY DEF DispatchInv, Counted
<1>3. Found'
  BY DEF DispatchInv, Found, Searching, Is, does_the_strings_match
<1> QED BY <1>1, <1>2, <1>3 DEF DispatchInv

\* Every step keeps the count and what the searches have found.
LEMMA DispatchStep ==
  ASSUME DispatchInv, [CmdNext]_cmd_vars
  PROVE  DispatchInv'
<1>0. /\ request.depth \in Nat \ {0} /\ Len(request.words) \in Nat \ {0}
      /\ UcharSize \in Nat \ {0}
  BY Requests DEF DispatchInv, Counted
<1>1. CASE setup
  BY <1>1, Resting DEF setup, search, answer
<1>2. CASE EnterArray
  <2>1. /\ cmd_pc = "parse" /\ below > 0 /\ below' = below - 1
        /\ first_array' = (first_array + 1) % UcharSize
        /\ UNCHANGED <<cmd_pc, request, item, i, rtn>>
    BY <1>2 DEF EnterArray
  <2>2. first_array' = (request'.depth - below') % UcharSize /\ below' \in 0 .. request'.depth
    <3>1. PICK x \in Nat : x = request.depth - below
      BY <1>0 DEF DispatchInv, Counted
    <3>0. below \in 0 .. request.depth
      BY DEF DispatchInv, Counted
    <3>2. request.depth - below' = x + 1 /\ below' \in 0 .. request.depth
      BY <1>0, <2>1, <3>0, <3>1
    <3>3. first_array = x % UcharSize
      BY <3>1 DEF DispatchInv, Counted
    <3>4. ((x % UcharSize) + 1) % UcharSize = (x + 1) % UcharSize
      BY <1>0, CountedOn
    <3> QED BY <2>1, <3>2, <3>3, <3>4
  <2>3. Counted'
    BY <2>1, <2>2 DEF Counted, DispatchInv
  <2>4. Found'
    BY <2>1 DEF Found, DispatchInv
  <2> QED BY <2>1, <2>3, <2>4 DEF DispatchInv
<1>3. CASE FirstString
  <2>1. /\ cmd_pc = "parse" /\ below = 0 /\ item' = 1 /\ i' = 1
        /\ UNCHANGED <<request, below, first_array>>
        /\ \/ first_array = 1 /\ cmd_pc' = "find" /\ rtn' = rtn
           \/ first_array # 1 /\ cmd_pc' = "done" /\ rtn' = "NULL"
    BY <1>3 DEF FirstString, Answer
  <2>2. Counted'
    BY <2>1 DEF Counted, DispatchInv
  <2>3. Found'
    BY <2>1 DEF Found, DispatchInv, Searching
  <2> QED BY <2>1, <2>2, <2>3 DEF DispatchInv, Where
<1>4. CASE find_redis_cmd
  <2> DEFINE w == request.words[1]
  <2>1. /\ cmd_pc = "find" /\ UNCHANGED <<request, below, first_array>>
        /\ below = 0 /\ first_array = 1
        /\ Searching(item, i, command_table, 4, w)
    BY <1>4 DEF find_redis_cmd, DispatchInv, Counted, Found
  <2>2. item \in 1 .. 5 /\ i \in 1 .. 6
    BY <2>1 DEF Searching
  <2>3. CASE item > 4
    <3>1. cmd_pc' = "done" /\ rtn' = "NULL" /\ UNCHANGED <<item, i>>
      BY <1>4, <2>2, <2>3, Tables DEF find_redis_cmd, Answer
    <3>2. \A n \in 1 .. 4 : ~ Is(command_table[n], w)
      BY <2>1, <2>2, <2>3 DEF Searching
    <3>3. Counted'
      BY <2>1, <3>1 DEF Counted, DispatchInv
    <3>4. Found'
      BY <2>1, <2>2, <3>1, <3>2 DEF Found, Is, does_the_strings_match, command_table
    <3> QED BY <3>1, <3>3, <3>4 DEF DispatchInv, Where
  <2>4. CASE item <= 4 /\ ~ Is(command_table[item], w)
    <3>1. UNCHANGED <<cmd_pc, rtn>> /\ item' = i /\ i' = i + 1
      BY <1>4, <2>2, <2>4, Tables DEF find_redis_cmd, NextItem, Is
    <3>2. Searching(i, i + 1, command_table, 4, w)
      BY <2>1, <2>4, SearchesOn
    <3>3. Counted'
      BY <2>1, <3>1 DEF Counted, DispatchInv
    <3>4. item' \in 1 .. 5 /\ i' \in 1 .. 6
      BY <3>1, <3>2 DEF Searching
    <3>5. Searching(item, i, command_table, 4, request.words[1])'
      BY <2>1, <3>1, <3>2 DEF Searching, Is, does_the_strings_match, command_table
    <3>6. Found'
      BY <2>1, <3>1, <3>4, <3>5 DEF Found
    <3> QED BY <2>1, <3>1, <3>3, <3>6 DEF DispatchInv
  <2>5. CASE item <= 4 /\ Is(command_table[item], w)
    <3>1. Handle(command_table[item])
      BY <1>4, <2>2, <2>5, Tables DEF find_redis_cmd, Is
    <3>2. PICK cmd : cmd = command_table[item]
      OBVIOUS
    <3>3. cmd \in {"ECHO", "SET", "GET", "CONFIG"} /\ Is(cmd, w)
      BY <2>2, <2>5, <3>2, Tables
    <3>4. CASE cmd = "CONFIG"
      <4>1. cmd_pc' = "config" /\ item' = 1 /\ i' = 1 /\ rtn' = rtn
        BY <3>1, <3>2, <3>4 DEF Handle
      <4>2. Counted'
        BY <2>1, <4>1 DEF Counted, DispatchInv
      <4>3. Found'
        BY <2>1, <3>3, <3>4, <4>1 DEF Found, Searching, Is, does_the_strings_match
      <4> QED BY <4>1, <4>2, <4>3 DEF DispatchInv, Where
    <3>5. CASE cmd # "CONFIG"
      <4>1. /\ cmd_pc' = "done" /\ UNCHANGED <<item, i>>
            /\ rtn' = IF cmd = "ECHO" /\ Len(request.words) = 1 THEN "NULL" ELSE cmd
        BY <3>1, <3>2, <3>5 DEF Handle, Answer
      <4>2. Counted'
        BY <2>1, <4>1 DEF Counted, DispatchInv
      <4>3. Found'
        BY <2>1, <2>2, <3>3, <3>5, <4>1 DEF Found, Is, does_the_strings_match
      <4> QED BY <4>1, <4>2, <4>3 DEF DispatchInv, Where
    <3> QED BY <3>4, <3>5
  <2> QED BY <2>2, <2>3, <2>4, <2>5
<1>5. CASE handle_conf_cmd
  <2> DEFINE w == request.words[2]
  <2>1. /\ cmd_pc = "config" /\ UNCHANGED <<request, below, first_array>>
        /\ below = 0 /\ first_array = 1 /\ Is("CONFIG", request.words[1])
        /\ Searching(item, i, config_cmd_options, 2, w)
    BY <1>5 DEF handle_conf_cmd, DispatchInv, Counted, Found
  <2>2. item \in 1 .. 3 /\ i \in 1 .. 4
    BY <2>1 DEF Searching
  <2>3. CASE cmd_pc' = "done" /\ rtn' = "NULL" /\ UNCHANGED <<item, i>>
    <3>1. Counted'
      BY <2>1, <2>3 DEF Counted, DispatchInv
    <3>2. Found'
      BY <2>1, <2>2, <2>3 DEF Found, Is, does_the_strings_match
    <3> QED BY <2>3, <3>1, <3>2 DEF DispatchInv, Where
  <2>4. CASE cmd_pc' = "word" /\ UNCHANGED <<item, i, rtn>>
    BY <2>1, <2>4, Resting
  <2>5. CASE /\ item <= 2 /\ ~ Is(config_cmd_options[item], w)
             /\ NextItem /\ UNCHANGED <<cmd_pc, rtn>>
    <3>1. UNCHANGED <<cmd_pc, rtn>> /\ item' = i /\ i' = i + 1
      BY <2>5 DEF NextItem
    <3>2. Searching(i, i + 1, config_cmd_options, 2, w)
      BY <2>1, <2>5, SearchesOn
    <3>3. Counted'
      BY <2>1, <3>1 DEF Counted, DispatchInv
    <3>4. item' \in 1 .. 3 /\ i' \in 1 .. 4
      BY <3>1, <3>2 DEF Searching
    <3>5. Searching(item, i, config_cmd_options, 2, request.words[2])'
      BY <2>1, <3>1, <3>2 DEF Searching, Is, does_the_strings_match, config_cmd_options
    <3>6. Found'
      BY <2>1, <3>1, <3>4, <3>5 DEF Found, Is, does_the_strings_match
    <3> QED BY <2>1, <3>1, <3>3, <3>6 DEF DispatchInv
  <2> QED BY <1>5, <2>2, <2>3, <2>4, <2>5, Tables DEF handle_conf_cmd, Answer, Is
<1>6. CASE ConfWord
  <2>1. cmd_pc = "word" /\ UNCHANGED <<request, below, first_array, item, i>>
    BY <1>6 DEF ConfWord, search
  <2>2. CASE cmd_pc' = "done" /\ rtn' \in {"NULL", "pairs", "*0"}
    <3>1. Counted'
      BY <2>1, <2>2 DEF Counted, DispatchInv
    <3>2. Found'
      BY <2>1, <2>2 DEF Found, Is, does_the_strings_match, DispatchInv
    <3> QED BY <2>2, <3>1, <3>2 DEF DispatchInv, Where
  <2>3. CASE cmd_pc' \in {"word", "pair", "crash"} /\ rtn' = rtn
    BY <2>1, <2>3, Resting
  <2> QED BY <1>6, <2>1, <2>2, <2>3 DEF ConfWord, ConfAnswer, Answer
<1>7. CASE ConfPair
  <2>1. cmd_pc = "pair" /\ UNCHANGED <<request, below, first_array, item, i, rtn>>
    BY <1>7 DEF ConfPair, search
  <2>2. cmd_pc' \in {"word", "pair", "crash"}
    BY <1>7, <2>1 DEF ConfPair, InsertPair
  <2> QED BY <2>1, <2>2, Resting
<1>8. CASE CmdTerminated \/ UNCHANGED cmd_vars
  BY <1>8, Resting DEF CmdTerminated, cmd_vars, search
<1> QED BY <1>1, <1>2, <1>3, <1>4, <1>5, <1>6, <1>7, <1>8 DEF CmdNext

\* parse_command executes the command whose name the first string matches, if
\* it stands in one array up to a multiple of UcharSize, and no other; none is
\* missed.
THEOREM DispatchedCorrect == CmdSpec => []Dispatched
<1>1. DispatchInv => Dispatched
  <2> SUFFICES ASSUME DispatchInv PROVE Dispatched
    OBVIOUS
  <2>1. FindsCommand
    <3> DEFINE named == {n \in DOMAIN command_table :
                           does_the_strings_match(command_table[n], request.words[1])}
    <3>1. \A n \in 1 .. 4 : n \in named <=> Is(command_table[n], request.words[1])
      BY Tables DEF Is
    <3>2. named \subseteq 1 .. 4
      BY Tables
    <3>3. ASSUME cmd_pc = "done", rtn \in {"ECHO", "SET", "GET"}
          PROVE  \E n \in named : rtn = command_table[n]
      <4>1. Is(rtn, request.words[1])
        BY <3>3 DEF DispatchInv, Found
      <4> QED BY <3>1, <3>3, <4>1, Tables
    <3>4. ASSUME cmd_pc = "done", rtn = "NULL", first_array = 1, named # {}
          PROVE  \E n \in named : \/ command_table[n] = "CONFIG"
                                  \/ command_table[n] = "ECHO" /\ Len(request.words) = 1
      <4>1. PICK n \in named : Is(command_table[n], request.words[1])
        BY <3>1, <3>2, <3>4
      <4>2. \/ Is("CONFIG", request.words[1])
            \/ Is("ECHO", request.words[1]) /\ Len(request.words) = 1
        BY <3>2, <3>4, <4>1 DEF DispatchInv, Found
      <4> QED BY <3>1, <4>2, Tables
    <3>5. ASSUME cmd_pc \in {"config", "word", "pair"}
          PROVE  "CONFIG" \in {command_table[n] : n \in named}
      <4>1. Is("CONFIG", request.words[1])
        BY <3>5 DEF DispatchInv, Found
      <4> QED BY <3>1, <4>1, Tables
    <3> QED BY <3>3, <3>4, <3>5 DEF FindsCommand
  <2>2. FlatOrWrapped
    <3>1. ASSUME cmd_pc = "done", rtn # "NULL" PROVE request.depth % UcharSize = 1
      <4>1. request.depth \in Nat
        BY Requests DEF DispatchInv, Counted
      <4> QED BY <3>1, <4>1 DEF DispatchInv, Counted
    <3> QED BY <3>1 DEF FlatOrWrapped
  <2> QED BY <2>1, <2>2 DEF Dispatched
<1>2. CmdInit => DispatchInv
  BY DispatchInit
<1>3. DispatchInv /\ [CmdNext]_cmd_vars => DispatchInv'
  BY DispatchStep
<1> QED BY <1>1, <1>2, <1>3, PTL DEF CmdSpec

-----------------------------------------------------------------------------
(* CONFIG GET.                                                             *)

\* What setup has put into the map.
Filled ==
  /\ config_dict.top = 1
  /\ config_dict.keys[0] = [name |-> "dir"] /\ config_dict.keys[1] = [name |-> "dbfilename"]

\* The k-th entry of the map.
Pair(k) == [key |-> config_dict.keys[k], value |-> config_dict.values[k]]

\* The n-th word is a string, and names the k-th entry of the map.
Names(n, k) == IsString(n) /\ Is(request.words[n], config_dict.keys[k].name)

\* CONFIG GET has compared the n-th word and the k-th entry.
Passed(n, k) == n < bnode \/ (n = bnode /\ cmd_pc = "pair" /\ k < index)

\* The words and entries it has compared without a match.
Missed == {nk \in (3 .. Len(request.words)) \X (0 .. 1) :
             IsString(nk[1]) /\ ~ Names(nk[1], nk[2]) /\ Passed(nk[1], nk[2])}

\* The k-th entry is in the answer.
Holds(k) == \E n \in 1 .. Len(inserted) : inserted[n] = Pair(k)

\* It has a value, and has been named by a word so far.
Hit(k) == /\ config_dict.values[k] # NULL
          /\ \E n \in 3 .. Len(request.words) : Names(n, k) /\ Passed(n, k)

\* The answer holds the entries named so far, once.
Collected ==
  /\ inserted \in Seq({Pair(0), Pair(1)})
  /\ \A m, n \in 1 .. Len(inserted) : m # n => inserted[m].key # inserted[n].key
  /\ ~ oom => \A k \in 0 .. 1 : Holds(k) <=> Hit(k)

\* Where CONFIG GET stands.
ConfGetInv ==
  /\ cmd_pc \notin {"setup", "exit"} => Filled
  /\ cmd_pc \in {"setup", "parse", "find", "config"} =>
       bnode = 0 /\ index = 0 /\ inserted = << >> /\ lost = [kvp |-> 0, string |-> 0]
  /\ bnode \in 0 .. Len(request.words) + 1
  /\ cmd_pc \in {"word", "pair"} =>
       /\ bnode >= 3 /\ index \in 0 .. 2 /\ Collected
       /\ lost = [kvp |-> Cardinality(Missed), string |-> 0]
  /\ cmd_pc = "pair" => bnode <= Len(request.words) /\ IsString(bnode)
  /\ cmd_pc = "done" /\ bnode >= 3 =>
       /\ bnode = Len(request.words) + 1 /\ Collected
       /\ lost = [kvp |-> Cardinality(Missed), string |-> 2 * Len(inserted)]
       /\ oom \/ rtn = IF inserted = << >> THEN "*0" ELSE "pairs"

\* Every pair of an answer is one of the two entries, which have different keys:
\* it has at most two.
LEMMA AtMostTwo ==
  ASSUME Filled, Collected
  PROVE  Len(inserted) <= 2
<1> SUFFICES ASSUME Len(inserted) >= 3 PROVE FALSE
  BY DEF Collected
<1>1. \A n \in 1 .. Len(inserted) : inserted[n] \in {Pair(0), Pair(1)}
  BY DEF Collected
<1>2. 1 \in 1 .. Len(inserted) /\ 2 \in 1 .. Len(inserted) /\ 3 \in 1 .. Len(inserted)
  BY DEF Collected
<1>3. /\ inserted[1].key # inserted[2].key /\ inserted[1].key # inserted[3].key
      /\ inserted[2].key # inserted[3].key
  BY <1>2 DEF Collected
<1>4. \A n \in 1 .. 3 : inserted[n].key \in {Pair(0).key, Pair(1).key}
  BY <1>1, <1>2
<1> QED BY <1>3, <1>4

\* The instance counts as this module does.
LEMMA SameCardinality ==
  ASSUME NEW S
  PROVE  Cardinality(S) = Cardinality(S)
BY Zenon DEF Cardinality, Cardinality

\* There are finitely many words and entries.
LEMMA MissedFinite ==
  ASSUME Len(request.words) \in Nat
  PROVE  IsFiniteSet(Missed) /\ Cardinality(Missed) \in Nat
<1>0. {0, 1, 3, Len(request.words)} \subseteq Int
  OBVIOUS
<1>1. IsFiniteSet(3 .. Len(request.words)) /\ IsFiniteSet(0 .. 1)
  BY <1>0, FS_Interval, Zenon
<1>2. IsFiniteSet((3 .. Len(request.words)) \X (0 .. 1))
  BY <1>1, FS_Product
<1>3. Missed \subseteq (3 .. Len(request.words)) \X (0 .. 1)
  BY DEF Missed
<1>4. IsFiniteSet(Missed)
  BY <1>2, <1>3, FS_Subset
<1> QED BY <1>4, FS_CardinalityType

\* The fields of a map after a push and after its arrays have grown.
LEMMA PushFields ==
  ASSUME NEW ks, NEW vs, NEW c, NEW t, NEW k, NEW v, NEW m, NEW p, NEW d,
         m = [keys |-> ks, values |-> vs, capacity |-> c, top |-> t],
         p = Push(m, k, v), d = double_arrays(m, "ok")
  PROVE  /\ p = [keys |-> [ks EXCEPT ![t + 1] = k], values |-> [vs EXCEPT ![t + 1] = v],
                 capacity |-> c, top |-> t + 1]
         /\ d = [keys |-> Grown(ks, c), values |-> Grown(vs, c),
                 capacity |-> 2 * c, top |-> t]
<1>1. p = [keys |-> [ks EXCEPT ![t + 1] = k], values |-> [vs EXCEPT ![t + 1] = v],
           capacity |-> c, top |-> t + 1]
  BY DEF Push
<1>2. d = [keys |-> Grown(ks, c), values |-> Grown(vs, c), capacity |-> 2 * c, top |-> t]
  BY DEF double_arrays
<1> QED BY <1>1, <1>2

\* The first push into an empty map fills it, the second grows it.
LEMMA TwoPushes ==
  ASSUME NEW j, NEW k, NEW v, NEW w, NEW one, NEW two,
         one = PushGrown(create_simple_map, j, v), two = PushGrown(one, k, w)
  PROVE  two.top = 1 /\ two.keys[0] = j /\ two.keys[1] = k
<1>1. PICK c : c = create_simple_map
  OBVIOUS
<1>2. /\ c.top = -1 /\ c.capacity = 1 /\ c.keys = [n \in 0 .. 0 |-> NULL]
      /\ c = [keys |-> c.keys, values |-> c.values, capacity |-> c.capacity, top |-> c.top]
  BY <1>1 DEF create_simple_map
<1>3. one = Push(c, j, v)
  <2>1. ~ is_full(c)
    BY <1>2 DEF is_full
  <2> QED BY <1>1, <2>1 DEF PushGrown
<1>4. one = [keys |-> [c.keys EXCEPT ![c.top + 1] = j], values |-> [c.values EXCEPT ![c.top + 1] = v],
             capacity |-> c.capacity, top |-> c.top + 1]
  BY <1>2, <1>3, PushFields
<1>5. /\ one.top = 0 /\ one.capacity = 1 /\ one.keys[0] = j
      /\ one = [keys |-> one.keys, values |-> one.values, capacity |-> one.capacity, top |-> one.top]
  BY <1>2, <1>4
<1>6. PICK d : d = double_arrays(one, "ok")
  OBVIOUS
<1>7. d = [keys |-> Grown(one.keys, one.capacity), values |-> Grown(one.values, one.capacity),
           capacity |-> 2 * one.capacity, top |-> one.top]
  BY <1>5, <1>6, PushFields
<1>8. /\ d.top = 0 /\ d.keys = Grown(one.keys, 1)
      /\ d = [keys |-> d.keys, values |-> d.values, capacity |-> d.capacity, top |-> d.top]
  BY <1>5, <1>7
<1>9. d.keys = [n \in 0 .. 1 |-> IF n < 1 THEN one.keys[n] ELSE UNDEF]
  BY <1>8 DEF Grown
<1>10. two = Push(d, k, w)
  <2>1. is_full(one)
    BY <1>5 DEF is_full
  <2> QED BY <1>6, <2>1 DEF PushGrown
<1>11. two = [keys |-> [d.keys EXCEPT ![d.top + 1] = k], values |-> [d.values EXCEPT ![d.top + 1] = w],
              capacity |-> d.capacity, top |-> d.top + 1]
  BY <1>8, <1>10, PushFields
<1>12. two.top = 1 /\ two.keys = [d.keys EXCEPT ![1] = k]
  BY <1>8, <1>11
<1> QED BY <1>5, <1>9, <1>12

\* setup fills the map with its two entries.
LEMMA SetupFills ==
  ASSUME setup, cmd_pc' # "exit"
  PROVE  cmd_pc' = "parse" /\ Filled'
<1>1. PICK have \in Arguments, mem \in Memory :
        LET a == Entry("dir", have)
            b == Entry("dbfilename", have)
            one == set(create_simple_map, a.key, a.value, mem)
            two == set(one.sm, b.key, b.value, mem)
        IN  IF one.rtn = SUCESS_SET /\ two.rtn = SUCESS_SET
            THEN cmd_pc' = "parse" /\ config_dict' = two.sm
            ELSE cmd_pc' = "exit" /\ UNCHANGED config_dict
  BY DEF setup
<1> DEFINE a == Entry("dir", have)
           b == Entry("dbfilename", have)
           one == set(create_simple_map, a.key, a.value, mem)
           two == set(one.sm, b.key, b.value, mem)
<1>2. /\ one.rtn = SUCESS_SET /\ two.rtn = SUCESS_SET
      /\ cmd_pc' = "parse" /\ config_dict' = two.sm
  BY <1>1
<1>3. a.key = [name |-> "dir"] /\ b.key = [name |-> "dbfilename"]
  BY DEF Entry
<1>4. /\ one.sm = PushGrown(create_simple_map, a.key, a.value)
  BY <1>2 DEF set, SUCESS_SET, ERROR_SET_SM_RTN, SUCESS_UPGRADE
<1>5. two.sm = PushGrown(one.sm, b.key, b.value)
  BY <1>2 DEF set, SUCESS_SET, ERROR_SET_SM_RTN, SUCESS_UPGRADE
<1> QED BY <1>2, <1>3, <1>4, <1>5, TwoPushes DEF Filled

\* What depends on the map and the request alone.
LEMMA Steady ==
  ASSUME UNCHANGED <<config_dict, request>>
  PROVE  /\ Filled' = Filled
         /\ \A k : Pair(k)' = Pair(k)
         /\ \A n : IsString(n)' = IsString(n)
         /\ \A n, k : Names(n, k)' = Names(n, k)
<1>1. Filled' = Filled
  BY DEF Filled
<1>2. \A k : Pair(k)' = Pair(k)
  BY DEF Pair
<1>3. \A n : IsString(n)' = IsString(n)
  BY DEF IsString
<1>4. \A n, k : Names(n, k)' = Names(n, k)
  BY <1>3 DEF Names, Is, does_the_strings_match
<1> QED BY <1>1, <1>2, <1>3, <1>4

\* A step that compares nothing keeps what was collected.
LEMMA NoneCompared ==
  ASSUME UNCHANGED <<config_dict, request, inserted, oom>>, Collected,
         \A n \in 3 .. Len(request.words), k \in 0 .. 1 :
           IsString(n) => (Passed(n, k)' <=> Passed(n, k))
  PROVE  Collected' /\ Missed' = Missed
<1>1. \A k \in 0 .. 1 : Holds(k)' <=> Holds(k)
  BY Steady DEF Holds
<1>2. \A k \in 0 .. 1 : Hit(k)' <=> Hit(k)
  BY Steady DEF Hit, Names
<1>3. Pair(0)' = Pair(0) /\ Pair(1)' = Pair(1)
  BY Steady
<1>4. Collected'
  BY <1>1, <1>2, <1>3 DEF Collected
<1>5. Missed' = Missed
  BY Steady DEF Missed
<1> QED BY <1>4, <1>5

\* A step outside CONFIG GET's loops.
LEMMA ConfResting ==
  ASSUME ConfGetInv, UNCHANGED <<config_dict, request, bnode, index, inserted, lost, oom>>,
         \/ UNCHANGED <<cmd_pc, rtn>>
         \/ /\ cmd_pc \in {"parse", "find", "config"}
            /\ cmd_pc' \in {"parse", "find", "config", "done"}
  PROVE  ConfGetInv'
<1>1. Filled' = Filled /\ IsString(bnode)' = IsString(bnode)
  BY Steady
<1>2. CASE UNCHANGED <<cmd_pc, rtn>>
  <2>1. Collected => Collected' /\ Missed' = Missed
    BY <1>2, NoneCompared DEF Passed
  <2>2. (cmd_pc \notin {"setup", "exit"} => Filled)'
    BY <1>1, <1>2 DEF ConfGetInv
  <2>3. (cmd_pc \in {"word", "pair"} =>
           /\ bnode >= 3 /\ index \in 0 .. 2 /\ Collected
           /\ lost = [kvp |-> Cardinality(Missed), string |-> 0])'
    <3> SUFFICES ASSUME cmd_pc \in {"word", "pair"}
                 PROVE  /\ bnode' >= 3 /\ index' \in 0 .. 2 /\ Collected'
                        /\ lost' = [kvp |-> Cardinality(Missed'), string |-> 0]
      BY <1>2
    <3>1. /\ bnode >= 3 /\ index \in 0 .. 2 /\ Collected
          /\ lost = [kvp |-> Cardinality(Missed), string |-> 0]
      BY DEF ConfGetInv
    <3> QED BY <2>1, <3>1
  <2>4. (cmd_pc = "pair" => bnode <= Len(request.words) /\ IsString(bnode))'
    BY <1>1, <1>2 DEF ConfGetInv
  <2>5. (cmd_pc = "done" /\ bnode >= 3 =>
           /\ bnode = Len(request.words) + 1 /\ Collected
           /\ lost = [kvp |-> Cardinality(Missed), string |-> 2 * Len(inserted)]
           /\ oom \/ rtn = IF inserted = << >> THEN "*0" ELSE "pairs")'
    <3> SUFFICES ASSUME cmd_pc = "done", bnode >= 3
                 PROVE  /\ bnode' = Len(request'.words) + 1 /\ Collected'
                        /\ lost' = [kvp |-> Cardinality(Missed'), string |-> 2 * Len(inserted')]
                        /\ oom' \/ rtn' = IF inserted' = << >> THEN "*0" ELSE "pairs"
      BY <1>2
    <3>1. /\ bnode = Len(request.words) + 1 /\ Collected
          /\ lost = [kvp |-> Cardinality(Missed), string |-> 2 * Len(inserted)]
          /\ oom \/ rtn = IF inserted = << >> THEN "*0" ELSE "pairs"
      BY DEF ConfGetInv
    <3>2. oom' \/ rtn' = IF inserted' = << >> THEN "*0" ELSE "pairs"
      BY <1>2, <3>1
    <3> QED BY <2>1, <3>1, <3>2
  <2> QED BY <1>2, <2>2, <2>3, <2>4, <2>5 DEF ConfGetInv
<1>3. CASE cmd_pc \in {"parse", "find", "config"}
           /\ cmd_pc' \in {"parse", "find", "config", "done"}
  BY <1>1, <1>3 DEF ConfGetInv
<1> QED BY <1>2, <1>3

\* The comparison under way adds the k-th entry to the answer.
Shows(k) == k = index /\ Names(bnode, index) /\ config_dict.values[k] # NULL

\* One more word and entry have been compared.
LEMMA OneCompared ==
  ASSUME DispatchInv, ConfGetInv, cmd_pc = "pair", cmd_pc' = "pair",
         index \in 0 .. 1, index' = index + 1, UNCHANGED <<config_dict, request, bnode>>
  PROVE  /\ bnode \in 3 .. Len(request.words) /\ IsString(bnode) /\ Filled /\ Collected
         /\ \A n \in 3 .. Len(request.words), k \in 0 .. 1 :
              Passed(n, k)' <=> Passed(n, k) \/ (n = bnode /\ k = index)
         /\ ~ Passed(bnode, index)
         /\ \A k \in 0 .. 1 : Hit(k)' <=> Hit(k) \/ Shows(k)
         /\ IF Names(bnode, index) THEN Missed' = Missed
            ELSE <<bnode, index>> \notin Missed /\ Missed' = Missed \cup {<<bnode, index>>}
<1>1. Len(request.words) \in Nat
  BY Requests DEF DispatchInv, Counted
<1>2. bnode \in 3 .. Len(request.words) /\ IsString(bnode) /\ Filled /\ Collected
  BY <1>1 DEF ConfGetInv
<1>3. \A n \in 3 .. Len(request.words), k \in 0 .. 1 :
        Passed(n, k)' <=> Passed(n, k) \/ (n = bnode /\ k = index)
  BY <1>1, <1>2 DEF Passed
<1>4. ~ Passed(bnode, index)
  BY <1>2 DEF Passed
<1>5. \A n, k : Names(n, k)' = Names(n, k) /\ IsString(n)' = IsString(n)
  BY Steady
<1>6. \A k \in 0 .. 1 : Hit(k)' <=> Hit(k) \/ Shows(k)
  <2> SUFFICES ASSUME NEW k \in 0 .. 1
               PROVE  Hit(k)' <=> Hit(k) \/ Shows(k)
    OBVIOUS
  <2>1. Hit(k)' <=> /\ config_dict.values[k] # NULL
                    /\ \E n \in 3 .. Len(request.words) : Names(n, k) /\ Passed(n, k)'
    BY <1>5, Zenon DEF Hit
  <2>2. Hit(k) <=> /\ config_dict.values[k] # NULL
                   /\ \E n \in 3 .. Len(request.words) : Names(n, k) /\ Passed(n, k)
    BY DEF Hit
  <2>3. \A n \in 3 .. Len(request.words) :
          Passed(n, k)' <=> Passed(n, k) \/ (n = bnode /\ k = index)
    BY <1>3
  <2> QED BY <1>2, <2>1, <2>2, <2>3, Zenon DEF Shows
<1>7. \A nk \in (3 .. Len(request.words)) \X (0 .. 1) :
        nk \in Missed' <=> nk \in Missed \/ (nk = <<bnode, index>> /\ ~ Names(bnode, index))
  <2> SUFFICES ASSUME NEW nk \in (3 .. Len(request.words)) \X (0 .. 1)
               PROVE  nk \in Missed' <=>
                        nk \in Missed \/ (nk = <<bnode, index>> /\ ~ Names(bnode, index))
    OBVIOUS
  <2>0. PICK n \in 3 .. Len(request.words), k \in 0 .. 1 : nk = <<n, k>>
    OBVIOUS
  <2>1. <<n, k>> \in Missed <=> IsString(n) /\ ~ Names(n, k) /\ Passed(n, k)
    BY DEF Missed
  <2>2. <<n, k>> \in Missed' <=> IsString(n)' /\ ~ Names(n, k)' /\ Passed(n, k)'
    BY DEF Missed
  <2>3. Passed(n, k)' <=> Passed(n, k) \/ (n = bnode /\ k = index)
    BY <1>3
  <2>4. Names(n, k)' = Names(n, k) /\ IsString(n)' = IsString(n)
    BY <1>5, Zenon
  <2> QED BY <1>2, <2>0, <2>1, <2>2, <2>3, <2>4
<1>8. Missed \subseteq (3 .. Len(request.words)) \X (0 .. 1)
      /\ Missed' \subseteq (3 .. Len(request.words)) \X (0 .. 1)
  BY DEF Missed
<1>9. <<bnode, index>> \notin Missed /\ <<bnode, index>> \in (3 .. Len(request.words)) \X (0 .. 1)
  BY <1>2, <1>4 DEF Missed
<1>10. CASE Names(bnode, index)
  <2>1. Missed' = Missed
    BY <1>7, <1>8, <1>10, Zenon
  <2> QED BY <1>2, <1>3, <1>4, <1>6, <1>10, <2>1
<1>11. CASE ~ Names(bnode, index)
  <2>1. Missed' = Missed \cup {<<bnode, index>>}
    BY <1>7, <1>8, <1>9, <1>11, Zenon
  <2> QED BY <1>2, <1>3, <1>4, <1>6, <1>9, <1>11, <2>1
<1> QED BY <1>10, <1>11

\* The named entry goes into the answer, unless it is there or memory runs out.
LEMMA PairInserted ==
  ASSUME DispatchInv, ConfGetInv, cmd_pc = "pair", cmd_pc' = "pair",
         index \in 0 .. 1, index' = index + 1, UNCHANGED <<config_dict, request, bnode>>,
         Names(bnode, index), InsertPair(Pair(index))
  PROVE  Collected'
<1> DEFINE p == Pair(index)
<1>1. /\ Filled /\ Collected
      /\ \A k \in 0 .. 1 : Hit(k)' <=> Hit(k) \/ (k = index /\ p.value # NULL)
  BY OneCompared DEF Shows, Pair
<1>2. Pair(0)' = Pair(0) /\ Pair(1)' = Pair(1)
  BY Steady
<1>3. p \in {Pair(0), Pair(1)} /\ Pair(0).key # Pair(1).key /\ Pair(0) # Pair(1)
  BY <1>1 DEF Filled, Pair
<1>4. /\ inserted \in Seq({Pair(0), Pair(1)}) /\ Len(inserted) \in Nat
      /\ \A m, n \in 1 .. Len(inserted) : m # n => inserted[m].key # inserted[n].key
      /\ ~ oom => \A k \in 0 .. 1 : Holds(k) <=> Hit(k)
  BY <1>1 DEF Collected
<1>5. CASE inserted' = Append(inserted, p) /\ oom' = oom /\ MayInsert(p) /\ p.value # NULL
  <2>1. \A n \in 1 .. Len(inserted) : inserted[n].key # p.key
    BY <1>4, <1>5 DEF MayInsert
  <2>2. /\ inserted' \in Seq({Pair(0), Pair(1)}) /\ Len(inserted') = Len(inserted) + 1
        /\ \A n \in 1 .. Len(inserted) : inserted'[n] = inserted[n]
        /\ inserted'[Len(inserted) + 1] = p
    BY <1>3, <1>4, <1>5
  <2>3. \A n \in 1 .. Len(inserted') : n \in 1 .. Len(inserted) \/ n = Len(inserted) + 1
    BY <1>4, <2>2
  <2>4. \A m, n \in 1 .. Len(inserted') : m # n => inserted'[m].key # inserted'[n].key
    BY <1>4, <2>1, <2>2, <2>3
  <2>5. \A k \in 0 .. 1 : Holds(k)' <=> Holds(k) \/ k = index
    <3> SUFFICES ASSUME NEW k \in 0 .. 1 PROVE Holds(k)' <=> Holds(k) \/ k = index
      OBVIOUS
    <3>1. Holds(k)' <=> \E n \in 1 .. Len(inserted') : inserted'[n] = Pair(k)
      BY Steady, Zenon DEF Holds
    <3>2. p = Pair(k) <=> k = index
      BY <1>3
    <3>3. Len(inserted) + 1 \in 1 .. Len(inserted')
          /\ \A n \in 1 .. Len(inserted) : n \in 1 .. Len(inserted')
      BY <1>4, <2>2
    <3> HIDE DEF p
    <3> QED BY <2>2, <2>3, <3>1, <3>2, <3>3, Zenon DEF Holds
  <2>6. ~ oom' => \A k \in 0 .. 1 : Holds(k)' <=> Hit(k)'
    BY <1>1, <1>4, <1>5, <2>5
  <2> QED BY <1>2, <2>2, <2>4, <2>6 DEF Collected
<1>6. CASE inserted' = inserted /\ oom' = oom /\ ~ MayInsert(p) /\ p.value # NULL
  <2>1. PICK n \in 1 .. Len(inserted) : inserted[n].key = p.key
    BY <1>4, <1>6 DEF MayInsert
  <2>2. inserted[n] = p
    BY <1>3, <1>4, <2>1
  <2>3. Holds(index)
    BY <2>2 DEF Holds
  <2>4. \A k \in 0 .. 1 : Holds(k)' <=> Holds(k)
    BY <1>6, Steady DEF Holds
  <2>5. ~ oom' => \A k \in 0 .. 1 : Holds(k)' <=> Hit(k)'
    BY <1>1, <1>4, <1>6, <2>3, <2>4
  <2> QED BY <1>2, <1>4, <1>6, <2>5 DEF Collected
<1>7. CASE inserted' = inserted /\ oom' = TRUE
  BY <1>2, <1>4, <1>7 DEF Collected
<1>8. CASE inserted' = inserted /\ oom' = oom /\ p.value = NULL
  <2>1. \A k \in 0 .. 1 : (Hit(k)' <=> Hit(k)) /\ (Holds(k)' <=> Holds(k))
    BY <1>1, <1>8, Steady DEF Holds
  <2> QED BY <1>2, <1>4, <1>8, <2>1 DEF Collected
<1> QED BY <1>5, <1>6, <1>7, <1>8 DEF InsertPair

\* Every step keeps what CONFIG GET has collected.
LEMMA ConfGetStep ==
  ASSUME DispatchInv, ConfGetInv, [CmdNext]_cmd_vars
  PROVE  ConfGetInv'
<1>0. Len(request.words) \in Nat \ {0}
  BY Requests DEF DispatchInv, Counted
<1>1. CASE setup
  <2>1. /\ cmd_pc = "setup"
        /\ UNCHANGED <<request, bnode, index, inserted, lost, oom, rtn>>
        /\ cmd_pc' \in {"parse", "exit"}
    BY <1>1 DEF setup, answer
  <2>2. cmd_pc' = "exit" \/ Filled'
    BY <1>1, SetupFills
  <2> QED BY <2>1, <2>2 DEF ConfGetInv
<1>2. CASE EnterArray
  BY <1>2, ConfResting DEF EnterArray, answer
<1>3. CASE FirstString
  BY <1>3, ConfResting DEF FirstString, answer, Answer
<1>4. CASE find_redis_cmd
  <2>1. /\ cmd_pc = "find" /\ UNCHANGED <<config_dict, request, bnode, index, inserted, lost, oom>>
    BY <1>4 DEF find_redis_cmd, answer
  <2>2. item \in 1 .. 5
    BY <2>1 DEF DispatchInv, Found, Searching
  <2>3. cmd_pc' \in {"find", "config", "done"}
    <3>1. \/ cmd_pc' = "done" /\ rtn' = "NULL"
          \/ item <= 4 /\ Handle(command_table[item])
          \/ cmd_pc' = cmd_pc
      BY <1>4, <2>2, Tables DEF find_redis_cmd, Answer
    <3>2. CASE item <= 4 /\ Handle(command_table[item])
      <4>1. command_table[item] \in {"ECHO", "SET", "GET", "CONFIG"}
        BY <2>2, <3>2, Tables
      <4> QED BY <3>2, <4>1 DEF Handle, Answer
    <3> QED BY <2>1, <3>1, <3>2
  <2> QED BY <2>1, <2>3, ConfResting
<1>5. CASE handle_conf_cmd
  <2>1. cmd_pc = "config" /\ UNCHANGED <<config_dict, request, index, inserted, lost, oom>>
    BY <1>5 DEF handle_conf_cmd
  <2>2. \/ cmd_pc' = "done" /\ rtn' = "NULL" /\ bnode' = bnode
        \/ cmd_pc' = cmd_pc /\ rtn' = rtn /\ bnode' = bnode
        \/ cmd_pc' = "word" /\ bnode' = 3 /\ Len(request.words) > 2
    BY <1>5 DEF handle_conf_cmd, Answer
  <2>3. CASE cmd_pc' = "word" /\ bnode' = 3 /\ Len(request.words) > 2
    <3>1. inserted = << >> /\ lost = [kvp |-> 0, string |-> 0] /\ index = 0 /\ Filled
      BY <2>1 DEF ConfGetInv
    <3>2. Filled'
      BY <2>1, <3>1, Steady
    <3>3. \A n \in 3 .. Len(request.words), k \in 0 .. 1 : ~ Passed(n, k)'
      BY <1>0, <2>3 DEF Passed
    <3>4. Missed' = {}
      BY <2>1, <3>3 DEF Missed
    <3>5. Cardinality(Missed') = 0
      BY <3>4, FS_EmptySet
    <3>6. Collected'
      BY <2>1, <3>1, <3>3 DEF Collected, Holds, Hit
    <3> QED BY <1>0, <2>1, <2>3, <3>1, <3>2, <3>5, <3>6 DEF ConfGetInv
  <2> QED BY <2>1, <2>2, <2>3, ConfResting
<1>6. CASE ConfWord
  <2>1. cmd_pc = "word" /\ UNCHANGED <<config_dict, request, inserted>>
    BY <1>6 DEF ConfWord
  <2>2. /\ bnode \in 3 .. Len(request.words) + 1 /\ index \in 0 .. 2 /\ Collected /\ Filled
        /\ lost = [kvp |-> Cardinality(Missed), string |-> 0]
    BY <1>0, <2>1 DEF ConfGetInv
  <2>3. /\ Filled' /\ \A n : IsString(n)' = IsString(n)
    BY <2>1, <2>2, Steady
  <2>4. CASE /\ bnode <= Len(request.words) /\ IsString(bnode)
             /\ cmd_pc' = "pair" /\ index' = 0 /\ UNCHANGED <<bnode, rtn, lost, oom>>
    <3>1. \A n, k \in Nat : Passed(n, k)' <=> Passed(n, k)
      BY <2>1, <2>4 DEF Passed
    <3>2. Collected' /\ Missed' = Missed
      BY <1>0, <2>1, <2>2, <2>4, <3>1, NoneCompared
    <3>3. IsString(bnode)'
      BY <2>3, <2>4
    <3> QED BY <1>0, <2>1, <2>2, <2>3, <2>4, <3>2, <3>3 DEF ConfGetInv
  <2>5. CASE /\ bnode <= Len(request.words) /\ ~ IsString(bnode)
             /\ bnode' = bnode + 1 /\ UNCHANGED <<cmd_pc, index, rtn, lost, oom>>
    <3>1. \A n, k \in Nat : IsString(n) => (Passed(n, k)' <=> Passed(n, k))
      BY <2>1, <2>2, <2>5 DEF Passed
    <3>2. Collected' /\ Missed' = Missed
      BY <1>0, <2>1, <2>2, <2>5, <3>1, NoneCompared
    <3> QED BY <1>0, <2>1, <2>2, <2>3, <2>5, <3>2 DEF ConfGetInv
  <2>6. CASE /\ bnode > Len(request.words) /\ cmd_pc' = "done"
             /\ oom' = oom /\ rtn' = IF inserted = << >> THEN "*0" ELSE "pairs"
             /\ lost' = [lost EXCEPT !.string = 2 * Len(inserted)] /\ UNCHANGED <<bnode, index>>
    <3>1. \A n, k \in Nat : Passed(n, k)' <=> Passed(n, k)
      BY <2>1, <2>6 DEF Passed
    <3>2. Collected' /\ Missed' = Missed
      BY <1>0, <2>1, <2>2, <2>6, <3>1, NoneCompared
    <3>3. lost' = [kvp |-> Cardinality(Missed), string |-> 2 * Len(inserted)]
      BY <2>2, <2>6
    <3>4. bnode' = Len(request'.words) + 1
      BY <1>0, <2>1, <2>2, <2>6
    <3>5. oom' \/ rtn' = IF inserted' = << >> THEN "*0" ELSE "pairs"
      BY <2>1, <2>6
    <3> QED BY <1>0, <2>1, <2>3, <2>6, <3>2, <3>3, <3>4, <3>5 DEF ConfGetInv
  <2>7. CASE /\ bnode > Len(request.words) /\ cmd_pc' \in {"done", "crash"} /\ oom' = TRUE
             /\ lost' = [lost EXCEPT !.string = 2 * Len(inserted)] /\ UNCHANGED <<bnode, index>>
    <3>1. \A n, k \in Nat : Passed(n, k)' <=> Passed(n, k)
      BY <2>1, <2>7 DEF Passed
    <3>2. Missed' = Missed
      BY <1>0, <2>1, <3>1, Steady DEF Missed
    <3>3. Pair(0)' = Pair(0) /\ Pair(1)' = Pair(1)
      BY <2>1, Steady
    <3>4. Collected'
      BY <2>1, <2>2, <2>7, <3>3 DEF Collected
    <3>5. lost' = [kvp |-> Cardinality(Missed), string |-> 2 * Len(inserted)]
      BY <2>2, <2>7
    <3>6. bnode' = Len(request'.words) + 1
      BY <1>0, <2>1, <2>2, <2>7
    <3> QED BY <1>0, <2>1, <2>3, <2>7, <3>2, <3>4, <3>5, <3>6 DEF ConfGetInv
  <2> QED BY <1>6, <2>4, <2>5, <2>6, <2>7 DEF ConfWord, ConfAnswer, Answer, SkipArray,
               init_simple_map_wrapper
<1>7. CASE ConfPair
  <2>1. cmd_pc = "pair" /\ UNCHANGED <<config_dict, request, rtn>>
    BY <1>7 DEF ConfPair
  <2>2. /\ bnode \in 3 .. Len(request.words) /\ index \in 0 .. 2 /\ Collected /\ Filled
        /\ lost = [kvp |-> Cardinality(Missed), string |-> 0] /\ IsString(bnode)
    BY <1>0, <2>1 DEF ConfGetInv
  <2>3. Filled' /\ \A n : IsString(n)' = IsString(n)
    BY <2>1, <2>2, Steady
  <2>4. config_dict.top = 1
    BY <2>2 DEF Filled
  <2>5. CASE index > 1
    <3>1. /\ cmd_pc' = "word" /\ bnode' = bnode + 1
          /\ UNCHANGED <<index, inserted, lost, oom>>
      BY <1>7, <2>2, <2>4, <2>5 DEF ConfPair
    <3>2. \A n \in Nat, k \in 0 .. 1 : Passed(n, k)' <=> Passed(n, k)
      BY <2>1, <2>2, <2>5, <3>1 DEF Passed
    <3>3. Collected' /\ Missed' = Missed
      BY <1>0, <2>1, <2>2, <3>1, <3>2, NoneCompared
    <3> QED BY <1>0, <2>1, <2>2, <2>3, <3>1, <3>3 DEF ConfGetInv
  <2>6. CASE index \in 0 .. 1
    <3>1. /\ index' = index + 1 /\ bnode' = bnode
          /\ IF Names(bnode, index) THEN InsertPair(Pair(index)) ELSE UNCHANGED <<cmd_pc, inserted, oom>>
          /\ lost' = [lost EXCEPT !.kvp = @ + (IF Names(bnode, index) THEN 0 ELSE 1)]
      BY <1>7, <2>2, <2>4, <2>6 DEF ConfPair, Miss, Names, Is, Pair
    <3>2. CASE cmd_pc' = "crash"
      BY <1>0, <2>1, <2>2, <2>3, <3>1, <3>2 DEF ConfGetInv
    <3>3. CASE cmd_pc' = "pair"
      <4>1. IF Names(bnode, index) THEN Missed' = Missed
            ELSE <<bnode, index>> \notin Missed /\ Missed' = Missed \cup {<<bnode, index>>}
        BY <2>1, <2>6, <3>1, <3>3, OneCompared
      <4>2. IsFiniteSet(Missed) /\ Cardinality(Missed) \in Nat
        BY <1>0, MissedFinite
      <4>3. lost' = [kvp |-> Cardinality(Missed'), string |-> 0]
        <5>1. CASE Names(bnode, index)
          BY <2>2, <3>1, <4>1, <4>2, <5>1
        <5>2. CASE ~ Names(bnode, index)
          <6>1. Cardinality(Missed') = Cardinality(Missed) + 1
            BY <4>1, <4>2, <5>2, FS_AddElement
          <6> QED BY <2>2, <3>1, <4>2, <5>2, <6>1
        <5> QED BY <5>1, <5>2
      <4>4. Collected'
        <5>1. CASE Names(bnode, index)
          BY <2>1, <2>6, <3>1, <3>3, <5>1, PairInserted
        <5>2. CASE ~ Names(bnode, index)
          <6>1. UNCHANGED <<inserted, oom>>
            BY <3>1, <5>2
          <6>2. \A k \in 0 .. 1 : Hit(k)' <=> Hit(k)
            BY <2>1, <2>6, <3>1, <3>3, <5>2, OneCompared DEF Shows
          <6>3. \A k \in 0 .. 1 : (Holds(k)' <=> Holds(k)) /\ Pair(k)' = Pair(k)
            BY <2>1, <6>1, Steady DEF Holds
          <6> QED BY <2>2, <6>1, <6>2, <6>3 DEF Collected
        <5> QED BY <5>1, <5>2
      <4> QED BY <1>0, <2>1, <2>2, <2>3, <2>6, <3>1, <3>3, <4>3, <4>4 DEF ConfGetInv
    <3> QED BY <2>1, <3>1, <3>2, <3>3 DEF InsertPair
  <2> QED BY <2>2, <2>5, <2>6
<1>8. CASE CmdTerminated \/ UNCHANGED cmd_vars
  BY <1>8, ConfResting DEF CmdTerminated, cmd_vars, answer
<1> QED BY <1>1, <1>2, <1>3, <1>4, <1>5, <1>6, <1>7, <1>8 DEF CmdNext

\* CONFIG GET writes no pair past the end of its arrays.  Unless memory runs out it
\* answers with every entry that some word matches and whose option is not empty,
\* once and with its own value, and with *0 if there is none.  It
\* leaks a pair for each comparison without a match and the strings of its
\* answer, for requests of any length.
THEOREM ConfGetCorrectHolds == CmdSpec => []ConfGetCorrect
<1>1. DispatchInv /\ ConfGetInv => ConfGetCorrect
  <2> SUFFICES ASSUME DispatchInv, ConfGetInv PROVE ConfGetCorrect
    OBVIOUS
  <2>0. Len(request.words) \in Nat \ {0} /\ request.depth \in Nat /\ UcharSize \in Nat \ {0}
    BY Requests DEF DispatchInv, Counted
  <2>1. CmdTypeOK
    <3>1. first_array \in 0 .. UcharSize - 1
      <4>1. PICK x \in Nat : first_array = x % UcharSize
        <5>1. request.depth - below \in Nat
          <6>1. below \in 0 .. request.depth
            BY DEF DispatchInv, Counted
          <6> QED BY <2>0, <6>1
        <5> QED BY <5>1 DEF DispatchInv, Counted
      <4> QED BY <2>0, <4>1
    <3>2. cmd_pc \in {"word", "pair"} =>
            index \in 0 .. config_dict.top + 1 /\ Len(inserted) <= config_dict.top + 1
      <4> SUFFICES ASSUME cmd_pc \in {"word", "pair"}
                   PROVE  index \in 0 .. config_dict.top + 1 /\ Len(inserted) <= config_dict.top + 1
        OBVIOUS
      <4>1. Filled /\ Collected /\ index \in 0 .. 2
        BY DEF ConfGetInv
      <4>2. Len(inserted) <= 2
        BY <4>1, AtMostTwo
      <4> QED BY <4>1, <4>2 DEF Filled
    <3>3. item \in 0 .. 5 /\ i \in 0 .. 6 /\ bnode \in 0 .. Len(request.words) + 1
      BY DEF DispatchInv, Found, ConfGetInv
    <3>4. cmd_pc \in {"setup", "parse", "find", "config", "word", "pair"} \cup Ended
      BY DEF DispatchInv, Where, Ended
    <3> QED BY <3>1, <3>2, <3>3, <3>4, Tables DEF CmdTypeOK
  <2>2. ASSUME IsConfGet
        PROVE  /\ Filled /\ Collected /\ Used(config_dict) = 0 .. 1
               /\ lost = [kvp |-> Cardinality(Missed), string |-> 2 * Len(inserted)]
               /\ \A n \in 3 .. Len(request.words), k \in 0 .. 1 : Passed(n, k)
    <3>1. /\ Filled /\ Collected /\ bnode = Len(request.words) + 1
          /\ lost = [kvp |-> Cardinality(Missed), string |-> 2 * Len(inserted)]
      BY <2>2 DEF IsConfGet, ConfGetInv
    <3>2. Used(config_dict) = 0 .. 1
      BY <3>1 DEF Filled, Used
    <3>3. \A n \in 3 .. Len(request.words), k \in 0 .. 1 : Passed(n, k)
      BY <2>0, <3>1 DEF Passed
    <3> QED BY <3>1, <3>2, <3>3
  <2>3. ConfGetComplete
    <3> SUFFICES ASSUME IsConfGet
                 PROVE  /\ \A m, n \in DOMAIN inserted : m # n => inserted[m].key # inserted[n].key
                        /\ {inserted[n] : n \in DOMAIN inserted} \subseteq {Pair(k) : k \in 0 .. 1}
                        /\ ~ oom => {inserted[n].key : n \in DOMAIN inserted} =
                                      {config_dict.keys[k] : k \in Shown}
                        /\ ~ oom => rtn = IF Shown = {} THEN "*0" ELSE "pairs"
      BY <2>2 DEF ConfGetComplete, Pair
    <3>1. Filled /\ Collected /\ DOMAIN inserted = 1 .. Len(inserted)
      BY <2>2 DEF Collected
    <3>2. \A n \in 1 .. Len(inserted) : inserted[n] \in {Pair(k) : k \in 0 .. 1}
      BY <3>1 DEF Collected
    <3>3. Shown \subseteq 0 .. 1 /\ \A k \in 0 .. 1 : Hit(k) <=> k \in Shown
      BY <2>2 DEF Hit, Names, Is, Wanted, Shown
    <3>4. ASSUME ~ oom
          PROVE  /\ {inserted[n].key : n \in DOMAIN inserted} =
                      {config_dict.keys[k] : k \in Shown}
                 /\ rtn = IF Shown = {} THEN "*0" ELSE "pairs"
      <4>1. \A k \in 0 .. 1 : Holds(k) <=> k \in Shown
        BY <3>1, <3>3, <3>4 DEF Collected
      <4>2. \A k : Pair(k).key = config_dict.keys[k]
        BY DEF Pair
      <4>3. ASSUME NEW n \in 1 .. Len(inserted)
            PROVE  \E k \in Shown : inserted[n].key = config_dict.keys[k]
        <5>1. PICK k \in 0 .. 1 : inserted[n] = Pair(k)
          BY <3>2
        <5>2. Holds(k)
          BY <5>1 DEF Holds
        <5> QED BY <4>1, <4>2, <5>1, <5>2
      <4>4. ASSUME NEW k \in Shown
            PROVE  \E n \in 1 .. Len(inserted) : inserted[n].key = config_dict.keys[k]
        <5>1. Holds(k)
          BY <3>3, <4>1, <4>4
        <5> QED BY <4>2, <5>1 DEF Holds
      <4>5. {inserted[n].key : n \in DOMAIN inserted} = {config_dict.keys[k] : k \in Shown}
        <5>1. {inserted[n].key : n \in 1 .. Len(inserted)} \subseteq
                {config_dict.keys[k] : k \in Shown}
          BY <4>3
        <5>2. {config_dict.keys[k] : k \in Shown} \subseteq
                {inserted[n].key : n \in 1 .. Len(inserted)}
          BY <4>4
        <5> QED BY <3>1, <5>1, <5>2, Zenon
      <4>6. Shown = {} <=> inserted = << >>
        <5>1. inserted = << >> <=> 1 .. Len(inserted) = {}
          BY <3>1 DEF Collected
        <5> QED BY <4>3, <4>4, <5>1
      <4>7. rtn = IF inserted = << >> THEN "*0" ELSE "pairs"
        BY <3>4 DEF ConfGetInv, IsConfGet
      <4> QED BY <4>5, <4>6, <4>7
    <3>5. \A m, n \in DOMAIN inserted : m # n => inserted[m].key # inserted[n].key
      BY <3>1 DEF Collected
    <3> QED BY <3>1, <3>2, <3>4, <3>5
  <2>4. ConfGetLeaks
    <3> SUFFICES ASSUME IsConfGet PROVE ConfGetLeaks
      BY DEF ConfGetLeaks
    <3> DEFINE D == {nk \in (3 .. Len(request.words)) \X Used(config_dict) :
                       /\ IsString(nk[1])
                       /\ ~ does_the_strings_match(request.words[nk[1]],
                                                       config_dict.keys[nk[2]].name)}
    <3>1. \A n \in 3 .. Len(request.words), k \in 0 .. 1 :
            IsString(n) => (Names(n, k) <=> does_the_strings_match(request.words[n],
                                                  config_dict.keys[k].name))
      BY DEF Names, Is
    <3>2. /\ Used(config_dict) = 0 .. 1
          /\ \A n \in 3 .. Len(request.words), k \in 0 .. 1 : Passed(n, k)
          /\ lost = [kvp |-> Cardinality(Missed), string |-> 2 * Len(inserted)]
      BY <2>2
    <3>3. D = Missed
      BY <3>1, <3>2 DEF Missed
    <3>4. lost = [kvp |-> Cardinality(D), string |-> 2 * Len(inserted)]
      BY <3>2, <3>3, SameCardinality
    <3> QED BY <3>4, Zenon DEF ConfGetLeaks
  <2> QED BY <2>1, <2>3, <2>4 DEF ConfGetCorrect
<1>2. CmdInit => DispatchInv /\ ConfGetInv
  <2> SUFFICES ASSUME CmdInit PROVE DispatchInv /\ ConfGetInv
    OBVIOUS
  <2>1. DispatchInv
    BY DispatchInit
  <2>2. Len(request.words) \in Nat
    BY <2>1, Requests DEF DispatchInv, Counted
  <2> QED BY <2>1, <2>2 DEF CmdInit, ConfGetInv
<1>3. DispatchInv /\ ConfGetInv /\ [CmdNext]_cmd_vars => (DispatchInv /\ ConfGetInv)'
  BY DispatchStep, ConfGetStep
<1> QED BY <1>1, <1>2, <1>3, PTL DEF CmdSpec

-----------------------------------------------------------------------------
(* The RDB parser (RdbParser.tla), for files of any length.                *)

\* The n-th pair of f is the n-th two items behind the AUX.
PairedUp(f) ==
  /\ f \in Seq(Nat \X Nat)
  /\ \A n \in 1 .. Len(f) : f[n] = <<2 * n, 2 * n + 1>>

\* The file begins with AUX and strings up to the position p.
Strings(p) == file.items[1] = "AUX" /\ \A k \in 2 .. p : file.items[k] = "STRING"

\* The parser stands before the auxiliary fields, or refuses the file there; an
\* empty file's next_state is anything.
Before ==
  /\ prev_state = "VERSION" /\ fields = << >> /\ leaked = {} /\ kvp_arr = << >>
  /\ \/ rdb_pc \in {"header", "first"} /\ pos = 0
     \/ rdb_pc \in {"loop", "returned"} /\ pos = 0 /\ (Len(file.items) = 0 \/ rdb_pc = "returned")
     \/ rdb_pc \in {"loop", "returned"} /\ pos = 1 /\ next_state = file.items[1]

\* It stands in them: behind complete pairs, and a key may wait for its value.
Within ==
  /\ prev_state = "AUX" /\ ~ CharIsSigned /\ leaked = {} /\ PairedUp(fields)
  /\ \/ /\ rdb_pc = "field" /\ Strings(pos - 1)
        /\ next_state = file.items[pos] /\ next_state \notin Opcode
        /\ \/ reading = "READING_KEY" /\ kvp_arr = << >> /\ pos = 2 * Len(fields) + 2
           \/ reading = "READING_VALUE" /\ kvp_arr = <<pos - 1>> /\ pos = 2 * Len(fields) + 3
     \/ /\ rdb_pc = "next" /\ Strings(pos)
        /\ \/ reading = "READING_KEY" /\ kvp_arr = << >> /\ pos = 2 * Len(fields) + 1
           \/ reading = "READING_VALUE" /\ kvp_arr = <<pos>> /\ pos = 2 * Len(fields) + 2

\* It stands behind them.
Behind ==
  /\ prev_state = "AUX" /\ ~ CharIsSigned /\ rdb_pc \in {"loop", "returned"}
  /\ PairedUp(fields) /\ (Len(fields) # 0 => Strings(2 * Len(fields) + 1))
  /\ \A n \in leaked : \/ file.items[n] = "SPECIAL"
                       \/ n % 2 = 0 /\ file.items[n + 1] \in Opcode
  /\ leaked = {} => kvp_arr = << >>

\* Where the parser stands.
RdbInv ==
  /\ file.items \in Seq(Item) /\ pos \in 0 .. Len(file.items)
  /\ Before \/ Within \/ Behind

\* A file has not been read at first.
LEMMA RdbBegins == RdbInit => RdbInv
<1> SUFFICES ASSUME RdbInit PROVE RdbInv
  OBVIOUS
<1>1. file.items \in Seq(Item)
  BY DEF RdbInit, Files
<1> QED BY <1>1 DEF RdbInit, RdbInv, Before

\* Every step of the parser keeps the invariant.
LEMMA RdbStep == RdbInv /\ [RdbNext]_rdb_vars => RdbInv'
<1> SUFFICES ASSUME RdbInv, [RdbNext]_rdb_vars PROVE RdbInv'
  OBVIOUS
<1> USE DEF RdbInv
<1>1. CASE parse_rdb_header
  BY <1>1 DEF parse_rdb_header, given, Before, Within, Behind
<1>2. CASE FirstState
  <2>1. Before /\ pos = 0 /\ file' = file
    BY <1>2 DEF FirstState, given, Before, Within, Behind
  <2> QED BY <1>2, <2>1 DEF FirstState, given, Before, AtEnd
<1>3. CASE Leave
  <2>1. /\ rdb_pc = "loop" /\ rdb_pc' = "returned"
        /\ UNCHANGED <<CharIsSigned, file, pos, prev_state, next_state, kvp_arr, fields, leaked>>
    BY <1>3 DEF Leave, given
  <2>2. ~ Within
    BY <2>1 DEF Within
  <2>3. CASE Before
    BY <2>1, <2>3 DEF Before
  <2>4. CASE Behind
    BY <2>1, <2>4 DEF Behind, Strings, PairedUp
  <2> QED BY <2>2, <2>3, <2>4
<1>4. CASE Spin \/ RdbTerminated \/ UNCHANGED rdb_vars
  <2>1. UNCHANGED <<CharIsSigned, file, rdb_pc, pos, prev_state, next_state, reading, kvp_arr,
                    fields, leaked>>
    BY <1>4 DEF Spin, RdbTerminated, rdb_vars, given
  <2>2. Before' = Before
    BY <2>1 DEF Before
  <2>3. PairedUp(fields)' = PairedUp(fields) /\ \A p : Strings(p)' = Strings(p)
    BY <2>1, Zenon DEF PairedUp, Strings
  <2>4. Within' = Within
    BY <2>1, <2>3, Zenon DEF Within
  <2>5. Behind' = Behind
    BY <2>1, <2>3, Zenon DEF Behind
  <2> QED BY <2>1, <2>2, <2>4, <2>5
<1>5. CASE handle_aux_state
  <2>1. rdb_pc = "loop" /\ next_state = "AUX"
        /\ UNCHANGED <<CharIsSigned, file, kvp_arr, fields, leaked>>
    BY <1>5 DEF handle_aux_state, given
  <2>2. CASE ~ AuxAllowed
    <3>1. UNCHANGED <<rdb_pc, pos, prev_state, next_state>>
      BY <1>5, <2>2 DEF handle_aux_state
    <3>2. ~ Within
      BY <2>1 DEF Within
    <3>3. CASE Before
      BY <2>1, <3>1, <3>3 DEF Before
    <3>4. CASE Behind
      BY <2>1, <3>1, <3>4 DEF Behind, Strings, PairedUp
    <3> QED BY <3>2, <3>3, <3>4
  <2>3. CASE AuxAllowed
    <3>1. /\ ~ CharIsSigned /\ prev_state = "VERSION" /\ prev_state' = "AUX"
          /\ reading' = "READING_KEY"
      BY <1>5, <2>3 DEF handle_aux_state, AuxAllowed
    <3>2. /\ fields = << >> /\ leaked = {} /\ kvp_arr = << >>
          /\ \/ pos = 0 /\ Len(file.items) = 0
             \/ pos = 1 /\ file.items[1] = "AUX"
      BY <2>1, <3>1 DEF Before, Within, Behind
    <3>3. PairedUp(fields')
      BY <2>1, <3>2 DEF PairedUp
    <3>4. CASE AtEnd
      <4>1. UNCHANGED <<rdb_pc, pos>>
        BY <1>5, <2>3, <3>4 DEF handle_aux_state
      <4> QED BY <2>1, <3>1, <3>2, <3>3, <4>1 DEF Behind
    <3>5. CASE ~ AtEnd
      <4>1. /\ next_state' = file.items[pos + 1] /\ pos' = pos + 1
            /\ IF next_state' \in Opcode THEN rdb_pc' = rdb_pc ELSE rdb_pc' = "field"
        BY <1>5, <2>3, <3>5 DEF handle_aux_state
      <4>2. pos = 1 /\ file.items[1] = "AUX" /\ pos' \in 0 .. Len(file.items)
        BY <3>2, <3>5, <4>1 DEF AtEnd
      <4>3. CASE next_state' \in Opcode
        BY <2>1, <3>1, <3>2, <3>3, <4>1, <4>2, <4>3 DEF Behind
      <4>4. CASE next_state' \notin Opcode
        <5>1. Within'
          <6>1. rdb_pc' = "field" /\ pos' = 2 /\ next_state' = file'.items[pos']
            BY <2>1, <4>1, <4>2, <4>4
          <6>2. Strings(pos - 1)'
            BY <2>1, <4>2, <6>1 DEF Strings
          <6>3. pos' = 2 * Len(fields') + 2
            BY <2>1, <3>2, <6>1
          <6>4. kvp_arr' = << >> /\ leaked' = {} /\ ~ CharIsSigned'
            BY <2>1, <3>1, <3>2
          <6> QED BY <3>1, <3>3, <4>4, <6>1, <6>2, <6>3, <6>4, Zenon DEF Within
        <5> QED BY <2>1, <4>2, <5>1
      <4> QED BY <4>3, <4>4
    <3> QED BY <3>4, <3>5
  <2> QED BY <2>2, <2>3
<1>6. CASE parse_aux
  <2>1. rdb_pc = "field" /\ UNCHANGED <<CharIsSigned, file, pos, prev_state, next_state>>
    BY <1>6 DEF parse_aux, given
  <2>2. Within
    BY <2>1 DEF Before, Behind
  <2>3. /\ prev_state = "AUX" /\ ~ CharIsSigned /\ leaked = {} /\ PairedUp(fields)
        /\ Strings(pos - 1) /\ next_state = file.items[pos]
        /\ \/ reading = "READING_KEY" /\ kvp_arr = << >> /\ pos = 2 * Len(fields) + 2
           \/ reading = "READING_VALUE" /\ kvp_arr = <<pos - 1>> /\ pos = 2 * Len(fields) + 3
    BY <2>1, <2>2 DEF Within
  <2>4. Len(fields) \in Nat /\ pos - 1 >= 2 * Len(fields) + 1
    BY <2>3 DEF PairedUp
  <2>5. Strings(2 * Len(fields) + 1)
    BY <2>3, <2>4 DEF Strings
  <2>6. CASE Invalid
    <3>1. rdb_pc' = "loop" /\ kvp_arr' = << >> /\ fields' = fields /\ leaked' \subseteq {pos}
          /\ \A n \in leaked' : file.items[n] = "SPECIAL"
      BY <1>6, <2>1, <2>3, <2>6 DEF parse_aux, Invalid
    <3>2. Behind'
      <4>1. PairedUp(fields') /\ Strings(2 * Len(fields) + 1)'
        BY <2>1, <2>3, <2>5, <3>1 DEF Strings
      <4>2. \A n \in leaked' : file'.items[n] = "SPECIAL"
        BY <2>1, <3>1
      <4> QED BY <2>1, <2>3, <3>1, <4>1, <4>2 DEF Behind
    <3> QED BY <2>1, <3>2
  <2>7. CASE next_state = "STRING" /\ Settle(pos) /\ rdb_pc' = "next" /\ leaked' = leaked
    <3>1. Strings(pos)
      <4> SUFFICES ASSUME NEW k \in 2 .. pos PROVE file.items[k] = "STRING"
        BY <2>3 DEF Strings
      <4>1. CASE k = pos
        BY <2>3, <2>7, <4>1
      <4>2. CASE k # pos
        <5>1. k \in 2 .. pos - 1
          BY <4>2
        <5> QED BY <2>3, <5>1 DEF Strings
      <4> QED BY <4>1, <4>2
    <3>2. CASE reading = "READING_KEY"
      <4>1. reading' = "READING_VALUE" /\ kvp_arr' = <<pos>> /\ fields' = fields
        BY <2>7, <3>2 DEF Settle
      <4>2. Within'
        <5>1. PairedUp(fields') /\ Strings(pos)'
          BY <2>1, <2>3, <3>1, <4>1 DEF Strings
        <5>2. pos' = 2 * Len(fields') + 2 /\ kvp_arr' = <<pos'>>
          BY <2>1, <2>3, <3>2, <4>1
        <5> QED BY <2>1, <2>3, <2>7, <4>1, <5>1, <5>2 DEF Within
      <4> QED BY <2>1, <4>2
    <3>3. CASE reading = "READING_VALUE"
      <4>1. /\ reading' = "READING_KEY" /\ kvp_arr' = << >>
            /\ fields' = Append(fields, <<pos - 1, pos>>)
        BY <2>3, <2>7, <3>3 DEF Settle
      <4>2. PairedUp(fields') /\ pos = 2 * Len(fields') + 1
        <5> DEFINE m == Len(fields)
        <5>1. m \in Nat /\ pos = 2 * m + 3
          BY <2>3, <2>4, <3>3
        <5>2. <<pos - 1, pos>> \in Nat \X Nat /\ <<pos - 1, pos>> = <<2 * (m + 1), 2 * (m + 1) + 1>>
          BY <5>1
        <5>3. /\ fields' \in Seq(Nat \X Nat) /\ Len(fields') = m + 1
              /\ \A n \in 1 .. m : fields'[n] = fields[n]
              /\ fields'[m + 1] = <<pos - 1, pos>>
          BY <2>3, <4>1, <5>2 DEF PairedUp
        <5>4. \A n \in 1 .. m + 1 : n \in 1 .. m \/ n = m + 1
          BY <5>1
        <5>5. \A n \in 1 .. m : fields[n] = <<2 * n, 2 * n + 1>>
          BY <2>3 DEF PairedUp
        <5> HIDE DEF m
        <5>6. \A n \in 1 .. m + 1 : fields'[n] = <<2 * n, 2 * n + 1>>
          BY <5>2, <5>3, <5>4, <5>5, Zenon
        <5>7. PairedUp(fields')
          BY <5>3, <5>6, Zenon DEF PairedUp
        <5> QED BY <5>1, <5>3, <5>7
      <4>3. Within'
        BY <2>1, <2>3, <2>7, <3>1, <4>1, <4>2 DEF Within, Strings
      <4> QED BY <2>1, <4>3
    <3> QED BY <2>3, <3>2, <3>3
  <2> QED BY <1>6, <2>6, <2>7 DEF parse_aux
<1>7. CASE NextField
  <2>1. rdb_pc = "next" /\ UNCHANGED <<CharIsSigned, file, prev_state, reading, fields>>
    BY <1>7 DEF NextField, given
  <2>2. Within
    BY <2>1 DEF Before, Behind
  <2>3. /\ prev_state = "AUX" /\ ~ CharIsSigned /\ leaked = {} /\ PairedUp(fields)
        /\ Strings(pos)
        /\ \/ reading = "READING_KEY" /\ kvp_arr = << >> /\ pos = 2 * Len(fields) + 1
           \/ reading = "READING_VALUE" /\ kvp_arr = <<pos>> /\ pos = 2 * Len(fields) + 2
    BY <2>1, <2>2 DEF Within
  <2>4. Len(fields) \in Nat /\ pos >= 2 * Len(fields) + 1
    BY <2>3 DEF PairedUp
  <2>5. Strings(2 * Len(fields) + 1)
    BY <2>3, <2>4 DEF Strings
  <2>6. CASE AtEnd
    <3>1. rdb_pc' = "loop" /\ kvp_arr' = << >> /\ leaked' = leaked /\ pos' = pos
      BY <1>7, <2>6 DEF NextField, Invalid
    <3>2. Behind'
      BY <2>1, <2>3, <2>5, <3>1 DEF Behind, Strings, PairedUp
    <3> QED BY <2>1, <3>1, <3>2
  <2>7. CASE ~ AtEnd
    <3>1. /\ next_state' = file.items[pos + 1] /\ pos' = pos + 1 /\ kvp_arr' = kvp_arr
          /\ IF next_state' \in Opcode
             THEN rdb_pc' = "loop" /\ leaked' = leaked \cup {kvp_arr[n] : n \in DOMAIN kvp_arr}
             ELSE rdb_pc' = "field" /\ leaked' = leaked
      BY <1>7, <2>7 DEF NextField
    <3>2. pos' \in 0 .. Len(file.items)
      BY <2>7, <3>1 DEF AtEnd
    <3>3. CASE next_state' \in Opcode
      <4>1. rdb_pc' = "loop" /\ leaked' = {kvp_arr[n] : n \in DOMAIN kvp_arr}
        BY <2>3, <3>1, <3>3
      <4>2. CASE kvp_arr = << >>
        <5>1. leaked' = {}
          BY <4>1, <4>2
        <5>2. Behind'
          BY <2>1, <2>3, <2>5, <3>1, <4>1, <4>2, <5>1 DEF Behind, Strings, PairedUp
        <5> QED BY <2>1, <3>2, <5>2
      <4>3. CASE kvp_arr = <<pos>> /\ pos = 2 * Len(fields) + 2
        <5>1. leaked' = {pos}
          BY <4>1, <4>3
        <5>2. pos % 2 = 0 /\ file.items[pos + 1] \in Opcode
          BY <2>4, <3>1, <3>3, <4>3
        <5>3. Behind'
          BY <2>1, <2>3, <2>5, <3>1, <4>1, <5>1, <5>2 DEF Behind, Strings, PairedUp
        <5> QED BY <2>1, <3>2, <5>3
      <4> QED BY <2>3, <4>2, <4>3
    <3>4. CASE next_state' \notin Opcode
      <4>1. rdb_pc' = "field" /\ leaked' = {}
        BY <2>3, <3>1, <3>4
      <4>2. pos' - 1 = pos
        BY <3>1
      <4>3. \/ reading' = "READING_KEY" /\ kvp_arr' = << >> /\ pos' = 2 * Len(fields') + 2
            \/ /\ reading' = "READING_VALUE" /\ kvp_arr' = <<pos' - 1>>
               /\ pos' = 2 * Len(fields') + 3
        BY <2>1, <2>3, <2>4, <3>1, <4>2
      <4>4. Within'
        BY <2>1, <2>3, <3>1, <3>4, <4>1, <4>2, <4>3 DEF Within, Strings, PairedUp
      <4> QED BY <2>1, <3>2, <4>4
    <3> QED BY <3>3, <3>4
  <2> QED BY <2>6, <2>7
<1> QED BY <1>1, <1>2, <1>3, <1>4, <1>5, <1>6, <1>7 DEF RdbNext

\* redis_rdb_file_parser hands auxiliary_field_settings the strings behind the
\* first AUX two by two, reads no second run of fields and none where char is signed, and
\* loses buffers only to special formats and forgotten keys, for files of any
\* length.
THEOREM AuxFieldsCorrect == RdbSpec => []AuxFields
<1>1. RdbInv => AuxFields
  <2> SUFFICES ASSUME RdbInv PROVE AuxFields
    OBVIOUS
  <2>1. CASE Before
    <3>1. FieldsPairUp
      BY <2>1 DEF Before, FieldsPairUp
    <3> QED BY <2>1, <3>1 DEF RdbInv, Before, AuxFields, LeakCauses, OneAux, SignedReadsNoField
  <2>2. CASE Within
    <3>1. /\ PairedUp(fields) /\ Len(fields) \in Nat /\ DOMAIN fields = 1 .. Len(fields)
          /\ leaked = {} /\ ~ CharIsSigned /\ rdb_pc # "returned"
      BY <2>2 DEF Within, PairedUp
    <3>2. pos \in Nat
      BY DEF RdbInv
    <3>3. CASE rdb_pc = "field"
      <4>1. /\ Strings(pos - 1) /\ file.items[pos] \notin Opcode
            /\ pos - 1 >= 2 * Len(fields) + 1
        BY <2>2, <3>1, <3>3 DEF Within
      <4>2. FieldsPairUp
        BY <3>1, <3>2, <4>1, SMTT(30) DEF PairedUp, Strings, FieldsPairUp
      <4>3. \A n \in 2 .. pos : file.items[n] # "AUX"
        <5> SUFFICES ASSUME NEW n \in 2 .. pos PROVE file.items[n] # "AUX"
          OBVIOUS
        <5>1. CASE n = pos
          BY <4>1, <5>1 DEF Opcode
        <5>2. CASE n # pos
          <6>1. n \in 2 .. pos - 1
            BY <3>2, <5>2
          <6>2. file.items[n] = "STRING"
            BY <4>1, <6>1 DEF Strings
          <6> QED BY <6>2
        <5> QED BY <5>1, <5>2
      <4> QED BY <3>1, <4>2, <4>3 DEF AuxFields, LeakCauses, OneAux, SignedReadsNoField
    <3>4. CASE rdb_pc = "next"
      <4>1. Strings(pos) /\ pos >= 2 * Len(fields) + 1
        BY <2>2, <3>1, <3>4 DEF Within
      <4>2. FieldsPairUp
        BY <3>1, <3>2, <4>1, SMTT(30) DEF PairedUp, Strings, FieldsPairUp
      <4>3. \A n \in 2 .. pos : file.items[n] # "AUX"
        BY <4>1 DEF Strings
      <4> QED BY <3>1, <4>2, <4>3 DEF AuxFields, LeakCauses, OneAux, SignedReadsNoField
    <3> QED BY <2>2, <3>3, <3>4 DEF Within
  <2>3. CASE Behind
    <3>1. FieldsPairUp
      BY <2>3, SMTT(30) DEF Behind, PairedUp, Strings, FieldsPairUp
    <3> QED BY <2>3, <3>1 DEF Behind, AuxFields, LeakCauses, OneAux, SignedReadsNoField
  <2> QED BY <2>1, <2>2, <2>3 DEF RdbInv
<1> QED BY <1>1, RdbBegins, RdbStep, PTL DEF RdbSpec
=============================================================================
