-------------------------- MODULE StoreRaceProofs --------------------------
(***************************************************************************)
(* Proofs about StoreRace.tla, for any number of calls, names and workers. *)
(*                                                                         *)
(* The invariant has three parts:                                          *)
(*   Types, Bounds  what holds whatever calls overlap;                     *)
(*   Serial         what the map looks like, at every point of a call that *)
(*                  changes it, while no such call has overlapped another; *)
(*   Blocked        where the only call since the map was last quiet can   *)
(*                  be when there is an empty slot below top.              *)
(***************************************************************************)
EXTENDS StoreRace, FiniteSetTheorems, TLAPS

Cell == Call \cup {NULL, UNDEF}
Block == UNION {[S -> Cell] : S \in SUBSET Int}
Command == [kind : Kind, name : Name]

\* Labels of a SET behind the scan that did not find the key ...
Adding == {"is_full", "grow_keys", "grow_values", "publish", "load_top", "store_top",
           "put_key", "put_value"}
\* ... of one that did, and of a GET that removes a key.
Upgrading == {"up_read", "up_value", "up_key", "free_up"}
Taking == {"find_rm", "shift", "clear", "drop_top", "free_rm"}
Label == {"idle", "done", "find_set", "find_get", "read", "use"}
           \cup Adding \cup Upgrading \cup Taking

\* A call has its command, its label fits, and its local copies have the types
\* the label needs.
CallOK(c) ==
  /\ pc[c] = "idle" \/ cmd[c] \in Command
  /\ pc[c] \in {"find_get", "read", "use"} => cmd[c].kind \in {"NX", "GET"}
  /\ pc[c] \in {"find_set"} \cup Adding \cup Upgrading => cmd[c].kind \in {"SET", "NX"}
  /\ pc[c] \in Taking => cmd[c].kind = "GET"
  /\ pc[c] \in Adding \ {"is_full"} => wkey[c] \in Call /\ wval[c] \in Call
  /\ pc[c] \in {"use", "shift", "clear", "drop_top", "free_rm", "up_value", "up_key", "free_up"} =>
       Len(reg[c]) >= 2 /\ reg[c][1] \in Call /\ reg[c][2] \in Call
  /\ pc[c] \in {"shift", "clear"} => Len(reg[c]) = 2
  /\ pc[c] = "drop_top" => Len(reg[c]) = 3 /\ reg[c][3] \in Int
  /\ pc[c] \in {"grow_values", "publish"} =>
       Len(reg[c]) >= 2 /\ reg[c][1] \in 1 .. Len(blocks) /\ reg[c][2] \in Nat \ {0}
  /\ pc[c] = "grow_values" => Len(reg[c]) = 2
  /\ pc[c] = "publish" => Len(reg[c]) = 3 /\ reg[c][3] \in 1 .. Len(blocks)
  /\ pc[c] = "store_top" => Len(reg[c]) = 1 /\ reg[c][1] \in Int
  /\ pc[c] = "done" => reply[c] \in Call \cup {"OK", "nil", "empty", "error"}

\* The wrappers in the blocks point to nodes.
Wraps(bs) ==
  \A b \in 1 .. Len(bs) : \A n \in DOMAIN bs[b] :
    bs[b][n] \in Call => wkey[bs[b][n]] \in Call /\ wval[bs[b][n]] \in Call
Wrapped == Wraps(blocks)

Types ==
  /\ top \in Int /\ capacity \in Nat \ {0}
  /\ blocks \in Seq(Block) /\ keys \in 1 .. Len(blocks) /\ values \in 1 .. Len(blocks)
  /\ wkey \in [Call -> Call \cup {NULL}] /\ wval \in [Call -> Call \cup {NULL}]
  /\ Wrapped
  /\ cmd \in [Call -> Command \cup {NULL}]
  /\ pc \in [Call -> Label] /\ i \in [Call -> Nat]
  /\ reg \in [Call -> Seq(Call \cup Int)]
  /\ reply \in [Call -> Call \cup {NULL, "OK", "nil", "empty", "error"}]
  /\ fault \in BOOLEAN /\ overlap \in BOOLEAN /\ wrong \in BOOLEAN
  /\ ref \in [Name -> Call \cup {NULL}]
  /\ window \in [hole : BOOLEAN, overlap : BOOLEAN, call : Call \cup {NULL}]
  /\ \A c \in Call : CallOK(c)

\* Who may have raised top, and lowered it: each call once.
Raised == {c \in Call : pc[c] \in {"put_key", "put_value", "done"}}
Lowered == {c \in Call : pc[c] \in {"free_rm", "done"}}
InBounds(t) == t + 1 =< Cardinality(Raised) /\ t + 1 >= -Cardinality(Lowered)

Bounds ==
  /\ InBounds(top)
  /\ \A c \in Call : /\ pc[c] = "store_top" => InBounds(reg[c][1])
                     /\ pc[c] = "drop_top" => InBounds(reg[c][3])

-----------------------------------------------------------------------------

\* The slots S of the arrays kf and vf hold the dictionary d: both slots hold
\* the same wrapper, of a call in D; its nodes are of one call in D, alive and
\* what d has for their name; no two slots share anything; and d has no more.
Holds(kf, vf, S, d, wk, wv, fr, cm, D) ==
  /\ \A n \in S : /\ n \in DOMAIN kf /\ n \in DOMAIN vf
                  /\ kf[n] \in D /\ vf[n] = kf[n]
                  /\ wk[kf[n]] \in D /\ wv[kf[n]] = wk[kf[n]]
                  /\ <<"key", wk[kf[n]]>> \notin fr /\ <<"value", wk[kf[n]]>> \notin fr
                  /\ d[cm[wk[kf[n]]].name] = wk[kf[n]]
  /\ \A n, m \in S : kf[n] = kf[m] \/ wk[kf[n]] = wk[kf[m]] => n = m
  /\ \A nm \in Name : d[nm] # NULL => \E n \in S : cm[wk[kf[n]]].name = nm

\* Calls whose nodes the map may hold.
Linked == {c \in Call : pc[c] \in {"done", "free_up"}}

Good(kf, vf, S, d) == Holds(kf, vf, S, d, wkey, wval, freed, cmd, Linked)

\* No slot in S of the keys kf has the name of call c.
Missing(kf, S, c) == \A n \in S : cmd[wkey[kf[n]]].name # cmd[c].name

\* Neither node of the pair e is freed, and no slot in S has one of them.
Loose(kf, S, e) ==
  /\ pc[e] = "done" /\ <<"key", e>> \notin freed /\ <<"value", e>> \notin freed
  /\ \A n \in S : wkey[kf[n]] # e

KeyArr == blocks[keys]
ValArr == blocks[values]
Fits == /\ DOMAIN KeyArr = 0 .. capacity - 1 /\ DOMAIN ValArr = 0 .. capacity - 1
        /\ keys # values
Sets(d, nm, x) == [d EXCEPT ![nm] = x]
With(c, x) == Sets(ref, cmd[c].name, x)

\* Where the map is not the dictionary ref.
Unsettled == {"grow_values", "publish", "put_key", "put_value", "up_key", "free_up",
              "shift", "clear", "drop_top", "free_rm"}

\* The map at the label of a call c that is not disturbed.
Scanning(c) ==
  /\ pc[c] \in {"find_set", "find_get", "find_rm"} => Missing(KeyArr, {n \in 0 .. top : n < i[c]}, c)
  /\ pc[c] = "find_set" /\ cmd[c].kind = "NX" => Missing(KeyArr, 0 .. top, c)
  /\ pc[c] \in {"read", "use", "up_read", "up_value"} =>
       i[c] \in 0 .. top /\ cmd[wkey[KeyArr[i[c]]]].name = cmd[c].name
  /\ pc[c] \in {"use", "up_value"} =>
       reg[c][1] = wkey[KeyArr[i[c]]] /\ reg[c][2] = reg[c][1]

Adds(c) ==
  /\ pc[c] \in {"is_full", "grow_keys", "load_top", "store_top"} => Missing(KeyArr, 0 .. top, c)
  /\ pc[c] \in Adding \ {"is_full"} => wkey[c] = c /\ wval[c] = c
  /\ pc[c] \in {"grow_keys", "grow_values", "publish"} => top + 1 = capacity
  /\ pc[c] \in {"load_top", "store_top"} => top + 1 < capacity
  /\ pc[c] = "grow_values" =>
       LET kf == blocks[reg[c][1]]
       IN  /\ reg[c][2] = 2 * capacity /\ reg[c][1] # values
           /\ DOMAIN kf = 0 .. 2 * capacity - 1 /\ DOMAIN ValArr = 0 .. capacity - 1
           /\ Good(kf, ValArr, 0 .. top, ref) /\ Missing(kf, 0 .. top, c)
  /\ pc[c] = "publish" =>
       LET kf == blocks[reg[c][1]]
           vf == blocks[reg[c][3]]
       IN  /\ reg[c][2] = 2 * capacity /\ reg[c][1] # reg[c][3]
           /\ DOMAIN kf = 0 .. 2 * capacity - 1 /\ DOMAIN vf = 0 .. 2 * capacity - 1
           /\ Good(kf, vf, 0 .. top, ref) /\ Missing(kf, 0 .. top, c)
  /\ pc[c] = "store_top" => reg[c][1] = top
  /\ pc[c] \in {"put_key", "put_value"} =>
       top >= 0 /\ Good(KeyArr, ValArr, 0 .. top - 1, ref) /\ Missing(KeyArr, 0 .. top - 1, c)
  /\ pc[c] = "put_value" => KeyArr[top] = c

Upgrades(c) ==
  /\ pc[c] \in Upgrading => cmd[c].kind = "SET"
  /\ pc[c] \in {"up_key", "free_up"} => reg[c][2] = reg[c][1]
  /\ pc[c] = "up_key" =>
       /\ i[c] \in 0 .. top
       /\ Good(KeyArr, ValArr, (0 .. top) \ {i[c]}, With(c, NULL))
       /\ Loose(KeyArr, (0 .. top) \ {i[c]}, reg[c][1])
       /\ KeyArr[i[c]] \in Linked /\ ValArr[i[c]] = KeyArr[i[c]]
       /\ wval[KeyArr[i[c]]] = c
       /\ \A n \in (0 .. top) \ {i[c]} : KeyArr[n] # KeyArr[i[c]]
  /\ pc[c] = "free_up" =>
       /\ Good(KeyArr, ValArr, 0 .. top, With(c, c))
       /\ Loose(KeyArr, 0 .. top, reg[c][1])

Takes(c) ==
  /\ pc[c] \in Taking \ {"find_rm"} => reg[c][2] = reg[c][1]
  /\ pc[c] \in {"shift", "clear"} =>
       /\ i[c] \in 0 .. top
       /\ Good(KeyArr, ValArr, (0 .. top) \ {i[c]}, With(c, NULL))
       /\ Loose(KeyArr, (0 .. top) \ {i[c]}, reg[c][1])
  /\ pc[c] = "clear" => i[c] = top
  /\ pc[c] = "drop_top" =>
       /\ top >= 0 /\ reg[c][3] = top
       /\ Good(KeyArr, ValArr, 0 .. top - 1, With(c, NULL))
       /\ Loose(KeyArr, 0 .. top - 1, reg[c][1])
  /\ pc[c] = "free_rm" =>
       /\ Good(KeyArr, ValArr, 0 .. top, With(c, NULL))
       /\ Loose(KeyArr, 0 .. top, reg[c][1])

At(c) == Scanning(c) /\ Adds(c) /\ Upgrades(c) /\ Takes(c)
FreedDone == \A c \in Call : <<"key", c>> \in freed \/ <<"value", c>> \in freed => pc[c] = "done"

Serial ==
  /\ ~ fault /\ ~ wrong
  /\ \A c \in Call : Changing(c) => Active = {c}
  /\ top \in -1 .. capacity - 1
  /\ (\A c \in Call : pc[c] \notin {"grow_values", "publish"}) => Fits
  /\ (\A c \in Call : pc[c] \notin Unsettled) => Good(KeyArr, ValArr, 0 .. top, ref)
  /\ FreedDone
  /\ \A c \in Call : At(c)

\* The same when no other call is active.
Alone(c) == \A d \in Call \ {c} : pc[d] \in {"idle", "done"}
SerialAt(c) ==
  /\ ~ fault /\ ~ wrong
  /\ top \in -1 .. capacity - 1
  /\ pc[c] \notin {"grow_values", "publish"} => Fits
  /\ pc[c] \notin Unsettled => Good(KeyArr, ValArr, 0 .. top, ref)
  /\ FreedDone
  /\ At(c)

-----------------------------------------------------------------------------

\* A call that has not started is at the first slot, and the call of the window
\* has started.
Fresh ==
  /\ \A c \in Call : pc[c] = "idle" => i[c] = 0
  /\ IF window.call = NULL THEN ~ window.hole ELSE pc[window.call] # "idle"

\* A SET that runs alone on a map with an empty slot never gets to Adding: the
\* scan ends at the slot or before it, and an entry it replaces is in front of it.
Stuck(c) ==
  /\ Hole
  /\ pc[c] \notin Adding
  /\ \A n \in 0 .. top : n < i[c] => Slot(keys, n) # NULL
  /\ pc[c] \in Upgrading => i[c] =< top /\ Slot(keys, i[c]) # NULL
  /\ pc[c] = "free_up" => IsWrapper(Slot(keys, i[c])) /\ wkey[Slot(keys, i[c])] = c

InFront(c) ==
  \E n \in 0 .. top :
    /\ IsWrapper(Slot(keys, n)) /\ wkey[Slot(keys, n)] = c
    /\ \A m \in 0 .. n : Slot(keys, m) # NULL

Blocked ==
  LET c == window.call
  IN  (c # NULL /\ ~ fault /\ ~ window.overlap /\ cmd[c].kind # "GET") =>
        /\ Active \subseteq {c}
        /\ window.hole => IF pc[c] = "done" THEN reply[c] = "OK" => InFront(c) ELSE Stuck(c)

Inv ==
  /\ Types /\ Bounds
  /\ ~ overlap => Serial
  /\ Fresh /\ Blocked

-----------------------------------------------------------------------------
(* Blocks of memory.                                                       *)

LEMMA EmptyBlock == <<>> \in Block /\ DOMAIN <<>> = {}
<1>1. <<>> \in [{} -> Cell]
  BY SMT
<1> QED BY <1>1, SMT DEF Block

LEMMA BlockDomain == ASSUME NEW f \in Block PROVE DOMAIN f \subseteq Int /\ \A n \in DOMAIN f : f[n] \in Cell
BY DEF Block

LEMMA BlockPut ==
  ASSUME NEW f \in Block, NEW n, NEW x \in Cell
  PROVE  /\ [f EXCEPT ![n] = x] \in Block
         /\ DOMAIN [f EXCEPT ![n] = x] = DOMAIN f
         /\ \A m \in DOMAIN f : [f EXCEPT ![n] = x][m] = IF m = n THEN x ELSE f[m]
<1>1. PICK S \in SUBSET Int : f \in [S -> Cell]
  BY DEF Block
<1>2. [f EXCEPT ![n] = x] \in [S -> Cell]
  BY <1>1
<1> QED BY <1>1, <1>2 DEF Block

LEMMA BlockMove ==
  ASSUME NEW f \in Block, NEW n \in Nat
  PROVE  [m \in 0 .. n - 1 |-> IF m \in DOMAIN f THEN f[m] ELSE UNDEF] \in Block
<1>1. [m \in 0 .. n - 1 |-> IF m \in DOMAIN f THEN f[m] ELSE UNDEF] \in [0 .. n - 1 -> Cell]
  BY BlockDomain DEF Cell
<1>2. 0 .. n - 1 \in SUBSET Int
  OBVIOUS
<1> QED BY <1>1, <1>2 DEF Block

LEMMA BlocksPut ==
  ASSUME NEW bs \in Seq(Block), NEW b \in 1 .. Len(bs), NEW f \in Block
  PROVE  /\ [bs EXCEPT ![b] = f] \in Seq(Block)
         /\ Len([bs EXCEPT ![b] = f]) = Len(bs)
         /\ \A a \in 1 .. Len(bs) : [bs EXCEPT ![b] = f][a] = IF a = b THEN f ELSE bs[a]
OBVIOUS

LEMMA MovedBlocks ==
  ASSUME blocks \in Seq(Block), NEW b \in 1 .. Len(blocks), NEW n \in Nat
  PROVE  /\ Moved(b, n) \in Seq(Block)
         /\ Len(Moved(b, n)) = Len(blocks) + 1
         /\ \A a \in 1 .. Len(blocks) : Moved(b, n)[a] = IF a = b THEN <<>> ELSE blocks[a]
         /\ Moved(b, n)[Len(blocks) + 1] =
              [m \in 0 .. n - 1 |-> IF m \in DOMAIN blocks[b] THEN blocks[b][m] ELSE UNDEF]
<1> DEFINE f == [m \in 0 .. n - 1 |-> IF m \in DOMAIN blocks[b] THEN blocks[b][m] ELSE UNDEF]
           bs == [blocks EXCEPT ![b] = <<>>]
<1>1. blocks[b] \in Block
  OBVIOUS
<1>2. f \in Block
  BY <1>1, BlockMove
<1>3. bs \in Seq(Block) /\ Len(bs) = Len(blocks)
      /\ \A a \in 1 .. Len(blocks) : bs[a] = IF a = b THEN <<>> ELSE blocks[a]
  BY EmptyBlock, BlocksPut
<1>4. Moved(b, n) = Append(bs, f)
  BY DEF Moved
<1> HIDE DEF f, bs
<1>5. /\ Append(bs, f) \in Seq(Block) /\ Len(Append(bs, f)) = Len(bs) + 1
      /\ \A a \in 1 .. Len(bs) : Append(bs, f)[a] = bs[a]
      /\ Append(bs, f)[Len(bs) + 1] = f
  BY <1>2, <1>3
<1> QED BY <1>3, <1>4, <1>5 DEF f

\* One more local copy.
LEMMA AppendCopy ==
  ASSUME NEW S, NEW s \in Seq(S), NEW x \in S
  PROVE  /\ Append(s, x) \in Seq(S) /\ Len(Append(s, x)) = Len(s) + 1
         /\ \A n \in 1 .. Len(s) : Append(s, x)[n] = s[n]
         /\ Append(s, x)[Len(s) + 1] = x
OBVIOUS

LEMMA ThirdCopy ==
  ASSUME NEW S, NEW s \in Seq(S), NEW x \in S, Len(s) = 2
  PROVE  /\ Append(s, x) \in Seq(S) /\ Len(Append(s, x)) = 3
         /\ Append(s, x)[1] = s[1] /\ Append(s, x)[2] = s[2] /\ Append(s, x)[3] = x
BY AppendCopy

-----------------------------------------------------------------------------
(* Types, whatever overlaps.                                               *)

LEMMA CallFrame ==
  ASSUME NEW d \in Call, CallOK(d),
         pc'[d] = pc[d], cmd'[d] = cmd[d], reg'[d] = reg[d], reply'[d] = reply[d],
         Len(blocks) \in Nat, Len(blocks') \in Nat, Len(blocks) =< Len(blocks'),
         wkey[d] \in Call => wkey'[d] \in Call,
         wval[d] \in Call => wval'[d] \in Call
  PROVE  CallOK(d)'
<1>1. \A n : n \in 1 .. Len(blocks) => n \in 1 .. Len(blocks')
  OBVIOUS
<1> QED BY <1>1 DEF CallOK

\* A step that leaves map and nodes alone.
LEMMA TypesLocal ==
  ASSUME Types, NEW c \in Call, CallOK(c)',
         UNCHANGED <<map, wkey, wval>>,
         \A d \in Call \ {c} : /\ pc'[d] = pc[d] /\ cmd'[d] = cmd[d]
                               /\ reg'[d] = reg[d] /\ reply'[d] = reply[d],
         cmd' \in [Call -> Command \cup {NULL}],
         pc' \in [Call -> Label], i' \in [Call -> Nat], reg' \in [Call -> Seq(Call \cup Int)],
         reply' \in [Call -> Call \cup {NULL, "OK", "nil", "empty", "error"}],
         fault' \in BOOLEAN, overlap' \in BOOLEAN, wrong' \in BOOLEAN,
         ref' \in [Name -> Call \cup {NULL}],
         window' \in [hole : BOOLEAN, overlap : BOOLEAN, call : Call \cup {NULL}]
  PROVE  Types'
<1>1. \A d \in Call \ {c} : CallOK(d)'
  <2>1. Len(blocks) \in Nat
    BY DEF Types
  <2> QED BY <2>1, CallFrame DEF Types, map
<1>2. \A d \in Call : CallOK(d)'
  BY <1>1
<1> QED BY <1>2 DEF Types, Wrapped, Wraps, map

\* A step that changes the map or the wrappers.
LEMMA TypesMapFinish ==
  ASSUME Types, NEW c \in Call, CallOK(c)', Wrapped',
         top' \in Int, capacity' \in Nat \ {0},
         blocks' \in Seq(Block), Len(blocks) =< Len(blocks'),
         keys' \in 1 .. Len(blocks'), values' \in 1 .. Len(blocks'),
         wkey' \in [Call -> Call \cup {NULL}], wval' \in [Call -> Call \cup {NULL}],
         \A d \in Call : /\ wkey[d] \in Call => wkey'[d] \in Call
                         /\ wval[d] \in Call => wval'[d] \in Call,
         \A d \in Call \ {c} : pc'[d] = pc[d] /\ reg'[d] = reg[d] /\ reply'[d] = reply[d],
         pc' \in [Call -> Label], i' \in [Call -> Nat], reg' \in [Call -> Seq(Call \cup Int)],
         reply' \in [Call -> Call \cup {NULL, "OK", "nil", "empty", "error"}],
         wrong' \in BOOLEAN, ref' \in [Name -> Call \cup {NULL}],
         UNCHANGED <<cmd, fault, overlap, window>>
  PROVE  Types'
<1>1. Len(blocks) \in Nat /\ Len(blocks') \in Nat
  BY SMTT(30) DEF Types
<1>2. \A d \in Call \ {c} : CallOK(d)'
  BY <1>1, CallFrame DEF Types
<1>3. \A d \in Call : CallOK(d)'
  BY <1>2
<1> QED BY <1>3 DEF Types

LEMMA TypesMap ==
  ASSUME Types, NEW c \in Call, CallOK(c)', Wrapped',
         top' \in Int, capacity' \in Nat \ {0},
         blocks' \in Seq(Block), Len(blocks) =< Len(blocks'),
         keys' \in 1 .. Len(blocks'), values' \in 1 .. Len(blocks'),
         wkey' \in [Call -> Call \cup {NULL}], wval' \in [Call -> Call \cup {NULL}],
         \A d \in Call : /\ wkey[d] \in Call => wkey'[d] \in Call
                         /\ wval[d] \in Call => wval'[d] \in Call,
         \A d \in Call \ {c} : pc'[d] = pc[d] /\ reg'[d] = reg[d],
         pc' \in [Call -> Label], i' \in [Call -> Nat], reg' \in [Call -> Seq(Call \cup Int)],
         UNCHANGED <<cmd, reply, fault, ghosts>>
  PROVE  Types'
<1>1. UNCHANGED <<cmd, fault, overlap, window>>
  BY DEF ghosts
<1>2. /\ reply' \in [Call -> Call \cup {NULL, "OK", "nil", "empty", "error"}]
      /\ wrong' \in BOOLEAN /\ ref' \in [Name -> Call \cup {NULL}]
      /\ \A d \in Call \ {c} : reply'[d] = reply[d]
  BY DEF Types, ghosts
<1> QED BY <1>1, <1>2, TypesMapFinish

LEMMA TFault == ASSUME Types, Fault PROVE Types'
<1> USE DEF Fault, map, nodes, locals, ghosts
<1>1. Len(blocks) \in Nat
  BY DEF Types
<1>2. \A d \in Call : CallOK(d)'
  BY <1>1, CallFrame DEF Types
<1> QED BY <1>2 DEF Types, Wrapped, Wraps

LEMMA TJump ==
  ASSUME Types, NEW c \in Call, NEW label \in Label, NEW n \in Nat, Jump(c, label, n), CallOK(c)'
  PROVE  Types'
<1> USE DEF Jump, Goto, map, nodes, ghosts
<1>1. pc' \in [Call -> Label] /\ i' \in [Call -> Nat]
      /\ \A d \in Call \ {c} : pc'[d] = pc[d]
  BY DEF Types
<1> QED BY <1>1, TypesLocal DEF Types

LEMMA AfterType ==
  ASSUME Types, NEW c \in Call PROVE After(c) \in [Name -> Call \cup {NULL}]
BY DEF After, Types

LEMMA FinishType ==
  ASSUME Types, NEW c \in Call, NEW r \in Call \cup {"OK", "nil", "empty", "error"},
         Finish(c, r), pc[c] # "idle"
  PROVE  /\ pc' = [pc EXCEPT ![c] = "done"] /\ pc' \in [Call -> Label]
         /\ reply' \in [Call -> Call \cup {NULL, "OK", "nil", "empty", "error"}]
         /\ \A d \in Call \ {c} : pc'[d] = pc[d] /\ reply'[d] = reply[d]
         /\ ref' \in [Name -> Call \cup {NULL}]
         /\ wrong' \in BOOLEAN
         /\ CallOK(c)'
<1> USE DEF Finish, Goto
<1>1. pc' = [pc EXCEPT ![c] = "done"] /\ pc' \in [Call -> Label] /\ pc'[c] = "done"
  BY DEF Types, Label
<1>2. reply' \in [Call -> Call \cup {NULL, "OK", "nil", "empty", "error"}] /\ reply'[c] = r
  BY DEF Types
<1>3. \A d \in Call \ {c} : pc'[d] = pc[d] /\ reply'[d] = reply[d]
  BY DEF Types
<1>4. ref' \in [Name -> Call \cup {NULL}]
  BY AfterType
<1>5. wrong' \in BOOLEAN
  BY Zenon
<1>6. CallOK(c)'
  <2>1. cmd'[c] \in Command
    BY DEF Types, CallOK
  <2> QED BY <1>1, <1>2, <2>1 DEF CallOK, Adding, Upgrading, Taking
<1> QED BY <1>1, <1>2, <1>3, <1>4, <1>5, <1>6

LEMMA TFinish ==
  ASSUME Types, NEW c \in Call, NEW r \in Call \cup {"OK", "nil", "empty", "error"},
         Finish(c, r), pc[c] # "idle", UNCHANGED <<map, wkey, wval>>
  PROVE  Types'
<1>1. UNCHANGED <<cmd, i, reg, fault, overlap, window>>
  BY DEF Finish
<1> QED BY <1>1, FinishType, TypesLocal DEF Types

LEMMA TFreeAndFinish ==
  ASSUME Types, NEW c \in Call, NEW k, NEW v, NEW r \in Call \cup {"OK", "nil", "empty", "error"},
         pc[c] # "idle", FreeAndFinish(c, k, v, r)
  PROVE  Types'
<1>1. CASE Alive(k, v)
  BY <1>1, TFinish DEF FreeAndFinish
<1>2. CASE ~ Alive(k, v)
  BY <1>2, TFault DEF FreeAndFinish
<1> QED BY <1>1, <1>2

LEMMA TSetFails ==
  ASSUME Types, NEW c \in Call, pc[c] # "idle", SetFails(c)
  PROVE  Types'
<1>1. CASE cmd[c].kind = "NX"
  BY <1>1, TFinish DEF SetFails, nodes
<1>2. CASE cmd[c].kind # "NX"
  BY <1>2, TFreeAndFinish DEF SetFails
<1> QED BY <1>1, <1>2

LEMMA SlotType ==
  ASSUME Types, NEW b \in {keys, values}, NEW n, Slot(b, n) \in Call
  PROVE  /\ n \in DOMAIN blocks[b] /\ blocks[b][n] = Slot(b, n)
         /\ wkey[Slot(b, n)] \in Call /\ wval[Slot(b, n)] \in Call
<1>1. n \in DOMAIN blocks[b] /\ blocks[b][n] = Slot(b, n)
  BY CallAssumption DEF Slot
<1> QED BY <1>1 DEF Types, Wrapped, Wraps

\* A step that copies two nodes to the local copies.
LEMMA TCopy ==
  ASSUME Types, NEW c \in Call, NEW x \in Call, NEW y \in Call, NEW label \in Label,
         label \in {"use", "shift", "up_value"},
         label = "use" => cmd[c].kind \in {"NX", "GET"},
         label = "shift" => cmd[c].kind = "GET",
         label = "up_value" => cmd[c].kind \in {"SET", "NX"},
         pc[c] # "idle",
         reg' = [reg EXCEPT ![c] = <<x, y>>], Goto(c, label),
         UNCHANGED <<map, nodes, cmd, i, reply, fault, ghosts>>
  PROVE  Types'
<1> USE DEF Goto, map, nodes, ghosts
<1>1. /\ pc' \in [Call -> Label] /\ pc'[c] = label
      /\ \A d \in Call \ {c} : pc'[d] = pc[d]
  BY DEF Types
<1>2. <<x, y>> \in Seq(Call \cup Int) /\ Len(<<x, y>>) = 2
  OBVIOUS
<1>3. /\ reg' \in [Call -> Seq(Call \cup Int)] /\ reg'[c] = <<x, y>>
      /\ \A d \in Call \ {c} : reg'[d] = reg[d]
  BY <1>2 DEF Types
<1>4. CallOK(c)'
  <2>1. cmd'[c] \in Command
    BY DEF Types, CallOK
  <2> QED BY <1>1, <1>2, <1>3, <2>1 DEF CallOK, Adding, Upgrading, Taking
<1> QED BY <1>1, <1>3, <1>4, TypesLocal DEF Types

LEMMA TAbsent ==
  ASSUME Types, NEW c \in Call, Absent(c) PROVE Types'
<1> USE DEF Adding, Upgrading, Taking, Label
<1>1. CASE pc[c] = "find_set" /\ Jump(c, "is_full", 0)
  <2>1. CallOK(c)'
    BY <1>1 DEF Jump, Goto, Types, CallOK
  <2> QED BY <1>1, <2>1, TJump
<1>2. CASE pc[c] = "find_get" /\ cmd[c].kind = "NX" /\ Jump(c, "find_set", 0)
  <2>1. CallOK(c)'
    BY <1>2 DEF Jump, Goto, Types, CallOK
  <2> QED BY <1>2, <2>1, TJump
<1>3. CASE /\ pc[c] = "find_rm" \/ (pc[c] = "find_get" /\ cmd[c].kind = "GET")
           /\ Finish(c, "nil") /\ UNCHANGED <<map, nodes>>
  BY <1>3, TFinish DEF nodes
<1> QED BY <1>1, <1>2, <1>3 DEF Absent

LEMMA TScan ==
  ASSUME Types, NEW c \in Call, Scan(c) PROVE Types'
<1> DEFINE k == Slot(keys, i[c])
<1>0. pc[c] \in {"find_set", "find_get", "find_rm"} /\ pc[c] # "idle"
  BY DEF Scan
<1>1. CASE i[c] > top
  BY <1>1, TAbsent DEF Scan
<1>2. CASE ~ (i[c] > top) /\ k = NULL
  <2>1. Broken(c)
    BY <1>2 DEF Scan
  <2> QED BY <2>1, <1>0, TSetFails, TAbsent, TFinish DEF Broken, nodes
<1>3. CASE ~ (i[c] > top) /\ k # NULL /\ Fault
  BY <1>3, TFault
<1>4. CASE ~ (i[c] > top) /\ k # NULL /\ IsWrapper(k) /\ Found(c)
  <2>1. k \in Call
    BY <1>4 DEF IsWrapper
  <2>2. CASE pc[c] = "find_set" /\ Jump(c, "up_read", i[c])
    <3>1. CallOK(c)'
      BY <2>2 DEF Jump, Goto, Types, CallOK, Adding, Upgrading, Taking
    <3> QED BY <2>2, <3>1, TJump DEF Types, Label, Upgrading
  <2>3. CASE pc[c] = "find_get" /\ Jump(c, "read", i[c])
    <3>1. CallOK(c)'
      BY <2>3 DEF Jump, Goto, Types, CallOK, Adding, Upgrading, Taking
    <3> QED BY <2>3, <3>1, TJump DEF Types, Label
  <2>4. CASE pc[c] = "find_rm" /\ FoundRemove(c)
    <3>1. CASE ~ IsWrapper(Slot(values, i[c]))
      BY <2>4, <3>1, TFault DEF FoundRemove
    <3>2. CASE IsWrapper(Slot(values, i[c]))
      <4>1. wkey[k] \in Call /\ wval[Slot(values, i[c])] \in Call
        BY <2>1, <3>2, SlotType DEF IsWrapper
      <4>2. cmd[c].kind = "GET"
        BY <2>4 DEF Types, CallOK, Taking
      <4>3. "shift" \in Label
        BY DEF Label, Taking
      <4>4. /\ reg' = [reg EXCEPT ![c] = <<wkey[k], wval[Slot(values, i[c])]>>]
            /\ Goto(c, "shift")
            /\ UNCHANGED <<map, nodes, cmd, i, reply, fault, ghosts>>
        BY <2>4, <3>2 DEF FoundRemove
      <4> QED BY <1>0, <4>1, <4>2, <4>3, <4>4, TCopy
    <3> QED BY <3>1, <3>2
  <2> QED BY <1>4, <2>2, <2>3, <2>4 DEF Found
<1>5. CASE Jump(c, pc[c], i[c] + 1)
  <2>1. pc'[c] = pc[c] /\ UNCHANGED <<map, nodes, cmd, reg, reply>>
    BY <1>5 DEF Jump, Goto, Types
  <2>2. CallOK(c)'
    BY <2>1, CallFrame DEF map, nodes, Types
  <2>3. i[c] + 1 \in Nat /\ pc[c] \in Label
    BY DEF Types
  <2> QED BY <1>5, <2>2, <2>3, TJump
<1> QED BY <1>1, <1>2, <1>3, <1>4, <1>5 DEF Scan

LEMMA TRead ==
  ASSUME Types, NEW c \in Call, Read(c) PROVE Types'
<1> DEFINE k == Slot(keys, i[c])
           v == Slot(values, i[c])
<1>0. pc[c] = "read" /\ cmd[c].kind \in {"NX", "GET"} /\ "use" \in Label
  BY DEF Read, Types, CallOK, Label
<1>1. CASE ~ IsWrapper(k) \/ ~ IsWrapper(v)
  BY <1>1, TFault DEF Read
<1>2. CASE IsWrapper(k) /\ IsWrapper(v)
  <2>1. wkey[k] \in Call /\ wval[v] \in Call
    BY <1>2, SlotType DEF IsWrapper
  <2>2. /\ reg' = [reg EXCEPT ![c] = <<wkey[k], wval[v]>>]
        /\ Goto(c, "use")
        /\ UNCHANGED <<map, nodes, cmd, i, reply, fault, ghosts>>
    BY <1>2 DEF Read
  <2> QED BY <1>0, <2>1, <2>2, TCopy
<1> QED BY <1>1, <1>2

LEMMA TUse ==
  ASSUME Types, NEW c \in Call, Decline(c) \/ Use(c) PROVE Types'
<1>1. CASE Decline(c)
  BY <1>1, TFreeAndFinish DEF Decline
<1>2. CASE Use(c)
  <2>1. pc[c] = "use" /\ reg[c][2] \in Call
    BY <1>2 DEF Use, Types, CallOK
  <2>2. CASE ~ Alive(reg[c][1], reg[c][2])
    BY <1>2, <2>2, TFault DEF Use
  <2>3. CASE Alive(reg[c][1], reg[c][2])
    BY <1>2, <2>1, <2>3, TFinish DEF Use, nodes
  <2> QED BY <2>2, <2>3
<1> QED BY <1>1, <1>2

LEMMA TExpired ==
  ASSUME Types, NEW c \in Call, Expired(c) PROVE Types'
<1> USE DEF Expired, Goto, map, nodes
<1>1. pc' \in [Call -> Label] /\ pc'[c] = "find_rm" /\ \A d \in Call \ {c} : pc'[d] = pc[d]
  BY DEF Types, Label, Taking
<1>2. i' \in [Call -> Nat]
  BY DEF Types
<1>3. overlap' \in BOOLEAN
  BY Zenon
<1>4. window' \in [hole : BOOLEAN, overlap : BOOLEAN, call : Call \cup {NULL}]
  <2>1. PICK b \in BOOLEAN : b = (window.overlap \/ Active # {c})
    BY Zenon
  <2>2. window' = [window EXCEPT !.overlap = b]
    BY <2>1
  <2> QED BY <2>2 DEF Types
<1>5. CallOK(c)'
  BY <1>1 DEF CallOK, Types, Adding, Upgrading, Taking
<1> QED BY <1>1, <1>2, <1>3, <1>4, <1>5, TypesLocal DEF Types

LEMMA TStart ==
  ASSUME Types, NEW c \in Call, NEW command \in Command, Start(c, command) PROVE Types'
<1> USE DEF Start, Goto, map, nodes
<1>1. /\ pc' \in [Call -> Label] /\ \A d \in Call \ {c} : pc'[d] = pc[d]
      /\ pc'[c] = IF command.kind = "SET" THEN "find_set" ELSE "find_get"
  BY DEF Types, Label
<1>2. cmd' \in [Call -> Command \cup {NULL}] /\ cmd'[c] = command
      /\ \A d \in Call \ {c} : cmd'[d] = cmd[d]
  BY DEF Types
<1>3. overlap' \in BOOLEAN
  BY Zenon
<1>4. window' \in [hole : BOOLEAN, overlap : BOOLEAN, call : Call \cup {NULL}]
  <2>1. PICK b \in BOOLEAN : b = (window.overlap
            \/ (~ Quiet /\ (command.kind # "GET" \/ \E d \in Active : Changing(d))))
    BY Zenon
  <2>2. PICK h \in BOOLEAN : h = Hole
    BY Zenon DEF Hole
  <2>3. window' = IF Quiet THEN [hole |-> h, overlap |-> FALSE, call |-> c]
                           ELSE [window EXCEPT !.overlap = b]
    BY <2>1, <2>2, Zenon
  <2> HIDE DEF Start
  <2> QED BY <2>3 DEF Types
<1>5. CallOK(c)'
  <2>1. command.kind \in {"SET", "NX", "GET"}
    BY KindAssumption DEF Command
  <2> QED BY <1>1, <1>2, <2>1 DEF CallOK, Adding, Upgrading, Taking
<1> QED BY <1>1, <1>2, <1>3, <1>4, <1>5, TypesLocal DEF Types

LEMMA TIsFull ==
  ASSUME Types, NEW c \in Call, IsFull(c) PROVE Types'
<1> USE DEF IsFull, Goto, map, ghosts
<1>1. /\ pc' \in [Call -> Label] /\ \A d \in Call \ {c} : pc'[d] = pc[d]
      /\ pc'[c] \in {"grow_keys", "load_top"}
  BY DEF Types, Label, Adding
<1>2. /\ wkey' \in [Call -> Call \cup {NULL}] /\ wkey'[c] = c
      /\ wval' \in [Call -> Call \cup {NULL}] /\ wval'[c] = c
      /\ \A d \in Call : /\ wkey[d] \in Call => wkey'[d] \in Call
                         /\ wval[d] \in Call => wval'[d] \in Call
  BY DEF Types
<1>3. Wrapped'
  BY <1>2 DEF Types, Wrapped, Wraps
<1>4. CallOK(c)'
  BY <1>1, <1>2 DEF Types, CallOK, Adding, Upgrading, Taking
<1>5. /\ top' \in Int /\ capacity' \in Nat \ {0} /\ blocks' \in Seq(Block)
      /\ Len(blocks) =< Len(blocks') /\ i' \in [Call -> Nat] /\ reg' \in [Call -> Seq(Call \cup Int)]
      /\ keys' \in 1 .. Len(blocks') /\ values' \in 1 .. Len(blocks')
      /\ \A d \in Call \ {c} : reg'[d] = reg[d]
      /\ UNCHANGED <<cmd, reply, fault, ghosts>>
  BY DEF Types
<1> HIDE DEF IsFull
<1> QED BY <1>1, <1>2, <1>3, <1>4, <1>5, TypesMap

LEMMA MovedWrapped ==
  ASSUME Types, NEW b \in 1 .. Len(blocks), NEW n \in Nat, blocks' = Moved(b, n),
         UNCHANGED <<wkey, wval>>
  PROVE  /\ Wrapped' /\ blocks' \in Seq(Block)
         /\ Len(blocks) \in Nat /\ Len(blocks') = Len(blocks) + 1
         /\ Len(blocks) + 1 \in 1 .. Len(blocks')
         /\ keys \in 1 .. Len(blocks') /\ values \in 1 .. Len(blocks')
<1>1. /\ blocks' \in Seq(Block)
      /\ Len(blocks') = Len(blocks) + 1
      /\ \A a \in 1 .. Len(blocks) : blocks'[a] = IF a = b THEN <<>> ELSE blocks[a]
      /\ blocks'[Len(blocks) + 1] =
           [m \in 0 .. n - 1 |-> IF m \in DOMAIN blocks[b] THEN blocks[b][m] ELSE UNDEF]
  <2>1. blocks \in Seq(Block)
    BY DEF Types
  <2>2. /\ Moved(b, n) \in Seq(Block)
        /\ Len(Moved(b, n)) = Len(blocks) + 1
        /\ \A a \in 1 .. Len(blocks) : Moved(b, n)[a] = IF a = b THEN <<>> ELSE blocks[a]
        /\ Moved(b, n)[Len(blocks) + 1] =
             [m \in 0 .. n - 1 |-> IF m \in DOMAIN blocks[b] THEN blocks[b][m] ELSE UNDEF]
    BY <2>1, MovedBlocks, Zenon
  <2> QED BY <2>2, Zenon
<1> USE DEF Types
<1>2. Len(blocks) \in Nat
  OBVIOUS
<1>3. ASSUME NEW a \in 1 .. Len(blocks'), NEW m \in DOMAIN blocks'[a], blocks'[a][m] \in Call
      PROVE  wkey[blocks'[a][m]] \in Call /\ wval[blocks'[a][m]] \in Call
  <2>1. CASE a = Len(blocks) + 1
    <3>1. m \in DOMAIN blocks[b] /\ blocks'[a][m] = blocks[b][m]
      BY <1>1, <1>3, <2>1, CallAssumption
    <3> QED BY <1>3, <3>1 DEF Wrapped, Wraps
  <2>2. CASE a # Len(blocks) + 1
    <3>1. a \in 1 .. Len(blocks)
      <4>1. a \in 1 .. Len(blocks) + 1
        BY <1>1, <1>2
      <4> HIDE DEF Types
      <4> QED BY <1>2, <2>2, <4>1
    <3>2. a # b
      BY <1>1, <1>3, <3>1, EmptyBlock
    <3> QED BY <1>1, <1>3, <3>1, <3>2 DEF Wrapped, Wraps
  <2> QED BY <2>1, <2>2
<1> QED BY <1>1, <1>2, <1>3 DEF Wrapped, Wraps

LEMMA TGrowKeys ==
  ASSUME Types, NEW c \in Call, GrowKeys(c) PROVE Types'
<1>0. pc[c] = "grow_keys"
  BY DEF GrowKeys
<1>1. CASE top + 1 # capacity
  BY <1>0, <1>1, TSetFails DEF GrowKeys
<1>2. CASE top + 1 = capacity /\ blocks[keys] = <<>>
  BY <1>2, TFault DEF GrowKeys
<1>3. CASE top + 1 = capacity /\ blocks[keys] # <<>>
  <2>1. /\ blocks' = Moved(keys, 2 * capacity)
        /\ reg' = [reg EXCEPT ![c] = <<Len(blocks) + 1, 2 * capacity>>]
        /\ pc' = [pc EXCEPT ![c] = "grow_values"]
        /\ UNCHANGED <<top, capacity, keys, values, wkey, wval, freed, cmd, i, reply, fault,
                       overlap, ref, wrong, window>>
    BY <1>3 DEF GrowKeys, Goto, nodes, ghosts
  <2>2. keys \in 1 .. Len(blocks) /\ 2 * capacity \in Nat \ {0}
    BY DEF Types
  <2>3. /\ Wrapped' /\ blocks' \in Seq(Block)
        /\ Len(blocks) \in Nat /\ Len(blocks') = Len(blocks) + 1
        /\ Len(blocks) + 1 \in 1 .. Len(blocks')
        /\ keys \in 1 .. Len(blocks') /\ values \in 1 .. Len(blocks')
    BY <2>1, <2>2, MovedWrapped
  <2>4. /\ pc' \in [Call -> Label] /\ \A d \in Call \ {c} : pc'[d] = pc[d]
        /\ pc'[c] = "grow_values"
    BY <2>1 DEF Types, Label, Adding
  <2>5. /\ reg' \in [Call -> Seq(Call \cup Int)] /\ \A d \in Call \ {c} : reg'[d] = reg[d]
        /\ Len(reg'[c]) = 2 /\ reg'[c][1] = Len(blocks) + 1 /\ reg'[c][2] = 2 * capacity
    <3>1. <<Len(blocks) + 1, 2 * capacity>> \in Seq(Call \cup Int)
      BY <2>2, <2>3
    <3> QED BY <2>1, <3>1 DEF Types
  <2>6. CallOK(c)'
    BY <1>0, <2>1, <2>2, <2>3, <2>4, <2>5 DEF Types, CallOK, Adding, Upgrading, Taking
  <2>7. /\ top' \in Int /\ capacity' \in Nat \ {0} /\ i' \in [Call -> Nat]
        /\ wkey' \in [Call -> Call \cup {NULL}] /\ wval' \in [Call -> Call \cup {NULL}]
        /\ wkey' = wkey /\ wval' = wval /\ UNCHANGED <<cmd, reply, fault, ghosts>>
    BY <2>1 DEF Types, ghosts
  <2>8. Len(blocks) =< Len(blocks') /\ keys' \in 1 .. Len(blocks') /\ values' \in 1 .. Len(blocks')
    BY <2>1, <2>3
  <2> QED BY <2>3, <2>4, <2>5, <2>6, <2>7, <2>8, TypesMap
<1> QED BY <1>1, <1>2, <1>3

LEMMA TGrowValues ==
  ASSUME Types, NEW c \in Call, GrowValues(c) PROVE Types'
<1>0. /\ pc[c] = "grow_values" /\ Len(reg[c]) = 2
      /\ reg[c][1] \in 1 .. Len(blocks) /\ reg[c][2] \in Nat \ {0}
  BY DEF GrowValues, Types, CallOK
<1>2. CASE blocks[values] = <<>>
  BY <1>2, TFault DEF GrowValues
<1>3. CASE blocks[values] # <<>>
  <2>1. /\ blocks' = Moved(values, reg[c][2])
        /\ reg' = [reg EXCEPT ![c] = Append(@, Len(blocks) + 1)]
        /\ pc' = [pc EXCEPT ![c] = "publish"]
        /\ UNCHANGED <<top, capacity, keys, values, wkey, wval, freed, cmd, i, reply, fault,
                       overlap, ref, wrong, window>>
    BY <1>3 DEF GrowValues, Goto, nodes, ghosts
  <2>2. values \in 1 .. Len(blocks)
    BY DEF Types
  <2>3. /\ Wrapped' /\ blocks' \in Seq(Block)
        /\ Len(blocks) \in Nat /\ Len(blocks') = Len(blocks) + 1
        /\ Len(blocks) + 1 \in 1 .. Len(blocks')
        /\ keys \in 1 .. Len(blocks') /\ values \in 1 .. Len(blocks')
    BY <1>0, <2>1, <2>2, MovedWrapped
  <2>4. /\ pc' \in [Call -> Label] /\ \A d \in Call \ {c} : pc'[d] = pc[d]
        /\ pc'[c] = "publish"
    BY <2>1 DEF Types, Label, Adding
  <2>5. /\ reg' \in [Call -> Seq(Call \cup Int)] /\ \A d \in Call \ {c} : reg'[d] = reg[d]
        /\ Len(reg'[c]) = 3 /\ reg'[c][1] = reg[c][1] /\ reg'[c][2] = reg[c][2]
        /\ reg'[c][3] = Len(blocks) + 1
    <3>1. reg[c] \in Seq(Call \cup Int) /\ Len(blocks) + 1 \in Call \cup Int
      BY <2>3 DEF Types
    <3>2. PICK r : r = Append(reg[c], Len(blocks) + 1)
      OBVIOUS
    <3>3. /\ r \in Seq(Call \cup Int) /\ Len(r) = 3 /\ r[1] = reg[c][1] /\ r[2] = reg[c][2]
          /\ r[3] = Len(blocks) + 1
      BY <1>0, <3>1, <3>2, ThirdCopy
    <3>4. reg' = [reg EXCEPT ![c] = r]
      BY <2>1, <3>2
    <3> QED BY <3>3, <3>4 DEF Types
  <2>6. CallOK(c)'
    BY <1>0, <2>1, <2>2, <2>3, <2>4, <2>5, SMTT(30) DEF Types, CallOK, Adding, Upgrading, Taking
  <2>7. /\ top' \in Int /\ capacity' \in Nat \ {0} /\ i' \in [Call -> Nat]
        /\ wkey' \in [Call -> Call \cup {NULL}] /\ wval' \in [Call -> Call \cup {NULL}]
        /\ wkey' = wkey /\ wval' = wval /\ UNCHANGED <<cmd, reply, fault, ghosts>>
    BY <2>1 DEF Types, ghosts
  <2>8. Len(blocks) =< Len(blocks') /\ keys' \in 1 .. Len(blocks') /\ values' \in 1 .. Len(blocks')
    BY <2>1, <2>3
  <2> QED BY <2>3, <2>4, <2>5, <2>6, <2>7, <2>8, TypesMap
<1> QED BY <1>2, <1>3

LEMMA TPublish ==
  ASSUME Types, NEW c \in Call, Publish(c) PROVE Types'
<1> USE DEF Publish, Goto, nodes, ghosts
<1>0. /\ pc[c] = "publish" /\ reg[c][3] \in 1 .. Len(blocks)
      /\ reg[c][1] \in 1 .. Len(blocks) /\ reg[c][2] \in Nat \ {0}
  BY DEF Types, CallOK
<1>1. /\ pc' \in [Call -> Label] /\ \A d \in Call \ {c} : pc'[d] = pc[d]
      /\ pc'[c] = "load_top"
  BY DEF Types, Label, Adding
<1>2. reg' \in [Call -> Seq(Call \cup Int)] /\ \A d \in Call \ {c} : reg'[d] = reg[d]
  BY DEF Types
<1>3. CallOK(c)'
  BY <1>0, <1>1 DEF Types, CallOK, Adding, Upgrading, Taking
<1>4. Wrapped'
  BY DEF Types, Wrapped, Wraps
<1>5. /\ top' \in Int /\ capacity' \in Nat \ {0} /\ i' \in [Call -> Nat]
      /\ wkey' \in [Call -> Call \cup {NULL}] /\ wval' \in [Call -> Call \cup {NULL}]
      /\ wkey' = wkey /\ wval' = wval /\ UNCHANGED <<cmd, reply, fault, ghosts>>
      /\ blocks' \in Seq(Block) /\ Len(blocks) =< Len(blocks')
      /\ keys' \in 1 .. Len(blocks') /\ values' \in 1 .. Len(blocks')
  BY <1>0 DEF Types
<1> HIDE DEF Publish
<1> QED BY <1>1, <1>2, <1>3, <1>4, <1>5, TypesMap

LEMMA TLoadTop ==
  ASSUME Types, NEW c \in Call, LoadTop(c) PROVE Types'
<1> USE DEF LoadTop, Goto, map, nodes, ghosts
<1>1. /\ pc' \in [Call -> Label] /\ \A d \in Call \ {c} : pc'[d] = pc[d]
      /\ pc'[c] = "store_top"
  BY DEF Types, Label, Adding
<1>2. /\ reg' \in [Call -> Seq(Call \cup Int)] /\ \A d \in Call \ {c} : reg'[d] = reg[d]
      /\ Len(reg'[c]) = 1 /\ reg'[c][1] = top /\ top \in Int
  <2>1. <<top>> \in Seq(Call \cup Int)
    BY DEF Types
  <2> QED BY <2>1 DEF Types
<1>3. CallOK(c)'
  BY <1>1, <1>2 DEF Types, CallOK, Adding, Upgrading, Taking
<1> QED BY <1>1, <1>2, <1>3, TypesLocal DEF Types

LEMMA TStoreTop ==
  ASSUME Types, NEW c \in Call, StoreTop(c) PROVE Types'
<1> USE DEF StoreTop, Goto, nodes, ghosts
<1>0. reg[c][1] \in Int
  BY DEF Types, CallOK
<1>1. /\ pc' \in [Call -> Label] /\ \A d \in Call \ {c} : pc'[d] = pc[d]
      /\ pc'[c] = "put_key"
  BY DEF Types, Label, Adding
<1>2. reg' \in [Call -> Seq(Call \cup Int)] /\ \A d \in Call \ {c} : reg'[d] = reg[d]
  BY DEF Types
<1>3. CallOK(c)'
  BY <1>0, <1>1 DEF Types, CallOK, Adding, Upgrading, Taking
<1>4. Wrapped'
  BY DEF Types, Wrapped, Wraps
<1>5. /\ top' \in Int /\ capacity' \in Nat \ {0} /\ i' \in [Call -> Nat]
      /\ wkey' \in [Call -> Call \cup {NULL}] /\ wval' \in [Call -> Call \cup {NULL}]
      /\ wkey' = wkey /\ wval' = wval /\ UNCHANGED <<cmd, reply, fault, ghosts>>
      /\ blocks' \in Seq(Block) /\ Len(blocks) =< Len(blocks')
      /\ keys' \in 1 .. Len(blocks') /\ values' \in 1 .. Len(blocks')
  BY <1>0 DEF Types
<1> HIDE DEF StoreTop
<1> QED BY <1>1, <1>2, <1>3, <1>4, <1>5, TypesMap

\* One slot of one block is written.
Put(bs, b, n, x) == [bs EXCEPT ![b][n] = x]

LEMMA PutSlot ==
  ASSUME NEW bs \in Seq(Block), NEW b \in 1 .. Len(bs), NEW n, NEW x \in Cell
  PROVE  /\ Put(bs, b, n, x) \in Seq(Block) /\ Len(Put(bs, b, n, x)) = Len(bs)
         /\ \A a \in 1 .. Len(bs) : a # b => Put(bs, b, n, x)[a] = bs[a]
         /\ DOMAIN Put(bs, b, n, x)[b] = DOMAIN bs[b]
         /\ \A m \in DOMAIN bs[b] : Put(bs, b, n, x)[b][m] = IF m = n THEN x ELSE bs[b][m]
<1>1. bs[b] \in Block
  OBVIOUS
<1>2. PICK f : f = [bs[b] EXCEPT ![n] = x]
  OBVIOUS
<1>3. /\ f \in Block /\ DOMAIN f = DOMAIN bs[b]
      /\ \A m \in DOMAIN bs[b] : f[m] = IF m = n THEN x ELSE bs[b][m]
  BY <1>1, <1>2, BlockPut
<1>4. Put(bs, b, n, x) = [bs EXCEPT ![b] = f]
  BY <1>2 DEF Put
<1> QED BY <1>3, <1>4, BlocksPut

LEMMA PutWraps ==
  ASSUME NEW bs \in Seq(Block), NEW b \in 1 .. Len(bs), NEW n, NEW x \in Cell,
         Wraps(bs), x \in Call => wkey[x] \in Call /\ wval[x] \in Call
  PROVE  Wraps(Put(bs, b, n, x))
<1>1. PICK bt : bt = Put(bs, b, n, x)
  OBVIOUS
<1>2. /\ bt \in Seq(Block) /\ Len(bt) = Len(bs)
      /\ \A a \in 1 .. Len(bs) : a # b => bt[a] = bs[a]
      /\ DOMAIN bt[b] = DOMAIN bs[b]
      /\ \A m \in DOMAIN bs[b] : bt[b][m] = IF m = n THEN x ELSE bs[b][m]
  BY <1>1, PutSlot
<1>3. Wraps(bt)
  BY <1>2 DEF Wraps
<1> QED BY <1>1, <1>3

LEMMA WriteType ==
  ASSUME Types, NEW b \in {keys, values}, NEW n, NEW x \in Cell,
         x \in Call => wkey[x] \in Call /\ wval[x] \in Call,
         blocks' = Put(blocks, b, n, x),
         UNCHANGED <<top, capacity, keys, values, wkey, wval>>
  PROVE  /\ top' \in Int /\ capacity' \in Nat \ {0}
         /\ wkey' \in [Call -> Call \cup {NULL}] /\ wval' \in [Call -> Call \cup {NULL}]
         /\ wkey' = wkey /\ wval' = wval
         /\ blocks' \in Seq(Block) /\ Len(blocks) =< Len(blocks') /\ Len(blocks') = Len(blocks)
         /\ keys' \in 1 .. Len(blocks') /\ values' \in 1 .. Len(blocks')
         /\ Wrapped'
<1>1. blocks \in Seq(Block) /\ b \in 1 .. Len(blocks) /\ Len(blocks) \in Nat
  BY DEF Types
<1>2. blocks' \in Seq(Block) /\ Len(blocks') = Len(blocks)
  BY <1>1, PutSlot
<1>3. Wraps(blocks)
  BY DEF Types, Wrapped
<1>4. PICK bt : bt = Put(blocks, b, n, x)
  OBVIOUS
<1>5. Wraps(bt)
  BY <1>1, <1>3, <1>4, PutWraps
<1>6. Wrapped'
  BY <1>4, <1>5 DEF Wrapped, Wraps
<1> QED BY <1>1, <1>2, <1>6 DEF Types

LEMMA TPutKey ==
  ASSUME Types, NEW c \in Call, PutKey(c) PROVE Types'
<1>0. pc[c] = "put_key" /\ wkey[c] \in Call /\ wval[c] \in Call
  BY DEF PutKey, Types, CallOK, Adding
<1>1. CASE top \notin DOMAIN blocks[keys]
  BY <1>1, TFault DEF PutKey, Write
<1>2. CASE top \in DOMAIN blocks[keys]
  <2>1. /\ blocks' = Put(blocks, keys, top, c)
        /\ pc' = [pc EXCEPT ![c] = "put_value"]
        /\ UNCHANGED <<top, capacity, keys, values, wkey, wval, cmd, i, reg, reply, fault, ghosts>>
    BY <1>2 DEF PutKey, Write, Put, Goto, nodes
  <2>2. c \in Cell
    BY DEF Cell
  <2>3. /\ top' \in Int /\ capacity' \in Nat \ {0}
        /\ wkey' \in [Call -> Call \cup {NULL}] /\ wval' \in [Call -> Call \cup {NULL}]
        /\ wkey' = wkey /\ wval' = wval
        /\ blocks' \in Seq(Block) /\ Len(blocks) =< Len(blocks') /\ Len(blocks') = Len(blocks)
        /\ keys' \in 1 .. Len(blocks') /\ values' \in 1 .. Len(blocks')
        /\ Wrapped'
    BY <1>0, <1>2, <2>1, <2>2, WriteType
  <2>4. /\ pc' \in [Call -> Label] /\ pc'[c] = "put_value" /\ \A d \in Call \ {c} : pc'[d] = pc[d]
    BY <2>1 DEF Types, Label, Adding
  <2>5. CallOK(c)'
    BY <1>0, <2>1, <2>4 DEF Types, CallOK, Adding, Upgrading, Taking
  <2>6. i' \in [Call -> Nat] /\ reg' \in [Call -> Seq(Call \cup Int)] /\ reg' = reg
        /\ UNCHANGED <<cmd, reply, fault, ghosts>>
    BY <2>1 DEF Types
  <2> QED BY <2>3, <2>4, <2>5, <2>6, TypesMap
<1> QED BY <1>1, <1>2

LEMMA TPutValue ==
  ASSUME Types, NEW c \in Call, PutValue(c) PROVE Types'
<1>0. pc[c] = "put_value" /\ wkey[c] \in Call /\ wval[c] \in Call
  BY DEF PutValue, Types, CallOK, Adding
<1>1. CASE top \notin DOMAIN blocks[values]
  BY <1>1, TFault DEF PutValue, Write
<1>2. CASE top \in DOMAIN blocks[values]
  <2>1. /\ blocks' = Put(blocks, values, top, c)
        /\ Finish(c, "OK") /\ UNCHANGED <<cmd, i, reg, fault, overlap, window>>
        /\ UNCHANGED <<top, capacity, keys, values, wkey, wval>>
    BY <1>2 DEF PutValue, Write, Put, Finish, nodes
  <2>2. c \in Cell
    BY DEF Cell
  <2>3. /\ top' \in Int /\ capacity' \in Nat \ {0}
        /\ wkey' \in [Call -> Call \cup {NULL}] /\ wval' \in [Call -> Call \cup {NULL}]
        /\ wkey' = wkey /\ wval' = wval
        /\ blocks' \in Seq(Block) /\ Len(blocks) =< Len(blocks') /\ Len(blocks') = Len(blocks)
        /\ keys' \in 1 .. Len(blocks') /\ values' \in 1 .. Len(blocks')
        /\ Wrapped'
    BY <1>0, <1>2, <2>1, <2>2, WriteType
  <2>4. /\ pc' = [pc EXCEPT ![c] = "done"] /\ pc' \in [Call -> Label]
        /\ reply' \in [Call -> Call \cup {NULL, "OK", "nil", "empty", "error"}]
        /\ \A d \in Call \ {c} : pc'[d] = pc[d] /\ reply'[d] = reply[d]
        /\ ref' \in [Name -> Call \cup {NULL}]
        /\ wrong' \in BOOLEAN
        /\ CallOK(c)'
    BY <1>0, <2>1, FinishType
  <2>5. i' \in [Call -> Nat] /\ reg' \in [Call -> Seq(Call \cup Int)] /\ reg' = reg
    BY <2>1 DEF Types
  <2> QED BY <2>1, <2>3, <2>4, <2>5, TypesMapFinish
<1> QED BY <1>1, <1>2

LEMMA TUpRead ==
  ASSUME Types, NEW c \in Call, UpRead(c) PROVE Types'
<1> DEFINE k == Slot(keys, i[c])
           v == Slot(values, i[c])
<1>0. pc[c] = "up_read" /\ cmd[c].kind \in {"SET", "NX"} /\ "up_value" \in Label
  BY DEF UpRead, Types, CallOK, Label, Upgrading
<1>1. CASE i[c] > top
  BY <1>0, <1>1, TSetFails DEF UpRead
<1>2. CASE ~ (i[c] > top) /\ (~ IsWrapper(k) \/ ~ IsWrapper(v))
  BY <1>2, TFault DEF UpRead
<1>3. CASE ~ (i[c] > top) /\ IsWrapper(k) /\ IsWrapper(v)
  <2>1. wkey[k] \in Call /\ wval[v] \in Call
    BY <1>3, SlotType DEF IsWrapper
  <2>2. /\ reg' = [reg EXCEPT ![c] = <<wkey[k], wval[v]>>]
        /\ Goto(c, "up_value")
        /\ UNCHANGED <<map, nodes, cmd, i, reply, fault, ghosts>>
    BY <1>3 DEF UpRead
  <2> QED BY <1>0, <2>1, <2>2, TCopy
<1> QED BY <1>1, <1>2, <1>3

LEMMA TUpValue ==
  ASSUME Types, NEW c \in Call, UpValue(c) PROVE Types'
<1> DEFINE v == Slot(values, i[c])
<1>0. pc[c] = "up_value"
  BY DEF UpValue
<1>1. CASE ~ IsWrapper(v)
  BY <1>1, TFault DEF UpValue
<1>2. CASE IsWrapper(v)
  <2>1. /\ wval' = [wval EXCEPT ![v] = c] /\ pc' = [pc EXCEPT ![c] = "up_key"]
        /\ UNCHANGED <<top, capacity, keys, values, blocks, wkey, cmd, i, reg, reply, fault, ghosts>>
    BY <1>2 DEF UpValue, Goto, map
  <2>2. pc' \in [Call -> Label] /\ pc'[c] = "up_key" /\ \A d \in Call \ {c} : pc'[d] = pc[d]
    BY <2>1 DEF Types, Label, Upgrading
  <2>3. /\ wval' \in [Call -> Call \cup {NULL}]
        /\ \A d \in Call : wval[d] \in Call => wval'[d] \in Call
    BY <1>2, <2>1 DEF Types, IsWrapper
  <2>4. CallOK(c)'
    BY <1>0, <2>1, <2>2, <2>3 DEF Types, CallOK, Adding, Upgrading, Taking
  <2>5. Wrapped'
    BY <2>1, <2>3 DEF Types, Wrapped, Wraps
  <2>6. /\ top' \in Int /\ capacity' \in Nat \ {0}
        /\ blocks' \in Seq(Block) /\ Len(blocks) =< Len(blocks')
        /\ keys' \in 1 .. Len(blocks') /\ values' \in 1 .. Len(blocks')
        /\ wkey' \in [Call -> Call \cup {NULL}] /\ wkey' = wkey
        /\ i' \in [Call -> Nat] /\ reg' \in [Call -> Seq(Call \cup Int)] /\ reg' = reg
        /\ UNCHANGED <<cmd, reply, fault, ghosts>>
    BY <2>1 DEF Types
  <2> QED BY <2>2, <2>3, <2>4, <2>5, <2>6, TypesMap
<1> QED BY <1>1, <1>2

LEMMA TUpKey ==
  ASSUME Types, NEW c \in Call, UpKey(c) PROVE Types'
<1> DEFINE k == Slot(keys, i[c])
<1>0. pc[c] = "up_key"
  BY DEF UpKey
<1>1. CASE ~ IsWrapper(k)
  BY <1>1, TFault DEF UpKey
<1>2. CASE IsWrapper(k)
  <2>1. /\ wkey' = [wkey EXCEPT ![k] = c] /\ pc' = [pc EXCEPT ![c] = "free_up"]
        /\ UNCHANGED <<top, capacity, keys, values, blocks, wval, cmd, i, reg, reply, fault, ghosts>>
    BY <1>2 DEF UpKey, Goto, map
  <2>2. pc' \in [Call -> Label] /\ pc'[c] = "free_up" /\ \A d \in Call \ {c} : pc'[d] = pc[d]
    BY <2>1 DEF Types, Label, Upgrading
  <2>3. /\ wkey' \in [Call -> Call \cup {NULL}]
        /\ \A d \in Call : wkey[d] \in Call => wkey'[d] \in Call
    BY <1>2, <2>1 DEF Types, IsWrapper
  <2>4. CallOK(c)'
    BY <1>0, <2>1, <2>2, <2>3 DEF Types, CallOK, Adding, Upgrading, Taking
  <2>5. Wrapped'
    BY <2>1, <2>3 DEF Types, Wrapped, Wraps
  <2>6. /\ top' \in Int /\ capacity' \in Nat \ {0}
        /\ blocks' \in Seq(Block) /\ Len(blocks) =< Len(blocks')
        /\ keys' \in 1 .. Len(blocks') /\ values' \in 1 .. Len(blocks')
        /\ wval' \in [Call -> Call \cup {NULL}] /\ wval' = wval
        /\ i' \in [Call -> Nat] /\ reg' \in [Call -> Seq(Call \cup Int)] /\ reg' = reg
        /\ UNCHANGED <<cmd, reply, fault, ghosts>>
    BY <2>1 DEF Types
  <2> QED BY <2>2, <2>3, <2>4, <2>5, <2>6, TypesMap
<1> QED BY <1>1, <1>2

LEMMA TFrees ==
  ASSUME Types, NEW c \in Call, FreeUp(c) \/ FreeRm(c) PROVE Types'
<1>1. CASE FreeUp(c)
  <2>1. CASE cmd[c].kind = "NX"
    BY <1>1, <2>1, TFinish DEF FreeUp, nodes
  <2>2. CASE cmd[c].kind # "NX"
    BY <1>1, <2>2, TFreeAndFinish DEF FreeUp
  <2> QED BY <2>1, <2>2
<1>2. CASE FreeRm(c)
  BY <1>2, TFreeAndFinish DEF FreeRm
<1> QED BY <1>1, <1>2

LEMMA TDropTop ==
  ASSUME Types, NEW c \in Call, DropTop(c) PROVE Types'
<1> USE DEF DropTop, Goto, nodes
<1>0. reg[c][3] \in Int /\ pc[c] = "drop_top" /\ Len(reg[c]) = 3
      /\ reg[c][1] \in Call /\ reg[c][2] \in Call
  BY DEF Types, CallOK
<1>1. /\ pc' \in [Call -> Label] /\ \A d \in Call \ {c} : pc'[d] = pc[d]
      /\ pc'[c] = "free_rm"
  BY DEF Types, Label, Taking
<1>2. CallOK(c)'
  BY <1>0, <1>1 DEF Types, CallOK, Adding, Upgrading, Taking
<1>3. Wrapped'
  BY DEF Types, Wrapped, Wraps
<1>4. /\ top' \in Int /\ capacity' \in Nat \ {0} /\ i' \in [Call -> Nat]
      /\ wkey' \in [Call -> Call \cup {NULL}] /\ wval' \in [Call -> Call \cup {NULL}]
      /\ wkey' = wkey /\ wval' = wval /\ UNCHANGED <<cmd, reply, fault, ghosts>>
      /\ blocks' \in Seq(Block) /\ Len(blocks) =< Len(blocks')
      /\ keys' \in 1 .. Len(blocks') /\ values' \in 1 .. Len(blocks')
      /\ reg' \in [Call -> Seq(Call \cup Int)] /\ reg' = reg
  BY <1>0, SMTT(30) DEF Types
<1> HIDE DEF DropTop
<1> QED BY <1>1, <1>2, <1>3, <1>4, TypesMap

\* One slot of both arrays is written.
PutBoth(n, x, y) == Put(Put(blocks, keys, n, x), values, n, y)

LEMMA PutBothType ==
  ASSUME Types, NEW n, NEW x \in Cell, NEW y \in Cell,
         x \in Call => wkey[x] \in Call /\ wval[x] \in Call,
         y \in Call => wkey[y] \in Call /\ wval[y] \in Call,
         blocks' = PutBoth(n, x, y),
         UNCHANGED <<top, capacity, keys, values, wkey, wval>>
  PROVE  /\ top' \in Int /\ capacity' \in Nat \ {0}
         /\ wkey' \in [Call -> Call \cup {NULL}] /\ wval' \in [Call -> Call \cup {NULL}]
         /\ wkey' = wkey /\ wval' = wval
         /\ blocks' \in Seq(Block) /\ Len(blocks) =< Len(blocks') /\ Len(blocks') = Len(blocks)
         /\ keys' \in 1 .. Len(blocks') /\ values' \in 1 .. Len(blocks')
         /\ Wrapped'
<1>1. /\ blocks \in Seq(Block) /\ keys \in 1 .. Len(blocks) /\ values \in 1 .. Len(blocks)
      /\ Len(blocks) \in Nat
  BY DEF Types
<1>2. PICK bs : bs = Put(blocks, keys, n, x)
  OBVIOUS
<1>3. /\ bs \in Seq(Block) /\ Len(bs) = Len(blocks)
      /\ \A a \in 1 .. Len(blocks) : a # keys => bs[a] = blocks[a]
      /\ DOMAIN bs[keys] = DOMAIN blocks[keys]
  BY <1>1, <1>2, PutSlot
<1>4. values \in 1 .. Len(bs)
  BY <1>1, <1>3
<1>5. Wraps(bs)
  <2>1. Wraps(blocks)
    BY DEF Types, Wrapped
  <2> QED BY <1>1, <1>2, <2>1, PutWraps
<1>6. PICK bt : bt = Put(bs, values, n, y)
  OBVIOUS
<1>7. bt \in Seq(Block) /\ Len(bt) = Len(bs)
  BY <1>3, <1>4, <1>6, PutSlot
<1>8. Wraps(bt)
  BY <1>3, <1>4, <1>5, <1>6, PutWraps
<1>9. blocks' = bt
  BY <1>2, <1>6 DEF PutBoth
<1>10. Wrapped'
  BY <1>8, <1>9 DEF Wrapped, Wraps
<1> QED BY <1>1, <1>3, <1>7, <1>9, <1>10 DEF Types

LEMMA TShift ==
  ASSUME Types, NEW c \in Call, Shift(c) PROVE Types'
<1> DEFINE n == i[c]
<1>0. pc[c] = "shift"
  BY DEF Shift
<1>1. CASE n = top
  <2>1. Jump(c, "clear", n)
    BY <1>1 DEF Shift
  <2>2. CallOK(c)'
    BY <1>0, <2>1 DEF Jump, Goto, Types, CallOK, Adding, Upgrading, Taking
  <2> QED BY <2>1, <2>2, TJump DEF Types, Label, Taking
<1>2. CASE n # top /\ (n + 1 \notin DOMAIN blocks[keys] \/ n + 1 \notin DOMAIN blocks[values])
  BY <1>2, TFault DEF Shift
<1>3. CASE n # top /\ n + 1 \in DOMAIN blocks[keys] /\ n + 1 \in DOMAIN blocks[values]
  <2>1. /\ blocks' = [blocks EXCEPT ![keys][n] = blocks[keys][n + 1],
                                    ![values][n] = blocks[values][n + 1]]
        /\ i' = [i EXCEPT ![c] = n + 1]
        /\ UNCHANGED <<top, capacity, keys, values, nodes, cmd, pc, reg, reply, fault, ghosts>>
    BY <1>3 DEF Shift
  <2>2. PICK x, y : x = blocks[keys][n + 1] /\ y = blocks[values][n + 1]
    OBVIOUS
  <2>3. blocks' = PutBoth(n, x, y)
    BY <2>1, <2>2 DEF PutBoth, Put
  <2>4. /\ x \in Cell /\ (x \in Call => wkey[x] \in Call /\ wval[x] \in Call)
        /\ y \in Cell /\ (y \in Call => wkey[y] \in Call /\ wval[y] \in Call)
    <3>1. blocks[keys] \in Block /\ blocks[values] \in Block
      BY DEF Types
    <3> QED BY <1>3, <2>2, <3>1, BlockDomain DEF Types, Wrapped, Wraps
  <2>5. UNCHANGED <<top, capacity, keys, values, wkey, wval>>
    BY <2>1 DEF nodes
  <2>6. /\ top' \in Int /\ capacity' \in Nat \ {0}
        /\ wkey' \in [Call -> Call \cup {NULL}] /\ wval' \in [Call -> Call \cup {NULL}]
        /\ wkey' = wkey /\ wval' = wval
        /\ blocks' \in Seq(Block) /\ Len(blocks) =< Len(blocks') /\ Len(blocks') = Len(blocks)
        /\ keys' \in 1 .. Len(blocks') /\ values' \in 1 .. Len(blocks')
        /\ Wrapped'
    BY <2>3, <2>4, <2>5, PutBothType
  <2>7. CallOK(c)'
    BY <2>1, <2>6, CallFrame DEF Types
  <2>8. /\ i' \in [Call -> Nat] /\ reg' \in [Call -> Seq(Call \cup Int)] /\ reg' = reg
        /\ pc' \in [Call -> Label] /\ pc' = pc
        /\ UNCHANGED <<cmd, reply, fault, ghosts>>
    BY <2>1 DEF Types
  <2> QED BY <2>6, <2>7, <2>8, TypesMap
<1> QED BY <1>1, <1>2, <1>3

LEMMA TClear ==
  ASSUME Types, NEW c \in Call, Clear(c) PROVE Types'
<1> DEFINE n == i[c]
<1>0. /\ pc[c] = "clear" /\ Len(reg[c]) = 2 /\ reg[c] \in Seq(Call \cup Int)
      /\ reg[c][1] \in Call /\ reg[c][2] \in Call
      /\ cmd[c] \in Command /\ cmd[c].kind = "GET"
  BY DEF Clear, Types, CallOK, Taking
<1>1. CASE n \notin DOMAIN blocks[keys] \/ n \notin DOMAIN blocks[values]
  BY <1>1, TFault DEF Clear
<1>2. CASE n \in DOMAIN blocks[keys] /\ n \in DOMAIN blocks[values]
  <2>1. /\ blocks' = [blocks EXCEPT ![keys][n] = NULL, ![values][n] = NULL]
        /\ reg' = [reg EXCEPT ![c] = Append(@, top)]
        /\ pc' = [pc EXCEPT ![c] = "drop_top"]
        /\ UNCHANGED <<top, capacity, keys, values, nodes, cmd, i, reply, fault, ghosts>>
    BY <1>2 DEF Clear, Goto
  <2>2. blocks' = PutBoth(n, NULL, NULL)
    BY <2>1 DEF PutBoth, Put
  <2>3. NULL \in Cell /\ NULL \notin Call
    BY CallAssumption DEF Cell
  <2>4. UNCHANGED <<top, capacity, keys, values, wkey, wval>>
    BY <2>1 DEF nodes
  <2>5. /\ top' \in Int /\ capacity' \in Nat \ {0}
        /\ wkey' \in [Call -> Call \cup {NULL}] /\ wval' \in [Call -> Call \cup {NULL}]
        /\ wkey' = wkey /\ wval' = wval
        /\ blocks' \in Seq(Block) /\ Len(blocks) =< Len(blocks') /\ Len(blocks') = Len(blocks)
        /\ keys' \in 1 .. Len(blocks') /\ values' \in 1 .. Len(blocks')
        /\ Wrapped'
    BY <2>2, <2>3, <2>4, PutBothType
  <2>6. top \in Int /\ top \in Call \cup Int
    BY DEF Types
  <2>7. PICK r : r = Append(reg[c], top)
    OBVIOUS
  <2>8. r \in Seq(Call \cup Int) /\ Len(r) = 3 /\ r[1] = reg[c][1] /\ r[2] = reg[c][2] /\ r[3] = top
    BY <1>0, <2>6, <2>7, ThirdCopy
  <2>9. /\ reg' \in [Call -> Seq(Call \cup Int)] /\ reg'[c] = r
        /\ \A d \in Call \ {c} : reg'[d] = reg[d]
    BY <2>1, <2>7, <2>8 DEF Types
  <2>10. pc' \in [Call -> Label] /\ pc'[c] = "drop_top" /\ \A d \in Call \ {c} : pc'[d] = pc[d]
    BY <2>1 DEF Types, Label, Taking
  <2>11. CallOK(c)'
    BY <1>0, <2>1, <2>6, <2>8, <2>9, <2>10 DEF CallOK, Adding, Upgrading, Taking
  <2>12. i' \in [Call -> Nat] /\ UNCHANGED <<cmd, reply, fault, ghosts>>
    BY <2>1 DEF Types
  <2> QED BY <2>5, <2>9, <2>10, <2>11, <2>12, TypesMap
<1> QED BY <1>1, <1>2

LEMMA TypesStep ==
  ASSUME Types, Next PROVE Types'
<1>1. PICK c \in Call : (\E command \in Command : Start(c, command)) \/ Step(c)
  BY DEF Next, Command
<1>2. CASE \E command \in Command : Start(c, command)
  BY <1>2, TStart
<1>3. CASE Step(c)
  BY <1>3, TScan, TRead, TUse, TExpired, TIsFull, TGrowKeys, TGrowValues, TPublish, TLoadTop,
     TStoreTop, TPutKey, TPutValue, TUpRead, TUpValue, TUpKey, TFrees, TShift, TClear, TDropTop
     DEF Step
<1> QED BY <1>1, <1>2, <1>3

LEMMA TypesInit == Init => Types
<1> SUFFICES ASSUME Init PROVE Types
  OBVIOUS
<1> USE DEF Init
<1>1. [n \in 0 .. 0 |-> NULL] \in Block
  <2>1. [n \in 0 .. 0 |-> NULL] \in [0 .. 0 -> Cell] /\ 0 .. 0 \in SUBSET Int
    BY DEF Cell
  <2> HIDE DEF Init
  <2> QED BY <2>1 DEF Block
<1>2. blocks \in Seq(Block) /\ Len(blocks) = 2
      /\ \A b \in 1 .. 2 : blocks[b] = [n \in 0 .. 0 |-> NULL]
  BY <1>1
<1>3. Wrapped
  BY <1>2, CallAssumption DEF Wrapped, Wraps
<1>4. \A c \in Call : CallOK(c)
  BY DEF CallOK, Adding, Upgrading, Taking
<1>5. reg \in [Call -> Seq(Call \cup Int)] /\ cmd \in [Call -> Command \cup {NULL}]
      /\ pc \in [Call -> Label] /\ i \in [Call -> Nat]
      /\ reply \in [Call -> Call \cup {NULL, "OK", "nil", "empty", "error"}]
  BY DEF Label
<1>6. /\ window \in [hole : BOOLEAN, overlap : BOOLEAN, call : Call \cup {NULL}]
      /\ ref \in [Name -> Call \cup {NULL}]
      /\ wkey \in [Call -> Call \cup {NULL}] /\ wval \in [Call -> Call \cup {NULL}]
      /\ fault \in BOOLEAN /\ overlap \in BOOLEAN /\ wrong \in BOOLEAN
  OBVIOUS
<1>7. top \in Int /\ capacity \in Nat \ {0} /\ keys \in 1 .. Len(blocks) /\ values \in 1 .. Len(blocks)
  BY <1>2
<1> HIDE DEF Init
<1> QED BY <1>2, <1>3, <1>4, <1>5, <1>6, <1>7 DEF Types

-----------------------------------------------------------------------------
(* Nothing new behind an empty slot.                                       *)

\* What every step of a call leaves alone.
LEMMA StepFrame ==
  ASSUME Types, NEW c \in Call, Step(c)
  PROVE  /\ pc[c] \notin {"idle", "done"} /\ pc'[c] # "idle"
         /\ \A d \in Call \ {c} : /\ pc'[d] = pc[d] /\ i'[d] = i[d]
                                  /\ reg'[d] = reg[d] /\ reply'[d] = reply[d]
         /\ cmd' = cmd
         /\ window' = window \/ (Expired(c) /\ window' = [window EXCEPT !.overlap = @ \/ Active # {c}])
<1> USE DEF Types, Goto, ghosts, locals
<1>1. CASE Scan(c)
  <2>1. CASE Fault
    BY <1>1, <2>1 DEF Scan, Fault
  <2>2. CASE \E l \in Label, n \in Nat : l # "idle" /\ Jump(c, l, n)
    BY <1>1, <2>2 DEF Scan, Jump
  <2>3. CASE \E r : Finish(c, r)
    BY <1>1, <2>3 DEF Scan, Finish
  <2>4. CASE FoundRemove(c)
    BY <1>1, <2>1, <2>4 DEF Scan, FoundRemove
  <2>5. ASSUME Absent(c) PROVE (\E l \in Label, n \in Nat : l # "idle" /\ Jump(c, l, n))
                               \/ (\E r : Finish(c, r))
    BY <1>1, <2>5 DEF Scan, Absent, Label, Adding
  <2>6. ASSUME SetFails(c) PROVE Fault \/ (\E r : Finish(c, r))
    BY <2>6 DEF SetFails, FreeAndFinish
  <2>7. Jump(c, pc[c], i[c] + 1) /\ pc[c] # "idle" => \E l \in Label, n \in Nat : l # "idle" /\ Jump(c, l, n)
    OBVIOUS
  <2>8. ASSUME Found(c) PROVE FoundRemove(c) \/ (\E l \in Label, n \in Nat : l # "idle" /\ Jump(c, l, n))
    BY <2>8 DEF Found, Label, Upgrading
  <2>9. ASSUME Broken(c) PROVE Fault \/ (\E r : Finish(c, r))
                               \/ (\E l \in Label, n \in Nat : l # "idle" /\ Jump(c, l, n))
    BY <2>5, <2>6, <2>9 DEF Broken
  <2>10. pc[c] # "idle" /\ (Absent(c) \/ Broken(c) \/ Fault \/ Found(c) \/ Jump(c, pc[c], i[c] + 1))
    BY <1>1 DEF Scan
  <2> QED BY <2>1, <2>2, <2>3, <2>4, <2>5, <2>7, <2>8, <2>9, <2>10
<1>2. CASE Read(c) \/ Decline(c) \/ Use(c) \/ Expired(c)
  BY <1>2, ZenonT(40) DEF Read, Decline, Use, Expired, FreeAndFinish, Finish, Fault
<1>3. CASE IsFull(c) \/ GrowKeys(c) \/ GrowValues(c) \/ Publish(c)
  BY <1>3 DEF IsFull, GrowKeys, GrowValues, Publish, SetFails, FreeAndFinish, Finish, Fault
<1>4. CASE LoadTop(c) \/ StoreTop(c) \/ PutKey(c) \/ PutValue(c)
  BY <1>4 DEF LoadTop, StoreTop, PutKey, PutValue, Write, Finish, Fault
<1>5. CASE UpRead(c) \/ UpValue(c) \/ UpKey(c) \/ FreeUp(c)
  BY <1>5 DEF UpRead, UpValue, UpKey, FreeUp, SetFails, FreeAndFinish, Finish, Fault
<1>6. CASE Shift(c) \/ Clear(c) \/ DropTop(c) \/ FreeRm(c)
  BY <1>6 DEF Shift, Clear, DropTop, FreeRm, Jump, FreeAndFinish, Finish, Fault
<1> QED BY <1>1, <1>2, <1>3, <1>4, <1>5, <1>6 DEF Step

\* While the map does not change, nor the hole.
LEMMA SlotSame == UNCHANGED map => Hole' = Hole /\ \A b, n : Slot(b, n)' = Slot(b, n)
BY DEF map, Hole, Slot

LEMMA StuckScan ==
  ASSUME Types, NEW c \in Call, Scan(c), Stuck(c), cmd[c].kind # "GET", ~ fault'
  PROVE  IF pc'[c] = "done" THEN reply'[c] # "OK" ELSE Stuck(c)'
<1> DEFINE k == Slot(keys, i[c])
<1>0. /\ pc[c] \in {"find_set", "find_get"} /\ i[c] \in Nat /\ top \in Int
      /\ pc \in [Call -> Label] /\ i \in [Call -> Nat]
  <2>1. pc[c] # "find_rm"
    BY DEF Types, CallOK, Taking
  <2> QED BY <2>1 DEF Scan, Types
<1>1. ASSUME NEW l, NEW n \in Nat, Jump(c, l, n)
      PROVE  pc'[c] = l /\ i'[c] = n /\ UNCHANGED <<map, wkey>>
  BY <1>0, <1>1 DEF Jump, Goto, nodes
<1>2. ~ (i[c] > top)
  BY <1>0 DEF Stuck, Hole
<1>3. ASSUME NEW r, Finish(c, r), r # "OK" PROVE pc'[c] = "done" /\ reply'[c] # "OK"
  BY <1>3 DEF Finish, Goto, Types
<1>4. ~ Fault
  BY DEF Fault
<1>5. CASE k = NULL
  <2>1. Broken(c)
    BY <1>2, <1>5 DEF Scan
  <2>2. CASE pc[c] = "find_set"
    <3>1. SetFails(c)
      BY <2>1, <2>2 DEF Broken
    <3> QED BY <1>3, <1>4, <3>1 DEF SetFails, FreeAndFinish
  <2>3. CASE pc[c] = "find_get"
    <3>1. Jump(c, "find_set", 0)
      BY <2>1, <2>3 DEF Broken, Absent
    <3>2. pc'[c] = "find_set" /\ i'[c] = 0 /\ UNCHANGED <<map, wkey>>
      BY <1>1, <3>1
    <3> QED BY <3>2, SlotSame DEF Stuck, Adding, Upgrading, map
  <2> QED BY <1>0, <2>2, <2>3
<1>6. CASE k # NULL
  <2>1. CASE Found(c)
    <3>1. \E l \in {"up_read", "read"} : Jump(c, l, i[c])
      BY <1>0, <2>1 DEF Found
    <3>2. pc'[c] \in {"up_read", "read"} /\ i'[c] = i[c] /\ UNCHANGED <<map, wkey>>
      BY <1>0, <1>1, <3>1
    <3>3. Slot(keys, i[c])' = k
      BY <3>2, SlotSame DEF map, Slot
    <3> QED BY <1>0, <1>2, <1>6, <3>2, <3>3, SlotSame DEF Stuck, Adding, Upgrading, map
  <2>2. CASE Jump(c, pc[c], i[c] + 1)
    <3>1. pc'[c] = pc[c] /\ i'[c] = i[c] + 1 /\ UNCHANGED <<map, wkey>>
      BY <1>0, <1>1, <2>2
    <3>2. \A n \in 0 .. top : n < i[c] + 1 => n < i[c] \/ n = i[c]
      BY <1>0
    <3> QED BY <1>0, <1>6, <3>1, <3>2, SlotSame DEF Stuck, Adding, Upgrading, map
  <2> QED BY <1>2, <1>4, <1>6, <2>1, <2>2 DEF Scan
<1> QED BY <1>5, <1>6

LEMMA StuckStep ==
  ASSUME Types, NEW c \in Call, Step(c), Stuck(c), cmd[c].kind # "GET", ~ fault'
  PROVE  IF pc'[c] = "done" THEN reply'[c] = "OK" => InFront(c)' ELSE Stuck(c)'
<1>0. /\ i[c] \in Nat /\ top \in Int /\ pc \in [Call -> Label] /\ i \in [Call -> Nat]
      /\ reply \in [Call -> Call \cup {NULL, "OK", "nil", "empty", "error"}]
      /\ wkey \in [Call -> Call \cup {NULL}]
  BY DEF Types
<1>1. ASSUME NEW r, Finish(c, r) PROVE pc'[c] = "done" /\ reply'[c] = r
  BY <1>0, <1>1 DEF Finish, Goto
<1>2. ~ Fault
  BY DEF Fault
<1>3. pc[c] \notin Adding \cup Taking
  BY DEF Stuck, Types, CallOK
<1>4. CASE Scan(c)
  BY <1>4, StuckScan
<1>5. CASE Read(c)
  <2>1. pc'[c] = "use" /\ i' = i /\ UNCHANGED map
    BY <1>0, <1>2, <1>5 DEF Read, Goto
  <2> QED BY <2>1, SlotSame DEF Stuck, Adding, Upgrading, map
<1>6. CASE Decline(c)
  BY <1>1, <1>2, <1>6 DEF Decline, FreeAndFinish
<1>7. CASE UpRead(c)
  <2>1. CASE i[c] > top
    BY <1>1, <1>2, <1>7, <2>1 DEF UpRead, SetFails, FreeAndFinish
  <2>2. CASE ~ (i[c] > top)
    <3>1. pc[c] = "up_read" /\ pc'[c] = "up_value" /\ i' = i /\ UNCHANGED map
      BY <1>0, <1>2, <1>7, <2>2 DEF UpRead, Goto
    <3> QED BY <3>1, SlotSame DEF Stuck, Adding, Upgrading, map, Slot
  <2> QED BY <2>1, <2>2
<1>8. CASE UpValue(c)
  <2>1. pc[c] = "up_value" /\ pc'[c] = "up_key" /\ i' = i /\ UNCHANGED map
    BY <1>0, <1>2, <1>8 DEF UpValue, Goto
  <2> QED BY <2>1, SlotSame DEF Stuck, Adding, Upgrading, map, Slot
<1>9. CASE UpKey(c)
  <2>1. /\ pc[c] = "up_key" /\ pc'[c] = "free_up" /\ i' = i /\ UNCHANGED map
        /\ Slot(keys, i[c]) \in Call /\ wkey' = [wkey EXCEPT ![Slot(keys, i[c])] = c]
    BY <1>0, <1>2, <1>9 DEF UpKey, Goto, IsWrapper
  <2>2. Slot(keys, i[c])' = Slot(keys, i[c]) /\ wkey'[Slot(keys, i[c])] = c
    BY <1>0, <2>1 DEF Slot, map
  <2> QED BY <2>1, <2>2, SlotSame DEF Stuck, Adding, Upgrading, map, IsWrapper
<1>10. CASE FreeUp(c)
  <2>1. /\ pc[c] = "free_up" /\ pc'[c] = "done" /\ UNCHANGED <<map, wkey>> /\ i' = i
    BY <1>1, <1>2, <1>10 DEF FreeUp, FreeAndFinish, nodes, Finish
  <2>2. i[c] \in 0 .. top /\ IsWrapper(Slot(keys, i[c])) /\ wkey[Slot(keys, i[c])] = c
    BY <1>0, <2>1 DEF Stuck, Upgrading
  <2>3. \A m \in 0 .. i[c] : Slot(keys, m) # NULL
    <3>1. \A m \in 0 .. i[c] : m \in 0 .. top /\ (m < i[c] \/ m = i[c])
      BY <1>0, <2>2
    <3> QED BY <2>1, <3>1 DEF Stuck, Upgrading
  <2>4. InFront(c)
    BY <2>2, <2>3 DEF InFront
  <2>5. InFront(c)'
    BY <2>1, <2>4 DEF InFront, Slot, IsWrapper, map
  <2> QED BY <2>1, <2>5
<1>11. ~ (\/ IsFull(c) \/ GrowKeys(c) \/ GrowValues(c) \/ Publish(c)
          \/ LoadTop(c) \/ StoreTop(c) \/ PutKey(c) \/ PutValue(c)
          \/ Shift(c) \/ Clear(c) \/ DropTop(c) \/ FreeRm(c) \/ Use(c) \/ Expired(c))
  BY <1>3 DEF Adding, Taking, IsFull, GrowKeys, GrowValues, Publish, LoadTop, StoreTop, PutKey, PutValue,
       Shift, Clear, DropTop, FreeRm, Use, Expired
<1> QED BY <1>4, <1>5, <1>6, <1>7, <1>8, <1>9, <1>10, <1>11 DEF Step

LEMMA FreshStep ==
  ASSUME Types, Fresh, Next PROVE Fresh'
<1>1. PICK c \in Call : (\E command \in Command : Start(c, command)) \/ Step(c)
  BY DEF Next, Command
<1>2. CASE Step(c)
  <2>1. window'.call = window.call /\ window'.hole = window.hole
    BY <1>2, StepFrame DEF Types
  <2> QED BY <1>2, <2>1, StepFrame, SMTT(30) DEF Fresh, Types
<1>3. CASE \E command \in Command : Start(c, command)
  <2>1. PICK command \in Command : Start(c, command)
    BY <1>3
  <2>2. pc'[c] # "idle" /\ i' = i /\ \A d \in Call \ {c} : pc'[d] = pc[d]
    BY <2>1 DEF Start, Goto, Types
  <2>3. window'.call = c \/ (window'.call = window.call /\ window'.hole = window.hole)
    BY <2>1 DEF Start, Types
  <2>4. c # NULL
    BY CallAssumption
  <2> QED BY <2>2, <2>3, <2>4 DEF Fresh, Types
<1> QED BY <1>1, <1>2, <1>3

LEMMA BlockedStep ==
  ASSUME Types, Fresh, Blocked, Next PROVE Blocked'
<1>0. PICK c \in Call : (\E command \in Command : Start(c, command)) \/ Step(c)
  BY DEF Next, Command
<1>a. PICK e : e = window'.call
  OBVIOUS
<1> SUFFICES ASSUME e # NULL, ~ fault', ~ window'.overlap, cmd'[e].kind # "GET"
             PROVE  /\ Active' \subseteq {e}
                    /\ window'.hole => IF pc'[e] = "done" THEN reply'[e] = "OK" => InFront(e)'
                                                          ELSE Stuck(e)'
  BY <1>a DEF Blocked, InFront, Stuck, Slot
<1>1. CASE Step(c)
  <2>1. e = window.call /\ window'.hole = window.hole /\ ~ window.overlap /\ cmd' = cmd
    BY <1>a, <1>1, StepFrame DEF Types
  <2>2. ~ fault /\ e \in Call
    BY <2>1 DEF Next, Types
  <2>3. /\ Active \subseteq {e}
        /\ window.hole => IF pc[e] = "done" THEN reply[e] = "OK" => InFront(e) ELSE Stuck(e)
    BY <2>1, <2>2 DEF Blocked
  <2>4. c = e /\ pc[c] # "done"
    BY <1>1, <2>3, StepFrame DEF Active
  <2>5. Active' \subseteq {e}
    BY <1>1, <2>3, <2>4, StepFrame DEF Active
  <2> QED BY <1>1, <2>1, <2>3, <2>4, <2>5, StuckStep
<1>2. CASE \E command \in Command : Start(c, command)
  <2>1. PICK command \in Command : Start(c, command)
    BY <1>2
  <2>2. /\ pc[c] = "idle" /\ pc'[c] \in {"find_set", "find_get"} /\ i' = i /\ UNCHANGED <<map, wkey>>
        /\ \A d \in Call \ {c} : pc'[d] = pc[d] /\ cmd'[d] = cmd[d]
    BY <2>1 DEF Start, Goto, Types, nodes
  <2>3. CASE Quiet
    <3>1. window' = [hole |-> Hole, overlap |-> FALSE, call |-> c]
      BY <2>1, <2>3 DEF Start
    <3>2. e = c /\ i'[c] = 0 /\ (window'.hole => Hole)
      BY <1>a, <2>2, <3>1 DEF Fresh
    <3>3. Active' \subseteq {c}
      BY <2>2, <2>3 DEF Active, Quiet
    <3>4. Hole => Stuck(c)'
      BY <2>2, <3>2, SlotSame DEF Stuck, Adding, Upgrading, map
    <3> QED BY <2>2, <3>2, <3>3, <3>4
  <2>4. CASE ~ Quiet
    <3> DEFINE meets == ~ Quiet /\ (command.kind # "GET" \/ \E d \in Active : Changing(d))
    <3>1. window' = [window EXCEPT !.overlap = @ \/ meets]
      BY <2>1, <2>4 DEF Start
    <3>2. e = window.call /\ ~ window.overlap /\ ~ meets
      BY <1>a, <3>1 DEF Types
    <3>3. pc[e] # "idle" /\ e \in Call /\ cmd'[e] = cmd[e]
      BY <2>2, <3>2 DEF Fresh, Types
    <3>4. ~ fault
      BY DEF Next
    <3>5. Active \subseteq {e}
      BY <3>2, <3>3, <3>4 DEF Blocked
    <3>6. e \in Active /\ Changing(e)
      BY <2>4, <3>3, <3>5 DEF Quiet, Changing
    <3> QED BY <2>4, <3>2, <3>6
  <2> QED BY <2>3, <2>4
<1> QED BY <1>0, <1>1, <1>2

\* Blocked is what the property needs.
LEMMA BlockedImplies == Types /\ Fresh /\ Blocked => NothingNewBehindHole
<1> SUFFICES ASSUME Types, Fresh, Blocked, Quiet, ~ fault, window.hole, ~ window.overlap,
                    cmd[window.call].kind # "GET", reply[window.call] = "OK"
             PROVE  InFront(window.call)
  BY DEF NothingNewBehindHole, InFront
<1>1. window.call # NULL /\ window.call \in Call /\ pc[window.call] # "idle"
  BY DEF Fresh, Types
<1>2. pc[window.call] = "done"
  BY <1>1 DEF Quiet, Active
<1> QED BY <1>1, <1>2 DEF Blocked

-----------------------------------------------------------------------------
(* top stays within the number of calls.                                   *)

LEMMA CountStep ==
  ASSUME Types, Next
  PROVE  /\ Cardinality(Raised) \in Nat /\ Cardinality(Raised') \in Nat
         /\ Cardinality(Lowered) \in Nat /\ Cardinality(Lowered') \in Nat
         /\ Cardinality(Raised) =< Cardinality(Raised')
         /\ Cardinality(Lowered) =< Cardinality(Lowered')
         /\ \A c \in Call : c \notin Raised /\ c \in Raised' =>
              Cardinality(Raised) + 1 =< Cardinality(Raised')
         /\ \A c \in Call : c \notin Lowered /\ c \in Lowered' =>
              Cardinality(Lowered) + 1 =< Cardinality(Lowered')
<1>1. IsFiniteSet(Raised) /\ IsFiniteSet(Raised') /\ IsFiniteSet(Lowered) /\ IsFiniteSet(Lowered')
  BY CallAssumption, FS_Subset DEF Raised, Lowered
<1>2. \A d \in Call : pc[d] # pc'[d] =>
        /\ pc[d] # "done"
        /\ pc[d] = "put_key" => pc'[d] \in {"put_value", "done"}
        /\ pc[d] = "put_value" => pc'[d] = "done"
        /\ pc[d] = "free_rm" => pc'[d] = "done"
  <2>1. PICK c \in Call : (\E command \in Command : Start(c, command)) \/ Step(c)
    BY DEF Next, Command
  <2>2. CASE \E command \in Command : Start(c, command)
    BY <2>2 DEF Start, Goto, Types
  <2>3. CASE Step(c)
    <3>1. \A d \in Call \ {c} : pc'[d] = pc[d]
      BY <2>3, StepFrame
    <3>2. pc[c] # "done"
      BY <2>3, StepFrame
    <3>3. CASE pc[c] = "put_key"
      <4>1. PutKey(c)
        BY <2>3, <3>3 DEF Step, Scan, Read, Decline, Use, Expired, IsFull, GrowKeys, GrowValues, Publish,
             LoadTop, StoreTop, PutValue, UpRead, UpValue, UpKey, FreeUp, Shift, Clear, DropTop, FreeRm
      <4> QED BY <3>1, <3>3, <4>1 DEF PutKey, Write, Goto, Fault, locals, Types
    <3>4. CASE pc[c] = "put_value"
      <4>1. PutValue(c)
        BY <2>3, <3>4 DEF Step, Scan, Read, Decline, Use, Expired, IsFull, GrowKeys, GrowValues, Publish,
             LoadTop, StoreTop, PutKey, UpRead, UpValue, UpKey, FreeUp, Shift, Clear, DropTop, FreeRm
      <4> QED BY <3>1, <3>4, <4>1 DEF PutValue, Write, Finish, Goto, Fault, locals, Types
    <3>5. CASE pc[c] = "free_rm"
      <4>1. FreeRm(c)
        BY <2>3, <3>5 DEF Step, Scan, Read, Decline, Use, Expired, IsFull, GrowKeys, GrowValues, Publish,
             LoadTop, StoreTop, PutKey, PutValue, UpRead, UpValue, UpKey, FreeUp, Shift, Clear, DropTop
      <4> QED BY <3>1, <3>5, <4>1 DEF FreeRm, FreeAndFinish, Finish, Goto, Fault, locals, Types
    <3> QED BY <3>1, <3>2, <3>3, <3>4, <3>5
  <2> QED BY <2>1, <2>2, <2>3
<1>3. Raised \subseteq Raised' /\ Lowered \subseteq Lowered'
  BY <1>2 DEF Raised, Lowered
<1>4. ASSUME NEW A, NEW B, IsFiniteSet(A), IsFiniteSet(B), A \subseteq B
      PROVE  /\ Cardinality(A) \in Nat /\ Cardinality(B) \in Nat /\ Cardinality(A) =< Cardinality(B)
             /\ \A c : c \notin A /\ c \in B => Cardinality(A) + 1 =< Cardinality(B)
  <2>1. Cardinality(A) \in Nat /\ Cardinality(B) \in Nat /\ Cardinality(A) =< Cardinality(B)
    BY <1>4, FS_CardinalityType, FS_Subset
  <2>2. ASSUME NEW c, c \notin A, c \in B PROVE Cardinality(A) + 1 =< Cardinality(B)
    <3>1. A # B
      BY <2>2
    <3>2. Cardinality(A) < Cardinality(B)
      BY <1>4, <2>1, <3>1, FS_Subset
    <3> QED BY <2>1, <3>2
  <2> QED BY <2>1, <2>2
<1>5. PICK R, RR, L, LL : R = Raised /\ RR = Raised' /\ L = Lowered /\ LL = Lowered'
  OBVIOUS
<1>6. /\ Cardinality(R) \in Nat /\ Cardinality(RR) \in Nat /\ Cardinality(R) =< Cardinality(RR)
      /\ \A c : c \notin R /\ c \in RR => Cardinality(R) + 1 =< Cardinality(RR)
  BY <1>1, <1>3, <1>4, <1>5
<1>7. /\ Cardinality(L) \in Nat /\ Cardinality(LL) \in Nat /\ Cardinality(L) =< Cardinality(LL)
      /\ \A c : c \notin L /\ c \in LL => Cardinality(L) + 1 =< Cardinality(LL)
  BY <1>1, <1>3, <1>4, <1>5
<1> QED BY <1>5, <1>6, <1>7

LEMMA BoundsStep ==
  ASSUME Types, Types', Bounds, Next PROVE Bounds'
<1>1. PICK m, mm, l, ll : /\ m = Cardinality(Raised) /\ mm = Cardinality(Raised')
                          /\ l = Cardinality(Lowered) /\ ll = Cardinality(Lowered')
  OBVIOUS
<1>2. /\ m \in Nat /\ mm \in Nat /\ l \in Nat /\ ll \in Nat /\ m =< mm /\ l =< ll
      /\ \A c \in Call : c \notin Raised /\ c \in Raised' => m + 1 =< mm
      /\ \A c \in Call : c \notin Lowered /\ c \in Lowered' => l + 1 =< ll
  BY <1>1, CountStep
<1> DEFINE In(t) == t + 1 =< m /\ t + 1 >= -l
           InNext(t) == t + 1 =< mm /\ t + 1 >= -ll
<1>3. \A t \in Int : In(t) => InNext(t)
  BY <1>2
<1>4. /\ top \in Int /\ In(top)
      /\ \A c \in Call : /\ pc[c] = "store_top" => reg[c][1] \in Int /\ In(reg[c][1])
                         /\ pc[c] = "drop_top" => reg[c][3] \in Int /\ In(reg[c][3])
  BY <1>1 DEF Bounds, InBounds, Types, CallOK
<1> SUFFICES /\ InNext(top')
             /\ \A c \in Call : /\ pc'[c] = "store_top" => InNext(reg'[c][1])
                                /\ pc'[c] = "drop_top" => InNext(reg'[c][3])
  BY <1>1 DEF Bounds, InBounds
<1>5. PICK c \in Call : (\E command \in Command : Start(c, command)) \/ Step(c)
  BY DEF Next, Command
<1>6. ASSUME UNCHANGED top,
             \A d \in Call : \/ pc'[d] = pc[d] /\ reg'[d] = reg[d]
                            \/ pc'[d] \notin {"store_top", "drop_top"}
      PROVE  /\ InNext(top')
             /\ \A d \in Call : /\ pc'[d] = "store_top" => InNext(reg'[d][1])
                                /\ pc'[d] = "drop_top" => InNext(reg'[d][3])
  BY <1>3, <1>4, <1>6
<1>7. CASE \E command \in Command : Start(c, command)
  BY <1>6, <1>7 DEF Start, Goto, Types, map
<1>8. CASE Step(c)
  <2>1. \A d \in Call \ {c} : pc'[d] = pc[d] /\ reg'[d] = reg[d]
    BY <1>8, StepFrame
  <2>2. CASE LoadTop(c)
    <3>1. pc'[c] = "store_top" /\ reg'[c][1] = top /\ top' = top
      BY <2>2 DEF LoadTop, Goto, Types, map
    <3> QED BY <1>3, <1>4, <2>1, <3>1
  <2>3. CASE StoreTop(c)
    <3>1. pc[c] = "store_top" /\ pc'[c] = "put_key" /\ top' = reg[c][1] + 1
      BY <2>3 DEF StoreTop, Goto, Types
    <3>2. c \notin Raised /\ c \in Raised'
      BY <3>1 DEF Raised
    <3>3. InNext(top')
      <4>1. m + 1 =< mm /\ reg[c][1] \in Int /\ In(reg[c][1])
        BY <1>2, <1>4, <3>1, <3>2
      <4> QED BY <1>2, <3>1, <4>1
    <3> QED BY <1>3, <1>4, <2>1, <3>1, <3>3
  <2>4. CASE Clear(c) /\ ~ Fault
    <3>1. pc[c] = "clear" /\ pc'[c] = "drop_top" /\ reg' = [reg EXCEPT ![c] = Append(@, top)] /\ top' = top
      BY <2>4 DEF Clear, Goto, Types
    <3>2. reg[c] \in Seq(Call \cup Int) /\ Len(reg[c]) = 2 /\ top \in Call \cup Int
      BY <3>1 DEF Types, CallOK
    <3>3. PICK r : r = Append(reg[c], top)
      OBVIOUS
    <3>4. r[3] = top
      BY <3>2, <3>3, ThirdCopy
    <3>5. reg'[c] = r
      BY <3>1, <3>3 DEF Types
    <3> QED BY <1>3, <1>4, <2>1, <3>1, <3>4, <3>5
  <2>5. CASE DropTop(c)
    <3>1. pc[c] = "drop_top" /\ pc'[c] = "free_rm" /\ top' = reg[c][3] - 1
      BY <2>5 DEF DropTop, Goto, Types
    <3>2. c \notin Lowered /\ c \in Lowered'
      BY <3>1 DEF Lowered
    <3>3. InNext(top')
      <4>1. l + 1 =< ll /\ reg[c][3] \in Int /\ In(reg[c][3])
        BY <1>2, <1>4, <3>1, <3>2
      <4> QED BY <1>2, <3>1, <4>1
    <3> QED BY <1>3, <1>4, <2>1, <3>1, <3>3
  <2>6. CASE Fault
    BY <1>6, <2>6 DEF Fault, map, locals
  <2>7. CASE ~ LoadTop(c) /\ ~ StoreTop(c) /\ ~ Clear(c) /\ ~ DropTop(c) /\ ~ Fault
    <3>1. UNCHANGED top /\ pc'[c] \notin {"store_top", "drop_top"}
      <4> USE DEF Types, Goto, map
      <4>0. ASSUME NEW r, Finish(c, r) PROVE pc'[c] = "done"
        BY <4>0 DEF Finish
      <4>1. CASE Scan(c)
        <5>1. pc[c] \in {"find_set", "find_get", "find_rm"}
              /\ (Absent(c) \/ Broken(c) \/ Found(c) \/ Jump(c, pc[c], i[c] + 1))
          BY <2>7, <4>1 DEF Scan
        <5>2. ASSUME Absent(c) PROVE UNCHANGED top /\ pc'[c] \notin {"store_top", "drop_top"}
          BY <4>0, <5>2 DEF Absent, Jump
        <5>3. ASSUME Broken(c) PROVE UNCHANGED top /\ pc'[c] \notin {"store_top", "drop_top"}
          BY <2>7, <4>0, <5>2, <5>3 DEF Broken, SetFails, FreeAndFinish
        <5>4. ASSUME Found(c) PROVE UNCHANGED top /\ pc'[c] \notin {"store_top", "drop_top"}
          BY <2>7, <5>4, SMTT(30) DEF Found, FoundRemove, Jump
        <5> QED BY <5>1, <5>2, <5>3, <5>4 DEF Jump
      <4>2. CASE Read(c) \/ Decline(c) \/ Use(c) \/ Expired(c)
        BY <2>7, <4>0, <4>2 DEF Read, Decline, Use, Expired, FreeAndFinish
      <4>3. CASE IsFull(c) \/ GrowKeys(c) \/ GrowValues(c) \/ Publish(c)
        BY <2>7, <4>0, <4>3, ZenonT(40) DEF IsFull, GrowKeys, GrowValues, Publish, SetFails, FreeAndFinish
      <4>4. CASE PutKey(c) \/ PutValue(c)
        BY <2>7, <4>0, <4>4 DEF PutKey, PutValue, Write
      <4>5. CASE UpRead(c) \/ UpValue(c) \/ UpKey(c) \/ FreeUp(c)
        BY <2>7, <4>0, <4>5 DEF UpRead, UpValue, UpKey, FreeUp, SetFails, FreeAndFinish
      <4>6. CASE Shift(c) \/ FreeRm(c)
        BY <2>7, <4>0, <4>6, ZenonT(40) DEF Shift, FreeRm, Jump, FreeAndFinish
      <4> QED BY <1>8, <2>7, <4>1, <4>2, <4>3, <4>4, <4>5, <4>6 DEF Step
    <3> QED BY <1>6, <2>1, <3>1
  <2> QED BY <2>2, <2>3, <2>4, <2>5, <2>6, <2>7
<1> QED BY <1>5, <1>7, <1>8

-----------------------------------------------------------------------------
(* Arrays that hold a dictionary.                                          *)

\* They still do when what they use is the same.
LEMMA HoldsFrame ==
  ASSUME NEW kf, NEW vf, NEW S, NEW d, NEW wk, NEW wv, NEW fr, NEW cm, NEW D,
         Holds(kf, vf, S, d, wk, wv, fr, cm, D),
         NEW kg, NEW vg, NEW wl, NEW ww, NEW fs, NEW cn, NEW E,
         \A n \in S : /\ n \in DOMAIN kg /\ kg[n] = kf[n]
                      /\ n \in DOMAIN vg /\ vg[n] = vf[n],
         D \subseteq E,
         \A e \in D : wl[e] = wk[e] /\ ww[e] = wv[e] /\ cn[e] = cm[e],
         \A n \in S : <<"key", wk[kf[n]]>> \notin fs /\ <<"value", wk[kf[n]]>> \notin fs
  PROVE  Holds(kg, vg, S, d, wl, ww, fs, cn, E)
<1>1. \A n \in S : kf[n] \in D /\ wk[kf[n]] \in D
  BY DEF Holds
<1>2. \A n \in S : wl[kg[n]] = wk[kf[n]] /\ ww[kg[n]] = wv[kf[n]] /\ cn[wl[kg[n]]] = cm[wk[kf[n]]]
  BY <1>1
<1>3. \A n \in S : /\ n \in DOMAIN kg /\ n \in DOMAIN vg
                   /\ kg[n] \in E /\ vg[n] = kg[n]
                   /\ wl[kg[n]] \in E /\ ww[kg[n]] = wl[kg[n]]
                   /\ <<"key", wl[kg[n]]>> \notin fs /\ <<"value", wl[kg[n]]>> \notin fs
                   /\ d[cn[wl[kg[n]]].name] = wl[kg[n]]
  BY <1>1, <1>2 DEF Holds
<1>4. \A n, m \in S : kg[n] = kg[m] \/ wl[kg[n]] = wl[kg[m]] => n = m
  BY <1>2 DEF Holds
<1>5. \A nm \in Name : d[nm] # NULL => \E n \in S : cn[wl[kg[n]]].name = nm
  BY <1>2 DEF Holds
<1> QED BY <1>3, <1>4, <1>5 DEF Holds

\* One entry less.
LEMMA GoodDrop ==
  ASSUME Types, Good(KeyArr, ValArr, 0 .. top, ref), NEW c \in Call, NEW n \in 0 .. top,
         cmd[wkey[KeyArr[n]]].name = cmd[c].name
  PROVE  /\ Good(KeyArr, ValArr, (0 .. top) \ {n}, With(c, NULL))
         /\ \A m \in (0 .. top) \ {n} : wkey[KeyArr[m]] # wkey[KeyArr[n]] /\ KeyArr[m] # KeyArr[n]
<1>1. PICK S, T, kf, vf, D, nm, dd, d :
        /\ S = 0 .. top /\ T = S \ {n} /\ kf = KeyArr /\ vf = ValArr /\ D = Linked
        /\ nm = cmd[c].name /\ dd = [ref EXCEPT ![nm] = NULL] /\ d = ref
  OBVIOUS
<1>2. Holds(kf, vf, S, d, wkey, wval, freed, cmd, D) /\ n \in S /\ nm = cmd[wkey[kf[n]]].name
  BY <1>1 DEF Good
<1>3. d \in [Name -> Call \cup {NULL}]
  BY <1>1 DEF Types
<1>4. \A e \in D : cmd[e].name \in Name
  <2> SUFFICES ASSUME NEW e \in D PROVE cmd[e].name \in Name
    OBVIOUS
  <2>1. cmd[e] \in Command
    BY <1>1 DEF Linked, Types, CallOK
  <2> QED BY <2>1 DEF Command
<1>5. nm \in Name /\ dd[nm] = NULL /\ \A x \in Name : x # nm => dd[x] = d[x]
  <2>1. nm \in Name
    BY <1>2, <1>4 DEF Holds
  <2> QED BY <1>1, <1>3, <2>1
<1>7. \A m \in T : /\ wkey[kf[m]] # wkey[kf[n]] /\ kf[m] # kf[n]
                  /\ cmd[wkey[kf[m]]].name # nm /\ cmd[wkey[kf[m]]].name \in Name
  <2>1. d[nm] = wkey[kf[n]] /\ \A m \in S : d[cmd[wkey[kf[m]]].name] = wkey[kf[m]]
    BY <1>2 DEF Holds
  <2>2. \A m \in T : wkey[kf[m]] # wkey[kf[n]] /\ kf[m] # kf[n]
    BY <1>1, <1>2 DEF Holds
  <2>3. \A m \in T : m \in S /\ wkey[kf[m]] \in D
    BY <1>1, <1>2 DEF Holds
  <2> QED BY <1>4, <2>1, <2>2, <2>3
<1>8. Holds(kf, vf, T, dd, wkey, wval, freed, cmd, D)
  <2>0. T = S \ {n}
    BY <1>1
  <2>1. \A m \in T : dd[cmd[wkey[kf[m]]].name] = wkey[kf[m]]
    BY <1>2, <1>5, <1>7, <2>0 DEF Holds
  <2>2. \A x \in Name : dd[x] # NULL => \E m \in T : cmd[wkey[kf[m]]].name = x
    BY <1>2, <1>5, <2>0 DEF Holds
  <2> QED BY <1>2, <2>0, <2>1, <2>2 DEF Holds
<1>6. With(c, NULL) = dd
  BY <1>1 DEF With, Sets
<1> QED BY <1>1, <1>6, <1>7, <1>8 DEF Good

\* The entry behind a gap moves into it.
LEMMA HoldsMove ==
  ASSUME NEW kf, NEW vf, NEW t \in Int, NEW n \in 0 .. t, n # t, NEW d,
         NEW wk, NEW wv, NEW fr, NEW cm, NEW D,
         Holds(kf, vf, (0 .. t) \ {n}, d, wk, wv, fr, cm, D),
         NEW kg, NEW vg, DOMAIN kg = DOMAIN kf, DOMAIN vg = DOMAIN vf,
         n \in DOMAIN kf, n \in DOMAIN vf,
         \A m \in DOMAIN kf : kg[m] = IF m = n THEN kf[n + 1] ELSE kf[m],
         \A m \in DOMAIN vf : vg[m] = IF m = n THEN vf[n + 1] ELSE vf[m]
  PROVE  /\ Holds(kg, vg, (0 .. t) \ {n + 1}, d, wk, wv, fr, cm, D)
         /\ n + 1 \in 0 .. t
<1>1. n + 1 \in (0 .. t) \ {n}
  OBVIOUS
<1> DEFINE from(m) == IF m = n THEN n + 1 ELSE m
<1>2. \A m \in (0 .. t) \ {n + 1} : /\ from(m) \in (0 .. t) \ {n}
                                    /\ m \in DOMAIN kf /\ m \in DOMAIN vf
                                    /\ kg[m] = kf[from(m)] /\ vg[m] = vf[from(m)]
  BY <1>1 DEF Holds
<1>3. \A l, m \in (0 .. t) \ {n + 1} : from(l) = from(m) => l = m
  OBVIOUS
<1>4. \A m \in (0 .. t) \ {n} : \E l \in (0 .. t) \ {n + 1} : from(l) = m
  <2> SUFFICES ASSUME NEW m \in (0 .. t) \ {n} PROVE \E l \in (0 .. t) \ {n + 1} : from(l) = m
    OBVIOUS
  <2>1. CASE m = n + 1
    <3>1. n \in (0 .. t) \ {n + 1} /\ from(n) = m
      BY <2>1
    <3> QED BY <3>1
  <2>2. CASE m # n + 1
    <3>1. m \in (0 .. t) \ {n + 1} /\ from(m) = m
      BY <2>2
    <3> QED BY <3>1
  <2> QED BY <2>1, <2>2
<1> HIDE DEF from
<1>5. Holds(kg, vg, (0 .. t) \ {n + 1}, d, wk, wv, fr, cm, D)
  <2>1. PICK S, T : S = (0 .. t) \ {n} /\ T = (0 .. t) \ {n + 1}
    OBVIOUS
  <2>2. \A m \in T : /\ m \in DOMAIN kg /\ m \in DOMAIN vg
                     /\ kg[m] \in D /\ vg[m] = kg[m]
                     /\ wk[kg[m]] \in D /\ wv[kg[m]] = wk[kg[m]]
                     /\ <<"key", wk[kg[m]]>> \notin fr /\ <<"value", wk[kg[m]]>> \notin fr
                     /\ d[cm[wk[kg[m]]].name] = wk[kg[m]]
    BY <1>2, <2>1 DEF Holds
  <2>3. \A l, m \in T : kg[l] = kg[m] \/ wk[kg[l]] = wk[kg[m]] => l = m
    <3> SUFFICES ASSUME NEW l \in T, NEW m \in T, kg[l] = kg[m] \/ wk[kg[l]] = wk[kg[m]]
                 PROVE  l = m
      OBVIOUS
    <3>1. from(l) = from(m)
      BY <1>2, <2>1 DEF Holds
    <3> QED BY <1>3, <2>1, <3>1
  <2>4. \A nm \in Name : d[nm] # NULL => \E m \in T : cm[wk[kg[m]]].name = nm
    <3> SUFFICES ASSUME NEW nm \in Name, d[nm] # NULL PROVE \E m \in T : cm[wk[kg[m]]].name = nm
      OBVIOUS
    <3>1. PICK m \in S : cm[wk[kf[m]]].name = nm
      BY <2>1 DEF Holds
    <3>2. PICK l \in T : from(l) = m
      BY <1>4, <2>1
    <3> QED BY <1>2, <2>1, <3>1, <3>2
  <2> QED BY <2>1, <2>2, <2>3, <2>4 DEF Holds
<1> QED BY <1>1, <1>5

-----------------------------------------------------------------------------
(* The steps of a call that no other call overlaps.                        *)

LEMMA RestingAt == \A d \in Call : pc[d] \in {"idle", "done"} => At(d)
BY DEF At, Scanning, Adds, Upgrades, Takes, Adding, Upgrading, Taking

LEMMA AloneSerial ==
  ASSUME NEW c \in Call, Alone(c), Serial PROVE SerialAt(c)
<1>1. \A d \in Call \ {c} : pc[d] \notin {"grow_values", "publish"} /\ pc[d] \notin Unsettled
  BY DEF Alone, Unsettled
<1>2. (\A d \in Call : pc[d] \notin {"grow_values", "publish"}) <=> pc[c] \notin {"grow_values", "publish"}
  BY <1>1
<1>3. (\A d \in Call : pc[d] \notin Unsettled) <=> pc[c] \notin Unsettled
  BY <1>1
<1> QED BY <1>2, <1>3 DEF Serial, SerialAt

SerialFromAlone == \A c \in Call : Alone(c) /\ SerialAt(c) => Serial

LEMMA SerialFromAloneOut == SerialFromAlone
<1> SUFFICES ASSUME NEW c \in Call, Alone(c), SerialAt(c) PROVE Serial
  BY DEF SerialFromAlone
<1>1. \A d \in Call \ {c} : pc[d] \notin {"grow_values", "publish"} /\ pc[d] \notin Unsettled
  BY DEF Alone, Unsettled
<1>2. (\A d \in Call : pc[d] \notin {"grow_values", "publish"}) <=> pc[c] \notin {"grow_values", "publish"}
  BY <1>1
<1>3. (\A d \in Call : pc[d] \notin Unsettled) <=> pc[c] \notin Unsettled
  BY <1>1
<1>4. \A d \in Call : At(d)
  BY RestingAt DEF Alone, SerialAt
<1>5. \A d \in Call : Changing(d) => Active = {d}
  BY DEF Changing, Active, Alone
<1> QED BY <1>2, <1>3, <1>4, <1>5 DEF Serial, SerialAt

LEMMA SerialFromAloneNext == SerialFromAlone'
BY SerialFromAloneOut, PTL

LEMMA AloneStep ==
  ASSUME Types, NEW c \in Call, Alone(c), Step(c), SerialAt(c)' PROVE Serial'
<1>1. Alone(c)'
  BY StepFrame DEF Alone
<1> QED BY <1>1, SerialFromAloneNext DEF SerialFromAlone

\* A step of c that changes neither the map nor the nodes nor the dictionary.
LEMMA QuietStep ==
  ASSUME Types, NEW c \in Call, Alone(c), Step(c), SerialAt(c),
         UNCHANGED <<map, nodes, fault, wrong, ref>>,
         pc[c] \notin Unsettled \cup {"done"}, pc'[c] \notin Unsettled \cup {"done"},
         At(c)'
  PROVE  Serial'
<1> USE DEF map, nodes
<1>1. cmd' = cmd /\ \A d \in Call \ {c} : pc'[d] = pc[d]
  BY StepFrame
<1>2. Linked' = Linked
  BY <1>1 DEF Linked, Unsettled
<1>3. pc[c] \notin {"grow_values", "publish"} /\ pc'[c] \notin {"grow_values", "publish"}
  BY DEF Unsettled
<1>4. Fits'
  BY <1>3 DEF SerialAt, Fits, KeyArr, ValArr
<1>5. Good(KeyArr, ValArr, 0 .. top, ref)'
  BY <1>1, <1>2 DEF SerialAt, Good, KeyArr, ValArr
<1>6. FreedDone'
  BY <1>1 DEF SerialAt, FreedDone
<1>7. SerialAt(c)'
  BY <1>4, <1>5, <1>6 DEF SerialAt
<1> QED BY <1>7, AloneStep

\* What a slot of the settled map holds.
LEMMA GoodSlot ==
  ASSUME Types, NEW S, NEW d, Good(KeyArr, ValArr, S, d), NEW n \in S
  PROVE  /\ Slot(keys, n) = KeyArr[n] /\ Slot(values, n) = KeyArr[n] /\ ValArr[n] = KeyArr[n]
         /\ KeyArr[n] \in Call /\ KeyArr[n] # NULL /\ KeyArr[n] \in Linked
         /\ IsWrapper(Slot(keys, n)) /\ IsWrapper(Slot(values, n))
         /\ wkey[KeyArr[n]] \in Call /\ wkey[KeyArr[n]] \in Linked
         /\ wval[KeyArr[n]] = wkey[KeyArr[n]]
         /\ <<"key", wkey[KeyArr[n]]>> \notin freed /\ <<"value", wkey[KeyArr[n]]>> \notin freed
         /\ cmd[wkey[KeyArr[n]]] \in Command /\ cmd[wkey[KeyArr[n]]].name \in Name
         /\ d[cmd[wkey[KeyArr[n]]].name] = wkey[KeyArr[n]]
<1>1. /\ n \in DOMAIN KeyArr /\ n \in DOMAIN ValArr /\ KeyArr[n] \in Linked /\ ValArr[n] = KeyArr[n]
      /\ wkey[KeyArr[n]] \in Linked /\ wval[KeyArr[n]] = wkey[KeyArr[n]]
      /\ <<"key", wkey[KeyArr[n]]>> \notin freed /\ <<"value", wkey[KeyArr[n]]>> \notin freed
      /\ d[cmd[wkey[KeyArr[n]]].name] = wkey[KeyArr[n]]
  BY DEF Good, Holds
<1>2. KeyArr[n] \in Call /\ wkey[KeyArr[n]] \in Call
  BY <1>1 DEF Linked
<1>3. Slot(keys, n) = KeyArr[n] /\ Slot(values, n) = ValArr[n]
  BY <1>1 DEF Slot, KeyArr, ValArr
<1>4. cmd[wkey[KeyArr[n]]] \in Command
  BY <1>1, <1>2 DEF Linked, Types, CallOK
<1>5. cmd[wkey[KeyArr[n]]].name \in Name
  BY <1>4 DEF Command
<1>6. KeyArr[n] # NULL
  BY <1>2, CallAssumption
<1> QED BY <1>1, <1>2, <1>3, <1>4, <1>5, <1>6 DEF IsWrapper

LEMMA TopSlot ==
  ASSUME Types, Good(KeyArr, ValArr, 0 .. top, ref), NEW n \in 0 .. top
  PROVE  /\ Slot(keys, n) = KeyArr[n] /\ Slot(values, n) = KeyArr[n] /\ ValArr[n] = KeyArr[n]
         /\ KeyArr[n] \in Call /\ KeyArr[n] \in Linked
         /\ IsWrapper(Slot(keys, n)) /\ IsWrapper(Slot(values, n))
         /\ wkey[KeyArr[n]] \in Call /\ wkey[KeyArr[n]] \in Linked
         /\ wval[KeyArr[n]] = wkey[KeyArr[n]]
         /\ <<"key", wkey[KeyArr[n]]>> \notin freed /\ <<"value", wkey[KeyArr[n]]>> \notin freed
         /\ ref[cmd[wkey[KeyArr[n]]].name] = wkey[KeyArr[n]]
<1>1. PICK S, d : S = 0 .. top /\ d = ref
  OBVIOUS
<1>2. Good(KeyArr, ValArr, S, d) /\ n \in S
  BY <1>1
<1>3. /\ Slot(keys, n) = KeyArr[n] /\ Slot(values, n) = KeyArr[n] /\ ValArr[n] = KeyArr[n]
      /\ KeyArr[n] \in Call /\ KeyArr[n] \in Linked
      /\ IsWrapper(Slot(keys, n)) /\ IsWrapper(Slot(values, n))
      /\ wkey[KeyArr[n]] \in Call /\ wkey[KeyArr[n]] \in Linked
      /\ wval[KeyArr[n]] = wkey[KeyArr[n]]
      /\ <<"key", wkey[KeyArr[n]]>> \notin freed /\ <<"value", wkey[KeyArr[n]]>> \notin freed
      /\ d[cmd[wkey[KeyArr[n]]].name] = wkey[KeyArr[n]]
  BY <1>2, GoodSlot
<1> QED BY <1>1, <1>3

\* A name that is missing from the map is missing from the dictionary.
LEMMA MissingRef ==
  ASSUME Types, NEW S, NEW d, Good(KeyArr, ValArr, S, d), NEW c \in Call, Missing(KeyArr, S, c),
         cmd[c].name \in Name
  PROVE  d[cmd[c].name] = NULL
BY DEF Good, Holds, Missing

LEMMA CommandName ==
  ASSUME Types, NEW c \in Call, pc[c] # "idle" PROVE cmd[c] \in Command /\ cmd[c].name \in Name
<1>1. cmd[c] \in Command
  BY DEF Types, CallOK
<1> QED BY <1>1 DEF Command

\* An iteration of the scan on the settled map: one of three outcomes.
LEMMA ScanOutcome ==
  ASSUME Types, NEW c \in Call, Scan(c), Good(KeyArr, ValArr, 0 .. top, ref), Scanning(c)
  PROVE  \/ Absent(c) /\ Missing(KeyArr, 0 .. top, c)
         \/ Found(c) /\ i[c] \in 0 .. top /\ cmd[wkey[KeyArr[i[c]]]].name = cmd[c].name
         \/ Jump(c, pc[c], i[c] + 1) /\ Missing(KeyArr, {n \in 0 .. top : n < i[c] + 1}, c)
<1>0. /\ i[c] \in Nat /\ top \in Int
      /\ Missing(KeyArr, {n \in 0 .. top : n < i[c]}, c)
  BY DEF Types, Scan, Scanning
<1>1. CASE i[c] > top
  <2>1. \A n \in 0 .. top : n < i[c]
    BY <1>0, <1>1
  <2> QED BY <1>0, <1>1, <2>1 DEF Scan, Missing
<1>2. CASE ~ (i[c] > top)
  <2>1. i[c] \in 0 .. top
    BY <1>0, <1>2
  <2>2. /\ Slot(keys, i[c]) = KeyArr[i[c]] /\ KeyArr[i[c]] # NULL /\ IsWrapper(Slot(keys, i[c]))
        /\ <<"key", wkey[KeyArr[i[c]]]>> \notin freed
    BY <2>1, GoodSlot, ZenonT(40)
  <2>3. CASE cmd[wkey[KeyArr[i[c]]]].name = cmd[c].name
    BY <1>2, <2>1, <2>2, <2>3 DEF Scan
  <2>4. CASE cmd[wkey[KeyArr[i[c]]]].name # cmd[c].name
    <3>1. Jump(c, pc[c], i[c] + 1)
      BY <1>2, <2>2, <2>4 DEF Scan
    <3>2. \A n \in 0 .. top : n < i[c] + 1 => n < i[c] \/ n = i[c]
      BY <1>0
    <3> QED BY <1>0, <2>4, <3>1, <3>2 DEF Missing
  <2> QED BY <2>3, <2>4
<1> QED BY <1>1, <1>2

\* The scan of a SET or NX.
LEMMA SScanSet ==
  ASSUME Types, NEW c \in Call, Alone(c), Step(c), SerialAt(c), Scan(c), cmd[c].kind # "GET"
  PROVE  Serial'
<1>0. /\ pc[c] \in {"find_set", "find_get"} /\ pc[c] \notin Unsettled \cup {"done"}
      /\ cmd[c].kind \in {"SET", "NX"}
      /\ (pc[c] = "find_get" => cmd[c].kind = "NX")
      /\ i[c] \in Nat /\ top \in Int
      /\ pc \in [Call -> Label] /\ i \in [Call -> Nat]
  BY DEF Scan, Types, CallOK, Taking, Unsettled
<1>1. Good(KeyArr, ValArr, 0 .. top, ref) /\ Scanning(c)
  BY <1>0 DEF SerialAt, At
<1>2. ASSUME NEW l, NEW n \in Nat, Jump(c, l, n)
      PROVE  /\ pc'[c] = l /\ i'[c] = n /\ cmd' = cmd /\ KeyArr' = KeyArr
             /\ UNCHANGED <<map, nodes, fault, wrong, ref>>
  BY <1>0, <1>2 DEF Jump, Goto, ghosts, map, KeyArr
<1>3. CASE Absent(c) /\ Missing(KeyArr, 0 .. top, c)
  <2>1. CASE pc[c] = "find_set"
    <3>1. Jump(c, "is_full", 0)
      BY <1>3, <2>1 DEF Absent
    <3>2. /\ pc'[c] = "is_full" /\ i'[c] = 0 /\ cmd' = cmd /\ KeyArr' = KeyArr
          /\ UNCHANGED <<map, nodes, fault, wrong, ref>>
      BY <1>2, <3>1
    <3>3. Missing(KeyArr, 0 .. top, c)'
      BY <1>3, <3>2 DEF Missing, map, nodes
    <3>4. At(c)'
      BY <3>2, <3>3 DEF At, Scanning, Adds, Upgrades, Takes, Adding, Upgrading, Taking
    <3>5. pc'[c] \notin Unsettled \cup {"done"}
      BY <3>2 DEF Unsettled
    <3> QED BY <1>0, <3>2, <3>4, <3>5, QuietStep
  <2>2. CASE pc[c] = "find_get"
    <3>1. Jump(c, "find_set", 0)
      BY <1>0, <1>3, <2>2 DEF Absent
    <3>2. /\ pc'[c] = "find_set" /\ i'[c] = 0 /\ cmd' = cmd /\ KeyArr' = KeyArr
          /\ UNCHANGED <<map, nodes, fault, wrong, ref>>
      BY <1>2, <3>1
    <3>3. Missing(KeyArr, 0 .. top, c)'
      BY <1>3, <3>2 DEF Missing, map, nodes
    <3>4. At(c)'
      BY <3>2, <3>3 DEF At, Scanning, Adds, Upgrades, Takes, Adding, Upgrading, Taking, Missing
    <3>5. pc'[c] \notin Unsettled \cup {"done"}
      BY <3>2 DEF Unsettled
    <3> QED BY <1>0, <3>2, <3>4, <3>5, QuietStep
  <2> QED BY <1>0, <2>1, <2>2
<1>4. CASE Found(c) /\ i[c] \in 0 .. top /\ cmd[wkey[KeyArr[i[c]]]].name = cmd[c].name
  <2>1. CASE pc[c] = "find_set"
    <3>1. Jump(c, "up_read", i[c])
      BY <1>4, <2>1 DEF Found
    <3>2. /\ pc'[c] = "up_read" /\ i'[c] = i[c] /\ cmd' = cmd /\ KeyArr' = KeyArr
          /\ UNCHANGED <<map, nodes, fault, wrong, ref>>
      BY <1>0, <1>2, <3>1
    <3>3. cmd[c].kind = "SET"
      BY <1>0, <1>1, <1>4, <2>1 DEF Scanning, Missing
    <3>4. At(c)'
      BY <1>4, <3>2, <3>3 DEF At, Scanning, Adds, Upgrades, Takes, Adding, Upgrading, Taking, map, nodes
    <3>5. pc'[c] \notin Unsettled \cup {"done"}
      BY <3>2 DEF Unsettled
    <3> QED BY <1>0, <3>2, <3>4, <3>5, QuietStep
  <2>2. CASE pc[c] = "find_get"
    <3>1. Jump(c, "read", i[c])
      BY <1>4, <2>2 DEF Found
    <3>2. /\ pc'[c] = "read" /\ i'[c] = i[c] /\ cmd' = cmd /\ KeyArr' = KeyArr
          /\ UNCHANGED <<map, nodes, fault, wrong, ref>>
      BY <1>0, <1>2, <3>1
    <3>4. At(c)'
      BY <1>4, <3>2 DEF At, Scanning, Adds, Upgrades, Takes, Adding, Upgrading, Taking, map, nodes
    <3>5. pc'[c] \notin Unsettled \cup {"done"}
      BY <3>2 DEF Unsettled
    <3> QED BY <1>0, <3>2, <3>4, <3>5, QuietStep
  <2> QED BY <1>0, <2>1, <2>2
<1>5. CASE Jump(c, pc[c], i[c] + 1) /\ Missing(KeyArr, {n \in 0 .. top : n < i[c] + 1}, c)
  <2>1. i[c] + 1 \in Nat
    BY <1>0
  <2>2. /\ pc'[c] = pc[c] /\ i'[c] = i[c] + 1 /\ cmd' = cmd /\ KeyArr' = KeyArr
        /\ UNCHANGED <<map, nodes, fault, wrong, ref>>
    BY <1>2, <1>5, <2>1
  <2>3. Missing(KeyArr, {n \in 0 .. top : n < i[c]}, c)'
    BY <1>5, <2>2 DEF Missing, map, nodes
  <2>4. pc[c] = "find_set" /\ cmd[c].kind = "NX" => Missing(KeyArr, 0 .. top, c)'
    BY <1>1, <2>2 DEF Scanning, Missing, map, nodes
  <2>5. At(c)'
    BY <1>0, <2>2, <2>3, <2>4 DEF At, Scanning, Adds, Upgrades, Takes, Adding, Upgrading, Taking
  <2> QED BY <1>0, <2>2, <2>5, QuietStep
<1> QED BY <1>1, <1>3, <1>4, <1>5, ScanOutcome

\* A call finishes with the answer of the dictionary, which the map now holds.
LEMMA FinishStep ==
  ASSUME Types, NEW c \in Call, Alone(c), Step(c), SerialAt(c),
         NEW r, Finish(c, r), r = Answer(c),
         top' \in -1 .. capacity' - 1, Fits', FreedDone', Good(KeyArr, ValArr, 0 .. top, ref)'
  PROVE  Serial'
<1>1. pc'[c] = "done" /\ ~ fault' /\ ~ wrong'
  BY DEF Finish, Goto, Types, SerialAt
<1>2. At(c)'
  BY <1>1 DEF At, Scanning, Adds, Upgrades, Takes, Adding, Upgrading, Taking
<1>3. SerialAt(c)'
  BY <1>1, <1>2 DEF SerialAt
<1> QED BY <1>3, AloneStep

\* The dictionary does not change when an absent name is removed.
LEMMA RefSame ==
  ASSUME Types, NEW n \in Name, ref[n] = NULL PROVE [ref EXCEPT ![n] = NULL] = ref
BY DEF Types

LEMMA SScanRemove ==
  ASSUME Types, NEW c \in Call, Alone(c), Step(c), SerialAt(c), Scan(c), pc[c] = "find_rm"
  PROVE  Serial'
<1>0. /\ pc[c] \notin Unsettled \cup {"done"} /\ cmd[c].kind = "GET"
      /\ pc[c] \notin {"grow_values", "publish"}
      /\ i[c] \in Nat /\ top \in Int
      /\ pc \in [Call -> Label] /\ i \in [Call -> Nat] /\ reg \in [Call -> Seq(Call \cup Int)]
      /\ cmd[c].name \in Name
  BY CommandName DEF Types, CallOK, Taking, Unsettled
<1>1. Good(KeyArr, ValArr, 0 .. top, ref) /\ Scanning(c) /\ Fits /\ FreedDone /\ top \in -1 .. capacity - 1
  BY <1>0 DEF SerialAt, At
<1>a. \A d \in Call \ {c} : pc'[d] = pc[d]
  BY StepFrame
<1>3. CASE Absent(c) /\ Missing(KeyArr, 0 .. top, c)
  <2>1. Finish(c, "nil") /\ UNCHANGED <<map, nodes>>
    BY <1>0, <1>3 DEF Absent
  <2>2. ref[cmd[c].name] = NULL
    BY <1>0, <1>1, <1>3, MissingRef
  <2>3. ~ Puts(c) /\ Removing(c)
    BY <1>0 DEF Puts, Removing
  <2>4. Answer(c) = "nil" /\ After(c) = ref
    BY <1>0, <2>2, <2>3, RefSame DEF Answer, After
  <2>5. ref' = ref /\ cmd' = cmd /\ pc'[c] = "done"
    BY <1>0, <2>1, <2>4 DEF Finish, Goto
  <2>6. Linked \subseteq Linked'
    BY <1>0, <1>a DEF Linked
  <2>7. Good(KeyArr, ValArr, 0 .. top, ref)'
    <3>1. PICK kf, vf, S, d, D : /\ kf = KeyArr /\ vf = ValArr /\ S = 0 .. top /\ d = ref /\ D = Linked'
      OBVIOUS
    <3>2. Holds(kf, vf, S, d, wkey, wval, freed, cmd, Linked)
      BY <1>1, <3>1 DEF Good
    <3>3. \A n \in S : /\ n \in DOMAIN kf /\ n \in DOMAIN vf
                       /\ <<"key", wkey[kf[n]]>> \notin freed /\ <<"value", wkey[kf[n]]>> \notin freed
      BY <3>2 DEF Holds
    <3>4. Holds(kf, vf, S, d, wkey, wval, freed, cmd, D)
      BY <2>6, <3>1, <3>2, <3>3, HoldsFrame
    <3> QED BY <2>1, <2>5, <3>1, <3>4 DEF Good, KeyArr, ValArr, map, nodes
  <2>8. Fits' /\ top' \in -1 .. capacity' - 1
    BY <1>1, <2>1 DEF Fits, KeyArr, ValArr, map
  <2>9. FreedDone'
    BY <1>0, <1>1, <1>a, <2>1 DEF FreedDone, nodes
  <2> QED BY <2>1, <2>4, <2>7, <2>8, <2>9, FinishStep
<1>4. CASE Found(c) /\ i[c] \in 0 .. top /\ cmd[wkey[KeyArr[i[c]]]].name = cmd[c].name
  <2>1. FoundRemove(c)
    BY <1>4 DEF Found
  <2> DEFINE n == i[c]
             x == wkey[KeyArr[n]]
  <2>2. /\ Slot(keys, n) = KeyArr[n] /\ Slot(values, n) = KeyArr[n] /\ ValArr[n] = KeyArr[n]
        /\ IsWrapper(Slot(values, n)) /\ x \in Call /\ wval[KeyArr[n]] = x
        /\ <<"key", x>> \notin freed /\ <<"value", x>> \notin freed
        /\ x \in Linked
    BY <1>1, <1>4, GoodSlot, ZenonT(40)
  <2>3. /\ reg' = [reg EXCEPT ![c] = <<x, x>>]
        /\ Goto(c, "shift")
        /\ UNCHANGED <<map, nodes, cmd, i, reply, fault, ghosts>>
    BY <2>1, <2>2 DEF FoundRemove
  <2>4. /\ pc'[c] = "shift" /\ reg'[c][1] = x /\ reg'[c][2] = x
    BY <1>0, <2>3 DEF Goto
  <2>5. Linked' = Linked
    BY <1>0, <1>a, <2>4 DEF Linked
  <2>6. /\ Good(KeyArr, ValArr, (0 .. top) \ {n}, With(c, NULL))
        /\ \A m \in (0 .. top) \ {n} : wkey[KeyArr[m]] # x
    BY <1>1, <1>4, GoodDrop
  <2>7. Good(KeyArr, ValArr, (0 .. top) \ {i[c]}, With(c, NULL))'
    BY <2>3, <2>5, <2>6 DEF Good, With, KeyArr, ValArr, map, nodes, ghosts
  <2>8. pc[x] = "done" /\ x # c
    BY <1>0, <2>2, StepFrame DEF Linked, Alone
  <2>9. Loose(KeyArr, (0 .. top) \ {i[c]}, reg[c][1])'
    <3>1. pc'[x] = "done"
      BY <1>a, <2>2, <2>8
    <3>2. KeyArr' = KeyArr /\ top' = top /\ i' = i /\ wkey' = wkey /\ freed' = freed
      BY <2>3 DEF KeyArr, map, nodes
    <3> QED BY <2>2, <2>4, <2>6, <3>1, <3>2 DEF Loose
  <2>10. At(c)'
    BY <1>4, <2>3, <2>4, <2>7, <2>9 DEF At, Scanning, Adds, Upgrades, Takes, Adding, Upgrading, Taking, map
  <2>11. SerialAt(c)'
    <3>1. Fits' /\ top' \in -1 .. capacity' - 1
      BY <1>1, <2>3 DEF Fits, KeyArr, ValArr, map
    <3>2. FreedDone'
      BY <1>0, <1>1, <1>a, <2>3 DEF FreedDone, nodes
    <3> QED BY <2>3, <2>4, <2>10, <3>1, <3>2 DEF SerialAt, ghosts, Unsettled
  <2> QED BY <2>11, AloneStep
<1>5. CASE Jump(c, pc[c], i[c] + 1) /\ Missing(KeyArr, {n \in 0 .. top : n < i[c] + 1}, c)
  <2>1. /\ pc'[c] = pc[c] /\ i'[c] = i[c] + 1 /\ cmd' = cmd /\ KeyArr' = KeyArr
        /\ UNCHANGED <<map, nodes, fault, wrong, ref>>
    BY <1>0, <1>5 DEF Jump, Goto, ghosts, map, KeyArr
  <2>3. Missing(KeyArr, {n \in 0 .. top : n < i[c]}, c)'
    BY <1>5, <2>1 DEF Missing, map, nodes
  <2>5. At(c)'
    BY <2>1, <2>3 DEF At, Scanning, Adds, Upgrades, Takes, Adding, Upgrading, Taking
  <2> QED BY <1>0, <2>1, <2>5, QuietStep
<1> QED BY <1>1, <1>3, <1>4, <1>5, ScanOutcome

-----------------------------------------------------------------------------
(* GETs that only read, which may overlap each other.                      *)

\* The nodes of finished calls keep their names, so that more of them do no harm.
LEMMA GoodMore ==
  ASSUME NEW kf, NEW vf, NEW S, NEW d, Good(kf, vf, S, d),
         UNCHANGED <<nodes, cmd>>, Linked \subseteq Linked'
  PROVE  Holds(kf, vf, S, d, wkey', wval', freed', cmd', Linked')
<1>1. PICK D : D = Linked'
  OBVIOUS
<1>2. Holds(kf, vf, S, d, wkey, wval, freed, cmd, Linked)
  BY DEF Good
<1>3. \A n \in S : /\ n \in DOMAIN kf /\ n \in DOMAIN vf
                   /\ <<"key", wkey[kf[n]]>> \notin freed /\ <<"value", wkey[kf[n]]>> \notin freed
  BY <1>2 DEF Holds
<1>4. Holds(kf, vf, S, d, wkey, wval, freed, cmd, D)
  BY <1>1, <1>2, <1>3, HoldsFrame
<1> QED BY <1>1, <1>4 DEF nodes

LEMMA ReadersOnly ==
  ASSUME Types, Serial, NEW c \in Call, c \in Active, ~ Changing(c)
  PROVE  /\ \A d \in Call : pc[d] \in {"idle", "done", "find_get", "read", "use"}
         /\ \A d \in Active : cmd[d].kind = "GET" /\ ~ Changing(d)
         /\ Fits /\ Good(KeyArr, ValArr, 0 .. top, ref)
<1>1. \A d \in Active : ~ Changing(d)
  BY DEF Serial, Active
<1>2. \A d \in Active : cmd[d].kind = "GET" /\ ~ Removing(d) /\ CallOK(d) /\ pc[d] \in Label
  BY <1>1 DEF Changing, Active, Types
<1>3. \A d \in Active : pc[d] \in {"find_get", "read", "use"}
  BY <1>2 DEF CallOK, Removing, Label, Adding, Upgrading, Taking, Active
<1>4. \A d \in Call : pc[d] \in {"idle", "done", "find_get", "read", "use"}
  BY <1>3 DEF Active
<1>5. \A d \in Call : pc[d] \notin Unsettled /\ pc[d] \notin {"grow_values", "publish"}
  BY <1>4 DEF Unsettled
<1> QED BY <1>1, <1>2, <1>4, <1>5 DEF Serial

LEMMA ReaderStep ==
  ASSUME Types, Serial, NEW c \in Call, Step(c), c \in Active, ~ Changing(c),
         UNCHANGED <<map, nodes, fault, wrong, ref>>,
         pc'[c] \in {"done", "find_get", "read", "use"}, At(c)'
  PROVE  Serial'
<1> USE DEF map, nodes
<1>1. /\ cmd' = cmd /\ pc[c] # "done"
      /\ \A d \in Call \ {c} : pc'[d] = pc[d] /\ i'[d] = i[d] /\ reg'[d] = reg[d]
  BY StepFrame
<1>2. /\ \A d \in Call : pc[d] \in {"idle", "done", "find_get", "read", "use"}
      /\ \A d \in Active : cmd[d].kind = "GET" /\ ~ Changing(d)
      /\ Fits /\ Good(KeyArr, ValArr, 0 .. top, ref)
  BY ReadersOnly
<1>3. \A d \in Call : pc'[d] \in {"idle", "done", "find_get", "read", "use"}
  BY <1>1, <1>2
<1>4. Linked \subseteq Linked'
  BY <1>1, <1>2 DEF Linked
<1>5. Good(KeyArr, ValArr, 0 .. top, ref)'
  BY <1>1, <1>2, <1>4, GoodMore DEF Good, KeyArr, ValArr
<1>6. \A d \in Call : ~ Changing(d)'
  BY <1>1, <1>2, <1>3 DEF Changing, Active, Removing
<1>7. ASSUME NEW d \in Call PROVE At(d)'
  <2>1. CASE d = c
    BY <2>1
  <2>2. CASE d # c
    <3>1. Scanning(d) /\ KeyArr' = KeyArr
      BY DEF Serial, At, KeyArr
    <3>2. Scanning(d)'
      BY <1>1, <1>2, <2>2, <3>1 DEF Scanning, Missing
    <3>3. pc'[d] \in {"idle", "done", "find_get", "read", "use"}
      BY <1>3
    <3>4. Adds(d)' /\ Upgrades(d)' /\ Takes(d)'
      BY <3>3 DEF Adds, Upgrades, Takes, Adding, Upgrading, Taking
    <3> QED BY <3>2, <3>4 DEF At
  <2> QED BY <2>1, <2>2
<1>8. Fits' /\ top' \in -1 .. capacity' - 1 /\ ~ fault' /\ ~ wrong'
  BY <1>2 DEF Fits, KeyArr, ValArr, Serial
<1>9. FreedDone'
  BY <1>1 DEF Serial, FreedDone
<1> QED BY <1>5, <1>6, <1>7, <1>8, <1>9 DEF Serial

LEMMA SScanGet ==
  ASSUME Types, Serial, NEW c \in Call, Step(c), Scan(c), pc[c] = "find_get", cmd[c].kind = "GET"
  PROVE  Serial'
<1>0. /\ c \in Active /\ ~ Changing(c)
      /\ i[c] \in Nat /\ top \in Int /\ cmd[c].name \in Name
      /\ pc \in [Call -> Label] /\ i \in [Call -> Nat]
  BY CommandName DEF Changing, Active, Removing, Types
<1>1. Good(KeyArr, ValArr, 0 .. top, ref) /\ Scanning(c) /\ ~ wrong
  BY <1>0, ReadersOnly DEF Serial, At
<1>3. CASE Absent(c) /\ Missing(KeyArr, 0 .. top, c)
  <2>1. Finish(c, "nil") /\ UNCHANGED <<map, nodes>>
    BY <1>3 DEF Absent
  <2>2. ref[cmd[c].name] = NULL
    BY <1>0, <1>1, <1>3, MissingRef
  <2>3. ~ Puts(c) /\ ~ Removing(c)
    BY DEF Puts, Removing
  <2>4. Answer(c) = "nil" /\ After(c) = ref
    BY <2>2, <2>3 DEF Answer, After
  <2>5. ref' = ref /\ pc'[c] = "done" /\ fault' = fault /\ wrong' = wrong
    BY <1>0, <1>1, <2>1, <2>4 DEF Finish, Goto, Types
  <2>6. At(c)'
    BY <2>5 DEF At, Scanning, Adds, Upgrades, Takes, Adding, Upgrading, Taking
  <2> QED BY <1>0, <2>1, <2>5, <2>6, ReaderStep
<1>4. CASE Found(c) /\ i[c] \in 0 .. top /\ cmd[wkey[KeyArr[i[c]]]].name = cmd[c].name
  <2>1. /\ pc'[c] = "read" /\ i'[c] = i[c] /\ cmd' = cmd /\ KeyArr' = KeyArr
        /\ UNCHANGED <<map, nodes, fault, wrong, ref>>
    BY <1>0, <1>4 DEF Found, Jump, Goto, ghosts, map, KeyArr
  <2>2. At(c)'
    BY <1>4, <2>1 DEF At, Scanning, Adds, Upgrades, Takes, Adding, Upgrading, Taking, map, nodes
  <2> QED BY <1>0, <2>1, <2>2, ReaderStep
<1>5. CASE Jump(c, pc[c], i[c] + 1) /\ Missing(KeyArr, {n \in 0 .. top : n < i[c] + 1}, c)
  <2>1. /\ pc'[c] = pc[c] /\ i'[c] = i[c] + 1 /\ cmd' = cmd /\ KeyArr' = KeyArr
        /\ UNCHANGED <<map, nodes, fault, wrong, ref>>
    BY <1>0, <1>5 DEF Jump, Goto, ghosts, map, KeyArr
  <2>2. Missing(KeyArr, {n \in 0 .. top : n < i[c]}, c)'
    BY <1>5, <2>1 DEF Missing, map, nodes
  <2>3. At(c)'
    BY <2>1, <2>2 DEF At, Scanning, Adds, Upgrades, Takes, Adding, Upgrading, Taking
  <2> QED BY <1>0, <2>1, <2>3, ReaderStep
<1> QED BY <1>1, <1>3, <1>4, <1>5, ScanOutcome

\* The pair is copied: by a GET ...
LEMMA ReadCopies ==
  ASSUME Types, NEW c \in Call, Read(c), Good(KeyArr, ValArr, 0 .. top, ref), Scanning(c)
  PROVE  /\ UNCHANGED <<map, nodes, fault, wrong, ref>> /\ cmd' = cmd
         /\ pc'[c] = "use" /\ At(c)'
<1>1. /\ pc[c] = "read" /\ i[c] \in 0 .. top /\ cmd[wkey[KeyArr[i[c]]]].name = cmd[c].name
      /\ pc \in [Call -> Label] /\ reg \in [Call -> Seq(Call \cup Int)]
  BY DEF Read, Scanning, Types
<1>2. /\ Slot(keys, i[c]) = KeyArr[i[c]] /\ Slot(values, i[c]) = KeyArr[i[c]]
      /\ IsWrapper(Slot(keys, i[c])) /\ IsWrapper(Slot(values, i[c]))
      /\ wval[KeyArr[i[c]]] = wkey[KeyArr[i[c]]]
  BY <1>1, TopSlot
<1>3. /\ reg' = [reg EXCEPT ![c] = <<wkey[KeyArr[i[c]]], wkey[KeyArr[i[c]]]>>]
      /\ Goto(c, "use") /\ UNCHANGED <<map, nodes, cmd, i, reply, fault, ghosts>>
  BY <1>2 DEF Read
<1>4. /\ pc'[c] = "use" /\ reg'[c][1] = wkey[KeyArr[i[c]]] /\ reg'[c][2] = wkey[KeyArr[i[c]]]
      /\ KeyArr' = KeyArr
  BY <1>1, <1>3 DEF Goto, KeyArr, map
<1>5. At(c)'
  BY <1>1, <1>3, <1>4 DEF At, Scanning, Adds, Upgrades, Takes, Adding, Upgrading, Taking, map, nodes
<1> QED BY <1>3, <1>4, <1>5 DEF ghosts

LEMMA SReadGet ==
  ASSUME Types, Serial, NEW c \in Call, Step(c), Read(c), cmd[c].kind = "GET" PROVE Serial'
<1>0. c \in Active /\ ~ Changing(c)
  BY DEF Read, Changing, Active, Removing
<1>1. Good(KeyArr, ValArr, 0 .. top, ref) /\ Scanning(c)
  BY <1>0, ReadersOnly DEF Serial, At
<1>2. /\ UNCHANGED <<map, nodes, fault, wrong, ref>> /\ cmd' = cmd
      /\ pc'[c] = "use" /\ At(c)'
  BY <1>1, ReadCopies
<1> QED BY <1>0, <1>2, ReaderStep

\* ... and by an NX.
LEMMA SReadNx ==
  ASSUME Types, NEW c \in Call, Alone(c), Step(c), SerialAt(c), Read(c)
  PROVE  Serial'
<1>0. pc[c] = "read" /\ pc[c] \notin Unsettled \cup {"done"}
  BY DEF Read, Unsettled
<1>1. Good(KeyArr, ValArr, 0 .. top, ref) /\ Scanning(c)
  BY <1>0 DEF SerialAt, At
<1>2. /\ UNCHANGED <<map, nodes, fault, wrong, ref>> /\ cmd' = cmd
      /\ pc'[c] = "use" /\ At(c)'
  BY <1>1, ReadCopies
<1>3. pc'[c] \notin Unsettled \cup {"done"}
  BY <1>2 DEF Unsettled
<1> QED BY <1>0, <1>2, <1>3, QuietStep

\* A GET answers with the value of the dictionary.
LEMMA SUse ==
  ASSUME Types, Serial, NEW c \in Call, Step(c), Use(c) PROVE Serial'
<1>0. /\ c \in Active /\ ~ Changing(c) /\ pc[c] = "use" /\ cmd[c].kind = "GET"
      /\ pc \in [Call -> Label]
  BY DEF Use, Changing, Active, Removing, Types
<1>1. Good(KeyArr, ValArr, 0 .. top, ref) /\ Scanning(c) /\ ~ wrong
  BY <1>0, ReadersOnly DEF Serial, At
<1>2. /\ i[c] \in 0 .. top /\ cmd[wkey[KeyArr[i[c]]]].name = cmd[c].name
      /\ reg[c][1] = wkey[KeyArr[i[c]]] /\ reg[c][2] = wkey[KeyArr[i[c]]]
  BY <1>0, <1>1 DEF Scanning
<1>3. /\ <<"key", reg[c][1]>> \notin freed /\ <<"value", reg[c][2]>> \notin freed
      /\ ref[cmd[c].name] = reg[c][2] /\ reg[c][2] \in Call
  BY <1>1, <1>2, TopSlot
<1>4. Finish(c, reg[c][2]) /\ UNCHANGED <<map, nodes>>
  BY <1>3 DEF Use, Alive
<1>5. ~ Puts(c) /\ ~ Removing(c) /\ ref[cmd[c].name] # NULL
  BY <1>0, <1>3, CallAssumption DEF Puts, Removing
<1>6. Answer(c) = reg[c][2] /\ After(c) = ref
  BY <1>0, <1>3, <1>5 DEF Answer, After
<1>7. ref' = ref /\ pc'[c] = "done" /\ fault' = fault /\ wrong' = wrong
  BY <1>0, <1>1, <1>4, <1>6 DEF Finish, Goto, Types
<1>8. At(c)'
  BY <1>7 DEF At, Scanning, Adds, Upgrades, Takes, Adding, Upgrading, Taking
<1> QED BY <1>0, <1>4, <1>7, <1>8, ReaderStep

-----------------------------------------------------------------------------
(* The rest of NX, and a GET that starts to remove.                        *)

\* Freeing a pair that the arrays do not hold does no harm.
LEMMA GoodFreed ==
  ASSUME NEW kf, NEW vf, NEW S, NEW d, Good(kf, vf, S, d), NEW x,
         UNCHANGED <<wkey, wval, cmd>>, Free(x, x), Linked \subseteq Linked',
         \A n \in S : wkey[kf[n]] # x
  PROVE  Holds(kf, vf, S, d, wkey', wval', freed', cmd', Linked')
<1>1. PICK D, fs : D = Linked' /\ fs = freed'
  OBVIOUS
<1>2. Holds(kf, vf, S, d, wkey, wval, freed, cmd, Linked)
  BY DEF Good
<1>3. \A n \in S : /\ n \in DOMAIN kf /\ n \in DOMAIN vf
                   /\ <<"key", wkey[kf[n]]>> \notin freed /\ <<"value", wkey[kf[n]]>> \notin freed
  BY <1>2 DEF Holds
<1>4. \A n \in S : <<"key", wkey[kf[n]]>> \notin fs /\ <<"value", wkey[kf[n]]>> \notin fs
  BY <1>1, <1>3 DEF Free
<1>5. Holds(kf, vf, S, d, wkey, wval, fs, cmd, D)
  BY <1>1, <1>2, <1>3, <1>4, HoldsFrame
<1> QED BY <1>1, <1>5

\* A call that ends by freeing a pair of its own or one it took out of the map.
LEMMA FreeStep ==
  ASSUME Types, NEW c \in Call, Alone(c), Step(c), SerialAt(c), pc[c] \notin {"done", "grow_values", "publish"},
         NEW x \in Call, <<"key", x>> \notin freed, <<"value", x>> \notin freed,
         x = c \/ pc[x] = "done",
         NEW r, FreeAndFinish(c, x, x, r), r = Answer(c),
         NEW d, Good(KeyArr, ValArr, 0 .. top, d), After(c) = d,
         \A n \in 0 .. top : wkey[KeyArr[n]] # x
  PROVE  Serial'
<1>0. Fits /\ FreedDone /\ top \in -1 .. capacity - 1
  BY DEF SerialAt
<1>a. \A e \in Call \ {c} : pc'[e] = pc[e]
  BY StepFrame
<1>1. Free(x, x) /\ Finish(c, r) /\ UNCHANGED <<map, wkey, wval>>
  BY DEF FreeAndFinish, Alive
<1>2. ref' = d /\ cmd' = cmd /\ pc'[c] = "done"
  BY <1>1 DEF Finish, Goto, Types
<1>3. Linked \subseteq Linked'
  BY <1>a, <1>2 DEF Linked
<1>4. Good(KeyArr, ValArr, 0 .. top, ref)'
  <2>1. Holds(KeyArr, ValArr, 0 .. top, d, wkey', wval', freed', cmd', Linked')
    BY <1>1, <1>2, <1>3, GoodFreed
  <2> QED BY <1>1, <1>2, <2>1 DEF Good, KeyArr, ValArr, map
<1>5. Fits' /\ top' \in -1 .. capacity' - 1
  BY <1>0, <1>1 DEF Fits, KeyArr, ValArr, map
<1>6. FreedDone'
  BY <1>0, <1>a, <1>1, <1>2 DEF FreedDone, Free
<1> QED BY <1>1, <1>4, <1>5, <1>6, FinishStep

LEMMA SDecline ==
  ASSUME Types, NEW c \in Call, Alone(c), Step(c), SerialAt(c), Decline(c)
  PROVE  Serial'
<1>0. /\ pc[c] = "use" /\ cmd[c].kind = "NX" /\ pc[c] \notin Unsettled
      /\ pc[c] \notin {"done", "grow_values", "publish"}
      /\ FreeAndFinish(c, c, c, "nil")
  BY DEF Decline, Unsettled
<1>1. Good(KeyArr, ValArr, 0 .. top, ref) /\ Scanning(c) /\ FreedDone
  BY <1>0 DEF SerialAt, At
<1>2. <<"key", c>> \notin freed /\ <<"value", c>> \notin freed
  BY <1>0, <1>1 DEF FreedDone
<1>3. ref[cmd[c].name] # NULL
  <2>1. i[c] \in 0 .. top /\ cmd[wkey[KeyArr[i[c]]]].name = cmd[c].name
    BY <1>0, <1>1 DEF Scanning
  <2>2. ref[cmd[c].name] = wkey[KeyArr[i[c]]] /\ wkey[KeyArr[i[c]]] \in Call
    BY <1>1, <2>1, TopSlot
  <2> QED BY <2>2, CallAssumption
<1>4. Answer(c) = "nil" /\ After(c) = ref
  BY <1>0, <1>3 DEF Answer, After, Puts, Removing
<1>5. \A n \in 0 .. top : wkey[KeyArr[n]] # c
  <2>1. c \notin Linked
    BY <1>0 DEF Linked
  <2> QED BY <1>1, <2>1, TopSlot
<1> QED BY <1>0, <1>1, <1>2, <1>4, <1>5, FreeStep

LEMMA SExpired ==
  ASSUME Types, NEW c \in Call, Alone(c), Step(c), SerialAt(c), Expired(c)
  PROVE  Serial'
<1>1. /\ pc[c] = "use" /\ pc'[c] = "find_rm" /\ i'[c] = 0
      /\ UNCHANGED <<map, nodes, fault, wrong, ref>>
  BY DEF Expired, Goto, Types
<1>2. pc[c] \notin Unsettled \cup {"done"} /\ pc'[c] \notin Unsettled \cup {"done"}
  BY <1>1 DEF Unsettled
<1>3. Missing(KeyArr, {n \in 0 .. top : n < i[c]}, c)'
  BY <1>1 DEF Missing, map
<1>4. At(c)'
  BY <1>1, <1>3 DEF At, Scanning, Adds, Upgrades, Takes, Adding, Upgrading, Taking
<1> QED BY <1>1, <1>2, <1>4, QuietStep

-----------------------------------------------------------------------------
(* A new entry.                                                            *)

\* The wrappers of a call that is not linked yet may change.
LEMMA GoodWrap ==
  ASSUME NEW kf, NEW vf, NEW S, NEW d, Good(kf, vf, S, d),
         UNCHANGED <<freed, cmd>>, Linked \subseteq Linked',
         \A e \in Linked : wkey'[e] = wkey[e] /\ wval'[e] = wval[e]
  PROVE  Holds(kf, vf, S, d, wkey', wval', freed', cmd', Linked')
<1>1. PICK D, wl, ww : D = Linked' /\ wl = wkey' /\ ww = wval'
  OBVIOUS
<1>2. Holds(kf, vf, S, d, wkey, wval, freed, cmd, Linked)
  BY DEF Good
<1>4. (\A e \in Linked : wl[e] = wkey[e] /\ ww[e] = wval[e]) /\ Linked \subseteq D
  BY <1>1
<1>5. \A n \in S : /\ kf[n] \in D /\ wkey[kf[n]] \in D
                   /\ wl[kf[n]] = wkey[kf[n]] /\ ww[kf[n]] = wval[kf[n]]
  BY <1>2, <1>4 DEF Holds
<1>6. Holds(kf, vf, S, d, wl, ww, freed, cmd, D)
  BY <1>2, <1>5 DEF Holds
<1> QED BY <1>1, <1>6

LEMMA SIsFull ==
  ASSUME Types, NEW c \in Call, Alone(c), Step(c), SerialAt(c), IsFull(c)
  PROVE  Serial'
<1>0. /\ pc[c] = "is_full" /\ pc[c] \notin Unsettled /\ pc[c] \notin {"grow_values", "publish"}
      /\ top \in Int /\ capacity \in Nat
  BY DEF IsFull, Unsettled, Types
<1>1. /\ Good(KeyArr, ValArr, 0 .. top, ref) /\ FreedDone /\ Fits /\ top \in -1 .. capacity - 1
      /\ Missing(KeyArr, 0 .. top, c)
  BY <1>0 DEF SerialAt, At, Adds
<1>2. /\ wkey' = [wkey EXCEPT ![c] = c] /\ wval' = [wval EXCEPT ![c] = c]
      /\ pc'[c] = (IF top + 1 = capacity THEN "grow_keys" ELSE "load_top")
      /\ UNCHANGED <<map, freed, cmd, fault, wrong, ref>>
      /\ KeyArr' = KeyArr /\ ValArr' = ValArr /\ top' = top /\ capacity' = capacity
  <2>1. /\ wkey' = [wkey EXCEPT ![c] = c] /\ wval' = [wval EXCEPT ![c] = c]
        /\ pc' = [pc EXCEPT ![c] = IF top + 1 = capacity THEN "grow_keys" ELSE "load_top"]
        /\ UNCHANGED <<map, freed, cmd, fault, wrong, ref>>
    BY DEF IsFull, Goto, ghosts
  <2>2. pc \in [Call -> Label]
    BY DEF Types
  <2> QED BY <2>1, <2>2 DEF map, KeyArr, ValArr
<1>3. \A d \in Call \ {c} : pc'[d] = pc[d]
  BY StepFrame
<1>4. c \notin Linked /\ Linked' = Linked
  BY <1>0, <1>2, <1>3 DEF Linked
<1>5. \A e \in Linked : wkey'[e] = wkey[e] /\ wval'[e] = wval[e]
  BY <1>2, <1>4 DEF Linked, Types
<1>6. Good(KeyArr, ValArr, 0 .. top, ref)'
  <2>1. Holds(KeyArr, ValArr, 0 .. top, ref, wkey', wval', freed', cmd', Linked')
    BY <1>1, <1>2, <1>4, <1>5, GoodWrap
  <2> QED BY <1>2, <2>1 DEF Good
<1>7. Missing(KeyArr, 0 .. top, c)'
  <2>1. \A n \in 0 .. top : KeyArr[n] \in Linked
    BY <1>1, TopSlot
  <2> QED BY <1>1, <1>2, <1>5, <2>1 DEF Missing
<1>8. wkey'[c] = c /\ wval'[c] = c
  BY <1>2 DEF Types
<1>9. top' + 1 = capacity' \/ (pc'[c] = "load_top" /\ top' + 1 < capacity')
  BY <1>0, <1>1, <1>2
<1>10. At(c)'
  BY <1>2, <1>7, <1>8, <1>9 DEF At, Scanning, Adds, Upgrades, Takes, Adding, Upgrading, Taking
<1>11. FreedDone'
  BY <1>1, <1>2, <1>3, <1>0 DEF FreedDone
<1>12. Fits' /\ top' \in -1 .. capacity' - 1
  BY <1>1, <1>2 DEF Fits, map
<1>13. SerialAt(c)'
  BY <1>2, <1>6, <1>10, <1>11, <1>12 DEF SerialAt
<1> QED BY <1>13, AloneStep

\* Arrays that agree on the slots in use.
LEMMA GoodAgree ==
  ASSUME NEW kf, NEW vf, NEW S, NEW d, Good(kf, vf, S, d), NEW kg, NEW vg,
         \A n \in S : /\ n \in DOMAIN kg /\ kg[n] = kf[n]
                      /\ n \in DOMAIN vg /\ vg[n] = vf[n]
  PROVE  Good(kg, vg, S, d)
BY DEF Good, Holds

\* A step of c that leaves the nodes alone, where c is linked neither before
\* nor after.
LEMMA LinkedSame ==
  ASSUME Types, NEW c \in Call, Step(c), UNCHANGED nodes,
         pc[c] \notin {"done", "free_up"}, pc'[c] \notin {"done", "free_up"}, FreedDone
  PROVE  /\ Linked' = Linked /\ FreedDone' /\ cmd' = cmd
         /\ \A kf, vf, S, d : Good(kf, vf, S, d) =>
              Holds(kf, vf, S, d, wkey', wval', freed', cmd', Linked')
<1>1. cmd' = cmd /\ \A d \in Call \ {c} : pc'[d] = pc[d]
  BY StepFrame
<1>2. Linked' = Linked
  BY <1>1 DEF Linked
<1>3. FreedDone'
  BY <1>1 DEF FreedDone, nodes
<1>4. \A kf, vf, S, d : Good(kf, vf, S, d) =>
        Holds(kf, vf, S, d, wkey', wval', freed', cmd', Linked')
  BY <1>1, <1>2 DEF Good, nodes
<1> QED BY <1>1, <1>2, <1>3, <1>4

LEMMA MovedArray ==
  ASSUME NEW f, NEW cap \in Nat \ {0}, DOMAIN f = 0 .. cap - 1, NEW g,
         g = [m \in 0 .. 2 * cap - 1 |-> IF m \in DOMAIN f THEN f[m] ELSE UNDEF]
  PROVE  DOMAIN g = 0 .. 2 * cap - 1 /\ \A m \in 0 .. cap - 1 : m \in DOMAIN g /\ g[m] = f[m]
<1>1. \A m \in 0 .. cap - 1 : m \in 0 .. 2 * cap - 1
  OBVIOUS
<1> QED BY <1>1

LEMMA SGrowKeys ==
  ASSUME Types, NEW c \in Call, Alone(c), Step(c), SerialAt(c), GrowKeys(c)
  PROVE  Serial'
<1>0. /\ pc[c] = "grow_keys" /\ pc[c] \notin Unsettled /\ pc[c] \notin {"done", "free_up"}
      /\ pc[c] \notin {"grow_values", "publish"}
      /\ top \in Int /\ capacity \in Nat \ {0}
      /\ pc \in [Call -> Label] /\ reg \in [Call -> Seq(Call \cup Int)]
      /\ blocks \in Seq(Block) /\ Len(blocks) \in Nat
      /\ keys \in 1 .. Len(blocks) /\ values \in 1 .. Len(blocks)
  BY DEF GrowKeys, Unsettled, Types
<1>1. /\ Good(KeyArr, ValArr, 0 .. top, ref) /\ FreedDone /\ Fits /\ top \in -1 .. capacity - 1
      /\ Missing(KeyArr, 0 .. top, c) /\ top + 1 = capacity /\ wkey[c] = c /\ wval[c] = c
  BY <1>0 DEF SerialAt, At, Adds, Adding
<1>2. blocks[keys] # <<>>
  BY <1>0, <1>1, EmptyBlock DEF Fits, KeyArr
<1>3. /\ blocks' = Moved(keys, 2 * capacity)
      /\ reg' = [reg EXCEPT ![c] = <<Len(blocks) + 1, 2 * capacity>>]
      /\ Goto(c, "grow_values")
      /\ UNCHANGED <<top, capacity, keys, values, nodes, cmd, i, reply, fault, ghosts>>
  BY <1>1, <1>2 DEF GrowKeys
<1>4. /\ pc'[c] = "grow_values" /\ reg'[c][1] = Len(blocks) + 1 /\ reg'[c][2] = 2 * capacity
  BY <1>0, <1>3 DEF Goto
<1>5. PICK kf, vf, kg : kf = KeyArr /\ vf = ValArr /\ kg = blocks'[Len(blocks) + 1]
  OBVIOUS
<1>6. /\ blocks'[values] = vf
      /\ kg = [m \in 0 .. 2 * capacity - 1 |-> IF m \in DOMAIN kf THEN kf[m] ELSE UNDEF]
  <2>1. 2 * capacity \in Nat
    BY <1>0
  <2>2. /\ \A a \in 1 .. Len(blocks) : Moved(keys, 2 * capacity)[a] = IF a = keys THEN <<>> ELSE blocks[a]
        /\ Moved(keys, 2 * capacity)[Len(blocks) + 1] =
             [m \in 0 .. 2 * capacity - 1 |-> IF m \in DOMAIN blocks[keys] THEN blocks[keys][m] ELSE UNDEF]
    BY <1>0, <2>1, MovedBlocks, ZenonT(40)
  <2>3. keys # values
    BY <1>1 DEF Fits
  <2> QED BY <1>0, <1>3, <1>5, <2>2, <2>3 DEF KeyArr, ValArr
<1>7. DOMAIN kf = 0 .. capacity - 1 /\ DOMAIN vf = 0 .. capacity - 1
  BY <1>1, <1>5 DEF Fits
<1>8. DOMAIN kg = 0 .. 2 * capacity - 1 /\ \A m \in 0 .. capacity - 1 : m \in DOMAIN kg /\ kg[m] = kf[m]
  BY <1>0, <1>6, <1>7, MovedArray
<1>9. \A n \in 0 .. top : n \in 0 .. capacity - 1
  BY <1>0, <1>1
<1>10. Good(kg, vf, 0 .. top, ref) /\ Missing(kg, 0 .. top, c)
  <2>1. Good(kf, vf, 0 .. top, ref) /\ Missing(kf, 0 .. top, c)
    BY <1>1, <1>5
  <2>2. Good(kg, vf, 0 .. top, ref)
    BY <1>7, <1>8, <1>9, <2>1, GoodAgree
  <2> QED BY <1>8, <1>9, <2>1, <2>2 DEF Missing
<1>11. /\ Linked' = Linked /\ FreedDone' /\ cmd' = cmd
       /\ Holds(kg, vf, 0 .. top, ref, wkey', wval', freed', cmd', Linked')
  BY <1>0, <1>1, <1>3, <1>4, <1>10, LinkedSame
<1>12. Adds(c)'
  <2>1. blocks'[reg'[c][1]] = kg /\ ValArr' = vf /\ top' = top /\ ref' = ref /\ capacity' = capacity
    BY <1>3, <1>4, <1>5, <1>6 DEF ValArr, ghosts
  <2>2. wkey' = wkey /\ wval' = wval
    BY <1>3 DEF nodes
  <2>3. Good(blocks[reg[c][1]], ValArr, 0 .. top, ref)'
    BY <1>11, <2>1 DEF Good
  <2>4. Missing(blocks[reg[c][1]], 0 .. top, c)'
    BY <1>10, <1>11, <2>1, <2>2 DEF Missing
  <2>5. reg'[c][1] # values'
    BY <1>0, <1>3, <1>4
  <2> QED BY <1>1, <1>4, <1>7, <1>8, <2>1, <2>2, <2>3, <2>4, <2>5 DEF Adds, Adding
<1>13. At(c)'
  BY <1>4, <1>12 DEF At, Scanning, Upgrades, Takes, Upgrading, Taking
<1>14. SerialAt(c)'
  BY <1>1, <1>3, <1>4, <1>11, <1>13 DEF SerialAt, ghosts, Unsettled
<1> QED BY <1>14, AloneStep

LEMMA SGrowValues ==
  ASSUME Types, NEW c \in Call, Alone(c), Step(c), SerialAt(c), GrowValues(c)
  PROVE  Serial'
<1>0. /\ pc[c] = "grow_values" /\ pc[c] \notin {"done", "free_up"}
      /\ top \in Int /\ capacity \in Nat \ {0}
      /\ pc \in [Call -> Label] /\ reg \in [Call -> Seq(Call \cup Int)]
      /\ blocks \in Seq(Block) /\ Len(blocks) \in Nat
      /\ keys \in 1 .. Len(blocks) /\ values \in 1 .. Len(blocks)
      /\ Len(reg[c]) = 2 /\ reg[c] \in Seq(Call \cup Int) /\ reg[c][1] \in 1 .. Len(blocks)
  BY DEF GrowValues, Types, CallOK
<1>a. PICK kf, vf, vg : kf = blocks[reg[c][1]] /\ vf = ValArr /\ vg = blocks'[Len(blocks) + 1]
  OBVIOUS
<1>1. /\ FreedDone /\ top \in -1 .. capacity - 1 /\ top + 1 = capacity /\ wkey[c] = c /\ wval[c] = c
      /\ Good(kf, vf, 0 .. top, ref) /\ Missing(kf, 0 .. top, c)
      /\ reg[c][2] = 2 * capacity /\ reg[c][1] # values
      /\ DOMAIN kf = 0 .. 2 * capacity - 1 /\ DOMAIN vf = 0 .. capacity - 1
  BY <1>0, <1>a DEF SerialAt, At, Adds, Adding
<1>2. blocks[values] # <<>>
  BY <1>0, <1>1, <1>a, EmptyBlock, SMTT(30) DEF ValArr
<1>3. /\ blocks' = Moved(values, 2 * capacity)
      /\ reg' = [reg EXCEPT ![c] = Append(@, Len(blocks) + 1)]
      /\ Goto(c, "publish")
      /\ UNCHANGED <<top, capacity, keys, values, nodes, cmd, i, reply, fault, ghosts>>
  BY <1>1, <1>2 DEF GrowValues
<1>4. /\ pc'[c] = "publish" /\ reg'[c][1] = reg[c][1] /\ reg'[c][2] = 2 * capacity
      /\ reg'[c][3] = Len(blocks) + 1
  <2>1. PICK r : r = Append(reg[c], Len(blocks) + 1)
    OBVIOUS
  <2>2. r[1] = reg[c][1] /\ r[2] = reg[c][2] /\ r[3] = Len(blocks) + 1
    BY <1>0, <2>1, ThirdCopy
  <2>3. reg'[c] = r
    BY <1>0, <1>3, <2>1
  <2> QED BY <1>0, <1>1, <1>3, <2>2, <2>3 DEF Goto
<1>6. /\ blocks'[reg[c][1]] = kf
      /\ vg = [m \in 0 .. 2 * capacity - 1 |-> IF m \in DOMAIN vf THEN vf[m] ELSE UNDEF]
  <2>1. 2 * capacity \in Nat
    BY <1>0
  <2>2. /\ \A a \in 1 .. Len(blocks) : Moved(values, 2 * capacity)[a] = IF a = values THEN <<>> ELSE blocks[a]
        /\ Moved(values, 2 * capacity)[Len(blocks) + 1] =
             [m \in 0 .. 2 * capacity - 1 |-> IF m \in DOMAIN blocks[values] THEN blocks[values][m] ELSE UNDEF]
    <3>1. blocks \in Seq(Block) /\ values \in 1 .. Len(blocks)
      BY <1>0
    <3> QED BY <2>1, <3>1, MovedBlocks
  <2>3. PICK bt : bt = Moved(values, 2 * capacity)
    OBVIOUS
  <2>4. blocks' = bt
    BY <1>3, <2>3
  <2>5. bt[reg[c][1]] = kf
    BY <1>0, <1>1, <1>a, <2>2, <2>3
  <2>6. bt[Len(blocks) + 1] = [m \in 0 .. 2 * capacity - 1 |-> IF m \in DOMAIN vf THEN vf[m] ELSE UNDEF]
    BY <1>a, <2>2, <2>3 DEF ValArr
  <2> QED BY <1>a, <2>4, <2>5, <2>6
<1>8. DOMAIN vg = 0 .. 2 * capacity - 1 /\ \A m \in 0 .. capacity - 1 : m \in DOMAIN vg /\ vg[m] = vf[m]
  BY <1>0, <1>1, <1>6, MovedArray
<1>9. \A n \in 0 .. top : n \in 0 .. capacity - 1 /\ n \in 0 .. 2 * capacity - 1
  BY <1>0, <1>1
<1>10. Good(kf, vg, 0 .. top, ref)
  BY <1>1, <1>8, <1>9, GoodAgree
<1>11. /\ Linked' = Linked /\ FreedDone' /\ cmd' = cmd
       /\ Holds(kf, vg, 0 .. top, ref, wkey', wval', freed', cmd', Linked')
  BY <1>0, <1>1, <1>3, <1>4, <1>10, LinkedSame
<1>12. Adds(c)'
  <2>1. /\ blocks'[reg'[c][1]] = kf /\ blocks'[reg'[c][3]] = vg
        /\ top' = top /\ ref' = ref /\ capacity' = capacity
    BY <1>3, <1>4, <1>6, <1>a DEF ghosts
  <2>2. wkey' = wkey /\ wval' = wval
    BY <1>3 DEF nodes
  <2>3. Good(blocks[reg[c][1]], blocks[reg[c][3]], 0 .. top, ref)'
    BY <1>11, <2>1 DEF Good
  <2>4. Missing(blocks[reg[c][1]], 0 .. top, c)'
    BY <1>1, <1>11, <2>1, <2>2 DEF Missing
  <2>5. reg'[c][1] # reg'[c][3]
    BY <1>0, <1>4
  <2> QED BY <1>1, <1>4, <1>8, <2>1, <2>2, <2>3, <2>4, <2>5 DEF Adds, Adding
<1>13. At(c)'
  BY <1>4, <1>12 DEF At, Scanning, Upgrades, Takes, Upgrading, Taking
<1>14. SerialAt(c)'
  BY <1>1, <1>3, <1>4, <1>11, <1>13 DEF SerialAt, ghosts, Unsettled
<1> QED BY <1>14, AloneStep

LEMMA SPublish ==
  ASSUME Types, NEW c \in Call, Alone(c), Step(c), SerialAt(c), Publish(c)
  PROVE  Serial'
<1>0. /\ pc[c] = "publish" /\ pc[c] \notin {"done", "free_up"}
      /\ top \in Int /\ capacity \in Nat \ {0} /\ pc \in [Call -> Label]
  BY DEF Publish, Types
<1>a. PICK kf, vf : kf = blocks[reg[c][1]] /\ vf = blocks[reg[c][3]]
  OBVIOUS
<1>1. /\ FreedDone /\ top \in -1 .. capacity - 1 /\ top + 1 = capacity /\ wkey[c] = c /\ wval[c] = c
      /\ Good(kf, vf, 0 .. top, ref) /\ Missing(kf, 0 .. top, c)
      /\ reg[c][2] = 2 * capacity /\ reg[c][1] # reg[c][3]
      /\ DOMAIN kf = 0 .. 2 * capacity - 1 /\ DOMAIN vf = 0 .. 2 * capacity - 1
  BY <1>0, <1>a DEF SerialAt, At, Adds, Adding
<1>3. /\ keys' = reg[c][1] /\ capacity' = 2 * capacity /\ values' = reg[c][3]
      /\ Goto(c, "load_top")
      /\ UNCHANGED <<top, blocks, nodes, cmd, i, reply, fault, ghosts>>
  BY <1>1 DEF Publish
<1>4. pc'[c] = "load_top" /\ KeyArr' = kf /\ ValArr' = vf /\ top' = top /\ ref' = ref
  BY <1>0, <1>3, <1>a DEF Goto, KeyArr, ValArr, ghosts
<1>5. /\ Linked' = Linked /\ FreedDone' /\ cmd' = cmd
      /\ Holds(kf, vf, 0 .. top, ref, wkey', wval', freed', cmd', Linked')
  BY <1>0, <1>1, <1>3, <1>4, LinkedSame
<1>6. Good(KeyArr, ValArr, 0 .. top, ref)'
  BY <1>4, <1>5 DEF Good
<1>7. Fits' /\ top' \in -1 .. capacity' - 1 /\ top' + 1 < capacity'
  BY <1>0, <1>1, <1>3, <1>4 DEF Fits
<1>8. Missing(KeyArr, 0 .. top, c)'
  BY <1>1, <1>3, <1>4 DEF Missing, nodes
<1>9. At(c)'
  BY <1>1, <1>3, <1>4, <1>7, <1>8 DEF At, Scanning, Adds, Upgrades, Takes, Adding, Upgrading, Taking, nodes
<1>10. SerialAt(c)'
  BY <1>3, <1>5, <1>6, <1>7, <1>9 DEF SerialAt, ghosts
<1> QED BY <1>10, AloneStep

LEMMA SLoadTop ==
  ASSUME Types, NEW c \in Call, Alone(c), Step(c), SerialAt(c), LoadTop(c)
  PROVE  Serial'
<1>0. pc[c] = "load_top" /\ pc[c] \notin Unsettled \cup {"done"}
      /\ pc \in [Call -> Label] /\ reg \in [Call -> Seq(Call \cup Int)]
  BY DEF LoadTop, Unsettled, Types
<1>1. Missing(KeyArr, 0 .. top, c) /\ wkey[c] = c /\ wval[c] = c /\ top + 1 < capacity
  BY <1>0 DEF SerialAt, At, Adds, Adding
<1>2. /\ pc'[c] = "store_top" /\ reg'[c][1] = top
      /\ UNCHANGED <<map, nodes, cmd, fault, wrong, ref>>
  BY <1>0 DEF LoadTop, Goto, ghosts
<1>3. Missing(KeyArr, 0 .. top, c)'
  BY <1>1, <1>2 DEF Missing, KeyArr, map, nodes
<1>4. At(c)'
  BY <1>1, <1>2, <1>3 DEF At, Scanning, Adds, Upgrades, Takes, Adding, Upgrading, Taking, map, nodes
<1>5. pc'[c] \notin Unsettled \cup {"done"}
  BY <1>2 DEF Unsettled
<1> QED BY <1>0, <1>2, <1>4, <1>5, QuietStep

LEMMA SStoreTop ==
  ASSUME Types, NEW c \in Call, Alone(c), Step(c), SerialAt(c), StoreTop(c)
  PROVE  Serial'
<1>0. /\ pc[c] = "store_top" /\ pc[c] \notin {"done", "free_up"} /\ pc[c] \notin Unsettled
      /\ pc[c] \notin {"grow_values", "publish"}
      /\ top \in Int /\ capacity \in Nat \ {0} /\ pc \in [Call -> Label]
  BY DEF StoreTop, Types, Unsettled
<1>1. /\ FreedDone /\ top \in -1 .. capacity - 1 /\ top + 1 < capacity /\ wkey[c] = c /\ wval[c] = c
      /\ Good(KeyArr, ValArr, 0 .. top, ref) /\ Missing(KeyArr, 0 .. top, c) /\ Fits
      /\ reg[c][1] = top
  BY <1>0 DEF SerialAt, At, Adds, Adding
<1>3. /\ top' = top + 1 /\ Goto(c, "put_key")
      /\ UNCHANGED <<capacity, keys, values, blocks, nodes, cmd, i, reply, fault, ghosts>>
  BY <1>1 DEF StoreTop
<1>4. pc'[c] = "put_key" /\ KeyArr' = KeyArr /\ ValArr' = ValArr /\ ref' = ref
  BY <1>0, <1>3 DEF Goto, KeyArr, ValArr, ghosts
<1>5. /\ Linked' = Linked /\ FreedDone' /\ cmd' = cmd
      /\ Holds(KeyArr, ValArr, 0 .. top, ref, wkey', wval', freed', cmd', Linked')
  BY <1>0, <1>1, <1>3, <1>4, LinkedSame
<1>6. top' >= 0 /\ 0 .. top' - 1 = 0 .. top
  BY <1>0, <1>1, <1>3
<1>7. Good(KeyArr, ValArr, 0 .. top - 1, ref)'
  BY <1>4, <1>5, <1>6 DEF Good
<1>8. Missing(KeyArr, 0 .. top - 1, c)'
  BY <1>1, <1>3, <1>4, <1>6 DEF Missing, nodes
<1>9. Fits' /\ top' \in -1 .. capacity' - 1
  BY <1>0, <1>1, <1>3, <1>4 DEF Fits
<1>10. At(c)'
  BY <1>1, <1>3, <1>4, <1>6, <1>7, <1>8 DEF At, Scanning, Adds, Upgrades, Takes, Adding, Upgrading, Taking, nodes
<1>11. SerialAt(c)'
  BY <1>1, <1>3, <1>4, <1>5, <1>9, <1>10 DEF SerialAt, ghosts, Unsettled
<1> QED BY <1>11, AloneStep

LEMMA PutOne ==
  ASSUME Types, NEW b \in 1 .. Len(blocks), NEW n, NEW x \in Call \cup {NULL},
         blocks' = Put(blocks, b, n, x)
  PROVE  /\ \A a \in 1 .. Len(blocks) : a # b => blocks'[a] = blocks[a]
         /\ DOMAIN blocks'[b] = DOMAIN blocks[b]
         /\ \A m \in DOMAIN blocks[b] : blocks'[b][m] = IF m = n THEN x ELSE blocks[b][m]
<1>1. x \in Cell /\ blocks \in Seq(Block)
  BY DEF Cell, Types
<1> QED BY <1>1, PutSlot

LEMMA SPutKey ==
  ASSUME Types, NEW c \in Call, Alone(c), Step(c), SerialAt(c), PutKey(c)
  PROVE  Serial'
<1>0. /\ pc[c] = "put_key" /\ pc[c] \notin {"done", "free_up"} /\ pc[c] \notin {"grow_values", "publish"}
      /\ top \in Int /\ capacity \in Nat \ {0} /\ pc \in [Call -> Label]
      /\ keys \in 1 .. Len(blocks) /\ values \in 1 .. Len(blocks)
  BY DEF PutKey, Types
<1>1. /\ FreedDone /\ top \in -1 .. capacity - 1 /\ wkey[c] = c /\ wval[c] = c /\ top >= 0
      /\ Good(KeyArr, ValArr, 0 .. top - 1, ref) /\ Missing(KeyArr, 0 .. top - 1, c) /\ Fits
  BY <1>0 DEF SerialAt, At, Adds, Adding
<1>2. top \in DOMAIN blocks[keys]
  BY <1>0, <1>1 DEF Fits, KeyArr
<1>3. /\ blocks' = Put(blocks, keys, top, c) /\ Goto(c, "put_value")
      /\ UNCHANGED <<top, capacity, keys, values, nodes, cmd, i, reg, reply, fault, ghosts>>
  BY <1>2 DEF PutKey, Write, Put
<1>4. PICK kf, vf, kg : kf = KeyArr /\ vf = ValArr /\ kg = KeyArr'
  OBVIOUS
<1>5. /\ ValArr' = vf /\ DOMAIN kg = DOMAIN kf
      /\ \A m \in DOMAIN kf : kg[m] = IF m = top THEN c ELSE kf[m]
  BY <1>0, <1>1, <1>3, <1>4, PutOne DEF Fits, KeyArr, ValArr
<1>6. /\ DOMAIN kf = 0 .. capacity - 1 /\ DOMAIN vf = 0 .. capacity - 1
      /\ \A m \in 0 .. top - 1 : m \in DOMAIN kf /\ m \in DOMAIN vf /\ m # top
  BY <1>0, <1>1, <1>4 DEF Fits
<1>7. Good(kg, vf, 0 .. top - 1, ref)
  BY <1>1, <1>4, <1>5, <1>6, GoodAgree
<1>8. pc'[c] = "put_value" /\ top' = top /\ ref' = ref /\ wkey' = wkey /\ wval' = wval
  BY <1>0, <1>3 DEF Goto, ghosts, nodes
<1>9. /\ Linked' = Linked /\ FreedDone' /\ cmd' = cmd
      /\ Holds(kg, vf, 0 .. top - 1, ref, wkey', wval', freed', cmd', Linked')
  BY <1>0, <1>1, <1>3, <1>7, <1>8, LinkedSame
<1>10. Good(KeyArr, ValArr, 0 .. top - 1, ref)'
  BY <1>4, <1>5, <1>8, <1>9 DEF Good
<1>11. Missing(KeyArr, 0 .. top - 1, c)' /\ KeyArr'[top'] = c
  <2>1. \A n \in 0 .. top - 1 : kg[n] = kf[n]
    BY <1>5, <1>6
  <2>2. kg[top] = c
    BY <1>2, <1>4, <1>5 DEF KeyArr
  <2> QED BY <1>1, <1>4, <1>8, <1>9, <2>1, <2>2 DEF Missing
<1>12. Fits' /\ top' \in -1 .. capacity' - 1
  BY <1>1, <1>3, <1>4, <1>5, <1>6 DEF Fits
<1>13. At(c)'
  BY <1>1, <1>8, <1>10, <1>11 DEF At, Scanning, Adds, Upgrades, Takes, Adding, Upgrading, Taking
<1>14. SerialAt(c)'
  BY <1>3, <1>8, <1>9, <1>12, <1>13, <1>1 DEF SerialAt, ghosts, Unsettled
<1> QED BY <1>14, AloneStep

LEMMA SPutValue ==
  ASSUME Types, NEW c \in Call, Alone(c), Step(c), SerialAt(c), PutValue(c)
  PROVE  Serial'
<1>0. /\ pc[c] = "put_value" /\ pc[c] # "idle" /\ pc[c] \notin {"done", "free_up"}
      /\ pc[c] \notin {"grow_values", "publish"}
      /\ top \in Int /\ capacity \in Nat \ {0} /\ pc \in [Call -> Label]
      /\ keys \in 1 .. Len(blocks) /\ values \in 1 .. Len(blocks)
      /\ cmd[c].kind \in {"SET", "NX"} /\ ref \in [Name -> Call \cup {NULL}]
  BY DEF PutValue, Types, CallOK, Adding
<1>1. /\ FreedDone /\ top \in -1 .. capacity - 1 /\ wkey[c] = c /\ wval[c] = c /\ top >= 0
      /\ Good(KeyArr, ValArr, 0 .. top - 1, ref) /\ Missing(KeyArr, 0 .. top - 1, c) /\ Fits
      /\ KeyArr[top] = c
  BY <1>0 DEF SerialAt, At, Adds, Adding
<1>2. top \in DOMAIN blocks[values]
  BY <1>0, <1>1 DEF Fits, ValArr
<1>3. /\ blocks' = Put(blocks, values, top, c) /\ Finish(c, "OK")
      /\ UNCHANGED <<top, capacity, keys, values, nodes>>
  BY <1>2 DEF PutValue, Write, Put
<1>a. /\ pc'[c] = "done" /\ ref' = After(c) /\ cmd' = cmd
      /\ top' = top /\ wkey' = wkey /\ wval' = wval /\ freed' = freed
  BY <1>0, <1>3 DEF Finish, Goto, nodes
<1>4. PICK kf, vf, vg, D, S : /\ kf = KeyArr /\ vf = ValArr /\ vg = ValArr' /\ D = Linked'
                             /\ S = 0 .. top - 1
  OBVIOUS
<1>5. /\ KeyArr' = kf /\ DOMAIN vg = DOMAIN vf
      /\ \A m \in DOMAIN vf : vg[m] = IF m = top THEN c ELSE vf[m]
  BY <1>0, <1>1, <1>3, <1>4, PutOne DEF Fits, KeyArr, ValArr
<1>6. /\ DOMAIN kf = 0 .. capacity - 1 /\ DOMAIN vf = 0 .. capacity - 1
      /\ \A m \in S : m \in DOMAIN kf /\ m \in DOMAIN vf /\ m # top
      /\ top \notin S /\ S \cup {top} = 0 .. top /\ top \in DOMAIN kf /\ top \in DOMAIN vf
  BY <1>0, <1>1, <1>4 DEF Fits
<1>7. Good(kf, vg, S, ref)
  <2>1. Good(kf, vf, S, ref)
    BY <1>1, <1>4
  <2>2. \A m \in S : m \in DOMAIN kf /\ kf[m] = kf[m] /\ m \in DOMAIN vg /\ vg[m] = vf[m]
    BY <1>5, <1>6
  <2> QED BY <2>1, <2>2, GoodAgree
<1>8. Linked \subseteq D /\ c \in D /\ c \notin Linked /\ D \subseteq Linked \cup {c}
  <2>1. \A e \in Call \ {c} : pc'[e] = pc[e]
    BY StepFrame
  <2> QED BY <1>0, <1>a, <1>4, <2>1 DEF Linked
<1>9. Holds(kf, vg, S, ref, wkey, wval, freed, cmd, D)
  BY <1>3, <1>4, <1>7, <1>8, <1>a, GoodMore
<1>10. cmd[c].name \in Name /\ \A x \in D : cmd[x].name \in Name
  <2>1. \A x \in D : x \in Call /\ pc[x] # "idle"
    BY <1>0, <1>8 DEF Linked
  <2> QED BY <1>0, <2>1, CommandName
<1>11. ref[cmd[c].name] = NULL
  BY <1>1, <1>10, MissingRef
<1>12. Puts(c) /\ Answer(c) = "OK" /\ After(c) = With(c, c)
  BY <1>0, <1>11 DEF Puts, Answer, After, With, Sets
<1>13. PICK dd : dd = With(c, c)
  OBVIOUS
<1>14. dd[cmd[c].name] = c /\ \A nm \in Name : nm # cmd[c].name => dd[nm] = ref[nm]
  BY <1>0, <1>10, <1>13 DEF With, Sets
<1>15. \A m \in S : cmd[wkey[kf[m]]].name # cmd[c].name /\ kf[m] # kf[top]
  <2>1. \A m \in S : kf[m] \in Linked
    BY <1>7 DEF Good, Holds
  <2> QED BY <1>1, <1>4, <1>8, <2>1 DEF Missing
<1>16. Holds(kf, vg, 0 .. top, dd, wkey, wval, freed, cmd, D)
  <2>1. /\ vg[top] = kf[top] /\ kf[top] = c /\ top \in DOMAIN vg
        /\ <<"key", c>> \notin freed /\ <<"value", c>> \notin freed
    BY <1>0, <1>1, <1>4, <1>5, <1>6 DEF FreedDone
  <2>2. wkey[kf[top]] = c /\ wval[kf[top]] = c
    BY <1>1, <2>1
  <2>3. PICK T : T = S \cup {top}
    OBVIOUS
  <2>4. Holds(kf, vg, T, dd, wkey, wval, freed, cmd, D)
    <3>1. ref \in [Name -> Call \cup {NULL}]
      BY <1>0
    <3>2. top \notin S /\ top \in DOMAIN kf /\ top \in DOMAIN vg /\ vg[top] = kf[top] /\ kf[top] \in D
      BY <1>6, <1>8, <2>1
    <3>3. c \in D /\ <<"key", c>> \notin freed /\ <<"value", c>> \notin freed
      BY <1>8, <2>1
    <3>4. \A m \in T : /\ m \in DOMAIN kf /\ m \in DOMAIN vg
                      /\ kf[m] \in D /\ vg[m] = kf[m]
                      /\ wkey[kf[m]] \in D /\ wval[kf[m]] = wkey[kf[m]]
                      /\ <<"key", wkey[kf[m]]>> \notin freed /\ <<"value", wkey[kf[m]]>> \notin freed
                      /\ dd[cmd[wkey[kf[m]]].name] = wkey[kf[m]]
      BY <1>9, <1>10, <1>14, <1>15, <2>2, <2>3, <3>1, <3>2, <3>3 DEF Holds
    <3>5. \A l, m \in T : kf[l] = kf[m] \/ wkey[kf[l]] = wkey[kf[m]] => l = m
      BY <1>9, <1>15, <2>2, <2>3, <3>2 DEF Holds
    <3>6. \A nm \in Name : dd[nm] # NULL => \E m \in T : cmd[wkey[kf[m]]].name = nm
      BY <1>9, <1>14, <2>2, <2>3, <3>2 DEF Holds
    <3> QED BY <3>4, <3>5, <3>6 DEF Holds
  <2> QED BY <1>6, <2>3, <2>4
<1>17. Good(KeyArr, ValArr, 0 .. top, ref)'
  BY <1>a, <1>4, <1>5, <1>12, <1>13, <1>16 DEF Good
<1>18. Fits' /\ top' \in -1 .. capacity' - 1
  BY <1>1, <1>3, <1>4, <1>5, <1>6 DEF Fits
<1>19. FreedDone'
  <2>1. \A e \in Call \ {c} : pc'[e] = pc[e]
    BY StepFrame
  <2> QED BY <1>1, <1>a, <2>1 DEF FreedDone
<1> QED BY <1>3, <1>12, <1>17, <1>18, <1>19, FinishStep

-----------------------------------------------------------------------------
(* An entry replaced.                                                      *)

LEMMA SUpRead ==
  ASSUME Types, NEW c \in Call, Alone(c), Step(c), SerialAt(c), UpRead(c)
  PROVE  Serial'
<1>0. /\ pc[c] = "up_read" /\ pc[c] \notin Unsettled \cup {"done"} /\ pc[c] \in Upgrading
      /\ pc \in [Call -> Label] /\ reg \in [Call -> Seq(Call \cup Int)] /\ top \in Int
  BY DEF UpRead, Unsettled, Upgrading, Types
<1>1. /\ Good(KeyArr, ValArr, 0 .. top, ref) /\ cmd[c].kind = "SET"
      /\ i[c] \in 0 .. top /\ cmd[wkey[KeyArr[i[c]]]].name = cmd[c].name
  BY <1>0 DEF SerialAt, At, Scanning, Upgrades
<1>2. PICK n, k : n = i[c] /\ k = KeyArr[n]
  OBVIOUS
<1>3. /\ Slot(keys, n) = k /\ Slot(values, n) = k /\ wval[k] = wkey[k]
      /\ IsWrapper(Slot(keys, n)) /\ IsWrapper(Slot(values, n))
  BY <1>1, <1>2, TopSlot
<1>4. /\ reg' = [reg EXCEPT ![c] = <<wkey[k], wval[k]>>] /\ Goto(c, "up_value")
      /\ UNCHANGED <<map, nodes, cmd, i, reply, fault, ghosts>>
  BY <1>0, <1>1, <1>2, <1>3 DEF UpRead
<1>5. /\ pc'[c] = "up_value" /\ reg'[c][1] = wkey[k] /\ reg'[c][2] = wkey[k]
      /\ KeyArr' = KeyArr /\ i' = i /\ top' = top /\ cmd' = cmd /\ wkey' = wkey
      /\ UNCHANGED <<map, nodes, fault, wrong, ref>>
  BY <1>0, <1>3, <1>4 DEF Goto, KeyArr, map, nodes, ghosts
<1>6. At(c)'
  BY <1>1, <1>2, <1>5 DEF At, Scanning, Adds, Upgrades, Takes, Adding, Upgrading, Taking
<1>7. pc'[c] \notin Unsettled \cup {"done"}
  BY <1>5 DEF Unsettled
<1> QED BY <1>0, <1>5, <1>6, <1>7, QuietStep

LEMMA SUpValue ==
  ASSUME Types, NEW c \in Call, Alone(c), Step(c), SerialAt(c), UpValue(c)
  PROVE  Serial'
<1>0. /\ pc[c] = "up_value" /\ pc[c] \notin Unsettled /\ pc[c] \in Upgrading
      /\ pc[c] \notin {"grow_values", "publish"} /\ pc[c] \notin {"done", "free_up"}
      /\ pc \in [Call -> Label] /\ wval \in [Call -> Call \cup {NULL}]
  BY DEF UpValue, Unsettled, Upgrading, Types
<1>1. /\ Good(KeyArr, ValArr, 0 .. top, ref) /\ cmd[c].kind = "SET"
      /\ FreedDone /\ Fits /\ top \in -1 .. capacity - 1
      /\ i[c] \in 0 .. top /\ cmd[wkey[KeyArr[i[c]]]].name = cmd[c].name
      /\ reg[c][1] = wkey[KeyArr[i[c]]] /\ reg[c][2] = reg[c][1]
  BY <1>0 DEF SerialAt, At, Scanning, Upgrades
<1>2. PICK n, kf, vf, S, dd : /\ n = i[c] /\ kf = KeyArr /\ vf = ValArr /\ S = (0 .. top) \ {n}
                              /\ dd = With(c, NULL)
  OBVIOUS
<1>3. /\ Slot(values, n) = kf[n] /\ IsWrapper(Slot(values, n)) /\ vf[n] = kf[n]
      /\ kf[n] \in Call /\ kf[n] \in Linked /\ wkey[kf[n]] \in Linked
      /\ <<"key", wkey[kf[n]]>> \notin freed /\ <<"value", wkey[kf[n]]>> \notin freed
  BY <1>1, <1>2, TopSlot
<1>4. /\ wval' = [wval EXCEPT ![kf[n]] = c] /\ Goto(c, "up_key")
      /\ UNCHANGED <<map, wkey, freed, cmd, i, reg, reply, fault, ghosts>>
  BY <1>2, <1>3 DEF UpValue
<1>5. /\ pc'[c] = "up_key" /\ KeyArr' = kf /\ ValArr' = vf /\ i' = i /\ top' = top
      /\ capacity' = capacity /\ ref' = ref /\ cmd' = cmd /\ wkey' = wkey /\ freed' = freed /\ reg' = reg
      /\ fault' = fault /\ wrong' = wrong /\ keys' = keys /\ values' = values
  BY <1>0, <1>2, <1>4 DEF Goto, KeyArr, ValArr, map, ghosts
<1>6. /\ Good(kf, vf, S, dd)
      /\ \A m \in S : wkey[kf[m]] # wkey[kf[n]] /\ kf[m] # kf[n]
  BY <1>1, <1>2, GoodDrop
<1>7. Linked' = Linked /\ FreedDone'
  <2>1. \A e \in Call \ {c} : pc'[e] = pc[e]
    BY StepFrame
  <2> QED BY <1>0, <1>1, <1>5, <2>1 DEF Linked, FreedDone
<1>8. Holds(kf, vf, S, dd, wkey', wval', freed', cmd', Linked')
  <2>1. PICK ww, D : ww = wval' /\ D = Linked
    OBVIOUS
  <2>2. Holds(kf, vf, S, dd, wkey, wval, freed, cmd, D)
    BY <1>6, <2>1 DEF Good
  <2>3. \A m \in S : kf[m] \in Call
    BY <2>1, <2>2 DEF Holds, Linked
  <2>4. \A m \in S : ww[kf[m]] = wval[kf[m]]
    BY <1>0, <1>4, <1>6, <2>1, <2>3
  <2>5. Holds(kf, vf, S, dd, wkey, ww, freed, cmd, D)
    BY <2>2, <2>4 DEF Holds
  <2> QED BY <1>5, <1>7, <2>1, <2>5
<1>9. wval'[kf[n]] = c
  BY <1>0, <1>3, <1>4
<1>10. With(c, NULL)' = dd
  BY <1>2, <1>5 DEF With, Sets
<1>11. PICK e : e = reg[c][1]
  OBVIOUS
<1>12. pc'[e] = "done" /\ e = wkey[kf[n]]
  <2>1. e = wkey[kf[n]] /\ e \in Linked
    BY <1>1, <1>2, <1>3, <1>11
  <2>2. e \in Call /\ e # c /\ pc[e] = "done"
    BY <1>0, <2>1 DEF Linked, Alone
  <2> QED BY <2>1, <2>2, StepFrame
<1>13. Loose(KeyArr, (0 .. top) \ {i[c]}, reg[c][1])'
  BY <1>2, <1>3, <1>5, <1>6, <1>11, <1>12 DEF Loose
<1>14. Good(KeyArr, ValArr, (0 .. top) \ {i[c]}, With(c, NULL))'
  BY <1>2, <1>5, <1>8, <1>10 DEF Good
<1>15. Upgrades(c)'
  BY <1>1, <1>2, <1>3, <1>5, <1>6, <1>7, <1>9, <1>13, <1>14 DEF Upgrades, Upgrading
<1>16. At(c)'
  BY <1>5, <1>15 DEF At, Scanning, Adds, Takes, Adding, Taking
<1>17. Fits' /\ top' \in -1 .. capacity' - 1
  BY <1>1, <1>2, <1>5 DEF Fits
<1>18. SerialAt(c)'
  BY <1>5, <1>7, <1>16, <1>17 DEF SerialAt, Unsettled
<1> QED BY <1>18, AloneStep

LEMMA SUpKey ==
  ASSUME Types, NEW c \in Call, Alone(c), Step(c), SerialAt(c), UpKey(c)
  PROVE  Serial'
<1>0. /\ pc[c] = "up_key" /\ pc[c] \in Upgrading /\ pc[c] # "idle" /\ pc[c] # "done"
      /\ pc[c] \notin {"grow_values", "publish"} /\ pc[c] \notin {"done", "free_up"}
      /\ pc \in [Call -> Label] /\ wkey \in [Call -> Call \cup {NULL}]
      /\ ref \in [Name -> Call \cup {NULL}]
  BY DEF UpKey, Upgrading, Types
<1>1. /\ FreedDone /\ Fits /\ top \in -1 .. capacity - 1
      /\ cmd[c].kind = "SET" /\ reg[c][2] = reg[c][1] /\ i[c] \in 0 .. top
      /\ Good(KeyArr, ValArr, (0 .. top) \ {i[c]}, With(c, NULL))
      /\ Loose(KeyArr, (0 .. top) \ {i[c]}, reg[c][1])
      /\ KeyArr[i[c]] \in Linked /\ ValArr[i[c]] = KeyArr[i[c]]
      /\ wval[KeyArr[i[c]]] = c
      /\ \A n \in (0 .. top) \ {i[c]} : KeyArr[n] # KeyArr[i[c]]
  BY <1>0 DEF SerialAt, At, Upgrades
<1>2. PICK n, kf, vf, S, T, k, d, dd :
        /\ n = i[c] /\ kf = KeyArr /\ vf = ValArr /\ T = 0 .. top /\ S = T \ {n} /\ k = kf[n]
        /\ d = With(c, NULL) /\ dd = With(c, c)
  OBVIOUS
<1>3. n \in DOMAIN kf /\ n \in DOMAIN vf /\ n \in T /\ T = S \cup {n} /\ n \notin S
  <2>1. i[c] \in 0 .. capacity - 1
    BY <1>1 DEF Types
  <2> QED BY <1>1, <1>2, <2>1 DEF Fits
<1>4. k \in Call /\ Slot(keys, n) = k
  BY <1>1, <1>2, <1>3 DEF Linked, Slot, KeyArr
<1>5. /\ wkey' = [wkey EXCEPT ![k] = c] /\ Goto(c, "free_up")
      /\ UNCHANGED <<map, wval, freed, cmd, i, reg, reply, fault, ghosts>>
  BY <1>2, <1>4 DEF UpKey, IsWrapper
<1>6. /\ pc'[c] = "free_up" /\ KeyArr' = kf /\ ValArr' = vf /\ top' = top
      /\ capacity' = capacity /\ ref' = ref /\ cmd' = cmd /\ wval' = wval /\ freed' = freed /\ reg' = reg
      /\ fault' = fault /\ wrong' = wrong /\ keys' = keys /\ values' = values
  BY <1>0, <1>2, <1>5 DEF Goto, KeyArr, ValArr, map, ghosts
<1>7. \A e \in Call \ {c} : pc'[e] = pc[e]
  BY StepFrame
<1>8. PICK D, wl : D = Linked' /\ wl = wkey'
  OBVIOUS
<1>9. Linked \subseteq D /\ c \in D /\ c \notin Linked
  BY <1>0, <1>6, <1>7, <1>8 DEF Linked
<1>10. cmd[c].name \in Name
  BY <1>0, CommandName
<1>11. /\ dd[cmd[c].name] = c /\ d[cmd[c].name] = NULL
       /\ \A nm \in Name : nm # cmd[c].name => dd[nm] = d[nm]
  BY <1>0, <1>2, <1>10 DEF With, Sets
<1>12. Holds(kf, vf, S, d, wkey, wval, freed, cmd, Linked)
  BY <1>1, <1>2 DEF Good
<1>13. wl[k] = c /\ \A m \in S : /\ wl[kf[m]] = wkey[kf[m]] /\ wkey[kf[m]] \in Linked
                                /\ kf[m] # k /\ wkey[kf[m]] # c
                                /\ cmd[wkey[kf[m]]].name # cmd[c].name
                                /\ cmd[wkey[kf[m]]].name \in Name
  <2>1. \A m \in S : /\ kf[m] \in Linked /\ wkey[kf[m]] \in Linked
                     /\ d[cmd[wkey[kf[m]]].name] = wkey[kf[m]]
    BY <1>12 DEF Holds
  <2>2. \A e \in Linked : e \in Call /\ e # NULL /\ e # c /\ pc[e] # "idle"
    BY <1>0, CallAssumption DEF Linked
  <2>3. \A m \in S : kf[m] # k
    BY <1>1, <1>2
  <2>4. \A e \in Linked : cmd[e].name \in Name
    BY <2>2, CommandName
  <2>5. wl[k] = c /\ \A e \in Call : e # k => wl[e] = wkey[e]
    BY <1>0, <1>4, <1>5, <1>8
  <2> QED BY <1>11, <2>1, <2>2, <2>3, <2>4, <2>5
<1>14. Holds(kf, vf, T, dd, wl, wval, freed, cmd, D)
  <2>1. /\ k \in D /\ vf[n] = k /\ wval[k] = c
        /\ <<"key", c>> \notin freed /\ <<"value", c>> \notin freed
    BY <1>0, <1>1, <1>2, <1>9 DEF FreedDone
  <2>2. \A m \in T : /\ m \in DOMAIN kf /\ m \in DOMAIN vf
                     /\ kf[m] \in D /\ vf[m] = kf[m]
                     /\ wl[kf[m]] \in D /\ wval[kf[m]] = wl[kf[m]]
                     /\ <<"key", wl[kf[m]]>> \notin freed /\ <<"value", wl[kf[m]]>> \notin freed
                     /\ dd[cmd[wl[kf[m]]].name] = wl[kf[m]]
    <3> SUFFICES ASSUME NEW m \in T
                 PROVE  /\ m \in DOMAIN kf /\ m \in DOMAIN vf
                        /\ kf[m] \in D /\ vf[m] = kf[m]
                        /\ wl[kf[m]] \in D /\ wval[kf[m]] = wl[kf[m]]
                        /\ <<"key", wl[kf[m]]>> \notin freed /\ <<"value", wl[kf[m]]>> \notin freed
                        /\ dd[cmd[wl[kf[m]]].name] = wl[kf[m]]
      OBVIOUS
    <3>1. CASE m = n
      BY <1>2, <1>3, <1>9, <1>11, <1>13, <2>1, <3>1
    <3>2. CASE m \in S
      BY <1>9, <1>11, <1>12, <1>13, <3>2 DEF Holds
    <3> QED BY <1>3, <3>1, <3>2
  <2>3. \A l, m \in T : kf[l] = kf[m] \/ wl[kf[l]] = wl[kf[m]] => l = m
    BY <1>2, <1>3, <1>12, <1>13 DEF Holds
  <2>4. \A nm \in Name : dd[nm] # NULL => \E m \in T : cmd[wl[kf[m]]].name = nm
    <3> SUFFICES ASSUME NEW nm \in Name, dd[nm] # NULL PROVE \E m \in T : cmd[wl[kf[m]]].name = nm
      OBVIOUS
    <3>1. CASE nm = cmd[c].name
      BY <1>2, <1>3, <1>13, <3>1
    <3>2. CASE nm # cmd[c].name
      BY <1>3, <1>11, <1>12, <1>13, <3>2 DEF Holds
    <3> QED BY <3>1, <3>2
  <2> QED BY <2>2, <2>3, <2>4 DEF Holds
<1>15. With(c, c)' = dd
  BY <1>2, <1>6 DEF With, Sets
<1>16. Good(KeyArr, ValArr, 0 .. top, With(c, c))'
  BY <1>2, <1>6, <1>8, <1>14, <1>15 DEF Good
<1>17. Loose(KeyArr, 0 .. top, reg[c][1])'
  <2>1. PICK e : e = reg[c][1]
    OBVIOUS
  <2>2. /\ pc[e] = "done" /\ <<"key", e>> \notin freed /\ <<"value", e>> \notin freed
        /\ e # c /\ e \in Call /\ \A m \in S : wkey[kf[m]] # e
    <3>1. e \in Call
      BY <1>0, <2>1 DEF Types, CallOK
    <3> QED BY <1>0, <1>1, <1>2, <2>1, <3>1 DEF Loose
  <2>3. pc'[e] = "done" /\ \A m \in T : wl[kf[m]] # e
    BY <1>2, <1>3, <1>7, <1>13, <2>2
  <2> QED BY <1>2, <1>6, <1>8, <2>1, <2>2, <2>3 DEF Loose
<1>18. At(c)'
  BY <1>1, <1>6, <1>16, <1>17 DEF At, Scanning, Adds, Upgrades, Takes, Adding, Upgrading, Taking
<1>19. Fits' /\ top' \in -1 .. capacity' - 1 /\ FreedDone'
  BY <1>0, <1>1, <1>2, <1>6, <1>7 DEF Fits, FreedDone
<1>20. SerialAt(c)'
  BY <1>6, <1>18, <1>19 DEF SerialAt, Unsettled
<1> QED BY <1>20, AloneStep

LEMMA SFreeUp ==
  ASSUME Types, NEW c \in Call, Alone(c), Step(c), SerialAt(c), FreeUp(c)
  PROVE  Serial'
<1>0. /\ pc[c] = "free_up" /\ pc[c] \in Upgrading /\ pc[c] \notin {"done", "grow_values", "publish"}
      /\ reg[c][1] \in Call
  BY DEF FreeUp, Upgrading, Types, CallOK
<1>1. /\ cmd[c].kind = "SET" /\ reg[c][2] = reg[c][1]
      /\ Good(KeyArr, ValArr, 0 .. top, With(c, c)) /\ Loose(KeyArr, 0 .. top, reg[c][1])
  BY <1>0 DEF SerialAt, At, Upgrades
<1>2. PICK x, d : x \in Call /\ x = reg[c][1] /\ d = With(c, c)
  BY <1>0
<1>3. FreeAndFinish(c, x, x, "OK")
  BY <1>1, <1>2 DEF FreeUp
<1>4. Answer(c) = "OK" /\ After(c) = d
  BY <1>1, <1>2 DEF Answer, After, Puts, With, Sets
<1>5. /\ <<"key", x>> \notin freed /\ <<"value", x>> \notin freed /\ pc[x] = "done"
      /\ \A n \in 0 .. top : wkey[KeyArr[n]] # x
  BY <1>1, <1>2 DEF Loose
<1>6. Good(KeyArr, ValArr, 0 .. top, d)
  BY <1>1, <1>2
<1>7. x \in Call
  BY <1>2
<1> QED BY <1>0, <1>3, <1>4, <1>5, <1>6, <1>7, FreeStep

-----------------------------------------------------------------------------
(* An entry removed.                                                       *)

WritesBoth(n, x, y) == blocks' = PutBoth(n, x, y) /\ UNCHANGED <<keys, values>>
BothWritten(n, x, y) ==
  /\ DOMAIN KeyArr' = DOMAIN KeyArr /\ DOMAIN ValArr' = DOMAIN ValArr
  /\ \A m \in DOMAIN KeyArr : KeyArr'[m] = IF m = n THEN x ELSE KeyArr[m]
  /\ \A m \in DOMAIN ValArr : ValArr'[m] = IF m = n THEN y ELSE ValArr[m]

LEMMA PutTwo ==
  ASSUME Types, keys # values, NEW n, NEW x \in Call \cup {NULL}, NEW y \in Call \cup {NULL},
         WritesBoth(n, x, y)
  PROVE  BothWritten(n, x, y)
<1>1. /\ x \in Cell /\ y \in Cell /\ blocks \in Seq(Block)
      /\ keys \in 1 .. Len(blocks) /\ values \in 1 .. Len(blocks)
  BY DEF Cell, Types
<1>2. PICK bs : bs = Put(blocks, keys, n, x)
  OBVIOUS
<1>3. /\ bs \in Seq(Block) /\ Len(bs) = Len(blocks) /\ bs[values] = blocks[values]
      /\ DOMAIN bs[keys] = DOMAIN blocks[keys]
      /\ \A m \in DOMAIN blocks[keys] : bs[keys][m] = IF m = n THEN x ELSE blocks[keys][m]
  BY <1>1, <1>2, PutSlot
<1>4. PICK bt : bt = Put(bs, values, n, y)
  OBVIOUS
<1>5. /\ bt[keys] = bs[keys] /\ DOMAIN bt[values] = DOMAIN bs[values]
      /\ \A m \in DOMAIN bs[values] : bt[values][m] = IF m = n THEN y ELSE bs[values][m]
  BY <1>1, <1>3, <1>4, PutSlot
<1>6. blocks' = bt /\ KeyArr' = bt[keys] /\ ValArr' = bt[values]
  BY <1>2, <1>4 DEF WritesBoth, PutBoth, KeyArr, ValArr
<1> QED BY <1>3, <1>5, <1>6 DEF BothWritten, KeyArr, ValArr

LEMMA SShift ==
  ASSUME Types, NEW c \in Call, Alone(c), Step(c), SerialAt(c), Shift(c)
  PROVE  Serial'
<1>0. /\ pc[c] = "shift" /\ pc[c] \in Taking \ {"find_rm"}
      /\ pc[c] \notin {"grow_values", "publish"} /\ pc[c] \notin {"done", "free_up"}
      /\ pc \in [Call -> Label] /\ i \in [Call -> Nat] /\ top \in Int /\ capacity \in Nat
  BY DEF Shift, Taking, Types
<1>1. /\ FreedDone /\ Fits /\ top \in -1 .. capacity - 1
      /\ reg[c][2] = reg[c][1] /\ i[c] \in 0 .. top
      /\ Good(KeyArr, ValArr, (0 .. top) \ {i[c]}, With(c, NULL))
      /\ Loose(KeyArr, (0 .. top) \ {i[c]}, reg[c][1])
      /\ ~ fault /\ ~ wrong
  BY <1>0 DEF SerialAt, At, Takes
<1>2. PICK n, kf, vf, d, e : /\ n = i[c] /\ kf = KeyArr /\ vf = ValArr
                             /\ d = With(c, NULL) /\ e = reg[c][1]
  OBVIOUS
<1>3. /\ n \in 0 .. top /\ n \in Int /\ Good(kf, vf, (0 .. top) \ {n}, d)
      /\ Loose(kf, (0 .. top) \ {n}, e)
  BY <1>0, <1>1, <1>2
<1>4. CASE n = top
  <2>1. Jump(c, "clear", n)
    BY <1>2, <1>4 DEF Shift
  <2>2. /\ pc'[c] = "clear" /\ i'[c] = n /\ top' = top /\ KeyArr' = kf /\ ValArr' = vf
        /\ capacity' = capacity /\ keys' = keys /\ values' = values
        /\ UNCHANGED <<nodes, wkey, freed, cmd, reg, fault, wrong, ref>>
    BY <1>0, <1>2, <2>1 DEF Jump, Goto, KeyArr, ValArr, map, nodes, ghosts
  <2>3. /\ Linked' = Linked /\ FreedDone'
        /\ Holds(kf, vf, (0 .. top) \ {n}, d, wkey', wval', freed', cmd', Linked')
    BY <1>0, <1>1, <1>3, <2>2, LinkedSame
  <2>4. With(c, NULL)' = d
    BY <1>2, <2>2 DEF With, Sets
  <2>5. Good(KeyArr, ValArr, (0 .. top) \ {i[c]}, With(c, NULL))'
    BY <2>2, <2>3, <2>4 DEF Good
  <2>6. Loose(KeyArr, (0 .. top) \ {i[c]}, reg[c][1])'
    <3>1. e \in Call /\ e # c
      BY <1>0, <1>2, <1>3 DEF Types, CallOK, Loose
    <3>2. pc'[e] = pc[e]
      BY <3>1, StepFrame
    <3> QED BY <1>2, <1>3, <2>2, <3>2 DEF Loose
  <2>7. At(c)'
    BY <1>1, <1>3, <1>4, <2>2, <2>5, <2>6 DEF At, Scanning, Adds, Upgrades, Takes, Adding, Upgrading, Taking
  <2>8. Fits' /\ top' \in -1 .. capacity' - 1
    BY <1>1, <1>2, <2>2 DEF Fits
  <2>9. SerialAt(c)'
    BY <1>1, <2>2, <2>3, <2>7, <2>8 DEF SerialAt, Unsettled
  <2> QED BY <2>9, AloneStep
<1>5. CASE n # top
  <2>1. n + 1 \in (0 .. top) \ {n} /\ n \in 0 .. capacity - 1
    BY <1>0, <1>1, <1>3, <1>5
  <2>2. PICK x, y : x = kf[n + 1] /\ y = vf[n + 1]
    OBVIOUS
  <2>3. n + 1 \in DOMAIN kf /\ n + 1 \in DOMAIN vf /\ x \in Call /\ y \in Call
    BY <1>3, <2>1, <2>2 DEF Good, Holds, Linked
  <2>4. /\ blocks' = PutBoth(n, x, y) /\ i' = [i EXCEPT ![c] = n + 1]
        /\ UNCHANGED <<top, capacity, keys, values, nodes, cmd, pc, reg, reply, fault, ghosts>>
    BY <1>2, <1>5, <2>2, <2>3 DEF Shift, PutBoth, Put, KeyArr, ValArr
  <2>5. PICK kg, vg : kg = KeyArr' /\ vg = ValArr'
    OBVIOUS
  <2>6. /\ DOMAIN kg = DOMAIN kf /\ DOMAIN vg = DOMAIN vf
        /\ \A m \in DOMAIN kf : kg[m] = IF m = n THEN kf[n + 1] ELSE kf[m]
        /\ \A m \in DOMAIN vf : vg[m] = IF m = n THEN vf[n + 1] ELSE vf[m]
    <3>1. keys # values
      BY <1>1 DEF Fits
    <3>3. x \in Call \cup {NULL}
      BY <2>3
    <3>4. y \in Call \cup {NULL}
      BY <2>3
    <3>2. BothWritten(n, x, y)
      <4>1. WritesBoth(n, x, y)
        BY <2>4 DEF WritesBoth
      <4> QED BY <3>1, <3>3, <3>4, <4>1, PutTwo
    <3> QED BY <1>2, <2>2, <2>5, <3>2 DEF BothWritten
  <2>7. n \in DOMAIN kf /\ n \in DOMAIN vf
    BY <1>1, <1>2, <2>1 DEF Fits
  <2>8. Good(kg, vg, (0 .. top) \ {n + 1}, d) /\ n + 1 \in 0 .. top
    <3>1. Holds(kf, vf, (0 .. top) \ {n}, d, wkey, wval, freed, cmd, Linked)
      BY <1>3 DEF Good
    <3>2. Holds(kg, vg, (0 .. top) \ {n + 1}, d, wkey, wval, freed, cmd, Linked)
      BY <1>0, <1>3, <1>5, <2>6, <2>7, <3>1, HoldsMove
    <3> QED BY <2>1, <3>2 DEF Good
  <2>9. /\ pc'[c] = "shift" /\ i'[c] = n + 1 /\ top' = top /\ pc' = pc
        /\ capacity' = capacity /\ keys' = keys /\ values' = values
        /\ UNCHANGED <<nodes, wkey, freed, cmd, reg, fault, wrong, ref>>
    BY <1>0, <2>4 DEF nodes, ghosts
  <2>10. /\ Linked' = Linked /\ FreedDone'
         /\ Holds(kg, vg, (0 .. top) \ {n + 1}, d, wkey', wval', freed', cmd', Linked')
    BY <1>0, <1>1, <2>8, <2>9, LinkedSame
  <2>11. With(c, NULL)' = d
    BY <1>2, <2>9 DEF With, Sets
  <2>12. Good(KeyArr, ValArr, (0 .. top) \ {i[c]}, With(c, NULL))'
    BY <2>5, <2>9, <2>10, <2>11 DEF Good
  <2>13. Loose(KeyArr, (0 .. top) \ {i[c]}, reg[c][1])'
    <3>1. \A m \in (0 .. top) \ {n} : m \in DOMAIN kf /\ wkey[kf[m]] # e
      BY <1>3 DEF Loose, Good, Holds
    <3>2. \A m \in (0 .. top) \ {n + 1} : wkey[kg[m]] # e
      <4> SUFFICES ASSUME NEW m \in (0 .. top) \ {n + 1} PROVE wkey[kg[m]] # e
        OBVIOUS
      <4>1. CASE m = n
        BY <2>1, <2>6, <2>7, <3>1, <4>1
      <4>2. CASE m # n
        BY <2>6, <3>1, <4>2
      <4> QED BY <4>1, <4>2
    <3> QED BY <1>2, <1>3, <2>5, <2>9, <3>2 DEF Loose
  <2>14. At(c)'
    BY <1>1, <2>8, <2>9, <2>12, <2>13 DEF At, Scanning, Adds, Upgrades, Takes, Adding, Upgrading, Taking
  <2>15. Fits' /\ top' \in -1 .. capacity' - 1
    BY <1>1, <1>2, <2>5, <2>6, <2>9 DEF Fits
  <2>16. SerialAt(c)'
    BY <1>1, <2>9, <2>10, <2>14, <2>15 DEF SerialAt, Unsettled
  <2> QED BY <2>16, AloneStep
<1> QED BY <1>4, <1>5

LEMMA SClear ==
  ASSUME Types, NEW c \in Call, Alone(c), Step(c), SerialAt(c), Clear(c)
  PROVE  Serial'
<1>0. /\ pc[c] = "clear" /\ pc[c] \in Taking \ {"find_rm"}
      /\ pc[c] \notin {"grow_values", "publish"} /\ pc[c] \notin {"done", "free_up"}
      /\ pc \in [Call -> Label] /\ reg \in [Call -> Seq(Call \cup Int)]
      /\ top \in Int /\ capacity \in Nat
      /\ Len(reg[c]) = 2 /\ reg[c] \in Seq(Call \cup Int) /\ reg[c][1] \in Call
  BY DEF Clear, Taking, Types, CallOK
<1>1. /\ FreedDone /\ Fits /\ top \in -1 .. capacity - 1
      /\ reg[c][2] = reg[c][1] /\ i[c] = top /\ i[c] \in 0 .. top
      /\ Good(KeyArr, ValArr, (0 .. top) \ {i[c]}, With(c, NULL))
      /\ Loose(KeyArr, (0 .. top) \ {i[c]}, reg[c][1])
      /\ ~ fault /\ ~ wrong
  BY <1>0 DEF SerialAt, At, Takes
<1>2. PICK kf, vf, d, e, S : /\ kf = KeyArr /\ vf = ValArr /\ d = With(c, NULL)
                             /\ e = reg[c][1] /\ S = 0 .. top - 1
  OBVIOUS
<1>3. /\ (0 .. top) \ {i[c]} = S /\ top \in 0 .. capacity - 1 /\ top >= 0
      /\ \A m \in S : m # top /\ m \in 0 .. capacity - 1
  BY <1>0, <1>1, <1>2
<1>4. Good(kf, vf, S, d) /\ Loose(kf, S, e)
  BY <1>1, <1>2, <1>3
<1>5. /\ blocks' = PutBoth(top, NULL, NULL) /\ reg' = [reg EXCEPT ![c] = Append(@, top)]
      /\ Goto(c, "drop_top")
      /\ UNCHANGED <<top, capacity, keys, values, nodes, cmd, i, reply, fault, ghosts>>
  BY <1>1, <1>3 DEF Clear, PutBoth, Put, Fits, KeyArr, ValArr
<1>6. PICK kg, vg : kg = KeyArr' /\ vg = ValArr'
  OBVIOUS
<1>7. /\ DOMAIN kg = DOMAIN kf /\ DOMAIN vg = DOMAIN vf
      /\ \A m \in DOMAIN kf : kg[m] = IF m = top THEN NULL ELSE kf[m]
      /\ \A m \in DOMAIN vf : vg[m] = IF m = top THEN NULL ELSE vf[m]
  <2>1. keys # values /\ NULL \in Call \cup {NULL}
    BY <1>1 DEF Fits
  <2>2. BothWritten(top, NULL, NULL)
    <3>1. WritesBoth(top, NULL, NULL)
      BY <1>5 DEF WritesBoth
    <3> QED BY <2>1, <3>1, PutTwo
  <2> QED BY <1>2, <1>6, <2>2 DEF BothWritten
<1>8. \A m \in S : /\ m \in DOMAIN kg /\ kg[m] = kf[m]
                   /\ m \in DOMAIN vg /\ vg[m] = vf[m]
  BY <1>1, <1>2, <1>3, <1>7 DEF Fits
<1>9. Good(kg, vg, S, d)
  BY <1>4, <1>8, GoodAgree
<1>10. /\ pc'[c] = "drop_top" /\ top' = top
       /\ capacity' = capacity /\ keys' = keys /\ values' = values
       /\ UNCHANGED <<nodes, wkey, freed, cmd, fault, wrong, ref>>
  BY <1>0, <1>5 DEF Goto, nodes, ghosts
<1>11. reg'[c][1] = e /\ reg'[c][2] = e /\ reg'[c][3] = top
  <2>1. PICK r : r = Append(reg[c], top)
    OBVIOUS
  <2>2. r[1] = reg[c][1] /\ r[2] = reg[c][2] /\ r[3] = top
    BY <1>0, <2>1, ThirdCopy
  <2>3. reg'[c] = r
    BY <1>0, <1>5, <2>1
  <2> QED BY <1>1, <1>2, <2>2, <2>3
<1>12. /\ Linked' = Linked /\ FreedDone'
       /\ Holds(kg, vg, S, d, wkey', wval', freed', cmd', Linked')
  BY <1>0, <1>1, <1>9, <1>10, LinkedSame
<1>13. With(c, NULL)' = d
  BY <1>2, <1>10 DEF With, Sets
<1>14. Good(KeyArr, ValArr, 0 .. top - 1, With(c, NULL))'
  BY <1>2, <1>6, <1>10, <1>12, <1>13 DEF Good
<1>15. Loose(KeyArr, 0 .. top - 1, reg[c][1])'
  <2>1. e \in Call /\ e # c
    BY <1>0, <1>2, <1>4 DEF Loose
  <2>2. pc'[e] = pc[e]
    BY <2>1, StepFrame
  <2> QED BY <1>2, <1>4, <1>6, <1>8, <1>10, <1>11, <2>2 DEF Loose
<1>16. At(c)'
  BY <1>3, <1>10, <1>11, <1>14, <1>15 DEF At, Scanning, Adds, Upgrades, Takes, Adding, Upgrading, Taking
<1>17. Fits' /\ top' \in -1 .. capacity' - 1
  BY <1>1, <1>2, <1>6, <1>7, <1>10 DEF Fits
<1>18. SerialAt(c)'
  BY <1>1, <1>10, <1>12, <1>16, <1>17 DEF SerialAt, Unsettled
<1> QED BY <1>18, AloneStep

LEMMA SDropTop ==
  ASSUME Types, NEW c \in Call, Alone(c), Step(c), SerialAt(c), DropTop(c)
  PROVE  Serial'
<1>0. /\ pc[c] = "drop_top" /\ pc[c] \in Taking \ {"find_rm"}
      /\ pc[c] \notin {"grow_values", "publish"} /\ pc[c] \notin {"done", "free_up"}
      /\ pc \in [Call -> Label] /\ top \in Int /\ capacity \in Nat /\ reg[c][1] \in Call
  BY DEF DropTop, Taking, Types, CallOK
<1>1. /\ FreedDone /\ Fits /\ top \in -1 .. capacity - 1
      /\ reg[c][2] = reg[c][1] /\ reg[c][3] = top /\ top >= 0
      /\ Good(KeyArr, ValArr, 0 .. top - 1, With(c, NULL))
      /\ Loose(KeyArr, 0 .. top - 1, reg[c][1])
      /\ ~ fault /\ ~ wrong
  BY <1>0 DEF SerialAt, At, Takes
<1>2. PICK kf, vf, d, e : kf = KeyArr /\ vf = ValArr /\ d = With(c, NULL) /\ e = reg[c][1]
  OBVIOUS
<1>3. /\ pc'[c] = "free_rm" /\ top' = top - 1 /\ KeyArr' = kf /\ ValArr' = vf
      /\ capacity' = capacity /\ keys' = keys /\ values' = values
      /\ UNCHANGED <<nodes, wkey, freed, cmd, reg, fault, wrong, ref>>
  BY <1>0, <1>1, <1>2 DEF DropTop, Goto, KeyArr, ValArr, nodes, ghosts
<1>4. /\ Linked' = Linked /\ FreedDone'
      /\ Holds(kf, vf, 0 .. top - 1, d, wkey', wval', freed', cmd', Linked')
  BY <1>0, <1>1, <1>2, <1>3, LinkedSame
<1>5. With(c, NULL)' = d
  BY <1>2, <1>3 DEF With, Sets
<1>6. Good(KeyArr, ValArr, 0 .. top, With(c, NULL))'
  BY <1>3, <1>4, <1>5 DEF Good
<1>7. Loose(KeyArr, 0 .. top, reg[c][1])'
  <2>1. e \in Call /\ e # c
    BY <1>0, <1>1, <1>2 DEF Loose
  <2>2. pc'[e] = pc[e]
    BY <2>1, StepFrame
  <2> QED BY <1>1, <1>2, <1>3, <2>2 DEF Loose
<1>8. At(c)'
  BY <1>1, <1>3, <1>6, <1>7 DEF At, Scanning, Adds, Upgrades, Takes, Adding, Upgrading, Taking
<1>9. Fits' /\ top' \in -1 .. capacity' - 1
  BY <1>0, <1>1, <1>2, <1>3 DEF Fits
<1>10. SerialAt(c)'
  BY <1>1, <1>3, <1>4, <1>8, <1>9 DEF SerialAt, Unsettled
<1> QED BY <1>10, AloneStep

LEMMA SFreeRm ==
  ASSUME Types, NEW c \in Call, Alone(c), Step(c), SerialAt(c), FreeRm(c)
  PROVE  Serial'
<1>0. /\ pc[c] = "free_rm" /\ pc[c] \in Taking \ {"find_rm"}
      /\ pc[c] \notin {"done", "grow_values", "publish"}
      /\ reg[c][1] \in Call /\ cmd[c].kind = "GET"
  BY DEF FreeRm, Taking, Types, CallOK
<1>1. /\ reg[c][2] = reg[c][1]
      /\ Good(KeyArr, ValArr, 0 .. top, With(c, NULL)) /\ Loose(KeyArr, 0 .. top, reg[c][1])
  BY <1>0 DEF SerialAt, At, Takes
<1>2. PICK x, d : x \in Call /\ x = reg[c][1] /\ d = With(c, NULL)
  BY <1>0
<1>3. FreeAndFinish(c, x, x, "nil")
  BY <1>1, <1>2 DEF FreeRm
<1>4. Answer(c) = "nil" /\ After(c) = d
  BY <1>0, <1>2 DEF Answer, After, Puts, Removing, With, Sets
<1>5. /\ <<"key", x>> \notin freed /\ <<"value", x>> \notin freed /\ pc[x] = "done"
      /\ \A n \in 0 .. top : wkey[KeyArr[n]] # x
  BY <1>1, <1>2 DEF Loose
<1>6. Good(KeyArr, ValArr, 0 .. top, d)
  BY <1>1, <1>2
<1>7. x \in Call
  BY <1>2
<1> QED BY <1>0, <1>3, <1>4, <1>5, <1>6, <1>7, FreeStep

-----------------------------------------------------------------------------
(* A command starts, and all steps together.                               *)

LEMMA SStart ==
  ASSUME Types, Fresh, Serial, NEW c \in Call, NEW command \in Command,
         Start(c, command), ~ overlap'
  PROVE  Serial'
<1>0. PICK cn : cn = cmd'
  OBVIOUS
<1>1. /\ pc[c] = "idle" /\ cn[c] = command /\ i' = i /\ i[c] = 0 /\ c \notin Active
      /\ pc'[c] = (IF command.kind = "SET" THEN "find_set" ELSE "find_get")
      /\ \A d \in Call \ {c} : pc'[d] = pc[d] /\ cn[d] = cmd[d]
      /\ UNCHANGED <<map, nodes, reg, fault, ref, wrong>>
      /\ ~ (~ Quiet /\ (command.kind # "GET" \/ \E d \in Active : Changing(d)))
  BY <1>0 DEF Start, Goto, Types, Fresh, Active
<1>2. /\ \A d \in Call : pc[d] \in {"idle", "done", "find_get", "read", "use"}
      /\ \A d \in Active : cmd[d].kind = "GET" /\ ~ Changing(d)
      /\ Fits /\ Good(KeyArr, ValArr, 0 .. top, ref)
  <2>1. CASE Quiet
    <3>1. \A d \in Call : pc[d] \in {"idle", "done"}
      BY <2>1 DEF Quiet, Active
    <3>2. \A d \in Call : pc[d] \notin {"grow_values", "publish"} /\ pc[d] \notin Unsettled
      BY <3>1 DEF Unsettled
    <3> QED BY <2>1, <3>1, <3>2 DEF Quiet, Serial
  <2>2. CASE ~ Quiet
    <3>1. PICK d \in Call : d \in Active /\ ~ Changing(d)
      BY <1>1, <2>2 DEF Quiet, Active
    <3> QED BY <3>1, ReadersOnly
  <2> QED BY <2>1, <2>2
<1>3. /\ KeyArr' = KeyArr /\ ValArr' = ValArr /\ top' = top /\ capacity' = capacity /\ ref' = ref
      /\ wkey' = wkey /\ wval' = wval /\ freed' = freed /\ keys' = keys /\ values' = values
  BY <1>1 DEF KeyArr, ValArr, map, nodes
<1>4. c \notin Linked /\ Linked' = Linked
  BY <1>1 DEF Linked
<1>5. \A n \in 0 .. top : KeyArr[n] \in Linked /\ wkey[KeyArr[n]] \in Linked /\ wkey[KeyArr[n]] # c
  <2>1. Good(KeyArr, ValArr, 0 .. top, ref)
    BY <1>2
  <2> QED BY <1>4, <2>1, TopSlot
<1>6. Good(KeyArr, ValArr, 0 .. top, ref)'
  <2>1. PICK kf, vf, S, D : kf = KeyArr /\ vf = ValArr /\ S = 0 .. top /\ D = Linked
    OBVIOUS
  <2>2. Holds(kf, vf, S, ref, wkey, wval, freed, cmd, D)
    BY <1>2, <2>1 DEF Good
  <2>3. \A n \in S : cn[wkey[kf[n]]] = cmd[wkey[kf[n]]]
    <3>1. \A e \in D : e \in Call \ {c}
      BY <1>4, <2>1 DEF Linked
    <3> QED BY <1>1, <1>5, <2>1, <3>1
  <2>4. Holds(kf, vf, S, ref, wkey, wval, freed, cn, D)
    BY <2>2, <2>3 DEF Holds
  <2> QED BY <1>0, <1>3, <1>4, <2>1, <2>4 DEF Good
<1>7. \A d \in Call : pc'[d] \in {"idle", "done", "find_get", "read", "use", "find_set"}
  BY <1>1, <1>2
<1>8. \A d \in Call : pc'[d] \notin Unsettled /\ pc'[d] \notin {"grow_values", "publish"}
  BY <1>7 DEF Unsettled
<1>9. ASSUME NEW d \in Call, Changing(d)' PROVE Active' = {d}
  <2>1. CASE Quiet
    BY <1>1, <1>9, <2>1 DEF Quiet, Active, Changing
  <2>2. CASE ~ Quiet
    <3>1. command.kind = "GET" /\ pc'[c] = "find_get"
      BY <1>1, <2>2
    <3>2. cn[d].kind = "GET" \/ d \notin Active'
      BY <1>1, <1>2, <3>1 DEF Active
    <3>3. ~ Removing(d)'
      BY <1>7 DEF Removing
    <3> QED BY <1>0, <1>9, <3>2, <3>3 DEF Changing
  <2> QED BY <2>1, <2>2
<1>10. ASSUME NEW d \in Call PROVE Scanning(d)'
  <2>1. CASE d = c
    <3>1. Missing(KeyArr, {n \in 0 .. top : n < i[c]}, c)'
      BY <1>1, <1>3 DEF Missing
    <3>2. pc'[c] \in {"find_set", "find_get"} /\ (pc'[c] = "find_set" => cn[c].kind = "SET")
      BY <1>1
    <3> QED BY <1>0, <2>1, <3>1, <3>2 DEF Scanning
  <2>2. CASE d # c
    <3>1. /\ pc'[d] = pc[d] /\ i'[d] = i[d] /\ reg'[d] = reg[d] /\ cn[d] = cmd[d] /\ Scanning(d)
          /\ pc[d] \in {"idle", "done", "find_get", "read", "use"}
      BY <1>1, <1>2, <2>2 DEF Serial, At
    <3>2. \A n \in 0 .. top : cn[wkey[KeyArr[n]]] = cmd[wkey[KeyArr[n]]]
      <4>1. \A e \in Linked : e \in Call
        BY DEF Linked
      <4> QED BY <1>1, <1>5, <4>1
    <3>3. pc[d] = "find_get" => Missing(KeyArr, {n \in 0 .. top : n < i[d]}, d)'
      BY <1>0, <1>3, <3>1, <3>2 DEF Scanning, Missing
    <3>4. pc[d] \in {"read", "use"} =>
            (i[d] \in 0 .. top /\ cmd[wkey[KeyArr[i[d]]]].name = cmd[d].name)'
      BY <1>0, <1>3, <3>1, <3>2 DEF Scanning
    <3>5. pc[d] = "use" => (reg[d][1] = wkey[KeyArr[i[d]]] /\ reg[d][2] = reg[d][1])'
      BY <1>3, <3>1 DEF Scanning
    <3> QED BY <3>1, <3>3, <3>4, <3>5 DEF Scanning
  <2> QED BY <2>1, <2>2
<1>11. ASSUME NEW d \in Call PROVE At(d)'
  BY <1>7, <1>10 DEF At, Adds, Upgrades, Takes, Adding, Upgrading, Taking
<1>12. FreedDone'
  BY <1>1, <1>3 DEF Serial, FreedDone
<1>13. Fits' /\ top' \in -1 .. capacity' - 1 /\ ~ fault' /\ ~ wrong'
  BY <1>1, <1>2, <1>3 DEF Fits, Serial
<1> QED BY <1>6, <1>9, <1>11, <1>12, <1>13 DEF Serial

\* Once calls have overlapped, that stays on record.
LEMMA OverlapStep ==
  ASSUME NEW c \in Call, Step(c) PROVE overlap' = overlap \/ (Expired(c) /\ overlap' = (overlap \/ Active # {c}))
<1> USE DEF ghosts
<1>1. CASE Scan(c)
  BY <1>1 DEF Scan, Absent, Broken, Found, FoundRemove, SetFails, FreeAndFinish, Finish, Jump, Fault
<1>2. CASE Read(c) \/ Decline(c) \/ Use(c) \/ Expired(c)
  BY <1>2 DEF Read, Decline, Use, Expired, FreeAndFinish, Finish, Fault
<1>3. CASE IsFull(c) \/ GrowKeys(c) \/ GrowValues(c) \/ Publish(c) \/ LoadTop(c) \/ StoreTop(c)
  BY <1>3 DEF IsFull, GrowKeys, GrowValues, Publish, LoadTop, StoreTop, SetFails, FreeAndFinish, Finish, Fault
<1>4. CASE PutKey(c) \/ PutValue(c)
  BY <1>4 DEF PutKey, PutValue, Write, Finish, Fault
<1>5. CASE UpRead(c) \/ UpValue(c) \/ UpKey(c) \/ FreeUp(c)
  BY <1>5 DEF UpRead, UpValue, UpKey, FreeUp, SetFails, FreeAndFinish, Finish, Fault
<1>6. CASE Shift(c) \/ Clear(c) \/ DropTop(c) \/ FreeRm(c)
  BY <1>6 DEF Shift, Clear, DropTop, FreeRm, FreeAndFinish, Finish, Fault, Jump
<1> QED BY <1>1, <1>2, <1>3, <1>4, <1>5, <1>6 DEF Step

\* The steps that leave the map alone, for any set of readers.
LEMMA ReadersStep ==
  ASSUME Types, Serial, NEW c \in Call, Step(c), ~ Alone(c), ~ overlap' PROVE Serial'
<1>1. c \in Active
  BY StepFrame DEF Active
<1>2. Active # {c}
  BY DEF Alone, Active
<1>3. ~ Changing(c)
  BY <1>1, <1>2 DEF Serial
<1>4. pc[c] \in {"find_get", "read", "use"} /\ cmd[c].kind = "GET"
  BY <1>1, <1>3, ReadersOnly DEF Active
<1>5. \/ Scan(c) /\ pc[c] = "find_get"
      \/ Read(c) \/ Use(c) \/ Expired(c)
  BY <1>4 DEF Step, Scan, Decline, IsFull, GrowKeys, GrowValues, Publish, LoadTop, StoreTop,
              PutKey, PutValue, UpRead, UpValue, UpKey, FreeUp, Shift, Clear, DropTop, FreeRm
<1>6. ~ Expired(c)
  BY <1>2 DEF Expired
<1> QED BY <1>4, <1>5, <1>6, SScanGet, SReadGet, SUse

LEMMA SerialStep ==
  ASSUME Types, Fresh, ~ overlap => Serial, Next, ~ overlap' PROVE Serial'
<1>1. PICK c \in Call : (\E command \in Command : Start(c, command)) \/ Step(c)
  BY DEF Next, Command
<1>2. CASE \E command \in Command : Start(c, command)
  <2>1. PICK command \in Command : Start(c, command)
    BY <1>2
  <2>2. ~ overlap
    BY <2>1 DEF Start
  <2> QED BY <2>1, <2>2, SStart
<1>3. CASE Step(c)
  <2>1. ~ overlap
    BY <1>3, OverlapStep
  <2>2. CASE ~ Alone(c)
    BY <1>3, <2>1, <2>2, ReadersStep
  <2>3. CASE Alone(c)
    <3>1. Serial /\ SerialAt(c)
      BY <2>1, <2>3, AloneSerial
    <3>2. CASE Scan(c)
      <4>1. pc[c] \in {"find_set", "find_get", "find_rm"}
        BY <3>2 DEF Scan
      <4>2. pc[c] = "find_set" => cmd[c].kind # "GET"
        BY DEF Types, CallOK
      <4> QED BY <1>3, <2>3, <3>1, <3>2, <4>1, <4>2, SScanSet, SScanGet, SScanRemove
    <3>3. CASE Read(c) \/ Decline(c) \/ Use(c) \/ Expired(c)
      BY <1>3, <2>3, <3>1, <3>3, SReadNx, SDecline, SUse, SExpired
    <3>4. CASE IsFull(c) \/ GrowKeys(c) \/ GrowValues(c) \/ Publish(c)
      BY <1>3, <2>3, <3>1, <3>4, SIsFull, SGrowKeys, SGrowValues, SPublish
    <3>5. CASE LoadTop(c) \/ StoreTop(c) \/ PutKey(c) \/ PutValue(c)
      BY <1>3, <2>3, <3>1, <3>5, SLoadTop, SStoreTop, SPutKey, SPutValue
    <3>6. CASE UpRead(c) \/ UpValue(c) \/ UpKey(c) \/ FreeUp(c)
      BY <1>3, <2>3, <3>1, <3>6, SUpRead, SUpValue, SUpKey, SFreeUp
    <3>7. CASE Shift(c) \/ Clear(c) \/ DropTop(c) \/ FreeRm(c)
      BY <1>3, <2>3, <3>1, <3>7, SShift, SClear, SDropTop, SFreeRm
    <3> QED BY <1>3, <3>2, <3>3, <3>4, <3>5, <3>6, <3>7 DEF Step
  <2> QED BY <2>2, <2>3
<1> QED BY <1>1, <1>2, <1>3

-----------------------------------------------------------------------------
(* The theorems.                                                           *)

LEMMA InvInit == Init => Inv
<1> SUFFICES ASSUME Init PROVE Inv
  OBVIOUS
<1>1. Types
  BY TypesInit
<1>2. /\ top = -1 /\ capacity = 1 /\ keys = 1 /\ values = 2 /\ freed = {}
      /\ blocks = <<[n \in 0 .. 0 |-> NULL], [n \in 0 .. 0 |-> NULL]>>
      /\ ~ fault /\ ~ wrong
      /\ \A c \in Call : pc[c] = "idle" /\ i[c] = 0
      /\ \A n \in Name : ref[n] = NULL
      /\ window.call = NULL /\ ~ window.hole
  BY DEF Init
<1>3. Bounds
  <2>1. Raised = {} /\ Lowered = {}
    BY <1>2 DEF Raised, Lowered
  <2>2. Cardinality({}) = 0
    BY FS_EmptySet
  <2>3. InBounds(top)
    BY <1>2, <2>1, <2>2 DEF InBounds
  <2> QED BY <1>2, <2>3 DEF Bounds
<1>4. Serial
  <2>1. Fits
    <3>1. KeyArr = [n \in 0 .. 0 |-> NULL] /\ ValArr = [n \in 0 .. 0 |-> NULL]
      BY <1>2 DEF KeyArr, ValArr
    <3> QED BY <1>2, <3>1 DEF Fits
  <2>2. \A kf, vf : Good(kf, vf, 0 .. top, ref)
    <3>1. PICK S : S = 0 .. top
      OBVIOUS
    <3>2. \A n : n \notin S
      BY <1>2, <3>1
    <3>3. \A kf, vf : Holds(kf, vf, S, ref, wkey, wval, freed, cmd, Linked)
      BY <1>2, <3>2 DEF Holds
    <3> QED BY <3>1, <3>3 DEF Good
  <2>3. \A c \in Call : ~ Changing(c) /\ At(c)
    BY <1>2, RestingAt DEF Changing, Active
  <2>4. FreedDone
    BY <1>2 DEF FreedDone
  <2>5. top \in -1 .. capacity - 1
    BY <1>2
  <2> QED BY <1>2, <2>1, <2>2, <2>3, <2>4, <2>5 DEF Serial
<1>5. Fresh /\ Blocked
  BY <1>2 DEF Fresh, Blocked
<1> QED BY <1>1, <1>3, <1>4, <1>5 DEF Inv

LEMMA InvStep ==
  ASSUME Inv, Next PROVE Inv'
<1>1. Types /\ Bounds /\ Fresh /\ Blocked /\ (~ overlap => Serial)
  BY DEF Inv
<1>2. Types' /\ Bounds' /\ Fresh' /\ Blocked'
  BY <1>1, TypesStep, BoundsStep, FreshStep, BlockedStep
<1>3. ~ overlap' => Serial'
  BY <1>1, SerialStep
<1> QED BY <1>2, <1>3 DEF Inv

LEMMA InvStutter ==
  ASSUME Inv, UNCHANGED vars PROVE Inv'
<1> USE DEF vars, map, nodes, locals, ghosts
<1>1. Types'
  BY DEF Inv, Types, CallOK, Wrapped, Wraps
<1>2. Bounds'
  BY DEF Inv, Bounds, InBounds, Raised, Lowered
<1>3. \A c \in Call : At(c)' = At(c)
  BY DEF At, Scanning, Adds, Upgrades, Takes, Missing, Loose, Good, With, KeyArr, ValArr, Linked
<1>4. Serial' = Serial
  BY <1>3 DEF Serial, Changing, Removing, Active, Fits, Good, KeyArr, ValArr, Linked, FreedDone
<1>5. Fresh' /\ Blocked'
  BY DEF Inv, Fresh, Blocked, Active, InFront, Stuck, Hole, Slot, IsWrapper
<1> QED BY <1>1, <1>2, <1>4, <1>5 DEF Inv

\* The inductive invariant holds of every run, with any calls and workers.
THEOREM RaceInvariant == Spec => []Inv
<1>1. Inv /\ [Next]_vars => Inv'
  BY InvStep, InvStutter
<1> QED BY <1>1, InvInit, PTL DEF Spec

LEMMA InvTypeOK == ASSUME Types, Bounds PROVE TypeOK
<1>1. /\ Cardinality(Call) \in Nat /\ Cardinality(Raised) \in Nat /\ Cardinality(Lowered) \in Nat
      /\ Cardinality(Raised) =< Cardinality(Call) /\ Cardinality(Lowered) =< Cardinality(Call)
  <2>1. IsFiniteSet(Call) /\ Raised \subseteq Call /\ Lowered \subseteq Call
    BY CallAssumption DEF Raised, Lowered
  <2>2. IsFiniteSet(Raised) /\ IsFiniteSet(Lowered)
    BY <2>1, FS_Subset
  <2> QED BY <2>1, <2>2, FS_Subset, FS_CardinalityType
<1>2. top \in -(Cardinality(Call) + 1) .. Cardinality(Call)
  <2>1. top \in Int /\ top + 1 =< Cardinality(Raised) /\ top + 1 >= -Cardinality(Lowered)
    BY DEF Types, Bounds, InBounds
  <2> QED BY <1>1, <2>1
<1>3. \A b \in 1 .. Len(blocks) : \A n \in DOMAIN blocks[b] : blocks[b][n] \in Call \cup {NULL, UNDEF}
  <2>1. \A b \in 1 .. Len(blocks) : blocks[b] \in Block
    BY DEF Types
  <2> QED BY <2>1, BlockDomain DEF Cell
<1>4. \A c \in Call : {wkey[c], wval[c]} \subseteq Call \cup {NULL}
  BY DEF Types
<1>5. \A c \in Call : pc[c] = "done" => reply[c] \in Call \cup {"OK", "nil", "empty", "error"}
  BY DEF Types, CallOK
<1> QED BY <1>2, <1>3, <1>4, <1>5 DEF TypeOK, Types

\* A scan of the quiet map finds what the dictionary has.
LEMMA QuietEntries ==
  ASSUME Types, Serial, Quiet PROVE Entries = ref
<1>1. Good(KeyArr, ValArr, 0 .. top, ref)
  BY DEF Serial, Quiet, Active, Unsettled
<1> DEFINE at(nm) == {m \in 0 .. top : IsWrapper(Slot(keys, m)) /\ cmd[wkey[Slot(keys, m)]].name = nm}
           first(nm) == CHOOSE m \in at(nm) : \A l \in at(nm) : m =< l
           found(nm) == IF at(nm) = {} THEN NULL ELSE wval[Slot(values, first(nm))]
<1>2. Entries = [nm \in Name |-> found(nm)]
  BY DEF Entries
<1>3. ASSUME NEW nm \in Name PROVE found(nm) = ref[nm]
  <2>1. \A m \in at(nm) : m \in 0 .. top /\ m \in Int /\ ref[nm] = wval[Slot(values, m)] /\ ref[nm] # NULL
    <3> SUFFICES ASSUME NEW m \in at(nm)
                 PROVE  m \in 0 .. top /\ m \in Int /\ ref[nm] = wval[Slot(values, m)] /\ ref[nm] # NULL
      OBVIOUS
    <3>1. m \in 0 .. top /\ cmd[wkey[Slot(keys, m)]].name = nm /\ m \in Int
      BY DEF Types
    <3>2. /\ Slot(keys, m) = KeyArr[m] /\ Slot(values, m) = KeyArr[m]
          /\ wkey[KeyArr[m]] \in Call /\ wval[KeyArr[m]] = wkey[KeyArr[m]]
          /\ ref[cmd[wkey[KeyArr[m]]].name] = wkey[KeyArr[m]]
      BY <1>1, <3>1, TopSlot
    <3> QED BY <3>1, <3>2, CallAssumption
  <2>2. \A l, m \in at(nm) : l = m
    <3> SUFFICES ASSUME NEW l \in at(nm), NEW m \in at(nm) PROVE l = m
      OBVIOUS
    <3>1. /\ l \in 0 .. top /\ cmd[wkey[Slot(keys, l)]].name = nm
          /\ m \in 0 .. top /\ cmd[wkey[Slot(keys, m)]].name = nm
      OBVIOUS
    <3>2. /\ Slot(keys, l) = KeyArr[l] /\ ref[cmd[wkey[KeyArr[l]]].name] = wkey[KeyArr[l]]
          /\ Slot(keys, m) = KeyArr[m] /\ ref[cmd[wkey[KeyArr[m]]].name] = wkey[KeyArr[m]]
      BY <1>1, <3>1, TopSlot
    <3>3. wkey[KeyArr[l]] = wkey[KeyArr[m]]
      BY <3>1, <3>2
    <3> QED BY <1>1, <3>1, <3>3 DEF Good, Holds
  <2>3. CASE at(nm) = {}
    <3>1. ASSUME ref[nm] # NULL PROVE FALSE
      <4>1. PICK m \in 0 .. top : cmd[wkey[KeyArr[m]]].name = nm
        BY <1>1, <3>1 DEF Good, Holds
      <4>2. Slot(keys, m) = KeyArr[m] /\ IsWrapper(Slot(keys, m))
        BY <1>1, TopSlot
      <4>3. m \in at(nm)
        BY <4>1, <4>2
      <4> QED BY <2>3, <4>3
    <3> QED BY <2>3, <3>1
  <2>4. CASE at(nm) # {}
    <3>1. PICK k : k \in at(nm)
      BY <2>4
    <3>2. \A l \in at(nm) : k =< l
      BY <2>1, <2>2, <3>1
    <3> HIDE DEF at
    <3>3. first(nm) \in at(nm)
      BY <3>1, <3>2
    <3> HIDE DEF first
    <3> QED BY <2>1, <2>4, <3>3
  <2> QED BY <2>3, <2>4
<1> HIDE DEF found
<1> QED BY <1>2, <1>3 DEF Types

LEMMA InvSafe == Inv => SafeWithoutOverlap
<1> SUFFICES ASSUME Inv PROVE SafeWithoutOverlap
  OBVIOUS
<1>1. Types /\ Bounds /\ (~ overlap => Serial)
  BY DEF Inv
<1>2. TypeOK
  BY <1>1, InvTypeOK
<1>3. ASSUME ~ overlap PROVE ~ fault /\ ~ wrong /\ (Quiet => Entries = ref)
  <2>1. Serial
    BY <1>1, <1>3
  <2> QED BY <1>1, <2>1, QuietEntries DEF Serial
<1> QED BY <1>2, <1>3 DEF SafeWithoutOverlap

\* As long as no call that changes the unlocked map overlaps another call, no
\* access of set, get and remove_key leaves its array or touches freed memory,
\* every reply is that of a dictionary, and the quiet map is that dictionary.
THEOREM SafeWithoutOverlapCorrect == Spec => []SafeWithoutOverlap
BY RaceInvariant, InvSafe, PTL

\* Once overlapping calls have left an empty slot below top, a SET that runs
\* alone stores no new key: it replaces an entry in front of the slot or fails.
THEOREM NothingNewBehindHoleCorrect == Spec => []NothingNewBehindHole
<1>1. Inv => NothingNewBehindHole
  BY BlockedImplies DEF Inv
<1> QED BY <1>1, RaceInvariant, PTL
=============================================================================
