----------------------------- MODULE StoreRace -----------------------------
(***************************************************************************)
(* SET and GET of two workers on the global map of app.c, which has no     *)
(* lock: the calls set, get and remove_key of src/src/simple_map.c as      *)
(* sequences of reads and writes of the shared memory.  Where a call does  *)
(* the same to both arrays, or publishes three fields, in adjacent         *)
(* statements without a call between them, the accesses are one step       *)
(* (Read, UpRead, Shift, Clear, Publish).  The properties are about calls  *)
(* that nothing changing overlaps, for which this makes no difference; of  *)
(* overlapping calls the model has some of the outcomes, not all.          *)
(*                                                                         *)
(* A call is one command run by some worker; it also names the key node,   *)
(* the value node and the wrapper pair the command allocates.  An array is *)
(* a block of memory, a slot holds a wrapper, NULL, or UNDEF for memory    *)
(* nobody wrote.  Using a block or node that was freed, following NULL or  *)
(* UNDEF, leaving an array and freeing twice are undefined: the model then *)
(* records a fault and says nothing of what follows.  realloc moves the    *)
(* block and finds memory; a key that SET stored may have expired when GET *)
(* looks at it.                                                            *)
(***************************************************************************)
EXTENDS Integers, Sequences, FiniteSets

CONSTANTS
  Call, Name,
  Kind,     \* the commands that occur: SET (with or without an expiry), NX and GET
  Workers,  \* how many sessions run at a time
  NULL, UNDEF

ASSUME KindAssumption == Kind \subseteq {"SET", "NX", "GET"}
ASSUME WorkersAssumption == Workers \in Nat \ {0}
ASSUME CallAssumption == IsFiniteSet(Call) /\ {NULL, UNDEF} \cap Call = {} /\ NULL # UNDEF

VARIABLES
  top, capacity,
  keys, values,  \* sm->keys and sm->values: numbers of blocks
  blocks,        \* the blocks ever allocated; <<>> once freed
  wkey, wval,    \* the node a wrapper points to, NULL before the wrapper exists
  freed,         \* freed nodes
  cmd,           \* cmd[c]: the command of call c, or NULL
  pc, i, reg,    \* where c is, its index, its local copies
  reply,
  fault

map == <<top, capacity, keys, values, blocks>>
nodes == <<wkey, wval, freed>>
locals == <<pc, i, reg>>

\* Ghosts: whether a call that changes the map ever overlapped another call;
\* the dictionary the finished calls amount to; whether a reply disagreed with
\* it; and, since the map was last quiet, whether it had a hole then, whether
\* calls overlapped, and the first call.
VARIABLES overlap, ref, wrong, window
ghosts == <<overlap, ref, wrong, window>>

vars == <<map, nodes, cmd, locals, reply, fault, ghosts>>

Init ==
  /\ top = -1 /\ capacity = 1 /\ keys = 1 /\ values = 2
  /\ blocks = <<[n \in 0 .. 0 |-> NULL], [n \in 0 .. 0 |-> NULL]>>
  /\ wkey = [c \in Call |-> NULL] /\ wval = [c \in Call |-> NULL]
  /\ freed = {}
  /\ cmd = [c \in Call |-> NULL]
  /\ pc = [c \in Call |-> "idle"]
  /\ i = [c \in Call |-> 0]
  /\ reg = [c \in Call |-> <<>>]
  /\ reply = [c \in Call |-> NULL]
  /\ fault = FALSE
  /\ overlap = FALSE /\ wrong = FALSE
  /\ ref = [n \in Name |-> NULL]
  /\ window = [hole |-> FALSE, overlap |-> FALSE, call |-> NULL]

-----------------------------------------------------------------------------
(* Memory.                                                                 *)

\* What is in slot n of a block: UNDEF if it is no slot of a live block.
Slot(b, n) == IF n \in DOMAIN blocks[b] THEN blocks[b][n] ELSE UNDEF
IsWrapper(s) == s \in Call

Active == {c \in Call : pc[c] \notin {"idle", "done"}}
Quiet == Active = {}

\* Calls that change the map: every SET, and a GET that removes a dead key.
Removing(c) == pc[c] \in {"find_rm", "shift", "clear", "drop_top", "free_rm"}
Changing(c) == c \in Active /\ (cmd[c].kind # "GET" \/ Removing(c))

Hole == \E n \in 0 .. top : Slot(keys, n) = NULL

Fault ==
  /\ fault' = TRUE
  /\ UNCHANGED <<map, nodes, cmd, locals, reply, ghosts>>

Goto(c, label) == pc' = [pc EXCEPT ![c] = label]

\* A step that only moves to a label, from index n.
Jump(c, label, n) ==
  /\ Goto(c, label)
  /\ i' = [i EXCEPT ![c] = n]
  /\ UNCHANGED <<map, nodes, cmd, reg, reply, fault, ghosts>>

\* What a dictionary would answer to the command, and hold afterwards.
Puts(c) == cmd[c].kind = "SET" \/ (cmd[c].kind = "NX" /\ ref[cmd[c].name] = NULL)
Answer(c) ==
  IF Puts(c) THEN "OK"
  ELSE IF cmd[c].kind = "GET" /\ ~ Removing(c) /\ ref[cmd[c].name] # NULL THEN ref[cmd[c].name]
  ELSE "nil"
After(c) ==
  IF Puts(c) THEN [ref EXCEPT ![cmd[c].name] = c]
  ELSE IF Removing(c) THEN [ref EXCEPT ![cmd[c].name] = NULL]
  ELSE ref

Finish(c, r) ==
  /\ Goto(c, "done")
  /\ reply' = [reply EXCEPT ![c] = r]
  /\ ref' = After(c)
  /\ wrong' = (wrong \/ r # Answer(c))
  /\ UNCHANGED <<cmd, i, reg, fault, overlap, window>>

Free(k, v) == freed' = freed \cup {<<"key", k>>, <<"value", v>>}
Alive(k, v) == <<"key", k>> \notin freed /\ <<"value", v>> \notin freed

\* clean_up_kv on a pair and the answer.
FreeAndFinish(c, k, v, r) ==
  IF Alive(k, v)
  THEN Free(k, v) /\ Finish(c, r) /\ UNCHANGED <<map, wkey, wval>>
  ELSE Fault

-----------------------------------------------------------------------------
(* A command starts.                                                       *)

Start(c, command) ==
  /\ pc[c] = "idle"
  /\ Cardinality(Active) < Workers
  /\ cmd' = [cmd EXCEPT ![c] = command]
  /\ Goto(c, IF command.kind = "SET" THEN "find_set" ELSE "find_get")
  /\ LET meets == ~ Quiet /\ (command.kind # "GET" \/ \E d \in Active : Changing(d))
     IN  /\ overlap' = (overlap \/ meets)
         /\ window' = IF Quiet THEN [hole |-> Hole, overlap |-> FALSE, call |-> c]
                               ELSE [window EXCEPT !.overlap = @ \/ meets]
  /\ UNCHANGED <<map, nodes, i, reg, reply, fault, ref, wrong>>

-----------------------------------------------------------------------------
(* __find and the scan of remove_key: one iteration.                       *)

Absent(c) ==
  \/ pc[c] = "find_set" /\ Jump(c, "is_full", 0)
  \/ pc[c] = "find_get" /\ cmd[c].kind = "NX" /\ Jump(c, "find_set", 0)
  \/ /\ pc[c] = "find_rm" \/ (pc[c] = "find_get" /\ cmd[c].kind = "GET")
     /\ Finish(c, "nil") /\ UNCHANGED <<map, nodes>>

\* set returns ERROR_SET_SM_RTN: NX forgets its pair, the others free it.
SetFails(c) ==
  IF cmd[c].kind = "NX" THEN Finish(c, "nil") /\ UNCHANGED <<map, nodes>>
                        ELSE FreeAndFinish(c, c, c, "empty")

\* KEY_ARR_ERROR or REMOVE_ERROR; get reports it like a missing key.
Broken(c) ==
  \/ pc[c] = "find_set" /\ SetFails(c)
  \/ pc[c] = "find_get" /\ Absent(c)
  \/ pc[c] = "find_rm" /\ Finish(c, "error") /\ UNCHANGED <<map, nodes>>

FoundRemove(c) ==
  LET v == Slot(values, i[c])
  IN  IF ~ IsWrapper(v) THEN Fault
      ELSE /\ reg' = [reg EXCEPT ![c] = <<wkey[Slot(keys, i[c])], wval[v]>>]
           /\ Goto(c, "shift")
           /\ UNCHANGED <<map, nodes, cmd, i, reply, fault, ghosts>>
Found(c) ==
  \/ pc[c] = "find_set" /\ Jump(c, "up_read", i[c])
  \/ pc[c] = "find_get" /\ Jump(c, "read", i[c])
  \/ pc[c] = "find_rm" /\ FoundRemove(c)

\* Mutant: the scan passes over an empty slot.
Scan_passes(c) ==
  LET k == Slot(keys, i[c])
  IN  /\ pc[c] \in {"find_set", "find_get", "find_rm"}
      /\ IF i[c] > top THEN Absent(c)
         ELSE IF k # NULL /\ ~ IsWrapper(k) THEN Fault
         ELSE IF k # NULL /\ <<"key", wkey[k]>> \in freed THEN Fault
         ELSE IF k # NULL /\ cmd[wkey[k]].name = cmd[c].name THEN Found(c)
         ELSE Jump(c, pc[c], i[c] + 1)

Scan(c) ==
  LET k == Slot(keys, i[c])
  IN  /\ pc[c] \in {"find_set", "find_get", "find_rm"}
      /\ IF i[c] > top THEN Absent(c)
         ELSE IF k = NULL THEN Broken(c)
         ELSE IF ~ IsWrapper(k) THEN Fault
         ELSE IF <<"key", wkey[k]>> \in freed THEN Fault
         ELSE IF cmd[wkey[k]].name = cmd[c].name THEN Found(c)
         ELSE Jump(c, pc[c], i[c] + 1)

-----------------------------------------------------------------------------
(* get behind the scan, and what GET and NX do with the pair.              *)

Read(c) ==
  LET k == Slot(keys, i[c])
      v == Slot(values, i[c])
  IN  /\ pc[c] = "read"
      /\ IF ~ IsWrapper(k) \/ ~ IsWrapper(v) THEN Fault
         ELSE /\ reg' = [reg EXCEPT ![c] = <<wkey[k], wval[v]>>]
              /\ Goto(c, "use")
              /\ UNCHANGED <<map, nodes, cmd, i, reply, fault, ghosts>>

\* NX declines and frees its own pair.
Decline(c) ==
  /\ pc[c] = "use" /\ cmd[c].kind = "NX"
  /\ FreeAndFinish(c, c, c, "nil")

\* GET answers with the value, unless the key has expired.
Use(c) ==
  /\ pc[c] = "use" /\ cmd[c].kind = "GET"
  /\ IF ~ Alive(reg[c][1], reg[c][2]) THEN Fault
     ELSE Finish(c, reg[c][2]) /\ UNCHANGED <<map, nodes>>

Expired(c) ==
  /\ pc[c] = "use" /\ cmd[c].kind = "GET"
  /\ <<"key", reg[c][1]>> \notin freed
  /\ cmd[reg[c][1]].kind = "SET"
  /\ Goto(c, "find_rm")
  /\ i' = [i EXCEPT ![c] = 0]
  /\ overlap' = (overlap \/ Active # {c})
  /\ window' = [window EXCEPT !.overlap = @ \/ Active # {c}]
  /\ UNCHANGED <<map, nodes, cmd, reg, reply, fault, ref, wrong>>

-----------------------------------------------------------------------------
(* __set: a new entry.                                                     *)

\* The wrappers are made, then the room is looked at.
IsFull(c) ==
  /\ pc[c] = "is_full"
  /\ wkey' = [wkey EXCEPT ![c] = c] /\ wval' = [wval EXCEPT ![c] = c]
  /\ Goto(c, IF top + 1 = capacity THEN "grow_keys" ELSE "load_top")
  /\ UNCHANGED <<map, freed, cmd, i, reg, reply, fault, ghosts>>

\* realloc: block b is freed, its content moves to a new block of n slots.
Moved(b, n) ==
  Append([blocks EXCEPT ![b] = <<>>],
         [m \in 0 .. n - 1 |-> IF m \in DOMAIN blocks[b] THEN blocks[b][m] ELSE UNDEF])

\* __double_arrays looks at the room once more, then reallocates the keys.
GrowKeys(c) ==
  /\ pc[c] = "grow_keys"
  /\ IF top + 1 # capacity THEN SetFails(c)
     ELSE IF blocks[keys] = <<>> THEN Fault
     ELSE /\ blocks' = Moved(keys, 2 * capacity)
          /\ reg' = [reg EXCEPT ![c] = <<Len(blocks) + 1, 2 * capacity>>]
          /\ Goto(c, "grow_values")
          /\ UNCHANGED <<top, capacity, keys, values, nodes, cmd, i, reply, fault, ghosts>>

GrowValues(c) ==
  /\ pc[c] = "grow_values"
  /\ IF blocks[values] = <<>> THEN Fault
     ELSE /\ blocks' = Moved(values, reg[c][2])
          /\ reg' = [reg EXCEPT ![c] = Append(@, Len(blocks) + 1)]
          /\ Goto(c, "publish")
          /\ UNCHANGED <<top, capacity, keys, values, nodes, cmd, i, reply, fault, ghosts>>

Publish(c) ==
  /\ pc[c] = "publish"
  /\ keys' = reg[c][1] /\ capacity' = reg[c][2] /\ values' = reg[c][3]
  /\ reg' = [reg EXCEPT ![c] = <<>>]
  /\ Goto(c, "load_top")
  /\ UNCHANGED <<top, blocks, nodes, cmd, i, reply, fault, ghosts>>

\* sm->top++ loads and stores.
LoadTop(c) ==
  /\ pc[c] = "load_top"
  /\ reg' = [reg EXCEPT ![c] = <<top>>]
  /\ Goto(c, "store_top")
  /\ UNCHANGED <<map, nodes, cmd, i, reply, fault, ghosts>>

StoreTop(c) ==
  /\ pc[c] = "store_top"
  /\ top' = reg[c][1] + 1
  /\ reg' = [reg EXCEPT ![c] = <<>>]
  /\ Goto(c, "put_key")
  /\ UNCHANGED <<capacity, keys, values, blocks, nodes, cmd, i, reply, fault, ghosts>>

\* Writes x to slot n of block b, or faults.
Write(b, n, x, next) ==
  IF n \notin DOMAIN blocks[b] THEN Fault
  ELSE /\ blocks' = [blocks EXCEPT ![b][n] = x]
       /\ UNCHANGED <<top, capacity, keys, values>>
       /\ next

PutKey(c) ==
  /\ pc[c] = "put_key"
  /\ Write(keys, top, c,
           /\ Goto(c, "put_value")
           /\ UNCHANGED <<nodes, cmd, i, reg, reply, fault, ghosts>>)

PutValue(c) ==
  /\ pc[c] = "put_value"
  /\ Write(values, top, c, Finish(c, "OK") /\ UNCHANGED nodes)

-----------------------------------------------------------------------------
(* __upgrade: the pairs change places, and SET frees the old one.          *)

UpRead(c) ==
  LET k == Slot(keys, i[c])
      v == Slot(values, i[c])
  IN  /\ pc[c] = "up_read"
      /\ IF i[c] > top THEN SetFails(c)
         ELSE IF ~ IsWrapper(k) \/ ~ IsWrapper(v) THEN Fault
         ELSE /\ reg' = [reg EXCEPT ![c] = <<wkey[k], wval[v]>>]
              /\ Goto(c, "up_value")
              /\ UNCHANGED <<map, nodes, cmd, i, reply, fault, ghosts>>

UpValue(c) ==
  LET v == Slot(values, i[c])
  IN  /\ pc[c] = "up_value"
      /\ IF ~ IsWrapper(v) THEN Fault
         ELSE /\ wval' = [wval EXCEPT ![v] = c]
              /\ Goto(c, "up_key")
              /\ UNCHANGED <<map, wkey, freed, cmd, i, reg, reply, fault, ghosts>>

UpKey(c) ==
  LET k == Slot(keys, i[c])
  IN  /\ pc[c] = "up_key"
      /\ IF ~ IsWrapper(k) THEN Fault
         ELSE /\ wkey' = [wkey EXCEPT ![k] = c]
              /\ Goto(c, "free_up")
              /\ UNCHANGED <<map, wval, freed, cmd, i, reg, reply, fault, ghosts>>

\* Mutant: the new pair is freed.
FreeUp_new(c) ==
  /\ pc[c] = "free_up"
  /\ FreeAndFinish(c, c, c, "OK")

\* NX, which had not found the key, answers nil and forgets the old pair.
FreeUp(c) ==
  /\ pc[c] = "free_up"
  /\ IF cmd[c].kind = "NX" THEN Finish(c, "nil") /\ UNCHANGED <<map, nodes>>
                           ELSE FreeAndFinish(c, reg[c][1], reg[c][2], "OK")

-----------------------------------------------------------------------------
(* remove_key behind the scan.                                             *)

\* One slot of both arrays moves down.
Shift(c) ==
  LET n == i[c]
  IN  /\ pc[c] = "shift"
      /\ IF n = top THEN Jump(c, "clear", n)
         ELSE IF n + 1 \notin DOMAIN blocks[keys] \/ n + 1 \notin DOMAIN blocks[values] THEN Fault
         ELSE /\ blocks' = [blocks EXCEPT ![keys][n] = blocks[keys][n + 1],
                                          ![values][n] = blocks[values][n + 1]]
              /\ i' = [i EXCEPT ![c] = n + 1]
              /\ UNCHANGED <<top, capacity, keys, values, nodes, cmd, pc, reg, reply, fault, ghosts>>

Clear(c) ==
  /\ pc[c] = "clear"
  /\ IF i[c] \notin DOMAIN blocks[keys] \/ i[c] \notin DOMAIN blocks[values] THEN Fault
     ELSE /\ blocks' = [blocks EXCEPT ![keys][i[c]] = NULL, ![values][i[c]] = NULL]
          /\ reg' = [reg EXCEPT ![c] = Append(@, top)]
          /\ Goto(c, "drop_top")
          /\ UNCHANGED <<top, capacity, keys, values, nodes, cmd, i, reply, fault, ghosts>>

DropTop(c) ==
  /\ pc[c] = "drop_top"
  /\ top' = reg[c][3] - 1
  /\ Goto(c, "free_rm")
  /\ UNCHANGED <<capacity, keys, values, blocks, nodes, cmd, i, reg, reply, fault, ghosts>>

FreeRm(c) ==
  /\ pc[c] = "free_rm"
  /\ FreeAndFinish(c, reg[c][1], reg[c][2], "nil")

Step(c) ==
  \/ Scan(c) \/ Read(c) \/ Decline(c) \/ Use(c) \/ Expired(c)
  \/ IsFull(c) \/ GrowKeys(c) \/ GrowValues(c) \/ Publish(c)
  \/ LoadTop(c) \/ StoreTop(c) \/ PutKey(c) \/ PutValue(c)
  \/ UpRead(c) \/ UpValue(c) \/ UpKey(c) \/ FreeUp(c)
  \/ Shift(c) \/ Clear(c) \/ DropTop(c) \/ FreeRm(c)

Next ==
  /\ ~ fault
  /\ \E c \in Call :
       \/ \E command \in [kind : Kind, name : Name] : Start(c, command)
       \/ Step(c)

Spec == Init /\ [][Next]_vars

-----------------------------------------------------------------------------
(* Properties.                                                             *)

\* The array pointers name blocks, wrappers point to nodes of started calls,
\* and a finished call has an answer.
TypeOK ==
  /\ top \in -(Cardinality(Call) + 1) .. Cardinality(Call) /\ capacity \in Nat \ {0}
  /\ keys \in 1 .. Len(blocks) /\ values \in 1 .. Len(blocks)
  /\ \A b \in 1 .. Len(blocks) : \A n \in DOMAIN blocks[b] : blocks[b][n] \in Call \cup {NULL, UNDEF}
  /\ \A c \in Call : {wkey[c], wval[c]} \subseteq Call \cup {NULL}
  /\ \A c \in Call : pc[c] = "done" => reply[c] \in Call \cup {"OK", "nil", "empty", "error"}

\* The names and pairs a scan of the quiet map would find.
Entries == [n \in Name |->
  LET at == {m \in 0 .. top : IsWrapper(Slot(keys, m)) /\ cmd[wkey[Slot(keys, m)]].name = n}
  IN  IF at = {} THEN NULL
      ELSE LET m == CHOOSE m \in at : \A l \in at : m =< l
           IN  wval[Slot(values, m)]]

\* Calls that leave the map alone may overlap as they like.  As long as no SET
\* and no removing GET overlaps another call, no access faults, every answer is
\* that of a dictionary, and whenever the map is quiet it is that dictionary.
SafeWithoutOverlap ==
  /\ TypeOK
  /\ ~ overlap =>
       /\ ~ fault /\ ~ wrong
       /\ Quiet => Entries = ref

\* Overlapping SETs can leave an empty slot below top.  From then on a SET that
\* runs alone either replaces an entry in front of that slot or is refused: no
\* new key is ever stored.
NothingNewBehindHole ==
  LET c == window.call
  IN  (/\ Quiet /\ ~ fault /\ window.hole /\ ~ window.overlap
       /\ cmd[c].kind # "GET" /\ reply[c] = "OK")
        => \E n \in 0 .. top :
             /\ IsWrapper(Slot(keys, n)) /\ wkey[Slot(keys, n)] = c
             /\ \A m \in 0 .. n : Slot(keys, m) # NULL

\* NX sets a key only if it does not exist: of the NX calls for one name at
\* most one is answered OK while no key is ever removed.
OneNxWins ==
  \A c, d \in Call :
    (/\ reply[c] = "OK" /\ reply[d] = "OK"
     /\ cmd[c].kind = "NX" /\ cmd[d].kind = "NX" /\ cmd[c].name = cmd[d].name)
      => c = d
=============================================================================
