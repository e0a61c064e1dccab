---------------------------- MODULE CmdHandler ----------------------------
(***************************************************************************)
(* The execution of SET and GET in src/src/cmd_handler.c, on the map of    *)
(* simple_map.c, by one worker: execute_set_cmd and the functions it       *)
(* calls, handle_get_cmd and has_key_expired.  A command is one step.      *)
(*                                                                         *)
(* Key and value nodes have identities: heap holds the allocated ones, so  *)
(* that what a command keeps, hands back or forgets can be followed.  The  *)
(* key node of a GET is freed on every path and does not show.  Neither do *)
(* the KeyValuePair wrappers, whose callocs always find memory (with none  *)
(* for the lookup of an NX, a key that exists would be replaced).          *)
(***************************************************************************)
EXTENDS SimpleMapOps, ExpiryClock

CONSTANTS
  Name, Value,  \* non-empty key and value contents
  Id,           \* identities of nodes
  Numeral,      \* numbers a client may give as an expiry
  UintSize,     \* 2^32: how many values an unsigned int has
  Clock         \* bound: the times at which a command may come

ASSUME NumeralAssumption ==
  /\ Numeral \subseteq Nat
  /\ UintSize \in Nat \ {0} /\ \E u \in Ulps : UintSize < Digits * u
  /\ Clock \subseteq 0 .. MaxTime
ASSUME NameAssumption ==
  /\ NULL \notin Name \cup {"NX", "XX", "EX", "PX", "EXAT", "PXAT"}
  /\ Value \cap {"OK", "nil", "error", "empty"} = {}

KeyNode == [name : Name, ex : Nat, px : Nat, time : Nat, id : Id]
ValueNode == [val : Value, id : Id]

ASSUME NodeAssumption ==
  /\ NULL \notin KeyNode /\ NULL \notin [key : KeyNode, value : ValueNode]
  /\ NULL \notin [val : Value, dies : Nat]

\* What parsed_cmd holds once validate_set_cmd accepted the arguments; the key
\* and the value are not empty (see HandleRefused).
Command ==
  [name : Name, val : Value, nxxx : {NULL, "NX", "XX"}, get : BOOLEAN,
   opt : {NULL}, time : {NULL}]
  \cup
  [name : Name, val : Value, nxxx : {NULL, "NX", "XX"}, get : BOOLEAN,
   opt : {"EX", "PX", "EXAT", "PXAT"}, time : Numeral]

VARIABLES
  sm,    \* the map
  heap,  \* the allocated key and value nodes
  now,   \* CLOCK_MONOTONIC, in ticks
  call,  \* the last command
  reply  \* and its reply; "error" is the message app_code sends for NULL

vars == <<sm, heap, now, call, reply>>

Init ==
  /\ sm = create_simple_map
  /\ heap = {}
  /\ now \in Clock
  /\ call = NULL
  /\ reply = NULL

-----------------------------------------------------------------------------
(* Nodes.                                                                  *)

\* enum SET_STATES, as sets of bits.
SET_BASIC == {6, 5, 4}
SET_NXXX == SET_BASIC \cup {3}
SET_GET == SET_BASIC \cup {2}
SET_EX_PX_EXAL_PXAT == SET_BASIC \cup {1, 0}
SET_NXXX_GET == SET_BASIC \cup {3, 2}

\* The state validate_set_cmd leaves: a bit for each slot of parsed_cmd.
StateOf(cmd) ==
  SET_BASIC \cup (IF cmd.nxxx # NULL THEN {3} ELSE {})
            \cup (IF cmd.get THEN {2} ELSE {})
            \cup (IF cmd.opt # NULL THEN {1, 0} ELSE {})

create_key_node(name, id) == [name |-> name, ex |-> 0, px |-> 0, time |-> now, id |-> id]
create_value_node(val, id) == [val |-> val, id |-> id]

\* clean_up_kv: the nodes it frees.
clean_up_kv(key, value) == {<<"key", key.id>>, <<"value", value.id>>}

string_to_uint(numeral) == numeral % UintSize

\* Mutant: the clock is kept in an unsigned int.
has_key_expired_wraps(curr_time, key) ==
  (key.ex # 0 \/ key.px # 0) /\ Exceeds(curr_time % UintSize, key)

has_key_expired(curr_time, key) == (key.ex # 0 \/ key.px # 0) /\ Exceeds(curr_time, key)

-----------------------------------------------------------------------------
(* SET.  Each function returns the map, the nodes it freed and the reply.  *)

Outcome(m, freed, rep) == [sm |-> m, freed |-> freed, reply |-> rep]

\* The value to hand out for a pair that get returned, or nil.
ValueOf(pair) == IF pair = NULL THEN "nil" ELSE pair.value.val

\* Mutant: frees the pair it was called with although set swapped it.
execute_set_basic_frees_new(key, value, mem) ==
  LET r == set(sm, key, value, mem)
  IN  CASE r.rtn = ERROR_SET_SM_RTN -> Outcome(r.sm, clean_up_kv(key, value), "empty")
        [] r.rtn = SUCESS_SET       -> Outcome(r.sm, {}, "OK")
        [] r.rtn = SUCESS_UPGRADE   -> Outcome(r.sm, clean_up_kv(key, value), "OK")

execute_set_basic(key, value, mem) ==
  LET r == set(sm, key, value, mem)
  IN  CASE r.rtn = ERROR_SET_SM_RTN -> Outcome(r.sm, clean_up_kv(r.key, r.value), "empty")
        [] r.rtn = SUCESS_SET       -> Outcome(r.sm, {}, "OK")
        [] r.rtn = SUCESS_UPGRADE   -> Outcome(r.sm, clean_up_kv(r.key, r.value), "OK")

execute_set_get(key, value, mem) ==
  LET r == set(sm, key, value, mem)
  IN  CASE r.rtn = ERROR_SET_SM_RTN -> Outcome(r.sm, clean_up_kv(r.key, r.value), "error")
        [] r.rtn = SUCESS_SET       -> Outcome(r.sm, {}, "nil")
        [] r.rtn = SUCESS_UPGRADE   ->
             Outcome(r.sm, clean_up_kv(r.key, r.value), r.value.val)

\* Mutant: a declined SET forgets the new pair.
execute_set_nx_xx_leaks(key, value, option, mem) ==
  LET old_kvp == get(sm, key)
      r == set(sm, key, value, mem)
  IN  CASE option = "NX" /\ old_kvp = NULL ->
             Outcome(r.sm, {}, IF r.rtn = SUCESS_SET THEN "OK" ELSE "nil")
        [] option = "XX" /\ old_kvp # NULL ->
             Outcome(r.sm, clean_up_kv(r.key, r.value), "OK")
        [] OTHER -> Outcome(sm, {}, "nil")

execute_set_nx_xx(key, value, option, mem) ==
  LET old_kvp == get(sm, key)
      r == set(sm, key, value, mem)
  IN  CASE option = "NX" /\ old_kvp = NULL ->
             Outcome(r.sm, {}, IF r.rtn = SUCESS_SET THEN "OK" ELSE "nil")
        [] option = "XX" /\ old_kvp # NULL ->
             IF r.rtn = SUCESS_UPGRADE
             THEN Outcome(r.sm, clean_up_kv(r.key, r.value), "OK")
             ELSE Outcome(r.sm, {}, "nil")
        [] OTHER -> Outcome(sm, clean_up_kv(key, value), "nil")

\* The old value is read first, then NX or XX is carried out.
execute_set_nxxx_get(key, value, option, mem) ==
  [execute_set_nx_xx(key, value, option, mem) EXCEPT !.reply = ValueOf(get(sm, key))]

\* EXAT and PXAT are taken for EX and PX.
WithExpiry(key, opt, time) ==
  IF opt \in {"EX", "EXAT"} THEN [key EXCEPT !.ex = string_to_uint(time)]
                            ELSE [key EXCEPT !.px = string_to_uint(time)]

execute_set_ex_px_exat_pxat(key, value, opt, time, mem) ==
  execute_set_basic(WithExpiry(key, opt, time), value, mem)

\* The combinations without a case of their own return NULL and free nothing.
execute_set_cmd(cmd, key, value, mem) ==
  LET state == StateOf(cmd)
  IN  CASE state = SET_BASIC    -> execute_set_basic(key, value, mem)
        [] state = SET_GET      -> execute_set_get(key, value, mem)
        [] state = SET_NXXX     -> execute_set_nx_xx(key, value, cmd.nxxx, mem)
        [] state = SET_NXXX_GET -> execute_set_nxxx_get(key, value, cmd.nxxx, mem)
        [] state = SET_EX_PX_EXAL_PXAT ->
             execute_set_ex_px_exat_pxat(key, value, cmd.opt, cmd.time, mem)
        [] OTHER -> Outcome(sm, {}, "error")

\* handle_set_cmd behind the validation.  The identity is any free one; mem
\* says which realloc finds no memory, if a new key meets a full map and there
\* is one.
HandleSet(cmd, id, mem) ==
  LET key   == create_key_node(cmd.name, id)
      value == create_value_node(cmd.val, id)
      new   == {<<"key", id>>, <<"value", id>>}
      r     == execute_set_cmd(cmd, key, value, mem)
  IN  /\ new \cap heap = {}
      /\ mem = "ok" \/ (is_full(sm) /\ find(sm, key) = KEY_NOT_FOUND)
      /\ sm' = r.sm
      /\ heap' = (heap \cup new) \ r.freed
      /\ reply' = r.reply
      /\ call' = cmd
      /\ UNCHANGED now

\* A command that fails before the map is looked at: an empty key or value
\* (create_key_node and create_value_node return NULL, the key node is freed),
\* or arguments validate_set_cmd or is_cmd_valid refuse.
HandleRefused ==
  /\ reply' = "error"
  /\ call' = NULL
  /\ UNCHANGED <<sm, heap, now>>

-----------------------------------------------------------------------------
(* GET.                                                                    *)

HandleGet(name) ==
  LET key == create_key_node(name, NULL)
      kvp == get(sm, key)
      rmv == remove_key(sm, key)
  IN  /\ call' = name
      /\ UNCHANGED now
      /\ IF kvp # NULL /\ has_key_expired(key.time, kvp.key)
         THEN /\ sm' = rmv.sm
              /\ heap' = IF rmv.rtn = "REMOVE_SUCCESS"
                         THEN heap \ clean_up_kv(rmv.pair.key, rmv.pair.value)
                         ELSE heap
              /\ reply' = IF rmv.rtn = "REMOVE_ERROR" THEN "error" ELSE "nil"
         ELSE /\ reply' = ValueOf(kvp)
              /\ UNCHANGED <<sm, heap>>

\* Any time may pass until the next command.
Tick ==
  /\ now' \in {t \in Clock : t > now}
  /\ UNCHANGED <<sm, heap, call, reply>>

Next ==
  \/ \E cmd \in Command, id \in Id, mem \in Memory : HandleSet(cmd, id, mem)
  \/ \E name \in Name : HandleGet(name)
  \/ HandleRefused
  \/ Tick

Spec == Init /\ [][Next]_vars

-----------------------------------------------------------------------------
(* Properties.                                                             *)

\* The map's arrays fit its capacity, and its used slots hold nodes.  What call
\* and reply hold after a step is the matter of ImplementsKeyspace.
TypeOK ==
  /\ sm.capacity \in Nat \ {0}
  /\ sm.top \in -1 .. sm.capacity - 1
  /\ DOMAIN sm.keys = 0 .. sm.capacity - 1 /\ DOMAIN sm.values = 0 .. sm.capacity - 1
  /\ \A i \in Used(sm) : sm.keys[i] \in KeyNode /\ sm.values[i] \in ValueNode
  /\ heap \subseteq {"key", "value"} \X Id
  /\ now \in Nat

Nodes == UNION {clean_up_kv(sm.keys[i], sm.values[i]) : i \in Used(sm)}

\* The map never points to a node that was freed, no two entries share a node,
\* and the key and the value of an entry come from the same SET.
StoreOwnsNodes ==
  /\ TypeOK
  /\ Nodes \subseteq heap
  /\ \A i, j \in Used(sm) :
       (sm.keys[i].id = sm.keys[j].id \/ sm.values[i].id = sm.values[j].id) => i = j
  /\ \A i \in Used(sm) : sm.keys[i].id = sm.values[i].id

\* Nodes nobody will ever free.
Leaked == heap \ Nodes

\* Nodes are forgotten in two cases only: a combination of options that has no
\* case in execute_set_cmd, and an NX of an absent key for which a full map found
\* no memory.  A SET that is declined, or that replaces a key, forgets nothing.
LeakStep ==
  Leaked' # Leaked =>
    /\ Leaked \subseteq Leaked'
    /\ call' \in Command /\ reply' # "OK"
    /\ \/ StateOf(call') \notin {SET_BASIC, SET_GET, SET_NXXX, SET_NXXX_GET,
                                 SET_EX_PX_EXAL_PXAT}
       \/ /\ call'.nxxx = "NX" /\ reply' = "nil" /\ sm' = sm
          /\ is_full(sm) /\ \A i \in Used(sm) : sm.keys[i].name # call'.name
LeakOnlyThere == [][LeakStep]_vars

\* The keyspace the map stands for; its times are in ticks times Kilo, so that
\* a millisecond is a whole number.
Life(c) == CASE c.opt = "EX" -> (c.time % UintSize) * TicksPerSec * Kilo
             [] c.opt = "PX" -> (c.time % UintSize) * TicksPerSec
             [] OTHER        -> 0
Dies(key) == CASE key.ex # 0                -> (key.time + key.ex * TicksPerSec) * Kilo
               [] key.ex = 0 /\ key.px # 0  -> key.time * Kilo + key.px * TicksPerSec
               [] OTHER                     -> 0
store == [n \in Name |->
  LET at == {i \in Used(sm) : sm.keys[i].name = n}
  IN  IF at = {} THEN NULL
      ELSE LET i == CHOOSE i \in at : TRUE
           IN  [val |-> sm.values[i].val, dies |-> Dies(sm.keys[i])]]

Keys == INSTANCE Keyspace

\* SET and GET behave as on a keyspace: the reply and the effect of a command
\* are what the last SET of the key and the clock say, up to the rounding of the
\* clock, whatever the arrays and the hand-over of nodes went through before.
\* Of the time of death an EXAT or PXAT sets it says nothing: src/README.md:190
\* has it as a unix time, WithExpiry as a lifetime.
ImplementsKeyspace == Keys!Spec

\* Expiry is for good: the rounding of has_key_expired never brings back a key
\* that has expired.
StaysExpired ==
  [][now' # now => \A i \in Used(sm) :
       has_key_expired(now, sm.keys[i]) => has_key_expired(now', sm.keys[i])]_vars
=============================================================================
