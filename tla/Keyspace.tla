----------------------------- MODULE Keyspace -----------------------------
(***************************************************************************)
(* What the commands SET and GET of src/src/cmd_handler.c promise a        *)
(* client: a map from names to values with an optional time of death.      *)
(*                                                                         *)
(* A key that died is invisible to GET, which then also collects it; how   *)
(* precisely the time of death is observed depends on the clock.  For the  *)
(* options NX, XX and GET of SET a key exists until it is collected.       *)
(* A SET that adds a key may fail for lack of memory.  When a key set with *)
(* EXAT or PXAT dies is left open: src/README.md:190 documents unix times, *)
(* which cmd_handler.c takes for lifetimes.  CmdHandler.tla implements     *)
(* this module.                                                            *)
(***************************************************************************)
EXTENDS Integers

CONSTANTS
  Name,      \* names of keys
  Command,   \* the SET commands that name a key and a value
  Life(_),   \* Life(c): how long the key set by c with EX or PX lives, 0 for ever
  Kilo,      \* lives are counted in this part of a tick
  Blur(_),   \* Blur(t): how far death may be misjudged at the time t, in ticks
  NULL

VARIABLES
  store,  \* store[n]: NULL, or the value and when it was set to die (0: never)
  now,    \* the clock
  call,   \* the last command
  reply   \* and its reply

vars == <<store, now, call, reply>>

Init ==
  /\ store = [n \in Name |-> NULL]
  /\ now \in Nat
  /\ call = NULL
  /\ reply = NULL

Old(n) == IF store[n] = NULL THEN "nil" ELSE store[n].val

\* An expiry together with any other option is parsed but not implemented.
Implemented(c) == c.opt = NULL \/ (c.nxxx = NULL /\ ~ c.get)

Allowed(c) ==
  /\ c.nxxx = "NX" => store[c.name] = NULL
  /\ c.nxxx = "XX" => store[c.name] # NULL

\* The time d is one at which a key set by c may be due to die.
Due(c, d) ==
  IF c.opt \in {"EXAT", "PXAT"} THEN d \in Nat
  ELSE d = IF Life(c) = 0 THEN 0 ELSE now * Kilo + Life(c)

Put(c) ==
  /\ Implemented(c) /\ Allowed(c)
  /\ store'[c.name] # NULL /\ Due(c, store'[c.name].dies)
  /\ store' = [store EXCEPT ![c.name] = [val |-> c.val, dies |-> store'[c.name].dies]]
  /\ reply' = IF c.get THEN Old(c.name) ELSE "OK"

\* The condition does not hold.
Decline(c) ==
  /\ Implemented(c) /\ ~ Allowed(c)
  /\ store' = store
  /\ reply' = IF c.get THEN Old(c.name) ELSE "nil"

\* Nothing is done: not implemented, or no memory for a new key.
Fail(c) ==
  /\ ~ Implemented(c) \/ (Allowed(c) /\ store[c.name] = NULL)
  /\ store' = store
  /\ reply' = CASE ~ Implemented(c) \/ (c.get /\ c.nxxx = NULL)  -> "error"
                [] Implemented(c) /\ c.nxxx = "NX"               -> "nil"
                [] OTHER                                         -> "empty"

Set(c) ==
  /\ call' = c
  /\ now' = now
  /\ Put(c) \/ Decline(c) \/ Fail(c)

\* The time of death is past by more than err ticks.
Dead(n, err) == store[n] # NULL /\ store[n].dies # 0 /\ (now - err) * Kilo > store[n].dies

Get(n) ==
  /\ call' = n
  /\ now' = now
  /\ \/ /\ Dead(n, -Blur(now))
        /\ store' = [store EXCEPT ![n] = NULL] /\ reply' = "nil"
     \/ /\ ~ Dead(n, Blur(now))
        /\ store' = store /\ reply' = Old(n)

\* A command without a key or a value.
Blank ==
  /\ reply' = "error"
  /\ call' = NULL
  /\ UNCHANGED <<store, now>>

Tick == now' \in Nat /\ now' > now /\ UNCHANGED <<store, call, reply>>

Next == (\E c \in Command : Set(c)) \/ (\E n \in Name : Get(n)) \/ Blank \/ Tick

Spec == Init /\ [][Next]_vars
=============================================================================
