---------------------------- MODULE MC_Dispatch ----------------------------
\* Constants for model checking Dispatch and Echo.
EXTENDS Echo

CONSTANTS Deep  \* depths of requests in more than one array

Pattern == {"*", "dir", "DIR", "db*", "port"}
MCMatchedBy ==
  [w \in Pattern \cup {"ECHO", "SET", "GET", "CONFIG"} |->
     CASE w = "*"             -> {"dir", "dbfilename"}
       [] w \in {"dir", "DIR"} -> {"dir"}
       [] w = "db*"           -> {"dbfilename"}
       [] w = "GET"           -> {"GET", "get"}
       [] OTHER               -> {w} \ {"port"}]

Short == {<<w>> : w \in {"ECHO", "SET", "GET", "CONFIG", "PING"}}
           \cup {<<"CONFIG", w>> : w \in {"GET", "SET", "x", ARRAY}}
ConfGet == UNION {{<<"CONFIG", "get">> \o s : s \in [1 .. n -> Pattern \cup {ARRAY}]} : n \in 1 .. 3}

\* Lists of up to n nodes; of strings, and of strings and arrays of these.
Lists(nodes, n) == UNION {[1 .. k -> nodes] : k \in 1 .. n}
Strings == {Bulk(<< >>), Bulk(<<"a">>)}
Nested(nodes, n) == nodes \cup {Array(l) : l \in Lists(nodes, n)}
EchoLists ==
  Lists(Nested(Strings, 3), 2) \cup Lists(Nested(Strings, 2), 3)
    \cup Lists(Nested(Nested({Bulk(<<"a">>)}, 2), 2), 2)
    \cup Lists({Bulk(<<"a", "NUL">>)}, 2)

MCRequest == {[depth |-> 1, words |-> w] : w \in Short \cup ConfGet}
               \cup {[depth |-> 1, words |-> <<"ECHO">> \o l] : l \in EchoLists}
               \cup {[depth |-> d, words |-> <<"GET", "dir">>] : d \in Deep}
=============================================================================
