------------------------------ MODULE Dispatch ------------------------------
(***************************************************************************)
(* From start-up to the answer of ECHO and CONFIG GET: setup and           *)
(* cli_parser (src/src/util.c), then one call of parse_command,            *)
(* find_redis_cmd, handle_conf_cmd and handle_conf_get                     *)
(* (src/src/cmd_handler.c) with the map's iterator                         *)
(* (src/src/simple_map.c).  A request is the depth of the arrays around    *)
(* its first string, and the words from that string on; behind ECHO they   *)
(* are the nodes of Echo.tla.  A step is a turn of one of the loops.       *)
(***************************************************************************)
EXTENDS SimpleMapOps, Sequences

CONSTANTS Request,   \* the requests: [depth, words]
          MatchedBy, \* fnmatch, external: the targets a pattern matches, folding case
          ARRAY,     \* a word that is an array
          UcharSize  \* unsigned char wraps here

ASSUME DispatchAssumption ==
  /\ UcharSize \in Nat \ {0}
  /\ \A r \in Request : {r.depth, Len(r.words)} \subseteq Nat \ {0} /\ r.words[1] # ARRAY

VARIABLES
  cmd_pc,
  config_dict,
  request,
  below,         \* arrays parse_command has still to enter
  first_array,   \* how often it has entered one
  item, i,       \* the table entry looked at, and the index of the next
  bnode,         \* the word of CONFIG GET looked at
  index,         \* of the iterator over config_dict
  inserted,      \* the pairs of key_array and value_array
  lost,          \* allocations nothing points to any more, by type
  oom,           \* some calloc has failed
  rtn            \* the command found, or the kind of answer

search == <<below, first_array, item, i>>
answer == <<bnode, index, inserted, lost, oom>>
cmd_vars == <<cmd_pc, config_dict, request, search, answer, rtn>>

command_table == <<"ECHO", "SET", "GET", "CONFIG">>
config_cmd_options == <<"GET", "SET">>

CmdInit ==
  /\ cmd_pc = "setup" /\ config_dict = NULL
  /\ request \in Request /\ below = request.depth
  /\ first_array = 0 /\ item = 0 /\ i = 0
  /\ bnode = 0 /\ index = 0 /\ inserted = << >>
  /\ lost = [kvp |-> 0, string |-> 0] /\ oom = FALSE
  /\ rtn = "none"

-----------------------------------------------------------------------------
(* Start-up.                                                               *)

\* cli_parser leaves an option's argument or its default in each value.  Of an
\* empty argument create_value_node_string makes no node.
Arguments == [{"dir", "dbfilename"} -> {"default", "option", "empty"}]
Entry(name, given) ==
  [key |-> [name |-> name],
   value |-> IF given[name] = "empty" THEN NULL ELSE [content |-> given[name]]]

\* setup: the two sets of an empty map, in this order; only the second grows it.
setup ==
  /\ cmd_pc = "setup"
  /\ \/ \E given \in Arguments, mem \in Memory :
          LET a == Entry("dir", given)
              b == Entry("dbfilename", given)
              one == set(create_simple_map, a.key, a.value, mem)
              two == set(one.sm, b.key, b.value, mem)
          IN  IF one.rtn = SUCESS_SET /\ two.rtn = SUCESS_SET
              THEN cmd_pc' = "parse" /\ config_dict' = two.sm
              ELSE cmd_pc' = "exit" /\ UNCHANGED config_dict
     \/ cmd_pc' = "exit" /\ UNCHANGED config_dict  \* cli_parser: a wrong option
  /\ UNCHANGED <<request, search, answer, rtn>>

-----------------------------------------------------------------------------
(* parse_command and find_redis_cmd.                                       *)

Answer(r) == cmd_pc' = "done" /\ rtn' = r

EnterArray ==
  /\ cmd_pc = "parse" /\ below > 0
  /\ below' = below - 1
  /\ first_array' = (first_array + 1) % UcharSize
  /\ UNCHANGED <<cmd_pc, config_dict, request, item, i, answer, rtn>>

FirstString ==
  /\ cmd_pc = "parse" /\ below = 0
  /\ \/ first_array = 1 /\ cmd_pc' = "find" /\ UNCHANGED rtn
     \/ first_array # 1 /\ Answer("NULL")
  /\ item' = 1 /\ i' = 1
  /\ UNCHANGED <<config_dict, request, below, first_array, answer>>

does_the_strings_match(pattern, target) == target \in MatchedBy[pattern]

\* Mutant: the index moves on twice.
NextItem_skips == item' = i /\ i' = i + 2

\* item = table[i++]: the first entry is looked at twice.
NextItem == item' = i /\ i' = i + 1

\* The command is known: CONFIG is looked at further, the others answer.  SET
\* and GET are the matter of CmdHandler, the text of ECHO of Echo.
Handle(cmd) ==
  \/ /\ cmd = "CONFIG"
     /\ cmd_pc' = "config" /\ item' = 1 /\ i' = 1
     /\ UNCHANGED rtn
  \/ /\ cmd # "CONFIG"
     /\ Answer(IF cmd = "ECHO" /\ Len(request.words) = 1 THEN "NULL" ELSE cmd)
     /\ UNCHANGED <<item, i>>

find_redis_cmd ==
  /\ cmd_pc = "find"
  /\ LET over == item > Len(command_table)
         match == ~ over /\ does_the_strings_match(command_table[item], request.words[1])
     IN  \/ over /\ Answer("NULL") /\ UNCHANGED <<item, i>>
         \/ match /\ Handle(command_table[item])
         \/ ~ over /\ ~ match /\ NextItem /\ UNCHANGED <<cmd_pc, rtn>>
  /\ UNCHANGED <<config_dict, request, below, first_array, answer>>

-----------------------------------------------------------------------------
(* CONFIG.                                                                 *)

IsString(n) == n <= Len(request.words) /\ request.words[n] # ARRAY

handle_conf_cmd ==
  /\ cmd_pc = "config"
  /\ LET over == ~ IsString(2) \/ item > Len(config_cmd_options)
         match == ~ over /\ does_the_strings_match(config_cmd_options[item], request.words[2])
         isGet == match /\ config_cmd_options[item] = "GET" /\ Len(request.words) > 2
     IN  \/ (over \/ (match /\ ~ isGet)) /\ Answer("NULL") /\ UNCHANGED <<item, i, bnode>>
         \/ isGet /\ cmd_pc' = "word" /\ bnode' = 3 /\ UNCHANGED <<item, i, rtn>>
         \/ ~ over /\ ~ match /\ NextItem /\ UNCHANGED <<cmd_pc, bnode, rtn>>
  /\ UNCHANGED <<config_dict, request, below, first_array, index, inserted, lost, oom>>

\* Mutant: the iterator is not started again for the next word.
init_simple_map_wrapper_once == IF bnode = 3 THEN 0 ELSE index

init_simple_map_wrapper == 0

\* Mutant: continue without moving on.
SkipArray_stuck == UNCHANGED bnode

SkipArray == bnode' = bnode + 1

\* The end of handle_conf_get: *0 or generate_conf_get_response.  Without memory
\* the second gives NULL, and strcpy writes to it for the first.
ConfAnswer ==
  \/ Answer(IF inserted = << >> THEN "*0" ELSE "pairs") /\ UNCHANGED oom
  \/ inserted # << >> /\ Answer("NULL") /\ oom' = TRUE
  \/ inserted = << >> /\ cmd_pc' = "crash" /\ oom' = TRUE /\ UNCHANGED rtn

\* The next word of CONFIG GET: an array is skipped, a string starts the
\* iterator; the answer follows the last.
ConfWord ==
  /\ cmd_pc = "word"
  /\ \/ /\ bnode <= Len(request.words) /\ IsString(bnode)
        /\ cmd_pc' = "pair" /\ index' = init_simple_map_wrapper
        /\ UNCHANGED <<bnode, rtn, lost, oom>>
     \/ /\ bnode <= Len(request.words) /\ ~ IsString(bnode)
        /\ SkipArray
        /\ UNCHANGED <<cmd_pc, index, rtn, lost, oom>>
     \/ /\ bnode > Len(request.words)
        /\ ConfAnswer
        /\ lost' = [lost EXCEPT !.string = 2 * Len(inserted)]
        /\ UNCHANGED <<bnode, index>>
  /\ UNCHANGED <<config_dict, request, search, inserted>>

\* is_it_possible_to_insert_the_str_in_array.
MayInsert(pair) == \A n \in DOMAIN inserted : inserted[n].key # pair.key

\* insert_key_value_str_to_str_array: an entry without a value is passed over.
\* Without memory for the key's string, strcmp reads NULL if there is another one
\* to compare it with.
InsertPair(pair) ==
  \/ pair.value = NULL /\ UNCHANGED <<cmd_pc, inserted, oom>>
  \/ /\ pair.value # NULL
     /\ inserted' = IF MayInsert(pair) THEN Append(inserted, pair) ELSE inserted
     /\ UNCHANGED <<cmd_pc, oom>>
  \/ /\ pair.value # NULL /\ inserted # << >>
     /\ cmd_pc' = "crash" /\ oom' = TRUE /\ UNCHANGED inserted
  \/ /\ pair.value # NULL
     /\ oom' = TRUE /\ UNCHANGED <<cmd_pc, inserted>>

\* continue passes by free(kvp) when the word does not match.
Miss(pair) == IF does_the_strings_match(request.words[bnode], pair.key.name) THEN 0 ELSE 1

\* One turn of the loop over the iterator; its end is the end of the word.
ConfPair ==
  /\ cmd_pc = "pair"
  /\ \/ /\ index > config_dict.top
        /\ cmd_pc' = "word" /\ bnode' = bnode + 1
        /\ UNCHANGED <<index, inserted, lost, oom>>
     \/ /\ index <= config_dict.top
        /\ index' = index + 1
        /\ LET pair == [key |-> config_dict.keys[index], value |-> config_dict.values[index]]
           IN  /\ IF does_the_strings_match(request.words[bnode], pair.key.name)
                  THEN InsertPair(pair) ELSE UNCHANGED <<cmd_pc, inserted, oom>>
               /\ lost' = [lost EXCEPT !.kvp = @ + Miss(pair)]
        /\ UNCHANGED bnode
  /\ UNCHANGED <<config_dict, request, search, rtn>>

Ended == {"done", "exit", "crash"}
CmdTerminated == cmd_pc \in Ended /\ UNCHANGED cmd_vars

CmdNext ==
  \/ setup \/ EnterArray \/ FirstString \/ find_redis_cmd
  \/ handle_conf_cmd \/ ConfWord \/ ConfPair \/ CmdTerminated

CmdSpec == CmdInit /\ [][CmdNext]_cmd_vars /\ WF_cmd_vars(CmdNext)

-----------------------------------------------------------------------------
(* Properties.                                                             *)

\* The loops stay inside their tables; in particular key_array and value_array,
\* with as many cells as config_dict has entries, are never written past their
\* end, however the words of CONFIG GET overlap.
CmdTypeOK ==
  /\ cmd_pc \in {"setup", "parse", "find", "config", "word", "pair"} \cup Ended
  /\ first_array \in 0 .. UcharSize - 1
  /\ item \in 0 .. Len(command_table) + 1 /\ i \in 0 .. Len(command_table) + 2
  /\ bnode \in 0 .. Len(request.words) + 1
  /\ cmd_pc \in {"word", "pair"} =>
       index \in 0 .. config_dict.top + 1 /\ Len(inserted) <= config_dict.top + 1

\* A word names the table entry that matches it: none is missed although the
\* loop's index lags behind, and nothing else is executed.
FindsCommand ==
  LET named == {n \in DOMAIN command_table :
                  does_the_strings_match(command_table[n], request.words[1])}
  IN  /\ cmd_pc = "done" /\ rtn \in {"ECHO", "SET", "GET"} => \E n \in named : rtn = command_table[n]
      /\ cmd_pc = "done" /\ rtn = "NULL" /\ first_array = 1 /\ named # {} =>
           \E n \in named : \/ command_table[n] = "CONFIG"
                            \/ command_table[n] = "ECHO" /\ Len(request.words) = 1
      /\ cmd_pc \in {"config", "word", "pair"} => "CONFIG" \in {command_table[n] : n \in named}

\* handle_conf_get was called and has returned.
IsConfGet == cmd_pc = "done" /\ bnode >= 3
Wanted(key) == \E n \in 3 .. Len(request.words) :
  IsString(n) /\ does_the_strings_match(request.words[n], key.name)

\* The entries to answer with; one of an empty option has no value to give.
Shown == {k \in Used(config_dict) :
            config_dict.values[k] # NULL /\ Wanted(config_dict.keys[k])}

\* Unless memory ran out, CONFIG GET answers with every entry some word matches
\* and that has a value, once, with its own value, and with *0 if there is none.
\* It never answers NULL, which the comment at cmd_handler.c:113 has for none.
ConfGetComplete ==
  IsConfGet =>
    /\ \A m, n \in DOMAIN inserted : m # n => inserted[m].key # inserted[n].key
    /\ {inserted[n] : n \in DOMAIN inserted} \subseteq
         {[key |-> config_dict.keys[k], value |-> config_dict.values[k]] : k \in Used(config_dict)}
    /\ ~ oom => {inserted[n].key : n \in DOMAIN inserted} =
                  {config_dict.keys[k] : k \in Shown}
    /\ ~ oom => rtn = IF Shown = {} THEN "*0" ELSE "pairs"

\* What a CONFIG GET leaves allocated: a pair for each word and entry that do
\* not match, and the strings the answer was put together from.
ConfGetLeaks ==
  IsConfGet =>
    lost = [kvp |-> Cardinality({nk \in (3 .. Len(request.words)) \X Used(config_dict) :
                        /\ IsString(nk[1])
                        /\ ~ does_the_strings_match(request.words[nk[1]], config_dict.keys[nk[2]].name)}),
              string |-> 2 * Len(inserted)]

\* CONFIG GET stays inside its arrays, answers completely and leaks what it leaks.
ConfGetCorrect == CmdTypeOK /\ ConfGetComplete /\ ConfGetLeaks

\* parse_command returns: none of its loops runs for ever.
Returns == <>(cmd_pc \in Ended)

\* A command is executed when its string is in one array; 256 more around it
\* make no difference, and nothing else does.
FlatOrWrapped == cmd_pc = "done" /\ rtn # "NULL" => request.depth % UcharSize = 1

\* The right command is executed, or none.
Dispatched == FindsCommand /\ FlatOrWrapped
=============================================================================
