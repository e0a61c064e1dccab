------------------------------ MODULE RdbParser ------------------------------
(***************************************************************************)
(* The start of an RDB parser in src/src/rdb_file_parser.c, which nothing  *)
(* calls yet.  A file is its header and then a sequence of items, each     *)
(* what one pass of the parser consumes: an opcode, a string with its      *)
(* length (in 6, 14 or 32 bits), a BAD string (the end of the file cuts it *)
(* or its length off, or the length reads as -1), or a value in a SPECIAL  *)
(* format.  A string whose length cannot be allocated is its length alone. *)
(***************************************************************************)
EXTENDS Integers, Sequences

CONSTANT MaxItems  \* bound: items of a file

ASSUME RdbAssumption == MaxItems \in Nat

VARIABLES
  CharIsSigned,    \* whether the compiler's char is signed
  file,            \* [header |-> whether it is right, items |-> the rest]
  rdb_pc, pos,     \* pos: items consumed
  prev_state, next_state,
  reading,         \* READING_KEY or READING_VALUE
  kvp_arr,         \* the items whose strings are in it
  fields,          \* the pairs given to auxiliary_field_settings
  leaked,          \* the items whose buffers were never freed
  is_correct       \* is_rdb_file_correct

given == <<CharIsSigned, file>>
rdb_vars == <<given, rdb_pc, pos, prev_state, next_state, reading, kvp_arr, fields, leaked, is_correct>>

Opcode == {"AUX", "SELECTDB", "OPCODE"}
Item == Opcode \cup {"STRING", "BAD", "SPECIAL"}

Files == [header : BOOLEAN, items : UNION {[1 .. n -> Item] : n \in 0 .. MaxItems}]

RdbInit ==
  /\ CharIsSigned \in BOOLEAN
  /\ file \in Files
  /\ rdb_pc = "header" /\ pos = 0
  /\ prev_state = "VERSION" /\ next_state = "none"
  /\ reading = "READING_KEY" /\ kvp_arr = << >>
  /\ fields = << >> /\ leaked = {} /\ is_correct = TRUE

AtEnd == pos = Len(file.items)

-----------------------------------------------------------------------------

\* The magic number and the version; a file that cannot be opened counts as one
\* without them.
parse_rdb_header ==
  /\ rdb_pc = "header"
  /\ rdb_pc' = IF file.header THEN "first" ELSE "returned"
  /\ UNCHANGED <<given, pos, prev_state, next_state, reading, kvp_arr, fields, leaked, is_correct>>

\* next_state is not initialised if there is nothing behind the header; a zero
\* byte, the length of an empty string, ends the parser.
FirstState ==
  /\ rdb_pc = "first"
  /\ \/ /\ ~ AtEnd
        /\ next_state' = file.items[pos + 1] /\ pos' = pos + 1
        /\ rdb_pc' = "loop" \/ (next_state' = "STRING" /\ rdb_pc' = "returned")
     \/ /\ AtEnd
        /\ \/ next_state' \in Item /\ rdb_pc' = "loop"
           \/ next_state' = "none" /\ rdb_pc' = "returned"
        /\ UNCHANGED pos
  /\ UNCHANGED <<given, prev_state, reading, kvp_arr, fields, leaked, is_correct>>

\* The while loop's exit.
Leave ==
  /\ rdb_pc = "loop" /\ ~ is_correct
  /\ rdb_pc' = "returned"
  /\ UNCHANGED <<given, pos, prev_state, next_state, reading, kvp_arr, fields, leaked, is_correct>>

\* Every state but AUX only goes round the loop.
Spin == rdb_pc = "loop" /\ is_correct /\ next_state # "AUX" /\ UNCHANGED rdb_vars

\* A signed char never equals 0xFA; a second AUX has another predecessor.
AuxAllowed == ~ CharIsSigned /\ prev_state = "VERSION"

\* Mutant: the message only.
Refuse_silent == UNCHANGED is_correct

Refuse == is_correct' = FALSE

handle_aux_state ==
  /\ rdb_pc = "loop" /\ is_correct /\ next_state = "AUX"
  /\ \/ /\ ~ AuxAllowed
        /\ Refuse
        /\ UNCHANGED <<rdb_pc, pos, prev_state, next_state>>
     \/ /\ AuxAllowed
        /\ prev_state' = "AUX"
        /\ \/ AtEnd /\ is_correct' = FALSE /\ UNCHANGED <<rdb_pc, pos, next_state>>
           \/ /\ ~ AtEnd
              /\ next_state' = file.items[pos + 1] /\ pos' = pos + 1
              /\ IF next_state' \in Opcode  \* parse_aux: a file without fields
                 THEN is_correct' = (next_state' = "SELECTDB") /\ UNCHANGED rdb_pc
                 ELSE rdb_pc' = "field" /\ UNCHANGED is_correct
  /\ reading' = "READING_KEY"
  /\ UNCHANGED <<given, kvp_arr, fields, leaked>>

\* parse_aux gives up: deallocate_arr frees what kvp_arr holds.
Invalid == rdb_pc' = "loop" /\ is_correct' = FALSE /\ kvp_arr' = << >>

\* Mutant: a value is taken for the next key.
Settle_value(item) ==
  IF reading = "READING_KEY"
  THEN reading' = "READING_VALUE" /\ kvp_arr' = <<item>> /\ UNCHANGED fields
  ELSE /\ kvp_arr' = <<item>>
       /\ fields' = Append(fields, <<kvp_arr[1], item>>)
       /\ UNCHANGED reading

\* label_len_encoding_and_get_str on a string: a key waits for its value, and
\* with it goes to auxiliary_field_settings and is freed.
Settle(item) ==
  IF reading = "READING_KEY"
  THEN reading' = "READING_VALUE" /\ kvp_arr' = <<item>> /\ UNCHANGED fields
  ELSE /\ reading' = "READING_KEY" /\ kvp_arr' = << >>
       /\ fields' = Append(fields, <<kvp_arr[1], item>>)

\* A turn of parse_aux's loop, up to the fread of the next item.
parse_aux ==
  /\ rdb_pc = "field"
  /\ \/ /\ next_state = "BAD"  \* the length, or get_str, fails
        /\ Invalid
        /\ UNCHANGED <<reading, fields, leaked>>
     \/ /\ next_state = "SPECIAL"
        /\ Invalid
        /\ leaked' = leaked \cup {pos}
        /\ UNCHANGED <<reading, fields>>
     \/ /\ next_state = "STRING"
        /\ Settle(pos)
        /\ rdb_pc' = "next"
        /\ UNCHANGED <<leaked, is_correct>>
  /\ UNCHANGED <<given, pos, prev_state, next_state>>

\* The end of the loop; a key without value is forgotten at an opcode.
NextField ==
  /\ rdb_pc = "next"
  /\ \/ AtEnd /\ Invalid /\ UNCHANGED <<pos, next_state, leaked>>
     \/ /\ ~ AtEnd
        /\ next_state' = file.items[pos + 1] /\ pos' = pos + 1
        /\ IF next_state' \in Opcode
           THEN rdb_pc' = "loop" /\ leaked' = leaked \cup {kvp_arr[n] : n \in DOMAIN kvp_arr}
           ELSE rdb_pc' = "field" /\ UNCHANGED leaked
        /\ UNCHANGED <<kvp_arr, is_correct>>
  /\ UNCHANGED <<given, prev_state, reading, fields>>

RdbTerminated == rdb_pc = "returned" /\ UNCHANGED rdb_vars

RdbNext ==
  \/ parse_rdb_header \/ FirstState \/ Leave \/ Spin \/ handle_aux_state
  \/ parse_aux \/ NextField \/ RdbTerminated

RdbSpec == RdbInit /\ [][RdbNext]_rdb_vars /\ WF_rdb_vars(RdbNext)

-----------------------------------------------------------------------------
(* Properties.                                                             *)

\* The fields found are the strings behind the first AUX, two by two and in
\* their order.
FieldsPairUp ==
  \A n \in DOMAIN fields :
    /\ fields[n] = <<2 * n, 2 * n + 1>>
    /\ file.items[1] = "AUX" /\ \A k \in 2 .. 2 * n + 1 : file.items[k] = "STRING"

\* Buffers are lost only to a value in a special format and to a key that an
\* opcode follows; a file that ends early loses none.
LeakCauses ==
  /\ \A n \in leaked : file.items[n] = "SPECIAL" \/ (n % 2 = 0 /\ file.items[n + 1] \in Opcode)
  /\ rdb_pc = "returned" /\ leaked = {} => kvp_arr = << >>

\* A second AUX is never followed: the parser reads one run of fields.
OneAux == rdb_pc \in {"field", "next"} => \A n \in 2 .. pos : file.items[n] # "AUX"

\* Where char is signed, as on x86, next_state holds -6 in handle_aux_state and
\* never equals 0xFA: no file gets past its first opcode.
SignedReadsNoField == CharIsSigned => pos <= 1 /\ fields = << >>

\* The auxiliary fields are found, paired and freed as the file has them.
AuxFields == FieldsPairUp /\ LeakCauses /\ OneAux /\ SignedReadsNoField

\* Whatever the file, the parser returns, unless it meets an opcode it has no
\* code for: there it goes round its loop for ever.
ReturnsOrSpins == <>(rdb_pc = "returned" \/ (rdb_pc = "loop" /\ is_correct /\ next_state # "AUX"))
=============================================================================
