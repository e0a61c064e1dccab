----------------------------- MODULE SetParser -----------------------------
(***************************************************************************)
(* The validation of SET arguments in src/src/cmd_handler.c:               *)
(* validate_set_cmd, set_cmd_stage_a, handle_set_options,                  *)
(* is_set_option_valid and __validate_px_ex_content.                       *)
(*                                                                         *)
(* The char that drives the parser is modelled by the set of its 1 bits    *)
(* (bit 7 is the sign): -1 is 0 .. 7.  Nodes of the argument list are      *)
(* positions in input, the null pointer is 0.  One step is one iteration   *)
(* of a loop of the code.                                                  *)
(***************************************************************************)
EXTENDS Naturals, Sequences

CONSTANTS
  Text,    \* bulk strings that are neither option names nor numbers
  Numeral, \* bulk strings of decimal digits
  Nested,  \* nodes that are not bulk strings
  Inputs   \* argument lists to parse

NxXx   == {"NX", "XX"}
Expiry == {"EX", "PX", "EXAT", "PXAT"}
Option == NxXx \cup {"GET"} \cup Expiry
Bulk   == Text \cup Numeral \cup Option
Token  == Bulk \cup Nested

ASSUME TokenAssumption ==
  /\ Text \cap (Numeral \cup Option) = {} /\ Numeral \cap Option = {}
  /\ Nested \cap Bulk = {}
ASSUME InputsAssumption == Inputs \subseteq Seq(Token)

VARIABLES
  input,   \* the arguments
  cur,     \* what the functions share: *state, parsed_cmd and next
  pc,      \* the loop the parser is in
  verdict  \* what validate_set_cmd returned: "valid", or "null"

vars == <<input, cur, pc, verdict>>

MinusOne == 0 .. 7
Negative(state) == 7 \in state
Positive(state) == ~ Negative(state) /\ state # {}

NoNode == 0
succ(n) == IF n < Len(input) THEN n + 1 ELSE NoNode
IsBulk(n) == input[n] \in Bulk

Init ==
  /\ input \in Inputs
  /\ cur = [state |-> {}, parsed |-> [b \in 0 .. 5 |-> NoNode], next |-> NoNode]
  /\ pc = "start"
  /\ verdict = "none"

Return(v) ==
  /\ pc' = "done"
  /\ verdict' = v
  /\ UNCHANGED <<input, cur>>

\* Store the node under the bit, set the bit, go to the next node.
Take(c, bit) ==
  [state  |-> c.state \cup {bit},
   parsed |-> [c.parsed EXCEPT ![bit] = c.next],
   next   |-> succ(c.next)]

-----------------------------------------------------------------------------
\* The entry of validate_set_cmd: SET without arguments has no node.
Start ==
  /\ pc = "start"
  /\ \/ input = <<>> /\ Return("null")
     \/ /\ input # <<>>
        /\ cur' = [cur EXCEPT !.state = {6}, !.next = 1]
        /\ pc' = "stage_a"
        /\ UNCHANGED <<input, verdict>>

\* set_cmd_stage_a returns NULL with the state at -1, or the node it stands at.
StageAFails ==
  /\ cur' = [cur EXCEPT !.state = MinusOne, !.next = NoNode]
  /\ pc' = "options"
  /\ UNCHANGED <<input, verdict>>

StageAKey ==
  /\ pc = "stage_a" /\ cur.state = {6}
  /\ \/ /\ ~ IsBulk(cur.next) \/ succ(cur.next) = NoNode
        /\ StageAFails
     \/ /\ IsBulk(cur.next) /\ succ(cur.next) # NoNode
        /\ cur' = Take(cur, 5)
        /\ UNCHANGED <<input, pc, verdict>>

StageAValue ==
  /\ pc = "stage_a" /\ cur.state = {6, 5}
  /\ \/ ~ IsBulk(cur.next) /\ StageAFails
     \/ /\ IsBulk(cur.next)
        /\ cur' = Take(cur, 4)
        /\ pc' = "options"
        /\ UNCHANGED <<input, verdict>>

\* Mutant: looks at the option's own bit only.
is_set_option_valid_own_bit(state, bit_pos) == bit_pos \notin state

\* No bit at or below bit_pos is set.
is_set_option_valid(state, bit_pos) == \A b \in 0 .. bit_pos : b \notin state

\* Mutant: a failed check does not set the state to -1.
handle_set_options_silent(c, bit_pos) ==
  IF c.next = NoNode \/ ~ is_set_option_valid(c.state, bit_pos)
  THEN c
  ELSE Take(c, bit_pos)

handle_set_options(c, bit_pos) ==
  IF c.next = NoNode \/ ~ is_set_option_valid(c.state, bit_pos)
  THEN [c EXCEPT !.state = MinusOne]
  ELSE Take(c, bit_pos)

\* Mutant: the number is not looked at.
validate_px_ex_content_skipped(c, node) == c

\* A number has at least one byte, all of them digits.
validate_px_ex_content(c, node) ==
  IF ~ Negative(c.state) /\ input[node] \notin Numeral
  THEN [c EXCEPT !.state = MinusOne]
  ELSE c

InLoop == pc = "options" /\ cur.next # NoNode /\ Positive(cur.state)

ParseFlag(options, bit_pos) ==
  /\ InLoop /\ input[cur.next] \in options
  /\ cur' = handle_set_options(cur, bit_pos)
  /\ UNCHANGED <<input, pc, verdict>>

ParseNxXx == ParseFlag(NxXx, 3)
ParseGet  == ParseFlag({"GET"}, 2)

\* EX, PX, EXAT, PXAT: the option and, as the last node, its number.
ParseExpiry ==
  LET opt == handle_set_options(cur, 1)
      num == handle_set_options(opt, 0)
      last == opt.next
  IN  /\ InLoop /\ input[cur.next] \in Expiry
      /\ IF last = NoNode \/ ~ IsBulk(last) \/ succ(last) # NoNode
         THEN Return("null")
         ELSE /\ cur' = validate_px_ex_content(num, last)
              /\ UNCHANGED <<input, pc, verdict>>

\* Not a bulk string, or not an option.
ParseUnknown ==
  /\ InLoop /\ input[cur.next] \notin Option
  /\ Return("null")

Finish ==
  /\ pc = "options" /\ ~ InLoop
  /\ Return(IF Negative(cur.state) THEN "null" ELSE "valid")

Next ==
  \/ Start \/ StageAKey \/ StageAValue
  \/ ParseNxXx \/ ParseGet \/ ParseExpiry \/ ParseUnknown \/ Finish

Spec == Init /\ [][Next]_vars

\* The parser is a loop in one thread: it goes on while it can.
FairSpec == Spec /\ WF_vars(Next)

-----------------------------------------------------------------------------
(* Properties.                                                             *)

\* Every variable has its type.
TypeOK ==
  /\ input \in Seq(Token)
  /\ cur \in [state : SUBSET (0 .. 7), parsed : [0 .. 5 -> 0 .. Len(input)],
              next : 0 .. Len(input)]
  /\ pc \in {"start", "stage_a", "options", "done"}
  /\ verdict \in {"none", "valid", "null"}

\* The README's syntax, without KEEPTTL:
\* key value [NX | XX] [GET] [EX n | PX n | EXAT n | PXAT n].
SetIf    == {<<>>} \cup {<<o>> : o \in NxXx}
Previous == {<<>>, <<"GET">>}
Lifetime == {<<>>} \cup {<<e, n>> : e \in Expiry, n \in Numeral}
Wellformed(args) ==
  /\ Len(args) >= 2
  /\ args[1] \in Bulk /\ args[2] \in Bulk
  /\ \E a \in SetIf, b \in Previous, c \in Lifetime :
       SubSeq(args, 3, Len(args)) = a \o b \o c

\* validate_set_cmd accepts exactly the argument lists of that syntax: the
\* walk over the lower bits enforces the order and refuses repetitions, and
\* neither a missing nor a trailing node slips through the two loops.
AcceptsGrammar == pc = "done" => (verdict = "valid" <=> Wellformed(input))

\* What execute_set_cmd relies on when it switches on the bitmap and then uses
\* parsed_cmd without looking: as long as the state is not -1, a slot holds a
\* node exactly if its bit is set, and a node of the right kind.
Kind == [b \in 0 .. 5 |-> CASE b = 0 -> Numeral
                            [] b = 1 -> Expiry
                            [] b = 2 -> {"GET"}
                            [] b = 3 -> NxXx
                            [] OTHER -> Bulk]
SlotsMatchBits ==
  ~ Negative(cur.state) =>
    \A b \in 0 .. 5 :
      IF b \in cur.state THEN /\ cur.parsed[b] # NoNode
                              /\ input[cur.parsed[b]] \in Kind[b]
                         ELSE cur.parsed[b] = NoNode

\* No node is taken for two roles, and the nodes were taken in the order of
\* the roles: a higher bit holds an earlier argument.
RolesInOrder ==
  \A b, d \in 0 .. 5 :
    (b > d /\ cur.parsed[b] # NoNode /\ cur.parsed[d] # NoNode)
      => cur.parsed[b] < cur.parsed[d]

\* The bitmap and the slots agree, in number, kind and order, at every turn.
SlotsOK == TypeOK /\ SlotsMatchBits /\ RolesInOrder

\* The loop of validate_set_cmd has no counter: an iteration that fails leaves
\* next where it is and relies on the state to end the loop.  It always ends.
Terminates == <>(pc = "done")
=============================================================================
