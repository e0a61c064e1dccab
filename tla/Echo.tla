-------------------------------- MODULE Echo --------------------------------
(***************************************************************************)
(* The answer of the ECHO that Dispatch finds: handle_echo_cmd and         *)
(* __handle_echo_cmd of src/src/cmd_handler.c, which print each element    *)
(* behind the next with snprintf into buffers sized by one running total.  *)
(* The cut snprintf makes at that total is what the properties are about,  *)
(* so a text is the sequence of its characters.  Sizes have one digit.     *)
(***************************************************************************)
EXTENDS Dispatch
S == INSTANCE SequencesExt

Bulk(t) == [type |-> "BULK_STR", text |-> t, elements |-> << >>]
Array(l) == [type |-> "ARRAY", text |-> << >>, elements |-> l]

\* What printf makes of a NULL string.
NullText == <<"(", "n", "u", "l", "l", ")">>

\* The characters of a C string: up to its first NUL.
Str(t) ==
  LET nul == S!SelectInSeq(t, LAMBDA c : c = "NUL") IN IF nul = 0 THEN t ELSE SubSeq(t, 1, nul - 1)

\* What snprintf leaves of t in a buffer of total + 1 bytes.
Cut(t, total) == IF Len(t) <= total THEN t ELSE SubSeq(t, 1, total)

\* The digits of the size, '$', two terminators and the text.
BulkTotal(size, el) == size + 1 + 5 + Len(Str(el.text))

\* Mutant: the digits of the array's size are not counted.
ArrayTotal_short(size) == size + 3

ArrayTotal(size) == size + 1 + 3

\* __handle_echo_cmd on the n-th node of a list and all that follow, with the
\* total so far; NULL past the end, as it will be printed.
RECURSIVE EchoFrom(_, _, _)
EchoFrom(list, n, size) ==
  IF n > Len(list) THEN [text |-> NullText, size |-> size]
  ELSE IF list[n].type = "ARRAY"
  THEN LET elements == EchoFrom(list[n].elements, 1, size)
           next == EchoFrom(list, n + 1, elements.size)
           total == ArrayTotal(next.size)
       IN  [text |-> Cut(<<"*", Len(list[n].elements), "CR", "LF">> \o elements.text \o next.text, total),
            size |-> total]
  ELSE LET next == EchoFrom(list, n + 1, size)
           total == BulkTotal(next.size, list[n])
       IN  [text |-> Cut(<<"$", Len(list[n].text), "CR", "LF">> \o Str(list[n].text)
                           \o <<"CR", "LF">> \o next.text, total),
            size |-> total]

handle_echo_cmd(list) == EchoFrom(list, 1, 0).text

\* The text of the answer when rtn is "ECHO".
Echoed == handle_echo_cmd(Tail(request.words))

-----------------------------------------------------------------------------
(* What the answer should be.                                              *)

\* The encoding of a list in RESP.
RECURSIVE Encoding(_)
Encoding(list) ==
  S!FlattenSeq([n \in DOMAIN list |->
    IF list[n].type = "ARRAY"
    THEN <<"*", Len(list[n].elements), "CR", "LF">> \o Encoding(list[n].elements)
    ELSE <<"$", Len(list[n].text), "CR", "LF">> \o list[n].text \o <<"CR", "LF">>])

RECURSIVE Arrays(_)
Arrays(list) == IF list = << >> THEN 0
  ELSE Arrays(Tail(list)) + (IF list[1].type = "ARRAY" THEN 1 + Arrays(list[1].elements) ELSE 0)

\* No text holds a NUL.
RECURSIVE NoNul(_)
NoNul(list) ==
  \A n \in DOMAIN list : Str(list[n].text) = list[n].text /\ NoNul(list[n].elements)

-----------------------------------------------------------------------------
(* Properties.                                                             *)

\* The answer is that of an ECHO, of texts without NUL.
IsEcho == cmd_pc = "done" /\ rtn = "ECHO" /\ NoNul(Tail(request.words))

\* The running total, shared by all the calls, ends as the length of the
\* encoding: whatever the nesting, the answer of ECHO has the right length.
EchoLength == IsEcho => Len(Echoed) = Len(Encoding(Tail(request.words)))

\* With at most one array among the elements the cut at the total removes just
\* the "(null)" that ends the printed list, and the answer is the encoding.
EchoExact ==
  IsEcho /\ Arrays(Tail(request.words)) <= 1 => Echoed = Encoding(Tail(request.words))

\* ECHO answers with the encoding of its arguments as far as its total allows.
EchoCorrect == EchoLength /\ EchoExact
=============================================================================
