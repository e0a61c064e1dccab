---------------------------- MODULE RespGrammar ----------------------------
(***************************************************************************)
(* The requests of RESP, as a parser of the bytes the lexer has read that  *)
(* is written from the grammar: it works on the whole string, by position, *)
(* and says whether a string is a sentence, the start of one, or neither.  *)
(***************************************************************************)
EXTENDS Lexer

Ok(v, q) == [st |-> "ok", v |-> v, q |-> q]
Short == [st |-> "short"]
Bad == [st |-> "bad"]

\* bs stands at position p.
Literal(p, bs, v) ==
  LET end == p + Len(bs) - 1
      have == SubSeq(read, p, IF end > Len(read) THEN Len(read) ELSE end)
  IN  IF have = bs THEN Ok(v, p + Len(bs))
      ELSE IF have = SubSeq(bs, 1, Len(have)) THEN Short ELSE Bad

Digits(p) ==
  Cardinality({k \in 1 .. Len(read) - p + 1 : \A j \in p .. p + k - 1 : read[j] \in 48 .. 57})

RECURSIVE Decimal(_, _)
Decimal(p, k) == IF k = 0 THEN 0 ELSE 10 * Decimal(p, k - 1) + (read[p + k - 1] - 48)

SizeAt(p) ==
  IF p <= Len(read) /\ read[p] = MINUS_BYTE THEN Literal(p, <<MINUS_BYTE, 49, CR, LF>>, -1)
  ELSE IF Digits(p) = 0 THEN (IF p > Len(read) THEN Short ELSE Bad)
  ELSE IF Digits(p) > MAX_ARRAY_SIZE THEN Bad
  ELSE Literal(p + Digits(p), <<CR, LF>>, Decimal(p, Digits(p)))

StringAt(p) ==
  LET s == SizeAt(p)
  IN  IF s.st # "ok" THEN s
      ELSE IF s.v = -1 THEN Ok(<<"nil", << >>>>, s.q)
      ELSE IF s.v > PROTO_MAX_BULK_SIZE THEN Bad
      ELSE IF s.q + s.v - 1 > Len(read) THEN Short
      ELSE Literal(s.q + s.v, <<CR, LF>>, <<"bulk", SubSeq(read, s.q, s.q + s.v - 1)>>)

RECURSIVE ElementsAt(_, _, _)
ArrayAt(p) ==
  LET s == SizeAt(p)
  IN  IF s.st # "ok" THEN s
      ELSE IF s.v = -1 THEN Ok(<<"NILL_ARRAY", << >>>>, s.q)
      ELSE IF s.v = 0 THEN Ok(<<"EMPTY_ARRAY", << >>>>, s.q)
      ELSE ElementsAt(s.q, s.v, << >>)
ElementsAt(p, n, done) ==
  IF n = 0 THEN Ok(<<"array", done>>, p)
  ELSE IF p > Len(read) THEN Short
  ELSE IF read[p] \notin {DOLLAR_BYTE, ASTERISK_BYTE} THEN Bad
  ELSE LET e == IF read[p] = DOLLAR_BYTE THEN StringAt(p + 1) ELSE ArrayAt(p + 1)
       IN  IF e.st # "ok" THEN e ELSE ElementsAt(e.q, n - 1, Append(done, e.v))

-----------------------------------------------------------------------------

\* The value the linked nodes stand for.
RECURSIVE Tree(_)
RECURSIVE Trees(_)
Tree(a) ==
  CASE mem[a].type = "bulk"   -> <<"bulk", mem[a].content>>
    [] mem[a].type \in Markers -> <<mem[a].type, << >>>>
    [] HasMarker({mem[a].content}) -> Tree(mem[a].content)
    [] OTHER -> <<"array", Trees(mem[a].content)>>
Trees(a) == IF a = NULL THEN << >> ELSE <<Tree(a)>> \o Trees(mem[a].next)

\* The sizes fit an int and every element starts with '$' or '*'.
Regular == odd \cap {"wrapped", "unset"} = {}

\* What lexer accepts is a request, read to its last byte and no further, and
\* the list it builds along next and content is that request.
AcceptsRequests ==
  lex_pc = "returned" /\ current # NULL /\ Regular => ArrayAt(1) = Ok(Tree(current), Len(read) + 1)

\* What lexer refuses while the client is connected is not the beginning of
\* any request; what it refuses because the client has gone was one.
RefusesOnlyOthers ==
  lex_pc = "returned" /\ current = NULL /\ Regular => ArrayAt(1) = (IF cut THEN Short ELSE Bad)

\* The lexer and the grammar agree on requests that are complete, wrong or cut.
AgreesWithGrammar == AcceptsRequests /\ RefusesOnlyOthers /\ CutIsError
=============================================================================
