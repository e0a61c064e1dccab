------------------------------- MODULE Lexer -------------------------------
(***************************************************************************)
(* One request read by src/src/protocol.c: lexer, lex_bulk_str,            *)
(* get_el_size and is_valid_terminator on the bytes that follow the '*'    *)
(* app_code has consumed, then print_array and delete_array on the result. *)
(* A step is a recv, or the return of a call to its caller.  Bytes are     *)
(* their ASCII codes; the client may close at any byte and a recv may fail *)
(* (where it is retried, after the retries).                               *)
(***************************************************************************)
EXTENDS Integers, Sequences, FiniteSets

CONSTANTS Byte,                 \* the bytes a client sends
          MAX_ARRAY_SIZE,       \* digits get_el_size makes room for
          PROTO_MAX_BULK_SIZE,
          UintSize,             \* unsigned int wraps here
          MaxDepth,             \* nested arrays whose calls fit a worker's stack
          MaxRead               \* bound: bytes of a request

CR == 13
LF == 10
MINUS_BYTE == 45
DOLLAR_BYTE == 36
ASTERISK_BYTE == 42
NULL == 0
GARBAGE == -1  \* buf[MAX_ARRAY_SIZE], which is not part of buf

ASSUME LexerAssumption ==
  /\ Byte \subseteq 0 .. 127 /\ {CR, LF} \subseteq Byte
  /\ MAX_ARRAY_SIZE \in Nat \ {0} /\ PROTO_MAX_BULK_SIZE \in Nat
  /\ UintSize \in Nat \ {0} /\ MaxDepth \in Nat /\ MaxRead \in Nat

VARIABLES
  lex_pc,   \* the state of get_el_size, or where the other functions stand
  sz,       \* get_el_size: whose size, buf, is_negative and buf[n_bytes]
  text,     \* the payload of the bulk string being read
  stack,    \* the active calls of lexer
  current,  \* the value a call returned
  mem,      \* every node ever allocated, by address
  live,     \* the allocated pieces of them
  read,     \* the bytes received
  cut,      \* a recv has returned 0 or -1
  odd       \* the irregular things the request contained

input == <<read, cut>>
lex_vars == <<lex_pc, sz, text, stack, current, mem, live, input, odd>>

NoSize(what) == [what |-> what, num |-> << >>, neg |-> FALSE, cell |-> 0]
SizeStates == {"START", "DIGIT", "NEG_DIGIT_I", "NEG_DIGIT_II", "END"}
Ended == {"released", "crash", "hang", "undefined"}

LexInit ==
  /\ lex_pc = "START" /\ sz = NoSize("array")
  /\ text = << >> /\ stack = << >> /\ current = NULL
  /\ mem = << >> /\ live = {}
  /\ read = << >> /\ cut = FALSE /\ odd = {}

-----------------------------------------------------------------------------
(* Nodes.                                                                  *)

Node(type, content, size) ==
  [type |-> type, next |-> NULL, prev |-> NULL, content |-> content, size |-> size]

\* A bulk string and an array have a struct and a BaseNode; the marker of an
\* empty or nil array is a BaseNode alone.
Pieces(a, type) ==
  {a} \X (CASE type = "bulk"  -> {"struct", "node", "content"}
            [] type = "array" -> {"struct", "node"}
            [] OTHER          -> {"node"})

\* The nodes reached from a by Step in any number of steps: what every set that
\* holds a and is closed under Step holds.
Closure(a, Step(_)) ==
  LET Closed == {S \in SUBSET (0 .. Len(mem)) : a \in S /\ \A m \in S : Step(m) \subseteq S}
  IN  {n \in DOMAIN mem : \A S \in Closed : n \in S}

Below(a) == IF a = NULL THEN {} ELSE
  {mem[a].next} \cup (IF mem[a].type = "array" THEN {mem[a].content} ELSE {})
Before(a) == IF a = NULL THEN {} ELSE {mem[a].prev}

Markers == {"EMPTY_ARRAY", "NILL_ARRAY"}
HasMarker(S) == \E n \in S : mem[n].type \in Markers
LoopsBack(S) == \E n \in S : mem[n].prev = n
LoopsOn(S) == \E n \in S : mem[n].next = n

\* The recursion over the nodes S may need more stack than there is.
TooDeep(S) == "deep" \in odd /\ Cardinality({n \in S : mem[n].type = "array"}) > MaxDepth

\* What delete_array frees of the nodes S: all but the ArrayNodes themselves.
Freed(S) == (UNION {Pieces(n, mem[n].type) : n \in S})
              \ {<<n, "struct">> : n \in {m \in S : mem[m].type = "array"}}

\* delete_array(a, 1) followed by Then.  It walks back to the list's array and
\* frees from there; a marker is no GenericNode and reading it as one faults;
\* it walks back for ever past a node linked to itself, and along next frees
\* such a node again.
delete_array(a, Then) ==
  LET back == Closure(a, Before)
      S == UNION {Closure(n, Below) : n \in {m \in back : mem[m].prev = NULL}}
  IN  IF LoopsBack(back) THEN lex_pc' = "hang" /\ UNCHANGED <<current, live>>
      ELSE IF LoopsOn(S) THEN lex_pc' = "undefined" /\ UNCHANGED <<current, live>>
      ELSE IF HasMarker(S) THEN lex_pc' = "crash" /\ UNCHANGED <<current, live>>
      ELSE \/ live' = live \ Freed(S) /\ Then
           \/ TooDeep(S) /\ lex_pc' = "crash" /\ UNCHANGED <<current, live>>

-----------------------------------------------------------------------------
(* Input.                                                                  *)

RecvByte(b) == ~ cut /\ Len(read) < MaxRead /\ read' = Append(read, b) /\ UNCHANGED cut
RecvNothing == cut' = TRUE /\ UNCHANGED read

Return(a) == lex_pc' = "insert" /\ current' = a

-----------------------------------------------------------------------------
(* get_el_size.                                                            *)

IsDigit(b) == b > 47 /\ b < 58

\* string_to_uint on the first n digits.
Value[n \in 0 .. Len(sz.num)] ==
  IF n = 0 THEN 0 ELSE (Value[n - 1] * 10 + (sz.num[n] - 48)) % UintSize

\* The unsigned result as the int it is returned as.
ElSize ==
  LET u == Value[Len(sz.num)]
  IN  IF sz.neg THEN -u ELSE IF 2 * u < UintSize THEN u ELSE u - UintSize

Wrapped == \E n \in 1 .. Len(sz.num) : 2 * (Value[n - 1] * 10 + (sz.num[n] - 48)) >= UintSize
Note(what) == odd' = odd \cup what \cup (IF Wrapped THEN {"wrapped"} ELSE {})

\* Mutant: any digit may follow the minus.
NextState_minus(b) ==
  CASE lex_pc \in {"START", "DIGIT", "NEG_DIGIT_I"} /\ IsDigit(b) -> "DIGIT"
    [] lex_pc = "START" /\ b = MINUS_BYTE                         -> "NEG_DIGIT_I"
    [] lex_pc = "DIGIT" /\ b = CR                                 -> "END"
    [] lex_pc = "END" /\ b = LF                                   -> "size"
    [] OTHER                                                  -> "invalid"

\* The switch on state.
NextState(b) ==
  CASE lex_pc \in {"START", "DIGIT"} /\ IsDigit(b)    -> "DIGIT"
    [] lex_pc = "START" /\ b = MINUS_BYTE             -> "NEG_DIGIT_I"
    [] lex_pc = "NEG_DIGIT_I" /\ b = 49               -> "NEG_DIGIT_II"
    [] lex_pc \in {"DIGIT", "NEG_DIGIT_II"} /\ b = CR -> "END"
    [] lex_pc = "END" /\ b = LF                       -> "size"
    [] OTHER                                      -> "invalid"

\* A digit moves n_bytes on to a cell that still holds the 0 of calloc; any
\* other byte stays in buf[n_bytes] until the next one overwrites it.
Interpret(b) ==
  /\ IF NextState(b) = "invalid" THEN Return(NULL) ELSE lex_pc' = NextState(b) /\ UNCHANGED current
  /\ sz' = IF IsDigit(b)
           THEN [sz EXCEPT !.num = Append(@, b),
                           !.cell = IF Len(sz.num) + 1 < MAX_ARRAY_SIZE THEN 0 ELSE GARBAGE]
           ELSE [sz EXCEPT !.neg = @ \/ b = MINUS_BYTE, !.cell = b]
  /\ UNCHANGED <<text, stack, mem, live, odd>>

Overflow == Len(sz.num) > MAX_ARRAY_SIZE

\* When the client has closed, recv returns 0 and what buf[n_bytes] already
\* held is interpreted.
get_el_size ==
  /\ lex_pc \in SizeStates
  /\ \/ /\ Overflow
        /\ Return(NULL)
        /\ UNCHANGED <<sz, text, stack, mem, live, input, odd>>
     \/ /\ ~ Overflow
        /\ \E b \in Byte : RecvByte(b) /\ Interpret(b)
     \/ /\ ~ Overflow /\ RecvNothing
        /\ \/ \E b \in IF sz.cell = GARBAGE THEN Byte ELSE {sz.cell} : Interpret(b)
           \/ Return(NULL) /\ UNCHANGED <<sz, text, stack, mem, live, odd>>  \* -1

-----------------------------------------------------------------------------
(* lex_bulk_str and is_valid_terminator.                                   *)

\* Too large, or wrapped to a negative int: calloc and recv fail.
BulkTooLong == ElSize < -1 \/ ElSize > PROTO_MAX_BULK_SIZE

\* A nil string has no content, and new_bulk_str writes to content[-1].
BulkSize ==
  /\ lex_pc = "size" /\ sz.what = "bulk"
  /\ Note(IF ElSize = -1 THEN {"nil_bulk"} ELSE {})
  /\ \/ BulkTooLong /\ Return(NULL)
     \/ ElSize = -1 /\ lex_pc' = "crash" /\ UNCHANGED current
     \/ ElSize = 0 /\ lex_pc' = "CR" /\ UNCHANGED current
     \/ ElSize > 0 /\ ~ BulkTooLong /\ lex_pc' = "body" /\ UNCHANGED current
  /\ text' = << >>
  /\ UNCHANGED <<sz, stack, mem, live, input>>

\* read_exact_bytes of the whole payload; fewer bytes are an error.
BulkBody ==
  /\ lex_pc = "body"
  /\ \/ /\ ~ cut /\ Len(read) + ElSize <= MaxRead
        /\ text' \in [1 .. ElSize -> Byte]
        /\ read' = read \o text'
        /\ lex_pc' = "CR"
        /\ UNCHANGED <<cut, current>>
     \/ RecvNothing /\ Return(NULL) /\ UNCHANGED text
  /\ UNCHANGED <<sz, stack, mem, live, odd>>

new_bulk_str ==
  /\ mem' = Append(mem, Node("bulk", text, ElSize))
  /\ live' = live \cup Pieces(Len(mem'), "bulk")
  /\ Return(Len(mem'))

is_valid_terminator ==
  /\ lex_pc \in {"CR", "LF"}
  /\ \/ \E b \in Byte :
          /\ RecvByte(b)
          /\ IF lex_pc = "CR" /\ b = CR THEN lex_pc' = "LF" /\ UNCHANGED <<current, mem, live>>
             ELSE IF lex_pc = "LF" /\ b = LF THEN new_bulk_str
             ELSE Return(NULL) /\ UNCHANGED <<mem, live>>
     \/ RecvNothing /\ Return(NULL) /\ UNCHANGED <<mem, live>>
  /\ UNCHANGED <<sz, text, stack, odd>>

-----------------------------------------------------------------------------
(* lexer.                                                                  *)

\* The size of the array: an error, a marker for a nil or empty array, or the
\* loop over its elements.
ArraySize ==
  /\ lex_pc = "size" /\ sz.what = "array"
  /\ Note(IF ElSize \in {-1, 0} THEN {"marker"} ELSE {})
  /\ \/ ElSize = -2 /\ Return(NULL) /\ UNCHANGED <<stack, mem, live>>
     \/ /\ ElSize \in {-1, 0}
        /\ mem' = mem \o <<Node(IF ElSize = 0 THEN "EMPTY_ARRAY" ELSE "NILL_ARRAY", NULL, 0),
                           Node("array", Len(mem) + 1, 1)>>
        /\ live' = live \cup Pieces(Len(mem) + 1, "marker") \cup Pieces(Len(mem) + 2, "array")
        /\ Return(Len(mem'))
        /\ UNCHANGED stack
     \/ /\ ElSize \notin {-2, -1, 0}
        /\ stack' = <<[size |-> ElSize, inserted |-> 0, array |-> NULL, previous |-> NULL]>> \o stack
        /\ lex_pc' = "element"
        /\ UNCHANGED <<current, mem, live>>
  /\ UNCHANGED <<sz, text, input>>

\* Bound: a request has at most one element that starts with another byte.
MaySend(b) == b \in {DOLLAR_BYTE, ASTERISK_BYTE} \/ "unset" \notin odd

\* The byte that starts an element.  An array is a call of lexer by itself,
\* for which the stack may have no room.  Any other byte leaves current unset:
\* it is 0, what the last turn of the loop left there, or anything.
Element ==
  /\ lex_pc = "element"
  /\ \/ \E b \in Byte :
          /\ MaySend(b) /\ RecvByte(b)
          /\ \/ /\ b \in {DOLLAR_BYTE, ASTERISK_BYTE}
                /\ \/ lex_pc' = "START"
                   \/ b = ASTERISK_BYTE /\ Len(stack) >= MaxDepth /\ lex_pc' = "crash"
                /\ sz' = NoSize(IF b = DOLLAR_BYTE THEN "bulk" ELSE "array")
                /\ odd' = odd \cup {o \in {"deep"} : b = ASTERISK_BYTE /\ Len(stack) >= MaxDepth}
                /\ UNCHANGED current
             \/ /\ b \notin {DOLLAR_BYTE, ASTERISK_BYTE}
                /\ odd' = odd \cup {"unset"}
                /\ \/ \E a \in {NULL, stack[1].previous} : Return(a)
                   \/ lex_pc' = "undefined" /\ UNCHANGED current
                /\ UNCHANGED sz
     \/ RecvNothing /\ Return(NULL) /\ UNCHANGED <<sz, odd>>
  /\ UNCHANGED <<text, stack, mem, live>>

\* Mutant: a failed element ends the array without freeing what was read.
Abandon_leak ==
  /\ lex_pc = "insert" /\ current = NULL /\ stack # << >>
  /\ stack' = Tail(stack)
  /\ UNCHANGED <<lex_pc, current, live, sz, text, mem, input, odd>>

\* The element failed: free the elements so far and return NULL.
Abandon ==
  /\ lex_pc = "insert" /\ current = NULL /\ stack # << >>
  /\ stack' = Tail(stack)
  /\ delete_array(stack[1].previous, UNCHANGED <<lex_pc, current>>)
  /\ UNCHANGED <<sz, text, mem, input, odd>>

\* Mutant: previous is set to current before the element is linked.
Linked_early(f, array) ==
  LET m == [mem EXCEPT ![current].prev = IF f.array = NULL THEN array ELSE current]
  IN  IF f.previous = NULL THEN m ELSE [m EXCEPT ![f.previous].next = current]

\* prev of the first element is the array, of the others the one before.
Linked(f, array) ==
  LET m == [mem EXCEPT ![current].prev = IF f.array = NULL THEN array ELSE f.previous]
  IN  IF f.previous = NULL THEN m ELSE [m EXCEPT ![f.previous].next = current]

\* The element is linked in, and the array returned when it was the last.
\* The first element allocates the array.
Insert ==
  /\ lex_pc = "insert" /\ current # NULL /\ stack # << >>
  /\ LET f == stack[1]
         array == IF f.array = NULL THEN Len(mem) + 1 ELSE f.array
     IN  /\ mem' = Linked(f, array)
                     \o (IF f.array = NULL THEN <<Node("array", current, f.size)>> ELSE << >>)
         /\ live' = live \cup Pieces(array, "array")
         /\ IF f.inserted + 1 < f.size % UintSize
            THEN /\ stack' = <<[f EXCEPT !.inserted = @ + 1, !.array = array,
                                         !.previous = current]>> \o Tail(stack)
                 /\ lex_pc' = "element"
                 /\ UNCHANGED current
            ELSE /\ stack' = Tail(stack)
                 /\ current' = array
                 /\ UNCHANGED lex_pc
  /\ UNCHANGED <<sz, text, input, odd>>

Returned ==
  /\ lex_pc = "insert" /\ stack = << >>
  /\ lex_pc' = "returned"
  /\ UNCHANGED <<sz, text, stack, current, mem, live, input, odd>>

-----------------------------------------------------------------------------
(* The caller: app_code prints the array, executes it and deletes it.      *)

print_array ==
  /\ lex_pc = "returned" /\ current # NULL
  /\ LET S == Closure(current, Below)
     IN  \/ lex_pc' = IF LoopsOn(S) THEN "hang" ELSE IF HasMarker(S) THEN "crash" ELSE "printed"
         \/ TooDeep(S) /\ lex_pc' = "crash"
  /\ UNCHANGED <<sz, text, stack, current, mem, live, input, odd>>

Release ==
  /\ \/ lex_pc = "returned" /\ current = NULL /\ lex_pc' = "released" /\ UNCHANGED <<current, live>>
     \/ lex_pc = "printed" /\ delete_array(current, lex_pc' = "released" /\ UNCHANGED current)
  /\ UNCHANGED <<sz, text, stack, mem, input, odd>>

LexTerminated == lex_pc \in Ended /\ UNCHANGED lex_vars

LexNext ==
  \/ get_el_size \/ BulkSize \/ BulkBody \/ is_valid_terminator
  \/ ArraySize \/ Element \/ Abandon \/ Insert \/ Returned
  \/ print_array \/ Release \/ LexTerminated

LexSpec == LexInit /\ [][LexNext]_lex_vars

-----------------------------------------------------------------------------
(* Properties.                                                             *)

\* The state is well formed.  get_el_size in particular writes at most one
\* byte past the end of buf.
LexTypeOK ==
  /\ lex_pc \in SizeStates \cup Ended
       \cup {"size", "body", "CR", "LF", "element", "insert", "returned", "printed"}
  /\ sz.what \in {"array", "bulk"} /\ Len(sz.num) <= MAX_ARRAY_SIZE + 1
  /\ current \in 0 .. Len(mem)
  /\ \A n \in DOMAIN mem : {mem[n].next, mem[n].prev} \subseteq 0 .. Len(mem)
  /\ live \subseteq (DOMAIN mem) \X {"struct", "node", "content"}
  /\ odd \subseteq {"wrapped", "nil_bulk", "marker", "unset", "deep"}

\* A client that closes, or a connection that fails, before the request is
\* complete never makes a request: the bytes get_el_size interprets again
\* when recv returns 0 are no legal continuation.
CutIsError == cut /\ lex_pc = "returned" => current = NULL

\* Of the nodes of a request that is executed and answered, or that is refused
\* at any byte, delete_array and the error paths free everything but the
\* ArrayNode structs.  (Session has the request whose answer cannot be sent.)
OnlyArrayStructsLeak ==
  lex_pc = "released" =>
    live \subseteq {<<n, "struct">> : n \in {m \in DOMAIN mem : mem[m].type = "array"}}

\* A request, complete or not, of arrays with elements and of strings that are
\* not nil, nested no deeper than the stack of a worker allows, neither faults
\* nor loops; no request makes get_el_size write more than one byte past its buffer.
PlainNeverFaults ==
  /\ LexTypeOK
  /\ odd \subseteq {"wrapped"} /\ lex_pc \in Ended => lex_pc = "released"
=============================================================================
