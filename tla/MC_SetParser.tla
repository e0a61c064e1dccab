--------------------------- MODULE MC_SetParser ---------------------------
(***************************************************************************)
(* SetParser.tla for TLC: every argument list with up to MaxOpts arguments *)
(* after key and value.  One more than the longest correct list has.       *)
(***************************************************************************)
EXTENDS SetParser

CONSTANTS MaxOpts, OptToken

SeqUpTo(S, n) == UNION {[1 .. k -> S] : k \in 0 .. n}
MCInputs ==
  SeqUpTo(Text \cup Nested, 3)
    \cup {kv \o opts : kv \in [1 .. 2 -> Text], opts \in SeqUpTo(OptToken, MaxOpts)}
=============================================================================
