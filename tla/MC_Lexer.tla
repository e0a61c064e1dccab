------------------------------ MODULE MC_Lexer ------------------------------
\* Constants for model checking RespGrammar and Lexer.
EXTENDS RespGrammar

\* The digits 0 to 2, '-', CR, LF, '$' and '*'.
MCByte == {48, 49, 50, 45, 13, 10, 36, 42}
=============================================================================
