------------------------------ MODULE Frontend ------------------------------
(***************************************************************************)
(* The first two stages of compile in src/driver/driver.c: the lexer, and  *)
(* the parser on the tokens that the lexer has really left.                *)
(***************************************************************************)
EXTENDS Integers, Sequences, SequencesExt

CONSTANTS Texts,              \* the texts to compile, as in Lexer
          WordBits, ByteBits  \* as in Word

\* A string in C holds no zero.
ASSUME FrontendAssumption ==
  /\ Texts \subseteq Seq(STRING) /\ \A t \in Texts : \A k \in DOMAIN t : t[k] # "\\0"
  /\ WordBits \in Nat /\ ByteBits \in Nat /\ 0 < ByteBits /\ ByteBits < WordBits

VARIABLES
  buffer, nextPos, tokenArray, startPos, place, lexerError, lexing,         \* Lexer
  nextToken, parsedTree, body, calls, ret, parsed, parserError, parsing     \* Parser

lexer  == <<buffer, nextPos, tokenArray, startPos, place, lexerError, lexing>>
parser == <<nextToken, parsedTree, body, calls, ret, parsed, parserError, parsing>>

L == INSTANCE Lexer WITH hadError <- lexerError, status <- lexing
P == INSTANCE Parser WITH Inputs <- {}, tokens <- tokenArray, ast <- parsedTree,
       stack <- calls, hadError <- parserError, status <- parsing
=============================================================================
