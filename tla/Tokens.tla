------------------------------- MODULE Tokens -------------------------------
(* include/lexer/token.h and src/lexer/token.c.  A literal is the sequence   *)
(* of the characters it is spelled with; the null pointer is the empty one.  *)
EXTENDS Sequences

Token(type, literal) == [type |-> type, literal |-> literal]
NoLiteral == <<>>

TokenType ==
  {"IDENTIFIER", "INTEGER_LITERAL", "VOID", "INT", "RETURN",
   "TILDE", "MINUS", "PLUS", "ASTERISK", "FORWARD_SLASH", "PERCENT", "AMPERSAND", "PIPE",
   "CARET", "EQUAL", "EXCLAMATION", "LESS_THAN", "GREATER_THAN",
   "DECREMENT", "LEFT_SHIFT", "RIGHT_SHIFT", "LOGICAL_AND", "LOGICAL_OR", "LOGICAL_EQUAL",
   "NOT_EQUAL", "LESS_EQUAL", "GREATER_EQUAL",
   "LPAREN", "RPAREN", "LBRACE", "RBRACE", "SEMICOLON", "EOF", "INVALID"}

\* The spelling of each keyword and its token.
Keywords ==
  { <<<<"i", "n", "t">>, "INT">>,
    <<<<"v", "o", "i", "d">>, "VOID">>,
    <<<<"r", "e", "t", "u", "r", "n">>, "RETURN">> }
keyword_to_tokentype(literal) ==
  IF \E k \in Keywords : k[1] = literal
  THEN (CHOOSE k \in Keywords : k[1] = literal)[2]
  ELSE "INVALID"
=============================================================================
