------------------------------- MODULE Parser -------------------------------
(***************************************************************************)
(* src/parser/parser.c: recursive descent, with precedence climbing for    *)
(* the binary operators.                                                   *)
(*                                                                         *)
(* The calls in progress are a stack of frames.  A frame is at a stop: the *)
(* name of the function it is about to run, or of the inner call that has  *)
(* just returned to it with the answer ret.  One step is what a function   *)
(* does from one stop to the next.                                         *)
(***************************************************************************)
EXTENDS AST, Tokens, Word

CONSTANT Inputs  \* the arrays of tokens to parse: EOF is the last of each, and no other

VARIABLES
  tokens, nextToken,  \* the array, and the index, from 1, of the token to read
  ast, body,          \* the nodes made so far, and block_items
  stack, ret,         \* the calls in progress; what the last one returned
  parsed,             \* whether parser->ast is non-null
  hadError,
  status              \* "running", "done", or "undefined" past the array

tree == <<ast, body>>
vars == <<tokens, nextToken, tree, stack, ret, parsed, hadError, status>>

\* A call at a stop, with its local variables: the least precedence it takes,
\* the left operand so far, the operator's token, the declared name.
Frame(at, min) == [at |-> at, min |-> min, left |-> NULL, op |-> "EOF", name |-> NoName]

Fresh ==
  /\ nextToken = 1
  /\ ast = <<>> /\ body = <<>>
  /\ stack = <<Frame("function", 0)>> /\ ret = NULL
  /\ parsed = FALSE /\ hadError = FALSE /\ status = "running"

Init == tokens \in Inputs /\ Fresh

-----------------------------------------------------------------------------
(* Tokens, calls and returns *)

Peek  == tokens[nextToken].type
Top   == stack[Len(stack)]
Below == SubSeq(stack, 1, Len(stack) - 1)
At(p) == status = "running" /\ Top.at = p

Consume(n) == nextToken' = nextToken + n

Become(frame) == stack' = Append(Below, frame)
Goto(p)       == Become([Top EXCEPT !.at = p])
\* Call a function, from a frame that will resume as this one.
Call(callee, resumed) == stack' = Below \o <<resumed, callee>>
CallThen(callee, p)   == Call(callee, [Top EXCEPT !.at = p])

Return(n)       == stack' = Below /\ ret' = n
ReturnNew(node) == ast' = Append(ast, node) /\ Return(Len(ast) + 1)

Error == hadError' = TRUE
Same  == UNCHANGED <<tokens, body, parsed, status>>

\* Mutant of expect: the token that was not expected is not reported.
expectQuiet(type, yes) ==
  /\ Consume(1)
  /\ IF Peek = type THEN yes ELSE Return(NULL) /\ UNCHANGED ast
  /\ UNCHANGED hadError

\* expect(type), where a mismatch returns NULL; it consumes the token anyway.
expect(type, yes) ==
  /\ Consume(1)
  /\ IF Peek = type THEN yes /\ UNCHANGED hadError
                    ELSE Error /\ Return(NULL) /\ UNCHANGED ast

-----------------------------------------------------------------------------
(* parse_program and parse_function *)

Header == <<"INT", "IDENTIFIER", "LPAREN", "VOID", "RPAREN", "LBRACE">>
IsHeader(k) == k <= Len(tokens) /\ tokens[k].type = Header[k]

\* No function: parse_program returns NULL.
NoProgram == status' = "done" /\ UNCHANGED <<tokens, tree, ret, parsed>>

ParseHeader ==
  /\ At("function")
  /\ \A k \in 1..6 : IsHeader(k)
  /\ Consume(6) /\ Goto("items")
  /\ UNCHANGED <<ret, hadError, ast>> /\ Same

\* Mutant of MalformedHeader: the error path advances once more.
MalformedHeaderTwice ==
  /\ At("function")
  /\ \E k \in 1..6 : /\ \A j \in 1..k-1 : IsHeader(j)
                     /\ ~IsHeader(k)
                     /\ Consume(k + 1)
  /\ Error /\ stack' = <<>> /\ NoProgram

MalformedHeader ==
  /\ At("function")
  /\ \E k \in 1..6 : /\ \A j \in 1..k-1 : IsHeader(j)
                     /\ ~IsHeader(k)
                     /\ Consume(k)
  /\ Error /\ stack' = <<>> /\ NoProgram

ParseBlockItem ==
  /\ At("items") /\ Peek # "RBRACE"
  /\ CallThen(Frame(IF Peek = "INT" THEN "declaration" ELSE "statement", 0), "item")
  /\ UNCHANGED <<nextToken, ret, hadError, ast>> /\ Same

PushBlockItem ==
  /\ At("item") /\ ret # NULL
  /\ body' = Append(body, ret) /\ Goto("items")
  /\ UNCHANGED <<tokens, nextToken, ast, ret, parsed, hadError, status>>

FailedBlockItem ==
  /\ At("item") /\ ret = NULL
  /\ stack' = <<>> /\ NoProgram /\ UNCHANGED <<nextToken, hadError>>

\* The closing brace, then the end of the file.
EndFunction ==
  /\ At("items") /\ Peek = "RBRACE"
  /\ Consume(2)
  /\ parsed' = (tokens[nextToken + 1].type = "EOF")
  /\ hadError' = (hadError \/ ~parsed')
  /\ stack' = <<>> /\ status' = "done"
  /\ UNCHANGED <<tokens, tree, ret>>

-----------------------------------------------------------------------------
(* parse_declaration and parse_statement *)

ParseDeclaration ==
  LET name == tokens[nextToken + 1] IN
  /\ At("declaration")
  /\ IF name.type # "IDENTIFIER"
     THEN Consume(2) /\ Error /\ Return(NULL) /\ UNCHANGED ast
     ELSE /\ IF tokens[nextToken + 2].type = "EQUAL"
             THEN /\ Consume(3)
                  /\ Call(Frame("expression", 0),
                          [Top EXCEPT !.at = "initializer", !.name = name.literal])
                  /\ UNCHANGED <<ret, ast>>
             ELSE /\ Consume(2)
                  /\ Become([Top EXCEPT !.at = "declared", !.name = name.literal])
                  /\ UNCHANGED <<ret, ast>>
          /\ UNCHANGED hadError
  /\ Same

EndPlainDeclaration ==
  /\ At("declared")
  /\ expect("SEMICOLON", ReturnNew(ast_declaration(Top.name, NULL)))
  /\ Same

EndDeclaration ==
  /\ At("initializer") /\ ret # NULL
  /\ expect("SEMICOLON", ReturnNew(ast_declaration(Top.name, ret)))
  /\ Same

ParseReturn ==
  /\ At("statement") /\ Peek = "RETURN"
  /\ Consume(1)
  /\ CallThen(Frame("expression", 0), "returned")
  /\ UNCHANGED <<ret, hadError, ast>> /\ Same

EndReturn ==
  /\ At("returned") /\ ret # NULL
  /\ expect("SEMICOLON", ReturnNew(ast_statement("RETURN", ret)))
  /\ Same

\* An initializer or a returned expression that could not be parsed.
FailedExpression ==
  /\ Top.at \in {"initializer", "returned"} /\ ret = NULL
  /\ Return(NULL)
  /\ UNCHANGED <<nextToken, hadError, ast>> /\ Same

ParseNullStatement ==
  /\ At("statement") /\ Peek = "SEMICOLON"
  /\ Consume(1)
  /\ ReturnNew(ast_statement("NULL_EXPRESSION", NULL))
  /\ UNCHANGED hadError /\ Same

ParseExpressionStatement ==
  /\ At("statement") /\ Peek \notin {"RETURN", "SEMICOLON"}
  /\ CallThen(Frame("expression", 0), "expression statement")
  /\ UNCHANGED <<nextToken, ret, hadError, ast>> /\ Same

\* Here a NULL expression is not looked at before the semicolon is.
EndExpressionStatement ==
  /\ At("expression statement")
  /\ expect("SEMICOLON", Return(ret) /\ UNCHANGED ast)
  /\ Same

-----------------------------------------------------------------------------
(* parse_expression *)

\* bin_type of each operator that builds a binary node.
BinaryType ==
  [PLUS |-> "ADD", MINUS |-> "SUBTRACT", ASTERISK |-> "MULTIPLY", FORWARD_SLASH |-> "DIVIDE",
   PERCENT |-> "REMAINDER", AMPERSAND |-> "BITWISE_AND", PIPE |-> "BITWISE_OR",
   CARET |-> "BITWISE_XOR", LEFT_SHIFT |-> "LEFT_SHIFT", RIGHT_SHIFT |-> "RIGHT_SHIFT",
   LOGICAL_AND |-> "LOGICAL_AND", LOGICAL_OR |-> "LOGICAL_OR",
   LOGICAL_EQUAL |-> "LOGICAL_EQUAL", NOT_EQUAL |-> "LOGICAL_NOT_EQUAL",
   LESS_THAN |-> "LOGICAL_LESS_THAN", LESS_EQUAL |-> "LOGICAL_LESS_EQUAL",
   GREATER_THAN |-> "LOGICAL_GREATER_THAN", GREATER_EQUAL |-> "LOGICAL_GREATER_EQUAL"]

is_binary_operator(type) == type \in DOMAIN BinaryType \cup {"EQUAL"}

precedence(type) ==
  CASE type = "EQUAL"       -> 1
    [] type = "LOGICAL_OR"  -> 5
    [] type = "LOGICAL_AND" -> 10
    [] type = "PIPE"        -> 11
    [] type = "CARET"       -> 12
    [] type = "AMPERSAND"   -> 13
    [] type \in {"NOT_EQUAL", "LOGICAL_EQUAL"} -> 30
    [] type \in {"GREATER_EQUAL", "GREATER_THAN", "LESS_EQUAL", "LESS_THAN"} -> 35
    [] type \in {"LEFT_SHIFT", "RIGHT_SHIFT"} -> 40
    [] type \in {"MINUS", "PLUS"} -> 45
    [] type \in {"PERCENT", "FORWARD_SLASH", "ASTERISK"} -> 50

\* The operand, or the operator that the loop looks at, binds less than min.
Ends == is_binary_operator(Peek) => precedence(Peek) < Top.min

ParseExpression ==
  /\ At("expression")
  /\ CallThen(Frame("factor", 0), "left")
  /\ UNCHANGED <<nextToken, ret, hadError, ast>> /\ Same

LeftParsed ==
  /\ At("left")
  /\ Become([Top EXCEPT !.at = "operator", !.left = ret])
  /\ UNCHANGED <<nextToken, ret, hadError, ast>> /\ Same

EndExpression ==
  /\ At("operator") /\ Ends
  /\ Return(Top.left)
  /\ UNCHANGED <<nextToken, hadError, ast>> /\ Same

ParseAssignment ==
  /\ At("operator") /\ ~Ends /\ Peek = "EQUAL"
  /\ Consume(1)
  /\ CallThen(Frame("expression", precedence(Peek)), "assigned")
  /\ UNCHANGED <<ret, hadError, ast>> /\ Same

\* An assignment ends the expression that it is found in.
EndAssignment ==
  /\ At("assigned")
  /\ ReturnNew(ast_assignment(Top.left, ret))
  /\ UNCHANGED <<nextToken, hadError>> /\ Same

\* Mutant of ParseRightOperand: the right operand takes its own precedence too.
ParseRightOperandSame ==
  /\ At("operator") /\ ~Ends /\ Peek # "EQUAL"
  /\ Consume(1)
  /\ Call(Frame("expression", precedence(Peek)),
          [Top EXCEPT !.at = "right", !.op = Peek])
  /\ UNCHANGED <<ret, hadError, ast>> /\ Same

ParseRightOperand ==
  /\ At("operator") /\ ~Ends /\ Peek # "EQUAL"
  /\ Consume(1)
  /\ Call(Frame("expression", precedence(Peek) + 1),
          [Top EXCEPT !.at = "right", !.op = Peek])
  /\ UNCHANGED <<ret, hadError, ast>> /\ Same

\* Mutant of RightParsed: the left operand is the right one too.
RightParsedTwice ==
  /\ At("right")
  /\ ast' = Append(ast, ast_binary(BinaryType[Top.op], Top.left, Top.left))
  /\ Become([Top EXCEPT !.at = "operator", !.left = Len(ast) + 1])
  /\ UNCHANGED <<nextToken, ret, hadError>> /\ Same

\* The binary node is the left operand of what follows.
RightParsed ==
  /\ At("right")
  /\ ast' = Append(ast, ast_binary(BinaryType[Top.op], Top.left, ret))
  /\ Become([Top EXCEPT !.at = "operator", !.left = Len(ast) + 1])
  /\ UNCHANGED <<nextToken, ret, hadError>> /\ Same

-----------------------------------------------------------------------------
(* parse_factor *)

Digits == <<"0", "1", "2", "3", "4", "5", "6", "7", "8", "9">>
Decimal(literal) ==
  LET value[i \in 0..Len(literal)] ==
        IF i = 0 THEN 0
        ELSE 10 * value[i-1] + (CHOOSE d \in 0..9 : Digits[d+1] = literal[i])
  IN value[Len(literal)]

\* C leaves a number that is no int undefined.  glibc's atoi is strtol, which
\* stops at the greatest long, of two words, cut to an int.
atoi(literal) ==
  LET long == 2^(2 * WordBits - 1) - 1
      v    == Decimal(literal)
  IN Wrap(IF v > long THEN long ELSE v)

UnaryType == [TILDE |-> "BITWISE_NOT", MINUS |-> "NEGATE", EXCLAMATION |-> "LOGICAL_NOT"]

ParseLeaf ==
  LET token == tokens[nextToken] IN
  /\ At("factor") /\ Peek \in {"INTEGER_LITERAL", "IDENTIFIER"}
  /\ Consume(1)
  /\ ReturnNew(IF Peek = "IDENTIFIER" THEN ast_variable(token.literal)
                                      ELSE ast_int_literal(atoi(token.literal)))
  /\ UNCHANGED hadError /\ Same

ParseUnary ==
  /\ At("factor") /\ Peek \in DOMAIN UnaryType
  /\ Consume(1)
  /\ Call(Frame("factor", 0), [Top EXCEPT !.at = "inner", !.op = Peek])
  /\ UNCHANGED <<ret, hadError, ast>> /\ Same

EndUnary ==
  /\ At("inner")
  /\ ReturnNew(ast_unary(UnaryType[Top.op], ret))
  /\ UNCHANGED <<nextToken, hadError>> /\ Same

ParseParens ==
  /\ At("factor") /\ Peek = "LPAREN"
  /\ Consume(1)
  /\ CallThen(Frame("expression", 0), "parens")
  /\ UNCHANGED <<ret, hadError, ast>> /\ Same

EndParens ==
  /\ At("parens")
  /\ expect("RPAREN", Return(ret) /\ UNCHANGED ast)
  /\ Same

\* The token stays: its place may be that of an operator or a semicolon.
MalformedFactor ==
  /\ At("factor")
  /\ Peek \notin {"INTEGER_LITERAL", "IDENTIFIER", "LPAREN"} \cup DOMAIN UnaryType
  /\ Error /\ Return(NULL)
  /\ UNCHANGED <<nextToken, ast>> /\ Same

-----------------------------------------------------------------------------

\* The stops whose next step reads the token at the cursor.
Reads == \/ Top.at \in {"items", "declared", "expression statement", "operator", "factor",
                        "parens"}
         \/ Top.at \in {"initializer", "returned"} /\ ret # NULL

\* The cursor is past the array, and C says nothing of what is read there.
ReadPastEnd ==
  /\ status = "running" /\ Reads /\ nextToken > Len(tokens)
  /\ status' = "undefined"
  /\ UNCHANGED <<tokens, nextToken, tree, stack, ret, parsed, hadError>>

Step ==
  \/ ParseHeader \/ MalformedHeader
  \/ ParseBlockItem \/ PushBlockItem \/ FailedBlockItem \/ EndFunction
  \/ ParseDeclaration \/ EndPlainDeclaration \/ EndDeclaration
  \/ ParseReturn \/ EndReturn \/ FailedExpression \/ ParseNullStatement
  \/ ParseExpressionStatement \/ EndExpressionStatement
  \/ ParseExpression \/ LeftParsed \/ EndExpression
  \/ ParseAssignment \/ EndAssignment \/ ParseRightOperand \/ RightParsed
  \/ ParseLeaf \/ ParseUnary \/ EndUnary \/ ParseParens \/ EndParens \/ MalformedFactor

Next ==
  \/ status = "running" /\ (Reads => nextToken <= Len(tokens)) /\ Step
  \/ ReadPastEnd

Spec == Init /\ [][Next]_vars

-----------------------------------------------------------------------------
(* Properties *)

Pointer == 0..Len(ast)
Stops == {"function", "items", "item", "declaration", "declared", "initializer", "statement",
          "returned", "expression statement", "expression", "left", "operator", "assigned",
          "right", "factor", "inner", "parens"}

\* Every pointer the parser holds is null or a node it made, and the cursor is
\* at most one token past the end.
TypeOK ==
  /\ nextToken \in 1..Len(tokens)+1
  /\ \A n \in DOMAIN ast : ast[n].left \in 0..n-1 /\ ast[n].right \in 0..n-1
  /\ ret \in Pointer
  /\ \A k \in DOMAIN body : body[k] \in Pointer \ {NULL}
  /\ \A k \in DOMAIN stack : /\ stack[k].at \in Stops /\ stack[k].left \in Pointer
                             /\ stack[k].min \in 0..51 /\ stack[k].op \in TokenType
  /\ parsed \in BOOLEAN /\ hadError \in BOOLEAN
  /\ status \in {"running", "done", "undefined"}
=============================================================================
