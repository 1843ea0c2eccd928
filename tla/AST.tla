-------------------------------- MODULE AST --------------------------------
(***************************************************************************)
(* include/parser/ast.h and the constructors of src/parser/ast.c.          *)
(*                                                                         *)
(* The tree lives in a heap, a sequence of nodes; a pointer to a node is   *)
(* its index and the null pointer is 0.  One record shape serves the whole *)
(* union: name is the declaration's name or the variable's identifier,     *)
(* left the only child of a unary node, a statement or a declaration.      *)
(***************************************************************************)
EXTENDS Integers, Sequences

NULL   == 0
NoName == <<>>

UnaryOps      == {"BITWISE_NOT", "NEGATE", "LOGICAL_NOT"}
SimpleOps     == {"ADD", "SUBTRACT", "MULTIPLY", "DIVIDE", "REMAINDER", "BITWISE_AND",
                  "BITWISE_OR", "BITWISE_XOR", "LEFT_SHIFT", "RIGHT_SHIFT"}
RelationalOps == {"LOGICAL_EQUAL", "LOGICAL_NOT_EQUAL", "LOGICAL_LESS_THAN",
                  "LOGICAL_LESS_EQUAL", "LOGICAL_GREATER_THAN", "LOGICAL_GREATER_EQUAL"}
ShortOps      == {"LOGICAL_AND", "LOGICAL_OR"}
BinaryOps     == SimpleOps \cup RelationalOps \cup ShortOps

Node(type, op, name, value, left, right) ==
  [type |-> type, op |-> op, name |-> name, value |-> value, left |-> left, right |-> right]

ast_int_literal(v)     == Node("INT_LITERAL", "", NoName, v, NULL, NULL)
ast_unary(op, e)       == Node("UNARY", op, NoName, 0, e, NULL)
ast_binary(op, l, r)   == Node("BINARY", op, NoName, 0, l, r)
ast_variable(id)       == Node("VARIABLE", "", id, 0, NULL, NULL)
ast_assignment(l, r)   == Node("ASSIGNMENT", "", NoName, 0, l, r)
ast_declaration(id, e) == Node("DECLARATION", "", id, 0, e, NULL)
ast_statement(op, e)   == Node("STATEMENT", op, NoName, 0, e, NULL)

IsReturn(n) == n.type = "STATEMENT" /\ n.op = "RETURN"

-----------------------------------------------------------------------------
(* A tree as the parser leaves it when it has found no error. *)

Kids(a) == {a.left, a.right} \ {NULL}

IsSequence(s) == Len(s) \in Nat /\ s = [k \in 1..Len(s) |-> s[k]]

\* What the constructors are called with.
IsNode(a) ==
  /\ a = Node(a.type, a.op, a.name, a.value, a.left, a.right)
  /\ IsSequence(a.name) /\ a.value \in Int
  /\ \/ a.type \in {"INT_LITERAL", "VARIABLE"} /\ a.left = NULL /\ a.right = NULL
     \/ a.type = "UNARY" /\ a.op \in UnaryOps /\ a.left # NULL /\ a.right = NULL
     \/ a.type = "BINARY" /\ a.op \in BinaryOps /\ a.left # NULL /\ a.right # NULL
     \/ a.type = "ASSIGNMENT" /\ a.left # NULL /\ a.right # NULL
     \/ a.type = "DECLARATION" /\ a.right = NULL
     \/ a.type = "STATEMENT" /\ a.op = "RETURN" /\ a.left # NULL /\ a.right = NULL
     \/ a.type = "STATEMENT" /\ a.op = "NULL_EXPRESSION" /\ a.left = NULL /\ a.right = NULL

\* A node is made after its children, which are expressions, and has one place
\* in the tree.
IsTree(ast, body) ==
  /\ Len(ast) \in Nat /\ DOMAIN ast = 1..Len(ast)
  /\ \A n \in 1..Len(ast) :
       /\ IsNode(ast[n]) /\ ast[n].left \in 0..n-1 /\ ast[n].right \in 0..n-1
       /\ Kids(ast[n]) # {} => ast[n].left # ast[n].right
       /\ \A c \in Kids(ast[n]) : ast[c].type \notin {"DECLARATION", "STATEMENT"}
  /\ \A m, n \in 1..Len(ast) : m # n => Kids(ast[m]) \cap Kids(ast[n]) = {}
  /\ Len(body) \in Nat /\ DOMAIN body = 1..Len(body)
  /\ \A k \in 1..Len(body) : /\ body[k] \in 1..Len(ast)
                             /\ \A n \in 1..Len(ast) : body[k] \notin Kids(ast[n])
  /\ \A j, k \in 1..Len(body) : body[j] = body[k] => j = k
=============================================================================
