----------------------------- MODULE CSemantics -----------------------------
(***************************************************************************)
(* What the source program means: the C abstract machine on the syntax     *)
(* trees of include/parser/ast.h.  A program whose behaviour C leaves      *)
(* undefined (overflow, division by zero, a shift out of range, a variable *)
(* read before it is set, two unsequenced accesses one of which modifies)  *)
(* has no meaning for a compiler to keep.                                  *)
(***************************************************************************)
EXTENDS AST, Word, Sequences

\* The state of an evaluation: the value, the variables set so far, those read
\* and written on the way, and whether behaviour was defined throughout.
Defined(v, env, rd, wr) == [ok |-> TRUE, val |-> v, env |-> env, rd |-> rd, wr |-> wr]
Undefined(s)            == [s EXCEPT !.ok = FALSE]

SetVar(env, x, v) == [y \in DOMAIN env \cup {x} |-> IF y = x THEN v ELSE env[y]]

\* The value of an arithmetic operator, a set that is empty when undefined.
InRange(v) == {v} \cap Word
CUnary(op, a) == CASE op = "BITWISE_NOT" -> {BitNot(a)}
                   [] op = "NEGATE"      -> InRange(-a)
                   [] op = "LOGICAL_NOT" -> {Truth(a = 0)}
CBinary(op, a, b) ==
  CASE op = "ADD"         -> InRange(a + b)
    [] op = "SUBTRACT"    -> InRange(a - b)
    [] op = "MULTIPLY"    -> InRange(a * b)
    [] op = "DIVIDE"      -> IF DivFaults(a, b) THEN {} ELSE {TruncDiv(a, b)}
    [] op = "REMAINDER"   -> IF DivFaults(a, b) THEN {} ELSE {TruncRem(a, b)}
    [] op = "BITWISE_AND" -> {BitAnd(a, b)}
    [] op = "BITWISE_OR"  -> {BitOr(a, b)}
    [] op = "BITWISE_XOR" -> {BitXor(a, b)}
    [] op = "LEFT_SHIFT"  -> IF a < 0 \/ b \notin 0..WordBits-1 THEN {} ELSE InRange(a * 2^b)
    [] op = "RIGHT_SHIFT" -> IF b \notin 0..WordBits-1 THEN {} ELSE {a \div 2^b}
    [] op = "LOGICAL_EQUAL"         -> {Truth(a = b)}
    [] op = "LOGICAL_NOT_EQUAL"     -> {Truth(a # b)}
    [] op = "LOGICAL_LESS_THAN"     -> {Truth(a < b)}
    [] op = "LOGICAL_LESS_EQUAL"    -> {Truth(a <= b)}
    [] op = "LOGICAL_GREATER_THAN"  -> {Truth(a > b)}
    [] op = "LOGICAL_GREATER_EQUAL" -> {Truth(a >= b)}

\* Give s the value in vs, or none.
Yield(s, vs) == IF vs = {} THEN Undefined(s) ELSE [s EXCEPT !.val = CHOOSE v \in vs : TRUE]

\* Two operands that are unsequenced may not conflict.
Conflict(s, t) == s.wr \cap (t.rd \cup t.wr) # {} \/ t.wr \cap s.rd # {}

\* What both evaluations did, t after s.
Both(s, t) == [t EXCEPT !.ok = s.ok /\ t.ok, !.rd = s.rd \cup t.rd, !.wr = s.wr \cup t.wr]

RECURSIVE Eval(_, _, _)
Eval(heap, n, env) ==
  LET node == heap[n] IN
  CASE node.type = "INT_LITERAL" -> Defined(node.value, env, {}, {})
    [] node.type = "VARIABLE" ->
         IF node.name \in DOMAIN env THEN Defined(env[node.name], env, {node.name}, {})
         ELSE Undefined(Defined(0, env, {}, {}))
    [] node.type = "UNARY" ->
         LET s == Eval(heap, node.left, env)
         IN IF s.ok THEN Yield(s, CUnary(node.op, s.val)) ELSE s
    [] node.type = "BINARY" /\ node.op \in ShortOps ->
         LET s == Eval(heap, node.left, env)
             stop == (node.op = "LOGICAL_AND") = (s.val = 0)
             t == Eval(heap, node.right, s.env)
         IN IF ~s.ok THEN s
            ELSE IF stop THEN [s EXCEPT !.val = Truth(s.val # 0)]
            ELSE [Both(s, t) EXCEPT !.val = Truth(t.val # 0)]
    [] node.type = "BINARY" /\ node.op \notin ShortOps ->
         LET s == Eval(heap, node.left, env)
             t == Eval(heap, node.right, s.env)
         IN IF ~s.ok THEN s
            ELSE IF ~t.ok \/ Conflict(s, t) THEN Undefined(Both(s, t))
            ELSE Yield(Both(s, t), CBinary(node.op, s.val, t.val))
    [] node.type = "ASSIGNMENT" ->
         LET x == heap[node.left].name
             t == Eval(heap, node.right, env)
         IN IF x \in t.wr THEN Undefined(t)
            ELSE [t EXCEPT !.env = SetVar(@, x, t.val), !.wr = @ \cup {x}]

\* The body's items in order.  The result is <<value>>, or <<>> if undefined.
RECURSIVE RunBody(_, _, _, _)
RunBody(heap, body, i, env) ==
  IF i > Len(body) THEN <<0>>
  ELSE LET n == heap[body[i]] IN
    CASE IsReturn(n) ->
           LET s == Eval(heap, n.left, env) IN IF s.ok THEN <<s.val>> ELSE <<>>
      [] n.type = "STATEMENT" /\ ~IsReturn(n) -> RunBody(heap, body, i + 1, env)
      [] n.type = "DECLARATION" ->
           IF n.left = NULL THEN RunBody(heap, body, i + 1, env)
           ELSE LET s == Eval(heap, n.left, env)
                IN IF s.ok THEN RunBody(heap, body, i + 1, SetVar(s.env, n.name, s.val)) ELSE <<>>
      [] OTHER ->
           LET s == Eval(heap, body[i], env)
           IN IF s.ok THEN RunBody(heap, body, i + 1, s.env) ELSE <<>>

CMeaning(heap, body) == RunBody(heap, body, 1, <<>>)
=============================================================================
