------------------------------- MODULE Trees -------------------------------
(* Small source programs for the model checker: trees written as nested      *)
(* records, and the heap and body the parser would build for them.           *)
EXTENDS AST, Sequences

Lit(c)       == [node |-> ast_int_literal(c), kids |-> <<>>]
Var(x)       == [node |-> ast_variable(x), kids |-> <<>>]
Un(op, e)    == [node |-> ast_unary(op, 0), kids |-> <<e>>]
Bin(op, l, r) == [node |-> ast_binary(op, 0, 0), kids |-> <<l, r>>]
Asg(l, r)    == [node |-> ast_assignment(0, 0), kids |-> <<l, r>>]
Decl(x)      == [node |-> ast_declaration(x, 0), kids |-> <<>>]
DeclInit(x, e) == [node |-> ast_declaration(x, 0), kids |-> <<e>>]
Ret(e)       == [node |-> ast_statement("RETURN", 0), kids |-> <<e>>]
Null         == [node |-> ast_statement("NULL_EXPRESSION", 0), kids |-> <<>>]

\* The heap that tree t appends to one with n nodes; its root comes last.
RECURSIVE Flatten(_, _)
Flatten(t, n) ==
  IF t.kids = <<>> THEN <<t.node>>
  ELSE LET l  == Flatten(t.kids[1], n)
           r  == IF Len(t.kids) = 1 THEN <<>> ELSE Flatten(t.kids[2], n + Len(l))
           at == [t.node EXCEPT !.left = n + Len(l),
                                !.right = IF r = <<>> THEN NULL ELSE n + Len(l) + Len(r)]
       IN l \o r \o <<at>>

RECURSIVE Program(_)
Program(items) ==
  IF items = <<>> THEN [ast |-> <<>>, body |-> <<>>]
  ELSE LET p == Program(SubSeq(items, 1, Len(items) - 1))
           f == Flatten(items[Len(items)], Len(p.ast))
       IN [ast  |-> p.ast \o f,
           body |-> Append(p.body, Len(p.ast) + Len(f))]
=============================================================================
