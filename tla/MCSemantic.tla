----------------------------- MODULE MCSemantic -----------------------------
EXTENDS Semantic, Trees

x == <<"x">>
y == <<"y">>
xsa == <<"x", 0>>  \* an identifier spelled x_sa0

Leaves == {Lit(1), Var(x), Var(y), Var(xsa)}

\* The expressions: assignments to what may not be assigned to among them.
One == {Un("NEGATE", a) : a \in Leaves}
  \cup {Bin("ADD", a, b) : a \in Leaves, b \in Leaves}
  \cup {Asg(a, b) : a \in Leaves, b \in {Lit(1), Var(x)}}
Two == {Bin("LOGICAL_AND", a, Asg(Un("NEGATE", Var(x)), Var(y))) : a \in {Lit(1), Var(y)}}
  \cup {Asg(Var(x), a) : a \in One}

\* A body: two declarations, then an item, then a return; or the item first.
Decls == {Decl(v) : v \in {x, xsa}} \cup {DeclInit(v, e) : v \in {x, xsa}, e \in Leaves}
Short == {Ret(Var(x)), Null, Asg(Var(x), Var(xsa)), Bin("ADD", Var(y), Var(x))}

Looked2 == {<<d1, d2, e, Ret(Var(xsa))>> : d1 \in Decls, d2 \in Decls,
                                            e \in Short \cup {Ret(Asg(Lit(1), Var(x)))}}
      \cup {<<Decl(x), e, Decl(y), f>> : e \in One \cup Two, f \in Short}

\* Top-level expressions that are a unary operator, a variable or a literal.
Skipped == {<<Decl(x), e, Ret(Var(x))>> : e \in Leaves \cup {Un("NEGATE", a) : a \in Leaves}}
      \cup {<<Decl(x), Un("NEGATE", e), Ret(Var(x))>> : e \in One \cup Two}

MCInputs == {Program(t) : t \in Looked2 \cup Skipped}
=============================================================================
