------------------------------ MODULE MCIRGen ------------------------------
EXTENDS IRGen, IRMachine, CSemantics, Trees

CONSTANT Junk  \* words an unwritten temporary may hold

\* The generated code returns what the C program returns, for every program
\* whose behaviour C defines: operands in order, each side effect done once and
\* only when control reaches it, a 0 where the return statement is missing.
MeaningPreserved ==
  (status = "done" /\ CMeaning(ast, body) # <<>>) =>
    \A junk \in Junk : IROutcome(code, junk) = CMeaning(ast, body)

-----------------------------------------------------------------------------
(* The programs *)

x == <<"x", 0>>
y == <<"y", 0>>

\* The operands of the operators: two literals, two variables.
Leaves0 == {Lit(0), Lit(3), Var(x), Var(y)}

\* One operator, every operator, every combination of leaves.
One == {Un(op, a) : op \in UnaryOps, a \in Leaves0}
   \cup {Bin(op, a, b) : op \in BinaryOps, a \in Leaves0, b \in Leaves0}
   \cup {Asg(Var(x), b) : b \in Leaves0}

\* Operators over operators: the ones whose code jumps or writes a variable,
\* under each other and under one arithmetic operator.
Inner == {Bin(op, a, b) : op \in ShortOps, a \in {Lit(0), Var(x)}, b \in {Lit(3), Var(y)}}
    \cup {Asg(Var(v), b) : v \in {x, y}, b \in {Lit(0), Var(y)}}
    \cup {Bin("SUBTRACT", Var(x), Var(y)), Bin("REMAINDER", Var(x), Lit(3)),
          Un("LOGICAL_NOT", Var(x))}
Two == {Bin(op, a, b) : op \in ShortOps \cup {"SUBTRACT"}, a \in Inner, b \in Inner}
   \cup {Un("NEGATE", a) : a \in Inner}
   \cup {Asg(Var(x), a) : a \in Inner}
Three == {Bin(op, a, b) : op \in ShortOps,
             a \in {Bin("LOGICAL_OR", c, Asg(Var(x), Lit(3))) : c \in Inner},
             b \in {Bin("LOGICAL_AND", Var(y), c) : c \in Inner}}

\* int x = 2; int y; y = 1; <e>; return x;  and  return <e>;
Prelude == <<DeclInit(x, Lit(2)), Decl(y), Asg(Var(y), Lit(1))>>

Trees == {Prelude \o <<Ret(e)>> : e \in One \cup Two \cup Three}
    \cup {Prelude \o <<e, Null, Ret(Bin("SUBTRACT", Var(x), Var(y)))>> : e \in Two}
    \cup {Prelude \o <<Ret(Var(x)), e>> : e \in Inner}
    \cup {<<>>, <<Decl(x)>>, <<Ret(Var(x))>>, <<DeclInit(x, Var(x)), Ret(Lit(1))>>,
          <<Un("NEGATE", Asg(Lit(3), Lit(0))), Ret(Lit(1))>>}

MCInputs == {Program(t) : t \in Trees}
MCJunk   == {-8, 5}
=============================================================================
