------------------------------ MODULE SampleIR ------------------------------
(* IR programs for the model checker, of the shapes IRGen produces. *)
EXTENDS IR, Sequences

Const(c) == ConstOp(c)
t(n) == TempOp(n)
copy(d, s)       == ir_instruction_copy(TempOp(d), s)
compute(op, d, a, b) == ir_instruction_binary(op, d, a, b)
ret(a)           == ir_instruction_return(a)

BinaryTypes == ComputeTypes \ {"BITWISE_NOT", "NEGATE", "LOGICAL_NOT"}

\* The operands of an operation: two variables and a constant.
Sources == {t(0), t(1), Const(3)}

\* int x = v[1]; int y = v[2];
SetUp(v) == <<copy(0, Const(v[1])), copy(1, Const(v[2]))>>

\* return x op y;  every operator, every pair of operand kinds.
Binaries(v) == {SetUp(v) \o <<compute(op, 2, a, b), ret(t(2))>> :
                  op \in BinaryTypes, a \in Sources, b \in Sources}
Unaries(v)  == {SetUp(v) \o <<ir_instruction_unary(op, 2, a), ret(t(2))>> :
                  op \in {"BITWISE_NOT", "NEGATE", "LOGICAL_NOT"}, a \in Sources}

\* One operation feeds the next: what the first leaves in ax, dx, cx, r10, r11
\* and the flags must not matter to the second.
Chains(v) == {SetUp(v) \o <<compute(f, 2, t(0), t(1)), compute(g, 3, t(2), t(0)), ret(t(3))>> :
                f \in BinaryTypes, g \in BinaryTypes}

\* return (a && (y = 7, b)) + y, and with ||, as handle_binary_short_circuit
\* lays the code out.
Short(and, a, b) ==
  LET jump == IF and THEN "JUMP_ZERO" ELSE "JUMP_NOT_ZERO"
      cond == <<IF and THEN "false" ELSE "true", 0>>
      end  == <<"end", 1>>
  IN << ir_instruction_branch_condition(jump, a, cond),
        copy(1, Const(7)),
        ir_instruction_branch_condition(jump, b, cond),
        copy(2, Const(IF and THEN 1 ELSE 0)), ir_instruction_branch_always(end),
        ir_instruction_label(cond), copy(2, Const(IF and THEN 0 ELSE 1)),
        ir_instruction_label(end) >>
Shorts(v) == {SetUp(v) \o Short(and, a, b) \o <<compute("ADD", 3, t(2), t(1)), ret(t(3))>> :
                and \in BOOLEAN, a \in Sources, b \in Sources}

\* int x0 = 1; ... int xn-1 = n; return x0;
Many(n) == [k \in 1..n |-> copy(k - 1, Const(k))] \o <<ret(t(0))>>

\* No temporary at all, and one that is never written.
Bare == {<<ret(Const(3))>>, <<ret(t(0))>>}

\* int x = 5; int y = 2; return x; return y;
TwoReturns == SetUp(<<5, 2>>) \o <<ret(t(0)), ret(t(1))>>
=============================================================================
