--------------------------------- MODULE IR ---------------------------------
(***************************************************************************)
(* include/ir/instruction.h and the constructors of src/ir/instruction.c.  *)
(* A label is <<prefix, n>>, printed as the prefix followed by the number. *)
(* Fields a constructor leaves out are zero, as in a C compound literal.   *)
(***************************************************************************)
EXTENDS Integers

NoLabel == <<>>

Operand(type, value, label) == [type |-> type, value |-> value, label |-> label]
NullOp     == Operand("NULL", 0, NoLabel)
TempOp(t)  == Operand("TEMP", t, NoLabel)
ConstOp(c) == Operand("CONST", c, NoLabel)
LabelOp(l) == Operand("LABEL", 0, l)

Instruction(type, dest, src1, src2) ==
  [type |-> type, dest_id |-> dest, src1 |-> src1, src2 |-> src2]

\* The operand is rebuilt from its type and value.
ValueOf(op) == Operand(op.type, op.value, NoLabel)

ir_instruction_unary(type, dest, op)   == Instruction(type, dest, ValueOf(op), NullOp)
ir_instruction_binary(type, dest, l, r) == Instruction(type, dest, ValueOf(l), ValueOf(r))
ir_instruction_copy(lhs, rhs)           == Instruction("COPY", 0, TempOp(lhs.value), ValueOf(rhs))
ir_instruction_label(l)                 == Instruction("LABEL", 0, LabelOp(l), NullOp)
ir_instruction_return(op)               == Instruction("RETURN", 0, ValueOf(op), NullOp)
ir_instruction_branch_always(l)         == Instruction("JUMP", 0, LabelOp(l), NullOp)
ir_instruction_branch_condition(type, op, l) ==
  Instruction(type, 0, ValueOf(op), LabelOp(l))

\* The instructions that compute into a temporary of their own.
ComputeTypes == {"BITWISE_NOT", "NEGATE", "LOGICAL_NOT",
                 "ADD", "SUBTRACT", "MULTIPLY", "DIVIDE", "REMAINDER", "BITWISE_AND",
                 "BITWISE_OR", "BITWISE_XOR", "LEFT_SHIFT", "RIGHT_SHIFT",
                 "LOGICAL_EQUAL", "LOGICAL_NOT_EQUAL", "LOGICAL_LESS_THAN",
                 "LOGICAL_LESS_EQUAL", "LOGICAL_GREATER_THAN", "LOGICAL_GREATER_EQUAL"}

Computes(inst) == inst.type \in ComputeTypes

\* What the instruction reads, what it writes, and where it may jump.
Reads(inst) ==
  {op.value : op \in {o \in IF inst.type = "COPY" THEN {inst.src2} ELSE {inst.src1, inst.src2} :
                        o.type = "TEMP"}}
Writes(inst) == IF Computes(inst) THEN {inst.dest_id}
                ELSE IF inst.type = "COPY" THEN {inst.src1.value} ELSE {}
Target(inst) == CASE inst.type = "JUMP" -> {inst.src1.label}
                  [] inst.type \in {"JUMP_ZERO", "JUMP_NOT_ZERO"} -> {inst.src2.label}
                  [] OTHER -> {}
Defines(inst) == IF inst.type = "LABEL" THEN {inst.src1.label} ELSE {}

-----------------------------------------------------------------------------
(* What the generator emits *)

IRTypes == ComputeTypes \cup {"COPY", "RETURN", "LABEL", "JUMP", "JUMP_ZERO", "JUMP_NOT_ZERO"}

\* ir.c has three prefixes for its labels.
LabelNames == {"false", "true", "end"} \X Nat

IROperands == [type : {"NULL", "TEMP", "CONST", "LABEL"}, value : Int, label : {NoLabel} \cup LabelNames]

\* What the constructors of instruction.c build.
IRInstructions == {inst \in [type : IRTypes, dest_id : Int, src1 : IROperands, src2 : IROperands] :
  /\ inst.type \in {"LABEL", "JUMP"} => inst.src1.label # NoLabel
  /\ inst.type \in {"JUMP_ZERO", "JUMP_NOT_ZERO"} => inst.src2.label # NoLabel}

\* A temporary of its own is not one that the instruction reads: gen.c writes it
\* before it reads the second source.
Generated == {inst \in IRInstructions : Computes(inst) => inst.dest_id \notin Reads(inst)}
=============================================================================
