-------------------------------- MODULE X86 --------------------------------
(***************************************************************************)
(* include/backend/x86_64/x86_64.h: instructions before they are text.     *)
(*                                                                         *)
(* An instruction is [mnemonic, dst, src].  The one operand of a unary     *)
(* instruction, unary.src, shares its bytes with binary.dst, so it is dst  *)
(* here too; the bytes a constructor leaves alone are zero, which read as  *)
(* an operand is the first operand type, a label.                          *)
(***************************************************************************)
EXTENDS IR, Sequences

AX  == 0
CX  == 1
DX  == 2
R10 == 3
R11 == 4

ZeroOp        == Operand("LABEL", 0, NoLabel)
ImmOp(c)      == Operand("IMMEDIATE", c, NoLabel)
RegOp(r)      == Operand("REGISTER", r, NoLabel)
PseudoOp(t)   == Operand("PSEUDO", t, NoLabel)
StackOp(off)  == Operand("STACK", off, NoLabel)

NoOps(mnem)            == [mnemonic |-> mnem, dst |-> ZeroOp, src |-> ZeroOp]
Unary(mnem, op)        == [mnemonic |-> mnem, dst |-> op, src |-> ZeroOp]
Binary(mnem, dst, src) == [mnemonic |-> mnem, dst |-> dst, src |-> src]
Jump(mnem, l)          == Unary(mnem, LabelOp(l))
DefineLabel(l)         == Unary("DEFINE_LABEL", LabelOp(l))

BinaryMnemonics == {"MOV", "ADD", "SUB", "IMUL", "AND", "OR", "XOR", "SHL", "SAR", "CMP"}
SetMnemonics    == {"SETE", "SETNE", "SETG", "SETGE", "SETL", "SETLE"}
UnaryMnemonics  == {"IDIV", "NEG", "NOT"} \cup SetMnemonics
JumpMnemonics   == {"JMP", "JE", "JNE"}

Mnemonics       == BinaryMnemonics \cup UnaryMnemonics \cup JumpMnemonics
                     \cup {"RET", "CDQ", "DEFINE_LABEL", "ALLOCATE_STACK", "DEALLOCATE_STACK"}

\* x86_64_ir_operand
x86_64_ir_operand(op) == IF op.type = "TEMP" THEN PseudoOp(op.value) ELSE ImmOp(op.value)

\* What the assembler accepts: no immediate destination (except of a mov's or a
\* cmp's source side), at most one memory operand, imul only into a register,
\* a variable shift count only in cl, and no pseudo left.
Legal(inst) ==
  LET op == inst.mnemonic
      d  == inst.dst.type
      s  == inst.src.type
  IN /\ op \in Mnemonics
     /\ op \in BinaryMnemonics =>
          /\ d \in {"REGISTER", "STACK"} /\ s \in {"REGISTER", "STACK", "IMMEDIATE"}
          /\ ~(d = "STACK" /\ s = "STACK")
     /\ op = "IMUL" => d = "REGISTER"
     /\ op \in {"SHL", "SAR"} => s = "IMMEDIATE" \/ inst.src = RegOp(CX)
     /\ op \in UnaryMnemonics => d \in {"REGISTER", "STACK"}
     /\ op \in JumpMnemonics \cup {"DEFINE_LABEL"} => d = "LABEL" /\ inst.dst.label # NoLabel
=============================================================================
