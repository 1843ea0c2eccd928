------------------------------ MODULE Emitter ------------------------------
(***************************************************************************)
(* src/backend/x86_64/emitter.c and the tables of x86_64.c: the lines of   *)
(* assembly that stand for an instruction.  A line is its mnemonic and its *)
(* operands as the text names them: a register by its name, which gives    *)
(* its size; memory by its size and its distance from rbp; a number; a     *)
(* label.                                                                  *)
(***************************************************************************)
EXTENDS X86

Text(kind, name, size, number, label) ==
  [kind |-> kind, name |-> name, size |-> size, number |-> number, label |-> label]
RegText(name)       == Text("reg", name, 0, 0, NoLabel)
MemText(size, disp) == Text("mem", "", size, disp, NoLabel)
ImmText(n)          == Text("imm", "", 0, n, NoLabel)
LabelText(l)        == Text("label", "", 0, 0, l)

Line(op, args) == [op |-> op, args |-> args]

\* x86_64_reg_to_str, for four bytes and for one.
reg32_to_str == <<"eax", "ecx", "edx", "r10d", "r11d">>
reg8_to_str  == <<"al", "cl", "dl", "r10b", "r11b">>
x86_64_reg_to_str(reg, size) == IF size = 4 THEN reg32_to_str[reg + 1] ELSE reg8_to_str[reg + 1]

mnemonic_to_str ==
  [MOV |-> "mov", RET |-> "ret", NEG |-> "neg", NOT |-> "not",
   JMP |-> "jmp", JE |-> "je", JNE |-> "jne",
   SETE |-> "sete", SETNE |-> "setne", SETG |-> "setg", SETGE |-> "setge",
   SETL |-> "setl", SETLE |-> "setle",
   ADD |-> "add", SUB |-> "sub", IMUL |-> "imul", AND |-> "and", OR |-> "or", XOR |-> "xor",
   SHL |-> "shl", SAR |-> "sar", CMP |-> "cmp", IDIV |-> "idiv", CDQ |-> "cdq"]

\* An offset that is not negative is printed after a plus sign, negated.
print_operand(op, size) ==
  CASE op.type = "IMMEDIATE" -> ImmText(op.value)
    [] op.type = "REGISTER"  -> RegText(x86_64_reg_to_str(op.value, size))
    [] op.type = "STACK"     -> MemText(IF size = 1 THEN 1 ELSE 4,
                                        IF op.value < 0 THEN op.value ELSE -op.value)
    [] op.type = "LABEL"     -> LabelText(op.label)

\* Mutant of print_count: the count is printed as four bytes.
print_count_wide(op) == print_operand(op, 4)

\* The count of a shift.
print_count(op) == print_operand(op, 1)

emit_instruction(inst) ==
  LET op   == inst.mnemonic
      args == CASE op \in {"RET", "CDQ"} -> <<>>
                [] op \in {"NEG", "NOT", "IDIV"} \cup JumpMnemonics -> <<print_operand(inst.dst, 4)>>
                [] op \in SetMnemonics -> <<print_operand(inst.dst, 1)>>
                [] op \in {"SHL", "SAR"} -> <<print_operand(inst.dst, 4), print_count(inst.src)>>
                [] op \in BinaryMnemonics \ {"SHL", "SAR"} ->
                     <<print_operand(inst.dst, 4), print_operand(inst.src, 4)>>
  IN CASE op = "ALLOCATE_STACK" ->
            << Line("push", <<RegText("rbp")>>),
               Line("mov", <<RegText("rbp"), RegText("rsp")>>),
               Line("sub", <<RegText("rsp"), ImmText(inst.dst.value)>>) >>
       [] op = "DEALLOCATE_STACK" ->
            << Line("mov", <<RegText("rsp"), RegText("rbp")>>),
               Line("pop", <<RegText("rbp")>>) >>
       [] op = "DEFINE_LABEL" -> << Line("label", <<print_operand(inst.dst, 4)>>) >>
       [] OTHER -> << Line(mnemonic_to_str[op], args) >>
=============================================================================
