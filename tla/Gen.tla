-------------------------------- MODULE Gen --------------------------------
(***************************************************************************)
(* src/backend/x86_64/gen.c: the x86 instructions create_inst appends for  *)
(* one IR instruction, still over pseudo registers.                        *)
(***************************************************************************)
EXTENDS X86

Dest(inst) == PseudoOp(inst.dest_id)
Src1(inst) == x86_64_ir_operand(inst.src1)
Src2(inst) == x86_64_ir_operand(inst.src2)

UnaryMnemonic == [BITWISE_NOT |-> "NOT", NEGATE |-> "NEG"]
generic_unary(inst) ==
  << Binary("MOV", Dest(inst), Src1(inst)),
     Unary(UnaryMnemonic[inst.type], Dest(inst)) >>

BinaryMnemonic == [ADD |-> "ADD", SUBTRACT |-> "SUB", MULTIPLY |-> "IMUL",
                   BITWISE_AND |-> "AND", BITWISE_OR |-> "OR", BITWISE_XOR |-> "XOR",
                   LEFT_SHIFT |-> "SHL", RIGHT_SHIFT |-> "SAR"]
generic_binary(inst) ==
  << Binary("MOV", Dest(inst), Src1(inst)),
     Binary(BinaryMnemonic[inst.type], Dest(inst), Src2(inst)) >>

DivResult == [DIVIDE |-> AX, REMAINDER |-> DX]
generic_binary_div_rem(inst) ==
  << Binary("MOV", RegOp(AX), Src1(inst)),
     NoOps("CDQ"),
     Unary("IDIV", Src2(inst)),
     Binary("MOV", Dest(inst), RegOp(DivResult[inst.type])) >>

SetMnemonic == [LOGICAL_NOT           |-> "SETE",  LOGICAL_EQUAL      |-> "SETE",
                LOGICAL_NOT_EQUAL     |-> "SETNE", LOGICAL_LESS_THAN  |-> "SETL",
                LOGICAL_LESS_EQUAL    |-> "SETLE", LOGICAL_GREATER_THAN |-> "SETG",
                LOGICAL_GREATER_EQUAL |-> "SETGE"]
\* Mutant of generic_conditional: the upper bytes are not cleared.
conditional_byte_only(inst) ==
  << Binary("CMP", Src1(inst), IF inst.type = "LOGICAL_NOT" THEN ImmOp(0) ELSE Src2(inst)),
     Unary(SetMnemonic[inst.type], Dest(inst)) >>

generic_conditional(inst) ==
  << Binary("CMP", Src1(inst), IF inst.type = "LOGICAL_NOT" THEN ImmOp(0) ELSE Src2(inst)),
     Binary("MOV", Dest(inst), ImmOp(0)),
     Unary(SetMnemonic[inst.type], Dest(inst)) >>

generic_jump(inst) ==
  IF inst.type = "JUMP" THEN << Jump("JMP", inst.src1.label) >>
  ELSE << Binary("CMP", Src1(inst), ImmOp(0)),
          Jump(IF inst.type = "JUMP_ZERO" THEN "JE" ELSE "JNE", inst.src2.label) >>

generic_copy(inst)  == << Binary("MOV", PseudoOp(inst.src1.value), Src2(inst)) >>
handle_label(inst)  == << DefineLabel(inst.src1.label) >>
handle_return(inst) == << Binary("MOV", RegOp(AX), Src1(inst)), NoOps("RET") >>

create_inst(inst) ==
  CASE inst.type = "RETURN"                 -> handle_return(inst)
    [] inst.type \in DOMAIN UnaryMnemonic   -> generic_unary(inst)
    [] inst.type \in DOMAIN BinaryMnemonic  -> generic_binary(inst)
    [] inst.type \in DOMAIN SetMnemonic     -> generic_conditional(inst)
    [] inst.type = "COPY"                   -> generic_copy(inst)
    [] inst.type \in DOMAIN DivResult       -> generic_binary_div_rem(inst)
    [] inst.type = "LABEL"                  -> handle_label(inst)
    [] inst.type \in {"JUMP", "JUMP_ZERO", "JUMP_NOT_ZERO"} -> generic_jump(inst)
=============================================================================
