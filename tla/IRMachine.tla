----------------------------- MODULE IRMachine -----------------------------
(***************************************************************************)
(* What a sequence of IR instructions means: the instruction set of        *)
(* include/ir/instruction.h read as a machine whose memory is one word per *)
(* temporary.  A jump only reaches a label that comes later, which is all  *)
(* the generator needs: a jump backwards, or to no label at all, leaves    *)
(* the machine looking for the label at the end of the code.               *)
(***************************************************************************)
EXTENDS IR, Word, Sequences

\* junk is what a temporary holds before anything is written to it.
MachineInit(junk) ==
  [temps |-> <<>>, junk |-> junk, seek |-> NoLabel, halted |-> FALSE, result |-> 0,
   fault |-> FALSE]

TempValue(m, t) == IF t \in DOMAIN m.temps THEN m.temps[t] ELSE m.junk
OpValue(m, op)  == IF op.type = "TEMP" THEN TempValue(m, op.value) ELSE op.value
SetTemp(m, t, v) ==
  [m EXCEPT !.temps = [x \in DOMAIN @ \cup {t} |-> IF x = t THEN v ELSE @[x]]]

IRDivides(type, b, a) == type \in {"DIVIDE", "REMAINDER"} /\ DivFaults(a, b)

\* The word an instruction that Computes computes from a and b.
IRCompute(type, a, b) ==
  CASE type = "BITWISE_NOT"           -> BitNot(a)
    [] type = "NEGATE"                -> Wrap(-a)
    [] type = "LOGICAL_NOT"           -> Truth(a = 0)
    [] type = "ADD"                   -> Wrap(a + b)
    [] type = "SUBTRACT"              -> Wrap(a - b)
    [] type = "MULTIPLY"              -> Wrap(a * b)
    [] type = "DIVIDE"                -> TruncDiv(a, b)
    [] type = "REMAINDER"             -> TruncRem(a, b)
    [] type = "BITWISE_AND"           -> BitAnd(a, b)
    [] type = "BITWISE_OR"            -> BitOr(a, b)
    [] type = "BITWISE_XOR"           -> BitXor(a, b)
    [] type = "LEFT_SHIFT"            -> Shl(a, b)
    [] type = "RIGHT_SHIFT"           -> Sar(a, b)
    [] type = "LOGICAL_EQUAL"         -> Truth(a = b)
    [] type = "LOGICAL_NOT_EQUAL"     -> Truth(a # b)
    [] type = "LOGICAL_LESS_THAN"     -> Truth(a < b)
    [] type = "LOGICAL_LESS_EQUAL"    -> Truth(a <= b)
    [] type = "LOGICAL_GREATER_THAN"  -> Truth(a > b)
    [] type = "LOGICAL_GREATER_EQUAL" -> Truth(a >= b)

\* Execute one instruction in machine state m.
IRExecute(m, inst) ==
  LET a == OpValue(m, inst.src1)
      b == OpValue(m, inst.src2)
  IN CASE inst.type = "LABEL"  -> m
       [] inst.type = "RETURN" -> [m EXCEPT !.halted = TRUE, !.result = a]
       [] inst.type = "COPY"   -> SetTemp(m, inst.src1.value, b)
       [] inst.type = "JUMP"   -> [m EXCEPT !.seek = inst.src1.label]
       [] inst.type = "JUMP_ZERO" ->
            IF a = 0 THEN [m EXCEPT !.seek = inst.src2.label] ELSE m
       [] inst.type = "JUMP_NOT_ZERO" ->
            IF a # 0 THEN [m EXCEPT !.seek = inst.src2.label] ELSE m
       [] IRDivides(inst.type, b, a) -> [m EXCEPT !.halted = TRUE, !.fault = TRUE]
       [] OTHER -> SetTemp(m, inst.dest_id, IRCompute(inst.type, a, b))

\* While a jump seeks its label, every other instruction is passed over.
IRStep(m, inst) ==
  IF m.halted THEN m
  ELSE IF m.seek # NoLabel
  THEN IF Defines(inst) = {m.seek} THEN [m EXCEPT !.seek = NoLabel] ELSE m
  ELSE IRExecute(m, inst)

\* The machine after the first n instructions of insts.
IRRun(insts, n, junk) ==
  LET run[k \in 0..n] == IF k = 0 THEN MachineInit(junk) ELSE IRStep(run[k-1], insts[k])
  IN run[n]

\* A result is a sequence of one word; how it may end without one, a pair.
Stuck == <<"no result", "stuck">>
Fault == <<"no result", "fault">>
\* What running the whole code returns.
IROutcome(insts, junk) ==
  LET m == IRRun(insts, Len(insts), junk)
  IN IF ~m.halted THEN Stuck ELSE IF m.fault THEN Fault ELSE <<m.result>>
=============================================================================
