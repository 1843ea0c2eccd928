----------------------------- MODULE X86Machine -----------------------------
(***************************************************************************)
(* The processor, as far as the instructions of X86 use it: registers,     *)
(* flags, the stack frame, and what the emitter's expansions of the        *)
(* prologue and epilogue do.  Pseudo registers have cells of their own, so *)
(* that code means something before register allocation too.               *)
(***************************************************************************)
EXTENDS X86, Word

NoFlags == <<>>

\* cells holds registers, pseudos and stack slots, each junk until written;
\* flags the two words last compared; frame the sizes of the frames pushed.
CpuInit(junk) ==
  [cells |-> <<>>, junk |-> junk, flags |-> NoFlags, seek |-> NoLabel, frame |-> <<>>,
   halted |-> FALSE, fault |-> FALSE, result |-> 0]

Place(op)     == <<op.type, op.value>>
Cell(m, p)    == IF p \in DOMAIN m.cells THEN m.cells[p] ELSE m.junk
Read(m, op)   == IF op.type = "IMMEDIATE" THEN op.value ELSE Cell(m, Place(op))
WriteTo(m, op, v) ==
  LET p == Place(op)
  IN [m EXCEPT !.cells = [c \in DOMAIN @ \cup {p} |-> IF c = p THEN v ELSE @[c]]]
Crash(m) == [m EXCEPT !.halted = TRUE, !.fault = TRUE]

Holds(cond, f) == CASE cond \in {"SETE", "JE"}   -> f[1] = f[2]
                    [] cond \in {"SETNE", "JNE"} -> f[1] # f[2]
                    [] cond = "SETG"  -> f[1] > f[2]
                    [] cond = "SETGE" -> f[1] >= f[2]
                    [] cond = "SETL"  -> f[1] < f[2]
                    [] cond = "SETLE" -> f[1] <= f[2]

\* dst := dst op src
Arithmetic(mnem, a, b) ==
  CASE mnem = "MOV"  -> b
    [] mnem = "ADD"  -> Wrap(a + b)
    [] mnem = "SUB"  -> Wrap(a - b)
    [] mnem = "IMUL" -> Wrap(a * b)
    [] mnem = "AND"  -> BitAnd(a, b)
    [] mnem = "OR"   -> BitOr(a, b)
    [] mnem = "XOR"  -> BitXor(a, b)
    [] mnem = "SHL"  -> Shl(a, b)
    [] mnem = "SAR"  -> Sar(a, b)

\* All but MOV and NOT leave the flags changed; shifts, imul and idiv leave
\* them in states no comparison describes.
KeepsFlags(mnem) == mnem \in {"MOV", "NOT", "CDQ"} \cup SetMnemonics
SetFlags(m, mnem) == IF KeepsFlags(mnem) THEN m ELSE [m EXCEPT !.flags = NoFlags]

\* edx:eax / operand.  cdq has filled edx with eax's sign.
Divide(m, inst) ==
  LET a == Cell(m, <<"REGISTER", AX>>)
      b == Read(m, inst.dst)
  IN IF DivFaults(a, b) \/ Cell(m, <<"REGISTER", DX>>) # (IF a < 0 THEN -1 ELSE 0)
     THEN Crash(m)
     ELSE WriteTo(WriteTo(m, RegOp(AX), TruncDiv(a, b)), RegOp(DX), TruncRem(a, b))

CpuExecute(m, inst) ==
  LET op == inst.mnemonic
      a  == Read(m, inst.dst)
  IN CASE op = "DEFINE_LABEL" -> m
       [] op = "JMP" -> [m EXCEPT !.seek = inst.dst.label]
       [] op \in {"JE", "JNE"} ->
            IF m.flags = NoFlags THEN Crash(m)
            ELSE IF Holds(op, m.flags) THEN [m EXCEPT !.seek = inst.dst.label] ELSE m
       [] op = "CMP" -> [m EXCEPT !.flags = <<a, Read(m, inst.src)>>]
       [] op \in SetMnemonics ->
            IF m.flags = NoFlags THEN Crash(m)
            ELSE WriteTo(m, inst.dst, SetLowByte(a, Truth(Holds(op, m.flags))))
       [] op = "NEG" -> SetFlags(WriteTo(m, inst.dst, Wrap(-a)), op)
       [] op = "NOT" -> WriteTo(m, inst.dst, BitNot(a))
       [] op = "CDQ" -> WriteTo(m, RegOp(DX), IF Cell(m, <<"REGISTER", AX>>) < 0 THEN -1 ELSE 0)
       [] op = "IDIV" -> SetFlags(Divide(m, inst), op)
       [] op = "ALLOCATE_STACK" -> [m EXCEPT !.frame = Append(@, inst.dst.value)]
       [] op = "DEALLOCATE_STACK" ->
            IF m.frame = <<>> THEN Crash(m) ELSE [m EXCEPT !.frame = SubSeq(@, 1, Len(@) - 1)]
       \* ret pops its address from the top of the stack: a frame still there
       \* makes it jump to a local variable.
       [] op = "RET" -> IF m.frame # <<>> THEN Crash(m)
                        ELSE [m EXCEPT !.halted = TRUE, !.result = Cell(m, <<"REGISTER", AX>>)]
       [] OTHER -> SetFlags(WriteTo(m, inst.dst, Arithmetic(op, a, Read(m, inst.src))), op)

CpuStep(m, inst) ==
  IF m.halted THEN m
  ELSE IF m.seek # NoLabel
  THEN IF inst.mnemonic = "DEFINE_LABEL" /\ inst.dst.label = m.seek
       THEN [m EXCEPT !.seek = NoLabel] ELSE m
  ELSE CpuExecute(m, inst)

\* The processor after running the sequence insts.
CpuRun(insts, junk) ==
  LET run[k \in 0..Len(insts)] ==
        IF k = 0 THEN CpuInit(junk) ELSE CpuStep(run[k-1], insts[k])
  IN run[Len(insts)]

\* As the outcomes of IRMachine.
CpuStuck == <<"no result", "stuck">>
CpuFault == <<"no result", "fault">>
CpuOutcome(insts, junk) ==
  LET m == CpuRun(insts, junk)
  IN IF ~m.halted THEN CpuStuck ELSE IF m.fault THEN CpuFault ELSE <<m.result>>
=============================================================================
