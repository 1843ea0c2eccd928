----------------------------- MODULE AsmMachine -----------------------------
(***************************************************************************)
(* What the assembler and the processor make of the emitted lines: the     *)
(* names of the registers, the forms of the instructions, the stack in     *)
(* memory.  The stack grows down from the address 0, where the caller's    *)
(* return address is; addresses count bytes.                               *)
(***************************************************************************)
EXTENDS X86Machine, TLC

\* The assembler's names.
Reg32 == ("eax" :> AX @@ "ecx" :> CX @@ "edx" :> DX @@ "r10d" :> R10 @@ "r11d" :> R11)
Reg8  == ("al" :> AX @@ "cl" :> CX @@ "dl" :> DX @@ "r10b" :> R10 @@ "r11b" :> R11)
Reg64 == {"rsp", "rbp"}
Operation ==
  ("mov" :> "MOV" @@ "add" :> "ADD" @@ "sub" :> "SUB" @@ "imul" :> "IMUL" @@ "and" :> "AND" @@
   "or" :> "OR" @@ "xor" :> "XOR" @@ "shl" :> "SHL" @@ "sar" :> "SAR" @@ "cmp" :> "CMP" @@
   "neg" :> "NEG" @@ "not" :> "NOT" @@ "idiv" :> "IDIV" @@ "cdq" :> "CDQ" @@
   "jmp" :> "JMP" @@ "je" :> "JE" @@ "jne" :> "JNE" @@ "label" :> "DEFINE_LABEL" @@
   "sete" :> "SETE" @@ "setne" :> "SETNE" @@ "setg" :> "SETG" @@ "setge" :> "SETGE" @@
   "setl" :> "SETL" @@ "setle" :> "SETLE" @@ "ret" :> "RET")

\* 0 for a number, which takes the size of the other operand.
Size(arg) == CASE arg.kind = "mem" -> arg.size
               [] arg.kind = "reg" -> (CASE arg.name \in DOMAIN Reg32 -> 4
                                         [] arg.name \in DOMAIN Reg8  -> 1
                                         [] arg.name \in Reg64        -> 8)
               [] OTHER -> 0
IsPlace(arg) == arg.kind \in {"reg", "mem"}

\* The operands the assembler takes.
Accepts(line) ==
  LET n == Len(line.args)
      a == line.args[1]
      b == line.args[2]
      two(sizes) == n = 2 /\ IsPlace(a) /\ Size(a) \in sizes /\ ~(a.kind = "mem" /\ b.kind = "mem")
  IN CASE line.op \in {"ret", "cdq"} -> n = 0
       [] line.op \in {"push", "pop"} -> n = 1 /\ a.kind = "reg" /\ Size(a) = 8
       [] line.op \in {"neg", "not", "idiv"} -> n = 1 /\ IsPlace(a) /\ Size(a) = 4
       [] line.op \in {"sete", "setne", "setg", "setge", "setl", "setle"} ->
            n = 1 /\ IsPlace(a) /\ Size(a) = 1
       [] line.op \in {"jmp", "je", "jne", "label"} -> n = 1 /\ a.kind = "label" /\ a.label # NoLabel
       [] line.op \in {"shl", "sar"} -> two({4}) /\ (b.kind = "imm" \/ b = [b EXCEPT !.kind = "reg", !.name = "cl"])
       [] line.op \in {"mov", "add", "sub", "and", "or", "xor", "cmp", "imul"} ->
            /\ two({4, 8}) /\ (b.kind = "imm" \/ Size(b) = Size(a))
            /\ line.op = "imul" => a.kind = "reg"
       [] OTHER -> FALSE

-----------------------------------------------------------------------------

Caller == 64  \* the caller's rbp
AsmInit(junk) == CpuInit(junk) @@ [rsp |-> 0, rbp |-> Caller]

\* The function's own frame: above rsp, below what the prologue has pushed.
InFrame(m, address) == m.rsp <= address /\ address + 4 <= m.rbp /\ address < 0

Address(m, arg) == m.rbp + arg.number
Wild(m, line)   == \E k \in DOMAIN line.args : /\ line.args[k].kind = "mem"
                                               /\ ~InFrame(m, Address(m, line.args[k]))

Located(m, arg) ==
  CASE arg.kind = "mem"   -> StackOp(Address(m, arg))
    [] arg.kind = "imm"   -> ImmOp(arg.number)
    [] arg.kind = "label" -> LabelOp(arg.label)
    [] arg.kind = "reg"   -> RegOp(IF arg.name \in DOMAIN Reg32 THEN Reg32[arg.name] ELSE Reg8[arg.name])

\* rsp and rbp, and what is moved between them.
Pointer(m, arg) == CASE arg.kind = "imm" -> arg.number
                     [] arg.name = "rsp" -> m.rsp
                     [] arg.name = "rbp" -> m.rbp
SetPointer(m, arg, v) == IF arg.name = "rsp" THEN [m EXCEPT !.rsp = v] ELSE [m EXCEPT !.rbp = v]
OnPointers(line) == line.args # <<>> /\ Size(line.args[1]) = 8

AsmExecute(m, line) ==
  LET at(k) == IF k \in DOMAIN line.args THEN Located(m, line.args[k]) ELSE ZeroOp
      a == line.args[1]
      b == line.args[2]
  IN CASE Wild(m, line) -> Crash(m)
       [] line.op = "push" ->
            [WriteTo(m, StackOp(m.rsp - 8), Pointer(m, a)) EXCEPT !.rsp = @ - 8]
       [] line.op = "pop" ->
            SetPointer([m EXCEPT !.rsp = @ + 8], a, Cell(m, <<"STACK", m.rsp>>))
       [] OnPointers(line) /\ line.op = "mov" -> SetPointer(m, a, Pointer(m, b))
       [] OnPointers(line) /\ line.op = "sub" -> SetPointer(m, a, Pointer(m, a) - Pointer(m, b))
       \* The caller's return address on top, and the caller's rbp.
       [] line.op = "ret" /\ (m.rsp # 0 \/ m.rbp # Caller) -> Crash(m)
       [] OTHER -> CpuExecute(m, [mnemonic |-> Operation[line.op], dst |-> at(1), src |-> at(2)])

AsmStep(m, line) ==
  IF m.halted THEN m
  ELSE IF m.seek # NoLabel
  THEN IF line.op = "label" /\ line.args[1].label = m.seek THEN [m EXCEPT !.seek = NoLabel] ELSE m
  ELSE AsmExecute(m, line)

\* What calling the assembled function returns.
AsmOutcome(lines, junk) ==
  LET run[k \in 0..Len(lines)] ==
        IF k = 0 THEN AsmInit(junk) ELSE AsmStep(run[k-1], lines[k])
      m == run[Len(lines)]
  IN IF \E k \in DOMAIN lines : ~Accepts(lines[k]) THEN <<"no result", "refused">>
     ELSE IF ~m.halted THEN CpuStuck ELSE IF m.fault THEN CpuFault ELSE <<m.result>>
=============================================================================
