------------------------------ MODULE CodeGen ------------------------------
(***************************************************************************)
(* x86_64_create_prog of src/backend/x86_64/gen.c: create_inst on every IR *)
(* instruction in turn, register allocation on the result, and the loop of *)
(* x86_64_emit that prints it.  The meaning of the code is checked at      *)
(* every step.                                                             *)
(***************************************************************************)
EXTENDS RegAlloc, Gen, Emitter, IRMachine, AsmMachine

CONSTANTS IRPrograms, \* the IR programs to compile, in place of RegAlloc's Programs
          Junk        \* words that unwritten temporaries and slots may hold

ASSUME CodeGenAssumption == IRPrograms \subseteq Seq(Generated)

VARIABLES
  irCode,   \* ir->instructions, which are only read
  at,       \* i in x86_64_create_prog, from 1
  printed,  \* j in x86_64_emit, from 1
  lines     \* the lines printed so far

emitted     == <<printed, lines>>
codeGenVars == <<irCode, at, vars, emitted>>

\* pass is "gen" until register allocation begins.
NothingSelected == /\ at = 1
                   /\ prog = <<>> /\ pass = "gen" /\ Fresh
                   /\ printed = 1 /\ lines = <<>>

CodeGenInit == irCode \in IRPrograms /\ NothingSelected

CreateInst ==
  /\ pass = "gen" /\ at <= Len(irCode)
  /\ prog' = prog \o create_inst(irCode[at])
  /\ at' = at + 1
  /\ UNCHANGED <<irCode, pass, i, offsetMap, nextOffset, emitted>>

StartRegAlloc ==
  /\ pass = "gen" /\ at > Len(irCode)
  /\ pass' = "map"
  /\ UNCHANGED <<irCode, at, prog, i, offsetMap, nextOffset, emitted>>

RegAllocStep == Next /\ UNCHANGED <<irCode, at, emitted>>

EmitInstruction ==
  /\ pass = "done" /\ printed <= Len(prog)
  /\ lines' = lines \o emit_instruction(prog[printed])
  /\ printed' = printed + 1
  /\ UNCHANGED <<irCode, at, prog, pass, i, offsetMap, nextOffset>>

CodeGenNext == CreateInst \/ StartRegAlloc \/ RegAllocStep \/ EmitInstruction

CodeGenSpec == CodeGenInit /\ [][CodeGenNext]_codeGenVars

-----------------------------------------------------------------------------
(* Properties *)

\* Each pseudo register holds what its temporary holds.
SameMemory(cpu, m) ==
  \A t \in DOMAIN m.temps : Cell(cpu, <<"PSEUDO", t>>) = m.temps[t]

\* After every create_inst, the x86 code so far does what the IR so far does:
\* the same temporaries, looking for the same label, the same return or fault.
\* The destination of an instruction is written before its second source is
\* read, division goes through ax and dx, a comparison through the flags; none
\* of it may disturb another temporary.
PrefixSimulates ==
  pass = "gen" =>
    \A junk \in Junk :
      LET cpu == CpuRun(prog, junk)
          m   == IRRun(irCode, at - 1, junk)
      IN /\ cpu.halted = m.halted /\ cpu.fault = m.fault /\ cpu.seek = m.seek
         /\ m.halted => cpu.result = m.result
         /\ SameMemory(cpu, m)

\* A mapped pseudo register and its slot are one place while the map pass has
\* rewritten only the instructions before i.
Mapped(t) == t \in DOMAIN offsetMap /\ offsetMap[t] # 0
ResolvedOp(op) == IF op.type = "PSEUDO" /\ Mapped(op.value)
                  THEN StackOp(offsetMap[op.value]) ELSE op
ResolvedProg == [k \in DOMAIN prog |->
                   [prog[k] EXCEPT !.dst = ResolvedOp(@), !.src = ResolvedOp(@)]]

\* Every single rewriting step of register allocation keeps what the program
\* returns: slots stand for their pseudos, r10, r11 and cx are free where the
\* passes use them, the moves they insert leave the flags of a comparison alone,
\* and the frame is gone when the code returns.
RewritesPreserveMeaning ==
  (pass \notin {"gen", "undefined"} /\ printed = 1) =>
    \A junk \in Junk : CpuOutcome(ResolvedProg, junk) = IROutcome(irCode, junk)

Printed == pass = "done" /\ printed > Len(prog)

\* The text does what the IR does: the assembler takes every line, registers
\* and memory have the size the operation needs, a slot is inside the frame that
\* the expanded prologue makes, below the caller's rbp and return address, and
\* the function returns with the caller's rsp and rbp.
AssemblyKeepsMeaning ==
  Printed => \A junk \in Junk : AsmOutcome(lines, junk) = IROutcome(irCode, junk)

=============================================================================
