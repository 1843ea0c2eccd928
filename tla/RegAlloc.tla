------------------------------ MODULE RegAlloc ------------------------------
(***************************************************************************)
(* src/backend/x86_64/regalloc.c: pseudo registers become stack slots, a   *)
(* frame is put around the code, and five passes split the instructions    *)
(* the processor does not have.  One step is one iteration of one of the   *)
(* loops of x86_64_regalloc and of the passes it calls.                    *)
(***************************************************************************)
EXTENDS X86, Sequences, SequencesExt

CONSTANTS Programs, \* the pseudo-register programs to allocate
          MapSize   \* the length of pseudo_offset_map: 1024

Operands     == [type : {"LABEL", "IMMEDIATE", "REGISTER", "PSEUDO", "STACK"}, value : Int,
                 label : {NoLabel} \cup LabelNames]
Instructions == [mnemonic : Mnemonics, dst : Operands, src : Operands]

\* What create_inst selects: a value is a pseudo register or an immediate, a
\* destination a pseudo register; only a mov names a register, ax or dx, and only
\* a comparison and a division may start with an immediate.
Selected == {inst \in Instructions :
  LET op == inst.mnemonic
      d  == inst.dst.type
      s  == inst.src.type
  IN /\ op \notin {"ALLOCATE_STACK", "DEALLOCATE_STACK"}
     /\ op = "MOV" => d \in {"PSEUDO", "REGISTER"} /\ s \in {"PSEUDO", "REGISTER", "IMMEDIATE"}
     /\ \A o \in {inst.dst, inst.src} : o.type = "REGISTER" => o.value \in {AX, DX}
     /\ op \in BinaryMnemonics \ {"MOV"} =>
          /\ d = "PSEUDO" \/ (op = "CMP" /\ d = "IMMEDIATE")
          /\ s \in {"PSEUDO", "IMMEDIATE"}
     /\ op \notin BinaryMnemonics => s = "LABEL"
     /\ op \in UnaryMnemonics => d = "PSEUDO" \/ (op = "IDIV" /\ d = "IMMEDIATE")
     /\ op \notin BinaryMnemonics \cup UnaryMnemonics => d = "LABEL"
     /\ op \in JumpMnemonics \cup {"DEFINE_LABEL"} => inst.dst.label # NoLabel}

ASSUME RegAllocAssumption ==
  /\ MapSize \in Nat
  /\ Programs \subseteq Seq(Selected)

VARIABLES
  prog,        \* prog->instructions
  pass,        \* the loop that runs
  i,           \* its index, from 1
  offsetMap,   \* pseudo_offset_map: 0 where nothing is mapped
  nextOffset   \* next_stack_offset

vars == <<prog, pass, i, offsetMap, nextOffset>>

Fresh == /\ i = 1
         /\ offsetMap = [t \in 0..MapSize-1 |-> 0]
         /\ nextOffset = -4

Init == prog \in Programs /\ pass = "map" /\ Fresh

-----------------------------------------------------------------------------
(* regalloc: one instruction's pseudo operands, destination first *)

\* Mutant of WithSlot: *next_offset -= 4 is missing.
WithSameSlot(op, m) ==
  IF op.type = "PSEUDO" /\ m.map[op.value] = 0
  THEN [m EXCEPT !.map[op.value] = m.next] ELSE m

\* The map and the next offset once op has a slot.
WithSlot(op, m) ==
  IF op.type = "PSEUDO" /\ m.map[op.value] = 0
  THEN [map |-> [m.map EXCEPT ![op.value] = m.next], next |-> m.next - 4]
  ELSE m

Placed(op, map) == IF op.type = "PSEUDO" THEN StackOp(map[op.value]) ELSE op

Pseudos(inst) == {op.value : op \in {o \in {inst.dst, inst.src} : o.type = "PSEUDO"}}

\* Mutant of MapInstruction: the source operand is mapped but not rewritten.
MapDestinationOnly ==
  /\ pass = "map" /\ i <= Len(prog)
  /\ Pseudos(prog[i]) \subseteq 0..MapSize-1
  /\ LET inst == prog[i]
         m == WithSlot(inst.src, WithSlot(inst.dst, [map |-> offsetMap, next |-> nextOffset]))
     IN /\ offsetMap' = m.map /\ nextOffset' = m.next
        /\ prog' = [prog EXCEPT ![i] = [inst EXCEPT !.dst = Placed(@, m.map)]]
  /\ i' = i + 1
  /\ UNCHANGED pass

MapInstruction ==
  /\ pass = "map" /\ i <= Len(prog)
  /\ Pseudos(prog[i]) \subseteq 0..MapSize-1
  /\ LET inst == prog[i]
         m == WithSlot(inst.src, WithSlot(inst.dst, [map |-> offsetMap, next |-> nextOffset]))
     IN /\ offsetMap' = m.map /\ nextOffset' = m.next
        /\ prog' = [prog EXCEPT ![i] = [inst EXCEPT !.dst = Placed(@, m.map),
                                                    !.src = Placed(@, m.map)]]
  /\ i' = i + 1
  /\ UNCHANGED pass

\* A pseudo register beyond the array: the compiler reads and writes memory
\* that is not the map's, and nothing more can be said of it.
MapOutOfBounds ==
  /\ pass = "map" /\ i <= Len(prog)
  /\ ~(Pseudos(prog[i]) \subseteq 0..MapSize-1)
  /\ pass' = "undefined"
  /\ UNCHANGED <<prog, i, offsetMap, nextOffset>>

MapDone ==
  /\ pass = "map" /\ i > Len(prog)
  /\ pass' = "stack"
  /\ UNCHANGED <<prog, i, offsetMap, nextOffset>>

-----------------------------------------------------------------------------
(* stackalloc *)

\* Mutant of AllocAmount: the last slot is left out.
AllocAmountShort == -(nextOffset + 8)

AllocAmount == -(nextOffset + 4)

\* Mutants of StackAlloc: the epilogue goes last; the early return is missing,
\* so that the assertion stops the compiler when there is nothing to allocate.
StackAllocAtEnd ==
  /\ pass = "stack"
  /\ prog' = IF AllocAmount = 0 THEN prog
             ELSE <<Unary("ALLOCATE_STACK", StackOp(AllocAmount))>> \o prog
                    \o <<NoOps("DEALLOCATE_STACK")>>
  /\ pass' = "addr_addr" /\ i' = 1
  /\ UNCHANGED <<offsetMap, nextOffset>>
StackAllocAsserts ==
  /\ pass = "stack"
  /\ AllocAmount > 0
  /\ prog' = InsertAt(InsertAt(prog, 1, Unary("ALLOCATE_STACK", StackOp(AllocAmount))),
                      Len(prog) + 1, NoOps("DEALLOCATE_STACK"))
  /\ pass' = "addr_addr" /\ i' = 1
  /\ UNCHANGED <<offsetMap, nextOffset>>

\* The epilogue goes before the last instruction, wherever the returns are.
StackAlloc ==
  /\ pass = "stack"
  /\ prog' = IF AllocAmount = 0 THEN prog
             ELSE InsertAt(InsertAt(prog, 1, Unary("ALLOCATE_STACK", StackOp(AllocAmount))),
                           Len(prog) + 1, NoOps("DEALLOCATE_STACK"))
  /\ pass' = "addr_addr" /\ i' = 1
  /\ UNCHANGED <<offsetMap, nextOffset>>

-----------------------------------------------------------------------------
(* The passes: what each puts in place of one instruction. *)

BothStack(inst) == inst.dst.type = "STACK" /\ inst.src.type = "STACK"

fix_invalid_addr_addr(inst) ==
  IF inst.mnemonic \notin {"SHL", "SAR"} /\ BothStack(inst)
  THEN << Binary("MOV", RegOp(R10), StackOp(inst.src.value)),
          Binary(inst.mnemonic, StackOp(inst.dst.value), RegOp(R10)) >>
  ELSE << inst >>

\* Mutant of fix_invalid_imuls: only the form addr_addr has already removed.
fix_imuls_both_stack(inst) ==
  IF inst.mnemonic = "IMUL" /\ BothStack(inst)
  THEN << Binary("MOV", RegOp(R11), StackOp(inst.dst.value)),
          Binary("IMUL", RegOp(R11), inst.src),
          Binary("MOV", StackOp(inst.dst.value), RegOp(R11)) >>
  ELSE << inst >>

fix_invalid_imuls(inst) ==
  IF inst.mnemonic = "IMUL" /\ inst.dst.type = "STACK"
  THEN << Binary("MOV", RegOp(R11), StackOp(inst.dst.value)),
          Binary("IMUL", RegOp(R11), inst.src),
          Binary("MOV", StackOp(inst.dst.value), RegOp(R11)) >>
  ELSE << inst >>

fix_invalid_idivs(inst) ==
  IF inst.mnemonic = "IDIV" /\ inst.dst.type = "IMMEDIATE"
  THEN << Binary("MOV", RegOp(R10), ImmOp(inst.dst.value)),
          Unary("IDIV", RegOp(R10)) >>
  ELSE << inst >>

fix_invalid_shifts(inst) ==
  IF inst.mnemonic \in {"SHL", "SAR"} /\ BothStack(inst)
  THEN << Binary("MOV", RegOp(CX), StackOp(inst.src.value)),
          Binary(inst.mnemonic, StackOp(inst.dst.value), RegOp(CX)) >>
  ELSE << inst >>

\* Mutant of fix_invalid_cmps: the operands as its comment has them.
fix_cmps_swapped(inst) ==
  IF inst.mnemonic = "CMP" /\ inst.dst.type = "IMMEDIATE"
  THEN << Binary("MOV", RegOp(R11), ImmOp(inst.dst.value)),
          Binary("CMP", inst.src, RegOp(R11)) >>
  ELSE << inst >>

fix_invalid_cmps(inst) ==
  IF inst.mnemonic = "CMP" /\ inst.dst.type = "IMMEDIATE"
  THEN << Binary("MOV", RegOp(R11), ImmOp(inst.dst.value)),
          Binary("CMP", RegOp(R11), inst.src) >>
  ELSE << inst >>

\* One iteration: the loop goes on with what it just inserted.
FixInstruction(name, Fix(_)) ==
  /\ pass = name /\ i <= Len(prog)
  /\ prog' = SubSeq(prog, 1, i - 1) \o Fix(prog[i]) \o SubSeq(prog, i + 1, Len(prog))
  /\ i' = i + 1
  /\ UNCHANGED <<pass, offsetMap, nextOffset>>

FixAddrAddr == FixInstruction("addr_addr", fix_invalid_addr_addr)
FixImul     == FixInstruction("imul", fix_invalid_imuls)
FixIdiv     == FixInstruction("idiv", fix_invalid_idivs)
FixShift    == FixInstruction("shift", fix_invalid_shifts)
FixCmp      == FixInstruction("cmp", fix_invalid_cmps)

NextPass == [addr_addr |-> "imul", imul |-> "idiv", idiv |-> "shift", shift |-> "cmp",
             cmp |-> "done"]

\* Mutant of PassDone: the next loop starts before the array.
PassDoneBefore ==
  /\ pass \in DOMAIN NextPass /\ i > Len(prog)
  /\ pass' = NextPass[pass] /\ i' = 0
  /\ UNCHANGED <<prog, offsetMap, nextOffset>>

PassDone ==
  /\ pass \in DOMAIN NextPass /\ i > Len(prog)
  /\ pass' = NextPass[pass] /\ i' = 1
  /\ UNCHANGED <<prog, offsetMap, nextOffset>>

Next == \/ MapInstruction \/ MapOutOfBounds \/ MapDone
        \/ StackAlloc
        \/ FixAddrAddr \/ FixImul \/ FixIdiv \/ FixShift \/ FixCmp
        \/ PassDone

Spec     == Init /\ [][Next]_vars
\* The passes run to their end on the calling thread.
FairSpec == Spec /\ WF_vars(Next)

-----------------------------------------------------------------------------
(* Properties *)

Passes == {"map", "stack", "undefined", "done"} \cup DOMAIN NextPass

\* The types of the passes' state.
TypeOK ==
  /\ pass \in Passes
  /\ i \in 1..Len(prog)+1
  /\ offsetMap \in [0..MapSize-1 -> Int]
  /\ nextOffset \in Int
  /\ prog \in Seq(Instructions)

\* Two pseudo registers never share a slot, slots do not overlap, and every one
\* of them is in the part of the frame already counted: offset 0 means
\* "not mapped" and no pseudo is ever given it.
SlotsDistinct ==
  /\ nextOffset <= -4 /\ nextOffset % 4 = 0
  /\ \A t \in DOMAIN offsetMap :
       offsetMap[t] # 0 => /\ offsetMap[t] \in nextOffset+4 .. -4
                           /\ offsetMap[t] % 4 = 0
  /\ \A t, u \in DOMAIN offsetMap :
       (offsetMap[t] = offsetMap[u] /\ offsetMap[t] # 0) => t = u

\* From the mapping on, every stack operand names a mapped pseudo's slot, and
\* no pseudo operand is left before i.
SlotOf(op) == op.type = "STACK" => \E t \in DOMAIN offsetMap : offsetMap[t] = op.value
OperandsPlaced ==
  \A k \in DOMAIN prog :
    /\ prog[k].mnemonic # "ALLOCATE_STACK" => SlotOf(prog[k].dst) /\ SlotOf(prog[k].src)
    /\ (pass # "undefined" /\ (pass = "map" => k < i)) => Pseudos(prog[k]) = {}

\* After stackalloc the frame holds every slot the code uses.
FrameSize == IF prog[1].mnemonic = "ALLOCATE_STACK" THEN prog[1].dst.value ELSE 0
FrameCovers ==
  pass \in DOMAIN NextPass \cup {"done"} =>
    \A k \in DOMAIN prog : \A op \in {prog[k].dst, prog[k].src} :
      (op.type = "STACK" /\ prog[k].mnemonic # "ALLOCATE_STACK") => -op.value \in 4..FrameSize

\* Prologue and epilogue belong together: code with a frame takes it down
\* before every return.
EpilogueBeforeReturns ==
  (pass \in DOMAIN NextPass \cup {"done"} /\ FrameSize > 0) =>
    \A k \in DOMAIN prog :
      prog[k].mnemonic = "RET" => prog[k-1].mnemonic = "DEALLOCATE_STACK"

\* The map serves every pseudo register the program has.
MapInBounds == pass # "undefined"

\* What comes out is what the assembler accepts: no later pass brings back a
\* form an earlier one removed.
AllLegal == pass = "done" => \A k \in DOMAIN prog : Legal(prog[k])

\* The passes come to an end although they insert into the array they walk.
Terminates == <>(pass \in {"done", "undefined"})
=============================================================================
