----------------------------- MODULE PassArray -----------------------------
(***************************************************************************)
(* include/utils/array.h and src/utils/array.c under the back end: the     *)
(* generator pushes instructions, and the passes of regalloc.c insert into *)
(* the array they walk, which may move with every growth.                  *)
(*                                                                         *)
(* What an iteration has still to do to the array is a list of accesses.   *)
(* One step is one of the statements that the macros are made of.          *)
(***************************************************************************)
EXTENDS X86, SequencesExt

CONSTANTS Inputs,   \* what the generator pushes: sequences of instructions
          MapSize,  \* as in RegAlloc
          Capacity  \* of the new array: 1

ASSUME PassArrayAssumption == Capacity \in Nat \ {0} /\ MapSize \in Nat

VARIABLES
  input, pushed,           \* what there is to push, and how much of it has been
  slots, elements, block,  \* the elements' room, how many are in use, and the
                           \* block of memory, a new one after each move
  work, step,              \* the accesses of this iteration; the statement of the first
  pass, i, offsetMap, nextOffset  \* as in RegAlloc; pass is "gen" before it

array == <<slots, elements, block>>
vars  == <<input, pushed, array, work, step, pass, i, offsetMap, nextOffset>>

Garbage == NoOps("garbage")

\* A position that is a number, or the last element when it is looked at.
AtLast == 0
Push(inst)        == [do |-> "push", inst |-> inst, pos |-> AtLast, block |-> 0]
Insert(inst, pos) == [do |-> "insert", inst |-> inst, pos |-> pos, block |-> 0]
\* Through a pointer into the block as it was.
Set(inst, pos, b) == [do |-> "set", inst |-> inst, pos |-> pos, block |-> b]

Init ==
  /\ input \in Inputs /\ pushed = 0
  /\ slots = [k \in 1..Capacity |-> Garbage] /\ elements = 0 /\ block = 0
  /\ work = <<>> /\ step = "grow"
  /\ pass = "gen" /\ i = 1
  /\ offsetMap = [t \in 0..MapSize-1 |-> 0] /\ nextOffset = -4

-----------------------------------------------------------------------------
(* What RegAlloc makes of the sequence that the array stands for. *)

At(pos, len) == IF pos = AtLast THEN len ELSE pos
InUse(n)     == SubSeq(slots, 1, n)

Apply(s, access) ==
  CASE access.do = "push"   -> Append(s, access.inst)
    [] access.do = "set"    -> [s EXCEPT ![access.pos] = access.inst]
    [] access.do = "insert" -> InsertAt(s, At(access.pos, Len(s)), access.inst)

\* The first access may be half done: moved, and then stored but not counted.
Begun ==
  CASE work = <<>>     -> InUse(elements)
    [] step = "count"  -> InUse(elements + 1)
    [] step = "store" /\ work[1].do = "insert" ->
         [InUse(elements + 1) EXCEPT ![At(work[1].pos, elements)] = work[1].inst]
    [] OTHER -> Apply(InUse(elements), work[1])
\* An iteration has three accesses at most.
Ahead ==
  CASE Len(work) <= 1 -> Begun
    [] Len(work) = 2  -> Apply(Begun, work[2])
    [] OTHER          -> Apply(Apply(Begun, work[2]), work[3])
Whole == Ahead \o SubSeq(input, pushed + 1, Len(input))

\* The iteration counts as done when its accesses are listed.
Busy      == work # <<>>
PlainPass == CASE pass = "gen" -> "map"
               [] pass = "stack" /\ Busy -> "addr_addr"
               [] OTHER -> pass
PlainI    == CASE pass = "stack" /\ Busy -> 1
               [] pass \notin {"gen", "stack"} /\ Busy -> i + 1
               [] OTHER -> i

Plain == INSTANCE RegAlloc WITH
  Programs <- Inputs, prog <- Whole, pass <- PlainPass, i <- PlainI

\* The generator pushes what create_inst selects.
ASSUME InputsAssumption == Inputs \subseteq Seq(Plain!Selected)

-----------------------------------------------------------------------------
(* array_push and array_insert *)

NeedGrow == elements + 1 > Len(slots)

\* The cast cuts max * 1.5 to an int.
NextSize == (3 * Len(slots)) \div 2 + 1

Doing(accesses, s) == work # <<>> /\ pass # "undefined" /\ work[1].do \in accesses /\ step = s

\* realloc leaves the block where it is, or moves it and frees the old one.
Grow ==
  /\ Doing({"push", "insert"}, "grow")
  /\ IF NeedGrow
     THEN /\ slots' = slots \o [k \in 1..NextSize - Len(slots) |-> Garbage]
          /\ block' \in {block, block + 1}
     ELSE UNCHANGED <<slots, block>>
  /\ step' = IF work[1].do = "push" THEN "store" ELSE "move"
  /\ UNCHANGED <<input, pushed, elements, work, pass, i, offsetMap, nextOffset>>

\* The access is done, and perhaps the iteration with it.
Done ==
  /\ work' = Tail(work) /\ step' = "grow"
  /\ IF Len(work) > 1 \/ pass = "gen" THEN UNCHANGED <<pass, i>>
     ELSE IF pass = "stack" THEN pass' = "addr_addr" /\ i' = 1
     ELSE i' = i + 1 /\ UNCHANGED pass
  /\ UNCHANGED <<input, pushed, offsetMap, nextOffset>>

\* Outside of the block C says nothing.
OutOfBlock == pass' = "undefined" /\ UNCHANGED <<input, pushed, array, work, step, i, offsetMap, nextOffset>>

StorePushed ==
  /\ Doing({"push"}, "store")
  /\ IF elements < Len(slots)
     THEN /\ slots' = [slots EXCEPT ![elements + 1] = work[1].inst]
          /\ elements' = elements + 1
          /\ UNCHANGED block
          /\ Done
     ELSE OutOfBlock

Pos == At(work[1].pos, elements)

\* Mutant of Move: the last element is not among those moved.
MoveShort ==
  /\ Doing({"insert"}, "move")
  /\ slots' = [k \in DOMAIN slots |-> IF k \in Pos+1..elements THEN slots[k-1] ELSE slots[k]]
  /\ step' = "store"
  /\ UNCHANGED <<input, pushed, elements, block, work, pass, i, offsetMap, nextOffset>>

\* memmove of the elements from pos on.
Move ==
  /\ Doing({"insert"}, "move")
  /\ IF elements < Len(slots)
     THEN /\ slots' = [k \in DOMAIN slots |-> IF k \in Pos+1..elements+1 THEN slots[k-1] ELSE slots[k]]
          /\ step' = "store"
          /\ UNCHANGED <<input, pushed, elements, block, work, pass, i, offsetMap, nextOffset>>
     ELSE OutOfBlock

StoreInserted ==
  /\ Doing({"insert"}, "store")
  /\ slots' = [slots EXCEPT ![Pos] = work[1].inst]
  /\ step' = "count"
  /\ UNCHANGED <<input, pushed, elements, block, work, pass, i, offsetMap, nextOffset>>

Count ==
  /\ Doing({"insert"}, "count")
  /\ elements' = elements + 1
  /\ UNCHANGED <<slots, block>>
  /\ Done

StoreInPlace ==
  /\ Doing({"set"}, "grow")
  /\ IF work[1].block = block
     THEN /\ slots' = [slots EXCEPT ![work[1].pos] = work[1].inst]
          /\ UNCHANGED <<elements, block>>
          /\ Done
     ELSE OutOfBlock

-----------------------------------------------------------------------------
(* The generator and the passes *)

Idle(p) == work = <<>> /\ pass = p
Begin(accesses) == work' = accesses /\ UNCHANGED <<array, step, offsetMap, nextOffset>>

Generate ==
  /\ Idle("gen") /\ pushed < Len(input)
  /\ pushed' = pushed + 1
  /\ Begin(<<Push(input[pushed + 1])>>)
  /\ UNCHANGED <<input, pass, i>>

StartPass(from, to) ==
  /\ Idle(from)
  /\ pass' = to /\ i' = 1
  /\ UNCHANGED <<input, pushed, array, work, step, offsetMap, nextOffset>>

GenerateDone == pushed = Len(input) /\ StartPass("gen", "map")

MapInstruction ==
  /\ Idle("map") /\ i <= elements
  /\ Plain!Pseudos(slots[i]) \subseteq 0..MapSize-1
  /\ LET inst == slots[i]
         m == Plain!WithSlot(inst.src,
                Plain!WithSlot(inst.dst, [map |-> offsetMap, next |-> nextOffset]))
     IN /\ offsetMap' = m.map /\ nextOffset' = m.next
        /\ slots' = [slots EXCEPT ![i].dst = Plain!Placed(@, m.map),
                                  ![i].src = Plain!Placed(@, m.map)]
  /\ i' = i + 1
  /\ UNCHANGED <<input, pushed, elements, block, work, step, pass>>

MapOutOfBounds ==
  /\ Idle("map") /\ i <= elements
  /\ ~(Plain!Pseudos(slots[i]) \subseteq 0..MapSize-1)
  /\ OutOfBlock

Mapped ==
  /\ Idle("map") /\ i > elements
  /\ pass' = "stack"
  /\ UNCHANGED <<input, pushed, array, work, step, i, offsetMap, nextOffset>>

NoFrame == Plain!AllocAmount = 0 /\ StartPass("stack", "addr_addr")

\* The second position is that of the last element once the first is in.
MakeFrame ==
  /\ Idle("stack") /\ Plain!AllocAmount # 0
  /\ Begin(<<Insert(Unary("ALLOCATE_STACK", StackOp(Plain!AllocAmount)), 1),
             Insert(NoOps("DEALLOCATE_STACK"), AtLast)>>)
  /\ UNCHANGED <<input, pushed, pass, i>>

Inserts(new) == [k \in 1..Len(new)-1 |-> Insert(new[k + 1], i + k)]

\* Mutant of Rewrite: the instruction is overwritten after the insertions.
RewriteLast(new) == Inserts(new) \o <<Set(new[1], i, block)>>

\* The instruction is overwritten while the pointer to it is good.
Rewrite(new) == <<Set(new[1], i, block)>> \o Inserts(new)

FixInstruction(name, Fix(_)) ==
  /\ Idle(name) /\ i <= elements
  /\ IF Len(Fix(slots[i])) = 1
     THEN i' = i + 1 /\ Begin(<<>>)
     ELSE UNCHANGED i /\ Begin(Rewrite(Fix(slots[i])))
  /\ UNCHANGED <<input, pushed, pass>>

Fix ==
  \/ FixInstruction("addr_addr", Plain!fix_invalid_addr_addr)
  \/ FixInstruction("imul", Plain!fix_invalid_imuls)
  \/ FixInstruction("idiv", Plain!fix_invalid_idivs)
  \/ FixInstruction("shift", Plain!fix_invalid_shifts)
  \/ FixInstruction("cmp", Plain!fix_invalid_cmps)

\* Mutant of PassDone: the last pass is followed by the first.
PassDoneOver ==
  \E p \in DOMAIN Plain!NextPass :
    /\ i > elements
    /\ StartPass(p, IF p = "cmp" THEN "addr_addr" ELSE Plain!NextPass[p])

PassDone == \E p \in DOMAIN Plain!NextPass : i > elements /\ StartPass(p, Plain!NextPass[p])

Next ==
  \/ Generate \/ GenerateDone \/ MapInstruction \/ MapOutOfBounds \/ Mapped
  \/ NoFrame \/ MakeFrame \/ Fix \/ PassDone
  \/ Grow \/ StorePushed \/ Move \/ StoreInserted \/ Count \/ StoreInPlace

Spec     == Init /\ [][Next]_vars
\* The back end runs to its end on one thread.
FairSpec == Spec /\ WF_vars(Next)

-----------------------------------------------------------------------------
(* Properties *)

\* What is in use has been written, and is inside of the block.
TypeOK ==
  /\ elements \in 0..Len(slots)
  /\ \A k \in 1..elements : slots[k].mnemonic \in Mnemonics
  /\ block \in Nat /\ pushed \in 0..Len(input)
  /\ step \in {"grow", "move", "store", "count"}
  /\ i \in 1..elements+1
  /\ pass \in Plain!Passes \cup {"gen"}

\* The passes do to the array what RegAlloc does to a sequence, wherever realloc
\* puts the block: no store goes through a pointer from before a growth, none
\* goes outside of the block, and the loops see each insertion once.
ImplementsRegAlloc == Plain!Spec

\* The passes end although they insert into the array they walk and grow it.
Terminates == <>(work = <<>> /\ pass \in {"done", "undefined"})
=============================================================================
