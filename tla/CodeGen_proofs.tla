-------------------------- MODULE CodeGen_proofs ---------------------------
(***************************************************************************)
(* Theorems about instruction selection and register allocation, for every *)
(* program, every size of a word and every length of the offset map.       *)
(***************************************************************************)
EXTENDS CodeGen, FiniteSetTheorems, SequenceTheorems, WellFoundedInduction, TLAPS

-----------------------------------------------------------------------------
(* Sequences that are concatenated, spliced and inserted into *)

\* A sequence behind another one.
LEMMA Concatenation ==
  ASSUME NEW S, NEW s \in Seq(S), NEW t \in Seq(S)
  PROVE  s \o t \in Seq(S) /\ Len(s \o t) = Len(s) + Len(t)
OBVIOUS

\* A sequence in the place of one element.
LEMMA Splice ==
  ASSUME NEW S, NEW s \in Seq(S), NEW n \in 1..Len(s), NEW t \in Seq(S), Len(t) >= 1
  PROVE  LET r == SubSeq(s, 1, n - 1) \o t \o SubSeq(s, n + 1, Len(s))
         IN r \in Seq(S) /\ Len(r) >= Len(s)
<1> DEFINE a == SubSeq(s, 1, n - 1)
           b == SubSeq(s, n + 1, Len(s))
<1>1. a \in Seq(S) /\ Len(a) = n - 1
  OBVIOUS
<1>2. b \in Seq(S) /\ Len(b) = Len(s) - n
  OBVIOUS
<1> HIDE DEF a, b
<1>3. a \o t \in Seq(S) /\ Len(a \o t) = n - 1 + Len(t)
  BY <1>1, Concatenation
<1>4. (a \o t) \o b \in Seq(S) /\ Len((a \o t) \o b) = Len(a \o t) + Len(b)
  BY <1>2, <1>3, Concatenation
<1>5. Len((a \o t) \o b) >= Len(s)
  BY <1>2, <1>3, <1>4
<1> QED
  BY <1>4, <1>5 DEF a, b

\* One element more.
LEMMA InsertType ==
  ASSUME NEW S, NEW s \in Seq(S), NEW n \in 1..Len(s)+1, NEW e \in S
  PROVE  InsertAt(s, n, e) \in Seq(S) /\ Len(InsertAt(s, n, e)) = Len(s) + 1
<1> DEFINE a == SubSeq(s, 1, n - 1)
           b == SubSeq(s, n, Len(s))
<1>1. a \in Seq(S) /\ Len(a) = n - 1
  OBVIOUS
<1>2. b \in Seq(S) /\ Len(b) = Len(s) - n + 1
  OBVIOUS
<1> HIDE DEF a, b
<1>3. a \o <<e>> \in Seq(S) /\ Len(a \o <<e>>) = n
  BY <1>1, Concatenation
<1>4. (a \o <<e>>) \o b \in Seq(S) /\ Len((a \o <<e>>) \o b) = Len(s) + 1
  BY <1>2, <1>3, Concatenation
<1> QED
  BY <1>4 DEF a, b, InsertAt

\* What each place of it holds.
LEMMA ConcatenationElements ==
  ASSUME NEW S, NEW s \in Seq(S), NEW t \in Seq(S)
  PROVE  \A k \in 1..Len(s)+Len(t) :
           (s \o t)[k] = IF k <= Len(s) THEN s[k] ELSE t[k - Len(s)]
OBVIOUS

\* What each place holds then.
LEMMA SpliceElements ==
  ASSUME NEW S, NEW s \in Seq(S), NEW n \in 1..Len(s), NEW t \in Seq(S), Len(t) >= 1
  PROVE  LET r == SubSeq(s, 1, n - 1) \o t \o SubSeq(s, n + 1, Len(s))
         IN /\ Len(r) = Len(s) + Len(t) - 1
            /\ \A k \in 1..Len(r) :
                 r[k] = IF k < n THEN s[k]
                        ELSE IF k < n + Len(t) THEN t[k - n + 1]
                        ELSE s[k - Len(t) + 1]
<1> DEFINE a == SubSeq(s, 1, n - 1)
           b == SubSeq(s, n + 1, Len(s))
           l == Len(t)
<1>1. a \in Seq(S) /\ Len(a) = n - 1 /\ \A k \in 1..n-1 : a[k] = s[k]
  OBVIOUS
<1>2. b \in Seq(S) /\ Len(b) = Len(s) - n /\ \A k \in 1..Len(s)-n : b[k] = s[n + k]
  OBVIOUS
<1>3. l \in Nat /\ Len(s) \in Nat
  OBVIOUS
<1> HIDE DEF a, b
<1>4. a \o t \in Seq(S) /\ Len(a \o t) = n - 1 + l
  BY <1>1, Concatenation
<1>5. \A k \in 1..n-1+l : (a \o t)[k] = IF k <= n - 1 THEN a[k] ELSE t[k - (n - 1)]
  BY <1>1, ConcatenationElements
<1> DEFINE c == a \o t
           r == c \o b
<1> HIDE DEF c
<1>6. c \in Seq(S) /\ Len(c) = n - 1 + l
  BY <1>4 DEF c
<1>10. \A k \in 1..n-1+l : c[k] = IF k <= n - 1 THEN a[k] ELSE t[k - (n - 1)]
  BY <1>5 DEF c
<1>7. Len(r) = Len(s) + l - 1
  <2>1. Len(c \o b) = Len(c) + Len(b)
    BY <1>2, <1>6, Concatenation
  <2> HIDE DEF l
  <2> QED
    BY <2>1, <1>2, <1>3, <1>6
<1>8. \A k \in 1..Len(s)+l-1 : r[k] = IF k <= n - 1 + l THEN c[k] ELSE b[k - (n - 1 + l)]
  BY <1>2, <1>3, <1>6, ConcatenationElements
<1> HIDE DEF r, l
<1>9. ASSUME NEW k \in 1..Len(s)+l-1
      PROVE  r[k] = IF k < n THEN s[k] ELSE IF k < n + l THEN t[k - n + 1] ELSE s[k - l + 1]
  <2>1. CASE k < n
    <3>1. r[k] = c[k] /\ c[k] = a[k] /\ a[k] = s[k]
      BY <2>1, <1>1, <1>3, <1>8, <1>10
    <3> QED
      BY <3>1, <2>1
  <2>2. CASE k >= n /\ k < n + l
    <3>0. k \in 1..n-1+l /\ k <= n - 1 + l /\ ~(k <= n - 1)
      BY <2>2, <1>3
    <3>3. r[k] = c[k]
      BY <3>0, <1>8
    <3>4. c[k] = t[k - (n - 1)]
      BY <3>0, <1>10
    <3>1. r[k] = c[k] /\ c[k] = t[k - (n - 1)]
      BY <3>3, <3>4
    <3>2. k - (n - 1) = k - n + 1
      BY <1>3
    <3> QED
      BY <3>1, <3>2, <2>2
  <2>3. CASE k >= n + l
    <3>1. r[k] = b[k - (n - 1 + l)]
      BY <2>3, <1>3, <1>8
    <3>2. /\ k - (n - 1 + l) \in 1..Len(s)-n
          /\ n + (k - (n - 1 + l)) = k - l + 1
      BY <2>3, <1>3
    <3>3. b[k - (n - 1 + l)] = s[n + (k - (n - 1 + l))]
      BY <3>2, <1>2
    <3> QED
      BY <3>1, <3>2, <3>3, <2>3, <1>3
  <2> QED
    BY <2>1, <2>2, <2>3, <1>3
<1> QED
  BY <1>7, <1>9 DEF r, c, a, b, l

\* What each place holds then.
LEMMA InsertElements ==
  ASSUME NEW S, NEW s \in Seq(S), NEW n \in 1..Len(s)+1, NEW e \in S
  PROVE  \A k \in 1..Len(s)+1 :
           InsertAt(s, n, e)[k] = IF k < n THEN s[k] ELSE IF k = n THEN e ELSE s[k - 1]
<1> DEFINE a == SubSeq(s, 1, n - 1)
           b == SubSeq(s, n, Len(s))
           c == a \o <<e>>
<1>1. a \in Seq(S) /\ Len(a) = n - 1 /\ \A k \in 1..n-1 : a[k] = s[k]
  OBVIOUS
<1>2. b \in Seq(S) /\ Len(b) = Len(s) - n + 1 /\ \A k \in 1..Len(s)-n+1 : b[k] = s[n + k - 1]
  OBVIOUS
<1>3. Len(s) \in Nat /\ <<e>> \in Seq(S) /\ Len(<<e>>) = 1
  OBVIOUS
<1> HIDE DEF a, b
<1>4. c \in Seq(S) /\ Len(c) = n
  BY <1>1, <1>3, Concatenation
<1>5. \A k \in 1..n : c[k] = IF k <= n - 1 THEN a[k] ELSE <<e>>[k - (n - 1)]
  BY <1>1, <1>3, ConcatenationElements
<1>6. c[n] = e /\ \A k \in 1..n-1 : c[k] = s[k]
  BY <1>1, <1>3, <1>5
<1> HIDE DEF c
<1> DEFINE r == c \o b
<1>7. \A k \in 1..Len(s)+1 : r[k] = IF k <= n THEN c[k] ELSE b[k - n]
  BY <1>2, <1>3, <1>4, ConcatenationElements
<1> HIDE DEF r
<1>8. \A k \in 1..Len(s)+1 :
        r[k] = IF k < n THEN s[k] ELSE IF k = n THEN e ELSE s[k - 1]
  <2> SUFFICES ASSUME NEW k \in 1..Len(s)+1
               PROVE  r[k] = IF k < n THEN s[k] ELSE IF k = n THEN e ELSE s[k - 1]
    OBVIOUS
  <2>1. CASE k <= n
    BY <2>1, <1>3, <1>6, <1>7
  <2>2. CASE k > n
    <3>1. r[k] = b[k - n] /\ k - n \in 1..Len(s)-n+1
      BY <2>2, <1>3, <1>7
    <3>2. b[k - n] = s[n + (k - n) - 1] /\ n + (k - n) - 1 = k - 1
      BY <3>1, <1>2, <1>3
    <3> QED
      BY <3>1, <3>2, <2>2
  <2> QED
    BY <2>1, <2>2, <1>3
<1>9. InsertAt(s, n, e) = r
  BY DEF InsertAt, a, b, c, r
<1> QED
  BY <1>8, <1>9

USE DEF NoLabel

-----------------------------------------------------------------------------
(* The instructions a pass builds are instructions. *)

LEMMA OperandTypes ==
  ASSUME NEW v \in Int
  PROVE  ImmOp(v) \in Operands /\ RegOp(v) \in Operands /\ StackOp(v) \in Operands
BY DEF ImmOp, RegOp, StackOp, Operand, Operands

LEMMA InstructionTypes ==
  ASSUME NEW mnem \in Mnemonics, NEW dst \in Operands, NEW src \in Operands
  PROVE  /\ Binary(mnem, dst, src) \in Instructions
         /\ Unary(mnem, dst) \in Instructions
         /\ NoOps(mnem) \in Instructions
<1>1. ZeroOp \in Operands
  BY DEF ZeroOp, Operand, Operands
<1> QED
  BY <1>1 DEF Binary, Unary, NoOps, Instructions

LEMMA Registers == R10 \in Int /\ R11 \in Int /\ CX \in Int
BY DEF R10, R11, CX

\* A fix yields one instruction or more.
Fixed == {s \in Seq(Instructions) : Len(s) >= 1}

LEMMA FixTypes ==
  ASSUME NEW inst \in Instructions
  PROVE  /\ fix_invalid_addr_addr(inst) \in Fixed
         /\ fix_invalid_imuls(inst) \in Fixed
         /\ fix_invalid_idivs(inst) \in Fixed
         /\ fix_invalid_shifts(inst) \in Fixed
         /\ fix_invalid_cmps(inst) \in Fixed
<1> DEFINE d == inst.dst
           s == inst.src
           m == inst.mnemonic
<1>1. /\ m \in Mnemonics /\ d \in Operands /\ s \in Operands
      /\ d.value \in Int /\ s.value \in Int
  BY DEF Instructions, Operands
<1>2. /\ RegOp(R10) \in Operands /\ RegOp(R11) \in Operands /\ RegOp(CX) \in Operands
      /\ StackOp(d.value) \in Operands /\ StackOp(s.value) \in Operands
      /\ ImmOp(d.value) \in Operands
  BY <1>1, OperandTypes, Registers
<1>3. \A mm \in Mnemonics, dd \in Operands, ss \in Operands :
        Binary(mm, dd, ss) \in Instructions /\ Unary(mm, dd) \in Instructions
  BY InstructionTypes
<1>0. "MOV" \in Mnemonics /\ "IMUL" \in Mnemonics /\ "IDIV" \in Mnemonics /\ "CMP" \in Mnemonics
  BY DEF Mnemonics, BinaryMnemonics, UnaryMnemonics
<1>4. <<inst>> \in Fixed
  BY DEF Fixed
<1>5. fix_invalid_addr_addr(inst) \in Fixed
  <2> DEFINE a == Binary("MOV", RegOp(R10), StackOp(s.value))
             b == Binary(m, StackOp(d.value), RegOp(R10))
  <2>1. a \in Instructions /\ b \in Instructions
    BY <1>0, <1>1, <1>2, <1>3
  <2> HIDE DEF a, b
  <2>2. <<a, b>> \in Fixed
    BY <2>1 DEF Fixed
  <2> QED
    BY <2>2, <1>4 DEF fix_invalid_addr_addr, a, b
<1>6. fix_invalid_imuls(inst) \in Fixed
  <2> DEFINE a == Binary("MOV", RegOp(R11), StackOp(d.value))
             b == Binary("IMUL", RegOp(R11), s)
             c == Binary("MOV", StackOp(d.value), RegOp(R11))
  <2>1. a \in Instructions /\ b \in Instructions /\ c \in Instructions
    BY <1>0, <1>1, <1>2, <1>3
  <2> HIDE DEF a, b, c
  <2>2. <<a, b, c>> \in Fixed
    BY <2>1 DEF Fixed
  <2> QED
    BY <2>2, <1>4 DEF fix_invalid_imuls, a, b, c
<1>7. fix_invalid_idivs(inst) \in Fixed
  <2> DEFINE a == Binary("MOV", RegOp(R10), ImmOp(d.value))
             b == Unary("IDIV", RegOp(R10))
  <2>1. a \in Instructions /\ b \in Instructions
    BY <1>0, <1>1, <1>2, <1>3
  <2> HIDE DEF a, b
  <2>2. <<a, b>> \in Fixed
    BY <2>1 DEF Fixed
  <2> QED
    BY <2>2, <1>4 DEF fix_invalid_idivs, a, b
<1>8. fix_invalid_shifts(inst) \in Fixed
  <2> DEFINE a == Binary("MOV", RegOp(CX), StackOp(s.value))
             b == Binary(m, StackOp(d.value), RegOp(CX))
  <2>1. a \in Instructions /\ b \in Instructions
    BY <1>0, <1>1, <1>2, <1>3
  <2> HIDE DEF a, b
  <2>2. <<a, b>> \in Fixed
    BY <2>1 DEF Fixed
  <2> QED
    BY <2>2, <1>4 DEF fix_invalid_shifts, a, b
<1>9. fix_invalid_cmps(inst) \in Fixed
  <2> DEFINE a == Binary("MOV", RegOp(R11), ImmOp(d.value))
             b == Binary("CMP", RegOp(R11), s)
  <2>1. a \in Instructions /\ b \in Instructions
    BY <1>0, <1>1, <1>2, <1>3
  <2> HIDE DEF a, b
  <2>2. <<a, b>> \in Fixed
    BY <2>1 DEF Fixed
  <2> QED
    BY <2>2, <1>4 DEF fix_invalid_cmps, a, b
<1> QED
  BY <1>5, <1>6, <1>7, <1>8, <1>9

-----------------------------------------------------------------------------
(* The slots. *)

\* What WithSlot keeps of the map and of the next offset.
Slots(map, next) ==
  /\ map \in [0..MapSize-1 -> Int] /\ next \in Int
  /\ next <= -4 /\ next % 4 = 0
  /\ \A t \in 0..MapSize-1 :
       map[t] # 0 => map[t] \in next+4 .. -4 /\ map[t] % 4 = 0
  /\ \A t, u \in 0..MapSize-1 : (map[t] = map[u] /\ map[t] # 0) => t = u

\* The two operands of an instruction, in the code's order, each get a slot
\* nothing else has.
LEMMA WithSlotKeeps ==
  ASSUME NEW op \in Operands, op.type = "PSEUDO" => op.value \in 0..MapSize-1,
         NEW m, m = [map |-> m.map, next |-> m.next], Slots(m.map, m.next)
  PROVE  LET w == WithSlot(op, m)
         IN w = [map |-> w.map, next |-> w.next] /\ Slots(w.map, w.next)
<1>1. CASE ~(op.type = "PSEUDO" /\ m.map[op.value] = 0)
  BY <1>1 DEF WithSlot
<1>2. CASE op.type = "PSEUDO" /\ m.map[op.value] = 0
  <2> DEFINE v    == op.value
             map  == m.map
             next == m.next
             new  == [map EXCEPT ![v] = next]
  <2>1. WithSlot(op, m) = [map |-> new, next |-> next - 4]
    BY <1>2 DEF WithSlot
  <2>2. v \in 0..MapSize-1 /\ map[v] = 0
    BY <1>2
  <2> HIDE DEF v, map, next
  <2>3. Slots(map, next)
    BY DEF map, next
  <2>4. /\ new \in [0..MapSize-1 -> Int]
        /\ new[v] = next
        /\ \A t \in 0..MapSize-1 : t # v => new[t] = map[t]
    BY <2>2, <2>3 DEF Slots
  <2>5. next - 4 \in Int /\ next - 4 <= -4 /\ (next - 4) % 4 = 0
    BY <2>3 DEF Slots
  <2> HIDE DEF new
  <2>6. \A t \in 0..MapSize-1 :
          new[t] # 0 => new[t] \in (next-4)+4 .. -4 /\ new[t] % 4 = 0
    <3>1. next \in Int /\ next <= -4 /\ next % 4 = 0
      BY <2>3 DEF Slots
    <3>2. \A n \in Int : n \in next+4 .. -4 => n \in (next-4)+4 .. -4
      BY <3>1
    <3>3. next \in (next-4)+4 .. -4
      BY <3>1
    <3>4. ASSUME NEW t \in 0..MapSize-1, map[t] # 0
          PROVE  map[t] \in (next-4)+4 .. -4 /\ map[t] % 4 = 0
      BY <2>3, <3>2, <3>4 DEF Slots
    <3> QED
      BY <2>4, <3>1, <3>3, <3>4
  <2>7. \A t, u \in 0..MapSize-1 : (new[t] = new[u] /\ new[t] # 0) => t = u
    <3>1. next \in Int /\ \A t \in 0..MapSize-1 : map[t] # 0 => map[t] >= next + 4
      BY <2>3 DEF Slots
    <3>2. \A t \in 0..MapSize-1 : t # v => new[t] # next \/ new[t] = 0
      BY <2>3, <2>4, <3>1 DEF Slots
    <3>3. \A t, u \in 0..MapSize-1 : (map[t] = map[u] /\ map[t] # 0) => t = u
      BY <2>3 DEF Slots
    <3> QED
      BY <2>2, <2>4, <3>2, <3>3
  <2>8. Slots(new, next - 4)
    BY <2>4, <2>5, <2>6, <2>7 DEF Slots
  <2> QED
    BY <2>1, <2>8
<1> QED
  BY <1>1, <1>2

-----------------------------------------------------------------------------
(* The invariant: the types and the slots. *)

Typed == /\ pass \in Passes
         /\ i \in 1..Len(prog)+1
         /\ prog \in Seq(Instructions)
IInv  == Typed /\ Slots(offsetMap, nextOffset)

LEMMA InvariantHoldsInitially == Init => IInv
<1> SUFFICES ASSUME Init PROVE IInv
  OBVIOUS
<1>0. prog \in Seq(Instructions)
  <2>1. Selected \subseteq Instructions
    BY DEF Selected
  <2>2. prog \in Seq(Selected)
    BY RegAllocAssumption DEF Init
  <2> HIDE DEF Selected
  <2> QED
    BY <2>1, <2>2
<1>1. Typed
  BY <1>0 DEF Init, Fresh, Typed, Passes
<1>2. /\ offsetMap \in [0..MapSize-1 -> Int] /\ nextOffset = -4
      /\ \A t \in 0..MapSize-1 : offsetMap[t] = 0
  BY DEF Init, Fresh
<1>3. Slots(offsetMap, nextOffset)
  BY <1>2 DEF Slots
<1> QED
  BY <1>1, <1>3 DEF IInv

LEMMA PlacedType ==
  ASSUME NEW op \in Operands, NEW map \in [0..MapSize-1 -> Int],
         op.type = "PSEUDO" => op.value \in 0..MapSize-1
  PROVE  Placed(op, map) \in Operands
<1>1. CASE op.type = "PSEUDO"
  BY <1>1, map[op.value] \in Int, OperandTypes DEF Placed
<1>2. CASE op.type # "PSEUDO"
  BY <1>2 DEF Placed
<1> QED
  BY <1>1, <1>2

LEMMA MapInstructionKeeps == IInv /\ MapInstruction => IInv'
<1> SUFFICES ASSUME IInv, MapInstruction PROVE IInv'
  OBVIOUS
<1> DEFINE inst == prog[i]
           m0   == [map |-> offsetMap, next |-> nextOffset]
           m1   == WithSlot(inst.dst, m0)
           m2   == WithSlot(inst.src, m1)
           new  == [inst EXCEPT !.dst = Placed(@, m2.map), !.src = Placed(@, m2.map)]
<1>1. /\ pass = "map" /\ i \in 1..Len(prog) /\ i' = i + 1 /\ pass' = pass
      /\ Pseudos(inst) \subseteq 0..MapSize-1
      /\ offsetMap' = m2.map /\ nextOffset' = m2.next
      /\ prog' = [prog EXCEPT ![i] = new]
  BY DEF MapInstruction, IInv, Typed
<1>2. prog \in Seq(Instructions) /\ inst \in Instructions
  BY <1>1 DEF IInv, Typed
<1>3. inst.dst \in Operands /\ inst.src \in Operands
  BY <1>2 DEF Instructions
<1>4. /\ inst.dst.type = "PSEUDO" => inst.dst.value \in 0..MapSize-1
      /\ inst.src.type = "PSEUDO" => inst.src.value \in 0..MapSize-1
  BY <1>1 DEF Pseudos
<1>5. m0 = [map |-> m0.map, next |-> m0.next] /\ Slots(m0.map, m0.next)
  BY DEF IInv
<1> HIDE DEF m0
<1>6. m1 = [map |-> m1.map, next |-> m1.next] /\ Slots(m1.map, m1.next)
  BY <1>3, <1>4, <1>5, WithSlotKeeps
<1> HIDE DEF m1
<1>7. Slots(m2.map, m2.next)
  BY <1>3, <1>4, <1>6, WithSlotKeeps
<1> HIDE DEF m2
<1>8. m2.map \in [0..MapSize-1 -> Int]
  BY <1>7 DEF Slots
<1>9. Placed(inst.dst, m2.map) \in Operands /\ Placed(inst.src, m2.map) \in Operands
  BY <1>3, <1>4, <1>8, PlacedType
<1>10. new \in Instructions
  BY <1>2, <1>9 DEF Instructions
<1> HIDE DEF new
<1>11. prog' \in Seq(Instructions) /\ Len(prog') = Len(prog)
  BY <1>1, <1>2, <1>10
<1>12. Typed'
  BY <1>1, <1>11 DEF Typed, Passes
<1> QED
  BY <1>1, <1>7, <1>12 DEF IInv

LEMMA StackAllocKeeps == IInv /\ StackAlloc => IInv'
<1> SUFFICES ASSUME IInv, StackAlloc PROVE IInv'
  OBVIOUS
<1> DEFINE amount == AllocAmount
           sa == Unary("ALLOCATE_STACK", StackOp(amount))
           sd == NoOps("DEALLOCATE_STACK")
<1>1. prog \in Seq(Instructions) /\ nextOffset \in Int
  BY DEF IInv, Typed, Slots
<1>2. amount \in Int
  BY <1>1 DEF AllocAmount
<1>3. "ALLOCATE_STACK" \in Mnemonics /\ "DEALLOCATE_STACK" \in Mnemonics
  BY DEF Mnemonics
<1>4. StackOp(amount) \in Operands
  BY <1>2, OperandTypes
<1>5. sa \in Instructions /\ sd \in Instructions
  BY <1>3, <1>4, InstructionTypes
<1>6. prog' = IF amount = 0 THEN prog ELSE InsertAt(InsertAt(prog, 1, sa), Len(prog) + 1, sd)
  BY DEF StackAlloc
<1> HIDE DEF amount, sa, sd
<1>7. InsertAt(prog, 1, sa) \in Seq(Instructions) /\ Len(InsertAt(prog, 1, sa)) = Len(prog) + 1
  BY <1>1, <1>5, InsertType
<1>8. InsertAt(InsertAt(prog, 1, sa), Len(prog) + 1, sd) \in Seq(Instructions)
  <2> DEFINE p == InsertAt(prog, 1, sa)
  <2>1. p \in Seq(Instructions) /\ Len(prog) + 1 \in 1..Len(p)+1
    BY <1>1, <1>7
  <2> HIDE DEF p
  <2>2. InsertAt(p, Len(prog) + 1, sd) \in Seq(Instructions)
    BY <1>5, <2>1, InsertType
  <2> QED
    BY <2>2 DEF p
<1>9. prog' \in Seq(Instructions)
  BY <1>1, <1>6, <1>8
<1>10. pass' = "addr_addr" /\ i' = 1 /\ UNCHANGED <<offsetMap, nextOffset>>
  BY DEF StackAlloc
<1>11. Typed'
  BY <1>9, <1>10 DEF Typed, Passes, NextPass
<1> QED
  BY <1>10, <1>11 DEF IInv, Slots

\* The loops walk an array that only grows.
LEMMA GrowthKeeps ==
  ASSUME IInv, i <= Len(prog),
         prog' \in Seq(Instructions), Len(prog') >= Len(prog),
         i' = i + 1, UNCHANGED <<pass, offsetMap, nextOffset>>
  PROVE  IInv'
<1>1. Typed'
  BY DEF IInv, Typed, Passes
<1> QED
  BY <1>1 DEF IInv, Slots

\* One iteration of any of the five loops.
LEMMA FixKeeps ==
  ASSUME IInv, NEW fixed \in Fixed,
         i <= Len(prog),
         prog' = SubSeq(prog, 1, i - 1) \o fixed \o SubSeq(prog, i + 1, Len(prog)),
         i' = i + 1, UNCHANGED <<pass, offsetMap, nextOffset>>
  PROVE  IInv'
<1>1. prog \in Seq(Instructions) /\ i \in 1..Len(prog)
  BY DEF IInv, Typed
<1>2. fixed \in Seq(Instructions) /\ Len(fixed) >= 1
  BY DEF Fixed
<1>3. prog' \in Seq(Instructions) /\ Len(prog') >= Len(prog)
  BY <1>1, <1>2, Splice
<1> QED
  BY <1>3, GrowthKeeps

LEMMA PassesKeep ==
  ASSUME IInv, FixAddrAddr \/ FixImul \/ FixIdiv \/ FixShift \/ FixCmp
  PROVE  IInv'
<1>1. i <= Len(prog) => prog[i] \in Instructions
  BY DEF IInv, Typed
<1>2. CASE FixAddrAddr
  BY <1>1, <1>2, FixTypes, FixKeeps DEF FixAddrAddr, FixInstruction
<1>3. CASE FixImul
  BY <1>1, <1>3, FixTypes, FixKeeps DEF FixImul, FixInstruction
<1>4. CASE FixIdiv
  BY <1>1, <1>4, FixTypes, FixKeeps DEF FixIdiv, FixInstruction
<1>5. CASE FixShift
  BY <1>1, <1>5, FixTypes, FixKeeps DEF FixShift, FixInstruction
<1>6. CASE FixCmp
  BY <1>1, <1>6, FixTypes, FixKeeps DEF FixCmp, FixInstruction
<1> QED
  BY <1>2, <1>3, <1>4, <1>5, <1>6

LEMMA StepKeepsInvariant == IInv /\ [Next]_vars => IInv'
<1> SUFFICES ASSUME IInv, [Next]_vars PROVE IInv'
  OBVIOUS
<1>1. CASE MapInstruction
  BY <1>1, MapInstructionKeeps
<1>2. CASE MapOutOfBounds
  BY <1>2 DEF MapOutOfBounds, IInv, Typed, Passes, Slots
<1>3. CASE MapDone
  BY <1>3 DEF MapDone, IInv, Typed, Passes, Slots
<1>4. CASE StackAlloc
  BY <1>4, StackAllocKeeps
<1>5. CASE FixAddrAddr \/ FixImul \/ FixIdiv \/ FixShift \/ FixCmp
  BY <1>5, PassesKeep
<1>6. CASE PassDone
  <2>1. pass' \in Passes
    BY <1>6 DEF PassDone, Passes, NextPass
  <2>2. Typed'
    BY <1>6, <2>1 DEF PassDone, IInv, Typed
  <2> QED
    BY <1>6, <2>2 DEF PassDone, IInv, Slots
<1>7. CASE UNCHANGED vars
  BY <1>7 DEF vars, IInv, Typed, Slots
<1> QED
  BY <1>1, <1>2, <1>3, <1>4, <1>5, <1>6, <1>7 DEF Next

LEMMA Invariant == Spec => []IInv
BY InvariantHoldsInitially, StepKeepsInvariant, PTL DEF Spec

\* Whatever the program and however long the map, the passes work on
\* well-formed instructions and their indices stay in the growing array.
THEOREM TypeCorrect == Spec => []TypeOK
<1>1. IInv => TypeOK
  BY DEF IInv, Typed, Slots, TypeOK
<1> QED
  BY <1>1, Invariant, PTL

\* No two pseudo registers ever share a stack slot, no slots overlap, and none
\* is given the offset that means "not mapped": regalloc's map and its running
\* offset agree for any number of pseudo registers.
THEOREM SlotsNeverShared == Spec => []SlotsDistinct
<1>1. IInv => SlotsDistinct
  BY DEF IInv, Slots, SlotsDistinct
<1> QED
  BY <1>1, Invariant, PTL

-----------------------------------------------------------------------------
(* What becomes of one instruction.                                        *)
(*                                                                         *)
(* An instruction whose pseudo registers have been replaced is Resolved:   *)
(* it has a form some pass handles or the assembler takes, and its stack   *)
(* operands are slots of the map.  The passes then remove one illegal form *)
(* after another: Clean(n, inst) says that inst has none of the forms that *)
(* the passes before the nth remove.                                       *)

Prologue == Unary("ALLOCATE_STACK", StackOp(AllocAmount))
Epilogue == NoOps("DEALLOCATE_STACK")
Framing  == {"ALLOCATE_STACK", "DEALLOCATE_STACK"}
Shifts   == {"SHL", "SAR"}

\* A stack operand is the slot of a pseudo register that has one.
HasSlot(op, map) ==
  op.type = "STACK" => op.value # 0 /\ \E t \in 0..MapSize-1 : map[t] = op.value

Shaped == {inst \in Instructions :
  LET op == inst.mnemonic
      d  == inst.dst.type
      s  == inst.src.type
  IN /\ d # "PSEUDO" /\ s # "PSEUDO"
     /\ op \in BinaryMnemonics =>
          /\ d \in {"REGISTER", "STACK"} \/ (op = "CMP" /\ d = "IMMEDIATE")
          /\ s \in {"REGISTER", "STACK", "IMMEDIATE"}
     /\ op \notin BinaryMnemonics => s = "LABEL"
     /\ op \in Shifts => s = "IMMEDIATE" \/ inst.src = RegOp(CX) \/ BothStack(inst)
     /\ op \in UnaryMnemonics => d \in {"REGISTER", "STACK"} \/ (op = "IDIV" /\ d = "IMMEDIATE")
     /\ op \in JumpMnemonics \cup {"DEFINE_LABEL"} => d = "LABEL" /\ inst.dst.label # NoLabel}

\* The prologue's operand is the size of the frame and not a slot.
Resolved(inst, map, frame) ==
  /\ inst \in Shaped
  /\ inst.mnemonic = "ALLOCATE_STACK" => inst = frame
  /\ inst.mnemonic # "ALLOCATE_STACK" => HasSlot(inst.dst, map) /\ HasSlot(inst.src, map)

Rank == [addr_addr |-> 1, imul |-> 2, idiv |-> 3, shift |-> 4, cmp |-> 5, done |-> 6]

Clean(n, inst) ==
  /\ n > 1 => (inst.mnemonic \in Shifts \/ ~BothStack(inst))
  /\ n > 2 => ~(inst.mnemonic = "IMUL" /\ inst.dst.type = "STACK")
  /\ n > 3 => ~(inst.mnemonic = "IDIV" /\ inst.dst.type = "IMMEDIATE")
  /\ n > 4 => ~(inst.mnemonic \in Shifts /\ BothStack(inst))
  /\ n > 5 => ~(inst.mnemonic = "CMP" /\ inst.dst.type = "IMMEDIATE")

\* After the last pass no form is left that the assembler refuses.
LEMMA CleanIsLegal ==
  ASSUME NEW inst \in Shaped, Clean(6, inst)
  PROVE  Legal(inst)
<1>1. inst.mnemonic \in Mnemonics
  BY DEF Shaped, Instructions
<1>2. inst.mnemonic \in BinaryMnemonics =>
        /\ inst.dst.type \in {"REGISTER", "STACK"}
        /\ inst.src.type \in {"REGISTER", "STACK", "IMMEDIATE"}
        /\ ~BothStack(inst)
  BY DEF Shaped, Clean
<1>3. inst.mnemonic = "IMUL" => inst.dst.type = "REGISTER"
  BY <1>2 DEF Clean, BinaryMnemonics
<1>4. inst.mnemonic \in Shifts => inst.src.type = "IMMEDIATE" \/ inst.src = RegOp(CX)
  BY DEF Shaped, Clean
<1>5. inst.mnemonic \in UnaryMnemonics => inst.dst.type \in {"REGISTER", "STACK"}
  BY DEF Shaped, Clean
<1>6. inst.mnemonic \in JumpMnemonics \cup {"DEFINE_LABEL"} =>
        inst.dst.type = "LABEL" /\ inst.dst.label # NoLabel
  BY DEF Shaped
<1> QED
  BY <1>1, <1>2, <1>3, <1>4, <1>5, <1>6 DEF Legal, Shifts, BothStack

\* What a pass builds: an instruction of the code, and nothing of the frame.
Special == Framing \cup {"RET"}
Piece(inst, n, map) ==
  /\ inst \in Shaped /\ inst.mnemonic \notin Special
  /\ HasSlot(inst.dst, map) /\ HasSlot(inst.src, map)
  /\ Clean(n, inst)

\* The passes' moves into their scratch registers.
LEMMA LoadIsPiece ==
  ASSUME NEW n \in 1..6, NEW map, NEW r \in Int, NEW op \in Operands,
         op.type \in {"STACK", "REGISTER", "IMMEDIATE"}, HasSlot(op, map)
  PROVE  Piece(Binary("MOV", RegOp(r), op), n, map)
<1> DEFINE inst == Binary("MOV", RegOp(r), op)
<1>1. /\ inst.mnemonic = "MOV" /\ inst.dst = RegOp(r) /\ inst.src = op
      /\ inst.dst.type = "REGISTER"
  BY DEF Binary, RegOp, Operand
<1>2. inst \in Instructions
  BY OperandTypes, InstructionTypes DEF Mnemonics, BinaryMnemonics
<1> HIDE DEF inst
<1>3. inst \in Shaped
  BY <1>1, <1>2 DEF Shaped, Shifts, BinaryMnemonics, UnaryMnemonics, SetMnemonics, JumpMnemonics
<1>4. Clean(n, inst)
  BY <1>1 DEF Clean, BothStack, Shifts
<1>5. HasSlot(inst.dst, map) /\ inst.mnemonic \notin Special
  BY <1>1 DEF HasSlot, Special, Framing
<1> QED
  BY <1>1, <1>3, <1>4, <1>5 DEF Piece, inst

\* An operation with the scratch register as its source.
LEMMA StoreIsPiece ==
  ASSUME NEW n \in 1..6, NEW map, NEW r \in Int, NEW op \in Operands,
         op.type = "STACK", HasSlot(op, map),
         NEW mnem \in BinaryMnemonics,
         mnem \in Shifts => r = CX,
         mnem = "IMUL" => n <= 2
  PROVE  Piece(Binary(mnem, op, RegOp(r)), n, map)
<1> DEFINE inst == Binary(mnem, op, RegOp(r))
<1>1. /\ inst.mnemonic = mnem /\ inst.dst = op /\ inst.src = RegOp(r)
      /\ inst.src.type = "REGISTER"
  BY DEF Binary, RegOp, Operand
<1>2. inst \in Instructions
  BY OperandTypes, InstructionTypes DEF Mnemonics
<1> HIDE DEF inst
<1>3. inst \in Shaped
  BY <1>1, <1>2 DEF Shaped, Shifts, BinaryMnemonics, UnaryMnemonics, SetMnemonics, JumpMnemonics
<1>4. Clean(n, inst)
  BY <1>1 DEF Clean, BothStack, Shifts, BinaryMnemonics
<1>5. HasSlot(inst.src, map) /\ inst.mnemonic \notin Special
  BY <1>1 DEF HasSlot, Special, Framing, BinaryMnemonics
<1> QED
  BY <1>1, <1>3, <1>4, <1>5 DEF Piece, inst

\* An operation with the scratch register as its destination.
LEMMA UseIsPiece ==
  ASSUME NEW n \in 1..6, NEW map, NEW r \in Int, NEW op \in Operands,
         op.type \in {"STACK", "REGISTER", "IMMEDIATE"}, HasSlot(op, map),
         NEW mnem \in BinaryMnemonics \ Shifts
  PROVE  Piece(Binary(mnem, RegOp(r), op), n, map)
<1> DEFINE inst == Binary(mnem, RegOp(r), op)
<1>1. /\ inst.mnemonic = mnem /\ inst.dst = RegOp(r) /\ inst.src = op
      /\ inst.dst.type = "REGISTER"
  BY DEF Binary, RegOp, Operand
<1>2. inst \in Instructions
  BY OperandTypes, InstructionTypes DEF Mnemonics
<1> HIDE DEF inst
<1>3. inst \in Shaped
  BY <1>1, <1>2 DEF Shaped, BinaryMnemonics, UnaryMnemonics, SetMnemonics, JumpMnemonics
<1>4. Clean(n, inst)
  BY <1>1 DEF Clean, BothStack
<1>5. HasSlot(inst.dst, map) /\ inst.mnemonic \notin Special
  BY <1>1 DEF HasSlot, Special, Framing, BinaryMnemonics
<1> QED
  BY <1>1, <1>3, <1>4, <1>5 DEF Piece, inst

\* A division by the scratch register.
LEMMA DivideIsPiece ==
  ASSUME NEW n \in 1..6, NEW map, NEW r \in Int
  PROVE  Piece(Unary("IDIV", RegOp(r)), n, map)
<1> DEFINE inst == Unary("IDIV", RegOp(r))
<1>1. /\ inst.mnemonic = "IDIV" /\ inst.dst = RegOp(r) /\ inst.src = ZeroOp
      /\ inst.dst.type = "REGISTER" /\ inst.src.type = "LABEL"
  BY DEF Unary, RegOp, ZeroOp, Operand
<1>2. ZeroOp \in Operands /\ "IDIV" \in Mnemonics
  BY DEF ZeroOp, Operand, Operands, Mnemonics, UnaryMnemonics
<1>3. inst \in Instructions
  BY <1>2, OperandTypes, InstructionTypes
<1> HIDE DEF inst
<1>4. inst \in Shaped
  BY <1>1, <1>3 DEF Shaped, Shifts, BinaryMnemonics, SetMnemonics, JumpMnemonics
<1>5. Clean(n, inst)
  BY <1>1 DEF Clean, BothStack
<1>6. HasSlot(inst.dst, map) /\ HasSlot(inst.src, map) /\ inst.mnemonic \notin Special
  BY <1>1 DEF HasSlot, Special, Framing
<1> QED
  BY <1>4, <1>5, <1>6 DEF Piece, inst

\* What the nth pass may put in place of an instruction.
Rewrites(inst, new, n, map, frame) ==
  /\ new \in Fixed
  /\ \A k \in 1..Len(new) : Resolved(new[k], map, frame) /\ Clean(n, new[k])
  /\ Clean(n + 1, new[1])
  /\ \/ new = <<inst>>
     \/ inst.mnemonic \notin Special /\ \A k \in 1..Len(new) : new[k].mnemonic \notin Special

LEMMA KeptIsRewrite ==
  ASSUME NEW n \in 1..5, NEW map, NEW frame, NEW inst,
         Resolved(inst, map, frame), Clean(n + 1, inst)
  PROVE  Rewrites(inst, <<inst>>, n, map, frame)
<1>1. inst \in Instructions
  BY DEF Resolved, Shaped
<1>2. <<inst>> \in Fixed
  BY <1>1 DEF Fixed
<1>3. Clean(n, inst)
  BY DEF Clean
<1> QED
  BY <1>2, <1>3 DEF Rewrites

LEMMA TwoAreRewrite ==
  ASSUME NEW n \in 1..5, NEW map, NEW frame, NEW inst, inst.mnemonic \notin Special,
         NEW a, NEW b, Piece(a, n, map), Piece(b, n, map), Clean(n + 1, a)
  PROVE  Rewrites(inst, <<a, b>>, n, map, frame)
<1>1. a \in Instructions /\ b \in Instructions
  BY DEF Piece, Shaped
<1>2. <<a, b>> \in Fixed
  BY <1>1 DEF Fixed
<1>3. /\ Resolved(a, map, frame) /\ Clean(n, a) /\ a.mnemonic \notin Special
      /\ Resolved(b, map, frame) /\ Clean(n, b) /\ b.mnemonic \notin Special
  BY DEF Piece, Resolved, Special, Framing
<1> QED
  BY <1>2, <1>3 DEF Rewrites

LEMMA ThreeAreRewrite ==
  ASSUME NEW n \in 1..5, NEW map, NEW frame, NEW inst, inst.mnemonic \notin Special,
         NEW a, NEW b, NEW c,
         Piece(a, n, map), Piece(b, n, map), Piece(c, n, map), Clean(n + 1, a)
  PROVE  Rewrites(inst, <<a, b, c>>, n, map, frame)
<1>1. a \in Instructions /\ b \in Instructions /\ c \in Instructions
  BY DEF Piece, Shaped
<1>2. <<a, b, c>> \in Fixed
  BY <1>1 DEF Fixed
<1>3. /\ Resolved(a, map, frame) /\ Clean(n, a) /\ a.mnemonic \notin Special
      /\ Resolved(b, map, frame) /\ Clean(n, b) /\ b.mnemonic \notin Special
      /\ Resolved(c, map, frame) /\ Clean(n, c) /\ c.mnemonic \notin Special
  BY DEF Piece, Resolved, Special, Framing
<1> QED
  BY <1>2, <1>3 DEF Rewrites

\* An operand that a fix has rebuilt from its value.
LEMMA Rebuilt ==
  ASSUME NEW inst \in Instructions, NEW map,
         HasSlot(inst.dst, map), HasSlot(inst.src, map)
  PROVE  /\ inst.mnemonic \in Mnemonics /\ inst.dst \in Operands /\ inst.src \in Operands
         /\ \A v \in Int : /\ ImmOp(v) \in Operands /\ ImmOp(v).type = "IMMEDIATE"
                           /\ HasSlot(ImmOp(v), map)
         /\ \A v \in Int : StackOp(v) \in Operands /\ StackOp(v).type = "STACK"
         /\ \A r \in Int : RegOp(r) \in Operands /\ RegOp(r).type = "REGISTER"
         /\ inst.dst.value \in Int /\ inst.src.value \in Int
         /\ inst.dst.type = "STACK" => HasSlot(StackOp(inst.dst.value), map)
         /\ inst.src.type = "STACK" => HasSlot(StackOp(inst.src.value), map)
<1>1. inst.mnemonic \in Mnemonics /\ inst.dst \in Operands /\ inst.src \in Operands
  BY DEF Instructions
<1>2. inst.dst.value \in Int /\ inst.src.value \in Int
  BY <1>1 DEF Operands
<1>3. \A v \in Int : /\ ImmOp(v) \in Operands /\ RegOp(v) \in Operands /\ StackOp(v) \in Operands
                     /\ ImmOp(v).type = "IMMEDIATE" /\ RegOp(v).type = "REGISTER"
                     /\ StackOp(v).type = "STACK" /\ StackOp(v).value = v
  BY OperandTypes DEF ImmOp, RegOp, StackOp, Operand
<1> QED
  BY <1>1, <1>2, <1>3 DEF HasSlot

LEMMA OrdinaryInstruction ==
  ASSUME NEW inst, NEW map, NEW frame, Resolved(inst, map, frame),
         inst.mnemonic \in BinaryMnemonics \cup UnaryMnemonics
  PROVE  /\ inst \in Instructions /\ inst \in Shaped /\ inst.mnemonic \notin Special
         /\ HasSlot(inst.dst, map) /\ HasSlot(inst.src, map)
BY DEF Resolved, Shaped, BinaryMnemonics, UnaryMnemonics, SetMnemonics, Special, Framing

LEMMA AddrAddrRewrites ==
  ASSUME NEW inst, NEW map, NEW frame, Resolved(inst, map, frame)
  PROVE  Rewrites(inst, fix_invalid_addr_addr(inst), 1, map, frame)
<1>1. CASE inst.mnemonic \notin Shifts /\ BothStack(inst)
  <2> DEFINE d == StackOp(inst.dst.value)
             s == StackOp(inst.src.value)
             a == Binary("MOV", RegOp(R10), s)
             b == Binary(inst.mnemonic, d, RegOp(R10))
  <2>1. inst.mnemonic \in BinaryMnemonics
    BY <1>1 DEF Resolved, Shaped, BothStack
  <2>2. /\ inst \in Instructions /\ inst.mnemonic \notin Special
        /\ HasSlot(inst.dst, map) /\ HasSlot(inst.src, map)
    BY <2>1, OrdinaryInstruction
  <2>3. /\ d \in Operands /\ d.type = "STACK" /\ HasSlot(d, map)
        /\ s \in Operands /\ s.type = "STACK" /\ HasSlot(s, map)
    BY <1>1, <2>2, Rebuilt DEF BothStack
  <2> HIDE DEF d, s
  <2>4. Piece(a, 1, map) /\ Piece(a, 2, map)
    BY <2>3, Registers, LoadIsPiece
  <2>5. Piece(b, 1, map)
    BY <1>1, <2>1, <2>3, Registers, StoreIsPiece
  <2> HIDE DEF a, b
  <2>6. Clean(2, a)
    BY <2>4 DEF Piece
  <2>7. Rewrites(inst, <<a, b>>, 1, map, frame)
    BY <2>2, <2>4, <2>5, <2>6, TwoAreRewrite
  <2> QED
    BY <1>1, <2>7 DEF fix_invalid_addr_addr, Shifts, a, b, d, s
<1>2. CASE ~(inst.mnemonic \notin Shifts /\ BothStack(inst))
  <2>1. Clean(2, inst)
    BY <1>2 DEF Clean
  <2> QED
    BY <1>2, <2>1, KeptIsRewrite DEF fix_invalid_addr_addr, Shifts
<1> QED
  BY <1>1, <1>2

LEMMA ImulRewrites ==
  ASSUME NEW inst, NEW map, NEW frame, Resolved(inst, map, frame), Clean(2, inst)
  PROVE  Rewrites(inst, fix_invalid_imuls(inst), 2, map, frame)
<1>1. CASE inst.mnemonic = "IMUL" /\ inst.dst.type = "STACK"
  <2> DEFINE d == StackOp(inst.dst.value)
             a == Binary("MOV", RegOp(R11), d)
             b == Binary("IMUL", RegOp(R11), inst.src)
             c == Binary("MOV", d, RegOp(R11))
  <2>1. inst.mnemonic \in BinaryMnemonics /\ "IMUL" \in BinaryMnemonics \ Shifts
        /\ "MOV" \in BinaryMnemonics \ Shifts
    BY <1>1 DEF BinaryMnemonics, Shifts
  <2>2. /\ inst \in Instructions /\ inst.mnemonic \notin Special /\ inst \in Shaped
        /\ HasSlot(inst.dst, map) /\ HasSlot(inst.src, map)
    BY <2>1, OrdinaryInstruction
  <2>3. /\ d \in Operands /\ d.type = "STACK" /\ HasSlot(d, map) /\ inst.src \in Operands
        /\ inst.src.type \in {"REGISTER", "STACK", "IMMEDIATE"}
    BY <1>1, <2>1, <2>2, Rebuilt DEF Shaped
  <2> HIDE DEF d
  <2>4. Piece(a, 2, map) /\ Piece(a, 3, map)
    BY <2>3, Registers, LoadIsPiece
  <2>5. Piece(b, 2, map)
    BY <2>1, <2>2, <2>3, Registers, UseIsPiece
  <2>6. Piece(c, 2, map)
    BY <2>1, <2>3, Registers, StoreIsPiece
  <2> HIDE DEF a, b, c
  <2>7. Clean(3, a)
    BY <2>4 DEF Piece
  <2>8. Rewrites(inst, <<a, b, c>>, 2, map, frame)
    BY <2>2, <2>4, <2>5, <2>6, <2>7, ThreeAreRewrite
  <2> QED
    BY <1>1, <2>8 DEF fix_invalid_imuls, a, b, c, d
<1>2. CASE ~(inst.mnemonic = "IMUL" /\ inst.dst.type = "STACK")
  <2>1. Clean(3, inst)
    BY <1>2 DEF Clean
  <2> QED
    BY <1>2, <2>1, KeptIsRewrite DEF fix_invalid_imuls
<1> QED
  BY <1>1, <1>2

LEMMA IdivRewrites ==
  ASSUME NEW inst, NEW map, NEW frame, Resolved(inst, map, frame), Clean(3, inst)
  PROVE  Rewrites(inst, fix_invalid_idivs(inst), 3, map, frame)
<1>1. CASE inst.mnemonic = "IDIV" /\ inst.dst.type = "IMMEDIATE"
  <2> DEFINE d == ImmOp(inst.dst.value)
             a == Binary("MOV", RegOp(R10), d)
             b == Unary("IDIV", RegOp(R10))
  <2>1. inst.mnemonic \in UnaryMnemonics
    BY <1>1 DEF UnaryMnemonics
  <2>2. /\ inst \in Instructions /\ inst.mnemonic \notin Special
        /\ HasSlot(inst.dst, map) /\ HasSlot(inst.src, map)
    BY <2>1, OrdinaryInstruction
  <2>3. d \in Operands /\ d.type = "IMMEDIATE" /\ HasSlot(d, map)
    BY <2>2, Rebuilt
  <2> HIDE DEF d
  <2>4. Piece(a, 3, map) /\ Piece(a, 4, map)
    BY <2>3, Registers, LoadIsPiece
  <2>5. Piece(b, 3, map)
    BY Registers, DivideIsPiece
  <2> HIDE DEF a, b
  <2>6. Clean(4, a)
    BY <2>4 DEF Piece
  <2>7. Rewrites(inst, <<a, b>>, 3, map, frame)
    BY <2>2, <2>4, <2>5, <2>6, TwoAreRewrite
  <2> QED
    BY <1>1, <2>7 DEF fix_invalid_idivs, a, b, d
<1>2. CASE ~(inst.mnemonic = "IDIV" /\ inst.dst.type = "IMMEDIATE")
  <2>1. Clean(4, inst)
    BY <1>2 DEF Clean
  <2> QED
    BY <1>2, <2>1, KeptIsRewrite DEF fix_invalid_idivs
<1> QED
  BY <1>1, <1>2

LEMMA ShiftRewrites ==
  ASSUME NEW inst, NEW map, NEW frame, Resolved(inst, map, frame), Clean(4, inst)
  PROVE  Rewrites(inst, fix_invalid_shifts(inst), 4, map, frame)
<1>1. CASE inst.mnemonic \in Shifts /\ BothStack(inst)
  <2> DEFINE d == StackOp(inst.dst.value)
             s == StackOp(inst.src.value)
             a == Binary("MOV", RegOp(CX), s)
             b == Binary(inst.mnemonic, d, RegOp(CX))
  <2>1. inst.mnemonic \in BinaryMnemonics /\ inst.mnemonic # "IMUL"
    BY <1>1 DEF BinaryMnemonics, Shifts
  <2>2. /\ inst \in Instructions /\ inst.mnemonic \notin Special
        /\ HasSlot(inst.dst, map) /\ HasSlot(inst.src, map)
    BY <2>1, OrdinaryInstruction
  <2>3. /\ d \in Operands /\ d.type = "STACK" /\ HasSlot(d, map)
        /\ s \in Operands /\ s.type = "STACK" /\ HasSlot(s, map)
    BY <1>1, <2>2, Rebuilt DEF BothStack
  <2> HIDE DEF d, s
  <2>4. Piece(a, 4, map) /\ Piece(a, 5, map)
    BY <2>3, Registers, LoadIsPiece
  <2>5. Piece(b, 4, map)
    BY <2>1, <2>3, Registers, StoreIsPiece
  <2> HIDE DEF a, b
  <2>6. Clean(5, a)
    BY <2>4 DEF Piece
  <2>7. Rewrites(inst, <<a, b>>, 4, map, frame)
    BY <2>2, <2>4, <2>5, <2>6, TwoAreRewrite
  <2> QED
    BY <1>1, <2>7 DEF fix_invalid_shifts, Shifts, a, b, d, s
<1>2. CASE ~(inst.mnemonic \in Shifts /\ BothStack(inst))
  <2>1. Clean(5, inst)
    BY <1>2 DEF Clean
  <2> QED
    BY <1>2, <2>1, KeptIsRewrite DEF fix_invalid_shifts, Shifts
<1> QED
  BY <1>1, <1>2

LEMMA CmpRewrites ==
  ASSUME NEW inst, NEW map, NEW frame, Resolved(inst, map, frame), Clean(5, inst)
  PROVE  Rewrites(inst, fix_invalid_cmps(inst), 5, map, frame)
<1>1. CASE inst.mnemonic = "CMP" /\ inst.dst.type = "IMMEDIATE"
  <2> DEFINE d == ImmOp(inst.dst.value)
             a == Binary("MOV", RegOp(R11), d)
             b == Binary("CMP", RegOp(R11), inst.src)
  <2>1. inst.mnemonic \in BinaryMnemonics /\ "CMP" \in BinaryMnemonics \ Shifts
    BY <1>1 DEF BinaryMnemonics, Shifts
  <2>2. /\ inst \in Instructions /\ inst.mnemonic \notin Special /\ inst \in Shaped
        /\ HasSlot(inst.dst, map) /\ HasSlot(inst.src, map)
    BY <2>1, OrdinaryInstruction
  <2>3. /\ d \in Operands /\ d.type = "IMMEDIATE" /\ HasSlot(d, map) /\ inst.src \in Operands
        /\ inst.src.type \in {"REGISTER", "STACK", "IMMEDIATE"}
    BY <2>1, <2>2, Rebuilt DEF Shaped
  <2> HIDE DEF d
  <2>4. Piece(a, 5, map) /\ Piece(a, 6, map)
    BY <2>3, Registers, LoadIsPiece
  <2>5. Piece(b, 5, map)
    BY <2>1, <2>2, <2>3, Registers, UseIsPiece
  <2> HIDE DEF a, b
  <2>6. Clean(6, a)
    BY <2>4 DEF Piece
  <2>7. Rewrites(inst, <<a, b>>, 5, map, frame)
    BY <2>2, <2>4, <2>5, <2>6, TwoAreRewrite
  <2> QED
    BY <1>1, <2>7 DEF fix_invalid_cmps, a, b, d
<1>2. CASE ~(inst.mnemonic = "CMP" /\ inst.dst.type = "IMMEDIATE")
  <2>1. Clean(6, inst)
    BY <1>2 DEF Clean
  <2> QED
    BY <1>2, <2>1, KeptIsRewrite DEF fix_invalid_cmps
<1> QED
  BY <1>1, <1>2

-----------------------------------------------------------------------------
(* Where the elements of a spliced array come from. *)

\* The same as a choice: before the splice, in it, or after it.
Spliced(r, s, n, t) ==
  /\ Len(r) >= 1
  /\ r[1] = IF n = 1 THEN t[1] ELSE s[1]
  /\ \A k \in 1..Len(r) :
       \/ k < n /\ k \in 1..Len(s) /\ r[k] = s[k]
       \/ \E j \in 1..Len(t) : r[k] = t[j] /\ (k < n + 1 => j = 1)
       \/ ~(k < n + 1) /\ \E j \in 1..Len(s) : r[k] = s[j]

LEMMA SpliceSources ==
  ASSUME NEW S, NEW s \in Seq(S), NEW n \in 1..Len(s), NEW t \in Seq(S), Len(t) >= 1
  PROVE  LET r == SubSeq(s, 1, n - 1) \o t \o SubSeq(s, n + 1, Len(s))
         IN Spliced(r, s, n, t)
<1> DEFINE r == SubSeq(s, 1, n - 1) \o t \o SubSeq(s, n + 1, Len(s))
           l == Len(t)
<1>1. /\ Len(r) = Len(s) + l - 1
      /\ \A k \in 1..Len(r) :
           r[k] = IF k < n THEN s[k]
                  ELSE IF k < n + l THEN t[k - n + 1] ELSE s[k - l + 1]
  BY SpliceElements
<1>2. l \in Nat /\ l >= 1 /\ Len(s) \in Nat /\ n \in Nat
  OBVIOUS
<1> HIDE DEF r
<1>3. ASSUME NEW k \in 1..Len(r)
      PROVE  \/ k < n /\ k \in 1..Len(s) /\ r[k] = s[k]
             \/ \E j \in 1..l : r[k] = t[j] /\ (k < n + 1 => j = 1)
             \/ ~(k < n + 1) /\ \E j \in 1..Len(s) : r[k] = s[j]
  <2> HIDE DEF l
  <2>1. CASE k < n
    BY <2>1, <1>1, <1>2
  <2>2. CASE k >= n /\ k < n + l
    <3>1. r[k] = t[k - n + 1] /\ k - n + 1 \in 1..l /\ (k < n + 1 => k - n + 1 = 1)
      BY <2>2, <1>1, <1>2
    <3> QED
      BY <3>1
  <2>3. CASE k >= n + l
    <3>1. r[k] = s[k - l + 1] /\ k - l + 1 \in 1..Len(s) /\ ~(k < n + 1)
      BY <2>3, <1>1, <1>2
    <3> QED
      BY <3>1
  <2> QED
    BY <2>1, <2>2, <2>3, <1>2
<1>4. r[1] = IF n = 1 THEN t[1] ELSE s[1]
  <2> HIDE DEF l
  <2>1. 1 \in 1..Len(r)
    BY <1>1, <1>2
  <2> QED
    BY <2>1, <1>1, <1>2
<1>5. Len(r) >= 1
  <2> HIDE DEF l
  <2> QED
    BY <1>1, <1>2
<1> QED
  BY <1>3, <1>4, <1>5 DEF r, Spliced

\* The frame: the prologue first, the epilogue before the last instruction.
LEMMA FrameElements ==
  ASSUME NEW S, NEW s \in Seq(S), Len(s) >= 1, NEW first \in S, NEW last \in S
  PROVE  LET r == InsertAt(InsertAt(s, 1, first), Len(s) + 1, last)
         IN /\ Len(r) = Len(s) + 2
            /\ \A k \in 1..Len(s)+2 :
                 r[k] = IF k = 1 THEN first
                        ELSE IF k <= Len(s) THEN s[k - 1]
                        ELSE IF k = Len(s) + 1 THEN last ELSE s[k - 2]
<1> DEFINE p == InsertAt(s, 1, first)
           r == InsertAt(p, Len(s) + 1, last)
           n == Len(s)
<1>1. n \in Nat /\ n >= 1
  OBVIOUS
<1>2. p \in Seq(S) /\ Len(p) = n + 1
  BY <1>1, InsertType
<1>3. \A k \in 1..n+1 : p[k] = IF k < 1 THEN s[k] ELSE IF k = 1 THEN first ELSE s[k - 1]
  BY <1>1, InsertElements
<1> HIDE DEF p, n
<1>4. n + 1 \in 1..Len(p)+1 /\ n = Len(s)
  BY <1>1, <1>2 DEF n
<1>5. Len(r) = n + 2
  <2>1. Len(InsertAt(p, Len(s) + 1, last)) = Len(p) + 1
    BY <1>2, <1>4, InsertType
  <2> QED
    BY <2>1, <1>1, <1>2
<1>6. \A k \in 1..n+2 : r[k] = IF k < n + 1 THEN p[k] ELSE IF k = n + 1 THEN last ELSE p[k - 1]
  BY <1>1, <1>2, <1>4, InsertElements
<1> HIDE DEF r
<1>7. \A k \in 1..n+2 :
        r[k] = IF k = 1 THEN first
               ELSE IF k <= n THEN s[k - 1]
               ELSE IF k = n + 1 THEN last ELSE s[k - 2]
  <2> SUFFICES ASSUME NEW k \in 1..n+2
               PROVE  r[k] = IF k = 1 THEN first
                             ELSE IF k <= n THEN s[k - 1]
                             ELSE IF k = n + 1 THEN last ELSE s[k - 2]
    OBVIOUS
  <2>1. CASE k = 1
    BY <2>1, <1>1, <1>3, <1>6
  <2>2. CASE k \in 2..n
    BY <2>2, <1>1, <1>3, <1>6
  <2>3. CASE k = n + 1
    BY <2>3, <1>1, <1>6
  <2>4. CASE k = n + 2
    <3>1. r[k] = p[n + 1] /\ p[n + 1] = s[n]
      BY <2>4, <1>1, <1>3, <1>6
    <3> QED
      BY <3>1, <2>4, <1>1
  <2> QED
    BY <2>1, <2>2, <2>3, <2>4, <1>1
<1> QED
  BY <1>4, <1>5, <1>7 DEF r, p

-----------------------------------------------------------------------------
(* The mapping of one instruction. *)

\* What has a slot keeps it.
Grows(map, new) == \A t \in 0..MapSize-1 : map[t] # 0 => new[t] = map[t]

LEMMA WithSlotGrows ==
  ASSUME NEW op \in Operands, op.type = "PSEUDO" => op.value \in 0..MapSize-1,
         NEW m, m = [map |-> m.map, next |-> m.next], Slots(m.map, m.next)
  PROVE  LET w == WithSlot(op, m)
         IN Grows(m.map, w.map) /\ (op.type = "PSEUDO" => w.map[op.value] # 0)
<1>1. CASE ~(op.type = "PSEUDO" /\ m.map[op.value] = 0)
  BY <1>1 DEF WithSlot, Grows
<1>2. CASE op.type = "PSEUDO" /\ m.map[op.value] = 0
  <2> DEFINE v    == op.value
             map  == m.map
             next == m.next
             new  == [map EXCEPT ![v] = next]
  <2>1. WithSlot(op, m) = [map |-> new, next |-> next - 4]
    BY <1>2 DEF WithSlot
  <2>2. v \in 0..MapSize-1 /\ map[v] = 0
    BY <1>2
  <2> HIDE DEF v, map, next
  <2>3. map \in [0..MapSize-1 -> Int] /\ next \in Int /\ next <= -4
    BY DEF map, next, Slots
  <2>4. new[v] # 0 /\ \A t \in 0..MapSize-1 : map[t] # 0 => new[t] = map[t]
    BY <2>2, <2>3
  <2> HIDE DEF new
  <2> QED
    BY <2>1, <2>4 DEF Grows, map, v
<1> QED
  BY <1>1, <1>2

LEMMA ResolvedGrows ==
  ASSUME NEW inst, NEW map, NEW new, NEW frame, NEW larger,
         Resolved(inst, map, frame), inst.mnemonic # "ALLOCATE_STACK", Grows(map, new)
  PROVE  Resolved(inst, new, larger)
BY DEF Resolved, HasSlot, Grows

LEMMA PlacedHasSlot ==
  ASSUME NEW op \in Operands, NEW map \in [0..MapSize-1 -> Int], op.type # "STACK",
         op.type = "PSEUDO" => op.value \in 0..MapSize-1 /\ map[op.value] # 0
  PROVE  /\ HasSlot(Placed(op, map), map) /\ Placed(op, map) \in Operands
         /\ op.type = "PSEUDO" => Placed(op, map).type = "STACK"
         /\ op.type # "PSEUDO" => Placed(op, map) = op
<1>1. CASE op.type = "PSEUDO"
  <2>1. Placed(op, map) = StackOp(map[op.value])
    BY <1>1 DEF Placed
  <2>2. /\ Placed(op, map).type = "STACK" /\ Placed(op, map).value = map[op.value]
        /\ Placed(op, map) \in Operands
    BY <1>1, <2>1, OperandTypes DEF StackOp, Operand
  <2> QED
    BY <1>1, <2>2 DEF HasSlot
<1>2. CASE op.type # "PSEUDO"
  BY <1>2 DEF Placed, HasSlot
<1> QED
  BY <1>1, <1>2

\* An instruction create_inst selects, once its pseudo registers are placed, has
\* a form the passes know.
LEMMA SelectedIsResolved ==
  ASSUME NEW inst \in Selected, NEW map \in [0..MapSize-1 -> Int], NEW frame,
         inst.dst.type = "PSEUDO" => inst.dst.value \in 0..MapSize-1 /\ map[inst.dst.value] # 0,
         inst.src.type = "PSEUDO" => inst.src.value \in 0..MapSize-1 /\ map[inst.src.value] # 0
  PROVE  Resolved([inst EXCEPT !.dst = Placed(@, map), !.src = Placed(@, map)], map, frame)
<1> DEFINE d   == Placed(inst.dst, map)
           s   == Placed(inst.src, map)
           new == [inst EXCEPT !.dst = d, !.src = s]
<1>1. inst \in Instructions /\ inst.mnemonic \notin Framing
  BY DEF Selected, Framing
<1>2. inst.mnemonic \in Mnemonics /\ inst.dst \in Operands /\ inst.src \in Operands
  BY <1>1 DEF Instructions
<1>3. inst.mnemonic \in BinaryMnemonics =>
        /\ inst.dst.type \in {"PSEUDO", "REGISTER"} \/ (inst.mnemonic = "CMP" /\ inst.dst.type = "IMMEDIATE")
        /\ inst.src.type \in {"PSEUDO", "REGISTER", "IMMEDIATE"}
  BY DEF Selected
<1>4. inst.mnemonic \in Shifts =>
        /\ inst.mnemonic \in BinaryMnemonics
        /\ inst.dst.type = "PSEUDO" /\ inst.src.type \in {"PSEUDO", "IMMEDIATE"}
  BY DEF Selected, Shifts, BinaryMnemonics
<1>5. inst.mnemonic \notin BinaryMnemonics => inst.src.type = "LABEL"
  BY DEF Selected
<1>6. inst.mnemonic \in UnaryMnemonics =>
        inst.dst.type = "PSEUDO" \/ (inst.mnemonic = "IDIV" /\ inst.dst.type = "IMMEDIATE")
  BY DEF Selected
<1>7. inst.mnemonic \notin BinaryMnemonics \cup UnaryMnemonics => inst.dst.type = "LABEL"
  BY DEF Selected
<1>8. inst.mnemonic \in JumpMnemonics \cup {"DEFINE_LABEL"} =>
        inst.dst.type = "LABEL" /\ inst.dst.label # NoLabel
  BY <1>7 DEF Selected, JumpMnemonics, BinaryMnemonics, UnaryMnemonics, SetMnemonics
<1>9. inst.dst.type # "STACK" /\ inst.src.type # "STACK"
  BY <1>3, <1>5, <1>6, <1>7
<1>10. /\ HasSlot(d, map) /\ d \in Operands
       /\ inst.dst.type = "PSEUDO" => d.type = "STACK"
       /\ inst.dst.type # "PSEUDO" => d = inst.dst
  BY <1>2, <1>9, PlacedHasSlot
<1>11. /\ HasSlot(s, map) /\ s \in Operands
       /\ inst.src.type = "PSEUDO" => s.type = "STACK"
       /\ inst.src.type # "PSEUDO" => s = inst.src
  BY <1>2, <1>9, PlacedHasSlot
<1> HIDE DEF d, s
<1>12. /\ new \in Instructions /\ new.mnemonic = inst.mnemonic /\ new.dst = d /\ new.src = s
  BY <1>1, <1>10, <1>11 DEF Instructions
<1> HIDE DEF new
<1>13. d.type # "PSEUDO" /\ s.type # "PSEUDO"
  BY <1>10, <1>11
<1>14. new \in Shaped
  BY <1>3, <1>4, <1>5, <1>6, <1>8, <1>10, <1>11, <1>12, <1>13 DEF Shaped, BothStack
<1>15. Resolved(new, map, frame)
  BY <1>1, <1>10, <1>11, <1>12, <1>14 DEF Resolved, Framing
<1> QED
  BY <1>15 DEF new, d, s

-----------------------------------------------------------------------------
(* The inductive invariant of the code.  Until the frame is made, what has *)
(* not been mapped is still the generator's and what has been is resolved. *)
(* From then on every instruction is resolved and has none of the forms    *)
(* that the passes so far remove, and those before i none of this pass's.  *)

Unframed == {"map", "stack", "undefined"}

StillSource ==
  pass \in Unframed =>
    \E p \in Programs :
      /\ Len(p) = Len(prog)
      /\ \A k \in 1..Len(prog) : prog[k].mnemonic = p[k].mnemonic /\ (k >= i => prog[k] = p[k])

MappedBefore ==
  pass \in Unframed =>
    /\ \A k \in 1..i-1 : Resolved(prog[k], offsetMap, Prologue)
    /\ pass = "stack" => i = Len(prog) + 1
    /\ Len(prog) = 0 => nextOffset = -4

FramedCode ==
  pass \in DOMAIN Rank =>
    /\ \A k \in 1..Len(prog) : /\ Resolved(prog[k], offsetMap, Prologue)
                               /\ Clean(Rank[pass], prog[k])
                               /\ k < i => Clean(Rank[pass] + 1, prog[k])
    /\ AllocAmount # 0 => Len(prog) >= 1 /\ prog[1] = Prologue

CodeInv == IInv /\ StillSource /\ MappedBefore /\ FramedCode

LEMMA PassNames ==
  /\ Unframed \cap DOMAIN Rank = {} /\ Unframed \cup DOMAIN Rank = Passes
  /\ DOMAIN NextPass = DOMAIN Rank \ {"done"}
  /\ \A p \in DOMAIN NextPass : NextPass[p] \in DOMAIN Rank /\ Rank[NextPass[p]] = Rank[p] + 1
  /\ \A p \in DOMAIN Rank : Rank[p] \in 1..6
  /\ \A p \in DOMAIN NextPass : Rank[p] \in 1..5
BY DEF Unframed, Rank, NextPass, Passes

LEMMA SourceIsSelected ==
  ASSUME NEW p \in Programs
  PROVE  p \in Seq(Selected) /\ \A k \in 1..Len(p) : p[k] \in Selected /\ p[k].mnemonic \notin Framing
<1>1. p \in Seq(Selected)
  BY RegAllocAssumption
<1>2. \A inst \in Selected : inst.mnemonic \notin Framing
  BY DEF Selected, Framing
<1> HIDE DEF Selected
<1> QED
  BY <1>1, <1>2

LEMMA CodeInitially == Init => CodeInv
<1> SUFFICES ASSUME Init PROVE CodeInv
  OBVIOUS
<1>1. IInv
  BY InvariantHoldsInitially
<1>2. pass = "map" /\ i = 1 /\ prog \in Programs /\ nextOffset = -4
  BY DEF Init, Fresh
<1>3. StillSource
  BY <1>2 DEF StillSource
<1>4. MappedBefore
  BY <1>2 DEF MappedBefore
<1>5. FramedCode
  BY <1>2, PassNames DEF FramedCode, Unframed
<1> QED
  BY <1>1, <1>3, <1>4, <1>5 DEF CodeInv

LEMMA MapInstructionKeepsCode ==
  ASSUME CodeInv, MapInstruction
  PROVE  StillSource' /\ MappedBefore' /\ FramedCode'
<1> DEFINE inst == prog[i]
           m0   == [map |-> offsetMap, next |-> nextOffset]
           m1   == WithSlot(inst.dst, m0)
           m2   == WithSlot(inst.src, m1)
           new  == [inst EXCEPT !.dst = Placed(@, m2.map), !.src = Placed(@, m2.map)]
<1>1. /\ pass = "map" /\ i \in 1..Len(prog) /\ i' = i + 1 /\ pass' = pass
      /\ Pseudos(inst) \subseteq 0..MapSize-1
      /\ offsetMap' = m2.map /\ nextOffset' = m2.next
      /\ prog' = [prog EXCEPT ![i] = new]
  BY DEF MapInstruction, CodeInv, IInv, Typed
<1>2. prog \in Seq(Instructions) /\ inst \in Instructions
  BY <1>1 DEF CodeInv, IInv, Typed
<1>3. PICK p \in Programs :
        /\ Len(p) = Len(prog)
        /\ \A k \in 1..Len(prog) : prog[k].mnemonic = p[k].mnemonic /\ (k >= i => prog[k] = p[k])
  BY <1>1 DEF CodeInv, StillSource, Unframed
<1>4. \A k \in 1..Len(prog) : p[k] \in Selected /\ prog[k].mnemonic \notin Framing
  BY <1>3, SourceIsSelected
<1>5. inst \in Selected
  BY <1>1, <1>3, <1>4
<1>6. inst.dst \in Operands /\ inst.src \in Operands
  BY <1>2 DEF Instructions
<1>7. /\ inst.dst.type = "PSEUDO" => inst.dst.value \in 0..MapSize-1
      /\ inst.src.type = "PSEUDO" => inst.src.value \in 0..MapSize-1
  BY <1>1 DEF Pseudos
<1>8. m0 = [map |-> m0.map, next |-> m0.next] /\ Slots(m0.map, m0.next) /\ m0.map = offsetMap
  BY DEF CodeInv, IInv
<1> HIDE DEF m0
<1>9. /\ m1 = [map |-> m1.map, next |-> m1.next] /\ Slots(m1.map, m1.next)
      /\ Grows(m0.map, m1.map)
      /\ inst.dst.type = "PSEUDO" => m1.map[inst.dst.value] # 0
  BY <1>6, <1>7, <1>8, WithSlotKeeps, WithSlotGrows
<1> HIDE DEF m1
<1>10. /\ Slots(m2.map, m2.next) /\ Grows(m1.map, m2.map)
       /\ inst.src.type = "PSEUDO" => m2.map[inst.src.value] # 0
  BY <1>6, <1>7, <1>9, WithSlotKeeps, WithSlotGrows
<1> HIDE DEF m2
<1>11. inst.dst.type = "PSEUDO" => m2.map[inst.dst.value] # 0
  BY <1>7, <1>9, <1>10 DEF Grows
<1>12. Grows(offsetMap, m2.map)
  BY <1>8, <1>9, <1>10 DEF Grows
<1>13. m2.map \in [0..MapSize-1 -> Int]
  BY <1>10 DEF Slots
<1>14. Resolved(new, m2.map, Prologue')
  BY <1>5, <1>7, <1>10, <1>11, <1>13, SelectedIsResolved
<1>15. new.mnemonic = inst.mnemonic
  BY <1>2 DEF Instructions
<1> HIDE DEF new, inst
<1>16. /\ Len(prog') = Len(prog) /\ prog'[i] = new
       /\ \A k \in 1..Len(prog) : k # i => prog'[k] = prog[k]
  BY <1>1, <1>2
<1>17. \A k \in 1..Len(prog') :
         prog'[k].mnemonic = p[k].mnemonic /\ (k >= i' => prog'[k] = p[k])
  BY <1>1, <1>3, <1>15, <1>16 DEF inst
<1>18. StillSource'
  BY <1>3, <1>16, <1>17 DEF StillSource
<1>19. \A k \in 1..i-1 : Resolved(prog[k], offsetMap, Prologue)
  BY <1>1 DEF CodeInv, MappedBefore, Unframed
<1>20. ASSUME NEW k \in 1..i'-1 PROVE Resolved(prog'[k], offsetMap', Prologue')
  <2>1. CASE k = i
    BY <2>1, <1>1, <1>14, <1>16
  <2>2. CASE k # i
    <3>1. k \in 1..i-1 /\ prog'[k] = prog[k] /\ prog[k].mnemonic # "ALLOCATE_STACK"
      BY <2>2, <1>1, <1>4, <1>16 DEF Framing
    <3> QED
      BY <3>1, <1>1, <1>12, <1>19, ResolvedGrows
  <2> QED
    BY <2>1, <2>2
<1>21. MappedBefore'
  BY <1>1, <1>16, <1>20 DEF MappedBefore
<1>22. FramedCode'
  BY <1>1, PassNames DEF FramedCode, Unframed
<1> QED
  BY <1>18, <1>21, <1>22

LEMMA FramingIsResolved ==
  ASSUME NEW map, NEW amount \in Int
  PROVE  LET frame == Unary("ALLOCATE_STACK", StackOp(amount))
         IN /\ frame \in Instructions /\ Resolved(frame, map, frame) /\ Clean(1, frame)
            /\ Epilogue \in Instructions /\ Resolved(Epilogue, map, frame) /\ Clean(1, Epilogue)
<1> DEFINE frame == Unary("ALLOCATE_STACK", StackOp(amount))
<1>1. /\ frame.mnemonic = "ALLOCATE_STACK" /\ frame.dst.type = "STACK" /\ frame.src.type = "LABEL"
      /\ Epilogue.mnemonic = "DEALLOCATE_STACK"
      /\ Epilogue.dst.type = "LABEL" /\ Epilogue.src.type = "LABEL"
  BY DEF Epilogue, Unary, NoOps, StackOp, ZeroOp, Operand
<1>2. StackOp(amount) \in Operands /\ ZeroOp \in Operands
  BY OperandTypes DEF ZeroOp, Operand, Operands
<1>3. frame \in Instructions /\ Epilogue \in Instructions
  BY <1>2, InstructionTypes DEF Epilogue, Mnemonics
<1> HIDE DEF frame
<1>4. frame \in Shaped /\ Epilogue \in Shaped
  BY <1>1, <1>3 DEF Shaped, Shifts, BinaryMnemonics, UnaryMnemonics, SetMnemonics, JumpMnemonics
<1>5. Resolved(frame, map, frame) /\ Resolved(Epilogue, map, frame)
  BY <1>1, <1>4 DEF Resolved, HasSlot
<1>6. Clean(1, frame) /\ Clean(1, Epilogue)
  BY DEF Clean
<1> QED
  BY <1>3, <1>5, <1>6 DEF frame

LEMMA StackAllocKeepsCode ==
  ASSUME CodeInv, StackAlloc
  PROVE  StillSource' /\ MappedBefore' /\ FramedCode'
<1> DEFINE n == Len(prog)
<1>1. /\ pass = "stack" /\ pass' = "addr_addr" /\ i' = 1
      /\ UNCHANGED <<offsetMap, nextOffset>>
      /\ prog' = IF AllocAmount = 0 THEN prog
                 ELSE InsertAt(InsertAt(prog, 1, Prologue), Len(prog) + 1, Epilogue)
  BY DEF StackAlloc, Prologue, Epilogue
<1>2. prog \in Seq(Instructions) /\ nextOffset \in Int /\ n \in Nat
  BY DEF CodeInv, IInv, Typed, Slots
<1>3. AllocAmount \in Int /\ AllocAmount' = AllocAmount /\ Prologue' = Prologue
  BY <1>1, <1>2 DEF AllocAmount, Prologue
<1>4. StillSource' /\ MappedBefore'
  BY <1>1, PassNames DEF StillSource, MappedBefore, Unframed
<1>5. \A k \in 1..n : Resolved(prog[k], offsetMap, Prologue)
  BY <1>1, <1>2 DEF CodeInv, MappedBefore, Unframed
<1>6. /\ Prologue \in Instructions /\ Resolved(Prologue, offsetMap, Prologue)
      /\ Epilogue \in Instructions /\ Resolved(Epilogue, offsetMap, Prologue)
  BY <1>3, FramingIsResolved DEF Prologue
<1>7. \A inst : Clean(1, inst)
  BY DEF Clean
<1>8. /\ \A k \in 1..Len(prog') : Resolved(prog'[k], offsetMap, Prologue)
      /\ AllocAmount # 0 => Len(prog') >= 1 /\ prog'[1] = Prologue
  <2>1. CASE AllocAmount = 0
    BY <2>1, <1>1, <1>5
  <2>2. CASE AllocAmount # 0
    <3>1. n >= 1
      <4>1. n = 0 => nextOffset = -4
        BY <1>1 DEF CodeInv, MappedBefore, Unframed
      <4>2. nextOffset # -4
        BY <2>2, <1>2 DEF AllocAmount
      <4> QED
        BY <4>1, <4>2, <1>2
    <3>2. /\ Len(prog') = n + 2
          /\ \A k \in 1..n+2 :
               prog'[k] = IF k = 1 THEN Prologue
                          ELSE IF k <= n THEN prog[k - 1]
                          ELSE IF k = n + 1 THEN Epilogue ELSE prog[k - 2]
      BY <2>2, <3>1, <1>1, <1>2, <1>6, FrameElements
    <3>3. prog'[1] = Prologue
      BY <3>1, <3>2, <1>2
    <3> HIDE DEF n
    <3>4. ASSUME NEW k \in 1..n+2 PROVE Resolved(prog'[k], offsetMap, Prologue)
      <4>1. k = 1 \/ (k # 1 /\ k <= n) \/ (k # 1 /\ k = n + 1) \/ (k # 1 /\ k = n + 2)
        BY <1>2
      <4>2. CASE k = 1
        BY <4>2, <3>3, <1>6
      <4>3. CASE k # 1 /\ k <= n
        <5>1. prog'[k] = prog[k - 1] /\ k - 1 \in 1..n
          BY <4>3, <3>2, <1>2
        <5> QED
          BY <5>1, <1>5
      <4>4. CASE k # 1 /\ k = n + 1
        <5>1. prog'[k] = Epilogue
          BY <4>4, <3>2, <1>2
        <5> QED
          BY <5>1, <1>6
      <4>5. CASE k # 1 /\ k = n + 2
        <5>1. prog'[k] = prog[k - 2] /\ k - 2 \in 1..n
          BY <4>5, <3>1, <3>2, <1>2
        <5> QED
          BY <5>1, <1>5
      <4> QED
        BY <4>1, <4>2, <4>3, <4>4, <4>5
    <3> QED
      BY <3>2, <3>3, <3>4, <1>2
  <2> QED
    BY <2>1, <2>2
<1>9. Rank["addr_addr"] = 1
  BY DEF Rank
<1>10. FramedCode'
  BY <1>1, <1>3, <1>7, <1>8, <1>9 DEF FramedCode
<1> QED
  BY <1>4, <1>10

\* One iteration of the nth pass.
LEMMA FixKeepsCode ==
  ASSUME CodeInv, NEW n \in 1..5, pass \in DOMAIN NextPass, Rank[pass] = n, i <= Len(prog),
         NEW new, Resolved(prog[i], offsetMap, Prologue) /\ Clean(n, prog[i])
                    => Rewrites(prog[i], new, n, offsetMap, Prologue),
         prog' = SubSeq(prog, 1, i - 1) \o new \o SubSeq(prog, i + 1, Len(prog)),
         i' = i + 1, UNCHANGED <<pass, offsetMap, nextOffset>>
  PROVE  StillSource' /\ MappedBefore' /\ FramedCode'
<1>1. prog \in Seq(Instructions) /\ i \in 1..Len(prog)
  BY DEF CodeInv, IInv, Typed
<1>2. pass \in DOMAIN Rank /\ pass \notin Unframed
  BY PassNames
<1>3. /\ \A k \in 1..Len(prog) : /\ Resolved(prog[k], offsetMap, Prologue)
                                 /\ Clean(n, prog[k])
                                 /\ k < i => Clean(n + 1, prog[k])
      /\ AllocAmount # 0 => Len(prog) >= 1 /\ prog[1] = Prologue
  BY <1>2 DEF CodeInv, FramedCode
<1>4. Rewrites(prog[i], new, n, offsetMap, Prologue)
  BY <1>1, <1>3
<1>5. AllocAmount' = AllocAmount /\ Prologue' = Prologue
  BY DEF AllocAmount, Prologue
<1>6. StillSource' /\ MappedBefore'
  BY <1>2 DEF StillSource, MappedBefore
<1>7. new \in Seq(Instructions) /\ Len(new) >= 1
  BY <1>4 DEF Rewrites, Fixed
<1>8. /\ Len(prog') >= 1
      /\ prog'[1] = IF i = 1 THEN new[1] ELSE prog[1]
      /\ \A k \in 1..Len(prog') :
           \/ k < i /\ k \in 1..Len(prog) /\ prog'[k] = prog[k]
           \/ \E j \in 1..Len(new) : prog'[k] = new[j] /\ (k < i + 1 => j = 1)
           \/ ~(k < i + 1) /\ \E j \in 1..Len(prog) : prog'[k] = prog[j]
  <2>1. Spliced(prog', prog, i, new)
    BY <1>1, <1>7, SpliceSources
  <2> QED
    BY <2>1, Zenon DEF Spliced
<1>10. /\ \A k \in 1..Len(new) : Resolved(new[k], offsetMap, Prologue) /\ Clean(n, new[k])
       /\ Clean(n + 1, new[1])
  BY <1>4 DEF Rewrites
<1>11. ASSUME NEW k \in 1..Len(prog')
       PROVE  /\ Resolved(prog'[k], offsetMap, Prologue) /\ Clean(n, prog'[k])
              /\ k < i + 1 => Clean(n + 1, prog'[k])
  <2>1. CASE k < i /\ k \in 1..Len(prog) /\ prog'[k] = prog[k]
    BY <2>1, <1>3, Zenon
  <2>2. CASE \E j \in 1..Len(new) : prog'[k] = new[j] /\ (k < i + 1 => j = 1)
    BY <2>2, <1>10, Zenon
  <2>3. CASE ~(k < i + 1) /\ \E j \in 1..Len(prog) : prog'[k] = prog[j]
    BY <2>3, <1>3, Zenon
  <2> QED
    BY <2>1, <2>2, <2>3, <1>8, Zenon
<1>12. AllocAmount # 0 => Len(prog') >= 1 /\ prog'[1] = Prologue
  <2> SUFFICES ASSUME AllocAmount # 0 PROVE Len(prog') >= 1 /\ prog'[1] = Prologue
    OBVIOUS
  <2>1. prog[1] = Prologue /\ Len(prog) >= 1
    BY <1>3, Zenon
  <2>2. CASE i = 1
    <3>1. prog[i].mnemonic \in Special
      BY <2>1, <2>2 DEF Prologue, Unary, Special, Framing
    <3>2. new = <<prog[i]>>
      BY <3>1, <1>4, Zenon DEF Rewrites
    <3>3. prog'[1] = new[1]
      BY <2>2, <1>8, Zenon
    <3>4. prog'[1] = Prologue
      BY <3>2, <3>3, <2>1, <2>2
    <3> QED
      BY <3>4, <1>8
  <2>3. CASE i # 1
    <3>1. prog'[1] = prog[1]
      BY <2>3, <1>8, Zenon
    <3> QED
      BY <3>1, <2>1, <1>8
  <2> QED
    BY <2>2, <2>3
<1>13. FramedCode'
  BY <1>2, <1>5, <1>11, <1>12 DEF FramedCode
<1> QED
  BY <1>6, <1>13

LEMMA PassesKeepCode ==
  ASSUME CodeInv, FixAddrAddr \/ FixImul \/ FixIdiv \/ FixShift \/ FixCmp
  PROVE  StillSource' /\ MappedBefore' /\ FramedCode'
<1>1. /\ "addr_addr" \in DOMAIN NextPass /\ Rank["addr_addr"] = 1
      /\ "imul" \in DOMAIN NextPass /\ Rank["imul"] = 2
      /\ "idiv" \in DOMAIN NextPass /\ Rank["idiv"] = 3
      /\ "shift" \in DOMAIN NextPass /\ Rank["shift"] = 4
      /\ "cmp" \in DOMAIN NextPass /\ Rank["cmp"] = 5
  BY DEF NextPass, Rank
<1>2. CASE FixAddrAddr
  <2> DEFINE new == fix_invalid_addr_addr(prog[i])
  <2>1. /\ pass = "addr_addr" /\ i <= Len(prog) /\ i' = i + 1
        /\ prog' = SubSeq(prog, 1, i - 1) \o new \o SubSeq(prog, i + 1, Len(prog))
        /\ UNCHANGED <<pass, offsetMap, nextOffset>>
    BY <1>2 DEF FixAddrAddr, FixInstruction
  <2>2. Resolved(prog[i], offsetMap, Prologue) /\ Clean(1, prog[i])
          => Rewrites(prog[i], new, 1, offsetMap, Prologue)
    BY AddrAddrRewrites
  <2>3. pass \in DOMAIN NextPass /\ Rank[pass] = 1 /\ 1 \in 1..5
    BY <1>1, <2>1
  <2> HIDE DEF new
  <2> QED
    BY <2>1, <2>2, <2>3, FixKeepsCode
<1>3. CASE FixImul
  <2> DEFINE new == fix_invalid_imuls(prog[i])
  <2>1. /\ pass = "imul" /\ i <= Len(prog) /\ i' = i + 1
        /\ prog' = SubSeq(prog, 1, i - 1) \o new \o SubSeq(prog, i + 1, Len(prog))
        /\ UNCHANGED <<pass, offsetMap, nextOffset>>
    BY <1>3 DEF FixImul, FixInstruction
  <2>2. Resolved(prog[i], offsetMap, Prologue) /\ Clean(2, prog[i])
          => Rewrites(prog[i], new, 2, offsetMap, Prologue)
    BY ImulRewrites
  <2>3. pass \in DOMAIN NextPass /\ Rank[pass] = 2 /\ 2 \in 1..5
    BY <1>1, <2>1
  <2> HIDE DEF new
  <2> QED
    BY <2>1, <2>2, <2>3, FixKeepsCode
<1>4. CASE FixIdiv
  <2> DEFINE new == fix_invalid_idivs(prog[i])
  <2>1. /\ pass = "idiv" /\ i <= Len(prog) /\ i' = i + 1
        /\ prog' = SubSeq(prog, 1, i - 1) \o new \o SubSeq(prog, i + 1, Len(prog))
        /\ UNCHANGED <<pass, offsetMap, nextOffset>>
    BY <1>4 DEF FixIdiv, FixInstruction
  <2>2. Resolved(prog[i], offsetMap, Prologue) /\ Clean(3, prog[i])
          => Rewrites(prog[i], new, 3, offsetMap, Prologue)
    BY IdivRewrites
  <2>3. pass \in DOMAIN NextPass /\ Rank[pass] = 3 /\ 3 \in 1..5
    BY <1>1, <2>1
  <2> HIDE DEF new
  <2> QED
    BY <2>1, <2>2, <2>3, FixKeepsCode
<1>5. CASE FixShift
  <2> DEFINE new == fix_invalid_shifts(prog[i])
  <2>1. /\ pass = "shift" /\ i <= Len(prog) /\ i' = i + 1
        /\ prog' = SubSeq(prog, 1, i - 1) \o new \o SubSeq(prog, i + 1, Len(prog))
        /\ UNCHANGED <<pass, offsetMap, nextOffset>>
    BY <1>5 DEF FixShift, FixInstruction
  <2>2. Resolved(prog[i], offsetMap, Prologue) /\ Clean(4, prog[i])
          => Rewrites(prog[i], new, 4, offsetMap, Prologue)
    BY ShiftRewrites
  <2>3. pass \in DOMAIN NextPass /\ Rank[pass] = 4 /\ 4 \in 1..5
    BY <1>1, <2>1
  <2> HIDE DEF new
  <2> QED
    BY <2>1, <2>2, <2>3, FixKeepsCode
<1>6. CASE FixCmp
  <2> DEFINE new == fix_invalid_cmps(prog[i])
  <2>1. /\ pass = "cmp" /\ i <= Len(prog) /\ i' = i + 1
        /\ prog' = SubSeq(prog, 1, i - 1) \o new \o SubSeq(prog, i + 1, Len(prog))
        /\ UNCHANGED <<pass, offsetMap, nextOffset>>
    BY <1>6 DEF FixCmp, FixInstruction
  <2>2. Resolved(prog[i], offsetMap, Prologue) /\ Clean(5, prog[i])
          => Rewrites(prog[i], new, 5, offsetMap, Prologue)
    BY CmpRewrites
  <2>3. pass \in DOMAIN NextPass /\ Rank[pass] = 5 /\ 5 \in 1..5
    BY <1>1, <2>1
  <2> HIDE DEF new
  <2> QED
    BY <2>1, <2>2, <2>3, FixKeepsCode
<1> QED
  BY <1>2, <1>3, <1>4, <1>5, <1>6

LEMMA PassDoneKeepsCode ==
  ASSUME CodeInv, PassDone
  PROVE  StillSource' /\ MappedBefore' /\ FramedCode'
<1>1. /\ pass \in DOMAIN NextPass /\ i > Len(prog) /\ pass' = NextPass[pass] /\ i' = 1
      /\ UNCHANGED <<prog, offsetMap, nextOffset>>
  BY DEF PassDone
<1>2. /\ pass \in DOMAIN Rank /\ pass' \in DOMAIN Rank /\ pass' \notin Unframed
      /\ Rank[pass'] = Rank[pass] + 1
  BY <1>1, PassNames
<1>3. prog \in Seq(Instructions) /\ i = Len(prog) + 1
  BY <1>1 DEF CodeInv, IInv, Typed
<1>4. StillSource' /\ MappedBefore'
  BY <1>2 DEF StillSource, MappedBefore
<1>5. Prologue' = Prologue /\ AllocAmount' = AllocAmount
  BY <1>1 DEF Prologue, AllocAmount
<1>6. \A k \in 1..Len(prog) : Resolved(prog[k], offsetMap, Prologue) /\ Clean(Rank[pass] + 1, prog[k])
  BY <1>2, <1>3 DEF CodeInv, FramedCode
<1>7. AllocAmount # 0 => Len(prog) >= 1 /\ prog[1] = Prologue
  BY <1>2 DEF CodeInv, FramedCode
<1>8. \A k \in 1..Len(prog) : ~(k < i')
  BY <1>1, <1>3
<1>9. FramedCode'
  BY <1>1, <1>2, <1>5, <1>6, <1>7, <1>8 DEF FramedCode
<1> QED
  BY <1>4, <1>9

LEMMA StepKeepsCode == CodeInv /\ [Next]_vars => CodeInv'
<1> SUFFICES ASSUME CodeInv, [Next]_vars PROVE CodeInv'
  OBVIOUS
<1>1. IInv'
  BY StepKeepsInvariant DEF CodeInv
<1>2. StillSource' /\ MappedBefore' /\ FramedCode'
  <2>1. CASE MapInstruction
    BY <2>1, MapInstructionKeepsCode
  <2>2. CASE MapOutOfBounds
    <3>1. pass' = "undefined" /\ pass = "map" /\ UNCHANGED <<prog, i, offsetMap, nextOffset>>
      BY <2>2 DEF MapOutOfBounds
    <3>2. Prologue' = Prologue
      BY <3>1 DEF Prologue, AllocAmount
    <3> QED
      BY <3>1, <3>2, PassNames DEF CodeInv, StillSource, MappedBefore, FramedCode, Unframed
  <2>3. CASE MapDone
    <3>1. /\ pass' = "stack" /\ pass = "map" /\ UNCHANGED <<prog, i, offsetMap, nextOffset>>
          /\ i > Len(prog)
      BY <2>3 DEF MapDone
    <3>2. Prologue' = Prologue
      BY <3>1 DEF Prologue, AllocAmount
    <3>3. i' = Len(prog') + 1
      BY <3>1 DEF CodeInv, IInv, Typed
    <3> QED
      BY <3>1, <3>2, <3>3, PassNames DEF CodeInv, StillSource, MappedBefore, FramedCode, Unframed
  <2>4. CASE StackAlloc
    BY <2>4, StackAllocKeepsCode
  <2>5. CASE FixAddrAddr \/ FixImul \/ FixIdiv \/ FixShift \/ FixCmp
    BY <2>5, PassesKeepCode
  <2>6. CASE PassDone
    BY <2>6, PassDoneKeepsCode
  <2>7. CASE UNCHANGED vars
    <3>1. UNCHANGED <<prog, pass, i, offsetMap, nextOffset>>
      BY <2>7 DEF vars
    <3>2. Prologue' = Prologue /\ AllocAmount' = AllocAmount
      BY <3>1 DEF Prologue, AllocAmount
    <3> QED
      BY <3>1, <3>2 DEF CodeInv, StillSource, MappedBefore, FramedCode
  <2> QED
    BY <2>1, <2>2, <2>3, <2>4, <2>5, <2>6, <2>7 DEF Next
<1> QED
  BY <1>1, <1>2 DEF CodeInv

LEMMA CodeInvariant == Spec => []CodeInv
BY CodeInitially, StepKeepsCode, PTL DEF Spec

-----------------------------------------------------------------------------
(* What follows for every program the generator can hand over. *)

\* The instructions that are still the generator's have no stack operand.
LEMMA SelectedHasNoSlots ==
  ASSUME NEW inst \in Selected
  PROVE  inst.dst.type # "STACK" /\ inst.src.type # "STACK"
BY DEF Selected

LEMMA ResolvedIsPlaced ==
  ASSUME NEW inst, NEW frame, Resolved(inst, offsetMap, frame),
         offsetMap \in [0..MapSize-1 -> Int]
  PROVE  /\ inst.mnemonic # "ALLOCATE_STACK" => SlotOf(inst.dst) /\ SlotOf(inst.src)
         /\ Pseudos(inst) = {}
BY DEF Resolved, Shaped, HasSlot, SlotOf, Pseudos

\* Every pseudo operand is replaced by the slot its register was given, in
\* regalloc's loop and in all the passes after it: none is left, and no pass
\* builds an operand that is not a slot of the map.
THEOREM OperandsArePlaced == Spec => []OperandsPlaced
<1>1. CodeInv => OperandsPlaced
  <2> SUFFICES ASSUME CodeInv, NEW k \in DOMAIN prog
               PROVE  /\ prog[k].mnemonic # "ALLOCATE_STACK"
                           => SlotOf(prog[k].dst) /\ SlotOf(prog[k].src)
                      /\ (pass # "undefined" /\ (pass = "map" => k < i)) => Pseudos(prog[k]) = {}
    BY DEF OperandsPlaced
  <2>1. /\ prog \in Seq(Instructions) /\ k \in 1..Len(prog) /\ i \in 1..Len(prog)+1
        /\ pass \in Passes /\ offsetMap \in [0..MapSize-1 -> Int]
    BY DEF CodeInv, IInv, Typed, Slots
  <2>2. CASE pass \in DOMAIN Rank \/ k < i
    <3>1. Resolved(prog[k], offsetMap, Prologue)
      <4>1. CASE pass \in DOMAIN Rank
        BY <4>1, <2>1 DEF CodeInv, FramedCode
      <4>2. CASE pass \in Unframed
        BY <4>2, <2>1, <2>2, PassNames DEF CodeInv, MappedBefore
      <4> QED
        BY <4>1, <4>2, <2>1, PassNames
    <3> QED
      BY <3>1, <2>1, ResolvedIsPlaced
  <2>3. CASE pass \in Unframed /\ k >= i
    <3>1. prog[k] \in Selected
      <4>1. PICK p \in Programs :
              Len(p) = Len(prog) /\ \A j \in 1..Len(prog) : j >= i => prog[j] = p[j]
        BY <2>3 DEF CodeInv, StillSource
      <4> QED
        BY <4>1, <2>1, <2>3, SourceIsSelected
    <3>2. SlotOf(prog[k].dst) /\ SlotOf(prog[k].src)
      BY <3>1, SelectedHasNoSlots DEF SlotOf
    <3>3. pass # "stack"
      BY <2>1, <2>3 DEF CodeInv, MappedBefore
    <3>4. ~(pass # "undefined" /\ (pass = "map" => k < i))
      BY <2>1, <2>3, <3>3 DEF Unframed
    <3> QED
      BY <3>2, <3>4
  <2> QED
    BY <2>1, <2>2, <2>3, PassNames
<1> QED
  BY <1>1, CodeInvariant, PTL

\* stackalloc's amount covers every slot any instruction names, whatever the
\* passes insert afterwards, and the frame is there at all when one does.
THEOREM FrameHoldsEverySlot == Spec => []FrameCovers
<1>1. CodeInv => FrameCovers
  <2> SUFFICES ASSUME CodeInv, pass \in DOMAIN NextPass \cup {"done"}, NEW k \in DOMAIN prog,
                      NEW op \in {prog[k].dst, prog[k].src},
                      op.type = "STACK", prog[k].mnemonic # "ALLOCATE_STACK"
               PROVE  -op.value \in 4..FrameSize
    BY DEF FrameCovers
  <2>1. pass \in DOMAIN Rank
    BY PassNames DEF Rank
  <2>2. prog \in Seq(Instructions) /\ k \in 1..Len(prog) /\ Slots(offsetMap, nextOffset)
    BY DEF CodeInv, IInv, Typed
  <2>3. Resolved(prog[k], offsetMap, Prologue)
    BY <2>1, <2>2 DEF CodeInv, FramedCode
  <2>4. PICK t \in 0..MapSize-1 : offsetMap[t] = op.value /\ op.value # 0
    BY <2>3 DEF Resolved, HasSlot
  <2>5. op.value \in nextOffset+4 .. -4 /\ nextOffset \in Int
    BY <2>2, <2>4 DEF Slots
  <2>6. AllocAmount \in Int /\ AllocAmount # 0 /\ -op.value \in 4..AllocAmount
    BY <2>5 DEF AllocAmount
  <2>7. prog[1] = Prologue
    BY <2>1, <2>6 DEF CodeInv, FramedCode
  <2>8. FrameSize = AllocAmount
    BY <2>7 DEF FrameSize, Prologue, Unary, StackOp, Operand
  <2> QED
    BY <2>6, <2>8
<1> QED
  BY <1>1, CodeInvariant, PTL

\* What the last pass leaves is what the assembler takes: the five passes, in
\* the order the code runs them, never bring back what an earlier one removed.
THEOREM OutputIsLegal == Spec => []AllLegal
<1>1. CodeInv => AllLegal
  <2> SUFFICES ASSUME CodeInv, pass = "done", NEW k \in DOMAIN prog
               PROVE  Legal(prog[k])
    BY DEF AllLegal
  <2>1. pass \in DOMAIN Rank /\ Rank[pass] = 6
    BY DEF Rank
  <2>2. k \in 1..Len(prog)
    BY DEF CodeInv, IInv, Typed
  <2>3. Resolved(prog[k], offsetMap, Prologue) /\ Clean(6, prog[k])
    BY <2>1, <2>2 DEF CodeInv, FramedCode
  <2> QED
    BY <2>3, CleanIsLegal DEF Resolved
<1> QED
  BY <1>1, CodeInvariant, PTL

\* regalloc's map is indexed within its bounds for every program that names no
\* temporary from MapSize on: the loops themselves never leave it.
THEOREM MapServesItsSize ==
  ASSUME \A p \in Programs : \A k \in 1..Len(p) : Pseudos(p[k]) \subseteq 0..MapSize-1
  PROVE  Spec => []MapInBounds
<1>1. Init => CodeInv /\ MapInBounds
  BY CodeInitially DEF Init, MapInBounds
<1>2. CodeInv /\ MapInBounds /\ [Next]_vars => CodeInv' /\ MapInBounds'
  <2> SUFFICES ASSUME CodeInv, MapInBounds, [Next]_vars PROVE MapInBounds'
    BY StepKeepsCode
  <2>1. ~MapOutOfBounds
    <3> SUFFICES ASSUME MapOutOfBounds PROVE FALSE
      OBVIOUS
    <3>1. pass = "map" /\ i <= Len(prog) /\ ~(Pseudos(prog[i]) \subseteq 0..MapSize-1)
      BY DEF MapOutOfBounds
    <3>2. i \in 1..Len(prog)
      BY <3>1 DEF CodeInv, IInv, Typed
    <3>3. PICK p \in Programs :
            Len(p) = Len(prog) /\ \A j \in 1..Len(prog) : j >= i => prog[j] = p[j]
      BY <3>1 DEF CodeInv, StillSource, Unframed
    <3>4. prog[i] = p[i] /\ i \in 1..Len(p)
      BY <3>2, <3>3
    <3> QED
      BY <3>1, <3>4
  <2>2. CASE PassDone
    BY <2>2, PassNames DEF PassDone, MapInBounds, Rank
  <2>3. CASE UNCHANGED vars
    BY <2>3 DEF vars, MapInBounds
  <2>4. CASE MapInstruction \/ MapDone \/ StackAlloc
    BY <2>4 DEF MapInstruction, MapDone, StackAlloc, MapInBounds
  <2>5. CASE FixAddrAddr \/ FixImul \/ FixIdiv \/ FixShift \/ FixCmp
    BY <2>5 DEF FixAddrAddr, FixImul, FixIdiv, FixShift, FixCmp, FixInstruction, MapInBounds
  <2> QED
    BY <2>1, <2>2, <2>3, <2>4, <2>5 DEF Next
<1> QED
  BY <1>1, <1>2, PTL DEF Spec

-----------------------------------------------------------------------------
(* The epilogue *)

EndsFrame(s) ==
  \A k \in 1..Len(s) :
    s[k].mnemonic = "RET" => k - 1 \in 1..Len(s) /\ s[k-1].mnemonic = "DEALLOCATE_STACK"

LEMMA SpliceKeepsEnds ==
  ASSUME NEW S, NEW s \in Seq(S), NEW n \in 1..Len(s), NEW t \in Seq(S), Len(t) >= 1,
         EndsFrame(s),
         \/ t = <<s[n]>>
         \/ s[n].mnemonic \notin Special /\ \A k \in 1..Len(t) : t[k].mnemonic \notin Special
  PROVE  EndsFrame(SubSeq(s, 1, n - 1) \o t \o SubSeq(s, n + 1, Len(s)))
<1> DEFINE r == SubSeq(s, 1, n - 1) \o t \o SubSeq(s, n + 1, Len(s))
           l == Len(t)
<1>1. /\ Len(r) = Len(s) + l - 1
      /\ \A k \in 1..Len(r) :
           r[k] = IF k < n THEN s[k]
                  ELSE IF k < n + l THEN t[k - n + 1] ELSE s[k - l + 1]
  BY SpliceElements
<1>2. l \in Nat /\ l >= 1 /\ Len(s) \in Nat /\ n \in Nat
  OBVIOUS
<1> HIDE DEF r
<1>3. CASE t = <<s[n]>>
  <2>1. l = 1 /\ t[1] = s[n]
    BY <1>3
  <2> HIDE DEF l
  <2>2. Len(r) = Len(s) /\ \A k \in 1..Len(s) : r[k] = s[k]
    BY <2>1, <1>1, <1>2
  <2>3. EndsFrame(r)
    BY <2>2 DEF EndsFrame
  <2> QED
    BY <2>3 DEF r
<1>4. CASE s[n].mnemonic \notin Special /\ \A k \in 1..l : t[k].mnemonic \notin Special
  <2> HIDE DEF l
  <2>1. ASSUME NEW k \in 1..Len(r), r[k].mnemonic = "RET"
        PROVE  k - 1 \in 1..Len(r) /\ r[k-1].mnemonic = "DEALLOCATE_STACK"
    <3>1. CASE k < n
      <4>1. r[k] = s[k] /\ k \in 1..Len(s)
        <5>1. r[k] = s[k]
          BY <3>1, <1>1, Zenon
        <5>2. k \in Nat /\ k >= 1 /\ n <= Len(s)
          BY <1>1, <1>2
        <5> QED
          BY <3>1, <5>1, <5>2, <1>2
      <4>2. k - 1 \in 1..Len(s) /\ s[k-1].mnemonic = "DEALLOCATE_STACK"
        BY <4>1, <2>1 DEF EndsFrame
      <4>3. k - 1 \in 1..Len(r) /\ r[k-1] = s[k-1]
        BY <3>1, <4>2, <1>1, <1>2
      <4> QED
        BY <4>2, <4>3
    <3>2. CASE k >= n /\ k < n + l
      <4>1. r[k] = t[k - n + 1] /\ k - n + 1 \in 1..l
        BY <3>2, <1>1, <1>2
      <4>2. r[k].mnemonic \notin Special
        BY <4>1, <1>4
      <4> QED
        BY <4>2, <2>1 DEF Special
    <3>3. CASE k >= n + l
      <4> DEFINE j == k - l + 1
      <4>1. r[k] = s[j] /\ j \in 1..Len(s) /\ j > n /\ j = k - l + 1
        BY <3>3, <1>1, <1>2
      <4> HIDE DEF j
      <4>2. j - 1 \in 1..Len(s) /\ s[j-1].mnemonic = "DEALLOCATE_STACK"
        BY <4>1, <2>1 DEF EndsFrame
      <4>3. j - 1 # n
        BY <4>2, <1>4 DEF Special, Framing
      <4>4. /\ k - 1 \in 1..Len(r) /\ ~(k - 1 < n) /\ ~(k - 1 < n + l)
            /\ (k - 1) - l + 1 = j - 1
        BY <4>1, <4>3, <1>1, <1>2
      <4>6. r[k-1] = s[(k-1) - l + 1]
        BY <4>4, <1>1, Zenon
      <4>5. r[k-1] = s[j-1]
        BY <4>4, <4>6
      <4> QED
        BY <4>2, <4>4, <4>5
    <3> QED
      BY <3>1, <3>2, <3>3, <1>2
  <2>2. EndsFrame(r)
    BY <2>1 DEF EndsFrame
  <2> QED
    BY <2>2 DEF r
<1> QED
  BY <1>3, <1>4

\* The frame is put around code whose only return is its last instruction.
LEMMA FrameEnds ==
  ASSUME NEW S, NEW s \in Seq(S), Len(s) >= 1, NEW first \in S, NEW last \in S,
         first.mnemonic # "RET", last.mnemonic = "DEALLOCATE_STACK",
         \A k \in 1..Len(s) : s[k].mnemonic = "RET" => k = Len(s)
  PROVE  EndsFrame(InsertAt(InsertAt(s, 1, first), Len(s) + 1, last))
<1> DEFINE r == InsertAt(InsertAt(s, 1, first), Len(s) + 1, last)
           n == Len(s)
<1>1. /\ Len(r) = n + 2
      /\ \A k \in 1..n+2 :
           r[k] = IF k = 1 THEN first
                  ELSE IF k <= n THEN s[k - 1]
                  ELSE IF k = n + 1 THEN last ELSE s[k - 2]
  BY FrameElements
<1>2. n \in Nat /\ n >= 1 /\ \A k \in 1..n : s[k].mnemonic = "RET" => k = n
  OBVIOUS
<1> HIDE DEF r, n
<1>3. ASSUME NEW k \in 1..n+2, r[k].mnemonic = "RET" PROVE k = n + 2
  <2>1. CASE k = 1
    BY <2>1, <1>1, <1>2, <1>3
  <2>2. CASE k # 1 /\ k <= n
    <3>1. r[k] = s[k - 1] /\ k - 1 \in 1..n /\ k - 1 # n
      BY <2>2, <1>1, <1>2
    <3> QED
      BY <3>1, <1>2, <1>3
  <2>3. CASE k # 1 /\ k = n + 1
    <3>1. r[k] = last
      BY <2>3, <1>1, <1>2
    <3> QED
      BY <3>1, <1>3
  <2> QED
    BY <2>1, <2>2, <2>3, <1>2
<1>4. r[n + 1] = last
  BY <1>1, <1>2
<1>5. EndsFrame(r)
  BY <1>1, <1>2, <1>3, <1>4 DEF EndsFrame
<1> QED
  BY <1>5 DEF r

EpilogueInv == (pass \in DOMAIN Rank /\ AllocAmount # 0) => EndsFrame(prog)

LEMMA FixRewrites ==
  ASSUME CodeInv, FixAddrAddr \/ FixImul \/ FixIdiv \/ FixShift \/ FixCmp
  PROVE  \E new \in Fixed :
           /\ i \in 1..Len(prog) /\ pass \in DOMAIN Rank
           /\ prog' = SubSeq(prog, 1, i - 1) \o new \o SubSeq(prog, i + 1, Len(prog))
           /\ UNCHANGED <<pass, nextOffset>>
           /\ \/ new = <<prog[i]>>
              \/ prog[i].mnemonic \notin Special
                   /\ \A k \in 1..Len(new) : new[k].mnemonic \notin Special
<1> DEFINE In(new) == prog' = SubSeq(prog, 1, i - 1) \o new \o SubSeq(prog, i + 1, Len(prog))
<1>1. /\ i \in 1..Len(prog) /\ pass \in {"addr_addr", "imul", "idiv", "shift", "cmp"}
      /\ UNCHANGED <<pass, nextOffset>>
  <2>1. /\ i <= Len(prog) /\ pass \in {"addr_addr", "imul", "idiv", "shift", "cmp"}
        /\ UNCHANGED <<pass, nextOffset>>
    BY Zenon DEF FixAddrAddr, FixImul, FixIdiv, FixShift, FixCmp, FixInstruction
  <2>2. prog \in Seq(Instructions) /\ i \in 1..Len(prog)+1
    BY DEF CodeInv, IInv, Typed
  <2>3. i \in 1..Len(prog)
    BY <2>1, <2>2
  <2> QED
    BY <2>1, <2>3
<1>2. pass \in DOMAIN Rank
  BY <1>1 DEF Rank
<1>3. Resolved(prog[i], offsetMap, Prologue) /\ Clean(Rank[pass], prog[i])
  BY <1>1, <1>2 DEF CodeInv, FramedCode
<1>4. \E new, n : In(new) /\ Rewrites(prog[i], new, n, offsetMap, Prologue)
  <2>1. CASE FixAddrAddr
    BY <2>1, <1>3, AddrAddrRewrites DEF FixAddrAddr, FixInstruction
  <2>2. CASE FixImul
    <3>1. Clean(2, prog[i]) /\ In(fix_invalid_imuls(prog[i]))
      BY <2>2, <1>3 DEF FixImul, FixInstruction, Rank
    <3> QED
      BY <3>1, <1>3, ImulRewrites
  <2>3. CASE FixIdiv
    <3>1. Clean(3, prog[i]) /\ In(fix_invalid_idivs(prog[i]))
      BY <2>3, <1>3 DEF FixIdiv, FixInstruction, Rank
    <3> QED
      BY <3>1, <1>3, IdivRewrites
  <2>4. CASE FixShift
    <3>1. Clean(4, prog[i]) /\ In(fix_invalid_shifts(prog[i]))
      BY <2>4, <1>3 DEF FixShift, FixInstruction, Rank
    <3> QED
      BY <3>1, <1>3, ShiftRewrites
  <2>5. CASE FixCmp
    <3>1. Clean(5, prog[i]) /\ In(fix_invalid_cmps(prog[i]))
      BY <2>5, <1>3 DEF FixCmp, FixInstruction, Rank
    <3> QED
      BY <3>1, <1>3, CmpRewrites
  <2> QED
    BY <2>1, <2>2, <2>3, <2>4, <2>5
<1>5. PICK new, n : In(new) /\ Rewrites(prog[i], new, n, offsetMap, Prologue)
  BY <1>4
<1>6. /\ new \in Fixed
      /\ \/ new = <<prog[i]>>
         \/ prog[i].mnemonic \notin Special
              /\ \A k \in 1..Len(new) : new[k].mnemonic \notin Special
  BY <1>5 DEF Rewrites
<1> QED
  BY <1>1, <1>2, <1>5, <1>6

\* Where the only return is the last instruction, the epilogue runs before it:
\* stackalloc puts it there, and no pass comes between the two.
THEOREM OneReturnEndsTheFrame ==
  ASSUME \A p \in Programs : \A k \in 1..Len(p) : p[k].mnemonic = "RET" => k = Len(p)
  PROVE  Spec => []EpilogueBeforeReturns
<1>1. Init => CodeInv /\ EpilogueInv
  BY CodeInitially, PassNames DEF Init, EpilogueInv, Unframed
<1>2. CodeInv /\ EpilogueInv /\ [Next]_vars => CodeInv' /\ EpilogueInv'
  <2> SUFFICES ASSUME CodeInv, EpilogueInv, [Next]_vars PROVE EpilogueInv'
    BY StepKeepsCode
  <2>1. CASE MapInstruction \/ MapOutOfBounds \/ MapDone
    BY <2>1, PassNames DEF MapInstruction, MapOutOfBounds, MapDone, EpilogueInv, Unframed
  <2>2. CASE StackAlloc
    <3> SUFFICES ASSUME AllocAmount # 0 PROVE EndsFrame(prog')
      BY <2>2 DEF StackAlloc, EpilogueInv, AllocAmount
    <3>1. prog' = InsertAt(InsertAt(prog, 1, Prologue), Len(prog) + 1, Epilogue)
      BY <2>2 DEF StackAlloc, Prologue, Epilogue
    <3>2. prog \in Seq(Instructions) /\ nextOffset \in Int /\ AllocAmount \in Int
      BY DEF CodeInv, IInv, Typed, Slots, AllocAmount
    <3>3. /\ Prologue \in Instructions /\ Prologue.mnemonic # "RET"
          /\ Epilogue \in Instructions /\ Epilogue.mnemonic = "DEALLOCATE_STACK"
      BY <3>2, FramingIsResolved DEF Prologue, Epilogue, Unary, NoOps
    <3>4. Len(prog) >= 1
      <4>1. Len(prog) = 0 => nextOffset = -4
        BY <2>2 DEF StackAlloc, CodeInv, MappedBefore, Unframed
      <4>2. nextOffset # -4
        BY <3>2 DEF AllocAmount
      <4> QED
        BY <4>1, <4>2, <3>2
    <3>5. \A k \in 1..Len(prog) : prog[k].mnemonic = "RET" => k = Len(prog)
      BY <2>2 DEF StackAlloc, CodeInv, StillSource, Unframed
    <3> QED
      BY <3>1, <3>2, <3>3, <3>4, <3>5, FrameEnds
  <2>3. CASE FixAddrAddr \/ FixImul \/ FixIdiv \/ FixShift \/ FixCmp
    <3>1. PICK new \in Fixed :
            /\ i \in 1..Len(prog) /\ pass \in DOMAIN Rank
            /\ prog' = SubSeq(prog, 1, i - 1) \o new \o SubSeq(prog, i + 1, Len(prog))
            /\ UNCHANGED <<pass, nextOffset>>
            /\ \/ new = <<prog[i]>>
               \/ prog[i].mnemonic \notin Special
                    /\ \A k \in 1..Len(new) : new[k].mnemonic \notin Special
      BY <2>3, FixRewrites
    <3>2. prog \in Seq(Instructions) /\ new \in Seq(Instructions) /\ Len(new) >= 1
      BY DEF CodeInv, IInv, Typed, Fixed
    <3>3. EndsFrame(prog) => EndsFrame(prog')
      BY <3>1, <3>2, SpliceKeepsEnds
    <3> QED
      BY <3>1, <3>3 DEF EpilogueInv, AllocAmount
  <2>4. CASE PassDone
    BY <2>4, PassNames DEF PassDone, EpilogueInv, EndsFrame, AllocAmount
  <2>5. CASE UNCHANGED vars
    BY <2>5 DEF vars, EpilogueInv, EndsFrame, AllocAmount
  <2> QED
    BY <2>1, <2>2, <2>3, <2>4, <2>5 DEF Next
<1>3. CodeInv /\ EpilogueInv => EpilogueBeforeReturns
  <2> SUFFICES ASSUME CodeInv, EpilogueInv, pass \in DOMAIN NextPass \cup {"done"}, FrameSize > 0,
                      NEW k \in DOMAIN prog, prog[k].mnemonic = "RET"
               PROVE  prog[k-1].mnemonic = "DEALLOCATE_STACK"
    BY DEF EpilogueBeforeReturns
  <2>1. pass \in DOMAIN Rank
    BY PassNames DEF Rank
  <2>2. prog \in Seq(Instructions) /\ k \in 1..Len(prog)
    BY DEF CodeInv, IInv, Typed
  <2>3. 1 \in 1..Len(prog)
    BY <2>2
  <2>4. Resolved(prog[1], offsetMap, Prologue)
    BY <2>1, <2>3 DEF CodeInv, FramedCode
  <2>5. prog[1].mnemonic = "ALLOCATE_STACK" => FrameSize = AllocAmount
    BY <2>4 DEF Resolved, FrameSize, Prologue, Unary, StackOp, Operand
  <2>6. AllocAmount # 0
    BY <2>5 DEF FrameSize
  <2> QED
    BY <2>1, <2>2, <2>6 DEF EpilogueInv, EndsFrame
<1> QED
  BY <1>1, <1>2, <1>3, PTL DEF Spec

-----------------------------------------------------------------------------
(* The assumption on Programs: what the generator makes. *)

ValueOps == {op \in Operands : op.type \in {"PSEUDO", "IMMEDIATE"}}

LEMMA SelectedForms ==
  ASSUME NEW d \in Operands, d.type \in {"PSEUDO", "REGISTER"}, NEW s \in Operands,
         s.type \in {"PSEUDO", "REGISTER", "IMMEDIATE"},
         d.type = "REGISTER" => d.value \in {AX, DX}, s.type = "REGISTER" => s.value \in {AX, DX}
  PROVE  /\ Binary("MOV", d, s) \in Selected
         /\ d.type = "PSEUDO" /\ s \in ValueOps =>
              \A mnem \in BinaryMnemonics \ {"MOV"} : Binary(mnem, d, s) \in Selected
         /\ d.type = "PSEUDO" => \A mnem \in UnaryMnemonics : Unary(mnem, d) \in Selected
<1>1. ZeroOp \in Operands /\ ZeroOp.type = "LABEL"
  BY DEF ZeroOp, Operand, Operands
<1>2. Binary("MOV", d, s) \in Selected
  <2>1. Binary("MOV", d, s) \in Instructions
    BY InstructionTypes DEF Mnemonics, BinaryMnemonics
  <2> QED
    BY <2>1 DEF Selected, Binary, BinaryMnemonics, UnaryMnemonics, SetMnemonics, JumpMnemonics
<1>3. ASSUME d.type = "PSEUDO", s \in ValueOps, NEW mnem \in BinaryMnemonics \ {"MOV"}
      PROVE  Binary(mnem, d, s) \in Selected
  <2>1. Binary(mnem, d, s) \in Instructions
    BY InstructionTypes DEF Mnemonics
  <2> QED
    BY <1>3, <2>1 DEF Selected, Binary, ValueOps, BinaryMnemonics, UnaryMnemonics, SetMnemonics, JumpMnemonics
<1>4. ASSUME d.type = "PSEUDO", NEW mnem \in UnaryMnemonics
      PROVE  Unary(mnem, d) \in Selected
  <2>1. Unary(mnem, d) \in Instructions
    BY InstructionTypes DEF Mnemonics
  <2> QED
    BY <1>1, <1>4, <2>1 DEF Selected, Unary, BinaryMnemonics, UnaryMnemonics, SetMnemonics, JumpMnemonics
<1> QED
  BY <1>2, <1>3, <1>4

LEMMA SelectedComparisons ==
  ASSUME NEW d \in ValueOps, NEW s \in ValueOps
  PROVE  Binary("CMP", d, s) \in Selected /\ Unary("IDIV", d) \in Selected
<1>1. ZeroOp \in Operands /\ ZeroOp.type = "LABEL"
  BY DEF ZeroOp, Operand, Operands
<1>2. Binary("CMP", d, s) \in Instructions /\ Unary("IDIV", d) \in Instructions
  BY InstructionTypes DEF Mnemonics, BinaryMnemonics, UnaryMnemonics, ValueOps
<1> QED
  BY <1>1, <1>2 DEF Selected, Binary, Unary, ValueOps, BinaryMnemonics, UnaryMnemonics,
                    SetMnemonics, JumpMnemonics

LEMMA SelectedJumps ==
  ASSUME NEW l \in LabelNames, l # NoLabel, NEW mnem \in JumpMnemonics \cup {"DEFINE_LABEL"}
  PROVE  Unary(mnem, LabelOp(l)) \in Selected
<1>1. ZeroOp \in Operands /\ ZeroOp.type = "LABEL"
  BY DEF ZeroOp, Operand, Operands
<1>2. LabelOp(l) \in Operands /\ LabelOp(l).type = "LABEL" /\ LabelOp(l).label = l
  BY DEF LabelOp, Operand, Operands
<1>4. Unary(mnem, LabelOp(l)) \in Instructions
  BY <1>1, <1>2, InstructionTypes DEF Mnemonics
<1> QED
  BY <1>1, <1>2, <1>4 DEF Selected, Unary, BinaryMnemonics, UnaryMnemonics, SetMnemonics,
                          JumpMnemonics

LEMMA SelectedPlain ==
  ASSUME NEW mnem \in {"RET", "CDQ"}
  PROVE  NoOps(mnem) \in Selected
<1>1. ZeroOp \in Operands /\ ZeroOp.type = "LABEL"
  BY DEF ZeroOp, Operand, Operands
<1>2. NoOps(mnem) \in Instructions
  BY <1>1, InstructionTypes DEF Mnemonics
<1> QED
  BY <1>1, <1>2 DEF Selected, NoOps, BinaryMnemonics, UnaryMnemonics, SetMnemonics, JumpMnemonics

\* Whatever the IR instruction, create_inst appends instructions of the forms
\* that register allocation is assumed to get.
THEOREM GeneratorSelects ==
  ASSUME NEW inst \in IRInstructions
  PROVE  create_inst(inst) \in Seq(Selected)
<1> DEFINE dest == Dest(inst)
           a    == Src1(inst)
           b    == Src2(inst)
<1>1. /\ inst.type \in IRTypes /\ inst.dest_id \in Int
      /\ inst.src1 \in IROperands /\ inst.src2 \in IROperands
  BY DEF IRInstructions
<1>2. inst.src1.value \in Int /\ inst.src2.value \in Int
  BY <1>1 DEF IROperands
<1>3. \A v \in Int : /\ PseudoOp(v) \in Operands /\ PseudoOp(v).type = "PSEUDO"
                     /\ PseudoOp(v) \in ValueOps /\ ImmOp(v) \in ValueOps
                     /\ ImmOp(v) \in Operands /\ ImmOp(v).type = "IMMEDIATE"
                     /\ RegOp(v) \in Operands /\ RegOp(v).type = "REGISTER" /\ RegOp(v).value = v
  BY DEF PseudoOp, ImmOp, RegOp, Operand, Operands, ValueOps
<1>4. /\ dest \in Operands /\ dest.type = "PSEUDO" /\ dest \in ValueOps
      /\ a \in ValueOps /\ b \in ValueOps /\ a \in Operands /\ b \in Operands
      /\ a.type \in {"PSEUDO", "IMMEDIATE"} /\ b.type \in {"PSEUDO", "IMMEDIATE"}
  BY <1>1, <1>2, <1>3 DEF Dest, Src1, Src2, x86_64_ir_operand
<1>5. AX \in Int /\ DX \in Int /\ 0 \in Int
  BY DEF AX, DX
<1> HIDE DEF dest, a, b
<1>6. CASE inst.type = "RETURN"
  <2>1. Binary("MOV", RegOp(AX), a) \in Selected /\ NoOps("RET") \in Selected
    BY <1>3, <1>4, <1>5, SelectedForms, SelectedPlain
  <2>2. create_inst(inst) = << Binary("MOV", RegOp(AX), a), NoOps("RET") >>
    <3>1. create_inst(inst) = handle_return(inst)
      BY <1>6, Zenon DEF create_inst, UnaryMnemonic, BinaryMnemonic, SetMnemonic, DivResult
    <3> QED
      BY <3>1 DEF handle_return, a
  <2> HIDE DEF Selected
  <2> QED
    BY <2>1, <2>2
<1>7. CASE inst.type \in DOMAIN UnaryMnemonic
  <2>1. inst.type # "RETURN" /\ UnaryMnemonic[inst.type] \in UnaryMnemonics
    BY <1>7 DEF UnaryMnemonic, UnaryMnemonics
  <2>2. create_inst(inst) = << Binary("MOV", dest, a), Unary(UnaryMnemonic[inst.type], dest) >>
    <3>1. create_inst(inst) = generic_unary(inst)
      BY <1>7, Zenon DEF create_inst, UnaryMnemonic, BinaryMnemonic, SetMnemonic, DivResult
    <3> QED
      BY <3>1 DEF generic_unary, dest, a
  <2>3. Binary("MOV", dest, a) \in Selected /\ Unary(UnaryMnemonic[inst.type], dest) \in Selected
    BY <1>4, <2>1, SelectedForms
  <2> QED
    BY <2>2, <2>3
<1>8. CASE inst.type \in DOMAIN BinaryMnemonic
  <2>1. BinaryMnemonic[inst.type] \in BinaryMnemonics \ {"MOV"}
    BY <1>8 DEF BinaryMnemonic, BinaryMnemonics
  <2>2. create_inst(inst) = << Binary("MOV", dest, a), Binary(BinaryMnemonic[inst.type], dest, b) >>
    <3>1. create_inst(inst) = generic_binary(inst)
      BY <1>8, Zenon DEF create_inst, UnaryMnemonic, BinaryMnemonic, SetMnemonic, DivResult
    <3> QED
      BY <3>1 DEF generic_binary, dest, a, b
  <2>3. Binary("MOV", dest, a) \in Selected /\ Binary(BinaryMnemonic[inst.type], dest, b) \in Selected
    BY <1>4, <2>1, SelectedForms
  <2> QED
    BY <2>2, <2>3
<1>9. CASE inst.type \in DOMAIN SetMnemonic
  <2> DEFINE c == IF inst.type = "LOGICAL_NOT" THEN ImmOp(0) ELSE b
  <2>1. SetMnemonic[inst.type] \in UnaryMnemonics
    BY <1>9 DEF SetMnemonic, SetMnemonics, UnaryMnemonics
  <2>2. c \in ValueOps
    BY <1>3, <1>4, <1>5
  <2>3. create_inst(inst) = << Binary("CMP", a, c), Binary("MOV", dest, ImmOp(0)),
                               Unary(SetMnemonic[inst.type], dest) >>
    <3>1. create_inst(inst) = generic_conditional(inst)
      BY <1>9, Zenon DEF create_inst, UnaryMnemonic, BinaryMnemonic, SetMnemonic, DivResult
    <3> QED
      BY <3>1 DEF generic_conditional, dest, a, b
  <2> HIDE DEF c
  <2>4. /\ Binary("CMP", a, c) \in Selected /\ Binary("MOV", dest, ImmOp(0)) \in Selected
        /\ Unary(SetMnemonic[inst.type], dest) \in Selected
    BY <1>3, <1>4, <1>5, <2>1, <2>2, SelectedForms, SelectedComparisons
  <2> QED
    BY <2>3, <2>4
<1>10. CASE inst.type = "COPY"
  <2> DEFINE p == PseudoOp(inst.src1.value)
  <2>1. create_inst(inst) = << Binary("MOV", p, b) >>
    <3>1. create_inst(inst) = generic_copy(inst)
      BY <1>10, Zenon DEF create_inst, UnaryMnemonic, BinaryMnemonic, SetMnemonic, DivResult
    <3> QED
      BY <3>1 DEF generic_copy, b
  <2>2. Binary("MOV", p, b) \in Selected
    BY <1>2, <1>3, <1>4, SelectedForms
  <2> QED
    BY <2>1, <2>2
<1>11. CASE inst.type \in DOMAIN DivResult
  <2>1. /\ RegOp(DivResult[inst.type]) \in Operands /\ RegOp(DivResult[inst.type]).type = "REGISTER"
        /\ RegOp(DivResult[inst.type]).value \in {AX, DX}
    BY <1>3, <1>5, <1>11 DEF DivResult
  <2>2. create_inst(inst) = << Binary("MOV", RegOp(AX), a), NoOps("CDQ"), Unary("IDIV", b),
                               Binary("MOV", dest, RegOp(DivResult[inst.type])) >>
    BY <1>11 DEF create_inst, generic_binary_div_rem, DivResult, SetMnemonic, BinaryMnemonic,
                 UnaryMnemonic, dest, a, b
  <2>3. /\ Binary("MOV", RegOp(AX), a) \in Selected /\ NoOps("CDQ") \in Selected
        /\ Unary("IDIV", b) \in Selected
        /\ Binary("MOV", dest, RegOp(DivResult[inst.type])) \in Selected
    BY <1>3, <1>4, <1>5, <2>1, SelectedForms, SelectedComparisons, SelectedPlain
  <2> QED
    BY <2>2, <2>3
<1>12. CASE inst.type \in {"LABEL", "JUMP"}
  <2> DEFINE x == Unary("DEFINE_LABEL", LabelOp(inst.src1.label))
             y == Unary("JMP", LabelOp(inst.src1.label))
  <2>1. inst.src1.label \in LabelNames /\ inst.src1.label # NoLabel
    BY <1>1, <1>12 DEF IRInstructions, IROperands
  <2>2. create_inst(inst) = <<x>> \/ create_inst(inst) = <<y>>
    BY <1>12 DEF create_inst, handle_label, generic_jump, DefineLabel, Jump, DivResult,
                 SetMnemonic, BinaryMnemonic, UnaryMnemonic
  <2>3. x \in Selected /\ y \in Selected
    BY <2>1, SelectedJumps DEF JumpMnemonics
  <2> HIDE DEF x, y
  <2>4. <<x>> \in Seq(Selected) /\ <<y>> \in Seq(Selected)
    BY <2>3
  <2> QED
    BY <2>2, <2>4
<1>13. CASE inst.type \in {"JUMP_ZERO", "JUMP_NOT_ZERO"}
  <2> DEFINE m == IF inst.type = "JUMP_ZERO" THEN "JE" ELSE "JNE"
             j == Unary(m, LabelOp(inst.src2.label))
  <2>1. inst.src2.label \in LabelNames /\ inst.src2.label # NoLabel
    BY <1>1, <1>13 DEF IRInstructions, IROperands
  <2>2. create_inst(inst) = << Binary("CMP", a, ImmOp(0)), j >>
    BY <1>13 DEF create_inst, generic_jump, Jump, DivResult, SetMnemonic, BinaryMnemonic,
                 UnaryMnemonic, a
  <2>3. m \in JumpMnemonics
    BY DEF JumpMnemonics
  <2> HIDE DEF m
  <2>4. Binary("CMP", a, ImmOp(0)) \in Selected /\ j \in Selected
    BY <1>3, <1>4, <1>5, <2>1, <2>3, SelectedComparisons, SelectedJumps
  <2> HIDE DEF j
  <2> QED
    BY <2>2, <2>4
<1>14. \/ inst.type \in {"RETURN", "COPY", "LABEL", "JUMP", "JUMP_ZERO", "JUMP_NOT_ZERO"}
       \/ inst.type \in DOMAIN UnaryMnemonic \/ inst.type \in DOMAIN BinaryMnemonic
       \/ inst.type \in DOMAIN SetMnemonic \/ inst.type \in DOMAIN DivResult
  BY <1>1 DEF IRTypes, ComputeTypes, UnaryMnemonic, BinaryMnemonic, SetMnemonic, DivResult
<1> QED
  BY <1>6, <1>7, <1>8, <1>9, <1>10, <1>11, <1>12, <1>13, <1>14

-----------------------------------------------------------------------------
(* Numbers *)

\* Some number of a set of numbers is the least.
LEMMA Least ==
  ASSUME NEW T, T \subseteq Nat, T # {}
  PROVE  \E x \in T : \A y \in T : x <= y
<1> DEFINE R == OpToRel(<, Nat)
<1>1. IsWellFoundedOn(R, Nat)
  BY NatLessThanWellFounded
<1>2. R = {ss \in Nat \X Nat : ss[1] < ss[2]}
  BY DEF OpToRel
<1> HIDE DEF R
<1>3. PICK x \in T : \A y \in T : ~(<<y, x>> \in R)
  BY <1>1, WFMin
<1>4. ASSUME NEW y \in T PROVE x <= y
  <2>1. <<y, x>> \in Nat \X Nat /\ <<y, x>>[1] = y /\ <<y, x>>[2] = x
    OBVIOUS
  <2>2. ~(<<y, x>>[1] < <<y, x>>[2])
    BY <2>1, <1>2, <1>3
  <2> QED
    BY <2>1, <2>2
<1> QED
  BY <1>4

\* Induction, for a set of numbers.
LEMMA SetInduction ==
  ASSUME NEW T, 0 \in T, \A n \in Nat : n \in T => n + 1 \in T
  PROVE  Nat \subseteq T
<1> SUFFICES ASSUME Nat \ T # {} PROVE FALSE
  OBVIOUS
<1>1. PICK x \in Nat \ T : \A y \in Nat \ T : x <= y
  BY Least
<1>2. x # 0 /\ x - 1 \in Nat
  BY <1>1
<1>3. x - 1 \in T
  BY <1>1, <1>2
<1> QED
  BY <1>2, <1>3

-----------------------------------------------------------------------------
(* The runs of the two machines *)

\* f lists the states of the processor before and after the first n of insts.
CpuStates(insts, junk, n, f) ==
  f = [k \in 0..n |-> IF k = 0 THEN CpuInit(junk) ELSE CpuStep(f[k - 1], insts[k])]

\* There is such a list,
LEMMA CpuStatesExist ==
  ASSUME NEW insts, NEW junk, NEW n \in Nat
  PROVE  \E f : CpuStates(insts, junk, n, f)
<1> DEFINE T == {m \in Nat : \E f : CpuStates(insts, junk, m, f)}
<1>1. 0 \in T
  <2> DEFINE f == [k \in 0..0 |-> CpuInit(junk)]
  <2>1. CpuStates(insts, junk, 0, f)
    BY DEF CpuStates
  <2> QED
    BY <2>1
<1>2. ASSUME NEW m \in Nat, m \in T PROVE m + 1 \in T
  <2>1. PICK f : CpuStates(insts, junk, m, f)
    BY <1>2
  <2> DEFINE g == [k \in 0..m+1 |-> IF k <= m THEN f[k] ELSE CpuStep(f[m], insts[m + 1])]
  <2>2. \A k \in 0..m : f[k] = IF k = 0 THEN CpuInit(junk) ELSE CpuStep(f[k - 1], insts[k])
    BY <2>1 DEF CpuStates
  <2>3. \A k \in 0..m+1 : g[k] = IF k = 0 THEN CpuInit(junk) ELSE CpuStep(g[k - 1], insts[k])
    <3> TAKE k \in 0..m+1
    <3>1. CASE k <= m
      <4>1. g[k] = f[k] /\ (k # 0 => k - 1 \in 0..m /\ k - 1 \in 0..m+1 /\ k - 1 <= m)
        BY <3>1
      <4>2. k # 0 => g[k - 1] = f[k - 1]
        BY <4>1
      <4>3. k \in 0..m
        BY <3>1
      <4> HIDE DEF g
      <4> QED
        BY <2>2, <4>1, <4>2, <4>3
    <3>2. CASE k = m + 1
      <4>1. k # 0 /\ k - 1 = m
        BY <3>2
      <4>2. g[k] = CpuStep(f[m], insts[m + 1]) /\ g[m] = f[m]
        BY <3>2
      <4> HIDE DEF g
      <4> QED
        BY <3>2, <4>1, <4>2
    <3> QED
      BY <3>1, <3>2
  <2>4. CpuStates(insts, junk, m + 1, g)
    <3>1. g = [k \in 0..m+1 |-> g[k]]
      OBVIOUS
    <3> HIDE DEF g
    <3> QED
      BY <2>3, <3>1 DEF CpuStates
  <2> QED
    BY <2>4
<1> HIDE DEF T
<1>3. Nat \subseteq T
  BY <1>1, <1>2, SetInduction
<1>4. n \in T
  BY <1>3
<1> QED
  BY <1>4 DEF T

\* and it begins the list of every longer sequence.
LEMMA CpuStatesAgree ==
  ASSUME NEW s, NEW t, NEW junk, NEW n \in Nat, NEW m \in Nat, n <= m, NEW f, NEW g,
         CpuStates(s, junk, n, f), CpuStates(t, junk, m, g), \A k \in 1..n : s[k] = t[k]
  PROVE  f[n] = g[n]
<1> DEFINE T == {k \in Nat : k <= n => f[k] = g[k]}
<1>1. \A k \in 0..n : f[k] = IF k = 0 THEN CpuInit(junk) ELSE CpuStep(f[k - 1], s[k])
  BY DEF CpuStates
<1>2. \A k \in 0..m : g[k] = IF k = 0 THEN CpuInit(junk) ELSE CpuStep(g[k - 1], t[k])
  BY DEF CpuStates
<1>3. 0 \in T
  BY <1>1, <1>2
<1>4. ASSUME NEW k \in Nat, k \in T PROVE k + 1 \in T
  <2> SUFFICES ASSUME k + 1 <= n PROVE f[k + 1] = g[k + 1]
    OBVIOUS
  <2>1. k + 1 \in 0..n /\ k + 1 \in 0..m /\ k + 1 \in 1..n /\ k + 1 # 0 /\ (k + 1) - 1 = k /\ k <= n
    OBVIOUS
  <2>2. f[k + 1] = CpuStep(f[k], s[k + 1])
    BY <1>1, <2>1
  <2>3. g[k + 1] = CpuStep(g[k], t[k + 1])
    BY <1>2, <2>1
  <2>4. f[k] = g[k]
    BY <1>4, <2>1
  <2> QED
    BY <2>1, <2>2, <2>3, <2>4
<1> HIDE DEF T
<1>5. Nat \subseteq T
  BY <1>3, <1>4, SetInduction
<1>6. n \in T
  BY <1>5
<1> QED
  BY <1>6 DEF T

\* The processor runs as its definition says.
LEMMA CpuRunStates ==
  ASSUME NEW insts, NEW junk, Len(insts) \in Nat
  PROVE  \E f : CpuStates(insts, junk, Len(insts), f) /\ CpuRun(insts, junk) = f[Len(insts)]
<1> DEFINE c == CHOOSE f : CpuStates(insts, junk, Len(insts), f)
<1>1. CpuStates(insts, junk, Len(insts), c)
  BY CpuStatesExist
<1>2. CpuRun(insts, junk) = c[Len(insts)]
  BY DEF CpuRun, CpuStates
<1> QED
  BY <1>1, <1>2

\* It begins in its initial state,
LEMMA CpuRunNothing == ASSUME NEW junk PROVE CpuRun(<<>>, junk) = CpuInit(junk)
<1>1. PICK n \in Nat : n = Len(<<>>) /\ n = 0
  OBVIOUS
<1>2. PICK f : CpuStates(<<>>, junk, n, f) /\ CpuRun(<<>>, junk) = f[n]
  BY <1>1, CpuRunStates
<1>3. f[0] = CpuInit(junk)
  BY <1>1, <1>2 DEF CpuStates
<1> QED
  BY <1>1, <1>2, <1>3

\* and what is appended is executed last.
LEMMA CpuRunAppended ==
  ASSUME NEW S, NEW insts \in Seq(S), NEW x \in S, NEW junk
  PROVE  CpuRun(Append(insts, x), junk) = CpuStep(CpuRun(insts, junk), x)
<1> DEFINE t == Append(insts, x)
<1>1. PICK n \in Nat : n = Len(insts)
  OBVIOUS
<1>2. Len(t) = n + 1 /\ t[n + 1] = x /\ \A k \in 1..n : t[k] = insts[k]
  BY <1>1
<1> HIDE DEF t
<1>3. PICK f : CpuStates(insts, junk, n, f) /\ CpuRun(insts, junk) = f[n]
  BY <1>1, CpuRunStates
<1>4. PICK g : CpuStates(t, junk, n + 1, g) /\ CpuRun(t, junk) = g[n + 1]
  <2>1. Len(t) \in Nat
    BY <1>2
  <2> QED
    BY <1>2, <2>1, CpuRunStates
<1>5. f[n] = g[n]
  <2>1. n + 1 \in Nat /\ n <= n + 1
    OBVIOUS
  <2> QED
    BY <1>2, <1>3, <1>4, <2>1, CpuStatesAgree
<1>6. g[n + 1] = CpuStep(g[n], t[n + 1])
  <2>1. n + 1 \in 0..n+1 /\ n + 1 # 0 /\ (n + 1) - 1 = n
    OBVIOUS
  <2>2. \A k \in 0..n+1 : g[k] = IF k = 0 THEN CpuInit(junk) ELSE CpuStep(g[k - 1], t[k])
    BY <1>4 DEF CpuStates
  <2> QED
    BY <2>1, <2>2
<1> QED
  BY <1>2, <1>3, <1>4, <1>5, <1>6 DEF t

\* f lists the states of the IR machine before and after the first n of insts.
IRStates(insts, junk, n, f) ==
  f = [k \in 0..n |-> IF k = 0 THEN MachineInit(junk) ELSE IRStep(f[k - 1], insts[k])]

\* There is such a list,
LEMMA IRStatesExist ==
  ASSUME NEW insts, NEW junk, NEW n \in Nat
  PROVE  \E f : IRStates(insts, junk, n, f)
<1> DEFINE T == {m \in Nat : \E f : IRStates(insts, junk, m, f)}
<1>1. 0 \in T
  <2> DEFINE f == [k \in 0..0 |-> MachineInit(junk)]
  <2>1. IRStates(insts, junk, 0, f)
    BY DEF IRStates
  <2> QED
    BY <2>1
<1>2. ASSUME NEW m \in Nat, m \in T PROVE m + 1 \in T
  <2>1. PICK f : IRStates(insts, junk, m, f)
    BY <1>2
  <2> DEFINE g == [k \in 0..m+1 |-> IF k <= m THEN f[k] ELSE IRStep(f[m], insts[m + 1])]
  <2>2. \A k \in 0..m : f[k] = IF k = 0 THEN MachineInit(junk) ELSE IRStep(f[k - 1], insts[k])
    BY <2>1 DEF IRStates
  <2>3. \A k \in 0..m+1 : g[k] = IF k = 0 THEN MachineInit(junk) ELSE IRStep(g[k - 1], insts[k])
    <3> TAKE k \in 0..m+1
    <3>1. CASE k <= m
      <4>1. g[k] = f[k] /\ (k # 0 => k - 1 \in 0..m /\ k - 1 \in 0..m+1 /\ k - 1 <= m)
        BY <3>1
      <4>2. k # 0 => g[k - 1] = f[k - 1]
        BY <4>1
      <4>3. k \in 0..m
        BY <3>1
      <4> HIDE DEF g
      <4> QED
        BY <2>2, <4>1, <4>2, <4>3
    <3>2. CASE k = m + 1
      <4>1. k # 0 /\ k - 1 = m
        BY <3>2
      <4>2. g[k] = IRStep(f[m], insts[m + 1]) /\ g[m] = f[m]
        BY <3>2
      <4> HIDE DEF g
      <4> QED
        BY <3>2, <4>1, <4>2
    <3> QED
      BY <3>1, <3>2
  <2>4. IRStates(insts, junk, m + 1, g)
    <3>1. g = [k \in 0..m+1 |-> g[k]]
      OBVIOUS
    <3> HIDE DEF g
    <3> QED
      BY <2>3, <3>1 DEF IRStates
  <2> QED
    BY <2>4
<1> HIDE DEF T
<1>3. Nat \subseteq T
  BY <1>1, <1>2, SetInduction
<1>4. n \in T
  BY <1>3
<1> QED
  BY <1>4 DEF T

\* and it begins the list of every longer sequence.
LEMMA IRStatesAgree ==
  ASSUME NEW s, NEW t, NEW junk, NEW n \in Nat, NEW m \in Nat, n <= m, NEW f, NEW g,
         IRStates(s, junk, n, f), IRStates(t, junk, m, g), \A k \in 1..n : s[k] = t[k]
  PROVE  f[n] = g[n]
<1> DEFINE T == {k \in Nat : k <= n => f[k] = g[k]}
<1>1. \A k \in 0..n : f[k] = IF k = 0 THEN MachineInit(junk) ELSE IRStep(f[k - 1], s[k])
  BY DEF IRStates
<1>2. \A k \in 0..m : g[k] = IF k = 0 THEN MachineInit(junk) ELSE IRStep(g[k - 1], t[k])
  BY DEF IRStates
<1>3. 0 \in T
  BY <1>1, <1>2
<1>4. ASSUME NEW k \in Nat, k \in T PROVE k + 1 \in T
  <2> SUFFICES ASSUME k + 1 <= n PROVE f[k + 1] = g[k + 1]
    OBVIOUS
  <2>1. k + 1 \in 0..n /\ k + 1 \in 0..m /\ k + 1 \in 1..n /\ k + 1 # 0 /\ (k + 1) - 1 = k /\ k <= n
    OBVIOUS
  <2>2. f[k + 1] = IRStep(f[k], s[k + 1])
    BY <1>1, <2>1
  <2>3. g[k + 1] = IRStep(g[k], t[k + 1])
    BY <1>2, <2>1
  <2>4. f[k] = g[k]
    BY <1>4, <2>1
  <2> QED
    BY <2>1, <2>2, <2>3, <2>4
<1> HIDE DEF T
<1>5. Nat \subseteq T
  BY <1>3, <1>4, SetInduction
<1>6. n \in T
  BY <1>5
<1> QED
  BY <1>6 DEF T

\* The IR machine runs as its definition says.
LEMMA IRRunStates ==
  ASSUME NEW insts, NEW junk, NEW n \in Nat
  PROVE  \E f : IRStates(insts, junk, n, f) /\ IRRun(insts, n, junk) = f[n]
<1> DEFINE c == CHOOSE f : IRStates(insts, junk, n, f)
<1>1. IRStates(insts, junk, n, c)
  BY IRStatesExist
<1>2. IRRun(insts, n, junk) = c[n]
  BY DEF IRRun, IRStates
<1> QED
  BY <1>1, <1>2

\* It begins in its initial state,
LEMMA IRRunNothing == ASSUME NEW insts, NEW junk PROVE IRRun(insts, 0, junk) = MachineInit(junk)
<1>1. PICK f : IRStates(insts, junk, 0, f) /\ IRRun(insts, 0, junk) = f[0]
  BY IRRunStates
<1> QED
  BY <1>1 DEF IRStates

\* and executes one instruction after the other.
LEMMA IRRunNext ==
  ASSUME NEW insts, NEW junk, NEW n \in Nat
  PROVE  IRRun(insts, n + 1, junk) = IRStep(IRRun(insts, n, junk), insts[n + 1])
<1>1. PICK f : IRStates(insts, junk, n, f) /\ IRRun(insts, n, junk) = f[n]
  BY IRRunStates
<1>2. n + 1 \in Nat /\ n <= n + 1
  OBVIOUS
<1>3. PICK g : IRStates(insts, junk, n + 1, g) /\ IRRun(insts, n + 1, junk) = g[n + 1]
  BY <1>2, IRRunStates
<1>4. f[n] = g[n]
  BY <1>1, <1>2, <1>3, IRStatesAgree
<1>5. g[n + 1] = IRStep(g[n], insts[n + 1])
  <2>1. n + 1 \in 0..n+1 /\ n + 1 # 0 /\ (n + 1) - 1 = n
    OBVIOUS
  <2>2. \A k \in 0..n+1 : g[k] = IF k = 0 THEN MachineInit(junk) ELSE IRStep(g[k - 1], insts[k])
    BY <1>3 DEF IRStates
  <2> QED
    BY <2>1, <2>2
<1> QED
  BY <1>1, <1>3, <1>4, <1>5

-----------------------------------------------------------------------------
(* The processor's steps, by what they write *)

\* m is a state of the processor, field by field.
IsCpu(m) ==
  m = [cells |-> m.cells, junk |-> m.junk, flags |-> m.flags, seek |-> m.seek, frame |-> m.frame,
       halted |-> m.halted, fault |-> m.fault, result |-> m.result]

\* w is m but for the flags, and for v in the cell at p.
Wrote(w, m, p, v) ==
  /\ IsCpu(w)
  /\ w.seek = m.seek /\ w.frame = m.frame
  /\ w.halted = m.halted /\ w.fault = m.fault /\ w.result = m.result
  /\ \A q : Cell(w, q) = IF q = p THEN v ELSE Cell(m, q)

\* Some cell has been written, and no flag touched,
LEMMA WriteWrites ==
  ASSUME NEW m, IsCpu(m), NEW op, NEW v
  PROVE  Wrote(WriteTo(m, op, v), m, Place(op), v) /\ WriteTo(m, op, v).flags = m.flags
<1> DEFINE p == Place(op)
           d == [c \in DOMAIN m.cells \cup {p} |-> IF c = p THEN v ELSE m.cells[c]]
           w == [cells |-> d, junk |-> m.junk, flags |-> m.flags, seek |-> m.seek, frame |-> m.frame,
                 halted |-> m.halted, fault |-> m.fault, result |-> m.result]
<1>1. WriteTo(m, op, v) = w
  BY DEF IsCpu, WriteTo
<1>2. /\ w.cells = d /\ w.junk = m.junk /\ w.flags = m.flags /\ w.seek = m.seek /\ w.frame = m.frame
      /\ w.halted = m.halted /\ w.fault = m.fault /\ w.result = m.result
  OBVIOUS
<1>3. DOMAIN d = DOMAIN m.cells \cup {p}
  OBVIOUS
<1>4. d[p] = v /\ \A c \in DOMAIN m.cells : c # p => d[c] = m.cells[c]
  OBVIOUS
<1>5. IsCpu(w)
  BY DEF IsCpu
<1> HIDE DEF d, w, p
<1>6. ASSUME NEW q PROVE Cell(w, q) = IF q = p THEN v ELSE Cell(m, q)
  <2>1. CASE q = p
    BY <1>2, <1>3, <1>4, <2>1 DEF Cell
  <2>2. CASE q # p
    BY <1>2, <1>3, <1>4, <2>2 DEF Cell
  <2> QED
    BY <2>1, <2>2
<1>7. Wrote(w, m, p, v)
  BY <1>2, <1>5, <1>6 DEF Wrote
<1> QED
  BY <1>1, <1>2, <1>7 DEF p

\* or the flags too.
LEMMA FlagsWritten ==
  ASSUME NEW w, NEW m, NEW p, NEW v, Wrote(w, m, p, v), NEW mnem
  PROVE  Wrote(SetFlags(w, mnem), m, p, v)
<1>1. CASE KeepsFlags(mnem)
  BY <1>1 DEF SetFlags
<1>2. CASE ~KeepsFlags(mnem)
  <2> DEFINE u == [cells |-> w.cells, junk |-> w.junk, flags |-> NoFlags, seek |-> w.seek, frame |-> w.frame,
                   halted |-> w.halted, fault |-> w.fault, result |-> w.result]
  <2>1. SetFlags(w, mnem) = u
    BY <1>2 DEF SetFlags, Wrote, IsCpu
  <2>2. /\ u.cells = w.cells /\ u.junk = w.junk /\ u.seek = w.seek /\ u.frame = w.frame
        /\ u.halted = w.halted /\ u.fault = w.fault /\ u.result = w.result /\ IsCpu(u)
    BY DEF IsCpu
  <2> HIDE DEF u
  <2>3. \A q : Cell(u, q) = Cell(w, q)
    BY <2>2 DEF Cell
  <2> QED
    BY <2>1, <2>2, <2>3 DEF Wrote
<1> QED
  BY <1>1, <1>2

\* The processor executes the next instruction.
Runs(m) == IsCpu(m) /\ m.halted = FALSE /\ m.seek = NoLabel

LEMMA Executes == ASSUME NEW m, Runs(m), NEW inst PROVE CpuStep(m, inst) = CpuExecute(m, inst)
BY DEF Runs, CpuStep

\* A mov.
LEMMA MovStep ==
  ASSUME NEW m, Runs(m), NEW d, NEW s
  PROVE  LET w == CpuStep(m, Binary("MOV", d, s))
         IN Wrote(w, m, Place(d), Read(m, s)) /\ w.flags = m.flags
<1> DEFINE inst == Binary("MOV", d, s)
<1>1. inst.mnemonic = "MOV" /\ inst.dst = d /\ inst.src = s
  BY DEF Binary
<1> HIDE DEF inst
<1>2. CpuExecute(m, inst) = SetFlags(WriteTo(m, d, Arithmetic("MOV", Read(m, d), Read(m, s))), "MOV")
  BY <1>1, Zenon DEF CpuExecute, SetMnemonics
<1>3. Arithmetic("MOV", Read(m, d), Read(m, s)) = Read(m, s)
  BY Zenon DEF Arithmetic
<1>4. \A u : SetFlags(u, "MOV") = u
  BY DEF SetFlags, KeepsFlags
<1>5. IsCpu(m)
  BY DEF Runs
<1> QED
  BY <1>1, <1>2, <1>3, <1>4, <1>5, Executes, WriteWrites DEF inst

\* An instruction with two operands.
LEMMA ArithmeticStep ==
  ASSUME NEW m, Runs(m), NEW d, NEW s, NEW mnem \in {"ADD", "SUB", "IMUL", "AND", "OR", "XOR", "SHL", "SAR"}
  PROVE  Wrote(CpuStep(m, Binary(mnem, d, s)), m, Place(d), Arithmetic(mnem, Read(m, d), Read(m, s)))
<1> DEFINE inst == Binary(mnem, d, s)
           v    == Arithmetic(mnem, Read(m, d), Read(m, s))
<1>1. inst.mnemonic = mnem /\ inst.dst = d /\ inst.src = s
  BY DEF Binary
<1> HIDE DEF inst
<1>2. CpuExecute(m, inst) = SetFlags(WriteTo(m, d, v), mnem)
  BY <1>1, Zenon DEF CpuExecute, SetMnemonics
<1>3. IsCpu(m)
  BY DEF Runs
<1> HIDE DEF v
<1>4. Wrote(WriteTo(m, d, v), m, Place(d), v)
  BY <1>3, WriteWrites
<1> QED
  BY <1>2, <1>4, Executes, FlagsWritten DEF inst, v

\* neg and not.
LEMMA NegStep ==
  ASSUME NEW m, Runs(m), NEW d
  PROVE  Wrote(CpuStep(m, Unary("NEG", d)), m, Place(d), Wrap(-Read(m, d)))
<1> DEFINE inst == Unary("NEG", d)
           v    == Wrap(-Read(m, d))
<1>1. inst.mnemonic = "NEG" /\ inst.dst = d
  BY DEF Unary
<1> HIDE DEF inst
<1>2. CpuExecute(m, inst) = SetFlags(WriteTo(m, d, v), "NEG")
  BY <1>1, Zenon DEF CpuExecute, SetMnemonics
<1>3. IsCpu(m)
  BY DEF Runs
<1> HIDE DEF v
<1>4. Wrote(WriteTo(m, d, v), m, Place(d), v)
  BY <1>3, WriteWrites
<1> QED
  BY <1>2, <1>4, Executes, FlagsWritten DEF inst, v

LEMMA NotStep ==
  ASSUME NEW m, Runs(m), NEW d
  PROVE  Wrote(CpuStep(m, Unary("NOT", d)), m, Place(d), BitNot(Read(m, d)))
<1> DEFINE inst == Unary("NOT", d)
           v    == BitNot(Read(m, d))
<1>1. inst.mnemonic = "NOT" /\ inst.dst = d
  BY DEF Unary
<1> HIDE DEF inst
<1>2. CpuExecute(m, inst) = WriteTo(m, d, v)
  BY <1>1, Zenon DEF CpuExecute, SetMnemonics
<1>3. IsCpu(m)
  BY DEF Runs
<1> HIDE DEF v
<1> QED
  BY <1>2, <1>3, WriteWrites, Executes DEF inst, v

\* A comparison leaves its operands in the flags.
LEMMA CmpStep ==
  ASSUME NEW m, Runs(m), NEW d, NEW s
  PROVE  LET w == CpuStep(m, Binary("CMP", d, s))
         IN /\ Runs(w) /\ w.frame = m.frame /\ w.fault = m.fault /\ w.result = m.result
            /\ w.flags = <<Read(m, d), Read(m, s)>>
            /\ \A q : Cell(w, q) = Cell(m, q)
<1> DEFINE inst == Binary("CMP", d, s)
           f == <<Read(m, d), Read(m, s)>>
           u == [cells |-> m.cells, junk |-> m.junk, flags |-> f, seek |-> m.seek, frame |-> m.frame,
                 halted |-> m.halted, fault |-> m.fault, result |-> m.result]
<1>1. inst.mnemonic = "CMP" /\ inst.dst = d /\ inst.src = s
  BY DEF Binary
<1> HIDE DEF inst
<1>2. CpuExecute(m, inst) = [m EXCEPT !.flags = f]
  BY <1>1, Zenon DEF CpuExecute, SetMnemonics
<1> HIDE DEF f
<1>3. [m EXCEPT !.flags = f] = u
  BY DEF Runs, IsCpu
<1>4. /\ u.cells = m.cells /\ u.junk = m.junk /\ u.seek = m.seek /\ u.frame = m.frame
      /\ u.halted = m.halted /\ u.fault = m.fault /\ u.result = m.result /\ u.flags = f /\ IsCpu(u)
  BY DEF IsCpu
<1> HIDE DEF u
<1>5. \A q : Cell(u, q) = Cell(m, q)
  BY <1>4 DEF Cell
<1>6. Runs(u)
  BY <1>4 DEF Runs
<1>7. CpuStep(m, inst) = u
  BY <1>2, <1>3, Executes
<1> QED
  BY <1>4, <1>5, <1>6, <1>7 DEF inst, f

\* A set writes the outcome of the last comparison to the low byte.
LEMMA SetStep ==
  ASSUME NEW m, Runs(m), m.flags # NoFlags, NEW d, NEW mnem \in SetMnemonics
  PROVE  Wrote(CpuStep(m, Unary(mnem, d)), m, Place(d), SetLowByte(Read(m, d), Truth(Holds(mnem, m.flags))))
<1> DEFINE inst == Unary(mnem, d)
           v    == SetLowByte(Read(m, d), Truth(Holds(mnem, m.flags)))
<1>1. inst.mnemonic = mnem /\ inst.dst = d
  BY DEF Unary
<1> HIDE DEF inst
<1>2. CpuExecute(m, inst) = WriteTo(m, d, v)
  BY <1>1, Zenon DEF CpuExecute, SetMnemonics
<1>3. IsCpu(m)
  BY DEF Runs
<1> HIDE DEF v
<1> QED
  BY <1>2, <1>3, WriteWrites, Executes DEF inst, v

\* A jump has the processor look for its label.
Seeks(w, m, l) ==
  /\ IsCpu(w)
  /\ w.seek = l /\ w.frame = m.frame
  /\ w.halted = m.halted /\ w.fault = m.fault /\ w.result = m.result
  /\ \A q : Cell(w, q) = Cell(m, q)

LEMMA SeekSeeks ==
  ASSUME NEW m, IsCpu(m), NEW l
  PROVE  Seeks([m EXCEPT !.seek = l], m, l)
<1> DEFINE u == [cells |-> m.cells, junk |-> m.junk, flags |-> m.flags, seek |-> l, frame |-> m.frame,
                 halted |-> m.halted, fault |-> m.fault, result |-> m.result]
<1>1. [m EXCEPT !.seek = l] = u
  BY DEF IsCpu
<1>2. /\ u.cells = m.cells /\ u.junk = m.junk /\ u.seek = l /\ u.frame = m.frame
      /\ u.halted = m.halted /\ u.fault = m.fault /\ u.result = m.result /\ IsCpu(u)
  BY DEF IsCpu
<1> HIDE DEF u
<1>3. \A q : Cell(u, q) = Cell(m, q)
  BY <1>2 DEF Cell
<1> QED
  BY <1>1, <1>2, <1>3 DEF Seeks

LEMMA JmpStep ==
  ASSUME NEW m, Runs(m), NEW l
  PROVE  Seeks(CpuStep(m, Jump("JMP", l)), m, l)
<1> DEFINE inst == Jump("JMP", l)
<1>1. inst.mnemonic = "JMP" /\ inst.dst.label = l
  BY DEF Jump, Unary, LabelOp, Operand
<1> HIDE DEF inst
<1>2. CpuExecute(m, inst) = [m EXCEPT !.seek = l]
  BY <1>1, Zenon DEF CpuExecute, SetMnemonics
<1>3. IsCpu(m)
  BY DEF Runs
<1> QED
  BY <1>2, <1>3, SeekSeeks, Executes DEF inst

\* A conditional jump, if the last comparison says so.
LEMMA ConditionalStep ==
  ASSUME NEW m, Runs(m), m.flags # NoFlags, NEW l, NEW mnem \in {"JE", "JNE"}
  PROVE  LET w == CpuStep(m, Jump(mnem, l))
         IN IF Holds(mnem, m.flags) THEN Seeks(w, m, l) ELSE w = m
<1> DEFINE inst == Jump(mnem, l)
<1>1. inst.mnemonic = mnem /\ inst.dst.label = l
  BY DEF Jump, Unary, LabelOp, Operand
<1> HIDE DEF inst
<1>2. CpuExecute(m, inst) = IF Holds(mnem, m.flags) THEN [m EXCEPT !.seek = l] ELSE m
  BY <1>1, Zenon DEF CpuExecute, SetMnemonics
<1>3. IsCpu(m)
  BY DEF Runs
<1>4. CpuStep(m, inst) = CpuExecute(m, inst)
  BY Executes
<1>5. CASE Holds(mnem, m.flags)
  BY <1>2, <1>3, <1>4, <1>5, SeekSeeks DEF inst
<1>6. CASE ~Holds(mnem, m.flags)
  BY <1>2, <1>4, <1>6 DEF inst
<1> QED
  BY <1>5, <1>6

\* While it looks for another label, or has stopped, the processor does nothing.
LEMMA SkipStep ==
  ASSUME NEW m, NEW inst, \/ m.halted = TRUE
                          \/ m.seek # NoLabel /\ inst.mnemonic # "DEFINE_LABEL"
  PROVE  CpuStep(m, inst) = m
BY DEF CpuStep

\* A label is passed; the one that is looked for ends the search.
LEMMA LabelStep ==
  ASSUME NEW m, IsCpu(m), m.halted = FALSE, NEW l
  PROVE  LET w == CpuStep(m, DefineLabel(l))
         IN IF m.seek = l THEN Seeks(w, m, NoLabel) ELSE w = m
<1> DEFINE inst == DefineLabel(l)
<1>1. inst.mnemonic = "DEFINE_LABEL" /\ inst.dst.label = l
  BY DEF DefineLabel, Unary, LabelOp, Operand
<1> HIDE DEF inst
<1>2. CpuExecute(m, inst) = m
  BY <1>1, Zenon DEF CpuExecute, SetMnemonics
<1>3. CASE m.seek = NoLabel
  <2>1. CpuStep(m, inst) = m
    BY <1>2, <1>3 DEF CpuStep
  <2>2. Seeks(m, m, m.seek)
    BY DEF Seeks
  <2> QED
    BY <1>3, <2>1, <2>2 DEF inst
<1>4. CASE m.seek # NoLabel /\ m.seek = l
  <2>1. CpuStep(m, inst) = [m EXCEPT !.seek = NoLabel]
    BY <1>1, <1>4 DEF CpuStep
  <2> QED
    BY <1>4, <2>1, SeekSeeks DEF inst
<1>5. CASE m.seek # NoLabel /\ m.seek # l
  <2>1. CpuStep(m, inst) = m
    BY <1>1, <1>5 DEF CpuStep
  <2> QED
    BY <1>5, <2>1 DEF inst
<1> QED
  BY <1>3, <1>4, <1>5

\* cdq spreads the sign of eax.
LEMMA CdqStep ==
  ASSUME NEW m, Runs(m)
  PROVE  Wrote(CpuStep(m, NoOps("CDQ")), m, Place(RegOp(DX)),
               IF Cell(m, <<"REGISTER", AX>>) < 0 THEN -1 ELSE 0)
<1> DEFINE inst == NoOps("CDQ")
           v    == IF Cell(m, <<"REGISTER", AX>>) < 0 THEN -1 ELSE 0
<1>1. inst.mnemonic = "CDQ"
  BY DEF NoOps
<1> HIDE DEF inst
<1>2. CpuExecute(m, inst) = WriteTo(m, RegOp(DX), v)
  BY <1>1, Zenon DEF CpuExecute, SetMnemonics
<1>3. IsCpu(m)
  BY DEF Runs
<1> HIDE DEF v
<1> QED
  BY <1>2, <1>3, WriteWrites, Executes DEF inst, v

\* Two fields of a record.
LEMMA TwoFields ==
  ASSUME NEW m, IsCpu(m), NEW h, NEW x
  PROVE  [m EXCEPT !.halted = h, !.fault = x] =
           [cells |-> m.cells, junk |-> m.junk, flags |-> m.flags, seek |-> m.seek, frame |-> m.frame,
            halted |-> h, fault |-> x, result |-> m.result]
<1>1. DOMAIN m = {"cells", "junk", "flags", "seek", "frame", "halted", "fault", "result"}
  BY DEF IsCpu
<1>2. [m EXCEPT !.halted = h, !.fault = x] =
        [c \in DOMAIN m |-> IF c = "fault" THEN x ELSE IF c = "halted" THEN h ELSE m[c]]
  BY <1>1
<1> QED
  BY <1>1, <1>2

\* A crash stops the processor and no more.
LEMMA CrashStops ==
  ASSUME NEW m, IsCpu(m)
  PROVE  /\ IsCpu(Crash(m)) /\ Crash(m).seek = m.seek /\ Crash(m).frame = m.frame
         /\ Crash(m).halted = TRUE /\ Crash(m).fault = TRUE /\ Crash(m).result = m.result
         /\ \A q : Cell(Crash(m), q) = Cell(m, q)
<1>0. PICK t : t = TRUE
  OBVIOUS
<1> DEFINE u == [cells |-> m.cells, junk |-> m.junk, flags |-> m.flags, seek |-> m.seek, frame |-> m.frame,
                 halted |-> t, fault |-> t, result |-> m.result]
<1>1. Crash(m) = u
  BY <1>0, TwoFields DEF Crash
<1>2. /\ u.cells = m.cells /\ u.junk = m.junk /\ u.seek = m.seek /\ u.frame = m.frame
      /\ u.halted = t /\ u.fault = t /\ u.result = m.result /\ IsCpu(u)
  BY DEF IsCpu
<1> HIDE DEF u
<1>3. \A q : Cell(u, q) = Cell(m, q)
  BY <1>2 DEF Cell
<1> QED
  BY <1>0, <1>1, <1>2, <1>3

\* idiv divides what eax holds, or faults.
LEMMA IdivStep ==
  ASSUME NEW m, Runs(m), NEW d, NEW a, NEW b, a = Cell(m, <<"REGISTER", AX>>), b = Read(m, d),
         Cell(m, <<"REGISTER", DX>>) = (IF a < 0 THEN -1 ELSE 0)
  PROVE  LET w == CpuStep(m, Unary("IDIV", d))
         IN IF DivFaults(a, b)
            THEN /\ IsCpu(w) /\ w.seek = m.seek /\ w.frame = m.frame
                 /\ w.halted = TRUE /\ w.fault = TRUE /\ w.result = m.result
                 /\ \A q : Cell(w, q) = Cell(m, q)
            ELSE \E u : /\ Wrote(u, m, <<"REGISTER", AX>>, TruncDiv(a, b))
                        /\ Wrote(w, u, <<"REGISTER", DX>>, TruncRem(a, b))
<1> DEFINE inst == Unary("IDIV", d)
<1>1. inst.mnemonic = "IDIV" /\ inst.dst = d
  BY DEF Unary
<1> HIDE DEF inst
<1>2. CpuStep(m, inst) = SetFlags(Divide(m, inst), "IDIV")
  <2>1. CpuExecute(m, inst) = SetFlags(Divide(m, inst), "IDIV")
    BY <1>1, Zenon DEF CpuExecute, SetMnemonics
  <2> QED
    BY <2>1, Executes
<1>3. IsCpu(m)
  BY DEF Runs
<1>4. CASE DivFaults(a, b)
  <2>1. Divide(m, inst) = Crash(m)
    BY <1>1, <1>4 DEF Divide
  <2> DEFINE c == Crash(m)
             w == SetFlags(c, "IDIV")
             p == <<"REGISTER", AX>>
  <2>2. /\ IsCpu(c) /\ c.seek = m.seek /\ c.frame = m.frame
        /\ c.halted = TRUE /\ c.fault = TRUE /\ c.result = m.result /\ \A q : Cell(c, q) = Cell(m, q)
    BY <1>3, CrashStops
  <2> HIDE DEF c
  <2>3. Wrote(c, c, p, Cell(c, p))
    BY <2>2 DEF Wrote
  <2>4. Wrote(w, c, p, Cell(c, p))
    BY <2>3, FlagsWritten
  <2>5. CpuStep(m, inst) = w
    BY <1>2, <2>1 DEF c
  <2> HIDE DEF w, p
  <2>6. \A q : Cell(w, q) = Cell(c, q)
    BY <2>4 DEF Wrote
  <2>7. IsCpu(w) /\ w.seek = c.seek /\ w.frame = c.frame /\ w.halted = c.halted /\ w.fault = c.fault /\ w.result = c.result
    BY <2>4 DEF Wrote
  <2> QED
    BY <1>4, <2>2, <2>5, <2>6, <2>7 DEF inst
<1>5. CASE ~DivFaults(a, b)
  <2> DEFINE u == WriteTo(m, RegOp(AX), TruncDiv(a, b))
             v == WriteTo(u, RegOp(DX), TruncRem(a, b))
  <2>1. Divide(m, inst) = v
    BY <1>1, <1>5 DEF Divide
  <2>2. Place(RegOp(AX)) = <<"REGISTER", AX>> /\ Place(RegOp(DX)) = <<"REGISTER", DX>>
    BY DEF Place, RegOp, Operand
  <2>3. Wrote(u, m, <<"REGISTER", AX>>, TruncDiv(a, b))
    BY <1>3, <2>2, WriteWrites
  <2> HIDE DEF u
  <2>4. Wrote(v, u, <<"REGISTER", DX>>, TruncRem(a, b))
    <3>1. IsCpu(u)
      BY <2>3 DEF Wrote
    <3> QED
      BY <2>2, <3>1, WriteWrites
  <2> HIDE DEF v
  <2>5. Wrote(SetFlags(v, "IDIV"), u, <<"REGISTER", DX>>, TruncRem(a, b))
    BY <2>4, FlagsWritten
  <2>6. CpuStep(m, inst) = SetFlags(v, "IDIV")
    BY <1>2, <2>1
  <2> QED
    BY <1>5, <2>3, <2>5, <2>6 DEF inst
<1> QED
  BY <1>4, <1>5

\* ret returns what eax holds, if no frame is on the stack.
LEMMA RetStep ==
  ASSUME NEW m, Runs(m), m.frame = <<>>
  PROVE  LET w == CpuStep(m, NoOps("RET"))
         IN /\ IsCpu(w) /\ w.seek = m.seek /\ w.frame = m.frame
            /\ w.halted = TRUE /\ w.fault = m.fault /\ w.result = Cell(m, <<"REGISTER", AX>>)
            /\ \A q : Cell(w, q) = Cell(m, q)
<1> DEFINE inst == NoOps("RET")
           r    == Cell(m, <<"REGISTER", AX>>)
<1>0. PICK t : t = TRUE
  OBVIOUS
<1> DEFINE u == [cells |-> m.cells, junk |-> m.junk, flags |-> m.flags, seek |-> m.seek, frame |-> m.frame,
                 halted |-> t, fault |-> m.fault, result |-> r]
<1>1. inst.mnemonic = "RET"
  BY DEF NoOps
<1> HIDE DEF inst
<1>2. CpuExecute(m, inst) = [m EXCEPT !.halted = TRUE, !.result = r]
  <2>1. CpuExecute(m, inst) = IF m.frame # <<>> THEN Crash(m)
                              ELSE [m EXCEPT !.halted = TRUE, !.result = r]
    BY <1>1, Zenon DEF CpuExecute, SetMnemonics
  <2> QED
    BY <2>1
<1> HIDE DEF r
<1>3. [m EXCEPT !.halted = t, !.result = r] = u
  <2>1. DOMAIN m = {"cells", "junk", "flags", "seek", "frame", "halted", "fault", "result"}
    BY DEF Runs, IsCpu
  <2>2. [m EXCEPT !.halted = t, !.result = r] =
          [c \in DOMAIN m |-> IF c = "result" THEN r ELSE IF c = "halted" THEN t ELSE m[c]]
    BY <2>1
  <2> QED
    BY <2>1, <2>2
<1>4. /\ u.cells = m.cells /\ u.junk = m.junk /\ u.seek = m.seek /\ u.frame = m.frame
      /\ u.halted = t /\ u.fault = m.fault /\ u.result = r /\ IsCpu(u)
  BY DEF IsCpu
<1> HIDE DEF u
<1>5. \A q : Cell(u, q) = Cell(m, q)
  BY <1>4 DEF Cell
<1>6. CpuStep(m, inst) = u
  BY <1>0, <1>2, <1>3, Executes
<1> QED
  BY <1>0, <1>4, <1>5, <1>6 DEF inst, r

-----------------------------------------------------------------------------
(* The IR machine's steps *)

\* m is a state of the IR machine, field by field.
IsIR(m) ==
  m = [temps |-> m.temps, junk |-> m.junk, seek |-> m.seek, halted |-> m.halted, result |-> m.result,
       fault |-> m.fault]

\* w is m but for v in the temporary t.
Assigned(w, m, t, v) ==
  /\ IsIR(w)
  /\ w.seek = m.seek /\ w.halted = m.halted /\ w.fault = m.fault /\ w.result = m.result
  /\ \A s : TempValue(w, s) = IF s = t THEN v ELSE TempValue(m, s)

LEMMA SetTempAssigns ==
  ASSUME NEW m, IsIR(m), NEW t, NEW v
  PROVE  Assigned(SetTemp(m, t, v), m, t, v)
<1> DEFINE d == [x \in DOMAIN m.temps \cup {t} |-> IF x = t THEN v ELSE m.temps[x]]
           w == [temps |-> d, junk |-> m.junk, seek |-> m.seek, halted |-> m.halted, result |-> m.result,
                 fault |-> m.fault]
<1>1. SetTemp(m, t, v) = w
  BY DEF IsIR, SetTemp
<1>2. /\ w.temps = d /\ w.junk = m.junk /\ w.seek = m.seek
      /\ w.halted = m.halted /\ w.fault = m.fault /\ w.result = m.result /\ IsIR(w)
  BY DEF IsIR
<1>3. DOMAIN d = DOMAIN m.temps \cup {t}
  OBVIOUS
<1>4. d[t] = v /\ \A x \in DOMAIN m.temps : x # t => d[x] = m.temps[x]
  OBVIOUS
<1> HIDE DEF d, w
<1>5. ASSUME NEW s PROVE TempValue(w, s) = IF s = t THEN v ELSE TempValue(m, s)
  <2>1. CASE s = t
    BY <1>2, <1>3, <1>4, <2>1 DEF TempValue
  <2>2. CASE s # t
    BY <1>2, <1>3, <1>4, <2>2 DEF TempValue
  <2> QED
    BY <2>1, <2>2
<1> QED
  BY <1>1, <1>2, <1>5 DEF Assigned

\* The IR machine executes the next instruction.
IRRuns(m) == IsIR(m) /\ m.halted = FALSE /\ m.seek = NoLabel

LEMMA IRExecutes == ASSUME NEW m, IRRuns(m), NEW inst PROVE IRStep(m, inst) = IRExecute(m, inst)
BY DEF IRRuns, IRStep

\* A jump has the machine look for a label.
IRSeeks(w, m, l) ==
  /\ IsIR(w)
  /\ w.seek = l /\ w.halted = m.halted /\ w.fault = m.fault /\ w.result = m.result
  /\ \A s : TempValue(w, s) = TempValue(m, s)

LEMMA IRSeekSeeks ==
  ASSUME NEW m, IsIR(m), NEW l
  PROVE  IRSeeks([m EXCEPT !.seek = l], m, l)
<1> DEFINE u == [temps |-> m.temps, junk |-> m.junk, seek |-> l, halted |-> m.halted, result |-> m.result,
                 fault |-> m.fault]
<1>1. [m EXCEPT !.seek = l] = u
  BY DEF IsIR
<1>2. /\ u.temps = m.temps /\ u.junk = m.junk /\ u.seek = l
      /\ u.halted = m.halted /\ u.fault = m.fault /\ u.result = m.result /\ IsIR(u)
  BY DEF IsIR
<1> HIDE DEF u
<1>3. \A s : TempValue(u, s) = TempValue(m, s)
  BY <1>2 DEF TempValue
<1> QED
  BY <1>1, <1>2, <1>3 DEF IRSeeks

\* The machine stops, with a result or with a fault.
IRStops(w, m) ==
  /\ IsIR(w) /\ w.seek = m.seek /\ w.halted = TRUE
  /\ \A s : TempValue(w, s) = TempValue(m, s)

LEMMA IRReturns ==
  ASSUME NEW m, IRRuns(m), NEW inst, inst.type = "RETURN"
  PROVE  LET w == IRStep(m, inst)
         IN IRStops(w, m) /\ w.fault = m.fault /\ w.result = OpValue(m, inst.src1)
<1>0. PICK t : t = TRUE
  OBVIOUS
<1> DEFINE r == OpValue(m, inst.src1)
           u == [temps |-> m.temps, junk |-> m.junk, seek |-> m.seek, halted |-> t, result |-> r,
                 fault |-> m.fault]
<1>1. IRExecute(m, inst) = [m EXCEPT !.halted = TRUE, !.result = r]
  BY Zenon DEF IRExecute, IRDivides
<1> HIDE DEF r
<1>2. [m EXCEPT !.halted = t, !.result = r] = u
  <2>1. DOMAIN m = {"temps", "junk", "seek", "halted", "result", "fault"}
    BY DEF IRRuns, IsIR
  <2>2. [m EXCEPT !.halted = t, !.result = r] =
          [c \in DOMAIN m |-> IF c = "result" THEN r ELSE IF c = "halted" THEN t ELSE m[c]]
    BY <2>1
  <2> QED
    BY <2>1, <2>2
<1>3. /\ u.temps = m.temps /\ u.junk = m.junk /\ u.seek = m.seek
      /\ u.halted = t /\ u.fault = m.fault /\ u.result = r /\ IsIR(u)
  BY DEF IsIR
<1> HIDE DEF u
<1>4. \A s : TempValue(u, s) = TempValue(m, s)
  BY <1>3 DEF TempValue
<1>5. IRStep(m, inst) = u
  BY <1>0, <1>1, <1>2, IRExecutes
<1> QED
  BY <1>0, <1>3, <1>4, <1>5 DEF IRStops, r

LEMMA IRFaults ==
  ASSUME NEW m, IRRuns(m)
  PROVE  LET w == [m EXCEPT !.halted = TRUE, !.fault = TRUE]
         IN IRStops(w, m) /\ w.fault = TRUE /\ w.result = m.result
<1>0. PICK t : t = TRUE
  OBVIOUS
<1> DEFINE u == [temps |-> m.temps, junk |-> m.junk, seek |-> m.seek, halted |-> t, result |-> m.result,
                 fault |-> t]
<1>2. [m EXCEPT !.halted = t, !.fault = t] = u
  <2>1. DOMAIN m = {"temps", "junk", "seek", "halted", "result", "fault"}
    BY DEF IRRuns, IsIR
  <2>2. [m EXCEPT !.halted = t, !.fault = t] =
          [c \in DOMAIN m |-> IF c = "fault" THEN t ELSE IF c = "halted" THEN t ELSE m[c]]
    BY <2>1
  <2> QED
    BY <2>1, <2>2
<1>3. /\ u.temps = m.temps /\ u.junk = m.junk /\ u.seek = m.seek
      /\ u.halted = t /\ u.fault = t /\ u.result = m.result /\ IsIR(u)
  BY DEF IsIR
<1> HIDE DEF u
<1>4. \A s : TempValue(u, s) = TempValue(m, s)
  BY <1>3 DEF TempValue
<1> QED
  BY <1>0, <1>2, <1>3, <1>4 DEF IRStops

-----------------------------------------------------------------------------
(* The simulation *)

\* The processor does what the IR machine does, on pseudo registers that hold
\* what the temporaries hold.
Simulates(c, m) ==
  /\ IsCpu(c) /\ IsIR(m)
  /\ c.seek = m.seek /\ c.fault = m.fault /\ c.result = m.result
  /\ c.halted = m.halted /\ m.halted \in BOOLEAN
  /\ c.frame = <<>>
  /\ \A t : Cell(c, <<"PSEUDO", t>>) = TempValue(m, t)

IsCode(p) == \E S : p \in Seq(S)

\* A sequence behind another one, one by one.
LEMMA Behind ==
  ASSUME NEW p, IsCode(p), NEW x
  PROVE  IsCode(<<x>>) /\ IsCode(p \o <<x>>) /\ p \o <<x>> = Append(p, x)
<1>1. PICK S : p \in Seq(S)
  BY DEF IsCode
<1> DEFINE U == S \cup {x}
<1>2. p \in Seq(U) /\ <<x>> \in Seq(U) /\ x \in U
  BY <1>1
<1> HIDE DEF U
<1>3. p \o <<x>> \in Seq(U) /\ p \o <<x>> = Append(p, x)
  BY <1>2
<1> QED
  BY <1>2, <1>3 DEF IsCode

LEMMA Whole ==
  ASSUME NEW p, IsCode(p), NEW q, IsCode(q)
  PROVE  IsCode(p \o q)
<1>1. PICK S : p \in Seq(S)
  BY DEF IsCode
<1>2. PICK T : q \in Seq(T)
  BY DEF IsCode
<1> DEFINE V == S \cup T
<1>3. p \in Seq(V) /\ q \in Seq(V)
  BY <1>1, <1>2
<1> HIDE DEF V
<1>4. p \o q \in Seq(V)
  BY <1>3
<1> QED
  BY <1>4 DEF IsCode

LEMMA Apart ==
  ASSUME NEW p, IsCode(p), NEW o, IsCode(o), NEW q, IsCode(q)
  PROVE  p \o (o \o q) = (p \o o) \o q
<1>1. PICK S : p \in Seq(S)
  BY DEF IsCode
<1>2. PICK T : q \in Seq(T)
  BY DEF IsCode
<1>3. PICK R : o \in Seq(R)
  BY DEF IsCode
<1> DEFINE V == S \cup T \cup R
<1>4. p \in Seq(V) /\ o \in Seq(V) /\ q \in Seq(V)
  BY <1>1, <1>2, <1>3
<1> HIDE DEF V
<1> QED
  BY <1>4, ConcatAssociative

\* An instruction before others.
LEMMA Prefixed ==
  ASSUME NEW S, NEW x \in S, NEW q \in Seq(S), NEW r \in Seq(S), Len(r) = 1 + Len(q), r[1] = x,
         \A k \in 1..Len(q) : r[k + 1] = q[k]
  PROVE  <<x>> \o q = r
<1> DEFINE a == <<x>>
<1>0. a \in Seq(S) /\ Len(a) = 1 /\ a[1] = x
  OBVIOUS
<1> HIDE DEF a
<1>1. a \o q \in Seq(S) /\ Len(a \o q) = Len(r)
  <2>1. a \o q \in Seq(S) /\ Len(a \o q) = Len(a) + Len(q)
    BY <1>0, Concatenation
  <2> QED
    BY <1>0, <2>1
<1>2. \A k \in 1..Len(a)+Len(q) : (a \o q)[k] = IF k <= Len(a) THEN a[k] ELSE q[k - Len(a)]
  BY <1>0, ConcatenationElements
<1>3. ASSUME NEW k \in 1..Len(r) PROVE (a \o q)[k] = r[k]
  <2>1. CASE k = 1
    BY <1>0, <1>2, <2>1
  <2>2. CASE k # 1
    <3>1. k - 1 \in 1..Len(q) /\ (k - 1) + 1 = k
      BY <2>2
    <3>2. ~(k <= Len(a)) /\ k \in 1..Len(a)+Len(q) /\ k - Len(a) = k - 1
      BY <1>0, <2>2
    <3>3. (a \o q)[k] = q[k - 1]
      BY <1>2, <3>2
    <3> QED
      BY <3>1, <3>3
  <2> QED
    BY <2>1, <2>2
<1> QED
  BY <1>1, <1>3, SeqEqual DEF a

LEMMA ConsTwo == ASSUME NEW x, NEW y PROVE <<x>> \o <<y>> = <<x, y>>
<1> DEFINE S == {x, y}
           q == <<y>>
           r == <<x, y>>
<1>1. x \in S /\ y \in S
  OBVIOUS
<1> HIDE DEF S
<1>2. q \in Seq(S) /\ Len(q) = 1 /\ q[1] = y
  BY <1>1
<1>3. r \in Seq(S) /\ Len(r) = 2 /\ r[1] = x /\ r[2] = y
  BY <1>1
<1> HIDE DEF q, r
<1>4. \A k \in 1..Len(q) : k = 1
  BY <1>2
<1>5. Len(r) = 1 + Len(q) /\ \A k \in 1..Len(q) : r[k + 1] = q[k]
  BY <1>2, <1>3, <1>4
<1>6. <<x>> \o q = r
  BY <1>1, <1>2, <1>3, <1>5, Prefixed
<1> QED
  BY <1>6 DEF q, r

LEMMA ConsThree == ASSUME NEW x, NEW y, NEW z PROVE <<x>> \o <<y, z>> = <<x, y, z>>
<1> DEFINE S == {x, y, z}
           q == <<y, z>>
           r == <<x, y, z>>
<1>1. x \in S /\ y \in S /\ z \in S
  OBVIOUS
<1> HIDE DEF S
<1>2. q \in Seq(S) /\ Len(q) = 2 /\ q[1] = y /\ q[2] = z
  BY <1>1
<1>3. r \in Seq(S) /\ Len(r) = 3 /\ r[1] = x /\ r[2] = y /\ r[3] = z
  BY <1>1
<1> HIDE DEF q, r
<1>4. \A k \in 1..Len(q) : k = 1 \/ k = 2
  BY <1>2
<1>5. Len(r) = 1 + Len(q) /\ \A k \in 1..Len(q) : r[k + 1] = q[k]
  BY <1>2, <1>3, <1>4
<1>6. <<x>> \o q = r
  BY <1>1, <1>2, <1>3, <1>5, Prefixed
<1> QED
  BY <1>6 DEF q, r

LEMMA ConsFour == ASSUME NEW x, NEW y, NEW z, NEW u PROVE <<x>> \o <<y, z, u>> = <<x, y, z, u>>
<1> DEFINE S == {x, y, z, u}
           q == <<y, z, u>>
           r == <<x, y, z, u>>
<1>1. x \in S /\ y \in S /\ z \in S /\ u \in S
  OBVIOUS
<1> HIDE DEF S
<1>2. q \in Seq(S) /\ Len(q) = 3 /\ q[1] = y /\ q[2] = z /\ q[3] = u
  BY <1>1
<1>3. r \in Seq(S) /\ Len(r) = 4 /\ r[1] = x /\ r[2] = y /\ r[3] = z /\ r[4] = u
  BY <1>1
<1> HIDE DEF q, r
<1>4. \A k \in 1..Len(q) : k = 1 \/ k = 2 \/ k = 3
  BY <1>2
<1>5. Len(r) = 1 + Len(q) /\ \A k \in 1..Len(q) : r[k + 1] = q[k]
  BY <1>2, <1>3, <1>4
<1>6. <<x>> \o q = r
  BY <1>1, <1>2, <1>3, <1>5, Prefixed
<1> QED
  BY <1>6 DEF q, r

\* Running one more instruction is a step,
LEMMA RunOne ==
  ASSUME NEW p, IsCode(p), NEW x, NEW junk
  PROVE  CpuRun(p \o <<x>>, junk) = CpuStep(CpuRun(p, junk), x) /\ IsCode(p \o <<x>>)
<1>1. PICK S : p \in Seq(S)
  BY DEF IsCode
<1> DEFINE U == S \cup {x}
<1>2. p \in Seq(U) /\ x \in U
  BY <1>1
<1> HIDE DEF U
<1>3. p \o <<x>> = Append(p, x) /\ IsCode(p \o <<x>>)
  BY Behind
<1>4. CpuRun(Append(p, x), junk) = CpuStep(CpuRun(p, junk), x)
  BY <1>2, CpuRunAppended
<1> QED
  BY <1>3, <1>4

\* and so are two,
LEMMA RunTwo ==
  ASSUME NEW p, IsCode(p), NEW x, NEW y, NEW junk
  PROVE  /\ CpuRun(p \o <<x, y>>, junk) = CpuStep(CpuStep(CpuRun(p, junk), x), y)
         /\ IsCode(<<x, y>>) /\ IsCode(p \o <<x, y>>)
<1> DEFINE q == p \o <<x>>
<1>1. CpuRun(q, junk) = CpuStep(CpuRun(p, junk), x) /\ IsCode(q)
  BY RunOne
<1>2. IsCode(<<x>>) /\ IsCode(<<y>>)
  BY Behind
<1>3. <<x>> \o <<y>> = <<x, y>>
  BY ConsTwo
<1>4. p \o <<x, y>> = q \o <<y>> /\ IsCode(<<x, y>>)
  <2> DEFINE o == <<x>>
             r == <<y>>
  <2> HIDE DEF o, r
  <2>1. IsCode(o \o r)
    BY <1>2, Whole DEF o, r
  <2>2. p \o (o \o r) = (p \o o) \o r
    BY <1>2, Apart DEF o, r
  <2> USE DEF o, r
  <2> QED
    BY <1>3, <2>1, <2>2
<1>5. CpuRun(q \o <<y>>, junk) = CpuStep(CpuRun(q, junk), y) /\ IsCode(q \o <<y>>)
  BY <1>1, RunOne
<1> HIDE DEF q
<1> QED
  BY <1>1, <1>4, <1>5

\* or three,
LEMMA RunThree ==
  ASSUME NEW p, IsCode(p), NEW x, NEW y, NEW z, NEW junk
  PROVE  /\ CpuRun(p \o <<x, y, z>>, junk) = CpuStep(CpuStep(CpuStep(CpuRun(p, junk), x), y), z)
         /\ IsCode(<<x, y, z>>) /\ IsCode(p \o <<x, y, z>>)
<1> DEFINE q == p \o <<x>>
           r == <<y, z>>
           o == <<x>>
<1>1. CpuRun(q, junk) = CpuStep(CpuRun(p, junk), x) /\ IsCode(q)
  BY RunOne
<1>2. IsCode(r)
  BY <1>1, RunTwo
<1>3. <<x>> \o r = <<x, y, z>>
  BY ConsThree
<1> HIDE DEF r
<1>4. p \o <<x, y, z>> = q \o r /\ IsCode(<<x, y, z>>)
  <2>1. IsCode(o)
    BY Behind
  <2> HIDE DEF o
  <2>2. IsCode(o \o r)
    BY <1>2, <2>1, Whole
  <2>3. p \o (o \o r) = (p \o o) \o r
    BY <1>2, <2>1, Apart
  <2> USE DEF o
  <2> QED
    BY <1>3, <2>2, <2>3
<1> HIDE DEF q
<1>5. /\ CpuRun(q \o r, junk) = CpuStep(CpuStep(CpuRun(q, junk), y), z)
      /\ IsCode(q \o r)
  BY <1>1, RunTwo DEF r
<1> QED
  BY <1>1, <1>4, <1>5

\* or four.
LEMMA RunFour ==
  ASSUME NEW p, IsCode(p), NEW x, NEW y, NEW z, NEW u, NEW junk
  PROVE  CpuRun(p \o <<x, y, z, u>>, junk)
           = CpuStep(CpuStep(CpuStep(CpuStep(CpuRun(p, junk), x), y), z), u)
<1> DEFINE q == p \o <<x>>
           r == <<y, z, u>>
           o == <<x>>
<1>1. CpuRun(q, junk) = CpuStep(CpuRun(p, junk), x) /\ IsCode(q)
  BY RunOne
<1>2. IsCode(r)
  BY <1>1, RunThree
<1>3. <<x>> \o r = <<x, y, z, u>>
  BY ConsFour
<1> HIDE DEF r
<1>4. p \o <<x, y, z, u>> = q \o r
  <2>1. IsCode(o)
    BY Behind
  <2> HIDE DEF o
  <2>2. p \o (o \o r) = (p \o o) \o r
    BY <1>2, <2>1, Apart
  <2> USE DEF o
  <2> QED
    BY <1>3, <2>2
<1> HIDE DEF q
<1>5. CpuRun(q \o r, junk) = CpuStep(CpuStep(CpuStep(CpuRun(q, junk), y), z), u)
  BY <1>1, RunThree DEF r
<1> QED
  BY <1>1, <1>4, <1>5

-----------------------------------------------------------------------------
(* Operands *)

\* The operand that stands for one of the IR reads what that holds.
LEMMA SameOperand ==
  ASSUME NEW c, NEW m, \A t : Cell(c, <<"PSEUDO", t>>) = TempValue(m, t), NEW op
  PROVE  Read(c, x86_64_ir_operand(op)) = OpValue(m, op)
<1>1. CASE op.type = "TEMP"
  <2>1. x86_64_ir_operand(op) = PseudoOp(op.value)
    BY <1>1 DEF x86_64_ir_operand
  <2>2. PseudoOp(op.value).type # "IMMEDIATE" /\ Place(PseudoOp(op.value)) = <<"PSEUDO", op.value>>
    BY DEF PseudoOp, Operand, Place
  <2>3. Read(c, PseudoOp(op.value)) = Cell(c, <<"PSEUDO", op.value>>)
    BY <2>2 DEF Read
  <2> QED
    BY <1>1, <2>1, <2>3 DEF OpValue
<1>2. CASE op.type # "TEMP"
  BY <1>2 DEF x86_64_ir_operand, ImmOp, Operand, Read, OpValue
<1> QED
  BY <1>1, <1>2

\* A pseudo register is no register, and two of them are two.
LEMMA Places ==
  /\ \A t : Place(PseudoOp(t)) = <<"PSEUDO", t>> /\ \A c : Read(c, PseudoOp(t)) = Cell(c, <<"PSEUDO", t>>)
  /\ \A r : Place(RegOp(r)) = <<"REGISTER", r>> /\ \A c : Read(c, RegOp(r)) = Cell(c, <<"REGISTER", r>>)
  /\ \A t, r : <<"PSEUDO", t>> # <<"REGISTER", r>>
  /\ \A t, s : <<"PSEUDO", t>> = <<"PSEUDO", s>> => t = s
  /\ <<"REGISTER", AX>> # <<"REGISTER", DX>>
  /\ \A v, c : Read(c, ImmOp(v)) = v
<1>1. \A t : PseudoOp(t).type = "PSEUDO" /\ PseudoOp(t).value = t
  BY DEF PseudoOp, Operand
<1>2. \A r : RegOp(r).type = "REGISTER" /\ RegOp(r).value = r
  BY DEF RegOp, Operand
<1>3. \A v : ImmOp(v).type = "IMMEDIATE" /\ ImmOp(v).value = v
  BY DEF ImmOp, Operand
<1>4. \A t, r : <<"PSEUDO", t>> # <<"REGISTER", r>>
  OBVIOUS
<1>5. \A t, s : <<"PSEUDO", t>> = <<"PSEUDO", s>> => t = s
  OBVIOUS
<1>6. <<"REGISTER", AX>> # <<"REGISTER", DX>>
  BY DEF AX, DX
<1>7. \A t : Place(PseudoOp(t)) = <<"PSEUDO", t>>
  BY <1>1 DEF Place
<1>8. \A r : Place(RegOp(r)) = <<"REGISTER", r>>
  BY <1>2 DEF Place
<1>9. \A t, c : Read(c, PseudoOp(t)) = Cell(c, <<"PSEUDO", t>>)
  BY <1>1, <1>7 DEF Read
<1>10. \A r, c : Read(c, RegOp(r)) = Cell(c, <<"REGISTER", r>>)
  BY <1>2, <1>8 DEF Read
<1>11. \A v, c : Read(c, ImmOp(v)) = v
  BY <1>3 DEF Read
<1> QED
  BY <1>4, <1>5, <1>6, <1>7, <1>8, <1>9, <1>10, <1>11

\* Flags that hold two words are flags.
LEMMA Compared == \A a, b : <<a, b>> # NoFlags /\ <<a, b>>[1] = a /\ <<a, b>>[2] = b
BY DEF NoFlags

-----------------------------------------------------------------------------
(* Before and after *)

\* What runs on the one runs on the other.
LEMMA BothRun ==
  ASSUME NEW c, NEW m, Simulates(c, m), m.halted = FALSE, m.seek = NoLabel
  PROVE  Runs(c) /\ IRRuns(m)
BY DEF Simulates, Runs, IRRuns

\* While the machines have stopped or look for a label, neither does anything.
LEMMA BothIdle ==
  ASSUME NEW c, NEW m, Simulates(c, m), ~(m.halted = FALSE /\ m.seek = NoLabel),
         NEW inst, inst.type # "LABEL"
  PROVE  /\ IRStep(m, inst) = m
         /\ \A x : x.mnemonic # "DEFINE_LABEL" => CpuStep(c, x) = c
<1>1. /\ c.seek = m.seek /\ c.halted = m.halted /\ m.halted \in BOOLEAN
  BY DEF Simulates
<1>2. m.halted = TRUE \/ m.seek # NoLabel
  BY <1>1
<1>3. IRStep(m, inst) = m
  <2>1. CASE m.halted = TRUE
    BY <2>1 DEF IRStep
  <2>2. CASE m.halted = FALSE
    <3>1. Defines(inst) # {m.seek}
      BY DEF Defines
    <3> QED
      BY <1>2, <2>2, <3>1 DEF IRStep
  <2> QED
    BY <1>1, <2>1, <2>2
<1>4. ASSUME NEW x, x.mnemonic # "DEFINE_LABEL" PROVE CpuStep(c, x) = c
  BY <1>1, <1>2, <1>4, SkipStep
<1> QED
  BY <1>3, <1>4

\* A register is no pseudo register,
LEMMA RegisterWritten ==
  ASSUME NEW c, NEW m, Simulates(c, m), NEW w, NEW r, NEW v, Wrote(w, c, <<"REGISTER", r>>, v)
  PROVE  Simulates(w, m)
BY Places DEF Simulates, Wrote

\* and a pseudo register holds its temporary.
LEMMA PseudoWritten ==
  ASSUME NEW c, NEW m, Simulates(c, m), NEW w, NEW t, NEW v, Wrote(w, c, <<"PSEUDO", t>>, v)
  PROVE  Simulates(w, SetTemp(m, t, v))
<1>1. Assigned(SetTemp(m, t, v), m, t, v)
  BY SetTempAssigns DEF Simulates
<1>2. ASSUME NEW s PROVE Cell(w, <<"PSEUDO", s>>) = TempValue(SetTemp(m, t, v), s)
  <2>1. TempValue(SetTemp(m, t, v), s) = IF s = t THEN v ELSE TempValue(m, s)
    BY <1>1 DEF Assigned
  <2>2. Cell(w, <<"PSEUDO", s>>) = IF <<"PSEUDO", s>> = <<"PSEUDO", t>> THEN v ELSE Cell(c, <<"PSEUDO", s>>)
    BY DEF Wrote
  <2>3. Cell(c, <<"PSEUDO", s>>) = TempValue(m, s)
    BY DEF Simulates
  <2> QED
    BY <2>1, <2>2, <2>3, Places
<1> QED
  BY <1>1, <1>2 DEF Simulates, Wrote, Assigned

\* Written twice is written once.
LEMMA WroteAgain ==
  ASSUME NEW c, NEW w, NEW z, NEW p, NEW u, NEW v, Wrote(w, c, p, u), Wrote(z, w, p, v)
  PROVE  Wrote(z, c, p, v)
BY DEF Wrote

\* A processor that has written a cell runs on.
LEMMA StillRuns ==
  ASSUME NEW c, NEW w, NEW p, NEW v, Runs(c), Wrote(w, c, p, v)
  PROVE  Runs(w)
BY DEF Runs, Wrote

\* Instructions that are no label.
LEMMA NoLabels ==
  ASSUME NEW mnem, mnem # "DEFINE_LABEL", NEW d, NEW s
  PROVE  /\ Binary(mnem, d, s).mnemonic # "DEFINE_LABEL" /\ Unary(mnem, d).mnemonic # "DEFINE_LABEL"
         /\ NoOps(mnem).mnemonic # "DEFINE_LABEL" /\ \A l : Jump(mnem, l).mnemonic # "DEFINE_LABEL"
BY DEF Binary, Unary, NoOps, Jump

-----------------------------------------------------------------------------
(* Each kind of instruction *)

\* An instruction that computes sets its temporary.
LEMMA ComputesSet ==
  ASSUME NEW m, IRRuns(m), NEW inst, Computes(inst),
         NEW a, NEW b, a = OpValue(m, inst.src1), b = OpValue(m, inst.src2),
         ~IRDivides(inst.type, b, a)
  PROVE  IRStep(m, inst) = SetTemp(m, inst.dest_id, IRCompute(inst.type, a, b))
<1>1. inst.type \notin {"LABEL", "RETURN", "COPY", "JUMP", "JUMP_ZERO", "JUMP_NOT_ZERO"}
  BY DEF Computes, ComputeTypes
<1> HIDE DEF IRDivides
<1>2. IRExecute(m, inst) = SetTemp(m, inst.dest_id, IRCompute(inst.type, a, b))
  BY <1>1, Zenon DEF IRExecute
<1> QED
  BY <1>2, IRExecutes

LEMMA ReturnSimulated ==
  ASSUME NEW c, NEW m, Simulates(c, m), NEW inst, inst.type = "RETURN"
  PROVE  Simulates(CpuStep(CpuStep(c, Binary("MOV", RegOp(AX), Src1(inst))), NoOps("RET")), IRStep(m, inst))
<1> DEFINE x == Binary("MOV", RegOp(AX), Src1(inst))
           y == NoOps("RET")
           w == CpuStep(c, x)
           z == CpuStep(w, y)
           n == IRStep(m, inst)
<1>1. CASE ~(m.halted = FALSE /\ m.seek = NoLabel)
  <2>1. x.mnemonic # "DEFINE_LABEL" /\ y.mnemonic # "DEFINE_LABEL"
    BY NoLabels
  <2> HIDE DEF x, y
  <2>2. n = m /\ CpuStep(c, x) = c /\ CpuStep(c, y) = c
    BY <1>1, <2>1, BothIdle
  <2> QED
    BY <2>2 DEF x, y
<1>2. CASE m.halted = FALSE /\ m.seek = NoLabel
  <2>1. Runs(c) /\ IRRuns(m)
    BY <1>2, BothRun
  <2>2. Wrote(w, c, <<"REGISTER", AX>>, Read(c, Src1(inst)))
    BY <2>1, MovStep, Places
  <2>3. Read(c, Src1(inst)) = OpValue(m, inst.src1)
    BY SameOperand DEF Src1, Simulates
  <2>4. Runs(w) /\ Simulates(w, m)
    BY <2>1, <2>2, StillRuns, RegisterWritten
  <2>5. Cell(w, <<"REGISTER", AX>>) = OpValue(m, inst.src1)
    BY <2>2, <2>3 DEF Wrote
  <2>6. w.frame = <<>>
    BY <2>4 DEF Simulates
  <2> HIDE DEF w
  <2>7. /\ IsCpu(z) /\ z.seek = w.seek /\ z.frame = w.frame
        /\ z.halted = TRUE /\ z.fault = w.fault /\ z.result = Cell(w, <<"REGISTER", AX>>)
        /\ \A q : Cell(z, q) = Cell(w, q)
    BY <2>4, <2>6, RetStep
  <2>8. IRStops(n, m) /\ n.fault = m.fault /\ n.result = OpValue(m, inst.src1)
    BY <2>1, IRReturns
  <2> HIDE DEF z, n
  <2>9. Simulates(z, n)
    BY <2>4, <2>5, <2>7, <2>8 DEF Simulates, IRStops
  <2> QED
    BY <2>9 DEF z, n, w
<1> QED
  BY <1>1, <1>2

LEMMA CopySimulated ==
  ASSUME NEW c, NEW m, Simulates(c, m), NEW inst, inst.type = "COPY"
  PROVE  Simulates(CpuStep(c, Binary("MOV", PseudoOp(inst.src1.value), Src2(inst))), IRStep(m, inst))
<1> DEFINE x == Binary("MOV", PseudoOp(inst.src1.value), Src2(inst))
           w == CpuStep(c, x)
           n == IRStep(m, inst)
           t == inst.src1.value
<1>1. CASE ~(m.halted = FALSE /\ m.seek = NoLabel)
  BY <1>1, BothIdle, NoLabels
<1>2. CASE m.halted = FALSE /\ m.seek = NoLabel
  <2>1. Runs(c) /\ IRRuns(m)
    BY <1>2, BothRun
  <2>2. Wrote(w, c, <<"PSEUDO", t>>, Read(c, Src2(inst)))
    BY <2>1, MovStep, Places
  <2>3. Read(c, Src2(inst)) = OpValue(m, inst.src2)
    BY SameOperand DEF Src2, Simulates
  <2>4. IRExecute(m, inst) = SetTemp(m, t, OpValue(m, inst.src2))
    BY Zenon DEF IRExecute, IRDivides
  <2>5. n = SetTemp(m, t, OpValue(m, inst.src2))
    BY <2>1, <2>4, IRExecutes
  <2> QED
    BY <2>2, <2>3, <2>5, PseudoWritten
<1> QED
  BY <1>1, <1>2

LEMMA UnarySimulated ==
  ASSUME NEW c, NEW m, Simulates(c, m), NEW inst, inst.type \in DOMAIN UnaryMnemonic
  PROVE  Simulates(CpuStep(CpuStep(c, Binary("MOV", Dest(inst), Src1(inst))),
                           Unary(UnaryMnemonic[inst.type], Dest(inst))),
                   IRStep(m, inst))
<1> DEFINE x == Binary("MOV", Dest(inst), Src1(inst))
           y == Unary(UnaryMnemonic[inst.type], Dest(inst))
           w == CpuStep(c, x)
           z == CpuStep(w, y)
           n == IRStep(m, inst)
           t == inst.dest_id
           a == OpValue(m, inst.src1)
           b == OpValue(m, inst.src2)
<1>0. inst.type \in {"BITWISE_NOT", "NEGATE"}
  BY DEF UnaryMnemonic
<1>1. CASE ~(m.halted = FALSE /\ m.seek = NoLabel)
  <2>1. x.mnemonic # "DEFINE_LABEL" /\ y.mnemonic # "DEFINE_LABEL"
    BY <1>0 DEF Binary, Unary, UnaryMnemonic
  <2> HIDE DEF x, y
  <2>2. n = m /\ CpuStep(c, x) = c /\ CpuStep(c, y) = c
    BY <1>0, <1>1, <2>1, BothIdle
  <2> QED
    BY <2>2 DEF x, y
<1>2. CASE m.halted = FALSE /\ m.seek = NoLabel
  <2>1. Runs(c) /\ IRRuns(m)
    BY <1>2, BothRun
  <2>2. Wrote(w, c, <<"PSEUDO", t>>, Read(c, Src1(inst)))
    BY <2>1, MovStep, Places DEF Dest
  <2>3. Read(c, Src1(inst)) = a
    BY SameOperand DEF Src1, Simulates
  <2>4. Runs(w)
    BY <2>1, <2>2, StillRuns
  <2>5. Read(w, Dest(inst)) = a
    BY <2>2, <2>3, Places DEF Dest, Wrote
  <2> HIDE DEF w, a, b, n
  <2>6. Wrote(z, w, <<"PSEUDO", t>>, IRCompute(inst.type, a, b))
    <3>1. CASE inst.type = "BITWISE_NOT"
      <4>1. UnaryMnemonic[inst.type] = "NOT"
        BY <3>1 DEF UnaryMnemonic
      <4>2. IRCompute(inst.type, a, b) = BitNot(a)
        BY <3>1, Zenon DEF IRCompute
      <4>3. Wrote(z, w, Place(Dest(inst)), BitNot(Read(w, Dest(inst))))
        BY <2>4, <4>1, NotStep
      <4> HIDE DEF z
      <4> QED
        BY <2>5, <4>2, <4>3, Places DEF Dest
    <3>2. CASE inst.type = "NEGATE"
      <4>1. UnaryMnemonic[inst.type] = "NEG"
        BY <3>2 DEF UnaryMnemonic
      <4>2. IRCompute(inst.type, a, b) = Wrap(-a)
        BY <3>2, Zenon DEF IRCompute
      <4>3. Wrote(z, w, Place(Dest(inst)), Wrap(-Read(w, Dest(inst))))
        BY <2>4, <4>1, NegStep
      <4> HIDE DEF z
      <4> QED
        BY <2>5, <4>2, <4>3, Places DEF Dest
    <3> QED
      BY <1>0, <3>1, <3>2
  <2>7. n = SetTemp(m, t, IRCompute(inst.type, a, b))
    BY <1>0, <2>1, ComputesSet DEF n, a, b, Computes, ComputeTypes, IRDivides
  <2> HIDE DEF z
  <2>8. Wrote(z, c, <<"PSEUDO", t>>, IRCompute(inst.type, a, b))
    BY <2>2, <2>6, WroteAgain
  <2>9. Simulates(z, n)
    BY <2>7, <2>8, PseudoWritten
  <2> QED
    BY <2>9 DEF z, w, n
<1> QED
  BY <1>1, <1>2

\* The two machines compute the same.
LEMMA SameArithmetic ==
  ASSUME NEW type \in DOMAIN BinaryMnemonic, NEW a, NEW b
  PROVE  IRCompute(type, a, b) = Arithmetic(BinaryMnemonic[type], a, b)
<1>1. CASE type = "ADD"
  <2>1. BinaryMnemonic[type] = "ADD" BY <1>1 DEF BinaryMnemonic
  <2>2. IRCompute(type, a, b) = Wrap(a + b) BY <1>1, Zenon DEF IRCompute
  <2>3. Arithmetic("ADD", a, b) = Wrap(a + b) BY Zenon DEF Arithmetic
  <2> QED BY <2>1, <2>2, <2>3
<1>2. CASE type = "SUBTRACT"
  <2>1. BinaryMnemonic[type] = "SUB" BY <1>2 DEF BinaryMnemonic
  <2>2. IRCompute(type, a, b) = Wrap(a - b) BY <1>2, Zenon DEF IRCompute
  <2>3. Arithmetic("SUB", a, b) = Wrap(a - b) BY Zenon DEF Arithmetic
  <2> QED BY <2>1, <2>2, <2>3
<1>3. CASE type = "MULTIPLY"
  <2>1. BinaryMnemonic[type] = "IMUL" BY <1>3 DEF BinaryMnemonic
  <2>2. IRCompute(type, a, b) = Wrap(a * b) BY <1>3, Zenon DEF IRCompute
  <2>3. Arithmetic("IMUL", a, b) = Wrap(a * b) BY Zenon DEF Arithmetic
  <2> QED BY <2>1, <2>2, <2>3
<1>4. CASE type = "BITWISE_AND"
  <2>1. BinaryMnemonic[type] = "AND" BY <1>4 DEF BinaryMnemonic
  <2>2. IRCompute(type, a, b) = BitAnd(a, b) BY <1>4, Zenon DEF IRCompute
  <2>3. Arithmetic("AND", a, b) = BitAnd(a, b) BY Zenon DEF Arithmetic
  <2> QED BY <2>1, <2>2, <2>3
<1>5. CASE type = "BITWISE_OR"
  <2>1. BinaryMnemonic[type] = "OR" BY <1>5 DEF BinaryMnemonic
  <2>2. IRCompute(type, a, b) = BitOr(a, b) BY <1>5, Zenon DEF IRCompute
  <2>3. Arithmetic("OR", a, b) = BitOr(a, b) BY Zenon DEF Arithmetic
  <2> QED BY <2>1, <2>2, <2>3
<1>6. CASE type = "BITWISE_XOR"
  <2>1. BinaryMnemonic[type] = "XOR" BY <1>6 DEF BinaryMnemonic
  <2>2. IRCompute(type, a, b) = BitXor(a, b) BY <1>6, Zenon DEF IRCompute
  <2>3. Arithmetic("XOR", a, b) = BitXor(a, b) BY Zenon DEF Arithmetic
  <2> QED BY <2>1, <2>2, <2>3
<1>7. CASE type = "LEFT_SHIFT"
  <2>1. BinaryMnemonic[type] = "SHL" BY <1>7 DEF BinaryMnemonic
  <2>2. IRCompute(type, a, b) = Shl(a, b) BY <1>7, Zenon DEF IRCompute
  <2>3. Arithmetic("SHL", a, b) = Shl(a, b) BY Zenon DEF Arithmetic
  <2> QED BY <2>1, <2>2, <2>3
<1>8. CASE type = "RIGHT_SHIFT"
  <2>1. BinaryMnemonic[type] = "SAR" BY <1>8 DEF BinaryMnemonic
  <2>2. IRCompute(type, a, b) = Sar(a, b) BY <1>8, Zenon DEF IRCompute
  <2>3. Arithmetic("SAR", a, b) = Sar(a, b) BY Zenon DEF Arithmetic
  <2> QED BY <2>1, <2>2, <2>3
<1> QED
  BY <1>1, <1>2, <1>3, <1>4, <1>5, <1>6, <1>7, <1>8 DEF BinaryMnemonic

LEMMA BinarySimulated ==
  ASSUME NEW c, NEW m, Simulates(c, m), NEW inst, inst.type \in DOMAIN BinaryMnemonic,
         inst.src2.type = "TEMP" => inst.src2.value # inst.dest_id
  PROVE  Simulates(CpuStep(CpuStep(c, Binary("MOV", Dest(inst), Src1(inst))),
                           Binary(BinaryMnemonic[inst.type], Dest(inst), Src2(inst))),
                   IRStep(m, inst))
<1> DEFINE x == Binary("MOV", Dest(inst), Src1(inst))
           y == Binary(BinaryMnemonic[inst.type], Dest(inst), Src2(inst))
           w == CpuStep(c, x)
           z == CpuStep(w, y)
           n == IRStep(m, inst)
           t == inst.dest_id
           a == OpValue(m, inst.src1)
           b == OpValue(m, inst.src2)
<1>0. /\ inst.type # "LABEL" /\ Computes(inst) /\ inst.type \notin {"DIVIDE", "REMAINDER"}
      /\ BinaryMnemonic[inst.type] \in {"ADD", "SUB", "IMUL", "AND", "OR", "XOR", "SHL", "SAR"}
  BY DEF BinaryMnemonic, Computes, ComputeTypes
<1>1. CASE ~(m.halted = FALSE /\ m.seek = NoLabel)
  <2>1. x.mnemonic # "DEFINE_LABEL" /\ y.mnemonic # "DEFINE_LABEL"
    BY <1>0 DEF Binary
  <2> HIDE DEF x, y
  <2>2. n = m /\ CpuStep(c, x) = c /\ CpuStep(c, y) = c
    BY <1>0, <1>1, <2>1, BothIdle
  <2> QED
    BY <2>2 DEF x, y
<1>2. CASE m.halted = FALSE /\ m.seek = NoLabel
  <2>1. Runs(c) /\ IRRuns(m)
    BY <1>2, BothRun
  <2>2. Wrote(w, c, <<"PSEUDO", t>>, Read(c, Src1(inst)))
    BY <2>1, MovStep, Places DEF Dest
  <2>3. Read(c, Src1(inst)) = a /\ Read(c, Src2(inst)) = b
    BY SameOperand DEF Src1, Src2, Simulates
  <2>4. Runs(w)
    BY <2>1, <2>2, StillRuns
  <2>5. Read(w, Dest(inst)) = a
    BY <2>2, <2>3, Places DEF Dest, Wrote
  <2> HIDE DEF w
  <2>6. Read(w, Src2(inst)) = Read(c, Src2(inst))
    <3>1. CASE inst.src2.type = "TEMP"
      <4>1. Src2(inst) = PseudoOp(inst.src2.value)
        BY <3>1 DEF Src2, x86_64_ir_operand
      <4>2. <<"PSEUDO", inst.src2.value>> # <<"PSEUDO", t>>
        BY <3>1, Places
      <4>3. Cell(w, <<"PSEUDO", inst.src2.value>>) = Cell(c, <<"PSEUDO", inst.src2.value>>)
        BY <2>2, <4>2 DEF Wrote
      <4> QED
        BY <4>1, <4>3, Places
    <3>2. CASE inst.src2.type # "TEMP"
      BY <3>2, Places DEF Src2, x86_64_ir_operand
    <3> QED
      BY <3>1, <3>2
  <2>7. Wrote(z, w, Place(Dest(inst)), Arithmetic(BinaryMnemonic[inst.type], Read(w, Dest(inst)), Read(w, Src2(inst))))
    BY <1>0, <2>4, ArithmeticStep
  <2> HIDE DEF a, b, n, z
  <2>8. Place(Dest(inst)) = <<"PSEUDO", t>>
    BY Places DEF Dest
  <2>9. Wrote(z, w, <<"PSEUDO", t>>, IRCompute(inst.type, a, b))
    BY <2>3, <2>5, <2>6, <2>7, <2>8, SameArithmetic
  <2>10. n = SetTemp(m, t, IRCompute(inst.type, a, b))
    BY <1>0, <2>1, ComputesSet DEF n, a, b, IRDivides
  <2>11. Wrote(z, c, <<"PSEUDO", t>>, IRCompute(inst.type, a, b))
    BY <2>2, <2>9, WroteAgain
  <2>12. Simulates(z, n)
    BY <2>10, <2>11, PseudoWritten
  <2> QED
    BY <2>12 DEF z, w, n
<1> QED
  BY <1>1, <1>2

\* A power of two is a positive number: it counts the subsets of a set.
LEMMA Power ==
  ASSUME NEW n \in Nat
  PROVE  2^n \in Nat /\ 2^n > 0
<1> DEFINE SS == 1..n
<1>1. IsFiniteSet(SS) /\ Cardinality(SS) = n
  BY FS_Interval
<1> HIDE DEF SS
<1>2. IsFiniteSet(SUBSET SS) /\ Cardinality(SUBSET SS) = 2^n
  BY <1>1, FS_SUBSET
<1>3. Cardinality(SUBSET SS) \in Nat
  BY <1>2, FS_CardinalityType
<1>4. Cardinality(SUBSET SS) # 0
  BY <1>2, FS_EmptySet
<1> QED
  BY <1>2, <1>3, <1>4

\* A cleared register and its low byte.
LEMMA LowByte == \A p : SetLowByte(0, Truth(p)) = Truth(p)
<1>1. 2^ByteBits \in Nat /\ 2^ByteBits > 0
  BY Power, WordAssumption
<1>2. 0 % 2^ByteBits = 0
  BY <1>1
<1> QED
  BY <1>2 DEF SetLowByte, Truth

\* The conditions of the processor are the comparisons of the IR.
LEMMA SameCondition ==
  ASSUME NEW type \in DOMAIN SetMnemonic, NEW a, NEW b, NEW e,
         e = (IF type = "LOGICAL_NOT" THEN 0 ELSE b)
  PROVE  IRCompute(type, a, b) = Truth(Holds(SetMnemonic[type], <<a, e>>))
<1> DEFINE f == <<a, e>>
<1>0. f[1] = a /\ f[2] = e
  OBVIOUS
<1> HIDE DEF f
<1>1. CASE type = "LOGICAL_NOT"
  <2>1. SetMnemonic[type] = "SETE" BY <1>1 DEF SetMnemonic
  <2>2. IRCompute(type, a, b) = Truth(a = 0) BY <1>1, Zenon DEF IRCompute
  <2>3. Holds("SETE", f) = (f[1] = f[2]) BY Zenon DEF Holds
  <2>4. e = 0 BY <1>1
  <2>5. Truth(Holds("SETE", f)) = Truth(a = 0) BY <1>0, <2>3, <2>4 DEF Truth
  <2> QED BY <2>1, <2>2, <2>5 DEF f
<1>2. CASE type = "LOGICAL_EQUAL"
  <2>1. SetMnemonic[type] = "SETE" BY <1>2 DEF SetMnemonic
  <2>2. IRCompute(type, a, b) = Truth(a = b) BY <1>2, Zenon DEF IRCompute
  <2>3. Holds("SETE", f) = (f[1] = f[2]) BY Zenon DEF Holds
  <2>4. e = b BY <1>2
  <2>5. Truth(Holds("SETE", f)) = Truth(a = b) BY <1>0, <2>3, <2>4 DEF Truth
  <2> QED BY <2>1, <2>2, <2>5 DEF f
<1>3. CASE type = "LOGICAL_NOT_EQUAL"
  <2>1. SetMnemonic[type] = "SETNE" BY <1>3 DEF SetMnemonic
  <2>2. IRCompute(type, a, b) = Truth(a # b) BY <1>3, Zenon DEF IRCompute
  <2>3. Holds("SETNE", f) = (f[1] # f[2]) BY Zenon DEF Holds
  <2>4. e = b BY <1>3
  <2>5. Truth(Holds("SETNE", f)) = Truth(a # b) BY <1>0, <2>3, <2>4 DEF Truth
  <2> QED BY <2>1, <2>2, <2>5 DEF f
<1>4. CASE type = "LOGICAL_LESS_THAN"
  <2>1. SetMnemonic[type] = "SETL" BY <1>4 DEF SetMnemonic
  <2>2. IRCompute(type, a, b) = Truth(a < b) BY <1>4, Zenon DEF IRCompute
  <2>3. Holds("SETL", f) = (f[1] < f[2]) BY Zenon DEF Holds
  <2>4. e = b BY <1>4
  <2>5. Truth(Holds("SETL", f)) = Truth(a < b) BY <1>0, <2>3, <2>4 DEF Truth
  <2> QED BY <2>1, <2>2, <2>5 DEF f
<1>5. CASE type = "LOGICAL_LESS_EQUAL"
  <2>1. SetMnemonic[type] = "SETLE" BY <1>5 DEF SetMnemonic
  <2>2. IRCompute(type, a, b) = Truth(a <= b) BY <1>5, Zenon DEF IRCompute
  <2>3. Holds("SETLE", f) = (f[1] <= f[2]) BY Zenon DEF Holds
  <2>4. e = b BY <1>5
  <2>5. Truth(Holds("SETLE", f)) = Truth(a <= b) BY <1>0, <2>3, <2>4 DEF Truth
  <2> QED BY <2>1, <2>2, <2>5 DEF f
<1>6. CASE type = "LOGICAL_GREATER_THAN"
  <2>1. SetMnemonic[type] = "SETG" BY <1>6 DEF SetMnemonic
  <2>2. IRCompute(type, a, b) = Truth(a > b) BY <1>6, Zenon DEF IRCompute
  <2>3. Holds("SETG", f) = (f[1] > f[2]) BY Zenon DEF Holds
  <2>4. e = b BY <1>6
  <2>5. Truth(Holds("SETG", f)) = Truth(a > b) BY <1>0, <2>3, <2>4 DEF Truth
  <2> QED BY <2>1, <2>2, <2>5 DEF f
<1>7. CASE type = "LOGICAL_GREATER_EQUAL"
  <2>1. SetMnemonic[type] = "SETGE" BY <1>7 DEF SetMnemonic
  <2>2. IRCompute(type, a, b) = Truth(a >= b) BY <1>7, Zenon DEF IRCompute
  <2>3. Holds("SETGE", f) = (f[1] >= f[2]) BY Zenon DEF Holds
  <2>4. e = b BY <1>7
  <2>5. Truth(Holds("SETGE", f)) = Truth(a >= b) BY <1>0, <2>3, <2>4 DEF Truth
  <2> QED BY <2>1, <2>2, <2>5 DEF f
<1> QED
  BY <1>1, <1>2, <1>3, <1>4, <1>5, <1>6, <1>7 DEF SetMnemonic

LEMMA ConditionalSimulated ==
  ASSUME NEW c, NEW m, Simulates(c, m), NEW inst, inst.type \in DOMAIN SetMnemonic,
         NEW s, s = IF inst.type = "LOGICAL_NOT" THEN ImmOp(0) ELSE Src2(inst)
  PROVE  Simulates(CpuStep(CpuStep(CpuStep(c, Binary("CMP", Src1(inst), s)),
                                   Binary("MOV", Dest(inst), ImmOp(0))),
                           Unary(SetMnemonic[inst.type], Dest(inst))),
                   IRStep(m, inst))
<1> DEFINE x == Binary("CMP", Src1(inst), s)
           y == Binary("MOV", Dest(inst), ImmOp(0))
           z == Unary(SetMnemonic[inst.type], Dest(inst))
           u == CpuStep(c, x)
           v == CpuStep(u, y)
           w == CpuStep(v, z)
           n == IRStep(m, inst)
           t == inst.dest_id
           a == OpValue(m, inst.src1)
           b == OpValue(m, inst.src2)
           e == IF inst.type = "LOGICAL_NOT" THEN 0 ELSE b
<1>0. /\ inst.type # "LABEL" /\ Computes(inst) /\ inst.type \notin {"DIVIDE", "REMAINDER"}
      /\ SetMnemonic[inst.type] \in SetMnemonics
      /\ SetMnemonic[inst.type] # "DEFINE_LABEL"
  BY DEF SetMnemonic, SetMnemonics, Computes, ComputeTypes
<1>1. CASE ~(m.halted = FALSE /\ m.seek = NoLabel)
  <2>1. x.mnemonic # "DEFINE_LABEL" /\ y.mnemonic # "DEFINE_LABEL" /\ z.mnemonic # "DEFINE_LABEL"
    BY <1>0 DEF Binary, Unary
  <2> HIDE DEF x, y, z
  <2>2. n = m /\ CpuStep(c, x) = c /\ CpuStep(c, y) = c /\ CpuStep(c, z) = c
    BY <1>0, <1>1, <2>1, BothIdle
  <2> QED
    BY <2>2 DEF x, y, z
<1>2. CASE m.halted = FALSE /\ m.seek = NoLabel
  <2>1. Runs(c) /\ IRRuns(m)
    BY <1>2, BothRun
  <2>2. Read(c, Src1(inst)) = a /\ Read(c, Src2(inst)) = b
    BY SameOperand DEF Src1, Src2, Simulates
  <2>3. Read(c, s) = e
    BY <2>2, Places
  <2>4. /\ Runs(u) /\ u.frame = c.frame /\ u.fault = c.fault /\ u.result = c.result
        /\ u.flags = <<Read(c, Src1(inst)), Read(c, s)>>
        /\ \A q : Cell(u, q) = Cell(c, q)
    BY <2>1, CmpStep
  <2> DEFINE f == <<a, e>>
  <2>5. u.flags = f /\ f # NoFlags
    BY <2>2, <2>3, <2>4, Compared
  <2>6. Simulates(u, m)
    BY <2>1, <2>4 DEF Simulates, Runs, IRRuns
  <2> HIDE DEF f, a, b, e, u
  <2>7. Wrote(v, u, Place(Dest(inst)), Read(u, ImmOp(0))) /\ v.flags = u.flags
    BY <2>4, MovStep
  <2>8. Place(Dest(inst)) = <<"PSEUDO", t>> /\ Read(u, ImmOp(0)) = 0
    BY Places DEF Dest
  <2>9. Runs(v)
    BY <2>4, <2>7, StillRuns
  <2>10. Read(v, Dest(inst)) = 0
    BY <2>7, <2>8, Places DEF Dest, Wrote
  <2> HIDE DEF v
  <2>11. v.flags = f /\ v.flags # NoFlags
    BY <2>5, <2>7
  <2>12. Wrote(w, v, Place(Dest(inst)), SetLowByte(Read(v, Dest(inst)), Truth(Holds(SetMnemonic[inst.type], v.flags))))
    BY <1>0, <2>9, <2>11, SetStep
  <2> HIDE DEF w, n
  <2>13. SetLowByte(0, Truth(Holds(SetMnemonic[inst.type], f))) = Truth(Holds(SetMnemonic[inst.type], f))
    BY LowByte
  <2>14. IRCompute(inst.type, a, b) = Truth(Holds(SetMnemonic[inst.type], f))
    BY SameCondition DEF e, f
  <2>15. Wrote(w, v, <<"PSEUDO", t>>, IRCompute(inst.type, a, b))
    BY <2>8, <2>10, <2>11, <2>12, <2>13, <2>14
  <2>16. Wrote(w, u, <<"PSEUDO", t>>, IRCompute(inst.type, a, b))
    BY <2>7, <2>8, <2>15, WroteAgain
  <2>17. n = SetTemp(m, t, IRCompute(inst.type, a, b))
    BY <1>0, <2>1, ComputesSet DEF n, a, b, IRDivides
  <2>18. Simulates(w, n)
    BY <2>6, <2>16, <2>17, PseudoWritten
  <2> QED
    BY <2>18 DEF w, v, u, n
<1> QED
  BY <1>1, <1>2

\* A division by way of two registers.
LEMMA DivideSimulated ==
  ASSUME NEW c, NEW m, Simulates(c, m), NEW inst, inst.type \in DOMAIN DivResult
  PROVE  Simulates(CpuStep(CpuStep(CpuStep(CpuStep(c, Binary("MOV", RegOp(AX), Src1(inst))),
                                           NoOps("CDQ")),
                                   Unary("IDIV", Src2(inst))),
                           Binary("MOV", Dest(inst), RegOp(DivResult[inst.type]))),
                   IRStep(m, inst))
<1> DEFINE x1 == Binary("MOV", RegOp(AX), Src1(inst))
           x2 == NoOps("CDQ")
           x3 == Unary("IDIV", Src2(inst))
           x4 == Binary("MOV", Dest(inst), RegOp(DivResult[inst.type]))
           c1 == CpuStep(c, x1)
           c2 == CpuStep(c1, x2)
           c3 == CpuStep(c2, x3)
           c4 == CpuStep(c3, x4)
           n  == IRStep(m, inst)
           t  == inst.dest_id
           a  == OpValue(m, inst.src1)
           b  == OpValue(m, inst.src2)
           ax == <<"REGISTER", AX>>
           dx == <<"REGISTER", DX>>
           sg == IF a < 0 THEN -1 ELSE 0
<1>0. /\ inst.type # "LABEL" /\ Computes(inst) /\ inst.type \in {"DIVIDE", "REMAINDER"}
  BY DEF DivResult, Computes, ComputeTypes
<1>1. CASE ~(m.halted = FALSE /\ m.seek = NoLabel)
  <2>1. /\ x1.mnemonic # "DEFINE_LABEL" /\ x2.mnemonic # "DEFINE_LABEL"
        /\ x3.mnemonic # "DEFINE_LABEL" /\ x4.mnemonic # "DEFINE_LABEL"
    BY DEF Binary, Unary, NoOps
  <2> HIDE DEF x1, x2, x3, x4
  <2>2. n = m /\ CpuStep(c, x1) = c /\ CpuStep(c, x2) = c /\ CpuStep(c, x3) = c /\ CpuStep(c, x4) = c
    BY <1>0, <1>1, <2>1, BothIdle
  <2> QED
    BY <2>2 DEF x1, x2, x3, x4
<1>2. CASE m.halted = FALSE /\ m.seek = NoLabel
  <2>1. Runs(c) /\ IRRuns(m)
    BY <1>2, BothRun
  <2>2. Read(c, Src1(inst)) = a /\ Read(c, Src2(inst)) = b
    BY SameOperand DEF Src1, Src2, Simulates
  <2>3. ax # dx
    BY Places
  <2>4. Wrote(c1, c, ax, a)
    BY <2>1, <2>2, MovStep, Places
  <2>5. Runs(c1) /\ Simulates(c1, m)
    BY <2>1, <2>4, StillRuns, RegisterWritten
  <2>6. Cell(c1, ax) = a
    BY <2>4 DEF Wrote
  <2> HIDE DEF c1
  <2>7. Wrote(c2, c1, dx, sg)
    <3>1. Wrote(c2, c1, Place(RegOp(DX)), IF Cell(c1, <<"REGISTER", AX>>) < 0 THEN -1 ELSE 0)
      BY <2>5, CdqStep
    <3> QED
      BY <2>6, <3>1, Places
  <2>8. Runs(c2) /\ Simulates(c2, m)
    BY <2>5, <2>7, StillRuns, RegisterWritten
  <2> HIDE DEF sg
  <2>9. Cell(c2, dx) = sg /\ Cell(c2, ax) = a
    BY <2>3, <2>6, <2>7 DEF Wrote
  <2> HIDE DEF c2
  <2>10. Read(c2, Src2(inst)) = b
    BY <2>8, SameOperand DEF Src2, Simulates
  <2> HIDE DEF a, b
  <2>11. IF DivFaults(a, b)
         THEN /\ IsCpu(c3) /\ c3.seek = c2.seek /\ c3.frame = c2.frame
              /\ c3.halted = TRUE /\ c3.fault = TRUE /\ c3.result = c2.result
              /\ \A q : Cell(c3, q) = Cell(c2, q)
         ELSE \E u : Wrote(u, c2, ax, TruncDiv(a, b)) /\ Wrote(c3, u, dx, TruncRem(a, b))
    BY <2>8, <2>9, <2>10, IdivStep DEF sg
  <2> HIDE DEF c3
  <2>12. CASE DivFaults(a, b)
    <3>1. c3.halted = TRUE
      BY <2>11, <2>12
    <3>2. c4 = c3
      BY <3>1, SkipStep
    <3> DEFINE k == [m EXCEPT !.halted = TRUE, !.fault = TRUE]
    <3>3. IRStops(k, m) /\ k.fault = TRUE /\ k.result = m.result
      BY <2>1, IRFaults
    <3>4. IRExecute(m, inst) = k
      <4>1. IRDivides(inst.type, b, a)
        BY <1>0, <2>12 DEF IRDivides
      <4> HIDE DEF IRDivides
      <4>2. inst.type \notin {"LABEL", "RETURN", "COPY", "JUMP", "JUMP_ZERO", "JUMP_NOT_ZERO"}
        BY <1>0
      <4> QED
        BY <4>1, <4>2, Zenon DEF IRExecute, a, b
    <3> HIDE DEF k
    <3>5. n = k
      BY <2>1, <3>4, IRExecutes
    <3> HIDE DEF n, c4
    <3>6. Simulates(c4, n)
      BY <2>8, <2>11, <2>12, <3>2, <3>3, <3>5 DEF Simulates, IRStops
    <3> QED
      BY <3>6 DEF c4, c3, c2, c1, n
  <2>13. CASE ~DivFaults(a, b)
    <3>1. PICK u : Wrote(u, c2, ax, TruncDiv(a, b)) /\ Wrote(c3, u, dx, TruncRem(a, b))
      BY <2>11, <2>13
    <3>2. Runs(u) /\ Simulates(u, m)
      BY <2>8, <3>1, StillRuns, RegisterWritten
    <3>3. Runs(c3) /\ Simulates(c3, m)
      BY <3>1, <3>2, StillRuns, RegisterWritten
    <3>4. Cell(c3, ax) = TruncDiv(a, b) /\ Cell(c3, dx) = TruncRem(a, b)
      BY <2>3, <3>1 DEF Wrote
    <3>5. Wrote(c4, c3, Place(Dest(inst)), Read(c3, RegOp(DivResult[inst.type])))
      BY <3>3, MovStep
    <3>6. Place(Dest(inst)) = <<"PSEUDO", t>>
      BY Places DEF Dest
    <3> HIDE DEF c4, n
    <3>7. Read(c3, RegOp(DivResult[inst.type])) = IRCompute(inst.type, a, b)
      <4>1. CASE inst.type = "DIVIDE"
        <5>1. DivResult[inst.type] = AX
          BY <4>1 DEF DivResult
        <5>2. IRCompute(inst.type, a, b) = TruncDiv(a, b)
          BY <4>1, Zenon DEF IRCompute
        <5> QED
          BY <3>4, <5>1, <5>2, Places
      <4>2. CASE inst.type = "REMAINDER"
        <5>1. DivResult[inst.type] = DX
          BY <4>2 DEF DivResult
        <5>2. IRCompute(inst.type, a, b) = TruncRem(a, b)
          BY <4>2, Zenon DEF IRCompute
        <5> QED
          BY <3>4, <5>1, <5>2, Places
      <4> QED
        BY <1>0, <4>1, <4>2
    <3>8. n = SetTemp(m, t, IRCompute(inst.type, a, b))
      BY <1>0, <2>1, <2>13, ComputesSet DEF n, a, b, IRDivides
    <3>9. Simulates(c4, n)
      BY <3>3, <3>5, <3>6, <3>7, <3>8, PseudoWritten
    <3> QED
      BY <3>9 DEF c4, c3, c2, c1, n
  <2> QED
    BY <2>12, <2>13
<1> QED
  BY <1>1, <1>2

\* A label is passed; the one looked for ends the search in both.
LEMMA LabelSimulated ==
  ASSUME NEW c, NEW m, Simulates(c, m), NEW inst, inst.type = "LABEL"
  PROVE  Simulates(CpuStep(c, DefineLabel(inst.src1.label)), IRStep(m, inst))
<1> DEFINE l == inst.src1.label
           w == CpuStep(c, DefineLabel(l))
           n == IRStep(m, inst)
<1>0. /\ IsCpu(c) /\ IsIR(m) /\ c.halted = m.halted /\ m.halted \in BOOLEAN /\ c.seek = m.seek
  BY DEF Simulates
<1>1. Defines(inst) = {l}
  BY DEF Defines
<1>2. CASE m.halted = TRUE
  <2>1. n = m
    BY <1>2 DEF IRStep
  <2>2. w = c
    BY <1>0, <1>2, SkipStep
  <2> QED
    BY <2>1, <2>2
<1>3. CASE m.halted = FALSE
  <2>1. IF c.seek = l THEN Seeks(w, c, NoLabel) ELSE w = c
    BY <1>0, <1>3, LabelStep
  <2>2. IRSeeks([m EXCEPT !.seek = NoLabel], m, NoLabel)
    BY <1>0, IRSeekSeeks
  <2> HIDE DEF w
  <2>3. CASE m.seek = NoLabel
    <3>1. IRExecute(m, inst) = m
      BY Zenon DEF IRExecute, IRDivides
    <3>2. n = m
      BY <1>3, <2>3, <3>1 DEF IRStep
    <3> QED
      BY <1>0, <2>1, <2>3, <3>2 DEF Simulates, Seeks, w
  <2>4. CASE m.seek # NoLabel /\ m.seek = l
    <3>1. n = [m EXCEPT !.seek = NoLabel]
      BY <1>1, <1>3, <2>4 DEF IRStep
    <3> QED
      BY <1>0, <2>1, <2>2, <2>4, <3>1 DEF Simulates, Seeks, IRSeeks, w
  <2>5. CASE m.seek # NoLabel /\ m.seek # l
    <3>1. {l} # {m.seek}
      BY <2>5
    <3>2. n = m
      BY <1>1, <1>3, <2>5, <3>1 DEF IRStep
    <3> QED
      BY <1>0, <2>1, <2>5, <3>2 DEF w
  <2> QED
    BY <2>3, <2>4, <2>5
<1> QED
  BY <1>0, <1>2, <1>3

LEMMA JumpSimulated ==
  ASSUME NEW c, NEW m, Simulates(c, m), NEW inst, inst.type = "JUMP"
  PROVE  Simulates(CpuStep(c, Jump("JMP", inst.src1.label)), IRStep(m, inst))
<1> DEFINE l == inst.src1.label
           w == CpuStep(c, Jump("JMP", l))
           n == IRStep(m, inst)
<1>1. CASE ~(m.halted = FALSE /\ m.seek = NoLabel)
  BY <1>1, BothIdle, NoLabels
<1>2. CASE m.halted = FALSE /\ m.seek = NoLabel
  <2>1. Runs(c) /\ IRRuns(m)
    BY <1>2, BothRun
  <2>2. Seeks(w, c, l)
    BY <2>1, JmpStep
  <2>3. IRExecute(m, inst) = [m EXCEPT !.seek = l]
    BY Zenon DEF IRExecute, IRDivides
  <2>4. n = [m EXCEPT !.seek = l]
    BY <2>1, <2>3, IRExecutes
  <2>5. IRSeeks(n, m, l)
    BY <2>1, <2>4, IRSeekSeeks DEF IRRuns
  <2> HIDE DEF w, n
  <2>6. Simulates(w, n)
    BY <2>2, <2>5 DEF Simulates, Seeks, IRSeeks
  <2> QED
    BY <2>6 DEF w, n
<1> QED
  BY <1>1, <1>2

\* A conditional jump compares with zero.
LEMMA BranchSimulated ==
  ASSUME NEW c, NEW m, Simulates(c, m), NEW inst, inst.type \in {"JUMP_ZERO", "JUMP_NOT_ZERO"},
         NEW j, j = IF inst.type = "JUMP_ZERO" THEN "JE" ELSE "JNE"
  PROVE  Simulates(CpuStep(CpuStep(c, Binary("CMP", Src1(inst), ImmOp(0))), Jump(j, inst.src2.label)),
                   IRStep(m, inst))
<1> DEFINE l == inst.src2.label
           x == Binary("CMP", Src1(inst), ImmOp(0))
           y == Jump(j, l)
           u == CpuStep(c, x)
           w == CpuStep(u, y)
           n == IRStep(m, inst)
           a == OpValue(m, inst.src1)
           f == <<a, 0>>
<1>1. CASE ~(m.halted = FALSE /\ m.seek = NoLabel)
  <2>1. x.mnemonic # "DEFINE_LABEL" /\ y.mnemonic # "DEFINE_LABEL"
    BY DEF Binary, Unary, Jump
  <2> HIDE DEF x, y
  <2>2. n = m /\ CpuStep(c, x) = c /\ CpuStep(c, y) = c
    BY <1>1, <2>1, BothIdle
  <2> QED
    BY <2>2 DEF x, y
<1>2. CASE m.halted = FALSE /\ m.seek = NoLabel
  <2>1. Runs(c) /\ IRRuns(m)
    BY <1>2, BothRun
  <2>2. Read(c, Src1(inst)) = a /\ Read(c, ImmOp(0)) = 0
    BY SameOperand, Places DEF Src1, Simulates
  <2>3. /\ Runs(u) /\ u.frame = c.frame /\ u.fault = c.fault /\ u.result = c.result
        /\ u.flags = <<Read(c, Src1(inst)), Read(c, ImmOp(0))>>
        /\ \A q : Cell(u, q) = Cell(c, q)
    BY <2>1, CmpStep
  <2>4. u.flags = f /\ f # NoFlags /\ f[1] = a /\ f[2] = 0
    BY <2>2, <2>3, Compared
  <2>5. Simulates(u, m)
    BY <2>1, <2>3 DEF Simulates, Runs, IRRuns
  <2> HIDE DEF f, a, u
  <2>6. j \in {"JE", "JNE"}
    OBVIOUS
  <2>7. IF Holds(j, u.flags) THEN Seeks(w, u, l) ELSE w = u
    BY <2>3, <2>4, <2>6, ConditionalStep
  <2> DEFINE k == [m EXCEPT !.seek = l]
  <2>8. IRSeeks(k, m, l)
    BY <2>1, IRSeekSeeks DEF IRRuns
  <2>9. n = IF Holds(j, u.flags) THEN k ELSE m
    <3>1. CASE inst.type = "JUMP_ZERO"
      <4>1. Holds("JE", f) = (f[1] = f[2])
        BY Zenon DEF Holds
      <4>2. IRExecute(m, inst) = IF a = 0 THEN k ELSE m
        BY <3>1, Zenon DEF IRExecute, IRDivides, a
      <4> QED
        BY <2>1, <2>4, <3>1, <4>1, <4>2, IRExecutes
    <3>2. CASE inst.type = "JUMP_NOT_ZERO"
      <4>1. Holds("JNE", f) = (f[1] # f[2])
        BY Zenon DEF Holds
      <4>2. IRExecute(m, inst) = IF a # 0 THEN k ELSE m
        BY <3>2, Zenon DEF IRExecute, IRDivides, a
      <4> QED
        BY <2>1, <2>4, <3>2, <4>1, <4>2, IRExecutes
    <3> QED
      BY <3>1, <3>2
  <2> HIDE DEF w, n, k
  <2>10. Simulates(w, n)
    <3>1. CASE Holds(j, u.flags)
      BY <2>5, <2>7, <2>8, <2>9, <3>1 DEF Simulates, Seeks, IRSeeks
    <3>2. CASE ~Holds(j, u.flags)
      BY <2>5, <2>7, <2>9, <3>2
    <3> QED
      BY <3>1, <3>2
  <2> QED
    BY <2>10 DEF w, n, u
<1> QED
  BY <1>1, <1>2

-----------------------------------------------------------------------------
(* One step of the generator *)

\* Whatever has been selected for the code before an instruction of the IR, what
\* create_inst appends does what the instruction does.
LEMMA CreateSimulates ==
  ASSUME NEW p, IsCode(p), NEW junk, NEW m, Simulates(CpuRun(p, junk), m), NEW inst \in Generated
  PROVE  Simulates(CpuRun(p \o create_inst(inst), junk), IRStep(m, inst))
<1> DEFINE c == CpuRun(p, junk)
<1>1. /\ inst.type \in IRTypes
      /\ Computes(inst) => inst.dest_id \notin Reads(inst)
  BY DEF Generated, IRInstructions
<1>2. CASE inst.type = "RETURN"
  <2>1. create_inst(inst) = handle_return(inst)
    BY <1>2, Zenon DEF create_inst, UnaryMnemonic, BinaryMnemonic, SetMnemonic, DivResult
  <2> DEFINE x == Binary("MOV", RegOp(AX), Src1(inst))
             y == NoOps("RET")
  <2>2. Simulates(CpuStep(CpuStep(c, x), y), IRStep(m, inst))
    BY <1>2, ReturnSimulated
  <2>3. create_inst(inst) = <<x, y>>
    BY <2>1 DEF handle_return
  <2> HIDE DEF x, y
  <2> QED
    BY <2>2, <2>3, RunTwo
<1>3. CASE inst.type \in DOMAIN UnaryMnemonic
  <2>1. create_inst(inst) = generic_unary(inst)
    BY <1>3, Zenon DEF create_inst, UnaryMnemonic, BinaryMnemonic, SetMnemonic, DivResult
  <2> DEFINE x == Binary("MOV", Dest(inst), Src1(inst))
             y == Unary(UnaryMnemonic[inst.type], Dest(inst))
  <2>2. Simulates(CpuStep(CpuStep(c, x), y), IRStep(m, inst))
    BY <1>3, UnarySimulated
  <2>3. create_inst(inst) = <<x, y>>
    BY <2>1 DEF generic_unary
  <2> HIDE DEF x, y
  <2> QED
    BY <2>2, <2>3, RunTwo
<1>4. CASE inst.type \in DOMAIN BinaryMnemonic
  <2>1. create_inst(inst) = generic_binary(inst)
    BY <1>4, Zenon DEF create_inst, UnaryMnemonic, BinaryMnemonic, SetMnemonic, DivResult
  <2> DEFINE x == Binary("MOV", Dest(inst), Src1(inst))
             y == Binary(BinaryMnemonic[inst.type], Dest(inst), Src2(inst))
  <2>2. inst.src2.type = "TEMP" => inst.src2.value # inst.dest_id
    <3>1. Computes(inst) /\ inst.type # "COPY"
      BY <1>4 DEF BinaryMnemonic, Computes, ComputeTypes
    <3>2. inst.src2.type = "TEMP" => inst.src2.value \in Reads(inst)
      BY <3>1 DEF Reads
    <3> QED
      BY <1>1, <3>1, <3>2
  <2>3. Simulates(CpuStep(CpuStep(c, x), y), IRStep(m, inst))
    BY <1>4, <2>2, BinarySimulated
  <2>4. create_inst(inst) = <<x, y>>
    BY <2>1 DEF generic_binary
  <2> HIDE DEF x, y
  <2> QED
    BY <2>3, <2>4, RunTwo
<1>5. CASE inst.type \in DOMAIN SetMnemonic
  <2>1. create_inst(inst) = generic_conditional(inst)
    BY <1>5, Zenon DEF create_inst, UnaryMnemonic, BinaryMnemonic, SetMnemonic, DivResult
  <2> DEFINE s == IF inst.type = "LOGICAL_NOT" THEN ImmOp(0) ELSE Src2(inst)
             x == Binary("CMP", Src1(inst), s)
             y == Binary("MOV", Dest(inst), ImmOp(0))
             z == Unary(SetMnemonic[inst.type], Dest(inst))
  <2>2. Simulates(CpuStep(CpuStep(CpuStep(c, x), y), z), IRStep(m, inst))
    BY <1>5, ConditionalSimulated
  <2>3. create_inst(inst) = <<x, y, z>>
    BY <2>1 DEF generic_conditional
  <2> HIDE DEF x, y, z
  <2> QED
    BY <2>2, <2>3, RunThree
<1>6. CASE inst.type = "COPY"
  <2>1. create_inst(inst) = generic_copy(inst)
    BY <1>6, Zenon DEF create_inst, UnaryMnemonic, BinaryMnemonic, SetMnemonic, DivResult
  <2> DEFINE x == Binary("MOV", PseudoOp(inst.src1.value), Src2(inst))
  <2>2. Simulates(CpuStep(c, x), IRStep(m, inst))
    BY <1>6, CopySimulated
  <2>3. create_inst(inst) = <<x>>
    BY <2>1 DEF generic_copy
  <2> HIDE DEF x
  <2> QED
    BY <2>2, <2>3, RunOne
<1>7. CASE inst.type \in DOMAIN DivResult
  <2>1. create_inst(inst) = generic_binary_div_rem(inst)
    BY <1>7, Zenon DEF create_inst, UnaryMnemonic, BinaryMnemonic, SetMnemonic, DivResult
  <2> DEFINE x == Binary("MOV", RegOp(AX), Src1(inst))
             y == NoOps("CDQ")
             z == Unary("IDIV", Src2(inst))
             u == Binary("MOV", Dest(inst), RegOp(DivResult[inst.type]))
  <2>2. Simulates(CpuStep(CpuStep(CpuStep(CpuStep(c, x), y), z), u), IRStep(m, inst))
    BY <1>7, DivideSimulated
  <2>3. create_inst(inst) = <<x, y, z, u>>
    BY <2>1 DEF generic_binary_div_rem
  <2> HIDE DEF x, y, z, u
  <2> QED
    BY <2>2, <2>3, RunFour
<1>8. CASE inst.type = "LABEL"
  <2>1. create_inst(inst) = handle_label(inst)
    BY <1>8, Zenon DEF create_inst, UnaryMnemonic, BinaryMnemonic, SetMnemonic, DivResult
  <2> DEFINE x == DefineLabel(inst.src1.label)
  <2>2. Simulates(CpuStep(c, x), IRStep(m, inst))
    BY <1>8, LabelSimulated
  <2>3. create_inst(inst) = <<x>>
    BY <2>1 DEF handle_label
  <2> HIDE DEF x
  <2> QED
    BY <2>2, <2>3, RunOne
<1>9. CASE inst.type = "JUMP"
  <2>1. create_inst(inst) = generic_jump(inst)
    BY <1>9, Zenon DEF create_inst, UnaryMnemonic, BinaryMnemonic, SetMnemonic, DivResult
  <2> DEFINE x == Jump("JMP", inst.src1.label)
  <2>2. Simulates(CpuStep(c, x), IRStep(m, inst))
    BY <1>9, JumpSimulated
  <2>3. create_inst(inst) = <<x>>
    BY <1>9, <2>1 DEF generic_jump
  <2> HIDE DEF x
  <2> QED
    BY <2>2, <2>3, RunOne
<1>10. CASE inst.type \in {"JUMP_ZERO", "JUMP_NOT_ZERO"}
  <2>1. create_inst(inst) = generic_jump(inst)
    BY <1>10, Zenon DEF create_inst, UnaryMnemonic, BinaryMnemonic, SetMnemonic, DivResult
  <2> DEFINE h == IF inst.type = "JUMP_ZERO" THEN "JE" ELSE "JNE"
             x == Binary("CMP", Src1(inst), ImmOp(0))
             y == Jump(h, inst.src2.label)
  <2>2. Simulates(CpuStep(CpuStep(c, x), y), IRStep(m, inst))
    BY <1>10, BranchSimulated
  <2>3. create_inst(inst) = <<x, y>>
    BY <1>10, <2>1 DEF generic_jump
  <2> HIDE DEF x, y
  <2> QED
    BY <2>2, <2>3, RunTwo
<1>11. \/ inst.type \in {"RETURN", "COPY", "LABEL", "JUMP", "JUMP_ZERO", "JUMP_NOT_ZERO"}
       \/ inst.type \in DOMAIN UnaryMnemonic \/ inst.type \in DOMAIN BinaryMnemonic
       \/ inst.type \in DOMAIN SetMnemonic \/ inst.type \in DOMAIN DivResult
  BY <1>1 DEF IRTypes, ComputeTypes, UnaryMnemonic, BinaryMnemonic, SetMnemonic, DivResult
<1> QED
  BY <1>2, <1>3, <1>4, <1>5, <1>6, <1>7, <1>8, <1>9, <1>10, <1>11

\* Both machines start alike.
LEMMA StartSimulates ==
  ASSUME NEW junk
  PROVE  Simulates(CpuInit(junk), MachineInit(junk))
<1>1. IsCpu(CpuInit(junk)) /\ IsIR(MachineInit(junk))
  BY DEF IsCpu, IsIR, CpuInit, MachineInit
<1>2. ASSUME NEW t PROVE Cell(CpuInit(junk), <<"PSEUDO", t>>) = junk /\ TempValue(MachineInit(junk), t) = junk
  BY DEF Cell, TempValue, CpuInit, MachineInit
<1> QED
  BY <1>1, <1>2 DEF Simulates, CpuInit, MachineInit

-----------------------------------------------------------------------------
(* x86_64_create_prog: selection, and allocation on what it has selected *)

\* While code is being selected, it does what the IR so far does.
Selecting ==
  pass = "gen" =>
    /\ irCode \in Seq(Generated)
    /\ at \in 1..Len(irCode)+1
    /\ prog \in Seq(Selected)
    /\ \A junk \in Junk : Simulates(CpuRun(prog, junk), IRRun(irCode, at - 1, junk))

LEMMA SelectingStarts ==
  ASSUME irCode \in Seq(Generated), at = 1, prog = <<>>
  PROVE  Selecting
<1>1. prog \in Seq(Selected) /\ at \in 1..Len(irCode)+1 /\ at - 1 = 0
  OBVIOUS
<1>2. ASSUME NEW junk \in Junk PROVE Simulates(CpuRun(prog, junk), IRRun(irCode, at - 1, junk))
  BY <1>1, StartSimulates, CpuRunNothing, IRRunNothing
<1> QED
  BY <1>1, <1>2 DEF Selecting

LEMMA CreateInstSelects ==
  ASSUME Selecting, CreateInst
  PROVE  Selecting'
<1>1. /\ pass = "gen" /\ at <= Len(irCode) /\ prog' = prog \o create_inst(irCode[at])
      /\ at' = at + 1 /\ irCode' = irCode /\ pass' = pass
  BY DEF CreateInst
<1>2. /\ irCode \in Seq(Generated) /\ at \in 1..Len(irCode)+1 /\ prog \in Seq(Selected)
      /\ \A junk \in Junk : Simulates(CpuRun(prog, junk), IRRun(irCode, at - 1, junk))
  BY <1>1 DEF Selecting
<1>3. at' \in 1..Len(irCode)+1 /\ at \in 1..Len(irCode) /\ at - 1 \in Nat /\ (at - 1) + 1 = at
      /\ at' - 1 = at
  BY <1>1, <1>2
<1> HIDE DEF Generated, Selected
<1>4. irCode[at] \in Generated /\ irCode[at] \in IRInstructions
  <2>1. irCode[at] \in Generated
    BY <1>2, <1>3
  <2> QED
    BY <2>1 DEF Generated
<1>5. create_inst(irCode[at]) \in Seq(Selected)
  BY <1>4, GeneratorSelects
<1>6. prog' \in Seq(Selected)
  BY <1>1, <1>2, <1>5, Concatenation
<1>7. IsCode(prog)
  BY <1>2 DEF IsCode
<1>8. ASSUME NEW junk \in Junk PROVE Simulates(CpuRun(prog', junk), IRRun(irCode, at, junk))
  <2> DEFINE m == IRRun(irCode, at - 1, junk)
  <2>1. Simulates(CpuRun(prog, junk), m)
    BY <1>2
  <2>2. IRRun(irCode, at, junk) = IRStep(m, irCode[at])
    BY <1>3, IRRunNext
  <2> HIDE DEF m
  <2> QED
    BY <1>1, <1>4, <1>7, <2>1, <2>2, CreateSimulates
<1>9. \A junk \in Junk : Simulates(CpuRun(prog', junk), IRRun(irCode', at' - 1, junk))
  BY <1>1, <1>3, <1>8
<1> QED
  BY <1>1, <1>2, <1>3, <1>6, <1>9 DEF Selecting

\* Once allocation has begun, it does not go back.
LEMMA AllocationGoesOn == Next => pass # "gen" /\ pass' # "gen"
<1> SUFFICES ASSUME Next PROVE pass # "gen" /\ pass' # "gen"
  OBVIOUS
<1>1. CASE MapInstruction \/ MapOutOfBounds \/ MapDone \/ StackAlloc
  BY <1>1 DEF MapInstruction, MapOutOfBounds, MapDone, StackAlloc
<1>2. CASE FixAddrAddr \/ FixImul \/ FixIdiv \/ FixShift \/ FixCmp
  <2>1. pass \in {"addr_addr", "imul", "idiv", "shift", "cmp"} /\ pass' = pass
    BY <1>2 DEF FixAddrAddr, FixImul, FixIdiv, FixShift, FixCmp, FixInstruction
  <2> QED
    BY <2>1
<1>3. CASE PassDone
  BY <1>3 DEF PassDone, NextPass
<1> QED
  BY <1>1, <1>2, <1>3 DEF Next

LEMMA NextSelects == Selecting /\ [CodeGenNext]_codeGenVars => Selecting'
<1> SUFFICES ASSUME Selecting, [CodeGenNext]_codeGenVars PROVE Selecting'
  OBVIOUS
<1>1. CASE CreateInst
  BY <1>1, CreateInstSelects
<1>2. CASE StartRegAlloc
  BY <1>2 DEF StartRegAlloc, Selecting
<1>3. CASE RegAllocStep
  BY <1>3, AllocationGoesOn DEF RegAllocStep, Selecting
<1>4. CASE EmitInstruction
  BY <1>4 DEF EmitInstruction, Selecting
<1>5. CASE UNCHANGED codeGenVars
  BY <1>5 DEF codeGenVars, vars, Selecting
<1> QED
  BY <1>1, <1>2, <1>3, <1>4, <1>5 DEF CodeGenNext

LEMMA SelectingIsRight == Selecting => PrefixSimulates
<1> SUFFICES ASSUME Selecting, pass = "gen", NEW junk \in Junk
             PROVE  LET cpu == CpuRun(prog, junk)
                        m   == IRRun(irCode, at - 1, junk)
                    IN /\ cpu.halted = m.halted /\ cpu.fault = m.fault /\ cpu.seek = m.seek
                       /\ m.halted => cpu.result = m.result
                       /\ \A t \in DOMAIN m.temps : Cell(cpu, <<"PSEUDO", t>>) = m.temps[t]
  BY DEF PrefixSimulates, SameMemory
<1> DEFINE cpu == CpuRun(prog, junk)
           m   == IRRun(irCode, at - 1, junk)
<1>1. Simulates(cpu, m)
  BY DEF Selecting
<1> HIDE DEF cpu, m
<1>2. \A t \in DOMAIN m.temps : TempValue(m, t) = m.temps[t]
  BY DEF TempValue
<1>3. /\ cpu.halted = m.halted /\ cpu.fault = m.fault /\ cpu.seek = m.seek /\ cpu.result = m.result
      /\ \A t \in DOMAIN m.temps : Cell(cpu, <<"PSEUDO", t>>) = m.temps[t]
  BY <1>1, <1>2 DEF Simulates
<1> QED
  BY <1>3 DEF cpu, m

\* Instruction selection is right: whatever the IR that the generator emits, and
\* however long, after every create_inst the code so far does what the IR so far
\* does, instruction by instruction, for every word of junk.
THEOREM SelectionSimulates ==
  ASSUME IRPrograms \subseteq Seq(Generated)
  PROVE  CodeGenSpec => []PrefixSimulates
<1>1. CodeGenInit => Selecting
  BY SelectingStarts DEF CodeGenInit, NothingSelected
<1>2. Selecting /\ [CodeGenNext]_codeGenVars => Selecting'
  BY NextSelects
<1>3. Selecting => PrefixSimulates
  BY SelectingIsRight
<1> QED
  BY <1>1, <1>2, <1>3, PTL DEF CodeGenSpec

-----------------------------------------------------------------------------
(* The processor on any instruction: what it reads, writes and changes *)

\* The fields of the processor's state.
CpuFields == {"cells", "junk", "flags", "seek", "frame", "halted", "fault", "result"}

\* m is a state of the processor, with fields of its own perhaps.
IsMachine(m) == /\ m = [x \in DOMAIN m |-> m[x]] /\ CpuFields \subseteq DOMAIN m
                /\ m.halted \in BOOLEAN

\* w is m but for some fields.
Changed(w, m, F) == /\ w = [x \in DOMAIN w |-> w[x]] /\ DOMAIN w = DOMAIN m
                    /\ \A x \in DOMAIN m \ F : w[x] = m[x]

LEMMA FieldChanged ==
  ASSUME NEW m, m = [x \in DOMAIN m |-> m[x]], NEW y \in DOMAIN m, NEW v
  PROVE  /\ Changed([m EXCEPT ![y] = v], m, {y}) /\ [m EXCEPT ![y] = v][y] = v
BY DEF Changed

LEMMA SeekWritten ==
  ASSUME NEW m, IsMachine(m), NEW l
  PROVE  Changed([m EXCEPT !.seek = l], m, {"seek"}) /\ [m EXCEPT !.seek = l].seek = l
BY DEF Changed, IsMachine, CpuFields

LEMMA FlagsSet ==
  ASSUME NEW m, IsMachine(m), NEW f
  PROVE  Changed([m EXCEPT !.flags = f], m, {"flags"}) /\ [m EXCEPT !.flags = f].flags = f
BY DEF Changed, IsMachine, CpuFields

LEMMA Crashed ==
  ASSUME NEW m, IsMachine(m)
  PROVE  /\ Changed(Crash(m), m, {"halted", "fault"})
         /\ Crash(m).halted = TRUE /\ Crash(m).fault = TRUE
BY DEF Changed, IsMachine, CpuFields, Crash

LEMMA SameFields ==
  ASSUME NEW m, IsMachine(m), NEW w, NEW F, Changed(w, m, F)
  PROVE  /\ "halted" \notin F => w.halted = m.halted
         /\ "seek" \notin F => w.seek = m.seek
         /\ "frame" \notin F => w.frame = m.frame
         /\ "result" \notin F => w.result = m.result
         /\ "fault" \notin F => w.fault = m.fault
         /\ "flags" \notin F => w.flags = m.flags
         /\ "junk" \notin F => w.junk = m.junk
         /\ "cells" \notin F => w.cells = m.cells
BY DEF Changed, IsMachine, CpuFields

LEMMA Twice ==
  ASSUME NEW u, NEW v, NEW w, NEW F, NEW H, Changed(v, u, F), Changed(w, v, H)
  PROVE  Changed(w, u, F \cup H)
BY DEF Changed

\* A write changes one cell.
LEMMA CellWritten ==
  ASSUME NEW m, IsMachine(m), NEW op, NEW v
  PROVE  /\ Changed(WriteTo(m, op, v), m, {"cells"})
         /\ \A q : Cell(WriteTo(m, op, v), q) = IF q = Place(op) THEN v ELSE Cell(m, q)
<1> DEFINE p == Place(op)
           d == [c \in DOMAIN m.cells \cup {p} |-> IF c = p THEN v ELSE m.cells[c]]
           w == [m EXCEPT !.cells = d]
<1>1. WriteTo(m, op, v) = w
  BY DEF WriteTo
<1>2. /\ DOMAIN d = DOMAIN m.cells \cup {p}
      /\ d[p] = v /\ \A c \in DOMAIN m.cells : c # p => d[c] = m.cells[c]
  OBVIOUS
<1> HIDE DEF p, d
<1>3. Changed(w, m, {"cells"}) /\ w.cells = d
  BY DEF Changed, IsMachine, CpuFields
<1>4. w.junk = m.junk
  BY <1>3, SameFields
<1> HIDE DEF w
<1>5. ASSUME NEW q PROVE Cell(w, q) = IF q = p THEN v ELSE Cell(m, q)
  BY <1>2, <1>3, <1>4 DEF Cell
<1> QED
  BY <1>1, <1>3, <1>5 DEF p

\* What an instruction of the code does, by the words and the flags that it reads.
Ordinary     == Mnemonics \ {"RET", "ALLOCATE_STACK", "DEALLOCATE_STACK"}
Destinations == (BinaryMnemonics \ {"CMP"}) \cup {"NEG", "NOT"} \cup SetMnemonics
Ax           == <<"REGISTER", AX>>
Dx           == <<"REGISTER", DX>>

WrittenBy(inst) ==
  IF inst.mnemonic \in Destinations THEN {Place(inst.dst)}
  ELSE IF inst.mnemonic = "CDQ" THEN {Dx}
  ELSE IF inst.mnemonic = "IDIV" THEN {Ax, Dx} ELSE {}

Sign(v) == IF v < 0 THEN -1 ELSE 0

Crashes(op, a, ax, dx, f) ==
  \/ op \in SetMnemonics \cup {"JE", "JNE"} /\ f = NoFlags
  \/ op = "IDIV" /\ (DivFaults(ax, a) \/ dx # Sign(ax))

WordAt(p, op, a, b, ax, f) ==
  CASE op = "NEG" -> Wrap(-a)
    [] op = "NOT" -> BitNot(a)
    [] op \in SetMnemonics -> SetLowByte(a, Truth(Holds(op, f)))
    [] op = "CDQ" -> Sign(ax)
    [] op = "IDIV" -> (IF p = Ax THEN TruncDiv(ax, a) ELSE TruncRem(ax, a))
    [] OTHER -> Arithmetic(op, a, b)

FlagsAfter(op, a, b, f) ==
  CASE op = "CMP" -> <<a, b>>
    [] op \in JumpMnemonics \cup {"DEFINE_LABEL"} -> f
    [] OTHER -> (IF KeepsFlags(op) THEN f ELSE NoFlags)

SeekAfter(op, l, f) ==
  IF op = "JMP" \/ (op \in {"JE", "JNE"} /\ Holds(op, f)) THEN l ELSE NoLabel

Effect(w, m, inst, a, b, ax, dx) ==
  LET op == inst.mnemonic
  IN /\ Changed(w, m, {"cells", "flags", "seek", "halted", "fault"})
     /\ IF Crashes(op, a, ax, dx, m.flags)
        THEN w.halted = TRUE /\ w.fault = TRUE
        ELSE /\ w.halted = FALSE /\ w.fault = m.fault
             /\ w.seek = SeekAfter(op, inst.dst.label, m.flags)
             /\ w.flags = FlagsAfter(op, a, b, m.flags)
             /\ \A p : Cell(w, p) = IF p \in WrittenBy(inst) THEN WordAt(p, op, a, b, ax, m.flags)
                                     ELSE Cell(m, p)

Going(m) == IsMachine(m) /\ m.halted = FALSE /\ m.seek = NoLabel

\* A crash
LEMMA CrashEffect ==
  ASSUME NEW m, Going(m), NEW inst, NEW a, NEW b, NEW ax, NEW dx,
         Crashes(inst.mnemonic, a, ax, dx, m.flags)
  PROVE  /\ Effect(Crash(m), m, inst, a, b, ax, dx)
         /\ \A op : Effect(SetFlags(Crash(m), op), m, inst, a, b, ax, dx)
<1> DEFINE c == Crash(m)
<1>1. Changed(c, m, {"halted", "fault"}) /\ c.halted = TRUE /\ c.fault = TRUE
  BY Crashed DEF Going
<1>2. IsMachine(c)
  BY <1>1 DEF Changed, IsMachine, CpuFields, Going
<1> HIDE DEF c
<1>3. Effect(c, m, inst, a, b, ax, dx)
  <2>1. Changed(c, m, {"cells", "flags", "seek", "halted", "fault"})
    BY <1>1 DEF Changed
  <2> QED
    BY <1>1, <2>1 DEF Effect
<1>4. ASSUME NEW op PROVE Effect(SetFlags(c, op), m, inst, a, b, ax, dx)
  <2> DEFINE u == [c EXCEPT !.flags = NoFlags]
  <2>1. Changed(u, c, {"flags"})
    BY <1>2, FlagsSet
  <2> HIDE DEF u
  <2>2. u.halted = TRUE /\ u.fault = TRUE
    BY <1>1, <1>2, <2>1, SameFields
  <2>3. Changed(u, m, {"cells", "flags", "seek", "halted", "fault"})
    BY <1>1, <2>1 DEF Changed
  <2>4. Effect(u, m, inst, a, b, ax, dx)
    BY <2>2, <2>3 DEF Effect
  <2> QED
    BY <1>3, <2>4 DEF SetFlags, u
<1> QED
  BY <1>3, <1>4 DEF c

\* Nothing changed but the cells, the flags and the label that is looked for.
LEMMA PlainEffect ==
  ASSUME NEW m, Going(m), NEW inst, NEW a, NEW b, NEW ax, NEW dx,
         ~Crashes(inst.mnemonic, a, ax, dx, m.flags), NEW w,
         Changed(w, m, {"cells", "flags", "seek"}),
         w.seek = SeekAfter(inst.mnemonic, inst.dst.label, m.flags),
         w.flags = FlagsAfter(inst.mnemonic, a, b, m.flags),
         \A p : Cell(w, p) = IF p \in WrittenBy(inst)
                             THEN WordAt(p, inst.mnemonic, a, b, ax, m.flags) ELSE Cell(m, p)
  PROVE  Effect(w, m, inst, a, b, ax, dx)
<1>1. w.halted = m.halted /\ w.fault = m.fault
  BY SameFields DEF Going
<1>2. Changed(w, m, {"cells", "flags", "seek", "halted", "fault"})
  BY DEF Changed
<1> QED
  BY <1>1, <1>2 DEF Effect, Going

\* A write with its flags.
LEMMA WriteEffect ==
  ASSUME NEW m, Going(m), NEW op, NEW v, NEW mnem
  PROVE  LET w == SetFlags(WriteTo(m, op, v), mnem)
         IN /\ Changed(w, m, {"cells", "flags", "seek"}) /\ w.seek = NoLabel
            /\ w.flags = IF KeepsFlags(mnem) THEN m.flags ELSE NoFlags
            /\ \A q : Cell(w, q) = IF q = Place(op) THEN v ELSE Cell(m, q)
<1> DEFINE u == WriteTo(m, op, v)
<1>0. IsMachine(m)
  BY DEF Going
<1>1. Changed(u, m, {"cells"}) /\ \A q : Cell(u, q) = IF q = Place(op) THEN v ELSE Cell(m, q)
  BY <1>0, CellWritten
<1> HIDE DEF u
<1>2. /\ IsMachine(u) /\ u.seek = NoLabel /\ u.flags = m.flags
      /\ Changed(u, m, {"cells", "flags", "seek"})
  <2>1. u.halted = m.halted /\ u.seek = m.seek /\ u.flags = m.flags
    BY <1>0, <1>1, SameFields
  <2>2. Changed(u, m, {"cells", "flags", "seek"})
    BY <1>1 DEF Changed
  <2> QED
    BY <1>0, <1>1, <2>1, <2>2 DEF Changed, IsMachine, Going
<1>3. CASE KeepsFlags(mnem)
  BY <1>1, <1>2, <1>3 DEF SetFlags, u
<1>4. CASE ~KeepsFlags(mnem)
  <2> DEFINE w == [u EXCEPT !.flags = NoFlags]
  <2>1. Changed(w, u, {"flags"}) /\ w.flags = NoFlags
    BY <1>2, FlagsSet
  <2> HIDE DEF w
  <2>2. w.seek = u.seek /\ w.cells = u.cells /\ w.junk = u.junk
    BY <1>2, <2>1, SameFields
  <2>3. \A q : Cell(w, q) = Cell(u, q)
    BY <2>2 DEF Cell
  <2>4. Changed(w, m, {"cells", "flags", "seek"})
    BY <1>1, <2>1 DEF Changed
  <2>5. SetFlags(u, mnem) = w
    BY <1>4 DEF SetFlags, w
  <2> QED
    BY <1>1, <1>2, <1>4, <2>1, <2>2, <2>3, <2>4, <2>5 DEF u
<1> QED
  BY <1>3, <1>4

\* The kinds of instructions.
LEMMA Kinds ==
  ASSUME NEW op \in Ordinary
  PROVE  \/ op = "DEFINE_LABEL" \/ op \in JumpMnemonics \/ op = "CMP" \/ op \in SetMnemonics
         \/ op = "NEG" \/ op = "NOT" \/ op = "CDQ" \/ op = "IDIV"
         \/ op \in BinaryMnemonics \ {"CMP"}
BY DEF Ordinary, Mnemonics, UnaryMnemonics

\* A label.
LEMMA LabelEffect ==
  ASSUME NEW m, Going(m), NEW inst, inst.mnemonic = "DEFINE_LABEL"
  PROVE  Effect(CpuExecute(m, inst), m, inst, Read(m, inst.dst), Read(m, inst.src), Cell(m, Ax), Cell(m, Dx))
<1> DEFINE op == inst.mnemonic
           a  == Read(m, inst.dst)
           b  == Read(m, inst.src)
           ax == Cell(m, Ax)
           dx == Cell(m, Dx)
           f  == m.flags
<1>1. CpuExecute(m, inst) = m
  BY Zenon DEF CpuExecute, SetMnemonics
<1>2. /\ ~Crashes(op, a, ax, dx, f) /\ SeekAfter(op, inst.dst.label, f) = NoLabel /\ FlagsAfter(op, a, b, f) = f
      /\ WrittenBy(inst) = {}
  BY DEF Crashes, SeekAfter, FlagsAfter, WrittenBy, Destinations, BinaryMnemonics, SetMnemonics, JumpMnemonics
<1>3. Changed(m, m, {"cells", "flags", "seek"}) /\ m.seek = NoLabel
  BY DEF Changed, Going, IsMachine
<1> HIDE DEF op, a, b, ax, dx, f
<1>4. Effect(m, m, inst, a, b, ax, dx)
  BY <1>2, <1>3, PlainEffect DEF op, f
<1> QED
  BY <1>1, <1>4 DEF a, b, ax, dx

\* A jump, taken or not, or without a comparison.
LEMMA JumpEffect ==
  ASSUME NEW m, Going(m), NEW inst, inst.mnemonic \in JumpMnemonics
  PROVE  Effect(CpuExecute(m, inst), m, inst, Read(m, inst.dst), Read(m, inst.src), Cell(m, Ax), Cell(m, Dx))
<1> DEFINE op == inst.mnemonic
           a  == Read(m, inst.dst)
           b  == Read(m, inst.src)
           ax == Cell(m, Ax)
           dx == Cell(m, Dx)
           f  == m.flags
           l  == inst.dst.label
           t  == [m EXCEPT !.seek = l]
<1>1. /\ op = "JMP" => CpuExecute(m, inst) = t
      /\ op # "JMP" => CpuExecute(m, inst) = IF f = NoFlags THEN Crash(m) ELSE IF Holds(op, f) THEN t ELSE m
  <2>1. op = "JMP" \/ op \in {"JE", "JNE"}
    BY DEF JumpMnemonics
  <2>2. CASE op = "JMP"
    BY <2>2, Zenon DEF CpuExecute, SetMnemonics
  <2>3. CASE op \in {"JE", "JNE"}
    BY <2>3, Zenon DEF CpuExecute, SetMnemonics
  <2> QED
    BY <2>1, <2>2, <2>3
<1>2. /\ Crashes(op, a, ax, dx, f) <=> op # "JMP" /\ f = NoFlags
      /\ SeekAfter(op, l, f) = (IF op = "JMP" \/ Holds(op, f) THEN l ELSE NoLabel)
      /\ FlagsAfter(op, a, b, f) = f /\ WrittenBy(inst) = {}
  BY DEF Crashes, SeekAfter, FlagsAfter, WrittenBy, Destinations, BinaryMnemonics, SetMnemonics, JumpMnemonics
<1>3. /\ Changed(m, m, {"cells", "flags", "seek"}) /\ m.seek = NoLabel /\ m.flags = f
      /\ Changed(t, m, {"seek"}) /\ t.seek = l
  BY SeekWritten DEF Changed, Going, IsMachine
<1>4. t.flags = f /\ t.cells = m.cells /\ t.junk = m.junk /\ Changed(t, m, {"cells", "flags", "seek"})
  <2> HIDE DEF t
  <2> QED
    BY <1>3, SameFields DEF Changed, Going
<1> HIDE DEF t
<1>5. \A q : Cell(t, q) = Cell(m, q)
  BY <1>4 DEF Cell
<1> HIDE DEF op, a, b, ax, dx, f, l
<1>6. CASE op # "JMP" /\ f = NoFlags
  <2>1. Effect(Crash(m), m, inst, a, b, ax, dx)
    BY <1>2, <1>6, CrashEffect DEF op, f
  <2> QED
    BY <1>1, <1>6, <2>1 DEF a, b, ax, dx
<1>7. CASE op = "JMP" \/ (f # NoFlags /\ Holds(op, f))
  <2>1. Effect(t, m, inst, a, b, ax, dx)
    BY <1>2, <1>3, <1>4, <1>5, <1>7, PlainEffect DEF op, f, l
  <2> QED
    BY <1>1, <1>7, <2>1 DEF a, b, ax, dx
<1>8. CASE op # "JMP" /\ f # NoFlags /\ ~Holds(op, f)
  <2>1. Effect(m, m, inst, a, b, ax, dx)
    BY <1>2, <1>3, <1>8, PlainEffect DEF op, f, l
  <2> QED
    BY <1>1, <1>8, <2>1 DEF a, b, ax, dx
<1> QED
  BY <1>6, <1>7, <1>8

\* A comparison.
LEMMA CompareEffect ==
  ASSUME NEW m, Going(m), NEW inst, inst.mnemonic = "CMP"
  PROVE  Effect(CpuExecute(m, inst), m, inst, Read(m, inst.dst), Read(m, inst.src), Cell(m, Ax), Cell(m, Dx))
<1> DEFINE op == inst.mnemonic
           a  == Read(m, inst.dst)
           b  == Read(m, inst.src)
           ax == Cell(m, Ax)
           dx == Cell(m, Dx)
           f  == m.flags
           t  == [m EXCEPT !.flags = <<a, b>>]
<1>1. CpuExecute(m, inst) = t
  BY Zenon DEF CpuExecute, SetMnemonics
<1>2. /\ ~Crashes(op, a, ax, dx, f) /\ SeekAfter(op, inst.dst.label, f) = NoLabel
      /\ FlagsAfter(op, a, b, f) = <<a, b>> /\ WrittenBy(inst) = {}
  BY DEF Crashes, SeekAfter, FlagsAfter, WrittenBy, Destinations, BinaryMnemonics, SetMnemonics, JumpMnemonics
<1>3. Changed(t, m, {"flags"}) /\ t.flags = <<a, b>>
  BY FlagsSet DEF Going
<1> HIDE DEF t
<1>4. t.seek = NoLabel /\ t.cells = m.cells /\ t.junk = m.junk /\ Changed(t, m, {"cells", "flags", "seek"})
  BY <1>3, SameFields DEF Changed, Going
<1>5. \A q : Cell(t, q) = Cell(m, q)
  BY <1>4 DEF Cell
<1> HIDE DEF op, a, b, ax, dx, f
<1>6. Effect(t, m, inst, a, b, ax, dx)
  BY <1>2, <1>3, <1>4, <1>5, PlainEffect DEF op, f
<1> QED
  BY <1>1, <1>6 DEF a, b, ax, dx

\* A negation.
LEMMA NegEffect ==
  ASSUME NEW m, Going(m), NEW inst, inst.mnemonic = "NEG"
  PROVE  Effect(CpuExecute(m, inst), m, inst, Read(m, inst.dst), Read(m, inst.src), Cell(m, Ax), Cell(m, Dx))
<1> DEFINE op == inst.mnemonic
           a  == Read(m, inst.dst)
           b  == Read(m, inst.src)
           ax == Cell(m, Ax)
           dx == Cell(m, Dx)
           f  == m.flags
           v  == Wrap(-a)
<1>1. CpuExecute(m, inst) = SetFlags(WriteTo(m, inst.dst, v), op)
  BY Zenon DEF CpuExecute, SetMnemonics, BinaryMnemonics
<1>2. TRUE
  OBVIOUS
<1>3. /\ ~Crashes(op, a, ax, dx, f) /\ SeekAfter(op, inst.dst.label, f) = NoLabel
      /\ FlagsAfter(op, a, b, f) = (IF KeepsFlags(op) THEN f ELSE NoFlags)
      /\ WrittenBy(inst) = {Place(inst.dst)}
  BY DEF Crashes, SeekAfter, FlagsAfter, WrittenBy, Destinations, BinaryMnemonics, SetMnemonics, JumpMnemonics
<1>4. \A p : WordAt(p, op, a, b, ax, f) = v
  BY Zenon DEF WordAt, SetMnemonics
<1> DEFINE w == SetFlags(WriteTo(m, inst.dst, v), op)
<1> HIDE DEF op, a, b, ax, dx, f, v
<1>5. /\ Changed(w, m, {"cells", "flags", "seek"}) /\ w.seek = NoLabel
      /\ w.flags = (IF KeepsFlags(op) THEN m.flags ELSE NoFlags)
      /\ \A q : Cell(w, q) = IF q = Place(inst.dst) THEN v ELSE Cell(m, q)
  BY WriteEffect
<1> HIDE DEF w
<1>6. Effect(w, m, inst, a, b, ax, dx)
  BY <1>3, <1>4, <1>5, PlainEffect DEF op, f
<1> QED
  BY <1>1, <1>2, <1>6 DEF w, a, b, ax, dx, op, v

\* A complement.
LEMMA NotEffect ==
  ASSUME NEW m, Going(m), NEW inst, inst.mnemonic = "NOT"
  PROVE  Effect(CpuExecute(m, inst), m, inst, Read(m, inst.dst), Read(m, inst.src), Cell(m, Ax), Cell(m, Dx))
<1> DEFINE op == inst.mnemonic
           a  == Read(m, inst.dst)
           b  == Read(m, inst.src)
           ax == Cell(m, Ax)
           dx == Cell(m, Dx)
           f  == m.flags
           v  == BitNot(a)
<1>1. CpuExecute(m, inst) = WriteTo(m, inst.dst, v)
  BY Zenon DEF CpuExecute, SetMnemonics
<1>2. SetFlags(WriteTo(m, inst.dst, v), op) = WriteTo(m, inst.dst, v)
  BY DEF SetFlags, KeepsFlags, SetMnemonics
<1>3. /\ ~Crashes(op, a, ax, dx, f) /\ SeekAfter(op, inst.dst.label, f) = NoLabel
      /\ FlagsAfter(op, a, b, f) = (IF KeepsFlags(op) THEN f ELSE NoFlags)
      /\ WrittenBy(inst) = {Place(inst.dst)}
  BY DEF Crashes, SeekAfter, FlagsAfter, WrittenBy, Destinations, BinaryMnemonics, SetMnemonics, JumpMnemonics
<1>4. \A p : WordAt(p, op, a, b, ax, f) = v
  BY Zenon DEF WordAt, SetMnemonics
<1> DEFINE w == SetFlags(WriteTo(m, inst.dst, v), op)
<1> HIDE DEF op, a, b, ax, dx, f, v
<1>5. /\ Changed(w, m, {"cells", "flags", "seek"}) /\ w.seek = NoLabel
      /\ w.flags = (IF KeepsFlags(op) THEN m.flags ELSE NoFlags)
      /\ \A q : Cell(w, q) = IF q = Place(inst.dst) THEN v ELSE Cell(m, q)
  BY WriteEffect
<1> HIDE DEF w
<1>6. Effect(w, m, inst, a, b, ax, dx)
  BY <1>3, <1>4, <1>5, PlainEffect DEF op, f
<1> QED
  BY <1>1, <1>2, <1>6 DEF w, a, b, ax, dx, op, v

\* The sign of eax.
LEMMA CdqEffect ==
  ASSUME NEW m, Going(m), NEW inst, inst.mnemonic = "CDQ"
  PROVE  Effect(CpuExecute(m, inst), m, inst, Read(m, inst.dst), Read(m, inst.src), Cell(m, Ax), Cell(m, Dx))
<1> DEFINE op == inst.mnemonic
           a  == Read(m, inst.dst)
           b  == Read(m, inst.src)
           ax == Cell(m, Ax)
           dx == Cell(m, Dx)
           f  == m.flags
           v  == Sign(ax)
<1>1. CpuExecute(m, inst) = WriteTo(m, RegOp(DX), v)
  BY Zenon DEF CpuExecute, SetMnemonics, Sign, Ax
<1>2. SetFlags(WriteTo(m, RegOp(DX), v), op) = WriteTo(m, RegOp(DX), v)
  BY DEF SetFlags, KeepsFlags, SetMnemonics
<1>3. /\ ~Crashes(op, a, ax, dx, f) /\ SeekAfter(op, inst.dst.label, f) = NoLabel
      /\ FlagsAfter(op, a, b, f) = (IF KeepsFlags(op) THEN f ELSE NoFlags)
      /\ WrittenBy(inst) = {Place(RegOp(DX))}
  BY DEF Crashes, SeekAfter, FlagsAfter, WrittenBy, Destinations, BinaryMnemonics, SetMnemonics, JumpMnemonics, Place, RegOp, Operand, Dx
<1>4. \A p : WordAt(p, op, a, b, ax, f) = v
  BY Zenon DEF WordAt, SetMnemonics
<1> DEFINE w == SetFlags(WriteTo(m, RegOp(DX), v), op)
<1> HIDE DEF op, a, b, ax, dx, f, v
<1>5. /\ Changed(w, m, {"cells", "flags", "seek"}) /\ w.seek = NoLabel
      /\ w.flags = (IF KeepsFlags(op) THEN m.flags ELSE NoFlags)
      /\ \A q : Cell(w, q) = IF q = Place(RegOp(DX)) THEN v ELSE Cell(m, q)
  BY WriteEffect
<1> HIDE DEF w
<1>6. Effect(w, m, inst, a, b, ax, dx)
  BY <1>3, <1>4, <1>5, PlainEffect DEF op, f
<1> QED
  BY <1>1, <1>2, <1>6 DEF w, a, b, ax, dx, op, v

\* An instruction with two operands.
LEMMA BinaryEffect ==
  ASSUME NEW m, Going(m), NEW inst, inst.mnemonic \in BinaryMnemonics \ {"CMP"}
  PROVE  Effect(CpuExecute(m, inst), m, inst, Read(m, inst.dst), Read(m, inst.src), Cell(m, Ax), Cell(m, Dx))
<1> DEFINE op == inst.mnemonic
           a  == Read(m, inst.dst)
           b  == Read(m, inst.src)
           ax == Cell(m, Ax)
           dx == Cell(m, Dx)
           f  == m.flags
           v  == Arithmetic(op, a, b)
<1>1. CpuExecute(m, inst) = SetFlags(WriteTo(m, inst.dst, v), op)
  BY Zenon DEF CpuExecute, SetMnemonics, BinaryMnemonics
<1>2. TRUE
  OBVIOUS
<1>3. /\ ~Crashes(op, a, ax, dx, f) /\ SeekAfter(op, inst.dst.label, f) = NoLabel
      /\ FlagsAfter(op, a, b, f) = (IF KeepsFlags(op) THEN f ELSE NoFlags)
      /\ WrittenBy(inst) = {Place(inst.dst)}
  BY DEF Crashes, SeekAfter, FlagsAfter, WrittenBy, Destinations, BinaryMnemonics, SetMnemonics, JumpMnemonics
<1>4. \A p : WordAt(p, op, a, b, ax, f) = v
  BY Zenon DEF WordAt, SetMnemonics, BinaryMnemonics
<1> DEFINE w == SetFlags(WriteTo(m, inst.dst, v), op)
<1> HIDE DEF op, a, b, ax, dx, f, v
<1>5. /\ Changed(w, m, {"cells", "flags", "seek"}) /\ w.seek = NoLabel
      /\ w.flags = (IF KeepsFlags(op) THEN m.flags ELSE NoFlags)
      /\ \A q : Cell(w, q) = IF q = Place(inst.dst) THEN v ELSE Cell(m, q)
  BY WriteEffect
<1> HIDE DEF w
<1>6. Effect(w, m, inst, a, b, ax, dx)
  BY <1>3, <1>4, <1>5, PlainEffect DEF op, f
<1> QED
  BY <1>1, <1>2, <1>6 DEF w, a, b, ax, dx, op, v

\* A set, or a set without a comparison.
LEMMA SetEffect ==
  ASSUME NEW m, Going(m), NEW inst, inst.mnemonic \in SetMnemonics
  PROVE  Effect(CpuExecute(m, inst), m, inst, Read(m, inst.dst), Read(m, inst.src), Cell(m, Ax), Cell(m, Dx))
<1> DEFINE op == inst.mnemonic
           a  == Read(m, inst.dst)
           b  == Read(m, inst.src)
           ax == Cell(m, Ax)
           dx == Cell(m, Dx)
           f  == m.flags
           v  == SetLowByte(a, Truth(Holds(op, f)))
<1>1. CpuExecute(m, inst) = IF f = NoFlags THEN Crash(m) ELSE WriteTo(m, inst.dst, v)
  BY Zenon DEF CpuExecute, SetMnemonics
<1>2. SetFlags(WriteTo(m, inst.dst, v), op) = WriteTo(m, inst.dst, v)
  BY DEF SetFlags, KeepsFlags, SetMnemonics
<1>3. /\ Crashes(op, a, ax, dx, f) <=> f = NoFlags
      /\ SeekAfter(op, inst.dst.label, f) = NoLabel
      /\ FlagsAfter(op, a, b, f) = (IF KeepsFlags(op) THEN f ELSE NoFlags)
      /\ WrittenBy(inst) = {Place(inst.dst)}
  BY DEF Crashes, SeekAfter, FlagsAfter, WrittenBy, Destinations, BinaryMnemonics, SetMnemonics, JumpMnemonics
<1>4. \A p : WordAt(p, op, a, b, ax, f) = v
  BY Zenon DEF WordAt, SetMnemonics
<1> DEFINE w == SetFlags(WriteTo(m, inst.dst, v), op)
<1> HIDE DEF op, a, b, ax, dx, f, v
<1>5. /\ Changed(w, m, {"cells", "flags", "seek"}) /\ w.seek = NoLabel
      /\ w.flags = (IF KeepsFlags(op) THEN m.flags ELSE NoFlags)
      /\ \A q : Cell(w, q) = IF q = Place(inst.dst) THEN v ELSE Cell(m, q)
  BY WriteEffect
<1> HIDE DEF w
<1>6. CASE f = NoFlags
  <2>1. Effect(Crash(m), m, inst, a, b, ax, dx)
    BY <1>3, <1>6, CrashEffect DEF op, f
  <2> QED
    BY <1>1, <1>6, <2>1 DEF a, b, ax, dx
<1>7. CASE f # NoFlags
  <2>1. Effect(w, m, inst, a, b, ax, dx)
    BY <1>3, <1>4, <1>5, <1>7, PlainEffect DEF op, f
  <2> QED
    BY <1>1, <1>2, <1>7, <2>1 DEF w, a, b, ax, dx, op, v
<1> QED
  BY <1>6, <1>7

\* A division.
LEMMA IdivEffect ==
  ASSUME NEW m, Going(m), NEW inst, inst.mnemonic = "IDIV"
  PROVE  Effect(CpuExecute(m, inst), m, inst, Read(m, inst.dst), Read(m, inst.src), Cell(m, Ax), Cell(m, Dx))
<1> DEFINE op == inst.mnemonic
           a  == Read(m, inst.dst)
           b  == Read(m, inst.src)
           ax == Cell(m, Ax)
           dx == Cell(m, Dx)
           f  == m.flags
           q  == TruncDiv(ax, a)
           r  == TruncRem(ax, a)
           u  == WriteTo(m, RegOp(AX), q)
           w  == SetFlags(WriteTo(u, RegOp(DX), r), op)
<1>1. /\ Crashes(op, a, ax, dx, f) => CpuExecute(m, inst) = SetFlags(Crash(m), op)
      /\ ~Crashes(op, a, ax, dx, f) => CpuExecute(m, inst) = w
  <2>1. CpuExecute(m, inst) = SetFlags(Divide(m, inst), op)
    BY Zenon DEF CpuExecute, SetMnemonics
  <2>2. Crashes(op, a, ax, dx, f) <=> DivFaults(ax, a) \/ dx # Sign(ax)
    BY DEF Crashes, SetMnemonics
  <2>3. Divide(m, inst) = IF DivFaults(ax, a) \/ dx # Sign(ax) THEN Crash(m) ELSE WriteTo(u, RegOp(DX), r)
    BY DEF Divide, Sign, Ax, Dx
  <2> QED
    BY <2>1, <2>2, <2>3
<1>2. /\ SeekAfter(op, inst.dst.label, f) = NoLabel
      /\ FlagsAfter(op, a, b, f) = NoFlags /\ ~KeepsFlags(op)
      /\ WrittenBy(inst) = {Ax, Dx}
  BY DEF SeekAfter, FlagsAfter, WrittenBy, Destinations, BinaryMnemonics, SetMnemonics, JumpMnemonics, KeepsFlags
<1>3. \A p : WordAt(p, op, a, b, ax, f) = IF p = Ax THEN q ELSE r
  BY Zenon DEF WordAt, SetMnemonics
<1>4. Place(RegOp(AX)) = Ax /\ Place(RegOp(DX)) = Dx /\ Ax # Dx
  BY DEF Place, RegOp, Operand, Ax, Dx, AX, DX
<1> HIDE DEF a, b, ax, dx, q, r
<1>5. Changed(u, m, {"cells"}) /\ \A p : Cell(u, p) = IF p = Ax THEN q ELSE Cell(m, p)
  BY <1>4, CellWritten DEF Going
<1> HIDE DEF u
<1>6. Going(u)
  <2>1. u.halted = m.halted /\ u.seek = m.seek
    BY <1>5, SameFields DEF Going
  <2> QED
    BY <1>5, <2>1 DEF Changed, IsMachine, Going
<1>7. /\ Changed(w, u, {"cells", "flags", "seek"}) /\ w.seek = NoLabel /\ w.flags = NoFlags
      /\ \A p : Cell(w, p) = IF p = Dx THEN r ELSE Cell(u, p)
  BY <1>2, <1>4, <1>6, WriteEffect
<1> HIDE DEF w
<1>8. Changed(w, m, {"cells", "flags", "seek"})
  BY <1>5, <1>7 DEF Changed
<1>9. \A p : Cell(w, p) = IF p \in {Ax, Dx} THEN (IF p = Ax THEN q ELSE r) ELSE Cell(m, p)
  BY <1>4, <1>5, <1>7
<1> HIDE DEF op, f
<1>10. CASE Crashes(op, a, ax, dx, f)
  <2>1. Effect(SetFlags(Crash(m), op), m, inst, a, b, ax, dx)
    BY <1>10, CrashEffect DEF op, f
  <2> QED
    BY <1>1, <1>10, <2>1 DEF a, b, ax, dx
<1>11. CASE ~Crashes(op, a, ax, dx, f)
  <2>1. Effect(w, m, inst, a, b, ax, dx)
    BY <1>2, <1>3, <1>7, <1>8, <1>9, <1>11, PlainEffect DEF op, f
  <2> QED
    BY <1>1, <1>11, <2>1 DEF a, b, ax, dx
<1> QED
  BY <1>10, <1>11

\* What an instruction does depends on the words that it reads, and on the flags.
LEMMA StepEffect ==
  ASSUME NEW m, Going(m), NEW inst, inst.mnemonic \in Ordinary
  PROVE  Effect(CpuStep(m, inst), m, inst, Read(m, inst.dst), Read(m, inst.src), Cell(m, Ax), Cell(m, Dx))
<1>1. CpuStep(m, inst) = CpuExecute(m, inst)
  BY DEF CpuStep, Going
<1>2. Effect(CpuExecute(m, inst), m, inst, Read(m, inst.dst), Read(m, inst.src), Cell(m, Ax), Cell(m, Dx))
  BY Kinds, LabelEffect, JumpEffect, CompareEffect, SetEffect, NegEffect, NotEffect, CdqEffect, IdivEffect,
     BinaryEffect
<1> QED
  BY <1>1, <1>2

\* Two processors have stopped alike, or go on alike but for their cells.
Same(c, d) ==
  /\ c.halted = d.halted /\ c.fault = d.fault /\ c.result = d.result
  /\ c.halted = FALSE => c.seek = d.seek /\ c.flags = d.flags

\* x reads in c what y reads in d.
Alike(c, x, d, y) ==
  LET op == x.mnemonic
  IN /\ y.mnemonic = op
     /\ op \in (BinaryMnemonics \ {"MOV"}) \cup UnaryMnemonics => Read(c, x.dst) = Read(d, y.dst)
     /\ op \in BinaryMnemonics => Read(c, x.src) = Read(d, y.src)
     /\ op \in {"CDQ", "IDIV"} => Cell(c, Ax) = Cell(d, Ax)
     /\ op = "IDIV" => Cell(c, Dx) = Cell(d, Dx)
     /\ op \in JumpMnemonics => x.dst.label = y.dst.label

\* w is the state after m, which inst has written to if it has not stopped it.
After(w, m, inst) ==
  /\ IsMachine(w) /\ Changed(w, m, {"cells", "flags", "seek", "halted", "fault"})
  /\ w.halted = FALSE => \A p : p \notin WrittenBy(inst) => Cell(w, p) = Cell(m, p)

LEMMA AfterStep ==
  ASSUME NEW m, Going(m), NEW inst, inst.mnemonic \in Ordinary
  PROVE  After(CpuStep(m, inst), m, inst)
<1> DEFINE w == CpuStep(m, inst)
<1>1. PICK a, b, ax, dx : Effect(w, m, inst, a, b, ax, dx)
  BY StepEffect
<1> HIDE DEF w
<1>2. Changed(w, m, {"cells", "flags", "seek", "halted", "fault"}) /\ w.halted \in BOOLEAN
  BY <1>1 DEF Effect
<1>3. IsMachine(w)
  BY <1>2 DEF IsMachine, Changed, Going
<1>4. w.halted = FALSE => \A p : p \notin WrittenBy(inst) => Cell(w, p) = Cell(m, p)
  BY <1>1 DEF Effect
<1> QED
  BY <1>2, <1>3, <1>4 DEF After, w

\* Then they write the same.
WriteAlike(w, x, v, y) ==
  /\ Same(w, v)
  /\ w.halted = FALSE =>
       \A p \in WrittenBy(x), q \in WrittenBy(y) :
         (x.mnemonic = "IDIV" => p = q) => Cell(w, p) = Cell(v, q)

LEMMA BothStep ==
  ASSUME NEW c, Going(c), NEW d, Going(d), Same(c, d), NEW x, x.mnemonic \in Ordinary, NEW y,
         Alike(c, x, d, y)
  PROVE  WriteAlike(CpuStep(c, x), x, CpuStep(d, y), y)
<1> DEFINE op == x.mnemonic
           w  == CpuStep(c, x)
           v  == CpuStep(d, y)
           f  == c.flags
           a1 == Read(c, x.dst)
           b1 == Read(c, x.src)
           s1 == Cell(c, Ax)
           t1 == Cell(c, Dx)
           a2 == Read(d, y.dst)
           b2 == Read(d, y.src)
           s2 == Cell(d, Ax)
           t2 == Cell(d, Dx)
<1>1. Effect(w, c, x, a1, b1, s1, t1)
  BY StepEffect
<1>2. y.mnemonic = op /\ Effect(v, d, y, a2, b2, s2, t2)
  BY StepEffect DEF Alike
<1>3. d.flags = f /\ d.fault = c.fault /\ d.result = c.result
  BY DEF Same, Going
<1>4. /\ op \in (BinaryMnemonics \ {"MOV"}) \cup UnaryMnemonics => a1 = a2
      /\ op \in BinaryMnemonics => b1 = b2
      /\ op \in {"CDQ", "IDIV"} => s1 = s2
      /\ op = "IDIV" => t1 = t2
      /\ op \in JumpMnemonics => x.dst.label = y.dst.label
  BY DEF Alike
<1>5. w.result = c.result /\ v.result = d.result
  <2>1. /\ Changed(w, c, {"cells", "flags", "seek", "halted", "fault"})
        /\ Changed(v, d, {"cells", "flags", "seek", "halted", "fault"})
    BY <1>1, <1>2 DEF Effect
  <2> HIDE DEF w, v
  <2> QED
    BY <2>1, SameFields DEF Going
<1>6. op \in Ordinary
  OBVIOUS
<1> HIDE DEF w, v, a1, b1, s1, t1, a2, b2, s2, t2, f, op
<1>7. Crashes(op, a1, s1, t1, f) <=> Crashes(op, a2, s2, t2, f)
  BY <1>4 DEF Crashes, UnaryMnemonics
<1>8. FlagsAfter(op, a1, b1, f) = FlagsAfter(op, a2, b2, f)
  <2>1. op = "CMP" => a1 = a2 /\ b1 = b2
    BY <1>4 DEF BinaryMnemonics
  <2>2. CASE op = "CMP"
    BY <2>1, <2>2 DEF FlagsAfter
  <2>3. CASE op # "CMP"
    BY <2>3 DEF FlagsAfter
  <2> QED
    BY <2>2, <2>3
<1>9. SeekAfter(op, x.dst.label, f) = SeekAfter(op, y.dst.label, f)
  BY <1>4 DEF SeekAfter, JumpMnemonics
<1>10. ASSUME NEW p, NEW q, op = "IDIV" => p = q,
              op \in Destinations \cup {"CDQ", "IDIV"}
       PROVE  WordAt(p, op, a1, b1, s1, f) = WordAt(q, op, a2, b2, s2, f)
  <2>1. CASE op \in {"NEG", "NOT", "IDIV"} \cup SetMnemonics
    <3>1. a1 = a2 /\ (op = "IDIV" => s1 = s2 /\ p = q)
      BY <2>1, <1>4, <1>10 DEF UnaryMnemonics
    <3>2. CASE op \in {"NEG", "NOT"} \cup SetMnemonics
      BY <3>1, <3>2, Zenon DEF WordAt, SetMnemonics
    <3>3. CASE op = "IDIV"
      BY <3>1, <3>3, Zenon DEF WordAt, SetMnemonics
    <3> QED
      BY <2>1, <3>2, <3>3
  <2>2. CASE op = "CDQ"
    <3>1. s1 = s2
      BY <2>2, <1>4
    <3> QED
      BY <2>2, <3>1, Zenon DEF WordAt, SetMnemonics
  <2>3. CASE op \in BinaryMnemonics
    <3>1. /\ op # "NEG" /\ op # "NOT" /\ op \notin SetMnemonics /\ op # "CDQ" /\ op # "IDIV"
      BY <2>3 DEF BinaryMnemonics, SetMnemonics
    <3>2. \A r, a, b, s : WordAt(r, op, a, b, s, f) = Arithmetic(op, a, b)
      BY <3>1 DEF WordAt
    <3>3. CASE op = "MOV"
      <4>1. \A a, b : Arithmetic(op, a, b) = b
        BY <3>3, Zenon DEF Arithmetic
      <4>2. b1 = b2
        BY <2>3, <1>4
      <4> QED
        BY <3>2, <4>1, <4>2
    <3>4. CASE op # "MOV"
      <4>1. a1 = a2 /\ b1 = b2
        BY <2>3, <3>4, <1>4
      <4> QED
        BY <3>2, <4>1
    <3> QED
      BY <3>3, <3>4
  <2> QED
    BY <1>10, <2>1, <2>2, <2>3 DEF Destinations
<1>11. /\ op \notin Destinations \cup {"CDQ", "IDIV"} => WrittenBy(x) = {} /\ WrittenBy(y) = {}
  BY <1>2 DEF WrittenBy, op
<1>12. CASE Crashes(op, a1, s1, t1, f)
  <2>1. w.halted = TRUE /\ w.fault = TRUE
    BY <1>1, <1>12 DEF Effect, op, f
  <2>2. v.halted = TRUE /\ v.fault = TRUE
    BY <1>2, <1>3, <1>7, <1>12 DEF Effect
  <2>3. Same(w, v)
    BY <2>1, <2>2, <1>3, <1>5 DEF Same
  <2> QED
    BY <2>1, <2>3 DEF w, v, WriteAlike
<1>13. CASE ~Crashes(op, a1, s1, t1, f)
  <2>1. /\ w.halted = FALSE /\ w.fault = c.fault
        /\ w.seek = SeekAfter(op, x.dst.label, f) /\ w.flags = FlagsAfter(op, a1, b1, f)
        /\ \A p \in WrittenBy(x) : Cell(w, p) = WordAt(p, op, a1, b1, s1, f)
    BY <1>1, <1>13 DEF Effect, op, f
  <2>2. /\ v.halted = FALSE /\ v.fault = d.fault
        /\ v.seek = SeekAfter(op, y.dst.label, f) /\ v.flags = FlagsAfter(op, a2, b2, f)
        /\ \A p \in WrittenBy(y) : Cell(v, p) = WordAt(p, op, a2, b2, s2, f)
    BY <1>2, <1>3, <1>7, <1>13 DEF Effect
  <2>3. Same(w, v)
    BY <2>1, <2>2, <1>3, <1>5, <1>8, <1>9 DEF Same
  <2>4. ASSUME NEW p \in WrittenBy(x), NEW q \in WrittenBy(y), op = "IDIV" => p = q
        PROVE  Cell(w, p) = Cell(v, q)
    <3>1. op \in Destinations \cup {"CDQ", "IDIV"}
      BY <1>11
    <3>2. WordAt(p, op, a1, b1, s1, f) = WordAt(q, op, a2, b2, s2, f)
      BY <1>10, <2>4, <3>1
    <3> QED
      BY <2>1, <2>2, <3>2
  <2> QED
    BY <2>3, <2>4 DEF w, v, op, WriteAlike
<1> QED
  BY <1>12, <1>13

\* A processor that has stopped, or that looks for a label, passes everything over
\* but that label.
Found(m, inst) == m.halted = FALSE /\ inst.mnemonic = "DEFINE_LABEL" /\ inst.dst.label = m.seek

LEMMA IdleStep ==
  ASSUME NEW m, IsMachine(m), ~Going(m), NEW inst
  PROVE  LET w == CpuStep(m, inst)
         IN /\ After(w, m, inst) /\ \A p : Cell(w, p) = Cell(m, p)
            /\ w.halted = m.halted /\ w.fault = m.fault /\ w.flags = m.flags /\ w.result = m.result
            /\ w.seek = IF Found(m, inst) THEN NoLabel ELSE m.seek
<1> DEFINE t == [m EXCEPT !.seek = NoLabel]
<1>1. CpuStep(m, inst) = IF Found(m, inst) THEN t ELSE m
  BY DEF CpuStep, Going, Found, IsMachine
<1>2. Changed(t, m, {"seek"}) /\ t.seek = NoLabel
  BY SeekWritten
<1> HIDE DEF t
<1>3. /\ t.halted = m.halted /\ t.fault = m.fault /\ t.flags = m.flags /\ t.result = m.result
      /\ t.cells = m.cells /\ t.junk = m.junk
  BY <1>2, SameFields
<1>4. \A p : Cell(t, p) = Cell(m, p)
  BY <1>3 DEF Cell
<1>5. IsMachine(t)
  BY <1>2, <1>3 DEF IsMachine, Changed
<1>6. After(t, m, inst) /\ After(m, m, inst)
  BY <1>2, <1>4, <1>5 DEF After, Changed, IsMachine
<1> QED
  BY <1>1, <1>2, <1>3, <1>4, <1>6

\* The states of a run, one by one.
LEMMA StatesInTurn ==
  ASSUME NEW insts, NEW junk, NEW n \in Nat, NEW f, CpuStates(insts, junk, n, f)
  PROVE  f[0] = CpuInit(junk) /\ \A k \in 1..n : f[k] = CpuStep(f[k - 1], insts[k])
<1>1. \A k \in 0..n : f[k] = IF k = 0 THEN CpuInit(junk) ELSE CpuStep(f[k - 1], insts[k])
  BY DEF CpuStates
<1> QED
  BY <1>1

LEMMA InitIsMachine ==
  ASSUME NEW junk
  PROVE  /\ Going(CpuInit(junk)) /\ CpuInit(junk).frame = <<>>
         /\ \A p : Cell(CpuInit(junk), p) = junk
<1>1. IsMachine(CpuInit(junk))
  BY DEF IsMachine, CpuInit, CpuFields
<1> QED
  BY <1>1 DEF Going, CpuInit, Cell

\* How a run ends tells its outcome.
LEMMA SameOutcome ==
  ASSUME NEW s, NEW t, NEW junk, Same(CpuRun(s, junk), CpuRun(t, junk))
  PROVE  CpuOutcome(s, junk) = CpuOutcome(t, junk)
BY DEF CpuOutcome, Same

\* ret at the end of the function.
LEMMA ReturnStep ==
  ASSUME NEW m, Going(m), m.frame = <<>>, NEW inst, inst.mnemonic = "RET"
  PROVE  LET w == CpuStep(m, inst)
         IN /\ IsMachine(w) /\ w.halted = TRUE /\ w.fault = m.fault /\ w.result = Cell(m, Ax)
            /\ Changed(w, m, {"halted", "result"})
<1> DEFINE r == Cell(m, Ax)
           w == [m EXCEPT !.halted = TRUE, !.result = r]
<1>1. CpuExecute(m, inst) = w
  <2>1. CpuExecute(m, inst) = IF m.frame # <<>> THEN Crash(m) ELSE w
    BY Zenon DEF CpuExecute, SetMnemonics, Ax
  <2> QED
    BY <2>1
<1>2. CpuStep(m, inst) = w
  BY <1>1 DEF CpuStep, Going
<1> HIDE DEF r
<1>3. Changed(w, m, {"halted", "result"}) /\ w.halted = TRUE /\ w.result = r
  BY DEF Changed, Going, IsMachine, CpuFields
<1> HIDE DEF w
<1>4. w.fault = m.fault
  BY <1>3, SameFields DEF Going
<1>5. IsMachine(w)
  BY <1>3 DEF Changed, IsMachine, Going
<1> QED
  BY <1>2, <1>3, <1>4, <1>5 DEF r

-----------------------------------------------------------------------------
(* Slots in place of pseudo registers *)

ValueTypes == {"PSEUDO", "REGISTER", "IMMEDIATE"}

Named(inst) == [inst EXCEPT !.dst = ResolvedOp(@), !.src = ResolvedOp(@)]

\* Where a pseudo register is kept.
Home(t) == IF Mapped(t) THEN <<"STACK", offsetMap[t]>> ELSE <<"PSEUDO", t>>

\* The processors of code that has pseudo registers and of code with their slots.
Renamed(c, d) ==
  /\ IsMachine(c) /\ IsMachine(d) /\ Same(c, d) /\ c.frame = <<>> /\ d.frame = <<>>
  /\ c.halted = FALSE => /\ \A t : Cell(d, Home(t)) = Cell(c, <<"PSEUDO", t>>)
                         /\ \A r : Cell(d, <<"REGISTER", r>>) = Cell(c, <<"REGISTER", r>>)

LEMMA NamedFields ==
  ASSUME NEW inst \in Instructions
  PROVE  /\ Named(inst).mnemonic = inst.mnemonic
         /\ Named(inst).dst = ResolvedOp(inst.dst) /\ Named(inst).src = ResolvedOp(inst.src)
BY DEF Named, Instructions

LEMMA ResolvedPlace ==
  ASSUME NEW op
  PROVE  /\ op.type = "PSEUDO" => Place(ResolvedOp(op)) = Home(op.value) /\ ResolvedOp(op).type # "IMMEDIATE"
         /\ op.type # "PSEUDO" => ResolvedOp(op) = op
BY DEF ResolvedOp, Place, Home, StackOp, Operand

LEMMA HomesApart ==
  ASSUME IInv, NEW t, NEW u, Home(t) = Home(u)
  PROVE  t = u
<1>1. \A x, y \in DOMAIN offsetMap : (offsetMap[x] = offsetMap[y] /\ offsetMap[x] # 0) => x = y
  BY DEF IInv, Slots
<1> QED
  BY <1>1 DEF Home, Mapped

LEMMA HomeIsNoRegister == \A t, r : Home(t) # <<"REGISTER", r>>
BY DEF Home

\* What a value reads.
LEMMA NamedReads ==
  ASSUME NEW c, NEW d, Renamed(c, d), c.halted = FALSE,
         NEW op, op.type \in ValueTypes
  PROVE  Read(d, ResolvedOp(op)) = Read(c, op)
<1>1. CASE op.type = "PSEUDO"
  BY <1>1, ResolvedPlace DEF Read, Place, Renamed
<1>2. CASE op.type = "REGISTER"
  BY <1>2, ResolvedPlace DEF Read, Place, Renamed
<1>3. CASE op.type = "IMMEDIATE"
  BY <1>3, ResolvedPlace DEF Read
<1> QED
  BY <1>1, <1>2, <1>3 DEF ValueTypes

LEMMA SelectedOperands ==
  ASSUME NEW x \in Selected
  PROVE  /\ x \in Instructions /\ x.mnemonic \in Ordinary \cup {"RET"}
         /\ x.mnemonic \in BinaryMnemonics =>
              /\ x.dst.type \in ValueTypes
              /\ x.src.type \in ValueTypes
         /\ x.mnemonic \in UnaryMnemonics => x.dst.type \in ValueTypes
         /\ x.mnemonic \notin BinaryMnemonics \cup UnaryMnemonics => x.dst.type = "LABEL"
         /\ x.mnemonic \in Destinations => x.dst.type \in {"PSEUDO", "REGISTER"}
<1>1. x \in Instructions /\ x.mnemonic \in Mnemonics
  BY DEF Selected, Instructions
<1>2. x.mnemonic \in Ordinary \cup {"RET"}
  BY <1>1 DEF Selected, Ordinary
<1>3. x.mnemonic \in BinaryMnemonics =>
        /\ x.dst.type \in ValueTypes
        /\ x.src.type \in ValueTypes
  BY DEF Selected, ValueTypes
<1>4. x.mnemonic \in UnaryMnemonics => x.dst.type \in ValueTypes
  BY DEF Selected, ValueTypes
<1>5. x.mnemonic \notin BinaryMnemonics \cup UnaryMnemonics => x.dst.type = "LABEL"
  BY DEF Selected
<1>6. x.mnemonic \in Destinations => x.dst.type \in {"PSEUDO", "REGISTER"}
  <2>1. x.mnemonic = "MOV" => x.dst.type \in {"PSEUDO", "REGISTER"}
    BY DEF Selected
  <2>2. x.mnemonic \in BinaryMnemonics \ {"MOV", "CMP"} => x.dst.type = "PSEUDO"
    BY DEF Selected
  <2>3. x.mnemonic \in UnaryMnemonics \ {"IDIV"} => x.dst.type = "PSEUDO"
    BY DEF Selected
  <2>4. \A op : op \in Destinations =>
          op = "MOV" \/ op \in BinaryMnemonics \ {"MOV", "CMP"} \/ op \in UnaryMnemonics \ {"IDIV"}
    BY DEF Destinations, UnaryMnemonics, SetMnemonics
  <2> QED
    BY <2>1, <2>2, <2>3, <2>4
<1> QED
  BY <1>1, <1>2, <1>3, <1>4, <1>5, <1>6

\* One instruction.
LEMMA NamedAlike ==
  ASSUME NEW c, NEW d, Renamed(c, d), c.halted = FALSE, NEW x \in Selected, x.mnemonic \in Ordinary
  PROVE  Alike(c, x, d, Named(x))
<1> DEFINE y  == Named(x)
           op == x.mnemonic
<1>1. y.mnemonic = op /\ y.dst = ResolvedOp(x.dst) /\ y.src = ResolvedOp(x.src)
  BY SelectedOperands, NamedFields
<1>0. /\ op \in BinaryMnemonics \cup UnaryMnemonics => x.dst.type \in ValueTypes
      /\ op \in BinaryMnemonics => x.src.type \in ValueTypes
      /\ op \notin BinaryMnemonics \cup UnaryMnemonics => x.dst.type = "LABEL"
  BY SelectedOperands
<1> HIDE DEF y, Selected, op
<1>r. \A o : o.type \in ValueTypes => Read(d, ResolvedOp(o)) = Read(c, o)
  BY NamedReads
<1>2. op \in BinaryMnemonics \cup UnaryMnemonics => Read(c, x.dst) = Read(d, y.dst)
  BY <1>0, <1>1, <1>r
<1>3. op \in BinaryMnemonics => Read(c, x.src) = Read(d, y.src)
  BY <1>0, <1>1, <1>r
<1>4. op \in JumpMnemonics => x.dst.label = y.dst.label
  <2>1. op \in JumpMnemonics => op \notin BinaryMnemonics \cup UnaryMnemonics
    BY DEF JumpMnemonics, BinaryMnemonics, UnaryMnemonics, SetMnemonics
  <2> QED
    BY <1>0, <1>1, <2>1, ResolvedPlace
<1>5. Cell(c, Ax) = Cell(d, Ax) /\ Cell(c, Dx) = Cell(d, Dx)
  BY DEF Renamed, Ax, Dx
<1> QED
  BY <1>1, <1>2, <1>3, <1>4, <1>5 DEF Alike, y, op

\* Both write the same places.
LEMMA NamedWrites ==
  ASSUME IInv, NEW x \in Selected
  PROVE  /\ \A t : Home(t) \in WrittenBy(Named(x)) <=> <<"PSEUDO", t>> \in WrittenBy(x)
         /\ \A r : <<"REGISTER", r>> \in WrittenBy(Named(x)) <=> <<"REGISTER", r>> \in WrittenBy(x)
<1> DEFINE y  == Named(x)
           op == x.mnemonic
<1>1. y.mnemonic = op /\ y.dst = ResolvedOp(x.dst)
  BY SelectedOperands, NamedFields
<1>2. op \in Destinations => x.dst.type \in {"PSEUDO", "REGISTER"}
  BY SelectedOperands
<1> HIDE DEF y, Selected
<1>3. CASE op \in Destinations /\ x.dst.type = "PSEUDO"
  <2>1. WrittenBy(x) = {<<"PSEUDO", x.dst.value>>} /\ WrittenBy(y) = {Home(x.dst.value)}
    BY <1>1, <1>3, ResolvedPlace DEF WrittenBy, Place
  <2>2. \A t : Home(t) = Home(x.dst.value) <=> t = x.dst.value
    BY HomesApart
  <2> QED
    BY <2>1, <2>2, HomeIsNoRegister DEF y
<1>4. CASE op \in Destinations /\ x.dst.type = "REGISTER"
  <2>1. WrittenBy(x) = {<<"REGISTER", x.dst.value>>} /\ WrittenBy(y) = WrittenBy(x)
    BY <1>1, <1>4, ResolvedPlace DEF WrittenBy, Place
  <2> QED
    BY <2>1, HomeIsNoRegister DEF y
<1>5. CASE op \notin Destinations
  <2>1. WrittenBy(x) \subseteq {Ax, Dx} /\ WrittenBy(y) = WrittenBy(x)
    BY <1>1, <1>5 DEF WrittenBy
  <2> QED
    BY <2>1, HomeIsNoRegister DEF y, Ax, Dx
<1> QED
  BY <1>2, <1>3, <1>4, <1>5

LEMMA RenamedStep ==
  ASSUME IInv, NEW c, NEW d, Renamed(c, d), NEW x \in Selected
  PROVE  Renamed(CpuStep(c, x), CpuStep(d, Named(x)))
<1> DEFINE y == Named(x)
           w == CpuStep(c, x)
           v == CpuStep(d, y)
<1>1. IsMachine(c) /\ IsMachine(d) /\ Same(c, d) /\ c.frame = <<>> /\ d.frame = <<>>
  BY DEF Renamed
<1>2. /\ x.mnemonic \in Ordinary \cup {"RET"} /\ y.mnemonic = x.mnemonic
      /\ x.mnemonic = "DEFINE_LABEL" => y.dst = x.dst
  <2>1. x.mnemonic = "DEFINE_LABEL" => x.dst.type = "LABEL"
    BY SelectedOperands DEF BinaryMnemonics, UnaryMnemonics, SetMnemonics
  <2> HIDE DEF Selected
  <2> QED
    BY <2>1, SelectedOperands, NamedFields, ResolvedPlace
<1> HIDE DEF y, Selected
<1>3. CASE ~Going(c)
  <2>1. ~Going(d)
    BY <1>1, <1>3 DEF Going, Same
  <2>2. c.halted = FALSE => (Found(c, x) <=> Found(d, y))
    BY <1>1, <1>2 DEF Found, Same
  <2>3. /\ After(w, c, x) /\ \A p : Cell(w, p) = Cell(c, p)
        /\ w.halted = c.halted /\ w.fault = c.fault /\ w.flags = c.flags /\ w.result = c.result
        /\ w.seek = IF Found(c, x) THEN NoLabel ELSE c.seek
    BY <1>1, <1>3, IdleStep
  <2>4. /\ After(v, d, y) /\ \A p : Cell(v, p) = Cell(d, p)
        /\ v.halted = d.halted /\ v.fault = d.fault /\ v.flags = d.flags /\ v.result = d.result
        /\ v.seek = IF Found(d, y) THEN NoLabel ELSE d.seek
    BY <1>1, <2>1, IdleStep
  <2> HIDE DEF w, v
  <2>5. Same(w, v)
    BY <1>1, <2>2, <2>3, <2>4 DEF Same
  <2>6. IsMachine(w) /\ IsMachine(v) /\ w.frame = <<>> /\ v.frame = <<>>
    BY <1>1, <2>3, <2>4, SameFields DEF After
  <2>7. Renamed(w, v)
    BY <2>3, <2>4, <2>5, <2>6 DEF Renamed
  <2> QED
    BY <2>7 DEF w, v, y
<1>4. CASE Going(c) /\ x.mnemonic = "RET"
  <2>1. Going(d) /\ Cell(d, Ax) = Cell(c, Ax)
    BY <1>1, <1>4 DEF Going, Same, Renamed, Ax
  <2>2. /\ IsMachine(w) /\ w.halted = TRUE /\ w.fault = c.fault /\ w.result = Cell(c, Ax)
        /\ Changed(w, c, {"halted", "result"})
    BY <1>1, <1>4, ReturnStep
  <2>3. /\ IsMachine(v) /\ v.halted = TRUE /\ v.fault = d.fault /\ v.result = Cell(d, Ax)
        /\ Changed(v, d, {"halted", "result"})
    BY <1>1, <1>2, <1>4, <2>1, ReturnStep
  <2> HIDE DEF w, v
  <2>4. w.frame = <<>> /\ v.frame = <<>>
    BY <1>1, <2>2, <2>3, SameFields
  <2>5. Same(w, v)
    BY <1>1, <2>1, <2>2, <2>3 DEF Same
  <2>6. Renamed(w, v)
    BY <2>2, <2>3, <2>4, <2>5 DEF Renamed
  <2> QED
    BY <2>6 DEF w, v, y
<1>5. CASE Going(c) /\ x.mnemonic \in Ordinary
  <2>1. Going(d)
    BY <1>1, <1>5 DEF Going, Same
  <2>2. Alike(c, x, d, y)
    BY <1>5, NamedAlike DEF Going, y
  <2>3. /\ Same(w, v)
        /\ w.halted = FALSE =>
             \A p \in WrittenBy(x), q \in WrittenBy(y) : (x.mnemonic = "IDIV" => p = q) => Cell(w, p) = Cell(v, q)
    <3>1. WriteAlike(CpuStep(c, x), x, CpuStep(d, y), y)
      BY <1>1, <1>5, <2>1, <2>2, BothStep
    <3> QED
      BY <3>1 DEF WriteAlike
  <2>4. After(w, c, x)
    BY <1>5, AfterStep
  <2>5. After(v, d, y)
    BY <1>2, <1>5, <2>1, AfterStep
  <2> HIDE DEF w, v
  <2>6. IsMachine(w) /\ IsMachine(v) /\ w.frame = <<>> /\ v.frame = <<>>
    BY <1>1, <2>4, <2>5, SameFields DEF After
  <2>7. /\ \A t : Home(t) \in WrittenBy(y) <=> <<"PSEUDO", t>> \in WrittenBy(x)
        /\ \A r : <<"REGISTER", r>> \in WrittenBy(y) <=> <<"REGISTER", r>> \in WrittenBy(x)
    BY NamedWrites DEF y
  <2>8. /\ \A t : Cell(d, Home(t)) = Cell(c, <<"PSEUDO", t>>)
        /\ \A r : Cell(d, <<"REGISTER", r>>) = Cell(c, <<"REGISTER", r>>)
    BY <1>5 DEF Renamed, Going
  <2>9. x.mnemonic = "IDIV" => \A t : <<"PSEUDO", t>> \notin WrittenBy(x)
    BY DEF WrittenBy, Ax, Dx, Destinations, BinaryMnemonics, SetMnemonics
  <2>10. ASSUME w.halted = FALSE, NEW t PROVE Cell(v, Home(t)) = Cell(w, <<"PSEUDO", t>>)
    <3>1. v.halted = FALSE
      BY <2>3, <2>10 DEF Same
    <3> QED
      BY <2>3, <2>4, <2>5, <2>7, <2>8, <2>9, <2>10, <3>1 DEF After
  <2>11. ASSUME w.halted = FALSE, NEW r PROVE Cell(v, <<"REGISTER", r>>) = Cell(w, <<"REGISTER", r>>)
    <3>1. v.halted = FALSE
      BY <2>3, <2>11 DEF Same
    <3> QED
      BY <2>3, <2>4, <2>5, <2>7, <2>8, <2>11, <3>1 DEF After
  <2>12. Renamed(w, v)
    BY <2>3, <2>6, <2>10, <2>11 DEF Renamed
  <2> QED
    BY <2>12 DEF w, v, y
<1> QED
  BY <1>2, <1>3, <1>4, <1>5

\* All of them.
LEMMA RenamingKeeps ==
  ASSUME IInv, NEW s \in Seq(Selected), NEW t, Len(t) = Len(s), \A k \in 1..Len(s) : t[k] = Named(s[k]),
         NEW junk
  PROVE  CpuOutcome(t, junk) = CpuOutcome(s, junk)
<1> DEFINE n == Len(s)
<1>1. n \in Nat /\ \A k \in 1..n : s[k] \in Selected
  OBVIOUS
<1>2. PICK f : CpuStates(s, junk, n, f) /\ CpuRun(s, junk) = f[n]
  BY <1>1, CpuRunStates
<1>3. PICK g : CpuStates(t, junk, n, g) /\ CpuRun(t, junk) = g[n]
  BY <1>1, CpuRunStates
<1> DEFINE T == {k \in Nat : k <= n => Renamed(f[k], g[k])}
<1> HIDE DEF n, Selected
<1>4. f[0] = CpuInit(junk) /\ \A k \in 1..n : f[k] = CpuStep(f[k - 1], s[k])
  BY <1>1, <1>2, StatesInTurn
<1>5. g[0] = CpuInit(junk) /\ \A k \in 1..n : g[k] = CpuStep(g[k - 1], t[k])
  BY <1>1, <1>3, StatesInTurn
<1>6. 0 \in T
  <2>1. Renamed(CpuInit(junk), CpuInit(junk))
    BY InitIsMachine DEF Renamed, Same, Going
  <2> QED
    BY <2>1, <1>4, <1>5
<1>7. ASSUME NEW k \in Nat, k \in T PROVE k + 1 \in T
  <2> SUFFICES ASSUME k + 1 <= n PROVE Renamed(f[k + 1], g[k + 1])
    OBVIOUS
  <2>1. k + 1 \in 1..n /\ (k + 1) - 1 = k /\ k <= n
    BY <1>1
  <2>2. f[k + 1] = CpuStep(f[k], s[k + 1]) /\ g[k + 1] = CpuStep(g[k], Named(s[k + 1]))
    BY <1>4, <1>5, <2>1 DEF n
  <2>3. Renamed(f[k], g[k]) /\ s[k + 1] \in Selected
    BY <1>1, <1>7, <2>1
  <2> QED
    BY <2>2, <2>3, RenamedStep
<1> HIDE DEF T
<1>8. Nat \subseteq T
  BY <1>6, <1>7, SetInduction
<1>9. Renamed(f[n], g[n])
  BY <1>1, <1>8 DEF T
<1>10. Same(g[n], f[n])
  BY <1>9 DEF Renamed, Same
<1> QED
  BY <1>2, <1>3, <1>10, SameOutcome

-----------------------------------------------------------------------------
(* Code that differs in what it keeps in scratch registers, and in its frame *)

\* The places an instruction reads.
ReadBy(x) ==
  (IF x.mnemonic \in (BinaryMnemonics \ {"MOV"}) \cup UnaryMnemonics THEN {Place(x.dst)} ELSE {})
    \cup (IF x.mnemonic \in BinaryMnemonics THEN {Place(x.src)} ELSE {})

\* c and d are alike but for the places of X or, while they look for a label, of Z.
Close(c, d, X, Z) ==
  /\ IsMachine(c) /\ IsMachine(d) /\ Same(c, d)
  /\ c.halted = FALSE =>
       \A p : p \notin (IF c.seek = NoLabel THEN X ELSE Z) => Cell(c, p) = Cell(d, p)

\* Where x reads nothing in which they differ, c and d read the same.
LEMMA CloseAlike ==
  ASSUME NEW c, NEW d, NEW X, \A p : p \notin X => Cell(c, p) = Cell(d, p),
         Ax \notin X, Dx \notin X, NEW x, ReadBy(x) \cap X = {}
  PROVE  Alike(c, x, d, x)
<1> DEFINE op == x.mnemonic
<1>1. \A o : Place(o) \notin X => Read(c, o) = Read(d, o)
  BY DEF Read
<1>2. op \in (BinaryMnemonics \ {"MOV"}) \cup UnaryMnemonics => Place(x.dst) \notin X
  BY DEF ReadBy
<1>3. op \in BinaryMnemonics => Place(x.src) \notin X
  BY DEF ReadBy
<1> HIDE DEF op
<1> QED
  BY <1>1, <1>2, <1>3 DEF Alike, op

\* Only three instructions concern the frame.
LEMMA FrameKept ==
  ASSUME NEW m, IsMachine(m), NEW x, x.mnemonic \in Ordinary
  PROVE  CpuStep(m, x).frame = m.frame /\ IsMachine(CpuStep(m, x))
<1>1. After(CpuStep(m, x), m, x)
  BY AfterStep, IdleStep
<1> QED
  BY <1>1, SameFields DEF After

\* One instruction that is no return and has nothing to do with the frame.
LEMMA CloseStep ==
  ASSUME NEW Z, Ax \notin Z, Dx \notin Z, NEW X, X \subseteq Z, NEW Y, Y \subseteq Z,
         NEW c, NEW d, Close(c, d, X, Z),
         NEW x, x.mnemonic \in Ordinary, ReadBy(x) \cap X = {}, X \ WrittenBy(x) \subseteq Y,
         x.mnemonic = "DEFINE_LABEL" => Z \subseteq Y
  PROVE  LET w == CpuStep(c, x)
             v == CpuStep(d, x)
         IN Close(w, v, Y, Z)
<1> DEFINE w == CpuStep(c, x)
           v == CpuStep(d, x)
<1>1. IsMachine(c) /\ IsMachine(d) /\ Same(c, d)
  BY DEF Close
<1>2. CASE ~Going(c)
  <2>1. ~Going(d)
    BY <1>1, <1>2 DEF Going, Same
  <2>2. c.halted = FALSE => (Found(c, x) <=> Found(d, x))
    BY <1>1 DEF Found, Same
  <2>3. /\ After(w, c, x) /\ \A p : Cell(w, p) = Cell(c, p)
        /\ w.halted = c.halted /\ w.fault = c.fault /\ w.flags = c.flags /\ w.result = c.result
        /\ w.seek = IF Found(c, x) THEN NoLabel ELSE c.seek
    BY <1>1, <1>2, IdleStep
  <2>4. /\ After(v, d, x) /\ \A p : Cell(v, p) = Cell(d, p)
        /\ v.halted = d.halted /\ v.fault = d.fault /\ v.flags = d.flags /\ v.result = d.result
        /\ v.seek = IF Found(d, x) THEN NoLabel ELSE d.seek
    BY <1>1, <2>1, IdleStep
  <2> HIDE DEF w, v
  <2>5. Same(w, v)
    BY <1>1, <2>2, <2>3, <2>4 DEF Same
  <2>6. IsMachine(w) /\ IsMachine(v)
    BY <2>3, <2>4 DEF After
  <2>7. c.halted = FALSE => c.seek # NoLabel
    BY <1>1, <1>2 DEF Going
  <2>8. c.halted = FALSE => \A p : p \notin Z => Cell(c, p) = Cell(d, p)
    BY <2>7 DEF Close
  <2>9. Found(c, x) => Z \subseteq Y
    BY DEF Found
  <2>10. w.halted = FALSE => \A p : p \notin (IF w.seek = NoLabel THEN Y ELSE Z) => Cell(w, p) = Cell(v, p)
    BY <2>3, <2>4, <2>7, <2>8, <2>9
  <2>11. Close(w, v, Y, Z)
    BY <2>5, <2>6, <2>10 DEF Close
  <2> QED
    BY <2>11 DEF w, v
<1>3. CASE Going(c)
  <2>1. Going(d)
    BY <1>1, <1>3 DEF Going, Same
  <2>2. \A p : p \notin X => Cell(c, p) = Cell(d, p)
    BY <1>3 DEF Going, Close
  <2>3. Alike(c, x, d, x)
    BY <2>2, CloseAlike
  <2>4. WriteAlike(w, x, v, x)
    BY <1>1, <1>3, <2>1, <2>3, BothStep
  <2>5. After(w, c, x)
    BY <1>3, AfterStep
  <2>6. After(v, d, x)
    BY <2>1, AfterStep
  <2> HIDE DEF w, v
  <2>7. IsMachine(w) /\ IsMachine(v)
    BY <2>5, <2>6 DEF After
  <2>8. ASSUME w.halted = FALSE, NEW p, p \notin (IF w.seek = NoLabel THEN Y ELSE Z)
        PROVE  Cell(w, p) = Cell(v, p)
    <3>1. v.halted = FALSE
      BY <2>4, <2>8 DEF WriteAlike, Same
    <3>2. p \in WrittenBy(x) => Cell(w, p) = Cell(v, p)
      BY <2>4, <2>8 DEF WriteAlike
    <3>3. p \notin WrittenBy(x) => Cell(w, p) = Cell(c, p) /\ Cell(v, p) = Cell(d, p)
      BY <2>5, <2>6, <2>8, <3>1 DEF After
    <3>4. p \notin WrittenBy(x) => p \notin X
      BY <2>8
    <3> QED
      BY <2>2, <3>2, <3>3, <3>4
  <2>9. Close(w, v, Y, Z)
    BY <2>4, <2>7, <2>8 DEF Close, WriteAlike
  <2> QED
    BY <2>9 DEF w, v
<1> QED
  BY <1>2, <1>3

\* ret, and the frame that is made or taken down.
LEMMA FrameChanged ==
  ASSUME NEW m, IsMachine(m), NEW f
  PROVE  LET w == [m EXCEPT !.frame = f]
         IN /\ IsMachine(w) /\ Changed(w, m, {"frame"}) /\ w.frame = f
            /\ w.halted = m.halted /\ w.seek = m.seek /\ w.flags = m.flags /\ w.fault = m.fault
            /\ w.result = m.result /\ \A p : Cell(w, p) = Cell(m, p)
<1> DEFINE w == [m EXCEPT !.frame = f]
<1>1. Changed(w, m, {"frame"}) /\ w.frame = f
  BY DEF Changed, IsMachine, CpuFields
<1> HIDE DEF w
<1>2. /\ w.halted = m.halted /\ w.seek = m.seek /\ w.flags = m.flags /\ w.fault = m.fault
      /\ w.result = m.result /\ w.cells = m.cells /\ w.junk = m.junk
  BY <1>1, SameFields
<1>3. IsMachine(w)
  BY <1>1, <1>2 DEF Changed, IsMachine
<1>4. \A p : Cell(w, p) = Cell(m, p)
  BY <1>2 DEF Cell
<1> QED
  BY <1>1, <1>2, <1>3, <1>4 DEF w

LEMMA CrashState ==
  ASSUME NEW m, IsMachine(m)
  PROVE  /\ IsMachine(Crash(m)) /\ Crash(m).halted = TRUE /\ Crash(m).fault = TRUE
         /\ Crash(m).result = m.result /\ Crash(m).frame = m.frame
<1> DEFINE c == Crash(m)
<1>1. Changed(c, m, {"halted", "fault"}) /\ c.halted = TRUE /\ c.fault = TRUE
  BY Crashed
<1> HIDE DEF c
<1>2. c.result = m.result /\ c.frame = m.frame /\ IsMachine(c)
  BY <1>1, SameFields DEF Changed, IsMachine
<1> QED
  BY <1>1, <1>2 DEF c

\* What the three do.
LEMMA FrameSteps ==
  ASSUME NEW m, Going(m), NEW x
  PROVE  /\ x.mnemonic = "ALLOCATE_STACK" =>
              CpuStep(m, x) = [m EXCEPT !.frame = Append(m.frame, x.dst.value)]
         /\ x.mnemonic = "DEALLOCATE_STACK" =>
              CpuStep(m, x) = IF m.frame = <<>> THEN Crash(m)
                              ELSE [m EXCEPT !.frame = SubSeq(m.frame, 1, Len(m.frame) - 1)]
         /\ x.mnemonic = "RET" /\ m.frame # <<>> => CpuStep(m, x) = Crash(m)
<1>1. CpuStep(m, x) = CpuExecute(m, x)
  BY DEF CpuStep, Going
<1>2. CASE x.mnemonic = "ALLOCATE_STACK"
  <2>1. CpuExecute(m, x) = [m EXCEPT !.frame = Append(@, x.dst.value)]
    BY <1>2, Zenon DEF CpuExecute, SetMnemonics
  <2> QED
    BY <1>1, <1>2, <2>1
<1>3. CASE x.mnemonic = "DEALLOCATE_STACK"
  <2>1. CpuExecute(m, x) = IF m.frame = <<>> THEN Crash(m) ELSE [m EXCEPT !.frame = SubSeq(@, 1, Len(@) - 1)]
    BY <1>3, Zenon DEF CpuExecute, SetMnemonics
  <2> QED
    BY <1>1, <1>3, <2>1
<1>4. CASE x.mnemonic = "RET"
  <2>1. CpuExecute(m, x) = IF m.frame # <<>> THEN Crash(m)
                           ELSE [m EXCEPT !.halted = TRUE, !.result = Cell(m, <<"REGISTER", AX>>)]
    BY <1>4, Zenon DEF CpuExecute, SetMnemonics
  <2> QED
    BY <1>1, <1>4, <2>1
<1> QED
  BY <1>2, <1>3, <1>4

FrameMnemonics == {"RET", "ALLOCATE_STACK", "DEALLOCATE_STACK"}

LEMMA CloseFrameStep ==
  ASSUME NEW Z, Ax \notin Z, NEW X, X \subseteq Z, NEW Y, X \subseteq Y, Y \subseteq Z,
         NEW c, NEW d, Close(c, d, X, Z), c.frame = d.frame, NEW x, x.mnemonic \in FrameMnemonics
  PROVE  LET w == CpuStep(c, x)
             v == CpuStep(d, x)
         IN Close(w, v, Y, Z) /\ w.frame = v.frame
<1> DEFINE w == CpuStep(c, x)
           v == CpuStep(d, x)
<1>1. IsMachine(c) /\ IsMachine(d) /\ Same(c, d)
  BY DEF Close
<1>2. x.mnemonic # "DEFINE_LABEL"
  BY DEF FrameMnemonics
<1>3. CASE ~Going(c)
  <2>1. ~Going(d)
    BY <1>1, <1>3 DEF Going, Same
  <2>2. ~Found(c, x) /\ ~Found(d, x)
    BY <1>2 DEF Found
  <2>3. /\ After(w, c, x) /\ \A p : Cell(w, p) = Cell(c, p)
        /\ w.halted = c.halted /\ w.fault = c.fault /\ w.flags = c.flags /\ w.result = c.result
        /\ w.seek = c.seek
    BY <1>1, <1>3, <2>2, IdleStep
  <2>4. /\ After(v, d, x) /\ \A p : Cell(v, p) = Cell(d, p)
        /\ v.halted = d.halted /\ v.fault = d.fault /\ v.flags = d.flags /\ v.result = d.result
        /\ v.seek = d.seek
    BY <1>1, <2>1, <2>2, IdleStep
  <2> HIDE DEF w, v
  <2>5. Same(w, v)
    BY <1>1, <2>3, <2>4 DEF Same
  <2>6. IsMachine(w) /\ IsMachine(v) /\ w.frame = c.frame /\ v.frame = d.frame
    BY <1>1, <2>3, <2>4, SameFields DEF After
  <2>7. w.halted = FALSE => \A p : p \notin (IF w.seek = NoLabel THEN Y ELSE Z) => Cell(w, p) = Cell(v, p)
    BY <2>3, <2>4 DEF Close
  <2>8. Close(w, v, Y, Z)
    BY <2>5, <2>6, <2>7 DEF Close
  <2> QED
    BY <2>6, <2>8 DEF w, v
<1>4. CASE Going(c)
  <2>1. Going(d)
    BY <1>1, <1>4 DEF Going, Same
  <2>2. \A p : p \notin X => Cell(c, p) = Cell(d, p)
    BY <1>4 DEF Going, Close
  <2>3. /\ c.fault = d.fault /\ c.result = d.result /\ c.flags = d.flags
        /\ c.halted = FALSE /\ d.halted = FALSE /\ c.seek = NoLabel /\ d.seek = NoLabel
    BY <1>1, <1>4, <2>1 DEF Same, Going
  <2>4. ASSUME w = Crash(c), v = Crash(d) PROVE Close(w, v, Y, Z) /\ w.frame = v.frame
    <3>1. /\ IsMachine(w) /\ w.halted = TRUE /\ w.fault = TRUE /\ w.result = c.result /\ w.frame = c.frame
          /\ IsMachine(v) /\ v.halted = TRUE /\ v.fault = TRUE /\ v.result = d.result /\ v.frame = d.frame
      BY <1>1, <2>4, CrashState
    <3> HIDE DEF w, v
    <3>2. Same(w, v)
      BY <2>3, <3>1 DEF Same
    <3> QED
      BY <3>1, <3>2 DEF Close
  <2>5. ASSUME NEW f, w = [c EXCEPT !.frame = f], v = [d EXCEPT !.frame = f]
        PROVE  Close(w, v, Y, Z) /\ w.frame = v.frame
    <3>1. /\ IsMachine(w) /\ w.frame = f
          /\ w.halted = c.halted /\ w.seek = c.seek /\ w.flags = c.flags /\ w.fault = c.fault
          /\ w.result = c.result /\ \A p : Cell(w, p) = Cell(c, p)
      BY <1>1, <2>5, FrameChanged
    <3>2. /\ IsMachine(v) /\ v.frame = f
          /\ v.halted = d.halted /\ v.seek = d.seek /\ v.flags = d.flags /\ v.fault = d.fault
          /\ v.result = d.result /\ \A p : Cell(v, p) = Cell(d, p)
      BY <1>1, <2>5, FrameChanged
    <3> HIDE DEF w, v
    <3>3. Same(w, v)
      BY <2>3, <3>1, <3>2 DEF Same
    <3>4. \A p : p \notin Y => Cell(w, p) = Cell(v, p)
      BY <2>2, <3>1, <3>2
    <3> QED
      BY <2>3, <3>1, <3>2, <3>3, <3>4 DEF Close
  <2>6. CASE x.mnemonic = "ALLOCATE_STACK"
    <3>1. /\ w = [c EXCEPT !.frame = Append(c.frame, x.dst.value)]
          /\ v = [d EXCEPT !.frame = Append(c.frame, x.dst.value)]
      BY <1>4, <2>1, <2>6, FrameSteps
    <3> QED
      BY <2>5, <3>1
  <2>7. CASE x.mnemonic = "DEALLOCATE_STACK"
    <3> DEFINE f == SubSeq(c.frame, 1, Len(c.frame) - 1)
    <3>1. /\ c.frame = <<>> => w = Crash(c) /\ v = Crash(d)
          /\ c.frame # <<>> => w = [c EXCEPT !.frame = f] /\ v = [d EXCEPT !.frame = f]
      BY <1>4, <2>1, <2>7, FrameSteps
    <3> QED
      BY <2>4, <2>5, <3>1
  <2>8. CASE x.mnemonic = "RET" /\ c.frame # <<>>
    <3>1. w = Crash(c) /\ v = Crash(d)
      BY <1>4, <2>1, <2>8, FrameSteps
    <3> QED
      BY <2>4, <3>1
  <2>9. CASE x.mnemonic = "RET" /\ c.frame = <<>>
    <3>1. /\ IsMachine(w) /\ w.halted = TRUE /\ w.fault = c.fault /\ w.result = Cell(c, Ax)
          /\ Changed(w, c, {"halted", "result"})
      BY <1>4, <2>9, ReturnStep
    <3>2. /\ IsMachine(v) /\ v.halted = TRUE /\ v.fault = d.fault /\ v.result = Cell(d, Ax)
          /\ Changed(v, d, {"halted", "result"})
      BY <2>1, <2>9, ReturnStep
    <3> HIDE DEF w, v
    <3>3. w.frame = c.frame /\ v.frame = d.frame
      BY <1>1, <3>1, <3>2, SameFields
    <3>4. Cell(c, Ax) = Cell(d, Ax)
      BY <2>2
    <3>5. Same(w, v)
      BY <2>3, <3>1, <3>2, <3>4 DEF Same
    <3> QED
      BY <3>1, <3>2, <3>3, <3>5 DEF Close, w, v
  <2> QED
    BY <2>6, <2>7, <2>8, <2>9 DEF FrameMnemonics
<1> QED
  BY <1>3, <1>4

-----------------------------------------------------------------------------
(* A frame around the code *)

\* The run with the frame is the run without it.
FramedState(c, d, size) == Close(c, d, {}, {}) /\ c.frame = <<>> /\ d.frame = <<size>>

LEMMA FramedStep ==
  ASSUME NEW c, NEW d, NEW size, FramedState(c, d, size), NEW x, x.mnemonic \in Ordinary
  PROVE  FramedState(CpuStep(c, x), CpuStep(d, x), size)
<1>1. Close(c, d, {}, {}) /\ c.frame = <<>> /\ d.frame = <<size>> /\ IsMachine(c) /\ IsMachine(d)
  BY DEF FramedState, Close
<1>2. ReadBy(x) \cap {} = {} /\ {} \ WrittenBy(x) \subseteq {}
  OBVIOUS
<1>3. Close(CpuStep(c, x), CpuStep(d, x), {}, {})
  BY <1>1, <1>2, CloseStep
<1>4. CpuStep(c, x).frame = c.frame /\ CpuStep(d, x).frame = d.frame
  BY <1>1, FrameKept
<1> QED
  BY <1>1, <1>3, <1>4 DEF FramedState

\* The epilogue takes it down, and the last instruction finds none if it runs.
LEMMA FrameTakenDown ==
  ASSUME NEW c, NEW d, NEW size, FramedState(c, d, size), NEW e, e.mnemonic = "DEALLOCATE_STACK",
         NEW x, x.mnemonic \in Ordinary \cup {"RET"}
  PROVE  Same(CpuStep(c, x), CpuStep(CpuStep(d, e), x))
<1> DEFINE b == CpuStep(d, e)
           f == SubSeq(d.frame, 1, Len(d.frame) - 1)
           t == [d EXCEPT !.frame = f]
<1>1. IsMachine(c) /\ IsMachine(d) /\ Same(c, d) /\ Close(c, d, {}, {}) /\ c.frame = <<>> /\ d.frame = <<size>>
  BY DEF FramedState, Close
<1>2. CASE Going(d)
  <2>1. f = <<>> /\ d.frame # <<>>
    BY <1>1
  <2>2. b = t
    BY <1>2, <2>1, FrameSteps
  <2> HIDE DEF f
  <2>3. /\ IsMachine(t) /\ t.frame = f
        /\ t.halted = d.halted /\ t.seek = d.seek /\ t.flags = d.flags /\ t.fault = d.fault
        /\ t.result = d.result /\ \A p : Cell(t, p) = Cell(d, p)
    BY <1>1, FrameChanged
  <2> HIDE DEF t, b
  <2>4. Same(c, t)
    BY <1>1, <2>3 DEF Same
  <2>5. c.halted = FALSE => \A p : p \notin (IF c.seek = NoLabel THEN {} ELSE {}) => Cell(c, p) = Cell(t, p)
    BY <1>1, <2>3 DEF Close
  <2>6. Close(c, t, {}, {})
    BY <1>1, <2>3, <2>4, <2>5 DEF Close
  <2>7. CASE x.mnemonic \in Ordinary
    <3>1. ReadBy(x) \cap {} = {} /\ {} \ WrittenBy(x) \subseteq {}
      OBVIOUS
    <3>2. Close(CpuStep(c, x), CpuStep(t, x), {}, {})
      BY <2>6, <2>7, <3>1, CloseStep
    <3> QED
      BY <2>2, <3>2 DEF Close, b
  <2>8. CASE x.mnemonic = "RET"
    <3>1. x.mnemonic \in FrameMnemonics /\ c.frame = t.frame
      BY <1>1, <2>1, <2>3, <2>8 DEF FrameMnemonics
    <3>2. Close(CpuStep(c, x), CpuStep(t, x), {}, {})
      BY <2>6, <3>1, CloseFrameStep
    <3> QED
      BY <2>2, <3>2 DEF Close, b
  <2> QED
    BY <2>7, <2>8
<1>3. CASE ~Going(d)
  <2>1. ~Going(c)
    BY <1>1, <1>3 DEF Going, Same
  <2>2. /\ After(b, d, e)
        /\ b.halted = d.halted /\ b.fault = d.fault /\ b.flags = d.flags /\ b.result = d.result
        /\ b.seek = d.seek
    BY <1>1, <1>3, IdleStep DEF Found
  <2> HIDE DEF b
  <2>3. IsMachine(b) /\ ~Going(b) /\ Same(c, b)
    BY <1>1, <1>3, <2>2 DEF After, Going, Same
  <2> DEFINE w == CpuStep(c, x)
             v == CpuStep(b, x)
  <2>4. /\ w.halted = c.halted /\ w.fault = c.fault /\ w.flags = c.flags /\ w.result = c.result
        /\ w.seek = IF Found(c, x) THEN NoLabel ELSE c.seek
    BY <1>1, <2>1, IdleStep
  <2>5. /\ v.halted = b.halted /\ v.fault = b.fault /\ v.flags = b.flags /\ v.result = b.result
        /\ v.seek = IF Found(b, x) THEN NoLabel ELSE b.seek
    BY <2>3, IdleStep
  <2>6. c.halted = FALSE => (Found(c, x) <=> Found(b, x))
    BY <2>3 DEF Found, Same
  <2> HIDE DEF w, v
  <2>7. Same(w, v)
    BY <2>3, <2>4, <2>5, <2>6 DEF Same
  <2> QED
    BY <2>7 DEF w, v, b
<1> QED
  BY <1>2, <1>3

\* All of it.
LEMMA FramingKeeps ==
  ASSUME NEW s \in Seq(Instructions), Len(s) >= 1,
         \A k \in 1..Len(s) : /\ s[k].mnemonic \in Ordinary \cup {"RET"}
                              /\ s[k].mnemonic = "RET" => k = Len(s),
         NEW a \in Instructions, a.mnemonic = "ALLOCATE_STACK",
         NEW e \in Instructions, e.mnemonic = "DEALLOCATE_STACK", NEW junk
  PROVE  CpuOutcome(InsertAt(InsertAt(s, 1, a), Len(s) + 1, e), junk) = CpuOutcome(s, junk)
<1> DEFINE n == Len(s)
           r == InsertAt(InsertAt(s, 1, a), Len(s) + 1, e)
           size == a.dst.value
<1>1. n \in Nat /\ n >= 1
  OBVIOUS
<1>2. /\ Len(r) = n + 2
      /\ \A k \in 1..n+2 : r[k] = IF k = 1 THEN a
                                  ELSE IF k <= n THEN s[k - 1]
                                  ELSE IF k = n + 1 THEN e ELSE s[k - 2]
  BY FrameElements
<1> HIDE DEF r
<1>3. PICK f : CpuStates(s, junk, n, f) /\ CpuRun(s, junk) = f[n]
  BY <1>1, CpuRunStates
<1>4. PICK g : CpuStates(r, junk, n + 2, g) /\ CpuRun(r, junk) = g[n + 2]
  <2>1. Len(r) \in Nat
    BY <1>1, <1>2
  <2> QED
    BY <2>1, <1>2, CpuRunStates
<1>5. \A k \in 1..n : /\ s[k].mnemonic \in Ordinary \cup {"RET"}
                      /\ s[k].mnemonic = "RET" => k = n
  OBVIOUS
<1> HIDE DEF n
<1>6. f[0] = CpuInit(junk) /\ \A k \in 1..n : f[k] = CpuStep(f[k - 1], s[k])
  BY <1>1, <1>3, StatesInTurn
<1>7. g[0] = CpuInit(junk) /\ \A k \in 1..n+2 : g[k] = CpuStep(g[k - 1], r[k])
  <2>1. n + 2 \in Nat
    BY <1>1
  <2> QED
    BY <2>1, <1>4, StatesInTurn
<1> DEFINE c  == CpuInit(junk)
           fr == Append(c.frame, size)
           d  == [c EXCEPT !.frame = fr]
<1>8. Going(c) /\ c.frame = <<>>
  BY InitIsMachine
<1>9. g[1] = d
  <2>1. 1 \in 1..n+2 /\ 1 - 1 = 0
    BY <1>1
  <2>2. g[1] = CpuStep(c, a)
    BY <1>2, <1>7, <2>1
  <2> HIDE DEF c
  <2>3. CpuStep(c, a) = d
    BY <1>8, FrameSteps
  <2> QED
    BY <2>2, <2>3
<1>10. FramedState(f[0], g[1], size)
  <2>1. f[0] = c
    BY <1>6
  <2> HIDE DEF c, size
  <2>2. IsMachine(c) /\ fr = <<size>>
    BY <1>8 DEF Going
  <2> HIDE DEF fr
  <2>3. /\ IsMachine(d) /\ d.frame = fr
        /\ d.halted = c.halted /\ d.seek = c.seek /\ d.flags = c.flags /\ d.fault = c.fault
        /\ d.result = c.result /\ \A p : Cell(d, p) = Cell(c, p)
    <3>1. IsMachine(c)
      BY <2>2
    <3> QED
      BY <3>1, FrameChanged
  <2> HIDE DEF d
  <2>4. Same(c, d)
    BY <2>3 DEF Same
  <2>5. FramedState(c, d, size)
    BY <1>8, <2>2, <2>3, <2>4 DEF FramedState, Close
  <2> QED
    BY <2>1, <2>5, <1>9
<1> DEFINE T == {k \in Nat : k <= n - 1 => FramedState(f[k], g[k + 1], size)}
<1> HIDE DEF size, c, d, fr
<1>11. 0 \in T
  BY <1>10
<1>12. ASSUME NEW k \in Nat, k \in T PROVE k + 1 \in T
  <2> SUFFICES ASSUME k + 1 <= n - 1 PROVE FramedState(f[k + 1], g[(k + 1) + 1], size)
    OBVIOUS
  <2>1. /\ k + 1 \in 1..n /\ k + 1 # n /\ (k + 1) - 1 = k /\ k <= n - 1
        /\ k + 2 \in 1..n+2 /\ (k + 2) - 1 = k + 1 /\ k + 2 <= n /\ k + 2 # 1 /\ (k + 1) + 1 = k + 2
    BY <1>1
  <2>2. r[k + 2] = s[k + 1] /\ s[k + 1].mnemonic \in Ordinary
    BY <1>2, <1>5, <2>1 DEF n
  <2>3. f[k + 1] = CpuStep(f[k], s[k + 1]) /\ g[k + 2] = CpuStep(g[k + 1], s[k + 1])
    BY <1>6, <1>7, <2>1, <2>2
  <2>4. FramedState(f[k], g[k + 1], size)
    BY <1>12, <2>1
  <2> QED
    BY <2>1, <2>2, <2>3, <2>4, FramedStep
<1> HIDE DEF T
<1>13. Nat \subseteq T
  BY <1>11, <1>12, SetInduction
<1>14. FramedState(f[n - 1], g[n], size)
  <2>1. n - 1 \in Nat /\ n - 1 <= n - 1 /\ (n - 1) + 1 = n
    BY <1>1
  <2>2. n - 1 \in T
    BY <2>1, <1>13
  <2> QED
    BY <2>1, <2>2 DEF T
<1>15. f[n] = CpuStep(f[n - 1], s[n]) /\ g[n + 2] = CpuStep(CpuStep(g[n], e), s[n])
  <2>1. /\ n \in 1..n /\ n + 1 \in 1..n+2 /\ n + 2 \in 1..n+2 /\ (n + 1) - 1 = n
        /\ (n + 2) - 1 = n + 1 /\ (n + 2) - 2 = n /\ n + 1 # 1 /\ n + 2 # 1 /\ n + 2 # n + 1
        /\ ~(n + 1 <= n) /\ ~(n + 2 <= n)
    BY <1>1
  <2>2. r[n + 1] = e /\ r[n + 2] = s[n]
    BY <1>2, <2>1 DEF n
  <2>3. g[n + 1] = CpuStep(g[n], e) /\ g[n + 2] = CpuStep(g[n + 1], s[n])
    BY <1>7, <2>1, <2>2
  <2> QED
    BY <1>6, <2>1, <2>3
<1>16. s[n].mnemonic \in Ordinary \cup {"RET"}
  BY <1>1, <1>5
<1>17. Same(f[n], g[n + 2])
  BY <1>14, <1>15, <1>16, FrameTakenDown
<1>18. Same(CpuRun(r, junk), CpuRun(s, junk))
  BY <1>3, <1>4, <1>17 DEF Same
<1> QED
  BY <1>18, SameOutcome DEF r

-----------------------------------------------------------------------------
(* Two or three instructions in place of one *)

Scratch == {<<"REGISTER", R10>>, <<"REGISTER", R11>>, <<"REGISTER", CX>>}

\* Block is where the instructions of t get the processor.
Block(c, t) == IF Len(t) = 2 THEN CpuStep(CpuStep(c, t[1]), t[2])
               ELSE CpuStep(CpuStep(CpuStep(c, t[1]), t[2]), t[3])

\* Two runs that agree but for the scratch registers that are not live.
Track(c, d, L) == Close(c, d, Scratch \ L, Scratch) /\ c.frame = d.frame

\* What t does, but for the scratch registers, is what x does.
Replaces(t, x) ==
  /\ Len(t) \in {2, 3}
  /\ \A c : IsMachine(c) => Track(CpuStep(c, x), Block(c, t), {})

\* The scratch registers that hold what they must, from an instruction to the
\* next: each is read only right after the mov, or the multiplication, into it.
Loads(x) == x.mnemonic \in {"MOV", "IMUL"} /\ x.dst.type = "REGISTER"
LiveAt(L, x, M) ==
  /\ L \subseteq Scratch /\ M \subseteq Scratch /\ ReadBy(x) \cap Scratch \subseteq L
  /\ M \subseteq L \cup WrittenBy(x)
  /\ ~Loads(x) => M = {}
Live(P, V) == \A k \in 1..Len(P) : LiveAt(V[k], P[k], V[k + 1])

LEMMA ScratchRegisters == Ax \notin Scratch /\ Dx \notin Scratch
BY DEF Scratch, Ax, Dx, AX, DX, CX, R10, R11

\* The same instruction after them.
LEMMA LiveStep ==
  ASSUME NEW x, x.mnemonic \in Mnemonics, NEW L, NEW M, LiveAt(L, x, M),
         NEW c, NEW d, Track(c, d, L)
  PROVE  Track(CpuStep(c, x), CpuStep(d, x), M)
<1> DEFINE X == Scratch \ L
           Y == Scratch \ M
<1>1. /\ X \subseteq Scratch /\ Y \subseteq Scratch /\ ReadBy(x) \cap X = {}
      /\ X \ WrittenBy(x) \subseteq Y
      /\ ~Loads(x) => Y = Scratch
  BY DEF LiveAt
<1>2. IsMachine(c) /\ IsMachine(d) /\ Close(c, d, X, Scratch) /\ c.frame = d.frame
  BY DEF Close, Track
<1> HIDE DEF X, Y
<1>3. CASE x.mnemonic \in Ordinary
  <2>1. x.mnemonic = "DEFINE_LABEL" => Scratch \subseteq Y
    BY <1>1 DEF Loads
  <2> HIDE DEF Scratch
  <2>2. Close(CpuStep(c, x), CpuStep(d, x), Y, Scratch)
    BY <1>1, <1>2, <1>3, <2>1, ScratchRegisters, CloseStep
  <2>3. CpuStep(c, x).frame = c.frame /\ CpuStep(d, x).frame = d.frame
    BY <1>2, <1>3, FrameKept
  <2> QED
    BY <1>2, <2>2, <2>3 DEF Y, Track
<1>4. CASE x.mnemonic \notin Ordinary
  <2>1. x.mnemonic \in FrameMnemonics
    BY <1>4 DEF Ordinary, FrameMnemonics
  <2>2. Y = Scratch /\ X \subseteq Y
    BY <2>1, <1>1 DEF Loads, FrameMnemonics
  <2> HIDE DEF Scratch
  <2>3. Close(CpuStep(c, x), CpuStep(d, x), Y, Scratch) /\ CpuStep(c, x).frame = CpuStep(d, x).frame
    BY <1>1, <1>2, <2>1, <2>2, ScratchRegisters, CloseFrameStep
  <2> QED
    BY <2>3 DEF Y, Track
<1> QED
  BY <1>3, <1>4

LEMMA MachineKept ==
  ASSUME NEW m, IsMachine(m), NEW x, x.mnemonic \in Mnemonics
  PROVE  IsMachine(CpuStep(m, x))
<1>1. CASE x.mnemonic \in Ordinary
  BY <1>1, FrameKept
<1>2. CASE x.mnemonic \notin Ordinary
  <2>1. x.mnemonic \in FrameMnemonics
    BY <1>2 DEF Ordinary, FrameMnemonics
  <2>2. Close(m, m, {}, {})
    BY DEF Close, Same
  <2>3. Close(CpuStep(m, x), CpuStep(m, x), {}, {})
    BY <2>1, <2>2, CloseFrameStep
  <2> QED
    BY <2>3 DEF Close
<1> QED
  BY <1>1, <1>2

\* The whole run, with what replaces one instruction.
LEMMA SpliceMeans ==
  ASSUME NEW s \in Seq(Instructions), NEW n \in 1..Len(s), NEW t \in Seq(Instructions),
         Replaces(t, s[n]), ~Loads(s[n]), NEW V, Live(s, V), NEW junk
  PROVE  CpuOutcome(SubSeq(s, 1, n - 1) \o t \o SubSeq(s, n + 1, Len(s)), junk) = CpuOutcome(s, junk)
<1> DEFINE N == Len(s)
           l == Len(t)
           r == SubSeq(s, 1, n - 1) \o t \o SubSeq(s, n + 1, Len(s))
<1>1. N \in Nat /\ n \in Nat /\ n >= 1 /\ n <= N /\ l \in {2, 3}
  BY DEF Replaces
<1>2. /\ Len(r) = N + l - 1
      /\ \A k \in 1..Len(r) : r[k] = IF k < n THEN s[k]
                                     ELSE IF k < n + l THEN t[k - n + 1] ELSE s[k - l + 1]
  <2>1. Len(t) >= 1
    <3>1. CASE Len(t) = 2
      BY <3>1
    <3>2. CASE Len(t) = 3
      BY <3>2
    <3> QED
      BY <1>1, <3>1, <3>2
  <2> QED
    BY <2>1, SpliceElements
<1> HIDE DEF r
<1>3. PICK f : CpuStates(s, junk, N, f) /\ CpuRun(s, junk) = f[N]
  BY <1>1, CpuRunStates
<1>4. PICK g : CpuStates(r, junk, N + l - 1, g) /\ CpuRun(r, junk) = g[N + l - 1]
  <2>1. Len(r) \in Nat
    BY <1>1, <1>2
  <2> QED
    BY <2>1, <1>2, CpuRunStates
<1>5. \A k \in 1..N : s[k].mnemonic \in Mnemonics /\ LiveAt(V[k], s[k], V[k + 1])
  <2>1. \A k \in 1..N : s[k] \in Instructions
    OBVIOUS
  <2> QED
    BY <2>1 DEF Live, Instructions
<1>t. \A c : IsMachine(c) => Track(CpuStep(c, s[n]), Block(c, t), {})
  BY DEF Replaces
<1> HIDE DEF N, l
<1>6. f[0] = CpuInit(junk) /\ \A k \in 1..N : f[k] = CpuStep(f[k - 1], s[k])
  BY <1>1, <1>3, StatesInTurn
<1>7. g[0] = CpuInit(junk) /\ \A k \in 1..N+l-1 : g[k] = CpuStep(g[k - 1], r[k])
  <2>1. N + l - 1 \in Nat
    BY <1>1
  <2> QED
    BY <2>1, <1>4, StatesInTurn
\* before the instruction
<1> DEFINE B == {k \in Nat : k <= n - 1 => g[k] = f[k] /\ IsMachine(f[k])}
<1>8. 0 \in B
  BY <1>6, <1>7, InitIsMachine DEF Going
<1>9. ASSUME NEW k \in Nat, k \in B PROVE k + 1 \in B
  <2> SUFFICES ASSUME k + 1 <= n - 1 PROVE g[k + 1] = f[k + 1] /\ IsMachine(f[k + 1])
    OBVIOUS
  <2>1. /\ k + 1 \in 1..N /\ k + 1 \in 1..N+l-1 /\ k + 1 \in 1..Len(r) /\ k + 1 < n /\ (k + 1) - 1 = k
        /\ k <= n - 1
    BY <1>1, <1>2
  <2>2. g[k] = f[k] /\ IsMachine(f[k]) /\ r[k + 1] = s[k + 1]
    BY <1>2, <1>9, <2>1
  <2>3. f[k + 1] = CpuStep(f[k], s[k + 1]) /\ g[k + 1] = CpuStep(f[k], s[k + 1])
    BY <1>6, <1>7, <2>1, <2>2
  <2> QED
    BY <1>5, <2>1, <2>2, <2>3, MachineKept
<1> HIDE DEF B
<1>10. Nat \subseteq B
  BY <1>8, <1>9, SetInduction
<1>11. g[n - 1] = f[n - 1] /\ IsMachine(f[n - 1])
  <2>1. n - 1 \in Nat /\ n - 1 <= n - 1
    BY <1>1
  <2>2. n - 1 \in B
    BY <2>1, <1>10
  <2> QED
    BY <2>1, <2>2 DEF B
\* the instruction
<1>12. f[n] = CpuStep(f[n - 1], s[n])
  BY <1>1, <1>6
<1>13. \A j \in 1..l : r[n - 1 + j] = t[j] /\ g[n - 1 + j] = CpuStep(g[n - 2 + j], t[j])
  <2> SUFFICES ASSUME NEW j \in 1..l
               PROVE  r[n - 1 + j] = t[j] /\ g[n - 1 + j] = CpuStep(g[n - 2 + j], t[j])
    OBVIOUS
  <2>1. /\ n - 1 + j \in 1..N+l-1 /\ n - 1 + j \in 1..Len(r) /\ ~(n - 1 + j < n) /\ n - 1 + j < n + l
        /\ (n - 1 + j) - n + 1 = j /\ (n - 1 + j) - 1 = n - 2 + j
    BY <1>1, <1>2
  <2>2. r[n - 1 + j] = t[j]
    BY <1>2, <2>1
  <2> QED
    BY <1>7, <2>1, <2>2
<1>14. g[n + l - 1] = Block(f[n - 1], t)
  <2>1. CASE l = 2
    <3>1. 1 \in 1..l /\ 2 \in 1..l /\ n - 1 + 1 = n /\ n - 2 + 1 = n - 1 /\ n - 1 + 2 = n + l - 1 /\ n - 2 + 2 = n
      BY <1>1, <2>1
    <3>2. g[n] = CpuStep(g[n - 1], t[1]) /\ g[n + l - 1] = CpuStep(g[n], t[2])
      BY <1>13, <3>1
    <3> QED
      BY <1>11, <2>1, <3>2 DEF Block, l
  <2>2. CASE l = 3
    <3>1. /\ 1 \in 1..l /\ 2 \in 1..l /\ 3 \in 1..l /\ n - 1 + 1 = n /\ n - 2 + 1 = n - 1
          /\ n - 1 + 2 = n + 1 /\ n - 2 + 2 = n /\ n - 1 + 3 = n + l - 1 /\ n - 2 + 3 = n + 1
      BY <1>1, <2>2
    <3>2. /\ g[n] = CpuStep(g[n - 1], t[1]) /\ g[n + 1] = CpuStep(g[n], t[2])
          /\ g[n + l - 1] = CpuStep(g[n + 1], t[3])
      BY <1>13, <3>1
    <3> QED
      BY <1>11, <2>2, <3>2 DEF Block, l
  <2> QED
    BY <1>1, <2>1, <2>2
<1>15. Track(f[n], g[n + l - 1], {})
  BY <1>11, <1>12, <1>14, <1>t
<1>16. V[n + 1] = {}
  BY <1>1, <1>5 DEF LiveAt
\* after it
<1> DEFINE A == {j \in Nat : n + j <= N => Track(f[n + j], g[n + j + l - 1], V[n + j + 1])}
<1>17. 0 \in A
  <2>1. n + 0 = n /\ n + 0 + l - 1 = n + l - 1 /\ n + 0 + 1 = n + 1
    BY <1>1
  <2> QED
    BY <1>15, <1>16, <2>1
<1>18. ASSUME NEW j \in Nat, j \in A PROVE j + 1 \in A
  <2> DEFINE k == n + j + 1
  <2> SUFFICES ASSUME n + (j + 1) <= N
               PROVE  Track(f[n + (j + 1)], g[n + (j + 1) + l - 1], V[n + (j + 1) + 1])
    OBVIOUS
  <2>1. /\ k \in 1..N /\ k - 1 = n + j /\ n + j <= N /\ n + (j + 1) = k /\ n + j + 1 = k
        /\ k + l - 1 \in 1..N+l-1 /\ k + l - 1 \in 1..Len(r) /\ ~(k + l - 1 < n) /\ ~(k + l - 1 < n + l)
        /\ (k + l - 1) - l + 1 = k /\ (k + l - 1) - 1 = n + j + l - 1
    BY <1>1, <1>2
  <2>2. Track(f[n + j], g[n + j + l - 1], V[k])
    BY <1>18, <2>1
  <2> HIDE DEF k
  <2>3. r[k + l - 1] = s[k]
    BY <1>2, <2>1
  <2>4. f[k] = CpuStep(f[n + j], s[k]) /\ g[k + l - 1] = CpuStep(g[n + j + l - 1], s[k])
    BY <1>6, <1>7, <2>1, <2>3
  <2>5. s[k].mnemonic \in Mnemonics /\ LiveAt(V[k], s[k], V[k + 1])
    BY <1>5, <2>1
  <2>6. Track(f[k], g[k + l - 1], V[k + 1])
    BY <2>2, <2>4, <2>5, LiveStep
  <2> QED
    BY <2>1, <2>6
<1> HIDE DEF A
<1>19. Nat \subseteq A
  BY <1>17, <1>18, SetInduction
<1>20. Track(f[N], g[N + l - 1], V[N + 1])
  <2>1. N - n \in Nat /\ n + (N - n) = N /\ n + (N - n) <= N
    BY <1>1
  <2>2. N - n \in A
    BY <2>1, <1>19
  <2> QED
    BY <2>1, <2>2 DEF A
<1>21. Same(CpuRun(r, junk), CpuRun(s, junk))
  BY <1>3, <1>4, <1>20 DEF Track, Close, Same
<1> QED
  BY <1>21, SameOutcome DEF r

\* An instruction that is passed over.
LEMMA IdlePasses ==
  ASSUME NEW c, IsMachine(c), ~Going(c), NEW x, x.mnemonic # "DEFINE_LABEL"
  PROVE  CpuStep(c, x) = c
BY DEF CpuStep, Going, IsMachine

\* A mov.
LEMMA Loaded ==
  ASSUME NEW c, Going(c), NEW d, NEW o
  PROVE  LET b == CpuStep(c, Binary("MOV", d, o))
         IN /\ Going(b) /\ Same(c, b) /\ b.frame = c.frame
            /\ \A p : Cell(b, p) = IF p = Place(d) THEN Read(c, o) ELSE Cell(c, p)
<1> DEFINE x == Binary("MOV", d, o)
           b == CpuStep(c, x)
<1>1. x.mnemonic = "MOV" /\ x.dst = d /\ x.src = o
  BY DEF Binary
<1> HIDE DEF x
<1>2. x.mnemonic \in Ordinary
  BY <1>1 DEF Ordinary, Mnemonics, BinaryMnemonics
<1>3. Effect(b, c, x, Read(c, d), Read(c, o), Cell(c, Ax), Cell(c, Dx))
  BY <1>1, <1>2, StepEffect
<1>4. /\ WrittenBy(x) = {Place(d)}
      /\ \A a, e, ax, dx, f : /\ ~Crashes("MOV", a, ax, dx, f)
                              /\ FlagsAfter("MOV", a, e, f) = f
      /\ \A l, f : SeekAfter("MOV", l, f) = NoLabel
  BY <1>1 DEF WrittenBy, Destinations, BinaryMnemonics, SetMnemonics, Crashes, FlagsAfter, SeekAfter,
              JumpMnemonics, KeepsFlags
<1>5. \A p, a, e, ax, f : WordAt(p, "MOV", a, e, ax, f) = e
  <2>1. \A p, a, e, ax, f : WordAt(p, "MOV", a, e, ax, f) = Arithmetic("MOV", a, e)
    BY Zenon DEF WordAt, SetMnemonics
  <2>2. \A a, e : Arithmetic("MOV", a, e) = e
    BY Zenon DEF Arithmetic
  <2> QED
    BY <2>1, <2>2
<1> HIDE DEF b
<1>6. /\ b.halted = FALSE /\ b.fault = c.fault /\ b.seek = NoLabel /\ b.flags = c.flags
      /\ \A p : Cell(b, p) = IF p = Place(d) THEN Read(c, o) ELSE Cell(c, p)
      /\ Changed(b, c, {"cells", "flags", "seek", "halted", "fault"})
  BY <1>1, <1>3, <1>4, <1>5 DEF Effect
<1>7. b.frame = c.frame /\ b.result = c.result
  BY <1>6, SameFields DEF Going
<1>8. IsMachine(b)
  BY <1>6 DEF IsMachine, Changed, Going
<1>9. Going(b) /\ Same(c, b)
  BY <1>6, <1>7, <1>8 DEF Going, Same
<1> QED
  BY <1>6, <1>7, <1>9 DEF b, x

\* Then an instruction that reads and writes what another one does.
LEMMA LoadedStep ==
  ASSUME NEW c, Going(c), NEW b, Going(b), Same(c, b), b.frame = c.frame,
         \A p : p \notin Scratch => Cell(b, p) = Cell(c, p),
         NEW x, x.mnemonic \in Ordinary, NEW y, Alike(c, x, b, y), WrittenBy(y) = WrittenBy(x)
  PROVE  Track(CpuStep(c, x), CpuStep(b, y), {})
<1> DEFINE w == CpuStep(c, x)
           v == CpuStep(b, y)
<1>0. y.mnemonic \in Ordinary
  BY DEF Alike
<1>1. WriteAlike(w, x, v, y)
  BY BothStep
<1>2. After(w, c, x)
  BY AfterStep
<1>3. After(v, b, y)
  BY <1>0, AfterStep
<1>4. w.frame = c.frame /\ v.frame = b.frame
  BY <1>0, FrameKept DEF Going
<1> HIDE DEF w, v, Scratch
<1>5. ASSUME w.halted = FALSE, NEW p, p \notin Scratch PROVE Cell(w, p) = Cell(v, p)
  <2>1. v.halted = FALSE
    BY <1>1, <1>5 DEF WriteAlike, Same
  <2>2. p \in WrittenBy(x) => Cell(w, p) = Cell(v, p)
    BY <1>1, <1>5 DEF WriteAlike
  <2>3. p \notin WrittenBy(x) => Cell(w, p) = Cell(c, p) /\ Cell(v, p) = Cell(b, p)
    BY <1>2, <1>3, <1>5, <2>1 DEF After
  <2> QED
    BY <1>5, <2>2, <2>3
<1>6. Close(w, v, Scratch \ {}, Scratch)
  BY <1>1, <1>2, <1>3, <1>5 DEF Close, After, WriteAlike
<1> QED
  BY <1>4, <1>6 DEF Track, w, v

\* A processor that passes over all of them.
LEMMA IdleBlock ==
  ASSUME NEW c, IsMachine(c), ~Going(c), NEW x, x.mnemonic # "DEFINE_LABEL", NEW t, Len(t) \in {2, 3},
         \A k \in 1..Len(t) : t[k].mnemonic # "DEFINE_LABEL"
  PROVE  Track(CpuStep(c, x), Block(c, t), {})
<1>1. \A k \in 1..Len(t) : CpuStep(c, t[k]) = c
  BY IdlePasses
<1>2. Block(c, t) = c
  <2>1. CASE Len(t) = 2
    <3>1. 1 \in 1..Len(t) /\ 2 \in 1..Len(t)
      BY <2>1
    <3>2. CpuStep(c, t[1]) = c /\ CpuStep(c, t[2]) = c
      BY <1>1, <3>1
    <3> QED
      BY <2>1, <3>2 DEF Block
  <2>2. CASE Len(t) = 3
    <3>1. 1 \in 1..Len(t) /\ 2 \in 1..Len(t) /\ 3 \in 1..Len(t)
      BY <2>2
    <3>2. CpuStep(c, t[1]) = c /\ CpuStep(c, t[2]) = c /\ CpuStep(c, t[3]) = c
      BY <1>1, <3>1
    <3>3. Len(t) # 2
      BY <2>2
    <3> QED
      BY <3>2, <3>3 DEF Block
  <2> QED
    BY <2>1, <2>2
<1>3. CpuStep(c, x) = c
  BY IdlePasses
<1> QED
  BY <1>2, <1>3 DEF Track, Close, Same

\* A value moved into a scratch register for the instruction.
LEMMA TwoReplace ==
  ASSUME NEW r \in {R10, R11, CX}, NEW o, NEW y, NEW x, x.mnemonic \in Ordinary \ {"DEFINE_LABEL"},
         y.mnemonic = x.mnemonic, WrittenBy(y) = WrittenBy(x),
         \A c, b : (\A p : Cell(b, p) = IF p = <<"REGISTER", r>> THEN Read(c, o) ELSE Cell(c, p))
                     => Alike(c, x, b, y)
  PROVE  Replaces(<< Binary("MOV", RegOp(r), o), y >>, x)
<1> DEFINE m == Binary("MOV", RegOp(r), o)
           t == <<m, y>>
<1>1. Len(t) = 2 /\ t[1] = m /\ t[2] = y
  OBVIOUS
<1>2. m.mnemonic = "MOV"
  BY DEF Binary
<1>3. Place(RegOp(r)) = <<"REGISTER", r>> /\ <<"REGISTER", r>> \in Scratch
  BY DEF Place, RegOp, Operand, Scratch
<1> HIDE DEF t
<1>4. ASSUME NEW c, IsMachine(c) PROVE Track(CpuStep(c, x), Block(c, t), {})
  <2>1. CASE ~Going(c)
    <3>1. \A k \in 1..Len(t) : t[k].mnemonic # "DEFINE_LABEL"
      BY <1>1, <1>2
    <3>2. Len(t) \in {2, 3}
      BY <1>1
    <3> QED
      BY <1>4, <2>1, <3>1, <3>2, IdleBlock
  <2>2. CASE Going(c)
    <3> DEFINE b == CpuStep(c, m)
    <3>1. /\ Going(b) /\ Same(c, b) /\ b.frame = c.frame
          /\ \A p : Cell(b, p) = IF p = <<"REGISTER", r>> THEN Read(c, o) ELSE Cell(c, p)
      BY <1>3, <2>2, Loaded
    <3>2. Block(c, t) = CpuStep(b, y)
      BY <1>1 DEF Block
    <3> HIDE DEF b, m
    <3>3. Alike(c, x, b, y)
      BY <3>1
    <3>4. \A p : p \notin Scratch => Cell(b, p) = Cell(c, p)
      BY <1>3, <3>1
    <3> HIDE DEF Scratch
    <3>5. Track(CpuStep(c, x), CpuStep(b, y), {})
      BY <2>2, <3>1, <3>3, <3>4, LoadedStep
    <3> QED
      BY <3>2, <3>5
  <2> QED
    BY <2>1, <2>2
<1>5. Len(t) \in {2, 3}
  BY <1>1
<1> QED
  BY <1>4, <1>5 DEF Replaces, t

LEMMA BinaryAlike ==
  ASSUME NEW x, x.mnemonic \in BinaryMnemonics, NEW y, y.mnemonic = x.mnemonic, NEW c, NEW b,
         Read(c, x.dst) = Read(b, y.dst), Read(c, x.src) = Read(b, y.src)
  PROVE  Alike(c, x, b, y)
<1>1. x.mnemonic \notin {"CDQ", "IDIV"} \cup JumpMnemonics
  BY DEF BinaryMnemonics, JumpMnemonics
<1> QED
  BY <1>1 DEF Alike

LEMMA FixedMnemonics ==
  /\ BinaryMnemonics \subseteq Ordinary \ {"DEFINE_LABEL"} /\ "IDIV" \in Ordinary \ {"DEFINE_LABEL"}
  /\ "IMUL" \in BinaryMnemonics /\ "CMP" \in BinaryMnemonics
<1>1. BinaryMnemonics \subseteq Mnemonics /\ "IDIV" \in Mnemonics
  BY DEF Mnemonics, UnaryMnemonics
<1>2. \A op \in BinaryMnemonics : op \notin {"RET", "ALLOCATE_STACK", "DEALLOCATE_STACK", "DEFINE_LABEL"}
  BY DEF BinaryMnemonics
<1>3. "IMUL" \in BinaryMnemonics /\ "CMP" \in BinaryMnemonics
  BY DEF BinaryMnemonics
<1> QED
  BY <1>1, <1>2, <1>3 DEF Ordinary

\* fix_invalid_addr_addr, fix_invalid_shifts: the source in a register.
LEMMA SourceMoved ==
  ASSUME NEW x, x.mnemonic \in BinaryMnemonics, BothStack(x), NEW r \in {R10, CX}
  PROVE  Replaces(<< Binary("MOV", RegOp(r), StackOp(x.src.value)),
                     Binary(x.mnemonic, StackOp(x.dst.value), RegOp(r)) >>, x)
<1> DEFINE o == StackOp(x.src.value)
           y == Binary(x.mnemonic, StackOp(x.dst.value), RegOp(r))
<1>1. /\ y.mnemonic = x.mnemonic /\ y.dst = StackOp(x.dst.value) /\ y.src = RegOp(r)
      /\ x.dst.type = "STACK" /\ x.src.type = "STACK"
  BY DEF Binary, BothStack
<1>2. /\ Place(x.dst) = <<"STACK", x.dst.value>> /\ Place(y.dst) = Place(x.dst)
      /\ Place(o) = Place(x.src) /\ o.type = "STACK" /\ y.dst.type = "STACK"
      /\ Place(y.src) = <<"REGISTER", r>> /\ y.src.type = "REGISTER"
  BY <1>1 DEF Place, StackOp, RegOp, Operand
<1>3. WrittenBy(y) = WrittenBy(x)
  BY <1>1, <1>2 DEF WrittenBy
<1> HIDE DEF o, y, BothStack
<1>4. ASSUME NEW c, NEW b, \A p : Cell(b, p) = IF p = <<"REGISTER", r>> THEN Read(c, o) ELSE Cell(c, p)
      PROVE  Alike(c, x, b, y)
  <2>1. Read(c, x.src) = Read(b, y.src)
    BY <1>1, <1>2, <1>4 DEF Read
  <2>2. Read(c, x.dst) = Read(b, y.dst)
    BY <1>1, <1>2, <1>4 DEF Read
  <2> QED
    BY <1>1, <2>1, <2>2, BinaryAlike
<1>5. x.mnemonic \in Ordinary \ {"DEFINE_LABEL"} /\ r \in {R10, R11, CX}
  BY FixedMnemonics
<1>6. Replaces(<<Binary("MOV", RegOp(r), o), y>>, x)
  BY <1>1, <1>3, <1>4, <1>5, TwoReplace
<1> QED
  BY <1>6 DEF o, y

\* fix_invalid_idivs.
LEMMA DivisorMoved ==
  ASSUME NEW x, x.mnemonic = "IDIV", x.dst.type = "IMMEDIATE"
  PROVE  Replaces(<< Binary("MOV", RegOp(R10), ImmOp(x.dst.value)), Unary("IDIV", RegOp(R10)) >>, x)
<1> DEFINE o == ImmOp(x.dst.value)
           y == Unary("IDIV", RegOp(R10))
<1>1. y.mnemonic = x.mnemonic /\ y.dst = RegOp(R10)
  BY DEF Unary
<1>2. /\ o.type = "IMMEDIATE" /\ o.value = x.dst.value
      /\ Place(y.dst) = <<"REGISTER", R10>> /\ y.dst.type = "REGISTER"
  BY <1>1 DEF Place, ImmOp, RegOp, Operand
<1>3. WrittenBy(y) = WrittenBy(x)
  BY <1>1 DEF WrittenBy, Destinations, BinaryMnemonics, SetMnemonics
<1>n. /\ <<"REGISTER", R10>> # Ax /\ <<"REGISTER", R10>> # Dx
      /\ x.mnemonic \notin BinaryMnemonics /\ x.mnemonic \notin JumpMnemonics
  BY DEF Ax, Dx, AX, DX, R10, BinaryMnemonics, JumpMnemonics
<1> HIDE DEF o, y
<1>4. ASSUME NEW c, NEW b, \A p : Cell(b, p) = IF p = <<"REGISTER", R10>> THEN Read(c, o) ELSE Cell(c, p)
      PROVE  Alike(c, x, b, y)
  <2>1. Read(c, x.dst) = Read(b, y.dst)
    BY <1>1, <1>2, <1>4 DEF Read
  <2>2. Cell(c, Ax) = Cell(b, Ax) /\ Cell(c, Dx) = Cell(b, Dx)
    BY <1>n, <1>4
  <2> QED
    BY <1>1, <1>n, <2>1, <2>2 DEF Alike
<1>5. x.mnemonic \in Ordinary \ {"DEFINE_LABEL"} /\ R10 \in {R10, R11, CX}
  BY FixedMnemonics
<1>6. Replaces(<<Binary("MOV", RegOp(R10), o), y>>, x)
  BY <1>1, <1>3, <1>4, <1>5, TwoReplace
<1> QED
  BY <1>6 DEF o, y

\* fix_invalid_cmps.
LEMMA ComparedMoved ==
  ASSUME NEW x, x.mnemonic = "CMP", x.dst.type = "IMMEDIATE", Place(x.src) # <<"REGISTER", R11>>
  PROVE  Replaces(<< Binary("MOV", RegOp(R11), ImmOp(x.dst.value)), Binary("CMP", RegOp(R11), x.src) >>, x)
<1> DEFINE o == ImmOp(x.dst.value)
           y == Binary("CMP", RegOp(R11), x.src)
<1>1. y.mnemonic = x.mnemonic /\ y.dst = RegOp(R11) /\ y.src = x.src
  BY DEF Binary
<1>2. /\ o.type = "IMMEDIATE" /\ o.value = x.dst.value
      /\ Place(y.dst) = <<"REGISTER", R11>> /\ y.dst.type = "REGISTER"
  BY <1>1 DEF Place, ImmOp, RegOp, Operand
<1>3. WrittenBy(y) = WrittenBy(x)
  BY <1>1 DEF WrittenBy, Destinations, BinaryMnemonics, SetMnemonics
<1> HIDE DEF o, y
<1>4. ASSUME NEW c, NEW b, \A p : Cell(b, p) = IF p = <<"REGISTER", R11>> THEN Read(c, o) ELSE Cell(c, p)
      PROVE  Alike(c, x, b, y)
  <2>1. Read(c, x.dst) = Read(b, y.dst)
    BY <1>1, <1>2, <1>4 DEF Read
  <2>2. Read(c, x.src) = Read(b, y.src)
    BY <1>1, <1>4 DEF Read
  <2> QED
    BY <1>1, <2>1, <2>2, BinaryAlike, FixedMnemonics
<1>5. x.mnemonic \in Ordinary \ {"DEFINE_LABEL"} /\ R11 \in {R10, R11, CX}
  BY FixedMnemonics
<1>6. Replaces(<<Binary("MOV", RegOp(R11), o), y>>, x)
  BY <1>1, <1>3, <1>4, <1>5, TwoReplace
<1> QED
  BY <1>6 DEF o, y

\* fix_invalid_imuls.
LEMMA Multiplied ==
  ASSUME NEW x, x.mnemonic = "IMUL", x.dst.type = "STACK", Place(x.src) # <<"REGISTER", R11>>
  PROVE  Replaces(<< Binary("MOV", RegOp(R11), StackOp(x.dst.value)),
                     Binary("IMUL", RegOp(R11), x.src),
                     Binary("MOV", StackOp(x.dst.value), RegOp(R11)) >>, x)
<1> DEFINE d  == StackOp(x.dst.value)
           m1 == Binary("MOV", RegOp(R11), d)
           y  == Binary("IMUL", RegOp(R11), x.src)
           m2 == Binary("MOV", d, RegOp(R11))
           t  == << m1, y, m2 >>
           q  == <<"REGISTER", R11>>
<1>1. y.mnemonic = x.mnemonic /\ y.dst = RegOp(R11) /\ y.src = x.src
  BY DEF Binary
<1>2. /\ d.type = "STACK" /\ Place(d) = Place(x.dst) /\ Place(x.dst) # q /\ Place(x.dst) \notin Scratch
      /\ Place(RegOp(R11)) = q /\ RegOp(R11).type = "REGISTER" /\ q \in Scratch
  BY DEF Place, StackOp, RegOp, Operand, Scratch
<1>3. m1.mnemonic = "MOV" /\ m2.mnemonic = "MOV" /\ y.mnemonic = "IMUL"
  BY DEF Binary
<1>4. Len(t) = 3 /\ t[1] = m1 /\ t[2] = y /\ t[3] = m2
  OBVIOUS
<1>5. x.mnemonic \in Ordinary /\ x.mnemonic \in BinaryMnemonics
  BY FixedMnemonics
<1>6. WrittenBy(x) = {Place(x.dst)} /\ WrittenBy(y) = {q}
  BY <1>1, <1>2 DEF WrittenBy, Destinations, BinaryMnemonics
<1>7. \A a, l, ax, dx, f : ~Crashes("IMUL", a, ax, dx, f) /\ SeekAfter("IMUL", l, f) = NoLabel
  BY DEF Crashes, SeekAfter, SetMnemonics
<1> HIDE DEF t, y, d, q
<1>8. ASSUME NEW c, IsMachine(c) PROVE Track(CpuStep(c, x), Block(c, t), {})
  <2>1. CASE ~Going(c)
    <3>1. \A k \in 1..Len(t) : t[k].mnemonic # "DEFINE_LABEL"
      BY <1>1, <1>3, <1>4
    <3>2. Len(t) \in {2, 3}
      BY <1>4
    <3> QED
      BY <1>8, <2>1, <3>1, <3>2, IdleBlock
  <2>2. CASE Going(c)
    <3> DEFINE b == CpuStep(c, m1)
               w == CpuStep(c, x)
               v == CpuStep(b, y)
               u == CpuStep(v, m2)
    <3>1. /\ Going(b) /\ Same(c, b) /\ b.frame = c.frame
          /\ \A p : Cell(b, p) = IF p = q THEN Read(c, d) ELSE Cell(c, p)
      BY <1>2, <2>2, Loaded
    <3>2. Block(c, t) = u
      <4>1. Len(t) # 2
        BY <1>4
      <4> QED
        BY <1>4, <4>1 DEF Block
    <3> HIDE DEF b
    <3>3. Alike(c, x, b, y)
      <4>1. Read(c, x.dst) = Read(b, y.dst)
        BY <1>1, <1>2, <3>1 DEF Read
      <4>2. Read(c, x.src) = Read(b, y.src)
        BY <1>1, <3>1 DEF Read, q
      <4> QED
        BY <1>1, <1>5, <4>1, <4>2, BinaryAlike
    <3>4. WriteAlike(w, x, v, y)
      BY <1>5, <2>2, <3>1, <3>3, BothStep
    <3>5. w.halted = FALSE /\ w.seek = NoLabel
      <4>1. Effect(w, c, x, Read(c, x.dst), Read(c, x.src), Cell(c, Ax), Cell(c, Dx))
        BY <1>5, <2>2, StepEffect
      <4> QED
        BY <1>7, <4>1 DEF Effect
    <3>6. After(w, c, x) /\ After(v, b, y)
      BY <1>1, <1>5, <2>2, <3>1, AfterStep
    <3>7. w.frame = c.frame /\ v.frame = b.frame
      BY <1>1, <1>5, <2>2, <3>1, FrameKept DEF Going
    <3> HIDE DEF w, v
    <3>8. Going(v)
      BY <3>4, <3>5, <3>6 DEF WriteAlike, Same, After, Going
    <3>9. /\ Going(u) /\ Same(v, u) /\ u.frame = v.frame
          /\ \A p : Cell(u, p) = IF p = Place(x.dst) THEN Read(v, RegOp(R11)) ELSE Cell(v, p)
      BY <1>2, <3>8, Loaded
    <3>10. Read(v, RegOp(R11)) = Cell(w, Place(x.dst))
      BY <1>2, <1>6, <3>4, <3>5 DEF WriteAlike, Read
    <3> HIDE DEF u, Scratch
    <3>11. ASSUME NEW p, p \notin Scratch PROVE Cell(w, p) = Cell(u, p)
      <4>1. CASE p = Place(x.dst)
        BY <3>9, <3>10, <4>1
      <4>2. CASE p # Place(x.dst)
        <5>1. Cell(w, p) = Cell(c, p)
          BY <1>6, <3>5, <3>6, <4>2 DEF After
        <5>2. Cell(v, p) = Cell(b, p) /\ Cell(b, p) = Cell(c, p)
          BY <1>2, <1>6, <3>1, <3>6, <3>8, <3>11 DEF After, Going
        <5> QED
          BY <3>9, <4>2, <5>1, <5>2
      <4> QED
        BY <4>1, <4>2
    <3>12. Same(w, u)
      BY <3>4, <3>9 DEF Same, WriteAlike
    <3>13. Close(w, u, Scratch \ {}, Scratch)
      BY <3>6, <3>9, <3>11, <3>12 DEF Close, After, Going
    <3> QED
      BY <3>1, <3>2, <3>7, <3>9, <3>13 DEF Track, w
  <2> QED
    BY <2>1, <2>2
<1>9. Len(t) \in {2, 3}
  BY <1>4
<1>10. Replaces(t, x)
  BY <1>8, <1>9 DEF Replaces
<1> QED
  BY <1>10 DEF t, y, d

\* What the passes are given: no pseudo registers, and r11 only where it was put
\* for the instruction.
Sane(x) ==
  /\ x \in Instructions /\ x.dst.type # "PSEUDO" /\ x.src.type # "PSEUDO"
  /\ BothStack(x) => x.mnemonic \in BinaryMnemonics
  /\ Place(x.src) = <<"REGISTER", R11>> => x.mnemonic = "MOV"

\* In place of x, t reads no scratch register that it has not loaded.
Chained(t, x) ==
  \A L : LiveAt(L, x, {}) =>
    \E W : /\ LiveAt(L, t[1], W) /\ LiveAt(W, t[Len(t)], {})
           /\ \A k \in 2..Len(t)-1 : LiveAt(W, t[k], W)

\* What a fix may put in place of an instruction.
GoodFix(t, x) ==
  \/ t = <<x>>
  \/ /\ t \in Seq(Instructions) /\ Replaces(t, x) /\ ~Loads(x) /\ Chained(t, x)
     /\ \A k \in 1..Len(t) : Sane(t[k])

\* A mov into r, and an instruction that reads r.
LEMMA LoadLives ==
  ASSUME NEW L, NEW x, LiveAt(L, x, {}), NEW r \in {R10, R11, CX}, NEW o, Place(o) \notin Scratch
  PROVE  /\ LiveAt(L, Binary("MOV", RegOp(r), o), L \cup {<<"REGISTER", r>>})
         /\ L \cup {<<"REGISTER", r>>} \subseteq Scratch /\ ReadBy(x) \cap Scratch \subseteq L
<1> DEFINE m == Binary("MOV", RegOp(r), o)
           q == <<"REGISTER", r>>
<1>1. m.mnemonic = "MOV" /\ m.dst = RegOp(r) /\ m.src = o /\ m.dst.type = "REGISTER" /\ Place(m.dst) = q
  BY DEF Binary, RegOp, Operand, Place
<1> HIDE DEF m
<1>2. ReadBy(m) = {Place(o)} /\ WrittenBy(m) = {q} /\ Loads(m)
  BY <1>1 DEF ReadBy, WrittenBy, Loads, BinaryMnemonics, UnaryMnemonics, SetMnemonics, Destinations
<1>3. q \in Scratch
  BY DEF Scratch
<1>4. L \subseteq Scratch /\ ReadBy(x) \cap Scratch \subseteq L
  BY DEF LiveAt
<1> HIDE DEF q, Scratch
<1>5. LiveAt(L, m, L \cup {q})
  BY <1>2, <1>3, <1>4 DEF LiveAt
<1> QED
  BY <1>3, <1>4, <1>5 DEF m, q

LEMMA UseLives ==
  ASSUME NEW W, W \subseteq Scratch, NEW y, ReadBy(y) \cap Scratch \subseteq W
  PROVE  LiveAt(W, y, {})
BY DEF LiveAt

LEMMA TwoChained ==
  ASSUME NEW r \in {R10, R11, CX}, NEW o, Place(o) \notin Scratch, NEW x, NEW y,
         ReadBy(y) \subseteq ReadBy(x) \cup {<<"REGISTER", r>>}
  PROVE  Chained(<< Binary("MOV", RegOp(r), o), y >>, x)
<1> DEFINE m == Binary("MOV", RegOp(r), o)
           t == <<m, y>>
           q == <<"REGISTER", r>>
<1>1. t[1] = m /\ Len(t) = 2 /\ t[Len(t)] = y /\ 2..Len(t)-1 = {}
  OBVIOUS
<1> HIDE DEF t, m
<1>2. ASSUME NEW L, LiveAt(L, x, {})
      PROVE  \E W : /\ LiveAt(L, t[1], W) /\ LiveAt(W, t[Len(t)], {})
                    /\ \A k \in 2..Len(t)-1 : LiveAt(W, t[k], W)
  <2> DEFINE W == L \cup {q}
  <2>1. LiveAt(L, m, W) /\ W \subseteq Scratch /\ ReadBy(x) \cap Scratch \subseteq L
    BY <1>2, LoadLives DEF m
  <2> HIDE DEF q, Scratch
  <2>2. ReadBy(y) \cap Scratch \subseteq W
    BY <2>1 DEF q
  <2> HIDE DEF W
  <2>3. LiveAt(W, y, {})
    BY <2>1, <2>2, UseLives
  <2> QED
    BY <1>1, <2>1, <2>3
<1>3. Chained(t, x)
  BY <1>2 DEF Chained
<1> QED
  BY <1>3 DEF t, m

LEMMA MultiplyChained ==
  ASSUME NEW d, d.type = "STACK", NEW x, x.mnemonic = "IMUL", Place(x.dst) = Place(d)
  PROVE  Chained(<< Binary("MOV", RegOp(R11), d), Binary("IMUL", RegOp(R11), x.src),
                    Binary("MOV", d, RegOp(R11)) >>, x)
<1> DEFINE m == Binary("MOV", RegOp(R11), d)
           y == Binary("IMUL", RegOp(R11), x.src)
           z == Binary("MOV", d, RegOp(R11))
           t == <<m, y, z>>
           q == <<"REGISTER", R11>>
<1>1. t[1] = m /\ Len(t) = 3 /\ t[Len(t)] = z /\ t[2] = y /\ \A k \in 2..Len(t)-1 : k = 2
  OBVIOUS
<1>2. /\ y.mnemonic = "IMUL" /\ y.dst = RegOp(R11) /\ y.src = x.src
      /\ z.mnemonic = "MOV" /\ z.dst = d /\ z.src = RegOp(R11)
  BY DEF Binary
<1>3. Place(RegOp(R11)) = q /\ RegOp(R11).type = "REGISTER" /\ Place(d) \notin Scratch
  BY DEF Place, RegOp, Operand, Scratch
<1> HIDE DEF t, m, y, z, q
<1>4. /\ ReadBy(y) = {q, Place(x.src)} /\ ReadBy(z) = {q} /\ ReadBy(x) = {Place(d), Place(x.src)}
      /\ Loads(y)
  BY <1>2, <1>3 DEF ReadBy, Loads, BinaryMnemonics, UnaryMnemonics, SetMnemonics
<1>5. ASSUME NEW L, LiveAt(L, x, {})
      PROVE  \E W : /\ LiveAt(L, t[1], W) /\ LiveAt(W, t[Len(t)], {})
                    /\ \A k \in 2..Len(t)-1 : LiveAt(W, t[k], W)
  <2> DEFINE W == L \cup {q}
  <2>1. LiveAt(L, m, W) /\ W \subseteq Scratch /\ ReadBy(x) \cap Scratch \subseteq L
    BY <1>3, <1>5, LoadLives DEF m, q
  <2> HIDE DEF Scratch
  <2>2. ReadBy(z) \cap Scratch \subseteq W /\ ReadBy(y) \cap Scratch \subseteq W
    BY <1>4, <2>1
  <2> HIDE DEF W
  <2>3. LiveAt(W, z, {})
    BY <2>1, <2>2, UseLives
  <2>4. LiveAt(W, y, W)
    BY <1>4, <2>1, <2>2 DEF LiveAt
  <2> QED
    BY <1>1, <2>1, <2>3, <2>4
<1>6. Chained(t, x)
  BY <1>5 DEF Chained
<1> QED
  BY <1>6 DEF t, m, y, z

\* The instructions that the passes make.
LEMMA MadeSane ==
  ASSUME NEW op \in BinaryMnemonics, NEW d \in Operands, NEW s \in Operands,
         d.type # "PSEUDO", s.type # "PSEUDO", op = "MOV" \/ Place(s) # <<"REGISTER", R11>>
  PROVE  Sane(Binary(op, d, s)) /\ Binary(op, d, s) \in Instructions
<1> DEFINE x == Binary(op, d, s)
<1>1. x.mnemonic = op /\ x.dst = d /\ x.src = s
  BY DEF Binary
<1>2. x \in Instructions
  BY InstructionTypes DEF Mnemonics
<1> QED
  BY <1>1, <1>2 DEF Sane
LEMMA ScratchOperands ==
  /\ \A r \in {R10, R11, CX} : RegOp(r) \in Operands /\ RegOp(r).type = "REGISTER" /\ Place(RegOp(r)) = <<"REGISTER", r>>
  /\ \A v \in Int : /\ StackOp(v) \in Operands /\ StackOp(v).type = "STACK" /\ StackOp(v).value = v
                    /\ ImmOp(v) \in Operands /\ ImmOp(v).type = "IMMEDIATE"
  /\ \A o : o.type \notin {"REGISTER"} => Place(o) \notin Scratch
<1>1. \A r \in {R10, R11, CX} : RegOp(r).type = "REGISTER" /\ Place(RegOp(r)) = <<"REGISTER", r>>
  BY DEF RegOp, Operand, Place
<1>2. \A r \in {R10, R11, CX} : RegOp(r) \in Operands
  BY Registers DEF RegOp, Operand, Operands
<1>3. \A v \in Int : /\ StackOp(v) \in Operands /\ StackOp(v).type = "STACK" /\ StackOp(v).value = v
                     /\ ImmOp(v) \in Operands /\ ImmOp(v).type = "IMMEDIATE"
  BY DEF StackOp, ImmOp, Operand, Operands
<1>4. \A o : o.type \notin {"REGISTER"} => Place(o) \notin Scratch
  BY DEF Place, Scratch
<1> QED
  BY <1>1, <1>2, <1>3, <1>4

LEMMA PairSane ==
  ASSUME NEW a, Sane(a), NEW b, Sane(b)
  PROVE  <<a, b>> \in Seq(Instructions) /\ \A k \in 1..Len(<<a, b>>) : Sane(<<a, b>>[k])
<1>1. a \in Instructions /\ b \in Instructions
  BY DEF Sane
<1>2. <<a, b>> \in Seq(Instructions)
  BY <1>1
<1>3. \A k \in 1..Len(<<a, b>>) : <<a, b>>[k] = a \/ <<a, b>>[k] = b
  OBVIOUS
<1> QED
  BY <1>2, <1>3

LEMMA TripleSane ==
  ASSUME NEW a, Sane(a), NEW b, Sane(b), NEW c, Sane(c)
  PROVE  <<a, b, c>> \in Seq(Instructions) /\ \A k \in 1..Len(<<a, b, c>>) : Sane(<<a, b, c>>[k])
<1>1. a \in Instructions /\ b \in Instructions /\ c \in Instructions
  BY DEF Sane
<1>2. <<a, b, c>> \in Seq(Instructions)
  BY <1>1
<1>3. \A k \in 1..Len(<<a, b, c>>) : <<a, b, c>>[k] = a \/ <<a, b, c>>[k] = b \/ <<a, b, c>>[k] = c
  OBVIOUS
<1> QED
  BY <1>2, <1>3

\* The source of an instruction with two stack operands.
LEMMA SourceGood ==
  ASSUME NEW x, Sane(x), x.mnemonic \in BinaryMnemonics, BothStack(x), NEW r \in {R10, CX}
  PROVE  GoodFix(<< Binary("MOV", RegOp(r), StackOp(x.src.value)),
                    Binary(x.mnemonic, StackOp(x.dst.value), RegOp(r)) >>, x)
<1> DEFINE o == StackOp(x.src.value)
           d == StackOp(x.dst.value)
           m == Binary("MOV", RegOp(r), o)
           y == Binary(x.mnemonic, d, RegOp(r))
           q == <<"REGISTER", r>>
<1>1. x.dst.value \in Int /\ x.src.value \in Int /\ x.dst.type = "STACK" /\ x.src.type = "STACK"
  BY DEF Sane, BothStack, Instructions, Operands
<1>2. /\ o \in Operands /\ o.type = "STACK" /\ d \in Operands /\ d.type = "STACK"
      /\ RegOp(r) \in Operands /\ RegOp(r).type = "REGISTER" /\ Place(RegOp(r)) = q
      /\ Place(o) \notin Scratch
  BY <1>1, ScratchOperands
<1>3. q # <<"REGISTER", R11>>
  BY DEF R10, R11, CX
<1>4. y.mnemonic = x.mnemonic /\ y.dst = d /\ y.src = RegOp(r) /\ Place(d) = Place(x.dst)
  BY <1>1 DEF Binary, Place, StackOp, Operand
<1>5. "MOV" \in BinaryMnemonics
  BY DEF BinaryMnemonics
<1>6. Replaces(<<m, y>>, x)
  BY SourceMoved
<1> HIDE DEF o, d, q
<1>7. Sane(m) /\ Sane(y)
  BY <1>2, <1>3, <1>5, MadeSane
<1> HIDE DEF m, y
<1>8. ReadBy(y) \subseteq ReadBy(x) \cup {q}
  BY <1>2, <1>4 DEF ReadBy
<1>9. Chained(<<m, y>>, x)
  BY <1>2, <1>8, TwoChained DEF m, q
<1>10. ~Loads(x)
  BY <1>1 DEF Loads
<1>11. <<m, y>> \in Seq(Instructions) /\ \A k \in 1..Len(<<m, y>>) : Sane(<<m, y>>[k])
  BY <1>7, PairSane
<1>12. GoodFix(<<m, y>>, x)
  BY <1>6, <1>9, <1>10, <1>11 DEF GoodFix
<1> QED
  BY <1>12 DEF m, y, o, d

LEMMA AddrAddrGood ==
  ASSUME NEW x, Sane(x)
  PROVE  GoodFix(fix_invalid_addr_addr(x), x)
<1>1. CASE x.mnemonic \notin {"SHL", "SAR"} /\ BothStack(x)
  <2>1. x.mnemonic \in BinaryMnemonics
    BY <1>1 DEF Sane
  <2> QED
    BY <1>1, <2>1, SourceGood DEF fix_invalid_addr_addr
<1>2. CASE ~(x.mnemonic \notin {"SHL", "SAR"} /\ BothStack(x))
  BY <1>2 DEF fix_invalid_addr_addr, GoodFix
<1> QED
  BY <1>1, <1>2

LEMMA ShiftGood ==
  ASSUME NEW x, Sane(x)
  PROVE  GoodFix(fix_invalid_shifts(x), x)
<1>1. CASE x.mnemonic \in {"SHL", "SAR"} /\ BothStack(x)
  <2>1. x.mnemonic \in BinaryMnemonics
    BY <1>1 DEF Sane
  <2> QED
    BY <1>1, <2>1, SourceGood DEF fix_invalid_shifts
<1>2. CASE ~(x.mnemonic \in {"SHL", "SAR"} /\ BothStack(x))
  BY <1>2 DEF fix_invalid_shifts, GoodFix
<1> QED
  BY <1>1, <1>2

LEMMA IdivGood ==
  ASSUME NEW x, Sane(x)
  PROVE  GoodFix(fix_invalid_idivs(x), x)
<1>1. CASE ~(x.mnemonic = "IDIV" /\ x.dst.type = "IMMEDIATE")
  BY <1>1 DEF fix_invalid_idivs, GoodFix
<1>2. CASE x.mnemonic = "IDIV" /\ x.dst.type = "IMMEDIATE"
  <2> DEFINE o == ImmOp(x.dst.value)
             m == Binary("MOV", RegOp(R10), o)
             y == Unary("IDIV", RegOp(R10))
             q == <<"REGISTER", R10>>
  <2>1. x.dst.value \in Int
    BY DEF Sane, Instructions, Operands
  <2>2. /\ o \in Operands /\ o.type = "IMMEDIATE" /\ Place(o) \notin Scratch
        /\ RegOp(R10) \in Operands /\ RegOp(R10).type = "REGISTER" /\ Place(RegOp(R10)) = q
    BY <2>1, ScratchOperands
  <2>3. /\ y.mnemonic = "IDIV" /\ y.dst = RegOp(R10) /\ y.src = ZeroOp /\ ZeroOp.type = "LABEL"
        /\ "MOV" \in BinaryMnemonics
    BY DEF Unary, ZeroOp, Operand, BinaryMnemonics
  <2>4. Replaces(<<m, y>>, x)
    BY <1>2, DivisorMoved
  <2>5. y \in Instructions
    BY <2>2, InstructionTypes DEF Mnemonics, UnaryMnemonics
  <2>6. Sane(y)
    BY <2>2, <2>3, <2>5 DEF Sane, BothStack, Place
  <2> HIDE DEF o, q, y
  <2>7. Sane(m)
    <3>1. o.type # "PSEUDO" /\ RegOp(R10).type # "PSEUDO"
      BY <2>2
    <3> QED
      BY <2>2, <2>3, <3>1, MadeSane
  <2> HIDE DEF m
  <2>8. ReadBy(y) \subseteq ReadBy(x) \cup {q}
    BY <2>2, <2>3 DEF ReadBy, BinaryMnemonics
  <2>9. Chained(<<m, y>>, x)
    BY <2>2, <2>8, TwoChained DEF m, q
  <2>10. ~Loads(x)
    BY <1>2 DEF Loads
  <2>11. <<m, y>> \in Seq(Instructions) /\ \A k \in 1..Len(<<m, y>>) : Sane(<<m, y>>[k])
    BY <2>6, <2>7, PairSane
  <2>12. GoodFix(<<m, y>>, x)
    BY <2>4, <2>9, <2>10, <2>11 DEF GoodFix
  <2> QED
    BY <1>2, <2>12 DEF m, y, o, fix_invalid_idivs
<1> QED
  BY <1>1, <1>2

LEMMA CmpGood ==
  ASSUME NEW x, Sane(x)
  PROVE  GoodFix(fix_invalid_cmps(x), x)
<1>1. CASE ~(x.mnemonic = "CMP" /\ x.dst.type = "IMMEDIATE")
  BY <1>1 DEF fix_invalid_cmps, GoodFix
<1>2. CASE x.mnemonic = "CMP" /\ x.dst.type = "IMMEDIATE"
  <2> DEFINE o == ImmOp(x.dst.value)
             m == Binary("MOV", RegOp(R11), o)
             y == Binary("CMP", RegOp(R11), x.src)
             q == <<"REGISTER", R11>>
  <2>1. x.dst.value \in Int /\ x.src \in Operands
    BY DEF Sane, Instructions, Operands
  <2>2. /\ o \in Operands /\ o.type = "IMMEDIATE" /\ Place(o) \notin Scratch
        /\ RegOp(R11) \in Operands /\ RegOp(R11).type = "REGISTER" /\ Place(RegOp(R11)) = q
    BY <2>1, ScratchOperands
  <2>3. /\ y.mnemonic = "CMP" /\ y.dst = RegOp(R11) /\ y.src = x.src
        /\ "MOV" \in BinaryMnemonics /\ "CMP" \in BinaryMnemonics
    BY DEF Binary, BinaryMnemonics
  <2>5. Place(x.src) # q /\ x.src.type # "PSEUDO"
    BY <1>2 DEF Sane
  <2>4. Replaces(<<m, y>>, x)
    BY <1>2, <2>5, ComparedMoved
  <2> HIDE DEF o, q
  <2>6. Sane(y)
    <3>1. RegOp(R11).type # "PSEUDO"
      BY <2>2
    <3> QED
      BY <2>1, <2>2, <2>3, <2>5, <3>1, MadeSane DEF q
  <2> HIDE DEF y
  <2>7. Sane(m)
    <3>1. o.type # "PSEUDO" /\ RegOp(R11).type # "PSEUDO"
      BY <2>2
    <3> QED
      BY <2>2, <2>3, <3>1, MadeSane
  <2> HIDE DEF m
  <2>8. ReadBy(y) \subseteq ReadBy(x) \cup {q}
    BY <1>2, <2>2, <2>3 DEF ReadBy
  <2>9. Chained(<<m, y>>, x)
    BY <2>2, <2>8, TwoChained DEF m, q
  <2>10. ~Loads(x)
    BY <1>2 DEF Loads
  <2>11. <<m, y>> \in Seq(Instructions) /\ \A k \in 1..Len(<<m, y>>) : Sane(<<m, y>>[k])
    BY <2>6, <2>7, PairSane
  <2>12. GoodFix(<<m, y>>, x)
    BY <2>4, <2>9, <2>10, <2>11 DEF GoodFix
  <2> QED
    BY <1>2, <2>12 DEF m, y, o, fix_invalid_cmps
<1> QED
  BY <1>1, <1>2

LEMMA ImulGood ==
  ASSUME NEW x, Sane(x)
  PROVE  GoodFix(fix_invalid_imuls(x), x)
<1>1. CASE ~(x.mnemonic = "IMUL" /\ x.dst.type = "STACK")
  BY <1>1 DEF fix_invalid_imuls, GoodFix
<1>2. CASE x.mnemonic = "IMUL" /\ x.dst.type = "STACK"
  <2> DEFINE d == StackOp(x.dst.value)
             m == Binary("MOV", RegOp(R11), d)
             y == Binary("IMUL", RegOp(R11), x.src)
             z == Binary("MOV", d, RegOp(R11))
             q == <<"REGISTER", R11>>
             t == <<m, y, z>>
  <2>1. x.dst.value \in Int /\ x.src \in Operands
    BY DEF Sane, Instructions, Operands
  <2>2. /\ d \in Operands /\ d.type = "STACK" /\ Place(d) = Place(x.dst)
        /\ RegOp(R11) \in Operands /\ RegOp(R11).type = "REGISTER" /\ Place(RegOp(R11)) = q
    BY <1>2, <2>1, ScratchOperands DEF Place
  <2>3. "MOV" \in BinaryMnemonics /\ "IMUL" \in BinaryMnemonics
    BY DEF BinaryMnemonics
  <2>5. Place(x.src) # q /\ x.src.type # "PSEUDO"
    BY <1>2 DEF Sane
  <2>4. Replaces(t, x)
    BY <1>2, <2>5, Multiplied
  <2> HIDE DEF d, q
  <2>6. RegOp(R11).type # "PSEUDO" /\ d.type # "PSEUDO"
    BY <2>2
  <2>7. Sane(y)
    BY <2>1, <2>2, <2>3, <2>5, <2>6, MadeSane DEF q
  <2>8. Sane(m)
    BY <2>2, <2>3, <2>6, MadeSane
  <2>9. Sane(z)
    BY <2>2, <2>3, <2>6, MadeSane
  <2>10. Chained(t, x)
    BY <1>2, <2>2, MultiplyChained
  <2> HIDE DEF m, y, z
  <2>11. ~Loads(x)
    BY <1>2 DEF Loads
  <2>12. t \in Seq(Instructions) /\ \A k \in 1..Len(t) : Sane(t[k])
    BY <2>7, <2>8, <2>9, TripleSane
  <2> HIDE DEF t
  <2>13. GoodFix(t, x)
    BY <2>4, <2>10, <2>11, <2>12 DEF GoodFix
  <2> QED
    BY <1>2, <2>13 DEF t, m, y, z, d, fix_invalid_imuls
<1> QED
  BY <1>1, <1>2

-----------------------------------------------------------------------------
(* Scratch registers are live only within a block *)

LEMMA LiveSpliced ==
  ASSUME NEW s \in Seq(Instructions), NEW n \in 1..Len(s), NEW t \in Seq(Instructions), Len(t) \in {2, 3},
         Chained(t, s[n]), ~Loads(s[n]), NEW V, Live(s, V)
  PROVE  \E U : Live(SubSeq(s, 1, n - 1) \o t \o SubSeq(s, n + 1, Len(s)), U)
<1> DEFINE N == Len(s)
           l == Len(t)
           r == SubSeq(s, 1, n - 1) \o t \o SubSeq(s, n + 1, Len(s))
<1>1. N \in Nat /\ n \in Nat /\ n >= 1 /\ n <= N /\ l \in {2, 3}
  OBVIOUS
<1>2. /\ Len(r) = N + l - 1
      /\ \A k \in 1..Len(r) : r[k] = IF k < n THEN s[k]
                                     ELSE IF k < n + l THEN t[k - n + 1] ELSE s[k - l + 1]
  <2>1. Len(t) >= 1
    <3>1. CASE Len(t) = 2
      BY <3>1
    <3>2. CASE Len(t) = 3
      BY <3>2
    <3> QED
      BY <1>1, <3>1, <3>2
  <2> QED
    BY <2>1, SpliceElements
<1>3. \A k \in 1..N : LiveAt(V[k], s[k], V[k + 1])
  BY DEF Live
<1>4. LiveAt(V[n], s[n], V[n + 1]) /\ V[n + 1] = {}
  <2>1. LiveAt(V[n], s[n], V[n + 1])
    BY <1>1, <1>3
  <2> QED
    BY <2>1 DEF LiveAt
<1>5. PICK W : /\ LiveAt(V[n], t[1], W) /\ LiveAt(W, t[l], {})
               /\ \A k \in 2..l-1 : LiveAt(W, t[k], W)
  BY <1>4 DEF Chained
<1> HIDE DEF r, N, l
<1> DEFINE U == [k \in 1..N+l |-> IF k <= n THEN V[k] ELSE IF k < n + l THEN W ELSE V[k - l + 1]]
<1>6. ASSUME NEW k \in 1..N+l-1 PROVE LiveAt(U[k], r[k], U[k + 1])
  <2>1. k \in 1..Len(r) /\ k \in 1..N+l /\ k + 1 \in 1..N+l /\ k \in Nat
    BY <1>1, <1>2
  <2>2. CASE k < n
    <3>1. U[k] = V[k] /\ U[k + 1] = V[k + 1] /\ r[k] = s[k] /\ k \in 1..N
      BY <1>1, <1>2, <2>1, <2>2
    <3> QED
      BY <1>3, <3>1
  <2>3. CASE k = n
    <3>1. k <= n /\ ~(k + 1 <= n) /\ k + 1 < n + l /\ ~(k < n) /\ k < n + l /\ k - n + 1 = 1
      BY <1>1, <2>1, <2>3
    <3>2. U[k] = V[n] /\ U[k + 1] = W
      BY <2>1, <2>3, <3>1
    <3>3. r[k] = t[1]
      BY <1>2, <2>1, <3>1
    <3> QED
      BY <1>5, <3>2, <3>3
  <2>4. CASE k > n /\ k < n + l - 1
    <3>1. U[k] = W /\ U[k + 1] = W /\ r[k] = t[k - n + 1] /\ k - n + 1 \in 2..l-1
      BY <1>1, <1>2, <2>1, <2>4
    <3> QED
      BY <1>5, <3>1
  <2>5. CASE k = n + l - 1
    <3>1. /\ ~(k <= n) /\ k < n + l /\ ~(k + 1 <= n) /\ ~(k + 1 < n + l) /\ ~(k < n)
          /\ k - n + 1 = l /\ (k + 1) - l + 1 = n + 1
      BY <1>1, <2>1, <2>5
    <3>2. U[k] = W /\ U[k + 1] = V[n + 1]
      BY <2>1, <3>1
    <3>3. r[k] = t[l]
      BY <1>2, <2>1, <3>1
    <3> QED
      BY <1>4, <1>5, <3>2, <3>3
  <2>6. CASE k > n + l - 1
    <3>1. /\ ~(k <= n) /\ ~(k < n + l) /\ ~(k + 1 <= n) /\ ~(k + 1 < n + l) /\ ~(k < n)
          /\ k - l + 1 \in 1..N /\ (k + 1) - l + 1 = (k - l + 1) + 1
      BY <1>1, <2>1, <2>6
    <3>2. U[k] = V[k - l + 1] /\ U[k + 1] = V[(k - l + 1) + 1]
      BY <2>1, <3>1
    <3>3. r[k] = s[k - l + 1]
      BY <1>2, <2>1, <3>1
    <3> QED
      BY <1>3, <3>1, <3>2, <3>3
  <2> QED
    BY <1>1, <2>1, <2>2, <2>3, <2>4, <2>5, <2>6
<1> HIDE DEF U
<1>7. Live(r, U)
  BY <1>2, <1>6 DEF Live
<1> QED
  BY <1>7 DEF r

LEMMA SpliceSelf ==
  ASSUME NEW s \in Seq(Instructions), NEW n \in 1..Len(s)
  PROVE  SubSeq(s, 1, n - 1) \o <<s[n]>> \o SubSeq(s, n + 1, Len(s)) = s
<1> DEFINE e == <<s[n]>>
           r == SubSeq(s, 1, n - 1) \o e \o SubSeq(s, n + 1, Len(s))
<1>1. e \in Seq(Instructions) /\ Len(e) = 1 /\ e[1] = s[n] /\ Len(s) \in Nat
  OBVIOUS
<1> HIDE DEF e
<1>2. /\ Len(r) = Len(s) + Len(e) - 1
      /\ \A k \in 1..Len(r) : r[k] = IF k < n THEN s[k]
                                     ELSE IF k < n + Len(e) THEN e[k - n + 1] ELSE s[k - Len(e) + 1]
  <2>1. Len(e) >= 1
    BY <1>1
  <2> QED
    BY <1>1, <2>1, SpliceElements
<1>3. r \in Seq(Instructions)
  <2>1. Len(e) >= 1
    BY <1>1
  <2> QED
    BY <1>1, <2>1, Splice
<1> HIDE DEF r
<1>4. Len(r) = Len(s)
  BY <1>1, <1>2
<1>5. \A k \in 1..Len(s) : r[k] = s[k]
  <2> SUFFICES ASSUME NEW k \in 1..Len(s) PROVE r[k] = s[k]
    OBVIOUS
  <2>1. CASE k < n
    BY <1>2, <1>4, <2>1
  <2>2. CASE k = n
    <3>1. k - n + 1 = 1 /\ k < n + Len(e) /\ ~(k < n)
      BY <1>1, <2>2
    <3> QED
      BY <1>1, <1>2, <1>4, <2>2, <3>1
  <2>3. CASE k > n
    <3>1. k - Len(e) + 1 = k /\ ~(k < n + Len(e)) /\ ~(k < n)
      BY <1>1, <2>3
    <3> QED
      BY <1>2, <1>4, <3>1
  <2> QED
    BY <2>1, <2>2, <2>3
<1>6. r = s
  BY <1>3, <1>4, <1>5
<1> QED
  BY <1>6 DEF r, e

\* A fix keeps what the code means, and that it may be fixed.
LEMMA FixMeans ==
  ASSUME NEW s \in Seq(Instructions), \A k \in 1..Len(s) : Sane(s[k]), NEW V, Live(s, V),
         NEW n \in 1..Len(s), NEW t, GoodFix(t, s[n])
  PROVE  LET r == SubSeq(s, 1, n - 1) \o t \o SubSeq(s, n + 1, Len(s))
         IN /\ \A k \in 1..Len(r) : Sane(r[k])
            /\ \E U : Live(r, U)
            /\ \A junk : CpuOutcome(r, junk) = CpuOutcome(s, junk)
<1> DEFINE r == SubSeq(s, 1, n - 1) \o t \o SubSeq(s, n + 1, Len(s))
<1>1. CASE t = <<s[n]>>
  <2>1. r = s
    BY <1>1, SpliceSelf
  <2> QED
    BY <2>1
<1>2. CASE t # <<s[n]>>
  <2>1. /\ t \in Seq(Instructions) /\ Replaces(t, s[n]) /\ ~Loads(s[n]) /\ Chained(t, s[n])
        /\ \A k \in 1..Len(t) : Sane(t[k])
    BY <1>2 DEF GoodFix
  <2>2. Len(t) \in {2, 3}
    BY <2>1 DEF Replaces
  <2>3. Len(t) >= 1
    <3>1. CASE Len(t) = 2
      BY <3>1
    <3>2. CASE Len(t) = 3
      BY <3>2
    <3> QED
      BY <2>2, <3>1, <3>2
  <2>4. \A junk : CpuOutcome(r, junk) = CpuOutcome(s, junk)
    BY <2>1, SpliceMeans
  <2>5. \E U : Live(r, U)
    BY <2>1, <2>2, LiveSpliced
  <2>6. Spliced(r, s, n, t)
    BY <2>1, <2>3, SpliceSources
  <2> HIDE DEF r
  <2>7. \A k \in 1..Len(r) : Sane(r[k])
    BY <2>1, <2>6 DEF Spliced
  <2> QED
    BY <2>4, <2>5, <2>7 DEF r
<1> QED
  BY <1>1, <1>2

-----------------------------------------------------------------------------
(* Where the code is before and after the frame *)

\* Selected code, with the registers that create_inst names and no others.
LEMMA NamedIsSane ==
  ASSUME NEW x \in Selected, NEW y \in Instructions, y = Named(x),
         y.dst.type # "PSEUDO", y.src.type # "PSEUDO"
  PROVE  /\ Sane(y) /\ LiveAt({}, y, {})
         /\ y.mnemonic = x.mnemonic /\ y.mnemonic \in Ordinary \cup {"RET"}
<1>1. /\ x \in Instructions /\ x.mnemonic \in Ordinary \cup {"RET"}
      /\ y.mnemonic = x.mnemonic /\ y.dst = ResolvedOp(x.dst) /\ y.src = ResolvedOp(x.src)
  BY SelectedOperands, NamedFields
<1>2. /\ \A o \in {x.dst, x.src} : o.type = "REGISTER" => o.value \in {AX, DX}
      /\ x.mnemonic \notin BinaryMnemonics => x.src.type = "LABEL"
  BY DEF Selected
<1> HIDE DEF Selected
<1>3. \A o : ResolvedOp(o) = o \/ ResolvedOp(o).type = "STACK"
  BY DEF ResolvedOp, StackOp, Operand
<1>4. \A o \in {x.dst, x.src} : Place(ResolvedOp(o)) \notin Scratch
  <2> SUFFICES ASSUME NEW o \in {x.dst, x.src} PROVE Place(ResolvedOp(o)) \notin Scratch
    OBVIOUS
  <2>1. CASE ResolvedOp(o).type # "REGISTER"
    BY <2>1, ScratchOperands
  <2>2. CASE ResolvedOp(o).type = "REGISTER"
    <3>1. ResolvedOp(o) = o /\ o.value \in {AX, DX}
      BY <1>2, <1>3, <2>2
    <3> QED
      BY <3>1 DEF Place, Scratch, AX, DX, CX, R10, R11
  <2> QED
    BY <2>1, <2>2
<1>5. Place(y.dst) \notin Scratch /\ Place(y.src) \notin Scratch /\ <<"REGISTER", R11>> \in Scratch
  BY <1>1, <1>4 DEF Scratch
<1>6. BothStack(y) => y.mnemonic \in BinaryMnemonics
  <2> SUFFICES ASSUME y.src.type = "STACK", y.mnemonic \notin BinaryMnemonics PROVE FALSE
    BY DEF BothStack
  <2>1. x.src.type = "LABEL"
    BY <1>1, <1>2
  <2>2. ResolvedOp(x.src) = x.src
    BY <2>1, ResolvedPlace
  <2> QED
    BY <1>1, <2>1, <2>2
<1>7. Sane(y)
  BY <1>5, <1>6 DEF Sane
<1> HIDE DEF Scratch
<1>8. ReadBy(y) \cap Scratch = {}
  BY <1>5 DEF ReadBy
<1>9. LiveAt({}, y, {})
  BY <1>8 DEF LiveAt
<1> QED
  BY <1>1, <1>7, <1>9

LEMMA FramingIsSane ==
  ASSUME NEW amount \in Int
  PROVE  LET a == Unary("ALLOCATE_STACK", StackOp(amount))
         IN /\ Sane(a) /\ LiveAt({}, a, {}) /\ a.mnemonic = "ALLOCATE_STACK"
            /\ Sane(Epilogue) /\ LiveAt({}, Epilogue, {}) /\ Epilogue.mnemonic = "DEALLOCATE_STACK"
<1> DEFINE a == Unary("ALLOCATE_STACK", StackOp(amount))
<1>1. /\ a.mnemonic = "ALLOCATE_STACK" /\ a.dst.type = "STACK" /\ a.src.type = "LABEL"
      /\ Epilogue.mnemonic = "DEALLOCATE_STACK"
      /\ Epilogue.dst.type = "LABEL" /\ Epilogue.src.type = "LABEL"
  BY DEF Epilogue, Unary, NoOps, StackOp, ZeroOp, Operand
<1>2. a \in Instructions /\ Epilogue \in Instructions
  BY FramingIsResolved
<1> HIDE DEF a
<1>3. Sane(a) /\ Sane(Epilogue)
  BY <1>1, <1>2 DEF Sane, BothStack, Place
<1>4. ReadBy(a) = {} /\ ReadBy(Epilogue) = {}
  BY <1>1 DEF ReadBy, BinaryMnemonics, UnaryMnemonics, SetMnemonics
<1>5. LiveAt({}, a, {}) /\ LiveAt({}, Epilogue, {})
  BY <1>4 DEF LiveAt
<1> QED
  BY <1>1, <1>3, <1>5 DEF a

\* Code that reads no scratch register.
LEMMA NothingLive ==
  ASSUME NEW s, \A k \in 1..Len(s) : LiveAt({}, s[k], {}), Len(s) \in Nat
  PROVE  \E V : Live(s, V)
<1> DEFINE V == [k \in 1..Len(s)+1 |-> {}]
<1>1. \A k \in 1..Len(s) : V[k] = {} /\ V[k + 1] = {}
  OBVIOUS
<1> HIDE DEF V
<1>2. Live(s, V)
  BY <1>1 DEF Live
<1> QED
  BY <1>2

\* stackalloc keeps what the code means.
LEMMA FrameMeans ==
  ASSUME NEW s \in Seq(Instructions), Len(s) >= 1, NEW amount \in Int,
         \A k \in 1..Len(s) : /\ Sane(s[k]) /\ LiveAt({}, s[k], {})
                              /\ s[k].mnemonic \in Ordinary \cup {"RET"}
                              /\ s[k].mnemonic = "RET" => k = Len(s)
  PROVE  LET r == InsertAt(InsertAt(s, 1, Unary("ALLOCATE_STACK", StackOp(amount))), Len(s) + 1, Epilogue)
         IN /\ \A k \in 1..Len(r) : Sane(r[k])
            /\ \E V : Live(r, V)
            /\ \A junk : CpuOutcome(r, junk) = CpuOutcome(s, junk)
<1> DEFINE a == Unary("ALLOCATE_STACK", StackOp(amount))
           r == InsertAt(InsertAt(s, 1, a), Len(s) + 1, Epilogue)
           n == Len(s)
<1>1. n \in Nat /\ n >= 1
  OBVIOUS
<1>2. /\ Sane(a) /\ LiveAt({}, a, {}) /\ a.mnemonic = "ALLOCATE_STACK"
      /\ Sane(Epilogue) /\ LiveAt({}, Epilogue, {}) /\ Epilogue.mnemonic = "DEALLOCATE_STACK"
  BY FramingIsSane
<1>3. a \in Instructions /\ Epilogue \in Instructions
  BY <1>2 DEF Sane
<1> HIDE DEF a
<1>4. /\ Len(r) = n + 2
      /\ \A k \in 1..n+2 : r[k] = IF k = 1 THEN a
                                  ELSE IF k <= n THEN s[k - 1]
                                  ELSE IF k = n + 1 THEN Epilogue ELSE s[k - 2]
  BY <1>3, FrameElements
<1>5. \A junk : CpuOutcome(r, junk) = CpuOutcome(s, junk)
  BY <1>2, <1>3, FramingKeeps
<1> HIDE DEF r, n
<1>6. ASSUME NEW k \in 1..n+2 PROVE r[k] = a \/ r[k] = Epilogue \/ \E j \in 1..n : r[k] = s[j]
  <2>1. CASE k = 1 \/ k = n + 1
    BY <1>1, <1>4, <2>1
  <2>2. CASE k # 1 /\ k <= n
    <3>1. r[k] = s[k - 1] /\ k - 1 \in 1..n
      BY <1>1, <1>4, <2>2
    <3> QED
      BY <3>1
  <2>3. CASE k = n + 2
    <3>1. r[k] = s[k - 2] /\ k - 2 \in 1..n
      BY <1>1, <1>4, <2>3
    <3> QED
      BY <3>1
  <2> QED
    BY <1>1, <2>1, <2>2, <2>3
<1>7. \A k \in 1..n : Sane(s[k]) /\ LiveAt({}, s[k], {})
  BY DEF n
<1>8. \A k \in 1..Len(r) : Sane(r[k]) /\ LiveAt({}, r[k], {})
  BY <1>2, <1>4, <1>6, <1>7
<1>9. \E V : Live(r, V)
  <2>1. Len(r) \in Nat
    BY <1>1, <1>4
  <2> QED
    BY <1>8, <2>1, NothingLive
<1> QED
  BY <1>5, <1>8, <1>9 DEF r, a, n

-----------------------------------------------------------------------------
(* Returns come from returns *)

LastReturn(code) == \A k \in 1..Len(code) : code[k].type = "RETURN" => k = Len(code)
RetLast(p)       == \A k \in 1..Len(p) : p[k].mnemonic = "RET" => k = Len(p)

\* A ret is the last thing that create_inst makes of a return, and of nothing else.
ReturnsAtEnd(inst, t) ==
  \A k \in 1..Len(t) : t[k].mnemonic = "RET" => inst.type = "RETURN" /\ k = Len(t)

LEMMA NoReturns ==
  ASSUME NEW inst, NEW t, \A k \in 1..Len(t) : t[k].mnemonic # "RET"
  PROVE  ReturnsAtEnd(inst, t)
BY DEF ReturnsAtEnd

LEMMA OnlyReturnsReturn ==
  ASSUME NEW inst \in IRInstructions
  PROVE  ReturnsAtEnd(inst, create_inst(inst))
<1> DEFINE dest == Dest(inst)
           a    == Src1(inst)
           b    == Src2(inst)
<1>1. inst.type \in IRTypes
  BY DEF IRInstructions
<1>2. /\ \A m, x, y : Binary(m, x, y).mnemonic = m
      /\ \A m, x : Unary(m, x).mnemonic = m
      /\ \A m : NoOps(m).mnemonic = m
  BY DEF Binary, Unary, NoOps
<1>3. CASE inst.type = "RETURN"
  <2> DEFINE x == Binary("MOV", RegOp(AX), a)
             y == NoOps("RET")
  <2>1. create_inst(inst) = <<x, y>>
    <3>1. create_inst(inst) = handle_return(inst)
      BY <1>3, Zenon DEF create_inst, UnaryMnemonic, BinaryMnemonic, SetMnemonic, DivResult
    <3> QED
      BY <3>1 DEF handle_return
  <2>2. x.mnemonic = "MOV"
    BY <1>2
  <2> HIDE DEF x, y
  <2> QED
    BY <1>3, <2>1, <2>2 DEF ReturnsAtEnd
<1>4. CASE inst.type \in DOMAIN UnaryMnemonic
  <2> DEFINE h == UnaryMnemonic[inst.type]
             x == Binary("MOV", dest, a)
             y == Unary(h, dest)
  <2>1. h # "RET"
    BY <1>4 DEF UnaryMnemonic
  <2>2. create_inst(inst) = <<x, y>>
    <3>1. create_inst(inst) = generic_unary(inst)
      BY <1>4, Zenon DEF create_inst, UnaryMnemonic, BinaryMnemonic, SetMnemonic, DivResult
    <3> QED
      BY <3>1 DEF generic_unary
  <2>3. x.mnemonic = "MOV" /\ y.mnemonic = h
    BY <1>2
  <2> HIDE DEF x, y, h
  <2> QED
    BY <2>1, <2>2, <2>3, NoReturns
<1>5. CASE inst.type \in DOMAIN BinaryMnemonic
  <2> DEFINE h == BinaryMnemonic[inst.type]
             x == Binary("MOV", dest, a)
             y == Binary(h, dest, b)
  <2>1. h # "RET"
    BY <1>5 DEF BinaryMnemonic
  <2>2. create_inst(inst) = <<x, y>>
    <3>1. create_inst(inst) = generic_binary(inst)
      BY <1>5, Zenon DEF create_inst, UnaryMnemonic, BinaryMnemonic, SetMnemonic, DivResult
    <3> QED
      BY <3>1 DEF generic_binary
  <2>3. x.mnemonic = "MOV" /\ y.mnemonic = h
    BY <1>2
  <2> HIDE DEF x, y, h
  <2> QED
    BY <2>1, <2>2, <2>3, NoReturns
<1>6. CASE inst.type \in DOMAIN SetMnemonic
  <2> DEFINE h == SetMnemonic[inst.type]
             c == IF inst.type = "LOGICAL_NOT" THEN ImmOp(0) ELSE b
             x == Binary("CMP", a, c)
             y == Binary("MOV", dest, ImmOp(0))
             z == Unary(h, dest)
  <2>1. h # "RET"
    BY <1>6 DEF SetMnemonic
  <2>2. create_inst(inst) = <<x, y, z>>
    <3>1. create_inst(inst) = generic_conditional(inst)
      BY <1>6, Zenon DEF create_inst, UnaryMnemonic, BinaryMnemonic, SetMnemonic, DivResult
    <3> QED
      BY <3>1 DEF generic_conditional
  <2>3. x.mnemonic = "CMP" /\ y.mnemonic = "MOV" /\ z.mnemonic = h
    BY <1>2
  <2> HIDE DEF x, y, z, h
  <2> QED
    BY <2>1, <2>2, <2>3, NoReturns
<1>7. CASE inst.type = "COPY"
  <2> DEFINE x == Binary("MOV", PseudoOp(inst.src1.value), b)
  <2>1. create_inst(inst) = <<x>>
    <3>1. create_inst(inst) = generic_copy(inst)
      BY <1>7, Zenon DEF create_inst, UnaryMnemonic, BinaryMnemonic, SetMnemonic, DivResult
    <3> QED
      BY <3>1 DEF generic_copy
  <2>2. x.mnemonic = "MOV"
    BY <1>2
  <2> HIDE DEF x
  <2> QED
    BY <2>1, <2>2, NoReturns
<1>8. CASE inst.type \in DOMAIN DivResult
  <2> DEFINE x == Binary("MOV", RegOp(AX), a)
             y == NoOps("CDQ")
             z == Unary("IDIV", b)
             u == Binary("MOV", dest, RegOp(DivResult[inst.type]))
  <2>1. create_inst(inst) = <<x, y, z, u>>
    BY <1>8 DEF create_inst, generic_binary_div_rem, DivResult, SetMnemonic, BinaryMnemonic,
                UnaryMnemonic
  <2>2. x.mnemonic = "MOV" /\ y.mnemonic = "CDQ" /\ z.mnemonic = "IDIV" /\ u.mnemonic = "MOV"
    BY <1>2
  <2> HIDE DEF x, y, z, u
  <2> QED
    BY <2>1, <2>2, NoReturns
<1>9. CASE inst.type \in {"LABEL", "JUMP"}
  <2> DEFINE x == Unary("DEFINE_LABEL", LabelOp(inst.src1.label))
             y == Unary("JMP", LabelOp(inst.src1.label))
  <2>1. create_inst(inst) = <<x>> \/ create_inst(inst) = <<y>>
    BY <1>9 DEF create_inst, handle_label, generic_jump, DefineLabel, Jump, DivResult,
                SetMnemonic, BinaryMnemonic, UnaryMnemonic
  <2>2. x.mnemonic = "DEFINE_LABEL" /\ y.mnemonic = "JMP"
    BY <1>2
  <2> HIDE DEF x, y
  <2> QED
    BY <2>1, <2>2, NoReturns
<1>10. CASE inst.type \in {"JUMP_ZERO", "JUMP_NOT_ZERO"}
  <2> DEFINE h == IF inst.type = "JUMP_ZERO" THEN "JE" ELSE "JNE"
             x == Binary("CMP", a, ImmOp(0))
             y == Unary(h, LabelOp(inst.src2.label))
  <2>1. create_inst(inst) = <<x, y>>
    BY <1>10 DEF create_inst, generic_jump, Jump, DivResult, SetMnemonic, BinaryMnemonic,
                 UnaryMnemonic
  <2>2. h # "RET"
    OBVIOUS
  <2>3. x.mnemonic = "CMP" /\ y.mnemonic = h
    BY <1>2
  <2> HIDE DEF x, y, h
  <2> QED
    BY <2>1, <2>2, <2>3, NoReturns
<1>11. \/ inst.type \in {"RETURN", "COPY", "LABEL", "JUMP", "JUMP_ZERO", "JUMP_NOT_ZERO"}
       \/ inst.type \in DOMAIN UnaryMnemonic \/ inst.type \in DOMAIN BinaryMnemonic
       \/ inst.type \in DOMAIN SetMnemonic \/ inst.type \in DOMAIN DivResult
  BY <1>1 DEF IRTypes, ComputeTypes, UnaryMnemonic, BinaryMnemonic, SetMnemonic, DivResult
<1> QED
  BY <1>3, <1>4, <1>5, <1>6, <1>7, <1>8, <1>9, <1>10, <1>11

-----------------------------------------------------------------------------
(* What the code means while it is selected and rewritten *)

MeansIR(p) == \A junk \in Junk : CpuOutcome(p, junk) = IROutcome(irCode, junk)

\* While code is selected, a ret ends it.
Chosen ==
  pass = "gen" =>
    /\ Fresh /\ LastReturn(irCode)
    /\ \A k \in 1..Len(prog) : prog[k].mnemonic = "RET" => k = Len(prog) /\ at > Len(irCode)

\* Before i, slots have taken the places of the pseudo registers of p.
Origin(p) ==
  /\ p \in Seq(Selected) /\ Len(p) = Len(prog) /\ RetLast(p) /\ MeansIR(p)
  /\ \A k \in 1..Len(p) :
       IF k < i THEN /\ prog[k] = Named(p[k])
                     /\ prog[k].dst.type # "PSEUDO" /\ prog[k].src.type # "PSEUDO"
       ELSE prog[k] = p[k]

MappedCode ==
  pass \in {"map", "stack"} =>
    /\ \E p : Origin(p)
    /\ Len(prog) = 0 => nextOffset = -4
    /\ pass = "stack" => i = Len(prog) + 1

\* From the frame on, nothing but slots, and scratch registers that no one else reads.
AllocatedCode ==
  pass \in DOMAIN Rank =>
    /\ \A k \in 1..Len(prog) : Sane(prog[k])
    /\ \E V : Live(prog, V)
    /\ MeansIR(prog)

MeaningInv == Selecting /\ Chosen /\ (pass # "gen" => IInv) /\ MappedCode /\ AllocatedCode

LEMMA MeaningInitially ==
  ASSUME CodeGenInit, IRPrograms \subseteq Seq(Generated), \A p \in IRPrograms : LastReturn(p)
  PROVE  MeaningInv
<1>1. /\ irCode \in IRPrograms /\ at = 1 /\ prog = <<>> /\ pass = "gen" /\ Fresh
  BY DEF CodeGenInit, NothingSelected
<1> HIDE DEF Generated
<1>2. irCode \in Seq(Generated) /\ LastReturn(irCode)
  BY <1>1
<1>3. Selecting
  BY <1>1, <1>2, SelectingStarts
<1>4. Chosen
  BY <1>1, <1>2 DEF Chosen
<1>5. MappedCode /\ AllocatedCode
  BY <1>1 DEF MappedCode, AllocatedCode, Rank
<1> QED
  BY <1>1, <1>3, <1>4, <1>5 DEF MeaningInv

LEMMA CreateInstChooses ==
  ASSUME Selecting, Chosen, CreateInst
  PROVE  Chosen'
<1> DEFINE inst == irCode[at]
           t == create_inst(inst)
           n == Len(prog)
<1>1. /\ pass = "gen" /\ at <= Len(irCode) /\ prog' = prog \o t
      /\ at' = at + 1 /\ UNCHANGED <<irCode, pass, i, offsetMap, nextOffset>>
  BY DEF CreateInst
<1>2. irCode \in Seq(Generated) /\ at \in 1..Len(irCode)+1 /\ prog \in Seq(Selected)
  BY <1>1 DEF Selecting
<1> HIDE DEF Generated, Selected
<1>3. at \in 1..Len(irCode) /\ inst \in Generated /\ n \in Nat
  BY <1>1, <1>2
<1>4. inst \in IRInstructions
  BY <1>3 DEF Generated
<1>5. t \in Seq(Selected) /\ ReturnsAtEnd(inst, t)
  BY <1>4, GeneratorSelects, OnlyReturnsReturn
<1>6. /\ Fresh /\ LastReturn(irCode)
      /\ \A k \in 1..n : prog[k].mnemonic = "RET" => k = n /\ at > Len(irCode)
  BY <1>1 DEF Chosen
<1> HIDE DEF t
<1>7. /\ Len(prog') = n + Len(t)
      /\ \A k \in 1..n+Len(t) : prog'[k] = IF k <= n THEN prog[k] ELSE t[k - n]
  BY <1>1, <1>2, <1>5, Concatenation, ConcatenationElements
<1>8. inst.type = "RETURN" => at = Len(irCode)
  BY <1>3, <1>6 DEF LastReturn
<1> HIDE DEF inst, n
<1>9. ASSUME NEW k \in 1..Len(prog'), prog'[k].mnemonic = "RET"
      PROVE  k = Len(prog') /\ at' > Len(irCode')
  <2>0. Len(t) \in Nat
    BY <1>5
  <2>1. CASE k <= n
    <3>1. k \in 1..n /\ prog'[k] = prog[k]
      BY <1>3, <1>7, <2>0, <2>1
    <3>2. at > Len(irCode)
      BY <1>6, <1>9, <3>1
    <3> QED
      BY <1>1, <1>2, <3>2
  <2>2. CASE ~(k <= n)
    <3>1. k - n \in 1..Len(t) /\ prog'[k] = t[k - n]
      BY <1>3, <1>7, <2>0, <2>2
    <3>2. inst.type = "RETURN" /\ k - n = Len(t)
      BY <1>5, <1>9, <3>1 DEF ReturnsAtEnd
    <3>3. at' > Len(irCode')
      BY <1>1, <1>3, <1>8, <3>2
    <3> QED
      BY <1>3, <1>7, <2>0, <3>2, <3>3
  <2> QED
    BY <2>1, <2>2
<1>10. Fresh' /\ LastReturn(irCode)'
  BY <1>1, <1>6 DEF Fresh, LastReturn
<1> QED
  BY <1>9, <1>10 DEF Chosen

\* The processor has returned, or has stopped, as the IR machine has.
LEMMA SimulatesMeans ==
  ASSUME NEW insts, NEW junk, NEW p, Simulates(CpuRun(p, junk), IRRun(insts, Len(insts), junk))
  PROVE  CpuOutcome(p, junk) = IROutcome(insts, junk)
<1> DEFINE c == CpuRun(p, junk)
           m == IRRun(insts, Len(insts), junk)
<1>1. c.halted = m.halted /\ c.fault = m.fault /\ c.result = m.result
  BY DEF Simulates
<1>2. CpuStuck = Stuck /\ CpuFault = Fault
  BY DEF CpuStuck, Stuck, CpuFault, Fault
<1>3. CpuOutcome(p, junk) = IF ~c.halted THEN CpuStuck ELSE IF c.fault THEN CpuFault ELSE <<c.result>>
  BY DEF CpuOutcome
<1>4. IROutcome(insts, junk) = IF ~m.halted THEN Stuck ELSE IF m.fault THEN Fault ELSE <<m.result>>
  BY DEF IROutcome
<1> HIDE DEF c, m
<1> QED
  BY <1>1, <1>2, <1>3, <1>4

LEMMA StartMeans ==
  ASSUME MeaningInv, StartRegAlloc
  PROVE  MeaningInv'
<1>1. /\ pass = "gen" /\ at > Len(irCode) /\ pass' = "map"
      /\ UNCHANGED <<irCode, at, prog, i, offsetMap, nextOffset>>
  BY DEF StartRegAlloc
<1>2. /\ irCode \in Seq(Generated) /\ at \in 1..Len(irCode)+1 /\ prog \in Seq(Selected)
      /\ \A junk \in Junk : Simulates(CpuRun(prog, junk), IRRun(irCode, at - 1, junk))
  BY <1>1 DEF MeaningInv, Selecting
<1>3. /\ Fresh
      /\ \A k \in 1..Len(prog) : prog[k].mnemonic = "RET" => k = Len(prog) /\ at > Len(irCode)
  BY <1>1 DEF MeaningInv, Chosen
<1>4. /\ i = 1 /\ nextOffset = -4 /\ offsetMap \in [0..MapSize-1 -> Int]
      /\ \A t \in 0..MapSize-1 : offsetMap[t] = 0
  BY <1>3 DEF Fresh
<1>5. Selected \subseteq Instructions
  BY DEF Selected
<1> HIDE DEF Generated, Selected, Instructions
<1>6. at - 1 = Len(irCode)
  BY <1>1, <1>2
<1>7. MeansIR(prog)
  BY <1>2, <1>6, SimulatesMeans DEF MeansIR
<1>8. prog \in Seq(Instructions) /\ Len(prog) \in Nat
  BY <1>2, <1>5
<1>9. Slots(offsetMap, nextOffset)
  BY <1>4 DEF Slots
<1>10. IInv'
  <2>1. Typed'
    BY <1>1, <1>4, <1>8 DEF Typed, Passes
  <2>2. Slots(offsetMap, nextOffset)'
    BY <1>1, <1>9 DEF Slots
  <2> QED
    BY <2>1, <2>2 DEF IInv
<1>11. RetLast(prog)
  BY <1>3 DEF RetLast
<1>12. \A k \in 1..Len(prog) : ~(k < 1)
  BY <1>8
<1>13. Origin(prog)
  BY <1>2, <1>4, <1>7, <1>11, <1>12 DEF Origin
<1>14. MappedCode'
  <2>1. PICK p : p = prog
    OBVIOUS
  <2>2. p \in Seq(Selected) /\ Len(p) = Len(prog) /\ RetLast(p) /\ MeansIR(p)
    BY <1>2, <1>7, <1>11, <2>1
  <2>3. MeansIR(p)'
    BY <1>1, <2>2 DEF MeansIR
  <2>4. \A k \in 1..Len(p) : prog'[k] = p[k] /\ ~(k < i')
    BY <1>1, <1>4, <1>12, <2>1
  <2>5. Origin(p)'
    BY <1>1, <2>2, <2>3, <2>4 DEF Origin
  <2> QED
    BY <1>1, <1>4, <2>5 DEF MappedCode
<1>15. Selecting' /\ Chosen' /\ AllocatedCode'
  BY <1>1 DEF Selecting, Chosen, AllocatedCode, Rank
<1> QED
  BY <1>10, <1>14, <1>15 DEF MeaningInv

\* A pseudo register that has a slot keeps it.
LEMMA ResolvedStays ==
  ASSUME DOMAIN offsetMap = 0..MapSize-1, DOMAIN offsetMap' = 0..MapSize-1,
         Grows(offsetMap, offsetMap'), NEW op, ResolvedOp(op).type # "PSEUDO"
  PROVE  ResolvedOp(op)' = ResolvedOp(op)
BY DEF ResolvedOp, Mapped, Grows

\* One that has just been placed is named so from now on.
LEMMA PlacedIsResolved ==
  ASSUME DOMAIN offsetMap' = 0..MapSize-1, NEW op, op.type # "STACK",
         op.type = "PSEUDO" => op.value \in 0..MapSize-1 /\ offsetMap'[op.value] # 0
  PROVE  /\ Placed(op, offsetMap') = ResolvedOp(op)'
         /\ Placed(op, offsetMap').type # "PSEUDO"
BY DEF ResolvedOp, Mapped, Placed, StackOp, Operand

LEMMA SelectedNoSlots ==
  ASSUME NEW x \in Selected
  PROVE  x \in Instructions /\ x.dst.type # "STACK" /\ x.src.type # "STACK"
BY DEF Selected

LEMMA MapInstructionMeans ==
  ASSUME MeaningInv, MapInstruction, UNCHANGED irCode
  PROVE  MappedCode'
<1> DEFINE inst == prog[i]
           m0   == [map |-> offsetMap, next |-> nextOffset]
           m1   == WithSlot(inst.dst, m0)
           m2   == WithSlot(inst.src, m1)
           new  == [inst EXCEPT !.dst = Placed(@, m2.map), !.src = Placed(@, m2.map)]
<1>0. pass = "map" /\ IInv
  BY DEF MapInstruction, MeaningInv
<1>1. /\ i \in 1..Len(prog) /\ i' = i + 1 /\ pass' = pass
      /\ Pseudos(inst) \subseteq 0..MapSize-1
      /\ offsetMap' = m2.map /\ nextOffset' = m2.next
      /\ prog' = [prog EXCEPT ![i] = new]
  BY <1>0 DEF MapInstruction, IInv, Typed
<1>2. prog \in Seq(Instructions) /\ inst \in Instructions
  BY <1>0, <1>1 DEF IInv, Typed
<1>3. PICK p : Origin(p)
  BY <1>0 DEF MeaningInv, MappedCode
<1>4. /\ p \in Seq(Selected) /\ Len(p) = Len(prog) /\ RetLast(p) /\ MeansIR(p)
      /\ \A k \in 1..Len(p) :
           IF k < i THEN /\ prog[k] = Named(p[k])
                         /\ prog[k].dst.type # "PSEUDO" /\ prog[k].src.type # "PSEUDO"
           ELSE prog[k] = p[k]
  BY <1>3 DEF Origin
<1> HIDE DEF Selected
<1>5. p[i] \in Selected /\ ~(i < i)
  BY <1>1, <1>4
<1>6. inst = p[i]
  BY <1>1, <1>4, <1>5
<1>7. /\ inst.dst \in Operands /\ inst.src \in Operands
      /\ inst.dst.type # "STACK" /\ inst.src.type # "STACK"
  BY <1>2, <1>5, <1>6, SelectedNoSlots DEF Instructions
<1>8. /\ inst.dst.type = "PSEUDO" => inst.dst.value \in 0..MapSize-1
      /\ inst.src.type = "PSEUDO" => inst.src.value \in 0..MapSize-1
  BY <1>1 DEF Pseudos
<1>9. m0 = [map |-> m0.map, next |-> m0.next] /\ Slots(m0.map, m0.next) /\ m0.map = offsetMap
  BY <1>0 DEF IInv
<1> HIDE DEF m0
<1>10. /\ m1 = [map |-> m1.map, next |-> m1.next] /\ Slots(m1.map, m1.next)
       /\ Grows(m0.map, m1.map)
       /\ inst.dst.type = "PSEUDO" => m1.map[inst.dst.value] # 0
  BY <1>7, <1>8, <1>9, WithSlotKeeps, WithSlotGrows
<1> HIDE DEF m1
<1>11. /\ Slots(m2.map, m2.next) /\ Grows(m1.map, m2.map)
       /\ inst.src.type = "PSEUDO" => m2.map[inst.src.value] # 0
  BY <1>7, <1>8, <1>10, WithSlotKeeps, WithSlotGrows
<1> HIDE DEF m2
<1>12. inst.dst.type = "PSEUDO" => m2.map[inst.dst.value] # 0
  BY <1>8, <1>10, <1>11 DEF Grows
<1>13. Grows(offsetMap, offsetMap')
  BY <1>1, <1>9, <1>10, <1>11 DEF Grows
<1>14. DOMAIN offsetMap = 0..MapSize-1 /\ DOMAIN offsetMap' = 0..MapSize-1
  BY <1>0, <1>1, <1>11 DEF IInv, Slots
<1>23. PICK o : o = p[i]
  OBVIOUS
<1>15. /\ Placed(o.dst, offsetMap') = ResolvedOp(o.dst)'
       /\ Placed(o.src, offsetMap') = ResolvedOp(o.src)'
       /\ Placed(o.dst, offsetMap').type # "PSEUDO" /\ Placed(o.src, offsetMap').type # "PSEUDO"
  <2>1. /\ o.dst.type # "STACK" /\ o.src.type # "STACK"
        /\ o.dst.type = "PSEUDO" => o.dst.value \in 0..MapSize-1 /\ offsetMap'[o.dst.value] # 0
        /\ o.src.type = "PSEUDO" => o.src.value \in 0..MapSize-1 /\ offsetMap'[o.src.value] # 0
    BY <1>1, <1>6, <1>7, <1>8, <1>11, <1>12, <1>23
  <2>2. Placed(o.dst, offsetMap') = ResolvedOp(o.dst)' /\ Placed(o.dst, offsetMap').type # "PSEUDO"
    BY <1>14, <2>1, PlacedIsResolved
  <2>3. Placed(o.src, offsetMap') = ResolvedOp(o.src)' /\ Placed(o.src, offsetMap').type # "PSEUDO"
    BY <1>14, <2>1, PlacedIsResolved
  <2> QED
    BY <2>2, <2>3
<1>16. new = [o EXCEPT !.dst = Placed(o.dst, offsetMap'), !.src = Placed(o.src, offsetMap')]
  BY <1>1, <1>2, <1>6, <1>23 DEF Instructions
<1> HIDE DEF new
<1>24. o \in Instructions
  BY <1>2, <1>6, <1>23
<1>17. new = Named(o)' /\ new.dst.type # "PSEUDO" /\ new.src.type # "PSEUDO"
  <2>1. Named(o)' = [o EXCEPT !.dst = ResolvedOp(o.dst)', !.src = ResolvedOp(o.src)']
    BY <1>24 DEF Named, Instructions
  <2>2. /\ new.dst = Placed(o.dst, offsetMap') /\ new.src = Placed(o.src, offsetMap')
    BY <1>16, <1>24 DEF Instructions
  <2> QED
    BY <1>15, <1>16, <2>1, <2>2
<1>18. /\ Len(prog') = Len(prog) /\ prog'[i] = new
       /\ \A k \in 1..Len(prog) : k # i => prog'[k] = prog[k]
  BY <1>1, <1>2
<1>19. ASSUME NEW k \in 1..Len(p)
       PROVE  IF k < i' THEN /\ prog'[k] = Named(p[k])'
                             /\ prog'[k].dst.type # "PSEUDO" /\ prog'[k].src.type # "PSEUDO"
              ELSE prog'[k] = p[k]
  <2>1. CASE k = i
    <3>1. o = p[k]
      BY <1>23, <2>1
    <3> QED
      BY <1>1, <1>17, <1>18, <2>1, <3>1
  <2>2. CASE k < i
    <3>1. /\ prog[k] = Named(p[k]) /\ prog'[k] = prog[k]
          /\ prog[k].dst.type # "PSEUDO" /\ prog[k].src.type # "PSEUDO"
      BY <1>1, <1>4, <1>18, <2>2
    <3>2. p[k] \in Instructions
      BY <1>4, SelectedNoSlots
    <3>3. /\ Named(p[k]).dst = ResolvedOp(p[k].dst) /\ Named(p[k]).src = ResolvedOp(p[k].src)
      BY <3>2, NamedFields
    <3>4. PICK x : x = p[k].dst
      OBVIOUS
    <3>5. PICK y : y = p[k].src
      OBVIOUS
    <3>6. ResolvedOp(x)' = ResolvedOp(x) /\ ResolvedOp(y)' = ResolvedOp(y)
      BY <1>13, <1>14, <3>1, <3>3, <3>4, <3>5, ResolvedStays
    <3>7. Named(p[k])' = [p[k] EXCEPT !.dst = ResolvedOp(x)', !.src = ResolvedOp(y)']
      BY <3>2, <3>4, <3>5 DEF Named, Instructions
    <3>8. Named(p[k]) = [p[k] EXCEPT !.dst = ResolvedOp(x), !.src = ResolvedOp(y)]
      BY <3>2, <3>4, <3>5 DEF Named, Instructions
    <3>9. Named(p[k])' = Named(p[k]) /\ k < i'
      BY <1>1, <2>2, <3>6, <3>7, <3>8
    <3> QED
      BY <3>1, <3>9
  <2>3. CASE k > i
    <3>1. ~(k < i) /\ ~(k < i') /\ k \in 1..Len(prog) /\ k # i
      BY <1>1, <1>4, <2>3
    <3> QED
      BY <1>4, <1>18, <3>1
  <2> QED
    BY <1>1, <2>1, <2>2, <2>3
<1>20. MeansIR(p)'
  BY <1>4 DEF MeansIR
<1>21. Origin(p)'
  BY <1>4, <1>18, <1>19, <1>20 DEF Origin
<1>22. Len(prog') # 0
  BY <1>1, <1>18
<1> QED
  BY <1>0, <1>1, <1>21, <1>22 DEF MappedCode

\* Once every instruction is mapped, the code has no pseudo registers and means
\* what it meant.
LEMMA MappedMeans ==
  ASSUME IInv, NEW p, Origin(p), i = Len(prog) + 1
  PROVE  /\ MeansIR(prog)
         /\ \A k \in 1..Len(prog) : /\ Sane(prog[k]) /\ LiveAt({}, prog[k], {})
                                    /\ prog[k].mnemonic \in Ordinary \cup {"RET"}
                                    /\ prog[k].mnemonic = "RET" => k = Len(prog)
<1>1. /\ p \in Seq(Selected) /\ Len(p) = Len(prog) /\ RetLast(p) /\ MeansIR(p)
      /\ \A k \in 1..Len(p) :
           IF k < i THEN /\ prog[k] = Named(p[k])
                         /\ prog[k].dst.type # "PSEUDO" /\ prog[k].src.type # "PSEUDO"
           ELSE prog[k] = p[k]
  BY DEF Origin
<1>2. prog \in Seq(Instructions) /\ Len(prog) \in Nat
  BY DEF IInv, Typed
<1> HIDE DEF Selected, Instructions
<1>3. \A k \in 1..Len(p) : k < i
  BY <1>1, <1>2
<1>4. \A k \in 1..Len(p) : prog[k] = Named(p[k]) /\ prog[k].dst.type # "PSEUDO" /\ prog[k].src.type # "PSEUDO"
  BY <1>1, <1>3
<1>5. \A junk : CpuOutcome(prog, junk) = CpuOutcome(p, junk)
  BY <1>1, <1>4, RenamingKeeps
<1>6. MeansIR(prog)
  BY <1>1, <1>5 DEF MeansIR
<1>7. ASSUME NEW k \in 1..Len(prog)
      PROVE  /\ Sane(prog[k]) /\ LiveAt({}, prog[k], {})
             /\ prog[k].mnemonic \in Ordinary \cup {"RET"}
             /\ prog[k].mnemonic = "RET" => k = Len(prog)
  <2>1. p[k] \in Selected /\ prog[k] \in Instructions
    BY <1>1, <1>2
  <2>2. /\ prog[k] = Named(p[k]) /\ prog[k].dst.type # "PSEUDO" /\ prog[k].src.type # "PSEUDO"
    BY <1>1, <1>4
  <2>3. /\ Sane(prog[k]) /\ LiveAt({}, prog[k], {})
        /\ prog[k].mnemonic = p[k].mnemonic /\ prog[k].mnemonic \in Ordinary \cup {"RET"}
    BY <2>1, <2>2, NamedIsSane
  <2> QED
    BY <1>1, <2>3 DEF RetLast
<1> QED
  BY <1>6, <1>7

LEMMA StackAllocMeans ==
  ASSUME MeaningInv, StackAlloc, UNCHANGED irCode
  PROVE  AllocatedCode'
<1>1. /\ pass = "stack" /\ pass' = "addr_addr"
      /\ prog' = IF AllocAmount = 0 THEN prog
                 ELSE InsertAt(InsertAt(prog, 1, Unary("ALLOCATE_STACK", StackOp(AllocAmount))),
                               Len(prog) + 1, Epilogue)
  BY DEF StackAlloc, Epilogue
<1>2. IInv
  BY <1>1 DEF MeaningInv
<1>3. prog \in Seq(Instructions) /\ nextOffset \in Int /\ Len(prog) \in Nat
  BY <1>2 DEF IInv, Typed, Slots
<1>4. /\ i = Len(prog) + 1 /\ (Len(prog) = 0 => nextOffset = -4) /\ \E p : Origin(p)
  BY <1>1 DEF MeaningInv, MappedCode
<1>5. AllocAmount \in Int /\ (AllocAmount # 0 => Len(prog) >= 1)
  BY <1>3, <1>4 DEF AllocAmount
<1>6. /\ MeansIR(prog)
      /\ \A k \in 1..Len(prog) : /\ Sane(prog[k]) /\ LiveAt({}, prog[k], {})
                                 /\ prog[k].mnemonic \in Ordinary \cup {"RET"}
                                 /\ prog[k].mnemonic = "RET" => k = Len(prog)
  BY <1>2, <1>4, MappedMeans
<1> HIDE DEF Instructions
<1>7. /\ \A k \in 1..Len(prog') : Sane(prog'[k])
      /\ \E V : Live(prog', V)
      /\ \A junk : CpuOutcome(prog', junk) = CpuOutcome(prog, junk)
  <2>1. CASE AllocAmount = 0
    <3>1. prog' = prog
      BY <1>1, <2>1
    <3>2. \E V : Live(prog, V)
      BY <1>3, <1>6, NothingLive
    <3> QED
      BY <1>6, <3>1, <3>2
  <2>2. CASE AllocAmount # 0
    <3> DEFINE r == InsertAt(InsertAt(prog, 1, Unary("ALLOCATE_STACK", StackOp(AllocAmount))),
                             Len(prog) + 1, Epilogue)
    <3>1. prog' = r
      BY <1>1, <2>2
    <3>2. /\ \A k \in 1..Len(r) : Sane(r[k])
          /\ \E V : Live(r, V)
          /\ \A junk : CpuOutcome(r, junk) = CpuOutcome(prog, junk)
      BY <1>3, <1>5, <1>6, <2>2, FrameMeans
    <3> HIDE DEF r
    <3> QED
      BY <3>1, <3>2
  <2> QED
    BY <2>1, <2>2
<1>8. MeansIR(prog)'
  BY <1>6, <1>7 DEF MeansIR
<1> QED
  BY <1>7, <1>8 DEF AllocatedCode

\* One iteration of any of the five loops.
LEMMA OneFixMeans ==
  ASSUME MeaningInv, IInv, pass \in DOMAIN Rank, i <= Len(prog),
         NEW new, Sane(prog[i]) => GoodFix(new, prog[i]),
         prog' = SubSeq(prog, 1, i - 1) \o new \o SubSeq(prog, i + 1, Len(prog)),
         UNCHANGED <<pass, irCode>>
  PROVE  AllocatedCode'
<1>1. prog \in Seq(Instructions) /\ i \in 1..Len(prog)
  BY DEF IInv, Typed
<1>2. /\ \A k \in 1..Len(prog) : Sane(prog[k])
      /\ MeansIR(prog)
  BY DEF MeaningInv, AllocatedCode
<1>3. PICK V : Live(prog, V)
  BY DEF MeaningInv, AllocatedCode
<1>4. GoodFix(new, prog[i])
  BY <1>1, <1>2
<1> DEFINE r == SubSeq(prog, 1, i - 1) \o new \o SubSeq(prog, i + 1, Len(prog))
<1> HIDE DEF Instructions
<1>5. /\ \A k \in 1..Len(r) : Sane(r[k])
      /\ \E U : Live(r, U)
      /\ \A junk : CpuOutcome(r, junk) = CpuOutcome(prog, junk)
  BY <1>1, <1>2, <1>3, <1>4, FixMeans
<1>6. prog' = r
  OBVIOUS
<1> HIDE DEF r
<1>7. MeansIR(prog)'
  BY <1>2, <1>5, <1>6 DEF MeansIR
<1> QED
  BY <1>5, <1>6, <1>7 DEF AllocatedCode

LEMMA PassesMean ==
  ASSUME MeaningInv, FixAddrAddr \/ FixImul \/ FixIdiv \/ FixShift \/ FixCmp, UNCHANGED irCode
  PROVE  AllocatedCode'
<1>1. /\ "addr_addr" \in DOMAIN Rank /\ "imul" \in DOMAIN Rank /\ "idiv" \in DOMAIN Rank
      /\ "shift" \in DOMAIN Rank /\ "cmp" \in DOMAIN Rank /\ "gen" \notin DOMAIN Rank
  BY DEF Rank
<1>2. pass \in DOMAIN Rank => IInv
  BY <1>1 DEF MeaningInv
<1>3. CASE FixAddrAddr
  <2> DEFINE new == fix_invalid_addr_addr(prog[i])
  <2>1. /\ pass = "addr_addr" /\ i <= Len(prog) /\ UNCHANGED pass
        /\ prog' = SubSeq(prog, 1, i - 1) \o new \o SubSeq(prog, i + 1, Len(prog))
    BY <1>3 DEF FixAddrAddr, FixInstruction
  <2>2. Sane(prog[i]) => GoodFix(new, prog[i])
    BY AddrAddrGood
  <2> HIDE DEF new
  <2> QED
    BY <1>1, <1>2, <2>1, <2>2, OneFixMeans
<1>4. CASE FixImul
  <2> DEFINE new == fix_invalid_imuls(prog[i])
  <2>1. /\ pass = "imul" /\ i <= Len(prog) /\ UNCHANGED pass
        /\ prog' = SubSeq(prog, 1, i - 1) \o new \o SubSeq(prog, i + 1, Len(prog))
    BY <1>4 DEF FixImul, FixInstruction
  <2>2. Sane(prog[i]) => GoodFix(new, prog[i])
    BY ImulGood
  <2> HIDE DEF new
  <2> QED
    BY <1>1, <1>2, <2>1, <2>2, OneFixMeans
<1>5. CASE FixIdiv
  <2> DEFINE new == fix_invalid_idivs(prog[i])
  <2>1. /\ pass = "idiv" /\ i <= Len(prog) /\ UNCHANGED pass
        /\ prog' = SubSeq(prog, 1, i - 1) \o new \o SubSeq(prog, i + 1, Len(prog))
    BY <1>5 DEF FixIdiv, FixInstruction
  <2>2. Sane(prog[i]) => GoodFix(new, prog[i])
    BY IdivGood
  <2> HIDE DEF new
  <2> QED
    BY <1>1, <1>2, <2>1, <2>2, OneFixMeans
<1>6. CASE FixShift
  <2> DEFINE new == fix_invalid_shifts(prog[i])
  <2>1. /\ pass = "shift" /\ i <= Len(prog) /\ UNCHANGED pass
        /\ prog' = SubSeq(prog, 1, i - 1) \o new \o SubSeq(prog, i + 1, Len(prog))
    BY <1>6 DEF FixShift, FixInstruction
  <2>2. Sane(prog[i]) => GoodFix(new, prog[i])
    BY ShiftGood
  <2> HIDE DEF new
  <2> QED
    BY <1>1, <1>2, <2>1, <2>2, OneFixMeans
<1>7. CASE FixCmp
  <2> DEFINE new == fix_invalid_cmps(prog[i])
  <2>1. /\ pass = "cmp" /\ i <= Len(prog) /\ UNCHANGED pass
        /\ prog' = SubSeq(prog, 1, i - 1) \o new \o SubSeq(prog, i + 1, Len(prog))
    BY <1>7 DEF FixCmp, FixInstruction
  <2>2. Sane(prog[i]) => GoodFix(new, prog[i])
    BY CmpGood
  <2> HIDE DEF new
  <2> QED
    BY <1>1, <1>2, <2>1, <2>2, OneFixMeans
<1> QED
  BY <1>3, <1>4, <1>5, <1>6, <1>7

LEMMA RegAllocMeans ==
  ASSUME MeaningInv, Next, UNCHANGED <<irCode, at>>
  PROVE  MeaningInv'
<1>1. pass # "gen" /\ pass' # "gen"
  BY AllocationGoesOn
<1>2. IInv
  BY <1>1 DEF MeaningInv
<1>3. IInv'
  BY <1>2, StepKeepsInvariant
<1>4. Selecting' /\ Chosen'
  BY <1>1 DEF Selecting, Chosen
<1>5. MappedCode' /\ AllocatedCode'
  <2>1. CASE MapInstruction
    <3>1. MappedCode'
      BY <2>1, MapInstructionMeans
    <3>2. pass' = "map"
      BY <2>1 DEF MapInstruction
    <3> QED
      BY <3>1, <3>2 DEF AllocatedCode, Rank
  <2>2. CASE MapOutOfBounds
    <3>1. pass' = "undefined"
      BY <2>2 DEF MapOutOfBounds
    <3> QED
      BY <3>1 DEF AllocatedCode, MappedCode, Rank
  <2>3. CASE MapDone
    <3>1. /\ pass = "map" /\ pass' = "stack" /\ i > Len(prog)
          /\ UNCHANGED <<prog, i, offsetMap, nextOffset>>
      BY <2>3 DEF MapDone
    <3>2. i' = Len(prog') + 1
      BY <1>2, <3>1 DEF IInv, Typed
    <3>3. (\E p : Origin(p)) /\ (Len(prog) = 0 => nextOffset = -4)
      BY <3>1 DEF MeaningInv, MappedCode
    <3>4. PICK p : Origin(p)
      BY <3>3
    <3>5. Origin(p)'
      BY <3>1, <3>4 DEF Origin, MeansIR, Named, ResolvedOp, Mapped
    <3>6. MappedCode'
      BY <3>1, <3>2, <3>3, <3>5 DEF MappedCode
    <3> QED
      BY <3>1, <3>6 DEF AllocatedCode, Rank
  <2>4. CASE StackAlloc
    <3>1. AllocatedCode' /\ pass' = "addr_addr"
      BY <2>4, StackAllocMeans DEF StackAlloc
    <3> QED
      BY <3>1 DEF MappedCode
  <2>5. CASE FixAddrAddr \/ FixImul \/ FixIdiv \/ FixShift \/ FixCmp
    <3>1. AllocatedCode'
      BY <2>5, PassesMean
    <3>2. pass' \notin {"map", "stack"}
      BY <2>5 DEF FixAddrAddr, FixImul, FixIdiv, FixShift, FixCmp, FixInstruction
    <3> QED
      BY <3>1, <3>2 DEF MappedCode
  <2>6. CASE PassDone
    <3>1. /\ pass \in DOMAIN NextPass /\ pass' = NextPass[pass] /\ UNCHANGED prog
      BY <2>6 DEF PassDone
    <3>2. pass \in DOMAIN Rank /\ pass' \in DOMAIN Rank /\ pass' \notin Unframed
      BY <3>1, PassNames
    <3>3. AllocatedCode'
      BY <3>1, <3>2 DEF MeaningInv, AllocatedCode, MeansIR
    <3> QED
      BY <3>2, <3>3 DEF MappedCode, Unframed
  <2> QED
    BY <2>1, <2>2, <2>3, <2>4, <2>5, <2>6 DEF Next
<1> QED
  BY <1>1, <1>3, <1>4, <1>5 DEF MeaningInv

LEMMA StepMeans == MeaningInv /\ [CodeGenNext]_codeGenVars => MeaningInv'
<1> SUFFICES ASSUME MeaningInv, [CodeGenNext]_codeGenVars PROVE MeaningInv'
  OBVIOUS
<1>1. CASE CreateInst
  <2>1. Selecting' /\ Chosen'
    BY <1>1, CreateInstSelects, CreateInstChooses DEF MeaningInv
  <2>2. pass' = "gen"
    BY <1>1 DEF CreateInst
  <2> QED
    BY <2>1, <2>2 DEF MeaningInv, MappedCode, AllocatedCode, Rank
<1>2. CASE StartRegAlloc
  BY <1>2, StartMeans
<1>3. CASE RegAllocStep
  BY <1>3, RegAllocMeans DEF RegAllocStep
<1>4. CASE EmitInstruction \/ UNCHANGED codeGenVars
  <2>1. UNCHANGED <<irCode, at, prog, pass, i, offsetMap, nextOffset>>
    BY <1>4 DEF EmitInstruction, codeGenVars, vars
  <2>2. Selecting' /\ Chosen'
    BY <2>1 DEF MeaningInv, Selecting, Chosen, Fresh, LastReturn
  <2>3. (pass # "gen" => IInv)'
    BY <2>1 DEF MeaningInv, IInv, Typed, Slots
  <2>4. ASSUME NEW p, Origin(p) PROVE Origin(p)'
    BY <2>1, <2>4 DEF Origin, MeansIR, Named, ResolvedOp, Mapped
  <2>5. MappedCode'
    BY <2>1, <2>4 DEF MeaningInv, MappedCode
  <2>6. AllocatedCode'
    BY <2>1 DEF MeaningInv, AllocatedCode, MeansIR
  <2> QED
    BY <2>2, <2>3, <2>5, <2>6 DEF MeaningInv
<1> QED
  BY <1>1, <1>2, <1>3, <1>4 DEF CodeGenNext

LEMMA ResolvedElements ==
  ASSUME prog \in Seq(Instructions)
  PROVE  /\ Len(ResolvedProg) = Len(prog)
         /\ \A k \in 1..Len(prog) : ResolvedProg[k] = Named(prog[k])
<1> DEFINE n == Len(prog)
<1> HIDE DEF Instructions
<1>1. DOMAIN prog = 1..n /\ n \in Nat
  OBVIOUS
<1>2. ResolvedProg = [k \in 1..n |-> Named(prog[k])]
  BY <1>1 DEF ResolvedProg, Named
<1> HIDE DEF n
<1>3. Len([k \in 1..n |-> Named(prog[k])]) = n
  BY <1>1
<1> QED
  BY <1>1, <1>2, <1>3 DEF n

\* Nothing is named twice.
LEMMA NamedIsItself ==
  ASSUME NEW x \in Instructions, x.dst.type # "PSEUDO", x.src.type # "PSEUDO"
  PROVE  Named(x) = x
<1>1. ResolvedOp(x.dst) = x.dst /\ ResolvedOp(x.src) = x.src
  BY DEF ResolvedOp
<1> QED
  BY <1>1 DEF Named, Instructions

LEMMA MeaningIsRight == MeaningInv => RewritesPreserveMeaning
<1> SUFFICES ASSUME MeaningInv, pass \notin {"gen", "undefined"}, NEW junk \in Junk
             PROVE  CpuOutcome(ResolvedProg, junk) = IROutcome(irCode, junk)
  BY DEF RewritesPreserveMeaning
<1>1. IInv /\ prog \in Seq(Instructions) /\ Len(prog) \in Nat /\ pass \in Passes
  BY DEF MeaningInv, IInv, Typed
<1> HIDE DEF Instructions, Selected
<1>2. /\ Len(ResolvedProg) = Len(prog)
      /\ \A k \in 1..Len(prog) : ResolvedProg[k] = Named(prog[k]) /\ prog[k] \in Instructions
  BY <1>1, ResolvedElements
<1>3. CASE pass \in {"map", "stack"}
  <2>1. PICK p : Origin(p)
    BY <1>3 DEF MeaningInv, MappedCode
  <2>2. /\ p \in Seq(Selected) /\ Len(p) = Len(prog) /\ MeansIR(p)
        /\ \A k \in 1..Len(p) :
             IF k < i THEN /\ prog[k] = Named(p[k])
                           /\ prog[k].dst.type # "PSEUDO" /\ prog[k].src.type # "PSEUDO"
             ELSE prog[k] = p[k]
    BY <2>1 DEF Origin
  <2>3. ASSUME NEW k \in 1..Len(p) PROVE ResolvedProg[k] = Named(p[k])
    <3>1. CASE k < i
      BY <1>2, <2>2, <3>1, NamedIsItself
    <3>2. CASE ~(k < i)
      BY <1>2, <2>2, <3>2
    <3> QED
      BY <3>1, <3>2
  <2>4. CpuOutcome(ResolvedProg, junk) = CpuOutcome(p, junk)
    BY <1>1, <1>2, <2>2, <2>3, RenamingKeeps
  <2> QED
    BY <2>2, <2>4 DEF MeansIR
<1>4. CASE pass \in DOMAIN Rank
  <2>1. (\A k \in 1..Len(prog) : Sane(prog[k])) /\ MeansIR(prog)
    BY <1>4 DEF MeaningInv, AllocatedCode
  <2>2. \A k \in 1..Len(prog) : ResolvedProg[k] = prog[k]
    BY <1>2, <2>1, NamedIsItself DEF Sane
  <2>3. \A k \in DOMAIN prog : Named(prog[k]) = prog[k]
    BY <1>1, <1>2, <2>2
  <2>4. ResolvedProg = prog
    <3>1. ResolvedProg = [k \in DOMAIN prog |-> Named(prog[k])]
      BY DEF ResolvedProg, Named
    <3>2. prog = [k \in DOMAIN prog |-> prog[k]]
      BY <1>1
    <3> QED
      BY <2>3, <3>1, <3>2
  <2> QED
    BY <2>1, <2>4 DEF MeansIR
<1> QED
  BY <1>1, <1>3, <1>4, PassNames DEF Unframed

\* Register allocation is right: whatever IR ends in its only return, and however
\* long it is, after every step of the mapping, of stackalloc and of the five
\* passes the code returns what the IR returns, or faults when it faults, for
\* every word of junk.  Where the map is too short nothing is said, and a return
\* in the middle leaves through no epilogue.
THEOREM AllocationKeepsMeaning ==
  ASSUME IRPrograms \subseteq Seq(Generated), \A p \in IRPrograms : LastReturn(p)
  PROVE  CodeGenSpec => []RewritesPreserveMeaning
<1>1. CodeGenInit => MeaningInv
  BY MeaningInitially
<1>2. MeaningInv /\ [CodeGenNext]_codeGenVars => MeaningInv'
  BY StepMeans
<1>3. MeaningInv => RewritesPreserveMeaning
  BY MeaningIsRight
<1> QED
  BY <1>1, <1>2, <1>3, PTL DEF CodeGenSpec
=============================================================================
