-------------------------------- MODULE Word --------------------------------
(***************************************************************************)
(* Two's complement arithmetic on words of WordBits bits: the int of C, of *)
(* the IR and of the 32-bit x86 registers.  A word is kept as the signed   *)
(* integer it denotes.  The compiler itself computes nothing with these:   *)
(* they give a meaning to the programs it reads and writes.                *)
(***************************************************************************)
EXTENDS Integers

CONSTANTS WordBits, \* 32 in the code, a few bits in a model
          ByteBits  \* the part of a word that setcc and cl touch: 8

ASSUME WordAssumption ==
  WordBits \in Nat /\ ByteBits \in Nat /\ 0 < ByteBits /\ ByteBits < WordBits

MinWord == -(2^(WordBits - 1))
MaxWord == 2^(WordBits - 1) - 1
Word    == MinWord..MaxWord

\* The word with the same low bits as the integer v.
Wrap(v) == ((v - MinWord) % 2^WordBits) + MinWord

\* Division truncates toward zero, and the remainder has the dividend's sign.
Abs(v)        == IF v < 0 THEN -v ELSE v
TruncDiv(a, b) == IF (a < 0) = (b < 0) THEN Abs(a) \div Abs(b) ELSE -(Abs(a) \div Abs(b))
TruncRem(a, b) == a - b * TruncDiv(a, b)

\* idiv faults on these, C leaves them undefined.
DivFaults(a, b) == b = 0 \/ (a = MinWord /\ b = -1)

Bit(v, i) == (v \div 2^i) % 2 = 1

\* The word whose bit i is set exactly when P(i) holds.
FromBits(P(_)) ==
  LET sum[i \in 0..WordBits] ==
        IF i = 0 THEN 0 ELSE sum[i-1] + (IF P(i-1) THEN 2^(i-1) ELSE 0)
  IN Wrap(sum[WordBits])

BitNot(a)    == -a - 1
BitAnd(a, b) == FromBits(LAMBDA i : Bit(a, i) /\ Bit(b, i))
BitOr(a, b)  == FromBits(LAMBDA i : Bit(a, i) \/ Bit(b, i))
BitXor(a, b) == FromBits(LAMBDA i : Bit(a, i) # Bit(b, i))

\* shl and sar mask their count to the word's width.
Count(b)    == (b % 2^ByteBits) % WordBits
Shl(a, b)   == Wrap(a * 2^Count(b))
Sar(a, b)   == a \div 2^Count(b)

Truth(p) == IF p THEN 1 ELSE 0

\* v with its low byte replaced by b.
SetLowByte(v, b) == v - (v % 2^ByteBits) + b
=============================================================================
