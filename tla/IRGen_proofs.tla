--------------------------- MODULE IRGen_proofs ----------------------------
(***************************************************************************)
(* The temporaries and the labels of the code that IRGen generates.        *)
(*                                                                         *)
(* The invariant says of each call in progress what its frame holds, of    *)
(* the short circuits in progress that their temporaries and labels are    *)
(* their own, and of each instruction emitted so far which temporaries and *)
(* labels it may name.  A step makes a call or returns from one, and       *)
(* appends instructions; what an invariant needs to know of such a step is *)
(* a lemma of its own, and each action is an instance of it.               *)
(*                                                                         *)
(* The last part proves that nothing is read before it is written: the     *)
(* temporaries written on every path to an instruction are a solution of   *)
(* the data flow equations, and a step extends a solution of the code so   *)
(* far to one of the code it makes.                                        *)
(***************************************************************************)
EXTENDS IRGen, SequenceTheorems, WellFoundedInduction, TLAPS

-----------------------------------------------------------------------------
(* Induction on the numbers, for a set: the library's theorems take an operator. *)

\* Some number of a set of numbers is the least.
LEMMA Least ==
  ASSUME NEW T, T \subseteq Nat, T # {}
  PROVE  \E x \in T : \A y \in T : x <= y
<1> DEFINE R == OpToRel(<, Nat)
<1>1. IsWellFoundedOn(R, Nat)
  BY NatLessThanWellFounded
<1>2. R = {ss \in Nat \X Nat : ss[1] < ss[2]}
  BY DEF OpToRel
<1> HIDE DEF R
<1>3. PICK x \in T : \A y \in T : ~(<<y, x>> \in R)
  BY <1>1, WFMin
<1>4. ASSUME NEW y \in T PROVE x <= y
  <2>1. <<y, x>> \in Nat \X Nat /\ <<y, x>>[1] = y /\ <<y, x>>[2] = x
    OBVIOUS
  <2>2. ~(<<y, x>>[1] < <<y, x>>[2])
    BY <2>1, <1>2, <1>3
  <2> QED
    BY <2>1, <2>2
<1> QED
  BY <1>4

\* Induction, for a set of numbers.
LEMMA SetInduction ==
  ASSUME NEW T, 0 \in T, \A n \in Nat : n \in T => n + 1 \in T
  PROVE  Nat \subseteq T
<1> SUFFICES ASSUME Nat \ T # {} PROVE FALSE
  OBVIOUS
<1>1. PICK x \in Nat \ T : \A y \in Nat \ T : x <= y
  BY Least
<1>2. x # 0 /\ x - 1 \in Nat
  BY <1>1
<1>3. x - 1 \in T
  BY <1>1, <1>2
<1> QED
  BY <1>2, <1>3

-----------------------------------------------------------------------------
(* The inductive invariant *)

Tree == IsTree(ast, body)

ShortAt(k) == ast[stack[k].node].type = "BINARY" /\ ast[stack[k].node].op \in ShortOps

\* The first inner call of the frame has been made.
Started(k) == k < Len(stack) \/ stack[k].results # <<>>

\* A short circuit in progress, with the temporary and the labels it has made.
OpenAt(k) == k \in DOMAIN stack /\ ShortAt(k) /\ Started(k)
Temp(k)   == stack[k].locals.temp.value
Base(k)   == stack[k].locals.cond[2]

ShortLocal(t, l, pr) == [temp |-> TempOp(t), cond |-> <<pr, l>>, end |-> <<"end", l + 1>>]
ShortLocals == {ShortLocal(t, l, pr) : t \in 0..nextId-1, l \in 0..nextLabel-2, pr \in {"false", "true"}}
VarLocals   == {[NoLocals EXCEPT !.temp = TempOp(t)] : t \in VarTemps}

\* What a call returns to another.
Values == {ConstOp(c) : c \in Int} \cup {TempOp(t) : t \in 0..nextId-1}

\* The locals of a frame whose first inner call has been made.
LocalsOf(n) ==
  IF ast[n].type = "BINARY" /\ ast[n].op \in ShortOps THEN ShortLocals
  ELSE IF ast[n].type = "DECLARATION" THEN VarLocals
  ELSE {NoLocals}

\* A frame f, the k-th, that is the top or has called for the node above.
Holds(f, above, k) ==
  /\ f = [node |-> f.node, results |-> f.results, locals |-> f.locals]
  /\ f.node \in DOMAIN ast
  /\ f.results \in Seq(Values)
  /\ Len(f.results) <= IF above # NULL THEN 1 ELSE 2
  /\ f.locals \in IF above = NULL /\ f.results = <<>> THEN {NoLocals} ELSE LocalsOf(f.node)
  /\ k > 1 => ast[f.node].type \notin {"DECLARATION", "STATEMENT"}
  /\ ast[f.node].type = "STATEMENT" => ast[f.node].op = "RETURN"
  /\ ast[f.node].type = "ASSIGNMENT" =>
       IF f.results = <<>>
       THEN above # NULL => ast[above].type = "VARIABLE"
       ELSE f.results[1] \in {TempOp(t) : t \in VarTemps}

Above(k) == IF k < Len(stack) THEN stack[k + 1].node ELSE NULL

FrameOK(k) == Holds(stack[k], Above(k), k)

Frames == IsSequence(stack) /\ \A k \in 1..Len(stack) : FrameOK(k)

Counters ==
  /\ nextId \in Nat /\ nextLabel \in Nat
  /\ item \in 1..Len(body)+1 /\ hadReturn \in BOOLEAN /\ status \in {"running", "done", "aborted"}
  /\ DOMAIN varTemp \subseteq Names
  /\ \A x \in DOMAIN varTemp : varTemp[x] \in 0..nextId-1
  /\ \A x, y \in DOMAIN varTemp : varTemp[x] = varTemp[y] => x = y

\* The short circuits in progress have temporaries and labels of their own.
Opens ==
  /\ \A j, k : (OpenAt(j) /\ OpenAt(k) /\ j < k) => Temp(j) < Temp(k) /\ Base(j) + 1 < Base(k)
  /\ \A k : OpenAt(k) => Temp(k) \notin VarTemps

Temps ==
  /\ IsSequence(code)
  /\ \A p \in 1..Len(code) :
       /\ Reads(code[p]) \cup Writes(code[p]) \subseteq 0..nextId-1
       /\ code[p].dest_id \in Nat
       /\ Computes(code[p]) =>
            /\ code[p].dest_id \notin VarTemps
            /\ \A q \in 1..Len(code) : q # p => code[p].dest_id \notin Writes(code[q])
       /\ \A k : OpenAt(k) => Temp(k) \notin Writes(code[p])

\* The label l belongs to a short circuit in progress.
PendingAt(k, l) == OpenAt(k) /\ l \in {stack[k].locals.cond, stack[k].locals.end}

Labels ==
  /\ \A p \in 1..Len(code) : \A l \in Defines(code[p]) :
       /\ l[2] \in 0..nextLabel-1
       /\ \A k : OpenAt(k) => l[2] # Base(k) /\ l[2] # Base(k) + 1
       /\ \A q \in 1..Len(code) : l \in Defines(code[q]) => q = p
  /\ \A p \in 1..Len(code) : \A l \in Target(code[p]) :
       \/ \E k : PendingAt(k, l)
       \/ \E q \in 1..Len(code) : q > p /\ Defines(code[q]) = {l}

IInv == Counters /\ Frames /\ Opens /\ Temps /\ Labels

-----------------------------------------------------------------------------
(* Sequences *)

LEMMA Sequences ==
  ASSUME NEW s, IsSequence(s), NEW S, \A k \in 1..Len(s) : s[k] \in S
  PROVE  s \in Seq(S) /\ Len(s) \in Nat /\ DOMAIN s = 1..Len(s)
BY DEF IsSequence

LEMMA SequenceOf ==
  ASSUME NEW S, NEW s \in Seq(S)
  PROVE  IsSequence(s) /\ Len(s) \in Nat /\ \A k \in 1..Len(s) : s[k] \in S
<1>1. Len(s) \in Nat /\ DOMAIN s = 1..Len(s) /\ s \in [1..Len(s) -> S]
  BY LenProperties
<1> QED
  BY <1>1 DEF IsSequence

\* One sequence behind another.
Join(s, t) == s \o t

JoinOf(u, s, t) ==
  /\ IsSequence(u) /\ Len(u) = Len(s) + Len(t) /\ Len(s) \in Nat /\ Len(t) \in Nat
  /\ \A k \in 1..Len(s) : k \in 1..Len(u) /\ u[k] = s[k]
  /\ \A k \in 1..Len(t) : Len(s) + k \in 1..Len(u) /\ u[Len(s) + k] = t[k]
  /\ \A k \in 1..Len(u) : \/ k \in 1..Len(s) /\ u[k] = s[k]
                          \/ \E j \in 1..Len(t) : k = Len(s) + j /\ u[k] = t[j]

LEMMA Behind ==
  ASSUME NEW s, IsSequence(s), NEW t, IsSequence(t)
  PROVE  JoinOf(Join(s, t), s, t)
<1> DEFINE S == {s[k] : k \in 1..Len(s)} \cup {t[k] : k \in 1..Len(t)}
           u == Join(s, t)
<1>1. s \in Seq(S) /\ t \in Seq(S) /\ Len(s) \in Nat /\ Len(t) \in Nat
  BY Sequences DEF IsSequence
<1> HIDE DEF S
<1>2. /\ u \in Seq(S) /\ Len(u) = Len(s) + Len(t)
      /\ \A k \in 1..Len(u) : u[k] = IF k <= Len(s) THEN s[k] ELSE t[k - Len(s)]
  BY <1>1, ConcatProperties DEF Join
<1> HIDE DEF u
<1>3. IsSequence(u)
  BY <1>2, SequenceOf
<1>4. \A k \in 1..Len(s) : k \in 1..Len(u) /\ u[k] = s[k]
  BY <1>1, <1>2
<1>5. ASSUME NEW k \in 1..Len(t) PROVE Len(s) + k \in 1..Len(u) /\ u[Len(s) + k] = t[k]
  <2>1. Len(s) + k \in 1..Len(u) /\ ~(Len(s) + k <= Len(s)) /\ Len(s) + k - Len(s) = k
    BY <1>1, <1>2
  <2> QED
    BY <1>2, <2>1
<1>6. ASSUME NEW k \in 1..Len(u)
      PROVE  \/ k \in 1..Len(s) /\ u[k] = s[k]
             \/ \E j \in 1..Len(t) : k = Len(s) + j /\ u[k] = t[j]
  <2>1. CASE k <= Len(s)
    BY <1>1, <1>2, <2>1
  <2>2. CASE ~(k <= Len(s))
    <3>1. k - Len(s) \in 1..Len(t) /\ k = Len(s) + (k - Len(s)) /\ u[k] = t[k - Len(s)]
      BY <1>1, <1>2, <2>2
    <3> QED
      BY <3>1
  <2> QED
    BY <2>1, <2>2
<1> QED
  BY <1>1, <1>2, <1>3, <1>4, <1>5, <1>6 DEF JoinOf, u

LEMMA Appended ==
  ASSUME NEW s, IsSequence(s), NEW e
  PROVE  /\ IsSequence(Append(s, e)) /\ Len(Append(s, e)) = Len(s) + 1 /\ Len(s) \in Nat
         /\ \A k \in 1..Len(s) : Append(s, e)[k] = s[k]
         /\ Append(s, e)[Len(s) + 1] = e
<1> DEFINE S == {s[k] : k \in 1..Len(s)} \cup {e}
           u == Append(s, e)
<1>1. s \in Seq(S) /\ e \in S /\ Len(s) \in Nat
  BY Sequences DEF IsSequence
<1> HIDE DEF S
<1>2. u \in Seq(S) /\ Len(u) = Len(s) + 1 /\ (\A k \in 1..Len(s) : u[k] = s[k]) /\ u[Len(s) + 1] = e
  BY <1>1, AppendProperties
<1> HIDE DEF u
<1>3. IsSequence(u)
  BY <1>2, SequenceOf
<1> QED
  BY <1>1, <1>2, <1>3 DEF u

LEMMA WithoutLast ==
  ASSUME NEW s, IsSequence(s), Len(s) >= 1, NEW u, u = SubSeq(s, 1, Len(s) - 1)
  PROVE  /\ IsSequence(u) /\ Len(u) = Len(s) - 1 /\ Len(s) \in Nat
         /\ \A k \in 1..Len(u) : u[k] = s[k]
<1> DEFINE S == {s[k] : k \in 1..Len(s)}
           n == Len(s) - 1
<1>1. s \in Seq(S) /\ Len(s) \in Nat
  BY Sequences DEF IsSequence
<1>2. n \in Nat /\ \A k \in 1..n : s[k] \in S
  BY <1>1
<1> HIDE DEF S
<1>3. u \in Seq(S) /\ Len(u) = n /\ \A k \in 1..n : u[k] = s[k]
  <2>1. u = SubSeq(s, 1, n) /\ n >= 1 - 1
    BY <1>2
  <2>2. 1 \in Int /\ n \in Int
    BY <1>2
  <2> HIDE DEF n
  <2>3. /\ u \in Seq(S) /\ Len(u) = IF 1 <= n THEN n - 1 + 1 ELSE 0
        /\ \A k \in 1..n - 1 + 1 : u[k] = s[1 + k - 1]
    BY <1>1, <1>2, <2>1, SubSeqProperties
  <2> QED
    BY <1>2, <2>3
<1>4. IsSequence(u)
  BY <1>3, SequenceOf
<1> QED
  BY <1>1, <1>3, <1>4

Update(s, i, e) == [s EXCEPT ![i] = e]

LEMMA Updated ==
  ASSUME NEW s, IsSequence(s), NEW i \in 1..Len(s), NEW e, NEW u, u = Update(s, i, e)
  PROVE  /\ IsSequence(u) /\ Len(u) = Len(s)
         /\ u[i] = e /\ \A k \in 1..Len(s) : k # i => u[k] = s[k]
<1> DEFINE S == {s[k] : k \in 1..Len(s)} \cup {e}
<1>1. s \in Seq(S) /\ e \in S
  BY Sequences
<1> HIDE DEF S
<1>2. u \in Seq(S) /\ Len(u) = Len(s)
  BY <1>1, ExceptSeq DEF Update
<1>3. u[i] = e /\ \A k \in 1..Len(s) : k # i => u[k] = s[k]
  BY <1>1, ExceptSeq DEF Update
<1> QED
  BY <1>2, <1>3, SequenceOf

LEMMA Emptyness == ASSUME NEW s, IsSequence(s) PROVE s = <<>> <=> Len(s) = 0
BY DEF IsSequence

-----------------------------------------------------------------------------
(* The frames after a call and after a return *)

LEMMA CallShape ==
  ASSUME IsSequence(stack), Len(stack) >= 1, FrameOK(Len(stack)), NEW n, NEW L, Call(n, L)
  PROVE  LET m == Len(stack) IN
         /\ IsSequence(stack') /\ Len(stack') = m + 1 /\ m \in Nat
         /\ \A k \in 1..m-1 : stack'[k] = stack[k]
         /\ stack'[m] = [node |-> stack[m].node, results |-> stack[m].results, locals |-> L]
         /\ stack'[m + 1] = Frame(n)
<1> DEFINE m == Len(stack)
           u == [stack EXCEPT ![Len(stack)].locals = L]
<1>1. m \in Nat /\ m \in 1..m /\ stack = [k \in 1..m |-> stack[k]]
  BY DEF IsSequence
<1>2. IsSequence(u) /\ Len(u) = m /\ u[m] = [stack[m] EXCEPT !.locals = L]
      /\ \A k \in 1..m : k # m => u[k] = stack[k]
  <2> DEFINE e == [stack[m] EXCEPT !.locals = L]
  <2>1. u = Update(stack, m, e)
    BY DEF Update
  <2> HIDE DEF u, e
  <2>2. IsSequence(u) /\ Len(u) = m /\ u[m] = e /\ \A k \in 1..m : k # m => u[k] = stack[k]
    BY <1>1, <2>1, Updated
  <2> QED
    BY <2>2 DEF e
<1>3. \A k \in 1..m-1 : u[k] = stack[k]
  BY <1>1, <1>2
<1>4. u[m] = [stack[m] EXCEPT !.locals = L]
  BY <1>2
<1>5. stack[m] = [node |-> stack[m].node, results |-> stack[m].results, locals |-> stack[m].locals]
  BY DEF FrameOK, Holds
<1>6. u[m] = [node |-> stack[m].node, results |-> stack[m].results, locals |-> L]
  BY <1>4, <1>5
<1>7. stack' = Append(u, Frame(n))
  BY DEF Call
<1> HIDE DEF u
<1>8. /\ IsSequence(stack') /\ Len(stack') = m + 1 /\ \A k \in 1..m : stack'[k] = u[k]
      /\ stack'[m + 1] = Frame(n)
  BY <1>2, <1>7, Appended
<1> QED
  BY <1>1, <1>3, <1>6, <1>8

Receive(r, v) == [r EXCEPT !.results = Append(@, v)]

LEMMA RecordAppend ==
  ASSUME NEW r, NEW v, r = [node |-> r.node, results |-> r.results, locals |-> r.locals]
  PROVE  Receive(r, v)
           = [node |-> r.node, results |-> Append(r.results, v), locals |-> r.locals]
<1> DEFINE a == Append(r.results, v)
<1>1. Receive(r, v) = [r EXCEPT !.results = a]
  BY DEF Receive
<1> HIDE DEF a
<1>2. [r EXCEPT !.results = a] = [node |-> r.node, results |-> a, locals |-> r.locals]
  OBVIOUS
<1> QED
  BY <1>1, <1>2 DEF a

LEMMA ReturnShape ==
  ASSUME IsSequence(stack), Len(stack) >= 1, \A k \in 1..Len(stack) : FrameOK(k), NEW v, Return(v)
  PROVE  LET m == Len(stack) IN
         /\ IsSequence(stack') /\ Len(stack') = m - 1 /\ m \in Nat
         /\ \A k \in 1..m-2 : stack'[k] = stack[k]
         /\ m > 1 => stack'[m - 1] = [node |-> stack[m - 1].node,
                                      results |-> Append(stack[m - 1].results, v),
                                      locals |-> stack[m - 1].locals]
<1> DEFINE m == Len(stack)
           below == SubSeq(stack, 1, Len(stack) - 1)
<1>1. IsSequence(below) /\ Len(below) = m - 1 /\ m \in Nat /\ \A k \in 1..m-1 : below[k] = stack[k]
  BY WithoutLast
<1>2. stack' = IF below = <<>> THEN <<>>
               ELSE [below EXCEPT ![Len(below)].results = Append(@, v)]
  BY DEF Return
<1> HIDE DEF below
<1>3. CASE m = 1
  BY <1>1, <1>2, <1>3, Emptyness DEF IsSequence
<1>4. CASE m > 1
  <2>1. below # <<>> /\ m - 1 \in 1..m-1 /\ m - 1 \in 1..m
    BY <1>1, <1>4, Emptyness
  <2>2. stack' = [below EXCEPT ![m - 1].results = Append(@, v)]
    BY <1>1, <1>2, <2>1
  <2> DEFINE e == Receive(below[m - 1], v)
  <2>3. stack' = Update(below, m - 1, e)
    BY <2>2 DEF Update, Receive
  <2> HIDE DEF e
  <2>4. /\ IsSequence(stack') /\ Len(stack') = m - 1
        /\ \A k \in 1..m-2 : stack'[k] = below[k]
        /\ stack'[m - 1] = e
    BY <1>1, <2>1, <2>3, Updated
  <2>5. stack[m - 1] = [node |-> stack[m - 1].node, results |-> stack[m - 1].results,
                        locals |-> stack[m - 1].locals]
    BY <2>1 DEF FrameOK, Holds
  <2>6. below[m - 1] = stack[m - 1]
    BY <1>1, <2>1
  <2>7. stack'[m - 1] = [node |-> stack[m - 1].node, results |-> Append(stack[m - 1].results, v),
                         locals |-> stack[m - 1].locals]
    BY <2>4, <2>5, <2>6, RecordAppend DEF e
  <2>8. \A k \in 1..m-2 : stack'[k] = stack[k]
    BY <1>1, <2>4
  <2> QED
    BY <1>1, <2>4, <2>7, <2>8
<1> QED
  BY <1>1, <1>3, <1>4

\* Counters only grow, and with them what a frame may hold.
Grows ==
  /\ UNCHANGED input
  /\ nextId \in Nat /\ nextId' \in Nat /\ nextId <= nextId'
  /\ nextLabel \in Nat /\ nextLabel' \in Nat /\ nextLabel <= nextLabel'
  /\ VarTemps \subseteq VarTemps'

LEMMA SubSequences ==
  ASSUME NEW S, NEW T, S \subseteq T, NEW s \in Seq(S)
  PROVE  s \in Seq(T)
OBVIOUS

LEMMA Wider ==
  ASSUME Grows
  PROVE  /\ Values \subseteq Values' /\ ShortLocals \subseteq ShortLocals' /\ VarLocals \subseteq VarLocals'
         /\ \A n : LocalsOf(n) \subseteq LocalsOf(n)'
         /\ {TempOp(t) : t \in VarTemps} \subseteq {TempOp(t) : t \in VarTemps'}
<1>1. 0..nextId-1 \subseteq 0..nextId'-1 /\ 0..nextLabel-2 \subseteq 0..nextLabel'-2
  <2> DEFINE i == nextId
             j == nextId'
             l == nextLabel
             m == nextLabel'
  <2>1. i \in Nat /\ j \in Nat /\ i <= j /\ l \in Nat /\ m \in Nat /\ l <= m
    BY DEF Grows
  <2> HIDE DEF i, j, l, m
  <2>2. 0..i-1 \subseteq 0..j-1 /\ 0..l-2 \subseteq 0..m-2
    BY <2>1
  <2> QED
    BY <2>2 DEF i, j, l, m
<1>2. VarTemps \subseteq VarTemps' /\ ast' = ast
  BY DEF Grows, input
<1>3. Values \subseteq Values'
  BY <1>1 DEF Values
<1>4. ShortLocals \subseteq ShortLocals'
  BY <1>1 DEF ShortLocals
<1>5. VarLocals \subseteq VarLocals'
  BY <1>2 DEF VarLocals
<1>6. \A n : LocalsOf(n) \subseteq LocalsOf(n)'
  BY <1>2, <1>4, <1>5 DEF LocalsOf
<1> QED
  BY <1>2, <1>3, <1>4, <1>5, <1>6

LEMMA HoldsStays ==
  ASSUME Grows, NEW f, NEW above, NEW k, Holds(f, above, k)
  PROVE  Holds(f, above, k)'
<1>1. f.results \in Seq(Values')
  BY Wider, SubSequences DEF Holds
<1>2. ast' = ast
  BY DEF Grows, input
<1>3. f.locals \in IF above = NULL /\ f.results = <<>> THEN {NoLocals} ELSE LocalsOf(f.node)'
  BY Wider DEF Holds
<1>4. f.results[1] \in {TempOp(t) : t \in VarTemps} => f.results[1] \in {TempOp(t) : t \in VarTemps'}
  BY Wider
<1> QED
  BY <1>1, <1>2, <1>3, <1>4 DEF Holds

LEMMA FrameStays ==
  ASSUME Grows, NEW k, FrameOK(k), stack'[k] = stack[k], Above(k)' = Above(k)
  PROVE  FrameOK(k)'
<1>1. PICK f : f = stack[k]
  OBVIOUS
<1>2. PICK above : above = Above(k)
  OBVIOUS
<1>3. Holds(f, above, k)
  BY <1>1, <1>2 DEF FrameOK
<1>4. Holds(f, above, k)'
  BY <1>3, HoldsStays
<1>5. stack'[k] = f /\ Above(k)' = above
  BY <1>1, <1>2
<1> QED
  BY <1>4, <1>5 DEF FrameOK, Holds

LEMMA NodesAreNodes ==
  ASSUME Tree, Frames
  PROVE  /\ \A k \in 1..Len(stack) : stack[k].node \in DOMAIN ast /\ stack[k].node # NULL
         /\ \A k \in 1..Len(stack) : Above(k) # NULL <=> k < Len(stack)
         /\ Len(stack) \in Nat
<1>1. Len(stack) \in Nat /\ \A k \in 1..Len(stack) : stack[k].node \in DOMAIN ast
  BY DEF Frames, FrameOK, Holds, IsSequence
<1>2. NULL \notin DOMAIN ast
  BY DEF Tree, IsTree, NULL
<1> QED
  BY <1>1, <1>2 DEF Above

\* A call: the frame below keeps what it has made, the new one has nothing.
LEMMA CallKeepsFrames ==
  ASSUME Tree, Frames, Grows, stack # <<>>, NEW n, NEW L, Call(n, L),
         n \in DOMAIN ast, ast[n].type \notin {"DECLARATION", "STATEMENT"},
         Len(Top.results) <= 1, NEW nd, nd = Top.node, L \in LocalsOf(nd)',
         (Here.type = "ASSIGNMENT" /\ Len(Top.results) = 0) => ast[n].type = "VARIABLE"
  PROVE  Frames'
<1>0. PICK m : m = Len(stack)
  OBVIOUS
<1>1. m \in Nat /\ m >= 1 /\ m \in 1..m /\ IsSequence(stack) /\ \A k \in 1..m : FrameOK(k)
  BY <1>0, Emptyness DEF Frames, IsSequence
<1>2. /\ IsSequence(stack') /\ Len(stack') = m + 1
      /\ \A k \in 1..m-1 : stack'[k] = stack[k]
      /\ stack'[m] = [node |-> stack[m].node, results |-> stack[m].results, locals |-> L]
      /\ stack'[m + 1] = Frame(n)
  BY <1>0, <1>1, CallShape
<1>3. /\ \A k \in 1..m : stack[k].node \in DOMAIN ast /\ stack[k].node # NULL
      /\ \A k \in 1..m : Above(k) # NULL <=> k < m
  BY <1>0, NodesAreNodes
<1>4. n # NULL
  BY DEF Tree, IsTree, NULL
<1>5. ast' = ast
  BY DEF Grows, input
<1>6. ASSUME NEW k \in 1..m-1 PROVE FrameOK(k)'
  <2>1. k \in 1..m /\ k < m /\ k + 1 \in 1..m
    BY <1>1
  <2>2. stack'[k + 1].node = stack[k + 1].node
    BY <1>1, <1>2, <2>1
  <2>3. Above(k) = stack[k + 1].node
    BY <1>0, <2>1 DEF Above
  <2>4. Above(k)' = stack'[k + 1].node
    BY <1>1, <1>2, <2>1 DEF Above
  <2> QED
    BY <1>1, <1>2, <2>1, <2>2, <2>3, <2>4, FrameStays
<1>7. FrameOK(m)'
  <2>1. Above(m)' = n
    BY <1>1, <1>2 DEF Above, Frame
  <2>2. PICK f : f = stack'[m]
    OBVIOUS
  <2>3. f = [node |-> stack[m].node, results |-> stack[m].results, locals |-> L]
    BY <1>2, <2>2
  <2>4. f.node = stack[m].node /\ f.results = stack[m].results /\ f.locals = L
    BY <2>3
  <2>5. f = [node |-> f.node, results |-> f.results, locals |-> f.locals]
    BY <2>3
  <2>6. Holds(stack[m], Above(m), m) /\ Top = stack[m] /\ Here = ast[stack[m].node]
    BY <1>0, <1>1 DEF FrameOK, Top, Here
  <2>7. f.results \in Seq(Values')
    <3>1. PICK r : r = f.results
      OBVIOUS
    <3>2. r \in Seq(Values)
      BY <2>4, <2>6, <3>1 DEF Holds
    <3>3. r \in Seq(Values')
      BY <3>2, Wider, SubSequences
    <3> QED
      BY <3>1, <3>3
  <2>8. f.results = <<>> <=> Len(f.results) = 0
    BY <2>4, <2>6, EmptySeq, LenProperties DEF Holds
  <2>9. ast[f.node].type = "ASSIGNMENT" =>
          IF f.results = <<>> THEN ast[n].type = "VARIABLE"
          ELSE f.results[1] \in {TempOp(t) : t \in VarTemps'}
    BY <2>4, <2>6, <2>8, Wider DEF Holds
  <2>10. Len(f.results) <= 1 /\ f.locals \in LocalsOf(f.node)'
    <3>1. f.node = nd /\ f.locals = L /\ Len(f.results) <= 1
      BY <2>4, <2>6
    <3> QED
      BY <3>1
  <2>11. f.node \in DOMAIN ast /\ (m > 1 => ast[f.node].type \notin {"DECLARATION", "STATEMENT"})
        /\ (ast[f.node].type = "STATEMENT" => ast[f.node].op = "RETURN")
    BY <2>4, <2>6 DEF Holds
  <2> QED
    BY <1>4, <1>5, <2>1, <2>2, <2>5, <2>7, <2>9, <2>10, <2>11 DEF FrameOK, Holds
<1>8. FrameOK(m + 1)'
  <2>1. Above(m + 1)' = NULL
    BY <1>1, <1>2 DEF Above
  <2>2. stack'[m + 1] = [node |-> n, results |-> <<>>, locals |-> NoLocals]
    BY <1>2 DEF Frame
  <2>3. <<>> \in Seq(Values') /\ Len(<<>>) = 0
    OBVIOUS
  <2> QED
    BY <1>4, <1>5, <2>1, <2>2, <2>3 DEF FrameOK, Holds
<1>9. \A k \in 1..m+1 : k \in 1..m-1 \/ k = m \/ k = m + 1
  BY <1>1
<1> QED
  BY <1>2, <1>6, <1>7, <1>8, <1>9 DEF Frames

\* A return: the frame below has one result more, unless there is none below.
LEMMA ReturnKeepsFrames ==
  ASSUME Tree, Frames, Grows, stack # <<>>, NEW v, Return(v),
         Len(stack) = 1 \/ v \in Values',
         ast[Top.node].type = "VARIABLE" => v \in {TempOp(t) : t \in VarTemps'}
  PROVE  Frames'
<1>0. PICK m : m = Len(stack)
  OBVIOUS
<1>1. m \in Nat /\ m >= 1 /\ m \in 1..m /\ IsSequence(stack) /\ \A k \in 1..m : FrameOK(k)
  BY <1>0, Emptyness DEF Frames, IsSequence
<1>2. /\ IsSequence(stack') /\ Len(stack') = m - 1
      /\ \A k \in 1..m-2 : stack'[k] = stack[k]
      /\ m > 1 => stack'[m - 1] = [node |-> stack[m - 1].node,
                                   results |-> Append(stack[m - 1].results, v),
                                   locals |-> stack[m - 1].locals]
  BY <1>0, <1>1, ReturnShape
<1>3. /\ \A k \in 1..m : stack[k].node \in DOMAIN ast /\ stack[k].node # NULL
      /\ \A k \in 1..m : Above(k) # NULL <=> k < m
  BY <1>0, NodesAreNodes
<1>4. ast' = ast
  BY DEF Grows, input
<1>5. Top = stack[m]
  BY <1>0 DEF Top
<1>6. Len(stack) = 1 <=> m = 1
  BY <1>0
<1>7. \A k \in 1..m-1 : Above(k) = stack[k + 1].node
  BY <1>0, <1>1 DEF Above
<1>8. \A k \in 1..m-2 : Above(k)' = stack'[k + 1].node
  BY <1>1, <1>2 DEF Above
<1>9. Above(m - 1)' = NULL
  BY <1>1, <1>2 DEF Above
<1>10. ASSUME NEW k \in 1..m-2 PROVE FrameOK(k)'
  <2>1. k \in 1..m /\ k \in 1..m-1 /\ (k + 1 \in 1..m-2 \/ k + 1 = m - 1)
    BY <1>1
  <2>2. stack'[k + 1].node = stack[k + 1].node
    BY <1>1, <1>2, <2>1
  <2> QED
    BY <1>1, <1>2, <1>7, <1>8, <2>1, <2>2, FrameStays
<1>11. ASSUME m > 1 PROVE FrameOK(m - 1)'
  <2>1. m - 1 \in 1..m /\ m - 1 \in 1..m-1
    BY <1>1, <1>11
  <2>2. PICK f : f = stack'[m - 1]
    OBVIOUS
  <2> DEFINE g == stack[m - 1]
             r == g.results
  <2>3. f = [node |-> g.node, results |-> Append(r, v), locals |-> g.locals]
    BY <1>2, <1>11, <2>2
  <2>4. Holds(g, Above(m - 1), m - 1) /\ Above(m - 1) # NULL /\ Above(m - 1) = stack[m].node
    BY <1>1, <1>3, <1>7, <2>1 DEF FrameOK
  <2>5. r \in Seq(Values) /\ Len(r) <= 1
    BY <2>4 DEF Holds
  <2>6. v \in Values'
    BY <1>6, <1>11
  <2>7. r \in Seq(Values')
    <3>1. PICK q : q = r
      OBVIOUS
    <3>2. q \in Seq(Values')
      BY <2>5, <3>1, Wider, SubSequences
    <3> QED
      BY <3>1, <3>2
  <2> HIDE DEF r, g
  <2>8. /\ Append(r, v) \in Seq(Values') /\ Len(Append(r, v)) = Len(r) + 1 /\ Len(r) \in Nat
        /\ \A k \in 1..Len(r) : Append(r, v)[k] = r[k]
        /\ Append(r, v)[Len(r) + 1] = v
    BY <2>6, <2>7, AppendProperties, LenProperties
  <2>9. f.node = g.node /\ f.results = Append(r, v) /\ f.locals = g.locals
    BY <2>3
  <2>10. f = [node |-> f.node, results |-> f.results, locals |-> f.locals]
    BY <2>3
  <2>11. f.results # <<>> /\ Len(f.results) <= 2
    BY <2>5, <2>8, <2>9
  <2>12. ast[f.node].type = "ASSIGNMENT" => f.results[1] \in {TempOp(t) : t \in VarTemps'}
    <3> SUFFICES ASSUME ast[f.node].type = "ASSIGNMENT" PROVE f.results[1] \in {TempOp(t) : t \in VarTemps'}
      OBVIOUS
    <3>1. CASE r = <<>>
      <4>1. ast[stack[m].node].type = "VARIABLE"
        BY <2>4, <2>9, <3>1 DEF Holds, r
      <4>2. f.results[1] = v
        BY <2>8, <2>9, <3>1
      <4> QED
        BY <1>5, <4>1, <4>2
    <3>2. CASE r # <<>>
      <4>1. r[1] \in {TempOp(t) : t \in VarTemps}
        BY <2>4, <2>9, <3>2 DEF Holds, r
      <4>2. Len(r) >= 1
        BY <2>8, <2>5, <3>2, EmptySeq
      <4>3. f.results[1] = r[1]
        BY <2>8, <2>9, <4>2
      <4> QED
        BY <4>1, <4>3, Wider
    <3> QED
      BY <3>1, <3>2
  <2>13. f.locals \in LocalsOf(f.node)'
    <3>1. PICK n : n = f.node
      OBVIOUS
    <3>2. g.locals \in LocalsOf(n)
      BY <2>4, <2>9, <3>1 DEF Holds
    <3>3. LocalsOf(n) \subseteq LocalsOf(n)'
      BY Wider
    <3>4. LocalsOf(n)' = LocalsOf(f.node)'
      BY <3>1
    <3> QED
      BY <2>9, <3>2, <3>3, <3>4
  <2>14. f.node \in DOMAIN ast /\ (m - 1 > 1 => ast[f.node].type \notin {"DECLARATION", "STATEMENT"})
        /\ (ast[f.node].type = "STATEMENT" => ast[f.node].op = "RETURN")
    BY <2>4, <2>9 DEF Holds
  <2> QED
    BY <1>4, <1>9, <2>2, <2>8, <2>9, <2>10, <2>11, <2>12, <2>13, <2>14 DEF FrameOK, Holds
<1>12. \A k \in 1..m-1 : k \in 1..m-2 \/ (k = m - 1 /\ m > 1)
  BY <1>1
<1> QED
  BY <1>2, <1>10, <1>11, <1>12 DEF Frames

-----------------------------------------------------------------------------
(* The short circuits in progress after a call and after a return *)

LEMMA OpenLocals ==
  ASSUME Tree, Frames, NEW k, OpenAt(k)
  PROVE  /\ k \in 1..Len(stack) /\ Len(stack) \in Nat
         /\ Temp(k) \in 0..nextId-1 /\ Base(k) \in 0..nextLabel-2
         /\ stack[k].locals.temp = TempOp(Temp(k))
         /\ stack[k].locals.end = <<"end", Base(k) + 1>>
         /\ stack[k].locals.cond \in {<<"false", Base(k)>>, <<"true", Base(k)>>}
<1>1. k \in 1..Len(stack) /\ Len(stack) \in Nat
  BY DEF OpenAt, Frames, IsSequence
<1>2. Holds(stack[k], Above(k), k)
  BY <1>1 DEF Frames, FrameOK
<1>3. Above(k) # NULL <=> k < Len(stack)
  BY <1>1, NodesAreNodes
<1>4. stack[k].locals \in ShortLocals
  BY <1>2, <1>3 DEF Holds, LocalsOf, OpenAt, Started, ShortAt
<1>5. PICK t \in 0..nextId-1, l \in 0..nextLabel-2, pr \in {"false", "true"} :
        stack[k].locals = ShortLocal(t, l, pr)
  BY <1>4 DEF ShortLocals
<1>6. Temp(k) = t /\ Base(k) = l
  BY <1>5 DEF Temp, Base, TempOp, Operand, ShortLocal
<1> QED
  BY <1>1, <1>5, <1>6 DEF ShortLocal

LEMMA CallOpens ==
  ASSUME Frames, stack # <<>>, UNCHANGED input, NEW n, NEW L, Call(n, L),
         NEW m, m = Len(stack)
  PROVE  /\ \A k : (OpenAt(k) /\ k < m) => OpenAt(k)' /\ stack'[k] = stack[k]
         /\ ShortAt(m) => OpenAt(m)' /\ stack'[m].locals = L
         /\ \A k : OpenAt(k)' =>
              \/ OpenAt(k) /\ k < m /\ stack'[k] = stack[k]
              \/ k = m /\ ShortAt(m) /\ stack'[m].locals = L
<1>1. m \in Nat /\ m >= 1 /\ m \in 1..m /\ IsSequence(stack) /\ \A k \in 1..m : FrameOK(k)
  BY Emptyness DEF Frames, IsSequence
<1>2. /\ IsSequence(stack') /\ Len(stack') = m + 1
      /\ \A k \in 1..m-1 : stack'[k] = stack[k]
      /\ stack'[m] = [node |-> stack[m].node, results |-> stack[m].results, locals |-> L]
      /\ stack'[m + 1] = Frame(n)
  BY <1>1, CallShape
<1>3. DOMAIN stack = 1..m /\ DOMAIN stack' = 1..m+1 /\ ast' = ast
  BY <1>1, <1>2 DEF IsSequence, input
<1>4. ASSUME NEW k, OpenAt(k), k < m PROVE OpenAt(k)' /\ stack'[k] = stack[k]
  <2>1. k \in 1..m-1 /\ k \in 1..m+1 /\ k < m + 1
    BY <1>1, <1>3, <1>4 DEF OpenAt
  <2> QED
    BY <1>2, <1>3, <1>4, <2>1 DEF OpenAt, Started, ShortAt
<1>5. ASSUME ShortAt(m) PROVE OpenAt(m)' /\ stack'[m].locals = L
  <2>1. m \in 1..m+1 /\ m < m + 1
    BY <1>1
  <2> QED
    BY <1>2, <1>3, <1>5, <2>1 DEF OpenAt, Started, ShortAt
<1>6. ASSUME NEW k, OpenAt(k)'
      PROVE  \/ OpenAt(k) /\ k < m /\ stack'[k] = stack[k]
             \/ k = m /\ ShortAt(m) /\ stack'[m].locals = L
  <2>1. k \in 1..m+1
    BY <1>3, <1>6 DEF OpenAt
  <2>2. k # m + 1
    BY <1>1, <1>2, <1>6 DEF OpenAt, Started, Frame
  <2>3. CASE k = m
    BY <1>2, <1>3, <1>6, <2>3 DEF OpenAt, ShortAt
  <2>4. CASE k \in 1..m-1
    <3>1. k \in 1..m /\ k < m
      BY <1>1, <2>4
    <3>2. stack'[k] = stack[k]
      BY <1>2, <2>4
    <3> QED
      BY <1>3, <1>6, <3>1, <3>2 DEF OpenAt, ShortAt, Started
  <2> QED
    BY <1>1, <2>1, <2>2, <2>3, <2>4
<1> QED
  BY <1>4, <1>5, <1>6

LEMMA ReturnOpens ==
  ASSUME Frames, stack # <<>>, UNCHANGED input, NEW v, Return(v), NEW m, m = Len(stack)
  PROVE  \A k : /\ OpenAt(k)' <=> (OpenAt(k) /\ k < m)
                /\ OpenAt(k)' => stack'[k].locals = stack[k].locals
<1>1. m \in Nat /\ m >= 1 /\ m \in 1..m /\ IsSequence(stack) /\ \A k \in 1..m : FrameOK(k)
  BY Emptyness DEF Frames, IsSequence
<1>2. /\ IsSequence(stack') /\ Len(stack') = m - 1
      /\ \A k \in 1..m-2 : stack'[k] = stack[k]
      /\ m > 1 => stack'[m - 1] = [node |-> stack[m - 1].node,
                                   results |-> Append(stack[m - 1].results, v),
                                   locals |-> stack[m - 1].locals]
  BY <1>1, ReturnShape
<1>3. DOMAIN stack = 1..m /\ DOMAIN stack' = 1..m-1 /\ ast' = ast
  BY <1>1, <1>2 DEF IsSequence, input
<1>4. ASSUME NEW k, k \in 1..m-2
      PROVE  (OpenAt(k)' <=> OpenAt(k)) /\ stack'[k].locals = stack[k].locals /\ k < m
  <2>1. k \in 1..m /\ k \in 1..m-1 /\ k < m /\ k < m - 1
    BY <1>1, <1>4
  <2> QED
    BY <1>2, <1>3, <1>4, <2>1 DEF OpenAt, ShortAt, Started
<1>5. ASSUME NEW k, k = m - 1, m > 1
      PROVE  (OpenAt(k)' <=> OpenAt(k)) /\ stack'[k].locals = stack[k].locals /\ k < m
  <2>1. k \in 1..m /\ k \in 1..m-1 /\ k < m
    BY <1>1, <1>5
  <2>2. stack'[k].results # <<>>
    <3>1. PICK r : r = stack[k].results
      OBVIOUS
    <3>2. r \in Seq(Values)
      BY <1>1, <2>1, <3>1 DEF FrameOK, Holds
    <3>3. IsSequence(r)
      BY <3>2, SequenceOf
    <3>4. stack'[k].results = Append(r, v)
      BY <1>2, <1>5, <3>1
    <3> QED
      BY <3>3, <3>4, Appended, Emptyness
  <2> QED
    BY <1>2, <1>3, <1>5, <2>1, <2>2 DEF OpenAt, ShortAt, Started
<1>6. \A k : OpenAt(k)' => k \in 1..m-1
  BY <1>3 DEF OpenAt
<1>7. \A k : OpenAt(k) => k \in 1..m
  BY <1>3 DEF OpenAt
<1>8. \A k : k \in 1..m-1 => k \in 1..m-2 \/ (k = m - 1 /\ m > 1)
  BY <1>1
<1>9. \A k : k \in 1..m /\ k < m => k \in 1..m-1
  BY <1>1
<1> QED
  BY <1>4, <1>5, <1>6, <1>7, <1>8, <1>9
-----------------------------------------------------------------------------
(* What a step must do to keep Opens, Temps and Labels *)

\* The short circuit k was in progress with the same temporary and labels.
Stays(k) == OpenAt(k) /\ stack'[k].locals = stack[k].locals

LEMMA StaysSame ==
  ASSUME NEW k, Stays(k)
  PROVE  OpenAt(k) /\ Temp(k)' = Temp(k) /\ Base(k)' = Base(k)
BY DEF Stays, Temp, Base

LEMMA OpensStay ==
  ASSUME Tree, IInv, \A k : OpenAt(k)' => Stays(k), VarTemps' \subseteq VarTemps \cup {nextId}
  PROVE  Opens'
<1>1. ASSUME NEW j, NEW k, OpenAt(j)', OpenAt(k)', j < k
      PROVE  Temp(j)' < Temp(k)' /\ Base(j)' + 1 < Base(k)'
  <2>1. OpenAt(j) /\ OpenAt(k) /\ Temp(j)' = Temp(j) /\ Temp(k)' = Temp(k)
        /\ Base(j)' = Base(j) /\ Base(k)' = Base(k)
    BY <1>1, StaysSame
  <2>2. Temp(j) < Temp(k) /\ Base(j) + 1 < Base(k)
    BY <1>1, <2>1 DEF IInv, Opens
  <2> QED
    BY <2>1, <2>2
<1>2. ASSUME NEW k, OpenAt(k)' PROVE Temp(k)' \notin VarTemps'
  <2>1. OpenAt(k) /\ Temp(k)' = Temp(k)
    BY <1>2, StaysSame
  <2>2. Temp(k) \notin VarTemps
    BY <2>1 DEF IInv, Opens
  <2>3. Temp(k) \in 0..nextId-1 /\ nextId \in Nat
    BY <2>1, OpenLocals DEF IInv, Counters
  <2>4. Temp(k) # nextId
    BY <2>3
  <2> QED
    BY <2>1, <2>2, <2>4
<1> QED
  BY <1>1, <1>2 DEF Opens

\* The code grows by insts.
Emits(insts) == IsSequence(insts) /\ code' = code \o insts

LEMMA EmitsNothing ==
  ASSUME Temps, code' = code
  PROVE  Emits(<<>>)
<1>1. code = code \o <<>>
  <2>1. IsSequence(code)
    BY DEF Temps
  <2> DEFINE S == {code[k] : k \in 1..Len(code)}
  <2>2. code \in Seq(S)
    BY <2>1, Sequences
  <2> HIDE DEF S
  <2> QED
    BY <2>2, ConcatEmptySeq
<1>2. IsSequence(<<>>)
  BY DEF IsSequence
<1> QED
  BY <1>1, <1>2 DEF Emits

LEMMA Grown ==
  ASSUME Temps, NEW insts, Emits(insts)
  PROVE  /\ IsSequence(code') /\ Len(code) \in Nat /\ Len(insts) \in Nat
         /\ Len(code') = Len(code) + Len(insts)
         /\ \A p \in 1..Len(code) : p \in 1..Len(code') /\ code'[p] = code[p]
         /\ \A j \in 1..Len(insts) : Len(code) + j \in 1..Len(code') /\ code'[Len(code) + j] = insts[j]
         /\ \A p \in 1..Len(code') : \/ p \in 1..Len(code) /\ code'[p] = code[p]
                                     \/ \E j \in 1..Len(insts) : p = Len(code) + j /\ code'[p] = insts[j]
<1>1. PICK u : u = code'
  OBVIOUS
<1>2. PICK s : s = code
  OBVIOUS
<1>3. IsSequence(s) /\ IsSequence(insts) /\ u = Join(s, insts)
  BY <1>1, <1>2 DEF Emits, Temps, Join
<1>4. JoinOf(u, s, insts)
  BY <1>3, Behind
<1> QED
  BY <1>1, <1>2, <1>4 DEF JoinOf

\* An instruction names temporaries that exist; what computes has a new one, and
\* nothing is written that another computes or a short circuit in progress owns.
FitsTemps(insts, i) ==
  /\ Reads(insts[i]) \cup Writes(insts[i]) \subseteq 0..nextId'-1
  /\ insts[i].dest_id \in Nat
  /\ Computes(insts[i]) => insts[i].dest_id = nextId /\ Len(insts) = 1
  /\ \A w \in Writes(insts[i]) :
       /\ \A p \in 1..Len(code) : Computes(code[p]) => code[p].dest_id # w
       /\ \A k : OpenAt(k)' => Temp(k)' # w

LEMMA TempsGrow ==
  ASSUME Tree, IInv, Grows, NEW insts, Emits(insts), \A i \in 1..Len(insts) : FitsTemps(insts, i),
         \A k : OpenAt(k)' => Stays(k) \/ (Len(insts) = 0 /\ Temp(k)' = nextId),
         VarTemps' = VarTemps \/ (Len(insts) = 0 /\ VarTemps' \subseteq VarTemps \cup {nextId})
  PROVE  Temps'
<1>1. /\ IsSequence(code') /\ Len(code) \in Nat /\ Len(insts) \in Nat
      /\ Len(code') = Len(code) + Len(insts)
      /\ \A p \in 1..Len(code) : p \in 1..Len(code') /\ code'[p] = code[p]
      /\ \A p \in 1..Len(code') : \/ p \in 1..Len(code) /\ code'[p] = code[p]
                                  \/ \E j \in 1..Len(insts) : p = Len(code) + j /\ code'[p] = insts[j]
  BY Grown DEF IInv
<1>2. nextId \in Nat /\ nextId' \in Nat /\ nextId <= nextId' /\ \A t \in VarTemps : t \in 0..nextId-1
  BY DEF IInv, Counters, Grows, VarTemps
<1>3. ASSUME NEW p \in 1..Len(code)
      PROVE  /\ Reads(code[p]) \cup Writes(code[p]) \subseteq 0..nextId-1
             /\ code[p].dest_id \in Nat
             /\ Computes(code[p]) =>
                  /\ code[p].dest_id \notin VarTemps
                  /\ code[p].dest_id # nextId
                  /\ \A q \in 1..Len(code) : q # p => code[p].dest_id \notin Writes(code[q])
             /\ \A k : OpenAt(k) => Temp(k) \notin Writes(code[p])
             /\ nextId \notin Writes(code[p])
  <2>1. /\ Reads(code[p]) \cup Writes(code[p]) \subseteq 0..nextId-1
        /\ code[p].dest_id \in Nat
        /\ Computes(code[p]) =>
             /\ code[p].dest_id \notin VarTemps
             /\ \A q \in 1..Len(code) : q # p => code[p].dest_id \notin Writes(code[q])
        /\ \A k : OpenAt(k) => Temp(k) \notin Writes(code[p])
    BY DEF IInv, Temps
  <2>2. nextId \notin 0..nextId-1
    BY <1>2
  <2>3. Computes(code[p]) => code[p].dest_id \in Writes(code[p])
    BY DEF Writes
  <2> QED
    BY <2>1, <2>2, <2>3
<1>4. 0..nextId-1 \subseteq 0..nextId'-1
  <2> DEFINE i == nextId
             j == nextId'
  <2>1. i \in Nat /\ j \in Nat /\ i <= j
    BY <1>2
  <2> HIDE DEF i, j
  <2>2. 0..i-1 \subseteq 0..j-1
    BY <2>1
  <2> QED
    BY <2>2 DEF i, j
<1>5. ASSUME NEW p \in 1..Len(code'), NEW k, OpenAt(k)' PROVE Temp(k)' \notin Writes(code'[p])
  <2>1. CASE p \in 1..Len(code) /\ code'[p] = code[p]
    <3>1. CASE Stays(k)
      BY <1>3, <2>1, <3>1, StaysSame
    <3>2. CASE Temp(k)' = nextId
      BY <1>3, <2>1, <3>2
    <3> QED
      BY <1>5, <3>1, <3>2
  <2>2. CASE \E j \in 1..Len(insts) : p = Len(code) + j /\ code'[p] = insts[j]
    BY <1>5, <2>2 DEF FitsTemps
  <2> QED
    BY <1>1, <2>1, <2>2
<1>6. ASSUME NEW p \in 1..Len(code')
      PROVE  /\ Reads(code'[p]) \cup Writes(code'[p]) \subseteq 0..nextId'-1
             /\ code'[p].dest_id \in Nat
  <2>1. CASE p \in 1..Len(code) /\ code'[p] = code[p]
    BY <1>3, <1>4, <2>1
  <2>2. CASE \E j \in 1..Len(insts) : p = Len(code) + j /\ code'[p] = insts[j]
    BY <2>2 DEF FitsTemps
  <2> QED
    BY <1>1, <2>1, <2>2
<1>7. ASSUME NEW p \in 1..Len(code'), Computes(code'[p])
      PROVE  /\ code'[p].dest_id \notin VarTemps'
             /\ \A q \in 1..Len(code') : q # p => code'[p].dest_id \notin Writes(code'[q])
  <2>1. CASE p \in 1..Len(code) /\ code'[p] = code[p]
    <3>1. code[p].dest_id \notin VarTemps'
      BY <1>3, <1>7, <2>1
    <3>2. ASSUME NEW q \in 1..Len(code'), q # p PROVE code[p].dest_id \notin Writes(code'[q])
      <4>1. CASE q \in 1..Len(code) /\ code'[q] = code[q]
        BY <1>3, <1>7, <2>1, <3>2, <4>1
      <4>2. CASE \E j \in 1..Len(insts) : q = Len(code) + j /\ code'[q] = insts[j]
        BY <1>7, <2>1, <4>2 DEF FitsTemps
      <4> QED
        BY <1>1, <4>1, <4>2
    <3> QED
      BY <2>1, <3>1, <3>2
  <2>2. CASE \E j \in 1..Len(insts) : p = Len(code) + j /\ code'[p] = insts[j]
    <3>1. PICK j \in 1..Len(insts) : p = Len(code) + j /\ code'[p] = insts[j]
      BY <2>2
    <3>2. code'[p].dest_id = nextId /\ Len(insts) = 1
      BY <1>7, <3>1 DEF FitsTemps
    <3>3. nextId \notin VarTemps'
      BY <1>2, <3>2
    <3>4. ASSUME NEW q \in 1..Len(code'), q # p PROVE nextId \notin Writes(code'[q])
      <4>1. q \in 1..Len(code) /\ code'[q] = code[q]
        BY <1>1, <3>1, <3>2, <3>4
      <4> QED
        BY <1>3, <4>1
    <3> QED
      BY <3>2, <3>3, <3>4
  <2> QED
    BY <1>1, <2>1, <2>2
<1> QED
  BY <1>1, <1>5, <1>6, <1>7 DEF Temps

\* A label is defined once, not while its short circuit is in progress, and is
\* no older one; a jump goes on or to a label that is pending.
FitsLabels(insts, i) ==
  /\ \A l \in Defines(insts[i]) :
       /\ l[2] \in 0..nextLabel'-1
       /\ \A k : OpenAt(k)' => l[2] # Base(k)' /\ l[2] # Base(k)' + 1
       /\ \A p \in 1..Len(code) : l \notin Defines(code[p])
       /\ \A j \in 1..Len(insts) : l \in Defines(insts[j]) => j = i
  /\ \A l \in Target(insts[i]) :
       \/ \E k : PendingAt(k, l)'
       \/ \E j \in 1..Len(insts) : j > i /\ Defines(insts[j]) = {l}

LEMMA LabelsGrow ==
  ASSUME Tree, IInv, Grows, NEW insts, Emits(insts), \A i \in 1..Len(insts) : FitsLabels(insts, i),
         \A k : OpenAt(k)' => Stays(k) \/ Base(k)' = nextLabel,
         \A k, l : PendingAt(k, l) =>
            PendingAt(k, l)' \/ \E j \in 1..Len(insts) : Defines(insts[j]) = {l}
  PROVE  Labels'
<1>1. /\ IsSequence(code') /\ Len(code) \in Nat /\ Len(insts) \in Nat
      /\ Len(code') = Len(code) + Len(insts)
      /\ \A p \in 1..Len(code) : p \in 1..Len(code') /\ code'[p] = code[p]
      /\ \A j \in 1..Len(insts) : Len(code) + j \in 1..Len(code') /\ code'[Len(code) + j] = insts[j]
      /\ \A p \in 1..Len(code') : \/ p \in 1..Len(code) /\ code'[p] = code[p]
                                  \/ \E j \in 1..Len(insts) : p = Len(code) + j /\ code'[p] = insts[j]
  BY Grown DEF IInv
<1>2. nextLabel \in Nat /\ nextLabel' \in Nat /\ nextLabel <= nextLabel'
  BY DEF Grows
<1>3. ASSUME NEW p \in 1..Len(code'), NEW l \in Defines(code'[p])
      PROVE  /\ l[2] \in 0..nextLabel'-1
             /\ \A k : OpenAt(k)' => l[2] # Base(k)' /\ l[2] # Base(k)' + 1
             /\ \A q \in 1..Len(code') : l \in Defines(code'[q]) => q = p
  <2>1. CASE p \in 1..Len(code) /\ code'[p] = code[p]
    <3>1. /\ l[2] \in 0..nextLabel-1
          /\ \A k : OpenAt(k) => l[2] # Base(k) /\ l[2] # Base(k) + 1
          /\ \A q \in 1..Len(code) : l \in Defines(code[q]) => q = p
      BY <1>3, <2>1 DEF IInv, Labels
    <3>2. l[2] \in 0..nextLabel'-1
      BY <1>2, <3>1
    <3>3. ASSUME NEW k, OpenAt(k)' PROVE l[2] # Base(k)' /\ l[2] # Base(k)' + 1
      <4>1. CASE Stays(k)
        BY <3>1, <4>1, StaysSame
      <4>2. CASE Base(k)' = nextLabel
        BY <1>2, <3>1, <4>2
      <4> QED
        BY <3>3, <4>1, <4>2
    <3>4. ASSUME NEW q \in 1..Len(code'), l \in Defines(code'[q]) PROVE q = p
      <4>1. CASE q \in 1..Len(code) /\ code'[q] = code[q]
        BY <3>1, <3>4, <4>1
      <4>2. CASE \E j \in 1..Len(insts) : q = Len(code) + j /\ code'[q] = insts[j]
        BY <1>3, <2>1, <3>4, <4>2 DEF FitsLabels
      <4> QED
        BY <1>1, <4>1, <4>2
    <3> QED
      BY <3>2, <3>3, <3>4
  <2>2. CASE \E j \in 1..Len(insts) : p = Len(code) + j /\ code'[p] = insts[j]
    <3>1. PICK j \in 1..Len(insts) : p = Len(code) + j /\ code'[p] = insts[j]
      BY <2>2
    <3>2. /\ l[2] \in 0..nextLabel'-1
          /\ \A k : OpenAt(k)' => l[2] # Base(k)' /\ l[2] # Base(k)' + 1
          /\ \A q \in 1..Len(code) : l \notin Defines(code[q])
          /\ \A i \in 1..Len(insts) : l \in Defines(insts[i]) => i = j
      BY <1>3, <3>1 DEF FitsLabels
    <3>3. ASSUME NEW q \in 1..Len(code'), l \in Defines(code'[q]) PROVE q = p
      <4>1. CASE q \in 1..Len(code) /\ code'[q] = code[q]
        BY <3>2, <3>3, <4>1
      <4>2. CASE \E i \in 1..Len(insts) : q = Len(code) + i /\ code'[q] = insts[i]
        BY <3>1, <3>2, <3>3, <4>2
      <4> QED
        BY <1>1, <4>1, <4>2
    <3> QED
      BY <3>2, <3>3
  <2> QED
    BY <1>1, <2>1, <2>2
<1>4. ASSUME NEW p \in 1..Len(code'), NEW l \in Target(code'[p])
      PROVE  \/ \E k : PendingAt(k, l)'
             \/ \E q \in 1..Len(code') : q > p /\ Defines(code'[q]) = {l}
  <2>1. CASE p \in 1..Len(code) /\ code'[p] = code[p]
    <3>1. CASE \E k : PendingAt(k, l)
      <4>1. CASE \E k : PendingAt(k, l)'
        BY <4>1
      <4>2. CASE \E j \in 1..Len(insts) : Defines(insts[j]) = {l}
        <5>1. PICK j \in 1..Len(insts) : Defines(insts[j]) = {l}
          BY <4>2
        <5>2. Len(code) + j \in 1..Len(code') /\ Len(code) + j > p /\ Defines(code'[Len(code) + j]) = {l}
          BY <1>1, <2>1, <5>1
        <5> QED
          BY <5>2
      <4> QED
        BY <3>1, <4>1, <4>2
    <3>2. CASE \E q \in 1..Len(code) : q > p /\ Defines(code[q]) = {l}
      BY <1>1, <3>2
    <3> QED
      BY <1>4, <2>1, <3>1, <3>2 DEF IInv, Labels
  <2>2. CASE \E j \in 1..Len(insts) : p = Len(code) + j /\ code'[p] = insts[j]
    <3>1. PICK i \in 1..Len(insts) : p = Len(code) + i /\ code'[p] = insts[i]
      BY <2>2
    <3>2. CASE \E k : PendingAt(k, l)'
      BY <3>2
    <3>3. CASE \E j \in 1..Len(insts) : j > i /\ Defines(insts[j]) = {l}
      <4>1. PICK j \in 1..Len(insts) : j > i /\ Defines(insts[j]) = {l}
        BY <3>3
      <4>2. Len(code) + j \in 1..Len(code') /\ Len(code) + j > p /\ Defines(code'[Len(code) + j]) = {l}
        BY <1>1, <3>1, <4>1
      <4> QED
        BY <4>2
    <3> QED
      BY <1>4, <3>1, <3>2, <3>3 DEF FitsLabels
  <2> QED
    BY <1>1, <2>1, <2>2
<1> QED
  BY <1>3, <1>4 DEF Labels

-----------------------------------------------------------------------------
(* What each instruction reads, writes, defines and jumps to *)

TempsOf(op) == IF op.type = "TEMP" THEN {op.value} ELSE {}

Does(inst, reads, writes, defines, targets) ==
  /\ Reads(inst) = reads /\ Writes(inst) = writes
  /\ Defines(inst) = defines /\ Target(inst) = targets
  /\ inst.dest_id \in Nat

LEMMA ReadsBoth ==
  ASSUME NEW i, i.type # "COPY"
  PROVE  Reads(i) = TempsOf(i.src1) \cup TempsOf(i.src2)
<1> DEFINE a == i.src1
           b == i.src2
<1>1. Reads(i) = {op.value : op \in {o \in {a, b} : o.type = "TEMP"}}
  BY DEF Reads
<1> HIDE DEF a, b
<1>2. {op.value : op \in {o \in {a, b} : o.type = "TEMP"}} = TempsOf(a) \cup TempsOf(b)
  BY DEF TempsOf
<1> QED
  BY <1>1, <1>2 DEF a, b

LEMMA SameTemps == ASSUME NEW a PROVE TempsOf(ValueOf(a)) = TempsOf(a)
BY DEF TempsOf, ValueOf, Operand

LEMMA TwoReads ==
  ASSUME NEW type, NEW d, NEW a, NEW b, type # "COPY"
  PROVE  Reads(Instruction(type, d, ValueOf(a), ValueOf(b))) = TempsOf(a) \cup TempsOf(b)
<1> DEFINE i == Instruction(type, d, ValueOf(a), ValueOf(b))
<1>1. i.type # "COPY" /\ i.src1 = ValueOf(a) /\ i.src2 = ValueOf(b)
  BY DEF Instruction
<1> HIDE DEF i
<1>2. Reads(i) = TempsOf(a) \cup TempsOf(b)
  BY <1>1, ReadsBoth, SameTemps
<1> QED
  BY <1>2 DEF i

LEMMA OneRead ==
  ASSUME NEW type, NEW d, NEW a, NEW b, type # "COPY", b.type # "TEMP"
  PROVE  /\ Reads(Instruction(type, d, ValueOf(a), b)) = TempsOf(a)
         /\ Reads(Instruction(type, d, b, NullOp)) = {}
<1> DEFINE i == Instruction(type, d, ValueOf(a), b)
           j == Instruction(type, d, b, NullOp)
<1>1. /\ i.type # "COPY" /\ i.src1 = ValueOf(a) /\ i.src2 = b
      /\ j.type # "COPY" /\ j.src1 = b /\ j.src2 = NullOp
  BY DEF Instruction
<1>2. TempsOf(b) = {} /\ TempsOf(NullOp) = {}
  BY DEF TempsOf, NullOp, Operand
<1> HIDE DEF i, j
<1>3. Reads(i) = TempsOf(a) /\ Reads(j) = {}
  BY <1>1, <1>2, ReadsBoth, SameTemps
<1> QED
  BY <1>3 DEF i, j

LEMMA Plain ==
  ASSUME NEW type, NEW d, NEW a, NEW b,
         type \notin {"LABEL", "JUMP", "JUMP_ZERO", "JUMP_NOT_ZERO"}
  PROVE  LET i == Instruction(type, d, a, b)
         IN Target(i) = {} /\ Defines(i) = {} /\ i.dest_id = d /\ i.type = type /\ i.src1 = a /\ i.src2 = b
<1> DEFINE i == Instruction(type, d, a, b)
<1>1. i.dest_id = d /\ i.type = type /\ i.src1 = a /\ i.src2 = b
  BY DEF Instruction
<1> HIDE DEF i
<1>2. Target(i) = {}
  BY <1>1, Zenon DEF Target
<1>3. Defines(i) = {}
  BY <1>1 DEF Defines
<1> QED
  BY <1>1, <1>2, <1>3 DEF i

LEMMA Computing ==
  ASSUME NEW type \in ComputeTypes, NEW d \in Nat, NEW a, NEW b
  PROVE  /\ Does(ir_instruction_unary(type, d, a), TempsOf(a), {d}, {}, {})
         /\ Does(ir_instruction_binary(type, d, a, b), TempsOf(a) \cup TempsOf(b), {d}, {}, {})
         /\ ir_instruction_unary(type, d, a).dest_id = d /\ ir_instruction_binary(type, d, a, b).dest_id = d
<1>1. type \notin {"LABEL", "JUMP", "JUMP_ZERO", "JUMP_NOT_ZERO", "COPY"}
  BY DEF ComputeTypes
<1>2. ASSUME NEW c, NEW e
      PROVE  LET i == Instruction(type, d, c, e)
             IN Target(i) = {} /\ Defines(i) = {} /\ Writes(i) = {d} /\ i.dest_id = d
  <2> DEFINE i == Instruction(type, d, c, e)
  <2>1. Target(i) = {} /\ Defines(i) = {} /\ i.dest_id = d /\ i.type = type
    BY <1>1, Plain
  <2> HIDE DEF i
  <2>2. Writes(i) = {d}
    BY <2>1 DEF Writes, Computes
  <2> QED
    BY <2>1, <2>2 DEF i
<1>3. Reads(Instruction(type, d, ValueOf(a), ValueOf(b))) = TempsOf(a) \cup TempsOf(b)
  BY <1>1, TwoReads
<1>4. Reads(Instruction(type, d, ValueOf(a), NullOp)) = TempsOf(a)
  <2>1. NullOp.type # "TEMP"
    BY DEF NullOp, Operand
  <2> QED
    BY <1>1, <2>1, OneRead
<1> QED
  BY <1>2, <1>3, <1>4 DEF Does, ir_instruction_unary, ir_instruction_binary

LEMMA Copying ==
  ASSUME NEW a, NEW b
  PROVE  /\ Does(ir_instruction_copy(a, b), TempsOf(b), {a.value}, {}, {})
         /\ ~Computes(ir_instruction_copy(a, b))
<1> DEFINE i == ir_instruction_copy(a, b)
<1>1. Target(i) = {} /\ Defines(i) = {} /\ i.dest_id = 0 /\ i.type = "COPY"
      /\ i.src1 = TempOp(a.value) /\ i.src2 = ValueOf(b)
  BY Plain DEF ir_instruction_copy
<1> HIDE DEF i
<1>2. ~Computes(i) /\ Writes(i) = {a.value}
  BY <1>1 DEF Writes, Computes, ComputeTypes, TempOp, Operand
<1>3. Reads(i) = TempsOf(b)
  BY <1>1 DEF Reads, TempsOf, ValueOf, Operand
<1> QED
  BY <1>1, <1>2, <1>3 DEF Does, i

LEMMA Returning ==
  ASSUME NEW a
  PROVE  /\ Does(ir_instruction_return(a), TempsOf(a), {}, {}, {})
         /\ ~Computes(ir_instruction_return(a))
<1> DEFINE i == ir_instruction_return(a)
<1>1. Target(i) = {} /\ Defines(i) = {} /\ i.dest_id = 0 /\ i.type = "RETURN"
  BY Plain DEF ir_instruction_return
<1>2. Reads(i) = TempsOf(a)
  <2>1. NullOp.type # "TEMP"
    BY DEF NullOp, Operand
  <2> QED
    BY <2>1, OneRead DEF ir_instruction_return
<1> HIDE DEF i
<1>3. ~Computes(i) /\ Writes(i) = {}
  BY <1>1 DEF Writes, Computes, ComputeTypes
<1> QED
  BY <1>1, <1>2, <1>3 DEF Does, i

LEMMA Labelling ==
  ASSUME NEW l
  PROVE  /\ Does(ir_instruction_label(l), {}, {}, {l}, {}) /\ ~Computes(ir_instruction_label(l))
         /\ Does(ir_instruction_branch_always(l), {}, {}, {}, {l})
         /\ ~Computes(ir_instruction_branch_always(l))
<1>1. LabelOp(l).type # "TEMP" /\ LabelOp(l).label = l /\ NullOp.type # "TEMP"
  BY DEF LabelOp, NullOp, Operand
<1>2. Reads(ir_instruction_label(l)) = {} /\ Reads(ir_instruction_branch_always(l)) = {}
  BY <1>1, OneRead DEF ir_instruction_label, ir_instruction_branch_always
<1>3. ASSUME NEW type \in {"LABEL", "JUMP"}
      PROVE  LET i == Instruction(type, 0, LabelOp(l), NullOp)
             IN ~Computes(i) /\ Writes(i) = {} /\ i.dest_id = 0 /\ i.type = type /\ i.src1.label = l
  BY <1>1 DEF Instruction, Computes, Writes, ComputeTypes
<1>4. LET i == ir_instruction_label(l)
      IN /\ ~Computes(i) /\ Writes(i) = {} /\ i.dest_id \in Nat
         /\ Defines(i) = {l} /\ Target(i) = {}
  <2> DEFINE i == ir_instruction_label(l)
  <2>1. ~Computes(i) /\ Writes(i) = {} /\ i.dest_id = 0 /\ i.type = "LABEL" /\ i.src1.label = l
    BY <1>3 DEF ir_instruction_label
  <2> HIDE DEF i
  <2>2. Target(i) = {}
    BY <2>1, Zenon DEF Target
  <2> QED
    BY <2>1, <2>2 DEF Defines, i
<1>5. LET i == ir_instruction_branch_always(l)
      IN /\ ~Computes(i) /\ Writes(i) = {} /\ i.dest_id \in Nat
         /\ Defines(i) = {} /\ Target(i) = {l}
  <2> DEFINE i == ir_instruction_branch_always(l)
  <2>1. ~Computes(i) /\ Writes(i) = {} /\ i.dest_id = 0 /\ i.type = "JUMP" /\ i.src1.label = l
    BY <1>3 DEF ir_instruction_branch_always
  <2> HIDE DEF i
  <2>2. Target(i) = {l}
    BY <2>1, Zenon DEF Target
  <2> QED
    BY <2>1, <2>2 DEF Defines, i
<1> QED
  BY <1>2, <1>4, <1>5 DEF Does

LEMMA Branching ==
  ASSUME NEW type \in {"JUMP_ZERO", "JUMP_NOT_ZERO"}, NEW a, NEW l
  PROVE  /\ Does(ir_instruction_branch_condition(type, a, l), TempsOf(a), {}, {}, {l})
         /\ ~Computes(ir_instruction_branch_condition(type, a, l))
<1> DEFINE i == ir_instruction_branch_condition(type, a, l)
<1>1. LabelOp(l).type # "TEMP" /\ LabelOp(l).label = l
  BY DEF LabelOp, Operand
<1>2. Reads(i) = TempsOf(a)
  BY <1>1, OneRead DEF ir_instruction_branch_condition
<1>3. ~Computes(i) /\ Writes(i) = {} /\ i.dest_id = 0 /\ i.type = type /\ i.src2.label = l
  BY <1>1 DEF ir_instruction_branch_condition, Instruction, Computes, Writes, ComputeTypes
<1> HIDE DEF i
<1>4. Defines(i) = {}
  BY <1>3 DEF Defines
<1>5. Target(i) = {l}
  <2>1. i.type # "JUMP" /\ i.type \in {"JUMP_ZERO", "JUMP_NOT_ZERO"} /\ {i.src2.label} = {l}
    BY <1>3
  <2> QED
    BY <2>1, Zenon DEF Target
<1> QED
  BY <1>2, <1>3, <1>4, <1>5 DEF Does, i
-----------------------------------------------------------------------------
(* The frame on top *)

LEMMA OnTop ==
  ASSUME Tree, IInv, stack # <<>>, NEW m, m = Len(stack)
  PROVE  /\ m \in Nat /\ m >= 1 /\ m \in 1..m /\ Top = stack[m] /\ Here = ast[Top.node]
         /\ Holds(Top, NULL, m)
         /\ OpenAt(m) <=> (ShortAt(m) /\ Top.results # <<>>)
         /\ \A k : OpenAt(k) => k \in 1..m
         /\ Top.node \in DOMAIN ast /\ Top.node \in 1..Len(ast) /\ IsNode(Here)
         /\ ShortAt(m) <=> (Here.type = "BINARY" /\ Here.op \in ShortOps)
<1>1. m \in Nat /\ m >= 1 /\ m \in 1..m /\ IsSequence(stack) /\ FrameOK(m) /\ DOMAIN stack = 1..m
  BY Emptyness DEF IInv, Frames, IsSequence
<1>2. Top = stack[m] /\ Here = ast[Top.node] /\ Above(m) = NULL
  BY <1>1 DEF Top, Here, Above
<1>3. Holds(Top, NULL, m)
  BY <1>1, <1>2 DEF FrameOK
<1>4. Top.node \in DOMAIN ast /\ DOMAIN ast = 1..Len(ast) /\ \A n \in 1..Len(ast) : IsNode(ast[n])
  BY <1>3 DEF Holds, Tree, IsTree
<1>5. OpenAt(m) <=> (ShortAt(m) /\ Top.results # <<>>)
  BY <1>1, <1>2 DEF OpenAt, Started
<1> QED
  BY <1>1, <1>2, <1>3, <1>4, <1>5 DEF OpenAt, ShortAt

LEMMA TopResults ==
  ASSUME Tree, IInv, stack # <<>>, NEW k \in Nat, Len(Top.results) = k
  PROVE  /\ k = 0 <=> Top.results = <<>>
         /\ \A j \in 1..k : Top.results[j] \in Values /\ TempsOf(Top.results[j]) \subseteq 0..nextId-1
         /\ k > 0 => Top.locals \in LocalsOf(Top.node)
         /\ (k > 0 /\ Here.type = "ASSIGNMENT") => Top.results[1] \in {TempOp(t) : t \in VarTemps}
<1>1. PICK m : m = Len(stack)
  OBVIOUS
<1>2. Holds(Top, NULL, m) /\ Here = ast[Top.node]
  BY <1>1, OnTop
<1>3. Top.results \in Seq(Values)
  BY <1>2 DEF Holds
<1>4. IsSequence(Top.results) /\ \A j \in 1..k : Top.results[j] \in Values
  BY <1>3, SequenceOf
<1>5. k = 0 <=> Top.results = <<>>
  BY <1>4, Emptyness
<1>6. ASSUME NEW v \in Values PROVE TempsOf(v) \subseteq 0..nextId-1
  BY DEF Values, TempsOf, TempOp, ConstOp, Operand
<1> QED
  BY <1>2, <1>4, <1>5, <1>6 DEF Holds

LEMMA Children ==
  ASSUME Tree, NEW n \in DOMAIN ast, NEW c \in Kids(ast[n])
  PROVE  c \in DOMAIN ast /\ ast[c].type \notin {"DECLARATION", "STATEMENT"}
<1>1. n \in 1..Len(ast) /\ DOMAIN ast = 1..Len(ast) /\ Len(ast) \in Nat
  BY DEF Tree, IsTree
<1>2. ast[n].left \in 0..n-1 /\ ast[n].right \in 0..n-1 /\ ast[c].type \notin {"DECLARATION", "STATEMENT"}
  BY <1>1 DEF Tree, IsTree
<1>3. c # 0 /\ c \in 0..n-1
  BY <1>2 DEF Kids, NULL
<1> QED
  BY <1>1, <1>2, <1>3

\* A temporary that is new, and one that belongs to a variable: no instruction
\* computes into it and no short circuit in progress owns it.
Free(w) == /\ \A p \in 1..Len(code) : Computes(code[p]) => code[p].dest_id # w
           /\ \A k : OpenAt(k) => Temp(k) # w

LEMMA FreeTemps ==
  ASSUME Tree, IInv
  PROVE  Free(nextId) /\ \A w \in VarTemps : Free(w) /\ w \in 0..nextId-1
<1>1. nextId \in Nat /\ \A w \in VarTemps : w \in 0..nextId-1
  BY DEF IInv, Counters, VarTemps
<1>2. nextId \notin 0..nextId-1
  BY <1>1
<1>3. ASSUME NEW p \in 1..Len(code), Computes(code[p])
      PROVE  code[p].dest_id # nextId /\ code[p].dest_id \notin VarTemps
  <2>1. code[p].dest_id \in Writes(code[p]) /\ Writes(code[p]) \subseteq 0..nextId-1
    BY <1>3 DEF Writes, IInv, Temps
  <2> QED
    BY <1>2, <1>3, <2>1 DEF IInv, Temps
<1>4. ASSUME NEW k, OpenAt(k) PROVE Temp(k) # nextId /\ Temp(k) \notin VarTemps
  BY <1>2, <1>4, OpenLocals DEF IInv, Opens
<1> QED
  BY <1>1, <1>3, <1>4 DEF Free

-----------------------------------------------------------------------------
(* Steps *)

LEMMA CountersGrow ==
  ASSUME IInv, UNCHANGED <<input, loop, varTemp>>, status' \in {"running", "done", "aborted"},
         nextId' \in {nextId, nextId + 1}, nextLabel' \in {nextLabel, nextLabel + 2}
  PROVE  Counters' /\ Grows /\ VarTemps' = VarTemps
<1>1. nextId \in Nat /\ nextLabel \in Nat
  BY DEF IInv, Counters
<1>2. nextId' \in Nat /\ nextId <= nextId' /\ nextLabel' \in Nat /\ nextLabel <= nextLabel'
  BY <1>1
<1>3. varTemp' = varTemp /\ ast' = ast /\ body' = body /\ item' = item /\ hadReturn' = hadReturn
  BY DEF input, loop
<1>4. 0..nextId-1 \subseteq 0..nextId'-1
  <2> DEFINE i == nextId
             j == nextId'
  <2>1. i \in Nat /\ j \in Nat /\ i <= j
    BY <1>1, <1>2
  <2> HIDE DEF i, j
  <2>2. 0..i-1 \subseteq 0..j-1
    BY <2>1
  <2> QED
    BY <2>2 DEF i, j
<1>5. VarTemps' = VarTemps
  BY <1>3 DEF VarTemps
<1>6. Grows
  BY <1>1, <1>2, <1>3, <1>5 DEF Grows, input
<1>7. Names' = Names
  BY <1>3 DEF Names
<1> QED
  BY <1>2, <1>3, <1>4, <1>5, <1>6, <1>7 DEF IInv, Counters

LEMMA StepKeeps ==
  ASSUME Tree, IInv, Grows, Counters', Frames', NEW insts, Emits(insts),
         \A i \in 1..Len(insts) : FitsTemps(insts, i) /\ FitsLabels(insts, i),
         \A k : OpenAt(k)' => Stays(k),
         VarTemps' = VarTemps \/ (Len(insts) = 0 /\ VarTemps' \subseteq VarTemps \cup {nextId}),
         \A k, l : PendingAt(k, l) =>
            PendingAt(k, l)' \/ \E j \in 1..Len(insts) : Defines(insts[j]) = {l}
  PROVE  IInv'
<1>1. Opens'
  BY OpensStay
<1>2. Temps'
  BY TempsGrow
<1>3. Labels'
  BY LabelsGrow
<1> QED
  BY <1>1, <1>2, <1>3 DEF IInv

LEMMA ReturnKeeps ==
  ASSUME Tree, IInv, stack # <<>>, Grows, Counters', NEW v, Return(v),
         Len(stack) = 1 \/ v \in Values',
         Here.type = "VARIABLE" => v \in {TempOp(t) : t \in VarTemps'},
         NEW insts, Emits(insts),
         \A i \in 1..Len(insts) : FitsTemps(insts, i) /\ FitsLabels(insts, i),
         VarTemps' = VarTemps \/ (Len(insts) = 0 /\ VarTemps' \subseteq VarTemps \cup {nextId}),
         NEW m, m = Len(stack),
         OpenAt(m) => \A l \in {stack[m].locals.cond, stack[m].locals.end} :
                        \E j \in 1..Len(insts) : Defines(insts[j]) = {l}
  PROVE  IInv'
<1>1. Frames'
  BY ReturnKeepsFrames DEF IInv, Here
<1>2. \A k : /\ OpenAt(k)' <=> (OpenAt(k) /\ k < m)
             /\ OpenAt(k)' => stack'[k].locals = stack[k].locals
  BY ReturnOpens DEF IInv, Grows
<1>3. \A k : OpenAt(k)' => Stays(k)
  BY <1>2 DEF Stays
<1>4. ASSUME NEW k, NEW l, PendingAt(k, l)
      PROVE  PendingAt(k, l)' \/ \E j \in 1..Len(insts) : Defines(insts[j]) = {l}
  <2>1. OpenAt(k) /\ l \in {stack[k].locals.cond, stack[k].locals.end}
    BY <1>4 DEF PendingAt
  <2>2. k < m \/ k = m
    BY <2>1, OnTop
  <2>3. CASE k < m
    BY <1>2, <2>1, <2>3 DEF PendingAt
  <2>4. CASE k = m
    BY <2>1, <2>4
  <2> QED
    BY <2>2, <2>3, <2>4
<1> QED
  BY <1>1, <1>3, <1>4, StepKeeps

LEMMA CallKeeps ==
  ASSUME Tree, IInv, stack # <<>>, Grows, Counters', NEW n \in Kids(Here), NEW L, Call(n, L),
         Len(Top.results) <= 1, NEW nd, nd = Top.node, L \in LocalsOf(nd)',
         (Here.type = "ASSIGNMENT" /\ Len(Top.results) = 0) => ast[n].type = "VARIABLE",
         NEW insts, Emits(insts),
         \A i \in 1..Len(insts) : FitsTemps(insts, i) /\ FitsLabels(insts, i),
         VarTemps' = VarTemps \/ (Len(insts) = 0 /\ VarTemps' \subseteq VarTemps \cup {nextId}),
         NEW m, m = Len(stack), ShortAt(m) => OpenAt(m) /\ L = stack[m].locals
  PROVE  IInv'
<1>1. Frames'
  <2>1. n \in DOMAIN ast /\ ast[n].type \notin {"DECLARATION", "STATEMENT"}
    BY Children, OnTop
  <2> QED
    BY <2>1, CallKeepsFrames DEF IInv
<1>2. /\ \A k : (OpenAt(k) /\ k < m) => OpenAt(k)' /\ stack'[k] = stack[k]
      /\ ShortAt(m) => OpenAt(m)' /\ stack'[m].locals = L
      /\ \A k : OpenAt(k)' =>
           \/ OpenAt(k) /\ k < m /\ stack'[k] = stack[k]
           \/ k = m /\ ShortAt(m) /\ stack'[m].locals = L
  BY CallOpens DEF IInv, Grows
<1>3. \A k : OpenAt(k)' => Stays(k)
  BY <1>2 DEF Stays
<1>4. ASSUME NEW k, NEW l, PendingAt(k, l) PROVE PendingAt(k, l)'
  <2>1. OpenAt(k) /\ l \in {stack[k].locals.cond, stack[k].locals.end}
    BY <1>4 DEF PendingAt
  <2>2. k < m \/ k = m
    BY <2>1, OnTop
  <2>3. CASE k < m
    BY <1>2, <2>1, <2>3 DEF PendingAt
  <2>4. CASE k = m
    BY <1>2, <2>1, <2>4 DEF PendingAt, OpenAt
  <2> QED
    BY <2>2, <2>3, <2>4
<1> QED
  BY <1>1, <1>3, <1>4, StepKeeps
-----------------------------------------------------------------------------
(* Actions that return, and emit one instruction or none *)

LEMMA Remains ==
  ASSUME Tree, IInv, stack # <<>>, UNCHANGED input, NEW v, Return(v)
  PROVE  \A k : OpenAt(k)' => Stays(k) /\ k < Len(stack)
<1>1. PICK m : m = Len(stack)
  OBVIOUS
<1>2. \A k : /\ OpenAt(k)' <=> (OpenAt(k) /\ k < m)
             /\ OpenAt(k)' => stack'[k].locals = stack[k].locals
  BY <1>1, ReturnOpens DEF IInv
<1> QED
  BY <1>1, <1>2 DEF Stays

LEMMA FitsOne ==
  ASSUME Tree, IInv, Grows, NEW inst, NEW reads, NEW writes, Does(inst, reads, writes, {}, {}),
         reads \subseteq 0..nextId-1, \A w \in writes : Free(w) /\ w \in 0..nextId'-1,
         Computes(inst) => inst.dest_id = nextId,
         \A k : OpenAt(k)' => Stays(k), Emit(<<inst>>)
  PROVE  /\ Emits(<<inst>>) /\ Len(<<inst>>) = 1
         /\ \A i \in 1..Len(<<inst>>) : FitsTemps(<<inst>>, i) /\ FitsLabels(<<inst>>, i)
<1> DEFINE insts == <<inst>>
<1>1. IsSequence(insts) /\ Len(insts) = 1 /\ insts[1] = inst
  BY DEF IsSequence
<1>2. Emits(insts)
  BY <1>1 DEF Emit, Emits
<1> HIDE DEF insts
<1>3. 0..nextId-1 \subseteq 0..nextId'-1
  <2> DEFINE i == nextId
             j == nextId'
  <2>1. i \in Nat /\ j \in Nat /\ i <= j
    BY DEF Grows
  <2> HIDE DEF i, j
  <2>2. 0..i-1 \subseteq 0..j-1
    BY <2>1
  <2> QED
    BY <2>2 DEF i, j
<1>4. FitsTemps(insts, 1)
  <2>1. Reads(inst) \cup Writes(inst) \subseteq 0..nextId'-1 /\ inst.dest_id \in Nat
    BY <1>3 DEF Does
  <2>2. ASSUME NEW w \in Writes(inst)
        PROVE  /\ \A p \in 1..Len(code) : Computes(code[p]) => code[p].dest_id # w
               /\ \A k : OpenAt(k)' => Temp(k)' # w
    BY <2>2, StaysSame DEF Does, Free
  <2> QED
    BY <1>1, <2>1, <2>2 DEF FitsTemps
<1>5. FitsLabels(insts, 1)
  BY <1>1 DEF FitsLabels, Does
<1> QED
  BY <1>1, <1>2, <1>4, <1>5 DEF insts

LEMMA FitsNone == Len(<<>>) = 0 /\ \A i \in 1..Len(<<>>) : FitsTemps(<<>>, i) /\ FitsLabels(<<>>, i)
OBVIOUS

LEMMA NewValue ==
  ASSUME nextId \in Nat, nextId' = nextId + 1
  PROVE  TempOp(nextId) \in Values' /\ nextId \in 0..nextId'-1 /\ nextId' \in {nextId, nextId + 1}
<1>1. nextId \in 0..nextId'-1
  OBVIOUS
<1> QED
  BY <1>1 DEF Values

LEMMA EmitReturnKeeps ==
  ASSUME Tree, IInv, EmitReturn
  PROVE  IInv'
<1> DEFINE inst == ir_instruction_return(Top.results[1])
<1>1. /\ status = "running" /\ stack # <<>> /\ Here.type = "STATEMENT" /\ Len(Top.results) = 1
      /\ Emit(<<inst>>) /\ Return(NullOp) /\ UNCHANGED <<input, ids, loop, status>>
  BY DEF EmitReturn, At
<1>2. PICK m : m = Len(stack)
  OBVIOUS
<1>3. m = 1 /\ ~ShortAt(m)
  BY <1>1, <1>2, OnTop DEF Holds
<1>4. TempsOf(Top.results[1]) \subseteq 0..nextId-1
  BY <1>1, TopResults
<1>5. Counters' /\ Grows /\ VarTemps' = VarTemps
  BY <1>1, CountersGrow DEF ids
<1>6. \A k : OpenAt(k)' => Stays(k)
  BY <1>1, Remains
<1>7. Does(inst, TempsOf(Top.results[1]), {}, {}, {}) /\ ~Computes(inst)
  BY Returning
<1>8. Emits(<<inst>>) /\ \A i \in 1..Len(<<inst>>) : FitsTemps(<<inst>>, i) /\ FitsLabels(<<inst>>, i)
  <2> HIDE DEF inst
  <2> QED
    BY <1>1, <1>4, <1>5, <1>6, <1>7, FitsOne
<1> HIDE DEF inst
<1>9. ~OpenAt(m)
  BY <1>3 DEF OpenAt
<1> QED
  BY <1>1, <1>2, <1>3, <1>5, <1>8, <1>9, ReturnKeeps

LEMMA IntLiteralKeeps ==
  ASSUME Tree, IInv, IntLiteral
  PROVE  IInv'
<1>1. /\ status = "running" /\ stack # <<>> /\ Here.type = "INT_LITERAL"
      /\ Return(ConstOp(Here.value)) /\ UNCHANGED <<input, code, ids, loop, status>>
  BY DEF IntLiteral, At
<1>2. PICK m : m = Len(stack)
  OBVIOUS
<1>3. ~OpenAt(m) /\ Here.value \in Int
  BY <1>1, <1>2, OnTop DEF OpenAt, IsNode
<1>4. Counters' /\ Grows /\ VarTemps' = VarTemps
  BY <1>1, CountersGrow DEF ids, IInv, Counters
<1>5. ConstOp(Here.value) \in Values'
  BY <1>3 DEF Values
<1>6. Emits(<<>>)
  BY <1>1, EmitsNothing DEF IInv
<1> QED
  BY <1>1, <1>2, <1>3, <1>4, <1>5, <1>6, FitsNone, ReturnKeeps

LEMMA ComputedKeeps ==
  ASSUME Tree, IInv, stack # <<>>, Return(TempOp(nextId)), nextId' = nextId + 1,
         UNCHANGED <<input, nextLabel, varTemp, loop, status>>,
         NEW inst, Emit(<<inst>>), NEW reads, Does(inst, reads, {nextId}, {}, {}),
         inst.dest_id = nextId, reads \subseteq 0..nextId-1,
         Here.type # "VARIABLE", ~ShortAt(Len(stack))
  PROVE  IInv'
<1>1. PICK m : m = Len(stack)
  OBVIOUS
<1>2. Counters' /\ Grows /\ VarTemps' = VarTemps
  <2>1. nextId' \in {nextId, nextId + 1} /\ nextLabel' \in {nextLabel, nextLabel + 2}
    OBVIOUS
  <2> QED
    BY <2>1, CountersGrow DEF IInv, Counters
<1>3. \A k : OpenAt(k)' => Stays(k)
  BY Remains
<1>4. Free(nextId) /\ nextId \in 0..nextId'-1 /\ TempOp(nextId) \in Values'
  BY FreeTemps, NewValue DEF IInv, Counters
<1>5. \A w \in {nextId} : Free(w) /\ w \in 0..nextId'-1
  BY <1>4
<1>6. Emits(<<inst>>) /\ \A i \in 1..Len(<<inst>>) : FitsTemps(<<inst>>, i) /\ FitsLabels(<<inst>>, i)
  <2>1. PICK writes : writes = {nextId}
    OBVIOUS
  <2>2. Does(inst, reads, writes, {}, {}) /\ \A w \in writes : Free(w) /\ w \in 0..nextId'-1
    BY <1>5, <2>1
  <2> QED
    BY <1>2, <1>3, <2>2, FitsOne
<1>7. ~OpenAt(m)
  BY <1>1 DEF OpenAt
<1>8. PICK v : v = TempOp(nextId)
  OBVIOUS
<1>9. Return(v) /\ v \in Values'
  BY <1>4, <1>8
<1> QED
  BY <1>1, <1>2, <1>6, <1>7, <1>9, ReturnKeeps

LEMMA EmitUnaryKeeps ==
  ASSUME Tree, IInv, EmitUnary
  PROVE  IInv'
<1>1. PICK op, type, d : op = Top.results[1] /\ type = Here.op /\ d = nextId
  OBVIOUS
<1>2. /\ status = "running" /\ stack # <<>> /\ Here.type = "UNARY" /\ Len(Top.results) = 1
      /\ Emit(<<ir_instruction_unary(type, d, op)>>) /\ Return(TempOp(nextId))
      /\ nextId' = nextId + 1 /\ UNCHANGED <<input, nextLabel, varTemp, loop, status>>
  BY <1>1 DEF EmitUnary, At, IRType
<1>3. type \in ComputeTypes /\ d \in Nat /\ TempsOf(op) \subseteq 0..nextId-1 /\ ~ShortAt(Len(stack))
  <2>1. Here.op \in UnaryOps
    BY <1>2, OnTop DEF IsNode
  <2> QED
    BY <1>1, <1>2, <2>1, OnTop, TopResults DEF IInv, Counters, UnaryOps, ComputeTypes
<1>4. /\ Does(ir_instruction_unary(type, d, op), TempsOf(op), {d}, {}, {})
      /\ ir_instruction_unary(type, d, op).dest_id = d
  BY <1>3, Computing
<1>5. PICK inst : inst = ir_instruction_unary(type, d, op)
  OBVIOUS
<1>6. Emit(<<inst>>) /\ Does(inst, TempsOf(op), {nextId}, {}, {}) /\ inst.dest_id = nextId
  BY <1>1, <1>2, <1>4, <1>5
<1> QED
  BY <1>2, <1>3, <1>6, ComputedKeeps

LEMMA EmitBinaryKeeps ==
  ASSUME Tree, IInv, EmitBinary
  PROVE  IInv'
<1>1. PICK a, b, type, d : a = Top.results[1] /\ b = Top.results[2] /\ type = Here.op /\ d = nextId
  OBVIOUS
<1>2. /\ status = "running" /\ stack # <<>> /\ Here.type = "BINARY" /\ Len(Top.results) = 2
      /\ Here.op \notin ShortOps
      /\ Emit(<<ir_instruction_binary(type, d, a, b)>>) /\ Return(TempOp(nextId))
      /\ nextId' = nextId + 1 /\ UNCHANGED <<input, nextLabel, varTemp, loop, status>>
  BY <1>1 DEF EmitBinary, At, IRType
<1>3. type \in ComputeTypes /\ d \in Nat /\ ~ShortAt(Len(stack))
  <2>1. Here.op \in SimpleOps \cup RelationalOps
    BY <1>2, OnTop DEF IsNode, BinaryOps
  <2> QED
    BY <1>1, <1>2, <2>1, OnTop DEF IInv, Counters, SimpleOps, RelationalOps, ComputeTypes
<1>4. TempsOf(a) \subseteq 0..nextId-1 /\ TempsOf(b) \subseteq 0..nextId-1
  <2>1. \A j \in 1..2 : TempsOf(Top.results[j]) \subseteq 0..nextId-1
    BY <1>2, TopResults
  <2> QED
    BY <1>1, <2>1
<1>5. /\ Does(ir_instruction_binary(type, d, a, b), TempsOf(a) \cup TempsOf(b), {d}, {}, {})
      /\ ir_instruction_binary(type, d, a, b).dest_id = d
  BY <1>3, Computing
<1>6. PICK inst, reads : inst = ir_instruction_binary(type, d, a, b) /\ reads = TempsOf(a) \cup TempsOf(b)
  OBVIOUS
<1>7. Emit(<<inst>>) /\ Does(inst, reads, {nextId}, {}, {}) /\ inst.dest_id = nextId
      /\ reads \subseteq 0..nextId-1
  BY <1>1, <1>2, <1>4, <1>5, <1>6
<1> QED
  BY <1>2, <1>3, <1>7, ComputedKeeps
LEMMA CopiedKeeps ==
  ASSUME Tree, IInv, stack # <<>>, NEW v, Return(v), Len(stack) = 1 \/ v \in Values,
         UNCHANGED <<input, ids, loop, status>>,
         NEW a, NEW b, Emit(<<ir_instruction_copy(a, b)>>), a.value \in VarTemps,
         TempsOf(b) \subseteq 0..nextId-1, Here.type # "VARIABLE", ~ShortAt(Len(stack))
  PROVE  IInv'
<1>1. PICK m : m = Len(stack)
  OBVIOUS
<1>2. PICK inst, reads, writes : /\ inst = ir_instruction_copy(a, b)
                                 /\ reads = TempsOf(b) /\ writes = {a.value}
  OBVIOUS
<1>3. Does(inst, reads, writes, {}, {}) /\ ~Computes(inst) /\ Emit(<<inst>>)
  BY <1>2, Copying
<1>4. Counters' /\ Grows /\ VarTemps' = VarTemps
  BY CountersGrow DEF ids, IInv, Counters
<1>5. \A k : OpenAt(k)' => Stays(k)
  BY Remains
<1>6. \A w \in writes : Free(w) /\ w \in 0..nextId'-1
  BY <1>2, FreeTemps DEF ids
<1>7. Emits(<<inst>>) /\ \A i \in 1..Len(<<inst>>) : FitsTemps(<<inst>>, i) /\ FitsLabels(<<inst>>, i)
  BY <1>2, <1>3, <1>4, <1>5, <1>6, FitsOne
<1>8. ~OpenAt(m)
  BY <1>1 DEF OpenAt
<1>9. Values \subseteq Values'
  BY <1>4, Wider
<1> QED
  BY <1>1, <1>4, <1>7, <1>8, <1>9, ReturnKeeps

LEMMA EmitInitKeeps ==
  ASSUME Tree, IInv, EmitInit
  PROVE  IInv'
<1>1. PICK a, b, v : a = Top.locals.temp /\ b = Top.results[1] /\ v = TempOp(0)
  OBVIOUS
<1>2. /\ status = "running" /\ stack # <<>> /\ Here.type = "DECLARATION" /\ Len(Top.results) = 1
      /\ Emit(<<ir_instruction_copy(a, b)>>) /\ Return(v) /\ UNCHANGED <<input, ids, loop, status>>
  BY <1>1 DEF EmitInit, At
<1>3. PICK m : m = Len(stack)
  OBVIOUS
<1>4. m = 1 /\ ~ShortAt(m)
  BY <1>2, <1>3, OnTop DEF Holds
<1>5. Top.locals \in VarLocals
  BY <1>2, <1>3, TopResults, OnTop DEF LocalsOf
<1>6. a.value \in VarTemps
  BY <1>1, <1>5 DEF VarLocals, NoLocals, TempOp, Operand
<1>7. TempsOf(b) \subseteq 0..nextId-1
  BY <1>1, <1>2, TopResults
<1> QED
  BY <1>2, <1>3, <1>4, <1>6, <1>7, CopiedKeeps

LEMMA EmitAssignmentKeeps ==
  ASSUME Tree, IInv, EmitAssignment
  PROVE  IInv'
<1>1. PICK a, b : a = Top.results[1] /\ b = Top.results[2]
  OBVIOUS
<1>2. /\ status = "running" /\ stack # <<>> /\ Here.type = "ASSIGNMENT" /\ Len(Top.results) = 2
      /\ Emit(<<ir_instruction_copy(a, b)>>) /\ Return(a) /\ UNCHANGED <<input, ids, loop, status>>
  BY <1>1 DEF EmitAssignment, At
<1>3. \A j \in 1..2 : Top.results[j] \in Values /\ TempsOf(Top.results[j]) \subseteq 0..nextId-1
  BY <1>2, TopResults
<1>4. a \in {TempOp(t) : t \in VarTemps} /\ a \in Values /\ TempsOf(b) \subseteq 0..nextId-1
  BY <1>1, <1>2, <1>3, TopResults
<1>5. a.value \in VarTemps
  BY <1>4 DEF TempOp, Operand
<1>6. ~ShortAt(Len(stack))
  BY <1>2, OnTop
<1> QED
  BY <1>2, <1>4, <1>5, <1>6, CopiedKeeps

LEMMA DeclareOnlyKeeps ==
  ASSUME Tree, IInv, DeclareOnly
  PROVE  IInv'
<1>0. PICK v : v = TempOp(-999)
  OBVIOUS
<1>1. PICK m : m = Len(stack)
  OBVIOUS
<1>2. /\ status = "running" /\ stack # <<>> /\ Here.type = "DECLARATION"
      /\ Return(v) /\ UNCHANGED <<input, code, ids, loop, status>>
  BY <1>0 DEF DeclareOnly, At
<1>3. m = 1 /\ ~ShortAt(m)
  BY <1>1, <1>2, OnTop DEF Holds
<1>4. ~OpenAt(m)
  BY <1>3 DEF OpenAt
<1>5. Counters' /\ Grows /\ VarTemps' = VarTemps
  BY <1>2, CountersGrow DEF ids, IInv, Counters
<1>6. Emits(<<>>)
  BY <1>2, EmitsNothing DEF IInv
<1> QED
  BY <1>1, <1>2, <1>3, <1>4, <1>5, <1>6, FitsNone, ReturnKeeps

\* A variable's temporary is made on its first use.
LEMMA Touched ==
  ASSUME Tree, IInv, NEW name \in Names, TouchVariable(name), UNCHANGED <<input, nextLabel, loop, status>>
  PROVE  /\ Counters' /\ Grows /\ VarTemps' \subseteq VarTemps \cup {nextId}
         /\ \E t \in VarTemps' : t \in 0..nextId'-1 /\ VarOperand(name) = TempOp(t)
<1>1. /\ nextId \in Nat /\ nextLabel \in Nat /\ item \in 1..Len(body)+1 /\ hadReturn \in BOOLEAN
      /\ status \in {"running", "done", "aborted"} /\ DOMAIN varTemp \subseteq Names
      /\ \A x \in DOMAIN varTemp : varTemp[x] \in 0..nextId-1
      /\ \A x, y \in DOMAIN varTemp : varTemp[x] = varTemp[y] => x = y
  BY DEF IInv, Counters
<1>2. /\ ast' = ast /\ body' = body /\ nextLabel' = nextLabel /\ item' = item /\ hadReturn' = hadReturn
      /\ status' = status
  BY DEF input, loop
<1>3. Names' = Names
  BY <1>2 DEF Names
<1>4. CASE name \in DOMAIN varTemp
  <2>1. varTemp' = varTemp /\ nextId' = nextId
    BY <1>4 DEF TouchVariable
  <2>2. Counters'
    BY <1>1, <1>2, <1>3, <2>1 DEF Counters
  <2>3. VarTemps' = VarTemps
    BY <2>1 DEF VarTemps
  <2>4. Grows
    BY <1>1, <1>2, <2>1, <2>3 DEF Grows, input
  <2>5. varTemp[name] \in VarTemps' /\ varTemp[name] \in 0..nextId'-1 /\ VarOperand(name) = TempOp(varTemp[name])
    BY <1>1, <1>4, <2>1 DEF VarTemps, VarOperand
  <2> QED
    BY <2>2, <2>3, <2>4, <2>5
<1>5. CASE name \notin DOMAIN varTemp
  <2>1. /\ varTemp' = [x \in DOMAIN varTemp \cup {name} |-> IF x = name THEN nextId ELSE varTemp[x]]
        /\ nextId' = nextId + 1
    BY <1>5 DEF TouchVariable
  <2>2. /\ DOMAIN varTemp' = DOMAIN varTemp \cup {name} /\ varTemp'[name] = nextId
        /\ \A x \in DOMAIN varTemp : varTemp'[x] = varTemp[x]
    BY <1>5, <2>1
  <2>3. nextId' \in Nat /\ nextId \in 0..nextId'-1 /\ nextId <= nextId' /\ nextId \notin 0..nextId-1
    BY <1>1, <2>1
  <2>4. 0..nextId-1 \subseteq 0..nextId'-1
    <3> DEFINE i == nextId
               j == nextId'
    <3>1. i \in Nat /\ j \in Nat /\ i <= j
      BY <1>1, <2>3
    <3> HIDE DEF i, j
    <3>2. 0..i-1 \subseteq 0..j-1
      BY <3>1
    <3> QED
      BY <3>2 DEF i, j
  <2>5. \A x \in DOMAIN varTemp' : varTemp'[x] \in 0..nextId'-1
    BY <1>1, <2>2, <2>3, <2>4
  <2>6. \A x, y \in DOMAIN varTemp' : varTemp'[x] = varTemp'[y] => x = y
    BY <1>1, <2>2, <2>3
  <2>7. Counters'
    BY <1>1, <1>2, <1>3, <2>2, <2>3, <2>5, <2>6 DEF Counters
  <2>8. VarTemps \subseteq VarTemps' /\ VarTemps' \subseteq VarTemps \cup {nextId} /\ nextId \in VarTemps'
    BY <2>2 DEF VarTemps
  <2>9. Grows
    BY <1>1, <1>2, <2>3, <2>8 DEF Grows, input
  <2>10. VarOperand(name) = TempOp(nextId)
    BY <1>5 DEF VarOperand
  <2> QED
    BY <2>3, <2>7, <2>8, <2>9, <2>10
<1> QED
  BY <1>4, <1>5

LEMMA VariableKeeps ==
  ASSUME Tree, IInv, Variable
  PROVE  IInv'
<1>1. PICK m, v : m = Len(stack) /\ v = VarOperand(Here.name)
  OBVIOUS
<1>2. /\ status = "running" /\ stack # <<>> /\ Here.type = "VARIABLE" /\ Return(v)
      /\ TouchVariable(Here.name) /\ UNCHANGED <<input, code, nextLabel, loop, status>>
  BY <1>1 DEF Variable, At
<1>3. ~OpenAt(m) /\ Here.name \in Names
  BY <1>1, <1>2, OnTop DEF OpenAt, Names
<1>4. /\ Counters' /\ Grows /\ VarTemps' \subseteq VarTemps \cup {nextId}
      /\ \E t \in VarTemps' : t \in 0..nextId'-1 /\ v = TempOp(t)
  BY <1>1, <1>2, <1>3, Touched
<1>5. v \in Values' /\ v \in {TempOp(t) : t \in VarTemps'}
  BY <1>4 DEF Values
<1>6. Emits(<<>>)
  BY <1>2, EmitsNothing DEF IInv
<1> QED
  BY <1>1, <1>2, <1>3, <1>4, <1>5, <1>6, FitsNone, ReturnKeeps
-----------------------------------------------------------------------------
(* Actions that call, and emit nothing *)

LEMMA PlainCallKeeps ==
  ASSUME Tree, IInv, stack # <<>>, NEW n \in Kids(Here), Call(n, NoLocals), Len(Top.results) <= 1,
         UNCHANGED <<input, code, ids, loop, status>>,
         (Here.type = "ASSIGNMENT" /\ Len(Top.results) = 0) => ast[n].type = "VARIABLE",
         ~ShortAt(Len(stack)), Here.type # "DECLARATION"
  PROVE  IInv'
<1>1. PICK m, nd, L : m = Len(stack) /\ nd = Top.node /\ L = NoLocals
  OBVIOUS
<1>2. Counters' /\ Grows /\ VarTemps' = VarTemps
  BY CountersGrow DEF ids, IInv, Counters
<1>3. L \in LocalsOf(nd)'
  <2>1. ast' = ast /\ Here = ast[nd]
    BY <1>1 DEF input, Here
  <2> QED
    BY <1>1, <2>1, OnTop DEF LocalsOf
<1>4. Emits(<<>>)
  BY EmitsNothing DEF IInv
<1>5. Call(n, L)
  BY <1>1
<1> QED
  BY <1>1, <1>2, <1>3, <1>4, <1>5, FitsNone, CallKeeps

LEMMA CallsKeep ==
  ASSUME Tree, IInv, CallReturned \/ CallOperand \/ CallLeft \/ CallRight \/ CallRhs
  PROVE  IInv'
<1>1. /\ stack # <<>> /\ UNCHANGED <<input, code, ids, loop, status>>
      /\ Here.type \in {"STATEMENT", "UNARY", "BINARY", "ASSIGNMENT"}
      /\ Here.type = "BINARY" => Here.op \notin ShortOps
      /\ Len(Top.results) \in {0, 1}
      /\ Here.type = "ASSIGNMENT" => Len(Top.results) = 1
      /\ \/ Call(Here.left, NoLocals)
         \/ Here.type \in {"BINARY", "ASSIGNMENT"} /\ Call(Here.right, NoLocals)
  BY DEF CallReturned, CallOperand, CallLeft, CallRight, CallRhs, At
<1>2. PICK m : m = Len(stack)
  OBVIOUS
<1>3. Holds(Top, NULL, m) /\ IsNode(Here) /\ Here = ast[Top.node] /\ ~ShortAt(m)
  BY <1>1, <1>2, OnTop
<1>4. Here.type = "STATEMENT" => Here.op = "RETURN"
  BY <1>3 DEF Holds
<1>5. /\ Here.left \in Kids(Here)
      /\ Here.type \in {"BINARY", "ASSIGNMENT"} => Here.right \in Kids(Here)
  <2>1. Here.left # NULL /\ (Here.type \in {"BINARY", "ASSIGNMENT"} => Here.right # NULL)
    BY <1>1, <1>3, <1>4 DEF IsNode
  <2> QED
    BY <2>1 DEF Kids
<1>8. /\ Here.type # "DECLARATION" /\ Len(Top.results) <= 1
      /\ ~(Here.type = "ASSIGNMENT" /\ Len(Top.results) = 0) /\ ~ShortAt(Len(stack))
  <2>1. ~ShortAt(Len(stack))
    BY <1>2, <1>3
  <2>2. Here.type # "DECLARATION"
    BY <1>1
  <2>3. Len(Top.results) <= 1
    <3>1. PICK r : r = Len(Top.results)
      OBVIOUS
    <3>2. r \in {0, 1}
      BY <1>1, <3>1
    <3>3. r <= 1
      BY <3>2
    <3> QED
      BY <3>1, <3>3
  <2>4. ~(Here.type = "ASSIGNMENT" /\ Len(Top.results) = 0)
    BY <1>1
  <2> QED
    BY <2>1, <2>2, <2>3, <2>4
<1>6. CASE Call(Here.left, NoLocals)
  <2>1. PICK n : n = Here.left
    OBVIOUS
  <2>2. n \in Kids(Here) /\ Call(n, NoLocals)
    BY <1>5, <1>6, <2>1
  <2> QED
    BY <1>1, <1>8, <2>2, PlainCallKeeps
<1>7. CASE Here.type \in {"BINARY", "ASSIGNMENT"} /\ Call(Here.right, NoLocals)
  <2>1. PICK n : n = Here.right
    OBVIOUS
  <2>2. n \in Kids(Here) /\ Call(n, NoLocals)
    BY <1>5, <1>7, <2>1
  <2> QED
    BY <1>1, <1>8, <2>2, PlainCallKeeps
<1> QED
  BY <1>1, <1>6, <1>7

\* Nothing but the status changes.
LEMMA AbortKeeps ==
  ASSUME Tree, IInv, UNCHANGED <<input, code, ids, stack, loop>>,
         status' \in {"running", "done", "aborted"}
  PROVE  IInv'
<1>1. Counters' /\ Grows /\ VarTemps' = VarTemps
  BY CountersGrow DEF ids, IInv, Counters
<1>2. ast' = ast /\ stack' = stack /\ code' = code
  BY DEF input
<1>3. \A k : OpenAt(k)' <=> OpenAt(k)
  BY <1>2 DEF OpenAt, ShortAt, Started
<1>4. \A k : OpenAt(k)' => Stays(k)
  BY <1>2, <1>3 DEF Stays
<1>5. \A k, l : PendingAt(k, l) => PendingAt(k, l)'
  BY <1>2, <1>3 DEF PendingAt
<1>6. Frames'
  <2>1. ASSUME NEW k \in 1..Len(stack) PROVE FrameOK(k)'
    <3>1. Above(k)' = Above(k) /\ stack'[k] = stack[k]
      BY <1>2 DEF Above
    <3> QED
      BY <1>1, <3>1, FrameStays DEF IInv, Frames
  <2> QED
    BY <1>2, <2>1 DEF IInv, Frames
<1>7. Emits(<<>>)
  BY <1>2, EmitsNothing DEF IInv
<1> QED
  BY <1>1, <1>4, <1>5, <1>6, <1>7, FitsNone, StepKeeps

LEMMA CallLhsKeeps ==
  ASSUME Tree, IInv, CallLhs
  PROVE  IInv'
<1>1. /\ stack # <<>> /\ Here.type = "ASSIGNMENT" /\ Len(Top.results) = 0
      /\ UNCHANGED <<input, code, ids, loop>>
      /\ \/ ast[Here.left].type = "VARIABLE" /\ Call(Here.left, NoLocals) /\ UNCHANGED status
         \/ status' = "aborted" /\ UNCHANGED stack
  BY DEF CallLhs, At
<1>2. PICK m, n : m = Len(stack) /\ n = Here.left
  OBVIOUS
<1>3. n \in Kids(Here) /\ ~ShortAt(m)
  BY <1>1, <1>2, OnTop DEF IsNode, Kids
<1>4. CASE ast[Here.left].type = "VARIABLE" /\ Call(Here.left, NoLocals) /\ UNCHANGED status
  BY <1>1, <1>2, <1>3, <1>4, PlainCallKeeps
<1>5. CASE status' = "aborted" /\ UNCHANGED stack
  BY <1>1, <1>5, AbortKeeps
<1> QED
  BY <1>1, <1>4, <1>5

LEMMA CallInitKeeps ==
  ASSUME Tree, IInv, CallInit
  PROVE  IInv'
<1>1. PICK m, n, nd, name, L : /\ m = Len(stack) /\ n = Here.left /\ nd = Top.node /\ name = Here.name
                               /\ L = [NoLocals EXCEPT !.temp = VarOperand(name)]
  OBVIOUS
<1>2. /\ stack # <<>> /\ Here.type = "DECLARATION" /\ Len(Top.results) = 0 /\ n # NULL
      /\ Call(n, L) /\ TouchVariable(name) /\ UNCHANGED <<input, code, nextLabel, loop, status>>
  BY <1>1 DEF CallInit, At
<1>3. n \in Kids(Here) /\ ~ShortAt(m) /\ name \in Names
  BY <1>1, <1>2, OnTop DEF Kids, Names
<1>4. /\ Counters' /\ Grows /\ VarTemps' \subseteq VarTemps \cup {nextId}
      /\ \E t \in VarTemps' : t \in 0..nextId'-1 /\ VarOperand(name) = TempOp(t)
  BY <1>2, <1>3, Touched
<1>5. L \in LocalsOf(nd)'
  <2>1. ast' = ast /\ Here = ast[nd]
    BY <1>1, <1>2 DEF input, Here
  <2>2. L \in VarLocals'
    BY <1>1, <1>4 DEF VarLocals
  <2> QED
    BY <1>2, <2>1, <2>2 DEF LocalsOf
<1>6. Emits(<<>>)
  BY <1>2, EmitsNothing DEF IInv
<1> QED
  BY <1>1, <1>2, <1>3, <1>4, <1>5, <1>6, FitsNone, CallKeeps

-----------------------------------------------------------------------------
(* Short circuits *)

LEMMA ShortCallLeftKeeps ==
  ASSUME Tree, IInv, ShortCallLeft
  PROVE  IInv'
<1>1. PICK m, n, nd, L : /\ m = Len(stack) /\ n = Here.left /\ nd = Top.node
                         /\ L = ShortLocal(nextId, nextLabel, CondPrefix)
  OBVIOUS
<1>2. /\ stack # <<>> /\ Here.type = "BINARY" /\ Len(Top.results) = 0 /\ Here.op \in ShortOps
      /\ Call(n, L) /\ nextId' = nextId + 1 /\ nextLabel' = nextLabel + 2
      /\ UNCHANGED <<input, code, varTemp, loop, status>>
  BY <1>1 DEF ShortCallLeft, At, ShortLocal
<1>3. /\ n \in Kids(Here) /\ ShortAt(m) /\ ~OpenAt(m) /\ \A k : OpenAt(k) => k \in 1..m
      /\ m \in Nat
  BY <1>1, <1>2, OnTop, TopResults DEF IsNode, Kids
<1>4. nextId \in Nat /\ nextLabel \in Nat /\ \A t \in VarTemps : t \in 0..nextId-1
  BY DEF IInv, Counters, VarTemps
<1>5. Counters' /\ Grows /\ VarTemps' = VarTemps
  BY <1>2, CountersGrow DEF IInv, Counters
<1>6. CondPrefix \in {"false", "true"}
  BY DEF CondPrefix
<1>7. L \in LocalsOf(nd)'
  <2>1. ast' = ast /\ Here = ast[nd]
    BY <1>1, <1>2 DEF input, Here
  <2>2. nextId \in 0..nextId'-1 /\ nextLabel \in 0..nextLabel'-2
    BY <1>2, <1>4
  <2>3. L \in ShortLocals'
    BY <1>1, <1>6, <2>2 DEF ShortLocals
  <2> QED
    BY <1>2, <2>1, <2>3 DEF LocalsOf
<1>8. Frames'
  <2>1. n \in DOMAIN ast /\ ast[n].type \notin {"DECLARATION", "STATEMENT"}
    BY <1>2, <1>3, Children, OnTop
  <2> QED
    BY <1>1, <1>2, <1>5, <1>7, <2>1, CallKeepsFrames DEF IInv
<1>9. /\ \A k : (OpenAt(k) /\ k < m) => OpenAt(k)' /\ stack'[k] = stack[k]
      /\ \A k : OpenAt(k)' =>
           \/ OpenAt(k) /\ k < m /\ stack'[k] = stack[k]
           \/ k = m /\ ShortAt(m) /\ stack'[m].locals = L
  BY <1>1, <1>2, CallOpens DEF IInv
<1>10. L.temp.value = nextId /\ L.cond[2] = nextLabel
  BY <1>1 DEF ShortLocal, TempOp, Operand
<1>11. ASSUME NEW k, OpenAt(k)'
       PROVE  (k < m /\ Stays(k)) \/ (k = m /\ Temp(k)' = nextId /\ Base(k)' = nextLabel)
  BY <1>9, <1>10, <1>11 DEF Stays, Temp, Base
<1>12. Opens'
  <2>1. ASSUME NEW k, OpenAt(k), Stays(k)
        PROVE  /\ Temp(k)' = Temp(k) /\ Base(k)' = Base(k) /\ Temp(k) \notin VarTemps
               /\ Temp(k) < nextId /\ Base(k) + 1 < nextLabel
    <3>1. Temp(k) \in 0..nextId-1 /\ Base(k) \in 0..nextLabel-2
      BY <2>1, OpenLocals DEF IInv
    <3> QED
      BY <1>4, <2>1, <3>1, StaysSame DEF IInv, Opens
  <2>2. ASSUME NEW j, NEW k, OpenAt(j)', OpenAt(k)', j < k
        PROVE  Temp(j)' < Temp(k)' /\ Base(j)' + 1 < Base(k)'
    <3>1. j < m /\ Stays(j) /\ OpenAt(j)
      <4>1. j # m
        BY <1>3, <1>11, <2>2 DEF Stays
      <4> QED
        BY <1>11, <2>2, <4>1 DEF Stays
    <3>2. CASE k < m /\ Stays(k)
      BY <2>1, <2>2, <3>1, <3>2 DEF IInv, Opens, Stays
    <3>3. CASE k = m /\ Temp(k)' = nextId /\ Base(k)' = nextLabel
      BY <2>1, <3>1, <3>3
    <3> QED
      BY <1>11, <2>2, <3>2, <3>3
  <2>3. ASSUME NEW k, OpenAt(k)' PROVE Temp(k)' \notin VarTemps'
    <3>1. nextId \notin VarTemps
      BY <1>4
    <3> QED
      BY <1>5, <1>11, <2>1, <2>3, <3>1 DEF Stays
  <2> QED
    BY <2>2, <2>3 DEF Opens
<1>13. Emits(<<>>)
  BY <1>2, EmitsNothing DEF IInv
<1>14. Temps'
  BY <1>5, <1>11, <1>13, FitsNone, TempsGrow
<1>15. Labels'
  <2>1. ASSUME NEW k, NEW l, PendingAt(k, l) PROVE PendingAt(k, l)'
    <3>1. OpenAt(k) /\ k < m
      BY <1>3, <2>1 DEF PendingAt
    <3> QED
      BY <1>9, <2>1, <3>1 DEF PendingAt
  <2> QED
    BY <1>5, <1>11, <1>13, <2>1, FitsNone, LabelsGrow
<1> QED
  BY <1>5, <1>8, <1>12, <1>14, <1>15 DEF IInv
\* What a short circuit in progress on top has made.
LEMMA OnTopOpen ==
  ASSUME Tree, IInv, stack # <<>>, Len(Top.results) \in {1, 2}, Here.type = "BINARY", Here.op \in ShortOps,
         NEW m, m = Len(stack), NEW t, t = Temp(m), NEW b, b = Base(m)
  PROVE  /\ OpenAt(m) /\ ShortAt(m)
         /\ t \in 0..nextId-1
         /\ \A p \in 1..Len(code) : Computes(code[p]) => code[p].dest_id # t
         /\ \A k : (OpenAt(k) /\ k < m) => Temp(k) # t /\ Base(k) + 1 < b
         /\ b \in 0..nextLabel-2 /\ nextLabel \in Nat
         /\ Top.locals.temp = TempOp(t) /\ Top.locals.end = <<"end", b + 1>>
         /\ Top.locals.cond \in {<<"false", b>>, <<"true", b>>}
         /\ Top = stack[m]
<1>1. Top.results # <<>>
  <2>1. PICK k : k = Len(Top.results)
    OBVIOUS
  <2>2. k \in {1, 2}
    BY <2>1
  <2>3. k \in Nat /\ k # 0
    BY <2>2
  <2> QED
    BY <2>1, <2>3, TopResults
<1>2. OpenAt(m) /\ ShortAt(m) /\ Top = stack[m] /\ m \in Nat /\ \A k : OpenAt(k) => k \in 1..m
  BY <1>1, OnTop
<1>3. /\ t \in 0..nextId-1 /\ b \in 0..nextLabel-2
      /\ Top.locals.temp = TempOp(t) /\ Top.locals.end = <<"end", b + 1>>
      /\ Top.locals.cond \in {<<"false", b>>, <<"true", b>>}
  BY <1>2, OpenLocals DEF IInv
<1>4. ASSUME NEW p \in 1..Len(code), Computes(code[p]) PROVE code[p].dest_id # t
  BY <1>2, <1>4 DEF IInv, Temps, Writes
<1>5. ASSUME NEW k, OpenAt(k), k < m PROVE Temp(k) # t /\ Base(k) + 1 < b
  <2>1. Temp(k) < Temp(m) /\ Base(k) + 1 < Base(m)
    BY <1>2, <1>5 DEF IInv, Opens
  <2>2. Temp(k) \in 0..nextId-1 /\ nextId \in Nat
    BY <1>5, OpenLocals DEF IInv, Counters
  <2> QED
    BY <1>3, <2>1, <2>2
<1> QED
  BY <1>2, <1>3, <1>4, <1>5 DEF Free, IInv, Counters

LEMMA ShortCallRightKeeps ==
  ASSUME Tree, IInv, ShortCallRight
  PROVE  IInv'
<1>1. PICK m, n, nd, L, op, type, t, b :
        /\ m = Len(stack) /\ n = Here.right /\ nd = Top.node /\ L = Top.locals
        /\ op = Top.results[1] /\ type = JumpType /\ t = Temp(m) /\ b = Base(m)
  OBVIOUS
<1>2. PICK inst : inst = ir_instruction_branch_condition(type, op, L.cond)
  OBVIOUS
<1>3. /\ stack # <<>> /\ Here.type = "BINARY" /\ Len(Top.results) = 1 /\ Here.op \in ShortOps
      /\ Emit(<<inst>>) /\ Call(n, L) /\ UNCHANGED <<input, ids, loop, status>>
  BY <1>1, <1>2 DEF ShortCallRight, At
<1>4. OpenAt(m) /\ ShortAt(m) /\ L = stack[m].locals /\ n \in Kids(Here)
  <2>1. Len(Top.results) \in {1, 2}
    BY <1>3
  <2>2. OpenAt(m) /\ ShortAt(m) /\ Top = stack[m]
    BY <1>1, <1>3, <2>1, OnTopOpen
  <2> QED
    BY <1>1, <1>3, <2>2, OnTop DEF IsNode, Kids
<1>5. TempsOf(op) \subseteq 0..nextId-1 /\ L \in LocalsOf(nd)
  BY <1>1, <1>3, TopResults
<1>6. Counters' /\ Grows /\ VarTemps' = VarTemps
  BY <1>3, CountersGrow DEF ids, IInv, Counters
<1>7. L \in LocalsOf(nd)'
  BY <1>5, <1>6, Wider
<1>8. Does(inst, TempsOf(op), {}, {}, {L.cond}) /\ ~Computes(inst)
  <2>1. type \in {"JUMP_ZERO", "JUMP_NOT_ZERO"}
    BY <1>1 DEF JumpType
  <2> QED
    BY <1>2, <2>1, Branching
<1>9. PendingAt(m, L.cond)'
  <2>1. OpenAt(m)' /\ stack'[m].locals = L
    BY <1>1, <1>3, <1>4, CallOpens DEF IInv
  <2> QED
    BY <2>1 DEF PendingAt
<1>10. PICK insts : insts = <<inst>>
  OBVIOUS
<1>11. IsSequence(insts) /\ Len(insts) = 1 /\ insts[1] = inst /\ Emits(insts)
  BY <1>3, <1>10 DEF IsSequence, Emit, Emits
<1>12. FitsTemps(insts, 1)
  <2>1. nextId' = nextId
    BY <1>3 DEF ids
  <2> QED
    BY <1>5, <1>8, <1>11, <2>1 DEF FitsTemps, Does
<1>13. FitsLabels(insts, 1)
  BY <1>8, <1>9, <1>11 DEF FitsLabels, Does
<1>14. \A i \in 1..Len(insts) : FitsTemps(insts, i) /\ FitsLabels(insts, i)
  <2>1. \A i \in 1..Len(insts) : i = 1
    BY <1>11
  <2> QED
    BY <1>12, <1>13, <2>1
<1>15. Len(Top.results) <= 1
  <2>1. PICK r : r = Len(Top.results)
    OBVIOUS
  <2>2. r = 1
    BY <1>3, <2>1
  <2>3. r <= 1
    BY <2>2
  <2> QED
    BY <2>1, <2>3
<1>16. ~(Here.type = "ASSIGNMENT" /\ Len(Top.results) = 0)
  BY <1>3
<1> QED
  BY <1>1, <1>3, <1>4, <1>6, <1>7, <1>11, <1>14, <1>15, <1>16, CallKeeps

LEMMA SixOf ==
  ASSUME NEW a, NEW b, NEW c, NEW d, NEW e, NEW f, NEW s, s = <<a, b, c, d, e, f>>
  PROVE  IsSequence(s) /\ Len(s) = 6 /\ s[1] = a /\ s[2] = b /\ s[3] = c /\ s[4] = d /\ s[5] = e /\ s[6] = f
<1>1. Len(s) = 6 /\ s[1] = a /\ s[2] = b /\ s[3] = c /\ s[4] = d /\ s[5] = e /\ s[6] = f
  OBVIOUS
<1>2. s \in Seq({a, b, c, d, e, f})
  OBVIOUS
<1>3. IsSequence(s)
  BY <1>2, SequenceOf
<1> QED
  BY <1>1, <1>3

\* What ShortEnd appends: six instructions around the two labels.
EndShape(m, v, op, t, b, cond, end, insts) ==
  /\ m = Len(stack) /\ stack # <<>> /\ Here.type = "BINARY" /\ Len(Top.results) = 2 /\ op = Top.results[2]
  /\ Emits(insts) /\ Return(v) /\ UNCHANGED <<input, ids, loop, status>>
  /\ OpenAt(m) /\ ShortAt(m) /\ Top = stack[m]
  /\ cond = stack[m].locals.cond /\ end = stack[m].locals.end
  /\ t = Temp(m) /\ t \in 0..nextId-1
  /\ \A p \in 1..Len(code) : Computes(code[p]) => code[p].dest_id # t
  /\ b = Base(m) /\ b \in 0..nextLabel-2 /\ nextLabel \in Nat
  /\ \A k : (OpenAt(k) /\ k < m) => Temp(k) # t /\ Base(k) + 1 < b
  /\ v = TempOp(t) /\ end = <<"end", b + 1>> /\ cond \in {<<"false", b>>, <<"true", b>>}
  /\ v.value = t /\ TempsOf(op) \subseteq 0..nextId-1
  /\ cond # end /\ cond[2] = b /\ end[2] = b + 1 /\ {b, b + 1} \subseteq 0..nextLabel-1

EndCode(op, t, cond, end, insts) ==
  /\ IsSequence(insts) /\ Len(insts) = 6
  /\ \A i \in 1..Len(insts) : i \in {1, 2, 3, 4, 5, 6}
  /\ Does(insts[1], TempsOf(op), {}, {}, {cond}) /\ ~Computes(insts[1])
  /\ Does(insts[2], {}, {t}, {}, {}) /\ ~Computes(insts[2])
  /\ Does(insts[3], {}, {}, {}, {end}) /\ ~Computes(insts[3]) /\ Leaves(insts[3])
  /\ Does(insts[4], {}, {}, {cond}, {}) /\ ~Computes(insts[4])
  /\ Does(insts[5], {}, {t}, {}, {}) /\ ~Computes(insts[5])
  /\ Does(insts[6], {}, {}, {end}, {}) /\ ~Computes(insts[6])

LEMMA ShortEndEmits ==
  ASSUME Tree, IInv, ShortEnd
  PROVE  \E m, v, op, t, b, cond, end, insts :
            EndShape(m, v, op, t, b, cond, end, insts) /\ EndCode(op, t, cond, end, insts)
<1>1. PICK m, f, v, op, type, t, b, x, y, cond, end :
        /\ m = Len(stack) /\ f = Top.locals /\ v = f.temp /\ op = Top.results[2] /\ type = JumpType
        /\ t = Temp(m) /\ b = Base(m) /\ cond = f.cond /\ end = f.end
        /\ x = ConstOp(IF IsAnd THEN 1 ELSE 0) /\ y = ConstOp(IF IsAnd THEN 0 ELSE 1)
  OBVIOUS
<1>2. PICK i1, i2, i3, i4, i5, i6 :
        /\ i1 = ir_instruction_branch_condition(type, op, cond)
        /\ i2 = ir_instruction_copy(v, x)
        /\ i3 = ir_instruction_branch_always(end)
        /\ i4 = ir_instruction_label(cond)
        /\ i5 = ir_instruction_copy(v, y)
        /\ i6 = ir_instruction_label(end)
  OBVIOUS
<1>3. PICK insts : insts = <<i1, i2, i3, i4, i5, i6>>
  OBVIOUS
<1>4. /\ stack # <<>> /\ Here.type = "BINARY" /\ Len(Top.results) = 2 /\ Here.op \in ShortOps
      /\ Emit(insts) /\ Return(v) /\ UNCHANGED <<input, ids, loop, status>>
  BY <1>1, <1>2, <1>3 DEF ShortEnd, At
<1>5. /\ OpenAt(m) /\ ShortAt(m) /\ Top = stack[m]
      /\ t \in 0..nextId-1
      /\ \A p \in 1..Len(code) : Computes(code[p]) => code[p].dest_id # t
      /\ \A k : (OpenAt(k) /\ k < m) => Temp(k) # t /\ Base(k) + 1 < b
      /\ b \in 0..nextLabel-2 /\ nextLabel \in Nat
      /\ v = TempOp(t) /\ end = <<"end", b + 1>> /\ cond \in {<<"false", b>>, <<"true", b>>}
  <2>1. Len(Top.results) \in {1, 2}
    BY <1>4
  <2>2. /\ OpenAt(m) /\ ShortAt(m) /\ Top = stack[m] /\ t \in 0..nextId-1
        /\ \A p \in 1..Len(code) : Computes(code[p]) => code[p].dest_id # t
        /\ \A k : (OpenAt(k) /\ k < m) => Temp(k) # t /\ Base(k) + 1 < b
        /\ b \in 0..nextLabel-2 /\ nextLabel \in Nat
        /\ Top.locals.temp = TempOp(t) /\ Top.locals.end = <<"end", b + 1>>
        /\ Top.locals.cond \in {<<"false", b>>, <<"true", b>>}
    <3>1. m = Len(stack) /\ t = Temp(m) /\ b = Base(m)
      BY <1>1
    <3>2. stack # <<>> /\ Here.type = "BINARY" /\ Here.op \in ShortOps
      BY <1>4
    <3> QED
      BY <2>1, <3>1, <3>2, OnTopOpen
  <2> QED
    BY <1>1, <2>2
<1>8. /\ IsSequence(insts) /\ Len(insts) = 6 /\ insts[1] = i1 /\ insts[2] = i2 /\ insts[3] = i3
      /\ insts[4] = i4 /\ insts[5] = i5 /\ insts[6] = i6
  BY <1>3, SixOf
<1>9. Emits(insts)
  BY <1>4, <1>8 DEF Emit, Emits
<1>10. v.value = t /\ TempsOf(x) = {} /\ TempsOf(y) = {} /\ TempsOf(op) \subseteq 0..nextId-1
  <2>1. v.value = t /\ TempsOf(x) = {} /\ TempsOf(y) = {}
    BY <1>1, <1>5 DEF TempOp, ConstOp, Operand, TempsOf
  <2>2. TempsOf(op) \subseteq 0..nextId-1
    BY <1>1, <1>4, TopResults
  <2> QED
    BY <2>1, <2>2
<1>11. /\ Does(i1, TempsOf(op), {}, {}, {cond}) /\ ~Computes(i1)
       /\ Does(i2, {}, {t}, {}, {}) /\ ~Computes(i2)
       /\ Does(i3, {}, {}, {}, {end}) /\ ~Computes(i3)
       /\ Does(i4, {}, {}, {cond}, {}) /\ ~Computes(i4)
       /\ Does(i5, {}, {t}, {}, {}) /\ ~Computes(i5)
       /\ Does(i6, {}, {}, {end}, {}) /\ ~Computes(i6)
  <2>1. Does(i1, TempsOf(op), {}, {}, {cond}) /\ ~Computes(i1)
    <3>1. type \in {"JUMP_ZERO", "JUMP_NOT_ZERO"}
      BY <1>1 DEF JumpType
    <3> QED
      BY <1>2, <3>1, Branching
  <2>2. /\ Does(i2, {}, {t}, {}, {}) /\ ~Computes(i2)
        /\ Does(i5, {}, {t}, {}, {}) /\ ~Computes(i5)
    <3>1. /\ Does(i2, TempsOf(x), {v.value}, {}, {}) /\ ~Computes(i2)
          /\ Does(i5, TempsOf(y), {v.value}, {}, {}) /\ ~Computes(i5)
      BY <1>2, Copying
    <3> QED
      BY <1>10, <3>1
  <2>3. /\ Does(i3, {}, {}, {}, {end}) /\ ~Computes(i3)
        /\ Does(i4, {}, {}, {cond}, {}) /\ ~Computes(i4)
        /\ Does(i6, {}, {}, {end}, {}) /\ ~Computes(i6)
    BY <1>2, Labelling
  <2> QED
    BY <2>1, <2>2, <2>3
<1>12. \A i \in 1..Len(insts) : i = 1 \/ i = 2 \/ i = 3 \/ i = 4 \/ i = 5 \/ i = 6
  BY <1>8
<1>13. cond # end /\ cond[2] = b /\ end[2] = b + 1 /\ {b, b + 1} \subseteq 0..nextLabel-1
  BY <1>5
<1>14. Leaves(i3)
  BY <1>2 DEF Leaves, ir_instruction_branch_always, Instruction
<1>15. EndCode(op, t, cond, end, insts)
  BY <1>8, <1>11, <1>12, <1>14 DEF EndCode
<1>16. cond = stack[m].locals.cond /\ end = stack[m].locals.end
  BY <1>1, <1>5
<1>17. EndShape(m, v, op, t, b, cond, end, insts)
  BY <1>1, <1>4, <1>5, <1>9, <1>10, <1>13, <1>16 DEF EndShape
<1> QED
  BY <1>15, <1>17

LEMMA ShortEndKeeps ==
  ASSUME Tree, IInv, ShortEnd
  PROVE  IInv'
<1>1. PICK m, v, op, t, b, cond, end, insts :
        EndShape(m, v, op, t, b, cond, end, insts) /\ EndCode(op, t, cond, end, insts)
  BY ShortEndEmits
<1>2. PICK i1, i2, i3, i4, i5, i6 :
        /\ i1 = insts[1] /\ i2 = insts[2] /\ i3 = insts[3] /\ i4 = insts[4] /\ i5 = insts[5] /\ i6 = insts[6]
  OBVIOUS
<1>4. /\ stack # <<>> /\ Here.type = "BINARY" /\ Return(v) /\ UNCHANGED <<input, ids, loop, status>>
      /\ m = Len(stack) /\ Emits(insts)
  BY <1>1 DEF EndShape
<1>5. /\ OpenAt(m) /\ t \in 0..nextId-1
      /\ \A p \in 1..Len(code) : Computes(code[p]) => code[p].dest_id # t
      /\ \A k : (OpenAt(k) /\ k < m) => Temp(k) # t /\ Base(k) + 1 < b
      /\ b \in 0..nextLabel-2 /\ nextLabel \in Nat /\ b = Base(m)
      /\ v = TempOp(t) /\ end = <<"end", b + 1>> /\ cond \in {<<"false", b>>, <<"true", b>>}
      /\ cond = stack[m].locals.cond /\ end = stack[m].locals.end
  BY <1>1 DEF EndShape
<1>6. Counters' /\ Grows /\ VarTemps' = VarTemps /\ nextId' = nextId /\ nextLabel' = nextLabel
  BY <1>4, CountersGrow DEF ids, IInv, Counters
<1>7. \A k : OpenAt(k)' => Stays(k) /\ k < m
  BY <1>4, Remains
<1>8. /\ IsSequence(insts) /\ Len(insts) = 6 /\ insts[1] = i1 /\ insts[2] = i2 /\ insts[3] = i3
      /\ insts[4] = i4 /\ insts[5] = i5 /\ insts[6] = i6
  BY <1>1, <1>2 DEF EndCode
<1>10. TempsOf(op) \subseteq 0..nextId-1
  BY <1>1 DEF EndShape
<1>11. /\ Does(i1, TempsOf(op), {}, {}, {cond}) /\ ~Computes(i1)
       /\ Does(i2, {}, {t}, {}, {}) /\ ~Computes(i2)
       /\ Does(i3, {}, {}, {}, {end}) /\ ~Computes(i3)
       /\ Does(i4, {}, {}, {cond}, {}) /\ ~Computes(i4)
       /\ Does(i5, {}, {t}, {}, {}) /\ ~Computes(i5)
       /\ Does(i6, {}, {}, {end}, {}) /\ ~Computes(i6)
  BY <1>1, <1>2 DEF EndCode
<1>12. \A i \in 1..Len(insts) : i = 1 \/ i = 2 \/ i = 3 \/ i = 4 \/ i = 5 \/ i = 6
  BY <1>8
<1>13. cond # end /\ cond[2] = b /\ end[2] = b + 1 /\ {b, b + 1} \subseteq 0..nextLabel-1
  BY <1>1 DEF EndShape
<1>14. ASSUME NEW i \in 1..Len(insts) PROVE FitsTemps(insts, i)
  <2>1. /\ Reads(insts[i]) \subseteq 0..nextId-1 /\ Writes(insts[i]) \subseteq {t}
        /\ insts[i].dest_id \in Nat /\ ~Computes(insts[i])
    BY <1>8, <1>10, <1>11, <1>12 DEF Does
  <2>2. \A k : OpenAt(k)' => Temp(k)' # t
    BY <1>5, <1>7, StaysSame DEF Stays
  <2> QED
    BY <1>5, <1>6, <2>1, <2>2 DEF FitsTemps
<1>15. ASSUME NEW i \in 1..Len(insts) PROVE FitsLabels(insts, i)
  <2>1. ASSUME NEW l \in {cond, end}
        PROVE  /\ l[2] \in 0..nextLabel'-1
               /\ \A k : OpenAt(k)' => l[2] # Base(k)' /\ l[2] # Base(k)' + 1
               /\ \A p \in 1..Len(code) : l \notin Defines(code[p])
    <3>1. l[2] \in {b, b + 1} /\ l[2] \in 0..nextLabel'-1
      BY <1>6, <1>13
    <3>2. ASSUME NEW k, OpenAt(k)' PROVE l[2] # Base(k)' /\ l[2] # Base(k)' + 1
      <4>1. Base(k)' = Base(k) /\ OpenAt(k) /\ k < m
        BY <1>7, <3>2, StaysSame
      <4>2. Base(k) + 1 < b /\ Base(k) \in 0..nextLabel-2
        BY <1>5, <4>1, OpenLocals DEF IInv
      <4> QED
        BY <1>5, <3>1, <4>1, <4>2
    <3>3. ASSUME NEW p \in 1..Len(code) PROVE l \notin Defines(code[p])
      BY <1>5, <3>1 DEF IInv, Labels
    <3> QED
      BY <3>1, <3>2, <3>3
  <2>2. /\ Defines(i1) = {} /\ Defines(i2) = {} /\ Defines(i3) = {} /\ Defines(i4) = {cond}
        /\ Defines(i5) = {} /\ Defines(i6) = {end}
        /\ Target(i1) = {cond} /\ Target(i2) = {} /\ Target(i3) = {end} /\ Target(i4) = {}
        /\ Target(i5) = {} /\ Target(i6) = {}
    BY <1>11 DEF Does
  <2>3. \A l \in Defines(insts[i]) : l \in {cond, end}
    BY <1>8, <1>12, <2>2
  <2>4. ASSUME NEW l \in Defines(insts[i]), NEW j \in 1..Len(insts), l \in Defines(insts[j]) PROVE j = i
    <3>1. i = 4 \/ i = 6
      BY <1>8, <1>12, <2>2
    <3>2. j = 4 \/ j = 6
      BY <1>8, <1>12, <2>2, <2>4
    <3> QED
      BY <1>8, <1>13, <2>2, <2>4, <3>1, <3>2
  <2>5. ASSUME NEW l \in Target(insts[i])
        PROVE  \E j \in 1..Len(insts) : j > i /\ Defines(insts[j]) = {l}
    <3>1. (i = 1 /\ l = cond) \/ (i = 3 /\ l = end)
      BY <1>8, <1>12, <2>2
    <3>2. 4 \in 1..Len(insts) /\ 6 \in 1..Len(insts)
      BY <1>8
    <3> QED
      BY <1>8, <2>2, <3>1, <3>2
  <2>6. \A l \in Target(insts[i]) : \/ \E k : PendingAt(k, l)'
                                     \/ \E j \in 1..Len(insts) : j > i /\ Defines(insts[j]) = {l}
    BY <2>5
  <2>7. \A l \in Defines(insts[i]) :
          /\ l[2] \in 0..nextLabel'-1
          /\ \A k : OpenAt(k)' => l[2] # Base(k)' /\ l[2] # Base(k)' + 1
          /\ \A p \in 1..Len(code) : l \notin Defines(code[p])
          /\ \A j \in 1..Len(insts) : l \in Defines(insts[j]) => j = i
    BY <2>1, <2>3, <2>4
  <2> QED
    BY <2>6, <2>7 DEF FitsLabels
<1>16. \A l \in {stack[m].locals.cond, stack[m].locals.end} : \E j \in 1..Len(insts) : Defines(insts[j]) = {l}
  <2>1. stack[m].locals.cond = cond /\ stack[m].locals.end = end
    BY <1>5
  <2>2. 4 \in 1..Len(insts) /\ 6 \in 1..Len(insts) /\ Defines(insts[4]) = {cond} /\ Defines(insts[6]) = {end}
    BY <1>8, <1>11 DEF Does
  <2> QED
    BY <2>1, <2>2
<1>17. v \in Values'
  BY <1>5, <1>6 DEF Values
<1>18. \A i \in 1..Len(insts) : FitsTemps(insts, i) /\ FitsLabels(insts, i)
  BY <1>14, <1>15
<1> QED
  BY <1>4, <1>6, <1>16, <1>17, <1>18, ReturnKeeps

-----------------------------------------------------------------------------
(* Between two items *)

\* No call is in progress after the step, and none was before.
LEMMA IdleKeeps ==
  ASSUME Tree, IInv, Grows, Counters', VarTemps' = VarTemps, stack = <<>>,
         stack' = <<>> \/ \E n \in DOMAIN ast :
            stack' = <<Frame(n)>> /\ (ast[n].type = "STATEMENT" => ast[n].op = "RETURN"),
         NEW insts, Emits(insts),
         \A i \in 1..Len(insts) : FitsTemps(insts, i) /\ FitsLabels(insts, i)
  PROVE  IInv'
<1>1. \A k : ~OpenAt(k)
  BY DEF OpenAt
<1>2. CASE stack' = <<>>
  <2>1. Frames'
    BY <1>2 DEF Frames, IsSequence
  <2>2. \A k : ~OpenAt(k)'
    BY <1>2 DEF OpenAt
  <2> QED
    BY <1>1, <2>1, <2>2, StepKeeps DEF PendingAt
<1>3. CASE \E n \in DOMAIN ast :
             stack' = <<Frame(n)>> /\ (ast[n].type = "STATEMENT" => ast[n].op = "RETURN")
  <2>1. PICK n \in DOMAIN ast :
             stack' = <<Frame(n)>> /\ (ast[n].type = "STATEMENT" => ast[n].op = "RETURN")
    BY <1>3
  <2>2. Len(stack') = 1 /\ stack'[1] = [node |-> n, results |-> <<>>, locals |-> NoLocals]
        /\ ast' = ast /\ IsSequence(stack')
    <3>1. <<Frame(n)>> \in Seq({Frame(n)})
      OBVIOUS
    <3>2. IsSequence(stack')
      BY <2>1, <3>1, SequenceOf
    <3> QED
      BY <2>1, <3>2 DEF Frame, Grows, input
  <2>3. FrameOK(1)'
    <3>1. Above(1)' = NULL
      BY <2>2 DEF Above
    <3>2. <<>> \in Seq(Values') /\ Len(<<>>) = 0
      OBVIOUS
    <3>3. PICK f : f = stack'[1]
      OBVIOUS
    <3>4. f.node = n /\ f.results = <<>> /\ f.locals = NoLocals
          /\ f = [node |-> f.node, results |-> f.results, locals |-> f.locals]
      BY <2>2, <3>3
    <3>5. Holds(f, NULL, 1)'
      <4>1. ~(1 > 1)
        OBVIOUS
      <4> QED
        BY <2>1, <2>2, <3>2, <3>4, <4>1 DEF Holds
    <3> QED
      BY <3>1, <3>3, <3>5 DEF FrameOK, Holds
  <2>4. Frames'
    BY <2>2, <2>3 DEF Frames
  <2>5. \A k : ~OpenAt(k)'
    <3>1. DOMAIN stack' = 1..1
      BY <2>2 DEF IsSequence
    <3> QED
      BY <2>2, <3>1 DEF OpenAt, Started
  <2> QED
    BY <1>1, <2>4, <2>5, StepKeeps DEF PendingAt
<1> QED
  BY <1>2, <1>3

LEMMA GenerateItemKeeps ==
  ASSUME Tree, IInv, GenerateItem
  PROVE  IInv'
<1>1. PICK n, k : n = body[item] /\ k = item
  OBVIOUS
<1>2. /\ status = "running" /\ stack = <<>> /\ k <= Len(body) /\ item' = k + 1
      /\ hadReturn' = (hadReturn \/ IsReturn(ast[n]))
      /\ stack' = IF ast[n].type = "STATEMENT" /\ ast[n].op = "NULL_EXPRESSION"
                  THEN <<>> ELSE <<Frame(n)>>
      /\ UNCHANGED <<input, code, ids, status>>
  BY <1>1 DEF GenerateItem
<1>3. /\ k \in 1..Len(body) /\ n \in 1..Len(ast) /\ n \in DOMAIN ast /\ IsNode(ast[n])
      /\ item' \in 1..Len(body)+1
  <2>1. Len(body) \in Nat /\ item \in 1..Len(body)+1
    BY DEF IInv, Counters, Tree, IsTree
  <2>2. k \in 1..Len(body) /\ item' \in 1..Len(body)+1
    BY <1>1, <1>2, <2>1
  <2>3. n \in 1..Len(ast)
    BY <1>1, <2>2 DEF Tree, IsTree
  <2> QED
    BY <2>2, <2>3 DEF Tree, IsTree
<1>4. ast[n].type = "STATEMENT" /\ ast[n].op # "NULL_EXPRESSION" => ast[n].op = "RETURN"
  BY <1>3 DEF IsNode
<1>5. hadReturn' \in BOOLEAN
  BY <1>2, Zenon
<1>6. /\ ast' = ast /\ body' = body /\ nextId' = nextId /\ nextLabel' = nextLabel /\ varTemp' = varTemp
      /\ status' = status /\ code' = code
  BY <1>2 DEF input, ids
<1>7. Names' = Names /\ VarTemps' = VarTemps
  BY <1>6 DEF Names, VarTemps
<1>8. Counters'
  BY <1>3, <1>5, <1>6, <1>7 DEF IInv, Counters
<1>9. Grows
  BY <1>6, <1>7 DEF Grows, input, IInv, Counters
<1>10. Emits(<<>>)
  BY <1>6, EmitsNothing DEF IInv
<1> QED
  BY <1>2, <1>3, <1>4, <1>7, <1>8, <1>9, <1>10, FitsNone, IdleKeeps

LEMMA FinishKeeps ==
  ASSUME Tree, IInv, Finish
  PROVE  IInv'
<1>1. /\ stack = <<>> /\ stack' = <<>> /\ status' = "done" /\ UNCHANGED <<input, nextLabel, varTemp, loop>>
  BY DEF Finish
<1>2. CASE UNCHANGED <<code, nextId>>
  <2>1. Counters' /\ Grows /\ VarTemps' = VarTemps
    BY <1>1, <1>2, CountersGrow DEF IInv, Counters
  <2>2. Emits(<<>>)
    BY <1>2, EmitsNothing DEF IInv
  <2> QED
    BY <1>1, <2>1, <2>2, FitsNone, IdleKeeps
<1>3. CASE ~UNCHANGED <<code, nextId>>
  <2>1. PICK v, x, i1, i2 : /\ v = TempOp(nextId) /\ x = ConstOp(0)
                            /\ i1 = ir_instruction_copy(v, x) /\ i2 = ir_instruction_return(v)
    OBVIOUS
  <2>2. Emit(<<i1, i2>>) /\ nextId' = nextId + 1
    BY <1>3, <2>1 DEF Finish
  <2>3. Counters' /\ Grows /\ VarTemps' = VarTemps
    BY <1>1, <2>2, CountersGrow DEF IInv, Counters
  <2>4. nextId \in 0..nextId'-1 /\ Free(nextId)
    BY <2>2, NewValue, FreeTemps DEF IInv, Counters
  <2>5. v.value = nextId /\ TempsOf(v) = {nextId} /\ TempsOf(x) = {}
    BY <2>1 DEF TempOp, ConstOp, Operand, TempsOf
  <2>6. /\ Does(i1, {}, {nextId}, {}, {}) /\ ~Computes(i1)
        /\ Does(i2, {nextId}, {}, {}, {}) /\ ~Computes(i2)
    <3>1. Does(i1, TempsOf(x), {v.value}, {}, {}) /\ ~Computes(i1)
      BY <2>1, Copying
    <3>2. Does(i2, TempsOf(v), {}, {}, {}) /\ ~Computes(i2)
      BY <2>1, Returning
    <3> QED
      BY <2>5, <3>1, <3>2
  <2>7. PICK insts : insts = <<i1, i2>>
    OBVIOUS
  <2>8. IsSequence(insts) /\ Len(insts) = 2 /\ insts[1] = i1 /\ insts[2] = i2
    <3>1. <<i1, i2>> \in Seq({i1, i2})
      OBVIOUS
    <3>2. IsSequence(insts)
      BY <2>7, <3>1, SequenceOf
    <3> QED
      BY <2>7, <3>2
  <2>9. Emits(insts)
    BY <2>2, <2>7, <2>8 DEF Emit, Emits
  <2>10. \A i \in 1..Len(insts) : i = 1 \/ i = 2
    BY <2>8
  <2>11. \A k : ~OpenAt(k)'
    BY <1>1 DEF OpenAt
  <2>12. ASSUME NEW i \in 1..Len(insts) PROVE FitsTemps(insts, i) /\ FitsLabels(insts, i)
    <3>1. /\ Reads(insts[i]) \subseteq {nextId} /\ Writes(insts[i]) \subseteq {nextId}
          /\ insts[i].dest_id \in Nat /\ ~Computes(insts[i])
          /\ Defines(insts[i]) = {} /\ Target(insts[i]) = {}
      BY <2>6, <2>8, <2>10 DEF Does
    <3> QED
      BY <2>4, <2>11, <3>1 DEF FitsTemps, FitsLabels, Free
  <2> QED
    BY <1>1, <2>3, <2>9, <2>12, IdleKeeps
<1> QED
  BY <1>2, <1>3

-----------------------------------------------------------------------------
(* The theorems *)

\* The generator begins with the invariant, on a tree.
LEMMA FreshHolds == ASSUME Tree, Fresh PROVE IInv
<1>1. /\ code = <<>> /\ nextId = 0 /\ nextLabel = 0 /\ varTemp = <<>> /\ stack = <<>>
      /\ item = 1 /\ hadReturn = FALSE /\ status = "running"
  BY DEF Fresh
<1>2. Tree
  OBVIOUS
<1>3. DOMAIN varTemp = {}
  BY <1>1
<1>4. Len(body) \in Nat
  BY <1>2 DEF Tree, IsTree
<1>5. Counters
  <2>1. item \in 1..Len(body)+1
    BY <1>1, <1>4
  <2>2. nextId \in Nat /\ nextLabel \in Nat /\ hadReturn \in BOOLEAN /\ status \in {"running", "done", "aborted"}
    BY <1>1
  <2> QED
    BY <1>3, <2>1, <2>2 DEF Counters
<1>6. Frames /\ Temps /\ Labels
  BY <1>1 DEF Frames, Temps, Labels, IsSequence
<1>7. Opens
  BY <1>1 DEF Opens, OpenAt
<1> QED
  BY <1>5, <1>6, <1>7 DEF IInv

LEMMA InitHolds == Init => Tree /\ IInv
<1> SUFFICES ASSUME Init PROVE Tree /\ IInv
  OBVIOUS
<1>1. Tree
  BY IRGenAssumption DEF Init, Tree
<1> QED
  BY <1>1, FreshHolds DEF Init

LEMMA NextKeeps == Tree /\ IInv /\ [Next]_vars => Tree' /\ IInv'
<1> SUFFICES ASSUME Tree, IInv, [Next]_vars PROVE Tree' /\ IInv'
  OBVIOUS
<1>1. UNCHANGED input
  BY DEF Next, vars, GenerateItem, Finish, CallReturned, EmitReturn, IntLiteral, Variable, CallOperand,
         EmitUnary, CallLeft, CallRight, EmitBinary, ShortCallLeft, ShortCallRight, ShortEnd,
         DeclareOnly, CallInit, EmitInit, CallLhs, CallRhs, EmitAssignment
<1>2. Tree'
  BY <1>1 DEF Tree, input
<1>3. CASE Next
  BY <1>2, <1>3, GenerateItemKeeps, FinishKeeps, CallsKeep, EmitReturnKeeps, IntLiteralKeeps, VariableKeeps,
     EmitUnaryKeeps, EmitBinaryKeeps, ShortCallLeftKeeps, ShortCallRightKeeps, ShortEndKeeps,
     DeclareOnlyKeeps, CallInitKeeps, EmitInitKeeps, CallLhsKeeps, EmitAssignmentKeeps DEF Next
<1>4. CASE UNCHANGED vars
  <2>1. UNCHANGED <<input, code, ids, stack, loop>> /\ status' \in {"running", "done", "aborted"}
    BY <1>4 DEF vars, IInv, Counters
  <2> QED
    BY <1>2, <2>1, AbortKeeps
<1> QED
  BY <1>2, <1>3, <1>4

LEMMA Invariant == Spec => [](Tree /\ IInv)
BY InitHolds, NextKeeps, PTL DEF Spec

\* The temporaries of the short circuits in progress.
LEMMA ShortTempsAreOpen ==
  ASSUME Tree, IInv
  PROVE  \A t \in ShortTemps : \E k : OpenAt(k) /\ t = Temp(k)
<1> SUFFICES ASSUME NEW t \in ShortTemps PROVE \E k : OpenAt(k) /\ t = Temp(k)
  OBVIOUS
<1>1. PICK k \in DOMAIN stack : /\ ast[stack[k].node].type = "BINARY" /\ stack[k].locals # NoLocals
                                /\ t = stack[k].locals.temp.value
  BY DEF ShortTemps
<1>2. k \in 1..Len(stack) /\ Holds(stack[k], Above(k), k) /\ (Above(k) # NULL <=> k < Len(stack))
  BY <1>1, NodesAreNodes DEF IInv, Frames, FrameOK, IsSequence
<1>3. Started(k)
  BY <1>1, <1>2 DEF Holds, Started
<1>4. ShortAt(k)
  BY <1>1, <1>2, <1>3 DEF Holds, LocalsOf, ShortAt, Started
<1> QED
  BY <1>1, <1>3, <1>4 DEF OpenAt, Temp

LEMMA FreshFromInvariant == Tree /\ IInv => FreshTemporaries
<1> SUFFICES ASSUME Tree, IInv PROVE FreshTemporaries
  OBVIOUS
<1>1. DOMAIN code = 1..Len(code)
  BY DEF IInv, Temps, IsSequence
<1>2. \A x, y \in DOMAIN varTemp : varTemp[x] = varTemp[y] => x = y
  BY DEF IInv, Counters
<1>3. ASSUME NEW p \in DOMAIN code, Computes(code[p])
      PROVE  /\ code[p].dest_id \notin VarTemps
             /\ \A q \in DOMAIN code : q # p => code[p].dest_id \notin Writes(code[q])
  BY <1>1, <1>3 DEF IInv, Temps
<1>4. ShortTemps \cap VarTemps = {}
  BY ShortTempsAreOpen DEF IInv, Opens
<1>5. \A p \in DOMAIN code : Writes(code[p]) \cap ShortTemps = {}
  BY <1>1, ShortTempsAreOpen DEF IInv, Temps
<1> QED
  BY <1>2, <1>3, <1>4, <1>5 DEF FreshTemporaries

LEMMA ResolvedFromInvariant == Tree /\ IInv => LabelsResolve
<1> SUFFICES ASSUME Tree, IInv PROVE LabelsResolve
  OBVIOUS
<1>1. DOMAIN code = 1..Len(code)
  BY DEF IInv, Temps, IsSequence
<1>2. \A p, q \in DOMAIN code : Defines(code[p]) \cap Defines(code[q]) # {} => p = q
  BY <1>1 DEF IInv, Labels
<1>3. ASSUME NEW p \in DOMAIN code, NEW l \in Target(code[p])
      PROVE  \/ l \in PendingLabels
             \/ \E q \in DOMAIN code : q > p /\ Defines(code[q]) = {l}
  <2>1. CASE \E k : PendingAt(k, l)
    BY <2>1 DEF PendingAt, PendingLabels, OpenAt
  <2>2. CASE \E q \in 1..Len(code) : q > p /\ Defines(code[q]) = {l}
    BY <1>1, <2>2
  <2> QED
    BY <1>1, <2>1, <2>2 DEF IInv, Labels
<1> QED
  BY <1>2, <1>3 DEF LabelsResolve

\* instruction_generate_id never hands out a temporary that another instruction
\* computes, another variable has or an unfinished short circuit needs.
THEOREM TemporariesAreFresh == Spec => []FreshTemporaries
BY Invariant, FreshFromInvariant, PTL

\* Every label that generate_expression jumps to is defined once and later, or
\* belongs to a short circuit that has still to define it.
THEOREM JumpsResolve == Spec => []LabelsResolve
BY Invariant, ResolvedFromInvariant, PTL

LEMMA TypesFromInvariant == Tree /\ IInv => TypeOK
<1> SUFFICES ASSUME Tree, IInv PROVE TypeOK
  OBVIOUS
<1>1. DOMAIN code = 1..Len(code) /\ DOMAIN stack = 1..Len(stack)
  BY DEF IInv, Temps, Frames, IsSequence
<1>2. ASSUME NEW k \in DOMAIN stack
      PROVE  /\ stack[k].node \in DOMAIN ast
             /\ Len(stack[k].results) <= 2
             /\ \A j \in DOMAIN stack[k].results : OperandOK(stack[k].results[j])
  <2>1. PICK r : r = stack[k].results
    OBVIOUS
  <2>2. /\ stack[k].node \in DOMAIN ast /\ r \in Seq(Values)
        /\ Len(r) <= 1 \/ Len(r) <= 2
    BY <1>1, <2>1 DEF IInv, Frames, FrameOK, Holds
  <2>3. \A v \in Values : OperandOK(v)
    BY DEF Values, OperandOK, TempOp, ConstOp, Operand, NoLabel
  <2>4. Len(r) \in Nat /\ DOMAIN r = 1..Len(r) /\ \A j \in 1..Len(r) : r[j] \in Values
    BY <2>2, SequenceOf DEF IsSequence
  <2> QED
    BY <2>1, <2>2, <2>3, <2>4
<1>3. \A p \in DOMAIN code : code[p].dest_id \in Nat /\ Reads(code[p]) \cup Writes(code[p]) \subseteq 0..nextId-1
  BY <1>1 DEF IInv, Temps
<1> QED
  BY <1>2, <1>3 DEF TypeOK, IInv, Counters

\* The counters, the operands on the call stack and the temporaries in the code
\* stay what they are declared to be.
THEOREM TypeCorrect == Spec => []TypeOK
BY Invariant, TypesFromInvariant, PTL

-----------------------------------------------------------------------------
(* What the back end gets *)

LEMMA BuiltInstruction ==
  ASSUME NEW type \in IRTypes, NEW d \in Int, NEW a \in IROperands, NEW b \in IROperands,
         type \in {"LABEL", "JUMP"} => a.label # NoLabel,
         type \in {"JUMP_ZERO", "JUMP_NOT_ZERO"} => b.label # NoLabel,
         type \in ComputeTypes => d \notin Reads(Instruction(type, d, a, b))
  PROVE  Instruction(type, d, a, b) \in Generated
<1> DEFINE i == Instruction(type, d, a, b)
<1>1. /\ i \in [type : IRTypes, dest_id : Int, src1 : IROperands, src2 : IROperands]
      /\ i.type = type /\ i.dest_id = d /\ i.src1 = a /\ i.src2 = b
  BY DEF Instruction
<1>2. Computes(i) => i.dest_id \notin Reads(i)
  BY <1>1 DEF Computes
<1> HIDE DEF i
<1>3. i \in IRInstructions
  BY <1>1 DEF IRInstructions
<1>4. i \in Generated
  BY <1>2, <1>3 DEF Generated
<1> QED
  BY <1>4 DEF i

LEMMA BuiltOperands ==
  /\ NullOp \in IROperands
  /\ \A t \in Int : TempOp(t) \in IROperands
  /\ \A v \in Values : ValueOf(v) \in IROperands /\ v.value \in Int
  /\ \A c \in Int : ValueOf(ConstOp(c)) \in IROperands
  /\ \A l \in LabelNames : LabelOp(l) \in IROperands /\ LabelOp(l).label = l
<1>1. ASSUME NEW t \in Int, NEW type \in {"NULL", "TEMP", "CONST", "LABEL"},
             NEW l \in {NoLabel} \cup (LabelNames)
      PROVE  Operand(type, t, l) \in IROperands
  BY DEF Operand, IROperands
<1>2. NoLabel \in {NoLabel} \cup (LabelNames)
  OBVIOUS
<1> HIDE DEF NoLabel
<1>3. NullOp \in IROperands /\ (\A t \in Int : TempOp(t) \in IROperands)
  BY <1>1, <1>2 DEF NullOp, TempOp
<1>4. \A l \in LabelNames : LabelOp(l) \in IROperands
  BY <1>1 DEF LabelOp
<1>5. \A l \in LabelNames : LabelOp(l).label = l
  BY DEF LabelOp, Operand
<1>6. ASSUME NEW v \in Values PROVE v.value \in Int /\ v.type \in {"NULL", "TEMP", "CONST", "LABEL"}
  BY DEF Values, TempOp, ConstOp, Operand
<1>7. \A v \in Values : ValueOf(v) \in IROperands
  BY <1>1, <1>2, <1>6 DEF ValueOf
<1>8. \A c \in Int : ConstOp(c) \in Values
  BY DEF Values
<1> QED
  BY <1>3, <1>4, <1>5, <1>6, <1>7, <1>8

LEMMA BuiltComputing ==
  ASSUME NEW type \in ComputeTypes, nextId \in Nat, NEW v \in Values, NEW w \in Values
  PROVE  /\ ir_instruction_unary(type, nextId, v) \in Generated
         /\ ir_instruction_binary(type, nextId, v, w) \in Generated
<1>1. type \in IRTypes /\ type \notin {"LABEL", "JUMP"} /\ type \notin {"JUMP_ZERO", "JUMP_NOT_ZERO"}
  BY DEF IRTypes, ComputeTypes
<1>2. \A u \in Values : TempsOf(u) \subseteq 0..nextId-1
  BY DEF Values, TempsOf, TempOp, ConstOp, Operand
<1>3. nextId \notin 0..nextId-1
  OBVIOUS
<1>4. nextId \notin Reads(ir_instruction_unary(type, nextId, v))
  BY <1>2, <1>3, Computing DEF Does
<1>5. nextId \notin Reads(ir_instruction_binary(type, nextId, v, w))
  BY <1>2, <1>3, Computing DEF Does
<1>6. ValueOf(v) \in IROperands /\ ValueOf(w) \in IROperands /\ NullOp \in IROperands
  BY BuiltOperands
<1>7. ir_instruction_unary(type, nextId, v) \in Generated
  <2>1. nextId \notin Reads(Instruction(type, nextId, ValueOf(v), NullOp))
    BY <1>4 DEF ir_instruction_unary
  <2>2. Instruction(type, nextId, ValueOf(v), NullOp) \in Generated
    <3>1. type \in {"LABEL", "JUMP"} => ValueOf(v).label # NoLabel
      BY <1>1
    <3>2. type \in {"JUMP_ZERO", "JUMP_NOT_ZERO"} => NullOp.label # NoLabel
      BY <1>1
    <3>3. nextId \in Int
      OBVIOUS
    <3> QED
      BY <1>1, <1>6, <2>1, <3>1, <3>2, <3>3, BuiltInstruction, Zenon
  <2> QED
    BY <2>2 DEF ir_instruction_unary
<1>8. ir_instruction_binary(type, nextId, v, w) \in Generated
  BY <1>1, <1>5, <1>6, BuiltInstruction DEF ir_instruction_binary
<1> QED
  BY <1>7, <1>8

LEMMA BuiltOthers ==
  ASSUME NEW v \in Values
  PROVE  /\ ir_instruction_return(v) \in Generated
         /\ \A t \in Int : ir_instruction_copy(TempOp(t), v) \in Generated
         /\ \A l \in LabelNames : /\ ir_instruction_label(l) \in Generated
                                     /\ ir_instruction_branch_always(l) \in Generated
         /\ \A l \in LabelNames, type \in {"JUMP_ZERO", "JUMP_NOT_ZERO"} :
              ir_instruction_branch_condition(type, v, l) \in Generated
<1>1. ValueOf(v) \in IROperands /\ NullOp \in IROperands
  BY BuiltOperands
<1>2. \A type \in {"RETURN", "COPY", "LABEL", "JUMP", "JUMP_ZERO", "JUMP_NOT_ZERO"} :
        type \in IRTypes /\ type \notin ComputeTypes
  BY DEF IRTypes, ComputeTypes
<1>3. ir_instruction_return(v) \in Generated
  BY <1>1, <1>2, BuiltInstruction DEF ir_instruction_return
<1>4. ASSUME NEW t \in Int PROVE ir_instruction_copy(TempOp(t), v) \in Generated
  <2>1. TempOp(TempOp(t).value) \in IROperands
    BY BuiltOperands DEF TempOp, Operand
  <2> QED
    BY <1>1, <1>2, <2>1, BuiltInstruction DEF ir_instruction_copy
<1>5. ASSUME NEW l \in LabelNames
      PROVE  LabelOp(l) \in IROperands /\ LabelOp(l).label # NoLabel
  <2>1. l # NoLabel
    <3>1. PICK p, n : l = <<p, n>>
      BY DEF LabelNames
    <3>2. Len(<<p, n>>) = 2 /\ Len(<<>>) = 0
      OBVIOUS
    <3> QED
      BY <3>1, <3>2 DEF NoLabel
  <2> QED
    BY <2>1, BuiltOperands
<1>6. ASSUME NEW l \in LabelNames PROVE ir_instruction_label(l) \in Generated
  <2>1. Instruction("LABEL", 0, LabelOp(l), NullOp) \in Generated
    BY <1>1, <1>2, <1>5, BuiltInstruction
  <2> QED
    BY <2>1 DEF ir_instruction_label
<1>7. ASSUME NEW l \in LabelNames PROVE ir_instruction_branch_always(l) \in Generated
  BY <1>1, <1>2, <1>5, BuiltInstruction DEF ir_instruction_branch_always
<1>8. ASSUME NEW l \in LabelNames, NEW type \in {"JUMP_ZERO", "JUMP_NOT_ZERO"}
      PROVE  ir_instruction_branch_condition(type, v, l) \in Generated
  BY <1>1, <1>2, <1>5, BuiltInstruction DEF ir_instruction_branch_condition
<1> QED
  BY <1>3, <1>4, <1>6, <1>7, <1>8

\* The results of the frame on top, and the locals of a short circuit.
LEMMA TopValues ==
  ASSUME Tree, IInv, stack # <<>>, NEW k \in Nat, Len(Top.results) = k
  PROVE  /\ \A j \in 1..k : Top.results[j] \in Values
         /\ Here.type = "UNARY" => IRType(Here.op) \in ComputeTypes
         /\ (Here.type = "BINARY" /\ Here.op \notin ShortOps) => IRType(Here.op) \in ComputeTypes
         /\ (k > 0 /\ Here.type = "BINARY" /\ Here.op \in ShortOps) =>
              \E t \in Nat, l \in Nat, pr \in {"false", "true"} : Top.locals = ShortLocal(t, l, pr)
         /\ (k > 0 /\ Here.type = "DECLARATION") => \E t \in Nat : Top.locals.temp = TempOp(t)
         /\ (k > 0 /\ Here.type = "ASSIGNMENT") => \E t \in Nat : Top.results[1] = TempOp(t)
<1>1. PICK m : m = Len(stack)
  OBVIOUS
<1>2. /\ \A j \in 1..k : Top.results[j] \in Values
      /\ k > 0 => Top.locals \in LocalsOf(Top.node)
      /\ (k > 0 /\ Here.type = "ASSIGNMENT") => Top.results[1] \in {TempOp(t) : t \in VarTemps}
  BY TopResults
<1>3. Here = ast[Top.node] /\ IsNode(Here)
  BY <1>1, OnTop
<1>4. VarTemps \subseteq Nat /\ nextId \in Nat /\ nextLabel \in Nat
  BY DEF IInv, Counters, VarTemps
<1>5. Here.type = "UNARY" => IRType(Here.op) \in ComputeTypes
  BY <1>3 DEF IsNode, UnaryOps, ComputeTypes, IRType
<1>6. (Here.type = "BINARY" /\ Here.op \notin ShortOps) => IRType(Here.op) \in ComputeTypes
  BY <1>3 DEF IsNode, BinaryOps, SimpleOps, RelationalOps, ComputeTypes, IRType
<1>7. ASSUME k > 0, Here.type = "BINARY", Here.op \in ShortOps
      PROVE  \E t \in Nat, l \in Nat, pr \in {"false", "true"} : Top.locals = ShortLocal(t, l, pr)
  <2>1. Top.locals \in ShortLocals
    BY <1>2, <1>3, <1>7 DEF LocalsOf
  <2> QED
    BY <1>4, <2>1 DEF ShortLocals
<1>8. ASSUME k > 0, Here.type = "DECLARATION" PROVE \E t \in Nat : Top.locals.temp = TempOp(t)
  <2>1. Top.locals \in VarLocals
    BY <1>2, <1>3, <1>8 DEF LocalsOf
  <2> QED
    BY <1>4, <2>1 DEF VarLocals, NoLocals
<1> QED
  BY <1>2, <1>4, <1>5, <1>6, <1>7, <1>8

LEMMA AtTop ==
  ASSUME Tree, IInv, NEW type, NEW k \in Nat, At(type, k)
  PROVE  stack # <<>> /\ Len(Top.results) = k /\ Here.type = type
BY DEF At

LEMMA EmitsGenerated ==
  ASSUME code \in Seq(Generated), NEW s \in Seq(Generated), Emit(s)
  PROVE  code' \in Seq(Generated)
BY DEF Emit

LEMMA ShortEndEmitsGenerated ==
  ASSUME Tree, IInv, code \in Seq(Generated), ShortEnd
  PROVE  code' \in Seq(Generated)
<1>1. At("BINARY", 2) /\ Here.op \in ShortOps
  BY DEF ShortEnd
<1>2. stack # <<>> /\ Len(Top.results) = 2 /\ Here.type = "BINARY"
  BY <1>1, AtTop
<1>3. Top.results[2] \in Values
  BY <1>2, TopValues
<1>4. PICK t \in Nat, l \in Nat, pr \in {"false", "true"} : Top.locals = ShortLocal(t, l, pr)
  BY <1>1, <1>2, TopValues
<1>5. PICK f : f = Top.locals
  OBVIOUS
<1>6. f.temp = TempOp(t) /\ f.cond \in LabelNames /\ f.end \in LabelNames
  BY <1>4, <1>5 DEF ShortLocal, LabelNames
<1>7. PICK a, b : /\ a = ConstOp(IF IsAnd THEN 1 ELSE 0) /\ b = ConstOp(IF IsAnd THEN 0 ELSE 1)
                  /\ a \in Values /\ b \in Values
  BY DEF Values
<1>8. JumpType \in {"JUMP_ZERO", "JUMP_NOT_ZERO"}
  BY DEF JumpType
<1>9. PICK i1, i2, i3, i4, i5, i6 :
        /\ i1 = ir_instruction_branch_condition(JumpType, Top.results[2], f.cond)
        /\ i2 = ir_instruction_copy(f.temp, a) /\ i3 = ir_instruction_branch_always(f.end)
        /\ i4 = ir_instruction_label(f.cond)   /\ i5 = ir_instruction_copy(f.temp, b)
        /\ i6 = ir_instruction_label(f.end)
  OBVIOUS
<1>10. Emit(<<i1, i2, i3, i4, i5, i6>>)
  BY <1>5, <1>7, <1>9 DEF ShortEnd
<1>11. i1 \in Generated /\ i3 \in Generated /\ i4 \in Generated /\ i6 \in Generated
  BY <1>3, <1>6, <1>8, <1>9, BuiltOthers
<1>12. i2 \in Generated /\ i5 \in Generated
  BY <1>6, <1>7, <1>9, BuiltOthers
<1>13. <<i1, i2, i3, i4, i5, i6>> \in Seq(Generated)
  BY <1>11, <1>12
<1> QED
  BY <1>10, <1>13, EmitsGenerated

LEMMA ComputingEmitsGenerated ==
  ASSUME Tree, IInv, code \in Seq(Generated), EmitUnary \/ EmitBinary
  PROVE  code' \in Seq(Generated)
<1>1. nextId \in Nat
  BY DEF IInv, Counters
<1>2. CASE EmitUnary
  <2>1. stack # <<>> /\ Len(Top.results) = 1 /\ Here.type = "UNARY"
    BY <1>2, AtTop DEF EmitUnary
  <2>2. Top.results[1] \in Values /\ IRType(Here.op) \in ComputeTypes
    BY <2>1, TopValues
  <2>3. PICK i : i = ir_instruction_unary(IRType(Here.op), nextId, Top.results[1])
    OBVIOUS
  <2>4. <<i>> \in Seq(Generated)
    BY <1>1, <2>2, <2>3, BuiltComputing
  <2>5. Emit(<<i>>)
    BY <1>2, <2>3 DEF EmitUnary
  <2> QED
    BY <2>4, <2>5, EmitsGenerated
<1>3. CASE EmitBinary
  <2>1. stack # <<>> /\ Len(Top.results) = 2 /\ Here.type = "BINARY" /\ Here.op \notin ShortOps
    BY <1>3, AtTop DEF EmitBinary
  <2>2. Top.results[1] \in Values /\ Top.results[2] \in Values /\ IRType(Here.op) \in ComputeTypes
    BY <2>1, TopValues
  <2>3. PICK i : i = ir_instruction_binary(IRType(Here.op), nextId, Top.results[1], Top.results[2])
    OBVIOUS
  <2>4. <<i>> \in Seq(Generated)
    BY <1>1, <2>2, <2>3, BuiltComputing
  <2>5. Emit(<<i>>)
    BY <1>3, <2>3 DEF EmitBinary
  <2> QED
    BY <2>4, <2>5, EmitsGenerated
<1> QED
  BY <1>2, <1>3

LEMMA OthersEmitGenerated ==
  ASSUME Tree, IInv, code \in Seq(Generated), EmitReturn \/ EmitInit \/ EmitAssignment \/ ShortCallRight
  PROVE  code' \in Seq(Generated)
<1>1. CASE EmitReturn
  <2>1. stack # <<>> /\ Len(Top.results) = 1
    BY <1>1, AtTop DEF EmitReturn
  <2>2. Top.results[1] \in Values
    BY <2>1, TopValues
  <2>3. PICK i : i = ir_instruction_return(Top.results[1])
    OBVIOUS
  <2>4. <<i>> \in Seq(Generated)
    BY <2>2, <2>3, BuiltOthers
  <2>5. Emit(<<i>>)
    BY <1>1, <2>3 DEF EmitReturn
  <2> QED
    BY <2>4, <2>5, EmitsGenerated
<1>2. CASE EmitInit
  <2>1. stack # <<>> /\ Len(Top.results) = 1 /\ Here.type = "DECLARATION"
    BY <1>2, AtTop DEF EmitInit
  <2>2. Top.results[1] \in Values
    BY <2>1, TopValues
  <2>3. PICK t \in Nat : Top.locals.temp = TempOp(t)
    BY <2>1, TopValues
  <2>4. PICK i : i = ir_instruction_copy(Top.locals.temp, Top.results[1])
    OBVIOUS
  <2>5. <<i>> \in Seq(Generated)
    BY <2>2, <2>3, <2>4, BuiltOthers
  <2>6. Emit(<<i>>)
    BY <1>2, <2>4 DEF EmitInit
  <2> QED
    BY <2>5, <2>6, EmitsGenerated
<1>3. CASE EmitAssignment
  <2>1. stack # <<>> /\ Len(Top.results) = 2 /\ Here.type = "ASSIGNMENT"
    BY <1>3, AtTop DEF EmitAssignment
  <2>2. Top.results[2] \in Values
    BY <2>1, TopValues
  <2>3. PICK t \in Nat : Top.results[1] = TempOp(t)
    BY <2>1, TopValues
  <2>4. PICK i : i = ir_instruction_copy(Top.results[1], Top.results[2])
    OBVIOUS
  <2>5. <<i>> \in Seq(Generated)
    BY <2>2, <2>3, <2>4, BuiltOthers
  <2>6. Emit(<<i>>)
    BY <1>3, <2>4 DEF EmitAssignment
  <2> QED
    BY <2>5, <2>6, EmitsGenerated
<1>4. CASE ShortCallRight
  <2>1. stack # <<>> /\ Len(Top.results) = 1 /\ Here.type = "BINARY" /\ Here.op \in ShortOps
    BY <1>4, AtTop DEF ShortCallRight
  <2>2. Top.results[1] \in Values
    BY <2>1, TopValues
  <2>3. PICK t \in Nat, l \in Nat, pr \in {"false", "true"} : Top.locals = ShortLocal(t, l, pr)
    BY <2>1, TopValues
  <2>4. Top.locals.cond \in LabelNames
    BY <2>3 DEF ShortLocal, LabelNames
  <2>5. JumpType \in {"JUMP_ZERO", "JUMP_NOT_ZERO"}
    BY DEF JumpType
  <2>6. PICK i : i = ir_instruction_branch_condition(JumpType, Top.results[1], Top.locals.cond)
    OBVIOUS
  <2>7. <<i>> \in Seq(Generated)
    BY <2>2, <2>4, <2>5, <2>6, BuiltOthers
  <2>8. Emit(<<i>>)
    BY <1>4, <2>6 DEF ShortCallRight
  <2> QED
    BY <2>7, <2>8, EmitsGenerated
<1> QED
  BY <1>1, <1>2, <1>3, <1>4

LEMMA FinishEmitsGenerated ==
  ASSUME Tree, IInv, code \in Seq(Generated), Finish
  PROVE  code' \in Seq(Generated)
<1>1. CASE hadReturn
  BY <1>1 DEF Finish
<1>2. CASE ~hadReturn
  <2>1. PICK i, j : i = ir_instruction_copy(TempOp(nextId), ConstOp(0)) /\ j = ir_instruction_return(TempOp(nextId))
    OBVIOUS
  <2>2. nextId \in Nat /\ ConstOp(0) \in Values
    BY DEF IInv, Counters, Values
  <2>3. i \in Generated
    BY <2>1, <2>2, BuiltOthers
  <2>4. j \in Generated
    <3>1. ValueOf(TempOp(nextId)) = TempOp(nextId)
      BY DEF ValueOf, TempOp, Operand
    <3>2. TempOp(nextId) \in IROperands /\ NullOp \in IROperands
      BY <2>2, BuiltOperands
    <3>3. "RETURN" \in IRTypes /\ "RETURN" \notin ComputeTypes
      BY DEF IRTypes, ComputeTypes
    <3>4. Instruction("RETURN", 0, TempOp(nextId), NullOp) \in Generated
      BY <3>2, <3>3, BuiltInstruction
    <3> QED
      BY <2>1, <3>1, <3>4 DEF ir_instruction_return
  <2>5. <<i, j>> \in Seq(Generated)
    BY <2>3, <2>4
  <2>6. Emit(<<i, j>>)
    BY <1>2, <2>1 DEF Finish
  <2> QED
    BY <2>5, <2>6, EmitsGenerated
<1> QED
  BY <1>1, <1>2

LEMMA NextEmitsGenerated ==
  ASSUME Tree, IInv, code \in Seq(Generated), [Next]_vars
  PROVE  code' \in Seq(Generated)
<1>1. CASE UNCHANGED code
  BY <1>1
<1>2. CASE EmitUnary \/ EmitBinary
  BY <1>2, ComputingEmitsGenerated
<1>3. CASE EmitReturn \/ EmitInit \/ EmitAssignment \/ ShortCallRight
  BY <1>3, OthersEmitGenerated
<1>4. CASE ShortEnd
  BY <1>4, ShortEndEmitsGenerated
<1>5. CASE Finish
  BY <1>5, FinishEmitsGenerated
<1>6. CASE GenerateItem \/ CallReturned \/ IntLiteral \/ Variable \/ CallOperand \/ CallLeft \/ CallRight
  BY <1>1, <1>6 DEF GenerateItem, CallReturned, IntLiteral, Variable, CallOperand, CallLeft, CallRight
<1>7. CASE ShortCallLeft \/ DeclareOnly \/ CallInit \/ CallLhs \/ CallRhs
  BY <1>1, <1>7 DEF ShortCallLeft, DeclareOnly, CallInit, CallLhs, CallRhs
<1>8. CASE UNCHANGED vars
  BY <1>1, <1>8 DEF vars
<1> QED
  BY <1>2, <1>3, <1>4, <1>5, <1>6, <1>7, <1>8 DEF Next

\* Whatever the tree, each instruction that gen.c is handed is one of those that
\* ir.c builds: its operands have the types of their places, a jump has a label,
\* and what computes into a temporary does not read that temporary.
THEOREM GeneratorEmits == Spec => [](code \in Seq(Generated))
<1>1. Init => code \in Seq(Generated)
  BY DEF Init, Fresh
<1>2. Tree /\ IInv /\ code \in Seq(Generated) /\ [Next]_vars => (code \in Seq(Generated))'
  BY NextEmitsGenerated
<1> QED
  BY <1>1, <1>2, Invariant, PTL DEF Spec

-----------------------------------------------------------------------------
(* What has been written by the time it is read *)

\* The temporaries among the results of frame k.
Held(k) == UNION {TempsOf(stack[k].results[j]) : j \in 1..Len(stack[k].results)}

\* C[p] has temporaries that every path to instruction p writes: along the steps
\* and the jumps no more come in than go out and are written on the way.
FlowAt(C, p) ==
  /\ Reads(code[p]) \subseteq C[p] \cup VarTemps
  /\ ~Leaves(code[p]) => C[p+1] \subseteq C[p] \cup Writes(code[p])
  /\ \A q \in 1..p-1 : Target(code[q]) \cap Defines(code[p]) # {}
                         => C[p] \subseteq C[q] \cup Writes(code[q])

Flows(C) ==
  /\ C \in [1..Len(code)+1 -> SUBSET (0..nextId-1)]
  /\ C[1] = {}
  /\ \A p \in 1..Len(code) : FlowAt(C, p)

\* What the calls in progress have been handed is written where the code ends.
HeldBy(C) == \A k \in 1..Len(stack) : Held(k) \subseteq C[Len(code)+1] \cup VarTemps

\* Nothing jumps to the end of a short circuit in progress, and what jumps to its
\* condition label has with it what the calls below hold.
Lets(k, targets, written) ==
  /\ stack[k].locals.end \notin targets
  /\ stack[k].locals.cond \in targets => \A j \in 1..k-1 : Held(j) \subseteq written \cup VarTemps

JumpsBy(C) == \A k : OpenAt(k) => \A p \in 1..Len(code) : Lets(k, Target(code[p]), C[p])

Sound(C) == Flows(C) /\ HeldBy(C) /\ JumpsBy(C)

Flow == \E C : Sound(C)

-----------------------------------------------------------------------------
(* The code grows *)

\* C for the first n places, and E from the next on.
Extended(C, E, n, r) == [p \in 1..n+r+1 |-> IF p <= n THEN C[p] ELSE E[p - n]]

Agrees(D, C, E, n, r) ==
  (\A p \in 1..n+1 : D[p] = C[p]) /\ (\A j \in 1..r+1 : D[n + j] = E[j])

LEMMA ExtendedAgrees ==
  ASSUME NEW n \in Nat, NEW r \in Nat, NEW C, NEW E, E[1] = C[n+1]
  PROVE  Agrees(Extended(C, E, n, r), C, E, n, r)
<1> DEFINE D == Extended(C, E, n, r)
<1>1. \A p \in 1..n+r+1 : D[p] = IF p <= n THEN C[p] ELSE E[p - n]
  BY DEF Extended
<1>2. ASSUME NEW p \in 1..n+1 PROVE D[p] = C[p]
  <2>1. p \in 1..n+r+1
    OBVIOUS
  <2>2. CASE p <= n
    BY <1>1, <2>1, <2>2
  <2>3. CASE p = n + 1
    <3>1. ~(p <= n) /\ p - n = 1
      BY <2>3
    <3> QED
      BY <1>1, <2>1, <2>3, <3>1
  <2> QED
    BY <2>2, <2>3
<1>3. ASSUME NEW j \in 1..r+1 PROVE D[n + j] = E[j]
  <2>1. n + j \in 1..n+r+1 /\ ~(n + j <= n) /\ (n + j) - n = j
    OBVIOUS
  <2> QED
    BY <1>1, <2>1
<1> QED
  BY <1>2, <1>3 DEF Agrees

\* The instruction insts[j] of the new segment, with what E says of it.
FitsFlow(insts, C, E, j) ==
  /\ Reads(insts[j]) \subseteq E[j] \cup VarTemps'
  /\ ~Leaves(insts[j]) => E[j+1] \subseteq E[j] \cup Writes(insts[j])
  /\ \A i \in 1..j-1 : Target(insts[i]) \cap Defines(insts[j]) # {}
                         => E[j] \subseteq E[i] \cup Writes(insts[i])
  /\ \A q \in 1..Len(code) : Target(code[q]) \cap Defines(insts[j]) # {}
                               => E[j] \subseteq C[q] \cup Writes(code[q])

LEMMA FlowsGrow ==
  ASSUME IInv, Grows, NEW C, Flows(C), NEW insts, Emits(insts),
         NEW n, n = Len(code), NEW r, r = Len(insts),
         NEW E \in [1..r+1 -> SUBSET (0..nextId'-1)], E[1] = C[n+1],
         \A j \in 1..r : FitsFlow(insts, C, E, j),
         NEW D, D = Extended(C, E, n, r)
  PROVE  Flows(D)'
<1>1. /\ n \in Nat /\ r \in Nat /\ Len(code') = n + r
      /\ \A p \in 1..n : p \in 1..n+r /\ code'[p] = code[p]
      /\ \A j \in 1..r : n + j \in 1..n+r /\ code'[n + j] = insts[j]
  BY Grown DEF IInv
<1>8. \A p \in 1..n+r : p \in 1..n \/ (p - n \in 1..r /\ p = n + (p - n))
  BY <1>1
<1>2. (\A p \in 1..n+1 : D[p] = C[p]) /\ (\A j \in 1..r+1 : D[n + j] = E[j])
  <2>1. Agrees(Extended(C, E, n, r), C, E, n, r)
    BY <1>1, ExtendedAgrees
  <2> QED
    BY <2>1 DEF Agrees
<1>3. 0..nextId-1 \subseteq 0..nextId'-1 /\ VarTemps \subseteq VarTemps'
  <2> DEFINE i == nextId
             j == nextId'
  <2>1. i \in Nat /\ j \in Nat /\ i <= j
    BY DEF Grows
  <2> HIDE DEF i, j
  <2>2. 0..i-1 \subseteq 0..j-1
    BY <2>1
  <2> QED
    BY <2>2 DEF i, j, Grows
<1>4. D \in [1..Len(code')+1 -> SUBSET (0..nextId'-1)] /\ D[1] = {}
  <2>1. C \in [1..n+1 -> SUBSET (0..nextId-1)] /\ C[1] = {}
    BY DEF Flows
  <2>2. \A p \in 1..n : C[p] \in SUBSET (0..nextId'-1)
    <3>1. \A p \in 1..n : p \in 1..n+1
      BY <1>1
    <3>2. SUBSET (0..nextId-1) \subseteq SUBSET (0..nextId'-1)
      BY <1>3
    <3> QED
      BY <2>1, <3>1, <3>2
  <2>3. \A p \in 1..n+r+1 : p <= n => p \in 1..n
    BY <1>1
  <2>4. \A p \in 1..n+r+1 : ~(p <= n) => p - n \in 1..r+1
    BY <1>1
  <2>5. \A p \in 1..n+r+1 : (IF p <= n THEN C[p] ELSE E[p - n]) \in SUBSET (0..nextId'-1)
    BY <2>2, <2>3, <2>4
  <2>6. D \in [1..n+r+1 -> SUBSET (0..nextId'-1)]
    BY <2>5 DEF Extended
  <2>7. 1 \in 1..n+1
    BY <1>1
  <2> QED
    BY <1>1, <1>2, <2>1, <2>6, <2>7
<1>5. ASSUME NEW p \in 1..n PROVE FlowAt(D, p)'
  <2>1. p \in 1..n+1 /\ p + 1 \in 1..n+1 /\ \A q \in 1..p-1 : q \in 1..n /\ q \in 1..n+1
    BY <1>1
  <2>2. /\ Reads(code[p]) \subseteq C[p] \cup VarTemps
        /\ ~Leaves(code[p]) => C[p+1] \subseteq C[p] \cup Writes(code[p])
        /\ \A q \in 1..p-1 : Target(code[q]) \cap Defines(code[p]) # {}
                               => C[p] \subseteq C[q] \cup Writes(code[q])
    BY DEF Flows, FlowAt
  <2>3. /\ code'[p] = code[p] /\ D[p] = C[p] /\ D[p + 1] = C[p + 1]
        /\ \A q \in 1..p-1 : code'[q] = code[q] /\ D[q] = C[q]
    BY <1>1, <1>2, <2>1
  <2> QED
    BY <1>3, <2>2, <2>3 DEF FlowAt
<1>6. ASSUME NEW j \in 1..r PROVE FlowAt(D, n + j)'
  <2>1. j \in 1..r+1 /\ j + 1 \in 1..r+1 /\ (n + j) + 1 = n + (j + 1)
    BY <1>1
  <2>2. FitsFlow(insts, C, E, j)
    OBVIOUS
  <2>3. D[n + j] = E[j] /\ D[(n + j) + 1] = E[j + 1] /\ code'[n + j] = insts[j]
    BY <1>1, <1>2, <2>1
  <2>4. ASSUME NEW q \in 1..(n + j)-1, Target(code'[q]) \cap Defines(insts[j]) # {}
        PROVE  E[j] \subseteq D[q] \cup Writes(code'[q])
    <3>1. CASE q \in 1..n
      <4>1. code'[q] = code[q] /\ D[q] = C[q]
        <5>1. q \in 1..n+1
          BY <1>1, <3>1
        <5> QED
          BY <1>1, <1>2, <3>1, <5>1
      <4> QED
        BY <2>2, <2>4, <3>1, <4>1 DEF FitsFlow
    <3>2. CASE q \notin 1..n
      <4>1. PICK i : i = q - n
        OBVIOUS
      <4>2. q = n + i /\ i \in 1..j-1 /\ i \in 1..r /\ i \in 1..r+1
        <5>1. /\ q \in Int /\ q >= 1 /\ q <= (n + j) - 1 /\ ~(q <= n)
              /\ j \in Int /\ j <= r /\ n \in Int /\ r \in Int
          BY <1>1, <3>2
        <5>2. i \in Int /\ 1 <= i /\ i <= j - 1 /\ q = n + i
          BY <4>1, <5>1
        <5> QED
          BY <5>1, <5>2
      <4>3. code'[q] = insts[i] /\ D[q] = E[i]
        BY <1>1, <1>2, <4>2
      <4> QED
        BY <2>2, <2>4, <4>2, <4>3 DEF FitsFlow
    <3> QED
      BY <3>1, <3>2
  <2> QED
    BY <2>2, <2>3, <2>4 DEF FitsFlow, FlowAt
<1>7. \A p \in 1..Len(code') : FlowAt(D, p)'
  <2> TAKE p \in 1..Len(code')
  <2>1. CASE p \in 1..n
    BY <1>5, <2>1
  <2>2. CASE p - n \in 1..r /\ p = n + (p - n)
    <3>1. PICK j \in 1..r : p = n + j
      BY <2>2
    <3>2. FlowAt(D, n + j)'
      BY <1>6
    <3> QED
      BY <3>1, <3>2
  <2> QED
    BY <1>1, <1>8, <2>1, <2>2
<1> QED
  BY <1>4, <1>7 DEF Flows

\* E continues C over the new segment insts.
Segment(C, insts, E) ==
  /\ E \in [1..Len(insts)+1 -> SUBSET (0..nextId'-1)]
  /\ E[1] = C[Len(code)+1]
  /\ \A j \in 1..Len(insts) : FitsFlow(insts, C, E, j)

\* The jumps there were and the new ones let every short circuit be.
JumpsFlow(C, insts, E) ==
  \A k, T : OpenAt(k)' => /\ \A p \in 1..Len(code) : T = Target(code[p]) => Lets(k, T, C[p])'
                          /\ \A j \in 1..Len(insts) : T = Target(insts[j]) => Lets(k, T, E[j])'

\* The rest of Sound after the step, from what the new segment ends with.
LEMMA StepFlows ==
  ASSUME IInv, Grows, NEW C, Sound(C), NEW insts, Emits(insts), NEW E, Segment(C, insts, E),
         NEW X, X = E[Len(insts)+1], \A k \in 1..Len(stack') : Held(k)' \subseteq X \cup VarTemps',
         JumpsFlow(C, insts, E)
  PROVE  Flow'
<1>0. PICK n, r : n = Len(code) /\ r = Len(insts)
  OBVIOUS
<1>9. PICK D : D = Extended(C, E, n, r)
  OBVIOUS
<1>1. /\ n = Len(code) /\ r = Len(insts) /\ D = Extended(C, E, n, r)
      /\ E \in [1..r+1 -> SUBSET (0..nextId'-1)] /\ E[1] = C[n+1] /\ X = E[r+1]
      /\ \A j \in 1..r : FitsFlow(insts, C, E, j)
  BY <1>0, <1>9 DEF Segment
<1>2. Flows(D)'
  BY <1>1, FlowsGrow DEF Sound
<1>3. /\ n \in Nat /\ r \in Nat /\ Len(code') = n + r
      /\ \A p \in 1..n : p \in 1..n+r /\ code'[p] = code[p]
      /\ \A j \in 1..r : n + j \in 1..n+r /\ code'[n + j] = insts[j]
  BY <1>0, Grown DEF IInv
<1>4. Agrees(D, C, E, n, r)
  BY <1>1, <1>3, ExtendedAgrees
<1>5. HeldBy(D)'
  <2>1. r + 1 \in 1..r+1 /\ n + (r + 1) = Len(code') + 1
    BY <1>3
  <2>2. D[Len(code') + 1] = X
    BY <1>1, <1>4, <2>1 DEF Agrees
  <2> QED
    BY <2>2 DEF HeldBy
<1>6. ASSUME NEW k, OpenAt(k)', NEW p \in 1..n, NEW T, T = Target(code'[p]) PROVE Lets(k, T, D[p])'
  <2>1. p \in 1..n+1 /\ T = Target(code[p])
    BY <1>3, <1>6
  <2>2. D[p] = C[p]
    BY <1>4, <2>1 DEF Agrees
  <2>3. Lets(k, T, C[p])'
    BY <1>0, <1>6, <2>1 DEF JumpsFlow
  <2> QED
    BY <2>2, <2>3
<1>7. ASSUME NEW k, OpenAt(k)', NEW j \in 1..r, NEW T, T = Target(code'[n + j]) PROVE Lets(k, T, D[n + j])'
  <2>1. j \in 1..r+1 /\ T = Target(insts[j])
    BY <1>3, <1>7
  <2>2. D[n + j] = E[j]
    BY <1>4, <2>1 DEF Agrees
  <2>3. Lets(k, T, E[j])'
    BY <1>0, <1>7, <2>1 DEF JumpsFlow
  <2> QED
    BY <2>2, <2>3
<1>8. JumpsBy(D)'
  <2> SUFFICES ASSUME NEW k, OpenAt(k)', NEW p \in 1..Len(code') PROVE Lets(k, Target(code[p]), D[p])'
    BY DEF JumpsBy
  <2>1. PICK T : T = Target(code'[p])
    OBVIOUS
  <2>2. p \in 1..n \/ (p - n \in 1..r /\ p = n + (p - n))
    BY <1>3
  <2>3. Lets(k, T, D[p])'
    <3>1. CASE p \in 1..n
      BY <1>6, <2>1, <3>1
    <3>2. CASE p - n \in 1..r /\ p = n + (p - n)
      <4>1. PICK j \in 1..r : p = n + j
        BY <3>2
      <4> QED
        BY <1>7, <2>1, <4>1
    <3> QED
      BY <2>2, <3>1, <3>2
  <2> QED
    BY <2>1, <2>3 DEF Lets
<1> QED
  BY <1>2, <1>5, <1>8 DEF Flow, Sound

-----------------------------------------------------------------------------
(* What the frames hold after a call and after a return *)

LEMMA HeldAfterCall ==
  ASSUME Frames, stack # <<>>, NEW n, NEW L, Call(n, L), NEW m, m = Len(stack)
  PROVE  /\ m \in Nat /\ Len(stack') = m + 1
         /\ \A k \in 1..m : Held(k)' = Held(k)
         /\ Held(m + 1)' = {}
<1>1. m \in Nat /\ m >= 1 /\ m \in 1..m /\ IsSequence(stack) /\ \A k \in 1..m : FrameOK(k)
  BY Emptyness DEF Frames, IsSequence
<1>2. /\ IsSequence(stack') /\ Len(stack') = m + 1
      /\ \A k \in 1..m-1 : stack'[k] = stack[k]
      /\ stack'[m] = [node |-> stack[m].node, results |-> stack[m].results, locals |-> L]
      /\ stack'[m + 1] = Frame(n)
  BY <1>1, CallShape
<1>3. \A k \in 1..m : k \in 1..m-1 \/ k = m
  BY <1>1
<1>4. \A k \in 1..m : stack'[k].results = stack[k].results
  BY <1>2, <1>3
<1>5. Len(stack'[m + 1].results) = 0
  BY <1>2 DEF Frame
<1> QED
  BY <1>1, <1>2, <1>4, <1>5 DEF Held

LEMMA HeldAfterReturn ==
  ASSUME Frames, stack # <<>>, NEW v, Return(v), NEW m, m = Len(stack)
  PROVE  /\ m \in Nat /\ m >= 1 /\ Len(stack') = m - 1
         /\ \A k \in 1..m-2 : Held(k)' = Held(k)
         /\ m > 1 => Held(m - 1)' \subseteq Held(m - 1) \cup TempsOf(v)
<1>1. m \in Nat /\ m >= 1 /\ m \in 1..m /\ IsSequence(stack) /\ \A k \in 1..m : FrameOK(k)
  BY Emptyness DEF Frames, IsSequence
<1>2. /\ IsSequence(stack') /\ Len(stack') = m - 1
      /\ \A k \in 1..m-2 : stack'[k] = stack[k]
      /\ m > 1 => stack'[m - 1] = [node |-> stack[m - 1].node,
                                   results |-> Append(stack[m - 1].results, v),
                                   locals |-> stack[m - 1].locals]
  BY <1>1, ReturnShape
<1>3. ASSUME m > 1 PROVE Held(m - 1)' \subseteq Held(m - 1) \cup TempsOf(v)
  <2>1. PICK s : s = stack[m - 1].results
    OBVIOUS
  <2>2. m - 1 \in 1..m /\ IsSequence(s)
    <3>1. m - 1 \in 1..m
      BY <1>1, <1>3
    <3>2. s \in Seq(Values)
      BY <1>1, <2>1, <3>1 DEF FrameOK, Holds
    <3> QED
      BY <3>1, <3>2, SequenceOf
  <2>3. stack'[m - 1].results = Append(s, v)
    BY <1>2, <1>3, <2>1
  <2>4. /\ Len(Append(s, v)) = Len(s) + 1 /\ Len(s) \in Nat
        /\ \A k \in 1..Len(s) : Append(s, v)[k] = s[k]
        /\ Append(s, v)[Len(s) + 1] = v
    BY <2>2, Appended
  <2>5. PICK u : u = Append(s, v)
    OBVIOUS
  <2>6. \A k \in 1..Len(u) : (k \in 1..Len(s) /\ u[k] = s[k]) \/ u[k] = v
    BY <2>4, <2>5
  <2>7. UNION {TempsOf(u[j]) : j \in 1..Len(u)} \subseteq (UNION {TempsOf(s[j]) : j \in 1..Len(s)}) \cup TempsOf(v)
    <3> SUFFICES ASSUME NEW k \in 1..Len(u), NEW t \in TempsOf(u[k])
                 PROVE  t \in (UNION {TempsOf(s[j]) : j \in 1..Len(s)}) \cup TempsOf(v)
      OBVIOUS
    <3>1. CASE u[k] = v
      <4>1. t \in TempsOf(v)
        BY <3>1
      <4> QED
        BY <4>1
    <3>2. CASE k \in 1..Len(s) /\ u[k] = s[k]
      <4>1. t \in TempsOf(s[k])
        BY <3>2
      <4> QED
        BY <3>2, <4>1
    <3> QED
      BY <2>6, <3>1, <3>2
  <2> QED
    BY <2>1, <2>3, <2>5, <2>7 DEF Held
<1>4. \A k \in 1..m-2 : Held(k)' = Held(k)
  BY <1>2 DEF Held
<1> QED
  BY <1>1, <1>2, <1>3, <1>4

LEMMA LetsStays ==
  ASSUME NEW k, NEW T, NEW X, Lets(k, T, X), stack'[k].locals = stack[k].locals,
         \A j \in 1..k-1 : Held(j)' = Held(j), VarTemps \subseteq VarTemps'
  PROVE  Lets(k, T, X)'
BY DEF Lets

\* The new instructions jump to no label of a short circuit below the top.
Spares(insts) ==
  \A k : (OpenAt(k) /\ k < Len(stack)) =>
    \A j \in 1..Len(insts) : {stack[k].locals.cond, stack[k].locals.end} \cap Target(insts[j]) = {}

\* What the frames up to the k-th hold is in X, or is a variable's.
HeldUpTo(k, X) == \A j \in 1..k : Held(j) \subseteq X \cup VarTemps'

\* A return: what is handed down has been written by then.
LEMMA ReturnFlows ==
  ASSUME Tree, IInv, Grows, stack # <<>>, NEW v, Return(v), NEW C, Sound(C), NEW insts, Emits(insts),
         NEW E, Segment(C, insts, E), Spares(insts), NEW X, X = E[Len(insts)+1],
         HeldUpTo(Len(stack) - 1, X), Len(stack) = 1 \/ TempsOf(v) \subseteq X \cup VarTemps'
  PROVE  Flow'
<1>0. PICK m : m = Len(stack)
  OBVIOUS
<1>1. /\ m \in Nat /\ m >= 1 /\ Len(stack') = m - 1
      /\ \A k \in 1..m-2 : Held(k)' = Held(k)
      /\ m > 1 => Held(m - 1)' \subseteq Held(m - 1) \cup TempsOf(v)
  BY <1>0, HeldAfterReturn DEF IInv
<1>2. \A k : OpenAt(k)' => Stays(k) /\ k < m
  BY <1>0, Remains DEF Grows
<1>5. /\ \A k \in 1..m-1 : Held(k) \subseteq X \cup VarTemps'
      /\ m > 1 => TempsOf(v) \subseteq X \cup VarTemps'
  BY <1>0 DEF HeldUpTo
<1>3. \A k \in 1..Len(stack') : Held(k)' \subseteq X \cup VarTemps'
  <2> TAKE k \in 1..Len(stack')
  <2>1. CASE k \in 1..m-2
    <3>1. k \in 1..m-1
      BY <1>1, <2>1
    <3> QED
      BY <1>1, <1>5, <2>1, <3>1
  <2>2. CASE k = m - 1 /\ m > 1
    <3>1. k \in 1..m-1
      BY <1>1, <2>2
    <3> QED
      BY <1>1, <1>5, <2>2, <3>1
  <2> QED
    BY <1>1, <2>1, <2>2
<1>4. ASSUME NEW k, NEW T, OpenAt(k)'
      PROVE  /\ \A p \in 1..Len(code) : T = Target(code[p]) => Lets(k, T, C[p])'
             /\ \A j \in 1..Len(insts) : T = Target(insts[j]) => Lets(k, T, E[j])'
  <2>1. OpenAt(k) /\ k < m /\ stack'[k].locals = stack[k].locals
    BY <1>2, <1>4 DEF Stays
  <2>2. k \in 1..m
    BY <1>0, <2>1, OpenLocals DEF IInv
  <2>3. \A j \in 1..k-1 : Held(j)' = Held(j)
    <3>1. \A j \in 1..k-1 : j \in 1..m-2
      BY <1>1, <2>1, <2>2
    <3> QED
      BY <1>1, <3>1
  <2>4. ASSUME NEW p \in 1..Len(code), T = Target(code[p]) PROVE Lets(k, T, C[p])'
    <3>1. Lets(k, T, C[p])
      BY <2>1, <2>4 DEF Sound, JumpsBy
    <3> QED
      BY <2>1, <2>3, <3>1, LetsStays DEF Grows
  <2>5. ASSUME NEW j \in 1..Len(insts), T = Target(insts[j]) PROVE Lets(k, T, E[j])'
    <3>1. {stack[k].locals.cond, stack[k].locals.end} \cap T = {}
      BY <1>0, <2>1, <2>5 DEF Spares
    <3>2. Lets(k, T, E[j])
      BY <3>1 DEF Lets
    <3> QED
      BY <2>1, <2>3, <3>2, LetsStays DEF Grows
  <2> QED
    BY <2>4, <2>5
<1>6. JumpsFlow(C, insts, E)
  BY <1>4 DEF JumpsFlow
<1> QED
  BY <1>3, <1>6, StepFlows

\* The short circuit on top is open, and the new instructions jump to its labels
\* as they may; or it opens, and nothing jumps to its labels yet.
Opening(insts, E, L) ==
  \/ /\ OpenAt(Len(stack)) /\ L = stack[Len(stack)].locals
     /\ \A j \in 1..Len(insts) : Lets(Len(stack), Target(insts[j]), E[j])
  \/ Len(insts) = 0 /\ \A p \in 1..Len(code) : {L.cond, L.end} \cap Target(code[p]) = {}

\* A call: what the frames hold has been written by then.
LEMMA CallFlows ==
  ASSUME Tree, IInv, Grows, stack # <<>>, NEW node, NEW L, Call(node, L),
         NEW C, Sound(C), NEW insts, Emits(insts),
         NEW E, Segment(C, insts, E), Spares(insts), NEW X, X = E[Len(insts)+1],
         HeldUpTo(Len(stack), X), ShortAt(Len(stack)) => Opening(insts, E, L)
  PROVE  Flow'
<1>0. PICK m : m = Len(stack)
  OBVIOUS
<1>1. /\ m \in Nat /\ Len(stack') = m + 1
      /\ \A k \in 1..m : Held(k)' = Held(k)
      /\ Held(m + 1)' = {}
  BY <1>0, HeldAfterCall DEF IInv
<1>2. \A k : OpenAt(k)' => \/ OpenAt(k) /\ k < m /\ stack'[k] = stack[k]
                           \/ k = m /\ ShortAt(m) /\ stack'[m].locals = L
  BY <1>0, CallOpens DEF IInv, Grows
<1>3. \A k \in 1..Len(stack') : Held(k)' \subseteq X \cup VarTemps'
  <2> TAKE k \in 1..Len(stack')
  <2>1. CASE k \in 1..m
    BY <1>0, <1>1, <2>1 DEF HeldUpTo
  <2>2. CASE k = m + 1
    BY <1>1, <2>2
  <2> QED
    BY <1>1, <2>1, <2>2
<1>4. ASSUME NEW k, NEW T, OpenAt(k)'
      PROVE  /\ \A p \in 1..Len(code) : T = Target(code[p]) => Lets(k, T, C[p])'
             /\ \A j \in 1..Len(insts) : T = Target(insts[j]) => Lets(k, T, E[j])'
  <2>1. k \in 1..m
    BY <1>0, <1>1, <1>2, <1>4, OpenLocals, Emptyness DEF IInv, Frames, IsSequence
  <2>2. \A j \in 1..k-1 : Held(j)' = Held(j)
    <3>1. \A j \in 1..k-1 : j \in 1..m
      BY <1>1, <2>1
    <3> QED
      BY <1>1, <3>1
  <2>3. ASSUME OpenAt(k), stack'[k].locals = stack[k].locals, NEW p \in 1..Len(code), T = Target(code[p])
        PROVE  Lets(k, T, C[p])'
    <3>1. Lets(k, T, C[p])
      BY <2>3 DEF Sound, JumpsBy
    <3> QED
      BY <2>2, <2>3, <3>1, LetsStays DEF Grows
  <2>4. ASSUME stack'[k].locals = stack[k].locals, NEW j \in 1..Len(insts), Lets(k, T, E[j])
        PROVE  Lets(k, T, E[j])'
    BY <2>2, <2>4, LetsStays DEF Grows
  <2>5. CASE OpenAt(k) /\ k < m /\ stack'[k] = stack[k]
    <3>1. ASSUME NEW j \in 1..Len(insts), T = Target(insts[j]) PROVE Lets(k, T, E[j])
      <4>1. {stack[k].locals.cond, stack[k].locals.end} \cap T = {}
        BY <1>0, <2>5, <3>1 DEF Spares
      <4> QED
        BY <4>1 DEF Lets
    <3> QED
      BY <2>3, <2>4, <2>5, <3>1
  <2>6. CASE k = m /\ stack'[m].locals = L /\ OpenAt(m) /\ L = stack[m].locals
             /\ \A j \in 1..Len(insts) : Lets(m, Target(insts[j]), E[j])
    BY <2>3, <2>4, <2>6
  <2>7. CASE k = m /\ stack'[m].locals = L /\ Len(insts) = 0 /\ \A p \in 1..Len(code) : {L.cond, L.end} \cap Target(code[p]) = {}
    <3>1. ASSUME NEW p \in 1..Len(code), T = Target(code[p]) PROVE Lets(k, T, C[p])'
      BY <2>7, <3>1 DEF Lets
    <3>2. 1..Len(insts) = {}
      BY <2>7
    <3> QED
      BY <3>1, <3>2
  <2> QED
    BY <1>0, <1>2, <1>4, <2>5, <2>6, <2>7 DEF Opening
<1>6. JumpsFlow(C, insts, E)
  BY <1>4 DEF JumpsFlow
<1> QED
  BY <1>3, <1>6, StepFlows

-----------------------------------------------------------------------------
(* The actions *)

LEMMA Growing == ASSUME Tree, IInv, Next PROVE Grows
<1>1. IInv'
  BY NextKeeps
<1>2. /\ nextId \in Nat /\ nextId' \in Nat /\ nextLabel \in Nat /\ nextLabel' \in Nat
  BY <1>1 DEF IInv, Counters
<1>3. UNCHANGED input
  BY DEF Next, vars, GenerateItem, Finish, CallReturned, EmitReturn, IntLiteral, Variable, CallOperand,
         EmitUnary, CallLeft, CallRight, EmitBinary, ShortCallLeft, ShortCallRight, ShortEnd,
         DeclareOnly, CallInit, EmitInit, CallLhs, CallRhs, EmitAssignment
<1>4. nextLabel' = nextLabel \/ nextLabel' = nextLabel + 2
  BY DEF Next, ids, GenerateItem, Finish, CallReturned, EmitReturn, IntLiteral, Variable, CallOperand,
         EmitUnary, CallLeft, CallRight, EmitBinary, ShortCallLeft, ShortCallRight, ShortEnd,
         DeclareOnly, CallInit, EmitInit, CallLhs, CallRhs, EmitAssignment
<1>5. \/ varTemp' = varTemp /\ (nextId' = nextId \/ nextId' = nextId + 1)
      \/ \E name : TouchVariable(name)
  BY DEF Next, ids, GenerateItem, Finish, CallReturned, EmitReturn, IntLiteral, Variable, CallOperand,
         EmitUnary, CallLeft, CallRight, EmitBinary, ShortCallLeft, ShortCallRight, ShortEnd,
         DeclareOnly, CallInit, EmitInit, CallLhs, CallRhs, EmitAssignment
<1>6. VarTemps \subseteq VarTemps' /\ (nextId' = nextId \/ nextId' = nextId + 1)
  <2>1. CASE varTemp' = varTemp /\ (nextId' = nextId \/ nextId' = nextId + 1)
    BY <2>1 DEF VarTemps
  <2>2. CASE \E name : TouchVariable(name)
    <3>1. PICK name : TouchVariable(name)
      BY <2>2
    <3>2. CASE name \in DOMAIN varTemp
      BY <3>1, <3>2 DEF TouchVariable, VarTemps
    <3>3. CASE name \notin DOMAIN varTemp
      <4>1. /\ varTemp' = [x \in DOMAIN varTemp \cup {name} |-> IF x = name THEN nextId ELSE varTemp[x]]
            /\ nextId' = nextId + 1
        BY <3>1, <3>3 DEF TouchVariable
      <4>2. \A x \in DOMAIN varTemp : x \in DOMAIN varTemp' /\ varTemp'[x] = varTemp[x]
        BY <3>3, <4>1
      <4> QED
        BY <4>1, <4>2 DEF VarTemps
    <3> QED
      BY <3>2, <3>3
  <2> QED
    BY <1>5, <2>1, <2>2
<1>7. nextId <= nextId' /\ nextLabel <= nextLabel'
  BY <1>2, <1>4, <1>6
<1> QED
  BY <1>2, <1>3, <1>6, <1>7 DEF Grows

\* The ids of the temporaries stay ids.
LEMMA MoreIds == ASSUME Grows PROVE 0..nextId-1 \subseteq 0..nextId'-1
<1> DEFINE i == nextId
           j == nextId'
<1>1. i \in Nat /\ j \in Nat /\ i <= j
  BY DEF Grows
<1> HIDE DEF i, j
<1>2. 0..i-1 \subseteq 0..j-1
  BY <1>1
<1> QED
  BY <1>2 DEF i, j

\* Where the code ends.
LEMMA AtEnd ==
  ASSUME IInv, Grows, NEW C, Sound(C), NEW n, n = Len(code)
  PROVE  n \in Nat /\ C[n+1] \in SUBSET (0..nextId'-1)
<1>1. n \in Nat /\ n + 1 \in 1..n+1
  BY DEF IInv, Temps, IsSequence
<1>2. C[n+1] \in SUBSET (0..nextId-1)
  BY <1>1 DEF Sound, Flows
<1> QED
  BY <1>1, <1>2, MoreIds

\* The empty segment.
LEMMA NoSegment ==
  ASSUME IInv, Grows, code' = code, NEW C, Sound(C)
  PROVE  \E insts, E : /\ Emits(insts) /\ Len(insts) = 0 /\ Segment(C, insts, E) /\ Spares(insts)
                       /\ HeldUpTo(Len(stack), E[Len(insts)+1]) /\ HeldUpTo(Len(stack) - 1, E[Len(insts)+1])
<1>1. PICK n, insts : n = Len(code) /\ insts = <<>>
  OBVIOUS
<1>2. PICK E : E = [j \in 1..1 |-> C[n+1]]
  OBVIOUS
<1>3. Emits(insts) /\ Len(insts) = 0
  BY <1>1, EmitsNothing DEF IInv
<1>4. C[n+1] \in SUBSET (0..nextId'-1)
  BY <1>1, AtEnd
<1>5. Len(insts) + 1 = 1 /\ 1..Len(insts) = {} /\ 1 \in 1..1
  BY <1>3
<1>6. E \in [1..1 -> SUBSET (0..nextId'-1)] /\ E[1] = C[n+1]
  BY <1>2, <1>4, <1>5
<1>7. Segment(C, insts, E) /\ Spares(insts)
  BY <1>1, <1>5, <1>6 DEF Segment, Spares
<1>8. HeldUpTo(Len(stack), C[n+1])
  BY <1>1 DEF HeldUpTo, Sound, HeldBy, Grows
<1>9. HeldUpTo(Len(stack) - 1, C[n+1])
  <2>1. Len(stack) \in Nat
    BY DEF IInv, Frames, IsSequence
  <2>2. \A k \in 1..Len(stack)-1 : k \in 1..Len(stack)
    BY <2>1
  <2> QED
    BY <1>8, <2>2 DEF HeldUpTo
<1> QED
  BY <1>3, <1>5, <1>6, <1>7, <1>8, <1>9

LEMMA QuietReturn ==
  ASSUME Tree, IInv, Flow, Grows, stack # <<>>, code' = code, NEW v, Return(v),
         Len(stack) = 1 \/ TempsOf(v) \subseteq VarTemps'
  PROVE  Flow'
<1>1. PICK C : Sound(C)
  BY DEF Flow
<1>2. PICK insts, E : /\ Emits(insts) /\ Len(insts) = 0 /\ Segment(C, insts, E) /\ Spares(insts)
                      /\ HeldUpTo(Len(stack) - 1, E[Len(insts)+1])
  BY <1>1, NoSegment
<1>3. PICK X : X = E[Len(insts)+1]
  OBVIOUS
<1>4. HeldUpTo(Len(stack) - 1, X) /\ (Len(stack) = 1 \/ TempsOf(v) \subseteq X \cup VarTemps')
  BY <1>2, <1>3
<1> QED
  BY <1>1, <1>2, <1>3, <1>4, ReturnFlows

LEMMA QuietCall ==
  ASSUME Tree, IInv, Flow, Grows, stack # <<>>, code' = code, NEW node, NEW L, Call(node, L),
         ShortAt(Len(stack)) => \A p \in 1..Len(code) : {L.cond, L.end} \cap Target(code[p]) = {}
  PROVE  Flow'
<1>1. PICK C : Sound(C)
  BY DEF Flow
<1>2. PICK insts, E : /\ Emits(insts) /\ Len(insts) = 0 /\ Segment(C, insts, E) /\ Spares(insts)
                      /\ HeldUpTo(Len(stack), E[Len(insts)+1])
  BY <1>1, NoSegment
<1>3. PICK X : X = E[Len(insts)+1]
  OBVIOUS
<1>4. HeldUpTo(Len(stack), X)
  BY <1>2, <1>3
<1>5. ShortAt(Len(stack)) => Opening(insts, E, L)
  BY <1>2 DEF Opening
<1> QED
  BY <1>1, <1>2, <1>3, <1>4, <1>5, CallFlows

\* One instruction without labels, that reads what its frame holds.
LEMMA StraightReturn ==
  ASSUME Tree, IInv, Flow, Grows, stack # <<>>, NEW v, Return(v), NEW inst, Emit(<<inst>>),
         NEW reads, NEW writes, Does(inst, reads, writes, {}, {}),
         reads \subseteq Held(Len(stack)), writes \subseteq 0..nextId'-1,
         Len(stack) = 1 \/ TempsOf(v) \subseteq writes \cup VarTemps'
  PROVE  Flow'
<1>1. PICK C, n, m, insts : /\ Sound(C) /\ n = Len(code) /\ m = Len(stack) /\ insts = <<inst>>
  BY DEF Flow
<1>2. PICK E, X : X = C[n+1] \cup writes /\ E = [j \in 1..2 |-> IF j = 1 THEN C[n+1] ELSE X]
  OBVIOUS
<1>3. IsSequence(insts) /\ Emits(insts) /\ Len(insts) = 1 /\ insts[1] = inst
  BY <1>1 DEF Emits, Emit, IsSequence
<1>4. E \in [1..2 -> SUBSET (0..nextId'-1)] /\ E[1] = C[n+1] /\ E[2] = X
  <2>1. C[n+1] \in SUBSET (0..nextId'-1) /\ X \in SUBSET (0..nextId'-1)
    BY <1>1, <1>2, AtEnd
  <2>2. 1 \in 1..2 /\ 2 \in 1..2 /\ 2 # 1
    OBVIOUS
  <2> QED
    BY <1>2, <2>1, <2>2
<1>5. m \in Nat /\ m \in 1..m /\ \A k \in 1..m-1 : k \in 1..m
  BY <1>1, Emptyness DEF IInv, Frames, IsSequence
<1>6. \A k \in 1..m : Held(k) \subseteq C[n+1] \cup VarTemps'
  BY <1>1 DEF Sound, HeldBy, Grows
<1>7. FitsFlow(insts, C, E, 1) /\ Target(insts[1]) = {}
  <2>1. 1..1-1 = {} /\ 1 + 1 = 2
    OBVIOUS
  <2>2. Reads(inst) = reads /\ Writes(inst) = writes /\ Defines(inst) = {} /\ Target(inst) = {}
    BY DEF Does
  <2>3. reads \subseteq E[1] \cup VarTemps'
    BY <1>1, <1>4, <1>5, <1>6
  <2>4. E[2] = E[1] \cup writes
    BY <1>2, <1>4
  <2> QED
    BY <1>3, <2>1, <2>2, <2>3, <2>4 DEF FitsFlow
<1>8. Len(insts) + 1 = 2 /\ \A j \in 1..Len(insts) : j = 1
  BY <1>3
<1>9. Segment(C, insts, E) /\ Spares(insts)
  BY <1>1, <1>4, <1>7, <1>8 DEF Segment, Spares
<1>10. X = E[Len(insts)+1]
  BY <1>4, <1>8
<1>11. HeldUpTo(Len(stack) - 1, X)
  BY <1>1, <1>2, <1>5, <1>6 DEF HeldUpTo
<1>12. Len(stack) = 1 \/ TempsOf(v) \subseteq X \cup VarTemps'
  BY <1>2
<1> QED
  BY <1>1, <1>3, <1>9, <1>10, <1>11, <1>12, ReturnFlows

LEMMA CallsFlow ==
  ASSUME Tree, IInv, Flow, Grows, CallReturned \/ CallOperand \/ CallLeft \/ CallRight \/ CallRhs \/ CallInit
  PROVE  Flow'
<1>1. /\ stack # <<>> /\ code' = code
      /\ Here.type # "BINARY" \/ Here.op \notin ShortOps
      /\ \E n, L : Call(n, L)
  BY DEF CallReturned, CallOperand, CallLeft, CallRight, CallRhs, CallInit, At
<1>2. ~ShortAt(Len(stack))
  BY <1>1, OnTop
<1>3. PICK n, L : Call(n, L)
  BY <1>1
<1> QED
  BY <1>1, <1>2, <1>3, QuietCall

\* Nothing changes but the status.
LEMMA SameFlow ==
  ASSUME Flow, UNCHANGED <<input, code, ids, stack>>
  PROVE  Flow'
<1>1. PICK C : Sound(C)
  BY DEF Flow
<1>2. /\ ast' = ast /\ code' = code /\ nextId' = nextId /\ varTemp' = varTemp /\ stack' = stack
      /\ VarTemps' = VarTemps
  BY DEF input, ids, VarTemps
<1>3. Flows(C)'
  BY <1>1, <1>2 DEF Sound, Flows, FlowAt
<1>4. HeldBy(C)'
  BY <1>1, <1>2 DEF Sound, HeldBy, Held
<1>5. JumpsBy(C)'
  <2> SUFFICES ASSUME NEW k, OpenAt(k)', NEW p \in 1..Len(code') PROVE Lets(k, Target(code[p]), C[p])'
    BY DEF JumpsBy
  <2>1. OpenAt(k)
    BY <1>2 DEF OpenAt, ShortAt, Started
  <2>2. Lets(k, Target(code[p]), C[p])
    BY <1>1, <1>2, <2>1 DEF Sound, JumpsBy
  <2> QED
    BY <1>2, <2>2 DEF Lets, Held
<1> QED
  BY <1>3, <1>4, <1>5 DEF Flow, Sound

LEMMA CallLhsFlows ==
  ASSUME Tree, IInv, Flow, Grows, CallLhs
  PROVE  Flow'
<1>1. /\ stack # <<>> /\ Here.type = "ASSIGNMENT" /\ UNCHANGED <<input, code, ids>>
      /\ (\E n, L : Call(n, L)) \/ UNCHANGED stack
  BY DEF CallLhs, At
<1>2. CASE \E n, L : Call(n, L)
  <2>1. PICK n, L : Call(n, L)
    BY <1>2
  <2>2. ~ShortAt(Len(stack)) /\ code' = code
    BY <1>1, OnTop
  <2> QED
    BY <1>1, <2>1, <2>2, QuietCall
<1>3. CASE UNCHANGED stack
  BY <1>1, <1>3, SameFlow
<1> QED
  BY <1>1, <1>2, <1>3

LEMMA ShortCallLeftFlows ==
  ASSUME Tree, IInv, Flow, Grows, ShortCallLeft
  PROVE  Flow'
<1>1. PICK n, L : /\ stack # <<>> /\ code' = code /\ Call(n, L)
                  /\ L = ShortLocal(nextId, nextLabel, CondPrefix)
  BY DEF ShortCallLeft, At, ShortLocal
<1>2. L.cond[2] = nextLabel /\ L.end[2] = nextLabel + 1 /\ nextLabel \in Nat
  BY <1>1 DEF ShortLocal, IInv, Counters
<1>3. ASSUME NEW p \in 1..Len(code), NEW l \in Target(code[p])
      PROVE  l[2] \in 0..nextLabel-1
  <2>1. CASE \E k : PendingAt(k, l)
    <3>1. PICK k : OpenAt(k) /\ l \in {stack[k].locals.cond, stack[k].locals.end}
      BY <2>1 DEF PendingAt
    <3>2. PICK b : b = Base(k)
      OBVIOUS
    <3>3. b \in 0..nextLabel-2 /\ (l[2] = b \/ l[2] = b + 1)
      BY <3>1, <3>2, OpenLocals DEF IInv
    <3> QED
      BY <1>2, <3>3
  <2>2. CASE \E q \in 1..Len(code) : q > p /\ Defines(code[q]) = {l}
    <3>1. PICK q \in 1..Len(code) : l \in Defines(code[q])
      BY <2>2
    <3> QED
      BY <3>1 DEF IInv, Labels
  <2> QED
    BY <2>1, <2>2 DEF IInv, Labels
<1>4. \A p \in 1..Len(code) : {L.cond, L.end} \cap Target(code[p]) = {}
  BY <1>2, <1>3
<1> QED
  BY <1>1, <1>4, QuietCall

\* Actions that return and emit nothing.
LEMMA LeavesFlow ==
  ASSUME Tree, IInv, Flow, Grows, IntLiteral \/ Variable \/ DeclareOnly
  PROVE  Flow'
<1>1. PICK m : m = Len(stack)
  OBVIOUS
<1>2. CASE IntLiteral
  <2>1. PICK v : stack # <<>> /\ code' = code /\ Return(v) /\ v = ConstOp(Here.value)
    BY <1>2 DEF IntLiteral, At
  <2>2. TempsOf(v) = {}
    BY <2>1 DEF TempsOf, ConstOp, Operand
  <2> QED
    BY <2>1, <2>2, QuietReturn
<1>3. CASE Variable
  <2>1. PICK v : /\ stack # <<>> /\ code' = code /\ Return(v) /\ v = VarOperand(Here.name)
                 /\ TouchVariable(Here.name) /\ UNCHANGED <<input, nextLabel, loop, status>>
    BY <1>3 DEF Variable, At
  <2>2. Here.name \in Names
    BY <2>1, OnTop DEF Names
  <2>3. \E t \in VarTemps' : v = TempOp(t)
    BY <2>1, <2>2, Touched
  <2>4. TempsOf(v) \subseteq VarTemps'
    BY <2>3 DEF TempsOf, TempOp, Operand
  <2> QED
    BY <2>1, <2>4, QuietReturn
<1>4. CASE DeclareOnly
  <2>1. PICK v : stack # <<>> /\ code' = code /\ Return(v) /\ Here.type = "DECLARATION"
    BY <1>4 DEF DeclareOnly, At
  <2>2. m = 1
    BY <1>1, <2>1, OnTop DEF Holds
  <2> QED
    BY <1>1, <2>1, <2>2, QuietReturn
<1> QED
  BY <1>2, <1>3, <1>4

\* The frame on top holds its results.
LEMMA TopHeld ==
  ASSUME Tree, IInv, stack # <<>>, NEW m, m = Len(stack), NEW k \in 1..Len(Top.results)
  PROVE  TempsOf(Top.results[k]) \subseteq Held(m)
<1>1. Top = stack[m]
  BY OnTop
<1>2. \A t \in TempsOf(stack[m].results[k]) :
        t \in UNION {TempsOf(stack[m].results[j]) : j \in 1..Len(stack[m].results)}
  BY <1>1
<1> QED
  BY <1>1, <1>2 DEF Held

LEMMA EmitReturnFlows ==
  ASSUME Tree, IInv, Flow, Grows, EmitReturn
  PROVE  Flow'
<1>1. PICK m, op, inst, v : /\ m = Len(stack) /\ op = Top.results[1] /\ v = NullOp
                            /\ inst = ir_instruction_return(op)
  OBVIOUS
<1>2. stack # <<>> /\ Len(Top.results) = 1 /\ Emit(<<inst>>) /\ Return(v)
  BY <1>1 DEF EmitReturn, At
<1>3. TempsOf(op) \subseteq Held(m)
  BY <1>1, <1>2, TopHeld
<1>4. Does(inst, TempsOf(op), {}, {}, {})
  BY <1>1, Returning
<1>5. TempsOf(v) = {}
  BY <1>1 DEF TempsOf, NullOp, Operand
<1>6. PICK reads, writes : reads = TempsOf(op) /\ writes = {}
  OBVIOUS
<1>7. /\ Does(inst, reads, writes, {}, {}) /\ reads \subseteq Held(Len(stack)) /\ writes \subseteq 0..nextId'-1
      /\ TempsOf(v) \subseteq writes \cup VarTemps'
  BY <1>1, <1>3, <1>4, <1>5, <1>6
<1> QED
  BY <1>2, <1>7, StraightReturn

LEMMA EmitUnaryFlows ==
  ASSUME Tree, IInv, Flow, Grows, EmitUnary
  PROVE  Flow'
<1>1. PICK m, op, type, d, inst, v : /\ m = Len(stack) /\ op = Top.results[1] /\ type = Here.op /\ d = nextId
                                     /\ v = TempOp(d) /\ inst = ir_instruction_unary(type, d, op)
  OBVIOUS
<1>2. /\ stack # <<>> /\ Here.type = "UNARY" /\ Len(Top.results) = 1 /\ Emit(<<inst>>) /\ Return(v)
      /\ nextId' = nextId + 1
  BY <1>1 DEF EmitUnary, At, IRType
<1>3. TempsOf(op) \subseteq Held(m)
  BY <1>1, <1>2, TopHeld
<1>4. type \in ComputeTypes /\ d \in Nat /\ d \in 0..nextId'-1
  <2>1. Here.op \in UnaryOps
    BY <1>2, OnTop DEF IsNode
  <2>2. d \in Nat /\ d \in 0..nextId'-1
    BY <1>1, <1>2 DEF IInv, Counters
  <2> QED
    BY <1>1, <2>1, <2>2 DEF UnaryOps, ComputeTypes
<1>5. Does(inst, TempsOf(op), {d}, {}, {})
  BY <1>1, <1>4, Computing
<1>6. TempsOf(v) = {d}
  BY <1>1 DEF TempsOf, TempOp, Operand
<1>7. PICK reads, writes : reads = TempsOf(op) /\ writes = {d}
  OBVIOUS
<1>8. /\ Does(inst, reads, writes, {}, {}) /\ reads \subseteq Held(Len(stack)) /\ writes \subseteq 0..nextId'-1
      /\ TempsOf(v) \subseteq writes \cup VarTemps'
  BY <1>1, <1>3, <1>4, <1>5, <1>6, <1>7
<1> QED
  BY <1>2, <1>8, StraightReturn

LEMMA EmitBinaryFlows ==
  ASSUME Tree, IInv, Flow, Grows, EmitBinary
  PROVE  Flow'
<1>1. PICK m, a, b, type, d, inst, v :
        /\ m = Len(stack) /\ a = Top.results[1] /\ b = Top.results[2] /\ type = Here.op /\ d = nextId
        /\ v = TempOp(d) /\ inst = ir_instruction_binary(type, d, a, b)
  OBVIOUS
<1>2. /\ stack # <<>> /\ Here.type = "BINARY" /\ Here.op \notin ShortOps /\ Len(Top.results) = 2
      /\ Emit(<<inst>>) /\ Return(v) /\ nextId' = nextId + 1
  BY <1>1 DEF EmitBinary, At, IRType
<1>3. TempsOf(a) \subseteq Held(m) /\ TempsOf(b) \subseteq Held(m)
  <2>1. \A k \in 1..Len(Top.results) : TempsOf(Top.results[k]) \subseteq Held(m)
    BY <1>1, <1>2, TopHeld
  <2>2. 1 \in 1..Len(Top.results) /\ 2 \in 1..Len(Top.results)
    BY <1>2
  <2> QED
    BY <1>1, <2>1, <2>2
<1>4. type \in ComputeTypes /\ d \in Nat /\ d \in 0..nextId'-1
  <2>1. Here.op \in SimpleOps \cup RelationalOps
    BY <1>2, OnTop DEF IsNode, BinaryOps
  <2>2. d \in Nat /\ d \in 0..nextId'-1
    BY <1>1, <1>2 DEF IInv, Counters
  <2> QED
    BY <1>1, <2>1, <2>2 DEF SimpleOps, RelationalOps, ComputeTypes
<1>5. Does(inst, TempsOf(a) \cup TempsOf(b), {d}, {}, {})
  BY <1>1, <1>4, Computing
<1>6. TempsOf(v) = {d}
  BY <1>1 DEF TempsOf, TempOp, Operand
<1>7. PICK reads, writes : reads = TempsOf(a) \cup TempsOf(b) /\ writes = {d}
  OBVIOUS
<1>8. /\ Does(inst, reads, writes, {}, {}) /\ reads \subseteq Held(Len(stack)) /\ writes \subseteq 0..nextId'-1
      /\ TempsOf(v) \subseteq writes \cup VarTemps'
  BY <1>1, <1>3, <1>4, <1>5, <1>6, <1>7
<1> QED
  BY <1>2, <1>8, StraightReturn

\* A copy to a variable; what is returned is that variable, or goes to no frame.
LEMMA CopiedFlows ==
  ASSUME Tree, IInv, Flow, Grows, stack # <<>>, NEW v, Return(v),
         NEW a, NEW b, Emit(<<ir_instruction_copy(a, b)>>), a.value \in VarTemps,
         TempsOf(b) \subseteq Held(Len(stack)), Len(stack) = 1 \/ TempsOf(v) \subseteq VarTemps
  PROVE  Flow'
<1>1. PICK inst, reads, writes : inst = ir_instruction_copy(a, b) /\ reads = TempsOf(b) /\ writes = {a.value}
  OBVIOUS
<1>2. Does(inst, reads, writes, {}, {}) /\ Emit(<<inst>>)
  BY <1>1, Copying
<1>3. a.value \in 0..nextId'-1
  <2>1. a.value \in 0..nextId-1
    BY DEF IInv, Counters, VarTemps
  <2> QED
    BY <2>1, MoreIds
<1>4. writes \subseteq 0..nextId'-1 /\ reads \subseteq Held(Len(stack))
  BY <1>1, <1>3
<1>5. Len(stack) = 1 \/ TempsOf(v) \subseteq writes \cup VarTemps'
  BY DEF Grows
<1> QED
  BY <1>2, <1>4, <1>5, StraightReturn

LEMMA EmitInitFlows ==
  ASSUME Tree, IInv, Flow, Grows, EmitInit
  PROVE  Flow'
<1>1. PICK m, a, b, v : m = Len(stack) /\ a = Top.locals.temp /\ b = Top.results[1] /\ v = TempOp(0)
  OBVIOUS
<1>2. /\ stack # <<>> /\ Here.type = "DECLARATION" /\ Len(Top.results) = 1
      /\ Emit(<<ir_instruction_copy(a, b)>>) /\ Return(v)
  BY <1>1 DEF EmitInit, At
<1>3. m = 1
  BY <1>1, <1>2, OnTop DEF Holds
<1>4. Top.locals \in VarLocals
  BY <1>1, <1>2, TopResults, OnTop DEF LocalsOf
<1>5. a.value \in VarTemps
  BY <1>1, <1>4 DEF VarLocals, NoLocals, TempOp, Operand
<1>6. TempsOf(b) \subseteq Held(m)
  BY <1>1, <1>2, TopHeld
<1> QED
  BY <1>1, <1>2, <1>3, <1>5, <1>6, CopiedFlows

LEMMA EmitAssignmentFlows ==
  ASSUME Tree, IInv, Flow, Grows, EmitAssignment
  PROVE  Flow'
<1>1. PICK m, a, b : m = Len(stack) /\ a = Top.results[1] /\ b = Top.results[2]
  OBVIOUS
<1>2. /\ stack # <<>> /\ Here.type = "ASSIGNMENT" /\ Len(Top.results) = 2
      /\ Emit(<<ir_instruction_copy(a, b)>>) /\ Return(a)
  BY <1>1 DEF EmitAssignment, At
<1>3. a \in {TempOp(t) : t \in VarTemps}
  BY <1>1, <1>2, TopResults
<1>4. a.value \in VarTemps /\ TempsOf(a) \subseteq VarTemps
  BY <1>3 DEF TempOp, Operand, TempsOf
<1>5. TempsOf(b) \subseteq Held(m)
  <2>1. 2 \in 1..Len(Top.results)
    BY <1>2
  <2> QED
    BY <1>1, <1>2, <2>1, TopHeld
<1> QED
  BY <1>1, <1>2, <1>4, <1>5, CopiedFlows

\* Labels of different short circuits are different.
LEMMA OtherLabels ==
  ASSUME Tree, IInv, NEW m, OpenAt(m), NEW k, OpenAt(k), k < m
  PROVE  {stack[k].locals.cond, stack[k].locals.end} \cap {stack[m].locals.cond, stack[m].locals.end} = {}
<1>1. PICK b, c : b = Base(m) /\ c = Base(k)
  OBVIOUS
<1>2. c + 1 < b /\ b \in Int /\ c \in Int
  BY <1>1, OpenLocals DEF IInv, Opens
<1>3. /\ \A l \in {stack[m].locals.cond, stack[m].locals.end} : l[2] = b \/ l[2] = b + 1
      /\ \A l \in {stack[k].locals.cond, stack[k].locals.end} : l[2] = c \/ l[2] = c + 1
  BY <1>1, OpenLocals DEF IInv
<1> QED
  BY <1>2, <1>3

LEMMA ShortCallRightFlows ==
  ASSUME Tree, IInv, Flow, Grows, ShortCallRight
  PROVE  Flow'
<1>1. PICK C, m, n, right, L, op, type :
        /\ Sound(C) /\ m = Len(stack) /\ n = Len(code) /\ right = Here.right /\ L = Top.locals
        /\ op = Top.results[1] /\ type = JumpType
  BY DEF Flow
<1>2. PICK inst, insts : inst = ir_instruction_branch_condition(type, op, L.cond) /\ insts = <<inst>>
  OBVIOUS
<1>3. /\ stack # <<>> /\ Here.type = "BINARY" /\ Len(Top.results) = 1 /\ Here.op \in ShortOps
      /\ Emit(insts) /\ Call(right, L) /\ UNCHANGED <<input, ids, loop, status>>
  BY <1>1, <1>2 DEF ShortCallRight, At
<1>4. /\ OpenAt(m) /\ L = stack[m].locals /\ L.end = <<"end", Base(m) + 1>>
      /\ L.cond \in {<<"false", Base(m)>>, <<"true", Base(m)>>} /\ Base(m) \in 0..nextLabel-2
  <2>1. Len(Top.results) \in {1, 2}
    BY <1>3
  <2> QED
    BY <1>1, <1>3, <2>1, OnTopOpen
<1>5. Does(inst, TempsOf(op), {}, {}, {L.cond})
  <2>1. type \in {"JUMP_ZERO", "JUMP_NOT_ZERO"}
    BY <1>1 DEF JumpType
  <2> QED
    BY <1>2, <2>1, Branching
<1>6. IsSequence(insts) /\ Len(insts) = 1 /\ insts[1] = inst /\ Emits(insts)
  BY <1>2, <1>3 DEF IsSequence, Emit, Emits
<1>7. PICK E, X : X = C[n+1] /\ E = [j \in 1..2 |-> X]
  OBVIOUS
<1>8. /\ E \in [1..2 -> SUBSET (0..nextId'-1)] /\ E[1] = X /\ E[2] = X
      /\ Len(insts) + 1 = 2 /\ \A j \in 1..Len(insts) : j = 1
  <2>1. X \in SUBSET (0..nextId'-1)
    BY <1>1, <1>7, AtEnd
  <2>2. 1 \in 1..2 /\ 2 \in 1..2
    OBVIOUS
  <2> QED
    BY <1>6, <1>7, <2>1, <2>2
<1>9. m \in Nat /\ m \in 1..m /\ \A k \in 1..m-1 : k \in 1..m
  BY <1>1, <1>3, OnTop
<1>10. \A k \in 1..m : Held(k) \subseteq X \cup VarTemps
  BY <1>1, <1>7 DEF Sound, HeldBy
<1>11. HeldUpTo(Len(stack), X)
  BY <1>1, <1>10 DEF HeldUpTo, Grows
<1>12. FitsFlow(insts, C, E, 1)
  <2>1. TempsOf(op) \subseteq Held(m)
    BY <1>1, <1>3, TopHeld
  <2>2. TempsOf(op) \subseteq X \cup VarTemps'
    BY <1>9, <1>10, <2>1 DEF Grows
  <2>3. 1 + 1 = 2
    OBVIOUS
  <2> QED
    BY <1>5, <1>6, <1>8, <2>2, <2>3 DEF FitsFlow, Does
<1>13. Segment(C, insts, E)
  BY <1>1, <1>7, <1>8, <1>12 DEF Segment
<1>14. Target(insts[1]) = {L.cond}
  BY <1>5, <1>6 DEF Does
<1>15. Spares(insts)
  <2> SUFFICES ASSUME NEW k, OpenAt(k), k < m
               PROVE  {stack[k].locals.cond, stack[k].locals.end} \cap {L.cond} = {}
    BY <1>1, <1>8, <1>14 DEF Spares
  <2>1. {stack[k].locals.cond, stack[k].locals.end} \cap {stack[m].locals.cond, stack[m].locals.end} = {}
    BY <1>4, OtherLabels
  <2> QED
    BY <1>4, <2>1
<1>16. Opening(insts, E, L)
  <2>1. L.end # L.cond
    <3>1. L.end[2] = Base(m) + 1 /\ L.cond[2] = Base(m)
      BY <1>4
    <3> QED
      BY <1>4, <3>1
  <2>2. Lets(m, {L.cond}, E[1])
    BY <1>4, <1>8, <1>9, <1>10, <2>1 DEF Lets
  <2> QED
    BY <1>1, <1>4, <1>8, <1>14, <2>2 DEF Opening
<1>17. X = E[Len(insts)+1]
  BY <1>8
<1> QED
  BY <1>1, <1>3, <1>6, <1>11, <1>13, <1>15, <1>16, <1>17, CallFlows

\* The condition label is reached with what the calls below hold, and the end
\* label with the temporary as well.
EndFlow(A, R, t) ==
  [j \in 1..7 |-> IF j \in {1, 2} THEN A ELSE IF j = 3 THEN A \cup {t}
                  ELSE IF j \in {4, 5} THEN R ELSE R \cup {t}]

Flows7(E, S, A, R, t) ==
  /\ E \in [1..7 -> SUBSET S] /\ E[1] = A /\ E[2] = A /\ E[3] = A \cup {t}
  /\ E[4] = R /\ E[5] = R /\ E[6] = R \cup {t} /\ E[7] = R \cup {t}

LEMMA EndFlows ==
  ASSUME NEW S, NEW A, A \subseteq S, NEW R, R \subseteq S, NEW t, t \in S, NEW E, E = EndFlow(A, R, t)
  PROVE  Flows7(E, S, A, R, t)
<1>1. /\ 1 \in 1..7 /\ 2 \in 1..7 /\ 3 \in 1..7 /\ 4 \in 1..7 /\ 5 \in 1..7 /\ 6 \in 1..7 /\ 7 \in 1..7
  OBVIOUS
<1>2. E[1] = A /\ E[2] = A /\ E[3] = A \cup {t}
  BY <1>1 DEF EndFlow
<1>3. E[4] = R /\ E[5] = R /\ E[6] = R \cup {t} /\ E[7] = R \cup {t}
  BY <1>1 DEF EndFlow
<1>4. A \cup {t} \in SUBSET S /\ R \cup {t} \in SUBSET S
  OBVIOUS
<1>5. E \in [1..7 -> SUBSET S]
  BY <1>4 DEF EndFlow
<1> QED
  BY <1>2, <1>3, <1>5 DEF Flows7

LEMMA ShortEndFlows ==
  ASSUME Tree, IInv, Flow, Grows, ShortEnd
  PROVE  Flow'
<1>1. PICK m, v, op, t, b, cond, end, insts :
        EndShape(m, v, op, t, b, cond, end, insts) /\ EndCode(op, t, cond, end, insts)
  BY ShortEndEmits
<1>2. PICK C, n, A : Sound(C) /\ n = Len(code) /\ A = C[n+1]
  BY DEF Flow
<1>3. PICK R : R = (UNION {Held(j) : j \in 1..m-1}) \ VarTemps
  OBVIOUS
<1>4. /\ m = Len(stack) /\ stack # <<>> /\ Emits(insts) /\ Return(v) /\ OpenAt(m)
      /\ cond = stack[m].locals.cond /\ end = stack[m].locals.end /\ cond # end
      /\ v = TempOp(t) /\ t \in 0..nextId-1 /\ op = Top.results[2] /\ Len(Top.results) = 2
  BY <1>1 DEF EndShape
<1>5. PICK E, X : E = EndFlow(A, R, t) /\ X = R \cup {t}
  OBVIOUS
<1>6. m \in Nat /\ m \in 1..m /\ \A k \in 1..m-1 : k \in 1..m
  BY <1>4, OnTop
<1>7. \A k \in 1..m : Held(k) \subseteq A \cup VarTemps
  BY <1>2, <1>4 DEF Sound, HeldBy
<1>8. R \subseteq A
  BY <1>3, <1>6, <1>7
<1>9. /\ E \in [1..7 -> SUBSET (0..nextId'-1)] /\ E[1] = A /\ E[2] = A /\ E[3] = A \cup {t}
      /\ E[4] = R /\ E[5] = R /\ E[6] = R \cup {t} /\ E[7] = R \cup {t}
  <2>1. PICK S : S = 0..nextId'-1
    OBVIOUS
  <2>2. A \subseteq S /\ R \subseteq S /\ t \in S
    BY <1>2, <1>4, <1>8, <2>1, AtEnd, MoreIds
  <2>3. E = EndFlow(A, R, t)
    BY <1>5
  <2>4. Flows7(E, S, A, R, t)
    BY <2>2, <2>3, EndFlows
  <2> QED
    BY <2>1, <2>4 DEF Flows7
<1>10. TempsOf(op) \subseteq A \cup VarTemps'
  <2>1. 2 \in 1..Len(Top.results)
    BY <1>4
  <2>2. TempsOf(op) \subseteq Held(m)
    BY <1>4, <2>1, TopHeld
  <2> QED
    BY <1>6, <1>7, <2>2 DEF Grows
<1>11. /\ Len(insts) = 6 /\ Len(insts) + 1 = 7 /\ \A i \in 1..Len(insts) : i \in {1, 2, 3, 4, 5, 6}
       /\ Does(insts[1], TempsOf(op), {}, {}, {cond}) /\ Does(insts[2], {}, {t}, {}, {})
       /\ Does(insts[3], {}, {}, {}, {end}) /\ Leaves(insts[3])
       /\ Does(insts[4], {}, {}, {cond}, {}) /\ Does(insts[5], {}, {t}, {}, {})
       /\ Does(insts[6], {}, {}, {end}, {})
  BY <1>1 DEF EndCode
<1>12. ASSUME NEW q \in 1..Len(code)
       PROVE  end \notin Target(code[q]) /\ (cond \in Target(code[q]) => R \subseteq C[q])
  <2>1. Lets(m, Target(code[q]), C[q])
    BY <1>2, <1>4 DEF Sound, JumpsBy
  <2> QED
    BY <1>3, <1>4, <2>1 DEF Lets
<1>13. FitsFlow(insts, C, E, 1) /\ FitsFlow(insts, C, E, 2) /\ FitsFlow(insts, C, E, 3) /\ FitsFlow(insts, C, E, 5)
  <2>1. 1 + 1 = 2 /\ 2 + 1 = 3 /\ 3 + 1 = 4 /\ 5 + 1 = 6
    OBVIOUS
  <2>2. FitsFlow(insts, C, E, 1)
    BY <1>9, <1>10, <1>11, <2>1 DEF FitsFlow, Does
  <2>3. FitsFlow(insts, C, E, 2)
    BY <1>9, <1>11, <2>1 DEF FitsFlow, Does
  <2>4. FitsFlow(insts, C, E, 3)
    BY <1>11 DEF FitsFlow, Does
  <2>5. FitsFlow(insts, C, E, 5)
    BY <1>9, <1>11, <2>1 DEF FitsFlow, Does
  <2> QED
    BY <2>2, <2>3, <2>4, <2>5
<1>14. FitsFlow(insts, C, E, 4)
  <2>1. Reads(insts[4]) = {} /\ Writes(insts[4]) = {} /\ Defines(insts[4]) = {cond} /\ 4 + 1 = 5
    BY <1>11 DEF Does
  <2>2. \A i \in 1..4-1 : i = 1 \/ i = 2 \/ i = 3
    OBVIOUS
  <2>3. Target(insts[1]) = {cond} /\ Target(insts[2]) = {} /\ Target(insts[3]) = {end}
    BY <1>11 DEF Does
  <2>4. ASSUME NEW i \in 1..4-1, Target(insts[i]) \cap {cond} # {} PROVE R \subseteq E[i]
    <3>1. i = 1
      BY <1>4, <2>2, <2>3, <2>4
    <3> QED
      BY <1>8, <1>9, <3>1
  <2> QED
    BY <1>9, <1>12, <2>1, <2>4 DEF FitsFlow
<1>15. FitsFlow(insts, C, E, 6)
  <2>1. Reads(insts[6]) = {} /\ Writes(insts[6]) = {} /\ Defines(insts[6]) = {end} /\ 6 + 1 = 7
    BY <1>11 DEF Does
  <2>2. \A i \in 1..6-1 : i = 1 \/ i = 2 \/ i = 3 \/ i = 4 \/ i = 5
    OBVIOUS
  <2>3. /\ Target(insts[1]) = {cond} /\ Target(insts[2]) = {} /\ Target(insts[3]) = {end}
        /\ Target(insts[4]) = {} /\ Target(insts[5]) = {}
    BY <1>11 DEF Does
  <2>4. ASSUME NEW i \in 1..6-1, Target(insts[i]) \cap {end} # {} PROVE R \cup {t} \subseteq E[i]
    <3>1. i = 3
      BY <1>4, <2>2, <2>3, <2>4
    <3> QED
      BY <1>8, <1>9, <3>1
  <2> QED
    BY <1>9, <1>12, <2>1, <2>4 DEF FitsFlow
<1>16. Segment(C, insts, E)
  <2>1. \A i \in 1..Len(insts) : FitsFlow(insts, C, E, i)
    BY <1>11, <1>13, <1>14, <1>15
  <2> QED
    BY <1>2, <1>9, <1>11, <2>1 DEF Segment
<1>17. Spares(insts)
  <2>1. \A i \in 1..Len(insts) : Target(insts[i]) \subseteq {cond, end}
    BY <1>11 DEF Does
  <2>2. \A k : (OpenAt(k) /\ k < m) => {stack[k].locals.cond, stack[k].locals.end} \cap {cond, end} = {}
    BY <1>4, OtherLabels
  <2> QED
    BY <1>4, <2>1, <2>2 DEF Spares
<1>18. X = E[Len(insts)+1]
  BY <1>5, <1>9, <1>11
<1>19. HeldUpTo(Len(stack) - 1, X)
  BY <1>3, <1>4, <1>5 DEF HeldUpTo, Grows
<1>20. TempsOf(v) \subseteq X \cup VarTemps'
  BY <1>4, <1>5 DEF TempsOf, TempOp, Operand
<1> QED
  BY <1>2, <1>4, <1>16, <1>17, <1>18, <1>19, <1>20, ReturnFlows

\* Between two items no call is in progress, or one that has just begun.
LEMMA IdleFlows ==
  ASSUME IInv, Grows, NEW C, Sound(C), NEW insts, Emits(insts), NEW E, Segment(C, insts, E),
         stack' = <<>> \/ \E n : stack' = <<Frame(n)>>
  PROVE  Flow'
<1>1. PICK X : X = E[Len(insts)+1]
  OBVIOUS
<1>2. /\ \A k : ~OpenAt(k)'
      /\ \A k \in 1..Len(stack') : Held(k)' = {}
  <2>1. CASE stack' = <<>>
    BY <2>1 DEF OpenAt
  <2>2. CASE \E n : stack' = <<Frame(n)>>
    <3>1. PICK n : stack' = <<Frame(n)>>
      BY <2>2
    <3>2. Len(stack') = 1 /\ stack'[1].results = <<>> /\ DOMAIN stack' = {1}
      BY <3>1 DEF Frame
    <3>3. \A k \in 1..Len(stack') : k = 1
      BY <3>2
    <3>4. \A k : ~OpenAt(k)'
      BY <3>2 DEF OpenAt, Started
    <3>5. Held(1)' = {}
      <4>1. Len(stack'[1].results) = 0
        BY <3>2
      <4> QED
        BY <4>1 DEF Held
    <3> QED
      BY <3>3, <3>4, <3>5
  <2> QED
    BY <2>1, <2>2
<1>3. \A k \in 1..Len(stack') : Held(k)' \subseteq X \cup VarTemps'
  BY <1>2
<1>4. JumpsFlow(C, insts, E)
  BY <1>2 DEF JumpsFlow
<1> QED
  BY <1>1, <1>3, <1>4, StepFlows

LEMMA GenerateItemFlows ==
  ASSUME Tree, IInv, Flow, Grows, GenerateItem
  PROVE  Flow'
<1>1. PICK C : Sound(C)
  BY DEF Flow
<1>2. code' = code /\ (stack' = <<>> \/ \E n : stack' = <<Frame(n)>>)
  BY DEF GenerateItem
<1>3. PICK insts, E : Emits(insts) /\ Segment(C, insts, E)
  BY <1>1, <1>2, NoSegment
<1> QED
  BY <1>1, <1>2, <1>3, IdleFlows

LEMMA FinishFlows ==
  ASSUME Tree, IInv, Flow, Grows, Finish
  PROVE  Flow'
<1>1. PICK C, n, A : Sound(C) /\ n = Len(code) /\ A = C[n+1]
  BY DEF Flow
<1>2. stack' = <<>>
  BY DEF Finish
<1>3. CASE UNCHANGED <<code, nextId>>
  <2>1. PICK insts, E : Emits(insts) /\ Segment(C, insts, E)
    BY <1>1, <1>3, NoSegment
  <2> QED
    BY <1>1, <1>2, <2>1, IdleFlows
<1>4. CASE ~UNCHANGED <<code, nextId>>
  <2>1. PICK t, v, x, i1, i2, insts :
          /\ t = nextId /\ v = TempOp(t) /\ x = ConstOp(0)
          /\ i1 = ir_instruction_copy(v, x) /\ i2 = ir_instruction_return(v) /\ insts = <<i1, i2>>
    OBVIOUS
  <2>2. Emit(insts) /\ nextId' = nextId + 1
    BY <1>4, <2>1 DEF Finish
  <2>3. t \in 0..nextId'-1
    BY <2>1, <2>2 DEF IInv, Counters
  <2>4. Does(i1, {}, {t}, {}, {}) /\ Does(i2, {t}, {}, {}, {})
    <3>1. v.value = t /\ TempsOf(v) = {t} /\ TempsOf(x) = {}
      BY <2>1 DEF TempOp, ConstOp, Operand, TempsOf
    <3>2. Does(i1, TempsOf(x), {v.value}, {}, {})
      BY <2>1, Copying
    <3>3. Does(i2, TempsOf(v), {}, {}, {})
      BY <2>1, Returning
    <3> QED
      BY <3>1, <3>2, <3>3
  <2>5. /\ IsSequence(insts) /\ Len(insts) = 2 /\ insts[1] = i1 /\ insts[2] = i2 /\ Len(insts) + 1 = 3
        /\ \A i \in 1..Len(insts) : i = 1 \/ i = 2
    <3>1. <<i1, i2>> \in Seq({i1, i2})
      OBVIOUS
    <3>2. IsSequence(insts)
      BY <2>1, <3>1, SequenceOf
    <3>3. Len(insts) = 2 /\ insts[1] = i1 /\ insts[2] = i2
      BY <2>1
    <3> QED
      BY <3>2, <3>3
  <2>6. Emits(insts)
    BY <2>2, <2>5 DEF Emit, Emits
  <2>7. PICK X, E : X = A \cup {t} /\ E = [j \in 1..3 |-> IF j = 1 THEN A ELSE X]
    OBVIOUS
  <2>8. E \in [1..3 -> SUBSET (0..nextId'-1)] /\ E[1] = A /\ E[2] = X /\ E[3] = X
    <3>1. A \in SUBSET (0..nextId'-1) /\ X \in SUBSET (0..nextId'-1)
      BY <1>1, <2>3, <2>7, AtEnd
    <3>2. 1 \in 1..3 /\ 2 \in 1..3 /\ 3 \in 1..3
      OBVIOUS
    <3> QED
      BY <2>7, <3>1, <3>2
  <2>9. FitsFlow(insts, C, E, 1) /\ FitsFlow(insts, C, E, 2)
    <3>1. 1 + 1 = 2 /\ 2 + 1 = 3
      OBVIOUS
    <3> QED
      BY <2>4, <2>5, <2>7, <2>8, <3>1 DEF FitsFlow, Does
  <2>10. Segment(C, insts, E)
    BY <1>1, <2>5, <2>8, <2>9 DEF Segment
  <2> QED
    BY <1>1, <1>2, <2>6, <2>10, IdleFlows
<1> QED
  BY <1>3, <1>4

LEMMA InitFlows == ASSUME Init PROVE Flow
<1>1. code = <<>> /\ stack = <<>>
  BY DEF Init, Fresh
<1>2. PICK C : C = [p \in 1..1 |-> {}]
  OBVIOUS
<1>3. C \in [1..1 -> SUBSET (0..nextId-1)] /\ C[1] = {}
  BY <1>2
<1>4. Len(code) = 0 /\ Len(code) + 1 = 1 /\ 1..Len(code) = {} /\ 1..Len(stack) = {}
  BY <1>1
<1>5. Flows(C) /\ HeldBy(C) /\ JumpsBy(C)
  BY <1>3, <1>4 DEF Flows, HeldBy, JumpsBy
<1> QED
  BY <1>5 DEF Flow, Sound

LEMMA NextFlows == Tree /\ IInv /\ Flow /\ [Next]_vars => Flow'
<1> SUFFICES ASSUME Tree, IInv, Flow, [Next]_vars PROVE Flow'
  OBVIOUS
<1>1. CASE Next
  <2>1. Grows
    BY <1>1, Growing
  <2> QED
    BY <1>1, <2>1, GenerateItemFlows, FinishFlows, CallsFlow, EmitReturnFlows, LeavesFlow, EmitUnaryFlows,
       EmitBinaryFlows, ShortCallLeftFlows, ShortCallRightFlows, ShortEndFlows, EmitInitFlows,
       CallLhsFlows, EmitAssignmentFlows DEF Next
<1>2. CASE UNCHANGED vars
  BY <1>2, SameFlow DEF vars
<1> QED
  BY <1>1, <1>2

LEMMA FlowInvariant == Spec => [](Tree /\ IInv /\ Flow)
<1>1. Init => Tree /\ IInv /\ Flow
  BY InitHolds, InitFlows
<1>2. Tree /\ IInv /\ Flow /\ [Next]_vars => (Tree /\ IInv /\ Flow)'
  BY NextKeeps, NextFlows
<1> QED
  BY <1>1, <1>2, PTL DEF Spec

-----------------------------------------------------------------------------
(* Definite assignment *)

\* The temporaries written on every path to instruction p, from those on the
\* paths to the instructions before it.
OnEveryPath(p, done) ==
  IF p = 1 THEN {}
  ELSE {t \in AllTemps : \A q \in Entries(p) : t \in done[q] \cup Writes(code[q])}

\* The function that AssignedBefore is defined by exists.
LEMMA SomeBefore ==
  ASSUME NEW n \in Nat
  PROVE  \E g : g = [p \in 0..n |-> IF p = 0 THEN <<>> ELSE Append(g[p-1], OnEveryPath(p, g[p-1]))]
<1> DEFINE Rule(g, m) ==
             g = [p \in 0..m |-> IF p = 0 THEN <<>> ELSE Append(g[p-1], OnEveryPath(p, g[p-1]))]
           T == {m \in Nat : \E g : Rule(g, m)}
<1>1. 0 \in T
  <2> DEFINE z == [p \in 0..0 |-> <<>>]
  <2>1. \A p \in 0..0 : p = 0 /\ z[p] = <<>>
    OBVIOUS
  <2>2. z = [p \in 0..0 |-> z[p]]
    OBVIOUS
  <2> HIDE DEF z
  <2>3. \A p \in 0..0 : z[p] = IF p = 0 THEN <<>> ELSE Append(z[p-1], OnEveryPath(p, z[p-1]))
    BY <2>1
  <2>4. Rule(z, 0)
    BY <2>2, <2>3
  <2> HIDE DEF Rule
  <2> QED
    BY <2>4
<1>2. ASSUME NEW m \in Nat, m \in T PROVE m + 1 \in T
  <2>1. PICK g : Rule(g, m)
    BY <1>2
  <2> DEFINE h == [p \in 0..m+1 |-> IF p <= m THEN g[p] ELSE Append(g[m], OnEveryPath(m + 1, g[m]))]
  <2>2. h = [p \in 0..m+1 |-> h[p]]
    OBVIOUS
  <2>3. ASSUME NEW p \in 0..m+1
        PROVE  h[p] = IF p = 0 THEN <<>> ELSE Append(h[p-1], OnEveryPath(p, h[p-1]))
    <3>1. CASE p <= m
      <4>1. p \in 0..m /\ (p # 0 => p - 1 \in 0..m+1 /\ p - 1 <= m)
        BY <3>1
      <4>2. h[p] = g[p] /\ (p # 0 => h[p - 1] = g[p - 1])
        BY <3>1, <4>1
      <4>3. g[p] = IF p = 0 THEN <<>> ELSE Append(g[p-1], OnEveryPath(p, g[p-1]))
        BY <2>1, <4>1
      <4> HIDE DEF h
      <4>4. CASE p = 0
        BY <4>2, <4>3, <4>4
      <4>5. CASE p # 0
        BY <4>2, <4>3, <4>5
      <4> QED
        BY <4>4, <4>5
    <3>2. CASE p = m + 1
      <4>1. m \in 0..m+1 /\ m <= m /\ ~(m + 1 <= m) /\ p # 0 /\ p - 1 = m
        BY <3>2
      <4>2. h[p] = Append(g[m], OnEveryPath(m + 1, g[m])) /\ h[p - 1] = g[m]
        BY <3>2, <4>1
      <4> HIDE DEF h
      <4> QED
        BY <3>2, <4>1, <4>2
    <3> QED
      BY <3>1, <3>2
  <2> HIDE DEF h
  <2>4. Rule(h, m + 1)
    BY <2>2, <2>3
  <2> HIDE DEF Rule
  <2> QED
    BY <2>4
<1> HIDE DEF T
<1>3. n \in T
  BY <1>1, <1>2, SetInduction
<1> QED
  BY <1>3 DEF T

LEMMA AssignedRule ==
  ASSUME Len(code) \in Nat
  PROVE  \E g : /\ g = [p \in 0..Len(code) |-> IF p = 0 THEN <<>> ELSE Append(g[p-1], OnEveryPath(p, g[p-1]))]
                /\ AssignedBefore = g[Len(code)]
<1> DEFINE g == CHOOSE before : before = [p \in 0..Len(code) |->
                   IF p = 0 THEN <<>> ELSE Append(before[p-1], OnEveryPath(p, before[p-1]))]
<1>1. \E h : h = [p \in 0..Len(code) |-> IF p = 0 THEN <<>> ELSE Append(h[p-1], OnEveryPath(p, h[p-1]))]
  BY SomeBefore
<1>2. g = [p \in 0..Len(code) |-> IF p = 0 THEN <<>> ELSE Append(g[p-1], OnEveryPath(p, g[p-1]))]
  BY <1>1
<1>3. AssignedBefore = g[Len(code)]
  BY DEF AssignedBefore, OnEveryPath
<1> HIDE DEF g
<1> QED
  BY <1>2, <1>3

\* What Flows says is written is on every path.
LEMMA FlowsAssigned ==
  ASSUME IInv, NEW C, Flows(C)
  PROVE  \A p \in 1..Len(code) : C[p] \subseteq AssignedBefore[p]
<1>1. PICK n : n = Len(code)
  OBVIOUS
<1>2. n \in Nat
  BY <1>1 DEF IInv, Temps, IsSequence
<1>3. PICK g : /\ g = [p \in 0..n |-> IF p = 0 THEN <<>> ELSE Append(g[p-1], OnEveryPath(p, g[p-1]))]
               /\ AssignedBefore = g[n]
  BY <1>1, <1>2, AssignedRule
<1>4. g[0] = <<>> /\ \A p \in 0..n : p # 0 => g[p] = Append(g[p-1], OnEveryPath(p, g[p-1]))
  <2>1. 0 \in 0..n
    BY <1>2
  <2>2. \A p \in 0..n : g[p] = IF p = 0 THEN <<>> ELSE Append(g[p-1], OnEveryPath(p, g[p-1]))
    BY <1>3
  <2> QED
    BY <2>1, <2>2
<1> DEFINE Good(p) == IsSequence(g[p]) /\ Len(g[p]) = p /\ \A k \in 1..p : C[k] \subseteq g[p][k]
           T == {p \in Nat : p <= n => Good(p)}
<1>5. 0 \in T
  <2>1. IsSequence(<<>>) /\ Len(<<>>) = 0 /\ 1..0 = {}
    BY DEF IsSequence
  <2> QED
    BY <1>4, <2>1
<1>6. ASSUME NEW m \in Nat, m \in T PROVE m + 1 \in T
  <2> SUFFICES ASSUME m + 1 <= n PROVE Good(m + 1)
    OBVIOUS
  <2>1. m + 1 \in 0..n /\ m + 1 # 0 /\ (m + 1) - 1 = m /\ m <= n /\ m + 1 \in 1..n
    BY <1>2
  <2>2. PICK done : done = g[m]
    OBVIOUS
  <2>3. IsSequence(done) /\ Len(done) = m /\ \A k \in 1..m : C[k] \subseteq done[k]
    BY <1>6, <2>1, <2>2
  <2>4. PICK u, x : u = g[m + 1] /\ x = OnEveryPath(m + 1, done)
    OBVIOUS
  <2>5. u = Append(done, x)
    BY <1>4, <2>1, <2>2, <2>4
  <2>6. IsSequence(u) /\ Len(u) = m + 1 /\ (\A k \in 1..m : u[k] = done[k]) /\ u[m + 1] = x
    BY <2>3, <2>5, Appended
  <2>7. C[m + 1] \subseteq x
    <3>1. CASE m + 1 = 1
      BY <3>1 DEF Flows
    <3>2. CASE m + 1 # 1
      <4> SUFFICES ASSUME NEW t \in C[m + 1]
                   PROVE  t \in AllTemps /\ \A q \in Entries(m + 1) : t \in done[q] \cup Writes(code[q])
        BY <2>4, <3>2 DEF OnEveryPath
      <4>1. t \in AllTemps
        <5>1. m + 1 \in 1..n+1
          BY <1>2, <2>1
        <5> QED
          BY <1>1, <5>1 DEF Flows, AllTemps
      <4>2. ASSUME NEW q \in Entries(m + 1) PROVE t \in done[q] \cup Writes(code[q])
        <5>1. /\ q \in 1..m
              /\ \/ q = m /\ ~Leaves(code[q])
                 \/ Target(code[q]) \cap Defines(code[m + 1]) # {}
          BY <2>1 DEF Entries
        <5>2. C[q] \subseteq done[q]
          BY <2>3, <5>1
        <5>3. C[m + 1] \subseteq C[q] \cup Writes(code[q])
          <6>1. q \in 1..Len(code) /\ m + 1 \in 1..Len(code) /\ q \in 1..(m + 1)-1
            BY <1>1, <1>2, <2>1, <5>1
          <6> QED
            BY <5>1, <6>1 DEF Flows, FlowAt
        <5> QED
          BY <5>2, <5>3
      <4> QED
        BY <4>1, <4>2
    <3> QED
      BY <3>1, <3>2
  <2>8. \A k \in 1..m+1 : k \in 1..m \/ k = m + 1
    OBVIOUS
  <2>9. \A k \in 1..m+1 : C[k] \subseteq u[k]
    BY <2>3, <2>6, <2>7, <2>8
  <2> QED
    BY <2>4, <2>6, <2>9
<1> HIDE DEF T
<1>7. n \in T
  BY <1>2, <1>5, <1>6, SetInduction
<1>8. Good(n)
  BY <1>7 DEF T
<1> QED
  BY <1>1, <1>3, <1>8

LEMMA WrittenFromInvariant == Tree /\ IInv /\ Flow => NoReadBeforeWrite
<1> SUFFICES ASSUME Tree, IInv, Flow PROVE NoReadBeforeWrite
  OBVIOUS
<1>1. PICK C : Flows(C)
  BY DEF Flow, Sound
<1>2. DOMAIN code = 1..Len(code)
  BY DEF IInv, Temps, IsSequence
<1>3. \A p \in 1..Len(code) : C[p] \subseteq AssignedBefore[p]
  BY <1>1, FlowsAssigned
<1>4. \A p \in 1..Len(code) : Reads(code[p]) \subseteq C[p] \cup VarTemps
  BY <1>1 DEF Flows, FlowAt
<1>5. \A p \in DOMAIN code : Reads(code[p]) \subseteq AssignedBefore[p] \cup VarTemps
  BY <1>2, <1>3, <1>4
<1> QED
  BY <1>5 DEF NoReadBeforeWrite

\* Whatever path the generated code takes, the temporary of a subexpression has
\* been written by the time it is read: no short circuit of && and || skips the
\* instruction that sets it.
THEOREM ValuesAreWritten == Spec => []NoReadBeforeWrite
BY FlowInvariant, WrittenFromInvariant, PTL
=============================================================================
