------------------------- MODULE PassArray_proofs -------------------------
(***************************************************************************)
(* The array under the back end, for every input of the generator, every   *)
(* length of the offset map, every capacity and every place realloc moves  *)
(* the block to: the passes do to it what RegAlloc does to a sequence.     *)
(***************************************************************************)
EXTENDS PassArray, SequenceTheorems, TLAPS

-----------------------------------------------------------------------------
(* Sequences that are concatenated, spliced and inserted into *)

\* A sequence behind another one.
LEMMA Concatenation ==
  ASSUME NEW S, NEW s \in Seq(S), NEW t \in Seq(S)
  PROVE  s \o t \in Seq(S) /\ Len(s \o t) = Len(s) + Len(t)
OBVIOUS

\* A sequence in the place of one element.
LEMMA Splice ==
  ASSUME NEW S, NEW s \in Seq(S), NEW n \in 1..Len(s), NEW t \in Seq(S), Len(t) >= 1
  PROVE  LET r == SubSeq(s, 1, n - 1) \o t \o SubSeq(s, n + 1, Len(s))
         IN r \in Seq(S) /\ Len(r) >= Len(s)
<1> DEFINE a == SubSeq(s, 1, n - 1)
           b == SubSeq(s, n + 1, Len(s))
<1>1. a \in Seq(S) /\ Len(a) = n - 1
  OBVIOUS
<1>2. b \in Seq(S) /\ Len(b) = Len(s) - n
  OBVIOUS
<1> HIDE DEF a, b
<1>3. a \o t \in Seq(S) /\ Len(a \o t) = n - 1 + Len(t)
  BY <1>1, Concatenation
<1>4. (a \o t) \o b \in Seq(S) /\ Len((a \o t) \o b) = Len(a \o t) + Len(b)
  BY <1>2, <1>3, Concatenation
<1>5. Len((a \o t) \o b) >= Len(s)
  BY <1>2, <1>3, <1>4
<1> QED
  BY <1>4, <1>5 DEF a, b

\* One element more.
LEMMA InsertType ==
  ASSUME NEW S, NEW s \in Seq(S), NEW n \in 1..Len(s)+1, NEW e \in S
  PROVE  InsertAt(s, n, e) \in Seq(S) /\ Len(InsertAt(s, n, e)) = Len(s) + 1
<1> DEFINE a == SubSeq(s, 1, n - 1)
           b == SubSeq(s, n, Len(s))
<1>1. a \in Seq(S) /\ Len(a) = n - 1
  OBVIOUS
<1>2. b \in Seq(S) /\ Len(b) = Len(s) - n + 1
  OBVIOUS
<1> HIDE DEF a, b
<1>3. a \o <<e>> \in Seq(S) /\ Len(a \o <<e>>) = n
  BY <1>1, Concatenation
<1>4. (a \o <<e>>) \o b \in Seq(S) /\ Len((a \o <<e>>) \o b) = Len(s) + 1
  BY <1>2, <1>3, Concatenation
<1> QED
  BY <1>4 DEF a, b, InsertAt

\* What each place of it holds.
LEMMA ConcatenationElements ==
  ASSUME NEW S, NEW s \in Seq(S), NEW t \in Seq(S)
  PROVE  \A k \in 1..Len(s)+Len(t) :
           (s \o t)[k] = IF k <= Len(s) THEN s[k] ELSE t[k - Len(s)]
OBVIOUS

\* What each place holds then.
LEMMA SpliceElements ==
  ASSUME NEW S, NEW s \in Seq(S), NEW n \in 1..Len(s), NEW t \in Seq(S), Len(t) >= 1
  PROVE  LET r == SubSeq(s, 1, n - 1) \o t \o SubSeq(s, n + 1, Len(s))
         IN /\ Len(r) = Len(s) + Len(t) - 1
            /\ \A k \in 1..Len(r) :
                 r[k] = IF k < n THEN s[k]
                        ELSE IF k < n + Len(t) THEN t[k - n + 1]
                        ELSE s[k - Len(t) + 1]
<1> DEFINE a == SubSeq(s, 1, n - 1)
           b == SubSeq(s, n + 1, Len(s))
           l == Len(t)
<1>1. a \in Seq(S) /\ Len(a) = n - 1 /\ \A k \in 1..n-1 : a[k] = s[k]
  OBVIOUS
<1>2. b \in Seq(S) /\ Len(b) = Len(s) - n /\ \A k \in 1..Len(s)-n : b[k] = s[n + k]
  OBVIOUS
<1>3. l \in Nat /\ Len(s) \in Nat
  OBVIOUS
<1> HIDE DEF a, b
<1>4. a \o t \in Seq(S) /\ Len(a \o t) = n - 1 + l
  BY <1>1, Concatenation
<1>5. \A k \in 1..n-1+l : (a \o t)[k] = IF k <= n - 1 THEN a[k] ELSE t[k - (n - 1)]
  BY <1>1, ConcatenationElements
<1> DEFINE c == a \o t
           r == c \o b
<1> HIDE DEF c
<1>6. c \in Seq(S) /\ Len(c) = n - 1 + l
  BY <1>4 DEF c
<1>10. \A k \in 1..n-1+l : c[k] = IF k <= n - 1 THEN a[k] ELSE t[k - (n - 1)]
  BY <1>5 DEF c
<1>7. Len(r) = Len(s) + l - 1
  <2>1. Len(c \o b) = Len(c) + Len(b)
    BY <1>2, <1>6, Concatenation
  <2> HIDE DEF l
  <2> QED
    BY <2>1, <1>2, <1>3, <1>6
<1>8. \A k \in 1..Len(s)+l-1 : r[k] = IF k <= n - 1 + l THEN c[k] ELSE b[k - (n - 1 + l)]
  BY <1>2, <1>3, <1>6, ConcatenationElements
<1> HIDE DEF r, l
<1>9. ASSUME NEW k \in 1..Len(s)+l-1
      PROVE  r[k] = IF k < n THEN s[k] ELSE IF k < n + l THEN t[k - n + 1] ELSE s[k - l + 1]
  <2>1. CASE k < n
    <3>1. r[k] = c[k] /\ c[k] = a[k] /\ a[k] = s[k]
      BY <2>1, <1>1, <1>3, <1>8, <1>10
    <3> QED
      BY <3>1, <2>1
  <2>2. CASE k >= n /\ k < n + l
    <3>0. k \in 1..n-1+l /\ k <= n - 1 + l /\ ~(k <= n - 1)
      BY <2>2, <1>3
    <3>3. r[k] = c[k]
      BY <3>0, <1>8
    <3>4. c[k] = t[k - (n - 1)]
      BY <3>0, <1>10
    <3>1. r[k] = c[k] /\ c[k] = t[k - (n - 1)]
      BY <3>3, <3>4
    <3>2. k - (n - 1) = k - n + 1
      BY <1>3
    <3> QED
      BY <3>1, <3>2, <2>2
  <2>3. CASE k >= n + l
    <3>1. r[k] = b[k - (n - 1 + l)]
      BY <2>3, <1>3, <1>8
    <3>2. /\ k - (n - 1 + l) \in 1..Len(s)-n
          /\ n + (k - (n - 1 + l)) = k - l + 1
      BY <2>3, <1>3
    <3>3. b[k - (n - 1 + l)] = s[n + (k - (n - 1 + l))]
      BY <3>2, <1>2
    <3> QED
      BY <3>1, <3>2, <3>3, <2>3, <1>3
  <2> QED
    BY <2>1, <2>2, <2>3, <1>3
<1> QED
  BY <1>7, <1>9 DEF r, c, a, b, l

\* What each place holds then.
LEMMA InsertElements ==
  ASSUME NEW S, NEW s \in Seq(S), NEW n \in 1..Len(s)+1, NEW e \in S
  PROVE  \A k \in 1..Len(s)+1 :
           InsertAt(s, n, e)[k] = IF k < n THEN s[k] ELSE IF k = n THEN e ELSE s[k - 1]
<1> DEFINE a == SubSeq(s, 1, n - 1)
           b == SubSeq(s, n, Len(s))
           c == a \o <<e>>
<1>1. a \in Seq(S) /\ Len(a) = n - 1 /\ \A k \in 1..n-1 : a[k] = s[k]
  OBVIOUS
<1>2. b \in Seq(S) /\ Len(b) = Len(s) - n + 1 /\ \A k \in 1..Len(s)-n+1 : b[k] = s[n + k - 1]
  OBVIOUS
<1>3. Len(s) \in Nat /\ <<e>> \in Seq(S) /\ Len(<<e>>) = 1
  OBVIOUS
<1> HIDE DEF a, b
<1>4. c \in Seq(S) /\ Len(c) = n
  BY <1>1, <1>3, Concatenation
<1>5. \A k \in 1..n : c[k] = IF k <= n - 1 THEN a[k] ELSE <<e>>[k - (n - 1)]
  BY <1>1, <1>3, ConcatenationElements
<1>6. c[n] = e /\ \A k \in 1..n-1 : c[k] = s[k]
  BY <1>1, <1>3, <1>5
<1> HIDE DEF c
<1> DEFINE r == c \o b
<1>7. \A k \in 1..Len(s)+1 : r[k] = IF k <= n THEN c[k] ELSE b[k - n]
  BY <1>2, <1>3, <1>4, ConcatenationElements
<1> HIDE DEF r
<1>8. \A k \in 1..Len(s)+1 :
        r[k] = IF k < n THEN s[k] ELSE IF k = n THEN e ELSE s[k - 1]
  <2> SUFFICES ASSUME NEW k \in 1..Len(s)+1
               PROVE  r[k] = IF k < n THEN s[k] ELSE IF k = n THEN e ELSE s[k - 1]
    OBVIOUS
  <2>1. CASE k <= n
    BY <2>1, <1>3, <1>6, <1>7
  <2>2. CASE k > n
    <3>1. r[k] = b[k - n] /\ k - n \in 1..Len(s)-n+1
      BY <2>2, <1>3, <1>7
    <3>2. b[k - n] = s[n + (k - n) - 1] /\ n + (k - n) - 1 = k - 1
      BY <3>1, <1>2, <1>3
    <3> QED
      BY <3>1, <3>2, <2>2
  <2> QED
    BY <2>1, <2>2, <1>3
<1>9. InsertAt(s, n, e) = r
  BY DEF InsertAt, a, b, c, r
<1> QED
  BY <1>8, <1>9

Insts == Plain!Instructions
Cells == Insts \cup {Garbage}
Accesses == [do : {"push", "insert", "set"}, inst : Insts, pos : Nat, block : Nat]

-----------------------------------------------------------------------------
(* What the statements do to the elements in use. *)

\* The first n elements of a sequence.
First(s, n) == SubSeq(s, 1, n)

LEMMA FirstElements ==
  ASSUME NEW S, NEW s \in Seq(S), NEW n \in 0..Len(s)
  PROVE  /\ First(s, n) \in Seq(S) /\ Len(First(s, n)) = n
         /\ \A k \in 1..n : First(s, n)[k] = s[k]
BY DEF First

\* The elements that n of s holds, where all of them are instructions.
LEMMA FirstOfUsed ==
  ASSUME NEW S, NEW T, NEW s \in Seq(S), NEW n \in 0..Len(s), \A k \in 1..n : s[k] \in T
  PROVE  /\ First(s, n) \in Seq(T) /\ Len(First(s, n)) = n
         /\ \A k \in 1..n : First(s, n)[k] = s[k]
<1>1. /\ First(s, n) \in Seq(S) /\ Len(First(s, n)) = n
      /\ \A k \in 1..n : First(s, n)[k] = s[k]
  BY FirstElements
<1> HIDE DEF First
<1> QED
  BY <1>1

\* A longer array holds the same.
LEMMA GrownElements ==
  ASSUME NEW S, NEW s \in Seq(S), NEW g \in Seq(S), NEW n \in 0..Len(s)
  PROVE  /\ s \o g \in Seq(S) /\ Len(s \o g) = Len(s) + Len(g)
         /\ \A k \in 1..n : (s \o g)[k] = s[k]
         /\ First(s \o g, n) = First(s, n)
<1> DEFINE t == s \o g
<1>1. t \in Seq(S) /\ Len(t) = Len(s) + Len(g) /\ \A k \in 1..Len(s) : t[k] = s[k]
  OBVIOUS
<1>2. n \in 0..Len(t) /\ \A k \in 1..n : k \in 1..Len(s)
  BY <1>1
<1> HIDE DEF t
<1>3. First(t, n) = First(s, n)
  <2>1. /\ First(t, n) \in Seq(S) /\ Len(First(t, n)) = n
        /\ \A k \in 1..n : First(t, n)[k] = t[k]
    BY <1>1, <1>2, FirstElements
  <2>2. /\ First(s, n) \in Seq(S) /\ Len(First(s, n)) = n
        /\ \A k \in 1..n : First(s, n)[k] = s[k]
    BY FirstElements
  <2>3. \A k \in 1..Len(First(t, n)) : First(t, n)[k] = First(s, n)[k]
    BY <1>1, <1>2, <2>1, <2>2
  <2> QED
    BY <2>1, <2>2, <2>3, SeqEqual
<1> QED
  BY <1>1, <1>2, <1>3 DEF t

Stored(s, p, e) == [s EXCEPT ![p] = e]

\* An element behind those in use, and one more in use.
IsPushed(t, S, s, n, e) ==
  /\ t \in Seq(S) /\ Len(t) = Len(s)
  /\ t[n + 1] = e /\ \A k \in 1..n : t[k] = s[k]
  /\ First(t, n + 1) = Append(First(s, n), e)

LEMMA PushedElements ==
  ASSUME NEW S, NEW s \in Seq(S), NEW n \in 0..Len(s)-1, NEW e \in S,
         NEW t, t = Stored(s, n + 1, e)
  PROVE  IsPushed(t, S, s, n, e)
<1>1. t \in Seq(S) /\ Len(t) = Len(s) /\ t[n + 1] = e /\ \A k \in 1..n : t[k] = s[k]
  BY DEF Stored
<1>2. /\ First(s, n) \in Seq(S) /\ Len(First(s, n)) = n
      /\ \A k \in 1..n : First(s, n)[k] = s[k]
  BY FirstElements
<1>0. n + 1 \in 0..Len(t)
  BY <1>1
<1>3. /\ First(t, n + 1) \in Seq(S) /\ Len(First(t, n + 1)) = n + 1
      /\ \A k \in 1..n+1 : First(t, n + 1)[k] = t[k]
  BY <1>0, <1>1, FirstElements
<1> DEFINE u == Append(First(s, n), e)
<1>4. /\ u \in Seq(S) /\ Len(u) = n + 1 /\ u[n + 1] = e
      /\ \A k \in 1..n : u[k] = First(s, n)[k]
  BY <1>2
<1> HIDE DEF u
<1>5. ASSUME NEW k \in 1..n+1 PROVE First(t, n + 1)[k] = u[k]
  <2>1. CASE k = n + 1
    BY <2>1, <1>1, <1>3, <1>4
  <2>2. CASE k # n + 1
    <3>1. k \in 1..n
      BY <2>2
    <3> QED
      BY <3>1, <1>1, <1>2, <1>3, <1>4
  <2> QED
    BY <2>1, <2>2
<1>6. First(t, n + 1) = u
  BY <1>3, <1>4, <1>5, SeqEqual
<1> QED
  BY <1>1, <1>6 DEF u, IsPushed

\* An element among those in use.
IsStored(t, S, s, n, p, e) ==
  /\ t \in Seq(S) /\ Len(t) = Len(s)
  /\ t[p] = e /\ \A k \in 1..Len(s) : k # p => t[k] = s[k]
  /\ First(t, n) = Stored(First(s, n), p, e)

LEMMA StoredElements ==
  ASSUME NEW S, NEW s \in Seq(S), NEW n \in 0..Len(s), NEW p \in 1..n, NEW e \in S,
         NEW t, t = Stored(s, p, e)
  PROVE  IsStored(t, S, s, n, p, e)
<1>1. /\ t \in Seq(S) /\ Len(t) = Len(s) /\ t[p] = e
      /\ \A k \in 1..Len(s) : k # p => t[k] = s[k]
  BY DEF Stored
<1>2. /\ First(s, n) \in Seq(S) /\ Len(First(s, n)) = n
      /\ \A k \in 1..n : First(s, n)[k] = s[k]
  BY FirstElements
<1>0. n \in 0..Len(t)
  BY <1>1
<1>3. /\ First(t, n) \in Seq(S) /\ Len(First(t, n)) = n
      /\ \A k \in 1..n : First(t, n)[k] = t[k]
  BY <1>0, <1>1, FirstElements
<1> DEFINE u == Stored(First(s, n), p, e)
<1>4. /\ u \in Seq(S) /\ Len(u) = n /\ u[p] = e
      /\ \A k \in 1..n : k # p => u[k] = First(s, n)[k]
  BY <1>2 DEF Stored
<1> HIDE DEF u
<1>5. ASSUME NEW k \in 1..n PROVE First(t, n)[k] = u[k]
  <2>1. k \in 1..Len(s)
    OBVIOUS
  <2>2. CASE k = p
    BY <2>2, <1>1, <1>3, <1>4
  <2>3. CASE k # p
    BY <2>1, <2>3, <1>1, <1>2, <1>3, <1>4
  <2> QED
    BY <2>2, <2>3
<1>6. First(t, n) = u
  BY <1>3, <1>4, <1>5, SeqEqual
<1> QED
  BY <1>1, <1>6 DEF u, IsStored

\* The memmove makes room at p: once e is there, it has been inserted.
MovedFrom(s, p, n) == [k \in DOMAIN s |-> IF k \in p+1..n+1 THEN s[k-1] ELSE s[k]]

IsMoved(t, S, s, n, p, e) ==
  /\ t \in Seq(S) /\ Len(t) = Len(s)
  /\ \A k \in 1..Len(s) : t[k] = IF k \in p+1..n+1 THEN s[k-1] ELSE s[k]
  /\ Stored(First(t, n + 1), p, e) = InsertAt(First(s, n), p, e)

LEMMA MovedElements ==
  ASSUME NEW S, NEW s \in Seq(S), NEW n \in 0..Len(s)-1, NEW p \in 1..n+1, NEW e \in S,
         NEW t, t = MovedFrom(s, p, n)
  PROVE  IsMoved(t, S, s, n, p, e)
<1>1. /\ t \in Seq(S) /\ Len(t) = Len(s)
      /\ \A k \in 1..Len(s) : t[k] = IF k \in p+1..n+1 THEN s[k-1] ELSE s[k]
  BY DEF MovedFrom
<1>2. /\ First(s, n) \in Seq(S) /\ Len(First(s, n)) = n
      /\ \A k \in 1..n : First(s, n)[k] = s[k]
  BY FirstElements
<1>0. n + 1 \in 0..Len(t)
  BY <1>1
<1>3. /\ First(t, n + 1) \in Seq(S) /\ Len(First(t, n + 1)) = n + 1
      /\ \A k \in 1..n+1 : First(t, n + 1)[k] = t[k]
  BY <1>0, <1>1, FirstElements
<1> DEFINE u == Stored(First(t, n + 1), p, e)
           x == First(s, n)
           v == InsertAt(x, p, e)
<1>4. /\ u \in Seq(S) /\ Len(u) = n + 1 /\ u[p] = e
      /\ \A k \in 1..n+1 : k # p => u[k] = First(t, n + 1)[k]
  BY <1>3 DEF Stored
<1> HIDE DEF u, x
<1>5. /\ v \in Seq(S) /\ Len(v) = n + 1
      /\ \A k \in 1..n+1 :
           v[k] = IF k < p THEN x[k] ELSE IF k = p THEN e ELSE x[k - 1]
  <2>1. x \in Seq(S) /\ Len(x) = n /\ p \in 1..Len(x)+1
    BY <1>2 DEF x
  <2>2. v \in Seq(S) /\ Len(v) = n + 1
    BY <2>1, InsertType
  <2>3. \A k \in 1..Len(x)+1 :
           v[k] = IF k < p THEN x[k] ELSE IF k = p THEN e ELSE x[k - 1]
    BY <2>1, InsertElements
  <2> QED
    BY <2>1, <2>2, <2>3
<1>8. \A k \in 1..n : x[k] = s[k]
  BY <1>2 DEF x
<1> HIDE DEF v
<1>6. ASSUME NEW k \in 1..n+1 PROVE u[k] = v[k]
  <2>1. CASE k < p
    <3>1. k \in 1..n /\ k # p /\ ~(k \in p+1..n+1) /\ k \in 1..Len(s)
      BY <2>1
    <3> QED
      BY <2>1, <3>1, <1>1, <1>3, <1>4, <1>5, <1>8
  <2>2. CASE k = p
    BY <2>2, <1>4, <1>5
  <2>3. CASE k > p
    <3>1. k - 1 \in 1..n /\ k # p /\ ~(k < p) /\ k \in p+1..n+1 /\ k \in 1..Len(s)
      BY <2>3
    <3> QED
      BY <3>1, <1>1, <1>3, <1>4, <1>5, <1>8
  <2> QED
    BY <2>1, <2>2, <2>3
<1>7. u = v
  BY <1>4, <1>5, <1>6, SeqEqual
<1> QED
  BY <1>1, <1>7 DEF u, v, x, IsMoved

-----------------------------------------------------------------------------
(* What RegAlloc puts in place of an instruction is stored and inserted. *)

Spliced(s, n, t) == SubSeq(s, 1, n - 1) \o t \o SubSeq(s, n + 1, Len(s))

IsSpliced(r, S, s, n, t) ==
  /\ r \in Seq(S) /\ Len(r) = Len(s) + Len(t) - 1
  /\ \A k \in 1..Len(r) :
       r[k] = IF k < n THEN s[k] ELSE IF k < n + Len(t) THEN t[k - n + 1] ELSE s[k - Len(t) + 1]

LEMMA SplicedElements ==
  ASSUME NEW S, NEW s \in Seq(S), NEW n \in 1..Len(s), NEW t \in Seq(S), Len(t) >= 1
  PROVE  IsSpliced(Spliced(s, n, t), S, s, n, t)
BY Splice, SpliceElements DEF Spliced, IsSpliced

IsInserted(r, S, s, n, e) ==
  /\ r \in Seq(S) /\ Len(r) = Len(s) + 1
  /\ \A k \in 1..Len(s)+1 : r[k] = IF k < n THEN s[k] ELSE IF k = n THEN e ELSE s[k - 1]

LEMMA InsertedElements ==
  ASSUME NEW S, NEW s \in Seq(S), NEW n \in 1..Len(s)+1, NEW e \in S
  PROVE  IsInserted(InsertAt(s, n, e), S, s, n, e)
<1>1. InsertAt(s, n, e) \in Seq(S) /\ Len(InsertAt(s, n, e)) = Len(s) + 1
  BY InsertType
<1>2. \A k \in 1..Len(s)+1 :
        InsertAt(s, n, e)[k] = IF k < n THEN s[k] ELSE IF k = n THEN e ELSE s[k - 1]
  BY InsertElements
<1> QED
  BY <1>1, <1>2 DEF IsInserted

LEMMA SplicedAlone ==
  ASSUME NEW S, NEW s \in Seq(S), NEW n \in 1..Len(s)
  PROVE  Spliced(s, n, <<s[n]>>) = s
<1> DEFINE t == <<s[n]>>
<1>1. t \in Seq(S) /\ Len(t) = 1 /\ t[1] = s[n] /\ Len(s) \in Nat
  OBVIOUS
<1> HIDE DEF t
<1>2. PICK r : r = Spliced(s, n, t)
  OBVIOUS
<1>3. IsSpliced(r, S, s, n, t)
  <2>1. Len(t) >= 1
    BY <1>1
  <2>2. IsSpliced(Spliced(s, n, t), S, s, n, t)
    BY <1>1, <2>1, SplicedElements
  <2> QED
    BY <1>2, <2>2
<1>4. r \in Seq(S) /\ Len(r) = Len(s)
  BY <1>1, <1>3 DEF IsSpliced
<1>5. ASSUME NEW k \in 1..Len(r) PROVE r[k] = s[k]
  <2>1. r[k] = IF k < n THEN s[k] ELSE IF k < n + 1 THEN t[k - n + 1] ELSE s[k - 1 + 1]
    BY <1>1, <1>3 DEF IsSpliced
  <2>2. CASE k < n
    BY <2>1, <2>2
  <2>3. CASE k = n
    BY <1>1, <2>1, <2>3
  <2>4. CASE k > n
    <3>1. k - 1 + 1 = k /\ ~(k < n) /\ ~(k < n + 1)
      BY <1>1, <1>4, <2>4
    <3> QED
      BY <2>1, <3>1
  <2> QED
    BY <1>1, <1>4, <2>2, <2>3, <2>4
<1>6. r = s
  BY <1>4, <1>5, SeqEqual
<1> QED
  BY <1>2, <1>6 DEF t

LEMMA SplicedTwo ==
  ASSUME NEW S, NEW s \in Seq(S), NEW n \in 1..Len(s), NEW a \in S, NEW b \in S
  PROVE  /\ Spliced(s, n, <<a, b>>) = InsertAt(Stored(s, n, a), n + 1, b)
         /\ Spliced(s, n, <<a, b>>) \in Seq(S) /\ Len(Spliced(s, n, <<a, b>>)) = Len(s) + 1
<1> DEFINE t == <<a, b>>
<1>1. t \in Seq(S) /\ Len(t) = 2 /\ t[1] = a /\ t[2] = b /\ Len(s) \in Nat
  OBVIOUS
<1> HIDE DEF t
<1>2. PICK r, x, y : r = Spliced(s, n, t) /\ x = Stored(s, n, a) /\ y = InsertAt(x, n + 1, b)
  OBVIOUS
<1>3. IsSpliced(r, S, s, n, t)
  <2>1. Len(t) >= 1
    BY <1>1
  <2>2. IsSpliced(Spliced(s, n, t), S, s, n, t)
    BY <1>1, <2>1, SplicedElements
  <2> QED
    BY <1>2, <2>2
<1>4. x \in Seq(S) /\ Len(x) = Len(s) /\ \A k \in 1..Len(s) : x[k] = IF k = n THEN a ELSE s[k]
  BY <1>2 DEF Stored
<1>5. IsInserted(y, S, x, n + 1, b)
  <2>1. n + 1 \in 1..Len(x)+1
    BY <1>1, <1>4
  <2> QED
    BY <1>2, <1>4, <2>1, InsertedElements
<1>6. r \in Seq(S) /\ Len(r) = Len(s) + 1 /\ y \in Seq(S) /\ Len(y) = Len(s) + 1
  BY <1>1, <1>3, <1>4, <1>5 DEF IsSpliced, IsInserted
<1>7. ASSUME NEW k \in 1..Len(r) PROVE r[k] = y[k]
  <2>0. k \in Int /\ n \in Int /\ k >= 1 /\ n >= 1 /\ k \in 1..Len(s)+1
    BY <1>1, <1>6
  <2>1. r[k] = IF k < n THEN s[k] ELSE IF k < n + 2 THEN t[k - n + 1] ELSE s[k - 2 + 1]
    BY <1>1, <1>3 DEF IsSpliced
  <2>2. y[k] = IF k < n + 1 THEN x[k] ELSE IF k = n + 1 THEN b ELSE x[k - 1]
    BY <1>4, <1>5, <2>0 DEF IsInserted
  <2>3. CASE k <= n
    <3>1. k \in 1..Len(s) /\ k < n + 1 /\ (~(k < n) => k = n /\ k < n + 2 /\ k - n + 1 = 1)
      BY <1>1, <2>0, <2>3
    <3>2. x[k] = IF k = n THEN a ELSE s[k]
      BY <1>4, <3>1
    <3>3. y[k] = x[k]
      BY <2>2, <3>1
    <3>4. r[k] = IF k < n THEN s[k] ELSE t[1]
      BY <2>1, <3>1
    <3>5. k < n => k # n
      BY <2>0
    <3> QED
      BY <1>1, <3>1, <3>2, <3>3, <3>4, <3>5
  <2>4. CASE k = n + 1
    <3>1. ~(k < n) /\ k < n + 2 /\ k - n + 1 = 2 /\ ~(k < n + 1)
      BY <2>0, <2>4
    <3> QED
      BY <1>1, <2>1, <2>2, <2>4, <3>1
  <2>5. CASE k > n + 1
    <3>1. /\ ~(k < n) /\ ~(k < n + 2) /\ k - 2 + 1 = k - 1
          /\ ~(k < n + 1) /\ k # n + 1 /\ k - 1 # n /\ k - 1 \in 1..Len(s)
      BY <1>1, <2>0, <2>5
    <3>2. x[k - 1] = s[k - 1]
      BY <1>4, <3>1
    <3> QED
      BY <2>1, <2>2, <3>1, <3>2
  <2> QED
    BY <2>0, <2>3, <2>4, <2>5
<1>8. r = y
  BY <1>6, <1>7, SeqEqual
<1> QED
  BY <1>2, <1>6, <1>8 DEF t

LEMMA SplicedThree ==
  ASSUME NEW S, NEW s \in Seq(S), NEW n \in 1..Len(s), NEW a \in S, NEW b \in S, NEW c \in S
  PROVE  /\ Spliced(s, n, <<a, b, c>>) = InsertAt(InsertAt(Stored(s, n, a), n + 1, b), n + 2, c)
         /\ Spliced(s, n, <<a, b, c>>) \in Seq(S)
<1> DEFINE t == <<a, b>>
           u == <<a, b, c>>
<1>1. /\ t \in Seq(S) /\ Len(t) = 2 /\ t[1] = a /\ t[2] = b /\ Len(s) \in Nat
      /\ u \in Seq(S) /\ Len(u) = 3 /\ u[1] = a /\ u[2] = b /\ u[3] = c
  OBVIOUS
<1>2. /\ Spliced(s, n, t) = InsertAt(Stored(s, n, a), n + 1, b)
      /\ Spliced(s, n, t) \in Seq(S) /\ Len(Spliced(s, n, t)) = Len(s) + 1
  BY SplicedTwo
<1> HIDE DEF t, u
<1>3. PICK q, r, y : q = Spliced(s, n, t) /\ r = Spliced(s, n, u) /\ y = InsertAt(q, n + 2, c)
  OBVIOUS
<1>4. IsSpliced(q, S, s, n, t) /\ IsSpliced(r, S, s, n, u)
  <2>1. Len(t) >= 1 /\ Len(u) >= 1
    BY <1>1
  <2>2. IsSpliced(Spliced(s, n, t), S, s, n, t)
    BY <1>1, <2>1, SplicedElements
  <2>3. IsSpliced(Spliced(s, n, u), S, s, n, u)
    BY <1>1, <2>1, SplicedElements
  <2> QED
    BY <1>3, <2>2, <2>3
<1>5. IsInserted(y, S, q, n + 2, c)
  <2>1. q \in Seq(S) /\ n + 2 \in 1..Len(q)+1
    BY <1>1, <1>2, <1>3
  <2> QED
    BY <1>3, <2>1, InsertedElements
<1>6. /\ r \in Seq(S) /\ Len(r) = Len(s) + 2 /\ y \in Seq(S) /\ Len(y) = Len(s) + 2
      /\ Len(q) = Len(s) + 1
  BY <1>1, <1>2, <1>3, <1>4, <1>5 DEF IsSpliced, IsInserted
<1>7. ASSUME NEW k \in 1..Len(r) PROVE r[k] = y[k]
  <2>0. k \in Int /\ n \in Int /\ k >= 1 /\ n >= 1 /\ k \in 1..Len(q)+1 /\ n <= Len(s)
    BY <1>1, <1>6
  <2>1. r[k] = IF k < n THEN s[k] ELSE IF k < n + 3 THEN u[k - n + 1] ELSE s[k - 3 + 1]
    BY <1>1, <1>4 DEF IsSpliced
  <2>2. y[k] = IF k < n + 2 THEN q[k] ELSE IF k = n + 2 THEN c ELSE q[k - 1]
    BY <1>5, <2>0 DEF IsInserted
  <2>3. \A j \in 1..Len(q) :
          q[j] = IF j < n THEN s[j] ELSE IF j < n + 2 THEN t[j - n + 1] ELSE s[j - 2 + 1]
    BY <1>1, <1>4 DEF IsSpliced
  <2>4. CASE k < n
    <3>1. k \in 1..Len(q) /\ k < n + 2
      BY <1>1, <1>6, <2>0, <2>4
    <3> QED
      BY <2>1, <2>2, <2>3, <2>4, <3>1
  <2>5. CASE k = n
    <3>1. k \in 1..Len(q) /\ k < n + 2 /\ k < n + 3 /\ k - n + 1 = 1 /\ ~(k < n)
      BY <1>1, <1>6, <2>0, <2>5
    <3> QED
      BY <1>1, <2>1, <2>2, <2>3, <3>1
  <2>6. CASE k = n + 1
    <3>1. k \in 1..Len(q) /\ k < n + 2 /\ k < n + 3 /\ k - n + 1 = 2 /\ ~(k < n)
      BY <1>1, <1>6, <2>0, <2>6
    <3> QED
      BY <1>1, <2>1, <2>2, <2>3, <3>1
  <2>7. CASE k = n + 2
    <3>1. ~(k < n) /\ ~(k < n + 2) /\ k < n + 3 /\ k - n + 1 = 3
      BY <2>0, <2>7
    <3> QED
      BY <1>1, <2>1, <2>2, <2>7, <3>1
  <2>8. CASE k > n + 2
    <3>1. /\ ~(k < n) /\ ~(k < n + 2) /\ ~(k < n + 3) /\ k # n + 2
          /\ k - 1 \in 1..Len(q) /\ ~(k - 1 < n) /\ ~(k - 1 < n + 2)
          /\ k - 3 + 1 = (k - 1) - 2 + 1
      BY <1>1, <1>6, <2>0, <2>8
    <3>2. q[k - 1] = s[(k - 1) - 2 + 1]
      BY <2>3, <3>1
    <3> QED
      BY <2>1, <2>2, <3>1, <3>2
  <2> QED
    BY <2>0, <2>4, <2>5, <2>6, <2>7, <2>8
<1>8. r = y
  BY <1>6, <1>7, SeqEqual
<1> QED
  BY <1>2, <1>3, <1>6, <1>8 DEF t, u

-----------------------------------------------------------------------------
(* The instructions that the passes store. *)

LEMMA InstructionTypes ==
  ASSUME NEW mnem \in Plain!Mnemonics, NEW dst \in Plain!Operands, NEW src \in Plain!Operands
  PROVE  /\ Plain!Binary(mnem, dst, src) \in Insts /\ Plain!Unary(mnem, dst) \in Insts
         /\ Plain!NoOps(mnem) \in Insts
<1>1. Plain!ZeroOp \in Plain!Operands
  BY DEF Plain!ZeroOp, Plain!Operand, Plain!Operands, Plain!NoLabel
<1> QED
  BY <1>1 DEF Insts, Plain!Binary, Plain!Unary, Plain!NoOps, Plain!Instructions

LEMMA OperandTypes ==
  ASSUME NEW v \in Int
  PROVE  /\ Plain!ImmOp(v) \in Plain!Operands /\ Plain!StackOp(v) \in Plain!Operands
         /\ Plain!RegOp(Plain!R10) \in Plain!Operands
         /\ Plain!RegOp(Plain!R11) \in Plain!Operands
         /\ Plain!RegOp(Plain!CX) \in Plain!Operands
BY DEF Plain!ImmOp, Plain!StackOp, Plain!RegOp, Plain!R10, Plain!R11, Plain!CX,
       Plain!Operand, Plain!Operands, Plain!NoLabel

\* A fix leaves the instruction alone or puts two or three in its place.
Shaped(inst, F) ==
  \/ F = <<inst>>
  \/ \E a, b \in Insts : F = <<a, b>>
  \/ \E a, b, c \in Insts : F = <<a, b, c>>

LEMMA FixShapes ==
  ASSUME NEW inst \in Insts
  PROVE  /\ Shaped(inst, Plain!fix_invalid_addr_addr(inst))
         /\ Shaped(inst, Plain!fix_invalid_imuls(inst))
         /\ Shaped(inst, Plain!fix_invalid_idivs(inst))
         /\ Shaped(inst, Plain!fix_invalid_shifts(inst))
         /\ Shaped(inst, Plain!fix_invalid_cmps(inst))
<1> DEFINE d == inst.dst
           s == inst.src
           m == inst.mnemonic
<1>1. /\ m \in Plain!Mnemonics /\ d \in Plain!Operands /\ s \in Plain!Operands
      /\ d.value \in Int /\ s.value \in Int
  BY DEF Insts, Plain!Instructions, Plain!Operands
<1>2. /\ "MOV" \in Plain!Mnemonics /\ "IMUL" \in Plain!Mnemonics
      /\ "IDIV" \in Plain!Mnemonics /\ "CMP" \in Plain!Mnemonics
  BY DEF Plain!Mnemonics, Plain!BinaryMnemonics, Plain!UnaryMnemonics
<1>3. \A mm \in Plain!Mnemonics, dd \in Plain!Operands, ss \in Plain!Operands :
        Plain!Binary(mm, dd, ss) \in Insts /\ Plain!Unary(mm, dd) \in Insts
  BY InstructionTypes
<1>4. /\ Plain!RegOp(Plain!R10) \in Plain!Operands /\ Plain!RegOp(Plain!R11) \in Plain!Operands
      /\ Plain!RegOp(Plain!CX) \in Plain!Operands
      /\ Plain!StackOp(d.value) \in Plain!Operands /\ Plain!StackOp(s.value) \in Plain!Operands
      /\ Plain!ImmOp(d.value) \in Plain!Operands
  BY <1>1, OperandTypes
<1>5. Shaped(inst, Plain!fix_invalid_addr_addr(inst))
  BY <1>1, <1>2, <1>3, <1>4 DEF Shaped, Plain!fix_invalid_addr_addr
<1>6. Shaped(inst, Plain!fix_invalid_imuls(inst))
  BY <1>1, <1>2, <1>3, <1>4 DEF Shaped, Plain!fix_invalid_imuls
<1>7. Shaped(inst, Plain!fix_invalid_idivs(inst))
  BY <1>1, <1>2, <1>3, <1>4 DEF Shaped, Plain!fix_invalid_idivs
<1>8. Shaped(inst, Plain!fix_invalid_shifts(inst))
  BY <1>1, <1>2, <1>3, <1>4 DEF Shaped, Plain!fix_invalid_shifts
<1>9. Shaped(inst, Plain!fix_invalid_cmps(inst))
  BY <1>1, <1>2, <1>3, <1>4 DEF Shaped, Plain!fix_invalid_cmps
<1> QED
  BY <1>5, <1>6, <1>7, <1>8, <1>9

\* Both operands of an instruction in their slots.
Mapping(inst, map, next) ==
  Plain!WithSlot(inst.src, Plain!WithSlot(inst.dst, [map |-> map, next |-> next]))

LEMMA WithSlotTypes ==
  ASSUME NEW op, NEW m, m = [map |-> m.map, next |-> m.next],
         m.map \in [0..MapSize-1 -> Int], m.next \in Int,
         NEW w, w = Plain!WithSlot(op, m)
  PROVE  w = [map |-> w.map, next |-> w.next] /\ w.map \in [0..MapSize-1 -> Int] /\ w.next \in Int
<1>1. CASE ~(op.type = "PSEUDO" /\ m.map[op.value] = 0)
  BY <1>1 DEF Plain!WithSlot
<1>2. CASE op.type = "PSEUDO" /\ m.map[op.value] = 0
  <2> DEFINE map == [m.map EXCEPT ![op.value] = m.next]
             next == m.next - 4
  <2>1. w = [map |-> map, next |-> next]
    BY <1>2 DEF Plain!WithSlot
  <2>2. map \in [0..MapSize-1 -> Int] /\ next \in Int
    <3>1. PICK a, b : a = m.map /\ b = m.next
      OBVIOUS
    <3>2. a \in [0..MapSize-1 -> Int] /\ b \in Int
      BY <3>1
    <3>4. PICK c : c = [a EXCEPT ![op.value] = b]
      OBVIOUS
    <3>5. c \in [0..MapSize-1 -> Int]
      <4>1. PICK v : v = op.value
        OBVIOUS
      <4>2. c = [t \in 0..MapSize-1 |-> IF t = v THEN b ELSE a[t]]
        BY <3>2, <3>4, <4>1
      <4> QED
        BY <3>2, <4>2
    <3>3. [a EXCEPT ![op.value] = b] \in [0..MapSize-1 -> Int] /\ b - 4 \in Int
      BY <3>2, <3>4, <3>5
    <3> QED
      BY <3>1, <3>3
  <2> HIDE DEF map, next
  <2> QED
    BY <2>1, <2>2
<1> QED
  BY <1>1, <1>2

LEMMA MappingTypes ==
  ASSUME NEW inst, NEW map \in [0..MapSize-1 -> Int], NEW next \in Int,
         NEW w, w = Mapping(inst, map, next)
  PROVE  w.map \in [0..MapSize-1 -> Int] /\ w.next \in Int
<1> DEFINE m == [map |-> map, next |-> next]
<1>1. m = [map |-> m.map, next |-> m.next] /\ m.map = map /\ m.next = next
  OBVIOUS
<1> HIDE DEF m
<1>2. PICK v : v = Plain!WithSlot(inst.dst, m)
  OBVIOUS
<1>3. v = [map |-> v.map, next |-> v.next] /\ v.map \in [0..MapSize-1 -> Int] /\ v.next \in Int
  BY <1>1, <1>2, WithSlotTypes
<1>4. w = Plain!WithSlot(inst.src, v)
  BY <1>2 DEF Mapping, m
<1> QED
  BY <1>3, <1>4, WithSlotTypes

Resolved(inst, map) ==
  [inst EXCEPT !.dst = Plain!Placed(@, map), !.src = Plain!Placed(@, map)]

LEMMA ResolvedType ==
  ASSUME NEW inst \in Insts, NEW map \in [0..MapSize-1 -> Int],
         Plain!Pseudos(inst) \subseteq 0..MapSize-1
  PROVE  Resolved(inst, map) \in Insts
<1>1. inst.dst \in Plain!Operands /\ inst.src \in Plain!Operands
  BY DEF Insts, Plain!Instructions
<1>2. ASSUME NEW op \in {inst.dst, inst.src} PROVE Plain!Placed(op, map) \in Plain!Operands
  <2>1. CASE op.type = "PSEUDO"
    <3>1. op.value \in Plain!Pseudos(inst)
      BY <2>1 DEF Plain!Pseudos
    <3>2. map[op.value] \in Int
      BY <3>1
    <3> QED
      BY <2>1, <3>2, OperandTypes DEF Plain!Placed
  <2>2. CASE op.type # "PSEUDO"
    BY <1>1, <2>2 DEF Plain!Placed
  <2> QED
    BY <2>1, <2>2
<1>3. Plain!Placed(inst.dst, map) \in Plain!Operands /\ Plain!Placed(inst.src, map) \in Plain!Operands
  BY <1>2
<1> QED
  BY <1>3 DEF Resolved, Insts, Plain!Instructions

-----------------------------------------------------------------------------
(* The invariant *)

\* What is in use has been written.
ArrayFits ==
  /\ slots \in Seq(Cells) /\ elements \in 0..Len(slots) /\ block \in Nat
  /\ \A k \in 1..elements : slots[k] \in Insts

Typed ==
  /\ input \in Inputs /\ pushed \in 0..Len(input)
  /\ offsetMap \in [0..MapSize-1 -> Int] /\ nextOffset \in Int
  /\ i \in 1..elements+1
  /\ step \in {"grow", "move", "store", "count"}
  /\ pass \in Plain!Passes \cup {"gen"}
  /\ pass = "gen" => i = 1
  /\ pass # "gen" => pushed = Len(input)

\* An insertion has a place in an array of n elements.
FitsAt(access, n) ==
  /\ access.do = "insert"
  /\ access.pos \in 1..n+1 \/ (access.pos = AtLast /\ n >= 1)

\* The first of the accesses is the only one that may not be an insertion,
\* and a pointer is stored through before anything moves the block.
HeadFits ==
  \/ /\ work[1].do = "push"
     /\ Len(work) = 1 /\ step \in {"grow", "store"} /\ pass = "gen"
  \/ /\ work[1].do = "set"
     /\ work[1].pos \in 1..elements /\ work[1].block = block
     /\ step = "grow" /\ pass \in DOMAIN Plain!NextPass
     /\ \A k \in 2..Len(work) : FitsAt(work[k], elements + k - 2)
  \/ /\ pass \in {"stack"} \cup DOMAIN Plain!NextPass
     /\ \A k \in 1..Len(work) : FitsAt(work[k], elements + k - 1)

\* There is room from the growth on, and what the memmove has put behind the
\* elements in use is an instruction.
Underway ==
  /\ step # "grow" => elements < Len(slots)
  /\ (step = "count" \/ (step = "store" /\ work[1].do = "insert" /\ Pos <= elements))
        => slots[elements + 1] \in Insts

WorkFits ==
  /\ work \in Seq(Accesses) /\ Len(work) <= 3
  /\ work = <<>> => step = "grow"
  /\ work # <<>> => /\ HeadFits /\ Underway
                    /\ pass \in DOMAIN Plain!NextPass => i <= elements

IInv == Typed /\ ArrayFits /\ WorkFits

-----------------------------------------------------------------------------
(* The statements of an access. *)

LEMMA Ongoing ==
  ASSUME IInv, work # <<>>
  PROVE  /\ Len(work) \in 1..3 /\ work \in Seq(Accesses) /\ work[1] \in Accesses
         /\ Tail(work) \in Seq(Accesses) /\ Len(Tail(work)) = Len(work) - 1
         /\ \A k \in 1..Len(work)-1 : Tail(work)[k] = work[k + 1]
<1>1. work \in Seq(Accesses) /\ Len(work) <= 3
  BY DEF IInv, WorkFits
<1>2. Len(work) \in Nat /\ Len(work) # 0
  BY <1>1
<1>3. Len(work) \in 1..3 /\ 1 \in 1..Len(work)
  <2>1. PICK n : n = Len(work)
    OBVIOUS
  <2>2. n \in Nat /\ n # 0 /\ n <= 3
    BY <1>1, <1>2, <2>1
  <2>3. n \in 1..3 /\ 1 \in 1..n
    BY <2>2
  <2> QED
    BY <2>1, <2>3
<1> QED
  BY <1>1, <1>3

LEMMA PlaceFits ==
  ASSUME NEW n \in Nat, NEW access, FitsAt(access, n)
  PROVE  At(access.pos, n) \in 1..n+1
BY DEF FitsAt, At, AtLast

\* The accesses after the first fit an array of n elements.
RestFits(n) == \A k \in 2..Len(work) : pass # "gen" /\ FitsAt(work[k], n + k - 2)

\* What RegAlloc sees is what it was.
Kept == /\ Ahead' = Ahead /\ PlainPass' = PlainPass /\ PlainI' = PlainI
        /\ UNCHANGED <<input, pushed, offsetMap, nextOffset>>

LEMMA PassNames ==
  /\ DOMAIN Plain!NextPass = {"addr_addr", "imul", "idiv", "shift", "cmp"}
  /\ Plain!Passes = {"map", "stack", "undefined", "done", "addr_addr", "imul", "idiv", "shift", "cmp"}
  /\ Plain!NextPass["addr_addr"] = "imul" /\ Plain!NextPass["imul"] = "idiv"
  /\ Plain!NextPass["idiv"] = "shift" /\ Plain!NextPass["shift"] = "cmp"
  /\ Plain!NextPass["cmp"] = "done"
BY DEF Plain!NextPass, Plain!Passes

\* The end of an access.
LEMMA DoneKeeps ==
  ASSUME IInv, work # <<>>, Done, ArrayFits', elements' >= elements, RestFits(elements'),
         Begun = InUse(elements)'
  PROVE  IInv' /\ Kept
<1> DEFINE n == Len(work)
<1>1. /\ n \in 1..3 /\ work \in Seq(Accesses) /\ work[1] \in Accesses
      /\ work' = Tail(work) /\ work' \in Seq(Accesses) /\ Len(work') = n - 1
      /\ \A k \in 1..n-1 : work'[k] = work[k + 1]
  BY Ongoing DEF Done
<1>2. /\ step' = "grow" /\ UNCHANGED <<input, pushed, offsetMap, nextOffset>>
      /\ elements \in Nat /\ elements' \in Nat /\ elements' >= elements
  BY DEF Done, IInv, ArrayFits
<1>3. /\ pass \in {"gen", "stack"} \cup DOMAIN Plain!NextPass
      /\ pass \in DOMAIN Plain!NextPass => i <= elements
      /\ n > 1 => pass # "gen"
  <2>1. pass \in DOMAIN Plain!NextPass => i <= elements
    BY DEF IInv, WorkFits
  <2>2. HeadFits
    BY DEF IInv, WorkFits
  <2>3. n > 1 => pass # "gen"
    <3>1. n > 1 => 2 \in 2..n
      BY <1>1
    <3> QED
      BY <3>1 DEF RestFits
  <2> QED
    BY <2>1, <2>2, <2>3 DEF HeadFits
<1>6. i \in Nat /\ i >= 1 /\ i \in 1..elements'+1
  <2>1. i \in 1..elements+1
    BY DEF IInv, Typed
  <2>2. PICK e, f : e = elements /\ f = elements'
    OBVIOUS
  <2>3. e \in Nat /\ f \in Nat /\ f >= e /\ i \in 1..e+1
    BY <1>2, <2>1, <2>2
  <2>4. i \in Nat /\ i >= 1 /\ i \in 1..f+1
    BY <2>3
  <2> QED
    BY <2>2, <2>4
<1>7. \A j \in Nat : (1 <= j /\ j <= elements + 1) => j \in 1..elements'+1
  <2>1. PICK e, f : e = elements /\ f = elements'
    OBVIOUS
  <2>2. e \in Nat /\ f \in Nat /\ f >= e
    BY <1>2, <2>1
  <2>3. \A j \in Nat : (1 <= j /\ j <= e + 1) => j \in 1..f+1
    BY <2>2
  <2> QED
    BY <2>1, <2>3
<1>4. CASE n = 1
  <2>1. work' = <<>>
    BY <1>1, <1>4
  <2>2. WorkFits'
    BY <1>1, <1>2, <2>1 DEF WorkFits
  <2>3. /\ pass' = IF pass = "stack" THEN "addr_addr" ELSE pass
        /\ i' = IF pass = "gen" THEN i ELSE IF pass = "stack" THEN 1 ELSE i + 1
    BY <1>4 DEF Done
  <2>4. Typed'
    <3>1. i' \in 1..elements'+1
      <4>1. CASE pass = "gen"
        BY <1>6, <2>3, <4>1
      <4>2. CASE pass = "stack"
        <5>1. i' = 1
          BY <2>3, <4>2
        <5>2. 1 \in Nat /\ 1 <= 1 /\ 1 <= elements + 1
          BY <1>2
        <5> QED
          BY <1>7, <5>1, <5>2
      <4>3. CASE pass \in DOMAIN Plain!NextPass
        <5>1. i' = i + 1 /\ i <= elements
          BY <1>3, <2>3, <4>3, PassNames
        <5> QED
          <6>1. i + 1 \in Nat /\ 1 <= i + 1 /\ i + 1 <= elements + 1
            BY <1>2, <1>6, <5>1
          <6> QED
            BY <1>7, <5>1, <6>1
      <4> QED
        BY <1>3, <4>1, <4>2, <4>3
    <3>2. pass' \in Plain!Passes \cup {"gen"} /\ (pass' = "gen" <=> pass = "gen")
      BY <1>3, <2>3, PassNames
    <3>3. (pass' = "gen" => i' = 1) /\ (pass' # "gen" => pushed' = Len(input'))
      BY <1>2, <2>3, <3>2 DEF IInv, Typed
    <3> QED
      BY <1>2, <3>1, <3>2, <3>3 DEF IInv, Typed
  <2>5. Ahead' = Ahead
    <3>1. Begun' = InUse(elements)'
      BY <1>2, <2>1 DEF Begun
    <3>2. Ahead = Begun
      BY <1>4 DEF Ahead
    <3>3. Len(work') <= 1
      BY <1>1, <1>4
    <3>4. Ahead' = Begun'
      BY <3>3 DEF Ahead
    <3> QED
      BY <3>1, <3>2, <3>4
  <2>6. PlainPass' = PlainPass
    BY <1>3, <2>1, <2>3, PassNames DEF PlainPass, Busy
  <2>7. PlainI' = PlainI
    <3>1. pass = "gen" \/ pass = "stack" \/ pass \notin {"gen", "stack"}
      OBVIOUS
    <3> QED
      BY <1>3, <2>1, <2>3, <3>1, PassNames DEF PlainI, Busy
  <2> QED
    BY <1>2, <2>2, <2>4, <2>5, <2>6, <2>7 DEF IInv, Kept
<1>5. CASE n > 1
  <2>1. work' # <<>> /\ pass # "gen"
    BY <1>1, <1>3, <1>5
  <2>2. pass' = pass /\ i' = i
    BY <1>5 DEF Done
  <2>3. HeadFits'
    <3>1. \A k \in 1..n-1 : FitsAt(work'[k], elements' + k - 1)
      <4>1. ASSUME NEW k \in 1..n-1 PROVE FitsAt(work'[k], elements' + k - 1)
        <5>1. k + 1 \in 2..n /\ elements' + (k + 1) - 2 = elements' + k - 1
          BY <1>1, <1>2
        <5>2. FitsAt(work[k + 1], elements' + (k + 1) - 2)
          BY <5>1 DEF RestFits
        <5> QED
          BY <1>1, <5>1, <5>2
      <4> QED
        BY <4>1
    <3>2. \A k \in 1..Len(work') : FitsAt(work'[k], elements' + k - 1)
      BY <1>1, <3>1
    <3>3. \A k \in 1..Len(work') : FitsAt(work[k], elements + k - 1)'
      BY <3>2 DEF FitsAt
    <3> QED
      BY <1>3, <2>1, <2>2, <3>3 DEF HeadFits
  <2>4. Underway'
    BY <1>2 DEF Underway
  <2>5. WorkFits'
    <3>1. pass' \in DOMAIN Plain!NextPass => i' <= elements'
      BY <1>2, <1>3, <2>2 DEF IInv, Typed
    <3>2. Len(work') <= 3
      <4>1. PICK m : m = n /\ m \in 1..3
        BY <1>1
      <4>2. m - 1 <= 3
        BY <4>1
      <4> QED
        BY <1>1, <4>1, <4>2
    <3> QED
      BY <1>1, <2>1, <2>3, <2>4, <3>1, <3>2 DEF WorkFits
  <2>6. Typed'
    <3>1. i' \in 1..elements'+1
      BY <1>6, <2>2
    <3> QED
      BY <1>2, <2>2, <3>1 DEF IInv, Typed
  <2>7. Ahead' = Ahead
    <3>1. Begun' = Apply(Begun, work[2])
      <4>1. work'[1] = work[2] /\ step' = "grow"
        BY <1>1, <1>2, <1>5
      <4>2. Begun' = Apply(InUse(elements)', work'[1])
        BY <1>2, <2>1 DEF Begun
      <4> QED
        BY <4>1, <4>2
    <3>2. CASE n = 2
      <4>1. Ahead = Apply(Begun, work[2])
        BY <3>2 DEF Ahead
      <4>2. Len(work') <= 1
        BY <1>1, <3>2
      <4> QED
        BY <3>1, <4>1, <4>2 DEF Ahead
    <3>3. CASE n = 3
      <4>1. Ahead = Apply(Apply(Begun, work[2]), work[3])
        BY <3>3 DEF Ahead
      <4>2. Len(work') = 2 /\ work'[2] = work[3]
        <5>1. 2 \in 1..n-1 /\ n - 1 = 2
          BY <3>3
        <5>2. work'[2] = work[2 + 1]
          BY <1>1, <5>1
        <5> QED
          BY <1>1, <5>1, <5>2
      <4>3. Ahead' = Apply(Begun', work'[2])
        BY <4>2 DEF Ahead
      <4> QED
        BY <3>1, <4>1, <4>2, <4>3
    <3> QED
      BY <1>1, <1>5, <3>2, <3>3
  <2>8. PlainPass' = PlainPass /\ PlainI' = PlainI
    BY <2>1, <2>2 DEF PlainPass, PlainI, Busy
  <2> QED
    BY <1>2, <2>5, <2>6, <2>7, <2>8 DEF IInv, Kept
<1> QED
  BY <1>1, <1>4, <1>5

LEMMA InUseIsFirst == \A n : InUse(n) = First(slots, n) /\ InUse(n)' = First(slots', n')
BY DEF InUse, First

\* What an action on the first access can count on.
LEMMA Accessing ==
  ASSUME IInv, work # <<>>
  PROVE  /\ slots \in Seq(Cells) /\ Len(slots) \in Nat /\ elements \in Nat
         /\ elements <= Len(slots) /\ elements \in 0..Len(slots) /\ block \in Nat
         /\ \A k \in 1..elements : slots[k] \in Insts
         /\ Insts \subseteq Cells
         /\ work[1].inst \in Insts /\ Len(work) \in 1..3
         /\ Typed /\ HeadFits /\ Underway
         /\ pass \in DOMAIN Plain!NextPass => i <= elements
         /\ work \in Seq(Accesses) /\ Len(work) <= 3
<1>1. work[1] \in Accesses /\ Len(work) \in 1..3
  BY Ongoing
<1>2. work[1].inst \in Insts
  BY <1>1 DEF Accesses
<1>3. slots \in Seq(Cells) /\ elements \in 0..Len(slots)
  BY DEF IInv, ArrayFits
<1>4. Len(slots) \in Nat /\ elements \in Nat /\ elements <= Len(slots)
  BY <1>3
<1> QED
  BY <1>1, <1>2, <1>3, <1>4 DEF IInv, ArrayFits, WorkFits, Cells

LEMMA Inserting ==
  ASSUME IInv, work # <<>>, work[1].do = "insert"
  PROVE  /\ Pos \in 1..elements+1 /\ pass # "gen"
         /\ \A k \in 1..Len(work) : FitsAt(work[k], elements + k - 1)
         /\ Apply(InUse(elements), work[1]) = InsertAt(First(slots, elements), Pos, work[1].inst)
<1>1. HeadFits /\ elements \in Nat /\ Len(work) \in 1..3
      /\ slots \in Seq(Cells) /\ elements \in 0..Len(slots)
  BY Accessing
<1>2. pass # "gen" /\ \A k \in 1..Len(work) : FitsAt(work[k], elements + k - 1)
  BY <1>1, PassNames DEF HeadFits
<1>3. FitsAt(work[1], elements)
  <2>1. 1 \in 1..Len(work) /\ elements + 1 - 1 = elements
    BY <1>1
  <2>2. FitsAt(work[1], elements + 1 - 1)
    BY <1>2, <2>1
  <2> QED
    BY <2>1, <2>2
<1>4. Pos \in 1..elements+1
  BY <1>1, <1>3, PlaceFits DEF Pos
<1>5. Len(InUse(elements)) = elements
  BY <1>1, FirstElements, InUseIsFirst
<1> QED
  BY <1>2, <1>4, <1>5, InUseIsFirst DEF Apply, Pos

LEMMA GrowKeeps == ASSUME IInv, Grow PROVE IInv' /\ Kept
<1>1. /\ work # <<>> /\ work[1].do \in {"push", "insert"} /\ step = "grow"
      /\ step' = IF work[1].do = "push" THEN "store" ELSE "move"
      /\ UNCHANGED <<input, pushed, elements, work, pass, i, offsetMap, nextOffset>>
  BY DEF Grow, Doing
<1>2. /\ slots \in Seq(Cells) /\ Len(slots) \in Nat /\ elements \in Nat
      /\ elements <= Len(slots) /\ elements \in 0..Len(slots) /\ block \in Nat
      /\ \A k \in 1..elements : slots[k] \in Insts
  BY <1>1, Accessing
<1>3. /\ slots' \in Seq(Cells) /\ Len(slots') \in Nat /\ elements < Len(slots') /\ block' \in Nat
      /\ \A k \in 1..elements : slots'[k] = slots[k]
      /\ First(slots', elements) = First(slots, elements)
  <2>1. CASE NeedGrow
    <3> DEFINE r == NextSize - Len(slots)
               g == [k \in 1..r |-> Garbage]
    <3>1. r \in Nat /\ r >= 1
      <4>1. PICK l : l = Len(slots)
        OBVIOUS
      <4>2. l \in Nat /\ (3 * l) \div 2 + 1 - l \in Int /\ (3 * l) \div 2 + 1 - l >= 1
        BY <1>2, <4>1
      <4>3. r = (3 * l) \div 2 + 1 - l
        BY <4>1 DEF NextSize
      <4> QED
        BY <4>2, <4>3
    <3> HIDE DEF r
    <3>2. g \in Seq(Cells) /\ Len(g) = r
      BY <3>1 DEF Cells
    <3>3. slots' = slots \o g /\ block' \in {block, block + 1}
      BY <2>1 DEF Grow, g, r
    <3> HIDE DEF g
    <3>4. elements = Len(slots)
      BY <1>2, <2>1 DEF NeedGrow
    <3>5. /\ slots \o g \in Seq(Cells) /\ Len(slots \o g) = Len(slots) + Len(g)
          /\ \A k \in 1..elements : (slots \o g)[k] = slots[k]
          /\ First(slots \o g, elements) = First(slots, elements)
      BY <1>2, <3>2, GrownElements
    <3>6. Len(slots') = Len(slots) + r
      BY <3>2, <3>3, <3>5
    <3>7. block' \in Nat
      BY <1>2, <3>3
    <3>8. Len(slots') \in Nat /\ elements < Len(slots')
      BY <1>2, <3>1, <3>4, <3>6
    <3> QED
      BY <3>3, <3>5, <3>7, <3>8
  <2>2. CASE ~NeedGrow
    <3>1. slots' = slots /\ block' = block
      BY <2>2 DEF Grow
    <3>2. elements < Len(slots)
      BY <1>2, <2>2 DEF NeedGrow
    <3> QED
      BY <1>2, <3>1, <3>2
  <2> QED
    BY <2>1, <2>2
<1>4. ArrayFits'
  <2>1. elements \in 0..Len(slots')
    BY <1>2, <1>3
  <2>2. \A k \in 1..elements : slots'[k] \in Insts
    BY <1>2, <1>3
  <2> QED
    BY <1>1, <1>3, <2>1, <2>2 DEF ArrayFits
<1>5. Typed'
  <2>1. Typed
    BY DEF IInv
  <2> QED
    BY <1>1, <2>1 DEF Typed
<1>6. WorkFits'
  <2>1. HeadFits'
    <3>1. HeadFits
      BY <1>1, Accessing
    <3> QED
      BY <1>1, <3>1 DEF HeadFits, FitsAt
  <2>2. Underway'
    BY <1>1, <1>3 DEF Underway
  <2> QED
    BY <1>1, <2>1, <2>2 DEF IInv, WorkFits
<1>7. Begun' = Begun
  <2>1. Begun = Apply(InUse(elements), work[1])
    BY <1>1 DEF Begun
  <2>2. Begun' = Apply(InUse(elements)', work'[1])
    BY <1>1 DEF Begun
  <2>3. InUse(elements)' = InUse(elements)
    BY <1>1, <1>3, InUseIsFirst
  <2> QED
    BY <1>1, <2>1, <2>2, <2>3
<1>8. Kept
  BY <1>1, <1>7 DEF Kept, Ahead, PlainPass, PlainI, Busy
<1> QED
  BY <1>4, <1>5, <1>6, <1>8 DEF IInv

LEMMA StorePushedKeeps == ASSUME IInv, StorePushed PROVE IInv' /\ Kept
<1>1. work # <<>> /\ work[1].do = "push" /\ step = "store"
  BY DEF StorePushed, Doing
<1>2. /\ slots \in Seq(Cells) /\ Len(slots) \in Nat /\ elements \in Nat
      /\ \A k \in 1..elements : slots[k] \in Insts
      /\ block \in Nat /\ work[1].inst \in Insts /\ work[1].inst \in Cells
  BY <1>1, Accessing
<1>3. elements < Len(slots)
  BY <1>1, Accessing DEF Underway
<1>4. /\ slots' = Stored(slots, elements + 1, work[1].inst)
      /\ elements' = elements + 1 /\ block' = block /\ Done
  BY <1>3 DEF StorePushed, Stored
<1>5. elements \in 0..Len(slots)-1
  BY <1>2, <1>3
<1>6. /\ slots' \in Seq(Cells) /\ Len(slots') = Len(slots)
      /\ slots'[elements + 1] = work[1].inst /\ \A k \in 1..elements : slots'[k] = slots[k]
      /\ First(slots', elements + 1) = Append(First(slots, elements), work[1].inst)
  <2>1. PICK s, t, n, e : s = slots /\ t = slots' /\ n = elements /\ e = work[1].inst
    OBVIOUS
  <2>2. /\ s \in Seq(Cells) /\ n \in 0..Len(s)-1 /\ e \in Cells
        /\ t = Stored(s, n + 1, e)
    BY <1>2, <1>4, <1>5, <2>1
  <2>3. /\ t \in Seq(Cells) /\ Len(t) = Len(s)
        /\ t[n + 1] = e /\ \A k \in 1..n : t[k] = s[k]
        /\ First(t, n + 1) = Append(First(s, n), e)
    <3>1. IsPushed(t, Cells, s, n, e)
      BY <2>2, PushedElements
    <3> QED
      BY <3>1 DEF IsPushed
  <2> QED
    BY <2>1, <2>3
<1>7. ArrayFits'
  <2>1. elements + 1 \in 0..Len(slots')
    BY <1>5, <1>6
  <2>2. ASSUME NEW k \in 1..elements+1 PROVE slots'[k] \in Insts
    <3>1. k \in 1..elements \/ k = elements + 1
      BY <1>2
    <3> QED
      BY <1>2, <1>6, <3>1
  <2> QED
    BY <1>2, <1>4, <1>6, <2>1, <2>2 DEF ArrayFits
<1>8. Begun = InUse(elements)'
  <2>1. Begun = Apply(InUse(elements), work[1])
    BY <1>1 DEF Begun
  <2>2. Begun = Append(First(slots, elements), work[1].inst)
    BY <1>1, <2>1, InUseIsFirst DEF Apply
  <2> QED
    BY <1>4, <1>6, <2>2, InUseIsFirst
<1>9. RestFits(elements')
  <2>1. Len(work) = 1
    BY <1>1, Accessing, PassNames, Inserting DEF HeadFits, FitsAt
  <2> QED
    BY <2>1 DEF RestFits
<1>10. elements' >= elements
  BY <1>2, <1>4
<1> QED
  BY <1>1, <1>4, <1>7, <1>8, <1>9, <1>10, DoneKeeps

LEMMA MoveKeeps == ASSUME IInv, Move PROVE IInv' /\ Kept
<1>1. work # <<>> /\ work[1].do = "insert" /\ step = "move"
  BY DEF Move, Doing
<1>2. /\ slots \in Seq(Cells) /\ Len(slots) \in Nat /\ elements \in Nat
      /\ \A k \in 1..elements : slots[k] \in Insts
      /\ block \in Nat /\ work[1].inst \in Cells
      /\ elements \in 0..Len(slots)
  BY <1>1, Accessing
<1>3. elements < Len(slots) /\ Pos \in 1..elements+1
  BY <1>1, Accessing, Inserting DEF Underway
<1>4. /\ slots' = MovedFrom(slots, Pos, elements) /\ step' = "store"
      /\ UNCHANGED <<input, pushed, elements, block, work, pass, i, offsetMap, nextOffset>>
  BY <1>3 DEF Move, MovedFrom
<1>5. PICK s, t, n, p, e : s = slots /\ t = slots' /\ n = elements /\ p = Pos /\ e = work[1].inst
  OBVIOUS
<1>6. /\ s \in Seq(Cells) /\ n \in 0..Len(s)-1 /\ p \in 1..n+1 /\ e \in Cells
      /\ t = MovedFrom(s, p, n) /\ n \in Nat /\ Len(s) \in Nat
      /\ \A k \in 1..n : s[k] \in Insts
  BY <1>2, <1>3, <1>4, <1>5
<1>7. /\ t \in Seq(Cells) /\ Len(t) = Len(s)
      /\ \A k \in 1..Len(s) : t[k] = IF k \in p+1..n+1 THEN s[k-1] ELSE s[k]
      /\ Stored(First(t, n + 1), p, e) = InsertAt(First(s, n), p, e)
  <2>1. IsMoved(t, Cells, s, n, p, e)
    BY <1>6, MovedElements
  <2> QED
    BY <2>1 DEF IsMoved
<1>8. \A k \in 1..n : t[k] \in Insts
  <2> TAKE k \in 1..n
  <2>1. k \in 1..Len(s)
    BY <1>6
  <2>2. CASE k \in p+1..n+1
    <3>1. k - 1 \in 1..n
      BY <1>6, <2>2
    <3> QED
      BY <1>6, <1>7, <2>1, <2>2, <3>1
  <2>3. CASE k \notin p+1..n+1
    BY <1>6, <1>7, <2>1, <2>3
  <2> QED
    BY <2>2, <2>3
<1>9. p <= n => t[n + 1] \in Insts
  <2> HAVE p <= n
  <2>1. n + 1 \in 1..Len(s) /\ n + 1 \in p+1..n+1 /\ n + 1 - 1 = n /\ n \in 1..n
    BY <1>6
  <2> QED
    BY <1>6, <1>7, <2>1
<1>10. ArrayFits'
  <2>1. n \in 0..Len(t)
    BY <1>6, <1>7
  <2> QED
    BY <1>2, <1>4, <1>5, <1>7, <1>8, <2>1 DEF ArrayFits
<1>11. Pos' = Pos
  BY <1>4 DEF Pos
<1>12. WorkFits'
  <2>1. HeadFits'
    <3>1. HeadFits
      BY <1>1, Accessing
    <3> QED
      BY <1>1, <1>4, <3>1 DEF HeadFits, FitsAt
  <2>2. Underway'
    <3>1. n < Len(t)
      BY <1>6, <1>7
    <3> QED
      BY <1>4, <1>5, <1>9, <1>11, <3>1 DEF Underway
  <2> QED
    BY <1>1, <1>4, <2>1, <2>2 DEF IInv, WorkFits
<1>13. Begun' = Begun
  <2>1. Begun = InsertAt(First(s, n), p, e)
    <3>1. Begun = Apply(InUse(elements), work[1])
      BY <1>1 DEF Begun
    <3> QED
      BY <1>1, <1>5, <3>1, Inserting
  <2>2. Begun' = [InUse(elements + 1)' EXCEPT ![Pos'] = work'[1].inst]
    BY <1>1, <1>4 DEF Begun, Pos
  <2>3. InUse(elements + 1)' = First(t, n + 1)
    BY <1>4, <1>5, InUseIsFirst
  <2>4. Begun' = Stored(First(t, n + 1), p, e)
    BY <1>4, <1>5, <1>11, <2>2, <2>3 DEF Stored
  <2> QED
    BY <1>7, <2>1, <2>4
<1>14. Typed'
  <2>1. Typed
    BY DEF IInv
  <2> QED
    BY <1>4, <2>1 DEF Typed
<1>15. Kept
  BY <1>4, <1>13 DEF Kept, Ahead, PlainPass, PlainI, Busy
<1> QED
  BY <1>10, <1>12, <1>14, <1>15 DEF IInv

LEMMA StoreInsertedKeeps == ASSUME IInv, StoreInserted PROVE IInv' /\ Kept
<1>1. /\ work # <<>> /\ work[1].do = "insert" /\ step = "store"
      /\ slots' = Stored(slots, Pos, work[1].inst) /\ step' = "count"
      /\ UNCHANGED <<input, pushed, elements, block, work, pass, i, offsetMap, nextOffset>>
  BY DEF StoreInserted, Doing, Stored
<1>2. /\ slots \in Seq(Cells) /\ Len(slots) \in Nat /\ elements \in Nat
      /\ \A k \in 1..elements : slots[k] \in Insts
      /\ block \in Nat /\ work[1].inst \in Cells /\ work[1].inst \in Insts
  BY <1>1, Accessing
<1>3. /\ elements < Len(slots) /\ Pos \in 1..elements+1
      /\ Pos <= elements => slots[elements + 1] \in Insts
  BY <1>1, Accessing, Inserting DEF Underway
<1>5. PICK s, t, n, p, e : s = slots /\ t = slots' /\ n = elements /\ p = Pos /\ e = work[1].inst
  OBVIOUS
<1>6. /\ s \in Seq(Cells) /\ n + 1 \in 0..Len(s) /\ p \in 1..n+1 /\ e \in Cells /\ e \in Insts
      /\ t = Stored(s, p, e) /\ n \in Nat /\ Len(s) \in Nat
      /\ \A k \in 1..n : s[k] \in Insts
      /\ p <= n => s[n + 1] \in Insts
  BY <1>1, <1>2, <1>3, <1>5
<1>7. /\ t \in Seq(Cells) /\ Len(t) = Len(s)
      /\ t[p] = e /\ \A k \in 1..Len(s) : k # p => t[k] = s[k]
      /\ First(t, n + 1) = Stored(First(s, n + 1), p, e)
  <2>0. PICK m : m = n + 1
    OBVIOUS
  <2>1. /\ s \in Seq(Cells) /\ m \in 0..Len(s) /\ p \in 1..m /\ e \in Cells
        /\ t = Stored(s, p, e)
    BY <1>6, <2>0
  <2>2. IsStored(t, Cells, s, m, p, e)
    BY <2>1, StoredElements
  <2> QED
    BY <2>0, <2>2 DEF IsStored
<1>8. \A k \in 1..n+1 : t[k] \in Insts
  <2> TAKE k \in 1..n+1
  <2>1. k \in 1..Len(s)
    BY <1>6
  <2>2. CASE k = p
    BY <1>6, <1>7, <2>2
  <2>3. CASE k # p
    <3>1. k \in 1..n \/ (k = n + 1 /\ p <= n)
      BY <1>6, <2>3
    <3>2. s[k] \in Insts
      BY <1>6, <3>1
    <3> QED
      BY <1>7, <2>1, <2>3, <3>2
  <2> QED
    BY <2>2, <2>3
<1>9. n \in 0..Len(t) /\ n < Len(t) /\ n + 1 \in 1..n+1 /\ \A k \in 1..n : k \in 1..n+1
  BY <1>6, <1>7
<1>10. ArrayFits'
  BY <1>1, <1>2, <1>5, <1>7, <1>8, <1>9 DEF ArrayFits
<1>12. WorkFits'
  <2>1. HeadFits'
    <3>1. HeadFits
      BY <1>1, Accessing
    <3> QED
      BY <1>1, <3>1 DEF HeadFits, FitsAt
  <2>2. Underway'
    BY <1>1, <1>5, <1>8, <1>9 DEF Underway
  <2> QED
    BY <1>1, <2>1, <2>2 DEF IInv, WorkFits
<1>13. Begun' = Begun
  <2>1. Begun = [InUse(elements + 1) EXCEPT ![Pos] = work[1].inst]
    BY <1>1 DEF Begun, Pos
  <2>2. Begun = Stored(First(s, n + 1), p, e)
    BY <1>5, <2>1, InUseIsFirst DEF Stored
  <2>3. Begun' = InUse(elements + 1)'
    BY <1>1 DEF Begun
  <2>4. Begun' = First(t, n + 1)
    BY <1>1, <1>5, <2>3, InUseIsFirst
  <2> QED
    BY <1>7, <2>2, <2>4
<1>14. Typed'
  <2>1. Typed
    BY DEF IInv
  <2> QED
    BY <1>1, <2>1 DEF Typed
<1>15. Kept
  BY <1>1, <1>13 DEF Kept, Ahead, PlainPass, PlainI, Busy
<1> QED
  BY <1>10, <1>12, <1>14, <1>15 DEF IInv

LEMMA CountKeeps == ASSUME IInv, Count PROVE IInv' /\ Kept
<1>1. /\ work # <<>> /\ work[1].do = "insert" /\ step = "count"
      /\ elements' = elements + 1 /\ slots' = slots /\ block' = block /\ Done
  BY DEF Count, Doing
<1>2. /\ slots \in Seq(Cells) /\ Len(slots) \in Nat /\ elements \in Nat
      /\ \A k \in 1..elements : slots[k] \in Insts
      /\ block \in Nat /\ Len(work) \in 1..3
  BY <1>1, Accessing
<1>3. elements < Len(slots) /\ slots[elements + 1] \in Insts
  BY <1>1, Accessing DEF Underway
<1>4. ArrayFits'
  <2>1. elements + 1 \in 0..Len(slots)
    BY <1>2, <1>3
  <2>2. ASSUME NEW k \in 1..elements+1 PROVE slots[k] \in Insts
    <3>1. k \in 1..elements \/ k = elements + 1
      BY <1>2
    <3> QED
      BY <1>2, <1>3, <3>1
  <2> QED
    BY <1>1, <1>2, <2>1, <2>2 DEF ArrayFits
<1>5. RestFits(elements')
  <2>1. ASSUME NEW k \in 2..Len(work) PROVE pass # "gen" /\ FitsAt(work[k], elements' + k - 2)
    <3>1. k \in 1..Len(work) /\ elements' + k - 2 = elements + k - 1
      BY <1>1, <1>2
    <3>2. pass # "gen" /\ FitsAt(work[k], elements + k - 1)
      BY <1>1, <3>1, Inserting
    <3> QED
      BY <3>1, <3>2
  <2> QED
    BY <2>1 DEF RestFits
<1>6. Begun = InUse(elements)'
  <2>1. Begun = InUse(elements + 1)
    BY <1>1 DEF Begun
  <2> QED
    BY <1>1, <2>1, InUseIsFirst
<1>7. elements' >= elements
  BY <1>1, <1>2
<1> QED
  BY <1>1, <1>4, <1>5, <1>6, <1>7, DoneKeeps

\* The pointer is good: the block has not moved since it was taken.
LEMMA StoreInPlaceKeeps == ASSUME IInv, StoreInPlace PROVE IInv' /\ Kept
<1>1. work # <<>> /\ work[1].do = "set" /\ step = "grow"
  BY DEF StoreInPlace, Doing
<1>2. /\ slots \in Seq(Cells) /\ Len(slots) \in Nat /\ elements \in Nat
      /\ elements \in 0..Len(slots)
      /\ \A k \in 1..elements : slots[k] \in Insts
      /\ block \in Nat /\ work[1].inst \in Cells /\ work[1].inst \in Insts
      /\ Len(work) \in 1..3 /\ HeadFits
  BY <1>1, Accessing
<1>3. /\ work[1].pos \in 1..elements /\ work[1].block = block
      /\ pass \in DOMAIN Plain!NextPass
      /\ \A k \in 2..Len(work) : FitsAt(work[k], elements + k - 2)
  <2>1. 1 \in 1..Len(work)
    BY <1>2
  <2> QED
    BY <1>1, <1>2, <2>1 DEF HeadFits, FitsAt
<1>4. /\ slots' = Stored(slots, work[1].pos, work[1].inst)
      /\ elements' = elements /\ block' = block /\ Done
  BY <1>3 DEF StoreInPlace, Stored
<1>5. PICK s, t, n, p, e :
        s = slots /\ t = slots' /\ n = elements /\ p = work[1].pos /\ e = work[1].inst
  OBVIOUS
<1>6. /\ s \in Seq(Cells) /\ n \in 0..Len(s) /\ p \in 1..n /\ e \in Cells /\ e \in Insts
      /\ t = Stored(s, p, e) /\ n \in Nat /\ Len(s) \in Nat
      /\ \A k \in 1..n : s[k] \in Insts
  BY <1>2, <1>3, <1>4, <1>5
<1>7. /\ t \in Seq(Cells) /\ Len(t) = Len(s)
      /\ t[p] = e /\ \A k \in 1..Len(s) : k # p => t[k] = s[k]
      /\ First(t, n) = Stored(First(s, n), p, e)
  <2>1. /\ s \in Seq(Cells) /\ n \in 0..Len(s) /\ p \in 1..n /\ e \in Cells
        /\ t = Stored(s, p, e)
    BY <1>6
  <2>2. IsStored(t, Cells, s, n, p, e)
    BY <2>1, StoredElements
  <2> QED
    BY <2>2 DEF IsStored
<1>8. \A k \in 1..n : t[k] \in Insts
  <2> TAKE k \in 1..n
  <2>1. k \in 1..Len(s)
    BY <1>6
  <2>2. CASE k = p
    BY <1>6, <1>7, <2>2
  <2>3. CASE k # p
    BY <1>6, <1>7, <2>1, <2>3
  <2> QED
    BY <2>2, <2>3
<1>9. ArrayFits'
  BY <1>2, <1>4, <1>5, <1>6, <1>7, <1>8 DEF ArrayFits
<1>10. RestFits(elements')
  BY <1>3, <1>4, PassNames DEF RestFits
<1>11. Begun = InUse(elements)'
  <2>1. Begun = Apply(InUse(elements), work[1])
    BY <1>1 DEF Begun
  <2>2. Begun = Stored(First(s, n), p, e)
    BY <1>1, <1>5, <2>1, InUseIsFirst DEF Apply, Stored
  <2> QED
    BY <1>4, <1>5, <1>7, <2>2, InUseIsFirst
<1>12. elements' >= elements
  BY <1>2, <1>4
<1> QED
  BY <1>1, <1>4, <1>9, <1>10, <1>11, <1>12, DoneKeeps

-----------------------------------------------------------------------------
(* Between the accesses: one step of RegAlloc, or none. *)

PlainStep == [Plain!Next]_(Plain!vars)

LEMMA KeptIsNoStep == ASSUME Kept PROVE PlainStep
<1>1. Whole' = Whole
  BY DEF Kept, Whole
<1> QED
  BY <1>1 DEF Kept, PlainStep, Plain!vars

LEMMA InputTypes ==
  ASSUME NEW s \in Inputs
  PROVE  s \in Seq(Insts) /\ Len(s) \in Nat
<1>1. Plain!Selected \subseteq Insts
  BY DEF Plain!Selected, Insts
<1>2. s \in Seq(Plain!Selected)
  BY InputsAssumption
<1> HIDE DEF Insts
<1> QED
  BY <1>1, <1>2

\* Nothing is left to push after the generator.
LEMMA NothingLeft ==
  ASSUME NEW x \in Seq(Insts), NEW s \in Inputs
  PROVE  x \o SubSeq(s, Len(s) + 1, Len(s)) = x
<1>1. s \in Seq(Insts) /\ Len(s) \in Nat
  BY InputTypes
<1>2. SubSeq(s, Len(s) + 1, Len(s)) = <<>>
  <2>1. Len(s) + 1 > Len(s) /\ Len(s) + 1 \in 1..Len(s)+1
    BY <1>1
  <2> QED
    BY <1>1, <2>1, SubSeqEmpty
<1>3. x \o <<>> = x
  BY ConcatEmptySeq
<1> QED
  BY <1>2, <1>3

LEMMA Resting ==
  ASSUME IInv, work = <<>>
  PROVE  /\ slots \in Seq(Cells) /\ Len(slots) \in Nat /\ elements \in Nat
         /\ elements \in 0..Len(slots) /\ block \in Nat
         /\ \A k \in 1..elements : slots[k] \in Insts
         /\ Insts \subseteq Cells /\ step = "grow" /\ Ahead = First(slots, elements)
         /\ First(slots, elements) \in Seq(Insts) /\ Len(First(slots, elements)) = elements
         /\ \A k \in 1..elements : First(slots, elements)[k] = slots[k]
         /\ input \in Inputs /\ i \in Nat /\ i >= 1 /\ i <= elements + 1
<1>1. /\ slots \in Seq(Cells) /\ elements \in 0..Len(slots) /\ block \in Nat
      /\ \A k \in 1..elements : slots[k] \in Insts
      /\ step = "grow" /\ input \in Inputs /\ i \in 1..elements+1
  BY DEF IInv, ArrayFits, WorkFits, Typed
<1>2. Len(slots) \in Nat /\ elements \in Nat /\ i \in Nat /\ i >= 1 /\ i <= elements + 1
  BY <1>1
<1>3. /\ First(slots, elements) \in Seq(Insts) /\ Len(First(slots, elements)) = elements
      /\ \A k \in 1..elements : First(slots, elements)[k] = slots[k]
  BY <1>1, FirstOfUsed
<1>4. Ahead = First(slots, elements)
  <2>1. Len(work) <= 1
    OBVIOUS
  <2>2. Begun = InUse(elements)
    BY <1>1 DEF Begun
  <2> QED
    BY <2>1, <2>2, InUseIsFirst DEF Ahead
<1> QED
  BY <1>1, <1>2, <1>3, <1>4 DEF Cells

\* In the passes the array is what RegAlloc calls the program.
LEMMA Walking ==
  ASSUME IInv, work = <<>>, pass # "gen"
  PROVE  /\ Whole = First(slots, elements) /\ Len(Whole) = elements /\ Whole \in Seq(Insts)
         /\ \A k \in 1..elements : Whole[k] = slots[k]
         /\ PlainPass = pass /\ PlainI = i /\ pushed = Len(input)
<1>1. pushed = Len(input)
  BY DEF IInv, Typed
<1>2. Whole = First(slots, elements)
  BY <1>1, Resting, NothingLeft DEF Whole
<1>3. PlainPass = pass /\ PlainI = i
  BY DEF PlainPass, PlainI, Busy
<1> QED
  BY <1>1, <1>2, <1>3, Resting

LEMMA WholeAfter ==
  ASSUME IInv, pass # "gen", UNCHANGED <<input, pushed>>, Ahead' \in Seq(Insts)
  PROVE  Whole' = Ahead'
<1>1. input \in Inputs /\ pushed = Len(input)
  BY DEF IInv, Typed
<1>2. PICK x : x = Ahead'
  OBVIOUS
<1>3. x \o SubSeq(input, Len(input) + 1, Len(input)) = x
  BY <1>1, <1>2, NothingLeft
<1> QED
  BY <1>1, <1>2, <1>3 DEF Whole

LEMMA AheadAfter ==
  ASSUME work' = <<>>, step' = "grow"
  PROVE  Ahead' = First(slots', elements')
<1>1. Len(work') <= 1
  OBVIOUS
<1>2. Begun' = InUse(elements)'
  BY DEF Begun
<1> QED
  BY <1>1, <1>2, InUseIsFirst DEF Ahead

\* A step of the passes that lists no access and leaves the array alone.
LEMMA WalkKeeps ==
  ASSUME IInv, work = <<>>, pass # "gen", UNCHANGED <<input, pushed, array, work, step>>,
         pass' \in Plain!Passes, i' \in 1..elements+1,
         offsetMap' \in [0..MapSize-1 -> Int], nextOffset' \in Int
  PROVE  IInv' /\ Whole' = Whole /\ PlainPass' = pass' /\ PlainI' = i'
<1>1. pass' # "gen"
  BY PassNames
<1>2. Typed'
  BY <1>1 DEF IInv, Typed, array
<1>3. ArrayFits'
  BY DEF IInv, ArrayFits, array
<1>4. WorkFits'
  BY DEF IInv, WorkFits
<1>5. Whole' = Whole
  BY DEF Whole, Ahead, Begun, InUse, array
<1>6. PlainPass' = pass' /\ PlainI' = i'
  BY <1>1 DEF PlainPass, PlainI, Busy
<1> QED
  BY <1>2, <1>3, <1>4, <1>5, <1>6 DEF IInv

LEMMA GenerateDoneSimulates == ASSUME IInv, GenerateDone PROVE IInv' /\ PlainStep
<1>1. /\ work = <<>> /\ pass = "gen" /\ pass' = "map" /\ i' = 1 /\ pushed = Len(input)
      /\ UNCHANGED <<input, pushed, array, work, step, offsetMap, nextOffset>>
  BY DEF GenerateDone, StartPass, Idle
<1>2. i = 1
  BY <1>1 DEF IInv, Typed
<1>3. Typed'
  <2>1. 1 \in 1..elements+1
    BY <1>2 DEF IInv, Typed
  <2> QED
    BY <1>1, <2>1, PassNames DEF IInv, Typed, array
<1>4. ArrayFits'
  BY <1>1 DEF IInv, ArrayFits, array
<1>5. WorkFits'
  BY <1>1 DEF IInv, WorkFits
<1>6. Kept
  BY <1>1, <1>2 DEF Kept, Ahead, Begun, InUse, PlainPass, PlainI, Busy, array
<1> QED
  BY <1>3, <1>4, <1>5, <1>6, KeptIsNoStep DEF IInv

LEMMA MapOutOfBoundsSimulates == ASSUME IInv, MapOutOfBounds PROVE IInv' /\ PlainStep
<1>1. /\ work = <<>> /\ pass = "map" /\ i <= elements /\ pass' = "undefined"
      /\ ~(Plain!Pseudos(slots[i]) \subseteq 0..MapSize-1)
      /\ UNCHANGED <<input, pushed, array, work, step, i, offsetMap, nextOffset>>
  BY DEF MapOutOfBounds, Idle, OutOfBlock
<1>2. /\ IInv' /\ Whole' = Whole /\ PlainPass' = pass' /\ PlainI' = i'
  <2>1. i \in 1..elements+1 /\ offsetMap \in [0..MapSize-1 -> Int] /\ nextOffset \in Int
    BY DEF IInv, Typed
  <2> QED
    BY <1>1, <2>1, PassNames, WalkKeeps
<1>3. /\ PlainPass = "map" /\ PlainI = i /\ Len(Whole) = elements /\ Whole[i] = slots[i]
  <2>1. i \in 1..elements
    BY <1>1, Resting
  <2> QED
    BY <1>1, <2>1, Walking
<1>4. Plain!MapOutOfBounds
  BY <1>1, <1>2, <1>3 DEF Plain!MapOutOfBounds
<1> QED
  BY <1>2, <1>4 DEF PlainStep, Plain!Next

LEMMA MappedSimulates == ASSUME IInv, Mapped PROVE IInv' /\ PlainStep
<1>1. /\ work = <<>> /\ pass = "map" /\ i > elements /\ pass' = "stack"
      /\ UNCHANGED <<input, pushed, array, work, step, i, offsetMap, nextOffset>>
  BY DEF Mapped, Idle
<1>2. /\ IInv' /\ Whole' = Whole /\ PlainPass' = pass' /\ PlainI' = i'
  <2>1. i \in 1..elements+1 /\ offsetMap \in [0..MapSize-1 -> Int] /\ nextOffset \in Int
    BY DEF IInv, Typed
  <2> QED
    BY <1>1, <2>1, PassNames, WalkKeeps
<1>3. PlainPass = "map" /\ PlainI = i /\ Len(Whole) = elements
  BY <1>1, Walking
<1>4. Plain!MapDone
  BY <1>1, <1>2, <1>3 DEF Plain!MapDone
<1> QED
  BY <1>2, <1>4 DEF PlainStep, Plain!Next

LEMMA NoFrameSimulates == ASSUME IInv, NoFrame PROVE IInv' /\ PlainStep
<1>1. /\ work = <<>> /\ pass = "stack" /\ Plain!AllocAmount = 0 /\ pass' = "addr_addr" /\ i' = 1
      /\ UNCHANGED <<input, pushed, array, work, step, offsetMap, nextOffset>>
  BY DEF NoFrame, StartPass, Idle
<1>2. /\ IInv' /\ Whole' = Whole /\ PlainPass' = pass' /\ PlainI' = i'
  <2>1. 1 \in 1..elements+1 /\ offsetMap \in [0..MapSize-1 -> Int] /\ nextOffset \in Int
    BY <1>1, Resting DEF IInv, Typed
  <2> QED
    BY <1>1, <2>1, PassNames, WalkKeeps
<1>3. PlainPass = "stack" /\ PlainI = i
  BY <1>1, Walking
<1>4. Plain!StackAlloc
  BY <1>1, <1>2, <1>3 DEF Plain!StackAlloc
<1> QED
  BY <1>2, <1>4 DEF PlainStep, Plain!Next

LEMMA PassDoneSimulates == ASSUME IInv, PassDone PROVE IInv' /\ PlainStep
<1>1. /\ work = <<>> /\ pass \in DOMAIN Plain!NextPass /\ i > elements
      /\ pass' = Plain!NextPass[pass] /\ i' = 1
      /\ UNCHANGED <<input, pushed, array, work, step, offsetMap, nextOffset>>
  BY DEF PassDone, StartPass, Idle
<1>2. pass # "gen" /\ pass' \in Plain!Passes
  BY <1>1, PassNames
<1>3. /\ IInv' /\ Whole' = Whole /\ PlainPass' = pass' /\ PlainI' = i'
  <2>1. 1 \in 1..elements+1 /\ offsetMap \in [0..MapSize-1 -> Int] /\ nextOffset \in Int
    BY <1>1, Resting DEF IInv, Typed
  <2> QED
    BY <1>1, <1>2, <2>1, WalkKeeps
<1>4. PlainPass = pass /\ PlainI = i /\ Len(Whole) = elements
  BY <1>1, <1>2, Walking
<1>5. Plain!PassDone
  BY <1>1, <1>3, <1>4 DEF Plain!PassDone
<1> QED
  BY <1>3, <1>5 DEF PlainStep, Plain!Next

LEMMA Pushing ==
  ASSUME NEW S, NEW x \in Seq(S), NEW s \in Seq(S), NEW n \in 0..Len(s)-1
  PROVE  Append(x, s[n + 1]) \o SubSeq(s, n + 1 + 1, Len(s)) = x \o SubSeq(s, n + 1, Len(s))
<1>1. n \in Nat /\ Len(s) \in Nat /\ n + 1 \in 1..Len(s) /\ s[n + 1] \in S
  OBVIOUS
<1>2. PICK y, z : y = SubSeq(s, n + 1, Len(s)) /\ z = SubSeq(s, n + 1 + 1, Len(s))
  OBVIOUS
<1>3. z \in Seq(S) /\ y \in Seq(S) /\ y = <<s[n + 1]>> \o z
  <2>1. z \in Seq(S) /\ Len(z) = Len(s) - n - 1 /\ \A k \in 1..Len(s)-n-1 : z[k] = s[n + 1 + k]
    <3>1. PICK m : m = n + 1
      OBVIOUS
    <3>2. m \in Nat /\ m <= Len(s)
      BY <1>1, <3>1
    <3>3. z = SubSeq(s, m + 1, Len(s))
      BY <1>2, <3>1
    <3>4. z \in Seq(S) /\ Len(z) = Len(s) - m /\ \A k \in 1..Len(s)-m : z[k] = s[m + k]
      BY <1>1, <3>2, <3>3
    <3>5. Len(s) - m = Len(s) - n - 1
      BY <1>1, <3>1
    <3> QED
      BY <3>1, <3>4, <3>5
  <2>2. y \in Seq(S) /\ Len(y) = Len(s) - n /\ \A k \in 1..Len(s)-n : y[k] = s[n + k]
    BY <1>1, <1>2
  <2>3. PICK e, w : e = <<s[n + 1]>> /\ w = e \o z
    OBVIOUS
  <2>4. e \in Seq(S) /\ Len(e) = 1 /\ e[1] = s[n + 1]
    BY <1>1, <2>3
  <2>5. w \in Seq(S) /\ Len(w) = Len(s) - n
    BY <1>1, <2>1, <2>3, <2>4, Concatenation
  <2>6. \A k \in 1..Len(e)+Len(z) : w[k] = IF k <= Len(e) THEN e[k] ELSE z[k - Len(e)]
    BY <2>1, <2>3, <2>4, ConcatenationElements
  <2>7. ASSUME NEW k \in 1..Len(w) PROVE y[k] = w[k]
    <3>1. /\ k \in 1..Len(s)-n /\ k \in 1..Len(e)+Len(z)
          /\ (k = 1 => k <= Len(e)) /\ (k # 1 => ~(k <= Len(e)) /\ k - 1 \in 1..Len(s)-n-1)
          /\ n + 1 + (k - 1) = n + k
      BY <1>1, <2>1, <2>4, <2>5
    <3>2. y[k] = s[n + k] /\ w[k] = IF k <= Len(e) THEN e[k] ELSE z[k - Len(e)]
      BY <2>2, <2>6, <3>1
    <3>3. CASE k = 1
      BY <2>4, <3>1, <3>2, <3>3
    <3>4. CASE k # 1
      BY <2>1, <2>4, <3>1, <3>2, <3>4
    <3> QED
      BY <3>3, <3>4
  <2>8. y = w
    BY <2>2, <2>5, <2>7, SeqEqual
  <2> QED
    BY <2>1, <2>2, <2>3, <2>8
<1>4. Append(x, s[n + 1]) = x \o <<s[n + 1]>>
  BY <1>1, AppendIsConcat
<1>5. <<s[n + 1]>> \in Seq(S)
  BY <1>1
<1>6. (x \o <<s[n + 1]>>) \o z = x \o (<<s[n + 1]>> \o z)
  BY <1>3, <1>5, ConcatAssociative
<1> QED
  BY <1>2, <1>3, <1>4, <1>6

LEMMA GenerateSimulates == ASSUME IInv, Generate PROVE IInv' /\ PlainStep
<1>1. /\ work = <<>> /\ pass = "gen" /\ pushed < Len(input) /\ pushed' = pushed + 1
      /\ work' = <<Push(input[pushed + 1])>>
      /\ UNCHANGED <<input, array, step, pass, i, offsetMap, nextOffset>>
  BY DEF Generate, Begin, Idle
<1>2. input \in Inputs /\ pushed \in 0..Len(input) /\ step = "grow"
  BY <1>1, Resting DEF IInv, Typed
<1>3. input \in Seq(Insts) /\ Len(input) \in Nat
  BY <1>2, InputTypes
<1>4. /\ pushed + 1 \in 1..Len(input) /\ pushed + 1 \in 0..Len(input)
      /\ pushed \in 0..Len(input)-1
  BY <1>1, <1>2, <1>3
<1>5. PICK e : e = Push(input[pushed + 1])
  OBVIOUS
<1>6. e \in Accesses /\ e.do = "push" /\ e.inst = input[pushed + 1]
  <2>1. input[pushed + 1] \in Insts
    BY <1>3, <1>4
  <2> QED
    BY <1>5, <2>1 DEF Push, Accesses, AtLast
<1>7. work' \in Seq(Accesses) /\ Len(work') = 1 /\ work'[1] = e /\ work' # <<>>
  BY <1>1, <1>5, <1>6
<1>8. Typed'
  BY <1>1, <1>4 DEF IInv, Typed, array
<1>9. ArrayFits'
  BY <1>1 DEF IInv, ArrayFits, array
<1>10. WorkFits'
  <2>1. HeadFits'
    BY <1>1, <1>2, <1>6, <1>7 DEF HeadFits
  <2>2. Underway'
    BY <1>1, <1>2 DEF Underway
  <2> QED
    BY <1>1, <1>7, <2>1, <2>2, PassNames DEF WorkFits
<1>11. Whole' = Whole
  <2>1. Ahead' = Append(First(slots, elements), input[pushed + 1])
    <3>1. Len(work') <= 1 /\ step' = "grow" /\ slots' = slots /\ elements' = elements
      BY <1>1, <1>2, <1>7 DEF array
    <3>2. Begun' = Apply(InUse(elements)', work'[1])
      BY <1>7, <3>1 DEF Begun
    <3>3. Begun' = Append(First(slots, elements), input[pushed + 1])
      BY <1>6, <1>7, <3>1, <3>2, InUseIsFirst DEF Apply
    <3> QED
      BY <3>1, <3>3 DEF Ahead
  <2>2. Ahead = First(slots, elements) /\ First(slots, elements) \in Seq(Insts)
    BY <1>1, Resting
  <2>3. Append(First(slots, elements), input[pushed + 1]) \o SubSeq(input, pushed + 1 + 1, Len(input))
          = First(slots, elements) \o SubSeq(input, pushed + 1, Len(input))
    BY <1>3, <1>4, <2>2, Pushing
  <2> QED
    BY <1>1, <2>1, <2>2, <2>3 DEF Whole
<1>12. PlainPass' = PlainPass /\ PlainI' = PlainI
  BY <1>1 DEF PlainPass, PlainI
<1> QED
  BY <1>1, <1>8, <1>9, <1>10, <1>11, <1>12 DEF IInv, PlainStep, Plain!vars

LEMMA MapInstructionSimulates == ASSUME IInv, MapInstruction PROVE IInv' /\ PlainStep
<1> DEFINE m == Mapping(slots[i], offsetMap, nextOffset)
<1>1. /\ work = <<>> /\ pass = "map" /\ i <= elements
      /\ Plain!Pseudos(slots[i]) \subseteq 0..MapSize-1 /\ i' = i + 1
      /\ offsetMap' = m.map /\ nextOffset' = m.next
      /\ UNCHANGED <<input, pushed, elements, block, work, step, pass>>
  BY DEF MapInstruction, Idle, Mapping
<1>2. /\ slots \in Seq(Cells) /\ Len(slots) \in Nat /\ elements \in Nat
      /\ elements \in 0..Len(slots) /\ block \in Nat /\ step = "grow"
      /\ \A k \in 1..elements : slots[k] \in Insts
      /\ Insts \subseteq Cells /\ i \in 1..elements /\ i \in 1..Len(slots)
  <2>1. /\ slots \in Seq(Cells) /\ Len(slots) \in Nat /\ elements \in Nat
        /\ elements \in 0..Len(slots) /\ block \in Nat /\ step = "grow"
        /\ \A k \in 1..elements : slots[k] \in Insts
        /\ Insts \subseteq Cells /\ i \in Nat /\ i >= 1
    BY <1>1, Resting
  <2>2. i \in 1..elements /\ i \in 1..Len(slots)
    BY <1>1, <2>1
  <2> QED
    BY <2>1, <2>2
<1>3. offsetMap \in [0..MapSize-1 -> Int] /\ nextOffset \in Int
  BY DEF IInv, Typed
<1>4. slots' = Stored(slots, i, Resolved(slots[i], m.map))
  <2>1. slots' = [slots EXCEPT ![i].dst = Plain!Placed(@, m.map),
                               ![i].src = Plain!Placed(@, m.map)]
    BY DEF MapInstruction, Mapping
  <2>2. PICK s, map : s = slots /\ map = m.map
    OBVIOUS
  <2>3. [s EXCEPT ![i].dst = Plain!Placed(@, map), ![i].src = Plain!Placed(@, map)]
          = [s EXCEPT ![i] = [s[i] EXCEPT !.dst = Plain!Placed(@, map), !.src = Plain!Placed(@, map)]]
    <3>1. s \in Seq(Cells) /\ i \in 1..Len(s) /\ s[i] \in Insts
      BY <1>2, <2>2
    <3> QED
      BY <3>1 DEF Insts, Plain!Instructions
  <2> QED
    BY <2>1, <2>2, <2>3 DEF Stored, Resolved
<1> HIDE DEF m
<1>5. offsetMap' \in [0..MapSize-1 -> Int] /\ nextOffset' \in Int
  <2>1. m = Mapping(slots[i], offsetMap, nextOffset)
    BY DEF m
  <2> QED
    BY <1>1, <1>3, <2>1, MappingTypes
<1>6. PICK s, t, n, e : s = slots /\ t = slots' /\ n = elements /\ e = Resolved(slots[i], m.map)
  OBVIOUS
<1>7. e \in Insts
  BY <1>1, <1>2, <1>5, <1>6, ResolvedType
<1>8. /\ s \in Seq(Cells) /\ n \in 0..Len(s) /\ n \in Nat /\ i \in 1..n /\ e \in Cells
      /\ t = Stored(s, i, e) /\ \A k \in 1..n : s[k] \in Insts
  BY <1>2, <1>4, <1>6, <1>7
<1>9. IsStored(t, Cells, s, n, i, e)
  BY <1>8, StoredElements
<1>10. \A k \in 1..n : t[k] \in Insts
  <2> TAKE k \in 1..n
  <2>1. k \in 1..Len(s)
    BY <1>8
  <2>2. k # i => t[k] = s[k]
    BY <1>9, <2>1 DEF IsStored
  <2>3. k = i => t[k] = e
    BY <1>9 DEF IsStored
  <2> QED
    BY <1>7, <1>8, <2>2, <2>3
<1>11. ArrayFits'
  BY <1>1, <1>2, <1>6, <1>8, <1>9, <1>10 DEF ArrayFits, IsStored
<1>12. i + 1 \in 1..elements+1
  BY <1>2
<1>13. Typed'
  BY <1>1, <1>5, <1>12 DEF IInv, Typed
<1>14. WorkFits'
  BY <1>1, <1>2 DEF IInv, WorkFits
<1>15. Whole' = Stored(First(s, n), i, e)
  <2>1. Ahead' = First(t, n)
    BY <1>1, <1>2, <1>6, AheadAfter
  <2>2. First(t, n) = Stored(First(s, n), i, e)
    BY <1>9 DEF IsStored
  <2>3. First(t, n) \in Seq(Insts)
    <3>1. t \in Seq(Cells) /\ n \in 0..Len(t)
      BY <1>8, <1>9 DEF IsStored
    <3> QED
      BY <1>10, <3>1, FirstOfUsed
  <2> QED
    BY <1>1, <2>1, <2>2, <2>3, WholeAfter
<1>16. /\ Whole = First(s, n) /\ Len(Whole) = elements /\ Whole[i] = slots[i]
       /\ PlainPass = "map" /\ PlainI = i
  BY <1>1, <1>2, <1>6, Walking
<1>17. PlainPass' = "map" /\ PlainI' = i + 1
  BY <1>1 DEF PlainPass, PlainI, Busy
<1>18. Plain!MapInstruction
  <2>1. Whole' = [Whole EXCEPT ![PlainI] = Resolved(Whole[PlainI], m.map)]
    BY <1>6, <1>15, <1>16 DEF Stored
  <2>2. offsetMap' = m.map /\ nextOffset' = m.next /\ m = Mapping(Whole[PlainI], offsetMap, nextOffset)
    BY <1>1, <1>16 DEF m
  <2> QED
    BY <1>1, <1>16, <1>17, <2>1, <2>2 DEF Plain!MapInstruction, Resolved, Mapping
<1> QED
  BY <1>11, <1>13, <1>14, <1>18 DEF IInv, PlainStep, Plain!Next

LEMMA MakeFrameSimulates == ASSUME IInv, MakeFrame PROVE IInv' /\ PlainStep
<1> DEFINE sa == Unary("ALLOCATE_STACK", StackOp(Plain!AllocAmount))
           sd == NoOps("DEALLOCATE_STACK")
<1>1. /\ work = <<>> /\ pass = "stack" /\ Plain!AllocAmount # 0
      /\ work' = <<Insert(sa, 1), Insert(sd, AtLast)>>
      /\ UNCHANGED <<input, pushed, array, step, pass, i, offsetMap, nextOffset>>
  BY DEF MakeFrame, Begin, Idle
<1>2. sa \in Insts /\ sd \in Insts
  <2>1. Plain!AllocAmount \in Int
    BY DEF Plain!AllocAmount, IInv, Typed
  <2>2. "ALLOCATE_STACK" \in Plain!Mnemonics /\ "DEALLOCATE_STACK" \in Plain!Mnemonics
    BY DEF Plain!Mnemonics
  <2>3. Plain!StackOp(Plain!AllocAmount) \in Plain!Operands
    BY <2>1, OperandTypes
  <2>4. /\ Plain!Unary("ALLOCATE_STACK", Plain!StackOp(Plain!AllocAmount)) \in Insts
        /\ Plain!NoOps("DEALLOCATE_STACK") \in Insts
    BY <2>2, <2>3, InstructionTypes
  <2>5. /\ sa = Plain!Unary("ALLOCATE_STACK", Plain!StackOp(Plain!AllocAmount))
        /\ sd = Plain!NoOps("DEALLOCATE_STACK")
    BY DEF Unary, StackOp, NoOps, ZeroOp, Operand, NoLabel, Plain!Unary, Plain!StackOp,
           Plain!NoOps, Plain!ZeroOp, Plain!Operand, Plain!NoLabel
  <2> QED
    BY <2>4, <2>5
<1> HIDE DEF sa, sd
<1>3. PICK a, d : a = Insert(sa, 1) /\ d = Insert(sd, AtLast)
  OBVIOUS
<1>4. /\ a \in Accesses /\ a.do = "insert" /\ a.inst = sa /\ a.pos = 1
      /\ d \in Accesses /\ d.do = "insert" /\ d.inst = sd /\ d.pos = AtLast
  BY <1>2, <1>3 DEF Insert, Accesses, AtLast
<1>5. /\ work' \in Seq(Accesses) /\ Len(work') = 2 /\ work'[1] = a /\ work'[2] = d
      /\ work' # <<>>
  BY <1>1, <1>3, <1>4
<1>6. /\ step = "grow" /\ step' = "grow" /\ elements \in Nat
      /\ slots' = slots /\ elements' = elements
  BY <1>1, Resting DEF array
<1>7. Typed'
  BY <1>1 DEF IInv, Typed, array
<1>8. ArrayFits'
  BY <1>1 DEF IInv, ArrayFits, array
<1>9. WorkFits'
  <2>1. HeadFits'
    <3>1. ASSUME NEW k \in 1..2 PROVE FitsAt(work'[k], elements + k - 1)
      <4>1. CASE k = 1
        <5>1. elements + k - 1 \in Nat /\ 1 \in 1..(elements + k - 1)+1
          BY <1>6, <4>1
        <5> QED
          BY <1>4, <1>5, <4>1, <5>1 DEF FitsAt
      <4>2. CASE k = 2
        <5>1. elements + k - 1 >= 1
          BY <1>6, <4>2
        <5> QED
          BY <1>4, <1>5, <4>2, <5>1 DEF FitsAt
      <4> QED
        BY <4>1, <4>2
    <3>2. \A k \in 1..Len(work') : FitsAt(work[k], elements + k - 1)'
      BY <1>5, <1>6, <3>1 DEF FitsAt
    <3> QED
      BY <1>1, <3>2 DEF HeadFits
  <2>2. Underway'
    BY <1>1, <1>6 DEF Underway
  <2> QED
    BY <1>1, <1>5, <2>1, <2>2, PassNames DEF WorkFits
<1>10. /\ Whole = First(slots, elements) /\ Len(Whole) = elements /\ Whole \in Seq(Insts)
       /\ PlainPass = "stack" /\ PlainI = i
  BY <1>1, Walking
<1>11. PICK w, x, y : w = Whole /\ x = InsertAt(w, 1, sa) /\ y = InsertAt(x, Len(w) + 1, sd)
  OBVIOUS
<1>12. x \in Seq(Insts) /\ Len(x) = Len(w) + 1
  <2>1. w \in Seq(Insts) /\ 1 \in 1..Len(w)+1
    BY <1>6, <1>10, <1>11
  <2> QED
    BY <1>2, <1>11, <2>1, InsertType
<1>13. y \in Seq(Insts)
  <2>1. Len(w) + 1 \in 1..Len(x)+1
    BY <1>6, <1>10, <1>11, <1>12
  <2> QED
    BY <1>2, <1>11, <1>12, <2>1, InsertType
<1>14. Ahead' = y
  <2>1. Begun' = Apply(InUse(elements)', work'[1])
    BY <1>5, <1>6 DEF Begun
  <2>2. InUse(elements)' = w
    BY <1>6, <1>10, <1>11, InUseIsFirst
  <2>3. Begun' = x
    BY <1>4, <1>5, <1>11, <2>1, <2>2 DEF Apply, At, AtLast
  <2>4. Ahead' = Apply(Begun', work'[2])
    BY <1>5 DEF Ahead
  <2>5. Apply(x, d) = InsertAt(x, Len(x), sd)
    BY <1>4 DEF Apply, At
  <2> QED
    BY <1>5, <1>11, <1>12, <2>3, <2>4, <2>5
<1>15. Whole' = y
  BY <1>1, <1>13, <1>14, WholeAfter
<1>16. PlainPass' = "addr_addr" /\ PlainI' = 1
  BY <1>1, <1>5 DEF PlainPass, PlainI, Busy
<1>17. Plain!StackAlloc
  <2>1. /\ sa = Plain!Unary("ALLOCATE_STACK", Plain!StackOp(Plain!AllocAmount))
        /\ sd = Plain!NoOps("DEALLOCATE_STACK")
    BY DEF sa, sd, Unary, StackOp, NoOps, ZeroOp, Operand, NoLabel, Plain!Unary, Plain!StackOp,
           Plain!NoOps, Plain!ZeroOp, Plain!Operand, Plain!NoLabel
  <2>2. \A s, p, e : Plain!InsertAt(s, p, e) = InsertAt(s, p, e)
    BY DEF InsertAt, Plain!InsertAt
  <2>3. Whole' = Plain!InsertAt(Plain!InsertAt(Whole, 1, sa), Len(Whole) + 1, sd)
    BY <1>11, <1>15, <2>2
  <2> QED
    BY <1>1, <1>10, <1>16, <2>1, <2>3 DEF Plain!StackAlloc
<1> QED
  BY <1>7, <1>8, <1>9, <1>17 DEF IInv, PlainStep, Plain!Next

\* What an iteration that rewrites an instruction lists.
LEMMA Listed ==
  ASSUME IInv, work = <<>>, pass \in DOMAIN Plain!NextPass, i <= elements,
         NEW F \in Seq(Insts), Len(F) \in 2..3, Begin(Rewrite(F)),
         UNCHANGED <<input, pushed, pass, i>>
  PROVE  /\ IInv' /\ Len(work') = Len(F) /\ work' # <<>> /\ step' = "grow"
         /\ work'[1] = Set(F[1], i, block)
         /\ \A k \in 2..Len(F) : work'[k] = Insert(F[k], i + k - 1)
<1> DEFINE l == Len(F)
           a == Set(F[1], i, block)
           v == Inserts(F)
<1>1. /\ work' = <<a>> \o v /\ UNCHANGED <<array, step, offsetMap, nextOffset>>
  BY DEF Begin, Rewrite
<1>2. /\ step = "grow" /\ elements \in Nat /\ i \in Nat /\ i >= 1 /\ i \in 1..elements
      /\ block \in Nat /\ l \in Nat /\ 1 \in 1..l /\ \A k \in 1..l : F[k] \in Insts
  <2>1. step = "grow" /\ elements \in Nat /\ i \in Nat /\ i >= 1 /\ block \in Nat
    BY Resting
  <2>2. i \in 1..elements
    BY <2>1
  <2>3. \A k \in 1..l : F[k] \in Insts
    OBVIOUS
  <2>4. l \in 2..3
    OBVIOUS
  <2> HIDE DEF l
  <2>5. l \in Nat /\ 1 \in 1..l
    BY <2>4
  <2> QED
    BY <2>1, <2>2, <2>3, <2>5
<1>3. a \in Accesses /\ a.do = "set" /\ a.pos = i /\ a.block = block
  BY <1>2 DEF Set, Accesses
<1>4. /\ v \in Seq(Accesses) /\ Len(v) = l - 1
      /\ \A k \in 1..l-1 : v[k] = Insert(F[k + 1], i + k)
  <2>1. ASSUME NEW k \in 1..l-1 PROVE Insert(F[k + 1], i + k) \in Accesses
    <3>1. k + 1 \in 1..l /\ i + k \in Nat
      BY <1>2
    <3> QED
      BY <1>2, <3>1 DEF Insert, Accesses
  <2>2. l - 1 \in Nat
    BY <1>2
  <2> HIDE DEF l
  <2> QED
    BY <2>1, <2>2 DEF Inserts, l
<1> HIDE DEF a, v
<1>5. PICK w : w = <<a>> \o v
  OBVIOUS
<1>6. <<a>> \in Seq(Accesses) /\ Len(<<a>>) = 1 /\ <<a>>[1] = a
  BY <1>3
<1>7. w \in Seq(Accesses) /\ Len(w) = l
  BY <1>2, <1>4, <1>5, <1>6, Concatenation
<1>8. \A k \in 1..l : w[k] = IF k <= 1 THEN a ELSE v[k - 1]
  <2>1. \A k \in 1..Len(<<a>>)+Len(v) :
          (<<a>> \o v)[k] = IF k <= Len(<<a>>) THEN <<a>>[k] ELSE v[k - Len(<<a>>)]
    BY <1>4, <1>6, ConcatenationElements
  <2>2. Len(<<a>>) + Len(v) = l
    BY <1>2, <1>4, <1>6
  <2>3. \A k \in 1..l : w[k] = IF k <= 1 THEN <<a>>[k] ELSE v[k - 1]
    BY <1>5, <1>6, <2>1, <2>2
  <2>4. \A k \in 1..l : k <= 1 => k = 1
    BY <1>2
  <2> QED
    BY <1>6, <2>3, <2>4
<1>9. w[1] = a
  BY <1>2, <1>8
<1>10. ASSUME NEW k \in 2..l PROVE w[k] = Insert(F[k], i + k - 1)
  <2>1. k \in 1..l /\ ~(k <= 1) /\ k - 1 \in 1..l-1 /\ (k - 1) + 1 = k /\ i + (k - 1) = i + k - 1
    BY <1>2
  <2>2. w[k] = v[k - 1] /\ v[k - 1] = Insert(F[(k - 1) + 1], i + (k - 1))
    BY <1>4, <1>8, <2>1
  <2> QED
    BY <2>1, <2>2
<1>11. /\ work' = w /\ w # <<>> /\ step' = "grow" /\ l <= 3
       /\ elements' = elements /\ slots' = slots /\ block' = block
  BY <1>1, <1>2, <1>5, <1>7 DEF array
<1>12. Typed'
  BY <1>1, <1>11 DEF IInv, Typed
<1>13. ArrayFits'
  BY <1>11 DEF IInv, ArrayFits
<1>14. WorkFits'
  <2>1. HeadFits'
    <3>1. ASSUME NEW k \in 2..l PROVE FitsAt(w[k], elements + k - 2)
      <4>1. i + k - 1 \in 1..(elements + k - 2)+1
        BY <1>2
      <4>2. w[k] = Insert(F[k], i + k - 1)
        BY <1>10
      <4>3. w[k].do = "insert" /\ w[k].pos = i + k - 1
        BY <4>2 DEF Insert
      <4> QED
        BY <4>1, <4>3 DEF FitsAt
    <3>2. \A k \in 2..Len(work') : FitsAt(work[k], elements + k - 2)'
      BY <1>7, <1>11, <3>1 DEF FitsAt
    <3> QED
      BY <1>2, <1>3, <1>9, <1>11, <3>2 DEF HeadFits
  <2>2. Underway'
    BY <1>11 DEF Underway
  <2> QED
    BY <1>7, <1>11, <2>1, <2>2 DEF WorkFits
<1> QED
  BY <1>7, <1>9, <1>10, <1>11, <1>12, <1>13, <1>14 DEF IInv, a

\* The accesses do what RegAlloc does at once.
LEMMA Fixing ==
  ASSUME IInv, work = <<>>, pass \in DOMAIN Plain!NextPass, i <= elements,
         NEW F, Shaped(slots[i], F),
         IF Len(F) = 1 THEN i' = i + 1 /\ Begin(<<>>) ELSE UNCHANGED i /\ Begin(Rewrite(F)),
         UNCHANGED <<input, pushed, pass>>
  PROVE  /\ IInv' /\ Whole' = Spliced(Whole, PlainI, F)
         /\ PlainPass' = PlainPass /\ PlainI' = PlainI + 1
         /\ PlainPass = pass /\ PlainI = i /\ i <= Len(Whole) /\ Whole[i] = slots[i]
         /\ UNCHANGED <<offsetMap, nextOffset>>
<1>0. pass # "gen" /\ pass # "stack" /\ pass \in Plain!Passes
  BY PassNames
<1>1. /\ step = "grow" /\ elements \in Nat /\ i \in Nat /\ i \in 1..elements
      /\ i + 1 \in 1..elements+1 /\ slots[i] \in Insts
  <2>1. /\ step = "grow" /\ elements \in Nat /\ i \in Nat /\ i >= 1
        /\ \A k \in 1..elements : slots[k] \in Insts
    BY Resting
  <2>2. i \in 1..elements /\ i + 1 \in 1..elements+1
    BY <2>1
  <2> QED
    BY <2>1, <2>2
<1>2. /\ Whole = First(slots, elements) /\ Len(Whole) = elements /\ Whole \in Seq(Insts)
      /\ Whole[i] = slots[i] /\ PlainPass = pass /\ PlainI = i
  BY <1>0, <1>1, Walking
<1>3. UNCHANGED <<array, step, offsetMap, nextOffset>>
  BY DEF Begin
<1>4. CASE F = <<slots[i]>>
  <2>1. i' = i + 1 /\ work' = work
    BY <1>4 DEF Begin
  <2>2. offsetMap \in [0..MapSize-1 -> Int] /\ nextOffset \in Int
    BY DEF IInv, Typed
  <2>3. IInv' /\ Whole' = Whole /\ PlainPass' = pass' /\ PlainI' = i'
    BY <1>0, <1>1, <1>3, <2>1, <2>2, WalkKeeps
  <2>4. Spliced(Whole, i, <<Whole[i]>>) = Whole
    <3>1. PICK w : w = Whole
      OBVIOUS
    <3>2. w \in Seq(Insts) /\ i \in 1..Len(w)
      BY <1>1, <1>2, <3>1
    <3> QED
      BY <3>1, <3>2, SplicedAlone
  <2> QED
    BY <1>1, <1>2, <1>3, <1>4, <2>1, <2>3, <2>4
<1>5. ASSUME F \in Seq(Insts), Len(F) \in 2..3
      PROVE  /\ IInv' /\ Len(work') = Len(F)
             /\ Begun' = Stored(Whole, i, F[1])
             /\ \A k \in 2..Len(F) : work'[k] = Insert(F[k], i + k - 1)
             /\ PlainPass' = PlainPass /\ PlainI' = PlainI + 1
             /\ UNCHANGED <<input, pushed>>
  <2>1. UNCHANGED i /\ Begin(Rewrite(F))
    <3>1. Len(F) # 1
      <4>1. PICK n : n = Len(F)
        OBVIOUS
      <4>2. n \in 2..3
        BY <1>5, <4>1
      <4>3. n # 1
        BY <4>2
      <4> QED
        BY <4>1, <4>3, Zenon
    <3> QED
      BY <3>1
  <2>2. /\ IInv' /\ Len(work') = Len(F) /\ work' # <<>> /\ step' = "grow"
        /\ work'[1] = Set(F[1], i, block)
        /\ \A k \in 2..Len(F) : work'[k] = Insert(F[k], i + k - 1)
    BY <1>5, <2>1, Listed
  <2>3. Begun' = Stored(Whole, i, F[1])
    <3>1. Begun' = Apply(InUse(elements)', work'[1])
      BY <2>2 DEF Begun
    <3>2. InUse(elements)' = Whole
      BY <1>2, <1>3, InUseIsFirst DEF array
    <3> QED
      BY <2>2, <3>1, <3>2 DEF Apply, Set, Stored
  <2>4. PlainPass' = PlainPass /\ PlainI' = PlainI + 1
    BY <1>0, <1>2, <2>1, <2>2 DEF PlainPass, PlainI, Busy
  <2> QED
    BY <2>2, <2>3, <2>4
<1>6. \A x, e, p : p \in Nat /\ p # 0 => Apply(x, Insert(e, p)) = InsertAt(x, p, e)
  BY DEF Apply, Insert, At, AtLast
<1>7. PICK w : w = Whole
  OBVIOUS
<1>8. w \in Seq(Insts) /\ i \in 1..Len(w)
  BY <1>1, <1>2, <1>7
<1>9. CASE \E a, b \in Insts : F = <<a, b>>
  <2>1. PICK a, b \in Insts : F = <<a, b>>
    BY <1>9
  <2>2. F \in Seq(Insts) /\ Len(F) = 2 /\ F[1] = a /\ F[2] = b /\ Len(F) \in 2..3
    BY <2>1
  <2>3. Len(work') = 2 /\ Begun' = Stored(w, i, a) /\ work'[2] = Insert(b, i + 1)
    <3>1. 2 \in 2..Len(F) /\ i + 2 - 1 = i + 1
      BY <1>1, <2>2
    <3> QED
      BY <1>5, <1>7, <2>2, <3>1
  <2>4. Ahead' = InsertAt(Stored(w, i, a), i + 1, b)
    <3>1. Ahead' = Apply(Begun', work'[2])
      BY <2>3 DEF Ahead
    <3>2. i + 1 \in Nat /\ i + 1 # 0
      BY <1>1
    <3> QED
      BY <1>6, <2>3, <3>1, <3>2
  <2>5. /\ Spliced(w, i, <<a, b>>) = InsertAt(Stored(w, i, a), i + 1, b)
        /\ Spliced(w, i, <<a, b>>) \in Seq(Insts)
    BY <1>8, SplicedTwo
  <2>6. Whole' = Ahead'
    BY <1>0, <2>4, <2>5, WholeAfter
  <2> QED
    BY <1>1, <1>2, <1>3, <1>5, <1>7, <2>1, <2>2, <2>4, <2>5, <2>6
<1>10. CASE \E a, b, c \in Insts : F = <<a, b, c>>
  <2>1. PICK a, b, c \in Insts : F = <<a, b, c>>
    BY <1>10
  <2>2. /\ F \in Seq(Insts) /\ Len(F) = 3 /\ F[1] = a /\ F[2] = b /\ F[3] = c
        /\ Len(F) \in 2..3
    BY <2>1
  <2>3. /\ Len(work') = 3 /\ Begun' = Stored(w, i, a)
        /\ work'[2] = Insert(b, i + 1) /\ work'[3] = Insert(c, i + 2)
    <3>1. 2 \in 2..Len(F) /\ 3 \in 2..Len(F) /\ i + 2 - 1 = i + 1 /\ i + 3 - 1 = i + 2
      BY <1>1, <2>2
    <3> QED
      BY <1>5, <1>7, <2>2, <3>1
  <2>4. Ahead' = InsertAt(InsertAt(Stored(w, i, a), i + 1, b), i + 2, c)
    <3>1. Ahead' = Apply(Apply(Begun', work'[2]), work'[3])
      BY <2>3 DEF Ahead
    <3>2. i + 1 \in Nat /\ i + 1 # 0 /\ i + 2 \in Nat /\ i + 2 # 0
      BY <1>1
    <3> QED
      BY <1>6, <2>3, <3>1, <3>2
  <2>5. /\ Spliced(w, i, <<a, b, c>>) = InsertAt(InsertAt(Stored(w, i, a), i + 1, b), i + 2, c)
        /\ Spliced(w, i, <<a, b, c>>) \in Seq(Insts)
    BY <1>8, SplicedThree
  <2>6. Whole' = Ahead'
    BY <1>0, <2>4, <2>5, WholeAfter
  <2> QED
    BY <1>1, <1>2, <1>3, <1>5, <1>7, <2>1, <2>2, <2>4, <2>5, <2>6
<1> QED
  BY <1>4, <1>9, <1>10 DEF Shaped

LEMMA FixSimulates == ASSUME IInv, Fix PROVE IInv' /\ PlainStep
<1> DEFINE inst == slots[i]
<1>1. ASSUME i <= elements, IInv, work = <<>> PROVE inst \in Insts
  <2>1. i \in 1..elements
    BY <1>1, Resting
  <2> QED
    BY <1>1, <2>1, Resting
<1>2. CASE FixInstruction("addr_addr", Plain!fix_invalid_addr_addr)
  <2> DEFINE F == Plain!fix_invalid_addr_addr(inst)
  <2>1. /\ work = <<>> /\ pass = "addr_addr" /\ i <= elements
        /\ IF Len(F) = 1 THEN i' = i + 1 /\ Begin(<<>>) ELSE UNCHANGED i /\ Begin(Rewrite(F))
        /\ UNCHANGED <<input, pushed, pass>>
    BY <1>2 DEF FixInstruction, Idle
  <2>2. Shaped(inst, F) /\ pass \in DOMAIN Plain!NextPass
    BY <1>1, <2>1, FixShapes, PassNames
  <2> HIDE DEF F
  <2>3. /\ IInv' /\ Whole' = Spliced(Whole, PlainI, F)
        /\ PlainPass' = PlainPass /\ PlainI' = PlainI + 1
        /\ PlainPass = pass /\ PlainI = i /\ i <= Len(Whole) /\ Whole[i] = inst
        /\ UNCHANGED <<offsetMap, nextOffset>>
    BY <2>1, <2>2, Fixing
  <2>4. Plain!FixAddrAddr
    BY <2>1, <2>3 DEF Plain!FixAddrAddr, Plain!FixInstruction, Spliced, F
  <2> QED
    BY <2>3, <2>4 DEF PlainStep, Plain!Next
<1>3. CASE FixInstruction("imul", Plain!fix_invalid_imuls)
  <2> DEFINE F == Plain!fix_invalid_imuls(inst)
  <2>1. /\ work = <<>> /\ pass = "imul" /\ i <= elements
        /\ IF Len(F) = 1 THEN i' = i + 1 /\ Begin(<<>>) ELSE UNCHANGED i /\ Begin(Rewrite(F))
        /\ UNCHANGED <<input, pushed, pass>>
    BY <1>3 DEF FixInstruction, Idle
  <2>2. Shaped(inst, F) /\ pass \in DOMAIN Plain!NextPass
    BY <1>1, <2>1, FixShapes, PassNames
  <2> HIDE DEF F
  <2>3. /\ IInv' /\ Whole' = Spliced(Whole, PlainI, F)
        /\ PlainPass' = PlainPass /\ PlainI' = PlainI + 1
        /\ PlainPass = pass /\ PlainI = i /\ i <= Len(Whole) /\ Whole[i] = inst
        /\ UNCHANGED <<offsetMap, nextOffset>>
    BY <2>1, <2>2, Fixing
  <2>4. Plain!FixImul
    BY <2>1, <2>3 DEF Plain!FixImul, Plain!FixInstruction, Spliced, F
  <2> QED
    BY <2>3, <2>4 DEF PlainStep, Plain!Next
<1>4. CASE FixInstruction("idiv", Plain!fix_invalid_idivs)
  <2> DEFINE F == Plain!fix_invalid_idivs(inst)
  <2>1. /\ work = <<>> /\ pass = "idiv" /\ i <= elements
        /\ IF Len(F) = 1 THEN i' = i + 1 /\ Begin(<<>>) ELSE UNCHANGED i /\ Begin(Rewrite(F))
        /\ UNCHANGED <<input, pushed, pass>>
    BY <1>4 DEF FixInstruction, Idle
  <2>2. Shaped(inst, F) /\ pass \in DOMAIN Plain!NextPass
    BY <1>1, <2>1, FixShapes, PassNames
  <2> HIDE DEF F
  <2>3. /\ IInv' /\ Whole' = Spliced(Whole, PlainI, F)
        /\ PlainPass' = PlainPass /\ PlainI' = PlainI + 1
        /\ PlainPass = pass /\ PlainI = i /\ i <= Len(Whole) /\ Whole[i] = inst
        /\ UNCHANGED <<offsetMap, nextOffset>>
    BY <2>1, <2>2, Fixing
  <2>4. Plain!FixIdiv
    BY <2>1, <2>3 DEF Plain!FixIdiv, Plain!FixInstruction, Spliced, F
  <2> QED
    BY <2>3, <2>4 DEF PlainStep, Plain!Next
<1>5. CASE FixInstruction("shift", Plain!fix_invalid_shifts)
  <2> DEFINE F == Plain!fix_invalid_shifts(inst)
  <2>1. /\ work = <<>> /\ pass = "shift" /\ i <= elements
        /\ IF Len(F) = 1 THEN i' = i + 1 /\ Begin(<<>>) ELSE UNCHANGED i /\ Begin(Rewrite(F))
        /\ UNCHANGED <<input, pushed, pass>>
    BY <1>5 DEF FixInstruction, Idle
  <2>2. Shaped(inst, F) /\ pass \in DOMAIN Plain!NextPass
    BY <1>1, <2>1, FixShapes, PassNames
  <2> HIDE DEF F
  <2>3. /\ IInv' /\ Whole' = Spliced(Whole, PlainI, F)
        /\ PlainPass' = PlainPass /\ PlainI' = PlainI + 1
        /\ PlainPass = pass /\ PlainI = i /\ i <= Len(Whole) /\ Whole[i] = inst
        /\ UNCHANGED <<offsetMap, nextOffset>>
    BY <2>1, <2>2, Fixing
  <2>4. Plain!FixShift
    BY <2>1, <2>3 DEF Plain!FixShift, Plain!FixInstruction, Spliced, F
  <2> QED
    BY <2>3, <2>4 DEF PlainStep, Plain!Next
<1>6. CASE FixInstruction("cmp", Plain!fix_invalid_cmps)
  <2> DEFINE F == Plain!fix_invalid_cmps(inst)
  <2>1. /\ work = <<>> /\ pass = "cmp" /\ i <= elements
        /\ IF Len(F) = 1 THEN i' = i + 1 /\ Begin(<<>>) ELSE UNCHANGED i /\ Begin(Rewrite(F))
        /\ UNCHANGED <<input, pushed, pass>>
    BY <1>6 DEF FixInstruction, Idle
  <2>2. Shaped(inst, F) /\ pass \in DOMAIN Plain!NextPass
    BY <1>1, <2>1, FixShapes, PassNames
  <2> HIDE DEF F
  <2>3. /\ IInv' /\ Whole' = Spliced(Whole, PlainI, F)
        /\ PlainPass' = PlainPass /\ PlainI' = PlainI + 1
        /\ PlainPass = pass /\ PlainI = i /\ i <= Len(Whole) /\ Whole[i] = inst
        /\ UNCHANGED <<offsetMap, nextOffset>>
    BY <2>1, <2>2, Fixing
  <2>4. Plain!FixCmp
    BY <2>1, <2>3 DEF Plain!FixCmp, Plain!FixInstruction, Spliced, F
  <2> QED
    BY <2>3, <2>4 DEF PlainStep, Plain!Next
<1> QED
  BY <1>2, <1>3, <1>4, <1>5, <1>6 DEF Fix

-----------------------------------------------------------------------------
(* The array implements the sequence. *)

LEMMA InitiallyPlain == ASSUME Init PROVE IInv /\ Plain!Init
<1>1. /\ input \in Inputs /\ pushed = 0 /\ elements = 0 /\ block = 0
      /\ slots = [k \in 1..Capacity |-> Garbage] /\ work = <<>> /\ step = "grow"
      /\ pass = "gen" /\ i = 1
      /\ offsetMap = [t \in 0..MapSize-1 |-> 0] /\ nextOffset = -4
  BY DEF Init
<1>2. input \in Seq(Insts) /\ Len(input) \in Nat
  BY <1>1, InputTypes
<1>3. slots \in Seq(Cells) /\ Len(slots) = Capacity /\ Capacity \in Nat
  <2>1. Capacity \in Nat
    BY PassArrayAssumption
  <2> QED
    BY <1>1, <2>1 DEF Cells
<1>4. Typed
  BY <1>1, <1>2 DEF Typed
<1>5. ArrayFits
  BY <1>1, <1>3 DEF ArrayFits
<1>6. WorkFits
  BY <1>1 DEF WorkFits
<1>7. IInv
  BY <1>4, <1>5, <1>6 DEF IInv
<1>8. Whole = input
  <2>1. Ahead = First(slots, elements) /\ First(slots, elements) \in Seq(Insts)
        /\ Len(First(slots, elements)) = 0
    BY <1>1, <1>7, Resting
  <2>2. First(slots, elements) = <<>>
    BY <2>1
  <2>3. SubSeq(input, 1, Len(input)) = input
    BY <1>2
  <2>4. <<>> \o input = input
    BY <1>2
  <2>5. pushed + 1 = 1
    BY <1>1
  <2> QED
    BY <2>1, <2>2, <2>3, <2>4, <2>5 DEF Whole
<1>9. PlainPass = "map" /\ PlainI = 1
  BY <1>1 DEF PlainPass, PlainI, Busy
<1> QED
  BY <1>1, <1>7, <1>8, <1>9 DEF Plain!Init, Plain!Fresh

LEMMA StepIsPlain == IInv /\ [Next]_vars => IInv' /\ PlainStep
<1> SUFFICES ASSUME IInv, [Next]_vars PROVE IInv' /\ PlainStep
  OBVIOUS
<1>1. CASE Generate
  BY <1>1, GenerateSimulates
<1>2. CASE GenerateDone
  BY <1>2, GenerateDoneSimulates
<1>3. CASE MapInstruction
  BY <1>3, MapInstructionSimulates
<1>4. CASE MapOutOfBounds
  BY <1>4, MapOutOfBoundsSimulates
<1>5. CASE Mapped
  BY <1>5, MappedSimulates
<1>6. CASE NoFrame
  BY <1>6, NoFrameSimulates
<1>7. CASE MakeFrame
  BY <1>7, MakeFrameSimulates
<1>8. CASE Fix
  BY <1>8, FixSimulates
<1>9. CASE PassDone
  BY <1>9, PassDoneSimulates
<1>10. CASE Grow
  BY <1>10, GrowKeeps, KeptIsNoStep
<1>11. CASE StorePushed
  BY <1>11, StorePushedKeeps, KeptIsNoStep
<1>12. CASE Move
  BY <1>12, MoveKeeps, KeptIsNoStep
<1>13. CASE StoreInserted
  BY <1>13, StoreInsertedKeeps, KeptIsNoStep
<1>14. CASE Count
  BY <1>14, CountKeeps, KeptIsNoStep
<1>15. CASE StoreInPlace
  BY <1>15, StoreInPlaceKeeps, KeptIsNoStep
<1>16. CASE UNCHANGED vars
  <2>1. /\ UNCHANGED <<input, pushed, slots, elements, block, work, step>>
        /\ UNCHANGED <<pass, i, offsetMap, nextOffset>>
    BY <1>16 DEF vars, array
  <2>2. Typed' /\ ArrayFits'
    BY <2>1 DEF IInv, Typed, ArrayFits
  <2>3. WorkFits'
    BY <2>1 DEF IInv, WorkFits, HeadFits, Underway, FitsAt, Pos
  <2>4. Kept
    BY <2>1 DEF Kept, Ahead, Begun, InUse, Pos, PlainPass, PlainI, Busy
  <2> QED
    BY <2>2, <2>3, <2>4, KeptIsNoStep DEF IInv
<1> QED
  BY <1>1, <1>2, <1>3, <1>4, <1>5, <1>6, <1>7, <1>8, <1>9, <1>10, <1>11, <1>12, <1>13,
     <1>14, <1>15, <1>16 DEF Next

LEMMA Invariant == Spec => []IInv
<1>1. Init => IInv
  BY InitiallyPlain
<1>2. IInv /\ [Next]_vars => IInv'
  BY StepIsPlain
<1> QED
  BY <1>1, <1>2, PTL DEF Spec

\* What is in use has been written, and is inside of the block, wherever the
\* block is: array_push and array_insert never store behind its end.
THEOREM TypeCorrect == Spec => []TypeOK
<1>1. IInv => TypeOK
  <2> SUFFICES ASSUME IInv PROVE TypeOK
    OBVIOUS
  <2>1. \A k \in 1..elements : slots[k].mnemonic \in Mnemonics
    <3>1. Plain!Mnemonics = Mnemonics
      BY DEF Plain!Mnemonics, Mnemonics, Plain!BinaryMnemonics, BinaryMnemonics,
             Plain!UnaryMnemonics, UnaryMnemonics, Plain!SetMnemonics, SetMnemonics,
             Plain!JumpMnemonics, JumpMnemonics
    <3>2. \A k \in 1..elements : slots[k] \in Insts
      BY DEF IInv, ArrayFits
    <3> QED
      BY <3>1, <3>2 DEF Insts, Plain!Instructions
  <2> QED
    BY <2>1 DEF IInv, Typed, ArrayFits, TypeOK
<1> QED
  BY <1>1, Invariant, PTL

\* No access is ever out of the block, through a pointer from before a growth or
\* behind the elements: whatever realloc does, the passes do to the growing
\* array, statement by statement, what RegAlloc does to a sequence.
THEOREM ArrayImplementsRegAlloc == Spec => ImplementsRegAlloc
<1>1. Init => IInv /\ Plain!Init
  BY InitiallyPlain
<1>2. IInv /\ [Next]_vars => IInv' /\ [Plain!Next]_(Plain!vars)
  BY StepIsPlain DEF PlainStep
<1> QED
  BY <1>1, <1>2, Invariant, PTL DEF Spec, ImplementsRegAlloc, Plain!Spec
===========================================================================
