-------------------------- MODULE Frontend_proofs --------------------------
(***************************************************************************)
(* The lexer and the parser, for every text: that the lexer cuts the text  *)
(* as the rule of the longest lexeme does; that the parser, whose calls    *)
(* hold the nodes that it has not hung up yet, never has one node in two   *)
(* places, and reports an error in every text that the lexer has one in.   *)
(***************************************************************************)
EXTENDS Frontend, FiniteSetTheorems, SequenceTheorems, WellFoundedInduction, TLAPS

-----------------------------------------------------------------------------
(* Induction, for sets of numbers *)

\* Some number of a set of numbers is the least.
LEMMA Least ==
  ASSUME NEW T, T \subseteq Nat, T # {}
  PROVE  \E x \in T : \A y \in T : x <= y
<1> DEFINE R == OpToRel(<, Nat)
<1>1. IsWellFoundedOn(R, Nat)
  BY NatLessThanWellFounded
<1>2. R = {ss \in Nat \X Nat : ss[1] < ss[2]}
  BY DEF OpToRel
<1> HIDE DEF R
<1>3. PICK x \in T : \A y \in T : ~(<<y, x>> \in R)
  BY <1>1, WFMin
<1>4. ASSUME NEW y \in T PROVE x <= y
  <2>1. <<y, x>> \in Nat \X Nat /\ <<y, x>>[1] = y /\ <<y, x>>[2] = x
    OBVIOUS
  <2>2. ~(<<y, x>>[1] < <<y, x>>[2])
    BY <2>1, <1>2, <1>3
  <2> QED
    BY <2>1, <2>2
<1> QED
  BY <1>4

\* Induction, for a set of numbers.
LEMMA SetInduction ==
  ASSUME NEW T, 0 \in T, \A n \in Nat : n \in T => n + 1 \in T
  PROVE  Nat \subseteq T
<1> SUFFICES ASSUME Nat \ T # {} PROVE FALSE
  OBVIOUS
<1>1. PICK x \in Nat \ T : \A y \in Nat \ T : x <= y
  BY Least
<1>2. x # 0 /\ x - 1 \in Nat
  BY <1>1
<1>3. x - 1 \in T
  BY <1>1, <1>2
<1> QED
  BY <1>2, <1>3

\* Strong induction.
LEMMA StrongInduction ==
  ASSUME NEW T, \A n \in Nat : (\A m \in 0..n-1 : m \in T) => n \in T
  PROVE  Nat \subseteq T
<1> SUFFICES ASSUME Nat \ T # {} PROVE FALSE
  OBVIOUS
<1>1. PICK x \in Nat \ T : \A y \in Nat \ T : x <= y
  BY Least
<1>2. \A m \in 0..x-1 : m \in T
  BY <1>1
<1> QED
  BY <1>1, <1>2

-----------------------------------------------------------------------------
(* The lexer *)

(* Characters *)

\* The classes of characters have none in common, and what the tables of the symbols are made of.
LEMMA CharacterClasses ==
  /\ L!Spaces \cap L!Symbols = {} /\ L!Spaces \cap L!WordChars = {} /\ L!Symbols \cap L!WordChars = {}
  /\ L!NUL \notin L!Spaces \cup L!Symbols \cup L!WordChars
  /\ "\n" \in L!Spaces /\ "/" \in L!Symbols /\ "/" # "\n" /\ L!NUL # "/" /\ L!NUL # "\n"
  /\ L!Numeric \subseteq L!WordChars
  /\ \A a, b \in L!Symbol : a[1] = b[1] => a = b
<1> DEFINE
      Some == { <<"-", "MINUS">>, <<"&", "AMPERSAND">>, <<"|", "PIPE">>, <<"=", "EQUAL">>,
                <<"<", "LESS_THAN">>, <<">", "GREATER_THAN">>, <<"!", "EXCLAMATION">>,
                <<"+", "PLUS">>, <<"*", "ASTERISK">>, <<"/", "FORWARD_SLASH">>, <<"%", "PERCENT">>,
                <<"~", "TILDE">>, <<"^", "CARET">>, <<"(", "LPAREN">>, <<")", "RPAREN">> }
      Others == { <<"{", "LBRACE">>, <<"}", "RBRACE">>, <<";", "SEMICOLON">> }
      some == {"-", "&", "|", "=", "<", ">", "!", "+", "*", "/", "%", "~", "^", "(", ")"}
      others == {"{", "}", ";"}
<1>1. \A y : y \in L!Symbol <=> y \in Some \/ y \in Others
  BY Zenon DEF L!Symbol
<1>2. \A y \in Some : y[1] \in some /\ \A z \in Some : y[1] = z[1] => y = z
  OBVIOUS
<1>3. /\ \A y \in Others : y[1] \in others
      /\ \A y \in Others : \A z \in Others : y[1] = z[1] => y = z
  <2> DEFINE lb == "{"
             rb == "}"
             sc == ";"
  <2>1. lb # rb /\ lb # sc /\ rb # sc
    BY Zenon
  <2>2. /\ \A y \in Others : y = <<lb, "LBRACE">> \/ y = <<rb, "RBRACE">> \/ y = <<sc, "SEMICOLON">>
        /\ lb \in others /\ rb \in others /\ sc \in others
    BY Zenon
  <2> HIDE DEF lb, rb, sc, Others, others
  <2> QED
    BY <2>1, <2>2
<1>4. \A x \in some : x \notin L!Numeric \cup L!Letters \cup {L!NUL, "\n"}
  BY SMT DEF L!Numeric, L!Letters, L!NUL
<1>5. \A x \in some : x # " " /\ x # "_" /\ x \notin others
  BY Zenon
<1>6. \A x \in others : x \notin L!Numeric /\ x \notin L!Letters /\ x # L!NUL /\ x \notin L!Spaces /\ x # "_"
  BY Zenon DEF L!Numeric, L!Letters, L!NUL, L!Spaces
<1>8. L!Spaces \cap L!WordChars = {} /\ L!NUL \notin L!Spaces /\ L!NUL \notin L!WordChars /\ "\n" \in L!Spaces
  BY Zenon DEF L!Spaces, L!WordChars, L!Numeric, L!Letters, L!NUL
<1>9. "/" # "\n" /\ L!NUL # "/" /\ L!NUL # "\n" /\ <<"/", "FORWARD_SLASH">> \in Some
  BY SMT DEF L!NUL
<1>10. <<"/", "FORWARD_SLASH">>[1] = "/"
  OBVIOUS
<1> HIDE DEF Some, Others, some, others
<1> DEFINE us == "_"
           sp == " "
<1>11. L!WordChars = L!Letters \cup L!Numeric \cup {us} /\ \A x \in L!Spaces : x = sp \/ x = "\n"
  BY Zenon DEF L!WordChars, L!Spaces
<1>12. \A x \in some : x # sp /\ x # us /\ x \notin others
  BY <1>5, Zenon
<1>13. \A x \in others : x # us
  BY <1>6, Zenon
<1> HIDE DEF us, sp
<1>14. \A y \in L!Symbol : y[1] \in some \cup others
  BY <1>1, <1>2, <1>3
<1>15. \A x \in L!Symbols : x \in some \cup others
  BY <1>14 DEF L!Symbols
<1>16. "/" \in L!Symbols
  BY <1>1, <1>9, <1>10 DEF L!Symbols
<1>17. \A x \in some : x \notin L!Spaces /\ x \notin L!WordChars /\ x # L!NUL
  BY <1>4, <1>11, <1>12
<1>18. \A x \in others : x \notin L!Spaces /\ x \notin L!WordChars /\ x # L!NUL
  BY <1>6, <1>11, <1>13
<1>19. L!Symbols \cap L!Spaces = {} /\ L!Symbols \cap L!WordChars = {} /\ L!NUL \notin L!Symbols
  BY <1>15, <1>17, <1>18
<1>20. ASSUME NEW a \in L!Symbol, NEW b \in L!Symbol, a[1] = b[1] PROVE a = b
  <2>1. CASE a \in Some /\ b \in Some
    BY <2>1, <1>2, <1>20
  <2>2. CASE a \in Others /\ b \in Others
    BY <2>2, <1>3, <1>20
  <2>3. a \in Some => a[1] \in some /\ a[1] \notin others
    BY <1>2, <1>12
  <2>4. b \in Some => b[1] \in some /\ b[1] \notin others
    BY <1>2, <1>12
  <2> QED
    BY <2>1, <2>2, <2>3, <2>4, <1>1, <1>3, <1>20
<1> QED
  BY <1>8, <1>9, <1>16, <1>19, <1>20 DEF L!WordChars

\* A symbol has one meaning, and so has a pair; both characters of a pair are symbols.
LEMMA SymbolMeaning ==
  ASSUME NEW y \in L!Symbol, NEW c, c = y[1]
  PROVE  (CHOOSE z \in L!Symbol : z[1] = c) = y /\ c \in L!Symbols
<1>1. \A a, b \in L!Symbol : a[1] = b[1] => a = b
  BY CharacterClasses
<1> QED
  BY <1>1 DEF L!Symbols

\* The symbol of two characters that a pair of characters stands for.
LEMMA PairMeaning ==
  ASSUME NEW q \in L!Pair, NEW w, w = <<q[1], q[2]>>
  PROVE  /\ (CHOOSE z \in L!Pair : w = <<z[1], z[2]>>) = q
         /\ q[1] \in L!Symbols /\ q[2] \in L!Symbols /\ <<q[1], q[2]>> # <<"/", "/">>
<1>1. \A a, b \in L!Pair : a[1] = b[1] /\ a[2] = b[2] => a = b
  BY DEF L!Pair
<1>2. \A a, b \in L!Pair : <<a[1], a[2]>> = <<b[1], b[2]>> => a = b
  BY <1>1
<1>3. q[1] \in L!Symbols /\ q[2] \in L!Symbols
  <2>1. /\ <<"-", "MINUS">> \in L!Symbol /\ <<"&", "AMPERSAND">> \in L!Symbol /\ <<"|", "PIPE">> \in L!Symbol
        /\ <<"=", "EQUAL">> \in L!Symbol /\ <<"<", "LESS_THAN">> \in L!Symbol
        /\ <<">", "GREATER_THAN">> \in L!Symbol /\ <<"!", "EXCLAMATION">> \in L!Symbol
    BY Zenon DEF L!Symbol
  <2>2. \A x, y : <<x, y>> \in L!Symbol => x \in L!Symbols
    <3>1. \A x, y : <<x, y>>[1] = x
      OBVIOUS
    <3> QED
      BY <3>1 DEF L!Symbols
  <2>3. {"-", "&", "|", "=", "<", ">", "!"} \subseteq L!Symbols
    BY <2>1, <2>2
  <2>4. q[1] \in {"-", "&", "|", "=", "<", ">", "!"} /\ q[2] \in {"-", "&", "|", "=", "<", ">", "!"}
    BY DEF L!Pair
  <2> QED
    BY <2>3, <2>4
<1>4. q[1] # "/"
  BY DEF L!Pair
<1> QED
  BY <1>2, <1>3, <1>4

-----------------------------------------------------------------------------
(* What stands at a place of a text. *)

\* The text from p to n.
LEMMA Segment ==
  ASSUME NEW s \in Seq(STRING), NEW p \in 1..Len(s), NEW n \in p..Len(s)
  PROVE  /\ SubSeq(s, p, n) \in Seq(STRING) /\ Len(SubSeq(s, p, n)) = n - p + 1
         /\ SubSeq(s, p, n) # <<>> /\ DOMAIN SubSeq(s, p, n) = 1..n-p+1
         /\ \A k \in 1..n-p+1 : SubSeq(s, p, n)[k] = s[p + k - 1]
         /\ \A k \in p..n : SubSeq(s, p, n)[k - p + 1] = s[k]
         /\ SubSeq(s, p, n)[1] = s[p]
<1>1. SubSeq(s, p, n) \in Seq(STRING) /\ Len(SubSeq(s, p, n)) = n - p + 1
  OBVIOUS
<1>2. \A k \in 1..n-p+1 : SubSeq(s, p, n)[k] = s[p + k - 1]
  OBVIOUS
<1>3. 1 \in 1..n-p+1 /\ p + 1 - 1 = p /\ n - p + 1 # 0
  OBVIOUS
<1>4. ASSUME NEW k \in p..n PROVE SubSeq(s, p, n)[k - p + 1] = s[k]
  <2>1. k - p + 1 \in 1..n-p+1 /\ p + (k - p + 1) - 1 = k
    OBVIOUS
  <2> QED
    BY <1>2, <2>1
<1> QED
  BY <1>1, <1>2, <1>3, <1>4

\* A sequence of two elements is a pair.
LEMMA TwoElements ==
  ASSUME NEW w \in Seq(STRING), Len(w) = 2
  PROVE  w = <<w[1], w[2]>>
OBVIOUS

\* Which segments are lexemes, said of the text.
LEMMA SegmentLexeme ==
  ASSUME NEW s \in Seq(STRING), NEW p \in 1..Len(s), NEW n \in p..Len(s)
  PROVE  /\ L!IsNumber(SubSeq(s, p, n)) <=> \A k \in p..n : s[k] \in L!Numeric
         /\ L!IsWord(SubSeq(s, p, n)) <=> s[p] \notin L!Numeric /\ \A k \in p..n : s[k] \in L!WordChars
         /\ L!IsSymbol(SubSeq(s, p, n)) <=>
              \/ n = p /\ s[p] \in L!Symbols
              \/ n = p + 1 /\ \E q \in L!Pair : s[p] = q[1] /\ s[p + 1] = q[2]
<1> DEFINE w == SubSeq(s, p, n)
<1>1. /\ w \in Seq(STRING) /\ Len(w) = n - p + 1
      /\ w # <<>> /\ DOMAIN w = 1..n-p+1 /\ w[1] = s[p]
      /\ \A k \in 1..n-p+1 : w[k] = s[p + k - 1]
      /\ \A k \in p..n : w[k - p + 1] = s[k]
  BY Segment
<1> HIDE DEF w
<1>2. ASSUME NEW C
      PROVE  (\A k \in DOMAIN w : w[k] \in C) <=> \A k \in p..n : s[k] \in C
  <2>1. ASSUME \A k \in DOMAIN w : w[k] \in C, NEW k \in p..n PROVE s[k] \in C
    <3>1. k - p + 1 \in DOMAIN w
      BY <1>1
    <3> QED
      BY <1>1, <2>1, <3>1
  <2>2. ASSUME \A k \in p..n : s[k] \in C, NEW k \in DOMAIN w PROVE w[k] \in C
    <3>1. p + k - 1 \in p..n /\ w[k] = s[p + k - 1]
      BY <1>1
    <3> QED
      BY <2>2, <3>1
  <2> QED
    BY <2>1, <2>2
<1>3. L!IsNumber(w) <=> \A k \in p..n : s[k] \in L!Numeric
  BY <1>1, <1>2 DEF L!IsNumber
<1>4. L!IsWord(w) <=> s[p] \notin L!Numeric /\ \A k \in p..n : s[k] \in L!WordChars
  BY <1>1, <1>2 DEF L!IsWord
<1>5. L!IsSymbol(w) <=> \/ n = p /\ s[p] \in L!Symbols
                        \/ n = p + 1 /\ \E q \in L!Pair : s[p] = q[1] /\ s[p + 1] = q[2]
  <2>1. Len(w) = 1 <=> n = p
    BY <1>1
  <2>2. Len(w) = 2 <=> n = p + 1
    BY <1>1
  <2>3. ASSUME n = p + 1, NEW q PROVE w = <<q[1], q[2]>> <=> s[p] = q[1] /\ s[p + 1] = q[2]
    <3>1. w[2] = s[p + 1] /\ Len(w) = 2
      <4>1. 2 \in 1..n-p+1 /\ p + 2 - 1 = p + 1
        BY <2>3
      <4> QED
        BY <1>1, <2>2, <2>3, <4>1
    <3>2. w = <<w[1], w[2]>>
      BY <1>1, <3>1, TwoElements
    <3>3. \A a, b, c, d : <<a, b>> = <<c, d>> <=> a = c /\ b = d
      OBVIOUS
    <3>4. w = <<q[1], q[2]>> <=> <<w[1], w[2]>> = <<q[1], q[2]>>
      BY <3>2
    <3> QED
      BY <1>1, <3>1, <3>3, <3>4
  <2> QED
    BY <1>1, <2>1, <2>2, <2>3 DEF L!IsSymbol
<1> QED
  BY <1>3, <1>4, <1>5 DEF w

-----------------------------------------------------------------------------
(* PartAt, arm by arm. *)

OpensAt(s, p) == p < Len(s) /\ s[p] = "/" /\ s[p + 1] = "/"

\* White space is no lexeme.
LEMMA PartSpace ==
  ASSUME NEW s, NEW p, s[p] \in L!Spaces
  PROVE  L!PartAt(s, p) = L!Part(p + 1, <<>>, FALSE, FALSE)
<1>1. ~(p < Len(s) /\ s[p] = "/" /\ s[p + 1] = "/")
  BY CharacterClasses
<1> QED
  BY <1>1 DEF L!PartAt

\* A comment goes on to the end of its line; without one it is open.
LEMMA PartComment ==
  ASSUME NEW s \in Seq(STRING), NEW p \in 1..Len(s), OpensAt(s, p)
  PROVE  /\ \A n \in p..Len(s) : (s[n] = "\n" /\ \A m \in p..n-1 : s[m] # "\n") =>
              L!PartAt(s, p) = L!Part(n + 1, <<>>, FALSE, FALSE)
         /\ (\A n \in p..Len(s) : s[n] # "\n") =>
              L!PartAt(s, p) = L!Part(Len(s) + 1, <<>>, FALSE, TRUE)
<1>1. s[p] \notin L!Spaces /\ (p < Len(s) /\ s[p] = "/" /\ s[p + 1] = "/")
  BY CharacterClasses DEF OpensAt
<1>2. L!PartAt(s, p) = IF L!LineEnds(s, p) = {} THEN L!Part(Len(s) + 1, <<>>, FALSE, TRUE)
                       ELSE L!Part((CHOOSE n \in L!LineEnds(s, p) : TRUE) + 1, <<>>, FALSE, FALSE)
  BY <1>1 DEF L!PartAt
<1>3. ASSUME NEW n \in p..Len(s), s[n] = "\n", \A m \in p..n-1 : s[m] # "\n"
      PROVE  L!LineEnds(s, p) = {n}
  <2>1. n \in L!LineEnds(s, p)
    BY <1>3 DEF L!LineEnds
  <2>2. ASSUME NEW k \in L!LineEnds(s, p) PROVE k = n
    <3>1. k \in p..Len(s) /\ s[k] = "\n" /\ \A m \in p..k-1 : s[m] # "\n"
      BY <2>2 DEF L!LineEnds
    <3>2. ~(k < n) /\ ~(n < k)
      BY <3>1, <1>3
    <3> QED
      BY <3>1, <3>2
  <2> QED
    BY <2>1, <2>2
<1>4. ASSUME \A n \in p..Len(s) : s[n] # "\n" PROVE L!LineEnds(s, p) = {}
  BY <1>4 DEF L!LineEnds
<1>5. ASSUME NEW n \in p..Len(s), L!LineEnds(s, p) = {n}
      PROVE  L!PartAt(s, p) = L!Part(n + 1, <<>>, FALSE, FALSE)
  BY <1>2, <1>5
<1> QED
  BY <1>2, <1>3, <1>4, <1>5

\* Otherwise it is the longest lexeme that begins here.
LEMMA PartLexeme ==
  ASSUME NEW s \in Seq(STRING), NEW p \in 1..Len(s), s[p] \notin L!Spaces, ~OpensAt(s, p)
  PROVE  /\ \A n \in p..Len(s) :
              (L!Lexeme(SubSeq(s, p, n)) /\ \A m \in n+1..Len(s) : ~L!Lexeme(SubSeq(s, p, m))) =>
              L!PartAt(s, p) = L!Part(n + 1, <<L!Classify(SubSeq(s, p, n))>>,
                                  L!IsNumber(SubSeq(s, p, n)) /\ n < Len(s) /\ s[n + 1] \in L!WordChars,
                                  FALSE)
         /\ (\A n \in p..Len(s) : ~L!Lexeme(SubSeq(s, p, n))) =>
              L!PartAt(s, p) = L!Part(p + 1, <<L!Token("INVALID", L!NoLiteral)>>, TRUE, FALSE)
<1> DEFINE end == CHOOSE n \in L!Longest(s, p) : TRUE
           Found(n) == L!Part(n + 1, <<L!Classify(SubSeq(s, p, n))>>,
                            L!IsNumber(SubSeq(s, p, n)) /\ n < Len(s) /\ s[n + 1] \in L!WordChars, FALSE)
           Wrong == L!Part(p + 1, <<L!Token("INVALID", L!NoLiteral)>>, TRUE, FALSE)
<1>1. ~(p < Len(s) /\ s[p] = "/" /\ s[p + 1] = "/")
  BY DEF OpensAt
<1>2. L!PartAt(s, p) = IF L!Longest(s, p) = {} THEN Wrong ELSE Found(end)
  BY <1>1 DEF L!PartAt
<1>3. ASSUME NEW n \in p..Len(s), L!Lexeme(SubSeq(s, p, n)),
             \A m \in n+1..Len(s) : ~L!Lexeme(SubSeq(s, p, m))
      PROVE  L!Longest(s, p) = {n}
  <2>1. n \in L!Longest(s, p)
    BY <1>3 DEF L!Longest
  <2>2. ASSUME NEW k \in L!Longest(s, p) PROVE k = n
    <3>1. k \in p..Len(s) /\ L!Lexeme(SubSeq(s, p, k)) /\ \A m \in k+1..Len(s) : ~L!Lexeme(SubSeq(s, p, m))
      BY <2>2 DEF L!Longest
    <3>2. ~(k < n)
      BY <3>1, <1>3
    <3>3. ~(n < k)
      BY <3>1, <1>3
    <3> QED
      BY <3>1, <3>2, <3>3
  <2> QED
    BY <2>1, <2>2
<1>4. ASSUME \A n \in p..Len(s) : ~L!Lexeme(SubSeq(s, p, n)) PROVE L!Longest(s, p) = {}
  BY <1>4 DEF L!Longest
<1> HIDE DEF Found, Wrong
<1>5. ASSUME NEW n \in p..Len(s), L!Longest(s, p) = {n}
      PROVE  L!PartAt(s, p) = Found(n)
  BY <1>2, <1>5
<1>6. \A n \in p..Len(s) :
        (L!Lexeme(SubSeq(s, p, n)) /\ \A m \in n+1..Len(s) : ~L!Lexeme(SubSeq(s, p, m))) =>
        L!PartAt(s, p) = Found(n)
  BY <1>3, <1>5
<1>7. (\A n \in p..Len(s) : ~L!Lexeme(SubSeq(s, p, n))) => L!PartAt(s, p) = Wrong
  BY <1>2, <1>4
<1> QED
  BY <1>6, <1>7 DEF Found, Wrong

\* A number, a word, a pair, a symbol and what is none of them.
LEMMA PartNumber ==
  ASSUME NEW s \in Seq(STRING), NEW p \in 1..Len(s), NEW n \in p..Len(s),
         \A k \in p..n : s[k] \in L!Numeric, n < Len(s) => s[n + 1] \notin L!Numeric
  PROVE  L!PartAt(s, p) = L!Part(n + 1, <<L!Token("INTEGER_LITERAL", SubSeq(s, p, n))>>,
                             n < Len(s) /\ s[n + 1] \in L!WordChars, FALSE)
<1>1. s[p] \in L!Numeric /\ s[p] \in L!WordChars /\ s[p] \notin L!Spaces /\ s[p] \notin L!Symbols /\ s[p] # "/"
  BY CharacterClasses
<1>2. \A q \in L!Pair : s[p] # q[1]
  BY <1>1, PairMeaning
<1>3. L!IsNumber(SubSeq(s, p, n)) /\ ~L!IsWord(SubSeq(s, p, n)) /\ ~L!IsSymbol(SubSeq(s, p, n))
  BY <1>1, <1>2, SegmentLexeme
<1>4. ASSUME NEW m \in n+1..Len(s) PROVE ~L!Lexeme(SubSeq(s, p, m))
  <2>1. m \in p..Len(s) /\ n + 1 \in p..m /\ n < Len(s)
    OBVIOUS
  <2> QED
    BY <1>1, <1>2, <2>1, SegmentLexeme DEF L!Lexeme
<1>5. L!Classify(SubSeq(s, p, n)) = L!Token("INTEGER_LITERAL", SubSeq(s, p, n))
  BY <1>3 DEF L!Classify
<1>6. L!Lexeme(SubSeq(s, p, n)) /\ ~OpensAt(s, p)
  BY <1>1, <1>3 DEF L!Lexeme, OpensAt
<1> QED
  BY <1>1, <1>3, <1>4, <1>5, <1>6, PartLexeme

\* A word goes on as long as its characters do.
LEMMA PartWord ==
  ASSUME NEW s \in Seq(STRING), NEW p \in 1..Len(s), NEW n \in p..Len(s),
         s[p] \notin L!Numeric, \A k \in p..n : s[k] \in L!WordChars,
         n < Len(s) => s[n + 1] \notin L!WordChars
  PROVE  L!PartAt(s, p) = L!Part(n + 1, <<IF L!keyword_to_tokentype(SubSeq(s, p, n)) = "INVALID"
                                      THEN L!Token("IDENTIFIER", SubSeq(s, p, n))
                                      ELSE L!Token(L!keyword_to_tokentype(SubSeq(s, p, n)), L!NoLiteral)>>,
                             FALSE, FALSE)
<1>1. s[p] \in L!WordChars /\ s[p] \notin L!Spaces /\ s[p] \notin L!Symbols /\ s[p] # "/"
  BY CharacterClasses
<1>2. \A q \in L!Pair : s[p] # q[1]
  BY <1>1, PairMeaning
<1>3. ~L!IsNumber(SubSeq(s, p, n)) /\ L!IsWord(SubSeq(s, p, n)) /\ ~L!IsSymbol(SubSeq(s, p, n))
  BY <1>1, <1>2, SegmentLexeme
<1>4. ASSUME NEW m \in n+1..Len(s) PROVE ~L!Lexeme(SubSeq(s, p, m))
  <2>1. m \in p..Len(s) /\ n + 1 \in p..m /\ n < Len(s) /\ p \in p..m
    OBVIOUS
  <2> QED
    BY <1>1, <1>2, <2>1, SegmentLexeme DEF L!Lexeme
<1>5. L!Classify(SubSeq(s, p, n)) = IF L!keyword_to_tokentype(SubSeq(s, p, n)) = "INVALID"
                                    THEN L!Token("IDENTIFIER", SubSeq(s, p, n))
                                    ELSE L!Token(L!keyword_to_tokentype(SubSeq(s, p, n)), L!NoLiteral)
  BY <1>3 DEF L!Classify
<1>6. L!Lexeme(SubSeq(s, p, n)) /\ ~OpensAt(s, p)
  BY <1>1, <1>3 DEF L!Lexeme, OpensAt
<1>7. L!PartAt(s, p) = L!Part(n + 1, <<L!Classify(SubSeq(s, p, n))>>, FALSE, FALSE)
  BY <1>1, <1>3, <1>4, <1>6, PartLexeme
<1> QED
  BY <1>5, <1>7

\* Two characters that are one symbol are read as one.
LEMMA PartPair ==
  ASSUME NEW s \in Seq(STRING), NEW p \in 1..Len(s), p < Len(s),
         NEW q \in L!Pair, s[p] = q[1], s[p + 1] = q[2]
  PROVE  L!PartAt(s, p) = L!Part(p + 2, <<L!Token(q[3], L!NoLiteral)>>, FALSE, FALSE)
<1>1. s[p] \in L!Symbols /\ s[p] \notin L!Spaces /\ s[p] \notin L!WordChars /\ s[p] \notin L!Numeric
  BY CharacterClasses, PairMeaning
<1>2. ~OpensAt(s, p)
  BY PairMeaning DEF OpensAt
<1>3. p + 1 \in p..Len(s) /\ p \in p..p+1 /\ p + 1 + 1 = p + 2 /\ p + 1 # p
  OBVIOUS
<1>4. ~L!IsNumber(SubSeq(s, p, p + 1)) /\ ~L!IsWord(SubSeq(s, p, p + 1)) /\ L!IsSymbol(SubSeq(s, p, p + 1))
  <2>1. ~L!IsNumber(SubSeq(s, p, p + 1))
    BY <1>1, <1>3, SegmentLexeme
  <2>2. ~L!IsWord(SubSeq(s, p, p + 1))
    BY <1>1, <1>3, SegmentLexeme
  <2>3. \E r \in L!Pair : s[p] = r[1] /\ s[p + 1] = r[2]
    OBVIOUS
  <2>4. PICK n : n = p + 1
    OBVIOUS
  <2>5. n \in p..Len(s) /\ n = p + 1
    BY <1>3, <2>4
  <2>6. L!IsSymbol(SubSeq(s, p, n)) <=>
          \/ n = p /\ s[p] \in L!Symbols
          \/ n = p + 1 /\ \E r \in L!Pair : s[p] = r[1] /\ s[p + 1] = r[2]
    BY <2>5, SegmentLexeme
  <2>7. L!IsSymbol(SubSeq(s, p, n))
    BY <2>3, <2>5, <2>6
  <2>8. L!IsSymbol(SubSeq(s, p, p + 1))
    BY <2>4, <2>7
  <2> QED
    BY <2>1, <2>2, <2>8
<1>5. ASSUME NEW m \in p+1+1..Len(s) PROVE ~L!Lexeme(SubSeq(s, p, m))
  <2>1. m \in p..Len(s) /\ p \in p..m /\ m # p /\ m # p + 1
    OBVIOUS
  <2> QED
    BY <1>1, <2>1, SegmentLexeme DEF L!Lexeme
<1>6. Len(SubSeq(s, p, p + 1)) = 2 /\ SubSeq(s, p, p + 1) = <<q[1], q[2]>>
  <2>1. Len(SubSeq(s, p, p + 1)) = 2
    BY <1>3
  <2>2. SubSeq(s, p, p + 1) \in Seq(STRING)
    BY <1>3
  <2>3. SubSeq(s, p, p + 1)[1] = s[p] /\ SubSeq(s, p, p + 1)[2] = s[p + 1]
    <3> DEFINE n == p + 1
    <3>1. n \in p..Len(s) /\ n \in p..n /\ n - p + 1 = 2
      OBVIOUS
    <3>2. SubSeq(s, p, n)[1] = s[p] /\ \A k \in p..n : SubSeq(s, p, n)[k - p + 1] = s[k]
      BY <3>1, Segment
    <3> QED
      BY <3>1, <3>2
  <2> QED
    BY <2>1, <2>2, <2>3, TwoElements
<1>7. L!Classify(SubSeq(s, p, p + 1)) = L!Token(q[3], L!NoLiteral)
  <2> DEFINE w == SubSeq(s, p, p + 1)
  <2>1. L!Classify(w) = L!Token((CHOOSE z \in L!Pair : w = <<z[1], z[2]>>)[3], L!NoLiteral)
    <3>1. Len(w) # 1
      BY <1>6
    <3> HIDE DEF w
    <3> QED
      BY <1>4, <1>6, <3>1 DEF L!Classify, w
  <2> QED
    BY <2>1, <1>6, PairMeaning
<1>8. L!Lexeme(SubSeq(s, p, p + 1))
  BY <1>4 DEF L!Lexeme
<1> QED
  BY <1>1, <1>2, <1>3, <1>4, <1>5, <1>7, <1>8, PartLexeme

\* One character is a symbol where the two are none.
LEMMA PartSymbol ==
  ASSUME NEW s \in Seq(STRING), NEW p \in 1..Len(s), ~OpensAt(s, p),
         p < Len(s) => ~\E q \in L!Pair : s[p] = q[1] /\ s[p + 1] = q[2],
         NEW y \in L!Symbol, s[p] = y[1]
  PROVE  L!PartAt(s, p) = L!Part(p + 1, <<L!Token(y[2], L!NoLiteral)>>, FALSE, FALSE)
<1>1. s[p] \in L!Symbols /\ s[p] \notin L!Spaces /\ s[p] \notin L!WordChars /\ s[p] \notin L!Numeric
  BY CharacterClasses, SymbolMeaning
<1>2. p \in p..Len(s) /\ p \in p..p
  OBVIOUS
<1>3. ~L!IsNumber(SubSeq(s, p, p)) /\ ~L!IsWord(SubSeq(s, p, p)) /\ L!IsSymbol(SubSeq(s, p, p))
  BY <1>1, <1>2, SegmentLexeme
<1>4. ASSUME NEW m \in p+1..Len(s) PROVE ~L!Lexeme(SubSeq(s, p, m))
  <2>1. m \in p..Len(s) /\ p \in p..m /\ m # p /\ p < Len(s)
    OBVIOUS
  <2>2. ~L!IsNumber(SubSeq(s, p, m)) /\ ~L!IsWord(SubSeq(s, p, m))
    BY <1>1, <2>1, SegmentLexeme
  <2>3. ~L!IsSymbol(SubSeq(s, p, m))
    BY <2>1, SegmentLexeme
  <2> QED
    BY <2>2, <2>3 DEF L!Lexeme
<1>5. Len(SubSeq(s, p, p)) = 1 /\ SubSeq(s, p, p)[1] = s[p]
  BY <1>2, Segment
<1>6. L!Classify(SubSeq(s, p, p)) = L!Token(y[2], L!NoLiteral)
  <2> DEFINE w == SubSeq(s, p, p)
  <2>1. L!Classify(w) = L!Token((CHOOSE z \in L!Symbol : z[1] = w[1])[2], L!NoLiteral)
    <3>1. Len(w) # 2
      BY <1>5
    <3> HIDE DEF w
    <3> QED
      BY <1>3, <1>5, <3>1 DEF L!Classify, w
  <2> QED
    BY <2>1, <1>5, SymbolMeaning
<1>7. L!Lexeme(SubSeq(s, p, p))
  BY <1>3 DEF L!Lexeme
<1> QED
  BY <1>1, <1>2, <1>3, <1>4, <1>6, <1>7, PartLexeme

\* Any other character is an error by itself.
LEMMA PartInvalid ==
  ASSUME NEW s \in Seq(STRING), NEW p \in 1..Len(s), s[p] \notin L!Spaces \cup L!Symbols \cup L!WordChars
  PROVE  L!PartAt(s, p) = L!Part(p + 1, <<L!Token("INVALID", L!NoLiteral)>>, TRUE, FALSE)
<1>1. s[p] \notin L!Spaces /\ s[p] \notin L!Symbols /\ s[p] \notin L!WordChars /\ s[p] \notin L!Numeric /\ s[p] # "/"
  BY CharacterClasses
<1>2. \A q \in L!Pair : s[p] # q[1]
  BY <1>1, PairMeaning
<1>3. ASSUME NEW n \in p..Len(s) PROVE ~L!Lexeme(SubSeq(s, p, n))
  <2>1. p \in p..n
    OBVIOUS
  <2> QED
    BY <1>1, <1>2, <2>1, SegmentLexeme DEF L!Lexeme
<1>4. ~OpensAt(s, p)
  BY <1>1 DEF OpensAt
<1> QED
  BY <1>1, <1>3, <1>4, PartLexeme

\* What a token is, and where a part ends.
LexToken == [type : L!TokenType, literal : Seq(STRING)]

\* A token is one.
LEMMA TokenIsOne ==
  ASSUME NEW y \in L!TokenType, NEW w \in Seq(STRING)
  PROVE  L!Token(y, w) \in LexToken /\ L!Token(y, w).type = y /\ L!Token(y, w).literal = w
BY DEF L!Token, LexToken

\* No literal is one of no character.
LEMMA NoLiteralIsOne == L!NoLiteral \in Seq(STRING)
BY DEF L!NoLiteral

\* What a word is as a keyword.
LEMMA KeywordTypes ==
  ASSUME NEW w
  PROVE  L!keyword_to_tokentype(w) \in {"INT", "VOID", "RETURN", "INVALID"}
<1>1. \A k \in L!Keywords : k[2] \in {"INT", "VOID", "RETURN"}
  BY DEF L!Keywords
<1>2. CASE \E k \in L!Keywords : k[1] = w
  <2>1. (CHOOSE k \in L!Keywords : k[1] = w) \in L!Keywords
    BY <1>2
  <2>2. (CHOOSE k \in L!Keywords : k[1] = w)[2] \in {"INT", "VOID", "RETURN"}
    BY <1>1, <2>1
  <2> QED
    BY <1>2, <2>2 DEF L!keyword_to_tokentype
<1>3. CASE ~\E k \in L!Keywords : k[1] = w
  BY <1>3 DEF L!keyword_to_tokentype
<1> QED
  BY <1>2, <1>3

\* The types of the words and of the end are types of tokens.
LEMMA KeywordTokens == {"INT", "VOID", "RETURN", "INVALID", "EOF", "IDENTIFIER", "INTEGER_LITERAL"} \subseteq L!TokenType
BY DEF L!TokenType

\* A symbol is none of the words, nor the end, nor an error.
LEMMA SymbolTokens ==
  /\ \A y \in L!Symbol : y[2] \in L!TokenType \ {"EOF", "INVALID", "INTEGER_LITERAL", "IDENTIFIER", "INT", "VOID", "RETURN"}
  /\ \A q \in L!Pair : q[3] \in L!TokenType \ {"EOF", "INVALID", "INTEGER_LITERAL", "IDENTIFIER", "INT", "VOID", "RETURN"}
<1> DEFINE Types == {"MINUS", "AMPERSAND", "PIPE", "EQUAL", "LESS_THAN", "GREATER_THAN", "EXCLAMATION",
                     "PLUS", "ASTERISK", "FORWARD_SLASH", "PERCENT", "TILDE", "CARET", "LPAREN",
                     "RPAREN", "LBRACE", "RBRACE", "SEMICOLON"}
<1>1. \A y \in L!Symbol : y[2] \in Types
  <2> DEFINE lb == "{"
             rb == "}"
             sc == ";"
  <2>1. \A y \in L!Symbol :
          y \in { <<"-", "MINUS">>, <<"&", "AMPERSAND">>, <<"|", "PIPE">>, <<"=", "EQUAL">>,
                  <<"<", "LESS_THAN">>, <<">", "GREATER_THAN">>, <<"!", "EXCLAMATION">>, <<"+", "PLUS">>,
                  <<"*", "ASTERISK">>, <<"/", "FORWARD_SLASH">>, <<"%", "PERCENT">>, <<"~", "TILDE">>,
                  <<"^", "CARET">>, <<"(", "LPAREN">>, <<")", "RPAREN">>, <<lb, "LBRACE">>,
                  <<rb, "RBRACE">>, <<sc, "SEMICOLON">> }
    BY Zenon DEF L!Symbol
  <2> HIDE DEF lb, rb, sc
  <2> QED
    BY <2>1
<1>2. \A y \in Types : y \in L!TokenType \ {"EOF", "INVALID", "INTEGER_LITERAL", "IDENTIFIER", "INT", "VOID", "RETURN"}
  BY DEF L!TokenType
<1>3. \A q \in L!Pair : q[3] \in L!TokenType \ {"EOF", "INVALID", "INTEGER_LITERAL", "IDENTIFIER", "INT", "VOID", "RETURN"}
  BY DEF L!Pair, L!TokenType
<1> HIDE DEF Types
<1> QED
  BY <1>1, <1>2, <1>3

\* Every lexeme is classified as a token.
LEMMA ClassifyIsToken ==
  ASSUME NEW w \in Seq(STRING), L!Lexeme(w)
  PROVE  L!Classify(w) \in LexToken
<1>1. CASE L!IsNumber(w)
  <2>1. w # <<>> /\ w[1] \in L!Numeric
    <3>1. 1 \in DOMAIN w
      BY <1>1 DEF L!IsNumber
    <3> QED
      BY <1>1, <3>1 DEF L!IsNumber
  <2>2. ~L!IsWord(w) /\ ~L!IsSymbol(w)
    <3>1. w[1] \notin L!Symbols
      BY <2>1, CharacterClasses
    <3>2. \A q \in L!Pair : w # <<q[1], q[2]>>
      BY <3>1, PairMeaning
    <3> QED
      BY <2>1, <3>1, <3>2 DEF L!IsWord, L!IsSymbol
  <2>3. L!Classify(w) = L!Token("INTEGER_LITERAL", w)
    BY <1>1, <2>2 DEF L!Classify
  <2> QED
    BY <2>3, TokenIsOne, KeywordTokens
<1>2. CASE L!IsWord(w) /\ ~L!IsNumber(w)
  <2>1. w # <<>> /\ w[1] \in L!WordChars
    <3>1. 1 \in DOMAIN w
      BY <1>2 DEF L!IsWord
    <3> QED
      BY <1>2, <3>1 DEF L!IsWord
  <2>2. ~L!IsSymbol(w)
    <3>1. w[1] \notin L!Symbols
      BY <2>1, CharacterClasses
    <3>2. \A q \in L!Pair : w # <<q[1], q[2]>>
      BY <3>1, PairMeaning
    <3> QED
      BY <2>1, <3>1, <3>2 DEF L!IsSymbol
  <2>3. L!Classify(w) = IF L!keyword_to_tokentype(w) = "INVALID" THEN L!Token("IDENTIFIER", w)
                        ELSE L!Token(L!keyword_to_tokentype(w), L!NoLiteral)
    BY <1>2, <2>2 DEF L!Classify
  <2>4. L!keyword_to_tokentype(w) \in L!TokenType
    BY KeywordTypes, KeywordTokens
  <2>5. L!Token("IDENTIFIER", w) \in LexToken /\ L!Token(L!keyword_to_tokentype(w), L!NoLiteral) \in LexToken
    BY <2>4, TokenIsOne, KeywordTokens, NoLiteralIsOne
  <2> QED
    BY <2>3, <2>5
<1>3. CASE L!IsSymbol(w) /\ ~L!IsNumber(w) /\ ~L!IsWord(w) /\ Len(w) = 1
  <2>1. L!Classify(w) = L!Token((CHOOSE y \in L!Symbol : y[1] = w[1])[2], L!NoLiteral)
    BY <1>3 DEF L!Classify
  <2>2. PICK y \in L!Symbol : y[1] = w[1]
    BY <1>3 DEF L!IsSymbol, L!Symbols
  <2>3. (CHOOSE z \in L!Symbol : z[1] = w[1]) = y
    BY <2>2, SymbolMeaning
  <2>4. y[2] \in L!TokenType
    BY SymbolTokens
  <2>5. L!Token(y[2], L!NoLiteral) \in LexToken
    BY <2>4, TokenIsOne, NoLiteralIsOne
  <2> QED
    BY <2>1, <2>3, <2>5
<1>4. CASE L!IsSymbol(w) /\ ~L!IsNumber(w) /\ ~L!IsWord(w) /\ Len(w) = 2
  <2>1. L!Classify(w) = L!Token((CHOOSE q \in L!Pair : w = <<q[1], q[2]>>)[3], L!NoLiteral)
    BY <1>4 DEF L!Classify
  <2>2. PICK q \in L!Pair : w = <<q[1], q[2]>>
    BY <1>4 DEF L!IsSymbol
  <2>3. (CHOOSE z \in L!Pair : w = <<z[1], z[2]>>) = q
    BY <2>2, PairMeaning
  <2>4. q[3] \in L!TokenType
    BY SymbolTokens
  <2>5. L!Token(q[3], L!NoLiteral) \in LexToken
    BY <2>4, TokenIsOne, NoLiteralIsOne
  <2> QED
    BY <2>1, <2>3, <2>5
<1> QED
  BY <1>1, <1>2, <1>3, <1>4 DEF L!Lexeme, L!IsSymbol

\* A part ends after it begins and not after the text, and is of the types of one.
LEMMA PartType ==
  ASSUME NEW s \in Seq(STRING), NEW p \in 1..Len(s)
  PROVE  /\ L!PartAt(s, p) = L!Part(L!PartAt(s, p).next, L!PartAt(s, p).tokens, L!PartAt(s, p).bad, L!PartAt(s, p).open)
         /\ L!PartAt(s, p).next \in p+1..Len(s)+1 /\ L!PartAt(s, p).tokens \in Seq(LexToken)
         /\ L!PartAt(s, p).bad \in BOOLEAN /\ L!PartAt(s, p).open \in BOOLEAN
<1> DEFINE Good(r) == /\ r = L!Part(r.next, r.tokens, r.bad, r.open)
                      /\ r.next \in p+1..Len(s)+1 /\ r.tokens \in Seq(LexToken)
                      /\ r.bad \in BOOLEAN /\ r.open \in BOOLEAN
<1>0. ASSUME NEW n \in p..Len(s), NEW t \in Seq(LexToken), NEW b \in BOOLEAN, NEW o \in BOOLEAN
      PROVE  Good(L!Part(n + 1, t, b, o))
  <2>1. n + 1 \in p+1..Len(s)+1
    OBVIOUS
  <2> QED
    BY <2>1 DEF L!Part
<1>1. <<>> \in Seq(LexToken) /\ p \in p..Len(s) /\ Len(s) \in p..Len(s)
  OBVIOUS
<1> HIDE DEF Good
<1>2. CASE s[p] \in L!Spaces
  <2>1. L!PartAt(s, p) = L!Part(p + 1, <<>>, FALSE, FALSE)
    BY <1>2, PartSpace
  <2>2. Good(L!Part(p + 1, <<>>, FALSE, FALSE))
    BY <1>0, <1>1
  <2> QED
    BY <2>1, <2>2 DEF Good
<1>3. CASE s[p] \notin L!Spaces /\ OpensAt(s, p)
  <2>1. L!PartAt(s, p) = IF L!LineEnds(s, p) = {} THEN L!Part(Len(s) + 1, <<>>, FALSE, TRUE)
                         ELSE L!Part((CHOOSE n \in L!LineEnds(s, p) : TRUE) + 1, <<>>, FALSE, FALSE)
    BY <1>3 DEF L!PartAt, OpensAt
  <2>2. CASE L!LineEnds(s, p) = {}
    <3>1. Good(L!Part(Len(s) + 1, <<>>, FALSE, TRUE))
      BY <1>0, <1>1
    <3> QED
      BY <2>1, <2>2, <3>1 DEF Good
  <2>3. CASE L!LineEnds(s, p) # {}
    <3>1. PICK n \in p..Len(s) : n = CHOOSE k \in L!LineEnds(s, p) : TRUE
      BY <2>3 DEF L!LineEnds
    <3>2. Good(L!Part(n + 1, <<>>, FALSE, FALSE))
      BY <1>0, <1>1
    <3> QED
      BY <2>1, <2>3, <3>1, <3>2 DEF Good
  <2> QED
    BY <2>2, <2>3
<1>4. CASE s[p] \notin L!Spaces /\ ~OpensAt(s, p)
  <2>0. ~(p < Len(s) /\ s[p] = "/" /\ s[p + 1] = "/")
    BY <1>4 DEF OpensAt
  <2>1. CASE L!Longest(s, p) = {}
    <3>1. L!PartAt(s, p) = L!Part(p + 1, <<L!Token("INVALID", L!NoLiteral)>>, TRUE, FALSE)
      BY <1>4, <2>0, <2>1 DEF L!PartAt
    <3>2. <<L!Token("INVALID", L!NoLiteral)>> \in Seq(LexToken)
      BY TokenIsOne, KeywordTokens, NoLiteralIsOne
    <3>3. Good(L!Part(p + 1, <<L!Token("INVALID", L!NoLiteral)>>, TRUE, FALSE))
      BY <1>0, <1>1, <3>2
    <3> QED
      BY <3>1, <3>3 DEF Good
  <2>2. CASE L!Longest(s, p) # {}
    <3>1. PICK n \in p..Len(s) : n = (CHOOSE k \in L!Longest(s, p) : TRUE) /\ n \in L!Longest(s, p)
      BY <2>2 DEF L!Longest
    <3>2. L!Lexeme(SubSeq(s, p, n)) /\ SubSeq(s, p, n) \in Seq(STRING)
      BY <3>1, Segment DEF L!Longest
    <3>3. <<L!Classify(SubSeq(s, p, n))>> \in Seq(LexToken)
      <4>1. L!Classify(SubSeq(s, p, n)) \in LexToken
        BY <3>2, ClassifyIsToken
      <4> QED
        BY <4>1
    <3>4. L!PartAt(s, p) = L!Part(n + 1, <<L!Classify(SubSeq(s, p, n))>>,
                              L!IsNumber(SubSeq(s, p, n)) /\ n < Len(s) /\ s[n + 1] \in L!WordChars, FALSE)
      BY <1>4, <2>0, <2>2, <3>1 DEF L!PartAt
    <3>5. PICK b \in BOOLEAN : b = (L!IsNumber(SubSeq(s, p, n)) /\ n < Len(s) /\ s[n + 1] \in L!WordChars)
      OBVIOUS
    <3>6. Good(L!Part(n + 1, <<L!Classify(SubSeq(s, p, n))>>, b, FALSE))
      BY <1>0, <3>3
    <3>7. L!PartAt(s, p) = L!Part(n + 1, <<L!Classify(SubSeq(s, p, n))>>, b, FALSE)
      BY <3>4, <3>5
    <3> QED
      BY <3>6, <3>7 DEF Good
  <2> QED
    BY <2>1, <2>2
<1> QED
  BY <1>2, <1>3, <1>4

\* What Tokenize computes of the text from each place on.
Nothing == [tokens |-> <<L!Token("EOF", L!NoLiteral)>>, bad |-> FALSE, open |-> FALSE]
Joined(part, rest) == [tokens |-> part.tokens \o rest.tokens, bad |-> part.bad \/ rest.bad,
                       open |-> part.open \/ rest.open]
Continues(s, f) == f = [p \in 1..Len(s)+1 |-> IF p > Len(s) THEN Nothing
                                              ELSE Joined(L!PartAt(s, p), f[L!PartAt(s, p).next])]
From(s) == CHOOSE f : Continues(s, f)

\* The whole text is what there is from its first character.
LEMMA TokenizeFrom == ASSUME NEW s PROVE L!Tokenize(s) = From(s)[1]
BY DEF L!Tokenize, From, Continues, Nothing, Joined

\* There is a function that reads from each place to the end.
LEMMA FromContinues ==
  ASSUME NEW s \in Seq(STRING)
  PROVE  Continues(s, From(s))
<1> DEFINE n == Len(s)
           Holds(f, p) == f[p] = IF p > n THEN Nothing ELSE Joined(L!PartAt(s, p), f[L!PartAt(s, p).next])
           Okay(m) == \E f : f = [p \in 1..n+1 |-> f[p]] /\ \A p \in 1..n+1 : p >= n + 1 - m => Holds(f, p)
           T == {m \in Nat : m <= n => Okay(m)}
<1>1. n \in Nat
  OBVIOUS
<1> HIDE DEF n
<1>2. 0 \in T
  <2> DEFINE f == [p \in 1..n+1 |-> Nothing]
  <2>1. f = [p \in 1..n+1 |-> f[p]]
    OBVIOUS
  <2>2. ASSUME NEW p \in 1..n+1, p >= n + 1 - 0 PROVE Holds(f, p)
    <3>1. p > n /\ f[p] = Nothing
      BY <1>1, <2>2
    <3> QED
      BY <3>1
  <2> HIDE DEF f
  <2>3. Okay(0)
    <3> HIDE DEF Holds
    <3> QED
      BY <2>1, <2>2
  <2> QED
    BY <2>3
<1>3. ASSUME NEW m \in Nat, m \in T PROVE m + 1 \in T
  <2> SUFFICES ASSUME m + 1 <= n PROVE Okay(m + 1)
    OBVIOUS
  <2>1. PICK f : f = [p \in 1..n+1 |-> f[p]] /\ \A p \in 1..n+1 : p >= n + 1 - m => Holds(f, p)
    BY <1>1, <1>3
  <2> DEFINE q == n - m
             v == Joined(L!PartAt(s, q), f[L!PartAt(s, q).next])
             g == [p \in 1..n+1 |-> IF p = q THEN v ELSE f[p]]
  <2>2. q \in 1..n /\ q = n + 1 - (m + 1)
    BY <1>1
  <2> HIDE DEF q
  <2>3. ASSUME NEW p \in 1..n PROVE L!PartAt(s, p).next \in p+1..n+1
    BY PartType DEF n
  <2>4. ASSUME NEW p \in 1..n+1, p >= n + 1 - (m + 1) PROVE Holds(g, p)
    <3>1. CASE p = q
      <4>1. L!PartAt(s, q).next \in 1..n+1 /\ L!PartAt(s, q).next # q
        BY <2>2, <2>3
      <4>2. g[L!PartAt(s, q).next] = f[L!PartAt(s, q).next] /\ g[q] = v
        <5> HIDE DEF v
        <5>1. \A k \in 1..n+1 : g[k] = IF k = q THEN v ELSE f[k]
          OBVIOUS
        <5>2. q \in 1..n+1
          BY <1>1, <2>2
        <5> HIDE DEF g
        <5> QED
          BY <4>1, <5>1, <5>2
      <4> HIDE DEF g
      <4>3. ~(q > n)
        BY <2>2, <1>1
      <4> QED
        BY <3>1, <4>2, <4>3
    <3>2. CASE p # q
      <4>1. p >= n + 1 - m /\ g[p] = f[p]
        BY <1>1, <2>2, <2>4, <3>2
      <4>2. Holds(f, p)
        BY <2>1, <4>1
      <4>3. CASE p > n
        <5> HIDE DEF g
        <5> QED
          BY <4>1, <4>2, <4>3
      <4>4. CASE ~(p > n)
        <5>1. p \in 1..n
          BY <4>4, <1>1
        <5>2. L!PartAt(s, p).next \in p+1..n+1
          BY <5>1, <2>3
        <5>3. L!PartAt(s, p).next \in 1..n+1 /\ L!PartAt(s, p).next # q
          BY <5>1, <5>2, <4>1, <2>2, <1>1
        <5>4. g[L!PartAt(s, p).next] = f[L!PartAt(s, p).next]
          BY <5>3
        <5> HIDE DEF g
        <5> QED
          BY <4>1, <4>2, <4>4, <5>4
      <4> QED
        BY <4>3, <4>4
    <3> QED
      BY <3>1, <3>2
  <2>5. g = [p \in 1..n+1 |-> g[p]]
    OBVIOUS
  <2> HIDE DEF g, Holds
  <2> QED
    BY <2>4, <2>5
<1>4. n \in T
  <2> HIDE DEF T
  <2> QED
    BY <1>1, <1>2, <1>3, SetInduction
<1>5. PICK f : f = [p \in 1..n+1 |-> f[p]] /\ \A p \in 1..n+1 : p >= n + 1 - n => Holds(f, p)
  BY <1>1, <1>4
<1>6. ASSUME NEW p \in 1..n+1 PROVE Holds(f, p)
  <2>1. p >= n + 1 - n
    BY <1>1
  <2> QED
    BY <1>5, <2>1
<1>7. Continues(s, f)
  <2>1. f = [p \in 1..n+1 |-> IF p > n THEN Nothing ELSE Joined(L!PartAt(s, p), f[L!PartAt(s, p).next])]
    BY <1>5, <1>6
  <2> QED
    BY <2>1 DEF Continues, n
<1> QED
  BY <1>7 DEF From

\* It reads the part at the place, then from where that part ends.
LEMMA FromStep ==
  ASSUME NEW s \in Seq(STRING)
  PROVE  /\ From(s)[Len(s) + 1] = Nothing
         /\ \A p \in 1..Len(s) : From(s)[p] = Joined(L!PartAt(s, p), From(s)[L!PartAt(s, p).next])
<1> DEFINE n == Len(s)
<1>1. n \in Nat
  OBVIOUS
<1>2. From(s) = [p \in 1..n+1 |-> IF p > n THEN Nothing ELSE Joined(L!PartAt(s, p), From(s)[L!PartAt(s, p).next])]
  BY FromContinues DEF Continues
<1> HIDE DEF n
<1>3. n + 1 \in 1..n+1 /\ n + 1 > n /\ \A p \in 1..n : p \in 1..n+1 /\ ~(p > n)
  BY <1>1
<1>4. From(s)[n + 1] = Nothing
  BY <1>2, <1>3
<1>5. \A p \in 1..n : From(s)[p] = Joined(L!PartAt(s, p), From(s)[L!PartAt(s, p).next])
  BY <1>2, <1>3
<1> QED
  BY <1>4, <1>5 DEF n

Reading == [tokens : Seq(LexToken), bad : BOOLEAN, open : BOOLEAN]

\* What it reads is tokens.
LEMMA FromType ==
  ASSUME NEW s \in Seq(STRING)
  PROVE  \A p \in 1..Len(s)+1 : From(s)[p] \in Reading
<1> DEFINE n == Len(s)
           T == {m \in Nat : \A p \in 1..n+1 : p >= n + 1 - m => From(s)[p] \in Reading}
<1>1. n \in Nat
  OBVIOUS
<1>2. Nothing \in Reading
  <2>1. <<L!Token("EOF", L!NoLiteral)>> \in Seq(LexToken)
    BY TokenIsOne, KeywordTokens, NoLiteralIsOne
  <2> QED
    BY <2>1 DEF Nothing, Reading
<1>3. From(s)[n + 1] = Nothing /\ \A p \in 1..n : From(s)[p] = Joined(L!PartAt(s, p), From(s)[L!PartAt(s, p).next])
  BY FromStep
<1>4. \A p \in 1..n : /\ L!PartAt(s, p).next \in p+1..n+1 /\ L!PartAt(s, p).tokens \in Seq(LexToken)
                      /\ L!PartAt(s, p).bad \in BOOLEAN /\ L!PartAt(s, p).open \in BOOLEAN
  BY PartType
<1> HIDE DEF n
<1>5. 0 \in T
  <2>1. ASSUME NEW p \in 1..n+1, p >= n + 1 - 0 PROVE p = n + 1
    BY <1>1, <2>1
  <2> QED
    BY <2>1, <1>2, <1>3
<1>6. ASSUME NEW m \in Nat, m \in T PROVE m + 1 \in T
  <2> SUFFICES ASSUME NEW p \in 1..n+1, p >= n + 1 - (m + 1) PROVE From(s)[p] \in Reading
    OBVIOUS
  <2>1. CASE p >= n + 1 - m
    BY <1>6, <2>1
  <2>2. CASE ~(p >= n + 1 - m)
    <3>1. p = n - m /\ p \in 1..n
      BY <1>1, <2>2
    <3>2. L!PartAt(s, p).next \in 1..n+1 /\ L!PartAt(s, p).next >= n + 1 - m
      BY <3>1, <1>1, <1>4
    <3>3. From(s)[L!PartAt(s, p).next] \in Reading
      BY <3>2, <1>6
    <3>4. Joined(L!PartAt(s, p), From(s)[L!PartAt(s, p).next]) \in Reading
      <4>1. ASSUME NEW a, NEW b \in Reading, a.tokens \in Seq(LexToken), a.bad \in BOOLEAN, a.open \in BOOLEAN
            PROVE  Joined(a, b) \in Reading
        <5>1. a.tokens \o b.tokens \in Seq(LexToken)
          BY <4>1 DEF Reading
        <5> QED
          BY <5>1 DEF Joined, Reading
      <4> QED
        BY <4>1, <3>1, <3>3, <1>4
    <3> QED
      BY <3>1, <3>4, <1>3
  <2> QED
    BY <2>1, <2>2
<1>7. n \in T
  <2> HIDE DEF T
  <2> QED
    BY <1>1, <1>5, <1>6, SetInduction
<1>8. ASSUME NEW p \in 1..n+1 PROVE From(s)[p] \in Reading
  <2>1. p >= n + 1 - n
    BY <1>1
  <2> QED
    BY <1>7, <2>1
<1> QED
  BY <1>8 DEF n

-----------------------------------------------------------------------------
(* The lexer has cut the text up to p. *)

Cut(s, toks, err, p) ==
  /\ From(s)[1].tokens = toks \o From(s)[p].tokens
  /\ From(s)[1].bad <=> (err \/ From(s)[p].bad)
  /\ From(s)[1].open <=> From(s)[p].open

\* Before the first character nothing has been cut.
LEMMA CutStart ==
  ASSUME NEW s \in Seq(STRING)
  PROVE  Cut(s, <<>>, FALSE, 1)
<1>1. 1 \in 1..Len(s)+1
  OBVIOUS
<1>2. From(s)[1] \in Reading
  BY <1>1, FromType
<1>3. From(s)[1].tokens \in Seq(LexToken) /\ From(s)[1].bad \in BOOLEAN
  BY <1>2 DEF Reading
<1>4. <<>> \o From(s)[1].tokens = From(s)[1].tokens
  BY <1>3
<1> QED
  BY <1>3, <1>4 DEF Cut

\* Joining is associative.
LEMMA Associative ==
  ASSUME NEW E, NEW x \in Seq(E), NEW y \in Seq(E), NEW z \in Seq(E)
  PROVE  (x \o y) \o z = x \o (y \o z)
OBVIOUS

\* What is read in two parts.
LEMMA JoinedFields ==
  ASSUME NEW a, NEW b
  PROVE  /\ Joined(a, b).tokens = a.tokens \o b.tokens
         /\ Joined(a, b).bad <=> (a.bad \/ b.bad)
         /\ Joined(a, b).open <=> (a.open \/ b.open)
BY DEF Joined

\* One part more is cut.
LEMMA CutStep ==
  ASSUME NEW s \in Seq(STRING), NEW toks \in Seq(LexToken), NEW err \in BOOLEAN, NEW p \in 1..Len(s),
         Cut(s, toks, err, p), NEW n, NEW t, NEW wrong \in BOOLEAN,
         L!PartAt(s, p) = L!Part(n, t, wrong, FALSE)
  PROVE  n \in p+1..Len(s)+1 /\ Cut(s, toks \o t, err \/ wrong, n)
<1>1. L!PartAt(s, p).next = n /\ L!PartAt(s, p).tokens = t /\ L!PartAt(s, p).bad = wrong /\ L!PartAt(s, p).open = FALSE
  BY DEF L!Part
<1>2. n \in p+1..Len(s)+1 /\ n \in 1..Len(s)+1 /\ t \in Seq(LexToken)
  <2>1. L!PartAt(s, p).next \in p+1..Len(s)+1 /\ L!PartAt(s, p).tokens \in Seq(LexToken)
    BY PartType
  <2>2. n \in p+1..Len(s)+1 /\ t \in Seq(LexToken)
    BY <1>1, <2>1
  <2> QED
    BY <2>2
<1>3. PICK r \in Reading : r = From(s)[n]
  BY <1>2, FromType
<1>4. PICK rest \in Seq(LexToken) : rest = r.tokens
  BY <1>3 DEF Reading
<1>11. r.bad \in BOOLEAN /\ r.open \in BOOLEAN
  BY <1>3 DEF Reading
<1>5. From(s)[p] = Joined(L!PartAt(s, p), r)
  BY <1>1, <1>3, FromStep
<1>6. From(s)[p].tokens = t \o rest /\ (From(s)[p].bad <=> wrong \/ r.bad) /\ (From(s)[p].open <=> r.open)
  <2>1. From(s)[p].tokens = t \o rest
    <3>1. Joined(L!PartAt(s, p), r).tokens = L!PartAt(s, p).tokens \o r.tokens
      BY JoinedFields
    <3> QED
      BY <1>1, <1>4, <1>5, <3>1
  <2>2. From(s)[p].bad <=> wrong \/ r.bad
    BY <1>1, <1>5, JoinedFields
  <2>3. From(s)[p].open <=> r.open
    BY <1>1, <1>5, JoinedFields
  <2> QED
    BY <2>1, <2>2, <2>3
<1>7. (toks \o t) \o rest = toks \o (t \o rest)
  BY <1>2, Associative
<1>8. From(s)[1].tokens = (toks \o t) \o rest
  BY <1>6, <1>7 DEF Cut
<1>9. From(s)[1].bad <=> (err \/ wrong) \/ r.bad
  BY <1>6 DEF Cut
<1>10. From(s)[1].open <=> r.open
  BY <1>6 DEF Cut
<1> QED
  BY <1>2, <1>3, <1>4, <1>8, <1>9, <1>10 DEF Cut

\* The two forms it is used in: nothing but spaces, or one token.
LEMMA CutSkip ==
  ASSUME NEW s \in Seq(STRING), NEW toks \in Seq(LexToken), NEW err \in BOOLEAN, NEW p \in 1..Len(s),
         Cut(s, toks, err, p), NEW n, L!PartAt(s, p) = L!Part(n, <<>>, FALSE, FALSE)
  PROVE  n \in p+1..Len(s)+1 /\ Cut(s, toks, err, n)
<1>1. toks \o <<>> = toks /\ (err \/ FALSE) = err
  OBVIOUS
<1>2. n \in p+1..Len(s)+1 /\ Cut(s, toks \o <<>>, err \/ FALSE, n)
  BY CutStep
<1> QED
  BY <1>1, <1>2

\* One part more is cut, which is a token.
LEMMA CutToken ==
  ASSUME NEW s \in Seq(STRING), NEW toks \in Seq(LexToken), NEW err \in BOOLEAN, NEW p \in 1..Len(s),
         Cut(s, toks, err, p), NEW n, NEW t \in LexToken, NEW wrong \in BOOLEAN,
         L!PartAt(s, p) = L!Part(n, <<t>>, wrong, FALSE)
  PROVE  n \in p+1..Len(s)+1 /\ Cut(s, Append(toks, t), err \/ wrong, n)
<1>1. toks \o <<t>> = Append(toks, t)
  OBVIOUS
<1>2. n \in p+1..Len(s)+1 /\ Cut(s, toks \o <<t>>, err \/ wrong, n)
  BY CutStep
<1> QED
  BY <1>1, <1>2

\* A text that is cut to its end is cut as it should be.
LEMMA CutEnd ==
  ASSUME NEW s \in Seq(STRING), NEW toks \in Seq(LexToken), NEW err \in BOOLEAN,
         Cut(s, toks, err, Len(s) + 1)
  PROVE  /\ L!Tokenize(s).tokens = Append(toks, L!Token("EOF", L!NoLiteral))
         /\ L!Tokenize(s).bad = err /\ L!Tokenize(s).open = FALSE
<1>1. From(s)[Len(s) + 1] = Nothing
  BY FromStep
<1>2. toks \o <<L!Token("EOF", L!NoLiteral)>> = Append(toks, L!Token("EOF", L!NoLiteral))
  BY TokenIsOne, KeywordTokens, NoLiteralIsOne
<1>3. Nothing.tokens = <<L!Token("EOF", L!NoLiteral)>> /\ Nothing.bad = FALSE /\ Nothing.open = FALSE
  BY DEF Nothing
<1>4. From(s)[1] \in Reading
  BY FromType
<1>5. From(s)[1].bad \in BOOLEAN /\ From(s)[1].open \in BOOLEAN
  BY <1>4 DEF Reading
<1>6. From(s)[1].tokens = toks \o <<L!Token("EOF", L!NoLiteral)>>
  BY <1>1, <1>3 DEF Cut
<1>7. From(s)[1].bad = err
  BY <1>1, <1>3, <1>5 DEF Cut
<1>8. From(s)[1].open = FALSE
  BY <1>1, <1>3, <1>5 DEF Cut
<1> QED
  BY <1>2, <1>6, <1>7, <1>8, TokenizeFrom

\* An open comment is one of the whole text.
LEMMA CutOpen ==
  ASSUME NEW s \in Seq(STRING), NEW toks, NEW err, NEW p \in 1..Len(s), Cut(s, toks, err, p),
         L!PartAt(s, p).open = TRUE
  PROVE  L!Tokenize(s).open = TRUE
<1>1. From(s)[p] = Joined(L!PartAt(s, p), From(s)[L!PartAt(s, p).next])
  BY FromStep
<1>2. From(s)[p].open
  BY <1>1, JoinedFields
<1>3. From(s)[1] \in Reading
  BY FromType
<1>4. From(s)[1].open \in BOOLEAN
  BY <1>3 DEF Reading
<1>5. From(s)[1].open = TRUE
  BY <1>2, <1>4 DEF Cut
<1> QED
  BY <1>5, TokenizeFrom

\* The scan in progress: what is before nextPos has been cut, or is the part of a
\* comment, of a number or of a word that begins at a place up to which it has.
Scanning(s, pl, toks, err, p, from) ==
  \/ pl = "whitespace" /\ p \in 1..Len(s)+1 /\ Cut(s, toks, err, p)
  \/ /\ pl = "comment"
     /\ \E q \in 1..Len(s) : /\ OpensAt(s, q) /\ q < p /\ p <= Len(s) + 2 /\ Cut(s, toks, err, q)
                             /\ \A k \in q..Len(s) : k < p => s[k] # "\n"
  \/ /\ pl = "number" /\ p \in 1..Len(s)+1 /\ from < p /\ from \in 1..Len(s) /\ Cut(s, toks, err, from)
     /\ \A k \in from..p-1 : s[k] \in L!Numeric
  \/ /\ pl = "word" /\ p \in 1..Len(s)+1 /\ from < p /\ from \in 1..Len(s) /\ Cut(s, toks, err, from)
     /\ s[from] \notin L!Numeric /\ \A k \in from..p-1 : s[k] \in L!WordChars

IsText(s) == s \in Seq(STRING) /\ \A k \in 1..Len(s) : s[k] # L!NUL

\* A sequence with another element.
LEMMA AppendAny ==
  ASSUME NEW E, NEW s \in Seq(E), NEW e
  PROVE  /\ Append(s, e) \in Seq(E \cup {e}) /\ Len(Append(s, e)) = Len(s) + 1
         /\ \A k \in 1..Len(s) : Append(s, e)[k] = s[k]
         /\ Append(s, e)[Len(s) + 1] = e
<1> DEFINE F == E \cup {e}
<1>1. s \in Seq(F) /\ e \in F
  OBVIOUS
<1> HIDE DEF F
<1>2. Append(s, e) \in Seq(F) /\ Len(Append(s, e)) = Len(s) + 1
  BY <1>1
<1> QED
  BY <1>2 DEF F

\* What begins like a sequence has its parts.
LEMMA PrefixIs ==
  ASSUME NEW E, NEW F, NEW s \in Seq(E), NEW b \in Seq(F), Len(b) >= Len(s), \A k \in 1..Len(s) : b[k] = s[k]
  PROVE  /\ SubSeq(b, 1, Len(s)) = s
         /\ \A p \in 1..Len(s) : \A n \in p..Len(s) : SubSeq(b, p, n) = SubSeq(s, p, n)
OBVIOUS

\* The buffer holds the text and the zero after it.
LEMMA BufferOf ==
  ASSUME NEW s, IsText(s), NEW b, b = Append(s, L!NUL)
  PROVE  /\ Len(b) = Len(s) + 1 /\ SubSeq(b, 1, Len(b) - 1) = s
         /\ \A k \in 1..Len(s) : b[k] = s[k]
         /\ b[Len(s) + 1] = L!NUL
<1>1. s \in Seq(STRING) /\ Len(s) \in Nat
  BY DEF IsText
<1>3. Len(b) = Len(s) + 1 /\ b \in Seq(STRING \cup {L!NUL})
  BY <1>1, AppendAny
<1>4. (\A k \in 1..Len(s) : b[k] = s[k]) /\ b[Len(s) + 1] = L!NUL
  BY <1>1
<1>5. SubSeq(b, 1, Len(b) - 1) = s
  <2>1. Len(b) - 1 = Len(s)
    BY <1>1, <1>3
  <2>2. SubSeq(b, 1, Len(s)) = s
    BY <1>1, <1>3, <1>4, PrefixIs
  <2> QED
    BY <2>1, <2>2
<1> QED
  BY <1>3, <1>4, <1>5

\* The character at p, as the lexer sees it.
LEMMA CharAt ==
  ASSUME NEW s, IsText(s), NEW b, b = Append(s, L!NUL), NEW p \in 1..Len(s)+1
  PROVE  /\ b[p] # L!NUL => p \in 1..Len(s) /\ b[p] = s[p]
         /\ b[p] = L!NUL => p = Len(s) + 1
         /\ p \in 1..Len(s) => b[p] = s[p]
         /\ \A c : c # L!NUL => (p \in 1..Len(s) /\ b[p + 1] = c <=> p < Len(s) /\ s[p + 1] = c)
<1>1. s \in Seq(STRING) /\ Len(s) \in Nat /\ \A k \in 1..Len(s) : s[k] # L!NUL
  BY DEF IsText
<1>2. (\A k \in 1..Len(s) : b[k] = s[k]) /\ b[Len(s) + 1] = L!NUL
  BY BufferOf
<1>3. p = Len(s) + 1 \/ p \in 1..Len(s)
  BY <1>1
<1>4. p = Len(s) + 1 => p \notin 1..Len(s)
  BY <1>1
<1>5. ASSUME NEW c, c # L!NUL PROVE p \in 1..Len(s) /\ b[p + 1] = c <=> p < Len(s) /\ s[p + 1] = c
  <2>1. CASE p = Len(s)
    <3>1. b[p + 1] = L!NUL /\ ~(p < Len(s))
      BY <1>1, <1>2, <2>1
    <3> QED
      BY <3>1, <1>5
  <2>2. CASE p = Len(s) + 1
    BY <2>2, <1>1, <1>4
  <2>3. CASE p # Len(s) /\ p \in 1..Len(s)
    <3>1. p + 1 \in 1..Len(s) /\ p < Len(s)
      BY <1>1, <2>3
    <3> QED
      BY <3>1, <2>3, <1>2
  <2> QED
    BY <2>1, <2>2, <2>3, <1>3
<1> QED
  BY <1>1, <1>2, <1>3, <1>4, <1>5

-----------------------------------------------------------------------------
(* One step of the scan. *)

\* White space is passed over.
LEMMA ScanSpaces ==
  ASSUME NEW s, IsText(s), NEW toks \in Seq(LexToken), NEW err \in BOOLEAN, NEW p \in 1..Len(s), NEW from,
         Scanning(s, "whitespace", toks, err, p, from), s[p] \in L!Spaces
  PROVE  Scanning(s, "whitespace", toks, err, p + 1, from)
<1>1. Cut(s, toks, err, p) /\ s \in Seq(STRING)
  BY DEF Scanning, IsText
<1>2. p + 1 \in p+1..Len(s)+1 /\ Cut(s, toks, err, p + 1)
  BY <1>1, PartSpace, CutSkip
<1>3. p + 1 \in 1..Len(s)+1
  OBVIOUS
<1> QED
  BY <1>2, <1>3 DEF Scanning

\* Two slashes open a comment.
LEMMA ScanOpening ==
  ASSUME NEW s, IsText(s), NEW toks \in Seq(LexToken), NEW err \in BOOLEAN, NEW p \in 1..Len(s), NEW from,
         Scanning(s, "whitespace", toks, err, p, from), OpensAt(s, p)
  PROVE  Scanning(s, "comment", toks, err, p + 2, from)
<1>1. Cut(s, toks, err, p) /\ s \in Seq(STRING) /\ Len(s) \in Nat
  BY DEF Scanning, IsText
<1>2. p < p + 2 /\ p + 2 <= Len(s) + 2
  BY <1>1
<1>3. ASSUME NEW k \in p..Len(s), k < p + 2 PROVE s[k] # "\n"
  <2>1. k = p \/ k = p + 1
    BY <1>1, <1>3
  <2> QED
    BY <2>1, CharacterClasses DEF OpensAt
<1> QED
  BY <1>1, <1>2, <1>3 DEF Scanning

\* A comment goes on, or ends with its line.
LEMMA ScanComment ==
  ASSUME NEW s, IsText(s), NEW toks \in Seq(LexToken), NEW err \in BOOLEAN, NEW p \in 1..Len(s)+1, NEW from,
         Scanning(s, "comment", toks, err, p, from)
  PROVE  /\ p <= Len(s) /\ s[p] = "\n" => Scanning(s, "whitespace", toks, err, p + 1, from)
         /\ (p <= Len(s) => s[p] # "\n") => Scanning(s, "comment", toks, err, p + 1, from)
<1>1. s \in Seq(STRING) /\ Len(s) \in Nat
  BY DEF IsText
<1>2. PICK q \in 1..Len(s) : /\ OpensAt(s, q) /\ q < p /\ Cut(s, toks, err, q)
                             /\ \A k \in q..Len(s) : k < p => s[k] # "\n"
  BY DEF Scanning
<1>3. ASSUME p <= Len(s), s[p] = "\n" PROVE Scanning(s, "whitespace", toks, err, p + 1, from)
  <2>1. p \in q..Len(s) /\ \A m \in q..p-1 : s[m] # "\n"
    BY <1>1, <1>2, <1>3
  <2>2. L!PartAt(s, q) = L!Part(p + 1, <<>>, FALSE, FALSE)
    BY <1>1, <1>2, <1>3, <2>1, PartComment
  <2>3. Cut(s, toks, err, p + 1)
    BY <1>1, <1>2, <2>2, CutSkip
  <2>4. p + 1 \in 1..Len(s)+1
    BY <1>1, <1>3
  <2> QED
    BY <2>3, <2>4 DEF Scanning
<1>4. ASSUME p <= Len(s) => s[p] # "\n" PROVE Scanning(s, "comment", toks, err, p + 1, from)
  <2>1. q < p + 1 /\ p + 1 <= Len(s) + 2
    BY <1>1, <1>2
  <2>2. ASSUME NEW k \in q..Len(s), k < p + 1 PROVE s[k] # "\n"
    <3>1. k = p \/ k < p
      BY <1>1, <2>2
    <3> QED
      BY <3>1, <1>1, <1>2, <1>4, <2>2
  <2> QED
    BY <1>2, <2>1, <2>2 DEF Scanning
<1> QED
  BY <1>3, <1>4

\* Only a comment is read past the buffer.
LEMMA PastInComment ==
  ASSUME NEW s, IsText(s), NEW toks, NEW err, NEW p \in Nat, p > Len(s) + 1,
         NEW pl, NEW from, Scanning(s, pl, toks, err, p, from)
  PROVE  pl = "comment"
BY DEF Scanning, IsText

\* Then it has no end.
LEMMA ScanPast ==
  ASSUME NEW s, IsText(s), NEW toks \in Seq(LexToken), NEW err \in BOOLEAN, NEW p \in Nat, p > Len(s) + 1,
         NEW from, Scanning(s, "comment", toks, err, p, from)
  PROVE  L!Tokenize(s).open = TRUE
<1>1. s \in Seq(STRING) /\ Len(s) \in Nat /\ p \notin 1..Len(s)+1
  BY DEF IsText
<1>3. PICK q \in 1..Len(s) : /\ OpensAt(s, q) /\ Cut(s, toks, err, q)
                             /\ \A k \in q..Len(s) : k < p => s[k] # "\n"
  BY DEF Scanning
<1>4. \A k \in q..Len(s) : s[k] # "\n"
  BY <1>1, <1>3
<1>5. L!PartAt(s, q) = L!Part(Len(s) + 1, <<>>, FALSE, TRUE)
  BY <1>1, <1>3, <1>4, PartComment
<1>6. L!PartAt(s, q).open = TRUE
  BY <1>5 DEF L!Part
<1> QED
  BY <1>1, <1>3, <1>6, CutOpen

\* At the end of the text all has been cut.
LEMMA ScanEnd ==
  ASSUME NEW s, IsText(s), NEW toks \in Seq(LexToken), NEW err \in BOOLEAN, NEW from,
         Scanning(s, "whitespace", toks, err, Len(s) + 1, from)
  PROVE  /\ L!Tokenize(s).tokens = Append(toks, L!Token("EOF", L!NoLiteral))
         /\ L!Tokenize(s).bad = err /\ L!Tokenize(s).open = FALSE
<1>1. Cut(s, toks, err, Len(s) + 1) /\ s \in Seq(STRING)
  BY DEF Scanning, IsText
<1> QED
  BY <1>1, CutEnd

\* A token that is pushed is the next part.
LEMMA ScanOne ==
  ASSUME NEW s, IsText(s), NEW toks \in Seq(LexToken), NEW err \in BOOLEAN, NEW p \in 1..Len(s), NEW from,
         Cut(s, toks, err, p), NEW n, NEW t \in LexToken, NEW wrong \in BOOLEAN,
         L!PartAt(s, p) = L!Part(n, <<t>>, wrong, FALSE)
  PROVE  Scanning(s, "whitespace", Append(toks, t), err \/ wrong, n, from)
<1>1. s \in Seq(STRING) /\ Len(s) \in Nat
  BY DEF IsText
<1>2. n \in p+1..Len(s)+1 /\ Cut(s, Append(toks, t), err \/ wrong, n)
  BY <1>1, CutToken
<1>3. n \in 1..Len(s)+1
  BY <1>1, <1>2
<1> QED
  BY <1>2, <1>3 DEF Scanning

\* What is pushed for one character or two that are no word.
LEMMA ScanSymbols ==
  ASSUME NEW s, IsText(s), NEW toks \in Seq(LexToken), NEW err \in BOOLEAN, NEW p \in 1..Len(s), NEW from,
         Scanning(s, "whitespace", toks, err, p, from), ~OpensAt(s, p)
  PROVE  /\ \A q \in L!Pair : p < Len(s) /\ s[p] = q[1] /\ s[p + 1] = q[2] =>
              Scanning(s, "whitespace", Append(toks, L!Token(q[3], L!NoLiteral)), err, p + 2, from)
         /\ \A y \in L!Symbol : s[p] = y[1] /\ ~(\E q \in L!Pair : p < Len(s) /\ s[p] = q[1] /\ s[p + 1] = q[2]) =>
              Scanning(s, "whitespace", Append(toks, L!Token(y[2], L!NoLiteral)), err, p + 1, from)
         /\ s[p] \notin L!Spaces \cup L!Symbols \cup L!WordChars =>
              Scanning(s, "whitespace", Append(toks, L!Token("INVALID", L!NoLiteral)), TRUE, p + 1, from)
<1>1. Cut(s, toks, err, p) /\ s \in Seq(STRING) /\ (err \/ FALSE) = err /\ (err \/ TRUE) = TRUE
  BY DEF Scanning, IsText
<1>2. ASSUME NEW q \in L!Pair, p < Len(s), s[p] = q[1], s[p + 1] = q[2]
      PROVE  Scanning(s, "whitespace", Append(toks, L!Token(q[3], L!NoLiteral)), err, p + 2, from)
  <2>1. q[3] \in L!TokenType
    BY SymbolTokens
  <2>2. L!Token(q[3], L!NoLiteral) \in LexToken
    BY <2>1, TokenIsOne, NoLiteralIsOne
  <2>3. L!PartAt(s, p) = L!Part(p + 2, <<L!Token(q[3], L!NoLiteral)>>, FALSE, FALSE)
    BY <1>1, <1>2, PartPair
  <2>4. Scanning(s, "whitespace", Append(toks, L!Token(q[3], L!NoLiteral)), err \/ FALSE, p + 2, from)
    BY <1>1, <2>2, <2>3, ScanOne
  <2> QED
    BY <1>1, <2>4
<1>3. ASSUME NEW y \in L!Symbol, s[p] = y[1], ~\E q \in L!Pair : p < Len(s) /\ s[p] = q[1] /\ s[p + 1] = q[2]
      PROVE  Scanning(s, "whitespace", Append(toks, L!Token(y[2], L!NoLiteral)), err, p + 1, from)
  <2>1. y[2] \in L!TokenType
    BY SymbolTokens
  <2>2. L!Token(y[2], L!NoLiteral) \in LexToken
    BY <2>1, TokenIsOne, NoLiteralIsOne
  <2>3. L!PartAt(s, p) = L!Part(p + 1, <<L!Token(y[2], L!NoLiteral)>>, FALSE, FALSE)
    BY <1>1, <1>3, PartSymbol
  <2>4. Scanning(s, "whitespace", Append(toks, L!Token(y[2], L!NoLiteral)), err \/ FALSE, p + 1, from)
    BY <1>1, <2>2, <2>3, ScanOne
  <2> QED
    BY <1>1, <2>4
<1>4. ASSUME s[p] \notin L!Spaces \cup L!Symbols \cup L!WordChars
      PROVE  Scanning(s, "whitespace", Append(toks, L!Token("INVALID", L!NoLiteral)), TRUE, p + 1, from)
  <2>2. L!Token("INVALID", L!NoLiteral) \in LexToken
    BY KeywordTokens, TokenIsOne, NoLiteralIsOne
  <2>3. L!PartAt(s, p) = L!Part(p + 1, <<L!Token("INVALID", L!NoLiteral)>>, TRUE, FALSE)
    BY <1>1, <1>4, PartInvalid
  <2>4. Scanning(s, "whitespace", Append(toks, L!Token("INVALID", L!NoLiteral)), err \/ TRUE, p + 1, from)
    BY <1>1, <2>2, <2>3, ScanOne
  <2> QED
    BY <1>1, <2>4
<1> QED
  BY <1>2, <1>3, <1>4

\* A number or a word begins.
LEMMA ScanStart ==
  ASSUME NEW s, IsText(s), NEW toks \in Seq(LexToken), NEW err \in BOOLEAN, NEW p \in 1..Len(s), NEW from,
         Scanning(s, "whitespace", toks, err, p, from), s[p] \in L!WordChars
  PROVE  Scanning(s, IF s[p] \in L!Numeric THEN "number" ELSE "word", toks, err, p + 1, p)
<1>1. Cut(s, toks, err, p) /\ s \in Seq(STRING) /\ Len(s) \in Nat
  BY DEF Scanning, IsText
<1>2. p + 1 \in 1..Len(s)+1 /\ p < p + 1 /\ \A k \in p..p+1-1 : k = p
  BY <1>1
<1> QED
  BY <1>1, <1>2 DEF Scanning

\* A number or a word goes on.
LEMMA ScanMore ==
  ASSUME NEW s, IsText(s), NEW toks \in Seq(LexToken), NEW err \in BOOLEAN, NEW p \in 1..Len(s), NEW from
  PROVE  /\ Scanning(s, "number", toks, err, p, from) /\ s[p] \in L!Numeric =>
              Scanning(s, "number", toks, err, p + 1, from)
         /\ Scanning(s, "word", toks, err, p, from) /\ s[p] \in L!WordChars =>
              Scanning(s, "word", toks, err, p + 1, from)
<1>1. s \in Seq(STRING) /\ Len(s) \in Nat /\ p + 1 \in 1..Len(s)+1
  BY DEF IsText
<1>2. ASSUME from \in 1..Len(s), from < p, NEW k \in from..p+1-1 PROVE k = p \/ k \in from..p-1
  BY <1>1, <1>2
<1>3. from \in 1..Len(s) /\ from < p => from < p + 1
  BY <1>1
<1> QED
  BY <1>1, <1>2, <1>3 DEF Scanning

\* What the lexer keeps of the number or the word is the text's.
LEMMA SameLiteral ==
  ASSUME NEW s, IsText(s), NEW b, b = Append(s, L!NUL), NEW p \in 1..Len(s), NEW n \in p..Len(s)
  PROVE  SubSeq(b, p, n) = SubSeq(s, p, n)
<1>1. s \in Seq(STRING) /\ Len(s) \in Nat
  BY DEF IsText
<1>2. b \in Seq(STRING \cup {L!NUL}) /\ Len(b) = Len(s) + 1 /\ \A k \in 1..Len(s) : b[k] = s[k]
  BY <1>1, AppendAny
<1> QED
  BY <1>1, <1>2, PrefixIs

\* A number has ended, and is an error when a letter follows.
LEMMA ScanEndNumber ==
  ASSUME NEW s, IsText(s), NEW toks \in Seq(LexToken), NEW err \in BOOLEAN, NEW p \in 1..Len(s)+1, NEW from,
         Scanning(s, "number", toks, err, p, from), p <= Len(s) => s[p] \notin L!Numeric
  PROVE  /\ from \in 1..Len(s) /\ p - 1 \in from..Len(s) /\ SubSeq(s, from, p - 1) \in Seq(STRING)
         /\ Scanning(s, "whitespace", Append(toks, L!Token("INTEGER_LITERAL", SubSeq(s, from, p - 1))),
                     err \/ (p <= Len(s) /\ s[p] \in L!WordChars), p, from)
<1>1. s \in Seq(STRING) /\ Len(s) \in Nat
  BY DEF IsText
<1>2. /\ from \in 1..Len(s) /\ from < p /\ Cut(s, toks, err, from)
      /\ \A k \in from..p-1 : s[k] \in L!Numeric
  BY DEF Scanning
<1>3. PICK n \in from..Len(s) : n = p - 1 /\ n + 1 = p
  BY <1>1, <1>2
<1>4. PICK wrong \in BOOLEAN : wrong = (n < Len(s) /\ s[n + 1] \in L!WordChars)
  OBVIOUS
<1>5. L!PartAt(s, from) = L!Part(n + 1, <<L!Token("INTEGER_LITERAL", SubSeq(s, from, n))>>, wrong, FALSE)
  <2>1. (\A k \in from..n : s[k] \in L!Numeric) /\ (n < Len(s) => s[n + 1] \notin L!Numeric)
    BY <1>1, <1>2, <1>3
  <2>2. L!PartAt(s, from) = L!Part(n + 1, <<L!Token("INTEGER_LITERAL", SubSeq(s, from, n))>>,
                               n < Len(s) /\ s[n + 1] \in L!WordChars, FALSE)
    BY <1>1, <1>2, <2>1, PartNumber
  <2> QED
    BY <1>4, <2>2
<1>6. SubSeq(s, from, n) \in Seq(STRING)
  BY <1>1, <1>2, Segment
<1>7. L!Token("INTEGER_LITERAL", SubSeq(s, from, n)) \in LexToken
  BY <1>6, TokenIsOne, KeywordTokens
<1>8. Scanning(s, "whitespace", Append(toks, L!Token("INTEGER_LITERAL", SubSeq(s, from, n))), err \/ wrong, n + 1, from)
  BY <1>2, <1>5, <1>7, ScanOne
<1>9. wrong = (p <= Len(s) /\ s[p] \in L!WordChars)
  <2>1. n < Len(s) <=> p <= Len(s)
    BY <1>1, <1>3
  <2> QED
    BY <1>3, <1>4, <2>1
<1> QED
  BY <1>2, <1>3, <1>6, <1>8, <1>9

\* A word has ended: a keyword or a name.
LEMMA ScanEndWord ==
  ASSUME NEW s, IsText(s), NEW toks \in Seq(LexToken), NEW err \in BOOLEAN, NEW p \in 1..Len(s)+1, NEW from,
         Scanning(s, "word", toks, err, p, from), p <= Len(s) => s[p] \notin L!WordChars
  PROVE  /\ from \in 1..Len(s) /\ p - 1 \in from..Len(s) /\ SubSeq(s, from, p - 1) \in Seq(STRING)
         /\ L!keyword_to_tokentype(SubSeq(s, from, p - 1)) = "INVALID" =>
              Scanning(s, "whitespace", Append(toks, L!Token("IDENTIFIER", SubSeq(s, from, p - 1))), err, p, from)
         /\ L!keyword_to_tokentype(SubSeq(s, from, p - 1)) # "INVALID" =>
              Scanning(s, "whitespace",
                       Append(toks, L!Token(L!keyword_to_tokentype(SubSeq(s, from, p - 1)), L!NoLiteral)), err, p, from)
<1>1. s \in Seq(STRING) /\ Len(s) \in Nat
  BY DEF IsText
<1>2. /\ from \in 1..Len(s) /\ from < p /\ Cut(s, toks, err, from) /\ s[from] \notin L!Numeric
      /\ \A k \in from..p-1 : s[k] \in L!WordChars
  BY DEF Scanning
<1>3. PICK n \in from..Len(s) : n = p - 1 /\ n + 1 = p
  BY <1>1, <1>2
<1>4. PICK type : type = L!keyword_to_tokentype(SubSeq(s, from, n))
  OBVIOUS
<1>5. PICK t : t = IF type = "INVALID" THEN L!Token("IDENTIFIER", SubSeq(s, from, n)) ELSE L!Token(type, L!NoLiteral)
  OBVIOUS
<1>6. L!PartAt(s, from) = L!Part(n + 1, <<t>>, FALSE, FALSE)
  <2>1. (\A k \in from..n : s[k] \in L!WordChars) /\ (n < Len(s) => s[n + 1] \notin L!WordChars)
    BY <1>1, <1>2, <1>3
  <2>2. L!PartAt(s, from) = L!Part(n + 1, <<IF L!keyword_to_tokentype(SubSeq(s, from, n)) = "INVALID"
                                        THEN L!Token("IDENTIFIER", SubSeq(s, from, n))
                                        ELSE L!Token(L!keyword_to_tokentype(SubSeq(s, from, n)), L!NoLiteral)>>,
                               FALSE, FALSE)
    BY <1>1, <1>2, <2>1, PartWord
  <2> QED
    BY <1>4, <1>5, <2>2
<1>7. SubSeq(s, from, n) \in Seq(STRING)
  BY <1>1, <1>2, Segment
<1>8. t \in LexToken
  <2>1. type \in L!TokenType
    BY <1>4, KeywordTypes, KeywordTokens
  <2>2. L!Token("IDENTIFIER", SubSeq(s, from, n)) \in LexToken /\ L!Token(type, L!NoLiteral) \in LexToken
    BY <1>7, <2>1, TokenIsOne, KeywordTokens, NoLiteralIsOne
  <2> QED
    BY <1>5, <2>2
<1>9. Scanning(s, "whitespace", Append(toks, t), err, n + 1, from)
  <2>1. (err \/ FALSE) = err
    OBVIOUS
  <2>2. Scanning(s, "whitespace", Append(toks, t), err \/ FALSE, n + 1, from)
    BY <1>2, <1>6, <1>8, ScanOne
  <2> QED
    BY <2>1, <2>2
<1> QED
  BY <1>2, <1>3, <1>4, <1>5, <1>7, <1>9

ReadsAll(s, toks, err) ==
  L!Tokenize(s).open = FALSE /\ L!Tokenize(s).tokens = toks /\ L!Tokenize(s).bad = err

\* What the lexer keeps.
LexInv ==
  /\ IsText(L!Text) /\ buffer = Append(L!Text, L!NUL)
  /\ tokenArray \in Seq(LexToken) /\ lexerError \in BOOLEAN
  /\ nextPos \in 1..Len(L!Text)+2 /\ startPos \in 1..nextPos
  /\ place \in {"whitespace", "comment", "number", "word"}
  /\ lexing \in {"running", "done", "undefined"}
  /\ place \in {"number", "word"} => startPos < nextPos
  /\ lexing = "running" => Scanning(L!Text, place, tokenArray, lexerError, nextPos, startPos)
  /\ lexing = "done" => ReadsAll(L!Text, tokenArray, lexerError)
  /\ lexing = "undefined" => L!Tokenize(L!Text).open = TRUE

\* The invariant says that the lexer is right.
LEMMA LexInvRight == LexInv => L!TypeOK /\ L!TokenizesByLongestMatch
<1> SUFFICES ASSUME LexInv PROVE L!TypeOK /\ L!TokenizesByLongestMatch
  OBVIOUS
<1>1. PICK s : s = L!Text
  OBVIOUS
<1>2. IsText(s) /\ buffer = Append(s, L!NUL) /\ s \in Seq(STRING)
  BY <1>1 DEF LexInv, IsText
<1>3. Len(buffer) = Len(s) + 1 /\ Len(s) \in Nat
  BY <1>2, BufferOf
<1>4. L!TypeOK
  <2>1. nextPos \in 1..Len(buffer)+1 /\ startPos \in 1..nextPos
    <3>1. Len(s) + 2 = Len(buffer) + 1
      BY <1>3
    <3> QED
      BY <3>1, <1>1 DEF LexInv
  <2>2. \A k \in 1..Len(tokenArray) : tokenArray[k].type \in L!TokenType
    <3>1. tokenArray \in Seq(LexToken)
      BY DEF LexInv
    <3>2. \A k \in 1..Len(tokenArray) : tokenArray[k] \in LexToken
      BY <3>1
    <3> QED
      BY <3>2 DEF LexToken
  <2> QED
    BY <2>1, <2>2 DEF L!TypeOK, LexInv
<1>5. L!TokenizesByLongestMatch
  BY DEF L!TokenizesByLongestMatch, LexInv, ReadsAll
<1> QED
  BY <1>4, <1>5

\* The lexer begins with a text of which nothing has been cut.
LEMMA LexInitInv ==
  ASSUME L!Init, \A t \in Texts : IsText(t)
  PROVE  LexInv
<1>1. PICK s \in Texts : buffer = Append(s, L!NUL)
  BY DEF L!Init
<1>2. IsText(s) /\ s \in Seq(STRING)
  BY <1>1 DEF IsText
<1>3. L!Text = s
  BY <1>1, <1>2, BufferOf DEF L!Text
<1>4. nextPos \in 1..Len(s)+2 /\ startPos \in 1..nextPos /\ 1 \in 1..Len(s)+1
  <2>1. Len(s) \in Nat
    BY <1>2
  <2> QED
    BY <2>1 DEF L!Init
<1>5. Cut(s, <<>>, FALSE, 1)
  BY <1>2, CutStart
<1>6. Scanning(s, "whitespace", <<>>, FALSE, 1, startPos)
  BY <1>4, <1>5 DEF Scanning
<1>7. Scanning(L!Text, place, tokenArray, lexerError, nextPos, startPos)
  BY <1>3, <1>6 DEF L!Init
<1>8. tokenArray \in Seq(LexToken)
  BY DEF L!Init
<1> QED
  BY <1>1, <1>2, <1>3, <1>4, <1>7, <1>8 DEF LexInv, L!Init

\* One step of the lexer, between what it knows before and after.
LEMMA LexStepInv ==
  ASSUME LexInv, L!Next
  PROVE  LexInv'
<1>1. PICK s : s = L!Text
  OBVIOUS
<1>2. PICK b : b = buffer
  OBVIOUS
<1>3. PICK p \in 1..Len(s)+2 : p = nextPos
  BY <1>1 DEF LexInv
<1>4. PICK toks \in Seq(LexToken) : toks = tokenArray
  BY DEF LexInv
<1>5. PICK err \in BOOLEAN : err = lexerError
  BY DEF LexInv
<1>6. PICK from : from = startPos
  OBVIOUS
<1>7. IsText(s) /\ b = Append(s, L!NUL) /\ s \in Seq(STRING) /\ from \in 1..p
  BY <1>1, <1>2, <1>3, <1>6 DEF LexInv, IsText
<1>8. Len(b) = Len(s) + 1 /\ Len(s) \in Nat
  BY <1>7, BufferOf
<1>9. lexing = "running" /\ Scanning(s, place, toks, err, p, from)
  <2>1. lexing = "running"
    BY DEF L!Next, L!SkipSpace, L!StartComment, L!SkipComment, L!ScanEOF, L!ScanPair, L!ScanSymbol, L!StartLiteral,
           L!ScanInvalid, L!ReadOn, L!EndNumber, L!EndWord, L!ReadPastEnd, L!At, L!In
  <2> QED
    BY <2>1, <1>1, <1>3, <1>4, <1>5, <1>6 DEF LexInv
<1>10. buffer' = buffer /\ L!Text' = s
  BY <1>1 DEF L!Next, L!SkipSpace, L!StartComment, L!SkipComment, L!ScanEOF, L!ScanPair, L!ScanSymbol, L!StartLiteral,
           L!ScanInvalid, L!ReadOn, L!EndNumber, L!EndWord, L!ReadPastEnd, L!At, L!In, L!Text
<1>11. ASSUME NEW pl, NEW n, NEW t, NEW e, NEW f, Scanning(s, pl, t, e, n, f), n = p + 1 \/ n = p + 2 \/ n = p,
              p \in 1..Len(s) \/ n = p \/ (n = p + 1 /\ p \in 1..Len(s)+1), t \in Seq(LexToken), e \in BOOLEAN,
              pl \in {"whitespace", "comment", "number", "word"}, f \in 1..p, pl \in {"number", "word"} => f < n,
              nextPos' = n, place' = pl, tokenArray' = t, lexerError' = e, startPos' = f, lexing' = "running"
       PROVE  LexInv'
  <2>1. n \in 1..Len(s)+2 /\ f \in 1..n
    BY <1>8, <1>11
  <2> QED
    BY <1>2, <1>7, <1>10, <1>11, <2>1 DEF LexInv
<1>12. ASSUME nextPos <= Len(buffer) PROVE p \in 1..Len(s)+1 /\ L!Char = b[p] /\ L!Ahead = b[p + 1]
  BY <1>2, <1>3, <1>8, <1>12 DEF L!Char, L!Ahead
<1>13. ASSUME p \in 1..Len(s)+1
       PROVE  /\ b[p] # L!NUL => p \in 1..Len(s) /\ b[p] = s[p]
              /\ b[p] = L!NUL => p = Len(s) + 1
              /\ p \in 1..Len(s) => b[p] = s[p]
              /\ \A c : c # L!NUL => (p \in 1..Len(s) /\ b[p + 1] = c <=> p < Len(s) /\ s[p + 1] = c)
  BY <1>7, <1>13, CharAt
<1>14. ASSUME L!In("whitespace") PROVE L!OpensComment <=> p \in 1..Len(s) /\ OpensAt(s, p)
  <2>1. p \in 1..Len(s)+1 /\ L!Char = b[p] /\ L!Ahead = b[p + 1]
    BY <1>12, <1>14 DEF L!In
  <2>2. "/" # L!NUL
    BY CharacterClasses
  <2> QED
    BY <2>1, <2>2, <1>13 DEF L!OpensComment, OpensAt
<1>15. CASE L!SkipSpace
  <2>1. p \in 1..Len(s)+1 /\ b[p] \in L!Spaces /\ place = "whitespace"
    BY <1>12, <1>15 DEF L!SkipSpace, L!In
  <2>2. p \in 1..Len(s) /\ s[p] \in L!Spaces
    BY <2>1, <1>13, CharacterClasses
  <2>3. Scanning(s, "whitespace", toks, err, p + 1, from)
    BY <1>7, <1>9, <2>1, <2>2, ScanSpaces
  <2> QED
    BY <1>3, <1>4, <1>5, <1>6, <1>7, <1>9, <1>11, <1>15, <2>1, <2>2, <2>3 DEF L!SkipSpace, L!Advance
<1>16. CASE L!StartComment
  <2>1. p \in 1..Len(s) /\ OpensAt(s, p) /\ place = "whitespace"
    BY <1>14, <1>16 DEF L!StartComment, L!In
  <2>2. Scanning(s, "comment", toks, err, p + 2, from)
    BY <1>7, <1>9, <2>1, ScanOpening
  <2> QED
    BY <1>3, <1>4, <1>5, <1>6, <1>7, <1>9, <1>11, <1>16, <2>1, <2>2 DEF L!StartComment, L!Advance, L!Goto
<1>17. CASE L!SkipComment
  <2>1. p \in 1..Len(s)+1 /\ L!Char = b[p] /\ place = "comment"
    BY <1>12, <1>17 DEF L!SkipComment, L!In
  <2>2. b[p] = "\n" <=> p <= Len(s) /\ s[p] = "\n"
    <3>1. "\n" # L!NUL
      BY CharacterClasses
    <3> QED
      BY <2>1, <3>1, <1>8, <1>13
  <2>3. /\ p <= Len(s) /\ s[p] = "\n" => Scanning(s, "whitespace", toks, err, p + 1, from)
        /\ (p <= Len(s) => s[p] # "\n") => Scanning(s, "comment", toks, err, p + 1, from)
    BY <1>7, <1>9, <2>1, ScanComment
  <2>4. CASE b[p] = "\n"
    <3>1. Scanning(s, "whitespace", toks, err, p + 1, from) /\ place' = "whitespace"
      BY <2>1, <2>2, <2>3, <2>4, <1>17 DEF L!SkipComment, L!Goto
    <3> QED
      BY <1>3, <1>4, <1>5, <1>6, <1>7, <1>9, <1>11, <1>17, <2>1, <3>1 DEF L!SkipComment, L!Advance
  <2>5. CASE b[p] # "\n"
    <3>1. Scanning(s, "comment", toks, err, p + 1, from) /\ place' = "comment"
      BY <2>1, <2>2, <2>3, <2>5, <1>17 DEF L!SkipComment, L!Goto
    <3> QED
      BY <1>3, <1>4, <1>5, <1>6, <1>7, <1>9, <1>11, <1>17, <2>1, <3>1 DEF L!SkipComment, L!Advance
  <2> QED
    BY <2>4, <2>5
<1>18. CASE L!ScanEOF
  <2>1. p \in 1..Len(s)+1 /\ b[p] = L!NUL /\ place = "whitespace"
    BY <1>12, <1>18 DEF L!ScanEOF, L!At, L!In
  <2>2. p = Len(s) + 1
    BY <2>1, <1>13
  <2>3. ReadsAll(s, Append(toks, L!Token("EOF", L!NoLiteral)), err)
    BY <1>7, <1>9, <2>1, <2>2, ScanEnd DEF ReadsAll
  <2>4. Append(toks, L!Token("EOF", L!NoLiteral)) \in Seq(LexToken)
    <3>1. L!Token("EOF", L!NoLiteral) \in LexToken
      BY TokenIsOne, KeywordTokens, NoLiteralIsOne
    <3> QED
      BY <3>1
  <2>5. /\ lexing' = "done" /\ tokenArray' = Append(toks, L!Token("EOF", L!NoLiteral)) /\ lexerError' = err
        /\ nextPos' = p /\ startPos' = from /\ place' = "whitespace"
    BY <1>3, <1>4, <1>5, <1>6, <1>18, <2>1 DEF L!ScanEOF, L!Push
  <2> QED
    BY <1>2, <1>7, <1>10, <2>3, <2>4, <2>5 DEF LexInv
<1>19. CASE L!ScanPair
  <2>1. p \in 1..Len(s)+1 /\ b[p] \in L!Symbols /\ place = "whitespace" /\ L!Char = b[p] /\ L!Ahead = b[p + 1]
    BY <1>12, <1>19 DEF L!ScanPair, L!At, L!In
  <2>2. p \in 1..Len(s) /\ s[p] = b[p]
    BY <2>1, <1>13, CharacterClasses
  <2>3. ~OpensAt(s, p)
    BY <1>14, <1>19, <2>2 DEF L!ScanPair, L!At
  <2>4. PICK q \in L!Pair : L!IsPair(q) /\ L!Scanned(q[3], L!NoLiteral)
    BY <1>19 DEF L!ScanPair
  <2>5. p < Len(s) /\ s[p] = q[1] /\ s[p + 1] = q[2]
    <3>1. q[2] # L!NUL
      <4>1. q[2] \in L!Symbols
        BY PairMeaning
      <4> QED
        BY <4>1, CharacterClasses
    <3> QED
      BY <2>1, <2>2, <2>4, <3>1, <1>13 DEF L!IsPair
  <2>6. Scanning(s, "whitespace", Append(toks, L!Token(q[3], L!NoLiteral)), err, p + 2, from)
    BY <1>7, <1>9, <2>1, <2>2, <2>3, <2>5, ScanSymbols
  <2>7. Append(toks, L!Token(q[3], L!NoLiteral)) \in Seq(LexToken)
    <3>1. q[3] \in L!TokenType
      BY SymbolTokens
    <3>2. L!Token(q[3], L!NoLiteral) \in LexToken
      BY <3>1, TokenIsOne, NoLiteralIsOne
    <3> QED
      BY <3>2
  <2>8. tokenArray' = Append(toks, L!Token(q[3], L!NoLiteral)) /\ place' = "whitespace"
    BY <1>4, <2>4 DEF L!Scanned, L!Push, L!Goto
  <2> QED
    BY <1>3, <1>5, <1>6, <1>7, <1>9, <1>11, <1>19, <2>2, <2>6, <2>7, <2>8 DEF L!ScanPair, L!Advance
<1>20. CASE L!ScanSymbol
  <2>1. p \in 1..Len(s)+1 /\ b[p] \in L!Symbols /\ place = "whitespace" /\ L!Char = b[p] /\ L!Ahead = b[p + 1]
    BY <1>12, <1>20 DEF L!ScanSymbol, L!At, L!In
  <2>2. p \in 1..Len(s) /\ s[p] = b[p]
    BY <2>1, <1>13, CharacterClasses
  <2>3. ~OpensAt(s, p)
    BY <1>14, <1>20, <2>2 DEF L!ScanSymbol, L!At
  <2>4. PICK y \in L!Symbol : L!Char = y[1] /\ L!Scanned(y[2], L!NoLiteral)
    BY <1>20 DEF L!ScanSymbol
  <2>5. ~\E q \in L!Pair : p < Len(s) /\ s[p] = q[1] /\ s[p + 1] = q[2]
    <3> SUFFICES ASSUME NEW q \in L!Pair, p < Len(s), s[p] = q[1], s[p + 1] = q[2] PROVE FALSE
      OBVIOUS
    <3>1. q[2] # L!NUL
      <4>1. q[2] \in L!Symbols
        BY PairMeaning
      <4> QED
        BY <4>1, CharacterClasses
    <3>2. L!IsPair(q)
      BY <2>1, <2>2, <3>1, <1>13 DEF L!IsPair
    <3> QED
      BY <3>2, <1>20 DEF L!ScanSymbol
  <2>6. Scanning(s, "whitespace", Append(toks, L!Token(y[2], L!NoLiteral)), err, p + 1, from)
    <3>1. s[p] = y[1]
      BY <2>1, <2>2, <2>4
    <3> QED
      BY <1>7, <1>9, <2>1, <2>2, <2>3, <2>5, <3>1, ScanSymbols
  <2>7. Append(toks, L!Token(y[2], L!NoLiteral)) \in Seq(LexToken)
    <3>1. y[2] \in L!TokenType
      BY SymbolTokens
    <3>2. L!Token(y[2], L!NoLiteral) \in LexToken
      BY <3>1, TokenIsOne, NoLiteralIsOne
    <3> QED
      BY <3>2
  <2>8. tokenArray' = Append(toks, L!Token(y[2], L!NoLiteral)) /\ place' = "whitespace"
    BY <1>4, <2>4 DEF L!Scanned, L!Push, L!Goto
  <2> QED
    BY <1>3, <1>5, <1>6, <1>7, <1>9, <1>11, <1>20, <2>2, <2>6, <2>7, <2>8 DEF L!ScanSymbol, L!Advance
<1>21. CASE L!StartLiteral
  <2>1. p \in 1..Len(s)+1 /\ b[p] \in L!WordChars /\ place = "whitespace" /\ L!Char = b[p]
    BY <1>12, <1>21 DEF L!StartLiteral, L!At, L!In
  <2>2. p \in 1..Len(s) /\ s[p] = b[p]
    BY <2>1, <1>13, CharacterClasses
  <2>3. Scanning(s, IF s[p] \in L!Numeric THEN "number" ELSE "word", toks, err, p + 1, p)
    BY <1>7, <1>9, <2>1, <2>2, ScanStart
  <2>4. PICK pl \in {"number", "word"} : pl = IF s[p] \in L!Numeric THEN "number" ELSE "word"
    OBVIOUS
  <2>5. place' = pl
    BY <2>1, <2>2, <2>4, <1>21 DEF L!StartLiteral, L!Goto
  <2>6. Scanning(s, pl, toks, err, p + 1, p)
    BY <2>3, <2>4
  <2>7. p < p + 1 /\ p \in 1..p
    OBVIOUS
  <2> QED
    BY <1>3, <1>4, <1>5, <1>9, <1>11, <1>21, <2>2, <2>5, <2>6, <2>7 DEF L!StartLiteral, L!Advance
<1>22. CASE L!ScanInvalid
  <2>1. p \in 1..Len(s)+1 /\ b[p] \notin L!Spaces \cup L!Symbols \cup L!WordChars \cup {L!NUL} /\ place = "whitespace"
    BY <1>12, <1>22 DEF L!ScanInvalid, L!In
  <2>2. p \in 1..Len(s) /\ s[p] = b[p]
    BY <2>1, <1>13
  <2>3. ~OpensAt(s, p)
    BY <2>1, <2>2, CharacterClasses DEF OpensAt
  <2>6. Scanning(s, "whitespace", Append(toks, L!Token("INVALID", L!NoLiteral)), TRUE, p + 1, from)
    BY <1>7, <1>9, <2>1, <2>2, <2>3, ScanSymbols
  <2>7. Append(toks, L!Token("INVALID", L!NoLiteral)) \in Seq(LexToken)
    <3>2. L!Token("INVALID", L!NoLiteral) \in LexToken
      BY KeywordTokens, TokenIsOne, NoLiteralIsOne
    <3> QED
      BY <3>2
  <2>8. tokenArray' = Append(toks, L!Token("INVALID", L!NoLiteral)) /\ place' = "whitespace"
    BY <1>4, <1>22 DEF L!ScanInvalid, L!Scanned, L!Push, L!Goto
  <2> QED
    BY <1>3, <1>6, <1>7, <1>9, <1>11, <1>22, <2>2, <2>6, <2>7, <2>8 DEF L!ScanInvalid, L!Advance
<1>23. CASE L!ReadOn
  <2>1. p \in 1..Len(s)+1 /\ L!Char = b[p]
    BY <1>12, <1>23 DEF L!ReadOn, L!In
  <2>2. p \in 1..Len(s) /\ s[p] = b[p]
    BY <1>13, <1>23, <2>1, CharacterClasses DEF L!ReadOn
  <2>3. place \in {"number", "word"} /\ Scanning(s, place, toks, err, p + 1, from)
    BY <1>7, <1>9, <1>23, <2>1, <2>2, ScanMore DEF L!ReadOn, L!In
  <2>4. from < p + 1
    BY <1>7, <1>8
  <2> QED
    BY <1>3, <1>4, <1>5, <1>6, <1>7, <1>9, <1>11, <1>23, <2>2, <2>3, <2>4 DEF L!ReadOn, L!Advance
<1>24. CASE L!EndNumber
  <2>1. p \in 1..Len(s)+1 /\ L!Char = b[p] /\ place = "number" /\ b[p] \notin L!Numeric
    BY <1>12, <1>24 DEF L!EndNumber, L!In
  <2>2. p <= Len(s) => p \in 1..Len(s) /\ s[p] = b[p]
    BY <1>8, <1>13, <2>1
  <2>3. /\ from \in 1..Len(s) /\ p - 1 \in from..Len(s) /\ SubSeq(s, from, p - 1) \in Seq(STRING)
        /\ Scanning(s, "whitespace", Append(toks, L!Token("INTEGER_LITERAL", SubSeq(s, from, p - 1))),
                    err \/ (p <= Len(s) /\ s[p] \in L!WordChars), p, from)
    BY <1>7, <1>9, <2>1, <2>2, ScanEndNumber
  <2>4. L!Literal = SubSeq(s, from, p - 1)
    BY <1>2, <1>3, <1>6, <1>7, <2>3, SameLiteral DEF L!Literal
  <2>5. PICK e \in BOOLEAN : e = (err \/ (p <= Len(s) /\ s[p] \in L!WordChars))
    OBVIOUS
  <2>6. b[p] \in L!WordChars <=> p <= Len(s) /\ s[p] \in L!WordChars
    BY <1>13, <2>1, <2>2, CharacterClasses
  <2>7. lexerError' = e
    <3>1. lexerError' = (lexerError \/ b[p] \in L!WordChars)
      BY <2>1, <1>24 DEF L!EndNumber
    <3>2. lexerError' \in BOOLEAN /\ (lexerError' <=> lexerError \/ b[p] \in L!WordChars)
      BY <3>1
    <3> QED
      BY <3>2, <1>5, <2>5, <2>6
  <2>8. tokenArray' = Append(toks, L!Token("INTEGER_LITERAL", SubSeq(s, from, p - 1))) /\ place' = "whitespace"
    BY <1>4, <1>24, <2>4 DEF L!EndNumber, L!Scanned, L!Push, L!Goto
  <2>9. Append(toks, L!Token("INTEGER_LITERAL", SubSeq(s, from, p - 1))) \in Seq(LexToken)
    <3>2. L!Token("INTEGER_LITERAL", SubSeq(s, from, p - 1)) \in LexToken
      BY <2>3, KeywordTokens, TokenIsOne
    <3> QED
      BY <3>2
  <2>10. Scanning(s, "whitespace", Append(toks, L!Token("INTEGER_LITERAL", SubSeq(s, from, p - 1))), e, p, from)
    BY <2>3, <2>5
  <2> QED
    BY <1>3, <1>6, <1>7, <1>9, <1>11, <1>24, <2>7, <2>8, <2>9, <2>10 DEF L!EndNumber
<1>25. CASE L!EndWord
  <2>1. p \in 1..Len(s)+1 /\ L!Char = b[p] /\ place = "word" /\ b[p] \notin L!WordChars
    BY <1>12, <1>25 DEF L!EndWord, L!In
  <2>2. p <= Len(s) => p \in 1..Len(s) /\ s[p] = b[p]
    BY <1>8, <1>13, <2>1
  <2>3. PICK w : w = SubSeq(s, from, p - 1)
    OBVIOUS
  <2>4. /\ from \in 1..Len(s) /\ p - 1 \in from..Len(s) /\ w \in Seq(STRING)
        /\ L!keyword_to_tokentype(w) = "INVALID" =>
             Scanning(s, "whitespace", Append(toks, L!Token("IDENTIFIER", w)), err, p, from)
        /\ L!keyword_to_tokentype(w) # "INVALID" =>
             Scanning(s, "whitespace", Append(toks, L!Token(L!keyword_to_tokentype(w), L!NoLiteral)), err, p, from)
    BY <1>7, <1>9, <2>1, <2>2, <2>3, ScanEndWord
  <2>5. L!Literal = w
    BY <1>2, <1>3, <1>6, <1>7, <2>3, <2>4, SameLiteral DEF L!Literal
  <2>6. PICK t \in LexToken : t = IF L!keyword_to_tokentype(w) = "INVALID" THEN L!Token("IDENTIFIER", w)
                                  ELSE L!Token(L!keyword_to_tokentype(w), L!NoLiteral)
    <3>1. L!keyword_to_tokentype(w) \in L!TokenType
      BY KeywordTypes, KeywordTokens
    <3>2. L!Token("IDENTIFIER", w) \in LexToken /\ L!Token(L!keyword_to_tokentype(w), L!NoLiteral) \in LexToken
      BY <2>4, <3>1, TokenIsOne, KeywordTokens, NoLiteralIsOne
    <3> QED
      BY <3>2
  <2>7. Scanning(s, "whitespace", Append(toks, t), err, p, from)
    BY <2>4, <2>6
  <2>8. tokenArray' = Append(toks, t) /\ place' = "whitespace"
    BY <1>4, <1>25, <2>5, <2>6 DEF L!EndWord, L!Scanned, L!Push, L!Goto
  <2>9. Append(toks, t) \in Seq(LexToken)
    OBVIOUS
  <2> QED
    BY <1>3, <1>5, <1>6, <1>7, <1>9, <1>11, <1>25, <2>7, <2>8, <2>9 DEF L!EndWord
<1>26. CASE L!ReadPastEnd
  <2>1. p > Len(s) + 1 /\ p \in Nat
    BY <1>2, <1>3, <1>8, <1>26 DEF L!ReadPastEnd
  <2>2. L!Tokenize(s).open = TRUE /\ place = "comment"
    <3>1. PICK pl : pl = place
      OBVIOUS
    <3>2. Scanning(s, pl, toks, err, p, from)
      BY <1>9, <3>1
    <3>3. pl = "comment"
      BY <1>7, <2>1, <3>2, PastInComment
    <3>4. L!Tokenize(s).open = TRUE
      BY <1>7, <2>1, <3>2, <3>3, ScanPast
    <3> QED
      BY <3>1, <3>3, <3>4
  <2>3. /\ lexing' = "undefined" /\ tokenArray' = toks /\ lexerError' = err
        /\ nextPos' = p /\ startPos' = from /\ place' = "comment"
    BY <1>3, <1>4, <1>5, <1>6, <1>26, <2>2 DEF L!ReadPastEnd
  <2> QED
    BY <1>2, <1>7, <1>10, <2>2, <2>3 DEF LexInv
<1> QED
  BY <1>15, <1>16, <1>17, <1>18, <1>19, <1>20, <1>21, <1>22, <1>23, <1>24, <1>25, <1>26 DEF L!Next

-----------------------------------------------------------------------------
(* What the tokens say of the lexer's errors, and of the end. *)

WordTypes == {"IDENTIFIER", "INT", "VOID", "RETURN"}

\* A token that is no lexeme's, or a number that a word follows at once.
Spoils(toks, k) ==
  \/ toks[k].type = "INVALID"
  \/ k < Len(toks) /\ toks[k].type = "INTEGER_LITERAL" /\ toks[k + 1].type \in WordTypes
Broken(toks) == \E k \in 1..Len(toks) : Spoils(toks, k)
EndsInNumber(toks) == Len(toks) > 0 /\ toks[Len(toks)].type = "INTEGER_LITERAL"

\* The one EOF is the last.
EndsOnce(toks) ==
  /\ Len(toks) > 0 /\ toks[Len(toks)].type = "EOF"
  /\ \A k \in 1..Len(toks) : toks[k].type = "EOF" => k = Len(toks)

LexSays ==
  /\ lexerError => \/ Broken(tokenArray)
                   \/ /\ lexing = "running" /\ EndsInNumber(tokenArray)
                      /\ \/ place = "word"
                         \/ place = "whitespace" /\ nextPos <= Len(buffer) /\ L!Char \in L!WordChars \ L!Numeric
  /\ lexing # "done" => \A k \in 1..Len(tokenArray) : tokenArray[k].type # "EOF"
  /\ lexing = "done" => EndsOnce(tokenArray)

\* What one token more changes in what the tokens say.
LEMMA AppendToken ==
  ASSUME NEW toks \in Seq(LexToken), NEW t \in LexToken
  PROVE  /\ Append(toks, t) \in Seq(LexToken)
         /\ Broken(toks) => Broken(Append(toks, t))
         /\ t.type = "INVALID" => Broken(Append(toks, t))
         /\ EndsInNumber(toks) /\ t.type \in WordTypes => Broken(Append(toks, t))
         /\ t.type = "INTEGER_LITERAL" => EndsInNumber(Append(toks, t))
         /\ (\A k \in 1..Len(toks) : toks[k].type # "EOF") =>
              /\ t.type # "EOF" => \A k \in 1..Len(Append(toks, t)) : Append(toks, t)[k].type # "EOF"
              /\ t.type = "EOF" => EndsOnce(Append(toks, t))
<1>1. PICK more \in Seq(LexToken) : more = Append(toks, t)
  <2>1. Append(toks, t) \in Seq(LexToken)
    OBVIOUS
  <2> QED
    BY <2>1
<1>2. Len(toks) \in Nat /\ Len(more) = Len(toks) + 1 /\ more[Len(toks) + 1] = t
  BY <1>1
<1>3. \A k \in 1..Len(toks) : more[k] = toks[k]
  BY <1>1
<1>4. ASSUME Broken(toks) PROVE Broken(more)
  <2>1. PICK k \in 1..Len(toks) : Spoils(toks, k)
    BY <1>4 DEF Broken
  <2>2. k \in 1..Len(more) /\ more[k] = toks[k] /\ (k < Len(toks) => k < Len(more) /\ more[k + 1] = toks[k + 1])
    BY <1>2, <1>3
  <2>3. Spoils(more, k)
    BY <2>1, <2>2 DEF Spoils
  <2> QED
    BY <2>2, <2>3 DEF Broken
<1>5. ASSUME t.type = "INVALID" PROVE Broken(more)
  <2>1. Len(toks) + 1 \in 1..Len(more)
    BY <1>2
  <2>2. Spoils(more, Len(toks) + 1)
    BY <1>2, <1>5 DEF Spoils
  <2> QED
    BY <2>1, <2>2 DEF Broken
<1>6. ASSUME EndsInNumber(toks), t.type \in WordTypes PROVE Broken(more)
  <2>1. PICK n \in 1..Len(toks) : n = Len(toks) /\ toks[n].type = "INTEGER_LITERAL"
    BY <1>2, <1>6 DEF EndsInNumber
  <2>2. n \in 1..Len(more) /\ n < Len(more) /\ more[n] = toks[n] /\ more[n + 1] = t
    BY <1>2, <1>3, <2>1
  <2>3. Spoils(more, n)
    BY <1>6, <2>1, <2>2 DEF Spoils
  <2> QED
    BY <2>2, <2>3 DEF Broken
<1>7. ASSUME t.type = "INTEGER_LITERAL" PROVE EndsInNumber(more)
  BY <1>2, <1>7 DEF EndsInNumber
<1>8. ASSUME \A k \in 1..Len(toks) : toks[k].type # "EOF"
      PROVE  /\ t.type # "EOF" => \A k \in 1..Len(more) : more[k].type # "EOF"
             /\ t.type = "EOF" => EndsOnce(more)
  <2>1. \A k \in 1..Len(more) : k \in 1..Len(toks) \/ k = Len(toks) + 1
    BY <1>2
  <2>2. \A k \in 1..Len(toks) : more[k].type # "EOF"
    BY <1>3, <1>8
  <2>3. more[Len(toks) + 1].type = t.type
    BY <1>2
  <2> QED
    BY <1>2, <2>1, <2>2, <2>3 DEF EndsOnce
<1> QED
  BY <1>1, <1>4, <1>5, <1>6, <1>7, <1>8

\* Without tokens there is no error.
LEMMA LexInitSays == L!Init => LexSays
BY DEF L!Init, LexSays

\* A step that flags an error pushes tokens that show it.
LEMMA LexStepSays ==
  ASSUME LexInv, LexSays, L!Next
  PROVE  LexSays'
<1>1. PICK toks \in Seq(LexToken) : toks = tokenArray
  BY DEF LexInv
<1>2. PICK err \in BOOLEAN : err = lexerError
  BY DEF LexInv
<1>3. lexing = "running" /\ \A k \in 1..Len(toks) : toks[k].type # "EOF"
  <2>1. lexing = "running"
    BY DEF L!Next, L!SkipSpace, L!StartComment, L!SkipComment, L!ScanEOF, L!ScanPair, L!ScanSymbol, L!StartLiteral,
           L!ScanInvalid, L!ReadOn, L!EndNumber, L!EndWord, L!ReadPastEnd, L!At, L!In
  <2> QED
    BY <2>1, <1>1 DEF LexSays
<1>4. err => \/ Broken(toks)
             \/ /\ EndsInNumber(toks)
                /\ \/ place = "word"
                   \/ place = "whitespace" /\ nextPos <= Len(buffer) /\ L!Char \in L!WordChars \ L!Numeric
  BY <1>1, <1>2 DEF LexSays
\* The tokens stay: the error, if any, has been shown or the word is still to come.
<1>5. ASSUME tokenArray' = toks, lexerError' = err, lexing' # "done",
             place = "word" => place' = "word" /\ lexing' = "running",
             place = "whitespace" /\ L!Char \in L!WordChars \ L!Numeric => place' = "word" /\ lexing' = "running"
      PROVE  LexSays'
  BY <1>3, <1>4, <1>5 DEF LexSays
\* Another token is pushed.
<1>6. ASSUME NEW t \in LexToken, tokenArray' = Append(toks, t), lexerError' = err, t.type # "EOF", lexing' = "running",
             \/ t.type \in WordTypes
             \/ place # "word" /\ (place = "whitespace" => L!Char \notin L!WordChars \ L!Numeric)
      PROVE  LexSays'
  <2>1. \A k \in 1..Len(Append(toks, t)) : Append(toks, t)[k].type # "EOF"
    BY <1>3, <1>6, AppendToken
  <2>2. err => Broken(Append(toks, t))
    BY <1>4, <1>6, AppendToken
  <2> QED
    BY <1>6, <2>1, <2>2 DEF LexSays
<1>7. "/" \notin L!WordChars /\ L!NUL \notin L!WordChars /\ L!Spaces \cap L!WordChars = {} /\ L!Symbols \cap L!WordChars = {}
  BY CharacterClasses
<1>15. CASE L!SkipSpace
  <2>1. L!Char \notin L!WordChars /\ place = "whitespace"
    BY <1>7, <1>15 DEF L!SkipSpace, L!In
  <2> QED
    BY <1>1, <1>2, <1>3, <1>5, <1>15, <2>1 DEF L!SkipSpace
<1>16. CASE L!StartComment
  <2>1. L!Char \notin L!WordChars /\ place = "whitespace"
    BY <1>7, <1>16 DEF L!StartComment, L!In, L!OpensComment
  <2> QED
    BY <1>1, <1>2, <1>3, <1>5, <1>16, <2>1 DEF L!StartComment
<1>17. CASE L!SkipComment
  BY <1>1, <1>2, <1>3, <1>5, <1>17 DEF L!SkipComment, L!In
<1>18. CASE L!ScanEOF
  <2>1. L!Char \notin L!WordChars /\ place = "whitespace"
    BY <1>7, <1>18 DEF L!ScanEOF, L!At, L!In
  <2>2. PICK t \in LexToken : t = L!Token("EOF", L!NoLiteral) /\ t.type = "EOF"
    BY TokenIsOne, KeywordTokens, NoLiteralIsOne
  <2>3. tokenArray' = Append(toks, t) /\ lexerError' = err /\ lexing' = "done"
    BY <1>1, <1>2, <1>18, <2>2 DEF L!ScanEOF, L!Push
  <2>4. EndsOnce(Append(toks, t))
    BY <1>3, <2>2, AppendToken
  <2>5. err => Broken(Append(toks, t))
    BY <1>4, <2>1, AppendToken
  <2> QED
    BY <2>3, <2>4, <2>5 DEF LexSays
<1>19. CASE L!ScanPair
  <2>1. L!Char \notin L!WordChars /\ place = "whitespace"
    BY <1>7, <1>19 DEF L!ScanPair, L!At, L!In
  <2>2. PICK q \in L!Pair : L!IsPair(q) /\ L!Scanned(q[3], L!NoLiteral)
    BY <1>19 DEF L!ScanPair
  <2>3. q[3] \in L!TokenType /\ q[3] # "EOF"
    BY SymbolTokens
  <2>4. PICK t \in LexToken : t = L!Token(q[3], L!NoLiteral) /\ t.type # "EOF"
    BY <2>3, TokenIsOne, NoLiteralIsOne
  <2>5. tokenArray' = Append(toks, t) /\ lexerError' = err /\ lexing' = "running"
    BY <1>1, <1>2, <1>3, <1>19, <2>2, <2>4 DEF L!ScanPair, L!Scanned, L!Push
  <2> QED
    BY <1>6, <2>1, <2>4, <2>5
<1>20. CASE L!ScanSymbol
  <2>1. L!Char \notin L!WordChars /\ place = "whitespace"
    BY <1>7, <1>20 DEF L!ScanSymbol, L!At, L!In
  <2>2. PICK y \in L!Symbol : L!Scanned(y[2], L!NoLiteral)
    BY <1>20 DEF L!ScanSymbol
  <2>3. y[2] \in L!TokenType /\ y[2] # "EOF"
    BY SymbolTokens
  <2>4. PICK t \in LexToken : t = L!Token(y[2], L!NoLiteral) /\ t.type # "EOF"
    BY <2>3, TokenIsOne, NoLiteralIsOne
  <2>5. tokenArray' = Append(toks, t) /\ lexerError' = err /\ lexing' = "running"
    BY <1>1, <1>2, <1>3, <1>20, <2>2, <2>4 DEF L!ScanSymbol, L!Scanned, L!Push
  <2> QED
    BY <1>6, <2>1, <2>4, <2>5
<1>21. CASE L!StartLiteral
  <2>1. place = "whitespace" /\ (L!Char \in L!WordChars \ L!Numeric => place' = "word") /\ lexing' = "running"
    BY <1>3, <1>21 DEF L!StartLiteral, L!At, L!In, L!Goto
  <2> QED
    BY <1>1, <1>2, <1>3, <1>5, <1>21, <2>1 DEF L!StartLiteral
<1>22. CASE L!ScanInvalid
  <2>2. PICK t \in LexToken : t = L!Token("INVALID", L!NoLiteral) /\ t.type = "INVALID"
    BY TokenIsOne, KeywordTokens, NoLiteralIsOne
  <2>3. tokenArray' = Append(toks, t) /\ lexing' = "running"
    BY <1>1, <1>3, <1>22, <2>2 DEF L!ScanInvalid, L!Scanned, L!Push
  <2>4. Broken(Append(toks, t)) /\ \A k \in 1..Len(Append(toks, t)) : Append(toks, t)[k].type # "EOF"
    BY <1>3, <2>2, AppendToken
  <2> QED
    BY <2>3, <2>4 DEF LexSays
<1>23. CASE L!ReadOn
  <2>1. place' = place /\ lexing' = "running" /\ place \in {"number", "word"}
    BY <1>3, <1>23 DEF L!ReadOn, L!In
  <2>2. (place = "word" /\ place' = "word") \/ (place # "whitespace" /\ place # "word")
    BY <2>1
  <2>3. tokenArray' = toks /\ lexerError' = err
    BY <1>1, <1>2, <1>23 DEF L!ReadOn
  <2> QED
    BY <1>5, <2>1, <2>2, <2>3
<1>24. CASE L!EndNumber
  <2>1. place = "number" /\ L!Char \notin L!Numeric /\ nextPos <= Len(buffer)
    BY <1>24 DEF L!EndNumber, L!In
  <2>2. L!Literal \in Seq(STRING)
    <3>1. PICK s : s = L!Text
      OBVIOUS
    <3>2. PICK p \in 1..Len(s)+1 : p = nextPos
      <4>1. IsText(s) /\ buffer = Append(s, L!NUL) /\ nextPos \in 1..Len(s)+2
        BY <3>1 DEF LexInv
      <4>2. Len(buffer) = Len(s) + 1 /\ Len(s) \in Nat
        BY <4>1, BufferOf DEF IsText
      <4> QED
        BY <2>1, <4>1, <4>2
    <3>3. PICK from : from = startPos
      OBVIOUS
    <3>4. IsText(s) /\ buffer = Append(s, L!NUL) /\ Scanning(s, "number", toks, err, p, from)
      BY <1>1, <1>2, <1>3, <2>1, <3>1, <3>2, <3>3 DEF LexInv
    <3>5. p <= Len(s) => s[p] \notin L!Numeric
      <4>1. s \in Seq(STRING)
        BY <3>4 DEF IsText
      <4>2. p <= Len(s) => p \in 1..Len(s) /\ buffer[p] = s[p]
        BY <3>4, <4>1, BufferOf
      <4> QED
        BY <2>1, <3>2, <4>2 DEF L!Char
    <3>6. from \in 1..Len(s) /\ p - 1 \in from..Len(s) /\ SubSeq(s, from, p - 1) \in Seq(STRING)
      BY <3>4, <3>5, ScanEndNumber
    <3>7. L!Literal = SubSeq(s, from, p - 1)
      BY <3>2, <3>3, <3>4, <3>6, SameLiteral DEF L!Literal
    <3> QED
      BY <3>6, <3>7
  <2>3. PICK t \in LexToken : t = L!Token("INTEGER_LITERAL", L!Literal) /\ t.type = "INTEGER_LITERAL"
    BY <2>2, TokenIsOne, KeywordTokens
  <2>4. /\ tokenArray' = Append(toks, t) /\ lexing' = "running" /\ place' = "whitespace"
        /\ lexerError' <=> err \/ L!Char \in L!WordChars
        /\ nextPos' = nextPos /\ buffer' = buffer
    BY <1>1, <1>2, <1>3, <1>24, <2>3 DEF L!EndNumber, L!Scanned, L!Push, L!Goto
  <2>5. /\ \A k \in 1..Len(Append(toks, t)) : Append(toks, t)[k].type # "EOF"
        /\ EndsInNumber(Append(toks, t)) /\ (Broken(toks) => Broken(Append(toks, t)))
    BY <1>3, <2>3, AppendToken
  <2>6. err => Broken(Append(toks, t))
    BY <1>4, <2>1, <2>5
  <2>7. L!Char' = L!Char
    BY <2>4 DEF L!Char
  <2> QED
    BY <2>1, <2>4, <2>5, <2>6, <2>7 DEF LexSays
<1>25. CASE L!EndWord
  <2>1. PICK t : t = IF L!keyword_to_tokentype(L!Literal) = "INVALID" THEN L!Token("IDENTIFIER", L!Literal)
                     ELSE L!Token(L!keyword_to_tokentype(L!Literal), L!NoLiteral)
    OBVIOUS
  <2>2. tokenArray' = Append(toks, t) /\ lexerError' = err /\ lexing' = "running"
    BY <1>1, <1>2, <1>3, <1>25, <2>1 DEF L!EndWord, L!In, L!Scanned, L!Push
  <2>3. t \in LexToken
    <3>1. Append(toks, t) \in Seq(LexToken)
      BY <2>2, LexStepInv DEF LexInv
    <3>2. Append(toks, t)[Len(toks) + 1] = t /\ Len(toks) + 1 \in 1..Len(Append(toks, t))
      BY AppendAny
    <3> QED
      BY <3>1, <3>2
  <2>4. t.type \in WordTypes
    BY <2>1, KeywordTypes DEF L!Token, WordTypes
  <2> QED
    BY <1>6, <2>2, <2>3, <2>4 DEF WordTypes
<1>26. CASE L!ReadPastEnd
  <2>1. place = "comment"
    <3>1. PICK s : s = L!Text
      OBVIOUS
    <3>2. PICK p \in Nat : p = nextPos
      BY DEF LexInv
    <3>3. PICK pl : pl = place
      OBVIOUS
    <3>4. PICK from : from = startPos
      OBVIOUS
    <3>5. IsText(s) /\ buffer = Append(s, L!NUL) /\ Scanning(s, pl, toks, err, p, from)
      BY <1>1, <1>2, <1>3, <3>1, <3>2, <3>3, <3>4 DEF LexInv
    <3>6. p > Len(s) + 1
      <4>1. Len(buffer) = Len(s) + 1 /\ Len(s) \in Nat
        BY <3>5, BufferOf DEF IsText
      <4> QED
        BY <1>26, <3>2, <4>1 DEF L!ReadPastEnd
    <3> QED
      BY <3>3, <3>5, <3>6, PastInComment
  <2> QED
    BY <1>1, <1>2, <1>5, <1>26, <2>1 DEF L!ReadPastEnd
<1> QED
  BY <1>15, <1>16, <1>17, <1>18, <1>19, <1>20, <1>21, <1>22, <1>23, <1>24, <1>25, <1>26 DEF L!Next

AllNumeric(w) == \A k \in 1..Len(w) : w[k] \in L!Numeric
NumbersAreNumeric(toks) == \A k \in 1..Len(toks) : toks[k].type = "INTEGER_LITERAL" => AllNumeric(toks[k].literal)

\* The number that ends is made of digits.
LEMMA LiteralIsNumeric ==
  ASSUME LexInv, L!EndNumber
  PROVE  L!Literal \in Seq(STRING) /\ AllNumeric(L!Literal)
<1>1. PICK toks \in Seq(LexToken) : toks = tokenArray
  BY DEF LexInv
<1>2. PICK err \in BOOLEAN : err = lexerError
  BY DEF LexInv
<1>3. lexing = "running" /\ place = "number" /\ nextPos <= Len(buffer) /\ L!Char \notin L!Numeric
  BY DEF L!EndNumber, L!In
<1>4. PICK s : s = L!Text
  OBVIOUS
<1>5. PICK p \in 1..Len(s)+1 : p = nextPos
  <2>1. IsText(s) /\ buffer = Append(s, L!NUL) /\ nextPos \in 1..Len(s)+2
    BY <1>4 DEF LexInv
  <2>2. Len(buffer) = Len(s) + 1 /\ Len(s) \in Nat
    BY <2>1, BufferOf DEF IsText
  <2> QED
    BY <1>3, <2>1, <2>2
<1>6. PICK from : from = startPos
  OBVIOUS
<1>7. IsText(s) /\ buffer = Append(s, L!NUL) /\ Scanning(s, "number", toks, err, p, from)
  BY <1>1, <1>2, <1>3, <1>4, <1>5, <1>6 DEF LexInv
<1>8. p <= Len(s) => s[p] \notin L!Numeric
  <2>1. s \in Seq(STRING)
    BY <1>7 DEF IsText
  <2>2. p <= Len(s) => p \in 1..Len(s) /\ buffer[p] = s[p]
    BY <1>7, <2>1, BufferOf
  <2> QED
    BY <1>3, <1>5, <2>2 DEF L!Char
<1>9. from \in 1..Len(s) /\ p - 1 \in from..Len(s) /\ SubSeq(s, from, p - 1) \in Seq(STRING)
  BY <1>7, <1>8, ScanEndNumber
<1>10. L!Literal = SubSeq(s, from, p - 1)
  BY <1>5, <1>6, <1>7, <1>9, SameLiteral DEF L!Literal
<1>11. \A k \in from..p-1 : s[k] \in L!Numeric
  BY <1>7 DEF Scanning
<1>12. s \in Seq(STRING) /\ Len(s) \in Nat
  BY <1>7 DEF IsText
<1>13. PICK n \in Nat : n = p - 1 /\ n \in from..Len(s)
  BY <1>9, <1>12
<1>14. AllNumeric(SubSeq(s, from, n))
  <2>1. PICK w : w = SubSeq(s, from, n)
    OBVIOUS
  <2>2. Len(w) = n - from + 1 /\ \A k \in 1..n-from+1 : w[k] = s[k + from - 1]
    BY <1>9, <1>12, <1>13, <2>1, SubSeqProperties
  <2>3. ASSUME NEW k \in 1..Len(w) PROVE w[k] \in L!Numeric
    <3>1. k \in 1..n-from+1 /\ k + from - 1 \in from..p-1
      BY <1>9, <1>13, <2>2
    <3> QED
      BY <1>11, <2>2, <3>1
  <2> QED
    BY <2>1, <2>3 DEF AllNumeric
<1> QED
  BY <1>9, <1>10, <1>13, <1>14

\* A step pushes one token at most, and a number's literal has digits only.
LEMMA LexPushes ==
  ASSUME LexInv, L!Next
  PROVE  \/ tokenArray' = tokenArray
         \/ \E t \in LexToken : /\ tokenArray' = Append(tokenArray, t)
                                /\ t.type = "INTEGER_LITERAL" => AllNumeric(t.literal)
<1>1. CASE L!SkipSpace \/ L!StartComment \/ L!SkipComment \/ L!StartLiteral \/ L!ReadOn \/ L!ReadPastEnd
  BY <1>1 DEF L!SkipSpace, L!StartComment, L!SkipComment, L!StartLiteral, L!ReadOn, L!ReadPastEnd
<1>2. CASE L!ScanEOF \/ L!ScanInvalid
  <2>1. PICK ty \in {"EOF", "INVALID"} : tokenArray' = Append(tokenArray, L!Token(ty, L!NoLiteral))
    BY <1>2 DEF L!ScanEOF, L!ScanInvalid, L!Scanned, L!Push
  <2>2. PICK t \in LexToken : t = L!Token(ty, L!NoLiteral) /\ t.type = ty
    BY TokenIsOne, KeywordTokens, NoLiteralIsOne
  <2> QED
    BY <2>1, <2>2
<1>3. CASE L!ScanPair \/ L!ScanSymbol
  <2>1. PICK ty : /\ tokenArray' = Append(tokenArray, L!Token(ty, L!NoLiteral))
                  /\ ty \in L!TokenType /\ ty # "INTEGER_LITERAL"
    <3>1. CASE L!ScanPair
      <4>1. PICK q \in L!Pair : L!Scanned(q[3], L!NoLiteral)
        BY <3>1 DEF L!ScanPair
      <4> QED
        BY <4>1, SymbolTokens DEF L!Scanned, L!Push
    <3>2. CASE L!ScanSymbol
      <4>1. PICK y \in L!Symbol : L!Scanned(y[2], L!NoLiteral)
        BY <3>2 DEF L!ScanSymbol
      <4> QED
        BY <4>1, SymbolTokens DEF L!Scanned, L!Push
    <3> QED
      BY <1>3, <3>1, <3>2
  <2>2. PICK t \in LexToken : t = L!Token(ty, L!NoLiteral) /\ t.type = ty
    BY <2>1, TokenIsOne, NoLiteralIsOne
  <2> QED
    BY <2>1, <2>2
<1>4. CASE L!EndNumber
  <2>1. L!Literal \in Seq(STRING) /\ AllNumeric(L!Literal)
    BY <1>4, LiteralIsNumeric
  <2>2. PICK t \in LexToken : t = L!Token("INTEGER_LITERAL", L!Literal) /\ t.literal = L!Literal
    BY <2>1, TokenIsOne, KeywordTokens
  <2>3. tokenArray' = Append(tokenArray, t)
    BY <1>4, <2>2 DEF L!EndNumber, L!Scanned, L!Push
  <2> QED
    BY <2>1, <2>2, <2>3
<1>5. CASE L!EndWord
  <2>1. PICK t : t = IF L!keyword_to_tokentype(L!Literal) = "INVALID" THEN L!Token("IDENTIFIER", L!Literal)
                     ELSE L!Token(L!keyword_to_tokentype(L!Literal), L!NoLiteral)
    OBVIOUS
  <2>2. tokenArray' = Append(tokenArray, t)
    BY <1>5, <2>1 DEF L!EndWord, L!Scanned, L!Push
  <2>3. PICK toks \in Seq(LexToken) : toks = tokenArray
    BY DEF LexInv
  <2>4. t \in LexToken
    <3>1. Append(toks, t) \in Seq(LexToken)
      BY <2>2, <2>3, LexStepInv DEF LexInv
    <3>2. Append(toks, t)[Len(toks) + 1] = t /\ Len(toks) + 1 \in 1..Len(Append(toks, t))
      BY AppendAny
    <3> QED
      BY <3>1, <3>2
  <2>5. t.type \in {"IDENTIFIER", "INT", "VOID", "RETURN"}
    BY <2>1, KeywordTypes DEF L!Token
  <2> QED
    BY <2>2, <2>4, <2>5
<1> QED
  BY <1>1, <1>2, <1>3, <1>4, <1>5 DEF L!Next

\* So all the numbers' literals do.
LEMMA LexStepNumbers ==
  ASSUME LexInv, NumbersAreNumeric(tokenArray), L!Next
  PROVE  NumbersAreNumeric(tokenArray')
<1>1. PICK toks \in Seq(LexToken) : toks = tokenArray
  BY DEF LexInv
<1>2. CASE tokenArray' = tokenArray
  BY <1>2
<1>3. CASE \E t \in LexToken : /\ tokenArray' = Append(tokenArray, t)
                               /\ t.type = "INTEGER_LITERAL" => AllNumeric(t.literal)
  <2>1. PICK t \in LexToken : /\ tokenArray' = Append(toks, t)
                              /\ t.type = "INTEGER_LITERAL" => AllNumeric(t.literal)
    BY <1>1, <1>3
  <2>2. PICK more : more = Append(toks, t)
    OBVIOUS
  <2>3. Len(more) = Len(toks) + 1 /\ Len(toks) \in Nat /\ more[Len(toks) + 1] = t /\ \A k \in 1..Len(toks) : more[k] = toks[k]
    BY <2>2
  <2>4. ASSUME NEW k \in 1..Len(more), more[k].type = "INTEGER_LITERAL" PROVE AllNumeric(more[k].literal)
    <3>1. k \in 1..Len(toks) \/ k = Len(toks) + 1
      BY <2>3
    <3> QED
      BY <1>1, <2>1, <2>3, <2>4, <3>1 DEF NumbersAreNumeric
  <2> QED
    BY <2>1, <2>2, <2>4 DEF NumbersAreNumeric
<1> QED
  BY <1>2, <1>3, LexPushes

-----------------------------------------------------------------------------
(* The parser *)

\* Sequences, joined.
LEMMA Concatenation ==
  ASSUME NEW SS, NEW s \in Seq(SS), NEW t \in Seq(SS)
  PROVE  s \o t \in Seq(SS) /\ Len(s \o t) = Len(s) + Len(t)
OBVIOUS

\* Their elements, one by one.
LEMMA ConcatenationElements ==
  ASSUME NEW SS, NEW s \in Seq(SS), NEW t \in Seq(SS)
  PROVE  \A k \in 1..Len(s)+Len(t) :
           (s \o t)[k] = IF k <= Len(s) THEN s[k] ELSE t[k - Len(s)]
OBVIOUS

(* The calls *)

FunctionStops   == {"function", "items", "item"}
ItemStops       == {"declaration", "declared", "initializer", "statement", "returned", "expression statement"}
ExpressionStops == {"expression", "left", "operator", "assigned", "right"}
FactorStops     == {"factor", "inner", "parens"}
AwaitsExpression == {"initializer", "returned", "expression statement", "assigned", "right", "parens"}
AwaitsFactor     == {"left", "inner"}
Awaits           == {"item"} \cup AwaitsExpression \cup AwaitsFactor
KeepsLeft        == {"operator", "assigned", "right"}

\* The stop b is one of a function that is called at the stop a.
Calls(a, b) == \/ a = "item" /\ b \in ItemStops
               \/ a \in AwaitsExpression /\ b \in ExpressionStops
               \/ a \in AwaitsFactor /\ b \in FactorStops
SameFunction(a, b) == \/ a \in FunctionStops /\ b \in FunctionStops
                      \/ a \in ItemStops /\ b \in ItemStops
                      \/ a \in ExpressionStops /\ b \in ExpressionStops
                      \/ a \in FactorStops /\ b \in FactorStops

Frames == [at : P!Stops, min : 0..51, left : Nat, op : P!TokenType, name : Seq(STRING)]
NodeTypes == {"INT_LITERAL", "UNARY", "BINARY", "VARIABLE", "ASSIGNMENT", "DECLARATION", "STATEMENT"}
NodeOps   == P!UnaryOps \cup P!BinaryOps \cup {"", "RETURN", "NULL_EXPRESSION"}
Nodes  == [type : NodeTypes, op : NodeOps, name : Seq(STRING), value : Int, left : Nat, right : Nat]

FrameOK(f, n) ==
  /\ f.left \in 0..n
  /\ f.left # P!NULL => f.at \in KeepsLeft
  /\ f.at = "right" => f.op \in DOMAIN P!BinaryType
  /\ f.at = "inner" => f.op \in DOMAIN P!UnaryType

StackOK(F, n) ==
  /\ \A k \in 1..Len(F) : FrameOK(F[k], n)
  /\ \A k \in 1..Len(F)-1 : Calls(F[k].at, F[k + 1].at)
  /\ Len(F) > 0 => F[1].at \in FunctionStops

-----------------------------------------------------------------------------
(* The places that hold a node: the body, the left operands of the calls,    *)
(* the answer that a call waits for, and the nodes' two children.            *)

Place == {"body", "frame", "ret", "left", "right"} \X Nat
Spot(p, k) == <<p, k>>
Item(s, k)    == IF k \in 1..Len(s) THEN s[k] ELSE P!NULL
LeftOf(s, k)  == IF k \in 1..Len(s) THEN s[k].left ELSE P!NULL
RightOf(s, k) == IF k \in 1..Len(s) THEN s[k].right ELSE P!NULL
Answer(r, k)  == IF k = 0 THEN r ELSE P!NULL
Held(A, BB, F, r) ==
  [x \in Place |->
     CASE x[1] = "body"  -> Item(BB, x[2])
       [] x[1] = "frame" -> LeftOf(F, x[2])
       [] x[1] = "ret"   -> Answer(r, x[2])
       [] x[1] = "left"  -> LeftOf(A, x[2])
       [] x[1] = "right" -> RightOf(A, x[2])]

\* No two places hold one node; every node up to n has a place.
Apart(q)    == \A x, y \in Place : q[x] = q[y] /\ q[x] # P!NULL => x = y
Whole(q, n) == \A k \in 1..n : \E x \in Place : q[x] = k

IsExpression(a) == a.type \notin {"DECLARATION", "STATEMENT"}
LiveRet(F, r)   == IF Len(F) > 0 /\ F[Len(F)].at \in Awaits THEN r ELSE P!NULL

Forest(A, BB, F, r) ==
  /\ A \in Seq(Nodes) /\ BB \in Seq(Nat) /\ F \in Seq(Frames)
  /\ \A n \in 1..Len(A) : A[n].left \in 0..n-1 /\ A[n].right \in 0..n-1
  /\ \A k \in 1..Len(BB) : BB[k] \in 1..Len(A)
  /\ r \in 0..Len(A)
  /\ StackOK(F, Len(A))
  /\ Apart(Held(A, BB, F, LiveRet(F, r)))

KidsAre(A, n) == \A c \in P!Kids(A[n]) : IsExpression(A[c])
Clean(A, BB, F, r) ==
  /\ Whole(Held(A, BB, F, LiveRet(F, r)), Len(A))
  /\ \A n \in 1..Len(A) : P!IsNode(A[n]) /\ KidsAre(A, n)
  /\ \A k \in 1..Len(F) : F[k].at \in KeepsLeft => F[k].left # P!NULL /\ IsExpression(A[F[k].left])
  /\ (Len(F) > 0 /\ F[Len(F)].at \in Awaits) => r # P!NULL /\ (F[Len(F)].at # "item" => IsExpression(A[r]))

-----------------------------------------------------------------------------

\* What each place holds.
LEMMA HeldAt ==
  ASSUME NEW A, NEW BB, NEW F, NEW r, NEW k \in Nat
  PROVE  /\ Held(A, BB, F, r)[Spot("body", k)]  = Item(BB, k)
         /\ Held(A, BB, F, r)[Spot("frame", k)] = LeftOf(F, k)
         /\ Held(A, BB, F, r)[Spot("ret", k)]   = Answer(r, k)
         /\ Held(A, BB, F, r)[Spot("left", k)]  = LeftOf(A, k)
         /\ Held(A, BB, F, r)[Spot("right", k)] = RightOf(A, k)
BY DEF Held, Place, Spot

\* Every place is one of those.
LEMMA Places ==
  ASSUME NEW x \in Place
  PROVE  \E k \in Nat : \/ x = Spot("body", k) \/ x = Spot("frame", k) \/ x = Spot("ret", k)
                        \/ x = Spot("left", k) \/ x = Spot("right", k)
BY DEF Place, Spot

\* Two places differ in their kind or their number.
LEMMA SpotsApart ==
  ASSUME NEW k \in Nat, NEW l \in Nat, NEW p, NEW o
  PROVE  Spot(p, k) = Spot(o, l) <=> p = o /\ k = l
BY DEF Spot

\* Each of them is a place.
LEMMA SpotIsPlace ==
  ASSUME NEW p \in {"body", "frame", "ret", "left", "right"}, NEW k \in Nat
  PROVE  Spot(p, k) \in Place
BY DEF Spot, Place

\* One node is new and at z, f is it; two others move from s1 and s2 to d1 and d2.
Moved(q, m, z, f, s1, d1, s2, d2) ==
  \A x \in Place :
    m[x] = IF x = z THEN f ELSE IF x = d1 THEN q[s1] ELSE IF x = d2 THEN q[s2]
           ELSE IF x = s1 \/ x = s2 THEN P!NULL ELSE q[x]

\* After such a move no two places hold one node.
LEMMA MovedApart ==
  ASSUME NEW q, NEW m, NEW z \in Place, NEW f, NEW s1 \in Place, NEW d1 \in Place, NEW s2 \in Place, NEW d2 \in Place,
         s1 # s2, f = P!NULL \/ \A x \in Place : q[x] # f,
         Moved(q, m, z, f, s1, d1, s2, d2), Apart(q)
  PROVE  Apart(m)
<1> SUFFICES ASSUME NEW x \in Place, NEW y \in Place, m[x] = m[y], m[x] # P!NULL PROVE x = y
  BY DEF Apart
<1> DEFINE o(u) == IF u = d1 THEN s1 ELSE IF u = d2 THEN s2 ELSE u
<1>1. ASSUME NEW u \in Place, m[u] # P!NULL PROVE (u = z /\ m[u] = f) \/ (u # z /\ m[u] = q[o(u)] /\ o(u) \in Place)
  BY <1>1 DEF Moved
<1>2. ASSUME NEW u \in Place, NEW v \in Place, m[u] # P!NULL, m[v] # P!NULL, u # z, v # z, o(u) = o(v) PROVE u = v
  BY <1>2 DEF Moved
<1>3. CASE x # z /\ y # z
  <2>1. m[x] = q[o(x)] /\ m[y] = q[o(y)] /\ o(x) \in Place /\ o(y) \in Place
    BY <1>1, <1>3
  <2>2. o(x) = o(y)
    BY <2>1 DEF Apart
  <2> QED
    BY <1>2, <1>3, <2>2
<1>4. CASE x = z \/ y = z
  <2> HIDE DEF o
  <2> QED
    BY <1>1, <1>4
<1> QED
  BY <1>3, <1>4

\* After such a move every node still has a place, and the new one has.
LEMMA MovedWhole ==
  ASSUME NEW q, NEW m, NEW z \in Place, NEW f, NEW s1 \in Place, NEW d1 \in Place, NEW s2 \in Place, NEW d2 \in Place,
         z # d1, z # d2, d1 # d2,
         z \notin {s1, s2} => q[z] = P!NULL,
         d1 # s1 => q[d1] = P!NULL, d2 # s2 => q[d2] = P!NULL,
         d1 # s2, d2 # s1,
         Moved(q, m, z, f, s1, d1, s2, d2), NEW n \in Nat, Whole(q, n)
  PROVE  Whole(m, n) /\ (f = n + 1 => Whole(m, n + 1))
<1>1. ASSUME NEW k \in 1..n PROVE \E x \in Place : m[x] = k
  <2>1. PICK x \in Place : q[x] = k
    BY DEF Whole
  <2>0. k # P!NULL
    BY DEF P!NULL
  <2>2. CASE x = s1
    BY <2>1, <2>2 DEF Moved
  <2>3. CASE x = s2
    BY <2>1, <2>3 DEF Moved
  <2>4. CASE x # s1 /\ x # s2
    <3>1. x # z /\ x # d1 /\ x # d2
      BY <2>0, <2>1, <2>4
    <3> QED
      BY <2>1, <2>4, <3>1 DEF Moved
  <2> QED
    BY <2>2, <2>3, <2>4
<1>2. m[z] = f
  BY DEF Moved
<1> QED
  BY <1>1, <1>2 DEF Whole

Replaced(F, f)   == Append(SubSeq(F, 1, Len(F) - 1), f)
Called(F, f, g)  == SubSeq(F, 1, Len(F) - 1) \o <<f, g>>
Returned(F)      == SubSeq(F, 1, Len(F) - 1)

\* Lengths are numbers.
LEMMA LenNat ==
  ASSUME NEW SS, NEW s \in Seq(SS)
  PROVE  Len(s) \in Nat
OBVIOUS

\* A sequence that is not empty has a last element.
LEMMA Shorter ==
  ASSUME NEW SS, NEW s \in Seq(SS), Len(s) > 0
  PROVE  \E n \in Nat : Len(s) = n + 1 /\ Len(s) - 1 = n
<1>1. PICK l \in Nat : l = Len(s)
  BY LenNat
<1>2. l - 1 \in Nat /\ l = l - 1 + 1
  BY <1>1
<1> QED
  BY <1>1, <1>2

FirstOf(s, n) == SubSeq(s, 1, n)

\* A sequence without its last element.
LEMMA Shortened ==
  ASSUME NEW SS, NEW s \in Seq(SS), NEW n \in Nat, Len(s) = n + 1
  PROVE  /\ FirstOf(s, n) \in Seq(SS) /\ Len(FirstOf(s, n)) = n
         /\ \A k \in 1..n : FirstOf(s, n)[k] = s[k]
<1> DEFINE u == SubSeq(s, 1, n)
<1>3. ASSUME NEW k \in 1..n PROVE s[k] \in SS
  <2>1. k \in 1..Len(s)
    OBVIOUS
  <2> QED
    BY <2>1
<1>4. /\ u \in Seq(SS) /\ Len(u) = IF 1 <= n THEN n - 1 + 1 ELSE 0
      /\ \A k \in 1..n-1+1 : u[k] = s[1 + k - 1]
  BY <1>3, SubSeqProperties
<1> HIDE DEF u
<1>5. Len(u) = n /\ \A k \in 1..n : u[k] = s[k]
  BY <1>4
<1> QED
  BY <1>4, <1>5 DEF u, FirstOf

\* G is F with its top replaced; with a call on top of it; without its top.
IsReplaced(F, f, GG) ==
  /\ GG \in Seq(Frames) /\ Len(GG) = Len(F)
  /\ \A k \in 1..Len(F) : GG[k] = IF k = Len(F) THEN f ELSE F[k]
IsCalled(F, f, g, GG) ==
  /\ GG \in Seq(Frames) /\ Len(GG) = Len(F) + 1
  /\ \A k \in 1..Len(F)+1 : GG[k] = IF k = Len(F) THEN f ELSE IF k = Len(F) + 1 THEN g ELSE F[k]
IsReturned(F, GG) ==
  /\ GG \in Seq(Frames) /\ Len(GG) = Len(F) - 1
  /\ \A k \in 1..Len(F)-1 : GG[k] = F[k]

\* The stack after the call on top has gone on.
LEMMA ShapeReplaced ==
  ASSUME NEW F \in Seq(Frames), Len(F) > 0, NEW f \in Frames
  PROVE  IsReplaced(F, f, Replaced(F, f))
<1>1. PICK n \in Nat : Len(F) = n + 1 /\ Len(F) - 1 = n
  BY Shorter
<1> DEFINE u == FirstOf(F, n)
<1>2. u \in Seq(Frames) /\ Len(u) = n /\ \A k \in 1..n : u[k] = F[k]
  BY <1>1, Shortened
<1>3. Replaced(F, f) = Append(u, f)
  BY <1>1 DEF Replaced, FirstOf
<1> HIDE DEF u
<1>4. /\ Append(u, f) \in Seq(Frames) /\ Len(Append(u, f)) = n + 1
      /\ \A k \in 1..n+1 : Append(u, f)[k] = IF k = n + 1 THEN f ELSE u[k]
  BY <1>2
<1> QED
  BY <1>1, <1>2, <1>3, <1>4 DEF IsReplaced

\* The stack after the call on top has made another.
LEMMA ShapeCalled ==
  ASSUME NEW F \in Seq(Frames), Len(F) > 0, NEW f \in Frames, NEW g \in Frames
  PROVE  IsCalled(F, f, g, Called(F, f, g))
<1>1. PICK n \in Nat : Len(F) = n + 1 /\ Len(F) - 1 = n
  BY Shorter
<1> DEFINE u == FirstOf(F, n)
           s == <<f, g>>
<1>2. u \in Seq(Frames) /\ Len(u) = n /\ \A k \in 1..n : u[k] = F[k]
  BY <1>1, Shortened
<1>3. s \in Seq(Frames) /\ Len(s) = 2 /\ s[1] = f /\ s[2] = g
  OBVIOUS
<1>5. Called(F, f, g) = u \o s
  BY <1>1 DEF Called, FirstOf
<1> HIDE DEF s, u
<1>4. /\ u \o s \in Seq(Frames) /\ Len(u \o s) = n + 2
      /\ \A k \in 1..n+2 : (u \o s)[k] = IF k <= n THEN u[k] ELSE s[k - n]
  <2>1. u \o s \in Seq(Frames) /\ Len(u \o s) = Len(u) + Len(s)
    BY <1>2, <1>3, Concatenation
  <2>2. \A k \in 1..Len(u)+Len(s) : (u \o s)[k] = IF k <= Len(u) THEN u[k] ELSE s[k - Len(u)]
    BY <1>2, <1>3, ConcatenationElements
  <2> QED
    BY <2>1, <2>2, <1>2, <1>3
<1>6. ASSUME NEW k \in 1..n+2
      PROVE  (u \o s)[k] = IF k = n + 1 THEN f ELSE IF k = n + 2 THEN g ELSE F[k]
  BY <1>2, <1>3, <1>4
<1>7. n + 2 = n + 1 + 1
  OBVIOUS
<1> QED
  BY <1>1, <1>4, <1>5, <1>6, <1>7 DEF IsCalled

\* The stack after the call on top has returned.
LEMMA ShapeReturned ==
  ASSUME NEW F \in Seq(Frames), Len(F) > 0
  PROVE  IsReturned(F, Returned(F))
<1>1. PICK n \in Nat : Len(F) = n + 1 /\ Len(F) - 1 = n
  BY Shorter
<1> DEFINE u == FirstOf(F, n)
<1>2. u \in Seq(Frames) /\ Len(u) = n /\ \A k \in 1..n : u[k] = F[k]
  BY <1>1, Shortened
<1>3. Returned(F) = u
  BY <1>1 DEF Returned, FirstOf
<1> HIDE DEF u
<1> QED
  BY <1>1, <1>2, <1>3 DEF IsReturned

\* A call stays right when the tree grows.
LEMMA FrameGrows ==
  ASSUME NEW f \in Frames, NEW n \in Nat, NEW m \in Nat, n <= m, FrameOK(f, n)
  PROVE  FrameOK(f, m)
BY DEF FrameOK, Frames

\* A stop of a function can be called from where another of its stops can.
LEMMA SameCalls ==
  ASSUME NEW a, NEW b, NEW c, Calls(a, b), SameFunction(b, c)
  PROVE  Calls(a, c)
BY DEF Calls, SameFunction, FunctionStops, ItemStops, ExpressionStops, FactorStops

\* The call on top goes on.
LEMMA StackBecome ==
  ASSUME NEW F \in Seq(Frames), Len(F) > 0, NEW f \in Frames, NEW n \in Nat, NEW m \in Nat, n <= m,
         StackOK(F, n), FrameOK(f, m), SameFunction(F[Len(F)].at, f.at)
  PROVE  StackOK(Replaced(F, f), m)
<1> DEFINE GG == Replaced(F, f)
<1>1. Len(GG) = Len(F) /\ \A k \in 1..Len(F) : GG[k] = IF k = Len(F) THEN f ELSE F[k]
  BY ShapeReplaced DEF IsReplaced
<1>2. ASSUME NEW k \in 1..Len(F) PROVE F[k] \in Frames /\ FrameOK(F[k], m)
  BY FrameGrows DEF StackOK
<1>3. \A k \in 1..Len(GG) : FrameOK(GG[k], m)
  BY <1>1, <1>2
<1> HIDE DEF GG
<1>4. ASSUME NEW k \in 1..Len(GG)-1 PROVE Calls(GG[k].at, GG[k + 1].at)
  <2>1. k \in 1..Len(F)-1 /\ k \in 1..Len(F) /\ k + 1 \in 1..Len(F) /\ k # Len(F)
    BY <1>1
  <2>2. Calls(F[k].at, F[k + 1].at)
    BY <2>1 DEF StackOK
  <2>3. CASE k + 1 = Len(F)
    <3>1. GG[k] = F[k] /\ GG[k + 1] = f
      BY <1>1, <2>1, <2>3
    <3> QED
      BY <2>2, <2>3, <3>1, SameCalls
  <2>4. CASE k + 1 # Len(F)
    <3>1. GG[k] = F[k] /\ GG[k + 1] = F[k + 1]
      BY <1>1, <2>1, <2>4
    <3> QED
      BY <2>2, <3>1
  <2> QED
    BY <2>3, <2>4
<1>5. GG[1].at \in FunctionStops
  <2>1. F[1].at \in FunctionStops
    BY DEF StackOK
  <2>2. CASE Len(F) = 1
    <3>1. F[Len(F)].at \in FunctionStops /\ GG[1] = f
      BY <1>1, <2>1, <2>2
    <3> QED
      BY <3>1 DEF SameFunction, FunctionStops, ItemStops, ExpressionStops, FactorStops
  <2>3. CASE Len(F) # 1
    BY <1>1, <2>1, <2>3
  <2> QED
    BY <2>2, <2>3
<1> QED
  BY <1>3, <1>4, <1>5 DEF StackOK, GG

\* The call on top makes another.
LEMMA StackCall ==
  ASSUME NEW F \in Seq(Frames), Len(F) > 0, NEW f \in Frames, NEW g \in Frames, NEW n \in Nat,
         StackOK(F, n), FrameOK(f, n), FrameOK(g, n), SameFunction(F[Len(F)].at, f.at), Calls(f.at, g.at)
  PROVE  StackOK(Called(F, f, g), n)
<1> DEFINE H == Replaced(F, f)
           GG == Called(F, f, g)
<1>1. Len(H) = Len(F) /\ \A k \in 1..Len(F) : H[k] = IF k = Len(F) THEN f ELSE F[k]
  BY ShapeReplaced DEF IsReplaced
<1>2. StackOK(H, n)
  BY StackBecome
<1>3. /\ Len(GG) = Len(F) + 1
      /\ \A k \in 1..Len(F)+1 : GG[k] = IF k = Len(F) THEN f ELSE IF k = Len(F) + 1 THEN g ELSE F[k]
  BY ShapeCalled DEF IsCalled
<1> HIDE DEF GG, H
<1>4. \A k \in 1..Len(F) : GG[k] = H[k]
  BY <1>1, <1>3
<1>5. GG[Len(F) + 1] = g /\ GG[Len(F)] = f /\ Len(F) \in Nat
  BY <1>3
<1>6. ASSUME NEW k \in 1..Len(GG) PROVE FrameOK(GG[k], n)
  BY <1>1, <1>2, <1>3, <1>4, <1>5, <1>6 DEF StackOK
<1>7. ASSUME NEW k \in 1..Len(GG)-1 PROVE Calls(GG[k].at, GG[k + 1].at)
  <2>1. CASE k = Len(F)
    BY <1>5, <2>1
  <2>2. CASE k # Len(F)
    <3>1. k \in 1..Len(H)-1 /\ k \in 1..Len(F) /\ k + 1 \in 1..Len(F)
      BY <1>1, <1>3, <2>2
    <3> QED
      BY <1>2, <1>4, <3>1 DEF StackOK
  <2> QED
    BY <2>1, <2>2
<1>8. GG[1].at \in FunctionStops
  BY <1>1, <1>2, <1>4 DEF StackOK
<1> QED
  BY <1>6, <1>7, <1>8 DEF StackOK, GG

\* The call on top returns to one that waits for its answer.
LEMMA StackReturn ==
  ASSUME NEW F \in Seq(Frames), Len(F) > 0, NEW n \in Nat, NEW m \in Nat, n <= m,
         StackOK(F, n), F[Len(F)].at \notin FunctionStops
  PROVE  /\ Len(F) - 1 \in 1..Len(F) /\ Len(F) > 1
         /\ Calls(F[Len(F) - 1].at, F[Len(F)].at)
         /\ F[Len(F) - 1].at \in Awaits
         /\ StackOK(Returned(F), m)
<1> DEFINE GG == Returned(F)
<1>0. PICK l \in Nat : l = Len(F)
  BY LenNat
<1>1. Len(F) # 1
  BY DEF StackOK
<1>2. Len(F) - 1 \in 1..Len(F) /\ Len(F) - 1 \in 1..Len(F)-1 /\ Len(F) > 1
  <2>1. l - 1 \in 1..l /\ l - 1 \in 1..l-1 /\ l > 1
    BY <1>0, <1>1
  <2> QED
    BY <2>1, <1>0
<1>3. Calls(F[Len(F) - 1].at, F[Len(F) - 1 + 1].at)
  BY <1>2 DEF StackOK
<1>4. Calls(F[Len(F) - 1].at, F[Len(F)].at)
  BY <1>3
<1>5. F[Len(F) - 1].at \in Awaits
  BY <1>4 DEF Calls, Awaits
<1>6. Len(GG) = Len(F) - 1 /\ \A k \in 1..Len(F)-1 : GG[k] = F[k]
  BY ShapeReturned DEF IsReturned
<1> HIDE DEF GG
<1>7. ASSUME NEW k \in 1..Len(GG) PROVE FrameOK(GG[k], m)
  <2>1. k \in 1..Len(F) /\ F[k] \in Frames /\ GG[k] = F[k]
    BY <1>6, <1>7
  <2> QED
    BY <2>1, FrameGrows DEF StackOK
<1>8. ASSUME NEW k \in 1..Len(GG)-1 PROVE Calls(GG[k].at, GG[k + 1].at)
  <2>1. k \in 1..Len(F)-1 /\ k + 1 \in 1..Len(F)-1
    BY <1>6
  <2> QED
    BY <2>1, <1>6 DEF StackOK
<1>9. GG[1].at \in FunctionStops
  BY <1>2, <1>6 DEF StackOK
<1> QED
  BY <1>2, <1>4, <1>5, <1>7, <1>8, <1>9 DEF StackOK, GG

\* Nothing but a function's first stop is in the call that parse_program makes.
LEMMA StackAlone ==
  ASSUME NEW F \in Seq(Frames), Len(F) > 0, NEW n, StackOK(F, n), F[Len(F)].at \in FunctionStops
  PROVE  Len(F) = 1
<1> SUFFICES ASSUME Len(F) # 1 PROVE FALSE
  OBVIOUS
<1>1. Len(F) - 1 \in 1..Len(F)-1
  <2>1. PICK l \in Nat : l = Len(F)
    BY LenNat
  <2>2. l - 1 \in 1..l-1
    BY <2>1
  <2> QED
    BY <2>1, <2>2
<1>2. Calls(F[Len(F) - 1].at, F[Len(F) - 1 + 1].at)
  BY <1>1 DEF StackOK
<1>3. Calls(F[Len(F) - 1].at, F[Len(F)].at)
  BY <1>2
<1> QED
  BY <1>3 DEF Calls, FunctionStops, ItemStops, ExpressionStops, FactorStops

Same2(q, m) == \A x \in Place : m[x] = q[x]

\* The same places hold the same nodes.
LEMMA SameApart ==
  ASSUME NEW q, NEW m, Same2(q, m)
  PROVE  /\ Apart(q) => Apart(m)
         /\ \A n : Whole(q, n) => Whole(m, n)
BY DEF Same2, Apart, Whole

\* A place that lets go of its node takes it from no other.
LEMMA LessApart ==
  ASSUME NEW q, NEW m, \A x \in Place : m[x] = q[x] \/ m[x] = P!NULL, Apart(q)
  PROVE  Apart(m)
BY DEF Apart

\* Stacks that keep the same left operands hold the same nodes.
LEMMA SameHeld ==
  ASSUME NEW A, NEW BB, NEW F, NEW GG, NEW r, \A k \in Nat : LeftOf(GG, k) = LeftOf(F, k)
  PROVE  Same2(Held(A, BB, F, r), Held(A, BB, GG, r))
<1> DEFINE q == Held(A, BB, F, r)
           m == Held(A, BB, GG, r)
<1> SUFFICES ASSUME NEW x \in Place PROVE m[x] = q[x]
  BY DEF Same2
<1>1. PICK k \in Nat : \/ x = Spot("body", k) \/ x = Spot("frame", k) \/ x = Spot("ret", k)
                       \/ x = Spot("left", k) \/ x = Spot("right", k)
  BY Places
<1>2. /\ m[Spot("body", k)] = Item(BB, k) /\ m[Spot("left", k)] = LeftOf(A, k) /\ m[Spot("right", k)] = RightOf(A, k)
      /\ m[Spot("frame", k)] = LeftOf(GG, k) /\ m[Spot("ret", k)] = Answer(r, k)
  BY HeldAt
<1>3. /\ q[Spot("body", k)] = Item(BB, k) /\ q[Spot("left", k)] = LeftOf(A, k) /\ q[Spot("right", k)] = RightOf(A, k)
      /\ q[Spot("frame", k)] = LeftOf(F, k) /\ q[Spot("ret", k)] = Answer(r, k)
  BY HeldAt
<1> HIDE DEF q, m
<1> QED
  BY <1>1, <1>2, <1>3

\* A call.
LEMMA CallKeeps ==
  ASSUME NEW A, NEW BB, NEW F, NEW r, Forest(A, BB, F, r), Len(F) > 0,
         F[Len(F)].at \notin Awaits,
         NEW f \in Frames, NEW g \in Frames, FrameOK(f, Len(A)), SameFunction(F[Len(F)].at, f.at),
         f.left = F[Len(F)].left, f.at \in KeepsLeft => F[Len(F)].at \in KeepsLeft,
         Calls(f.at, g.at), g.left = P!NULL, g.at \notin Awaits, g.at \notin KeepsLeft, FrameOK(g, Len(A)),
         NEW GG, GG = Called(F, f, g)
  PROVE  /\ Forest(A, BB, GG, r)
         /\ Clean(A, BB, F, r) => Clean(A, BB, GG, r)
<1> DEFINE q == Held(A, BB, F, LiveRet(F, r))
           m == Held(A, BB, GG, LiveRet(GG, r))
<1>0. F \in Seq(Frames) /\ Len(A) \in Nat /\ StackOK(F, Len(A)) /\ Apart(q)
  BY LenNat DEF Forest
<1>1. PICK n \in Nat : n = Len(F)
  BY <1>0, LenNat
<1>2. /\ GG \in Seq(Frames) /\ Len(GG) = n + 1
      /\ \A k \in 1..n+1 : GG[k] = IF k = n THEN f ELSE IF k = n + 1 THEN g ELSE F[k]
  <2>1. IsCalled(F, f, g, GG)
    BY <1>0, ShapeCalled
  <2> QED
    BY <2>1, <1>1 DEF IsCalled
<1>3. n > 0 /\ n \in 1..n /\ n \in 1..n+1 /\ n + 1 \in 1..n+1 /\ n + 1 # n
  BY <1>1
<1>4. GG[n] = f /\ GG[n + 1] = g
  BY <1>2, <1>3
<1>5. LiveRet(F, r) = P!NULL /\ LiveRet(GG, r) = P!NULL
  BY <1>1, <1>2, <1>4 DEF LiveRet
<1>6. StackOK(GG, Len(A))
  BY <1>0, StackCall
<1>7. Same2(q, m)
  <2>1. ASSUME NEW k \in Nat
        PROVE  LeftOf(GG, k) = LeftOf(F, k)
    <3>1. CASE k = n
      BY <1>1, <1>2, <1>3, <1>4, <3>1 DEF LeftOf
    <3>2. CASE k = n + 1
      BY <1>1, <1>2, <1>3, <1>4, <3>2 DEF LeftOf
    <3>3. CASE k # n /\ k # n + 1
      <4>1. k \in 1..n+1 <=> k \in 1..n
        BY <3>3
      <4> QED
        BY <1>1, <1>2, <3>3, <4>1 DEF LeftOf
    <3> QED
      BY <3>1, <3>2, <3>3
  <2> QED
    BY <2>1, <1>5, SameHeld
<1>8. Forest(A, BB, GG, r)
  BY <1>0, <1>2, <1>6, <1>7, SameApart DEF Forest
<1>9. ASSUME Clean(A, BB, F, r) PROVE Clean(A, BB, GG, r)
  <2>1. Whole(m, Len(A))
    BY <1>7, <1>9, SameApart DEF Clean
  <2>2. ASSUME NEW k \in 1..Len(GG), GG[k].at \in KeepsLeft
        PROVE  GG[k].left # P!NULL /\ IsExpression(A[GG[k].left])
    <3>1. k # n + 1 /\ k \in 1..Len(F)
      BY <1>1, <1>2, <1>3, <1>4, <2>2
    <3>2. F[k].at \in KeepsLeft /\ F[k].left = GG[k].left
      BY <1>1, <1>2, <1>4, <2>2, <3>1
    <3> QED
      BY <1>9, <3>1, <3>2 DEF Clean
  <2>3. GG[Len(GG)].at \notin Awaits
    BY <1>2, <1>4
  <2> QED
    BY <1>9, <2>1, <2>2, <2>3 DEF Clean
<1> QED
  BY <1>8, <1>9

\* A step of one function.
LEMMA BecomeKeeps ==
  ASSUME NEW A, NEW BB, NEW F, NEW r, Forest(A, BB, F, r), Len(F) > 0,
         F[Len(F)].at \notin Awaits,
         NEW f \in Frames, FrameOK(f, Len(A)), SameFunction(F[Len(F)].at, f.at),
         f.left = F[Len(F)].left, f.at \notin KeepsLeft, f.at \notin Awaits,
         NEW GG, GG = Replaced(F, f)
  PROVE  /\ Forest(A, BB, GG, r)
         /\ Clean(A, BB, F, r) => Clean(A, BB, GG, r)
<1> DEFINE q == Held(A, BB, F, LiveRet(F, r))
           m == Held(A, BB, GG, LiveRet(GG, r))
<1>0. F \in Seq(Frames) /\ Len(A) \in Nat /\ StackOK(F, Len(A)) /\ Apart(q)
  BY LenNat DEF Forest
<1>1. PICK n \in Nat : n = Len(F)
  BY <1>0, LenNat
<1>2. GG \in Seq(Frames) /\ Len(GG) = n /\ \A k \in 1..n : GG[k] = IF k = n THEN f ELSE F[k]
  <2>1. IsReplaced(F, f, GG)
    BY <1>0, ShapeReplaced
  <2> QED
    BY <2>1, <1>1 DEF IsReplaced
<1>3. n > 0 /\ n \in 1..n
  BY <1>1
<1>4. GG[n] = f
  BY <1>2, <1>3
<1>5. LiveRet(F, r) = P!NULL /\ LiveRet(GG, r) = P!NULL
  BY <1>1, <1>2, <1>4 DEF LiveRet
<1>6. StackOK(GG, Len(A))
  BY <1>0, StackBecome
<1>7. Same2(q, m)
  <2>1. ASSUME NEW k \in Nat
        PROVE  LeftOf(GG, k) = LeftOf(F, k)
    <3>1. CASE k = n
      BY <1>1, <1>2, <1>3, <1>4, <3>1 DEF LeftOf
    <3>2. CASE k # n
      BY <1>1, <1>2, <3>2 DEF LeftOf
    <3> QED
      BY <3>1, <3>2
  <2> QED
    BY <2>1, <1>5, SameHeld
<1>8. Forest(A, BB, GG, r)
  BY <1>0, <1>2, <1>6, <1>7, SameApart DEF Forest
<1>9. ASSUME Clean(A, BB, F, r) PROVE Clean(A, BB, GG, r)
  <2>1. Whole(m, Len(A))
    BY <1>7, <1>9, SameApart DEF Clean
  <2>2. ASSUME NEW k \in 1..Len(GG), GG[k].at \in KeepsLeft
        PROVE  GG[k].left # P!NULL /\ IsExpression(A[GG[k].left])
    <3>1. k # n /\ k \in 1..Len(F) /\ GG[k] = F[k]
      BY <1>1, <1>2, <1>3, <1>4, <2>2
    <3> QED
      BY <1>9, <2>2, <3>1 DEF Clean
  <2>3. GG[Len(GG)].at \notin Awaits
    BY <1>2, <1>4
  <2> QED
    BY <1>9, <2>1, <2>2, <2>3 DEF Clean
<1> QED
  BY <1>8, <1>9

\* One node moves from s to d.
OneMoves(q, m, s, d) == \A x \in Place : m[x] = IF x = d THEN q[s] ELSE IF x = s THEN P!NULL ELSE q[x]

\* One node moves to a place that was empty.
LEMMA OneApart ==
  ASSUME NEW q, NEW m, NEW s \in Place, NEW d \in Place, s # d, OneMoves(q, m, s, d), q[d] = P!NULL
  PROVE  /\ Apart(q) => Apart(m)
         /\ \A n \in Nat : Whole(q, n) => Whole(m, n)
<1>1. ASSUME Apart(q) PROVE Apart(m)
  <2> SUFFICES ASSUME NEW x \in Place, NEW y \in Place, m[x] = m[y], m[x] # P!NULL PROVE x = y
    BY DEF Apart
  <2>1. ASSUME NEW u \in Place, m[u] # P!NULL PROVE u # s /\ (u = d => m[u] = q[s]) /\ (u # d => m[u] = q[u])
    BY <2>1 DEF OneMoves
  <2>2. x # s /\ (x = d => m[x] = q[s]) /\ (x # d => m[x] = q[x])
    BY <2>1
  <2>3. y # s /\ (y = d => m[y] = q[s]) /\ (y # d => m[y] = q[y])
    BY <2>1
  <2> QED
    BY <1>1, <2>2, <2>3 DEF Apart
<1>2. ASSUME NEW n \in Nat, Whole(q, n), NEW k \in 1..n PROVE \E x \in Place : m[x] = k
  <2>1. PICK x \in Place : q[x] = k
    BY <1>2 DEF Whole
  <2>2. k # P!NULL
    BY DEF P!NULL
  <2>3. x # d
    BY <2>1, <2>2
  <2>4. CASE x = s
    BY <2>1, <2>4 DEF OneMoves
  <2>5. CASE x # s
    BY <2>1, <2>3, <2>5 DEF OneMoves
  <2> QED
    BY <2>4, <2>5
<1> QED
  BY <1>1, <1>2 DEF Whole

\* Only a call that works on an operator keeps a left operand.
LEMMA NotAwaited ==
  ASSUME NEW f, NEW n, FrameOK(f, n), f.at \notin KeepsLeft
  PROVE  f.left = P!NULL
BY DEF FrameOK

\* A call that returns no new node.
LEMMA ReturnKeeps ==
  ASSUME NEW A, NEW BB, NEW F, NEW r, Forest(A, BB, F, r), Len(F) > 0,
         F[Len(F)].at \notin FunctionStops,
         NEW s, \/ s = P!NULL
                \/ s = r /\ F[Len(F)].at \in Awaits /\ F[Len(F)].at \notin KeepsLeft
                \/ s = F[Len(F)].left /\ F[Len(F)].at \notin Awaits,
         NEW GG, GG = Returned(F)
  PROVE  /\ Forest(A, BB, GG, s)
         /\ Clean(A, BB, F, r) /\ F[Len(F)].at \in Awaits \cup KeepsLeft /\ F[Len(F)].at # "item" /\ s # P!NULL => Clean(A, BB, GG, s)
<1> DEFINE q == Held(A, BB, F, LiveRet(F, r))
           m == Held(A, BB, GG, LiveRet(GG, s))
<1>0. F \in Seq(Frames) /\ Len(A) \in Nat /\ StackOK(F, Len(A)) /\ Apart(q) /\ r \in 0..Len(A)
  BY LenNat DEF Forest
<1>1. PICK n \in Nat : Len(F) = n + 1
  BY <1>0, Shorter
<1>2. GG \in Seq(Frames) /\ Len(GG) = n /\ \A k \in 1..n : GG[k] = F[k]
  <2>1. IsReturned(F, GG)
    BY <1>0, ShapeReturned
  <2>2. Len(F) - 1 = n
    BY <1>1
  <2> QED
    BY <2>1, <2>2 DEF IsReturned
<1>3. Len(F) - 1 = n
  BY <1>1
<1>4. n \in 1..Len(F) /\ Len(F) > 1 /\ F[n].at \in Awaits /\ StackOK(GG, Len(A))
  BY <1>0, <1>3, StackReturn
<1>5. n \in 1..n /\ n + 1 \in 1..n+1 /\ n + 1 # n /\ n > 0
  BY <1>1, <1>4
<1>6. LiveRet(GG, s) = s
  BY <1>2, <1>4, <1>5 DEF LiveRet
<1> DEFINE T == F[Len(F)]
<1>7. T \in Frames /\ FrameOK(T, Len(A))
  BY <1>0, <1>1, <1>5 DEF StackOK
<1>8. s \in 0..Len(A)
  BY <1>0, <1>7 DEF FrameOK, P!NULL
<1>9. \A k \in Nat : LeftOf(GG, k) = IF k = n + 1 THEN P!NULL ELSE LeftOf(F, k)
  <2> TAKE k \in Nat
  <2>1. CASE k = n + 1
    BY <1>2, <1>5, <2>1 DEF LeftOf
  <2>2. CASE k # n + 1
    BY <1>1, <1>2, <1>5, <2>2 DEF LeftOf
  <2> QED
    BY <2>1, <2>2
<1>10. LeftOf(F, n + 1) = T.left
  BY <1>1, <1>5 DEF LeftOf
<1>11. Apart(m) /\ (s # P!NULL => \A a \in Nat : Whole(q, a) => Whole(m, a))
  <2>1. ASSUME NEW k \in Nat
        PROVE  /\ m[Spot("body", k)] = Item(BB, k) /\ m[Spot("left", k)] = LeftOf(A, k) /\ m[Spot("right", k)] = RightOf(A, k)
               /\ m[Spot("frame", k)] = LeftOf(GG, k) /\ m[Spot("ret", k)] = Answer(LiveRet(GG, s), k)
    BY HeldAt
  <2>2. ASSUME NEW k \in Nat
        PROVE  /\ q[Spot("body", k)] = Item(BB, k) /\ q[Spot("left", k)] = LeftOf(A, k) /\ q[Spot("right", k)] = RightOf(A, k)
               /\ q[Spot("frame", k)] = LeftOf(F, k) /\ q[Spot("ret", k)] = Answer(LiveRet(F, r), k)
    BY HeldAt
  <2>9. m[Spot("ret", 0)] = s
    BY <2>1, <1>6 DEF Answer
  <2> HIDE DEF q, m
  <2>5. CASE s = r /\ T.at \in Awaits /\ T.at \notin KeepsLeft
    <3>1. Same2(q, m)
      <4> SUFFICES ASSUME NEW x \in Place PROVE m[x] = q[x]
        BY DEF Same2
      <4>1. PICK k \in Nat : \/ x = Spot("body", k) \/ x = Spot("frame", k) \/ x = Spot("ret", k)
                             \/ x = Spot("left", k) \/ x = Spot("right", k)
        BY Places
      <4>2. LeftOf(GG, k) = LeftOf(F, k)
        BY <1>7, <1>9, <1>10, <2>5, NotAwaited
      <4>3. Answer(LiveRet(GG, s), k) = Answer(LiveRet(F, r), k)
        BY <1>1, <1>6, <2>5 DEF Answer, LiveRet
      <4> QED
        BY <2>1, <2>2, <4>1, <4>2, <4>3
    <3> QED
      BY <1>0, <3>1, SameApart
  <2>3. CASE s = P!NULL
    <3>1. ASSUME NEW x \in Place PROVE m[x] = q[x] \/ m[x] = P!NULL
      <4>1. PICK k \in Nat : \/ x = Spot("body", k) \/ x = Spot("frame", k) \/ x = Spot("ret", k)
                             \/ x = Spot("left", k) \/ x = Spot("right", k)
        BY Places
      <4>2. LeftOf(GG, k) = LeftOf(F, k) \/ LeftOf(GG, k) = P!NULL
        BY <1>9
      <4>3. Answer(LiveRet(GG, s), k) = Answer(LiveRet(F, r), k) \/ Answer(LiveRet(GG, s), k) = P!NULL
        BY <1>6, <2>3 DEF Answer
      <4> QED
        BY <2>1, <2>2, <4>1, <4>2, <4>3
    <3> QED
      BY <1>0, <2>3, <3>1, LessApart
  <2>4. CASE s = T.left /\ T.at \notin Awaits
    <3> DEFINE sp == Spot("frame", n + 1)
               dp == Spot("ret", 0)
    <3>1. sp \in Place /\ dp \in Place /\ sp # dp
      BY SpotIsPlace, SpotsApart
    <3>2. q[dp] = P!NULL
      BY <2>2, <2>4 DEF Answer, LiveRet
    <3>3. q[sp] = s
      BY <2>2, <2>4, <1>10
    <3>4. OneMoves(q, m, sp, dp)
      <4> SUFFICES ASSUME NEW x \in Place PROVE m[x] = IF x = dp THEN q[sp] ELSE IF x = sp THEN P!NULL ELSE q[x]
        BY DEF OneMoves
      <4>1. PICK k \in Nat : \/ x = Spot("body", k) \/ x = Spot("frame", k) \/ x = Spot("ret", k)
                             \/ x = Spot("left", k) \/ x = Spot("right", k)
        BY Places
      <4>2. CASE x = dp
        BY <2>9, <3>3, <4>2
      <4>3. CASE x = sp
        <5>1. m[sp] = LeftOf(GG, n + 1)
          BY <2>1
        <5> QED
          BY <1>9, <3>1, <4>3, <5>1
      <4>4. CASE x # dp /\ x # sp
        <5>1. CASE x = Spot("frame", k)
          <6>1. k # n + 1
            BY <4>4, <5>1
          <6> QED
            BY <1>9, <2>1, <2>2, <4>4, <5>1, <6>1
        <5>2. CASE x = Spot("ret", k)
          <6>1. k # 0
            BY <4>4, <5>2
          <6> QED
            BY <2>1, <2>2, <4>4, <5>2, <6>1 DEF Answer
        <5> QED
          BY <2>1, <2>2, <4>1, <4>4, <5>1, <5>2
      <4> QED
        BY <4>2, <4>3, <4>4
    <3> QED
      BY <1>0, <3>1, <3>2, <3>4, OneApart
  <2> QED
    BY <2>3, <2>4, <2>5
<1>12. Forest(A, BB, GG, s)
  BY <1>0, <1>2, <1>4, <1>8, <1>11 DEF Forest
<1>13. ASSUME Clean(A, BB, F, r), T.at \in Awaits \cup KeepsLeft, T.at # "item", s # P!NULL
       PROVE  Clean(A, BB, GG, s)
  <2>1. Whole(m, Len(A))
    BY <1>0, <1>11, <1>13 DEF Clean
  <2>2. ASSUME NEW k \in 1..Len(GG), GG[k].at \in KeepsLeft
        PROVE  GG[k].left # P!NULL /\ IsExpression(A[GG[k].left])
    <3>1. k \in 1..Len(F) /\ GG[k] = F[k]
      BY <1>1, <1>2
    <3> QED
      BY <1>13, <2>2, <3>1 DEF Clean
  <2>3. IsExpression(A[s])
    <3>1. Len(F) \in 1..Len(F) /\ Len(F) > 0
      BY <1>1
    <3>2. CASE s = r /\ T.at \in Awaits
      BY <1>13, <3>1, <3>2 DEF Clean
    <3>3. CASE s = T.left /\ T.at \notin Awaits
      BY <1>13, <3>1, <3>3 DEF Clean
    <3> QED
      BY <1>13, <3>2, <3>3
  <2> QED
    BY <1>6, <1>13, <2>1, <2>2, <2>3 DEF Clean
<1> QED
  BY <1>12, <1>13

\* The left operand is kept.
LEMMA LeftKeeps ==
  ASSUME NEW A, NEW BB, NEW F, NEW r, Forest(A, BB, F, r), Len(F) > 0,
         F[Len(F)].at = "left",
         NEW f \in Frames, f.at = "operator", f.left = r,
         NEW GG, GG = Replaced(F, f)
  PROVE  /\ Forest(A, BB, GG, r)
         /\ Clean(A, BB, F, r) => Clean(A, BB, GG, r)
<1> DEFINE q == Held(A, BB, F, LiveRet(F, r))
           m == Held(A, BB, GG, LiveRet(GG, r))
           T == F[Len(F)]
<1>0. F \in Seq(Frames) /\ Len(A) \in Nat /\ StackOK(F, Len(A)) /\ Apart(q) /\ r \in 0..Len(A)
  BY LenNat DEF Forest
<1>1. PICK n \in Nat : n = Len(F)
  BY <1>0, LenNat
<1>2. GG \in Seq(Frames) /\ Len(GG) = n /\ \A k \in 1..n : GG[k] = IF k = n THEN f ELSE F[k]
  <2>1. IsReplaced(F, f, GG)
    BY <1>0, ShapeReplaced
  <2> QED
    BY <2>1, <1>1 DEF IsReplaced
<1>3. n > 0 /\ n \in 1..n
  BY <1>1
<1>4. GG[n] = f
  BY <1>2, <1>3
<1>5. LiveRet(F, r) = r /\ LiveRet(GG, r) = P!NULL
  BY <1>1, <1>2, <1>3, <1>4 DEF LiveRet, Awaits, AwaitsExpression, AwaitsFactor
<1>6. StackOK(GG, Len(A))
  <2>1. FrameOK(f, Len(A))
    BY <1>0 DEF FrameOK, KeepsLeft
  <2>2. SameFunction(F[Len(F)].at, f.at)
    BY DEF SameFunction, ExpressionStops
  <2> QED
    BY <2>1, <2>2, <1>0, StackBecome
<1>7. T.left = P!NULL
  <2>1. FrameOK(T, Len(A))
    BY <1>0, <1>1, <1>3 DEF StackOK
  <2> QED
    BY <2>1 DEF FrameOK, KeepsLeft
<1>8. \A k \in Nat : LeftOf(GG, k) = IF k = n THEN r ELSE LeftOf(F, k)
  BY <1>1, <1>2, <1>3, <1>4 DEF LeftOf
<1>9. LeftOf(F, n) = P!NULL
  BY <1>1, <1>3, <1>7 DEF LeftOf
<1> DEFINE dp == Spot("frame", n)
           sp == Spot("ret", 0)
<1>10. sp \in Place /\ dp \in Place /\ sp # dp
  BY SpotIsPlace, SpotsApart
<1>11. ASSUME NEW k \in Nat
       PROVE  /\ m[Spot("body", k)] = Item(BB, k) /\ m[Spot("left", k)] = LeftOf(A, k) /\ m[Spot("right", k)] = RightOf(A, k)
              /\ m[Spot("frame", k)] = LeftOf(GG, k) /\ m[Spot("ret", k)] = Answer(LiveRet(GG, r), k)
  BY HeldAt
<1>12. ASSUME NEW k \in Nat
       PROVE  /\ q[Spot("body", k)] = Item(BB, k) /\ q[Spot("left", k)] = LeftOf(A, k) /\ q[Spot("right", k)] = RightOf(A, k)
              /\ q[Spot("frame", k)] = LeftOf(F, k) /\ q[Spot("ret", k)] = Answer(LiveRet(F, r), k)
  BY HeldAt
<1> HIDE DEF q, m
<1>13. q[sp] = r /\ m[sp] = P!NULL /\ q[dp] = P!NULL /\ m[dp] = r
  BY <1>5, <1>8, <1>9, <1>11, <1>12 DEF Answer
<1>14. OneMoves(q, m, sp, dp)
  <2> SUFFICES ASSUME NEW x \in Place PROVE m[x] = IF x = dp THEN q[sp] ELSE IF x = sp THEN P!NULL ELSE q[x]
    BY DEF OneMoves
  <2>1. PICK k \in Nat : \/ x = Spot("body", k) \/ x = Spot("frame", k) \/ x = Spot("ret", k)
                         \/ x = Spot("left", k) \/ x = Spot("right", k)
    BY Places
  <2>2. CASE x = dp
    BY <1>13, <2>2
  <2>3. CASE x = sp
    BY <1>10, <1>13, <2>3
  <2>4. CASE x # dp /\ x # sp
    <3>1. CASE x = Spot("frame", k)
      <4>1. k # n
        BY <2>4, <3>1
      <4> QED
        BY <1>8, <1>11, <1>12, <2>4, <3>1, <4>1
    <3>2. CASE x = Spot("ret", k)
      <4>1. k # 0
        BY <2>4, <3>2
      <4> QED
        BY <1>11, <1>12, <2>4, <3>2, <4>1 DEF Answer
    <3> QED
      BY <1>11, <1>12, <2>1, <2>4, <3>1, <3>2
  <2> QED
    BY <2>2, <2>3, <2>4
<1>15. Apart(m) /\ \A a \in Nat : Whole(q, a) => Whole(m, a)
  BY <1>0, <1>10, <1>13, <1>14, OneApart
<1>16. Forest(A, BB, GG, r)
  BY <1>0, <1>2, <1>6, <1>15 DEF Forest, m
<1>17. ASSUME Clean(A, BB, F, r) PROVE Clean(A, BB, GG, r)
  <2>1. Whole(m, Len(A))
    BY <1>0, <1>15, <1>17 DEF Clean, q
  <2>4. r # P!NULL /\ IsExpression(A[r])
    BY <1>1, <1>3, <1>17 DEF Clean, Awaits, AwaitsFactor
  <2>2. ASSUME NEW k \in 1..Len(GG), GG[k].at \in KeepsLeft
        PROVE  GG[k].left # P!NULL /\ IsExpression(A[GG[k].left])
    <3>1. CASE k = n
      BY <1>4, <2>4, <3>1
    <3>2. CASE k # n
      BY <1>1, <1>2, <1>17, <2>2, <3>2 DEF Clean
    <3> QED
      BY <3>1, <3>2
  <2>3. GG[Len(GG)].at \notin Awaits
    BY <1>2, <1>4 DEF Awaits, AwaitsExpression, AwaitsFactor
  <2> QED
    BY <1>17, <2>1, <2>2, <2>3 DEF Clean, m
<1> QED
  BY <1>16, <1>17

\* The item is put in the body.
LEMMA PushKeeps ==
  ASSUME NEW A, NEW BB, NEW F, NEW r, Forest(A, BB, F, r), Len(F) > 0, r # P!NULL,
         F[Len(F)].at = "item",
         NEW f \in Frames, f.at = "items", f.left = P!NULL,
         NEW GG, GG = Replaced(F, f),
         NEW D, D = Append(BB, r)
  PROVE  /\ Forest(A, D, GG, r)
         /\ Clean(A, BB, F, r) => Clean(A, D, GG, r)
<1> DEFINE q == Held(A, BB, F, LiveRet(F, r))
           m == Held(A, D, GG, LiveRet(GG, r))
           T == F[Len(F)]
<1>0. F \in Seq(Frames) /\ Len(A) \in Nat /\ StackOK(F, Len(A)) /\ Apart(q) /\ r \in 0..Len(A) /\ BB \in Seq(Nat)
  BY LenNat DEF Forest
<1>1. PICK n \in Nat : n = Len(F)
  BY <1>0, LenNat
<1>2. GG \in Seq(Frames) /\ Len(GG) = n /\ \A k \in 1..n : GG[k] = IF k = n THEN f ELSE F[k]
  <2>1. IsReplaced(F, f, GG)
    BY <1>0, ShapeReplaced
  <2> QED
    BY <2>1, <1>1 DEF IsReplaced
<1>3. n > 0 /\ n \in 1..n
  BY <1>1
<1>4. GG[n] = f
  BY <1>2, <1>3
<1>5. LiveRet(F, r) = r /\ LiveRet(GG, r) = P!NULL
  BY <1>1, <1>2, <1>3, <1>4 DEF LiveRet, Awaits, AwaitsExpression, AwaitsFactor
<1>6. StackOK(GG, Len(A))
  <2>1. FrameOK(f, Len(A))
    BY <1>0 DEF FrameOK, P!NULL
  <2>2. SameFunction(F[Len(F)].at, f.at)
    BY DEF SameFunction, FunctionStops
  <2> QED
    BY <2>1, <2>2, <1>0, StackBecome
<1>7. T.left = P!NULL
  <2>1. FrameOK(T, Len(A))
    BY <1>0, <1>1, <1>3 DEF StackOK
  <2> QED
    BY <2>1 DEF FrameOK, KeepsLeft
<1>8. \A k \in Nat : LeftOf(GG, k) = LeftOf(F, k)
  BY <1>1, <1>2, <1>3, <1>4, <1>7 DEF LeftOf
<1>18. PICK b \in Nat : b = Len(BB)
  BY <1>0, LenNat
<1>19. D \in Seq(Nat) /\ Len(D) = b + 1 /\ \A k \in 1..b+1 : D[k] = IF k = b + 1 THEN r ELSE BB[k]
  BY <1>0, <1>18
<1>20. \A k \in Nat : Item(D, k) = IF k = b + 1 THEN r ELSE Item(BB, k)
  BY <1>18, <1>19 DEF Item
<1>9. Item(BB, b + 1) = P!NULL
  BY <1>18 DEF Item
<1> DEFINE dp == Spot("body", b + 1)
           sp == Spot("ret", 0)
<1>10. sp \in Place /\ dp \in Place /\ sp # dp
  BY SpotIsPlace, SpotsApart
<1>11. ASSUME NEW k \in Nat
       PROVE  /\ m[Spot("body", k)] = Item(D, k) /\ m[Spot("left", k)] = LeftOf(A, k) /\ m[Spot("right", k)] = RightOf(A, k)
              /\ m[Spot("frame", k)] = LeftOf(GG, k) /\ m[Spot("ret", k)] = Answer(LiveRet(GG, r), k)
  BY HeldAt
<1>12. ASSUME NEW k \in Nat
       PROVE  /\ q[Spot("body", k)] = Item(BB, k) /\ q[Spot("left", k)] = LeftOf(A, k) /\ q[Spot("right", k)] = RightOf(A, k)
              /\ q[Spot("frame", k)] = LeftOf(F, k) /\ q[Spot("ret", k)] = Answer(LiveRet(F, r), k)
  BY HeldAt
<1> HIDE DEF q, m
<1>13. q[sp] = r /\ m[sp] = P!NULL /\ q[dp] = P!NULL /\ m[dp] = r
  BY <1>5, <1>9, <1>11, <1>12, <1>20 DEF Answer
<1>14. OneMoves(q, m, sp, dp)
  <2> SUFFICES ASSUME NEW x \in Place PROVE m[x] = IF x = dp THEN q[sp] ELSE IF x = sp THEN P!NULL ELSE q[x]
    BY DEF OneMoves
  <2>1. PICK k \in Nat : \/ x = Spot("body", k) \/ x = Spot("frame", k) \/ x = Spot("ret", k)
                         \/ x = Spot("left", k) \/ x = Spot("right", k)
    BY Places
  <2>2. CASE x = dp
    BY <1>13, <2>2
  <2>3. CASE x = sp
    BY <1>10, <1>13, <2>3
  <2>4. CASE x # dp /\ x # sp
    <3>1. CASE x = Spot("body", k)
      <4>1. k # b + 1
        BY <2>4, <3>1
      <4> QED
        BY <1>11, <1>12, <1>20, <2>4, <3>1, <4>1
    <3>2. CASE x = Spot("ret", k)
      <4>1. k # 0
        BY <2>4, <3>2
      <4> QED
        BY <1>11, <1>12, <2>4, <3>2, <4>1 DEF Answer
    <3> QED
      BY <1>8, <1>11, <1>12, <2>1, <2>4, <3>1, <3>2
  <2> QED
    BY <2>2, <2>3, <2>4
<1>15. Apart(m) /\ \A a \in Nat : Whole(q, a) => Whole(m, a)
  BY <1>0, <1>10, <1>13, <1>14, OneApart
<1>16. Forest(A, D, GG, r)
  <2>1. \A k \in 1..Len(D) : D[k] \in 1..Len(A)
    <3>1. r \in 1..Len(A)
      BY <1>0 DEF P!NULL
    <3>2. \A k \in 1..Len(BB) : BB[k] \in 1..Len(A)
      BY DEF Forest
    <3> QED
      BY <1>18, <1>19, <3>1, <3>2
  <2> QED
    BY <1>0, <1>2, <1>6, <1>15, <1>19, <2>1 DEF Forest, m
<1>17. ASSUME Clean(A, BB, F, r) PROVE Clean(A, D, GG, r)
  <2>1. Whole(m, Len(A))
    BY <1>0, <1>15, <1>17 DEF Clean, q
  <2>2. ASSUME NEW k \in 1..Len(GG), GG[k].at \in KeepsLeft
        PROVE  GG[k].left # P!NULL /\ IsExpression(A[GG[k].left])
    <3>1. k # n
      BY <1>4, <2>2 DEF KeepsLeft
    <3> QED
      BY <1>1, <1>2, <1>17, <2>2, <3>1 DEF Clean
  <2>3. GG[Len(GG)].at \notin Awaits
    BY <1>2, <1>4 DEF Awaits, AwaitsExpression, AwaitsFactor
  <2> QED
    BY <1>17, <2>1, <2>2, <2>3 DEF Clean, m
<1> QED
  BY <1>16, <1>17

\* parse_program is left.
LEMMA EndKeeps ==
  ASSUME NEW A, NEW BB, NEW F, NEW r, Forest(A, BB, F, r)
  PROVE  /\ Forest(A, BB, <<>>, r)
         /\ Clean(A, BB, F, r) /\ Len(F) > 0 /\ F[Len(F)].at = "items" => Clean(A, BB, <<>>, r)
<1> DEFINE q == Held(A, BB, F, LiveRet(F, r))
           m == Held(A, BB, <<>>, LiveRet(<<>>, r))
<1>0. F \in Seq(Frames) /\ Len(A) \in Nat /\ StackOK(F, Len(A)) /\ Apart(q) /\ r \in 0..Len(A)
  BY LenNat DEF Forest
<1>1. LiveRet(<<>>, r) = P!NULL
  BY DEF LiveRet
<1>2. \A k \in Nat : LeftOf(<<>>, k) = P!NULL
  BY DEF LeftOf
<1>3. Apart(m)
  <2>1. ASSUME NEW x \in Place PROVE m[x] = q[x] \/ m[x] = P!NULL
    <3>1. PICK k \in Nat : \/ x = Spot("body", k) \/ x = Spot("frame", k) \/ x = Spot("ret", k)
                           \/ x = Spot("left", k) \/ x = Spot("right", k)
      BY Places
    <3>2. /\ m[Spot("body", k)] = Item(BB, k) /\ m[Spot("left", k)] = LeftOf(A, k) /\ m[Spot("right", k)] = RightOf(A, k)
          /\ m[Spot("frame", k)] = LeftOf(<<>>, k) /\ m[Spot("ret", k)] = Answer(LiveRet(<<>>, r), k)
      BY HeldAt
    <3>3. /\ q[Spot("body", k)] = Item(BB, k) /\ q[Spot("left", k)] = LeftOf(A, k) /\ q[Spot("right", k)] = RightOf(A, k)
      BY HeldAt
    <3>4. Answer(LiveRet(<<>>, r), k) = P!NULL
      BY <1>1 DEF Answer
    <3> HIDE DEF q, m
    <3> QED
      BY <1>2, <3>1, <3>2, <3>3, <3>4
  <2> HIDE DEF q, m
  <2> QED
    BY <1>0, <2>1, LessApart
<1>4. StackOK(<<>>, Len(A))
  BY DEF StackOK
<1>5. Forest(A, BB, <<>>, r)
  BY <1>0, <1>3, <1>4 DEF Forest
<1>6. ASSUME Clean(A, BB, F, r), Len(F) > 0, F[Len(F)].at = "items" PROVE Clean(A, BB, <<>>, r)
  <2>1. Len(F) = 1
    BY <1>0, <1>6, StackAlone DEF FunctionStops
  <2>2. F[1].left = P!NULL
    BY <1>0, <1>6, <2>1 DEF StackOK, FrameOK, KeepsLeft
  <2>3. ASSUME NEW k \in Nat PROVE LeftOf(<<>>, k) = LeftOf(F, k)
    BY <2>1, <2>2 DEF LeftOf
  <2>4. LiveRet(F, r) = LiveRet(<<>>, r)
    BY <1>6, <2>1 DEF LiveRet, Awaits, AwaitsExpression, AwaitsFactor
  <2>5. Same2(q, m)
    BY <2>3, <2>4, SameHeld
  <2>6. Whole(m, Len(A))
    BY <1>6, <2>5, SameApart DEF Clean
  <2> QED
    BY <1>6, <2>6 DEF Clean
<1> QED
  BY <1>5, <1>6

\* What a place holds is a node.
LEMMA HeldBound ==
  ASSUME NEW A, NEW BB, NEW F, NEW r, Forest(A, BB, F, r), NEW x \in Place
  PROVE  Held(A, BB, F, LiveRet(F, r))[x] \in 0..Len(A)
<1> DEFINE q == Held(A, BB, F, LiveRet(F, r))
<1>0. /\ F \in Seq(Frames) /\ Len(A) \in Nat /\ r \in 0..Len(A) /\ StackOK(F, Len(A))
      /\ \A n \in 1..Len(A) : A[n].left \in 0..n-1 /\ A[n].right \in 0..n-1
      /\ \A k \in 1..Len(BB) : BB[k] \in 1..Len(A)
  BY LenNat DEF Forest
<1>1. PICK a \in Nat : a = Len(A)
  BY <1>0
<1>2. PICK k \in Nat : \/ x = Spot("body", k) \/ x = Spot("frame", k) \/ x = Spot("ret", k)
                       \/ x = Spot("left", k) \/ x = Spot("right", k)
  BY Places
<1>3. /\ q[Spot("body", k)] = Item(BB, k) /\ q[Spot("left", k)] = LeftOf(A, k) /\ q[Spot("right", k)] = RightOf(A, k)
      /\ q[Spot("frame", k)] = LeftOf(F, k) /\ q[Spot("ret", k)] = Answer(LiveRet(F, r), k)
  BY HeldAt
<1> HIDE DEF q
<1>4. Item(BB, k) \in 0..a
  BY <1>0, <1>1 DEF Item, P!NULL
<1>5. LeftOf(A, k) \in 0..a
  <2>1. CASE k \in 1..a
    <3>1. A[k].left \in 0..k-1 /\ k - 1 <= a
      BY <1>0, <1>1, <2>1
    <3> QED
      BY <1>1, <2>1, <3>1 DEF LeftOf
  <2>2. CASE k \notin 1..a
    BY <1>1, <2>2 DEF LeftOf, P!NULL
  <2> QED
    BY <2>1, <2>2
<1>6. RightOf(A, k) \in 0..a
  <2>1. CASE k \in 1..a
    <3>1. A[k].right \in 0..k-1 /\ k - 1 <= a
      BY <1>0, <1>1, <2>1
    <3> QED
      BY <1>1, <2>1, <3>1 DEF RightOf
  <2>2. CASE k \notin 1..a
    BY <1>1, <2>2 DEF RightOf, P!NULL
  <2> QED
    BY <2>1, <2>2
<1>7. LeftOf(F, k) \in 0..a
  BY <1>0, <1>1 DEF LeftOf, P!NULL, StackOK, FrameOK
<1>8. Answer(LiveRet(F, r), k) \in 0..a
  BY <1>0, <1>1 DEF Answer, LiveRet, P!NULL
<1> QED
  BY <1>1, <1>2, <1>3, <1>4, <1>5, <1>6, <1>7, <1>8 DEF q

\* The tree with one node more.
LEMMA Grown ==
  ASSUME NEW A \in Seq(Nodes), NEW N \in Nodes, NEW a \in Nat, a = Len(A)
  PROVE  /\ Append(A, N) \in Seq(Nodes) /\ Len(Append(A, N)) = a + 1
         /\ \A k \in 1..a : Append(A, N)[k] = A[k]
         /\ Append(A, N)[a + 1] = N
OBVIOUS

GrowsAt(A, A2, N, a, k) ==
  /\ k # a + 1 => LeftOf(A2, k) = LeftOf(A, k) /\ RightOf(A2, k) = RightOf(A, k)
  /\ LeftOf(A2, a + 1) = N.left /\ RightOf(A2, a + 1) = N.right
  /\ LeftOf(A, a + 1) = P!NULL /\ RightOf(A, a + 1) = P!NULL

\* One more node: the places of its children, and the others.
LEMMA GrownPlaces ==
  ASSUME NEW A \in Seq(Nodes), NEW N \in Nodes, NEW a \in Nat, a = Len(A), NEW A2, A2 = Append(A, N), NEW k \in Nat
  PROVE  GrowsAt(A, A2, N, a, k)
<1>1. /\ Len(A2) = a + 1 /\ A2[a + 1] = N
      /\ \A l \in 1..a : A2[l] = A[l]
  BY Grown
<1>2. a + 1 \in 1..a+1 /\ a + 1 \notin 1..a
  OBVIOUS
<1>3. ASSUME k # a + 1 PROVE LeftOf(A2, k) = LeftOf(A, k) /\ RightOf(A2, k) = RightOf(A, k)
  <2>1. k \in 1..a+1 <=> k \in 1..a
    BY <1>3
  <2>2. CASE k \in 1..a
    BY <1>1, <2>1, <2>2 DEF LeftOf, RightOf
  <2>3. CASE k \notin 1..a
    BY <1>1, <2>1, <2>3 DEF LeftOf, RightOf
  <2> QED
    BY <2>2, <2>3
<1>4. LeftOf(A2, a + 1) = N.left /\ RightOf(A2, a + 1) = N.right
  BY <1>1, <1>2 DEF LeftOf, RightOf
<1>5. LeftOf(A, a + 1) = P!NULL /\ RightOf(A, a + 1) = P!NULL
  BY <1>2 DEF LeftOf, RightOf
<1> QED
  BY <1>3, <1>4, <1>5 DEF GrowsAt

CleanNew(A, F, N) ==
  /\ P!IsNode(N) /\ \A c \in P!Kids(N) : IsExpression(A[c])
  /\ F[Len(F)].at \in ItemStops \/ IsExpression(N)

\* A call that returns a new node.
LEMMA NewKeeps ==
  ASSUME NEW A, NEW BB, NEW F, NEW r, Forest(A, BB, F, r), Len(F) > 0,
         F[Len(F)].at \notin FunctionStops,
         NEW N \in Nodes,
         \/ N.left = F[Len(F)].left /\ N.right = LiveRet(F, r)
         \/ N.left = LiveRet(F, r) /\ N.right = F[Len(F)].left,
         NEW A2, A2 = Append(A, N), NEW GG, GG = Returned(F), NEW s, s = Len(A) + 1
  PROVE  /\ Forest(A2, BB, GG, s)
         /\ Clean(A, BB, F, r) /\ CleanNew(A, F, N) => Clean(A2, BB, GG, s)
<1> DEFINE q == Held(A, BB, F, LiveRet(F, r))
           m == Held(A2, BB, GG, LiveRet(GG, s))
           T == F[Len(F)]
<1>0. /\ F \in Seq(Frames) /\ A \in Seq(Nodes) /\ StackOK(F, Len(A)) /\ Apart(q) /\ r \in 0..Len(A)
      /\ \A n \in 1..Len(A) : A[n].left \in 0..n-1 /\ A[n].right \in 0..n-1
      /\ \A k \in 1..Len(BB) : BB[k] \in 1..Len(A)
  BY DEF Forest
<1>a. PICK a \in Nat : a = Len(A)
  BY <1>0, LenNat
<1>b. /\ A2 \in Seq(Nodes) /\ Len(A2) = a + 1 /\ A2[a + 1] = N
      /\ \A k \in 1..a : A2[k] = A[k]
  BY <1>0, <1>a, Grown
<1>1. PICK n \in Nat : Len(F) = n + 1
  BY <1>0, Shorter
<1>3. Len(F) - 1 = n
  BY <1>1
<1>2. GG \in Seq(Frames) /\ Len(GG) = n /\ \A k \in 1..n : GG[k] = F[k]
  <2>1. IsReturned(F, GG)
    BY <1>0, ShapeReturned
  <2> QED
    BY <2>1, <1>3 DEF IsReturned
<1>4. /\ n \in 1..Len(F) /\ Len(F) > 1 /\ F[n].at \in Awaits /\ StackOK(GG, Len(A2))
      /\ Calls(F[n].at, T.at)
  <2>1. a + 1 \in Nat /\ a <= a + 1
    OBVIOUS
  <2> QED
    BY <1>0, <1>3, <1>a, <1>b, <2>1, StackReturn
<1>5. n \in 1..n /\ n + 1 \in 1..n+1 /\ n + 1 # n /\ n > 0
  BY <1>1, <1>4
<1>6. LiveRet(GG, s) = a + 1
  BY <1>2, <1>4, <1>5, <1>a DEF LiveRet
<1>7. T \in Frames /\ T.left \in 0..a /\ LiveRet(F, r) \in 0..a
  BY <1>0, <1>1, <1>5, <1>a DEF StackOK, FrameOK, LiveRet, P!NULL
<1>8. \A k \in Nat : LeftOf(GG, k) = IF k = n + 1 THEN P!NULL ELSE LeftOf(F, k)
  <2> TAKE k \in Nat
  <2>1. CASE k = n + 1
    BY <1>2, <1>5, <2>1 DEF LeftOf
  <2>2. CASE k # n + 1
    BY <1>1, <1>2, <1>5, <2>2 DEF LeftOf
  <2> QED
    BY <2>1, <2>2
<1>9. LeftOf(F, n + 1) = T.left
  BY <1>1, <1>5 DEF LeftOf
<1> DEFINE dl == Spot("left", a + 1)
           dr == Spot("right", a + 1)
           z  == Spot("ret", 0)
           sf == Spot("frame", n + 1)
<1>10. /\ dl \in Place /\ dr \in Place /\ z \in Place /\ sf \in Place
       /\ z # sf /\ z # dl /\ z # dr /\ dl # dr /\ sf # dl /\ sf # dr
  BY SpotIsPlace, SpotsApart
<1>11. ASSUME NEW k \in Nat
       PROVE  /\ m[Spot("body", k)] = Item(BB, k) /\ m[Spot("left", k)] = LeftOf(A2, k) /\ m[Spot("right", k)] = RightOf(A2, k)
              /\ m[Spot("frame", k)] = LeftOf(GG, k) /\ m[Spot("ret", k)] = Answer(LiveRet(GG, s), k)
  BY HeldAt
<1>12. ASSUME NEW k \in Nat
       PROVE  /\ q[Spot("body", k)] = Item(BB, k) /\ q[Spot("left", k)] = LeftOf(A, k) /\ q[Spot("right", k)] = RightOf(A, k)
              /\ q[Spot("frame", k)] = LeftOf(F, k) /\ q[Spot("ret", k)] = Answer(LiveRet(F, r), k)
  BY HeldAt
<1>13. ASSUME NEW k \in Nat
       PROVE  /\ k # a + 1 => LeftOf(A2, k) = LeftOf(A, k) /\ RightOf(A2, k) = RightOf(A, k)
              /\ LeftOf(A2, a + 1) = N.left /\ RightOf(A2, a + 1) = N.right
              /\ LeftOf(A, a + 1) = P!NULL /\ RightOf(A, a + 1) = P!NULL
  <2>1. GrowsAt(A, A2, N, a, k)
    BY <1>0, <1>a, GrownPlaces
  <2> QED
    BY <2>1 DEF GrowsAt
<1>14. \A x \in Place : q[x] # a + 1
  <2> TAKE x \in Place
  <2>1. q[x] \in 0..Len(A)
    BY HeldBound
  <2> HIDE DEF q
  <2> QED
    BY <1>a, <2>1
<1> HIDE DEF q, m
<1>15. /\ q[z] = LiveRet(F, r) /\ q[sf] = T.left /\ q[dl] = P!NULL /\ q[dr] = P!NULL
  BY <1>9, <1>12, <1>13 DEF Answer
<1>16. /\ m[z] = a + 1 /\ m[sf] = P!NULL /\ m[dl] = N.left /\ m[dr] = N.right
  BY <1>6, <1>8, <1>11, <1>13 DEF Answer
<1> DEFINE Others == \A x \in Place : x \notin {z, sf, dl, dr} => m[x] = q[x]
<1>17. Others
  <2> SUFFICES ASSUME NEW x \in Place, x # z, x # sf, x # dl, x # dr PROVE m[x] = q[x]
    OBVIOUS
  <2>1. PICK k \in Nat : \/ x = Spot("body", k) \/ x = Spot("frame", k) \/ x = Spot("ret", k)
                         \/ x = Spot("left", k) \/ x = Spot("right", k)
    BY Places
  <2>2. CASE x = Spot("body", k)
    BY <1>11, <1>12, <2>2
  <2>3. CASE x = Spot("frame", k)
    <3>1. k # n + 1
      BY <2>3
    <3> QED
      BY <1>8, <1>11, <1>12, <2>3, <3>1
  <2>4. CASE x = Spot("ret", k)
    <3>1. k # 0
      BY <2>4
    <3> QED
      BY <1>11, <1>12, <2>4, <3>1 DEF Answer
  <2>5. CASE x = Spot("left", k)
    <3>1. k # a + 1
      BY <2>5
    <3> QED
      BY <1>11, <1>12, <1>13, <2>5, <3>1
  <2>6. CASE x = Spot("right", k)
    <3>1. k # a + 1
      BY <2>6
    <3> QED
      BY <1>11, <1>12, <1>13, <2>6, <3>1
  <2> QED
    BY <2>1, <2>2, <2>3, <2>4, <2>5, <2>6
<1> HIDE DEF z, sf, dl, dr
<1>18. Apart(m) /\ (Whole(q, a) => Whole(m, a + 1))
  <2>1. CASE N.left = T.left /\ N.right = LiveRet(F, r)
    <3>1. Moved(q, m, z, a + 1, z, dr, sf, dl)
      BY <1>10, <1>15, <1>16, <1>17, <2>1 DEF Moved
    <3>2. Apart(m)
      BY <1>0, <1>10, <1>14, <3>1, MovedApart DEF q
    <3>3. Whole(q, a) => Whole(m, a + 1)
      BY <1>10, <1>15, <3>1, MovedWhole
    <3> QED
      BY <3>2, <3>3
  <2>2. CASE N.left = LiveRet(F, r) /\ N.right = T.left
    <3>1. Moved(q, m, z, a + 1, z, dl, sf, dr)
      BY <1>10, <1>15, <1>16, <1>17, <2>2 DEF Moved
    <3>2. Apart(m)
      BY <1>0, <1>10, <1>14, <3>1, MovedApart DEF q
    <3>3. Whole(q, a) => Whole(m, a + 1)
      BY <1>10, <1>15, <3>1, MovedWhole
    <3> QED
      BY <3>2, <3>3
  <2> QED
    BY <2>1, <2>2
<1>19. Forest(A2, BB, GG, s)
  <2>1. ASSUME NEW k \in 1..a+1 PROVE A2[k].left \in 0..k-1 /\ A2[k].right \in 0..k-1
    <3>1. CASE k = a + 1
      <4>1. N.left \in 0..a /\ N.right \in 0..a
        BY <1>7
      <4>2. k - 1 = a
        BY <3>1
      <4> QED
        BY <1>b, <3>1, <4>1, <4>2
    <3>2. CASE k # a + 1
      BY <1>0, <1>a, <1>b, <3>2
    <3> QED
      BY <3>1, <3>2
  <2>2. \A k \in 1..Len(BB) : BB[k] \in 1..a+1
    BY <1>0, <1>a
  <2>3. s \in 0..a+1
    BY <1>a
  <2>4. BB \in Seq(Nat)
    BY DEF Forest
  <2> QED
    BY <1>2, <1>4, <1>b, <1>18, <2>1, <2>2, <2>3, <2>4 DEF Forest, m
<1>20. ASSUME Clean(A, BB, F, r), P!IsNode(N), \A c \in P!Kids(N) : IsExpression(A[c]),
              T.at \in ItemStops \/ IsExpression(N)
       PROVE  Clean(A2, BB, GG, s)
  <2>1. Whole(m, Len(A2))
    BY <1>a, <1>b, <1>18, <1>20 DEF Clean, q
  <2>2. ASSUME NEW k \in 1..Len(GG), GG[k].at \in KeepsLeft
        PROVE  GG[k].left # P!NULL /\ IsExpression(A2[GG[k].left])
    <3>1. k \in 1..Len(F) /\ GG[k] = F[k]
      BY <1>1, <1>2
    <3>2. F[k].left # P!NULL /\ IsExpression(A[F[k].left])
      BY <1>20, <2>2, <3>1 DEF Clean
    <3>3. F[k].left \in 1..a
      BY <1>0, <1>a, <3>1, <3>2 DEF StackOK, FrameOK, P!NULL
    <3> QED
      BY <1>b, <3>1, <3>2, <3>3
  <2>3. GG[Len(GG)].at # "item" => IsExpression(A2[s])
    <3>1. T.at \in ItemStops => F[n].at = "item"
      BY <1>4 DEF Calls, ItemStops, AwaitsExpression, AwaitsFactor, ExpressionStops, FactorStops
    <3> QED
      BY <1>2, <1>5, <1>a, <1>b, <1>20, <3>1
  <2>4. s # P!NULL
    BY <1>a DEF P!NULL
  <2>5. ASSUME NEW k \in 1..Len(A2) PROVE P!IsNode(A2[k]) /\ KidsAre(A2, k)
    <3>1. CASE k = a + 1
      <4>1. ASSUME NEW c \in P!Kids(N) PROVE A2[c] = A[c]
        <5>1. c \in 1..a
          BY <1>7, <4>1 DEF P!Kids, P!NULL
        <5> QED
          BY <1>b, <5>1
      <4> QED
        BY <1>b, <1>20, <3>1, <4>1 DEF KidsAre
    <3>2. CASE k # a + 1
      <4>1. k \in 1..a /\ A2[k] = A[k]
        BY <1>b, <3>2
      <4>2. P!IsNode(A[k]) /\ KidsAre(A, k)
        BY <1>20, <1>a, <4>1 DEF Clean
      <4>3. ASSUME NEW c \in P!Kids(A[k]) PROVE A2[c] = A[c]
        <5>1. A[k].left \in 0..k-1 /\ A[k].right \in 0..k-1
          BY <1>0, <1>a, <4>1
        <5>2. c \in 1..a
          BY <4>1, <4>3, <5>1 DEF P!Kids, P!NULL
        <5> QED
          BY <1>b, <5>2
      <4> QED
        BY <4>1, <4>2, <4>3 DEF KidsAre
    <3> QED
      BY <3>1, <3>2
  <2> QED
    BY <2>1, <2>2, <2>3, <2>4, <2>5 DEF Clean, m
<1> QED
  BY <1>19, <1>20 DEF CleanNew

\* The binary node is the left operand of what follows.
LEMMA RightKeeps ==
  ASSUME NEW A, NEW BB, NEW F, NEW r, Forest(A, BB, F, r), Len(F) > 0,
         F[Len(F)].at = "right",
         NEW N \in Nodes, N.left = F[Len(F)].left, N.right = r,
         NEW f \in Frames, f.at = "operator", f.left = Len(A) + 1,
         NEW A2, A2 = Append(A, N), NEW GG, GG = Replaced(F, f)
  PROVE  /\ Forest(A2, BB, GG, r)
         /\ Clean(A, BB, F, r) /\ CleanNew(A, F, N) => Clean(A2, BB, GG, r)
<1> DEFINE q == Held(A, BB, F, LiveRet(F, r))
           m == Held(A2, BB, GG, LiveRet(GG, r))
           T == F[Len(F)]
<1>0. /\ F \in Seq(Frames) /\ A \in Seq(Nodes) /\ StackOK(F, Len(A)) /\ Apart(q) /\ r \in 0..Len(A)
      /\ \A n \in 1..Len(A) : A[n].left \in 0..n-1 /\ A[n].right \in 0..n-1
      /\ \A k \in 1..Len(BB) : BB[k] \in 1..Len(A)
  BY DEF Forest
<1>a. PICK a \in Nat : a = Len(A)
  BY <1>0, LenNat
<1>b. /\ A2 \in Seq(Nodes) /\ Len(A2) = a + 1 /\ A2[a + 1] = N
      /\ \A k \in 1..a : A2[k] = A[k]
  BY <1>0, <1>a, Grown
<1>1. PICK n \in Nat : n = Len(F)
  BY <1>0, LenNat
<1>2. GG \in Seq(Frames) /\ Len(GG) = n /\ \A k \in 1..n : GG[k] = IF k = n THEN f ELSE F[k]
  <2>1. IsReplaced(F, f, GG)
    BY <1>0, ShapeReplaced
  <2> QED
    BY <2>1, <1>1 DEF IsReplaced
<1>5. n > 0 /\ n \in 1..n /\ GG[n] = f
  BY <1>1, <1>2
<1>6. LiveRet(F, r) = r /\ LiveRet(GG, r) = P!NULL
  BY <1>1, <1>2, <1>5 DEF LiveRet, Awaits, AwaitsExpression, AwaitsFactor
<1>4. StackOK(GG, Len(A2))
  <2>1. FrameOK(f, Len(A2))
    BY <1>a, <1>b DEF FrameOK, KeepsLeft
  <2>2. SameFunction(F[Len(F)].at, f.at)
    BY DEF SameFunction, ExpressionStops
  <2>3. a + 1 \in Nat /\ a <= a + 1
    OBVIOUS
  <2> QED
    BY <2>1, <2>2, <2>3, <1>0, <1>a, <1>b, StackBecome
<1>7. T \in Frames /\ T.left \in 0..a /\ r \in 0..a
  BY <1>0, <1>1, <1>5, <1>a DEF StackOK, FrameOK
<1>8. \A k \in Nat : LeftOf(GG, k) = IF k = n THEN a + 1 ELSE LeftOf(F, k)
  BY <1>1, <1>2, <1>5, <1>a DEF LeftOf
<1>9. LeftOf(F, n) = T.left
  BY <1>1, <1>5 DEF LeftOf
<1> DEFINE dl == Spot("left", a + 1)
           dr == Spot("right", a + 1)
           s  == Spot("ret", 0)
           z  == Spot("frame", n)
<1>10. /\ dl \in Place /\ dr \in Place /\ z \in Place /\ s \in Place
       /\ z # s /\ z # dl /\ z # dr /\ dl # dr /\ s # dl /\ s # dr
  BY SpotIsPlace, SpotsApart
<1>11. ASSUME NEW k \in Nat
       PROVE  /\ m[Spot("body", k)] = Item(BB, k) /\ m[Spot("left", k)] = LeftOf(A2, k) /\ m[Spot("right", k)] = RightOf(A2, k)
              /\ m[Spot("frame", k)] = LeftOf(GG, k) /\ m[Spot("ret", k)] = Answer(LiveRet(GG, r), k)
  BY HeldAt
<1>12. ASSUME NEW k \in Nat
       PROVE  /\ q[Spot("body", k)] = Item(BB, k) /\ q[Spot("left", k)] = LeftOf(A, k) /\ q[Spot("right", k)] = RightOf(A, k)
              /\ q[Spot("frame", k)] = LeftOf(F, k) /\ q[Spot("ret", k)] = Answer(LiveRet(F, r), k)
  BY HeldAt
<1>13. ASSUME NEW k \in Nat
       PROVE  /\ k # a + 1 => LeftOf(A2, k) = LeftOf(A, k) /\ RightOf(A2, k) = RightOf(A, k)
              /\ LeftOf(A2, a + 1) = N.left /\ RightOf(A2, a + 1) = N.right
              /\ LeftOf(A, a + 1) = P!NULL /\ RightOf(A, a + 1) = P!NULL
  <2>1. GrowsAt(A, A2, N, a, k)
    BY <1>0, <1>a, GrownPlaces
  <2> QED
    BY <2>1 DEF GrowsAt
<1>14. \A x \in Place : q[x] # a + 1
  <2> TAKE x \in Place
  <2>1. q[x] \in 0..Len(A)
    BY HeldBound
  <2> HIDE DEF q
  <2> QED
    BY <1>a, <2>1
<1> HIDE DEF q, m
<1>15. /\ q[s] = r /\ q[z] = T.left /\ q[dl] = P!NULL /\ q[dr] = P!NULL
  BY <1>6, <1>9, <1>12, <1>13 DEF Answer
<1>16. /\ m[z] = a + 1 /\ m[s] = P!NULL /\ m[dl] = N.left /\ m[dr] = N.right
  BY <1>6, <1>8, <1>11, <1>13 DEF Answer
<1> DEFINE Others == \A x \in Place : x \notin {z, s, dl, dr} => m[x] = q[x]
<1>17. Others
  <2> SUFFICES ASSUME NEW x \in Place, x # z, x # s, x # dl, x # dr PROVE m[x] = q[x]
    OBVIOUS
  <2>1. PICK k \in Nat : \/ x = Spot("body", k) \/ x = Spot("frame", k) \/ x = Spot("ret", k)
                         \/ x = Spot("left", k) \/ x = Spot("right", k)
    BY Places
  <2>2. CASE x = Spot("body", k)
    BY <1>11, <1>12, <2>2
  <2>3. CASE x = Spot("frame", k)
    <3>1. k # n
      BY <2>3
    <3> QED
      BY <1>8, <1>11, <1>12, <2>3, <3>1
  <2>4. CASE x = Spot("ret", k)
    <3>1. k # 0
      BY <2>4
    <3> QED
      BY <1>11, <1>12, <2>4, <3>1 DEF Answer
  <2>5. CASE x = Spot("left", k)
    <3>1. k # a + 1
      BY <2>5
    <3> QED
      BY <1>11, <1>12, <1>13, <2>5, <3>1
  <2>6. CASE x = Spot("right", k)
    <3>1. k # a + 1
      BY <2>6
    <3> QED
      BY <1>11, <1>12, <1>13, <2>6, <3>1
  <2> QED
    BY <2>1, <2>2, <2>3, <2>4, <2>5, <2>6
<1> HIDE DEF z, s, dl, dr
<1>18. Apart(m) /\ (Whole(q, a) => Whole(m, a + 1))
  <2>1. Moved(q, m, z, a + 1, s, dr, z, dl)
    BY <1>10, <1>15, <1>16, <1>17 DEF Moved
  <2>2. Apart(m)
    BY <1>0, <1>10, <1>14, <2>1, MovedApart DEF q
  <2>3. Whole(q, a) => Whole(m, a + 1)
    BY <1>10, <1>15, <2>1, MovedWhole
  <2> QED
    BY <2>2, <2>3
<1>19. Forest(A2, BB, GG, r)
  <2>1. ASSUME NEW k \in 1..a+1 PROVE A2[k].left \in 0..k-1 /\ A2[k].right \in 0..k-1
    <3>1. CASE k = a + 1
      <4>1. N.left \in 0..a /\ N.right \in 0..a
        BY <1>7
      <4>2. k - 1 = a
        BY <3>1
      <4> QED
        BY <1>b, <3>1, <4>1, <4>2
    <3>2. CASE k # a + 1
      BY <1>0, <1>a, <1>b, <3>2
    <3> QED
      BY <3>1, <3>2
  <2>2. \A k \in 1..Len(BB) : BB[k] \in 1..a+1
    BY <1>0, <1>a
  <2>3. r \in 0..a+1
    BY <1>7
  <2>4. BB \in Seq(Nat)
    BY DEF Forest
  <2> QED
    BY <1>2, <1>4, <1>b, <1>18, <2>1, <2>2, <2>3, <2>4 DEF Forest, m
<1>20. ASSUME Clean(A, BB, F, r), P!IsNode(N), \A c \in P!Kids(N) : IsExpression(A[c]),
              IsExpression(N)
       PROVE  Clean(A2, BB, GG, r)
  <2>1. Whole(m, Len(A2))
    BY <1>a, <1>b, <1>18, <1>20 DEF Clean, q
  <2>2. ASSUME NEW k \in 1..Len(GG), GG[k].at \in KeepsLeft
        PROVE  GG[k].left # P!NULL /\ IsExpression(A2[GG[k].left])
    <3>1. CASE k = n
      <4>1. GG[k].left = a + 1 /\ a + 1 # 0
        BY <1>5, <1>a, <3>1
      <4> QED
        BY <1>b, <1>20, <4>1 DEF P!NULL
    <3>2. CASE k # n
      <4>1. k \in 1..Len(F) /\ GG[k] = F[k]
        BY <1>1, <1>2, <3>2
      <4>2. F[k].left # P!NULL /\ IsExpression(A[F[k].left])
        BY <1>20, <2>2, <4>1 DEF Clean
      <4>3. F[k].left \in 1..a
        BY <1>0, <1>a, <4>1, <4>2 DEF StackOK, FrameOK, P!NULL
      <4> QED
        BY <1>b, <4>1, <4>2, <4>3
    <3> QED
      BY <3>1, <3>2
  <2>3. GG[Len(GG)].at \notin Awaits
    BY <1>2, <1>5 DEF Awaits, AwaitsExpression, AwaitsFactor
  <2>5. ASSUME NEW k \in 1..Len(A2) PROVE P!IsNode(A2[k]) /\ KidsAre(A2, k)
    <3>1. CASE k = a + 1
      <4>1. ASSUME NEW c \in P!Kids(N) PROVE A2[c] = A[c]
        <5>1. c \in 1..a
          BY <1>7, <4>1 DEF P!Kids, P!NULL
        <5> QED
          BY <1>b, <5>1
      <4> QED
        BY <1>b, <1>20, <3>1, <4>1 DEF KidsAre
    <3>2. CASE k # a + 1
      <4>1. k \in 1..a /\ A2[k] = A[k]
        BY <1>b, <3>2
      <4>2. P!IsNode(A[k]) /\ KidsAre(A, k)
        BY <1>20, <1>a, <4>1 DEF Clean
      <4>3. ASSUME NEW c \in P!Kids(A[k]) PROVE A2[c] = A[c]
        <5>1. A[k].left \in 0..k-1 /\ A[k].right \in 0..k-1
          BY <1>0, <1>a, <4>1
        <5>2. c \in 1..a
          BY <4>1, <4>3, <5>1 DEF P!Kids, P!NULL
        <5> QED
          BY <1>b, <5>2
      <4> QED
        BY <4>1, <4>2, <4>3 DEF KidsAre
    <3> QED
      BY <3>1, <3>2
  <2> QED
    BY <2>1, <2>2, <2>3, <2>5 DEF Clean, m
<1> QED
  BY <1>19, <1>20 DEF CleanNew, ItemStops

\* A power of two is a positive number: it counts the subsets of a set.
LEMMA Power ==
  ASSUME NEW n \in Nat
  PROVE  2^n \in Nat /\ 2^n > 0
<1> DEFINE SS == 1..n
<1>1. IsFiniteSet(SS) /\ Cardinality(SS) = n
  BY FS_Interval
<1> HIDE DEF SS
<1>2. IsFiniteSet(SUBSET SS) /\ Cardinality(SUBSET SS) = 2^n
  BY <1>1, FS_SUBSET
<1>3. Cardinality(SUBSET SS) \in Nat
  BY <1>2, FS_CardinalityType
<1>4. Cardinality(SUBSET SS) # 0
  BY <1>2, FS_EmptySet
<1> QED
  BY <1>2, <1>3, <1>4

\* What does not fit the word is wrapped to an integer.
LEMMA WrapType ==
  ASSUME NEW v \in Int
  PROVE  P!Wrap(v) \in Int
<1>1. WordBits \in Nat /\ WordBits - 1 \in Nat
  BY FrontendAssumption
<1>2. PICK m \in Nat : m = 2^(WordBits - 1)
  BY <1>1, Power
<1>3. PICK n \in Nat : n = 2^WordBits /\ n > 0
  BY <1>1, Power
<1>4. P!Wrap(v) = ((v - (-m)) % n) + (-m)
  BY <1>2, <1>3 DEF P!Wrap, P!MinWord
<1>5. (v - (-m)) % n \in Int
  BY <1>3
<1> QED
  BY <1>4, <1>5

Value(literal, h, f) ==
  IF h = 0 THEN 0
  ELSE 10 * f[h-1] + (CHOOSE d \in 0..9 : P!Digits[d+1] = literal[h])
IsValue(literal, n, f) == f = [h \in 0..n |-> Value(literal, h, f)]
IsDecimal(literal) == \A h \in 1..Len(literal) : \E d \in 0..9 : P!Digits[d+1] = literal[h]

\* The digits of a numeral have a value.
LEMMA SomeValue ==
  ASSUME NEW lit \in Seq(STRING), IsDecimal(lit)
  PROVE  \A n \in Nat : n <= Len(lit) => \E f \in [0..n -> Int] : IsValue(lit, n, f)
<1> DEFINE T == {n \in Nat : n <= Len(lit) => \E f \in [0..n -> Int] : IsValue(lit, n, f)}
<1>1. 0 \in T
  <2> DEFINE f == [h \in 0..0 |-> 0]
  <2>1. f \in [0..0 -> Int] /\ IsValue(lit, 0, f)
    BY DEF IsValue, Value
  <2> QED
    BY <2>1
<1>2. ASSUME NEW n \in Nat, n \in T PROVE n + 1 \in T
  <2> SUFFICES ASSUME n + 1 <= Len(lit) PROVE \E f \in [0..n+1 -> Int] : IsValue(lit, n + 1, f)
    OBVIOUS
  <2>1. PICK g \in [0..n -> Int] : IsValue(lit, n, g)
    BY <1>2
  <2>2. PICK d \in 0..9 : d = CHOOSE e \in 0..9 : P!Digits[e+1] = lit[n + 1]
    <3>1. n + 1 \in 1..Len(lit)
      OBVIOUS
    <3> QED
      BY <3>1 DEF IsDecimal
  <2> DEFINE f == [h \in 0..n+1 |-> IF h = n + 1 THEN 10 * g[n] + d ELSE g[h]]
  <2>3. 10 * g[n] + d \in Int
    BY <2>1
  <2>4. f \in [0..n+1 -> Int]
    BY <2>1, <2>3
  <2>5. ASSUME NEW h \in 0..n+1 PROVE f[h] = Value(lit, h, f)
    <3>1. CASE h = n + 1
      <4>1. f[h] = 10 * g[n] + d /\ f[h - 1] = g[n] /\ h # 0
        BY <3>1
      <4> HIDE DEF f
      <4> QED
        BY <2>2, <3>1, <4>1 DEF Value
    <3>2. CASE h # n + 1
      <4>1. h \in 0..n /\ f[h] = g[h] /\ (h # 0 => h - 1 \in 0..n /\ f[h - 1] = g[h - 1])
        BY <3>2
      <4>2. g[h] = Value(lit, h, g)
        BY <2>1, <4>1 DEF IsValue
      <4> HIDE DEF f
      <4> QED
        BY <4>1, <4>2 DEF Value
    <3> QED
      BY <3>1, <3>2
  <2>6. IsValue(lit, n + 1, f)
    <3>1. f = [h \in 0..n+1 |-> f[h]]
      OBVIOUS
    <3> HIDE DEF f
    <3> QED
      BY <2>5, <3>1 DEF IsValue
  <2> QED
    BY <2>4, <2>6
<1>3. Nat \subseteq T
  <2> HIDE DEF T
  <2> QED
    BY <1>1, <1>2, SetInduction
<1> QED
  BY <1>3

\* They have one value.
LEMMA OneValue ==
  ASSUME NEW lit \in Seq(STRING), NEW n \in Nat, NEW f, NEW g,
         IsValue(lit, n, f), IsValue(lit, n, g)
  PROVE  f = g
<1> DEFINE T == {h \in Nat : h <= n => f[h] = g[h]}
<1>1. 0 \in T
  BY DEF IsValue, Value
<1>2. ASSUME NEW h \in Nat, h \in T PROVE h + 1 \in T
  <2> SUFFICES ASSUME h + 1 <= n PROVE f[h + 1] = g[h + 1]
    OBVIOUS
  <2>1. h + 1 \in 0..n /\ h + 1 - 1 = h /\ h + 1 # 0 /\ f[h] = g[h]
    BY <1>2
  <2>2. f[h + 1] = Value(lit, h + 1, f) /\ g[h + 1] = Value(lit, h + 1, g)
    BY <2>1 DEF IsValue
  <2> QED
    BY <2>1, <2>2 DEF Value
<1>3. Nat \subseteq T
  <2> HIDE DEF T
  <2> QED
    BY <1>1, <1>2, SetInduction
<1>4. \A h \in 0..n : f[h] = g[h]
  BY <1>3
<1> QED
  BY <1>4 DEF IsValue

\* atoi answers an integer.
LEMMA AtoiType ==
  ASSUME NEW lit \in Seq(STRING), IsDecimal(lit)
  PROVE  P!atoi(lit) \in Int
<1>1. PICK n \in Nat : n = Len(lit)
  BY LenNat
<1>2. PICK f \in [0..n -> Int] : IsValue(lit, n, f)
  BY <1>1, SomeValue
<1> DEFINE c == CHOOSE g : IsValue(lit, n, g)
<1>3. IsValue(lit, n, c)
  BY <1>2
<1>4. c = f
  BY <1>2, <1>3, OneValue
<1>5. P!Decimal(lit) = c[n]
  BY <1>1 DEF P!Decimal, IsValue, Value
<1>6. P!Decimal(lit) \in Int
  BY <1>4, <1>5
<1>7. PICK v \in Int : v = P!Decimal(lit)
  BY <1>6
<1>8. 2 * WordBits - 1 \in Nat
  BY FrontendAssumption
<1>9. PICK l \in Int : l = 2^(2 * WordBits - 1) - 1
  <2>1. PICK m \in Nat : m = 2^(2 * WordBits - 1)
    BY <1>8, Power
  <2> QED
    BY <2>1
<1>10. (IF v > l THEN l ELSE v) \in Int
  OBVIOUS
<1> QED
  BY <1>7, <1>9, <1>10, WrapType DEF P!atoi

ParToken == [type : P!TokenType, literal : Seq(STRING)]

\* What the lexer delivers.
Lexed(toks) ==
  /\ toks \in Seq(ParToken) /\ EndsOnce(toks)
  /\ \A k \in 1..Len(toks) : toks[k].type = "INTEGER_LITERAL" => IsDecimal(toks[k].literal)

-----------------------------------------------------------------------------
(* The cursor *)

AfterNumber == (Awaits \cup {"operator"}) \ {"item"}

\* No error has been passed over, and none is about to be.
CursorClean(toks, n, at) ==
  /\ \A k \in 1..n-1 : toks[k].type \notin {"EOF", "INVALID"}
  /\ \A k \in 1..n-2 : ~(toks[k].type = "INTEGER_LITERAL" /\ toks[k + 1].type \in WordTypes)
  /\ (n > 1 /\ toks[n - 1].type = "INTEGER_LITERAL") => at \in AfterNumber

CursorOK(toks, n, at) ==
  /\ at \in {"declaration", "statement"} => n <= Len(toks)
  /\ at = "declaration" => toks[n].type = "INT"
  /\ at = "function" => n = 1

TreeInv ==
  /\ Forest(parsedTree, body, calls, ret)
  /\ ~parserError => Clean(parsedTree, body, calls, ret)

CursorInv ==
  /\ Lexed(tokenArray) /\ nextToken \in 1..Len(tokenArray)+1
  /\ parsed \in BOOLEAN /\ parserError \in BOOLEAN /\ parsing \in {"running", "done", "undefined"}
  /\ parsing = "running" => /\ calls # <<>> /\ ~parsed
                            /\ CursorOK(tokenArray, nextToken, P!Top.at)
                            /\ ~parserError => CursorClean(tokenArray, nextToken, P!Top.at)
  /\ parsing = "done" => calls = <<>> /\ (parserError \/ (parsed /\ ~Broken(tokenArray)))
  /\ parsing = "undefined" => parserError

ParInv == TreeInv /\ CursorInv

-----------------------------------------------------------------------------

\* After a token that is not the end there is another.
LEMMA Inside ==
  ASSUME NEW toks, Lexed(toks), NEW k \in 1..Len(toks), toks[k].type # "EOF"
  PROVE  k + 1 \in 1..Len(toks)
BY DEF Lexed, EndsOnce

\* Before an error has been reported the cursor is on a token.
LEMMA CursorInside ==
  ASSUME NEW toks, Lexed(toks), NEW n \in 1..Len(toks)+1, NEW at, CursorClean(toks, n, at)
  PROVE  n \in 1..Len(toks)
<1>1. Len(toks) \in Nat
  BY LenNat DEF Lexed
<1> SUFFICES ASSUME n = Len(toks) + 1 PROVE FALSE
  BY <1>1
<1>2. Len(toks) \in 1..n-1
  BY <1>1 DEF Lexed, EndsOnce
<1> QED
  BY <1>2 DEF CursorClean, Lexed, EndsOnce

\* What is known of the cursor holds in another call too.
LEMMA CursorStays ==
  ASSUME NEW toks, NEW n, NEW at, NEW to, CursorClean(toks, n, at), at \in AfterNumber => to \in AfterNumber
  PROVE  CursorClean(toks, n, to)
BY DEF CursorClean

\* The cursor moves over a token that no error shows in.
LEMMA CursorMoves ==
  ASSUME NEW toks, Lexed(toks), NEW n \in 1..Len(toks), NEW at, NEW to,
         CursorClean(toks, n, at), toks[n].type \notin {"EOF", "INVALID"},
         at \in AfterNumber => toks[n].type \notin WordTypes,
         toks[n].type = "INTEGER_LITERAL" => to \in AfterNumber
  PROVE  CursorClean(toks, n + 1, to)
<1>0. n \in Nat /\ n + 1 - 1 = n /\ n + 1 - 2 = n - 1 /\ n >= 1
  BY LenNat DEF Lexed
<1>1. ASSUME NEW k \in 1..n PROVE toks[k].type \notin {"EOF", "INVALID"}
  <2>1. CASE k = n
    BY <2>1
  <2>2. CASE k # n
    <3>1. k \in 1..n-1
      BY <1>0, <2>2
    <3> QED
      BY <3>1 DEF CursorClean
  <2> QED
    BY <2>1, <2>2
<1>2. ASSUME NEW k \in 1..n-1 PROVE ~(toks[k].type = "INTEGER_LITERAL" /\ toks[k + 1].type \in WordTypes)
  <2>1. CASE k = n - 1
    <3>1. k + 1 = n /\ n > 1
      BY <1>0, <2>1
    <3> QED
      BY <2>1, <3>1 DEF CursorClean
  <2>2. CASE k # n - 1
    <3>1. k \in 1..n-2
      BY <1>0, <2>2
    <3> QED
      BY <3>1 DEF CursorClean
  <2> QED
    BY <2>1, <2>2
<1> QED
  BY <1>0, <1>1, <1>2 DEF CursorClean

\* At the end, nothing is left to be wrong.
LEMMA CursorEnds ==
  ASSUME NEW toks, Lexed(toks), NEW n \in 1..Len(toks), NEW at,
         CursorClean(toks, n, at), at \notin AfterNumber, toks[n].type = "RBRACE",
         n + 1 = Len(toks)
  PROVE  ~Broken(toks)
<1>0. PICK l \in Nat : l = Len(toks)
  BY LenNat DEF Lexed
<1>1. CursorClean(toks, n + 1, "items")
  BY CursorMoves
<1>2. toks[n + 1].type = "EOF"
  BY DEF Lexed, EndsOnce
<1> SUFFICES ASSUME NEW k \in 1..Len(toks), Spoils(toks, k) PROVE FALSE
  BY DEF Broken
<1>3. n \in Nat /\ l = n + 1
  BY <1>0
<1>4. CASE k = n + 1
  BY <1>0, <1>2, <1>3, <1>4 DEF Spoils
<1>5. CASE k = n
  BY <1>5 DEF Spoils
<1>6. CASE k # n + 1 /\ k # n
  <2>1. k \in 1..n-1 /\ k \in 1..n+1-2 /\ k \in 1..n+1-1
    BY <1>0, <1>3, <1>6
  <2> QED
    BY <1>1, <2>1 DEF Spoils, CursorClean
<1> QED
  BY <1>4, <1>5, <1>6

-----------------------------------------------------------------------------
(* The tables *)

\* The unary operators.
LEMMA UnaryTable ==
  /\ DOMAIN P!UnaryType = {"TILDE", "MINUS", "EXCLAMATION"}
  /\ DOMAIN P!UnaryType \subseteq P!TokenType
  /\ \A o \in DOMAIN P!UnaryType : P!UnaryType[o] \in P!UnaryOps
<1>1. DOMAIN P!UnaryType = {"TILDE", "MINUS", "EXCLAMATION"}
  BY DEF P!UnaryType
<1>2. DOMAIN P!UnaryType \subseteq P!TokenType
  BY <1>1 DEF P!TokenType
<1>3. \A o \in DOMAIN P!UnaryType : P!UnaryType[o] \in P!UnaryOps
  BY DEF P!UnaryType, P!UnaryOps
<1> QED
  BY <1>1, <1>2, <1>3

\* The binary operators.
LEMMA BinaryTable ==
  /\ DOMAIN P!BinaryType \subseteq P!TokenType
  /\ \A o \in DOMAIN P!BinaryType : P!BinaryType[o] \in P!BinaryOps
<1>1. DOMAIN P!BinaryType \subseteq P!TokenType
  BY DEF P!BinaryType, P!TokenType
<1>2. \A o \in DOMAIN P!BinaryType : P!BinaryType[o] \in P!BinaryOps
  BY DEF P!BinaryType, P!BinaryOps, P!SimpleOps, P!RelationalOps, P!ShortOps
<1> QED
  BY <1>1, <1>2

\* A binary operator is none of the words, and has a precedence.
LEMMA BinaryWords ==
  ASSUME NEW t, P!is_binary_operator(t)
  PROVE  /\ t \notin WordTypes /\ t \notin {"EOF", "INVALID", "INTEGER_LITERAL", "RBRACE"}
         /\ P!precedence(t) \in 1..50
BY DEF P!is_binary_operator, P!BinaryType, WordTypes, P!precedence

\* g is a new frame at p; f at p.
IsNew(g, p)   == g \in Frames /\ g.at = p /\ g.left = P!NULL
IsAt(f, p, g) == g \in Frames /\ g.at = p /\ g.left = f.left /\ g.op = f.op

\* A call as it is made.
LEMMA FrameIs ==
  ASSUME NEW p \in P!Stops, NEW m \in 0..51
  PROVE  IsNew(P!Frame(p, m), p)
BY DEF P!Frame, Frames, P!TokenType, P!NULL, P!NoName, IsNew

\* A call that has gone on to another stop.
LEMMA FrameAt ==
  ASSUME NEW f \in Frames, NEW p \in P!Stops, NEW g, g = [f EXCEPT !.at = p]
  PROVE  IsAt(f, p, g)
BY DEF Frames, IsAt

\* A node has the fields of one.
LEMMA NodeIs ==
  ASSUME NEW a \in Nodes
  PROVE  a = P!Node(a.type, a.op, a.name, a.value, a.left, a.right) /\ P!IsSequence(a.name) /\ a.value \in Int
<1>1. P!IsSequence(a.name)
  <2>1. a.name \in Seq(STRING)
    BY DEF Nodes
  <2> QED
    BY <2>1 DEF P!IsSequence
<1>2. a = P!Node(a.type, a.op, a.name, a.value, a.left, a.right) /\ a.value \in Int
  BY DEF Nodes, P!Node
<1> QED
  BY <1>1, <1>2

\* What is known of the call on top.
LEMMA TopFacts ==
  ASSUME TreeInv, calls # <<>>
  PROVE  /\ Len(calls) > 0 /\ calls \in Seq(Frames) /\ P!Top = calls[Len(calls)] /\ P!Top \in Frames
         /\ FrameOK(P!Top, Len(parsedTree)) /\ P!Top.at \in P!Stops /\ Len(parsedTree) \in Nat
<1>1. calls \in Seq(Frames) /\ parsedTree \in Seq(Nodes) /\ StackOK(calls, Len(parsedTree))
  BY DEF TreeInv, Forest
<1>2. PICK n \in Nat : n = Len(calls)
  BY <1>1, LenNat
<1>3. n > 0 /\ n \in 1..n
  BY <1>1, <1>2
<1>4. Len(parsedTree) \in Nat
  BY <1>1, LenNat
<1>5. calls[n] \in Frames /\ FrameOK(calls[n], Len(parsedTree))
  BY <1>1, <1>2, <1>3 DEF StackOK
<1>6. P!Top = calls[n]
  BY <1>2 DEF P!Top
<1>7. calls[n].at \in P!Stops
  BY <1>5 DEF Frames
<1> QED
  BY <1>1, <1>2, <1>3, <1>4, <1>5, <1>6, <1>7

\* The call on top makes another: the tree stays as it is.
LEMMA TreeCall ==
  ASSUME TreeInv, calls # <<>>, P!Top.at \notin Awaits,
         NEW f \in Frames, NEW g \in Frames,
         SameFunction(P!Top.at, f.at), f.left = P!Top.left, f.at \in KeepsLeft => P!Top.at \in KeepsLeft,
         f.at = "right" => f.op \in DOMAIN P!BinaryType, f.at = "inner" => f.op \in DOMAIN P!UnaryType,
         Calls(f.at, g.at), g.left = P!NULL, g.at \notin Awaits, g.at \notin KeepsLeft,
         f.left # P!NULL => f.at \in KeepsLeft,
         P!Call(g, f), UNCHANGED <<parsedTree, body, ret, parserError>>
  PROVE  TreeInv'
<1>1. calls' = Called(calls, f, g)
  BY DEF P!Call, P!Below, Called
<1>2. FrameOK(f, Len(parsedTree))
  BY TopFacts DEF FrameOK
<1>3. FrameOK(g, Len(parsedTree))
  <2>1. g.left \in 0..Len(parsedTree)
    BY TopFacts DEF P!NULL
  <2>2. g.at # "right" /\ g.at # "inner"
    BY DEF Awaits, AwaitsFactor, KeepsLeft
  <2> QED
    BY <2>1, <2>2 DEF FrameOK, P!NULL, Awaits, AwaitsExpression, AwaitsFactor, KeepsLeft
<1>4. Forest(parsedTree, body, calls, ret) /\ Len(calls) > 0 /\ P!Top = calls[Len(calls)]
  BY TopFacts DEF TreeInv
<1>5. PICK GG : GG = calls'
  OBVIOUS
<1>6. Forest(parsedTree, body, GG, ret) /\ (Clean(parsedTree, body, calls, ret) => Clean(parsedTree, body, GG, ret))
  BY <1>1, <1>2, <1>3, <1>4, <1>5, CallKeeps
<1> QED
  BY <1>5, <1>6 DEF TreeInv

\* The call on top goes on: the tree stays as it is.
LEMMA TreeBecome ==
  ASSUME TreeInv, calls # <<>>, P!Top.at \notin Awaits,
         NEW f \in Frames,
         SameFunction(P!Top.at, f.at), f.left = P!NULL, P!Top.at \notin KeepsLeft,
         f.at \notin KeepsLeft, f.at \notin Awaits,
         P!Become(f), UNCHANGED <<parsedTree, body, ret, parserError>>
  PROVE  TreeInv'
<1>1. calls' = Replaced(calls, f)
  BY DEF P!Become, P!Below, Replaced
<1>2. FrameOK(f, Len(parsedTree))
  BY TopFacts DEF FrameOK, P!NULL, Awaits, AwaitsExpression, AwaitsFactor, KeepsLeft
<1>4. Forest(parsedTree, body, calls, ret) /\ Len(calls) > 0 /\ P!Top = calls[Len(calls)] /\ P!Top.left = P!NULL
  BY TopFacts, NotAwaited DEF TreeInv
<1>5. PICK GG : GG = calls'
  OBVIOUS
<1>6. Forest(parsedTree, body, GG, ret) /\ (Clean(parsedTree, body, calls, ret) => Clean(parsedTree, body, GG, ret))
  BY <1>1, <1>2, <1>4, <1>5, BecomeKeeps
<1> QED
  BY <1>5, <1>6 DEF TreeInv

\* Without an error the answer and the left operand are nodes of an expression.
LEMMA CleanAnswer ==
  ASSUME TreeInv, calls # <<>>, ~parserError
  PROVE  /\ P!Top.at \in Awaits => ret # P!NULL /\ (P!Top.at # "item" => IsExpression(parsedTree[ret]))
         /\ P!Top.at \in KeepsLeft => P!Top.left # P!NULL /\ IsExpression(parsedTree[P!Top.left])
<1>1. Clean(parsedTree, body, calls, ret) /\ Len(calls) > 0 /\ P!Top = calls[Len(calls)] /\ calls \in Seq(Frames)
  BY TopFacts DEF TreeInv
<1>2. Len(calls) \in 1..Len(calls)
  BY <1>1, LenNat
<1> QED
  BY <1>1, <1>2 DEF Clean

\* A return of no new node.
LEMMA TreeReturn ==
  ASSUME TreeInv, calls # <<>>, P!Top.at \notin FunctionStops,
         NEW s, \/ s = P!NULL
                \/ s = ret /\ P!Top.at \in Awaits /\ P!Top.at \notin KeepsLeft
                \/ s = P!Top.left /\ P!Top.at \notin Awaits,
         P!Return(s), UNCHANGED <<parsedTree, body>>,
         ~parserError' => ~parserError /\ s # P!NULL /\ P!Top.at \in Awaits \cup KeepsLeft /\ P!Top.at # "item"
  PROVE  TreeInv'
<1>1. calls' = Returned(calls) /\ ret' = s
  BY DEF P!Return, P!Below, Returned
<1>4. Forest(parsedTree, body, calls, ret) /\ Len(calls) > 0 /\ P!Top = calls[Len(calls)]
  BY TopFacts DEF TreeInv
<1>5. PICK GG : GG = calls'
  OBVIOUS
<1>6. Forest(parsedTree, body, GG, s)
  BY <1>1, <1>4, <1>5, ReturnKeeps
<1>7. ASSUME ~parserError' PROVE Clean(parsedTree, body, GG, s)
  <2>1. Clean(parsedTree, body, calls, ret)
    BY <1>7 DEF TreeInv
  <2> QED
    BY <1>1, <1>4, <1>5, <1>7, <2>1, ReturnKeeps
<1> QED
  BY <1>1, <1>5, <1>6, <1>7 DEF TreeInv

\* A return of a new node, of what the call has kept and of what it was answered.
LEMMA TreeNew ==
  ASSUME TreeInv, calls # <<>>, P!Top.at \notin FunctionStops,
         NEW N \in Nodes,
         \/ N.left = P!Top.left /\ N.right = IF P!Top.at \in Awaits THEN ret ELSE P!NULL
         \/ N.left = (IF P!Top.at \in Awaits THEN ret ELSE P!NULL) /\ N.right = P!Top.left,
         P!ReturnNew(N), UNCHANGED <<body, parserError>>,
         ~parserError => /\ P!IsNode(N) /\ P!Top.at # "item"
                         /\ P!Top.at \in KeepsLeft \/ P!Top.left = P!NULL
                         /\ P!Top.at \in ItemStops \/ IsExpression(N)
  PROVE  TreeInv'
<1>1. calls' = Returned(calls) /\ parsedTree' = Append(parsedTree, N) /\ ret' = Len(parsedTree) + 1
  BY DEF P!ReturnNew, P!Return, P!Below, Returned
<1>4. Forest(parsedTree, body, calls, ret) /\ Len(calls) > 0 /\ P!Top = calls[Len(calls)]
  BY TopFacts DEF TreeInv
<1>5. PICK GG, A2, s : GG = calls' /\ A2 = parsedTree' /\ s = ret'
  OBVIOUS
<1>2. LiveRet(calls, ret) = IF P!Top.at \in Awaits THEN ret ELSE P!NULL
  BY <1>4 DEF LiveRet
<1>3. \/ N.left = calls[Len(calls)].left /\ N.right = LiveRet(calls, ret)
      \/ N.left = LiveRet(calls, ret) /\ N.right = calls[Len(calls)].left
  BY <1>2, <1>4
<1>6. /\ Forest(A2, body, GG, s)
      /\ Clean(parsedTree, body, calls, ret) /\ CleanNew(parsedTree, calls, N) => Clean(A2, body, GG, s)
  <2>1. A2 = Append(parsedTree, N) /\ GG = Returned(calls) /\ s = Len(parsedTree) + 1
    BY <1>1, <1>5
  <2>2. calls[Len(calls)].at \notin FunctionStops
    BY <1>4
  <2>3. Forest(A2, body, GG, s)
    BY <2>1, <2>2, <1>3, <1>4, NewKeeps
  <2>4. Clean(parsedTree, body, calls, ret) /\ CleanNew(parsedTree, calls, N) => Clean(A2, body, GG, s)
    BY <2>1, <2>2, <1>3, <1>4, NewKeeps
  <2> QED
    BY <2>3, <2>4
<1>7. ASSUME ~parserError' PROVE Clean(A2, body, GG, s)
  <2>1. Clean(parsedTree, body, calls, ret) /\ ~parserError
    BY <1>7 DEF TreeInv
  <2>2. \A c \in P!Kids(N) : IsExpression(parsedTree[c])
    BY <1>2, <1>3, <1>4, <2>1, CleanAnswer DEF P!Kids
  <2>3. CleanNew(parsedTree, calls, N)
    BY <1>4, <2>1, <2>2 DEF CleanNew
  <2> QED
    BY <1>6, <2>1, <2>3
<1> QED
  BY <1>1, <1>5, <1>6, <1>7 DEF TreeInv

\* What is known of a token.
LEMMA TokenFacts ==
  ASSUME CursorInv, NEW k \in 1..Len(tokenArray)
  PROVE  tokenArray[k].type \in P!TokenType /\ tokenArray[k].literal \in Seq(STRING)
<1>1. tokenArray[k] \in ParToken
  BY DEF CursorInv, Lexed
<1> QED
  BY <1>1 DEF ParToken

\* What is known of the cursor.
LEMMA CursorFacts ==
  ASSUME CursorInv
  PROVE  /\ Len(tokenArray) \in Nat /\ nextToken \in Nat /\ nextToken >= 1
         /\ nextToken <= Len(tokenArray) => nextToken \in 1..Len(tokenArray) /\ P!Peek \in P!TokenType
<1>1. Len(tokenArray) \in Nat /\ nextToken \in 1..Len(tokenArray)+1
  BY LenNat DEF CursorInv, Lexed
<1>2. ASSUME nextToken <= Len(tokenArray) PROVE nextToken \in 1..Len(tokenArray) /\ P!Peek \in P!TokenType
  <2>1. nextToken \in 1..Len(tokenArray)
    BY <1>1, <1>2
  <2> QED
    BY <2>1, TokenFacts DEF P!Peek
<1> QED
  BY <1>1, <1>2

Running == ParInv /\ parsing = "running" /\ (P!Reads => nextToken <= Len(tokenArray))

\* What is known of a parser that takes a step.
LEMMA RunningFacts ==
  ASSUME Running
  PROVE  /\ TreeInv /\ CursorInv /\ calls # <<>> /\ P!Top \in Frames /\ FrameOK(P!Top, Len(parsedTree)) /\ Len(parsedTree) \in Nat
         /\ P!Reads => nextToken \in 1..Len(tokenArray) /\ P!Peek \in P!TokenType
         /\ Forest(parsedTree, body, calls, ret) /\ Len(calls) > 0 /\ P!Top = calls[Len(calls)]
         /\ ret \in 0..Len(parsedTree) /\ parserError \in BOOLEAN
<1>1. TreeInv /\ CursorInv /\ calls # <<>>
  BY DEF Running, ParInv, CursorInv
<1>2. P!Reads => nextToken \in 1..Len(tokenArray) /\ P!Peek \in P!TokenType
  BY <1>1, CursorFacts DEF Running
<1>3. Forest(parsedTree, body, calls, ret) /\ ret \in 0..Len(parsedTree) /\ parserError \in BOOLEAN
  BY <1>1 DEF TreeInv, CursorInv, Forest
<1> QED
  BY <1>1, <1>2, <1>3, TopFacts

-----------------------------------------------------------------------------
(* The calls *)

\* The steps that call another function.
LEMMA CallsKeepTree ==
  ASSUME Running, P!ParseBlockItem \/ P!ParseReturn \/ P!ParseExpressionStatement \/ P!ParseExpression \/ P!ParseParens
  PROVE  TreeInv'
<1>0. /\ TreeInv /\ calls # <<>> /\ P!Top \in Frames /\ FrameOK(P!Top, Len(parsedTree))
  BY RunningFacts
<1>1. CASE P!ParseBlockItem
  <2>0. P!Top.at = "items" /\ UNCHANGED <<parsedTree, body, ret, parserError>>
    BY <1>1 DEF P!ParseBlockItem, P!At, P!Same
  <2>1. PICK f : f = [P!Top EXCEPT !.at = "item"]
    OBVIOUS
  <2>a. "item" \in P!Stops
    BY DEF P!Stops
  <2>2. IsAt(P!Top, "item", f)
    BY <1>0, <2>1, <2>a, FrameAt
  <2>3. PICK g : g = P!Frame(IF P!Peek = "INT" THEN "declaration" ELSE "statement", 0)
    OBVIOUS
  <2>b. "declaration" \in P!Stops /\ "statement" \in P!Stops /\ 0 \in 0..51
    BY DEF P!Stops
  <2>4. IsNew(g, "declaration") \/ IsNew(g, "statement")
    <3>1. CASE P!Peek = "INT"
      BY <2>3, <2>b, <3>1, FrameIs
    <3>2. CASE P!Peek # "INT"
      BY <2>3, <2>b, <3>2, FrameIs
    <3> QED
      BY <3>1, <3>2
  <2>5. P!Call(g, f)
    BY <1>1, <2>1, <2>3 DEF P!ParseBlockItem, P!CallThen
  <2>6. P!Top.left = P!NULL
    BY <1>0, <2>0, NotAwaited DEF KeepsLeft
  <2> QED
    BY <1>0, <2>0, <2>2, <2>4, <2>5, <2>6, TreeCall
       DEF IsNew, IsAt, SameFunction, FunctionStops, Calls, ItemStops, Awaits, AwaitsExpression, AwaitsFactor, KeepsLeft
<1>2. CASE P!ParseReturn
  <2>0. P!Top.at = "statement" /\ UNCHANGED <<parsedTree, body, ret, parserError>>
    BY <1>2 DEF P!ParseReturn, P!At, P!Same
  <2>1. PICK f : f = [P!Top EXCEPT !.at = "returned"]
    OBVIOUS
  <2>a. "returned" \in P!Stops
    BY DEF P!Stops
  <2>2. IsAt(P!Top, "returned", f)
    BY <1>0, <2>1, <2>a, FrameAt
  <2>3. PICK g : g = P!Frame("expression", 0)
    OBVIOUS
  <2>b. "expression" \in P!Stops /\ 0 \in 0..51
    BY DEF P!Stops
  <2>4. IsNew(g, "expression")
    BY <2>3, <2>b, FrameIs
  <2>5. P!Call(g, f)
    BY <1>2, <2>1, <2>3 DEF P!ParseReturn, P!CallThen
  <2>6. P!Top.left = P!NULL
    BY <1>0, <2>0, NotAwaited DEF KeepsLeft
  <2> QED
    BY <1>0, <2>0, <2>2, <2>4, <2>5, <2>6, TreeCall
       DEF IsNew, IsAt, SameFunction, ItemStops, Calls, ExpressionStops, Awaits, AwaitsExpression, AwaitsFactor, KeepsLeft
<1>3. CASE P!ParseExpressionStatement
  <2>0. P!Top.at = "statement" /\ UNCHANGED <<parsedTree, body, ret, parserError>>
    BY <1>3 DEF P!ParseExpressionStatement, P!At, P!Same
  <2>1. PICK f : f = [P!Top EXCEPT !.at = "expression statement"]
    OBVIOUS
  <2>a. "expression statement" \in P!Stops
    BY DEF P!Stops
  <2>2. IsAt(P!Top, "expression statement", f)
    BY <1>0, <2>1, <2>a, FrameAt
  <2>3. PICK g : g = P!Frame("expression", 0)
    OBVIOUS
  <2>b. "expression" \in P!Stops /\ 0 \in 0..51
    BY DEF P!Stops
  <2>4. IsNew(g, "expression")
    BY <2>3, <2>b, FrameIs
  <2>5. P!Call(g, f)
    BY <1>3, <2>1, <2>3 DEF P!ParseExpressionStatement, P!CallThen
  <2>6. P!Top.left = P!NULL
    BY <1>0, <2>0, NotAwaited DEF KeepsLeft
  <2> QED
    BY <1>0, <2>0, <2>2, <2>4, <2>5, <2>6, TreeCall
       DEF IsNew, IsAt, SameFunction, ItemStops, Calls, ExpressionStops, Awaits, AwaitsExpression, AwaitsFactor, KeepsLeft
<1>4. CASE P!ParseExpression
  <2>0. P!Top.at = "expression" /\ UNCHANGED <<parsedTree, body, ret, parserError>>
    BY <1>4 DEF P!ParseExpression, P!At, P!Same
  <2>1. PICK f : f = [P!Top EXCEPT !.at = "left"]
    OBVIOUS
  <2>a. "left" \in P!Stops
    BY DEF P!Stops
  <2>2. IsAt(P!Top, "left", f)
    BY <1>0, <2>1, <2>a, FrameAt
  <2>3. PICK g : g = P!Frame("factor", 0)
    OBVIOUS
  <2>b. "factor" \in P!Stops /\ 0 \in 0..51
    BY DEF P!Stops
  <2>4. IsNew(g, "factor")
    BY <2>3, <2>b, FrameIs
  <2>5. P!Call(g, f)
    BY <1>4, <2>1, <2>3 DEF P!ParseExpression, P!CallThen
  <2>6. P!Top.left = P!NULL
    BY <1>0, <2>0, NotAwaited DEF KeepsLeft
  <2> QED
    BY <1>0, <2>0, <2>2, <2>4, <2>5, <2>6, TreeCall
       DEF IsNew, IsAt, SameFunction, ExpressionStops, Calls, FactorStops, Awaits, AwaitsExpression, AwaitsFactor, KeepsLeft
<1>5. CASE P!ParseParens
  <2>0. P!Top.at = "factor" /\ UNCHANGED <<parsedTree, body, ret, parserError>>
    BY <1>5 DEF P!ParseParens, P!At, P!Same
  <2>1. PICK f : f = [P!Top EXCEPT !.at = "parens"]
    OBVIOUS
  <2>a. "parens" \in P!Stops
    BY DEF P!Stops
  <2>2. IsAt(P!Top, "parens", f)
    BY <1>0, <2>1, <2>a, FrameAt
  <2>3. PICK g : g = P!Frame("expression", 0)
    OBVIOUS
  <2>b. "expression" \in P!Stops /\ 0 \in 0..51
    BY DEF P!Stops
  <2>4. IsNew(g, "expression")
    BY <2>3, <2>b, FrameIs
  <2>5. P!Call(g, f)
    BY <1>5, <2>1, <2>3 DEF P!ParseParens, P!CallThen
  <2>6. P!Top.left = P!NULL
    BY <1>0, <2>0, NotAwaited DEF KeepsLeft
  <2> QED
    BY <1>0, <2>0, <2>2, <2>4, <2>5, <2>6, TreeCall
       DEF IsNew, IsAt, SameFunction, FactorStops, Calls, ExpressionStops, Awaits, AwaitsExpression, AwaitsFactor, KeepsLeft
<1> QED
  BY <1>1, <1>2, <1>3, <1>4, <1>5

\* The steps that call for an operand.
LEMMA OperandsKeepTree ==
  ASSUME Running, P!ParseAssignment \/ P!ParseRightOperand \/ P!ParseUnary
  PROVE  TreeInv'
<1>0. /\ TreeInv /\ calls # <<>> /\ P!Top \in Frames /\ FrameOK(P!Top, Len(parsedTree))
  BY RunningFacts
<1>1. CASE P!ParseAssignment
  <2>0. P!Top.at = "operator" /\ UNCHANGED <<parsedTree, body, ret, parserError>>
    BY <1>1 DEF P!ParseAssignment, P!At, P!Same
  <2>1. PICK f : f = [P!Top EXCEPT !.at = "assigned"]
    OBVIOUS
  <2>a. "assigned" \in P!Stops
    BY DEF P!Stops
  <2>2. IsAt(P!Top, "assigned", f)
    BY <1>0, <2>1, <2>a, FrameAt
  <2>3. PICK g : g = P!Frame("expression", P!precedence(P!Peek))
    OBVIOUS
  <2>7. P!precedence(P!Peek) \in 1..50
    BY <1>1, BinaryWords DEF P!ParseAssignment, P!Ends
  <2>b. "expression" \in P!Stops /\ P!precedence(P!Peek) \in 0..51
    BY <2>7 DEF P!Stops
  <2>4. IsNew(g, "expression")
    BY <2>3, <2>b, FrameIs
  <2>5. P!Call(g, f)
    BY <1>1, <2>1, <2>3 DEF P!ParseAssignment, P!CallThen
  <2> QED
    BY <1>0, <2>0, <2>2, <2>4, <2>5, TreeCall
       DEF IsNew, IsAt, SameFunction, ExpressionStops, Calls, Awaits, AwaitsExpression, AwaitsFactor, KeepsLeft
<1>2. CASE P!ParseRightOperand
  <2>0. P!Top.at = "operator" /\ UNCHANGED <<parsedTree, body, ret, parserError>>
    BY <1>2 DEF P!ParseRightOperand, P!At, P!Same
  <2>1. PICK f : f = [P!Top EXCEPT !.at = "right", !.op = P!Peek]
    OBVIOUS
  <2>7. P!precedence(P!Peek) \in 1..50 /\ P!Peek \in DOMAIN P!BinaryType
    BY <1>2, BinaryWords DEF P!ParseRightOperand, P!Ends, P!is_binary_operator
  <2>8. P!Peek \in P!TokenType
    BY <2>7, BinaryTable
  <2>2. f \in Frames /\ f.at = "right" /\ f.left = P!Top.left /\ f.op = P!Peek
    BY <1>0, <2>0, <2>1, <2>8 DEF P!Stops, Frames
  <2>3. PICK g : g = P!Frame("expression", P!precedence(P!Peek) + 1)
    OBVIOUS
  <2>b. "expression" \in P!Stops /\ P!precedence(P!Peek) + 1 \in 0..51
    BY <2>7 DEF P!Stops
  <2>4. IsNew(g, "expression")
    BY <2>3, <2>b, FrameIs
  <2>5. P!Call(g, f)
    BY <1>2, <2>1, <2>3 DEF P!ParseRightOperand
  <2> QED
    BY <1>0, <2>0, <2>2, <2>4, <2>5, <2>7, TreeCall
       DEF IsNew, IsAt, SameFunction, ExpressionStops, Calls, Awaits, AwaitsExpression, AwaitsFactor, KeepsLeft
<1>3. CASE P!ParseUnary
  <2>0. P!Top.at = "factor" /\ UNCHANGED <<parsedTree, body, ret, parserError>> /\ P!Peek \in DOMAIN P!UnaryType
    BY <1>3 DEF P!ParseUnary, P!At, P!Same
  <2>1. PICK f : f = [P!Top EXCEPT !.at = "inner", !.op = P!Peek]
    OBVIOUS
  <2>8. P!Peek \in P!TokenType
    BY <2>0, UnaryTable
  <2>6. P!Top.left = P!NULL
    BY <1>0, <2>0, NotAwaited DEF KeepsLeft
  <2>2. f \in Frames /\ f.at = "inner" /\ f.left = P!Top.left /\ f.op = P!Peek
    BY <1>0, <2>0, <2>1, <2>8 DEF P!Stops, Frames
  <2>3. PICK g : g = P!Frame("factor", 0)
    OBVIOUS
  <2>b. "factor" \in P!Stops /\ 0 \in 0..51
    BY DEF P!Stops
  <2>4. IsNew(g, "factor")
    BY <2>3, <2>b, FrameIs
  <2>5. P!Call(g, f)
    BY <1>3, <2>1, <2>3 DEF P!ParseUnary
  <2> QED
    BY <1>0, <2>0, <2>2, <2>4, <2>5, <2>6, TreeCall
       DEF IsNew, IsAt, SameFunction, FactorStops, Calls, Awaits, AwaitsExpression, AwaitsFactor, KeepsLeft
<1> QED
  BY <1>1, <1>2, <1>3

\* The steps that only go on.
LEMMA StepsKeepTree ==
  ASSUME Running, P!ParseHeader \/ P!LeftParsed \/ P!PushBlockItem \/ P!EndExpression
  PROVE  TreeInv'
<1>0. /\ TreeInv /\ calls # <<>> /\ P!Top \in Frames /\ FrameOK(P!Top, Len(parsedTree)) /\ ret \in 0..Len(parsedTree) /\ Len(parsedTree) \in Nat
      /\ Forest(parsedTree, body, calls, ret) /\ Len(calls) > 0 /\ P!Top = calls[Len(calls)]
  BY RunningFacts
<1>1. CASE P!ParseHeader
  <2>0. P!Top.at = "function" /\ UNCHANGED <<parsedTree, body, ret, parserError>>
    BY <1>1 DEF P!ParseHeader, P!At, P!Same
  <2>1. PICK f : f = [P!Top EXCEPT !.at = "items"]
    OBVIOUS
  <2>2. IsAt(P!Top, "items", f)
    BY <1>0, <2>1, FrameAt DEF P!Stops
  <2>3. P!Top.left = P!NULL
    BY <1>0, <2>0, NotAwaited DEF KeepsLeft
  <2>4. P!Become(f)
    BY <1>1, <2>1 DEF P!ParseHeader, P!Goto
  <2> QED
    BY <1>0, <2>0, <2>2, <2>3, <2>4, TreeBecome
       DEF IsAt, SameFunction, FunctionStops, Awaits, AwaitsExpression, AwaitsFactor, KeepsLeft
<1>2. CASE P!LeftParsed
  <2>0. P!Top.at = "left" /\ UNCHANGED <<parsedTree, body, ret, parserError>>
    BY <1>2 DEF P!LeftParsed, P!At, P!Same
  <2>1. PICK f : f = [P!Top EXCEPT !.at = "operator", !.left = ret]
    OBVIOUS
  <2>7. ret \in Nat
    BY <1>0
  <2>2. f \in Frames /\ f.at = "operator" /\ f.left = ret
    BY <1>0, <2>1, <2>7 DEF Frames, P!Stops
  <2>3. PICK GG : GG = calls'
    OBVIOUS
  <2>4. GG = Replaced(calls, f)
    BY <1>2, <2>1, <2>3 DEF P!LeftParsed, P!Become, P!Below, Replaced
  <2>6. calls[Len(calls)].at = "left"
    BY <1>0, <2>0
  <2>5. Forest(parsedTree, body, GG, ret) /\ (Clean(parsedTree, body, calls, ret) => Clean(parsedTree, body, GG, ret))
    BY <1>0, <2>2, <2>4, <2>6, LeftKeeps
  <2> QED
    BY <1>0, <2>0, <2>3, <2>5 DEF TreeInv
<1>3. CASE P!PushBlockItem
  <2>0. P!Top.at = "item" /\ ret # P!NULL /\ UNCHANGED <<parsedTree, ret, parserError>>
    BY <1>3 DEF P!PushBlockItem, P!At
  <2>1. PICK f : f = [P!Top EXCEPT !.at = "items"]
    OBVIOUS
  <2>2. IsAt(P!Top, "items", f)
    BY <1>0, <2>1, FrameAt DEF P!Stops
  <2>3. P!Top.left = P!NULL
    BY <1>0, <2>0, NotAwaited DEF KeepsLeft
  <2>4. PICK GG, D : GG = calls' /\ D = body'
    OBVIOUS
  <2>5. GG = Replaced(calls, f) /\ D = Append(body, ret)
    BY <1>3, <2>1, <2>4 DEF P!PushBlockItem, P!Goto, P!Become, P!Below, Replaced
  <2>6. f \in Frames /\ f.at = "items" /\ f.left = P!NULL
    BY <2>2, <2>3 DEF IsAt
  <2>8. calls[Len(calls)].at = "item"
    BY <1>0, <2>0
  <2>7. Forest(parsedTree, D, GG, ret) /\ (Clean(parsedTree, body, calls, ret) => Clean(parsedTree, D, GG, ret))
    BY <1>0, <2>0, <2>5, <2>6, <2>8, PushKeeps
  <2> QED
    BY <1>0, <2>0, <2>4, <2>7 DEF TreeInv
<1>4. CASE P!EndExpression
  <2>0. P!Top.at = "operator" /\ UNCHANGED <<parsedTree, body, parserError>> /\ P!Return(P!Top.left)
    BY <1>4 DEF P!EndExpression, P!At, P!Same
  <2>1. ~parserError => P!Top.left # P!NULL
    BY <1>0, <2>0, CleanAnswer DEF KeepsLeft
  <2> QED
    BY <1>0, <2>0, <2>1, TreeReturn DEF FunctionStops, Awaits, AwaitsExpression, AwaitsFactor, KeepsLeft
<1> QED
  BY <1>1, <1>2, <1>3, <1>4

\* The steps that end the function's body.
LEMMA EndsKeepTree ==
  ASSUME Running, P!MalformedHeader \/ P!FailedBlockItem \/ P!EndFunction
  PROVE  TreeInv'
<1>0. Forest(parsedTree, body, calls, ret) /\ Len(calls) > 0 /\ P!Top = calls[Len(calls)] /\ TreeInv /\ calls # <<>>
  BY RunningFacts
<1>1. calls' = <<>> /\ UNCHANGED <<parsedTree, body, ret>>
  BY DEF P!MalformedHeader, P!FailedBlockItem, P!EndFunction, P!NoProgram, P!tree
<1>2. Forest(parsedTree, body, <<>>, ret)
  BY <1>0, EndKeeps
<1>3. ASSUME ~parserError' PROVE Clean(parsedTree, body, <<>>, ret)
  <2>1. CASE P!MalformedHeader
    BY <1>3, <2>1 DEF P!MalformedHeader, P!Error
  <2>2. CASE P!FailedBlockItem
    <3>1. ~parserError /\ P!Top.at = "item" /\ ret = P!NULL
      BY <1>3, <2>2 DEF P!FailedBlockItem, P!At
    <3> QED
      BY <1>0, <3>1, CleanAnswer DEF Awaits
  <2>3. CASE P!EndFunction
    <3>1. ~parserError /\ P!Top.at = "items"
      BY <1>3, <2>3 DEF P!EndFunction, P!At
    <3>2. Clean(parsedTree, body, calls, ret) /\ calls[Len(calls)].at = "items"
      BY <1>0, <3>1 DEF TreeInv
    <3> QED
      BY <1>0, <3>2, EndKeeps
  <2> QED
    BY <2>1, <2>2, <2>3
<1> QED
  BY <1>1, <1>2, <1>3 DEF TreeInv

\* A return of the null pointer after an error, or of what an inner call returned.
LEMMA ReturnsKeepTree ==
  ASSUME Running, P!FailedExpression \/ P!EndExpressionStatement \/ P!EndParens \/ P!MalformedFactor
  PROVE  TreeInv'
<1>0. TreeInv /\ calls # <<>>
  BY RunningFacts
<1>1. CASE P!FailedExpression
  <2>0. /\ P!Top.at \in {"initializer", "returned"} /\ ret = P!NULL /\ UNCHANGED <<parsedTree, body, parserError>> /\ P!Return(P!NULL)
    BY <1>1 DEF P!FailedExpression, P!Same
  <2>1. parserError
    BY <1>0, <2>0, CleanAnswer DEF Awaits, AwaitsExpression
  <2> QED
    BY <1>0, <2>0, <2>1, TreeReturn DEF FunctionStops
<1>2. CASE P!EndExpressionStatement
  <2>0. P!Top.at = "expression statement" /\ UNCHANGED body
    BY <1>2 DEF P!EndExpressionStatement, P!At, P!Same
  <2>1. CASE P!Peek = "SEMICOLON"
    <3>1. P!Return(ret) /\ UNCHANGED <<parsedTree, parserError>>
      BY <1>2, <2>1 DEF P!EndExpressionStatement, P!expect
    <3>2. ~parserError => ret # P!NULL
      BY <1>0, <2>0, CleanAnswer DEF Awaits, AwaitsExpression
    <3> QED
      BY <1>0, <2>0, <3>1, <3>2, TreeReturn DEF FunctionStops, Awaits, AwaitsExpression, KeepsLeft
  <2>2. CASE P!Peek # "SEMICOLON"
    <3>1. P!Return(P!NULL) /\ UNCHANGED parsedTree /\ parserError'
      BY <1>2, <2>2 DEF P!EndExpressionStatement, P!expect, P!Error
    <3> QED
      BY <1>0, <2>0, <3>1, TreeReturn DEF FunctionStops
  <2> QED
    BY <2>1, <2>2
<1>3. CASE P!EndParens
  <2>0. P!Top.at = "parens" /\ UNCHANGED body
    BY <1>3 DEF P!EndParens, P!At, P!Same
  <2>1. CASE P!Peek = "RPAREN"
    <3>1. P!Return(ret) /\ UNCHANGED <<parsedTree, parserError>>
      BY <1>3, <2>1 DEF P!EndParens, P!expect
    <3>2. ~parserError => ret # P!NULL
      BY <1>0, <2>0, CleanAnswer DEF Awaits, AwaitsExpression
    <3> QED
      BY <1>0, <2>0, <3>1, <3>2, TreeReturn DEF FunctionStops, Awaits, AwaitsExpression, KeepsLeft
  <2>2. CASE P!Peek # "RPAREN"
    <3>1. P!Return(P!NULL) /\ UNCHANGED parsedTree /\ parserError'
      BY <1>3, <2>2 DEF P!EndParens, P!expect, P!Error
    <3> QED
      BY <1>0, <2>0, <3>1, TreeReturn DEF FunctionStops
  <2> QED
    BY <2>1, <2>2
<1>4. CASE P!MalformedFactor
  <2>0. P!Top.at = "factor" /\ UNCHANGED <<parsedTree, body>> /\ P!Return(P!NULL) /\ parserError'
    BY <1>4 DEF P!MalformedFactor, P!At, P!Same, P!Error
  <2> QED
    BY <1>0, <2>0, TreeReturn DEF FunctionStops
<1> QED
  BY <1>1, <1>2, <1>3, <1>4

IsMade(N, l, r) == N \in Nodes /\ N.left = l /\ N.right = r

\* No name is a name of no character.
LEMMA NoNameIs == P!NoName \in Seq(STRING)
BY DEF P!NoName

\* A node has the children that it is made with.
LEMMA NodeMade ==
  ASSUME NEW t \in NodeTypes, NEW o \in NodeOps, NEW id \in Seq(STRING), NEW v \in Int, NEW l \in Nat, NEW r \in Nat,
         NEW N, N = P!Node(t, o, id, v, l, r)
  PROVE  IsMade(N, l, r) /\ N.type = t /\ N.op = o
BY DEF IsMade, P!Node, Nodes

\* The types and the operators of the nodes.
LEMMA NodeWords ==
  /\ "INT_LITERAL" \in NodeTypes /\ "UNARY" \in NodeTypes /\ "BINARY" \in NodeTypes /\ "VARIABLE" \in NodeTypes
  /\ "ASSIGNMENT" \in NodeTypes /\ "DECLARATION" \in NodeTypes /\ "STATEMENT" \in NodeTypes
  /\ \A o \in P!UnaryOps \cup P!BinaryOps : o \in NodeOps
  /\ "" \in NodeOps /\ "RETURN" \in NodeOps /\ "NULL_EXPRESSION" \in NodeOps
  /\ P!NULL \in Nat /\ 0 \in Int /\ P!NoName \in Seq(STRING)
<1>1. /\ "INT_LITERAL" \in NodeTypes /\ "UNARY" \in NodeTypes /\ "BINARY" \in NodeTypes /\ "VARIABLE" \in NodeTypes
      /\ "ASSIGNMENT" \in NodeTypes /\ "DECLARATION" \in NodeTypes /\ "STATEMENT" \in NodeTypes
  BY DEF NodeTypes
<1>2. \A o \in P!UnaryOps \cup P!BinaryOps : o \in NodeOps
  BY DEF NodeOps
<1>3. "" \in NodeOps /\ "RETURN" \in NodeOps /\ "NULL_EXPRESSION" \in NodeOps
  BY DEF NodeOps
<1>4. P!NULL \in Nat /\ 0 \in Int
  BY DEF P!NULL
<1> QED
  BY <1>1, <1>2, <1>3, <1>4, NoNameIs

\* A declaration, as it is made.
LEMMA DeclarationMade ==
  ASSUME NEW id \in Seq(STRING), NEW e \in Nat
  PROVE  IsMade(P!ast_declaration(id, e), e, P!NULL) /\ P!IsNode(P!ast_declaration(id, e))
<1>1. PICK N : N = P!ast_declaration(id, e)
  OBVIOUS
<1>c. PICK o : o = ""
  OBVIOUS
<1>a. N = P!Node("DECLARATION", o, id, 0, e, P!NULL)
  BY <1>1, <1>c DEF P!ast_declaration
<1>b. "DECLARATION" \in NodeTypes /\ o \in NodeOps /\ id \in Seq(STRING) /\ 0 \in Int /\ e \in Nat /\ P!NULL \in Nat
  BY <1>c, NodeWords
<1>2. IsMade(N, e, P!NULL) /\ N.type = "DECLARATION"
  BY <1>a, <1>b, NodeMade
<1>3. P!IsNode(N)
  BY <1>2, NodeIs DEF P!IsNode, IsMade
<1> QED
  BY <1>1, <1>2, <1>3

\* A statement, as it is made.
LEMMA StatementMade ==
  ASSUME NEW op \in {"RETURN", "NULL_EXPRESSION"}, NEW e \in Nat
  PROVE  /\ IsMade(P!ast_statement(op, e), e, P!NULL)
         /\ (op = "RETURN" <=> e # P!NULL) => P!IsNode(P!ast_statement(op, e))
<1>1. PICK N : N = P!ast_statement(op, e)
  OBVIOUS
<1>a. N = P!Node("STATEMENT", op, P!NoName, 0, e, P!NULL)
  BY <1>1 DEF P!ast_statement
<1>b. "STATEMENT" \in NodeTypes /\ op \in NodeOps /\ P!NoName \in Seq(STRING) /\ 0 \in Int /\ e \in Nat /\ P!NULL \in Nat
  BY NodeWords
<1>2. IsMade(N, e, P!NULL) /\ N.type = "STATEMENT" /\ N.op = op
  BY <1>a, <1>b, NodeMade
<1>3. (op = "RETURN" <=> e # P!NULL) => P!IsNode(N)
  BY <1>2, NodeIs DEF P!IsNode, IsMade
<1> QED
  BY <1>1, <1>2, <1>3

\* A unary operation, as it is made.
LEMMA UnaryMade ==
  ASSUME NEW op \in P!UnaryOps, NEW e \in Nat
  PROVE  /\ IsMade(P!ast_unary(op, e), e, P!NULL) /\ IsExpression(P!ast_unary(op, e))
         /\ e # P!NULL => P!IsNode(P!ast_unary(op, e))
<1>1. PICK N : N = P!ast_unary(op, e)
  OBVIOUS
<1>a. N = P!Node("UNARY", op, P!NoName, 0, e, P!NULL)
  BY <1>1 DEF P!ast_unary
<1>b. "UNARY" \in NodeTypes /\ op \in NodeOps /\ P!NoName \in Seq(STRING) /\ 0 \in Int /\ e \in Nat /\ P!NULL \in Nat
  BY NodeWords
<1>2. IsMade(N, e, P!NULL) /\ N.type = "UNARY" /\ N.op = op
  BY <1>a, <1>b, NodeMade
<1>3. e # P!NULL => P!IsNode(N)
  BY <1>2, NodeIs DEF P!IsNode, IsMade
<1> QED
  BY <1>1, <1>2, <1>3 DEF IsExpression

\* A binary operation, as it is made.
LEMMA BinaryMade ==
  ASSUME NEW op \in P!BinaryOps, NEW l \in Nat, NEW r \in Nat
  PROVE  /\ IsMade(P!ast_binary(op, l, r), l, r) /\ IsExpression(P!ast_binary(op, l, r))
         /\ l # P!NULL /\ r # P!NULL => P!IsNode(P!ast_binary(op, l, r))
<1>1. PICK N : N = P!ast_binary(op, l, r)
  OBVIOUS
<1>a. N = P!Node("BINARY", op, P!NoName, 0, l, r)
  BY <1>1 DEF P!ast_binary
<1>b. "BINARY" \in NodeTypes /\ op \in NodeOps /\ P!NoName \in Seq(STRING) /\ 0 \in Int /\ l \in Nat /\ r \in Nat
  BY NodeWords
<1>2. IsMade(N, l, r) /\ N.type = "BINARY" /\ N.op = op
  BY <1>a, <1>b, NodeMade
<1>3. l # P!NULL /\ r # P!NULL => P!IsNode(N)
  BY <1>2, NodeIs DEF P!IsNode, IsMade
<1> QED
  BY <1>1, <1>2, <1>3 DEF IsExpression

\* An assignment, as it is made.
LEMMA AssignmentMade ==
  ASSUME NEW l \in Nat, NEW r \in Nat
  PROVE  /\ IsMade(P!ast_assignment(l, r), l, r) /\ IsExpression(P!ast_assignment(l, r))
         /\ l # P!NULL /\ r # P!NULL => P!IsNode(P!ast_assignment(l, r))
<1>1. PICK N : N = P!ast_assignment(l, r)
  OBVIOUS
<1>c. PICK o : o = ""
  OBVIOUS
<1>a. N = P!Node("ASSIGNMENT", o, P!NoName, 0, l, r)
  BY <1>1, <1>c DEF P!ast_assignment
<1>b. "ASSIGNMENT" \in NodeTypes /\ o \in NodeOps /\ P!NoName \in Seq(STRING) /\ 0 \in Int /\ l \in Nat /\ r \in Nat
  BY <1>c, NodeWords
<1>2. IsMade(N, l, r) /\ N.type = "ASSIGNMENT"
  BY <1>a, <1>b, NodeMade
<1>3. l # P!NULL /\ r # P!NULL => P!IsNode(N)
  BY <1>2, NodeIs DEF P!IsNode, IsMade
<1> QED
  BY <1>1, <1>2, <1>3 DEF IsExpression

\* A variable, as it is made.
LEMMA VariableMade ==
  ASSUME NEW id \in Seq(STRING)
  PROVE  /\ IsMade(P!ast_variable(id), P!NULL, P!NULL) /\ IsExpression(P!ast_variable(id))
         /\ P!IsNode(P!ast_variable(id))
<1>1. PICK N : N = P!ast_variable(id)
  OBVIOUS
<1>c. PICK o : o = ""
  OBVIOUS
<1>a. N = P!Node("VARIABLE", o, id, 0, P!NULL, P!NULL)
  BY <1>1, <1>c DEF P!ast_variable
<1>b. "VARIABLE" \in NodeTypes /\ o \in NodeOps /\ id \in Seq(STRING) /\ 0 \in Int /\ P!NULL \in Nat /\ P!NULL \in Nat
  BY <1>c, NodeWords
<1>2. IsMade(N, P!NULL, P!NULL) /\ N.type = "VARIABLE"
  BY <1>a, <1>b, NodeMade
<1>3. P!IsNode(N)
  BY <1>2, NodeIs DEF P!IsNode, IsMade
<1> QED
  BY <1>1, <1>2, <1>3 DEF IsExpression

\* A literal, as it is made.
LEMMA LiteralMade ==
  ASSUME NEW v \in Int
  PROVE  /\ IsMade(P!ast_int_literal(v), P!NULL, P!NULL) /\ IsExpression(P!ast_int_literal(v))
         /\ P!IsNode(P!ast_int_literal(v))
<1>1. PICK N : N = P!ast_int_literal(v)
  OBVIOUS
<1>c. PICK o : o = ""
  OBVIOUS
<1>a. N = P!Node("INT_LITERAL", o, P!NoName, v, P!NULL, P!NULL)
  BY <1>1, <1>c DEF P!ast_int_literal
<1>b. "INT_LITERAL" \in NodeTypes /\ o \in NodeOps /\ P!NoName \in Seq(STRING) /\ v \in Int /\ P!NULL \in Nat /\ P!NULL \in Nat
  BY <1>c, NodeWords
<1>2. IsMade(N, P!NULL, P!NULL) /\ N.type = "INT_LITERAL"
  BY <1>a, <1>b, NodeMade
<1>3. P!IsNode(N)
  BY <1>2, NodeIs DEF P!IsNode, IsMade
<1> QED
  BY <1>1, <1>2, <1>3 DEF IsExpression

-----------------------------------------------------------------------------

\* A declaration or a statement, or no node after an error.
LEMMA ItemsKeepTree ==
  ASSUME Running, P!EndPlainDeclaration \/ P!EndDeclaration \/ P!EndReturn \/ P!ParseNullStatement
  PROVE  TreeInv'
<1>0. /\ TreeInv /\ calls # <<>> /\ P!Top \in Frames /\ FrameOK(P!Top, Len(parsedTree)) /\ ret \in 0..Len(parsedTree) /\ Len(parsedTree) \in Nat
  BY RunningFacts
<1>a. ret \in Nat /\ P!NULL \in Nat
  BY <1>0 DEF P!NULL
<1>b. P!Top.name \in Seq(STRING)
  BY <1>0 DEF Frames
<1>1. CASE P!EndPlainDeclaration
  <2>0. P!Top.at = "declared" /\ UNCHANGED body
    BY <1>1 DEF P!EndPlainDeclaration, P!At, P!Same
  <2>1. P!Top.left = P!NULL
    BY <1>0, <2>0, NotAwaited DEF KeepsLeft
  <2>2. PICK N : N = P!ast_declaration(P!Top.name, P!NULL)
    OBVIOUS
  <2>3. IsMade(N, P!NULL, P!NULL) /\ P!IsNode(N)
    BY <2>2, <1>a, <1>b, DeclarationMade
  <2>4. CASE P!Peek = "SEMICOLON"
    <3>1. P!ReturnNew(N) /\ UNCHANGED parserError
      BY <1>1, <2>2, <2>4 DEF P!EndPlainDeclaration, P!expect
    <3> QED
      BY <1>0, <2>0, <2>1, <2>3, <3>1, TreeNew DEF IsMade, FunctionStops, ItemStops, Awaits, AwaitsExpression, AwaitsFactor
  <2>5. CASE P!Peek # "SEMICOLON"
    <3>1. P!Return(P!NULL) /\ UNCHANGED parsedTree /\ parserError'
      BY <1>1, <2>5 DEF P!EndPlainDeclaration, P!expect, P!Error
    <3> QED
      BY <1>0, <2>0, <3>1, TreeReturn DEF FunctionStops
  <2> QED
    BY <2>4, <2>5
<1>2. CASE P!EndDeclaration
  <2>0. P!Top.at = "initializer" /\ UNCHANGED body
    BY <1>2 DEF P!EndDeclaration, P!At, P!Same
  <2>1. P!Top.left = P!NULL
    BY <1>0, <2>0, NotAwaited DEF KeepsLeft
  <2>2. PICK N : N = P!ast_declaration(P!Top.name, ret)
    OBVIOUS
  <2>3. IsMade(N, ret, P!NULL) /\ P!IsNode(N)
    BY <2>2, <1>a, <1>b, DeclarationMade
  <2>4. CASE P!Peek = "SEMICOLON"
    <3>1. P!ReturnNew(N) /\ UNCHANGED parserError
      BY <1>2, <2>2, <2>4 DEF P!EndDeclaration, P!expect
    <3> QED
      BY <1>0, <2>0, <2>1, <2>3, <3>1, TreeNew DEF IsMade, FunctionStops, ItemStops, Awaits, AwaitsExpression, AwaitsFactor
  <2>5. CASE P!Peek # "SEMICOLON"
    <3>1. P!Return(P!NULL) /\ UNCHANGED parsedTree /\ parserError'
      BY <1>2, <2>5 DEF P!EndDeclaration, P!expect, P!Error
    <3> QED
      BY <1>0, <2>0, <3>1, TreeReturn DEF FunctionStops
  <2> QED
    BY <2>4, <2>5
<1>3. CASE P!EndReturn
  <2>0. P!Top.at = "returned" /\ ret # P!NULL /\ UNCHANGED body
    BY <1>3 DEF P!EndReturn, P!At, P!Same
  <2>1. P!Top.left = P!NULL
    BY <1>0, <2>0, NotAwaited DEF KeepsLeft
  <2>2. PICK N : N = P!ast_statement("RETURN", ret)
    OBVIOUS
  <2>3. IsMade(N, ret, P!NULL) /\ P!IsNode(N)
    BY <2>0, <2>2, <1>a, StatementMade
  <2>4. CASE P!Peek = "SEMICOLON"
    <3>1. P!ReturnNew(N) /\ UNCHANGED parserError
      BY <1>3, <2>2, <2>4 DEF P!EndReturn, P!expect
    <3> QED
      BY <1>0, <2>0, <2>1, <2>3, <3>1, TreeNew DEF IsMade, FunctionStops, ItemStops, Awaits, AwaitsExpression, AwaitsFactor
  <2>5. CASE P!Peek # "SEMICOLON"
    <3>1. P!Return(P!NULL) /\ UNCHANGED parsedTree /\ parserError'
      BY <1>3, <2>5 DEF P!EndReturn, P!expect, P!Error
    <3> QED
      BY <1>0, <2>0, <3>1, TreeReturn DEF FunctionStops
  <2> QED
    BY <2>4, <2>5
<1>4. CASE P!ParseNullStatement
  <2>0. P!Top.at = "statement" /\ UNCHANGED <<body, parserError>>
    BY <1>4 DEF P!ParseNullStatement, P!At, P!Same
  <2>1. P!Top.left = P!NULL
    BY <1>0, <2>0, NotAwaited DEF KeepsLeft
  <2>2. PICK N : N = P!ast_statement("NULL_EXPRESSION", P!NULL)
    OBVIOUS
  <2>3. IsMade(N, P!NULL, P!NULL) /\ P!IsNode(N)
    BY <2>2, <1>a, StatementMade
  <2>4. P!ReturnNew(N)
    BY <1>4, <2>2 DEF P!ParseNullStatement
  <2> QED
    BY <1>0, <2>0, <2>1, <2>3, <2>4, TreeNew DEF IsMade, FunctionStops, ItemStops, Awaits, AwaitsExpression, AwaitsFactor
<1> QED
  BY <1>1, <1>2, <1>3, <1>4

\* A declaration, up to its initializer.
LEMMA DeclarationKeepsTree ==
  ASSUME Running, P!ParseDeclaration, nextToken + 1 \in 1..Len(tokenArray)
  PROVE  TreeInv'
<1>0. /\ TreeInv /\ calls # <<>> /\ P!Top \in Frames /\ FrameOK(P!Top, Len(parsedTree)) /\ CursorInv
      /\ P!Top.at = "declaration" /\ UNCHANGED body
  BY RunningFacts DEF P!ParseDeclaration, P!At, P!Same
<1>1. PICK name : name = tokenArray[nextToken + 1]
  OBVIOUS
<1>2. name.literal \in Seq(STRING)
  BY <1>0, <1>1, TokenFacts
<1>3. P!Top.left = P!NULL
  BY <1>0, NotAwaited DEF KeepsLeft
<1>4. CASE name.type # "IDENTIFIER"
  <2>1. P!Return(P!NULL) /\ UNCHANGED parsedTree /\ parserError'
    BY <1>1, <1>4 DEF P!ParseDeclaration, P!Error
  <2> QED
    BY <1>0, <2>1, TreeReturn DEF FunctionStops
<1>5. CASE name.type = "IDENTIFIER" /\ tokenArray[nextToken + 2].type = "EQUAL"
  <2>1. PICK f : f = [P!Top EXCEPT !.at = "initializer", !.name = name.literal]
    OBVIOUS
  <2>2. f \in Frames /\ f.at = "initializer" /\ f.left = P!NULL
    BY <1>0, <1>2, <1>3, <2>1 DEF Frames, P!Stops
  <2>3. PICK g : g = P!Frame("expression", 0)
    OBVIOUS
  <2>b. "expression" \in P!Stops /\ 0 \in 0..51
    BY DEF P!Stops
  <2>4. IsNew(g, "expression")
    BY <2>3, <2>b, FrameIs
  <2>5. P!Call(g, f) /\ UNCHANGED <<parsedTree, ret, parserError>>
    BY <1>1, <1>5, <2>1, <2>3 DEF P!ParseDeclaration
  <2> QED
    BY <1>0, <1>3, <2>2, <2>4, <2>5, TreeCall
       DEF IsNew, SameFunction, ItemStops, Calls, ExpressionStops, Awaits, AwaitsExpression, AwaitsFactor, KeepsLeft
<1>6. CASE name.type = "IDENTIFIER" /\ tokenArray[nextToken + 2].type # "EQUAL"
  <2>1. PICK f : f = [P!Top EXCEPT !.at = "declared", !.name = name.literal]
    OBVIOUS
  <2>2. f \in Frames /\ f.at = "declared" /\ f.left = P!NULL
    BY <1>0, <1>2, <1>3, <2>1 DEF Frames, P!Stops
  <2>5. P!Become(f) /\ UNCHANGED <<parsedTree, ret, parserError>>
    BY <1>1, <1>6, <2>1 DEF P!ParseDeclaration
  <2> QED
    BY <1>0, <2>2, <2>5, TreeBecome
       DEF SameFunction, ItemStops, Awaits, AwaitsExpression, AwaitsFactor, KeepsLeft
<1> QED
  BY <1>4, <1>5, <1>6

\* An expression.
LEMMA ExpressionsKeepTree ==
  ASSUME Running, P!EndAssignment \/ P!ParseLeaf \/ P!EndUnary
  PROVE  TreeInv'
<1>0. /\ TreeInv /\ calls # <<>> /\ P!Top \in Frames /\ FrameOK(P!Top, Len(parsedTree)) /\ ret \in 0..Len(parsedTree) /\ Len(parsedTree) \in Nat
      /\ CursorInv /\ (P!Reads => nextToken \in 1..Len(tokenArray))
  BY RunningFacts
<1>a. ret \in Nat /\ P!NULL \in Nat
  BY <1>0 DEF P!NULL
<1>b. P!Top.left \in Nat
  BY <1>0 DEF Frames
<1>1. CASE P!EndAssignment
  <2>0. P!Top.at = "assigned" /\ UNCHANGED <<body, parserError>>
    BY <1>1 DEF P!EndAssignment, P!At, P!Same
  <2>1. PICK N : N = P!ast_assignment(P!Top.left, ret)
    OBVIOUS
  <2>2. IsMade(N, P!Top.left, ret) /\ IsExpression(N) /\ (P!Top.left # P!NULL /\ ret # P!NULL => P!IsNode(N))
    BY <1>a, <1>b, <2>1, AssignmentMade
  <2>3. P!ReturnNew(N)
    BY <1>1, <2>1 DEF P!EndAssignment
  <2>4. ~parserError => P!Top.left # P!NULL /\ ret # P!NULL
    BY <1>0, <2>0, CleanAnswer DEF Awaits, AwaitsExpression, KeepsLeft
  <2>5. P!Top.at \notin FunctionStops /\ P!Top.at \in Awaits /\ P!Top.at \in KeepsLeft /\ P!Top.at # "item"
    BY <2>0 DEF FunctionStops, Awaits, AwaitsExpression, KeepsLeft
  <2> QED
    BY <1>0, <2>0, <2>2, <2>3, <2>4, <2>5, TreeNew DEF IsMade
<1>2. CASE P!ParseLeaf
  <2>0. /\ P!Top.at = "factor" /\ P!Peek \in {"INTEGER_LITERAL", "IDENTIFIER"} /\ UNCHANGED <<body, parserError>>
    BY <1>2 DEF P!ParseLeaf, P!At, P!Same
  <2>1. nextToken \in 1..Len(tokenArray)
    BY <1>0, <2>0 DEF P!Reads
  <2>2. PICK lit : lit = tokenArray[nextToken].literal
    OBVIOUS
  <2>3. lit \in Seq(STRING) /\ (P!Peek = "INTEGER_LITERAL" => IsDecimal(lit))
    BY <1>0, <2>1, <2>2, TokenFacts DEF CursorInv, Lexed, P!Peek
  <2>4. PICK N : N = IF P!Peek = "IDENTIFIER" THEN P!ast_variable(lit) ELSE P!ast_int_literal(P!atoi(lit))
    OBVIOUS
  <2>5. IsMade(N, P!NULL, P!NULL) /\ IsExpression(N) /\ P!IsNode(N)
    <3>1. CASE P!Peek = "IDENTIFIER"
      BY <2>3, <2>4, <3>1, VariableMade
    <3>2. CASE P!Peek # "IDENTIFIER"
      <4>1. P!atoi(lit) \in Int
        BY <2>0, <2>3, <3>2, AtoiType
      <4> QED
        BY <2>4, <3>2, <4>1, LiteralMade
    <3> QED
      BY <3>1, <3>2
  <2>6. P!ReturnNew(N)
    BY <1>2, <2>2, <2>4 DEF P!ParseLeaf
  <2>7. P!Top.left = P!NULL
    BY <1>0, <2>0, NotAwaited DEF KeepsLeft
  <2>8. P!Top.at \notin FunctionStops /\ P!Top.at \notin Awaits /\ P!Top.at # "item"
    BY <2>0 DEF FunctionStops, Awaits, AwaitsExpression, AwaitsFactor
  <2> QED
    BY <1>0, <2>0, <2>5, <2>6, <2>7, <2>8, TreeNew DEF IsMade
<1>3. CASE P!EndUnary
  <2>0. P!Top.at = "inner" /\ UNCHANGED <<body, parserError>>
    BY <1>3 DEF P!EndUnary, P!At, P!Same
  <2>1. PICK N : N = P!ast_unary(P!UnaryType[P!Top.op], ret)
    OBVIOUS
  <2>2. P!UnaryType[P!Top.op] \in P!UnaryOps
    BY <1>0, <2>0, UnaryTable DEF FrameOK
  <2>3. IsMade(N, ret, P!NULL) /\ IsExpression(N) /\ (ret # P!NULL => P!IsNode(N))
    BY <1>a, <2>1, <2>2, UnaryMade
  <2>4. P!ReturnNew(N)
    BY <1>3, <2>1 DEF P!EndUnary
  <2>5. P!Top.left = P!NULL
    BY <1>0, <2>0, NotAwaited DEF KeepsLeft
  <2>6. P!Top.at \notin FunctionStops /\ P!Top.at \in Awaits /\ P!Top.at # "item"
    BY <2>0 DEF FunctionStops, Awaits, AwaitsFactor
  <2>7. ~parserError => ret # P!NULL
    BY <1>0, <2>6, CleanAnswer
  <2> QED
    BY <1>0, <2>0, <2>3, <2>4, <2>5, <2>6, <2>7, TreeNew DEF IsMade
<1> QED
  BY <1>1, <1>2, <1>3

\* The step that makes a binary operation of two operands.
LEMMA RightKeepsTree ==
  ASSUME Running, P!RightParsed
  PROVE  TreeInv'
<1>0. /\ TreeInv /\ calls # <<>> /\ P!Top \in Frames /\ FrameOK(P!Top, Len(parsedTree)) /\ ret \in 0..Len(parsedTree) /\ Len(parsedTree) \in Nat
      /\ Forest(parsedTree, body, calls, ret) /\ Len(calls) > 0 /\ P!Top = calls[Len(calls)]
  BY RunningFacts
<1>1. P!Top.at = "right" /\ UNCHANGED <<body, ret, parserError>>
  BY DEF P!RightParsed, P!At, P!Same
<1>a. ret \in Nat /\ P!Top.left \in Nat
  BY <1>0 DEF Frames
<1>2. PICK N : N = P!ast_binary(P!BinaryType[P!Top.op], P!Top.left, ret)
  OBVIOUS
<1>3. P!BinaryType[P!Top.op] \in P!BinaryOps
  BY <1>0, <1>1, BinaryTable DEF FrameOK
<1>4. /\ IsMade(N, P!Top.left, ret) /\ IsExpression(N)
      /\ P!Top.left # P!NULL /\ ret # P!NULL => P!IsNode(N)
  BY <1>a, <1>2, <1>3, BinaryMade
<1>5. PICK f : f = [P!Top EXCEPT !.at = "operator", !.left = Len(parsedTree) + 1]
  OBVIOUS
<1>b. Len(parsedTree) + 1 \in Nat
  BY <1>0
<1>6. f \in Frames /\ f.at = "operator" /\ f.left = Len(parsedTree) + 1
  BY <1>0, <1>5, <1>b DEF Frames, P!Stops
<1>7. PICK GG, A2 : GG = calls' /\ A2 = parsedTree'
  OBVIOUS
<1>8. A2 = Append(parsedTree, N) /\ GG = Replaced(calls, f)
  BY <1>2, <1>5, <1>7 DEF P!RightParsed, P!Become, P!Below, Replaced
<1>9. calls[Len(calls)].at = "right" /\ N.left = calls[Len(calls)].left /\ N.right = ret /\ N \in Nodes
  BY <1>0, <1>1, <1>4 DEF IsMade
<1>10. /\ Forest(A2, body, GG, ret)
       /\ Clean(parsedTree, body, calls, ret) /\ CleanNew(parsedTree, calls, N) => Clean(A2, body, GG, ret)
  BY <1>0, <1>6, <1>8, <1>9, RightKeeps
<1>11. ASSUME ~parserError PROVE Clean(A2, body, GG, ret)
  <2>1. Clean(parsedTree, body, calls, ret)
    BY <1>0, <1>11 DEF TreeInv
  <2>2. P!Top.left # P!NULL /\ IsExpression(parsedTree[P!Top.left]) /\ ret # P!NULL /\ IsExpression(parsedTree[ret])
    BY <1>0, <1>1, <1>11, CleanAnswer DEF Awaits, AwaitsExpression, KeepsLeft
  <2>3. \A c \in P!Kids(N) : IsExpression(parsedTree[c])
    BY <1>4, <2>2 DEF P!Kids, IsMade
  <2>4. CleanNew(parsedTree, calls, N)
    BY <1>0, <1>1, <1>4, <2>2, <2>3 DEF CleanNew, KeepsLeft
  <2> QED
    BY <1>10, <2>1, <2>4
<1> QED
  BY <1>1, <1>7, <1>10, <1>11 DEF TreeInv

-----------------------------------------------------------------------------
(* The call on top after a step *)

\* The call on top after it has gone on.
LEMMA TopReplaced ==
  ASSUME Running, NEW f \in Frames, P!Become(f)
  PROVE  calls' # <<>> /\ P!Top' = f
<1>1. calls \in Seq(Frames) /\ Len(calls) > 0
  BY RunningFacts DEF Forest
<1>2. PICK GG : GG = calls'
  OBVIOUS
<1>3. GG = Replaced(calls, f)
  BY <1>2 DEF P!Become, P!Below, Replaced
<1>4. IsReplaced(calls, f, GG)
  BY <1>1, <1>3, ShapeReplaced
<1>5. GG # <<>> /\ GG[Len(GG)] = f
  BY <1>1, <1>4, LenNat DEF IsReplaced
<1> QED
  BY <1>2, <1>5 DEF P!Top

\* The call on top after another has been made.
LEMMA TopCalled ==
  ASSUME Running, NEW f \in Frames, NEW g \in Frames, P!Call(g, f)
  PROVE  calls' # <<>> /\ P!Top' = g
<1>1. calls \in Seq(Frames) /\ Len(calls) > 0
  BY RunningFacts DEF Forest
<1>2. PICK GG : GG = calls'
  OBVIOUS
<1>3. GG = Called(calls, f, g)
  BY <1>2 DEF P!Call, P!Below, Called
<1>4. IsCalled(calls, f, g, GG)
  BY <1>1, <1>3, ShapeCalled
<1>5. GG # <<>> /\ GG[Len(GG)] = g
  BY <1>1, <1>4, LenNat DEF IsCalled
<1> QED
  BY <1>2, <1>5 DEF P!Top

\* The call on top after one has returned: it awaits an expression, a factor or an item.
LEMMA TopReturned ==
  ASSUME Running, P!Top.at \notin FunctionStops, calls' = P!Below
  PROVE  calls' # <<>> /\ P!Top'.at \in Awaits /\ Calls(P!Top'.at, P!Top.at)
<1>1. calls \in Seq(Frames) /\ Len(calls) > 0 /\ P!Top = calls[Len(calls)] /\ StackOK(calls, Len(parsedTree)) /\ Len(parsedTree) \in Nat
  BY RunningFacts DEF Forest
<1>2. PICK GG : GG = calls'
  OBVIOUS
<1>3. GG = Returned(calls)
  BY <1>2 DEF P!Below, Returned
<1>4. IsReturned(calls, GG)
  BY <1>1, <1>3, ShapeReturned
<1>5. calls[Len(calls)].at \notin FunctionStops
  BY <1>1
<1>6. /\ Len(calls) - 1 \in 1..Len(calls) /\ Len(calls) > 1
      /\ Calls(calls[Len(calls) - 1].at, calls[Len(calls)].at)
      /\ calls[Len(calls) - 1].at \in Awaits
  BY <1>1, <1>5, StackReturn
<1>7. GG # <<>> /\ GG[Len(GG)] = calls[Len(calls) - 1]
  BY <1>1, <1>4, <1>6, LenNat DEF IsReturned
<1> QED
  BY <1>1, <1>2, <1>6, <1>7 DEF P!Top

-----------------------------------------------------------------------------
(* The cursor after a step *)

\* What a step has to leave of the cursor.
LEMMA CursorKeeps ==
  ASSUME Running, UNCHANGED <<tokenArray, parsed, parsing>>, calls' # <<>>, nextToken' \in 1..Len(tokenArray)+1,
         parserError' \in BOOLEAN, CursorOK(tokenArray, nextToken', P!Top'.at),
         ~parserError' => CursorClean(tokenArray, nextToken', P!Top'.at)
  PROVE  CursorInv'
<1>1. CursorInv /\ parsing = "running"
  BY DEF Running, ParInv
<1>2. PICK at, n : at = P!Top'.at /\ n = nextToken'
  OBVIOUS
<1>3. (CursorOK(tokenArray, nextToken, P!Top.at))' <=> CursorOK(tokenArray, n, at)
  BY <1>2 DEF CursorOK
<1>4. (CursorClean(tokenArray, nextToken, P!Top.at))' <=> CursorClean(tokenArray, n, at)
  BY <1>2 DEF CursorClean
<1>5. (Lexed(tokenArray))' <=> Lexed(tokenArray)
  BY DEF Lexed, EndsOnce
<1> QED
  BY <1>1, <1>2, <1>3, <1>4, <1>5 DEF CursorInv

\* The cursor stays where it is.
LEMMA Stays ==
  ASSUME Running, UNCHANGED <<tokenArray, parsed, parsing, nextToken>>, calls' # <<>>,
         parserError' \in BOOLEAN, CursorOK(tokenArray, nextToken, P!Top'.at),
         ~parserError' => ~parserError /\ (P!Top.at \in AfterNumber => P!Top'.at \in AfterNumber)
  PROVE  CursorInv'
<1>1. CursorInv /\ parsing = "running"
  BY DEF Running, ParInv
<1>2. ASSUME ~parserError' PROVE CursorClean(tokenArray, nextToken, P!Top'.at)
  <2>1. CursorClean(tokenArray, nextToken, P!Top.at)
    BY <1>1, <1>2 DEF CursorInv
  <2> QED
    BY <1>2, <2>1, CursorStays
<1>3. nextToken \in 1..Len(tokenArray)+1
  BY <1>1 DEF CursorInv
<1> QED
  BY <1>2, <1>3, CursorKeeps

\* The cursor moves over one token.
LEMMA Moves ==
  ASSUME Running, UNCHANGED <<tokenArray, parsed, parsing>>, calls' # <<>>, P!Consume(1), nextToken \in 1..Len(tokenArray),
         parserError' \in BOOLEAN, P!Top'.at \notin {"declaration", "statement", "function"},
         ~parserError' => /\ ~parserError /\ P!Peek \notin {"EOF", "INVALID"}
                          /\ P!Top.at \in AfterNumber => P!Peek \notin WordTypes
                          /\ P!Peek = "INTEGER_LITERAL" => P!Top'.at \in AfterNumber
  PROVE  CursorInv'
<1>1. CursorInv /\ parsing = "running" /\ Len(tokenArray) \in Nat
  BY CursorFacts DEF Running, ParInv
<1>2. nextToken' = nextToken + 1 /\ nextToken + 1 \in 1..Len(tokenArray)+1
  BY <1>1 DEF P!Consume
<1>3. ASSUME ~parserError' PROVE CursorClean(tokenArray, nextToken + 1, P!Top'.at)
  <2>1. CursorClean(tokenArray, nextToken, P!Top.at) /\ Lexed(tokenArray)
    BY <1>1, <1>3 DEF CursorInv
  <2> QED
    BY <1>3, <2>1, CursorMoves DEF P!Peek
<1>4. CursorOK(tokenArray, nextToken + 1, P!Top'.at)
  BY DEF CursorOK
<1> QED
  BY <1>2, <1>3, <1>4, CursorKeeps

\* Nothing is asked of the cursor where a call waits.
LEMMA AwaitsNone ==
  ASSUME NEW at \in Awaits, NEW n
  PROVE  at \notin {"declaration", "statement", "function"} /\ CursorOK(tokenArray, n, at)
BY DEF Awaits, AwaitsExpression, AwaitsFactor, CursorOK

\* A function that was called to parse an expression returns where a number may be last.
LEMMA Returns ==
  ASSUME NEW a \in Awaits, NEW b \in ExpressionStops \cup FactorStops, Calls(a, b)
  PROVE  a \in AfterNumber
<1>1. a # "item"
  BY DEF Calls, ItemStops, ExpressionStops, FactorStops, AwaitsExpression, AwaitsFactor
<1> QED
  BY <1>1 DEF AfterNumber

\* A token is expected, and the function returns.
LEMMA Expects ==
  ASSUME Running, UNCHANGED <<tokenArray, parsed, parsing>>, P!Consume(1), P!Reads, P!Top.at \notin FunctionStops,
         calls' = P!Below,
         \/ P!Peek \in {"SEMICOLON", "RPAREN"} /\ UNCHANGED parserError
         \/ P!Error
  PROVE  CursorInv'
<1>1. calls' # <<>> /\ P!Top'.at \in Awaits
  BY TopReturned
<1>2. nextToken \in 1..Len(tokenArray) /\ parserError \in BOOLEAN
  BY RunningFacts
<1>3. parserError' \in BOOLEAN
  BY <1>2 DEF P!Error
<1>4. P!Peek \in {"SEMICOLON", "RPAREN"} => P!Peek \notin WordTypes /\ P!Peek \notin {"EOF", "INVALID", "INTEGER_LITERAL"}
  BY DEF WordTypes
<1>5. ~parserError' => ~parserError /\ P!Peek \in {"SEMICOLON", "RPAREN"}
  BY DEF P!Error
<1> QED
  BY <1>1, <1>2, <1>3, <1>4, <1>5, AwaitsNone, Moves

-----------------------------------------------------------------------------

\* In int main(void) { there is no end, no error and no number.
LEMMA HeaderTypes ==
  ASSUME NEW k \in 1..6
  PROVE  P!Header[k] \notin {"EOF", "INVALID", "INTEGER_LITERAL"}
BY DEF P!Header

\* The cursor is after the header.
LEMMA HeaderKeepsCursor ==
  ASSUME Running, P!ParseHeader
  PROVE  CursorInv'
<1>0. CursorInv /\ parsing = "running" /\ P!Top \in Frames /\ P!Top.at = "function" /\ Len(tokenArray) \in Nat
      /\ P!Consume(6) /\ UNCHANGED <<tokenArray, parsed, parsing, parserError>> /\ parserError \in BOOLEAN
  BY RunningFacts, CursorFacts DEF Running, P!ParseHeader, P!At, P!Same
<1>1. nextToken = 1
  BY <1>0 DEF CursorInv, CursorOK
<1>2. \A k \in 1..6 : k <= Len(tokenArray) /\ tokenArray[k].type = P!Header[k]
  BY DEF P!ParseHeader, P!IsHeader
<1>3. nextToken' = 7 /\ 7 \in 1..Len(tokenArray)+1
  BY <1>0, <1>1, <1>2 DEF P!Consume
<1>4. PICK f : f = [P!Top EXCEPT !.at = "items"]
  OBVIOUS
<1>a. "items" \in P!Stops
  BY DEF P!Stops
<1>5. f \in Frames /\ f.at = "items"
  BY <1>0, <1>4, <1>a, FrameAt DEF IsAt
<1>6. P!Become(f)
  BY <1>4 DEF P!ParseHeader, P!Goto
<1>7. calls' # <<>> /\ P!Top'.at = "items"
  BY <1>5, <1>6, TopReplaced
<1>8. CursorClean(tokenArray, 7, "items")
  <2>1. \A k \in 1..6 : tokenArray[k].type \notin {"EOF", "INVALID", "INTEGER_LITERAL"}
    BY <1>2, HeaderTypes
  <2> QED
    BY <2>1 DEF CursorClean
<1>9. CursorOK(tokenArray, 7, "items")
  BY DEF CursorOK
<1> QED
  BY <1>0, <1>3, <1>7, <1>8, <1>9, CursorKeeps

\* An error has been reported.
LEMMA BadHeaderKeepsCursor ==
  ASSUME Running, P!MalformedHeader
  PROVE  CursorInv'
<1>0. CursorInv /\ parsing = "running" /\ P!Top.at = "function" /\ Len(tokenArray) \in Nat /\ Lexed(tokenArray)
      /\ UNCHANGED <<tokenArray, parsed>> /\ parserError' = TRUE /\ calls' = <<>> /\ parsing' = "done"
  BY RunningFacts, CursorFacts DEF Running, P!MalformedHeader, P!At, P!NoProgram, P!Error, CursorInv
<1>1. nextToken = 1
  BY <1>0 DEF CursorInv, CursorOK
<1>2. PICK k \in 1..6 : (\A h \in 1..k-1 : P!IsHeader(h)) /\ P!Consume(k)
  BY DEF P!MalformedHeader
<1>3. k <= Len(tokenArray)
  <2>1. CASE k = 1
    BY <1>0, <2>1 DEF Lexed, EndsOnce
  <2>2. CASE k # 1
    <3>1. PICK h \in 1..k-1 : h + 1 = k
      BY <2>2
    <3>2. h \in 1..Len(tokenArray) /\ tokenArray[h].type = P!Header[h] /\ h \in 1..6
      BY <1>0, <1>2, <3>1 DEF P!IsHeader
    <3>3. tokenArray[h].type # "EOF"
      BY <3>2, HeaderTypes
    <3>4. h + 1 \in 1..Len(tokenArray)
      BY <1>0, <3>2, <3>3, Inside
    <3> QED
      BY <1>0, <3>1, <3>4
  <2> QED
    BY <2>1, <2>2
<1>4. nextToken' \in 1..Len(tokenArray)+1
  BY <1>0, <1>1, <1>2, <1>3 DEF P!Consume
<1>5. (Lexed(tokenArray))'
  BY <1>0 DEF Lexed, EndsOnce
<1> QED
  BY <1>0, <1>4, <1>5 DEF CursorInv

\* The steps that end the function's body.
LEMMA EndsKeepCursor ==
  ASSUME Running, P!FailedBlockItem \/ P!EndFunction
  PROVE  CursorInv'
<1>0. CursorInv /\ parsing = "running" /\ Len(tokenArray) \in Nat /\ Lexed(tokenArray)
      /\ UNCHANGED <<tokenArray>> /\ calls' = <<>> /\ parsing' = "done" /\ TreeInv /\ calls # <<>> /\ parserError \in BOOLEAN
  BY RunningFacts, CursorFacts DEF Running, P!FailedBlockItem, P!EndFunction, P!NoProgram, CursorInv
<1>5. (Lexed(tokenArray))'
  BY <1>0 DEF Lexed, EndsOnce
<1>1. CASE P!FailedBlockItem
  <2>1. P!Top.at = "item" /\ ret = P!NULL /\ UNCHANGED <<nextToken, parserError, parsed>>
    BY <1>1 DEF P!FailedBlockItem, P!At, P!NoProgram
  <2>2. parserError
    BY <1>0, <2>1, CleanAnswer DEF Awaits
  <2> QED
    BY <1>0, <1>5, <2>1, <2>2 DEF CursorInv
<1>2. CASE P!EndFunction
  <2>1. P!Top.at = "items" /\ P!Peek = "RBRACE" /\ P!Consume(2)
        /\ parsed' = (tokenArray[nextToken + 1].type = "EOF") /\ parserError' = (parserError \/ ~parsed')
    BY <1>2 DEF P!EndFunction, P!At
  <2>2. nextToken \in 1..Len(tokenArray)
    BY <2>1, RunningFacts DEF P!Reads
  <2>3. nextToken + 1 \in 1..Len(tokenArray)
    BY <1>0, <2>1, <2>2, Inside DEF P!Peek
  <2>a. nextToken' = nextToken + 2 /\ nextToken \in Nat
    BY <1>0, <2>1, CursorFacts DEF P!Consume
  <2>4. nextToken' \in 1..Len(tokenArray)+1
    BY <1>0, <2>3, <2>a
  <2>5. parsed' \in BOOLEAN
    BY <2>1
  <2>6. parserError' \in BOOLEAN
    BY <1>0, <2>1, <2>5
  <2>7. ASSUME ~parserError' PROVE parsed' /\ ~Broken(tokenArray)
    <3>1. parsed' /\ ~parserError /\ tokenArray[nextToken + 1].type = "EOF"
      BY <2>1, <2>7
    <3>2. CursorClean(tokenArray, nextToken, "items")
      BY <1>0, <2>1, <3>1 DEF CursorInv
    <3>3. nextToken + 1 = Len(tokenArray)
      BY <1>0, <2>3, <3>1 DEF Lexed, EndsOnce
    <3>4. "items" \notin AfterNumber
      BY DEF AfterNumber, Awaits, AwaitsExpression, AwaitsFactor
    <3> QED
      BY <1>0, <2>1, <2>2, <3>1, <3>2, <3>3, <3>4, CursorEnds DEF P!Peek
  <2>8. (Broken(tokenArray))' <=> Broken(tokenArray)
    BY <1>0 DEF Broken, Spoils
  <2> QED
    BY <1>0, <1>5, <2>4, <2>5, <2>6, <2>7, <2>8 DEF CursorInv
<1> QED
  BY <1>1, <1>2

\* The steps that call another function and read nothing.
LEMMA CallsKeepCursor ==
  ASSUME Running, P!ParseBlockItem \/ P!ParseExpressionStatement \/ P!ParseExpression
  PROVE  CursorInv'
<1>0. /\ CursorInv /\ calls # <<>> /\ P!Top \in Frames /\ parserError \in BOOLEAN
      /\ UNCHANGED <<tokenArray, parsed, parsing, nextToken, parserError>>
  BY RunningFacts DEF P!ParseBlockItem, P!ParseExpressionStatement, P!ParseExpression, P!Same
<1>1. CASE P!ParseBlockItem
  <2>0. P!Top.at = "items" /\ nextToken \in 1..Len(tokenArray)
    BY <1>1, RunningFacts DEF P!ParseBlockItem, P!At, P!Reads
  <2>1. PICK f : f = [P!Top EXCEPT !.at = "item"]
    OBVIOUS
  <2>a. "item" \in P!Stops /\ "declaration" \in P!Stops /\ "statement" \in P!Stops /\ 0 \in 0..51
    BY DEF P!Stops
  <2>2. f \in Frames
    BY <1>0, <2>1, <2>a, FrameAt DEF IsAt
  <2>3. PICK g : g = P!Frame(IF P!Peek = "INT" THEN "declaration" ELSE "statement", 0)
    OBVIOUS
  <2>4. g \in Frames /\ g.at = IF P!Peek = "INT" THEN "declaration" ELSE "statement"
    <3>1. CASE P!Peek = "INT"
      BY <2>3, <2>a, <3>1, FrameIs DEF IsNew
    <3>2. CASE P!Peek # "INT"
      BY <2>3, <2>a, <3>2, FrameIs DEF IsNew
    <3> QED
      BY <3>1, <3>2
  <2>5. P!Call(g, f)
    BY <1>1, <2>1, <2>3 DEF P!ParseBlockItem, P!CallThen
  <2>6. calls' # <<>> /\ P!Top' = g
    BY <2>2, <2>4, <2>5, TopCalled
  <2>7. CursorOK(tokenArray, nextToken, P!Top'.at)
    BY <2>0, <2>4, <2>6, CursorFacts DEF CursorOK, P!Peek
  <2>8. P!Top.at \notin AfterNumber
    BY <2>0 DEF AfterNumber, Awaits, AwaitsExpression, AwaitsFactor
  <2> QED
    BY <1>0, <2>6, <2>7, <2>8, Stays
<1>2. CASE P!ParseExpressionStatement
  <2>0. P!Top.at = "statement"
    BY <1>2 DEF P!ParseExpressionStatement, P!At
  <2>1. PICK f : f = [P!Top EXCEPT !.at = "expression statement"]
    OBVIOUS
  <2>a. "expression statement" \in P!Stops /\ "expression" \in P!Stops /\ 0 \in 0..51
    BY DEF P!Stops
  <2>2. f \in Frames
    BY <1>0, <2>1, <2>a, FrameAt DEF IsAt
  <2>3. PICK g : g = P!Frame("expression", 0)
    OBVIOUS
  <2>4. g \in Frames /\ g.at = "expression"
    BY <2>3, <2>a, FrameIs DEF IsNew
  <2>5. P!Call(g, f)
    BY <1>2, <2>1, <2>3 DEF P!ParseExpressionStatement, P!CallThen
  <2>6. calls' # <<>> /\ P!Top' = g
    BY <2>2, <2>4, <2>5, TopCalled
  <2>7. CursorOK(tokenArray, nextToken, P!Top'.at)
    BY <2>4, <2>6 DEF CursorOK
  <2>8. P!Top.at \notin AfterNumber
    BY <2>0 DEF AfterNumber, Awaits, AwaitsExpression, AwaitsFactor
  <2> QED
    BY <1>0, <2>6, <2>7, <2>8, Stays
<1>3. CASE P!ParseExpression
  <2>0. P!Top.at = "expression"
    BY <1>3 DEF P!ParseExpression, P!At
  <2>1. PICK f : f = [P!Top EXCEPT !.at = "left"]
    OBVIOUS
  <2>a. "left" \in P!Stops /\ "factor" \in P!Stops /\ 0 \in 0..51
    BY DEF P!Stops
  <2>2. f \in Frames
    BY <1>0, <2>1, <2>a, FrameAt DEF IsAt
  <2>3. PICK g : g = P!Frame("factor", 0)
    OBVIOUS
  <2>4. g \in Frames /\ g.at = "factor"
    BY <2>3, <2>a, FrameIs DEF IsNew
  <2>5. P!Call(g, f)
    BY <1>3, <2>1, <2>3 DEF P!ParseExpression, P!CallThen
  <2>6. calls' # <<>> /\ P!Top' = g
    BY <2>2, <2>4, <2>5, TopCalled
  <2>7. CursorOK(tokenArray, nextToken, P!Top'.at)
    BY <2>4, <2>6 DEF CursorOK
  <2>8. P!Top.at \notin AfterNumber
    BY <2>0 DEF AfterNumber, Awaits, AwaitsExpression, AwaitsFactor
  <2> QED
    BY <1>0, <2>6, <2>7, <2>8, Stays
<1> QED
  BY <1>1, <1>2, <1>3

\* A call with the token before it consumed.
LEMMA CallMoves ==
  ASSUME Running, UNCHANGED <<tokenArray, parsed, parsing, parserError>>, P!Consume(1), nextToken \in 1..Len(tokenArray),
         NEW f \in Frames, NEW g \in Frames, g.at \in {"expression", "factor"}, P!Call(g, f),
         P!Peek \notin {"EOF", "INVALID", "INTEGER_LITERAL"},
         P!Top.at \in AfterNumber => P!Peek \notin WordTypes
  PROVE  CursorInv'
<1>1. calls' # <<>> /\ P!Top' = g
  BY TopCalled
<1>2. parserError' \in BOOLEAN
  BY RunningFacts
<1> QED
  BY <1>1, <1>2, Moves

\* The steps that read a word or an operator.
LEMMA OperandsKeepCursor ==
  ASSUME Running, P!ParseReturn \/ P!ParseAssignment \/ P!ParseRightOperand \/ P!ParseUnary \/ P!ParseParens
  PROVE  CursorInv'
<1>0. /\ CursorInv /\ calls # <<>> /\ P!Top \in Frames /\ parserError \in BOOLEAN /\ parsing = "running"
      /\ UNCHANGED <<tokenArray, parsed, parsing, parserError>> /\ P!Consume(1)
  BY RunningFacts DEF Running, P!ParseReturn, P!ParseAssignment, P!ParseRightOperand, P!ParseUnary, P!ParseParens, P!Same
<1>1. CASE P!ParseReturn
  <2>0. P!Top.at = "statement" /\ P!Peek = "RETURN"
    BY <1>1 DEF P!ParseReturn, P!At
  <2>9. nextToken \in 1..Len(tokenArray)
    BY <1>0, <2>0, CursorFacts DEF CursorInv, CursorOK
  <2>1. PICK f : f = [P!Top EXCEPT !.at = "returned"]
    OBVIOUS
  <2>a. "returned" \in P!Stops /\ "expression" \in P!Stops /\ 0 \in 0..51
    BY DEF P!Stops
  <2>2. f \in Frames
    BY <1>0, <2>1, <2>a, FrameAt DEF IsAt
  <2>3. PICK g : g = P!Frame("expression", 0)
    OBVIOUS
  <2>4. g \in Frames /\ g.at = "expression"
    BY <2>3, <2>a, FrameIs DEF IsNew
  <2>5. P!Call(g, f)
    BY <1>1, <2>1, <2>3 DEF P!ParseReturn, P!CallThen
  <2>8. P!Top.at \notin AfterNumber
    BY <2>0 DEF AfterNumber, Awaits, AwaitsExpression, AwaitsFactor
  <2> QED
    BY <1>0, <2>0, <2>2, <2>4, <2>5, <2>8, <2>9, CallMoves
<1>2. CASE P!ParseAssignment
  <2>0. P!Top.at = "operator" /\ P!is_binary_operator(P!Peek) /\ nextToken \in 1..Len(tokenArray)
    BY <1>2, RunningFacts DEF P!ParseAssignment, P!At, P!Ends, P!Reads
  <2>1. PICK f : f = [P!Top EXCEPT !.at = "assigned"]
    OBVIOUS
  <2>7. P!precedence(P!Peek) \in 1..50 /\ P!Peek \notin WordTypes /\ P!Peek \notin {"EOF", "INVALID", "INTEGER_LITERAL"}
    BY <2>0, BinaryWords
  <2>a. "assigned" \in P!Stops /\ "expression" \in P!Stops /\ P!precedence(P!Peek) \in 0..51
    BY <2>7 DEF P!Stops
  <2>2. f \in Frames
    BY <1>0, <2>1, <2>a, FrameAt DEF IsAt
  <2>3. PICK g : g = P!Frame("expression", P!precedence(P!Peek))
    OBVIOUS
  <2>4. g \in Frames /\ g.at = "expression"
    BY <2>3, <2>a, FrameIs DEF IsNew
  <2>5. P!Call(g, f)
    BY <1>2, <2>1, <2>3 DEF P!ParseAssignment, P!CallThen
  <2> QED
    BY <1>0, <2>0, <2>2, <2>4, <2>5, <2>7, CallMoves
<1>3. CASE P!ParseRightOperand
  <2>0. P!Top.at = "operator" /\ P!is_binary_operator(P!Peek) /\ nextToken \in 1..Len(tokenArray) /\ P!Peek \in P!TokenType
    BY <1>3, RunningFacts DEF P!ParseRightOperand, P!At, P!Ends, P!Reads
  <2>1. PICK f : f = [P!Top EXCEPT !.at = "right", !.op = P!Peek]
    OBVIOUS
  <2>7. P!precedence(P!Peek) \in 1..50 /\ P!Peek \notin WordTypes /\ P!Peek \notin {"EOF", "INVALID", "INTEGER_LITERAL"}
    BY <2>0, BinaryWords
  <2>a. "expression" \in P!Stops /\ P!precedence(P!Peek) + 1 \in 0..51
    BY <2>7 DEF P!Stops
  <2>2. f \in Frames
    BY <1>0, <2>0, <2>1 DEF Frames, P!Stops
  <2>3. PICK g : g = P!Frame("expression", P!precedence(P!Peek) + 1)
    OBVIOUS
  <2>4. g \in Frames /\ g.at = "expression"
    BY <2>3, <2>a, FrameIs DEF IsNew
  <2>5. P!Call(g, f)
    BY <1>3, <2>1, <2>3 DEF P!ParseRightOperand
  <2> QED
    BY <1>0, <2>0, <2>2, <2>4, <2>5, <2>7, CallMoves
<1>4. CASE P!ParseUnary
  <2>0. P!Top.at = "factor" /\ P!Peek \in DOMAIN P!UnaryType /\ nextToken \in 1..Len(tokenArray) /\ P!Peek \in P!TokenType
    BY <1>4, RunningFacts DEF P!ParseUnary, P!At, P!Reads
  <2>1. PICK f : f = [P!Top EXCEPT !.at = "inner", !.op = P!Peek]
    OBVIOUS
  <2>a. "factor" \in P!Stops /\ 0 \in 0..51
    BY DEF P!Stops
  <2>2. f \in Frames
    BY <1>0, <2>0, <2>1 DEF Frames, P!Stops
  <2>3. PICK g : g = P!Frame("factor", 0)
    OBVIOUS
  <2>4. g \in Frames /\ g.at = "factor"
    BY <2>3, <2>a, FrameIs DEF IsNew
  <2>5. P!Call(g, f)
    BY <1>4, <2>1, <2>3 DEF P!ParseUnary
  <2>6. P!Peek \notin WordTypes /\ P!Peek \notin {"EOF", "INVALID", "INTEGER_LITERAL"}
    BY <2>0, UnaryTable DEF WordTypes
  <2> QED
    BY <1>0, <2>0, <2>2, <2>4, <2>5, <2>6, CallMoves
<1>5. CASE P!ParseParens
  <2>0. P!Top.at = "factor" /\ P!Peek = "LPAREN" /\ nextToken \in 1..Len(tokenArray)
    BY <1>5, RunningFacts DEF P!ParseParens, P!At, P!Reads
  <2>1. PICK f : f = [P!Top EXCEPT !.at = "parens"]
    OBVIOUS
  <2>a. "parens" \in P!Stops /\ "expression" \in P!Stops /\ 0 \in 0..51
    BY DEF P!Stops
  <2>2. f \in Frames
    BY <1>0, <2>1, <2>a, FrameAt DEF IsAt
  <2>3. PICK g : g = P!Frame("expression", 0)
    OBVIOUS
  <2>4. g \in Frames /\ g.at = "expression"
    BY <2>3, <2>a, FrameIs DEF IsNew
  <2>5. P!Call(g, f)
    BY <1>5, <2>1, <2>3 DEF P!ParseParens, P!CallThen
  <2>6. P!Peek \notin WordTypes /\ P!Peek \notin {"EOF", "INVALID", "INTEGER_LITERAL"}
    BY <2>0 DEF WordTypes
  <2> QED
    BY <1>0, <2>0, <2>2, <2>4, <2>5, <2>6, CallMoves
<1> QED
  BY <1>1, <1>2, <1>3, <1>4, <1>5

\* The steps that go on after an answer.
LEMMA StepsKeepCursor ==
  ASSUME Running, P!LeftParsed \/ P!PushBlockItem \/ P!RightParsed
  PROVE  CursorInv'
<1>0. /\ CursorInv /\ calls # <<>> /\ P!Top \in Frames /\ parserError \in BOOLEAN /\ ret \in Nat /\ Len(parsedTree) + 1 \in Nat
      /\ UNCHANGED <<tokenArray, parsed, parsing, nextToken, parserError>>
  BY RunningFacts DEF P!LeftParsed, P!PushBlockItem, P!RightParsed, P!Same
<1>1. \E f \in Frames : P!Become(f) /\ f.at \in {"operator", "items"} /\ (P!Top.at \in AfterNumber => f.at \in AfterNumber)
  <2>1. CASE P!LeftParsed
    <3>1. PICK f : f = [P!Top EXCEPT !.at = "operator", !.left = ret]
      OBVIOUS
    <3>2. f \in Frames /\ f.at = "operator"
      BY <1>0, <3>1 DEF Frames, P!Stops
    <3>3. P!Become(f)
      BY <2>1, <3>1 DEF P!LeftParsed
    <3> QED
      BY <3>2, <3>3 DEF AfterNumber
  <2>2. CASE P!PushBlockItem
    <3>0. P!Top.at = "item"
      BY <2>2 DEF P!PushBlockItem, P!At
    <3>1. PICK f : f = [P!Top EXCEPT !.at = "items"]
      OBVIOUS
    <3>a. "items" \in P!Stops
      BY DEF P!Stops
    <3>2. f \in Frames /\ f.at = "items"
      BY <1>0, <3>1, <3>a, FrameAt DEF IsAt
    <3>3. P!Become(f)
      BY <2>2, <3>1 DEF P!PushBlockItem, P!Goto
    <3> QED
      BY <3>0, <3>2, <3>3 DEF AfterNumber
  <2>3. CASE P!RightParsed
    <3>1. PICK f : f = [P!Top EXCEPT !.at = "operator", !.left = Len(parsedTree) + 1]
      OBVIOUS
    <3>2. f \in Frames /\ f.at = "operator"
      BY <1>0, <3>1 DEF Frames, P!Stops
    <3>3. P!Become(f)
      BY <2>3, <3>1 DEF P!RightParsed
    <3> QED
      BY <3>2, <3>3 DEF AfterNumber
  <2> QED
    BY <2>1, <2>2, <2>3
<1>2. PICK f \in Frames : P!Become(f) /\ f.at \in {"operator", "items"} /\ (P!Top.at \in AfterNumber => f.at \in AfterNumber)
  BY <1>1
<1>3. calls' # <<>> /\ P!Top' = f
  BY <1>2, TopReplaced
<1>4. CursorOK(tokenArray, nextToken, P!Top'.at)
  BY <1>2, <1>3 DEF CursorOK
<1> QED
  BY <1>0, <1>2, <1>3, <1>4, Stays

\* The steps that return without reading, or report an error.
LEMMA ReturnsKeepCursor ==
  ASSUME Running, P!FailedExpression \/ P!EndExpression \/ P!EndAssignment \/ P!EndUnary \/ P!MalformedFactor
  PROVE  CursorInv'
<1>0. /\ TreeInv /\ CursorInv /\ calls # <<>> /\ parserError \in BOOLEAN
      /\ UNCHANGED <<tokenArray, parsed, parsing, nextToken>> /\ calls' = P!Below
  BY RunningFacts DEF P!FailedExpression, P!EndExpression, P!EndAssignment, P!EndUnary, P!MalformedFactor, P!Same, P!Return, P!ReturnNew
<1>1. CASE P!FailedExpression
  <2>1. P!Top.at \in {"initializer", "returned"} /\ ret = P!NULL /\ UNCHANGED parserError
    BY <1>1 DEF P!FailedExpression
  <2>2. parserError
    BY <1>0, <2>1, CleanAnswer DEF Awaits, AwaitsExpression
  <2>3. calls' # <<>> /\ P!Top'.at \in Awaits
    BY <1>0, <2>1, TopReturned DEF FunctionStops
  <2> QED
    BY <1>0, <2>1, <2>2, <2>3, AwaitsNone, Stays
<1>2. CASE P!EndExpression \/ P!EndAssignment \/ P!EndUnary
  <2>1. P!Top.at \in {"operator", "assigned", "inner"} /\ UNCHANGED parserError
    BY <1>2 DEF P!EndExpression, P!EndAssignment, P!EndUnary, P!At
  <2>2. calls' # <<>> /\ P!Top'.at \in Awaits /\ Calls(P!Top'.at, P!Top.at)
    BY <1>0, <2>1, TopReturned DEF FunctionStops
  <2>3. P!Top'.at \in AfterNumber
    BY <2>1, <2>2, Returns DEF ExpressionStops, FactorStops
  <2> QED
    BY <1>0, <2>1, <2>2, <2>3, AwaitsNone, Stays
<1>3. CASE P!MalformedFactor
  <2>1. P!Top.at = "factor" /\ parserError' = TRUE
    BY <1>3 DEF P!MalformedFactor, P!At, P!Error
  <2>2. calls' # <<>> /\ P!Top'.at \in Awaits
    BY <1>0, <2>1, TopReturned DEF FunctionStops
  <2> QED
    BY <1>0, <2>1, <2>2, AwaitsNone, Stays
<1> QED
  BY <1>1, <1>2, <1>3

\* The steps that read a semicolon or a parenthesis.
LEMMA ExpectsKeepCursor ==
  ASSUME Running, P!EndPlainDeclaration \/ P!EndDeclaration \/ P!EndReturn \/ P!EndExpressionStatement \/ P!EndParens
  PROVE  CursorInv'
<1>1. UNCHANGED <<tokenArray, parsed, parsing>>
  BY DEF P!EndPlainDeclaration, P!EndDeclaration, P!EndReturn, P!EndExpressionStatement, P!EndParens, P!Same
<1>2. P!Reads /\ P!Top.at \notin FunctionStops
  BY DEF P!EndPlainDeclaration, P!EndDeclaration, P!EndReturn, P!EndExpressionStatement, P!EndParens, P!At, P!Reads, FunctionStops
<1>3. P!Consume(1) /\ calls' = P!Below /\ ((P!Peek \in {"SEMICOLON", "RPAREN"} /\ UNCHANGED parserError) \/ P!Error)
  BY DEF P!EndPlainDeclaration, P!EndDeclaration, P!EndReturn, P!EndExpressionStatement, P!EndParens, P!expect, P!Return, P!ReturnNew
<1> QED
  BY <1>1, <1>2, <1>3, Expects

\* The steps that read a token which is a node by itself.
LEMMA LeavesKeepCursor ==
  ASSUME Running, P!ParseNullStatement \/ P!ParseLeaf
  PROVE  CursorInv'
<1>0. /\ CursorInv /\ calls # <<>> /\ parserError \in BOOLEAN /\ parsing = "running"
      /\ UNCHANGED <<tokenArray, parsed, parsing, parserError>> /\ calls' = P!Below /\ P!Consume(1)
  BY RunningFacts DEF Running, P!ParseNullStatement, P!ParseLeaf, P!Same, P!Return, P!ReturnNew
<1>1. CASE P!ParseNullStatement
  <2>1. P!Top.at = "statement" /\ P!Peek = "SEMICOLON"
    BY <1>1 DEF P!ParseNullStatement, P!At
  <2>2. nextToken \in 1..Len(tokenArray)
    BY <1>0, <2>1, CursorFacts DEF CursorInv, CursorOK
  <2>3. calls' # <<>> /\ P!Top'.at \in Awaits
    BY <1>0, <2>1, TopReturned DEF FunctionStops
  <2>4. P!Peek \notin WordTypes
    BY <2>1 DEF WordTypes
  <2> QED
    BY <1>0, <2>1, <2>2, <2>3, <2>4, AwaitsNone, Moves
<1>2. CASE P!ParseLeaf
  <2>1. P!Top.at = "factor" /\ P!Peek \in {"INTEGER_LITERAL", "IDENTIFIER"} /\ nextToken \in 1..Len(tokenArray)
    BY <1>2, RunningFacts DEF P!ParseLeaf, P!At, P!Reads
  <2>2. calls' # <<>> /\ P!Top'.at \in Awaits /\ Calls(P!Top'.at, P!Top.at)
    BY <1>0, <2>1, TopReturned DEF FunctionStops
  <2>3. P!Top'.at \in AfterNumber
    BY <2>1, <2>2, Returns DEF FactorStops
  <2>4. P!Top.at \notin AfterNumber
    BY <2>1 DEF AfterNumber, Awaits, AwaitsExpression, AwaitsFactor
  <2> QED
    BY <1>0, <2>1, <2>2, <2>3, <2>4, AwaitsNone, Moves
<1> QED
  BY <1>1, <1>2

\* A declaration looks two tokens ahead, and not past the end.
LEMMA DeclarationInside ==
  ASSUME Running, P!ParseDeclaration
  PROVE  /\ nextToken \in 1..Len(tokenArray) /\ nextToken + 1 \in 1..Len(tokenArray) /\ P!Peek = "INT"
         /\ tokenArray[nextToken + 1].type = "IDENTIFIER" => nextToken + 2 \in 1..Len(tokenArray)
<1>1. CursorInv /\ P!Top.at = "declaration" /\ parsing = "running" /\ Lexed(tokenArray) /\ Len(tokenArray) \in Nat /\ nextToken \in Nat
  BY RunningFacts, CursorFacts DEF Running, P!ParseDeclaration, P!At, CursorInv
<1>2. nextToken \in 1..Len(tokenArray) /\ P!Peek = "INT"
  BY <1>1, CursorFacts DEF CursorInv, CursorOK, P!Peek
<1>3. nextToken + 1 \in 1..Len(tokenArray)
  BY <1>1, <1>2, Inside DEF P!Peek
<1>4. ASSUME tokenArray[nextToken + 1].type = "IDENTIFIER" PROVE nextToken + 2 \in 1..Len(tokenArray)
  <2>1. nextToken + 1 + 1 \in 1..Len(tokenArray)
    BY <1>1, <1>3, <1>4, Inside
  <2> QED
    BY <1>1, <2>1
<1> QED
  BY <1>2, <1>3, <1>4

\* The step that reads a type and a name.
LEMMA DeclarationKeepsCursor ==
  ASSUME Running, P!ParseDeclaration
  PROVE  CursorInv'
<1>0. /\ CursorInv /\ calls # <<>> /\ P!Top \in Frames /\ parserError \in BOOLEAN /\ parsing = "running" /\ P!Top.at = "declaration"
      /\ UNCHANGED <<tokenArray, parsed, parsing>> /\ Lexed(tokenArray) /\ Len(tokenArray) \in Nat /\ nextToken \in Nat
  BY RunningFacts, CursorFacts DEF Running, P!ParseDeclaration, P!At, P!Same, CursorInv
<1>1. nextToken \in 1..Len(tokenArray) /\ nextToken + 1 \in 1..Len(tokenArray) /\ P!Peek = "INT"
  BY DeclarationInside
<1>2. "declaration" \notin AfterNumber
  BY DEF AfterNumber, Awaits, AwaitsExpression, AwaitsFactor
<1>3. PICK name : name = tokenArray[nextToken + 1]
  OBVIOUS
<1>4. name.literal \in Seq(STRING)
  BY <1>0, <1>1, <1>3, TokenFacts
<1>5. CASE name.type # "IDENTIFIER"
  <2>1. P!Consume(2) /\ parserError' = TRUE /\ calls' = P!Below
    BY <1>3, <1>5 DEF P!ParseDeclaration, P!Error, P!Return
  <2>2. calls' # <<>> /\ P!Top'.at \in Awaits
    BY <1>0, <2>1, TopReturned DEF FunctionStops
  <2>3. nextToken' \in 1..Len(tokenArray)+1
    BY <1>0, <1>1, <2>1 DEF P!Consume
  <2> QED
    BY <1>0, <2>1, <2>2, <2>3, AwaitsNone, CursorKeeps
<1>6. CASE name.type = "IDENTIFIER"
  <2>1. nextToken + 2 \in 1..Len(tokenArray)
    BY <1>3, <1>6, DeclarationInside
  <2>2. ASSUME ~parserError PROVE CursorClean(tokenArray, nextToken + 2, "declaration")
    <3>1. CursorClean(tokenArray, nextToken, "declaration")
      BY <1>0, <2>2 DEF CursorInv
    <3>2. CursorClean(tokenArray, nextToken + 1, "declaration")
      BY <1>0, <1>1, <1>2, <3>1, CursorMoves DEF P!Peek
    <3>3. CursorClean(tokenArray, nextToken + 1 + 1, "declaration")
      BY <1>0, <1>1, <1>2, <1>3, <1>6, <3>2, CursorMoves
    <3> QED
      BY <1>0, <3>3
  <2>3. CASE tokenArray[nextToken + 2].type = "EQUAL"
    <3>1. PICK f : f = [P!Top EXCEPT !.at = "initializer", !.name = name.literal]
      OBVIOUS
    <3>2. f \in Frames
      BY <1>0, <1>4, <3>1 DEF Frames, P!Stops
    <3>3. PICK g : g = P!Frame("expression", 0)
      OBVIOUS
    <3>a. "expression" \in P!Stops /\ 0 \in 0..51
      BY DEF P!Stops
    <3>4. g \in Frames /\ g.at = "expression"
      BY <3>3, <3>a, FrameIs DEF IsNew
    <3>5. P!Call(g, f) /\ P!Consume(3) /\ UNCHANGED parserError
      BY <1>3, <1>6, <2>3, <3>1, <3>3 DEF P!ParseDeclaration
    <3>6. calls' # <<>> /\ P!Top' = g
      BY <3>2, <3>4, <3>5, TopCalled
    <3>7. nextToken' = nextToken + 3 /\ nextToken + 3 \in 1..Len(tokenArray)+1
      BY <1>0, <2>1, <3>5 DEF P!Consume
    <3>8. ASSUME ~parserError PROVE CursorClean(tokenArray, nextToken + 3, "expression")
      <4>1. CursorClean(tokenArray, nextToken + 2, "declaration")
        BY <2>2, <3>8
      <4>2. CursorClean(tokenArray, nextToken + 2 + 1, "expression")
        BY <1>0, <1>2, <2>1, <2>3, <4>1, CursorMoves
      <4> QED
        BY <1>0, <4>2
    <3>9. CursorOK(tokenArray, nextToken + 3, "expression")
      BY DEF CursorOK
    <3> QED
      BY <1>0, <3>4, <3>5, <3>6, <3>7, <3>8, <3>9, CursorKeeps
  <2>4. CASE tokenArray[nextToken + 2].type # "EQUAL"
    <3>1. PICK f : f = [P!Top EXCEPT !.at = "declared", !.name = name.literal]
      OBVIOUS
    <3>2. f \in Frames /\ f.at = "declared"
      BY <1>0, <1>4, <3>1 DEF Frames, P!Stops
    <3>5. P!Become(f) /\ P!Consume(2) /\ UNCHANGED parserError
      BY <1>3, <1>6, <2>4, <3>1 DEF P!ParseDeclaration
    <3>6. calls' # <<>> /\ P!Top' = f
      BY <3>2, <3>5, TopReplaced
    <3>7. nextToken' = nextToken + 2 /\ nextToken + 2 \in 1..Len(tokenArray)+1
      BY <1>0, <2>1, <3>5 DEF P!Consume
    <3>8. ASSUME ~parserError PROVE CursorClean(tokenArray, nextToken + 2, "declared")
      BY <1>2, <2>2, <3>8, CursorStays
    <3>9. CursorOK(tokenArray, nextToken + 2, "declared")
      BY DEF CursorOK
    <3> QED
      BY <1>0, <3>2, <3>5, <3>6, <3>7, <3>8, <3>9, CursorKeeps
  <2> QED
    BY <2>3, <2>4
<1> QED
  BY <1>5, <1>6

\* Every step keeps the invariant: action by action, the tree and the cursor.
LEMMA ParStepInv ==
  ASSUME ParInv, P!Next
  PROVE  ParInv'
<1>1. CASE P!ReadPastEnd
  <2>1. /\ CursorInv /\ parsing = "running" /\ Lexed(tokenArray) /\ Len(tokenArray) \in Nat /\ nextToken \in Nat
        /\ nextToken > Len(tokenArray) /\ parserError \in BOOLEAN
        /\ parsing' = "undefined" /\ UNCHANGED <<tokenArray, nextToken, parsedTree, body, calls, ret, parsed, parserError>>
    BY <1>1, CursorFacts DEF P!ReadPastEnd, ParInv, CursorInv, P!tree
  <2>2. parserError
    <3>1. SUFFICES ASSUME ~parserError PROVE FALSE
      OBVIOUS
    <3>2. CursorClean(tokenArray, nextToken, P!Top.at) /\ nextToken \in 1..Len(tokenArray)+1
      BY <2>1, <3>1 DEF CursorInv
    <3>3. nextToken \in 1..Len(tokenArray)
      BY <2>1, <3>2, CursorInside
    <3> QED
      BY <2>1, <3>3
  <2>3. TreeInv'
    BY <2>1 DEF TreeInv, ParInv
  <2>4. (Lexed(tokenArray))'
    BY <2>1 DEF Lexed, EndsOnce
  <2>5. CursorInv'
    BY <2>1, <2>2, <2>4 DEF CursorInv
  <2> QED
    BY <2>3, <2>5 DEF ParInv
<1>2. CASE parsing = "running" /\ (P!Reads => nextToken <= Len(tokenArray)) /\ P!Step
  <2>0. Running
    BY <1>2 DEF Running
  <2>1. CASE P!ParseHeader
    BY <2>0, <2>1, StepsKeepTree, HeaderKeepsCursor DEF ParInv
  <2>2. CASE P!MalformedHeader
    BY <2>0, <2>2, EndsKeepTree, BadHeaderKeepsCursor DEF ParInv
  <2>3. CASE P!FailedBlockItem \/ P!EndFunction
    BY <2>0, <2>3, EndsKeepTree, EndsKeepCursor DEF ParInv
  <2>4. CASE P!ParseBlockItem \/ P!ParseExpressionStatement \/ P!ParseExpression
    BY <2>0, <2>4, CallsKeepTree, CallsKeepCursor DEF ParInv
  <2>5. CASE P!ParseReturn \/ P!ParseParens
    BY <2>0, <2>5, CallsKeepTree, OperandsKeepCursor DEF ParInv
  <2>6. CASE P!ParseAssignment \/ P!ParseRightOperand \/ P!ParseUnary
    BY <2>0, <2>6, OperandsKeepTree, OperandsKeepCursor DEF ParInv
  <2>7. CASE P!PushBlockItem \/ P!LeftParsed
    BY <2>0, <2>7, StepsKeepTree, StepsKeepCursor DEF ParInv
  <2>8. CASE P!RightParsed
    BY <2>0, <2>8, RightKeepsTree, StepsKeepCursor DEF ParInv
  <2>9. CASE P!ParseDeclaration
    BY <2>0, <2>9, DeclarationInside, DeclarationKeepsTree, DeclarationKeepsCursor DEF ParInv
  <2>10. CASE P!EndPlainDeclaration \/ P!EndDeclaration \/ P!EndReturn
    BY <2>0, <2>10, ItemsKeepTree, ExpectsKeepCursor DEF ParInv
  <2>11. CASE P!ParseNullStatement
    BY <2>0, <2>11, ItemsKeepTree, LeavesKeepCursor DEF ParInv
  <2>12. CASE P!EndExpressionStatement \/ P!EndParens
    BY <2>0, <2>12, ReturnsKeepTree, ExpectsKeepCursor DEF ParInv
  <2>13. CASE P!FailedExpression \/ P!MalformedFactor
    BY <2>0, <2>13, ReturnsKeepTree, ReturnsKeepCursor DEF ParInv
  <2>14. CASE P!EndExpression
    BY <2>0, <2>14, StepsKeepTree, ReturnsKeepCursor DEF ParInv
  <2>15. CASE P!EndAssignment \/ P!EndUnary
    BY <2>0, <2>15, ExpressionsKeepTree, ReturnsKeepCursor DEF ParInv
  <2>16. CASE P!ParseLeaf
    BY <2>0, <2>16, ExpressionsKeepTree, LeavesKeepCursor DEF ParInv
  <2> QED
    BY <1>2, <2>1, <2>2, <2>3, <2>4, <2>5, <2>6, <2>7, <2>8, <2>9, <2>10, <2>11, <2>12, <2>13, <2>14, <2>15, <2>16
       DEF P!Step
<1> QED
  BY <1>1, <1>2 DEF P!Next

\* The invariant holds when the parser begins, on tokens that the lexer has left.
LEMMA ParInitInv ==
  ASSUME P!Fresh, Lexed(tokenArray)
  PROVE  ParInv
<1>1. PICK f : f = P!Frame("function", 0)
  OBVIOUS
<1>a. "function" \in P!Stops /\ 0 \in 0..51
  BY DEF P!Stops
<1>2. f \in Frames /\ f.at = "function" /\ f.left = P!NULL
  BY <1>1, <1>a, FrameIs DEF IsNew
<1>3. parsedTree = <<>> /\ body = <<>> /\ calls = <<f>> /\ ret = P!NULL /\ nextToken = 1 /\ ~parsed /\ ~parserError
      /\ parsed \in BOOLEAN /\ parserError \in BOOLEAN /\ parsing = "running"
  BY <1>1 DEF P!Fresh
<1>4. PICK F : F = <<f>>
  OBVIOUS
<1>5. F \in Seq(Frames) /\ Len(F) = 1 /\ F[1] = f
  BY <1>2, <1>4
<1>6. LiveRet(F, P!NULL) = P!NULL
  BY DEF LiveRet
<1>7. ASSUME NEW x \in Place PROVE Held(<<>>, <<>>, F, P!NULL)[x] = P!NULL
  <2>1. PICK k \in Nat : \/ x = Spot("body", k) \/ x = Spot("frame", k) \/ x = Spot("ret", k)
                         \/ x = Spot("left", k) \/ x = Spot("right", k)
    BY Places
  <2>2. /\ Item(<<>>, k) = P!NULL /\ LeftOf(<<>>, k) = P!NULL /\ RightOf(<<>>, k) = P!NULL /\ Answer(P!NULL, k) = P!NULL
    BY DEF Item, LeftOf, RightOf, Answer
  <2>3. LeftOf(F, k) = P!NULL
    BY <1>2, <1>5 DEF LeftOf
  <2> QED
    BY <2>1, <2>2, <2>3, HeldAt
<1>8. StackOK(F, 0)
  <2>1. FrameOK(f, 0)
    BY <1>2 DEF FrameOK, P!NULL
  <2> QED
    BY <1>2, <1>5, <2>1 DEF StackOK, FunctionStops
<1>9. Forest(<<>>, <<>>, F, P!NULL)
  <2>1. Apart(Held(<<>>, <<>>, F, P!NULL))
    BY <1>7 DEF Apart
  <2>2. P!NULL \in 0..0 /\ Len(<<>>) = 0
    BY DEF P!NULL
  <2> QED
    BY <1>5, <1>6, <1>8, <2>1, <2>2 DEF Forest
<1>10. Clean(<<>>, <<>>, F, P!NULL)
  <2>1. Whole(Held(<<>>, <<>>, F, P!NULL), 0)
    BY DEF Whole
  <2>2. f.at \notin KeepsLeft /\ f.at \notin Awaits
    BY <1>2 DEF KeepsLeft, Awaits, AwaitsExpression, AwaitsFactor
  <2> QED
    BY <1>5, <1>6, <2>1, <2>2 DEF Clean
<1>11. TreeInv
  BY <1>3, <1>4, <1>9, <1>10 DEF TreeInv
<1>12. P!Top.at = "function" /\ calls # <<>>
  BY <1>2, <1>3, <1>4, <1>5 DEF P!Top
<1>13. CursorOK(tokenArray, 1, "function") /\ CursorClean(tokenArray, 1, "function")
  BY DEF CursorOK, CursorClean
<1>14. 1 \in 1..Len(tokenArray)+1
  BY LenNat DEF Lexed
<1>15. CursorInv
  BY <1>3, <1>12, <1>13, <1>14 DEF CursorInv
<1> QED
  BY <1>11, <1>15 DEF ParInv

\* The types are those of the invariant.
LEMMA ParTypes ==
  ASSUME ParInv
  PROVE  P!TypeOK
<1>1. Forest(parsedTree, body, calls, ret) /\ CursorInv
  BY DEF ParInv, TreeInv
<1>2. /\ Len(parsedTree) \in Nat /\ Len(body) \in Nat /\ Len(calls) \in Nat
      /\ DOMAIN parsedTree = 1..Len(parsedTree) /\ DOMAIN body = 1..Len(body) /\ DOMAIN calls = 1..Len(calls)
  BY <1>1, LenNat DEF Forest
<1>3. \A n \in DOMAIN parsedTree : parsedTree[n].left \in 0..n-1 /\ parsedTree[n].right \in 0..n-1
  BY <1>1, <1>2 DEF Forest
<1>4. ret \in P!Pointer
  BY <1>1 DEF Forest, P!Pointer
<1>5. \A k \in DOMAIN body : body[k] \in P!Pointer \ {P!NULL}
  BY <1>1, <1>2 DEF Forest, P!Pointer, P!NULL
<1>6. ASSUME NEW k \in DOMAIN calls
      PROVE  /\ calls[k].at \in P!Stops /\ calls[k].left \in P!Pointer
             /\ calls[k].min \in 0..51 /\ calls[k].op \in P!TokenType
  <2>1. calls[k] \in Frames /\ FrameOK(calls[k], Len(parsedTree))
    BY <1>1, <1>2 DEF Forest, StackOK
  <2> QED
    BY <2>1 DEF Frames, FrameOK, P!Pointer
<1> QED
  BY <1>1, <1>3, <1>4, <1>5, <1>6 DEF P!TypeOK, CursorInv

\* A parser that has returned without an error has made a tree.
LEMMA ParTree ==
  ASSUME ParInv, parsing = "done", ~parserError
  PROVE  P!IsTree(parsedTree, body) /\ parsed
<1>1. Forest(parsedTree, body, calls, ret) /\ Clean(parsedTree, body, calls, ret) /\ calls = <<>> /\ parsed
  BY DEF ParInv, TreeInv, CursorInv
<1>2. /\ Len(parsedTree) \in Nat /\ Len(body) \in Nat
      /\ DOMAIN parsedTree = 1..Len(parsedTree) /\ DOMAIN body = 1..Len(body)
  BY <1>1, LenNat DEF Forest
<1> DEFINE q == Held(parsedTree, body, calls, LiveRet(calls, ret))
<1>3. Apart(q)
  BY <1>1 DEF Forest
<1>4. ASSUME NEW n \in 1..Len(parsedTree)
      PROVE  /\ Spot("left", n) \in Place /\ Spot("right", n) \in Place /\ n \in Nat
             /\ q[Spot("left", n)] = parsedTree[n].left /\ q[Spot("right", n)] = parsedTree[n].right
  <2>1. n \in Nat
    BY <1>2
  <2> QED
    BY <2>1, HeldAt, SpotIsPlace DEF LeftOf, RightOf
<1>5. ASSUME NEW k \in 1..Len(body)
      PROVE  /\ Spot("body", k) \in Place /\ q[Spot("body", k)] = body[k] /\ k \in Nat /\ body[k] \in 1..Len(parsedTree) /\ body[k] # P!NULL
  <2>1. k \in Nat
    BY <1>2
  <2>2. body[k] \in 1..Len(parsedTree) /\ body[k] # P!NULL
    BY <1>1, <1>2 DEF Forest, P!NULL
  <2> QED
    BY <2>1, <2>2, HeldAt, SpotIsPlace DEF Item
<1> HIDE DEF q
<1>6. ASSUME NEW n \in 1..Len(parsedTree)
      PROVE  /\ P!IsNode(parsedTree[n]) /\ parsedTree[n].left \in 0..n-1 /\ parsedTree[n].right \in 0..n-1
             /\ P!Kids(parsedTree[n]) # {} => parsedTree[n].left # parsedTree[n].right
             /\ \A c \in P!Kids(parsedTree[n]) : parsedTree[c].type \notin {"DECLARATION", "STATEMENT"}
  <2>1. P!IsNode(parsedTree[n]) /\ KidsAre(parsedTree, n) /\ parsedTree[n].left \in 0..n-1 /\ parsedTree[n].right \in 0..n-1
    BY <1>1 DEF Forest, Clean
  <2>2. ASSUME parsedTree[n].left = parsedTree[n].right, P!Kids(parsedTree[n]) # {} PROVE FALSE
    <3>1. parsedTree[n].left # P!NULL
      BY <2>2 DEF P!Kids
    <3>2. Spot("left", n) = Spot("right", n)
      BY <1>3, <1>4, <2>2, <3>1 DEF Apart
    <3>3. n \in Nat
      BY <1>4
    <3>4. Spot("left", n) = Spot("right", n) <=> "left" = "right" /\ n = n
      BY <3>3, SpotsApart
    <3> QED
      BY <3>2, <3>4
  <2>3. \A c \in P!Kids(parsedTree[n]) : parsedTree[c].type \notin {"DECLARATION", "STATEMENT"}
    BY <2>1 DEF KidsAre, IsExpression
  <2> QED
    BY <2>1, <2>2, <2>3
<1>7. ASSUME NEW m \in 1..Len(parsedTree), NEW n \in 1..Len(parsedTree), NEW c \in P!Kids(parsedTree[m]), c \in P!Kids(parsedTree[n])
      PROVE  m = n
  <2>1. PICK p \in {"left", "right"} : q[Spot(p, m)] = c
    BY <1>4 DEF P!Kids
  <2>2. PICK o \in {"left", "right"} : q[Spot(o, n)] = c
    BY <1>4, <1>7 DEF P!Kids
  <2>3. c # P!NULL
    BY DEF P!Kids
  <2>4. Spot(p, m) \in Place /\ Spot(o, n) \in Place
    BY <1>4
  <2>5. Spot(p, m) = Spot(o, n)
    BY <1>3, <2>1, <2>2, <2>3, <2>4 DEF Apart
  <2> QED
    BY <1>4, <2>5, SpotsApart
<1>8. ASSUME NEW k \in 1..Len(body), NEW n \in 1..Len(parsedTree), body[k] \in P!Kids(parsedTree[n])
      PROVE  FALSE
  <2>1. PICK p \in {"left", "right"} : q[Spot(p, n)] = body[k]
    BY <1>4, <1>8 DEF P!Kids
  <2>2. Spot(p, n) \in Place
    BY <1>4
  <2>3. Spot(p, n) = Spot("body", k)
    BY <1>3, <1>5, <2>1, <2>2 DEF Apart
  <2>4. n \in Nat /\ k \in Nat
    BY <1>4, <1>5
  <2>5. p = "body"
    BY <2>3, <2>4, SpotsApart
  <2> QED
    BY <2>5
<1>9. ASSUME NEW k \in 1..Len(body), NEW l \in 1..Len(body), body[k] = body[l]
      PROVE  k = l
  <2>1. Spot("body", k) = Spot("body", l)
    BY <1>3, <1>5, <1>9 DEF Apart
  <2> QED
    BY <1>5, <2>1, SpotsApart
<1> QED
  <2>1. \A m, n \in 1..Len(parsedTree) : m # n => P!Kids(parsedTree[m]) \cap P!Kids(parsedTree[n]) = {}
    BY <1>7
  <2>2. \A k \in 1..Len(body) : /\ body[k] \in 1..Len(parsedTree)
                                /\ \A n \in 1..Len(parsedTree) : body[k] \notin P!Kids(parsedTree[n])
    BY <1>5, <1>8
  <2>3. \A n \in 1..Len(parsedTree) :
           /\ P!IsNode(parsedTree[n]) /\ parsedTree[n].left \in 0..n-1 /\ parsedTree[n].right \in 0..n-1
           /\ P!Kids(parsedTree[n]) # {} => parsedTree[n].left # parsedTree[n].right
           /\ \A c \in P!Kids(parsedTree[n]) : parsedTree[c].type \notin {"DECLARATION", "STATEMENT"}
    BY <1>6
  <2>4. \A h, k \in 1..Len(body) : body[h] = body[k] => h = k
    BY <1>9
  <2> QED
    BY <1>1, <1>2, <2>1, <2>2, <2>3, <2>4 DEF P!IsTree

\* A text whose tokens show an error is one that the parser reports an error in.
LEMMA ParShows ==
  ASSUME ParInv, parsing # "running", Broken(tokenArray)
  PROVE  parserError
BY DEF ParInv, CursorInv

-----------------------------------------------------------------------------
(* The cleanup, on N nodes of which every one is held in one place            *)

\* The nodes that hang on node n, and those in a list.
KidsOf(A, n) == {A[n].left, A[n].right} \ {0}
Listed(s)    == {s[k] : k \in 1..Len(s)}

\* The nodes that are freed for n, as ast_free_node calls itself on them.
FreedOf(A, n, f)    == IF n = 0 THEN <<>> ELSE f[A[n].left] \o f[A[n].right] \o <<n>>
IsFreed(A, N, f)    == f = [n \in 0..N |-> FreedOf(A, n, f)]
\* The lists s of the items, one after the other.
JoinedAt(s, k, g)   == IF k = 1 THEN s[k] ELSE g[k-1] \o s[k]
IsJoined(s, M, g)   == g = [k \in 1..M |-> JoinedAt(s, k, g)]

\* A child is older than its parent, and has no other.
OneParent(A, N) ==
  /\ \A n \in 1..N : A[n].left \in 0..n-1 /\ A[n].right \in 0..n-1
  /\ \A n \in 1..N : A[n].left = A[n].right => A[n].left = 0
  /\ \A m, n \in 1..N : \A c \in KidsOf(A, m) : c \in KidsOf(A, n) => m = n
\* The items of BB are distinct and hang nowhere.
Roots(A, N, BB) ==
  \A k \in 1..Len(BB) :
    /\ BB[k] \in 1..N
    /\ \A l \in 1..Len(BB) : BB[k] = BB[l] => k = l
    /\ \A n \in 1..N : BB[k] \notin KidsOf(A, n)

\* Every node of X is x, or hangs on one of X.
HangsOn(A, X, x) == \A c \in X : c = x \/ \E y \in X : c \in KidsOf(A, y)
ClosedUnder(A, X) == \A y \in X : KidsOf(A, y) \subseteq X

\* The longest prefixes of a function that is defined by recursion exist.
LEMMA SomeFreed ==
  ASSUME NEW A, NEW N \in Nat, OneParent(A, N)
  PROVE  \A n \in Nat : n <= N => \E f : IsFreed(A, n, f)
<1> DEFINE T == {n \in Nat : n <= N => \E f : IsFreed(A, n, f)}
<1>1. 0 \in T
  <2> DEFINE f == [n \in 0..0 |-> <<>>]
  <2>1. IsFreed(A, 0, f)
    BY DEF IsFreed, FreedOf
  <2> QED
    BY <2>1
<1>2. ASSUME NEW n \in Nat, n \in T PROVE n + 1 \in T
  <2> SUFFICES ASSUME n + 1 <= N PROVE \E f : IsFreed(A, n + 1, f)
    OBVIOUS
  <2>1. PICK g : IsFreed(A, n, g)
    BY <1>2
  <2>2. PICK v : v = FreedOf(A, n + 1, g)
    OBVIOUS
  <2> DEFINE f == [m \in 0..n+1 |-> IF m = n + 1 THEN v ELSE g[m]]
  <2>3. ASSUME NEW m \in 0..n+1 PROVE f[m] = FreedOf(A, m, f)
    <3>1. m # 0 => A[m].left \in 0..m-1 /\ A[m].right \in 0..m-1
      BY DEF OneParent
    <3>2. m # 0 => f[A[m].left] = g[A[m].left] /\ f[A[m].right] = g[A[m].right]
      BY <3>1
    <3>3. FreedOf(A, m, f) = FreedOf(A, m, g)
      <4> HIDE DEF f
      <4> QED
        BY <3>2 DEF FreedOf
    <3>4. CASE m = n + 1
      <4>1. f[m] = v
        BY <3>4
      <4> QED
        BY <2>2, <3>3, <3>4, <4>1
    <3>5. CASE m # n + 1
      <4>1. m \in 0..n /\ f[m] = g[m]
        BY <3>5
      <4>2. g[m] = FreedOf(A, m, g)
        BY <2>1, <4>1 DEF IsFreed
      <4> QED
        BY <3>3, <4>1, <4>2
    <3> QED
      BY <3>4, <3>5
  <2>4. IsFreed(A, n + 1, f)
    <3>1. f = [m \in 0..n+1 |-> f[m]]
      OBVIOUS
    <3> HIDE DEF f
    <3> QED
      BY <2>3, <3>1 DEF IsFreed
  <2> QED
    BY <2>4
<1>3. Nat \subseteq T
  <2> HIDE DEF T
  <2> QED
    BY <1>1, <1>2, SetInduction
<1> QED
  BY <1>3

\* The lists of the items have a list of all of them.
LEMMA SomeJoined ==
  ASSUME NEW s, NEW M \in Nat \ {0}
  PROVE  \E g : IsJoined(s, M, g)
<1> DEFINE T == {n \in Nat : \E g : IsJoined(s, n, g)}
<1>1. 0 \in T
  <2> DEFINE g == [n \in 1..0 |-> <<>>]
  <2>1. IsJoined(s, 0, g)
    BY DEF IsJoined
  <2> QED
    BY <2>1
<1>2. ASSUME NEW n \in Nat, n \in T PROVE n + 1 \in T
  <2>1. PICK h : IsJoined(s, n, h)
    BY <1>2
  <2>2. PICK v : v = JoinedAt(s, n + 1, h)
    OBVIOUS
  <2> DEFINE g == [k \in 1..n+1 |-> IF k = n + 1 THEN v ELSE h[k]]
  <2>3. ASSUME NEW k \in 1..n+1 PROVE g[k] = JoinedAt(s, k, g)
    <3>1. k # 1 => k - 1 \in 1..n+1 /\ k - 1 # n + 1 /\ k - 1 \in 1..n
      OBVIOUS
    <3>2. k # 1 => g[k - 1] = h[k - 1]
      BY <3>1
    <3>3. JoinedAt(s, k, g) = JoinedAt(s, k, h)
      <4> HIDE DEF g
      <4> QED
        BY <3>2 DEF JoinedAt
    <3>4. CASE k = n + 1
      <4>1. g[k] = v
        BY <3>4
      <4> QED
        BY <2>2, <3>3, <3>4, <4>1
    <3>5. CASE k # n + 1
      <4>1. k \in 1..n /\ g[k] = h[k]
        BY <3>5
      <4>2. h[k] = JoinedAt(s, k, h)
        BY <2>1, <4>1 DEF IsJoined
      <4> QED
        BY <3>3, <4>1, <4>2
    <3> QED
      BY <3>4, <3>5
  <2>4. IsJoined(s, n + 1, g)
    <3>1. g = [k \in 1..n+1 |-> g[k]]
      OBVIOUS
    <3> HIDE DEF g
    <3> QED
      BY <2>3, <3>1 DEF IsJoined
  <2> QED
    BY <2>4
<1>3. Nat \subseteq T
  <2> HIDE DEF T
  <2> QED
    BY <1>1, <1>2, SetInduction
<1> QED
  BY <1>3

\* What a joined list holds, and when it holds nothing twice.
LEMMA ListedOfBoth ==
  ASSUME NEW s \in Seq(Nat), NEW t \in Seq(Nat)
  PROVE  s \o t \in Seq(Nat) /\ Listed(s \o t) = Listed(s) \cup Listed(t)
<1>1. PICK u : u = s \o t
  OBVIOUS
<1>2. u \in Seq(Nat) /\ Len(u) = Len(s) + Len(t) /\ Len(s) \in Nat /\ Len(t) \in Nat
  BY <1>1, Concatenation, LenProperties
<1>3. \A k \in 1..Len(s)+Len(t) : u[k] = IF k <= Len(s) THEN s[k] ELSE t[k - Len(s)]
  BY <1>1, ConcatenationElements
<1>4. ASSUME NEW k \in 1..Len(u) PROVE u[k] \in Listed(s) \cup Listed(t)
  <2>1. CASE k <= Len(s)
    BY <1>2, <1>3, <2>1 DEF Listed
  <2>2. CASE k > Len(s)
    <3>1. k - Len(s) \in 1..Len(t)
      BY <1>2, <2>2
    <3> QED
      BY <1>2, <1>3, <2>2, <3>1 DEF Listed
  <2> QED
    BY <1>2, <2>1, <2>2
<1>5. ASSUME NEW k \in 1..Len(s) PROVE s[k] \in Listed(u)
  <2>1. k \in 1..Len(u) /\ u[k] = s[k]
    BY <1>2, <1>3
  <2> QED
    BY <2>1 DEF Listed
<1>6. ASSUME NEW k \in 1..Len(t) PROVE t[k] \in Listed(u)
  <2>0. PICK m \in Nat : m = k + Len(s)
    BY <1>2
  <2>1. m \in 1..Len(u) /\ m - Len(s) = k /\ ~(m <= Len(s)) /\ m \in 1..Len(s)+Len(t)
    BY <1>2, <2>0
  <2>2. u[m] = t[k]
    BY <1>3, <2>1
  <2> QED
    BY <2>1, <2>2 DEF Listed
<1>7. Listed(u) = Listed(s) \cup Listed(t)
  BY <1>4, <1>5, <1>6 DEF Listed
<1> QED
  BY <1>1, <1>2, <1>7

\* A list that holds nothing twice.
LEMMA InjectiveAt ==
  ASSUME NEW s \in Seq(Nat)
  PROVE  IsInjective(s) <=> \A k, l \in 1..Len(s) : s[k] = s[l] => k = l
<1>1. DOMAIN s = 1..Len(s)
  BY LenProperties
<1> QED
  BY <1>1 DEF IsInjective

\* Two lists with nothing in common hold nothing twice together.
LEMMA ApartJoin ==
  ASSUME NEW s \in Seq(Nat), NEW t \in Seq(Nat), IsInjective(s), IsInjective(t),
         Listed(s) \cap Listed(t) = {}
  PROVE  IsInjective(s \o t)
<1>1. PICK u : u = s \o t
  OBVIOUS
<1>2. u \in Seq(Nat) /\ Len(u) = Len(s) + Len(t) /\ Len(s) \in Nat /\ Len(t) \in Nat
  BY <1>1, Concatenation, LenProperties
<1>3. \A k \in 1..Len(s)+Len(t) : u[k] = IF k <= Len(s) THEN s[k] ELSE t[k - Len(s)]
  BY <1>1, ConcatenationElements
<1>4. \A k, l \in 1..Len(s) : s[k] = s[l] => k = l
  BY InjectiveAt
<1>5. \A k, l \in 1..Len(t) : t[k] = t[l] => k = l
  BY InjectiveAt
<1>6. \A k \in 1..Len(s), l \in 1..Len(t) : s[k] # t[l]
  BY DEF Listed
<1>7. ASSUME NEW k \in 1..Len(u), NEW l \in 1..Len(u), u[k] = u[l] PROVE k = l
  <2>1. CASE k <= Len(s) /\ l <= Len(s)
    <3>1. k \in 1..Len(s) /\ l \in 1..Len(s) /\ k \in 1..Len(s)+Len(t) /\ l \in 1..Len(s)+Len(t)
      BY <1>2, <2>1
    <3>2. u[k] = s[k] /\ u[l] = s[l]
      BY <1>3, <2>1, <3>1
    <3> QED
      BY <1>4, <1>7, <3>1, <3>2
  <2>2. CASE k > Len(s) /\ l > Len(s)
    <3>1. k - Len(s) \in 1..Len(t) /\ l - Len(s) \in 1..Len(t)
      BY <1>2, <2>2
    <3>2. t[k - Len(s)] = t[l - Len(s)]
      BY <1>2, <1>3, <1>7, <2>2
    <3>3. k - Len(s) = l - Len(s)
      BY <1>5, <3>1, <3>2
    <3> QED
      BY <1>2, <3>3
  <2>3. CASE k <= Len(s) /\ l > Len(s)
    <3>1. l - Len(s) \in 1..Len(t) /\ k \in 1..Len(s) /\ k \in 1..Len(s)+Len(t) /\ l \in 1..Len(s)+Len(t)
      BY <1>2, <2>3
    <3>2. u[k] = s[k] /\ u[l] = t[l - Len(s)]
      BY <1>2, <1>3, <2>3, <3>1
    <3> QED
      BY <1>6, <1>7, <3>1, <3>2
  <2>4. CASE k > Len(s) /\ l <= Len(s)
    <3>1. k - Len(s) \in 1..Len(t) /\ l \in 1..Len(s) /\ k \in 1..Len(s)+Len(t) /\ l \in 1..Len(s)+Len(t)
      BY <1>2, <2>4
    <3>2. u[l] = s[l] /\ u[k] = t[k - Len(s)]
      BY <1>2, <1>3, <2>4, <3>1
    <3> QED
      BY <1>6, <1>7, <3>1, <3>2
  <2> QED
    BY <1>2, <2>1, <2>2, <2>3, <2>4
<1>8. IsInjective(u)
  BY <1>2, <1>7, InjectiveAt
<1> QED
  BY <1>1, <1>8

\* A node that hangs on nodes of two such sets would hang on two nodes, were it not
\* for a younger one that is in both.
LEMMA ApartHangers ==
  ASSUME NEW A, NEW N \in Nat, OneParent(A, N), NEW X, NEW Y, X \subseteq 1..N, Y \subseteq 1..N,
         NEW x, NEW y, HangsOn(A, X, x), HangsOn(A, Y, y), x \notin Y, y \notin X
  PROVE  X \cap Y = {}
<1> SUFFICES ASSUME X \cap Y # {} PROVE FALSE
  OBVIOUS
<1> DEFINE D == {d \in Nat : \E c \in X \cap Y : d = N - c}
<1>1. D # {}
  <2>1. PICK c \in X \cap Y : TRUE
    OBVIOUS
  <2>2. c \in 1..N /\ N - c \in Nat
    BY <2>1
  <2> QED
    BY <2>1, <2>2
<1>2. PICK d \in D : \A e \in D : d <= e
  <2>1. D \subseteq Nat
    OBVIOUS
  <2> HIDE DEF D
  <2> QED
    BY <1>1, <2>1, Least
<1>3. PICK c \in X \cap Y : d = N - c
  OBVIOUS
<1>4. c # x /\ c # y
  BY <1>3
<1>5. PICK m \in X : c \in KidsOf(A, m)
  BY <1>3, <1>4 DEF HangsOn
<1>6. PICK n \in Y : c \in KidsOf(A, n)
  BY <1>3, <1>4 DEF HangsOn
<1>7. m \in 1..N /\ n \in 1..N
  BY <1>5, <1>6
<1>8. m = n
  BY <1>5, <1>6, <1>7 DEF OneParent
<1>9. c < m /\ c \in Nat /\ m \in Nat
  BY <1>5, <1>7 DEF OneParent, KidsOf
<1>10. N - m \in D
  BY <1>5, <1>6, <1>7, <1>8
<1>11. d <= N - m
  BY <1>2, <1>10
<1> QED
  BY <1>3, <1>9, <1>11

\* What is freed for a node, when every node has one parent: the node and what
\* hangs on it, each once.
FreesOnce(A, f, n) ==
  /\ f[n] \in Seq(Nat) /\ Listed(f[n]) \subseteq 1..n
  /\ n # 0 => n \in Listed(f[n])
  /\ HangsOn(A, Listed(f[n]), n)
  /\ ClosedUnder(A, Listed(f[n]))
  /\ IsInjective(f[n])

\* For no node nothing is freed.
LEMMA NothingFreed ==
  ASSUME NEW A, NEW f, f[0] = <<>>
  PROVE  FreesOnce(A, f, 0)
<1>1. PICK s : s = f[0]
  OBVIOUS
<1>2. s \in Seq(Nat) /\ Listed(s) = {} /\ IsInjective(s)
  BY <1>1 DEF Listed, IsInjective
<1> QED
  BY <1>1, <1>2 DEF FreesOnce, HangsOn, ClosedUnder

\* Nothing is freed for both children of a node.
LEMMA ChildrenApart ==
  ASSUME NEW A, NEW N \in Nat, OneParent(A, N), NEW n \in 1..N, NEW f, NEW x, NEW y,
         x = A[n].left, y = A[n].right, FreesOnce(A, f, x), FreesOnce(A, f, y)
  PROVE  Listed(f[x]) \cap Listed(f[y]) = {}
<1>1. x \in 0..n-1 /\ y \in 0..n-1 /\ (x = y => x = 0)
  BY DEF OneParent
<1>2. Listed(f[x]) \subseteq 1..x /\ Listed(f[y]) \subseteq 1..y
  BY DEF FreesOnce
<1>3. x # 0 => x \in KidsOf(A, n)
  BY DEF KidsOf
<1>4. y # 0 => y \in KidsOf(A, n)
  BY DEF KidsOf
<1>5. ASSUME x \in Listed(f[y]) PROVE FALSE
  <2>1. x \in 1..y /\ x # 0
    BY <1>1, <1>2, <1>5
  <2>2. x # y
    BY <1>1, <2>1
  <2>3. PICK m \in Listed(f[y]) : x \in KidsOf(A, m)
    BY <1>5, <2>2 DEF FreesOnce, HangsOn
  <2>4. m \in 1..N /\ m < n
    BY <1>1, <1>2, <2>3
  <2>5. m = n
    BY <1>3, <2>1, <2>3, <2>4 DEF OneParent
  <2> QED
    BY <2>4, <2>5
<1>6. ASSUME y \in Listed(f[x]) PROVE FALSE
  <2>1. y \in 1..x /\ y # 0
    BY <1>1, <1>2, <1>6
  <2>2. x # y
    BY <1>1, <2>1
  <2>3. PICK m \in Listed(f[x]) : y \in KidsOf(A, m)
    BY <1>6, <2>2 DEF FreesOnce, HangsOn
  <2>4. m \in 1..N /\ m < n
    BY <1>1, <1>2, <2>3
  <2>5. m = n
    BY <1>4, <2>1, <2>3, <2>4 DEF OneParent
  <2> QED
    BY <2>4, <2>5
<1>7. Listed(f[x]) \subseteq 1..N /\ Listed(f[y]) \subseteq 1..N
  BY <1>1, <1>2
<1>8. HangsOn(A, Listed(f[x]), x) /\ HangsOn(A, Listed(f[y]), y)
  BY DEF FreesOnce
<1> QED
  BY <1>5, <1>6, <1>7, <1>8, ApartHangers

\* From what is freed for its children follows what is freed for a node.
LEMMA ParentFreed ==
  ASSUME NEW A, NEW N \in Nat, OneParent(A, N), NEW n \in 1..N, NEW f,
         f[n] = FreedOf(A, n, f), FreesOnce(A, f, A[n].left), FreesOnce(A, f, A[n].right)
  PROVE  FreesOnce(A, f, n)
<1>1. PICK x : x = A[n].left
  OBVIOUS
<1>2. PICK y : y = A[n].right
  OBVIOUS
<1>3. x \in 0..n-1 /\ y \in 0..n-1 /\ n \in Nat /\ n # 0
  BY <1>1, <1>2 DEF OneParent
<1>4. FreesOnce(A, f, x) /\ FreesOnce(A, f, y)
  BY <1>1, <1>2
<1>5. PICK s : s = f[x]
  OBVIOUS
<1>6. PICK t : t = f[y]
  OBVIOUS
<1>7. /\ s \in Seq(Nat) /\ Listed(s) \subseteq 1..x /\ (x # 0 => x \in Listed(s))
      /\ HangsOn(A, Listed(s), x) /\ ClosedUnder(A, Listed(s)) /\ IsInjective(s)
  BY <1>4, <1>5 DEF FreesOnce
<1>8. /\ t \in Seq(Nat) /\ Listed(t) \subseteq 1..y /\ (y # 0 => y \in Listed(t))
      /\ HangsOn(A, Listed(t), y) /\ ClosedUnder(A, Listed(t)) /\ IsInjective(t)
  BY <1>4, <1>6 DEF FreesOnce
<1>9. Listed(s) \cap Listed(t) = {}
  BY <1>1, <1>2, <1>4, <1>5, <1>6, ChildrenApart
<1>10. PICK u : u = s \o t
  OBVIOUS
<1>11. u \in Seq(Nat) /\ Listed(u) = Listed(s) \cup Listed(t) /\ IsInjective(u)
  BY <1>7, <1>8, <1>9, <1>10, ListedOfBoth, ApartJoin
<1>12. PICK o : o = <<n>>
  OBVIOUS
<1>13. o \in Seq(Nat) /\ Len(o) = 1 /\ o[1] = n
  BY <1>3, <1>12
<1>14. Listed(o) = {n} /\ IsInjective(o)
  BY <1>13, InjectiveAt DEF Listed
<1>15. Listed(u) \cap Listed(o) = {}
  BY <1>3, <1>7, <1>8, <1>11, <1>14
<1>16. PICK w : w = u \o o
  OBVIOUS
<1>17. w \in Seq(Nat) /\ Listed(w) = Listed(s) \cup Listed(t) \cup {n} /\ IsInjective(w)
  BY <1>11, <1>13, <1>14, <1>15, <1>16, ListedOfBoth, ApartJoin
<1>18. f[n] = w
  <2>1. FreedOf(A, n, f) = (f[x] \o f[y]) \o <<n>>
    BY <1>1, <1>2, <1>3 DEF FreedOf
  <2> QED
    BY <2>1, <1>5, <1>6, <1>10, <1>12, <1>16
<1>19. Listed(w) \subseteq 1..n /\ n \in Listed(w)
  BY <1>3, <1>7, <1>8, <1>17
<1>20. HangsOn(A, Listed(w), n)
  <2> SUFFICES ASSUME NEW c \in Listed(w), c # n PROVE \E m \in Listed(w) : c \in KidsOf(A, m)
    BY DEF HangsOn
  <2>1. CASE c \in Listed(s)
    <3>1. CASE c = x
      <4>1. c # 0
        BY <1>7, <2>1
      <4> QED
        BY <1>1, <1>19, <3>1, <4>1 DEF KidsOf
    <3>2. CASE c # x
      BY <1>7, <1>17, <2>1, <3>2 DEF HangsOn
    <3> QED
      BY <3>1, <3>2
  <2>2. CASE c \in Listed(t)
    <3>1. CASE c = y
      <4>1. c # 0
        BY <1>8, <2>2
      <4> QED
        BY <1>2, <1>19, <3>1, <4>1 DEF KidsOf
    <3>2. CASE c # y
      BY <1>8, <1>17, <2>2, <3>2 DEF HangsOn
    <3> QED
      BY <3>1, <3>2
  <2> QED
    BY <1>17, <2>1, <2>2
<1>21. ClosedUnder(A, Listed(w))
  <2>1. KidsOf(A, n) \subseteq Listed(w)
    BY <1>1, <1>2, <1>7, <1>8, <1>17 DEF KidsOf
  <2> QED
    BY <1>7, <1>8, <1>17, <2>1 DEF ClosedUnder
<1> QED
  BY <1>17, <1>18, <1>19, <1>20, <1>21 DEF FreesOnce

\* For every node that is so.
LEMMA AllFreed ==
  ASSUME NEW A, NEW N \in Nat, OneParent(A, N), NEW f, IsFreed(A, N, f)
  PROVE  \A n \in 0..N : FreesOnce(A, f, n)
<1>0. \A n \in 0..N : f[n] = FreedOf(A, n, f)
  BY DEF IsFreed
<1> DEFINE T == {n \in Nat : n <= N => FreesOnce(A, f, n)}
<1>1. ASSUME NEW n \in Nat, \A m \in 0..n-1 : m \in T PROVE n \in T
  <2> SUFFICES ASSUME n <= N PROVE FreesOnce(A, f, n)
    OBVIOUS
  <2>1. CASE n = 0
    <3>1. 0 \in 0..N
      OBVIOUS
    <3>2. f[0] = FreedOf(A, 0, f)
      BY <1>0, <3>1
    <3>3. f[0] = <<>>
      BY <3>2 DEF FreedOf
    <3> HIDE DEF T
    <3> QED
      BY <2>1, <3>3, NothingFreed
  <2>2. CASE n # 0
    <3>1. n \in 1..N /\ A[n].left \in 0..n-1 /\ A[n].right \in 0..n-1
      BY <2>2 DEF OneParent
    <3>2. A[n].left \in T /\ A[n].left <= N /\ A[n].right \in T /\ A[n].right <= N
      BY <1>1, <3>1
    <3>3. FreesOnce(A, f, A[n].left) /\ FreesOnce(A, f, A[n].right)
      BY <3>2
    <3> HIDE DEF T
    <3> QED
      BY <1>0, <3>1, <3>3, ParentFreed
  <2> QED
    BY <2>1, <2>2
<1>2. Nat \subseteq T
  <2> HIDE DEF T
  <2> QED
    BY <1>1, StrongInduction
<1> QED
  BY <1>2

\* Nothing is freed for two items.
LEMMA ItemsApart ==
  ASSUME NEW A, NEW N \in Nat, OneParent(A, N), NEW BB, Roots(A, N, BB), NEW f, IsFreed(A, N, f),
         NEW k \in 1..Len(BB), NEW l \in 1..Len(BB), k # l
  PROVE  Listed(f[BB[k]]) \cap Listed(f[BB[l]]) = {}
<1>1. PICK x \in 1..N : x = BB[k]
  BY DEF Roots
<1>2. PICK y \in 1..N : y = BB[l]
  BY DEF Roots
<1>3. x # y /\ \A n \in 1..N : x \notin KidsOf(A, n) /\ y \notin KidsOf(A, n)
  BY <1>1, <1>2 DEF Roots
<1>4. FreesOnce(A, f, x) /\ FreesOnce(A, f, y)
  BY AllFreed
<1>5. Listed(f[x]) \subseteq 1..N /\ Listed(f[y]) \subseteq 1..N
  BY <1>4 DEF FreesOnce
<1>6. HangsOn(A, Listed(f[x]), x) /\ HangsOn(A, Listed(f[y]), y)
  BY <1>4 DEF FreesOnce
<1>7. x \notin Listed(f[y]) /\ y \notin Listed(f[x])
  BY <1>3, <1>5, <1>6 DEF HangsOn
<1> QED
  BY <1>1, <1>2, <1>5, <1>6, <1>7, ApartHangers

\* The lists of the first items, joined.
FreedBy(BB, f, h) == UNION {Listed(f[BB[k]]) : k \in 1..h}
JoinsItems(BB, f, g, h) ==
  /\ g[h] \in Seq(Nat) /\ IsInjective(g[h])
  /\ Listed(g[h]) = FreedBy(BB, f, h)

\* What is freed for the first items is freed for one of them.
LEMMA FreedByOne ==
  ASSUME NEW BB, NEW f, NEW h, NEW c
  PROVE  c \in FreedBy(BB, f, h) <=> \E k \in 1..h : c \in Listed(f[BB[k]])
BY DEF FreedBy

\* What is freed for the first items is each freed once.
LEMMA AllJoined ==
  ASSUME NEW A, NEW N \in Nat, OneParent(A, N), NEW BB \in Seq(Nat), Roots(A, N, BB), NEW f, IsFreed(A, N, f),
         NEW s, \A k \in 1..Len(BB) : s[k] = f[BB[k]], NEW g, IsJoined(s, Len(BB), g)
  PROVE  \A h \in 1..Len(BB) : JoinsItems(BB, f, g, h)
<1>0. /\ Len(BB) \in Nat
      /\ \A k \in 1..Len(BB) : g[k] = JoinedAt(s, k, g)
  BY LenProperties DEF IsJoined
<1>a. ASSUME NEW k \in 1..Len(BB) PROVE s[k] \in Seq(Nat) /\ IsInjective(s[k]) /\ s[k] = f[BB[k]]
  <2>1. BB[k] \in 1..N
    BY DEF Roots
  <2>2. BB[k] \in 0..N
    BY <2>1
  <2>3. FreesOnce(A, f, BB[k])
    BY <2>2, AllFreed
  <2> QED
    BY <2>3 DEF FreesOnce
<1> DEFINE T == {h \in Nat : h + 1 <= Len(BB) => JoinsItems(BB, f, g, h + 1)}
<1>1. 0 \in T
  <2> SUFFICES ASSUME 1 <= Len(BB) PROVE JoinsItems(BB, f, g, 1)
    OBVIOUS
  <2>1. g[1] = s[1] /\ 1 \in 1..Len(BB)
    BY <1>0 DEF JoinedAt
  <2>2. FreedBy(BB, f, 1) = Listed(f[BB[1]])
    BY DEF FreedBy
  <2> QED
    BY <1>a, <2>1, <2>2 DEF JoinsItems
<1>2. ASSUME NEW h \in Nat, h \in T PROVE h + 1 \in T
  <2> SUFFICES ASSUME h + 1 + 1 <= Len(BB) PROVE JoinsItems(BB, f, g, h + 1 + 1)
    OBVIOUS
  <2>1. PICK e \in 1..Len(BB) : e = h + 1
    BY <1>0
  <2>2. PICK n \in 1..Len(BB) : n = h + 1 + 1 /\ n - 1 = e /\ n # 1
    BY <1>0, <2>1
  <2>3. JoinsItems(BB, f, g, e)
    BY <1>2, <2>1
  <2>4. PICK u : u = g[e]
    OBVIOUS
  <2>5. PICK t : t = s[n]
    OBVIOUS
  <2>6. g[n] = u \o t
    BY <1>0, <2>2, <2>4, <2>5 DEF JoinedAt
  <2>7. /\ u \in Seq(Nat) /\ IsInjective(u) /\ Listed(u) = FreedBy(BB, f, e)
        /\ t \in Seq(Nat) /\ IsInjective(t) /\ Listed(t) = Listed(f[BB[n]])
    BY <1>a, <2>3, <2>4, <2>5 DEF JoinsItems
  <2>8. ASSUME NEW c \in Listed(u), c \in Listed(f[BB[n]]) PROVE FALSE
    <3>1. PICK k \in 1..e : c \in Listed(f[BB[k]])
      BY <2>7, FreedByOne
    <3>2. k \in 1..Len(BB) /\ k # n
      BY <2>1, <2>2
    <3> QED
      BY <2>8, <3>1, <3>2, ItemsApart
  <2>9. Listed(u) \cap Listed(t) = {}
    BY <2>7, <2>8
  <2>a. PICK w : w = u \o t
    OBVIOUS
  <2>b. w \in Seq(Nat) /\ IsInjective(w) /\ Listed(w) = Listed(u) \cup Listed(t)
    <3> HIDE DEF T
    <3>1. u \in Seq(Nat) /\ t \in Seq(Nat) /\ IsInjective(u) /\ IsInjective(t)
      BY <2>7
    <3>2. u \o t \in Seq(Nat) /\ Listed(u \o t) = Listed(u) \cup Listed(t)
      BY <3>1, ListedOfBoth
    <3>3. IsInjective(u \o t)
      BY <2>9, <3>1, ApartJoin
    <3> QED
      BY <2>a, <3>2, <3>3
  <2>10. g[n] \in Seq(Nat) /\ IsInjective(g[n]) /\ Listed(g[n]) = Listed(u) \cup Listed(t)
    BY <2>6, <2>a, <2>b
  <2>11. FreedBy(BB, f, n) = FreedBy(BB, f, e) \cup Listed(f[BB[n]])
    <3>1. 1..n = (1..e) \cup {n}
      BY <2>1, <2>2
    <3>2. ASSUME NEW c PROVE (\E k \in 1..n : c \in Listed(f[BB[k]]))
                              <=> (\E k \in 1..e : c \in Listed(f[BB[k]])) \/ c \in Listed(f[BB[n]])
      BY <3>1
    <3>4. PICK X : X = FreedBy(BB, f, n)
      OBVIOUS
    <3>5. PICK Y : Y = FreedBy(BB, f, e)
      OBVIOUS
    <3>6. PICK Z : Z = Listed(f[BB[n]])
      OBVIOUS
    <3>7. \A c : c \in X <=> c \in Y \/ c \in Z
      BY <3>2, <3>4, <3>5, <3>6, FreedByOne
    <3>8. X = Y \cup Z
      BY <3>7
    <3> QED
      BY <3>4, <3>5, <3>6, <3>8
  <2> QED
    BY <2>2, <2>7, <2>10, <2>11 DEF JoinsItems
<1>3. Nat \subseteq T
  <2> HIDE DEF T
  <2> QED
    BY <1>1, <1>2, SetInduction
<1>4. ASSUME NEW h \in 1..Len(BB) PROVE JoinsItems(BB, f, g, h)
  <2>1. h - 1 \in Nat /\ h - 1 + 1 = h /\ h <= Len(BB)
    BY <1>0
  <2>2. h - 1 \in T
    BY <1>3, <2>1
  <2> QED
    BY <2>1, <2>2
<1> QED
  BY <1>4

\* When every node is an item or hangs on a younger one, all are freed.
Rooted(A, N, BB) == \A c \in 1..N : \/ \E k \in 1..Len(BB) : c = BB[k]
                                   \/ \E n \in 1..N : c \in KidsOf(A, n)

\* From the last node back to the first, each is freed.
LEMMA AllReached ==
  ASSUME NEW A, NEW N \in Nat, OneParent(A, N), NEW BB, Roots(A, N, BB), Rooted(A, N, BB), NEW f, IsFreed(A, N, f)
  PROVE  1..N \subseteq FreedBy(BB, f, Len(BB))
<1> DEFINE U == FreedBy(BB, f, Len(BB))
<1> DEFINE T == {d \in Nat : d < N => N - d \in U}
<1> HIDE DEF U
<1>1. ASSUME NEW d \in Nat, \A e \in 0..d-1 : e \in T PROVE d \in T
  <2> SUFFICES ASSUME d < N PROVE N - d \in U
    OBVIOUS
  <2>1. PICK c \in 1..N : c = N - d
    OBVIOUS
  <2>2. CASE \E k \in 1..Len(BB) : c = BB[k]
    <3>1. PICK k \in 1..Len(BB) : c = BB[k]
      BY <2>2
    <3>2. c \in 0..N /\ c # 0
      BY <2>1
    <3>3. FreesOnce(A, f, c)
      BY <3>2, AllFreed
    <3>4. c \in Listed(f[c])
      BY <3>2, <3>3 DEF FreesOnce
    <3> QED
      BY <2>1, <3>1, <3>4, FreedByOne DEF U
  <2>3. CASE \E n \in 1..N : c \in KidsOf(A, n)
    <3>1. PICK n \in 1..N : c \in KidsOf(A, n)
      BY <2>3
    <3>2. c < n
      BY <2>1, <3>1 DEF OneParent, KidsOf
    <3>3. N - n \in 0..d-1 /\ N - n < N /\ N - (N - n) = n
      BY <2>1, <3>2
    <3>4. n \in U
      <4>1. N - n \in T
        BY <1>1, <3>3
      <4> QED
        BY <3>3, <4>1
    <3>5. PICK k \in 1..Len(BB) : n \in Listed(f[BB[k]])
      BY <3>4, FreedByOne DEF U
    <3>6. BB[k] \in 0..N
      BY DEF Roots
    <3>7. FreesOnce(A, f, BB[k])
      BY <3>6, AllFreed
    <3>8. c \in Listed(f[BB[k]])
      BY <3>1, <3>5, <3>7 DEF FreesOnce, ClosedUnder
    <3> QED
      BY <2>1, <3>5, <3>8, FreedByOne DEF U
  <2> QED
    BY <2>1, <2>2, <2>3 DEF Rooted
<1>2. Nat \subseteq T
  <2> HIDE DEF T
  <2> QED
    BY <1>1, StrongInduction
<1>3. ASSUME NEW c \in 1..N PROVE c \in U
  <2>1. N - c \in Nat /\ N - c < N /\ N - (N - c) = c
    OBVIOUS
  <2>2. N - c \in T
    BY <1>2, <2>1
  <2> QED
    BY <2>1, <2>2
<1> QED
  BY <1>3 DEF U

\* A list of the numbers up to N, each once, has N elements.
LEMMA OnceEach ==
  ASSUME NEW N \in Nat, NEW s \in Seq(Nat), IsInjective(s), Listed(s) = 1..N
  PROVE  Len(s) = N
<1>1. PICK m \in Nat : m = Len(s)
  BY LenProperties
<1>2. s \in [1..m -> 1..N] /\ \A c \in 1..N : \E k \in 1..m : s[k] = c
  <2>1. s \in [1..m -> Nat]
    BY <1>1, LenProperties
  <2>2. \A k \in 1..m : s[k] \in 1..N
    BY <1>1 DEF Listed
  <2>3. \A c \in 1..N : \E k \in 1..m : s[k] = c
    BY <1>1 DEF Listed
  <2> QED
    BY <2>1, <2>2, <2>3
<1>3. s \in Injection(1..m, 1..N) /\ s \in Surjection(1..m, 1..N)
  BY <1>2 DEF Injection, Surjection
<1>4. IsFiniteSet(1..m) /\ Cardinality(1..m) = m
  <2>1. IsFiniteSet(1..m) /\ Cardinality(1..m) = IF 1 > m THEN 0 ELSE m - 1 + 1
    BY FS_Interval
  <2> QED
    BY <2>1
<1>5. Cardinality(1..N) = N
  <2>1. Cardinality(1..N) = IF 1 > N THEN 0 ELSE N - 1 + 1
    BY FS_Interval
  <2> QED
    BY <2>1
<1>6. Cardinality(1..N) = Cardinality(1..m)
  BY <1>3, <1>4, FS_Surjection
<1> QED
  BY <1>1, <1>4, <1>5, <1>6
=============================================================================
