------------------------------ MODULE Grammar ------------------------------
(***************************************************************************)
(* The language the parser is for: the grammar of C restricted to one      *)
(* function of ints, as sets of derivations.  DeriveX(s) holds one tree,   *)
(* in the form of Trees, for each way to derive the whole token sequence s *)
(* from X.  One liberty is the source's: the left side of an assignment    *)
(* may be any operand, and semantic.c refuses those that are no variable.  *)
(***************************************************************************)
EXTENDS Trees, Tokens, Word, TLC

\* The binary operators, from the loosest level to the tightest.
Levels == <<
  [LOGICAL_OR |-> "LOGICAL_OR"], [LOGICAL_AND |-> "LOGICAL_AND"],
  [PIPE |-> "BITWISE_OR"], [CARET |-> "BITWISE_XOR"], [AMPERSAND |-> "BITWISE_AND"],
  [LOGICAL_EQUAL |-> "LOGICAL_EQUAL", NOT_EQUAL |-> "LOGICAL_NOT_EQUAL"],
  [LESS_THAN |-> "LOGICAL_LESS_THAN", LESS_EQUAL |-> "LOGICAL_LESS_EQUAL",
   GREATER_THAN |-> "LOGICAL_GREATER_THAN", GREATER_EQUAL |-> "LOGICAL_GREATER_EQUAL"],
  [LEFT_SHIFT |-> "LEFT_SHIFT", RIGHT_SHIFT |-> "RIGHT_SHIFT"],
  [PLUS |-> "ADD", MINUS |-> "SUBTRACT"],
  [ASTERISK |-> "MULTIPLY", FORWARD_SLASH |-> "DIVIDE", PERCENT |-> "REMAINDER"] >>
Prefixes == [TILDE |-> "BITWISE_NOT", MINUS |-> "NEGATE", EXCLAMATION |-> "LOGICAL_NOT"]

\* The number a literal spells in base ten, where it is an int.
DigitValue == ("0" :> 0 @@ "1" :> 1 @@ "2" :> 2 @@ "3" :> 3 @@ "4" :> 4 @@
               "5" :> 5 @@ "6" :> 6 @@ "7" :> 7 @@ "8" :> 8 @@ "9" :> 9)
Number(literal) ==
  LET n == Len(literal)
      sum[i \in 0..n] == IF i = 0 THEN 0 ELSE sum[i-1] + DigitValue[literal[i]] * 10^(n - i)
  IN sum[n]

Type(s, i) == s[i].type
Before(s, i) == SubSeq(s, 1, i - 1)
After(s, i)  == SubSeq(s, i + 1, Len(s))

RECURSIVE DeriveAssignment(_), DeriveLevel(_, _), DeriveFactor(_)

DeriveAssignment(s) ==
  DeriveLevel(1, s) \cup
  UNION {{Asg(l, r) : l \in DeriveLevel(1, Before(s, i)), r \in DeriveAssignment(After(s, i))} :
           i \in {j \in DOMAIN s : Type(s, j) = "EQUAL"}}

\* Left-associative: the left operand is of the operator's own level.
DeriveLevel(k, s) ==
  IF k > Len(Levels) THEN DeriveFactor(s)
  ELSE DeriveLevel(k + 1, s) \cup
       UNION {{Bin(Levels[k][Type(s, i)], l, r) :
                 l \in DeriveLevel(k, Before(s, i)), r \in DeriveLevel(k + 1, After(s, i))} :
                i \in {j \in DOMAIN s : Type(s, j) \in DOMAIN Levels[k]}}

DeriveFactor(s) ==
  CASE s = <<>> -> {}
    [] Len(s) = 1 /\ Type(s, 1) = "INTEGER_LITERAL" -> {Lit(Number(s[1].literal))} 
    [] Len(s) = 1 /\ Type(s, 1) = "IDENTIFIER" -> {Var(s[1].literal)}
    [] Len(s) > 1 /\ Type(s, 1) \in DOMAIN Prefixes ->
         {Un(Prefixes[Type(s, 1)], e) : e \in DeriveFactor(Tail(s))}
    [] Len(s) > 2 /\ Type(s, 1) = "LPAREN" /\ Type(s, Len(s)) = "RPAREN" ->
         DeriveAssignment(SubSeq(s, 2, Len(s) - 1))
    [] OTHER -> {}

\* One item, s being all of it but the semicolon.
DeriveItem(s) ==
  CASE s = <<>> -> {Null}
    [] s # <<>> /\ Type(s, 1) = "RETURN" -> {Ret(e) : e \in DeriveAssignment(Tail(s))}
    [] s # <<>> /\ Type(s, 1) = "INT" ->
         IF Len(s) = 1 \/ Type(s, 2) # "IDENTIFIER" THEN {}
         ELSE IF Len(s) = 2 THEN {Decl(s[2].literal)}
         ELSE IF Type(s, 3) # "EQUAL" THEN {}
         ELSE {DeclInit(s[2].literal, e) : e \in DeriveAssignment(After(s, 3))}
    [] OTHER -> DeriveAssignment(s)

RECURSIVE DeriveBody(_)
DeriveBody(s) ==
  LET ends == {i \in DOMAIN s : Type(s, i) = "SEMICOLON"} IN
  IF s = <<>> THEN {<<>>}
  ELSE IF ends = {} THEN {}
  ELSE LET i == CHOOSE i \in ends : \A j \in ends : i <= j
       IN {<<e>> \o b : e \in DeriveItem(Before(s, i)), b \in DeriveBody(After(s, i))}

\* The bodies of the programs that the tokens s, which end in EOF, derive.
DeriveProgram(s) ==
  LET types == [i \in DOMAIN s |-> Type(s, i)]
      n     == Len(s)
  IN IF /\ n >= 8
        /\ SubSeq(types, 1, 6) = <<"INT", "IDENTIFIER", "LPAREN", "VOID", "RPAREN", "LBRACE">>
        /\ SubSeq(types, n - 1, n) = <<"RBRACE", "EOF">>
     THEN DeriveBody(SubSeq(s, 7, n - 2)) ELSE {}
=============================================================================
