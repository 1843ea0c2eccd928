-------------------------- MODULE Compiler_proofs --------------------------
(***************************************************************************)
(* compile, for every text: that the stages, as they follow one another,   *)
(* hand each other what each is proved for in a module of its own, and     *)
(* that the cleanup frees every node once.                                 *)
(***************************************************************************)
EXTENDS Compiler, Frontend_proofs

-----------------------------------------------------------------------------
(* The semantic analysis and the generator, with what has been proved of each by itself *)

SP == INSTANCE Semantic_proofs WITH Inputs <- {}, source <- parsedTree, ast <- tree,
        item <- resolved, status <- resolving
GP == INSTANCE IRGen_proofs WITH Inputs <- {}, ast <- tree, stack <- frames,
        item <- generated, status <- lowering

-----------------------------------------------------------------------------
(* What the lexer hands to the parser *)

\* The lexer's tokens are the parser's.
LEMMA SameTokens == LexToken = ParToken
BY DEF LexToken, ParToken, L!TokenType, P!TokenType

\* The lexer's digits are those that atoi reads.
LEMMA NumeralsAreDigits ==
  ASSUME NEW c \in L!Numeric
  PROVE  \E d \in 0..9 : P!Digits[d+1] = c
<1>1. /\ P!Digits[1] = "0" /\ P!Digits[2] = "1" /\ P!Digits[3] = "2" /\ P!Digits[4] = "3" /\ P!Digits[5] = "4"
      /\ P!Digits[6] = "5" /\ P!Digits[7] = "6" /\ P!Digits[8] = "7" /\ P!Digits[9] = "8" /\ P!Digits[10] = "9"
  BY DEF P!Digits
<1>2. \A d \in {0, 1, 2, 3, 4, 5, 6, 7, 8, 9} : d \in 0..9
  OBVIOUS
<1>3. /\ 0 + 1 = 1 /\ 1 + 1 = 2 /\ 2 + 1 = 3 /\ 3 + 1 = 4 /\ 4 + 1 = 5
      /\ 5 + 1 = 6 /\ 6 + 1 = 7 /\ 7 + 1 = 8 /\ 8 + 1 = 9 /\ 9 + 1 = 10
  OBVIOUS
<1>4. \E d \in {0, 1, 2, 3, 4, 5, 6, 7, 8, 9} : P!Digits[d+1] = c
  BY <1>1, <1>3 DEF L!Numeric
<1> QED
  BY <1>2, <1>4

\* What is known of the lexer's state.
LexerInv == LexInv /\ LexSays /\ NumbersAreNumeric(tokenArray)

\* What the lexer leaves when it has come to the end is what the parser's
\* invariant asks for.
LEMMA LexerDelivers ==
  ASSUME LexerInv, lexing = "done"
  PROVE  Lexed(tokenArray)
<1>1. tokenArray \in Seq(ParToken)
  BY SameTokens DEF LexerInv, LexInv
<1>2. EndsOnce(tokenArray)
  BY DEF LexerInv, LexSays
<1>3. ASSUME NEW k \in 1..Len(tokenArray), tokenArray[k].type = "INTEGER_LITERAL"
      PROVE  IsDecimal(tokenArray[k].literal)
  BY <1>3, NumeralsAreDigits DEF LexerInv, NumbersAreNumeric, AllNumeric, IsDecimal
<1> QED
  BY <1>1, <1>2, <1>3 DEF Lexed

\* An error of the lexer shows in its tokens.
LEMMA LexerErrorShows ==
  ASSUME LexerInv, lexing = "done", lexerError
  PROVE  Broken(tokenArray)
BY DEF LexerInv, LexSays

\* What is known of the lexer when it begins.
LEMMA LexerStarts ==
  ASSUME L!Init
  PROVE  LexerInv
<1>1. \A t \in Texts : IsText(t)
  BY FrontendAssumption DEF IsText, L!NUL
<1>2. NumbersAreNumeric(tokenArray)
  BY DEF L!Init, NumbersAreNumeric
<1> QED
  BY <1>1, <1>2, LexInitInv, LexInitSays DEF LexerInv

\* What is known of it after a step.
LEMMA LexerSteps ==
  ASSUME LexerInv, L!Next
  PROVE  LexerInv'
<1>1. LexInv' /\ LexSays'
  BY LexStepInv, LexStepSays DEF LexerInv
<1>2. NumbersAreNumeric(tokenArray')
  BY LexStepNumbers DEF LexerInv
<1> QED
  BY <1>1, <1>2 DEF LexerInv

\* What is known of it when another stage takes a step.
LEMMA LexerStays ==
  ASSUME LexerInv, UNCHANGED lexer
  PROVE  LexerInv'
<1>1. UNCHANGED <<buffer, nextPos, tokenArray, startPos, place, lexerError, lexing>>
  BY DEF lexer
<1> QED
  BY <1>1 DEF LexerInv, LexInv, LexSays, L!Text, L!Char

\* What is known of the parser when another stage takes a step.
LEMMA ParserStays ==
  ASSUME ParInv, UNCHANGED <<lexer, parser>>
  PROVE  ParInv'
<1>1. UNCHANGED <<tokenArray, nextToken, parsedTree, body, calls, ret, parsed, parserError, parsing>>
  BY DEF lexer, parser
<1> QED
  BY <1>1 DEF ParInv, TreeInv, CursorInv, P!Top

-----------------------------------------------------------------------------
(* The steps of the two are those that the theorems about them are about. *)

\* A step of the analysis is one of its own module.
LEMMA SameResolving == S!Next => SP!Next
BY DEF S!Next, S!TakeItem, S!Finish, S!ResolveStatement, S!DuplicateDeclaration, S!ResolveDeclaration,
       S!InvalidLvalue, S!ResolveAssignment, S!ResolveVariable, S!UndeclaredVariable, S!ResolveUnary,
       S!ResolveBinary, S!ResolveOther, S!Answer, S!Visits, S!Here, S!Resolves, S!generate_unique_name,
       S!names, S!input, S!NULL,
       SP!Next, SP!TakeItem, SP!Finish, SP!ResolveStatement, SP!DuplicateDeclaration, SP!ResolveDeclaration,
       SP!InvalidLvalue, SP!ResolveAssignment, SP!ResolveVariable, SP!UndeclaredVariable, SP!ResolveUnary,
       SP!ResolveBinary, SP!ResolveOther, SP!Answer, SP!Visits, SP!Here, SP!Resolves, SP!generate_unique_name,
       SP!names, SP!input, SP!NULL

\* A step of the generator is one of its own module.
LEMMA SameGenerating == G!Next => GP!Next
<1> USE DEF G!At, G!Here, G!Top, G!Call, G!Return, G!Emit, G!Frame, G!NoLocals, G!input, G!ids, G!loop,
            G!NullOp, G!TempOp, G!ConstOp, G!LabelOp, G!Operand, G!NoLabel, G!ValueOf, G!Instruction,
            GP!At, GP!Here, GP!Top, GP!Call, GP!Return, GP!Emit, GP!Frame, GP!NoLocals, GP!input, GP!ids, GP!loop,
            GP!NullOp, GP!TempOp, GP!ConstOp, GP!LabelOp, GP!Operand, GP!NoLabel, GP!ValueOf, GP!Instruction
<1>1. G!GenerateItem => GP!GenerateItem
  BY DEF G!GenerateItem, GP!GenerateItem, G!IsReturn, GP!IsReturn
<1>2. G!Finish => GP!Finish
  BY DEF G!Finish, GP!Finish, G!ir_instruction_copy, GP!ir_instruction_copy,
         G!ir_instruction_return, GP!ir_instruction_return
<1>3. G!CallReturned => GP!CallReturned
  BY DEF G!CallReturned, GP!CallReturned
<1>4. G!EmitReturn => GP!EmitReturn
  BY DEF G!EmitReturn, GP!EmitReturn, G!ir_instruction_return, GP!ir_instruction_return
<1>5. G!IntLiteral => GP!IntLiteral
  BY DEF G!IntLiteral, GP!IntLiteral
<1>6. G!Variable => GP!Variable
  BY DEF G!Variable, GP!Variable, G!VarOperand, GP!VarOperand, G!TouchVariable, GP!TouchVariable
<1>7. G!CallOperand => GP!CallOperand
  BY DEF G!CallOperand, GP!CallOperand
<1>8. G!EmitUnary => GP!EmitUnary
  BY DEF G!EmitUnary, GP!EmitUnary, G!IRType, GP!IRType, G!ir_instruction_unary, GP!ir_instruction_unary
<1>9. G!CallLeft => GP!CallLeft
  BY DEF G!CallLeft, GP!CallLeft, G!ShortOps, GP!ShortOps
<1>10. G!CallRight => GP!CallRight
  BY DEF G!CallRight, GP!CallRight, G!ShortOps, GP!ShortOps
<1>11. G!EmitBinary => GP!EmitBinary
  BY DEF G!EmitBinary, GP!EmitBinary, G!ShortOps, GP!ShortOps, G!IRType, GP!IRType,
         G!ir_instruction_binary, GP!ir_instruction_binary
<1>12. G!ShortCallLeft => GP!ShortCallLeft
  BY DEF G!ShortCallLeft, GP!ShortCallLeft, G!ShortOps, GP!ShortOps, G!CondPrefix, GP!CondPrefix, G!IsAnd, GP!IsAnd
<1>13. G!ShortCallRight => GP!ShortCallRight
  BY DEF G!ShortCallRight, GP!ShortCallRight, G!ShortOps, GP!ShortOps, G!JumpType, GP!JumpType, G!IsAnd, GP!IsAnd,
         G!ir_instruction_branch_condition, GP!ir_instruction_branch_condition
<1>14. G!ShortEnd => GP!ShortEnd
  BY DEF G!ShortEnd, GP!ShortEnd, G!ShortOps, GP!ShortOps, G!JumpType, GP!JumpType, G!IsAnd, GP!IsAnd,
         G!ir_instruction_branch_condition, GP!ir_instruction_branch_condition,
         G!ir_instruction_copy, GP!ir_instruction_copy, G!ir_instruction_label, GP!ir_instruction_label,
         G!ir_instruction_branch_always, GP!ir_instruction_branch_always
<1>15. G!DeclareOnly => GP!DeclareOnly
  BY DEF G!DeclareOnly, GP!DeclareOnly, G!NULL, GP!NULL
<1>16. G!CallInit => GP!CallInit
  BY DEF G!CallInit, GP!CallInit, G!NULL, GP!NULL, G!VarOperand, GP!VarOperand, G!TouchVariable, GP!TouchVariable
<1>17. G!EmitInit => GP!EmitInit
  BY DEF G!EmitInit, GP!EmitInit, G!ir_instruction_copy, GP!ir_instruction_copy
<1>18. G!CallLhs => GP!CallLhs
  BY DEF G!CallLhs, GP!CallLhs
<1>19. G!CallRhs => GP!CallRhs
  BY DEF G!CallRhs, GP!CallRhs
<1>20. G!EmitAssignment => GP!EmitAssignment
  BY DEF G!EmitAssignment, GP!EmitAssignment, G!ir_instruction_copy, GP!ir_instruction_copy
<1> QED
  BY <1>1, <1>2, <1>3, <1>4, <1>5, <1>6, <1>7, <1>8, <1>9, <1>10, <1>11, <1>12, <1>13, <1>14, <1>15, <1>16,
     <1>17, <1>18, <1>19, <1>20 DEF G!Next, GP!Next

\* And so are the trees and the types.
LEMMA SameTrees ==
  ASSUME NEW a, NEW b
  PROVE  /\ P!IsTree(a, b) <=> SP!IsTree(a, b)
         /\ P!IsTree(a, b) <=> GP!IsTree(a, b)
BY DEF P!IsTree, SP!IsTree, GP!IsTree, P!IsNode, SP!IsNode, GP!IsNode, P!Kids, SP!Kids, GP!Kids,
       P!NULL, SP!NULL, GP!NULL, P!Node, SP!Node, GP!Node, P!IsSequence, SP!IsSequence, GP!IsSequence,
       P!UnaryOps, SP!UnaryOps, GP!UnaryOps, P!BinaryOps, SP!BinaryOps, GP!BinaryOps,
       P!SimpleOps, SP!SimpleOps, GP!SimpleOps, P!RelationalOps, SP!RelationalOps, GP!RelationalOps,
       P!ShortOps, SP!ShortOps, GP!ShortOps

\* The analysis has the same types there.
LEMMA SameResolvingTypes == SP!TypeOK => S!TypeOK
BY DEF SP!TypeOK, S!TypeOK, SP!Suffixed, S!Suffixed

\* The generator has the same types there.
LEMMA SameGeneratingTypes == GP!TypeOK => G!TypeOK
<1>1. \A inst : GP!Computes(inst) <=> G!Computes(inst)
  BY DEF GP!Computes, G!Computes, GP!ComputeTypes, G!ComputeTypes
<1>2. \A inst : GP!Reads(inst) = G!Reads(inst) /\ GP!Writes(inst) = G!Writes(inst)
  BY <1>1 DEF GP!Reads, G!Reads, GP!Writes, G!Writes
<1>3. \A o : GP!OperandOK(o) <=> G!OperandOK(o)
  BY DEF GP!OperandOK, G!OperandOK, GP!NoLabel, G!NoLabel
<1> QED
  BY <1>2, <1>3 DEF GP!TypeOK, G!TypeOK, GP!Names, G!Names

-----------------------------------------------------------------------------
(* The tree, renamed *)

\* The names in the tree are still names.
Spelled ==
  /\ tree = [n \in DOMAIN parsedTree |-> tree[n]]
  /\ \A n \in DOMAIN parsedTree : SP!IsSequence(tree[n].name)

\* A name with another character is a name.
LEMMA SuffixIsName ==
  ASSUME NEW s, SP!IsSequence(s), NEW c
  PROVE  SP!IsSequence(Append(s, c))
BY GP!Appended DEF SP!IsSequence, GP!IsSequence

\* A node with another name.
LEMMA NameWritten ==
  ASSUME Spelled, SP!SameTree, NEW m \in DOMAIN parsedTree, NEW w, SP!IsSequence(w),
         UNCHANGED parsedTree, tree' = [tree EXCEPT ![m].name = w]
  PROVE  Spelled'
<1>1. DOMAIN tree = DOMAIN parsedTree
  BY DEF SP!SameTree
<1>2. tree[m] = SP!Node(parsedTree[m].type, parsedTree[m].op, tree[m].name, parsedTree[m].value,
                        parsedTree[m].left, parsedTree[m].right)
  BY DEF SP!SameTree
<1>3. [tree[m] EXCEPT !.name = w].name = w
  <2>1. PICK N : N = tree[m]
    OBVIOUS
  <2>2. N = [type |-> N.type, op |-> N.op, name |-> N.name, value |-> N.value, left |-> N.left, right |-> N.right]
    BY <1>2, <2>1 DEF SP!Node
  <2>3. [N EXCEPT !.name = w].name = w
    BY <2>2
  <2> QED
    BY <2>1, <2>3
<1>4. tree'[m].name = w /\ \A n \in DOMAIN parsedTree : n # m => tree'[n] = tree[n]
  BY <1>1, <1>3
<1>5. tree' = [n \in DOMAIN parsedTree |-> tree'[n]]
  BY <1>1
<1>6. \A n \in DOMAIN parsedTree : SP!IsSequence(tree'[n].name)
  BY <1>4 DEF Spelled
<1> QED
  BY <1>5, <1>6 DEF Spelled

\* A step of the analysis changes nothing of the tree but names.
LEMMA StillSpelled ==
  ASSUME SP!Tree, SP!IInv, Spelled, SP!Next
  PROVE  Spelled'
<1>1. UNCHANGED parsedTree
  BY DEF SP!Next, SP!TakeItem, SP!Finish, SP!ResolveStatement, SP!DuplicateDeclaration, SP!ResolveDeclaration,
         SP!InvalidLvalue, SP!ResolveAssignment, SP!ResolveVariable, SP!UndeclaredVariable, SP!ResolveUnary,
         SP!ResolveBinary, SP!ResolveOther, SP!Answer, SP!input
<1>2. CASE UNCHANGED tree
  BY <1>1, <1>2 DEF Spelled
<1>3. SP!SameTree
  BY DEF SP!IInv
<1>4. todo \in Seq(DOMAIN parsedTree)
  BY DEF SP!IInv, SP!Places
<1>5. CASE SP!ResolveDeclaration
  <2>1. Head(todo) \in DOMAIN parsedTree
    BY <1>4, <1>5 DEF SP!ResolveDeclaration, SP!Visits
  <2>2. tree' = [tree EXCEPT ![Head(todo)].name = Append(tree[Head(todo)].name, counter)]
    BY <1>5 DEF SP!ResolveDeclaration, SP!Here, SP!generate_unique_name
  <2>3. SP!IsSequence(Append(tree[Head(todo)].name, counter))
    BY <2>1, SuffixIsName DEF Spelled
  <2> QED
    BY <1>1, <1>3, <2>1, <2>2, <2>3, NameWritten
<1>6. CASE SP!ResolveVariable
  <2>1. Head(todo) \in DOMAIN parsedTree
    BY <1>4, <1>6 DEF SP!ResolveVariable, SP!Visits
  <2>2. tree' = [tree EXCEPT ![Head(todo)].name = variableMap[tree[Head(todo)].name]]
    <3>1. tree' = [tree EXCEPT ![Head(todo)].name = variableMap[@]]
      BY <1>6 DEF SP!ResolveVariable
    <3>2. Head(todo) \in DOMAIN tree
      BY <1>3, <2>1 DEF SP!SameTree
    <3> QED
      BY <3>1, <3>2
  <2>3. tree[Head(todo)].name \in DOMAIN variableMap
    BY <1>6 DEF SP!ResolveVariable, SP!Here
  <2>4. PICK x \in DOMAIN variableMap : x = tree[Head(todo)].name
    BY <2>3
  <2>5. \E c \in 0..counter-1 : variableMap[x] = Append(x, c)
    BY DEF SP!IInv, SP!Renamed
  <2>6. SP!IsSequence(variableMap[x])
    BY <2>1, <2>4, <2>5, SuffixIsName DEF Spelled
  <2> QED
    BY <1>1, <1>3, <2>1, <2>2, <2>4, <2>6, NameWritten
<1> QED
  BY <1>2, <1>5, <1>6
     DEF SP!Next, SP!TakeItem, SP!Finish, SP!ResolveStatement, SP!DuplicateDeclaration,
         SP!InvalidLvalue, SP!ResolveAssignment, SP!UndeclaredVariable, SP!ResolveUnary,
         SP!ResolveBinary, SP!ResolveOther, SP!names

\* The renamed tree is a tree.
LEMMA RenamedIsTree ==
  ASSUME SP!Tree, SP!SameTree, Spelled
  PROVE  P!IsTree(tree, body)
<1>1. SP!IsTree(parsedTree, body)
  BY DEF SP!Tree
<1>2. PICK n \in Nat : n = Len(parsedTree) /\ DOMAIN parsedTree = 1..n
  BY <1>1 DEF SP!IsTree
<1>3. Len(tree) = n /\ DOMAIN tree = 1..n
  <2> DEFINE R == {tree[k] : k \in 1..n}
  <2>1. tree = [k \in 1..n |-> tree[k]]
    BY <1>2 DEF Spelled
  <2>2. \A k \in 1..n : tree[k] \in R
    OBVIOUS
  <2> HIDE DEF R
  <2>3. tree \in [1..n -> R]
    BY <2>1, <2>2
  <2>4. tree \in Seq(R)
    BY <2>3
  <2> QED
    BY <2>3, <2>4
<1>4. ASSUME NEW k \in 1..n
      PROVE  /\ SP!IsNode(tree[k])
             /\ tree[k].type = parsedTree[k].type
             /\ tree[k].left = parsedTree[k].left /\ tree[k].right = parsedTree[k].right
  <2>1. PICK a : a = parsedTree[k]
    OBVIOUS
  <2>2. PICK t : t = tree[k]
    OBVIOUS
  <2>3. SP!IsNode(a)
    BY <1>1, <1>2, <2>1 DEF SP!IsTree
  <2>4. t = SP!Node(a.type, a.op, t.name, a.value, a.left, a.right)
    BY <1>2, <2>1, <2>2 DEF SP!SameTree
  <2>5. SP!IsSequence(t.name)
    BY <1>2, <2>2 DEF Spelled
  <2>6. t.type = a.type /\ t.op = a.op /\ t.value = a.value /\ t.left = a.left /\ t.right = a.right
    BY <2>4 DEF SP!Node
  <2>7. SP!IsNode(t)
    BY <2>3, <2>4, <2>5, <2>6 DEF SP!IsNode
  <2> QED
    BY <2>1, <2>2, <2>6, <2>7
<1>5. \A k \in 1..n : SP!Kids(tree[k]) = SP!Kids(parsedTree[k])
  BY <1>4 DEF SP!Kids
<1>6. \A k \in 1..n : SP!Kids(parsedTree[k]) \subseteq 1..n
  BY <1>1, <1>2 DEF SP!IsTree, SP!Kids, SP!NULL
<1>7. SP!IsTree(tree, body)
  BY <1>1, <1>2, <1>3, <1>4, <1>5, <1>6 DEF SP!IsTree
<1> QED
  BY <1>7, SameTrees

-----------------------------------------------------------------------------
(* The generator aborts on no program that the analysis has looked at in full. *)

\* The calls are at nodes of the program.
Reached ==
  \A k \in 1..Len(frames) : \E m \in DOMAIN body : frames[k].node \in SP!Under(parsedTree, body[m])

\* A step of the generator leaves the trees alone.
LEMMA GeneratingMoves ==
  ASSUME GP!Tree, GP!IInv, GP!Next
  PROVE  /\ UNCHANGED <<tree, body>>
         /\ \/ UNCHANGED frames
            \/ GP!GenerateItem
            \/ Len(frames) >= 1 /\ \E n \in GP!Kids(GP!Here) : \E K : GP!Call(n, K)
            \/ Len(frames) >= 1 /\ \E v : GP!Return(v)
<1>1. UNCHANGED <<tree, body>>
  BY DEF GP!Next, GP!GenerateItem, GP!Finish, GP!CallReturned, GP!EmitReturn, GP!IntLiteral, GP!Variable,
         GP!CallOperand, GP!EmitUnary, GP!CallLeft, GP!CallRight, GP!EmitBinary, GP!ShortCallLeft,
         GP!ShortCallRight, GP!ShortEnd, GP!DeclareOnly, GP!CallInit, GP!EmitInit, GP!CallLhs, GP!CallRhs,
         GP!EmitAssignment, GP!input
<1>2. CASE GP!GenerateItem
  BY <1>1, <1>2
<1>3. CASE GP!Finish
  BY <1>1, <1>3 DEF GP!Finish
<1>4. frames # <<>> => Len(frames) >= 1
  BY GP!Emptyness DEF GP!IInv, GP!Frames, GP!IsSequence
<1>5. ASSUME frames # <<>>
      PROVE  /\ GP!Here = tree[GP!Top.node] /\ GP!Top.node \in 1..Len(tree) /\ GP!IsNode(GP!Here)
  <2>1. GP!FrameOK(Len(frames))
    BY <1>4, <1>5 DEF GP!IInv, GP!Frames, GP!IsSequence
  <2>2. GP!Top.node \in DOMAIN tree
    BY <2>1 DEF GP!FrameOK, GP!Holds, GP!Top
  <2> QED
    BY <2>2 DEF GP!Tree, GP!IsTree, GP!Here
<1>6. ASSUME frames # <<>>, GP!Here.left # GP!NULL PROVE GP!Here.left \in GP!Kids(GP!Here)
  BY <1>6 DEF GP!Kids
<1>7. ASSUME frames # <<>>, GP!Here.right # GP!NULL PROVE GP!Here.right \in GP!Kids(GP!Here)
  BY <1>7 DEF GP!Kids
<1>8. ASSUME frames # <<>>
      PROVE  /\ GP!Here.type \in {"UNARY", "BINARY", "ASSIGNMENT"} => GP!Here.left # GP!NULL
             /\ GP!Here.type = "STATEMENT" /\ GP!Here.op = "RETURN" => GP!Here.left # GP!NULL
             /\ GP!Here.type \in {"BINARY", "ASSIGNMENT"} => GP!Here.right # GP!NULL
  BY <1>5, <1>8 DEF GP!IsNode
<1>9. CASE GP!CallReturned
  <2>1. frames # <<>> /\ GP!Here.type = "STATEMENT"
    BY <1>9 DEF GP!CallReturned, GP!At
  <2>2. GP!Here.op = "RETURN"
    BY <1>4, <2>1 DEF GP!IInv, GP!Frames, GP!FrameOK, GP!Holds, GP!Here, GP!Top, GP!IsSequence
  <2> QED
    BY <1>1, <1>4, <1>6, <1>8, <1>9, <2>1, <2>2 DEF GP!CallReturned
<1>10. CASE GP!CallOperand \/ GP!CallLeft \/ GP!ShortCallLeft
  BY <1>1, <1>4, <1>6, <1>8, <1>10 DEF GP!CallOperand, GP!CallLeft, GP!ShortCallLeft, GP!At
<1>11. CASE GP!CallRight \/ GP!ShortCallRight \/ GP!CallRhs
  BY <1>1, <1>4, <1>7, <1>8, <1>11 DEF GP!CallRight, GP!ShortCallRight, GP!CallRhs, GP!At
<1>12. CASE GP!CallInit
  BY <1>1, <1>4, <1>6, <1>12 DEF GP!CallInit, GP!At
<1>13. CASE GP!CallLhs
  BY <1>1, <1>4, <1>6, <1>8, <1>13 DEF GP!CallLhs, GP!At
<1>14. CASE GP!EmitReturn \/ GP!IntLiteral \/ GP!Variable \/ GP!EmitUnary \/ GP!EmitBinary \/ GP!ShortEnd
            \/ GP!DeclareOnly \/ GP!EmitInit \/ GP!EmitAssignment
  BY <1>1, <1>4, <1>14 DEF GP!EmitReturn, GP!IntLiteral, GP!Variable, GP!EmitUnary, GP!EmitBinary, GP!ShortEnd,
     GP!DeclareOnly, GP!EmitInit, GP!EmitAssignment, GP!At
<1> QED
  BY <1>2, <1>3, <1>9, <1>10, <1>11, <1>12, <1>13, <1>14 DEF GP!Next

\* The children of a node under an item are under it.
LEMMA KidsAreUnder ==
  ASSUME SP!Tree, SP!SameTree, NEW m \in DOMAIN body, NEW a \in SP!Under(parsedTree, body[m]),
         NEW n \in GP!Kids(tree[a])
  PROVE  n \in SP!Under(parsedTree, body[m])
<1>1. SP!IsTree(parsedTree, body)
  BY DEF SP!Tree
<1>2. body[m] \in DOMAIN parsedTree
  BY <1>1 DEF SP!IsTree
<1>3. a \in DOMAIN parsedTree /\ SP!Kids(parsedTree[a]) \subseteq SP!Under(parsedTree, body[m])
  BY <1>1, <1>2, SP!UnderClosed DEF SP!Closed
<1>4. tree[a].left = parsedTree[a].left /\ tree[a].right = parsedTree[a].right
  BY <1>3 DEF SP!SameTree, SP!Node
<1>5. GP!Kids(tree[a]) = SP!Kids(parsedTree[a])
  BY <1>4 DEF GP!Kids, SP!Kids, GP!NULL, SP!NULL
<1> QED
  BY <1>3, <1>5

\* An item is under itself.
LEMMA ItemIsUnder ==
  ASSUME SP!Tree, NEW m \in DOMAIN body
  PROVE  body[m] \in SP!Under(parsedTree, body[m])
<1>1. SP!IsTree(parsedTree, body)
  BY DEF SP!Tree
<1>2. body[m] \in DOMAIN parsedTree
  BY <1>1 DEF SP!IsTree
<1> QED
  BY <1>1, <1>2, SP!UnderClosed

\* The generator only comes to nodes under the item that it is at.
LEMMA StillReached ==
  ASSUME SP!Tree, SP!SameTree, GP!Tree, GP!IInv, Reached, GP!Next, UNCHANGED parsedTree
  PROVE  Reached'
<1>1. UNCHANGED <<tree, body, parsedTree>>
  BY GeneratingMoves
<1>2. CASE UNCHANGED frames
  BY <1>1, <1>2 DEF Reached
<1>3. CASE GP!GenerateItem
  <2>1. frames' = <<>> \/ frames' = <<GP!Frame(body[generated])>>
    BY <1>3 DEF GP!GenerateItem
  <2>2. generated \in DOMAIN body
    <3>1. Len(body) \in Nat /\ DOMAIN body = 1..Len(body)
      BY DEF GP!Tree, GP!IsTree
    <3>2. generated \in 1..Len(body)+1 /\ generated <= Len(body)
      BY <1>3 DEF GP!GenerateItem, GP!IInv, GP!Counters
    <3> QED
      BY <3>1, <3>2
  <2>3. PICK f : f = GP!Frame(body[generated])
    OBVIOUS
  <2>7. f.node = body[generated]
    BY <2>3 DEF GP!Frame
  <2>4. body[generated] \in SP!Under(parsedTree, body[generated])
    BY <2>2, ItemIsUnder
  <2>5. CASE frames' = <<f>>
    <3>1. Len(frames') = 1 /\ frames'[1] = f
      BY <2>5
    <3>2. \A k \in 1..Len(frames') : frames'[k].node = body[generated]
      BY <2>7, <3>1
    <3> QED
      BY <1>1, <2>2, <2>4, <3>2 DEF Reached
  <2>6. CASE frames' = <<>>
    BY <2>6 DEF Reached
  <2> QED
    BY <2>1, <2>3, <2>5, <2>6
<1>4. GP!IsSequence(frames) /\ \A k \in 1..Len(frames) : GP!FrameOK(k)
  BY DEF GP!IInv, GP!Frames
<1>5. ASSUME Len(frames) >= 1, NEW n \in GP!Kids(GP!Here), NEW K, GP!Call(n, K)
      PROVE  Reached'
  <2>0. Len(frames) \in 1..Len(frames)
    BY <1>4, <1>5 DEF GP!IsSequence
  <2>1. PICK m \in Nat : m = Len(frames) /\ m >= 1
    BY <1>4, <1>5 DEF GP!IsSequence
  <2>2. GP!FrameOK(Len(frames))
    BY <1>4, <2>0
  <2>3. /\ Len(frames') = m + 1
        /\ \A k \in 1..m-1 : frames'[k] = frames[k]
        /\ frames'[m] = [node |-> frames[m].node, results |-> frames[m].results, locals |-> K]
        /\ frames'[m + 1] = GP!Frame(n)
    BY <1>4, <1>5, <2>1, <2>2, GP!CallShape
  <2>4. frames'[m].node = frames[m].node /\ frames'[m + 1].node = n
    BY <2>3 DEF GP!Frame
  <2>5. PICK x \in DOMAIN body : frames[m].node \in SP!Under(parsedTree, body[x])
    BY <2>1 DEF Reached
  <2>6. n \in SP!Under(parsedTree, body[x])
    BY <2>1, <2>5, KidsAreUnder DEF GP!Here, GP!Top
  <2>7. ASSUME NEW k \in 1..m+1 PROVE \E y \in DOMAIN body : frames'[k].node \in SP!Under(parsedTree, body[y])
    <3>1. CASE k = m + 1
      BY <2>4, <2>6, <3>1
    <3>2. CASE k = m
      BY <2>4, <2>5, <3>2
    <3>3. CASE k < m
      <4>1. k \in 1..m-1 /\ k \in 1..m
        BY <2>1, <3>3
      <4> QED
        BY <2>1, <2>3, <4>1 DEF Reached
    <3> QED
      BY <2>1, <3>1, <3>2, <3>3
  <2> QED
    BY <1>1, <2>3, <2>7 DEF Reached
<1>6. ASSUME Len(frames) >= 1, NEW v, GP!Return(v)
      PROVE  Reached'
  <2>1. PICK m \in Nat : m = Len(frames) /\ m >= 1
    BY <1>4, <1>6 DEF GP!IsSequence
  <2>3. /\ Len(frames') = m - 1
        /\ \A k \in 1..m-2 : frames'[k] = frames[k]
        /\ m > 1 => frames'[m - 1] = [node |-> frames[m - 1].node,
                                      results |-> Append(frames[m - 1].results, v),
                                      locals |-> frames[m - 1].locals]
    BY <1>4, <1>6, <2>1, GP!ReturnShape
  <2>4. \A k \in 1..m-1 : frames'[k].node = frames[k].node
    <3> SUFFICES ASSUME NEW k \in 1..m-1 PROVE frames'[k].node = frames[k].node
      OBVIOUS
    <3>1. CASE k = m - 1
      BY <2>1, <2>3, <3>1
    <3>2. CASE k # m - 1
      <4>1. k \in 1..m-2
        BY <2>1, <3>2
      <4> QED
        BY <2>3, <4>1
    <3> QED
      BY <3>1, <3>2
  <2>5. \A k \in 1..m-1 : k \in 1..Len(frames)
    BY <2>1
  <2> QED
    BY <1>1, <2>3, <2>4, <2>5 DEF Reached
<1> QED
  BY <1>2, <1>3, <1>5, <1>6, GeneratingMoves

\* An assignment that the generator aborts on is illegal, and the analysis has
\* not looked at its item.
LEMMA AbortsAtUnseen ==
  ASSUME SP!Tree, SP!IInv, resolving = "done", ok, GP!Tree, GP!IInv, Reached,
         GP!Next, lowering # "aborted", lowering' = "aborted"
  PROVE  \E m \in DOMAIN body : m \notin SP!Looked
<1>1. /\ frames # <<>> /\ GP!Here.type = "ASSIGNMENT" /\ tree[GP!Here.left].type # "VARIABLE"
  BY DEF GP!Next, GP!GenerateItem, GP!Finish, GP!CallReturned, GP!EmitReturn, GP!IntLiteral, GP!Variable,
         GP!CallOperand, GP!EmitUnary, GP!CallLeft, GP!CallRight, GP!EmitBinary, GP!ShortCallLeft,
         GP!ShortCallRight, GP!ShortEnd, GP!DeclareOnly, GP!CallInit, GP!EmitInit, GP!CallLhs, GP!CallRhs,
         GP!EmitAssignment, GP!At
<1>2. PICK a : a = GP!Top.node
  OBVIOUS
<1>3. Len(frames) \in 1..Len(frames)
  BY <1>1, GP!Emptyness DEF GP!IInv, GP!Frames, GP!IsSequence
<1>4. PICK m \in DOMAIN body : a \in SP!Under(parsedTree, body[m])
  BY <1>2, <1>3 DEF Reached, GP!Top
<1>5. a \in DOMAIN parsedTree
  BY <1>4 DEF SP!Under
<1>6. PICK l : l = tree[a].left /\ l = parsedTree[a].left /\ tree[a].type = parsedTree[a].type
  BY <1>5 DEF SP!IInv, SP!SameTree, SP!Node
<1>7. parsedTree[a].type = "ASSIGNMENT" /\ tree[l].type # "VARIABLE"
  BY <1>1, <1>2, <1>6 DEF GP!Here
<1>8. l \in DOMAIN parsedTree
  <2>1. SP!IsNode(parsedTree[a]) /\ l \in 0..a-1 /\ a \in 1..Len(parsedTree) /\ Len(parsedTree) \in Nat
    BY <1>5, <1>6 DEF SP!Tree, SP!IsTree
  <2>2. l # 0
    BY <1>6, <1>7, <2>1 DEF SP!IsNode, SP!NULL
  <2> QED
    BY <2>1, <2>2 DEF SP!Tree, SP!IsTree
<1>9. parsedTree[l].type # "VARIABLE"
  BY <1>7, <1>8 DEF SP!IInv, SP!SameTree, SP!Node
<1>10. ~SP!Legal(m, a)
  BY <1>6, <1>7, <1>9 DEF SP!Legal
<1>11. ASSUME m \in SP!Looked PROVE FALSE
  <2>1. SP!Pending = {} /\ resolved - 1 = Len(body)
    <3>1. todo = <<>> /\ resolved = Len(body) + 1 /\ Len(body) \in Nat
      BY DEF SP!IInv, SP!Places, SP!Tree, SP!IsTree
    <3> QED
      BY <3>1 DEF SP!Pending
  <2>2. m \in 1..resolved-1
    BY <2>1 DEF SP!Tree, SP!IsTree
  <2>3. SP!Visited(m, a)
    BY <1>4, <1>11, <2>1, <2>2 DEF SP!Visited
  <2> QED
    BY <1>10, <2>3 DEF SP!IInv, SP!Judged
<1> QED
  BY <1>11

-----------------------------------------------------------------------------
(* The inductive invariant *)

\* A stage that has not begun is as it was made; one that has keeps what has been
\* proved of it by itself, from what the stage before it has left.
ParserPart ==
  IF stage = "lex" THEN P!Fresh ELSE lexing = "done" /\ ParInv

SemanticPart ==
  IF stage \in {"lex", "parse"} THEN S!Fresh
  ELSE /\ parsing = "done"
       /\ ~parserError => SP!Tree /\ SP!IInv /\ Spelled

IRPart ==
  IF stage \in {"ir", "machine ir"}
  THEN ~HadError /\ resolving = "done" /\ GP!Tree /\ GP!IInv /\ Reached
  ELSE G!Fresh

Refused == lowering = "aborted" => \E m \in DOMAIN body : m \notin SP!Looked

IInv ==
  /\ stage \in {"lex", "parse", "semantic", "ir", "machine ir", "crashed", "exited"}
  /\ LexerInv /\ ParserPart /\ SemanticPart /\ IRPart /\ Refused
  /\ stage = "crashed" => parserError

-----------------------------------------------------------------------------
(* What a step of another stage leaves alone *)

\* The analysis, when it takes no step.
LEMMA SemanticStays ==
  ASSUME SP!Tree, SP!IInv, Spelled, UNCHANGED <<parsedTree, body, semantic>>
  PROVE  SP!Tree' /\ SP!IInv' /\ Spelled'
<1>1. UNCHANGED SP!vars
  BY DEF SP!vars, SP!input, SP!names, semantic
<1>2. (SP!Tree /\ SP!IInv)'
  BY <1>1, SP!NextKept
<1>3. Spelled'
  BY DEF Spelled, semantic
<1> QED
  BY <1>2, <1>3

\* The generator, when it takes no step.
LEMMA IRStays ==
  ASSUME GP!Tree, GP!IInv, Reached, UNCHANGED <<parsedTree, body, tree, irgen>>
  PROVE  GP!Tree' /\ GP!IInv' /\ Reached'
<1>1. UNCHANGED GP!vars
  BY DEF GP!vars, GP!input, GP!ids, GP!loop, irgen
<1>2. GP!Tree' /\ GP!IInv'
  BY <1>1, GP!NextKeeps
<1>3. Reached'
  BY DEF Reached, irgen
<1> QED
  BY <1>2, <1>3

\* A parser that has not begun.
LEMMA FreshParserStays == ASSUME P!Fresh, UNCHANGED parser PROVE P!Fresh'
BY DEF P!Fresh, parser

\* An analysis that has not begun.
LEMMA FreshSemanticStays ==
  ASSUME S!Fresh, UNCHANGED <<variableMap, counter, resolved, todo, ok, resolving>> PROVE S!Fresh'
BY DEF S!Fresh

\* A generator that has not begun.
LEMMA FreshIRStays == ASSUME G!Fresh, UNCHANGED irgen PROVE G!Fresh'
BY DEF G!Fresh, irgen

\* Why the generator has aborted stays true.
LEMMA RefusedStays == ASSUME Refused, UNCHANGED <<lowering, parsedTree, body>> PROVE Refused'
BY DEF Refused, SP!Looked, SP!Resolves

\* A generator that has not begun has not aborted.
LEMMA FreshRefuses == ASSUME G!Fresh PROVE Refused
BY DEF G!Fresh, Refused

\* The two stages, as they begin.
LEMMA AnalysisStarts == SP!Tree /\ tree = parsedTree /\ SP!Fresh => SP!IInv
BY SP!FreshKept

\* The generator, as it begins on a tree.
LEMMA GeneratorStarts == GP!Tree /\ GP!Fresh => GP!IInv
BY GP!FreshHolds

\* Nothing moves.
LEMMA AllStays ==
  ASSUME IInv, UNCHANGED vars
  PROVE  IInv'
<1>1. UNCHANGED <<stage, lexer, parser, semantic, irgen>>
  BY DEF vars
<1>2. UNCHANGED <<parsedTree, body, parserError, parsing, lexing, lexerError>>
  BY <1>1 DEF parser, lexer
<1>3. UNCHANGED <<tree, variableMap, counter, resolved, todo, ok, resolving, lowering>>
  BY <1>1 DEF semantic, irgen
<1>4. LexerInv'
  BY <1>1, LexerStays DEF IInv
<1>5. ParserPart'
  BY <1>1, <1>2, FreshParserStays, ParserStays DEF IInv, ParserPart
<1>6. SemanticPart'
  BY <1>1, <1>2, <1>3, FreshSemanticStays, SemanticStays DEF IInv, SemanticPart
<1>7. IRPart'
  BY <1>1, <1>2, <1>3, FreshIRStays, IRStays DEF IInv, IRPart, HadError
<1>8. Refused'
  BY <1>2, <1>3, RefusedStays DEF IInv
<1> QED
  BY <1>1, <1>2, <1>4, <1>5, <1>6, <1>7, <1>8 DEF IInv

-----------------------------------------------------------------------------
(* One lemma per action *)

\* A step of the lexer.
LEMMA LexKeeps ==
  ASSUME IInv, Lex
  PROVE  IInv'
<1>1. stage = "lex" /\ stage' = "lex" /\ L!Next /\ UNCHANGED <<parser, semantic, irgen>>
  BY DEF Lex
<1>2. LexerInv'
  BY <1>1, LexerSteps DEF IInv
<1>3. ParserPart'
  BY <1>1, FreshParserStays DEF IInv, ParserPart
<1>4. SemanticPart'
  BY <1>1, FreshSemanticStays DEF IInv, SemanticPart, semantic
<1>5. G!Fresh'
  BY <1>1, FreshIRStays DEF IInv, IRPart
<1>6. IRPart' /\ Refused'
  BY <1>1, <1>5 DEF IRPart, Refused, G!Fresh
<1> QED
  BY <1>1, <1>2, <1>3, <1>4, <1>6 DEF IInv

\* The parser begins, on the lexer's tokens.
LEMMA StartParserKeeps ==
  ASSUME IInv, StartParser
  PROVE  IInv'
<1>1. /\ stage = "lex" /\ stage' = "parse" /\ lexing = "done"
      /\ UNCHANGED <<lexer, parser, semantic, irgen>>
  BY DEF StartParser, Goto
<1>2. LexerInv'
  BY <1>1, LexerStays DEF IInv
<1>3. ParInv
  BY <1>1, LexerDelivers, ParInitInv DEF IInv, ParserPart
<1>4. ParInv'
  BY <1>1, <1>3, ParserStays
<1>5. ParserPart'
  BY <1>1, <1>4 DEF ParserPart, lexer
<1>6. SemanticPart'
  BY <1>1, FreshSemanticStays DEF IInv, SemanticPart, semantic
<1>7. G!Fresh'
  BY <1>1, FreshIRStays DEF IInv, IRPart
<1>8. IRPart' /\ Refused'
  BY <1>1, <1>7 DEF IRPart, Refused, G!Fresh
<1> QED
  BY <1>1, <1>2, <1>5, <1>6, <1>8 DEF IInv

\* A step of the parser.
LEMMA ParseKeeps ==
  ASSUME IInv, Parse
  PROVE  IInv'
<1>1. stage = "parse" /\ stage' = "parse" /\ P!Next /\ UNCHANGED <<lexer, semantic, irgen>>
  BY DEF Parse
<1>2. LexerInv'
  BY <1>1, LexerStays DEF IInv
<1>3. ParInv'
  BY <1>1, ParStepInv DEF IInv, ParserPart
<1>4. ParserPart'
  BY <1>1, <1>3 DEF IInv, ParserPart, lexer
<1>5. SemanticPart'
  BY <1>1, FreshSemanticStays DEF IInv, SemanticPart, semantic
<1>6. G!Fresh'
  BY <1>1, FreshIRStays DEF IInv, IRPart
<1>7. IRPart' /\ Refused'
  BY <1>1, <1>6 DEF IRPart, Refused, G!Fresh
<1> QED
  BY <1>1, <1>2, <1>4, <1>5, <1>7 DEF IInv

\* The analysis begins, on the parser's tree.
LEMMA StartSemanticKeeps ==
  ASSUME IInv, StartSemantic
  PROVE  IInv'
<1>1. /\ stage = "parse" /\ stage' = "semantic" /\ parsing = "done" /\ tree' = parsedTree
      /\ UNCHANGED <<lexer, parser, variableMap, counter, resolved, todo, ok, resolving, irgen>>
  BY DEF StartSemantic, Goto
<1>2. UNCHANGED <<parsedTree, body, parserError, parsing, lexing>>
  BY <1>1 DEF parser, lexer
<1>3. LexerInv'
  BY <1>1, LexerStays DEF IInv
<1>4. ParInv' /\ ParserPart'
  BY <1>1, <1>2, ParserStays DEF IInv, ParserPart
<1>5. S!Fresh'
  BY <1>1, FreshSemanticStays DEF IInv, SemanticPart
<1>6. ASSUME ~parserError
      PROVE  SP!Tree' /\ SP!IInv' /\ Spelled'
  <2>1. SP!IsTree(parsedTree, body)
    BY <1>1, <1>6, ParTree, SameTrees DEF IInv, ParserPart
  <2>2. SP!Tree'
    BY <1>2, <2>1 DEF SP!Tree
  <2>3. SP!Fresh' /\ tree' = parsedTree'
    BY <1>1, <1>2, <1>5 DEF SP!Fresh, S!Fresh
  <2>4. SP!IInv'
    <3>1. (SP!Tree /\ tree = parsedTree /\ SP!Fresh => SP!IInv)'
      BY AnalysisStarts, PTL
    <3> QED
      BY <2>2, <2>3, <3>1
  <2>5. DOMAIN parsedTree = 1..Len(parsedTree) /\ \A n \in 1..Len(parsedTree) : SP!IsSequence(parsedTree[n].name)
    BY <2>1 DEF SP!IsTree, SP!IsNode
  <2>6. parsedTree = [n \in DOMAIN parsedTree |-> parsedTree[n]]
    BY <1>1, LenNat DEF IInv, ParserPart, ParInv, TreeInv, Forest
  <2>7. Spelled'
    BY <1>1, <1>2, <2>5, <2>6 DEF Spelled
  <2> QED
    BY <2>2, <2>4, <2>7
<1>7. SemanticPart'
  BY <1>1, <1>2, <1>6 DEF SemanticPart
<1>8. G!Fresh'
  BY <1>1, FreshIRStays DEF IInv, IRPart
<1>9. IRPart' /\ Refused'
  BY <1>1, <1>8 DEF IRPart, Refused, G!Fresh
<1> QED
  BY <1>1, <1>3, <1>4, <1>7, <1>9 DEF IInv

\* A step of the analysis.
LEMMA ResolveKeeps ==
  ASSUME IInv, Resolve
  PROVE  IInv'
<1>1. /\ stage = "semantic" /\ stage' = "semantic" /\ S!Next
      /\ UNCHANGED <<lexer, parser, irgen>>
  BY DEF Resolve
<1>2. UNCHANGED <<parsedTree, body, parserError, parsing, lexing>>
  BY <1>1 DEF parser, lexer
<1>3. LexerInv'
  BY <1>1, LexerStays DEF IInv
<1>4. ParserPart'
  BY <1>1, <1>2, ParserStays DEF IInv, ParserPart
<1>5. ASSUME ~parserError
      PROVE  SP!Tree' /\ SP!IInv' /\ Spelled'
  <2>1. SP!Tree /\ SP!IInv /\ Spelled /\ SP!Next
    BY <1>1, <1>5, SameResolving DEF IInv, SemanticPart
  <2>2. (SP!Tree /\ SP!IInv)'
    BY <2>1, SP!NextKept
  <2>3. Spelled'
    BY <2>1, StillSpelled
  <2> QED
    BY <2>2, <2>3
<1>6. SemanticPart'
  BY <1>1, <1>2, <1>5 DEF IInv, SemanticPart
<1>7. G!Fresh'
  BY <1>1, FreshIRStays DEF IInv, IRPart
<1>8. IRPart' /\ Refused'
  BY <1>1, <1>7 DEF IRPart, Refused, G!Fresh
<1> QED
  BY <1>1, <1>3, <1>4, <1>6, <1>8 DEF IInv

\* Without an error of the parser there is a tree, and no pointer in it that is
\* about to be followed is null.
LEMMA NoNullRead ==
  ASSUME IInv, stage = "semantic", ~parserError
  PROVE  ~ReadsNull
<1>1. SP!Tree /\ SP!IInv /\ parsing = "done" /\ ParInv
  BY DEF IInv, SemanticPart, ParserPart
<1>2. parsed
  BY <1>1, ParTree
<1>3. ASSUME todo # <<>>, S!Visits("ASSIGNMENT"), S!Here.left = P!NULL PROVE FALSE
  <2>1. todo \in Seq(DOMAIN parsedTree)
    BY <1>1 DEF SP!IInv, SP!Places
  <2>2. PICK n \in DOMAIN parsedTree : n = Head(todo)
    BY <1>3, <2>1
  <2>3. PICK a : a = parsedTree[n]
    OBVIOUS
  <2>4. PICK b : b = tree[n]
    OBVIOUS
  <2>5. b = SP!Node(a.type, a.op, b.name, a.value, a.left, a.right)
    BY <1>1, <2>3, <2>4 DEF SP!IInv, SP!SameTree
  <2>6. b.type = a.type /\ b.left = a.left
    BY <2>5 DEF SP!Node
  <2>7. a.type = "ASSIGNMENT" /\ a.left = P!NULL
    BY <1>3, <2>2, <2>4, <2>6 DEF S!Visits, S!Here
  <2>8. SP!IsNode(a)
    BY <1>1, <2>3 DEF SP!Tree, SP!IsTree
  <2> QED
    BY <2>7, <2>8 DEF SP!IsNode, SP!NULL, P!NULL
<1>4. ASSUME todo # <<>> PROVE Head(todo) # P!NULL
  <2>1. todo \in Seq(DOMAIN parsedTree)
    BY <1>1 DEF SP!IInv, SP!Places
  <2>2. Head(todo) \in DOMAIN parsedTree
    BY <1>4, <2>1
  <2>3. 0 \notin DOMAIN parsedTree
    BY <1>1 DEF SP!Tree, SP!IsTree
  <2> QED
    BY <2>2, <2>3 DEF P!NULL
<1> QED
  BY <1>2, <1>3, <1>4 DEF ReadsNull

\* The analysis reads through a null pointer: the parser has reported an error.
LEMMA SemanticCrashKeeps ==
  ASSUME IInv, SemanticCrash
  PROVE  IInv'
<1>1. /\ stage = "semantic" /\ stage' = "crashed" /\ ReadsNull
      /\ UNCHANGED <<lexer, parser, semantic, irgen>>
  BY DEF SemanticCrash, Goto
<1>2. UNCHANGED <<parsedTree, body, parserError, parsing, lexing>>
  BY <1>1 DEF parser, lexer
<1>3. parserError
  <2>1. parserError \in BOOLEAN
    BY <1>1 DEF IInv, ParserPart, ParInv, CursorInv
  <2> QED
    BY <1>1, <2>1, NoNullRead
<1>4. LexerInv'
  BY <1>1, LexerStays DEF IInv
<1>5. ParserPart'
  BY <1>1, <1>2, ParserStays DEF IInv, ParserPart
<1>6. SemanticPart'
  BY <1>1, <1>2, <1>3 DEF IInv, SemanticPart
<1>7. G!Fresh'
  BY <1>1, FreshIRStays DEF IInv, IRPart
<1>8. IRPart' /\ Refused'
  BY <1>1, <1>7 DEF IRPart, Refused, G!Fresh
<1> QED
  BY <1>1, <1>2, <1>3, <1>4, <1>5, <1>6, <1>8 DEF IInv

\* The compiler gives up.
LEMMA ExitWithErrorsKeeps ==
  ASSUME IInv, ExitWithErrors
  PROVE  IInv'
<1>1. /\ stage = "semantic" /\ stage' = "exited"
      /\ UNCHANGED <<lexer, parser, semantic, irgen>>
  BY DEF ExitWithErrors, Goto
<1>2. UNCHANGED <<parsedTree, body, parserError, parsing, lexing>>
  BY <1>1 DEF parser, lexer
<1>4. LexerInv'
  BY <1>1, LexerStays DEF IInv
<1>5. ParserPart'
  BY <1>1, <1>2, ParserStays DEF IInv, ParserPart
<1>6. SemanticPart'
  BY <1>1, <1>2, SemanticStays DEF IInv, SemanticPart
<1>7. G!Fresh'
  BY <1>1, FreshIRStays DEF IInv, IRPart
<1>8. IRPart' /\ Refused'
  BY <1>1, <1>7 DEF IRPart, Refused, G!Fresh
<1> QED
  BY <1>1, <1>2, <1>4, <1>5, <1>6, <1>8 DEF IInv

\* The generator begins: there was no error, and it is handed the tree, renamed.
LEMMA StartIRKeeps ==
  ASSUME IInv, StartIR
  PROVE  IInv'
<1>1. /\ stage = "semantic" /\ stage' = "ir" /\ resolving = "done" /\ ~HadError
      /\ UNCHANGED <<lexer, parser, semantic, irgen>>
  BY DEF StartIR, Goto
<1>2. UNCHANGED <<parsedTree, body, parserError, parsing, lexing, lexerError>>
  BY <1>1 DEF parser, lexer
<1>3. UNCHANGED <<tree, ok, resolving, frames>>
  BY <1>1 DEF semantic, irgen
<1>4. LexerInv'
  BY <1>1, LexerStays DEF IInv
<1>5. ParserPart'
  BY <1>1, <1>2, ParserStays DEF IInv, ParserPart
<1>6. SP!Tree /\ SP!IInv /\ Spelled
  BY <1>1 DEF IInv, SemanticPart, HadError
<1>7. SemanticPart'
  BY <1>1, <1>2, <1>6, SemanticStays DEF IInv, SemanticPart
<1>8. G!Fresh
  BY <1>1 DEF IInv, IRPart
<1>9. GP!Tree
  BY <1>6, RenamedIsTree, SameTrees DEF SP!IInv, GP!Tree
<1>10. GP!IInv
  <2>1. GP!Fresh
    BY <1>8 DEF G!Fresh, GP!Fresh
  <2> QED
    BY <1>9, <2>1, GeneratorStarts
<1>11. Reached
  BY <1>8 DEF G!Fresh, Reached
<1>12. GP!Tree' /\ GP!IInv' /\ Reached'
  BY <1>1, <1>2, <1>3, <1>9, <1>10, <1>11, IRStays
<1>13. IRPart'
  BY <1>1, <1>2, <1>3, <1>12 DEF IRPart, HadError
<1>14. G!Fresh'
  BY <1>1, <1>8, FreshIRStays
<1>15. Refused'
  BY <1>14 DEF Refused, G!Fresh
<1> QED
  BY <1>1, <1>4, <1>5, <1>7, <1>13, <1>15 DEF IInv

\* A step of the generator: when it aborts, the analysis has left an item out.
LEMMA GenerateIRKeeps ==
  ASSUME IInv, GenerateIR
  PROVE  IInv'
<1>1. /\ stage = "ir" /\ stage' = "ir" /\ G!Next
      /\ UNCHANGED <<lexer, parser, variableMap, counter, resolved, todo, ok, resolving>>
  BY DEF GenerateIR
<1>2. UNCHANGED <<parsedTree, body, parserError, parsing, lexing, lexerError>>
  BY <1>1 DEF parser, lexer
<1>3. /\ ~HadError /\ resolving = "done" /\ GP!Tree /\ GP!IInv /\ Reached /\ GP!Next
      /\ SP!Tree /\ SP!IInv /\ Spelled
  BY <1>1, SameGenerating DEF IInv, IRPart, SemanticPart, HadError
<1>4. UNCHANGED <<tree, semantic>>
  BY <1>1, <1>3, GeneratingMoves DEF semantic
<1>5. LexerInv'
  BY <1>1, LexerStays DEF IInv
<1>6. ParserPart'
  BY <1>1, <1>2, ParserStays DEF IInv, ParserPart
<1>7. SemanticPart'
  BY <1>1, <1>2, <1>3, <1>4, SemanticStays DEF IInv, SemanticPart
<1>8. GP!Tree' /\ GP!IInv'
  BY <1>3, GP!NextKeeps
<1>9. Reached'
  BY <1>2, <1>3, StillReached DEF SP!IInv
<1>10. IRPart'
  BY <1>1, <1>2, <1>3, <1>8, <1>9 DEF IRPart, HadError
<1>11. Refused'
  <2>1. SUFFICES ASSUME lowering' = "aborted" PROVE \E m \in DOMAIN body : m \notin SP!Looked
    BY <1>2 DEF Refused, SP!Looked, SP!Resolves
  <2>2. CASE lowering = "aborted"
    BY <2>2 DEF IInv, Refused
  <2>3. CASE lowering # "aborted"
    BY <1>3, <2>1, <2>3, AbortsAtUnseen DEF HadError
  <2> QED
    BY <2>2, <2>3
<1> QED
  BY <1>1, <1>5, <1>6, <1>7, <1>10, <1>11 DEF IInv

\* Two steps of the back end: nothing that the invariant speaks of moves.
LEMMA BackendKeeps ==
  ASSUME IInv, StartBackend \/ GenerateMachineIR
  PROVE  IInv'
<1>1. /\ stage \in {"ir", "machine ir"} /\ stage' = "machine ir"
      /\ UNCHANGED <<lexer, parser, semantic, irgen>>
  BY DEF StartBackend, GenerateMachineIR, Goto
<1>2. UNCHANGED <<parsedTree, body, parserError, parsing, lexing, lexerError>>
  BY <1>1 DEF parser, lexer
<1>3. UNCHANGED <<tree, ok, resolving, lowering>>
  BY <1>1 DEF semantic, irgen
<1>4. LexerInv'
  BY <1>1, LexerStays DEF IInv
<1>5. ParserPart'
  BY <1>1, <1>2, ParserStays DEF IInv, ParserPart
<1>6. SemanticPart'
  BY <1>1, <1>2, SemanticStays DEF IInv, SemanticPart
<1>7. IRPart'
  BY <1>1, <1>2, <1>3, IRStays DEF IInv, IRPart, HadError
<1>8. Refused'
  BY <1>2, <1>3, RefusedStays DEF IInv
<1> QED
  BY <1>1, <1>4, <1>5, <1>6, <1>7, <1>8 DEF IInv

\* The invariant holds when compile is called.
LEMMA InitKept == Init => IInv
<1> SUFFICES ASSUME Init PROVE IInv
  OBVIOUS
<1>1. stage = "lex" /\ L!Init /\ P!Fresh /\ S!Fresh /\ G!Fresh
  BY DEF Init
<1> QED
  BY <1>1, LexerStarts, FreshRefuses DEF IInv, ParserPart, SemanticPart, IRPart

\* Every step keeps it.
LEMMA NextKept == IInv /\ [Next]_vars => IInv'
BY LexKeeps, StartParserKeeps, ParseKeeps, StartSemanticKeeps, ResolveKeeps, SemanticCrashKeeps,
   ExitWithErrorsKeeps, StartIRKeeps, GenerateIRKeeps, BackendKeeps, AllStays DEF Next

\* It always holds.
LEMMA Invariant == Spec => []IInv
BY InitKept, NextKept, PTL DEF Spec

-----------------------------------------------------------------------------
(* The theorems *)

\* The lexer is right about every text: character by character it cuts the text
\* where the rule of the longest lexeme does, flags exactly what is no program's,
\* and runs past the buffer exactly on a comment without an end.
THEOREM LexerIsRight == Spec => []TokenizesByLongestMatch
<1>1. IInv => TokenizesByLongestMatch
  BY LexInvRight DEF IInv, LexerInv, TokenizesByLongestMatch
<1> QED
  BY <1>1, Invariant, PTL

\* No error is lost from one stage to the next: a text that the lexer has an error
\* in is one that the parser, which does not ask the lexer, has an error in too;
\* and where the compiler leaves what C defines, reading past the tokens or
\* through a null pointer, the parser has reported an error before.
THEOREM ErrorsAreCarried == Spec => []ErrorsAreNotLost
<1>1. IInv => ErrorsAreNotLost
  <2> SUFFICES ASSUME IInv PROVE ErrorsAreNotLost
    OBVIOUS
  <2>1. ASSUME parsing # "running", lexerError PROVE parserError
    <3>1. stage # "lex"
      BY <2>1 DEF IInv, ParserPart, P!Fresh
    <3>2. ParInv /\ Broken(tokenArray)
      BY <2>1, <3>1, LexerErrorShows DEF IInv, ParserPart
    <3> QED
      BY <2>1, <3>2, ParShows
  <2>2. ASSUME parsing = "undefined" PROVE parserError
    <3>1. stage # "lex"
      BY <2>2 DEF IInv, ParserPart, P!Fresh
    <3> QED
      BY <2>2, <3>1 DEF IInv, ParserPart, ParInv, CursorInv
  <2>3. ASSUME stage = "crashed" PROVE parserError
    BY <2>3 DEF IInv
  <2> QED
    BY <2>1, <2>2, <2>3 DEF ErrorsAreNotLost
<1> QED
  BY <1>1, Invariant, PTL

\* What one stage hands to the next is what the next one takes for granted, for
\* every text: after a parse without an error the analysis is handed a tree, the
\* generator is handed a tree again, renamed, and the state of each stage has the
\* types that it has when the stage runs by itself.
THEOREM TypeCorrect == Spec => []TypeOK
<1>1. IInv => TypeOK
  <2> SUFFICES ASSUME IInv PROVE TypeOK
    OBVIOUS
  <2>1. stage = "lex" => L!TypeOK
    BY LexInvRight DEF IInv, LexerInv
  <2>2. stage = "parse" => P!TypeOK
    BY ParTypes DEF IInv, ParserPart
  <2>3. (stage = "semantic" /\ ~parserError) => S!TypeOK
    BY SP!TypesFromInvariant, SameResolvingTypes DEF IInv, SemanticPart
  <2>4. stage = "ir" => G!TypeOK
    BY GP!TypesFromInvariant, SameGeneratingTypes DEF IInv, IRPart
  <2>5. (stage = "semantic" /\ ~lexerError /\ ~parserError) => P!IsTree(parsedTree, body)
    BY ParTree DEF IInv, ParserPart, SemanticPart
  <2>6. stage = "ir" => P!IsTree(tree, body)
    BY SameTrees DEF IInv, IRPart, GP!Tree
  <2> QED
    BY <2>1, <2>2, <2>3, <2>4, <2>5, <2>6 DEF TypeOK, HandsOverTrees, IInv
<1> QED
  BY <1>1, Invariant, PTL

\* What the semantic analysis lets pass, the generator can translate: its ASSERT on
\* the left side of an assignment fails on no program whose items the analysis has
\* all looked at.
THEOREM AcceptedIsTranslated == Spec => []AcceptedIsGenerated
<1>1. SP!Looked = S!Looked
  BY DEF SP!Looked, S!Looked, SP!Resolves, S!Resolves
<1>2. IInv => AcceptedIsGenerated
  BY <1>1 DEF IInv, Refused, AcceptedIsGenerated, AllLooked
<1> QED
  BY <1>2, Invariant, PTL

\* What FlattenSeq makes of the items' lists.
LEMMA JoinedIs ==
  ASSUME NEW s, NEW M \in Nat \ {0}, Len(s) = M
  PROVE  \E g : IsJoined(s, M, g) /\ FlattenSeq(s) = g[M]
<1> DEFINE c == CHOOSE g : IsJoined(s, M, g)
<1>1. IsJoined(s, M, c)
  BY SomeJoined
<1>2. FlattenSeq(s) = c[M]
  BY DEF FlattenSeq, IsJoined, JoinedAt
<1> QED
  BY <1>1, <1>2

\* The parser's tree is such a forest, an error or not: no two places hold one node.
LEMMA ForestHasOneParent ==
  ASSUME ParInv
  PROVE  OneParent(parsedTree, Len(parsedTree)) /\ Roots(parsedTree, Len(parsedTree), body)
<1>1. Forest(parsedTree, body, calls, ret)
  BY DEF ParInv, TreeInv
<1>2. /\ Len(parsedTree) \in Nat /\ Len(body) \in Nat
      /\ DOMAIN parsedTree = 1..Len(parsedTree) /\ DOMAIN body = 1..Len(body)
  BY <1>1, LenNat DEF Forest
<1> DEFINE q == Held(parsedTree, body, calls, LiveRet(calls, ret))
<1>3. Apart(q)
  BY <1>1 DEF Forest
<1>4. ASSUME NEW n \in 1..Len(parsedTree)
      PROVE  /\ Spot("left", n) \in Place /\ Spot("right", n) \in Place /\ n \in Nat
             /\ q[Spot("left", n)] = parsedTree[n].left /\ q[Spot("right", n)] = parsedTree[n].right
  <2>1. n \in Nat
    BY <1>2
  <2> QED
    BY <2>1, HeldAt, SpotIsPlace DEF LeftOf, RightOf
<1>5. ASSUME NEW k \in 1..Len(body)
      PROVE  /\ Spot("body", k) \in Place /\ q[Spot("body", k)] = body[k] /\ k \in Nat
             /\ body[k] \in 1..Len(parsedTree) /\ body[k] # 0
  <2>1. k \in Nat
    BY <1>2
  <2>2. body[k] \in 1..Len(parsedTree) /\ body[k] # 0
    BY <1>1, <1>2 DEF Forest
  <2> QED
    BY <2>1, <2>2, HeldAt, SpotIsPlace DEF Item
<1> HIDE DEF q
<1>6. P!NULL = 0
  BY DEF P!NULL
<1>7. ASSUME NEW n \in 1..Len(parsedTree)
      PROVE  parsedTree[n].left \in 0..n-1 /\ parsedTree[n].right \in 0..n-1
  BY <1>1 DEF Forest
<1>8. ASSUME NEW n \in 1..Len(parsedTree), parsedTree[n].left = parsedTree[n].right
      PROVE  parsedTree[n].left = 0
  <2> SUFFICES ASSUME parsedTree[n].left # 0 PROVE FALSE
    OBVIOUS
  <2>1. Spot("left", n) = Spot("right", n)
    BY <1>3, <1>4, <1>6, <1>8 DEF Apart
  <2>2. n \in Nat
    BY <1>4
  <2>3. Spot("left", n) = Spot("right", n) <=> "left" = "right" /\ n = n
    BY <2>2, SpotsApart
  <2> QED
    BY <2>1, <2>3
<1>9. ASSUME NEW m \in 1..Len(parsedTree), NEW n \in 1..Len(parsedTree),
             NEW c \in KidsOf(parsedTree, m), c \in KidsOf(parsedTree, n)
      PROVE  m = n
  <2>1. PICK p \in {"left", "right"} : q[Spot(p, m)] = c
    BY <1>4 DEF KidsOf
  <2>2. PICK o \in {"left", "right"} : q[Spot(o, n)] = c
    BY <1>4, <1>9 DEF KidsOf
  <2>3. c # 0
    BY DEF KidsOf
  <2>4. Spot(p, m) \in Place /\ Spot(o, n) \in Place
    BY <1>4
  <2>5. Spot(p, m) = Spot(o, n)
    BY <1>3, <1>6, <2>1, <2>2, <2>3, <2>4 DEF Apart
  <2> QED
    BY <1>4, <2>5, SpotsApart
<1>10. ASSUME NEW k \in 1..Len(body), NEW n \in 1..Len(parsedTree), body[k] \in KidsOf(parsedTree, n)
       PROVE  FALSE
  <2>1. PICK p \in {"left", "right"} : q[Spot(p, n)] = body[k]
    BY <1>4, <1>10 DEF KidsOf
  <2>2. Spot(p, n) \in Place
    BY <1>4
  <2>3. Spot(p, n) = Spot("body", k)
    BY <1>3, <1>5, <1>6, <2>1, <2>2 DEF Apart
  <2>4. n \in Nat /\ k \in Nat
    BY <1>4, <1>5
  <2>5. p = "body"
    BY <2>3, <2>4, SpotsApart
  <2> QED
    BY <2>5
<1>11. ASSUME NEW k \in 1..Len(body), NEW l \in 1..Len(body), body[k] = body[l]
       PROVE  k = l
  <2>1. Spot("body", k) = Spot("body", l)
    BY <1>3, <1>5, <1>6, <1>11 DEF Apart
  <2> QED
    BY <1>5, <2>1, SpotsApart
<1>12. OneParent(parsedTree, Len(parsedTree))
  <2>1. \A n \in 1..Len(parsedTree) : parsedTree[n].left \in 0..n-1 /\ parsedTree[n].right \in 0..n-1
    BY <1>7
  <2>2. \A n \in 1..Len(parsedTree) : parsedTree[n].left = parsedTree[n].right => parsedTree[n].left = 0
    BY <1>8
  <2>3. \A m, n \in 1..Len(parsedTree) :
          \A c \in KidsOf(parsedTree, m) : c \in KidsOf(parsedTree, n) => m = n
    BY <1>9
  <2> QED
    BY <2>1, <2>2, <2>3 DEF OneParent
<1>13. Roots(parsedTree, Len(parsedTree), body)
  BY <1>5, <1>10, <1>11 DEF Roots
<1> QED
  BY <1>12, <1>13

\* Without an error, when the parser has returned, nothing but the body and the
\* nodes themselves holds a node, and every node is held.
LEMMA ForestIsRooted ==
  ASSUME ParInv, parsing = "done", ~parserError
  PROVE  Rooted(parsedTree, Len(parsedTree), body)
<1>1. calls = <<>> /\ Clean(parsedTree, body, calls, ret) /\ Forest(parsedTree, body, calls, ret)
  BY DEF ParInv, TreeInv, CursorInv
<1>2. /\ Len(parsedTree) \in Nat /\ Len(body) \in Nat /\ Len(calls) = 0
  BY <1>1, LenNat DEF Forest
<1>3. LiveRet(calls, ret) = P!NULL
  BY <1>2 DEF LiveRet
<1>4. ASSUME NEW c \in 1..Len(parsedTree)
      PROVE  \/ \E k \in 1..Len(body) : c = body[k]
             \/ \E n \in 1..Len(parsedTree) : c \in KidsOf(parsedTree, n)
  <2>1. PICK x \in Place : Held(parsedTree, body, calls, LiveRet(calls, ret))[x] = c
    BY <1>1 DEF Clean, Whole
  <2>2. c # 0 /\ P!NULL = 0
    BY DEF P!NULL
  <2>3. PICK k \in Nat : \/ x = Spot("body", k) \/ x = Spot("frame", k) \/ x = Spot("ret", k)
                         \/ x = Spot("left", k) \/ x = Spot("right", k)
    BY Places
  <2>4. CASE x = Spot("body", k)
    <3>1. Item(body, k) = c
      BY <2>1, <2>4, HeldAt
    <3> QED
      BY <2>2, <3>1 DEF Item
  <2>5. CASE x = Spot("frame", k)
    <3>1. LeftOf(calls, k) = c
      BY <2>1, <2>5, HeldAt
    <3> QED
      BY <1>2, <2>2, <3>1 DEF LeftOf
  <2>6. CASE x = Spot("ret", k)
    <3>1. Answer(LiveRet(calls, ret), k) = c
      BY <2>1, <2>6, HeldAt
    <3> QED
      BY <1>3, <2>2, <3>1 DEF Answer
  <2>7. CASE x = Spot("left", k)
    <3>1. LeftOf(parsedTree, k) = c
      BY <2>1, <2>7, HeldAt
    <3>2. k \in 1..Len(parsedTree) /\ parsedTree[k].left = c
      BY <2>2, <3>1 DEF LeftOf
    <3> QED
      BY <2>2, <3>2 DEF KidsOf
  <2>8. CASE x = Spot("right", k)
    <3>1. RightOf(parsedTree, k) = c
      BY <2>1, <2>8, HeldAt
    <3>2. k \in 1..Len(parsedTree) /\ parsedTree[k].right = c
      BY <2>2, <3>1 DEF RightOf
    <3> QED
      BY <2>2, <3>2 DEF KidsOf
  <2> QED
    BY <2>3, <2>4, <2>5, <2>6, <2>7, <2>8
<1> QED
  BY <1>4 DEF Rooted

\* What the parser leaves is freed once, an error or not; without one it is all freed.
LEMMA CleanupFreesOnce ==
  ASSUME ParInv, parsing = "done"
  PROVE  /\ IsInjective(ast_free_node)
         /\ ~parserError => Len(ast_free_node) = Len(parsedTree)
<1>1. PICK N \in Nat : N = Len(parsedTree)
  BY LenNat DEF ParInv, TreeInv, Forest
<1>2. body \in Seq(Nat) /\ DOMAIN body = 1..Len(body)
  BY LenNat DEF ParInv, TreeInv, Forest
<1>3. OneParent(parsedTree, N) /\ Roots(parsedTree, N, body)
  BY <1>1, ForestHasOneParent
<1>4. ~parserError => Rooted(parsedTree, N, body)
  BY <1>1, ForestIsRooted
<1> DEFINE c == CHOOSE f : IsFreed(parsedTree, N, f)
<1>5. IsFreed(parsedTree, N, c)
  BY <1>3, SomeFreed
<1>6. ast_free_node = FlattenSeq([k \in DOMAIN body |-> c[body[k]]])
  BY <1>1 DEF ast_free_node, IsFreed, FreedOf, P!NULL
<1>7. PICK f : f = c
  OBVIOUS
<1> HIDE DEF c
<1>8. PICK s : s = [k \in 1..Len(body) |-> f[body[k]]]
  OBVIOUS
<1>9. ast_free_node = FlattenSeq(s) /\ IsFreed(parsedTree, N, f)
  BY <1>2, <1>5, <1>6, <1>7, <1>8
<1>10. PICK M \in Nat : M = Len(body)
  BY <1>2, LenNat
<1>11. Len(s) = M /\ DOMAIN s = 1..M /\ \A k \in 1..M : s[k] = f[body[k]]
  BY <1>8, <1>10
<1>12. ~parserError => 1..N \subseteq FreedBy(body, f, M)
  BY <1>3, <1>4, <1>9, <1>10, AllReached
<1>13. CASE M = 0
  <2>1. FlattenSeq(s) = s
    BY <1>11, <1>13 DEF FlattenSeq
  <2>2. IsInjective(s)
    BY <1>11, <1>13 DEF IsInjective
  <2>3. FreedBy(body, f, M) = {}
    BY <1>13 DEF FreedBy
  <2>4. ~parserError => N = 0
    BY <1>12, <2>3
  <2> QED
    BY <1>1, <1>9, <1>11, <1>13, <2>1, <2>2, <2>4
<1>14. CASE M # 0
  <2>1. PICK g : IsJoined(s, M, g) /\ FlattenSeq(s) = g[M]
    BY <1>11, <1>14, JoinedIs
  <2>2. M \in 1..Len(body)
    BY <1>10, <1>14
  <2>3. JoinsItems(body, f, g, M)
    BY <1>2, <1>3, <1>9, <1>10, <1>11, <2>1, <2>2, AllJoined
  <2>4. PICK w : w = g[M]
    OBVIOUS
  <2>5. w \in Seq(Nat) /\ IsInjective(w) /\ Listed(w) = FreedBy(body, f, M) /\ ast_free_node = w
    BY <1>9, <2>1, <2>3, <2>4 DEF JoinsItems
  <2>6. ASSUME ~parserError PROVE Len(w) = N
    <3>1. FreedBy(body, f, M) \subseteq 1..N
      <4> SUFFICES ASSUME NEW x \in FreedBy(body, f, M) PROVE x \in 1..N
        OBVIOUS
      <4>1. PICK k \in 1..M : x \in Listed(f[body[k]])
        BY FreedByOne
      <4>2. body[k] \in 0..N
        BY <1>3, <1>10 DEF Roots
      <4>3. FreesOnce(parsedTree, f, body[k])
        BY <1>3, <1>9, <4>2, AllFreed
      <4> QED
        BY <4>1, <4>2, <4>3 DEF FreesOnce
    <3>2. Listed(w) = 1..N
      BY <1>12, <2>5, <2>6, <3>1
    <3> QED
      BY <2>5, <3>2, OnceEach
  <2> QED
    BY <1>1, <2>5, <2>6
<1> QED
  BY <1>13, <1>14

\* The cleanup frees no node twice, an error or not, and after a parse without an
\* error it frees every node: no node hangs in two places, whatever the parser has
\* given up on the way.
THEOREM CleanupIsRight == Spec => []FreesEachNodeOnce
<1>1. IInv => FreesEachNodeOnce
  <2> SUFFICES ASSUME IInv, stage \in {"crashed", "semantic"}
               PROVE  /\ IsInjective(ast_free_node)
                      /\ ~parserError => Len(ast_free_node) = Len(parsedTree)
    BY DEF FreesEachNodeOnce
  <2>1. ParInv /\ parsing = "done"
    BY DEF IInv, ParserPart, SemanticPart
  <2> QED
    BY <2>1, CleanupFreesOnce
<1> QED
  BY <1>1, Invariant, PTL
=============================================================================
