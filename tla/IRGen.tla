------------------------------- MODULE IRGen -------------------------------
(***************************************************************************)
(* src/ir/ir.c with src/ir/instruction.c: linear code with temporaries and *)
(* labels from a syntax tree.                                              *)
(*                                                                         *)
(* The recursion of generate_expression is a stack of frames, one per C    *)
(* call in progress: the node it handles, the operands its finished inner  *)
(* calls returned (how many there are says where the call stands), and the *)
(* locals it made before its first inner call.  One step is what one call  *)
(* does between two inner calls.                                           *)
(***************************************************************************)
EXTENDS IR, AST

CONSTANT Inputs  \* the trees to translate: records with fields ast and body

ASSUME IRGenAssumption == \A p \in Inputs : IsTree(p.ast, p.body)

VARIABLES
  ast, body,    \* the heap of nodes and main_fn's body, an array of pointers
  code,         \* ir->instructions
  nextId,       \* the static counter of instruction_generate_id
  nextLabel,    \* the static counter of instruction_generate_label
  varTemp,      \* ir->variable_to_temp
  stack,        \* the calls of generate_expression and generate_statement
  item,         \* i in generate_function
  hadReturn,    \* had_return in generate_function
  status        \* "running", "done", or "aborted" by a failed ASSERT

input == <<ast, body>>
ids   == <<nextId, nextLabel, varTemp>>
loop  == <<item, hadReturn>>
vars  == <<input, code, ids, stack, loop, status>>

Fresh ==
  /\ code = <<>>
  /\ nextId = 0 /\ nextLabel = 0 /\ varTemp = <<>>
  /\ stack = <<>>
  /\ item = 1 /\ hadReturn = FALSE
  /\ status = "running"

Init == Fresh /\ \E p \in Inputs : ast = p.ast /\ body = p.body

-----------------------------------------------------------------------------
(* The call stack. *)

NoLocals == [temp |-> NullOp, cond |-> NoLabel, end |-> NoLabel]
Frame(n) == [node |-> n, results |-> <<>>, locals |-> NoLocals]
Top      == stack[Len(stack)]
Here     == ast[Top.node]

\* The frame that handles a node of this type is at its k-th stop.
At(type, k) == /\ status = "running" /\ stack # <<>>
               /\ Here.type = type /\ Len(Top.results) = k

\* Call generate_expression on node n, from the top frame with these locals.
Call(n, locals) ==
  stack' = Append([stack EXCEPT ![Len(stack)].locals = locals], Frame(n))

\* Return operand v to the frame below.
Return(v) ==
  stack' = LET below == SubSeq(stack, 1, Len(stack) - 1)
           IN IF below = <<>> THEN <<>>
              ELSE [below EXCEPT ![Len(below)].results = Append(@, v)]

Emit(insts) == code' = code \o insts

-----------------------------------------------------------------------------
(* generate_function *)

\* The next item of the body; a null statement generates nothing.
GenerateItem ==
  /\ status = "running" /\ stack = <<>>
  /\ item <= Len(body)
  /\ LET n == ast[body[item]] IN
       /\ hadReturn' = (hadReturn \/ IsReturn(n))
       /\ stack' = IF n.type = "STATEMENT" /\ n.op = "NULL_EXPRESSION"
                   THEN <<>> ELSE <<Frame(body[item])>>
  /\ item' = item + 1
  /\ UNCHANGED <<input, code, ids, status>>

\* A body without a return statement gets one that returns 0.
Finish ==
  /\ status = "running" /\ stack = <<>>
  /\ item > Len(body)
  /\ status' = "done"
  /\ IF hadReturn
     THEN UNCHANGED <<code, nextId>>
     ELSE /\ Emit(<<ir_instruction_copy(TempOp(nextId), ConstOp(0)),
                    ir_instruction_return(TempOp(nextId))>>)
          /\ nextId' = nextId + 1
  /\ UNCHANGED <<input, nextLabel, varTemp, stack, loop>>

-----------------------------------------------------------------------------
(* generate_statement, on a return *)

CallReturned ==
  /\ At("STATEMENT", 0)
  /\ Call(Here.left, NoLocals)
  /\ UNCHANGED <<input, code, ids, loop, status>>

EmitReturn ==
  /\ At("STATEMENT", 1)
  /\ Emit(<<ir_instruction_return(Top.results[1])>>)
  /\ Return(NullOp)
  /\ UNCHANGED <<input, ids, loop, status>>

-----------------------------------------------------------------------------
(* generate_expression: leaves *)

IntLiteral ==
  /\ At("INT_LITERAL", 0)
  /\ Return(ConstOp(Here.value))
  /\ UNCHANGED <<input, code, ids, loop, status>>

\* ir_temp_from_variable: the variable's temporary, made on its first use.
VarOperand(name) == TempOp(IF name \in DOMAIN varTemp THEN varTemp[name] ELSE nextId)
TouchVariable(name) ==
  IF name \in DOMAIN varTemp
  THEN UNCHANGED <<varTemp, nextId>>
  ELSE /\ varTemp' = [x \in DOMAIN varTemp \cup {name} |->
                        IF x = name THEN nextId ELSE varTemp[x]]
       /\ nextId' = nextId + 1

Variable ==
  /\ At("VARIABLE", 0)
  /\ Return(VarOperand(Here.name))
  /\ TouchVariable(Here.name)
  /\ UNCHANGED <<input, code, nextLabel, loop, status>>

-----------------------------------------------------------------------------
(* generate_expression: operators *)

\* The switches choose the IR instruction with the operator's own name.
IRType(op) == op

CallOperand ==
  /\ At("UNARY", 0)
  /\ Call(Here.left, NoLocals)
  /\ UNCHANGED <<input, code, ids, loop, status>>

\* Mutant of EmitUnary: the operand's temporary is overwritten in place.
EmitUnaryInPlace ==
  /\ At("UNARY", 1)
  /\ LET op   == Top.results[1]
         dest == IF op.type = "TEMP" THEN op.value ELSE nextId
     IN /\ Emit(<<ir_instruction_unary(IRType(Here.op), dest, op)>>)
        /\ Return(TempOp(dest))
  /\ nextId' = nextId + 1
  /\ UNCHANGED <<input, nextLabel, varTemp, loop, status>>

EmitUnary ==
  /\ At("UNARY", 1)
  /\ Emit(<<ir_instruction_unary(IRType(Here.op), nextId, Top.results[1])>>)
  /\ Return(TempOp(nextId))
  /\ nextId' = nextId + 1
  /\ UNCHANGED <<input, nextLabel, varTemp, loop, status>>

\* handle_binary_simple and handle_binary_relational
CallLeft ==
  /\ At("BINARY", 0) /\ Here.op \notin ShortOps
  /\ Call(Here.left, NoLocals)
  /\ UNCHANGED <<input, code, ids, loop, status>>

CallRight ==
  /\ At("BINARY", 1) /\ Here.op \notin ShortOps
  /\ Call(Here.right, NoLocals)
  /\ UNCHANGED <<input, code, ids, loop, status>>

EmitBinary ==
  /\ At("BINARY", 2) /\ Here.op \notin ShortOps
  /\ Emit(<<ir_instruction_binary(IRType(Here.op), nextId, Top.results[1], Top.results[2])>>)
  /\ Return(TempOp(nextId))
  /\ nextId' = nextId + 1
  /\ UNCHANGED <<input, nextLabel, varTemp, loop, status>>

-----------------------------------------------------------------------------
(* handle_binary_short_circuit *)

IsAnd      == Here.op = "LOGICAL_AND"
\* Mutant of JumpType: || jumps like &&.
JumpTypeZero == "JUMP_ZERO"

JumpType   == IF IsAnd THEN "JUMP_ZERO" ELSE "JUMP_NOT_ZERO"
CondPrefix == IF IsAnd THEN "false" ELSE "true"

\* Mutant of ShortCallLeft: the label counter stays where it is.
ShortCallLeftSameLabel ==
  /\ At("BINARY", 0) /\ Here.op \in ShortOps
  /\ Call(Here.left, [temp |-> TempOp(nextId),
                      cond |-> <<CondPrefix, nextLabel>>,
                      end  |-> <<"end", nextLabel + 1>>])
  /\ nextId' = nextId + 1
  /\ UNCHANGED <<input, code, nextLabel, varTemp, loop, status>>

ShortCallLeft ==
  /\ At("BINARY", 0) /\ Here.op \in ShortOps
  /\ Call(Here.left, [temp |-> TempOp(nextId),
                      cond |-> <<CondPrefix, nextLabel>>,
                      end  |-> <<"end", nextLabel + 1>>])
  /\ nextId' = nextId + 1 /\ nextLabel' = nextLabel + 2
  /\ UNCHANGED <<input, code, varTemp, loop, status>>

ShortCallRight ==
  /\ At("BINARY", 1) /\ Here.op \in ShortOps
  /\ Emit(<<ir_instruction_branch_condition(JumpType, Top.results[1], Top.locals.cond)>>)
  /\ Call(Here.right, Top.locals)
  /\ UNCHANGED <<input, ids, loop, status>>

\* Mutant of ShortEnd: the path that jumped leaves the temporary unset.
ShortEndOneCopy ==
  /\ At("BINARY", 2) /\ Here.op \in ShortOps
  /\ LET f == Top.locals IN
       /\ Emit(<<ir_instruction_branch_condition(JumpType, Top.results[2], f.cond),
                 ir_instruction_copy(f.temp, ConstOp(IF IsAnd THEN 1 ELSE 0)),
                 ir_instruction_branch_always(f.end),
                 ir_instruction_label(f.cond),
                 ir_instruction_label(f.end)>>)
       /\ Return(f.temp)
  /\ UNCHANGED <<input, ids, loop, status>>

ShortEnd ==
  /\ At("BINARY", 2) /\ Here.op \in ShortOps
  /\ LET f == Top.locals IN
       /\ Emit(<<ir_instruction_branch_condition(JumpType, Top.results[2], f.cond),
                 ir_instruction_copy(f.temp, ConstOp(IF IsAnd THEN 1 ELSE 0)),
                 ir_instruction_branch_always(f.end),
                 ir_instruction_label(f.cond),
                 ir_instruction_copy(f.temp, ConstOp(IF IsAnd THEN 0 ELSE 1)),
                 ir_instruction_label(f.end)>>)
       /\ Return(f.temp)
  /\ UNCHANGED <<input, ids, loop, status>>

-----------------------------------------------------------------------------
(* generate_expression: declarations and assignments *)

\* Without an initializer nothing is generated and a dummy is returned.
DeclareOnly ==
  /\ At("DECLARATION", 0) /\ Here.left = NULL
  /\ Return(TempOp(-999))
  /\ UNCHANGED <<input, code, ids, loop, status>>

CallInit ==
  /\ At("DECLARATION", 0) /\ Here.left # NULL
  /\ Call(Here.left, [NoLocals EXCEPT !.temp = VarOperand(Here.name)])
  /\ TouchVariable(Here.name)
  /\ UNCHANGED <<input, code, nextLabel, loop, status>>

EmitInit ==
  /\ At("DECLARATION", 1)
  /\ Emit(<<ir_instruction_copy(Top.locals.temp, Top.results[1])>>)
  /\ Return(TempOp(0))
  /\ UNCHANGED <<input, ids, loop, status>>

CallLhs ==
  /\ At("ASSIGNMENT", 0)
  /\ IF ast[Here.left].type = "VARIABLE"
     THEN Call(Here.left, NoLocals) /\ UNCHANGED status
     ELSE status' = "aborted" /\ UNCHANGED stack
  /\ UNCHANGED <<input, code, ids, loop>>

CallRhs ==
  /\ At("ASSIGNMENT", 1)
  /\ Call(Here.right, NoLocals)
  /\ UNCHANGED <<input, code, ids, loop, status>>

EmitAssignment ==
  /\ At("ASSIGNMENT", 2)
  /\ Emit(<<ir_instruction_copy(Top.results[1], Top.results[2])>>)
  /\ Return(Top.results[1])
  /\ UNCHANGED <<input, ids, loop, status>>

-----------------------------------------------------------------------------
Next ==
  \/ GenerateItem \/ Finish
  \/ CallReturned \/ EmitReturn
  \/ IntLiteral \/ Variable
  \/ CallOperand \/ EmitUnary
  \/ CallLeft \/ CallRight \/ EmitBinary
  \/ ShortCallLeft \/ ShortCallRight \/ ShortEnd
  \/ DeclareOnly \/ CallInit \/ EmitInit
  \/ CallLhs \/ CallRhs \/ EmitAssignment

Spec == Init /\ [][Next]_vars

-----------------------------------------------------------------------------
(* Properties *)

Names == {ast[n].name : n \in DOMAIN ast}

OperandOK(op) == op.type \in {"NULL", "TEMP", "CONST"} /\ op.value \in Int /\ op.label = NoLabel

\* The types of the emitted instructions and of the call stack.
TypeOK ==
  /\ nextId \in Nat /\ nextLabel \in Nat
  /\ DOMAIN varTemp \subseteq Names /\ \A x \in DOMAIN varTemp : varTemp[x] \in 0..nextId-1
  /\ item \in 1..Len(body)+1 /\ hadReturn \in BOOLEAN
  /\ status \in {"running", "done", "aborted"}
  /\ \A k \in DOMAIN stack :
       /\ stack[k].node \in DOMAIN ast
       /\ Len(stack[k].results) <= 2
       /\ \A j \in DOMAIN stack[k].results : OperandOK(stack[k].results[j])
  /\ \A p \in DOMAIN code :
       /\ code[p].dest_id \in Nat
       /\ Reads(code[p]) \cup Writes(code[p]) \subseteq 0..nextId-1

\* The temporaries of the variables, and of the short circuits in progress.
VarTemps   == {varTemp[x] : x \in DOMAIN varTemp}
ShortTemps == {stack[k].locals.temp.value : k \in {kk \in DOMAIN stack :
                 ast[stack[kk].node].type = "BINARY" /\ stack[kk].locals # NoLocals}}

\* instruction_generate_id never hands out a temporary twice: two variables
\* never share one, an instruction that computes has a temporary nothing else
\* writes (gen.c overwrites it before it reads its second source), and the
\* temporary of an unfinished short circuit is still unwritten.
FreshTemporaries ==
  /\ \A x, y \in DOMAIN varTemp : varTemp[x] = varTemp[y] => x = y
  /\ \A p \in DOMAIN code : Computes(code[p]) =>
       /\ code[p].dest_id \notin VarTemps
       /\ \A q \in DOMAIN code : q # p => code[p].dest_id \notin Writes(code[q])
  /\ ShortTemps \cap VarTemps = {}
  /\ \A p \in DOMAIN code : Writes(code[p]) \cap ShortTemps = {}

\* The labels of the short circuits in progress, that ShortEnd will define.
PendingLabels == UNION {{stack[k].locals.cond, stack[k].locals.end} : k \in DOMAIN stack}

\* Every label is defined at most once; a jump's label is defined after the
\* jump, or belongs to a short circuit still in progress.
LabelsResolve ==
  /\ \A p, q \in DOMAIN code : Defines(code[p]) \cap Defines(code[q]) # {} => p = q
  /\ \A p \in DOMAIN code : \A l \in Target(code[p]) :
       \/ l \in PendingLabels
       \/ \E q \in DOMAIN code : q > p /\ Defines(code[q]) = {l}

\* Definite assignment: assigned[p] holds the temporaries written on every path
\* to instruction p.  The paths into p come from the instruction before it,
\* unless that one leaves, and from the jumps to it.
AllTemps == 0..nextId-1
Leaves(inst) == inst.type \in {"JUMP", "RETURN"}
Entries(p) == {q \in 1..p-1 : \/ q = p-1 /\ ~Leaves(code[q])
                              \/ Target(code[q]) \cap Defines(code[p]) # {}}
AssignedBefore ==
  LET before[p \in 0..Len(code)] ==  \* the sets for the instructions up to p
        IF p = 0 THEN <<>>
        ELSE LET done == before[p-1]
             IN Append(done, IF p = 1 THEN {}
                             ELSE {t \in AllTemps : \A q \in Entries(p) :
                                     t \in done[q] \cup Writes(code[q])})
  IN before[Len(code)]

\* Whatever path is taken, the temporary of a subexpression has been written by
\* the time it is read: no short circuit skips the instruction that sets it.
NoReadBeforeWrite ==
  status = "done" =>
    LET assigned == AssignedBefore
    IN \A p \in DOMAIN code : Reads(code[p]) \subseteq assigned[p] \cup VarTemps

=============================================================================
