------------------------------ MODULE Semantic ------------------------------
(***************************************************************************)
(* src/semantic/semantic.c: each variable of the tree is given a unique    *)
(* name, in place, and uses without a declaration, second declarations and *)
(* assignments to something other than a variable are rejected.            *)
(*                                                                         *)
(* A name is the sequence of an identifier and the "_sa<n>" suffixes that  *)
(* end it, so the unique name of x is <<"x", n>>, and so is an identifier  *)
(* the programmer spelled x_sa<n>.  The recursion is a list of the nodes   *)
(* still to visit: every call's answer only goes into the conjunction ok.  *)
(***************************************************************************)
EXTENDS AST

CONSTANT Inputs  \* the trees to analyse: records with fields ast and body

\* They are what the parser leaves of a program without an error.
ASSUME SemanticAssumption == \A p \in Inputs : IsTree(p.ast, p.body)

VARIABLES
  source, body,  \* the tree as parsed, and main_fn's body
  ast,           \* the tree, renamed in place
  variableMap,   \* from a source name to its unique name
  counter,       \* the static counter of generate_unique_name
  item,          \* i in semantic_analysis
  todo,          \* the nodes to visit, first the next one
  ok, status     \* the answer, and "running" or "done"

input == <<source, body>>
names == <<ast, variableMap, counter>>
vars  == <<input, names, item, todo, ok, status>>

Fresh ==
  /\ variableMap = <<>> /\ counter = 0
  /\ item = 1 /\ todo = <<>>
  /\ ok = TRUE /\ status = "running"

Init ==
  /\ \E p \in Inputs : source = p.ast /\ body = p.body
  /\ ast = source
  /\ Fresh

-----------------------------------------------------------------------------
(* semantic_analysis *)

\* The cases of its switch: an item of another type is not looked at.
Resolves(type) == type \in {"DECLARATION", "STATEMENT", "ASSIGNMENT", "BINARY"}

TakeItem ==
  /\ status = "running" /\ todo = <<>>
  /\ item <= Len(body)
  /\ todo' = IF Resolves(ast[body[item]].type) THEN <<body[item]>> ELSE <<>>
  /\ item' = item + 1
  /\ UNCHANGED <<input, names, ok, status>>

Finish ==
  /\ status = "running" /\ todo = <<>>
  /\ item > Len(body)
  /\ status' = "done"
  /\ UNCHANGED <<input, names, item, todo, ok>>

-----------------------------------------------------------------------------
(* resolve_statement, resolve_declaration and resolve_expression *)

Visits(type) == /\ status = "running" /\ todo # <<>>
                /\ ast[Head(todo)].type = type
Here == ast[Head(todo)]

\* Leave the node for the nodes ns below it; the answer so far is r.
Answer(ns, r) == /\ todo' = ns \o Tail(todo)
                 /\ ok' = (ok /\ r)
                 /\ UNCHANGED <<input, item, status>>

ResolveStatement ==
  /\ Visits("STATEMENT")
  /\ Answer(IF Here.op = "NULL_EXPRESSION" THEN <<>> ELSE <<Here.left>>, TRUE)
  /\ UNCHANGED names

\* A second declaration fails and leaves its initializer alone.
DuplicateDeclaration ==
  /\ Visits("DECLARATION")
  /\ Here.name \in DOMAIN variableMap
  /\ Answer(<<>>, FALSE)
  /\ UNCHANGED names

generate_unique_name(name) == Append(name, counter)

\* The name is in the map before the initializer is resolved.
ResolveDeclaration ==
  /\ Visits("DECLARATION")
  /\ Here.name \notin DOMAIN variableMap
  /\ LET name   == Here.name
         unique == generate_unique_name(name)
     IN /\ variableMap' = [x \in DOMAIN variableMap \cup {name} |->
                             IF x = name THEN unique ELSE variableMap[x]]
        /\ ast' = [ast EXCEPT ![Head(todo)].name = unique]
  /\ counter' = counter + 1
  /\ Answer(IF Here.left = NULL THEN <<>> ELSE <<Here.left>>, TRUE)

\* Mutant of InvalidLvalue: the type of the left side is not looked at.
InvalidLvalueResolved ==
  /\ Visits("ASSIGNMENT")
  /\ ast[Here.left].type # "VARIABLE"
  /\ Answer(<<Here.left, Here.right>>, TRUE)
  /\ UNCHANGED names

InvalidLvalue ==
  /\ Visits("ASSIGNMENT")
  /\ ast[Here.left].type # "VARIABLE"
  /\ Answer(<<>>, FALSE)
  /\ UNCHANGED names

ResolveAssignment ==
  /\ Visits("ASSIGNMENT")
  /\ ast[Here.left].type = "VARIABLE"
  /\ Answer(<<Here.left, Here.right>>, TRUE)
  /\ UNCHANGED names

\* Mutant of ResolveVariable: the use keeps its source name.
ResolveVariableForgets ==
  /\ Visits("VARIABLE")
  /\ Here.name \in DOMAIN variableMap
  /\ Answer(<<>>, TRUE)
  /\ UNCHANGED names

ResolveVariable ==
  /\ Visits("VARIABLE")
  /\ Here.name \in DOMAIN variableMap
  /\ ast' = [ast EXCEPT ![Head(todo)].name = variableMap[@]]
  /\ Answer(<<>>, TRUE)
  /\ UNCHANGED <<variableMap, counter>>

UndeclaredVariable ==
  /\ Visits("VARIABLE")
  /\ Here.name \notin DOMAIN variableMap
  /\ Answer(<<>>, FALSE)
  /\ UNCHANGED names

ResolveUnary ==
  /\ Visits("UNARY")
  /\ Answer(<<Here.left>>, TRUE)
  /\ UNCHANGED names

\* Mutant of ResolveBinary: the right operand is not resolved.
ResolveBinaryLeft ==
  /\ Visits("BINARY")
  /\ Answer(<<Here.left>>, TRUE)
  /\ UNCHANGED names

ResolveBinary ==
  /\ Visits("BINARY")
  /\ Answer(<<Here.left, Here.right>>, TRUE)
  /\ UNCHANGED names

\* Everything else is ok.
ResolveOther ==
  /\ Visits("INT_LITERAL")
  /\ Answer(<<>>, TRUE)
  /\ UNCHANGED names

Next ==
  \/ TakeItem \/ Finish
  \/ ResolveStatement \/ DuplicateDeclaration \/ ResolveDeclaration
  \/ InvalidLvalue \/ ResolveAssignment
  \/ ResolveVariable \/ UndeclaredVariable
  \/ ResolveUnary \/ ResolveBinary \/ ResolveOther

Spec == Init /\ [][Next]_vars

-----------------------------------------------------------------------------
(* The rules of the language, on the tree as it was parsed. *)

Children(n) == {source[n].left, source[n].right} \ {NULL}
Subtree(root) ==
  LET below[n \in DOMAIN source] == {n} \cup UNION {below[c] : c \in Children(n)}
  IN below[root]

Declares(k)       == source[body[k]].type = "DECLARATION"
DeclaredBy(k, x)  == \E j \in 1..k : Declares(j) /\ source[body[j]].name = x

\* Item k declares nothing twice, uses only what is declared by then, and
\* assigns only to variables.
ItemLegal(k) ==
  /\ Declares(k) => ~DeclaredBy(k - 1, source[body[k]].name)
  /\ \A n \in Subtree(body[k]) :
       /\ source[n].type = "VARIABLE"   => DeclaredBy(k, source[n].name)
       /\ source[n].type = "ASSIGNMENT" => source[source[n].left].type = "VARIABLE"

\* The items semantic_analysis looks at.
Looked == {k \in DOMAIN body : Resolves(source[body[k]].type)}

-----------------------------------------------------------------------------
(* Properties *)

Suffixed == [DOMAIN variableMap -> {Append(x, c) : x \in DOMAIN variableMap, c \in 0..counter-1}]

TypeOK ==
  /\ counter \in Nat
  /\ variableMap \in Suffixed
  /\ DOMAIN variableMap \subseteq {source[n].name : n \in DOMAIN source}
  /\ DOMAIN ast = DOMAIN source
  /\ item \in 1..Len(body)+1
  /\ \A k \in DOMAIN todo : todo[k] \in DOMAIN ast
  /\ ok \in BOOLEAN /\ status \in {"running", "done"}

\* The single pass, which resolves into the tree it reads and goes on after an
\* error, answers exactly what the scoping rules say of the items it looks at:
\* an early failure hides no later success, and nothing it has renamed is
\* looked up again under its new name.
VerdictSound == status = "done" => (ok <=> \A k \in Looked : ItemLegal(k))

\* The declarations and uses of variables in the items looked at.
Named == {n \in UNION {Subtree(body[k]) : k \in Looked} :
            source[n].type \in {"DECLARATION", "VARIABLE"}}

\* In an accepted program two occurrences have the same name after the pass
\* exactly when they had the same name before, also when the programmer spelled
\* an identifier like a generated one.
RenamingFaithful ==
  (status = "done" /\ ok) =>
    \A m, n \in Named : ast[m].name = ast[n].name <=> source[m].name = source[n].name

\* semantic.h: "Returns true if no errors occurred", over the whole body.
AcceptsOnlyLegal == (status = "done" /\ ok) => \A k \in DOMAIN body : ItemLegal(k)

=============================================================================
