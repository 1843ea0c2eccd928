------------------------------ MODULE Compiler ------------------------------
(***************************************************************************)
(* compile in src/driver/driver.c: the stages, each on what the one before *)
(* it has really left.  The text goes in, lines of assembly come out.      *)
(*                                                                         *)
(* What two stages share is one variable here: the lexer's tokens are the  *)
(* parser's input, the tree is renamed where it stands (parsedTree keeps   *)
(* it as the parser left it), the generator's code is the back end's.      *)
(***************************************************************************)
EXTENDS Frontend

CONSTANTS MapSize, Junk  \* as in CodeGen

VARIABLES
  stage,  \* the call that compile is in; "finished" or "exited" after the last
  tree, variableMap, counter, resolved, todo, ok, resolving,                \* Semantic
  code, nextId, nextLabel, varTemp, frames, generated, hadReturn, lowering, \* IRGen
  next, prog, pass, i, offsetMap, nextOffset, j, asm                        \* CodeGen

semantic == <<tree, variableMap, counter, resolved, todo, ok, resolving>>
irgen    == <<code, nextId, nextLabel, varTemp, frames, generated, hadReturn, lowering>>
backend  == <<next, prog, pass, i, offsetMap, nextOffset, j, asm>>
vars     == <<stage, lexer, parser, semantic, irgen, backend>>

S == INSTANCE Semantic WITH Inputs <- {}, source <- parsedTree, ast <- tree,
       item <- resolved, status <- resolving
G == INSTANCE IRGen WITH Inputs <- {}, ast <- tree, stack <- frames,
       item <- generated, status <- lowering
B == INSTANCE CodeGen WITH Programs <- {}, IRPrograms <- {}, irCode <- code, at <- next,
       printed <- j, lines <- asm

Init ==
  /\ stage = "lex"
  /\ L!Init
  /\ P!Fresh
  /\ S!Fresh /\ tree = <<>>
  /\ G!Fresh /\ B!NothingSelected

-----------------------------------------------------------------------------

Goto(s) == stage' = s

Lex == stage = "lex" /\ L!Next /\ UNCHANGED <<stage, parser, semantic, irgen, backend>>

\* Also after an error.
StartParser ==
  /\ stage = "lex" /\ lexing = "done"
  /\ Goto("parse")
  /\ UNCHANGED <<lexer, parser, semantic, irgen, backend>>

Parse == stage = "parse" /\ P!Next /\ UNCHANGED <<stage, lexer, semantic, irgen, backend>>

\* Also after an error.
StartSemantic ==
  /\ stage = "parse" /\ parsing = "done"
  /\ tree' = parsedTree
  /\ Goto("semantic")
  /\ UNCHANGED <<lexer, parser, variableMap, counter, resolved, todo, ok, resolving, irgen, backend>>

\* There is no tree, or the next node, or the left side that it is about to look
\* at, is one that the parser could not make.
ReadsNull ==
  parsed => /\ todo # <<>>
            /\ Head(todo) # P!NULL => /\ S!Visits("ASSIGNMENT")
                                      /\ S!Here.left = P!NULL

Resolve ==
  /\ stage = "semantic" /\ ~ReadsNull /\ S!Next
  /\ UNCHANGED <<stage, lexer, parser, irgen, backend>>

SemanticCrash ==
  /\ stage = "semantic" /\ ReadsNull
  /\ Goto("crashed")
  /\ UNCHANGED <<lexer, parser, semantic, irgen, backend>>

HadError == lexerError \/ parserError \/ ~ok

ExitWithErrors ==
  /\ stage = "semantic" /\ resolving = "done" /\ HadError
  /\ Goto("exited")
  /\ UNCHANGED <<lexer, parser, semantic, irgen, backend>>

\* Mutant of StartIR: an error of the lexer or the parser is forgotten.
StartIRAnyway ==
  /\ stage = "semantic" /\ resolving = "done" /\ ok
  /\ Goto("ir")
  /\ UNCHANGED <<lexer, parser, semantic, irgen, backend>>

StartIR ==
  /\ stage = "semantic" /\ resolving = "done" /\ ~HadError
  /\ Goto("ir")
  /\ UNCHANGED <<lexer, parser, semantic, irgen, backend>>

GenerateIR == stage = "ir" /\ G!Next /\ UNCHANGED <<stage, lexer, parser, variableMap, counter, resolved, todo, ok,
                                            resolving, backend>>

StartBackend ==
  /\ stage = "ir" /\ lowering = "done"
  /\ Goto("machine ir")
  /\ UNCHANGED <<lexer, parser, semantic, irgen, backend>>

GenerateMachineIR ==
  /\ stage = "machine ir" /\ B!CodeGenNext
  /\ UNCHANGED <<stage, lexer, parser, semantic, irgen>>

\* A failed ASSERT of the generator exits at once, without the cleanup.
Ended == \/ lexing = "undefined" \/ parsing = "undefined" \/ lowering = "aborted"
         \/ pass = "undefined" \/ B!Printed
         \/ stage \in {"crashed", "exited"}

Next ==
  \/ Lex \/ StartParser \/ Parse \/ StartSemantic
  \/ Resolve \/ SemanticCrash \/ ExitWithErrors \/ StartIR
  \/ GenerateIR \/ StartBackend \/ GenerateMachineIR

Spec     == Init /\ [][Next]_vars
\* One thread runs through the stages.
FairSpec == Spec /\ WF_vars(Next)

-----------------------------------------------------------------------------
(* The cleanup: ast_free_node, as parser_deinit calls it on the whole tree. *)

ast_free_node ==
  LET freed[n \in 0..Len(parsedTree)] ==
        IF n = P!NULL THEN <<>>
        ELSE freed[parsedTree[n].left] \o freed[parsedTree[n].right] \o <<n>>
  IN FlattenSeq([k \in DOMAIN body |-> freed[body[k]]])

-----------------------------------------------------------------------------
(* Properties *)

\* What the semantic analysis and the generator take for granted, as the theorems
\* about them do: after a parse without an error each is handed a tree, whose
\* nodes all have their children and one parent at most.
HandsOverTrees ==
  /\ (stage = "semantic" /\ ~lexerError /\ ~parserError) => P!IsTree(parsedTree, body)
  /\ stage = "ir" => P!IsTree(tree, body)

\* What each stage keeps, while it runs, and what it is handed.
TypeOK ==
  /\ stage = "lex" => L!TypeOK
  /\ stage = "parse" => P!TypeOK
  /\ (stage = "semantic" /\ ~parserError) => S!TypeOK
  /\ stage = "ir" => G!TypeOK
  /\ stage \in {"lex", "parse", "semantic", "ir", "machine ir", "crashed", "exited"}
  /\ HandsOverTrees

\* The lexer is right about every text.
TokenizesByLongestMatch == stage = "lex" => L!TokenizesByLongestMatch

\* The tree is a tree even after an error: no node hangs in two places, so the
\* cleanup frees none twice; and when there was no error it frees them all.
FreesEachNodeOnce ==
  (parsed /\ stage \in {"crashed", "semantic"}) =>
    /\ IsInjective(ast_free_node)
    /\ ~parserError => Len(ast_free_node) = Len(parsedTree)

\* A text that the lexer has an error in never looks whole to the parser, which
\* does not ask; and no stage is led astray, past an array or through a null
\* pointer, but after an error has been reported.
ErrorsAreNotLost ==
  /\ (parsing # "running" /\ lexerError) => parserError
  /\ (parsing = "undefined" \/ stage = "crashed") => parserError

AllLooked == S!Looked = DOMAIN body

\* What the semantic analysis lets pass, the generator can translate.
AcceptedIsGenerated == (lowering = "aborted") => ~AllLooked

\* Every text is compiled or given up.
Terminates == <>Ended
=============================================================================
