-------------------------- MODULE CompilerMeaning --------------------------
(* The compiler against the grammar and the meaning of the C it compiles. *)
EXTENDS Compiler, FiniteSets

Gr == INSTANCE Grammar
C  == INSTANCE CSemantics

\* A literal that no int can hold has no value to be faithful to.
Literals(s) == {s[k].literal : k \in {l \in DOMAIN s : s[l].type = "INTEGER_LITERAL"}}
LiteralsFit == \A l \in Literals(tokenArray) : Gr!Number(l) \in Gr!Word

\* On every array of tokens that the lexer delivers, one with errors in it too,
\* the parser ends without an error exactly when the array is of the grammar,
\* which derives it in one way, and has then built that derivation's tree:
\* precedence and associativity of every operator, each operand in its place,
\* nothing dropped and nothing shared.
ParsesGrammar ==
  (stage = "parse" /\ parsing # "running") =>
    LET derived == Gr!DeriveProgram(tokenArray)
        clean   == parsing = "done" /\ ~parserError
    IN /\ clean <=> derived # {}
       /\ clean /\ LiteralsFit =>
            \A items \in derived : [ast |-> parsedTree, body |-> body] = Gr!Program(items)
       /\ Cardinality(derived) <= 1

Decided  == Ended \/ (stage = "ir" /\ generated = 1)
Accepted == stage \in {"ir", "machine ir"}

\* From the text alone: a sequence of lexemes, of the grammar, within the scoping
\* rules as far as the analysis looks.  Exactly such a text is compiled, through
\* every combination of errors of the three stages.
AcceptsTheLanguage ==
  Decided =>
    LET read == L!Tokenize(L!Text)
    IN Accepted <=> /\ ~read.open /\ ~read.bad
                    /\ Gr!DeriveProgram(read.tokens) # {}
                    /\ \A k \in S!Looked : S!ItemLegal(k)

\* The epilogue stands before the last instruction, so only a return that is the
\* last item leaves through it.
ReturnsLast == \A k \in DOMAIN body : Gr!IsReturn(parsedTree[body[k]]) => k = Len(body)

\* The whole way from characters to the processor: where C defines what a program
\* returns, the function that the emitted lines assemble to returns that.
CompilesAsC ==
  (B!Printed /\ AllLooked /\ ReturnsLast) =>
    LET meaning == C!CMeaning(parsedTree, body)
    IN meaning # <<>> => \A junk \in Junk : B!AsmOutcome(asm, junk) = meaning
=============================================================================
