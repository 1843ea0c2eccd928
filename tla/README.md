# unebcc in TLA+

`unebcc` is a small C compiler (one `int main(void)`, int variables, unary, binary and assignment
operators, no control statements) that emits x86-64 assembly. This directory holds TLA+ modules
that model its core, TLC configurations that check them on small instances, and proofs that TLAPS
checks for every instance.

The modules are translated from the C source, not from its comments. Where a comment or a header
promises something the code does not do, the disagreement is a run that is expected to fail, or it
is listed with these (section 6).

## 1. The system

`main` (src/main.c) and `driver_start` (src/driver/driver.c) run one thread through a pipeline,
with a file between the stages that are separate programs:

    args_parse -> gcc -E (x.c -> x.i) -> lex -> parse -> semantic_analysis
               -> ir_generate -> x86_64_create_prog (create_inst, then x86_64_regalloc)
               -> emitter (x.s) -> gcc (x.s -> x)

| Component | Code | State it keeps | Operations | What makes it correct |
|---|---|---|---|---|
| string map | utils/stringmap | entries, size, len; iterator | put, get, has, iterate, expand | a get returns the last put; probes end; the table never fills |
| growable array | utils/array | elements, capacity, the block | push, insert, grow | contents are a sequence; no store outside of the block or through a pointer into an old one |
| lexer | lexer/lexer, lexer/token | position, tokens, error flag | scan_next_token, the loops for spaces, comments, numbers, words | longest lexeme; every bad text flagged |
| parser | parser/parser | token index, tree, error flag | the recursive descent, precedence climbing | the tree is the grammar's; ends on any input; an error is never lost |
| syntax tree | parser/ast | nodes on the heap | constructors, print, free | no node hangs in two places |
| semantic analysis | semantic/semantic | variable map, name counter; renames the tree in place | resolve_* | verdict = scoping rules; renaming consistent |
| IR generation | ir/ir | instruction array, variable-to-temporary map | generate_* | the IR returns what the C program returns |
| IR instructions | ir/instruction | the temporary and the label counters | constructors, print | temporaries and labels fresh |
| instruction selection | backend/x86_64/gen, program, x86_64 | array of x86 instructions | create_inst and its handlers | each IR instruction is simulated |
| register allocation | backend/x86_64/regalloc | pseudo_offset_map, next_stack_offset; rewrites the array it walks | regalloc, stackalloc, fix_invalid_* | slots distinct and inside the frame; only legal instructions; meaning kept |
| assembly emitter | backend/x86_64/emitter, tables of x86_64 | - | one or more lines for an instruction | names, sizes and the expanded prologue do what the instruction means |
| command line | main, args | available and given flags, file name | args_parse | what is started is what the line asks for |
| driver, files | driver, preprocessor, assembler, utils/file | temporary files, error flags | the stages, the cleanup, their exits | an executable if and only if the call succeeds; no stage reads what is freed |

Interaction is by call and by shared data. The driver hands each stage the data of the one before
and calls it even after an error: the parser reads the lexer's token array, whose last element
must be the end of the file; the semantic pass owns a string map and rewrites the parser's tree
where it stands, with names that the tokens or the pass own; IR generation reads that tree and
owns another string map, keyed by the rewritten names; instruction selection reads the IR array
and fills the growable array that the allocation passes insert into while they walk it; the
emitter reads the program, whose labels are the IR's. The two calls of gcc and the directory are
the environment.

There is no concurrency. What is hard here is *protocol over long sequences*: an open-addressing
table whose probe loop has no exit but an empty slot; an in-place renaming whose output could be
looked up again as input; temporaries and labels that must be fresh across a recursion; definite
assignment through short circuits; two-address instructions that write the destination before the
second source is read; five rewriting passes of which each must not bring back what an earlier one
removed, with scratch registers (r10, r11, cx, ax, dx, the flags) that must be dead wherever a
pass uses them, in an array that moves when it grows; a recursive descent that goes on after an
error with null pointers in its hands; error flags of three stages that only together are the
verdict; a cleanup in the middle of the pipeline; and files of earlier calls. `PROJECT.json` lists
each at its line under `hazards`.

## 2. The modules

| Module | What it is |
|---|---|
| `KeyValueMap` | abstract: what stringmap.h promises, a partial function with calls and answers |
| `StringMap` | stringmap.c, one step per iteration of each of its loops; implements `KeyValueMap` |
| `StringMap_proofs` | its theorems, that it implements `KeyValueMap` among them |
| `Tokens` | token types, keywords, the token record |
| `Lexer` | lexer.c, one step per iteration of its loops, against the rule of the longest lexeme |
| `Parser` | parser.c, one step between two inner calls of the recursive descent |
| `Grammar` | the language as sets of derivations, which `ParsesGrammar` compares the parser with |
| `AST`, `Trees` | the node heap; building trees for the model checker |
| `Semantic` | semantic.c |
| `Semantic_proofs` | its theorems |
| `IR` | IR instructions and operands, and which temporaries each reads and writes |
| `Word` | two's-complement words of `WordBits` bits: wrap, C division, shifts, bit operators |
| `IRMachine`, `CSemantics` | reference meaning of an IR program and of a C program |
| `IRGen` | ir.c |
| `IRGen_proofs` | its theorems |
| `X86`, `X86Machine` | x86 instructions, their legal operand forms; the processor that runs them |
| `Gen` | create_inst and its handlers, as pure operators |
| `RegAlloc` | regalloc.c, one step per loop iteration |
| `Emitter` | emitter.c and the name tables of x86_64.c |
| `AsmMachine` | what the assembler and the processor make of the lines, with rsp, rbp and a stack in memory |
| `CodeGen` | composition of `Gen`, `RegAlloc`, `Emitter` and the machines |
| `CodeGen_proofs` | the theorems of the back end: of instruction selection on the processor, and of `RegAlloc` |
| `PassArray` | array.h and array.c under the generator and the allocation passes; implements `RegAlloc` |
| `PassArray_proofs` | its theorems, that it implements `RegAlloc` among them |
| `Frontend` | `Lexer` and `Parser` as `compile` in driver.c runs them, the second on the tokens of the first |
| `Frontend_proofs` | what the two keep, by themselves: the lemmas about the lexer, the parser and the free of a tree |
| `Compiler` | compile in driver.c: `Frontend`, then `Semantic`, `IRGen`, `CodeGen`, each on what the one before has left |
| `CompilerMeaning` | `Compiler` against `Grammar` and `CSemantics` |
| `Compiler_proofs` | the theorems of the stages in sequence, the lexer's and the parser's among them |
| `Compilation` | abstract: what one call of the compiler promises |
| `Driver` | driver.c with its files and exits, a stage being its answer; implements `Compilation` |
| `CommandLine` | args_parse, main, and the names derived from the file's |
| `Unebcc` | composition of `CommandLine` and `Driver`, from argv to the exit status; implements `Compilation` |
| `Unebcc_proofs` | its theorems and the driver's, that both implement `Compilation` among them |
| `SampleIR` | the IR programs for the back-end runs |
| `MC*` | instances for TLC; `MCIRGen` also compares `IRGen` with `CSemantics` |

Composition: `CodeGen` extends `RegAlloc` and takes over its variables, so that the very `Next`
that `CodeGen_proofs` proves about is the one that runs after instruction selection; the programs
it allocates are then the selected ones, and `Programs` is empty. `Compiler`
instantiates all five stages with its own variables and makes what two of them share one variable: the
lexer's tokens *are* the parser's input, the generator's code *is* the back end's. `StringMap`
instantiates `KeyValueMap` with a refinement mapping. `Semantic` and `IRGen` use a TLA+ function
where the code holds a string map; `StringMap` implementing `KeyValueMap` is what justifies it.
All modules but `PassArray` use a sequence where the code holds a growable array; `PassArray`
implementing `RegAlloc` is what justifies it at the one place where an array is walked and
inserted into at once. `Driver` takes the stages' answers from a set of units; which answers go
together is what `Compiler` finds out: a text with a lexical error is never whole to the parser,
and only a tree with errors can crash the semantic analysis (`ErrorsAreNotLost`).

### State and actions against the code

*StringMap.* `entries`, `size`, `len` are the struct; `newEntries` and `i` the locals of
`expand_string_map`; `index`, `startIndex`, `wrapped` those of the probe loops; `nextIndex` is the
iterator. `pc` names the loop in progress. `call` and `result` stand for the C call and what it
returned. `CallPut` is `string_map_put` up to its first loop; `PutInsert`, `PutUpdate` and
`PutAdvance` are the outcomes of one iteration of `entry_put_unchecked`. The code increments `len`
on an update as on an insertion, and so does the model. FNV-1a is an arbitrary function `Hash`.

*Semantic.* The recursion of `resolve_expression` only conjoins the answers of its calls, so the
calls in progress are a list `todo` of nodes to visit. `generate_unique_name` is modelled by what
the formatting does: a name is an identifier with its `_sa<n>` suffixes, so an identifier that the
programmer spelled `x_sa0` *equals* the unique name of `x` when the counter is 0. Collisions of
the code's naming scheme are therefore states of the model.

*IRGen.* `stack` is the C call stack of `generate_expression`. The actions `CallX` run a call to
its next inner call, `EmitX` from its last inner call to its return. `instruction_generate_id` and
`instruction_generate_label` are the counters `nextId`, `nextLabel`. The failed ASSERT on an
assignment to a non-variable is the status `"aborted"`.

*RegAlloc.* `pass` is the loop in progress and `i` its index (from 1). `MapInstruction` is one
iteration of `regalloc`; it maps the destination before the source, as the code does.
`MapOutOfBounds` is the read beyond `pseudo_offset_map`: the model stops there, because C says
nothing of what follows. `StackAlloc` is `stackalloc` with its early return for an empty frame.
`FixX` is one iteration of `fix_invalid_x`: it replaces the instruction at `i` and then moves on
by one, so that the loop visits what it has just inserted, as in the code.

*CodeGen.* `CreateInst` is one iteration of `x86_64_create_prog`, `EmitInstruction` one of
`x86_64_emit`.

*Lexer.* `nextPos` is the cursor, `startPos` the start of the number or word in progress, `place`
the loop that is running. A comment that no newline ends runs past the buffer: status
`"undefined"`.

*Parser.* `stack` is the C call stack; a frame's `at` is the call it will go on after. `expect`
consumes its token also when it does not match. A failed factor returns the null pointer and its
callers go on, as in the code, so trees with holes are states of the model; a token index past the
array is `"undefined"`.

*PassArray.* One step is one statement of a macro: the test and `realloc`, the `memmove`, the
store, the count. `block` names the memory that the array is in, and a store through a pointer
carries the block it was taken from. `realloc` leaves the block or moves it, at every growth.

*Compiler.* `stage` is the call that `compile` is in. `SemanticCrash` is the null pointer that the
semantic analysis reads when the parser has left no tree, or a hole where it looks.
`ast_free_node` is the order in which the cleanup frees the nodes.

*Driver.* `place` is the next call of `driver_start`; `files` the contents of `name.c`, `name.i`,
`name.s` and `name`; `live` the data that has not been freed. Every early exit goes through
`Cleanup`, as in the code, except a failed ASSERT (`Abort`) and a crash.

*CommandLine.* `i` walks argv, the first two characters of every argument are skipped unseen, and
a flag's value is taken from the next place, which for the last argument is NULL. An argument
`--print=ir`, the form that args.h and the help text document, is no flag to `args_parse`, nor to
the model.

### Abstractions

Values are words of a few bits instead of 32. Characters are strings of one letter and a text is a
sequence of them, without a zero; an argument of the command line is a sequence of words and
punctuation, where a word that the code only compares counts as one. Token positions, error texts,
printing and white space in the output are left out. `atoi` is what glibc makes of it: the number
cut to an int, here of `WordBits` bits. The temporary files' names are their extensions. What
`remove` does with the freed name that `file_remove` passes to it is left open by C, so the `.i`
file may go or stay. A unary x86 instruction's operand shares its bytes with
`binary.dst`, so it is `dst` in the model; the bytes that a constructor leaves alone (`binary.src`
of a unary instruction, which `fix_invalid_addr_addr` reads) are modelled as the zeroes that gcc
puts there. `X86Machine`, `IRMachine` and `CSemantics` do not model code of the compiler: they
give the instruction sets and the source language their meaning. A jump in both machines seeks
forward only, which suffices because the generator never jumps back (`LabelsResolve` checks that).
`CSemantics` gives no meaning to a program whose behaviour C leaves undefined (overflow, division
by zero, a shift out of range, an unset variable, conflicting unsequenced accesses), and
`MeaningPreserved` says nothing of such a program. The two machines do define these cases, as the
processor does, so the back-end properties cover them too.

## 3. Runs

| Run | Instance | Question |
|---|---|---|
| `string_map` | 4 keys, 2 values, up to 5 puts | do the loops stay in bounds and end; does the table implement the map |
| `semantic` | 798 bodies | is the verdict that of the scoping rules; is the renaming a bijection |
| `semantic_skips` | same bodies | *fails*: are all errors found |
| `ir_gen` | 2184 programs, 4-bit words | does the IR return what the C program returns |
| `reg_alloc` | the code of 431 IR programs, map of 5 | distinct slots, frame, legality |
| `reg_alloc_returns` | short circuits, and a body with two returns | *fails*: is the frame taken down before every return |
| `reg_alloc_many` | up to 6 temporaries, map of 5 | *fails*: is the map big enough |
| `code_gen` | 943 IR programs, 4-bit words, map of 4 | does every step down to the text keep the program's meaning |
| `pass_array` | the code of IR programs that grow the array several times, map of 4 | do the passes do to a growing array what they do to a sequence |
| `compiler` | about 13700 texts, 6-bit words, map of 6 | is a text accepted exactly when it is of the language, and does it then return what C says |
| `unebcc` | command lines up to 3 arguments, all units, all files of earlier calls | does the call do what it promises |
| `unebcc_stale` | two command lines | *fails*: is it the named file that is compiled |

The properties of each:

* `TypeOK` everywhere: one type invariant for each module. In `StringMap` it holds the array
  bounds the C code never checks.
* `RoomLeft`: `entry_put_unchecked` leaves its loop on a new key only by finding an empty slot.
  There always is one.
* `ChainsUnbroken`: a stored key is reachable from its home slot over occupied slots, in the live
  table and in a half-built one.
* `ExpansionFaithful`: the half-built table holds exactly the entries before `i`.
* `ImplementsMap`: refinement of `KeyValueMap`; a `get` may answer only after the loop really
  found the key or an empty slot.
* `CallsReturn`: every call returns.
* `VerdictSound`: on the items that the pass looks at, the answer is exactly that of the scoping
  rules stated on the *unmodified* tree. A single in-place pass that looked up an already renamed
  name would break it.
* `RenamingFaithful`: two occurrences have one name after the pass iff they had one name before.
* `FreshTemporaries`, `LabelsResolve`: across the whole recursion, with short circuits in
  progress.
* `NoReadBeforeWrite`: definite assignment on every path, except for C variables without an
  initializer.
* `MeaningPreserved`: IR against C, for each word an unwritten temporary may hold.
* `SlotsDistinct`, `OperandsPlaced`, `FrameCovers`: the slot map, what the code says of it, and
  the frame around it.
* `AllLegal`: only operand forms the assembler has. It is about forms: an immediate shift count of
  more than 8 bits, which the assembler refuses, counts as legal.
* `EpilogueBeforeReturns`: holds for a body with one return at its end, fails with two.
* `PrefixSimulates`: after each `create_inst`, x86 memory and control equal the IR machine's.
* `RewritesPreserveMeaning`: after each single iteration of each allocation pass, the
  half-rewritten program still returns what the IR returns.
* `AssemblyKeepsMeaning`: the lines of text, assembled and called, return what the IR returns:
  register names and sizes, the expanded prologue and epilogue, slots inside the frame, the
  caller's rsp and rbp restored.
* `ImplementsRegAlloc`: `PassArray` refines `RegAlloc`, wherever `realloc` puts the block.
* `TokenizesByLongestMatch`: the lexer cuts every text where the rule of the longest lexeme does,
  flags exactly the bad ones, and runs past the buffer exactly on an unended comment.
* `ParsesGrammar`: the parser ends without an error exactly on the token sequences the grammar
  derives, and has built the derivation's tree.
* `FreesEachNodeOnce`: after any errors the tree is a tree, so the cleanup frees no node twice.
* `ErrorsAreNotLost`: a lexical error always makes a parse error, and no stage crashes or reads
  past an array but after a reported error.
* `AcceptsTheLanguage`: through all combinations of errors of three stages, exactly the texts that
  are lexemes, of the grammar and within the scoping rules (as far as the analysis looks) get to
  code generation.
* `AcceptedIsGenerated`: what the analysis accepts, the generator can translate.
* `CompilesAsC`: from characters to the processor, a program returns what C says.
* `ParsesLine`: for a line in any order, when the driver starts and with which file, when memory past
  an argument's end is read, and which flags and values are found. Values are in the place after
  their flag, as the code reads them, not after an equals sign, as args.h has it (section 6). Lines
  with a look-alike of a flag (`a.lex`) are left out: there the code and any sensible reading differ.
* `ReadsLiveMemory`: the cleanup in the middle frees nothing that a later stage points into.
* `AssemblyRemoved`: no call that comes to an exit leaves its `.s` file.
* `KeepsPromise`: `Unebcc` refines `Compilation`: the exit status and the executable tell the
  truth about the line and the program.
* `CompilesTheNamedFile`: fails, see section 6.
* `Terminates`: each walk ends, although the allocation passes insert into the array they walk,
  the array moves, and a malformed factor consumes no token.

### Bounds, and why they are enough

* `MaxPuts = 5`, four keys: `MCHash` puts `k1`, `k2` always and `k3` at sizes 2 and 4 on one home
  slot, in the *last* slot, so probes wrap around onto the home of `k4`. A table goes 2 -> 4 -> 8
  within three puts, and keys that collide at size 4 part at size 8. Updates among the five puts
  inflate `len` and expand a nearly empty table.
* `WordBits = 4`, `ByteBits = 3`: a set instruction writes part of a word, so that a stale upper
  bit is visible; both signs, the most negative word and its division by -1 exist; shift counts
  reach past the word and are masked as the processor does.
* Program families: every operator on every combination of operand kinds; every pair of operators
  in sequence in the back end (what one leaves in ax, dx, cx and the flags meets every other);
  nesting up to three for operators that jump or write. Each handler looks at one instruction or
  one node and its operands' kinds only, so deeper nesting repeats these contexts.
* `MapSize` 5 or 4 for 1024: programs that just fill the map and programs that exceed it are both
  present.
* `Junk`: an unwritten temporary or slot holds one of two different words. A read of it that
  mattered gives two answers, and the expected one is a single value.
* `Many(n)`: `n` temporaries, for the limit of the map and for arrays that grow often.
* `compiler`: every pair of lexemes (all symbols, keywords, words, numbers, stray characters,
  spaces) and every four of a few that interact (slashes, `=`, `<`, ends of lines, numbers before words); every
  body of up to four of nine kinds of tokens, closed or ending early; a header cut or wrong at
  each place; two operators of every pair and three of every triple of five precedence levels. A
  wrong bound in precedence climbing shows with two operators, a wrong return from it with three.
  Error recovery looks at one token and the null pointers of one level, which bodies of four
  tokens reach in every combination.
* `unebcc`: all lines of up to two of eleven words (`--print=ir` among them), all of three of five words, so a flag's value may
  look like a flag or a file, and a file may stand before, between or after. `KeepsPromise` is for
  calls in which the preprocessor can be started (`GccRuns = TRUE`) and the named file is no `.s`
  file; the run `unebcc_stale` shows why.
* `pass_array`: a capacity of 1, as the code has it, so that the array grows at lengths 1, 2, 4 and
  7; both outcomes of every `realloc`.

The stages of the compiler really stop when they are done, so their runs do not check for
deadlock. `string_map` does: its caller can always look something up.

### Fairness

One weak fairness assumption, on the code's own steps (`Step` in `StringMap`, `Next` elsewhere),
in the specifications whose termination is checked: the program is a single thread that no one
suspends, so a loop that can take its next iteration takes it. In `Unebcc` that includes that gcc
comes back. The *caller* of the map is not assumed to call anything.

### Mutants

Each property of a passing run has a mutant: an operator beside the original, named in a comment
"Mutant of ...", that changes it as a plausible bug would (an index that wraps one slot late, a
count not advanced, a label counter that stays, a destination reused). With the mutant in the
original's place TLC finds the property violated under the run's own configuration. Mutants are
used by nothing else.

## 4. Proofs

TLAPS proves these for every value of the constants. Each rests on an inductive invariant, a
conjunction of named parts; the property itself is seldom inductive.

`StringMap_proofs`, under `ConstantsAssumption` (NULL is no key or value, hashes are naturals,
`MaxPuts` is one):
* `TypeCorrect`: `Spec => []TypeOK`. Every index stays inside its array.
* `TableNeverFull`: `Spec => []RoomLeft`. `TypeOK` alone is not enough, nor is `RoomLeft` by
  itself. The argument: `len` counts updates as well as insertions, so it bounds the occupied
  slots from above; a put expands when `len + 1 >= size`; and the rehash of slot `i` adds one
  occupied slot to the new table while `i` moves past one in the old. The induction takes the
  conjunction `TypeOK /\ RoomLeft`. Lemmas give the cardinality of the occupied slots after an
  update, an insertion and a copy (from FiniteSetTheorems).
* `ChainsNeverBroken` and `ExpansionLosesNothing`: `ChainsUnbroken` and `ExpansionFaithful`. The
  invariant adds `LoopsSound`: what the probe loops have walked over by now is occupied by other
  keys, so that the empty slot one ends at is a place where the key's chain stays whole.
* `TableImplementsMap`: `Spec => ImplementsMap`, the refinement of `KeyValueMap`. Every step is a
  step of the partial function or a stutter; an answer is right because chains are unbroken (a get
  that ends at an empty slot has seen the whole chain) and an expansion changes nothing that is
  stored.

`CodeGen_proofs`, of instruction selection, under `CodeGenAssumption`: what the back end is handed
is a sequence of `Generated` instructions: typed operands, a label in each jump, and no temporary
computed from itself, for `create_inst` writes the destination before it reads the second source.
`GeneratorEmits` (below) proves that `IRGen` emits no other.
* `SelectionSimulates`: `PrefixSimulates`, for every IR program, every width of the word and
  whatever the registers hold at the start. The two machines run sequences, so the invariant is
  about those: `Simulates` relates the IR machine's state (temporaries, the label it looks for, whether
  it has returned or failed) to the processor's. One lemma per form of `create_inst` shows that its
  instructions, run one after another, keep `Simulates` with the IR instruction, whether the program
  runs, looks for a label or has stopped; that running a longer sequence is running the shorter one
  and then the rest (`CpuRunAppended`, by induction on its length) does the rest.

Of register allocation, under `RegAllocAssumption`: `MapSize` is a natural, and the programs are
sequences of `Selected` instructions, the operand forms that leave instruction selection.
`GeneratorSelects` proves of `create_inst` that it produces those forms and no others, for every
IR instruction, so the assumption is the code's own.
* `TypeCorrect`: `Spec => []TypeOK`. The passes index the program inside its bounds while they
  insert into it, and what they build are instructions.
* `SlotsNeverShared`: `Spec => []SlotsDistinct`. The inductive invariant is
  `Typed /\ Slots(offsetMap, nextOffset)`, where `Slots` is `SlotsDistinct` as a predicate of *any*
  map and next offset. It must be stated so because `MapInstruction` applies `WithSlot` twice, and
  the intermediate map is no state of the specification: a lemma shows that one `WithSlot` keeps
  `Slots`.
* `OperandsArePlaced`, `FrameHoldsEverySlot`, `OutputIsLegal`: `OperandsPlaced`, `FrameCovers`,
  `AllLegal`. A pass must not bring back what an earlier one removed, and inserts into the array
  it walks. The invariant `CodeInv` therefore says of *each* instruction which forms it may have:
  those of the passes that are over (`Rank`), before `i` those of this pass too. Each `FixX` has a
  lemma: the instructions it splices in have the form of the passes so far, and those of its own.
* `MapServesItsSize`: if no program names a temporary from `MapSize` on, the map is indexed inside
  its bounds. Without the hypothesis the run `reg_alloc_many` is the counterexample.
* `OneReturnEndsTheFrame`: if a program's only return is its last instruction,
  `EpilogueBeforeReturns`. Without, `reg_alloc_returns`.
* `AllocationKeepsMeaning`: `CodeGenSpec => []RewritesPreserveMeaning`, for IR whose only return, if
  any, is its last instruction (`LastReturn`), of any length and for any width of the word: after
  *each* iteration of the mapping and of the five passes, and after `stackalloc`, the code returns
  what the IR returns. Without the hypothesis `reg_alloc_returns` is the counterexample. The
  invariant `MeaningInv` starts from `Selecting`. While the mapping goes on it keeps the selected
  program `p` that the code comes from: before `i` the slots stand for the pseudo registers of `p`
  (`Origin`), and since no two share a slot, running the one is running the other
  (`RenamingKeeps`). From the frame on it says of each instruction what the passes need (`Sane`),
  and of the whole that some assignment of live scratch registers fits it (`Live`): r10, r11 and cx
  are read only where the instruction just before has loaded them. So what a pass inserts may
  overwrite them (`FixMeans`, with one lemma per pass, `AddrAddrGood` to `CmpGood`), and the frame
  around the code is not seen (`FrameMeans`). All of it rests on two facts about the processor: what one
  instruction writes depends only on what it reads, and two or three instructions in place of one
  leave everything but the scratch registers as the one did (`Track`).

`PassArray_proofs`, under `PassArrayAssumption` (a natural `MapSize`, a capacity of one at least)
and `InputsAssumption`: what the generator pushes are `Selected` instructions, which is
`GeneratorSelects` again.
* `TypeCorrect`: `Spec => []TypeOK`.
* `ArrayImplementsRegAlloc`: `Spec => ImplementsRegAlloc`, so that what `CodeGen_proofs` shows of a
  sequence is shown of the array. The inductive invariant is `Typed /\ ArrayFits /\ WorkFits`. What
  is in use has been written (`ArrayFits`). Of the accesses that an iteration has still to do, only
  the first may store through a pointer, and then nothing has moved the block since the pointer
  was taken (`HeadFits`); the others insert at a place that exists once those before them are done.
  Between the growth and the count there is room for one more element, and behind the elements in
  use is the one that the `memmove` has pushed out (`Underway`). The statements of a macro are
  stutters of `RegAlloc` (`Kept`), for the sequence that the array stands for (`Whole`) already
  counts the accesses not yet done; an iteration is one step of `RegAlloc`, taken when its accesses
  are listed. That several insertions in a row are one splice, and where it takes the index of the
  loop, are the lemmas `SplicedTwo` and `SplicedThree`: no fix makes more than three accesses, a
  frame makes two.

`Semantic_proofs` and `IRGen_proofs`, under `SemanticAssumption` and `IRGenAssumption`: what they
are handed is a tree (`IsTree`: every node has the children its type asks for, and one parent at
most). That the parser and the semantic analysis really hand over trees, on every text without
errors, is `HandsOverTrees` in the `TypeOK` of `Compiler`, proved below.
* `TypeCorrect` of both: the traversal stays in the tree, the maps and the operands are what they
  are declared to be.
* `VerdictIsSound`: `Spec => []VerdictSound`. The scoping rules are stated on the unmodified tree;
  the pass reads a tree whose left part it has renamed. The invariant says what is under the nodes
  in `todo` (`Unread`: those are still as parsed), which names are declared by now (`Declared`),
  and that `ok` is the rules' verdict on what has been visited (`Judged`). That a renamed node is
  not visited again is a fact about trees: what is under two nodes of `todo` is disjoint. "Under"
  is defined as the least closed set, not by recursion, so that it can be reasoned about.
* `RenamingIsFaithful`: `Spec => []RenamingFaithful`: the numbers in the map are below the counter
  and distinct, and an occurrence visited is renamed by the map (`Renamed`).
* `TemporariesAreFresh`: `Spec => []FreshTemporaries`; `JumpsResolve`: `Spec => []LabelsResolve`.
  The invariant `Counters /\ Frames /\ Opens /\ Temps /\ Labels` says what each frame of the call
  stack holds, that the temporaries and labels of the unfinished short circuits are their own,
  and which ones each emitted instruction may name. Calls, returns, and appended segments have a
  lemma each, of which every action is an instance.
* `GeneratorEmits`: `Spec => [](code \in Seq(Generated))`, what `CodeGenAssumption` asks for.
* `ValuesAreWritten`: `Spec => []NoReadBeforeWrite`. `AssignedBefore` is the greatest solution of
  the data flow equations of definite assignment. The invariant asks for *some* solution
  (`Flows`): sets `C[p]`, one per place, of which no more goes into a place than comes out of
  every instruction and jump that leads to it. It says also that what the calls in progress have
  been handed is in the set where the code ends (`HeldBy`), and that whatever jumps to the condition
  label of an unfinished short circuit has with it what the calls below hold (`JumpsBy`). A step
  then extends the solution over the segment that it appends; at the condition label of `ShortEnd`
  the new set is what the calls below hold, and no more, since the right operand may have been
  skipped. That a solution is below `AssignedBefore` is an induction on places.

`Unebcc_proofs`, first of the driver by itself, that is, of the actions of `Driver` on any files and
flags:
* `DriverImplementsCompilation`: the refinement of `Compilation`, `D!KeepsPromise`. It is proved of a
  driver that starts (`Started`) on a `.c` or `.i` file, when the preprocessor can be started;
  without either, `CompilesTheNamedFile` fails (run `unebcc_stale`) and an old file's text may
  become the new executable. Of the units, flags, outcomes of gcc and files left by earlier calls
  nothing is assumed. The inductive invariant is `Typed /\ Running`, where `Running` says of each
  place that the driver may stand at whose text it works on (`Source`), what the stages so far have
  found out about the program (`Verdict`), and that the executable is this call's only once gcc has
  made it (`Built`). `KeepsPromise` needs all three: that a success is deserved rests on `Verdict`,
  and that the executable is the named program's on `Source` and `Built` together. Each action is
  then a step of `Compilation` or a stutter.
* `DriverKeepsMemory`: no stage reads what has been freed, whatever the file. `ReadsLiveMemory`
  speaks only of the next call; the inductive `Live` also keeps what later calls will read.

Then of the whole call, for command lines of any length (`UnebccAssumption`: lines are sequences of
arguments):
* `TypeCorrect`, `MemoryIsThere`, `AssemblyIsRemoved`: `TypeOK`, `ReadsLiveMemory` and
  `AssemblyRemoved`. The driver works with the file and the flags that `args_parse` leaves (`ext`,
  `stem`, `flags`), so that its lemmas apply as they stand.
* `LinesAreRead`: `Spec => []ParsesLine`. `Scanned` says what the arguments before `i` have
  set: the flags, the one file, of each valued flag the value given last. Which place is a value
  depends on the one before it, so the meaning of a line is defined by a recursive function, and
  its facts are proved by induction on places. `Concluded` says why `args_parse` has stopped; an
  argument too short is always met before a last flag without its value.
* `CallKeepsPromise`: `ASSUME GccRuns = TRUE PROVE Spec /\ Regular => KeepsPromise`, the refinement
  of `Compilation` from argv to the exit status. `Regular` asks that the named file is no `.s` file
  (`unebcc_stale` again) and that no argument that is neither a flag nor a value has a flag behind
  its first two characters: `args_parse` skips these unseen, so `a.lex` would be `--lex`, and the
  meaning that `KeepsPromise` gives to such a line is not the code's.

`Frontend_proofs` and `Compiler_proofs`, of the stages in sequence, for every text
(`FrontendAssumption`: texts are sequences of characters, none of them the zero, as a string in C; a
byte has fewer bits than a word). What a step of the lexer or of the parser keeps is proved in the
first, what all stages keep together, and the theorems, in the second:
* `LexerIsRight`: `Spec => []TokenizesByLongestMatch`. The rule of the longest lexeme is a
  recursive function on the places of the text (`Tokenize`). `Cut(s, toks, err, p)` says that the
  tokens so far, followed by what the rule makes of the text from `p` on, are what it makes of the
  whole text. The invariant `Scanning` says of each loop of the scanner up to where the text has
  been cut, and what stands between there and the cursor: nothing, a comment, or the part of a
  number or a word. Each arm of the rule has a lemma (`PartX`), each loop another (`ScanX`): the
  longest lexeme is found without reading back because no longer lexeme begins with a shorter one
  that the scanner has stopped at.
* `ErrorsAreCarried`: `Spec => []ErrorsAreNotLost`. The parser never asks for the lexer's error
  flag. That no error is lost rests on what the tokens show: an error of the lexer leaves an
  `INVALID` token, or a number with a word right behind it (`LexSays`, `Broken`); without an error
  the parser's cursor has passed over neither (`CursorClean`), for no rule of the grammar has a word
  after a number; and the only token after which there is no other is the one at the end
  (`EndsOnce`), which it does not pass over without an error either. So a parser that reads past the
  array, or that stops before the end, has reported an error.
* `TypeCorrect`: `Spec => []TypeOK`, of every stage, with `HandsOverTrees`: the hypothesis of the
  theorems about `Semantic` and `IRGen` is discharged. The parser's invariant (`Forest`) is about
  *places*: the body, the left operand that a call keeps, the answer that a call awaits, the
  two children of each node. No two places hold the same node (`Apart`), after any error; without an error
  every node has a place (`Whole`), and the calls hold no null pointer where they wait for a node
  (`Clean`). A step moves at most two nodes and makes at most one (`Moved`), which keeps both. When
  the stack is empty the places left are the body and the children, which is `IsTree`. The analysis
  changes names only, so what the generator is handed is a tree again (`Spelled`, `RenamedIsTree`).
* `AcceptedIsTranslated`: `Spec => []AcceptedIsGenerated`. The generator aborts on an assignment
  whose left side is no variable. By `Semantic`'s invariant there is none in an item that the
  analysis has looked at, if it found no error; the nodes on the generator's stack are under the
  item that it is at (`Reached`); so the item is one that was not looked at.
* `CleanupIsRight`: `Spec => []FreesEachNodeOnce`. Freeing a node lists what hangs on it; that no
  two lists have a node in common follows from `Apart` (the youngest common node would hang on two
  nodes, `ApartHangers`), and that nothing is left out from `Whole`.

The invariant of the composition, `IInv`, says of each stage that it is as it was made until it
begins, and from then on what has been proved of it by itself; the lemmas of `Semantic_proofs` and
`IRGen_proofs` are used through an instance, and those of
`Frontend_proofs` as they stand. It has a lemma for each action, in which the stage that moves keeps
its part and the others stay.

Induction on the numbers comes as theorems about a *set* of numbers (`SetInduction`,
`StrongInduction`). The library's own induction theorems take an operator as a parameter, which no
installed prover instantiates; its theorem on minimal elements (`WFMin`) takes none, and these
follow from it. So facts about a recursive function on numbers can be proved, a sequence's places
and the numbers of a tree's nodes included; what stays out of reach is induction over data such as
derivations of any shape.

TLC checks the invariants on the instances too, and the assumptions, on each run.

Only model-checked:
* liveness (`Terminates`, `CallsReturn`): the prover does not handle fairness here;
* what compares whole programs by running them (`MeaningPreserved`, `CompilesAsC`: the reference
  semantics of C is a recursion over trees; `AssemblyKeepsMeaning`, the text after the last pass);
* what compares the parser with the grammar (`ParsesGrammar`, and `AcceptsTheLanguage`, which
  rests on it): the reference is a set of derivations, by recursion over sequences of any length.

## 5. Not modelled

* Debug and platform macros: no state. Printing of tokens, trees, IR and machine IR: pure
  formatting. `--print` is only a flag with a value.
* Freeing of the maps, of names and of IR: the driver's order of freeing is modelled
  (`ReadsLiveMemory`), and the one recursive free (`FreesEachNodeOnce`).
* A named file that does not exist: gcc then fails or has nothing to do, and failing is among its
  outcomes for every file.
* The command given to the shell: its buffer has no room for a terminating zero
  (assembler.c:15, preprocessor.c); memory layout is not modelled.
* A zero inside a source file, and failing allocations.
* Names of a million declarations, for which the buffer of a unique name has no room.
* The bytes of `binary.src` that no constructor of a unary instruction sets are taken to be zero.

## 6. Findings

* `semantic_skips`: `semantic_analysis` looks at four kinds of body items (declarations,
  statements, assignments, binary operators); any other top-level expression is skipped (`default:
  continue`, semantic.c:52). `-y;` with `y` undeclared is accepted, although semantic.h says
  "Returns true if no errors occurred". Worse, in `int x = 1; -(x = 5); return x;` the skipped `x`
  keeps its source name, becomes another temporary, and the program returns 1.
* `reg_alloc_returns`: `stackalloc` inserts the epilogue once, before the last instruction. `int x
  = 5; return x; return 2;` returns with the frame still on the stack and crashes.
* `reg_alloc_many`: more than 1024 temporaries index `pseudo_offset_map` out of bounds.

* `unebcc_stale`: the preprocessor's exit status is dropped (driver.c:57). When gcc cannot be
  started, or the named file is `x.s`, for which it does nothing, the `x.i` of an earlier call is
  compiled in its place.

The first three also happen with the compiler built from this source.

One more disagreement of documents and code needs no run to show. args.h:33 says that an argument
with `provides_value` "also saves whatever comes after the argument (--arg=value)", and the help
text prints `--print=[value]` (args.c:58). `args_parse` refuses that form: it looks up the whole
word `print=ir`, which is no flag (args.c:73), and takes a value from the next argument only
(args.c:76). So `unebcc --print=ir x.c` takes `--print=ir` for the file and rejects `x.c` as
invalid, and `unebcc --print=ir` alone looks for a dot beyond the name's end. The model does the
same, `ParsesLine` says so, and the run `unebcc` has such lines; `--print ir` is what works.

Also against a comment: "skip --" (args.c:71) skips two characters whatever they are, so `a.lex`
reads as `--lex`, and an argument of one character is read past its end.

Other things the models say, which no document contradicts: `expect` consumes the end of the file
and the parser then reads past the array; a comment that ends with the file runs past the buffer;
after a parse error the semantic analysis may read a null pointer; a `.i` file may stay, because
`file_remove` is given a freed name; `--print` as the last argument fails an assertion; a name is cut at its first
dot, so `./x.c` has no stem.

## 7. Plan

Done: every component with state is modelled; all stages are composed (`Compiler`, `Unebcc`);
three refinements (`ImplementsMap`, `ImplementsRegAlloc`, and `KeepsPromise` for the whole call) are
checked and proved, and that of the driver on its own is proved; the theorems of section 4 cover
every invariant that a run checks, but those that compare a source program or the printed text with
its meaning, or the parser with the grammar.

Next:

1. Proofs: that the printed text does what the instructions do (`AssemblyKeepsMeaning`): the names
   and sizes of the registers, and slots as addresses below rbp.
2. Larger texts for `compiler`: two declarations and a short circuit in one body.
