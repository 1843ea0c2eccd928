------------------------------- MODULE Driver -------------------------------
(***************************************************************************)
(* src/driver/driver.c with src/utils/file.c, src/preprocessor and         *)
(* src/assembler: the stages in their order, the files between them, and   *)
(* what each stage has left in memory when the next one runs.              *)
(*                                                                         *)
(* A stage is what it says of the program: a unit records the answers, and *)
(* the modules of the stages are where these come from.  The two calls of  *)
(* gcc and the file system are the environment and choose their outcome.   *)
(***************************************************************************)
CONSTANTS
  Extensions,  \* of the file named on the command line: of ".c", ".i", ".s"
  GccRuns      \* whether system() can always start the preprocessor

\* tree: what the parser leaves, "none", or with a hole in it, at a place that
\* the semantic analysis looks at or at one that it skips.  A program that the
\* lexer finds an error in is none of the grammar's.
Units == {u \in [lexes : BOOLEAN, tree : {"whole", "hole", "skipped hole", "none"},
                 legal : BOOLEAN, lowers : {"yes", "ir aborts", "regalloc aborts"}] :
            ~u.lexes => u.tree # "whole"}
Flags == {"lex", "parse", "validate", "codegen"}

VARIABLES
  ext, stem, flags,  \* the command line; the stem is "" if it is empty, else "x"
  user, old,         \* the unit in the named file, and one compiled earlier
  files,             \* the content of name.c, name.i, name.s and name
  place,             \* the call that driver_start is about to make
  input,             \* whose text the buffer had, "user" or "old"
  live,              \* the data in memory that has not been freed
  canExit, hadError,
  assembled,         \* ret == EXIT_SUCCESS
  status             \* "running", the exit status, or "crashed"

call   == <<ext, stem, flags, user, old>>
memory == <<input, live>>
vars   == <<call, files, place, memory, canExit, hadError, assembled, status>>

Absent == <<"nothing", "none">>

\* The named file, and what an earlier call may have left beside it.
Directories ==
  {[x \in {".c", ".i", ".s", ""} |->
      CASE x = ext              -> <<"text", "user">>
        [] x = ".i" /\ x # ext  -> i
        [] x = ""               -> e
        [] x \in {".c", ".s"} \ {ext} -> Absent] :
   i \in {Absent, <<"text", "old">>}, e \in {Absent, <<"executable", "old">>}}

Fresh ==
  /\ old = [lexes |-> TRUE, tree |-> "whole", legal |-> TRUE, lowers |-> "yes"]
  /\ place = "preprocess"
  /\ input = "user" /\ live = {}
  /\ canExit = FALSE /\ hadError = FALSE /\ assembled = FALSE
  /\ status = "running"

Init ==
  /\ ext \in Extensions /\ stem \in {"x", ""} /\ flags \in SUBSET Flags
  /\ user \in Units /\ files \in Directories
  /\ Fresh

-----------------------------------------------------------------------------

At(p)   == status = "running" /\ place = p
Goto(p) == place' = p /\ UNCHANGED status
Exit(s) == status' = s /\ UNCHANGED place

Unit == IF input = "user" THEN user ELSE old

\* A new exit status and the way to the cleanup.
Stop == canExit' = TRUE /\ Goto("cleanup")
Continue(p) == Goto(p) /\ UNCHANGED canExit

Quiet == UNCHANGED <<call, files, assembled>>

-----------------------------------------------------------------------------
(* preprocess *)

\* gcc leaves name.i alone when it cannot be started, when name.i is also its
\* input, and when the name is not one of a file to preprocess.  The exit
\* status is not looked at.
Preprocess ==
  /\ At("preprocess")
  /\ \/ ext = ".c" /\ \E result \in {<<"text", "user">>, Absent} :
                        files' = [files EXCEPT ![".i"] = result]
     \/ (ext # ".c" \/ ~GccRuns) /\ UNCHANGED files
  /\ Goto("open")
  /\ UNCHANGED <<call, memory, canExit, hadError, assembled>>

\* file_open and, in compile, file_to_buffer.
OpenPreprocessed ==
  /\ At("open") /\ files[".i"] # Absent
  /\ input' = files[".i"][2]
  /\ live' = {"buffer"}
  /\ Goto("lex")
  /\ UNCHANGED <<canExit, hadError>> /\ Quiet

NothingToOpen ==
  /\ At("open") /\ files[".i"] = Absent
  /\ Exit("failure")
  /\ UNCHANGED <<memory, canExit, hadError>> /\ Quiet

-----------------------------------------------------------------------------
(* compile *)

\* The tokens have copies of the literals, so the buffer can go.
Lex ==
  /\ At("lex")
  /\ hadError' = ~Unit.lexes
  /\ live' = (live \ {"buffer"}) \cup {"tokens"}
  /\ IF "lex" \in flags THEN Stop ELSE Continue("parse")
  /\ UNCHANGED input /\ Quiet

\* Also after an error of the lexer.
Parse ==
  /\ At("parse")
  /\ hadError' = (hadError \/ Unit.tree # "whole")
  /\ live' = IF Unit.tree = "none" THEN live ELSE live \cup {"tree"}
  /\ IF "parse" \in flags THEN Stop ELSE Continue("semantic")
  /\ UNCHANGED input /\ Quiet

\* Also after an error of the parser, which leaves no tree, or holes.
SemanticCrash ==
  /\ At("semantic") /\ Unit.tree \in {"none", "hole"}
  /\ Exit("crashed")
  /\ UNCHANGED <<memory, canExit, hadError>> /\ Quiet

\* Mutant of Semantic: only its own answer decides.
SemanticAlone ==
  /\ At("semantic") /\ Unit.tree \in {"whole", "skipped hole"}
  /\ hadError' = ~Unit.legal
  /\ live' = live \cup {"names"}
  /\ IF "validate" \in flags \/ hadError' THEN Stop ELSE Continue("ir")
  /\ UNCHANGED input /\ Quiet

Semantic ==
  /\ At("semantic") /\ Unit.tree \in {"whole", "skipped hole"}
  /\ hadError' = (hadError \/ ~Unit.legal)
  /\ live' = live \cup {"names"}
  /\ IF "validate" \in flags \/ hadError' THEN Stop ELSE Continue("ir")
  /\ UNCHANGED input /\ Quiet

GenerateIR ==
  /\ At("ir") /\ Unit.lowers # "ir aborts"
  /\ live' = live \cup {"ir"}
  /\ Continue("machine ir")
  /\ UNCHANGED <<input, hadError>> /\ Quiet

GenerateMachineIR ==
  /\ At("machine ir") /\ Unit.lowers # "regalloc aborts"
  /\ live' = live \cup {"program"}
  /\ IF "codegen" \in flags THEN Stop ELSE Continue("cleanup")
  /\ UNCHANGED <<input, hadError>> /\ Quiet

\* A failed ASSERT exits where it stands, without the cleanup.
Abort ==
  /\ \/ At("ir") /\ Unit.lowers = "ir aborts"
     \/ At("machine ir") /\ Unit.lowers = "regalloc aborts"
  /\ Exit("failure")
  /\ UNCHANGED <<memory, canExit, hadError>> /\ Quiet

\* Mutant of Cleanup: the IR, whose labels the program points to, goes as well.
CleanupEager ==
  /\ At("cleanup")
  /\ \E left \in {Absent, files[".i"]} : files' = [files EXCEPT ![".i"] = left]
  /\ live' = live \ {"tree", "tokens", "names", "ir"}
  /\ IF canExit THEN Exit(IF hadError THEN "failure" ELSE "success") ELSE Goto("emit")
  /\ UNCHANGED <<call, input, canExit, hadError, assembled>>

\* file_remove is given the name that preprocess has freed: C leaves undefined
\* what remove does with it, and the file may go or stay.
Cleanup ==
  /\ At("cleanup")
  /\ \E left \in {Absent, files[".i"]} : files' = [files EXCEPT ![".i"] = left]
  /\ live' = live \ {"tree", "tokens", "names"}
  /\ IF canExit THEN Exit(IF hadError THEN "failure" ELSE "success") ELSE Goto("emit")
  /\ UNCHANGED <<call, input, canExit, hadError, assembled>>

-----------------------------------------------------------------------------
(* assemble *)

EmitAssembly ==
  /\ At("emit")
  /\ files' = [files EXCEPT ![".s"] = <<"assembly", input>>]
  /\ Goto("assemble")
  /\ UNCHANGED <<call, memory, canExit, hadError, assembled>>

\* file_create finds no room or no permission.
CannotCreate ==
  /\ At("emit")
  /\ Exit("failure")
  /\ UNCHANGED <<memory, canExit, hadError>> /\ Quiet

\* Mutant of Assemble: the two names are passed in the other order.
AssembleSwapped ==
  /\ At("assemble")
  /\ files' = [files EXCEPT ![".s"] = <<"executable", files[".s"][2]>>] /\ assembled' = TRUE
  /\ Goto("remove assembly")
  /\ UNCHANGED <<call, memory, canExit, hadError>>

\* gcc may fail, and does when its output has no name.
Assemble ==
  /\ At("assemble")
  /\ \/ /\ stem # ""
        /\ files' = [files EXCEPT ![""] = <<"executable", files[".s"][2]>>]
        /\ assembled' = TRUE
     \/ /\ \E left \in {Absent, files[""]} : files' = [files EXCEPT ![""] = left]
        /\ assembled' = FALSE
  /\ Goto("remove assembly")
  /\ UNCHANGED <<call, memory, canExit, hadError>>

\* Mutant of RemoveAssembly: the exit for a failed gcc comes first.
RemoveAssemblyLate ==
  /\ At("remove assembly")
  /\ IF assembled THEN files' = [files EXCEPT ![".s"] = Absent] /\ Goto("finish")
                  ELSE UNCHANGED files /\ Exit("failure")
  /\ UNCHANGED <<call, memory, canExit, hadError, assembled>>

\* Mutant of RemoveAssembly: a failed gcc is called again.
RemoveAssemblyRetry ==
  /\ At("remove assembly")
  /\ files' = [files EXCEPT ![".s"] = Absent]
  /\ Goto(IF assembled THEN "finish" ELSE "emit")
  /\ UNCHANGED <<call, memory, canExit, hadError, assembled>>

RemoveAssembly ==
  /\ At("remove assembly")
  /\ files' = [files EXCEPT ![".s"] = Absent]
  /\ IF assembled THEN Goto("finish") ELSE Exit("failure")
  /\ UNCHANGED <<call, memory, canExit, hadError, assembled>>

\* driver_start returns, and main after it.
Finish ==
  /\ At("finish")
  /\ live' = live \ {"program", "ir"}
  /\ Exit("success")
  /\ UNCHANGED <<input, canExit, hadError>> /\ Quiet

Next ==
  \/ Preprocess \/ OpenPreprocessed \/ NothingToOpen
  \/ Lex \/ Parse \/ SemanticCrash \/ Semantic \/ GenerateIR \/ GenerateMachineIR \/ Abort
  \/ Cleanup
  \/ EmitAssembly \/ CannotCreate \/ Assemble \/ RemoveAssembly \/ Finish

Spec == Init /\ [][Next]_vars

-----------------------------------------------------------------------------
(* Properties *)

Memory == {"buffer", "tokens", "tree", "names", "ir", "program"}
Places == {"preprocess", "open", "lex", "parse", "semantic", "ir", "machine ir", "cleanup",
           "emit", "assemble", "remove assembly", "finish"}

TypeOK ==
  /\ \A x \in DOMAIN files : files[x][1] \in {"nothing", "text", "assembly", "executable"}
  /\ files[".i"][1] \in {"nothing", "text"} /\ files[""][1] \in {"nothing", "executable"}
  /\ files[".s"][1] \in {"nothing", "assembly", "text"}
  /\ place \in Places /\ live \subseteq Memory
  /\ input \in {"user", "old"}
  /\ canExit \in BOOLEAN /\ hadError \in BOOLEAN /\ assembled \in BOOLEAN
  /\ status \in {"running", "success", "failure", "crashed"}

\* What each call reads: the tree's names are the tokens' literals, or after the
\* semantic analysis its own; the program's labels are those of the IR.
Reads(p) ==
  CASE p = "lex"        -> {"buffer"}
    [] p = "parse"      -> {"tokens"}
    [] p = "ir"         -> {"tree", "tokens", "names"}
    [] p = "machine ir" -> {"ir"}
    [] p = "emit"       -> {"program", "ir"}
    [] OTHER            -> {}

\* The cleanup in the middle of the pipeline, which also the early exits go
\* through, takes nothing that a later stage still points into.
ReadsLiveMemory == status = "running" => Reads(place) \subseteq live

\* A call that comes to an exit leaves no assembly file of its own behind, also
\* when gcc has refused it.
AssemblyRemoved ==
  status \in {"success", "failure"} => files[".s"][1] # "assembly"

\* Up to the stage that the flags fs stop at.
Correct(u, fs) ==
  /\ u.lexes
  /\ "lex" \notin fs =>
       /\ u.tree = "whole"
       /\ "parse" \notin fs =>
            /\ u.legal
            /\ "validate" \notin fs => u.lowers = "yes"

Executable == IF files[""] = Absent THEN "absent"
              ELSE IF files[""][2] = "user" THEN "new" ELSE "old"
\* A crash is seen as a failure.
Outcome == CASE status = "running" -> "none"
             [] status = "success" -> "success"
             [] status \in {"failure", "crashed"} -> "failure"

\* Without a stem there is no name to give to an executable.
Compiles(u, name, fs) == Correct(u, fs) /\ (fs # {} \/ name # "")

\* The exit status and the executable tell the truth: over every combination of
\* flags, stages that fail, gcc calls that fail, and files of earlier calls, the
\* driver does what Compilation promises.
Promise == INSTANCE Compilation WITH
  request <- [stops |-> flags # {}, correct |-> Compiles(user, stem, flags)],
  exe     <- Executable,
  outcome <- Outcome
KeepsPromise == Promise!Spec

\* driver.c:20 "Runs the preprocessing stage on the input and returns the
\* preprocessed file": what is compiled is the named file's text.
CompilesTheNamedFile == status = "success" => input = "user"

=============================================================================
