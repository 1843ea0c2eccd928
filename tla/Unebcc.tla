------------------------------- MODULE Unebcc -------------------------------
(***************************************************************************)
(* main of src/main.c, the whole call: args_parse reads argv, and          *)
(* driver_start works with the file and the flags that it has found.       *)
(***************************************************************************)
EXTENDS Integers, Sequences, FiniteSets

CONSTANTS Lines,   \* as in CommandLine
          GccRuns  \* as in Driver

\* An argument is a sequence of words and characters.
ASSUME UnebccAssumption == GccRuns \in BOOLEAN /\ Lines \subseteq Seq(Seq(STRING))

VARIABLES
  argv, i, userArgs, filename, ok, parsing,  \* CommandLine
  user, old, files, place, input, live, canExit, hadError, assembled, status  \* Driver

arguments == <<argv, i, userArgs, filename, ok, parsing>>
driver    == <<user, old, files, place, input, live, canExit, hadError, assembled, status>>
vars      == <<arguments, driver>>

A == INSTANCE CommandLine WITH status <- parsing

\* A file is C, preprocessed C, or assembly.
Extension(f) ==
  IF f = A!NoFile THEN ".c"
  ELSE CASE f[Len(f)] = "i" -> ".i" [] f[Len(f)] = "s" -> ".s" [] OTHER -> ".c"
Stem(f) == IF A!Dots(f) = {} \/ A!filename_without_extension(f) = <<>> THEN "" ELSE "x"

\* args_has
Stops(names) == {f \in {"lex", "parse", "validate", "codegen"} : <<f>> \in names}

\* What driver_start reads of the command line.
ext   == Extension(filename)
stem  == Stem(filename)
flags == Stops(DOMAIN userArgs)
D == INSTANCE Driver WITH Extensions <- {}

\* The argument that is neither a flag nor a value.
Named == IF A!Others = {} THEN A!NoFile ELSE argv[CHOOSE k \in A!Others : TRUE]
N == INSTANCE Driver WITH
  Extensions <- {}, ext <- Extension(Named), stem <- Stem(Named), flags <- {}

Init ==
  /\ A!Init
  /\ user \in D!Units /\ files \in N!Directories
  /\ D!Fresh

ParseArguments == A!Next /\ UNCHANGED driver

Drive ==
  /\ parsing = "driver" /\ UNCHANGED arguments
  /\ D!Next

Next == ParseArguments \/ Drive

Spec     == Init /\ [][Next]_vars
\* One thread, and gcc comes back.
FairSpec == Spec /\ WF_vars(Next)

-----------------------------------------------------------------------------
(* Properties *)

TypeOK == A!TypeOK /\ D!TypeOK

ParsesLine       == A!ParsesLine
ReadsLiveMemory  == D!ReadsLiveMemory
AssemblyRemoved  == D!AssemblyRemoved

\* The flags that the line asks for, and whether it names one program that is
\* correct as far as they go.
Asked    == Stops({A!SkipDashes(argv[k]) : k \in A!Given(A!Plain)})
Sensible == /\ A!WellFormed /\ Cardinality(A!Others) = 1
            /\ D!Compiles(user, Stem(Named), Asked)

\* From argv to the exit status and the executable, the call does what
\* Compilation promises of the line, its flags with their dashes and each value in
\* the place after its flag (the documented --arg=value is no flag), whatever the
\* order of the arguments, the program, the outcomes of gcc and the files of
\* earlier calls.  Of a line that args_parse reads past the end of, it says nothing.
Promise == INSTANCE Compilation WITH
  request <- [stops |-> Asked # {}, correct |-> Sensible],
  exe     <- D!Executable,
  outcome <- IF parsing = "failure" THEN "failure" ELSE D!Outcome
KeepsPromise == Promise!Spec

\* driver.c:20 "Runs the preprocessing stage on the input and returns the
\* preprocessed file": what is compiled is the named file's text.
CompilesTheNamedFile == D!CompilesTheNamedFile

\* Every call comes to its end.
Ended == parsing \in {"failure", "undefined"} \/ status # "running"
Terminates == <>Ended
=============================================================================
