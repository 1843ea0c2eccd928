--------------------------- MODULE Unebcc_proofs ---------------------------
(***************************************************************************)
(* Theorems about the driver by itself, and about the whole call, which is *)
(* args_parse and then the driver: for every command line, every program,  *)
(* every outcome of gcc and all files that earlier calls have left.        *)
(***************************************************************************)
EXTENDS Unebcc, FiniteSetTheorems, SequenceTheorems, WellFoundedInduction, TLAPS

-----------------------------------------------------------------------------
(* Induction on the numbers, for a set: the library's theorems take an operator. *)

\* Some number of a set of numbers is the least.
LEMMA Least ==
  ASSUME NEW T, T \subseteq Nat, T # {}
  PROVE  \E x \in T : \A y \in T : x <= y
<1> DEFINE R == OpToRel(<, Nat)
<1>1. IsWellFoundedOn(R, Nat)
  BY NatLessThanWellFounded
<1>2. R = {ss \in Nat \X Nat : ss[1] < ss[2]}
  BY DEF OpToRel
<1> HIDE DEF R
<1>3. PICK x \in T : \A y \in T : ~(<<y, x>> \in R)
  BY <1>1, WFMin
<1>4. ASSUME NEW y \in T PROVE x <= y
  <2>1. <<y, x>> \in Nat \X Nat /\ <<y, x>>[1] = y /\ <<y, x>>[2] = x
    OBVIOUS
  <2>2. ~(<<y, x>>[1] < <<y, x>>[2])
    BY <2>1, <1>2, <1>3
  <2> QED
    BY <2>1, <2>2
<1> QED
  BY <1>4

\* Induction, for a set of numbers.
LEMMA SetInduction ==
  ASSUME NEW T, 0 \in T, \A n \in Nat : n \in T => n + 1 \in T
  PROVE  Nat \subseteq T
<1> SUFFICES ASSUME Nat \ T # {} PROVE FALSE
  OBVIOUS
<1>1. PICK x \in Nat \ T : \A y \in Nat \ T : x <= y
  BY Least
<1>2. x # 0 /\ x - 1 \in Nat
  BY <1>1
<1>3. x - 1 \in T
  BY <1>1, <1>2
<1> QED
  BY <1>2, <1>3

-----------------------------------------------------------------------------
(* The driver by itself *)

Names    == {".c", ".i", ".s", ""}
Contents == {"nothing", "text", "assembly", "executable"} \X {"none", "user", "old"}

\* The types of what the properties are about.
Typed ==
  /\ user \in D!Units /\ flags \in SUBSET D!Flags
  /\ input \in {"user", "old"}
  /\ files \in [Names -> Contents]
  /\ canExit \in BOOLEAN /\ hadError \in BOOLEAN /\ assembled \in BOOLEAN
  /\ place \in D!Places
  /\ status \in {"running", "success", "failure", "crashed"}

\* What is compiled is the named file's text, as soon as it is in name.i.
Source ==
  /\ input = "user"
  /\ ext \in {".c", ".i"}
  /\ (place = "preprocess" /\ ext = ".i") => files[".i"] = <<"text", "user">>
  /\ place = "open" => files[".i"] \in {D!Absent, <<"text", "user">>}

\* What is known of the program and the flags once a stage has answered.
Parsed    == user.lexes /\ user.tree = "whole" /\ "lex" \notin flags /\ "parse" \notin flags
Validated == Parsed /\ user.legal /\ "validate" \notin flags
Lowered   == Validated /\ user.lowers = "yes" /\ flags = {}

\* The verdict so far: the error flag, and the way that is left.
BeforeCleanup ==
  /\ place \in {"preprocess", "open", "lex"} => ~hadError
  /\ place = "parse"    => (hadError <=> ~user.lexes) /\ "lex" \notin flags
  /\ place = "semantic" => /\ hadError <=> user.tree # "whole"
                           /\ "lex" \notin flags /\ "parse" \notin flags
  /\ place = "ir"         => ~hadError /\ Validated
  /\ place = "machine ir" => ~hadError /\ Validated /\ user.lowers # "ir aborts"
AtCleanup ==
  \/ canExit /\ hadError /\ ~D!Correct(user, flags)
  \/ canExit /\ ~hadError /\ D!Correct(user, flags) /\ flags # {}
  \/ ~canExit /\ ~hadError /\ Lowered
Late    == {"emit", "assemble", "remove assembly", "finish"}
Verdict ==
  /\ place # "cleanup" => ~canExit
  /\ BeforeCleanup
  /\ place = "cleanup" => AtCleanup
  /\ place \in Late => ~hadError /\ Lowered

\* No executable of this call's before gcc has made it.
Built ==
  /\ place = "assemble" => files[".s"] = <<"assembly", "user">>
  /\ IF place \in {"remove assembly", "finish"} /\ assembled
     THEN files[""] = <<"executable", "user">> /\ stem # ""
     ELSE files[""] \in {D!Absent, <<"executable", "old">>}
  /\ place = "finish" => assembled

Running == status = "running" => Source /\ Verdict /\ Built
IInv    == Typed /\ Running

-----------------------------------------------------------------------------
(* Files and units *)

\* The contents that the actions write are contents.
LEMMA SomeContents ==
  /\ D!Absent \in Contents
  /\ \A s \in {"user", "old"} : /\ <<"text", s>> \in Contents
                               /\ <<"assembly", s>> \in Contents
                               /\ <<"executable", s>> \in Contents
BY DEF D!Absent, Contents

\* An executable has its origin from the assembly.
LEMMA ContentParts == \A c \in Contents : \A k \in {"executable"} : <<k, c[2]>> \in Contents
BY DEF Contents

\* One file is written, the others stay.
LEMMA WriteFile ==
  ASSUME NEW f \in [Names -> Contents], NEW x \in Names, NEW c \in Contents
  PROVE  LET g == [f EXCEPT ![x] = c] IN
         /\ g \in [Names -> Contents]
         /\ g[x] = c
         /\ \A y \in Names \ {x} : g[y] = f[y]
OBVIOUS

\* The parts of the named file's unit.
LEMMA UnitParts ==
  ASSUME user \in D!Units
  PROVE  /\ user.lexes \in BOOLEAN /\ user.legal \in BOOLEAN
         /\ user.tree \in {"whole", "hole", "skipped hole", "none"}
         /\ user.lowers \in {"yes", "ir aborts", "regalloc aborts"}
         /\ ~user.lexes => user.tree # "whole"
BY DEF D!Units

-----------------------------------------------------------------------------
(* The invariant *)

\* The files that the call may find, with x the extension of the named file, by
\* the two that may be left from an earlier call.
Directory(x, p, e) ==
  [y \in {".c", ".i", ".s", ""} |->
     CASE y = x                -> <<"text", "user">>
       [] y = ".i" /\ y # x    -> p
       [] y = ""               -> e
       [] y \in {".c", ".s"} \ {x} -> D!Absent]
Found(x) == {Directory(x, p, e) : p \in {D!Absent, <<"text", "old">>},
                                  e \in {D!Absent, <<"executable", "old">>}}

\* The initial files are one of the directories.
LEMMA SomeDirectory ==
  ASSUME NEW x, files \in Found(x)
  PROVE  \E p \in {D!Absent, <<"text", "old">>}, e \in {D!Absent, <<"executable", "old">>} :
           files = Directory(x, p, e)
BY DEF Found

\* The directories of the driver, listed.
LEMMA TheDirectories == D!Directories = Found(ext)
BY DEF D!Directories, Found, Directory

\* What the driver finds when it starts.
Ready == user \in D!Units /\ files \in D!Directories /\ D!Fresh

\* That there are flags of no other names.
LEMMA SomeFlags == flags \in SUBSET D!Flags
BY DEF flags, Stops, D!Flags

\* A call starts with its types right,
LEMMA ReadyTyped == ASSUME Ready PROVE Typed
<1>1. PICK c1 \in {D!Absent, <<"text", "old">>}, c2 \in {D!Absent, <<"executable", "old">>} :
        files = Directory(ext, c1, c2)
  BY SomeDirectory, TheDirectories DEF Ready
<1>2. c1 \in Contents /\ c2 \in Contents /\ D!Absent \in Contents /\ <<"text", "user">> \in Contents
  BY SomeContents
<1>3. files \in [Names -> Contents]
  BY <1>1, <1>2 DEF Names, Directory
<1> QED
  BY <1>3, SomeFlags DEF Ready, D!Fresh, Typed, D!Places

\* and with the named file as the only source.
LEMMA ReadyRunning == ASSUME Ready, ext \in {".c", ".i"} PROVE Running
<1>2. PICK c1 \in {D!Absent, <<"text", "old">>}, c2 \in {D!Absent, <<"executable", "old">>} :
        files = Directory(ext, c1, c2)
  BY SomeDirectory, TheDirectories DEF Ready
<1>3. ext = ".i" => files[".i"] = <<"text", "user">>
  BY <1>2 DEF Names, Directory
<1>4. files[""] = c2
  BY <1>2 DEF Names, Directory
<1>5. Source
  BY <1>3 DEF Ready, D!Fresh, Source
<1>6. Verdict
  BY DEF Ready, D!Fresh, Verdict, BeforeCleanup, Late
<1>7. Built
  BY <1>4 DEF Ready, D!Fresh, Built
<1> QED
  BY <1>5, <1>6, <1>7 DEF Running

\* Every action keeps the types.
LEMMA NextTyped == ASSUME Typed, Running, [D!Next]_(D!vars) PROVE Typed'
<1> DEFINE Rest == /\ input \in {"user", "old"}
                   /\ user \in D!Units /\ flags \in SUBSET D!Flags
                   /\ canExit \in BOOLEAN /\ hadError \in BOOLEAN /\ assembled \in BOOLEAN
                   /\ place \in D!Places
                   /\ status \in {"running", "success", "failure", "crashed"}
<1>a. files \in [Names -> Contents] /\ Rest
  BY DEF Typed
<1>c. input \in {"user", "old"}
  BY DEF Typed
<1>b. files[".i"] \in Contents /\ files[""] \in Contents
  BY <1>a DEF Names
<1>1. CASE D!Preprocess
  <2>1. \/ files' = files
        \/ \E c \in Contents : files' = [files EXCEPT ![".i"] = c]
    BY <1>1, SomeContents DEF D!Preprocess
  <2>2. files' \in [Names -> Contents]
    <3>1. ASSUME NEW c \in Contents, NEW x \in Names PROVE [files EXCEPT ![x] = c] \in [Names -> Contents]
      BY <1>a, WriteFile
    <3>2. ".i" \in Names /\ "" \in Names
      BY DEF Names
    <3> QED
      BY <1>a, <2>1, <3>1, <3>2
  <2>3. Rest'
    BY <1>1, <1>a DEF D!Preprocess, D!At, D!Goto, D!Exit, D!Quiet, D!Stop, D!Continue, D!call, D!memory, D!Places
  <2> QED
    BY <2>2, <2>3 DEF Typed
<1>2. CASE D!OpenPreprocessed
  <2>1. files[".i"] = <<"text", "user">>
    BY <1>2 DEF D!OpenPreprocessed, D!At, Running, Source
  <2> QED
    BY <1>2, <2>1 DEF Typed, D!OpenPreprocessed, D!At, D!Goto, D!Exit, D!Quiet, D!Stop, D!Continue, D!call, D!memory, D!Places
<1>3. CASE D!NothingToOpen
  BY <1>3 DEF Typed, D!NothingToOpen, D!At, D!Goto, D!Exit, D!Quiet, D!Stop, D!Continue, D!call, D!memory, D!Places, Contents, D!Absent, D!Unit
<1>4. CASE D!Lex
  BY <1>4 DEF Typed, D!Lex, D!At, D!Goto, D!Exit, D!Quiet, D!Stop, D!Continue, D!call, D!memory, D!Places, Contents, D!Absent, D!Unit
<1>5. CASE D!Parse
  BY <1>5 DEF Typed, D!Parse, D!At, D!Goto, D!Exit, D!Quiet, D!Stop, D!Continue, D!call, D!memory, D!Places, Contents, D!Absent, D!Unit
<1>6. CASE D!SemanticCrash
  BY <1>6 DEF Typed, D!SemanticCrash, D!At, D!Goto, D!Exit, D!Quiet, D!Stop, D!Continue, D!call, D!memory, D!Places, Contents, D!Absent, D!Unit
<1>7. CASE D!Semantic
  BY <1>7 DEF Typed, D!Semantic, D!At, D!Goto, D!Exit, D!Quiet, D!Stop, D!Continue, D!call, D!memory, D!Places, Contents, D!Absent, D!Unit
<1>8. CASE D!GenerateIR
  BY <1>8 DEF Typed, D!GenerateIR, D!At, D!Goto, D!Exit, D!Quiet, D!Stop, D!Continue, D!call, D!memory, D!Places, Contents, D!Absent, D!Unit
<1>9. CASE D!GenerateMachineIR
  BY <1>9 DEF Typed, D!GenerateMachineIR, D!At, D!Goto, D!Exit, D!Quiet, D!Stop, D!Continue, D!call, D!memory, D!Places, Contents, D!Absent, D!Unit
<1>10. CASE D!Abort
  BY <1>10 DEF Typed, D!Abort, D!At, D!Goto, D!Exit, D!Quiet, D!Stop, D!Continue, D!call, D!memory, D!Places, Contents, D!Absent, D!Unit
<1>11. CASE D!Cleanup
  <2>1. \E c \in Contents : files' = [files EXCEPT ![".i"] = c]
    BY <1>11, <1>b, SomeContents DEF D!Cleanup
  <2>2. files' \in [Names -> Contents]
    <3>1. ASSUME NEW c \in Contents, NEW x \in Names PROVE [files EXCEPT ![x] = c] \in [Names -> Contents]
      BY <1>a, WriteFile
    <3>2. ".i" \in Names /\ "" \in Names
      BY DEF Names
    <3> QED
      BY <1>a, <2>1, <3>1, <3>2
  <2>3. Rest'
    BY <1>11, <1>a DEF D!Cleanup, D!At, D!Goto, D!Exit, D!Quiet, D!Stop, D!Continue, D!call, D!memory, D!Places
  <2> QED
    BY <2>2, <2>3 DEF Typed
<1>12. CASE D!EmitAssembly
  <2>1. files' = [files EXCEPT ![".s"] = <<"assembly", input>>]
    BY <1>12 DEF D!EmitAssembly
  <2>2. <<"assembly", input>> \in Contents
    BY <1>c, SomeContents
  <2>3. files' \in [Names -> Contents]
    BY <1>a, <2>1, <2>2, WriteFile DEF Names
  <2>4. Rest'
    BY <1>12, <1>a DEF D!EmitAssembly, D!At, D!Goto, D!Exit, D!Quiet, D!Stop, D!Continue, D!call, D!memory, D!Places
  <2> QED
    BY <2>3, <2>4 DEF Typed
<1>13. CASE D!CannotCreate
  BY <1>13 DEF Typed, D!CannotCreate, D!At, D!Goto, D!Exit, D!Quiet, D!Stop, D!Continue, D!call, D!memory, D!Places, Contents, D!Absent, D!Unit
<1>14. CASE D!Assemble
  <2>1. \E c \in Contents : files' = [files EXCEPT ![""] = c]
    <3>1. files[".s"] \in Contents
      BY <1>a DEF Names
    <3>2. <<"executable", files[".s"][2]>> \in Contents
      BY <3>1, ContentParts
    <3> QED
      BY <1>14, <1>b, <3>2, SomeContents DEF D!Assemble
  <2>2. files' \in [Names -> Contents]
    <3>1. ASSUME NEW c \in Contents, NEW x \in Names PROVE [files EXCEPT ![x] = c] \in [Names -> Contents]
      BY <1>a, WriteFile
    <3>2. ".i" \in Names /\ "" \in Names
      BY DEF Names
    <3> QED
      BY <1>a, <2>1, <3>1, <3>2
  <2>3. Rest'
    BY <1>14, <1>a DEF D!Assemble, D!At, D!Goto, D!Exit, D!Quiet, D!Stop, D!Continue, D!call, D!memory, D!Places
  <2> QED
    BY <2>2, <2>3 DEF Typed
<1>15. CASE D!RemoveAssembly
  BY <1>15 DEF Typed, D!RemoveAssembly, D!At, D!Goto, D!Exit, D!Quiet, D!Stop, D!Continue, D!call, D!memory, D!Places, Contents, D!Absent, D!Unit
<1>16. CASE D!Finish
  BY <1>16 DEF Typed, D!Finish, D!At, D!Goto, D!Exit, D!Quiet, D!Stop, D!Continue, D!call, D!memory, D!Places, Contents, D!Absent, D!Unit
<1>17. CASE UNCHANGED D!vars
  BY <1>17 DEF Typed, D!vars, D!call, D!memory
<1> QED
  BY <1>1, <1>2, <1>3, <1>4, <1>5, <1>6, <1>7, <1>8, <1>9, <1>10, <1>11, <1>12, <1>13, <1>14, <1>15, <1>16, <1>17 DEF D!Next

\* A call that passes the code generator has no flag.
LEMMA NoFlags ==
  ASSUME flags \in SUBSET D!Flags, {"lex", "parse", "validate", "codegen"} \cap flags = {}
  PROVE  flags = {}
BY DEF D!Flags

\* Every action keeps what is known of the source, the verdict and the files.
LEMMA NextRunning == ASSUME GccRuns = TRUE, Typed, Running, [D!Next]_(D!vars) PROVE Running'
<1>u. /\ user.lexes \in BOOLEAN /\ user.legal \in BOOLEAN
      /\ user.tree \in {"whole", "hole", "skipped hole", "none"}
      /\ user.lowers \in {"yes", "ir aborts", "regalloc aborts"}
      /\ ~user.lexes => user.tree # "whole"
  BY UnitParts DEF Typed
<1>t. flags \in SUBSET D!Flags
  BY DEF Typed
<1>f. files \in [Names -> Contents] /\ D!Absent \in Contents
  BY SomeContents DEF Typed
<1>1. CASE D!Preprocess
  <2>1. status = "running" /\ Source /\ Verdict /\ Built
    BY <1>1 DEF D!Preprocess, D!At, Running
  <2>2. Source'
    BY <1>1, <1>f, <2>1 DEF D!Preprocess, D!At, D!Goto, D!Exit, D!Quiet, D!Stop, D!Continue, D!call, D!memory, Source, D!Absent, Names
  <2>4. Verdict'
    BY <1>1, <1>t, <2>1 DEF D!Preprocess, D!At, D!Goto, D!Exit, D!Quiet, D!Stop, D!Continue, D!call, D!memory, D!Unit, Source, Late, Verdict, BeforeCleanup, AtCleanup, Parsed, Validated, Lowered, D!Correct
  <2>5. Built'
    BY <1>1, <1>f, <2>1 DEF D!Preprocess, D!At, D!Goto, D!Exit, D!Quiet, D!Stop, D!Continue, D!call, D!memory, Built, Source, D!Absent, Names
  <2> QED
    BY <2>2, <2>4, <2>5 DEF Running
<1>2. CASE D!OpenPreprocessed
  <2>1. status = "running" /\ Source /\ Verdict /\ Built
    BY <1>2 DEF D!OpenPreprocessed, D!At, Running
  <2>2. Source'
    BY <1>2, <1>f, <2>1 DEF D!OpenPreprocessed, D!At, D!Goto, D!Exit, D!Quiet, D!Stop, D!Continue, D!call, D!memory, Source, D!Absent
  <2>4. Verdict'
    BY <1>2, <1>t, <2>1 DEF D!OpenPreprocessed, D!At, D!Goto, D!Exit, D!Quiet, D!Stop, D!Continue, D!call, D!memory, D!Unit, Source, Late, Verdict, BeforeCleanup, AtCleanup, Parsed, Validated, Lowered, D!Correct
  <2>5. Built'
    BY <1>2, <1>f, <2>1 DEF D!OpenPreprocessed, D!At, D!Goto, D!Exit, D!Quiet, D!Stop, D!Continue, D!call, D!memory, Built, Source, D!Absent, Names
  <2> QED
    BY <2>2, <2>4, <2>5 DEF Running
<1>3. CASE D!NothingToOpen
  <2>1. status = "running" /\ Source /\ Verdict /\ Built
    BY <1>3 DEF D!NothingToOpen, D!At, Running
  <2> QED
    BY <1>3 DEF D!NothingToOpen, D!Exit, Running
<1>4. CASE D!Lex
  <2>1. status = "running" /\ Source /\ Verdict /\ Built
    BY <1>4 DEF D!Lex, D!At, Running
  <2>2. Source'
    BY <1>4, <1>f, <2>1 DEF D!Lex, D!At, D!Goto, D!Exit, D!Quiet, D!Stop, D!Continue, D!call, D!memory, Source, D!Absent
  <2>3. hadError' <=> ~(user.lexes)
    BY <1>4, <1>u, <2>1 DEF D!Lex, D!At, D!Unit, Source, Verdict, BeforeCleanup
  <2>4. Verdict'
    BY <1>4, <1>u, <2>1, <2>3 DEF D!Lex, D!At, D!Goto, D!Exit, D!Quiet, D!Stop, D!Continue, D!call, D!memory, Late, Verdict, BeforeCleanup, AtCleanup, Parsed, Validated, Lowered, D!Correct
  <2>5. Built'
    BY <1>4, <1>f, <2>1 DEF D!Lex, D!At, D!Goto, D!Exit, D!Quiet, D!Stop, D!Continue, D!call, D!memory, Built, Source, D!Absent, Names
  <2> QED
    BY <2>2, <2>4, <2>5 DEF Running
<1>5. CASE D!Parse
  <2>1. status = "running" /\ Source /\ Verdict /\ Built
    BY <1>5 DEF D!Parse, D!At, Running
  <2>2. Source'
    BY <1>5, <1>f, <2>1 DEF D!Parse, D!At, D!Goto, D!Exit, D!Quiet, D!Stop, D!Continue, D!call, D!memory, Source, D!Absent
  <2>3. hadError' <=> ~(user.lexes /\ user.tree = "whole")
    BY <1>5, <1>u, <2>1 DEF D!Parse, D!At, D!Unit, Source, Verdict, BeforeCleanup
  <2>4. Verdict'
    BY <1>5, <1>u, <2>1, <2>3 DEF D!Parse, D!At, D!Goto, D!Exit, D!Quiet, D!Stop, D!Continue, D!call, D!memory, Late, Verdict, BeforeCleanup, AtCleanup, Parsed, Validated, Lowered, D!Correct
  <2>5. Built'
    BY <1>5, <1>f, <2>1 DEF D!Parse, D!At, D!Goto, D!Exit, D!Quiet, D!Stop, D!Continue, D!call, D!memory, Built, Source, D!Absent, Names
  <2> QED
    BY <2>2, <2>4, <2>5 DEF Running
<1>6. CASE D!SemanticCrash
  <2>1. status = "running" /\ Source /\ Verdict /\ Built
    BY <1>6 DEF D!SemanticCrash, D!At, Running
  <2> QED
    BY <1>6 DEF D!SemanticCrash, D!Exit, Running
<1>7. CASE D!Semantic
  <2>1. status = "running" /\ Source /\ Verdict /\ Built
    BY <1>7 DEF D!Semantic, D!At, Running
  <2>2. Source'
    BY <1>7, <1>f, <2>1 DEF D!Semantic, D!At, D!Goto, D!Exit, D!Quiet, D!Stop, D!Continue, D!call, D!memory, Source, D!Absent
  <2>3. hadError' <=> ~(user.lexes /\ user.tree = "whole" /\ user.legal)
    BY <1>7, <1>u, <2>1 DEF D!Semantic, D!At, D!Unit, Source, Verdict, BeforeCleanup
  <2>4. Verdict'
    BY <1>7, <1>u, <2>1, <2>3 DEF D!Semantic, D!At, D!Goto, D!Exit, D!Quiet, D!Stop, D!Continue, D!call, D!memory, Late, Verdict, BeforeCleanup, AtCleanup, Parsed, Validated, Lowered, D!Correct
  <2>5. Built'
    BY <1>7, <1>f, <2>1 DEF D!Semantic, D!At, D!Goto, D!Exit, D!Quiet, D!Stop, D!Continue, D!call, D!memory, Built, Source, D!Absent, Names
  <2> QED
    BY <2>2, <2>4, <2>5 DEF Running
<1>8. CASE D!GenerateIR
  <2>1. status = "running" /\ Source /\ Verdict /\ Built
    BY <1>8 DEF D!GenerateIR, D!At, Running
  <2>2. Source'
    BY <1>8, <1>f, <2>1 DEF D!GenerateIR, D!At, D!Goto, D!Exit, D!Quiet, D!Stop, D!Continue, D!call, D!memory, Source, D!Absent
  <2>4. Verdict'
    BY <1>8, <1>t, <2>1 DEF D!GenerateIR, D!At, D!Goto, D!Exit, D!Quiet, D!Stop, D!Continue, D!call, D!memory, D!Unit, Source, Late, Verdict, BeforeCleanup, AtCleanup, Parsed, Validated, Lowered, D!Correct
  <2>5. Built'
    BY <1>8, <1>f, <2>1 DEF D!GenerateIR, D!At, D!Goto, D!Exit, D!Quiet, D!Stop, D!Continue, D!call, D!memory, Built, Source, D!Absent, Names
  <2> QED
    BY <2>2, <2>4, <2>5 DEF Running
<1>9. CASE D!GenerateMachineIR
  <2>1. status = "running" /\ Source /\ Verdict /\ Built
    BY <1>9 DEF D!GenerateMachineIR, D!At, Running
  <2>2. Source'
    BY <1>9, <1>f, <2>1 DEF D!GenerateMachineIR, D!At, D!Goto, D!Exit, D!Quiet, D!Stop, D!Continue, D!call, D!memory, Source, D!Absent
  <2>3. user.lowers = "yes"
    BY <1>9, <1>u, <2>1 DEF D!GenerateMachineIR, D!At, D!Unit, Source, Verdict, BeforeCleanup
  <2>a. "codegen" \notin flags => flags = {}
    BY <1>9, <1>t, <2>1, NoFlags DEF D!GenerateMachineIR, D!At, Verdict, BeforeCleanup, Parsed, Validated
  <2>4. Verdict'
    BY <1>9, <1>u, <2>1, <2>3, <2>a DEF D!GenerateMachineIR, D!At, D!Goto, D!Exit, D!Quiet, D!Stop, D!Continue, D!call, D!memory, Late, Verdict, BeforeCleanup, AtCleanup, Parsed, Validated, Lowered, D!Correct
  <2>5. Built'
    BY <1>9, <1>f, <2>1 DEF D!GenerateMachineIR, D!At, D!Goto, D!Exit, D!Quiet, D!Stop, D!Continue, D!call, D!memory, Built, Source, D!Absent, Names
  <2> QED
    BY <2>2, <2>4, <2>5 DEF Running
<1>10. CASE D!Abort
  <2>1. status = "running" /\ Source /\ Verdict /\ Built
    BY <1>10 DEF D!Abort, D!At, Running
  <2> QED
    BY <1>10 DEF D!Abort, D!Exit, Running
<1>11. CASE D!Cleanup
  <2>1. status = "running" /\ Source /\ Verdict /\ Built
    BY <1>11 DEF D!Cleanup, D!At, Running
  <2>2. Source'
    BY <1>11, <1>f, <2>1 DEF D!Cleanup, D!At, D!Goto, D!Exit, D!Quiet, D!Stop, D!Continue, D!call, D!memory, Source, D!Absent, Names
  <2>4. Verdict'
    BY <1>11, <1>t, <2>1 DEF D!Cleanup, D!At, D!Goto, D!Exit, D!Quiet, D!Stop, D!Continue, D!call, D!memory, D!Unit, Source, Late, Verdict, BeforeCleanup, AtCleanup, Parsed, Validated, Lowered, D!Correct
  <2>5. Built'
    BY <1>11, <1>f, <2>1 DEF D!Cleanup, D!At, D!Goto, D!Exit, D!Quiet, D!Stop, D!Continue, D!call, D!memory, Built, Source, D!Absent, Names
  <2> QED
    BY <2>2, <2>4, <2>5 DEF Running
<1>12. CASE D!EmitAssembly
  <2>1. status = "running" /\ Source /\ Verdict /\ Built
    BY <1>12 DEF D!EmitAssembly, D!At, Running
  <2>2. Source'
    BY <1>12, <1>f, <2>1 DEF D!EmitAssembly, D!At, D!Goto, D!Exit, D!Quiet, D!Stop, D!Continue, D!call, D!memory, Source, D!Absent, Names
  <2>4. Verdict'
    BY <1>12, <1>t, <2>1 DEF D!EmitAssembly, D!At, D!Goto, D!Exit, D!Quiet, D!Stop, D!Continue, D!call, D!memory, D!Unit, Source, Late, Verdict, BeforeCleanup, AtCleanup, Parsed, Validated, Lowered, D!Correct
  <2>5. Built'
    BY <1>12, <1>f, <2>1 DEF D!EmitAssembly, D!At, D!Goto, D!Exit, D!Quiet, D!Stop, D!Continue, D!call, D!memory, Built, Source, D!Absent, Names
  <2> QED
    BY <2>2, <2>4, <2>5 DEF Running
<1>13. CASE D!CannotCreate
  <2>1. status = "running" /\ Source /\ Verdict /\ Built
    BY <1>13 DEF D!CannotCreate, D!At, Running
  <2> QED
    BY <1>13 DEF D!CannotCreate, D!Exit, Running
<1>14. CASE D!Assemble
  <2>1. status = "running" /\ Source /\ Verdict /\ Built
    BY <1>14 DEF D!Assemble, D!At, Running
  <2>2. Source'
    BY <1>14, <1>f, <2>1 DEF D!Assemble, D!At, D!Goto, D!Exit, D!Quiet, D!Stop, D!Continue, D!call, D!memory, Source, D!Absent, Names
  <2>4. Verdict'
    BY <1>14, <1>t, <2>1 DEF D!Assemble, D!At, D!Goto, D!Exit, D!Quiet, D!Stop, D!Continue, D!call, D!memory, D!Unit, Source, Late, Verdict, BeforeCleanup, AtCleanup, Parsed, Validated, Lowered, D!Correct
  <2>5. Built'
    <3>1. place' = "remove assembly"
      BY <1>14 DEF D!Assemble, D!Goto
    <3>0. files[".s"] = <<"assembly", "user">>
      BY <1>14, <2>1 DEF D!Assemble, D!At, Built
    <3>2. files[""] \in {D!Absent, <<"executable", "old">>}
      BY <1>14, <2>1 DEF D!Assemble, D!At, Built
    <3>3. CASE assembled' = TRUE /\ stem # "" /\ files' = [files EXCEPT ![""] = <<"executable", files[".s"][2]>>]
      <4>1. files[".s"][2] = "user"
        BY <3>0
      <4>2. files' = [files EXCEPT ![""] = <<"executable", "user">>]
        BY <3>3, <4>1
      <4>3. files'[""] = <<"executable", "user">>
        BY <1>f, <4>2 DEF Names
      <4> QED
        BY <1>14, <3>1, <3>3, <4>3 DEF Built, D!Assemble, D!call
    <3>4. CASE /\ assembled' = FALSE
               /\ \E left \in {D!Absent, files[""]} : files' = [files EXCEPT ![""] = left]
      <4>1. files'[""] \in {D!Absent, <<"executable", "old">>}
        BY <1>f, <3>2, <3>4 DEF Names
      <4> QED
        BY <3>1, <3>4, <4>1 DEF Built
    <3> QED
      BY <1>14, <3>3, <3>4 DEF D!Assemble
  <2> QED
    BY <2>2, <2>4, <2>5 DEF Running
<1>15. CASE D!RemoveAssembly
  <2>1. status = "running" /\ Source /\ Verdict /\ Built
    BY <1>15 DEF D!RemoveAssembly, D!At, Running
  <2>2. Source'
    BY <1>15, <1>f, <2>1 DEF D!RemoveAssembly, D!At, D!Goto, D!Exit, D!Quiet, D!Stop, D!Continue, D!call, D!memory, Source, D!Absent, Names
  <2>4. Verdict'
    BY <1>15, <1>t, <2>1 DEF D!RemoveAssembly, D!At, D!Goto, D!Exit, D!Quiet, D!Stop, D!Continue, D!call, D!memory, D!Unit, Source, Late, Verdict, BeforeCleanup, AtCleanup, Parsed, Validated, Lowered, D!Correct
  <2>5. Built'
    BY <1>15, <1>f, <2>1 DEF D!RemoveAssembly, D!At, D!Goto, D!Exit, D!Quiet, D!Stop, D!Continue, D!call, D!memory, Built, Source, D!Absent, Names
  <2> QED
    BY <2>2, <2>4, <2>5 DEF Running
<1>16. CASE D!Finish
  <2>1. status = "running" /\ Source /\ Verdict /\ Built
    BY <1>16 DEF D!Finish, D!At, Running
  <2> QED
    BY <1>16 DEF D!Finish, D!Exit, Running
<1>17. CASE UNCHANGED D!vars
  BY <1>17 DEF Running, Source, Verdict, Built, BeforeCleanup, AtCleanup, Late, Parsed, Validated, Lowered, D!Correct, D!vars, D!call, D!memory
<1> QED
  BY <1>1, <1>2, <1>3, <1>4, <1>5, <1>6, <1>7, <1>8, <1>9, <1>10, <1>11, <1>12, <1>13, <1>14, <1>15, <1>16, <1>17 DEF D!Next

\* A driver that starts by itself, on a file that is not assembly.
Started == Ready /\ ext \in {".c", ".i"}

\* The inductive invariant holds in every state of every call with such a file.
LEMMA Invariant == ASSUME GccRuns = TRUE PROVE Started /\ [][D!Next]_(D!vars) => []IInv
<1>1. Started => IInv
  BY ReadyTyped, ReadyRunning DEF IInv, Started
<1>2. IInv /\ [D!Next]_(D!vars) => IInv'
  BY NextTyped, NextRunning DEF IInv
<1> QED
  BY <1>1, <1>2, PTL

-----------------------------------------------------------------------------
(* The driver implements Compilation. *)

\* An executable of this call's is a new one.
LEMMA UserSecond ==
  ASSUME NEW c, c = <<"executable", "user">> PROVE c[2] = "user" /\ c # D!Absent
<1>1. c[2] = "user"
  OBVIOUS
<1> QED
  BY <1>1 DEF D!Absent

\* An earlier executable is no new one.
LEMMA OldSecond ==
  ASSUME NEW c, c = <<"executable", "old">> PROVE c[2] = "old" /\ c # D!Absent
<1>1. c[2] = "old"
  OBVIOUS
<1> QED
  BY <1>1 DEF D!Absent

\* The executable as the promise sees it, from the file's content.
LEMMA ExecutableOf ==
  /\ files[""] = D!Absent => D!Executable = "absent"
  /\ files[""] = <<"executable", "old">> => D!Executable = "old"
  /\ files[""] = <<"executable", "user">> => D!Executable = "new"
<1>1. ASSUME files[""] = <<"executable", "old">> PROVE D!Executable = "old"
  <2>1. files[""][2] = "old" /\ files[""] # D!Absent
    BY <1>1, OldSecond
  <2> QED
    BY <2>1 DEF D!Executable
<1>2. ASSUME files[""] = <<"executable", "user">> PROVE D!Executable = "new"
  <2>1. files[""][2] = "user" /\ files[""] # D!Absent
    BY <1>2, UserSecond
  <2> QED
    BY <2>1 DEF D!Executable
<1> QED
  BY <1>1, <1>2 DEF D!Executable

\* The initial states are those of the promise.
LEMMA InitRefines == ASSUME Started PROVE D!Promise!Init
<1>1. files[""] \in {D!Absent, <<"executable", "old">>}
  BY ReadyRunning DEF Running, Built, D!Fresh, Ready, Started
<1>2. D!Executable \in {"absent", "old"}
  BY <1>1, ExecutableOf
<1>3. D!Outcome = "none"
  BY DEF Started, Ready, D!Fresh, D!Outcome
<1>4. D!Compiles(user, stem, flags) \in BOOLEAN /\ (flags # {}) \in BOOLEAN
  BY DEF D!Compiles, D!Correct
<1> QED
  BY <1>2, <1>3, <1>4 DEF D!Promise!Init

\* A step that ends nothing and makes no executable is none of the promise's.
LEMMA Stutters ==
  ASSUME UNCHANGED <<user, stem, flags, status>>, files'[""] = files[""]
  PROVE  UNCHANGED D!Promise!vars
BY DEF D!Promise!vars, D!Executable, D!Outcome, D!Compiles, D!Correct

\* The driver gives up.
LEMMA Fails ==
  ASSUME IInv, status = "running", status' \in {"failure", "crashed"}, files'[""] = files[""],
         UNCHANGED <<user, stem, flags>>, files[""] \in {D!Absent, <<"executable", "old">>}
  PROVE  D!Promise!Fail
<1>1. D!Executable # "new"
  BY ExecutableOf
<1>2. D!Outcome = "none" /\ D!Outcome' = "failure" /\ D!Executable' = D!Executable
  BY DEF D!Outcome, D!Executable
<1>3. UNCHANGED [stops |-> flags # {}, correct |-> D!Compiles(user, stem, flags)]
  BY DEF D!Compiles, D!Correct
<1> QED
  BY <1>1, <1>2, <1>3 DEF D!Promise!Fail

\* Before gcc has made it, there is no executable of this call's.
LEMMA NotYet ==
  ASSUME IInv, status = "running", place \notin {"remove assembly", "finish"}
  PROVE  files[""] \in {D!Absent, <<"executable", "old">>}
BY DEF IInv, Running, Built

\* Every step is a step of the promise, or none.
LEMMA NextRefines == ASSUME IInv, [D!Next]_(D!vars) PROVE [D!Promise!Next]_(D!Promise!vars)
<1>f. files \in [Names -> Contents]
  BY DEF IInv, Typed
<1>1. CASE D!Preprocess
  <2>1. files'[""] = files[""]
    BY <1>1, <1>f DEF D!Preprocess, Names
  <2> QED
    BY <1>1, <2>1, Stutters DEF D!Preprocess, D!At, D!Goto, D!Exit, D!Quiet, D!Stop, D!Continue, D!call, D!memory
<1>2. CASE D!OpenPreprocessed
  BY <1>2, Stutters DEF D!OpenPreprocessed, D!At, D!Goto, D!Exit, D!Quiet, D!Stop, D!Continue, D!call, D!memory
<1>3. CASE D!NothingToOpen
  BY <1>3, NotYet, Fails DEF D!NothingToOpen, D!At, D!Goto, D!Exit, D!Quiet, D!Stop, D!Continue, D!call, D!memory, D!Promise!Next
<1>4. CASE D!Lex
  BY <1>4, Stutters DEF D!Lex, D!At, D!Goto, D!Exit, D!Quiet, D!Stop, D!Continue, D!call, D!memory
<1>5. CASE D!Parse
  BY <1>5, Stutters DEF D!Parse, D!At, D!Goto, D!Exit, D!Quiet, D!Stop, D!Continue, D!call, D!memory
<1>6. CASE D!SemanticCrash
  BY <1>6, NotYet, Fails DEF D!SemanticCrash, D!At, D!Goto, D!Exit, D!Quiet, D!Stop, D!Continue, D!call, D!memory, D!Promise!Next
<1>7. CASE D!Semantic
  BY <1>7, Stutters DEF D!Semantic, D!At, D!Goto, D!Exit, D!Quiet, D!Stop, D!Continue, D!call, D!memory
<1>8. CASE D!GenerateIR
  BY <1>8, Stutters DEF D!GenerateIR, D!At, D!Goto, D!Exit, D!Quiet, D!Stop, D!Continue, D!call, D!memory
<1>9. CASE D!GenerateMachineIR
  BY <1>9, Stutters DEF D!GenerateMachineIR, D!At, D!Goto, D!Exit, D!Quiet, D!Stop, D!Continue, D!call, D!memory
<1>10. CASE D!Abort
  BY <1>10, NotYet, Fails DEF D!Abort, D!At, D!Goto, D!Exit, D!Quiet, D!Stop, D!Continue, D!call, D!memory, D!Promise!Next
<1>11. CASE D!Cleanup
  <2>1. files'[""] = files[""]
    BY <1>11, <1>f DEF D!Cleanup, Names
  <2>2. CASE ~canExit
    BY <1>11, <2>1, <2>2, Stutters DEF D!Cleanup, D!At, D!Goto, D!Exit, D!Quiet, D!Stop, D!Continue, D!call, D!memory
  <2>3. CASE canExit /\ hadError
    BY <1>11, <2>1, <2>3, NotYet, Fails DEF D!Cleanup, D!At, D!Goto, D!Exit, D!Quiet, D!Stop, D!Continue, D!call, D!memory, D!Promise!Next
  <2>4. CASE canExit /\ ~hadError
    <3>1. flags # {} /\ D!Compiles(user, stem, flags)
      BY <1>11, <2>4 DEF D!Cleanup, D!At, IInv, Running, Verdict, AtCleanup, D!Compiles
    <3>2. D!Outcome = "none" /\ D!Outcome' = "success" /\ D!Executable' = D!Executable
      BY <1>11, <2>1, <2>4 DEF D!Cleanup, D!At, D!Exit, D!Outcome, D!Executable
    <3>3. UNCHANGED [stops |-> flags # {}, correct |-> D!Compiles(user, stem, flags)]
      BY <1>11 DEF D!Cleanup, D!call, D!Compiles, D!Correct
    <3> QED
      BY <3>1, <3>2, <3>3 DEF D!Promise!Next, D!Promise!Succeed
  <2> QED
    BY <2>2, <2>3, <2>4
<1>12. CASE D!EmitAssembly
  <2>1. files'[""] = files[""]
    BY <1>12, <1>f DEF D!EmitAssembly, Names
  <2> QED
    BY <1>12, <2>1, Stutters DEF D!EmitAssembly, D!At, D!Goto, D!Exit, D!Quiet, D!Stop, D!Continue, D!call, D!memory
<1>13. CASE D!CannotCreate
  BY <1>13, NotYet, Fails DEF D!CannotCreate, D!At, D!Goto, D!Exit, D!Quiet, D!Stop, D!Continue, D!call, D!memory, D!Promise!Next
<1>14. CASE D!Assemble
  <2>1. files[".s"] = <<"assembly", "user">> /\ flags = {} /\ Lowered
    BY <1>14 DEF D!Assemble, D!At, IInv, Running, Built, Verdict, Late, Lowered
  <2>2. files[""] \in {D!Absent, <<"executable", "old">>}
    BY <1>14, NotYet DEF D!Assemble, D!At
  <2>3. UNCHANGED [stops |-> flags # {}, correct |-> D!Compiles(user, stem, flags)]
    BY <1>14 DEF D!Assemble, D!call, D!Compiles, D!Correct
  <2>4. D!Outcome = "none" /\ D!Outcome' = "none"
    BY <1>14 DEF D!Assemble, D!At, D!Goto, D!Outcome
  <2>5. CASE stem # "" /\ files' = [files EXCEPT ![""] = <<"executable", files[".s"][2]>>]
    <3>1. files[".s"] = <<"assembly", "user">>
      BY <2>1
    <3>2. files[".s"][2] = "user"
      BY <3>1
    <3>3. files'[""] = <<"executable", "user">>
      <4>1. files' = [files EXCEPT ![""] = <<"executable", "user">>]
        BY <2>5, <3>2
      <4> QED
        BY <1>f, <4>1 DEF Names
    <3>4. files'[""][2] = "user" /\ files'[""] # D!Absent
      BY <3>3, UserSecond
    <3>5. D!Executable' = "new"
      BY <3>4 DEF D!Executable, D!Absent
    <3>6. D!Compiles(user, stem, flags)
      BY <2>1, <2>5 DEF D!Compiles, D!Correct, Lowered, Validated, Parsed
    <3> QED
      BY <2>1, <2>3, <2>4, <3>5, <3>6 DEF D!Promise!Next, D!Promise!Build
  <2>6. CASE \E left \in {D!Absent, files[""]} : files' = [files EXCEPT ![""] = left]
    <3>1. files'[""] = D!Absent \/ files'[""] = files[""]
      BY <1>f, <2>6 DEF Names
    <3>2. CASE files'[""] = files[""]
      BY <1>14, <3>2, Stutters DEF D!Assemble, D!At, D!Goto, D!Exit, D!Quiet, D!Stop, D!Continue, D!call, D!memory
    <3>3. CASE files'[""] = D!Absent /\ files[""] # D!Absent
      <4>1. files[""] = <<"executable", "old">>
        BY <2>2, <3>3
      <4>2. files[""][2] = "old"
        BY <4>1, OldSecond
      <4>3. D!Executable = "old" /\ D!Executable' = "absent"
        BY <3>3, <4>2 DEF D!Executable, D!Absent
      <4> QED
        BY <2>3, <2>4, <4>3 DEF D!Promise!Next, D!Promise!Lose
    <3> QED
      BY <3>1, <3>2, <3>3
  <2> QED
    BY <1>14, <2>5, <2>6 DEF D!Assemble
<1>15. CASE D!RemoveAssembly
  <2>1. files'[""] = files[""]
    BY <1>15, <1>f DEF D!RemoveAssembly, Names
  <2>2. CASE assembled
    BY <1>15, <2>1, <2>2, Stutters DEF D!RemoveAssembly, D!At, D!Goto, D!Exit, D!Quiet, D!Stop, D!Continue, D!call, D!memory
  <2>3. CASE ~assembled
    <3>1. files[""] \in {D!Absent, <<"executable", "old">>}
      BY <1>15, <2>3 DEF D!RemoveAssembly, D!At, IInv, Running, Built
    <3> QED
      BY <1>15, <2>1, <2>3, <3>1, Fails DEF D!RemoveAssembly, D!At, D!Goto, D!Exit, D!Quiet, D!Stop, D!Continue, D!call, D!memory, D!Promise!Next
  <2> QED
    BY <2>2, <2>3
<1>16. CASE D!Finish
  <2>1. files[""] = <<"executable", "user">> /\ flags = {}
    BY <1>16 DEF D!Finish, D!At, IInv, Running, Built, Verdict, Late, Lowered
  <2>2. files[""] = <<"executable", "user">>
    BY <2>1
  <2>3. files[""][2] = "user"
    BY <2>2, UserSecond
  <2>4. D!Executable = "new"
    BY <2>2, ExecutableOf
  <2>5. D!Outcome = "none" /\ D!Outcome' = "success" /\ D!Executable' = D!Executable
    BY <1>16 DEF D!Finish, D!At, D!Exit, D!Quiet, D!Outcome, D!Executable
  <2>6. UNCHANGED [stops |-> flags # {}, correct |-> D!Compiles(user, stem, flags)]
    BY <1>16 DEF D!Finish, D!Quiet, D!call, D!Compiles, D!Correct
  <2> QED
    BY <2>1, <2>4, <2>5, <2>6 DEF D!Promise!Next, D!Promise!Succeed
<1>17. CASE UNCHANGED D!vars
  BY <1>17, Stutters DEF D!vars, D!call
<1> QED
  BY <1>1, <1>2, <1>3, <1>4, <1>5, <1>6, <1>7, <1>8, <1>9, <1>10, <1>11, <1>12, <1>13, <1>14, <1>15, <1>16, <1>17 DEF D!Next

\* With a preprocessor that can be started and a .c or .i file, whatever the
\* program, the flags, the outcomes of gcc and the files of earlier calls, the exit
\* status and the executable of driver_start tell the truth.
THEOREM DriverImplementsCompilation ==
  ASSUME GccRuns = TRUE PROVE Started /\ [][D!Next]_(D!vars) => D!KeepsPromise
<1>1. Started => D!Promise!Init
  BY InitRefines
<1>2. IInv /\ [D!Next]_(D!vars) => [D!Promise!Next]_(D!Promise!vars)
  BY NextRefines
<1> QED
  BY <1>1, <1>2, Invariant, PTL DEF D!KeepsPromise, D!Promise!Spec

-----------------------------------------------------------------------------
(* Memory *)

\* What of the stages before is still there for those to come.
Live ==
  status = "running" =>
    /\ place = "lex" => "buffer" \in live
    /\ place \in {"parse", "semantic", "ir"} => "tokens" \in live
    /\ (place = "semantic" /\ D!Unit.tree # "none") => "tree" \in live
    /\ place = "ir" => "tree" \in live /\ "names" \in live
    /\ place = "machine ir" => "ir" \in live
    /\ (place = "cleanup" /\ ~canExit) \/ place = "emit" => "ir" \in live /\ "program" \in live

\* Every action keeps what the later stages point into.
LEMMA NextLive == ASSUME Live, [D!Next]_(D!vars) PROVE Live'
<1>1. CASE D!Preprocess
  BY <1>1 DEF Live, D!Preprocess, D!At, D!Goto
<1>2. CASE D!OpenPreprocessed
  BY <1>2 DEF Live, D!OpenPreprocessed, D!At, D!Goto
<1>3. CASE D!NothingToOpen \/ D!SemanticCrash \/ D!Abort \/ D!CannotCreate
  BY <1>3 DEF Live, D!NothingToOpen, D!SemanticCrash, D!Abort, D!CannotCreate, D!Exit
<1>4. CASE D!Lex
  BY <1>4 DEF Live, D!Lex, D!At, D!Goto, D!Stop, D!Continue
<1>5. CASE D!Parse
  BY <1>5 DEF Live, D!Parse, D!At, D!Goto, D!Stop, D!Continue, D!Quiet, D!call, D!Unit
<1>6. CASE D!Semantic
  BY <1>6 DEF Live, D!Semantic, D!At, D!Goto, D!Stop, D!Continue
<1>7. CASE D!GenerateIR
  BY <1>7 DEF Live, D!GenerateIR, D!At, D!Goto, D!Continue
<1>8. CASE D!GenerateMachineIR
  BY <1>8 DEF Live, D!GenerateMachineIR, D!At, D!Goto, D!Stop, D!Continue
<1>9. CASE D!Cleanup
  BY <1>9 DEF Live, D!Cleanup, D!At, D!Goto, D!Exit
<1>10. CASE D!EmitAssembly \/ D!Assemble
  BY <1>10 DEF Live, D!EmitAssembly, D!Assemble, D!At, D!Goto
<1>11. CASE D!RemoveAssembly \/ D!Finish
  BY <1>11 DEF Live, D!RemoveAssembly, D!Finish, D!At, D!Goto, D!Exit
<1>12. CASE UNCHANGED D!vars
  BY <1>12 DEF Live, D!vars, D!memory, D!call, D!Unit
<1> QED
  BY <1>1, <1>2, <1>3, <1>4, <1>5, <1>6, <1>7, <1>8, <1>9, <1>10, <1>11, <1>12 DEF D!Next

\* No stage is called with a pointer into what the cleanup, or a stage before,
\* has freed: driver_start frees in the order its stages allow.
THEOREM DriverKeepsMemory == D!Fresh /\ [][D!Next]_(D!vars) => []D!ReadsLiveMemory
<1>1. D!Fresh => Live
  BY DEF D!Fresh, Live
<1>2. Live /\ [D!Next]_(D!vars) => Live'
  BY NextLive
<1>3. Live => D!ReadsLiveMemory
  BY DEF Live, D!ReadsLiveMemory, D!Reads
<1> QED
  BY <1>1, <1>2, <1>3, PTL

-----------------------------------------------------------------------------
(* What is in the files, whatever they are *)

Origins     == {"user", "old"}
Texts       == {D!Absent} \cup {<<"text", s>> : s \in Origins}
Executables == {D!Absent} \cup {<<"executable", s>> : s \in Origins}
Assemblies  == {<<"assembly", s>> : s \in Origins}

\* The variables that are no files.
States ==
  /\ place \in D!Places /\ live \subseteq D!Memory /\ input \in Origins
  /\ canExit \in BOOLEAN /\ hadError \in BOOLEAN /\ assembled \in BOOLEAN
  /\ status \in {"running", "success", "failure", "crashed"}

\* An assembly file is there for gcc, and never when the call has ended.
Shaped ==
  /\ files \in [Names -> Contents]
  /\ files[".i"] \in Texts /\ files[""] \in Executables
  /\ files[".s"] \in Texts \cup Assemblies
  /\ files[".s"] \in Assemblies =>
       status = "running" /\ place \in {"assemble", "remove assembly"}
  /\ place = "assemble" => files[".s"] \in Assemblies
  /\ States

\* The first part of a content is its kind, the second its origin.
LEMMA Kinds ==
  /\ \A c \in Texts : c[1] \in {"nothing", "text"} /\ c \in Contents
  /\ \A c \in Texts \ {D!Absent} : c[2] \in Origins
  /\ \A c \in Executables : c[1] \in {"nothing", "executable"} /\ c \in Contents
  /\ \A c \in Assemblies : c[1] = "assembly" /\ c[2] \in Origins /\ c \in Contents
  /\ \A c \in Contents : c[1] \in {"nothing", "text", "assembly", "executable"}
  /\ \A c \in Texts : c \notin Assemblies
BY DEF Texts, Executables, Assemblies, Contents, D!Absent, Origins

\* One file is written with what may be in it.
LEMMA Written ==
  ASSUME NEW f \in [Names -> Contents], NEW x \in Names, NEW c \in Contents, NEW g,
         g = [f EXCEPT ![x] = c]
  PROVE  g \in [Names -> Contents] /\ g[x] = c /\ \A y \in Names : y # x => g[y] = f[y]
OBVIOUS

\* The four names.
LEMMA TheNames ==
  /\ ".i" \in Names /\ ".s" \in Names /\ "" \in Names
  /\ ".i" # ".s" /\ "" # ".s" /\ "" # ".i"
BY DEF Names

\* The initial files of every call.
LEMMA DirectoryShaped ==
  ASSUME NEW x \in {".c", ".i", ".s"}, files \in Found(x), D!Fresh
  PROVE  Shaped
<1>1. PICK a \in {D!Absent, <<"text", "old">>}, e \in {D!Absent, <<"executable", "old">>} :
        files = Directory(x, a, e)
  BY SomeDirectory
<1>2. a \in Texts /\ e \in Executables /\ D!Absent \in Texts /\ <<"text", "user">> \in Texts
  BY DEF Texts, Executables, Origins
<1>3. files \in [Names -> Contents]
  BY <1>1, <1>2, Kinds DEF Names, Directory
<1>4. files[".i"] \in Texts /\ files[""] \in Executables /\ files[".s"] \in Texts
  BY <1>1, <1>2 DEF Directory
<1> QED
  BY <1>3, <1>4, Kinds DEF D!Fresh, Shaped, States, D!Places, Origins

\* Every action of every call keeps the kinds of the files.
LEMMA NextShaped == ASSUME Shaped, [D!Next]_(D!vars) PROVE Shaped'
<1>s. States
  BY DEF Shaped
<1>f. files \in [Names -> Contents]
  BY DEF Shaped
<1>1. CASE D!Preprocess
  <2>1. \E c \in Texts : files' = [files EXCEPT ![".i"] = c]
    <3>1. CASE UNCHANGED files
      <4>1. files' = [files EXCEPT ![".i"] = files[".i"]]
        BY <1>f, <3>1 DEF Names
      <4> QED
        BY <4>1 DEF Shaped
    <3> QED
      BY <1>1, <3>1 DEF D!Preprocess, Texts, Origins
  <2>2. PICK c \in Texts : files' = [files EXCEPT ![".i"] = c]
    BY <2>1
  <2>3. files' \in [Names -> Contents] /\ files'[".i"] = c /\ files'[""] = files[""] /\ files'[".s"] = files[".s"]
    <3>1. c \in Contents
      BY Kinds
    <3> QED
      BY <1>f, <2>2, <3>1, TheNames, Written
  <2>4. States' /\ place' = "open" /\ status = "running" /\ place = "preprocess"
    BY <1>1, <1>s DEF D!Preprocess, D!At, D!Goto, D!Exit, D!Quiet, D!Stop, D!Continue, D!call, D!memory, States, D!Places
  <2> QED
    BY <2>3, <2>4 DEF Shaped
<1>2. CASE D!OpenPreprocessed
  <2>1. files[".i"][2] \in Origins
    BY <1>2, Kinds DEF D!OpenPreprocessed, Shaped
  <2>2. States' /\ place' = "lex" /\ status = "running" /\ place = "open"
    BY <1>2, <1>s, <2>1 DEF D!OpenPreprocessed, D!At, D!Goto, D!Exit, D!Quiet, D!Stop, D!Continue, D!call, D!memory, States, D!Places, D!Memory
  <2>3. UNCHANGED files
    BY <1>2 DEF D!OpenPreprocessed, D!Quiet
  <2> QED
    BY <2>2, <2>3 DEF Shaped
<1>3. CASE D!NothingToOpen
  <2>1. UNCHANGED files
    BY <1>3 DEF D!NothingToOpen, D!Quiet
  <2>2. States' /\ (place' = "assemble" => place = "assemble")
    BY <1>3, <1>s DEF D!NothingToOpen, D!At, D!Goto, D!Exit, D!Quiet, D!Stop, D!Continue, D!call, D!memory, States, D!Places, D!Memory
  <2>3. status = "running" /\ place \notin {"assemble", "remove assembly"}
    BY <1>3 DEF D!NothingToOpen, D!At
  <2> QED
    BY <2>1, <2>2, <2>3 DEF Shaped
<1>4. CASE D!Lex
  <2>1. UNCHANGED files
    BY <1>4 DEF D!Lex, D!Quiet
  <2>2. States' /\ (place' = "assemble" => place = "assemble")
    BY <1>4, <1>s DEF D!Lex, D!At, D!Goto, D!Exit, D!Quiet, D!Stop, D!Continue, D!call, D!memory, States, D!Places, D!Memory
  <2>3. status = "running" /\ place \notin {"assemble", "remove assembly"}
    BY <1>4 DEF D!Lex, D!At
  <2> QED
    BY <2>1, <2>2, <2>3 DEF Shaped
<1>5. CASE D!Parse
  <2>1. UNCHANGED files
    BY <1>5 DEF D!Parse, D!Quiet
  <2>2. States' /\ (place' = "assemble" => place = "assemble")
    BY <1>5, <1>s DEF D!Parse, D!At, D!Goto, D!Exit, D!Quiet, D!Stop, D!Continue, D!call, D!memory, States, D!Places, D!Memory
  <2>3. status = "running" /\ place \notin {"assemble", "remove assembly"}
    BY <1>5 DEF D!Parse, D!At
  <2> QED
    BY <2>1, <2>2, <2>3 DEF Shaped
<1>6. CASE D!SemanticCrash
  <2>1. UNCHANGED files
    BY <1>6 DEF D!SemanticCrash, D!Quiet
  <2>2. States' /\ (place' = "assemble" => place = "assemble")
    BY <1>6, <1>s DEF D!SemanticCrash, D!At, D!Goto, D!Exit, D!Quiet, D!Stop, D!Continue, D!call, D!memory, States, D!Places, D!Memory
  <2>3. status = "running" /\ place \notin {"assemble", "remove assembly"}
    BY <1>6 DEF D!SemanticCrash, D!At
  <2> QED
    BY <2>1, <2>2, <2>3 DEF Shaped
<1>7. CASE D!Semantic
  <2>1. UNCHANGED files
    BY <1>7 DEF D!Semantic, D!Quiet
  <2>2. States' /\ (place' = "assemble" => place = "assemble")
    BY <1>7, <1>s DEF D!Semantic, D!At, D!Goto, D!Exit, D!Quiet, D!Stop, D!Continue, D!call, D!memory, States, D!Places, D!Memory
  <2>3. status = "running" /\ place \notin {"assemble", "remove assembly"}
    BY <1>7 DEF D!Semantic, D!At
  <2> QED
    BY <2>1, <2>2, <2>3 DEF Shaped
<1>8. CASE D!GenerateIR
  <2>1. UNCHANGED files
    BY <1>8 DEF D!GenerateIR, D!Quiet
  <2>2. States' /\ (place' = "assemble" => place = "assemble")
    BY <1>8, <1>s DEF D!GenerateIR, D!At, D!Goto, D!Exit, D!Quiet, D!Stop, D!Continue, D!call, D!memory, States, D!Places, D!Memory
  <2>3. status = "running" /\ place \notin {"assemble", "remove assembly"}
    BY <1>8 DEF D!GenerateIR, D!At
  <2> QED
    BY <2>1, <2>2, <2>3 DEF Shaped
<1>9. CASE D!GenerateMachineIR
  <2>1. UNCHANGED files
    BY <1>9 DEF D!GenerateMachineIR, D!Quiet
  <2>2. States' /\ (place' = "assemble" => place = "assemble")
    BY <1>9, <1>s DEF D!GenerateMachineIR, D!At, D!Goto, D!Exit, D!Quiet, D!Stop, D!Continue, D!call, D!memory, States, D!Places, D!Memory
  <2>3. status = "running" /\ place \notin {"assemble", "remove assembly"}
    BY <1>9 DEF D!GenerateMachineIR, D!At
  <2> QED
    BY <2>1, <2>2, <2>3 DEF Shaped
<1>10. CASE D!Abort
  <2>1. UNCHANGED files
    BY <1>10 DEF D!Abort, D!Quiet
  <2>2. States' /\ (place' = "assemble" => place = "assemble")
    BY <1>10, <1>s DEF D!Abort, D!At, D!Goto, D!Exit, D!Quiet, D!Stop, D!Continue, D!call, D!memory, States, D!Places, D!Memory
  <2>3. status = "running" /\ place \notin {"assemble", "remove assembly"}
    BY <1>10 DEF D!Abort, D!At
  <2> QED
    BY <2>1, <2>2, <2>3 DEF Shaped
<1>11. CASE D!Cleanup
  <2>1. PICK c \in {D!Absent, files[".i"]} : files' = [files EXCEPT ![".i"] = c]
    BY <1>11 DEF D!Cleanup
  <2>2. c \in Texts
    BY DEF Shaped, Texts
  <2>3. files' \in [Names -> Contents] /\ files'[".i"] = c /\ files'[""] = files[""] /\ files'[".s"] = files[".s"]
    <3>1. c \in Contents
      BY <2>2, Kinds
    <3>2. files' \in [Names -> Contents] /\ files'[".i"] = c /\ \A y \in Names : y # ".i" => files'[y] = files[y]
      BY <1>f, <2>1, <3>1, TheNames, Written
    <3> QED
      BY <3>2, TheNames
  <2>4. States' /\ place' # "assemble" /\ status = "running" /\ place = "cleanup"
    BY <1>11, <1>s DEF D!Cleanup, D!At, D!Goto, D!Exit, D!Quiet, D!Stop, D!Continue, D!call, D!memory, States, D!Places, D!Memory
  <2> QED
    BY <2>2, <2>3, <2>4 DEF Shaped
<1>12. CASE D!EmitAssembly
  <2>1. <<"assembly", input>> \in Assemblies
    BY <1>s DEF States, Assemblies
  <2>2. files' = [files EXCEPT ![".s"] = <<"assembly", input>>]
    BY <1>12 DEF D!EmitAssembly
  <2>3. files' \in [Names -> Contents] /\ files'[".s"] = <<"assembly", input>>
        /\ files'[""] = files[""] /\ files'[".i"] = files[".i"]
    <3>1. PICK c : c = <<"assembly", input>>
      OBVIOUS
    <3>2. c \in Contents
      BY <2>1, <3>1, Kinds
    <3>3. files' \in [Names -> Contents] /\ files'[".s"] = c /\ \A y \in Names : y # ".s" => files'[y] = files[y]
      BY <1>f, <2>2, <3>1, <3>2, TheNames, Written
    <3> QED
      BY <3>1, <3>3, TheNames
  <2>4. States' /\ place' = "assemble" /\ status' = "running"
    BY <1>12, <1>s DEF D!EmitAssembly, D!At, D!Goto, D!Exit, D!Quiet, D!Stop, D!Continue, D!call, D!memory, States, D!Places
  <2> QED
    BY <2>1, <2>3, <2>4 DEF Shaped
<1>13. CASE D!CannotCreate
  <2>1. UNCHANGED files
    BY <1>13 DEF D!CannotCreate, D!Quiet
  <2>2. States' /\ (place' = "assemble" => place = "assemble")
    BY <1>13, <1>s DEF D!CannotCreate, D!At, D!Goto, D!Exit, D!Quiet, D!Stop, D!Continue, D!call, D!memory, States, D!Places, D!Memory
  <2>3. status = "running" /\ place \notin {"assemble", "remove assembly"}
    BY <1>13 DEF D!CannotCreate, D!At
  <2> QED
    BY <2>1, <2>2, <2>3 DEF Shaped
<1>14. CASE D!Assemble
  <2>1. files[".s"] \in Assemblies /\ files[""] \in Executables
    BY <1>14 DEF D!Assemble, D!At, Shaped
  <2>2. <<"executable", files[".s"][2]>> \in Executables /\ D!Absent \in Executables
    BY <2>1, Kinds DEF Executables
  <2>3. PICK c \in Executables : files' = [files EXCEPT ![""] = c]
    BY <1>14, <2>1, <2>2 DEF D!Assemble
  <2>4. files' \in [Names -> Contents] /\ files'[""] = c /\ files'[".i"] = files[".i"] /\ files'[".s"] = files[".s"]
    <3>1. c \in Contents
      BY Kinds
    <3>2. files' \in [Names -> Contents] /\ files'[""] = c /\ \A y \in Names : y # "" => files'[y] = files[y]
      BY <1>f, <2>3, <3>1, TheNames, Written
    <3> QED
      BY <3>2, TheNames
  <2>5. States' /\ place' = "remove assembly" /\ status' = "running"
    BY <1>14, <1>s DEF D!Assemble, D!At, D!Goto, D!Exit, D!Quiet, D!Stop, D!Continue, D!call, D!memory, States, D!Places
  <2> QED
    BY <2>4, <2>5 DEF Shaped
<1>15. CASE D!RemoveAssembly
  <2>1. files' = [files EXCEPT ![".s"] = D!Absent] /\ D!Absent \in Texts
    BY <1>15 DEF D!RemoveAssembly, Texts
  <2>2. files' \in [Names -> Contents] /\ files'[".s"] = D!Absent /\ files'[".i"] = files[".i"] /\ files'[""] = files[""]
    <3>1. D!Absent \in Contents
      BY <2>1, Kinds
    <3> QED
      BY <1>f, <2>1, <3>1, TheNames, Written
  <2>3. States' /\ place' # "assemble"
    BY <1>15, <1>s DEF D!RemoveAssembly, D!At, D!Goto, D!Exit, D!Quiet, D!Stop, D!Continue, D!call, D!memory, States, D!Places
  <2> QED
    BY <2>1, <2>2, <2>3, Kinds DEF Shaped
<1>16. CASE D!Finish
  <2>1. UNCHANGED files
    BY <1>16 DEF D!Finish, D!Quiet
  <2>2. States' /\ (place' = "assemble" => place = "assemble")
    BY <1>16, <1>s DEF D!Finish, D!At, D!Goto, D!Exit, D!Quiet, D!Stop, D!Continue, D!call, D!memory, States, D!Places, D!Memory
  <2>3. status = "running" /\ place \notin {"assemble", "remove assembly"}
    BY <1>16 DEF D!Finish, D!At
  <2> QED
    BY <2>1, <2>2, <2>3 DEF Shaped
<1>17. CASE UNCHANGED D!vars
  BY <1>17 DEF Shaped, States, D!vars, D!call, D!memory
<1> QED
  BY <1>1, <1>2, <1>3, <1>4, <1>5, <1>6, <1>7, <1>8, <1>9, <1>10, <1>11, <1>12, <1>13, <1>14, <1>15, <1>16, <1>17 DEF D!Next

\* The files have their kinds, and a call that has come to an exit has left no
\* assembly file of its own behind.
LEMMA ShapedFiles ==
  ASSUME Shaped
  PROVE  D!TypeOK /\ D!AssemblyRemoved
<1>1. D!TypeOK
  <2>1. DOMAIN files = Names /\ \A x \in Names : files[x] \in Contents
    BY DEF Shaped
  <2>2. files[".s"][1] \in {"nothing", "assembly", "text"}
    BY Kinds DEF Shaped
  <2> QED
    BY <2>1, <2>2, Kinds DEF Shaped, States, D!TypeOK, Origins
<1>2. D!AssemblyRemoved
  BY Kinds DEF Shaped, D!AssemblyRemoved
<1> QED
  BY <1>1, <1>2

\* No file of an earlier call is an executable of this one's.
LEMMA ReadyExecutable ==
  ASSUME NEW x \in {".c", ".i", ".s"}, files \in Found(x)
  PROVE  D!Executable \in {"absent", "old"}
<1>1. PICK a \in {D!Absent, <<"text", "old">>}, e \in {D!Absent, <<"executable", "old">>} :
        files = Directory(x, a, e)
  BY SomeDirectory
<1>2. files[""] = e
  BY <1>1 DEF Directory
<1> QED
  BY <1>2, ExecutableOf

\* The call stays what it is.
LEMMA CallStays == ASSUME D!Next PROVE UNCHANGED D!call
BY DEF D!Next, D!Preprocess, D!OpenPreprocessed, D!NothingToOpen, D!Lex, D!Parse, D!SemanticCrash, D!Semantic,
       D!GenerateIR, D!GenerateMachineIR, D!Abort, D!Cleanup, D!EmitAssembly, D!CannotCreate, D!Assemble,
       D!RemoveAssembly, D!Finish, D!Quiet

-----------------------------------------------------------------------------
(* The whole call *)

\* args_parse is done when the driver starts, and it does not touch its state.
LEMMA ParsingFirst == ASSUME ParseArguments PROVE parsing = "running" /\ UNCHANGED driver
BY DEF ParseArguments, A!Next, A!ParseFlag, A!ParseValue, A!MissingValue, A!TakeFile,
       A!InvalidArgument, A!ShortArgument, A!GiveUp, A!StartDriver, A!Parsing, A!Parsed

\* What the driver's state is before it starts.
Idle == D!Fresh /\ user \in D!Units /\ files \in N!Directories

\* The named file is that of the line.
LEMMA SameLine ==
  ASSUME UNCHANGED argv
  PROVE  UNCHANGED <<A!IsValue, A!Positions, A!Others, Named, Asked, A!WellFormed>>
<1>1. UNCHANGED <<A!IsValue, A!Positions>>
  BY DEF A!IsValue, A!Positions
<1>2. UNCHANGED <<A!Given(A!Plain), A!Given(A!Valued), A!Given(A!Plain \cup A!Valued)>>
  BY <1>1 DEF A!Given
<1>3. UNCHANGED A!Others
  BY <1>1, <1>2 DEF A!Others
<1> QED
  BY <1>1, <1>2, <1>3 DEF Named, Asked, A!WellFormed, A!Dashed, A!Complete

\* A step of the driver in the call.
LEMMA DriverStep == ASSUME Drive PROVE D!Next
BY DEF Drive

\* A call in which nothing happens.
LEMMA DriverStutters == ASSUME UNCHANGED vars PROVE UNCHANGED D!vars
BY DEF vars, arguments, driver, D!vars, D!memory, D!call, ext, stem, flags

\* Before the driver starts its state stays.
LEMMA IdleStays == ASSUME Idle, UNCHANGED <<argv, driver>> PROVE Idle'
<1>1. UNCHANGED Named
  BY SameLine
<1>2. N!Directories' = N!Directories
  BY <1>1 DEF N!Directories
<1> QED
  BY <1>2 DEF Idle, D!Fresh, driver

-----------------------------------------------------------------------------
(* Memory *)

\* The stages before the driver have no data.
AlwaysLive == (parsing # "driver" => D!Fresh) /\ Live

\* No stage of a call, whatever its command line, reads what an earlier one has
\* freed.
THEOREM MemoryIsThere == Spec => []ReadsLiveMemory
<1>1. D!Fresh => Live
  BY DEF D!Fresh, Live
<1>2. Init => AlwaysLive
  BY <1>1 DEF Init, AlwaysLive
<1>3. AlwaysLive /\ [Next]_vars => AlwaysLive'
  <2> SUFFICES ASSUME AlwaysLive, [Next]_vars PROVE AlwaysLive'
    OBVIOUS
  <2>1. CASE ParseArguments
    <3>1. D!Fresh /\ UNCHANGED driver
      BY <2>1, ParsingFirst DEF AlwaysLive
    <3>2. D!Fresh'
      BY <3>1 DEF D!Fresh, driver
    <3>3. Live'
      BY <3>2 DEF D!Fresh, Live
    <3> QED
      BY <3>2, <3>3 DEF AlwaysLive
  <2>2. CASE Drive
    <3>1. Live'
      BY <2>2, DriverStep, NextLive DEF AlwaysLive
    <3> QED
      BY <2>2, <3>1 DEF AlwaysLive, Drive, arguments
  <2>3. CASE UNCHANGED vars
    <3>1. Live'
      BY <2>3, DriverStutters, NextLive DEF AlwaysLive
    <3>2. D!Fresh => D!Fresh'
      BY <2>3 DEF D!Fresh, driver, vars
    <3> QED
      BY <2>3, <3>1, <3>2 DEF AlwaysLive, vars, arguments
  <2> QED
    BY <2>1, <2>2, <2>3 DEF Next
<1>4. AlwaysLive => ReadsLiveMemory
  BY DEF AlwaysLive, Live, ReadsLiveMemory, D!ReadsLiveMemory, D!Reads
<1> QED
  BY <1>2, <1>3, <1>4, PTL DEF Spec
-----------------------------------------------------------------------------
(* Types and files *)

\* A name has one of the three extensions.
LEMMA ThreeExtensions == \A f : Extension(f) \in {".c", ".i", ".s"}
BY DEF Extension

\* The directories that the call may start in.
LEMMA NamedDirectories == N!Directories = Found(Extension(Named))
BY DEF N!Directories, N!Absent, D!Absent, Found, Directory

\* The initial files have their kinds, whatever the line names.
LEMMA IdleShaped == ASSUME Idle PROVE Shaped
<1>1. files \in Found(Extension(Named))
  BY NamedDirectories DEF Idle
<1> QED
  BY <1>1, ThreeExtensions, DirectoryShaped DEF Idle

\* args_parse keeps to argv and its flags.
LEMMA ArgumentsTyped ==
  ASSUME argv \in Seq(Seq(STRING)), A!TypeOK, [A!Next]_arguments
  PROVE  A!TypeOK'
<1>l. Len(argv) \in Nat /\ A!Positions = 1..Len(argv)
  BY DEF A!Positions
<1> USE DEF A!TypeOK, A!Parsing, A!Full, A!Arg, A!put, A!NoFile
<1>1. CASE A!ParseFlag
  <2>1. i \in 1..Len(argv) /\ i' = i + 1 /\ argv' = argv
    BY <1>1, <1>l DEF A!ParseFlag
  <2>2. DOMAIN userArgs' \subseteq A!Plain \cup A!Valued
    BY <1>1 DEF A!ParseFlag
  <2>3. i' \in 1..Len(argv)+1
    BY <1>l, <2>1
  <2> QED
    BY <1>1, <2>1, <2>2, <2>3 DEF A!ParseFlag, A!Positions, A!Plain, A!Valued
<1>2. CASE A!ParseValue
  <2>1. i \in 1..Len(argv) /\ i' = i + 2 /\ i < Len(argv) /\ argv' = argv
    BY <1>2, <1>l DEF A!ParseValue
  <2>2. DOMAIN userArgs' \subseteq A!Plain \cup A!Valued
    BY <1>2 DEF A!ParseValue
  <2>3. i' \in 1..Len(argv)+1
    BY <1>l, <2>1
  <2> QED
    BY <1>2, <2>1, <2>2, <2>3 DEF A!ParseValue, A!Positions, A!Plain, A!Valued
<1>3. CASE A!TakeFile
  <2>1. i \in 1..Len(argv) /\ i' = i + 1 /\ argv' = argv /\ filename' = argv[i]
    BY <1>3, <1>l DEF A!TakeFile
  <2>2. i' \in 1..Len(argv)+1
    BY <1>l, <2>1
  <2> QED
    BY <1>3, <2>1, <2>2 DEF A!TakeFile, A!Positions, A!Plain, A!Valued
<1>4. CASE A!InvalidArgument
  <2>1. i \in 1..Len(argv) /\ i' = i + 1 /\ argv' = argv
    BY <1>4, <1>l DEF A!InvalidArgument
  <2>2. i' \in 1..Len(argv)+1
    BY <1>l, <2>1
  <2> QED
    BY <1>4, <2>1, <2>2 DEF A!InvalidArgument, A!Positions, A!Plain, A!Valued
<1>5. CASE A!MissingValue \/ A!ShortArgument \/ A!GiveUp \/ A!StartDriver
  BY <1>5 DEF A!MissingValue, A!ShortArgument, A!GiveUp, A!StartDriver, A!Positions, A!Plain, A!Valued
<1>6. CASE UNCHANGED arguments
  BY <1>6 DEF arguments, A!Positions, A!Plain, A!Valued
<1> QED
  BY <1>1, <1>2, <1>3, <1>4, <1>5, <1>6 DEF A!Next

\* The invariant of the types.
Kept == argv \in Seq(Seq(STRING)) /\ A!TypeOK /\ (parsing # "driver" => Idle) /\ Shaped

\* A call starts with its types right,
LEMMA InitKept == Init => Kept
<1> SUFFICES ASSUME Init PROVE Kept
  OBVIOUS
<1>1. argv \in Seq(Seq(STRING))
  BY UnebccAssumption DEF Init, A!Init
<1>2. Idle
  BY DEF Init, Idle
<1>3. A!TypeOK
  <2>1. 1 \in 1..Len(argv)+1
    BY <1>1
  <2>2. DOMAIN userArgs = {}
    BY DEF Init, A!Init
  <2> QED
    BY <2>1, <2>2 DEF Init, A!Init, A!TypeOK, A!NoFile
<1> QED
  BY <1>1, <1>2, <1>3, IdleShaped DEF Kept

\* and no step of args_parse or of the driver spoils them.
LEMMA NextKept == Kept /\ [Next]_vars => Kept'
<1> SUFFICES ASSUME Kept, [Next]_vars PROVE Kept'
  OBVIOUS
<1>1. CASE ParseArguments
  <2>1. Idle /\ UNCHANGED driver /\ A!Next
    BY <1>1, ParsingFirst DEF Kept, ParseArguments
  <2>2. UNCHANGED argv
    BY <2>1 DEF A!Next, A!ParseFlag, A!ParseValue, A!MissingValue, A!TakeFile,
       A!InvalidArgument, A!ShortArgument, A!GiveUp, A!StartDriver
  <2>3. Idle'
    BY <2>1, <2>2, IdleStays
  <2>4. Shaped'
    BY <2>1 DEF Kept, driver, Shaped, States
  <2>5. A!TypeOK'
    BY <2>1, ArgumentsTyped DEF Kept
  <2> QED
    BY <2>2, <2>3, <2>4, <2>5 DEF Kept
<1>2. CASE Drive
  <2>1. Shaped'
    BY <1>2, DriverStep, NextShaped DEF Kept
  <2>2. A!TypeOK'
    BY <1>2, ArgumentsTyped DEF Kept, Drive
  <2> QED
    BY <1>2, <2>1, <2>2 DEF Kept, Drive, arguments
<1>3. CASE UNCHANGED vars
  <2>1. Shaped'
    BY <1>3, DriverStutters, NextShaped DEF Kept
  <2>2. A!TypeOK'
    BY <1>3, ArgumentsTyped DEF Kept, vars
  <2>3. Idle => Idle'
    BY <1>3, IdleStays DEF vars, arguments
  <2> QED
    BY <1>3, <2>1, <2>2, <2>3 DEF Kept, vars, arguments
<1> QED
  BY <1>1, <1>2, <1>3 DEF Next

\* The types of the whole call, files included.
THEOREM TypeCorrect == Spec => []TypeOK
<1>1. Kept => TypeOK
  BY ShapedFiles DEF Kept, TypeOK
<1> QED
  BY <1>1, InitKept, NextKept, PTL DEF Spec

\* No call that comes to an exit leaves its assembly file behind, whatever gcc
\* has answered.
THEOREM AssemblyIsRemoved == Spec => []AssemblyRemoved
<1>1. Kept => AssemblyRemoved
  BY ShapedFiles DEF Kept, AssemblyRemoved
<1> QED
  BY <1>1, InitKept, NextKept, PTL DEF Spec

-----------------------------------------------------------------------------
(* Values *)

\* What says of each position whether it is a value, when the flags that take
\* one stand at the positions of V, is defined.
LEMMA SomeValues ==
  ASSUME NEW n \in Nat, NEW V
  PROVE  \E g : g = [k \in 0..n |-> k > 1 /\ ~g[k - 1] /\ k - 1 \in V]
<1> DEFINE Rule(g, m) == g = [k \in 0..m |-> k > 1 /\ ~g[k - 1] /\ k - 1 \in V]
           T == {m \in Nat : \E g : Rule(g, m)}
<1>1. 0 \in T
  <2> DEFINE z == [k \in 0..0 |-> FALSE]
  <2>1. \A k \in 0..0 : z[k] = (k > 1 /\ ~z[k - 1] /\ k - 1 \in V)
    <3> TAKE k \in 0..0
    <3>1. z[k] = FALSE
      OBVIOUS
    <3>2. ~(k > 1)
      OBVIOUS
    <3> HIDE DEF z
    <3>3. (k > 1 /\ ~z[k - 1] /\ k - 1 \in V) = FALSE
      BY <3>2
    <3> QED
      BY <3>1, <3>3
  <2>2. z = [k \in 0..0 |-> z[k]]
    OBVIOUS
  <2> HIDE DEF z
  <2>3. Rule(z, 0)
    BY <2>1, <2>2
  <2> HIDE DEF Rule
  <2> QED
    BY <2>3
<1>2. ASSUME NEW m \in Nat, m \in T PROVE m + 1 \in T
  <2>1. PICK g : Rule(g, m)
    BY <1>2
  <2> DEFINE h == [k \in 0..m+1 |-> IF k <= m THEN g[k] ELSE m + 1 > 1 /\ ~g[m] /\ m \in V]
  <2>2. ASSUME NEW k \in 0..m+1 PROVE h[k] = (k > 1 /\ ~h[k - 1] /\ k - 1 \in V)
    <3>1. CASE k <= m
      <4>1. h[k] = g[k] /\ (k > 1 => h[k - 1] = g[k - 1])
        BY <3>1
      <4>2. g[k] = (k > 1 /\ ~g[k - 1] /\ k - 1 \in V)
        BY <2>1, <3>1
      <4> HIDE DEF h
      <4>3. CASE k > 1
        BY <4>1, <4>2, <4>3
      <4>4. CASE ~(k > 1)
        BY <4>1, <4>2, <4>4
      <4> QED
        BY <4>3, <4>4
    <3>2. CASE k = m + 1
      <4>1. h[k] = (m + 1 > 1 /\ ~g[m] /\ m \in V)
        BY <3>2
      <4>2. h[m] = g[m] /\ k - 1 = m
        BY <3>2
      <4> HIDE DEF h
      <4> QED
        BY <3>2, <4>1, <4>2
    <3> QED
      BY <3>1, <3>2
  <2>3. Rule(h, m + 1)
    <3> HIDE DEF h
    <3>1. h = [k \in 0..m+1 |-> h[k]]
      BY DEF h
    <3> QED
      BY <2>2, <3>1
  <2> HIDE DEF h, Rule
  <2> QED
    BY <2>3
<1> HIDE DEF T
<1>3. Nat \subseteq T
  BY <1>1, <1>2, SetInduction
<1>4. n \in T
  BY <1>3
<1> QED
  BY <1>4 DEF T

\* IsValue is what its recursion says.
LEMMA ValueRule ==
  ASSUME argv \in Seq(Seq(STRING))
  PROVE  \A k \in 0..Len(argv) :
           A!IsValue[k] = (k > 1 /\ ~A!IsValue[k - 1]
                           /\ argv[k - 1] \in {A!Flag(n) : n \in A!Valued})
<1> DEFINE F == {A!Flag(n) : n \in A!Valued}
           V == {k \in 1..Len(argv) : argv[k] \in F}
           Rule(g) == g = [k \in 0..Len(argv) |-> k > 1 /\ ~g[k - 1] /\ argv[k - 1] \in F]
<1>1. PICK g : g = [k \in 0..Len(argv) |-> k > 1 /\ ~g[k - 1] /\ k - 1 \in V]
  <2> HIDE DEF V
  <2>1. Len(argv) \in Nat
    OBVIOUS
  <2> QED
    BY <2>1, SomeValues
<1>2. Rule(g)
  <2>1. \A k \in 0..Len(argv) : (k > 1 /\ ~g[k - 1] /\ k - 1 \in V)
                                = (k > 1 /\ ~g[k - 1] /\ argv[k - 1] \in F)
    <3> TAKE k \in 0..Len(argv)
    <3> HIDE DEF F
    <3>1. CASE k > 1
      BY <3>1
    <3>2. CASE ~(k > 1)
      BY <3>2
    <3> QED
      BY <3>1, <3>2
  <2> HIDE DEF F, V
  <2> QED
    BY <1>1, <2>1
<1>3. A!IsValue = CHOOSE x : Rule(x)
  BY DEF A!IsValue
<1>4. Rule(A!IsValue)
  <2> HIDE DEF Rule
  <2> QED
    BY <1>2, <1>3
<1>5. \A k \in 0..Len(argv) : A!IsValue[k] = (k > 1 /\ ~A!IsValue[k - 1] /\ argv[k - 1] \in F)
  <2> HIDE DEF F
  <2> QED
    BY <1>4
<1> QED
  BY <1>5

-----------------------------------------------------------------------------
(* The arguments *)

\* The dashes are two characters.
LEMMA OneWord ==
  ASSUME NEW d, NEW w
  PROVE  Len(<<d, d>> \o <<w>>) = 3 /\ SubSeq(<<d, d>> \o <<w>>, 3, 3) = <<w>>
<1> DEFINE S == {d, w}
           s == <<d, d>>
           t == <<w>>
           r == SubSeq(s \o t, 3, 3)
<1>1. s \in Seq(S) /\ Len(s) = 2
  OBVIOUS
<1>2. t \in Seq(S) /\ Len(t) = 1 /\ t[1] = w
  OBVIOUS
<1> HIDE DEF s, t, S
<1>3. s \o t \in Seq(S) /\ Len(s \o t) = 3 /\ (s \o t)[3] = w
  BY <1>1, <1>2, ConcatProperties
<1>4. r \in Seq(S) /\ Len(r) = 1 /\ r[1] = w
  <2>1. \A k \in 3..3 : (s \o t)[k] \in S
    BY <1>3, <1>2
  <2> QED
    BY <1>3, <2>1, SubSeqProperties
<1>5. r = t
  <2> HIDE DEF r
  <2> QED
    BY <1>2, <1>4, SeqEqual
<1> QED
  BY <1>3, <1>5 DEF s, t

\* What is left of a flag without its dashes is its name.
LEMMA FlagSkips == \A n \in A!Plain \cup A!Valued : A!SkipDashes(A!Flag(n)) = n
<1> SUFFICES ASSUME NEW n \in A!Plain \cup A!Valued PROVE A!SkipDashes(A!Flag(n)) = n
  OBVIOUS
<1>1. PICK w : n = <<w>>
  BY DEF A!Plain, A!Valued
<1> QED
  BY <1>1, OneWord DEF A!SkipDashes, A!Flag

\* A flag is two dashes and one word.
LEMMA FlagLength == \A n \in A!Plain \cup A!Valued : Len(A!Flag(n)) = 3
<1> SUFFICES ASSUME NEW n \in A!Plain \cup A!Valued PROVE Len(A!Flag(n)) = 3
  OBVIOUS
<1>1. PICK w : n = <<w>>
  BY DEF A!Plain, A!Valued
<1> QED
  BY <1>1, OneWord DEF A!Flag

\* No plain flag takes a value.
LEMMA FlagsDiffer == A!Plain \cap A!Valued = {}
BY DEF A!Plain, A!Valued

\* An argument that is no value is what args_parse takes it for.
LEMMA Kind ==
  ASSUME argv \in Seq(Seq(STRING)), A!Dashed, NEW k \in A!Positions, ~A!IsValue[k]
  PROVE  /\ k \in A!Given(A!Plain) <=> A!SkipDashes(argv[k]) \in A!Plain
         /\ k \in A!Given(A!Valued) <=> A!SkipDashes(argv[k]) \in A!Valued
         /\ k \in A!Given(A!Plain \cup A!Valued) <=> A!SkipDashes(argv[k]) \in A!Plain \cup A!Valued
         /\ k \in A!Others <=> A!SkipDashes(argv[k]) \notin A!Plain \cup A!Valued
<1> DEFINE a == argv[k]
<1>1. \A S : k \in A!Given(S) <=> \E n \in S : a = A!Flag(n)
  BY DEF A!Given
<1>2. k \in A!Others <=> ~ \E n \in A!Plain \cup A!Valued : a = A!Flag(n)
  BY <1>1 DEF A!Others
<1>3. \A n \in A!Plain \cup A!Valued : a = A!Flag(n) => A!SkipDashes(a) = n
  BY FlagSkips
<1>4. k \in A!Others => A!SkipDashes(a) \notin A!Plain \cup A!Valued
  BY DEF A!Dashed
<1> HIDE DEF a
<1>5. k \in A!Given(A!Plain \cup A!Valued) <=> A!SkipDashes(a) \in A!Plain \cup A!Valued
  BY <1>1, <1>2, <1>3, <1>4
<1>6. k \in A!Given(A!Plain) <=> A!SkipDashes(a) \in A!Plain
  BY <1>1, <1>2, <1>3, <1>4, FlagsDiffer
<1>7. k \in A!Given(A!Valued) <=> A!SkipDashes(a) \in A!Valued
  BY <1>1, <1>2, <1>3, <1>4, FlagsDiffer
<1> QED
  BY <1>2, <1>3, <1>4, <1>5, <1>6, <1>7 DEF a

\* An argument that is shorter than the dashes is no flag.
LEMMA ShortIsOther ==
  ASSUME NEW k \in A!Positions, ~A!IsValue[k], Len(argv[k]) < 2
  PROVE  k \in A!Others
<1>1. \A n \in A!Plain \cup A!Valued : argv[k] # A!Flag(n)
  <2> SUFFICES ASSUME NEW n \in A!Plain \cup A!Valued, argv[k] = A!Flag(n) PROVE FALSE
    OBVIOUS
  <2>1. Len(argv[k]) = 3
    BY FlagLength
  <2> QED
    BY <2>1
<1> QED
  BY <1>1 DEF A!Others, A!Given

\* The name of a flag's argument.
LEMMA GivenName ==
  ASSUME NEW k \in A!Given(A!Valued)
  PROVE  A!SkipDashes(argv[k]) \in A!Valued /\ k \in A!Positions /\ ~A!IsValue[k]
BY FlagSkips DEF A!Given

\* After a flag that takes a value comes a value, after another argument none.
LEMMA NextValue ==
  ASSUME argv \in Seq(Seq(STRING)), NEW k \in A!Positions, k < Len(argv)
  PROVE  A!IsValue[k + 1] <=> k \in A!Given(A!Valued)
<1>1. k + 1 \in 0..Len(argv) /\ k + 1 > 1 /\ (k + 1) - 1 = k
  BY DEF A!Positions
<1>2. A!IsValue[k + 1] = (~A!IsValue[k] /\ argv[k] \in {A!Flag(n) : n \in A!Valued})
  BY <1>1, ValueRule
<1> QED
  BY <1>2 DEF A!Given

\* The first argument is no value.
LEMMA FirstValue == ASSUME argv \in Seq(Seq(STRING)), Len(argv) >= 1 PROVE ~A!IsValue[1]
<1>1. 1 \in 0..Len(argv) /\ ~(1 > 1)
  OBVIOUS
<1>2. A!IsValue[1] = (1 > 1 /\ ~A!IsValue[1 - 1] /\ argv[1 - 1] \in {A!Flag(n) : n \in A!Valued})
  BY <1>1, ValueRule
<1> QED
  BY <1>1, <1>2

-----------------------------------------------------------------------------
(* What args_parse has found *)

Before(S) == {k \in S : k < i}
AllFlags  == A!Given(A!Plain \cup A!Valued)

\* The flags before i, each flag's value given last, and the files before i.
Flagged == DOMAIN userArgs = {A!SkipDashes(argv[k]) : k \in Before(AllFlags)}
Answered ==
  \A k \in Before(A!Given(A!Valued)) :
    /\ k < Len(argv)
    /\ (\A j \in Before(A!Given(A!Valued)) : argv[j] = argv[k] => j <= k)
         => userArgs[A!SkipDashes(argv[k])] = argv[k + 1]
Filed ==
  /\ \A k \in Before(A!Others) : Len(argv[k]) > 1
  /\ \/ filename = A!NoFile /\ ok /\ Before(A!Others) = {}
     \/ \E k \in Before(A!Others) : /\ filename = argv[k]
                                    /\ ok => Before(A!Others) = {k}
                                    /\ ~ok => \E j \in Before(A!Others) : j # k
Scanned ==
  /\ i <= Len(argv) => ~A!IsValue[i]
  /\ Flagged /\ Answered /\ Filed

\* Why args_parse has come to its end.
Concluded ==
  /\ parsing = "driver"  => /\ i > Len(argv) /\ filename # A!NoFile /\ ok
                            /\ A!Dots(filename) # {}
  /\ parsing = "failure" => \/ i > Len(argv) /\ (filename = A!NoFile \/ ~ok)
                            \/ i <= Len(argv) /\ i \in A!Given(A!Valued) /\ i = Len(argv)
  /\ parsing = "undefined" => \/ i <= Len(argv) /\ i \in A!Others /\ Len(argv[i]) < 2
                              \/ i > Len(argv) /\ filename # A!NoFile /\ ok /\ A!Dots(filename) = {}

\* The sets of arguments are parts of the positions that are no values.
LEMMA NoValues ==
  /\ \A k \in AllFlags \cup A!Given(A!Valued) \cup A!Others : k \in A!Positions /\ ~A!IsValue[k]
  /\ A!Given(A!Valued) \subseteq AllFlags
  /\ AllFlags \cap A!Others = {}
BY DEF AllFlags, A!Given, A!Others

\* The line stays, and with it what its arguments are.
LEMMA LineStays ==
  ASSUME UNCHANGED argv
  PROVE  UNCHANGED <<A!IsValue, A!Positions, A!Others, AllFlags, A!Given(A!Valued), A!Dashed>>
<1>1. UNCHANGED <<A!IsValue, A!Positions, A!Others>>
  BY SameLine
<1>2. UNCHANGED <<AllFlags, A!Given(A!Valued)>>
  BY <1>1 DEF A!Given, AllFlags
<1> QED
  BY <1>1, <1>2 DEF A!Dashed

\* The numbers before the next argument.
LEMMA OneOn ==
  ASSUME NEW n \in Nat, NEW m \in Nat, m = n + 1, NEW S, S \subseteq Nat
  PROVE  {k \in S : k < m} = {k \in S : k < n} \cup (S \cap {n})
<1>1. \A k \in S : k < m <=> k < n \/ k = n
  OBVIOUS
<1> QED
  BY <1>1

\* The elements below the next but one number, of a set without the next.
LEMMA TwoOn ==
  ASSUME NEW n \in Nat, NEW m \in Nat, m = n + 2, NEW S, S \subseteq Nat, n + 1 \notin S
  PROVE  {k \in S : k < m} = {k \in S : k < n} \cup (S \cap {n})
<1>1. \A k \in S : k < m <=> k < n \/ k = n
  OBVIOUS
<1> QED
  BY <1>1

\* One argument, and its value if it has one, is passed.
LEMMA Passed ==
  ASSUME argv \in Seq(Seq(STRING)), i \in A!Positions, UNCHANGED argv, ~A!IsValue[i],
         \/ i' = i + 1 /\ i \notin A!Given(A!Valued)
         \/ i' = i + 2 /\ i \in A!Given(A!Valued) /\ i < Len(argv)
  PROVE  /\ Before(AllFlags)' = Before(AllFlags) \cup (AllFlags \cap {i})
         /\ Before(A!Given(A!Valued))' = Before(A!Given(A!Valued)) \cup (A!Given(A!Valued) \cap {i})
         /\ Before(A!Others)' = Before(A!Others) \cup (A!Others \cap {i})
         /\ i' <= Len(argv) => ~A!IsValue[i']
<1>1. i \in 1..Len(argv) /\ Len(argv) \in Nat /\ A!Positions = 1..Len(argv)
  BY DEF A!Positions
<1>2. i \in Nat /\ i' \in Nat
  BY <1>1
<1>3. AllFlags \subseteq Nat /\ A!Given(A!Valued) \subseteq Nat /\ A!Others \subseteq Nat
  BY <1>1, NoValues
<1>4. UNCHANGED <<A!IsValue, AllFlags, A!Given(A!Valued), A!Others>>
  BY LineStays
<1>b. /\ Before(AllFlags)' = {k \in AllFlags : k < i'}
      /\ Before(A!Given(A!Valued))' = {k \in A!Given(A!Valued) : k < i'}
      /\ Before(A!Others)' = {k \in A!Others : k < i'}
  BY <1>4 DEF Before
<1>5. CASE i' = i + 1 /\ i \notin A!Given(A!Valued)
  <2>1. i' <= Len(argv) => ~A!IsValue[i']
    BY <1>1, <1>5, NextValue
  <2>2. ASSUME NEW S, S \subseteq Nat PROVE {k \in S : k < i'} = {k \in S : k < i} \cup (S \cap {i})
    <3>1. PICK n, m : n = i /\ m = i'
      OBVIOUS
    <3>2. n \in Nat /\ m \in Nat /\ m = n + 1
      BY <1>2, <1>5, <3>1
    <3>3. {k \in S : k < m} = {k \in S : k < n} \cup (S \cap {n})
      BY <2>2, <3>2, OneOn
    <3> QED
      BY <3>1, <3>3
  <2> QED
    BY <1>3, <1>b, <2>1, <2>2 DEF Before
<1>6. CASE i' = i + 2 /\ i \in A!Given(A!Valued) /\ i < Len(argv)
  <2>1. A!IsValue[i + 1] /\ i + 1 \in A!Positions
    BY <1>1, <1>6, NextValue
  <2>2. i + 1 \notin AllFlags \cup A!Given(A!Valued) \cup A!Others
    BY <2>1, NoValues
  <2>3. i' <= Len(argv) => ~A!IsValue[i']
    <3> SUFFICES ASSUME i' <= Len(argv) PROVE ~A!IsValue[i']
      OBVIOUS
    <3>1. i + 1 < Len(argv) /\ i' = (i + 1) + 1
      BY <1>1, <1>6
    <3> QED
      BY <2>1, <2>2, <3>1, NextValue
  <2> QED
    <3>1. ASSUME NEW S, S \subseteq Nat, i + 1 \notin S
          PROVE  {k \in S : k < i'} = {k \in S : k < i} \cup (S \cap {i})
      <4>1. PICK n, m : n = i /\ m = i'
        OBVIOUS
      <4>2. n \in Nat /\ m \in Nat /\ m = n + 2 /\ n + 1 \notin S
        BY <1>2, <1>6, <3>1, <4>1
      <4>3. {k \in S : k < m} = {k \in S : k < n} \cup (S \cap {n})
        BY <3>1, <4>2, TwoOn
      <4> QED
        BY <4>1, <4>3
    <3> QED
      BY <1>3, <1>b, <2>2, <2>3, <3>1 DEF Before
<1> QED
  BY <1>5, <1>6

\* A flag without a value is read.
LEMMA FlagRead ==
  ASSUME argv \in Seq(Seq(STRING)), A!Dashed, A!TypeOK, Scanned, A!ParseFlag
  PROVE  Scanned'
<1> DEFINE a == A!SkipDashes(argv[i])
<1>1. i \in A!Positions /\ ~A!IsValue[i] /\ a \in A!Plain
  BY DEF A!TypeOK, Scanned, A!ParseFlag, A!Parsing, A!Positions, A!Arg, A!Full
<1>2. i \in AllFlags /\ i \notin A!Given(A!Valued) /\ i \notin A!Others
  BY <1>1, Kind, FlagsDiffer DEF AllFlags
<1>3. UNCHANGED argv /\ i' = i + 1
  BY DEF A!ParseFlag
<1>4. /\ Before(AllFlags)' = Before(AllFlags) \cup {i}
      /\ Before(A!Given(A!Valued))' = Before(A!Given(A!Valued))
      /\ Before(A!Others)' = Before(A!Others)
      /\ i' <= Len(argv) => ~A!IsValue[i']
  BY <1>1, <1>2, <1>3, Passed
<1>5. userArgs' = [k \in DOMAIN userArgs \cup {a} |-> IF k = a THEN a ELSE userArgs[k]]
  BY DEF A!ParseFlag, A!put, A!Arg, A!Full
<1>6. Flagged'
  <2>1. DOMAIN userArgs' = {A!SkipDashes(argv[k]) : k \in Before(AllFlags)} \cup {a}
    BY <1>5 DEF Scanned, Flagged
  <2> QED
    BY <1>3, <1>4, <2>1 DEF Flagged
<1>7. Answered'
  <2>1. ASSUME NEW k \in Before(A!Given(A!Valued))
        PROVE  userArgs'[A!SkipDashes(argv[k])] = userArgs[A!SkipDashes(argv[k])]
    <3>1. k \in Before(AllFlags) /\ A!SkipDashes(argv[k]) \in A!Valued
      BY NoValues, GivenName DEF Before
    <3>2. A!SkipDashes(argv[k]) \in DOMAIN userArgs
      BY <3>1 DEF Scanned, Flagged
    <3> HIDE DEF a
    <3> QED
      BY <1>1, <1>5, <3>1, <3>2, FlagsDiffer
  <2> QED
    BY <1>3, <1>4, <2>1 DEF Scanned, Answered
<1>8. Filed'
  BY <1>3, <1>4 DEF Scanned, Filed, A!ParseFlag
<1> QED
  BY <1>3, <1>4, <1>6, <1>7, <1>8, LineStays DEF Scanned

\* A flag and its value are read.
LEMMA ValueRead ==
  ASSUME argv \in Seq(Seq(STRING)), A!Dashed, A!TypeOK, Scanned, A!ParseValue
  PROVE  Scanned'
<1> DEFINE a == A!SkipDashes(argv[i])
           V == A!Given(A!Valued)
<1>1. i \in A!Positions /\ ~A!IsValue[i] /\ a \in A!Valued /\ i < Len(argv)
  BY DEF A!TypeOK, Scanned, A!ParseValue, A!Parsing, A!Positions, A!Arg, A!Full
<1>2. i \in AllFlags /\ i \in V /\ i \notin A!Others
  BY <1>1, Kind DEF AllFlags
<1>3. UNCHANGED argv /\ i' = i + 2
  BY DEF A!ParseValue
<1>4. /\ Before(AllFlags)' = Before(AllFlags) \cup {i}
      /\ Before(V)' = Before(V) \cup {i}
      /\ Before(A!Others)' = Before(A!Others)
      /\ i' <= Len(argv) => ~A!IsValue[i']
  BY <1>1, <1>2, <1>3, Passed
<1>5. userArgs' = [k \in DOMAIN userArgs \cup {a} |-> IF k = a THEN argv[i + 1] ELSE userArgs[k]]
  BY DEF A!ParseValue, A!put, A!Arg, A!Full
<1>6. Flagged'
  <2>1. DOMAIN userArgs' = {A!SkipDashes(argv[k]) : k \in Before(AllFlags)} \cup {a}
    BY <1>5 DEF Scanned, Flagged
  <2> QED
    BY <1>3, <1>4, <2>1 DEF Flagged
<1>7. Answered'
  <2> SUFFICES ASSUME NEW k \in Before(V) \cup {i}
               PROVE  /\ k < Len(argv)
                      /\ (\A j \in Before(V) \cup {i} : argv[j] = argv[k] => j <= k)
                           => userArgs'[A!SkipDashes(argv[k])] = argv[k + 1]
    BY <1>3, <1>4 DEF Answered
  <2>1. CASE k = i
    BY <1>1, <1>5, <2>1
  <2>2. CASE k \in Before(V) /\ argv[k] = argv[i]
    <3>1. k < i /\ i \in Nat /\ k \in Nat
      BY <1>1, <2>2, NoValues DEF Before, A!Positions
    <3> QED
      BY <2>2, <3>1 DEF Scanned, Answered
  <2>3. CASE k \in Before(V) /\ argv[k] # argv[i]
    <3>1. k \in Before(AllFlags) /\ k \in V
      BY <2>3, NoValues DEF Before
    <3>2. A!SkipDashes(argv[k]) \in DOMAIN userArgs
      BY <3>1 DEF Scanned, Flagged
    <3>3. A!SkipDashes(argv[k]) # a
      BY <1>2, <2>3, <3>1, FlagSkips DEF A!Given
    <3>4. userArgs'[A!SkipDashes(argv[k])] = userArgs[A!SkipDashes(argv[k])]
      <4> HIDE DEF a
      <4> QED
        BY <1>5, <3>2, <3>3
    <3> QED
      BY <2>3, <3>4 DEF Scanned, Answered
  <2> QED
    BY <2>1, <2>2, <2>3
<1>8. Filed'
  BY <1>3, <1>4 DEF Scanned, Filed, A!ParseValue
<1> QED
  BY <1>3, <1>4, <1>6, <1>7, <1>8, LineStays DEF Scanned

\* A file is read, or one too many.
LEMMA FileRead ==
  ASSUME argv \in Seq(Seq(STRING)), A!Dashed, A!TypeOK, Scanned, A!TakeFile \/ A!InvalidArgument
  PROVE  Scanned'
<1> DEFINE a == A!SkipDashes(argv[i])
           O == A!Others
<1>1. i \in A!Positions /\ ~A!IsValue[i] /\ a \notin A!Plain \cup A!Valued /\ Len(argv[i]) > 1
  BY DEF A!TypeOK, Scanned, A!TakeFile, A!InvalidArgument, A!Parsing, A!Positions, A!IsFlag,
         A!Arg, A!Full
<1>2. i \notin AllFlags /\ i \notin A!Given(A!Valued) /\ i \in O
  BY <1>1, Kind DEF AllFlags
<1>3. UNCHANGED <<argv, userArgs>> /\ i' = i + 1
  BY DEF A!TakeFile, A!InvalidArgument
<1>4. /\ Before(AllFlags)' = Before(AllFlags)
      /\ Before(A!Given(A!Valued))' = Before(A!Given(A!Valued))
      /\ Before(O)' = Before(O) \cup {i}
      /\ i' <= Len(argv) => ~A!IsValue[i']
  BY <1>1, <1>2, <1>3, Passed
<1>5. Flagged' /\ Answered'
  BY <1>3, <1>4 DEF Scanned, Flagged, Answered
<1>6. \A k \in Before(O) \cup {i} : Len(argv[k]) > 1
  BY <1>1 DEF Scanned, Filed
<1>7. CASE A!TakeFile
  <2>1. filename = A!NoFile /\ filename' = argv[i] /\ ok' = ok
    BY <1>7 DEF A!TakeFile, A!Full
  <2>2. \A k \in Before(O) : argv[k] # A!NoFile
    BY <1>6 DEF A!NoFile
  <2>3. ok /\ Before(O) = {}
    BY <2>1, <2>2 DEF Scanned, Filed
  <2>4. Filed'
    BY <1>3, <1>4, <1>6, <2>1, <2>3 DEF Filed
  <2> QED
    BY <1>3, <1>4, <1>5, <2>4, LineStays DEF Scanned
<1>8. CASE A!InvalidArgument
  <2>1. filename # A!NoFile /\ filename' = filename /\ ok' = FALSE
    BY <1>8 DEF A!InvalidArgument
  <2>2. PICK k \in Before(O) : filename = argv[k]
    BY <2>1 DEF Scanned, Filed
  <2>3. k # i
    BY <2>2, <1>1 DEF Before, A!Positions
  <2>4. Filed'
    BY <1>3, <1>4, <1>6, <2>1, <2>2, <2>3 DEF Filed
  <2> QED
    BY <1>3, <1>4, <1>5, <2>4, LineStays DEF Scanned
<1> QED
  BY <1>7, <1>8

\* The line, what is read of it, and why no more of it is.
Read == argv \in Seq(Seq(STRING)) /\ A!Dashed /\ A!TypeOK /\ Scanned /\ Concluded

\* Before the first argument nothing has been read,
LEMMA InitRead == ASSUME Init, A!Dashed PROVE Read
<1>1. argv \in Seq(Seq(STRING)) /\ A!TypeOK
  BY InitKept DEF Kept
<1>2. i = 1 /\ userArgs = <<>> /\ filename = A!NoFile /\ ok = TRUE /\ parsing = "running"
  BY DEF Init, A!Init
<1>3. \A S : S \subseteq A!Positions => Before(S) = {}
  <2>1. \A k \in A!Positions : ~(k < 1)
    BY <1>1 DEF A!Positions
  <2> QED
    BY <1>2, <2>1 DEF Before
<1>4. Before(AllFlags) = {} /\ Before(A!Given(A!Valued)) = {} /\ Before(A!Others) = {}
  BY <1>3, NoValues
<1>5. Flagged
  BY <1>2, <1>4 DEF Flagged
<1>6. Answered /\ Filed
  BY <1>2, <1>4 DEF Answered, Filed
<1>7. i <= Len(argv) => ~A!IsValue[i]
  BY <1>1, <1>2, FirstValue
<1> QED
  BY <1>1, <1>2, <1>5, <1>6, <1>7 DEF Read, Scanned, Concluded

\* and each argument is read for what it is.
LEMMA NextRead == Read /\ [Next]_vars => Read'
<1> SUFFICES ASSUME Read, [Next]_vars PROVE Read'
  OBVIOUS
<1> USE DEF Read
<1>1. UNCHANGED argv
  BY DEF Next, ParseArguments, Drive, vars, arguments, A!Next, A!ParseFlag, A!ParseValue,
         A!MissingValue, A!TakeFile, A!InvalidArgument, A!ShortArgument, A!GiveUp, A!StartDriver
<1>2. UNCHANGED <<A!IsValue, A!Positions, A!Others, AllFlags, A!Given(A!Valued), A!Dashed>>
  BY <1>1, LineStays
<1>3. A!TypeOK'
  BY ArgumentsTyped DEF Next, ParseArguments, Drive, vars
<1>4. CASE A!ParseFlag \/ A!ParseValue \/ A!TakeFile \/ A!InvalidArgument
  <2>1. Scanned'
    BY <1>4, FlagRead, ValueRead, FileRead
  <2>2. parsing' = "running"
    BY <1>4 DEF A!ParseFlag, A!ParseValue, A!TakeFile, A!InvalidArgument, A!Parsing
  <2> QED
    BY <1>1, <1>2, <1>3, <2>1, <2>2 DEF Concluded
<1>5. ASSUME UNCHANGED <<i, userArgs, filename, ok>> PROVE Scanned'
  <2>1. UNCHANGED <<Before(AllFlags), Before(A!Given(A!Valued)), Before(A!Others)>>
    BY <1>2, <1>5 DEF Before
  <2>2. Flagged' /\ Answered' /\ Filed'
    BY <1>1, <1>5, <2>1 DEF Scanned, Flagged, Answered, Filed
  <2> QED
    BY <1>1, <1>2, <1>5, <2>2 DEF Scanned
<1>6. CASE A!MissingValue
  <2>1. i \in A!Positions /\ A!SkipDashes(argv[i]) \in A!Valued /\ ~A!IsValue[i] /\ i = Len(argv)
    BY <1>6 DEF A!TypeOK, Scanned, A!MissingValue, A!Parsing, A!Positions, A!Arg, A!Full
  <2>2. i \in A!Given(A!Valued)
    BY <2>1, Kind
  <2>3. Concluded'
    BY <1>1, <1>2, <1>6, <2>1, <2>2 DEF A!MissingValue, Concluded
  <2> QED
    BY <1>1, <1>2, <1>3, <1>5, <1>6, <2>3 DEF A!MissingValue
<1>7. CASE A!ShortArgument
  <2>1. i \in A!Positions /\ ~A!IsValue[i] /\ Len(argv[i]) < 2 /\ i <= Len(argv)
    BY <1>7 DEF A!TypeOK, Scanned, A!ShortArgument, A!Parsing, A!Positions, A!Arg, A!Full
  <2>2. i \in A!Others
    BY <2>1, ShortIsOther
  <2>3. Concluded'
    BY <1>1, <1>2, <1>7, <2>1, <2>2 DEF A!ShortArgument, Concluded
  <2> QED
    BY <1>1, <1>2, <1>3, <1>5, <1>7, <2>3 DEF A!ShortArgument
<1>8. CASE A!GiveUp \/ A!StartDriver
  <2>1. UNCHANGED <<i, userArgs, filename, ok>>
    BY <1>8 DEF A!GiveUp, A!StartDriver
  <2>2. Concluded'
    BY <1>1, <1>2, <1>8, <2>1 DEF A!GiveUp, A!StartDriver, A!Parsed, Concluded, A!Dots, A!NoFile
  <2> QED
    BY <1>1, <1>2, <1>3, <1>5, <2>1, <2>2
<1>9. CASE UNCHANGED arguments
  <2>1. UNCHANGED <<i, userArgs, filename, ok, parsing>>
    BY <1>9 DEF arguments
  <2>2. Concluded'
    BY <1>1, <1>2, <2>1 DEF Concluded, A!Dots, A!NoFile
  <2> QED
    BY <1>1, <1>2, <1>3, <1>5, <2>1, <2>2
<1> QED
  BY <1>4, <1>6, <1>7, <1>8, <1>9 DEF Next, ParseArguments, Drive, vars, A!Next

\* At the end of the line everything is before i.
LEMMA AllBefore ==
  ASSUME argv \in Seq(Seq(STRING)), A!TypeOK, i > Len(argv)
  PROVE  /\ Before(AllFlags) = AllFlags
         /\ Before(A!Given(A!Valued)) = A!Given(A!Valued)
         /\ Before(A!Others) = A!Others
<1>1. \A k \in A!Positions : k < i
  BY DEF A!Positions, A!TypeOK
<1>2. \A S : S \subseteq A!Positions => Before(S) = S
  BY <1>1 DEF Before
<1> QED
  BY <1>2, NoValues

\* The line is read to its end and has one file, or the driver does not start.
LEMMA DriverReads ==
  ASSUME Read, parsing = "driver"
  PROVE  /\ i > Len(argv)
         /\ \E k \in A!Positions : A!Others = {k} /\ filename = argv[k]
         /\ A!WellFormed
<1>1. i > Len(argv) /\ filename # A!NoFile /\ ok /\ A!Dots(filename) # {}
  BY DEF Read, Concluded
<1>2. /\ Before(A!Given(A!Valued)) = A!Given(A!Valued)
      /\ Before(A!Others) = A!Others
  BY <1>1, AllBefore DEF Read
<1>3. PICK k \in A!Others : filename = argv[k] /\ A!Others = {k}
  BY <1>1, <1>2 DEF Read, Scanned, Filed
<1>4. k \in A!Positions
  BY NoValues
<1>5. A!WellFormed
  BY <1>1, <1>2, <1>3 DEF Read, Scanned, Filed, Answered, A!WellFormed, A!Complete
<1> QED
  BY <1>1, <1>3, <1>4, <1>5

\* When every argument can be read, args_parse has come to the end of the line.
LEMMA CompleteIsRead ==
  ASSUME Read, parsing # "running", A!Complete
  PROVE  /\ i > Len(argv)
         /\ Before(AllFlags) = AllFlags
         /\ Before(A!Given(A!Valued)) = A!Given(A!Valued)
         /\ Before(A!Others) = A!Others
<1>1. parsing \in {"driver", "failure", "undefined"}
  BY DEF Read, A!TypeOK
<1>2. i \in A!Given(A!Valued) => i # Len(argv)
  BY DEF A!Complete, Read
<1>3. i \in A!Others => ~(Len(argv[i]) < 2)
  <2> SUFFICES ASSUME i \in A!Others PROVE ~(Len(argv[i]) < 2)
    OBVIOUS
  <2>1. argv[i] \in Seq(STRING)
    BY NoValues DEF Read, A!Positions
  <2>2. Len(argv[i]) \in Nat /\ Len(argv[i]) > 1
    BY <2>1 DEF A!Complete
  <2> QED
    BY <2>2
<1>4. i > Len(argv)
  BY <1>1, <1>2, <1>3 DEF Read, Concluded
<1> QED
  BY <1>4, AllBefore DEF Read

\* A line that is read to its end can be read,
LEMMA ReadIsComplete ==
  ASSUME Read, i > Len(argv)
  PROVE  A!Complete
<1>1. /\ Before(A!Given(A!Valued)) = A!Given(A!Valued)
      /\ Before(A!Others) = A!Others
  BY AllBefore DEF Read
<1> QED
  BY <1>1 DEF Read, Scanned, Filed, Answered, A!Complete

\* and on one with an argument shorter than the dashes args_parse gets that far:
\* a flag that lacks its value is the last argument.
LEMMA ShortIsFirst ==
  ASSUME Read, NEW k \in A!Others, Len(argv[k]) < 2, parsing # "running"
  PROVE  parsing = "undefined"
<1>1. k \in A!Positions /\ ~A!IsValue[k] /\ argv[k] \in Seq(STRING) /\ Len(argv[k]) \in Nat
  BY NoValues DEF Read, A!Positions
<1>2. ~A!Complete
  BY <1>1 DEF A!Complete
<1>3. ~(i > Len(argv))
  BY <1>2, ReadIsComplete
<1>4. k \notin Before(A!Others)
  BY <1>1 DEF Read, Scanned, Filed
<1>5. k \in Nat /\ i \in Nat /\ Len(argv) \in Nat /\ k <= Len(argv)
  BY <1>1 DEF Read, A!TypeOK, A!Positions
<1>6. i <= k
  BY <1>4, <1>5 DEF Before
<1>7. ~(i \in A!Given(A!Valued) /\ i = Len(argv))
  <2> SUFFICES ASSUME i \in A!Given(A!Valued), i = Len(argv) PROVE FALSE
    OBVIOUS
  <2>1. k = i
    BY <1>5, <1>6
  <2> QED
    BY <2>1, NoValues
<1> QED
  BY <1>3, <1>7 DEF Read, Concluded, A!TypeOK

\* On every command line on which only flags look like flags, in whatever order
\* its arguments are: which lines start the driver and with which file, which
\* are read past an argument's end, and which flags and values are found.
THEOREM LinesAreRead == Spec => []ParsesLine
<1>1. Read => ParsesLine
  <2> SUFFICES ASSUME Read, parsing # "running" PROVE ParsesLine
    BY DEF ParsesLine, A!ParsesLine
  <2>1. parsing \in {"driver", "failure", "undefined"} /\ argv \in Seq(Seq(STRING))
    BY DEF Read, A!TypeOK
  <2> DEFINE File(k) == A!Others = {k} /\ filename = argv[k] /\ A!Dots(argv[k]) # {}
  <2>2. parsing = "driver" => A!Complete /\ \E k \in A!Positions : File(k)
    <3> SUFFICES ASSUME parsing = "driver" PROVE A!Complete /\ \E k \in A!Positions : File(k)
      OBVIOUS
    <3>1. PICK k \in A!Positions : A!Others = {k} /\ filename = argv[k]
      BY DriverReads
    <3>2. A!Dots(filename) # {}
      BY DEF Read, Concluded
    <3>3. A!Complete
      BY DriverReads DEF A!WellFormed
    <3> QED
      BY <3>1, <3>2, <3>3
  <2>3. ASSUME A!Complete, NEW k \in A!Positions, A!Others = {k}
        PROVE  filename = argv[k] /\ ok /\ filename # A!NoFile
    <3>1. \A j \in A!Others : Len(argv[j]) > 1
      BY <2>3 DEF A!Complete
    <3>2. argv[k] # A!NoFile
      BY <2>3, <3>1 DEF A!NoFile
    <3> QED
      BY <2>3, <3>2, CompleteIsRead DEF Read, Scanned, Filed, A!TypeOK
  <2>4. ASSUME A!Complete, NEW k \in A!Positions, A!Others = {k}
        PROVE  /\ A!Dots(argv[k]) # {} => parsing = "driver"
               /\ A!Dots(argv[k]) = {} => parsing = "undefined"
    <3>1. filename = argv[k] /\ ok /\ filename # A!NoFile
      BY <2>3, <2>4
    <3>2. i > Len(argv)
      BY <2>4, CompleteIsRead
    <3>3. ~(i <= Len(argv))
      BY <3>2 DEF Read, A!TypeOK
    <3> QED
      BY <2>1, <3>1, <3>2, <3>3 DEF Read, Concluded
  <2>5. parsing = "undefined" =>
          \/ \E k \in A!Others : Len(argv[k]) < 2
          \/ A!Complete /\ \E k \in A!Positions : A!Others = {k} /\ A!Dots(argv[k]) = {}
    <3> SUFFICES ASSUME i > Len(argv), filename # A!NoFile, ok, A!Dots(filename) = {}
                 PROVE  A!Complete /\ \E k \in A!Positions : A!Others = {k} /\ A!Dots(argv[k]) = {}
      BY DEF Read, Concluded
    <3>1. A!Complete
      BY ReadIsComplete
    <3>2. PICK k \in A!Others : A!Others = {k} /\ filename = argv[k]
      BY AllBefore DEF Read, Scanned, Filed
    <3> QED
      BY <3>1, <3>2, NoValues
  <2>6. ASSUME A!Complete
        PROVE  /\ DOMAIN userArgs = {A!SkipDashes(argv[k]) : k \in A!Given(A!Plain \cup A!Valued)}
               /\ \A k \in A!Given(A!Valued) :
                    (\A j \in A!Given(A!Valued) : argv[j] = argv[k] => j <= k)
                      => userArgs[A!SkipDashes(argv[k])] = argv[k + 1]
    <3>1. /\ Before(AllFlags) = AllFlags
          /\ Before(A!Given(A!Valued)) = A!Given(A!Valued)
      BY <2>6, CompleteIsRead
    <3>2. DOMAIN userArgs = {A!SkipDashes(argv[k]) : k \in A!Given(A!Plain \cup A!Valued)}
      BY <3>1 DEF Read, Scanned, Flagged, AllFlags
    <3> QED
      BY <3>1, <3>2 DEF Read, Scanned, Answered
  <2>7. parsing = "driver" <=> A!Complete /\ \E k \in A!Positions : File(k)
    BY <2>2, <2>4
  <2>8. parsing = "undefined" <=>
          \/ \E k \in A!Others : Len(argv[k]) < 2
          \/ A!Complete /\ \E k \in A!Positions : A!Others = {k} /\ A!Dots(argv[k]) = {}
    BY <2>4, <2>5, ShortIsFirst
  <2> QED
    BY <2>6, <2>7, <2>8 DEF ParsesLine, A!ParsesLine
<1>2. Init => Read \/ ~A!Dashed
  BY InitRead
<1>3. (Read \/ ~A!Dashed) /\ [Next]_vars => (Read \/ ~A!Dashed)'
  <2>1. [Next]_vars => UNCHANGED argv
    BY DEF Next, ParseArguments, Drive, vars, arguments, A!Next, A!ParseFlag, A!ParseValue,
           A!MissingValue, A!TakeFile, A!InvalidArgument, A!ShortArgument, A!GiveUp, A!StartDriver
  <2>2. UNCHANGED argv => A!Dashed' = A!Dashed
    BY LineStays
  <2> QED
    BY <2>1, <2>2, NextRead
<1>4. ~A!Dashed => ParsesLine
  BY DEF ParsesLine, A!ParsesLine
<1> QED
  BY <1>1, <1>2, <1>3, <1>4, PTL DEF Spec

-----------------------------------------------------------------------------
(* The promise of the whole call *)

\* The line has no look-alike of a flag, and what it names is no assembly file.
Regular == A!Dashed /\ Extension(Named) # ".s"

\* Until the driver starts it is ready for any file, and from then on it keeps
\* its own invariant.
Whole ==
  /\ Read /\ Regular
  /\ parsing # "driver" => Idle
  /\ parsing = "driver" => IInv

\* The named file of a line with one.
LEMMA NamedIs == ASSUME NEW k \in A!Positions, A!Others = {k} PROVE Named = argv[k]
BY DEF Named

\* What the driver finds is what the line says.
LEMMA DriverReady ==
  ASSUME Idle, Read, NEW k \in A!Positions, A!Others = {k}, filename = argv[k]
  PROVE  Ready
<1>1. Named = filename
  BY NamedIs
<1>2. N!Directories = D!Directories
  BY <1>1, NamedDirectories, TheDirectories DEF ext
<1> QED
  BY <1>2 DEF Idle, Ready

\* The driver has the flags that the line asks for.
LEMMA FlagsAsked ==
  ASSUME Read, i > Len(argv)
  PROVE  flags = Asked
<1> DEFINE Keys == {A!SkipDashes(argv[k]) : k \in AllFlags}
           Plains == {A!SkipDashes(argv[k]) : k \in A!Given(A!Plain)}
<1>1. DOMAIN userArgs = Keys
  BY AllBefore DEF Read, Scanned, Flagged
<1>2. ASSUME NEW f \in {"lex", "parse", "validate", "codegen"}
      PROVE  <<f>> \in Keys <=> <<f>> \in Plains
  <2>1. <<f>> \in A!Plain
    BY DEF A!Plain
  <2>2. \A k \in AllFlags : A!SkipDashes(argv[k]) = <<f>> => k \in A!Given(A!Plain)
    BY <2>1, NoValues, Kind DEF Read
  <2>3. A!Given(A!Plain) \subseteq AllFlags
    BY DEF A!Given, AllFlags
  <2> QED
    BY <2>2, <2>3
<1> HIDE DEF Keys, Plains
<1>3. Stops(Keys) = Stops(Plains)
  BY <1>2 DEF Stops
<1> QED
  BY <1>1, <1>3 DEF Asked, Plains, flags

\* While the driver works, what is asked of the call is asked of the driver.
LEMMA SameRequest ==
  ASSUME Read, parsing = "driver"
  PROVE  /\ flags = Asked
         /\ Sensible = D!Compiles(user, stem, flags)
<1>1. PICK k \in A!Positions : A!Others = {k} /\ filename = argv[k]
  BY DriverReads
<1>2. Named = filename /\ Cardinality(A!Others) = 1
  BY <1>1, NamedIs, FS_Singleton
<1>3. flags = Asked
  BY DriverReads, FlagsAsked
<1> QED
  BY <1>2, <1>3, DriverReads DEF Sensible, D!Compiles, stem

\* A call starts with its invariant,
LEMMA InitWhole == ASSUME Init, Regular PROVE Whole
<1>1. parsing = "running" /\ Idle
  BY DEF Init, A!Init, Idle
<1> QED
  BY <1>1, InitRead DEF Whole, Regular

\* The driver's invariant holds when it starts.
LEMMA StartsReady ==
  ASSUME Whole, GccRuns = TRUE, A!StartDriver, parsing' = "driver"
  PROVE  IInv
<1>1. i > Len(argv) /\ filename # A!NoFile /\ ok /\ Idle
  BY DEF A!StartDriver, A!Parsed, Whole
<1>2. PICK k \in A!Others : filename = argv[k] /\ A!Others = {k}
  BY <1>1, AllBefore DEF Whole, Read, Scanned, Filed
<1>3. k \in A!Positions
  BY NoValues
<1>4. Named = filename
  BY <1>2, <1>3, NamedIs
<1>5. ext \in {".c", ".i"}
  BY <1>4, ThreeExtensions DEF Whole, Regular, ext
<1>6. Ready
  BY <1>1, <1>2, <1>3, DriverReady DEF Whole
<1> QED
  BY <1>5, <1>6, ReadyTyped, ReadyRunning DEF IInv

\* and every step of it keeps the invariant.
LEMMA NextWhole == ASSUME GccRuns = TRUE PROVE Whole /\ [Next]_vars => Whole'
<1> SUFFICES ASSUME Whole, [Next]_vars PROVE Whole'
  OBVIOUS
<1>1. Read'
  BY NextRead DEF Whole
<1>2. UNCHANGED argv
  BY DEF Next, ParseArguments, Drive, vars, arguments, A!Next, A!ParseFlag, A!ParseValue,
         A!MissingValue, A!TakeFile, A!InvalidArgument, A!ShortArgument, A!GiveUp, A!StartDriver
<1>3. Regular'
  <2>1. UNCHANGED <<A!Dashed, Named>>
    BY <1>2, SameLine, LineStays
  <2> QED
    BY <2>1 DEF Whole, Regular, Extension
<1>5. ASSUME IInv, [D!Next]_(D!vars) PROVE IInv'
  BY <1>5, NextTyped, NextRunning DEF IInv
<1>6. CASE ParseArguments
  <2>1. Idle /\ Idle' /\ UNCHANGED driver
    BY <1>2, <1>6, ParsingFirst, IdleStays DEF Whole
  <2>2. CASE parsing' # "driver"
    BY <1>1, <1>3, <2>1, <2>2 DEF Whole
  <2>3. CASE parsing' = "driver"
    <3>1. A!StartDriver
      BY <1>6, <2>3, ParsingFirst DEF ParseArguments, A!Next, A!ParseFlag, A!ParseValue,
         A!MissingValue, A!TakeFile, A!InvalidArgument, A!ShortArgument, A!GiveUp
    <3>2. IInv
      BY <2>3, <3>1, StartsReady
    <3>3. UNCHANGED D!vars
      BY <2>1, <3>1 DEF A!StartDriver, driver, D!vars, D!memory, D!call, ext, stem, flags
    <3>4. IInv'
      BY <1>5, <3>2, <3>3
    <3> QED
      BY <1>1, <1>3, <2>3, <3>4 DEF Whole
  <2> QED
    BY <2>2, <2>3
<1>7. CASE Drive
  <2>1. parsing = "driver" /\ parsing' = "driver"
    BY <1>7 DEF Drive, arguments
  <2>2. IInv'
    BY <1>5, <1>7, <2>1, DriverStep DEF Whole
  <2> QED
    BY <1>1, <1>3, <2>1, <2>2 DEF Whole
<1>8. CASE UNCHANGED vars
  <2>1. UNCHANGED parsing /\ UNCHANGED <<argv, driver>>
    BY <1>8 DEF vars, arguments
  <2>2. IInv => IInv'
    BY <1>5, <1>8, DriverStutters
  <2> QED
    BY <1>1, <1>3, <2>1, <2>2, IdleStays DEF Whole
<1> QED
  BY <1>6, <1>7, <1>8 DEF Next

\* Before the driver starts there is no new executable.
LEMMA IdleExecutable == ASSUME files \in N!Directories PROVE D!Executable \in {"absent", "old"}
<1>1. files \in Found(Extension(Named))
  BY NamedDirectories
<1> QED
  BY <1>1, ThreeExtensions, ReadyExecutable

\* The initial states are those of the promise.
LEMMA InitPromises == ASSUME Init PROVE Promise!Init
<1>1. D!Executable \in {"absent", "old"}
  BY IdleExecutable DEF Init
<1>2. parsing = "running" /\ D!Outcome = "none"
  BY DEF Init, A!Init, D!Fresh, D!Outcome
<1>3. Sensible \in BOOLEAN /\ (Asked # {}) \in BOOLEAN
  BY DEF Sensible
<1> QED
  BY <1>1, <1>2, <1>3 DEF Promise!Init

\* Every step of the call is one of the promise, or none.
LEMMA NextPromises ==
  ASSUME GccRuns = TRUE, Whole, [Next]_vars
  PROVE  [Promise!Next]_(Promise!vars)
<1>1. Whole'
  BY NextWhole
<1>2. UNCHANGED <<argv, user>> => UNCHANGED <<Asked, Sensible>>
  <2> SUFFICES ASSUME UNCHANGED <<argv, user>> PROVE UNCHANGED <<Asked, Sensible>>
    OBVIOUS
  <2>1. UNCHANGED <<A!Others, Named, Asked, A!WellFormed>>
    BY SameLine
  <2> QED
    BY <2>1 DEF Sensible, D!Compiles, D!Correct, Stem
<1>3. CASE ParseArguments
  <2>1. Idle /\ UNCHANGED driver /\ parsing = "running"
    BY <1>3, ParsingFirst DEF Whole
  <2>2. UNCHANGED argv
    BY <1>3 DEF ParseArguments, A!Next, A!ParseFlag, A!ParseValue,
         A!MissingValue, A!TakeFile, A!InvalidArgument, A!ShortArgument, A!GiveUp, A!StartDriver
  <2>3. UNCHANGED <<Asked, Sensible>>
    BY <1>2, <2>1, <2>2 DEF driver
  <2>4. UNCHANGED <<D!Executable, D!Outcome>> /\ D!Outcome = "none"
    BY <2>1 DEF driver, D!Executable, D!Outcome, Idle, D!Fresh
  <2>5. D!Executable # "new"
    BY <2>1, IdleExecutable DEF Idle
  <2>6. CASE parsing' = "failure"
    BY <2>1, <2>3, <2>4, <2>5, <2>6 DEF Promise!Next, Promise!Fail
  <2>7. CASE parsing' # "failure"
    BY <2>1, <2>3, <2>4, <2>7 DEF Promise!vars
  <2> QED
    BY <2>6, <2>7
<1>4. CASE Drive
  <2>1. parsing = "driver" /\ parsing' = "driver" /\ UNCHANGED <<argv, user>>
    BY <1>4, DriverStep, CallStays DEF Drive, arguments, D!call
  <2>2. [D!Promise!Next]_(D!Promise!vars)
    BY <1>4, <2>1, DriverStep, NextRefines DEF Whole
  <2> DEFINE theirs == [stops |-> flags # {}, correct |-> D!Compiles(user, stem, flags)]
             ours   == [stops |-> Asked # {}, correct |-> Sensible]
  <2>3. theirs = ours
    BY <2>1, SameRequest DEF Whole
  <2>4. theirs' = theirs
    BY <1>4, DriverStep, CallStays DEF D!call, D!Compiles, D!Correct
  <2>5. ours' = ours
    BY <1>2, <2>1
  <2>6. /\ (IF parsing = "failure" THEN "failure" ELSE D!Outcome) = D!Outcome
        /\ (IF parsing' = "failure" THEN "failure" ELSE D!Outcome') = D!Outcome'
    BY <2>1
  <2>7. CASE D!Promise!Build
    BY <2>3, <2>4, <2>5, <2>6, <2>7 DEF D!Promise!Build, Promise!Build, Promise!Next
  <2>8. CASE D!Promise!Lose
    BY <2>3, <2>4, <2>5, <2>6, <2>8 DEF D!Promise!Lose, Promise!Lose, Promise!Next
  <2>9. CASE D!Promise!Succeed
    BY <2>3, <2>4, <2>5, <2>6, <2>9 DEF D!Promise!Succeed, Promise!Succeed, Promise!Next
  <2>10. CASE D!Promise!Fail
    BY <2>3, <2>4, <2>5, <2>6, <2>10 DEF D!Promise!Fail, Promise!Fail, Promise!Next
  <2>11. CASE UNCHANGED D!Promise!vars
    BY <2>3, <2>4, <2>5, <2>6, <2>11 DEF D!Promise!vars, Promise!vars
  <2> QED
    BY <2>2, <2>7, <2>8, <2>9, <2>10, <2>11 DEF D!Promise!Next
<1>5. CASE UNCHANGED vars
  BY <1>2, <1>5 DEF Promise!vars, vars, arguments, driver, D!Executable, D!Outcome
<1> QED
  BY <1>3, <1>4, <1>5 DEF Next

\* From argv to the exit status and the executable: on every line that has no
\* look-alike of a flag and names no assembly file, and with a preprocessor that
\* can be started, a call does what Compilation promises of the line.
THEOREM CallKeepsPromise == ASSUME GccRuns = TRUE PROVE Spec /\ Regular => KeepsPromise
<1>1. Init /\ Regular => Whole
  BY InitWhole
<1>2. Whole /\ [Next]_vars => Whole'
  BY NextWhole
<1>3. Init => Promise!Init
  BY InitPromises
<1>4. Whole /\ [Next]_vars => [Promise!Next]_(Promise!vars)
  BY NextPromises
<1> QED
  BY <1>1, <1>2, <1>3, <1>4, PTL DEF Spec, KeepsPromise, Promise!Spec
=============================================================================
