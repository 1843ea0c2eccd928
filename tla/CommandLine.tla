---------------------------- MODULE CommandLine ----------------------------
(***************************************************************************)
(* src/main.c and src/args.c: from argv to a file and a set of flags; and  *)
(* the names that src/utils/file.c derives from that of the file.          *)
(*                                                                         *)
(* An argument is a sequence of characters, where a word that the code     *)
(* only compares as a whole counts as one: --lex is <<"-", "-", "lex">>.   *)
(***************************************************************************)
EXTENDS Integers, Sequences

CONSTANT Lines  \* the command lines: sequences of arguments, argv[1] first

VARIABLES
  argv, i,         \* i counts from 1
  userArgs,        \* from a flag to its value
  filename, ok,    \* the null pointer is the empty name
  status           \* "running", "driver" once driver_start is called, "failure"
                   \* or "undefined"

vars == <<argv, i, userArgs, filename, ok, status>>

NoFile == <<>>

Init ==
  /\ argv \in Lines /\ i = 1
  /\ userArgs = <<>> /\ filename = NoFile /\ ok = TRUE
  /\ status = "running"

-----------------------------------------------------------------------------
(* args_parse *)

\* available_args, as main fills it.
Plain   == {<<"lex">>, <<"parse">>, <<"validate">>, <<"codegen">>}
Valued  == {<<"print">>}

Parsing == status = "running" /\ i <= Len(argv)
Full    == argv[i]
\* The first two characters are skipped, whatever they are.
SkipDashes(a) == SubSeq(a, 3, Len(a))
Arg     == SkipDashes(Full)

put(key, value) ==
  userArgs' = [k \in DOMAIN userArgs \cup {key} |-> IF k = key THEN value ELSE userArgs[k]]

ParseFlag ==
  /\ Parsing /\ Arg \in Plain
  /\ put(Arg, Arg) /\ i' = i + 1
  /\ UNCHANGED <<argv, filename, ok, status>>

\* Mutant of ParseValue: the value stays to be parsed.
ParseValueStays ==
  /\ Parsing /\ Arg \in Valued /\ i < Len(argv)
  /\ put(Arg, argv[i + 1]) /\ i' = i + 1
  /\ UNCHANGED <<argv, filename, ok, status>>

ParseValue ==
  /\ Parsing /\ Arg \in Valued /\ i < Len(argv)
  /\ put(Arg, argv[i + 1]) /\ i' = i + 2
  /\ UNCHANGED <<argv, filename, ok, status>>

\* argv[argc] is NULL, which string_map_put asserts that no value is.
MissingValue ==
  /\ Parsing /\ Arg \in Valued /\ i = Len(argv)
  /\ status' = "failure"
  /\ UNCHANGED <<argv, i, userArgs, filename, ok>>

IsFlag == Arg \in Plain \cup Valued

TakeFile ==
  /\ Parsing /\ Len(Full) > 1 /\ ~IsFlag /\ filename = NoFile
  /\ filename' = Full /\ i' = i + 1
  /\ UNCHANGED <<argv, userArgs, ok, status>>

InvalidArgument ==
  /\ Parsing /\ Len(Full) > 1 /\ ~IsFlag /\ filename # NoFile
  /\ ok' = FALSE /\ i' = i + 1
  /\ UNCHANGED <<argv, userArgs, filename, status>>

\* Two characters on from an argument of one is behind its end.
ShortArgument ==
  /\ Parsing /\ Len(Full) < 2
  /\ status' = "undefined"
  /\ UNCHANGED <<argv, i, userArgs, filename, ok>>

-----------------------------------------------------------------------------
(* The names of the files. *)

Dots(f) == {k \in 1..Len(f) : f[k] = "."}

\* The name is cut at its first dot, wherever that is.
filename_without_extension(f) ==
  LET first == CHOOSE k \in Dots(f) : \A j \in Dots(f) : k <= j
  IN SubSeq(f, 1, first - 1)
filename_extension(f, extension) == f \o extension

-----------------------------------------------------------------------------
(* main *)

Parsed == status = "running" /\ i > Len(argv)

\* No argument, no file, or an argument too many.
GiveUp ==
  /\ Parsed /\ (filename = NoFile \/ ~ok)
  /\ status' = "failure"
  /\ UNCHANGED <<argv, i, userArgs, filename, ok>>

\* The search for the dot has no other end.
StartDriver ==
  /\ Parsed /\ filename # NoFile /\ ok
  /\ status' = IF Dots(filename) = {} THEN "undefined" ELSE "driver"
  /\ UNCHANGED <<argv, i, userArgs, filename, ok>>

Next ==
  \/ ParseFlag \/ ParseValue \/ MissingValue \/ TakeFile \/ InvalidArgument \/ ShortArgument
  \/ GiveUp \/ StartDriver

Spec == Init /\ [][Next]_vars

-----------------------------------------------------------------------------
(* Properties *)

Positions == 1..Len(argv)
Flag(name) == <<"-", "-">> \o name

\* Argument k is the value of the flag before it.
IsValue == LET value[k \in 0..Len(argv)] ==
                 k > 1 /\ ~value[k-1] /\ argv[k-1] \in {Flag(n) : n \in Valued}
           IN value
Given(names) == {k \in Positions : ~IsValue[k] /\ argv[k] \in {Flag(n) : n \in names}}
\* Files, and what is no argument.  --print=ir is one of these: args.h:33 and the
\* help text (args.c:58) document --arg=value, but args_parse compares whole
\* arguments and takes a value from the next place only.
Others       == {k \in Positions : ~IsValue[k]} \ Given(Plain \cup Valued)

\* Nothing looks like a flag to args_parse, which does not see the dashes, but flags.
Dashed == \A k \in Others : SkipDashes(argv[k]) \notin Plain \cup Valued
\* Every argument can be read: it is as long as the dashes, and its value is there.
Complete == /\ \A k \in Given(Valued) : k < Len(argv)
            /\ \A k \in Others : Len(argv[k]) > 1
\* A command line in the form that args_parse takes, with files that have a dot.
WellFormed == Dashed /\ Complete /\ \A k \in Others : Dots(argv[k]) # {}

TypeOK ==
  /\ i \in 1..Len(argv)+1
  /\ DOMAIN userArgs \subseteq Plain \cup Valued
  /\ filename \in {NoFile} \cup {argv[k] : k \in Positions}
  /\ ok \in BOOLEAN /\ status \in {"running", "driver", "failure", "undefined"}

\* What args_parse and main make of any line on which only flags look like flags,
\* whatever the order.  The driver starts exactly when all can be read and one
\* argument, with a dot, is neither flag nor value: that is the file, be it in
\* the documented form --print=x.c.  Memory past an argument's end is read
\* exactly when one is shorter than the dashes, or the one file has no dot.
\* When all can be read, every flag given is found and no other, with the value
\* given last; a value that looks like a flag or a file is a value.
ParsesLine ==
  (status # "running" /\ Dashed) =>
    /\ status = "driver" <=>
         Complete /\ \E k \in Positions : Others = {k} /\ filename = argv[k] /\ Dots(argv[k]) # {}
    /\ status = "undefined" <=>
         \/ \E k \in Others : Len(argv[k]) < 2
         \/ Complete /\ \E k \in Positions : Others = {k} /\ Dots(argv[k]) = {}
    /\ Complete =>
         /\ DOMAIN userArgs = {SkipDashes(argv[k]) : k \in Given(Plain \cup Valued)}
         /\ \A k \in Given(Valued) :
              (\A j \in Given(Valued) : argv[j] = argv[k] => j <= k)
                => userArgs[SkipDashes(argv[k])] = argv[k + 1]
=============================================================================
