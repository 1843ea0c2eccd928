------------------------------ MODULE MCUnebcc ------------------------------
EXTENDS Unebcc

XC   == <<"x", ".", "c">>
XI   == <<"x", ".", "i">>
XS   == <<"x", ".", "s">>
Here == <<".", "/", "x", ".", "c">>

\* Files of each kind, one in this directory, a word that is no file, one that
\* is shorter than the dashes, each flag, and one with a value as args.h:33
\* documents it, which args_parse does not know.
Dash(name) == <<"-", "-">> \o name
Equals(name, value) == Dash(<<name, "=">>) \o value
Words  == {XC, XI, Here, <<"i", "r">>, <<"x">>, Equals("print", <<"i", "r">>)}
     \cup {Dash(<<n>>) : n \in {"print", "lex", "parse", "validate", "codegen"}}
Few    == {XC, <<"i", "r">>} \cup {Dash(<<n>>) : n \in {"print", "lex", "codegen"}}

MCLines   == {<<>>} \cup [1..1 -> Words] \cup [1..2 -> Words] \cup [1..3 -> Few]
MCStrays  == {<<XC>>, <<XS>>}
=============================================================================
