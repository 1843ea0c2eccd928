----------------------------- MODULE MCCompiler -----------------------------
EXTENDS CompilerMeaning

IntWord == <<"i", "n", "t">>
Void   == <<"v", "o", "i", "d">>
Return == <<"r", "e", "t", "u", "r", "n">>
SP     == <<" ">>

\* Lexemes, whole or not: any two, and any four of a few, with comments, spaces
\* and ends of lines.
Words     == {IntWord, Void, Return, <<"i", "n">>, <<"x", "7">>, <<"_">>, <<"4", "2">>}
Symbols   == {"-", "&", "|", "=", "<", ">", "!", "+", "*", "/", "%", "~", "^", "(", ")", "{", "}", ";"}
Fragments == Words \cup {<<c>> : c \in Symbols \cup {" ", "\n", "@"}}
Few       == {<<c>> : c \in {"/", "-", "=", "<", "\n", " "}} \cup {<<"4", "2">>, IntWord}
Lexemes   == {<<>>, <<"/", "/", "x", "\n", " ", "/", "/", "\n", "i", "n", "t">>}
        \cup {FlattenSeq(f) : f \in [1..2 -> Fragments]}
        \cup {FlattenSeq(f) : f \in [1..4 -> Few]}

\* Tokens as they are spelled, each with a space after it.
UpTo(n, set) == UNION {[1..k -> set] : k \in 0..n}
X     == <<"x", " ">>
One   == <<"1", " ">>
Ten   == <<"3", "0", " ">>  \* an int of 6 bits
Big   == <<"4", "0", " ">>  \* none
Kinds == {IntWord \o SP, Return \o SP, X, One} \cup {<<c, " ">> : c \in {"=", "-", "(", ")", ";"}}

Head6     == <<IntWord \o SP, <<"x">>, <<"(">>, Void, <<")">>, <<"{">>>>
Main      == FlattenSeq(Head6)
Closed(b) == Main \o b \o <<"}">>
Text(f)   == FlattenSeq(f)

\* Any body of a few tokens; the text ends early, or goes on too long; stray
\* characters.
Bodies == {Closed(Text(b)) : b \in UpTo(4, Kinds)}
     \cup {Main \o Text(b) : b \in UpTo(3, Kinds)}
     \cup {Text(SubSeq(Head6, 1, k)) : k \in 0..5}
     \cup {Text([Head6 EXCEPT ![k] = <<";">>]) \o <<"}">> : k \in 1..6}
     \cup {Closed(<<"}">>), Closed(<<"@">>), Closed(<<"4", "2", "x", ";">>),
           Closed(<<"x", "@", ";">>), Closed(<<"/", "/", "\n">>), Closed(<<"/", "/">>)}

\* int x=2; return <e>;  and  int x=2;int y=<e>;return y-x;
Spaced(c)   == <<c, " ">>
Operators == {Spaced(c) : c \in {"+", "-", "*", "/", "%", "&", "|", "^", "<", ">", "="}}
        \cup {<<"<", "<", " ">>, <<">", ">", " ">>, <<"&", "&", " ">>, <<"|", "|", " ">>,
              <<"=", "=", " ">>, <<"!", "=", " ">>, <<"<", "=", " ">>, <<">", "=", " ">>}
Unaries   == {Spaced(c) : c \in {"~", "-", "!"}}
PerLevel  == {Spaced(c) : c \in {"=", "<", "-", "%"}} \cup {<<"&", "&", " ">>}
OpenP  == <<"(">>
CloseP == <<")">>
Twos   == {X \o o \o One \o p \o Ten : o \in Operators, p \in Operators}
     \cup {u \o X \o o \o OpenP \o One \o p \o u \o Big \o CloseP :
             u \in Unaries, o \in PerLevel, p \in PerLevel}
     \cup {OpenP \o X \o o \o One \o CloseP \o p \o X : o \in PerLevel, p \in PerLevel}
Threes == {X \o o \o One \o p \o X \o q \o Ten : o \in PerLevel, p \in PerLevel, q \in PerLevel}
SetX   == IntWord \o SP \o <<"x", "=", "2", ";">>
Chains == {Closed(SetX \o Return \o SP \o e \o <<";">>) : e \in Twos}
     \cup {Closed(SetX \o IntWord \o SP \o <<"y", "=">> \o e \o <<";">> \o Return \o
                  <<" ", "y", "-", "x", ";">>) : e \in Threes}
     \cup {Closed(<<"-", "(", "1", "=", "2", ")", ";">>), Closed(SetX \o <<"-", "x", ";">>)}

MCTexts == Lexemes \cup Bodies \cup Chains
MCJunk  == {-8, 5}
=============================================================================
