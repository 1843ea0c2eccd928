------------------------------- MODULE Lexer -------------------------------
(***************************************************************************)
(* src/lexer/lexer.c: the buffer, cut into tokens.                         *)
(*                                                                         *)
(* A character is a string of one letter, "\n" the end of a line.  The     *)
(* buffer is what file_to_buffer makes, a text and a terminating zero.     *)
(* One step is one iteration of one of the loops, or one token.            *)
(***************************************************************************)
EXTENDS Tokens, Integers

CONSTANT Texts  \* the texts to scan: sequences of characters, none of them the zero

NUL == "\\0"
Spaces  == {" ", "\n"}
Numeric == {"0", "1", "2", "3", "4", "5", "6", "7", "8", "9"}
Letters == {"a", "b", "c", "d", "e", "f", "g", "h", "i", "j", "k", "l", "m",
            "n", "o", "p", "q", "r", "s", "t", "u", "v", "w", "x", "y", "z"}
WordChars == Letters \cup Numeric \cup {"_"}

VARIABLES
  buffer, nextPos,  \* the characters, and the index, from 1, of the next one
  tokenArray,
  startPos,         \* start_position of the number or the word being read
  place,            \* the loop in progress
  hadError,
  status            \* "running", "done", or "undefined" past the buffer

vars == <<buffer, nextPos, tokenArray, startPos, place, hadError, status>>

Init ==
  /\ \E t \in Texts : buffer = Append(t, NUL)
  /\ nextPos = 1 /\ startPos = 1
  /\ tokenArray = <<>>
  /\ place = "whitespace"
  /\ hadError = FALSE /\ status = "running"

-----------------------------------------------------------------------------

In(p) == status = "running" /\ place = p /\ nextPos <= Len(buffer)
Char  == buffer[nextPos]
Ahead == buffer[nextPos + 1]   \* for a character that is not the zero

Advance(n) == nextPos' = nextPos + n
Goto(p)    == place' = p
Push(type, literal) == tokenArray' = Append(tokenArray, Token(type, literal))

\* The token is complete; the next call of scan_next_token skips spaces first.
Scanned(type, literal) == Push(type, literal) /\ Goto("whitespace")

-----------------------------------------------------------------------------
(* skip_whitespace and skip_comments, which calls both again *)

SkipSpace ==
  /\ In("whitespace") /\ Char \in Spaces
  /\ Advance(1)
  /\ UNCHANGED <<buffer, tokenArray, startPos, place, hadError, status>>

OpensComment == Char = "/" /\ Ahead = "/"

StartComment ==
  /\ In("whitespace") /\ OpensComment
  /\ Advance(2) /\ Goto("comment")
  /\ UNCHANGED <<buffer, tokenArray, startPos, hadError, status>>

\* The line's end is the only way out of the loop.
SkipComment ==
  /\ In("comment")
  /\ Advance(1)
  /\ Goto(IF Char = "\n" THEN "whitespace" ELSE "comment")
  /\ UNCHANGED <<buffer, tokenArray, startPos, hadError, status>>

-----------------------------------------------------------------------------
(* scan_next_token *)

At(chars) == In("whitespace") /\ Char \in chars /\ ~OpensComment

ScanEOF ==
  /\ At({NUL})
  /\ Push("EOF", NoLiteral) /\ status' = "done"
  /\ UNCHANGED <<buffer, nextPos, startPos, place, hadError>>

Symbol ==
  { <<"-", "MINUS">>, <<"&", "AMPERSAND">>, <<"|", "PIPE">>, <<"=", "EQUAL">>,
    <<"<", "LESS_THAN">>, <<">", "GREATER_THAN">>, <<"!", "EXCLAMATION">>, <<"+", "PLUS">>,
    <<"*", "ASTERISK">>, <<"/", "FORWARD_SLASH">>, <<"%", "PERCENT">>, <<"~", "TILDE">>,
    <<"^", "CARET">>, <<"(", "LPAREN">>, <<")", "RPAREN">>, <<"{", "LBRACE">>,
    <<"}", "RBRACE">>, <<";", "SEMICOLON">> }
Symbols == {s[1] : s \in Symbol}

\* The symbols of two characters.
Pair ==
  { <<"-", "-", "DECREMENT">>, <<"&", "&", "LOGICAL_AND">>, <<"|", "|", "LOGICAL_OR">>,
    <<"=", "=", "LOGICAL_EQUAL">>, <<"<", "<", "LEFT_SHIFT">>, <<"<", "=", "LESS_EQUAL">>,
    <<">", ">", "RIGHT_SHIFT">>, <<">", "=", "GREATER_EQUAL">>, <<"!", "=", "NOT_EQUAL">> }
IsPair(p) == Char = p[1] /\ Ahead = p[2]

ScanPair ==
  /\ At(Symbols)
  /\ \E p \in Pair : IsPair(p) /\ Scanned(p[3], NoLiteral)
  /\ Advance(2)
  /\ UNCHANGED <<buffer, startPos, hadError, status>>

\* Mutant of ScanSymbol: the single character is tried before the pair.
ScanSymbolFirst ==
  /\ At(Symbols)
  /\ \E s \in Symbol : Char = s[1] /\ Scanned(s[2], NoLiteral)
  /\ Advance(1)
  /\ UNCHANGED <<buffer, startPos, hadError, status>>

ScanSymbol ==
  /\ At(Symbols) /\ ~\E p \in Pair : IsPair(p)
  /\ \E s \in Symbol : Char = s[1] /\ Scanned(s[2], NoLiteral)
  /\ Advance(1)
  /\ UNCHANGED <<buffer, startPos, hadError, status>>

\* A digit starts a number, a letter or an underscore a word.
StartLiteral ==
  /\ At(WordChars)
  /\ startPos' = nextPos
  /\ Advance(1) /\ Goto(IF Char \in Numeric THEN "number" ELSE "word")
  /\ UNCHANGED <<buffer, tokenArray, hadError, status>>

ScanInvalid ==
  /\ In("whitespace") /\ Char \notin Spaces \cup Symbols \cup WordChars \cup {NUL}
  /\ Advance(1) /\ Scanned("INVALID", NoLiteral)
  /\ hadError' = TRUE
  /\ UNCHANGED <<buffer, startPos, status>>

-----------------------------------------------------------------------------
(* handle_number and handle_keyword_identifier *)

Literal == SubSeq(buffer, startPos, nextPos - 1)

\* Mutant of ReadOn: a number's loop looks without advancing.
ReadOnStays ==
  /\ \/ In("number") /\ Char \in Numeric /\ UNCHANGED nextPos
     \/ In("word") /\ Char \in WordChars /\ Advance(1)
  /\ UNCHANGED <<buffer, tokenArray, startPos, place, hadError, status>>

ReadOn ==
  /\ \/ In("number") /\ Char \in Numeric
     \/ In("word") /\ Char \in WordChars
  /\ Advance(1)
  /\ UNCHANGED <<buffer, tokenArray, startPos, place, hadError, status>>

\* A number that runs into a word is an error, and a token all the same.
EndNumber ==
  /\ In("number") /\ Char \notin Numeric
  /\ hadError' = (hadError \/ Char \in WordChars)
  /\ Scanned("INTEGER_LITERAL", Literal)
  /\ UNCHANGED <<buffer, nextPos, startPos, status>>

EndWord ==
  /\ In("word") /\ Char \notin WordChars
  /\ LET type == keyword_to_tokentype(Literal)
     IN IF type # "INVALID" THEN Scanned(type, NoLiteral)
                            ELSE Scanned("IDENTIFIER", Literal)
  /\ UNCHANGED <<buffer, nextPos, startPos, hadError, status>>

\* A comment has no end, and C says nothing of what follows the buffer.
ReadPastEnd ==
  /\ status = "running" /\ nextPos > Len(buffer)
  /\ status' = "undefined"
  /\ UNCHANGED <<buffer, nextPos, tokenArray, startPos, place, hadError>>

Next ==
  \/ SkipSpace \/ StartComment \/ SkipComment
  \/ ScanEOF \/ ScanPair \/ ScanSymbol \/ StartLiteral \/ ScanInvalid
  \/ ReadOn \/ EndNumber \/ EndWord
  \/ ReadPastEnd

Spec == Init /\ [][Next]_vars

-----------------------------------------------------------------------------
(* The rule of the longest lexeme, on a text s without the zero. *)

IsNumber(s) == s # <<>> /\ \A k \in DOMAIN s : s[k] \in Numeric
IsWord(s)   == s # <<>> /\ s[1] \notin Numeric /\ \A k \in DOMAIN s : s[k] \in WordChars
IsSymbol(s) == \/ Len(s) = 1 /\ s[1] \in Symbols
               \/ Len(s) = 2 /\ \E p \in Pair : s = <<p[1], p[2]>>
Lexeme(s)   == IsNumber(s) \/ IsWord(s) \/ IsSymbol(s)

Classify(s) ==
  CASE IsNumber(s) -> Token("INTEGER_LITERAL", s)
    [] IsWord(s) /\ keyword_to_tokentype(s) = "INVALID" -> Token("IDENTIFIER", s)
    [] IsWord(s) /\ keyword_to_tokentype(s) # "INVALID" -> Token(keyword_to_tokentype(s), NoLiteral)
    [] IsSymbol(s) /\ Len(s) = 1 -> Token((CHOOSE y \in Symbol : y[1] = s[1])[2], NoLiteral)
    [] IsSymbol(s) /\ Len(s) = 2 -> Token((CHOOSE p \in Pair : s = <<p[1], p[2]>>)[3], NoLiteral)

\* What stands at p: the place behind it, its tokens, whether it is a character
\* of no lexeme or a number that runs into a word, and whether it is a comment
\* without an end.
Part(n, toks, wrong, endless) == [next |-> n, tokens |-> toks, bad |-> wrong, open |-> endless]
LineEnds(s, p) == {n \in p..Len(s) : s[n] = "\n" /\ \A m \in p..n-1 : s[m] # "\n"}
Longest(s, p)  == {n \in p..Len(s) : /\ Lexeme(SubSeq(s, p, n))
                                     /\ \A m \in n+1..Len(s) : ~Lexeme(SubSeq(s, p, m))}
PartAt(s, p) ==
  LET ends    == LineEnds(s, p)
      longest == Longest(s, p)
      end     == CHOOSE n \in longest : TRUE
      word    == SubSeq(s, p, end)
  IN CASE s[p] \in Spaces -> Part(p + 1, <<>>, FALSE, FALSE)
       [] p < Len(s) /\ s[p] = "/" /\ s[p + 1] = "/" ->
            IF ends = {} THEN Part(Len(s) + 1, <<>>, FALSE, TRUE)
            ELSE Part((CHOOSE n \in ends : TRUE) + 1, <<>>, FALSE, FALSE)
       [] OTHER ->
            IF longest = {} THEN Part(p + 1, <<Token("INVALID", NoLiteral)>>, TRUE, FALSE)
            ELSE Part(end + 1, <<Classify(word)>>,
                      IsNumber(word) /\ end < Len(s) /\ s[end + 1] \in WordChars, FALSE)

\* The tokens of s and its errors: those of its parts, one after the other.
Tokenize(s) ==
  LET from[p \in 1..Len(s)+1] ==
        IF p > Len(s) THEN [tokens |-> <<Token("EOF", NoLiteral)>>, bad |-> FALSE, open |-> FALSE]
        ELSE LET part == PartAt(s, p)
                 rest == from[part.next]
             IN [tokens |-> part.tokens \o rest.tokens, bad |-> part.bad \/ rest.bad,
                 open |-> part.open \/ rest.open]
  IN from[1]

Text == SubSeq(buffer, 1, Len(buffer) - 1)

-----------------------------------------------------------------------------
(* Properties *)

TypeOK ==
  /\ nextPos \in 1..Len(buffer)+1 /\ startPos \in 1..nextPos
  /\ place \in {"number", "word"} => startPos < nextPos
  /\ \A i \in 1..Len(tokenArray) : tokenArray[i].type \in TokenType
  /\ place \in {"whitespace", "comment", "number", "word"}
  /\ hadError \in BOOLEAN /\ status \in {"running", "done", "undefined"}

\* Character by character the lexer cuts the text where the rule of the longest
\* lexeme does, through comments, spaces, keywords that begin or end longer
\* words, and errors.  It flags exactly the texts that are no program's, and
\* runs past the buffer exactly on a comment that no newline ends.
TokenizesByLongestMatch ==
  status # "running" =>
    LET r == Tokenize(Text)
    IN /\ status = "undefined" <=> r.open
       /\ ~r.open => tokenArray = r.tokens /\ hadError = r.bad
=============================================================================
