------------------------------- MODULE Lexer --------------------------------
(***************************************************************************)
(* The lexer of PBQL (prinbee/pbql/lexer.cpp) and the input it reads       *)
(* (prinbee/pbql/input.cpp).                                               *)
(*                                                                         *)
(* A text is a sequence of characters.  The characters which the lexer     *)
(* reads too far and gives back with ungetc() are the ones from "at" on.   *)
(* A token is <<kind, value>>; the kind of an operator is its spelling.    *)
(***************************************************************************)
EXTENDS Integers, Sequences, FiniteSets, SequencesExt, Loops

CONSTANT Texts          \* the texts to read

ASSUME LexerAssumption == \A t \in Texts : t \in Seq(STRING)

VARIABLES
    text,               \* the characters, as getc() returns them
    at,                 \* the next character
    tokens,             \* the tokens so far
    lexed               \* "": no, "EOF": all was read, "error": an exception

lexing == <<text, at, tokens, lexed>>

DigitChars == <<"0", "1", "2", "3", "4", "5", "6", "7", "8", "9", "A", "B", "C", "D", "E", "F">>
DigitValue(c) == (CHOOSE k \in DOMAIN DigitChars : DigitChars[k] = c) - 1
InBase(c, base) == \E k \in 1..base : DigitChars[k] = c
Letters == {"A", "B", "C", "D", "E", "F", "N", "O", "U", "X", "u", "_"}
Blank == {" ", "\n", "\t"}

\* input::getc(): a return, alone or before a new line, is one new line
Normalized(t) ==
    LET kept == {k \in DOMAIN t : ~(t[k] = "\n" /\ k > 1 /\ t[k - 1] = "\r")}
        nth(j) == CHOOSE k \in kept : Cardinality({i \in kept : i <= k}) = j
    IN  [j \in 1..Cardinality(kept) |-> IF t[nth(j)] = "\r" THEN "\n" ELSE t[nth(j)]]

CharAt(t, i) == IF i <= Len(t) THEN t[i] ELSE "EOS"

Token(kind, value, i) == [token |-> <<kind, value>>, at |-> i]
Invalid(i) == Token("error", 0, i)

\* the first position from i on whose character is not in S
After(t, i, S) ==
    LET stops == {k \in i..(Len(t) + 1) : CharAt(t, k) \notin S}
    IN  CHOOSE k \in stops : \A j \in stops : k <= j
\* the position after the new line which ends a line, or of the end
LineEnd(t, i) ==
    LET stops == {k \in i..(Len(t) + 1) : CharAt(t, k) \in {"\n", "EOS"}}
        k == CHOOSE k \in stops : \A j \in stops : k <= j
    IN  IF k > Len(t) THEN k ELSE k + 1

-----------------------------------------------------------------------------
(* Operators.                                                              *)

Singles == {"%", "&", "(", ")", "[", "]", "*", "+", ",", ".", ";", "@", "^", "=", "~"}

\* Mutant: the character after "||" is not given back.
Compound_NoUnget(t, i) ==
    LET c == CharAt(t, i)  d == CharAt(t, i + 1)
    IN  CASE c = "|" /\ d = "|" -> Token(IF CharAt(t, i + 2) = "/" THEN "||/" ELSE "||", 0, i + 3)
          [] OTHER -> Token(c, 0, i + 1)

\* '!', ':', '<', '>' and '|' with what may follow them
Compound(t, i) ==
    LET c == CharAt(t, i)  d == CharAt(t, i + 1)  alone == Token(c, 0, i + 1)
    IN  CASE c = "!" -> IF d = "~" THEN Token("!~", 0, i + 2) ELSE Invalid(i)
          [] c = ":" -> IF d = ":" THEN Token("::", 0, i + 2) ELSE alone
          [] c = "<" -> CASE d = "=" -> Token("<=", 0, i + 2)
                          [] d = "<" -> Token("<<", 0, i + 2)
                          [] d = ">" -> Token("<>", 0, i + 2)
                          [] OTHER -> alone
          [] c = ">" -> CASE d = "=" -> Token(">=", 0, i + 2)
                          [] d = ">" -> Token(">>", 0, i + 2)
                          [] OTHER -> alone
          [] OTHER -> CASE d = "/" -> Token("|/", 0, i + 2)
                        [] d = "|" -> IF CharAt(t, i + 2) = "/" THEN Token("||/", 0, i + 3) ELSE Token("||", 0, i + 2)
                        [] OTHER -> alone

-----------------------------------------------------------------------------
(* Comments between slash-star and star-slash.  The loops of the code are  *)
(* one: "stars" is set where the inner one looks for the end of a comment, *)
(* "count" is how many comments are open, and "at" 0 when the text ends.   *)

\* nested opening; the character after it is read twice
CommentSlashes(t, r) ==
    LET c == CharAt(t, r.at)  d == CharAt(t, r.at + 1)
    IN  CASE c = "/" /\ d = "*" -> [r EXCEPT !.at = @ + 2, !.count = @ + 1, !.stars = FALSE]
          [] c = "/" /\ d # "*" -> [r EXCEPT !.at = @ + 1, !.stars = FALSE]
          [] c = "EOS" -> [r EXCEPT !.at = 0, !.more = FALSE]
          [] OTHER -> [r EXCEPT !.at = @ + 1, !.stars = TRUE]
\* closing
CommentStars(t, r) ==
    CASE CharAt(t, r.at) # "*" -> CommentSlashes(t, r)
      [] CharAt(t, r.at) = "*" /\ CharAt(t, r.at + 1) # "/" -> [r EXCEPT !.at = @ + 1]
      [] OTHER -> [r EXCEPT !.at = @ + 2, !.count = @ - 1, !.more = r.count > 1]

\* where the comment ends whose opening is before i
CommentEnd(t, i) ==
    Loop(LAMBDA r : IF r.stars THEN CommentStars(t, r) ELSE CommentSlashes(t, r),
         [at |-> i, count |-> 1, stars |-> TRUE, more |-> TRUE], Len(t) + 1).at

\* the lines at the start of a text which start with '#'
HashLines(t, i) ==
    Loop(LAMBDA r : IF CharAt(t, r.at) = "#" THEN [r EXCEPT !.at = LineEnd(t, @)] ELSE [r EXCEPT !.more = FALSE],
         [at |-> i, more |-> TRUE], Len(t) + 1).at

-----------------------------------------------------------------------------
(* Strings.                                                                *)

\* after a backslash: an octal number has one to three digits, a hexadecimal one
\* the number its letter asks for, of which the case counts for \u and \U only
\* (\x is happy with one)
Escape(t, i) ==
    LET c == CharAt(t, i)
        octal == LET e == After(t, i, {DigitChars[k] : k \in 1..8}) IN IF e > i + 3 THEN i + 3 ELSE e
        wanted == CASE c = "X" -> 2 [] c = "u" -> 4 [] c = "U" -> 8 [] OTHER -> 0
        hex == LET e == After(t, i + 1, Range(DigitChars)) IN IF e > i + 1 + wanted THEN i + 1 + wanted ELSE e
        value(j, e, base) == FoldLeft(LAMBDA sum, d : base * sum + DigitValue(d), 0, SubSeq(t, j, e - 1))
    IN  CASE InBase(c, 8) -> [at |-> octal, code |-> value(i, octal, 8)]
          [] wanted > 0 ->
                IF hex = i + 1 + wanted \/ (wanted = 2 /\ hex = i + 2)
                THEN [at |-> hex, code |-> value(i + 1, hex, 16)]
                ELSE [at |-> i, code |-> 0]
          [] OTHER -> [at |-> i + 1, code |-> 1]

\* one character of a string, of which "s" was read; a quote is written twice
StringCharacter(t, escapes, r) ==
    LET c == CharAt(t, r.at)
        e == Escape(t, r.at + 1)
        read(x, i) == [r EXCEPT !.s = Append(@, x), !.at = i]
        refused == [r EXCEPT !.more = FALSE, !.valid = FALSE]
    IN  CASE c = "'" /\ CharAt(t, r.at + 1) # "'" -> [r EXCEPT !.more = FALSE, !.at = @ + 1]
          [] c = "'" /\ CharAt(t, r.at + 1) = "'" -> read("'", r.at + 2)
          [] c \in {"EOS", "\n"} -> refused
          [] c = "\\" /\ escapes ->
                IF e.code = 0 \/ CharAt(t, r.at + 1) = "EOS" THEN refused ELSE read("\\", e.at)
          [] OTHER -> read(c, r.at + 1)
String(t, i, escapes) ==
    LET r == Loop(LAMBDA q : StringCharacter(t, escapes, q),
                  [at |-> i, s |-> <<>>, valid |-> TRUE, more |-> TRUE], Len(t) + 1)
    IN  IF r.valid THEN Token("STRING", r.s, r.at) ELSE Invalid(r.at)

-----------------------------------------------------------------------------
(* Numbers.                                                                *)

ValueOf(t, i, e, base) == FoldLeft(LAMBDA sum, d : base * sum + DigitValue(d), 0, SubSeq(t, i, e - 1))

\* 0b, 0o and 0x numbers, or b'', o'' and x'' strings
BasedNumber(t, i, base, quoted) ==
    LET end == After(t, i, {DigitChars[k] : k \in 1..base})
        next == CharAt(t, end)
    IN  CASE base < 16 /\ InBase(next, 10) -> Invalid(i)
          [] end = i \/ (quoted /\ next # "'") -> Invalid(i)
          [] OTHER -> Token("INTEGER", ValueOf(t, i, end, base), IF quoted THEN end + 1 ELSE end)

\* 1.5e-3: strtold() refuses an exponent without digits
FloatingPoint(t, i, period) ==
    LET decimals == {DigitChars[k] : k \in 1..10}
        fraction == After(t, period + 1, decimals)
        sign == IF CharAt(t, fraction + 1) \in {"+", "-"} THEN fraction + 2 ELSE fraction + 1
        exponent == After(t, sign, decimals)
    IN  CASE CharAt(t, fraction) # "E" -> Token("FLOATING_POINT", SubSeq(t, i, fraction - 1), fraction)
          [] CharAt(t, fraction) = "E" /\ exponent = sign -> Invalid(i)
          [] OTHER -> Token("FLOATING_POINT", SubSeq(t, i, exponent - 1), exponent)

Number(t, i) ==
    LET end == After(t, i, {DigitChars[k] : k \in 1..10})
        letter == IF CharAt(t, i) = "0" THEN CharAt(t, i + 1) ELSE "EOS"
    IN  CASE letter = "B" -> BasedNumber(t, i + 2, 2, FALSE)
          [] letter = "X" -> BasedNumber(t, i + 2, 16, FALSE)
          [] letter = "O" -> BasedNumber(t, i + 2, 8, FALSE)
          [] letter \notin {"B", "X", "O"} /\ CharAt(t, end) = "." -> FloatingPoint(t, i, end)
          [] OTHER -> Token("INTEGER", ValueOf(t, i, end, 10), end)

Identifier(t, i) ==
    LET end == After(t, i, Letters \cup {DigitChars[k] : k \in 1..10})
    IN  IF CharAt(t, i) \in Letters THEN Token("IDENTIFIER", SubSeq(t, i, end - 1), end) ELSE Invalid(i)

-----------------------------------------------------------------------------
(* lexer::get_next_token()                                                 *)

\* the place after a blank, a comment or the lines at the start, i if there is none
SkipOnce(t, i) ==
    LET c == CharAt(t, i)
        d == CharAt(t, i + 1)
        comment == CommentEnd(t, i + 2)
    IN  CASE c \in Blank -> i + 1
          [] c = "#" /\ i = 1 -> HashLines(t, i)
          [] c = "-" /\ d = "-" -> LineEnd(t, i)
          [] c = "/" /\ d = "*" -> IF comment = 0 THEN i ELSE comment
          [] OTHER -> i
SkipBlanks(t, i) ==
    Loop(LAMBDA r : [at |-> SkipOnce(t, r.at), more |-> SkipOnce(t, r.at) # r.at],
         [at |-> i, more |-> TRUE], Len(t) + 1).at

Punctuation == Singles \cup {"!", ":", "<", ">", "|", "#", "/", "-"}
PunctuationAt(t, i) ==
    LET c == CharAt(t, i)
    IN  CASE c \in {"!", ":", "<", ">", "|"} -> Compound(t, i)
          [] c = "/" /\ CharAt(t, i + 1) = "*" -> Invalid(i)       \* a comment which does not end
          [] OTHER -> Token(c, 0, i + 1)
WordAt(t, i) ==
    LET c == CharAt(t, i)
        d == CharAt(t, i + 1)
    IN  CASE c = "'" -> String(t, i + 1, FALSE)
          [] InBase(c, 10) -> Number(t, i)
          [] c \in {"B", "O", "X"} /\ d = "'" ->
                BasedNumber(t, i + 2, CASE c = "B" -> 2 [] c = "O" -> 8 [] c = "X" -> 16, TRUE)
          [] c = "E" /\ d = "'" -> String(t, i + 2, TRUE)
          [] OTHER -> Identifier(t, i)
\* the token which starts at i
TokenAt(t, i) ==
    LET c == CharAt(t, i)
    IN  CASE c = "EOS" -> Token("EOF", 0, i)
          [] c \in Punctuation -> PunctuationAt(t, i)
          [] OTHER -> WordAt(t, i)

GetNextToken(t, i) == TokenAt(t, SkipBlanks(t, i))

LexerInit ==
    /\ text \in {Normalized(t) : t \in Texts}
    /\ at = 1 /\ tokens = <<>> /\ lexed = ""

\* one call of get_next_token(): an exception ends the reading
NextToken ==
    /\ lexed = ""
    /\ LET next == GetNextToken(text, at)
       IN  /\ at' = next.at
           /\ tokens' = IF next.token[1] \in {"EOF", "error"} THEN tokens ELSE Append(tokens, next.token)
           /\ lexed' = IF next.token[1] \in {"EOF", "error"} THEN next.token[1] ELSE ""
    /\ UNCHANGED text

LexerNext == NextToken
LexerSpec == LexerInit /\ [][LexerNext]_lexing

-----------------------------------------------------------------------------
(* Properties.                                                             *)

\* The operators and how they are written.
OperatorTable == {<<c, <<c>>>> : c \in Singles \cup {":", "<", ">", "|", "/", "-"}} \cup
    {<<"!~", <<"!", "~">>>>, <<"::", <<":", ":">>>>, <<"<=", <<"<", "=">>>>, <<"<<", <<"<", "<">>>>,
     <<"<>", <<"<", ">">>>>, <<">=", <<">", "=">>>>, <<">>", <<">", ">">>>>, <<"|/", <<"|", "/">>>>,
     <<"||", <<"|", "|">>>>, <<"||/", <<"|", "|", "/">>>>}

\* The operators which are written at i of t, and the longest of them.
Here(t, i) == {p \in OperatorTable : \A k \in 1..Len(p[2]) : CharAt(t, i + k - 1) = p[2][k]}
Longest(t, i) == CHOOSE p \in Here(t, i) : \A q \in Here(t, i) : Len(q[2]) <= Len(p[2])

\* The tokens from each place on when the longest operator is cut off each time.
LongestTokens(t) ==
    LET tokensFrom[i \in 1..(Len(t) + 1)] ==
            CASE i > Len(t) -> <<>>
              [] i <= Len(t) /\ t[i] \in Blank -> tokensFrom[i + 1]
              [] OTHER -> <<<<Longest(t, i)[1], 0>>>> \o tokensFrom[i + Len(Longest(t, i)[2])]
    IN  tokensFrom

HasComment(t) == \E k \in 1..(Len(t) - 1) : (t[k] = t[k + 1] /\ t[k] = "-") \/ (t[k] = "/" /\ t[k + 1] = "*")
OperatorsOnly(t) == \A k \in DOMAIN t : t[k] \in Blank \/ Here(t, k) # {}

\* A text of operators is read to its end and cut at the longest operator
\* each time, and no character is lost: each one which is read to find the
\* end of an operator is given back with ungetc().
OperatorsAreLongest ==
    lexed # "" /\ OperatorsOnly(text) /\ ~HasComment(text)
    => lexed = "EOF" /\ tokens = LongestTokens(text)[1]

\* Where the comment which starts at 1 ends when comments nest, 0 if it does not.
NestedEnd(t) ==
    LET level[i \in 1..(Len(t) + 2)] ==     \* <<depth, characters to skip>> after i characters
            IF i = 1 THEN <<0, 0>>
            ELSE LET before == level[i - 1]
                     pair == <<CharAt(t, i - 1), CharAt(t, i)>>
                 IN  CASE before[2] > 0 -> <<before[1], 0>>
                       [] before[2] = 0 /\ pair = <<"/", "*">> -> <<before[1] + 1, 1>>
                       [] before[2] = 0 /\ pair = <<"*", "/">> -> <<before[1] - 1, 1>>
                       [] OTHER -> <<before[1], 0>>
        ends == {i \in 2..(Len(t) + 1) : level[i][1] = 0 /\ level[i][2] = 1}
    IN  IF ends = {} THEN 0 ELSE (CHOOSE i \in ends : \A j \in ends : i <= j) + 1

\* Comments nest: one ends where its opening and the ones inside it are all
\* closed.  Violated: an empty comment inside of a comment is not closed.
CommentsNest ==
    lexed # "" /\ Len(text) > 1 /\ SubSeq(text, 1, 2) = <<"/", "*">>
    => CommentEnd(text, 3) = NestedEnd(text)
=============================================================================
