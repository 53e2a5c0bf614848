------------------------------- MODULE MCPbql -------------------------------
(***************************************************************************)
(* PBQL from its characters to the commands of the console: the lexer      *)
(* reads a text, or the parser reads an expression, or the console reads   *)
(* statements.  Each is checked over the inputs below; the three share no  *)
(* state and are not interleaved.                                          *)
(***************************************************************************)
EXTENDS Expression, Lexer, Console

-----------------------------------------------------------------------------
(* Texts for the lexer: every short text over two alphabets.               *)

TextsOver(S, n) == UNION {[1..k -> S] : k \in 0..n}
MCTexts ==
    TextsOver({"|", "/", "<", "=", " ", ":", "-", ">", "!", "~"}, 4)
    \cup TextsOver({"'", "\\", "X", "0", "E", ".", "#", "B"}, 4)
    \cup {<<"\r", "\n", "A", "\r", "1">>, <<"!", "~", "_">>}
    \cup {<<"E", "'", "\\", c>> \o d \o <<"'", "|", "|", "/">> :
              c \in {"u", "U"}, d \in {<<"0", "0", "4", "1">>, <<"0", "0", "0", "0", "0", "0", "4", "1">>}}
MCComments == {<<>>} \cup {<<"/", "*">> \o t : t \in TextsOver({"/", "*", " "}, 6)}

-----------------------------------------------------------------------------
(* Expressions for the parser: the phrases which AddOperand, AddInfix,     *)
(* AddPrefix and AddSuffix put together.  A real number counts halves.     *)

MCRealOf(i) == 2 * i
MCIntegerOf(r) == r \div 2
MCReal1(f, r) ==
    CASE f \in {"CEIL", "ROUND"} -> 2 * ((r + 1) \div 2)
      [] f \in {"FLOOR", "TRUNC"} -> 2 * (r \div 2)
      [] OTHER -> r + 1
MCReal2(op, a, b) ==
    CASE op = "PLUS" -> a + b
      [] op = "MINUS" -> a - b
      [] OTHER -> (a * b) % 64

Id(w) == <<"IDENTIFIER", w>>
Sign(k) == <<k, 0>>
Integral(n) == <<"INTEGER", n>>
MCOperands ==
    {<<Id("A")>>, <<Integral(2)>>, <<Id("TRUE")>>, <<Id("FALSE")>>, <<Id("NULL")>>,
     <<Id("MAX"), Sign("OPEN_PARENTHESIS"), <<"STRING", <<"1">>>>, Sign("COMMA"), Integral(0), Sign("CLOSE_PARENTHESIS")>>}
MCInfixes ==
    {Id("OR"), Id("AND"), Sign("EQUAL"), Sign("BITWISE_AND"), Sign("MINUS"),
     Sign("MULTIPLY"), Sign("POWER"), Sign("STRING_CONCAT")}
MCPrefixes == {Id("NOT"), Sign("MINUS")}
MCSuffixes ==
    {<<Id("IS"), Id("NULL")>>, <<Id("BETWEEN"), Integral(1), Id("AND"), Integral(3)>>,
     <<Id("LIKE"), <<"STRING", <<"T", "%">>>>>>,
     <<Sign("OPEN_BRACKET"), Integral(0), Sign("CLOSE_BRACKET"), Sign("PERIOD"), Sign("MULTIPLY"), Sign("SCOPE"), Id("INT")>>}

-----------------------------------------------------------------------------
(* Statements for the console: each command with its optional parts, some  *)
(* of them wrong.                                                          *)

Name(w) == <<"ID", w>>
Mark(p) == <<p, "">>
Quoted(s) == <<"STRING", s>>
AnExpression == <<"EXPRESSION", "x">>
Statement(parts) == Append(parts, Mark(";"))
MCSources == {Statement(s) : s \in {
    <<Name("BEGIN")>>, <<Name("BEGIN"), Name("WORK"), Name("ON"), Name("DATA")>>,
    <<Name("BEGIN"), Name("ON")>>,
    <<Name("COMMIT")>>, <<Name("COMMIT"), Name("SCHEMA")>>,
    <<Name("COMMIT"), Name("IF"), AnExpression, Name("OTHERWISE"), Name("ROLLBACK")>>,
    <<Name("ROLLBACK"), Name("DATA"), Name("IF"), AnExpression>>,
    <<Name("CONFIG")>>, <<Name("CONFIG"), Quoted("A")>>,
    <<Name("CONFIG"), Name("A"), Mark("::"), Name("B"), Mark("="), AnExpression>>,
    <<Name("SELECT"), AnExpression, Name("AS"), Name("A"), Mark(","), AnExpression>>,
    <<Name("SELECT"), Name("DEFAULT"), Name("VALUES"), Name("FROM"), Name("T"), Name("WHERE"), AnExpression>>,
    <<Name("CREATE"), Name("CONTEXT"), Name("IF"), Name("NOT"), Name("EXISTS"), Name("A"),
      Name("USING"), Quoted("A"), Name("WITH"), Mark("("), Name("OWNER"), Mark("="), Name("U"), Mark(":"), Name("G"),
      Mark(","), Name("COMMENT"), Quoted("B"), Mark(")")>>,
    <<Name("CREATE"), Name("TABLE"), Name("A")>>, <<Name("CREATE"), Name("CONTEXT"), Name("LONG")>>,
    <<Name("ALTER"), Name("INDEX"), Name("A"), Name("SET"), Name("NOT"), Name("SECURE")>>,
    <<Name("ALTER"), Name("INDEX"), Name("IF"), Name("EXISTS"), Name("A"), Name("DROP"), Integral(1)>>,
    <<Name("QUIT")>>, <<Name("BYE"), Name("BYE")>>, <<Name("CLEAR")>>, <<Name("LICENCE")>>, <<Name("VERSIONS")>>,
    <<Name("HELP"), Name("COMMAND"), Name("BEGIN"), Name("WORK")>>,
    <<Name("STATUS")>>, <<Name("STATUS"), Name("SHOW")>>, <<Name("STATUS"), Name("OFF")>>, <<Name("NOISE")>>}}
MCClauses == {Statement(<<Name("SELECT"), AnExpression, Name("FROM"), Name("T")>> \o s) : s \in {
    <<Name("LIMIT"), Integral(1)>>, <<Name("ORDER"), Name("BY"), Name("I")>>, <<Mark(","), Name("T")>>}}

-----------------------------------------------------------------------------

NoText == text = <<>> /\ lexed = ""

PbqlInit ==
    /\ LexerInit /\ ExpressionInit /\ ConsoleInit
    /\ text # <<>> => interactive

PbqlNext ==
    \/ ExpressionInit /\ ConsoleInit /\ interactive /\ LexerNext /\ UNCHANGED <<expression, session>>
    \/ NoText /\ ConsoleInit /\ interactive /\ ExpressionNext /\ UNCHANGED <<lexing, session>>
    \/ NoText /\ ExpressionInit /\ ConsoleNext /\ UNCHANGED <<lexing, expression>>

PbqlSpec == PbqlInit /\ [][PbqlNext]_<<lexing, expression, session>>
=============================================================================
