----------------------------- MODULE Expression -----------------------------
(***************************************************************************)
(* The expressions of PBQL: the recursive descent of expr_state in         *)
(* prinbee/pbql/parse_expression.cpp, which folds literals while it        *)
(* builds the tree, and the translation of the tree to a script in         *)
(* prinbee/pbql/node.cpp.                                                  *)
(*                                                                         *)
(* A token is <<kind, value>>.  An identifier has its upper case name as   *)
(* value, a string the sequence of its characters, a floating point        *)
(* number a multiple of the unit of Real1 and Real2 (the long double       *)
(* functions of the C library).  A node is <<token, value, children>>.     *)
(* An exception ends the parse: its node is Error.                         *)
(***************************************************************************)
EXTENDS Integers, Sequences, FiniteSets, SequencesExt, Bitwise

CONSTANTS
    RealOf(_),          \* the long double of an integer
    IntegerOf(_),       \* static_cast<std::int64_t>() of a long double
    Real1(_, _),        \* a function of the C library of one long double
    Real2(_, _, _),     \* an operator on two long doubles
    IntegerWordBits,    \* bits of a word of an int512_t: 64
    IntegerWords,       \* its words: 8
    Operands,           \* the operands of the inputs, sequences of tokens
    Infixes,            \* the tokens of their binary operators
    PrefixTokens,       \* and the ones before an operand
    SuffixPhrases,      \* what may follow an operand, sequences of tokens
    MaxOperands,        \* bound: operands of an input
    MaxExtras           \* bound: prefixes, suffixes and groups of an input

VARIABLES
    input,              \* the tokens of the lexer
    open,               \* groups which are not closed yet
    tree,               \* the result of parse_expr_logical_or()
    script              \* the result of to_as2js()

expression == <<input, open, tree, script>>

-----------------------------------------------------------------------------
(* Nodes (node.cpp).                                                       *)

Leaf(t, v) == <<t, v, <<>>>>
Error == Leaf("ERROR", 0)
Truth(b) == Leaf(IF b THEN "TRUE" ELSE "FALSE", 0)
\* an integer is an int512_t: the operations of BigInt
Int512 == INSTANCE BigInt WITH WordBits <- IntegerWordBits, Words <- IntegerWords,
                               signed <- TRUE, number <- <<>>, expected <- 0, wrong <- {}
ToInt512(v) == Int512!NumberOf(v % Int512!Modulus)
Integer(v) == Leaf("INTEGER", Int512!Wrapped(v))
Float(v) == Leaf("FLOATING_POINT", v)
Tree(t, v, children) == <<t, v, children>>

Digits == <<"0", "1", "2", "3", "4", "5", "6", "7", "8", "9">>
Alphabet == Digits \o <<"F", "T", "X", "%">>
Ord(c) == CHOOSE k \in DOMAIN Alphabet : Alphabet[k] = c

IsNumeral(s) == s # <<>> /\ \A k \in DOMAIN s : s[k] \in Range(Digits)
IsBooleanWord(s) ==
    s # <<>> /\ (IsPrefix(s, <<"T", "R", "U", "E">>)
                 \/ IsPrefix(s, <<"F", "A", "L", "S", "E">>))

\* node::is_literal(): "UNKNOWN" stands for any type
IsLiteral(n, type) ==
    CASE n[1] = "STRING" ->
            CASE type \in {"NUMBER", "FLOATING_POINT", "INTEGER"} -> IsNumeral(n[2])
              [] type = "BOOLEAN" -> IsBooleanWord(n[2])
              [] OTHER -> type \in {"UNKNOWN", "STRING"}
      [] n[1] \in {"INTEGER", "FLOATING_POINT"} ->
            type \in {"UNKNOWN", n[1], "NUMBER", "BOOLEAN"}
      [] n[1] = "NULL" -> type \in {"UNKNOWN", "NULL"}
      [] n[1] \in {"TRUE", "FALSE"} -> type \in {"UNKNOWN", "BOOLEAN"}
      [] OTHER -> FALSE
AllLiterals(list, type) == \A k \in DOMAIN list : IsLiteral(list[k], type)

\* get_string_auto_convert(): a negative number is not in the alphabet
StringAuto(n) ==
    CASE n[1] = "STRING" -> n[2]
      [] n[1] \in {"INTEGER", "FLOATING_POINT"} -> <<Digits[(n[2] % 10) + 1]>>
      [] n[1] = "NULL" -> <<"X">>
      [] n[1] = "TRUE" -> <<"T">>
      [] n[1] = "FALSE" -> <<"F">>

BooleanAuto(n) ==
    CASE n[1] = "STRING" -> Head(n[2]) = "T"
      [] n[1] \in {"INTEGER", "FLOATING_POINT"} -> n[2] # 0
      [] OTHER -> n[1] = "TRUE"

IntegerAuto(n) ==
    CASE n[1] = "STRING" -> FoldLeft(LAMBDA sum, c : 10 * sum + Ord(c) - 1, 0, n[2])
      [] n[1] = "INTEGER" -> n[2]
      [] n[1] = "FLOATING_POINT" -> IntegerOf(n[2])

FloatAuto(n) == IF n[1] = "FLOATING_POINT" THEN n[2] ELSE RealOf(IntegerAuto(n))

-----------------------------------------------------------------------------
(* What the operators do with literals.                                    *)

FoldOr(op, l, r) ==
    LET lliteral == IsLiteral(l, "BOOLEAN")
        rliteral == IsLiteral(r, "BOOLEAN")
        value == (lliteral /\ BooleanAuto(l)) \/ (rliteral /\ BooleanAuto(r))
    IN  CASE value \/ (lliteral /\ rliteral) -> Truth(value)
          [] ~value /\ lliteral /\ ~rliteral -> r
          [] ~value /\ ~lliteral /\ ~rliteral -> Tree("LOGICAL_OR", 0, <<l, r>>)
          [] OTHER -> l

\* Mutant: a literal on the left is the result, whatever its value.
FoldAnd_KeepsLiteral(op, l, r) ==
    IF IsLiteral(l, "BOOLEAN") THEN Truth(BooleanAuto(l)) ELSE Tree("LOGICAL_AND", 0, <<l, r>>)

FoldAnd(op, l, r) ==
    LET lliteral == IsLiteral(l, "BOOLEAN")
        rliteral == IsLiteral(r, "BOOLEAN")
        value == (lliteral => BooleanAuto(l)) /\ (rliteral => BooleanAuto(r))
    IN  CASE ~value \/ (lliteral /\ rliteral) -> Truth(value)
          [] value /\ lliteral /\ ~rliteral -> r
          [] value /\ ~lliteral /\ ~rliteral -> Tree("LOGICAL_AND", 0, <<l, r>>)
          [] OTHER -> l

\* std::string's operator < on strings of the alphabet
StringLess(s, t) ==
    \/ s # t /\ IsPrefix(s, t)
    \/ \E k \in DOMAIN s \cap DOMAIN t :
          SubSeq(s, 1, k - 1) = SubSeq(t, 1, k - 1) /\ Ord(s[k]) < Ord(t[k])

ByOrder(op, less, equal) ==
    CASE op = "LESS" -> less
      [] op = "LESS_EQUAL" -> less \/ equal
      [] op = "EQUAL" -> equal
      [] op = "GREATER" -> ~less /\ ~equal
      [] op = "GREATER_EQUAL" -> ~less
      [] op = "NOT_EQUAL" -> ~equal

CompareIntegers(op, l, r) ==
    ByOrder(op, IntegerAuto(l) < IntegerAuto(r), IntegerAuto(l) = IntegerAuto(r))
CompareFloats(op, l, r) ==
    ByOrder(op, FloatAuto(l) < FloatAuto(r), FloatAuto(l) = FloatAuto(r))
\* the tokens are compared, not the values which the literals convert to
CompareBooleans(op, l, r) ==
    ByOrder(op, l[1] # "TRUE" /\ r[1] = "TRUE", (l[1] = "TRUE") = (r[1] = "TRUE"))
CompareStrings(op, l, r) ==
    ByOrder(op, StringLess(StringAuto(l), StringAuto(r)), StringAuto(l) = StringAuto(r))

FoldComparison(op, l, r) ==
    LET both(type) == IsLiteral(l, type) /\ IsLiteral(r, type)
    IN  CASE ~both("UNKNOWN") -> Tree(op, 0, <<l, r>>)
          [] both("UNKNOWN") /\ l[1] = "NULL" -> l
          [] both("UNKNOWN") /\ l[1] # "NULL" /\ r[1] = "NULL" -> r
          [] OTHER -> Truth(IF both("INTEGER") THEN CompareIntegers(op, l, r)
                            ELSE IF both("NUMBER") THEN CompareFloats(op, l, r)
                            ELSE IF both("BOOLEAN") THEN CompareBooleans(op, l, r)
                            ELSE CompareStrings(op, l, r))

Negated(n) == Tree("LOGICAL_NOT", 0, <<n>>)

\* the bounds are converted to the type of the value on the left
FoldBetween(negate, v, low, high) ==
    LET inside ==
            CASE v[1] = "STRING" -> /\ ~StringLess(v[2], StringAuto(low))
                                    /\ ~StringLess(StringAuto(high), v[2])
              [] v[1] = "INTEGER" -> IntegerAuto(low) <= v[2] /\ v[2] <= IntegerAuto(high)
              [] v[1] = "FLOATING_POINT" -> FloatAuto(low) <= v[2] /\ v[2] <= FloatAuto(high)
              [] v[1] = "TRUE" -> high[1] = "TRUE"
              [] v[1] = "FALSE" -> low[1] # "TRUE"
        between == Tree("BETWEEN", 0, <<v, low, high>>)
    IN  CASE ~AllLiterals(<<v, low, high>>, "UNKNOWN") -> IF negate THEN Negated(between) ELSE between
          [] v[1] = "NULL" -> v
          [] OTHER -> Truth(inside # negate)

\* convert_like_pattern() and std::regex_match(): only '%' is special
LikeMatches(s, pattern) ==
    LET matches[i \in 0..Len(s), k \in 0..Len(pattern)] ==
            IF k = 0 THEN i = 0
            ELSE IF pattern[k] = "%" THEN matches[i, k - 1] \/ (i > 0 /\ matches[i - 1, k])
            ELSE i > 0 /\ s[i] = pattern[k] /\ matches[i - 1, k - 1]
    IN  matches[Len(s), Len(pattern)]

FoldLike(op, negate, l, r) ==
    IF AllLiterals(<<l, r>>, "UNKNOWN")
    THEN Truth(LikeMatches(StringAuto(l), StringAuto(r)) # negate)
    ELSE IF negate THEN Negated(Tree(op, 0, <<l, r>>)) ELSE Tree(op, 0, <<l, r>>)

\* the regular expressions of the model are characters which match themselves
FoldRegularExpression(op, l, r) ==
    LET negate == op = "UNMATCHED_REGULAR_EXPRESSION"
        match == Tree("REGULAR_EXPRESSION", 0, <<l, r>>)
    IN  IF AllLiterals(<<l, r>>, "UNKNOWN")
        THEN Truth((StringAuto(l) = StringAuto(r)) # negate)
        ELSE IF negate THEN Negated(match) ELSE match

\* the count of a shift is an int: lsl() and asr() throw when it is negative
BitOperation(op, a, b) ==
    LET bitwise(Op(_, _)) == Int512!Wrapped(Op(a % Int512!Modulus, b % Int512!Modulus))
    IN  CASE op = "BITWISE_AND" -> bitwise(LAMBDA x, y : x & y)
          [] op = "BITWISE_OR" -> bitwise(LAMBDA x, y : x | y)
          [] op = "BITWISE_XOR" -> bitwise(LAMBDA x, y : x ^^ y)
          [] op = "SHIFT_LEFT" -> Int512!SignedValue(Int512!Lsl(ToInt512(a), b))
          [] op = "SHIFT_RIGHT" -> Int512!SignedValue(Int512!Asr(ToInt512(a), b))

FoldBits(op, l, r) ==
    IF ~AllLiterals(<<l, r>>, "NUMBER") THEN Tree(op, 0, <<l, r>>)
    ELSE IF op \in {"SHIFT_LEFT", "SHIFT_RIGHT"} /\ IntegerAuto(r) < 0 THEN Error
    ELSE Integer(BitOperation(op, IntegerAuto(l), IntegerAuto(r)))

FoldAdditive(op, l, r) ==
    LET a == IntegerAuto(l)  b == IntegerAuto(r)
        notNumber(n) == IsLiteral(n, "UNKNOWN") /\ ~IsLiteral(n, "NUMBER")
    IN  CASE AllLiterals(<<l, r>>, "INTEGER") -> Integer(IF op = "PLUS" THEN a + b ELSE a - b)
          [] AllLiterals(<<l, r>>, "NUMBER") /\ ~AllLiterals(<<l, r>>, "INTEGER") ->
                Float(Real2(op, FloatAuto(l), FloatAuto(r)))
          [] notNumber(l) \/ notNumber(r) -> Error
          [] OTHER -> Tree(op, 0, <<l, r>>)

\* int512_t::div(): it throws for a zero divisor and for the smallest number
Divides(a, b) == b # 0 /\ Int512!DivSupported(ToInt512(a), ToInt512(b))
Quotient(a, b) == Int512!SignedValue(Int512!DivSigned(ToInt512(a), ToInt512(b)).quotient)
Remainder(a, b) == Int512!SignedValue(Int512!DivSigned(ToInt512(a), ToInt512(b)).remainder)

FoldMultiplicative(op, l, r) ==
    LET a == IntegerAuto(l)  b == IntegerAuto(r)
    IN  CASE AllLiterals(<<l, r>>, "INTEGER") ->
                IF op = "MULTIPLY" THEN Integer(a * b)
                ELSE IF ~Divides(a, b) THEN Error
                ELSE Integer(IF op = "DIVIDE" THEN Quotient(a, b) ELSE Remainder(a, b))
          [] AllLiterals(<<l, r>>, "NUMBER") /\ ~AllLiterals(<<l, r>>, "INTEGER") ->
                Float(Real2(op, FloatAuto(l), FloatAuto(r)))
          [] OTHER -> Tree(op, 0, <<l, r>>)

\* snapdev::pow() on the low words, which are unsigned, modulo 2^64; the
\* result is an std::int64_t
Power(a, b) ==
    LET pow[n \in 0..(Int512!W - 1)] == IF n = 0 THEN 1 ELSE (pow[n - 1] * (a % Int512!W)) % Int512!W
    IN  Int512!SignedWord(pow[b % Int512!W])

FoldPower(op, l, r) ==
    CASE AllLiterals(<<l, r>>, "INTEGER") -> Integer(Power(IntegerAuto(l), IntegerAuto(r)))
      [] AllLiterals(<<l, r>>, "NUMBER") /\ ~AllLiterals(<<l, r>>, "INTEGER") ->
            Float(Real2(op, FloatAuto(l), FloatAuto(r)))
      [] OTHER -> Tree("POWER", 0, <<l, r>>)

\* one or more signs before a postfix expression
FoldSigns(negate, n) ==
    CASE IsLiteral(n, "INTEGER") -> Integer(IF negate THEN -IntegerAuto(n) ELSE IntegerAuto(n))
      [] n[1] = "FLOATING_POINT" -> Float(IF negate THEN -n[2] ELSE n[2])
      [] n[1] = "STRING" /\ ~IsNumeral(n[2]) -> Error
      [] OTHER -> IF negate THEN Tree("MINUS", 0, <<n>>) ELSE Tree("CAST", "FLOAT8", <<n>>)

\* one or more NOT before an IS expression: two are kept as two
FoldNots(nots, n) ==
    CASE n[1] = "NULL" \/ nots = 0 -> n
      [] n[1] # "NULL" /\ nots > 0 /\ IsLiteral(n, "BOOLEAN") -> Truth(BooleanAuto(n) # (nots % 2 = 1))
      [] OTHER -> IF nots % 2 = 1 THEN Negated(n) ELSE Negated(Negated(n))

FoldIs(word, negate, n) ==
    CASE IsLiteral(n, "UNKNOWN") -> Truth((n[1] = word) # negate)
      [] ~IsLiteral(n, "UNKNOWN") /\ word = "TRUE" -> IF negate THEN Negated(n) ELSE n
      [] ~IsLiteral(n, "UNKNOWN") /\ word = "FALSE" -> IF negate THEN n ELSE Negated(n)
      [] ~IsLiteral(n, "UNKNOWN") /\ word = "NULL" ->
            Tree(IF negate THEN "NOT_EQUAL" ELSE "EQUAL", 0, <<n, Leaf("NULL", 0)>>)

\* the '||' operators in a row: two literals side by side become one string
FoldConcat(params, n) ==
    IF AllLiterals(<<Last(params), n>>, "UNKNOWN")
    THEN Front(params) \o <<Leaf("STRING", StringAuto(Last(params)) \o StringAuto(n))>>
    ELSE Append(params, n)

-----------------------------------------------------------------------------
(* Functions.                                                              *)

\* the keywords and their number of parameters; ATAN takes one or two
RealFunctions == {"ACOS", "ACOSH", "ASIN", "ASINH", "ATAN", "ATANH", "CBRT", "COS", "COSH", "EXP",
                  "EXPM1", "LOG", "LOG1P", "LOG10", "LOG2", "SIN", "SINH", "SQRT", "TAN", "TANH"}
RoundingFunctions == {"CEIL", "FLOOR", "ROUND", "TRUNC"}
Arity(keyword) ==
    CASE keyword \in (RealFunctions \ {"ATAN"}) \cup RoundingFunctions
                     \cup {"ABS", "LENGTH", "SIGN"} -> {1}
      [] keyword = "ATAN" -> {1, 2}
      [] keyword \in {"IMUL", "POW"} -> {2}
      [] keyword = "RAND" -> {0}
      [] keyword \in {"HYPOT", "MAX", "MIN"} -> 0..9
      [] OTHER -> {}

Call(name, params) == Tree("FUNCTION_CALL", name, params)

CallAbs(p) ==
    CASE IsLiteral(p, "INTEGER") -> Integer(IF IntegerAuto(p) < 0 THEN -IntegerAuto(p) ELSE IntegerAuto(p))
      [] p[1] = "FLOATING_POINT" -> Float(IF p[2] < 0 THEN -p[2] ELSE p[2])
      [] OTHER -> Call("ABS", IF p[1] = "MINUS" /\ Len(p[3]) = 1 THEN p[3] ELSE <<p>>)

CallReal1(f, p) == IF IsLiteral(p, "NUMBER") THEN Float(Real1(f, FloatAuto(p))) ELSE Call(f, <<p>>)

\* ROUND() of a floating point number is an integer, the others keep it
CallRounding(f, p) ==
    CASE IsLiteral(p, "INTEGER") -> Integer(IntegerAuto(p))
      [] p[1] = "FLOATING_POINT" ->
            IF f = "ROUND" THEN Integer(IntegerOf(Real1(f, p[2]))) ELSE Float(Real1(f, p[2]))
      [] OTHER -> Call(f, <<p>>)

SignOf(a) == CASE a < 0 -> -1 [] a = 0 -> 0 [] a > 0 -> 1
\* the floor of a floating point number is taken before its sign
CallSign(p) ==
    CASE IsLiteral(p, "INTEGER") -> Integer(SignOf(IntegerAuto(p)))
      [] p[1] = "FLOATING_POINT" -> Integer(SignOf(Real1("FLOOR", p[2])))
      [] OTHER -> Call("SIGN", <<p>>)

CallHypot(params) ==
    CASE params = <<>> -> Float(0)
      [] params # <<>> /\ AllLiterals(params, "NUMBER") ->
            LET square(v) == Real2("MULTIPLY", v, v)
            IN  Float(Real1("SQRT", FoldLeft(LAMBDA sum, n : Real2("PLUS", sum, square(FloatAuto(n))),
                                             0, params)))
      [] OTHER -> Call(IF Len(params) = 1 THEN "ABS" ELSE "HYPOT", params)

CallImul(l, r) ==
    IF AllLiterals(<<l, r>>, "NUMBER") THEN Integer(IntegerAuto(l) * IntegerAuto(r))
    ELSE Call("IMUL", <<l, r>>)

CallLength(p) ==
    IF IsLiteral(p, "UNKNOWN") THEN Integer(Len(StringAuto(p)))
    ELSE Tree("PERIOD", 0, <<p, Leaf("IDENTIFIER", "LENGTH")>>)

Extreme(f, a, b) == IF (f = "MAX") = (b > a) THEN b ELSE a
\* MAX() and MIN() without parameters are infinite
CallExtreme(f, params) ==
    LET best(v(_)) == FoldLeft(LAMBDA m, n : Extreme(f, m, v(n)), v(Head(params)), Tail(params))
    IN  CASE params = <<>> -> Leaf("FLOATING_POINT", IF f = "MAX" THEN -1000 ELSE 1000)
          [] params # <<>> /\ AllLiterals(params, "INTEGER") -> Integer(best(IntegerAuto))
          [] params # <<>> /\ ~AllLiterals(params, "INTEGER") /\ AllLiterals(params, "NUMBER") ->
                Float(best(FloatAuto))
          [] OTHER -> Call(f, params)

FunctionCall(f, params) ==
    CASE f = "ABS" -> CallAbs(params[1])
      [] f \in RealFunctions /\ Len(params) = 1 -> CallReal1(f, params[1])
      [] f = "ATAN" /\ Len(params) = 2 ->
            IF AllLiterals(params, "NUMBER") THEN Float(Real2("ATAN2", FloatAuto(params[1]), FloatAuto(params[2])))
            ELSE Call("ATAN2", params)
      [] f \in RoundingFunctions -> CallRounding(f, params[1])
      [] f = "SIGN" -> CallSign(params[1])
      [] f = "HYPOT" -> CallHypot(params)
      [] f = "IMUL" -> CallImul(params[1], params[2])
      [] f = "LENGTH" -> CallLength(params[1])
      [] f \in {"MAX", "MIN"} -> CallExtreme(f, params)
      [] f = "POW" -> FoldPower("POWER", params[1], params[2])
      [] OTHER -> Call(f, params)                       \* RAND, CONCAT

-----------------------------------------------------------------------------
(* The recursive descent: s.at is f_node, s.n the result of the functions. *)

Peek(s) == s.tokens[s.at]
IsKeyword(s, word) == Peek(s) = <<"IDENTIFIER", word>>
Skip(s) == [s EXCEPT !.at = @ + 1]
Yields(s, n) == [s EXCEPT !.n = n]
Failed(s) == s.n[1] = "ERROR"
\* the token which is expected next, or an exception
Expect(s, kind) == IF Failed(s) THEN s ELSE IF Peek(s)[1] = kind THEN Skip(s) ELSE Yields(s, Error)

Types == [BIGINT |-> "INT8", BOOLEAN |-> "BOOLEAN", CHAR |-> "TEXT", INT1 |-> "INT4", INT2 |-> "INT2",
          INT |-> "INT4", INT4 |-> "INT4", INTEGER |-> "INT4", INT8 |-> "INT8", INT16 |-> "INT16",
          INT32 |-> "INT32", INT64 |-> "INT64", FLOAT4 |-> "FLOAT4", FLOAT8 |-> "FLOAT8",
          FLOAT10 |-> "FLOAT10", REAL |-> "FLOAT4", SMALLINT |-> "INT2", TEXT |-> "TEXT"]
UnsignedTypes == [INT1 |-> "UINT1", SMALLINT |-> "UINT2", INT2 |-> "UINT2", INT |-> "UINT8",
                  INTEGER |-> "UINT8", INT4 |-> "UINT8", BIGINT |-> "UINT8", INT8 |-> "UINT8",
                  INT16 |-> "UINT16", INT32 |-> "UINT32", INT64 |-> "UINT64"]

PrimaryIdentifier(s, word) ==
    CASE word \in DOMAIN Types -> Yields(Skip(s), Leaf("TYPE", Types[word]))
      [] word \in {"TRUE", "FALSE", "NULL"} -> Yields(Skip(s), Leaf(word, 0))
      [] word = "DOUBLE" ->
            IF IsKeyword(Skip(s), "PRECISION") THEN Yields(Skip(Skip(s)), Leaf("TYPE", "FLOAT8"))
            ELSE Yields(s, Error)
      [] word = "UNSIGNED" ->
            LET next == Peek(Skip(s))
            IN  IF next[1] = "IDENTIFIER" /\ next[2] \in DOMAIN UnsignedTypes
                THEN Yields(Skip(Skip(s)), Leaf("TYPE", UnsignedTypes[next[2]]))
                ELSE Yields(s, Error)
      [] OTHER -> Yields(Skip(s), Leaf("IDENTIFIER", word))

\* strings in a row are concatenated
PrimaryString(s) ==
    LET others == {k \in s.at..Len(s.tokens) : s.tokens[k][1] # "STRING"}
        last == CHOOSE k \in others : \A j \in others : k <= j
    IN  [s EXCEPT !.at = last, !.n = Leaf("STRING", FlattenSeq([k \in 1..(last - s.at) |-> s.tokens[s.at + k - 1][2]]))]

\* The level of the operands of each level.
\* Mutant: the right side of + and - is an exponentiation.
NextLevel_Skips(level) ==
    CASE level = "or" -> "and"
      [] level = "and" -> "not"
      [] level = "comparison" -> "matching"
      [] level = "other" -> "additive"
      [] level \in {"additive", "multiplicative"} -> "exponentiation"
      [] level = "exponentiation" -> "unary"

NextLevel(level) ==
    CASE level = "or" -> "and"
      [] level = "and" -> "not"
      [] level = "comparison" -> "matching"
      [] level = "other" -> "additive"
      [] level = "additive" -> "multiplicative"
      [] level = "multiplicative" -> "exponentiation"
      [] level = "exponentiation" -> "unary"

RECURSIVE ParseLevel(_, _), ParsePostfix(_, _), ParseChain(_, _),
          ParseList(_, _), ParseIsTail(_), ParseConcat(_, _)
ParseLogicalOr(s) == ParseLevel("or", s)

ParsePrimary(s) ==
    CASE Peek(s)[1] = "STRING" -> PrimaryString(s)
      [] Peek(s)[1] = "IDENTIFIER" -> PrimaryIdentifier(s, Peek(s)[2])
      [] Peek(s)[1] \in {"INTEGER", "FLOATING_POINT"} -> Yields(Skip(s), Leaf(Peek(s)[1], Peek(s)[2]))
      [] Peek(s)[1] = "MULTIPLY" -> Yields(Skip(s), Leaf("ALL_FIELDS", 0))
      [] Peek(s)[1] = "OPEN_PARENTHESIS" -> Expect(ParseLogicalOr(Skip(s)), "CLOSE_PARENTHESIS")
      [] OTHER -> Yields(s, Error)

\* s.n is the list so far
ParseList(s, list) ==
    LET e == ParseLogicalOr(s)
    IN  CASE Failed(e) -> e
          [] ~Failed(e) /\ Peek(e)[1] = "COMMA" -> ParseList(Skip(e), Append(list, e.n))
          [] OTHER -> Yields(e, Tree("LIST", 0, Append(list, e.n)))

ParseFunctionParameters(s, keyword) ==
    LET list == IF Peek(Skip(s))[1] = "CLOSE_PARENTHESIS" THEN Yields(Skip(s), Leaf("LIST", 0))
                ELSE ParseList(Skip(s), <<>>)
        end == Expect(list, "CLOSE_PARENTHESIS")
    IN  CASE Failed(end) -> end
          [] ~Failed(end) /\ Len(end.n[3]) \in Arity(keyword) -> Yields(end, FunctionCall(keyword, end.n[3]))
          [] OTHER -> Yields(end, Error)

\* a type: a whole expression follows, with or without parentheses
ParseCastValue(s, type) ==
    LET parentheses == Peek(s)[1] = "OPEN_PARENTHESIS"
        value == ParseLogicalOr(IF parentheses THEN Skip(s) ELSE s)
        end == IF parentheses THEN Expect(value, "CLOSE_PARENTHESIS") ELSE value
    IN  IF Failed(end) THEN end ELSE Yields(end, Tree("CAST", type, <<end.n>>))

PostfixPeriod(s, allFields) ==
    LET field == Skip(s)
    IN  CASE allFields -> Yields(s, Error)
          [] ~allFields /\ Peek(field)[1] = "MULTIPLY" ->
                ParsePostfix(Yields(Skip(field), Tree("PERIOD", 0, <<s.n, Leaf("ALL_FIELDS", 0)>>)), TRUE)
          [] ~allFields /\ Peek(field)[1] = "IDENTIFIER" ->
                ParsePostfix(Yields(Skip(field), Tree("PERIOD", 0, <<s.n, Leaf("IDENTIFIER", Peek(field)[2])>>)), FALSE)
          [] OTHER -> Yields(s, Error)

PostfixScope(s, allFields) ==
    LET type == IF Peek(Skip(s))[1] = "IDENTIFIER" THEN ParsePrimary(Skip(s)) ELSE Yields(s, Error)
    IN  IF type.n[1] = "TYPE"
        THEN ParsePostfix(Yields(type, Tree("CAST", type.n[2], <<s.n>>)), allFields)
        ELSE Yields(s, Error)

ParsePostfix(s, allFields) ==
    CASE Failed(s) -> s
      [] s.n[1] = "TYPE" -> ParsePostfix(ParseCastValue(s, s.n[2]), allFields)
      [] s.n[1] \notin {"ERROR", "TYPE"} ->
            CASE Peek(s)[1] = "PERIOD" -> PostfixPeriod(s, allFields)
              [] Peek(s)[1] = "SCOPE" -> PostfixScope(s, allFields)
              [] Peek(s)[1] = "OPEN_BRACKET" ->
                    LET index == ParseLogicalOr(Skip(s))
                        end == Expect(index, "CLOSE_BRACKET")
                    IN  IF Failed(end) THEN end
                        ELSE ParsePostfix(Yields(end, Tree("AT", 0, <<s.n, index.n>>)), allFields)
              [] Peek(s)[1] = "OPEN_PARENTHESIS" ->
                    IF s.n[1] # "IDENTIFIER" \/ Arity(s.n[2]) = {} THEN Yields(s, Error)
                    ELSE ParsePostfix(ParseFunctionParameters(s, s.n[2]), allFields)
              [] OTHER -> s

\* the number of tokens in a row, from f_node on, which are in words
RunOf(s, words) ==
    LET others == {k \in s.at..Len(s.tokens) : s.tokens[k] \notin words}
    IN  (CHOOSE k \in others : \A j \in others : k <= j) - s.at
Signs == {<<"PLUS", 0>>, <<"MINUS", 0>>}

ParseUnary(s) ==
    LET signs == RunOf(s, Signs)
        minus == {k \in 1..signs : s.tokens[s.at + k - 1] = <<"MINUS", 0>>}
        e == ParsePostfix(ParsePrimary([s EXCEPT !.at = @ + signs]), FALSE)
    IN  IF signs = 0 \/ Failed(e) THEN e
        ELSE Yields(e, FoldSigns(Cardinality(minus) % 2 = 1, e.n))

-----------------------------------------------------------------------------
(* The levels whose operators associate to the left.                       *)

Operators(level) ==
    CASE level = "exponentiation" -> {"POWER"}
      [] level = "multiplicative" -> {"MULTIPLY", "DIVIDE", "MODULO"}
      [] level = "additive" -> {"PLUS", "MINUS"}
      [] level = "other" -> {"BITWISE_AND", "BITWISE_OR", "BITWISE_XOR", "SHIFT_LEFT", "SHIFT_RIGHT",
                             "REGULAR_EXPRESSION", "UNMATCHED_REGULAR_EXPRESSION"}
      [] level = "comparison" -> {"LESS", "LESS_EQUAL", "EQUAL", "GREATER", "GREATER_EQUAL", "NOT_EQUAL"}
      [] level = "and" -> {"AND"}
      [] level = "or" -> {"OR"}

OperatorOf(t) == IF t[1] = "IDENTIFIER" THEN t[2] ELSE t[1]

Fold(level, op, l, r) ==
    CASE level = "exponentiation" -> FoldPower(op, l, r)
      [] level = "multiplicative" -> FoldMultiplicative(op, l, r)
      [] level = "additive" -> FoldAdditive(op, l, r)
      [] level = "other" -> IF op \in {"REGULAR_EXPRESSION", "UNMATCHED_REGULAR_EXPRESSION"}
                            THEN FoldRegularExpression(op, l, r) ELSE FoldBits(op, l, r)
      [] level = "comparison" -> FoldComparison(op, l, r)
      [] level = "and" -> FoldAnd(op, l, r)
      [] level = "or" -> FoldOr(op, l, r)

\* '@', '|/' and '||/' only start an operand of the levels below
Roots == [ABSOLUTE_VALUE |-> "ABS", SQUARE_ROOT |-> "SQRT", CUBE_ROOT |-> "CBRT"]
ParseOther(s) ==
    IF Peek(s)[1] \in DOMAIN Roots
    THEN LET e == ParseLevel("other", Skip(s))
         IN  IF Failed(e) THEN e ELSE Yields(e, FunctionCall(Roots[Peek(s)[1]], <<e.n>>))
    ELSE ParseChain("other", ParseLevel("additive", s))

\* params: the operands of the '||' operators so far
ParseConcat(s, params) ==
    LET e == ParseLevel("additive", Skip(s))
        all == FoldConcat(params, e.n)
    IN  CASE Failed(e) -> e
          [] ~Failed(e) /\ Peek(e)[1] = "STRING_CONCAT" -> ParseConcat(e, all)
          [] OTHER -> Yields(e, IF Len(all) = 1 THEN all[1] ELSE FunctionCall("CONCAT", all))

ParseMatching(s) ==
    LET v == ParseLevel("other", s)
        negate == ~Failed(v) /\ IsKeyword(v, "NOT")
        w == IF negate THEN Skip(v) ELSE v
        word == IF Peek(w)[1] = "IDENTIFIER" THEN Peek(w)[2] ELSE "NONE"
        low == ParseLevel("other", Skip(w))
        and == IF ~Failed(low) /\ IsKeyword(low, "AND") THEN Skip(low) ELSE Yields(low, Error)
        high == ParseLevel("other", and)
    IN  CASE Failed(v) -> v
          [] ~Failed(v) /\ word = "BETWEEN" ->
                IF Failed(and) THEN and ELSE IF Failed(high) THEN high
                ELSE Yields(high, FoldBetween(negate, v.n, low.n, high.n))
          [] ~Failed(v) /\ word = "IN" -> Yields(w, Error)             \* not_yet_implemented
          [] ~Failed(v) /\ word \in {"LIKE", "ILIKE"} ->
                IF Failed(low) THEN low ELSE Yields(low, FoldLike(word, negate, v.n, low.n))
          [] OTHER -> IF negate THEN Yields(w, Error) ELSE v

ParseIsTail(s) ==
    LET negate == IsKeyword(Skip(s), "NOT")
        w == IF negate THEN Skip(Skip(s)) ELSE Skip(s)
    IN  CASE Failed(s) \/ ~IsKeyword(s, "IS") -> s
          [] ~Failed(s) /\ IsKeyword(s, "IS") /\ \E t \in {"TRUE", "FALSE", "NULL"} : IsKeyword(w, t) ->
                ParseIsTail(Yields(Skip(w), FoldIs(Peek(w)[2], negate, s.n)))
          [] OTHER -> Yields(w, Error)                  \* DISTINCT FROM: not_yet_implemented
ParseIs(s) == ParseIsTail(ParseLevel("comparison", s))

ParseLogicalNot(s) ==
    LET nots == RunOf(s, {<<"IDENTIFIER", "NOT">>})
        e == ParseLevel("is", [s EXCEPT !.at = @ + nots])
    IN  IF Failed(e) THEN e ELSE Yields(e, FoldNots(nots, e.n))

\* the loop of a level: s.n is lhs
ParseChain(level, s) ==
    LET r == ParseLevel(NextLevel(level), Skip(s))
    IN  CASE ~Failed(s) /\ level = "other" /\ Peek(s)[1] = "STRING_CONCAT" ->
                ParseChain(level, ParseConcat(s, <<s.n>>))
          [] ~Failed(s) /\ OperatorOf(Peek(s)) \in Operators(level) ->
                IF Failed(r) THEN r
                ELSE ParseChain(level, Yields(r, Fold(level, OperatorOf(Peek(s)), s.n, r.n)))
          [] OTHER -> s

\* the function of a level
ParseLevel(level, s) ==
    CASE level = "not" -> ParseLogicalNot(s)
      [] level = "is" -> ParseIs(s)
      [] level = "matching" -> ParseMatching(s)
      [] level = "other" -> ParseOther(s)
      [] level = "unary" -> ParseUnary(s)
      [] OTHER -> ParseChain(level, ParseLevel(NextLevel(level), s))

\* parser::parse_expression(): the tree, and the token after the expression
ParseExpression(tokens) ==
    ParseLogicalOr([tokens |-> Append(tokens, <<"EOF", 0>>), at |-> 1, n |-> Error])

-----------------------------------------------------------------------------
(* The script: to_as2js(), as the sequence of its words.                   *)

InfixWords == [BITWISE_XOR |-> "^", MODULO |-> "%", BITWISE_AND |-> "&", MULTIPLY |-> "*", PLUS |-> "+",
               MINUS |-> "-", PERIOD |-> ".", DIVIDE |-> "/", LESS |-> "<", EQUAL |-> "==",
               GREATER |-> ">", BITWISE_OR |-> "|", NOT_EQUAL |-> "!=", LESS_EQUAL |-> "<=",
               GREATER_EQUAL |-> ">=", SHIFT_LEFT |-> "<<", SHIFT_RIGHT |-> ">>",
               LOGICAL_OR |-> "||", LOGICAL_AND |-> "&&"]

\* the word of a cast by its type
CastWord(type) ==
    CASE type = "BOOLEAN" -> "!!"
      [] type \in {"FLOAT4", "FLOAT8", "FLOAT10"} -> "new Number"
      [] type = "TEXT" -> "new String"
      [] OTHER -> "new Integer"

Word(w) == <<<<"word", w>>>>
RECURSIVE ToAs2js(_)
ToAs2js(n) ==
    LET child(k) == ToAs2js(n[3][k])
        temp == <<<<"temp", n>>>>
    IN  CASE n[1] = "MINUS" /\ Len(n[3]) = 1 -> Word("-") \o child(1)
          [] n[1] \in DOMAIN InfixWords /\ Len(n[3]) = 2 -> child(1) \o Word(InfixWords[n[1]]) \o child(2)
          [] n[1] = "POWER" -> Word("(") \o child(1) \o Word("**") \o child(2) \o Word(")")
          [] n[1] = "LOGICAL_NOT" -> Word("!") \o child(1)
          [] n[1] = "AT" -> child(1) \o Word("[") \o child(2) \o Word("]")
          [] n[1] = "BETWEEN" -> Word("(") \o temp \o Word("=") \o child(1) \o Word(",") \o temp \o Word(">=")
                                 \o child(2) \o Word("&&") \o temp \o Word("<=") \o child(3) \o Word(")")
          [] n[1] = "CAST" -> Word(CastWord(n[2])) \o Word("(") \o child(1) \o Word(")")
          [] n[1] = "FUNCTION_CALL" ->
                Word(n[2]) \o Word("(") \o FlattenSeq([k \in DOMAIN n[3] |->
                    (IF k = 1 THEN <<>> ELSE Word(",")) \o child(k)]) \o Word(")")
          [] n[1] \in {"REGULAR_EXPRESSION", "LIKE", "ILIKE"} ->
                Word("new RegExp") \o Word("(") \o child(2) \o Word(").test(") \o child(1) \o Word(")")
          [] n[1] = "TYPE" -> <<Error>>
          [] OTHER -> <<n>>

-----------------------------------------------------------------------------
(* The inputs: expressions which the table of the operators allows.        *)

Ends(t) == t \notin Infixes \cup PrefixTokens \cup {<<"OPEN_PARENTHESIS", 0>>}
AfterOperand(k) == k > 1 /\ Ends(input[k - 1])
WantsOperand == ~AfterOperand(Len(input) + 1)
Count(S, infix) == Cardinality({k \in DOMAIN input : input[k] \in S /\ AfterOperand(k) = infix})
Extras == Count(PrefixTokens \cup {<<"OPEN_PARENTHESIS", 0>>}, FALSE) + Count({q[1] : q \in SuffixPhrases}, TRUE)
\* NOT starts an operand of AND and OR only
MayFollow(t) ==
    LET before == IF input = <<>> THEN <<"IDENTIFIER", "AND">> ELSE Last(input)
    IN  t = <<"IDENTIFIER", "NOT">> =>
            before \in {<<"OPEN_PARENTHESIS", 0>>, <<"IDENTIFIER", "AND">>, <<"IDENTIFIER", "OR">>}

ExpressionInit == input = <<>> /\ open = 0 /\ tree = Error /\ script = <<>>

AddOperand(operand) ==
    /\ tree = Error /\ WantsOperand
    /\ input' = input \o operand
    /\ UNCHANGED <<open, tree, script>>

AddPrefix(t) ==
    /\ tree = Error /\ WantsOperand /\ MayFollow(t) /\ Extras < MaxExtras
    /\ input' = Append(input, t)
    /\ UNCHANGED <<open, tree, script>>

OpenGroup ==
    /\ tree = Error /\ WantsOperand /\ Extras < MaxExtras
    /\ input' = Append(input, <<"OPEN_PARENTHESIS", 0>>) /\ open' = open + 1
    /\ UNCHANGED <<tree, script>>

CloseGroup ==
    /\ tree = Error /\ ~WantsOperand /\ open > 0
    /\ input' = Append(input, <<"CLOSE_PARENTHESIS", 0>>) /\ open' = open - 1
    /\ UNCHANGED <<tree, script>>

AddInfix(t) ==
    /\ tree = Error /\ ~WantsOperand /\ Count(Infixes, TRUE) + 1 < MaxOperands
    /\ input' = Append(input, t)
    /\ UNCHANGED <<open, tree, script>>

AddSuffix(suffix) ==
    /\ tree = Error /\ ~WantsOperand /\ Extras < MaxExtras
    /\ input' = input \o suffix
    /\ UNCHANGED <<open, tree, script>>

\* parser::parse_expression(): the tree and its script
ParseInput ==
    /\ tree = Error /\ ~WantsOperand /\ open = 0
    /\ tree' = ParseExpression(input).n
    /\ tree'[1] # "ERROR"
    /\ script' = ToAs2js(tree')
    /\ UNCHANGED <<input, open>>

ExpressionNext ==
    \/ \E operand \in Operands : AddOperand(operand)
    \/ \E t \in PrefixTokens : AddPrefix(t)
    \/ \E t \in Infixes : AddInfix(t)
    \/ \E suffix \in SuffixPhrases : AddSuffix(suffix)
    \/ OpenGroup
    \/ CloseGroup
    \/ ParseInput

ExpressionSpec == ExpressionInit /\ [][ExpressionNext]_expression

-----------------------------------------------------------------------------
(* Properties.                                                             *)

\* the depth of the groups around the token at k of ts
Depth(ts, k) ==
    Cardinality({j \in 1..k : ts[j] = <<"OPEN_PARENTHESIS", 0>>})
    - Cardinality({j \in 1..(k - 1) : ts[j] = <<"CLOSE_PARENTHESIS", 0>>})

\* The table at the top of parse_expression.cpp: an operator of a level with
\* a smaller number binds less.
TableLevel(t) ==
    CASE OperatorOf(t) = "OR" -> 1
      [] OperatorOf(t) = "AND" -> 2
      [] OperatorOf(t) = "NOT" -> 3
      [] t[1] \in Operators("comparison") -> 5
      [] t[1] \in Operators("other") -> 7
      [] t[1] \in Operators("additive") -> 8
      [] t[1] \in Operators("multiplicative") -> 9
      [] t[1] \in Operators("exponentiation") -> 10

NodeToken(t) == CASE OperatorOf(t) = "OR" -> "LOGICAL_OR" [] OperatorOf(t) = "AND" -> "LOGICAL_AND" [] OTHER -> t[1]

\* The tree of the table: the last operator of the lowest level outside of
\* any group is the root.
RECURSIVE ByTable(_)
ByTable(ts) ==
    LET binary == {k \in 2..Len(ts) : ts[k] \in Infixes /\ Ends(ts[k - 1]) /\ Depth(ts, k) = 0}
        roots == {k \in binary : \A j \in binary : TableLevel(ts[k]) < TableLevel(ts[j])
                                                  \/ (TableLevel(ts[k]) = TableLevel(ts[j]) /\ j <= k)}
        k == CHOOSE j \in roots : TRUE
    IN  CASE ts[1] = <<"IDENTIFIER", "NOT">> /\ \A j \in binary : TableLevel(ts[j]) > 3 -> Negated(ByTable(Tail(ts)))
          [] binary # {} /\ ~(ts[1] = <<"IDENTIFIER", "NOT">> /\ TableLevel(ts[k]) > 3) ->
                Tree(NodeToken(ts[k]), 0, <<ByTable(SubSeq(ts, 1, k - 1)), ByTable(SubSeq(ts, k + 1, Len(ts)))>>)
          [] binary = {} /\ ts[1][1] = "MINUS" -> Tree("MINUS", 0, <<ByTable(Tail(ts))>>)
          [] binary = {} /\ ts[1][1] = "OPEN_PARENTHESIS" -> ByTable(SubSeq(ts, 2, Len(ts) - 1))
          [] OTHER -> Leaf("IDENTIFIER", ts[1][2])

\* The input has columns, operators of the table and groups only, and no
\* prefix is repeated (two signs become a cast).
IsPlain(ts) ==
  /\ \A k \in DOMAIN ts \ {1} : ts[k] \in PrefixTokens => ts[k - 1] # ts[k]
  /\ \A k \in DOMAIN ts :
    \/ ts[k] \in (Infixes \ {<<"STRING_CONCAT", 0>>}) \cup {<<"IDENTIFIER", "NOT">>, <<"MINUS", 0>>}
    \/ ts[k][1] \in {"OPEN_PARENTHESIS", "CLOSE_PARENTHESIS"}
    \/ ts[k][1] = "IDENTIFIER" /\ <<ts[k]>> \in Operands /\ ts[k][2] \notin {"TRUE", "FALSE", "NULL"}

\* The recursive descent builds the tree which the table of precedences and
\* associativities documents: fifteen functions which call one another in
\* the order of the levels.
TreeMatchesTable == script # <<>> /\ IsPlain(input) => tree = ByTable(input)

\* The value of an expression, <<"none", 0>> when it has none: an operand of
\* another type, an integer which does not fit.  NULL is unknown: it is the
\* result of an operator unless the other operand decides.
Undefined == <<"none", 0>>
Null == <<"null", 0>>
Bool(b) == <<"bool", b>>
WholeNumber(v, bits) == IF v \in -(2 ^ (bits - 1))..(2 ^ (bits - 1) - 1) THEN <<"int", v>> ELSE Undefined
\* what FoldIs makes of IS NULL
IsNullTest(n) == n[1] \in {"EQUAL", "NOT_EQUAL"} /\ n[3][2][1] = "NULL"
RECURSIVE Value(_, _)
Value(n, column) ==
    LET v(k) == Value(n[3][k], column)
        values == {v(k) : k \in DOMAIN n[3]}
        all(types) == \A value \in values : value[1] \in types
        some(value) == value \in values
        a == v(1)[2]
        b == v(2)[2]
        bits == IntegerWordBits * IntegerWords
        integers == {"PLUS", "MINUS", "MULTIPLY", "POWER", "SHIFT_LEFT", "BITWISE_AND"}
    IN  CASE n[1] \in {"TRUE", "FALSE"} -> Bool(n[1] = "TRUE")
          [] n[1] = "NULL" -> Null
          [] n[1] = "INTEGER" -> <<"int", n[2]>>
          [] n[1] = "IDENTIFIER" -> column[n[2]]
          [] n[1] = "LOGICAL_OR" /\ all({"bool", "null"}) ->
                IF some(Bool(TRUE)) THEN Bool(TRUE) ELSE IF some(Null) THEN Null ELSE Bool(FALSE)
          [] n[1] = "LOGICAL_AND" /\ all({"bool", "null"}) ->
                IF some(Bool(FALSE)) THEN Bool(FALSE) ELSE IF some(Null) THEN Null ELSE Bool(TRUE)
          [] n[1] = "LOGICAL_NOT" /\ all({"bool"}) -> Bool(~a)
          [] IsNullTest(n) /\ v(1) # Undefined -> Bool((v(1) = Null) = (n[1] = "EQUAL"))
          [] ~IsNullTest(n) /\ n[1] \in Operators("comparison") \cup {"BETWEEN", "LOGICAL_NOT"}
                /\ some(Null) /\ ~some(Undefined) -> Null
          [] n[1] \in Operators("comparison") /\ all({"int"}) -> Bool(ByOrder(n[1], a < b, a = b))
          [] n[1] \in Operators("comparison") /\ all({"bool"}) -> Bool(ByOrder(n[1], ~a /\ b, a = b))
          [] n[1] = "BETWEEN" /\ all({"int"}) -> Bool(b <= a /\ a <= v(3)[2])
          [] n[1] \in integers /\ some(Null) /\ all({"int", "null"}) -> Null
          [] n[1] = "PLUS" /\ all({"int"}) -> WholeNumber(a + b, bits)
          [] n[1] = "MINUS" /\ all({"int"}) -> WholeNumber(IF Len(n[3]) = 1 THEN -a ELSE a - b, bits)
          [] n[1] = "MULTIPLY" /\ all({"int"}) -> WholeNumber(a * b, bits)
          [] n[1] = "POWER" /\ all({"int"}) /\ b \in 0..IntegerWordBits ->
                WholeNumber(IF b = 0 THEN 1 ELSE a ^ b, IntegerWordBits)
          [] n[1] = "SHIFT_LEFT" /\ all({"int"}) /\ b \in 0..bits -> WholeNumber(a * 2 ^ b, bits)
          [] n[1] = "BITWISE_AND" /\ all({"int"}) /\ a >= 0 /\ b >= 0 -> <<"int", a & b>>
          [] OTHER -> Undefined

RECURSIVE HasNullTest(_)
HasNullTest(n) == IsNullTest(n) \/ \E k \in DOMAIN n[3] : HasNullTest(n[3][k])

\* Columns, one for each literal of the input, and the values of all of its
\* columns: the ones which the input itself names have any value.
Columns == <<"C1", "C2", "C3", "C4", "C5", "C6", "C7", "C8", "C9">>
LiteralWords == {"TRUE", "FALSE", "NULL"}
Literals(ts) == {k \in DOMAIN ts : \/ ts[k][1] = "INTEGER"
                                   \/ ts[k][1] = "IDENTIFIER" /\ ts[k][2] \in LiteralWords /\ ~AfterOperand(k)}
ColumnAt(ts, k) == Columns[Cardinality({j \in Literals(ts) : j <= k})]
Generalize(ts) == [k \in DOMAIN ts |-> IF k \in Literals(ts) THEN <<"IDENTIFIER", ColumnAt(ts, k)>> ELSE ts[k]]
LiteralValue(t) == CASE t[1] = "INTEGER" -> <<"int", t[2]>> [] t[2] = "NULL" -> Null [] OTHER -> Bool(t[2] = "TRUE")
NamedColumns(ts) ==
    {ts[k][2] : k \in {j \in DOMAIN ts : ts[j][1] = "IDENTIFIER" /\ <<ts[j]>> \in Operands}} \ LiteralWords
ColumnValues(ts) ==
    LET literals == [c \in {ColumnAt(ts, k) : k \in Literals(ts)} |->
                        LiteralValue(ts[CHOOSE k \in Literals(ts) : ColumnAt(ts, k) = c])]
    IN  {literals @@ named : named \in [NamedColumns(ts) ->
            {Null, Bool(TRUE), Bool(FALSE), <<"int", -1>>, <<"int", 0>>, <<"int", 2>>}]}

\* The parser computes what it can while it builds the tree, with literals at
\* both sides of an operator or at one side of AND and OR.  This changes no
\* value, whatever the values of the columns of the input: the expression in
\* which columns take the place of the literals has, when these columns have
\* the values of the literals, the same value (where it has one).  A column
\* compared with the literal NULL is left out: its tree is the one of IS NULL.
FoldingKeepsValue ==
    LET general == ParseExpression(Generalize(input)).n
    IN  /\ script # <<>> /\ Literals(input) # {}
        /\ (HasNullTest(tree) => \A k \in Literals(input) : input[k] # <<"IDENTIFIER", "NULL">>)
        => \A column \in ColumnValues(input) : Value(general, column) \in {Undefined, Value(tree, column)}

\* How a script groups its operators, after the precedences of the language.
ScriptLevel(w) ==
    CASE w = "||" -> 1 [] w = "&&" -> 2 [] w = "|" -> 3 [] w = "^" -> 4 [] w = "&" -> 5
      [] w \in {"==", "!="} -> 6 [] w \in {"<", "<=", ">", ">="} -> 7 [] w \in {"<<", ">>"} -> 8
      [] w \in {"+", "-"} -> 9 [] w \in {"*", "/", "%"} -> 10 [] w = "**" -> 12
ScriptInfixes == {<<"word", w>> : w \in {InfixWords[t] : t \in DOMAIN InfixWords \ {"PERIOD"}} \cup {"**"}}
RECURSIVE ScriptTree(_)
ScriptTree(ws) ==
    LET depth(k) == Cardinality({j \in 1..k : ws[j] = <<"word", "(">>})
                    - Cardinality({j \in 1..(k - 1) : ws[j] = <<"word", ")">>})
        ends(k) == ws[k] \notin ScriptInfixes \cup {<<"word", "!">>, <<"word", "(">>}
        binary == {k \in 2..Len(ws) : ws[k] \in ScriptInfixes /\ ends(k - 1) /\ depth(k) = 0}
        roots == {k \in binary : \A j \in binary : ScriptLevel(ws[k][2]) < ScriptLevel(ws[j][2])
                                                  \/ (ScriptLevel(ws[k][2]) = ScriptLevel(ws[j][2]) /\ j <= k)}
        k == CHOOSE j \in roots : TRUE
    IN  CASE binary # {} -> <<ws[k][2], ScriptTree(SubSeq(ws, 1, k - 1)), ScriptTree(SubSeq(ws, k + 1, Len(ws)))>>
          [] binary = {} /\ ws[1] \in {<<"word", "!">>, <<"word", "-">>} -> <<ws[1][2], ScriptTree(Tail(ws))>>
          [] binary = {} /\ ws[1] = <<"word", "(">> -> ScriptTree(SubSeq(ws, 2, Len(ws) - 1))
          [] OTHER -> <<"leaf", ws[1][2]>>

RECURSIVE Grouping(_)
Grouping(n) ==
    CASE n[1] = "LOGICAL_NOT" -> <<"!", Grouping(n[3][1])>>
      [] n[1] = "MINUS" /\ Len(n[3]) = 1 -> <<"-", Grouping(n[3][1])>>
      [] n[1] = "POWER" -> <<"**", Grouping(n[3][1]), Grouping(n[3][2])>>
      [] n[1] \in DOMAIN InfixWords /\ Len(n[3]) = 2 -> <<InfixWords[n[1]], Grouping(n[3][1]), Grouping(n[3][2])>>
      [] OTHER -> <<"leaf", n[2]>>

\* The script computes the expression: the groups of the input are still
\* there.  Violated: to_as2js() writes no parentheses.
ScriptKeepsGrouping == script # <<>> /\ IsPlain(input) => ScriptTree(script) = Grouping(tree)
=============================================================================
