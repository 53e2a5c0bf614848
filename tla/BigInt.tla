-------------------------------- MODULE BigInt --------------------------------
(***************************************************************************)
(* The large integers (prinbee/bigint/uint512.cpp, int512.cpp and the      *)
(* assembly of add and sub): words, least significant first, the last one  *)
(* of a signed number being f_high_value.  One number is computed with,    *)
(* operation after operation, next to the integer it should be.            *)
(***************************************************************************)
EXTENDS Integers, Sequences, SequencesExt, Bitwise

CONSTANTS
    WordBits,           \* bits of a word: 64
    Words               \* words of a number: 8

VARIABLES
    signed,             \* an int512_t, else a uint512_t
    number,
    expected,           \* the integer the number should be
    wrong               \* operations which did not give the integer they should

bigint == <<signed, number, expected, wrong>>

W == 2 ^ WordBits
Bits == WordBits * Words
Modulus == 2 ^ Bits
Index == 1..Words

RECURSIVE ValueFrom(_, _)
ValueFrom(a, k) == IF k > Words THEN 0 ELSE a[k] + W * ValueFrom(a, k + 1)
UnsignedValue(a) == ValueFrom(a, 1)
IsNegative(a) == 2 * a[Words] >= W
SignedValue(a) == IF IsNegative(a) THEN UnsignedValue(a) - Modulus ELSE UnsignedValue(a)
NumberOf(v) == [k \in Index |-> (v \div W ^ (k - 1)) % W]
AllNumbers == [Index -> 0..(W - 1)]

Zero == [k \in Index |-> 0]
One == [Zero EXCEPT ![1] = 1]
IsZero(a) == \A k \in Index : a[k] = 0

-----------------------------------------------------------------------------
\* add(), sub() of the operators + and - of uint512_t, add512(), sub512() of the
\* others: word by word with the carry
RECURSIVE Carried(_, _, _, _)
Carried(a, b, k, carry) ==
    IF k > Words THEN <<>>
    ELSE <<(a[k] + b[k] + carry) % W>> \o Carried(a, b, k + 1, (a[k] + b[k] + carry) \div W)
Add(a, b) == Carried(a, b, 1, 0)
RECURSIVE Borrowed(_, _, _, _)
Borrowed(a, b, k, borrow) ==
    IF k > Words THEN <<>>
    ELSE <<(a[k] - b[k] - borrow) % W>> \o Borrowed(a, b, k + 1, IF a[k] < b[k] + borrow THEN 1 ELSE 0)
Sub(a, b) == Borrowed(a, b, 1, 0)
Negate(a) == Sub(Zero, a)

\* where two numbers differ, from the last word down
FromTop(a, b) == LET differ == {k \in Index : a[k] # b[k]}
                 IN  IF differ = {} THEN 0 ELSE CHOOSE k \in differ : \A j \in differ : j <= k
\* uint512_t::compare()
Compare(a, b) == LET k == FromTop(a, b) IN IF k = 0 THEN 0 ELSE IF a[k] > b[k] THEN 1 ELSE -1
\* int512_t::compare(): the high word is signed
SignedWord(w) == IF 2 * w >= W THEN w - W ELSE w
CompareSigned_AsUnsigned(a, b) == Compare(a, b)
CompareSigned(a, b) ==
    IF a[Words] # b[Words] THEN (IF SignedWord(a[Words]) > SignedWord(b[Words]) THEN 1 ELSE -1) ELSE Compare(a, b)

WordSize(w) == IF w = 0 THEN 0 ELSE CHOOSE n \in 1..WordBits : 2 ^ (n - 1) <= w /\ w < 2 ^ n
BitSize(a) == LET k == FromTop(a, Zero) IN IF k = 0 THEN 0 ELSE WordSize(a[k]) + WordBits * (k - 1)
BitSizeSigned(a) ==
    LET p == IF IsNegative(a) THEN Negate(a) ELSE a IN IF IsNegative(p) THEN Bits ELSE BitSize(p)

\* lsl() of the two classes: whole words, then the bits
Lsl(a, count) ==
    LET move == count \div WordBits
        shift == count % WordBits
        moved == [k \in Index |-> IF k > move THEN a[k - move] ELSE 0]
    IN  IF count >= Bits THEN Zero
        ELSE [k \in Index |-> ((moved[k] * 2 ^ shift) % W)
                              + (IF k > 1 THEN moved[k - 1] \div 2 ^ (WordBits - shift) ELSE 0)]

\* uint512_t::lsr()
Lsr_LosesCarry(a, count) ==
    LET move == count \div WordBits
    IN  IF count >= Bits THEN Zero
        ELSE [k \in Index |-> (IF k <= Words - move THEN a[k + move] ELSE 0) \div 2 ^ (count % WordBits)]
Lsr(a, count) ==
    LET move == count \div WordBits
        shift == count % WordBits
        pos == Words - move
        moved == [k \in Index |-> IF k <= pos THEN a[k + move] ELSE 0]
    IN  IF count >= Bits THEN Zero
        ELSE [k \in Index |-> (moved[k] \div 2 ^ shift)
                              + (IF k < pos THEN ((moved[k + 1] * 2 ^ (WordBits - shift)) % W) ELSE 0)]

(* int512_t::asr(): the words which are left, the high one included, are
   shifted as unsigned words; with exactly one word of move, the word below
   the high one is skipped.                                                *)
Asr(a, count) ==
    LET fill == IF IsNegative(a) THEN W - 1 ELSE 0
        move == count \div WordBits
        shift == count % WordBits
        pos == Words - move
        moved == [k \in Index |-> IF k <= pos THEN a[k + move] ELSE fill]
        skips == pos = Words - 1
    IN  IF count >= Bits THEN [k \in Index |-> fill]
        ELSE IF shift = 0 THEN moved
        ELSE [k \in Index |->
                IF k > pos \/ (skips /\ k = pos) THEN moved[k]
                ELSE LET above == IF skips /\ k = pos - 1 THEN moved[Words] ELSE IF k < pos THEN moved[k + 1] ELSE 0
                     IN  (moved[k] \div 2 ^ shift) + ((above * 2 ^ (WordBits - shift)) % W)]

-----------------------------------------------------------------------------
Half(a, isSigned) == IF isSigned THEN Asr(a, 1) ELSE Lsr(a, 1)

\* operator *=: one bit of the factor at a time
RECURSIVE Products(_, _, _, _)
Products(sum, lhs, factor, isSigned) ==
    LET next == Half(factor, isSigned)
        double == Lsl(lhs, 1)
    IN  IF IsZero(next) THEN sum
        ELSE Products(IF next[1] % 2 = 1 THEN Add(sum, double) ELSE sum, double, next, isSigned)
Mul(a, b) == Products(IF b[1] % 2 = 0 THEN Zero ELSE a, a, b, FALSE)
MulSigned(a, b) == Products(IF b[1] % 2 = 0 THEN Zero ELSE a, a, b, TRUE)

\* the loop of div(): one bit of the quotient at a time
RECURSIVE Quotients(_, _, _, _, _)
Quotients(quotient, remainder, divisor, gap, isSigned) ==
    LET fits == (IF isSigned THEN CompareSigned(remainder, divisor) ELSE Compare(remainder, divisor)) >= 0
        double == Lsl(quotient, 1)
    IN  IF gap = 0 THEN [quotient |-> quotient, remainder |-> remainder]
        ELSE Quotients(IF fits THEN Add(double, One) ELSE double,
                       IF fits THEN Sub(remainder, divisor) ELSE remainder,
                       Half(divisor, isSigned), gap - 1, isSigned)

\* uint512_t::div()
Div(a, b) ==
    LET c == Compare(a, b)
        gap == BitSize(a) - BitSize(b)
    IN  CASE c = -1 -> [quotient |-> Zero, remainder |-> a]
          [] c = 0 -> [quotient |-> One, remainder |-> Zero]
          [] OTHER -> Quotients(Zero, a, Lsl(b, gap), gap + 1, FALSE)

(* int512_t::div(): the sign of the divisor is dropped, and the loop starts
   from the number itself, not from its absolute value.                    *)
Abs(a) == IF IsNegative(a) THEN Negate(a) ELSE a
DivSupported(a, b) == ~IsNegative(Abs(a)) /\ ~IsNegative(Abs(b))
DivSigned(a, b) ==
    LET lhs == Abs(a)
        rhs == Abs(b)
        c == CompareSigned(lhs, rhs)
        gap == BitSizeSigned(lhs) - BitSizeSigned(rhs)
        divided == IF c = 0 THEN [quotient |-> One, remainder |-> Zero]
                   ELSE Quotients(Zero, a, Lsl(rhs, gap), gap + 1, TRUE)
    IN  IF c = -1 THEN [quotient |-> Zero, remainder |-> a]
        ELSE IF IsNegative(a) THEN [divided EXCEPT !.quotient = Negate(@)] ELSE divided

-----------------------------------------------------------------------------
(* to_string() and from_string(): the digits, most significant first, and
   the introducer.  Octal numbers are written 0<digits> and read 0o<digits>;
   after the octal digits from_string() goes on with the decimal loop, which
   the introducer makes throw.                                             *)
RECURSIVE DigitsOf(_, _)
DigitsOf(a, base) ==
    LET d == Div(a, NumberOf(base)) IN IF IsZero(a) THEN <<>> ELSE Append(DigitsOf(d.quotient, base), UnsignedValue(d.remainder))
RECURSIVE PowerOfTwoDigits(_, _)
PowerOfTwoDigits(a, shift) ==
    IF IsZero(a) THEN <<>> ELSE Append(PowerOfTwoDigits(Lsr(a, shift), shift), UnsignedValue(a) % 2 ^ shift)
Shifts == [b \in {2, 8, 16} |-> CASE b = 2 -> 1 [] b = 8 -> 3 [] OTHER -> 4]
StringOf(a, base) ==
    [base |-> base,
     digits |-> IF IsZero(a) THEN <<0>>
                ELSE IF base \in DOMAIN Shifts THEN PowerOfTwoDigits(a, Shifts[base]) ELSE DigitsOf(a, base)]
FromString(s) ==
    FoldLeft(LAMBDA a, d : Add(IF s.base = 10 THEN Mul(a, NumberOf(10)) ELSE Lsl(a, Shifts[s.base]), NumberOf(d)),
             Zero, s.digits)
StringOfSigned(a, base) ==
    [negative |-> IsNegative(a), string |-> StringOf(IF IsNegative(a) THEN Negate(a) ELSE a, base)]
FromStringSigned(s) == IF s.negative THEN Negate(FromString(s.string)) ELSE FromString(s.string)

-----------------------------------------------------------------------------
Value(a) == IF signed THEN SignedValue(a) ELSE UnsignedValue(a)
\* The integer modulo 2^512.
Wrapped(v) == LET u == v % Modulus IN IF signed /\ 2 * u >= Modulus THEN u - Modulus ELSE u

BigIntInit ==
    /\ signed \in BOOLEAN
    /\ number = Zero
    /\ expected = 0
    /\ wrong = {}

NumberBecomes(a, v) == number' = a /\ expected' = Wrapped(v) /\ UNCHANGED <<signed, wrong>>
\* An operation whose result is compared with what it should be at once.
Compared(name, a, v) ==
    /\ number' = a
    /\ expected' = Value(a)
    /\ wrong' = IF Value(a) = v THEN wrong ELSE wrong \union {name}
    /\ UNCHANGED signed

Sum == \E b \in AllNumbers : NumberBecomes(Add(number, b), expected + Value(b))
Difference == \E b \in AllNumbers : NumberBecomes(Sub(number, b), expected - Value(b))
Opposite == NumberBecomes(Negate(number), -expected)
Product == \E b \in AllNumbers : NumberBecomes(IF signed THEN MulSigned(number, b) ELSE Mul(number, b), expected * Value(b))
ShiftLeft == \E count \in 0..(Bits + 1) : NumberBecomes(Lsl(number, count), expected * 2 ^ count)
BitwiseNot == ~signed /\ NumberBecomes([k \in Index |-> W - 1 - number[k]], Modulus - 1 - expected)
BitwiseAnd == \E b \in AllNumbers : NumberBecomes([k \in Index |-> number[k] & b[k]], UnsignedValue(number) & UnsignedValue(b))
BitwiseOr == \E b \in AllNumbers : NumberBecomes([k \in Index |-> number[k] | b[k]], UnsignedValue(number) | UnsignedValue(b))
BitwiseXor == \E b \in AllNumbers : NumberBecomes([k \in Index |-> number[k] ^^ b[k]], UnsignedValue(number) ^^ UnsignedValue(b))
ShiftRight == ~signed /\ \E count \in 0..(Bits + 1) : NumberBecomes(Lsr(number, count), expected \div 2 ^ count)
Divide == ~signed /\ \E b \in AllNumbers \ {Zero} : NumberBecomes(Div(number, b).quotient, expected \div Value(b))
Modulo == ~signed /\ \E b \in AllNumbers \ {Zero} : NumberBecomes(Div(number, b).remainder, expected % Value(b))
Restring ==
    \E base \in {2, 10, 16} :
        NumberBecomes(IF signed THEN FromStringSigned(StringOfSigned(number, base)) ELSE FromString(StringOf(number, base)),
                expected)

\* The signed quotient is truncated towards 0, the remainder has the sign of the number.
Magnitude(v) == IF v < 0 THEN -v ELSE v
Truncated(v, d) == IF (v < 0) = (d < 0) THEN Magnitude(v) \div Magnitude(d) ELSE -(Magnitude(v) \div Magnitude(d))
SignedShiftRight == signed /\ \E count \in 0..(Bits + 1) : Compared("asr", Asr(number, count), expected \div 2 ^ count)
SignedDivide ==
    signed /\ \E b \in {n \in AllNumbers \ {Zero} : DivSupported(number, n)} :
        Compared("div", DivSigned(number, b).quotient, Truncated(expected, Value(b)))
SignedModulo ==
    signed /\ \E b \in {n \in AllNumbers \ {Zero} : DivSupported(number, n)} :
        Compared("mod", DivSigned(number, b).remainder, expected - Truncated(expected, Value(b)) * Value(b))

BigIntNext ==
    \/ Sum \/ Difference \/ Opposite \/ Product
    \/ ShiftLeft \/ ShiftRight
    \/ BitwiseNot \/ BitwiseAnd \/ BitwiseOr \/ BitwiseXor
    \/ Divide \/ Modulo
    \/ Restring
    \/ SignedShiftRight \/ SignedDivide \/ SignedModulo

BigIntSpec == BigIntInit /\ [][BigIntNext]_bigint

-----------------------------------------------------------------------------
(* After any sequence of operations a uint512_t is the integer it should be
   modulo 2^512: the carries from word to word, the shifts by whole words
   and by bits, the quotients, the strings; and it compares and counts its
   bits like that integer.                                                 *)
UnsignedIsExact ==
    ~signed => /\ UnsignedValue(number) = expected
               /\ \A b \in AllNumbers : Compare(number, b) > 0 <=> expected > UnsignedValue(b)
               /\ expected < 2 ^ BitSize(number)

(* An int512_t too, as far as sums, products, left shifts, bits and strings
   are concerned; it compares like a signed integer.                       *)
SignedSumsAreExact ==
    signed => /\ SignedValue(number) = expected
              /\ \A b \in AllNumbers : CompareSigned(number, b) > 0 <=> expected > SignedValue(b)

(* int512_t::asr() is an arithmetic shift: it keeps the sign.               *)
ShiftKeepsSign == "asr" \notin wrong

(* int512_t::div() computes the quotient and the remainder.                *)
SignedDivisionIsExact == {"div", "mod"} \intersect wrong = {}
=============================================================================
