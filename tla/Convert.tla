------------------------------ MODULE Convert ------------------------------
(***************************************************************************)
(* The conversions of a field's value: text to bytes and back              *)
(* (prinbee/data/convert.cpp) and, for the cell of a row, to and from its  *)
(* big endian image and from one column type to another                    *)
(* (prinbee/database/cell.cpp).                                            *)
(*                                                                         *)
(* Sizes are scaled: a byte has ByteBits bits, a word (64 bits) WordBytes  *)
(* bytes and a large integer (512 bits) BigWords words.  A type is a kind  *)
(* and a size: the bytes of a number, the bytes of the length of a string, *)
(* the characters of a CHAR or the digits of the fraction of a time.       *)
(*                                                                         *)
(* A text is a sequence of characters.  Digits 0 to 9 and letters A to F   *)
(* are the numbers 0 to 15; other characters have a code of their own.     *)
(* Spaces, the optional '+' and the case are left out.  The calendar is    *)
(* scaled too: a year has YearLength seconds, its number one digit for the *)
(* four of a year up to 9999, and the month, the day and the time of day   *)
(* are one character.                                                      *)
(***************************************************************************)
EXTENDS Integers, Sequences, SequencesExt

CONSTANTS ByteBits, WordBytes, BigWords,
          Types,        \* the types a column may be given
          Inputs        \* what a user gives: a type, a text for it and what the text means

ASSUME ConvertAssumption ==
    /\ ByteBits \in {2, 4} /\ WordBytes \in Nat /\ WordBytes > 2 /\ BigWords \in Nat /\ BigWords > 2
    /\ Types \subseteq [kind : {"uint", "int", "version", "time", "char", "string", "pbuffer"}, size : Nat]

VARIABLES type,     \* the type of the column or field
          form,     \* where the value is: "text", "buffer", "cell", "blob", or "refused"
          store,    \* its representation there
          meaning   \* what the user gave, [number |-> ...] or [text |-> ...], or Lost

convert == <<type, form, store, meaning>>

Minus == 16
X == 17
B == 11
Quote == 18
Dot == 19
V == 20
Zone == 21          \* the "+0000" of a time
Nul == 22
Letter == 23        \* any other character
InYear == 100       \* InYear + s: the date and time s seconds after the start of a year

Byte == 2 ^ ByteBits
BigBytes == WordBytes * BigWords
Big == Byte ^ BigBytes
Word == Byte ^ WordBytes

Ok(v) == [ok |-> TRUE, value |-> v]
Throw == [ok |-> FALSE]

\* The bytes of a number in memory, the least significant first, and back.
BytesOf(n, count) == [k \in 1..count |-> (n \div Byte ^ (k - 1)) % Byte]
FromBytes(bytes) == FoldRight(LAMBDA b, n : b + Byte * n, bytes, 0)
\* A two's complement number of so many bytes.
Extended(n, count) == IF 2 * n >= Byte ^ count THEN n - Byte ^ count ELSE n
BitLength(n) == IF n = 0 THEN 0 ELSE CHOOSE k \in 1..(ByteBits * BigBytes) : 2 ^ (k - 1) <= n /\ n < 2 ^ k
BitLengthSigned(n) == LET v == Extended(n, BigBytes) IN BitLength(IF v < 0 THEN -v ELSE v)

-----------------------------------------------------------------------------
(* Numbers and their texts *)

\* value_byte_size(): the bytes which matter.
ValueByteSize(bytes, isSigned) ==
    LET size == Len(bytes)
        filler == IF isSigned /\ size > 0 /\ 2 * bytes[size] >= Byte THEN Byte - 1 ELSE 0
        kept == {k \in 1..size : bytes[k] # filler}
        last == IF kept = {} THEN 0 ELSE CHOOSE k \in kept : \A j \in kept : j <= k
    IN IF last > 0 /\ filler # 0 /\ 2 * bytes[last] < Byte /\ last # size THEN last + 1 ELSE last

IsDigits(s, base) == \A k \in DOMAIN s : s[k] < base
Evaluate(s, base) == FoldLeft(LAMBDA n, d : (n * base + d) % Big, 0, s)

\* string_to_int() without a unit: the introducer chooses the base, "0" alone
\* introduces an octal number, and an empty text is zero.
string_to_int(text, acceptNegative) ==
    LET negative == text # <<>> /\ text[1] = Minus
        n == IF negative THEN Tail(text) ELSE text
        second == IF Len(n) > 1 THEN n[2] ELSE Nul
        quoted == Len(n) > 2 /\ n[1] = X /\ second = Quote
        base == CASE n = <<>> -> 10
                  [] n[1] = 0 /\ second = X -> 16
                  [] n[1] = 0 /\ second = B -> 2
                  [] n[1] = 0 -> 8
                  [] quoted -> 16
                  [] OTHER -> 10
        digits == CASE base \in {2, 16} -> SubSeq(n, 3, IF quoted THEN Len(n) - 1 ELSE Len(n))
                    [] base = 8 -> Tail(n)
                    [] OTHER -> n
        value == Evaluate(digits, base)
    IN IF \/ negative /\ ~acceptNegative
          \/ quoted /\ Last(n) # Quote
          \/ ~IsDigits(digits, base)
       THEN Throw
       ELSE Ok(IF negative THEN (Big - value) % Big ELSE value)

\* string_to_uinteger()
string_to_uinteger(text, count) ==
    LET n == string_to_int(text, FALSE)
    IN IF ~n.ok \/ (count # BigBytes /\ BitLength(n.value) > ByteBits * count)
       THEN Throw ELSE Ok(BytesOf(n.value, count))

\* The "special case where we may have 0x800..000" of string_to_integer():
\* a number smaller than a word is compared with its negative limit, a larger
\* one only has its top bit cleared.
IsMinimum(n, count) ==
    IF count < WordBytes
    THEN n % Word = Word - 2 ^ (ByteBits * count - 1)
    ELSE n % Byte ^ count = 2 ^ (ByteBits * count - 1)

\* string_to_integer()
string_to_integer_NoMinimum(text, count) ==
    LET n == string_to_int(text, TRUE)
    IN IF ~n.ok \/ (count # BigBytes /\ BitLengthSigned(n.value) > ByteBits * count - 1)
       THEN Throw ELSE Ok(BytesOf(n.value, count))

string_to_integer(text, count) ==
    LET n == string_to_int(text, TRUE)
        size == BitLengthSigned(n.value)
    IN IF ~n.ok \/ (/\ count # BigBytes
                    /\ size > ByteBits * count - 1
                    /\ ~(size = ByteBits * count /\ IsMinimum(n.value, count)))
       THEN Throw ELSE Ok(BytesOf(n.value, count))

\* uint512_t::to_string() with its introducer
Introducer == [b \in {2, 8, 10, 16} |-> CASE b = 2 -> <<0, B>> [] b = 8 -> <<0>> [] b = 10 -> <<>> [] OTHER -> <<0, X>>]
Digits(n, base) ==
    LET count == CHOOSE k \in 1..(ByteBits * BigBytes) : n < base ^ k /\ (k = 1 \/ base ^ (k - 1) <= n)
    IN [k \in 1..count |-> (n \div base ^ (count - k)) % base]
NumberText(n, base) == IF n = 0 THEN <<0>> ELSE Introducer[base] \o Digits(n, base)

uinteger_to_string(bytes, count, base) ==
    IF ValueByteSize(bytes, FALSE) > count THEN Throw ELSE Ok(NumberText(FromBytes(bytes), base))

integer_to_string(bytes, count, base) ==
    LET size == ValueByteSize(bytes, TRUE)
        extended == [k \in 1..BigBytes |-> IF k <= size THEN bytes[k] ELSE Byte - 1]
        opposite == uinteger_to_string(BytesOf((Big - FromBytes(extended)) % Big, BigBytes), count, base)
    IN CASE 2 * bytes[Len(bytes)] < Byte -> uinteger_to_string(bytes, count, base)
         [] size > count \/ ~opposite.ok -> Throw
         [] OTHER -> Ok(<<Minus>> \o opposite.value)

-----------------------------------------------------------------------------
(* Versions, strings, buffers and times *)

\* string_to_version(): "v1.3" or "1.3"; a half of the bytes for each part.
HalfVersion == 1
string_to_version(text) ==
    LET dots == {k \in DOMAIN text : text[k] = Dot}
        pos == CHOOSE k \in dots : \A j \in dots : k <= j
        first == IF text[1] = V THEN 2 ELSE 1
        major == string_to_int(SubSeq(text, first, pos - 1), FALSE)
        minor == string_to_int(SubSeq(text, pos + 1, Len(text)), FALSE)
    IN CASE dots = {} -> Throw
         [] ~major.ok \/ ~minor.ok -> Throw
         [] BitLength(major.value) > ByteBits * HalfVersion \/ BitLength(minor.value) > ByteBits * HalfVersion -> Throw
         [] OTHER -> Ok(BytesOf(minor.value, HalfVersion) \o BytesOf(major.value, HalfVersion))
version_to_string(bytes) ==
    IF Len(bytes) # 2 * HalfVersion THEN Throw
    ELSE LET half(k) == NumberText(FromBytes(SubSeq(bytes, k, k + HalfVersion - 1)), 10)
         IN Ok(half(HalfVersion + 1) \o <<Dot>> \o half(1))

\* char_to_buffer() and buffer_to_char().  A longer text is copied past the
\* end of the buffer; here the buffer keeps what fits.
char_to_buffer(text, size) == IF size = 0 THEN Throw ELSE Ok([k \in 1..size |-> IF k <= Len(text) THEN text[k] ELSE Nul])
UntilNul(s) ==
    LET nuls == {k \in DOMAIN s : s[k] = Nul}
    IN IF nuls = {} THEN s ELSE SubSeq(s, 1, (CHOOSE k \in nuls : \A j \in nuls : k <= j) - 1)
buffer_to_char(bytes, size) == IF Len(bytes) < size THEN Throw ELSE Ok(UntilNul(SubSeq(bytes, 1, size)))

\* string_to_buffer() and buffer_to_string(): the length, then the characters.
string_to_buffer(text, count) ==
    IF Len(text) >= Byte ^ count THEN Throw ELSE Ok(BytesOf(Len(text), count) \o text)
WithCount(bytes, count) ==
    LET size == FromBytes(SubSeq(bytes, 1, count))
    IN IF Len(bytes) < count THEN Throw
       ELSE IF count + size > Len(bytes) THEN Throw
       ELSE Ok(SubSeq(bytes, count + 1, count + size))
buffer_to_string(bytes, count) == WithCount(bytes, count)

\* snapdev's hex_to_bin() and bin_to_hex(): two digits for one byte.
Nibble == 2 ^ (ByteBits \div 2)
hex_to_bin(text) ==
    IF Len(text) % 2 # 0 \/ ~IsDigits(text, Nibble) THEN Throw
    ELSE Ok([k \in 1..(Len(text) \div 2) |-> Nibble * text[2 * k - 1] + text[2 * k]])
bin_to_hex(bytes) == [k \in 1..(2 * Len(bytes)) |-> LET b == bytes[(k + 1) \div 2] IN IF k % 2 = 1 THEN b \div Nibble ELSE b % Nibble]
string_to_pbuffer(text, count) ==
    LET bin == hex_to_bin(text) IN IF ~bin.ok THEN Throw ELSE string_to_buffer(bin.value, count)
pbuffer_to_string(bytes, count) ==
    LET bin == WithCount(bytes, count) IN IF ~bin.ok THEN Throw ELSE Ok(bin_to_hex(bin.value))

\* The calendar: gmtime_r() and timegm(), strftime() and strptime().
YearLength == 8
EpochYear == 3      \* 1970
BaseYear == 2       \* 1900, the year 0 of a struct tm
LastYear == 9       \* 9999
YearOf(seconds) == EpochYear + (seconds \div YearLength)
timegm(year, seconds) == (year - EpochYear) * YearLength + seconds
strftime(seconds) ==
    LET year == YearOf(seconds)
    IN (IF year < 0 THEN <<Minus>> \o NumberText(-year, 10) ELSE NumberText(year, 10))
       \o <<InYear + (seconds % YearLength)>>
\* "%Y" reads at most four digits.  Where the text does not match the format,
\* strptime() stops: the rest of the struct tm is zero, and the day 0 is the
\* one before the first.  Nobody looks at what it returns.
strptime(date) ==
    CASE date[1] > LastYear -> timegm(BaseYear, -1)
      [] date[1] <= LastYear /\ date[2] < InYear -> timegm(date[1], -1)
      [] OTHER -> timegm(date[1], date[2] - InYear)

\* string_to_unix_time(): the zone is parsed but timegm() does not look at it;
\* zeroes at the end of a fraction which is too long are dropped.
string_to_unix_time(text, exp) ==
    LET body == SelectSeq(text, LAMBDA c : c # Zone)
        ends == {k \in DOMAIN body : body[k] >= InYear}
        end == CHOOSE k \in ends : TRUE
        frac == SubSeq(body, end + 2, Len(body))
        extra == SubSeq(frac, exp + 1, Len(frac))
        padded == [k \in 1..exp |-> IF k <= Len(frac) THEN frac[k] ELSE 0]
    IN IF \E k \in DOMAIN extra : extra[k] # 0 THEN Throw
       ELSE Ok(BytesOf((strptime(SubSeq(body, 1, end)) * 10 ^ exp + Evaluate(padded, 10)) % Word, WordBytes))

\* unix_time_to_string(): the time is divided as an unsigned number.
unix_time_to_string_Unpadded(bytes, exp) ==
    LET time == FromBytes(bytes)
    IN IF Len(bytes) # WordBytes THEN Throw
       ELSE Ok(strftime(Extended(time \div 10 ^ exp, WordBytes))
               \o (IF exp = 0 THEN <<>> ELSE <<Dot>> \o Digits(time % 10 ^ exp, 10))
               \o <<Zone>>)
unix_time_to_string(bytes, exp) ==
    LET time == FromBytes(bytes)
        f == time % 10 ^ exp
    IN IF Len(bytes) # WordBytes THEN Throw
       ELSE Ok(strftime(Extended(time \div 10 ^ exp, WordBytes))
               \o (IF exp = 0 THEN <<>> ELSE <<Dot>> \o [k \in 1..exp |-> (f \div 10 ^ (exp - k)) % 10])
               \o <<Zone>>)

string_to_typed_buffer(t, text) ==
    CASE t.kind = "uint" -> string_to_uinteger(text, t.size)
      [] t.kind = "int" -> string_to_integer(text, t.size)
      [] t.kind = "version" -> string_to_version(text)
      [] t.kind = "time" -> string_to_unix_time(text, t.size)
      [] t.kind = "char" -> char_to_buffer(text, t.size)
      [] t.kind = "string" -> string_to_buffer(text, t.size)
      [] t.kind = "pbuffer" -> string_to_pbuffer(text, t.size)

typed_buffer_to_string(t, bytes, base) ==
    CASE t.kind = "uint" -> uinteger_to_string(bytes, t.size, base)
      [] t.kind = "int" -> integer_to_string(bytes, t.size, base)
      [] t.kind = "version" -> version_to_string(bytes)
      [] t.kind = "time" -> unix_time_to_string(bytes, t.size)
      [] t.kind = "char" -> buffer_to_char(bytes, t.size)
      [] t.kind = "string" -> buffer_to_string(bytes, t.size)
      [] t.kind = "pbuffer" -> pbuffer_to_string(bytes, t.size)

-----------------------------------------------------------------------------
(* Cells: an integer of BigBytes bytes, or a string *)

IsText(t) == t.kind \in {"char", "string"}
Width(t) == IF t.kind = "time" THEN WordBytes ELSE t.size

\* set_integer() and set_uinteger(): one word, with its sign or without.
set_integer(w) == Extended(w, WordBytes) % Big
set_uinteger(w) == w

\* The setter of the type of the column: set_int8() to set_uint64(), the setters
\* which take a large integer, and those of the times and versions.
set_small(t, v) == IF t.kind = "int" THEN set_integer(v % Word) ELSE set_uinteger(v % Word)
set_large(v) == v % Big
IntegerOf(t, v) == IF Width(t) <= WordBytes THEN set_small(t, v) ELSE set_large(v)

Cell(t, integer, string) == [integer |-> IF IsText(t) THEN 0 ELSE integer, string |-> IF IsText(t) THEN string ELSE <<>>]

\* value_to_binary(): big endian, so that memcmp() sorts the keys.
string_to_binary(t, string) ==
    IF t.kind = "char" THEN Ok(string \o [k \in 1..(t.size - Len(string)) |-> Nul])
    ELSE IF Len(string) >= Byte ^ t.size THEN Throw
    ELSE Ok(Reverse(BytesOf(Len(string), t.size)) \o string)
value_to_binary(t, c) == IF IsText(t) THEN string_to_binary(t, c.string) ELSE Ok(Reverse(BytesOf(c.integer, Width(t))))

\* value_from_binary(): unsigned numbers of up to a word, except one byte, go
\* through set_integer(), the larger ones are extended with zeroes or the sign.
integer_from_binary(t, n) ==
    CASE t.kind \in {"int", "time"} -> Extended(n, Width(t)) % Big
      [] t.kind = "uint" /\ (t.size = 1 \/ t.size > WordBytes) -> n
      [] OTHER -> set_integer(n)
string_from_binary(t, blob) ==
    IF t.kind = "char" THEN UntilNul(SubSeq(blob, 1, t.size))
    ELSE SubSeq(blob, t.size + 1, t.size + FromBytes(Reverse(SubSeq(blob, 1, t.size))))
value_from_binary(t, blob) ==
    IF IsText(t) THEN Cell(t, 0, string_from_binary(t, blob))
    ELSE Cell(t, integer_from_binary(t, FromBytes(Reverse(SubSeq(blob, 1, Width(t))))), <<>>)

\* copy_from() a cell of another type: the source as a text, in base 16, read
\* as a large integer whatever the size of the destination.
SourceText(from, c) == IF IsText(from) THEN Ok(c.string) ELSE typed_buffer_to_string(from, BytesOf(c.integer, BigBytes), 16)
FromSourceText(to, text) ==
    LET bytes == IF to.kind \in {"int", "time"} THEN string_to_integer(text, BigBytes) ELSE string_to_uinteger(text, BigBytes)
    IN CASE IsText(to) -> Ok(Cell(to, 0, text))
         [] bytes.ok -> Ok(Cell(to, FromBytes(bytes.value), <<>>))
         [] OTHER -> Throw
copy_from(from, c, to) ==
    IF from = to THEN Ok(c)
    ELSE LET text == SourceText(from, c) IN IF text.ok THEN FromSourceText(to, text.value) ELSE Throw

-----------------------------------------------------------------------------
Lost == [lost |-> TRUE]
IsNumber(m) == "number" \in DOMAIN m
Limit(t) == Byte ^ Width(t)
HexText(v) == IF v < 0 THEN <<Minus>> \o NumberText(-v, 16) ELSE NumberText(v, 16)
TextOf(m) == IF IsNumber(m) THEN HexText(m.number) ELSE m.text

\* The dates a time has room for: their years have at most four digits and,
\* with a fraction, they are not before the epoch.  ("negative numbers are not
\* that useful to us at the moment", tests/catch_convert.cpp:2523.)
HasDate(t, v) == YearOf(v \div 10 ^ t.size) \in 0..LastYear /\ (t.size > 0 => v >= 0)

\* A column of type t has room for what the user gave.
Fits(t, m) ==
    CASE m = Lost -> FALSE
      [] t.kind = "char" -> Len(TextOf(m)) <= t.size
      [] t.kind = "string" -> Len(TextOf(m)) < Byte ^ t.size
      [] t.kind = "pbuffer" -> Len(TextOf(m)) < 2 * Byte ^ t.size
      [] ~IsNumber(m) -> FALSE
      [] t.kind \in {"uint", "version"} -> 0 <= m.number /\ m.number < Limit(t)
      [] OTHER -> /\ -Limit(t) <= 2 * m.number /\ 2 * m.number < Limit(t)
                  /\ t.kind = "time" => HasDate(t, m.number)

\* The number in a cell, as its getter returns it.
Got(t, c) ==
    CASE t.kind \in {"int", "time"} /\ Width(t) <= WordBytes -> Extended(c.integer % Limit(t), Width(t))
      [] t.kind = "int" -> Extended(c.integer, BigBytes)
      [] Width(t) <= WordBytes -> c.integer % Limit(t)
      [] OTHER -> c.integer

ConvertInit ==
    \E x \in Inputs :
        /\ type = x.type
        /\ meaning = x.means
        /\ \/ form = "text" /\ store = x.chars
           \/ /\ x.type.kind # "pbuffer" /\ Fits(x.type, x.means)
              /\ form = "cell"
              /\ store = Cell(x.type, IF IsNumber(x.means) THEN IntegerOf(x.type, x.means.number) ELSE 0, x.chars)

Yields(f, result) ==
    /\ form' = IF result.ok THEN f ELSE "refused"
    /\ store' = IF result.ok THEN result.value ELSE <<>>
    /\ UNCHANGED <<type, meaning>>

Parse == form = "text" /\ Yields("buffer", string_to_typed_buffer(type, store))
Show == form = "buffer" /\ \E base \in {2, 8, 10, 16} : Yields("text", typed_buffer_to_string(type, store, base))
Save == form = "cell" /\ Yields("blob", value_to_binary(type, store))
Load == form = "blob" /\ Yields("cell", Ok(value_from_binary(type, store)))

\* The row was saved before the type of the column changed: row::from_binary()
\* loads a cell of the old type and copies it to the new one.  A value for
\* which the new column has no room is lost.
AlterColumn(to) ==
    LET c == copy_from(type, value_from_binary(type, store), to)
    IN /\ form = "blob" /\ to.kind # "pbuffer"
       /\ type' = to
       /\ form' = IF c.ok THEN "cell" ELSE "unconverted"
       /\ store' = IF c.ok THEN c.value ELSE <<>>
       /\ meaning' = IF Fits(to, meaning) THEN meaning ELSE Lost

ConvertNext == Parse \/ Show \/ Save \/ Load \/ \E to \in Types : AlterColumn(to)

ConvertSpec == ConvertInit /\ [][ConvertNext]_convert

-----------------------------------------------------------------------------
ConvertTypeOK ==
    /\ type \in Types
    /\ form \in {"text", "buffer", "cell", "blob", "refused", "unconverted"}

\* What a field or a cell holds: its number, or its text.
Held ==
    CASE form = "cell" /\ IsText(type) -> store.string
      [] form = "cell" -> Got(type, store)
      [] type.kind \in {"int", "time"} -> Extended(FromBytes(store), Width(type))
      [] type.kind \in {"uint", "version"} -> FromBytes(store)
      [] type.kind = "char" -> UntilNul(store)
      [] type.kind = "string" -> SubSeq(store, type.size + 1, Len(store))
      [] OTHER -> bin_to_hex(SubSeq(store, type.size + 1, Len(store)))

\* A value for which its type has room, a date before 10000 which is not before
\* 1970 if it has a fraction, is the one the field or the cell holds,
\* however many times it is written as a text in any base and parsed again
\* (string_to_typed_buffer() and typed_buffer_to_string()), saved and loaded in
\* a row, or copied to a column of another type, through a text too.
ValueIsKept ==
    form \in {"buffer", "cell"} /\ Fits(type, meaning) =>
        IF ~IsNumber(meaning) THEN Held = meaning.text
        ELSE IF IsText(type) THEN string_to_int(Held, TRUE) = Ok(meaning.number % Big)
        ELSE Held = meaning.number

\* Text conversions and saving only refuse what the type has no room for: each
\* limit, that of the negative numbers included, is accepted.
RefusesOnlyTooLarge == form = "refused" => ~Fits(type, meaning)

\* A text whose value is "too large for a signed N bit value" is refused.
RefusesTooLarge == form = "buffer" => Fits(type, meaning)

\* A value for which the new type of a column has room is converted.
ConvertsWhatFits == form = "unconverted" => ~Fits(type, meaning)
=============================================================================
