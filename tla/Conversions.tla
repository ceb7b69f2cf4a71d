----------------------------- MODULE Conversions ------------------------------
(***************************************************************************)
(* What happens to a value between an argument of executeUpdate and the    *)
(* result of a column accessor: bindObject, the engine's column affinity,  *)
(* the accessors of FMResultSet, and Variant's to... conversions.          *)
(*                                                                         *)
(* A Variant is <<type, value>> with the names of Variant::Type.  Integers *)
(* are integers (a bool is 0 or 1), FLOAT, DOUBLE and DATE whole numbers   *)
(* of halves, which a double holds exactly.  A text is                     *)
(*    <<"int", n>>    the numeral n           <<"word", w>>  not a number  *)
(*    <<"real", h>>   h halves, with a point  <<"nul", w>>   w, a NUL and  *)
(*    <<"object", t>> what a std::string that                more after it *)
(*                    holds t looks like in memory                         *)
(* and the engine holds <<"null", 0>>, <<"int", n>>, <<"real", h>>,        *)
(* <<"text", t>> or <<"blob", b>>.  No blob reads as a number.             *)
(***************************************************************************)
EXTENDS Integers

CONSTANTS CharMax, IntMax, LongMax   \* 2^7 - 1, 2^31 - 1 and 2^63 - 1 in the build

\* Every type holds what a narrower one does, signed or unsigned.
ASSUME WidthAssumption ==
    /\ {CharMax, IntMax, LongMax} \subseteq Nat
    /\ 2 * CharMax + 1 <= IntMax
    /\ 2 * IntMax + 1 <= LongMax

\* A type is known by its largest signed value.
Least(max) == -max - 1
SignedRange(max) == Least(max)..max
UnsignedRange(max) == 0..(2 * max + 1)
Unsigned(n, max) == n % (2 * max + 2)
Signed(n, max) == Unsigned(n + max + 1, max) - (max + 1)
Clamped(n, max) ==
    IF n \in SignedRange(max) THEN n
    ELSE IF n < 0 THEN Least(max) ELSE max
Truncated(half) == IF half < 0 THEN -((-half) \div 2) ELSE half \div 2
Bool(b) == IF b THEN 1 ELSE 0

Integral == {"BOOLEAN", "CHAR", "BYTE", "INTEGER", "UINTEGER", "LONGLONG", "ULONGLONG"}
Floating == {"FLOAT", "DOUBLE", "DATE"}
Texts == {"STRING", "CSTRING"}
Objects == {"STRING", "DATA"}   \* what a Variant owns and is bound by address
Types == {"NONE", "DATA"} \union Integral \union Floating \union Texts

\* What a Variant of each type can hold.  A C string has no NUL within.
CStrings == ({"int", "real"} \X Int) \union ({"word"} \X STRING)
Variants ==
    ({"NONE"} \X {0})
    \union ({"BOOLEAN"} \X (0..1))
    \union ({"CHAR"} \X SignedRange(CharMax))
    \union ({"BYTE"} \X UnsignedRange(CharMax))
    \union ({"INTEGER"} \X SignedRange(IntMax))
    \union ({"UINTEGER"} \X UnsignedRange(IntMax))
    \union ({"LONGLONG"} \X SignedRange(LongMax))
    \union ({"ULONGLONG"} \X UnsignedRange(LongMax))
    \union (Floating \X Int)
    \union ({"CSTRING"} \X CStrings)
    \union ({"STRING"} \X (CStrings \union ({"nul"} \X STRING)))
    \union ({"DATA"} \X STRING)

-------------------------------------------------------------------------------
(* The C library's conversions, which read to the end of a C string.       *)

\* A C string ends at the first NUL.
c_str(text) == IF text[1] = "nul" THEN <<"word", text[2]>> ELSE text
atof(text) ==
    CASE text[1] = "int" -> 2 * text[2]
      [] text[1] = "real" -> text[2]
      [] OTHER -> 0
\* atoll, and atoi too, which is strtol cast to int.
atoll(text) == Clamped(Truncated(atof(text)), LongMax)
\* A double cast to an integer type.  Out of range C++ leaves the result
\* open; this is what x86-64 computes, and no property relies on it.
cast(half, max) ==
    IF Truncated(half) \in SignedRange(max) THEN Truncated(half) ELSE Least(max)

-------------------------------------------------------------------------------
(* Variant's conversions.                                                  *)

\* ____convertion, without the containers.
convert(from, type) ==
    \/ from = type /\ from # "NONE"
    \/ from = "NONE" /\ type \in Texts
    \/ /\ from \in Integral \union Floating \union Texts
       /\ type \in Integral \union Floating \union {"STRING"}
    \/ from \in Texts /\ type \in Texts

\* toBool, as the 0 or 1 it is: the text 0 is false and so is "false".
toBool(v) ==
    CASE v[1] \in Integral \union Floating -> Bool(v[2] # 0)
      [] v[1] \in Texts -> Bool(v[2] \notin {<<"int", 0>>, <<"word", "false">>})
      [] OTHER -> 0

\* What toChar, toInt and toLongLong have in common.
toIntegral(v, max) ==
    CASE v[1] \in Integral -> Signed(v[2], max)
      [] v[1] \in Floating -> cast(v[2], max)
      [] v[1] \in Texts -> Signed(atoll(v[2]), max)
      [] OTHER -> 0

toChar(v) == toIntegral(v, CharMax)
toByte(v) == Unsigned(toChar(v), CharMax)
\* toInt reads a C string with atof.
toInt(v) ==
    IF v[1] = "CSTRING" THEN cast(atof(v[2]), IntMax) ELSE toIntegral(v, IntMax)
toUInt(v) == Unsigned(toInt(v), IntMax)

\* Mutant: a text is read with atoi instead of atoll.
toLongLong_Atoi(v) ==
    toIntegral(v, IF v[1] \in Texts THEN IntMax ELSE LongMax)

toLongLong(v) == toIntegral(v, LongMax)
toULongLong(v) == Unsigned(toLongLong(v), LongMax)

\* toDouble; toFloat is the same, of numbers that a float holds exactly.
toDouble(v) ==
    CASE v[1] \in Integral -> 2 * v[2]
      [] v[1] \in Floating -> v[2]
      [] v[1] \in Texts -> atof(v[2])
      [] OTHER -> 0

\* toDate: the integers are read as unsigned ones, of a char only the one byte
\* that was stored, and dateFromString reads a text that strptime can do
\* nothing with as a number of seconds.
toDate(v) ==
    CASE v[1] \in {"LONGLONG", "ULONGLONG"} -> 2 * Unsigned(v[2], LongMax)
      [] v[1] = "CHAR" -> 2 * Unsigned(v[2], CharMax)
      [] v[1] \in Integral \ {"LONGLONG", "ULONGLONG", "CHAR"} -> 2 * Unsigned(v[2], IntMax)
      [] v[1] \in Floating -> v[2]
      [] v[1] \in Texts -> atof(v[2])
      [] OTHER -> 0

\* toString, but for a Date's calendar format.  A character is itself, and
\* a whole double has no point.
toString(v) ==
    CASE v[1] \in Texts -> v[2]
      [] v[1] = "NONE" -> <<"word", "(null)">>
      [] v[1] = "BOOLEAN" -> <<"word", IF v[2] = 0 THEN "false" ELSE "true">>
      [] v[1] \in {"CHAR", "BYTE"} -> <<"char", v[2]>>
      [] v[1] \in Integral \ {"BOOLEAN", "CHAR", "BYTE"} -> <<"int", v[2]>>
      [] v[1] \in Floating ->
            IF v[2] % 2 = 0 THEN <<"int", v[2] \div 2>> ELSE <<"real", v[2]>>
      [] OTHER -> <<"word", "">>

\* toCString: the union is taken for a const char *, although a STRING has a
\* pointer to its std::string there.  Other types assert.
toCString(v) ==
    CASE v[1] = "CSTRING" -> v[2]
      [] v[1] = "NONE" -> <<"word", "(null)">>
      [] OTHER -> <<"object", v[2]>>

\* The conversion to a type, as a Variant of that type.
converted(type, v) ==
    <<type,
      CASE type = "BOOLEAN" -> toBool(v)
        [] type = "CHAR" -> toChar(v)
        [] type = "BYTE" -> toByte(v)
        [] type = "INTEGER" -> toInt(v)
        [] type = "UINTEGER" -> toUInt(v)
        [] type = "LONGLONG" -> toLongLong(v)
        [] type = "ULONGLONG" -> toULongLong(v)
        [] type \in {"FLOAT", "DOUBLE"} -> toDouble(v)
        [] type = "DATE" -> toDate(v)
        [] type = "STRING" -> toString(v)
        [] type = "CSTRING" -> toCString(v)
        [] OTHER -> v[2]>>

-------------------------------------------------------------------------------
(* Binding.                                                                *)

\* Mutant: an unsigned long long is bound with sqlite3_bind_int.
boundMax_ULongInt(type) == IF type = "LONGLONG" THEN LongMax ELSE IntMax

\* sqlite3_bind_int64 or sqlite3_bind_int.
boundMax(type) == IF type \in {"LONGLONG", "ULONGLONG"} THEN LongMax ELSE IntMax

\* bindObject: what the parameter is given.  The unsigned types go through
\* a signed parameter of the same width.
bindObject(v) ==
    CASE v[1] = "NONE" -> <<"null", 0>>
      [] v[1] = "DATA" -> <<"blob", v[2]>>
      [] v[1] = "CSTRING" -> <<"text", c_str(v[2])>>
      [] v[1] = "STRING" -> <<"text", v[2]>>
      [] v[1] \in Floating -> <<"real", v[2]>>
      [] OTHER -> <<"int", Signed(v[2], boundMax(v[1]))>>

-------------------------------------------------------------------------------
(* The engine: column affinity, comparison, sqlite3_column_...             *)

\* A real becomes an integer if nothing is lost; the two extreme integers
\* are left out.
integerAffinity(half) ==
    LET n == Truncated(half) IN
    IF 2 * n = half /\ Least(LongMax) < n /\ n < LongMax
    THEN <<"int", n>>
    ELSE <<"real", half>>

asText(x) ==
    CASE x[1] = "text" -> x[2]
      [] x[1] = "blob" -> <<"word", x[2]>>
      [] OTHER -> x

applyAffinity(affinity, x) ==
    CASE affinity = "numeric" /\ x[1] = "real" -> integerAffinity(x[2])
      [] affinity = "numeric" /\ x[1] = "text" ->
            IF x[2][1] \notin {"int", "real"} THEN x
            ELSE IF x[2][1] = "int" /\ x[2][2] \in SignedRange(LongMax) THEN x[2]
            ELSE integerAffinity(atof(x[2]))
      [] affinity = "text" /\ x[1] \in {"int", "real"} -> <<"text", asText(x)>>
      [] OTHER -> x

\* An integer equals a real of the same value; NULL equals nothing.
halves(x) == IF x[1] = "int" THEN 2 * x[2] ELSE x[2]
equal(x, y) ==
    IF {x[1], y[1]} \subseteq {"int", "real"}
    THEN halves(x) = halves(y)
    ELSE x[1] # "null" /\ x = y

column_double(x) ==
    CASE x[1] \in {"int", "real"} -> halves(x)
      [] x[1] = "text" -> atof(x[2])
      [] OTHER -> 0
column_int64(x) ==
    IF x[1] = "int" THEN x[2] ELSE Clamped(Truncated(column_double(x)), LongMax)
column_int(x) == Signed(column_int64(x), IntMax)

-------------------------------------------------------------------------------
(* The accessors of FMResultSet.                                           *)

intForColumn(x) == column_int(x)
longLongForColumn(x) == column_int64(x)
unsignedLongLongForColumn(x) == Unsigned(longLongForColumn(x), LongMax)
doubleForColumn(x) == column_double(x)
boolForColumn(x) == Bool(column_int(x) # 0)
stringForColumn(x) == c_str(asText(x))
dataForColumn(x) == x[2]
dateForColumn(x) == doubleForColumn(x)
columnIsNull(x) == x[1] = "null"

\* dataForColumnIndex gives a null pointer for a NULL, and for an empty blob,
\* of which the engine returns no address; stringForColumnIndex for a NULL.
NoObject(x) == x \in {<<"null", 0>>, <<"blob", "">>}

\* operator[]: it dereferences that null pointer if NoObject(x).
objectForColumn(x) ==
    CASE x[1] = "int" -> <<"LONGLONG", longLongForColumn(x)>>
      [] x[1] = "real" -> <<"DOUBLE", doubleForColumn(x)>>
      [] x[1] = "blob" -> <<"DATA", dataForColumn(x)>>
      [] OTHER -> <<"STRING", stringForColumn(x)>>

\* The accessor that belongs to a type.  There is none for the narrow types
\* and for unsigned int: their clients convert what intForColumn returns.
forColumn(type, x) ==
    <<type,
      CASE type = "BOOLEAN" -> boolForColumn(x)
        [] type = "CHAR" -> Signed(intForColumn(x), CharMax)
        [] type = "BYTE" -> Unsigned(intForColumn(x), CharMax)
        [] type = "INTEGER" -> intForColumn(x)
        [] type = "UINTEGER" -> Unsigned(intForColumn(x), IntMax)
        [] type = "LONGLONG" -> longLongForColumn(x)
        [] type = "ULONGLONG" -> unsignedLongLongForColumn(x)
        [] type \in {"FLOAT", "DOUBLE"} -> doubleForColumn(x)
        [] type = "DATE" -> dateForColumn(x)
        [] type \in Texts -> stringForColumn(x)
        [] OTHER -> dataForColumn(x)>>

===============================================================================
