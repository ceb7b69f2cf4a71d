-------------------------- MODULE ConversionsProofs ---------------------------
(***************************************************************************)
(* What the conversions of a value do, for every width of the integer      *)
(* types and every value: what was bound comes back, the two ways to read  *)
(* a column agree, and a comparison in the engine is a comparison of what  *)
(* was bound.                                                              *)
(***************************************************************************)
EXTENDS Conversions, TLAPS

AffinityKinds == {"none", "numeric", "text"}
AllTexts == CStrings \union ({"nul"} \X STRING)

\* What the engine can hold.
Cells ==
    ({"null"} \X {0})
    \union ({"int"} \X SignedRange(LongMax))
    \union ({"real"} \X Int)
    \union ({"text"} \X AllTexts)
    \union ({"blob"} \X STRING)

-------------------------------------------------------------------------------
(* Integers of one width.                                                  *)

\* A cast within the range of the type changes nothing; from unsigned to
\* signed and back it gives the value that it started from.
LEMMA Wraps ==
    ASSUME NEW max \in Nat
    PROVE  /\ \A n \in Int : Unsigned(n, max) \in UnsignedRange(max) /\ Signed(n, max) \in SignedRange(max)
           /\ \A n \in SignedRange(max) : Signed(n, max) = n
           /\ \A n \in 0..max : Unsigned(n, max) = n
           /\ \A n \in UnsignedRange(max) : Unsigned(Signed(n, max), max) = n
<1> USE DEF Unsigned, SignedRange, Least, UnsignedRange
<1>0. PICK m \in Nat : m = 2 * max + 2
  OBVIOUS
<1>1. \A n \in Int : n % m \in 0..(m - 1)
  BY <1>0
<1>2. \A n \in 0..(m - 1) : n % m = n
  BY <1>0
<1>3. \A n \in m..(2 * m - 1) : n % m = n - m
  BY <1>0
<1>4. \A n \in (-m)..(-1) : n % m = n + m
  BY <1>0
<1>5. \A n \in Int : Signed(n, max) = ((n + max + 1) % m) - (max + 1)
  BY <1>0 DEF Signed
<1>6. ASSUME NEW n \in Int
      PROVE  Unsigned(n, max) \in UnsignedRange(max) /\ Signed(n, max) \in SignedRange(max)
  <2>1. PICK k \in Int : k = n + max + 1
    OBVIOUS
  <2>2. k % m \in 0..(m - 1) /\ n % m \in 0..(m - 1)
    BY <1>1
  <2>3. Signed(n, max) = (k % m) - (max + 1) /\ Unsigned(n, max) = n % m
    BY <1>0, <1>5, <2>1
  <2>4. QED
    BY <1>0, <2>2, <2>3
<1>7. ASSUME NEW n \in SignedRange(max)
      PROVE  Signed(n, max) = n
  <2>1. PICK k \in 0..(m - 1) : k = n + max + 1
    BY <1>0
  <2>2. k % m = k
    BY <1>2
  <2>3. QED
    BY <1>5, <2>1, <2>2
<1>8. \A n \in 0..max : Unsigned(n, max) = n
  BY <1>0, <1>2
<1>9. ASSUME NEW n \in UnsignedRange(max)
      PROVE  Unsigned(Signed(n, max), max) = n
  <2>1. CASE n <= max
    BY <1>0, <1>7, <1>8, <2>1
  <2>2. CASE n > max
    <3>1. Signed(n, max) = n - m
      <4>1. PICK k \in m..(2 * m - 1) : k = n + max + 1
        BY <1>0, <2>2
      <4>2. k % m = k - m
        BY <1>3
      <4>3. QED
        BY <1>0, <1>5, <4>1, <4>2
    <3>2. (n - m) % m = n
      BY <1>0, <1>4, <2>2
    <3>3. QED
      BY <1>0, <3>1, <3>2
  <2>3. QED
    BY <2>1, <2>2
<1>10. QED
  BY <1>6, <1>7, <1>8, <1>9

\* The ranges contain one another.
LEMMA Ranges ==
    /\ CharMax \in Nat /\ IntMax \in Nat /\ LongMax \in Nat
    /\ SignedRange(CharMax) \subseteq SignedRange(IntMax) /\ SignedRange(IntMax) \subseteq SignedRange(LongMax)
    /\ UnsignedRange(CharMax) \subseteq 0..IntMax /\ UnsignedRange(IntMax) \subseteq 0..LongMax
    /\ SignedRange(LongMax) \subseteq Int /\ 0 \in SignedRange(CharMax)
    /\ {0} \union 0..IntMax \subseteq SignedRange(IntMax) /\ 0..LongMax \subseteq SignedRange(LongMax)
BY WidthAssumption DEF SignedRange, Least, UnsignedRange

\* A whole number of halves is that number; a conversion to an integer type
\* that saturates leaves what the type holds.
LEMMA Halves ==
    /\ \A n \in Int : Truncated(2 * n) = n
    /\ \A h \in Int : Truncated(h) \in Int
    /\ \A n \in SignedRange(LongMax) : Clamped(n, LongMax) = n
    /\ \A n \in Int : Clamped(n, LongMax) \in SignedRange(LongMax)
<1>1. \A n \in Int : Truncated(2 * n) = n
  BY DEF Truncated
<1>2. \A h \in Int : Truncated(h) \in Int
  BY DEF Truncated
<1>3. \A n \in Int : Clamped(n, LongMax) \in SignedRange(LongMax)
  BY Ranges DEF Clamped, SignedRange, Least
<1>4. QED
  BY <1>1, <1>2, <1>3 DEF Clamped

-------------------------------------------------------------------------------
(* Values.                                                                 *)

\* A Variant is of one type and holds a value of that type.
LEMMA VariantIs ==
    ASSUME NEW v \in Variants
    PROVE  /\ v = <<v[1], v[2]>> /\ v[1] \in Types
           /\ v[1] = "NONE" => v[2] = 0
           /\ v[1] = "BOOLEAN" => v[2] \in 0..1
           /\ v[1] = "CHAR" => v[2] \in SignedRange(CharMax)
           /\ v[1] = "BYTE" => v[2] \in UnsignedRange(CharMax)
           /\ v[1] = "INTEGER" => v[2] \in SignedRange(IntMax)
           /\ v[1] = "UINTEGER" => v[2] \in UnsignedRange(IntMax)
           /\ v[1] = "LONGLONG" => v[2] \in SignedRange(LongMax)
           /\ v[1] = "ULONGLONG" => v[2] \in UnsignedRange(LongMax)
           /\ v[1] \in Floating => v[2] \in Int
           /\ v[1] = "CSTRING" => v[2] \in CStrings
           /\ v[1] \in Texts => v[2] \in AllTexts
           /\ v[1] = "DATA" => v[2] \in STRING
BY DEF Variants, Types, Integral, Floating, Texts, AllTexts

\* A text is a pair of its kind and the rest.
LEMMA TextIs ==
    ASSUME NEW t \in AllTexts
    PROVE  /\ t = <<t[1], t[2]>> /\ t[1] \in {"int", "real", "word", "nul"}
           /\ t[1] \in {"int", "real"} => t[2] \in Int
           /\ t[1] = "nul" => t \notin CStrings
           /\ t[1] \in {"word", "nul"} => t[2] \in STRING
BY DEF AllTexts, CStrings

LEMMA CellIs ==
    ASSUME NEW x \in Cells
    PROVE  /\ x = <<x[1], x[2]>> /\ x[1] \in {"null", "int", "real", "text", "blob"}
           /\ x[1] = "null" => x[2] = 0
           /\ x[1] = "int" => x[2] \in SignedRange(LongMax)
           /\ x[1] = "real" => x[2] \in Int
           /\ x[1] = "text" => x[2] \in AllTexts
           /\ x[1] = "blob" => x[2] \in STRING
BY DEF Cells

\* An integer of any type is bound as one that the engine holds.
LEMMA IntegerBound ==
    ASSUME NEW v \in Variants, v[1] \in Integral
    PROVE  \E n \in SignedRange(LongMax) :
               /\ bindObject(v) = <<"int", n>>
               /\ n = Signed(v[2], boundMax(v[1]))
<1>1. v[2] \in Int
  <2>1. \A max \in Nat : SignedRange(max) \subseteq Int /\ UnsignedRange(max) \subseteq Int
    BY DEF SignedRange, UnsignedRange, Least
  <2>2. QED
    BY <2>1, VariantIs, Ranges DEF Integral
<1>2. boundMax(v[1]) \in {IntMax, LongMax}
  BY DEF boundMax
<1>3. Signed(v[2], IntMax) \in SignedRange(IntMax) /\ Signed(v[2], LongMax) \in SignedRange(LongMax)
  BY <1>1, Wraps, Ranges
<1>4. Signed(v[2], boundMax(v[1])) \in SignedRange(LongMax)
  BY <1>2, <1>3, Ranges
<1>5. bindObject(v) = <<"int", Signed(v[2], boundMax(v[1]))>>
  BY DEF bindObject, Integral, Floating
<1>6. QED
  BY <1>4, <1>5

\* What is bound is something that the engine holds.
LEMMA Bound ==
    ASSUME NEW v \in Variants
    PROVE  /\ bindObject(v) \in Cells
           /\ bindObject(v)[1] = "null" <=> v[1] = "NONE"
<1>1. CASE v[1] \in Integral
  BY <1>1, IntegerBound DEF Cells, Integral
<1>2. CASE v[1] \in Floating
  BY <1>2, VariantIs DEF bindObject, Floating, Cells
<1>3. CASE v[1] \in Texts
  <2>1. v[2] \in AllTexts
    BY <1>3, VariantIs
  <2>2. c_str(v[2]) \in AllTexts
    BY <2>1, TextIs DEF c_str, AllTexts, CStrings
  <2>3. bindObject(v) \in {<<"text", v[2]>>, <<"text", c_str(v[2])>>}
    BY <1>3 DEF bindObject, Texts, Floating
  <2>4. QED
    BY <1>3, <2>1, <2>2, <2>3 DEF Cells, Texts
<1>4. CASE v[1] \in {"NONE", "DATA"}
  BY <1>4, VariantIs DEF bindObject, Floating, Cells
<1>5. QED
  BY <1>1, <1>2, <1>3, <1>4, VariantIs DEF Types

\* Halves that become an integer are as many as that is worth.
LEMMA IntegerAffinity ==
    ASSUME NEW h \in Int
    PROVE  \/ integerAffinity(h) = <<"real", h>>
           \/ \E n \in SignedRange(LongMax) : integerAffinity(h) = <<"int", n>> /\ 2 * n = h
<1>1. PICK n \in Int : n = Truncated(h)
  BY Halves
<1>2. integerAffinity(h) = IF 2 * n = h /\ Least(LongMax) < n /\ n < LongMax
                           THEN <<"int", n>> ELSE <<"real", h>>
  BY <1>1 DEF integerAffinity
<1>3. Least(LongMax) < n /\ n < LongMax => n \in SignedRange(LongMax)
  BY Ranges DEF SignedRange, Least
<1>4. QED
  BY <1>2, <1>3

\* What a column's affinity makes of a value.
LEMMA Affine ==
    ASSUME NEW x \in Cells
    PROVE  /\ applyAffinity("none", x) = x
           /\ applyAffinity("text", x) = IF x[1] \in {"int", "real"} THEN <<"text", x>> ELSE x
           /\ x[1] \in {"null", "int", "blob"} => applyAffinity("numeric", x) = x
           /\ x[1] = "real" => applyAffinity("numeric", x) = integerAffinity(x[2])
           /\ x[1] = "text" /\ x[2][1] \in {"word", "nul"} => applyAffinity("numeric", x) = x
<1>0. x[1] \in {"null", "int", "real", "text", "blob"}
  BY CellIs
<1>1. applyAffinity("none", x) = x
  BY <1>0 DEF applyAffinity
<1>2. x[1] \in {"int", "real"} => asText(x) = x
  BY DEF asText
<1>3. applyAffinity("text", x) = IF x[1] \in {"int", "real"} THEN <<"text", x>> ELSE x
  BY <1>0, <1>2 DEF applyAffinity
<1>4. x[1] \in {"null", "int", "blob"} => applyAffinity("numeric", x) = x
  BY DEF applyAffinity
<1>5. x[1] = "real" => applyAffinity("numeric", x) = integerAffinity(x[2])
  BY DEF applyAffinity
<1>6. x[1] = "text" /\ x[2][1] \in {"word", "nul"} => applyAffinity("numeric", x) = x
  BY DEF applyAffinity
<1>7. QED
  BY <1>1, <1>3, <1>4, <1>5, <1>6

\* Affinity stays within what the engine holds.
LEMMA AffineCell ==
    ASSUME NEW aff \in AffinityKinds, NEW x \in Cells
    PROVE  applyAffinity(aff, x) \in Cells /\ (applyAffinity(aff, x)[1] = "null" <=> x[1] = "null")
<1>0. /\ x = <<x[1], x[2]>> /\ x[1] \in {"null", "int", "real", "text", "blob"}
      /\ x[1] = "int" => x[2] \in SignedRange(LongMax)
      /\ x[1] = "real" => x[2] \in Int
      /\ x[1] = "text" => x[2] \in AllTexts
  BY CellIs
<1>1. \A h \in Int : integerAffinity(h) \in Cells /\ integerAffinity(h)[1] # "null"
  BY IntegerAffinity DEF Cells
<1>2. CASE aff = "none"
  BY <1>2, Affine
<1>3. CASE aff = "text"
  <2>1. x[1] \in {"int", "real"} => x \in AllTexts
    <3>1. x[1] \in {"int", "real"} => x[2] \in Int
      BY <1>0, Ranges
    <3>2. QED
      BY <1>0, <3>1 DEF AllTexts, CStrings
  <2>2. x[1] \in {"int", "real"} => <<"text", x>> \in Cells
    BY <2>1 DEF Cells
  <2>3. QED
    BY <1>3, <2>2, Affine
<1>4. CASE aff = "numeric"
  <2>1. CASE x[1] \in {"null", "int", "blob"}
    BY <1>4, <2>1, Affine
  <2>2. CASE x[1] = "real"
    BY <1>0, <1>1, <1>4, <2>2, Affine
  <2>3. CASE x[1] = "text" /\ x[2][1] \in {"word", "nul"}
    BY <1>4, <2>3, Affine
  <2>4. CASE x[1] = "text" /\ x[2][1] \in {"int", "real"}
    <3>1. PICK t : t = x[2]
      OBVIOUS
    <3>2. t \in AllTexts /\ t = <<t[1], t[2]>> /\ t[1] \in {"int", "real"} /\ t[2] \in Int
      BY <1>0, <2>4, <3>1, TextIs
    <3>3. atof(t) \in Int
      BY <3>2 DEF atof
    <3>4. applyAffinity(aff, x) =
            IF t[1] = "int" /\ t[2] \in SignedRange(LongMax) THEN t ELSE integerAffinity(atof(t))
      BY <1>4, <2>4, <3>1 DEF applyAffinity
    <3>5. t[1] = "int" /\ t[2] \in SignedRange(LongMax) => t \in Cells
      BY <3>2 DEF Cells
    <3>6. QED
      BY <1>1, <2>4, <3>2, <3>3, <3>4, <3>5
  <2>5. QED
    BY <1>0, <2>1, <2>2, <2>3, <2>4, TextIs
<1>5. QED
  BY <1>2, <1>3, <1>4 DEF AffinityKinds

-------------------------------------------------------------------------------
(* Reading back.                                                           *)

\* A column that holds an integer, as such or as its numeral.
LEMMA IntegerCell ==
    ASSUME NEW n \in SignedRange(LongMax), NEW x \in {<<"int", n>>, <<"text", <<"int", n>>>>}
    PROVE  /\ ~columnIsNull(x)
           /\ column_int64(x) = n /\ column_int(x) = Signed(n, IntMax) /\ column_double(x) = 2 * n
           /\ objectForColumn(x) \in {<<"LONGLONG", n>>, <<"STRING", <<"int", n>>>>}
           /\ \A max \in Nat : toIntegral(objectForColumn(x), max) = Signed(n, max)
           /\ toInt(objectForColumn(x)) = Signed(n, IntMax)
           /\ toBool(objectForColumn(x)) = Bool(n # 0)
<1>0. n \in Int
  BY Ranges
<1>1. column_double(x) = 2 * n
  BY <1>0 DEF column_double, halves, atof
<1>2. Clamped(Truncated(2 * n), LongMax) = n
  BY <1>0, Halves
<1>3. column_int64(x) = n
  BY <1>1, <1>2 DEF column_int64
<1>4. column_int(x) = Signed(n, IntMax)
  BY <1>3 DEF column_int
<1>5. objectForColumn(x) \in {<<"LONGLONG", n>>, <<"STRING", <<"int", n>>>>}
  <2>1. CASE x = <<"int", n>>
    BY <1>3, <2>1 DEF objectForColumn, longLongForColumn
  <2>2. CASE x = <<"text", <<"int", n>>>>
    <3>1. stringForColumn(x) = <<"int", n>>
      BY <2>2 DEF stringForColumn, asText, c_str
    <3>2. QED
      BY <2>2, <3>1 DEF objectForColumn
  <2>3. QED
    BY <2>1, <2>2
<1>6. atoll(<<"int", n>>) = n
  <2>1. atof(<<"int", n>>) = 2 * n
    BY DEF atof
  <2>2. QED
    BY <1>2, <2>1 DEF atoll
<1>7. ASSUME NEW max \in Nat, NEW o \in {<<"LONGLONG", n>>, <<"STRING", <<"int", n>>>>}
      PROVE  toIntegral(o, max) = Signed(n, max)
  BY <1>6 DEF toIntegral, Integral, Floating, Texts
<1>8. toInt(objectForColumn(x)) = Signed(n, IntMax)
  BY <1>5, <1>7, Ranges DEF toInt
<1>9. toBool(objectForColumn(x)) = Bool(n # 0)
  <2>1. toBool(<<"LONGLONG", n>>) = Bool(n # 0)
    BY DEF toBool, Bool, Integral, Floating, Texts
  <2>2. toBool(<<"STRING", <<"int", n>>>>) = Bool(n # 0)
    <3>1. toBool(<<"STRING", <<"int", n>>>>) = Bool(<<"int", n>> \notin {<<"int", 0>>, <<"word", "false">>})
      BY DEF toBool, Integral, Floating, Texts
    <3>2. <<"int", n>> \notin {<<"int", 0>>, <<"word", "false">>} <=> n # 0
      BY <1>0
    <3>3. QED
      BY <3>1, <3>2 DEF Bool
  <2>3. QED
    BY <1>5, <2>1, <2>2
<1>10. QED
  BY <1>1, <1>3, <1>4, <1>5, <1>7, <1>8, <1>9 DEF columnIsNull

\* An integer of any type comes back, from a column of any affinity, by the
\* accessor of its type and by operator[] and the conversion to its type.
LEMMA IntegerReturns ==
    ASSUME NEW v \in Variants, v[1] \in Integral, NEW aff \in AffinityKinds
    PROVE  LET x == applyAffinity(aff, bindObject(v)) IN
           ~columnIsNull(x) /\ forColumn(v[1], x) = v /\ converted(v[1], objectForColumn(x)) = v
<1>1. PICK n \in SignedRange(LongMax) : bindObject(v) = <<"int", n>> /\ n = Signed(v[2], boundMax(v[1]))
  BY IntegerBound
<1>2. PICK x : x = applyAffinity(aff, bindObject(v))
  OBVIOUS
<1>3. x \in {<<"int", n>>, <<"text", <<"int", n>>>>}
  <2>1. <<"int", n>> \in Cells
    BY DEF Cells
  <2>2. QED
    BY <1>1, <1>2, <2>1, Affine DEF AffinityKinds
<1>4. PICK o : o = objectForColumn(x)
  OBVIOUS
<1>5. /\ ~columnIsNull(x)
      /\ column_int64(x) = n /\ column_int(x) = Signed(n, IntMax)
      /\ \A max \in Nat : toIntegral(o, max) = Signed(n, max)
      /\ toInt(o) = Signed(n, IntMax) /\ toBool(o) = Bool(n # 0)
  BY <1>3, <1>4, IntegerCell
<1>6. v = <<v[1], v[2]>>
  BY VariantIs
<1>7. ASSUME v[1] \in {"LONGLONG", "ULONGLONG"}
      PROVE  forColumn(v[1], x) = v /\ converted(v[1], o) = v
  <2>1. n = Signed(v[2], LongMax)
    BY <1>1, <1>7 DEF boundMax
  <2>2. Signed(n, LongMax) = n
    BY Wraps, Ranges
  <2>3. CASE v[1] = "LONGLONG"
    <3>1. n = v[2]
      BY <2>1, <2>3, VariantIs, Wraps, Ranges
    <3>2. forColumn(v[1], x) = <<v[1], n>>
      BY <1>5, <2>3 DEF forColumn, longLongForColumn, Texts
    <3>3. converted(v[1], o) = <<v[1], n>>
      BY <1>5, <2>2, <2>3, Ranges DEF converted, toLongLong, Texts
    <3>4. QED
      BY <1>6, <3>1, <3>2, <3>3
  <2>4. CASE v[1] = "ULONGLONG"
    <3>1. Unsigned(n, LongMax) = v[2]
      BY <2>1, <2>4, VariantIs, Wraps, Ranges
    <3>2. forColumn(v[1], x) = <<v[1], Unsigned(n, LongMax)>>
      BY <1>5, <2>4 DEF forColumn, unsignedLongLongForColumn, longLongForColumn, Texts
    <3>3. converted(v[1], o) = <<v[1], Unsigned(n, LongMax)>>
      BY <1>5, <2>2, <2>4, Ranges DEF converted, toULongLong, toLongLong, Texts
    <3>4. QED
      BY <1>6, <3>1, <3>2, <3>3
  <2>5. QED
    BY <1>7, <2>3, <2>4
<1>8. ASSUME v[1] \notin {"LONGLONG", "ULONGLONG"}
      PROVE  forColumn(v[1], x) = v /\ converted(v[1], o) = v
  <2>1. n = Signed(v[2], IntMax)
    BY <1>1, <1>8 DEF boundMax
  <2>2. v[1] # "UINTEGER" => v[2] \in SignedRange(IntMax)
    <3>1. 0..1 \subseteq SignedRange(IntMax) \/ IntMax < 1
      BY Ranges DEF SignedRange, Least
    <3>2. IntMax >= 1
      BY WidthAssumption
    <3>3. QED
      BY <1>8, <3>1, <3>2, VariantIs, Ranges DEF Integral
  <2>3. n \in SignedRange(IntMax) /\ Signed(n, IntMax) = n
    <3>1. v[2] \in Int
      BY <2>2, VariantIs, Ranges
    <3>2. QED
      BY <2>1, <3>1, Wraps, Ranges
  <2>4. v[1] # "UINTEGER" => n = v[2]
    BY <2>1, <2>2, Wraps, Ranges
  <2>5. CASE v[1] = "BOOLEAN"
    <3>1. v[2] \in 0..1 /\ Bool(n # 0) = v[2]
      BY <2>4, <2>5, VariantIs DEF Bool
    <3>2. forColumn(v[1], x) = <<v[1], Bool(n # 0)>>
      BY <1>5, <2>3, <2>5 DEF forColumn, boolForColumn, Texts
    <3>3. converted(v[1], o) = <<v[1], Bool(n # 0)>>
      BY <1>5, <2>5 DEF converted, Texts
    <3>4. QED
      BY <1>6, <3>1, <3>2, <3>3
  <2>6. CASE v[1] = "CHAR"
    <3>1. Signed(n, CharMax) = v[2]
      BY <2>4, <2>6, VariantIs, Wraps, Ranges
    <3>2. forColumn(v[1], x) = <<v[1], Signed(n, CharMax)>>
      BY <1>5, <2>3, <2>6 DEF forColumn, intForColumn, Texts
    <3>3. converted(v[1], o) = <<v[1], Signed(n, CharMax)>>
      BY <1>5, <2>6, Ranges DEF converted, toChar, Texts
    <3>4. QED
      BY <1>6, <3>1, <3>2, <3>3
  <2>7. CASE v[1] = "BYTE"
    <3>1. v[2] \in UnsignedRange(CharMax) /\ n = v[2]
      BY <2>4, <2>7, VariantIs
    <3>2. Unsigned(n, CharMax) = v[2] /\ Unsigned(Signed(n, CharMax), CharMax) = v[2]
      <4>1. Unsigned(Signed(n, CharMax), CharMax) = v[2]
        BY <3>1, Wraps, Ranges
      <4>2. Unsigned(n, CharMax) = n
        BY <3>1, Ranges DEF Unsigned, UnsignedRange
      <4>3. QED
        BY <3>1, <4>1, <4>2
    <3>3. forColumn(v[1], x) = <<v[1], Unsigned(n, CharMax)>>
      BY <1>5, <2>3, <2>7 DEF forColumn, intForColumn, Texts
    <3>4. converted(v[1], o) = <<v[1], Unsigned(Signed(n, CharMax), CharMax)>>
      BY <1>5, <2>7, Ranges DEF converted, toByte, toChar, Texts
    <3>5. QED
      BY <1>6, <3>2, <3>3, <3>4
  <2>8. CASE v[1] = "INTEGER"
    <3>1. forColumn(v[1], x) = <<v[1], n>>
      BY <1>5, <2>3, <2>8 DEF forColumn, intForColumn, Texts
    <3>2. converted(v[1], o) = <<v[1], n>>
      BY <1>5, <2>3, <2>8 DEF converted, Texts
    <3>3. QED
      BY <1>6, <2>4, <2>8, <3>1, <3>2
  <2>9. CASE v[1] = "UINTEGER"
    <3>1. Unsigned(n, IntMax) = v[2]
      BY <2>1, <2>9, VariantIs, Wraps, Ranges
    <3>2. forColumn(v[1], x) = <<v[1], Unsigned(n, IntMax)>>
      BY <1>5, <2>3, <2>9 DEF forColumn, intForColumn, Texts
    <3>3. converted(v[1], o) = <<v[1], Unsigned(n, IntMax)>>
      BY <1>5, <2>3, <2>9 DEF converted, toUInt, Texts
    <3>4. QED
      BY <1>6, <3>1, <3>2, <3>3
  <2>10. QED
    BY <1>8, <2>5, <2>6, <2>7, <2>8, <2>9 DEF Integral
<1>9. QED
  BY <1>2, <1>4, <1>5, <1>7, <1>8

\* A floating-point number or a date comes back, but that toDate reads an
\* integer as unsigned, and so not a date before 1970.
LEMMA RealReturns ==
    ASSUME NEW v \in Variants, v[1] \in Floating, NEW aff \in AffinityKinds
    PROVE  LET x == applyAffinity(aff, bindObject(v)) IN
           /\ ~columnIsNull(x) /\ forColumn(v[1], x) = v
           /\ \/ v[1] = "DATE" /\ v[2] < 0 /\ x[1] = "int"
              \/ converted(v[1], objectForColumn(x)) = v
<1>1. v = <<v[1], v[2]>> /\ v[2] \in Int /\ bindObject(v) = <<"real", v[2]>>
  BY VariantIs DEF bindObject, Floating
<1>2. PICK h \in Int : h = v[2]
  BY <1>1
<1>3. PICK x : x = applyAffinity(aff, bindObject(v))
  OBVIOUS
<1>4. PICK o : o = objectForColumn(x)
  OBVIOUS
<1>5. \/ x \in {<<"real", h>>, <<"text", <<"real", h>>>>}
      \/ \E n \in SignedRange(LongMax) : x = <<"int", n>> /\ 2 * n = h
  <2>1. <<"real", h>> \in Cells
    BY DEF Cells
  <2>2. x \in {<<"real", h>>, <<"text", <<"real", h>>>>, integerAffinity(h)}
    BY <1>1, <1>2, <1>3, <2>1, Affine DEF AffinityKinds
  <2>3. QED
    BY <2>2, IntegerAffinity
<1>6. ASSUME ~columnIsNull(x), column_double(x) = h, toDouble(o) = h,
             toDate(o) = h \/ (h < 0 /\ x[1] = "int")
      PROVE  /\ ~columnIsNull(x) /\ forColumn(v[1], x) = v
             /\ (v[1] = "DATE" /\ v[2] < 0 /\ x[1] = "int") \/ converted(v[1], o) = v
  <2>1. forColumn(v[1], x) = <<v[1], h>>
    BY <1>6 DEF forColumn, doubleForColumn, dateForColumn, Floating, Texts
  <2>2. v[1] # "DATE" => converted(v[1], o) = <<v[1], h>>
    BY <1>6 DEF converted, Floating, Texts
  <2>3. v[1] = "DATE" => converted(v[1], o) = <<v[1], toDate(o)>>
    BY <1>6 DEF converted, Floating, Texts
  <2>4. QED
    BY <1>1, <1>2, <1>6, <2>1, <2>2, <2>3
<1>7. CASE x = <<"real", h>>
  <2>1. ~columnIsNull(x) /\ column_double(x) = h
    BY <1>7 DEF columnIsNull, column_double, halves
  <2>2. o = <<"DOUBLE", h>>
    BY <1>4, <1>7, <2>1 DEF objectForColumn, doubleForColumn
  <2>3. toDouble(o) = h /\ toDate(o) = h
    BY <2>2 DEF toDouble, toDate, Integral, Floating, Texts
  <2>4. QED
    BY <1>3, <1>4, <1>6, <2>1, <2>3
<1>8. CASE x = <<"text", <<"real", h>>>>
  <2>1. ~columnIsNull(x) /\ column_double(x) = h /\ atof(<<"real", h>>) = h
    BY <1>8 DEF columnIsNull, column_double, atof
  <2>2. stringForColumn(x) = <<"real", h>>
    BY <1>8 DEF stringForColumn, asText, c_str
  <2>3. o = <<"STRING", <<"real", h>>>>
    BY <1>4, <1>8, <2>2 DEF objectForColumn
  <2>4. toDouble(o) = h /\ toDate(o) = h
    BY <2>1, <2>3 DEF toDouble, toDate, Integral, Floating, Texts
  <2>5. QED
    BY <1>3, <1>4, <1>6, <2>1, <2>4
<1>9. ASSUME NEW n \in SignedRange(LongMax), x = <<"int", n>>, 2 * n = h
      PROVE  /\ ~columnIsNull(x) /\ forColumn(v[1], x) = v
             /\ (v[1] = "DATE" /\ v[2] < 0 /\ x[1] = "int") \/ converted(v[1], o) = v
  <2>1. ~columnIsNull(x) /\ column_double(x) = h
    BY <1>9 DEF columnIsNull, column_double, halves
  <2>2. o = <<"LONGLONG", n>>
    BY <1>4, <1>9 DEF objectForColumn, longLongForColumn, column_int64
  <2>3. toDouble(o) = h
    BY <1>9, <2>2 DEF toDouble, Integral, Floating, Texts
  <2>4. toDate(o) = 2 * Unsigned(n, LongMax)
    BY <2>2 DEF toDate, Integral, Floating, Texts
  <2>5. h < 0 \/ Unsigned(n, LongMax) = n
    <3>1. h < 0 \/ n \in 0..LongMax
      BY <1>9, Ranges DEF SignedRange, Least
    <3>2. QED
      BY <3>1, Wraps, Ranges
  <2>6. QED
    BY <1>6, <1>9, <2>1, <2>3, <2>4, <2>5
<1>10. QED
  BY <1>3, <1>4, <1>5, <1>7, <1>8, <1>9

\* A text or blob comes back, unless it is one that ends early (a NUL, or no
\* byte at all) or a numeral in a numeric column; operator[] gives a STRING for
\* a C string too.
LEMMA ObjectReturns ==
    ASSUME NEW v \in Variants, v[1] \in Texts \union {"DATA"}, NEW aff \in AffinityKinds
    PROVE  LET x == applyAffinity(aff, bindObject(v)) IN
           /\ ~columnIsNull(x)
           /\ \/ v[1] \in Texts /\ v[2][1] = "nul"
              \/ v[1] \in Texts /\ v[2][1] \in {"int", "real"} /\ aff = "numeric"
              \/ /\ forColumn(v[1], x) = v
                 /\ v[1] \in Texts => converted("STRING", objectForColumn(x)) = <<"STRING", v[2]>>
                 /\ v[1] = "DATA" => converted(v[1], objectForColumn(x)) = v
<1>1. v = <<v[1], v[2]>>
  BY VariantIs
<1>2. PICK x : x = applyAffinity(aff, bindObject(v))
  OBVIOUS
<1>3. PICK o : o = objectForColumn(x)
  OBVIOUS
<1>4. ~columnIsNull(x)
  <2>1. bindObject(v) \in Cells /\ bindObject(v)[1] # "null"
    BY Bound DEF Texts
  <2>2. QED
    BY <1>2, <2>1, AffineCell DEF columnIsNull
<1>5. CASE v[1] \in Texts
  <2>1. PICK t \in AllTexts : t = v[2]
    BY <1>5, VariantIs
  <2>2. SUFFICES ASSUME t[1] # "nul", ~(t[1] \in {"int", "real"} /\ aff = "numeric")
                 PROVE  forColumn(v[1], x) = v /\ converted("STRING", o) = <<"STRING", t>>
    BY <1>2, <1>3, <1>4, <1>5, <2>1 DEF Texts
  <2>3. c_str(t) = t
    BY <2>2 DEF c_str
  <2>4. bindObject(v) = <<"text", t>> /\ <<"text", t>> \in Cells
    BY <1>5, <2>1, <2>3 DEF bindObject, Texts, Floating, Cells
  <2>5. x = <<"text", t>>
    <3>1. t[1] \in {"int", "real", "word", "nul"}
      BY TextIs
    <3>2. QED
      BY <1>2, <2>2, <2>4, <3>1, Affine DEF AffinityKinds
  <2>6. stringForColumn(x) = t
    BY <2>3, <2>5 DEF stringForColumn, asText
  <2>7. o = <<"STRING", t>>
    BY <1>3, <2>5, <2>6 DEF objectForColumn
  <2>8. toString(o) = t
    BY <2>7 DEF toString, Texts, Integral, Floating
  <2>9. forColumn(v[1], x) = <<v[1], t>>
    BY <1>5, <2>6 DEF forColumn, Texts
  <2>10. converted("STRING", o) = <<"STRING", t>>
    BY <2>8 DEF converted
  <2>11. QED
    BY <1>1, <2>1, <2>9, <2>10
<1>6. CASE v[1] = "DATA"
  <2>1. PICK b \in STRING : b = v[2]
    BY <1>6, VariantIs
  <2>2. bindObject(v) = <<"blob", b>> /\ <<"blob", b>> \in Cells
    BY <1>6, <2>1 DEF bindObject, Floating, Cells
  <2>3. x = <<"blob", b>>
    BY <1>2, <2>2, Affine DEF AffinityKinds
  <2>4. o = <<"DATA", b>>
    BY <1>3, <2>3 DEF objectForColumn, dataForColumn
  <2>5. forColumn(v[1], x) = <<v[1], b>> /\ converted(v[1], o) = <<v[1], b>>
    BY <1>6, <2>3, <2>4 DEF forColumn, converted, dataForColumn, Texts
  <2>6. QED
    BY <1>1, <1>2, <1>3, <1>4, <1>6, <2>1, <2>5 DEF Texts
<1>7. QED
  BY <1>5, <1>6

-------------------------------------------------------------------------------
(* The two ways to read a column.                                          *)

\* An accessor of FMResultSet and operator[] with a conversion of Variant
\* read the same number or string from any value of the engine.
LEMMA ReadsSame ==
    ASSUME NEW x \in Cells,
           NEW type \in {"INTEGER", "LONGLONG", "ULONGLONG", "DOUBLE", "STRING"},
           ~NoObject(x), convert(objectForColumn(x)[1], type),
           x[1] = "real" =>
               \/ type = "DOUBLE"
               \/ type = "INTEGER" /\ Truncated(x[2]) \in SignedRange(IntMax)
               \/ type \in {"LONGLONG", "ULONGLONG"} /\ Truncated(x[2]) \in SignedRange(LongMax)
    PROVE  forColumn(type, x) = converted(type, objectForColumn(x))
<1>0. x = <<x[1], x[2]>> /\ x[1] \in {"null", "int", "real", "text", "blob"}
  BY CellIs
<1>1. PICK o : o = objectForColumn(x)
  OBVIOUS
\* What either side reads.
<1>2. /\ type = "INTEGER" => /\ forColumn(type, x) = <<type, column_int(x)>>
                             /\ converted(type, o) = <<type, toInt(o)>>
      /\ type = "LONGLONG" => /\ forColumn(type, x) = <<type, column_int64(x)>>
                              /\ converted(type, o) = <<type, toLongLong(o)>>
      /\ type = "ULONGLONG" => /\ forColumn(type, x) = <<type, Unsigned(column_int64(x), LongMax)>>
                               /\ converted(type, o) = <<type, Unsigned(toLongLong(o), LongMax)>>
      /\ type = "DOUBLE" => /\ forColumn(type, x) = <<type, column_double(x)>>
                            /\ converted(type, o) = <<type, toDouble(o)>>
      /\ type = "STRING" => /\ forColumn(type, x) = <<type, stringForColumn(x)>>
                            /\ converted(type, o) = <<type, toString(o)>>
  BY DEF forColumn, converted, intForColumn, longLongForColumn, unsignedLongLongForColumn,
         doubleForColumn, toULongLong, Texts
<1>3. SUFFICES /\ type = "INTEGER" => column_int(x) = toInt(o)
               /\ type \in {"LONGLONG", "ULONGLONG"} => column_int64(x) = toLongLong(o)
               /\ type = "DOUBLE" => column_double(x) = toDouble(o)
               /\ type = "STRING" => stringForColumn(x) = toString(o)
  BY <1>1, <1>2
<1>4. CASE x[1] = "int"
  <2>1. PICK n \in SignedRange(LongMax) : x = <<"int", n>>
    BY <1>0, <1>4, CellIs
  <2>2. o = <<"LONGLONG", n>> /\ column_int64(x) = n
    BY <1>1, <2>1 DEF objectForColumn, longLongForColumn, column_int64
  <2>3. toInt(o) = Signed(n, IntMax) /\ toLongLong(o) = Signed(n, LongMax)
    BY <2>2 DEF toInt, toLongLong, toIntegral, Integral, Floating, Texts
  <2>4. Signed(n, LongMax) = n
    BY Wraps, Ranges
  <2>5. column_double(x) = 2 * n /\ toDouble(o) = 2 * n
    BY <2>1, <2>2 DEF column_double, halves, toDouble, Integral, Floating, Texts
  <2>6. stringForColumn(x) = <<"int", n>>
    BY <2>1 DEF stringForColumn, asText, c_str
  <2>7. toString(o) = <<"int", n>>
    BY <2>2 DEF toString, Texts, Integral, Floating
  <2>8. QED
    BY <2>2, <2>3, <2>4, <2>5, <2>6, <2>7 DEF column_int
<1>5. CASE x[1] = "real"
  <2>1. PICK h \in Int : x = <<"real", h>>
    BY <1>0, <1>5, CellIs
  <2>2. column_double(x) = h
    BY <2>1 DEF column_double, halves
  <2>3. o = <<"DOUBLE", h>>
    BY <1>1, <2>1, <2>2 DEF objectForColumn, doubleForColumn
  <2>4. toDouble(o) = h
    BY <2>3 DEF toDouble, Integral, Floating, Texts
  <2>5. toInt(o) = cast(h, IntMax) /\ toLongLong(o) = cast(h, LongMax)
    BY <2>3 DEF toInt, toLongLong, toIntegral, Integral, Floating, Texts
  <2>6. column_int64(x) = Clamped(Truncated(h), LongMax)
    BY <2>1, <2>2 DEF column_int64
  <2>7. PICK k \in Int : k = Truncated(h)
    BY Halves
  <2>8. k \in SignedRange(LongMax) => column_int64(x) = k /\ toLongLong(o) = k
    BY <2>5, <2>6, <2>7, Halves DEF cast
  <2>9. k \in SignedRange(IntMax) => column_int(x) = k /\ toInt(o) = k
    <3>1. k \in SignedRange(IntMax) => k \in SignedRange(LongMax) /\ Signed(k, IntMax) = k
      BY Wraps, Ranges
    <3>2. QED
      BY <2>5, <2>7, <2>8, <3>1 DEF column_int, cast
  <2>10. QED
    BY <1>5, <2>1, <2>2, <2>4, <2>7, <2>8, <2>9
<1>6. CASE x[1] = "text"
  <2>1. PICK t \in AllTexts : x = <<"text", t>>
    BY <1>0, <1>6, CellIs
  <2>2. stringForColumn(x) = c_str(t)
    BY <2>1 DEF stringForColumn, asText
  <2>3. o = <<"STRING", c_str(t)>>
    BY <1>1, <2>1, <2>2 DEF objectForColumn
  <2>4. atof(c_str(t)) = atof(t) /\ atof(t) \in Int
    BY TextIs DEF atof, c_str
  <2>5. column_double(x) = atof(t) /\ toDouble(o) = atof(t)
    BY <2>1, <2>3, <2>4 DEF column_double, toDouble, Integral, Floating, Texts
  <2>6. column_int64(x) = atoll(t) /\ atoll(c_str(t)) = atoll(t)
    BY <2>1, <2>4, <2>5 DEF column_int64, atoll
  <2>7. toInt(o) = Signed(atoll(t), IntMax) /\ toLongLong(o) = Signed(atoll(t), LongMax)
    BY <2>3, <2>6 DEF toInt, toLongLong, toIntegral, Integral, Floating, Texts
  <2>8. atoll(t) \in SignedRange(LongMax)
    BY <2>4, Halves DEF atoll
  <2>9. Signed(atoll(t), LongMax) = atoll(t)
    BY <2>8, Wraps, Ranges
  <2>10. toString(o) = c_str(t)
    BY <2>3 DEF toString, Texts, Integral, Floating
  <2>11. QED
    BY <2>2, <2>5, <2>6, <2>7, <2>9, <2>10 DEF column_int
<1>7. CASE x[1] = "blob"
  <2>1. o[1] = "DATA"
    BY <1>1, <1>7 DEF objectForColumn
  <2>2. QED
    BY <1>1, <2>1 DEF convert, Integral, Floating, Texts
<1>8. CASE x[1] = "null"
  BY <1>0, <1>8, CellIs DEF NoObject
<1>9. QED
  BY <1>0, <1>4, <1>5, <1>6, <1>7, <1>8

-------------------------------------------------------------------------------
(* Comparing in the engine.                                                *)

\* Two arguments of one type are bound as the same value only if they are
\* the same.
LEMMA BoundOnce ==
    ASSUME NEW v \in Variants, NEW w \in Variants, v[1] = w[1], bindObject(v) = bindObject(w)
    PROVE  v = w
<1>0. v = <<v[1], v[2]>> /\ w = <<w[1], w[2]>>
  BY VariantIs
<1>1. CASE v[1] \in Integral
  <2>1. forColumn(v[1], applyAffinity("none", bindObject(v))) = v
    BY <1>1, IntegerReturns DEF AffinityKinds
  <2>2. forColumn(w[1], applyAffinity("none", bindObject(w))) = w
    BY <1>1, IntegerReturns DEF AffinityKinds
  <2>3. QED
    BY <2>1, <2>2
<1>2. CASE v[1] \in Floating \union {"STRING", "DATA"}
  <2>1. bindObject(v)[2] = v[2] /\ bindObject(w)[2] = w[2]
    BY <1>2 DEF bindObject, Floating
  <2>2. QED
    BY <1>0, <2>1
<1>3. CASE v[1] = "CSTRING"
  <2>1. c_str(v[2]) = v[2] /\ c_str(w[2]) = w[2]
    BY <1>3, VariantIs, TextIs DEF c_str, AllTexts, CStrings
  <2>2. bindObject(v)[2] = v[2] /\ bindObject(w)[2] = w[2]
    BY <1>3, <2>1 DEF bindObject, Floating
  <2>3. QED
    BY <1>0, <2>2
<1>4. CASE v[1] = "NONE"
  BY <1>0, <1>4, VariantIs
<1>5. QED
  BY <1>1, <1>2, <1>3, <1>4, VariantIs DEF Types, Texts

\* A value that was stored equals one of the same type that it is compared
\* with exactly if they are the same; not so NULL, and not in general a text
\* in a numeric column.
LEMMA ComparesBound ==
    ASSUME NEW v \in Variants, NEW w \in Variants, v[1] = w[1], v[1] # "NONE",
           NEW aff \in AffinityKinds, v[1] \in Texts => aff # "numeric"
    PROVE  equal(applyAffinity(aff, bindObject(v)), applyAffinity(aff, bindObject(w))) <=> v = w
<1>1. PICK x \in Cells : x = bindObject(v)
  BY Bound
<1>2. PICK y \in Cells : y = bindObject(w)
  BY Bound
<1>3. x = y <=> v = w
  BY <1>1, <1>2, BoundOnce
<1>4. /\ x = <<x[1], x[2]>> /\ y = <<y[1], y[2]>> /\ x[1] = y[1]
      /\ x[1] \in {"int", "real", "text", "blob"}
      /\ x[1] \in {"int", "real"} => x[2] \in Int /\ y[2] \in Int
      /\ x[1] = "text" => v[1] \in Texts
  <2>1. x = <<x[1], x[2]>> /\ y = <<y[1], y[2]>> /\ x[1] # "null"
    BY <1>1, <1>2, CellIs, Bound
  <2>2. x[1] = y[1] /\ (x[1] = "text" => v[1] \in Texts)
    BY <1>1, <1>2, VariantIs DEF bindObject, Texts
  <2>3. x[1] \in {"int", "real"} => x[2] \in Int /\ y[2] \in Int
    BY <2>2, CellIs, Ranges
  <2>4. x[1] \in {"int", "real", "text", "blob"}
    BY <2>1, CellIs
  <2>5. QED
    BY <2>1, <2>2, <2>3, <2>4
<1>5. equal(x, y) <=> x = y
  BY <1>4 DEF equal, halves
<1>6. CASE aff = "none"
  BY <1>1, <1>2, <1>3, <1>5, <1>6, Affine
<1>7. CASE aff = "text"
  <2>1. CASE x[1] \in {"int", "real"}
    <3>1. applyAffinity(aff, x) = <<"text", x>> /\ applyAffinity(aff, y) = <<"text", y>>
      BY <1>4, <1>7, <2>1, Affine
    <3>2. equal(<<"text", x>>, <<"text", y>>) <=> <<"text", x>> = <<"text", y>>
      BY DEF equal
    <3>3. QED
      BY <1>1, <1>2, <1>3, <3>1, <3>2
  <2>2. CASE x[1] \notin {"int", "real"}
    BY <1>1, <1>2, <1>3, <1>4, <1>5, <1>7, <2>2, Affine
  <2>3. QED
    BY <2>1, <2>2
<1>8. CASE aff = "numeric"
  <2>1. CASE x[1] \in {"int", "blob"}
    BY <1>1, <1>2, <1>3, <1>4, <1>5, <1>8, <2>1, Affine
  <2>2. CASE x[1] = "real"
    <3>1. /\ applyAffinity(aff, x) = integerAffinity(x[2])
          /\ applyAffinity(aff, y) = integerAffinity(y[2])
      BY <1>4, <1>8, <2>2, Affine
    <3>2. ASSUME NEW h \in Int
          PROVE  /\ integerAffinity(h)[1] \in {"int", "real"}
                 /\ halves(integerAffinity(h)) = h
      BY IntegerAffinity DEF halves
    <3>3. equal(integerAffinity(x[2]), integerAffinity(y[2])) <=> x[2] = y[2]
      BY <1>4, <2>2, <3>2 DEF equal
    <3>4. QED
      BY <1>1, <1>2, <1>3, <1>4, <3>1, <3>3
  <2>3. QED
    BY <1>4, <1>8, <2>1, <2>2
<1>9. QED
  BY <1>6, <1>7, <1>8 DEF AffinityKinds
===============================================================================
