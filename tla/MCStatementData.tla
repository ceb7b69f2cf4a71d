--------------------------- MODULE MCStatementData ---------------------------
(* Values at the ends of every range, and texts, for TLC.                  *)
EXTENDS StatementData

Numbers ==
    {<<"BOOLEAN", 0>>, <<"BOOLEAN", 1>>, <<"CHAR", Least(CharMax)>>, <<"CHAR", 1>>,
     <<"BYTE", 2 * CharMax + 1>>, <<"INTEGER", Least(IntMax)>>, <<"INTEGER", -1>>,
     <<"INTEGER", IntMax>>, <<"UINTEGER", 1>>, <<"UINTEGER", 2 * IntMax + 1>>,
     <<"LONGLONG", Least(LongMax)>>, <<"LONGLONG", LongMax>>,
     <<"ULONGLONG", 2 * LongMax + 1>>, <<"ULONGLONG", 2 * IntMax + 2>>}
\* Halves: -1/2, 1, the largest long long, and one that no integer type holds.
Floats == {<<"FLOAT", -1>>, <<"FLOAT", 2>>, <<"DOUBLE", 2>>, <<"DOUBLE", -3>>,
           <<"DOUBLE", 2 * LongMax>>, <<"DOUBLE", 4 * LongMax + 5>>}
Dates == {<<"DATE", -2>>, <<"DATE", -1>>, <<"DATE", 4>>}
Words ==
    {<<"int", 0>>, <<"int", 2 * IntMax - 2>>, <<"int", 2 * LongMax + 5>>, <<"real", 3>>,
     <<"real", 4>>, <<"word", "">>, <<"word", "false">>, <<"word", "w">>}
Strings == {<<type, t>> : type \in Texts, t \in Words} \union {<<"STRING", <<"nul", "w">>>>}
Blobs == {<<"DATA", "">>, <<"DATA", "b">>}
Plain(v) == [how |-> "plain", v |-> v]
One == Plain(<<"INTEGER", 1>>)
Singles ==
    {Plain(v) : v \in Numbers \union Floats \union Dates \union Strings \union Blobs
                        \union {<<"NONE", 0>>}}
    \union {[how |-> "variant", v |-> v] : v \in Strings \union Blobs}

\* Each value as the first and as the second argument.
Pairs == {<<a, One>> : a \in Singles} \union {<<One, a>> : a \in Singles}

\* Each affinity in each place.
ThreeAffinities == {<<"none", "numeric">>, <<"numeric", "text">>, <<"text", "none">>}
FreedMemory == <<"text", <<"word", "?">>>>

Name(text, upper) == [text |-> text, upper |-> upper]
AliasA == Name("a", TRUE)
TwoAndOneMore == <<Name("a", FALSE), Name("b", TRUE), Name("c", FALSE)>>
===============================================================================
