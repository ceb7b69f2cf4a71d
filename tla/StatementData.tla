---------------------------- MODULE StatementData -----------------------------
(***************************************************************************)
(* The data of a statement: arguments bound to parameters, the memory they *)
(* are bound in, the row they are stored in and found by, and the columns  *)
(* of a result set by index and by name.                                   *)
(*                                                                         *)
(* One table with two columns that parameters go to, and two statements:   *)
(*    an update  replace into t (id, a, b) values (1, ?, ?)                *)
(*    a query    select b as A, * from t where a = ? and b = ? and f()     *)
(* f being true if it is what was last given to makeFunctionNamed.         *)
(***************************************************************************)
EXTENDS Conversions, Sequences

CONSTANTS
    Affinities,  \* the declared types that the two columns may have
    Arguments,   \* pairs of arguments: Variants, and how each is passed
    Alias,       \* the query's name for its first column
    TableNames,  \* the table's column names, as they are after addColumn
    Garbage,     \* what memory may hold once it has been freed
    Careful      \* does the client keep to what works (see Kept)?

ASSUME AffinityAssumption == Affinities \subseteq [1..2 -> {"none", "numeric", "text"}]
ASSUME ArgumentAssumption ==
    \A args \in Arguments :
        /\ args \in Seq([how : {"plain", "variant"}, v : Variants])
        /\ Len(args) = 2
ASSUME NameAssumption ==
    /\ Alias \in [text : STRING, upper : BOOLEAN]
    /\ TableNames \in Seq([text : STRING, upper : BOOLEAN])
    /\ Len(TableNames) = 3
ASSUME CarefulAssumption == Careful \in BOOLEAN

VARIABLES
    affinity,   \* of the two columns: never changes
    columns,    \* how many columns the table has
    function,   \* where the registered function is: nowhere, alive or gone
    stored,     \* the row, or <<>>
    inserted,   \* history: the arguments that the row was stored from
    phase,      \* no result set, an open one, one on a row
    slots,      \* the query's parameters: their value, and where it is
    asked,      \* history: the arguments of the query
    prepared,   \* how many of the table's columns the query was compiled for
    map         \* _columnNameToIndexMap: names to indices

resultSet == <<phase, slots, asked, prepared, map>>
vars == <<affinity, columns, function, stored, inserted, resultSet>>

Phases == {"closed", "open", "row"}
Places == {"engine", "caller", "call", "freed"}
NoArguments == <<>>

TypeOK ==
    /\ affinity \in Affinities
    /\ columns \in 2..3
    /\ function \in {"none", "alive", "gone"}
    /\ {inserted, asked} \subseteq Arguments \union {NoArguments}
    /\ Len(stored) = Len(inserted)
    /\ phase \in Phases
    /\ \A i \in DOMAIN slots : slots[i].place \in Places
    /\ Len(slots) = Len(asked)
    /\ (phase = "closed") = (asked = NoArguments)
    /\ prepared \in 2..columns
    /\ \A name \in DOMAIN map : map[name] \in 0..prepared

Init ==
    /\ affinity \in Affinities
    /\ columns = 2
    /\ function = "none"
    /\ stored = <<>>
    /\ inserted = NoArguments
    /\ phase = "closed"
    /\ slots = <<>>
    /\ asked = NoArguments
    /\ prepared = 2
    /\ map = <<>>

-------------------------------------------------------------------------------
(* Binding: values and the memory they are in.                             *)

\* Numbers are in the engine.  Texts and blobs stay where they are, for they
\* are bound with SQLITE_STATIC: a C string with the caller; a string or Data
\* in the Variant that bindObject is given.  It makes one of a plain argument
\* and destroys it when it returns.  An argument that is a Variant is used
\* itself: the first one in the frame of executeUpdate or executeQuery, the
\* others in frames of bindObjects, left before the statement is stepped.
boundIn(arg, n) ==
    CASE arg.v[1] = "CSTRING" -> "caller"
      [] arg.v[1] \in Objects /\ arg.how = "variant" /\ n = 1 -> "call"
      [] arg.v[1] \in Objects /\ ~(arg.how = "variant" /\ n = 1) -> "freed"
      [] OTHER -> "engine"

\* bindObjects<1>, its recursion unrolled.
bindObjects(args) ==
    [n \in 1..2 |-> [value |-> bindObject(args[n].v), place |-> boundIn(args[n], n)]]

\* What sqlite3_step may find in a parameter.
Contents(slot) == IF slot.place = "freed" THEN {slot.value, Garbage} ELSE {slot.value}

\* A client that is careful passes strings and Data only where they live
\* until the statement has been stepped: as the first argument of an update,
\* in a Variant.
Kept(kind, args) ==
    Careful =>
        \A n \in 1..2 : args[n].v[1] \in Objects =>
            kind = "update" /\ n = 1 /\ args[n].how = "variant"

-------------------------------------------------------------------------------
(* The operations of FMDatabase.                                           *)

\* executeUpdate binds, steps and resets or finalizes in one call, and stores
\* what the step finds.  Not while the result set is on the row it replaces.
executeUpdate ==
    /\ phase # "row"
    /\ \E args \in Arguments :
        /\ Kept("update", args)
        /\ inserted' = args
        /\ LET bound == bindObjects(args) IN
           \E x \in Contents(bound[1]), y \in Contents(bound[2]) :
               stored' = <<applyAffinity(affinity[1], x), applyAffinity(affinity[2], y)>>
    /\ UNCHANGED <<affinity, columns, function, resultSet>>

\* Mutant: C strings are copied into the frame of executeQuery.
returned_CStringsToo(slot) ==
    IF slot.place \in {"call", "caller"} THEN [slot EXCEPT !.place = "freed"] ELSE slot

\* When executeQuery returns, so does the frame that its arguments were in.
returned(slot) == IF slot.place = "call" THEN [slot EXCEPT !.place = "freed"] ELSE slot

\* Mutant: the map outlives the result set, as if the statement kept it.
newMap_Kept == map

\* A new FMResultSet has an empty map.
newMap == <<>>

\* executeQuery prepares, binds and opens a result set; it does not step.
executeQuery ==
    /\ phase = "closed"
    /\ \E args \in Arguments :
        /\ Kept("query", args)
        /\ asked' = args
        /\ LET bound == bindObjects(args) IN
           slots' = [n \in 1..2 |-> returned(bound[n])]
    /\ phase' = "open"
    /\ prepared' = columns
    /\ map' = newMap
    /\ UNCHANGED <<affinity, columns, function, stored, inserted>>

\* FMDBBlockSQLiteCallBackFunction is given the address of the caller's
\* std::function, which a careful client keeps.
makeFunctionNamed ==
    /\ phase = "closed"
    /\ \E place \in {"alive", "gone"} :
        /\ place = "gone" => ~Careful
        /\ function' = place
    /\ UNCHANGED <<affinity, columns, stored, inserted, resultSet>>

\* alter table t add column, through executeUpdate.
addColumn ==
    /\ columns < Len(TableNames)
    /\ columns' = columns + 1
    /\ UNCHANGED <<affinity, function, stored, inserted, resultSet>>

-------------------------------------------------------------------------------
(* The operations of FMResultSet.                                          *)

\* Mutant: the result set stays on its statement.
Closed_KeepsStatement ==
    /\ phase' = "closed"
    /\ map' = newMap
    /\ UNCHANGED <<slots, asked, prepared>>

\* close: the statement is reset, the result set forgets it.
Closed ==
    /\ phase' = "closed"
    /\ slots' = <<>>
    /\ asked' = NoArguments
    /\ map' = newMap
    /\ UNCHANGED prepared

\* The parameters select the row.  A function that is gone says anything.
Selects(x, y) ==
    /\ stored # <<>>
    /\ equal(stored[1], applyAffinity(affinity[1], x))
    /\ equal(stored[2], applyAffinity(affinity[2], y))

Finds(x, y) == IF function = "gone" THEN {Selects(x, y), FALSE} ELSE {Selects(x, y)}

\* next: the first step compiles the query again if the schema has changed;
\* on a row the only other step is to the end, where the set is closed.
next ==
    /\ phase # "closed"
    /\ \E x \in Contents(slots[1]), y \in Contents(slots[2]) :
       \E found \in Finds(x, y) :
        IF phase = "open" /\ found
        THEN /\ phase' = "row"
             /\ prepared' = columns
             /\ UNCHANGED <<slots, asked, map>>
        ELSE Closed
    /\ UNCHANGED <<affinity, columns, function, stored, inserted>>

close ==
    /\ phase # "closed"
    /\ Closed
    /\ UNCHANGED <<affinity, columns, function, stored, inserted>>

tolower(name) == [name EXCEPT !.upper = FALSE]

\* sqlite3_column_name, for the indices 0, 1, ...
columnNames == <<Alias>> \o SubSeq(TableNames, 1, prepared)

\* emplace keeps the entry that is there.
firstIndex(name) ==
    CHOOSE i \in 0..prepared :
        /\ tolower(columnNames[i + 1]) = name
        /\ \A j \in 0..i - 1 : tolower(columnNames[j + 1]) # name

\* columnNameToIndexMap fills the map if it is empty.
columnNameToIndexMap ==
    IF DOMAIN map # {} THEN map
    ELSE [name \in {tolower(columnNames[i]) : i \in DOMAIN columnNames} |-> firstIndex(name)]

columnIndexForName(name) ==
    IF tolower(name) \in DOMAIN columnNameToIndexMap
    THEN columnNameToIndexMap[tolower(name)]
    ELSE -1

\* Any accessor by name fills the map; a careful client waits for a row.
accessByName ==
    /\ phase # "closed"
    /\ phase = "open" => ~Careful
    /\ map' = columnNameToIndexMap
    /\ UNCHANGED <<affinity, columns, function, stored, inserted, phase, slots, asked, prepared>>

Next ==
    \/ executeUpdate \/ executeQuery \/ makeFunctionNamed \/ addColumn
    \/ next \/ close \/ accessByName

Spec == Init /\ [][Next]_vars

-------------------------------------------------------------------------------
(* Properties.                                                             *)

\* A value that bindObject or an accessor cannot carry: an empty blob or a
\* string with a NUL in it comes back as less than it was, and a column of
\* numeric affinity makes a number of a string that reads as one.
Lossy(v, aff) ==
    \/ v = <<"DATA", "">>
    \/ v[1] \in Texts /\ v[2][1] = "nul"
    \/ v[1] \in Texts /\ v[2][1] \in {"int", "real"} /\ aff = "numeric"

\* Dates before 1970 that a numeric column holds as integers: toDate reads
\* those as unsigned.
EarlyDate(v, x) == v[1] = "DATE" /\ v[2] < 0 /\ x[1] = "int"

\* operator[] holds a text as a STRING, of which toCString does not return the
\* text: what was given as a C string can only be read with toString.
Readable(v) == IF v[1] = "CSTRING" THEN <<"STRING", v[2]>> ELSE v

\* What an update was given comes back: the accessor for its type returns it,
\* and so does operator[] followed by the conversion to its type (of a C string
\* to STRING, never to CSTRING), whatever the affinity of the column, for every
\* type and at the ends of its range (bindObject, FMResultSet's accessors,
\* Variant's conversions), but for the values above.
RoundTrip ==
    \A i \in DOMAIN stored :
        LET v == inserted[i].v
            x == stored[i]
        IN  /\ columnIsNull(x) <=> v[1] = "NONE"
            /\ ~columnIsNull(x) /\ ~Lossy(v, affinity[i])
                => /\ forColumn(v[1], x) = v
                   /\ \/ EarlyDate(v, x)
                      \/ converted(Readable(v)[1], objectForColumn(x)) = Readable(v)

\* The two ways to read a column agree: an accessor of FMResultSet, and
\* operator[] with a conversion of Variant, written independently of it; for
\* numbers within the range of the type and, as a string, unless it is a
\* real (operator[] does not work on what NoObject describes).
ReadsAgree ==
    \A i \in DOMAIN stored :
        LET x == stored[i] IN
        \A type \in {"INTEGER", "LONGLONG", "ULONGLONG", "DOUBLE", "STRING"} :
            /\ ~NoObject(x)
            /\ convert(objectForColumn(x)[1], type)
            /\ x[1] = "real" =>
                  \/ type = "DOUBLE"
                  \/ type = "INTEGER" /\ Truncated(x[2]) \in SignedRange(IntMax)
                  \/ type \in {"LONGLONG", "ULONGLONG"} /\ Truncated(x[2]) \in SignedRange(LongMax)
            => forColumn(type, x) = converted(type, objectForColumn(x))

Values(args) == [i \in 1..2 |-> args[i].v]
SameTypes(a, b) == \A i \in 1..2 : a[i].v[1] = b[i].v[1]

\* A query finds the row exactly if it is given what the row was stored from:
\* a comparison with arguments of the same types, of which none is NULL and
\* none a string in a column that makes numbers of strings (next, with what
\* executeQuery bound; the registered function must still be there).
QueryFindsItsRow ==
    [][ /\ next
        /\ phase = "open"
        /\ stored # <<>>
        /\ SameTypes(asked, inserted)
        /\ \A i \in 1..2 : asked[i].v[1] # "NONE"
        /\ \A i \in 1..2 : asked[i].v[1] \in Texts => affinity[i] # "numeric"
        => (phase' = "row") = (Values(asked) = Values(inserted)) ]_vars

\* On a row, columnIndexForName finds the first column whose name differs
\* from the one it is given in case only, and no other; the map behind it is
\* from before or after any number of other lookups, queries and changes of
\* the schema.
NamesFindColumns ==
    phase = "row" =>
        \A name \in {Alias} \union {TableNames[i] : i \in DOMAIN TableNames} :
            LET hits == {i \in 0..prepared : tolower(columnNames[i + 1]) = tolower(name)}
                found == columnIndexForName(name)
            IN  IF hits = {} THEN found = -1
                ELSE found \in hits /\ \A i \in hits : found <= i

===============================================================================
