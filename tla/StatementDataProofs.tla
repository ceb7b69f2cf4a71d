------------------------- MODULE StatementDataProofs --------------------------
(***************************************************************************)
(* StatementData, for any columns and arguments and every width of the     *)
(* integer types.  What the row and the parameters hold is what was bound, *)
(* as long as the client is careful; the conversions do the rest.          *)
(***************************************************************************)
EXTENDS StatementData, ConversionsProofs, SequenceTheorems

\* The map that columnNameToIndexMap fills for the present statement.
FullMap == [name \in {tolower(columnNames[i]) : i \in DOMAIN columnNames} |-> firstIndex(name)]

\* The row holds what the update was given, bound and converted by affinity.
RowHolds ==
    stored # <<>> =>
        /\ inserted \in Arguments /\ DOMAIN stored = 1..2
        /\ \A n \in 1..2 : stored[n] = applyAffinity(affinity[n], bindObject(inserted[n].v))

\* The parameters hold what the query was given, in memory that lasts.
SlotsHold ==
    phase # "closed" =>
        /\ asked \in Arguments
        /\ \A n \in 1..2 : /\ slots[n].value = bindObject(asked[n].v)
                           /\ slots[n].place \in {"engine", "caller"}

\* The map is empty or that of the statement as it is now.
MapFits == DOMAIN map = {} \/ (phase = "row" /\ map = FullMap)

\* What a careful client can rely on.
CarefulInv ==
    Careful => RowHolds /\ SlotsHold /\ MapFits /\ function # "gone"

\* The inductive invariant.
Inv == TypeOK /\ CarefulInv

-------------------------------------------------------------------------------
(* Names.                                                                  *)

\* Every column of the statement has a name.
LEMMA ColumnNames ==
    ASSUME TypeOK
    PROVE  prepared \in 2..3 /\ DOMAIN columnNames = 1..(prepared + 1)
<1>1. prepared \in 2..3
  BY DEF TypeOK
<1>2. PICK p \in 2..3 : p = prepared
  BY <1>1
<1>3. PICK S : TableNames \in Seq(S) /\ Alias \in S
  BY NameAssumption
<1>4. SubSeq(TableNames, 1, p) \in Seq(S) /\ Len(SubSeq(TableNames, 1, p)) = p
  <2>1. \A i \in 1..p : TableNames[i] \in S
    BY <1>3, NameAssumption
  <2>2. QED
    BY <2>1, SubSeqProperties
<1>5. Len(<<Alias>> \o SubSeq(TableNames, 1, p)) = p + 1 /\ <<Alias>> \o SubSeq(TableNames, 1, p) \in Seq(S)
  BY <1>3, <1>4
<1>6. DOMAIN (<<Alias>> \o SubSeq(TableNames, 1, p)) = 1..(p + 1)
  BY <1>5
<1>7. QED
  BY <1>1, <1>2, <1>6 DEF columnNames

\* firstIndex finds the first column of that name.
LEMMA FirstIndex ==
    ASSUME TypeOK, NEW name, \E i \in 0..prepared : tolower(columnNames[i + 1]) = name
    PROVE  /\ firstIndex(name) \in 0..prepared
           /\ tolower(columnNames[firstIndex(name) + 1]) = name
           /\ \A j \in 0..(firstIndex(name) - 1) : tolower(columnNames[j + 1]) # name
<1> DEFINE P(i) == tolower(columnNames[i + 1]) = name
<1> HIDE DEF P
<1>0. prepared \in 2..3
  BY ColumnNames
<1>1. \E i \in 0..prepared : P(i)
  BY DEF P
<1>2. \E i \in 0..prepared : P(i) /\ \A j \in 0..(i - 1) : ~P(j)
  <2>1. CASE P(0)
    BY <1>0, <2>1
  <2>2. CASE ~P(0) /\ P(1)
    BY <1>0, <2>2
  <2>3. CASE ~P(0) /\ ~P(1) /\ P(2)
    BY <1>0, <2>3
  <2>4. CASE ~P(0) /\ ~P(1) /\ ~P(2)
    BY <1>0, <1>1, <2>4
  <2>5. QED
    BY <2>1, <2>2, <2>3, <2>4
<1>3. firstIndex(name) = CHOOSE i \in 0..prepared : P(i) /\ \A j \in 0..(i - 1) : ~P(j)
  BY DEF firstIndex, P
<1>4. /\ firstIndex(name) \in 0..prepared /\ P(firstIndex(name))
      /\ \A j \in 0..(firstIndex(name) - 1) : ~P(j)
  BY <1>2, <1>3
<1>5. QED
  BY <1>4 DEF P

\* The names in the map are those of columns.
LEMMA MapNames ==
    ASSUME TypeOK, NEW name
    PROVE  name \in DOMAIN FullMap <=> \E i \in 0..prepared : tolower(columnNames[i + 1]) = name
<1>1. prepared \in 2..3 /\ DOMAIN columnNames = 1..(prepared + 1)
  BY ColumnNames
<1>2. name \in DOMAIN FullMap <=> \E i \in 1..(prepared + 1) : tolower(columnNames[i]) = name
  BY <1>1 DEF FullMap
<1>3. \A i \in 1..(prepared + 1) : i - 1 \in 0..prepared /\ (i - 1) + 1 = i
  BY <1>1
<1>4. \A i \in 0..prepared : i + 1 \in 1..(prepared + 1)
  BY <1>1
<1>5. QED
  BY <1>2, <1>3, <1>4

\* The map gives indices of columns.
LEMMA MapValues ==
    ASSUME TypeOK
    PROVE  \A name \in DOMAIN columnNameToIndexMap : columnNameToIndexMap[name] \in 0..prepared
<1>1. \A name \in DOMAIN FullMap : FullMap[name] = firstIndex(name)
  BY DEF FullMap
<1>2. \A name \in DOMAIN FullMap : FullMap[name] \in 0..prepared
  BY <1>1, MapNames, FirstIndex
<1>3. columnNameToIndexMap \in {map, FullMap}
  BY DEF columnNameToIndexMap, FullMap
<1>4. \A name \in DOMAIN map : map[name] \in 0..prepared
  BY DEF TypeOK
<1>5. QED
  BY <1>2, <1>3, <1>4

\* A lookup on a row, from the invariant.
LEMMA Lookup ==
    ASSUME Inv, Careful, phase = "row"
    PROVE  NamesFindColumns
<1>0. TypeOK /\ prepared \in 2..3
  BY ColumnNames DEF Inv
<1>1. columnNameToIndexMap = FullMap
  BY DEF Inv, CarefulInv, MapFits, columnNameToIndexMap, FullMap
<1>2. ASSUME NEW name
      PROVE  LET hits == {i \in 0..prepared : tolower(columnNames[i + 1]) = tolower(name)}
                 found == columnIndexForName(name)
             IN  IF hits = {} THEN found = -1
                 ELSE found \in hits /\ \A i \in hits : found <= i
  <2> DEFINE hits == {i \in 0..prepared : tolower(columnNames[i + 1]) = tolower(name)}
  <2>1. CASE hits = {}
    <3>1. tolower(name) \notin DOMAIN FullMap
      BY <1>0, <2>1, MapNames
    <3>2. columnIndexForName(name) = -1
      BY <1>1, <3>1 DEF columnIndexForName
    <3>3. QED
      BY <2>1, <3>2
  <2>2. CASE hits # {}
    <3>1. \E i \in 0..prepared : tolower(columnNames[i + 1]) = tolower(name)
      BY <2>2
    <3>2. tolower(name) \in DOMAIN FullMap
      BY <1>0, <3>1, MapNames
    <3>3. columnIndexForName(name) = firstIndex(tolower(name))
      BY <1>1, <3>2 DEF columnIndexForName, FullMap
    <3>4. PICK f : f = firstIndex(tolower(name))
      OBVIOUS
    <3>5. /\ f \in 0..prepared /\ tolower(columnNames[f + 1]) = tolower(name)
          /\ \A j \in 0..(f - 1) : tolower(columnNames[j + 1]) # tolower(name)
      BY <1>0, <3>1, <3>4, FirstIndex
    <3>6. f \in hits
      BY <3>5
    <3>7. ASSUME NEW i \in hits PROVE f <= i
      <4>1. i \in 0..prepared /\ tolower(columnNames[i + 1]) = tolower(name)
        OBVIOUS
      <4>2. i \notin 0..(f - 1)
        BY <3>5, <4>1
      <4>3. QED
        BY <1>0, <3>5, <4>1, <4>2
    <3>8. QED
      BY <2>2, <3>3, <3>4, <3>6, <3>7
  <2>3. QED
    BY <2>1, <2>2
<1>3. QED
  BY <1>2 DEF NamesFindColumns

-------------------------------------------------------------------------------
(* Arguments.                                                              *)

LEMMA ArgumentIs ==
    ASSUME NEW args \in Arguments
    PROVE  /\ Len(args) = 2 /\ args # NoArguments
           /\ \A n \in 1..2 : args[n].v \in Variants /\ args[n].how \in {"plain", "variant"}
<1>1. args \in Seq([how : {"plain", "variant"}, v : Variants]) /\ Len(args) = 2
  BY ArgumentAssumption
<1>2. args # <<>>
  BY <1>1
<1>3. ASSUME NEW n \in 1..2
      PROVE  args[n].v \in Variants /\ args[n].how \in {"plain", "variant"}
  <2>1. PICK S : S = [how : {"plain", "variant"}, v : Variants]
    OBVIOUS
  <2>2. args \in Seq(S) /\ n \in 1..Len(args)
    BY <1>1, <2>1
  <2>3. args[n] \in S
    BY <2>2, ElementOfSeq
  <2>4. QED
    BY <2>1, <2>3
<1>4. QED
  BY <1>1, <1>2, <1>3 DEF NoArguments

\* What is bound, and where it is: with a careful client never in memory that
\* is freed before the step, and for a query not even in the call's frame.
LEMMA BoundSafely ==
    ASSUME NEW args \in Arguments, NEW n \in 1..2, NEW kind \in {"update", "query"}
    PROVE  LET bound == bindObjects(args) IN
           /\ bound[n].value = bindObject(args[n].v) /\ bound[n].place \in Places
           /\ Careful /\ Kept(kind, args) =>
                bound[n].place # "freed" /\ (kind = "query" => bound[n].place \in {"engine", "caller"})
<1>1. PICK arg : arg = args[n]
  OBVIOUS
<1>2. bindObjects(args)[n] = [value |-> bindObject(arg.v), place |-> boundIn(arg, n)]
  BY <1>1 DEF bindObjects
<1>3. arg.v[1] \in Types
  BY <1>1, ArgumentIs, VariantIs
<1>4. /\ arg.v[1] \notin Objects => boundIn(arg, n) \in {"engine", "caller"}
      /\ arg.v[1] \in Objects /\ arg.how = "variant" /\ n = 1 => boundIn(arg, n) = "call"
      /\ arg.v[1] \in Objects /\ ~(arg.how = "variant" /\ n = 1) => boundIn(arg, n) = "freed"
  BY DEF boundIn, Objects
<1>5. boundIn(arg, n) \in Places
  BY <1>4 DEF Places
<1>6. ASSUME Careful, Kept(kind, args), arg.v[1] \in Objects
      PROVE  kind = "update" /\ n = 1 /\ arg.how = "variant"
  BY <1>1, <1>6 DEF Kept
<1>7. QED
  BY <1>1, <1>2, <1>4, <1>5, <1>6

-------------------------------------------------------------------------------
(* Steps.                                                                  *)

LEMMA UpdateStep ==
    ASSUME Inv, executeUpdate
    PROVE  Inv'
<1>1. PICK args \in Arguments :
        /\ Kept("update", args) /\ inserted' = args
        /\ LET bound == bindObjects(args) IN
           \E x \in Contents(bound[1]), y \in Contents(bound[2]) :
               stored' = <<applyAffinity(affinity[1], x), applyAffinity(affinity[2], y)>>
  BY DEF executeUpdate
<1>2. PICK bound : bound = bindObjects(args)
  OBVIOUS
<1>3. PICK x \in Contents(bound[1]), y \in Contents(bound[2]) :
        stored' = <<applyAffinity(affinity[1], x), applyAffinity(affinity[2], y)>>
  BY <1>1, <1>2
<1>4. UNCHANGED <<affinity, columns, function, phase, slots, asked, prepared, map>>
  BY DEF executeUpdate, resultSet
<1>5. TypeOK'
  <2>1. Len(stored') = Len(inserted')
    BY <1>1, <1>3, ArgumentIs
  <2>2. QED
    BY <1>1, <1>4, <2>1 DEF Inv, TypeOK
<1>6. ASSUME Careful PROVE RowHolds'
  <2>1. x = bindObject(args[1].v) /\ y = bindObject(args[2].v)
    <3>1. /\ bound[1].value = bindObject(args[1].v) /\ bound[1].place # "freed"
          /\ bound[2].value = bindObject(args[2].v) /\ bound[2].place # "freed"
      BY <1>1, <1>2, <1>6, BoundSafely
    <3>2. QED
      BY <1>3, <3>1 DEF Contents
  <2>2. /\ stored'[1] = applyAffinity(affinity[1], x) /\ stored'[2] = applyAffinity(affinity[2], y)
        /\ DOMAIN stored' = 1..2
    BY <1>3
  <2>3. QED
    BY <1>1, <1>4, <2>1, <2>2 DEF RowHolds
<1>7. ASSUME Careful PROVE (SlotsHold /\ MapFits /\ function # "gone")'
  <2>1. FullMap' = FullMap
    BY <1>4 DEF FullMap, columnNames, firstIndex
  <2>2. QED
    BY <1>4, <1>7, <2>1 DEF Inv, CarefulInv, SlotsHold, MapFits
<1>8. QED
  BY <1>5, <1>6, <1>7 DEF Inv, CarefulInv

LEMMA QueryStep ==
    ASSUME Inv, executeQuery
    PROVE  Inv'
<1>1. PICK args \in Arguments :
        /\ Kept("query", args) /\ asked' = args
        /\ LET bound == bindObjects(args) IN slots' = [n \in 1..2 |-> returned(bound[n])]
  BY DEF executeQuery
<1>2. PICK bound : bound = bindObjects(args)
  OBVIOUS
<1>3. slots' = [n \in 1..2 |-> returned(bound[n])]
  BY <1>1, <1>2
<1>4. /\ UNCHANGED <<affinity, columns, function, stored, inserted>>
      /\ phase = "closed" /\ phase' = "open" /\ prepared' = columns /\ map' = <<>>
  BY DEF executeQuery, newMap
<1>5. \A n \in 1..2 : bound[n] = [value |-> bindObject(args[n].v), place |-> boundIn(args[n], n)]
  BY <1>2 DEF bindObjects
<1>6. ASSUME NEW n \in 1..2
      PROVE  /\ slots'[n].value = bindObject(args[n].v) /\ slots'[n].place \in Places
             /\ Careful => slots'[n].place \in {"engine", "caller"}
  <2>1. /\ bound[n].value = bindObject(args[n].v) /\ bound[n].place \in Places
        /\ Careful => bound[n].place \in {"engine", "caller"}
    BY <1>1, <1>2, BoundSafely
  <2>2. slots'[n] = returned(bound[n])
    BY <1>3
  <2>3. CASE bound[n].place = "call"
    BY <1>5, <2>1, <2>2, <2>3 DEF returned, Places
  <2>4. CASE bound[n].place # "call"
    BY <2>1, <2>2, <2>4 DEF returned
  <2>5. QED
    BY <2>3, <2>4
<1>7. DOMAIN map' = {}
  BY <1>4
<1>8. TypeOK'
  <2>1. Len(slots') = 2 /\ DOMAIN slots' = 1..2
    BY <1>3
  <2>2. Len(slots') = Len(asked') /\ asked' # NoArguments
    BY <1>1, <2>1, ArgumentIs
  <2>3. QED
    BY <1>1, <1>4, <1>6, <1>7, <2>1, <2>2 DEF Inv, TypeOK, Phases
<1>9. ASSUME Careful PROVE (RowHolds /\ SlotsHold /\ MapFits /\ function # "gone")'
  <2>1. RowHolds'
    BY <1>4, <1>9 DEF Inv, CarefulInv, RowHolds
  <2>2. SlotsHold'
    BY <1>1, <1>6, <1>9 DEF SlotsHold
  <2>3. QED
    BY <1>4, <1>7, <1>9, <2>1, <2>2 DEF Inv, CarefulInv, MapFits
<1>10. QED
  BY <1>8, <1>9 DEF Inv, CarefulInv

\* Registering a function, and a change of the schema.
LEMMA SchemaStep ==
    ASSUME Inv, makeFunctionNamed \/ addColumn
    PROVE  Inv'
<1>1. /\ UNCHANGED <<affinity, stored, inserted, phase, slots, asked, prepared, map>>
      /\ columns' \in {columns, columns + 1} /\ columns' <= 3
      /\ function' \in {"none", "alive", "gone"} /\ (Careful => function' # "gone")
  BY NameAssumption DEF makeFunctionNamed, addColumn, resultSet, Inv, TypeOK, CarefulInv
<1>2. TypeOK'
  BY <1>1 DEF Inv, TypeOK
<1>3. FullMap' = FullMap
  BY <1>1 DEF FullMap, columnNames, firstIndex
<1>4. CarefulInv'
  BY <1>1, <1>3 DEF Inv, CarefulInv, RowHolds, SlotsHold, MapFits
<1>5. QED
  BY <1>2, <1>4 DEF Inv

\* The result set is closed, by close or at the end of the rows.
LEMMA CloseStep ==
    ASSUME Inv, Closed, UNCHANGED <<affinity, columns, function, stored, inserted>>
    PROVE  Inv'
<1>1. /\ phase' = "closed" /\ slots' = <<>> /\ asked' = NoArguments /\ map' = <<>>
      /\ prepared' = prepared
  BY DEF Closed, newMap
<1>2. DOMAIN map' = {} /\ DOMAIN slots' = {} /\ Len(slots') = Len(asked')
  BY <1>1 DEF NoArguments
<1>3. TypeOK'
  BY <1>1, <1>2 DEF Inv, TypeOK, Phases
<1>4. CarefulInv'
  BY <1>1, <1>2 DEF Inv, CarefulInv, RowHolds, SlotsHold, MapFits
<1>5. QED
  BY <1>3, <1>4 DEF Inv

LEMMA NextStep ==
    ASSUME Inv, next
    PROVE  Inv'
<1>1. UNCHANGED <<affinity, columns, function, stored, inserted>>
  BY DEF next
<1>2. \/ Closed
      \/ phase = "open" /\ phase' = "row" /\ prepared' = columns /\ UNCHANGED <<slots, asked, map>>
  BY DEF next
<1>3. CASE Closed
  BY <1>1, <1>3, CloseStep
<1>4. CASE phase = "open" /\ phase' = "row" /\ prepared' = columns /\ UNCHANGED <<slots, asked, map>>
  <2>1. TypeOK'
    BY <1>1, <1>4 DEF Inv, TypeOK, Phases
  <2>2. ASSUME Careful PROVE (RowHolds /\ SlotsHold /\ MapFits /\ function # "gone")'
    BY <1>1, <1>4, <2>2 DEF Inv, CarefulInv, RowHolds, SlotsHold, MapFits
  <2>3. QED
    BY <2>1, <2>2 DEF Inv, CarefulInv
<1>5. QED
  BY <1>2, <1>3, <1>4

LEMMA AccessStep ==
    ASSUME Inv, accessByName
    PROVE  Inv'
<1>1. /\ UNCHANGED <<affinity, columns, function, stored, inserted, phase, slots, asked, prepared>>
      /\ map' = columnNameToIndexMap /\ phase # "closed" /\ (phase = "open" => ~Careful)
  BY DEF accessByName
<1>2. TypeOK'
  BY <1>1, MapValues DEF Inv, TypeOK
<1>3. FullMap' = FullMap
  BY <1>1 DEF FullMap, columnNames, firstIndex
<1>4. ASSUME Careful PROVE MapFits'
  <2>1. phase = "row"
    BY <1>1, <1>4 DEF Inv, TypeOK, Phases
  <2>2. columnNameToIndexMap = FullMap
    BY <1>4 DEF Inv, CarefulInv, MapFits, columnNameToIndexMap, FullMap
  <2>3. QED
    BY <1>1, <1>3, <2>1, <2>2 DEF MapFits
<1>5. ASSUME Careful PROVE (RowHolds /\ SlotsHold /\ function # "gone")'
  BY <1>1, <1>5 DEF Inv, CarefulInv, RowHolds, SlotsHold
<1>6. QED
  BY <1>2, <1>4, <1>5 DEF Inv, CarefulInv

-------------------------------------------------------------------------------
(* The theorems.                                                           *)

LEMMA Step ==
    ASSUME Inv, [Next]_vars
    PROVE  Inv'
<1>1. CASE Next
  <2>1. CASE close
    BY <2>1, CloseStep DEF close
  <2>2. CASE ~close
    BY <1>1, <2>2, UpdateStep, QueryStep, SchemaStep, NextStep, AccessStep DEF Next
  <2>3. QED
    BY <2>1, <2>2
<1>2. CASE UNCHANGED vars
  <2>1. UNCHANGED <<affinity, columns, function, stored, inserted, phase, slots, asked, prepared, map>>
    BY <1>2 DEF vars, resultSet
  <2>2. TypeOK'
    BY <2>1 DEF Inv, TypeOK
  <2>3. FullMap' = FullMap
    BY <2>1 DEF FullMap, columnNames, firstIndex
  <2>4. CarefulInv'
    BY <2>1, <2>3 DEF Inv, CarefulInv, RowHolds, SlotsHold, MapFits
  <2>5. QED
    BY <2>2, <2>4 DEF Inv
<1>3. QED
  BY <1>1, <1>2

\* The invariant holds in every reachable state, for a careful client and
\* for any other as far as it says anything of that one.
THEOREM Safety == Spec => []Inv
<1>1. Init => Inv
  <2> SUFFICES ASSUME Init PROVE Inv
    OBVIOUS
  <2>1. DOMAIN map = {} /\ DOMAIN slots = {} /\ Len(slots) = Len(asked) /\ Len(stored) = Len(inserted)
    BY DEF Init, NoArguments
  <2>2. TypeOK
    BY <2>1 DEF Init, TypeOK, Phases
  <2>3. CarefulInv
    BY <2>1 DEF Init, CarefulInv, RowHolds, SlotsHold, MapFits
  <2>4. QED
    BY <2>2, <2>3 DEF Inv
<1>2. Inv /\ [Next]_vars => Inv'
  BY Step
<1>3. QED
  BY <1>1, <1>2, PTL DEF Spec

\* Types: among them, that a result set has parameters exactly while it is
\* open, and that no name leads beyond the columns of the statement.
THEOREM TypeSafety == Spec => []TypeOK
<1>1. Inv => TypeOK
  BY DEF Inv
<1>2. QED
  BY <1>1, Safety, PTL

\* On a row, columnIndexForName finds the first column whose name differs from
\* the one given in case only, and no other, after any lookups, queries and
\* changes of the schema, if no name is looked up before the first step.
THEOREM NamesSafety ==
    ASSUME Careful
    PROVE  Spec => []NamesFindColumns
<1>1. Inv => NamesFindColumns
  <2>1. CASE phase = "row"
    BY <2>1, Lookup
  <2>2. CASE phase # "row"
    BY <2>2 DEF NamesFindColumns
  <2>3. QED
    BY <2>1, <2>2
<1>2. QED
  BY <1>1, Safety, PTL

\* What was stored.
LEMMA RowIs ==
    ASSUME Inv, Careful, NEW i \in DOMAIN stored
    PROVE  /\ i \in 1..2 /\ inserted[i].v \in Variants /\ affinity[i] \in AffinityKinds
           /\ stored[i] = applyAffinity(affinity[i], bindObject(inserted[i].v))
<1>1. TypeOK /\ RowHolds
  BY DEF Inv, CarefulInv
<1>2. stored # <<>>
  OBVIOUS
<1>3. inserted \in Arguments
  BY <1>1, <1>2 DEF RowHolds
<1>4. i \in 1..2
  BY <1>1, <1>2 DEF RowHolds
<1>5. affinity[i] \in AffinityKinds
  BY <1>1, <1>4, AffinityAssumption DEF TypeOK, AffinityKinds
<1>6. QED
  BY <1>1, <1>2, <1>3, <1>4, <1>5, ArgumentIs DEF RowHolds

\* A stored value comes back, from the invariant.
LEMMA Returns ==
    ASSUME Inv, Careful
    PROVE  RoundTrip
<1> SUFFICES ASSUME NEW i \in DOMAIN stored
             PROVE  LET v == inserted[i].v
                        x == stored[i]
                    IN  /\ columnIsNull(x) <=> v[1] = "NONE"
                        /\ ~columnIsNull(x) /\ ~Lossy(v, affinity[i])
                            => /\ forColumn(v[1], x) = v
                               /\ \/ EarlyDate(v, x)
                                  \/ converted(Readable(v)[1], objectForColumn(x)) = Readable(v)
  BY DEF RoundTrip
<1>1. PICK v \in Variants : v = inserted[i].v
  BY RowIs
<1>2. PICK aff \in AffinityKinds : aff = affinity[i]
  BY RowIs
<1>3. PICK x : x = stored[i]
  OBVIOUS
<1>4. x = applyAffinity(aff, bindObject(v))
  BY <1>1, <1>2, <1>3, RowIs
<1>5. SUFFICES /\ columnIsNull(x) <=> v[1] = "NONE"
               /\ ~columnIsNull(x) /\ ~Lossy(v, aff)
                   => /\ forColumn(v[1], x) = v
                      /\ \/ EarlyDate(v, x)
                         \/ converted(Readable(v)[1], objectForColumn(x)) = Readable(v)
  BY <1>1, <1>2, <1>3
<1>6. CASE v[1] = "NONE"
  <2>1. bindObject(v) \in Cells /\ bindObject(v)[1] = "null"
    BY <1>6, Bound
  <2>2. columnIsNull(x)
    BY <1>4, <2>1, AffineCell DEF columnIsNull
  <2>3. QED
    BY <1>6, <2>2
<1>7. CASE v[1] \in Integral
  <2>1. v[1] # "NONE"
    BY <1>7 DEF Integral
  <2>2. Readable(v) = v
    BY <1>7 DEF Readable, Integral
  <2>3. QED
    BY <1>4, <1>7, <2>1, <2>2, IntegerReturns
<1>8. CASE v[1] \in Floating
  <2>1. v[1] # "NONE"
    BY <1>8 DEF Floating
  <2>2. /\ ~columnIsNull(x) /\ forColumn(v[1], x) = v
        /\ \/ v[1] = "DATE" /\ v[2] < 0 /\ x[1] = "int"
           \/ converted(v[1], objectForColumn(x)) = v
    BY <1>4, <1>8, RealReturns
  <2>3. Readable(v) = v
    BY <1>8 DEF Readable, Floating
  <2>4. QED
    BY <2>1, <2>2, <2>3 DEF EarlyDate
<1>9. CASE v[1] \in Texts \union {"DATA"}
  <2>1. v[1] # "NONE"
    BY <1>9 DEF Texts
  <2>2. /\ ~columnIsNull(x)
        /\ \/ v[1] \in Texts /\ v[2][1] = "nul"
           \/ v[1] \in Texts /\ v[2][1] \in {"int", "real"} /\ aff = "numeric"
           \/ /\ forColumn(v[1], x) = v
              /\ v[1] \in Texts => converted("STRING", objectForColumn(x)) = <<"STRING", v[2]>>
              /\ v[1] = "DATA" => converted(v[1], objectForColumn(x)) = v
    BY <1>4, <1>9, ObjectReturns
  <2>3. PICK r : r = Readable(v)
    OBVIOUS
  <2>4. /\ v[1] \in Texts => r = <<"STRING", v[2]>> /\ r[1] = "STRING"
        /\ v[1] = "DATA" => r = v
    <3>1. v = <<v[1], v[2]>>
      BY VariantIs
    <3>2. QED
      BY <2>3, <3>1 DEF Readable, Texts
  <2>5. ~Lossy(v, aff) => forColumn(v[1], x) = v /\ converted(r[1], objectForColumn(x)) = r
    BY <1>9, <2>2, <2>4 DEF Lossy
  <2>6. QED
    BY <2>1, <2>2, <2>3, <2>5
<1>10. QED
  BY <1>6, <1>7, <1>8, <1>9, VariantIs DEF Types

\* What an update was given comes back, for every type, every value of it and
\* every width of the integer types, from a column of any affinity, by the
\* accessor of FMResultSet and by operator[] and a conversion of Variant, where
\* a C string is one read as a STRING (its toCString is not the text); but for
\* the values that Lossy and EarlyDate name, and if strings and Data are passed
\* where they live until the step.
THEOREM RoundTripSafety ==
    ASSUME Careful
    PROVE  Spec => []RoundTrip
<1>1. Inv => RoundTrip
  BY Returns
<1>2. QED
  BY <1>1, Safety, PTL

\* The accessors of FMResultSet and the conversions of Variant, written
\* independently, read the same from every stored value.
THEOREM ReadsSafety ==
    ASSUME Careful
    PROVE  Spec => []ReadsAgree
<1>1. Inv => ReadsAgree
  <2> SUFFICES ASSUME Inv, NEW i \in DOMAIN stored
               PROVE  LET x == stored[i] IN
                      \A type \in {"INTEGER", "LONGLONG", "ULONGLONG", "DOUBLE", "STRING"} :
                          /\ ~NoObject(x)
                          /\ convert(objectForColumn(x)[1], type)
                          /\ x[1] = "real" =>
                                \/ type = "DOUBLE"
                                \/ type = "INTEGER" /\ Truncated(x[2]) \in SignedRange(IntMax)
                                \/ /\ type \in {"LONGLONG", "ULONGLONG"}
                                   /\ Truncated(x[2]) \in SignedRange(LongMax)
                          => forColumn(type, x) = converted(type, objectForColumn(x))
    BY DEF ReadsAgree
  <2>1. PICK x : x = stored[i]
    OBVIOUS
  <2>2. x \in Cells
    <3>1. PICK v \in Variants : v = inserted[i].v
      BY RowIs
    <3>2. PICK aff \in AffinityKinds : aff = affinity[i]
      BY RowIs
    <3>3. x = applyAffinity(aff, bindObject(v)) /\ bindObject(v) \in Cells
      BY <2>1, <3>1, <3>2, RowIs, Bound
    <3>4. QED
      BY <3>3, AffineCell
  <2>3. QED
    BY <2>1, <2>2, ReadsSame
<1>2. QED
  BY <1>1, Safety, PTL

\* The step that QueryFindsItsRow speaks of.
LEMMA FindStep ==
    ASSUME Inv, Careful, next, phase = "open", stored # <<>>, SameTypes(asked, inserted),
           \A i \in 1..2 : asked[i].v[1] # "NONE",
           \A i \in 1..2 : asked[i].v[1] \in Texts => affinity[i] # "numeric"
    PROVE  (phase' = "row") = (Values(asked) = Values(inserted))
<1>0. RowHolds /\ SlotsHold /\ function # "gone" /\ TypeOK
  BY DEF Inv, CarefulInv
<1>1. asked \in Arguments /\ inserted \in Arguments /\ \A i \in 1..2 : affinity[i] \in AffinityKinds
  BY <1>0, AffinityAssumption DEF RowHolds, SlotsHold, TypeOK, AffinityKinds
<1>2. PICK x \in Contents(slots[1]), y \in Contents(slots[2]) :
      \E found \in Finds(x, y) :
        IF phase = "open" /\ found THEN phase' = "row" ELSE Closed
  BY DEF next
<1>3. x = bindObject(asked[1].v) /\ y = bindObject(asked[2].v)
  BY <1>0, <1>2 DEF SlotsHold, Contents
<1>4. phase' = "row" <=> Selects(x, y)
  BY <1>0, <1>2 DEF Finds, Closed
<1>5. ASSUME NEW i \in 1..2
      PROVE  equal(stored[i], applyAffinity(affinity[i], bindObject(asked[i].v)))
                <=> inserted[i].v = asked[i].v
  <2>1. PICK v \in Variants : v = inserted[i].v
    BY <1>1, ArgumentIs
  <2>2. PICK w \in Variants : w = asked[i].v
    BY <1>1, ArgumentIs
  <2>3. PICK aff \in AffinityKinds : aff = affinity[i]
    BY <1>1
  <2>4. stored[i] = applyAffinity(aff, bindObject(v))
    BY <1>0, <2>1, <2>3 DEF RowHolds
  <2>5. v[1] = w[1] /\ w[1] # "NONE" /\ (w[1] \in Texts => aff # "numeric")
    BY <2>1, <2>2, <2>3 DEF SameTypes
  <2>6. equal(applyAffinity(aff, bindObject(v)), applyAffinity(aff, bindObject(w))) <=> v = w
    BY <2>5, ComparesBound
  <2>7. QED
    BY <2>1, <2>2, <2>3, <2>4, <2>6
<1>6. Selects(x, y) <=> \A i \in 1..2 : inserted[i].v = asked[i].v
  BY <1>3, <1>5 DEF Selects
<1>7. Values(asked) = Values(inserted) <=> \A i \in 1..2 : inserted[i].v = asked[i].v
  BY DEF Values
<1>8. QED
  BY <1>4, <1>6, <1>7

\* A query finds the row exactly if it is given what the row was stored from:
\* with arguments of the same types, of which none is NULL and none a string
\* in a column that makes numbers of strings, for every value and width.
THEOREM QuerySafety ==
    ASSUME Careful
    PROVE  Spec => QueryFindsItsRow
<1>1. Inv /\ [Next]_vars =>
        [ /\ next
          /\ phase = "open"
          /\ stored # <<>>
          /\ SameTypes(asked, inserted)
          /\ \A i \in 1..2 : asked[i].v[1] # "NONE"
          /\ \A i \in 1..2 : asked[i].v[1] \in Texts => affinity[i] # "numeric"
          => (phase' = "row") = (Values(asked) = Values(inserted)) ]_vars
  BY FindStep
<1>2. QED
  BY <1>1, Safety, PTL DEF Spec, QueryFindsItsRow
===============================================================================
