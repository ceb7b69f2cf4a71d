--------------------------- MODULE FMDatabaseProofs ---------------------------
(***************************************************************************)
(* Inv is an inductive invariant of FMDatabase, for any sets of queries,   *)
(* statements and result sets, as long as the client keeps away from the   *)
(* two defects of the code: it does not pass a wrong number of arguments   *)
(* to a cached query, and it does not hold a result set that               *)
(* closeOpenResultSets would skip.                                         *)
(***************************************************************************)
EXTENDS FMDatabase, TLAPS

\* The client's part of the bargain.
Disciplined == ~MismatchOnCached /\ ~HoldsSkipped

-------------------------------------------------------------------------------
(* The helpers.                                                            *)

\* A statement is cached when some query's entry has it.
LEMMA CachedElement ==
    ASSUME NEW c, NEW s
    PROVE  s \in Cached(c) <=> \E q \in Queries : s \in c[q]
BY DEF Cached

\* setCachedStatement adds the one statement and removes none.
LEMMA CachedAfterSet ==
    ASSUME cache \in [Queries -> SUBSET Stmts], NEW q \in Queries, NEW s \in Stmts
    PROVE  /\ setCachedStatement(s, q) \in [Queries -> SUBSET Stmts]
           /\ Cached(setCachedStatement(s, q)) = Cached(cache) \union {s}
<1>1. setCachedStatement(s, q) \in [Queries -> SUBSET Stmts]
  BY DEF setCachedStatement
<1>2. ASSUME NEW t
      PROVE  t \in Cached(setCachedStatement(s, q)) <=> t \in Cached(cache) \/ t = s
  <2> DEFINE new == setCachedStatement(s, q)
  <2>1. \A p \in Queries : new[p] = IF p = q THEN cache[p] \union {s} ELSE cache[p]
    BY DEF setCachedStatement
  <2> HIDE DEF new
  <2>2. t \in Cached(new) <=> \E p \in Queries : t \in new[p]
    BY CachedElement
  <2>3. t \in Cached(cache) <=> \E p \in Queries : t \in cache[p]
    BY CachedElement
  <2>4. QED
    BY <2>1, <2>2, <2>3 DEF new
<1>3. Cached(setCachedStatement(s, q)) = Cached(cache) \union {s}
  BY <1>2
<1>4. QED
  BY <1>1, <1>3

\* An emptied cache caches nothing.
LEMMA CachedEmpty ==
    /\ EmptyCache \in [Queries -> SUBSET Stmts]
    /\ Cached(EmptyCache) = {}
<1>1. EmptyCache \in [Queries -> SUBSET Stmts]
  BY DEF EmptyCache
<1>2. ASSUME NEW s PROVE s \notin Cached(EmptyCache)
  BY CachedElement DEF EmptyCache
<1>3. QED
  BY <1>1, <1>2

\* The cache holds statements.
LEMMA CachedType ==
    ASSUME NEW c \in [Queries -> SUBSET Stmts]
    PROVE  Cached(c) \subseteq Stmts
BY CachedElement

\* No result set is in the list twice.
NoDuplicates(list) == \A i, j \in DOMAIN list : list[i] = list[j] => i = j
Members(list) == {list[i] : i \in DOMAIN list}

\* push_back adds one result set at the end.
LEMMA MembersAppend ==
    ASSUME NEW list \in Seq(ResultSets), NEW r \in ResultSets
    PROVE  /\ Append(list, r) \in Seq(ResultSets)
           /\ Members(Append(list, r)) = Members(list) \union {r}
           /\ NoDuplicates(list) /\ r \notin Members(list) => NoDuplicates(Append(list, r))
<1> DEFINE new == Append(list, r)
           n == Len(list)
<1>1. new \in Seq(ResultSets) /\ Len(new) = n + 1 /\ n \in Nat
  OBVIOUS
<1>2. DOMAIN list = 1..n /\ DOMAIN new = 1..(n + 1)
  BY <1>1
<1>3. /\ \A i \in 1..n : new[i] = list[i]
      /\ new[n + 1] = r
  OBVIOUS
<1> HIDE DEF new, n
<1>4. Members(new) = Members(list) \union {r}
  BY <1>1, <1>2, <1>3 DEF Members
<1>5. ASSUME NoDuplicates(list), r \notin Members(list)
      PROVE  NoDuplicates(new)
  BY <1>1, <1>2, <1>3, <1>5 DEF NoDuplicates, Members
<1>6. QED
  BY <1>1, <1>4, <1>5 DEF new

\* Erasing one position of a list without duplicates removes the result set
\* that stands there, and no other.
LEMMA MembersRemoveAt ==
    ASSUME NEW list \in Seq(ResultSets), NEW k \in DOMAIN list, NoDuplicates(list)
    PROVE  /\ RemoveAt(list, k) \in Seq(ResultSets)
           /\ Members(RemoveAt(list, k)) = Members(list) \ {list[k]}
           /\ NoDuplicates(RemoveAt(list, k))
<1> DEFINE new == RemoveAt(list, k)
           n == Len(list)
<1>1. n \in Nat /\ DOMAIN list = 1..n /\ k \in 1..n
  OBVIOUS
<1>2. /\ new \in Seq(ResultSets)
      /\ Len(new) = n - 1
      /\ \A i \in 1..(n - 1) : new[i] = IF i < k THEN list[i] ELSE list[i + 1]
  <2>1. /\ SubSeq(list, 1, k - 1) \in Seq(ResultSets)
        /\ Len(SubSeq(list, 1, k - 1)) = k - 1
        /\ \A i \in 1..(k - 1) : SubSeq(list, 1, k - 1)[i] = list[i]
    BY <1>1
  <2>2. /\ SubSeq(list, k + 1, n) \in Seq(ResultSets)
        /\ Len(SubSeq(list, k + 1, n)) = n - k
        /\ \A i \in 1..(n - k) : SubSeq(list, k + 1, n)[i] = list[k + i]
    BY <1>1
  <2>3. new = SubSeq(list, 1, k - 1) \o SubSeq(list, k + 1, n)
    BY DEF RemoveAt
  <2> DEFINE a == SubSeq(list, 1, k - 1)
             b == SubSeq(list, k + 1, n)
  <2> HIDE DEF a, b, n, new
  <2>4. new \in Seq(ResultSets) /\ Len(new) = Len(a) + Len(b)
    BY <2>1, <2>2, <2>3 DEF a, b
  <2>5. Len(new) = n - 1
    BY <1>1, <2>1, <2>2, <2>4 DEF a, b
  <2>6. ASSUME NEW i \in 1..(n - 1)
        PROVE  new[i] = IF i < k THEN list[i] ELSE list[i + 1]
    <3>1. a \in Seq(ResultSets) /\ b \in Seq(ResultSets) /\ new = a \o b
      BY <2>1, <2>2, <2>3 DEF a, b
    <3>2. new[i] = IF i <= Len(a) THEN a[i] ELSE b[i - Len(a)]
      BY <1>1, <2>4, <2>5, <3>1
    <3>3. CASE i < k
      BY <1>1, <2>1, <3>2, <3>3 DEF a
    <3>4. CASE ~(i < k)
      <4>1. new[i] = b[i - (k - 1)] /\ i - (k - 1) \in 1..(n - k)
        BY <1>1, <2>1, <3>2, <3>4 DEF a
      <4>2. b[i - (k - 1)] = list[k + (i - (k - 1))]
        BY <2>2, <4>1 DEF b
      <4>3. k + (i - (k - 1)) = i + 1
        BY <1>1
      <4>4. QED
        BY <3>4, <4>1, <4>2, <4>3
    <3>5. QED
      BY <3>3, <3>4
  <2>7. QED
    BY <2>4, <2>5, <2>6
<1>3. DOMAIN new = 1..(n - 1)
  BY <1>1, <1>2
<1> HIDE DEF new, n
<1> DEFINE from(i) == IF i < k THEN i ELSE i + 1
<1>10. ASSUME NEW i \in 1..(n - 1)
      PROVE  from(i) \in 1..n /\ from(i) # k /\ new[i] = list[from(i)]
  BY <1>1, <1>2
<1>11. ASSUME NEW i \in 1..(n - 1), NEW j \in 1..(n - 1), from(i) = from(j)
      PROVE  i = j
  BY <1>1, <1>11
<1> HIDE DEF from
<1>4. ASSUME NEW i \in 1..(n - 1)
      PROVE  new[i] \in Members(list) \ {list[k]}
  BY <1>1, <1>10 DEF Members, NoDuplicates
<1>5. ASSUME NEW j \in 1..n, j # k
      PROVE  list[j] \in Members(new)
  <2>1. CASE j < k
    BY <1>1, <1>2, <1>3, <2>1 DEF Members
  <2>2. CASE j > k
    <3>1. j - 1 \in 1..(n - 1) /\ new[j - 1] = list[j]
      BY <1>1, <1>2, <2>2
    <3>2. QED
      BY <1>3, <3>1 DEF Members
  <2>3. QED
    BY <1>1, <1>5, <2>1, <2>2
<1>6. NoDuplicates(new)
  BY <1>1, <1>3, <1>10, <1>11 DEF NoDuplicates
<1>7. Members(new) = Members(list) \ {list[k]}
  BY <1>1, <1>3, <1>4, <1>5 DEF Members
<1>8. QED
  BY <1>2, <1>6, <1>7 DEF new

\* resultSetDidClose removes the result set, whether or not it is listed.
LEMMA MembersErase ==
    ASSUME openRS \in Seq(ResultSets), NoDuplicates(openRS), NEW r
    PROVE  /\ resultSetDidClose(r) \in Seq(ResultSets)
           /\ Members(resultSetDidClose(r)) = Listed \ {r}
           /\ NoDuplicates(resultSetDidClose(r))
<1>1. CASE r \in Listed
  <2> DEFINE P(i) == openRS[i] = r /\ \A j \in 1..(i-1) : openRS[j] # r
             k == CHOOSE i \in DOMAIN openRS : P(i)
  <2>1. PICK i \in DOMAIN openRS : openRS[i] = r
    BY <1>1 DEF Listed
  <2>2. \A j \in 1..(i-1) : openRS[j] # r
    BY <2>1 DEF NoDuplicates
  <2>3. P(i)
    BY <2>1, <2>2
  <2>4. k \in DOMAIN openRS /\ P(k)
    BY <2>3
  <2>5. resultSetDidClose(r) = RemoveAt(openRS, k)
    BY <1>1 DEF resultSetDidClose
  <2>6. openRS[k] = r
    BY <2>4
  <2>7. Members(openRS) = Listed
    BY DEF Listed, Members
  <2> HIDE DEF k, P
  <2>8. /\ RemoveAt(openRS, k) \in Seq(ResultSets)
        /\ Members(RemoveAt(openRS, k)) = Members(openRS) \ {openRS[k]}
        /\ NoDuplicates(RemoveAt(openRS, k))
    BY <2>4, MembersRemoveAt
  <2>9. QED
    BY <2>5, <2>6, <2>7, <2>8
<1>2. CASE r \notin Listed
  BY <1>2 DEF resultSetDidClose, Listed, Members
<1>3. QED
  BY <1>1, <1>2

-------------------------------------------------------------------------------
(* Closing result sets.                                                    *)

\* FMResultSet::close on any set of result sets preserves the invariant, as
\* long as those that stay open stay listed.
LEMMA ClosePreserves ==
    ASSUME Inv, NEW C \in SUBSET ResultSets, closeOnly(C),
           openRS' \in Seq(ResultSets), NoDuplicates(openRS'), held' \in SUBSET ResultSets,
           Listed \ C \subseteq Members(openRS')
    PROVE  Inv'
<1> USE NoStmtAssumption
<1> DEFINE S == ResetBy(C)
           D == DestroyedBy(C, cache)
<1>1. /\ S \subseteq Stmts
      /\ \A s : s \in S <=> s # NoStmt /\ \E r \in C : stmtOf[r] = s
  BY DEF ResetBy, Inv, TypeOK
<1>2. /\ D \subseteq S
      /\ \A s \in S : s \in D <=> s \notin Cached(cache)
  BY <1>1 DEF DestroyedBy, Inv, StatementExclusive
<1>3. /\ stmtOf' = [r \in ResultSets |-> IF r \in C THEN NoStmt ELSE stmtOf[r]]
      /\ parented' = parented \ C
      /\ ptr' = ptr \ D
      /\ cursor' = [s \in Stmts |-> IF s \in S THEN 0 ELSE cursor[s]]
      /\ inUse' = inUse \ S
      /\ live' = live \ (D \intersect ptr)
      /\ misuse' = (misuse \/ ~(S \intersect ptr \subseteq live))
      /\ UNCHANGED <<conn, shouldCache, executing, cache, frames>>
  BY DEF closeOnly, closeResultSets
<1>4. Listed' = Members(openRS')
  BY DEF Listed, Members
<1> HIDE DEF S, D
<1>5. TypeOK'
  BY <1>1, <1>2, <1>3, MaxRowsAssumption DEF Inv, TypeOK
<1>6. NoHandleMisuse'
  BY <1>3 DEF Inv, NoHandleMisuse, OwnershipConsistent
<1>7. Cached(cache)' = Cached(cache) /\ Running' = Running
  BY <1>3 DEF Cached, Running
<1>8. NoLeakedStatement'
  <2> SUFFICES ASSUME NEW s \in live', s \notin Cached(cache), s \notin Running
               PROVE  \E r \in Members(openRS') : stmtOf'[r] = s
    BY <1>4, <1>7 DEF NoLeakedStatement
  <2>1. s \in live /\ s \in ptr /\ s \notin D /\ s # NoStmt
    BY <1>3 DEF Inv, OwnershipConsistent, TypeOK
  <2>2. PICK r \in Listed : stmtOf[r] = s
    BY <2>1 DEF Inv, NoLeakedStatement
  <2>3. r \notin C
    BY <1>1, <1>2, <2>1, <2>2
  <2>4. r \in ResultSets
    BY DEF Listed, Inv, TypeOK
  <2>5. QED
    BY <1>3, <2>2, <2>3, <2>4
<1>9. OwnershipConsistent'
  <2>1. ASSUME NEW s \in Cached(cache) PROVE s \in ptr'
    BY <1>1, <1>2, <1>3 DEF Inv, OwnershipConsistent
  <2>2. ptr' \subseteq live' /\ live' \subseteq ptr' \union Running
    BY <1>3 DEF Inv, OwnershipConsistent
  <2>3. ASSUME NEW r \in ResultSets, stmtOf'[r] \in ptr'
        PROVE  stmtOf'[r] \in inUse'
    <3>1. r \notin C /\ stmtOf'[r] = stmtOf[r] /\ stmtOf[r] \in ptr /\ stmtOf[r] # NoStmt
      BY <1>3, <2>3 DEF Inv, TypeOK
    <3>2. stmtOf[r] \notin S
      BY <1>1, <3>1 DEF Inv, StatementExclusive
    <3>3. QED
      BY <1>3, <3>1, <3>2 DEF Inv, OwnershipConsistent
  <2>4. ASSUME NEW f \in frames
        PROVE  /\ f.stmt \in live'
               /\ f.stmt \in ptr => f.hit'
               /\ f.hit => f.stmt \in Cached(cache)
    <3>1. f.stmt \in Running
      BY DEF Running
    <3>2. f.stmt \notin S
      BY <1>1, <3>1 DEF Inv, StatementExclusive
    <3>3. QED
      BY <1>2, <1>3, <3>2 DEF Inv, OwnershipConsistent
  <2>5. QED
    BY <1>3, <1>7, <2>1, <2>2, <2>3, <2>4 DEF OwnershipConsistent
<1>10. StatementExclusive'
  BY <1>3, <1>7 DEF Inv, StatementExclusive
<1>11. OpenResultSetsTracked'
  BY <1>3, <1>4 DEF Inv, OpenResultSetsTracked, NoDuplicates
<1>12. NothingOutlivesConnection'
  BY <1>3 DEF Inv, NothingOutlivesConnection
<1>13. FlagTellsTheTruth'
  BY <1>3 DEF Inv, FlagTellsTheTruth
<1>14. QED
  BY <1>5, <1>6, <1>8, <1>9, <1>10, <1>11, <1>12, <1>13 DEF Inv

-------------------------------------------------------------------------------
(* Executing.                                                              *)

\* What executeQueryPrepareAndCheck hands out has no other user: no update
\* runs, no result set has the statement, and it is either idle in the cache
\* or new to everybody.
LEMMA PreparedHasNoUser ==
    ASSUME Inv, NEW q \in Queries, NEW s \in Stmts, Prepares(q, s)
    PROVE  /\ conn = "good" /\ frames = {} /\ Running = {}
           /\ \A r \in ResultSets : stmtOf[r] # s
           /\ Hits(q) # {} => s \in Cached(cache) /\ s \in ptr /\ s \in live
           /\ Hits(q) = {} => s \notin Cached(cache) /\ s \notin ptr /\ s \notin live
           /\ resetMisuse(q, s) => misuse' = FALSE
<1>1. frames = {} /\ Running = {}
  BY DEF Prepares, CanExecute, Inv, FlagTellsTheTruth, Running
<1>2. CASE Hits(q) # {}
  <2>1. s \in cache[q] /\ s \notin inUse
    BY <1>2 DEF Prepares, Hits, cachedStatementForQuery
  <2>2. s \in Cached(cache)
    BY <2>1, CachedElement
  <2>3. s \in ptr /\ s \in live
    BY <2>2 DEF Inv, OwnershipConsistent
  <2>4. conn = "good"
    BY <2>3 DEF Inv, NothingOutlivesConnection
  <2>5. \A r \in ResultSets : stmtOf[r] # s
    BY <2>1, <2>3 DEF Inv, OwnershipConsistent
  <2>6. resetMisuse(q, s) => misuse' = FALSE
    BY <2>3 DEF resetMisuse, Inv, NoHandleMisuse
  <2>7. QED
    BY <1>1, <1>2, <2>2, <2>3, <2>4, <2>5, <2>6
<1>3. CASE Hits(q) = {}
  <2>1. conn = "good" /\ Fresh(s)
    BY <1>3 DEF Prepares
  <2>2. /\ s \notin Cached(cache) /\ s \notin live
        /\ \A r \in ResultSets : stmtOf[r] # s
    BY <2>1 DEF Fresh
  <2>3. s \notin ptr
    BY <2>2 DEF Inv, OwnershipConsistent
  <2>4. resetMisuse(q, s) => misuse' = FALSE
    BY <1>3 DEF resetMisuse, Inv, NoHandleMisuse
  <2>5. QED
    BY <1>1, <1>3, <2>1, <2>2, <2>3, <2>4
<1>4. QED
  BY <1>2, <1>3

\* The cache after wrapStatement.
LEMMA CachedAfterWrap ==
    ASSUME Inv, NEW q \in Queries, NEW s \in Stmts, wrapStatement(q, s)
    PROVE  /\ cache' \in [Queries -> SUBSET Stmts]
           /\ Cached(cache)' = IF Hits(q) = {} /\ shouldCache
                               THEN Cached(cache) \union {s} ELSE Cached(cache)
<1>1. Cached(cache)' = Cached(cache')
  BY DEF Cached
<1>2. QED
  BY <1>1, CachedAfterSet DEF wrapStatement, Inv, TypeOK

\* executeQuery preserves the invariant.
LEMMA ExecuteQueryPreserves ==
    ASSUME Inv, NEW q \in Queries, NEW s \in Stmts, NEW r \in ResultSets,
           ExecuteQuery(q, s, r)
    PROVE  Inv'
<1> USE NoStmtAssumption
<1>1. /\ Prepares(q, s) /\ Dead(r) /\ resetMisuse(q, s) /\ wrapStatement(q, s)
      /\ ptr' = ptr \union {s}
      /\ inUse' = inUse \union {s}
      /\ live' = IF Hits(q) = {} THEN live \union {s} ELSE live
      /\ cursor' = [cursor EXCEPT ![s] = 0]
      /\ stmtOf' = [stmtOf EXCEPT ![r] = s]
      /\ parented' = parented \union {r}
      /\ openRS' = Append(openRS, r)
      /\ executing' = FALSE
      /\ UNCHANGED <<conn, shouldCache, held, frames>>
  BY DEF ExecuteQuery
<1>2. /\ conn = "good" /\ frames = {} /\ Running = {}
      /\ \A t \in ResultSets : stmtOf[t] # s
      /\ Hits(q) # {} => s \in Cached(cache) /\ s \in ptr /\ s \in live
      /\ misuse' = FALSE
  BY <1>1, PreparedHasNoUser
<1>3. /\ cache' \in [Queries -> SUBSET Stmts]
      /\ Cached(cache)' \subseteq Cached(cache) \union {s}
      /\ Cached(cache) \subseteq Cached(cache)'
  BY <1>1, CachedAfterWrap
<1>4. r \notin Listed /\ stmtOf[r] = NoStmt /\ r \notin parented
  BY <1>1 DEF Dead, Inv, OpenResultSetsTracked, TypeOK
<1>5. /\ openRS' \in Seq(ResultSets)
      /\ Listed' = Listed \union {r}
      /\ NoDuplicates(openRS')
  <2>1. NoDuplicates(openRS) /\ openRS \in Seq(ResultSets)
    BY DEF Inv, TypeOK, OpenResultSetsTracked, NoDuplicates
  <2>2. Listed = Members(openRS) /\ Listed' = Members(openRS')
    BY DEF Listed, Members
  <2>3. QED
    BY <1>1, <1>4, <2>1, <2>2, MembersAppend
<1>6. Running' = {}
  BY <1>1, <1>2 DEF Running
<1>7. /\ stmtOf'[r] = s
      /\ \A t \in ResultSets \ {r} : stmtOf'[t] = stmtOf[t]
  BY <1>1 DEF Inv, TypeOK
<1>8. TypeOK'
  <2>1. cursor' \in [Stmts -> 0..MaxRows]
    BY <1>1, MaxRowsAssumption DEF Inv, TypeOK
  <2>2. /\ stmtOf' \in [ResultSets -> Stmts \union {NoStmt}]
        /\ parented' \subseteq ResultSets
        /\ ptr' \subseteq Stmts /\ inUse' \subseteq Stmts /\ live' \subseteq Stmts
    BY <1>1 DEF Inv, TypeOK
  <2>3. QED
    BY <1>1, <1>2, <1>3, <1>5, <2>1, <2>2 DEF Inv, TypeOK
<1>9. NoHandleMisuse'
  BY <1>2 DEF NoHandleMisuse
<1>10. NoLeakedStatement'
  <2> SUFFICES ASSUME NEW u \in live', u \notin Cached(cache)'
               PROVE  \E t \in Listed' : stmtOf'[t] = u
    BY DEF NoLeakedStatement
  <2>1. CASE u = s
    BY <1>5, <1>7, <2>1
  <2>2. CASE u # s
    <3>1. u \in live /\ u \notin Cached(cache) /\ u \notin Running
      BY <1>1, <1>2, <1>3, <2>2
    <3>2. PICK t \in Listed : stmtOf[t] = u
      BY <3>1 DEF Inv, NoLeakedStatement
    <3>3. t \in ResultSets /\ t # r
      BY <1>4, <3>2 DEF Listed, Inv, TypeOK
    <3>4. QED
      BY <1>5, <1>7, <3>2, <3>3
  <2>3. QED
    BY <2>1, <2>2
<1>11. OwnershipConsistent'
  <2>1. Cached(cache)' \subseteq ptr' /\ ptr' \subseteq live' /\ live' \subseteq ptr'
    BY <1>1, <1>2, <1>3 DEF Inv, OwnershipConsistent
  <2>2. ASSUME NEW t \in ResultSets, stmtOf'[t] \in ptr'
        PROVE  stmtOf'[t] \in inUse'
    BY <1>1, <1>2, <1>7, <2>2 DEF Inv, OwnershipConsistent
  <2>3. QED
    BY <1>1, <1>2, <2>1, <2>2 DEF OwnershipConsistent
<1>12. StatementExclusive'
  BY <1>2, <1>6, <1>7 DEF Inv, StatementExclusive
<1>13. OpenResultSetsTracked'
  BY <1>1, <1>5, <1>7 DEF Inv, OpenResultSetsTracked, NoDuplicates
<1>14. NothingOutlivesConnection'
  BY <1>1, <1>2 DEF NothingOutlivesConnection
<1>15. FlagTellsTheTruth'
  BY <1>1, <1>2 DEF FlagTellsTheTruth
<1>16. QED
  BY <1>8, <1>9, <1>10, <1>11, <1>12, <1>13, <1>14, <1>15 DEF Inv

\* The convenience queries preserve the invariant.
LEMMA ConvenienceQueryPreserves ==
    ASSUME Inv, NEW q \in Queries, NEW s \in Stmts, ConvenienceQuery(q, s)
    PROVE  Inv'
<1>1. /\ Prepares(q, s) /\ resetMisuse(q, s) /\ wrapStatement(q, s)
      /\ IF Hits(q) = {} /\ shouldCache
         THEN ptr' = ptr \union {s} /\ live' = live \union {s}
         ELSE UNCHANGED <<ptr, live>>
      /\ cursor' = [cursor EXCEPT ![s] = 0]
      /\ executing' = FALSE
      /\ UNCHANGED <<conn, shouldCache, openRS, stmtOf, parented, held, inUse, frames>>
  BY DEF ConvenienceQuery
<1>2. /\ conn = "good" /\ frames = {} /\ Running = {}
      /\ \A t \in ResultSets : stmtOf[t] # s
      /\ misuse' = FALSE
  BY <1>1, PreparedHasNoUser
<1>3. /\ cache' \in [Queries -> SUBSET Stmts]
      /\ Cached(cache)' = IF Hits(q) = {} /\ shouldCache
                          THEN Cached(cache) \union {s} ELSE Cached(cache)
  BY <1>1, CachedAfterWrap
<1>4. Running' = Running /\ Listed' = Listed
  BY <1>1 DEF Running, Listed
<1>5. TypeOK'
  <2>1. cursor' \in [Stmts -> 0..MaxRows]
    BY <1>1, MaxRowsAssumption DEF Inv, TypeOK
  <2>2. ptr' \subseteq Stmts /\ live' \subseteq Stmts
    BY <1>1 DEF Inv, TypeOK
  <2>3. QED
    BY <1>1, <1>2, <1>3, <2>1, <2>2 DEF Inv, TypeOK
<1>6. NoLeakedStatement'
  BY <1>1, <1>3, <1>4 DEF Inv, NoLeakedStatement
<1>7. OwnershipConsistent'
  BY <1>1, <1>2, <1>3, <1>4 DEF Inv, OwnershipConsistent
<1>8. StatementExclusive' /\ OpenResultSetsTracked'
  BY <1>1, <1>4 DEF Inv, StatementExclusive, OpenResultSetsTracked
<1>9. NoHandleMisuse' /\ NothingOutlivesConnection' /\ FlagTellsTheTruth'
  BY <1>1, <1>2 DEF NoHandleMisuse, NothingOutlivesConnection, FlagTellsTheTruth
<1>10. QED
  BY <1>5, <1>6, <1>7, <1>8, <1>9 DEF Inv

\* executeUpdate preserves the invariant up to and into sqlite3_step.
LEMMA UpdateBeginPreserves ==
    ASSUME Inv, NEW q \in Queries, NEW s \in Stmts, UpdateBegin(q, s)
    PROVE  Inv'
<1> DEFINE g == [stmt |-> s, query |-> q, hit |-> Hits(q) # {}]
<1>1. /\ Prepares(q, s) /\ resetMisuse(q, s)
      /\ executing' = TRUE
      /\ frames' = frames \union {g}
      /\ live' = IF Hits(q) = {} THEN live \union {s} ELSE live
      /\ cursor' = [cursor EXCEPT ![s] = 0]
      /\ UNCHANGED <<conn, shouldCache, cache, openRS, stmtOf, parented, held, ptr, inUse>>
  BY DEF UpdateBegin
<1>2. /\ conn = "good" /\ frames = {} /\ Running = {}
      /\ \A t \in ResultSets : stmtOf[t] # s
      /\ Hits(q) # {} => s \in Cached(cache) /\ s \in ptr /\ s \in live
      /\ Hits(q) = {} => s \notin Cached(cache) /\ s \notin ptr
      /\ misuse' = FALSE
  BY <1>1, PreparedHasNoUser
<1>3. g \in Frame /\ g.stmt = s /\ (g.hit <=> Hits(q) # {})
  BY DEF Frame
<1> HIDE DEF g
<1>4. /\ frames' = {g} /\ Running' = {s} /\ Listed' = Listed
      /\ Cached(cache)' = Cached(cache)
  BY <1>1, <1>2, <1>3 DEF Running, Listed, Cached
<1>5. TypeOK'
  <2>1. cursor' \in [Stmts -> 0..MaxRows]
    BY <1>1, MaxRowsAssumption DEF Inv, TypeOK
  <2>2. frames' \subseteq Frame /\ live' \subseteq Stmts
    BY <1>1, <1>3, <1>4 DEF Inv, TypeOK
  <2>3. QED
    BY <1>1, <1>2, <2>1, <2>2 DEF Inv, TypeOK
<1>6. NoLeakedStatement'
  BY <1>1, <1>2, <1>4 DEF Inv, NoLeakedStatement
<1>7. OwnershipConsistent'
  BY <1>1, <1>2, <1>3, <1>4 DEF Inv, OwnershipConsistent
<1>8. StatementExclusive' /\ OpenResultSetsTracked'
  BY <1>1, <1>2, <1>4 DEF Inv, StatementExclusive, OpenResultSetsTracked
<1>9. NoHandleMisuse' /\ NothingOutlivesConnection' /\ FlagTellsTheTruth'
  BY <1>1, <1>2, <1>4 DEF NoHandleMisuse, NothingOutlivesConnection, FlagTellsTheTruth
<1>10. QED
  BY <1>5, <1>6, <1>7, <1>8, <1>9 DEF Inv

\* The rest of executeUpdate preserves it, whatever the SQL functions it
\* called did to _shouldCacheStatements and to result sets meanwhile.
LEMMA UpdateEndPreserves ==
    ASSUME Inv, NEW f \in frames, UpdateEnd(f)
    PROVE  Inv'
<1> DEFINE keeps == shouldCache /\ ~f.hit
<1>1. /\ cache' = IF keeps THEN setCachedStatement(f.stmt, f.query) ELSE cache
      /\ ptr' = IF keeps THEN ptr \union {f.stmt} ELSE ptr
      /\ live' = IF keeps \/ f.hit THEN live ELSE live \ {f.stmt}
      /\ misuse' = (misuse \/ f.stmt \notin live)
      /\ frames' = frames \ {f}
      /\ executing' = FALSE
      /\ UNCHANGED <<conn, shouldCache, openRS, stmtOf, parented, held, inUse, cursor>>
  BY DEF UpdateEnd
<1>2. /\ f.stmt \in Stmts /\ f.query \in Queries /\ f.hit \in BOOLEAN
      /\ f.stmt \in live /\ (f.stmt \in ptr => f.hit) /\ (f.hit => f.stmt \in Cached(cache))
  BY DEF Inv, TypeOK, Frame, OwnershipConsistent
<1>3. frames = {f} /\ Running = {f.stmt} /\ frames' = {} /\ Running' = {}
  BY <1>1 DEF Inv, FlagTellsTheTruth, Running
<1>4. \A t \in ResultSets : stmtOf[t] # f.stmt
  BY <1>2, <1>3, NoStmtAssumption DEF Inv, StatementExclusive
<1>5. /\ cache' \in [Queries -> SUBSET Stmts]
      /\ Cached(cache') = IF keeps THEN Cached(cache) \union {f.stmt} ELSE Cached(cache)
  BY <1>1, <1>2, CachedAfterSet DEF Inv, TypeOK
<1>6. Cached(cache)' = Cached(cache') /\ Listed' = Listed
  BY <1>1 DEF Cached, Listed
<1>7. TypeOK'
  BY <1>1, <1>2, <1>3, <1>5 DEF Inv, TypeOK, NoHandleMisuse
<1>8. NoLeakedStatement'
  <2>1. f.hit => f.stmt \in Cached(cache)
    BY DEF Inv, OwnershipConsistent
  <2>2. QED
    BY <1>1, <1>2, <1>3, <1>5, <1>6, <2>1 DEF Inv, NoLeakedStatement
<1>9. OwnershipConsistent'
  BY <1>1, <1>2, <1>3, <1>4, <1>5, <1>6 DEF Inv, OwnershipConsistent
<1>10. StatementExclusive' /\ OpenResultSetsTracked'
  BY <1>1, <1>3, <1>6 DEF Inv, StatementExclusive, OpenResultSetsTracked
<1>11. NoHandleMisuse' /\ NothingOutlivesConnection' /\ FlagTellsTheTruth'
  BY <1>1, <1>2, <1>3 DEF Inv, NoHandleMisuse, NothingOutlivesConnection, FlagTellsTheTruth
<1>12. QED
  BY <1>7, <1>8, <1>9, <1>10, <1>11 DEF Inv

-------------------------------------------------------------------------------
(* Clearing the cache and closing the connection.                          *)

\* clearCachedStatements preserves the invariant, also when result sets are
\* open on the statements it closes.
LEMMA ClearPreserves ==
    ASSUME Inv, ClearCachedStatements
    PROVE  Inv'
<1> DEFINE K == Cached(cache)
<1>1. /\ frames = {}
      /\ cache' = EmptyCache
      /\ ptr' = ptr \ K
      /\ inUse' = inUse \ K
      /\ live' = live \ (K \intersect ptr)
      /\ cursor' = [s \in Stmts |-> IF s \in K THEN 0 ELSE cursor[s]]
      /\ misuse' = (misuse \/ ~(K \intersect ptr \subseteq live))
      /\ UNCHANGED <<conn, shouldCache, executing, openRS, stmtOf, parented, held, frames>>
  BY DEF ClearCachedStatements, NotInCallback
<1>2. K \subseteq ptr /\ ptr \subseteq live /\ live = ptr /\ Running = {}
  BY <1>1 DEF Inv, OwnershipConsistent, Running
<1>3. Cached(cache)' = {} /\ Running' = {} /\ Listed' = Listed
  <2>1. Cached(cache)' = Cached(cache')
    BY DEF Cached
  <2>2. QED
    BY <1>1, <2>1, CachedEmpty DEF Running, Listed
<1> HIDE DEF K
<1>4. TypeOK'
  <2>1. cache' \in [Queries -> SUBSET Stmts]
    BY <1>1, CachedEmpty
  <2>2. cursor' \in [Stmts -> 0..MaxRows]
    BY <1>1, MaxRowsAssumption DEF Inv, TypeOK
  <2>3. QED
    BY <1>1, <1>2, <2>1, <2>2 DEF Inv, TypeOK
<1>5. NoLeakedStatement'
  BY <1>1, <1>2, <1>3 DEF Inv, NoLeakedStatement, K
<1>6. OwnershipConsistent'
  BY <1>1, <1>2, <1>3 DEF Inv, OwnershipConsistent
<1>7. StatementExclusive' /\ OpenResultSetsTracked'
  BY <1>1, <1>3 DEF Inv, StatementExclusive, OpenResultSetsTracked
<1>8. NoHandleMisuse' /\ NothingOutlivesConnection' /\ FlagTellsTheTruth'
  BY <1>1, <1>2 DEF Inv, NoHandleMisuse, NothingOutlivesConnection, FlagTellsTheTruth
<1>9. QED
  BY <1>4, <1>5, <1>6, <1>7, <1>8 DEF Inv

\* A disciplined client's closeOpenResultSets closes every listed one.
LEMMA CloseAllClosesListed ==
    ASSUME Skipped \intersect held = {}
    PROVE  ClosedByCloseAll = Listed
BY DEF ClosedByCloseAll

\* An empty list has no members.
LEMMA MembersEmpty ==
    /\ <<>> \in Seq(ResultSets)
    /\ Members(<<>>) = {}
    /\ NoDuplicates(<<>>)
BY DEF Members, NoDuplicates

\* close preserves the invariant.
LEMMA CloseConnectionPreserves ==
    ASSUME Disciplined, Inv, Close
    PROVE  Inv'
<1> USE NoStmtAssumption
<1> DEFINE K == Cached(cache)
           S == ResetBy(Listed)
           D == DestroyedBy(Listed, EmptyCache)
<1>1. ClosedByCloseAll = Listed
  BY CloseAllClosesListed DEF Close, Disciplined
<1>2. /\ frames = {}
      /\ cache' = EmptyCache
      /\ stmtOf' = [r \in ResultSets |-> IF r \in Listed THEN NoStmt ELSE stmtOf[r]]
      /\ parented' = parented \ Listed
      /\ ptr' = (ptr \ K) \ D
      /\ cursor' = [s \in Stmts |-> IF s \in S THEN 0 ELSE cursor[s]]
      /\ inUse' = inUse \ (K \union S)
      /\ live' = finalizeLeaked(live \ ((K \union D) \intersect ptr))
      /\ misuse' = (misuse \/ ~((K \union S) \intersect ptr \subseteq live))
      /\ openRS' = <<>>
      /\ conn' = "null"
      /\ UNCHANGED <<shouldCache, executing, held, frames>>
  BY <1>1 DEF Close, closeResultSets, NotInCallback
<1>3. \A r \in ResultSets : stmtOf[r] # NoStmt \/ r \in parented => r \in Listed
  BY DEF Inv, OpenResultSetsTracked
<1>4. stmtOf' = [r \in ResultSets |-> NoStmt] /\ parented' = {}
  BY <1>2, <1>3 DEF Inv, TypeOK
<1>5. K \subseteq ptr /\ ptr = live /\ Running = {}
  BY <1>2 DEF Inv, OwnershipConsistent, Running
<1>6. \A s : s \in S <=> s # NoStmt /\ \E r \in Listed : stmtOf[r] = s
  BY DEF ResetBy
<1>7. \A s : s \in D <=> s \in S
  BY <1>3, <1>6, CachedEmpty DEF DestroyedBy
<1>8. ptr \subseteq K \union S
  BY <1>5, <1>6 DEF Inv, NoLeakedStatement, TypeOK
<1>9. ptr' = {} /\ live' = {} /\ misuse' = FALSE
  <2>1. ptr' = {}
    BY <1>2, <1>7, <1>8
  <2>2. live' = {}
    BY <1>2, <1>5, <1>7, <1>8 DEF finalizeLeaked
  <2>3. misuse' = FALSE
    BY <1>2, <1>5 DEF Inv, NoHandleMisuse
  <2>4. QED
    BY <2>1, <2>2, <2>3
<1>10. Cached(cache)' = {} /\ Running' = {} /\ Listed' = {}
  <2>1. Cached(cache)' = Cached(cache') /\ Listed' = Members(openRS')
    BY DEF Cached, Listed, Members
  <2>2. QED
    BY <1>2, <2>1, CachedEmpty, MembersEmpty DEF Running
<1> HIDE DEF K, S, D
<1>11. TypeOK'
  <2>1. cache' \in [Queries -> SUBSET Stmts] /\ openRS' \in Seq(ResultSets)
    BY <1>2, CachedEmpty, MembersEmpty
  <2>2. cursor' \in [Stmts -> 0..MaxRows]
    BY <1>2, MaxRowsAssumption DEF Inv, TypeOK
  <2>3. QED
    BY <1>2, <1>4, <1>9, <2>1, <2>2 DEF Inv, TypeOK
<1>12. NoLeakedStatement' /\ OwnershipConsistent'
  BY <1>2, <1>4, <1>9, <1>10 DEF NoLeakedStatement, OwnershipConsistent
<1>13. StatementExclusive' /\ OpenResultSetsTracked'
  <2>1. \A i, j \in DOMAIN openRS' : openRS'[i] = openRS'[j] => i = j
    BY <1>2, MembersEmpty DEF NoDuplicates
  <2>2. QED
    BY <1>4, <2>1 DEF StatementExclusive, OpenResultSetsTracked
<1>14. NoHandleMisuse' /\ NothingOutlivesConnection' /\ FlagTellsTheTruth'
  BY <1>2, <1>4, <1>9 DEF Inv, NoHandleMisuse, NothingOutlivesConnection, FlagTellsTheTruth
<1>15. QED
  BY <1>11, <1>12, <1>13, <1>14 DEF Inv

-------------------------------------------------------------------------------
(* The invariant.                                                          *)

\* Nothing is open, cached or prepared initially.
LEMMA InitInv == Init => Inv
<1> SUFFICES ASSUME Init PROVE Inv
  OBVIOUS
<1> USE DEF Init
<1>1. cache = EmptyCache /\ Cached(cache) = {} /\ cache \in [Queries -> SUBSET Stmts]
  BY CachedEmpty DEF EmptyCache
<1>2. Listed = {} /\ NoDuplicates(openRS) /\ openRS \in Seq(ResultSets)
  BY MembersEmpty DEF Listed, Members
<1>3. TypeOK
  <2>1. cursor \in [Stmts -> 0..MaxRows]
    BY MaxRowsAssumption
  <2>2. stmtOf \in [ResultSets -> Stmts \union {NoStmt}]
    OBVIOUS
  <2>3. QED
    BY <1>1, <1>2, <2>1, <2>2 DEF TypeOK
<1>4. NoHandleMisuse /\ NoLeakedStatement /\ OwnershipConsistent /\ StatementExclusive
  BY <1>1, NoStmtAssumption
     DEF NoHandleMisuse, NoLeakedStatement, OwnershipConsistent, StatementExclusive
<1>5. OpenResultSetsTracked /\ NothingOutlivesConnection /\ FlagTellsTheTruth
  BY <1>2 DEF OpenResultSetsTracked, NoDuplicates, NothingOutlivesConnection, FlagTellsTheTruth
<1>6. QED
  BY <1>3, <1>4, <1>5 DEF Inv

\* Every step of a disciplined client, and of the callbacks it registers,
\* preserves the invariant.
LEMMA NextInv ==
    ASSUME Disciplined, Inv, [Next]_vars
    PROVE  Inv'
<1> DEFINE Parts == /\ NoLeakedStatement /\ OwnershipConsistent /\ StatementExclusive
                    /\ OpenResultSetsTracked
<1>1. ASSUME UNCHANGED <<cache, openRS, stmtOf, parented, ptr, inUse, live, frames>>
      PROVE  Parts'
  <2>1. Listed' = Listed /\ Running' = Running /\ Cached(cache)' = Cached(cache)
    BY <1>1 DEF Listed, Running, Cached
  <2>2. QED
    BY <1>1, <2>1 DEF Inv, NoLeakedStatement, OwnershipConsistent, StatementExclusive,
                      OpenResultSetsTracked
<1>2. CASE UNCHANGED vars
  BY <1>1, <1>2 DEF vars, Inv, TypeOK, NoHandleMisuse, NothingOutlivesConnection, FlagTellsTheTruth
<1>3. CASE Open
  BY <1>1, <1>3 DEF Open, Inv, TypeOK, NoHandleMisuse, NothingOutlivesConnection, FlagTellsTheTruth
<1>4. ASSUME NEW b \in BOOLEAN, setShouldCacheStatements(b)
      PROVE  Inv'
  BY <1>1, <1>4 DEF setShouldCacheStatements, Inv, TypeOK, NoHandleMisuse,
                    NothingOutlivesConnection, FlagTellsTheTruth
<1>5. ASSUME NEW q \in Queries, PrepareFails(q)
      PROVE  Inv'
  BY <1>1, <1>5 DEF PrepareFails, CanExecute, Inv, TypeOK, NoHandleMisuse,
                    NothingOutlivesConnection, FlagTellsTheTruth
<1>6. ASSUME NEW q \in Queries, NEW s \in Stmts, ParametersMismatch(q, s)
      PROVE  Inv'
  <2>1. /\ Prepares(q, s) /\ Hits(q) = {} /\ resetMisuse(q, s)
        /\ live' = live \ {s} /\ executing' = FALSE
        /\ UNCHANGED <<conn, shouldCache, cache, openRS, stmtOf, parented, held,
                       ptr, inUse, cursor, frames>>
    BY <1>6 DEF ParametersMismatch, Disciplined
  <2>2. s \notin live /\ frames = {} /\ misuse' = FALSE
    BY <2>1, PreparedHasNoUser
  <2>3. live' = live
    BY <2>1, <2>2
  <2>4. QED
    BY <1>1, <2>1, <2>2, <2>3 DEF Inv, TypeOK, NoHandleMisuse,
                                  NothingOutlivesConnection, FlagTellsTheTruth
<1>7. ASSUME NEW r \in ResultSets, LockResultSet(r)
      PROVE  Inv'
  BY <1>1, <1>7 DEF LockResultSet, Inv, TypeOK, NoHandleMisuse,
                    NothingOutlivesConnection, FlagTellsTheTruth
<1>8. ASSUME NEW r \in ResultSets, NextRow(r)
      PROVE  Inv'
  <2>1. /\ stmtOf[r] \in Stmts /\ cursor[stmtOf[r]] \in 0..MaxRows
        /\ cursor[stmtOf[r]] < MaxRows
        /\ cursor' = [cursor EXCEPT ![stmtOf[r]] = cursor[stmtOf[r]] + 1]
        /\ UNCHANGED <<conn, shouldCache, executing, cache, openRS, stmtOf, parented,
                       held, ptr, inUse, live, frames, misuse>>
    BY <1>8 DEF NextRow, Inv, TypeOK
  <2>2. cursor[stmtOf[r]] + 1 \in 0..MaxRows
    BY <2>1, MaxRowsAssumption
  <2>3. cursor' \in [Stmts -> 0..MaxRows]
    BY <2>1, <2>2 DEF Inv, TypeOK
  <2>4. QED
    BY <1>1, <2>1, <2>3 DEF Inv, TypeOK, NoHandleMisuse,
                            NothingOutlivesConnection, FlagTellsTheTruth
<1>9. NoDuplicates(openRS) /\ openRS \in Seq(ResultSets) /\ Listed = Members(openRS)
  BY DEF Inv, TypeOK, OpenResultSetsTracked, NoDuplicates, Listed, Members
<1>10. ASSUME NEW r \in ResultSets, DropResultSet(r)
       PROVE  Inv'
  <2>1. /\ {r} \ Listed \in SUBSET ResultSets /\ closeOnly({r} \ Listed)
        /\ openRS' = openRS /\ held' \in SUBSET ResultSets
    BY <1>10 DEF DropResultSet, Inv, TypeOK
  <2>2. QED
    BY <1>9, <2>1, ClosePreserves
<1>11. ASSUME NEW r \in ResultSets, CloseResultSet(r)
       PROVE  Inv'
  <2>1. /\ {r} \in SUBSET ResultSets /\ closeOnly({r})
        /\ openRS' = IF r \in parented THEN resultSetDidClose(r) ELSE openRS
        /\ held' \in SUBSET ResultSets
    BY <1>11 DEF CloseResultSet, Inv, TypeOK
  <2>2. /\ openRS' \in Seq(ResultSets) /\ NoDuplicates(openRS')
        /\ Listed \ {r} \subseteq Members(openRS')
    BY <1>9, <2>1, MembersErase
  <2>3. QED
    BY <2>1, <2>2, ClosePreserves
<1>12. CASE CloseOpenResultSets
  <2>1. /\ closeOnly(Listed) /\ openRS' = <<>> /\ held' \in SUBSET ResultSets
    BY <1>12, CloseAllClosesListed DEF CloseOpenResultSets, Disciplined, Inv, TypeOK
  <2>2. Listed \in SUBSET ResultSets
    BY DEF Listed, Inv, TypeOK
  <2>3. QED
    BY <2>1, <2>2, MembersEmpty, ClosePreserves
<1>13. CASE Close
  BY <1>13, CloseConnectionPreserves
<1>14. CASE ClearCachedStatements
  BY <1>14, ClearPreserves
<1>15. QED
  BY <1>2, <1>3, <1>4, <1>5, <1>6, <1>7, <1>8, <1>10, <1>11, <1>12, <1>13, <1>14,
     ConvenienceQueryPreserves, UpdateBeginPreserves, UpdateEndPreserves,
     ExecuteQueryPreserves
     DEF Next

\* The invariant holds in every reachable state: no handle is used after it
\* was finalized (NoHandleMisuse), none leaks, no two users share one.
THEOREM Safety ==
    ASSUME Disciplined
    PROVE  Spec => []Inv
<1>1. Init => Inv
  BY InitInv
<1>2. Inv /\ [Next]_vars => Inv'
  BY NextInv
<1>3. QED
  BY <1>1, <1>2, PTL DEF Spec

\* No handle reaches SQLite after sqlite3_finalize.
THEOREM HandleSafety ==
    ASSUME Disciplined
    PROVE  Spec => []NoHandleMisuse
<1>1. Inv => NoHandleMisuse
  BY DEF Inv
<1>2. QED
  BY <1>1, Safety, PTL

\* No two users of the connection ever share a prepared statement.
THEOREM Exclusion ==
    ASSUME Disciplined
    PROVE  Spec => []StatementExclusive
<1>1. Inv => StatementExclusive
  BY DEF Inv
<1>2. QED
  BY <1>1, Safety, PTL

\* Every prepared statement can be reached and will be finalized.
THEOREM NoLeak ==
    ASSUME Disciplined
    PROVE  Spec => []NoLeakedStatement
<1>1. Inv => NoLeakedStatement
  BY DEF Inv
<1>2. QED
  BY <1>1, Safety, PTL

\* The cache, the result sets and the running updates agree on who owns a
\* handle: what FMStatement wraps is live, what can be stepped is in use.
THEOREM Ownership ==
    ASSUME Disciplined
    PROVE  Spec => []OwnershipConsistent
<1>1. Inv => OwnershipConsistent
  BY DEF Inv
<1>2. QED
  BY <1>1, Safety, PTL

\* _openResultSets lists every result set that still has its statement or
\* its _parentDB, none of them twice.
THEOREM AllTracked ==
    ASSUME Disciplined
    PROVE  Spec => []OpenResultSetsTracked
<1>1. Inv => OpenResultSetsTracked
  BY DEF Inv
<1>2. QED
  BY <1>1, Safety, PTL

\* After close() no result set can reach the connection, and a connection
\* that is closed or failed to open owns no handle.
THEOREM NothingOutlives ==
    ASSUME Disciplined
    PROVE  Spec => []NothingOutlivesConnection
<1>1. Inv => NothingOutlivesConnection
  BY DEF Inv
<1>2. QED
  BY <1>1, Safety, PTL

\* _isExecutingStatement is set exactly while executeUpdate is inside
\* sqlite3_step, through every error return and re-entrant call.
THEOREM HonestFlag ==
    ASSUME Disciplined
    PROVE  Spec => []FlagTellsTheTruth
<1>1. Inv => FlagTellsTheTruth
  BY DEF Inv
<1>2. QED
  BY <1>1, Safety, PTL

\* Every variable of FMDatabase keeps its type.
THEOREM TypeSafety ==
    ASSUME Disciplined
    PROVE  Spec => []TypeOK
<1>1. Inv => TypeOK
  BY DEF Inv
<1>2. QED
  BY <1>1, Safety, PTL

-------------------------------------------------------------------------------
(* Result sets are private cursors.                                        *)

\* A step that leaves the statements of open result sets alone is invisible
\* to them.
LEMMA CursorsStutter ==
    ASSUME Inv, stmtOf' = stmtOf,
           \A r \in ResultSets : /\ stmtOf[r] \in ptr' <=> stmtOf[r] \in ptr
                                 /\ stmtOf[r] \in ptr => cursor'[stmtOf[r]] = cursor[stmtOf[r]]
    PROVE  UNCHANGED Cursors!cursorVars
<1>1. Steppable' = Steppable
  BY DEF Steppable
<1>2. Position' = Position
  BY <1>1 DEF Position, Steppable
<1>3. QED
  BY <1>1, <1>2 DEF Cursors!cursorVars

\* FMResultSet::close ends the result sets it is called on and no others.
LEMMA CloseFinishes ==
    ASSUME Inv, NEW C \in SUBSET ResultSets, closeOnly(C)
    PROVE  Cursors!Finish(C)
<1>1. /\ stmtOf' = [r \in ResultSets |-> IF r \in C THEN NoStmt ELSE stmtOf[r]]
      /\ ptr' = ptr \ DestroyedBy(C, cache)
      /\ cursor' = [s \in Stmts |-> IF s \in ResetBy(C) THEN 0 ELSE cursor[s]]
  BY DEF closeOnly, closeResultSets
<1>2. NoStmt \notin ptr
  BY NoStmtAssumption DEF Inv, TypeOK
<1>3. ASSUME NEW r \in ResultSets \ C, stmtOf[r] \in ptr
      PROVE  stmtOf[r] \notin ResetBy(C) /\ stmtOf[r] \in Stmts
  BY <1>2, <1>3 DEF ResetBy, Inv, StatementExclusive, TypeOK
<1>4. Steppable' = Steppable \ C
  BY <1>1, <1>2, <1>3 DEF Steppable, DestroyedBy
<1>5. Position' = [r \in ResultSets |-> IF r \in C THEN 0 ELSE Position[r]]
  BY <1>1, <1>3, <1>4 DEF Position, Steppable
<1>6. QED
  BY <1>4, <1>5 DEF Cursors!Finish

\* Every step is a step of the private cursors, or invisible to them.
LEMMA NextCursors ==
    ASSUME Disciplined, Inv, [Next]_vars
    PROVE  [Cursors!Next]_(Cursors!cursorVars)
<1> USE NoStmtAssumption
<1>1. NoStmt \notin ptr
  BY DEF Inv, TypeOK
<1>2. ASSUME UNCHANGED <<stmtOf, ptr, cursor>>
      PROVE  UNCHANGED Cursors!cursorVars
  BY <1>2, CursorsStutter
<1>3. CASE UNCHANGED vars
  BY <1>2, <1>3 DEF vars
<1>4. CASE Open
  BY <1>2, <1>4 DEF Open
<1>5. ASSUME NEW b \in BOOLEAN, setShouldCacheStatements(b)
      PROVE  UNCHANGED Cursors!cursorVars
  BY <1>2, <1>5 DEF setShouldCacheStatements
<1>6. ASSUME NEW q \in Queries, PrepareFails(q)
      PROVE  UNCHANGED Cursors!cursorVars
  BY <1>2, <1>6 DEF PrepareFails
<1>7. ASSUME NEW q \in Queries, NEW s \in Stmts, ParametersMismatch(q, s)
      PROVE  UNCHANGED Cursors!cursorVars
  BY <1>2, <1>7 DEF ParametersMismatch
<1>8. ASSUME NEW r \in ResultSets, LockResultSet(r)
      PROVE  UNCHANGED Cursors!cursorVars
  BY <1>2, <1>8 DEF LockResultSet
<1>9. ASSUME NEW q \in Queries, NEW s \in Stmts, Prepares(q, s), stmtOf' = stmtOf,
             ptr \subseteq ptr', ptr' \subseteq ptr \union {s},
             cursor' = [cursor EXCEPT ![s] = 0]
      PROVE  UNCHANGED Cursors!cursorVars
  <2>1. \A r \in ResultSets : stmtOf[r] # s
    BY <1>9, PreparedHasNoUser
  <2>2. \A r \in ResultSets : stmtOf[r] \in ptr' <=> stmtOf[r] \in ptr
    BY <1>9, <2>1
  <2>3. \A r \in ResultSets : stmtOf[r] \in ptr => cursor'[stmtOf[r]] = cursor[stmtOf[r]]
    BY <1>9, <2>1 DEF Inv, TypeOK
  <2>4. QED
    BY <1>9, <2>2, <2>3, CursorsStutter
<1>10. ASSUME NEW q \in Queries, NEW s \in Stmts, ConvenienceQuery(q, s)
       PROVE  UNCHANGED Cursors!cursorVars
  BY <1>9, <1>10 DEF ConvenienceQuery
<1>11. ASSUME NEW q \in Queries, NEW s \in Stmts, UpdateBegin(q, s)
       PROVE  UNCHANGED Cursors!cursorVars
  BY <1>9, <1>11 DEF UpdateBegin
<1>12. ASSUME NEW f \in frames, UpdateEnd(f)
       PROVE  UNCHANGED Cursors!cursorVars
  <2>1. f.stmt \in Running /\ f.stmt \in Stmts
    BY DEF Running, Inv, TypeOK, Frame
  <2>2. \A r \in ResultSets : stmtOf[r] # f.stmt
    BY <2>1 DEF Inv, StatementExclusive
  <2>3. QED
    BY <1>12, <2>2, CursorsStutter DEF UpdateEnd
<1>13. ASSUME NEW q \in Queries, NEW s \in Stmts, NEW r \in ResultSets,
              ExecuteQuery(q, s, r)
       PROVE  Cursors!Create(r)
  <2>1. /\ Prepares(q, s) /\ Dead(r)
        /\ ptr' = ptr \union {s}
        /\ cursor' = [cursor EXCEPT ![s] = 0]
        /\ stmtOf' = [stmtOf EXCEPT ![r] = s]
    BY <1>13 DEF ExecuteQuery
  <2>2. \A t \in ResultSets : stmtOf[t] # s
    BY <2>1, PreparedHasNoUser
  <2>3. stmtOf[r] = NoStmt
    BY <2>1 DEF Dead, Inv, OpenResultSetsTracked
  <2>4. /\ stmtOf'[r] = s /\ cursor'[s] = 0
        /\ \A t \in ResultSets \ {r} : stmtOf'[t] = stmtOf[t]
        /\ \A u \in Stmts \ {s} : cursor'[u] = cursor[u]
    BY <2>1 DEF Inv, TypeOK
  <2>5. r \notin Steppable /\ Steppable' = Steppable \union {r}
    BY <1>1, <2>1, <2>2, <2>3, <2>4 DEF Steppable
  <2>6. ASSUME NEW t \in ResultSets
        PROVE  Position'[t] = Position[t]
    <3>1. CASE t = r
      BY <2>4, <2>5, <3>1 DEF Position
    <3>2. CASE t # r
      BY <2>2, <2>4, <2>5, <3>2 DEF Position, Steppable, Inv, TypeOK
    <3>3. QED
      BY <3>1, <3>2
  <2>7. Position' = Position
    BY <2>6 DEF Position
  <2>8. QED
    BY <2>5, <2>7 DEF Cursors!Create
<1>14. ASSUME NEW r \in ResultSets, NextRow(r)
       PROVE  Cursors!Advance(r)
  <2>1. /\ stmtOf[r] \in ptr /\ stmtOf[r] \in Stmts
        /\ cursor' = [cursor EXCEPT ![stmtOf[r]] = cursor[stmtOf[r]] + 1]
        /\ UNCHANGED <<stmtOf, ptr>>
    BY <1>14 DEF NextRow, Inv, TypeOK
  <2>2. Steppable' = Steppable /\ r \in Steppable
    BY <2>1 DEF Steppable
  <2>3. \A t \in ResultSets \ {r} : t \in Steppable => stmtOf[t] # stmtOf[r]
    BY <1>1, <2>1 DEF Steppable, Inv, StatementExclusive
  <2>4. Position' = [Position EXCEPT ![r] = Position[r] + 1]
    <3>1. /\ cursor'[stmtOf[r]] = cursor[stmtOf[r]] + 1
          /\ \A u \in Stmts \ {stmtOf[r]} : cursor'[u] = cursor[u]
      BY <2>1 DEF Inv, TypeOK
    <3>2. ASSUME NEW t \in ResultSets
          PROVE  Position'[t] = IF t = r THEN Position[r] + 1 ELSE Position[t]
      <4>1. CASE t = r
        BY <2>1, <2>2, <3>1, <4>1 DEF Position
      <4>2. CASE t # r
        <5>1. t \in Steppable => stmtOf[t] \in Stmts \ {stmtOf[r]}
          BY <2>3, <4>2 DEF Steppable, Inv, TypeOK
        <5>2. QED
          BY <2>1, <2>2, <3>1, <4>2, <5>1 DEF Position
      <4>3. QED
        BY <4>1, <4>2
    <3>3. QED
      BY <3>2 DEF Position
  <2>5. QED
    BY <2>2, <2>4 DEF Cursors!Advance
<1>15. ASSUME NEW r \in ResultSets, DropResultSet(r)
       PROVE  \E C \in SUBSET ResultSets : Cursors!Finish(C)
  BY <1>15, CloseFinishes DEF DropResultSet
<1>16. ASSUME NEW r \in ResultSets, CloseResultSet(r)
       PROVE  \E C \in SUBSET ResultSets : Cursors!Finish(C)
  BY <1>16, CloseFinishes DEF CloseResultSet
<1>17. Listed \in SUBSET ResultSets
  BY DEF Listed, Inv, TypeOK
<1>18. CASE CloseOpenResultSets
  <2>1. closeOnly(Listed)
    BY <1>18, CloseAllClosesListed DEF CloseOpenResultSets, Disciplined
  <2>2. QED
    BY <1>17, <2>1, CloseFinishes DEF Cursors!Next
<1>19. CASE Close
  <2>1. Inv' /\ conn' = "null"
    BY <1>19, CloseConnectionPreserves DEF Close
  <2>2. NoStmt \notin ptr' /\ \A r \in ResultSets : stmtOf'[r] = NoStmt
    BY <2>1 DEF Inv, TypeOK, NothingOutlivesConnection
  <2>3. Steppable' = {}
    BY <2>2 DEF Steppable
  <2>4. Position' = [r \in ResultSets |-> 0]
    BY <2>3 DEF Position
  <2>5. Cursors!Finish(ResultSets)
    BY <2>3, <2>4 DEF Cursors!Finish, Steppable
  <2>6. QED
    BY <2>5 DEF Cursors!Next
<1>20. CASE ClearCachedStatements
  <2> DEFINE K == Cached(cache)
             C == {r \in ResultSets : stmtOf[r] \in K}
  <2>1. /\ ptr' = ptr \ K /\ stmtOf' = stmtOf
        /\ cursor' = [s \in Stmts |-> IF s \in K THEN 0 ELSE cursor[s]]
    BY <1>20 DEF ClearCachedStatements
  <2> HIDE DEF K
  <2>2. Steppable' = Steppable \ C
    BY <2>1 DEF Steppable
  <2>3. Position' = [r \in ResultSets |-> IF r \in C THEN 0 ELSE Position[r]]
    BY <2>1, <2>2 DEF Position, Steppable, Inv, TypeOK
  <2>4. C \in SUBSET ResultSets /\ Cursors!Finish(C)
    BY <2>2, <2>3 DEF Cursors!Finish
  <2>5. QED
    BY <2>4 DEF Cursors!Next
<1>21. QED
  BY <1>3, <1>4, <1>5, <1>6, <1>7, <1>8, <1>10, <1>11, <1>12, <1>13, <1>14, <1>15,
     <1>16, <1>18, <1>19, <1>20
     DEF Next, Cursors!Next

\* FMDatabase implements ResultSetCursors: statement caching, closing and
\* re-entrant updates never move another result set's cursor.
THEOREM PrivateCursors ==
    ASSUME Disciplined
    PROVE  Spec => CursorsArePrivate
<1>1. Init => Cursors!Init
  <2> SUFFICES ASSUME Init PROVE Cursors!Init
    OBVIOUS
  <2>1. Steppable = {}
    BY DEF Init, Steppable
  <2>2. Position = [r \in ResultSets |-> 0]
    BY <2>1 DEF Position
  <2>3. QED
    BY <2>1, <2>2 DEF Cursors!Init
<1>2. Inv /\ [Next]_vars => [Cursors!Next]_(Cursors!cursorVars)
  BY NextCursors
<1>3. Spec => []Inv
  BY Safety
<1>4. QED
  BY <1>1, <1>2, <1>3, PTL DEF Spec, CursorsArePrivate, Cursors!Spec
===============================================================================
