------------------------------ MODULE FMDatabase ------------------------------
(***************************************************************************)
(* One connection, FMDatabase, with its statement cache, its list of open  *)
(* result sets and the FMStatement and FMResultSet objects that share      *)
(* SQLite's prepared statements between them (src/FMDB-CPP/c++).           *)
(*                                                                         *)
(* One identity of Stmts stands for a sqlite3_stmt and for the FMStatement *)
(* that wraps it: the code never gives a handle to two wrappers.           *)
(*                                                                         *)
(* executeUpdate is two actions because sqlite3_step may call an SQL       *)
(* function of the client's (makeFunctionNamed), which may call back into  *)
(* this object; everything else runs to completion.                        *)
(***************************************************************************)
EXTENDS Naturals, Sequences, SequencesExt

CONSTANTS
    Queries,             \* SQL texts: the keys of the statement cache
    Stmts,               \* prepared statements (bound: how many at a time)
    ResultSets,          \* FMResultSet objects (bound: how many at a time)
    NoStmt,              \* an empty shared_ptr<FMStatement>
    MaxRows,             \* rows any query returns (bound)
    MismatchOnCached,    \* may the client pass a wrong number of arguments
                         \* to a query whose statement is cached?
    HoldsSkipped         \* may the client hold a shared_ptr to a result set
                         \* that closeOpenResultSets skips?

ASSUME NoStmtAssumption == NoStmt \notin Stmts
ASSUME MaxRowsAssumption == MaxRows \in Nat
ASSUME ClientAssumption == MismatchOnCached \in BOOLEAN /\ HoldsSkipped \in BOOLEAN

VARIABLES
    conn,         \* _db: "null", "good", or "sick" (left by a failed open)
    shouldCache,  \* _shouldCacheStatements
    executing,    \* _isExecutingStatement
    cache,        \* _cachedStatements, each vector as the set of its elements
    openRS,       \* _openResultSets
    stmtOf,       \* FMResultSet::_statement of each result set
    parented,     \* result sets whose _parentDB is not null
    held,         \* result sets the client holds a shared_ptr to
    ptr,          \* statements whose FMStatement::_statement is not null
    inUse,        \* statements whose FMStatement::_inUse is true
    live,         \* handles SQLite has prepared and not finalized
    cursor,       \* rows each handle has returned since its last reset
    frames,       \* calls of executeUpdate that are inside sqlite3_step
    misuse        \* a finalized handle was given to SQLite

vars == <<conn, shouldCache, executing, cache, openRS, stmtOf, parented, held,
          ptr, inUse, live, cursor, frames, misuse>>

\* Locals of a running executeUpdate: pStmt, sql, and whether `statement`
\* came out of the cache.
Frame == [stmt : Stmts, query : Queries, hit : BOOLEAN]

TypeOK ==
    /\ conn \in {"null", "good", "sick"}
    /\ shouldCache \in BOOLEAN
    /\ executing \in BOOLEAN
    /\ cache \in [Queries -> SUBSET Stmts]
    /\ openRS \in Seq(ResultSets)
    /\ stmtOf \in [ResultSets -> Stmts \union {NoStmt}]
    /\ parented \subseteq ResultSets
    /\ held \subseteq ResultSets
    /\ ptr \subseteq Stmts
    /\ inUse \subseteq Stmts
    /\ live \subseteq Stmts
    /\ cursor \in [Stmts -> 0..MaxRows]
    /\ frames \subseteq Frame
    /\ misuse \in BOOLEAN

-------------------------------------------------------------------------------
(* Derived state.                                                          *)

Cached(c) == UNION {c[q] : q \in Queries}

Listed == {openRS[i] : i \in DOMAIN openRS}

Running == {f.stmt : f \in frames}

\* An FMStatement exists while the cache, a result set or a running update
\* refers to it; a new one is made with a handle that is not in use.
Fresh(s) == s \notin Cached(cache) \union live \union Running
            /\ \A r \in ResultSets : stmtOf[r] # s

\* The result set's object is gone, so its identity may be used again.
Dead(r) == r \notin held /\ r \notin Listed

\* SQLite's rule for application-defined functions: they do not close the
\* connection nor finalize the statement in which they run.
NotInCallback == frames = {}

-------------------------------------------------------------------------------
(* Helpers: the statement cache and the list of open result sets.          *)

\* Mutant: the lookup forgets to test inUse().
cachedStatementForQuery_AnyStatement(q) == cache[q]

\* cachedStatementForQuery: the statements it may return.  It takes the
\* first that is not in use; which one is first is left open.
cachedStatementForQuery(q) == {s \in cache[q] : s \notin inUse}

\* setCachedStatement
setCachedStatement(s, q) == [cache EXCEPT ![q] = @ \union {s}]

\* resultSetDidClose: erase the result set from the list, if it is there.
resultSetDidClose(r) ==
    IF r \in Listed
    THEN RemoveAt(openRS, CHOOSE i \in DOMAIN openRS :
                             openRS[i] = r /\ \A j \in 1..(i-1) : openRS[j] # r)
    ELSE openRS

\* The range-for of closeOpenResultSets runs over the vector from which
\* each close() erases the current element: what was next moves into the
\* slot just visited, so every second result set is skipped.  (Each moved
\* slot leaves a null shared_ptr behind, which the loop steps over.)
Skipped == {openRS[i] : i \in {k \in DOMAIN openRS : k % 2 = 0}}

\* Mutant: the list is cleared without closing anything.
ClosedByCloseAll_None == {}

\* Mutant: ~FMResultSet does not close, so what clear() destroys stays open.
ClosedByCloseAll_Visited == Listed \ Skipped

\* What closeOpenResultSets closes: the ones it visits, and those of the
\* rest that die, and close themselves, when clear() drops the last
\* reference to them.  Skipped ones that the client holds stay open.
ClosedByCloseAll == (Listed \ Skipped) \union (Listed \ held)

\* FMResultSet::close on every member of C, in a state where the cache is c
\* and the handles wrapped are p: FMStatement::reset, then the reference is
\* dropped, and a statement to which nothing refers any more is destroyed.
ResetBy(C) == {stmtOf[r] : r \in C} \ {NoStmt}
DestroyedBy(C, c) ==
    {s \in ResetBy(C) : s \notin Cached(c) /\ \A r \in ResultSets \ C : stmtOf[r] # s}

closeResultSets(C, c, p) ==
    /\ stmtOf' = [r \in ResultSets |-> IF r \in C THEN NoStmt ELSE stmtOf[r]]
    /\ parented' = parented \ C
    /\ ptr' = p \ DestroyedBy(C, c)
    /\ cursor' = [s \in Stmts |-> IF s \in ResetBy(C) THEN 0 ELSE cursor[s]]

\* closeResultSets when nothing else happens in the same call.
closeOnly(C) ==
    /\ closeResultSets(C, cache, ptr)
    /\ inUse' = inUse \ ResetBy(C)
    /\ live' = live \ (DestroyedBy(C, cache) \intersect ptr)
    /\ misuse' = (misuse \/ ~(ResetBy(C) \intersect ptr \subseteq live))
    /\ UNCHANGED <<conn, shouldCache, executing, cache, frames>>

-------------------------------------------------------------------------------
(* Opening, executing.                                                     *)

Init ==
    /\ conn = "null"
    /\ shouldCache = FALSE
    /\ executing = FALSE
    /\ cache = [q \in Queries |-> {}]
    /\ openRS = <<>>
    /\ stmtOf = [r \in ResultSets |-> NoStmt]
    /\ parented = {}
    /\ held = {}
    /\ ptr = {}
    /\ inUse = {}
    /\ live = {}
    /\ cursor = [s \in Stmts |-> 0]
    /\ frames = {}
    /\ misuse = FALSE

\* open, openWithFlags.  sqlite3_open leaves a handle even when it fails
\* (unless it cannot allocate one), and the code keeps it.
Open ==
    /\ conn = "null"
    /\ conn' \in {"good", "sick", "null"}
    /\ UNCHANGED <<shouldCache, executing, cache, openRS, stmtOf, parented,
                   held, ptr, inUse, live, cursor, frames, misuse>>

setShouldCacheStatements(value) ==
    /\ shouldCache' = value
    /\ UNCHANGED <<conn, executing, cache, openRS, stmtOf, parented, held,
                   ptr, inUse, live, cursor, frames, misuse>>

\* Mutant: the in-use check is missing.
CanExecute_IgnoresFlag == conn # "null"

\* executeQueryPrepareAndCheck up to the prepare: databaseExists, the
\* in-use check, the cache lookup.
CanExecute == conn # "null" /\ ~executing

Hits(q) == IF shouldCache THEN cachedStatementForQuery(q) ELSE {}

\* executeQueryPrepareAndCheck yields pStmt = s.  A sick connection prepares
\* nothing.
Prepares(q, s) ==
    /\ CanExecute
    /\ IF Hits(q) # {} THEN s \in Hits(q) ELSE conn = "good" /\ Fresh(s)

\* Its statement->reset() on a hit reaches SQLite.
resetMisuse(q, s) == misuse' = (misuse \/ (Hits(q) # {} /\ s \in ptr \ live))

\* Mutant: the error path returns without lowering the flag.
PrepareFails_FlagStays(q) ==
    /\ CanExecute
    /\ Hits(q) = {}
    /\ executing' = TRUE
    /\ UNCHANGED <<conn, shouldCache, cache, openRS, stmtOf, parented, held,
                   ptr, inUse, live, cursor, frames, misuse>>

\* sqlite3_prepare_v2 reports an error; the flag goes up and down again.
PrepareFails(q) ==
    /\ CanExecute
    /\ Hits(q) = {}
    /\ executing' = FALSE
    /\ UNCHANGED <<conn, shouldCache, cache, openRS, stmtOf, parented, held,
                   ptr, inUse, live, cursor, frames, misuse>>

\* executeQueryParametersCheck fails: pStmt is finalized, whether it was
\* prepared for this call or belongs to a cached FMStatement.
ParametersMismatch(q, s) ==
    /\ Prepares(q, s)
    /\ Hits(q) # {} => MismatchOnCached
    /\ resetMisuse(q, s)
    /\ live' = live \ {s}
    /\ executing' = FALSE
    /\ UNCHANGED <<conn, shouldCache, cache, openRS, stmtOf, parented, held,
                   ptr, inUse, cursor, frames>>

\* What executeQueryImpl does to the statement: on a miss an FMStatement is
\* made for it, and cached if caching is on.
wrapStatement(q, s) ==
    cache' = IF Hits(q) = {} /\ shouldCache THEN setCachedStatement(s, q) ELSE cache

\* executeQuery.  The weak_ptr it returns can be locked while r is listed.
ExecuteQuery(q, s, r) ==
    /\ Prepares(q, s)
    /\ Dead(r)
    /\ resetMisuse(q, s)
    /\ wrapStatement(q, s)
    /\ ptr' = ptr \union {s}
    /\ inUse' = inUse \union {s}
    /\ live' = IF Hits(q) = {} THEN live \union {s} ELSE live
    /\ cursor' = [cursor EXCEPT ![s] = 0]
    /\ stmtOf' = [stmtOf EXCEPT ![r] = s]
    /\ parented' = parented \union {r}
    /\ openRS' = Append(openRS, r)
    /\ executing' = FALSE
    /\ UNCHANGED <<conn, shouldCache, held, frames>>

\* intForQuery and its siblings, tableExists, columnExistsInTable,
\* isGoodConnection, userVersion, applicationID and their setters: a result
\* set that is opened, stepped and closed before the call returns.
ConvenienceQuery(q, s) ==
    /\ Prepares(q, s)
    /\ resetMisuse(q, s)
    /\ wrapStatement(q, s)
    /\ IF Hits(q) = {} /\ shouldCache
       THEN ptr' = ptr \union {s} /\ live' = live \union {s}
       ELSE UNCHANGED <<ptr, live>>
    /\ cursor' = [cursor EXCEPT ![s] = 0]
    /\ executing' = FALSE
    /\ UNCHANGED <<conn, shouldCache, openRS, stmtOf, parented, held, inUse, frames>>

\* executeUpdate up to and into sqlite3_step.  Unlike executeQuery it does
\* not mark the statement in use: only the flag protects it.
UpdateBegin(q, s) ==
    /\ Prepares(q, s)
    /\ resetMisuse(q, s)
    /\ executing' = TRUE
    /\ frames' = frames \union {[stmt |-> s, query |-> q, hit |-> Hits(q) # {}]}
    /\ live' = IF Hits(q) = {} THEN live \union {s} ELSE live
    /\ cursor' = [cursor EXCEPT ![s] = 0]
    /\ UNCHANGED <<conn, shouldCache, cache, openRS, stmtOf, parented, held, ptr, inUse>>

\* What both mutants of executeUpdateImpl share with it.
updateEndBut(f, handles) ==
    /\ f \in frames
    /\ cache' = IF shouldCache /\ ~f.hit THEN setCachedStatement(f.stmt, f.query) ELSE cache
    /\ ptr' = IF shouldCache /\ ~f.hit THEN ptr \union {f.stmt} ELSE ptr
    /\ live' = handles
    /\ misuse' = (misuse \/ f.stmt \notin live)
    /\ frames' = frames \ {f}
    /\ executing' = FALSE
    /\ UNCHANGED <<conn, shouldCache, openRS, stmtOf, parented, held, inUse, cursor>>

\* Mutant: sqlite3_reset where sqlite3_finalize is needed.
UpdateEnd_NeverFinalizes(f) == updateEndBut(f, live)

\* Mutant: a statement that came out of the cache is finalized, too.
UpdateEnd_FinalizesCached(f) ==
    updateEndBut(f, IF shouldCache /\ ~f.hit THEN live ELSE live \ {f.stmt})

\* executeUpdateImpl after sqlite3_step: _shouldCacheStatements is read
\* again, and decides whether a new statement is kept or finalized.
UpdateEnd(f) ==
    LET keeps == shouldCache /\ ~f.hit IN
    /\ f \in frames
    /\ cache' = IF keeps THEN setCachedStatement(f.stmt, f.query) ELSE cache
    /\ ptr' = IF keeps THEN ptr \union {f.stmt} ELSE ptr
    /\ live' = IF keeps \/ f.hit THEN live ELSE live \ {f.stmt}
    /\ misuse' = (misuse \/ f.stmt \notin live)
    /\ frames' = frames \ {f}
    /\ executing' = FALSE
    /\ UNCHANGED <<conn, shouldCache, openRS, stmtOf, parented, held, inUse, cursor>>

-------------------------------------------------------------------------------
(* Result sets.                                                            *)

\* weak_ptr::lock on a result set that the list keeps alive.
LockResultSet(r) ==
    /\ r \in Listed
    /\ held' = held \union {r}
    /\ UNCHANGED <<conn, shouldCache, executing, cache, openRS, stmtOf, parented,
                   ptr, inUse, live, cursor, frames, misuse>>

\* The client's shared_ptr goes away; if it was the last reference, the
\* destructor closes the result set, which is not in the list any more.
DropResultSet(r) ==
    /\ r \in held
    /\ held' = held \ {r}
    /\ closeOnly({r} \ Listed)
    /\ UNCHANGED openRS

\* Mutant: SQLITE_DONE is taken for a row.
NextRow_IgnoresDone(r) ==
    /\ r \in held
    /\ stmtOf[r] \in ptr \intersect live
    /\ cursor' = [cursor EXCEPT ![stmtOf[r]] = @ + 1]
    /\ UNCHANGED <<conn, shouldCache, executing, cache, openRS, stmtOf, parented,
                   held, ptr, inUse, live, frames, misuse>>

\* next, nextWithError when sqlite3_step returns SQLITE_ROW.
NextRow(r) ==
    /\ r \in held
    /\ stmtOf[r] \in ptr \intersect live
    /\ cursor[stmtOf[r]] < MaxRows
    /\ cursor' = [cursor EXCEPT ![stmtOf[r]] = @ + 1]
    /\ UNCHANGED <<conn, shouldCache, executing, cache, openRS, stmtOf, parented,
                   held, ptr, inUse, live, frames, misuse>>

\* close, called by the client or by nextWithError on anything but a row:
\* the end of the rows, an error, or SQLITE_MISUSE because the statement
\* has been closed.
CloseResultSet(r) ==
    /\ r \in held
    /\ closeOnly({r})
    /\ openRS' = IF r \in parented THEN resultSetDidClose(r) ELSE openRS
    /\ UNCHANGED held

CloseOpenResultSets ==
    /\ HoldsSkipped \/ Skipped \intersect held = {}
    /\ closeOnly(ClosedByCloseAll)
    /\ openRS' = <<>>
    /\ UNCHANGED held

-------------------------------------------------------------------------------
(* The cache and the connection.                                           *)

EmptyCache == [q \in Queries |-> {}]

\* Mutant: FMStatement::close finalizes the handle but keeps the pointer.
ClearCachedStatements_KeepsPointer ==
    LET K == Cached(cache) IN
    /\ NotInCallback
    /\ cache' = EmptyCache
    /\ inUse' = inUse \ K
    /\ live' = live \ (K \intersect ptr)
    /\ cursor' = [s \in Stmts |-> IF s \in K THEN 0 ELSE cursor[s]]
    /\ misuse' = (misuse \/ ~(K \intersect ptr \subseteq live))
    /\ UNCHANGED <<conn, shouldCache, executing, openRS, stmtOf, parented, held, ptr, frames>>

ClearCachedStatements ==
    LET K == Cached(cache) IN
    /\ NotInCallback
    /\ cache' = EmptyCache
    /\ ptr' = ptr \ K
    /\ inUse' = inUse \ K
    /\ live' = live \ (K \intersect ptr)
    /\ cursor' = [s \in Stmts |-> IF s \in K THEN 0 ELSE cursor[s]]
    /\ misuse' = (misuse \/ ~(K \intersect ptr \subseteq live))
    /\ UNCHANGED <<conn, shouldCache, executing, openRS, stmtOf, parented, held, frames>>

\* The loop of close(): sqlite3_close, and on SQLITE_BUSY every statement
\* SQLite still knows is finalized before it is tried once more.
finalizeLeaked(l) == IF conn = "null" THEN l ELSE {}

\* close and the destructor.
Close ==
    LET K == Cached(cache)
        C == ClosedByCloseAll
        D == DestroyedBy(C, EmptyCache)
    IN
    /\ NotInCallback
    /\ HoldsSkipped \/ Skipped \intersect held = {}
    /\ cache' = EmptyCache
    /\ closeResultSets(C, EmptyCache, ptr \ K)
    /\ inUse' = inUse \ (K \union ResetBy(C))
    /\ live' = finalizeLeaked(live \ ((K \union D) \intersect ptr))
    /\ misuse' = (misuse \/ ~((K \union ResetBy(C)) \intersect ptr \subseteq live))
    /\ openRS' = <<>>
    /\ conn' = "null"
    /\ UNCHANGED <<shouldCache, executing, held, frames>>

-------------------------------------------------------------------------------
Next ==
    \/ Open
    \/ Close
    \/ ClearCachedStatements
    \/ CloseOpenResultSets
    \/ \E b \in BOOLEAN : setShouldCacheStatements(b)
    \/ \E q \in Queries : PrepareFails(q)
    \/ \E q \in Queries, s \in Stmts : ParametersMismatch(q, s)
    \/ \E q \in Queries, s \in Stmts : ConvenienceQuery(q, s)
    \/ \E q \in Queries, s \in Stmts : UpdateBegin(q, s)
    \/ \E f \in frames : UpdateEnd(f)
    \/ \E q \in Queries, s \in Stmts, r \in ResultSets : ExecuteQuery(q, s, r)
    \/ \E r \in ResultSets : LockResultSet(r)
    \/ \E r \in ResultSets : DropResultSet(r)
    \/ \E r \in ResultSets : NextRow(r)
    \/ \E r \in ResultSets : CloseResultSet(r)

Spec == Init /\ [][Next]_vars

-------------------------------------------------------------------------------
(* Properties.                                                             *)

\* No handle is given to SQLite after it has been finalized, whatever mix of
\* cached statements, result sets, closes and cache clears led here.
\* (sqlite3_finalize: "a grievous error"; FMStatement::close and reset,
\* executeQueryPrepareAndCheck, executeUpdateImpl.)
NoHandleMisuse == ~misuse

\* Every handle SQLite has prepared can still be reached and will be
\* finalized: from the cache, from a listed result set, or by the update that
\* runs it.  So close() never meets SQLITE_BUSY from a leaked statement.
NoLeakedStatement ==
    live \subseteq Cached(cache) \union {stmtOf[r] : r \in Listed} \union Running

\* The wrappers agree with SQLite: what is cached or wrapped can be used, a
\* handle that nobody wraps belongs to the update that runs it, and a
\* statement that a result set can step is marked in use, so that the cache
\* does not hand it out.
OwnershipConsistent ==
    /\ Cached(cache) \subseteq ptr
    /\ ptr \subseteq live
    /\ live \subseteq ptr \union Running
    /\ \A r \in ResultSets : stmtOf[r] \in ptr => stmtOf[r] \in inUse
    /\ \A f \in frames :
          /\ f.stmt \in live
          /\ f.stmt \in ptr => f.hit
          /\ f.hit => f.stmt \in Cached(cache)

\* Two users never share a prepared statement: not two result sets, not a
\* result set and a running update, though only FMStatement::_inUse and
\* _isExecutingStatement keep the cache from handing one out twice.
StatementExclusive ==
    \A r \in ResultSets : stmtOf[r] # NoStmt =>
        /\ stmtOf[r] \notin Running
        /\ \A t \in ResultSets \ {r} : stmtOf[t] # stmtOf[r]

\* A result set that still has its statement or its _parentDB is in the
\* list of its database, once: resultSetDidClose, closeOpenResultSets and
\* close rely on the list being complete.
OpenResultSetsTracked ==
    /\ \A r \in ResultSets : (stmtOf[r] # NoStmt \/ r \in parented) => r \in Listed
    /\ \A i, j \in DOMAIN openRS : openRS[i] = openRS[j] => i = j

\* After close() no result set can reach the connection, and a connection
\* that is closed or failed to open owns no handle.
NothingOutlivesConnection ==
    /\ conn # "good" => live = {}
    /\ conn = "null" => \A r \in ResultSets : stmtOf[r] = NoStmt /\ r \notin parented

\* _isExecutingStatement is up exactly while an update is in sqlite3_step,
\* and there is one such update at most: the flag neither sticks after an
\* error path nor lets an SQL function start a second statement.
FlagTellsTheTruth ==
    /\ executing <=> frames # {}
    /\ \A f, g \in frames : f = g

\* The inductive invariant: everything above.
Inv ==
    /\ TypeOK
    /\ NoHandleMisuse
    /\ NoLeakedStatement
    /\ OwnershipConsistent
    /\ StatementExclusive
    /\ OpenResultSetsTracked
    /\ NothingOutlivesConnection
    /\ FlagTellsTheTruth

\* The result sets that can be stepped, and how far each has come: where
\* the statement it was given stands.
Steppable == {r \in ResultSets : stmtOf[r] \in ptr}
Position == [r \in ResultSets |-> IF r \in Steppable THEN cursor[stmtOf[r]] ELSE 0]

\* The result sets behave as private cursors: that they share prepared
\* statements through the cache, one after the other, is invisible to them.
Cursors == INSTANCE ResultSetCursors WITH open <- Steppable, position <- Position

CursorsArePrivate == Cursors!Spec

\* What testCloseOpenResultSets expects of closeOpenResultSets: afterwards
\* no result set steps.  When hasOpenResultSets() says there is none, no
\* result set the client holds has a statement left.
CloseAllClosesAll == openRS = <<>> => \A r \in held : stmtOf[r] = NoStmt
===============================================================================
