# FMDB-CPP: a verification project

FMDB-CPP (`src/FMDB-CPP/c++/`) is a C++ port of FMDB: an object wrapper around
SQLite with a statement cache, result sets, transactions, savepoints, a busy
handler and a queue that is meant to serialise the use of one connection by
many threads. This directory holds TLA+ modules that model it, TLC
configurations that check them on small instances, and TLAPS proofs.

File and line references are to `src/FMDB-CPP/c++/` unless they say otherwise.

## 1. Inventory

| Component | State | Operations | Hard behaviour | Correct when |
|---|---|---|---|---|
| `FMDatabase` | `_db`, `_isExecutingStatement`, `_shouldCacheStatements`, `_cachedStatements` (SQL text to vector of `FMStatement`), `_openResultSets` | open, close, executeQuery, executeUpdate, intForQuery..., clearCachedStatements, closeOpenResultSets, setShouldCacheStatements | who owns a `sqlite3_stmt`; SQL functions of the client's that call back during `sqlite3_step`; error paths | no handle is used after it was finalized, none is leaked, no two users share one |
| `FMStatement` | `_statement`, `_inUse` | close, reset, destructor | shared between the cache and a result set | wrapper and engine agree |
| `FMResultSet` | `_statement`, `_parentDB`, column-name map | next, close, destructor, column accessors | held by the list and by the client; closes itself from its destructor | every open result set is a private cursor |
| Transactions, savepoints | `_inTransaction`; the engine's transaction and savepoint stack | begin, commit, rollback, savepoint, release, rollback to, `inSavePoint` | one step of several failing with `SQLITE_BUSY` or an error; an automatic rollback | what was rolled back is gone, what was committed stays, flag and engine agree |
| Busy handler | `_startBusyRetryTime`, `_maxBusyRetryTimeInterval`, the handler of a connection | setMaxBusyRetryTimeInterval, open, close; called by SQLite on a lock conflict | a system clock that may be set while it waits; one start time for all statements | the wait is bounded, and not cut short |
| `FMDatabaseQueue` | `_packet` (`_stop`, thread, mutex, list), `_db` | inDatabase, inTransaction, inSavePoint, put, exec, close | client threads and a worker thread on one `std::list`, only one side locked | tasks run one at a time, in order, all of them; close returns |
| Bound values and SQL functions | pointers handed to SQLite with `SQLITE_STATIC`, the address of a `std::function` | bindObject, makeFunctionNamed | lifetime; conversions between types of different width and sign | alive while SQLite may look at them; what goes in comes out |
| Columns | the column-name map of a result set | the accessors by index and by name, `operator[]` | two ways to read, written independently; a map that is built once while the schema may change | they agree, and names find their columns |
| `Variant` | a type tag and a union, heap values | copy, move, clear, reset, conversions | ownership of heap values, numeric edges | no leak, no double delete |
| `Error`, `Date` | value types | copy, move, format | - | - |
| SQLite amalgamation | vendored | - | - | external: modelled from how the wrapper uses it |

How they interact. `FMDatabase` calls SQLite synchronously and is called back
by it (SQL functions, the busy handler). It holds `shared_ptr`s to result sets
in `_openResultSets` and gives the client `weak_ptr`s; a closing result set
calls back `resultSetDidClose`. The cache and a result set hold `shared_ptr`s
to the same `FMStatement`. `FMDatabaseQueue` owns one `FMDatabase`; client
threads append closures to its list, a worker thread runs them against the
database.

The hazards this leaves, each with its line and the properties that would
catch it going wrong, are listed in `PROJECT.json`.

## 2. The modules

| Module | Models | Role |
|---|---|---|
| `ResultSetCursors` | what a client may believe about result sets | abstract specification |
| `FMDatabase` | `FMDatabase`, `FMStatement`, `FMResultSet` | detailed specification; implements `ResultSetCursors` |
| `MCFMDatabase` | - | constants for TLC |
| `FMDatabaseProofs` | - | theorems about `FMDatabase` |
| `SerialQueue` | what the queue promises (`FMDatabaseQueue.h:54`) | abstract specification |
| `FMDatabaseQueue` | `put`, `exec`, `close` and libc++'s list under them | detailed specification; implements `SerialQueue` |
| `MCFMDatabaseQueue` | - | constants for TLC |
| `FMDatabaseQueueProofs` | - | theorems about `FMDatabaseQueue` |
| `Transactions` | begin, commit, rollback, savepoints, `FMDatabase::inSavePoint` and the bodies of the queue's tasks | detailed specification |
| `MCTransactions` | - | constants for TLC |
| `TransactionsProofs` | - | theorems about `Transactions`, whatever fails |
| `TransactionsMildProofs` | - | theorems about its mild behaviours |
| `VariantValues` | a `Variant` is a value | abstract specification |
| `Variant` | construction, assignment, copy, move and destruction of `Variant`s | detailed specification; implements `VariantValues` |
| `MCVariant` | - | constants for TLC |
| `VariantProofs` | - | theorems about `Variant` |
| `BusyHandler` | the busy handler, when it is installed, and a `sqlite3_step` that waits in it | detailed specification |
| `MCBusyHandler` | - | constants for TLC |
| `BusyHandlerProofs` | - | theorems about `BusyHandler` |
| `Conversions` | `bindObject`, column affinity, the column accessors, `Variant`'s conversions | operators; no state |
| `ConversionsProofs` | - | lemmas about them |
| `StatementData` | arguments, the memory they are bound in, the row, the column-name map | detailed specification; extends `Conversions` |
| `MCStatementData` | - | arguments at the ends of their ranges, for TLC |
| `StatementDataProofs` | - | theorems about `StatementData` |

`FMDatabaseQueue` treats what a task does as opaque; `Transactions` opens it up
and in turn takes from the queue that tasks run one at a time.

Operators named `X_Something` that stand before an operator `X` and are
introduced by "Mutant:" are mutated forms of `X`: a bug that code could
plausibly have. They are used by no specification. For each property of each
passing run, `PROJECT.json` names one that the property catches.

### 2.1 `FMDatabase`

State. One identity in `Stmts` stands for a `sqlite3_stmt` *and* for the
`FMStatement` that wraps it. What tells the two apart are three sets: `live`
(SQLite has prepared the handle and not finalized it), `ptr` (the wrapper's
`_statement` is not null) and `inUse`. `misuse` records that a handle outside
`live` was handed to SQLite. `cursor` is where SQLite stands in a statement.
`stmtOf`, `parented` and `held` are a result set's `_statement`, its
`_parentDB`, and whether the client has locked the `weak_ptr`; `openRS` is the
vector. `frames` holds the locals of an `executeUpdate` that is inside
`sqlite3_step`.

Actions. Each stands for a whole call:

| Action | Code |
|---|---|
| `Open` | `open`, `openWithFlags`; a failed `sqlite3_open` leaves a handle and the code keeps it (`conn = "sick"`) |
| `PrepareFails`, `ParametersMismatch` | the error returns of `executeQueryPrepareAndCheck`, `executeQueryParametersCheck` |
| `ExecuteQuery` | `executeQuery` |
| `ConvenienceQuery` | `intForQuery` and its siblings, `tableExists`, the pragma helpers: a result set opened, stepped and closed in one call |
| `UpdateBegin`, `UpdateEnd` | `executeUpdate` before and after `sqlite3_step`; two actions, since an SQL function may call back in between |
| `LockResultSet`, `DropResultSet` | the client's `shared_ptr` comes and goes |
| `NextRow`, `CloseResultSet` | `next` on `SQLITE_ROW`; `close`, or `next` on anything else, which closes |
| `CloseOpenResultSets`, `ClearCachedStatements`, `Close`, `setShouldCacheStatements` | the functions of that name |

Abstractions, and assumptions about the client:

* A vector of cached statements is the set of its elements;
  `cachedStatementForQuery` may return any idle one. `useCount` is a statistic
  that nothing reads.
* SQL texts are not empty (an empty one prepares a null handle).
* An SQL function obeys SQLite's rule that it must not close the connection
  nor finalize the running statement (`NotInCallback`). It may do everything
  else: query, start an update, step and close result sets, switch caching.
  The same calls made from an SQL function that runs inside `next()` are the
  same actions taken between two of them.
* `intForQuery` and its siblings are followed only where the query succeeds;
  where it fails they dereference a null pointer.
* `closeOpenResultSets` destroys a result set inside its own `close()` when
  nobody else holds it, and then writes one member of the freed object. The
  model takes the benign outcome.
* Two constants describe what the client does, because the code is only
  correct if it does not: `MismatchOnCached` (passes a wrong number of
  arguments to a query whose statement is cached) and `HoldsSkipped` (holds a
  result set that `closeOpenResultSets` skips). Both are `FALSE` in the passing
  run and in the proofs; each has a run that shows what happens otherwise.

### 2.2 `FMDatabaseQueue`

`put` appends under a mutex; `exec` calls `empty`, `front` and `pop_front`
without it. The list is therefore modelled at the grain at which the two sides
can interleave: the loads and stores of libc++'s `push_back` (`PushNode`,
`PushHook`, `PushTail`, `PushReadSize`, `PushWriteSize`) and `pop_front`
(`PopUnlink`, `PopRelink`, `PopReadSize`, `PopWriteSize`), a circular doubly
linked list with a sentinel and a size. These actions are external to `src/`
and follow libc++ because the Xcode project builds against it. Memory is
sequentially consistent and the allocator does not give a freed node out again
at once: a weaker memory or another allocator only adds outcomes. Writing
into a freed node may crash or go unnoticed; calling the sentinel's missing
`std::function` crashes.

`overlap` is chosen once from `Overlaps`. Where it is `FALSE`, no `push_back`
overlaps a `pop_front` in time: what an outer lock, or luck, provides. It
separates what the algorithm gets right from what the missing lock breaks, and
the run looks at both side by side. A task in `SelfClosers` may call `close()`
on its own queue (`TaskCloses`): the worker would join itself, `join` throws,
and the exception leaves the worker's thread function. A task in `SelfCallers`
may call `inDatabase` or `inTransaction` of its own queue in a `DEBUG` build
(`TaskCalls`): the assertion of `checkWhenInvoke` (line 78) aborts. In a release
build, and in `inSavePoint`, which does not check, such a call goes to `put` on
the worker's thread; that is a call of `put` whose steps all fall into the run
of a task, and so one of those the model has.

### 2.3 `Transactions`

The engine is external: `eng` is what SQLite's `OP_AutoCommit`,
`OP_Savepoint` and their error paths make of a connection. `auto` is
`sqlite3_get_autocommit`, `implicit` says that the outermost savepoint opened
the transaction (so that releasing it commits), `saves` is the stack of
savepoints with the data each would restore, `now` what the connection sees and
`disk` what a crash would leave. Every statement is the set of its outcomes,
an engine state and what `executeUpdate` returns. `faults`, chosen once from
`FaultSets`, says which outcomes besides success are possible; `Mild` that they
undo no more than the statement they hit.

`calls` is the stack of calls whose block is running: a task of the queue at the
bottom, above it calls of `FMDatabase::inSavePoint` and the client's own
`beginTransaction`, in any nesting up to `MaxCalls`. A call is two actions,
before and after its block (`InTransaction` and `InTransactionEnds`, and so on);
what the code ignores (the result of begin in `inTransaction`, of rollback and
release in the queue's `inSavePoint`) the actions ignore. `start` and `wrote`
are history variables.

Assumptions. The client begins and ends its own transactions in pairs within a
block, and gives up on one when its rollback fails. `savePointIdx` and
`savePointIndex` count up, so a new savepoint gets a name that is not in use
(`FreshName`). Rows are inserted only; a row is inserted when it is not there.

### 2.4 `Variant`

A `Variant` is a type tag and a union of eight bytes. `field` follows the
lowest byte apart from the rest, because `bool` and byte assignments store one
byte and `operator==` compares four. A heap object is a node with its type and
content; `Whole(n)` in the union is a pointer to it. `clear()` deletes through
a copy of the pointer, so the union keeps its bits: the model keeps them too,
and `deletesFreed` is what a second delete would be. `debug` is the build: with
`DEBUG`, the assertion at the head of `reset()` aborts whenever the Variant that
is assigned to holds a string, C string, data, date or container; without it
the assignment goes through. Both are checked in one run.

Types that the code treats alike are one type (the module's header lists them),
contents are opaque, and allocation succeeds. Three constants describe the
client: `CopiesCStrings`, `CopiesDates`, `NarrowsPointers`. All three are
`FALSE` in the passing run, since the code is not correct otherwise (section 5).

### 2.5 `BusyHandler`

A step of a statement outside a transaction asks for a lock twice, when it
begins and when it commits; in a deferred transaction a statement asks for the
first only and `COMMIT` for the second. `reading` says that the connection holds a
read lock before the step, for an open result set or since a deferred transaction
has read. Then SQLite does not wait for the first lock: `sqlite3BtreeBeginTrans`
calls the handler only while `pBt->inTransaction==TRANS_NONE` (`sqlite3.c:62087`),
so that two connections that read and want to write cannot wait for each other,
and the step returns `SQLITE_BUSY` at once (`Asks`). For the second lock
`pager_wait_on_lock` calls it always. Steps that need no lock are left out.

`step` is how far a step has come: trying a lock, in the handler, in the
handler's `sqlite3_sleep`, working between the locks, or about to return
`SQLITE_DONE` (or a row) or `SQLITE_BUSY`. `called` is SQLite's count of handler
calls, of which the code tells only zero from the rest (`FMDatabase.cpp:162`),
and which runs on through both locks. `start` and `interval` are
`_startBusyRetryTime` and `_maxBusyRetryTimeInterval`, `handler` is whether
`sqlite3_busy_handler` is installed on the connection. `waited`, `forward` and
`back` are history: the real time since the first call, and by how much the clock
was set meanwhile.

`FirstCall`, `Retry` with `Sleep`, and `GiveUp` are the three ways through
`FMDBDatabaseBusyHandler`; `Open`, `Close` and `setMaxBusyRetryTimeInterval` are
the functions that install or remove it; the lock of the other connection
(`Lock`) and the system clock (`SetClock`) change at any time. Time passes only
while a statement sleeps or works: everything else takes no time next to the 50
to 99 ms of a sleep. `LastStart` and `MaxChanges` bound the state space.

### 2.6 `Conversions` and `StatementData`

`Conversions` has no state. A Variant is a pair of its type and a value; the
engine's values are NULL, integers, reals, texts and blobs. Widths are
constants, so that every end of every range is near: `CharMax`, `IntMax` and
`LongMax` are the largest signed value of each type (2^7-1, 2^31-1 and 2^63-1 in
the build), of which everything else about the type is a linear function.
`WidthAssumption` says only that each type holds what a narrower one does, signed
or unsigned. Reals are whole numbers of
halves, which every floating-point type involved holds exactly: rounding is left
out, truncation is not. Texts are numerals, decimal fractions, words, and words
with a NUL inside; a text is never spelled out. What C++ leaves open (a double
out of range cast to an integer type) is what x86-64 computes, and no property
relies on it.

`StatementData` puts one table, one update and one query around it. A parameter
is a value and the place it is in: in the engine (numbers are copied), with the
caller (C strings), in the frame of the call, or freed. `boundIn` follows
`executeUpdate`, `executeQuery` and the recursion of `bindObjects`
(`FMDatabase.h:233-272`): a plain string argument becomes a temporary Variant
that is gone when `bindObject` returns; a Variant as first argument lives in the
frame of the call, which an update steps in and a query does not. A freed
parameter is read as itself or as `Garbage`.

| Action | Code |
|---|---|
| `executeUpdate` | binds, steps and finishes in one call |
| `executeQuery` | binds and opens a result set; steps later |
| `next`, `close` | as named; the first step compiles the query again if the schema has changed |
| `makeFunctionNamed` | registers the address of the client's `std::function` |
| `accessByName` | any accessor by name: fills `_columnNameToIndexMap` if it is empty |
| `addColumn` | `alter table t add column`, by the client |

Abstractions, and assumptions about the client:

* `Careful` is `TRUE` in the passing run: strings and `Data` are passed only as
  the first argument of an update and in a Variant (`Kept`), a registered
  function stays alive, and columns are looked up by name on a row only.
  `values_strings` drops it.
* Columns have no affinity, numeric or text affinity. REAL affinity is left out.
* Containers are no arguments: `bindObject` asserts, and in a release build it
  leaves the parameter as it is. Each execution binds all parameters, so what an
  earlier one bound is never seen.
* One row, and no update while the result set is on it.
* `RoundTrip` names the values that cannot come back: an empty blob reads as
  NULL-like (SQLite has no address for it, `FMResultSet.cpp:168`), a text is cut
  at a NUL, a numeric column makes a number of a numeral, and `toDate` reads a
  negative integer as unsigned (`Variant.cpp:740`). What was given as a C string
  comes back from `operator[]` as a STRING and by `toString` (`Readable`); by
  `toCString` it does not, since that takes the `std::string` object for the text
  (`Variant.cpp:662`).

## 3. The runs

| Run | Bounds | What it shows |
|---|---|---|
| `database` (pass) | 2 queries, 3 statements, 3 result sets, 1 row | the safety invariants of section 4 and the refinement of `ResultSetCursors`, for a disciplined client |
| `database_mismatch` (violation) | 2 queries, 3 statements, 2 result sets | `NoHandleMisuse` fails: a wrong number of arguments on a cached query finalizes a handle the cache keeps |
| `database_skipped` (violation) | the same | `CloseAllClosesAll` fails: `closeOpenResultSets` skips every second result set |
| `queue` (pass) | 3 calls, one by reference, one whose task closes the queue, one whose task calls it, one close; with and without overlap | the order and at-most-once hold in every interleaving (`SerialQueue` is implemented) and close returns or the process has died; without overlap every task runs unless the process has died, the list stays intact, and only a task that closes its own queue, or calls it in a `DEBUG` build, brings the process down |
| `queue_lost` (violation) | the same, but no task calls its queue | with overlap a task may never run, or the worker crashes |
| `queue_byref` (violation) | as `queue_lost` | a task runs a block captured by reference after the call that owned it returned |
| `transactions` (pass) | 2 rows, 3 names, nesting of 4; mild faults, and all faults | with mild faults a rollback undoes exactly its call, everything else keeps exactly what was not undone, nothing is on disk before the end, tasks leave nothing open, flag and engine agree; with all of them savepoints and calls stay matched, `inSavePoint` never returns true for what it has not done, `inTransaction()` denies no transaction |
| `variant` (pass) | 3 objects, 4 heap addresses, 2 payloads | every heap object has exactly one owner, a copy equals its original, `VariantValues` is implemented |
| `variant_cstring` (violation) | the same; C strings are copied | `CopiesAreEqual` fails |
| `busy` (pass) | intervals 0, 2 and 4, sleeps of 1 or 2, work of 0 or 1, the clock set twice by up to 2, with and without a read lock | the handler is installed when it should be, the wait is bounded, `SQLITE_BUSY` is not reported early but for a first lock asked for by a reading connection, without a call of the handler; every step returns |
| `values` (pass) | about 60 arguments in either position, 3 pairs of affinities, integer types of 3, 4 and 5 bits, 2 and then 3 table columns | what goes in comes out by both ways of reading, is found again by a query, and names find columns |
| `values_strings` (violation) | the same; the client is not careful | `RoundTrip` fails: a plain string argument is stored as garbage |

Why the bounds are enough. Three result sets are the smallest number for which
`closeOpenResultSets` skips one *and* goes on to close another, so both halves
of its loop are exercised. Two statements of one query are needed for the
cache to hold an idle and a busy one, a third for the running update. Two
queries separate a hit from a miss while the cache is not empty. One row is
enough to tell a cursor that moved from one that did not. In the queue, three calls
are one being removed, one waiting and one being appended: the race involves
two adjacent nodes and the size. For transactions, nesting of three is a task, a
savepoint in it and one in that, the least for which an inner rollback could
take too much or too little; the run goes one level further. For Variants,
three objects are a source, a target and a bystander; one address more than
there are objects lets an assignment allocate before anything is reused.
Objects, addresses and payloads are symmetric and the run uses that; its
properties are all safety properties, as are those of `transactions`, which uses
the symmetry of rows and names. For the busy handler, an interval of twice the
longest sleep lets a step sleep several times, the clock can be set further than
what is left of an interval, and statements follow each other, so that an
earlier start time could be mistaken for the present one. For values, what matters are the ends of each type's range, one value on
each side of zero and one beyond each narrower type; widths that differ by one
bit keep those apart. Two positions are all that `boundIn` tells apart, and a
third column is the one that a stale map lacks. For every safety property of a
passing run there is also a theorem without bounds (section 4), so the bounds
matter only for liveness and for what the runs that expect a violation show.

`TasksStartClean`, `FlagMatches`, `RollbackUndoes`, `CommitKeeps` and
`NothingDurableBeforeTheEnd` speak of `Mild` behaviours: begin, commit and
rollback-to do not fail, the engine does not roll back by itself and nobody
closes the database inside a task. Section 5 says what happens otherwise.

Fairness. In the queue, the scheduler eventually runs the worker thread, the
thread that waits in `join`, and any call of `put` that has begun; tasks
return. These are weak fairness: none of those steps, once enabled, is disabled
by another thread except the mutex, which its holder gives up. Nothing obliges
a client to call, or to close. In `BusyHandler`, weak fairness of `InStep` says
that the thread in `sqlite3_step` runs and that sleeps end. Nothing obliges the
other connection to release its lock: `StepReturns` rests on the handler alone,
on the sleeps being longer than nothing and on the clock not being set back for
ever (`MaxChanges`).

## 4. What is proved

`FMDatabaseProofs` proves, for any sets of queries, statements and result sets
and any number of rows, from the named assumptions of `FMDatabase` and a
disciplined client (`Disciplined`):

* `Safety`: `Spec => []Inv`;
* `HandleSafety`, `Exclusion`, `NoLeak`, `Ownership`, `AllTracked`,
  `NothingOutlives`, `HonestFlag`, `TypeSafety`: each invariant of the `database`
  run as a consequence;
* `PrivateCursors`: `Spec => Cursors!Spec`, the refinement of
  `ResultSetCursors`.

The inductive invariant is the conjunction of everything the `database` run
checks. `NoHandleMisuse` and `NoLeakedStatement` are not inductive alone: that
`clearCachedStatements` or a cache hit passes only live handles to SQLite needs
"what is cached is wrapped, what is wrapped is live"; that `executeUpdateImpl`
may finalize its statement needs "the statement of a running update is wrapped
only if it came out of the cache". These are the parts of
`OwnershipConsistent`. `StatementExclusive` in turn needs its "a statement a
result set can step is in use", so that a cache hit cannot return it, and
`FlagTellsTheTruth`, so that there is no running update while another call
prepares. `OpenResultSetsTracked` is what lets `Close` reach all of them.

The step proof has one lemma per action and under it one step per conjunct.
Facts about the cache (what `Cached` is after `setCachedStatement`) and about
the list (what is `Listed` after an append or an erase, and that no element
repeats) are lemmas of their own.

The refinement maps `open` to the result sets whose statement is still wrapped
and `position` to the cursor of that statement. It needs `StatementExclusive`
(advancing one cursor moves no other result set) and `OwnershipConsistent` (the
reset on a cache hit hits nobody's statement).

`TransactionsProofs` proves, for any rows, names, depth of nesting and any set of
`FaultSets`, so with every failure the model has:

* `Safety`: `Spec => []Inv`, with `SavepointSafety` and `FlagSafety` as
  consequences;
* `HonestSavePoints`: `Spec => SavePointCallHonest`, an action property.

`Inv` is the type invariant, `FlagNeverDenies` and `SavepointsMatchCalls`. The
last is what makes `inSavePoint` honest: the savepoint that "rollback to" finds
under the call's name is the one the call started (so the data it restores is
what the call found), and there is no second one (so after the release none of
that name is left). It rests on names being fresh, and survives a rollback that
fails and leaves its savepoint behind. Every action but the ones that start a
savepoint only cuts the engine's stack back (`Shrinks`) and only takes calls away
(`KeepsCalls`); one lemma deals with all of those. The assumption
`NamesAssumption` says that no savepoint has the name that stands for "no
savepoint".

`TypeSafety` adds the type invariant.

`BusyHandlerProofs` proves, for any intervals, sleeps, working times and changes
of the clock:

* `Safety`: `Spec => []Inv`;
* `HandlerInstalled`, `BoundedWait`, `NoEarlyBusy` and `TypeSafety`: the
  invariants of the `busy` run, as consequences.

`WaitBounded` is not inductive: the handler does not know how long it has waited,
only what the clock says. `ClockAdds` is the connection: once the handler has
been called, the clock is its start time plus the time waited, plus and minus
what was set. With it the comparison in `Retry` bounds the time waited when a
sleep begins (`Spent`), the sleep adds at most `MaxSleep`, and the statement's
own work at most `MaxWork`, once (`InOrder`: a step works only before its second
lock). The comparison in `GiveUp` gives `NotTooSoon` the same way; for a refusal
without the handler `InOrder` says that it was not called before either, so the
exception in `NotTooSoon` covers no step that has waited.

`TransactionsMildProofs` extends `TransactionsProofs` and proves the rest of the
`transactions` run, for any rows, names and depth of nesting:

* `Nesting`: `Spec => []MildInv`;
* `TasksStartCleanSafety`, `FlagMatchesSafety`: the invariants;
* `RollbackSafety`, `CommitSafety`, `AtomicTasks`: the action properties
  `RollbackUndoes`, `CommitKeeps` and `NothingDurableBeforeTheEnd`.

None of these is inductive: what a rollback restores depends on everything below
it on the stack. `MildInv` says, for mild behaviours, that the stack of calls *is*
the state of the engine. For some `b` of at most 2, the lowest `b` calls started
no savepoint and all others did (`Bare`); the engine's savepoints are those
others, in order, each with the data its call found (`Stacked`); whether a
transaction is open, whether a savepoint opened it, and the flag, follow from
the two (`Moded`); so does what is on disk (`Durable`); and each call found what
its caller had found and written (`Chained`). `Chained` makes an inner rollback
harmless to the outer call, `Stacked` makes it the right one, and `Moded` says
which release is a commit.

`VariantProofs` proves, for any objects, addresses and payloads and both builds:

* `OwnershipSafety` and `TypeSafety`, for every client;
* `NoUndefinedSafety`, for a client that copies no `Date`;
* `CopySafety`, an action property, for one that copies no C string either;
* `ValueSafety`: `Spec => Value!Spec`, the refinement of `VariantValues`, for one
  that, besides, assigns no `bool` or byte over a pointer.

The inductive invariant is `Sound`: objects out of scope are empty, a heap type
comes with an object of that type, no object has two owners, and none has no
living owner. Four lemmas say that it survives what every operation is made of:
`ClearSound`, `StoreSound`, `OverwriteSound` and `MoveSound`. `clear()` leaves
the bits of the union behind, so `Sound` speaks of a pointer only where the tag
says that there is one. The three client assumptions are the cases of section 5
that `operator=` gets wrong; each theorem has only those it needs. The
refinement maps each object to `Held`, what `operator==` can see of it, and adds
to the invariant that this is always a payload of the object's type or nothing
(`Readable`).

`FMDatabaseQueueProofs` proves, for any tasks, self-closers and self-callers:

* `OrderSafety`: `Spec => RunsInOrder`, the refinement of `SerialQueue`. It holds
  with and without overlap;
* `CrashSafety` and `ListSafety`: `NoCrash` and `ListIntact`;
* `TypeSafety`, for finitely many tasks (its bound on the size is their number).

The two sides of the list meet at single loads and stores, so the invariant says
for every state of the call that holds the mutex and of the worker what each link
is. It does so by numbers: `received` and `executed` are history, and how many
tasks are linked, counted in the size, started, unlinked and deleted follow from
their lengths and from where the two threads are. `Shape` gives the links in terms
of those numbers, `Sizes` bounds the size, `Calls` and `Serial` say who is where.
All of that holds in a race too, as long as the process is alive, and is enough
for the order. `Turns` is what holds only where `push_back` and `pop_front` do
not overlap: the size is exact and no hooked node is lost. It gives `ListIntact`
and that `front()` is never called on an empty list. `Bounded` is what is left
to say of a process that a race has killed.

`ConversionsProofs` and `StatementDataProofs` prove, for any columns, any
arguments and every width of the integer types:

* `TypeSafety`, for every client;
* `NamesSafety`, `RoundTripSafety`, `ReadsSafety` and `QuerySafety`, for a
  careful one: `NamesFindColumns`, `RoundTrip`, `ReadsAgree`, `QueryFindsItsRow`.

The invariant ties the row to what the update was given (`RowHolds`), the
parameters of an open query to what it was given, in memory that lasts
(`SlotsHold`), and the name map to the columns as compiled now (`MapFits`); the
map may be kept across queries' steps only because it is filled on a row. What is
left is arithmetic and case analysis without state, and that is
`ConversionsProofs`: what a cast does at the ends of a range (`Wraps`), what
`bindObject` and affinity can make of a Variant, that the accessor of the type
returns it (`IntegerReturns`, `RealReturns`, `ObjectReturns`), that both readers
agree (`ReadsSame`), and that the engine compares what was bound (`ComparesBound`).
The values `RoundTrip` excludes are those for which the lemmas are false; for C
strings they speak of `toString`, since for `toCString` they are false too.

Proving these changed the model in two ways that TLC had not asked for. The
arms of a `CASE` in `Held`, `toDate`, `toString` and `boundIn` overlapped; TLC
takes the first that holds, but TLA+ may take any, so the proofs did not go
through until each arm excluded the earlier ones, as `if` and `else if` do in the
code. And the integer types were given by their widths, through a power of 2,
of which the provers know nothing; they are now given by their largest value.

What stays with TLC is liveness: `TurnsRunEveryTask`, `CloseReturns` and
`StepReturns`. Fairness and `ENABLED` are out of the prover's reach. No property
needed induction over data or a recursive definition. Every other property of
the passing runs is a theorem.

## 5. Findings

* `FMDatabase.cpp:519`, run `database_mismatch`: a parameter mismatch on a
  cached query finalizes a handle that the cache keeps.
* `FMDatabase.cpp:209`, run `database_skipped`: `closeOpenResultSets` iterates
  over the vector from which each `close()` erases.
* `FMDatabaseQueue.cpp:94`, run `queue_lost`: the worker uses the list without
  the mutex.
* `FMDatabaseQueue.cpp:119`, run `queue_byref`: a task refers to a block, and
  `inSavePoint`'s task to a local variable, of a call that has returned. The
  header (`FMDatabaseQueue.h:62`) says the calls block; they do not.
* `Variant.cpp:824`, run `variant_cstring`: copying a Variant that holds a C
  string copies the type and not the pointer.
* `FMDatabase.cpp:438`, run `values_strings`: a string or `Data` passed to
  `executeUpdate` is bound by address from a temporary Variant that is gone when
  the statement is stepped. `testBlobs` (`src/Tests/FMDatabaseTests.mm:307`)
  passes one and expects it back.

Observed while modelling; no run of its own:

* `inTransaction` ignores a begin that fails (`FMDatabaseQueue.cpp:123`): its
  block runs without a transaction and a rollback undoes nothing. This is why
  `RollbackUndoes` has its condition `Mild`; without it `{"begin"}` alone
  violates it.
* `close()` called from a task throws in the worker (`FMDatabaseQueue.cpp:71`),
  and `inDatabase` or `inTransaction` called from a task of the same queue aborts
  a `DEBUG` build (`FMDatabaseQueue.cpp:78`); `NoCrash` excepts both.
* With a result set open on the connection, or in a deferred transaction that has
  read, a statement that wants to write gets `SQLITE_BUSY` at once while another
  connection writes, whatever `setMaxBusyRetryTimeInterval` was given: SQLite does
  not call the handler there, to avoid a deadlock. `NotTooSoon` excepts it.
* `makeFunctionNamed` registers the address of the caller's `std::function`
  (`FMDatabase.cpp:808`), which a lambda passed directly does not outlive, as in
  the repository's own test.
* Looking a column up by name before the first `next()` fixes the map to the
  columns the query was compiled for, although the first step may compile it
  again for a changed schema (`FMResultSet.cpp:234`); `Careful = FALSE` violates
  `NamesFindColumns`.
* `boolForColumn` and `toBool` differ: on the text "true", and on 0.5.
  `toString` of a real is not what `stringForColumn` returns (no point in a whole
  number, six significant digits).
* `operator[]` dereferences a null pointer on a NULL column and on an empty blob
  (`FMResultSet.cpp:202`).
* `convert` allows STRING to CSTRING, but `toCString` returns the bytes of the
  `std::string` object (`Variant.cpp:662`).
* `toDate` reads a negative integer as unsigned (`Variant.cpp:740`), so a whole
  date before 1970 from a numeric column is wrong by `operator[]`; `RoundTrip`
  excepts it (`EarlyDate`).
* After a failed `sqlite3_open` a second `open()` returns true on a connection that
  can prepare nothing (`FMDatabase.cpp:59`).
* `setUserVersion` takes an unsigned number, of which the engine reads the upper
  half as 0 (`FMDatabase.cpp:937`).
* `Date::dateByAddingTimeInterval` adds to the present time and not to the date
  (`Date.cpp:61`).
* After `close()` the queue still accepts tasks and never runs them
  (`FMDatabaseQueue.cpp:81`); `testReadOnlyQueue` expects it to reopen.
* A commit that fails with `SQLITE_BUSY` leaves the transaction open, and the
  next task runs in it (`FMDatabaseQueue.cpp:132`; with `faults = {"commit"}` it violates
  `TasksStartClean` less its condition `Mild`).
* When "rollback to" fails, `inSavePoint` returns without releasing its
  savepoint (`FMDatabase.cpp:776`; with `faults = {"rollbackTo"}` it violates
  `TasksStartClean` less its condition `Mild`).
* `close()`, and an automatic rollback of the engine, leave `_inTransaction` set
  (with `faults = {"reopen"}` or `{"auto"}` this violates `FlagMatches` less its condition `Mild`).
* Copying a Variant that holds a `Date` treats both objects as a `VariantData`
  (`Variant.cpp:856`; `CopiesDates = TRUE` violates `NoUndefinedBehaviour`).
* A `bool` or byte assigned to a Variant that held a pointer keeps the pointer's
  other bytes in a release build (`Variant.cpp:946`; `NarrowsPointers = TRUE`
  violates `ValueSemantics`). In a `DEBUG` build `reset()` aborts instead, as it
  does on every assignment to a Variant that holds a string.

A result worth having beside `queue_lost`: the race never reorders or repeats
tasks. What was executed is always a prefix of what was received.

## 6. Not modelled

* `executeStatements`: calls `sqlite3_exec` and changes no state of the wrapper.
* `setKey` and `rekey`: one call of SQLite each, and only in a build with a
  codec.
* The numbers that `userVersion` and `applicationID` read and write; their
  statements and result sets are `ConvenienceQuery`.
* Containers in Variants: opaque contents in `Variant`, so assigning to a
  Variant from an element of the container it holds is not covered.
* `description()`, the calendar format of dates and `dateFromString`: they are
  `strftime` and `strptime` and depend on the time zone data of the C library.
* `Error`: a domain, a code and a dictionary, copied and moved; nothing depends
  on it.
* A queue whose constructor failed to open the database: the first call
  dereferences a null pointer.
* Logging and error texts.
* SQLite itself, beyond the contract the wrapper relies on. It is vendored
  (`src/FMDB-CPP/sqlite-amalgamation-3170000`, and headers for another build)
  and makes up 99 in 100 lines of the repository's C and C++; the lines of it
  that the map names are those whose effect the wrapper can tell.

## 7. Plan

The plan's modules are written and the safety properties of all passing runs are
proved. What is left open are the hazards of `PROJECT.json` that no property
covers and liveness, for which TLC's small instances are all there is. A hazard
without a property has a note that says why. Most often the code is certainly wrong
there, whatever the order of events, and a property that holds had to except the
case: what `Mild`, `Careful`, `NarrowsPointers`, `EarlyDate` and the exceptions in
`NoCrash` leave out is listed in section 5, and is caught by nothing else here.
