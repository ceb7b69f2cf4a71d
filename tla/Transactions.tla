----------------------------- MODULE Transactions -----------------------------
(***************************************************************************)
(* Transactions and savepoints: what FMDatabaseQueue's tasks and           *)
(* FMDatabase::inSavePoint make of SQLite's transaction state when any of  *)
(* the statements they execute may fail.                                   *)
(*                                                                         *)
(* The worker runs one task at a time (FMDatabaseQueue), so there is one   *)
(* thread of control: calls is the stack of calls whose block is running.  *)
(* The engine is external.  Each statement is the set of its outcomes: an  *)
(* engine state, and what executeUpdate returns.                           *)
(***************************************************************************)
EXTENDS Naturals, Sequences

CONSTANTS
    Rows,       \* the rows that blocks insert
    Names,      \* savepoint names (bound: how many are alive at a time)
    MaxCalls,   \* how deep calls nest (bound)
    FaultSets   \* the ways in which statements and clients may go wrong, for
                \* as many behaviours as are to be looked at side by side

FaultKinds == {"begin",       \* BEGIN EXCLUSIVE: SQLITE_BUSY
               "commit",      \* COMMIT, or RELEASE that commits: SQLITE_BUSY
               "savepoint",   \* SAVEPOINT: an error
               "rollbackTo",  \* ROLLBACK TO an existing savepoint: an error
               "write",       \* INSERT: an error that undoes the statement
               "auto",        \* INSERT: an error that undoes the transaction
               "reopen"}      \* the client closes the database meanwhile

\* Faults that undo no more than the statement they hit.
StatementErrors == {"write", "savepoint"}

ASSUME FaultsAssumption == FaultSets \subseteq SUBSET FaultKinds
ASSUME MaxCallsAssumption == MaxCalls \in Nat

VARIABLES
    eng,             \* SQLite's side of the connection
    inTransaction,   \* FMDatabase::_inTransaction
    calls,           \* the running calls, outermost first
    faults           \* the faults that may happen: never changes

vars == <<eng, inTransaction, calls, faults>>

NoName == "none"
ASSUME NamesAssumption == NoName \notin Names

Savepoint == [name : Names, snap : SUBSET Rows]

\* auto: sqlite3_get_autocommit; implicit: the outermost savepoint opened
\* the transaction; disk: what is committed; now: what the connection sees.
Engine == [auto : BOOLEAN, implicit : BOOLEAN, disk : SUBSET Rows, now : SUBSET Rows,
           saves : Seq(Savepoint)]

\* start and wrote are history: what the call found, and the rows that were
\* inserted in it and not undone by a nested call.
Call == [kind : {"inDatabase", "inTransaction", "queueSavePoint", "inSavePoint", "client"},
         name : Names \union {NoName}, start : SUBSET Rows, wrote : SUBSET Rows]

TypeOK ==
    /\ eng \in Engine
    /\ inTransaction \in BOOLEAN
    /\ calls \in Seq(Call)
    /\ faults \in FaultSets

-------------------------------------------------------------------------------
(* FMDatabase's functions, each one statement.                             *)

Outcome(ok, e) == [ok |-> ok, eng |-> e]
MayFail(kind, e) == IF kind \in faults THEN {Outcome(FALSE, e)} ELSE {}

\* No transaction any more, and these rows in the database.
Ended(rows) ==
    [auto |-> TRUE, implicit |-> FALSE, disk |-> rows, now |-> rows, saves |-> <<>>]

\* beginTransaction, beginDeferredTransaction
beginTransaction(e, deferred) ==
    IF ~e.auto
    THEN {Outcome(FALSE, e)}
    ELSE {Outcome(TRUE, [e EXCEPT !.auto = FALSE])}
         \union (IF deferred THEN {} ELSE MayFail("begin", e))

commit(e) ==
    IF e.auto
    THEN {Outcome(FALSE, e)}
    ELSE {Outcome(TRUE, Ended(e.now))} \union MayFail("commit", e)

rollback(e) ==
    IF e.auto THEN {Outcome(FALSE, e)} ELSE {Outcome(TRUE, Ended(e.disk))}

startSavePointWithName(e, n) ==
    {Outcome(TRUE, [e EXCEPT !.auto = FALSE,
                             !.implicit = @ \/ e.auto,
                             !.saves = Append(@, [name |-> n, snap |-> e.now])])}
    \union MayFail("savepoint", e)

\* The most recent savepoint of that name, or 0.
Find(e, n) ==
    IF \E i \in DOMAIN e.saves : e.saves[i].name = n
    THEN CHOOSE i \in DOMAIN e.saves :
            /\ e.saves[i].name = n
            /\ \A j \in DOMAIN e.saves : j > i => e.saves[j].name # n
    ELSE 0

\* Releasing the savepoint that opened the transaction commits it.
releaseSavePointWithName(e, n) ==
    LET i == Find(e, n) IN
    CASE i = 0 -> {Outcome(FALSE, e)}
      [] i = 1 /\ e.implicit -> {Outcome(TRUE, Ended(e.now))} \union MayFail("commit", e)
      [] OTHER -> {Outcome(TRUE, [e EXCEPT !.saves = SubSeq(@, 1, i - 1)])}

\* Mutant: the statement lacks its "to savepoint".
rollbackToSavePointWithName_Everything(e, n) == rollback(e)

rollbackToSavePointWithName(e, n) ==
    LET i == Find(e, n) IN
    IF i = 0
    THEN {Outcome(FALSE, e)}
    ELSE {Outcome(TRUE, [e EXCEPT !.now = e.saves[i].snap, !.saves = SubSeq(@, 1, i)])}
         \union MayFail("rollbackTo", e)

\* executeUpdate with an insert of the client's.
insert(e, w) ==
    {Outcome(TRUE, IF e.auto THEN [e EXCEPT !.now = @ \union {w}, !.disk = @ \union {w}]
                             ELSE [e EXCEPT !.now = @ \union {w}])}
    \union MayFail("write", e)
    \union (IF e.auto THEN {} ELSE MayFail("auto", Ended(e.disk)))

-------------------------------------------------------------------------------
(* The stack of calls.                                                     *)

Top == calls[Len(calls)]
TopIs(kind) == calls # <<>> /\ Top.kind = kind

Enter(kind, n) ==
    calls' = Append(calls, [kind |-> kind, name |-> n, start |-> eng.now, wrote |-> {}])

\* The call returns; what it wrote counts as written by its caller if kept.
Leave(kept) ==
    LET n == Len(calls) IN
    calls' = IF n = 1
             THEN <<>>
             ELSE [SubSeq(calls, 1, n - 1) EXCEPT ![n - 1].wrote =
                      @ \union (IF kept THEN Top.wrote ELSE {})]

\* Mutant: savePointIdx is not incremented.
FreshName_Repeats(n) == n = CHOOSE first \in Names : TRUE

\* Both counters, savePointIndex and savePointIdx, make names nobody has.
FreshName(n) ==
    /\ \A i \in DOMAIN eng.saves : eng.saves[i].name # n
    /\ \A i \in DOMAIN calls : calls[i].name # n

Init ==
    /\ eng = Ended({})
    /\ inTransaction = FALSE
    /\ calls = <<>>
    /\ faults \in FaultSets

-------------------------------------------------------------------------------
(* The tasks of FMDatabaseQueue, up to their block and after it.           *)

InDatabase ==
    /\ calls = <<>>
    /\ Enter("inDatabase", NoName)
    /\ UNCHANGED <<eng, inTransaction>>

InDatabaseEnds ==
    /\ TopIs("inDatabase")
    /\ Leave(TRUE)
    /\ UNCHANGED <<eng, inTransaction>>

\* Mutant: the task runs its block without beginning a transaction.
InTransaction_NoBegin(deferred) ==
    /\ calls = <<>>
    /\ Enter("inTransaction", NoName)
    /\ UNCHANGED <<eng, inTransaction>>

\* What begin returns is ignored: the block runs anyway.
InTransaction(deferred) ==
    /\ calls = <<>>
    /\ \E o \in beginTransaction(eng, deferred) :
          /\ eng' = o.eng
          /\ inTransaction' = (inTransaction \/ o.ok)
    /\ Enter("inTransaction", NoName)

\* Mutant: commit and rollback leave _inTransaction alone.
InTransactionEnds_FlagStays(shouldRollback) ==
    /\ TopIs("inTransaction")
    /\ \E o \in (IF shouldRollback THEN rollback(eng) ELSE commit(eng)) : eng' = o.eng
    /\ Leave(~shouldRollback)
    /\ UNCHANGED inTransaction

\* Mutant: commit and rollback lower _inTransaction even when they fail.
InTransactionEnds_FlagAlways(shouldRollback) ==
    /\ TopIs("inTransaction")
    /\ \E o \in (IF shouldRollback THEN rollback(eng) ELSE commit(eng)) : eng' = o.eng
    /\ inTransaction' = FALSE
    /\ Leave(~shouldRollback)

InTransactionEnds(shouldRollback) ==
    /\ TopIs("inTransaction")
    /\ \E o \in (IF shouldRollback THEN rollback(eng) ELSE commit(eng)) :
          /\ eng' = o.eng
          /\ inTransaction' = (inTransaction /\ ~o.ok)
    /\ Leave(~shouldRollback)

QueueSavePoint(n) ==
    /\ calls = <<>>
    /\ FreshName(n)
    /\ \E o \in startSavePointWithName(eng, n) :
          /\ eng' = o.eng
          /\ IF o.ok THEN Enter("queueSavePoint", n) ELSE UNCHANGED calls
    /\ UNCHANGED inTransaction

\* Mutant: the savepoint is released although a rollback was asked for.
QueueSavePointEnds_ReleasesOnly(shouldRollback) ==
    /\ TopIs("queueSavePoint")
    /\ \E o \in releaseSavePointWithName(eng, Top.name) : eng' = o.eng
    /\ Leave(~shouldRollback)
    /\ UNCHANGED inTransaction

\* What the rollback and the release return is ignored.
QueueSavePointEnds(shouldRollback) ==
    /\ TopIs("queueSavePoint")
    /\ \E o \in (IF shouldRollback THEN rollbackToSavePointWithName(eng, Top.name)
                                   ELSE {Outcome(TRUE, eng)}) :
       \E p \in releaseSavePointWithName(o.eng, Top.name) : eng' = p.eng
    /\ Leave(~shouldRollback)
    /\ UNCHANGED inTransaction

-------------------------------------------------------------------------------
(* What a block does with the FMDatabase it is given.                      *)

Insert(w) ==
    /\ calls # <<>>
    /\ w \notin eng.now
    /\ \E o \in insert(eng, w) :
          /\ eng' = o.eng
          /\ calls' = [calls EXCEPT ![Len(calls)].wrote = IF o.ok THEN @ \union {w} ELSE @]
    /\ UNCHANGED inTransaction

\* Mutant: the name is empty.
InSavePoint_Unnamed(n) ==
    /\ calls # <<>> /\ Len(calls) < MaxCalls
    /\ \E o \in startSavePointWithName(eng, NoName) :
          /\ eng' = o.eng
          /\ IF o.ok THEN Enter("inSavePoint", NoName) ELSE UNCHANGED calls
    /\ UNCHANGED inTransaction

\* FMDatabase::inSavePoint up to its block; if the savepoint cannot be
\* started it returns false at once.
InSavePoint(n) ==
    /\ calls # <<>> /\ Len(calls) < MaxCalls
    /\ FreshName(n)
    /\ \E o \in startSavePointWithName(eng, n) :
          /\ eng' = o.eng
          /\ IF o.ok THEN Enter("inSavePoint", n) ELSE UNCHANGED calls
    /\ UNCHANGED inTransaction

\* Mutant: after a rollback the savepoint is not released.
InSavePointEnds_NoRelease(shouldRollback, returned) ==
    /\ TopIs("inSavePoint")
    /\ \E o \in (IF shouldRollback THEN rollbackToSavePointWithName(eng, Top.name)
                                   ELSE releaseSavePointWithName(eng, Top.name)) :
          eng' = o.eng /\ returned = o.ok
    /\ Leave(~shouldRollback)
    /\ UNCHANGED inTransaction

\* Mutant: a rollback that failed goes unnoticed.
InSavePointEnds_IgnoresFailure(shouldRollback, returned) ==
    /\ TopIs("inSavePoint")
    /\ \E o \in (IF shouldRollback THEN rollbackToSavePointWithName(eng, Top.name)
                                   ELSE {Outcome(TRUE, eng)}) :
       \E p \in releaseSavePointWithName(o.eng, Top.name) :
          eng' = p.eng /\ returned = p.ok
    /\ Leave(~shouldRollback)
    /\ UNCHANGED inTransaction

\* The rest of inSavePoint, and what it returns.
InSavePointEnds(shouldRollback, returned) ==
    /\ TopIs("inSavePoint")
    /\ \E o \in (IF shouldRollback THEN rollbackToSavePointWithName(eng, Top.name)
                                   ELSE {Outcome(TRUE, eng)}) :
       \E p \in (IF o.ok THEN releaseSavePointWithName(o.eng, Top.name) ELSE {o}) :
          eng' = p.eng /\ returned = p.ok
    /\ Leave(~shouldRollback)
    /\ UNCHANGED inTransaction

\* The client begins, commits and rolls back by itself.  It does so in
\* pairs, and gives up on a transaction when even the rollback fails.
BeginTransaction(deferred) ==
    /\ calls # <<>> /\ Len(calls) < MaxCalls
    /\ \E o \in beginTransaction(eng, deferred) :
          /\ eng' = o.eng
          /\ inTransaction' = (inTransaction \/ o.ok)
          /\ IF o.ok THEN Enter("client", NoName) ELSE UNCHANGED calls

Commit ==
    /\ TopIs("client")
    /\ \E o \in commit(eng) :
          /\ eng' = o.eng
          /\ inTransaction' = (inTransaction /\ ~o.ok)
          /\ IF o.ok THEN Leave(TRUE) ELSE UNCHANGED calls

Rollback ==
    /\ TopIs("client")
    /\ \E o \in rollback(eng) :
          /\ eng' = o.eng
          /\ inTransaction' = (inTransaction /\ ~o.ok)
    /\ Leave(FALSE)

\* close() and open(): SQLite rolls back, _inTransaction is not touched.
Reopen ==
    /\ "reopen" \in faults
    /\ calls # <<>>
    /\ eng' = Ended(eng.disk)
    /\ UNCHANGED <<inTransaction, calls>>

-------------------------------------------------------------------------------
Step ==
    \/ InDatabase
    \/ InDatabaseEnds
    \/ \E deferred \in BOOLEAN : InTransaction(deferred)
    \/ \E shouldRollback \in BOOLEAN : InTransactionEnds(shouldRollback)
    \/ \E n \in Names : QueueSavePoint(n)
    \/ \E shouldRollback \in BOOLEAN : QueueSavePointEnds(shouldRollback)
    \/ \E w \in Rows : Insert(w)
    \/ \E n \in Names : InSavePoint(n)
    \/ \E shouldRollback, returned \in BOOLEAN : InSavePointEnds(shouldRollback, returned)
    \/ \E deferred \in BOOLEAN : BeginTransaction(deferred)
    \/ Commit
    \/ Rollback
    \/ Reopen

Next == Step /\ UNCHANGED faults

Spec == Init /\ [][Next]_vars

-------------------------------------------------------------------------------
(* Properties.  Where a statement's error undoes no more than the          *)
(* statement, all of them hold; the last three whatever fails.             *)

Mild == faults \subseteq StatementErrors

\* A task that asks for a rollback, and an inSavePoint that does and returns
\* true, leave the database as they found it, however their blocks nested
\* savepoints (FMDatabaseQueue.h:39, and testTransaction's row count).
RollbackUndoes ==
    [][Mild /\ (\/ InTransactionEnds(TRUE)
                 \/ QueueSavePointEnds(TRUE)
                 \/ InSavePointEnds(TRUE, TRUE)) => eng'.now = Top.start]_vars

\* Every other call leaves behind exactly what it found and what was
\* inserted in it and not undone inside: a nested rollback takes nothing
\* with it that an outer block wrote.
CommitKeeps ==
    [][Mild /\ (\/ InDatabaseEnds
                 \/ InTransactionEnds(FALSE)
                 \/ QueueSavePointEnds(FALSE)
                 \/ InSavePointEnds(FALSE, TRUE)) => eng'.now = Top.start \union Top.wrote]_vars

\* While the block of inTransaction or of the queue's inSavePoint runs,
\* nothing reaches the disk: a crash there leaves no part of it.
NothingDurableBeforeTheEnd ==
    [][(Mild /\ calls # <<>> /\ calls[1].kind # "inDatabase" /\ calls' # <<>>)
            => eng'.disk = eng.disk]_vars

\* Between tasks there is no transaction, no savepoint and nothing that is
\* not on disk: no task runs in what another one left open.
TasksStartClean == Mild /\ calls = <<>> => eng = Ended(eng.disk) /\ ~inTransaction

\* _inTransaction is set exactly while a transaction that begin opened is
\* open; savepoints that open one do not count.
FlagMatches == Mild => (inTransaction <=> ~eng.auto /\ ~eng.implicit)

\* The engine's savepoints and the running calls do not get mixed up: no name
\* is on the engine's stack twice, and a savepoint with a running call's name
\* is the one that call started.
SavepointsMatchCalls ==
    /\ \A i, j \in DOMAIN eng.saves : eng.saves[i].name = eng.saves[j].name => i = j
    /\ \A i \in DOMAIN eng.saves, j \in DOMAIN calls :
          eng.saves[i].name = calls[j].name => eng.saves[i].snap = calls[j].start

\* inSavePoint does not lie: when it returns true its savepoint is gone, and
\* if a rollback was asked for, the database is as it was before the call,
\* whichever statements failed, of this call or of the ones nested in it.
SavePointCallHonest ==
    [][\A shouldRollback \in BOOLEAN : InSavePointEnds(shouldRollback, TRUE) =>
            /\ \A i \in DOMAIN eng'.saves : eng'.saves[i].name # Top.name
            /\ shouldRollback => eng'.now = Top.start]_vars

\* Whatever fails, inTransaction() does not deny a transaction that begin
\* opened.
FlagNeverDenies == ~eng.auto /\ ~eng.implicit => inTransaction
===============================================================================
