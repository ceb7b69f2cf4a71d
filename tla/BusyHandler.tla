----------------------------- MODULE BusyHandler ------------------------------
(***************************************************************************)
(* The busy handler: how long sqlite3_step waits for a lock that another   *)
(* connection holds, measured with a system clock that anybody may set.    *)
(*                                                                         *)
(* A statement outside a transaction asks for a lock twice, when it begins *)
(* and when it commits, and SQLite counts the calls of the handler through *)
(* both: only the first one of a step is given count = 0.  In a deferred   *)
(* transaction a statement asks for the first only, and COMMIT for the     *)
(* second.  A connection that holds a read lock already, for an open       *)
(* result set or its transaction, does not wait for the first: SQLite      *)
(* refuses at once, so that two such connections cannot wait for each      *)
(* other.  Statements that need no lock are left out.                      *)
(***************************************************************************)
EXTENDS Integers

CONSTANTS
    Intervals,           \* what setMaxBusyRetryTimeInterval is called with
    DefaultInterval,     \* _maxBusyRetryTimeInterval's initializer
    MinSleep, MaxSleep,  \* the handler's 50 to 99 ms
    MaxWork,             \* the longest that a statement works for
    MaxJump,             \* how far the clock is set at a time
    MaxChanges,          \* how often it is set (bound)
    LastStart            \* no statement begins after this time (bound)

ASSUME IntervalsAssumption == Intervals \subseteq Int /\ DefaultInterval \in Int
ASSUME SleepAssumption ==
    MinSleep \in Nat /\ MaxSleep \in Nat /\ 0 < MinSleep /\ MinSleep <= MaxSleep
ASSUME TimeAssumption ==
    MaxWork \in Nat /\ MaxJump \in Nat /\ MaxChanges \in Nat /\ LastStart \in Int

VARIABLES
    db,        \* _db: null, open, or what a failed sqlite3_open leaves
    interval,  \* _maxBusyRetryTimeInterval
    handler,   \* is FMDBDatabaseBusyHandler installed on the connection?
    start,     \* _startBusyRetryTime
    clock,     \* the system clock
    changes,   \* how often it has been set
    locked,    \* another connection holds a lock that this one needs
    reading,   \* this connection holds a read lock: for an open result set,
               \* or since a deferred transaction has read
    step,      \* how far sqlite3_step has come
    commits,   \* is it at the second lock?
    called,    \* has this step called the handler (nBusy > 0)?
    nap,       \* what the handler asks sqlite3_sleep for
    waited,    \* history: the time since the handler was first called
    forward,   \* history: how far the clock was set forward meanwhile
    back       \* history: how far it was set back

connection == <<db, interval, handler>>
statement == <<step, commits, called, nap>>
history == <<waited, forward, back>>
vars == <<connection, start, clock, changes, locked, reading, statement, history>>

Steps == {"idle", "try", "handler", "sleep", "work", "done", "busy"}

TypeOK ==
    /\ db \in {"null", "open", "failed"}
    /\ interval \in Int
    /\ handler \in BOOLEAN
    /\ start \in Int
    /\ clock \in Int
    /\ changes \in 0..MaxChanges
    /\ locked \in BOOLEAN
    /\ reading \in BOOLEAN
    /\ step \in Steps
    /\ commits \in BOOLEAN
    /\ called \in BOOLEAN
    /\ nap \in 0..MaxSleep
    /\ waited \in Nat /\ forward \in Nat /\ back \in Nat

Init ==
    /\ db = "null"
    /\ interval = DefaultInterval
    /\ handler = FALSE
    /\ start = 0
    /\ clock = 0
    /\ changes = 0
    /\ locked = FALSE
    /\ reading = FALSE
    /\ step = "idle"
    /\ commits = FALSE
    /\ called = FALSE
    /\ nap = 0
    /\ waited = 0 /\ forward = 0 /\ back = 0

-------------------------------------------------------------------------------
(* FMDatabase.                                                             *)

\* Mutant: open() leaves it to the client to install the handler.
Open_NoHandler ==
    /\ step = "idle" /\ db = "null"
    /\ db' = "open"
    /\ UNCHANGED <<interval, handler, start, clock, changes, locked, reading, statement, history>>

\* open, openWithFlags
Open ==
    /\ step = "idle" /\ db = "null"
    /\ \/ db' = "open" /\ handler' = IF interval > 0 THEN TRUE ELSE handler
       \/ db' = "failed" /\ UNCHANGED handler
    /\ UNCHANGED <<interval, start, clock, changes, locked, reading, statement, history>>

\* close: the connection goes, and the handler and its locks with it.
Close ==
    /\ step = "idle" /\ db # "null"
    /\ db' = "null"
    /\ handler' = FALSE
    /\ reading' = FALSE
    /\ UNCHANGED <<interval, start, clock, changes, locked, statement, history>>

setMaxBusyRetryTimeInterval(timeout) ==
    /\ step = "idle"
    /\ interval' = timeout
    /\ handler' = IF db = "null" THEN handler ELSE IF timeout > 0 THEN TRUE ELSE FALSE
    /\ UNCHANGED <<db, start, clock, changes, locked, reading, statement, history>>

\* executeUpdate, or next, calls sqlite3_step, for the COMMIT of a transaction
\* that holds its locks or for another statement.
Execute ==
    /\ step = "idle" /\ db = "open"
    /\ clock <= LastStart
    /\ step' = "try"
    /\ commits' \in {FALSE, reading}
    /\ UNCHANGED <<connection, start, clock, changes, locked, reading, called, nap, history>>

\* A result set is closed, or a transaction has ended: the read lock goes.
EndReading ==
    /\ step = "idle" /\ reading
    /\ reading' = FALSE
    /\ UNCHANGED <<connection, start, clock, changes, locked, statement, history>>

\* sqlite3_step returns SQLITE_DONE, SQLITE_ROW or SQLITE_BUSY to its caller;
\* SQLite will count from 0 again.  A query that stands on a row, or any
\* statement in a transaction, leaves a read lock behind.
Return ==
    /\ step \in {"done", "busy"}
    /\ step' = "idle"
    /\ reading' \in {reading} \union (IF step = "done" /\ ~commits THEN {TRUE} ELSE {})
    /\ commits' = FALSE
    /\ called' = FALSE
    /\ waited' = 0 /\ forward' = 0 /\ back' = 0
    /\ UNCHANGED <<connection, start, clock, changes, locked, nap>>

-------------------------------------------------------------------------------
(* SQLite's side of a step.                                                *)

\* Is the handler asked when a lock is taken?  Not for the first lock of a
\* step if the connection is reading (pBt->inTransaction # TRANS_NONE); for
\* the second, pager_wait_on_lock asks it always.
Asks == handler /\ (commits \/ ~reading)

\* The lock is free: work under it, or be done; or it is taken.
TryLock ==
    /\ step = "try"
    /\ step' = IF locked THEN IF Asks THEN "handler" ELSE "busy"
               ELSE IF commits THEN "done" ELSE "work"
    /\ UNCHANGED <<connection, start, clock, changes, locked, reading, commits, called, nap,
                   history>>

\* Time passes, and counts from when the handler was first called.
Passes(time) ==
    /\ clock' = clock + time
    /\ waited' = IF called THEN waited + time ELSE waited
    /\ UNCHANGED <<forward, back>>

\* The statement works, and then commits unless it is in a transaction or
\* only reads.
Work(time) ==
    /\ step = "work"
    /\ \/ step' = "try" /\ commits' = TRUE
       \/ step' = "done" /\ UNCHANGED commits
    /\ Passes(time)
    /\ UNCHANGED <<connection, start, changes, locked, reading, called, nap>>

-------------------------------------------------------------------------------
(* FMDBDatabaseBusyHandler.                                                *)

\* Mutant: the start time is not recorded, so an earlier one counts.
FirstCall_KeepsStart ==
    /\ step = "handler" /\ ~called
    /\ called' = TRUE
    /\ step' = "try"
    /\ UNCHANGED <<connection, start, clock, changes, locked, reading, commits, nap, history>>

\* count == 0: record the time and retry at once.
FirstCall ==
    /\ step = "handler" /\ ~called
    /\ start' = clock
    /\ called' = TRUE
    /\ step' = "try"
    /\ UNCHANGED <<connection, clock, changes, locked, reading, commits, nap, history>>

\* Mutant: arc4random_uniform(50) without the + 50.
Retry_MayNotSleep(time) ==
    /\ step = "handler" /\ called
    /\ clock - start < interval
    /\ nap' = time - MinSleep
    /\ step' = "sleep"
    /\ UNCHANGED <<connection, start, clock, changes, locked, reading, commits, called, history>>

\* Mutant: 50 is added to the 50 to 99 ms once more.
Retry_AddsTwice(time) ==
    /\ step = "handler" /\ called
    /\ clock - start < interval
    /\ nap' = time + MinSleep
    /\ step' = "sleep"
    /\ UNCHANGED <<connection, start, clock, changes, locked, reading, commits, called, history>>

\* Mutant: the interval is compared with the length of the next sleep.
Retry_ComparesSleep(time) ==
    /\ step = "handler" /\ called
    /\ clock - start - time < interval
    /\ nap' = time
    /\ step' = "sleep"
    /\ UNCHANGED <<connection, start, clock, changes, locked, reading, commits, called, history>>

\* delta < _maxBusyRetryTimeInterval: sleep, and return 1
Retry(time) ==
    /\ step = "handler" /\ called
    /\ clock - start < interval
    /\ nap' = time
    /\ step' = "sleep"
    /\ UNCHANGED <<connection, start, clock, changes, locked, reading, commits, called, history>>

Sleep ==
    /\ step = "sleep"
    /\ step' = "try"
    /\ nap' = 0
    /\ Passes(nap)
    /\ UNCHANGED <<connection, start, changes, locked, reading, commits, called>>

\* return 0
GiveUp ==
    /\ step = "handler" /\ called
    /\ clock - start >= interval
    /\ step' = "busy"
    /\ UNCHANGED <<connection, start, clock, changes, locked, reading, commits, called, nap, history>>

-------------------------------------------------------------------------------
(* The others: a connection with a lock, and whoever sets the clock.       *)

Lock ==
    /\ locked' \in BOOLEAN \ {locked}
    /\ UNCHANGED <<connection, start, clock, changes, reading, statement, history>>

SetClock(jump) ==
    /\ changes < MaxChanges
    /\ changes' = changes + 1
    /\ clock' = clock + jump
    /\ forward' = IF called /\ jump > 0 THEN forward + jump ELSE forward
    /\ back' = IF called /\ jump < 0 THEN back - jump ELSE back
    /\ UNCHANGED <<connection, start, locked, reading, statement, waited>>

-------------------------------------------------------------------------------
Handler == FirstCall \/ (\E time \in MinSleep..MaxSleep : Retry(time)) \/ GiveUp

InStep == TryLock \/ (\E time \in 0..MaxWork : Work(time)) \/ Handler \/ Sleep \/ Return

Next ==
    \/ Open
    \/ Close
    \/ \E timeout \in Intervals : setMaxBusyRetryTimeInterval(timeout)
    \/ Execute
    \/ EndReading
    \/ InStep
    \/ Lock
    \/ \E jump \in (-MaxJump)..MaxJump : SetClock(jump)

\* The thread in sqlite3_step runs, and sleeps end.  The other connection
\* need not ever release its lock.
Spec == Init /\ [][Next]_vars /\ WF_vars(InStep)

-------------------------------------------------------------------------------
(* Properties.                                                             *)

\* An open connection has the handler exactly if the interval is positive,
\* whether it was set before open(), after it, or before a close() and
\* another open() (testChangingMaxBusyRetryTimeInterval and its siblings).
HandlerFollowsInterval == db = "open" => (handler <=> interval > 0)

\* A step waits no longer than the interval, one sleep and its own work,
\* counted over both of its locks, plus as far as the clock was set back
\* meanwhile: system_clock is the only thing that can prolong it.
WaitBounded ==
    called => waited < interval + MaxSleep + MaxWork + back

\* With a handler, SQLITE_BUSY is not reported before the interval has
\* passed, unless the clock was set forward meanwhile: a start time left
\* over from an earlier statement never counts.  The exception is a step that
\* wanted its first lock while the connection was reading; it is refused
\* without a call of the handler, never after some of its interval.
NotTooSoon ==
    step = "busy" /\ interval > 0 =>
        \/ waited + forward >= interval
        \/ reading /\ ~commits /\ ~called

\* sqlite3_step returns, even if the other connection never lets go of its
\* lock or takes it again and again (testBusyRetryTimeout).
StepReturns == step = "try" ~> step \in {"done", "busy"}
===============================================================================
