-------------------------- MODULE BusyHandlerProofs ---------------------------
(***************************************************************************)
(* For any intervals, sleeps, working times and changes of the clock, and  *)
(* with or without a read lock: the handler is installed when it should    *)
(* be, a step waits no longer than WaitBounded allows, and is not given up *)
(* sooner than NotTooSoon allows.                                          *)
(***************************************************************************)
EXTENDS BusyHandler, TLAPS

\* What the handler would see of the clock if nobody set it, and what it sees.
ClockAdds ==
    /\ called => handler /\ clock = start + waited + forward - back
    /\ ~called => waited = 0 /\ forward = 0 /\ back = 0

\* A step that sleeps had not used up its interval; one that has worked may
\* have used its working time in addition.
Spent ==
    /\ step = "sleep" => called /\ waited < interval + back
    /\ called => waited < interval + MaxSleep + back
                            + (IF commits \/ step = "done" THEN MaxWork ELSE 0)

\* Where a step is, and what is so there.
InOrder ==
    /\ step = "idle" => ~called /\ ~commits
    /\ step # "idle" => db = "open"
    /\ step = "handler" => handler
    /\ db = "null" => ~handler
    /\ step = "work" => ~commits
    /\ step = "handler" \/ called => commits \/ ~reading

Inv ==
    /\ TypeOK
    /\ HandlerFollowsInterval
    /\ ClockAdds
    /\ Spent
    /\ InOrder
    /\ NotTooSoon

USE IntervalsAssumption, SleepAssumption, TimeAssumption

-------------------------------------------------------------------------------
(* One lemma per group of actions.                                         *)

\* open, close and setMaxBusyRetryTimeInterval happen between steps.
LEMMA ConnectionStep ==
    ASSUME Inv, Open \/ Close \/ (\E t \in Intervals : setMaxBusyRetryTimeInterval(t))
    PROVE  Inv'
<1>1. step = "idle" /\ ~called /\ step' = step /\ called' = called /\ commits' = commits
  BY DEF Inv, InOrder, Open, Close, setMaxBusyRetryTimeInterval, statement
<1>2. /\ start' = start /\ clock' = clock /\ changes' = changes /\ locked' = locked
      /\ reading' \in {reading, FALSE}
      /\ nap' = nap /\ waited' = waited /\ forward' = forward /\ back' = back
  BY DEF Open, Close, setMaxBusyRetryTimeInterval, statement, history
<1>3. /\ db' \in {"null", "open", "failed"} /\ interval' \in Int /\ handler' \in BOOLEAN
      /\ HandlerFollowsInterval' /\ (db' = "null" => ~handler')
  <2>1. CASE Open
    <3>1. interval' = interval /\ db' \in {"open", "failed"}
      BY <2>1 DEF Open
    <3>2. handler' \in BOOLEAN /\ (db' = "open" => (handler' <=> interval > 0))
      BY <2>1 DEF Open, Inv, TypeOK, InOrder
    <3>3. QED
      BY <3>1, <3>2 DEF Inv, TypeOK, HandlerFollowsInterval
  <2>2. CASE Close
    BY <2>2 DEF Close, Inv, TypeOK, HandlerFollowsInterval
  <2>3. ASSUME NEW t \in Intervals, setMaxBusyRetryTimeInterval(t)
        PROVE  /\ db' \in {"null", "open", "failed"} /\ interval' \in Int
               /\ handler' \in BOOLEAN /\ HandlerFollowsInterval'
               /\ db' = "null" => ~handler'
    <3>1. interval' = t /\ db' = db /\ t \in Int
      BY <2>3 DEF setMaxBusyRetryTimeInterval
    <3>2. CASE db = "null"
      BY <2>3, <3>1, <3>2 DEF setMaxBusyRetryTimeInterval, Inv, TypeOK, InOrder, HandlerFollowsInterval
    <3>3. CASE db # "null"
      <4>1. handler' = IF t > 0 THEN TRUE ELSE FALSE
        BY <2>3, <3>3 DEF setMaxBusyRetryTimeInterval
      <4>2. handler' \in BOOLEAN /\ (handler' <=> t > 0)
        BY <4>1
      <4>3. QED
        BY <3>1, <3>3, <4>2 DEF Inv, TypeOK, HandlerFollowsInterval
    <3>4. QED
      BY <3>2, <3>3
  <2>4. QED
    BY <2>1, <2>2, <2>3
<1>4. TypeOK'
  BY <1>1, <1>2, <1>3 DEF Inv, TypeOK
<1>5. ClockAdds' /\ Spent' /\ InOrder' /\ NotTooSoon'
  BY <1>1, <1>2, <1>3 DEF Inv, ClockAdds, Spent, InOrder, NotTooSoon
<1>6. QED
  BY <1>3, <1>4, <1>5 DEF Inv

\* A step begins, and returns; between steps a read lock goes.
LEMMA BoundaryStep ==
    ASSUME Inv, Execute \/ Return \/ EndReading
    PROVE  Inv'
<1>1. UNCHANGED <<db, interval, handler, start, clock, changes, locked, nap>>
  BY DEF Execute, Return, EndReading, connection, statement
<1>2. reading' \in BOOLEAN
  BY DEF Execute, Return, EndReading, Inv, TypeOK
<1>3. CASE Execute
  BY <1>1, <1>2, <1>3 DEF Execute, history, Inv, TypeOK, Steps, HandlerFollowsInterval,
                          ClockAdds, Spent, InOrder, NotTooSoon
<1>4. CASE Return
  BY <1>1, <1>2, <1>4 DEF Return, Inv, TypeOK, Steps, HandlerFollowsInterval, ClockAdds, Spent,
                          InOrder, NotTooSoon
<1>5. CASE EndReading
  BY <1>1, <1>2, <1>5 DEF EndReading, statement, history, Inv, TypeOK, HandlerFollowsInterval,
                          ClockAdds, Spent, InOrder, NotTooSoon
<1>6. QED
  BY <1>3, <1>4, <1>5

\* SQLite asks for the lock.  If it is refused without a call of the handler,
\* then there is none, or the connection was reading and this is its first
\* lock, for which the handler is never called (InOrder).
LEMMA TryLockStep ==
    ASSUME Inv, TryLock
    PROVE  Inv'
<1>1. /\ UNCHANGED <<db, interval, handler, start, clock, changes, locked, reading, commits,
                     called, nap, waited, forward, back>>
      /\ step = "try" /\ step' \in {"handler", "busy", "done", "work"}
      /\ step' = "busy" => ~handler \/ (reading /\ ~commits)
      /\ step' = "handler" => handler /\ (commits \/ ~reading)
      /\ step' = "work" => ~commits
  BY DEF TryLock, Asks, connection, history
<1>2. step' = "busy" /\ interval > 0 => reading /\ ~commits /\ ~called
  BY <1>1 DEF Inv, InOrder, HandlerFollowsInterval
<1>3. TypeOK' /\ HandlerFollowsInterval' /\ ClockAdds'
  BY <1>1 DEF Inv, TypeOK, Steps, HandlerFollowsInterval, ClockAdds
<1>4. InOrder'
  BY <1>1 DEF Inv, InOrder
<1>5. Spent'
  BY <1>1 DEF Inv, TypeOK, Spent
<1>6. NotTooSoon'
  BY <1>1, <1>2 DEF NotTooSoon
<1>7. QED
  BY <1>3, <1>4, <1>5, <1>6 DEF Inv

\* The first call of the handler records the time.
LEMMA FirstCallStep ==
    ASSUME Inv, FirstCall
    PROVE  Inv'
<1>1. /\ UNCHANGED <<db, interval, handler, clock, changes, locked, reading, commits, nap,
                     waited, forward, back>>
      /\ step = "handler" /\ ~called /\ step' = "try" /\ called' = TRUE /\ start' = clock
  BY DEF FirstCall, connection, history
<1>2. handler /\ interval > 0 /\ waited = 0 /\ forward = 0 /\ back = 0
  BY <1>1 DEF Inv, InOrder, HandlerFollowsInterval, ClockAdds
<1>3. TypeOK' /\ HandlerFollowsInterval' /\ InOrder' /\ NotTooSoon'
  BY <1>1 DEF Inv, TypeOK, Steps, HandlerFollowsInterval, InOrder, NotTooSoon
<1>4. ClockAdds' /\ Spent'
  BY <1>1, <1>2 DEF Inv, TypeOK, ClockAdds, Spent
<1>5. QED
  BY <1>3, <1>4 DEF Inv

\* The handler goes to sleep while the interval is not used up.
LEMMA RetryStep ==
    ASSUME Inv, NEW time \in MinSleep..MaxSleep, Retry(time)
    PROVE  Inv'
<1>1. /\ UNCHANGED <<db, interval, handler, start, clock, changes, locked, reading, commits, called,
                     waited, forward, back>>
      /\ step = "handler" /\ called /\ step' = "sleep" /\ nap' = time
      /\ clock - start < interval
  BY DEF Retry, connection, history
<1>2. waited < interval + back
  BY <1>1 DEF Inv, TypeOK, ClockAdds
<1>3. nap' \in 0..MaxSleep
  BY <1>1
<1>4. TypeOK' /\ HandlerFollowsInterval' /\ InOrder' /\ NotTooSoon' /\ ClockAdds'
  BY <1>1, <1>3 DEF Inv, TypeOK, Steps, HandlerFollowsInterval, InOrder, NotTooSoon, ClockAdds
<1>5. Spent'
  BY <1>1, <1>2 DEF Inv, Spent
<1>6. QED
  BY <1>4, <1>5 DEF Inv

\* The handler gives up once the interval is used up.
LEMMA GiveUpStep ==
    ASSUME Inv, GiveUp
    PROVE  Inv'
<1>1. /\ UNCHANGED <<db, interval, handler, start, clock, changes, locked, reading, commits, called,
                     nap, waited, forward, back>>
      /\ step = "handler" /\ called /\ step' = "busy"
      /\ clock - start >= interval
  BY DEF GiveUp, connection, history
<1>2. waited + forward >= interval
  BY <1>1 DEF Inv, TypeOK, ClockAdds
<1>3. TypeOK' /\ HandlerFollowsInterval' /\ InOrder' /\ ClockAdds' /\ Spent'
  BY <1>1 DEF Inv, TypeOK, Steps, HandlerFollowsInterval, InOrder, ClockAdds, Spent
<1>4. NotTooSoon'
  BY <1>1, <1>2 DEF NotTooSoon
<1>5. QED
  BY <1>3, <1>4 DEF Inv

\* A sleep ends.
LEMMA SleepStep ==
    ASSUME Inv, Sleep
    PROVE  Inv'
<1>1. /\ UNCHANGED <<db, interval, handler, start, changes, locked, reading, commits, called,
                     forward, back>>
      /\ step = "sleep" /\ step' = "try" /\ nap' = 0 /\ called
      /\ clock' = clock + nap /\ waited' = waited + nap
      /\ waited < interval + back
  BY DEF Sleep, Passes, connection, Inv, Spent
<1>2. waited' < interval + MaxSleep + back
  BY <1>1 DEF Inv, TypeOK
<1>3. TypeOK' /\ HandlerFollowsInterval' /\ InOrder' /\ NotTooSoon'
  BY <1>1 DEF Inv, TypeOK, Steps, HandlerFollowsInterval, InOrder, NotTooSoon
<1>4. ClockAdds'
  BY <1>1 DEF Inv, TypeOK, ClockAdds
<1>5. Spent'
  BY <1>1, <1>2 DEF Inv, TypeOK, Spent
<1>6. QED
  BY <1>3, <1>4, <1>5 DEF Inv

\* The statement works under its first lock, and may ask for the second.
LEMMA WorkStep ==
    ASSUME Inv, NEW time \in 0..MaxWork, Work(time)
    PROVE  Inv'
<1>1. /\ UNCHANGED <<db, interval, handler, start, changes, locked, reading, called, nap, forward,
                     back>>
      /\ step = "work" /\ ~commits
      /\ step' \in {"try", "done"} /\ commits' \in BOOLEAN /\ (commits' \/ step' = "done")
      /\ clock' = clock + time
      /\ called => waited' = waited + time
      /\ ~called => waited' = waited
  BY DEF Work, Passes, connection, Inv, TypeOK, InOrder
<1>2. called => waited' < interval + MaxSleep + MaxWork + back
  BY <1>1 DEF Inv, TypeOK, Spent
<1>3. TypeOK' /\ HandlerFollowsInterval' /\ NotTooSoon'
  BY <1>1 DEF Inv, TypeOK, Steps, HandlerFollowsInterval, NotTooSoon
<1>4. InOrder'
  BY <1>1 DEF Inv, InOrder
<1>5. ClockAdds'
  BY <1>1 DEF Inv, TypeOK, ClockAdds
<1>6. Spent'
  BY <1>1, <1>2 DEF Inv, TypeOK, Spent
<1>7. QED
  BY <1>3, <1>4, <1>5, <1>6 DEF Inv

\* The other connection takes or releases its lock.
LEMMA LockStep ==
    ASSUME Inv, Lock
    PROVE  Inv'
<1>1. UNCHANGED <<db, interval, handler, start, clock, changes, reading, step, commits, called,
                  nap, waited, forward, back>>
  BY DEF Lock, connection, statement, history
<1>2. locked' \in BOOLEAN
  BY DEF Lock, Inv, TypeOK
<1>3. TypeOK'
  BY <1>1, <1>2 DEF Inv, TypeOK
<1>4. HandlerFollowsInterval' /\ ClockAdds' /\ Spent' /\ InOrder' /\ NotTooSoon'
  BY <1>1 DEF Inv, HandlerFollowsInterval, ClockAdds, Spent, InOrder, NotTooSoon
<1>5. QED
  BY <1>3, <1>4 DEF Inv

\* Somebody sets the clock.
LEMMA SetClockStep ==
    ASSUME Inv, NEW jump \in (-MaxJump)..MaxJump, SetClock(jump)
    PROVE  Inv'
<1>1. /\ UNCHANGED <<db, interval, handler, start, locked, reading, step, commits, called, nap,
                     waited>>
      /\ changes < MaxChanges /\ changes' = changes + 1 /\ clock' = clock + jump
      /\ forward' = IF called /\ jump > 0 THEN forward + jump ELSE forward
      /\ back' = IF called /\ jump < 0 THEN back - jump ELSE back
  BY DEF SetClock, connection, statement
<1>2. /\ forward' \in Nat /\ forward' >= forward
      /\ back' \in Nat /\ back' >= back
  BY <1>1 DEF Inv, TypeOK
<1>3. changes' \in 0..MaxChanges /\ clock' \in Int
  BY <1>1 DEF Inv, TypeOK
<1>4. TypeOK' /\ HandlerFollowsInterval' /\ InOrder'
  BY <1>1, <1>2, <1>3 DEF Inv, TypeOK, HandlerFollowsInterval, InOrder
<1>5. ClockAdds'
  BY <1>1 DEF Inv, TypeOK, ClockAdds
<1>6. Spent' /\ NotTooSoon'
  BY <1>1, <1>2 DEF Inv, TypeOK, Spent, NotTooSoon
<1>7. QED
  BY <1>4, <1>5, <1>6 DEF Inv

-------------------------------------------------------------------------------
(* The theorems.                                                           *)

\* Inv is an invariant of FMDatabase's busy handling: what the handler sees
\* of the clock is the time waited and the changes made to the clock.
THEOREM Safety == Spec => []Inv
<1>1. Init => Inv
  <2> SUFFICES ASSUME Init PROVE Inv
    OBVIOUS
  <2>1. TypeOK
    <3>1. /\ handler \in BOOLEAN /\ locked \in BOOLEAN /\ reading \in BOOLEAN
          /\ commits \in BOOLEAN /\ called \in BOOLEAN
      BY Zenon DEF Init
    <3>2. db \in {"null", "open", "failed"} /\ step \in Steps
      BY Zenon DEF Init, Steps
    <3>3. /\ interval \in Int /\ start \in Int /\ clock \in Int
          /\ changes \in 0..MaxChanges /\ nap \in 0..MaxSleep
          /\ waited \in Nat /\ forward \in Nat /\ back \in Nat
      BY SMT DEF Init
    <3>4. QED
      BY <3>1, <3>2, <3>3 DEF TypeOK
  <2>2. HandlerFollowsInterval /\ InOrder /\ NotTooSoon
    BY DEF Init, HandlerFollowsInterval, InOrder, NotTooSoon
  <2>3. ClockAdds /\ Spent
    BY DEF Init, ClockAdds, Spent
  <2>4. QED
    BY <2>1, <2>2, <2>3 DEF Inv
<1>2. Inv /\ [Next]_vars => Inv'
  <2> SUFFICES ASSUME Inv, [Next]_vars PROVE Inv'
    OBVIOUS
  <2>1. CASE Next
    BY <2>1, ConnectionStep, BoundaryStep, TryLockStep, FirstCallStep, RetryStep, GiveUpStep,
       SleepStep, WorkStep, LockStep, SetClockStep DEF Next, InStep, Handler
  <2>2. CASE UNCHANGED vars
    BY <2>2 DEF vars, connection, statement, history, Inv, TypeOK, HandlerFollowsInterval,
                ClockAdds, Spent, InOrder, NotTooSoon
  <2>3. QED
    BY <2>1, <2>2
<1>3. QED
  BY <1>1, <1>2, PTL DEF Spec

\* FMDBDatabaseBusyHandler is installed on an open connection exactly if
\* _maxBusyRetryTimeInterval is positive.
THEOREM HandlerInstalled == Spec => []HandlerFollowsInterval
<1>1. Inv => HandlerFollowsInterval
  BY DEF Inv
<1>2. QED
  BY <1>1, Safety, PTL

\* sqlite3_step waits for its locks no longer than the interval, one sleep,
\* its own work and the distance by which the clock was set back.
THEOREM BoundedWait == Spec => []WaitBounded
<1>1. Inv => WaitBounded
  BY DEF Inv, TypeOK, Spent, WaitBounded
<1>2. QED
  BY <1>1, Safety, PTL

\* SQLITE_BUSY is not reported before the interval has passed, unless the
\* clock was set forward, or the connection held a read lock and is refused
\* its first lock without a call of the handler.
THEOREM NoEarlyBusy == Spec => []NotTooSoon
<1>1. Inv => NotTooSoon
  BY DEF Inv
<1>2. QED
  BY <1>1, Safety, PTL

\* Every variable keeps its type.
THEOREM TypeSafety == Spec => []TypeOK
<1>1. Inv => TypeOK
  BY DEF Inv
<1>2. QED
  BY <1>1, Safety, PTL
===============================================================================
