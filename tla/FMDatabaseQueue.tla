--------------------------- MODULE FMDatabaseQueue ----------------------------
(***************************************************************************)
(* FMDatabaseQueue: client threads append tasks to a std::list under a     *)
(* mutex (put), one worker thread runs and removes them without taking     *)
(* that mutex (exec), and close() stops and joins the worker.              *)
(*                                                                         *)
(* Because the list is touched from both sides at once, it is modelled at  *)
(* the level at which the two sides interleave: the single loads and       *)
(* stores of libc++'s list::push_back, empty, front and pop_front (the     *)
(* Xcode project builds against libc++).  A circular doubly linked list    *)
(* with a sentinel, End, and a size.  Memory is sequentially consistent.   *)
(*                                                                         *)
(* Every task is submitted by a call of its own, so a task also names the  *)
(* call, the node that holds it and the thread that makes the call.        *)
(***************************************************************************)
EXTENDS Naturals, Sequences, FiniteSets

CONSTANTS
    Tasks,      \* the blocks given to inDatabase, inTransaction, inSavePoint
    ByRef,      \* those captured by reference: inTransaction, inSavePoint
    End,        \* the sentinel of the list
    NoTask,
    SelfClosers, \* those whose block calls close() on its own queue
    SelfCallers, \* those whose block calls inDatabase or inTransaction on its
                 \* own queue, in a DEBUG build
    Overlaps    \* may put() and pop_front() overlap in time? (some runs say)

ASSUME QueueAssumption ==
    /\ ByRef \subseteq Tasks
    /\ End \notin Tasks
    /\ NoTask \notin Tasks
    /\ SelfClosers \subseteq Tasks
    /\ SelfCallers \subseteq Tasks
    /\ Overlaps \subseteq BOOLEAN

VARIABLES
    next, prev, \* the links of the list
    size,       \* its element count
    freed,      \* nodes that pop_front has deleted
    mutex,      \* the call that holds _packet->_mutex, or NoTask
    call,       \* how far each call of put() has come
    pushSize,   \* the size that push_back has read
    worker,     \* how far exec() has come
    task,       \* the task it runs, or the node it is removing
    popSize,    \* the size that pop_front has read
    stop,       \* _packet->_stop
    closing,    \* how far close() has come
    crashed,    \* the process is gone
    overlap,    \* put() and pop_front() may overlap: never changes
    received,   \* history: the tasks in the order in which put() got them
    executed    \* history: the tasks that were started, in that order

listVars == <<next, prev, size, freed>>
callVars == <<mutex, call, pushSize>>
workerVars == <<worker, task, popSize>>
closeVars == <<stop, closing>>
vars == <<listVars, callVars, workerVars, closeVars, crashed, overlap, received, executed>>

Nodes == Tasks \union {End}

CallStates == {"idle", "locked", "hook", "tail", "readSize", "writeSize", "unlock", "returned"}
PopStates == {"relink", "readSize", "writeSize"}
WorkerStates == {"loop", "empty", "front", "run", "pop", "done"} \union PopStates

TypeOK ==
    /\ next \in [Nodes -> Nodes]
    /\ prev \in [Nodes -> Nodes]
    /\ size \in 0..Cardinality(Tasks)
    /\ freed \subseteq Tasks
    /\ mutex \in Tasks \union {NoTask}
    /\ call \in [Tasks -> CallStates]
    /\ pushSize \in 0..Cardinality(Tasks)
    /\ worker \in WorkerStates
    /\ task \in Tasks \union {NoTask}
    /\ popSize \in 0..Cardinality(Tasks)
    /\ stop \in BOOLEAN
    /\ closing \in {"open", "joining", "closed"}
    /\ crashed \in BOOLEAN
    /\ overlap \in Overlaps
    /\ received \in Seq(Tasks)
    /\ executed \in Seq(Tasks)

\* The constructor has opened the database and started the worker.
Init ==
    /\ next = [n \in Nodes |-> End]
    /\ prev = [n \in Nodes |-> End]
    /\ size = 0
    /\ freed = {}
    /\ mutex = NoTask
    /\ call = [t \in Tasks |-> "idle"]
    /\ pushSize = 0
    /\ worker = "loop"
    /\ task = NoTask
    /\ popSize = 0
    /\ stop = FALSE
    /\ closing = "open"
    /\ crashed = FALSE
    /\ overlap \in Overlaps
    /\ received = <<>>
    /\ executed = <<>>

-------------------------------------------------------------------------------
(* put, called by inDatabase, inTransaction and inSavePoint.               *)

callStep(t, from, to) ==
    /\ ~crashed
    /\ call[t] = from
    /\ call' = [call EXCEPT ![t] = to]

\* Mutant: put() without its lock_guard.
PutLock_NoLock(t) ==
    /\ overlap \/ worker \notin PopStates
    /\ callStep(t, "idle", "locked")
    /\ received' = Append(received, t)
    /\ UNCHANGED <<overlap, listVars, mutex, pushSize, workerVars, closeVars, crashed, executed>>

\* lock_guard.  Nothing here looks at _stop.  The thread may be the worker's:
\* a block in a release build, or by inSavePoint, may call its own queue.
PutLock(t) ==
    /\ mutex = NoTask
    /\ overlap \/ worker \notin PopStates
    /\ callStep(t, "idle", "locked")
    /\ mutex' = t
    /\ received' = Append(received, t)
    /\ UNCHANGED <<overlap, listVars, pushSize, workerVars, closeVars, crashed, executed>>

\* push_back: n->next = end; n->prev = end.prev
PushNode(t) ==
    /\ callStep(t, "locked", "hook")
    /\ next' = [next EXCEPT ![t] = End]
    /\ prev' = [prev EXCEPT ![t] = prev[End]]
    /\ UNCHANGED <<overlap, size, freed, mutex, pushSize, workerVars, closeVars, crashed,
                   received, executed>>

\* n->prev->next = n, which writes into freed memory when the worker has
\* deleted that node meanwhile: it may crash, or go unnoticed.
PushHook(t) ==
    /\ callStep(t, "hook", "tail")
    /\ next' = [next EXCEPT ![prev[t]] = t]
    /\ crashed' \in (IF prev[t] \in freed THEN BOOLEAN ELSE {FALSE})
    /\ UNCHANGED <<overlap, prev, size, freed, mutex, pushSize, workerVars, closeVars,
                   received, executed>>

\* end.prev = n
PushTail(t) ==
    /\ callStep(t, "tail", "readSize")
    /\ prev' = [prev EXCEPT ![End] = t]
    /\ UNCHANGED <<overlap, next, size, freed, mutex, pushSize, workerVars, closeVars, crashed,
                   received, executed>>

\* ++size, a load and a store
PushReadSize(t) ==
    /\ callStep(t, "readSize", "writeSize")
    /\ pushSize' = size
    /\ UNCHANGED <<overlap, listVars, mutex, workerVars, closeVars, crashed, received, executed>>

PushWriteSize(t) ==
    /\ callStep(t, "writeSize", "unlock")
    /\ size' = pushSize + 1
    /\ UNCHANGED <<overlap, next, prev, freed, mutex, pushSize, workerVars, closeVars, crashed,
                   received, executed>>

\* The lock is released and the call returns; a block that the task
\* captured by reference is the caller's argument, and ends with the call.
PutReturn(t) ==
    /\ callStep(t, "unlock", "returned")
    /\ mutex' = NoTask
    /\ UNCHANGED <<overlap, listVars, pushSize, workerVars, closeVars, crashed, received, executed>>

-------------------------------------------------------------------------------
(* exec, the worker thread.                                                *)

workerStep(from, to) ==
    /\ ~crashed
    /\ worker = from
    /\ worker' = to

\* Mutant: the loop does not look at _stop.
LoopTest_Forever ==
    /\ workerStep("loop", "empty")
    /\ UNCHANGED <<overlap, listVars, callVars, task, popSize, closeVars, crashed, received, executed>>

\* Mutant: the loop removes a task before it looks whether there is one.
LoopTest_PopsFirst ==
    /\ workerStep("loop", IF stop THEN "done" ELSE "pop")
    /\ UNCHANGED <<overlap, listVars, callVars, task, popSize, closeVars, crashed, received, executed>>

\* while (!_stop)
LoopTest ==
    /\ workerStep("loop", IF stop THEN "done" ELSE "empty")
    /\ UNCHANGED <<overlap, listVars, callVars, task, popSize, closeVars, crashed, received, executed>>

\* Mutant: a single waiting task is overlooked.
EmptyTest_OffByOne ==
    /\ workerStep("empty", IF size <= 1 THEN "loop" ELSE "front")
    /\ UNCHANGED <<overlap, listVars, callVars, task, popSize, closeVars, crashed, received, executed>>

\* Mutant: front() without looking whether there is a task.
EmptyTest_Skipped ==
    /\ workerStep("empty", "front")
    /\ UNCHANGED <<overlap, listVars, callVars, task, popSize, closeVars, crashed, received, executed>>

\* if (empty()) sleep and continue
EmptyTest ==
    /\ workerStep("empty", IF size = 0 THEN "loop" ELSE "front")
    /\ UNCHANGED <<overlap, listVars, callVars, task, popSize, closeVars, crashed, received, executed>>

\* Mutant: the newest task is taken instead of the oldest.
FrontAndCall_Back ==
    /\ workerStep("front", "run")
    /\ IF prev[End] = End
       THEN crashed' = TRUE /\ UNCHANGED <<task, executed>>
       ELSE /\ task' = prev[End]
            /\ executed' = Append(executed, prev[End])
            /\ UNCHANGED crashed
    /\ UNCHANGED <<overlap, listVars, callVars, popSize, closeVars, received>>

\* front() is end.next; when that is the sentinel itself, task() calls a
\* std::function that is not there.
FrontAndCall ==
    /\ workerStep("front", "run")
    /\ IF next[End] = End
       THEN crashed' = TRUE /\ UNCHANGED <<task, executed>>
       ELSE /\ task' = next[End]
            /\ executed' = Append(executed, next[End])
            /\ UNCHANGED crashed
    /\ UNCHANGED <<overlap, listVars, callVars, popSize, closeVars, received>>

TaskReturns ==
    /\ workerStep("run", "pop")
    /\ task' = NoTask
    /\ UNCHANGED <<overlap, listVars, callVars, popSize, closeVars, crashed, received, executed>>

\* The block calls close() on its queue: _stop is set, and join finds that
\* the thread to be joined is the one that calls, and throws in the worker.
TaskCloses ==
    /\ ~crashed
    /\ worker = "run" /\ task \in SelfClosers
    /\ stop' = TRUE
    /\ crashed' = TRUE
    /\ UNCHANGED <<overlap, listVars, callVars, workerVars, closing, received, executed>>

\* checkWhenInvoke: the block calls its queue, and the assertion aborts.
TaskCalls ==
    /\ ~crashed
    /\ worker = "run" /\ task \in SelfCallers
    /\ crashed' = TRUE
    /\ UNCHANGED <<overlap, listVars, callVars, workerVars, closeVars, received, executed>>

\* pop_front: n = end.next; n->prev->next = n->next
PopUnlink ==
    /\ overlap \/ mutex = NoTask
    /\ workerStep("pop", "relink")
    /\ task' = next[End]
    /\ next' = [next EXCEPT ![prev[next[End]]] = next[next[End]]]
    /\ UNCHANGED <<overlap, prev, size, freed, callVars, popSize, closeVars, crashed, received, executed>>

\* n->next->prev = n->prev
PopRelink ==
    /\ workerStep("relink", "readSize")
    /\ prev' = [prev EXCEPT ![next[task]] = prev[task]]
    /\ UNCHANGED <<overlap, next, size, freed, callVars, task, popSize, closeVars, crashed,
                   received, executed>>

\* --size, a load and a store, and delete n
PopReadSize ==
    /\ workerStep("readSize", "writeSize")
    /\ popSize' = size
    /\ UNCHANGED <<overlap, listVars, callVars, task, closeVars, crashed, received, executed>>

PopWriteSize ==
    /\ workerStep("writeSize", "loop")
    /\ size' = popSize - 1
    /\ freed' = freed \union {task}
    /\ task' = NoTask
    /\ UNCHANGED <<overlap, next, prev, callVars, popSize, closeVars, crashed, received, executed>>

-------------------------------------------------------------------------------
(* close, called by a client or by the destructor.                         *)

CloseBegin ==
    /\ ~crashed
    /\ closing = "open"
    /\ closing' = "joining"
    /\ stop' = TRUE
    /\ UNCHANGED <<overlap, listVars, callVars, workerVars, crashed, received, executed>>

\* join returns when exec() has; interrupt() finds nothing to interrupt.
CloseEnd ==
    /\ ~crashed
    /\ closing = "joining"
    /\ worker = "done"
    /\ closing' = "closed"
    /\ UNCHANGED <<overlap, listVars, callVars, workerVars, stop, crashed, received, executed>>

-------------------------------------------------------------------------------
PutStep(t) ==
    \/ PutLock(t)
    \/ PushNode(t)
    \/ PushHook(t)
    \/ PushTail(t)
    \/ PushReadSize(t)
    \/ PushWriteSize(t)
    \/ PutReturn(t)

WorkerStep ==
    \/ LoopTest
    \/ EmptyTest
    \/ FrontAndCall
    \/ TaskReturns
    \/ TaskCloses
    \/ TaskCalls
    \/ PopUnlink
    \/ PopRelink
    \/ PopReadSize
    \/ PopWriteSize

\* Everything has come to its end: the calls, the worker and close(), or
\* the process.
Terminated ==
    /\ crashed \/ (closing = "closed" /\ \A t \in Tasks : call[t] = "returned")
    /\ UNCHANGED vars

Next ==
    \/ \E t \in Tasks : PutStep(t)
    \/ WorkerStep
    \/ CloseBegin
    \/ CloseEnd
    \/ Terminated

\* The scheduler runs the worker, the thread that joins it, and any call
\* that has begun; tasks return.  Nobody has to call, or to close.
Fairness ==
    /\ WF_vars(WorkerStep)
    /\ WF_vars(CloseEnd)
    /\ \A t \in Tasks : WF_vars(call[t] # "idle" /\ PutStep(t))

Spec == Init /\ [][Next]_vars /\ Fairness

-------------------------------------------------------------------------------
(* Properties.                                                             *)

Started(t) == \E i \in DOMAIN executed : executed[i] = t
Received(t) == \E i \in DOMAIN received : received[i] = t

\* exec() and put() implement the serial queue: tasks start one at a time,
\* in the order received, each at most once, none passed over, none after
\* close() returned.
Abstract == INSTANCE SerialQueue WITH closed <- (closing = "closed")
RunsInOrder == Abstract!Spec

\* While calls and worker take turns: whenever neither push_back nor pop_front
\* is at work, the list is the received tasks that have not been removed,
\* linked both ways, and its size is their number.
ListIntact ==
    LET waiting == SubSeq(received, Cardinality(freed) + 1, Len(received))
        at(i) == IF i \in DOMAIN waiting THEN waiting[i] ELSE End
    IN  (~overlap /\ mutex = NoTask /\ worker \notin PopStates) =>
            /\ size = Len(waiting)
            /\ \A i \in 0..Len(waiting) : next[at(i)] = at(i + 1) /\ prev[at(i + 1)] = at(i)

\* FMDatabaseQueue.h:54: calls made "from multiple threads at the same time
\* [...] will be executed in the order they are received".  A task that was
\* received is run, unless the queue is closed first.
EveryTaskRuns == \A t \in Tasks : Received(t) ~> (Started(t) \/ stop)

\* What is left of that guarantee although exec() does not take the mutex:
\* a task is run if no put() happens to overlap a pop_front(), unless another
\* one has brought the process down (which NoCrash limits).
TurnsRunEveryTask ==
    ~overlap => \A t \in Tasks : Received(t) ~> (Started(t) \/ stop \/ crashed)

\* The worker does not bring the process down, unless put() and pop_front()
\* overlap, or a task closes its own queue or, in a DEBUG build, calls it:
\* front() is never called on an empty list, no link of a deleted node is
\* followed.
NoCrash == crashed => overlap \/ (worker = "run" /\ task \in SelfClosers \union SelfCallers)

\* close() returns, even while calls keep coming in: the worker leaves after
\* the task it is running ("wait for finishing current task"), unless the
\* process has died.
CloseReturns == (closing = "joining") ~> (closing = "closed" \/ crashed)

\* inTransaction and inSavePoint capture the caller's block by reference, so
\* while the worker runs such a task the call must not have returned.
BlockOutlivesTask ==
    worker = "run" /\ task \in ByRef => call[task] # "returned"
===============================================================================
