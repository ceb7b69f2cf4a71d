------------------------ MODULE FMDatabaseQueueProofs -------------------------
(***************************************************************************)
(* FMDatabaseQueue, for any tasks and calls.  The inductive invariant says *)
(* where the worker and the one call that holds the mutex have got to in   *)
(* the list, in terms of the history of the tasks received and started.    *)
(* Most of it holds although exec() does not take the mutex: the order is  *)
(* kept even when a put() overlaps a pop_front().  Turns is what is lost   *)
(* then.                                                                   *)
(***************************************************************************)
EXTENDS FMDatabaseQueue, FiniteSetTheorems, SequenceTheorems, TLAPS

\* How far a call has come: its node points back, is pointed to by the node
\* before it, is the list's last, is in the size.
Linked(t) == call[t] \notin {"idle", "locked"}
Hooked(t) == call[t] \notin {"idle", "locked", "hook"}
Tailed(t) == call[t] \notin {"idle", "locked", "hook", "tail"}
Counted(t) == call[t] \in {"unlock", "returned"}

\* How many tasks were received, are in the list by its last node, are in the
\* size, were started, have been taken from the list, and have been deleted;
\* and the number of the task that the list begins with.
last == Len(received)
tails == IF last > 0 /\ ~Tailed(received[last]) THEN last - 1 ELSE last
counted == IF last > 0 /\ ~Counted(received[last]) THEN last - 1 ELSE last
started == Len(executed)
relinked == IF worker \in {"run", "pop", "relink"} THEN started - 1 ELSE started
removed == IF worker \in {"run", "pop"} \union PopStates THEN started - 1 ELSE started
head == IF worker \in {"run", "pop"} THEN started ELSE started + 1

\* The types, without a bound on the numbers.
Typed ==
    /\ next \in [Nodes -> Nodes] /\ prev \in [Nodes -> Nodes] /\ freed \subseteq Tasks
    /\ size \in Nat /\ pushSize \in Nat /\ popSize \in Nat
    /\ mutex \in Tasks \union {NoTask}
    /\ call \in [Tasks -> CallStates]
    /\ worker \in WorkerStates /\ task \in Tasks \union {NoTask}
    /\ stop \in BOOLEAN /\ closing \in {"open", "joining", "closed"}
    /\ crashed \in BOOLEAN /\ overlap \in Overlaps
    /\ received \in Seq(Tasks) /\ executed \in Seq(Tasks)

\* Every task is received once, when its call gets the mutex; the call that
\* holds it is the latest.
Calls ==
    /\ \A i, j \in 1..last : received[i] = received[j] => i = j
    /\ \A t \in Tasks : call[t] = "idle" <=> \A i \in 1..last : received[i] # t
    /\ \A t \in Tasks : mutex = t <=> call[t] \notin {"idle", "returned"}
    /\ mutex # NoTask => last > 0 /\ mutex = received[last]

\* What was started is a prefix of what was received.
Serial ==
    /\ started <= last
    /\ \A i \in 1..started : executed[i] = received[i] /\ Hooked(received[i])
    /\ worker \in {"run", "pop"} \union PopStates => started > 0
    /\ worker \in PopStates => task = received[started]
    /\ closing = "closed" => worker = "done"

\* The list is empty or begins with the first task that was not taken.
Front ==
    /\ next[End] = End \/ (head <= last /\ next[End] = received[head] /\ Hooked(received[head]))
    /\ worker \in {"run", "pop"} => next[End] # End

\* No task points to another than the one received after it.
Nexts ==
    \A i \in 1..last : Linked(received[i]) =>
        \/ next[received[i]] = End
        \/ i < last /\ next[received[i]] = received[i + 1] /\ Hooked(received[i + 1])

\* Those not yet taken are linked both ways.
Links ==
    \A i \in 1..last : i > relinked /\ i < last =>
        /\ Hooked(received[i + 1]) => next[received[i]] = received[i + 1]
        /\ Linked(received[i + 1]) => prev[received[i + 1]] = received[i]

\* A new node will be hooked to the list's beginning or to the task before.
Hooking ==
    \A i \in 1..last : call[received[i]] = "hook" =>
        prev[received[i]] = End \/ (i > 1 /\ prev[received[i]] = received[i - 1])

\* The first node points back to the sentinel, so that removing it changes
\* the sentinel's link and no other.
First ==
    /\ worker # "relink" /\ next[End] # End => prev[next[End]] = End
    /\ worker = "relink" => prev[task] = End

\* The sentinel's last node; there is none only if every task was taken.
Last ==
    /\ prev[End] = End \/ (tails > 0 /\ prev[End] = received[tails])
    /\ prev[End] = End => tails <= relinked

Deleted == freed = {received[i] : i \in 1..removed}

\* The size is never more than was put in, and never 0 while a task is taken.
Sizes ==
    /\ size <= counted
    /\ pushSize <= last
    /\ \A t \in Tasks : call[t] = "writeSize" => pushSize < last
    /\ popSize <= counted
    /\ worker \in {"front", "run", "pop", "relink", "readSize"} => size > 0
    /\ worker = "writeSize" => popSize > 0

\* While calls and worker take turns, the size is right and nothing is lost.
Turns ==
    ~overlap =>
        /\ mutex = NoTask \/ worker \notin PopStates
        /\ head <= last /\ Hooked(received[head]) => next[End] # End
        /\ worker # "relink" /\ tails <= relinked => prev[End] = End
        /\ \A t \in Tasks : call[t] = "hook" /\ last - 1 <= relinked => prev[t] = End
        /\ started <= counted
        /\ size = counted - removed
        /\ \A t \in Tasks : call[t] = "writeSize" => pushSize = size
        /\ worker = "writeSize" => popSize = size

Shape == Front /\ Nexts /\ Links /\ Hooking /\ First /\ Last /\ Deleted
Good == Calls /\ Serial /\ Shape /\ Sizes /\ Turns

\* What is left when a race has killed the process: the numbers are bounded
\* by what was received, and nothing was received twice.
Bounded ==
    /\ size <= last /\ pushSize <= last /\ popSize <= last
    /\ \A i, j \in 1..last : received[i] = received[j] => i = j

\* The inductive invariant.
Inv == Typed /\ Bounded /\ NoCrash /\ (~crashed \/ ~overlap => Good)

-------------------------------------------------------------------------------
(* What the counts are.                                                    *)

LEMMA Numbers ==
    ASSUME Typed, Serial
    PROVE  /\ last \in Nat /\ started \in Nat /\ relinked \in Nat /\ removed \in Nat /\ head \in Nat
           /\ tails \in Nat /\ counted \in Nat /\ tails <= last /\ counted <= last
           /\ relinked <= started /\ removed <= relinked /\ started <= last /\ head > 0
           /\ \A i \in 1..last : received[i] \in Tasks /\ received[i] # End
           /\ End \in Nodes /\ Tasks \subseteq Nodes
<1>1. last \in Nat /\ started \in Nat /\ \A i \in 1..last : received[i] \in Tasks
  BY DEF Typed, last, started
<1>2. tails \in Nat /\ counted \in Nat /\ tails <= last /\ counted <= last
  BY <1>1 DEF tails, counted
<1>3. worker \in {"run", "pop"} \union PopStates => started > 0
  BY DEF Serial
<1>4. /\ relinked \in Nat /\ removed \in Nat /\ head \in Nat
      /\ relinked <= started /\ removed <= relinked /\ head > 0
  BY <1>1, <1>3 DEF relinked, removed, head, PopStates
<1>5. QED
  BY <1>1, <1>2, <1>4, QueueAssumption DEF Serial, Nodes

\* A call that has begun and not returned holds the mutex and is the latest;
\* the others have returned.
LEMMA Holder ==
    ASSUME Typed, Serial, Calls, NEW t \in Tasks, call[t] \notin {"idle", "returned"}
    PROVE  /\ mutex = t /\ last > 0 /\ t = received[last]
           /\ \A i \in 1..last : i < last => received[i] # t /\ call[received[i]] = "returned"
<1>1. last \in Nat /\ \A i \in 1..last : received[i] \in Tasks
  BY Numbers
<1>2. mutex = t /\ last > 0 /\ t = received[last]
  BY QueueAssumption DEF Calls
<1>3. ASSUME NEW i \in 1..last, i < last
      PROVE  received[i] # t /\ call[received[i]] = "returned"
  <2>1. received[i] # t
    BY <1>1, <1>2, <1>3 DEF Calls
  <2>2. call[received[i]] \in {"idle", "returned"}
    BY <1>1, <1>2, <2>1 DEF Calls
  <2>3. call[received[i]] # "idle"
    BY <1>1 DEF Calls
  <2>4. QED
    BY <2>1, <2>2, <2>3
<1>4. QED
  BY <1>2, <1>3

\* While nobody holds it, every call has returned or not begun.
LEMMA NoHolder ==
    ASSUME Typed, Serial, Calls, mutex = NoTask
    PROVE  /\ \A t \in Tasks : call[t] \in {"idle", "returned"}
           /\ \A i \in 1..last : call[received[i]] = "returned"
           /\ tails = last /\ counted = last
<1>1. \A t \in Tasks : call[t] \in {"idle", "returned"}
  BY QueueAssumption DEF Calls
<1>2. ASSUME NEW i \in 1..last
      PROVE  call[received[i]] = "returned"
  <2>1. received[i] \in Tasks
    BY Numbers
  <2>2. QED
    BY <1>1, <2>1 DEF Calls
<1>3. last > 0 => call[received[last]] = "returned"
  BY <1>2, Numbers
<1>4. tails = last /\ counted = last
  BY <1>3 DEF tails, counted, Tailed, Counted
<1>5. QED
  BY <1>1, <1>2, <1>4

-------------------------------------------------------------------------------
(* Types.                                                                  *)

LEMMA TypedStep ==
    ASSUME Typed, Good, Next
    PROVE  Typed'
<1>0. /\ End \in Nodes /\ Tasks \subseteq Nodes
      /\ Serial /\ Front /\ Sizes
  BY Numbers DEF Good, Shape
<1>1. ASSUME NEW t \in Tasks, PutLock(t) \/ PutReturn(t) \/ PushReadSize(t) \/ PushWriteSize(t)
      PROVE  Typed'
  <2>1. call' \in [Tasks -> CallStates]
    BY <1>1 DEF Typed, PutLock, PutReturn, PushReadSize, PushWriteSize, callStep, CallStates
  <2>2. received' \in Seq(Tasks)
    <3>1. Append(received, t) \in Seq(Tasks)
      BY DEF Typed
    <3>2. QED
      BY <1>1, <3>1 DEF Typed, PutLock, PutReturn, PushReadSize, PushWriteSize
  <2>3. mutex' \in Tasks \union {NoTask} /\ pushSize' \in Nat /\ size' \in Nat
    BY <1>1 DEF Typed, PutLock, PutReturn, PushReadSize, PushWriteSize, listVars
  <2>4. UNCHANGED <<next, prev, freed, worker, task, popSize, stop, closing, crashed, overlap, executed>>
    BY <1>1 DEF PutLock, PutReturn, PushReadSize, PushWriteSize, listVars, workerVars, closeVars
  <2>5. QED
    BY <2>1, <2>2, <2>3, <2>4 DEF Typed
<1>2. ASSUME NEW t \in Tasks, PushNode(t) \/ PushHook(t) \/ PushTail(t)
      PROVE  Typed'
  <2>1. next' \in [Nodes -> Nodes] /\ prev' \in [Nodes -> Nodes]
    <3>1. next \in [Nodes -> Nodes] /\ prev \in [Nodes -> Nodes] /\ t \in Nodes
      BY <1>0 DEF Typed
    <3>2. prev[End] \in Nodes /\ prev[t] \in Nodes
      BY <1>0, <3>1
    <3>3. next' \in {next, [next EXCEPT ![t] = End], [next EXCEPT ![prev[t]] = t]}
      BY <1>2 DEF PushNode, PushHook, PushTail
    <3>4. prev' \in {prev, [prev EXCEPT ![t] = prev[End]], [prev EXCEPT ![End] = t]}
      BY <1>2 DEF PushNode, PushHook, PushTail
    <3>5. QED
      BY <1>0, <3>1, <3>2, <3>3, <3>4
  <2>2. call' \in [Tasks -> CallStates] /\ crashed' \in BOOLEAN
    BY <1>2 DEF Typed, PushNode, PushHook, PushTail, callStep, CallStates
  <2>3. UNCHANGED <<size, freed, mutex, pushSize, workerVars, closeVars, overlap, received, executed>>
    BY <1>2 DEF PushNode, PushHook, PushTail
  <2>4. QED
    BY <2>1, <2>2, <2>3 DEF Typed, workerVars, closeVars
<1>3. ASSUME \/ LoopTest \/ EmptyTest \/ TaskReturns \/ TaskCloses \/ TaskCalls
             \/ CloseBegin \/ CloseEnd \/ PopReadSize
      PROVE  Typed'
  BY <1>3 DEF Typed, LoopTest, EmptyTest, TaskReturns, TaskCloses, TaskCalls, CloseBegin, CloseEnd,
              PopReadSize, workerStep, WorkerStates, PopStates, listVars, callVars, workerVars, closeVars
<1>4. CASE FrontAndCall
  <2>1. next[End] # End => next[End] \in Tasks
    BY <1>0 DEF Typed, Nodes
  <2>2. executed' \in Seq(Tasks) /\ task' \in Tasks \union {NoTask} /\ crashed' \in BOOLEAN
    <3>1. next[End] \in Tasks => Append(executed, next[End]) \in Seq(Tasks)
      BY DEF Typed
    <3>2. executed \in Seq(Tasks) /\ task \in Tasks \union {NoTask} /\ crashed \in BOOLEAN
      BY DEF Typed
    <3>3. QED
      BY <1>4, <2>1, <3>1, <3>2 DEF FrontAndCall
  <2>3. worker' \in WorkerStates
    BY <1>4 DEF FrontAndCall, workerStep, WorkerStates
  <2>4. QED
    BY <1>4, <2>2, <2>3 DEF FrontAndCall, Typed, listVars, callVars, closeVars
<1>5. CASE PopUnlink
  <2>1. next[End] # End /\ next[End] \in Tasks
    BY <1>0, <1>5 DEF PopUnlink, workerStep, Front, Typed, Nodes
  <2>2. next' \in [Nodes -> Nodes]
    BY <1>0, <1>5, <2>1 DEF PopUnlink, Typed
  <2>3. QED
    BY <1>5, <2>1, <2>2
       DEF PopUnlink, Typed, workerStep, WorkerStates, PopStates, callVars, closeVars
<1>6. CASE PopRelink
  <2>1. task \in Tasks
    BY <1>0, <1>6, Numbers DEF PopRelink, workerStep, Serial, PopStates
  <2>2. prev' \in [Nodes -> Nodes]
    BY <1>0, <1>6, <2>1 DEF PopRelink, Typed
  <2>3. QED
    BY <1>6, <2>2 DEF PopRelink, Typed, workerStep, WorkerStates, PopStates, callVars, closeVars
<1>7. CASE PopWriteSize
  <2>1. task \in Tasks
    BY <1>0, <1>7, Numbers DEF PopWriteSize, workerStep, Serial, PopStates
  <2>2. size' \in Nat
    BY <1>0, <1>7 DEF PopWriteSize, workerStep, Sizes, Typed
  <2>3. QED
    BY <1>7, <2>1, <2>2 DEF PopWriteSize, Typed, workerStep, WorkerStates, callVars, closeVars
<1>8. CASE UNCHANGED vars
  BY <1>8 DEF vars, Typed, listVars, callVars, workerVars, closeVars
<1>9. QED
  BY <1>1, <1>2, <1>3, <1>4, <1>5, <1>6, <1>7, <1>8 DEF Next, PutStep, WorkerStep, Terminated

-------------------------------------------------------------------------------
(* The worker and close().                                                 *)

\* Steps that touch neither the list nor the histories, outside of the tasks.
LEMMA IdleStep ==
    ASSUME Typed, Good, LoopTest \/ EmptyTest \/ CloseBegin \/ CloseEnd
    PROVE  Good'
<1>1. /\ UNCHANGED <<listVars, callVars, task, popSize, overlap, received, executed>>
      /\ \/ worker' = worker
         \/ worker \in {"loop", "empty"} /\ worker' \in {"loop", "empty", "done"}
         \/ worker = "empty" /\ worker' = "front" /\ size # 0
      /\ closing' = "closed" => worker' = "done"
  BY DEF LoopTest, EmptyTest, CloseBegin, CloseEnd, workerStep, workerVars, Good, Serial, closeVars
<1>2. /\ UNCHANGED <<next, prev, size, freed, mutex, call, pushSize>>
  BY <1>1 DEF listVars, callVars
<1>3. UNCHANGED <<last, tails, counted, started, relinked, removed, head>>
  BY <1>1, <1>2 DEF last, tails, counted, started, relinked, removed, head, Tailed, Counted, PopStates
<1>4. Calls'
  BY <1>1, <1>2, <1>3 DEF Good, Calls
<1>5. Serial'
  BY <1>1, <1>2, <1>3 DEF Good, Serial, Hooked, PopStates
<1>6. (Front /\ Nexts /\ Links /\ Hooking)'
  BY <1>1, <1>2, <1>3 DEF Good, Shape, Front, Nexts, Links, Hooking, Hooked, Linked
<1>7. (First /\ Last /\ Deleted)'
  BY <1>1, <1>2, <1>3 DEF Good, Shape, First, Last, Deleted
<1>8. Sizes'
  BY <1>1, <1>2, <1>3 DEF Good, Sizes, Typed
<1>9. Turns'
  BY <1>1, <1>2, <1>3 DEF Good, Turns, Hooked, PopStates
<1>10. QED
  BY <1>4, <1>5, <1>6, <1>7, <1>8, <1>9 DEF Good, Shape

\* A task returns, or pop_front reads the size.
LEMMA QuietStep ==
    ASSUME Typed, Good, TaskReturns \/ PopReadSize
    PROVE  Good'
<1>1. /\ UNCHANGED <<next, prev, size, freed, mutex, call, pushSize, overlap, received, executed, closing>>
      /\ \/ worker = "run" /\ worker' = "pop" /\ popSize' = popSize
         \/ worker = "readSize" /\ worker' = "writeSize" /\ task' = task /\ popSize' = size
  BY DEF TaskReturns, PopReadSize, workerStep, listVars, callVars, closeVars
<1>2. UNCHANGED <<last, tails, counted, started, relinked, removed, head>>
  BY <1>1 DEF last, tails, counted, started, relinked, removed, head, Tailed, Counted, PopStates
<1>3. Calls'
  BY <1>1, <1>2 DEF Good, Calls
<1>4. Serial'
  BY <1>1, <1>2 DEF Good, Serial, Hooked, PopStates
<1>5. (Front /\ Nexts /\ Links /\ Hooking)'
  BY <1>1, <1>2 DEF Good, Shape, Front, Nexts, Links, Hooking, Hooked, Linked
<1>6. (First /\ Last /\ Deleted)'
  BY <1>1, <1>2 DEF Good, Shape, First, Last, Deleted
<1>7. Sizes'
  BY <1>1, <1>2 DEF Good, Sizes, Typed
<1>8. Turns'
  BY <1>1, <1>2 DEF Good, Turns, Hooked, PopStates
<1>9. QED
  BY <1>3, <1>4, <1>5, <1>6, <1>7, <1>8 DEF Good, Shape

\* The task that the list begins with is the next that was received.
LEMMA FrontStep ==
    ASSUME Typed, Good, FrontAndCall, ~crashed'
    PROVE  /\ Good'
           /\ started < last /\ executed' = Append(executed, received[started + 1])
<1>0. /\ last \in Nat /\ started \in Nat /\ relinked \in Nat /\ removed \in Nat
      /\ tails \in Nat /\ counted \in Nat
      /\ \A i \in 1..last : received[i] \in Tasks
      /\ Calls /\ Serial /\ Front /\ Nexts /\ Links /\ Hooking /\ First /\ Last /\ Deleted
      /\ Sizes /\ Turns
  BY Numbers DEF Good, Shape
<1>1. /\ UNCHANGED <<next, prev, size, freed, mutex, call, pushSize, popSize, overlap, received, closing>>
      /\ worker = "front" /\ worker' = "run"
      /\ next[End] # End /\ executed' = Append(executed, next[End]) /\ task' = next[End]
  BY DEF FrontAndCall, workerStep, listVars, callVars, closeVars
<1>2. started < last /\ next[End] = received[started + 1] /\ Hooked(received[started + 1])
  BY <1>0, <1>1 DEF Front, head
<1>3. /\ started' = started + 1 /\ \A i \in 1..started : executed'[i] = executed[i]
      /\ executed'[started + 1] = received[started + 1]
  BY <1>0, <1>1, <1>2 DEF Typed, started
<1>4. UNCHANGED <<last, tails, counted>>
  BY <1>1 DEF last, tails, counted, Tailed, Counted
<1>5. /\ relinked' = relinked /\ removed' = removed /\ head' = head /\ head = started + 1
      /\ removed = started
  BY <1>0, <1>1, <1>3 DEF relinked, removed, head, PopStates
<1>6. Calls'
  BY <1>0, <1>1, <1>4 DEF Calls
<1>7. Serial'
  <2>1. \A i \in 1..started' : executed'[i] = received'[i] /\ Hooked(received[i])'
    <3>1. ASSUME NEW i \in 1..started'
          PROVE  executed'[i] = received[i] /\ Hooked(received[i])
      <4>1. CASE i \in 1..started
        BY <1>0, <1>3, <4>1 DEF Serial
      <4>2. CASE i = started + 1
        BY <1>2, <1>3, <4>2
      <4>3. QED
        BY <1>0, <1>3, <4>1, <4>2
    <3>2. QED
      BY <1>1, <3>1 DEF Hooked
  <2>2. started' <= last' /\ started' > 0
    BY <1>0, <1>2, <1>3, <1>4
  <2>3. worker' \notin PopStates /\ closing' # "closed"
    BY <1>0, <1>1 DEF Serial, PopStates
  <2>4. QED
    BY <2>1, <2>2, <2>3 DEF Serial
<1>8. (Front /\ Nexts /\ Links /\ Hooking)'
  BY <1>0, <1>1, <1>4, <1>5 DEF Front, Nexts, Links, Hooking, Hooked, Linked
<1>9. (First /\ Last /\ Deleted)'
  BY <1>0, <1>1, <1>4, <1>5 DEF First, Last, Deleted
<1>10. Sizes'
  BY <1>0, <1>1, <1>4 DEF Sizes
<1>11. Turns'
  <2>1. ~overlap => started' <= counted'
    BY <1>0, <1>1, <1>3, <1>4, <1>5 DEF Turns, Sizes, Typed
  <2>2. QED
    BY <1>0, <1>1, <1>4, <1>5, <2>1 DEF Turns, Hooked, PopStates
<1>12. QED
  BY <1>1, <1>2, <1>6, <1>7, <1>8, <1>9, <1>10, <1>11 DEF Good, Shape

\* All but the latest are hooked, and it is if it is the last node or counted.
LEMMA Behind ==
    ASSUME Typed, Serial, Calls, NEW i \in 1..last, i < last \/ i <= tails \/ i <= counted
    PROVE  Hooked(received[i]) /\ Linked(received[i])
<1>1. last \in Nat /\ tails \in Nat /\ counted \in Nat /\ received[i] \in Tasks /\ received[last] \in Tasks
  BY Numbers
<1>2. CASE i < last
  <2>1. call[received[i]] = "returned"
    <3>1. CASE mutex = NoTask
      BY <3>1, NoHolder
    <3>2. CASE mutex # NoTask
      <4>1. mutex \in Tasks
        BY <3>2 DEF Typed
      <4>2. call[mutex] \notin {"idle", "returned"}
        BY <4>1 DEF Calls
      <4>3. QED
        BY <1>2, <4>1, <4>2, Holder
    <3>3. QED
      BY <3>1, <3>2
  <2>2. QED
    BY <2>1 DEF Hooked, Linked
<1>3. CASE i = last
  <2>1. Tailed(received[last]) \/ Counted(received[last])
    BY <1>1, <1>3 DEF tails, counted
  <2>2. QED
    BY <1>3, <2>1 DEF Tailed, Counted, Hooked, Linked
<1>4. QED
  BY <1>1, <1>2, <1>3

\* The sentinel passes over the node it is about to remove, which is that of
\* the task that has just run, and over no other.
LEMMA UnlinkStep ==
    ASSUME Typed, Good, PopUnlink
    PROVE  Good'
<1>0. /\ last \in Nat /\ started \in Nat /\ relinked \in Nat /\ removed \in Nat
      /\ tails \in Nat /\ counted \in Nat /\ started <= last
      /\ \A i \in 1..last : received[i] \in Tasks /\ received[i] # End
      /\ End \in Nodes /\ Tasks \subseteq Nodes
      /\ Calls /\ Serial /\ Front /\ Nexts /\ Links /\ Hooking /\ First /\ Last /\ Deleted
      /\ Sizes /\ Turns
  BY Numbers DEF Good, Shape
<1>1. /\ UNCHANGED <<prev, size, freed, mutex, call, pushSize, popSize, overlap, received, executed, closing>>
      /\ worker = "pop" /\ worker' = "relink" /\ task' = next[End]
      /\ overlap \/ mutex = NoTask
      /\ next' = [next EXCEPT ![prev[next[End]]] = next[next[End]]]
  BY DEF PopUnlink, workerStep, callVars, closeVars
<1>2. /\ started > 0 /\ next[End] = received[started] /\ prev[received[started]] = End
      /\ Hooked(received[started])
  BY <1>0, <1>1 DEF Front, First, head, Serial
<1>3. /\ next'[End] = next[received[started]]
      /\ \A i \in 1..last : next'[received[i]] = next[received[i]]
  BY <1>0, <1>1, <1>2 DEF Typed
<1>4. UNCHANGED <<last, tails, counted, started, relinked, removed>>
  BY <1>1 DEF last, tails, counted, started, relinked, removed, Tailed, Counted, PopStates
<1>5. head' = started + 1 /\ relinked = started - 1
  BY <1>0, <1>1 DEF head, relinked, started
<1>6. Calls'
  BY <1>0, <1>1, <1>4 DEF Calls
<1>7. Serial'
  BY <1>0, <1>1, <1>2, <1>4 DEF Serial, Hooked, PopStates
<1>8. Front'
  <2>1. Linked(received[started])
    BY <1>2 DEF Hooked, Linked
  <2>2. \/ next[received[started]] = End
        \/ /\ started < last /\ next[received[started]] = received[started + 1]
           /\ Hooked(received[started + 1])
    BY <1>0, <1>2, <2>1 DEF Nexts
  <2>3. QED
    BY <1>0, <1>1, <1>3, <1>4, <1>5, <2>2 DEF Front, Hooked
<1>9. (Nexts /\ Links /\ Hooking)'
  BY <1>0, <1>1, <1>3, <1>4 DEF Nexts, Links, Hooking, Hooked, Linked
<1>10. (First /\ Last /\ Deleted)'
  BY <1>0, <1>1, <1>2, <1>4 DEF First, Last, Deleted
<1>11. Sizes'
  BY <1>0, <1>1, <1>4 DEF Sizes
<1>12. Turns'
  <2>1. ASSUME started + 1 <= last, Hooked(received[started + 1])
        PROVE  next'[End] # End
    <3>1. next[received[started]] = received[started + 1]
      BY <1>0, <1>2, <1>5, <2>1 DEF Links
    <3>2. QED
      BY <1>0, <1>3, <2>1, <3>1
  <2>2. head' <= last' /\ Hooked(received[head])' => next'[End] # End
    BY <1>1, <1>4, <1>5, <2>1 DEF Hooked
  <2>3. QED
    BY <1>0, <1>1, <1>4, <2>2 DEF Turns, PopStates
<1>13. QED
  BY <1>6, <1>7, <1>8, <1>9, <1>10, <1>11, <1>12 DEF Good, Shape

\* The node after the removed one, if the worker sees one, becomes the first.
LEMMA RelinkStep ==
    ASSUME Typed, Good, PopRelink
    PROVE  Good'
<1>0. /\ last \in Nat /\ started \in Nat /\ relinked \in Nat /\ removed \in Nat
      /\ tails \in Nat /\ counted \in Nat /\ started <= last /\ tails <= last
      /\ \A i \in 1..last : received[i] \in Tasks /\ received[i] # End
      /\ End \in Nodes /\ Tasks \subseteq Nodes
      /\ Calls /\ Serial /\ Front /\ Nexts /\ Links /\ Hooking /\ First /\ Last /\ Deleted
      /\ Sizes /\ Turns
  BY Numbers DEF Good, Shape
<1>1. /\ UNCHANGED <<next, size, freed, mutex, call, pushSize, popSize, overlap, received, executed,
                     closing, task>>
      /\ worker = "relink" /\ worker' = "readSize"
      /\ prev' = [prev EXCEPT ![next[task]] = prev[task]]
  BY DEF PopRelink, workerStep, callVars, closeVars
<1>2. /\ started > 0 /\ task = received[started] /\ prev[task] = End
      /\ Hooked(received[started]) /\ Linked(received[started])
  BY <1>0, <1>1 DEF First, Serial, PopStates, Hooked, Linked
<1>3. \/ next[task] = End
      \/ started < last /\ next[task] = received[started + 1] /\ Hooked(received[started + 1])
  BY <1>0, <1>2 DEF Nexts
<1>4. \A n \in Nodes : prev'[n] = IF n = next[task] THEN End ELSE prev[n]
  BY <1>0, <1>1, <1>2 DEF Typed
<1>5. UNCHANGED <<last, tails, counted, started, removed, head>>
  BY <1>1 DEF last, tails, counted, started, removed, head, Tailed, Counted, PopStates
<1>6. relinked' = started /\ relinked = started - 1 /\ head = started + 1
  BY <1>0, <1>1 DEF head, relinked, started
<1>7. ASSUME started < last, Hooked(received[started + 1])
      PROVE  next[task] = received[started + 1]
  BY <1>0, <1>2, <1>6, <1>7 DEF Links
<1>8. Calls'
  BY <1>0, <1>1, <1>5 DEF Calls
<1>9. Serial'
  BY <1>0, <1>1, <1>5 DEF Serial, Hooked, PopStates
<1>10. (Front /\ Nexts /\ Deleted)'
  BY <1>0, <1>1, <1>5 DEF Front, Nexts, Deleted, Hooked, Linked
<1>11. Hooking'
  BY <1>0, <1>1, <1>4, <1>5 DEF Hooking
<1>12. Links'
  <2>1. ASSUME NEW i \in 1..last, i > started, i < last
        PROVE  /\ Hooked(received[i + 1]) => next[received[i]] = received[i + 1]
               /\ Linked(received[i + 1]) => prev'[received[i + 1]] = received[i]
    <3>1. received[i + 1] # next[task]
      BY <1>0, <1>3, <2>1 DEF Calls
    <3>2. prev'[received[i + 1]] = prev[received[i + 1]]
      BY <1>0, <1>4, <2>1, <3>1
    <3>3. QED
      BY <1>0, <1>6, <2>1, <3>2 DEF Links
  <2>2. QED
    BY <1>1, <1>5, <1>6, <2>1 DEF Links, Hooked, Linked
<1>13. First'
  <2>1. ASSUME next[End] # End
        PROVE  prev'[next[End]] = End
    <3>1. started < last /\ next[End] = received[started + 1] /\ Hooked(received[started + 1])
      BY <1>0, <1>6, <2>1 DEF Front
    <3>2. next[End] = next[task] /\ next[End] \in Nodes
      BY <1>0, <1>7, <3>1 DEF Typed
    <3>3. QED
      BY <1>4, <3>2
  <2>2. QED
    BY <1>1, <2>1 DEF First
<1>14. Last'
  <2>1. CASE next[task] = End
    <3>1. prev'[End] = End
      BY <1>0, <1>4, <2>1
    <3>2. tails <= started
      <4>1. ASSUME tails > started
            PROVE  FALSE
        <5>1. started + 1 \in 1..last /\ Hooked(received[started + 1])
          BY <1>0, <4>1, Behind
        <5>2. started < last
          BY <1>0, <4>1
        <5>3. next[task] = received[started + 1]
          BY <1>7, <5>1, <5>2
        <5>4. QED
          BY <1>0, <2>1, <5>1, <5>3
      <4>2. QED
        BY <1>0, <4>1
    <3>3. QED
      BY <1>5, <1>6, <3>1, <3>2 DEF Last
  <2>2. CASE next[task] # End
    <3>1. prev'[End] = prev[End]
      BY <1>0, <1>4, <2>2
    <3>2. QED
      BY <1>0, <1>1, <1>5, <1>6, <3>1 DEF Last
  <2>3. QED
    BY <2>1, <2>2
<1>15. Sizes'
  BY <1>0, <1>1, <1>5 DEF Sizes
<1>16. Turns'
  <2>1. ASSUME ~overlap, tails <= started
        PROVE  prev'[End] = End
    <3>1. mutex = NoTask
      BY <1>0, <1>1, <2>1 DEF Turns, PopStates
    <3>2. tails = last
      BY <1>0, <3>1, NoHolder
    <3>3. next[task] = End
      BY <1>0, <1>3, <2>1, <3>2
    <3>4. QED
      BY <1>0, <1>4, <3>3
  <2>2. ~overlap => \A t \in Tasks : call[t] # "hook"
    BY <1>0, <1>1, NoHolder DEF Turns, PopStates
  <2>3. QED
    BY <1>0, <1>1, <1>5, <1>6, <2>1, <2>2 DEF Turns, PopStates, Hooked
<1>17. QED
  BY <1>8, <1>9, <1>10, <1>11, <1>12, <1>13, <1>14, <1>15, <1>16 DEF Good, Shape

\* The size is written and the node deleted.
LEMMA DeleteStep ==
    ASSUME Typed, Good, PopWriteSize
    PROVE  Good'
<1>0. /\ last \in Nat /\ started \in Nat /\ relinked \in Nat /\ removed \in Nat
      /\ tails \in Nat /\ counted \in Nat /\ started <= last
      /\ Calls /\ Serial /\ Front /\ Nexts /\ Links /\ Hooking /\ First /\ Last /\ Deleted
      /\ Sizes /\ Turns
  BY Numbers DEF Good, Shape
<1>1. /\ UNCHANGED <<next, prev, mutex, call, pushSize, popSize, overlap, received, executed, closing>>
      /\ worker = "writeSize" /\ worker' = "loop"
      /\ size' = popSize - 1 /\ freed' = freed \union {task}
  BY DEF PopWriteSize, workerStep, callVars, closeVars
<1>2. started > 0 /\ task = received[started] /\ popSize > 0 /\ popSize \in Nat
  BY <1>0, <1>1 DEF Serial, PopStates, Sizes, Typed
<1>3. UNCHANGED <<last, tails, counted, started, relinked, head>>
  BY <1>1 DEF last, tails, counted, started, relinked, head, Tailed, Counted
<1>4. removed' = started /\ removed = started - 1
  BY <1>0, <1>1 DEF removed, started, PopStates
<1>5. Calls'
  BY <1>0, <1>1, <1>3 DEF Calls
<1>6. Serial'
  BY <1>0, <1>1, <1>3 DEF Serial, Hooked, PopStates
<1>7. (Front /\ Nexts /\ Links /\ Hooking)'
  BY <1>0, <1>1, <1>3 DEF Front, Nexts, Links, Hooking, Hooked, Linked
<1>8. (First /\ Last)'
  BY <1>0, <1>1, <1>3 DEF First, Last
<1>9. Deleted'
  <2>1. 1..started = (1..(started - 1)) \union {started}
    BY <1>0, <1>2
  <2>2. {received[i] : i \in 1..started} = {received[i] : i \in 1..(started - 1)} \union {received[started]}
    BY <2>1
  <2>3. QED
    BY <1>0, <1>1, <1>2, <1>4, <2>2 DEF Deleted
<1>10. Sizes'
  BY <1>0, <1>1, <1>2, <1>3 DEF Sizes
<1>11. Turns'
  <2>1. ASSUME ~overlap
        PROVE  size' = counted - started /\ \A t \in Tasks : call[t] # "writeSize"
    <3>1. mutex = NoTask /\ popSize = size /\ size = counted - removed
      BY <1>0, <1>1, <2>1 DEF Turns, PopStates
    <3>2. \A t \in Tasks : call[t] \in {"idle", "returned"}
      BY <1>0, <3>1, NoHolder
    <3>3. QED
      BY <1>0, <1>1, <1>4, <3>1, <3>2
  <2>2. QED
    BY <1>0, <1>1, <1>3, <1>4, <2>1 DEF Turns, PopStates, Hooked
<1>12. QED
  BY <1>5, <1>6, <1>7, <1>8, <1>9, <1>10, <1>11 DEF Good, Shape

-------------------------------------------------------------------------------
(* The calls of put().                                                     *)

\* A call gets the mutex: its task is the latest.
LEMMA LockStep ==
    ASSUME Typed, Good, NEW t \in Tasks, PutLock(t)
    PROVE  Good' /\ \A i \in 1..last : received[i] # t
<1>0. /\ last \in Nat /\ started \in Nat /\ relinked \in Nat /\ removed \in Nat /\ head \in Nat
      /\ started <= last /\ relinked <= started /\ removed <= relinked /\ head > 0
      /\ \A i \in 1..last : received[i] \in Tasks
      /\ Calls /\ Serial /\ Front /\ Nexts /\ Links /\ Hooking /\ First /\ Last /\ Deleted
      /\ Sizes /\ Turns
  BY Numbers DEF Good, Shape
<1>1. /\ UNCHANGED <<next, prev, size, freed, pushSize, worker, task, popSize, overlap, executed, closing>>
      /\ mutex = NoTask /\ mutex' = t /\ received' = Append(received, t)
      /\ call[t] = "idle" /\ call' = [call EXCEPT ![t] = "locked"]
      /\ overlap \/ worker \notin PopStates
  BY DEF PutLock, callStep, listVars, workerVars, closeVars
<1>2. /\ \A u \in Tasks : call[u] \in {"idle", "returned"}
      /\ \A i \in 1..last : call[received[i]] = "returned"
      /\ tails = last /\ counted = last
  BY <1>0, <1>1, NoHolder
<1>3. \A i \in 1..last : received[i] # t
  BY <1>0, <1>1 DEF Calls
<1>4. /\ last' = last + 1 /\ received'[last + 1] = t
      /\ \A i \in 1..last : received'[i] = received[i]
  BY <1>1 DEF Typed, last
<1>5. /\ call'[t] = "locked" /\ \A u \in Tasks : u # t => call'[u] = call[u]
      /\ \A i \in 1..last : call'[received[i]] = "returned"
  BY <1>0, <1>1, <1>2, <1>3 DEF Typed
<1>6. UNCHANGED <<started, relinked, removed, head>>
  BY <1>1 DEF started, relinked, removed, head
<1>7. tails' = last /\ counted' = last
  BY <1>0, <1>4, <1>5 DEF tails, counted, Tailed, Counted
<1>8. \A i \in 1..last : call'[received'[i]] = "returned"
  BY <1>4, <1>5
<1>9. call'[received'[last + 1]] = "locked"
  BY <1>4, <1>5
<1>10. \A i \in 1..last : Hooked(received[i]) /\ Linked(received[i])
  BY <1>2 DEF Hooked, Linked
<1>11. \A i \in 1..last' : i \in 1..last \/ i = last + 1
  BY <1>0, <1>4
<1>12. Calls'
  <2>1. \A i, j \in 1..last' : received'[i] = received'[j] => i = j
    BY <1>0, <1>3, <1>4, <1>11 DEF Calls
  <2>2. ASSUME NEW u \in Tasks
        PROVE  call'[u] = "idle" <=> \A i \in 1..last' : received'[i] # u
    <3>1. CASE u = t
      BY <1>0, <1>4, <1>5, <3>1
    <3>2. CASE u # t
      <4>1. (\A i \in 1..last' : received'[i] # u) <=> (\A i \in 1..last : received[i] # u)
        BY <1>0, <1>4, <1>11, <3>2
      <4>2. QED
        BY <1>0, <1>5, <3>2, <4>1 DEF Calls
    <3>3. QED
      BY <3>1, <3>2
  <2>3. \A u \in Tasks : mutex' = u <=> call'[u] \notin {"idle", "returned"}
    BY <1>1, <1>2, <1>5
  <2>4. QED
    BY <1>0, <1>1, <1>4, <2>1, <2>2, <2>3 DEF Calls
<1>13. Serial'
  <2>1. ASSUME NEW i \in 1..started
        PROVE  executed'[i] = received'[i] /\ call'[received'[i]] = "returned"
    <3>1. i \in 1..last
      BY <1>0
    <3>2. QED
      BY <1>0, <1>1, <1>4, <1>8, <3>1 DEF Serial
  <2>2. worker \in PopStates => received'[started] = received[started]
    BY <1>0, <1>4 DEF Serial
  <2>3. started' <= last'
    BY <1>0, <1>4, <1>6
  <2>4. \A i \in 1..started' : executed'[i] = received'[i] /\ Hooked(received[i])'
    BY <1>6, <2>1 DEF Hooked
  <2>5. /\ worker' \in {"run", "pop"} \union PopStates => started' > 0
        /\ worker' \in PopStates => task' = received'[started']
        /\ closing' = "closed" => worker' = "done"
    <3>1. worker' = worker /\ task' = task /\ closing' = closing /\ started' = started
      BY <1>1, <1>6
    <3>2. QED
      BY <1>0, <2>2, <3>1 DEF Serial
  <2>6. QED
    BY <2>3, <2>4, <2>5 DEF Serial
<1>14. Front'
  <2>1. head <= last => call'[received'[head]] = "returned" /\ received'[head] = received[head]
    BY <1>0, <1>4, <1>8
  <2>2. next' = next /\ worker' = worker /\ head' = head
    BY <1>1, <1>6
  <2>3. \/ next[End] = End
        \/ head <= last' /\ next[End] = received'[head] /\ call'[received'[head]] = "returned"
    <3>1. next[End] = End \/ (head <= last /\ next[End] = received[head])
      BY <1>0 DEF Front
    <3>2. QED
      BY <1>0, <1>4, <2>1, <3>1
  <2>4. worker \in {"run", "pop"} => next[End] # End
    BY <1>0 DEF Front
  <2>5. QED
    BY <2>2, <2>3, <2>4 DEF Front, Hooked
<1>15. Nexts'
  <2>1. ASSUME NEW i \in 1..last
        PROVE  \/ next[received[i]] = End
               \/ /\ i < last /\ next[received[i]] = received'[i + 1]
                  /\ call'[received'[i + 1]] = "returned"
    <3>1. CASE next[received[i]] = End
      BY <3>1
    <3>2. CASE next[received[i]] # End
      <4>1. i < last /\ next[received[i]] = received[i + 1]
        BY <1>0, <1>10, <3>2 DEF Nexts
      <4>2. i + 1 \in 1..last
        BY <1>0, <4>1
      <4>3. QED
        BY <1>4, <1>8, <4>1, <4>2
    <3>3. QED
      BY <3>1, <3>2
  <2>2. ASSUME NEW i \in 1..last', call'[received'[i]] # "locked"
        PROVE  \/ next'[received'[i]] = End
               \/ /\ i < last' /\ next'[received'[i]] = received'[i + 1]
                  /\ call'[received'[i + 1]] = "returned"
    <3>1. i \in 1..last
      BY <1>9, <1>11, <2>2
    <3>2. received'[i] = received[i] /\ next' = next /\ last' = last + 1
      BY <1>1, <1>4, <3>1
    <3>3. QED
      BY <1>0, <1>4, <2>1, <3>1, <3>2
  <2>3. QED
    BY <2>2 DEF Nexts, Linked, Hooked
<1>16. Links'
  <2>1. ASSUME NEW i \in 1..last', i > relinked, i < last'
        PROVE  \/ call'[received'[i + 1]] = "locked"
               \/ next[received'[i]] = received'[i + 1] /\ prev[received'[i + 1]] = received'[i]
    <3>1. CASE i = last
      BY <1>9, <3>1
    <3>2. CASE i # last
      <4>1. i \in 1..last /\ i < last /\ i + 1 \in 1..last
        BY <1>0, <1>4, <2>1, <3>2
      <4>2. next[received[i]] = received[i + 1] /\ prev[received[i + 1]] = received[i]
        BY <1>0, <1>10, <2>1, <4>1 DEF Links
      <4>3. QED
        BY <1>4, <4>1, <4>2
    <3>3. QED
      BY <3>1, <3>2
  <2>2. QED
    BY <1>1, <1>6, <2>1 DEF Links, Hooked, Linked
<1>17. Hooking'
  BY <1>0, <1>4, <1>5, <1>11 DEF Hooking
<1>18. (First /\ Last)'
  <2>1. last > 0 => received'[last] = received[last]
    BY <1>0, <1>4
  <2>2. QED
    BY <1>0, <1>1, <1>2, <1>6, <1>7, <2>1 DEF First, Last
<1>19. Deleted'
  <2>1. \A i \in 1..removed : received'[i] = received[i]
    BY <1>0, <1>4
  <2>2. QED
    BY <1>0, <1>1, <1>6, <2>1 DEF Deleted
<1>20. Sizes'
  <2>1. \A u \in Tasks : call'[u] # "writeSize"
    BY <1>2, <1>5
  <2>2. QED
    BY <1>0, <1>1, <1>2, <1>4, <1>7, <2>1 DEF Sizes, Typed
<1>21. Turns'
  <2>1. \A u \in Tasks : call'[u] # "writeSize"
    BY <1>2, <1>5
  <2>2. ASSUME ~overlap, head <= last + 1, call'[received'[head]] # "locked"
        PROVE  next[End] # End
    <3>1. head # last + 1
      BY <1>9, <2>2
    <3>2. head \in 1..last
      BY <1>0, <2>2, <3>1
    <3>3. QED
      BY <1>0, <1>10, <2>2, <3>2 DEF Turns
  <2>3. QED
    BY <1>0, <1>1, <1>2, <1>4, <1>6, <1>7, <2>1, <2>2 DEF Turns, Hooked
<1>22. QED
  BY <1>3, <1>12, <1>13, <1>14, <1>15, <1>16, <1>17, <1>18, <1>19, <1>20, <1>21 DEF Good, Shape

\* The call that holds the mutex moves on.
LEMMA CallMoves ==
    ASSUME Typed, Serial, Calls, NEW t \in Tasks, NEW from, NEW to, callStep(t, from, to),
           from \notin {"idle", "returned"}, to # "idle", received' = received,
           mutex' = IF to = "returned" THEN NoTask ELSE mutex
    PROVE  /\ Calls'
           /\ last' = last /\ last > 0 /\ t = received[last] /\ mutex = t
           /\ call[t] = from /\ call'[t] = to
           /\ \A u \in Tasks : u # t => call'[u] = call[u] /\ call[u] \in {"idle", "returned"}
           /\ \A i \in 1..last : i < last =>
                 received[i] # t /\ call[received[i]] = "returned" /\ call'[received[i]] = "returned"
<1>1. call[t] = from /\ call' = [call EXCEPT ![t] = to]
  BY DEF callStep
<1>2. last' = last /\ last \in Nat /\ \A i \in 1..last : received[i] \in Tasks
  BY Numbers DEF last
<1>3. /\ mutex = t /\ last > 0 /\ t = received[last]
      /\ \A i \in 1..last : i < last => received[i] # t /\ call[received[i]] = "returned"
  BY <1>1, Holder
<1>4. call'[t] = to /\ \A u \in Tasks : u # t => call'[u] = call[u]
  BY <1>1 DEF Typed
<1>5. \A u \in Tasks : u # t => call[u] \in {"idle", "returned"}
  BY <1>3 DEF Calls
<1>6. Calls'
  <2>1. \A i, j \in 1..last' : received'[i] = received'[j] => i = j
    BY <1>2 DEF Calls
  <2>2. ASSUME NEW u \in Tasks
        PROVE  call'[u] = "idle" <=> \A i \in 1..last' : received'[i] # u
    <3>1. call'[u] = "idle" <=> call[u] = "idle"
      BY <1>1, <1>4
    <3>2. QED
      BY <1>2, <3>1 DEF Calls
  <2>3. ASSUME NEW u \in Tasks
        PROVE  mutex' = u <=> call'[u] \notin {"idle", "returned"}
    <3>1. NoTask # u
      BY QueueAssumption
    <3>2. CASE u = t
      BY <1>3, <1>4, <3>1, <3>2
    <3>3. CASE u # t
      BY <1>3, <1>4, <1>5, <3>1, <3>3
    <3>4. QED
      BY <3>2, <3>3
  <2>4. mutex' # NoTask => last' > 0 /\ mutex' = received'[last']
    BY <1>2, <1>3
  <2>5. QED
    BY <2>1, <2>2, <2>3, <2>4 DEF Calls
<1>7. \A i \in 1..last : i < last => call'[received[i]] = "returned"
  BY <1>2, <1>3, <1>4
<1>8. QED
  BY <1>1, <1>2, <1>3, <1>4, <1>5, <1>6, <1>7

\* What a task started, deleted or taken stays so while a call goes on.
LEMMA SerialKept ==
    ASSUME Typed, Serial, UNCHANGED <<worker, task, closing, received, executed>>,
           \A i \in 1..last : Hooked(received[i]) => Hooked(received[i])'
    PROVE  Serial' /\ UNCHANGED <<last, started, relinked, removed, head>>
<1>1. UNCHANGED <<last, started, relinked, removed, head>>
  BY DEF last, started, relinked, removed, head
<1>2. \A i \in 1..started : Hooked(received[i])'
  BY Numbers DEF Serial
<1>3. QED
  BY <1>1, <1>2 DEF Serial

\* n->next = end; n->prev = end.prev
LEMMA NodeStep ==
    ASSUME Typed, Good, NEW t \in Tasks, PushNode(t)
    PROVE  Good'
<1>0. /\ last \in Nat /\ started \in Nat /\ relinked \in Nat /\ removed \in Nat
      /\ tails \in Nat /\ counted \in Nat /\ relinked <= started /\ started <= last
      /\ \A i \in 1..last : received[i] \in Tasks /\ received[i] # End
      /\ End \in Nodes /\ Tasks \subseteq Nodes
      /\ Calls /\ Serial /\ Front /\ Nexts /\ Links /\ Hooking /\ First /\ Last /\ Deleted
      /\ Sizes /\ Turns
  BY Numbers DEF Good, Shape
<1>1. /\ UNCHANGED <<size, freed, mutex, pushSize, worker, task, popSize, overlap, received, executed, closing>>
      /\ callStep(t, "locked", "hook")
      /\ next' = [next EXCEPT ![t] = End] /\ prev' = [prev EXCEPT ![t] = prev[End]]
  BY DEF PushNode, workerVars, closeVars
<1>2. /\ Calls' /\ last' = last /\ last > 0 /\ t = received[last] /\ mutex = t
      /\ call[t] = "locked" /\ call'[t] = "hook"
      /\ \A u \in Tasks : u # t => call'[u] = call[u] /\ call[u] \in {"idle", "returned"}
      /\ \A i \in 1..last : i < last =>
            received[i] # t /\ call[received[i]] = "returned" /\ call'[received[i]] = "returned"
  BY <1>0, <1>1, CallMoves
<1>3. \A i \in 1..last : Hooked(received[i]) <=> Hooked(received[i])'
  BY <1>0, <1>1, <1>2 DEF Hooked
<1>4. Serial' /\ UNCHANGED <<started, relinked, removed, head>>
  BY <1>0, <1>1, <1>3, SerialKept
<1>5. tails = last - 1 /\ tails' = last - 1 /\ counted = last - 1 /\ counted' = last - 1
  BY <1>1, <1>2 DEF tails, counted, Tailed, Counted
<1>6. /\ next'[t] = End /\ prev'[t] = prev[End]
      /\ \A n \in Nodes : n # t => next'[n] = next[n] /\ prev'[n] = prev[n]
  BY <1>0, <1>1 DEF Typed
<1>7. started <= last - 1
  <2>1. ~Hooked(received[last])
    BY <1>2 DEF Hooked
  <2>2. QED
    BY <1>0, <1>2, <2>1 DEF Serial
<1>8. t # End /\ End \in Nodes /\ next'[End] = next[End] /\ prev'[End] = prev[End]
  BY <1>0, <1>6, QueueAssumption
<1>9. next[End] # t
  BY <1>0, <1>2, QueueAssumption DEF Front, Hooked
<1>10. Front'
  BY <1>0, <1>1, <1>2, <1>4, <1>8, <1>3, Numbers DEF Front
<1>11. Nexts'
  <2>1. ASSUME NEW i \in 1..last, i < last
        PROVE  \/ next'[received[i]] = End
               \/ /\ next'[received[i]] = received[i + 1] /\ Hooked(received[i + 1])
    <3>1. Linked(received[i]) /\ next'[received[i]] = next[received[i]]
      BY <1>0, <1>2, <1>6, <2>1 DEF Linked
    <3>2. QED
      BY <1>0, <2>1, <3>1 DEF Nexts
  <2>2. QED
    BY <1>0, <1>1, <1>2, <1>3, <1>6, <2>1 DEF Nexts
<1>12. Links'
  <2>1. ASSUME NEW i \in 1..last, i > relinked, i < last
        PROVE  /\ Hooked(received[i + 1]) => next'[received[i]] = received[i + 1]
               /\ prev'[received[i + 1]] = received[i]
    <3>1. received[i] \in Nodes /\ next'[received[i]] = next[received[i]]
      BY <1>0, <1>2, <1>6, <2>1
    <3>2. CASE i + 1 < last
      <4>1. i + 1 \in 1..last /\ received[i + 1] # t /\ Linked(received[i + 1])
        BY <1>0, <1>2, <2>1, <3>2 DEF Linked
      <4>2. prev'[received[i + 1]] = prev[received[i + 1]]
        BY <1>0, <1>6, <4>1
      <4>3. QED
        BY <1>0, <2>1, <3>1, <4>1, <4>2 DEF Links
    <3>3. CASE i + 1 = last
      <4>1. prev[End] = received[last - 1]
        BY <1>0, <1>5, <2>1, <3>3 DEF Last
      <4>2. i = last - 1
        BY <1>0, <3>3
      <4>3. QED
        BY <1>0, <1>2, <1>6, <2>1, <3>1, <3>3, <4>1, <4>2 DEF Links
    <3>4. QED
      BY <1>0, <2>1, <3>2, <3>3
  <2>2. QED
    BY <1>0, <1>1, <1>2, <1>3, <1>4, <2>1 DEF Links
<1>13. Hooking'
  <2>1. prev'[received[last]] = End \/ (last > 1 /\ prev'[received[last]] = received[last - 1])
    BY <1>0, <1>2, <1>5, <1>6 DEF Last
  <2>2. QED
    BY <1>0, <1>1, <1>2, <2>1 DEF Hooking
<1>14. First'
  <2>1. worker = "relink" => task # t /\ task \in Nodes
    <3>1. ASSUME worker = "relink"
          PROVE  task # t /\ task \in Nodes
      BY <1>0, <1>2, <1>7, <3>1 DEF Serial, PopStates
    <3>2. QED
      BY <3>1
  <2>2. next[End] \in Nodes
    BY <1>0 DEF Typed
  <2>3. QED
    BY <1>0, <1>1, <1>6, <1>8, <1>9, <2>1, <2>2 DEF First
<1>15. (Last /\ Deleted)'
  BY <1>0, <1>1, <1>2, <1>4, <1>5, <1>8 DEF Last, Deleted
<1>16. \A u \in Tasks : call'[u] # "writeSize"
  BY <1>2
<1>17. Sizes'
  BY <1>0, <1>1, <1>2, <1>5, <1>16 DEF Sizes
<1>18. Turns'
  <2>1. head <= last /\ Hooked(received[head])' => Hooked(received[head])
    BY <1>0, <1>1, <1>3, <1>4, Numbers DEF Hooked
  <2>2. ASSUME ~overlap, NEW u \in Tasks, call'[u] = "hook", last - 1 <= relinked
        PROVE  prev'[u] = End
    <3>1. u = t
      BY <1>2, <2>2
    <3>2. worker # "relink"
      BY <1>0, <1>2, <2>2, QueueAssumption DEF Turns, PopStates
    <3>3. prev[End] = End
      BY <1>0, <1>5, <2>2, <3>2 DEF Turns
    <3>4. QED
      BY <1>6, <3>1, <3>3
  <2>3. QED
    BY <1>0, <1>1, <1>2, <1>4, <1>5, <1>8, <1>16, <2>1, <2>2 DEF Turns
<1>19. QED
  BY <1>2, <1>4, <1>10, <1>11, <1>12, <1>13, <1>14, <1>15, <1>17, <1>18 DEF Good, Shape

\* n->prev->next = n
LEMMA HookStep ==
    ASSUME Typed, Good, NEW t \in Tasks, PushHook(t)
    PROVE  Good' /\ (~overlap => prev[t] \notin freed)
<1>0. /\ last \in Nat /\ started \in Nat /\ relinked \in Nat /\ removed \in Nat /\ head \in Nat
      /\ relinked <= started /\ started <= last /\ removed <= relinked /\ head > 0
      /\ \A i \in 1..last : received[i] \in Tasks /\ received[i] # End
      /\ End \in Nodes /\ Tasks \subseteq Nodes
      /\ Calls /\ Serial /\ Front /\ Nexts /\ Links /\ Hooking /\ First /\ Last /\ Deleted
      /\ Sizes /\ Turns
  BY Numbers DEF Good, Shape
<1>1. /\ UNCHANGED <<prev, size, freed, mutex, pushSize, worker, task, popSize, overlap, received, executed,
                     closing>>
      /\ callStep(t, "hook", "tail")
      /\ next' = [next EXCEPT ![prev[t]] = t]
  BY DEF PushHook, workerVars, closeVars
<1>2. /\ Calls' /\ last' = last /\ last > 0 /\ t = received[last] /\ mutex = t
      /\ call[t] = "hook" /\ call'[t] = "tail"
      /\ \A u \in Tasks : u # t => call'[u] = call[u] /\ call[u] \in {"idle", "returned"}
      /\ \A i \in 1..last : i < last =>
            received[i] # t /\ call[received[i]] = "returned" /\ call'[received[i]] = "returned"
  BY <1>0, <1>1, CallMoves
<1>3. /\ \A i \in 1..last : Hooked(received[i])'
      /\ \A i \in 1..last : i < last => Hooked(received[i])
      /\ \A i \in 1..last : Linked(received[i])
      /\ ~Hooked(received[last])
  BY <1>0, <1>1, <1>2 DEF Hooked, Linked
<1>4. Serial' /\ UNCHANGED <<started, relinked, removed, head>>
  BY <1>0, <1>1, <1>3, SerialKept
<1>5. tails = last - 1 /\ tails' = last - 1 /\ counted = last - 1 /\ counted' = last - 1
  BY <1>1, <1>2 DEF tails, counted, Tailed, Counted
<1>6. started <= last - 1
  BY <1>0, <1>2, <1>3 DEF Serial
<1>7. \A u \in Tasks : call'[u] # "writeSize" /\ call'[u] # "hook"
  BY <1>2
<1>8. /\ prev[t] \in Nodes
      /\ \A n \in Nodes : next'[n] = IF n = prev[t] THEN t ELSE next[n]
  BY <1>0, <1>1 DEF Typed
<1>9. (Hooking /\ Last /\ Deleted /\ Sizes)'
  <2>1. Hooking'
    BY <1>0, <1>1, <1>2, <1>7 DEF Hooking
  <2>2. (Last /\ Deleted)'
    BY <1>0, <1>1, <1>2, <1>4, <1>5 DEF Last, Deleted
  <2>3. Sizes'
    BY <1>0, <1>1, <1>2, <1>5, <1>7 DEF Sizes
  <2>4. QED
    BY <2>1, <2>2, <2>3
<1>10. next[t] = End
  BY <1>0, <1>2, <1>3 DEF Nexts
<1>11. prev[t] = End \/ (last > 1 /\ prev[t] = received[last - 1])
  BY <1>0, <1>2 DEF Hooking
<1>12. CASE prev[t] = End
  <2>1. last - 1 <= relinked
    <3>1. ASSUME last - 1 > relinked
          PROVE  FALSE
      <4>1. last - 1 \in 1..last /\ last - 1 < last /\ (last - 1) + 1 = last
        BY <1>0, <3>1
      <4>2. prev[t] = received[last - 1]
        BY <1>0, <1>2, <1>3, <3>1, <4>1 DEF Links
      <4>3. QED
        BY <1>0, <1>12, <4>1, <4>2
    <3>2. QED
      BY <1>0, <3>1
  <2>2. relinked = started /\ started = last - 1
    BY <1>0, <1>6, <2>1
  <2>3. worker \notin {"run", "pop", "relink"} /\ head = last
    BY <1>0, <2>2 DEF relinked, head
  <2>4. /\ next'[End] = t /\ next'[t] = End
        /\ \A i \in 1..last : next'[received[i]] = next[received[i]]
    BY <1>0, <1>8, <1>10, <1>12, QueueAssumption
  <2>5. Front'
    <3>1. head' = last /\ received'[last] = t /\ call'[received'[last]] = "tail"
      BY <1>1, <1>2, <1>4, <2>3
    <3>2. worker' \notin {"run", "pop"} /\ last <= last'
      BY <1>0, <1>1, <1>2, <2>3
    <3>3. QED
      BY <2>4, <3>1, <3>2 DEF Front, Hooked
  <2>6. Nexts'
    <3>1. ASSUME NEW i \in 1..last
          PROVE  \/ next'[received[i]] = End
                 \/ i < last /\ next'[received[i]] = received[i + 1] /\ Hooked(received[i + 1])'
      <4>1. CASE i < last
        <5>1. next[received[i]] = End \/ (next[received[i]] = received[i + 1] /\ i + 1 \in 1..last)
          BY <1>0, <1>3, <4>1 DEF Nexts
        <5>2. QED
          BY <1>3, <2>4, <4>1, <5>1
      <4>2. CASE i = last
        BY <1>2, <2>4, <4>2
      <4>3. QED
        BY <1>0, <4>1, <4>2
    <3>2. QED
      BY <1>1, <1>2, <3>1 DEF Nexts
  <2>7. Links'
    BY <1>0, <1>2, <1>4, <2>1 DEF Links
  <2>8. First'
    BY <1>1, <1>12, <2>3, <2>4 DEF First
  <2>9. Turns'
    BY <1>0, <1>1, <1>2, <1>4, <1>5, <1>7, <2>4, QueueAssumption DEF Turns
  <2>10. prev[t] \notin freed
    BY <1>12, QueueAssumption DEF Typed
  <2>11. QED
    BY <1>2, <1>4, <1>9, <2>5, <2>6, <2>7, <2>8, <2>9, <2>10 DEF Good, Shape
<1>13. CASE last > 1 /\ prev[t] = received[last - 1]
  <2>0. last - 1 \in 1..last /\ prev[t] # End /\ prev[t] # t
    BY <1>0, <1>2, <1>13
  <2>1. /\ next'[End] = next[End] /\ next'[received[last - 1]] = t /\ next'[t] = End
        /\ \A i \in 1..last : i # last - 1 => next'[received[i]] = next[received[i]]
    <3>1. \A i \in 1..last : i # last - 1 => received[i] # prev[t]
      BY <1>0, <1>13, <2>0 DEF Calls
    <3>2. QED
      BY <1>0, <1>8, <1>10, <1>13, <2>0, <3>1
  <2>2. Front'
    <3>1. next[End] = End \/ (head \in 1..last /\ next[End] = received[head])
      BY <1>0 DEF Front
    <3>2. next[End] = End \/ (head <= last /\ next[End] = received[head] /\ call'[received[head]] \notin {"idle", "locked", "hook"})
      BY <1>0, <1>1, <1>3, <3>1 DEF Hooked
    <3>3. QED
      BY <1>0, <1>1, <1>2, <1>4, <2>1, <3>2 DEF Front, Hooked
  <2>3. Nexts'
    <3>1. ASSUME NEW i \in 1..last
          PROVE  \/ next'[received[i]] = End
                 \/ i < last /\ next'[received[i]] = received[i + 1] /\ Hooked(received[i + 1])'
      <4>1. CASE i < last - 1
        <5>1. next[received[i]] = End \/ (next[received[i]] = received[i + 1] /\ i + 1 \in 1..last)
          BY <1>0, <1>3, <4>1 DEF Nexts
        <5>2. QED
          BY <1>0, <1>3, <2>1, <4>1, <5>1
      <4>2. CASE i = last - 1
        BY <1>0, <1>2, <1>3, <2>1, <4>2
      <4>3. CASE i = last
        BY <1>2, <2>1, <4>3
      <4>4. QED
        BY <1>0, <4>1, <4>2, <4>3
    <3>2. QED
      BY <1>1, <1>2, <3>1 DEF Nexts
  <2>4. Links'
    <3>1. ASSUME NEW i \in 1..last, i > relinked, i < last
          PROVE  next'[received[i]] = received[i + 1] /\ prev[received[i + 1]] = received[i]
      <4>1. i + 1 \in 1..last
        BY <1>0, <3>1
      <4>2. prev[received[i + 1]] = received[i]
        BY <1>0, <1>3, <3>1, <4>1 DEF Links
      <4>3. CASE i = last - 1
        BY <1>0, <1>2, <2>1, <4>2, <4>3
      <4>4. CASE i # last - 1
        <5>1. i + 1 < last
          BY <1>0, <3>1, <4>4
        <5>2. next[received[i]] = received[i + 1]
          BY <1>0, <1>3, <3>1, <4>1, <5>1 DEF Links
        <5>3. QED
          BY <2>1, <4>2, <4>4, <5>2
      <4>5. QED
        BY <4>3, <4>4
    <3>2. QED
      BY <1>1, <1>2, <1>4, <3>1 DEF Links
  <2>5. First'
    BY <1>0, <1>1, <2>1 DEF First
  <2>6. ASSUME ~overlap
        PROVE  last - 1 > relinked /\ worker \notin PopStates
    BY <1>0, <1>2, <2>0, <2>6, QueueAssumption DEF Turns
  <2>7. Turns'
    <3>1. ASSUME ~overlap
          PROVE  next[End] # End
      <4>1. CASE worker \in {"run", "pop"}
        BY <1>0, <4>1 DEF Front
      <4>2. CASE worker \notin {"run", "pop"}
        <5>1. relinked = started /\ head = started + 1
          BY <2>6, <3>1, <4>2 DEF relinked, head, PopStates
        <5>2. head \in 1..last /\ head < last
          BY <1>0, <2>6, <3>1, <5>1
        <5>3. QED
          BY <1>0, <1>3, <3>1, <5>2 DEF Turns
      <4>3. QED
        BY <4>1, <4>2
    <3>2. QED
      BY <1>0, <1>1, <1>2, <1>4, <1>5, <1>7, <2>1, <3>1 DEF Turns
  <2>8. ~overlap => prev[t] \notin freed
    <3>1. ASSUME ~overlap, prev[t] \in freed
          PROVE  FALSE
      <4>1. PICK i \in 1..removed : prev[t] = received[i]
        BY <1>0, <3>1 DEF Deleted
      <4>2. i \in 1..last
        BY <1>0
      <4>3. i = last - 1
        <5>1. received[i] = received[last - 1]
          BY <1>13, <4>1
        <5>2. QED
          BY <1>0, <2>0, <4>2, <5>1, Zenon DEF Calls
      <4>4. QED
        BY <1>0, <2>6, <3>1, <4>3
    <3>2. QED
      BY <3>1
  <2>9. QED
    BY <1>2, <1>4, <1>9, <2>2, <2>3, <2>4, <2>5, <2>7, <2>8 DEF Good, Shape
<1>14. QED
  BY <1>11, <1>12, <1>13

\* end.prev = n, ++size and the return: the list's links are as they were,
\* but for the sentinel's last node.
LEMMA TailStep ==
    ASSUME Typed, Good, NEW t \in Tasks, PushTail(t)
    PROVE  Good'
<1>0. /\ last \in Nat /\ started \in Nat /\ relinked \in Nat /\ removed \in Nat /\ head \in Nat
      /\ relinked <= started /\ started <= last /\ head > 0
      /\ \A i \in 1..last : received[i] \in Tasks /\ received[i] # End
      /\ End \in Nodes /\ Tasks \subseteq Nodes
      /\ Calls /\ Serial /\ Front /\ Nexts /\ Links /\ Hooking /\ First /\ Last /\ Deleted
      /\ Sizes /\ Turns
  BY Numbers DEF Good, Shape
<1>1. /\ UNCHANGED <<next, size, freed, mutex, pushSize, worker, task, popSize, overlap, received, executed,
                     closing>>
      /\ callStep(t, "tail", "readSize")
      /\ prev' = [prev EXCEPT ![End] = t]
  BY DEF PushTail, workerVars, closeVars
<1>2. /\ Calls' /\ last' = last /\ last > 0 /\ t = received[last] /\ mutex = t
      /\ call[t] = "tail" /\ call'[t] = "readSize"
      /\ \A u \in Tasks : u # t => call'[u] = call[u] /\ call[u] \in {"idle", "returned"}
      /\ \A i \in 1..last : i < last =>
            received[i] # t /\ call[received[i]] = "returned" /\ call'[received[i]] = "returned"
  BY <1>0, <1>1, CallMoves
<1>3. \A i \in 1..last : Hooked(received[i])' /\ Hooked(received[i]) /\ Linked(received[i])' /\ Linked(received[i])
  BY <1>0, <1>1, <1>2 DEF Hooked, Linked
<1>4. Serial' /\ UNCHANGED <<started, relinked, removed, head>>
  BY <1>0, <1>1, <1>3, SerialKept
<1>5. tails' = last /\ counted = last - 1 /\ counted' = last - 1
  BY <1>1, <1>2 DEF tails, counted, Tailed, Counted
<1>6. \A u \in Tasks : call'[u] # "writeSize" /\ call'[u] # "hook"
  BY <1>2
<1>7. prev'[End] = t /\ t # End /\ \A n \in Nodes : n # End => prev'[n] = prev[n]
  BY <1>0, <1>1, QueueAssumption DEF Typed
<1>8. \A i \in 1..last : prev'[received[i]] = prev[received[i]]
  BY <1>0, <1>7
<1>9. Front'
  <2>1. head <= last => head \in 1..last
    BY <1>0
  <2>2. QED
    BY <1>0, <1>1, <1>2, <1>3, <1>4, <2>1 DEF Front
<1>10. Nexts'
  <2>1. \A i \in 1..last : i < last => i + 1 \in 1..last
    BY <1>0
  <2>2. QED
    BY <1>0, <1>1, <1>2, <1>3, <2>1 DEF Nexts
<1>11. Links'
  <2>1. \A i \in 1..last : i < last => i + 1 \in 1..last
    BY <1>0
  <2>2. QED
    BY <1>0, <1>1, <1>2, <1>3, <1>4, <1>8, <2>1 DEF Links
<1>12. Hooking'
  BY <1>0, <1>1, <1>2, <1>6 DEF Hooking
<1>13. First'
  <2>1. next[End] \in Nodes
    BY <1>0 DEF Typed
  <2>2. worker = "relink" => task \in Nodes /\ task # End
    BY <1>0 DEF Serial, PopStates
  <2>3. QED
    BY <1>0, <1>1, <1>7, <2>1, <2>2 DEF First
<1>14. (Last /\ Deleted)'
  BY <1>0, <1>1, <1>2, <1>4, <1>5, <1>7 DEF Last, Deleted
<1>15. Sizes'
  BY <1>0, <1>1, <1>2, <1>5, <1>6 DEF Sizes
<1>16. Turns'
  <2>1. head <= last => head \in 1..last
    BY <1>0
  <2>2. ASSUME ~overlap
        PROVE  ~(last <= relinked)
    BY <1>0, <1>5, <2>2 DEF Turns
  <2>3. QED
    BY <1>0, <1>1, <1>2, <1>3, <1>4, <1>5, <1>6, <2>1, <2>2 DEF Turns
<1>17. QED
  BY <1>2, <1>4, <1>9, <1>10, <1>11, <1>12, <1>13, <1>14, <1>15, <1>16 DEF Good, Shape

LEMMA CountStep ==
    ASSUME Typed, Good, NEW t \in Tasks, PushReadSize(t) \/ PushWriteSize(t) \/ PutReturn(t)
    PROVE  Good'
<1>0. /\ last \in Nat /\ started \in Nat /\ relinked \in Nat /\ removed \in Nat /\ head \in Nat
      /\ counted \in Nat /\ relinked <= started /\ started <= last /\ head > 0
      /\ \A i \in 1..last : received[i] \in Tasks
      /\ Calls /\ Serial /\ Front /\ Nexts /\ Links /\ Hooking /\ First /\ Last /\ Deleted
      /\ Sizes /\ Turns
  BY Numbers DEF Good, Shape
<1>1. /\ UNCHANGED <<next, prev, freed, worker, task, popSize, overlap, received, executed, closing>>
      /\ \/ /\ callStep(t, "readSize", "writeSize") /\ mutex' = mutex
            /\ size' = size /\ pushSize' = size
         \/ /\ callStep(t, "writeSize", "unlock") /\ mutex' = mutex
            /\ size' = pushSize + 1 /\ pushSize' = pushSize
         \/ /\ callStep(t, "unlock", "returned") /\ mutex' = NoTask
            /\ size' = size /\ pushSize' = pushSize
  BY DEF PushReadSize, PushWriteSize, PutReturn, listVars, workerVars, closeVars
<1>2. /\ Calls' /\ last' = last /\ last > 0 /\ t = received[last] /\ mutex = t
      /\ call[t] \in {"readSize", "writeSize", "unlock"}
      /\ call'[t] = IF call[t] = "readSize" THEN "writeSize"
                    ELSE IF call[t] = "writeSize" THEN "unlock" ELSE "returned"
      /\ \A u \in Tasks : u # t => call'[u] = call[u] /\ call[u] \in {"idle", "returned"}
      /\ \A i \in 1..last : i < last =>
            received[i] # t /\ call[received[i]] = "returned" /\ call'[received[i]] = "returned"
  <2>1. CASE callStep(t, "readSize", "writeSize") /\ mutex' = mutex
    BY <1>0, <1>1, <2>1, CallMoves
  <2>2. CASE callStep(t, "writeSize", "unlock") /\ mutex' = mutex
    BY <1>0, <1>1, <2>2, CallMoves
  <2>3. CASE callStep(t, "unlock", "returned") /\ mutex' = NoTask
    BY <1>0, <1>1, <2>3, CallMoves
  <2>4. QED
    BY <1>1, <2>1, <2>2, <2>3
<1>3. \A i \in 1..last : Hooked(received[i])' /\ Hooked(received[i]) /\ Linked(received[i])' /\ Linked(received[i])
  BY <1>0, <1>1, <1>2 DEF Hooked, Linked
<1>4. Serial' /\ UNCHANGED <<started, relinked, removed, head>>
  BY <1>0, <1>1, <1>3, SerialKept
<1>5. /\ tails = last /\ tails' = last
      /\ counted = IF call[t] = "unlock" THEN last ELSE last - 1
      /\ counted' = IF call[t] = "readSize" THEN last - 1 ELSE last
  BY <1>1, <1>2 DEF tails, counted, Tailed, Counted
<1>6. \A u \in Tasks : /\ call'[u] # "hook" /\ call[u] # "hook"
                       /\ call'[u] = "writeSize" <=> u = t /\ call[t] = "readSize"
  BY <1>2
<1>7. /\ size' = IF call[t] = "writeSize" THEN pushSize + 1 ELSE size
      /\ pushSize' = IF call[t] = "readSize" THEN size ELSE pushSize
  BY <1>1 DEF callStep
<1>8. (Front /\ Nexts /\ Links /\ Hooking)'
  <2>1. /\ \A i \in 1..last : i < last => i + 1 \in 1..last
        /\ head <= last => head \in 1..last
    BY <1>0
  <2>2. Front'
    BY <1>0, <1>1, <1>2, <1>3, <1>4, <2>1 DEF Front
  <2>3. Nexts'
    BY <1>0, <1>1, <1>2, <1>3, <2>1 DEF Nexts
  <2>4. Links'
    BY <1>0, <1>1, <1>2, <1>3, <1>4, <2>1 DEF Links
  <2>5. Hooking'
    BY <1>0, <1>1, <1>2, <1>6 DEF Hooking
  <2>6. QED
    BY <2>2, <2>3, <2>4, <2>5
<1>9. (First /\ Last /\ Deleted)'
  BY <1>0, <1>1, <1>2, <1>4, <1>5 DEF First, Last, Deleted
<1>10. Sizes'
  <2>1. size \in Nat /\ pushSize \in Nat /\ popSize \in Nat
    BY DEF Typed
  <2>2. call[t] = "writeSize" => pushSize < last
    BY <1>0 DEF Sizes
  <2>3. size' <= counted' /\ pushSize' <= last' /\ popSize' <= counted'
    BY <1>0, <1>1, <1>2, <1>5, <1>7, <2>1, <2>2 DEF Sizes
  <2>4. \A u \in Tasks : call'[u] = "writeSize" => pushSize' < last'
    BY <1>0, <1>2, <1>5, <1>6, <1>7, <2>1 DEF Sizes
  <2>5. size > 0 => size' > 0
    BY <1>7, <2>1
  <2>6. QED
    BY <1>0, <1>1, <2>3, <2>4, <2>5 DEF Sizes
<1>11. Turns'
  <2>1. size \in Nat /\ pushSize \in Nat
    BY DEF Typed
  <2>2. ASSUME ~overlap
        PROVE  /\ worker \notin PopStates /\ size' = counted' - removed' /\ started' <= counted'
               /\ \A u \in Tasks : call'[u] = "writeSize" => pushSize' = size'
    <3>1. worker \notin PopStates /\ size = counted - removed /\ started <= counted
      BY <1>0, <1>2, <2>2, QueueAssumption DEF Turns
    <3>2. call[t] = "writeSize" => pushSize = size
      BY <1>0, <2>2 DEF Turns
    <3>3. size' = counted' - removed' /\ started' <= counted'
      BY <1>0, <1>2, <1>4, <1>5, <1>7, <2>1, <3>1, <3>2
    <3>4. \A u \in Tasks : call'[u] = "writeSize" => pushSize' = size'
      BY <1>6, <1>7
    <3>5. QED
      BY <3>1, <3>3, <3>4
  <2>3. head <= last => head \in 1..last
    BY <1>0
  <2>4. ASSUME ~overlap
        PROVE  head' <= last' => next'[End] # End
    BY <1>0, <1>1, <1>2, <1>3, <1>4, <2>3, <2>4 DEF Turns
  <2>5. worker = "writeSize" => worker \in PopStates
    BY DEF PopStates
  <2>6. ASSUME ~overlap
        PROVE  worker' # "relink" /\ tails' <= relinked' => prev'[End] = End
    BY <1>0, <1>1, <1>4, <1>5, <2>6 DEF Turns
  <2>7. QED
    BY <1>1, <1>6, <2>2, <2>4, <2>5, <2>6 DEF Turns
<1>12. QED
  BY <1>2, <1>4, <1>8, <1>9, <1>10, <1>11 DEF Good, Shape

-------------------------------------------------------------------------------
(* The theorems.                                                           *)

\* What concerns neither the list, the calls, the worker nor the histories.
LEMMA Kept ==
    ASSUME Good, UNCHANGED <<next, prev, size, freed, mutex, call, pushSize, worker, task, popSize,
                             closing, overlap, received, executed>>
    PROVE  Good'
<1>1. UNCHANGED <<last, tails, counted, started, relinked, removed, head>>
  BY DEF last, tails, counted, started, relinked, removed, head, Tailed, Counted
<1>2. Calls'
  BY <1>1 DEF Good, Calls
<1>3. Serial'
  BY <1>1 DEF Good, Serial, Hooked
<1>4. Shape'
  BY <1>1 DEF Good, Shape, Front, Nexts, Links, Hooking, First, Last, Deleted, Hooked, Linked
<1>5. Sizes'
  BY <1>1 DEF Good, Sizes
<1>6. Turns'
  BY <1>1 DEF Good, Turns, Hooked
<1>7. QED
  BY <1>2, <1>3, <1>4, <1>5, <1>6 DEF Good

\* While calls and worker take turns, front() finds a task: the size that
\* the worker saw is that of tasks which are in the list.
LEMMA FrontFinds ==
    ASSUME Typed, Good, FrontAndCall, ~overlap
    PROVE  next[End] # End
<1>0. /\ Calls /\ Serial /\ Sizes /\ Turns /\ worker = "front"
      /\ last \in Nat /\ started \in Nat /\ counted \in Nat /\ counted <= last
  BY Numbers DEF Good, FrontAndCall, workerStep
<1>1. removed = started /\ head = started + 1
  BY <1>0 DEF removed, head, PopStates
<1>2. size > 0 /\ size = counted - started
  BY <1>0, <1>1 DEF Sizes, Turns
<1>3. head \in 1..last /\ head <= counted
  BY <1>0, <1>1, <1>2
<1>4. Hooked(received[head])
  <2> DEFINE h == head
  <2>1. h \in 1..last /\ h <= counted
    BY <1>3
  <2>2. \A i \in 1..last : i <= counted => Hooked(received[i])
    BY <1>0, Behind
  <2>3. QED
    BY <2>1, <2>2
<1>5. QED
  BY <1>0, <1>3, <1>4 DEF Turns

\* A step of a live process keeps the invariant.
LEMMA LiveStep ==
    ASSUME Typed, Good, ~crashed, Next
    PROVE  /\ ~crashed' \/ ~overlap => Good'
           /\ Good' \/ UNCHANGED <<size, pushSize, popSize, received>>
           /\ NoCrash'
           /\ overlap' = overlap
<1> USE DEF NoCrash
<1>1. ASSUME NEW t \in Tasks, PutStep(t)
      PROVE  Good' /\ NoCrash' /\ overlap' = overlap
  <2>1. CASE PushHook(t)
    <3>1. Good' /\ (~overlap => prev[t] \notin freed)
      BY <2>1, HookStep
    <3>2. overlap' = overlap /\ (crashed' => prev[t] \in freed)
      BY <2>1 DEF PushHook
    <3>3. QED
      BY <3>1, <3>2
  <2>2. CASE ~PushHook(t)
    <3>1. Good'
      BY <1>1, <2>2, LockStep, NodeStep, TailStep, CountStep DEF PutStep
    <3>2. ~crashed' /\ overlap' = overlap
      BY <1>1, <2>2 DEF PutStep, PutLock, PushNode, PushTail, PushReadSize, PushWriteSize, PutReturn
    <3>3. QED
      BY <3>1, <3>2
  <2>3. QED
    BY <2>1, <2>2
<1>2. ASSUME FrontAndCall
      PROVE  /\ overlap' = overlap
             /\ ~crashed' => Good'
             /\ crashed' => overlap /\ UNCHANGED <<size, pushSize, popSize, received>>
  <2>1. overlap' = overlap /\ UNCHANGED <<size, pushSize, popSize, received>>
    BY <1>2 DEF FrontAndCall, listVars, callVars
  <2>2. crashed' => next[End] = End
    BY <1>2 DEF FrontAndCall
  <2>3. ~crashed' => Good'
    BY <1>2, FrontStep
  <2>4. ~overlap => next[End] # End
    BY <1>2, FrontFinds
  <2>5. QED
    BY <2>1, <2>2, <2>3, <2>4
<1>3. ASSUME TaskCloses \/ TaskCalls
      PROVE  Good' /\ NoCrash' /\ overlap' = overlap
  <2>1. /\ UNCHANGED <<next, prev, size, freed, mutex, call, pushSize, worker, task, popSize,
                       closing, overlap, received, executed>>
        /\ worker = "run" /\ task \in SelfClosers \union SelfCallers
    BY <1>3 DEF TaskCloses, TaskCalls, listVars, callVars, workerVars, closeVars
  <2>2. Good'
    BY <2>1, Kept
  <2>3. QED
    BY <2>1, <2>2
<1>4. ASSUME LoopTest \/ EmptyTest \/ TaskReturns \/ CloseBegin \/ CloseEnd
      PROVE  Good' /\ NoCrash' /\ overlap' = overlap
  <2>1. Good'
    <3>1. CASE TaskReturns
      BY <3>1, QuietStep
    <3>2. CASE ~TaskReturns
      BY <1>4, <3>2, IdleStep
    <3>3. QED
      BY <3>1, <3>2
  <2>2. ~crashed' /\ overlap' = overlap
    BY <1>4 DEF LoopTest, EmptyTest, TaskReturns, CloseBegin, CloseEnd
  <2>3. QED
    BY <2>1, <2>2
<1>5. ASSUME PopUnlink \/ PopRelink \/ PopReadSize \/ PopWriteSize
      PROVE  Good' /\ NoCrash' /\ overlap' = overlap
  <2>1. Good'
    <3>1. CASE PopUnlink
      BY <3>1, UnlinkStep
    <3>2. CASE PopRelink
      BY <3>2, RelinkStep
    <3>3. CASE PopReadSize
      BY <3>3, QuietStep
    <3>4. CASE PopWriteSize
      BY <3>4, DeleteStep
    <3>5. QED
      BY <1>5, <3>1, <3>2, <3>3, <3>4
  <2>2. ~crashed' /\ overlap' = overlap
    BY <1>5 DEF PopUnlink, PopRelink, PopReadSize, PopWriteSize
  <2>3. QED
    BY <2>1, <2>2
<1>6. ASSUME Terminated
      PROVE  Good' /\ NoCrash' /\ overlap' = overlap
  <2>1. UNCHANGED <<next, prev, size, freed, mutex, call, pushSize, worker, task, popSize, closing,
                    crashed, overlap, received, executed>>
    BY <1>6 DEF Terminated, vars, listVars, callVars, workerVars, closeVars
  <2>2. QED
    BY <2>1, Kept
<1>7. QED
  BY <1>1, <1>2, <1>3, <1>4, <1>5, <1>6 DEF Next, WorkerStep

\* Every step keeps the invariant.
LEMMA Step ==
    ASSUME Inv, [Next]_vars
    PROVE  Inv'
<1>1. CASE UNCHANGED vars
  <2>1. UNCHANGED <<next, prev, size, freed, mutex, call, pushSize, worker, task, popSize, stop, closing,
                    crashed, overlap, received, executed>>
    BY <1>1 DEF vars, listVars, callVars, workerVars, closeVars
  <2>2. Typed'
    BY <2>1 DEF Inv, Typed
  <2>3. Bounded' /\ NoCrash'
    BY <2>1 DEF Inv, Bounded, NoCrash, last
  <2>4. Good => Good'
    BY <2>1, Kept
  <2>5. QED
    BY <2>1, <2>2, <2>3, <2>4 DEF Inv
<1>2. CASE Next /\ ~crashed
  <2>1. Typed /\ Good /\ Bounded
    BY <1>2 DEF Inv
  <2>2. Typed'
    BY <1>2, <2>1, TypedStep
  <2>3. NoCrash' /\ overlap' = overlap
    BY <1>2, <2>1, LiveStep
  <2>4. ~crashed' \/ ~overlap' => Good'
    <3>1. ~crashed' \/ ~overlap => Good'
      BY <1>2, <2>1, LiveStep
    <3>2. QED
      BY <2>3, <3>1
  <2>5. Bounded'
    <3>1. CASE Good'
      <4>1. Calls' /\ Sizes' /\ Serial'
        BY <3>1 DEF Good
      <4>2. (counted <= last /\ counted \in Nat /\ last \in Nat /\ size \in Nat /\ popSize \in Nat)'
        <5>1. (last \in Nat)'
          BY <2>2 DEF Typed, last
        <5>2. counted' = last' \/ (last' > 0 /\ counted' = last' - 1)
          BY DEF counted
        <5>3. counted' <= last' /\ counted' \in Nat
          BY <5>1, <5>2
        <5>4. QED
          BY <2>2, <5>1, <5>3 DEF Typed
      <4>3. QED
        BY <4>1, <4>2 DEF Calls, Sizes, Bounded
    <3>2. CASE UNCHANGED <<size, pushSize, popSize, received>>
      BY <2>1, <3>2 DEF Bounded, last
    <3>3. QED
      BY <1>2, <2>1, <3>1, <3>2, LiveStep
  <2>6. QED
    BY <2>2, <2>3, <2>4, <2>5 DEF Inv
<1>3. CASE Next /\ crashed
  <2>1. UNCHANGED vars
    BY <1>3 DEF Next, PutStep, WorkerStep, PutLock, PushNode, PushHook, PushTail, PushReadSize,
                PushWriteSize, PutReturn, callStep, LoopTest, EmptyTest, FrontAndCall, TaskReturns,
                TaskCloses, TaskCalls, PopUnlink, PopRelink, PopReadSize, PopWriteSize, workerStep,
                CloseBegin, CloseEnd, Terminated
  <2>2. QED
    BY <1>1, <2>1
<1>4. QED
  BY <1>1, <1>2, <1>3

\* The invariant holds in every reachable state, for any tasks.
THEOREM Safety == Spec => []Inv
<1>1. Init => Inv
  <2> SUFFICES ASSUME Init PROVE Inv
    OBVIOUS
  <2>1. last = 0 /\ started = 0 /\ worker = "loop" /\ End \in Nodes
    BY DEF Init, last, started, Nodes
  <2>2. tails = 0 /\ counted = 0 /\ relinked = 0 /\ removed = 0 /\ head = 1
    BY <2>1 DEF tails, counted, relinked, removed, head, PopStates
  <2>3. /\ next[End] = End /\ prev[End] = End /\ \A t \in Tasks : call[t] = "idle"
        /\ next \in [Nodes -> Nodes] /\ prev \in [Nodes -> Nodes] /\ call \in [Tasks -> CallStates]
    BY <2>1 DEF Init, CallStates
  <2>4. Typed
    <3>1. worker \in WorkerStates /\ <<>> \in Seq(Tasks)
      BY <2>1 DEF WorkerStates
    <3>2. QED
      BY <2>3, <3>1 DEF Init, Typed
  <2>5. Calls
    <3>1. mutex = NoTask /\ NoTask \notin Tasks
      BY QueueAssumption DEF Init
    <3>2. QED
      BY <2>1, <2>3, <3>1 DEF Calls
  <2>6. Serial
    BY <2>1 DEF Serial, Init, PopStates
  <2>7. Shape
    BY <2>1, <2>2, <2>3 DEF Init, Shape, Front, Nexts, Links, Hooking, First, Last, Deleted
  <2>8. Sizes /\ Turns
    BY <2>1, <2>2, <2>3 DEF Init, Sizes, Turns, PopStates
  <2>9. Bounded /\ NoCrash
    BY <2>1 DEF Init, Bounded, NoCrash
  <2>10. QED
    BY <2>4, <2>5, <2>6, <2>7, <2>8, <2>9 DEF Inv, Good
<1>2. Inv /\ [Next]_vars => Inv'
  BY Step
<1>3. QED
  BY <1>1, <1>2, PTL DEF Spec

\* The order is kept by every step, also by those that race: only the task
\* that was received first of those not started is started, and none once the
\* queue is closed.
LEMMA SerialStep ==
    ASSUME Inv, [Next]_vars
    PROVE  [Abstract!Next]_(Abstract!queueVars)
<1>0. CASE UNCHANGED <<received, executed, closing>>
  BY <1>0 DEF Abstract!queueVars
<1>1. CASE ~Next \/ crashed
  <2>1. UNCHANGED <<received, executed, closing>>
    BY <1>1 DEF Next, PutStep, WorkerStep, PutLock, PushNode, PushHook, PushTail, PushReadSize,
                PushWriteSize, PutReturn, callStep, LoopTest, EmptyTest, FrontAndCall, TaskReturns,
                TaskCloses, TaskCalls, PopUnlink, PopRelink, PopReadSize, PopWriteSize, workerStep,
                CloseBegin, CloseEnd, Terminated, vars, closeVars
  <2>2. QED
    BY <1>0, <2>1
<1>2. CASE Next /\ ~crashed
  <2>1. Typed /\ Good
    BY <1>2 DEF Inv
  <2>2. ASSUME NEW t \in Tasks, PutStep(t)
        PROVE  [Abstract!Next]_(Abstract!queueVars)
    <3>1. CASE PutLock(t)
      <4>1. \A i \in 1..last : received[i] # t
        BY <2>1, <3>1, LockStep
      <4>2. DOMAIN received = 1..last
        BY <2>1 DEF Typed, last
      <4>3. received' = Append(received, t) /\ UNCHANGED <<executed, closing>>
        BY <3>1 DEF PutLock, closeVars
      <4>4. Abstract!Receive(t)
        BY <4>1, <4>2, <4>3 DEF Abstract!Receive
      <4>5. QED
        BY <4>4 DEF Abstract!Next
    <3>2. CASE ~PutLock(t)
      <4>1. UNCHANGED <<received, executed, closing>>
        BY <2>2, <3>2 DEF PutStep, PushNode, PushHook, PushTail, PushReadSize, PushWriteSize, PutReturn,
                          closeVars
      <4>2. QED
        BY <1>0, <4>1
    <3>3. QED
      BY <3>1, <3>2
  <2>3. CASE FrontAndCall
    <3>1. CASE crashed'
      <4>1. UNCHANGED <<received, executed, closing>>
        BY <1>2, <2>3, <3>1 DEF FrontAndCall, closeVars
      <4>2. QED
        BY <1>0, <4>1
    <3>2. CASE ~crashed'
      <4>1. started < last /\ executed' = Append(executed, received[started + 1])
        BY <2>1, <2>3, <3>2, FrontStep
      <4>2. closing # "closed" /\ UNCHANGED <<received, closing>>
        BY <2>1, <2>3 DEF FrontAndCall, closeVars, workerStep, Good, Serial
      <4>3. Abstract!Execute
        BY <4>1, <4>2 DEF Abstract!Execute, started, last
      <4>4. QED
        BY <4>3 DEF Abstract!Next
    <3>3. QED
      BY <3>1, <3>2
  <2>4. CASE CloseEnd
    <3>1. Abstract!Close
      BY <2>4 DEF CloseEnd, Abstract!Close
    <3>2. QED
      BY <3>1 DEF Abstract!Next
  <2>5. CASE CloseBegin
    <3>1. UNCHANGED <<received, executed>> /\ closing # "closed" /\ closing' # "closed"
      BY <2>5 DEF CloseBegin
    <3>2. QED
      BY <3>1 DEF Abstract!queueVars
  <2>6. CASE Terminated
    BY <1>0, <2>6 DEF Terminated, vars, closeVars
  <2>7. CASE WorkerStep /\ ~FrontAndCall
    <3>1. UNCHANGED <<received, executed, closing>>
      BY <2>7 DEF WorkerStep, LoopTest, EmptyTest, TaskReturns, TaskCloses, TaskCalls, PopUnlink,
                  PopRelink, PopReadSize, PopWriteSize, closeVars
    <3>2. QED
      BY <1>0, <3>1
  <2>8. QED
    BY <1>2, <2>2, <2>3, <2>4, <2>5, <2>6, <2>7 DEF Next
<1>3. QED
  BY <1>1, <1>2

\* exec() and put() implement the serial queue: tasks start one at a time, in
\* the order in which put() received them, each at most once, none passed
\* over, none after close() has returned.  So it is for any number of calls,
\* also when put() and pop_front() overlap and although only one of them takes
\* the mutex: a race loses tasks or kills the process, it does not reorder.
THEOREM OrderSafety == Spec => RunsInOrder
<1>1. Init => Abstract!Init
  BY DEF Init, Abstract!Init
<1>2. Inv /\ [Next]_vars => [Abstract!Next]_(Abstract!queueVars)
  BY SerialStep
<1>3. QED
  BY <1>1, <1>2, Safety, PTL DEF Spec, RunsInOrder, Abstract!Spec

\* The worker does not bring the process down, unless put() and pop_front()
\* overlap, or a task closes its own queue or calls it in a DEBUG build: front()
\* is never called on an empty list and no link of a deleted node is followed,
\* for any number of calls.
THEOREM CrashSafety == Spec => []NoCrash
<1>1. Inv => NoCrash
  BY DEF Inv
<1>2. QED
  BY <1>1, Safety, PTL

\* Deleted nodes are counted once: nothing is received twice.
LEMMA FreedCount ==
    ASSUME Typed, Good
    PROVE  Cardinality(freed) = removed
<1>0. /\ last \in Nat /\ removed \in Nat /\ removed <= last
      /\ \A i \in 1..last : received[i] \in Tasks
      /\ Calls /\ freed = {received[i] : i \in 1..removed}
  BY Numbers DEF Good, Shape, Deleted
<1>1. PICK r : r = removed
  OBVIOUS
<1>2. PICK f : f = [i \in 1..r |-> received[i]]
  OBVIOUS
<1>3. PICK T : T = freed
  OBVIOUS
<1>4. f \in Bijection(1..r, T)
  <2>1. f \in [1..r -> T]
    BY <1>0, <1>1, <1>2, <1>3
  <2>2. \A a, b \in 1..r : f[a] = f[b] => a = b
    BY <1>0, <1>1, <1>2 DEF Calls
  <2>3. \A x \in T : \E i \in 1..r : f[i] = x
    BY <1>0, <1>1, <1>2, <1>3
  <2>4. QED
    BY <2>1, <2>2, <2>3 DEF Bijection, Injection, Surjection, IsInjective
<1>5. r \in Nat /\ IsFiniteSet(1..r) /\ Cardinality(1..r) = r
  BY <1>0, <1>1, FS_Interval
<1>6. Cardinality(T) = r
  BY <1>4, <1>5, FS_Bijection DEF ExistsBijection
<1>7. QED
  BY <1>1, <1>3, <1>6

\* A sequence without its first r elements.
LEMMA Suffix ==
    ASSUME NEW S, NEW s \in Seq(S), NEW r \in Nat, r <= Len(s)
    PROVE  /\ DOMAIN SubSeq(s, r + 1, Len(s)) = 1..(Len(s) - r)
           /\ Len(SubSeq(s, r + 1, Len(s))) = Len(s) - r
           /\ \A i \in 1..(Len(s) - r) : SubSeq(s, r + 1, Len(s))[i] = s[r + i]
<1> DEFINE w == SubSeq(s, r + 1, Len(s))
<1>1. \A i \in (r + 1)..Len(s) : s[i] \in S
  OBVIOUS
<1>2. /\ w \in Seq(S)
      /\ Len(w) = IF r + 1 <= Len(s) THEN Len(s) - (r + 1) + 1 ELSE 0
      /\ \A i \in 1..(Len(s) - (r + 1) + 1) : w[i] = s[(r + 1) + i - 1]
  BY <1>1, SubSeqProperties
<1>3. Len(w) = Len(s) - r /\ Len(s) - (r + 1) + 1 = Len(s) - r
  BY <1>2
<1>4. \A i \in 1..(Len(s) - r) : w[i] = s[r + i]
  <2> SUFFICES ASSUME NEW i \in 1..(Len(s) - r) PROVE w[i] = s[r + i]
    OBVIOUS
  <2>1. (r + 1) + i - 1 = r + i
    OBVIOUS
  <2>2. w[i] = s[(r + 1) + i - 1]
    BY <1>2, <1>3
  <2>3. QED
    BY <2>1, <2>2
<1>5. DOMAIN w = 1..Len(w)
  BY <1>2
<1>6. QED
  BY <1>3, <1>4, <1>5

\* The list between two operations, from the invariant.
LEMMA Intact ==
    ASSUME Typed, Good, ~overlap, mutex = NoTask, worker \notin PopStates
    PROVE  ListIntact
<1>0. /\ last \in Nat /\ started \in Nat /\ removed \in Nat /\ removed <= last
      /\ \A i \in 1..last : received[i] \in Tasks /\ received[i] # End
      /\ Calls /\ Serial /\ Front /\ Nexts /\ Links /\ First /\ Last /\ Sizes /\ Turns
  BY Numbers DEF Good, Shape
<1>1. tails = last /\ counted = last
  BY <1>0, NoHolder
<1>2. relinked = removed /\ head = removed + 1 /\ worker # "relink"
  BY <1>0 DEF relinked, removed, head, PopStates
<1>3. \A i \in 1..last : Hooked(received[i]) /\ Linked(received[i])
  BY <1>0, <1>1, Behind
<1>4. PICK r \in Nat : r = removed
  BY <1>0
<1>5. PICK n \in Nat : n = last - r
  BY <1>0, <1>4
<1> DEFINE waiting == SubSeq(received, Cardinality(freed) + 1, Len(received))
           at(i) == IF i \in DOMAIN waiting THEN waiting[i] ELSE End
<1>6. Len(waiting) = n /\ DOMAIN waiting = 1..n /\ \A i \in 1..n : waiting[i] = received[r + i]
  <2>1. Cardinality(freed) + 1 = r + 1
    BY <1>4, FreedCount
  <2>2. waiting = SubSeq(received, r + 1, last)
    BY <2>1 DEF last
  <2>3. received \in Seq(Tasks) /\ last = Len(received)
    BY DEF Typed, last
  <2>4. PICK q : q = received
    OBVIOUS
  <2>5. q \in Seq(Tasks) /\ r <= Len(q) /\ waiting = SubSeq(q, r + 1, Len(q)) /\ n = Len(q) - r
    BY <1>0, <1>4, <1>5, <2>2, <2>3, <2>4
  <2> DEFINE w == SubSeq(q, r + 1, Len(q))
  <2>6. /\ DOMAIN w = 1..(Len(q) - r) /\ Len(w) = Len(q) - r
        /\ \A i \in 1..(Len(q) - r) : w[i] = q[r + i]
    BY <2>5, Suffix
  <2> HIDE DEF w
  <2>7. /\ DOMAIN w = 1..n /\ Len(w) = n
        /\ \A i \in 1..n : w[i] = received[r + i]
    BY <2>4, <2>5, <2>6
  <2>8. waiting = w
    BY <2>5 DEF w
  <2> HIDE DEF waiting
  <2>9. QED
    BY <2>7, <2>8
<1> HIDE DEF waiting
<1>7. /\ \A i \in 1..n : at(i) = received[r + i]
      /\ at(0) = End /\ at(n + 1) = End
  BY <1>6
<1>8. size = n
  BY <1>0, <1>1, <1>4, <1>5 DEF Turns
<1>9. ASSUME NEW i \in 0..n
      PROVE  next[at(i)] = at(i + 1) /\ prev[at(i + 1)] = at(i)
  <2>1. CASE i = 0 /\ n = 0
    <3>1. next[End] = End
      BY <1>0, <1>2, <1>4, <1>5, <2>1 DEF Front
    <3>2. prev[End] = End
      BY <1>0, <1>1, <1>2, <1>4, <1>5, <2>1 DEF Turns
    <3>3. at(i) = End /\ at(i + 1) = End
      BY <1>7, <2>1
    <3>4. QED
      BY <3>1, <3>2, <3>3
  <2>2. CASE i = 0 /\ n > 0
    <3>1. head \in 1..last
      BY <1>0, <1>2, <1>4, <1>5, <2>2
    <3>2. Hooked(received[head])
      BY <1>3, <3>1
    <3>3. next[End] # End /\ next[End] = received[head]
      BY <1>0, <3>1, <3>2 DEF Turns, Front
    <3>4. prev[next[End]] = End
      BY <1>0, <1>2, <3>3 DEF First
    <3>5. at(i) = End /\ at(i + 1) = received[head]
      <4>1. i + 1 \in 1..n /\ head = r + 1 /\ r + (i + 1) = r + 1
        BY <1>2, <1>4, <2>2
      <4>2. at(i + 1) = received[r + (i + 1)]
        BY <1>7, <4>1
      <4>3. QED
        BY <1>7, <2>2, <4>1, <4>2
    <3>6. QED
      BY <3>3, <3>4, <3>5
  <2>3. CASE i > 0 /\ i < n
    <3>1. PICK k \in 1..last : k = r + i /\ k > relinked /\ k < last
      BY <1>0, <1>2, <1>4, <1>5, <2>3
    <3>2. k + 1 \in 1..last
      BY <1>0, <3>1
    <3>3. next[received[k]] = received[k + 1] /\ prev[received[k + 1]] = received[k]
      BY <1>0, <1>3, <3>1, <3>2 DEF Links
    <3>4. at(i) = received[k] /\ at(i + 1) = received[k + 1]
      <4>1. i + 1 \in 1..n /\ i \in 1..n /\ r + (i + 1) = k + 1
        BY <2>3, <3>1
      <4>2. at(i + 1) = received[r + (i + 1)] /\ at(i) = received[r + i]
        BY <1>7, <4>1
      <4>3. QED
        BY <3>1, <4>1, <4>2
    <3>5. QED
      BY <3>3, <3>4
  <2>4. CASE i > 0 /\ i = n
    <3>1. last \in 1..last /\ r + i = last /\ last > relinked
      BY <1>0, <1>2, <1>4, <1>5, <2>4
    <3>2. next[received[last]] = End
      BY <1>0, <1>3, <3>1 DEF Nexts
    <3>3. prev[End] = received[last]
      BY <1>0, <1>1, <1>2, <3>1 DEF Last
    <3>4. at(i) = received[last] /\ at(i + 1) = End
      <4>1. i \in 1..n
        BY <2>4
      <4>2. at(i) = received[r + i] /\ at(n + 1) = End
        BY <1>7, <4>1
      <4>3. QED
        BY <2>4, <3>1, <4>2
    <3>5. QED
      BY <3>2, <3>3, <3>4
  <2>5. QED
    <3> HIDE DEF at
    <3>1. QED
      BY <2>1, <2>2, <2>3, <2>4
<1>10. QED
  BY <1>6, <1>8, <1>9 DEF ListIntact, waiting

\* While calls and worker take turns: whenever neither push_back nor
\* pop_front is at work, the list is the received tasks that have not been
\* removed, linked both ways, and its size is their number.
THEOREM ListSafety == Spec => []ListIntact
<1>1. Inv => ListIntact
  <2>1. CASE ~overlap /\ mutex = NoTask /\ worker \notin PopStates
    BY <2>1, Intact DEF Inv
  <2>2. CASE ~(~overlap /\ mutex = NoTask /\ worker \notin PopStates)
    BY <2>2 DEF ListIntact
  <2>3. QED
    BY <2>1, <2>2
<1>2. QED
  BY <1>1, Safety, PTL

\* The numbers stay within the number of calls, also where a race has made
\* the size wrong: it never wraps below zero.
THEOREM TypeSafety ==
    ASSUME IsFiniteSet(Tasks)
    PROVE  Spec => []TypeOK
<1>1. Inv => TypeOK
  <2> SUFFICES ASSUME Inv PROVE TypeOK
    OBVIOUS
  <2>1. PICK n \in Nat : n = last
    BY DEF Inv, Typed, last
  <2>2. PICK f : f = received
    OBVIOUS
  <2>3. f \in Injection(1..n, Tasks)
    <3>1. f \in [1..n -> Tasks]
      BY <2>1, <2>2 DEF Inv, Typed, last
    <3>2. \A a, b \in 1..n : f[a] = f[b] => a = b
      BY <2>1, <2>2 DEF Inv, Bounded
    <3>3. QED
      BY <3>1, <3>2 DEF Injection, IsInjective
  <2>4. n <= Cardinality(Tasks)
    <3>1. Cardinality(1..n) = n
      BY FS_Interval
    <3>2. Cardinality(1..n) <= Cardinality(Tasks)
      BY <2>3, FS_Injection
    <3>3. QED
      BY <3>1, <3>2
  <2>5. Cardinality(Tasks) \in Nat
    BY FS_CardinalityType
  <2>6. /\ size \in 0..Cardinality(Tasks) /\ pushSize \in 0..Cardinality(Tasks)
        /\ popSize \in 0..Cardinality(Tasks)
    BY <2>1, <2>4, <2>5 DEF Inv, Typed, Bounded
  <2>7. QED
    BY <2>6 DEF Inv, Typed, TypeOK
<1>2. QED
  BY <1>1, Safety, PTL
===============================================================================
