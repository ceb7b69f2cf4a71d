----------------------------- MODULE SerialQueue ------------------------------
(***************************************************************************)
(* What FMDatabaseQueue promises (FMDatabaseQueue.h:54): tasks run one at  *)
(* a time, each at most once, "in the order they are received", and none   *)
(* once the queue is closed.                                               *)
(***************************************************************************)
EXTENDS Naturals, Sequences

CONSTANT Tasks       \* the blocks given to the queue, each of them once

VARIABLES received,  \* the tasks, in the order in which put() got them
          executed,  \* the tasks that were started, in that order
          closed     \* close() has returned

queueVars == <<received, executed, closed>>

Init ==
    /\ received = <<>>
    /\ executed = <<>>
    /\ closed = FALSE

Receive(t) ==
    /\ \A i \in DOMAIN received : received[i] # t
    /\ received' = Append(received, t)
    /\ UNCHANGED <<executed, closed>>

\* Start the first task that has not been started.
Execute ==
    /\ ~closed
    /\ Len(executed) < Len(received)
    /\ executed' = Append(executed, received[Len(executed) + 1])
    /\ UNCHANGED <<received, closed>>

Close ==
    /\ closed' = TRUE
    /\ UNCHANGED <<received, executed>>

Next ==
    \/ \E t \in Tasks : Receive(t)
    \/ Execute
    \/ Close

Spec == Init /\ [][Next]_queueVars
===============================================================================
