----------------------------- MODULE FifoQueue -----------------------------
(***************************************************************************)
(* What enqueue() and dequeue() of ptl_queue.c promise their callers: a    *)
(* first-in first-out queue with many senders and one receiver.  A sender  *)
(* appends an object that is not in the queue; the receiver gets the       *)
(* oldest object, and each object once.                                    *)
(***************************************************************************)
EXTENDS Sequences, Naturals

CONSTANTS Obj,      \* the objects (bufs) that travel through the queue
          NULL      \* the null offset

VARIABLES queue,    \* the objects in the queue, oldest first
          got       \* the object the receiver was last given, or NULL

fifoVars == <<queue, got>>

InQueue(o) == \E i \in 1..Len(queue) : queue[i] = o

Init == queue = <<>> /\ got = NULL

Enqueue(o) ==
    /\ ~InQueue(o)
    /\ o # got
    /\ queue' = Append(queue, o)
    /\ UNCHANGED got

Dequeue ==
    /\ queue # <<>>
    /\ got = NULL
    /\ got' = Head(queue)
    /\ queue' = Tail(queue)

\* The receiver is done with the object it was given.
Finish ==
    /\ got # NULL
    /\ got' = NULL
    /\ UNCHANGED queue

Next == Dequeue \/ Finish \/ \E o \in Obj : Enqueue(o)

Spec == Init /\ [][Next]_fifoVars
=============================================================================
