---------------------------- MODULE SharedQueue ----------------------------
(***************************************************************************)
(* The shared-memory message queue of ptl_queue.c: enqueue() and dequeue() *)
(* as shmem_enqueue(), shmem_dequeue() and the progress thread use them.   *)
(* Many processes enqueue, one progress thread dequeues, and no lock is    *)
(* taken.  One step is one access to shared memory.                        *)
(*                                                                         *)
(* An object that was dequeued goes back to a pool (or to its owner), where *)
(* its next field is used for other lists, and is sent again later.        *)
(***************************************************************************)
EXTENDS Sequences, Naturals

CONSTANTS Producer, \* the threads that call shmem_enqueue
          Obj,      \* the bufs of the comm pad
          NULL      \* offset 0

ASSUME NullAssumption == NULL \notin Obj

VARIABLES
    head, tail, shadow_head, \* queue_t
    next,      \* next[o]: obj_t.next
    free,      \* the objects that are in no queue and in nobody's hands
    pc,        \* pc[p]: where producer p is in enqueue()
    obj,       \* obj[p]: its argument
    off_prev,  \* off_prev[p]: its local
    cpc,       \* where the consumer is in dequeue()
    cobj,      \* its local obj
    ret,       \* the object dequeue() last returned and the consumer holds
    fifo       \* history: the objects swapped into tail and not returned yet

vars == <<head, tail, shadow_head, next, free, pc, obj, off_prev, cpc, cobj,
          ret, fifo>>

producerVars == <<pc, obj, off_prev>>
consumerVars == <<shadow_head, cpc, cobj, ret>>

queue_init ==
    /\ head = NULL
    /\ tail = NULL
    /\ shadow_head = NULL

Init ==
    /\ queue_init
    /\ next = [o \in Obj |-> NULL]
    /\ free = Obj
    /\ pc = [p \in Producer |-> "idle"]
    /\ obj = [p \in Producer |-> NULL]
    /\ off_prev = [p \in Producer |-> NULL]
    /\ cpc = "idle"
    /\ cobj = NULL
    /\ ret = NULL
    /\ fifo = <<>>

-----------------------------------------------------------------------------
(* enqueue() *)

\* shmem_enqueue: buf->obj.next = NULL before the object is enqueued.
shmem_enqueue(p, o) ==
    /\ pc[p] = "idle"
    /\ o \in free
    /\ free' = free \ {o}
    /\ next' = [next EXCEPT ![o] = NULL]
    /\ obj' = [obj EXCEPT ![p] = o]
    /\ pc' = [pc EXCEPT ![p] = "swap"]
    /\ UNCHANGED <<head, tail, off_prev, consumerVars, fifo>>

\* off_prev = atomic_swap_ptr(&queue->tail, off)
SwapTail(p) ==
    /\ pc[p] = "swap"
    /\ off_prev' = [off_prev EXCEPT ![p] = tail]
    /\ tail' = obj[p]
    /\ pc' = [pc EXCEPT ![p] = "link"]
    /\ fifo' = Append(fifo, obj[p])
    /\ UNCHANGED <<head, next, free, obj, consumerVars>>

\* The queue was empty: publish the object in head, else in its predecessor.
Link(p) ==
    /\ pc[p] = "link"
    /\ IF off_prev[p] = NULL
         THEN head' = obj[p] /\ UNCHANGED next
         ELSE next' = [next EXCEPT ![off_prev[p]] = obj[p]] /\ UNCHANGED head
    /\ pc' = [pc EXCEPT ![p] = "idle"]
    /\ obj' = [obj EXCEPT ![p] = NULL]
    /\ off_prev' = [off_prev EXCEPT ![p] = NULL]
    /\ UNCHANGED <<tail, free, consumerVars, fifo>>

-----------------------------------------------------------------------------
(* dequeue() *)

\* dequeue() returns o to the progress thread.
Return(o) ==
    /\ cpc' = "idle"
    /\ cobj' = NULL
    /\ ret' = o
    /\ fifo' = Tail(fifo)

\* if (!queue->shadow_head): take the list that head publishes.
TakeHead ==
    /\ cpc = "idle"
    /\ ret = NULL
    /\ shadow_head = NULL
    /\ head # NULL
    /\ shadow_head' = head
    /\ cpc' = "clearhead"
    /\ UNCHANGED <<head, tail, next, free, producerVars, cobj, ret, fifo>>

\* if (!queue->head) return NULL
DequeueEmpty ==
    /\ cpc = "idle"
    /\ ret = NULL
    /\ shadow_head = NULL
    /\ head = NULL
    /\ UNCHANGED vars

ClearHead ==
    /\ cpc = "clearhead"
    /\ head' = NULL
    /\ cpc' = "next"
    /\ cobj' = shadow_head
    /\ UNCHANGED <<tail, shadow_head, next, free, producerVars, ret, fifo>>

\* A further object of the list taken earlier.
TakeShadow ==
    /\ cpc = "idle"
    /\ ret = NULL
    /\ shadow_head # NULL
    /\ cobj' = shadow_head
    /\ cpc' = "next"
    /\ UNCHANGED <<head, tail, shadow_head, next, free, producerVars, ret, fifo>>

\* Mutant: shadow_head is not moved past the object.
ReadNext_Stay ==
    /\ cpc = "next"
    /\ shadow_head' = IF next[cobj] # NULL THEN shadow_head ELSE NULL
    /\ cpc' = IF next[cobj] # NULL THEN "clearnext" ELSE "cas"
    /\ UNCHANGED <<head, tail, next, free, producerVars, cobj, ret, fifo>>

\* if (obj->next) shadow_head = obj->next else shadow_head = 0
ReadNext ==
    /\ cpc = "next"
    /\ shadow_head' = next[cobj]
    /\ cpc' = IF next[cobj] # NULL THEN "clearnext" ELSE "cas"
    /\ UNCHANGED <<head, tail, next, free, producerVars, cobj, ret, fifo>>

\* obj->next = NULL; return obj
ClearNext ==
    /\ cpc = "clearnext"
    /\ next' = [next EXCEPT ![cobj] = NULL]
    /\ Return(cobj)
    /\ UNCHANGED <<head, tail, shadow_head, free, producerVars>>

\* The last object: __sync_val_compare_and_swap(&queue->tail, obj, 0)
CasTailOk ==
    /\ cpc = "cas"
    /\ tail = cobj
    /\ tail' = NULL
    /\ Return(cobj)
    /\ UNCHANGED <<head, shadow_head, next, free, producerVars>>

\* Mutant: the last object is returned without waiting for the late link.
CasTailFail_NoWait ==
    /\ cpc = "cas"
    /\ tail # cobj
    /\ Return(cobj)
    /\ UNCHANGED <<head, tail, shadow_head, next, free, producerVars>>

CasTailFail ==
    /\ cpc = "cas"
    /\ tail # cobj
    /\ cpc' = "spin"
    /\ UNCHANGED <<head, tail, shadow_head, next, free, producerVars, cobj, ret,
                   fifo>>

\* Mutant: the object that was linked late is not remembered.
SpinNext_Forget ==
    /\ cpc = "spin"
    /\ next[cobj] # NULL
    /\ cpc' = "clearnext"
    /\ UNCHANGED <<head, tail, shadow_head, next, free, producerVars, cobj, ret,
                   fifo>>

\* while (obj->next == NULL) SPINLOCK_BODY(): a producer is about to link.
SpinNext ==
    /\ cpc = "spin"
    /\ next[cobj] # NULL
    /\ shadow_head' = next[cobj]
    /\ cpc' = "clearnext"
    /\ UNCHANGED <<head, tail, next, free, producerVars, cobj, ret, fifo>>

\* The progress thread is done with the object.  The pool's free list, or
\* another queue, may leave anything in its next field (ll_enqueue_obj).
buf_put(v) ==
    /\ cpc = "idle"
    /\ ret # NULL
    /\ next' = [next EXCEPT ![ret] = v]
    /\ free' = free \cup {ret}
    /\ ret' = NULL
    /\ UNCHANGED <<head, tail, shadow_head, producerVars, cpc, cobj, fifo>>

-----------------------------------------------------------------------------
enqueue(p) == SwapTail(p) \/ Link(p)

dequeue ==
    \/ DequeueEmpty \/ TakeHead \/ ClearHead \/ TakeShadow
    \/ ReadNext \/ ClearNext \/ CasTailOk \/ CasTailFail \/ SpinNext

Next ==
    \/ \E p \in Producer : enqueue(p) \/ \E o \in Obj : shmem_enqueue(p, o)
    \/ dequeue
    \/ \E v \in Obj \cup {NULL} : buf_put(v)

Spec == Init /\ [][Next]_vars

\* A producer in enqueue() is a running thread, and the progress thread polls
\* its queue for ever; whether anything is sent is up to the application.
Fairness ==
    /\ \A p \in Producer : WF_vars(enqueue(p))
    /\ WF_vars(dequeue)
    /\ WF_vars(\E v \in Obj \cup {NULL} : buf_put(v))

FairSpec == Spec /\ Fairness
-----------------------------------------------------------------------------
(* Properties *)

Queued(o) == \E i \in 1..Len(fifo) : fifo[i] = o

\* Type correctness; dequeue() never dereferences a null offset.
TypeOK ==
    /\ head \in Obj \cup {NULL}
    /\ tail \in Obj \cup {NULL}
    /\ shadow_head \in Obj \cup {NULL}
    /\ next \in [Obj -> Obj \cup {NULL}]
    /\ free \subseteq Obj
    /\ pc \in [Producer -> {"idle", "swap", "link"}]
    /\ obj \in [Producer -> Obj \cup {NULL}]
    /\ off_prev \in [Producer -> Obj \cup {NULL}]
    /\ cpc \in {"idle", "clearhead", "next", "clearnext", "cas", "spin"}
    /\ cobj \in Obj \cup {NULL}
    /\ ret \in Obj \cup {NULL}
    /\ fifo \in Seq(Obj)
    /\ cpc \in {"next", "clearnext", "cas", "spin"} => cobj # NULL

\* An object that a producer still has to link to (off_prev in enqueue()) has
\* not been returned by dequeue(): its next field is not written after the
\* object went back to its pool.
PredecessorStillQueued ==
    \A p \in Producer :
        pc[p] = "link" /\ off_prev[p] # NULL => Queued(off_prev[p])

\* The store of enqueue() that publishes an object never overwrites an object
\* that was published in the same place and not taken yet: what head or
\* prev->next held is NULL.
LinkLosesNothing ==
    \A p \in Producer :
        pc[p] = "link" =>
            IF off_prev[p] = NULL THEN head = NULL
                                  ELSE next[off_prev[p]] = NULL

\* enqueue() and dequeue() implement a queue: objects come out in the order in
\* which they were swapped into tail, each once, none lost or invented.
Fifo == INSTANCE FifoQueue WITH queue <- fifo, got <- ret

ImplementsFifo == Fifo!Spec

\* Every object swapped into tail is returned by some later dequeue(): no
\* interleaving leaves it unreachable from head and shadow_head.
EventuallyDequeued == \A o \in Obj : Queued(o) ~> ret = o
=============================================================================
