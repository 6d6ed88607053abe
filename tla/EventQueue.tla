----------------------------- MODULE EventQueue -----------------------------
(***************************************************************************)
(* An event queue (ptl_eq.c, ptl_eq_common.c): the circular buffer that    *)
(* the library writes events to and that application threads read with     *)
(* PtlEQGet, PtlEQWait and PtlEQPoll; the calls that wait for a counting   *)
(* event, PtlCTWait and PtlCTPoll (ptl_ct.c, ptl_ct_common.c); and the     *)
(* abort flag of ptl_gbl.h that makes the threads in all of them return.   *)
(*                                                                         *)
(* The payload of an event is its serial number.  A writer holds           *)
(* eqe_list->lock from reserve_ev() until the event is filled in, so       *)
(* posting an event is one step.  Readers test for an empty queue without  *)
(* the lock.  Of a counting event only matters here whether it is at the   *)
(* threshold that the calls wait for; how it is counted is in              *)
(* CountingEvent.  Flow control is in FlowControl.                         *)
(***************************************************************************)
EXTENDS Integers, FiniteSets

CONSTANTS
    Count,      \* eqe_list->count
    Thread,     \* application threads
    Workloads,  \* the calls that are made (calls), and the number of events
                \* posted (events, a bound)
    NULL

Calls == {"get", "wait", "poll", "ctwait", "ctpoll"}
CTCalls == {"ctwait", "ctpoll"}

ASSUME CountAssumption == Count \in Nat \ {0}
ASSUME WorkloadsAssumption ==
    \A w \in Workloads : w.events \in Nat /\ w.calls \subseteq Calls
ASSUME NullAssumption == NULL \notin Thread

VARIABLES
    producer, prod_gen, consumer, cons_gen, used, \* struct eqe_list
    eqe,          \* eqe[i]: the entries
    lock,         \* the reader that holds the lock, or NULL
    pc,           \* pc[t]: where thread t is
    call,         \* call[t]: the call it is in
    dropped,      \* its local variable (only the lock holder's matters)
    aborted, abort_count,  \* struct ptl_abort_state
    reached,      \* the counting event is at the threshold, or has failures
    load,         \* the workload
    posted,       \* history: the number of events posted
    start,        \* history: the event the current read started from
    last          \* history: the event that was read last

vars == <<producer, prod_gen, consumer, cons_gen, used, eqe, lock, pc, call,
          dropped, aborted, abort_count, reached, load, posted, start, last>>

producerVars == <<producer, prod_gen, posted, reached, load>>
consumerVars == <<consumer, cons_gen, start, dropped, last>>
abortVars == <<aborted, abort_count>>

Index == 0..(Count - 1)

\* PtlEQAlloc
Init ==
    /\ producer = 0 /\ prod_gen = 0
    /\ consumer = 0 /\ cons_gen = 0
    /\ used = 0
    /\ eqe = [i \in Index |-> [generation |-> 0, event |-> 0]]
    /\ lock = NULL
    /\ pc = [t \in Thread |-> "idle"]
    /\ call = [t \in Thread |-> "get"]
    /\ dropped = FALSE
    /\ aborted = FALSE /\ abort_count = 0
    /\ reached = FALSE /\ load \in Workloads
    /\ posted = 0 /\ start = 0
    /\ last = [event |-> 0, dropped |-> FALSE]

is_queue_empty == producer = consumer /\ prod_gen = cons_gen

-----------------------------------------------------------------------------
(* Posting an event *)

\* make_init_event, make_target_event, make_le_event, send_target_event
reserve_ev ==
    /\ lock = NULL
    /\ posted < load.events
    /\ eqe' = [eqe EXCEPT ![producer] = [generation |-> prod_gen, event |-> posted]]
    /\ IF producer + 1 >= Count
         THEN producer' = 0 /\ prod_gen' = prod_gen + 1
         ELSE producer' = producer + 1 /\ UNCHANGED prod_gen
    /\ used' = used + 1
    /\ posted' = posted + 1
    /\ UNCHANGED <<consumerVars, lock, pc, call, abortVars, reached, load>>

\* ct_inc() and ct_set(), which can take the event below the threshold again.
count ==
    /\ load.calls \cap CTCalls # {}
    /\ reached' = ~reached
    /\ UNCHANGED <<producer, prod_gen, posted, load, consumerVars, used, eqe, lock,
                   pc, call, abortVars>>

-----------------------------------------------------------------------------
(* get_event() *)

Goto(t, l) == pc' = [pc EXCEPT ![t] = l]

\* Where a call goes when get_event() found the queue empty.
Retry(t) == IF call[t] = "get" THEN "idle" ELSE "abort"

\* Where it goes when an event was read.
Done(t) == IF call[t] = "get" THEN "idle" ELSE "leave"

GetEmpty(t) ==
    /\ pc[t] = "get"
    /\ lock = NULL
    /\ is_queue_empty
    /\ Goto(t, Retry(t))
    /\ UNCHANGED <<producerVars, consumerVars, used, eqe, lock, call, abortVars>>

GetLock(t) ==
    /\ pc[t] = "get"
    /\ lock = NULL
    /\ ~is_queue_empty
    /\ lock' = t
    /\ dropped' = FALSE
    /\ start' = cons_gen * Count + consumer
    /\ Goto(t, "advance")
    /\ UNCHANGED <<producerVars, consumer, cons_gen, last, used, eqe, call, abortVars>>

\* Move the consumer to the next entry.
Advance ==
    IF consumer + 1 >= Count
      THEN consumer' = 0 /\ cons_gen' = cons_gen + 1
      ELSE consumer' = consumer + 1 /\ UNCHANGED cons_gen

\* Mutant: a skipped entry is not given back.
GetSkip_NoUsed(t) ==
    /\ pc[t] = "advance"
    /\ cons_gen < eqe[consumer].generation
    /\ Advance
    /\ dropped' = TRUE
    /\ UNCHANGED <<producerVars, start, last, used, eqe, lock, pc, call, abortVars>>

\* Mutant: the first skipped entry is not reported.
GetSkip_Silent(t) ==
    /\ pc[t] = "advance"
    /\ cons_gen < eqe[consumer].generation
    /\ Advance
    /\ dropped' = (start # cons_gen * Count + consumer)
    /\ used' = used - 1
    /\ UNCHANGED <<producerVars, start, last, eqe, lock, pc, call, abortVars>>

\* The producer has lapped the consumer: skip an entry.
GetSkip(t) ==
    /\ pc[t] = "advance"
    /\ cons_gen < eqe[consumer].generation
    /\ Advance
    /\ dropped' = TRUE
    /\ used' = used - 1
    /\ UNCHANGED <<producerVars, start, last, eqe, lock, pc, call, abortVars>>

\* Return the event.
GetTake(t) ==
    /\ pc[t] = "advance"
    /\ ~(cons_gen < eqe[consumer].generation)
    /\ last' = [event |-> eqe[consumer].event, dropped |-> dropped]
    /\ Advance
    /\ used' = used - 1
    /\ lock' = NULL
    /\ Goto(t, Done(t))
    /\ UNCHANGED <<producerVars, start, dropped, eqe, call, abortVars>>

-----------------------------------------------------------------------------
(* PtlEQGet(), PtlEQWait(), PtlEQPoll(), PtlCTWait(), PtlCTPoll(), PtlAbort() *)

waitFrame == <<producerVars, consumerVars, used, eqe, lock>>

Begin(t, c, l) ==
    /\ pc[t] = "idle"
    /\ c \in load.calls
    /\ call' = [call EXCEPT ![t] = c]
    /\ Goto(t, l)
    /\ UNCHANGED <<waitFrame, abortVars>>

PtlEQGet(t) == Begin(t, "get", "get")

\* The first check_abort_state(): the call returns at once if it fails.
PtlEQWait(t) == ~aborted /\ Begin(t, "wait", "enter")
PtlEQPoll(t) == ~aborted /\ Begin(t, "poll", "enter")
PtlCTWait(t) == ~aborted /\ Begin(t, "ctwait", "enter")
PtlCTPoll(t) == ~aborted /\ Begin(t, "ctpoll", "enter")

\* PtlEQWait tests for an abort before it looks at the queue, the others after.
abort_state_inc(t) ==
    /\ pc[t] = "enter"
    /\ abort_count' = abort_count + 1
    /\ Goto(t, IF call[t] = "wait" THEN "abort" ELSE "check")
    /\ UNCHANGED <<waitFrame, call, aborted>>

check_abort_state(t) ==
    /\ pc[t] = "abort"
    /\ Goto(t, CASE aborted -> "leave"
                 [] ~aborted /\ call[t] \in {"wait", "ctwait"} -> "check"
                 [] ~aborted /\ call[t] \in {"poll", "ctpoll"} -> "timer")
    /\ UNCHANGED <<waitFrame, call, abortVars>>

\* PtlCTWait_work() and ct_poll_loop(): success >= threshold || failure.
CheckCount(t) ==
    /\ pc[t] = "check"
    /\ call[t] \in CTCalls
    /\ Goto(t, IF reached THEN "leave" ELSE "abort")
    /\ UNCHANGED <<waitFrame, call, abortVars>>

\* is_queue_empty() without the lock.
CheckQueue(t) ==
    /\ pc[t] = "check"
    /\ call[t] \notin CTCalls
    /\ Goto(t, IF is_queue_empty THEN "abort" ELSE "get")
    /\ UNCHANGED <<waitFrame, call, abortVars>>

\* The four reads of is_queue_empty() are not atomic: while a writer wraps,
\* producer is already 0 and prod_gen still the old generation.
CheckTorn(t) ==
    /\ pc[t] = "check"
    /\ call[t] \notin CTCalls
    /\ producer = 0 /\ consumer = 0 /\ prod_gen = cons_gen + 1
    /\ Goto(t, "abort")
    /\ UNCHANGED <<waitFrame, call, abortVars>>

Timeout(t) ==
    /\ pc[t] = "timer"
    /\ Goto(t, "leave")
    /\ UNCHANGED <<waitFrame, call, abortVars>>

NoTimeout(t) ==
    /\ pc[t] = "timer"
    /\ Goto(t, "check")
    /\ UNCHANGED <<waitFrame, call, abortVars>>

\* Mutant: the first thread that leaves ends the abort.
abort_state_dec_Early(t) ==
    /\ pc[t] = "leave"
    /\ abort_count' = abort_count - 1
    /\ aborted' = FALSE
    /\ Goto(t, "idle")
    /\ UNCHANGED <<waitFrame, call>>

\* The last thread that leaves ends the abort.
abort_state_dec(t) ==
    /\ pc[t] = "leave"
    /\ abort_count' = abort_count - 1
    /\ aborted' = IF abort_count = 1 THEN FALSE ELSE aborted
    /\ Goto(t, "idle")
    /\ UNCHANGED <<waitFrame, call>>

PtlAbort ==
    /\ aborted' = IF abort_count > 0 THEN TRUE ELSE aborted
    /\ UNCHANGED <<waitFrame, pc, call, abort_count>>

-----------------------------------------------------------------------------
enter(t) ==
    PtlEQGet(t) \/ PtlEQWait(t) \/ PtlEQPoll(t) \/ PtlCTWait(t) \/ PtlCTPoll(t)

get_event(t) == GetEmpty(t) \/ GetLock(t) \/ GetSkip(t) \/ GetTake(t)

step(t) ==
    \/ get_event(t)
    \/ abort_state_inc(t) \/ check_abort_state(t)
    \/ CheckCount(t) \/ CheckQueue(t) \/ CheckTorn(t) \/ Timeout(t) \/ NoTimeout(t)
    \/ abort_state_dec(t)

Next == reserve_ev \/ count \/ PtlAbort \/ \E t \in Thread : enter(t) \/ step(t)

Spec == Init /\ [][Next]_vars

\* Threads inside a call keep running, the lock is a spin lock that is held
\* for a bounded time, and a torn read is not repeated for ever.
FairSpec ==
    Spec /\ \A t \in Thread : /\ WF_vars(step(t))
                              /\ SF_vars(GetEmpty(t) \/ GetLock(t))
                              /\ SF_vars(CheckQueue(t) /\ pc'[t] = "get")

-----------------------------------------------------------------------------
(* Properties *)

Label == {"idle", "get", "advance", "enter", "abort", "check", "timer", "leave"}

\* Type correctness of the queue and of the calls.
TypeOK ==
    /\ producer \in Index /\ consumer \in Index
    /\ prod_gen \in Nat /\ cons_gen \in Nat
    /\ used \in Nat
    /\ eqe \in [Index -> [generation : Nat, event : Nat]]
    /\ lock \in Thread \cup {NULL}
    /\ pc \in [Thread -> Label]
    /\ call \in [Thread -> Calls]
    /\ dropped \in BOOLEAN /\ aborted \in BOOLEAN
    /\ abort_count \in Nat
    /\ reached \in BOOLEAN /\ load \in Workloads
    /\ posted \in Nat /\ start \in Nat
    /\ last \in [event : Nat, dropped : BOOLEAN]

\* The number of the event the consumer is at.
Position == cons_gen * Count + consumer

\* used counts the events that are in the queue or were overrun and not yet
\* skipped: it never wraps below zero.
UsedIsBacklog == used = posted - Position

\* The queue implements the promise of PtlEQGet(): in order, at most once, the
\* oldest surviving event, and PTL_EQ_DROPPED exactly after a gap.
Stream == INSTANCE EventStream WITH
    Size <- Count, written <- posted, last <- last,
    read <- IF lock = NULL THEN Position ELSE start

ImplementsStream == Stream!Spec

\* abort_count is the number of threads inside the calls that wait, so that
\* the last one to leave, and no other, ends the abort.
AbortCountExact ==
    abort_count = Cardinality({t \in Thread :
        pc[t] \notin {"idle", "enter"} /\ call[t] # "get"})

\* The counters that several threads keep are exact (UsedIsBacklog,
\* AbortCountExact), and the indices in range (TypeOK): neither the overrun of
\* the queue nor an abort leaves one of them wrong.
CountsExact == TypeOK /\ UsedIsBacklog /\ AbortCountExact

\* Every thread that is inside a call that waits when PtlAbort() is called
\* returns, whichever of them leaves last and ends the abort.
AbortReturns ==
    \A t \in Thread : (aborted /\ pc[t] \in {"abort", "check", "timer"})
                         ~> pc[t] = "idle"

Ready(t) == IF call[t] \in CTCalls THEN reached ELSE ~is_queue_empty

\* Nobody waits for ever at a queue that has an event, or at a counting event
\* that stays at its threshold.
WaiterServed ==
    \A t \in Thread : (pc[t] = "check" /\ Ready(t)) ~> (~Ready(t) \/ pc[t] = "idle")

\* A wait ends, at an abort and when there is an event (AbortReturns,
\* WaiterServed; PtlEQWait, PtlEQPoll, PtlCTWait, PtlCTPoll and PtlAbort).
WaitsEnd == AbortReturns /\ WaiterServed
=============================================================================
