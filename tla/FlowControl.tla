---------------------------- MODULE FlowControl ----------------------------
(***************************************************************************)
(* Enabling, disabling and flow control of portal table entries: ptl_pt.c, *)
(* the parts of the target state machine that use pt->state and            *)
(* pt->num_tgt_active (ptl_tgt.c), and the overflow handling of ptl_eq.c.  *)
(* All entries have PTL_PT_FLOWCTRL and share one event queue.  Which list *)
(* entry a message matches is left open here (see TargetMatching).         *)
(*                                                                         *)
(* One step is one critical section of pt->lock.  process_overflowing()    *)
(* has the queue's lock only: for each entry its test of pt->state and its *)
(* store are two steps, and the calls and messages come between.           *)
(* The progress thread runs one message at a time; a message leaves it for *)
(* another one only while it waits for its data.                           *)
(***************************************************************************)
EXTENDS Integers, Sequences, FiniteSets

CONSTANTS
    PT,        \* portal table entries
    Buf,       \* message bufs at the target
    Workloads  \* what an application does, one record for each:
               \*   calls  the calls it makes
               \*   pts    the entries it has allocated
               \*   bufs   how many messages are in flight
               \*   count  eq->count_simple: the count given to PtlEQAlloc
               \*   max    bound: no message arrives while the queue is this long
               \*   late   messages may reach an entry that is not enabled

VARIABLES
    load,            \* the workload; it does not change
    state,           \* state[p]: the flags of pt->state; {} is PT_ENABLED
    num_tgt_active,  \* num_tgt_active[p]
    tgt,             \* tgt[b]: where buf b is in process_tgt(), its buf->pt
                     \* and whether it was counted in num_tgt_active (history)
    eq,              \* the events in the queue, oldest first
    overflow,        \* process_overflowing(): the entries it has to test, and
                     \* the one it found enabled (with eq->lock held)
    disabling,       \* disabling[p]: a call of PtlPTDisable waits
    known            \* what the application knows about p: "on", "reported"
                     \* (it read PTL_EVENT_PT_DISABLED) or "off" (PtlPTDisable
                     \* has returned)

vars == <<load, state, num_tgt_active, tgt, eq, overflow, disabling, known>>

DISABLED == "DISABLED"
AUTO_DISABLED == "AUTO_DISABLED"

Enabled(p) == state[p] = {}

\* PtlPTAlloc
Init ==
    /\ load \in Workloads
    /\ state = [p \in PT |-> {}]
    /\ num_tgt_active = [p \in PT |-> 0]
    /\ tgt = [b \in Buf |-> [st |-> "done", pt |-> CHOOSE p \in PT : TRUE,
                             counted |-> FALSE]]
    /\ eq = <<>>
    /\ overflow = [todo |-> {}, found |-> {}]
    /\ disabling = [p \in PT |-> FALSE]
    /\ known = [p \in PT |-> "on"]

At(b, st) == tgt[b].st = st
Goto(b, st) == tgt' = [tgt EXCEPT ![b].st = st]

-----------------------------------------------------------------------------
(* The event queue *)

Event(type, p) == [type |-> type, pt |-> p]

\* eq->lock is free.
EqUnlocked == overflow.todo = {} /\ overflow.found = {}

\* Mutant: the overflow is noticed one event late.
make_target_event_OffByOne(e) ==
    /\ EqUnlocked
    /\ eq' = Append(eq, e)
    /\ overflow' = IF Len(eq) = load.count THEN [overflow EXCEPT !.todo = load.pts]
                                           ELSE overflow

\* make_target_event(): reserve_ev(); process_overflowing() starts when the
\* last unreserved entry was taken.
make_target_event(e) ==
    /\ EqUnlocked
    /\ eq' = Append(eq, e)
    /\ overflow' = IF Len(eq) + 1 = load.count THEN [overflow EXCEPT !.todo = load.pts]
                                               ELSE overflow

\* process_overflowing(): if (pt->state == PT_ENABLED) ...
OverflowTest(p) ==
    /\ p \in overflow.todo /\ overflow.found = {}
    /\ overflow' = [todo |-> overflow.todo \ {p},
                    found |-> IF Enabled(p) THEN {p} ELSE {}]
    /\ UNCHANGED <<load, state, num_tgt_active, tgt, eq, disabling, known>>

\* ... then it is stopped, with an event in a reserved entry.
OverflowStop(p) ==
    /\ p \in overflow.found
    /\ overflow' = [overflow EXCEPT !.found = {}]
    /\ state' = [state EXCEPT ![p] = {AUTO_DISABLED}]
    /\ eq' = Append(eq, Event("PT_DISABLED", p))
    /\ UNCHANGED <<load, num_tgt_active, tgt, disabling, known>>

\* PtlEQGet
PtlEQGet ==
    /\ "get" \in load.calls
    /\ eq # <<>>
    /\ eq' = Tail(eq)
    /\ known' = IF Head(eq).type = "PT_DISABLED" /\ known[Head(eq).pt] = "on"
                  THEN [known EXCEPT ![Head(eq).pt] = "reported"] ELSE known
    /\ UNCHANGED <<load, state, num_tgt_active, tgt, overflow, disabling>>

-----------------------------------------------------------------------------
(* The target state machine *)

\* The progress thread has no message in hand.
Idle == \A b \in Buf : tgt[b].st \in {"data", "done"}

\* A message for p arrives.  buf->pt is set before the state of the entry is
\* tested.
tgt_start(b, p) ==
    /\ Idle
    /\ At(b, "done")
    /\ b \in load.bufs /\ p \in load.pts
    /\ Len(eq) < load.max
    /\ load.late \/ Enabled(p)
    /\ num_tgt_active' = IF Enabled(p) THEN [num_tgt_active EXCEPT ![p] = @ + 1]
                                       ELSE num_tgt_active
    /\ tgt' = [tgt EXCEPT ![b] = [st |-> IF Enabled(p) THEN "match" ELSE "cleanup",
                                  pt |-> p, counted |-> Enabled(p)]]
    /\ UNCHANGED <<load, state, eq, overflow, disabling, known>>

\* tgt_get_match(): a match, and the data phases ...
Match(b) ==
    /\ At(b, "match")
    /\ Goto(b, "data")
    /\ UNCHANGED <<load, state, num_tgt_active, eq, overflow, disabling, known>>

\* ... or no match, or no unexpected header is left.
Exhausted(b) ==
    /\ At(b, "match")
    /\ state' = [state EXCEPT ![tgt[b].pt] = @ \cup {AUTO_DISABLED}]
    /\ Goto(b, "cleanup")
    /\ UNCHANGED <<load, num_tgt_active, eq, overflow, disabling, known>>

\* The data is there.
tgt_data_in(b) ==
    /\ Idle
    /\ At(b, "data")
    /\ Goto(b, "comm_event")
    /\ UNCHANGED <<load, state, num_tgt_active, eq, overflow, disabling, known>>

tgt_comm_event(b) ==
    /\ At(b, "comm_event")
    /\ make_target_event(Event("COMM", tgt[b].pt))
    /\ Goto(b, "cleanup")
    /\ UNCHANGED <<load, state, num_tgt_active, disabling, known>>

\* The body of tgt_cleanup() for a count n, with last saying that the entry has
\* just become inactive.
Leave(b, n, last) ==
    /\ At(b, "cleanup")
    /\ num_tgt_active' = [num_tgt_active EXCEPT ![tgt[b].pt] = n]
    /\ state' = IF last THEN [state EXCEPT ![tgt[b].pt] = {DISABLED}] ELSE state
    /\ tgt' = [tgt EXCEPT ![b].st = IF last THEN "disabled_event" ELSE "done",
                          ![b].counted = FALSE]
    /\ UNCHANGED <<load, eq, overflow, disabling, known>>

\* The critical section of tgt_cleanup().  It also runs for a message that
\* tgt_start() dropped, because buf->pt is set.
tgt_cleanup(b) ==
    LET p == tgt[b].pt
        n == num_tgt_active[p] - 1
    IN  Leave(b, n, AUTO_DISABLED \in state[p] /\ n = 0)

\* The event is posted after the lock was released.
PostDisabled(b) ==
    /\ At(b, "disabled_event")
    /\ make_target_event(Event("PT_DISABLED", tgt[b].pt))
    /\ Goto(b, "done")
    /\ UNCHANGED <<load, state, num_tgt_active, disabling, known>>

-----------------------------------------------------------------------------
(* The application *)

PtlPTDisable(p) ==
    /\ "disable" \in load.calls
    /\ p \in load.pts /\ ~disabling[p]
    /\ known[p] # "off"
    /\ state' = [state EXCEPT ![p] = {DISABLED}]
    /\ disabling' = [disabling EXCEPT ![p] = TRUE]
    /\ UNCHANGED <<load, num_tgt_active, tgt, eq, overflow, known>>

\* Mutant: PtlPTDisable does not wait.
PtlPTDisableReturn_NoWait(p) ==
    /\ disabling[p]
    /\ disabling' = [disabling EXCEPT ![p] = FALSE]
    /\ known' = [known EXCEPT ![p] = "off"]
    /\ UNCHANGED <<load, state, num_tgt_active, tgt, eq, overflow>>

\* while (pt->num_tgt_active)
PtlPTDisableReturn(p) ==
    /\ disabling[p]
    /\ num_tgt_active[p] = 0
    /\ disabling' = [disabling EXCEPT ![p] = FALSE]
    /\ known' = [known EXCEPT ![p] = "off"]
    /\ UNCHANGED <<load, state, num_tgt_active, tgt, eq, overflow>>

\* The application enables an entry that it knows to be disabled.
PtlPTEnable(p) ==
    /\ "enable" \in load.calls
    /\ ~disabling[p]
    /\ known[p] # "on"
    /\ state' = [state EXCEPT ![p] = {}]
    /\ num_tgt_active' = [num_tgt_active EXCEPT ![p] = 0]
    /\ known' = [known EXCEPT ![p] = "on"]
    /\ UNCHANGED <<load, tgt, eq, overflow, disabling>>

-----------------------------------------------------------------------------
process_tgt(b) ==
    \/ Match(b) \/ Exhausted(b) \/ tgt_data_in(b)
    \/ tgt_comm_event(b) \/ tgt_cleanup(b) \/ PostDisabled(b)

\* No message may arrive any more, and the application may make no more calls.
Quiescent == (\A b \in Buf : At(b, "done")) /\ UNCHANGED vars

Next ==
    \/ PtlEQGet
    \/ \E b \in Buf : process_tgt(b) \/ \E p \in PT : tgt_start(b, p)
    \/ \E p \in PT : OverflowTest(p) \/ OverflowStop(p)
    \/ \E p \in PT : PtlPTDisable(p) \/ PtlPTDisableReturn(p) \/ PtlPTEnable(p)
    \/ Quiescent

Spec == Init /\ [][Next]_vars

\* The progress thread goes on with every message (it polls the lists of the
\* waiting ones on each turn, so none is passed over for ever), the loop of PtlPTDisable
\* polls, and the application reads its events.
FairSpec ==
    /\ Spec
    /\ \A b \in Buf : SF_vars(process_tgt(b))
    /\ \A p \in PT : WF_vars(OverflowTest(p)) /\ WF_vars(OverflowStop(p))
    /\ \A p \in PT : WF_vars(PtlPTDisableReturn(p))
    /\ WF_vars(PtlEQGet)

-----------------------------------------------------------------------------
(* Properties *)

Active(p) == {b \in Buf : tgt[b].pt = p /\ tgt[b].counted}

\* Type correctness; the count of active messages never goes below zero when
\* no message is addressed to a disabled entry.
TypeOK ==
    /\ load \in Workloads
    /\ state \in [PT -> SUBSET {DISABLED, AUTO_DISABLED}]
    /\ num_tgt_active \in [PT -> Nat]
    /\ tgt \in [Buf -> [st : {"match", "data", "comm_event",
                              "cleanup", "disabled_event", "done"},
                        pt : PT, counted : BOOLEAN]]
    /\ eq \in Seq([type : {"COMM", "PT_DISABLED"}, pt : PT])
    /\ overflow \in [todo : SUBSET PT, found : SUBSET PT]
    /\ disabling \in [PT -> BOOLEAN]
    /\ known \in [PT -> {"on", "reported", "off"}]

\* ptl_pt.h: num_tgt_active is the "number of currently active target
\* transactions on pt".
ActiveCountExact == \A p \in PT : num_tgt_active[p] = Cardinality(Active(p))

\* When PtlPTDisable has returned, "all messages being actively processed are
\* completed" (portals4.h), up to the event of tgt_cleanup().
ActiveDone == \A p \in PT : known[p] = "off" => Active(p) = {}

\* ptl_eq.c: "If all unreserved entries are used, then the queue is
\* overflowing", and every entry with flow control is stopped: none accepts
\* messages whose events the queue may have no room for.
OverflowStops == EqUnlocked /\ Len(eq) >= load.count => \A p \in load.pts : ~Enabled(p)

\* An entry that was disabled because a resource is exhausted does not stay so
\* unnoticed: an application that reads its events learns of it from
\* PTL_EVENT_PT_DISABLED, or has disabled the entry itself.
AutoDisableReported ==
    "get" \in load.calls => \A p \in PT : (AUTO_DISABLED \in state[p]) ~> (known[p] # "on")

\* PtlPTDisable returns.
DisableReturns == \A p \in PT : disabling[p] ~> ~disabling[p]
=============================================================================
