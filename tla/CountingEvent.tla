--------------------------- MODULE CountingEvent ---------------------------
(***************************************************************************)
(* Counting events and triggered operations: ptl_ct.c and the parts of     *)
(* ptl_move.c that post triggered operations.  Application threads and the *)
(* progress thread run concurrently; a thread in ct_check() drops the      *)
(* lock of the counting event while it performs an operation, which may    *)
(* change another counting event and check that one in turn, so each       *)
(* thread has a stack of calls.                                            *)
(*                                                                         *)
(* The value of a counting event is success + failure, which is what       *)
(* triggers.  A triggered operation is a move (process_init(), which does  *)
(* not touch the counting events modelled here), or an increment or a set  *)
(* of another counting event.                                              *)
(***************************************************************************)
EXTENDS Integers, Sequences, FiniteSets

CONSTANTS
    CT,        \* the objects of the ct pool
    Thread,    \* application threads and the progress thread
    Op,        \* the bufs of triggered operations
    MaxCount,  \* bound: the application stops incrementing here
    Workloads, \* what the application does: which calls each thread makes
               \* in a behaviour, how many bufs there are, and the limit
               \* max_triggered_ops of the interface
    MaxKept,   \* bound: refused calls that keep their references
    NULL

Kind == {"inc", "event", "set", "move", "triginc", "trigset", "cancel", "free"}
ASSUME WorkloadsAssumption ==
    Workloads \subseteq [calls : [Thread -> SUBSET Kind], bufs : SUBSET Op,
                         max_triggered_ops : Nat]
ASSUME MaxCountAssumption == MaxCount \in Nat /\ MaxKept \in Nat

VARIABLES
    obj,        \* obj[c]: "free" (in the pool), "live" or "zombie" (freed,
                \* but references remain)
    ref_cnt,    \* ref_cnt[c]: references on c
    event,      \* event[c]: success + failure
    interrupt,  \* interrupt[c]
    lock,       \* lock[c]: the thread that holds ct->lock, or NULL
    trig_list,  \* trig_list[c]: pending operations, oldest first
    list_size,  \* list_size[c]: the counter read without the lock
    trig_list_tmp, \* trig_list_tmp[c]: the cursor that all checks of c share
    op,         \* op[o]: a triggered operation
    stack,      \* stack[t]: the calls thread t is in, innermost first
    kept,       \* kept[c]: references that refused calls never drop
    load        \* the workload of this behaviour

vars == <<obj, ref_cnt, event, interrupt, lock, trig_list, list_size,
          trig_list_tmp, op, stack, kept, load>>

\* st: "new" (not posted yet), "posting", "pending" (in trig_list),
\* "done" (performed), "kept" (performed, with the reference on its target
\* kept for ever) or "gone" (discarded)
NewOp == [st |-> "new", kind |-> "move", trig |-> NULL, ct |-> NULL,
          threshold |-> 0, val |-> 0]

\* pc: the next step; ct: the counting event it works on; put: the reference
\* it drops at the end; pos: the element ct_check() looks at; then: what
\* follows ct_check(); o: the operation it posts; val: the value ct_set() stores.
Frame(pc, c, p) ==
    [pc |-> pc, ct |-> c, put |-> p, pos |-> NULL, then |-> "ret",
     o |-> NULL, val |-> 0]

Init ==
    /\ obj = [c \in CT |-> "live"]
    /\ ref_cnt = [c \in CT |-> 1]
    /\ event = [c \in CT |-> 0]
    /\ interrupt = [c \in CT |-> FALSE]
    /\ lock = [c \in CT |-> NULL]
    /\ trig_list = [c \in CT |-> <<>>]
    /\ list_size = [c \in CT |-> 0]
    /\ trig_list_tmp = [c \in CT |-> NULL]
    /\ op = [o \in Op |-> NewOp]
    /\ stack = [t \in Thread |-> <<>>]
    /\ kept = [c \in CT |-> 0]
    /\ load \in Workloads

-----------------------------------------------------------------------------
(* Helpers *)

Idle(t) == stack[t] = <<>>
Top(t) == Head(stack[t])
At(t, pc) == ~Idle(t) /\ Top(t).pc = pc

\* Thread t goes on at pc in its innermost call.
Goto(t, pc) == stack' = [stack EXCEPT ![t][1].pc = pc]

\* Thread t calls f, and goes on at pc when f returns.
CallThen(t, pc, f) ==
    stack' = [stack EXCEPT ![t] = <<f, [Top(t) EXCEPT !.pc = pc]>> \o Tail(@)]

\* list_for_each_prev_safe walks from the oldest to the newest element; after
\* the newest comes the list head (NULL), and after the head the oldest.
After(c, x) ==
    LET l == trig_list[c]
    IN  IF x = NULL
          THEN IF l = <<>> THEN NULL ELSE Head(l)
          ELSE LET i == CHOOSE j \in 1..Len(l) : l[j] = x
               IN  IF i = Len(l) THEN NULL ELSE l[i + 1]

Without(c, x) == SelectSeq(trig_list[c], LAMBDA y : y # x)

\* ct_put n times: the last reference returns the object to the pool, where
\* ct_cleanup() resets it (but neither list_size nor the list).
ct_put(c, n) ==
    /\ ref_cnt' = [ref_cnt EXCEPT ![c] = @ - n]
    /\ IF ref_cnt[c] = n
         THEN /\ obj' = [obj EXCEPT ![c] = "free"]
              /\ event' = [event EXCEPT ![c] = 0]
              /\ interrupt' = [interrupt EXCEPT ![c] = FALSE]
         ELSE UNCHANGED <<obj, event, interrupt>>

reached(o) == event[op[o].trig] >= op[o].threshold

ctVars == <<obj, ref_cnt, event, interrupt>>
listVars == <<trig_list, list_size, trig_list_tmp>>

-----------------------------------------------------------------------------
(* Calls of the application and of the progress thread.  A call looks its  *)
(* handle up (to_ct takes a reference) and drops the reference at the end. *)

Start(t, kind, c, f) ==
    /\ kind \in load.calls[t]
    /\ Idle(t)
    /\ obj[c] = "live"
    /\ stack' = [stack EXCEPT ![t] = <<f>>]

PtlCTInc(t, c) ==
    /\ event[c] < MaxCount
    /\ Start(t, "inc", c, Frame("inc", c, c))
    /\ ref_cnt' = [ref_cnt EXCEPT ![c] = @ + 1]
    /\ UNCHANGED <<obj, event, interrupt, lock, listVars, op>>

\* The md or le that the event is for holds the reference.
make_ct_event(t, c) ==
    /\ event[c] < MaxCount
    /\ Start(t, "event", c, Frame("event", c, c))
    /\ ref_cnt' = [ref_cnt EXCEPT ![c] = @ + 1]
    /\ UNCHANGED <<obj, event, interrupt, lock, listVars, op>>

PtlCTSet(t, c, v) ==
    /\ Start(t, "set", c, [Frame("set", c, c) EXCEPT !.val = v])
    /\ ref_cnt' = [ref_cnt EXCEPT ![c] = @ + 1]
    /\ UNCHANGED <<obj, event, interrupt, lock, listVars, op>>

\* The test of the limit in PtlTriggeredPut and the other triggered moves
NoSpace(c) == list_size[c] + 1 > load.max_triggered_ops

\* PtlTriggeredPut and the other triggered moves go straight to post_ct().
PtlTriggeredMove(t, c, th, o) ==
    /\ op[o].st = "new"
    /\ ~NoSpace(c)
    /\ Start(t, "move", c, [Frame("post", c, c) EXCEPT !.o = o])
    /\ ref_cnt' = [ref_cnt EXCEPT ![c] = @ + 1]
    /\ op' = [op EXCEPT ![o] = [st |-> "posting", kind |-> "move",
                                trig |-> c, ct |-> NULL, threshold |-> th, val |-> 0]]
    /\ UNCHANGED <<obj, event, interrupt, lock, listVars>>

\* The exit with PTL_NO_SPACE goes to err1, past the puts of the counting
\* event and of the MD.
PtlTriggeredMoveNoSpace(t, c) ==
    /\ "move" \in load.calls[t]
    /\ Idle(t)
    /\ obj[c] = "live"
    /\ NoSpace(c)
    /\ kept[c] < MaxKept
    /\ ref_cnt' = [ref_cnt EXCEPT ![c] = @ + 1]
    /\ kept' = [kept EXCEPT ![c] = @ + 1]
    /\ UNCHANGED <<obj, event, interrupt, lock, listVars, op, stack>>

\* The buf holds the reference on d until the operation is performed.
TriggeredCT(t, call, kind, c, d, th, v, o) ==
    /\ op[o].st = "new"
    /\ obj[d] = "live"
    /\ Start(t, call, c, [Frame("fast", c, c) EXCEPT !.o = o])
    /\ ref_cnt' = [x \in CT |-> ref_cnt[x] + (IF x = c THEN 1 ELSE 0)
                                           + (IF x = d THEN 1 ELSE 0)]
    /\ op' = [op EXCEPT ![o] = [st |-> "posting", kind |-> kind,
                                trig |-> c, ct |-> d, threshold |-> th, val |-> v]]
    /\ UNCHANGED <<obj, event, interrupt, lock, listVars>>

PtlTriggeredCTInc(t, c, d, th, o) ==
    TriggeredCT(t, "triginc", "inc", c, d, th, 1, o)
PtlTriggeredCTSet(t, c, d, th, v, o) ==
    TriggeredCT(t, "trigset", "set", c, d, th, v, o)

PtlCTCancelTriggered(t, c) ==
    /\ Start(t, "cancel", c, [Frame("lock", c, c) EXCEPT !.then = "uncancel"])
    /\ ref_cnt' = [ref_cnt EXCEPT ![c] = @ + 1]
    /\ interrupt' = [interrupt EXCEPT ![c] = TRUE]
    /\ UNCHANGED <<obj, event, lock, listVars, op>>

\* Some call names c: freeing c now would be an error of the application.
Named(c) ==
    \/ \E u \in Thread : ~Idle(u) /\ stack[u][Len(stack[u])].ct = c
    \/ \E o \in Op : op[o].st = "posting" /\ op[o].ct = c

PtlCTFree(t, c) ==
    /\ ~Named(c)
    /\ Start(t, "free", c, [Frame("lock", c, c) EXCEPT !.then = "freeend"])
    /\ obj' = [obj EXCEPT ![c] = "zombie"]
    /\ ref_cnt' = [ref_cnt EXCEPT ![c] = @ + 1]
    /\ list_size' = [list_size EXCEPT ![c] = IF @ > 1 THEN 1 ELSE @]
    /\ interrupt' = [interrupt EXCEPT ![c] = TRUE]
    /\ UNCHANGED <<event, lock, trig_list, trig_list_tmp, op>>

\* ct_new() resets the event, and asserts that the list is empty.
PtlCTAlloc(c) ==
    /\ obj[c] = "free"
    /\ obj' = [obj EXCEPT ![c] = "live"]
    /\ ref_cnt' = [ref_cnt EXCEPT ![c] = 1]
    /\ event' = [event EXCEPT ![c] = 0]
    /\ interrupt' = [interrupt EXCEPT ![c] = FALSE]
    /\ UNCHANGED <<lock, listVars, op, stack, kept, load>>

-----------------------------------------------------------------------------
(* ct_inc(), make_ct_event() and ct_set(): change the value, then check     *)
(* the list if list_size says there is something in it.                     *)

Increment(t) ==
    /\ At(t, "inc") \/ At(t, "event")
    /\ event' = [event EXCEPT ![Top(t).ct] = @ + 1]
    /\ Goto(t, IF At(t, "inc") THEN "sizepos" ELSE "size")
    /\ UNCHANGED <<obj, ref_cnt, interrupt, lock, listVars, op>>

ReadSize(t) ==
    /\ At(t, "sizepos") \/ At(t, "size")
    /\ LET n == list_size[Top(t).ct]
       IN  Goto(t, IF (At(t, "sizepos") /\ n > 0) \/ (At(t, "size") /\ n # 0)
                     THEN "lock" ELSE "ret")
    /\ UNCHANGED <<ctVars, lock, listVars, op>>

Store(t) ==
    /\ At(t, "set") \/ At(t, "late")
    /\ event' = [event EXCEPT ![Top(t).ct] = Top(t).val]
    /\ Goto(t, IF At(t, "set") THEN "size" ELSE "ret")
    /\ UNCHANGED <<obj, ref_cnt, interrupt, lock, listVars, op>>

\* ct_set() stores the value and loads list_size with no fence between them:
\* the store may still be in the store buffer when the load is performed.
LoadBeforeStore(t) ==
    /\ At(t, "set")
    /\ list_size[Top(t).ct] = 0
    /\ Goto(t, "late")
    /\ UNCHANGED <<ctVars, lock, listVars, op>>

Return(t) ==
    /\ At(t, "ret")
    /\ stack' = [stack EXCEPT ![t] = Tail(@)]
    /\ IF Top(t).put = NULL THEN UNCHANGED ctVars ELSE ct_put(Top(t).put, 1)
    /\ UNCHANGED <<lock, listVars, op>>

-----------------------------------------------------------------------------
(* Posting a triggered operation *)

\* Thread t performs o: process_init() for a move, do_trig_ct_op() otherwise.
Perform(t, o, pc) ==
    /\ op' = [op EXCEPT ![o].st = "done"]
    /\ IF op[o].kind = "move"
         THEN Goto(t, pc)
         ELSE CallThen(t, pc, [Frame("trig", op[o].ct, op[o].ct)
                                 EXCEPT !.o = o, !.val = op[o].val])

\* The zombie test of do_trig_ct_op()
do_trig_ct_op(t) ==
    /\ At(t, "trig")
    /\ Goto(t, IF interrupt[Top(t).ct] THEN "ret" ELSE op[Top(t).o].kind)
    /\ UNCHANGED <<ctVars, lock, listVars, op>>

\* The fast path of PtlTriggeredCTInc() drops the reference on the target
\* when ct_inc() is done; that of PtlTriggeredCTSet() does not drop it.
FastPath(t) ==
    /\ At(t, "fast")
    /\ LET o == Top(t).o
           p == IF op[o].kind = "inc" THEN op[o].ct ELSE NULL
       IN  IF reached(o)
             THEN /\ op' = [op EXCEPT ![o].st = IF op[o].kind = "inc" THEN "done" ELSE "kept"]
                  /\ CallThen(t, "ret", [Frame(op[o].kind, op[o].ct, p)
                                           EXCEPT !.val = op[o].val])
             ELSE /\ Goto(t, "post")
                  /\ UNCHANGED op
    /\ UNCHANGED <<ctVars, lock, listVars>>

\* post_ct() and post_trig_ct(): lock, then perform the operation if the
\* threshold is met ...
PostMet(t) ==
    /\ At(t, "post")
    /\ lock[Top(t).ct] = NULL
    /\ reached(Top(t).o)
    /\ Perform(t, Top(t).o, "ret")
    /\ UNCHANGED <<ctVars, lock, listVars>>

PostNotMet(t) ==
    /\ At(t, "post")
    /\ lock[Top(t).ct] = NULL
    /\ ~reached(Top(t).o)
    /\ lock' = [lock EXCEPT ![Top(t).ct] = t]
    /\ Goto(t, "add")
    /\ UNCHANGED <<ctVars, listVars, op>>

\* ... otherwise count it, add it to the list ...
PostAdd(t) ==
    /\ At(t, "add")
    /\ LET c == Top(t).ct
       IN  /\ list_size' = [list_size EXCEPT ![c] = @ + 1]
           /\ trig_list' = [trig_list EXCEPT ![c] = Append(@, Top(t).o)]
    /\ op' = [op EXCEPT ![Top(t).o].st = "pending"]
    /\ Goto(t, "recheck")
    /\ UNCHANGED <<ctVars, lock, trig_list_tmp>>

\* Mutant: no re-check.
PostRecheck_Once(t) ==
    /\ At(t, "recheck")
    /\ lock' = [lock EXCEPT ![Top(t).ct] = NULL]
    /\ Goto(t, "ret")
    /\ UNCHANGED <<ctVars, listVars, op>>

\* ... and check again, because the value may have been changed by a thread
\* that saw list_size before it was incremented.
PostRecheck(t) ==
    /\ At(t, "recheck")
    /\ lock' = [lock EXCEPT ![Top(t).ct] = NULL]
    /\ Goto(t, IF reached(Top(t).o) THEN "lock" ELSE "ret")
    /\ UNCHANGED <<ctVars, listVars, op>>

-----------------------------------------------------------------------------
(* ct_check() *)

\* Move the check to element p; the cursor is the element after p.
Advance(t, c, p) ==
    /\ stack' = [stack EXCEPT ![t][1] = [@ EXCEPT !.pc = "elem", !.pos = p]]
    /\ trig_list_tmp' = [trig_list_tmp EXCEPT ![c] = After(c, p)]
    /\ UNCHANGED <<trig_list, list_size>>

CheckLock(t) ==
    /\ At(t, "lock")
    /\ LET c == Top(t).ct
       IN  /\ lock[c] = NULL
           /\ lock' = [lock EXCEPT ![c] = t]
           /\ Advance(t, c, After(c, NULL))
    /\ UNCHANGED <<ctVars, op>>

\* Take the lock again after an operation and go on at the shared cursor.
CheckRelock(t) ==
    /\ At(t, "relock")
    /\ LET c == Top(t).ct
       IN  /\ lock[c] = NULL
           /\ lock' = [lock EXCEPT ![c] = t]
           /\ Advance(t, c, trig_list_tmp[c])
    /\ UNCHANGED <<ctVars, op>>

\* list_del, atomic_dec and unlock, which precede every operation
Unlist(t, c, o) ==
    /\ trig_list' = [trig_list EXCEPT ![c] = Without(c, o)]
    /\ list_size' = [list_size EXCEPT ![c] = @ - 1]
    /\ lock' = [lock EXCEPT ![c] = NULL]
    /\ UNCHANGED trig_list_tmp

\* Mutant: the lock is kept while the operation is performed.
CheckPerform_Locked(t) ==
    /\ At(t, "elem")
    /\ LET c == Top(t).ct
           o == Top(t).pos
       IN  /\ o # NULL
           /\ ~interrupt[c]
           /\ reached(o)
           /\ trig_list' = [trig_list EXCEPT ![c] = Without(c, o)]
           /\ list_size' = [list_size EXCEPT ![c] = @ - 1]
           /\ Perform(t, o, "relock")
    /\ UNCHANGED <<ctVars, lock, trig_list_tmp>>

CheckPerform(t) ==
    /\ At(t, "elem")
    /\ LET c == Top(t).ct
           o == Top(t).pos
       IN  /\ o # NULL
           /\ ~interrupt[c]
           /\ reached(o)
           /\ Unlist(t, c, o)
           /\ Perform(t, o, "relock")
    /\ UNCHANGED ctVars

\* Mutant: the reference of a discarded operation is not dropped.
CheckDiscard_NoPut(t) ==
    /\ At(t, "elem")
    /\ LET c == Top(t).ct
           o == Top(t).pos
       IN  /\ o # NULL
           /\ interrupt[c]
           /\ Unlist(t, c, o)
           /\ op' = [op EXCEPT ![o].st = "gone"]
    /\ Goto(t, "relock")
    /\ UNCHANGED ctVars

CheckDiscard(t) ==
    /\ At(t, "elem")
    /\ LET c == Top(t).ct
           o == Top(t).pos
       IN  /\ o # NULL
           /\ interrupt[c]
           /\ Unlist(t, c, o)
           /\ op' = [op EXCEPT ![o].st = "gone"]
           /\ IF op[o].ct = NULL THEN UNCHANGED ctVars ELSE ct_put(op[o].ct, 1)
    /\ Goto(t, "relock")

CheckSkip(t) ==
    /\ At(t, "elem")
    /\ LET c == Top(t).ct
           o == Top(t).pos
       IN  /\ o # NULL
           /\ ~interrupt[c]
           /\ ~reached(o)
           /\ Advance(t, c, trig_list_tmp[c])
    /\ UNCHANGED <<ctVars, lock, op>>

CheckEnd(t) ==
    /\ At(t, "elem")
    /\ Top(t).pos = NULL
    /\ lock' = [lock EXCEPT ![Top(t).ct] = NULL]
    /\ Goto(t, Top(t).then)
    /\ UNCHANGED <<ctVars, listVars, op>>

\* The end of PtlCTCancelTriggered() ...
CancelEnd(t) ==
    /\ At(t, "uncancel")
    /\ interrupt' = [interrupt EXCEPT ![Top(t).ct] = FALSE]
    /\ Goto(t, "ret")
    /\ UNCHANGED <<obj, ref_cnt, event, lock, listVars, op>>

\* ... and of PtlCTFree(): ct_cleanup(), and a put for the allocation (the
\* put for the handle is in Return).
FreeEnd(t) ==
    /\ At(t, "freeend")
    /\ LET c == Top(t).ct
       IN  /\ ref_cnt' = [ref_cnt EXCEPT ![c] = @ - 1]
           /\ event' = [event EXCEPT ![c] = 0]
           /\ interrupt' = [interrupt EXCEPT ![c] = FALSE]
    /\ Goto(t, "ret")
    /\ UNCHANGED <<obj, lock, listVars, op>>

-----------------------------------------------------------------------------
Threshold == 1..MaxCount
Value == {0, MaxCount}

\* buf_alloc(): the unused bufs are alike, so that any one of them will do.
NewBuf ==
    LET unused == {o \in load.bufs : op[o].st = "new"}
    IN  IF unused = {} THEN {} ELSE {CHOOSE o \in unused : TRUE}

call(t) ==
    \E c \in CT :
        \/ PtlCTInc(t, c)
        \/ make_ct_event(t, c)
        \/ \E v \in Value : PtlCTSet(t, c, v)
        \/ \E th \in Threshold, o \in NewBuf : PtlTriggeredMove(t, c, th, o)
        \/ \E d \in CT, th \in Threshold, o \in NewBuf : PtlTriggeredCTInc(t, c, d, th, o)
        \/ \E d \in CT, th \in Threshold, v \in Value, o \in NewBuf :
              PtlTriggeredCTSet(t, c, d, th, v, o)
        \/ PtlCTCancelTriggered(t, c)
        \/ PtlCTFree(t, c)

step(t) ==
    /\ \/ Increment(t) \/ ReadSize(t) \/ Store(t) \/ LoadBeforeStore(t) \/ Return(t)
       \/ do_trig_ct_op(t) \/ FastPath(t)
       \/ PostMet(t) \/ PostNotMet(t) \/ PostAdd(t) \/ PostRecheck(t)
       \/ CheckLock(t) \/ CheckRelock(t)
       \/ CheckPerform(t) \/ CheckDiscard(t) \/ CheckSkip(t) \/ CheckEnd(t)
       \/ CancelEnd(t) \/ FreeEnd(t)
    /\ UNCHANGED <<kept, load>>

Next ==
    \/ \E t \in Thread :
         \/ call(t) /\ UNCHANGED <<kept, load>>
         \/ (\E c \in CT : PtlTriggeredMoveNoSpace(t, c)) /\ UNCHANGED load
         \/ step(t)
    \/ \E c \in CT : PtlCTAlloc(c)

Spec == Init /\ [][Next]_vars

\* A thread inside the library keeps running; the locks are spin locks held
\* for a bounded number of steps, so a waiting thread gets its turn.
FairSpec == Spec /\ \A t \in Thread : SF_vars(step(t))

-----------------------------------------------------------------------------
(* Properties *)

FrameType ==
    [pc : {"inc", "event", "set", "late", "size", "sizepos", "trig", "fast",
           "post", "add", "recheck", "lock", "elem", "relock", "uncancel",
           "freeend", "ret"},
     ct : CT, put : CT \cup {NULL}, pos : Op \cup {NULL},
     then : {"ret", "uncancel", "freeend"}, o : Op \cup {NULL},
     val : 0..MaxCount]

\* Type correctness, and: the cursor that all checks of a counting event
\* share is always on an element of its list or on the list head.
TypeOK ==
    /\ obj \in [CT -> {"free", "live", "zombie"}]
    /\ ref_cnt \in [CT -> Nat]
    /\ event \in [CT -> Nat]
    /\ interrupt \in [CT -> BOOLEAN]
    /\ lock \in [CT -> Thread \cup {NULL}]
    /\ list_size \in [CT -> Int]
    /\ \A c \in CT : /\ trig_list[c] \in Seq(Op)
                     /\ trig_list_tmp[c] \in
                          {NULL} \cup {trig_list[c][i] : i \in 1..Len(trig_list[c])}
    /\ \A t \in Thread : stack[t] \in Seq(FrameType)
    /\ kept \in [CT -> 0..MaxKept]

\* No call is working on c, directly or further down its stack.
Quiet(c) == \A t \in Thread : \A i \in 1..Len(stack[t]) : stack[t][i].ct # c

\* No lost trigger (ptl_ct.c, the re-check in post_ct() and post_trig_ct()):
\* once every call that works on a counting event has returned, no operation
\* whose threshold is reached is left on its list, however the calls
\* interleaved and shared the cursor.
NoStrandedOp ==
    \A c \in CT : Quiet(c) =>
        \A i \in 1..Len(trig_list[c]) : ~reached(trig_list[c][i])

\* ptl_ct.h: list_size is the "Number of elements in list".
ListSizeIsLength ==
    \A c \in CT : obj[c] = "live" /\ Quiet(c) => list_size[c] = Len(trig_list[c])

\* References are neither lost nor dropped twice: a counting event has one
\* for being allocated, one for every call in progress that looked it up, one
\* for every triggered operation that will change it, and it is back in the
\* pool exactly when there is none.  Two paths keep a reference for ever and
\* are counted as they are: a set performed on the fast path of
\* PtlTriggeredCTSet, and a triggered move refused with PTL_NO_SPACE.
RefsAccounted ==
    \A c \in CT :
        LET frames == {<<t, i>> \in Thread \X (1..4) :
                         i <= Len(stack[t]) /\ stack[t][i].put = c}
            bufs == {o \in Op : op[o].st \in {"posting", "pending", "kept"} /\ op[o].ct = c}
            owned == \/ obj[c] = "live"
                     \/ \E t \in Thread, i \in 1..4 :
                          /\ i <= Len(stack[t])
                          /\ stack[t][i].ct = c
                          /\ stack[t][i].then = "freeend"
                          /\ stack[t][i].pc # "ret"
        IN  /\ ref_cnt[c] = Cardinality(frames) + Cardinality(bufs) + kept[c]
                              + (IF owned THEN 1 ELSE 0)
            /\ (ref_cnt[c] = 0) = (obj[c] = "free")

\* The counts of a counting event are exact (RefsAccounted, ListSizeIsLength),
\* and its shared cursor stays on its list (TypeOK): no interleaving of
\* ct_check(), cancel, free and post leaves one of them behind.
CountsExact == TypeOK /\ ListSizeIsLength /\ RefsAccounted

\* Every call returns: ct_check() holds no lock of a counting event while it
\* performs an operation that may come back to the same counting event, and
\* checks that trigger each other come to an end.
CallsReturn == \A t \in Thread : ~Idle(t) ~> Idle(t)
=============================================================================
