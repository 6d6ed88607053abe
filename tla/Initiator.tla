----------------------------- MODULE Initiator -----------------------------
(***************************************************************************)
(* The initiator over the RDMA transport: the move operations of ptl_move.c *)
(* and the state machine of ptl_init.c, run by application threads up to    *)
(* the first wait, and by the progress thread (ptl_recv.c) for the send     *)
(* completion and for the response, in whichever order they come; with      *)
(* rdma_send_message(), its rate limit, and PtlMDRelease.                   *)
(*                                                                          *)
(* process_init() runs with buf->mutex held: what it does between two calls *)
(* of the transport is one step.  The adapter and the target are the        *)
(* environment: a posted request is delivered or lost, a target moves the   *)
(* data that is not immediate and then answers if it was asked to.          *)
(***************************************************************************)
EXTENDS Integers, Sequences, FiniteSets
LOCAL INSTANCE FiniteSetsExt
LOCAL INSTANCE Functions

CONSTANTS
    Buf,        \* the bufs of the pool
    MD,         \* memory descriptors, bound once
    Thread,     \* application threads
    Threshold,  \* PTL_MAX_SEND_COMP_THRESHOLD
    WcCount,    \* PTL_WC_COUNT
    Workloads,  \* what the application does, one record for each:
                \*   ops            the operations it starts (see Op)
                \*   moves          how many
                \*   threads        the threads that start them
                \*   max_req_avail  conn->rdma.max_req_avail
                \*   connected      there is a connection at the start
                \*   release        PtlMDRelease is called
                \*   fails          what can go wrong: "mr" (a lookup), "connect",
                \*                  "post" (ibv_post_send), "dropped" (at the
                \*                  target), "signaled", "unsignaled" (a work
                \*                  request, by whether it asked for a completion)
    NULL

ACK_REQ == {"PTL_NO_ACK_REQ", "PTL_ACK_REQ", "PTL_CT_ACK_REQ", "PTL_OC_ACK_REQ"}

\* An operation with the options of its MD: eq and ct say which events there are;
\* quiet is the option PTL_MD_EVENT_SUCCESS_DISABLE, or for send events also
\* PTL_MD_EVENT_SEND_DISABLE.  fmt is the form that the length and the MD give the
\* data (immediate; read and written by RDMA, from one registered region or from
\* the regions of an iovec), fits says that the packet fits in a work request.
Op == [op : {"OP_PUT", "OP_ATOMIC", "OP_GET", "OP_FETCH", "OP_SWAP"},
       md : MD, eq : BOOLEAN, ct : BOOLEAN, quiet : {"no", "send", "success"},
       ack_req : ACK_REQ, fmt : {"immediate", "dma", "iovec"}, fits : BOOLEAN]

Faults == {"mr", "connect", "post", "dropped", "signaled", "unsignaled"}

ASSUME ThresholdAssumption == Threshold \in Nat \ {0}
ASSUME WcCountAssumption == WcCount \in Nat \ {0}
ASSUME NullAssumption == NULL \notin Buf \cup MD
ASSUME WorkloadsAssumption ==
    \A w \in Workloads :
        /\ w.ops \subseteq Op /\ w.moves \in Nat /\ w.threads \subseteq Thread
        /\ w.max_req_avail \in Nat
        /\ w.connected \in BOOLEAN /\ w.release \in BOOLEAN /\ w.fails \subseteq Faults

VARIABLES
    buf,    \* buf[b]: init_state ("free" when in the pool), the reference count,
            \* event_mask, put_md, get_md, whether recv_buf is set, data_in,
            \* completed, ni_fail and num_req_completes; history: m, the number
            \* of the move, and log, the events that it has posted
    free_list,  \* the free list of the pool, last in first out
    msg,    \* msg[m]: move m, its operation and buf; where its request or the
            \* response is; the work request (signaled, wr_id) and its completion
    conn,   \* conn->state
    send_comp_threshold, num_req_posted, num_req_not_comp,
    md,     \* md[d]: "bound", or "released" once PtlMDRelease returned PTL_OK
    thr,    \* thr[t]: where application thread t is, its buf and send_flags
    prog,   \* the progress thread: the work completions it polled (more: it still
            \* polls), in: it is about to enter process_init for the first of them
    load    \* the workload; it does not change

vars == <<buf, free_list, msg, conn, send_comp_threshold, num_req_posted, num_req_not_comp, md,
          thr, prog, load>>

bufs == <<buf, free_list>>
counters == <<send_comp_threshold, num_req_posted, num_req_not_comp>>

IdleThread == [pc |-> "idle", b |-> NULL, sig |-> FALSE]

\* A buf as the pool is created.
FreshBuf ==
    [st |-> "free", ref |-> 0, mask |-> {}, put_md |-> NULL,
     get_md |-> NULL, recv_buf |-> FALSE, data_in |-> FALSE, completed |-> FALSE,
     ni_fail |-> "PTL_NI_OK", completes |-> 0, m |-> 0, log |-> <<>>]

Init ==
    /\ load \in Workloads
    /\ buf = [b \in Buf |-> FreshBuf]
    /\ free_list = CHOOSE s \in [1..Cardinality(Buf) -> Buf] : IsInjective(s)
    /\ msg = <<>>
    /\ conn = IF load.connected THEN "connected" ELSE "disconnected"
    /\ send_comp_threshold = 0 /\ num_req_posted = 0 /\ num_req_not_comp = 0
    /\ md = [d \in MD |-> "bound"]
    /\ thr = [t \in Thread |-> IdleThread]
    /\ prog = [list |-> <<>>, more |-> TRUE, in |-> FALSE]
-----------------------------------------------------------------------------
(* What the operations ask for *)

HasPut(op) == op.op # "OP_GET"                           \* there is a put_md
HasGet(op) == op.op \in {"OP_GET", "OP_FETCH", "OP_SWAP"}  \* there is a get_md

If(flag, cond) == IF cond THEN {flag} ELSE {}

\* The event mask that start() computes.
start(op) ==
    LET ack == op.op \in {"OP_PUT", "OP_ATOMIC"} /\ op.ack_req # "PTL_NO_ACK_REQ"
    IN  If("SEND_EVENT", HasPut(op) /\ op.eq)
        \cup If("CT_SEND_EVENT", HasPut(op) /\ op.ct)
        \cup If("RECEIVE_EXPECTED", ack \/ HasGet(op))
        \cup If("ACK_EVENT", ack /\ op.ack_req = "PTL_ACK_REQ" /\ op.eq)
        \cup If("CT_ACK_EVENT", ack /\ op.ct)
        \cup If("REPLY_EVENT", HasGet(op) /\ op.eq)
        \cup If("CT_REPLY_EVENT", HasGet(op) /\ op.ct)

\* Some of the flags are in the event mask.
AnyOf(flags, mask) == flags \cap mask # {}

SendEvents == {"SEND_EVENT", "CT_SEND_EVENT"}
AckEvents == {"ACK_EVENT", "CT_ACK_EVENT"}
ReplyEvents == {"REPLY_EVENT", "CT_REPLY_EVENT"}

\* rdma_set_send_flags(buf, 0)
rdma_set_send_flags(op, mask) == mask \cup If("INLINE", op.fits)

\* The lines of prepare_req() that ask for a response and for a send completion.
AskResponse(op, mask) ==
    mask \cup If("RECEIVE_EXPECTED",
                 \/ HasPut(op) /\ op.fmt # "immediate" /\ AnyOf(SendEvents, mask)
                 \/ op.fmt = "dma")              \* buf->num_mr

AskEarlySend(op, mask) ==
    mask \cup If("EARLY_SEND",
                 AnyOf(SendEvents, mask) /\ HasPut(op) /\ op.fmt = "immediate")

\* Mutant: no completion is requested to protect a packet.
Protect_Not(mask) == mask

Protect(mask) ==
    mask \cup If("SIGNALED",
                 /\ "INLINE" \notin mask
                 /\ "EARLY_SEND" \in mask \/ "RECEIVE_EXPECTED" \notin mask)

\* The event mask as prepare_req() leaves it.
prepare_req(op) ==
    Protect(rdma_set_send_flags(op, AskEarlySend(op, AskResponse(op, start(op)))))

check_put(op) ==
    /\ op.ack_req = "PTL_ACK_REQ" => op.eq
    /\ op.ack_req = "PTL_CT_ACK_REQ" => op.ct

\* max_atomic_size is not above PTL_MAX_INLINE_DATA.
check_atomic(op) == check_put(op) /\ op.fmt = "immediate"
check_swap(op) == op.ack_req = "PTL_NO_ACK_REQ" /\ op.fmt = "immediate"

-----------------------------------------------------------------------------
(* The states of the state machine, from the last to the first.  Each takes
   the buf and gives the buf as process_init() leaves it. *)

OpOf(x) == msg[x.m].op

\* Mutant: the flag of the event stays set.
Full_Keep(x, ev, mute) ==
    IF ev \notin x.mask THEN x
    ELSE [x EXCEPT !.log = IF x.ni_fail # "PTL_NI_OK" \/ OpOf(x).quiet \notin mute
                             THEN Append(@, ev) ELSE @]

\* make_*_event() and make_ct_*_event()
Full(x, ev, mute) ==
    IF ev \notin x.mask THEN x
    ELSE [x EXCEPT !.mask = @ \ {ev},
                   !.log = IF x.ni_fail # "PTL_NI_OK" \/ OpOf(x).quiet \notin mute
                             THEN Append(@, ev) ELSE @]

Count(x, ev) ==
    IF ev \notin x.mask THEN x
    ELSE [x EXCEPT !.mask = @ \ {ev}, !.log = Append(@, ev)]

MakeSendEvents(x) == Count(Full(x, "SEND_EVENT", {"send", "success"}), "CT_SEND_EVENT")
MakeAckEvents(x) == Count(Full(x, "ACK_EVENT", {"success"}), "CT_ACK_EVENT")
MakeReplyEvents(x) == Count(Full(x, "REPLY_EVENT", {"success"}), "CT_REPLY_EVENT")

\* md_put() of an MD that has to be there.
PutMd(x) == IF x.put_md = NULL THEN [x EXCEPT !.st = "crash"] ELSE [x EXCEPT !.put_md = NULL]
GetMd(x) == IF x.get_md = NULL THEN [x EXCEPT !.st = "crash"] ELSE [x EXCEPT !.get_md = NULL]

cleanup(x) ==
    IF x.st = "crash" THEN x
    ELSE [x EXCEPT !.st = "done", !.put_md = NULL, !.get_md = NULL, !.recv_buf = FALSE]

reply_event(x) == cleanup(MakeReplyEvents(GetMd(x)))

ack_event(x) == cleanup(MakeAckEvents([x EXCEPT !.put_md = NULL]))

late_send_event(x) ==
    LET y == MakeSendEvents(x)
    IN  IF y.ni_fail # "PTL_NI_UNDELIVERABLE" /\ AnyOf(AckEvents, y.mask) THEN ack_event(y)
        ELSE IF y.ni_fail # "PTL_NI_UNDELIVERABLE" /\ AnyOf(ReplyEvents, y.mask)
               THEN reply_event(y)
        ELSE cleanup(y)

send_error(x) ==
    LET y == [x EXCEPT !.put_md = NULL, !.ni_fail = "PTL_NI_UNDELIVERABLE"]
    IN  IF AnyOf(SendEvents, y.mask) THEN late_send_event(y) ELSE cleanup(y)

\* data_in(): the immediate data of a reply is copied to the get MD.  iov_copy_in()
\* fails only for a range that is not inside the MD; check_get() has refused those,
\* and the target sends at most the bytes asked for, and no data at all for none.
data_in(x) ==
    LET y == [x EXCEPT !.log = Append(@, "DATA")]
    IN  IF AnyOf(SendEvents, y.mask) THEN late_send_event(y)
        ELSE IF AnyOf(ReplyEvents, y.mask) THEN reply_event(y)
        ELSE cleanup(y)

\* The part of wait_recv() after the test of recv_buf.
Received(x) ==
    LET y == [x EXCEPT !.put_md = NULL, !.ni_fail = msg[x.m].ni_fail]
    IN  IF y.data_in /\ y.get_md # NULL THEN data_in(y)
        ELSE IF AnyOf(SendEvents, y.mask) THEN late_send_event(y)
        ELSE IF AnyOf(AckEvents, y.mask) THEN ack_event(y)
        ELSE IF AnyOf(ReplyEvents, y.mask) THEN reply_event(y)
        ELSE cleanup(y)

wait_recv(x) ==
    IF x.st = "crash" THEN x
    ELSE IF x.ni_fail = "PTL_NI_UNDELIVERABLE" THEN send_error(x)
    ELSE IF ~x.recv_buf THEN [x EXCEPT !.st = "wait_recv"]
    ELSE Received(x)

early_send_event(x) ==
    LET y == MakeSendEvents(PutMd(x))
    IN  IF "RECEIVE_EXPECTED" \in y.mask /\ y.ni_fail # "PTL_NI_UNDELIVERABLE"
          THEN wait_recv(y) ELSE cleanup(y)

wait_comp(x) ==
    IF x.completed \/ x.recv_buf THEN early_send_event(x)
                                 ELSE [x EXCEPT !.st = "wait_comp"]

\* Mutant: a request that was copied and has no event to post is done at once.
after_send_NoWait(x) ==
    IF "SIGNALED" \in x.mask THEN wait_comp(x)
    ELSE IF "EARLY_SEND" \in x.mask THEN early_send_event(x)
    ELSE IF "RECEIVE_EXPECTED" \in x.mask
            /\ ("INLINE" \notin x.mask \/ AnyOf(SendEvents \cup AckEvents \cup ReplyEvents, x.mask))
           THEN wait_recv(x)
    ELSE cleanup(x)

\* The state that send_req() goes to when the request is posted.
after_send(x) ==
    IF "SIGNALED" \in x.mask THEN wait_comp(x)
    ELSE IF "EARLY_SEND" \in x.mask THEN early_send_event(x)
    ELSE IF "RECEIVE_EXPECTED" \in x.mask THEN wait_recv(x)
    ELSE cleanup(x)

\* process_init() on a buf that waits, or that is done already.
process_init(x) ==
    CASE x.st = "wait_comp" -> wait_comp(x)
      [] x.st = "wait_recv" -> wait_recv(x)
      [] OTHER -> x

\* buf_put(), puts times, after process_init() has left the buf as x: the last one
\* runs buf_cleanup() and gives the buf back to the pool.  A state machine that
\* comes to its end drops the reference of the allocation.
Leave(b, x, puts) ==
    LET end == IF x.st = "done" /\ buf[b].st # "done" THEN 1 ELSE 0
        ref == x.ref - puts - end
    IN  /\ buf' = [buf EXCEPT ![b] = [x EXCEPT !.ref = ref,
                                               !.st = IF ref <= 0 THEN "free" ELSE @]]
        /\ free_list' = IF ref <= 0 THEN <<b>> \o free_list ELSE free_list
        /\ num_req_posted' = num_req_posted - (IF ref <= 0 THEN x.completes ELSE 0)
-----------------------------------------------------------------------------
(* Application threads: the move operations *)

ThrAt(t, pc) == thr[t].pc = pc
Goto(t, pc) == thr' = [thr EXCEPT ![t].pc = pc]
Return(t) == thr' = [thr EXCEPT ![t] = IdleThread]

\* get_transport_buf() with buf_setup(), which does not reset completed nor the MD
\* that the operation does not use; then process_init() up to the send or to the
\* wait for a connection.  The lookup of
\* a memory region in prepare_req() can fail.
Start(t, op) ==
    LET b == Head(free_list)
        x == [buf[b] EXCEPT !.st = "send_req", !.ref = 1, !.mask = prepare_req(op),
                 !.put_md = IF HasPut(op) THEN op.md ELSE @,
                 !.get_md = IF HasGet(op) THEN op.md ELSE @,
                 !.recv_buf = FALSE, !.data_in = FALSE, !.ni_fail = "PTL_NI_OK",
                 !.completes = 0, !.m = Len(msg) + 1, !.log = <<>>]
    IN  /\ free_list # <<>>
        /\ msg' = Append(msg, [op |-> op, b |-> b, st |-> "new", sig |-> FALSE,
                               wr_id |-> TRUE, comp |-> "none", ni_fail |-> "PTL_NI_OK"])
        /\ \/ /\ buf' = [buf EXCEPT ![b] = x]
              /\ free_list' = Tail(free_list)
              /\ thr' = [thr EXCEPT ![t].b = b,
                    ![t].pc = IF conn = "connected" THEN "send_req" ELSE "wait_conn"]
           \/ /\ "mr" \in load.fails
              /\ buf' = [buf EXCEPT ![b] = [cleanup(x) EXCEPT !.ref = 0, !.st = "free"]]
              /\ UNCHANGED <<free_list, thr>>
        /\ UNCHANGED <<conn, counters, md, prog, load>>

CanStart(t, op) ==
    /\ t \in load.threads /\ ThrAt(t, "idle")
    /\ Len(msg) < load.moves
    /\ op \in load.ops
    /\ md[op.md] = "bound"

_PtlPut(t, op) ==
    CanStart(t, op) /\ op.op = "OP_PUT" /\ check_put(op) /\ Start(t, op)

_PtlGet(t, op) == CanStart(t, op) /\ op.op = "OP_GET" /\ Start(t, op)

_PtlAtomic(t, op) ==
    CanStart(t, op) /\ op.op = "OP_ATOMIC" /\ check_atomic(op) /\ Start(t, op)

_PtlFetchAtomic(t, op) ==
    CanStart(t, op) /\ op.op = "OP_FETCH" /\ check_swap(op) /\ Start(t, op)

_PtlSwap(t, op) ==
    CanStart(t, op) /\ op.op = "OP_SWAP" /\ check_swap(op) /\ Start(t, op)

\* A call that ends in STATE_INIT_ERROR.
Fail(t) ==
    /\ Leave(thr[t].b, cleanup(buf[thr[t].b]), 0)
    /\ Return(t)

\* wait_conn(), up to the wait
wait_conn(t) ==
    /\ ThrAt(t, "wait_conn")
    /\ \/ /\ conn = "connected"
          /\ Goto(t, "send_req")
          /\ UNCHANGED <<conn, bufs, num_req_posted>>
       \/ /\ conn # "connected"
          /\ conn' = "connecting"          \* init_connect(), if it was disconnected
          /\ Goto(t, "blocked")
          /\ UNCHANGED <<bufs, num_req_posted>>
       \/ /\ conn = "disconnected" /\ "connect" \in load.fails
          /\ Fail(t)
          /\ UNCHANGED conn
    /\ UNCHANGED <<msg, send_comp_threshold, num_req_not_comp, md, prog, load>>

\* The connection is established or fails; all waiting threads are woken.
Connection(up) ==
    /\ conn = "connecting"
    /\ up \/ "connect" \in load.fails
    /\ conn' = IF up THEN "connected" ELSE "disconnected"
    /\ thr' = [t \in Thread |-> IF ThrAt(t, "blocked") THEN [thr[t] EXCEPT !.pc = "woken"]
                                                       ELSE thr[t]]
    /\ UNCHANGED <<bufs, msg, counters, md, prog, load>>

\* wait_conn() after pthread_cond_wait(), which is not in a loop
Woken(t) ==
    /\ ThrAt(t, "woken")
    /\ IF conn = "connected" THEN Goto(t, "send_req") /\ UNCHANGED <<bufs, num_req_posted>>
                             ELSE Fail(t)
    /\ UNCHANGED <<conn, msg, send_comp_threshold, num_req_not_comp, md, prog, load>>

-----------------------------------------------------------------------------
(* rdma_send_message(buf, 1) *)

\* Whether a completion is requested: the counter is not raised if the buf asks
\* for one itself.
SendFlags(t) ==
    LET asks == "SIGNALED" \in buf[thr[t].b].mask
        n == IF asks THEN send_comp_threshold ELSE send_comp_threshold + 1
        sig == asks \/ n = Threshold \/ num_req_not_comp >= Threshold
    IN  /\ ThrAt(t, "send_req")
        /\ send_comp_threshold' = n
        /\ thr' = [thr EXCEPT ![t].sig = sig, ![t].pc = IF sig THEN "signal" ELSE "count"]
        /\ UNCHANGED <<bufs, msg, conn, num_req_posted, num_req_not_comp, md, prog, load>>

\* Mutant: no reference is taken for the completion.
SendSignal_NoGet(t) ==
    /\ ThrAt(t, "signal")
    /\ send_comp_threshold' = 0
    /\ Goto(t, "count")
    /\ UNCHANGED <<bufs, msg, conn, num_req_posted, num_req_not_comp, md, prog, load>>

\* The buf is kept until the completion.
SendSignal(t) ==
    /\ ThrAt(t, "signal")
    /\ send_comp_threshold' = 0
    /\ buf' = [buf EXCEPT ![thr[t].b].ref = @ + 1]
    /\ Goto(t, "count")
    /\ UNCHANGED <<free_list, msg, conn, num_req_posted, num_req_not_comp, md, prog, load>>

CountPosted(t) ==
    /\ ThrAt(t, "count")
    /\ num_req_posted' = num_req_posted + 1
    /\ Goto(t, "count2")
    /\ UNCHANGED <<bufs, msg, conn, send_comp_threshold, num_req_not_comp, md, prog, load>>

CountNotComp(t) ==
    /\ ThrAt(t, "count2")
    /\ num_req_not_comp' = num_req_not_comp + 1
    /\ Goto(t, "limit")
    /\ UNCHANGED <<bufs, msg, conn, send_comp_threshold, num_req_posted, md, prog, load>>

\* The high water mark
RateLimit(t) ==
    /\ ThrAt(t, "limit")
    /\ Goto(t, IF num_req_posted >= load.max_req_avail THEN "spin" ELSE "post")
    /\ UNCHANGED <<bufs, msg, conn, counters, md, prog, load>>

\* Mutant: the loop waits until no request is outstanding, its own included.
RateSpin_Drained(t) ==
    /\ ThrAt(t, "spin")
    /\ num_req_posted = 0
    /\ Goto(t, "post")
    /\ UNCHANGED <<bufs, msg, conn, counters, md, prog, load>>

\* The loop ends below the low water mark.
RateSpin(t) ==
    /\ ThrAt(t, "spin")
    /\ num_req_posted < load.max_req_avail \div 2
    /\ Goto(t, "post")
    /\ UNCHANGED <<bufs, msg, conn, counters, md, prog, load>>

\* A signaled request accounts for those before it; ibv_post_send() can fail.
Post(t) ==
    LET b == thr[t].b
        x == buf[b]
    IN  /\ ThrAt(t, "post")
        /\ buf' = [buf EXCEPT ![b].completes = IF thr[t].sig THEN num_req_not_comp ELSE @]
        /\ num_req_not_comp' = IF thr[t].sig THEN 0 ELSE num_req_not_comp
        /\ \/ /\ msg' = [msg EXCEPT ![x.m].st = "queued", ![x.m].sig = thr[t].sig,
                                    ![x.m].wr_id = thr[t].sig \/ "INLINE" \notin x.mask]
              /\ Goto(t, "posted")
           \/ /\ "post" \in load.fails
              /\ msg' = [msg EXCEPT ![x.m].st = "unposted", ![x.m].sig = thr[t].sig]
              /\ Goto(t, "not_posted")
        /\ UNCHANGED <<free_list, conn, send_comp_threshold, num_req_posted, md, prog, load>>

\* The rest of send_req(), and process_init() until it leaves.
send_req(t) ==
    LET b == thr[t].b
        x == buf[b]
    IN  /\ \/ ThrAt(t, "posted") /\ Leave(b, after_send(x), 0)
           \/ ThrAt(t, "not_posted") /\ Leave(b, send_error(x), 0)
        /\ Return(t)
        /\ UNCHANGED <<msg, conn, send_comp_threshold, num_req_not_comp, md, prog, load>>

\* PtlMDRelease, not called during a move on the same MD: it succeeds if no buf
\* has a reference, and then drops the one of the handle.
Held(d) == \E b \in Buf : d \in {buf[b].put_md, buf[b].get_md}

_PtlMDRelease(d) ==
    /\ load.release /\ md[d] = "bound"
    /\ ~Held(d)
    /\ md' = [md EXCEPT ![d] = "released"]
    /\ UNCHANGED <<bufs, msg, conn, counters, thr, prog, load>>

-----------------------------------------------------------------------------
(* The adapter and the target (environment) *)

Asks(m) == "RECEIVE_EXPECTED" \in prepare_req(msg[m].op)

\* The target is done with the data of m and answers if it was asked to.
Answered(m, ni_fail) ==
    [msg[m] EXCEPT !.st = IF Asks(m) THEN "response" ELSE "over", !.ni_fail = ni_fail]

\* What tgt_start() and the states after it leave in ni_fail: all failures but
\* PTL_NI_UNDELIVERABLE are alike to the initiator.
TargetResults == {"PTL_NI_OK"} \cup If("PTL_NI_DROPPED", "dropped" \in load.fails)

\* The request reaches the target.  A dropped message transfers nothing.
Deliver(m) ==
    /\ msg[m].st = "queued"
    /\ \E r \in TargetResults :
         LET y == IF msg[m].op.fmt = "immediate" \/ r # "PTL_NI_OK"
                    THEN Answered(m, r) ELSE [msg[m] EXCEPT !.st = "transfer"]
         IN  msg' = [msg EXCEPT ![m] = [y EXCEPT !.comp = IF msg[m].sig THEN "ok" ELSE @]]
    /\ UNCHANGED <<bufs, conn, counters, md, thr, prog, load>>

\* The target has read or written the memory of the MD.
Transferred(m) ==
    /\ msg[m].st = "transfer"
    /\ msg' = [msg EXCEPT ![m] = Answered(m, "PTL_NI_OK")]
    /\ UNCHANGED <<bufs, conn, counters, md, thr, prog, load>>

\* The work request fails: there is a completion, whether it was asked for or not.
Lose(m) ==
    /\ msg[m].st = "queued"
    /\ (IF msg[m].sig THEN "signaled" ELSE "unsignaled") \in load.fails
    /\ msg' = [msg EXCEPT ![m].st = "over", ![m].comp = "error"]
    /\ UNCHANGED <<bufs, conn, counters, md, thr, prog, load>>

-----------------------------------------------------------------------------
(* The progress thread *)

Completions ==
    {[m |-> m, kind |-> "send"] : m \in {n \in DOMAIN msg : msg[n].comp \in {"ok", "error"}}}
    \cup {[m |-> m, kind |-> "recv"] : m \in {n \in DOMAIN msg : msg[n].st = "response"}}

\* comp_poll() for one completion: a failed send is noted in the buf, whoever holds
\* the mutex, unless there is no wr_id.  There can be more in the same poll.
comp_poll(c) ==
    LET m == c.m
        b == msg[m].b
        lost == c.kind = "send" /\ msg[m].comp = "error"
    IN  /\ prog.more /\ Len(prog.list) < WcCount
        /\ c \in Completions
        /\ msg' = IF c.kind = "send" THEN [msg EXCEPT ![m].comp = "none"]
                                     ELSE [msg EXCEPT ![m].st = "over"]
        /\ IF lost /\ ~msg[m].wr_id
             THEN UNCHANGED <<buf, prog>>
             ELSE /\ prog' = [prog EXCEPT !.list = Append(@, c)]
                  /\ buf' = IF lost THEN [buf EXCEPT ![b].ni_fail = "PTL_NI_UNDELIVERABLE"]
                                    ELSE buf
        /\ UNCHANGED <<free_list, conn, counters, md, thr, load>>

Current == Head(prog.list)
CurrentBuf == msg[Current.m].b
Done == [list |-> Tail(prog.list), more |-> Len(prog.list) = 1, in |-> FALSE]
Enter == [prog EXCEPT !.more = FALSE, !.in = TRUE]

\* buf->mutex is free.
Unlocked(b) == \A t \in Thread : thr[t].b # b

\* send_comp() up to process_init(), which only a requested or a failed completion
\* enters.
send_comp ==
    LET b == CurrentBuf
        x == buf[b]
    IN  /\ prog.list # <<>> /\ ~prog.in /\ Current.kind = "send"
        /\ IF "SIGNALED" \in x.mask \/ x.ni_fail = "PTL_NI_UNDELIVERABLE"
             THEN /\ buf' = [buf EXCEPT ![b].completed = TRUE]
                  /\ prog' = Enter
                  /\ UNCHANGED <<free_list, num_req_posted>>
             ELSE Leave(b, x, 1) /\ prog' = Done
        /\ UNCHANGED <<msg, conn, send_comp_threshold, num_req_not_comp, md, thr, load>>

\* recv_init() up to process_init(): the handle in the response is looked up and
\* the buf is changed without its mutex.
recv_init ==
    LET b == CurrentBuf
    IN  /\ prog.list # <<>> /\ ~prog.in /\ Current.kind = "recv"
        /\ IF buf[b].st = "free"
             THEN UNCHANGED buf /\ prog' = Done
             ELSE /\ buf' = [buf EXCEPT ![b] =
                        [@ EXCEPT !.ref = @ + 1, !.recv_buf = TRUE,
                                  !.data_in = /\ HasGet(msg[Current.m].op)
                                              /\ msg[Current.m].op.fmt = "immediate"
                                              /\ msg[Current.m].ni_fail = "PTL_NI_OK"]]
                  /\ prog' = Enter
        /\ UNCHANGED <<free_list, msg, conn, counters, md, thr, load>>

\* process_init() for a completion, and the reference that send_comp() or
\* recv_init() drops.
Reenter ==
    LET b == CurrentBuf
    IN  /\ prog.in
        /\ Unlocked(b)
        /\ Leave(b, process_init(buf[b]), 1)
        /\ prog' = Done
        /\ UNCHANGED <<msg, conn, send_comp_threshold, num_req_not_comp, md, thr, load>>

-----------------------------------------------------------------------------
Move(t) ==
    \E op \in load.ops :
        \/ _PtlPut(t, op) \/ _PtlGet(t, op) \/ _PtlAtomic(t, op)
        \/ _PtlFetchAtomic(t, op) \/ _PtlSwap(t, op)

ThreadNext(t) ==
    \/ wait_conn(t) \/ Woken(t)
    \/ SendFlags(t) \/ SendSignal(t) \/ CountPosted(t) \/ CountNotComp(t)
    \/ RateLimit(t) \/ RateSpin(t) \/ Post(t) \/ send_req(t)

ProgressNext ==
    \/ \E c \in Completions : comp_poll(c)
    \/ send_comp \/ recv_init \/ Reenter

NetworkNext ==
    \/ \E up \in BOOLEAN : Connection(up)
    \/ \E m \in DOMAIN msg : Deliver(m) \/ Transferred(m) \/ Lose(m)

\* What happens without a new call.
Step == (\E t \in Thread : ThreadNext(t)) \/ ProgressNext \/ NetworkNext

Next ==
    \/ \E t \in Thread : Move(t)
    \/ \E d \in MD : _PtlMDRelease(d)
    \/ Step

Spec == Init /\ [][Next]_vars

\* The system does not stop while a thread can run, a packet is underway or a
\* target has to answer.  No process can keep another from its steps for ever:
\* none of them has an endless sequence of steps of its own.
Fairness == WF_vars(Step)

FairSpec == Spec /\ Fairness

-----------------------------------------------------------------------------
(* Properties *)

EventFlags == SendEvents \cup AckEvents \cup ReplyEvents
Flags == EventFlags \cup {"RECEIVE_EXPECTED", "EARLY_SEND", "INLINE", "SIGNALED"}

InCall == {"wait_conn", "blocked", "woken", "send_req", "signal", "count", "count2",
           "limit", "spin", "post", "posted", "not_posted"}

\* Types.  A state machine never releases an MD that it does not have ("crash"), the
\* counters of the rate limit are not negative (the assertion of buf_cleanup()), and
\* a response and a completion are there for posted requests only.
TypeOK ==
    /\ \A b \in Buf :
         /\ buf[b].st \in {"free", "send_req", "wait_comp", "wait_recv", "done"}
         /\ buf[b].ref \in Int /\ buf[b].mask \subseteq Flags
         /\ {buf[b].put_md, buf[b].get_md} \subseteq MD \cup {NULL}
         /\ {buf[b].recv_buf, buf[b].data_in, buf[b].completed} \subseteq BOOLEAN
         /\ buf[b].m \in 0..Len(msg) /\ buf[b].completes \in Nat
    /\ \A m \in DOMAIN msg :
         /\ msg[m].st \in {"new", "queued", "unposted", "transfer", "response", "over"}
         /\ msg[m].comp # "none" => msg[m].sig \/ msg[m].comp = "error"
    /\ conn \in {"disconnected", "connecting", "connected"}
    /\ {send_comp_threshold, num_req_posted, num_req_not_comp} \subseteq Nat
    /\ \A t \in Thread : thr[t].pc \in InCall <=> thr[t].b \in Buf

\* The references of a buf are the one of its operation until that is done, one for
\* the completion that was requested, and the one of the progress thread that looked
\* it up for a response; it is in the pool exactly when there is none.  (A failed
\* ibv_post_send() keeps the reference for the completion for ever.)  In the pool it
\* has no MD and no response itself: the next operation sets only the MDs that it
\* uses, and start(), wait_recv() and cleanup() take any other for its own.
CompletionDue(b) ==
    \/ \E t \in Thread : /\ thr[t].b = b /\ thr[t].sig
                           /\ thr[t].pc \in {"count", "count2", "limit", "spin", "post"}
    \/ \E m \in DOMAIN msg :
         /\ msg[m].b = b /\ buf[b].m = m /\ msg[m].sig
         /\ \/ msg[m].st \in {"queued", "unposted"} \/ msg[m].comp # "none"
            \/ \E i \in DOMAIN prog.list : prog.list[i] = [m |-> m, kind |-> "send"]

One(cond) == IF cond THEN 1 ELSE 0

RefsExact ==
    \A b \in Buf :
        /\ buf[b].ref = One(buf[b].st \notin {"free", "done"}) + One(CompletionDue(b))
                        + One(prog.in /\ Current.kind = "recv" /\ CurrentBuf = b)
        /\ (buf[b].ref = 0) = (buf[b].st = "free")
        /\ buf[b].st = "free" =>
             buf[b].put_md = NULL /\ buf[b].get_md = NULL /\ ~buf[b].recv_buf

\* A reference count is never negative: the assertion of ref_put().
PutsBalanced == \A b \in Buf : buf[b].ref >= 0

\* The buf of a request that the adapter has not sent yet, and that it did not copy
\* (not inline), is still the buf of that request ("Protect the request packet until
\* it is sent", prepare_req()).
PacketProtected ==
    \A m \in DOMAIN msg :
        msg[m].st = "queued" /\ "INLINE" \notin prepare_req(msg[m].op) =>
            buf[msg[m].b].m = m /\ buf[msg[m].b].st # "free"

\* A response always finds the buf of its request, and not a buf that was released
\* and is in use for another move: the handle in the packet is never stale.
ResponseFindsRequest ==
    \A m \in DOMAIN msg :
        LET c == [m |-> m, kind |-> "recv"]
            underway == \/ msg[m].st = "response"
                        \/ ~prog.in /\ \E i \in DOMAIN prog.list : prog.list[i] = c
                        \/ prog.in /\ \E i \in 2..Len(prog.list) : prog.list[i] = c
        IN  underway => /\ buf[msg[m].b].m = m
                        /\ buf[msg[m].b].st \notin {"free", "done"}

\* While the target reads or writes the memory of an operation, PtlMDRelease has not
\* returned PTL_OK for its MD, and no send or reply event has told the application
\* that the memory is free ("Until the response is received, we cannot free the MR
\* nor post the send events", prepare_req()).
MemoryInUse ==
    \A m \in DOMAIN msg :
        msg[m].st = "transfer" =>
            /\ md[msg[m].op.md] = "bound"
            /\ buf[msg[m].b].m = m => buf[msg[m].b].log = <<>>

\* An operation that is over has posted what start() asked for, each event once, the
\* full ones subject to the options that disable them for successes, the counting
\* ones always: everything if it was answered, nothing if the call failed before the
\* send.  An operation that could not be delivered has posted its send events.  A
\* send event comes before the ack or the reply, and the data of a reply is in the MD
\* before its event.
Sent(m) == msg[m].st # "new"
Over(b) == buf[b].m > 0 /\ buf[b].st \in {"done", "free"}
Posted(b) == {buf[b].log[i] : i \in DOMAIN buf[b].log} \ {"DATA"}
Wanted(b) == start(OpOf(buf[b])) \cap EventFlags

EventsExact ==
    \A b \in Buf :
        LET x == buf[b]
            quiet == OpOf(x).quiet
            muted == If("SEND_EVENT", quiet # "no")
                     \cup {e \in {"ACK_EVENT", "REPLY_EVENT"} : quiet = "success"}
        IN  Over(b) =>
              /\ \A i, j \in DOMAIN x.log :
                   /\ x.log[i] = x.log[j] => i = j
                   /\ x.log[i] \in SendEvents \cup {"DATA"}
                      /\ x.log[j] \in AckEvents \cup ReplyEvents => i < j
              /\ Posted(b) \subseteq Wanted(b)
              /\ CASE ~Sent(x.m) -> Posted(b) = {}
                   [] Sent(x.m) /\ x.ni_fail = "PTL_NI_OK" -> Posted(b) = Wanted(b) \ muted
                   [] x.ni_fail = "PTL_NI_DROPPED" ->
                        Wanted(b) \ (muted \cap SendEvents) \subseteq Posted(b)
                   [] x.ni_fail = "PTL_NI_UNDELIVERABLE" ->
                        (Wanted(b) \cap SendEvents) \ muted \subseteq Posted(b)

\* "If the caller expects events we must generate them even though we have not
\* received a send or recv completion" (send_error()): an operation that could not
\* be delivered has posted all of its events.
LostReported ==
    \A b \in Buf : Over(b) /\ Sent(buf[b].m) /\ buf[b].ni_fail = "PTL_NI_UNDELIVERABLE"
                      => Posted(b) = Wanted(b)

\* The requests counted for the rate limit are those that no signaled request
\* accounts for yet, those that one accounts for that still has its buf, and the
\* ones between the two increments: none is counted twice or forgotten, so that
\* buf_cleanup() never takes the counter below zero.
PostedExact ==
    num_req_posted =
        num_req_not_comp + MapThenSumSet(LAMBDA b : buf[b].completes, {b \in Buf : buf[b].st # "free"})
        + Cardinality({t \in Thread : ThrAt(t, "count2")})

\* The counts of the initiator are exact (RefsExact, PostedExact) and its state
\* machine has what it releases (TypeOK), whichever of the response, the
\* completion and the caller comes first.
CountsExact == TypeOK /\ RefsExact /\ PostedExact

\* What the adapter or the target still reads or writes is not given back to the
\* application or to the pool (PacketProtected, MemoryInUse; prepare_req()).
InUseKept == PacketProtected /\ MemoryInUse

Faulty == load.fails \cap {"post", "unsignaled"} # {}

\* Every move returns to the caller, the rate limit notwithstanding, and every buf
\* goes back to the pool in the end, unless posting it failed or a work request failed
\* that is not reported for it.
MovesEnd ==
    (\E t \in Thread : ~ThrAt(t, "idle")) \/ (\E b \in Buf : buf[b].st # "free")
        ~> /\ \A t \in Thread : ThrAt(t, "idle")
           /\ Faulty \/ \A b \in Buf : buf[b].st = "free"
=============================================================================
