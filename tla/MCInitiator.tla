---------------------------- MODULE MCInitiator ----------------------------
(* Initiator for TLC: operations that take every path of the state machine, and
   workloads for the orders of completions, the failures and the rate limit. *)
EXTENDS Initiator, TLC

CONSTANTS d1, t1, t2

Operation(op, events, ack_req, fmt, fits) ==
    [op |-> op, md |-> d1, eq |-> "eq" \in events, ct |-> "ct" \in events,
     quiet |-> "no", ack_req |-> ack_req, fmt |-> fmt, fits |-> fits]

Put(events, ack_req, fmt, fits) == Operation("OP_PUT", events, ack_req, fmt, fits)
Get(events, fmt, fits) == Operation("OP_GET", events, "PTL_NO_ACK_REQ", fmt, fits)

SmallPut == Put({}, "PTL_NO_ACK_REQ", "immediate", TRUE)

LongPut == Put({"eq", "ct"}, "PTL_ACK_REQ", "immediate", FALSE)

\* Puts and gets whose packets are copied or are signaled.
Ops ==
    {LongPut,
     Put({"eq"}, "PTL_NO_ACK_REQ", "iovec", TRUE),
     [Put({"eq"}, "PTL_ACK_REQ", "immediate", TRUE) EXCEPT !.quiet = "success"],
     Put({}, "PTL_NO_ACK_REQ", "immediate", FALSE),
     Put({}, "PTL_NO_ACK_REQ", "dma", TRUE),
     Get({"eq"}, "immediate", TRUE),
     Operation("OP_SWAP", {"eq"}, "PTL_NO_ACK_REQ", "immediate", FALSE)}

\* The others: long packets that wait for their response, and the other calls.
LongOps ==
    {Put({"ct"}, "PTL_CT_ACK_REQ", "dma", FALSE),
     Put({"ct"}, "PTL_ACK_REQ", "dma", FALSE),        \* refused by check_put
     Put({}, "PTL_OC_ACK_REQ", "iovec", FALSE),
     Get({"ct"}, "dma", FALSE),
     Operation("OP_ATOMIC", {"eq"}, "PTL_ACK_REQ", "immediate", FALSE),
     [Operation("OP_FETCH", {"eq", "ct"}, "PTL_NO_ACK_REQ", "immediate", FALSE)
        EXCEPT !.quiet = "send"]}

Workload(ops, moves, threads) ==
    [ops |-> ops, moves |-> moves, threads |-> threads, max_req_avail |-> 8,
     connected |-> TRUE, release |-> FALSE, fails |-> {}]

\* Every operation; two that reuse a buf, with failures while the connection is set
\* up and later; two threads; enough requests to come to the limit.
MCWorkloads ==
    {[Workload(Ops \cup LongOps, 1, {t1}) EXCEPT !.release = TRUE, !.fails = {"dropped"}],
     [Workload(Ops, 2, {t1}) EXCEPT !.connected = FALSE, !.fails = Faults \ {"dropped"}],
     [Workload({SmallPut}, 2, {t1, t2}) EXCEPT !.connected = FALSE, !.fails = {"connect"}],
     [Workload({LongPut, Get({"eq"}, "immediate", TRUE)}, 2, {t1, t2})
        EXCEPT !.release = TRUE],
     [Workload({SmallPut}, 7, {t1}) EXCEPT !.max_req_avail = 6]}

\* A put of an iovec that asks for nothing.
IovecWorkload ==
    {[Workload({Put({}, "PTL_NO_ACK_REQ", "iovec", TRUE)}, 1, {t1}) EXCEPT !.release = TRUE]}

\* A get that cannot be sent.
LostWorkload ==
    {[Workload({Get({"eq"}, "immediate", TRUE)}, 1, {t1}) EXCEPT !.fails = {"post"}]}

\* A get whose packet is not copied, on a connection that breaks.
FlushWorkload ==
    {[Workload({Get({"eq"}, "immediate", FALSE)}, 1, {t1}) EXCEPT !.fails = {"unsignaled"}]}
=============================================================================
