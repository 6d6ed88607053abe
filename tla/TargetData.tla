----------------------------- MODULE TargetData -----------------------------
(***************************************************************************)
(* How the bytes of a request move between the initiator's memory          *)
(* descriptors and the list element it matched: the data descriptor the    *)
(* initiator builds (ptl_data.c, ptl_rdma.c, p4ppe.c), the data states of  *)
(* the target state machine (ptl_tgt.c), the transfer by RDMA work         *)
(* requests or by local copies (ptl_rdma.c, ptl_mem.c), and the copy of an *)
(* immediate reply at the initiator (ptl_init.c).                          *)
(*                                                                         *)
(* One progress thread runs the target's state machines; a request leaves  *)
(* its machine to wait for RDMA completions while others run.  The memory  *)
(* of each side is a sequence of bytes, so that a byte written outside the *)
(* range of a request is seen.                                             *)
(***************************************************************************)
EXTENDS AtomicOps, Iovec, TLC

CONSTANT Workloads

VARIABLES load,    \* what is asked for in this behaviour
          tmem,    \* the target's memory
          imem,    \* the initiator's memory
          meoff,   \* me->offset of a locally managed list element
          rq,      \* the requests, as bufs of the target
          cur,     \* the request the progress thread runs, 0 when none
          sent,    \* how many requests the initiator has sent
          posted,  \* the work requests on the queue pair
          cq,      \* the completion queue
          mutex,   \* whether ni->atomic_mutex is held
          faulty   \* the requests for which a call of the target has failed

vars == <<load, tmem, imem, meoff, rq, cur, sent, posted, cq, mutex, faulty>>

Reqs == DOMAIN load.reqs
me == load.me
Atomics == {"ATOMIC", "FETCH", "SWAP"}
Gets == {"GET", "FETCH", "SWAP"}
Puts == {"PUT", "ATOMIC", "FETCH", "SWAP"}

\* The bytes at the pieces, and memory m with the pieces overwritten in turn.
Gathered(m, pieces) ==
    FlattenSeq([j \in DOMAIN pieces |->
                    SubSeq(m, pieces[j].addr, pieces[j].addr + pieces[j].n - 1)])

Put(m, pieces, bytes) ==
    FoldLeft(LAMBDA acc, p : SubSeq(acc, 1, p.addr - 1)
                             \o SubSeq(bytes, p.at + 1, p.at + p.n)
                             \o SubSeq(acc, p.addr + p.n, Len(acc)),
             m, pieces)

\* A memory descriptor or list element that is no iovec is one segment.
Plain(d, offset, length) ==
    [ok |-> TRUE,
     pieces |-> <<[addr |-> d.start + offset, at |-> 0, n |-> length]>>]

-----------------------------------------------------------------------------
(* The initiator: prepare_req and init_prepare_transfer.                   *)

NoData == [fmt |-> "NONE", data |-> <<>>, sge |-> <<>>, base |-> 0]

append_immediate_data(m, d, dir, offset, length) ==
    LET w == IF d.iov # <<>> THEN iov_copy_out(d.iov, offset, length)
             ELSE Plain(d, offset, length)
    IN  [NoData EXCEPT !.fmt = "IMMEDIATE",
                       !.data = IF dir = "OUT" /\ length > 0
                                THEN Gathered(m, w.pieces) ELSE <<>>]

\* A descriptor of one segment, or of num segments from the one numbered first.
append_init_data_direct(d, offset, length) ==
    [NoData EXCEPT !.fmt = "DMA",
                   !.sge = <<[base |-> d.start + offset, len |-> length]>>]

append_init_data_iovec(d, fmt, c, first) ==
    [NoData EXCEPT !.fmt = fmt, !.base = c.base,
                   !.sge = SubSeq(d.iov, first, first + c.num - 1)]

rdma_init_prepare_transfer(d, offset, length) ==
    LET c == iov_count_elem(d.iov, offset, length)
        fmt == IF c.num > load.max_inline_sge THEN "INDIRECT" ELSE "DMA"
    IN  IF d.iov = <<>> THEN append_init_data_direct(d, offset, length)
        ELSE append_init_data_iovec(d, fmt, c, c.index)

\* With KNEM an indirect list starts at the first segment of the memory
\* descriptor ("BUG ALERT? iov_start not used").
shmem_init_prepare_transfer(d, offset, length) ==
    LET c == iov_count_elem(d.iov, offset, length)
    IN  IF d.iov = <<>> THEN append_init_data_direct(d, offset, length)
        ELSE IF c.num > load.max_inline_sge
        THEN append_init_data_iovec(d, "INDIRECT", c, 1)
        ELSE append_init_data_iovec(d, "DMA", c, c.index)

\* In the process engine a list is never copied into the message.
ppe_init_prepare_transfer(d, offset, length) ==
    LET c == iov_count_elem(d.iov, offset, length)
    IN  IF d.iov = <<>> THEN append_init_data_direct(d, offset, length)
        ELSE append_init_data_iovec(d, "INDIRECT", c, c.index)

init_prepare_transfer(d, dir, offset, length) ==
    IF length <= load.max_inline_data
    THEN append_immediate_data(imem, d, dir, offset, length)
    ELSE CASE load.transport = "rdma" -> rdma_init_prepare_transfer(d, offset, length)
           [] load.transport = "knem" -> shmem_init_prepare_transfer(d, offset, length)
           [] load.transport = "mem" -> ppe_init_prepare_transfer(d, offset, length)

NewBuf == [state |-> "NONE", roffset |-> 0, din |-> NoData, dout |-> NoData,
           moffset |-> 0, mlength |-> 0, put_resid |-> 0, get_resid |-> 0,
           index |-> 0, off |-> 0, rem |-> 0, rem_off |-> 0, dir |-> "IN",
           desc_ok |-> FALSE, rdma_comp |-> 0, rdma_list |-> 0,
           in_atomic |-> FALSE, indir_sge |-> FALSE, reply |-> <<>>,
           failed |-> FALSE]

\* A request is built and sent; a data descriptor that starts inside a segment
\* moves the offset at the target back ("this is completely bogus").
Send ==
    /\ sent < Len(load.reqs)
    /\ LET r == sent + 1
           q == load.reqs[r]
           get == IF q.op \in Gets
                  THEN init_prepare_transfer(load.get_md, "IN", q.get_offset, q.length)
                  ELSE NoData
           put == IF q.op \in Puts
                  THEN init_prepare_transfer(load.put_md, "OUT", q.put_offset, q.length)
                  ELSE NoData
       IN  /\ rq' = [rq EXCEPT ![r].state = "SENT",
                               ![r].roffset = (q.roffset - get.base - put.base) % SizeMod,
                               ![r].din = put, ![r].dout = get]
           /\ sent' = r
    /\ UNCHANGED <<load, tmem, imem, meoff, cur, posted, cq, mutex, faulty>>

-----------------------------------------------------------------------------
(* The target, up to the choice of the first data phase.                   *)

To(r, s) == rq' = [rq EXCEPT ![r].state = s]

Running(r, s) == cur = r /\ rq[r].state = s

\* The progress thread takes the next request, when it is in no machine.
Receive(r) ==
    /\ cur = 0
    /\ rq[r].state = "SENT"
    /\ \A p \in Reqs : rq[p].state = "SENT" => r <= p
    /\ cur' = r
    /\ To(r, "GET_LENGTH")
    /\ UNCHANGED <<load, tmem, imem, meoff, sent, posted, cq, mutex, faulty>>

\* cur_loc_iov_index and cur_loc_iov_off for an offset into the list element.
init_local_offset(offset) ==
    IF me.iov # <<>> THEN PastOffset(me.iov, offset)
    ELSE [index |-> 1, off |-> offset]

MatchedLength(q, offset) ==
    LET room == me.length - offset
        length == IF offset > me.length THEN 0 ELSE Least(room, q.length)
        limit == IF q.op \in {"PUT", "GET"} THEN load.max_msg_size
                 ELSE IF q.op = "SWAP" /\ q.atom # "SWAP"
                 THEN atom_type_size[q.type] ELSE load.max_atomic_size
    IN  Least(length, limit)

tgt_get_length(r) ==
    LET q == load.reqs[r]
        offset == IF me.manage_local THEN meoff ELSE rq[r].roffset
        length == MatchedLength(q, offset)
        loc == init_local_offset(offset)
    IN  /\ Running(r, "GET_LENGTH")
        /\ meoff' = IF me.manage_local THEN meoff + length ELSE meoff
        /\ rq' = [rq EXCEPT ![r].moffset = offset, ![r].mlength = length,
                            ![r].put_resid = IF q.op \in Puts THEN length ELSE 0,
                            ![r].get_resid = IF q.op \in Gets THEN length ELSE 0,
                            ![r].index = loc.index, ![r].off = loc.off,
                            ![r].state = IF loc.index = 0 THEN "ERROR" ELSE "DATA"]
        /\ UNCHANGED <<load, tmem, imem, cur, sent, posted, cq, mutex, faulty>>

\* Atomic requests take the mutex of the interface.  A request with nothing to
\* move releases it, taken or not, and keeps its flag.
tgt_data(r) ==
    LET q == load.reqs[r]
        atomic == q.op \in Atomics
        next == IF rq[r].get_resid > 0 THEN "DATA_OUT"
                ELSE IF rq[r].put_resid = 0 THEN "COMM_EVENT"
                ELSE IF q.op = "ATOMIC" THEN "ATOMIC_DATA_IN" ELSE "DATA_IN"
    IN  /\ Running(r, "DATA")
        /\ atomic => ~mutex
        /\ mutex' = IF next = "COMM_EVENT" THEN FALSE ELSE mutex \/ atomic
        /\ rq' = [rq EXCEPT ![r].in_atomic = @ \/ atomic, ![r].state = next]
        /\ UNCHANGED <<load, tmem, imem, meoff, cur, sent, posted, cq, faulty>>

-----------------------------------------------------------------------------
(* Data phases.                                                            *)

\* The transports' tgt_data_out, for both directions: an indirect list has to
\* be fetched first, except in the process engine, which can read it in place.
rdma_tgt_data_out(d) == IF d.fmt = "INDIRECT" THEN "WAIT_RDMA_DESC" ELSE "RDMA"
knem_tgt_data_out(d) == IF d.fmt = "INDIRECT" THEN "SHMEM_DESC" ELSE "RDMA"
ppe_tgt_data_out(d) == "RDMA"

StartTransfer(d) == CASE load.transport = "rdma" -> rdma_tgt_data_out(d)
                      [] load.transport = "knem" -> knem_tgt_data_out(d)
                      [] load.transport = "mem" -> ppe_tgt_data_out(d)

\* The data phase after the data has gone out.
SecondPhase(q) == IF q.op = "FETCH" THEN "ATOMIC_DATA_IN"
                  ELSE IF q.op = "SWAP" /\ q.atom # "SWAP" THEN "SWAP_DATA_IN"
                  ELSE "DATA_IN"

tgt_data_out(r) ==
    LET b == rq[r]
        w == IF me.iov # <<>> THEN iov_copy_out(me.iov, b.moffset, b.mlength)
             ELSE Plain(me, b.moffset, b.mlength)
    IN  /\ Running(r, "DATA_OUT")
        /\ IF b.dout.fmt = "IMMEDIATE"
           THEN rq' = [rq EXCEPT
                        ![r].dir = "OUT",
                        ![r].reply = IF w.ok THEN Gathered(tmem, w.pieces)
                                     ELSE <<>>,
                        ![r].state = IF ~w.ok THEN "ERROR"
                                     ELSE IF b.put_resid > 0
                                     THEN SecondPhase(load.reqs[r])
                                     ELSE "COMM_EVENT"]
           ELSE rq' = [rq EXCEPT ![r].dir = "OUT", ![r].rem = 1, ![r].rem_off = 0,
                                 ![r].state = StartTransfer(b.dout)]
        /\ UNCHANGED <<load, tmem, imem, meoff, cur, sent, posted, cq, mutex, faulty>>

\* Leaving an atomic request's last phase.
Unlock(r, next) ==
    /\ mutex' = (mutex /\ ~rq[r].in_atomic)
    /\ rq' = [rq EXCEPT ![r].in_atomic = FALSE, ![r].state = next]

tgt_copy_in(b, bytes) ==
    LET w == IF me.iov # <<>> THEN iov_copy_in(me.iov, b.moffset, b.mlength)
             ELSE Plain(me, b.moffset, b.mlength)
    IN  [ok |-> w.ok, mem |-> Put(tmem, w.pieces, bytes)]

tgt_data_in(r) ==
    LET b == rq[r]
        c == tgt_copy_in(b, b.din.data)
    IN  /\ Running(r, "DATA_IN")
        /\ IF b.din.fmt = "IMMEDIATE"
           THEN /\ tmem' = c.mem
                /\ IF c.ok THEN Unlock(r, "COMM_EVENT")
                   ELSE To(r, "ERROR") /\ UNCHANGED mutex
           ELSE /\ mutex' = (mutex /\ ~b.in_atomic)
                /\ rq' = [rq EXCEPT ![r].in_atomic = FALSE, ![r].dir = "IN",
                                    ![r].rem = 1, ![r].rem_off = 0,
                                    ![r].state = StartTransfer(b.din)]
                /\ UNCHANGED tmem
        /\ UNCHANGED <<load, imem, meoff, cur, sent, posted, cq, faulty>>

\* One call of the function of the operation for every piece.
atomic_in(b, q) ==
    LET w == IF me.iov # <<>> THEN iov_atomic_in(me.iov, b.moffset, b.mlength)
             ELSE Plain(me, b.moffset, b.mlength)
        call(p) == ApplyOp(q.atom, q.type, SubSeq(tmem, p.addr, p.addr + p.n - 1),
                           SubSeq(b.din.data, p.at + 1, p.at + p.n))
    IN  [ok |-> w.ok,
         mem |-> Put(tmem, w.pieces,
                     FlattenSeq([j \in DOMAIN w.pieces |-> call(w.pieces[j])]))]

tgt_atomic_data_in(r) ==
    LET b == rq[r]
        a == atomic_in(b, load.reqs[r])
    IN  /\ Running(r, "ATOMIC_DATA_IN")
        /\ IF b.din.fmt # "IMMEDIATE" \/ ~a.ok
           THEN To(r, "ERROR") /\ UNCHANGED <<mutex, tmem>>
           ELSE tmem' = a.mem /\ Unlock(r, "COMM_EVENT")
        /\ UNCHANGED <<load, imem, meoff, cur, sent, posted, cq, faulty>>

\* The element is read, swapped and written back; one in an iovec goes through
\* a copy, one elsewhere is worked on where it is.
tgt_swap_data_in(r) ==
    LET b == rq[r]
        q == load.reqs[r]
        w == IF me.iov # <<>> THEN iov_copy_out(me.iov, b.moffset, b.mlength)
             ELSE Plain(me, b.moffset, atom_type_size[q.type])
        dst == Gathered(tmem, w.pieces)
        new == swap_data_in(q.atom, q.type, dst, b.din.data, q.operand)
        c == tgt_copy_in(b, new)
    IN  /\ Running(r, "SWAP_DATA_IN")
        /\ IF ~w.ok \/ ~c.ok
           THEN To(r, "ERROR") /\ UNCHANGED <<mutex, tmem>>
           ELSE /\ tmem' = IF me.iov # <<>> THEN c.mem ELSE Put(tmem, w.pieces, new)
                /\ Unlock(r, "COMM_EVENT")
        /\ UNCHANGED <<load, imem, meoff, cur, sent, posted, cq, faulty>>

-----------------------------------------------------------------------------
(* Transfers that are not immediate.                                       *)

Descriptor(b) == IF b.dir = "IN" THEN b.din ELSE b.dout

\* build_sge: local pieces for at most bytes bytes from byte off of segment
\* index, no more than limit of them.
RECURSIVE build_sge(_, _, _, _)
build_sge(index, off, bytes, limit) ==
    IF bytes = 0 \/ limit = 0 THEN [pieces |-> <<>>, index |-> index, off |-> off]
    ELSE LET seg == me.iov[index]
             n == IF me.iov = <<>> THEN bytes
                  ELSE Least(bytes, (seg.len - off) % SizeMod)
             ends == me.iov # <<>> /\ off + n >= seg.len
             rest == build_sge(IF ends THEN index + 1 ELSE index,
                               IF ends THEN 0 ELSE off + n, bytes - n,
                               IF n > 0 THEN limit - 1 ELSE limit)
             addr == IF me.iov = <<>> THEN me.start + off ELSE seg.base + off
         IN  [rest EXCEPT !.pieces = <<[addr |-> addr, n |-> n]>> \o @]

Moved(pieces) == MapThenSumSet(LAMBDA j : pieces[j].n, DOMAIN pieces)

\* rdma_do_transfer: work requests until nothing is left or max_rdma_ops of
\* them are outstanding; s holds the loop's variables.  Each one is between
\* one remote segment and several local ones; the last one is signaled.
RECURSIVE rdma_do_transfer(_, _, _)
rdma_do_transfer(r, s, ops) ==
    IF s.resid = 0 THEN [wrs |-> <<>>, s |-> s, comp |-> 0]
    ELSE LET sge == Descriptor(rq[r]).sge
             want == Least(s.resid, sge[s.rem].len - s.rem_off)
             loc == build_sge(s.index, s.off, want, load.max_send_sge)
             n == Moved(loc.pieces)
             left == s.resid - n
             comp == left = 0 \/ ops + 1 >= load.max_rdma_ops
             ends == left > 0 /\ s.rem_off + n >= sge[s.rem].len
             wr == [r |-> r, dir |-> rq[r].dir, raddr |-> sge[s.rem].base + s.rem_off,
                    pieces |-> loc.pieces, signaled |-> comp, desc |-> FALSE]
             next == [resid |-> left, index |-> loc.index, off |-> loc.off,
                      rem |-> IF ends THEN s.rem + 1 ELSE s.rem,
                      rem_off |-> IF ends THEN 0 ELSE s.rem_off + n]
             rest == rdma_do_transfer(r, next, ops + 1)
         IN  IF comp THEN [wrs |-> <<wr>>, s |-> next, comp |-> 1]
             ELSE [rest EXCEPT !.wrs = <<wr>> \o @]

\* do_mem_copy and mem_do_transfer: the same double loop, all of it at once.
\* Nothing is copied for an empty remote segment, which ends the transfer with
\* PTL_FAIL.  num_rem_iovecs, the other test before PTL_FAIL, is not zero.
RECURSIVE mem_do_transfer(_, _)
mem_do_transfer(r, s) ==
    IF s.resid = 0 \/ Descriptor(rq[r]).sge[s.rem].len = 0
    THEN [wrs |-> <<>>, s |-> s, comp |-> 0]
    ELSE LET sge == Descriptor(rq[r]).sge
             want == Least(s.resid, sge[s.rem].len)
             loc == build_sge(s.index, s.off, want, SizeMod)
             wr == [r |-> r, dir |-> rq[r].dir, raddr |-> sge[s.rem].base,
                    pieces |-> loc.pieces, signaled |-> FALSE, desc |-> FALSE]
             next == [s EXCEPT !.resid = @ - want, !.index = loc.index,
                               !.off = loc.off, !.rem = @ + 1]
             rest == mem_do_transfer(r, next)
         IN  [rest EXCEPT !.wrs = <<wr>> \o @]

\* What a work request, or a local copy, does to the two memories.
At(pieces, j) == MapThenSumSet(LAMBDA i : pieces[i].n, 1 .. j - 1)

Carry(t, i, wr) ==
    LET n == Moved(wr.pieces)
        ps == [j \in DOMAIN wr.pieces |->
                [addr |-> wr.pieces[j].addr, at |-> At(wr.pieces, j),
                 n |-> wr.pieces[j].n]]
        rp == <<[addr |-> wr.raddr, at |-> 0, n |-> n]>>
    IN  IF wr.dir = "IN" THEN <<Put(t, ps, Gathered(i, rp)), i>>
        ELSE <<t, Put(i, rp, Gathered(t, ps))>>

\* The rest of the machine once a transfer has nothing left.
AfterTransfer(r, b) ==
    LET loc == init_local_offset(b.moffset)
    IN  IF b.put_resid = 0 THEN [b EXCEPT !.indir_sge = FALSE, !.state = "COMM_EVENT"]
        ELSE [b EXCEPT !.index = loc.index, !.off = loc.off, !.indir_sge = FALSE,
                       !.state = IF loc.index = 0 THEN "ERROR"
                                 ELSE SecondPhase(load.reqs[r])]

Resid(b) == IF b.dir = "IN" THEN b.put_resid ELSE b.get_resid

After(b, d) ==
    [b EXCEPT !.index = d.s.index, !.off = d.s.off, !.rem = d.s.rem,
              !.rem_off = d.s.rem_off, !.rdma_comp = @ + d.comp,
              !.rdma_list = @ + Len(d.wrs),
              !.put_resid = IF b.dir = "IN" THEN d.s.resid ELSE @,
              !.get_resid = IF b.dir = "OUT" THEN d.s.resid ELSE @]

\* Where the loop of rdma_do_transfer starts: the offset into the remote
\* segment is 0 whatever the last call stored.
LoopStart(b) == [resid |-> Resid(b), index |-> b.index, off |-> b.off,
                 rem |-> b.rem, rem_off |-> 0]

\* Changed: the machine goes on when everything has been posted.
tgt_rdma_NoWait(r) ==
    LET b == rq[r]
        d == rdma_do_transfer(r, LoopStart(b), 0)
        a == After(b, d)
    IN  /\ Running(r, "RDMA")
        /\ load.transport = "rdma"
        /\ posted' = posted \o d.wrs
        /\ IF Resid(a) > 0
           THEN rq' = [rq EXCEPT ![r] = a] /\ cur' = 0
           ELSE rq' = [rq EXCEPT ![r] = AfterTransfer(r, a)] /\ UNCHANGED cur
        /\ UNCHANGED <<load, tmem, imem, meoff, sent, cq, mutex, faulty>>

\* tgt_rdma over InfiniBand: post, and leave the machine until the signaled
\* work request completes; the last visit finds nothing left.
tgt_rdma(r) ==
    LET b == rq[r]
        d == rdma_do_transfer(r, LoopStart(b), 0)
        a == After(b, d)
    IN  /\ Running(r, "RDMA")
        /\ load.transport = "rdma"
        /\ posted' = posted \o d.wrs
        /\ IF Resid(a) > 0 \/ a.rdma_comp > 0
           THEN rq' = [rq EXCEPT ![r] = a] /\ cur' = 0
           ELSE rq' = [rq EXCEPT ![r] = AfterTransfer(r, a)] /\ UNCHANGED cur
        /\ UNCHANGED <<load, tmem, imem, meoff, sent, cq, mutex, faulty>>

\* tgt_rdma over local memory (KNEM, or inside the process engine): the copies
\* are made before it returns.
tgt_rdma_local(r) ==
    LET b == rq[r]
        d == mem_do_transfer(r, LoopStart(b))
        m == FoldLeft(LAMBDA acc, wr : Carry(acc[1], acc[2], wr),
                      <<tmem, imem>>, d.wrs)
        a == [After(b, d) EXCEPT !.rdma_list = 0]
    IN  /\ Running(r, "RDMA")
        /\ load.transport # "rdma"
        /\ tmem' = m[1]
        /\ imem' = m[2]
        /\ rq' = [rq EXCEPT ![r] = IF Resid(a) > 0 THEN [a EXCEPT !.state = "ERROR"]
                                   ELSE AfterTransfer(r, a)]
        /\ UNCHANGED <<load, meoff, cur, sent, posted, cq, mutex, faulty>>

\* A call for request r fails.
Fails(r) == Cardinality(faulty) < load.faults /\ faulty' = faulty \cup {r}

\* tgt_alloc_rdma_buf, build_sge or post_rdma fails for work request k + 1 of a
\* call: the ones before it stay on the queue pair and on the request's list,
\* and none of them is signaled.  Only post_rdma is called after rdma_comp has
\* been counted up.
tgt_rdma_fails(r) ==
    LET wrs == rdma_do_transfer(r, LoopStart(rq[r]), 0).wrs
    IN  /\ Running(r, "RDMA")
        /\ load.transport = "rdma"
        /\ Fails(r)
        /\ \E k \in 0 .. Len(wrs) - 1, posting \in BOOLEAN :
             /\ posted' = posted \o SubSeq(wrs, 1, k)
             /\ rq' = [rq EXCEPT ![r].rdma_list = @ + k, ![r].state = "ERROR",
                                 ![r].rdma_comp = IF posting /\ wrs[k + 1].signaled
                                                  THEN @ + 1 ELSE @]
        /\ UNCHANGED <<load, tmem, imem, meoff, cur, sent, cq, mutex>>

\* The pieces of a transfer one by one.
Singly(wr) == [j \in DOMAIN wr.pieces |->
                [wr EXCEPT !.raddr = @ + At(wr.pieces, j), !.pieces = <<wr.pieces[j]>>]]

\* The region of a local piece cannot be looked up: the pieces before it have
\* been copied, and the next round, which starts with it, copies nothing.
tgt_rdma_local_fails(r) ==
    LET d == mem_do_transfer(r, LoopStart(rq[r]))
        parts == FlattenSeq([j \in DOMAIN d.wrs |-> Singly(d.wrs[j])])
        m(k) == FoldLeft(LAMBDA acc, wr : Carry(acc[1], acc[2], wr),
                         <<tmem, imem>>, SubSeq(parts, 1, k))
    IN  /\ Running(r, "RDMA")
        /\ load.transport # "rdma"
        /\ Fails(r)
        /\ \E k \in 0 .. Len(parts) - 1 : tmem' = m(k)[1] /\ imem' = m(k)[2]
        /\ To(r, "ERROR")
        /\ UNCHANGED <<load, meoff, cur, sent, posted, cq, mutex>>

\* The list of remote segments is read from the initiator before it is used:
\* over InfiniBand by a work request of its own, process_rdma_desc.
tgt_wait_rdma_desc(r) ==
    /\ Running(r, "WAIT_RDMA_DESC")
    /\ IF rq[r].desc_ok
       THEN To(r, "RDMA") /\ UNCHANGED <<cur, posted>>
       ELSE /\ rq' = [rq EXCEPT ![r].indir_sge = TRUE]
            /\ posted' = Append(posted, [r |-> r, dir |-> "IN", raddr |-> 0,
                                         pieces |-> <<>>, signaled |-> TRUE,
                                         desc |-> TRUE])
            /\ cur' = 0
    /\ UNCHANGED <<load, tmem, imem, meoff, sent, cq, mutex, faulty>>

\* process_rdma_desc has no room for the list or cannot register it, or, with
\* the list already the request's, cannot post the read.
tgt_wait_rdma_desc_fails(r) ==
    /\ Running(r, "WAIT_RDMA_DESC")
    /\ ~rq[r].desc_ok
    /\ Fails(r)
    /\ \E posting \in BOOLEAN :
         rq' = [rq EXCEPT ![r].indir_sge = posting, ![r].state = "ERROR"]
    /\ UNCHANGED <<load, tmem, imem, meoff, cur, sent, posted, cq, mutex>>

tgt_shmem_desc(r) ==
    /\ Running(r, "SHMEM_DESC")
    /\ rq' = [rq EXCEPT ![r].indir_sge = TRUE, ![r].state = "RDMA"]
    /\ UNCHANGED <<load, tmem, imem, meoff, cur, sent, posted, cq, mutex, faulty>>

\* Without room for the list, or a region over it, the request goes on to its
\* event and its answer as if the data had been moved.
tgt_shmem_desc_fails(r) ==
    /\ Running(r, "SHMEM_DESC")
    /\ Fails(r)
    /\ To(r, "COMM_EVENT")
    /\ UNCHANGED <<load, tmem, imem, meoff, cur, sent, posted, cq, mutex>>

\* The adapter carries out the next work request.
Execute ==
    /\ posted # <<>>
    /\ LET wr == Head(posted)
           m == Carry(tmem, imem, wr)
       IN  /\ tmem' = IF wr.desc THEN tmem ELSE m[1]
           /\ imem' = IF wr.desc THEN imem ELSE m[2]
           /\ cq' = IF wr.signaled THEN Append(cq, wr) ELSE cq
    /\ posted' = Tail(posted)
    /\ UNCHANGED <<load, meoff, rq, cur, sent, mutex, faulty>>

\* rdma_comp in ptl_recv.c: the completed work request, and those before it on
\* the request's list, are dropped, and the machine is entered again.
rdma_comp ==
    /\ cur = 0
    /\ cq # <<>>
    /\ LET wr == Head(cq)
           waiting == Len(SelectSeq(posted, LAMBDA w : w.r = wr.r))
       IN  /\ rq' = [rq EXCEPT ![wr.r] =
                        IF wr.desc THEN [@ EXCEPT !.desc_ok = TRUE]
                        ELSE [@ EXCEPT !.rdma_comp = @ - 1, !.rdma_list = waiting]]
           /\ cur' = wr.r
    /\ cq' = Tail(cq)
    /\ UNCHANGED <<load, tmem, imem, meoff, sent, posted, mutex, faulty>>

-----------------------------------------------------------------------------
(* The end of the machine, and the initiator's copy of an immediate reply. *)

\* Event, acknowledgement or reply, and cleanup.
Finish(r) ==
    /\ Running(r, "COMM_EVENT")
    /\ cur' = 0
    /\ To(r, "ANSWERED")
    /\ UNCHANGED <<load, tmem, imem, meoff, sent, posted, cq, mutex, faulty>>

Error(r) ==
    /\ Running(r, "ERROR")
    /\ mutex' = (mutex /\ ~rq[r].in_atomic)
    /\ cur' = 0
    /\ rq' = [rq EXCEPT ![r].in_atomic = FALSE, ![r].state = "DONE",
                        ![r].failed = TRUE]
    /\ UNCHANGED <<load, tmem, imem, meoff, sent, posted, cq, faulty>>

\* data_in of the initiator.
data_in(r) ==
    LET d == load.get_md
        q == load.reqs[r]
        b == rq[r]
        w == IF d.iov # <<>> THEN iov_copy_in(d.iov, q.get_offset, b.mlength)
             ELSE Plain(d, q.get_offset, b.mlength)
    IN  /\ b.state = "ANSWERED"
        /\ imem' = IF b.reply = <<>> THEN imem ELSE Put(imem, w.pieces, b.reply)
        /\ rq' = [rq EXCEPT ![r].state = "DONE", ![r].failed = b.reply # <<>> /\ ~w.ok]
        /\ UNCHANGED <<load, tmem, meoff, cur, sent, posted, cq, mutex, faulty>>

AllDone == \A r \in Reqs : rq[r].state = "DONE"

Stop == AllDone /\ UNCHANGED vars

Init ==
    /\ load \in Workloads
    /\ tmem = load.tmem
    /\ imem = load.imem
    /\ meoff = 0
    /\ rq = [r \in DOMAIN load.reqs |-> NewBuf]
    /\ cur = 0
    /\ sent = 0
    /\ posted = <<>>
    /\ cq = <<>>
    /\ mutex = FALSE
    /\ faulty = {}

process_tgt(r) ==
    \/ tgt_get_length(r) \/ tgt_data(r) \/ tgt_data_out(r) \/ tgt_data_in(r)
    \/ tgt_atomic_data_in(r) \/ tgt_swap_data_in(r)
    \/ tgt_rdma(r) \/ tgt_rdma_local(r)
    \/ tgt_rdma_fails(r) \/ tgt_rdma_local_fails(r)
    \/ tgt_wait_rdma_desc(r) \/ tgt_wait_rdma_desc_fails(r)
    \/ tgt_shmem_desc(r) \/ tgt_shmem_desc_fails(r)
    \/ Finish(r) \/ Error(r)

Step ==
    \/ Send
    \/ \E r \in Reqs : Receive(r) \/ process_tgt(r) \/ data_in(r)
    \/ Execute
    \/ rdma_comp

Next == Step \/ Stop

Spec == Init /\ [][Next]_vars

-----------------------------------------------------------------------------
(* What the requests should do, one after the other: a reference that      *)
(* knows nothing of segments, descriptors, C types or phases.              *)

\* The address of byte k of a memory descriptor or list element.
Address(d, k) ==
    IF d.iov = <<>> THEN d.start + k
    ELSE LET i == CHOOSE i \in DOMAIN d.iov :
                    k \in Upto(d.iov, i - 1) .. Upto(d.iov, i) - 1
         IN  d.iov[i].base + k - Upto(d.iov, i - 1)

Number(t, bs) ==
    LET n == FromBytes(bs)  all == Bits(Len(bs))  neg == n >= all \div 2
    IN  IF t \in FloatTypes THEN IF neg THEN all \div 2 - n ELSE n
        ELSE IF neg /\ t \in {"INT8", "INT16", "INT32", "INT64"} THEN n - all ELSE n

Component(t) == CASE t = "FLOAT_COMPLEX" -> "FLOAT" [] t = "DOUBLE_COMPLEX" -> "DOUBLE"
                  [] t = "LONG_DOUBLE_COMPLEX" -> "LONG_DOUBLE"
                  [] OTHER -> t

\* The number x is what the bytes stand for, as far as the type can say it.
Stored(t, x, size) ==
    LET top == Bits(size) \div 2 - 1
        m == Least(IF x < 0 THEN -x ELSE x, top)
    IN  IF t \in FloatTypes THEN ToBytes(IF x < 0 THEN top + 1 + m ELSE m, size)
        ELSE ToBytes(x % Bits(size), size)

Bit(n, k) == (n \div 2 ^ k) % 2
BitWise(P(_, _), a, b, size) ==
    MapThenSumSet(LAMBDA k : IF P(Bit(a, k) = 1, Bit(b, k) = 1) THEN 2 ^ k ELSE 0,
                  0 .. size * ByteBits - 1)

RefScalar(op, t, src, dst) ==
    LET a == Number(t, src)  b == Number(t, dst)  size == Len(src)
        ua == FromBytes(src)  ub == FromBytes(dst)
        x == CASE op = "MIN" -> Min({a, b})
               [] op = "MAX" -> Max({a, b})
               [] op = "SUM" -> a + b
               [] op = "PROD" -> a * b
               [] op = "LOR" -> IF a = 0 /\ b = 0 THEN 0 ELSE 1
               [] op = "LAND" -> IF a = 0 \/ b = 0 THEN 0 ELSE 1
               [] op = "LXOR" -> IF (a = 0) = (b = 0) THEN 0 ELSE 1
               [] op = "BOR" -> BitWise(LAMBDA p, q : p \/ q, ua, ub, size)
               [] op = "BAND" -> BitWise(LAMBDA p, q : p /\ q, ua, ub, size)
               [] op = "BXOR" -> BitWise(LAMBDA p, q : p # q, ua, ub, size)
    IN  Stored(t, x, size)

RefAtomic(op, t, src, dst) ==
    LET c == Component(t)  h == Len(src) \div 2
        lo(bs) == SubSeq(bs, 1, h)  hi(bs) == SubSeq(bs, h + 1, 2 * h)
        re(bs) == Number(c, lo(bs))  im(bs) == Number(c, hi(bs))
    IN  IF c = t THEN RefScalar(op, t, src, dst)
        ELSE IF op = "SUM"
        THEN RefScalar(op, c, lo(src), lo(dst)) \o RefScalar(op, c, hi(src), hi(dst))
        ELSE Stored(c, re(src) * re(dst) - im(src) * im(dst), h)
             \o Stored(c, re(src) * im(dst) + im(src) * re(dst), h)

RefSwap(op, t, src, dst, operand) ==
    LET c == Component(t)  h == Len(src) \div (IF c = t THEN 1 ELSE 2)
        same == \A i \in 0 .. Len(src) \div h - 1 :
                    Number(c, SubSeq(operand, i * h + 1, i * h + h))
                    = Number(c, SubSeq(dst, i * h + 1, i * h + h))
        o == Number(c, operand)  d == Number(c, dst)
        takes == CASE op = "SWAP" -> TRUE
                   [] op = "CSWAP" -> same
                   [] op = "CSWAP_NE" -> ~same
                   [] op = "CSWAP_LE" -> same \/ o < d
                   [] op = "CSWAP_LT" -> o < d
                   [] op = "CSWAP_GE" -> same \/ o > d
                   [] op = "CSWAP_GT" -> o > d
    IN  IF op = "MSWAP"
        THEN ToBytes(BitWise(LAMBDA p, q : p /\ q, FromBytes(operand),
                             FromBytes(src), Len(src))
                     + BitWise(LAMBDA p, q : ~p /\ q, FromBytes(operand),
                               FromBytes(dst), Len(src)), Len(src))
        ELSE IF takes THEN src ELSE dst

Elements(F(_, _), src, dst, w) ==
    LET n == Len(dst) \div w
        e(bs, i) == SubSeq(bs, (i - 1) * w + 1, i * w)
    IN  FlattenSeq([i \in 1 .. n |-> F(e(src, i), e(dst, i))])
        \o SubSeq(dst, n * w + 1, Len(dst))

\* One request, done at once: s.t and s.i are the memories, s.off the managed
\* offset of the list element.
RefRequest(s, q) ==
    LET offset == IF me.manage_local THEN s.off ELSE q.roffset
        most == IF q.op \in {"PUT", "GET"} THEN load.max_msg_size
                ELSE IF q.op = "SWAP" /\ q.atom # "SWAP" THEN atom_type_size[q.type]
                ELSE load.max_atomic_size
        n == IF offset > me.length THEN 0
             ELSE Min({q.length, me.length - offset, most})
        taddr(k) == Address(me, offset + k - 1)
        src == [k \in 1 .. n |-> s.i[Address(load.put_md, q.put_offset + k - 1)]]
        dst == [k \in 1 .. n |-> s.t[taddr(k)]]
        new == CASE q.op = "PUT" -> src
                 [] q.op = "GET" -> dst
                 [] q.op = "SWAP" ->
                        IF q.atom = "SWAP" THEN src
                        ELSE RefSwap(q.atom, q.type, src, dst, q.operand)
                 [] OTHER -> Elements(LAMBDA a, b : RefAtomic(q.atom, q.type, a, b),
                                      src, dst, atom_type_size[q.type])
    IN  [t |-> [a \in DOMAIN s.t |->
                    IF \E k \in 1 .. n : taddr(k) = a
                    THEN new[CHOOSE k \in 1 .. n : taddr(k) = a] ELSE s.t[a]],
         i |-> IF q.op \notin Gets THEN s.i
               ELSE [a \in DOMAIN s.i |->
                        LET at(k) == Address(load.get_md, q.get_offset + k - 1)
                        IN  IF \E k \in 1 .. n : at(k) = a
                            THEN dst[CHOOSE k \in 1 .. n : at(k) = a] ELSE s.i[a]],
         off |-> IF me.manage_local THEN s.off + n ELSE s.off]

\* The requests numbered in rs, in their order.
Reference(rs) ==
    FoldLeft(LAMBDA s, r : IF r \in rs THEN RefRequest(s, load.reqs[r]) ELSE s,
             [t |-> load.tmem, i |-> load.imem, off |-> 0],
             [r \in DOMAIN load.reqs |-> r])

\* A local copy meets an empty segment of the initiator before its end.
MeetsEmptySegment(r) ==
    LET b == rq[r]
        d == IF load.reqs[r].op \in Gets THEN b.dout ELSE b.din
    IN  /\ load.transport # "rdma"
        /\ \E j \in DOMAIN d.sge : d.sge[j].len = 0 /\ Upto(d.sge, j - 1) < b.mlength

-----------------------------------------------------------------------------
(* Properties.                                                             *)

\* When every request has been answered the memory of both sides is what the
\* requests say, applied one after the other: every byte in the matched range
\* moved or combined once, in its place, and no byte outside it touched,
\* whatever the segments, the descriptor and the number of work requests
\* (tgt_data_out, tgt_data_in, tgt_atomic_data_in, tgt_swap_data_in, tgt_rdma
\* and the copies and tables below them).  A request fails when the target
\* cannot do it, and when a local copy meets an empty segment (the PTL_FAIL of
\* mem_do_transfer); one that is broken off by that, or by a call that fails,
\* has moved some of its bytes and touched no others.
DataExact ==
    LET wanted == {r \in Reqs : ~load.reqs[r].fails}
        broken == {r \in wanted : r \in faulty \/ MeetsEmptySegment(r)}
        all == Reference(wanted)
        least == Reference(wanted \ broken)
    IN  AllDone =>
            /\ \A a \in DOMAIN tmem : tmem[a] \in {all.t[a], least.t[a]}
            /\ \A a \in DOMAIN imem : imem[a] \in {all.i[a], least.i[a]}
            /\ \A r \in Reqs \ faulty :
                  rq[r].failed = (load.reqs[r].fails \/ MeetsEmptySegment(r))

\* An answer, and the cleanup that drops the list element, come after the
\* data: no work request of an answered request is still on the queue pair,
\* the list of work requests that tgt_cleanup asserts to be empty is, and so
\* is the list of segments it asserts to be gone.  CleanedUp says what becomes
\* of a request that fails.
AnswerAfterData ==
    \A r \in Reqs : rq[r].state \in {"COMM_EVENT", "ANSWERED", "DONE"} /\ ~rq[r].failed =>
        /\ \A j \in DOMAIN posted : posted[j].r # r
        /\ rq[r].rdma_list = 0
        /\ ~rq[r].indir_sge

\* What tgt_cleanup asserts of every request it is called for, one that has
\* failed too: "assert(!buf->indir_sge)" and
\* "assert(list_empty(&buf->transfer.rdma.rdma_list))".
CleanedUp == \A r \in Reqs : rq[r].state = "DONE" => rq[r].rdma_list = 0 /\ ~rq[r].indir_sge

\* A request that is answered without a failure has moved all of its bytes
\* (the answer of tgt_comm_event reports mlength).
AnsweredMoved ==
    \A r \in Reqs : rq[r].state = "ANSWERED" /\ Descriptor(rq[r]).sge # <<>> =>
        Resid(rq[r]) = 0

\* The mutex that makes atomic requests atomic is held only while the progress
\* thread is inside an atomic request: none leaves the machine with it, by a
\* reply, a wait for completions or an error, so tgt_data never waits for it
\* (the unlocks of tgt_data_in, tgt_atomic_data_in, tgt_swap_data_in and of
\* STATE_TGT_ERROR).
MutexHasOwner == mutex => cur # 0 /\ rq[cur].in_atomic

\* An answered request leaves nothing behind: no work request, and no locked
\* mutex (AnswerAfterData, MutexHasOwner; tgt_rdma, tgt_cleanup).
AnsweredClean == AnswerAfterData /\ MutexHasOwner

=============================================================================
