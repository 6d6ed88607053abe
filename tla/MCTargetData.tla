---------------------------- MODULE MCTargetData ----------------------------
(***************************************************************************)
(* Instances of TargetData: every operation on every type, and transfers   *)
(* that cross segments on one side or on both.                             *)
(***************************************************************************)
EXTENDS TargetData

\* Some contents for a memory of n bytes.
Pattern(p, n) == [i \in 1 .. n |-> ((i * i * p + i \div p) \div 2) % Base]

Whole(start, length) == [iov |-> <<>>, start |-> start, length |-> length]
Segments(iov) == [iov |-> iov, start |-> 0, length |-> Upto(iov, Len(iov))]
Seg(b, n) == [base |-> b, len |-> n]

Element0(d, manage) == [iov |-> d.iov, start |-> d.start, length |-> d.length,
                        manage_local |-> manage]

Request == [op |-> "PUT", atom |-> "", type |-> "INT8", operand |-> <<>>,
            roffset |-> 0, length |-> 0, put_offset |-> 0, get_offset |-> 0,
            fails |-> FALSE]

\* Memory descriptors: the put one starts at 2, the get one after it.
Load0 == [transport |-> "rdma", max_inline_data |-> 64, max_inline_sge |-> 1,
          max_send_sge |-> 4, max_rdma_ops |-> 4, max_msg_size |-> 64,
          max_atomic_size |-> 64, faults |-> 0,
          me |-> Element0(Whole(2, 64), FALSE),
          put_md |-> Whole(2, 64), get_md |-> Whole(67, 64),
          tmem |-> Pattern(3, 68), imem |-> Pattern(2, 132),
          reqs |-> <<>>]

\* Every atomic operation on every type it is defined for: two elements, then
\* one fetched from behind them, on other bytes.
AtomicLoads ==
    {[Load0 EXCEPT
        !.tmem = Pattern(p, 100), !.imem = Pattern(p + 1, 132),
        !.me = Element0(Whole(2, 98), FALSE),
        !.reqs = <<[Request EXCEPT !.op = "ATOMIC", !.atom = op, !.type = t,
                                   !.length = 2 * atom_type_size[t]],
                   [Request EXCEPT !.op = "FETCH", !.atom = op, !.type = t,
                                   !.length = atom_type_size[t],
                                   !.put_offset = 3, !.get_offset = 1,
                                   !.roffset = 2 * atom_type_size[t] - 1]>>] :
      op \in AtomicOpNames, t \in Types, p \in {3, 7}}

Defined(l) == \A j \in DOMAIN l.reqs :
                l.reqs[j].atom # "" => Allowed(l.reqs[j].atom, l.reqs[j].type)


\* Every swap on every type, with an operand that equals the element and with
\* others, on a list element in one piece and on one whose segments end inside
\* the swapped element.
SwapLoads ==
    {[Load0 EXCEPT
        !.tmem = Pattern(p, 100), !.imem = Pattern(p + 1, 132),
        !.me = Element0(d, FALSE),
        !.reqs = <<[Request EXCEPT
                        !.op = "SWAP", !.atom = op, !.type = t, !.roffset = 1,
                        !.length = atom_type_size[t], !.put_offset = 2,
                        !.operand = IF p = q
                                    THEN [k \in 1 .. atom_type_size[t] |->
                                            Pattern(p, 100)[
                                              Address(d, k)]]
                                    ELSE Pattern(q, atom_type_size[t])]>>] :
      op \in SwapOpNames, t \in Types, p \in {3, 7}, q \in {3, 5},
      d \in {Whole(2, 98), Segments(<<Seg(3, 2), Seg(8, 5), Seg(40, 40)>>)}}

Small == [Load0 EXCEPT !.max_inline_data = 2, !.max_inline_sge = 2,
                       !.max_send_sge = 2, !.max_rdma_ops = 2,
                       !.tmem = Pattern(3, 14), !.imem = Pattern(5, 26),
                       !.me = Element0(Whole(2, 12), FALSE),
                       !.put_md = Whole(2, 12), !.get_md = Whole(14, 12)]

PutOf(n, off, roff) == [Request EXCEPT !.length = n, !.put_offset = off, !.roffset = roff]
GetOf(n, off, roff) == [Request EXCEPT !.op = "GET", !.length = n, !.get_offset = off,
                                       !.roffset = roff]
AtomicOf(n, off, roff) == [Request EXCEPT !.op = "ATOMIC", !.atom = "SUM",
                                          !.type = "INT16", !.length = n,
                                          !.put_offset = off, !.roffset = roff]

Transports == {"rdma", "mem", "knem"}

\* Puts and gets between lists of segments, from a segment's start on the
\* initiator's side and from the beginning of a list of segments at the
\* target, and anywhere in a list element in one piece.
TransferLoads ==
    {[Small EXCEPT
        !.transport = tr, !.max_inline_sge = inl, !.max_send_sge = sge,
        !.me = Element0(m, FALSE),
        !.put_md = Segments(<<Seg(2, 2), Seg(5, 3), Seg(9, 1), Seg(10, 2)>>),
        !.get_md = Segments(<<Seg(14, 4), Seg(19, 0), Seg(20, 3)>>),
        !.reqs = rs] :
      tr \in Transports, inl \in {1, 4}, sge \in {2, 3},
      m \in {Segments(<<Seg(2, 5), Seg(7, 0), Seg(9, 4)>>), Whole(3, 9)},
      rs \in {<<PutOf(8, 0, 0)>>, <<GetOf(7, 0, 0)>>, <<PutOf(5, 0, 0)>>, <<GetOf(3, 4, 0)>>}}

\* More work requests than may be outstanding at a time: the limit is reached
\* where a segment of the initiator ends.
LongLoads ==
    {[Small EXCEPT
        !.put_md = Segments(<<Seg(2, 2), Seg(5, 2), Seg(8, 1), Seg(10, 2)>>),
        !.get_md = Segments(<<Seg(14, 1), Seg(16, 2), Seg(19, 2), Seg(22, 1)>>),
        !.max_inline_sge = inl, !.max_rdma_ops = ops,
        !.reqs = <<PutOf(7, 0, 0), GetOf(6, 0, 6)>>] :
      inl \in {2, 4}, ops \in {1, 2, 3}}

\* Several requests in the machine at once, on different bytes.
MixedLoads ==
    {[Small EXCEPT !.transport = tr, !.max_rdma_ops = 1,
                   !.reqs = <<PutOf(4, 0, 0), AtomicOf(2, 4, 4), GetOf(3, 1, 6),
                              PutOf(3, 6, 9)>>] : tr \in Transports}

\* Truncated, locally managed, empty and immediate requests, and a request the
\* target cannot do: an atomic one too long for the message, which a limit set
\* below the size of atomic data makes of it.
EdgeLoads ==
    {[Small EXCEPT !.reqs = <<PutOf(6, 0, 9), GetOf(5, 0, 8)>>],
     [Small EXCEPT !.me.manage_local = TRUE,
                   !.reqs = <<PutOf(5, 0, 0), PutOf(2, 5, 0), PutOf(7, 3, 0)>>],
     [Small EXCEPT !.reqs = <<PutOf(2, 0, 13), AtomicOf(2, 0, 12), GetOf(4, 0, 12),
                              AtomicOf(2, 0, 2)>>],
     [Small EXCEPT !.max_msg_size = 3, !.reqs = <<PutOf(5, 0, 0), GetOf(4, 0, 1)>>],
     [Small EXCEPT !.reqs = <<[AtomicOf(4, 0, 0) EXCEPT !.fails = TRUE],
                              AtomicOf(2, 3, 1), PutOf(1, 0, 9)>>],
     [Small EXCEPT !.max_inline_data = 4,
                   !.me = Element0(Segments(<<Seg(2, 2), Seg(5, 4), Seg(10, 2)>>), FALSE),
                   !.reqs = <<PutOf(4, 3, 2), GetOf(3, 2, 4), AtomicOf(4, 1, 0),
                              PutOf(3, 0, 1)>>]}

\* One call fails, for a request on its own and with others in the machine.
FaultLoads ==
    {[Small EXCEPT
        !.transport = tr, !.faults = 1, !.max_inline_sge = inl, !.max_rdma_ops = 3,
        !.me = Element0(Segments(<<Seg(2, 3), Seg(6, 5), Seg(12, 3)>>), FALSE),
        !.put_md = Segments(<<Seg(2, 2), Seg(5, 2), Seg(8, 1), Seg(10, 2)>>),
        !.get_md = Segments(<<Seg(14, 1), Seg(16, 2), Seg(19, 2), Seg(22, 1)>>),
        !.reqs = rs] :
      tr \in Transports, inl \in {2, 4}, rs \in {<<PutOf(7, 0, 0)>>, <<GetOf(6, 0, 0)>>}}
    \cup {[l EXCEPT !.faults = 1, !.max_rdma_ops = 2] : l \in MixedLoads}

DataLoads == {l \in AtomicLoads \cup SwapLoads : Defined(l)}
             \cup TransferLoads \cup LongLoads \cup MixedLoads \cup EdgeLoads
             \cup FaultLoads

\* Atomic requests that start inside a list element with several segments.
IovecAtomicLoads ==
    {[Small EXCEPT !.max_inline_data = 4,
                   !.me = Element0(Segments(<<Seg(2, 4), Seg(8, 4)>>), FALSE),
                   !.reqs = <<AtomicOf(2, 3, 2)>>]}

\* A transfer whose limit of outstanding work requests is reached inside a
\* segment of the initiator: the list element has many segments, the memory
\* descriptor one.
ResumedLoads ==
    {[Small EXCEPT !.max_send_sge = 1, !.max_rdma_ops = 2,
                   !.me = Element0(Segments(<<Seg(2, 2), Seg(5, 2), Seg(8, 2), Seg(11, 2)>>),
                                   FALSE),
                   !.reqs = <<PutOf(7, 0, 0)>>]}

=============================================================================
