------------------------------- MODULE Iovec -------------------------------
(***************************************************************************)
(* Walking lists of memory segments (ptl_iov.c, and the loops of the same  *)
(* shape in ptl_tgt.c, ptl_rdma.c and ptl_mem.c).                          *)
(*                                                                         *)
(* A segment is [base, len].  A walk yields pieces [addr, at, n]: n bytes  *)
(* at address addr go with the bytes of a linear buffer from offset at.    *)
(* Segments are numbered from 1.  Lengths are ptl_size_t: a subtraction    *)
(* that would go below zero wraps at SizeMod.                              *)
(***************************************************************************)
EXTENDS Integers, Sequences, FiniteSetsExt

CONSTANT SizeMod

ASSUME SizeModAssumption == SizeMod \in Nat \ {0}

\* Bytes in the first i segments.
Upto(iov, i) == MapThenSumSet(LAMBDA j : iov[j].len, 1 .. i)

\* The first segment for which P holds, 0 if there is none.
First(iov, P(_)) == LET hits == {i \in 1 .. Len(iov) : P(i)}
                    IN  IF hits = {} THEN 0 ELSE Min(hits)

Least(a, b) == IF a < b THEN a ELSE b

Bytes(pieces) == MapThenSumSet(LAMBDA j : pieces[j].n, DOMAIN pieces)

\* The second loop of iov_copy_out and iov_copy_in: from byte off of segment i
\* on, every segment is used up to its end until length bytes are found.
RECURSIVE CopyFrom(_, _, _, _, _)
CopyFrom(iov, i, off, at, length) ==
    IF i > Len(iov) \/ at = length THEN <<>>
    ELSE LET n == Least((iov[i].len - off) % SizeMod, length - at)
         IN  <<[addr |-> iov[i].base + off, at |-> at, n |-> n]>>
             \o CopyFrom(iov, i + 1, 0, at + n, length)

\* The last loop of iov_atomic_in: an empty remainder is passed over, and the
\* offset is kept for the next segment.
RECURSIVE AtomicFrom(_, _, _, _, _)
AtomicFrom(iov, i, off, at, length) ==
    IF i > Len(iov) \/ at >= length THEN <<>>
    ELSE LET room == (iov[i].len - off) % SizeMod
             n == Least(room, length - at)
         IN  IF room = 0 THEN AtomicFrom(iov, i + 1, off, at, length)
             ELSE <<[addr |-> iov[i].base + off, at |-> at, n |-> n]>>
                  \o AtomicFrom(iov, i + 1, 0, at + n, length)

Walked(pieces, length) == [ok |-> Bytes(pieces) = length, pieces |-> pieces]
WalkFailed == [ok |-> FALSE, pieces |-> <<>>]

iov_copy_out(iov, offset, length) ==
    LET i == First(iov, LAMBDA j : offset <= Upto(iov, j))
    IN  IF i = 0 THEN WalkFailed
        ELSE Walked(CopyFrom(iov, i, offset - Upto(iov, i - 1), 0, length), length)

iov_copy_in(iov, offset, length) ==
    LET i == First(iov, LAMBDA j : offset < Upto(iov, j))
    IN  IF i = 0 THEN WalkFailed
        ELSE Walked(CopyFrom(iov, i, offset - Upto(iov, i - 1), 0, length), length)

\* Where the first loop of iov_atomic_in and the one of init_local_offset end:
\* after the segment that holds the last byte before offset, with the part of
\* that segment that lies before offset.  0 is returned as index when the list
\* ends before offset.
PastOffset(iov, offset) ==
    LET i == First(iov, LAMBDA j : offset <= Upto(iov, j))
    IN  IF offset = 0 THEN [index |-> 1, off |-> 0]
        ELSE IF i = 0 THEN [index |-> 0, off |-> 0]
        ELSE [index |-> i + 1, off |-> offset - Upto(iov, i - 1)]

iov_atomic_in(iov, offset, length) ==
    LET s == PastOffset(iov, offset)
    IN  IF s.index = 0 THEN WalkFailed
        ELSE Walked(AtomicFrom(iov, s.index, s.off, 0, length), length)

\* The segments that hold length bytes from offset: how many, the first, and
\* where the data starts in it.  No segments when the data does not fit.
iov_count_elem(iov, offset, length) ==
    LET first == First(iov, LAMBDA j : offset < Upto(iov, j))
        last == First(iov, LAMBDA j : j >= first /\ offset + length <= Upto(iov, j))
    IN  IF first = 0 \/ last = 0 THEN [num |-> -1, index |-> 0, base |-> 0]
        ELSE [num |-> last - first + 1, index |-> first,
              base |-> offset - Upto(iov, first - 1)]

=============================================================================
