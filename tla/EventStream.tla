---------------------------- MODULE EventStream ----------------------------
(***************************************************************************)
(* What an event queue of Size entries promises (the return values that    *)
(* ptl_eq.c documents for PtlEQGet, PtlEQWait and PtlEQPoll): events are   *)
(* read in the order in which they were written, each at most once; when   *)
(* the queue is overrun the oldest events are dropped, no more of them     *)
(* than necessary; and the read that follows a gap, and no other, says so. *)
(* Events are numbered in the order in which they are written.             *)
(***************************************************************************)
EXTENDS Naturals

CONSTANT Size

VARIABLES written,  \* the number of events written so far
          read,     \* the number of the next event that was not read or dropped
          last      \* the event that was read last, and whether a gap preceded it

streamVars == <<written, read, last>>

\* The oldest event that is neither read nor overwritten.
Oldest == IF read + Size < written THEN written - Size ELSE read

Init == written = 0 /\ read = 0 /\ last = [event |-> 0, dropped |-> FALSE]

Write == written' = written + 1 /\ UNCHANGED <<read, last>>

Read ==
    /\ read < written
    /\ last' = [event |-> Oldest, dropped |-> Oldest # read]
    /\ read' = Oldest + 1
    /\ UNCHANGED written

Next == Write \/ Read

Spec == Init /\ [][Next]_streamVars
=============================================================================
