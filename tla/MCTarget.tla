------------------------------ MODULE MCTarget ------------------------------
(***************************************************************************)
(* The target: matching, and the flow control of portal table entries.     *)
(* Each of the two modules leaves the other one's state open; a behaviour  *)
(* is of the one that has a workload.  The messages and entries are model  *)
(* values; m3 and e3 have match bits of their own, and o1, o2 are overflow *)
(* entries that match everything.                                          *)
(***************************************************************************)
EXTENDS TargetMatching, TLC

CONSTANTS m1, m2, m3, e1, e2, e3, o1, o2, p1, p2, FlowWorkloads

VARIABLES fload, state, num_tgt_active, tgt, eq, overflow, disabling, known

flowVars == <<fload, state, num_tgt_active, tgt, eq, overflow, disabling, known>>

Flow == INSTANCE FlowControl WITH load <- fload, PT <- {p1, p2},
                                  Workloads <- FlowWorkloads

MCLE == {e1, e2, e3, o1, o2}
MCBuf == {m1, m2, m3}
LiveLE == {e1, o1}
LiveBuf == {m1, m2}
LiveOverflow == {o1}

Bits(x) == IF x \in {m3, e3} THEN 2 ELSE 1
MCMatches ==
    {p \in Buf \X LE : p[2] \in {o1, o2} \/ Bits(p[1]) = Bits(p[2])}

Symmetry == Permutations(Thread)

-----------------------------------------------------------------------------
Workload(calls, les, bufs, threads, use_once) ==
    [calls |-> calls, les |-> les, bufs |-> bufs, threads |-> threads,
     denied |-> {}, use_once |-> use_once, hdr_disable |-> {}, failing |-> {},
     max_unexpected |-> 3, max_list |-> 2, type_me |-> TRUE]

NoMatching == Workload({}, {}, {}, 0, {})

\* Two threads append and search; entries with every option, a refused message
\* and lists at their limits; calls of unlink.  What is left out is PtlLEUnlink,
\* and calls of unlink together with entries that are unlinked automatically.
MCWorkloads ==
    {NoMatching,
     Workload({"append", "search_delete"}, {e1, e2, o1}, MCBuf, 2, {e1, e2}),
     [Workload({"append", "search_delete", "search_only"}, {e1, e3, o1, o2},
               MCBuf, 1, {e1, o2})
         EXCEPT !.denied = {<<m3, e3>>}, !.hdr_disable = {o2},
                !.max_unexpected = 1, !.max_list = 1],
     Workload({"append", "unlink"}, {e1, o1}, {m1, m2}, 2, {})}

\* Calls that wait: for a transfer, and for a lock.
LiveWorkloads ==
    {NoMatching,
     Workload({"append"}, {e1, o1}, {m1, m2}, 2, {e1}),
     Workload({"append", "unlink"}, {e1, o1}, {m1}, 2, {e1})}

\* PtlLEUnlink of an entry that a message is about to unlink.
RaceWorkload ==
    {[Workload({"append", "unlink"}, {e1}, {m1}, 1, {e1}) EXCEPT !.type_me = FALSE]}

\* A message whose transfer fails.
FailedWorkload ==
    {[Workload({"append"}, {e1, o1}, {m1}, 1, {}) EXCEPT !.failing = {m1}]}

-----------------------------------------------------------------------------
FlowLoad(calls, pts, bufs, count, max) ==
    [calls |-> calls, pts |-> pts, bufs |-> bufs, count |-> count,
     max |-> max, late |-> FALSE]

NoFlow == FlowLoad({}, {}, {}, 1, 0)
NoFlowLoads == {NoFlow}
NoMatchingLoads == {NoMatching}

\* Entries that stop for lack of headers and are enabled after the event was
\* read; an entry that is disabled and enabled while messages are active; a
\* queue that overflows while its entries are disabled.  What is left out is a
\* message to a disabled entry, and PtlPTEnable together with an overflow.
FlowLoads ==
    {NoFlow,
     FlowLoad({"get", "enable"}, {p1, p2}, {m1, m2}, 9, 2),
     FlowLoad({"disable", "enable"}, {p1}, {m1, m2, m3}, 9, 2),
     FlowLoad({"get", "disable"}, {p1, p2}, {m1, m2}, 2, 2)}

\* Calls that wait for the active messages, and an application that waits for
\* the event of an entry that stopped.
LiveFlowLoads ==
    {NoFlow,
     FlowLoad({"disable", "enable"}, {p1}, {m1, m2}, 9, 2),
     FlowLoad({"get", "enable"}, {p1}, {m1, m2}, 9, 1)}

\* Messages that were sent before the sender can know that the entry is disabled.
LateFlowLoads ==
    {[FlowLoad({"get", "disable"}, {p1}, {m1, m2}, 9, 2) EXCEPT !.late = TRUE]}

-----------------------------------------------------------------------------
TargetInit == Init /\ Flow!Init /\ (load = NoMatching <=> fload # NoFlow)

MatchStep(A) == fload = NoFlow /\ A /\ UNCHANGED flowVars
FlowStep(A) == fload # NoFlow /\ A /\ UNCHANGED vars

TargetNext == MatchStep(Next) \/ FlowStep(Flow!Next)

targetVars == <<vars, flowVars>>
TargetSpec == TargetInit /\ [][TargetNext]_targetVars

\* As in TargetMatching and FlowControl; in no behaviour do both take steps.
LiveSpec ==
    /\ TargetSpec
    /\ \A b \in Buf : SF_targetVars(MatchStep(process_tgt(b))
                                      \/ FlowStep(Flow!process_tgt(b)))
    /\ \A t \in Thread : /\ WF_vars(MatchStep(append_or_search(t)))
                         /\ SF_vars(MatchStep(unlink(t)))
    /\ WF_flowVars(FlowStep(Flow!PtlPTDisableReturn(p1)))
    /\ WF_flowVars(FlowStep(Flow!PtlEQGet))

\* num_tgt_active is the number of active messages, and PtlPTDisable has returned
\* only when there is none (Flow!ActiveCountExact, Flow!ActiveDone; ptl_pt.c).
ActiveDone == Flow!TypeOK /\ Flow!ActiveCountExact /\ Flow!ActiveDone

\* A full queue stops every entry that posts to it (Flow!OverflowStops,
\* process_overflowing).
OverflowStops == Flow!OverflowStops

\* Whoever waits for a message goes on: appends, calls of unlink, PtlPTDisable, and
\* an application that reads its events to learn that an entry has stopped for lack
\* of resources (AppendReturns, UnlinkReturns, Flow!DisableReturns,
\* Flow!AutoDisableReported; ptl_le.c, ptl_me.c, ptl_pt.c, tgt_cleanup).
TargetProgress ==
    /\ AppendReturns /\ UnlinkReturns
    /\ disabling[p1] ~> ~disabling[p1]
    /\ fload # NoFlow => Flow!AutoDisableReported

\* PtlPTDisable has returned only when no message is active
\* (Flow!ActiveDone, ptl_pt.c).
DisabledDone == Flow!ActiveDone
=============================================================================
