--------------------------- MODULE TargetMatching ---------------------------
(***************************************************************************)
(* The lists of one portal table entry and the life of its list entries:   *)
(* ptl_le.c and ptl_me.c (append, search, unlink) run by application       *)
(* threads, against the target state machine of ptl_tgt.c, run by the one  *)
(* progress thread and, for messages that wait on the unexpected list, by  *)
(* the appending thread.                                                   *)
(*                                                                         *)
(* One step is one critical section of pt->lock or buf->mutex, or one      *)
(* access to a shared word outside of them.  A list entry and a message    *)
(* buf are used once, so that the histories below make sense.              *)
(***************************************************************************)
EXTENDS Integers, Sequences, FiniteSets

CONSTANTS
    LE,         \* list entries
    Buf,        \* messages
    Thread,     \* application threads
    Matches,    \* check_match(): the pairs <<b, e>> that match
    Overflow,   \* the entries for the overflow list
    Workloads,  \* what an application and its peers do, one record for each:
                \*   calls           the calls that are made
                \*   les, bufs       the entries and messages that are used
                \*   threads         how many threads make calls at a time
                \*   denied          check_perm(): the pairs <<b, e>> it refuses
                \*   use_once        the entries with PTL_ME_USE_ONCE
                \*   hdr_disable     with PTL_ME_UNEXPECTED_HDR_DISABLE
                \*   failing         the messages whose data transfer fails
                \*   max_unexpected  ni->limits.max_unexpected_headers
                \*   max_list        ni->limits.max_list_size
                \*   type_me         the entries are MEs (PtlMEUnlink)
    NULL

ASSUME MatchesAssumption == Matches \subseteq Buf \X LE
ASSUME OverflowAssumption == Overflow \subseteq LE
ASSUME WorkloadsAssumption ==
    \A w \in Workloads :
        /\ w.calls \subseteq {"append", "search_only", "search_delete", "unlink"}
        /\ w.les \subseteq LE /\ w.bufs \subseteq Buf /\ w.threads \in Nat
        /\ w.denied \subseteq Matches /\ w.failing \subseteq Buf
        /\ w.use_once \subseteq LE /\ w.hdr_disable \subseteq Overflow
        /\ w.max_unexpected \in Nat /\ w.max_list \in Nat
        /\ w.type_me \in BOOLEAN
ASSUME NullAssumption == NULL \notin LE \cup Buf

VARIABLES
    priority_list, overflow_list,  \* the lists of entries
    unexpected_list,               \* the list of messages
    unexpected_size,
    le,        \* le[e]: le->pt is set, busy, the reference count and where the
               \* object is: "new", "live" or "free"; handle says that the
               \* append returned, ok that an unlink returned PTL_OK
    buf,       \* buf[b]: buf->tgt_state, buf->le, buf->matching.le and
               \* unexpected_busy; history: first is the entry that the arriving
               \* message matched and to the one that it was delivered to
    progress,  \* the message the progress thread runs
    thr,       \* thr[t]: where t is, its entry, and its buf_list
    arrived,   \* history: the messages in the order of their arrival
    before,    \* history: before[e] are the entries whose append had returned
               \* when e was appended
    load       \* the workload; it does not change

vars == <<priority_list, overflow_list, unexpected_list, unexpected_size, le, buf,
          progress, thr, arrived, before, load>>

lists == <<priority_list, overflow_list, unexpected_list, unexpected_size>>
history == <<arrived, before, load>>

IdleThread == [pc |-> "idle", le |-> NULL, list |-> <<>>]

Init ==
    /\ priority_list = <<>> /\ overflow_list = <<>> /\ unexpected_list = <<>>
    /\ unexpected_size = 0
    /\ le = [e \in LE |-> [st |-> "new", ref |-> 0, pt |-> FALSE, busy |-> FALSE,
                           handle |-> FALSE, ok |-> FALSE]]
    /\ buf = [b \in Buf |-> [st |-> "new", le |-> NULL, matching |-> NULL,
                             busy |-> FALSE, first |-> NULL, to |-> NULL]]
    /\ progress = NULL
    /\ thr = [t \in Thread |-> IdleThread]
    /\ arrived = <<>>
    /\ before = [e \in LE |-> {}]
    /\ load \in Workloads

-----------------------------------------------------------------------------
(* References and list membership *)

le_get(l, e) == [l EXCEPT ![e].ref = @ + 1]

\* Mutant: the object is released with a reference left.
le_put_Early(l, e) ==
    IF l[e].ref <= 2 THEN [l EXCEPT ![e].ref = 0, ![e].st = "free", ![e].pt = FALSE]
                     ELSE [l EXCEPT ![e].ref = @ - 1]

\* le_put(): the last one runs le_cleanup() and releases the object.
le_put(l, e) ==
    IF l[e].ref = 1 THEN [l EXCEPT ![e].ref = 0, ![e].st = "free", ![e].pt = FALSE]
                    ELSE [l EXCEPT ![e].ref = @ - 1]

\* The critical section of le_unlink().  The entry is on at most one list.
le_unlink(e) ==
    /\ le' = [le EXCEPT ![e].pt = FALSE]
    /\ IF le[e].pt
         THEN /\ priority_list' = SelectSeq(priority_list, LAMBDA x : x # e)
              /\ overflow_list' = SelectSeq(overflow_list, LAMBDA x : x # e)
         ELSE UNCHANGED <<priority_list, overflow_list>>

check_match(b, e) == <<b, e>> \in Matches

Elems(s) == {s[i] : i \in DOMAIN s}

\* The entries of a list that match b, in order.
MatchesIn(list, b) == SelectSeq(list, LAMBDA e : check_match(b, e))

-----------------------------------------------------------------------------
(* The target state machine *)

At(b, st) == buf[b].st = st
Goto(b, st) == buf' = [buf EXCEPT ![b].st = st]

\* tgt_get_match(), with full saying that no unexpected header is left.
GetMatch(b, full) ==
    LET found == MatchesIn(priority_list \o overflow_list, b)
        e == Head(found)
        header == e \in Overflow \ load.hdr_disable
    IN  /\ progress = NULL
        /\ b \in load.bufs /\ At(b, "new")
        /\ arrived' = Append(arrived, b)
        /\ IF \/ found = <<>>
              \/ <<b, e>> \in load.denied
              \/ header /\ full
             THEN /\ Goto(b, "dropped")
                  /\ UNCHANGED <<lists, le, progress>>
             ELSE /\ progress' = b
                  /\ buf' = [buf EXCEPT ![b] =
                        [@ EXCEPT !.st = "length", !.le = e, !.busy = header, !.first = e,
                                  !.to = IF e \in Overflow THEN NULL ELSE e]]
                  /\ le' = [le EXCEPT ![e].ref = @ + 1,
                                      ![e].busy = @ \/ e \in load.use_once \ Overflow]
                  /\ unexpected_list' = IF header THEN Append(unexpected_list, b)
                                                  ELSE unexpected_list
                  /\ unexpected_size' = unexpected_size + (IF header THEN 1 ELSE 0)
                  /\ UNCHANGED <<priority_list, overflow_list>>
        /\ UNCHANGED <<thr, before, load>>

\* The first match of the priority list or, failing that, of the overflow list.
tgt_get_match(b) == GetMatch(b, unexpected_size >= load.max_unexpected)

\* tgt_get_length(): an entry to be used once is unlinked; the first line of
\* le_unlink() reads le->pt without the lock.  Then the message waits for its
\* connection and its data.
tgt_get_length(b) ==
    /\ At(b, "length")
    /\ LET unlink == buf[b].le \in load.use_once /\ le[buf[b].le].pt
       IN  /\ Goto(b, IF unlink THEN "unlink" ELSE "data")
           /\ progress' = IF unlink THEN b ELSE NULL
    /\ UNCHANGED <<lists, le, thr, history>>

UnlinkSection(b) ==
    /\ At(b, "unlink")
    /\ le_unlink(buf[b].le)
    /\ Goto(b, "unlink_put")
    /\ UNCHANGED <<unexpected_list, unexpected_size, progress, thr, history>>

\* le_unlink() drops the reference of the list after the critical section.
UnlinkPut(b) ==
    /\ At(b, "unlink_put")
    /\ le' = le_put(le, buf[b].le)
    /\ Goto(b, "data")
    /\ progress' = NULL
    /\ UNCHANGED <<lists, thr, history>>

\* The data phases end, well or with STATE_TGT_ERROR.
DataDone(b) ==
    /\ progress = NULL
    /\ At(b, "data")
    /\ progress' = b
    /\ Goto(b, IF b \in load.failing THEN "cleanup" ELSE "comm_event")
    /\ UNCHANGED <<lists, le, thr, history>>

\* Mutant: the waiter is not told.
tgt_comm_event_NoSignal(b) ==
    /\ At(b, "comm_event")
    /\ Goto(b, "cleanup")
    /\ le' = [le EXCEPT ![buf[b].le].busy = TRUE]
    /\ UNCHANGED <<lists, progress, thr, history>>

tgt_comm_event(b) ==
    /\ At(b, "comm_event")
    /\ buf' = [buf EXCEPT ![b].st = "cleanup", ![b].busy = FALSE]
    /\ le' = [le EXCEPT ![buf[b].le].busy = TRUE]
    /\ UNCHANGED <<lists, progress, thr, history>>

\* A message that matched an overflow entry is left to an append or search.
tgt_cleanup(b) ==
    LET wait == buf[b].matching = NULL /\ buf[b].le \in Overflow \ load.hdr_disable
    IN  /\ At(b, "cleanup")
        /\ Goto(b, IF buf[b].matching # NULL THEN "overflow_event"
                   ELSE IF wait THEN "wait_append" ELSE "cleanup_2")
        /\ progress' = IF wait THEN NULL ELSE b
        /\ UNCHANGED <<lists, le, thr, history>>

\* tgt_wait_append() and tgt_overflow_event(), run by the appending thread.
tgt_overflow_event(b) ==
    /\ At(b, "overflow_event")
    /\ Goto(b, "cleanup_2")
    /\ UNCHANGED <<lists, le, progress, thr, history>>

\* tgt_cleanup_2(), with headers the number of unexpected headers it gives back.
Cleanup2(b, headers) ==
    LET Clear(l, e) == IF e = NULL THEN l ELSE le_put([l EXCEPT ![e].busy = FALSE], e)
    IN  /\ At(b, "cleanup_2")
        /\ le' = Clear(Clear(le, buf[b].le), buf[b].matching)
        /\ unexpected_size' = unexpected_size - headers
        /\ buf' = [buf EXCEPT ![b].st = "done", ![b].le = NULL, ![b].matching = NULL]
        /\ progress' = IF progress = b THEN NULL ELSE progress
        /\ UNCHANGED <<priority_list, overflow_list, unexpected_list, thr, history>>

tgt_cleanup_2(b) == Cleanup2(b, IF buf[b].matching = NULL THEN 0 ELSE 1)

-----------------------------------------------------------------------------
(* PtlLEAppend, PtlMEAppend, PtlLESearch, PtlMESearch *)

Pc(t) == thr[t].pc
Enter(t, pc, e) == thr' = [thr EXCEPT ![t] = [pc |-> pc, le |-> e, list |-> <<>>]]
Step(t, pc) == thr' = [thr EXCEPT ![t].pc = pc]
Return(t) == thr' = [thr EXCEPT ![t] = IdleThread]

MayCall(t, op) ==
    /\ op \in load.calls
    /\ Pc(t) = "idle"
    /\ Cardinality({u \in Thread : Pc(u) # "idle"}) < load.threads

\* le_append_or_search(), me_append_or_search(): a new entry with one reference.
Alloc(t, e, op) ==
    /\ MayCall(t, op)
    /\ e \in load.les
    /\ le[e].st = "new"
    /\ le' = [le EXCEPT ![e].st = "live", ![e].ref = 1]
    /\ Enter(t, op, e)

CallAppend(t, e) ==
    /\ Alloc(t, e, "append")
    /\ before' = [before EXCEPT ![e] = {f \in LE : le[f].handle}]
    /\ UNCHANGED <<lists, buf, progress, arrived, load>>

CallSearch(t, e) ==
    /\ e \notin Overflow
    /\ Alloc(t, e, "search_delete")
    /\ UNCHANGED <<lists, buf, progress, history>>

\* check_overflow_search_only(): only events, and the entry is released.
SearchOnly(t, e) ==
    /\ MayCall(t, "search_only")
    /\ e \in load.les \ Overflow
    /\ le[e].st = "new"
    /\ le' = [le EXCEPT ![e].st = "free"]
    /\ UNCHANGED <<lists, buf, progress, thr, history>>

\* __match_le_unexpected(): the messages that e takes off the unexpected list.
match_le_unexpected(e) ==
    LET found == SelectSeq(unexpected_list, LAMBDA b : check_match(b, e))
    IN  IF e \in load.use_once /\ found # <<>> THEN <<Head(found)>> ELSE found

\* __check_overflow() found messages: they leave the list, and are processed
\* without the lock.
Take(t) ==
    LET e == thr[t].le
        found == match_le_unexpected(e)
    IN  /\ Pc(t) \in {"append", "search_delete"}
        /\ e \notin Overflow
        /\ found # <<>>
        /\ unexpected_list' = SelectSeq(unexpected_list, LAMBDA b : b \notin Elems(found))
        /\ buf' = [b \in Buf |-> IF b \in Elems(found) THEN [buf[b] EXCEPT !.to = e] ELSE buf[b]]
        /\ thr' = [thr EXCEPT ![t].list = found,
                              ![t].pc = IF @ = "append" THEN "flush" ELSE "flush_delete"]
        /\ UNCHANGED <<priority_list, overflow_list, unexpected_size, le, progress, history>>

\* le_append_pt() and the return from the call; list is the new list of e.
LinkEntry(t, list) ==
    LET e == thr[t].le
    IN  /\ Pc(t) = "append"
        /\ IF Len(list) <= load.max_list
             THEN /\ le' = [le EXCEPT ![e].pt = TRUE, ![e].handle = TRUE]
                  /\ IF e \in Overflow
                       THEN overflow_list' = list /\ UNCHANGED priority_list
                       ELSE priority_list' = list /\ UNCHANGED overflow_list
             ELSE /\ le' = le_put(le, e)
                  /\ UNCHANGED <<priority_list, overflow_list>>
        /\ Return(t)
        /\ UNCHANGED <<unexpected_list, unexpected_size, buf, progress, history>>

ListOf(e) == IF e \in Overflow THEN overflow_list ELSE priority_list

\* Mutants: the unexpected list is not looked at; the entry goes to the head.
le_append_pt_NoCheck(t) == LinkEntry(t, Append(ListOf(thr[t].le), thr[t].le))

le_append_pt_Head(t) ==
    LET e == thr[t].le
    IN  /\ e \in Overflow \/ match_le_unexpected(e) = <<>>
        /\ LinkEntry(t, <<e>> \o ListOf(e))

\* An overflow entry is linked at once, and a priority entry in the critical
\* section that found no message for it.
le_append_pt(t) ==
    LET e == thr[t].le
    IN  /\ e \in Overflow \/ match_le_unexpected(e) = <<>>
        /\ LinkEntry(t, Append(ListOf(e), e))

\* check_overflow_search_delete() without a match.
SearchNone(t) ==
    /\ Pc(t) = "search_delete"
    /\ match_le_unexpected(thr[t].le) = <<>>
    /\ le' = le_put(le, thr[t].le)
    /\ Return(t)
    /\ UNCHANGED <<lists, buf, progress, history>>

\* flush_from_unexpected_list(): the thread has the mutex of the next message,
\* and has waited for its transfer to finish.
Flush(t) ==
    LET b == Head(thr[t].list)
        delete == Pc(t) = "flush_delete"
        l == le_get(le, thr[t].le)
    IN  /\ Pc(t) \in {"flush", "flush_delete"}
        /\ thr[t].list # <<>>
        /\ buf[b].st \in {"data", "wait_append"}
        /\ ~buf[b].busy
        /\ le' = IF delete /\ buf[b].le # NULL THEN le_put(l, buf[b].le) ELSE l
        /\ buf' = [buf EXCEPT ![b] =
               [@ EXCEPT !.matching = thr[t].le,
                         !.le = IF delete THEN NULL ELSE @,
                         !.st = IF @ = "wait_append" THEN "overflow_event" ELSE @]]
        /\ Step(t, IF delete THEN "process_delete" ELSE "process")
        /\ UNCHANGED <<lists, progress, history>>

\* process_tgt() has returned; buf_put().
Flushed(t) ==
    /\ Pc(t) \in {"process", "process_delete"}
    /\ buf[Head(thr[t].list)].st \notin {"overflow_event", "cleanup_2"}
    /\ thr' = [thr EXCEPT ![t].list = Tail(@),
                          ![t].pc = IF @ = "process" THEN "flush" ELSE "flush_delete"]
    /\ UNCHANGED <<lists, le, buf, progress, history>>

\* All are processed.  An append takes the lock and looks again, unless the
\* entry is used up.
FlushEnd(t) ==
    /\ Pc(t) \in {"flush", "flush_delete"}
    /\ thr[t].list = <<>>
    /\ IF Pc(t) = "flush" /\ thr[t].le \notin load.use_once
         THEN Step(t, "append") /\ UNCHANGED le
         ELSE /\ le' = le_put([le EXCEPT ![thr[t].le].handle = Pc(t) = "flush"], thr[t].le)
              /\ Return(t)
    /\ UNCHANGED <<lists, buf, progress, history>>

-----------------------------------------------------------------------------
(* PtlLEUnlink, PtlMEUnlink *)

\* to_le(), to_me(): a reference; PtlMEUnlink also reads me->pt.  An overflow
\* entry is never waited for.
CallUnlink(t, e) ==
    /\ MayCall(t, "unlink")
    /\ le[e].st = "live" /\ le[e].handle /\ ~le[e].ok
    /\ \A u \in Thread : thr[u].le # e
    /\ le' = [le EXCEPT ![e].ref = @ + 1, ![e].busy = @ /\ e \notin Overflow]
    /\ Enter(t, IF load.type_me /\ ~le[e].pt THEN "busy_no_pt" ELSE "busy", e)
    /\ UNCHANGED <<lists, buf, progress, history>>

\* PtlLEUnlink waits while the entry is busy, PtlMEUnlink returns PTL_IN_USE.
UnlinkBusy(t) ==
    LET e == thr[t].le
    IN  /\ Pc(t) = "busy"
        /\ IF le[e].busy
             THEN load.type_me /\ le' = le_put(le, e) /\ Return(t)
             ELSE Step(t, "ref_cnt") /\ UNCHANGED le
        /\ UNCHANGED <<lists, buf, progress, history>>

\* PtlMEUnlink of an entry that was unlinked before: the reference is kept.
UnlinkNoPt(t) ==
    LET e == thr[t].le
    IN  /\ Pc(t) = "busy_no_pt"
        /\ le' = IF le[e].busy THEN le_put(le, e) ELSE [le EXCEPT ![e].ok = TRUE]
        /\ Return(t)
        /\ UNCHANGED <<lists, buf, progress, history>>

\* Mutant: the error path keeps its reference.
UnlinkRefCnt_NoPut(t) ==
    /\ Pc(t) = "ref_cnt"
    /\ IF le[thr[t].le].ref = 2 THEN Step(t, "pt") ELSE Return(t)
    /\ UNCHANGED <<lists, le, buf, progress, history>>

\* There should only be 2 references.
UnlinkRefCnt(t) ==
    LET e == thr[t].le
    IN  /\ Pc(t) = "ref_cnt"
        /\ IF le[e].ref = 2
             THEN Step(t, "pt") /\ UNCHANGED le
             ELSE /\ le' = IF load.type_me /\ le[e].ref <= 0 THEN le ELSE le_put(le, e)
                  /\ Return(t)
        /\ UNCHANGED <<lists, buf, progress, history>>

\* le_unlink() called by PtlLEUnlink or PtlMEUnlink, in the three steps that it
\* also has in the target state machine.
AppUnlinkPt(t) ==
    /\ Pc(t) = "pt"
    /\ Step(t, IF le[thr[t].le].pt THEN "unlink" ELSE "put")
    /\ UNCHANGED <<lists, le, buf, progress, history>>

AppUnlinkSection(t) ==
    /\ Pc(t) = "unlink"
    /\ le_unlink(thr[t].le)
    /\ Step(t, "unlink_put")
    /\ UNCHANGED <<unexpected_list, unexpected_size, buf, progress, history>>

AppUnlinkPut(t) ==
    /\ Pc(t) = "unlink_put"
    /\ le' = le_put(le, thr[t].le)
    /\ Step(t, "put")
    /\ UNCHANGED <<lists, buf, progress, history>>

\* PTL_OK; PtlMEUnlink tests the count before it drops its reference.
UnlinkOk(t) ==
    LET e == thr[t].le
        l == [le EXCEPT ![e].ok = TRUE]
    IN  /\ Pc(t) = "put"
        /\ le' = IF load.type_me /\ le[e].ref <= 0 THEN l ELSE le_put(l, e)
        /\ Return(t)
        /\ UNCHANGED <<lists, buf, progress, history>>

-----------------------------------------------------------------------------
process_tgt(b) ==
    \/ tgt_get_length(b) \/ UnlinkSection(b) \/ UnlinkPut(b) \/ DataDone(b)
    \/ tgt_comm_event(b) \/ tgt_cleanup(b) \/ tgt_overflow_event(b) \/ tgt_cleanup_2(b)

append_or_search(t) ==
    Take(t) \/ le_append_pt(t) \/ SearchNone(t) \/ Flush(t) \/ Flushed(t) \/ FlushEnd(t)

unlink(t) ==
    \/ UnlinkBusy(t) \/ UnlinkNoPt(t) \/ UnlinkRefCnt(t) \/ AppUnlinkPt(t)
    \/ AppUnlinkSection(t) \/ AppUnlinkPut(t) \/ UnlinkOk(t)

\* All messages are through or wait for an append, and no call is being made.
Quiescent ==
    /\ \A b \in load.bufs : buf[b].st \in {"dropped", "done", "wait_append"}
    /\ \A t \in Thread : Pc(t) = "idle"
    /\ UNCHANGED vars

Next ==
    \/ \E b \in Buf : tgt_get_match(b) \/ process_tgt(b)
    \/ \E t \in Thread : append_or_search(t) \/ unlink(t)
    \/ \E t \in Thread, e \in LE :
          CallAppend(t, e) \/ CallSearch(t, e) \/ SearchOnly(t, e) \/ CallUnlink(t, e)
    \/ Quiescent

Spec == Init /\ [][Next]_vars

\* Threads are scheduled, the progress thread comes back to every message, and
\* the loop that waits for le->busy samples it often enough.
FairSpec ==
    /\ Spec
    /\ \A b \in Buf : SF_vars(process_tgt(b))
    /\ \A t \in Thread : WF_vars(append_or_search(t)) /\ SF_vars(unlink(t))

-----------------------------------------------------------------------------
(* Properties *)

AppendPcs == {"append", "flush", "process", "search_delete", "flush_delete", "process_delete"}
UnlinkPcs == {"busy", "busy_no_pt", "ref_cnt", "pt", "unlink", "unlink_put", "put"}

\* Type correctness.
TypeOK ==
    /\ load \in Workloads
    /\ priority_list \in Seq(LE \ Overflow)
    /\ overflow_list \in Seq(Overflow)
    /\ unexpected_list \in Seq(Buf)
    /\ unexpected_size \in 0..load.max_unexpected
    /\ le \in [LE -> [st : {"new", "live", "free"}, ref : Nat, pt : BOOLEAN,
                      busy : BOOLEAN, handle : BOOLEAN, ok : BOOLEAN]]
    /\ buf \in [Buf -> [st : {"new", "dropped", "length", "unlink", "unlink_put", "data",
                              "comm_event", "cleanup", "wait_append", "overflow_event",
                              "cleanup_2", "done"},
                        le : LE \cup {NULL}, matching : LE \cup {NULL}, busy : BOOLEAN,
                        first : LE \cup {NULL}, to : LE \cup {NULL}]]
    /\ progress \in Buf \cup {NULL}
    /\ thr \in [Thread -> [pc : {"idle"} \cup AppendPcs \cup UnlinkPcs,
                           le : LE \cup {NULL}, list : Seq(Buf)]]
    /\ arrived \in Seq(Buf)
    /\ before \in [LE -> SUBSET LE]

Count(S) == Cardinality(S)

\* ref.h, ptl_le.c: the count of an entry is the number of its references: the
\* one of the list (or of the append, or of the le_unlink() that took it off
\* the list), one per message that matched it, and one per call of unlink.
RefsAccounted ==
    \A e \in LE : le[e].ref =
        Count({t \in Thread : thr[t].le = e /\ Pc(t) \in AppendPcs \cup {"unlink_put"}})
        + Count({b \in Buf : buf[b].le = e /\ At(b, "unlink_put")})
        + (IF le[e].pt THEN 1 ELSE 0)
        + Count({b \in Buf : buf[b].le = e}) + Count({b \in Buf : buf[b].matching = e})
        + Count({t \in Thread : thr[t].le = e /\ Pc(t) \in UnlinkPcs})

\* le_unlink(): "Avoid a race between PTLMeUnlink and autounlink." No list, message
\* or call refers to an entry whose object was released.
NoDangling ==
    \A e \in LE : le[e].st = "free" =>
        /\ e \notin Elems(priority_list \o overflow_list)
        /\ \A b \in Buf : buf[b].le # e /\ buf[b].matching # e
        /\ \A t \in Thread : thr[t].le # e

\* le_append_or_search(): "To avoid races we must cycle through the list until
\* nothing matches anymore."  No message is on the unexpected list that matches
\* an entry of the priority list.
NoMissedMatch ==
    \A b \in Elems(unexpected_list), e \in Elems(priority_list) : ~check_match(b, e)

\* tgt_get_length(): "Unlink if required to prevent further use of this ME/LE".
\* An entry to be used once takes one message, as the first or as the last.
UsedOnce ==
    \A e \in load.use_once : Count({b \in Buf : buf[b].first = e \/ buf[b].to = e}) <= 1

Earlier(b, c) ==
    \E i, j \in DOMAIN arrived : i < j /\ arrived[i] = b /\ arrived[j] = c

\* Of two entries that both match two messages, the one that was appended first
\* does not get the message that arrived last while the other gets the one that
\* arrived first.
InOrder ==
    \A b, c \in Buf :
        LET f == buf[b].to
            e == buf[c].to
        IN  (f # NULL /\ e # NULL /\ Earlier(b, c) /\ e \in before[f])
                => ~({b, c} \X {e, f} \subseteq Matches)

\* A message is not overtaken at an entry: when a later one was delivered to it,
\* an earlier one that matches it no longer waits on the unexpected list.
NotOvertaken ==
    \A b \in Elems(unexpected_list), c \in Buf :
        Earlier(b, c) /\ buf[c].to # NULL => ~check_match(b, buf[c].to)

\* pt->unexpected_size is the number of headers on the unexpected list or being
\* taken off it.
UnexpectedExact ==
    unexpected_size = Len(unexpected_list)
        + Count({b \in Buf : /\ \E t \in Thread : b \in Elems(thr[t].list)
                             /\ ~At(b, "done")})

\* Matching order: messages and entries are paired in the order of their arrivals
\* and appends (InOrder, NotOvertaken), and a use-once entry once (UsedOnce), be it
\* by tgt_get_match() or from the unexpected list (check_match_unexpected).
MatchOrder == InOrder /\ NotOvertaken /\ UsedOnce

\* The references of entries and the number of unexpected headers are exact
\* (RefsAccounted, UnexpectedExact), the limits of the lists kept (TypeOK).
CountsExact == TypeOK /\ RefsAccounted /\ UnexpectedExact

\* flush_from_unexpected_list(): "It is possible that there is a still a transfer
\* occurring on this buffer. So wait for it to finish."  Appends and searches
\* return.
AppendReturns == \A t \in Thread : (Pc(t) \in AppendPcs) ~> (Pc(t) \notin AppendPcs)

\* A call of unlink returns.
UnlinkReturns == \A t \in Thread : (Pc(t) \in UnlinkPcs) ~> (Pc(t) \notin UnlinkPcs)
=============================================================================
