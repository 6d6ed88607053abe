------------------------- MODULE NetworkInterface -------------------------
(***************************************************************************)
(* The start and the end of the library and of its network interfaces in   *)
(* one process (ptl_misc.c, ptl_fat_lib.c, ptl_iface.c, ptl_ni.c):         *)
(* PtlInit, PtlNIInit, PtlSetMap, calls that use an interface, PtlNIFini   *)
(* and PtlFini, made by several threads.  A call that holds one of the two *)
(* mutexes from its first to its last effect is one step.  PtlNIFini gives *)
(* the mutex back while the interface waits for its connections to close,  *)
(* and tries again.                                                        *)
(***************************************************************************)
EXTENDS Naturals, Sequences, FiniteSets

CONSTANTS Workloads,  \* functions from threads to the calls they make
          NITypes     \* the types of interfaces (matching/logical ...)

VARIABLES load, gbl, iface, ni, thr

vars == <<load, gbl, iface, ni, thr>>

None == 0
AnyPid == 0

Callers == DOMAIN load

Init ==
    /\ load \in Workloads
    /\ gbl = [ref_cnt |-> 0, ref |-> 0, finalized |-> FALSE, up |-> FALSE, locked |-> FALSE]
    /\ iface = [pid |-> AnyPid, ni |-> [y \in NITypes |-> None]]
    /\ ni = <<>>
    /\ thr = [t \in Callers |-> [todo |-> load[t], pc |-> "ready", ret |-> "none",
                                 held |-> [y \in NITypes |-> None]]]

-----------------------------------------------------------------------------
(* The calling thread. *)

Calling(t, op) ==
    /\ thr[t].pc = "ready"
    /\ thr[t].todo # <<>>
    /\ Head(thr[t].todo).op = op

Call(t) == Head(thr[t].todo)

Return(t, ret) == [thr[t] EXCEPT !.todo = Tail(@), !.pc = "ready", !.ret = ret]

\* gbl_get and gbl_put; the last reference releases the global state.
gbl_get_ok == gbl.ref_cnt > 0
gbl_put(g) == [g EXCEPT !.ref = @ - 1, !.up = @ /\ g.ref > 1]

-----------------------------------------------------------------------------
(* PtlInit and PtlFini, under per_proc_gbl_mutex. *)

\* gbl_init fails: nothing is counted.  The thread calls again.
PtlInit_fails(t) ==
    /\ Calling(t, "PtlInit")
    /\ ~gbl.locked
    /\ Call(t).fails # "no" /\ gbl.ref_cnt = 0 /\ ~gbl.finalized
    /\ thr' = [thr EXCEPT ![t].ret = "fail", ![t].todo[1].fails = "no"]
    /\ UNCHANGED <<load, gbl, iface, ni>>

PtlInit(t) ==
    /\ Calling(t, "PtlInit")
    /\ ~gbl.locked
    /\ Call(t).fails = "no" \/ gbl.ref_cnt > 0 \/ gbl.finalized
    /\ IF gbl.finalized
       THEN UNCHANGED gbl /\ thr' = [thr EXCEPT ![t].todo = <<>>]  \* the thread gives up
       ELSE /\ gbl' = IF gbl.ref_cnt = 0
                      THEN [gbl EXCEPT !.ref_cnt = 1, !.ref = 1, !.up = TRUE]  \* gbl_init
                      ELSE [gbl EXCEPT !.ref_cnt = @ + 1]
            /\ thr' = [thr EXCEPT ![t] = Return(t, "ok")]
    /\ UNCHANGED <<load, iface, ni>>

\* A call after the last PtlFini keeps the mutex (goto err0).
PtlFini(t) ==
    /\ Calling(t, "PtlFini")
    /\ ~gbl.locked
    /\ gbl' = IF gbl.finalized THEN [gbl EXCEPT !.locked = TRUE]
              ELSE IF gbl.ref_cnt = 0 THEN gbl
              ELSE IF gbl.ref_cnt = 1
              THEN gbl_put([gbl EXCEPT !.ref_cnt = 0, !.finalized = TRUE])
              ELSE [gbl EXCEPT !.ref_cnt = @ - 1]
    /\ thr' = [thr EXCEPT ![t] = Return(t, "ok")]
    /\ UNCHANGED <<load, iface, ni>>

-----------------------------------------------------------------------------
(* PtlNIInit, under gbl_mutex. *)

\* The process id of a new interface and of the physical interface, or none
\* when they disagree; iface_bind chooses one when nobody asked for any.
ChosenPid(pid) ==
    IF iface.pid # AnyPid THEN IF pid \in {AnyPid, iface.pid} THEN iface.pid ELSE None
    ELSE IF pid # AnyPid THEN pid ELSE 1

NewInterface(y, pid) ==
    [type |-> y, pid |-> pid, ref_cnt |-> 1, refs |-> 1, up |-> TRUE, made |-> TRUE,
     open |-> {"pools", "transport"},
     shutting_down |-> FALSE, cleanup_state |-> "INIT", conns |-> 0,
     mapping |-> "none", progress |-> TRUE]

iface_get_ni_NoRef(t, y) ==  \* Changed: the existing interface is not counted.
    /\ UNCHANGED ni
    /\ thr' = [thr EXCEPT ![t] = [Return(t, "ok") EXCEPT !.held[y] = iface.ni[y]]]

\* iface_get_ni: an interface of this type exists.
iface_get_ni(t, y) ==
    /\ ni' = [ni EXCEPT ![iface.ni[y]].ref_cnt = @ + 1]
    /\ thr' = [thr EXCEPT ![t] = [Return(t, "ok") EXCEPT !.held[y] = iface.ni[y]]]

\* Before there is an object (err2): init_iface or ni_alloc fails.  After it
\* (err3): the process ids disagree.  Nothing has been opened.
PtlNIInit_refused(t) ==
    /\ \/ Call(t).fails = "early"
       \/ Call(t).fails # "early" /\ ChosenPid(Call(t).pid) = None
    /\ thr' = [thr EXCEPT ![t] = Return(t, "arg_invalid")]
    /\ UNCHANGED <<iface, ni>>

\* err3 after the process id has been accepted: a pool, a transport, the table
\* of portals or the progress thread cannot be had.  The object is put, and
\* what has been opened for it stays.  A transport that fails may have bound
\* the process id, and may be the second of two.
PtlNIInit_fails(t) ==
    LET pid == ChosenPid(Call(t).pid)
        asked == IF iface.pid # AnyPid THEN iface.pid ELSE Call(t).pid
    IN /\ Call(t).fails \in {"pools", "transport", "late"}
       /\ pid # None
       /\ \E bound \in {asked, pid}, open \in {{"pools"}, {"pools", "transport"}} :
            /\ Call(t).fails = "pools" => bound = asked /\ "transport" \notin open
            /\ Call(t).fails = "late" => bound = pid /\ "transport" \in open
            /\ "transport" \in open => bound = pid
            /\ iface' = [iface EXCEPT !.pid = bound]
            /\ ni' = Append(ni, [NewInterface(Call(t).type, pid) EXCEPT
                                   !.refs = 0, !.ref_cnt = 0, !.up = FALSE, !.made = FALSE,
                                   !.progress = FALSE, !.open = open])
       /\ thr' = [thr EXCEPT ![t] = Return(t, "no_space")]

PtlNIInit_new(t) ==
    LET y == Call(t).type
        pid == ChosenPid(Call(t).pid)
        i == Len(ni) + 1
    IN /\ Call(t).fails = "no"
       /\ pid # None
       /\ iface' = [pid |-> pid, ni |-> [iface.ni EXCEPT ![y] = i]]
       /\ ni' = Append(ni, NewInterface(y, pid))
       /\ thr' = [thr EXCEPT ![t] = [Return(t, "ok") EXCEPT !.held[y] = i]]

PtlNIInit(t) ==
    LET y == Call(t).type
    IN /\ Calling(t, "PtlNIInit")
       /\ \/ /\ ~gbl_get_ok
             /\ thr' = [thr EXCEPT ![t] = Return(t, "no_init")]
             /\ UNCHANGED <<iface, ni>>
          \/ /\ gbl_get_ok
             /\ iface.ni[y] # None
             /\ iface_get_ni(t, y)
             /\ UNCHANGED iface
          \/ /\ gbl_get_ok
             /\ iface.ni[y] = None
             /\ PtlNIInit_refused(t) \/ PtlNIInit_fails(t) \/ PtlNIInit_new(t)
       /\ UNCHANGED <<load, gbl>>

-----------------------------------------------------------------------------
(* Calls on an interface: they hold the global state and the object. *)

Mine(t) == thr[t].held[Call(t).type]

\* to_ni
to_ni(i) == i # None /\ ni[i].up

Enter(t) ==
    /\ Calling(t, "Use")
    /\ gbl_get_ok
    /\ to_ni(Mine(t))
    /\ gbl' = [gbl EXCEPT !.ref = @ + 1]
    /\ ni' = [ni EXCEPT ![Mine(t)].refs = @ + 1]
    /\ thr' = [thr EXCEPT ![t].pc = "inside"]
    /\ UNCHANGED <<load, iface>>

Leave(t) ==
    /\ thr[t].pc = "inside"
    /\ ni' = [ni EXCEPT ![Mine(t)].refs = @ - 1]
    /\ gbl' = gbl_put(gbl)
    /\ thr' = [thr EXCEPT ![t] = Return(t, "ok")]
    /\ UNCHANGED <<load, iface>>

\* What PtlSetMap makes of ni->logical.mapping.  A map without this process is
\* freed, and still pointed to; with tables or a transport that cannot be set
\* up the map stays.
NewMapping(t) == CASE Call(t).fails = "no" -> "set"
                   [] Call(t).fails = "alloc" -> "none"
                   [] Call(t).fails = "rank" -> "freed"
                   [] Call(t).fails = "tables" -> "half"

\* PtlSetMap: the first map is kept, with the connections to its ranks.
PtlSetMap(t) ==
    LET i == Mine(t)
    IN /\ Calling(t, "PtlSetMap")
       /\ gbl_get_ok
       /\ to_ni(i)
       /\ IF ni[i].mapping # "none"
          THEN UNCHANGED ni /\ thr' = [thr EXCEPT ![t] = Return(t, "ignored")]
          ELSE IF ni[i].type # "logi"
          THEN UNCHANGED ni /\ thr' = [thr EXCEPT ![t] = Return(t, "arg_invalid")]
          ELSE /\ ni' = [ni EXCEPT ![i].mapping = NewMapping(t)]
               /\ thr' = [thr EXCEPT ![t] = Return(t, IF Call(t).fails = "no" THEN "ok"
                                                      ELSE "arg_invalid")]
       /\ UNCHANGED <<load, gbl, iface>>

\* A call with a handle that denotes nothing any more.
BadHandle(t) ==
    /\ \E op \in {"Use", "PtlSetMap", "PtlNIFini"} : Calling(t, op)
    /\ ~gbl_get_ok \/ ~to_ni(Mine(t))
    /\ thr' = [thr EXCEPT ![t] = Return(t, "arg_invalid")]
    /\ UNCHANGED <<load, gbl, iface, ni>>

-----------------------------------------------------------------------------
(* PtlNIFini, under gbl_mutex, again and again until it is done. *)

\* ni_cleanup up to the wait for the connections.
StartCleanup(r) ==
    IF r.cleanup_state = "INIT"
    THEN [r EXCEPT !.shutting_down = TRUE, !.cleanup_state = "WAIT_DISCONNECT_ALL"]
    ELSE r

TakeBack(r) == [r EXCEPT !.ref_cnt = 1]

PtlNIFini(t) ==
    LET i == Mine(t)
        y == Call(t).type
        last == ni[i].ref_cnt = 1
        r == StartCleanup([ni[i] EXCEPT !.ref_cnt = 0])
    IN /\ Calling(t, "PtlNIFini")
       /\ gbl_get_ok
       /\ to_ni(i)
       /\ \/ /\ ~last
             /\ ni' = [ni EXCEPT ![i].ref_cnt = @ - 1]
             /\ thr' = [thr EXCEPT ![t] = [Return(t, "ok") EXCEPT !.held[y] = None]]
             /\ UNCHANGED iface
          \/ /\ last
             /\ r.conns > 0
             /\ ni' = [ni EXCEPT ![i] = TakeBack(r)]
             /\ UNCHANGED <<iface, thr>>
          \/ /\ last
             /\ r.conns = 0
             /\ ni' = [ni EXCEPT ![i] = [r EXCEPT !.cleanup_state = "FINISH", !.up = FALSE,
                                           !.progress = FALSE, !.mapping = "none",
                                           !.open = {}, !.refs = @ - 1]]
             /\ iface' = [iface EXCEPT !.ni[y] = None]
             /\ thr' = [thr EXCEPT ![t] = [Return(t, "ok") EXCEPT !.held[y] = None]]
       /\ UNCHANGED <<load, gbl>>

-----------------------------------------------------------------------------
(* The peers: see Connection. *)

Connect(i) ==
    /\ i \in DOMAIN ni
    /\ ni[i].up /\ ~ni[i].shutting_down /\ ni[i].conns = 0
    /\ ni' = [ni EXCEPT ![i].conns = 1]
    /\ UNCHANGED <<load, gbl, iface, thr>>

Disconnect(i) ==
    /\ i \in DOMAIN ni
    /\ ni[i].shutting_down /\ ni[i].conns > 0
    /\ ni' = [ni EXCEPT ![i].conns = @ - 1]
    /\ UNCHANGED <<load, gbl, iface, thr>>

Step(t) ==
    \/ PtlInit(t)
    \/ PtlInit_fails(t)
    \/ PtlFini(t)
    \/ PtlNIInit(t)
    \/ Enter(t)
    \/ Leave(t)
    \/ PtlSetMap(t)
    \/ BadHandle(t)
    \/ PtlNIFini(t)

Next ==
    \/ \E t \in Callers : Step(t)
    \/ \E i \in DOMAIN ni : Connect(i) \/ Disconnect(i)

\* Threads run, and connections that are being closed do close.
Fairness ==
    /\ \A t \in UNION {DOMAIN w : w \in Workloads} : WF_vars(t \in Callers /\ Step(t))
    /\ WF_vars(\E i \in DOMAIN ni : Disconnect(i))

-----------------------------------------------------------------------------
Holders(i) == {t \in Callers : \E y \in NITypes : thr[t].held[y] = i}

\* What PtlNIInit hands out stays whole until the thread gives it back: the
\* interface is the one the table names, its pools and its progress thread
\* exist, its references are the threads that have it, it has the process id
\* of the physical interface, and the library's global state is not released.
InterfaceAlive ==
    \A t \in Callers, y \in NITypes :
        LET i == thr[t].held[y]
        IN i # None =>
             /\ gbl.up
             /\ ni[i].up /\ ni[i].progress /\ iface.ni[y] = i
             /\ ni[i].ref_cnt = Cardinality(Holders(i))
             /\ ni[i].pid = iface.pid

\* "The call will return the existing network interface handle": an interface
\* that a thread has, and is not giving back, is not shutting down.
UsableWhileHeld ==
    \A t \in Callers, y \in NITypes :
        LET i == thr[t].held[y]
        IN i # None /\ ~(Calling(t, "PtlNIFini") /\ Call(t).type = y) => ~ni[i].shutting_down

\* A call that fails has undone what it did: a PtlNIInit leaves no pool and no
\* transport open ("avoid getting called from cleanup during PtlNIInit" says
\* pool_fini of its callers), and a PtlSetMap no map.
FailuresUndone ==
    \A i \in DOMAIN ni : /\ ~ni[i].made => ni[i].open = {}
                        /\ ni[i].mapping \in {"none", "set"}

\* Every call returns, and with the last PtlFini the library and every
\* interface it has handed out are released, with their pools and transports;
\* FailuresUndone says what becomes of an interface that could not be made.
InterfaceCallsReturn ==
    <>(/\ \A t \in Callers : thr[t].todo = <<>>
       /\ ~gbl.up
       /\ \A i \in DOMAIN ni : /\ ~ni[i].up /\ ni[i].refs = 0
                               /\ ni[i].made => ni[i].open = {})

=============================================================================
