----------------------------- MODULE PpeCommand -----------------------------
(***************************************************************************)
(* Calls from applications to the portals process engine.  An application  *)
(* process links the light library; its threads take a ppebuf from a pool  *)
(* shared by all processes, queue it for the progress thread the engine    *)
(* gave the process, and spin until it is marked completed.  Event queues  *)
(* and counters live in the engine; the library keeps, per process, a list *)
(* of the segments through which it reads them directly.                   *)
(*                                                                         *)
(* A process may die between two calls and start again under the same pid, *)
(* while the engine still holds the record of its former life.  list_add   *)
(* and list_del are single steps: "todo: protect with lock"                *)
(* (ptl_light_lib.c) leaves their exclusion to the application.            *)
(***************************************************************************)
EXTENDS PpeCalls, Naturals, Sequences, FiniteSets, SequencesExt

CONSTANTS
    Procs,      \* application processes, named by their pid
    Threads,    \* application threads
    ProcOf,     \* the process of each thread
    ppebufs,    \* the shared pool of command buffers
    Engines,    \* the largest number of progress threads, 0 .. Engines - 1
    Handles,    \* the object handles of one client, reused when free
    Workloads,  \* records: calls, a sequence of sets of calls per thread;
                \*   engines, how many progress threads; refuse, whether
                \*   connecting may fail; drain, how often PtlNIFini finds
                \*   connections open; crashes, how many deaths; fails and
                \*   init_fails, whether calls and PtlInit may fail
    None

VARIABLES
    load,       \* the workload
    lib,        \* per process: the library's "ppe" record
    lights,     \* per process: EQs_list and CTs_list, newest first
    held,       \* per process: the objects whose handle the application has
    thr,        \* per thread: where it is in its calls
    buf,        \* the ppebufs
    free,       \* the pool's free list, last released first
    queue,      \* per progress thread: its command queue
    clients,    \* the engine's records, by cookie, of the clients it serves
    work,       \* per progress thread: the handler that is about to change
                \*   the registry, or None
    registry,   \* the engine's tree of physical interfaces, by process id,
                \*   and its set of logical ones, by rank; up, whether the
                \*   engine has not aborted
    left,       \* the interfaces that stay there although they are not open
    next        \* the progress thread the next client gets, and the numbers
                \*   of cookies, segments, open drains and deaths so far

engine == <<clients, work, registry, left>>
vars == <<load, lib, lights, held, thr, buf, free, queue, clients, work,
          registry, left, next>>

NIKinds == {"physical", "logical"}
NewProcess == [lock |-> None, ref |-> 0, finalized |-> FALSE, cookie |-> None]
NoNI == [ref |-> 0, map |-> "none"]
NoChange == [table |-> None]
NewThread == [at |-> "idle", call |-> 1, op |-> None, buf |-> None,
              arg |-> None]
EmptyBuf == [op |-> None, cookie |-> None, arg |-> None, completed |-> FALSE,
             ret |-> None, out |-> None, fields |-> {}]

Calls(t) == load.calls[t]
Lib(t) == lib[ProcOf[t]]
\* The process a client record belongs to is still using it.
InUse(c) == \E p \in Procs : lib[p].cookie = c

Init ==
    /\ load \in Workloads
    /\ lib = [p \in Procs |-> NewProcess]
    /\ lights = [p \in Procs |-> <<>>]
    /\ held = [p \in Procs |-> {}]
    /\ thr = [t \in Threads |-> NewThread]
    /\ buf = [b \in ppebufs |-> EmptyBuf]
    /\ free = SetToSeq(ppebufs)
    /\ queue = [e \in 0 .. Engines - 1 |-> <<>>]
    /\ clients = <<>>
    /\ work = [e \in 0 .. Engines - 1 |-> None]
    /\ registry = [physical |-> <<>>, logical |-> <<>>, up |-> TRUE]
    /\ left = {}
    /\ next = [engine |-> 0, cookie |-> 1, seg |-> 1, drain |-> 0, deaths |-> 0]

Without(f, x) == [y \in DOMAIN f \ {x} |-> f[y]]
---------------------------------------------------------------------------
(* The library. *)

\* get_light_eq, get_light_ct: the first entry with the handle.
get_light(p, obj) ==
    LET same(e) == e.kind = obj.kind /\ e.handle = obj.handle
        found == SelectSeq(lights[p], same)
    IN  IF found = <<>> THEN None ELSE Head(found)

KindOf(op) == IF op \in {"PtlEQAlloc", "PtlEQFree"} THEN "eq" ELSE "ct"
Allocates == {"PtlEQAlloc", "PtlCTAlloc"}
Frees == {"PtlEQFree", "PtlCTFree"}

\* What the application passes: a handle it got and gives up to the call, or
\* one that names nothing; the interface; or nothing the control depends on.
NoSuch(op) == [kind |-> KindOf(op), handle |-> None, seg |-> None]
Args(t, op) ==
    CASE op \in Frees -> {o \in held[ProcOf[t]] : o.kind = KindOf(op)}
                            \cup (IF load.fails THEN {NoSuch(op)} ELSE {})
      [] op \in {"PtlNIInit", "PtlNIFini"} -> NIKinds
      [] OTHER -> {None}

\* The last call of a thread: the end of its sequence.
Finished(t) == thr[t].call > Len(Calls(t))
Return(t) == [NewThread EXCEPT !.call = thr[t].call + 1]
Stop(t) == [NewThread EXCEPT !.call = Len(Calls(t)) + 1]

\* PtlInit takes the mutex; the first one connects to the engine.
StartInit(t) ==
    LET p == ProcOf[t] IN
    /\ lib[p].lock = None
    /\ \/ /\ lib[p].finalized
          /\ thr' = [thr EXCEPT ![t] = Stop(t)]
          /\ UNCHANGED lib
       \/ /\ ~ lib[p].finalized
          /\ lib' = [lib EXCEPT ![p].lock = t]
          /\ thr' = [thr EXCEPT ![t].op = "PtlInit",
                 ![t].at = IF lib[p].ref = 0 THEN "connect" ELSE "alloc"]
    /\ UNCHANGED <<load, lights, held, buf, free, queue, engine, next>>

\* Whether an interface of a client the engine serves belongs in the registry.
Open(c, kind) ==
    /\ c \in DOMAIN clients
    /\ CASE kind = "physical" -> clients[c].ni[kind].ref > 0
         [] kind = "logical" -> clients[c].ni[kind].map = "set"

\* destroy_client forgets the record: an interface the client left in the
\* registry stays there.
destroy_client(c) ==
    /\ clients' = Without(clients, c)
    /\ left' = left \cup {<<c, k>> : k \in {k \in NIKinds : Open(c, k)}}

\* connect_to_ppe and the engine's process_client_msg: a client of the same
\* pid "died and we don't know yet".  Progress threads are given in turn.
connect_to_ppe(t) ==
    LET p == ProcOf[t]
        old == {c \in DOMAIN clients : clients[c].pid = p}
        new == [pid |-> p, engine |-> next.engine, inits |-> 0, objs |-> {},
                ni |-> [k \in NIKinds |-> NoNI]]
    IN
    /\ thr[t].at = "connect"
    /\ \/ /\ clients' = [c \in DOMAIN clients \ old |-> clients[c]] @@ (next.cookie :> new)
          /\ left' = left \cup {<<c, k>> \in old \X NIKinds : Open(c, k)}  \* destroy_client
          /\ lib' = [lib EXCEPT ![p].cookie = next.cookie]
          /\ next' = [next EXCEPT !.cookie = @ + 1,
                 !.engine = IF @ + 1 >= load.engines THEN 0 ELSE @ + 1]
          /\ thr' = [thr EXCEPT ![t].at = "alloc"]
       \/ /\ load.refuse
          /\ lib' = [lib EXCEPT ![p].lock = None]
          /\ thr' = [thr EXCEPT ![t] = Stop(t)]
          /\ UNCHANGED <<clients, left, next>>
    /\ UNCHANGED <<load, lights, held, buf, free, queue, work, registry>>

\* PtlFini takes the mutex; only the last one calls the engine.
StartFini(t) ==
    LET p == ProcOf[t] IN
    /\ lib[p].lock = None
    /\ \/ /\ lib[p].ref = 0
          /\ thr' = [thr EXCEPT ![t] = Return(t)]
          /\ UNCHANGED lib
       \/ /\ lib[p].ref > 1
          /\ lib' = [lib EXCEPT ![p].ref = @ - 1]
          /\ thr' = [thr EXCEPT ![t] = Return(t)]
       \/ /\ lib[p].ref = 1
          /\ lib' = [lib EXCEPT ![p].ref = 0, ![p].finalized = TRUE,
                                ![p].lock = t]
          /\ thr' = [thr EXCEPT ![t].op = "PtlFini", ![t].at = "alloc"]
    /\ UNCHANGED <<load, lights, held, buf, free, queue, engine, next>>

\* Any other call; an unconnected library answers PTL_NO_INIT, and without
\* an object the application has nothing to free.  PtlCTFree looks its entry
\* up here, before it has a buffer.
StartCall(t, op) ==
    LET p == ProcOf[t] IN
    /\ \/ /\ lib[p].cookie = None \/ Args(t, op) = {}
          /\ thr' = [thr EXCEPT ![t] = Return(t)]
          /\ UNCHANGED held
       \/ /\ lib[p].cookie # None
          /\ \E a \in Args(t, op) :
               /\ thr' = [thr EXCEPT ![t].op = op, ![t].at = "alloc",
                      ![t].arg = IF op = "PtlCTFree" /\ get_light(p, a) # None
                                 THEN get_light(p, a) ELSE a]
               /\ held' = [held EXCEPT ![p] = @ \ {a}]
    /\ UNCHANGED <<load, lib, lights, buf, free, queue, engine, next>>

Start(t) ==
    /\ thr[t].at = "idle" /\ ~ Finished(t)
    /\ \E op \in Calls(t)[thr[t].call] :
         \/ op = "PtlInit" /\ StartInit(t)
         \/ op = "PtlFini" /\ StartFini(t)
         \/ op \notin {"PtlInit", "PtlFini"} /\ StartCall(t, op)

\* ppebuf_alloc spins until the shared pool has a buffer.
ppebuf_alloc(t) ==
    /\ thr[t].at = "alloc"
    /\ free # <<>>
    /\ free' = Tail(free)
    /\ thr' = [thr EXCEPT ![t].buf = Head(free), ![t].at = "transfer"]
    /\ UNCHANGED <<load, lib, lights, held, buf, queue, engine, next>>

\* Changed: the "completed" mark of the buffer's last call stays.
Request_NotReset(t, arg) ==
    [buf[thr[t].buf] EXCEPT !.op = thr[t].op, !.cookie = Lib(t).cookie,
        !.arg = arg, !.fields = Sends[thr[t].op].request]

\* The buffer as a call leaves it in the queue: the message is a union, so
\* only the fields of this request are this call's.
Request(t, arg) ==
    [buf[thr[t].buf] EXCEPT !.op = thr[t].op, !.cookie = Lib(t).cookie,
        !.arg = arg, !.completed = FALSE, !.fields = Sends[thr[t].op].request]

\* transfer_msg: mark the buffer incomplete, queue it and spin.  PtlEQFree
\* looks its entry up first, and gives the buffer back if there is none.
transfer_msg(t) ==
    LET b == thr[t].buf
        p == ProcOf[t]
        e == clients[Lib(t).cookie].engine
        arg == IF thr[t].op = "PtlEQFree" THEN get_light(p, thr[t].arg)
               ELSE thr[t].arg
    IN
    /\ thr[t].at = "transfer"
    /\ \/ /\ thr[t].op = "PtlEQFree" /\ arg = None
          /\ free' = <<b>> \o free
          /\ thr' = [thr EXCEPT ![t] = Return(t)]
          /\ UNCHANGED <<buf, queue>>
       \/ /\ ~ (thr[t].op = "PtlEQFree" /\ arg = None)
          /\ buf' = [buf EXCEPT ![b] = Request(t, arg)]
          /\ queue' = [queue EXCEPT ![e] = Append(@, b)]
          /\ thr' = [thr EXCEPT ![t].arg = arg, ![t].at = "wait"]
          /\ UNCHANGED free
    /\ UNCHANGED <<load, lib, lights, held, engine, next>>

\* The reply of PtlInit: on success the count goes up and the mutex is
\* released.  After a failure the mutex stays locked (goto err0).
EndInit(t) ==
    /\ lib' = IF buf[thr[t].buf].ret = "PTL_OK"
              THEN [lib EXCEPT ![ProcOf[t]].ref = @ + 1, ![ProcOf[t]].lock = None]
              ELSE lib
    /\ UNCHANGED <<lights, held>>

\* The reply of PtlFini: release_ppe_resources, and the mutex.
EndFini(t) ==
    /\ lib' = [lib EXCEPT ![ProcOf[t]].cookie = None, ![ProcOf[t]].lock = None]
    /\ UNCHANGED <<lights, held>>

\* Changed: the new entry goes to the tail.
EndAlloc_Tail(t) ==
    LET p == ProcOf[t]
        e == buf[thr[t].buf].out
    IN
    /\ lights' = [lights EXCEPT ![p] = Append(@, e)]
    /\ held' = [held EXCEPT ![p] = @ \cup {[kind |-> e.kind, handle |-> e.handle]}]
    /\ UNCHANGED lib

\* A new object is mapped and its entry put at the head of the list.
EndAlloc(t) ==
    LET p == ProcOf[t]
        e == buf[thr[t].buf].out
    IN
    /\ lights' = [lights EXCEPT ![p] = <<e>> \o @]
    /\ held' = [held EXCEPT ![p] = @ \cup {[kind |-> e.kind, handle |-> e.handle]}]
    /\ UNCHANGED lib

\* A freed object is unmapped and its own entry leaves the list.
EndFree(t) ==
    LET others(e) == e # thr[t].arg IN
    /\ lights' = [lights EXCEPT ![ProcOf[t]] = SelectSeq(@, others)]
    /\ UNCHANGED <<lib, held>>

\* Changed: any failure is tried again.
RetryNIFini_Any(t) ==
    /\ thr[t].at = "wait" /\ buf[thr[t].buf].completed
    /\ thr[t].op = "PtlNIFini" /\ buf[thr[t].buf].ret # "PTL_OK"
    /\ thr' = [thr EXCEPT ![t].at = "transfer"]
    /\ UNCHANGED <<load, lib, lights, held, buf, free, queue, engine, next>>

\* PtlNIFini sends the same buffer again while the engine reports
\* PTL_IN_USE.
RetryNIFini(t) ==
    /\ thr[t].at = "wait" /\ buf[thr[t].buf].completed
    /\ thr[t].op = "PtlNIFini" /\ buf[thr[t].buf].ret = "PTL_IN_USE"
    /\ thr' = [thr EXCEPT ![t].at = "transfer"]
    /\ UNCHANGED <<load, lib, lights, held, buf, free, queue, engine, next>>

\* A released buffer keeps its "completed" mark; the rest of it is stale.
ppebuf_release(b) ==
    /\ free' = <<b>> \o free
    /\ buf' = [buf EXCEPT ![b] = [EmptyBuf EXCEPT !.completed = buf[b].completed]]

\* The spin ends: read the reply, keep what it says, release the buffer.
Finish(t) ==
    LET r == buf[thr[t].buf]
        op == thr[t].op
    IN
    /\ thr[t].at = "wait" /\ r.completed
    /\ ~ (op = "PtlNIFini" /\ r.ret = "PTL_IN_USE")
    /\ \/ op = "PtlInit" /\ EndInit(t)
       \/ op = "PtlFini" /\ EndFini(t)
       \/ op \in Allocates /\ r.ret = "PTL_OK" /\ EndAlloc(t)
       \/ op \in Frees /\ r.ret = "PTL_OK" /\ EndFree(t)
       \/ /\ op \notin {"PtlInit", "PtlFini"}
          /\ op \in Allocates \cup Frees => r.ret # "PTL_OK"
          /\ UNCHANGED <<lib, lights, held>>
    /\ ppebuf_release(thr[t].buf)
    /\ thr' = [thr EXCEPT ![t] = IF op = "PtlInit" /\ r.ret # "PTL_OK" THEN Stop(t)
                                ELSE Return(t)]
    /\ UNCHANGED <<load, queue, engine, next>>

\* PtlEQGet, PtlCTGet and the waits and polls read an object through the
\* library's own entry, without the engine.
DirectRead(p, obj) ==
    IF get_light(p, obj) = None THEN "PTL_ARG_INVALID" ELSE get_light(p, obj).seg
---------------------------------------------------------------------------
(* The engine.  A handler gives the client record and the counters after   *)
(* it, what it changes in the registry, the status and what it returns.    *)

Outcome(client, change, nxt, ret, out) ==
    [client |-> client, change |-> change, next |-> nxt, ret |-> ret, out |-> out]

\* Calls that are passed on to the implementation and change nothing here.
do_Forward(client) ==
    {Outcome(client, NoChange, next, r, None) :
        r \in {"PTL_OK"} \cup (IF load.fails THEN {"PTL_FAIL"} ELSE {})}

do_Init(client) ==
    {Outcome([client EXCEPT !.inits = @ + 1], NoChange, next, "PTL_OK", None)}
    \cup {Outcome(client, NoChange, next, "PTL_FAIL", None) :
             x \in IF load.init_fails THEN {1} ELSE {}}

\* do_OP_PtlFini writes no status: whatever is in the buffer stays.
do_Fini(client) ==
    {Outcome([client EXCEPT !.inits = @ - 1], NoChange, next, None, None)}

\* do_OP_PtlEQAlloc, do_OP_PtlCTAlloc: a free handle of that kind, and a new
\* segment that exports the object; without a segment the object is freed
\* again.
do_Alloc(client, kind) ==
    LET used == {o.handle : o \in {x \in client.objs : x.kind = kind}}
        new(h) == [kind |-> kind, handle |-> h, seg |-> next.seg]
    IN  {Outcome([client EXCEPT !.objs = @ \cup {new(h)}], NoChange,
                 [next EXCEPT !.seg = @ + 1], "PTL_OK", new(h)) :
            h \in Handles \ used}
        \cup {Outcome(client, NoChange, next, "PTL_NO_SPACE", None) :
                 x \in IF Handles \subseteq used THEN {1} ELSE {}}
        \cup {Outcome(client, NoChange, next, "PTL_ARG_INVALID", None) :
                 x \in IF load.fails THEN {1} ELSE {}}

\* do_OP_PtlEQFree, do_OP_PtlCTFree: the object the handle names now.
do_Free(client, kind, handle) ==
    LET named == {o \in client.objs : o.kind = kind /\ o.handle = handle} IN
    {Outcome([client EXCEPT !.objs = @ \ named], NoChange, next,
             IF named = {} THEN "PTL_ARG_INVALID" ELSE "PTL_OK", None)}

\* The place of an interface: a physical one has a process id that fakepid
\* made up for its client, a logical one the rank of its process.
Place(c, kind) == IF kind = "physical" THEN c ELSE clients[c].pid

\* insert_ni_into_set: the engine aborts when the place is taken.
insert_ni_into_set(reg, kind, place, c) ==
    IF place \in DOMAIN reg[kind] THEN [reg EXCEPT !.up = FALSE]
    ELSE [reg EXCEPT ![kind] = @ @@ (place :> c)]

\* remove_ni: the engine aborts when another interface is there.
remove_ni(reg, kind, place, c) ==
    IF place \in DOMAIN reg[kind] /\ reg[kind][place] = c
    THEN [reg EXCEPT ![kind] = Without(@, place)]
    ELSE [reg EXCEPT !.up = FALSE]

PutIn(c, kind, kept) == [table |-> kind, place |-> Place(c, kind), insert |-> TRUE,
                          ni |-> c, kept |-> kept]
TakeOut(c, kind) == [PutIn(c, kind, TRUE) EXCEPT !.insert = FALSE]
Apply(reg, ch) == IF ch.insert THEN insert_ni_into_set(reg, ch.table, ch.place, ch.ni)
                  ELSE remove_ni(reg, ch.table, ch.place, ch.ni)

\* A second PtlNIInit finds the interface and counts.  The first inserts a
\* physical interface, and can fail before that and after it: then nobody has
\* the interface, and it stays in the tree.
do_NIInit(c, kind) ==
    LET client == clients[c]
        inserted(kept) == IF kind = "physical" THEN PutIn(c, kind, kept) ELSE NoChange
    IN  IF client.ni[kind].ref > 0
        THEN {Outcome([client EXCEPT !.ni[kind].ref = @ + 1], NoChange, next,
                      "PTL_OK", None)}
        ELSE {Outcome([client EXCEPT !.ni[kind].ref = 1], inserted(TRUE), next,
                      "PTL_OK", None)}
             \cup {Outcome(client, ch, next, "PTL_NO_SPACE", None) :
                      ch \in IF load.fails THEN {NoChange, inserted(FALSE)} ELSE {}}

\* do_OP_PtlSetMap, on the logical interface; a second map is ignored.  It
\* fails when the client's array cannot be attached, or later, when the map
\* is already there (PtlSetMap, NetworkInterface).
do_SetMap(c) ==
    LET client == clients[c]
        ni == client.ni["logical"]
        to(m) == [client EXCEPT !.ni["logical"].map = m]
    IN  (IF ni.ref = 0
         THEN {Outcome(client, NoChange, next, "PTL_ARG_INVALID", None)}
         ELSE IF ni.map # "none"
         THEN {Outcome(client, NoChange, next, "PTL_IGNORED", None)}
         ELSE {Outcome(to("set"), PutIn(c, "logical", TRUE), next, "PTL_OK", None)}
              \cup {Outcome(to("half"), NoChange, next, "PTL_ARG_INVALID", None) :
                       x \in IF load.fails THEN {1} ELSE {}})
        \cup {Outcome(client, NoChange, next, "PTL_ARG_INVALID", None) :
                 x \in IF load.fails THEN {1} ELSE {}}

\* What a PtlNIFini takes out of the registry.
Taken(c, kind) == IF Open(c, kind) THEN TakeOut(c, kind) ELSE NoChange

\* Changed: every PtlNIFini that succeeds takes the interface out.
do_NIFini_Always(c, kind) ==
    LET client == clients[c] IN
    IF client.ni[kind].ref = 0
    THEN {Outcome(client, NoChange, next, "PTL_ARG_INVALID", None)}
    ELSE {Outcome([client EXCEPT !.ni[kind].ref = @ - 1],
                  Taken(c, kind), next, "PTL_OK", None)}

\* do_OP_PtlNIFini: the last one that finds every connection closed takes
\* the interface out; one that does not puts its count back and is tried
\* again.
do_NIFini(c, kind) ==
    LET client == clients[c]
        ni == client.ni[kind]
        down == [client EXCEPT !.ni[kind].ref = @ - 1]
    IN  IF ni.ref = 0
        THEN {Outcome(client, NoChange, next, "PTL_ARG_INVALID", None)}
        ELSE IF ni.ref > 1
        THEN {Outcome(down, NoChange, next, "PTL_OK", None)}
        ELSE IF next.drain < load.drain
        THEN {Outcome(client, NoChange, [next EXCEPT !.drain = @ + 1],
                      "PTL_IN_USE", None)}
        ELSE {Outcome([client EXCEPT !.ni[kind] = NoNI],
                      Taken(c, kind), next, "PTL_OK", None)}

\* The handler a command is dispatched to.
Dispatch(r) ==
    LET client == clients[r.cookie] IN
    CASE r.op = "PtlInit" -> do_Init(client)
      [] r.op = "PtlFini" -> do_Fini(client)
      [] r.op \in Allocates -> do_Alloc(client, KindOf(r.op))
      [] r.op \in Frees -> do_Free(client, KindOf(r.op), r.arg.handle)
      [] r.op = "PtlNIInit" -> do_NIInit(r.cookie, r.arg)
      [] r.op = "PtlSetMap" -> do_SetMap(r.cookie)
      [] r.op = "PtlNIFini" -> do_NIFini(r.cookie, r.arg)
      [] OTHER -> do_Forward(client)

\* buf_completed: the buffer is the client's again.
buf_completed(b, o) ==
    LET op == buf[b].op IN
    [buf EXCEPT ![b].completed = TRUE, ![b].ret = o.ret, ![b].out = o.out,
        ![b].fields = @ \cup (IF o.ret = "PTL_OK" THEN ppe_ops[op].reply
                              ELSE ppe_ops[op].reply \cap Status)]

\* A progress thread takes a command and runs its handler, up to the change
\* of the registry if it makes one.
ppe_progress(e) ==
    /\ registry.up
    /\ queue[e] # <<>> /\ work[e] = None
    /\ LET b == Head(queue[e]) IN
       \E o \in Dispatch(buf[b]) :
         /\ clients' = [clients EXCEPT ![buf[b].cookie] = o.client]
         /\ next' = o.next
         /\ \/ /\ o.change = NoChange
               /\ buf' = buf_completed(b, o)
               /\ UNCHANGED work
            \/ /\ o.change # NoChange
               /\ work' = [work EXCEPT ![e] = [buf |-> b, outcome |-> o, seen |-> registry]]
               /\ UNCHANGED buf
    /\ queue' = [queue EXCEPT ![e] = Tail(@)]
    /\ UNCHANGED <<load, lib, lights, held, thr, free, registry, left>>

\* The rest of the handler.  No lock protects the tree and the set: when
\* another progress thread has changed them since this one has looked, either
\* change may be lost.
ChangeRegistry(e) ==
    LET w == work[e]
        ch == w.outcome.change
    IN
    /\ registry.up /\ w # None
    /\ registry' \in IF registry = w.seen THEN {Apply(registry, ch)}
                     ELSE {Apply(registry, ch), Apply(w.seen, ch), registry}
    /\ IF registry'.up
       THEN /\ left' = IF ch.kept THEN left ELSE left \cup {<<ch.ni, ch.table>>}
            /\ buf' = buf_completed(w.buf, w.outcome)
            /\ work' = [work EXCEPT ![e] = None]
       ELSE UNCHANGED <<left, buf, work>>  \* abort
    /\ UNCHANGED <<load, lib, lights, held, thr, free, queue, clients, next>>

\* socket_process_client_msg: the socket of a process that ended or died
\* reads as closed.
SocketClosed(c) ==
    /\ registry.up
    /\ c \in DOMAIN clients /\ ~ InUse(c)
    /\ destroy_client(c)
    /\ UNCHANGED <<load, lib, lights, held, thr, buf, free, queue, work, registry, next>>

\* A process dies between two calls and starts again under the same pid.
Restart(p) ==
    LET own == {t \in Threads : ProcOf[t] = p} IN
    /\ next.deaths < load.crashes
    /\ lib[p].cookie # None
    /\ \A t \in own : thr[t].at = "idle"
    /\ next' = [next EXCEPT !.deaths = @ + 1]
    /\ lib' = [lib EXCEPT ![p] = NewProcess]
    /\ lights' = [lights EXCEPT ![p] = <<>>]
    /\ held' = [held EXCEPT ![p] = {}]
    /\ thr' = [t \in Threads |-> IF t \in own THEN NewThread ELSE thr[t]]
    /\ UNCHANGED <<load, buf, free, queue, engine>>

Step ==
    \/ \E t \in Threads : \/ Start(t) \/ connect_to_ppe(t) \/ ppebuf_alloc(t)
                          \/ transfer_msg(t) \/ RetryNIFini(t) \/ Finish(t)
    \/ \E e \in 0 .. Engines - 1 : ppe_progress(e) \/ ChangeRegistry(e)
    \/ \E c \in DOMAIN clients : SocketClosed(c)

Done == (\A t \in Threads : Finished(t) /\ thr[t].at = "idle")
        /\ (\A c \in DOMAIN clients : InUse(c)) /\ UNCHANGED vars

Next == Step \/ (\E p \in Procs : Restart(p)) \/ Done

Spec == Init /\ [][Next]_vars /\ WF_vars(Step)
---------------------------------------------------------------------------
\* A command buffer is in one place only: free, or with one thread, which
\* waits while it is queued or worked on; and when it is marked completed, what it holds
\* is the reply to that thread's own call for its own process
\* (transfer_msg, ppe_progress, buf_completed, ppebuf_release).
ReplyMine ==
    LET holders(b) == {t \in Threads : thr[t].buf = b}
        places(b) == {<<e, i>> \in (0 .. Engines - 1) \X (1 .. Cardinality(ppebufs)) :
                        i \in 1 .. Len(queue[e]) /\ queue[e][i] = b}
        busy(b) == {e \in DOMAIN work : work[e] # None /\ work[e].buf = b}
    IN
    /\ \A b \in ppebufs :
         /\ Cardinality(holders(b)) = (IF b \in Range(free) THEN 0 ELSE 1)
         /\ \A t \in holders(b) :
              Cardinality(places(b)) + Cardinality(busy(b)) =
                  (IF thr[t].at = "wait" /\ ~ buf[b].completed THEN 1 ELSE 0)
    /\ \A t \in Threads :
         (thr[t].at = "wait" /\ buf[thr[t].buf].completed) =>
            /\ buf[thr[t].buf].op = thr[t].op
            /\ buf[thr[t].buf].cookie = Lib(t).cookie

\* No stale field is used: when a handler runs, this call has sent every
\* field it takes, and when a thread reads a reply that succeeded, the
\* handler has written every field it reads, for all the calls of the
\* interface (the message is a union, ptl_ppe.h).
FieldsFresh ==
    /\ \A e \in DOMAIN queue : \A i \in DOMAIN queue[e] :
         LET r == buf[queue[e][i]] IN ppe_ops[r.op].request \subseteq r.fields
    /\ \A t \in Threads :
         LET r == buf[thr[t].buf] IN
         (thr[t].at = "wait" /\ r.completed /\ r.ret = "PTL_OK")
            => Sends[r.op].reply \subseteq r.fields

\* An object the application holds is read through the segment the engine
\* exports for it now, although handles are reused and a former entry of the
\* same handle may still be in the list (get_light_eq, get_light_ct).
LookupFresh ==
    \A p \in Procs : lib[p].cookie \in DOMAIN clients =>
        \A o \in held[p] : \E x \in clients[lib[p].cookie].objs :
            /\ x.kind = o.kind /\ x.handle = o.handle
            /\ DirectRead(p, o) = x.seg

\* Nothing is read that an earlier call or a former object left behind
\* (FieldsFresh, LookupFresh; ppe_run_command, get_light_eq, get_light_ct).
NothingStale == FieldsFresh /\ LookupFresh

\* While nobody is changing them, the tables in which messages are looked up
\* hold the interfaces that are open, the physical one in the tree, the
\* logical one, once it has a map, in the set; and those that a client has not
\* closed before it died or that could not be made, which nobody takes out
\* ("we should free all its ressources. TODO", destroy_client; insert_ni_into_set,
\* remove_ni).
RegistryExact ==
    \A c \in 1 .. next.cookie - 1, k \in NIKinds :
        (\A e \in DOMAIN work : work[e] # None => work[e].outcome.change.ni # c) =>
            ((\E r \in DOMAIN registry[k] : registry[k][r] = c)
               <=> Open(c, k) \/ <<c, k>> \in left)

\* Every call returns: each thread comes to the end of its calls, also when
\* the pool is short, when PtlNIFini has to try again, and around a death
\* (transfer_msg, ppe_progress, PtlNIFini).
CallsReturn == <>[](\A t \in Threads : Finished(t) /\ thr[t].at = "idle")
=============================================================================
