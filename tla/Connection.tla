---------------------------- MODULE Connection ----------------------------
(***************************************************************************)
(* Reliable connections between network interfaces (ptl_conn.c and the     *)
(* connection parts of ptl_rdma.c, ptl_init.c, ptl_tgt.c, ptl_recv.c and   *)
(* ptl_ni.c): a connection is opened by the first message, both sides may  *)
(* open it at once, and it is closed when the interfaces at both ends shut *)
(* down.  Each process has application threads, the progress thread of the *)
(* interface, which handles completions, and the event thread, which       *)
(* handles the events of the connection manager.                           *)
(*                                                                         *)
(* The connection manager (librdmacm) is external.  Its identifier         *)
(* <<n, m, "act">> belongs to the attempt of n to reach m, and             *)
(* <<m, n, "pas">> is the one its request creates on the other side.       *)
(***************************************************************************)
EXTENDS Naturals, Sequences, FiniteSets

CONSTANT Workloads  \* [nodes, late, sends, faults]: what the processes do

VARIABLES load,    \* the workload of this behaviour
          ni,      \* [n]: the interface of process n
          conn,    \* [n][m]: the conn_t of n for its peer m
          cm,      \* [id]: the context and the queue pair of an identifier
          evq,     \* [n]: events of the channel of n not handled yet, in order
          up,      \* the active identifiers whose queue pairs are connected
          wire,    \* [<<n, m>>]: packets from n to m that m has not received
          cq,      \* [n]: completions the progress thread has not polled
          thr,     \* [t]: the threads that may wait for a connection
          faults,  \* failures of calls to the connection manager still to come
          broken,  \* assertions and aborts that were reached
          lost,    \* packets that were on the wire when it was cut
          dropped  \* attempts whose request was neither accepted nor refused

vars == <<load, ni, conn, cm, evq, up, wire, cq, thr, faults, broken, lost, dropped>>

Nodes == load.nodes
Ids == Nodes \X Nodes \X {"act", "pas"}
App == {<<"app", i>> : i \in DOMAIN load.sends}
Prog(n) == <<"prog", n>>

NodeOf(t) == thr[t].node

\* The identifier at the other end.
Partner(id) == <<id[2], id[1], IF id[3] = "act" THEN "pas" ELSE "act">>

\* The active identifier of the pair an identifier belongs to.
ActiveOf(id) == IF id[3] = "act" THEN id ELSE Partner(id)

\* The identifier a connection uses.
CmId(n, m) == <<n, m, conn[n][m].cm_id>>

conn_init == [state |-> "DISCONNECTED", cm_id |-> "none",
              local_disc |-> 0, remote_disc |-> FALSE]

Init ==
    /\ load \in Workloads
    /\ ni = [n \in Nodes |->
               [state |-> IF n \in load.late THEN "absent" ELSE "up",
                num_conn |-> 0, todo |-> {}]]
    /\ conn = [n \in Nodes |-> [m \in Nodes |-> conn_init]]
    /\ cm = [id \in Ids |-> [ctx |-> "none", qp |-> FALSE]]
    /\ evq = [n \in Nodes |-> <<>>]
    /\ up = {}
    /\ wire = [p \in Nodes \X Nodes |-> <<>>]
    /\ cq = [n \in Nodes |-> <<>>]
    /\ thr = [t \in App \cup {Prog(n) : n \in Nodes} |->
                IF t \in App
                THEN [node |-> load.sends[t[2]].from, peer |-> load.sends[t[2]].to,
                      acks |-> load.sends[t[2]].acks, pc |-> "ready"]
                ELSE [node |-> t[2], peer |-> t[2], acks |-> <<>>, pc |-> "idle"]]
    /\ faults = load.faults
    /\ broken = {}
    /\ lost = {}
    /\ dropped = {}

-----------------------------------------------------------------------------
(* Helpers: what the handlers do to one connection or identifier. *)

\* The threads after pthread_cond_broadcast(&conn->move_wait).
Broadcast(n, m) ==
    [t \in DOMAIN thr |->
        IF thr[t].pc = "waiting" /\ thr[t].node = n /\ thr[t].peer = m
        THEN [thr[t] EXCEPT !.pc = "woken"] ELSE thr[t]]

Raise(q, id, e) == [q EXCEPT ![id[1]] = Append(@, [id |-> id, type |-> e])]

\* rdma_disconnect: both ends of a connected pair are told, once, and what
\* the wire still holds is flushed.
rdma_disconnect(id) ==
    LET a == ActiveOf(id)
        n == a[1]
        m == a[2]
    IN IF a \in up
       THEN /\ up' = up \ {a}
            /\ evq' = Raise(Raise(evq, a, "DISCONNECTED"), Partner(a), "DISCONNECTED")
            /\ lost' = lost \cup {p \in {<<n, m>>, <<m, n>>} :
                                    \E i \in DOMAIN wire[p] : wire[p][i] # "disc"}
            /\ wire' = [wire EXCEPT ![<<n, m>>] = <<>>, ![<<m, n>>] = <<>>]
       ELSE UNCHANGED <<up, evq, lost, wire>>

\* An assertion of the code.
Assert(what, holds) == broken' = IF holds THEN broken ELSE broken \cup {what}

MayFail == faults > 0

-----------------------------------------------------------------------------
(* Opening a connection: the application's side. *)

\* conn->transport.send_message with a connected queue pair.
send_message(n, m, kind) ==
    wire' = [wire EXCEPT ![<<n, m>>] = Append(@, kind)]

\* rdma_init_connect: fails when the interface shuts down; otherwise a new
\* identifier asks the connection manager to resolve the address.
rdma_init_connect(n, m) ==
    LET id == <<n, m, "act">>
    IN /\ Assert("init_connect",
                 /\ conn[n][m].state = "DISCONNECTED"
                 /\ conn[n][m].cm_id = "none")
       /\ conn' = [conn EXCEPT ![n][m].state = "RESOLVING_ADDR", ![n][m].cm_id = "act"]
       /\ cm' = [cm EXCEPT ![id] = [ctx |-> "conn", qp |-> FALSE]]
       /\ evq' = Raise(evq, id, "ADDR_RESOLVED")

\* rdma_create_id or rdma_resolve_addr fails.
rdma_init_connect_fails(n, m) ==
    /\ MayFail
    /\ faults' = faults - 1
    /\ UNCHANGED <<conn, cm, evq, broken>>

\* wait_conn / tgt_wait_conn for thread t, with the connection's mutex held:
\* a thread that finds no connection opens one, and waits for its outcome.
wait_conn(t, n, m, packet, connected, failed) ==
    \/ /\ conn[n][m].state = "CONNECTED"
       /\ thr' = [thr EXCEPT ![t] = connected]
       /\ send_message(n, m, packet)
       /\ UNCHANGED <<conn, cm, evq, faults, broken>>
    \/ /\ conn[n][m].state \notin {"CONNECTED", "DISCONNECTED"}
       /\ thr' = [thr EXCEPT ![t].peer = m, ![t].pc = "waiting"]
       /\ UNCHANGED <<conn, cm, evq, wire, faults, broken>>
    \/ /\ conn[n][m].state = "DISCONNECTED"
       /\ ni[n].state = "up"
       /\ rdma_init_connect(n, m)
       /\ thr' = [thr EXCEPT ![t].peer = m, ![t].pc = "waiting"]
       /\ UNCHANGED <<wire, faults>>
    \/ /\ conn[n][m].state = "DISCONNECTED"
       /\ ni[n].state = "up"
       /\ rdma_init_connect_fails(n, m)
       /\ thr' = [thr EXCEPT ![t] = failed]
       /\ UNCHANGED wire

\* The thread's message was sent or failed, and it goes on to the next one;
\* acks says of each whether it has an answer, which the thread waits for.
Rest(t, pc) == [thr[t] EXCEPT !.pc = pc, !.acks = Tail(@)]
Over(t) == Rest(t, IF Len(thr[t].acks) = 1 THEN "done" ELSE "ready")
Sent(t) == IF Head(thr[t].acks) THEN [thr[t] EXCEPT !.pc = "sent"] ELSE Over(t)

\* The packet of the message a thread sends.
Request(t) == IF Head(thr[t].acks) THEN "put" ELSE "put_no_ack"

\* A put or get of an application thread; a process first starts its
\* interface.
Send(t) ==
    /\ thr[t].pc = "ready"
    /\ ni[NodeOf(t)].state = "up"
    /\ wait_conn(t, NodeOf(t), thr[t].peer, Request(t), Sent(t), Over(t))
    /\ UNCHANGED <<load, ni, up, cq, lost, dropped>>

\* The end of wait_conn after pthread_cond_wait: one look at the state.
Woken(t) ==
    LET n == NodeOf(t)
        m == thr[t].peer
    IN /\ t \in App
       /\ thr[t].pc = "woken"
       /\ IF conn[n][m].state = "CONNECTED"
          THEN /\ thr' = [thr EXCEPT ![t] = Sent(t)]
               /\ send_message(n, m, Request(t))
          ELSE /\ thr' = [thr EXCEPT ![t] = Over(t)]
               /\ UNCHANGED wire
       /\ UNCHANGED <<load, ni, conn, cm, evq, up, cq, faults, broken, lost, dropped>>

\* PtlNIInit, as far as connections see it.
NIInit(n) ==
    /\ ni[n].state = "absent"
    /\ ni' = [ni EXCEPT ![n].state = "up"]
    /\ UNCHANGED <<load, conn, cm, evq, up, wire, cq, thr, faults, broken, lost, dropped>>

-----------------------------------------------------------------------------
(* Opening a connection: the event thread, process_cm_event.               *)

\* The event at the head of a channel is handled.
Event(id, e) == evq[id[1]] # <<>> /\ Head(evq[id[1]]) = [id |-> id, type |-> e]
Handled(id) == [evq EXCEPT ![id[1]] = Tail(@)]
HandledRaise(id, other, e) == Raise(Handled(id), other, e)

\* A connection attempt ended: the state, and everyone who waits is woken.
SetState(n, m, s) ==
    /\ conn' = [conn EXCEPT ![n][m].state = s]
    /\ thr' = Broadcast(n, m)

GiveUp(n, m) ==
    /\ conn' = [conn EXCEPT ![n][m].state = "DISCONNECTED", ![n][m].cm_id = "none"]
    /\ thr' = Broadcast(n, m)

AddrResolved(id) ==
    LET n == id[1]
        m == id[2]
    IN /\ Event(id, "ADDR_RESOLVED")
       /\ \/ /\ \/ cm[id].ctx # "conn"
                \/ conn[n][m].state # "RESOLVING_ADDR"
             /\ evq' = Handled(id)
             /\ UNCHANGED <<conn, thr, faults, broken>>
          \/ /\ cm[id].ctx = "conn" /\ conn[n][m].state = "RESOLVING_ADDR"
             /\ Assert("addr_resolved", CmId(n, m) = id)
             /\ \/ /\ conn' = [conn EXCEPT ![n][m].state = "RESOLVING_ROUTE"]
                   /\ evq' = HandledRaise(id, id, "ROUTE_RESOLVED")
                   /\ UNCHANGED <<thr, faults>>
                \/ /\ MayFail
                   /\ faults' = faults - 1
                   /\ evq' = Handled(id)
                   /\ GiveUp(n, m)
       /\ UNCHANGED <<load, ni, cm, up, wire, cq, lost, dropped>>

RouteResolved(id) ==
    LET n == id[1]
        m == id[2]
    IN /\ Event(id, "ROUTE_RESOLVED")
       /\ \/ /\ \/ cm[id].ctx # "conn"
                \/ conn[n][m].state # "RESOLVING_ROUTE"
             /\ evq' = Handled(id)
             /\ UNCHANGED <<conn, cm, thr, faults, broken>>
          \/ /\ cm[id].ctx = "conn" /\ conn[n][m].state = "RESOLVING_ROUTE"
             /\ Assert("route_resolved", CmId(n, m) = id)
             /\ \/ /\ conn' = [conn EXCEPT ![n][m].state = "CONNECTING"]
                   /\ cm' = [cm EXCEPT ![id].qp = TRUE]
                   /\ evq' = HandledRaise(id, Partner(id), "CONNECT_REQUEST")
                   /\ UNCHANGED <<thr, faults>>
                \/ /\ MayFail  \* rdma_create_qp or rdma_connect
                   /\ faults' = faults - 1
                   /\ evq' = Handled(id)
                   /\ GiveUp(n, m)
                   /\ UNCHANGED cm
       /\ UNCHANGED <<load, ni, up, wire, cq, lost, dropped>>

\* accept_connection_request: an attempt of our own is cancelled.
accept_connection_request(id) ==
    LET n == id[1]
        m == id[2]
        old == CmId(n, m)
    IN /\ conn' = [conn EXCEPT ![n][m].state = "CONNECTING", ![n][m].cm_id = "pas"]
       /\ cm' = [i \in Ids |-> IF i = id THEN [ctx |-> "conn", qp |-> TRUE]
                               ELSE IF i = old THEN [cm[i] EXCEPT !.ctx = "none"]
                               ELSE cm[i]]
       /\ evq' = HandledRaise(id, Partner(id), "RESPONSE")
       /\ UNCHANGED <<thr, faults, dropped>>

\* rdma_create_qp or rdma_accept fails: who waits here is woken, but the
\* request is not rejected.  (The peer's connection manager reports the
\* silence as RDMA_CM_EVENT_UNREACHABLE, which process_cm_event ignores.)
accept_connection_request_fails(id) ==
    LET n == id[1]
        m == id[2]
        old == CmId(n, m)
    IN /\ MayFail
       /\ faults' = faults - 1
       /\ evq' = Handled(id)
       /\ dropped' = dropped \cup {Partner(id)}
       /\ \/ SetState(n, m, "DISCONNECTED") /\ UNCHANGED cm  \* rdma_create_qp
          \/ /\ GiveUp(n, m)                                 \* rdma_accept
             /\ cm' = [i \in Ids |-> IF i = id THEN [ctx |-> "conn", qp |-> FALSE]
                                     ELSE IF i = old THEN [cm[i] EXCEPT !.ctx = "none"]
                                     ELSE cm[i]]

accept_connection_self(id) ==
    /\ conn' = [conn EXCEPT ![id[1]][id[1]].state = "CONNECTING"]
    /\ cm' = [cm EXCEPT ![id] = [ctx |-> "ni", qp |-> TRUE]]
    /\ evq' = HandledRaise(id, Partner(id), "RESPONSE")
    /\ UNCHANGED <<thr, faults, dropped>>

\* As for another process, except that the attempt is the waiter's own.
accept_connection_self_fails(id) ==
    /\ MayFail
    /\ faults' = faults - 1
    /\ evq' = Handled(id)
    /\ SetState(id[1], id[1], "DISCONNECTED")
    /\ \/ UNCHANGED cm                                           \* rdma_create_qp
       \/ cm' = [cm EXCEPT ![id] = [ctx |-> "ni", qp |-> FALSE]]  \* rdma_accept
    /\ UNCHANGED dropped

Reject(id, reason) ==
    /\ evq' = HandledRaise(id, Partner(id), reason)
    /\ UNCHANGED <<conn, cm, thr, faults, dropped>>

Connecting == {"RESOLVING_ADDR", "RESOLVING_ROUTE", "CONNECTING"}

\* Why a request is refused, if it is.  When both sides connect at once the
\* request of the higher id is the one that is accepted (compare_id).
Refusal_NoneGives(id) ==  \* Changed: a side that connects accepts no request.
    LET n == id[1]
        m == id[2]
        state == conn[n][m].state
    IN IF ni[n].state \in {"absent", "gone"} THEN "NO_NI"
       ELSE IF state \in {"CONNECTED", "DISCONNECTING"} THEN state
       ELSE IF state \in Connecting /\ m # n THEN "CONNECTING"
       ELSE "none"

Refusal(id) ==
    LET n == id[1]
        m == id[2]
        state == conn[n][m].state
    IN IF ni[n].state \in {"absent", "gone"} THEN "NO_NI"
       ELSE IF state \in {"CONNECTED", "DISCONNECTING"} THEN state
       ELSE IF state \in Connecting /\ m < n THEN "CONNECTING"
       ELSE "none"

process_connect_request(id) ==
    LET self == id[1] = id[2] /\ conn[id[1]][id[2]].state \in Connecting
    IN /\ Event(id, "CONNECT_REQUEST")
       /\ \/ Refusal(id) # "none" /\ Reject(id, Refusal(id))
          \/ /\ Refusal(id) = "none" /\ self
             /\ accept_connection_self(id) \/ accept_connection_self_fails(id)
          \/ /\ Refusal(id) = "none" /\ ~self
             /\ accept_connection_request(id) \/ accept_connection_request_fails(id)
       /\ UNCHANGED <<load, ni, up, wire, cq, broken, lost>>

\* process_connect_reject: the refusal of an attempt that the peer's own
\* attempt replaces changes nothing.
process_connect_reject(id, reason) ==
    /\ Event(id, reason)
    /\ evq' = Handled(id)
    /\ IF cm[id].ctx # "conn" \/ reason \in {"CONNECTED", "CONNECTING"}
       THEN UNCHANGED <<conn, thr, cm>>
       ELSE /\ SetState(id[1], id[2], "DISCONNECTED")
            /\ cm' = [cm EXCEPT ![CmId(id[1], id[2])].qp = FALSE]
    /\ UNCHANGED <<load, ni, up, wire, cq, faults, broken, lost, dropped>>

Established_NoCount(id) ==  \* Changed: num_conn is not incremented.
    LET n == id[1]
        m == id[2]
    IN /\ UNCHANGED ni
       /\ IF cm[id].ctx = "conn" /\ conn[n][m].state = "CONNECTING"
          THEN /\ Assert("established", CmId(n, m) = id)
               /\ SetState(n, m, "CONNECTED")
          ELSE UNCHANGED <<conn, thr, broken>>

\* RDMA_CM_EVENT_ESTABLISHED for the owner of id.
Established(id) ==
    LET n == id[1]
        m == id[2]
    IN /\ ni' = IF cm[id].ctx = "conn" THEN [ni EXCEPT ![n].num_conn = @ + 1] ELSE ni
       /\ IF cm[id].ctx = "conn" /\ conn[n][m].state = "CONNECTING"
          THEN /\ Assert("established", CmId(n, m) = id)
               /\ SetState(n, m, "CONNECTED")
          ELSE UNCHANGED <<conn, thr, broken>>

\* The active side learns that its request was accepted; the connection
\* manager then tells the passive side (ready to use).
EstablishedActive(id) ==
    /\ Event(id, "RESPONSE")
    /\ Established(id)
    /\ up' = up \cup {id}
    /\ evq' = HandledRaise(id, Partner(id), "ESTABLISHED")
    /\ UNCHANGED <<load, cm, wire, cq, faults, lost, dropped>>

EstablishedPassive(id) ==
    /\ Event(id, "ESTABLISHED")
    /\ Established(id)
    /\ evq' = Handled(id)
    /\ UNCHANGED <<load, cm, up, wire, cq, faults, lost, dropped>>

\* RDMA_CM_EVENT_DISCONNECTED: the side that was not disconnecting yet does
\* so too.  The loopback's second identifier belongs to the interface.
Disconnected(id) ==
    LET n == id[1]
        m == id[2]
    IN /\ Event(id, "DISCONNECTED")
       /\ evq' = Handled(id)
       /\ IF cm[id].ctx = "conn"
          THEN /\ Assert("disconnected", conn[n][m].state # "DISCONNECTED")
               /\ cm' = [cm EXCEPT ![id].qp = (conn[n][m].state = "DISCONNECTING")]
               /\ SetState(n, m, "DISCONNECTED")
               /\ ni' = [ni EXCEPT ![n].num_conn = @ - 1]
          ELSE /\ cm' = [cm EXCEPT ![id].qp = FALSE]
               /\ UNCHANGED <<conn, thr, ni, broken>>
       /\ UNCHANGED <<load, up, wire, cq, faults, lost, dropped>>

-----------------------------------------------------------------------------
(* Packets.  A packet is received in order; the completion of a disconnect *)
(* message tells its sender that everything before it was received.        *)

Connected(n, m) == <<n, m, "act">> \in up \/ <<m, n, "act">> \in up

Receive(n, m) ==
    LET kind == Head(wire[<<n, m>>])
        here == Append(cq[m], [type |-> kind, peer |-> n])
    IN /\ wire[<<n, m>>] # <<>>
       /\ Connected(n, m)
       /\ wire' = [wire EXCEPT ![<<n, m>>] = Tail(@)]
       /\ cq' = IF kind = "disc"
                THEN [[cq EXCEPT ![m] = here]
                        EXCEPT ![n] = Append(@, [type |-> "comp", peer |-> m])]
                ELSE [cq EXCEPT ![m] = here]
       /\ UNCHANGED <<load, ni, conn, cm, evq, up, thr, faults, broken, lost, dropped>>

Completion(n, type) ==
    /\ thr[Prog(n)].pc = "idle"
    /\ cq[n] # <<>>
    /\ Head(cq[n]).type = type
    /\ cq' = [cq EXCEPT ![n] = Tail(@)]

\* recv_req of a put or get: the target needs the connection to answer.
RecvRequest(n) ==
    /\ Completion(n, "put")
    /\ wait_conn(Prog(n), n, Head(cq[n]).peer, "ack", thr[Prog(n)], thr[Prog(n)])
    /\ UNCHANGED <<load, ni, up, lost, dropped>>

RecvRequestNoAck(n) ==
    /\ Completion(n, "put_no_ack")
    /\ UNCHANGED <<load, ni, conn, cm, evq, up, wire, thr, faults, broken, lost, dropped>>

\* The progress thread continues in tgt_wait_conn.
RecvRequestWoken(n) ==
    LET p == Prog(n)
    IN /\ thr[p].pc = "woken"
       /\ thr' = [thr EXCEPT ![p].pc = "idle"]
       /\ IF conn[n][thr[p].peer].state = "CONNECTED"
          THEN send_message(n, thr[p].peer, "ack")
          ELSE UNCHANGED wire
       /\ UNCHANGED <<load, ni, conn, cm, evq, up, cq, faults, broken, lost, dropped>>

\* recv_init of an acknowledgement: one thread has its answer.
RecvAck(n) ==
    /\ Completion(n, "ack")
    /\ LET from == Head(cq[n]).peer
       IN \E t \in App :
            /\ thr[t].pc = "sent" /\ NodeOf(t) = n /\ thr[t].peer = from
            /\ thr' = [thr EXCEPT ![t] = Over(t)]
    /\ UNCHANGED <<load, ni, conn, cm, evq, up, wire, faults, broken, lost, dropped>>

\* A connection may be closed: our announcement has completed, so everything
\* we sent before it was received, and the peer's has arrived.
Announced_Alone(c) == c.local_disc = 2  \* Changed: the peer is not waited for.

Announced(c) == c.local_disc = 2 /\ c.remote_disc

\* disconnect_conn_locked, which must not be called twice.
disconnect_conn_locked(n, m, c) ==
    IF Announced(c) /\ c.state # "DISCONNECTED"
    THEN /\ broken' = broken \cup (IF c.state = "DISCONNECTING" THEN {"disconnect"} ELSE {})
         /\ conn' = [conn EXCEPT ![n][m] = [c EXCEPT !.state = "DISCONNECTING"]]
         /\ IF c.state \in {"CONNECTING", "CONNECTED", "RESOLVING_ROUTE"}
            THEN rdma_disconnect(CmId(n, m))
            ELSE UNCHANGED <<up, evq, lost, wire>>
    ELSE /\ conn' = [conn EXCEPT ![n][m] = c]
         /\ UNCHANGED <<up, evq, lost, wire, broken>>

\* send_comp of our disconnect message.
SendCompDisc(n) ==
    /\ Completion(n, "comp")
    /\ LET m == Head(cq[n]).peer
       IN disconnect_conn_locked(n, m, [conn[n][m] EXCEPT !.local_disc = 2])
    /\ UNCHANGED <<load, ni, cm, thr, faults, dropped>>

\* recv_packet of the peer's disconnect message.
RecvDisc(n) ==
    /\ Completion(n, "disc")
    /\ LET m == Head(cq[n]).peer
       IN disconnect_conn_locked(n, m, [conn[n][m] EXCEPT !.remote_disc = TRUE])
    /\ UNCHANGED <<load, ni, cm, thr, faults, dropped>>

-----------------------------------------------------------------------------
(* Closing: PtlNIFini, once the processes agreed that they are done.       *)

AllDone == \A t \in App : thr[t].pc = "done"

\* ni_cleanup in state NI_INIT_CLEANUP.
NIFini(n) ==
    /\ AllDone
    /\ ni[n].state = "up"
    /\ ni' = [ni EXCEPT ![n].state = "init_cleanup", ![n].todo = Nodes]
    /\ UNCHANGED <<load, conn, cm, evq, up, wire, cq, thr, faults, broken, lost, dropped>>

\* initiate_disconnect_one and send_disconnect_msg.
initiate_disconnect_one(n, m) ==
    /\ ni[n].state = "init_cleanup"
    /\ m \in ni[n].todo
    /\ \A k \in ni[n].todo : m <= k
    /\ ni' = [ni EXCEPT ![n].todo = @ \ {m}]
    /\ IF conn[n][m].state = "CONNECTED"
       THEN /\ conn' = [conn EXCEPT ![n][m].local_disc = 1]
            /\ send_message(n, m, "disc")
            /\ UNCHANGED broken
       ELSE /\ Assert("initiate_disconnect_one", conn[n][m].state = "DISCONNECTED")
            /\ UNCHANGED <<conn, wire>>
    /\ UNCHANGED <<load, cm, evq, up, cq, thr, faults, lost, dropped>>

\* NI_WAIT_DISCONNECT_ALL: PtlNIFini is called again until no connection is
\* left, then destroy_conns.
FinishCleanup(n) ==
    /\ ni[n].state = "init_cleanup"
    /\ ni[n].todo = {}
    /\ ni[n].num_conn = 0
    /\ thr[Prog(n)].pc = "idle"  \* stop_progress_thread
    /\ ni' = [ni EXCEPT ![n].state = "gone"]
    /\ Assert("destroy_conns", \A m \in Nodes : conn[n][m].state = "DISCONNECTED")
    /\ LET mine == {CmId(n, m) : m \in Nodes} \cup {<<n, n, "pas">>}
       IN /\ evq' = [evq EXCEPT ![n] = SelectSeq(@, LAMBDA e : e.id \notin mine)]
          /\ cm' = [id \in Ids |-> IF id \in mine THEN [ctx |-> "none", qp |-> FALSE]
                                   ELSE cm[id]]
    /\ conn' = [conn EXCEPT ![n] = [m \in Nodes |-> conn_init]]
    /\ cq' = [cq EXCEPT ![n] = <<>>]
    /\ UNCHANGED <<load, up, wire, thr, faults, lost, dropped>>

-----------------------------------------------------------------------------
AppStep(t) == Send(t) \/ Woken(t)

EventStep(id) ==
    \/ AddrResolved(id)
    \/ RouteResolved(id)
    \/ process_connect_request(id)
    \/ \E r \in {"NO_NI", "CONNECTED", "CONNECTING", "DISCONNECTING"} :
         process_connect_reject(id, r)
    \/ EstablishedActive(id)
    \/ EstablishedPassive(id)
    \/ Disconnected(id)

ProgressStep(n) ==
    \/ RecvRequest(n)
    \/ RecvRequestNoAck(n)
    \/ RecvRequestWoken(n)
    \/ RecvAck(n)
    \/ SendCompDisc(n)
    \/ RecvDisc(n)

CloseStep(n) ==
    \/ NIFini(n)
    \/ \E m \in Nodes : initiate_disconnect_one(n, m)
    \/ FinishCleanup(n)

Next ==
    \/ \E t \in App : AppStep(t)
    \/ \E id \in Ids : EventStep(id)
    \/ \E n, m \in Nodes : Receive(n, m)
    \/ \E n \in Nodes : NIInit(n) \/ ProgressStep(n) \/ CloseStep(n)

Spec == Init /\ [][Next]_vars

\* Threads run, and the network delivers.
FairSpec == Spec /\ WF_vars(Next)

-----------------------------------------------------------------------------
\* The assertions and aborts of the connection code are never reached:
\* a new attempt starts without an identifier, a handler finds the identifier
\* its event is about, no connection is closed twice, no interface starts to
\* close a connection that is half open, and destroy_conns finds every
\* connection closed.
AssertsHold == broken = {}

\* "It cannot just close its connections because there might be some packets
\* in flight": a queue pair is disconnected only when both directions are
\* empty of requests and answers.
NothingLost == lost = {}

\* Every send comes to an end, connected or failed, also when both sides open
\* the connection at once, unless the peer dropped its request: a failure in
\* accept_connection_request tells nobody.  When no request was dropped every
\* process finishes, and its PtlNIFini finds the connections closed.
EndsReached ==
    /\ <>[](\A t \in App : \/ thr[t].pc = "done"
                           \/ <<NodeOf(t), thr[t].peer, "act">> \in dropped)
    /\ <>(dropped = {} => \A n \in Nodes : ni[n].state = "gone")

=============================================================================
