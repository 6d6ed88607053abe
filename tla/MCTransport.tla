---------------------------- MODULE MCTransport ----------------------------
(***************************************************************************)
(* The two ways a message reaches its target: the queue in shared memory   *)
(* and the connections between processes.  They share no state; a          *)
(* behaviour is of the queue when there is nothing to connect, and of the  *)
(* connections otherwise.                                                  *)
(***************************************************************************)
EXTENDS SharedQueue

CONSTANT ConnWorkloads

VARIABLES load, ni, conn, cm, evq, up, wire, cq, thr, faults, broken, lost, dropped

connVars == <<load, ni, conn, cm, evq, up, wire, cq, thr, faults, broken, lost, dropped>>

Conn == INSTANCE Connection WITH Workloads <- ConnWorkloads

S(a, b, acks) == [from |-> a, to |-> b, acks |-> acks]

Shared == [nodes |-> {1, 2}, late |-> {}, faults |-> 0, sends |-> <<>>]

ConnLoads ==
    {Shared,
    \* both open the connection, with a second thread on one side
     [nodes |-> {1, 2}, late |-> {}, faults |-> 0,
      sends |-> <<S(1, 2, <<TRUE>>), S(2, 1, <<TRUE>>), S(1, 2, <<TRUE>>)>>],
    \* a process sends to itself and to the other, which starts later
     [nodes |-> {1, 2}, late |-> {2}, faults |-> 0,
      sends |-> <<S(1, 1, <<TRUE>>), S(1, 2, <<TRUE>>), S(2, 1, <<TRUE>>)>>],
    \* calls to the connection manager fail
     [nodes |-> {1, 2}, late |-> {}, faults |-> 1,
      sends |-> <<S(1, 2, <<TRUE>>), S(1, 2, <<TRUE>>)>>],
     [nodes |-> {1, 2}, late |-> {}, faults |-> 1,
      sends |-> <<S(1, 1, <<TRUE>>), S(1, 2, <<TRUE>>)>>],
    \* the last message has no answer
     [nodes |-> {1, 2}, late |-> {}, faults |-> 0,
      sends |-> <<S(1, 2, <<TRUE, FALSE>>)>>]}

\* No message has an answer: the receiver may finish before its event thread
\* has seen that the connection is established.
UnansweredLoads ==
    {[nodes |-> {1, 2}, late |-> {}, faults |-> 0, sends |-> <<S(1, 2, <<FALSE>>)>>]}

-----------------------------------------------------------------------------
TransportInit == Init /\ Conn!Init

QueueStep(A) == load = Shared /\ A /\ UNCHANGED connVars
ConnStep == load # Shared /\ Conn!Next /\ UNCHANGED vars

TransportNext == QueueStep(Next) \/ ConnStep

\* As in SharedQueue and Connection.
TransportSpec ==
    /\ TransportInit /\ [][TransportNext]_<<vars, connVars>>
    /\ \A p \in Producer : WF_vars(QueueStep(enqueue(p)))
    /\ WF_vars(QueueStep(dequeue))
    /\ WF_vars(QueueStep(\E v \in Obj \cup {NULL} : buf_put(v)))
    /\ WF_connVars(ConnStep)

\* No assertion or abort of the connection code is reached (ptl_conn.c).
AssertsHold == Conn!AssertsHold

\* No message is lost that was sent over a connection (ptl_conn.c).
NothingLost == Conn!NothingLost

\* Sends end and every process finishes, its connections closed (ni_cleanup and
\* ptl_conn.c), unless a peer dropped a request when it failed to accept it.
EndsReached == load # Shared => Conn!EndsReached
=============================================================================
