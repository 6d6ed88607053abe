--------------------------- MODULE MCPpeCommand ---------------------------
(* Calls to the portals process engine: instances for TLC. *)
EXTENDS PpeCommand

CONSTANTS p1, p2, t1, t2, t3, b1, b2, h1, h2

ThreadProcs == t1 :> p1 @@ t2 :> p1 @@ t3 :> p2

Quiet == [calls |-> <<>>, engines |-> 2, refuse |-> FALSE, drain |-> 0,
          crashes |-> 0, fails |-> FALSE, init_fails |-> FALSE]
Run3(a, b, c) == t1 :> a @@ t2 :> b @@ t3 :> c

AnyCall == DOMAIN Sends \ {"PtlInit", "PtlFini"}

\* Every call of the interface, in one of two processes that share the buffers.
EveryCall == [Quiet EXCEPT !.fails = TRUE, !.refuse = TRUE,
    !.calls = Run3(<<{"PtlInit"}, AnyCall, {"PtlFini"}>>, <<>>,
                   <<{"PtlFini"}, {"PtlInit"}, {"PtlPut"}>>)]

\* Two threads of one process allocate and free, so that handles are reused
\* while an entry is still in the list.
Objects == [Quiet EXCEPT
    !.calls = Run3(<<{"PtlInit"}, {"PtlCTAlloc"}, {"PtlCTFree"}, {"PtlFini"}>>,
                   <<{"PtlInit"}, {"PtlCTAlloc", "PtlEQAlloc"},
                     {"PtlCTFree", "PtlEQFree"}>>, <<>>)]

\* A process dies with an object or an interface, while another one works.
Deaths == [Quiet EXCEPT !.crashes = 1, !.engines = 1,
    !.calls = Run3(<<{"PtlInit"}, {"PtlCTAlloc", "PtlNIInit"}, {"PtlCTFree"}>>, <<>>,
                   <<{"PtlInit"}, {"PtlEQAlloc", "PtlNIInit"}, {"PtlEQFree"}>>)]

\* Interfaces opened twice, closed while connections drain.
Interfaces == [Quiet EXCEPT !.drain = 1,
    !.calls = Run3(<<{"PtlInit"}, {"PtlNIInit"}, {"PtlSetMap"}, {"PtlNIFini"}>>,
                   <<{"PtlInit"}, {"PtlNIInit"}, {"PtlNIFini"}, {"PtlFini"}>>,
                   <<{"PtlInit"}>>)]

\* Two processes open and close interfaces, in one progress thread.
Two == [Quiet EXCEPT !.engines = 1,
    !.calls = Run3(<<{"PtlInit"}, {"PtlNIInit"}, {"PtlSetMap"}, {"PtlNIFini"}>>, <<>>,
                   <<{"PtlInit"}, {"PtlNIInit"}, {"PtlSetMap"}, {"PtlNIFini"}, {"PtlFini"}>>)]

\* Opening, mapping and closing an interface may fail.
Failing == [Quiet EXCEPT !.fails = TRUE,
    !.calls = Run3(<<{"PtlInit"}, {"PtlNIInit"}, {"PtlSetMap"}, {"PtlSetMap"},
                     {"PtlNIFini"}, {"PtlFini"}>>, <<>>, <<{"PtlInit"}, {"PtlPut"}>>)]

\* The engine's own PtlInit fails, in the only thread of a process that calls.
NotInit == [Quiet EXCEPT !.init_fails = TRUE,
    !.calls = Run3(<<{"PtlInit"}, {"PtlPut"}>>, <<>>, <<{"PtlInit"}, {"PtlPut"}, {"PtlFini"}>>)]

Scenarios == {EveryCall, Objects, Deaths, Interfaces, Two, Failing, NotInit}

\* Calls that never return: a second PtlInit after one that failed; an
\* interface opened again after a failure or, with a map, after a death; and
\* two progress threads that change the registry at the same time.
Locked == [Quiet EXCEPT !.init_fails = TRUE,
    !.calls = Run3(<<{"PtlInit"}>>, <<{"PtlInit"}>>, <<>>)]
OpenedAgain == [Quiet EXCEPT !.fails = TRUE,
    !.calls = Run3(<<{"PtlInit"}, {"PtlNIInit"}, {"PtlNIInit"}>>, <<>>, <<>>)]
MappedAgain == [Quiet EXCEPT !.crashes = 1,
    !.calls = Run3(<<{"PtlInit"}, {"PtlNIInit"}, {"PtlSetMap"}>>, <<>>, <<>>)]
Racing == [Quiet EXCEPT
    !.calls = Run3(<<{"PtlInit"}, {"PtlNIInit"}, {"PtlNIFini"}>>, <<>>,
                   <<{"PtlInit"}, {"PtlNIInit"}, {"PtlNIFini"}>>)]
Hanging == {Locked, OpenedAgain, MappedAgain, Racing}
=============================================================================
