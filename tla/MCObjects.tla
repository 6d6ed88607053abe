----------------------------- MODULE MCObjects -----------------------------
(***************************************************************************)
(* The pools of objects, the cache of memory registrations and the        *)
(* interfaces of a process.  They share no state; every behaviour is of   *)
(* one of them, the one whose workload is not empty.                      *)
(***************************************************************************)
EXTENDS ObjPool

VARIABLES mload, map, ro, fresh, kern, gen, tree, mr, lock, mthr, ev,  \* MrCache
          nload, gbl, iface, ni, nthr                      \* NetworkInterface

cacheVars == <<mload, map, ro, fresh, kern, gen, tree, mr, lock, mthr, ev>>
interfaceVars == <<nload, gbl, iface, ni, nthr>>

CONSTANTS MrWorkloads, InterfaceWorkloads

Users == {1, 2}

Cache == INSTANCE MrCache WITH load <- mload, thr <- mthr, Threads <- Users,
             PageSize <- 2, Pages <- 4, Mrs <- 1 .. 6, Workloads <- MrWorkloads

Interfaces == INSTANCE NetworkInterface WITH load <- nload, thr <- nthr,
                  NITypes <- {"phys", "logi"}, Workloads <- InterfaceWorkloads

-----------------------------------------------------------------------------
(* Objects: two growing and fixed pools of at most three objects.          *)

A == "alloc"
Scripts(a, b, c) == [t \in Threads |-> CASE t = 1 -> a [] t = 2 -> b [] OTHER -> c]
Pool(fixed, fini, fails, a, b, c) ==
    [fixed |-> fixed, fini |-> fini, fails |-> fails, script |-> Scripts(a, b, c)]
NoPool == Pool(FALSE, FALSE, {}, <<>>, <<>>, <<>>)

\* Objects are looked up and put, the indexes run out, a fixed pool is waited
\* for; slabs and objects fail; a pool ends with and without an object in use.
PoolLoads ==
    {NoPool,
     Pool(FALSE, FALSE, {}, <<A, "look", "put", "put">>, <<A, A, A, "put">>, <<>>),
     Pool(TRUE, FALSE, {}, <<A, A, "put", "put">>, <<A, "put">>, <<>>),
     Pool(TRUE, FALSE, {}, <<A, "put">>, <<A, "put">>, <<A>>),
     Pool(FALSE, TRUE, {"slab", "init", "setup"}, <<A, "put", "fini">>, <<A, "put">>, <<>>),
     Pool(FALSE, TRUE, {}, <<A, "put">>, <<A>>, <<"fini">>),
     Pool(TRUE, TRUE, {"setup"}, <<A, "put">>, <<A, "put">>, <<"fini">>)}

-----------------------------------------------------------------------------
(* Registrations: two threads, four pages of two bytes.                    *)

Lookup(s, n) == [op |-> "lookup", start |-> s, length |-> n, fails |-> "no"]
Failing(s, n, how) == [op |-> "lookup", start |-> s, length |-> n, fails |-> how]
P == [op |-> "put"]
M(p) == [op |-> "map", page |-> p, ro |-> FALSE]
R(p) == [op |-> "map", page |-> p, ro |-> TRUE]
U(p) == [op |-> "unmap", page |-> p]

NoMr == [t \in Users |-> <<>>]

\* Ranges that touch across the two threads' pages, and pages that are
\* unmapped and mapped again between lookups.
MrLoads ==
    {NoMr} \cup
    {[t \in Users |-> IF t = 1 THEN a ELSE b] :
        a \in {<<Lookup(1, 2), P, U(1), M(1), Lookup(3, 1), P>>,
               <<Lookup(2, 2), Lookup(0, 1), P, P>>},
        b \in {<<Lookup(4, 4), P, U(2), M(2), Lookup(5, 2), P>>,
               <<Lookup(6, 2), P, U(3), M(3), Lookup(4, 4), P>>,
               <<Lookup(4, 1), Lookup(5, 1), Lookup(4, 3), P, P, P>>,
               <<U(2), R(2), Lookup(4, 1), Failing(5, 2, "reg"), Failing(5, 2, "alloc"),
                 Lookup(5, 2), P, P, U(2), M(2), Lookup(4, 1)>>}}

\* A neighbour is unmapped for good.
GoneLoads ==
    {[t \in Users |-> IF t = 1 THEN <<Lookup(2, 2), P>>
                      ELSE <<Lookup(4, 2), P, U(2)>>]}

-----------------------------------------------------------------------------
(* Interfaces: two threads, a physical and a logical interface.            *)

C(op) == [op |-> op, type |-> "phys", pid |-> 0, fails |-> "no"]
NI(op, y, p) == [op |-> op, type |-> y, pid |-> p, fails |-> "no"]
Failed(op, y, p, how) == [op |-> op, type |-> y, pid |-> p, fails |-> how]

NoInterface == [t \in Users |-> <<>>]

\* The library cannot be made the first time, and an interface fails at every
\* stage in one thread while another makes, maps and uses it.
FailingLoads ==
    {<<<<Failed("PtlInit", "phys", 0, "early"), Failed("PtlNIInit", "logi", p, how),
         NI("Use", "logi", 0),
         NI("PtlNIFini", "logi", 0), C("PtlFini")>>,
       <<C("PtlInit"), NI("PtlNIInit", "logi", 0), Failed("PtlSetMap", "logi", 0, "alloc"),
         NI("PtlSetMap", "logi", 0), NI("PtlNIFini", "logi", 0), C("PtlFini")>>>> :
      p \in {0, 1}, how \in {"early", "pools", "transport", "late"}}

\* What a failing call leaves behind.
LeftLoads ==
    {<<<<C("PtlInit"), Failed("PtlNIInit", "logi", 1, "late")>>, <<>>>>,
     <<<<C("PtlInit"), NI("PtlNIInit", "logi", 1),
         Failed("PtlSetMap", "logi", 0, "rank")>>, <<>>>>,
     <<<<C("PtlInit"), NI("PtlNIInit", "logi", 1),
         Failed("PtlSetMap", "logi", 0, "tables")>>, <<>>>>}

InterfaceLoads ==
    {NoInterface,
    \* two threads, two interfaces, one of them shared
     <<<<C("PtlInit"), NI("PtlNIInit", "phys", 2), NI("Use", "phys", 0),
         NI("PtlNIInit", "logi", 0), NI("PtlSetMap", "logi", 0), NI("PtlSetMap", "logi", 0),
         NI("PtlNIFini", "logi", 0), NI("PtlNIFini", "phys", 0), C("PtlFini")>>,
       <<C("PtlInit"), NI("PtlNIInit", "logi", 1), NI("Use", "logi", 0),
         NI("PtlNIFini", "logi", 0), C("PtlFini")>>>>,
    \* an interface that is made again, and a map for a physical one
     <<<<C("PtlInit"), NI("PtlNIInit", "phys", 1), NI("PtlSetMap", "phys", 0),
         NI("PtlNIFini", "phys", 0), NI("PtlNIInit", "phys", 0),
         NI("PtlNIFini", "phys", 0), C("PtlFini"),
         C("PtlInit")>>, <<>>>>} \cup FailingLoads

\* A thread opens an interface while another closes it.
ReopenLoads ==
    {<<<<C("PtlInit"), NI("PtlNIInit", "phys", 0), NI("PtlNIFini", "phys", 0), C("PtlFini")>>,
       <<C("PtlInit"), NI("PtlNIInit", "phys", 0), NI("Use", "phys", 0),
         NI("PtlNIFini", "phys", 0), C("PtlFini")>>>>}

NoPoolLoads == {NoPool}
NoMrLoads == {NoMr}
NoInterfaceLoads == {NoInterface}

-----------------------------------------------------------------------------
AllInit ==
    /\ Init /\ Cache!Init /\ Interfaces!Init
    /\ Cardinality({x \in {<<"pool", load # NoPool>>, <<"mr", mload # NoMr>>,
                           <<"interface", nload # NoInterface>>} : x[2]}) = 1

AllNext ==
    \/ Next /\ UNCHANGED <<cacheVars, interfaceVars>>
    \/ Cache!Next /\ UNCHANGED <<vars, interfaceVars>>
    \/ Interfaces!Next /\ UNCHANGED <<vars, cacheVars>>

AllSpec == /\ AllInit /\ [][AllNext]_<<vars, cacheVars, interfaceVars>>
           /\ Fairness /\ Cache!Fairness /\ Interfaces!Fairness

\* No object is lost or handed out twice, the counts of the pool are exact,
\* and its slabs are freed when nobody uses them any more (EachObjectOnce,
\* CountsExact, FreedUnused; obj_alloc, obj_release, pool_alloc_slab, pool_fini).
PoolExact == EachObjectOnce /\ CountsExact /\ FreedUnused

\* A region in use has the pages mapped now, the references of regions are
\* exact and the tree has no overlap (Cache!RegionCurrent, Cache!CacheExact;
\* mr_lookup and process_ummunotify).
RegionsExact == Cache!RegionCurrent /\ Cache!CacheExact

\* An interface a thread has is whole (Interfaces!InterfaceAlive, PtlNIInit).
InterfaceAlive == Interfaces!InterfaceAlive

\* An interface a thread has is not shutting down
\* (Interfaces!UsableWhileHeld, PtlNIInit).
UsableWhileHeld == Interfaces!UsableWhileHeld

\* A call that fails has undone what it did (Interfaces!FailuresUndone,
\* PtlNIInit and PtlSetMap).
FailuresUndone == Interfaces!FailuresUndone

\* Every lookup of a region returns (Cache!LookupsReturn, mr_lookup).
LookupsReturn == mload # NoMr => Cache!LookupsReturn

\* Every call returns, and the last PtlFini has released what PtlInit and every
\* PtlNIInit that succeeded made (PoolCallsReturn, LookupsReturn, Interfaces!InterfaceCallsReturn).
CallsReturn == /\ load # NoPool => PoolCallsReturn
               /\ LookupsReturn
               /\ nload # NoInterface => Interfaces!InterfaceCallsReturn

=============================================================================
