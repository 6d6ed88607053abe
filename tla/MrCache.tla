------------------------------ MODULE MrCache ------------------------------
(***************************************************************************)
(* The cache of memory registrations (ptl_mr.c) with ummunotify.           *)
(*                                                                         *)
(* Threads of the application map and unmap pages of their own and look up *)
(* regions in them; a lookup is served from the tree of cached regions or  *)
(* registers a new region, merged with the cached ones it touches.  The    *)
(* kernel reports unmapped pages of watched regions through ummunotify,    *)
(* and the event loop thread drops those regions from the tree.            *)
(*                                                                         *)
(* A page is mapped with a version; a registration pins the versions it    *)
(* finds.  Addresses are bytes, regions are whole pages.                   *)
(***************************************************************************)
EXTENDS Integers, Sequences, FiniteSets, FiniteSetsExt

CONSTANTS PageSize, Pages, Mrs, Threads, Workloads

VARIABLES load,     \* the script of each thread
          map,      \* the version each page is mapped with, 0 when unmapped
          ro,       \* the pages that are mapped read only
          fresh,    \* the next version
          kern,     \* ummunotify: counter, watched regions, those hit
          gen,      \* generation_counter
          tree,     \* the regions in ni->mr_app
          mr,       \* the mr objects
          lock,     \* the thread that holds tree_lock, or None
          thr,      \* the threads of the application
          ev        \* the cookie process_ummunotify has read, or None

vars == <<load, map, ro, fresh, kern, gen, tree, mr, lock, thr, ev>>

None == 0
Script(t) == load[t]
NoMr == 0

FreeMr == [addr |-> 0, length |-> 0, cookie |-> 0, refs |-> 0, pinned |-> <<>>,
           readonly |-> FALSE]
Idle == [pc |-> "next", at |-> 1, start |-> 0, length |-> 0, merge |-> {},
         new |-> NoMr, held |-> <<>>]

Op(t) == Script(t)[thr[t].at]
Doing(t, what) == /\ thr[t].pc = "next"
                  /\ thr[t].at <= Len(Script(t))
                  /\ Op(t).op = what

End(m) == mr[m].addr + mr[m].length
PagesOf(start, end) == start \div PageSize .. (end - 1) \div PageSize

-----------------------------------------------------------------------------
(* The application, and the kernel.                                        *)

Map(t) ==
    /\ Doing(t, "map")
    /\ map' = [map EXCEPT ![Op(t).page] = fresh]
    /\ ro' = IF Op(t).ro THEN ro \cup {Op(t).page} ELSE ro \ {Op(t).page}
    /\ fresh' = fresh + 1
    /\ thr' = [thr EXCEPT ![t].at = @ + 1]
    /\ UNCHANGED <<load, kern, gen, tree, mr, lock, ev>>

\* Every watched region with the page is hit; the counter counts the events.
Unmap(t) ==
    LET p == Op(t).page
        hit == {r \in kern.watched : p * PageSize \in r.start .. r.end - 1}
    IN  /\ Doing(t, "unmap")
        /\ map' = [map EXCEPT ![p] = 0]
        /\ kern' = [kern EXCEPT !.hit = @ \cup {r.cookie : r \in hit},
                                !.counter = IF hit = {} THEN @ ELSE @ + 1]
        /\ thr' = [thr EXCEPT ![t].at = @ + 1]
        /\ UNCHANGED <<load, ro, fresh, gen, tree, mr, lock, ev>>

-----------------------------------------------------------------------------
(* References.                                                             *)

\* mr_put for every region of ms: the last reference calls mr_cleanup, which
\* ends the watch and the registration, and frees the object.
Dead(ms, objs) == {m \in ms : objs[m].refs = 1}

PutAll(ms, objs) ==
    [m \in Mrs |-> IF m \notin ms THEN objs[m]
                   ELSE IF m \in Dead(ms, objs) THEN FreeMr
                   ELSE [objs[m] EXCEPT !.refs = @ - 1]]

mr_cleanup(k, ms, objs) ==
    LET gone == {objs[m].cookie : m \in Dead(ms, objs)}
    IN  [k EXCEPT !.watched = {r \in @ : r.cookie \notin gone}, !.hit = @ \ gone]

\* A user of a region is done with it.
mr_put(t) ==
    LET m == Head(thr[t].held).mr
    IN  /\ Doing(t, "put")
        /\ mr' = PutAll({m}, mr)
        /\ kern' = mr_cleanup(kern, {m}, mr)
        /\ thr' = [thr EXCEPT ![t].at = @ + 1, ![t].held = Tail(@)]
        /\ UNCHANGED <<load, map, ro, fresh, gen, tree, lock, ev>>

-----------------------------------------------------------------------------
(* mr_lookup.                                                              *)

Start(t) ==
    /\ Doing(t, "lookup")
    /\ thr' = [thr EXCEPT ![t].pc = "wait", ![t].start = Op(t).start,
                          ![t].length = Op(t).length]
    /\ UNCHANGED <<load, map, ro, fresh, kern, gen, tree, mr, lock, ev>>

\* Changed: events that have not been read yet are not waited for.
WaitGeneration_NoWait(t) ==
    /\ thr[t].pc = "wait"
    /\ thr' = [thr EXCEPT ![t].pc = "lock"]
    /\ UNCHANGED <<load, map, ro, fresh, kern, gen, tree, mr, lock, ev>>

\* The loops on the generation counter, before the first try and before
\* another.
WaitGeneration(t) ==
    /\ thr[t].pc = "wait"
    /\ gen = kern.counter
    /\ thr' = [thr EXCEPT ![t].pc = "lock"]
    /\ UNCHANGED <<load, map, ro, fresh, kern, gen, tree, mr, lock, ev>>

\* The regions that hold the range, and the last one that starts at or before
\* it: what the walk down the tree finds.
Fits(start, length) == {m \in tree : mr[m].addr <= start /\ start + length <= End(m)}
LeftNode(start) ==
    LET left == {m \in tree : mr[m].addr <= start}
    IN  {m \in left : \A n \in left : mr[n].addr <= mr[m].addr}

\* From the left node on, regions that the range touches are merged into it,
\* as long as the next one does.
RECURSIVE Extend(_, _, _)
Extend(start, end, ms) ==
    LET right == {m \in tree \ ms : mr[m].addr >= start /\ mr[m].addr <= end}
        m == CHOOSE m \in right : \A n \in right : mr[m].addr <= mr[n].addr
    IN  IF right = {} THEN [start |-> start, end |-> end, merge |-> ms]
        ELSE Extend(start, IF End(m) > end THEN End(m) ELSE end, ms \cup {m})

Merged(start, length) ==
    LET left == {m \in LeftNode(start) : start <= End(m)}
        from == IF left = {} THEN start ELSE mr[CHOOSE m \in left : TRUE].addr
    IN  Extend(from, start + length, left)

\* Under tree_lock: a region that holds the range is taken, or the range is
\* widened by the regions it touches and one is created.
Search(t) ==
    LET s == thr[t].start  n == thr[t].length
        w == Merged(s, n)
    IN  /\ thr[t].pc = "lock"
        /\ lock = None
        /\ IF Fits(s, n) # {}
           THEN \E m \in Fits(s, n) :
                    /\ mr' = [mr EXCEPT ![m].refs = @ + 1]
                    /\ thr' = [thr EXCEPT
                                ![t].pc = "next", ![t].at = @ + 1,
                                ![t].held = Append(@, [op |-> Op(t), mr |-> m])]
                    /\ UNCHANGED lock
           ELSE /\ lock' = t
                /\ thr' = [thr EXCEPT ![t].pc = "watch", ![t].start = w.start,
                                      ![t].length = w.end - w.start,
                                      ![t].merge = w.merge]
                /\ UNCHANGED mr
        /\ UNCHANGED <<load, map, ro, fresh, kern, gen, tree, ev>>

\* An object of the pool; which one is of no consequence.
mr_alloc == Min({m \in Mrs : mr[m].refs = 0})

\* umn_cookie counts up; any number that nothing refers to will do.
umn_cookie == Min((1 .. 2 * Cardinality(Mrs))
                  \ ({r.cookie : r \in kern.watched} \cup kern.hit \cup {ev}
                     \cup {mr[m].cookie : m \in Mrs}))

Down(a) == (a \div PageSize) * PageSize
Up(a) == Down(a + PageSize - 1)

\* mr_create, first half: an object, rounded to whole pages and watched.
umn_register(t) ==
    LET start == Down(thr[t].start)  end == Up(thr[t].start + thr[t].length)
        m == mr_alloc
    IN  /\ thr[t].pc = "watch"
        /\ Op(t).fails # "alloc"
        /\ mr' = [mr EXCEPT ![m] = [addr |-> start, length |-> end - start,
                                    cookie |-> umn_cookie, refs |-> 1, pinned |-> <<>>,
                                    readonly |-> FALSE]]
        /\ thr' = [thr EXCEPT ![t].pc = "register", ![t].new = m]
        /\ kern' = [kern EXCEPT !.watched = @ \cup {[start |-> start, end |-> end,
                                                     cookie |-> umn_cookie]}]
        /\ UNCHANGED <<load, map, ro, fresh, gen, tree, lock, ev>>

\* mr_lookup returns PTL_FAIL: the tree is as it was.
LookupFails(t) ==
    /\ lock' = None
    /\ thr' = [thr EXCEPT ![t].pc = "next", ![t].at = @ + 1]

\* The pool has no object.
mr_alloc_fails(t) ==
    /\ thr[t].pc = "watch"
    /\ Op(t).fails = "alloc"
    /\ LookupFails(t)
    /\ UNCHANGED <<load, map, ro, fresh, kern, gen, tree, mr, ev>>

\* The kernel can pin the pages for ibv_reg_mr; otherwise errno is EFAULT.
CanPin(m) == \A p \in PagesOf(mr[m].addr, End(m)) : map[p] # 0

\* Both registrations fail, not for a page that is missing.
ibv_reg_mr_fails(t) ==
    /\ thr[t].pc = "register"
    /\ Op(t).fails = "reg"
    /\ CanPin(thr[t].new)
    /\ mr' = PutAll({thr[t].new}, mr)
    /\ kern' = mr_cleanup(kern, {thr[t].new}, mr)
    /\ LookupFails(t)
    /\ UNCHANGED <<load, map, ro, fresh, gen, tree, ev>>

\* EFAULT: the lookup waits for the event loop and starts again, with the range
\* as it has been widened.
RegisterAgain(t) ==
    /\ thr[t].pc = "register"
    /\ ~CanPin(thr[t].new)
    /\ lock' = None
    /\ mr' = PutAll({thr[t].new}, mr)
    /\ kern' = mr_cleanup(kern, {thr[t].new}, mr)
    /\ thr' = [thr EXCEPT ![t].pc = "wait"]
    /\ UNCHANGED <<load, map, ro, fresh, gen, tree, ev>>

\* mr_create, second half, and the rest of mr_lookup: the pages are registered,
\* for reading only if one of them cannot be written, the merged regions leave
\* the tree and the new one enters it.
ibv_reg_mr(t) ==
    LET m == thr[t].new
        pages == PagesOf(mr[m].addr, End(m))
        new == [mr EXCEPT ![m].refs = 2, ![m].pinned = [p \in pages |-> map[p]],
                          ![m].readonly = pages \cap ro # {}]
    IN  /\ thr[t].pc = "register"
        /\ Op(t).fails # "reg"
        /\ CanPin(m)
        /\ lock' = None
        /\ mr' = PutAll(thr[t].merge, new)
        /\ kern' = mr_cleanup(kern, thr[t].merge, mr)
        /\ tree' = (tree \ thr[t].merge) \cup {m}
        /\ thr' = [thr EXCEPT ![t].pc = "next", ![t].at = @ + 1,
                              ![t].held = Append(@, [op |-> Op(t), mr |-> m])]
        /\ UNCHANGED <<load, map, ro, fresh, gen, ev>>

-----------------------------------------------------------------------------
(* process_ummunotify on the event loop thread.  There is something to read *)
(* from the first event on until the end of the events has been read.      *)

ReadInvalid ==
    /\ ev = None
    /\ \E c \in kern.hit :
        /\ ev' = c
        /\ kern' = [kern EXCEPT !.hit = @ \ {c}]
    /\ UNCHANGED <<load, map, ro, fresh, gen, tree, mr, lock, thr>>

Invalidate ==
    LET ms == {m \in tree : mr[m].cookie = ev}
    IN  /\ ev # None
        /\ lock = None
        /\ tree' = tree \ ms
        /\ mr' = PutAll(ms, mr)
        /\ kern' = mr_cleanup(kern, ms, mr)
        /\ ev' = None
        /\ UNCHANGED <<load, map, ro, fresh, gen, lock, thr>>

ReadLast ==
    /\ ev = None
    /\ kern.hit = {}
    /\ kern.told # kern.counter
    /\ gen' = kern.counter
    /\ kern' = [kern EXCEPT !.told = kern.counter]
    /\ UNCHANGED <<load, map, ro, fresh, tree, mr, lock, thr, ev>>

-----------------------------------------------------------------------------
(* The end of the interface.                                               *)

Finished(t) == thr[t].pc = "next" /\ thr[t].at > Len(Script(t))
AllFinished == \A t \in Threads : Finished(t)

\* A region that only the tree refers to is left as it is.
cleanup_mr_tree ==
    LET ms == {m \in tree : mr[m].refs > 1}
    IN  /\ AllFinished
        /\ lock = None
        /\ tree # {}
        /\ tree' = {}
        /\ mr' = PutAll(ms, mr)
        /\ kern' = mr_cleanup(kern, ms, mr)
        /\ UNCHANGED <<load, map, ro, fresh, gen, lock, thr, ev>>

\* mr_init with ummunotify present: nothing is watched yet.
mr_init == [counter |-> 0, told |-> 0, watched |-> {}, hit |-> {}]

Init ==
    /\ load \in Workloads
    /\ map = [p \in 0 .. Pages - 1 |-> 1]
    /\ ro = {}
    /\ fresh = 2
    /\ kern = mr_init
    /\ gen = 0
    /\ tree = {}
    /\ mr = [m \in Mrs |-> FreeMr]
    /\ lock = None
    /\ thr = [t \in Threads |-> Idle]
    /\ ev = None

mr_lookup(t) == \/ Start(t) \/ WaitGeneration(t) \/ Search(t)
                \/ umn_register(t) \/ mr_alloc_fails(t)
                \/ ibv_reg_mr(t) \/ ibv_reg_mr_fails(t) \/ RegisterAgain(t)

process_ummunotify == ReadInvalid \/ Invalidate \/ ReadLast

Thread(t) == Map(t) \/ Unmap(t) \/ mr_put(t) \/ mr_lookup(t)

Next == (\E t \in Threads : Thread(t)) \/ process_ummunotify
        \/ cleanup_mr_tree

-----------------------------------------------------------------------------
(* Properties.                                                             *)

\* A region that has been handed to a user holds the whole range asked for and
\* is registered with the pages that are mapped there now, although pages have
\* been unmapped and mapped again, by any thread, since they were registered;
\* and it says so when the range cannot be written (the waits of mr_lookup and
\* the order of mr_create and process_ummunotify).
RegionCurrent ==
    \A t \in Threads : \A i \in DOMAIN thr[t].held :
        LET h == thr[t].held[i]
        IN  \A p \in PagesOf(h.op.start, h.op.start + h.op.length) :
                /\ p \in DOMAIN mr[h.mr].pinned /\ mr[h.mr].pinned[p] = map[p]
                /\ p \in ro => mr[h.mr].readonly

Holders(m) == Cardinality({<<t, i>> \in Threads \X Mrs :
                            i \in DOMAIN thr[t].held /\ thr[t].held[i].mr = m})

\* While the interface is up every region has one reference for each user, one
\* for the tree and one while it is made, so that it is unregistered exactly
\* when the last of them is gone; and the regions of the tree never overlap,
\* so the walk down the tree finds the only candidate (mr_lookup, mr_put,
\* process_ummunotify).
CacheExact ==
    ~(AllFinished /\ tree = {}) =>
    /\ \A m \in Mrs :
        mr[m].refs = Holders(m) + (IF m \in tree THEN 1 ELSE 0)
                     + Cardinality({t \in Threads : thr[t].pc = "register"
                                                    /\ thr[t].new = m})
    /\ \A m, n \in tree : m = n \/ End(m) <= mr[n].addr \/ End(n) <= mr[m].addr

Fairness == /\ \A t \in Threads : WF_vars(Thread(t))
            /\ WF_vars(process_ummunotify)

\* Every lookup returns ("we wait for all the notification messages to be
\* consummed by process_ummunotify() then try again", mr_lookup).
LookupsReturn == <>AllFinished

=============================================================================
