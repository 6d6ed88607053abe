------------------------------ MODULE ObjPool ------------------------------
(***************************************************************************)
(* Object pools, handles and references (ptl_obj.c, ptl_ref.h) on the lock *)
(* free list of ptl_lockfree.h.                                            *)
(*                                                                         *)
(* Objects are numbered by their index.  A pool grows by slabs until the   *)
(* indexes run out, or is fixed: made of one slab, whose users wait for an *)
(* object.  The head of the list and its counter are compared and swapped  *)
(* together but loaded one after the other, in either order.               *)
(*                                                                         *)
(* A pool ends with pool_fini, called when nobody takes objects any more,  *)
(* while some may still be given back.                                     *)
(***************************************************************************)
EXTENDS Integers, Sequences, FiniteSets

CONSTANTS Threads, MAX_INDEX, obj_per_slab, Workloads

VARIABLES load,        \* the kind of pool, what may fail, the threads' scripts
          free_list,   \* head, 0 when empty, and counter
          next,        \* obj->next
          obj,         \* obj_free and obj_ref
          next_index,  \* objects made so far
          count,       \* pool->count
          parent,      \* references to the owner of the pool
          mutex,       \* the thread in pool->mutex, 0 when none
          gone,        \* objects that init refused or fini has ended
          freed,       \* whether the slabs have been freed
          thr

vars == <<load, free_list, next, obj, next_index, count, parent, mutex, gone,
          freed, thr>>

Objs == 1 .. MAX_INDEX
Fixed == load.fixed

\* mode is what the list operation is for: a thread takes an object, gives one
\* back, adds one of a new slab, or empties the list.
Idle == [pc |-> "next", at |-> 1, mode |-> "take", seen |-> {}, head |-> 0,
         counter |-> 0, link |-> 0, obj |-> 0, left |-> 0, held |-> <<>>]

Op(t) == load.script[t][thr[t].at]
Doing(t, what) == /\ thr[t].pc = "next"
                  /\ thr[t].at <= Len(load.script[t])
                  /\ Op(t) = what

At(t, pc) == thr[t].pc = pc
Goto(t, pc) == thr' = [thr EXCEPT ![t].pc = pc]
Done(t) == [thr[t] EXCEPT !.pc = "next", !.at = @ + 1]
Listing(t, mode, x) == [thr[t] EXCEPT !.pc = "load", !.mode = mode, !.seen = {},
                                      !.obj = x]

-----------------------------------------------------------------------------
(* ll_dequeue_obj and ll_enqueue_obj.                                      *)

LoadHalf(t, half) ==
    LET l == [thr[t] EXCEPT !.seen = @ \cup {half},
                            !.head = IF half = "head" THEN free_list.head ELSE @,
                            !.counter = IF half = "counter" THEN free_list.counter
                                        ELSE @]
    IN  /\ At(t, "load")
        /\ half \notin thr[t].seen
        /\ thr' = [thr EXCEPT ![t] =
                    IF l.seen = {"head", "counter"} THEN [l EXCEPT !.pc = "link"]
                    ELSE l]
        /\ UNCHANGED <<load, free_list, next, obj, next_index, count, parent, mutex, gone, freed>>

\* The successor of the head is read, or becomes the one of the new head.
Link(t) ==
    /\ At(t, "link")
    /\ IF thr[t].mode \in {"take", "drain"}
       THEN /\ thr' = [thr EXCEPT ![t].pc = "swap",
                            ![t].link = IF thr[t].head = 0 THEN 0
                                        ELSE next[thr[t].head]]
            /\ UNCHANGED next
       ELSE /\ next' = [next EXCEPT ![thr[t].obj] = thr[t].head]
            /\ Goto(t, "swap")
    /\ UNCHANGED <<load, free_list, obj, next_index, count, parent, mutex, gone, freed>>

\* Changed: the counter stays as it is.
Swap_NoCount(t) ==
    LET l == thr[t]
        new == IF l.mode \in {"take", "drain"} THEN l.link ELSE l.obj
    IN  /\ At(t, "swap")
        /\ IF free_list = [head |-> l.head, counter |-> l.counter]
           THEN /\ free_list' = [head |-> new,
                                 counter |-> l.counter]
                /\ Goto(t, l.mode)
           ELSE /\ thr' = [thr EXCEPT ![t].pc = "link", ![t].head = free_list.head,
                                      ![t].counter = free_list.counter]
                /\ UNCHANGED free_list
        /\ UNCHANGED <<load, next, obj, next_index, count, parent, mutex, gone, freed>>

Swap(t) ==
    LET l == thr[t]
        new == IF l.mode \in {"take", "drain"} THEN l.link ELSE l.obj
    IN  /\ At(t, "swap")
        /\ IF free_list = [head |-> l.head, counter |-> l.counter]
           THEN /\ free_list' = [head |-> new, counter |-> l.counter + 1]
                /\ Goto(t, l.mode)
           ELSE /\ thr' = [thr EXCEPT ![t].pc = "link", ![t].head = free_list.head,
                                      ![t].counter = free_list.counter]
                /\ UNCHANGED free_list
        /\ UNCHANGED <<load, next, obj, next_index, count, parent, mutex, gone, freed>>

-----------------------------------------------------------------------------
(* obj_alloc.                                                              *)

StartAlloc(t) ==
    /\ Doing(t, "alloc")
    /\ count' = count + 1
    /\ thr' = [thr EXCEPT ![t] = Listing(t, "take", 0)]
    /\ UNCHANGED <<load, free_list, next, obj, next_index, parent, mutex, gone, freed>>

\* An empty list: a fixed pool is tried again, another one grows.
Empty(t) ==
    /\ At(t, "take")
    /\ thr[t].head = 0
    /\ IF Fixed
       THEN /\ free_list.head # 0
            /\ thr' = [thr EXCEPT ![t] = Listing(t, "take", 0)]
            /\ UNCHANGED mutex
       ELSE /\ mutex = 0
            /\ mutex' = t
            /\ thr' = [thr EXCEPT ![t].pc = "slab", ![t].left = obj_per_slab]
    /\ UNCHANGED <<load, free_list, next, obj, next_index, count, parent, gone, freed>>

\* Changed: the mutex is kept when no index is left.
pool_alloc_slab_Locked(t) ==
    /\ At(t, "slab")
    /\ IF thr[t].left = 0
       THEN /\ mutex' = 0
            /\ thr' = [thr EXCEPT ![t] = Listing(t, "take", 0)]
            /\ UNCHANGED <<obj, next_index, count>>
       ELSE IF next_index = MAX_INDEX
       THEN /\ count' = count - 1
            /\ thr' = [thr EXCEPT ![t] = Done(t)]
            /\ UNCHANGED <<obj, next_index, mutex>>
       ELSE /\ next_index' = next_index + 1
            /\ obj' = [obj EXCEPT ![next_index + 1] = [free |-> TRUE, ref |-> 0]]
            /\ thr' = [thr EXCEPT ![t] = [Listing(t, "slab", next_index + 1)
                                            EXCEPT !.left = @ - 1]]
            /\ UNCHANGED <<count, mutex>>
    /\ UNCHANGED <<load, free_list, next, parent, gone, freed>>

\* One object of a slab after the other is made and added to the list; when no
\* index is left the call fails, with the objects made so far in the list.
pool_alloc_slab(t) ==
    /\ At(t, "slab")
    /\ IF thr[t].left = 0
       THEN /\ mutex' = 0
            /\ thr' = [thr EXCEPT ![t] = Listing(t, "take", 0)]
            /\ UNCHANGED <<obj, next_index, count>>
       ELSE IF next_index = MAX_INDEX
       THEN /\ mutex' = 0
            /\ count' = count - 1
            /\ thr' = [thr EXCEPT ![t] = Done(t)]
            /\ UNCHANGED <<obj, next_index>>
       ELSE /\ next_index' = next_index + 1
            /\ obj' = [obj EXCEPT ![next_index + 1] = [free |-> TRUE, ref |-> 0]]
            /\ thr' = [thr EXCEPT ![t] = [Listing(t, "slab", next_index + 1)
                                            EXCEPT !.left = @ - 1]]
            /\ UNCHANGED <<count, mutex>>
    /\ UNCHANGED <<load, free_list, next, parent, gone, freed>>

\* What obj_alloc does when pool_alloc_slab returns an error.
NoSlab(t) ==
    /\ mutex' = 0
    /\ count' = count - 1
    /\ thr' = [thr EXCEPT ![t] = Done(t)]

\* There is no memory for a chunk or a slab, or it cannot be registered, and
\* nothing has been made; or pool->init refuses an object that has its index
\* already, after those before it in the slab have been added to the list.
pool_alloc_slab_fails(t) ==
    /\ At(t, "slab")
    /\ \/ /\ "slab" \in load.fails
          /\ thr[t].left = obj_per_slab
          /\ UNCHANGED <<next_index, gone>>
       \/ /\ "init" \in load.fails
          /\ thr[t].left > 0
          /\ next_index < MAX_INDEX
          /\ next_index' = next_index + 1
          /\ gone' = gone \cup {next_index + 1}
    /\ NoSlab(t)
    /\ UNCHANGED <<load, free_list, next, obj, parent, freed>>

Take(t) ==
    LET x == thr[t].head
    IN  /\ At(t, "take")
        /\ x # 0
        /\ obj' = [obj EXCEPT ![x] = [free |-> FALSE, ref |-> 1]]
        /\ parent' = parent + 1
        /\ thr' = [thr EXCEPT ![t] = [Done(t) EXCEPT !.held = Append(@, x)]]
        /\ UNCHANGED <<load, free_list, next, next_index, count, mutex, gone, freed>>

\* pool->setup fails: obj_release gives the object back as it is, with its one
\* reference, and the call ends there.
Take_fails(t) ==
    LET x == thr[t].head
    IN  /\ At(t, "take")
        /\ x # 0
        /\ "setup" \in load.fails
        /\ obj' = [obj EXCEPT ![x] = [free |-> TRUE, ref |-> 1]]
        /\ thr' = [thr EXCEPT ![t] = Listing(t, "give", x)]
        /\ UNCHANGED <<load, free_list, next, next_index, count, parent, mutex, gone,
                       freed>>

-----------------------------------------------------------------------------
(* Handles and references, on the object the thread has had for longest.   *)

ref_get(x) == [obj EXCEPT ![x].ref = @ + 1]
ref_put(x) == [obj EXCEPT ![x].ref = @ - 1]

to_obj(t) ==
    /\ Doing(t, "look")
    /\ LET x == Head(thr[t].held)
       IN  IF thr[t].held # <<>> /\ ~obj[x].free
           THEN /\ obj' = ref_get(x)
                /\ thr' = [thr EXCEPT ![t] = [Done(t) EXCEPT !.held = Append(@, x)]]
           ELSE thr' = [thr EXCEPT ![t] = Done(t)] /\ UNCHANGED obj
    /\ UNCHANGED <<load, free_list, next, next_index, count, parent, mutex, gone, freed>>

\* obj_put; the last reference goes through obj_release, which drops the
\* owner's reference before the object is back in the list.
obj_put(t) ==
    /\ Doing(t, "put")
    /\ LET x == Head(thr[t].held)
       IN  IF thr[t].held = <<>>
           THEN thr' = [thr EXCEPT ![t] = Done(t)] /\ UNCHANGED <<obj, parent>>
           ELSE IF obj[x].ref > 1
           THEN /\ obj' = ref_put(x)
                /\ thr' = [thr EXCEPT ![t] = [Done(t) EXCEPT !.held = Tail(@)]]
                /\ UNCHANGED parent
           ELSE /\ obj' = [ref_put(x) EXCEPT ![x].free = TRUE]
                /\ parent' = parent - 1
                /\ thr' = [thr EXCEPT ![t] = [Listing(t, "give", x)
                                                EXCEPT !.held = Tail(@)]]
    /\ UNCHANGED <<load, free_list, next, next_index, count, mutex, gone, freed>>

EndRelease(t) ==
    /\ At(t, "give")
    /\ count' = count - 1
    /\ thr' = [thr EXCEPT ![t] = Done(t)]
    /\ UNCHANGED <<load, free_list, next, obj, next_index, parent, mutex, gone, freed>>

-----------------------------------------------------------------------------
(* pool_fini.                                                              *)

\* Nobody is taking an object, or will; objects may still be given back.
NoMoreAllocs == \A t \in Threads : \A i \in thr[t].at .. Len(load.script[t]) :
                    load.script[t][i] # "alloc"

StartFini(t) ==
    /\ Doing(t, "fini")
    /\ NoMoreAllocs
    /\ IF load.fini THEN thr' = [thr EXCEPT ![t] = Listing(t, "drain", 0)]
       ELSE Goto(t, "count")
    /\ UNCHANGED <<load, free_list, next, obj, next_index, count, parent, mutex, gone,
                   freed>>

\* pool->fini for one object of the list after the other, until it is empty.
Drain(t) ==
    LET x == thr[t].head
    IN  /\ At(t, "drain")
        /\ gone' = gone \cup ({x} \ {0})
        /\ thr' = [thr EXCEPT ![t] = IF x = 0 THEN [@ EXCEPT !.pc = "count"]
                                     ELSE Listing(t, "drain", 0)]
        /\ UNCHANGED <<load, free_list, next, obj, next_index, count, parent, mutex,
                       freed>>

\* The pool is kept when an object is still out of it.
FreeSlabs(t) ==
    /\ At(t, "count")
    /\ freed' = (count = 0)
    /\ thr' = [thr EXCEPT ![t] = Done(t)]
    /\ UNCHANGED <<load, free_list, next, obj, next_index, count, parent, mutex, gone>>

pool_fini(t) == StartFini(t) \/ Drain(t) \/ FreeSlabs(t)

obj_alloc(t) == \/ StartAlloc(t) \/ Empty(t) \/ Take(t) \/ Take_fails(t)
                \/ pool_alloc_slab(t) \/ pool_alloc_slab_fails(t)
obj_release(t) == obj_put(t) \/ EndRelease(t)

Thread(t) == \/ LoadHalf(t, "head") \/ LoadHalf(t, "counter") \/ Link(t) \/ Swap(t)
             \/ obj_alloc(t) \/ to_obj(t) \/ obj_release(t) \/ pool_fini(t)

\* pool_init: a fixed pool has its slab from the start.
Init ==
    /\ load \in Workloads
    /\ next_index = IF load.fixed THEN obj_per_slab ELSE 0
    /\ free_list = [head |-> next_index, counter |-> next_index]
    /\ next = [x \in Objs |-> x - 1]
    /\ obj = [x \in Objs |-> [free |-> TRUE, ref |-> 0]]
    /\ count = 0
    /\ parent = 1
    /\ mutex = 0
    /\ gone = {}
    /\ freed = FALSE
    /\ thr = [t \in Threads |-> Idle]

Next == \E t \in Threads : Thread(t)

Fairness == \A t \in Threads : WF_vars(Thread(t))

-----------------------------------------------------------------------------
(* Properties.                                                             *)

RECURSIVE Chain(_, _)
Chain(x, n) == IF x = 0 \/ n = 0 THEN <<>> ELSE <<x>> \o Chain(next[x], n - 1)

\* The objects of a thread, and the one it has taken off the list or not put
\* on it yet.
Held(t) == {thr[t].held[i] : i \in DOMAIN thr[t].held}
InHand(t) ==
    LET l == thr[t]
    IN  IF l.pc \in {"take", "drain"} THEN {l.head} \ {0}
        ELSE IF l.pc \in {"load", "link", "swap"} /\ l.mode \in {"give", "slab"}
        THEN {l.obj}
        ELSE {}

\* Every object is in exactly one place: in the list once, with one thread, on
\* its way between the two, or ended; no other order of the loads and the swaps of
\* several threads hands an object out twice or loses one (the counter of
\* ll_dequeue_obj_alien and ll_enqueue_obj_alien).
EachObjectOnce ==
    LET list == Chain(free_list.head, MAX_INDEX + 1)
        listed == {list[i] : i \in DOMAIN list}
        out == UNION {Held(t) \cup InHand(t) : t \in Threads}
    IN  /\ Cardinality(listed) = Len(list)
        /\ listed \cap out = {}
        /\ (listed \cup out) \cap gone = {}
        /\ listed \cup out \cup gone = 1 .. next_index
        /\ \A t, u \in Threads : t # u => (Held(t) \cup InHand(t))
                                          \cap (Held(u) \cup InHand(u)) = {}

\* pool->count, which pool_fini trusts before it frees the slabs, covers every
\* object out of the list and every call that may still take one; the owner of
\* the pool is referred to once for every object in use; and every reference of
\* an object is somebody's.
CountsExact ==
    LET used == UNION {Held(t) : t \in Threads}
    IN  /\ count = Cardinality(used)
                   + Cardinality({t \in Threads :
                        ~At(t, "next") /\ Op(t) \in {"alloc", "put"}})
        /\ parent = 1 + Cardinality(used)
        /\ \A t \in Threads : \A x \in Held(t) :
            obj[x].ref = Cardinality({i \in DOMAIN thr[t].held : thr[t].held[i] = x})

\* pool_fini frees the slabs only when nobody has an object of them and nobody
\* is about to touch one, although objects may be given back while it runs
\* ("Do not free the pool else we open the library to memory scribble bugs";
\* obj_release counts an object out last).
FreedUnused == freed => \A t \in Threads : At(t, "next") /\ thr[t].held = <<>>

\* Every call returns: a thread that waits for an object of a fixed pool gets
\* one, and no thread is left waiting for the mutex of a growing one.
PoolCallsReturn == <>(\A t \in Threads : At(t, "next") /\ thr[t].at > Len(load.script[t]))

=============================================================================
