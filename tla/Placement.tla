------------------------------ MODULE Placement ------------------------------
(***************************************************************************)
(* Where the launcher puts the processes of a group, and which rank each   *)
(* of them gets.  HYDU_create_proxy_list makes the list of proxies in one  *)
(* pass over the nodes and deals the processes out in a second one; the    *)
(* server sends each proxy its place in the list (core and filler maps),   *)
(* from which local_to_global_id computes the ranks, while                 *)
(* pmi_process_mapping tells the processes which node a rank is on.  The   *)
(* three computations are independent and have to agree.                   *)
(*                                                                         *)
(* job gives the cores of each node, the processes of each executable of   *)
(* the first group, and those of a group it spawns.  Nodes count from 1    *)
(* here, so node 1 has node_id 0.                                          *)
(***************************************************************************)
EXTENDS Integers, Sequences, FiniteSets

LOCAL INSTANCE FiniteSetsExt

CONSTANT Jobs

VARIABLES job, group, stage, active, node, pcr, list, exec, rem, at, room

vars == <<job, group, stage, active, node, pcr, list, exec, rem, at, room>>

Nodes == DOMAIN job.cores
Execs == job.execs[group]
SumTo(s, n) == FoldSet(LAMBDA i, t : s[i] + t, 0, 1..n)
ProcessCount == SumTo(Execs, Len(Execs))

HYDU_dceil(x, y) == (x + y - 1) \div y

(* The processes per core of the fullest node. *)
Ratio == Max({HYDU_dceil(active[i], job.cores[i]) : i \in Nodes})

Capacity(i, r) == job.cores[i] * r - active[i]
Fillers == [i \in 1..Len(list) |-> list[i].filler]

(* First pass: one node, and the next round of nodes with one more process *)
(* per core.                                                               *)
AddProxy ==
    LET wrap == node > Len(job.cores)
        n == IF wrap THEN 1 ELSE node
        r == IF wrap THEN pcr + 1 ELSE pcr
        c == Capacity(n, r)
        longer == Append(list, [node |-> n, filler |-> c, procs |-> 0])
        filled == SumTo(Fillers, Len(list)) + c
        stop == c # 0 /\ (filled >= ProcessCount \/ Len(longer) = Len(job.cores))
    IN  /\ stage = "proxies"
        /\ node' = n + 1
        /\ list' = IF c = 0 THEN list ELSE longer
        /\ stage' = IF stop THEN "execs" ELSE stage
        /\ pcr' = IF ~stop THEN r ELSE IF Ratio = 0 THEN 1 ELSE Ratio
        /\ room' = IF stop THEN Capacity(list'[1].node, pcr') ELSE 0
        /\ UNCHANGED <<job, group, active, exec, rem, at>>

add_exec_to_proxy(k, num) == [list EXCEPT ![k].procs = @ + num]

(* Special case: the only proxy takes every process. *)
OneProxy ==
    /\ stage = "execs" /\ Len(list) = 1
    /\ list' = add_exec_to_proxy(1, ProcessCount)
    /\ stage' = "placed"
    /\ UNCHANGED <<job, group, active, node, pcr, exec, rem, at, room>>

(* Second pass: as many processes of the current executable as the current *)
(* proxy has room for.                                                     *)
AddExec ==
    LET num == IF rem > room THEN room ELSE rem
        last == rem = num /\ exec = Len(Execs)
        full == room = num /\ ~last
        next == IF at = Len(list) THEN 1 ELSE at + 1
        placed == add_exec_to_proxy(at, num)
    IN  /\ stage = "execs" /\ Len(list) > 1
        /\ list' = placed
        /\ exec' = IF rem = num /\ ~last THEN exec + 1 ELSE exec
        /\ rem' = IF rem = num /\ ~last THEN Execs[exec + 1] ELSE rem - num
        /\ at' = IF full THEN next ELSE at
        /\ pcr' = IF full /\ list[next].node = 1 THEN pcr + 1 ELSE pcr
        /\ room' = IF full THEN Capacity(list[next].node, pcr') - placed[next].procs
                   ELSE room - num
        /\ stage' = IF last THEN "placed" ELSE stage
        /\ UNCHANGED <<job, group, active, node>>

(* HYD_pmci_launch_procs counts the processes of the first group on their  *)
(* nodes; then a process of it spawns the second one.                      *)
Spawn ==
    /\ stage = "placed" /\ group = 1 /\ Len(job.execs) = 2
    /\ active' = [i \in Nodes |->
                    SumTo([k \in 1..Len(list) |-> IF list[k].node = i
                                                  THEN list[k].procs ELSE 0],
                          Len(list))]
    /\ group' = 2 /\ stage' = "proxies"
    /\ node' = 1 /\ pcr' = Max({HYDU_dceil(active'[i], job.cores[i]) : i \in Nodes})
    /\ list' = <<>> /\ at' = 1 /\ room' = 0
    /\ exec' = 1 /\ rem' = job.execs[2][1]
    /\ UNCHANGED job

-----------------------------------------------------------------------------
(* The maps of HYD_pmcd_pmi_fill_in_exec_launch_info: what lies left of a  *)
(* proxy in the list, what it has itself, and the total.                   *)
Map(s, k) == [left |-> SumTo(s, k - 1), current |-> s[k], total |-> SumTo(s, Len(s))]
global_core_map(k) == Map([i \in 1..Len(list) |-> job.cores[list[i].node]], k)
filler_process_map(k) == Map(Fillers, k)

(* Changed: the fillers of the other proxies are forgotten in the layers. *)
local_to_global_id_NoFill(k, id) ==
    LET f == filler_process_map(k)
        c == global_core_map(k)
        over == id - f.current
    IN  IF id < f.current THEN f.left + id
        ELSE f.current + (over \div c.current) * c.total + c.left + (over % c.current)

(* The rank of process id (from 0) of proxy k: first the fillers of every  *)
(* proxy, then layers of one process per core.                             *)
local_to_global_id(k, id) ==
    LET f == filler_process_map(k)
        c == global_core_map(k)
        over == id - f.current
    IN  IF id < f.current THEN f.left + id
        ELSE f.total + (over \div c.current) * c.total + c.left + (over % c.current)

(* pmi_process_mapping for the first group: neighbouring nodes with as     *)
(* many cores share a block.                                               *)
Blocks ==
    LET head(i) == i = 1 \/ job.cores[i] # job.cores[i - 1]
        width(i) == Cardinality({j \in Nodes : j >= i /\
                      \A k \in (i + 1)..j : job.cores[k] = job.cores[i]})
    IN  {[start |-> i, nodes |-> width(i), cores |-> job.cores[i]] :
           i \in {i \in Nodes : head(i)}}

(* How a process reads the mapping: the blocks in order, over and over,    *)
(* each node of a block standing for so many consecutive ranks.            *)
BlockSize(b) == b.nodes * b.cores
NodeOf(r) ==
    LET size == FoldSet(LAMBDA b, t : BlockSize(b) + t, 0, Blocks)
        i == r % size
        before(b) == FoldSet(LAMBDA a, t : BlockSize(a) + t, 0,
                             {a \in Blocks : a.start < b.start})
        blk == CHOOSE b \in Blocks :
                 before(b) <= i /\ i < before(b) + BlockSize(b)
    IN  blk.start + (i - before(blk)) \div blk.cores

-----------------------------------------------------------------------------
Init ==
    /\ job \in Jobs
    /\ group = 1 /\ stage = "proxies"
    /\ active = [i \in Nodes |-> 0]
    /\ node = 1 /\ pcr = 0
    /\ list = <<>>
    /\ exec = 1 /\ rem = job.execs[1][1]
    /\ at = 1 /\ room = 0

AllPlaced == stage = "placed" /\ group = Len(job.execs)

Next == AddProxy \/ OneProxy \/ AddExec \/ Spawn

Spec == Init /\ [][Next]_vars /\ WF_vars(Next)

-----------------------------------------------------------------------------
(* Every rank from 0 to the size of the group is given to exactly one      *)
(* process: local_to_global_id of each proxy, computed from its own maps,  *)
(* fits the way HYDU_create_proxy_list dealt the processes out.            *)
Placed == {<<k, id>> \in (1..Len(list)) \X (0..ProcessCount - 1) :
             id < list[k].procs}
RanksExact ==
    stage = "placed" =>
      /\ {local_to_global_id(t[1], t[2]) : t \in Placed} = 0..ProcessCount - 1
      /\ Cardinality(Placed) = ProcessCount
      /\ \A k \in 1..Len(list) : list[k].procs > 0

(* The mapping that the processes of the first group are given names for   *)
(* every rank the node whose proxy runs it.                                *)
MappingExact ==
    stage = "placed" /\ group = 1 =>
      \A t \in Placed : NodeOf(local_to_global_id(t[1], t[2])) = list[t[1]].node
=============================================================================
