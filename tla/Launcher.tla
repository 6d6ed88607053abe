------------------------------ MODULE Launcher ------------------------------
(***************************************************************************)
(* The launcher of a parallel job: mpiexec (the server), one proxy on each  *)
(* node, and the processes that a proxy starts and that talk to it with     *)
(* PMI-1 lines (the simple PMI client).  A proxy answers some requests, and *)
(* forwards the others to the server, which keeps the key-value space, the  *)
(* barrier and the published names.  The server and the proxies are single  *)
(* threads around poll: one action here is one callback.                    *)
(*                                                                         *)
(* Processes are numbered by rank.  load gives the group of each proxy (1   *)
(* is started by mpiexec, 2 by PMI_Spawn_multiple), the proxy of each       *)
(* process, the calls each process makes, whether a failure ends the job    *)
(* (auto_cleanup), and whether SIGUSR1 ends a process (usr1).  A value is a *)
(* sequence of numbers.                                                     *)
(***************************************************************************)
EXTENDS Integers, Sequences, FiniteSets

CONSTANTS Procs, Proxies, Workloads

VARIABLES load,       \* what runs
          proc,       \* a process: st, next call, waiting, wait status
          got,        \* the answers a process had, by call
          up, down,   \* PMI sockets: lines to the proxy, lines to the process
          out,        \* lines in the stdout pipe of a process
          cli,        \* downstream.* of the proxy: pmi_fd, active, out, exit
          prx,        \* a proxy: state, barrier_count, forced_cleanup
          link,       \* how far the control connection of a proxy is
          ctl, clt,   \* control sockets: to the server, to the proxy
          px,         \* struct HYD_proxy of the server: control_fd, status
          grp,        \* struct HYD_pg and its scratch space
          names,      \* HYD_pmcd_pmi_publish_list
          mcmd,       \* mcmd_args: the segments of a spawn read so far
          shown,      \* lines of each process given to stdout_cb
          srv         \* the server: state, group it waits for, fault

procVars == <<proc, got, up, down, out>>
proxyVars == <<cli, prx, link>>
serverVars == <<px, grp, names, mcmd, shown, srv>>
vars == <<load, procVars, proxyVars, ctl, clt, serverVars>>

Groups == {1, 2}
Home(p) == load.home[p]
Group(x) == load.group[x]
Local(x) == {p \in Procs : Home(p) = x}
Members(g) == {x \in Proxies : Group(x) = g}
Size(g) == Cardinality({p \in Procs : Group(Home(p)) = g})
Ops(p) == load.script[p]

(* HYD_SIGNALED: a wait status with WIFEXITED false. *)
Signalled(s) == s \in {1, 9, 10}

Line(c, k, v) == [cmd |-> c, key |-> k, val |-> v, rc |-> 0]
Answer(c, rc, v) == [cmd |-> c, key |-> "none", val |-> v, rc |-> rc]
Msg(t, p, l) == [type |-> t, pid |-> p, line |-> l]
NoLine == Line("none", "none", <<>>)

(* The answer each request of the client library waits for. *)
Expected ==
    [init |-> "response_to_init", get_maxes |-> "maxes",
     get_appnum |-> "appnum", get_my_kvsname |-> "my_kvsname",
     get_universe_size |-> "universe_size", get |-> "get_result",
     put |-> "put_result", barrier_in |-> "barrier_out",
     finalize |-> "finalize_ack", spawn |-> "spawn_result",
     publish_name |-> "publish_result", lookup_name |-> "lookup_result",
     unpublish_name |-> "unpublish_result"]

-----------------------------------------------------------------------------
(* The processes.                                                          *)

Running(p) == proc[p].st = "run"
Current(p) == Ops(p)[proc[p].pc]
Working(p) == Running(p) /\ ~proc[p].wait
NextOp(p) == IF proc[p].pc > Len(Ops(p)) THEN "return" ELSE Current(p).cmd

Exit(p, ret) ==
    /\ proc' = [proc EXCEPT ![p].st = "dead", ![p].ret = ret]
    /\ UNCHANGED <<load, got, up, down, out, proxyVars, ctl, clt, serverVars>>

(* A process ends by itself, before or after PMI_Finalize. *)
Leave(p) ==
    /\ Working(p) /\ NextOp(p) \in {"return", "exit"}
    /\ Exit(p, 0)

(* A process is killed by a signal of its own. *)
Crash(p) ==
    /\ Working(p) /\ NextOp(p) = "crash"
    /\ Exit(p, 9)

Write(p) ==
    /\ Working(p) /\ NextOp(p) = "print"
    /\ out' = [out EXCEPT ![p] = @ + 1]
    /\ proc' = [proc EXCEPT ![p].pc = @ + 1]
    /\ UNCHANGED <<load, got, up, down, proxyVars, ctl, clt, serverVars>>

(* PMI_Spawn_multiple writes one segment per executable. *)
Segments(l) == [i \in 1..Len(l.val) |-> l]

(* A function of the client library writes its request and waits. *)
Call(p) ==
    /\ Working(p) /\ NextOp(p) \in DOMAIN Expected
    /\ up' = [up EXCEPT ![p] = @ \o IF NextOp(p) = "spawn" THEN Segments(Current(p))
                                    ELSE <<Current(p)>>]
    /\ proc' = [proc EXCEPT ![p].wait = TRUE]
    /\ UNCHANGED <<load, got, down, out, proxyVars, ctl, clt, serverVars>>

(* GetResponse: one line is read, its cmd is compared with the expected    *)
(* one, and the call returns.                                              *)
GetResponse(p) ==
    /\ Running(p) /\ proc[p].wait
    /\ down[p] # <<>>
    /\ LET a == Head(down[p])
           ok == a.cmd = Expected[Current(p).cmd]
       IN  got' = [got EXCEPT ![p] =
                     Append(@, [a EXCEPT !.rc = IF ok THEN @ ELSE -1])]
    /\ down' = [down EXCEPT ![p] = Tail(@)]
    /\ proc' = [proc EXCEPT ![p].wait = FALSE, ![p].pc = @ + 1]
    /\ UNCHANGED <<load, up, out, proxyVars, ctl, clt, serverVars>>

-----------------------------------------------------------------------------
(* A proxy.                                                                *)

Serving(x) == prx[x].st \in {"up", "waiting"}

(* HYD_pmcd_pmip_kill_localprocs *)
Killed(x) ==
    [p \in Procs |-> IF Home(p) = x /\ Running(p)
                     THEN [proc[p] EXCEPT !.st = "dead", !.ret = 9]
                     ELSE proc[p]]

(* SIGUSR1 to every local process: it ends one that has not asked for it.  *)
Usr1(x) ==
    [p \in Procs |-> IF Home(p) = x /\ Running(p) /\ load.usr1
                     THEN [proc[p] EXCEPT !.st = "dead", !.ret = 10]
                     ELSE proc[p]]

(* An error reaches main: the proxy kills its processes and exits without  *)
(* sending their status.                                                   *)
Fail(x) ==
    /\ proc' = Killed(x)
    /\ prx' = [prx EXCEPT ![x].st = "failed", ![x].forced = TRUE]
    /\ UNCHANGED <<load, got, up, down, out, cli, link, ctl, clt, serverVars>>

SendUpstream(x, m) == ctl' = [ctl EXCEPT ![x] = Append(@, m)]

(* main connects to the server and writes the proxy id. *)
Connect(x) ==
    /\ prx[x].st = "launched"
    /\ \/ /\ srv.st = "run"
          /\ link' = [link EXCEPT ![x] = "queued"]
          /\ prx' = [prx EXCEPT ![x].st = "up"]
       \/ /\ srv.st # "run"
          /\ prx' = [prx EXCEPT ![x].st = "failed"]
          /\ UNCHANGED link
    /\ UNCHANGED <<load, procVars, cli, ctl, clt, serverVars>>

(* procinfo and launch_procs: every local process is started with its      *)
(* socket pair and pipes, and the list of pids is sent upstream.           *)
LaunchProcs(x) ==
    /\ proc' = [p \in Procs |-> IF Home(p) = x
                                THEN [proc[p] EXCEPT !.st = "run"] ELSE proc[p]]
    /\ cli' = [p \in Procs |->
                 IF Home(p) = x
                 THEN [fd |-> "open", active |-> FALSE, out |-> TRUE,
                       exit |-> -1, reaped |-> FALSE]
                 ELSE cli[p]]
    /\ SendUpstream(x, Msg("PID_LIST", 0, NoLine))
    /\ UNCHANGED <<load, got, up, down, out, prx, link, serverVars>>

(* The proxy writes a line to the socket of a process.  The write fails    *)
(* when the process is gone: SIGPIPE and the assertion end the proxy.      *)
SendDownstream(x, P, a) ==
    IF \E p \in P : ~Running(p)
    THEN proc' = Killed(x) /\ UNCHANGED down
    ELSE down' = [p \in Procs |-> IF p \in P THEN Append(down[p], a) ELSE down[p]]
         /\ UNCHANGED proc

AfterSend(x, P, r) ==
    prx' = [prx EXCEPT ![x] = IF \E p \in P : ~Running(p)
                              THEN [st |-> "failed", count |-> r.count,
                                    forced |-> TRUE]
                              ELSE r]

fn_barrier_out(x, l) ==
    SendDownstream(x, Local(x), l) /\ AfterSend(x, Local(x), prx[x])

(* handle_pmi_response: barrier_out goes to every local process, any other *)
(* answer to the process whose fd the header carries.  Without auto_cleanup *)
(* an answer for a process that is gone is dropped, but SIGPIPE is not: as *)
(* long as the proxy has not closed its end, the handler kills the others. *)
handle_pmi_response(x, m) ==
    /\ IF m.line.cmd = "barrier_out" THEN fn_barrier_out(x, m.line)
       ELSE IF load.auto \/ Running(m.pid)
       THEN SendDownstream(x, {m.pid}, m.line) /\ AfterSend(x, {m.pid}, prx[x])
       ELSE /\ proc' = IF cli[m.pid].fd = "open" THEN Killed(x) ELSE proc
            /\ prx' = IF cli[m.pid].fd = "open"
                      THEN [prx EXCEPT ![x].forced = TRUE] ELSE prx
            /\ UNCHANGED down
    /\ UNCHANGED <<load, got, up, out, cli, link, ctl, serverVars>>

(* HYD_pmcd_pmip_control_cmd_cb *)
control_cmd_cb(x) ==
    /\ Serving(x) /\ link[x] = "ready"
    /\ clt[x] # <<>>
    /\ clt' = [clt EXCEPT ![x] = Tail(@)]
    /\ LET m == Head(clt[x])
       IN  \/ m.type = "PROC_INFO" /\ LaunchProcs(x)
           \/ m.type = "PMI_RESPONSE" /\ handle_pmi_response(x, m)
           \/ m.type = "SIGNAL" /\ proc' = Usr1(x)
              /\ UNCHANGED <<load, got, up, down, out, proxyVars, ctl, serverVars>>

(* The control socket is closed: main fails. *)
ControlClosed(x) ==
    /\ Serving(x) /\ link[x] # "none"
    /\ px[x].fd = "closed" \/ srv.st # "run"
    /\ prx[x].st = "up" \/ \E p \in Local(x) : ~cli[p].reaped
    /\ Fail(x)

(* fn_barrier_in *)
fn_barrier_in(x, p, l) ==
    LET n == prx[x].count + 1
        full == n = Cardinality(Local(x))
    IN  /\ prx' = [prx EXCEPT ![x].count = IF full THEN 0 ELSE n]
        /\ IF full THEN SendUpstream(x, Msg("PMI_CMD", p, l)) ELSE UNCHANGED ctl
        /\ UNCHANGED <<proc, down>>

(* The answers of the proxy itself.  The universe size is the number of    *)
(* cores of the group, here one on each node.                              *)
LocalAnswer(x, l) ==
    Answer(Expected[l.cmd], 0, IF l.cmd = "get_universe_size"
                               THEN <<Cardinality(Members(Group(x)))>> ELSE <<>>)

LocalCommands == {"init", "get_maxes", "get_appnum", "get_my_kvsname",
                  "get_universe_size", "finalize"}
IsLocal(l) ==
    \/ l.cmd \in LocalCommands
    \/ l.cmd = "get" /\ l.key = "PMI_process_mapping"

(* fn_finalize closes the socket after its answer. *)
fn_finalize(p, l) == IF l.cmd = "finalize" /\ Running(p) THEN "closed" ELSE cli[p].fd

(* The first complete line among what was read. *)
check_pmi_cmd(p) == Head(up[p])

(* pmi_cb with a line from a process: the handler of the proxy's table, or *)
(* the line is forwarded.                                                  *)
pmi_cb(p) ==
    LET x == Home(p)
        l == check_pmi_cmd(p)
    IN  /\ Serving(x) /\ cli[p].fd = "open"
        /\ up[p] # <<>>
        /\ up' = [up EXCEPT ![p] = Tail(@)]
        /\ cli' = [cli EXCEPT ![p].active = TRUE, ![p].fd = fn_finalize(p, l)]
        /\ \/ IsLocal(l) /\ UNCHANGED ctl
              /\ SendDownstream(x, {p}, LocalAnswer(x, l))
              /\ AfterSend(x, {p}, prx[x])
           \/ l.cmd = "barrier_in" /\ fn_barrier_in(x, p, l)
           \/ /\ ~IsLocal(l) /\ l.cmd # "barrier_in"
              /\ SendUpstream(x, Msg("PMI_CMD", p, l))
              /\ UNCHANGED <<proc, down, prx>>
        /\ UNCHANGED <<load, got, out, link, clt, serverVars>>

(* pmi_cb when the socket is closed without finalize: a temporary status,  *)
(* also over one that main has waited for already; then the other          *)
(* processes are killed, or told with SIGUSR1.                             *)
pmi_closed(p) ==
    LET x == Home(p)
    IN  /\ Serving(x) /\ cli[p].fd = "open" /\ cli[p].active
        /\ up[p] = <<>> /\ proc[p].st = "dead"
        /\ cli' = [cli EXCEPT ![p].fd = "lost",
                              ![p].exit = IF prx[x].forced THEN @ ELSE 1]
        /\ IF load.auto
           THEN /\ proc' = Killed(x)
                /\ prx' = [prx EXCEPT ![x].forced = TRUE]
                /\ UNCHANGED ctl
           ELSE /\ SendUpstream(x, Msg("PROCESS_TERMINATED", p, NoLine))
                /\ proc' = Usr1(x)
                /\ UNCHANGED prx
        /\ UNCHANGED <<load, got, up, down, out, link, clt, serverVars>>


(* stdio_cb, and the check of main after it: with no pipe open the proxy   *)
(* waits for its processes.                                                *)
stdio_cb(p) ==
    LET x == Home(p)
    IN  /\ Serving(x) /\ cli[p].out
        /\ \/ /\ out[p] > 0
              /\ out' = [out EXCEPT ![p] = @ - 1]
              /\ SendUpstream(x, Msg("STDOUT", p, NoLine))
              /\ UNCHANGED <<cli, prx>>
           \/ /\ out[p] = 0 /\ proc[p].st = "dead"
              /\ cli' = [cli EXCEPT ![p].out = FALSE]
              /\ prx' = [prx EXCEPT ![x].st =
                           IF \A q \in Local(x) \ {p} : ~cli[q].out
                           THEN "waiting" ELSE @]
              /\ UNCHANGED <<out, ctl>>
        /\ UNCHANGED <<load, proc, got, up, down, link, clt, serverVars>>

(* The status that main keeps for a process it has waited for. *)
KeptStatus(p) ==
    IF prx[Home(p)].forced /\ cli[p].exit = -1 THEN 0 ELSE proc[p].ret

(* waitpid in main; after the last process the statuses are sent and the   *)
(* proxy ends.                                                             *)
Reap(p) ==
    LET x == Home(p)
    IN  /\ prx[x].st = "waiting"
        /\ proc[p].st = "dead" /\ ~cli[p].reaped
        /\ cli' = [cli EXCEPT ![p].reaped = TRUE, ![p].exit = KeptStatus(p)]
        /\ IF \A q \in Local(x) \ {p} : cli[q].reaped
           THEN /\ SendUpstream(x, Msg("EXIT_STATUS", 0, NoLine))
                /\ prx' = [prx EXCEPT ![x].st = "done"]
           ELSE UNCHANGED <<ctl, prx>>
        /\ UNCHANGED <<load, procVars, link, clt, serverVars>>

-----------------------------------------------------------------------------
(* The server.                                                             *)

Serve == srv.st = "run"

(* HYD_pmcd_pmiserv_control_listen_cb *)
control_listen_cb(x) ==
    /\ Serve /\ link[x] = "queued"
    /\ grp[Group(x)].listen # "closed"
    /\ link' = [link EXCEPT ![x] = "accepted"]
    /\ grp' = [grp EXCEPT ![Group(x)].listen = "open"]
    /\ UNCHANGED <<load, procVars, cli, prx, ctl, clt, px, names, mcmd, shown, srv>>

(* HYD_pmcd_pmiserv_proxy_init_cb and send_exec_info *)
proxy_init_cb(x) ==
    /\ Serve /\ link[x] = "accepted"
    /\ link' = [link EXCEPT ![x] = "ready"]
    /\ px' = [px EXCEPT ![x].fd = "open"]
    /\ clt' = [clt EXCEPT ![x] = Append(@, Msg("PROC_INFO", 0, NoLine))]
    /\ UNCHANGED <<load, procVars, cli, prx, ctl, grp, names, mcmd, shown, srv>>

(* cleanup_proxy for the proxies of X.  One whose socket is not open is    *)
(* passed over; the last one of a group closes the port of the group and   *)
(* gives back what its processes had of the nodes (active_processes).      *)
ToClean(X) == {x \in X : px[x].fd = "open"}
AllClosed(g, X) ==
    \A x \in Members(g) : x \in ToClean(X) \/ px[x].fd = "closed"
CleanedGroups(X) ==
    {g \in Groups : AllClosed(g, X) /\ \E x \in ToClean(X) : Group(x) = g}

cleanup_proxy(X, status, st) ==
    /\ px' = [x \in Proxies |->
                [fd |-> IF x \in ToClean(X) THEN "closed" ELSE px[x].fd,
                 status |-> px[x].status \/ x \in status]]
    /\ grp' = [g \in Groups |-> IF g \in CleanedGroups(X)
                                THEN [grp[g] EXCEPT !.listen = "closed",
                                                    !.active = @ - Size(g)]
                                ELSE grp[g]]
    /\ srv' = [srv EXCEPT !.st = st, !.fault =
                 @ \/ \E g \in CleanedGroups(X) : grp[g].scratch # "live"]

(* Changed: only the proxy that reported is cleaned up. *)
ExitStatus_Only(x) ==
    /\ cleanup_proxy({x}, {x}, "run")
    /\ UNCHANGED <<clt, names, mcmd, shown, prx>>

(* control_cb, EXIT_STATUS: a process that did not exit makes the server   *)
(* clean up every group.                                                   *)
ExitStatus(x) ==
    /\ cleanup_proxy(IF load.auto /\ \E p \in Local(x) : Signalled(cli[p].exit)
                     THEN Proxies ELSE {x}, {x}, "run")
    /\ UNCHANGED <<clt, names, mcmd, shown, prx>>

Reply(x, p, a) ==
    clt' = [clt EXCEPT ![x] = Append(@, Msg("PMI_RESPONSE", p, a))]

(* HYD_pmcd_pmi_add_kvs: the search for a duplicate stops before the last  *)
(* pair, and a duplicate is linked behind the pair it repeats.             *)
Duplicates(kvs, k) == {i \in 1..Len(kvs) - 1 : kvs[i].key = k}
(* Changed: the new pair takes the place of the last one. *)
add_kvs_Replace(kvs, k, v) ==
    Append(SubSeq(kvs, 1, Len(kvs) - 1), [key |-> k, val |-> v])
add_kvs(kvs, k, v) ==
    LET pair == [key |-> k, val |-> v]
        dup == Duplicates(kvs, k)
        first == CHOOSE i \in dup : \A j \in dup : i <= j
    IN  IF dup = {} THEN Append(kvs, pair)
        ELSE Append(SubSeq(kvs, 1, first), pair)

Matching(kvs, k) == {i \in 1..Len(kvs) : kvs[i].key = k}
Value(kvs, k) ==
    LET S == Matching(kvs, k)
    IN  kvs[CHOOSE i \in S : \A j \in S : i <= j].val

(* Changed: the barrier is complete one proxy too early. *)
fn_barrier_in_server_Early(x) ==
    LET g == Group(x)
        n == grp[g].barrier + 1
        full == n + 1 >= Cardinality(Members(g))
    IN  /\ grp' = [grp EXCEPT ![g].barrier = IF full THEN 0 ELSE n]
        /\ clt' = [y \in Proxies |->
                     IF full /\ Group(y) = g
                     THEN Append(clt[y], Msg("PMI_RESPONSE", 0,
                                             Answer("barrier_out", 0, <<>>)))
                     ELSE clt[y]]
        /\ UNCHANGED <<names, mcmd, prx, srv>>

(* fn_barrier_in of the server: the last proxy of the group releases all;  *)
(* the write to one that is cleaned up already fails.                      *)
fn_barrier_in_server(x) ==
    LET g == Group(x)
        n == grp[g].barrier + 1
        full == n = Cardinality(Members(g))
    IN  /\ grp' = [grp EXCEPT ![g].barrier = IF full THEN 0 ELSE n]
        /\ clt' = [y \in Proxies |->
                     IF full /\ Group(y) = g
                     THEN Append(clt[y], Msg("PMI_RESPONSE", 0,
                                             Answer("barrier_out", 0, <<>>)))
                     ELSE clt[y]]
        /\ srv' = [srv EXCEPT !.st = IF full /\ \E y \in Members(g) : px[y].fd # "open"
                                     THEN "failed" ELSE @]
        /\ UNCHANGED <<names, mcmd, prx>>

fn_put(x, p, l) ==
    LET g == Group(x)
    IN  /\ grp' = [grp EXCEPT ![g].kvs = add_kvs(@, l.key, l.val)]
        /\ Reply(x, p, Answer("put_result",
                              IF Duplicates(grp[g].kvs, l.key) = {} THEN 0 ELSE -1,
                              <<>>))
        /\ UNCHANGED <<names, mcmd, prx>>

(* The value of PMI_dead_processes is the list of segments. *)
DeadValue(g) ==
    [i \in 1..2 * Len(grp[g].dead) |->
       IF i % 2 = 1 THEN grp[g].dead[(i + 1) \div 2].start
       ELSE grp[g].dead[i \div 2].end]

fn_get(x, p, l) ==
    LET g == Group(x)
    IN  /\ Reply(x, p,
                 IF l.key = "PMI_dead_processes"
                 THEN Answer("get_result", 0, DeadValue(g))
                 ELSE IF Matching(grp[g].kvs, l.key) = {}
                 THEN Answer("get_result", -1, <<>>)
                 ELSE Answer("get_result", 0, Value(grp[g].kvs, l.key)))
        /\ UNCHANGED <<grp, names, mcmd, prx>>

(* fn_spawn keeps the segments; once all are there a new group is          *)
(* allocated, its key-value space filled with the preput pairs, and its    *)
(* proxies are launched.  A line has as many values as there are segments. *)
StartGroup(l) ==
    /\ mcmd' = <<>>
    /\ grp' = [grp EXCEPT ![2].scratch = "live", ![2].active = Size(2),
                          ![2].kvs = <<[key |-> "preput", val |-> l.val]>>]
    /\ prx' = [y \in Proxies |-> IF Group(y) = 2
                                 THEN [prx[y] EXCEPT !.st = "launched"] ELSE prx[y]]

fn_spawn(x, p, l) ==
    /\ UNCHANGED names
    /\ IF Len(mcmd) + 1 # Len(l.val)
       THEN mcmd' = Append(mcmd, p) /\ UNCHANGED <<clt, grp, prx>>
       ELSE StartGroup(l) /\ Reply(x, p, Answer("spawn_result", 0, <<>>))

(* The list of published names.  A name is taken off at the head of the    *)
(* list, or wherever it occurs behind it; with an empty list the code      *)
(* dereferences NULL.                                                      *)
Known(l) == Matching(names, l.key) # {}
publish(l) ==
    names' = IF Known(l) THEN names
             ELSE Append(names, [key |-> l.key, val |-> l.val])
unpublish(l) ==
    LET other(e) == e.key # l.key
    IN  /\ names # <<>>
        /\ names' = IF names[1].key = l.key THEN Tail(names)
                    ELSE <<names[1]>> \o SelectSeq(Tail(names), other)

fn_publish_name(x, p, l) ==
    /\ publish(l)
    /\ Reply(x, p, Answer("publish_result", IF Known(l) THEN 1 ELSE 0, <<>>))
    /\ UNCHANGED <<grp, mcmd, prx>>

fn_unpublish_name(x, p, l) ==
    /\ unpublish(l)
    /\ Reply(x, p, Answer("unpublish_result", IF Known(l) THEN 0 ELSE 1, <<>>))
    /\ UNCHANGED <<grp, mcmd, prx>>

fn_lookup_name(x, p, l) ==
    /\ Reply(x, p, IF Known(l) THEN Answer("lookup_result", 0, Value(names, l.key))
                   ELSE Answer("lookup_result", 1, <<>>))
    /\ UNCHANGED <<grp, names, mcmd, prx>>

(* handle_pmi_cmd *)
handle_pmi_cmd(x, p, l) ==
    /\ \/ l.cmd = "put" /\ fn_put(x, p, l)
       \/ l.cmd = "get" /\ fn_get(x, p, l)
       \/ l.cmd = "spawn" /\ fn_spawn(x, p, l)
       \/ l.cmd = "publish_name" /\ fn_publish_name(x, p, l)
       \/ l.cmd = "unpublish_name" /\ fn_unpublish_name(x, p, l)
       \/ l.cmd = "lookup_name" /\ fn_lookup_name(x, p, l)
    /\ srv' = [srv EXCEPT !.fault = @ \/ grp[Group(x)].scratch # "live"]

(* The list of dead processes: the segments that touch the new rank grow,  *)
(* otherwise it is inserted as a segment of its own, and neighbours that   *)
(* now share an end are joined.                                            *)
Grown(e, r) == IF r = e.start - 1 THEN [e EXCEPT !.start = r]
               ELSE IF r = e.end + 1 THEN [e EXCEPT !.end = r] ELSE e
Insert(s, r) ==
    LET before == Cardinality({i \in 1..Len(s) : s[i].start < r})
    IN  SubSeq(s, 1, before) \o <<[start |-> r, end |-> r]>>
          \o SubSeq(s, before + 1, Len(s))
(* Changed: neighbouring segments are not joined. *)
Join_Not(s) == s
Join(s) ==
    LET i == CHOOSE i \in 1..Len(s) - 1 : s[i].end = s[i + 1].start
    IN  IF \A j \in 1..Len(s) - 1 : s[j].end # s[j + 1].start THEN s
        ELSE SubSeq(s, 1, i - 1)
               \o <<[start |-> s[i].start, end |-> s[i + 1].end]>>
               \o SubSeq(s, i + 2, Len(s))
AddDead(s, r) ==
    LET grown == [i \in 1..Len(s) |-> Grown(s[i], r)]
    IN  IF s = <<>> THEN <<[start |-> r, end |-> r]>>
        ELSE IF grown = s THEN Insert(s, r) ELSE Join(grown)

(* control_cb, PROCESS_TERMINATED: the list is brought up to date and      *)
(* SIGUSR1 is passed to the other proxies.                                 *)
ProcessTerminated(x, r) ==
    /\ grp' = [grp EXCEPT ![Group(x)].dead = AddDead(@, r)]
    /\ clt' = [y \in Proxies |-> IF y # x /\ px[y].fd = "open"
                                 THEN Append(clt[y], Msg("SIGNAL", 0, NoLine))
                                 ELSE clt[y]]
    /\ UNCHANGED <<px, names, mcmd, shown, srv, prx>>

control_cb(x) ==
    LET m == Head(ctl[x])
    IN  /\ Serve /\ px[x].fd = "open"
        /\ ctl[x] # <<>>
        /\ ctl' = [ctl EXCEPT ![x] = Tail(@)]
        /\ \/ m.type = "PID_LIST"
              /\ UNCHANGED <<clt, px, grp, names, mcmd, shown, srv, prx>>
           \/ m.type = "EXIT_STATUS" /\ ExitStatus(x)
           \/ /\ m.type = "PMI_CMD" /\ UNCHANGED <<px, shown>>
              /\ IF m.line.cmd = "barrier_in" THEN fn_barrier_in_server(x)
                 ELSE handle_pmi_cmd(x, m.pid, m.line)
           \/ m.type = "STDOUT"
              /\ shown' = [shown EXCEPT ![m.pid] = @ + 1]
              /\ UNCHANGED <<clt, px, grp, names, mcmd, srv, prx>>
           \/ m.type = "PROCESS_TERMINATED" /\ ProcessTerminated(x, m.pid)
        /\ UNCHANGED <<load, procVars, cli, link>>

(* The control socket of a proxy that failed is closed: the assertion of   *)
(* control_cb ends the server.                                             *)
ProxyGone(x) ==
    /\ Serve /\ px[x].fd = "open"
    /\ ctl[x] = <<>> /\ prx[x].st = "failed"
    /\ srv' = [srv EXCEPT !.st = "failed"]
    /\ UNCHANGED <<load, procVars, proxyVars, ctl, clt, px, grp, names, mcmd, shown>>

(* ui_cmd_cb (Ctrl-C) cleans up and exits; a timeout of                    *)
(* HYD_pmci_wait_for_completion cleans up and waits on.  The timeouts here *)
(* come after every proxy has connected.                                   *)
Interrupt ==
    /\ Serve /\ load.stop # "never"
    /\ load.stop = "timeout" =>
         /\ \E x \in Proxies : px[x].fd = "open"
         /\ \A x \in Proxies : px[x].fd = "unset" => prx[x].st = "none"
    /\ cleanup_proxy(Proxies, {}, IF load.stop = "ctrl_c" THEN "failed" ELSE "run")
    /\ UNCHANGED <<load, procVars, proxyVars, ctl, clt, names, mcmd, shown>>

(* HYD_pmci_wait_for_completion: the groups one after the other, each      *)
(* until its port is closed; then HYDT_bscu_wait_for_completion.           *)
NextGroup ==
    /\ Serve /\ srv.at \in Groups
    /\ grp[srv.at].listen = "closed"
    /\ grp' = [grp EXCEPT ![srv.at].scratch = "freed"]
    /\ srv' = [srv EXCEPT !.at = IF srv.at = 1 /\ grp[2].scratch = "live"
                                 THEN 2 ELSE 3]
    /\ UNCHANGED <<load, procVars, proxyVars, ctl, clt, px, names, mcmd, shown>>

wait_for_completion ==
    /\ Serve /\ srv.at = 3
    /\ \/ /\ \A x \in Proxies : prx[x].st \in {"none", "done", "failed"}
          /\ srv' = [srv EXCEPT !.st = "done"]
       \/ /\ \E x \in Proxies : prx[x].st = "failed"  \* "terminated badly; aborting"
          /\ srv' = [srv EXCEPT !.st = "failed"]
    /\ UNCHANGED <<load, procVars, proxyVars, ctl, clt, px, grp, names, mcmd, shown>>

-----------------------------------------------------------------------------
EmptyGroup(g) ==
    [listen |-> "unset", kvs |-> <<>>, barrier |-> 0, dead |-> <<>>,
     scratch |-> IF g = 1 THEN "live" ELSE "none",
     active |-> IF g = 1 THEN Size(g) ELSE 0]

(* HYD_pmci_launch_procs: the proxies of the first group are launched. *)
Init ==
    /\ load \in Workloads
    /\ proc = [p \in Procs |-> [st |-> "none", pc |-> 1, wait |-> FALSE, ret |-> -1]]
    /\ got = [p \in Procs |-> <<>>]
    /\ up = [p \in Procs |-> <<>>] /\ down = [p \in Procs |-> <<>>]
    /\ out = [p \in Procs |-> 0]
    /\ cli = [p \in Procs |-> [fd |-> "unset", active |-> FALSE, out |-> FALSE,
                               exit |-> -1, reaped |-> FALSE]]
    /\ prx = [x \in Proxies |->
                [st |-> IF Group(x) = 1 THEN "launched" ELSE "none",
                 count |-> 0, forced |-> FALSE]]
    /\ link = [x \in Proxies |-> "none"]
    /\ ctl = [x \in Proxies |-> <<>>] /\ clt = [x \in Proxies |-> <<>>]
    /\ px = [x \in Proxies |-> [fd |-> "unset", status |-> FALSE]]
    /\ grp = [g \in Groups |-> EmptyGroup(g)]
    /\ names = <<>> /\ mcmd = <<>>
    /\ shown = [p \in Procs |-> 0]
    /\ srv = [st |-> "run", at |-> 1, fault |-> FALSE]

ProcStep(p) == Leave(p) \/ Crash(p) \/ Write(p) \/ Call(p) \/ GetResponse(p)
ProxyStep(x) == Connect(x) \/ control_cmd_cb(x) \/ ControlClosed(x)
StreamStep(p) == pmi_cb(p) \/ pmi_closed(p) \/ stdio_cb(p) \/ Reap(p)
ServerStep(x) ==
    control_listen_cb(x) \/ proxy_init_cb(x) \/ control_cb(x) \/ ProxyGone(x)

Ended == srv.st # "run" /\ \A x \in Proxies : prx[x].st \in {"none", "done", "failed"}

Next ==
    \/ \E p \in Procs : ProcStep(p) \/ StreamStep(p)
    \/ \E x \in Proxies : ProxyStep(x) \/ ServerStep(x)
    \/ Interrupt \/ NextGroup \/ wait_for_completion

(* Processes and proxies keep running, and poll returns every descriptor   *)
(* that is ready; nobody has to interrupt the job.                         *)
Fairness ==
    /\ \A p \in Procs : WF_vars(ProcStep(p)) /\ WF_vars(StreamStep(p))
    /\ \A x \in Proxies : WF_vars(ProxyStep(x)) /\ WF_vars(ServerStep(x))
    /\ WF_vars(NextGroup \/ wait_for_completion)

-----------------------------------------------------------------------------
Calls(p) == {i \in 1..Len(Ops(p)) : Ops(p)[i].cmd \in DOMAIN Expected}
Before(p, i, c) == Cardinality({j \in 1..i - 1 : Ops(p)[j].cmd = c})
Answered(p) == {i \in Calls(p) : i < proc[p].pc}
AnswerTo(p, i) == got[p][Cardinality({j \in Calls(p) : j <= i})]

(* No process leaves a PMI barrier before every process of its group has   *)
(* entered it: the counts of the proxies and of the server, which start    *)
(* over for the next barrier while answers of the last one are still on    *)
(* their way, never release anyone early.                                  *)
BarrierTogether ==
    \A p, q \in Procs :
      Group(Home(p)) = Group(Home(q)) =>
        Before(p, proc[p].pc, "barrier_in") <=
          Before(q, proc[q].pc + (IF proc[q].wait THEN 1 ELSE 0), "barrier_in")

(* A get returns the value put under its key by a process that had put it  *)
(* before a barrier that lies before the get; and a spawned process finds  *)
(* the preput pair of the spawn.                                           *)
GetsExact(p, i) ==
    Ops(p)[i].cmd = "get" =>
      \A q \in Procs : \A j \in Calls(q) :
        \/ /\ Ops(q)[j].cmd = "put" /\ Ops(p)[i].key = Ops(q)[j].key
           /\ Group(Home(p)) = Group(Home(q))
           /\ Before(q, j, "barrier_in") < Before(p, i, "barrier_in")
        \/ /\ Ops(q)[j].cmd = "spawn" /\ Ops(p)[i].key = "preput"
           /\ Group(Home(p)) = 2
        => AnswerTo(p, i).rc = 0 /\ AnswerTo(p, i).val = Ops(q)[j].val

(* A name that is found has a value somebody published under it, and a     *)
(* spawned process finds the name its parent published before.             *)
LookupsExact(p, i) ==
    LET published(q, j) == Ops(q)[j].cmd = "publish_name" /\ Ops(q)[j].key = Ops(p)[i].key
    IN  Ops(p)[i].cmd = "lookup_name" =>
          /\ AnswerTo(p, i).rc = 0 =>
               \E q \in Procs : \E j \in Calls(q) :
                 published(q, j) /\ AnswerTo(p, i).val = Ops(q)[j].val
          /\ \A q \in Procs : \A j, k \in Calls(q) :
               /\ published(q, j) /\ j < k /\ Ops(q)[k].cmd = "spawn"
               /\ Group(Home(p)) = 2
               => AnswerTo(p, i).rc = 0

(* The list of dead processes a process reads names only dead ones.        *)
DeadExact(p, i) ==
    LET v == AnswerTo(p, i).val
    IN  Ops(p)[i].cmd = "get" /\ Ops(p)[i].key = "PMI_dead_processes" =>
          \A k \in 1..Len(v) \div 2 : \A r \in v[2 * k - 1]..v[2 * k] :
            proc[r].st = "dead"

(* Every call returns the answer to its own request, and what it says of   *)
(* keys, names and dead processes is so (GetsExact, LookupsExact,          *)
(* DeadExact; fn_put, fn_get, fn_spawn, fn_lookup_name).                   *)
AnswersExact ==
    \A p \in Procs : \A i \in Answered(p) :
      /\ AnswerTo(p, i).cmd = Expected[Ops(p)[i].cmd]
      /\ GetsExact(p, i) /\ LookupsExact(p, i) /\ DeadExact(p, i)


(* "store a temporary erroneous exit status.  In case the application does *)
(* not return a non-zero exit status, we will use this": a process that    *)
(* ended with an erroneous status of its own is reported with that one     *)
(* (pmi_cb, and waitpid in main).                                          *)
StatusKept ==
    \A p \in Procs :
      px[Home(p)].status /\ ~prx[Home(p)].forced /\ proc[p].ret # 0
        => cli[p].exit = proc[p].ret

(* PMI_dead_processes: the segments that the server keeps are the maximal  *)
(* intervals of the ranks whose end was reported to it.                    *)
Reported(g) ==
    {p \in Procs : /\ Group(Home(p)) = g /\ cli[p].fd = "lost"
                   /\ \A i \in 1..Len(ctl[Home(p)]) :
                        ~(ctl[Home(p)][i].type = "PROCESS_TERMINATED"
                          /\ ctl[Home(p)][i].pid = p)}
DeadListExact ==
    ~load.auto /\ srv.st = "run" =>
      \A g \in Groups :
        LET s == grp[g].dead
        IN  /\ UNION {s[i].start..s[i].end : i \in 1..Len(s)} = Reported(g)
            /\ \A i \in 1..Len(s) - 1 : s[i].end + 1 < s[i + 1].start

(* "If this is not a forced cleanup, store a temporary erroneous exit      *)
(* status": a process that ended without PMI_Finalize, as the first of its *)
(* proxy, is reported with an erroneous status.                            *)
AbnormalReported ==
    \A p \in Procs :
      px[Home(p)].status /\ cli[p].fd = "lost" /\ proc[p].ret = 0
        => cli[p].exit # 0

(* The job is over: the server has stopped, every proxy has exited and no  *)
(* process runs.                                                           *)
JobOver == Ended /\ \A p \in Procs : ~Running(p)

Spec == Init /\ [][Next]_vars /\ Fairness
=============================================================================
