----------------------------- MODULE MCLauncher -----------------------------
(***************************************************************************)
(* Launcher and Placement for model checking: three proxies and four       *)
(* processes.  A proxy of group 3 is never launched.                       *)
(***************************************************************************)
EXTENDS Launcher

Op(c, k, v) == Line(c, k, v)
Do(c) == Op(c, "none", <<>>)
Fin == <<Do("finalize")>>
In == <<Do("init")>>
Bar == <<Do("barrier_in")>>
Quiet == <<>>

Job(group, home, script, auto, stop) ==
    [group |-> group, home |-> home, script |-> script, auto |-> auto, stop |-> stop,
     usr1 |-> FALSE]
Load(home, script, auto, stop) == Job(<<1, 1, 3>>, home, script, auto, stop)
Spawner(home, script, stop) == Job(<<1, 2, 3>>, home, script, TRUE, stop)

(* Two processes on the first node, one on the second: keys exchanged over *)
(* a barrier, and two barriers in a row.                                   *)
Exchange ==
    Load(<<1, 1, 2, 3>>,
         <<<<Op("put", "a", <<1>>)>> \o Bar \o <<Op("get", "b", <<>>)>> \o Fin,
           Bar \o <<Do("print")>> \o Fin,
           <<Op("put", "b", <<2>>)>> \o Bar \o <<Op("get", "a", <<>>)>> \o Fin,
           Quiet>>, TRUE, "never")
Barriers ==
    Load(<<1, 1, 2, 3>>,
         <<Bar \o Bar \o Fin, Bar \o Bar \o Fin, Bar \o Bar \o Fin, Quiet>>,
         TRUE, "never")

(* A process is killed after the first barrier while the others wait in    *)
(* the second one; the same in a spawned group.                            *)
Crashes ==
    Load(<<1, 1, 2, 3>>,
         <<Bar \o <<Do("crash")>>, Bar \o Bar, Bar \o <<Do("print")>> \o Bar, Quiet>>,
         TRUE, "never")
SpawnCrash ==
    Spawner(<<1, 1, 2, 2>>,
            <<Bar \o <<Op("spawn", "none", <<5, 6>>)>> \o Bar, Bar \o Bar, Bar \o Bar,
              Bar \o <<Do("crash")>>>>, "never")

(* A spawn of two segments; the new process reads the preput pair and the  *)
(* name its parent published, and outlives the first group.                *)
Spawns ==
    Spawner(<<1, 1, 2, 3>>,
            <<<<Op("publish_name", "s", <<7>>), Op("spawn", "none", <<5, 6>>)>> \o Fin,
              Fin,
              <<Op("get", "preput", <<>>), Op("lookup_name", "s", <<>>), Do("print")>>
                \o Fin,
              Quiet>>, "never")
Names ==
    Load(<<1, 2, 2, 3>>,
         <<<<Op("publish_name", "s", <<7>>), Op("publish_name", "t", <<8>>),
             Op("unpublish_name", "t", <<>>)>>,
           <<Op("publish_name", "s", <<9>>), Op("lookup_name", "t", <<>>)>>,
           Quiet, Quiet>>, TRUE, "never")
Inits ==
    Load(<<1, 1, 2, 3>>,
         <<In \o <<Do("get_maxes"), Do("get_my_kvsname")>> \o Fin,
           <<Do("get_appnum"), Do("get_universe_size"),
             Op("get", "PMI_process_mapping", <<>>), Op("get", "c", <<>>)>> \o Fin,
           Quiet, Quiet>>, TRUE, "never")

(* Without auto_cleanup: processes end in any order; one asks which.       *)
Dying ==
    Load(<<1, 1, 2, 3>>,
         <<In \o <<Do("crash")>>, In \o <<Do("exit")>>, In \o <<Do("crash")>>, Quiet>>,
         FALSE, "never")
DyingBetween ==
    Load(<<1, 2, 1, 3>>,
         <<In \o <<Do("crash")>>, <<Op("get", "PMI_dead_processes", <<>>)>> \o Fin,
           In \o <<Do("crash")>>, Quiet>>, FALSE, "never")

(* The same for processes that SIGUSR1 ends.                               *)
Signalling == [Dying EXCEPT !.usr1 = TRUE]
SignallingOther ==
    [Load(<<1, 2, 2, 3>>,
          <<In \o <<Do("crash")>>, In \o <<Do("print")>> \o Fin, In \o Fin, Quiet>>,
          FALSE, "never") EXCEPT !.usr1 = TRUE]

(* The user interrupts the job, or it runs into its time limit. *)
Interrupted ==
    Spawner(<<1, 2, 3, 3>>,
            <<<<Op("spawn", "none", <<5>>)>> \o Fin, <<Do("print")>>, Quiet, Quiet>>,
            "ctrl_c")
TimedOut ==
    Load(<<1, 1, 2, 3>>,
         <<Bar \o Fin, Bar \o <<Do("print")>> \o Fin, Bar, Quiet>>, TRUE, "timeout")

(* No proxy runs: the load of the behaviours that are about Placement. *)
Idle == Job(<<3, 3, 3>>, <<1, 2, 2, 3>>, <<Quiet, Quiet, Quiet, Quiet>>, TRUE, "never")

MCWorkloads == {Idle, Exchange, Barriers, Crashes, SpawnCrash, Spawns, Names, Inits,
                Dying, DyingBetween, Signalling, SignallingOther, Interrupted, TimedOut}

-----------------------------------------------------------------------------
CONSTANT Jobs

VARIABLES job, group, stage, active, node, pcr, list, exec, rem, at, room

placeVars == <<job, group, stage, active, node, pcr, list, exec, rem, at, room>>
Place == INSTANCE Placement

(* Up to three nodes with up to three cores, and one or two executables in *)
(* each of the two groups.                                                 *)
Cores == UNION {[1..n -> 1..3] : n \in 1..3}
Counts == {<<2>>, <<4>>, <<7>>, <<2, 1>>}
NoJob == [cores |-> <<1>>, execs |-> <<<<1>>>>]
MCJobs == [cores : Cores, execs : {<<e, f>> : e \in Counts, f \in Counts}]
            \cup {NoJob}

MCInit == Init /\ Place!Init /\ (load = Idle <=> job # NoJob)

PlaceStep == load = Idle /\ Place!Next /\ UNCHANGED vars

MCNext ==
    \/ load # Idle /\ Next /\ UNCHANGED placeVars
    \/ PlaceStep

MCSpec ==
    /\ MCInit /\ [][MCNext]_<<vars, placeVars>>
    /\ Fairness /\ WF_placeVars(PlaceStep)

(* Every rank is given to one process, and the process mapping names its   *)
(* node: three computations of HYDU_create_proxy_list, local_to_global_id  *)
(* and pmi_process_mapping agree.                                          *)
RanksExact == Place!RanksExact /\ Place!MappingExact

(* The job ends: the server stops, every proxy exits and no process is     *)
(* left running, whether the processes finish, one of them crashes with    *)
(* auto_cleanup, or the user interrupts the job; and both passes of        *)
(* HYDU_create_proxy_list come to an end.                                  *)
LaunchEnds == <>[](IF load = Idle THEN Place!AllPlaced ELSE JobOver)

-----------------------------------------------------------------------------
(* A process returns 0 without PMI_Finalize. *)
ExitLoads ==
    {Load(<<1, 1, 2, 3>>, <<In \o <<Do("exit")>>, Fin, Fin, Quiet>>, TRUE, "never")}

(* A process is killed before the proxy of another one has connected. *)
EarlyLoads ==
    {Load(<<1, 2, 3, 3>>, <<In \o <<Do("crash")>>, Bar, Quiet, Quiet>>, TRUE, "never")}
NoJobs == {NoJob}

(* A process returns 0 without PMI_Finalize while another one, of another  *)
(* proxy, waits in a barrier.                                              *)
ExitWaiting ==
    Load(<<1, 2, 3, 3>>, <<In \o <<Do("exit")>>, Bar \o Fin, Quiet, Quiet>>, TRUE, "never")
HangLoads == EarlyLoads \cup {ExitWaiting}

(* Without auto_cleanup a process is killed before PMI_Finalize. *)
StatusLoads == {Dying}
=============================================================================
