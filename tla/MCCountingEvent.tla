-------------------------- MODULE MCCountingEvent --------------------------
(***************************************************************************)
(* Counting events for TLC.  Each workload is about one interaction:       *)
(*  - moves posted while the progress thread and another thread count;     *)
(*  - increments that go from one counting event to another and back       *)
(*    through the triggered increments of a second thread;                 *)
(*  - a cancel while another thread posts and counts;                      *)
(*  - a counting event freed while another thread uses the other one;      *)
(*  - sets and triggered sets.  One thread makes all of them, because      *)
(*    ct_set() is not ordered with a concurrent post;                      *)
(*  - moves beyond the limit of triggered operations, and a free.          *)
(***************************************************************************)
EXTENDS CountingEvent, TLC

CONSTANTS t1, t2, t3, o1, o2

Limited(a, b, c, bufs, max) ==
    [calls |-> t1 :> a @@ t2 :> b @@ t3 :> c, bufs |-> bufs, max_triggered_ops |-> max]

Workload(a, b, c, bufs) == Limited(a, b, c, bufs, Cardinality(Op))

MCWorkloads ==
    {Workload({"inc"}, {"move"}, {"event"}, {o1, o2}),
     Workload({"inc"}, {"triginc"}, {}, {o1, o2}),
     Workload({"inc", "triginc"}, {"cancel"}, {}, {o1, o2}),
     Workload({"free"}, {"inc", "triginc"}, {}, {o1}),
     Workload({"set", "trigset"}, {}, {}, {o1}),
     Limited({"free"}, {"inc", "move"}, {}, {o1}, 1)}
=============================================================================
