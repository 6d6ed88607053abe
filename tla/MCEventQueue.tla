---------------------------- MODULE MCEventQueue ----------------------------
(***************************************************************************)
(* EventQueue for TLC: two threads read a queue that overflows; and they   *)
(* wait for events and for a counting event.                               *)
(***************************************************************************)
EXTENDS EventQueue

MCWorkloads == {[calls |-> {"get", "wait", "poll"}, events |-> 7],
                [calls |-> {"wait", "ctwait", "ctpoll"}, events |-> 2]}
=============================================================================
