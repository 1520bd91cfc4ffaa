-------------------------- MODULE MCBackgroundTasks --------------------------
(***************************************************************************)
(* Instances of BackgroundTasks for TLC.  One user whose exchange is       *)
(* refused, next to one or two whose exchange works; two failing calls are *)
(* enough to lose a cycle and then the task.                               *)
(***************************************************************************)
EXTENDS BackgroundTasks

CONSTANTS u1, u2, u3

MCUsers == {u1, u2, u3}
MCBroken == {u3}
=============================================================================
