----------------------------- MODULE MCWorkspacePage ----------------------------
(* The values of Intervals for TLC: its first growth and its last repetition. *)
EXTENDS WorkspacePage

MCIntervals == <<1, 2>>
===============================================================================
