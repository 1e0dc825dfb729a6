-------------------------- MODULE MCCycleDetection --------------------------
(* Every graph on three workloads, with one change while it is walked. *)
EXTENDS CycleDetection
CONSTANTS a, b, c
=============================================================================
