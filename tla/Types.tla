------------------------------- MODULE Types -------------------------------
(***************************************************************************)
(* What every module of the specification speaks of (types.py).            *)
(*                                                                         *)
(* The builds are the builds of one machine: operations on the builds of   *)
(* different machines touch disjoint trees, links and records.             *)
(***************************************************************************)
EXTENDS Naturals

CONSTANTS Builds,     \* the builds of the machine
          Procs,      \* the processes and threads of the system
          Nil         \* Python's None

ASSUME TypesAssumption == Nil \notin Builds
=============================================================================
