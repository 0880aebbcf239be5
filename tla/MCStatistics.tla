---------------------------- MODULE MCStatistics ----------------------------
(***************************************************************************)
(* Instances of Statistics for TLC.                                        *)
(***************************************************************************)
EXTENDS Statistics

\* Each build builds a package of its own.
MCMachineOf == [b \in Builds |-> IF b = 3 THEN 2 ELSE 1]
MCPackages == [b \in Builds |-> {b}]
=============================================================================
