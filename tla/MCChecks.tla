------------------------------ MODULE MCChecks ------------------------------
(***************************************************************************)
(* An instance of Checks for TLC: a task worker that pulls, publishes and  *)
(* deletes builds, and the content types BINPKGS and AUX.                  *)
(***************************************************************************)
EXTENDS Checks

MCBuiltAt == [b \in Builds |-> IF b = "b1" THEN 1 ELSE 2]
MCOps == [p \in Procs |-> {"publish_build", "delete_build"}]
MCBuilds == [p \in Procs |-> Builds]
MCTags == [p \in Procs |-> {}]
=============================================================================
