--------------------------- MODULE BuildLifecycle ---------------------------
(***************************************************************************)
(* What storage and records together promise about a build, without saying *)
(* how: a build goes through stages, it is complete only after it has been *)
(* pulled, and whatever has begun to be pulled or deleted ends up complete *)
(* or absent.  The module Refinement shows that Publisher implements this. *)
(***************************************************************************)
CONSTANT Builds

VARIABLE stage        \* stage[b]: the stage that build b is in

Stages == {"absent", "pulling", "complete", "deleting"}

LifecycleTypeOK == stage \in [Builds -> Stages]

Init == stage = [b \in Builds |-> "absent"]

Move(b, from, to) == stage[b] = from /\ stage' = [stage EXCEPT ![b] = to]

\* A pull begins.
BeginPull(b) == Move(b, "absent", "pulling")

\* A pull succeeds.
Complete(b) == Move(b, "pulling", "complete")

\* A complete build is to be deleted.
BeginDelete(b) == Move(b, "complete", "deleting")

\* A pull fails, and there is something to delete, or there is not.
Fail(b) == Move(b, "pulling", "deleting") \/ Move(b, "pulling", "absent")

\* The last file of the build is gone.
EndDelete(b) == Move(b, "deleting", "absent")

Next == \E b \in Builds : \/ BeginPull(b)
                          \/ Complete(b)
                          \/ BeginDelete(b)
                          \/ Fail(b)
                          \/ EndDelete(b)

\* Nobody has to begin anything, but what has begun ends.
Settle(b) == Complete(b) \/ Fail(b) \/ EndDelete(b)

Safety == Init /\ [][Next]_stage

Spec == Safety /\ \A b \in Builds : WF_stage(Settle(b))
=============================================================================
