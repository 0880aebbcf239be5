----------------------------- MODULE Refinement -----------------------------
(***************************************************************************)
(* Publisher implements BuildLifecycle.  The stage of a build is read off  *)
(* its row and its trees.  A combination that no stage stands for (a       *)
(* completed row over incomplete trees) is mapped to a value that the      *)
(* abstract specification does not know.                                   *)
(***************************************************************************)
EXTENDS Consistency

Stage(trees, row) ==
    IF row = Nil
    THEN IF Gone(trees) THEN "absent" ELSE "deleting"
    ELSE IF ~row.completed THEN "pulling"
    ELSE IF Whole(trees) THEN "complete" ELSE "broken"

Lifecycle == INSTANCE BuildLifecycle
    WITH stage <- [b \in Builds |-> Stage(dirs[b], records[b])]

\* Where jobs on the same build do not overlap and nobody dies, the row and
\* the trees of a build, which pull() and delete() change in a dozen separate
\* steps, go through the stages of a build life in order: a build becomes
\* complete only out of a pull, and no pull ever runs over remains.
FollowsLifecycle == Lifecycle!Safety

\* In addition, every pull and every deletion that has begun ends.
ImplementsLifecycle == Lifecycle!Spec
=============================================================================
