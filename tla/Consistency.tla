---------------------------- MODULE Consistency ----------------------------
(***************************************************************************)
(* Why storage and records agree although the code has no locks: as long   *)
(* as no two jobs work on the same build at the same time and no process   *)
(* dies, every step of a job leaves its build in a shape that the step     *)
(* after it, or the cleanup of a failed pull, takes to a settled state.    *)
(* Inv says which shape belongs to which step.                             *)
(***************************************************************************)
EXTENDS Publisher

\* Nobody dies, no two jobs work on the same build at the same time, and the
\* publish mutation finds the build that it has looked at still there.
Orderly ==
    /\ crashes = 0
    /\ \A b \in Builds : \A p, q \in Procs :
            WorksOn(p, b) /\ WorksOn(q, b) => p = q
    /\ \A p \in Procs : pc[p] = "publish" /\ job[p].op = "publish" =>
            Pulled(job[p].build)

\* A deployment in which nobody dies and processes that pull, edit or delete do
\* so for different builds (the usual case: there is only one of them, a task
\* worker with one thread), while the others only tag and publish builds.
WritersApart ==
    /\ MaxCrashes = 0
    /\ \A p, q \in Procs : p # q =>
          \/ Ops[p] \subseteq TagOps
          \/ Ops[q] \subseteq TagOps
          \/ BuildsUsed[p] \cap BuildsUsed[q] = {}

\* Such a deployment is orderly if the processes that publish builds, too, use
\* none of the builds that another process writes.
Separate ==
    /\ WritersApart
    /\ \A p, q \in Procs : p # q =>
          \/ "publish" \notin Ops[p]
          \/ Ops[q] \subseteq TagOps
          \/ BuildsUsed[p] \cap BuildsUsed[q] = {}

PullSteps == {"pull", "submit", "download", "extract", "copy_path", "rmtree",
              "copy", "copytree", "tags", "metadata", "complete", "gbp.json"}
SetTagSteps == {"tag", "islink", "unlink", "symlink"}
UntagSteps == {"check tags", "untag", "is_symlink", "remove link"}
TagOpSteps(op) ==
    SetTagSteps \cup UntagSteps \cup (IF op = "publish" THEN {"publish"} ELSE {})

\* Steps within a loop over the content types; the others leave item at 1.
LoopSteps == {"copy_path", "rmtree", "copy", "copytree", "islink", "unlink",
              "symlink", "is_symlink", "remove link", "delete tree",
              "delete rmtree"}

\* Content before item has one state, and content after it another.
Split(trees, item, before, after) ==
    \A c \in Content : /\ c < item => trees[c] = before
                       /\ c > item => trees[c] = after

\* The first pull of a build: there is a record, which is not completed.
Pulling(j, row) == ~j.record.completed /\ row # Nil /\ ~row.completed

\* The shape of a build while job j of process p, which works on it, is at
\* a step.
Shape(step, j, p, trees, row) ==
    /\ step \notin LoopSteps => j.item = 1
    /\ step \in PullSteps =>
         /\ j.op \in {"pull_build", "publish_build"} /\ ~j.publishing
         /\ j.op = "publish_build" => j.tags = {}
    /\ step = "pull" => IsSettled(trees, row)
    /\ step = "submit" => row = Nil /\ Gone(trees) /\ ~j.record.completed
    /\ step \in {"download", "extract"} => Pulling(j, row) /\ Gone(trees)
    /\ step \in {"copy_path", "copy"} =>
         /\ Pulling(j, row)
         /\ Split(trees, j.item, "whole", "absent") /\ trees[j.item] = "absent"
    /\ step # "rmtree"
    /\ step = "copytree" =>
         /\ Pulling(j, row)
         /\ Split(trees, j.item, "whole", "absent") /\ trees[j.item] = p
    /\ step \in {"tags", "metadata", "complete"} =>
         Pulling(j, row) /\ Whole(trees)
    /\ step = "gbp.json" => IsCompleted(row) /\ Whole(trees)
    /\ step \in SetTagSteps =>
         \/ j.op = "pull_build" /\ ~j.publishing /\ Pulling(j, row) /\ Whole(trees)
         \/ j.op # "pull_build" /\ IsCompleted(row) /\ Whole(trees)
    /\ step = "publish" =>
         j.op # "pull_build" /\ IsCompleted(row) /\ Whole(trees)
    /\ step \in UntagSteps \cup {"edit"} =>
         j.op \notin Tasks /\ IsSettled(trees, row)
    /\ step = "save" =>
         IsSettled(trees, row) /\ row # Nil /\ j.record.completed = row.completed
    /\ step = "delete" => (IsCompleted(row) => Whole(trees))
    /\ step \in {"delete tree", "delete rmtree"} =>
         row = Nil /\ \A c \in Content : c < j.item => trees[c] = "absent"
    /\ step = "delete rmtree" => trees[j.item] = "partial"

\* A process is idle, only tags, or its build has the shape of its step.
InShape(p) ==
    \/ pc[p] = "idle"
    \/ job[p].op \in TagOps /\ pc[p] \in TagOpSteps(job[p].op)
    \/ /\ job[p].op \notin TagOps
       /\ LET b == job[p].build
          IN  Shape(pc[p], job[p], p, dirs[b], records[b])

\* The inductive invariant.
Inv ==
    /\ TypeOK
    /\ SettledAtRest
    /\ \A p \in Procs : InShape(p)
=============================================================================
