------------------------------ MODULE Crashes ------------------------------
(***************************************************************************)
(* What completed records are worth when processes die.  A build is only   *)
(* taken for pulled if each of its trees exists, and they are created in   *)
(* order, so the last tree is there only if all the others are: what a     *)
(* crash leaves of a pull is pulled again.  This is not so where a tree    *)
(* exists before it is complete, while copytree() fills it, nor where the  *)
(* trees go while the last one is still there, in a deletion.              *)
(***************************************************************************)
EXTENDS Consistency

DeletionSteps == {"delete", "delete tree", "delete rmtree"}

\* Job j may write trees or complete records; p does so for build b.
StoringJob(step, j) ==
    j.op \in Tasks \cup Commands \/ (j.op = "publish" /\ step \in PullSteps)

Stores(p, b) == pc[p] # "idle" /\ job[p].build = b /\ StoringJob(pc[p], job[p])

\* The builds are pulled and deleted by one process each, and nobody edits the
\* record of a build that is being deleted.
OneStorer ==
    \A b \in Builds : \A p, q \in Procs :
        /\ Stores(p, b)
        /\ Stores(q, b) \/ (pc[p] \in DeletionSteps /\ WorksOn(q, b))
        => p = q

\* A deployment of that kind: the processes use different builds, or only set
\* and remove tags.  There may be any number of crashes.
StoresApart ==
    \A p, q \in Procs : p # q =>
        \/ Ops[p] \subseteq {"createBuildTag", "removeBuildTag"}
        \/ Ops[q] \subseteq {"createBuildTag", "removeBuildTag"}
        \/ BuildsUsed[p] \cap BuildsUsed[q] = {}

\* No copy of a tree and no deletion is cut short, by a crash or by an error
\* that nothing cleans up after.
SeenThrough ==
    \A p \in Procs :
        /\ pc[p] = "copytree" => pc'[p] # "idle"
        /\ pc[p] \in DeletionSteps => ~Crash(p)

NothingCutShort == [][SeenThrough]_vars

\* The last tree is there only if all trees are there, and complete.
InOrder(trees) == trees[N] = "absent" \/ Whole(trees)

\* The trees of a build while job j of p, which stores it, is at a step.
Storing(step, j, p, trees) ==
    LET before == \A c \in Content : c < j.item => trees[c] = "whole" IN
    /\ step \in {"copy_path", "copy", "rmtree"} => before /\ trees[N] = "absent"
    /\ step = "copy" => trees[j.item] = "absent"
    /\ step \in {"rmtree", "delete rmtree"} => trees[j.item] = "partial"
    /\ step = "copytree" =>
         before /\ trees[j.item] = p /\ (j.item < N => trees[N] = "absent")
    /\ step \in {"tags", "metadata", "complete", "gbp.json"} => Whole(trees)
    /\ step \in SetTagSteps /\ j.op = "pull_build" => Whole(trees)
    /\ step \in {"delete tree", "delete rmtree"} =>
         \A c \in Content : c < j.item => trees[c] = "absent"
    /\ step \notin {"copytree"} \cup DeletionSteps => InOrder(trees)

\* What the record, and the copy that job j holds of it, are worth at a step.
Holding(step, j, trees, row) ==
    /\ step \notin LoopSteps => j.item = 1
    /\ step \in PullSteps => j.op \in {"pull_build", "publish_build", "publish"}
    /\ step = "publish" => j.op \in {"publish_build", "publish"}
    /\ step \in DeletionSteps => j.op \in Tasks \cup Commands
    /\ step = "submit" => ~j.record.completed
    /\ step \in {"delete tree", "delete rmtree"} => row = Nil
    /\ step = "save" /\ j.record.completed => Whole(trees)
    /\ step \in {"edit", "save"} => j.op \in RecordEdits

\* The inductive invariant for CompletedIsWhole.
CrashInv ==
    /\ TypeOK
    /\ CompletedIsWhole
    /\ \A b \in Builds : (\A p \in Procs : ~Stores(p, b)) => InOrder(dirs[b])
    /\ \A p \in Procs, b \in Builds : Stores(p, b) => Storing(pc[p], job[p], p, dirs[b])
    /\ \A p \in Procs : pc[p] # "idle" =>
          Holding(pc[p], job[p], dirs[job[p].build], records[job[p].build])
    /\ \A b \in Builds, c \in Content, p \in Procs : dirs[b][c] = p =>
          pc[p] = "copytree" /\ job[p].build = b /\ job[p].item = c
=============================================================================
