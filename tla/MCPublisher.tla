---------------------------- MODULE MCPublisher ----------------------------
(***************************************************************************)
(* Instances of Publisher for TLC: two builds, two of the five content     *)
(* types, a task worker and web processes.                                 *)
(***************************************************************************)
EXTENDS Refinement, Publication, Crashes

\* Build ids are given by Jenkins in the order in which builds start.
MCBuiltAt == [b \in Builds |-> IF b = "b1" THEN 1 ELSE 2]

EveryBuild == [p \in Procs |-> Builds]

\* One worker process (celery's default concurrency) and a web process that
\* tags builds meanwhile.
SerialOps == [p \in Procs |->
    IF p = "worker" THEN AllOps ELSE {"createBuildTag"}]
SerialTags == [p \in Procs |-> IF p = "worker" THEN {"a"} ELSE {""}]

\* Two workers publish the same builds at the same time; one also deletes.
ChaosOps == [p \in Procs |->
    IF p = "p1" THEN {"publish_build", "delete"} ELSE {"publish_build"}]
ChaosBuilds == [p \in Procs |-> IF p = "p1" THEN {"b2"} ELSE Builds]
NoTags == [p \in Procs |-> {}]

\* A worker pulls and publishes, a web process publishes, and they tag
\* builds with different tags.
TaggingOps == [p \in Procs |->
    IF p = "worker" THEN {"pull_build"}
    ELSE {"publish", "removeBuildTag"}]
TaggingTags == [p \in Procs |-> IF p = "worker" THEN {"a", "-x"} ELSE {""}]

\* A worker that pulls and never deletes, and an editor of the records.
PullOps == [p \in Procs |->
    IF p = "worker" THEN {"pull_build", "publish_build"} ELSE RecordEdits]
WorkerTags == [p \in Procs |-> IF p = "worker" THEN {"a"} ELSE {}]
=============================================================================
