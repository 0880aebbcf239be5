----------------------------- MODULE Publisher -----------------------------
(***************************************************************************)
(* The core of Gentoo Build Publisher: what the background tasks           *)
(* (worker/tasks.py), the web mutations (graphql/mutations.py) and the     *)
(* delete command (cli/delete.py) do, through BuildPublisher               *)
(* (build_publisher.py), to the build storage and the build records.       *)
(*                                                                         *)
(* Each process runs one job at a time, in steps at whose boundaries other *)
(* processes may run: one database call, or one file-system call.  There   *)
(* are no locks and no transactions in the code, and none here.  What a    *)
(* task queue holds is left out: any idle process may begin any of the     *)
(* operations it is used for (Ops) at any time.                            *)
(*                                                                         *)
(* Events (dispatcher.emit) change neither storage nor records.            *)
(***************************************************************************)
EXTENDS Storage, Records

CONSTANTS Ops,        \* Ops[p]: the operations that process p is used for
          BuildsUsed, \* BuildsUsed[p]: the builds that p's requests name
          TagsUsed,   \* TagsUsed[p]: the tags that they name
          Faults,     \* the steps that may fail for an outside reason
          MaxCrashes  \* bound on the number of process crashes

\* The operations, by the names of the tasks, mutations and commands.
Tasks == {"pull_build", "publish_build", "delete_build"}
RecordEdits == {"keepBuild", "releaseBuild", "createNote"}
Mutations == {"publish", "createBuildTag", "removeBuildTag"} \cup RecordEdits
Commands == {"delete", "delete --force"}
AllOps == Tasks \cup Mutations \cup Commands

AllFaults == {"download", "extract", "copy", "metadata", "gbp.json"}

ASSUME PublisherAssumption ==
    /\ Ops \in [Procs -> SUBSET AllOps]
    /\ BuildsUsed \in [Procs -> SUBSET Builds]
    /\ TagsUsed \in [Procs -> SUBSET Tags]
    /\ Faults \subseteq AllFaults
    /\ MaxCrashes \in Nat

VARIABLES
    pc,      \* pc[p]: the step that process p takes next
    job,     \* job[p]: the arguments and local variables of p's job
    crashes  \* the number of crashes so far

vars == <<dirs, links, records, pc, job, crashes>>

(***************************************************************************)
(* Local state of a job:                                                   *)
(*   op, build, note   the operation and its arguments                     *)
(*   tags              the tags still to be set, or removed                *)
(*   tag, item         the tag and the content the current loop is at      *)
(*   record            the copy of the build's record that the job holds   *)
(*   link_dest         whether extract_artifact() was given a previous     *)
(*                     build, whose files it may hard-link                 *)
(*   publishing        whether BuildPublisher.publish() has been entered   *)
(***************************************************************************)
Job == [op : AllOps, build : Builds, note : Notes \cup {Nil},
        tags : SUBSET Tags, tag : Tags, item : Content, record : Record,
        link_dest : BOOLEAN, publishing : BOOLEAN]

NewJob(op, b) ==
    [op |-> op, build |-> b, note |-> Nil, tags |-> {}, tag |-> "",
     item |-> 1, record |-> EmptyRecord, link_dest |-> FALSE,
     publishing |-> FALSE]

Steps == {"pull", "submit", "download", "extract", "copy_path", "rmtree",
          "copy", "copytree", "tags", "tag", "islink", "unlink", "symlink",
          "metadata", "complete", "gbp.json", "publish", "check tags",
          "untag", "is_symlink", "remove link", "delete", "delete tree",
          "delete rmtree", "edit", "save"}

JobsTypeOK ==
    /\ pc \in [Procs -> Steps \cup {"idle"}]
    /\ job \in [Procs -> Job \cup {Nil}]
    /\ \A p \in Procs : pc[p] # "idle" => job[p] \in Job

\* Every variable has its type; a process that is not idle has a job.
TypeOK ==
    /\ StorageTypeOK
    /\ RecordsTypeOK
    /\ JobsTypeOK
    /\ crashes \in 0..MaxCrashes

Init ==
    /\ StorageInit
    /\ RecordsInit
    /\ pc = [p \in Procs |-> "idle"]
    /\ job = [p \in Procs |-> Nil]
    /\ crashes = 0

\* Mutant: the record's "completed" is not looked at.
Pulled_TreesOnly(b) == StoragePulled(b)

\* BuildPublisher.pulled()
Pulled(b) == StoragePulled(b) /\ RecordOf(b).completed

(***************************************************************************)
(* Control flow: p's next step and local state.                            *)
(***************************************************************************)
Continue(p, next, local) ==
    /\ pc' = [pc EXCEPT ![p] = next]
    /\ job' = [job EXCEPT ![p] = IF next = "idle" THEN Nil ELSE local]

Goto(p, next) == Continue(p, next, job[p])

\* Mutants: the loop leaves out the last content, or runs once too often.
NextItem_SkipsLast(p, body, after) ==
    IF job[p].item < N - 1
    THEN Continue(p, body, [job[p] EXCEPT !.item = @ + 1])
    ELSE Continue(p, after, [job[p] EXCEPT !.item = 1])

NextItem_PastEnd(p, body, after) ==
    IF job[p].item <= N
    THEN Continue(p, body, [job[p] EXCEPT !.item = @ + 1])
    ELSE Continue(p, after, [job[p] EXCEPT !.item = 1])

\* "for item in Content": run the loop's body again, or go on after it.
NextItem(p, body, after) ==
    IF job[p].item < N
    THEN Continue(p, body, [job[p] EXCEPT !.item = @ + 1])
    ELSE Continue(p, after, [job[p] EXCEPT !.item = 1])

\* Mutant: pull_build() does not clean up.
Handler_Never(j) == "idle"

\* Mutant: pull_build() cleans up the trees and forgets the record.
Handler_TreesOnly(j) ==
    IF j.op \in {"pull_build", "publish_build"} /\ ~j.publishing
    THEN "delete tree" ELSE "idle"

\* Mutant: pull_build() tries again.
Handler_Retry(j) ==
    IF j.op \in {"pull_build", "publish_build"} /\ ~j.publishing
    THEN "pull" ELSE "idle"

\* An exception in p's job.  pull_build() deletes the build whose pull failed
\* and re-raises; nothing else handles exceptions, and BuildPublisher.publish()
\* is called outside of pull_build().
Handler(j) ==
    IF j.op \in {"pull_build", "publish_build"} /\ ~j.publishing
    THEN "delete" ELSE "idle"

Raise(p) == Continue(p, Handler(job[p]), [job[p] EXCEPT !.item = 1])

\* What BuildPublisher.pull() returns to.
AfterPull(j) ==
    IF j.publishing THEN "tag"
    ELSE IF j.op = "publish_build" THEN "publish" ELSE "idle"

\* What Storage.tag() returns to: pull()'s loop over the tags, or the end.
AfterTag(j) == IF j.op = "pull_build" THEN "tags" ELSE "idle"

(***************************************************************************)
(* The jobs                                                                *)
(***************************************************************************)
Begin(p, op, b, step, local) ==
    /\ pc[p] = "idle"
    /\ op \in Ops[p]
    /\ Continue(p, step, local)
    /\ UNCHANGED <<dirs, links, records, crashes>>

\* tasks.pull_build()
PullBuild(p, b) ==
    \E note \in Notes \cup {Nil}, tags \in SUBSET TagsUsed[p] :
        Begin(p, "pull_build", b, "pull",
              [NewJob("pull_build", b) EXCEPT !.note = note, !.tags = tags])

\* tasks.publish_build(): pull_build() without a note or tags, then publish()
PublishBuild(p, b) ==
    Begin(p, "publish_build", b, "pull", NewJob("publish_build", b))

\* tasks.delete_build()
DeleteBuild(p, b) ==
    Begin(p, "delete_build", b, "delete", NewJob("delete_build", b))

\* The publish mutation: here it is the web process that publishes a build
\* that has been pulled.  For another build it submits publish_build.
PublishMutation(p, b) ==
    /\ Pulled(b)
    /\ Begin(p, "publish", b, "publish", NewJob("publish", b))

CreateBuildTag(p, b) ==
    \E tag \in TagsUsed[p] :
        Begin(p, "createBuildTag", b, "tag",
              [NewJob("createBuildTag", b) EXCEPT !.tag = tag])

\* removeBuildTag() has no build; b is not used.
RemoveBuildTag(p, b) ==
    \E tag \in TagsUsed[p] :
        Begin(p, "removeBuildTag", b, "untag",
              [NewJob("removeBuildTag", b) EXCEPT !.tags = {tag}])

KeepBuild(p, b) == Begin(p, "keepBuild", b, "edit", NewJob("keepBuild", b))

ReleaseBuild(p, b) ==
    Begin(p, "releaseBuild", b, "edit", NewJob("releaseBuild", b))

CreateNote(p, b) ==
    \E note \in Notes \cup {Nil} :
        Begin(p, "createNote", b, "edit",
              [NewJob("createNote", b) EXCEPT !.note = note])

\* The delete command, with and without --force.
DeleteCommand(p, b) ==
    \E op \in Commands : Begin(p, op, b, "check tags", NewJob(op, b))

(***************************************************************************)
(* BuildPublisher.pull()                                                   *)
(***************************************************************************)

\* "if self.pulled(build): return False".  Otherwise the record is read.
Pull(p) ==
    LET b == job[p].build IN
    /\ pc[p] = "pull"
    /\ IF Pulled(b)
       THEN Goto(p, AfterPull(job[p]))
       ELSE Continue(p, "submit", [job[p] EXCEPT !.record = RecordOf(b)])
    /\ UNCHANGED <<dirs, links, records, crashes>>

\* self.save(record, submitted=..., note=note): the copy is written back with
\* the note of the call, which replaces the record's also when it is None.
Submit(p) ==
    LET record == [job[p].record EXCEPT !.note = job[p].note] IN
    /\ pc[p] = "submit"
    /\ SaveRecord(job[p].build, record)
    /\ Continue(p, "download", [job[p] EXCEPT !.record = record])
    /\ UNCHANGED <<dirs, links, crashes>>

\* jenkins.download_artifact(), then build_records.previous(record)
Download(p) ==
    /\ pc[p] = "download"
    /\ \/ Continue(p, "extract", [job[p] EXCEPT
                 !.link_dest = HasPrevious(job[p].build, job[p].record)])
       \/ "download" \in Faults /\ Raise(p)
    /\ UNCHANGED <<dirs, links, records, crashes>>

\* Storage.extract_artifact(): nothing is extracted over existing trees.
Extract(p) ==
    /\ pc[p] = "extract"
    /\ IF StoragePulled(job[p].build)
       THEN Goto(p, "tags")
       ELSE \/ Goto(p, "copy_path")
            \/ "extract" \in Faults /\ Raise(p)
    /\ UNCHANGED <<dirs, links, records, crashes>>

\* fs.copy_path(), "if dst.exists()"; rmtree() takes time.
CopyPath(p) ==
    LET b == job[p].build
        c == job[p].item IN
    /\ pc[p] = "copy_path"
    /\ IF Exists(b, c)
       THEN SetTree(b, c, "partial") /\ Goto(p, "rmtree")
       ELSE UNCHANGED dirs /\ Goto(p, "copy")
    /\ UNCHANGED <<links, records, crashes>>

\* rmtree() ends.  It may also end early, with or without an error, when
\* another process has removed or replaced the tree in the meantime.
RemoveTree(p) ==
    LET b == job[p].build
        c == job[p].item IN
    /\ pc[p] = "rmtree"
    /\ \/ dirs[b][c] = "partial" /\ SetTree(b, c, "absent") /\ Goto(p, "copy")
       \/ /\ dirs[b][c] # "partial"
          /\ UNCHANGED dirs
          /\ Goto(p, "copy") \/ Raise(p)
    /\ UNCHANGED <<links, records, crashes>>

\* os.renames(), which is atomic, without a previous build, and copytree()
\* with one.  Both refuse a destination that exists.
Copy(p) ==
    LET b == job[p].build
        c == job[p].item IN
    /\ pc[p] = "copy"
    /\ \/ /\ ~Exists(b, c) /\ ~job[p].link_dest
          /\ SetTree(b, c, "whole")
          /\ NextItem(p, "copy_path", "tags")
       \/ /\ ~Exists(b, c) /\ job[p].link_dest
          /\ SetTree(b, c, p)
          /\ Goto(p, "copytree")
       \/ /\ Exists(b, c) \/ "copy" \in Faults
          /\ UNCHANGED dirs
          /\ Raise(p)
    /\ UNCHANGED <<links, records, crashes>>

\* copytree() ends, or fails half-way.  When another process has removed
\* files from under it, it may or may not notice.
CopyTree(p) ==
    LET b == job[p].build
        c == job[p].item IN
    /\ pc[p] = "copytree"
    /\ \/ /\ dirs[b][c] = p
          /\ SetTree(b, c, "whole")
          /\ NextItem(p, "copy_path", "tags")
       \/ /\ dirs[b][c] = p /\ "copy" \in Faults
          /\ SetTree(b, c, "partial")
          /\ Raise(p)
       \/ /\ dirs[b][c] # p
          /\ UNCHANGED dirs
          /\ NextItem(p, "copy_path", "tags") \/ Raise(p)
    /\ UNCHANGED <<links, records, crashes>>

\* "for tag in tags or []: self.tag(build, tag)", in whatever order the
\* request lists them.
NextTag(p) ==
    /\ pc[p] = "tags"
    /\ IF job[p].tags = {}
       THEN Goto(p, "metadata")
       ELSE \E tag \in job[p].tags :
                Continue(p, "tag", [job[p] EXCEPT !.tag = tag,
                                                  !.tags = @ \ {tag}])
    /\ UNCHANGED <<dirs, links, records, crashes>>

\* _update_build_metadata(): jenkins.get_metadata() and get_logs()
Metadata(p) ==
    /\ pc[p] = "metadata"
    /\ \/ Goto(p, "complete")
       \/ "metadata" \in Faults /\ Raise(p)
    /\ UNCHANGED <<dirs, links, records, crashes>>

\* self.save(record, logs=logs, completed=utctime(), built=built), of the
\* copy that was read before the download
Complete(p) ==
    /\ pc[p] = "complete"
    /\ SaveRecord(job[p].build, [job[p].record EXCEPT !.completed = TRUE])
    /\ Goto(p, "gbp.json")
    /\ UNCHANGED <<dirs, links, crashes>>

\* storage.get_packages() and set_metadata(), which writes gbp.json into the
\* binpkgs tree.  A build without a package index gets none: get_packages()
\* raises LookupError, which is caught.  Other errors are not: the files may go
\* between two calls if another process removes them.  The "postpull" event
\* follows.
GbpJson(p) ==
    /\ pc[p] = "gbp.json"
    /\ \/ Goto(p, AfterPull(job[p]))
       \/ /\ \/ "gbp.json" \in Faults
             \/ \E c \in Content : dirs[job[p].build][c] # "whole"
          /\ Raise(p)
    /\ UNCHANGED <<dirs, links, records, crashes>>

(***************************************************************************)
(* BuildPublisher.publish() and tag()                                      *)
(***************************************************************************)

Publish(p) ==
    LET b == job[p].build IN
    /\ pc[p] = "publish"
    /\ Continue(p,
                IF Published(b) THEN "idle" ELSE IF Pulled(b) THEN "tag" ELSE "pull",
                [job[p] EXCEPT !.publishing = TRUE])
    /\ UNCHANGED <<dirs, links, records, crashes>>

\* Storage.tag(): the trees have to exist, the record does not matter.
Tag(p) ==
    /\ pc[p] = "tag"
    /\ IF StoragePulled(job[p].build) /\ job[p].tag \notin BadTags
       THEN Goto(p, "islink")
       ELSE Raise(p)
    /\ UNCHANGED <<dirs, links, records, crashes>>

\* fs.symlink(): os.path.islink(), os.unlink() and os.symlink() are three
\* calls, for one content after the other.
IsLink(p) ==
    /\ pc[p] = "islink"
    /\ IF links[job[p].tag][job[p].item] # Nil
       THEN Goto(p, "unlink")
       ELSE Goto(p, "symlink")
    /\ UNCHANGED <<dirs, links, records, crashes>>

Unlink(p) ==
    LET tag == job[p].tag
        c == job[p].item IN
    /\ pc[p] = "unlink"
    /\ IF links[tag][c] # Nil
       THEN SetLink(tag, c, Nil) /\ Goto(p, "symlink")
       ELSE UNCHANGED links /\ Raise(p)
    /\ UNCHANGED <<dirs, records, crashes>>

\* Mutant: a link that is in the way is removed again.
Symlink_Retry(p) ==
    LET tag == job[p].tag
        c == job[p].item IN
    /\ pc[p] = "symlink"
    /\ IF links[tag][c] = Nil
       THEN /\ SetLink(tag, c, job[p].build)
            /\ NextItem(p, "islink", AfterTag(job[p]))
       ELSE UNCHANGED links /\ Goto(p, "islink")
    /\ UNCHANGED <<dirs, records, crashes>>

Symlink(p) ==
    LET tag == job[p].tag
        c == job[p].item IN
    /\ pc[p] = "symlink"
    /\ IF links[tag][c] = Nil
       THEN /\ SetLink(tag, c, job[p].build)
            /\ NextItem(p, "islink", AfterTag(job[p]))
       ELSE UNCHANGED links /\ Raise(p)
    /\ UNCHANGED <<dirs, records, crashes>>

(***************************************************************************)
(* BuildPublisher.untag() and the delete command                           *)
(***************************************************************************)

\* The delete command looks at the build's tags once, before anything else.
CheckTags(p) ==
    LET tags == TagsOf(job[p].build) IN
    /\ pc[p] = "check tags"
    /\ IF tags # {} /\ job[p].op = "delete"
       THEN Goto(p, "idle")
       ELSE Continue(p, "untag", [job[p] EXCEPT !.tags = tags])
    /\ UNCHANGED <<dirs, links, records, crashes>>

\* BuildPublisher.untag() does nothing for a tag that does not resolve.
Untag(p) ==
    /\ pc[p] = "untag"
    /\ IF job[p].tags = {}
       THEN Goto(p, IF job[p].op \in Commands THEN "delete" ELSE "idle")
       ELSE \E tag \in job[p].tags :
                Continue(p, IF Resolves(tag) THEN "is_symlink" ELSE "untag",
                         [job[p] EXCEPT !.tag = tag, !.tags = @ \ {tag}])
    /\ UNCHANGED <<dirs, links, records, crashes>>

\* Storage.untag(): Path.is_symlink() and Path.unlink() per content
IsSymlink(p) ==
    /\ pc[p] = "is_symlink"
    /\ IF links[job[p].tag][job[p].item] # Nil
       THEN Goto(p, "remove link")
       ELSE NextItem(p, "is_symlink", "untag")
    /\ UNCHANGED <<dirs, links, records, crashes>>

\* Mutant: only the first link is removed.
RemoveLink_FirstOnly(p) ==
    LET tag == job[p].tag
        c == job[p].item IN
    /\ pc[p] = "remove link"
    /\ IF links[tag][c] # Nil
       THEN SetLink(tag, c, Nil) /\ Continue(p, "untag", [job[p] EXCEPT !.item = 1])
       ELSE UNCHANGED links /\ Raise(p)
    /\ UNCHANGED <<dirs, records, crashes>>

RemoveLink(p) ==
    LET tag == job[p].tag
        c == job[p].item IN
    /\ pc[p] = "remove link"
    /\ IF links[tag][c] # Nil
       THEN SetLink(tag, c, Nil) /\ NextItem(p, "is_symlink", "untag")
       ELSE UNCHANGED links /\ Raise(p)
    /\ UNCHANGED <<dirs, records, crashes>>

(***************************************************************************)
(* BuildPublisher.delete(): the record first, then tree after tree         *)
(***************************************************************************)
\* Mutant: the trees go while the record is still there.
Delete_TreesFirst(p) ==
    /\ pc[p] = "delete"
    /\ Goto(p, "delete tree")
    /\ UNCHANGED <<dirs, links, records, crashes>>

Delete(p) ==
    /\ pc[p] = "delete"
    /\ DeleteRecord(job[p].build)
    /\ Goto(p, "delete tree")
    /\ UNCHANGED <<dirs, links, crashes>>

\* Storage.delete(): shutil.rmtree(..., ignore_errors=True)
DeleteTree(p) ==
    LET b == job[p].build
        c == job[p].item IN
    /\ pc[p] = "delete tree"
    /\ IF Exists(b, c)
       THEN SetTree(b, c, "partial") /\ Goto(p, "delete rmtree")
       ELSE UNCHANGED dirs /\ NextItem(p, "delete tree", "idle")
    /\ UNCHANGED <<links, records, crashes>>

DeleteRmtree(p) ==
    LET b == job[p].build
        c == job[p].item IN
    /\ pc[p] = "delete rmtree"
    /\ IF dirs[b][c] = "partial" THEN SetTree(b, c, "absent") ELSE UNCHANGED dirs
    /\ NextItem(p, "delete tree", "idle")
    /\ UNCHANGED <<links, records, crashes>>

(***************************************************************************)
(* keepBuild, releaseBuild and createNote: read the record, save the copy  *)
(***************************************************************************)
\* Mutant: the edit starts from a new record instead of the build's.
Edit_NewRecord(p) ==
    /\ pc[p] = "edit"
    /\ IF RecordExists(job[p].build)
       THEN Continue(p, "save", [job[p] EXCEPT !.record = EmptyRecord])
       ELSE Goto(p, "idle")
    /\ UNCHANGED <<dirs, links, records, crashes>>

Edit(p) ==
    LET b == job[p].build IN
    /\ pc[p] = "edit"
    /\ IF RecordExists(b)
       THEN Continue(p, "save", [job[p] EXCEPT !.record = records[b]])
       ELSE Goto(p, "idle")
    /\ UNCHANGED <<dirs, links, records, crashes>>

Edited(j) ==
    CASE j.op = "keepBuild"    -> [j.record EXCEPT !.keep = TRUE]
      [] j.op = "releaseBuild" -> [j.record EXCEPT !.keep = FALSE]
      [] OTHER                 -> [j.record EXCEPT !.note = j.note]

Save(p) ==
    /\ pc[p] = "save"
    /\ SaveRecord(job[p].build, Edited(job[p]))
    /\ Goto(p, "idle")
    /\ UNCHANGED <<dirs, links, crashes>>

(***************************************************************************)
(* A process dies (SIGKILL, power loss).  The task queues do not deliver   *)
(* the job again: Celery and RQ take a job off the queue before it runs.   *)
(***************************************************************************)
Crash(p) ==
    /\ pc[p] # "idle"
    /\ crashes < MaxCrashes
    /\ crashes' = crashes + 1
    /\ AbandonCopies(p)
    /\ Goto(p, "idle")
    /\ UNCHANGED <<links, records>>

Start(p) == \E b \in BuildsUsed[p] :
    \/ PullBuild(p, b)
    \/ PublishBuild(p, b)
    \/ DeleteBuild(p, b)
    \/ PublishMutation(p, b)
    \/ CreateBuildTag(p, b)
    \/ RemoveBuildTag(p, b)
    \/ KeepBuild(p, b)
    \/ ReleaseBuild(p, b)
    \/ CreateNote(p, b)
    \/ DeleteCommand(p, b)

Step(p) ==
    \/ Pull(p)
    \/ Submit(p)
    \/ Download(p)
    \/ Extract(p)
    \/ CopyPath(p)
    \/ RemoveTree(p)
    \/ Copy(p)
    \/ CopyTree(p)
    \/ NextTag(p)
    \/ Metadata(p)
    \/ Complete(p)
    \/ GbpJson(p)
    \/ Publish(p)
    \/ Tag(p)
    \/ IsLink(p)
    \/ Unlink(p)
    \/ Symlink(p)
    \/ CheckTags(p)
    \/ Untag(p)
    \/ IsSymlink(p)
    \/ RemoveLink(p)
    \/ Delete(p)
    \/ DeleteTree(p)
    \/ DeleteRmtree(p)
    \/ Edit(p)
    \/ Save(p)

Next == \E p \in Procs : Start(p) \/ Step(p) \/ Crash(p)

\* A process that runs a job is scheduled, and no call it makes blocks for
\* ever.  Nothing obliges anybody to begin a job.
Fairness == \A p \in Procs : WF_vars(Step(p))

Spec == Init /\ [][Next]_vars /\ Fairness

(***************************************************************************)
(* Properties                                                              *)
(***************************************************************************)

Whole(trees) == \A c \in Content : trees[c] = "whole"
Gone(trees) == \A c \in Content : trees[c] = "absent"

\* A completed record means complete trees: "Timestamp when the build was
\* completely pulled by gbp" (records/__init__.py).
CompletedIsWhole == \A b \in Builds : Completed(b) => Whole(dirs[b])

\* p runs an operation that may write the trees or the record of build b.
\* The publish mutation only tags a build that has been pulled (Orderly, in
\* the module Consistency, is about the case that it has not).
TagOps == {"createBuildTag", "removeBuildTag", "publish"}
WorksOn(p, b) == pc[p] # "idle" /\ job[p].op \notin TagOps /\ job[p].build = b

\* A build is stored completely or not at all.
IsSettled(trees, row) ==
    \/ IsCompleted(row) /\ Whole(trees)
    \/ row = Nil /\ Gone(trees)

\* A build nobody works on is settled: what the check command (checks.py)
\* would report about records and trees never stays behind.
SettledAtRest ==
    \A b \in Builds : (\A p \in Procs : ~WorksOn(p, b)) =>
        IsSettled(dirs[b], records[b])

\* While a build's record is completed, no step changes the build's trees:
\* what machines download does not change under them.
CompletedIsImmutable ==
    [][\A b \in Builds : Completed(b) /\ Completed(b)' =>
            dirs'[b] = dirs[b]]_vars

\* Steps of a job that sets or removes the tag job[p].tag.
TagSteps == {"islink", "unlink", "symlink", "is_symlink", "remove link"}

\* When nobody is setting or removing a tag, its links agree: all name the
\* same build, or none is there (what checks.inconsistent_tags() checks).
TagsSettle ==
    \A t \in Tags : (\A p \in Procs : pc[p] \in TagSteps => job[p].tag # t) =>
        \A c, d \in Content : links[t][c] = links[t][d]

\* "All builds are not "published" until they are completed and successful"
\* (__init__.py): a published build has a completed record and its trees.
PublishedIsComplete ==
    \A b \in Builds : Published(b) =>
        Completed(b) /\ Whole(dirs[b])

\* "if `note` is given, then the build record will be saved with the given
\* note" (BuildPublisher.pull): a pull without a note leaves the note alone.
PullKeepsNote ==
    [][\A p \in Procs : Submit(p) /\ job[p].note = Nil =>
            LET b == job[p].build IN records'[b].note = RecordOf(b).note]_vars

\* Every job ends, whatever the other processes do meanwhile: no call is
\* repeated until it succeeds, and no loop restarts.
JobsEnd == \A p \in Procs : (pc[p] # "idle") ~> (pc[p] = "idle")
=============================================================================
