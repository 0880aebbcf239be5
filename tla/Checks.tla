------------------------------- MODULE Checks -------------------------------
(***************************************************************************)
(* "gbp check" (cli/check.py and checks.py), one file-system or database   *)
(* call at a time, while the jobs of the module Publisher run.             *)
(*                                                                         *)
(* It adds to Publisher what only the checks look at: the temporary        *)
(* directory and the gbp.json files.  Broken and torn tags, missing trees  *)
(* and missing records are Publisher's.                                    *)
(***************************************************************************)
EXTENDS Publication, FiniteSets

CONSTANTS Binpkgs, Aux      \* the content types BINPKGS and AUX

ASSUME ChecksAssumption == Binpkgs \in Content /\ Aux \in Content

VARIABLES
    json,      \* json[b]: b's gbp.json is "missing", "valid" or "corrupt"
    leftover,  \* whether a process that died has left files in storage.temp
    torn,      \* the builds with a tree that a process that died damaged (history)
    check,     \* the command's local state, or Nil
    during,    \* what has run since the command began (history)
    raced      \* whether a completed record has been deleted during a check (history)

checkVars == <<json, leftover, torn, check, during, raced>>

(***************************************************************************)
(* The command's local state: its step, the content and the entries that a *)
(* loop has still to look at, the build it is at, whether a path of it is  *)
(* missing, the targets of each tag, and the totals as far as they are     *)
(* zero or not.  A loop's list is what has been read at its beginning.     *)
(***************************************************************************)
CheckSteps == {"records", "next", "exists", "mkdir", "orphans", "orphan",
               "tags", "target", "temp", "json records", "gbp.json", "report"}

Check == [step : CheckSteps, item : Content, rows : SUBSET Builds,
          completed : SUBSET Builds, tags : SUBSET Tags, build : Builds \cup {Nil},
          missing : BOOLEAN, targets : [Tags -> SUBSET Builds],
          errors : BOOLEAN, warnings : BOOLEAN,
          excuse : BOOLEAN] \* whether a false alarm is possible (history)

EmptyCheck ==
    [step |-> "records", item |-> 1, rows |-> {}, completed |-> {}, tags |-> {},
     build |-> Nil, missing |-> FALSE, targets |-> [t \in Tags |-> {}],
     errors |-> FALSE, warnings |-> FALSE, excuse |-> FALSE]

\* What jobs are doing now: nothing, something, or remove a build or change
\* a tag.
Changes == {"delete", "delete tree", "delete rmtree", "islink", "unlink",
            "symlink", "is_symlink", "remove link"}

Activity ==
    IF \E p \in Procs : pc[p] \in Changes THEN 2
    ELSE IF \E p \in Procs : pc[p] # "idle" THEN 1 ELSE 0

Worse(m, n) == IF m > n THEN m ELSE n

(***************************************************************************)
(* Jobs, and what they do to gbp.json and the temporary directory          *)
(***************************************************************************)

\* The temporary directory is used from the download to the last copy.
TempSteps == {"extract", "copy_path", "rmtree", "copy", "copytree"}

Damaged(trees) == \E c \in Content : trees[c] = "partial"

\* What may become of a build's gbp.json in a step that does not write it: it
\* goes at some time while its tree is removed, and a new tree has none.
JsonAfterMove(b) ==
    LET was == dirs[b][Binpkgs]
        is == dirs'[b][Binpkgs] IN
    IF is = was \/ was \in Procs THEN {json[b]}
    ELSE IF is = "partial" THEN {json[b], "missing"} ELSE {"missing"}

\* What may become of it in the step that writes it, with Path.write_bytes() in
\* storage.set_metadata(): that may be cut short, by an error or by the end of
\* the process.  Nothing is written without a package index, or if an error
\* comes before.
JsonAfterWrite(b, returns) ==
    {json[b]} \cup IF ~Exists(b, Binpkgs) THEN {}
                  ELSE IF returns THEN {"valid"} ELSE {"corrupt"}

JobStep(p) ==
    LET b == job[p].build IN
    /\ Step(p)
    /\ \E state \in IF pc[p] = "gbp.json"
                   THEN JsonAfterWrite(b, pc'[p] = AfterPull(job[p]))
                   ELSE JsonAfterMove(b) :
            json' = [json EXCEPT ![b] = state]
    /\ torn' = {d \in torn : Damaged(dirs'[d])}
    /\ UNCHANGED leftover

JobCrash(p) ==
    LET b == job[p].build IN
    /\ Crash(p)
    /\ leftover' = (leftover \/ pc[p] \in TempSteps)
    /\ torn' = {d \in torn \cup {b} : Damaged(dirs'[d])}
    /\ \E state \in IF pc[p] = "gbp.json" THEN JsonAfterWrite(b, FALSE) ELSE {json[b]} :
            json' = [json EXCEPT ![b] = state]

\* A bound: after a crash, no job begins during a check, nor a check during
\* a job; and none begins after one that a removal has raced.
MayBeginJob == crashes = 0 \/ check = Nil
MayBeginCheck == (crashes = 0 \/ Activity = 0) /\ ~raced

Jobs ==
    /\ \E p \in Procs :
        \/ MayBeginJob /\ Start(p) /\ UNCHANGED <<json, leftover, torn>>
        \/ JobStep(p)
        \/ JobCrash(p)
    /\ check' = check
    /\ during' = IF check = Nil THEN 0 ELSE Worse(during, Activity')
    /\ raced' = (raced \/ (check # Nil /\ \E b \in Builds : Completed(b) /\ ~Completed(b)'))

(***************************************************************************)
(* The command                                                             *)
(***************************************************************************)
\* A symlink that does not exist, to Python.
Dangles(t, c) == links[t][c] # Nil /\ ~Exists(links[t][c], c)

GoOn(next) ==
    /\ check' = next
    /\ UNCHANGED <<links, records, pc, job, crashes, json, leftover, torn, during, raced>>

Look(next) == GoOn(next) /\ UNCHANGED dirs

BeginCheck ==
    /\ check = Nil /\ MayBeginCheck
    /\ check' = [EmptyCheck EXCEPT !.excuse = \E t \in Tags, c \in Content : Dangles(t, c)]
    /\ during' = Activity
    /\ UNCHANGED <<vars, json, leftover, torn, raced>>

\* list_machines() and for_machine()
Listed(step) ==
    [check EXCEPT !.step = step,
                  !.rows = {b \in Builds : RecordExists(b)},
                  !.completed = {b \in Builds : Completed(b)}]

\* for_machine() lists completed builds first, the latest one at the top.
Precedes(a, b) ==
    a \in check.completed /\ (b \in check.completed => BuiltAt[a] > BuiltAt[b])

FirstRows == {b \in check.rows : ~\E a \in check.rows : Precedes(a, b)}

\* build_content()
ListRecords ==
    /\ check # Nil /\ check.step = "records"
    /\ Look(Listed("next"))

NextRecord ==
    /\ check # Nil /\ check.step = "next"
    /\ \/ \E b \in FirstRows :
            Look([check EXCEPT !.step = "exists", !.build = b, !.item = 1,
                               !.missing = FALSE, !.rows = @ \ {b}])
       \/ check.rows = {} /\ Look([check EXCEPT !.step = "orphans", !.item = 1,
                                     !.completed = {}, !.build = Nil])

\* Mutant: a path that is missing is always an error.
AfterContent_Error(missing) ==
    IF check.item < N
    THEN [check EXCEPT !.step = "exists", !.item = @ + 1, !.missing = missing]
    ELSE [check EXCEPT !.step = "next", !.missing = FALSE, !.errors = @ \/ missing]

\* What follows a content, given whether any path so far is missing.
AfterContent(missing) ==
    IF check.item < N
    THEN [check EXCEPT !.step = "exists", !.item = @ + 1, !.missing = missing]
    ELSE [check EXCEPT !.step = "next", !.missing = FALSE,
            !.errors = @ \/ (missing /\ check.build \in check.completed),
            !.warnings = @ \/ (missing /\ check.build \notin check.completed)]

\* Mutant: the aux directory is created for records that are not completed.
ExistsTest_AnyRecord ==
    LET c == check.item IN
    /\ check # Nil /\ check.step = "exists"
    /\ IF Exists(check.build, c) THEN Look(AfterContent(check.missing))
       ELSE IF c = Aux
            THEN Look([check EXCEPT !.step = "mkdir", !.warnings = TRUE])
            ELSE Look(AfterContent(TRUE))

\* path.exists(); a completed record gets the aux directory it lacks.
ExistsTest ==
    LET c == check.item IN
    /\ check # Nil /\ check.step = "exists"
    /\ IF Exists(check.build, c) THEN Look(AfterContent(check.missing))
       ELSE IF c = Aux /\ check.build \in check.completed
            THEN Look([check EXCEPT !.step = "mkdir", !.warnings = TRUE])
            ELSE Look(AfterContent(TRUE))

\* path.mkdir(parents=True); if the path exists by now, the command ends
\* with an exception.
Mkdir ==
    LET b == check.build IN
    /\ check # Nil /\ check.step = "mkdir"
    /\ IF Exists(b, Aux) THEN Look(Nil)
       ELSE SetTree(b, Aux, "partial") /\ GoOn(AfterContent(check.missing))

\* orphans(): directory.iterdir()
ListContent ==
    LET c == check.item IN
    /\ check # Nil /\ check.step = "orphans"
    /\ Look([check EXCEPT !.step = "orphan",
                !.rows = {b \in Builds : Exists(b, c)},
                !.tags = {t \in Tags : links[t][c] # Nil}])

\* A build without a record, and a link without a target, is an error.
Orphan ==
    LET c == check.item IN
    /\ check # Nil /\ check.step = "orphan"
    /\ \/ \E b \in check.rows :
            Look([check EXCEPT !.rows = @ \ {b},
                               !.errors = @ \/ ~RecordExists(b)])
       \/ \E t \in check.tags :
            Look([check EXCEPT !.tags = @ \ {t}, !.errors = @ \/ Dangles(t, c)])
       \/ /\ check.rows = {} /\ check.tags = {}
          /\ Look(IF c < N THEN [check EXCEPT !.step = "orphans", !.item = @ + 1]
                  ELSE [check EXCEPT !.step = "tags", !.item = 1])

\* inconsistent_tags(): path.iterdir()
ListTags ==
    /\ check # Nil /\ check.step = "tags"
    /\ Look([check EXCEPT !.step = "target",
                !.tags = {t \in Tags : links[t][check.item] # Nil}])

\* is_symlink() and resolve(), which are taken together here, per entry; at
\* the end, a tag that has been seen with several targets is an error.
Target ==
    /\ check # Nil /\ check.step = "target"
    /\ \/ \E t \in check.tags :
            Look([check EXCEPT !.tags = @ \ {t},
                    !.targets[t] = @ \cup ({links[t][check.item]} \ {Nil})])
       \/ /\ check.tags = {}
          /\ Look(IF check.item < N
                  THEN [check EXCEPT !.step = "tags", !.item = @ + 1]
                  ELSE [check EXCEPT !.step = "temp", !.item = 1,
                          !.targets = [t \in Tags |-> {}],
                          !.errors = @ \/ \E t \in Tags :
                                Cardinality(check.targets[t]) > 1])

\* dirty_temp()
DirtyTemp ==
    /\ check # Nil /\ check.step = "temp"
    /\ Look([check EXCEPT !.step = "json records",
                !.warnings = @ \/ leftover \/ \E p \in Procs : pc[p] \in TempSteps])

\* corrupt_gbp_json()
ListJsonRecords ==
    /\ check # Nil /\ check.step = "json records"
    /\ Look(Listed("gbp.json"))

\* Mutant: a missing gbp.json is old, and nothing to warn about.
Warns_CorruptOnly(state) == FALSE

Warns(state) == state = "missing"

BeingWritten(b) == \E p \in Procs : pc[p] = "gbp.json" /\ job[p].build = b

\* What is read of a gbp.json that is just being written may be corrupt.
CorruptGbpJson ==
    /\ check # Nil /\ check.step = "gbp.json"
    /\ \/ \E b \in FirstRows :
          \E state \in {json[b]} \cup (IF BeingWritten(b) THEN {"corrupt"} ELSE {}) :
            Look([check EXCEPT !.rows = @ \ {b},
                               !.warnings = @ \/ Warns(state),
                               !.errors = @ \/ state = "corrupt",
                               !.excuse = @ \/ BeingWritten(b)])
       \/ check.rows = {} /\ Look([check EXCEPT !.step = "report", !.completed = {}])

\* The handler prints the totals and returns.
Report ==
    /\ check # Nil /\ check.step = "report"
    /\ Look(Nil)

CheckStep ==
    \/ ListRecords
    \/ NextRecord
    \/ ExistsTest
    \/ Mkdir
    \/ ListContent
    \/ Orphan
    \/ ListTags
    \/ Target
    \/ DirtyTemp
    \/ ListJsonRecords
    \/ CorruptGbpJson
    \/ Report

(***************************************************************************)
(* Specification                                                           *)
(***************************************************************************)
CheckInit ==
    /\ Init
    /\ json = [b \in Builds |-> "missing"]
    /\ leftover = FALSE /\ torn = {}
    /\ check = Nil
    /\ during = 0 /\ raced = FALSE

CheckNext == Jobs \/ BeginCheck \/ CheckStep

CheckSpec == CheckInit /\ [][CheckNext]_<<vars, checkVars>>

(***************************************************************************)
(* Properties                                                              *)
(***************************************************************************)
Reporting == check # Nil /\ check.step = "report"

\* Every build is there, with each of its trees and a valid gbp.json, or not at
\* all, and no link points nowhere.  Its trees are whole, except that those
\* that a process damaged when it died may still be so.
LooksSettled ==
    /\ \A b \in Builds :
        \/ /\ Completed(b) /\ StoragePulled(b) /\ json[b] = "valid"
           /\ b \in torn \/ Whole(dirs[b])
        \/ ~RecordExists(b) /\ Gone(dirs[b])
    /\ \A t \in Tags, c \in Content : ~Dangles(t, c)

\* Whatever a crash leaves of a build, in whatever step of whatever job, is
\* noticed if something is missing: if "gbp check" has nothing to say while no
\* job runs, then things are as LooksSettled says.  What it does not notice is
\* a tree that has lost some of its files: delete_build dies in the first
\* rmtree(), the next pull takes the trees as they are (Extract) and completes
\* the build.  This is for one crash: a second one, in another pull of a build
\* whose deletion was cut short, may leave a record that is not completed with
\* an old gbp.json.
CrashesAreNoticed ==
    Reporting /\ during = 0 /\ ~check.errors /\ ~check.warnings => LooksSettled

\* The check may run while builds are pulled: without crashes, and while nobody
\* deletes a build or changes a tag, it counts no errors, unless a tag dangled
\* when it began or it has read a gbp.json while that was being written.
PullsAreNoErrors ==
    Reporting /\ crashes = 0 /\ during < 2 => ~check.errors \/ check.excuse

\* The aux directories that the check creates belong to builds: it leaves no
\* tree behind without a record, unless a build that was complete was deleted
\* during it.
ChecksLeaveNothing == crashes = 0 /\ ~raced => SettledAtRest

(***************************************************************************)
(* Inductive invariants                                                    *)
(***************************************************************************)

\* The builds that the check takes for completed are completed, and those are
\* the only ones that it makes directories for.
ListsHold ==
    check # Nil =>
        /\ check \in Check
        /\ \A b \in check.completed : Completed(b)
        /\ check.step \in {"exists", "mkdir"} => check.build \in Builds
        /\ check.step = "mkdir" => /\ check.item = Aux
                                  /\ check.build \in check.completed

\* The inductive invariant for ChecksLeaveNothing.
LeavesInv == crashes = 0 /\ ~raced => Inv /\ ListsHold

\* What a check has found when nothing but pulls has run since it began: paths
\* are missing of builds in progress only, the builds it has listed have
\* records, each tag has one target, and if none dangled at first, none does.
FindsNothing ==
    /\ ~raced
    /\ \A p \in Procs : pc[p] \notin Changes
    /\ check.step \in {"exists", "mkdir"} /\ check.missing =>
          check.build \notin check.completed
    /\ check.step = "orphan" => \A b \in check.rows : RecordExists(b)
    /\ \A t \in Tags : check.targets[t] \subseteq {links[t][1]}
    /\ ~check.excuse => \A t \in Tags, c \in Content : ~Dangles(t, c)
    /\ check.errors => check.excuse

\* gbp.json is in the tree of the content BINPKGS.
JsonFits ==
    /\ json \in [Builds -> {"missing", "valid", "corrupt"}]
    /\ \A b \in Builds : ~Exists(b, Binpkgs) => json[b] = "missing"

\* p, which deletes b, has yet to remove its gbp.json.
WillDeleteJson(p, b) ==
    /\ pc[p] \in {"delete", "delete tree", "delete rmtree"}
    /\ job[p].build = b /\ job[p].item <= Binpkgs

\* A gbp.json is corrupt only while the job that failed to write it deletes
\* the build.
JsonInv ==
    /\ JsonFits
    /\ \A b \in Builds : json[b] = "corrupt" => \E p \in Procs : WillDeleteJson(p, b)

\* The inductive invariant for PullsAreNoErrors.
NoErrorsInv ==
    /\ LeavesInv
    /\ crashes = 0 =>
          /\ ~raced => TagInv /\ JsonInv
          /\ check # Nil /\ during < 2 => FindsNothing
=============================================================================
