------------------------- MODULE ConsistencyProofs -------------------------
(***************************************************************************)
(* The types of Publisher are kept.  Inv is an inductive invariant of      *)
(* orderly behaviours, so that storage and records agree in all of them,   *)
(* and that these implement the safety part of BuildLifecycle.             *)
(***************************************************************************)
EXTENDS Refinement, TLAPS

(***************************************************************************)
(* Type correctness                                                        *)
(***************************************************************************)

\* Continue() keeps the types of pc and job when it is given a step and the
\* local state of a job.
LEMMA ContinueType ==
    ASSUME JobsTypeOK, NEW p \in Procs,
           NEW next \in Steps \cup {"idle"}, NEW local \in Job,
           Continue(p, next, local)
    PROVE  JobsTypeOK'
BY DEF JobsTypeOK, Continue

\* A job's local state stays one when a field gets a value of its type.
LEMMA JobFields ==
    ASSUME NEW j \in Job
    PROVE  /\ j.build \in Builds /\ j.op \in AllOps /\ j.item \in Content
           /\ j.tag \in Tags /\ j.tags \in SUBSET Tags /\ j.record \in Record
           /\ j.note \in Notes \cup {Nil}
           /\ \A i \in Content : [j EXCEPT !.item = i] \in Job
           /\ \A r \in Record : [j EXCEPT !.record = r] \in Job
           /\ \A d \in BOOLEAN : [j EXCEPT !.link_dest = d] \in Job
           /\ \A d \in BOOLEAN : [j EXCEPT !.publishing = d] \in Job
           /\ \A T \in SUBSET Tags : [j EXCEPT !.tags = T] \in Job
           /\ \A t \in Tags : [j EXCEPT !.tag = t] \in Job
           /\ \A n \in Notes \cup {Nil}, T \in SUBSET Tags :
                 [j EXCEPT !.note = n, !.tags = T] \in Job
           /\ \A n \in Notes \cup {Nil} : [j EXCEPT !.note = n] \in Job
           /\ \A t \in Tags, T \in SUBSET Tags :
                 [j EXCEPT !.tag = t, !.tags = T] \in Job
BY DEF Job

\* The bounds of the loop over the content types.
LEMMA ContentBounds ==
    /\ N \in Nat \ {0} /\ 1 \in Content
    /\ \A c \in Content : c < N => c + 1 \in Content
<1>1. N \in Nat \ {0}
  BY StorageAssumption
<1> QED
  BY <1>1 DEF Content

\* A new job is well-typed.
LEMMA NewJobType ==
    ASSUME NEW op \in AllOps, NEW b \in Builds
    PROVE  NewJob(op, b) \in Job
<1>1. EmptyRecord \in Record
  BY DEF EmptyRecord, Record
<1>2. "" \in Tags
  BY StorageAssumption
<1> QED
  BY <1>1, <1>2, ContentBounds DEF NewJob, Job

\* NextItem(), Goto() and Raise() keep the types as well.
LEMMA ControlType ==
    ASSUME JobsTypeOK, NEW p \in Procs, pc[p] # "idle"
    PROVE  /\ \A next \in Steps \cup {"idle"} : Goto(p, next) => JobsTypeOK'
           /\ \A body, after \in Steps \cup {"idle"} :
                 NextItem(p, body, after) => JobsTypeOK'
           /\ Raise(p) => JobsTypeOK'
<1>1. job[p] \in Job
  BY DEF JobsTypeOK
<1>2. ASSUME NEW next \in Steps \cup {"idle"}, Goto(p, next)
      PROVE  JobsTypeOK'
  BY <1>1, <1>2, ContinueType DEF Goto
<1>3. \A i \in Content : [job[p] EXCEPT !.item = i] \in Job
  BY <1>1, JobFields
<1>4. ASSUME NEW body \in Steps \cup {"idle"}, NEW after \in Steps \cup {"idle"},
             NextItem(p, body, after)
      PROVE  JobsTypeOK'
  <2>1. CASE job[p].item < N
    <3>1. job[p].item + 1 \in Content
      BY <1>1, <2>1, JobFields, ContentBounds
    <3> QED
      BY <1>3, <1>4, <2>1, <3>1, ContinueType DEF NextItem
  <2>2. CASE ~(job[p].item < N)
    BY <1>3, <1>4, <2>2, ContentBounds, ContinueType DEF NextItem
  <2> QED
    BY <2>1, <2>2
<1>5. ASSUME Raise(p)
      PROVE  JobsTypeOK'
  <2>1. Handler(job[p]) \in Steps \cup {"idle"}
    BY DEF Handler, Steps
  <2> QED
    BY <1>3, <1>5, <2>1, ContentBounds, ContinueType DEF Raise
<1> QED
  BY <1>2, <1>4, <1>5

\* The file-system steps keep the types of trees and links.
LEMMA StorageStepType ==
    ASSUME StorageTypeOK
    PROVE  /\ \A b \in Builds, c \in Content, state \in TreeStates :
                 SetTree(b, c, state) /\ UNCHANGED links => StorageTypeOK'
           /\ \A t \in Tags, c \in Content, target \in Builds \cup {Nil} :
                 SetLink(t, c, target) /\ UNCHANGED dirs => StorageTypeOK'
           /\ \A p \in Procs :
                 AbandonCopies(p) /\ UNCHANGED links => StorageTypeOK'
           /\ UNCHANGED <<dirs, links>> => StorageTypeOK'
<1>1. ASSUME NEW b \in Builds, NEW c \in Content, NEW state \in TreeStates,
             SetTree(b, c, state), UNCHANGED links
      PROVE  StorageTypeOK'
  BY <1>1 DEF StorageTypeOK, SetTree
<1>2. ASSUME NEW t \in Tags, NEW c \in Content, NEW target \in Builds \cup {Nil},
             SetLink(t, c, target), UNCHANGED dirs
      PROVE  StorageTypeOK'
  BY <1>2 DEF StorageTypeOK, SetLink
<1>3. ASSUME NEW p \in Procs, AbandonCopies(p), UNCHANGED links
      PROVE  StorageTypeOK'
  <2>1. \A b \in Builds, c \in Content :
           (IF dirs[b][c] = p THEN "partial" ELSE dirs[b][c]) \in TreeStates
    BY DEF StorageTypeOK, TreeStates
  <2> QED
    BY <1>3, <2>1 DEF StorageTypeOK, AbandonCopies
<1>4. UNCHANGED <<dirs, links>> => StorageTypeOK'
  BY DEF StorageTypeOK
<1> QED
  BY <1>1, <1>2, <1>3, <1>4

\* Saving and deleting keep the type of the records.
LEMMA RecordStepType ==
    ASSUME RecordsTypeOK, NEW b \in Builds
    PROVE  /\ \A record \in Record : SaveRecord(b, record) => RecordsTypeOK'
           /\ DeleteRecord(b) => RecordsTypeOK'
           /\ UNCHANGED records => RecordsTypeOK'
           /\ RecordOf(b) \in Record
BY DEF RecordsTypeOK, SaveRecord, DeleteRecord, RecordOf, RecordExists,
       EmptyRecord, Record

\* Beginning a job with a well-typed local state.
LEMMA BeginType ==
    ASSUME TypeOK, NEW p \in Procs, NEW op, NEW b,
           NEW step \in Steps, NEW local \in Job, Begin(p, op, b, step, local)
    PROVE  TypeOK'
<1>1. JobsTypeOK'
  BY ContinueType DEF TypeOK, Begin
<1> QED
  BY <1>1 DEF TypeOK, Begin, StorageTypeOK, RecordsTypeOK

\* Whatever job begins, the types are kept.
LEMMA StartType ==
    ASSUME TypeOK, NEW p \in Procs, Start(p)
    PROVE  TypeOK'
<1>1. PICK b \in BuildsUsed[p] :
         \/ PullBuild(p, b) \/ PublishBuild(p, b) \/ DeleteBuild(p, b)
         \/ PublishMutation(p, b) \/ CreateBuildTag(p, b)
         \/ RemoveBuildTag(p, b) \/ KeepBuild(p, b) \/ ReleaseBuild(p, b)
         \/ CreateNote(p, b) \/ DeleteCommand(p, b)
  BY DEF Start
<1>2. b \in Builds /\ TagsUsed[p] \subseteq Tags
  BY PublisherAssumption
<1> DEFINE J(op) == NewJob(op, b)
<1>3. \A op \in AllOps : J(op) \in Job
  BY <1>2, NewJobType
<1>4. AllOps = {"pull_build", "publish_build", "delete_build", "publish",
                "createBuildTag", "removeBuildTag", "keepBuild",
                "releaseBuild", "createNote", "delete", "delete --force"}
  BY DEF AllOps, Tasks, Mutations, RecordEdits, Commands
<1> HIDE DEF J
<1>5. \A op \in AllOps :
        /\ \A n \in Notes \cup {Nil}, T \in SUBSET Tags :
              [J(op) EXCEPT !.note = n, !.tags = T] \in Job
        /\ \A n \in Notes \cup {Nil} : [J(op) EXCEPT !.note = n] \in Job
        /\ \A T \in SUBSET Tags : [J(op) EXCEPT !.tags = T] \in Job
        /\ \A t \in Tags : [J(op) EXCEPT !.tag = t] \in Job
  BY <1>3, JobFields
<1>6. {"pull", "delete", "publish", "tag", "untag", "edit", "check tags"}
        \subseteq Steps
  BY DEF Steps
<1>7. CASE PullBuild(p, b)
  BY <1>2, <1>4, <1>5, <1>6, <1>7, BeginType DEF PullBuild, J
<1>8. CASE PublishBuild(p, b)
  BY <1>3, <1>4, <1>6, <1>8, BeginType DEF PublishBuild, J
<1>9. CASE DeleteBuild(p, b)
  BY <1>3, <1>4, <1>6, <1>9, BeginType DEF DeleteBuild, J
<1>10. CASE PublishMutation(p, b)
  BY <1>3, <1>4, <1>6, <1>10, BeginType DEF PublishMutation, J
<1>11. CASE CreateBuildTag(p, b)
  BY <1>2, <1>4, <1>5, <1>6, <1>11, BeginType DEF CreateBuildTag, J
<1>12. CASE RemoveBuildTag(p, b)
  BY <1>2, <1>4, <1>5, <1>6, <1>12, BeginType DEF RemoveBuildTag, J
<1>13. CASE KeepBuild(p, b)
  BY <1>3, <1>4, <1>6, <1>13, BeginType DEF KeepBuild, J
<1>14. CASE ReleaseBuild(p, b)
  BY <1>3, <1>4, <1>6, <1>14, BeginType DEF ReleaseBuild, J
<1>15. CASE CreateNote(p, b)
  BY <1>4, <1>5, <1>6, <1>15, BeginType DEF CreateNote, J
<1>16. CASE DeleteCommand(p, b)
  BY <1>3, <1>4, <1>6, <1>16, BeginType DEF DeleteCommand, J, Commands
<1> QED
  BY <1>1, <1>7, <1>8, <1>9, <1>10, <1>11, <1>12, <1>13, <1>14, <1>15, <1>16

\* Every step of a job keeps the types.
LEMMA StepType ==
    ASSUME TypeOK, NEW p \in Procs, Step(p)
    PROVE  TypeOK'
<1> DEFINE j == job[p]
           b == job[p].build
           c == job[p].item
<1>1. pc[p] # "idle"
  BY DEF Step, Pull, Submit, Download, Extract, CopyPath, RemoveTree, Copy,
         CopyTree, NextTag, Metadata, Complete, GbpJson, Publish, Tag, IsLink,
         Unlink, Symlink, CheckTags, Untag, IsSymlink, RemoveLink, Delete,
         DeleteTree, DeleteRmtree, Edit, Save
<1>2. j \in Job /\ JobsTypeOK /\ StorageTypeOK /\ RecordsTypeOK
  BY <1>1 DEF TypeOK, JobsTypeOK
<1>3. /\ b \in Builds /\ c \in Content /\ j.tag \in Tags /\ j.tags \subseteq Tags
      /\ j.op \in AllOps /\ j.record \in Record /\ j.note \in Notes \cup {Nil}
  BY <1>2, JobFields
<1>4. /\ \A r \in Record : [j EXCEPT !.record = r] \in Job
      /\ \A d \in BOOLEAN : [j EXCEPT !.link_dest = d] \in Job
      /\ \A d \in BOOLEAN : [j EXCEPT !.publishing = d] \in Job
      /\ \A T \in SUBSET Tags : [j EXCEPT !.tags = T] \in Job
      /\ \A t \in Tags, T \in SUBSET Tags :
            [j EXCEPT !.tag = t, !.tags = T] \in Job
  BY <1>2, JobFields
<1>5. /\ AfterPull(j) \in Steps \cup {"idle"}
      /\ AfterTag(j) \in Steps \cup {"idle"}
  BY DEF AfterPull, AfterTag, Steps
<1>6. /\ \A next \in Steps \cup {"idle"} : Goto(p, next) => JobsTypeOK'
      /\ \A body, after \in Steps \cup {"idle"} :
            NextItem(p, body, after) => JobsTypeOK'
      /\ Raise(p) => JobsTypeOK'
      /\ \A next \in Steps \cup {"idle"}, local \in Job :
            Continue(p, next, local) => JobsTypeOK'
  BY <1>1, <1>2, ControlType, ContinueType
<1>7. /\ \A state \in TreeStates :
            SetTree(b, c, state) /\ UNCHANGED links => StorageTypeOK'
      /\ \A target \in Builds \cup {Nil} :
            SetLink(j.tag, c, target) /\ UNCHANGED dirs => StorageTypeOK'
      /\ AbandonCopies(p) /\ UNCHANGED links => StorageTypeOK'
      /\ UNCHANGED <<dirs, links>> => StorageTypeOK'
  BY <1>2, <1>3, StorageStepType
<1>8. /\ \A record \in Record : SaveRecord(b, record) => RecordsTypeOK'
      /\ DeleteRecord(b) => RecordsTypeOK'
      /\ UNCHANGED records => RecordsTypeOK'
      /\ RecordOf(b) \in Record
  BY <1>2, <1>3, RecordStepType
<1>9. {"absent", "partial", "whole", p} \subseteq TreeStates
  BY DEF TreeStates
<1> HIDE DEF j, b, c
<1>10. SUFFICES ASSUME TRUE
                PROVE  /\ StorageTypeOK' /\ RecordsTypeOK' /\ JobsTypeOK'
                       /\ UNCHANGED crashes
  BY DEF TypeOK
<1>11. CASE Pull(p)
  BY <1>4, <1>5, <1>6, <1>7, <1>8, <1>11 DEF Pull, Steps, j, b
<1>12. CASE Submit(p)
  <2>1. [j.record EXCEPT !.note = j.note] \in Record
    BY <1>3 DEF Record
  <2> QED
    BY <2>1, <1>4, <1>6, <1>7, <1>8, <1>12 DEF Submit, Steps, j, b
<1>13. CASE Download(p)
  <2>1. HasPrevious(b, j.record) \in BOOLEAN
    BY DEF HasPrevious
  <2> QED
    BY <2>1, <1>4, <1>6, <1>7, <1>8, <1>13 DEF Download, Steps, j, b
<1>14. CASE Extract(p)
  BY <1>6, <1>7, <1>8, <1>14 DEF Extract, Steps
<1>15. CASE CopyPath(p)
  BY <1>6, <1>7, <1>8, <1>9, <1>15 DEF CopyPath, Steps, b, c
<1>16. CASE RemoveTree(p)
  BY <1>6, <1>7, <1>8, <1>9, <1>16 DEF RemoveTree, Steps, b, c
<1>17. CASE Copy(p)
  BY <1>6, <1>7, <1>8, <1>9, <1>17 DEF Copy, Steps, b, c
<1>18. CASE CopyTree(p)
  BY <1>6, <1>7, <1>8, <1>9, <1>18 DEF CopyTree, Steps, b, c
<1>19. CASE NextTag(p)
  BY <1>3, <1>4, <1>6, <1>7, <1>8, <1>19 DEF NextTag, Steps, j
<1>20. CASE Metadata(p)
  BY <1>6, <1>7, <1>8, <1>20 DEF Metadata, Steps
<1>21. CASE Complete(p)
  <2>1. [j.record EXCEPT !.completed = TRUE] \in Record
    BY <1>3 DEF Record
  <2> QED
    BY <2>1, <1>6, <1>7, <1>8, <1>21 DEF Complete, Steps, j, b
<1>22. CASE GbpJson(p)
  BY <1>5, <1>6, <1>7, <1>8, <1>22 DEF GbpJson, j
<1>23. CASE Publish(p)
  BY <1>4, <1>6, <1>7, <1>8, <1>23 DEF Publish, Steps, j
<1>24. CASE Tag(p)
  BY <1>6, <1>7, <1>8, <1>24 DEF Tag, Steps
<1>25. CASE IsLink(p)
  BY <1>6, <1>7, <1>8, <1>25 DEF IsLink, Steps
<1>26. CASE Unlink(p)
  BY <1>6, <1>7, <1>8, <1>26 DEF Unlink, Steps, j, c
<1>27. CASE Symlink(p)
  BY <1>3, <1>5, <1>6, <1>7, <1>8, <1>27 DEF Symlink, Steps, j, b, c
<1>28. CASE CheckTags(p)
  <2>1. TagsOf(b) \in SUBSET Tags
    BY DEF TagsOf
  <2> QED
    BY <2>1, <1>4, <1>6, <1>7, <1>8, <1>28 DEF CheckTags, Steps, j, b
<1>29. CASE Untag(p)
  BY <1>3, <1>4, <1>6, <1>7, <1>8, <1>29 DEF Untag, Steps, j
<1>30. CASE IsSymlink(p)
  BY <1>6, <1>7, <1>8, <1>30 DEF IsSymlink, Steps
<1>31. CASE RemoveLink(p)
  BY <1>6, <1>7, <1>8, <1>31 DEF RemoveLink, Steps, j, c
<1>32. CASE Delete(p)
  BY <1>6, <1>7, <1>8, <1>32 DEF Delete, Steps, b
<1>33. CASE DeleteTree(p)
  BY <1>6, <1>7, <1>8, <1>9, <1>33 DEF DeleteTree, Steps, b, c
<1>34. CASE DeleteRmtree(p)
  BY <1>6, <1>7, <1>8, <1>9, <1>34 DEF DeleteRmtree, Steps, b, c
<1>35. CASE Edit(p)
  <2>1. RecordExists(b) => records[b] \in Record
    BY <1>2, <1>3 DEF RecordsTypeOK, RecordExists
  <2> QED
    BY <2>1, <1>4, <1>6, <1>7, <1>8, <1>35 DEF Edit, Steps, j, b
<1>36. CASE Save(p)
  <2>1. Edited(j) \in Record
    BY <1>3 DEF Edited, Record
  <2> QED
    BY <2>1, <1>6, <1>7, <1>8, <1>36 DEF Save, Steps, j, b
<1> QED
  BY <1>11, <1>12, <1>13, <1>14, <1>15, <1>16, <1>17, <1>18, <1>19, <1>20,
     <1>21, <1>22, <1>23, <1>24, <1>25, <1>26, <1>27, <1>28, <1>29, <1>30,
     <1>31, <1>32, <1>33, <1>34, <1>35, <1>36 DEF Step

\* A crash keeps the types.
LEMMA CrashType ==
    ASSUME TypeOK, NEW p \in Procs, Crash(p)
    PROVE  TypeOK'
<1>1. JobsTypeOK'
  BY ControlType DEF TypeOK, Crash
<1>2. StorageTypeOK'
  BY StorageStepType DEF TypeOK, Crash
<1>3. crashes' \in 0..MaxCrashes
  BY PublisherAssumption DEF TypeOK, Crash
<1> QED
  BY <1>1, <1>2, <1>3 DEF TypeOK, Crash, RecordsTypeOK

\* The initial state is well-typed.
LEMMA InitType ==
    ASSUME Init
    PROVE  TypeOK
<1>1. StorageTypeOK
  BY DEF Init, StorageInit, StorageTypeOK, TreeStates
<1>2. RecordsTypeOK
  BY DEF Init, RecordsInit, RecordsTypeOK
<1>3. JobsTypeOK
  BY DEF Init, JobsTypeOK
<1>4. crashes \in 0..MaxCrashes
  BY PublisherAssumption DEF Init
<1> QED
  BY <1>1, <1>2, <1>3, <1>4 DEF TypeOK

\* A step keeps the types.
LEMMA NextType ==
    ASSUME TypeOK, [Next]_vars
    PROVE  TypeOK'
<1>1. CASE Next
  BY <1>1, StartType, StepType, CrashType DEF Next
<1>2. CASE UNCHANGED vars
  BY <1>2 DEF vars, TypeOK, StorageTypeOK, RecordsTypeOK, JobsTypeOK
<1> QED
  BY <1>1, <1>2

\* Type correctness, whatever processes exist, whatever they are used for
\* and however they interleave or crash.
THEOREM TypeCorrect == Spec => []TypeOK
<1>1. Init => TypeOK
  BY InitType
<1>2. TypeOK /\ [Next]_vars => TypeOK'
  BY NextType
<1> QED
  BY <1>1, <1>2, PTL DEF Spec

(***************************************************************************)
(* Storage and records agree                                               *)
(***************************************************************************)

\* What Continue() makes of pc and job.
LEMMA ContinueValue ==
    ASSUME JobsTypeOK, NEW p \in Procs, NEW next, NEW local,
           Continue(p, next, local)
    PROVE  /\ pc'[p] = next
           /\ next # "idle" => job'[p] = local
           /\ \A q \in Procs \ {p} : pc'[q] = pc[q] /\ job'[q] = job[q]
BY DEF JobsTypeOK, Continue

\* What saving and deleting make of the records.
LEMMA SaveValue ==
    ASSUME RecordsTypeOK, NEW b \in Builds
    PROVE  /\ \A record : SaveRecord(b, record) =>
                 /\ records'[b] = record
                 /\ \A other \in Builds \ {b} : records'[other] = records[other]
           /\ DeleteRecord(b) =>
                 /\ records'[b] = Nil
                 /\ \A other \in Builds \ {b} : records'[other] = records[other]
BY DEF RecordsTypeOK, SaveRecord, DeleteRecord

\* A step that takes p, which works on b, from one shape of b to another, or
\* leaves b settled, and touches nothing else, preserves the invariant.
LEMMA Frame ==
    ASSUME Inv, Orderly, TypeOK', NEW p \in Procs, NEW b \in Builds,
           WorksOn(p, b),
           \A q \in Procs \ {p} : pc'[q] = pc[q] /\ job'[q] = job[q],
           \A other \in Builds \ {b} :
              dirs'[other] = dirs[other] /\ records'[other] = records[other],
           pc'[p] = "idle" => IsSettled(dirs'[b], records'[b]),
           pc'[p] # "idle" => /\ job'[p].op \notin TagOps
                              /\ job'[p].build = b
                              /\ Shape(pc'[p], job'[p], p, dirs'[b], records'[b])
    PROVE  Inv'
<1>1. InShape(p)'
  BY DEF InShape
<1>2. ASSUME NEW q \in Procs \ {p}
      PROVE  InShape(q)'
  <2>1. InShape(q)
    BY DEF Inv
  <2>2. CASE pc[q] = "idle" \/ job[q].op \in TagOps
    BY <2>1, <2>2 DEF InShape
  <2>3. CASE pc[q] # "idle" /\ job[q].op \notin TagOps
    <3>1. job[q].build \in Builds \ {b}
      <4>1. job[q].build \in Builds
        BY <2>3, JobFields DEF Inv, TypeOK, JobsTypeOK
      <4>2. job[q].build # b
        BY <2>3 DEF Orderly, WorksOn
      <4> QED
        BY <4>1, <4>2
    <3> QED
      BY <2>1, <2>3, <3>1 DEF InShape
  <2> QED
    BY <2>2, <2>3
<1>3. ASSUME NEW other \in Builds, \A q \in Procs : ~WorksOn(q, other)'
      PROVE  IsSettled(dirs'[other], records'[other])
  <2>1. CASE other = b
    BY <1>3, <2>1 DEF WorksOn
  <2>2. CASE other # b
    <3>1. \A q \in Procs : ~WorksOn(q, other)
      BY <1>3, <2>2 DEF WorksOn
    <3> QED
      BY <2>2, <3>1 DEF Inv, SettledAtRest
  <2> QED
    BY <2>1, <2>2
<1> QED
  BY <1>1, <1>2, <1>3 DEF Inv, SettledAtRest

\* What Goto(), NextItem() and Raise() make of p's step and local state.
LEMMA ControlValue ==
    ASSUME JobsTypeOK, NEW p \in Procs, pc[p] # "idle"
    PROVE  /\ \A next : Goto(p, next) =>
                 /\ pc'[p] = next /\ (next # "idle" => job'[p] = job[p])
                 /\ \A q \in Procs \ {p} : pc'[q] = pc[q] /\ job'[q] = job[q]
           /\ \A body, after : NextItem(p, body, after) =>
                 /\ IF job[p].item < N
                    THEN /\ pc'[p] = body
                         /\ body # "idle" =>
                              job'[p] = [job[p] EXCEPT !.item = job[p].item + 1]
                    ELSE /\ pc'[p] = after
                         /\ after # "idle" => job'[p] = [job[p] EXCEPT !.item = 1]
                 /\ \A q \in Procs \ {p} : pc'[q] = pc[q] /\ job'[q] = job[q]
           /\ Raise(p) =>
                 /\ pc'[p] = Handler(job[p])
                 /\ Handler(job[p]) # "idle" =>
                      job'[p] = [job[p] EXCEPT !.item = 1]
                 /\ \A q \in Procs \ {p} : pc'[q] = pc[q] /\ job'[q] = job[q]
<1>1. ASSUME NEW next, Goto(p, next)
      PROVE  /\ pc'[p] = next /\ (next # "idle" => job'[p] = job[p])
             /\ \A q \in Procs \ {p} : pc'[q] = pc[q] /\ job'[q] = job[q]
  BY <1>1, ContinueValue DEF Goto
<1>2. ASSUME NEW body, NEW after, NextItem(p, body, after)
      PROVE  /\ IF job[p].item < N
                THEN /\ pc'[p] = body
                     /\ body # "idle" =>
                          job'[p] = [job[p] EXCEPT !.item = job[p].item + 1]
                ELSE /\ pc'[p] = after
                     /\ after # "idle" => job'[p] = [job[p] EXCEPT !.item = 1]
             /\ \A q \in Procs \ {p} : pc'[q] = pc[q] /\ job'[q] = job[q]
  BY <1>2, ContinueValue DEF NextItem
<1>3. ASSUME Raise(p)
      PROVE  /\ pc'[p] = Handler(job[p])
             /\ Handler(job[p]) # "idle" =>
                  job'[p] = [job[p] EXCEPT !.item = 1]
             /\ \A q \in Procs \ {p} : pc'[q] = pc[q] /\ job'[q] = job[q]
  BY <1>3, ContinueValue DEF Raise
<1> QED
  BY <1>1, <1>2, <1>3

\* Frame, for a step that ends with Goto().
LEMMA GotoFrame ==
    ASSUME Inv, Orderly, TypeOK', NEW p \in Procs, NEW b \in Builds,
           WorksOn(p, b), NEW next, Goto(p, next),
           \A other \in Builds \ {b} :
              dirs'[other] = dirs[other] /\ records'[other] = records[other],
           next = "idle" => IsSettled(dirs'[b], records'[b]),
           next # "idle" => Shape(next, job[p], p, dirs'[b], records'[b])
    PROVE  Inv'
<1>1. JobsTypeOK /\ pc[p] # "idle" /\ job[p].op \notin TagOps /\ job[p].build = b
  BY DEF Inv, TypeOK, WorksOn
<1>2. /\ pc'[p] = next /\ (next # "idle" => job'[p] = job[p])
      /\ \A q \in Procs \ {p} : pc'[q] = pc[q] /\ job'[q] = job[q]
  BY <1>1, ControlValue
<1> QED
  BY <1>1, <1>2, Frame

\* Frame, for a step that ends with NextItem().
LEMMA NextItemFrame ==
    ASSUME Inv, Orderly, TypeOK', NEW p \in Procs, NEW b \in Builds,
           WorksOn(p, b), NEW body, NEW after, NextItem(p, body, after),
           \A other \in Builds \ {b} :
              dirs'[other] = dirs[other] /\ records'[other] = records[other],
           body # "idle",
           job[p].item < N =>
              Shape(body, [job[p] EXCEPT !.item = job[p].item + 1], p,
                    dirs'[b], records'[b]),
           ~(job[p].item < N) /\ after # "idle" =>
              Shape(after, [job[p] EXCEPT !.item = 1], p, dirs'[b], records'[b]),
           ~(job[p].item < N) /\ after = "idle" =>
              IsSettled(dirs'[b], records'[b])
    PROVE  Inv'
<1>1. /\ JobsTypeOK /\ pc[p] # "idle" /\ job[p] \in Job
      /\ job[p].op \notin TagOps /\ job[p].build = b
  BY DEF Inv, TypeOK, JobsTypeOK, WorksOn
<1>2. \A i : /\ [job[p] EXCEPT !.item = i].op = job[p].op
             /\ [job[p] EXCEPT !.item = i].build = b
  BY <1>1 DEF Job
<1>3. /\ IF job[p].item < N
         THEN /\ pc'[p] = body
              /\ body # "idle" =>
                   job'[p] = [job[p] EXCEPT !.item = job[p].item + 1]
         ELSE /\ pc'[p] = after
              /\ after # "idle" => job'[p] = [job[p] EXCEPT !.item = 1]
      /\ \A q \in Procs \ {p} : pc'[q] = pc[q] /\ job'[q] = job[q]
  BY <1>1, ControlValue
<1>4. CASE job[p].item < N
  <2> DEFINE local == [job[p] EXCEPT !.item = job[p].item + 1]
  <2>1. /\ pc'[p] = body /\ job'[p] = local
        /\ local.op \notin TagOps /\ local.build = b
        /\ Shape(body, local, p, dirs'[b], records'[b])
    BY <1>1, <1>2, <1>3, <1>4
  <2> HIDE DEF local
  <2> QED
    BY <1>3, <2>1, Frame
<1>5. CASE ~(job[p].item < N) /\ after # "idle"
  <2> DEFINE local == [job[p] EXCEPT !.item = 1]
  <2>1. /\ pc'[p] = after /\ job'[p] = local
        /\ local.op \notin TagOps /\ local.build = b
        /\ Shape(after, local, p, dirs'[b], records'[b])
    BY <1>1, <1>2, <1>3, <1>5
  <2> HIDE DEF local
  <2> QED
    BY <1>3, <1>5, <2>1, Frame
<1>6. CASE ~(job[p].item < N) /\ after = "idle"
  BY <1>1, <1>3, <1>6, Frame
<1> QED
  BY <1>4, <1>5, <1>6

\* Frame, for a step of pull_build() or publish_build() that raises while
\* the build is not published: the cleanup begins.
LEMMA RaiseFrame ==
    ASSUME Inv, Orderly, TypeOK', NEW p \in Procs, NEW b \in Builds,
           WorksOn(p, b), Raise(p), Handler(job[p]) = "delete",
           \A other \in Builds \ {b} :
              dirs'[other] = dirs[other] /\ records'[other] = records[other],
           IsCompleted(records'[b]) => Whole(dirs'[b])
    PROVE  Inv'
<1> DEFINE local == [job[p] EXCEPT !.item = 1]
<1>1. /\ JobsTypeOK /\ pc[p] # "idle" /\ job[p] \in Job
      /\ job[p].op \notin TagOps /\ job[p].build = b
  BY DEF Inv, TypeOK, JobsTypeOK, WorksOn
<1>2. local.op = job[p].op /\ local.build = b /\ local.item = 1
  BY <1>1 DEF Job
<1>3. /\ pc'[p] = "delete" /\ job'[p] = local
      /\ \A q \in Procs \ {p} : pc'[q] = pc[q] /\ job'[q] = job[q]
  BY <1>1, ControlValue
<1>4. Shape("delete", local, p, dirs'[b], records'[b])
  BY <1>2 DEF Shape, LoopSteps, PullSteps, SetTagSteps, UntagSteps
<1> QED
  BY <1>1, <1>2, <1>3, <1>4, Frame

\* A step of pull() before any tree is written.
LEMMA PullBegins ==
    ASSUME Inv, Orderly, TypeOK', NEW p \in Procs, NEW b \in Builds,
           WorksOn(p, b),
           Pull(p) \/ Submit(p) \/ Download(p) \/ Extract(p)
    PROVE  Inv'
<1> DEFINE j == job[p]
<1>1. /\ JobsTypeOK /\ StorageTypeOK /\ RecordsTypeOK /\ pc[p] # "idle"
      /\ j \in Job /\ j.build = b /\ j.op \notin TagOps
  BY DEF Inv, TypeOK, JobsTypeOK, WorksOn
<1>2. Shape(pc[p], j, p, dirs[b], records[b])
  BY <1>1 DEF Inv, InShape
<1>3. N \in Nat \ {0} /\ 1 \in Content
  BY ContentBounds
<1>4. CASE Pull(p)
  <2>1. CASE Pulled(b)
    <3>1. IsCompleted(records[b]) /\ Whole(dirs[b])
      BY <1>1, <1>2, <1>4, <2>1, <1>3
         DEF Shape, Pull, Pulled, RecordOf, RecordExists, EmptyRecord,
             IsSettled, IsCompleted
    <3>2. Goto(p, AfterPull(j)) /\ UNCHANGED <<dirs, records>>
      BY <1>1, <1>4, <2>1 DEF Pull
    <3>3. \/ AfterPull(j) = "publish" /\ j.op = "publish_build"
          \/ AfterPull(j) = "idle"
      BY <1>2, <1>4 DEF Shape, PullSteps, Pull, AfterPull
    <3>4. CASE AfterPull(j) = "idle"
      BY <3>1, <3>2, <3>4, GotoFrame DEF IsSettled
    <3>5. CASE AfterPull(j) = "publish" /\ j.op = "publish_build"
      <4>1. Shape("publish", j, p, dirs[b], records[b])
        BY <1>2, <1>4, <3>1, <3>5
           DEF Pull, Shape, LoopSteps, PullSteps, SetTagSteps, UntagSteps
      <4> QED
        BY <3>2, <3>5, <4>1, GotoFrame
    <3> QED
      BY <3>3, <3>4, <3>5
  <2>2. CASE ~Pulled(b)
    <3>1. records[b] = Nil /\ Gone(dirs[b])
      BY <1>1, <1>2, <1>4, <2>2, <1>3
         DEF Shape, Pull, Pulled, StoragePulled, Exists, RecordOf,
             RecordExists, IsSettled, IsCompleted, Whole
    <3>2. /\ pc'[p] = "submit"
          /\ job'[p] = [j EXCEPT !.record = EmptyRecord]
          /\ \A q \in Procs \ {p} : pc'[q] = pc[q] /\ job'[q] = job[q]
          /\ UNCHANGED <<dirs, records>>
      BY <1>1, <1>4, <2>2, <3>1, ContinueValue DEF Pull, RecordOf, RecordExists
    <3>3. /\ job'[p].op = j.op /\ job'[p].build = b
          /\ job'[p].publishing = j.publishing /\ job'[p].item = j.item
          /\ job'[p].tags = j.tags
          /\ ~job'[p].record.completed
      BY <1>1, <3>2 DEF Job, EmptyRecord
    <3>4. Shape("submit", job'[p], p, dirs[b], records[b])
      BY <1>2, <1>4, <3>1, <3>3
         DEF Shape, Pull, LoopSteps, PullSteps, SetTagSteps, UntagSteps
    <3> QED
      BY <1>1, <3>2, <3>3, <3>4, Frame
  <2> QED
    BY <2>1, <2>2
<1>5. CASE Submit(p)
  <2> DEFINE record == [j.record EXCEPT !.note = j.note]
  <2>1. /\ pc'[p] = "download" /\ job'[p] = [j EXCEPT !.record = record]
        /\ \A q \in Procs \ {p} : pc'[q] = pc[q] /\ job'[q] = job[q]
        /\ records'[b] = record
        /\ \A other \in Builds \ {b} : records'[other] = records[other]
        /\ UNCHANGED dirs
    BY <1>1, <1>5, ContinueValue, SaveValue DEF Submit
  <2>2. /\ Gone(dirs[b]) /\ ~record.completed /\ record # Nil
    <3>1. record \in Record
      BY <1>1 DEF Job, Record
    <3> QED
      BY <1>1, <1>2, <1>5, <3>1, RecordsAssumption DEF Shape, Submit, Job, Record
  <2>3. /\ job'[p].op = j.op /\ job'[p].build = b
        /\ job'[p].publishing = j.publishing /\ job'[p].item = j.item
        /\ job'[p].tags = j.tags
        /\ ~job'[p].record.completed
    BY <1>1, <2>1, <2>2 DEF Job
  <2>4. Shape("download", job'[p], p, dirs'[b], records'[b])
    BY <1>2, <1>5, <2>1, <2>2, <2>3
       DEF Shape, Submit, LoopSteps, PullSteps, SetTagSteps, UntagSteps, Pulling
  <2> QED
    BY <1>1, <2>1, <2>3, <2>4, Frame
<1>6. ASSUME Raise(p), UNCHANGED <<dirs, records>>, pc[p] \in {"download", "extract"}
      PROVE  Inv'
  <2>1. Handler(j) = "delete" /\ ~IsCompleted(records[b])
    BY <1>2, <1>6 DEF Shape, PullSteps, Handler, Pulling, IsCompleted
  <2> QED
    BY <1>6, <2>1, RaiseFrame
<1>7. CASE Download(p)
  <2>1. CASE Raise(p)
    BY <1>6, <1>7, <2>1 DEF Download
  <2>2. CASE Continue(p, "extract", [j EXCEPT !.link_dest =
                                        HasPrevious(j.build, j.record)])
    <3>1. /\ pc'[p] = "extract"
          /\ job'[p] = [j EXCEPT !.link_dest = HasPrevious(j.build, j.record)]
          /\ \A q \in Procs \ {p} : pc'[q] = pc[q] /\ job'[q] = job[q]
          /\ UNCHANGED <<dirs, records>>
      BY <1>1, <1>7, <2>2, ContinueValue DEF Download
    <3>2. /\ job'[p].op = j.op /\ job'[p].build = b
          /\ job'[p].publishing = j.publishing /\ job'[p].item = j.item
          /\ job'[p].tags = j.tags
          /\ job'[p].record = j.record
      BY <1>1, <3>1 DEF Job
    <3>3. Shape("extract", job'[p], p, dirs'[b], records'[b])
      BY <1>2, <1>7, <3>1, <3>2
         DEF Shape, Download, LoopSteps, PullSteps, SetTagSteps, UntagSteps, Pulling
    <3> QED
      BY <1>1, <3>1, <3>2, <3>3, Frame
  <2> QED
    BY <1>7, <2>1, <2>2 DEF Download
<1>8. CASE Extract(p)
  <2>1. ~StoragePulled(b)
    BY <1>2, <1>3, <1>8 DEF Extract, Shape, StoragePulled, Exists, Gone
  <2>2. CASE Raise(p)
    BY <1>6, <1>8, <2>2 DEF Extract
  <2>3. CASE Goto(p, "copy_path")
    <3>1. UNCHANGED <<dirs, records>>
      BY <1>8 DEF Extract
    <3>2. j.item = 1 /\ Split(dirs[b], 1, "whole", "absent")
      BY <1>2, <1>3, <1>8
         DEF Shape, Extract, LoopSteps, Gone, Split, Content
    <3>3. Shape("copy_path", j, p, dirs[b], records[b])
      BY <1>2, <1>3, <1>8, <3>2
         DEF Shape, Extract, LoopSteps, PullSteps, SetTagSteps, UntagSteps, Gone
    <3> QED
      BY <2>3, <3>1, <3>3, GotoFrame
  <2> QED
    BY <1>1, <1>8, <2>1, <2>2, <2>3 DEF Extract
<1> QED
  BY <1>4, <1>5, <1>7, <1>8

\* One more content type reaches the state of those before it.
LEMMA SplitAdvances ==
    ASSUME NEW old, NEW new, NEW item \in Content, NEW before, NEW after,
           Split(old, item, before, after), new[item] = before,
           \A c \in Content \ {item} : new[c] = old[c]
    PROVE  /\ item < N => /\ item + 1 \in Content
                          /\ Split(new, item + 1, before, after)
                          /\ new[item + 1] = after
           /\ ~(item < N) => \A c \in Content : new[c] = before
<1>1. N \in Nat /\ \A c \in Content : c \in Nat /\ c <= N
  BY ContentBounds DEF Content
<1>2. \A c \in Content : c < N => c + 1 \in Content
  BY ContentBounds
<1> QED
  BY <1>1, <1>2 DEF Split

\* A step of pull() that writes the trees.
LEMMA PullCopies ==
    ASSUME Inv, Orderly, TypeOK', NEW p \in Procs, NEW b \in Builds,
           WorksOn(p, b),
           CopyPath(p) \/ RemoveTree(p) \/ Copy(p) \/ CopyTree(p)
    PROVE  Inv'
<1> DEFINE j == job[p]
           c == job[p].item
<1>1. /\ StorageTypeOK /\ j \in Job /\ j.build = b
  BY DEF Inv, TypeOK, JobsTypeOK, WorksOn
<1>2. Shape(pc[p], j, p, dirs[b], records[b])
  BY <1>1 DEF Inv, InShape, WorksOn
<1>3. c \in Content
  BY <1>1, JobFields
<1>4. ~RemoveTree(p)
  BY <1>2 DEF Shape, RemoveTree
<1>5. pc[p] \in {"copy_path", "copy", "copytree"}
  BY <1>4 DEF CopyPath, Copy, CopyTree
<1>6. /\ Pulling(j, records[b]) /\ Split(dirs[b], c, "whole", "absent")
      /\ Handler(j) = "delete"
  BY <1>2, <1>5 DEF Shape, PullSteps, Handler
<1>7. /\ j.op \in {"pull_build", "publish_build"} /\ ~j.publishing
      /\ j.op = "publish_build" => j.tags = {}
  BY <1>2, <1>5 DEF Shape, PullSteps
<1>8. UNCHANGED records
  BY <1>4 DEF CopyPath, Copy, CopyTree
<1>9. ASSUME SetTree(b, c, "whole"), NextItem(p, "copy_path", "tags")
      PROVE  Inv'
  <2>1. /\ dirs'[b][c] = "whole"
        /\ \A d \in Content \ {c} : dirs'[b][d] = dirs[b][d]
        /\ \A other \in Builds \ {b} : dirs'[other] = dirs[other]
    BY <1>1, <1>3, <1>9 DEF SetTree, StorageTypeOK
  <2>2. /\ c < N => /\ Split(dirs'[b], c + 1, "whole", "absent")
                    /\ dirs'[b][c + 1] = "absent"
        /\ ~(c < N) => Whole(dirs'[b])
    BY <1>3, <1>6, <2>1, SplitAdvances DEF Whole
  <2>3. c < N => Shape("copy_path", [j EXCEPT !.item = c + 1], p,
                       dirs'[b], records'[b])
    <3> DEFINE local == [j EXCEPT !.item = c + 1]
    <3>1. /\ local.item = c + 1 /\ local.op = j.op
          /\ local.publishing = j.publishing /\ local.record = j.record
          /\ local.tags = j.tags
      BY <1>1 DEF Job
    <3> HIDE DEF local
    <3>2. c < N => Shape("copy_path", local, p, dirs'[b], records'[b])
      BY <1>6, <1>7, <1>8, <2>2, <3>1
         DEF Shape, LoopSteps, PullSteps, SetTagSteps, UntagSteps, Pulling
    <3> QED
      BY <3>2 DEF local
  <2>4. ~(c < N) => Shape("tags", [j EXCEPT !.item = 1], p,
                          dirs'[b], records'[b])
    <3> DEFINE local == [j EXCEPT !.item = 1]
    <3>1. /\ local.item = 1 /\ local.op = j.op
          /\ local.publishing = j.publishing /\ local.record = j.record
          /\ local.tags = j.tags
      BY <1>1 DEF Job
    <3> HIDE DEF local
    <3>2. ~(c < N) => Shape("tags", local, p, dirs'[b], records'[b])
      BY <1>6, <1>7, <1>8, <2>2, <3>1
         DEF Shape, LoopSteps, PullSteps, SetTagSteps, UntagSteps, Pulling
    <3> QED
      BY <3>2 DEF local
  <2> QED
    BY <1>8, <1>9, <2>1, <2>3, <2>4, NextItemFrame
<1>10. CASE CopyPath(p)
  <2>1. ~Exists(b, c)
    BY <1>2, <1>10 DEF Shape, CopyPath, Exists
  <2>2. UNCHANGED dirs /\ Goto(p, "copy")
    BY <1>1, <1>10, <2>1 DEF CopyPath
  <2>3. Shape("copy", j, p, dirs[b], records[b])
    BY <1>2, <1>10
       DEF CopyPath, Shape, LoopSteps, PullSteps, SetTagSteps, UntagSteps
  <2> QED
    BY <1>8, <2>2, <2>3, GotoFrame
<1>11. CASE Copy(p)
  <2>1. CASE SetTree(b, c, "whole") /\ NextItem(p, "copy_path", "tags")
    BY <1>9, <2>1
  <2>2. CASE SetTree(b, c, p) /\ Goto(p, "copytree")
    <3>1. /\ dirs'[b][c] = p
          /\ \A d \in Content \ {c} : dirs'[b][d] = dirs[b][d]
          /\ \A other \in Builds \ {b} : dirs'[other] = dirs[other]
      BY <1>1, <1>3, <2>2 DEF SetTree, StorageTypeOK
    <3>2. Split(dirs'[b], c, "whole", "absent")
      <4>1. \A d \in Content : d < c \/ d > c => d # c
        BY <1>3, ContentBounds DEF Content
      <4> QED
        BY <1>6, <3>1, <4>1 DEF Split
    <3>3. Shape("copytree", j, p, dirs'[b], records'[b])
      BY <1>6, <1>7, <1>8, <3>1, <3>2
         DEF Shape, LoopSteps, PullSteps, SetTagSteps, UntagSteps
    <3> QED
      BY <1>8, <2>2, <3>1, <3>3, GotoFrame
  <2>3. CASE UNCHANGED dirs /\ Raise(p)
    BY <1>6, <1>8, <2>3, RaiseFrame DEF Pulling, IsCompleted
  <2> QED
    BY <1>1, <1>11, <2>1, <2>2, <2>3 DEF Copy
<1>12. CASE CopyTree(p)
  <2>1. dirs[b][c] = p
    BY <1>2, <1>12 DEF Shape, CopyTree
  <2>2. CASE SetTree(b, c, "whole") /\ NextItem(p, "copy_path", "tags")
    BY <1>9, <2>2
  <2>3. CASE SetTree(b, c, "partial") /\ Raise(p)
    <3>1. \A other \in Builds \ {b} : dirs'[other] = dirs[other]
      BY <1>1, <1>3, <2>3 DEF SetTree, StorageTypeOK
    <3> QED
      BY <1>6, <1>8, <2>3, <3>1, RaiseFrame DEF Pulling, IsCompleted
  <2> QED
    BY <1>1, <1>12, <2>1, <2>2, <2>3 DEF CopyTree
<1> QED
  BY <1>4, <1>10, <1>11, <1>12

\* A step of pull() after the trees are whole.
LEMMA PullEnds ==
    ASSUME Inv, Orderly, TypeOK', NEW p \in Procs, NEW b \in Builds,
           WorksOn(p, b),
           NextTag(p) \/ Metadata(p) \/ Complete(p) \/ GbpJson(p)
    PROVE  Inv'
<1> DEFINE j == job[p]
<1>1. /\ JobsTypeOK /\ RecordsTypeOK /\ j \in Job /\ j.build = b
      /\ j.op \notin TagOps
  BY DEF Inv, TypeOK, JobsTypeOK, WorksOn
<1>2. Shape(pc[p], j, p, dirs[b], records[b])
  BY <1>1 DEF Inv, InShape, WorksOn
<1>3. pc[p] \in {"tags", "metadata", "complete", "gbp.json"} /\ UNCHANGED dirs
  BY DEF NextTag, Metadata, Complete, GbpJson
<1>4. /\ Whole(dirs[b]) /\ Handler(j) = "delete" /\ j.item = 1
      /\ j.op \in {"pull_build", "publish_build"} /\ ~j.publishing
      /\ j.op = "publish_build" => j.tags = {}
  BY <1>2, <1>3 DEF Shape, LoopSteps, PullSteps, Handler
<1>5. CASE NextTag(p)
  <2>1. Pulling(j, records[b]) /\ UNCHANGED records
    BY <1>2, <1>5 DEF Shape, NextTag
  <2>2. CASE j.tags = {}
    <3>1. Shape("metadata", j, p, dirs[b], records[b])
      BY <1>4, <2>1
         DEF Shape, LoopSteps, PullSteps, SetTagSteps, UntagSteps
    <3> QED
      BY <1>3, <1>5, <2>1, <2>2, <3>1, GotoFrame DEF NextTag
  <2>3. CASE j.tags # {}
    <3>1. PICK tag \in j.tags :
             Continue(p, "tag", [j EXCEPT !.tag = tag, !.tags = @ \ {tag}])
      BY <1>5, <2>3 DEF NextTag
    <3> DEFINE local == [j EXCEPT !.tag = tag, !.tags = @ \ {tag}]
    <3>2. /\ local.item = 1 /\ local.op = j.op /\ local.build = b
          /\ local.publishing = j.publishing /\ local.record = j.record
      BY <1>1, <1>4 DEF Job
    <3>3. /\ pc'[p] = "tag" /\ job'[p] = local
          /\ \A q \in Procs \ {p} : pc'[q] = pc[q] /\ job'[q] = job[q]
      BY <1>1, <3>1, ContinueValue
    <3>4. j.op = "pull_build"
      BY <1>4, <2>3
    <3> HIDE DEF local
    <3>5. Shape("tag", local, p, dirs[b], records[b])
      BY <1>4, <2>1, <3>2, <3>4
         DEF Shape, LoopSteps, PullSteps, SetTagSteps, UntagSteps, Pulling
    <3> QED
      BY <1>1, <1>3, <2>1, <3>2, <3>3, <3>5, Frame
  <2> QED
    BY <2>2, <2>3
<1>6. CASE Metadata(p)
  <2>1. Pulling(j, records[b]) /\ UNCHANGED records
    BY <1>2, <1>6 DEF Shape, Metadata
  <2>2. CASE Goto(p, "complete")
    <3>1. Shape("complete", j, p, dirs[b], records[b])
      BY <1>4, <2>1
         DEF Shape, LoopSteps, PullSteps, SetTagSteps, UntagSteps
    <3> QED
      BY <1>3, <2>1, <2>2, <3>1, GotoFrame
  <2>3. CASE Raise(p)
    BY <1>3, <1>4, <2>1, <2>3, RaiseFrame
  <2> QED
    BY <1>6, <2>2, <2>3 DEF Metadata
<1>7. CASE Complete(p)
  <2> DEFINE record == [j.record EXCEPT !.completed = TRUE]
  <2>1. record \in Record /\ record.completed
    BY <1>1 DEF Job, Record
  <2>2. /\ records'[b] = record
        /\ \A other \in Builds \ {b} : records'[other] = records[other]
    BY <1>1, <1>7, SaveValue DEF Complete
  <2>3. IsCompleted(records'[b])
    BY <2>1, <2>2, RecordsAssumption DEF IsCompleted
  <2>4. Shape("gbp.json", j, p, dirs[b], records'[b])
    BY <1>4, <2>3 DEF Shape, LoopSteps, PullSteps, SetTagSteps, UntagSteps
  <2>5. Goto(p, "gbp.json")
    BY <1>7 DEF Complete
  <2> HIDE DEF record
  <2> QED
    BY <1>3, <2>2, <2>4, <2>5, GotoFrame
<1>8. CASE GbpJson(p)
  <2>1. IsCompleted(records[b]) /\ UNCHANGED records
    BY <1>2, <1>8 DEF Shape, GbpJson
  <2>2. CASE Raise(p)
    BY <1>3, <1>4, <2>1, <2>2, RaiseFrame
  <2>3. CASE Goto(p, AfterPull(j)) /\ j.op = "pull_build"
    <3>1. AfterPull(j) = "idle"
      BY <1>4, <2>3 DEF AfterPull
    <3> QED
      BY <1>3, <1>4, <2>1, <2>3, <3>1, GotoFrame DEF IsSettled
  <2>4. CASE Goto(p, AfterPull(j)) /\ j.op = "publish_build"
    <3>1. AfterPull(j) = "publish"
      BY <1>4, <2>4 DEF AfterPull
    <3>2. Shape("publish", j, p, dirs[b], records[b])
      BY <1>4, <2>1, <2>4
         DEF Shape, LoopSteps, PullSteps, SetTagSteps, UntagSteps
    <3> QED
      BY <1>3, <2>1, <2>4, <3>1, <3>2, GotoFrame
  <2> QED
    BY <1>4, <1>8, <2>2, <2>3, <2>4 DEF GbpJson
<1> QED
  BY <1>5, <1>6, <1>7, <1>8

\* A step of publish() or tag(), on behalf of pull(), publish_build() or the
\* publish mutation.
LEMMA TagSteps_Inv ==
    ASSUME Inv, Orderly, TypeOK', NEW p \in Procs, NEW b \in Builds,
           WorksOn(p, b),
           Publish(p) \/ Tag(p) \/ IsLink(p) \/ Unlink(p) \/ Symlink(p)
    PROVE  Inv'
<1> DEFINE j == job[p]
<1>1. /\ JobsTypeOK /\ j \in Job /\ j.build = b /\ j.op \notin TagOps
  BY DEF Inv, TypeOK, JobsTypeOK, WorksOn
<1>2. Shape(pc[p], j, p, dirs[b], records[b])
  BY <1>1 DEF Inv, InShape, WorksOn
<1>3. UNCHANGED <<dirs, records>>
  BY DEF Publish, Tag, IsLink, Unlink, Symlink
<1>4. CASE Publish(p)
  <2>1. /\ j.op # "pull_build" /\ IsCompleted(records[b]) /\ Whole(dirs[b])
        /\ j.item = 1
    BY <1>2, <1>4 DEF Shape, Publish, LoopSteps
  <2>2. Pulled(b)
    BY <2>1 DEF Whole, IsCompleted, Pulled, StoragePulled, Exists, RecordOf,
                RecordExists
  <2> DEFINE local == [j EXCEPT !.publishing = TRUE]
  <2>3. local.op = j.op /\ local.build = b /\ local.item = 1
    BY <1>1, <2>1 DEF Job
  <2>4. CASE Continue(p, "idle", local)
    <3>1. /\ pc'[p] = "idle"
          /\ \A q \in Procs \ {p} : pc'[q] = pc[q] /\ job'[q] = job[q]
      BY <1>1, <2>4, ContinueValue
    <3> QED
      BY <1>1, <1>3, <2>1, <3>1, Frame DEF IsSettled
  <2>5. CASE Continue(p, "tag", local)
    <3>1. /\ pc'[p] = "tag" /\ job'[p] = local
          /\ \A q \in Procs \ {p} : pc'[q] = pc[q] /\ job'[q] = job[q]
      BY <1>1, <2>5, ContinueValue
    <3> HIDE DEF local
    <3>2. Shape("tag", local, p, dirs[b], records[b])
      BY <2>1, <2>3 DEF Shape, LoopSteps, PullSteps, SetTagSteps, UntagSteps
    <3> QED
      BY <1>1, <1>3, <2>3, <3>1, <3>2, Frame
  <2> QED
    BY <1>1, <1>4, <2>2, <2>4, <2>5 DEF Publish
<1>5. ASSUME pc[p] \in SetTagSteps
      PROVE  \/ /\ j.op = "pull_build" /\ ~j.publishing
                /\ Pulling(j, records[b]) /\ Whole(dirs[b])
             \/ /\ j.op # "pull_build"
                /\ IsCompleted(records[b]) /\ Whole(dirs[b])
  BY <1>2, <1>5 DEF Shape
<1>6. ASSUME Raise(p), pc[p] \in SetTagSteps
      PROVE  Inv'
  <2>1. CASE Handler(j) = "delete"
    BY <1>3, <1>5, <1>6, <2>1, RaiseFrame DEF Pulling
  <2>2. CASE Handler(j) # "delete"
    <3>1. Handler(j) = "idle" /\ IsCompleted(records[b]) /\ Whole(dirs[b])
      BY <1>5, <1>6, <2>2 DEF Handler
    <3>2. /\ pc'[p] = "idle"
          /\ \A q \in Procs \ {p} : pc'[q] = pc[q] /\ job'[q] = job[q]
      BY <1>1, <1>6, <3>1, ControlValue DEF WorksOn
    <3> QED
      BY <1>1, <1>3, <3>1, <3>2, Frame DEF IsSettled
  <2> QED
    BY <2>1, <2>2
<1>7. ASSUME NEW next \in {"islink", "unlink", "symlink"}, Goto(p, next),
             pc[p] \in SetTagSteps
      PROVE  Inv'
  <2>1. Shape(next, j, p, dirs[b], records[b])
    BY <1>5, <1>7 DEF Shape, LoopSteps, PullSteps, SetTagSteps, UntagSteps
  <2> QED
    BY <1>3, <1>7, <2>1, GotoFrame
<1>8. CASE Tag(p)
  BY <1>6, <1>7, <1>8 DEF Tag, SetTagSteps
<1>9. CASE IsLink(p)
  BY <1>7, <1>9 DEF IsLink, SetTagSteps
<1>10. CASE Unlink(p)
  BY <1>6, <1>7, <1>10 DEF Unlink, SetTagSteps
<1>11. CASE Symlink(p)
  <2>1. pc[p] \in SetTagSteps
    BY <1>11 DEF Symlink, SetTagSteps
  <2>2. CASE NextItem(p, "islink", AfterTag(j))
    <3>1. ASSUME NEW i
          PROVE  Shape("islink", [j EXCEPT !.item = i], p, dirs[b], records[b])
      <4> DEFINE local == [j EXCEPT !.item = i]
      <4>1. /\ local.op = j.op /\ local.publishing = j.publishing
            /\ local.record = j.record
        BY <1>1 DEF Job
      <4> HIDE DEF local
      <4>2. Shape("islink", local, p, dirs[b], records[b])
        BY <1>5, <2>1, <4>1
           DEF Shape, LoopSteps, PullSteps, SetTagSteps, UntagSteps, Pulling
      <4> QED
        BY <4>2 DEF local
    <3>2. CASE j.op = "pull_build"
      <4>1. AfterTag(j) = "tags"
        BY <3>2 DEF AfterTag
      <4> DEFINE local == [j EXCEPT !.item = 1]
      <4>2. /\ local.op = j.op /\ local.publishing = j.publishing
            /\ local.record = j.record /\ local.item = 1
        BY <1>1 DEF Job
      <4> HIDE DEF local
      <4>3. Shape("tags", local, p, dirs[b], records[b])
        BY <1>5, <2>1, <3>2, <4>2
           DEF Shape, LoopSteps, PullSteps, SetTagSteps, UntagSteps, Pulling
      <4>4. Shape("tags", [j EXCEPT !.item = 1], p, dirs[b], records[b])
        BY <4>3 DEF local
      <4> QED
        BY <1>3, <2>2, <3>1, <4>1, <4>4, NextItemFrame
    <3>3. CASE j.op # "pull_build"
      <4>1. AfterTag(j) = "idle" /\ IsSettled(dirs[b], records[b])
        BY <1>5, <2>1, <3>3 DEF AfterTag, IsSettled
      <4> QED
        BY <1>3, <2>2, <3>1, <4>1, NextItemFrame
    <3> QED
      BY <3>2, <3>3
  <2> QED
    BY <1>6, <1>11, <2>1, <2>2 DEF Symlink
<1> QED
  BY <1>4, <1>8, <1>9, <1>10, <1>11

\* A step of the delete command before it deletes, or of a record edit.
LEMMA UntagAndEdit ==
    ASSUME Inv, Orderly, TypeOK', NEW p \in Procs, NEW b \in Builds,
           WorksOn(p, b),
           \/ CheckTags(p) \/ Untag(p) \/ IsSymlink(p) \/ RemoveLink(p)
           \/ Edit(p) \/ Save(p)
    PROVE  Inv'
<1> DEFINE j == job[p]
<1>1. /\ JobsTypeOK /\ RecordsTypeOK /\ j \in Job /\ j.build = b
      /\ j.op \notin TagOps
  BY DEF Inv, TypeOK, JobsTypeOK, WorksOn
<1>2. Shape(pc[p], j, p, dirs[b], records[b])
  BY <1>1 DEF Inv, InShape, WorksOn
<1>3. UNCHANGED dirs
  BY DEF CheckTags, Untag, IsSymlink, RemoveLink, Edit, Save
<1>4. ASSUME pc[p] \in UntagSteps \cup {"edit"}
      PROVE  /\ j.op \notin Tasks /\ IsSettled(dirs[b], records[b])
             /\ Handler(j) = "idle"
  BY <1>2, <1>4 DEF Shape, Handler, Tasks
<1>5. ASSUME UNCHANGED records, pc[p] \in UntagSteps \cup {"edit"},
             NEW next, NEW local \in Job, Continue(p, next, local),
             local.op = j.op, local.build = b,
             local.item = 1 \/ next \in LoopSteps,
             next \in UntagSteps \cup {"delete", "idle"}
      PROVE  Inv'
  <2>1. /\ pc'[p] = next /\ (next # "idle" => job'[p] = local)
        /\ \A q \in Procs \ {p} : pc'[q] = pc[q] /\ job'[q] = job[q]
    BY <1>1, <1>5, ContinueValue
  <2>2. next # "idle" => Shape(next, local, p, dirs[b], records[b])
    BY <1>4, <1>5
       DEF Shape, LoopSteps, PullSteps, SetTagSteps, UntagSteps, IsSettled,
           IsCompleted
  <2> QED
    BY <1>1, <1>3, <1>4, <1>5, <2>1, <2>2, Frame
<1>6. CASE CheckTags(p)
  <2>1. pc[p] \in UntagSteps /\ UNCHANGED records /\ j.item = 1
    BY <1>2, <1>6 DEF CheckTags, UntagSteps, Shape, LoopSteps
  <2>2. CASE Goto(p, "idle")
    BY <1>1, <1>5, <2>1, <2>2 DEF Goto
  <2>3. CASE Continue(p, "untag", [j EXCEPT !.tags = TagsOf(j.build)])
    <3> DEFINE local == [j EXCEPT !.tags = TagsOf(j.build)]
    <3>1. local \in Job /\ local.op = j.op /\ local.build = b /\ local.item = 1
      BY <1>1, <2>1 DEF Job, TagsOf
    <3> QED
      BY <1>5, <2>1, <2>3, <3>1 DEF UntagSteps
  <2> QED
    BY <1>6, <2>2, <2>3 DEF CheckTags
<1>7. CASE Untag(p)
  <2>1. pc[p] \in UntagSteps /\ UNCHANGED records /\ j.item = 1
    BY <1>2, <1>7 DEF Untag, UntagSteps, Shape, LoopSteps
  <2>2. CASE j.tags = {}
    <3>1. Goto(p, "delete") \/ Goto(p, "idle")
      BY <1>7, <2>2 DEF Untag
    <3> QED
      BY <1>1, <1>5, <2>1, <3>1 DEF Goto
  <2>3. CASE j.tags # {}
    <3>1. PICK tag \in j.tags :
            Continue(p, IF Resolves(tag) THEN "is_symlink" ELSE "untag",
                     [j EXCEPT !.tag = tag, !.tags = @ \ {tag}])
      BY <1>7, <2>3 DEF Untag
    <3> DEFINE local == [j EXCEPT !.tag = tag, !.tags = @ \ {tag}]
               next == IF Resolves(tag) THEN "is_symlink" ELSE "untag"
    <3>2. local \in Job /\ local.op = j.op /\ local.build = b /\ local.item = 1
      BY <1>1, <2>1 DEF Job
    <3>3. next \in UntagSteps
      BY DEF UntagSteps
    <3>4. Continue(p, next, local)
      BY <3>1
    <3> HIDE DEF local, next
    <3> QED
      BY <1>5, <2>1, <3>2, <3>3, <3>4
  <2> QED
    BY <2>2, <2>3
<1>8. ASSUME NextItem(p, "is_symlink", "untag"), UNCHANGED records,
             pc[p] \in UntagSteps
      PROVE  Inv'
  <2>1. CASE j.item < N
    <3> DEFINE local == [j EXCEPT !.item = @ + 1]
    <3>1. j.item + 1 \in Content
      BY <1>1, <2>1, ContentBounds, JobFields
    <3>2. local \in Job /\ local.op = j.op /\ local.build = b
      BY <1>1, <3>1 DEF Job
    <3>3. Continue(p, "is_symlink", local)
      BY <1>8, <2>1 DEF NextItem
    <3> HIDE DEF local
    <3> QED
      BY <1>5, <1>8, <3>2, <3>3 DEF UntagSteps, LoopSteps
  <2>2. CASE ~(j.item < N)
    <3> DEFINE local == [j EXCEPT !.item = 1]
    <3>1. local \in Job /\ local.op = j.op /\ local.build = b /\ local.item = 1
      BY <1>1, ContentBounds DEF Job
    <3>2. Continue(p, "untag", local)
      BY <1>8, <2>2 DEF NextItem
    <3> HIDE DEF local
    <3> QED
      BY <1>5, <1>8, <3>1, <3>2 DEF UntagSteps
  <2> QED
    BY <2>1, <2>2
<1>9. CASE IsSymlink(p)
  <2>1. pc[p] \in UntagSteps /\ UNCHANGED records
    BY <1>9 DEF IsSymlink, UntagSteps
  <2>2. CASE Goto(p, "remove link")
    BY <1>1, <1>5, <2>1, <2>2 DEF Goto, UntagSteps, LoopSteps
  <2> QED
    BY <1>8, <1>9, <2>1, <2>2 DEF IsSymlink
<1>10. CASE RemoveLink(p)
  <2>1. pc[p] \in UntagSteps /\ UNCHANGED records
    BY <1>10 DEF RemoveLink, UntagSteps
  <2>2. CASE Raise(p)
    <3> DEFINE local == [j EXCEPT !.item = 1]
    <3>1. local \in Job /\ local.op = j.op /\ local.build = b /\ local.item = 1
      BY <1>1, ContentBounds DEF Job
    <3>2. Continue(p, "idle", local)
      BY <1>4, <2>1, <2>2 DEF Raise
    <3> HIDE DEF local
    <3> QED
      BY <1>5, <2>1, <3>1, <3>2
  <2> QED
    BY <1>8, <1>10, <2>1, <2>2 DEF RemoveLink
<1>11. CASE Edit(p)
  <2>1. pc[p] = "edit" /\ UNCHANGED records /\ j.item = 1
    BY <1>2, <1>11 DEF Edit, Shape, LoopSteps
  <2>2. CASE Goto(p, "idle")
    BY <1>1, <1>5, <2>1, <2>2 DEF Goto
  <2>3. CASE /\ RecordExists(b)
             /\ Continue(p, "save", [j EXCEPT !.record = records[b]])
    <3> DEFINE local == [j EXCEPT !.record = records[b]]
    <3>1. /\ local.op = j.op /\ local.build = b /\ local.item = 1
          /\ local.record = records[b]
      BY <1>1, <2>1 DEF Job
    <3>2. /\ pc'[p] = "save" /\ job'[p] = local
          /\ \A q \in Procs \ {p} : pc'[q] = pc[q] /\ job'[q] = job[q]
      BY <1>1, <2>3, ContinueValue
    <3> HIDE DEF local
    <3>3. Shape("save", local, p, dirs[b], records[b])
      BY <1>4, <2>1, <2>3, <3>1
         DEF Shape, LoopSteps, PullSteps, SetTagSteps, UntagSteps, RecordExists
    <3> QED
      BY <1>1, <1>3, <2>1, <3>1, <3>2, <3>3, Frame
  <2> QED
    BY <1>1, <1>11, <2>2, <2>3 DEF Edit
<1>12. CASE Save(p)
  <2>1. /\ IsSettled(dirs[b], records[b]) /\ records[b] # Nil
        /\ j.record.completed = records[b].completed
    BY <1>2, <1>12 DEF Shape, Save
  <2>2. /\ Edited(j) \in Record
        /\ Edited(j).completed = j.record.completed
    BY <1>1 DEF Edited, Job, Record
  <2>3. /\ records'[b] = Edited(j)
        /\ \A other \in Builds \ {b} : records'[other] = records[other]
    BY <1>1, <1>12, SaveValue DEF Save
  <2>4. IsSettled(dirs[b], records'[b])
    BY <2>1, <2>2, <2>3, RecordsAssumption DEF IsSettled, IsCompleted
  <2>5. Goto(p, "idle")
    BY <1>12 DEF Save
  <2> QED
    BY <1>3, <2>3, <2>4, <2>5, GotoFrame
<1> QED
  BY <1>6, <1>7, <1>9, <1>10, <1>11, <1>12

\* A step of BuildPublisher.delete().
LEMMA DeleteSteps ==
    ASSUME Inv, Orderly, TypeOK', NEW p \in Procs, NEW b \in Builds,
           WorksOn(p, b),
           Delete(p) \/ DeleteTree(p) \/ DeleteRmtree(p)
    PROVE  Inv'
<1> DEFINE j == job[p]
           c == job[p].item
<1>1. /\ JobsTypeOK /\ StorageTypeOK /\ RecordsTypeOK /\ j \in Job
      /\ j.build = b /\ j.op \notin TagOps /\ c \in Content
  BY JobFields DEF Inv, TypeOK, JobsTypeOK, WorksOn
<1>2. Shape(pc[p], j, p, dirs[b], records[b])
  BY <1>1 DEF Inv, InShape, WorksOn
<1>3. N \in Nat \ {0} /\ 1 \in Content /\ c \in 1..N
  BY <1>1, ContentBounds DEF Content
<1>4. CASE Delete(p)
  <2>1. j.item = 1
    BY <1>2, <1>4 DEF Delete, Shape, LoopSteps
  <2>2. /\ records'[b] = Nil /\ UNCHANGED dirs
        /\ \A other \in Builds \ {b} : records'[other] = records[other]
    BY <1>1, <1>4, SaveValue DEF Delete
  <2>3. \A d \in Content : ~(d < j.item)
    BY <2>1 DEF Content
  <2>4. Shape("delete tree", j, p, dirs'[b], records'[b])
    BY <2>2, <2>3 DEF Shape, LoopSteps, PullSteps, SetTagSteps, UntagSteps
  <2>5. Goto(p, "delete tree")
    BY <1>4 DEF Delete
  <2> QED
    BY <2>2, <2>4, <2>5, GotoFrame
<1>5. ASSUME pc[p] \in {"delete tree", "delete rmtree"}
      PROVE  records[b] = Nil /\ \A d \in Content : d < c => dirs[b][d] = "absent"
  BY <1>2, <1>5 DEF Shape
<1>6. ASSUME pc[p] \in {"delete tree", "delete rmtree"}, UNCHANGED records,
             NextItem(p, "delete tree", "idle"), dirs'[b][c] = "absent",
             \A d \in Content \ {c} : dirs'[b][d] = dirs[b][d],
             \A other \in Builds \ {b} : dirs'[other] = dirs[other]
      PROVE  Inv'
  <2>1. \A d \in Content : d < c + 1 => dirs'[b][d] = "absent"
    <3>1. \A d \in Content : d < c + 1 => d = c \/ (d < c /\ d # c)
      BY <1>3 DEF Content
    <3>2. \A d \in Content : d < c => dirs[b][d] = "absent"
      BY <1>5, <1>6
    <3> HIDE DEF c
    <3> QED
      BY <1>6, <3>1, <3>2
  <2> DEFINE local == [j EXCEPT !.item = j.item + 1]
  <2>2. local.item = c + 1
    BY <1>1 DEF Job
  <2> HIDE DEF local
  <2>3. Shape("delete tree", local, p, dirs'[b], records'[b])
    BY <1>5, <1>6, <2>1, <2>2
       DEF Shape, LoopSteps, PullSteps, SetTagSteps, UntagSteps
  <2>4. ~(c < N) => IsSettled(dirs'[b], records'[b])
    <3>1. ~(c < N) => \A d \in Content : d < c + 1
      BY <1>3 DEF Content
    <3> QED
      BY <1>5, <1>6, <2>1, <3>1 DEF IsSettled, Gone
  <2>5. Shape("delete tree", [j EXCEPT !.item = j.item + 1], p,
              dirs'[b], records'[b])
    BY <2>3 DEF local
  <2> QED
    BY <1>6, <2>4, <2>5, NextItemFrame
<1>7. CASE DeleteTree(p)
  <2>1. pc[p] = "delete tree" /\ UNCHANGED records
    BY <1>7 DEF DeleteTree
  <2>2. CASE SetTree(b, c, "partial") /\ Goto(p, "delete rmtree")
    <3>1. /\ dirs'[b][c] = "partial"
          /\ \A d \in Content \ {c} : dirs'[b][d] = dirs[b][d]
          /\ \A other \in Builds \ {b} : dirs'[other] = dirs[other]
      BY <1>1, <2>2 DEF SetTree, StorageTypeOK
    <3>2. \A d \in Content : d < c => dirs'[b][d] = "absent"
      <4>1. \A d \in Content : d < c => d # c
        BY <1>3 DEF Content
      <4>2. \A d \in Content : d < c => dirs[b][d] = "absent"
        BY <1>5, <2>1
      <4> HIDE DEF c
      <4> QED
        BY <3>1, <4>1, <4>2
    <3>3. Shape("delete rmtree", j, p, dirs'[b], records'[b])
      BY <1>5, <2>1, <3>1, <3>2
         DEF Shape, LoopSteps, PullSteps, SetTagSteps, UntagSteps
    <3> QED
      BY <2>1, <2>2, <3>1, <3>3, GotoFrame
  <2>3. CASE ~Exists(b, c) /\ UNCHANGED dirs /\ NextItem(p, "delete tree", "idle")
    BY <1>6, <2>1, <2>3 DEF Exists
  <2> QED
    BY <1>1, <1>7, <2>2, <2>3 DEF DeleteTree
<1>8. CASE DeleteRmtree(p)
  <2>1. pc[p] = "delete rmtree" /\ UNCHANGED records
    BY <1>8 DEF DeleteRmtree
  <2>2. dirs[b][c] = "partial"
    BY <1>2, <2>1 DEF Shape
  <2>3. SetTree(b, c, "absent") /\ NextItem(p, "delete tree", "idle")
    BY <1>1, <1>8, <2>2 DEF DeleteRmtree
  <2>4. /\ dirs'[b][c] = "absent"
        /\ \A d \in Content \ {c} : dirs'[b][d] = dirs[b][d]
        /\ \A other \in Builds \ {b} : dirs'[other] = dirs[other]
    BY <1>1, <2>3 DEF SetTree, StorageTypeOK
  <2> QED
    BY <1>6, <2>1, <2>3, <2>4
<1> QED
  BY <1>4, <1>7, <1>8

\* A step that touches neither trees nor records, of a process that works on
\* no build before or after it, preserves the invariant.
LEMMA TagFrame ==
    ASSUME Inv, TypeOK', NEW p \in Procs, UNCHANGED <<dirs, records>>,
           \A q \in Procs \ {p} : pc'[q] = pc[q] /\ job'[q] = job[q],
           pc[p] = "idle" \/ job[p].op \in TagOps,
           pc'[p] # "idle" => /\ job'[p].op \in TagOps
                             /\ pc'[p] \in TagOpSteps(job'[p].op)
    PROVE  Inv'
<1>1. \A q \in Procs : InShape(q)'
  BY DEF Inv, InShape
<1>2. \A q \in Procs, b \in Builds : WorksOn(q, b) => WorksOn(q, b)'
  BY DEF WorksOn
<1> QED
  BY <1>1, <1>2 DEF Inv, SettledAtRest

\* A step of an operation that only tags a build.
LEMMA TagOpSteps_Inv ==
    ASSUME Inv, Orderly, TypeOK', NEW p \in Procs, Step(p), job[p].op \in TagOps
    PROVE  Inv'
<1> DEFINE j == job[p]
<1>1. pc[p] # "idle"
  BY DEF Step, Pull, Submit, Download, Extract, CopyPath, RemoveTree, Copy,
         CopyTree, NextTag, Metadata, Complete, GbpJson, Publish, Tag, IsLink,
         Unlink, Symlink, CheckTags, Untag, IsSymlink, RemoveLink, Delete,
         DeleteTree, DeleteRmtree, Edit, Save
<1>2. JobsTypeOK /\ j \in Job /\ j.op \in TagOps /\ pc[p] \in TagOpSteps(j.op)
  BY <1>1 DEF Inv, TypeOK, JobsTypeOK, InShape
<1>3. \/ Tag(p) \/ IsLink(p) \/ Unlink(p) \/ Symlink(p)
      \/ CheckTags(p) \/ Untag(p) \/ IsSymlink(p) \/ RemoveLink(p)
      \/ Publish(p)
  BY <1>2
     DEF Step, TagOpSteps, SetTagSteps, UntagSteps, Pull, Submit, Download,
         Extract, CopyPath, RemoveTree, Copy, CopyTree, NextTag, Metadata,
         Complete, GbpJson, Delete, DeleteTree, DeleteRmtree, Edit, Save
<1>4. UNCHANGED <<dirs, records>>
  BY <1>3 DEF Tag, IsLink, Unlink, Symlink, CheckTags, Untag, IsSymlink,
              RemoveLink, Publish
<1>5. ASSUME NEW next \in TagOpSteps(j.op) \cup {"idle"}, NEW local,
             Continue(p, next, local), local.op = j.op
      PROVE  Inv'
  <2>1. /\ pc'[p] = next /\ (next # "idle" => job'[p] = local)
        /\ \A q \in Procs \ {p} : pc'[q] = pc[q] /\ job'[q] = job[q]
    BY <1>2, <1>5, ContinueValue
  <2> QED
    BY <1>2, <1>4, <1>5, <2>1, TagFrame
<1>6. ASSUME NEW next \in TagOpSteps(j.op) \cup {"idle"}, Goto(p, next)
      PROVE  Inv'
  BY <1>5, <1>6 DEF Goto
<1>7. \A i : [j EXCEPT !.item = i].op = j.op
  BY <1>2 DEF Job
<1>8. ASSUME Raise(p)
      PROVE  Inv'
  <2>1. Handler(j) = "idle"
    BY <1>2 DEF Handler, TagOps
  <2> QED
    BY <1>5, <1>7, <1>8, <2>1 DEF Raise
<1>9. ASSUME NEW body \in TagOpSteps(j.op), NEW after \in TagOpSteps(j.op) \cup {"idle"},
             NextItem(p, body, after)
      PROVE  Inv'
  <2>1. CASE job[p].item < N
    <3>1. Continue(p, body, [j EXCEPT !.item = job[p].item + 1])
      BY <1>9, <2>1 DEF NextItem
    <3> QED
      BY <1>5, <1>7, <1>9, <3>1
  <2>2. CASE ~(job[p].item < N)
    <3>1. Continue(p, after, [j EXCEPT !.item = 1])
      BY <1>9, <2>2 DEF NextItem
    <3> QED
      BY <1>5, <1>7, <1>9, <3>1
  <2> QED
    BY <2>1, <2>2
<1>10. AfterTag(j) = "idle"
  BY <1>2 DEF AfterTag, TagOps
<1>11. {"islink", "unlink", "symlink", "untag", "is_symlink", "remove link"}
         \subseteq TagOpSteps(j.op)
  BY DEF TagOpSteps, SetTagSteps, UntagSteps
<1>12. CASE Tag(p) \/ IsLink(p) \/ Unlink(p)
  BY <1>6, <1>8, <1>11, <1>12 DEF Tag, IsLink, Unlink
<1>13. CASE Symlink(p)
  BY <1>8, <1>9, <1>10, <1>11, <1>13 DEF Symlink
<1>14. CASE CheckTags(p)
  <2>1. [j EXCEPT !.tags = TagsOf(j.build)].op = j.op
    BY <1>2 DEF Job
  <2> QED
    BY <1>5, <1>6, <1>11, <1>14, <2>1 DEF CheckTags
<1>15. CASE Untag(p)
  <2>1. CASE j.tags = {}
    <3>1. Goto(p, "idle")
      BY <1>2, <1>15, <2>1 DEF Untag, TagOps, Commands
    <3> QED
      BY <1>6, <3>1
  <2>2. CASE j.tags # {}
    <3>1. PICK tag \in j.tags :
            Continue(p, IF Resolves(tag) THEN "is_symlink" ELSE "untag",
                     [j EXCEPT !.tag = tag, !.tags = @ \ {tag}])
      BY <1>15, <2>2 DEF Untag
    <3>2. [j EXCEPT !.tag = tag, !.tags = @ \ {tag}].op = j.op
      BY <1>2 DEF Job
    <3> QED
      BY <1>5, <1>11, <3>1, <3>2
  <2> QED
    BY <2>1, <2>2
<1>16. CASE IsSymlink(p) \/ RemoveLink(p)
  BY <1>6, <1>8, <1>9, <1>11, <1>16 DEF IsSymlink, RemoveLink
<1>17. CASE Publish(p)
  <2>1. Pulled(j.build)
    BY <1>2, <1>17 DEF Publish, Orderly, TagOpSteps, SetTagSteps, UntagSteps
  <2> DEFINE local == [j EXCEPT !.publishing = TRUE]
  <2>2. local.op = j.op
    BY <1>2 DEF Job
  <2>3. PICK next \in {"idle", "tag"} : Continue(p, next, local)
    BY <1>17, <2>1 DEF Publish
  <2>4. next \in TagOpSteps(j.op) \cup {"idle"}
    BY DEF TagOpSteps, SetTagSteps
  <2> QED
    BY <1>5, <2>2, <2>3, <2>4
<1> QED
  BY <1>3, <1>12, <1>13, <1>14, <1>15, <1>16, <1>17

\* Beginning an operation on a build that was settled preserves the
\* invariant: nobody else works on the build, neither before nor after.
LEMMA BeginFrame ==
    ASSUME Inv, Orderly', TypeOK', NEW p \in Procs, NEW b \in Builds,
           NEW op, NEW step, NEW local, Begin(p, op, b, step, local),
           local.op \notin TagOps, local.build = b, step # "idle",
           IsSettled(dirs[b], records[b]) =>
              Shape(step, local, p, dirs[b], records[b])
    PROVE  Inv'
<1>1. /\ pc[p] = "idle" /\ UNCHANGED <<dirs, records>>
      /\ pc'[p] = step /\ job'[p] = local
      /\ \A q \in Procs \ {p} : pc'[q] = pc[q] /\ job'[q] = job[q]
  BY ContinueValue DEF Begin, Inv, TypeOK
<1>2. WorksOn(p, b)'
  BY <1>1 DEF WorksOn
<1>3. \A q \in Procs : ~WorksOn(q, b)
  <2>1. \A q \in Procs \ {p} : ~WorksOn(q, b)'
    BY <1>2 DEF Orderly
  <2> QED
    BY <1>1, <2>1 DEF WorksOn
<1>4. IsSettled(dirs[b], records[b])
  BY <1>3 DEF Inv, SettledAtRest
<1>5. InShape(p)'
  BY <1>1, <1>4 DEF InShape
<1>6. \A q \in Procs \ {p} : InShape(q)'
  BY <1>1 DEF Inv, InShape
<1>7. ASSUME NEW other \in Builds, \A q \in Procs : ~WorksOn(q, other)'
      PROVE  IsSettled(dirs'[other], records'[other])
  <2>1. \A q \in Procs : ~WorksOn(q, other)
    BY <1>1, <1>7 DEF WorksOn
  <2> QED
    BY <1>1, <2>1 DEF Inv, SettledAtRest
<1> QED
  BY <1>5, <1>6, <1>7 DEF Inv, SettledAtRest

\* A process begins an operation.
LEMMA StartPreserves ==
    ASSUME Inv, Orderly', TypeOK', NEW p \in Procs, Start(p)
    PROVE  Inv'
<1>1. PICK b \in BuildsUsed[p] :
         \/ PullBuild(p, b) \/ PublishBuild(p, b) \/ DeleteBuild(p, b)
         \/ PublishMutation(p, b) \/ CreateBuildTag(p, b)
         \/ RemoveBuildTag(p, b) \/ KeepBuild(p, b) \/ ReleaseBuild(p, b)
         \/ CreateNote(p, b) \/ DeleteCommand(p, b)
  BY DEF Start
<1>2. b \in Builds
  BY PublisherAssumption
<1>3. ASSUME NEW op
      PROVE  LET local == NewJob(op, b) IN
             /\ local.op = op /\ local.build = b /\ local.item = 1
             /\ ~local.publishing /\ local.tags = {}
             /\ ~local.record.completed
  BY DEF NewJob, EmptyRecord
<1>4. CASE PullBuild(p, b)
  <2>1. PICK note \in Notes \cup {Nil}, tags \in SUBSET TagsUsed[p] :
          Begin(p, "pull_build", b, "pull",
                [NewJob("pull_build", b) EXCEPT !.note = note, !.tags = tags])
    BY <1>4 DEF PullBuild
  <2> DEFINE local ==
          [NewJob("pull_build", b) EXCEPT !.note = note, !.tags = tags]
  <2>2. /\ local.op = "pull_build" /\ local.build = b /\ local.item = 1
        /\ ~local.publishing
    BY DEF NewJob
  <2> HIDE DEF local
  <2>3. IsSettled(dirs[b], records[b]) =>
          Shape("pull", local, p, dirs[b], records[b])
    BY <2>2 DEF Shape, LoopSteps, PullSteps, SetTagSteps, UntagSteps
  <2>4. Begin(p, "pull_build", b, "pull", local)
    BY <2>1 DEF local
  <2> QED
    BY <1>2, <2>2, <2>3, <2>4, BeginFrame DEF TagOps
<1>5. CASE PublishBuild(p, b)
  <2> DEFINE local == NewJob("publish_build", b)
  <2>1. /\ local.op = "publish_build" /\ local.build = b /\ local.item = 1
        /\ ~local.publishing /\ local.tags = {}
    BY <1>3
  <2>2. Begin(p, "publish_build", b, "pull", local)
    BY <1>5 DEF PublishBuild
  <2> HIDE DEF local
  <2>3. IsSettled(dirs[b], records[b]) =>
          Shape("pull", local, p, dirs[b], records[b])
    BY <2>1 DEF Shape, LoopSteps, PullSteps, SetTagSteps, UntagSteps
  <2> QED
    BY <1>2, <2>1, <2>2, <2>3, BeginFrame DEF TagOps
<1>6. CASE DeleteBuild(p, b)
  <2> DEFINE local == NewJob("delete_build", b)
  <2>1. local.op = "delete_build" /\ local.build = b /\ local.item = 1
    BY <1>3
  <2>2. Begin(p, "delete_build", b, "delete", local)
    BY <1>6 DEF DeleteBuild
  <2> HIDE DEF local
  <2>3. IsSettled(dirs[b], records[b]) =>
          Shape("delete", local, p, dirs[b], records[b])
    BY <2>1
       DEF Shape, LoopSteps, PullSteps, SetTagSteps, UntagSteps, IsSettled,
           IsCompleted
  <2> QED
    BY <1>2, <2>1, <2>2, <2>3, BeginFrame DEF TagOps
<1>7. ASSUME NEW local, NEW step \in TagOpSteps(local.op),
             Begin(p, local.op, b, step, local), local.op \in TagOps
      PROVE  Inv'
  <2>1. /\ pc[p] = "idle" /\ UNCHANGED <<dirs, records>>
        /\ pc'[p] = step /\ (step # "idle" => job'[p] = local)
        /\ \A q \in Procs \ {p} : pc'[q] = pc[q] /\ job'[q] = job[q]
    BY <1>7, ContinueValue DEF Begin, Inv, TypeOK
  <2>2. step # "idle"
    BY <1>7 DEF TagOpSteps, SetTagSteps, UntagSteps
  <2> QED
    BY <1>7, <2>1, <2>2, TagFrame
<1>8. CASE PublishMutation(p, b)
  <2> DEFINE local == NewJob("publish", b)
  <2>1. local.op = "publish"
    BY <1>3
  <2>2. Begin(p, local.op, b, "publish", local)
    BY <1>8, <2>1 DEF PublishMutation
  <2> HIDE DEF local
  <2> QED
    BY <1>7, <2>1, <2>2 DEF TagOps, TagOpSteps
<1>9. CASE CreateBuildTag(p, b)
  <2>1. PICK tag \in TagsUsed[p] :
          Begin(p, "createBuildTag", b, "tag",
                [NewJob("createBuildTag", b) EXCEPT !.tag = tag])
    BY <1>9 DEF CreateBuildTag
  <2> DEFINE local == [NewJob("createBuildTag", b) EXCEPT !.tag = tag]
  <2>2. local.op = "createBuildTag"
    BY DEF NewJob
  <2>3. Begin(p, local.op, b, "tag", local)
    BY <2>1, <2>2
  <2> HIDE DEF local
  <2> QED
    BY <1>7, <2>2, <2>3 DEF TagOps, TagOpSteps, SetTagSteps
<1>10. CASE RemoveBuildTag(p, b)
  <2>1. PICK tag \in TagsUsed[p] :
          Begin(p, "removeBuildTag", b, "untag",
                [NewJob("removeBuildTag", b) EXCEPT !.tags = {tag}])
    BY <1>10 DEF RemoveBuildTag
  <2> DEFINE local == [NewJob("removeBuildTag", b) EXCEPT !.tags = {tag}]
  <2>2. local.op = "removeBuildTag"
    BY DEF NewJob
  <2>3. Begin(p, local.op, b, "untag", local)
    BY <2>1, <2>2
  <2> HIDE DEF local
  <2> QED
    BY <1>7, <2>2, <2>3 DEF TagOps, TagOpSteps, UntagSteps
<1>11. ASSUME NEW local, NEW step \in {"edit", "check tags"},
              Begin(p, local.op, b, step, local),
              local.op \in RecordEdits \cup Commands,
              local.build = b, local.item = 1
       PROVE  Inv'
  <2>1. local.op \notin TagOps /\ local.op \notin Tasks
    BY <1>11 DEF TagOps, Tasks, RecordEdits, Commands
  <2>2. IsSettled(dirs[b], records[b]) =>
          Shape(step, local, p, dirs[b], records[b])
    BY <1>11, <2>1 DEF Shape, LoopSteps, PullSteps, SetTagSteps, UntagSteps
  <2> QED
    BY <1>2, <1>11, <2>1, <2>2, BeginFrame
<1>12. CASE KeepBuild(p, b) \/ ReleaseBuild(p, b)
  <2>1. PICK op \in {"keepBuild", "releaseBuild"} :
          Begin(p, op, b, "edit", NewJob(op, b))
    BY <1>12 DEF KeepBuild, ReleaseBuild
  <2> DEFINE local == NewJob(op, b)
  <2>2. local.op = op /\ local.build = b /\ local.item = 1
    BY <1>3
  <2>3. Begin(p, local.op, b, "edit", local)
    BY <2>1, <2>2
  <2> HIDE DEF local
  <2> QED
    BY <1>11, <2>2, <2>3 DEF RecordEdits
<1>13. CASE CreateNote(p, b)
  <2>1. PICK note \in Notes \cup {Nil} :
          Begin(p, "createNote", b, "edit",
                [NewJob("createNote", b) EXCEPT !.note = note])
    BY <1>13 DEF CreateNote
  <2> DEFINE local == [NewJob("createNote", b) EXCEPT !.note = note]
  <2>2. local.op = "createNote" /\ local.build = b /\ local.item = 1
    BY DEF NewJob
  <2>3. Begin(p, local.op, b, "edit", local)
    BY <2>1, <2>2
  <2> HIDE DEF local
  <2> QED
    BY <1>11, <2>2, <2>3 DEF RecordEdits
<1>14. CASE DeleteCommand(p, b)
  <2>1. PICK op \in Commands : Begin(p, op, b, "check tags", NewJob(op, b))
    BY <1>14 DEF DeleteCommand
  <2> DEFINE local == NewJob(op, b)
  <2>2. local.op = op /\ local.build = b /\ local.item = 1
    BY <1>3
  <2>3. Begin(p, local.op, b, "check tags", local)
    BY <2>1, <2>2
  <2> HIDE DEF local
  <2> QED
    BY <1>11, <2>2, <2>3
<1> QED
  BY <1>1, <1>4, <1>5, <1>6, <1>8, <1>9, <1>10, <1>12, <1>13, <1>14

\* Every step of an orderly behaviour preserves the invariant.
LEMMA NextPreserves ==
    ASSUME Inv, Orderly, Orderly', TypeOK', [Next]_vars
    PROVE  Inv'
<1>1. CASE UNCHANGED vars
  BY <1>1 DEF vars, Inv, SettledAtRest, InShape, WorksOn
<1>2. CASE Next
  <2>1. PICK p \in Procs : Start(p) \/ Step(p) \/ Crash(p)
    BY <1>2 DEF Next
  <2>2. CASE Start(p)
    BY <2>2, StartPreserves
  <2>3. CASE Step(p) /\ job[p].op \in TagOps
    BY <2>3, TagOpSteps_Inv
  <2>4. CASE Step(p) /\ job[p].op \notin TagOps
    <3> DEFINE b == job[p].build
    <3>1. pc[p] # "idle"
      BY <2>4
         DEF Step, Pull, Submit, Download, Extract, CopyPath, RemoveTree,
             Copy, CopyTree, NextTag, Metadata, Complete, GbpJson, Publish,
             Tag, IsLink, Unlink, Symlink, CheckTags, Untag, IsSymlink,
             RemoveLink, Delete, DeleteTree, DeleteRmtree, Edit, Save
    <3>2. b \in Builds /\ WorksOn(p, b)
      BY <2>4, <3>1, JobFields DEF WorksOn, Inv, TypeOK, JobsTypeOK
    <3> HIDE DEF b
    <3> QED
      BY <2>4, <3>2, PullBegins, PullCopies, PullEnds, TagSteps_Inv,
         UntagAndEdit, DeleteSteps
         DEF Step
  <2>5. CASE Crash(p)
    BY <2>5 DEF Crash, Orderly, Inv, TypeOK
  <2> QED
    BY <2>1, <2>2, <2>3, <2>4, <2>5
<1> QED
  BY <1>1, <1>2

\* Nothing is stored, and nobody works, in the beginning.
LEMMA InitInv == Init => Inv
<1>1. SUFFICES ASSUME Init PROVE Inv
  OBVIOUS
<1>2. TypeOK
  BY <1>1, InitType
<1>3. \A b \in Builds : IsSettled(dirs[b], records[b])
  BY <1>1 DEF Init, StorageInit, RecordsInit, IsSettled, Gone
<1> QED
  BY <1>1, <1>2, <1>3 DEF Init, Inv, SettledAtRest, InShape

\* In an orderly behaviour, the shape of every build fits the steps of the
\* processes that work on it.
THEOREM OrderlyInvariant == Spec /\ []Orderly => []Inv
<1>1. Inv /\ Orderly /\ Orderly' /\ TypeOK' /\ [Next]_vars => Inv'
  BY NextPreserves
<1> QED
  BY <1>1, InitInv, TypeCorrect, PTL DEF Spec

\* A build that nobody works on is settled, and the steps of a job on a build
\* that is completed leave its trees whole.
LEMMA InvWhole ==
    ASSUME Inv
    PROVE  CompletedIsWhole
<1>1. SUFFICES ASSUME NEW b \in Builds, IsCompleted(records[b])
               PROVE  Whole(dirs[b])
  BY DEF CompletedIsWhole, Completed
<1>2. CASE \A p \in Procs : ~WorksOn(p, b)
  BY <1>1, <1>2 DEF Inv, SettledAtRest, IsSettled, IsCompleted
<1>3. ASSUME NEW p \in Procs, WorksOn(p, b)
      PROVE  Whole(dirs[b])
  <2>1. pc[p] \in Steps
    BY <1>3 DEF WorksOn, Inv, TypeOK, JobsTypeOK
  <2>2. Shape(pc[p], job[p], p, dirs[b], records[b])
    BY <1>3 DEF WorksOn, Inv, InShape
  <2> QED
    BY <1>1, <2>1, <2>2
       DEF Steps, Shape, SetTagSteps, UntagSteps, Pulling, IsSettled,
           IsCompleted
<1> QED
  BY <1>2, <1>3

\* In an orderly behaviour, a build whose record is completed is stored
\* completely: pull() sets "completed" after the last tree, and whatever
\* removes a tree removes the record first.
THEOREM OrderlyCompletedIsWhole == Spec /\ []Orderly => []CompletedIsWhole
<1>1. Inv => CompletedIsWhole
  BY InvWhole
<1> QED
  BY <1>1, OrderlyInvariant, PTL

\* In an orderly behaviour, a build nobody works on is stored completely and
\* completed, or is not there at all: failed pulls clean up after themselves
\* (pull_build's "except Exception"), and nothing else leaves a half build.
THEOREM OrderlySettledAtRest == Spec /\ []Orderly => []SettledAtRest
<1>1. Inv => SettledAtRest
  BY DEF Inv
<1> QED
  BY <1>1, OrderlyInvariant, PTL

\* No step of a job writes a tree of a completed build.
LEMMA CompletedStaysStill ==
    ASSUME Inv, NEW p \in Procs, Step(p), NEW b \in Builds,
           IsCompleted(records[b])
    PROVE  dirs'[b] = dirs[b]
<1>1. SUFFICES ASSUME dirs'[b] # dirs[b] PROVE FALSE
  OBVIOUS
<1>2. \/ CopyPath(p) \/ RemoveTree(p) \/ Copy(p) \/ CopyTree(p)
      \/ DeleteTree(p) \/ DeleteRmtree(p)
  <2>1. \/ Pull(p) \/ Submit(p) \/ Download(p) \/ Extract(p) \/ NextTag(p)
        \/ Metadata(p) \/ Complete(p) \/ GbpJson(p) \/ Publish(p)
        \/ Tag(p) \/ IsLink(p) \/ Unlink(p) \/ Symlink(p) \/ CheckTags(p)
        \/ Untag(p) \/ IsSymlink(p) \/ RemoveLink(p) \/ Delete(p)
        \/ Edit(p) \/ Save(p)
        => UNCHANGED dirs
    BY DEF Pull, Submit, Download, Extract, NextTag, Metadata, Complete,
           GbpJson, Publish, Tag, IsLink, Unlink, Symlink, CheckTags, Untag,
           IsSymlink, RemoveLink, Delete, Edit, Save
  <2> QED
    BY <1>1, <2>1 DEF Step
<1>3. pc[p] \in {"copy_path", "rmtree", "copy", "copytree", "delete tree",
                 "delete rmtree"}
  BY <1>2 DEF CopyPath, RemoveTree, Copy, CopyTree, DeleteTree, DeleteRmtree
<1>4. /\ job[p].op \notin TagOps
      /\ Shape(pc[p], job[p], p, dirs[job[p].build], records[job[p].build])
  BY <1>3 DEF Inv, InShape, TagOpSteps, SetTagSteps, UntagSteps
<1>5. job[p].build = b
  <2>1. StorageTypeOK /\ job[p].build \in Builds /\ job[p].item \in Content
    BY <1>3, JobFields DEF Inv, TypeOK, JobsTypeOK
  <2>2. \A state : SetTree(job[p].build, job[p].item, state) =>
           \A other \in Builds \ {job[p].build} : dirs'[other] = dirs[other]
    BY <2>1 DEF SetTree, StorageTypeOK
  <2> QED
    BY <1>1, <1>2, <2>2
       DEF CopyPath, RemoveTree, Copy, CopyTree, DeleteTree, DeleteRmtree
<1> QED
  BY <1>3, <1>4, <1>5 DEF Shape, Pulling, IsCompleted

\* In an orderly behaviour, no step writes a tree of a completed build that
\* stays completed: a build that is pulled again is left alone.
THEOREM OrderlyCompletedIsImmutable ==
    Spec /\ []Orderly => CompletedIsImmutable
<1>1. ASSUME Inv, Orderly', [Next]_vars
      PROVE  [\A b \in Builds : Completed(b) /\ Completed(b)' =>
                 dirs'[b] = dirs[b]]_vars
  <2>1. SUFFICES ASSUME Next, NEW b \in Builds, IsCompleted(records[b])
                 PROVE  dirs'[b] = dirs[b]
    BY <1>1 DEF Completed
  <2>2. PICK p \in Procs : Start(p) \/ Step(p) \/ Crash(p)
    BY <2>1 DEF Next
  <2>3. ~Crash(p)
    BY <1>1 DEF Crash, Orderly, Inv, TypeOK
  <2>4. Start(p) => UNCHANGED dirs
    BY DEF Start, PullBuild, PublishBuild, DeleteBuild, PublishMutation,
           CreateBuildTag, RemoveBuildTag, KeepBuild, ReleaseBuild,
           CreateNote, DeleteCommand, Begin
  <2> QED
    BY <1>1, <2>1, <2>2, <2>3, <2>4, CompletedStaysStill
<1> QED
  BY <1>1, OrderlyInvariant, PTL DEF Spec, CompletedIsImmutable

\* A step does not change the operation and the build of a job.
LEMMA StepKeepsRequest ==
    ASSUME TypeOK, NEW p \in Procs, Step(p)
    PROVE  /\ pc[p] # "idle"
           /\ pc'[p] # "idle" => /\ job'[p].op = job[p].op
                                 /\ job'[p].build = job[p].build
           /\ \A q \in Procs \ {p} : pc'[q] = pc[q] /\ job'[q] = job[q]
<1> DEFINE j == job[p]
<1>1. pc[p] # "idle"
  BY DEF Step, Pull, Submit, Download, Extract, CopyPath, RemoveTree, Copy,
         CopyTree, NextTag, Metadata, Complete, GbpJson, Publish, Tag, IsLink,
         Unlink, Symlink, CheckTags, Untag, IsSymlink, RemoveLink, Delete,
         DeleteTree, DeleteRmtree, Edit, Save
<1>2. JobsTypeOK /\ j \in Job
  BY <1>1 DEF TypeOK, JobsTypeOK
<1> DEFINE Keeps(local) == local.op = j.op /\ local.build = j.build
           Goal == /\ pc'[p] # "idle" => Keeps(job'[p])
                   /\ \A q \in Procs \ {p} : pc'[q] = pc[q] /\ job'[q] = job[q]
<1>3. /\ Keeps(j)
      /\ \A i : Keeps([j EXCEPT !.item = i])
      /\ \A r : Keeps([j EXCEPT !.record = r])
      /\ \A d : Keeps([j EXCEPT !.link_dest = d])
      /\ \A d : Keeps([j EXCEPT !.publishing = d])
      /\ \A tags : Keeps([j EXCEPT !.tags = tags])
      /\ \A tag, tags : Keeps([j EXCEPT !.tag = tag, !.tags = tags])
  BY <1>2 DEF Job
<1>4. ASSUME NEW next, NEW local, Continue(p, next, local), Keeps(local)
      PROVE  Goal
  BY <1>2, <1>4, ContinueValue
<1> HIDE DEF Keeps, Goal
<1>5. ASSUME NEW next, Goto(p, next)
      PROVE  Goal
  BY <1>3, <1>4, <1>5 DEF Goto
<1>6. ASSUME NEW body, NEW after, NextItem(p, body, after)
      PROVE  Goal
  <2>1. CASE job[p].item < N
    <3>1. Continue(p, body, [j EXCEPT !.item = j.item + 1])
      BY <1>6, <2>1 DEF NextItem
    <3> QED
      BY <1>3, <1>4, <3>1
  <2>2. CASE ~(job[p].item < N)
    <3>1. Continue(p, after, [j EXCEPT !.item = 1])
      BY <1>6, <2>2 DEF NextItem
    <3> QED
      BY <1>3, <1>4, <3>1
  <2> QED
    BY <2>1, <2>2
<1>7. ASSUME Raise(p)
      PROVE  Goal
  BY <1>3, <1>4, <1>7 DEF Raise
<1>8. Goal
  <2>1. Pull(p) \/ Submit(p) \/ Download(p) => Goal
    BY <1>3, <1>4, <1>5, <1>7 DEF Pull, Submit, Download
  <2>2. Publish(p) \/ CheckTags(p) \/ Edit(p) => Goal
    BY <1>3, <1>4, <1>5 DEF Publish, CheckTags, Edit
  <2>3. NextTag(p) \/ Untag(p) => Goal
    BY <1>3, <1>4, <1>5 DEF NextTag, Untag
  <2>4. \/ Extract(p) \/ CopyPath(p) \/ RemoveTree(p) \/ Copy(p)
        \/ CopyTree(p) \/ Metadata(p) \/ Complete(p) \/ GbpJson(p)
        => Goal
    BY <1>5, <1>6, <1>7
       DEF Extract, CopyPath, RemoveTree, Copy, CopyTree, Metadata, Complete,
           GbpJson
  <2>5. \/ Tag(p) \/ IsLink(p) \/ Unlink(p) \/ Symlink(p) \/ IsSymlink(p)
        \/ RemoveLink(p) \/ Delete(p) \/ DeleteTree(p) \/ DeleteRmtree(p)
        \/ Save(p)
        => Goal
    BY <1>5, <1>6, <1>7
       DEF Tag, IsLink, Unlink, Symlink, IsSymlink, RemoveLink, Delete,
           DeleteTree, DeleteRmtree, Save
  <2> QED
    BY <2>1, <2>2, <2>3, <2>4, <2>5 DEF Step
<1> QED
  BY <1>1, <1>8 DEF Goal, Keeps

\* Only publish_build goes on to publish() after its pull, which is the first
\* time that its job enters it.
LEMMA StepEntersPublish ==
    ASSUME TypeOK, NEW p \in Procs, Step(p), pc'[p] = "publish"
    PROVE  job'[p].op # "publish" /\ ~job'[p].publishing
<1> DEFINE j == job[p]
<1>1. JobsTypeOK /\ pc[p] # "idle" /\ job'[p].op = j.op
  BY StepKeepsRequest DEF TypeOK
<1>2. ASSUME NEW next, NEW local, Continue(p, next, local)
      PROVE  next = "publish"
  BY <1>1, <1>2, ContinueValue
<1>3. ASSUME NEW next, Goto(p, next)
      PROVE  next = "publish"
  BY <1>2, <1>3 DEF Goto
<1>4. ASSUME NEW body, NEW after, NextItem(p, body, after)
      PROVE  body = "publish" \/ after = "publish"
  BY <1>2, <1>4 DEF NextItem
<1>5. ~Raise(p)
  BY <1>2 DEF Raise, Handler
<1>6. AfterTag(j) # "publish"
  BY DEF AfterTag
<1>7. Pull(p) \/ GbpJson(p)
  <2>1. ~Submit(p) /\ ~Download(p) /\ ~Extract(p) /\ ~Metadata(p) /\ ~Complete(p)
    BY <1>2, <1>3, <1>5 DEF Submit, Download, Extract, Metadata, Complete
  <2>2. ~CopyPath(p) /\ ~RemoveTree(p) /\ ~Copy(p) /\ ~CopyTree(p)
    BY <1>3, <1>4, <1>5 DEF CopyPath, RemoveTree, Copy, CopyTree
  <2>3. ~NextTag(p) /\ ~Publish(p) /\ ~CheckTags(p) /\ ~Edit(p)
    BY <1>2, <1>3 DEF NextTag, Publish, CheckTags, Edit
  <2>4. ~Untag(p)
    BY <1>2, <1>3 DEF Untag
  <2>5. ~Tag(p) /\ ~IsLink(p) /\ ~Unlink(p) /\ ~Symlink(p)
    BY <1>3, <1>4, <1>5, <1>6 DEF Tag, IsLink, Unlink, Symlink
  <2>6. ~IsSymlink(p) /\ ~RemoveLink(p) /\ ~Delete(p) /\ ~DeleteTree(p)
        /\ ~DeleteRmtree(p) /\ ~Save(p)
    BY <1>3, <1>4, <1>5
       DEF IsSymlink, RemoveLink, Delete, DeleteTree, DeleteRmtree, Save
  <2> QED
    BY <2>1, <2>2, <2>3, <2>4, <2>5, <2>6 DEF Step
<1>8. Goto(p, AfterPull(j)) /\ AfterPull(j) = "publish"
  BY <1>2, <1>3, <1>5, <1>7 DEF Pull, GbpJson
<1>9. job'[p] = j
  BY <1>1, <1>8, ContinueValue DEF Goto
<1> QED
  BY <1>1, <1>8, <1>9 DEF AfterPull

\* An operation that is begun is one the process is used for.
LEMMA StartAsUsed ==
    ASSUME TypeOK, NEW p \in Procs, Start(p)
    PROVE  /\ pc'[p] # "idle" => /\ job'[p].op \in Ops[p]
                                 /\ job'[p].build \in BuildsUsed[p]
           /\ \A q \in Procs \ {p} : pc'[q] = pc[q] /\ job'[q] = job[q]
<1> DEFINE Goal == /\ pc'[p] # "idle" => /\ job'[p].op \in Ops[p]
                                         /\ job'[p].build \in BuildsUsed[p]
                   /\ \A q \in Procs \ {p} : pc'[q] = pc[q] /\ job'[q] = job[q]
<1>1. PICK b \in BuildsUsed[p] :
         \/ PullBuild(p, b) \/ PublishBuild(p, b) \/ DeleteBuild(p, b)
         \/ PublishMutation(p, b) \/ CreateBuildTag(p, b)
         \/ RemoveBuildTag(p, b) \/ KeepBuild(p, b) \/ ReleaseBuild(p, b)
         \/ CreateNote(p, b) \/ DeleteCommand(p, b)
  BY DEF Start
<1> DEFINE Asks(local, op) == local.op = op /\ local.build = b
<1>2. ASSUME NEW op, NEW step, NEW local, Begin(p, op, b, step, local),
             Asks(local, op)
      PROVE  Goal
  BY <1>2, ContinueValue DEF Begin, TypeOK
<1>3. ASSUME NEW op
      PROVE  /\ Asks(NewJob(op, b), op)
             /\ \A note : Asks([NewJob(op, b) EXCEPT !.note = note], op)
             /\ \A tag : Asks([NewJob(op, b) EXCEPT !.tag = tag], op)
             /\ \A tags : Asks([NewJob(op, b) EXCEPT !.tags = tags], op)
             /\ \A note, tags :
                   Asks([NewJob(op, b) EXCEPT !.note = note, !.tags = tags], op)
  BY DEF NewJob
<1> HIDE DEF Goal, Asks
<1>4. ASSUME PullBuild(p, b) PROVE Goal
  BY <1>2, <1>3, <1>4 DEF PullBuild
<1>5. ASSUME CreateBuildTag(p, b) PROVE Goal
  BY <1>2, <1>3, <1>5 DEF CreateBuildTag
<1>6. ASSUME RemoveBuildTag(p, b) PROVE Goal
  BY <1>2, <1>3, <1>6 DEF RemoveBuildTag
<1>7. ASSUME CreateNote(p, b) PROVE Goal
  BY <1>2, <1>3, <1>7 DEF CreateNote
<1>8. ASSUME \/ PublishBuild(p, b) \/ DeleteBuild(p, b) \/ PublishMutation(p, b)
             \/ KeepBuild(p, b) \/ ReleaseBuild(p, b) \/ DeleteCommand(p, b)
      PROVE  Goal
  BY <1>2, <1>3, <1>8
     DEF PublishBuild, DeleteBuild, PublishMutation, KeepBuild, ReleaseBuild,
         DeleteCommand
<1>9. Goal
  BY <1>1, <1>4, <1>5, <1>6, <1>7, <1>8
<1> QED
  BY <1>9 DEF Goal

\* Steps that change storage or records do so for the build of their job.
LEMMA ChangesOwnBuild ==
    ASSUME TypeOK, NEW p \in Procs, Step(p)
    PROVE  \/ UNCHANGED <<dirs, records>>
           \/ /\ \/ Submit(p) \/ CopyPath(p) \/ RemoveTree(p) \/ Copy(p)
                 \/ CopyTree(p) \/ Complete(p) \/ Delete(p) \/ DeleteTree(p)
                 \/ DeleteRmtree(p) \/ Save(p)
              /\ job[p] \in Job
              /\ \A other \in Builds \ {job[p].build} :
                    dirs'[other] = dirs[other] /\ records'[other] = records[other]
<1>1. \/ Pull(p) \/ Download(p) \/ Extract(p) \/ NextTag(p) \/ Metadata(p)
      \/ GbpJson(p) \/ Publish(p) \/ Tag(p) \/ IsLink(p) \/ Unlink(p)
      \/ Symlink(p) \/ CheckTags(p) \/ Untag(p) \/ IsSymlink(p)
      \/ RemoveLink(p) \/ Edit(p)
      => UNCHANGED <<dirs, records>>
  BY DEF Pull, Download, Extract, NextTag, Metadata, GbpJson, Publish, Tag,
         IsLink, Unlink, Symlink, CheckTags, Untag, IsSymlink, RemoveLink, Edit
<1>2. ASSUME \/ Submit(p) \/ CopyPath(p) \/ RemoveTree(p) \/ Copy(p)
             \/ CopyTree(p) \/ Complete(p) \/ Delete(p) \/ DeleteTree(p)
             \/ DeleteRmtree(p) \/ Save(p)
      PROVE  /\ job[p] \in Job
             /\ \A other \in Builds \ {job[p].build} :
                   dirs'[other] = dirs[other] /\ records'[other] = records[other]
  <2>1. pc[p] # "idle"
    BY <1>2 DEF Submit, CopyPath, RemoveTree, Copy, CopyTree, Complete, Delete,
                DeleteTree, DeleteRmtree, Save
  <2>2. /\ job[p] \in Job /\ job[p].build \in Builds
        /\ StorageTypeOK /\ RecordsTypeOK
    BY <2>1, JobFields DEF TypeOK, JobsTypeOK
  <2>3. ASSUME NEW c, NEW state, SetTree(job[p].build, c, state)
        PROVE  \A other \in Builds \ {job[p].build} : dirs'[other] = dirs[other]
    BY <2>2, <2>3 DEF SetTree, StorageTypeOK
  <2>4. CASE Submit(p) \/ Complete(p) \/ Delete(p) \/ Save(p)
    BY <2>2, <2>4, SaveValue DEF Submit, Complete, Delete, Save
  <2>5. CASE \/ CopyPath(p) \/ RemoveTree(p) \/ Copy(p) \/ CopyTree(p)
             \/ DeleteTree(p) \/ DeleteRmtree(p)
    BY <2>2, <2>3, <2>5
       DEF CopyPath, RemoveTree, Copy, CopyTree, DeleteTree, DeleteRmtree
  <2> QED
    BY <1>2, <2>4, <2>5
<1> QED
  BY <1>1, <1>2 DEF Step

\* The publish mutation begins on a build that has been pulled, and nothing
\* else enters BuildPublisher.publish() for it.
LEMMA PublishBegins ==
    ASSUME TypeOK, NEW p \in Procs, Start(p), pc'[p] = "publish"
    PROVE  Pulled(job'[p].build) /\ UNCHANGED <<dirs, records>>
<1>1. PICK b \in BuildsUsed[p] :
         \/ PullBuild(p, b) \/ PublishBuild(p, b) \/ DeleteBuild(p, b)
         \/ PublishMutation(p, b) \/ CreateBuildTag(p, b)
         \/ RemoveBuildTag(p, b) \/ KeepBuild(p, b) \/ ReleaseBuild(p, b)
         \/ CreateNote(p, b) \/ DeleteCommand(p, b)
  BY DEF Start
<1> DEFINE Goal(step, local) ==
              step = "publish" /\ job'[p] = local /\ UNCHANGED <<dirs, records>>
<1>2. ASSUME NEW op, NEW step, NEW local, Begin(p, op, b, step, local)
      PROVE  Goal(step, local)
  <2>1. /\ UNCHANGED <<dirs, records>> /\ JobsTypeOK
        /\ Continue(p, step, local)
    BY <1>2 DEF Begin, TypeOK
  <2> QED
    BY <2>1, ContinueValue
<1>3. \A step, local : Goal(step, local) => step = "publish"
  OBVIOUS
<1> HIDE DEF Goal
<1>4. PublishMutation(p, b)
  <2>1. ~PullBuild(p, b)
    BY <1>2, <1>3 DEF PullBuild
  <2>2. ~CreateBuildTag(p, b)
    BY <1>2, <1>3 DEF CreateBuildTag
  <2>3. ~RemoveBuildTag(p, b)
    BY <1>2, <1>3 DEF RemoveBuildTag
  <2>4. ~CreateNote(p, b)
    BY <1>2, <1>3 DEF CreateNote
  <2>5. ~DeleteCommand(p, b)
    BY <1>2, <1>3 DEF DeleteCommand
  <2>6. /\ ~PublishBuild(p, b) /\ ~DeleteBuild(p, b) /\ ~KeepBuild(p, b)
        /\ ~ReleaseBuild(p, b)
    BY <1>2, <1>3 DEF PublishBuild, DeleteBuild, KeepBuild, ReleaseBuild
  <2> QED
    BY <1>1, <2>1, <2>2, <2>3, <2>4, <2>5, <2>6
<1>5. job'[p] = NewJob("publish", b) /\ UNCHANGED <<dirs, records>>
  <2>1. Begin(p, "publish", b, "publish", NewJob("publish", b))
    BY <1>4 DEF PublishMutation
  <2> QED
    BY <1>2, <2>1 DEF Goal
<1>6. job'[p].build = b
  <2>1. NewJob("publish", b).build = b
    BY DEF NewJob
  <2> QED
    BY <1>5, <2>1
<1> QED
  <2>1. Pulled(b)
    BY <1>4 DEF PublishMutation
  <2> QED
    BY <1>5, <1>6, <2>1

\* A process runs the operations, on the builds, that it is used for.
AsUsed ==
    \A p \in Procs : pc[p] # "idle" =>
        job[p].op \in Ops[p] /\ job[p].build \in BuildsUsed[p]

\* The two halves of Orderly.
Exclusive ==
    /\ crashes = 0
    /\ \A b \in Builds : \A p, q \in Procs :
          WorksOn(p, b) /\ WorksOn(q, b) => p = q

Found ==
    \A p \in Procs : pc[p] = "publish" /\ job[p].op = "publish" =>
        Pulled(job[p].build)

\* Jobs are begun for what a process is used for, and remain what they are.
LEMMA AsUsedNext ==
    ASSUME AsUsed, TypeOK, [Next]_vars
    PROVE  AsUsed'
<1>1. CASE UNCHANGED vars
  BY <1>1 DEF vars, AsUsed
<1>2. CASE Next
  <2>1. PICK p \in Procs : Start(p) \/ Step(p) \/ Crash(p)
    BY <1>2 DEF Next
  <2>2. CASE Start(p)
    BY <2>2, StartAsUsed DEF AsUsed
  <2>3. CASE Step(p)
    BY <2>3, StepKeepsRequest DEF AsUsed
  <2>4. CASE Crash(p)
    <3>1. pc[p] # "idle" /\ Goto(p, "idle")
      BY <2>4 DEF Crash
    <3>2. JobsTypeOK
      BY DEF TypeOK
    <3>3. /\ pc'[p] = "idle"
          /\ \A q \in Procs \ {p} : pc'[q] = pc[q] /\ job'[q] = job[q]
      BY <3>1, <3>2, ControlValue
    <3> QED
      BY <3>3 DEF AsUsed
  <2> QED
    BY <2>1, <2>2, <2>3, <2>4
<1> QED
  BY <1>1, <1>2

\* Processes do what they are used for.
LEMMA AsUsedInvariant == Spec => []AsUsed
<1>1. Init => AsUsed
  BY DEF Init, AsUsed
<1>2. AsUsed /\ TypeOK /\ [Next]_vars => AsUsed'
  BY AsUsedNext
<1> QED
  BY <1>1, <1>2, TypeCorrect, PTL DEF Spec

\* Writers that are used for different builds work on different builds.
LEMMA WritersApartExclusive ==
    ASSUME WritersApart, TypeOK, AsUsed
    PROVE  Exclusive
<1>1. crashes = 0
  BY DEF WritersApart, TypeOK
<1>2. ASSUME NEW b \in Builds, NEW p \in Procs, NEW q \in Procs,
             WorksOn(p, b), WorksOn(q, b)
      PROVE  p = q
  BY <1>2 DEF WritersApart, WorksOn, AsUsed
<1> QED
  BY <1>1, <1>2 DEF Exclusive

\* Only a step of another process, one that writes the build or its record,
\* can take a build away that the publish mutation has found.
LEMMA FoundIsLost ==
    ASSUME Inv, crashes = MaxCrashes, Found, [Next]_vars,
           NEW p \in Procs, pc'[p] = "publish", job'[p].op = "publish",
           ~Pulled(job[p].build)'
    PROVE  /\ pc[p] = "publish" /\ job[p].op = "publish"
           /\ job[p].build \in Builds /\ job'[p].build = job[p].build
           /\ \E q \in Procs \ {p} :
                 Step(q) /\ job[q].op \notin TagOps /\ WorksOn(q, job[p].build)
<1>1. ~(pc[p] = pc'[p] /\ job[p] = job'[p] /\ UNCHANGED <<dirs, records>>)
  BY DEF Pulled, StoragePulled, Exists, RecordOf, RecordExists, Found
<1>2. PICK q \in Procs : Start(q) \/ Step(q) \/ Crash(q)
  BY <1>1 DEF Next, vars
<1>3. TypeOK /\ ~Crash(q)
  BY DEF Crash, Inv, TypeOK, PublisherAssumption
<1>4. ~Start(q)
  <2>1. SUFFICES ASSUME Start(q) PROVE FALSE
    OBVIOUS
  <2>2. q # p
    BY <1>3, <2>1, PublishBegins
       DEF Pulled, StoragePulled, Exists, RecordOf, RecordExists
  <2>3. UNCHANGED <<dirs, records>>
    BY <2>1
       DEF Start, PullBuild, PublishBuild, DeleteBuild, PublishMutation,
           CreateBuildTag, RemoveBuildTag, KeepBuild, ReleaseBuild,
           CreateNote, DeleteCommand, Begin
  <2> QED
    BY <1>1, <1>3, <2>1, <2>2, <2>3, StartAsUsed
<1>5. Step(q) /\ q # p
  BY <1>2, <1>3, <1>4, StepEntersPublish
<1>6. pc'[p] = pc[p] /\ job'[p] = job[p]
  BY <1>3, <1>5, StepKeepsRequest
<1>7. job[p].build \in Builds
  BY <1>3, <1>6, JobFields DEF TypeOK, JobsTypeOK
<1>8. /\ job[q] \in Job
      /\ \/ Submit(q) \/ CopyPath(q) \/ RemoveTree(q) \/ Copy(q)
         \/ CopyTree(q) \/ Complete(q) \/ Delete(q) \/ DeleteTree(q)
         \/ DeleteRmtree(q) \/ Save(q)
      /\ \A other \in Builds \ {job[q].build} :
            dirs'[other] = dirs[other] /\ records'[other] = records[other]
  BY <1>1, <1>3, <1>5, <1>6, ChangesOwnBuild
<1>9. job[q].op \notin TagOps /\ pc[q] # "idle"
  BY <1>8 DEF Inv, InShape, TagOpSteps, SetTagSteps, UntagSteps, Submit,
              CopyPath, RemoveTree, Copy, CopyTree, Complete, Delete,
              DeleteTree, DeleteRmtree, Save
<1>10. job[p].build = job[q].build
  <2>1. SUFFICES ASSUME job[p].build # job[q].build PROVE FALSE
    OBVIOUS
  <2>2. /\ dirs'[job[p].build] = dirs[job[p].build]
        /\ records'[job[p].build] = records[job[p].build]
    BY <1>7, <1>8, <2>1
  <2> QED
    BY <1>6, <2>2
       DEF Found, Pulled, StoragePulled, Exists, RecordOf, RecordExists
<1> QED
  BY <1>5, <1>6, <1>7, <1>9, <1>10 DEF WorksOn

\* Where builds are not shared, nobody is there to take them away.
LEMMA SeparateFound ==
    ASSUME Separate, AsUsed, Inv, Found, [Next]_vars
    PROVE  Found'
<1>1. SUFFICES ASSUME NEW p \in Procs, pc'[p] = "publish",
                      job'[p].op = "publish", ~Pulled(job[p].build)'
               PROVE  FALSE
  BY DEF Found
<1>2. crashes = MaxCrashes
  BY WritersApartExclusive DEF Inv, Exclusive, WritersApart, Separate
<1>3. PICK q \in Procs \ {p} :
        /\ pc[p] = "publish" /\ job[p].op = "publish"
        /\ job[q].op \notin TagOps /\ WorksOn(q, job[p].build)
  BY <1>1, <1>2, FoundIsLost
<1> QED
  BY <1>3 DEF Separate, AsUsed, WorksOn

\* Processes that are used for different builds, or only to tag builds, keep
\* a behaviour orderly while none of them dies: nobody else can take away the
\* build that the publish mutation has looked at.
THEOREM SeparateIsOrderly == Separate => (Spec => []Orderly)
<1> SUFFICES ASSUME Separate PROVE Spec => []Orderly
  OBVIOUS
<1>1. Init => Inv /\ Found
  BY InitInv DEF Init, Found
<1>2. TypeOK /\ AsUsed => Exclusive
  BY WritersApartExclusive DEF Separate
<1>3. Exclusive /\ Found => Orderly
  BY DEF Orderly, Exclusive, Found
<1>4. AsUsed /\ Inv /\ Found /\ [Next]_vars => Found'
  BY SeparateFound
<1>5. Inv /\ Orderly /\ Orderly' /\ TypeOK' /\ [Next]_vars => Inv'
  BY NextPreserves
<1> QED
  BY <1>1, <1>2, <1>3, <1>4, <1>5, AsUsedInvariant, TypeCorrect, PTL
     DEF Spec

(***************************************************************************)
(* Refinement: in an orderly behaviour every step takes every build from a *)
(* stage to the next one, or leaves it there.                              *)
(***************************************************************************)

\* The stage that build b is in, and the changes that BuildLifecycle allows.
StageOf(b) == Stage(dirs[b], records[b])

Moves == {<<"absent", "pulling">>, <<"pulling", "complete">>,
          <<"complete", "deleting">>, <<"pulling", "deleting">>,
          <<"pulling", "absent">>, <<"deleting", "absent">>}

\* A step that changes one build, and moves it along, is a lifecycle step.
LEMMA MoveIsLifecycleStep ==
    ASSUME NEW b \in Builds,
           \A other \in Builds \ {b} :
              dirs'[other] = dirs[other] /\ records'[other] = records[other],
           StageOf(b)' = StageOf(b) \/ <<StageOf(b), StageOf(b)'>> \in Moves
    PROVE  [Lifecycle!Next]_[x \in Builds |-> StageOf(x)]
<1> DEFINE stage == [x \in Builds |-> StageOf(x)]
<1>1. stage' = [stage EXCEPT ![b] = StageOf(b)']
  BY DEF StageOf
<1>2. stage[b] = StageOf(b)
  OBVIOUS
<1>3. CASE StageOf(b)' = StageOf(b)
  <2>1. stage' = stage
    BY <1>1, <1>2, <1>3
  <2> QED
    BY <2>1
<1>4. CASE <<StageOf(b), StageOf(b)'>> \in Moves
  <2>1. ASSUME NEW from, NEW to, StageOf(b) = from, StageOf(b)' = to
        PROVE  Lifecycle!Move(b, from, to)
    BY <1>1, <1>2, <2>1 DEF Lifecycle!Move, StageOf
  <2>2. \/ Lifecycle!BeginPull(b) \/ Lifecycle!Complete(b)
        \/ Lifecycle!BeginDelete(b) \/ Lifecycle!Fail(b)
        \/ Lifecycle!EndDelete(b)
    BY <1>4, <2>1
       DEF Moves, Lifecycle!BeginPull, Lifecycle!Complete,
           Lifecycle!BeginDelete, Lifecycle!Fail, Lifecycle!EndDelete
  <2> QED
    BY <2>2 DEF Lifecycle!Next
<1> QED
  BY <1>3, <1>4

\* A step that changes its build moves it along.
LEMMA StepMoves ==
    ASSUME Inv, NEW p \in Procs, NEW b \in Builds, job[p] \in Job, job[p].build = b,
           \/ Submit(p) \/ CopyPath(p) \/ RemoveTree(p) \/ Copy(p)
           \/ CopyTree(p) \/ Complete(p) \/ Delete(p) \/ DeleteTree(p)
           \/ DeleteRmtree(p) \/ Save(p)
    PROVE  StageOf(b)' = StageOf(b) \/ <<StageOf(b), StageOf(b)'>> \in Moves
<1> DEFINE j == job[p]
<1>1. StorageTypeOK /\ RecordsTypeOK /\ j.item \in Content /\ 1 \in Content
  <2>1. N \in Nat \ {0}
    BY StorageAssumption
  <2>2. 1 \in Content
    BY <2>1 DEF Content
  <2> QED
    BY <2>2 DEF Inv, TypeOK, Job
<1>2. Shape(pc[p], j, p, dirs[b], records[b])
  <2>1. pc[p] \in {"submit", "copy_path", "rmtree", "copy", "copytree", "complete",
                   "delete", "delete tree", "delete rmtree", "save"}
    BY DEF Submit, CopyPath, RemoveTree, Copy, CopyTree, Complete, Delete,
           DeleteTree, DeleteRmtree, Save
  <2> QED
    BY <2>1 DEF Inv, InShape, TagOpSteps, SetTagSteps, UntagSteps
<1>3. CASE Submit(p)
  <2>1. records[b] = Nil /\ Gone(dirs[b]) /\ ~j.record.completed
    BY <1>2, <1>3 DEF Shape, Submit
  <2> DEFINE record == [j.record EXCEPT !.note = j.note]
  <2>2. record \in Record /\ ~record.completed
    BY <2>1 DEF Job, Record
  <2>3. records'[b] = record /\ UNCHANGED dirs
    BY <1>1, <1>3, SaveValue DEF Submit
  <2>4. records'[b] # Nil /\ ~records'[b].completed
    BY <2>2, <2>3, RecordsAssumption
  <2>5. StageOf(b) = "absent" /\ StageOf(b)' = "pulling"
    BY <2>1, <2>3, <2>4 DEF StageOf, Stage
  <2> QED
    BY <2>5 DEF Moves
<1>4. CASE CopyPath(p) \/ RemoveTree(p) \/ Copy(p) \/ CopyTree(p)
  <2>1. UNCHANGED records
    BY <1>4 DEF CopyPath, RemoveTree, Copy, CopyTree
  <2>2. records[b] # Nil /\ ~records[b].completed
    BY <1>2, <1>4
       DEF Shape, Pulling, CopyPath, RemoveTree, Copy, CopyTree
  <2> QED
    BY <2>1, <2>2 DEF StageOf, Stage
<1>5. CASE Complete(p)
  <2>1. records[b] # Nil /\ ~records[b].completed /\ Whole(dirs[b])
    BY <1>2, <1>5 DEF Shape, Pulling, Complete
  <2> DEFINE record == [j.record EXCEPT !.completed = TRUE]
  <2>2. record \in Record /\ record.completed
    BY DEF Job, Record
  <2>3. records'[b] = record /\ UNCHANGED dirs
    BY <1>1, <1>5, SaveValue DEF Complete
  <2>4. records'[b] # Nil /\ records'[b].completed
    BY <2>2, <2>3, RecordsAssumption
  <2>5. StageOf(b) = "pulling" /\ StageOf(b)' = "complete"
    BY <2>1, <2>3, <2>4 DEF StageOf, Stage
  <2> QED
    BY <2>5 DEF Moves
<1>6. CASE Delete(p)
  <2>1. IsCompleted(records[b]) => Whole(dirs[b])
    BY <1>2, <1>6 DEF Shape, Delete
  <2>2. records'[b] = Nil /\ UNCHANGED dirs
    BY <1>1, <1>6, SaveValue DEF Delete
  <2>3. StageOf(b)' = IF Gone(dirs[b]) THEN "absent" ELSE "deleting"
    BY <2>2 DEF StageOf, Stage
  <2>4. Whole(dirs[b]) => ~Gone(dirs[b])
    BY <1>1 DEF Whole, Gone
  <2> QED
    BY <2>1, <2>3, <2>4 DEF StageOf, Stage, IsCompleted, Moves
<1>7. CASE DeleteTree(p)
  <2>1. records[b] = Nil /\ UNCHANGED records
    BY <1>2, <1>7 DEF Shape, DeleteTree
  <2>2. CASE Exists(b, j.item)
    <3>1. dirs[b][j.item] # "absent" /\ SetTree(b, j.item, "partial")
      BY <1>7, <2>2 DEF DeleteTree, Exists
    <3>2. dirs'[b][j.item] = "partial"
      BY <1>1, <3>1 DEF SetTree, StorageTypeOK
    <3>3. ~Gone(dirs[b]) /\ ~Gone(dirs'[b])
      BY <1>1, <3>1, <3>2 DEF Gone
    <3> QED
      BY <2>1, <3>3 DEF StageOf, Stage
  <2>3. CASE ~Exists(b, j.item)
    BY <1>7, <2>1, <2>3 DEF DeleteTree, StageOf
  <2> QED
    BY <2>2, <2>3
<1>8. CASE DeleteRmtree(p)
  <2>1. /\ records[b] = Nil /\ UNCHANGED records
        /\ dirs[b][j.item] = "partial"
    BY <1>2, <1>8 DEF Shape, DeleteRmtree
  <2>2. StageOf(b) = "deleting"
    BY <1>1, <2>1 DEF StageOf, Stage, Gone
  <2>3. StageOf(b)' \in {"deleting", "absent"}
    BY <2>1 DEF StageOf, Stage
  <2> QED
    BY <2>2, <2>3 DEF Moves
<1>9. CASE Save(p)
  <2>1. /\ IsSettled(dirs[b], records[b]) /\ records[b] # Nil
        /\ j.record.completed = records[b].completed
    BY <1>2, <1>9 DEF Shape, Save
  <2>2. records'[b] = Edited(j) /\ UNCHANGED dirs
    BY <1>1, <1>9, SaveValue DEF Save
  <2>3. Edited(j) \in Record /\ Edited(j).completed = j.record.completed
    <3>1. Edited(j) \in {[j.record EXCEPT !.keep = TRUE],
                         [j.record EXCEPT !.keep = FALSE],
                         [j.record EXCEPT !.note = j.note]}
      BY DEF Edited
    <3>2. j.record \in Record /\ j.note \in Notes \cup {Nil}
      BY DEF Job
    <3> QED
      BY <3>1, <3>2 DEF Record
  <2>4. records'[b] # Nil
    BY <2>2, <2>3, RecordsAssumption
  <2> QED
    BY <2>1, <2>2, <2>3, <2>4 DEF StageOf, Stage, IsSettled, IsCompleted
<1> QED
  BY <1>3, <1>4, <1>5, <1>6, <1>7, <1>8, <1>9

\* In an orderly behaviour, storage and records go through the stages of the
\* life of a build in order: pull() never runs over what an earlier pull or
\* deletion has left, and a record is completed only over complete trees.
THEOREM OrderlyFollowsLifecycle == Spec /\ []Orderly => FollowsLifecycle
<1>1. Init => Lifecycle!Init
  BY DEF Init, StorageInit, RecordsInit, Lifecycle!Init, Stage, Gone
<1>2. ASSUME Inv, Orderly', [Next]_vars
      PROVE  [Lifecycle!Next]_[x \in Builds |-> StageOf(x)]
  <2>1. CASE UNCHANGED <<dirs, records>>
    BY <2>1 DEF StageOf
  <2>2. CASE ~UNCHANGED <<dirs, records>>
    <3>1. PICK p \in Procs : Start(p) \/ Step(p) \/ Crash(p)
      BY <1>2, <2>2 DEF Next, vars
    <3>2. ~Crash(p)
      BY <1>2 DEF Crash, Orderly, Inv, TypeOK
    <3>3. ~Start(p)
      BY <2>2
         DEF Start, PullBuild, PublishBuild, DeleteBuild, PublishMutation,
             CreateBuildTag, RemoveBuildTag, KeepBuild, ReleaseBuild,
             CreateNote, DeleteCommand, Begin
    <3>4. Step(p) /\ TypeOK
      BY <1>2, <3>1, <3>2, <3>3 DEF Inv
    <3>5. /\ \/ Submit(p) \/ CopyPath(p) \/ RemoveTree(p) \/ Copy(p)
             \/ CopyTree(p) \/ Complete(p) \/ Delete(p) \/ DeleteTree(p)
             \/ DeleteRmtree(p) \/ Save(p)
          /\ job[p] \in Job
          /\ \A other \in Builds \ {job[p].build} :
                dirs'[other] = dirs[other] /\ records'[other] = records[other]
      BY <2>2, <3>4, ChangesOwnBuild
    <3>6. job[p].build \in Builds
      BY <3>5, JobFields
    <3> QED
      BY <1>2, <3>5, <3>6, StepMoves, MoveIsLifecycleStep
  <2> QED
    BY <2>1, <2>2
<1>3. Inv /\ Orderly' /\ [Next]_vars
        => [Lifecycle!Next]_[b \in Builds |-> Stage(dirs[b], records[b])]
  BY <1>2 DEF StageOf
<1> QED
  BY <1>1, <1>3, OrderlyInvariant, PTL DEF Spec, FollowsLifecycle, Lifecycle!Safety
=============================================================================
