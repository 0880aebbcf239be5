----------------------------- MODULE CrashProofs -----------------------------
(***************************************************************************)
(* Whatever number of processes dies, a completed record means complete    *)
(* trees, as long as no copy of a tree and no deletion is cut short:       *)
(* CrashInv is an invariant of behaviours in which one process at a time   *)
(* pulls or deletes a build.                                               *)
(***************************************************************************)
EXTENDS Crashes, ConsistencyProofs

(***************************************************************************)
(* Frames                                                                  *)
(***************************************************************************)

\* A step of a job on b that leaves the other jobs and builds alone preserves
\* the invariant if it does so for b.
LEMMA CrashFrame ==
    ASSUME CrashInv, TypeOK', NEW p \in Procs, NEW b \in Builds,
           pc[p] # "idle", job[p].build = b,
           \A q \in Procs \ {p} : pc'[q] = pc[q] /\ job'[q] = job[q],
           \A other \in Builds \ {b} :
              dirs'[other] = dirs[other] /\ records'[other] = records[other],
           pc'[p] # "idle" =>
              job'[p].build = b /\ Holding(pc'[p], job'[p], dirs'[b], records'[b]),
           IsCompleted(records'[b]) => Whole(dirs'[b]),
           Stores(p, b)' => Storing(pc'[p], job'[p], p, dirs'[b]),
           (\A q \in Procs : ~Stores(q, b)') => InOrder(dirs'[b]),
           \A q \in Procs \ {p} : Stores(q, b) =>
              Storing(pc[q], job[q], q, dirs'[b]),
           \A q \in Procs \ {p} : pc[q] # "idle" /\ job[q].build = b =>
              Holding(pc[q], job[q], dirs'[b], records'[b]),
           \A c \in Content, q \in Procs : dirs'[b][c] = q =>
              pc'[q] = "copytree" /\ job'[q].build = b /\ job'[q].item = c
    PROVE  CrashInv'
<1>1. ASSUME NEW other \in Builds \ {b}, NEW q \in Procs
      PROVE  Stores(q, other)' <=> Stores(q, other)
  BY DEF Stores
<1>2. CompletedIsWhole'
  BY DEF CrashInv, CompletedIsWhole, Completed
<1>3. ASSUME NEW d \in Builds, \A q \in Procs : ~Stores(q, d)'
      PROVE  InOrder(dirs'[d])
  <2>1. CASE d = b
    BY <1>3, <2>1
  <2>2. CASE d # b
    <3>1. dirs'[d] = dirs[d] /\ \A q \in Procs : ~Stores(q, d)
      BY <1>1, <1>3, <2>2
    <3> QED
      BY <3>1 DEF CrashInv
  <2> QED
    BY <2>1, <2>2
<1>4. ASSUME NEW q \in Procs, NEW d \in Builds, Stores(q, d)'
      PROVE  Storing(pc'[q], job'[q], q, dirs'[d])
  <2>1. CASE d = b
    <3>1. CASE q = p
      BY <1>4, <2>1, <3>1
    <3>2. CASE q # p
      <4>1. pc'[q] = pc[q] /\ job'[q] = job[q]
        BY <3>2
      <4>2. Stores(q, b)
        BY <1>4, <2>1, <4>1 DEF Stores
      <4> QED
        BY <2>1, <3>2, <4>1, <4>2
    <3> QED
      BY <3>1, <3>2
  <2>2. CASE d # b
    <3>1. q # p /\ Stores(q, d)
      BY <1>1, <1>4, <2>2 DEF Stores
    <3>2. dirs'[d] = dirs[d] /\ pc'[q] = pc[q] /\ job'[q] = job[q]
      BY <2>2, <3>1
    <3> QED
      BY <3>1, <3>2 DEF CrashInv
  <2> QED
    BY <2>1, <2>2
<1>5. ASSUME NEW q \in Procs, pc'[q] # "idle"
      PROVE  Holding(pc'[q], job'[q], dirs'[job'[q].build], records'[job'[q].build])
  <2>1. CASE q = p
    BY <1>5, <2>1
  <2>2. CASE q # p
    <3>1. pc'[q] = pc[q] /\ job'[q] = job[q]
      BY <2>2
    <3>2. job[q].build \in Builds
      BY <1>5, <3>1, JobFields DEF CrashInv, TypeOK, JobsTypeOK
    <3>3. CASE job[q].build = b
      BY <1>5, <2>2, <3>1, <3>3
    <3>4. CASE job[q].build # b
      BY <1>5, <3>1, <3>2, <3>4 DEF CrashInv
    <3> QED
      BY <3>3, <3>4
  <2> QED
    BY <2>1, <2>2
<1>6. ASSUME NEW d \in Builds, NEW c \in Content, NEW q \in Procs, dirs'[d][c] = q
      PROVE  pc'[q] = "copytree" /\ job'[q].build = d /\ job'[q].item = c
  <2>1. CASE d = b
    BY <1>6, <2>1
  <2>2. CASE d # b
    <3>1. pc[q] = "copytree" /\ job[q].build = d /\ job[q].item = c
      BY <1>6, <2>2 DEF CrashInv
    <3> QED
      BY <2>2, <3>1
  <2> QED
    BY <2>1, <2>2
<1> QED
  BY <1>2, <1>3, <1>4, <1>5, <1>6 DEF CrashInv

\* A step of a job on b that changes neither trees nor records.
LEMMA QuietFrame ==
    ASSUME CrashInv, TypeOK', NEW p \in Procs, NEW b \in Builds,
           pc[p] \notin {"idle", "copytree"}, job[p].build = b,
           UNCHANGED <<dirs, records>>,
           \A q \in Procs \ {p} : pc'[q] = pc[q] /\ job'[q] = job[q],
           pc'[p] # "idle" =>
              job'[p].build = b /\ Holding(pc'[p], job'[p], dirs[b], records[b]),
           Stores(p, b)' => Storing(pc'[p], job'[p], p, dirs[b]),
           Stores(p, b) /\ ~Stores(p, b)' => InOrder(dirs[b])
    PROVE  CrashInv'
<1>1. (\A q \in Procs : ~Stores(q, b)') => InOrder(dirs'[b])
  <2>1. SUFFICES ASSUME \A q \in Procs : ~Stores(q, b)', ~Stores(p, b)
                 PROVE  InOrder(dirs[b])
    OBVIOUS
  <2>2. \A q \in Procs : ~Stores(q, b)
    BY <2>1 DEF Stores
  <2> QED
    BY <2>2 DEF CrashInv
<1>2. IsCompleted(records'[b]) => Whole(dirs'[b])
  BY DEF CrashInv, CompletedIsWhole, Completed
<1>3. ASSUME NEW q \in Procs \ {p}
      PROVE  /\ Stores(q, b) => Storing(pc[q], job[q], q, dirs'[b])
             /\ pc[q] # "idle" /\ job[q].build = b =>
                   Holding(pc[q], job[q], dirs'[b], records'[b])
  BY DEF CrashInv
<1>4. ASSUME NEW c \in Content, NEW q \in Procs, dirs'[b][c] = q
      PROVE  pc'[q] = "copytree" /\ job'[q].build = b /\ job'[q].item = c
  <2>1. pc[q] = "copytree" /\ job[q].build = b /\ job[q].item = c
    BY <1>4 DEF CrashInv
  <2> QED
    BY <2>1
<1> QED
  BY <1>1, <1>2, <1>3, <1>4, CrashFrame

\* The copies in the trees of a build are those of the process that stores it.
LEMMA OwnCopies ==
    ASSUME CrashInv, OneStorer, NEW p \in Procs, NEW b \in Builds, Stores(p, b),
           NEW c \in Content, NEW q \in Procs, dirs[b][c] = q
    PROVE  q = p /\ pc[p] = "copytree" /\ job[p].item = c
<1>1. pc[q] = "copytree" /\ job[q].build = b /\ job[q].item = c
  BY DEF CrashInv
<1>2. job[q].op \in {"pull_build", "publish_build", "publish"}
  BY <1>1 DEF CrashInv, Holding, PullSteps
<1>3. Stores(q, b)
  BY <1>1, <1>2 DEF Stores, StoringJob, Tasks, PullSteps
<1> QED
  BY <1>1, <1>3 DEF OneStorer

\* A step of the process that stores b.  It may damage complete trees only
\* while it deletes the build.
LEMMA StoreFrame ==
    ASSUME CrashInv, OneStorer, TypeOK', NEW p \in Procs, NEW b \in Builds,
           Stores(p, b),
           \A q \in Procs \ {p} : pc'[q] = pc[q] /\ job'[q] = job[q],
           \A other \in Builds \ {b} :
              dirs'[other] = dirs[other] /\ records'[other] = records[other],
           pc'[p] # "idle" =>
              job'[p].build = b /\ Holding(pc'[p], job'[p], dirs'[b], records'[b]),
           IsCompleted(records'[b]) => Whole(dirs'[b]),
           Whole(dirs[b]) => Whole(dirs'[b]) \/ pc[p] \in DeletionSteps,
           Stores(p, b)' => Storing(pc'[p], job'[p], p, dirs'[b]),
           ~Stores(p, b)' => InOrder(dirs'[b]),
           \A c \in Content : dirs'[b][c] \in Procs =>
              dirs'[b][c] = p /\ pc'[p] = "copytree" /\ job'[p].item = c
    PROVE  CrashInv'
<1>1. pc[p] # "idle" /\ job[p].build = b
  BY DEF Stores
<1>2. \A q \in Procs \ {p} : ~Stores(q, b)
  BY DEF OneStorer
<1>3. ASSUME NEW q \in Procs \ {p}, pc[q] # "idle", job[q].build = b
      PROVE  Holding(pc[q], job[q], dirs'[b], records'[b])
  <2>1. Holding(pc[q], job[q], dirs[b], records[b])
    BY <1>3 DEF CrashInv
  <2>2. pc[q] \notin DeletionSteps
    <3>1. job[q].op \notin Tasks \cup Commands
      BY <1>2, <1>3 DEF Stores, StoringJob
    <3> QED
      BY <2>1, <3>1 DEF Holding
  <2>3. pc[q] = "save" => pc[p] \notin DeletionSteps
    <3>1. SUFFICES ASSUME pc[q] = "save", pc[p] \in DeletionSteps
                   PROVE  FALSE
      OBVIOUS
    <3>2. job[q].op \in RecordEdits
      BY <2>1, <3>1 DEF Holding
    <3>3. WorksOn(q, b)
      BY <1>3, <3>2 DEF WorksOn, TagOps, RecordEdits
    <3> QED
      BY <3>1, <3>3 DEF OneStorer
  <2> QED
    BY <2>1, <2>2, <2>3 DEF Holding, DeletionSteps
<1>4. \A c \in Content, q \in Procs : dirs'[b][c] = q =>
        pc'[q] = "copytree" /\ job'[q].build = b /\ job'[q].item = c
  OBVIOUS
<1> QED
  BY <1>1, <1>2, <1>3, <1>4, CrashFrame

(***************************************************************************)
(* Steps                                                                   *)
(***************************************************************************)

\* The job of p is the one it was, at content i.
SameJob(p, i) ==
    /\ job'[p].op = job[p].op /\ job'[p].build = job[p].build
    /\ job'[p].record = job[p].record /\ job'[p].item = i

\* What Goto(), NextItem() and Raise() make of a job.
LEMMA ControlKeeps ==
    ASSUME TypeOK, NEW p \in Procs, pc[p] # "idle"
    PROVE  /\ \A next : Goto(p, next) =>
                 pc'[p] = next /\ (next # "idle" => SameJob(p, job[p].item))
           /\ \A body, after : NextItem(p, body, after) =>
                 IF job[p].item < N
                 THEN pc'[p] = body /\ (body # "idle" => SameJob(p, job[p].item + 1))
                 ELSE pc'[p] = after /\ (after # "idle" => SameJob(p, 1))
           /\ Raise(p) =>
                 /\ pc'[p] = Handler(job[p])
                 /\ Handler(job[p]) # "idle" => SameJob(p, 1)
<1>1. JobsTypeOK /\ job[p] \in Job
  BY DEF TypeOK, JobsTypeOK
<1>2. ASSUME NEW i, job'[p] = [job[p] EXCEPT !.item = i]
      PROVE  SameJob(p, i)
  BY <1>1, <1>2 DEF Job, SameJob
<1>3. /\ \A next : Goto(p, next) =>
            pc'[p] = next /\ (next # "idle" => job'[p] = job[p])
      /\ \A body, after : NextItem(p, body, after) =>
            IF job[p].item < N
            THEN /\ pc'[p] = body
                 /\ body # "idle" =>
                      job'[p] = [job[p] EXCEPT !.item = job[p].item + 1]
            ELSE /\ pc'[p] = after
                 /\ after # "idle" => job'[p] = [job[p] EXCEPT !.item = 1]
      /\ Raise(p) =>
            /\ pc'[p] = Handler(job[p])
            /\ Handler(job[p]) # "idle" => job'[p] = [job[p] EXCEPT !.item = 1]
  BY <1>1, ControlValue
<1>4. ASSUME NEW next, Goto(p, next)
      PROVE  pc'[p] = next /\ (next # "idle" => SameJob(p, job[p].item))
  BY <1>3, <1>4 DEF SameJob
<1>5. ASSUME NEW body, NEW after, NextItem(p, body, after)
      PROVE  IF job[p].item < N
             THEN pc'[p] = body /\ (body # "idle" => SameJob(p, job[p].item + 1))
             ELSE pc'[p] = after /\ (after # "idle" => SameJob(p, 1))
  <2>1. CASE job[p].item < N
    <3>1. /\ pc'[p] = body
          /\ body # "idle" => job'[p] = [job[p] EXCEPT !.item = job[p].item + 1]
      BY <1>3, <1>5, <2>1
    <3> QED
      BY <1>2, <2>1, <3>1
  <2>2. CASE ~(job[p].item < N)
    <3>1. pc'[p] = after /\ (after # "idle" => job'[p] = [job[p] EXCEPT !.item = 1])
      BY <1>3, <1>5, <2>2
    <3> QED
      BY <1>2, <2>2, <3>1
  <2> QED
    BY <2>1, <2>2
<1>6. ASSUME Raise(p)
      PROVE  /\ pc'[p] = Handler(job[p])
             /\ Handler(job[p]) # "idle" => SameJob(p, 1)
  <2>1. /\ pc'[p] = Handler(job[p])
        /\ Handler(job[p]) # "idle" => job'[p] = [job[p] EXCEPT !.item = 1]
    BY <1>3, <1>6
  <2> QED
    BY <1>2, <2>1
<1> QED
  BY <1>4, <1>5, <1>6

\* What is known of a job at a step, and of the build that it works on.
LEMMA JobKnown ==
    ASSUME CrashInv, NEW p \in Procs, pc[p] # "idle"
    PROVE  /\ TypeOK /\ JobsTypeOK /\ StorageTypeOK /\ RecordsTypeOK
           /\ job[p] \in Job /\ job[p].build \in Builds /\ job[p].item \in Content
           /\ Holding(pc[p], job[p], dirs[job[p].build], records[job[p].build])
           /\ Stores(p, job[p].build) <=> StoringJob(pc[p], job[p])
           /\ Stores(p, job[p].build) =>
                 Storing(pc[p], job[p], p, dirs[job[p].build])
<1>1. TypeOK /\ JobsTypeOK /\ StorageTypeOK /\ RecordsTypeOK /\ job[p] \in Job
  BY DEF CrashInv, TypeOK, JobsTypeOK
<1>2. job[p].build \in Builds /\ job[p].item \in Content
  BY <1>1, JobFields
<1> QED
  BY <1>1, <1>2 DEF CrashInv, Stores

\* An exception in a step that changes neither trees nor records.
LEMMA RaiseQuiet ==
    ASSUME CrashInv, TypeOK', NEW p \in Procs, pc[p] \notin {"idle", "copytree"},
           UNCHANGED <<dirs, records>>, Raise(p),
           \A q \in Procs \ {p} : pc'[q] = pc[q] /\ job'[q] = job[q],
           pc[p] \notin DeletionSteps
    PROVE  CrashInv'
<1> DEFINE b == job[p].build
<1>1. /\ TypeOK /\ b \in Builds
      /\ Stores(p, b) => Storing(pc[p], job[p], p, dirs[b])
  BY JobKnown
<1>2. /\ pc'[p] = Handler(job[p])
      /\ Handler(job[p]) # "idle" => SameJob(p, 1)
  BY <1>1, ControlKeeps
<1>3. Stores(p, b) => InOrder(dirs[b])
  BY <1>1 DEF Storing
<1>4. CASE pc'[p] = "idle"
  BY <1>1, <1>3, <1>4, QuietFrame DEF Stores
<1>5. CASE pc'[p] # "idle"
  <2>1. /\ pc'[p] = "delete" /\ job[p].op \in Tasks
        /\ job'[p].op = job[p].op /\ job'[p].build = b /\ job'[p].item = 1
    BY <1>2, <1>5 DEF Handler, SameJob, Tasks
  <2>2. Holding(pc'[p], job'[p], dirs[b], records[b])
    BY <2>1 DEF Holding, PullSteps
  <2>3. Storing(pc'[p], job'[p], p, dirs[b])
    BY <2>1 DEF Storing, SetTagSteps, DeletionSteps
  <2>4. Stores(p, b)'
    BY <2>1 DEF Stores, StoringJob
  <2> QED
    BY <1>1, <2>1, <2>2, <2>3, <2>4, QuietFrame
<1> QED
  BY <1>4, <1>5

\* A step of pull() before any tree is written.
LEMMA PullBeforeTrees ==
    ASSUME CrashInv, OneStorer, TypeOK', NEW p \in Procs,
           Pull(p) \/ Submit(p) \/ Download(p) \/ Extract(p)
    PROVE  CrashInv'
<1> DEFINE j == job[p]
           b == job[p].build
<1>1. pc[p] \in {"pull", "submit", "download", "extract"}
  BY DEF Pull, Submit, Download, Extract
<1>2. /\ TypeOK /\ JobsTypeOK /\ RecordsTypeOK /\ StorageTypeOK
      /\ j \in Job /\ b \in Builds
      /\ Holding(pc[p], j, dirs[b], records[b])
      /\ Stores(p, b) <=> StoringJob(pc[p], j)
      /\ Stores(p, b) => Storing(pc[p], j, p, dirs[b])
  BY <1>1, JobKnown
<1>3. j.op \in {"pull_build", "publish_build", "publish"} /\ j.item = 1
  BY <1>1, <1>2 DEF Holding, PullSteps, LoopSteps
<1>4. Stores(p, b) /\ InOrder(dirs[b])
  <2>1. Stores(p, b)
    BY <1>1, <1>2, <1>3 DEF StoringJob, Tasks, PullSteps
  <2> QED
    BY <1>1, <1>2, <2>1 DEF Storing, DeletionSteps
<1>5. /\ \A q \in Procs \ {p} : pc'[q] = pc[q] /\ job'[q] = job[q]
      /\ pc'[p] # "idle" => job'[p].op = j.op /\ job'[p].build = b
  <2>1. Step(p)
    BY DEF Step
  <2> QED
    BY <1>2, <2>1, StepKeepsRequest
<1>6. CASE Pull(p)
  <2>1. CASE Pulled(b)
    <3>1. pc'[p] = AfterPull(j) /\ (pc'[p] # "idle" => job'[p].item = 1)
      BY <1>1, <1>2, <1>3, <1>6, <2>1, ControlKeeps DEF Pull, SameJob
    <3>2. Whole(dirs[b])
      BY <1>2, <2>1
         DEF Pulled, RecordOf, EmptyRecord, CrashInv, CompletedIsWhole,
             Completed, IsCompleted, RecordExists
    <3>3. Holding(AfterPull(j), job'[p], dirs[b], records[b]) \/ pc'[p] = "idle"
      BY <1>3, <1>5, <3>1
         DEF AfterPull, Holding, PullSteps, DeletionSteps
    <3>4. Storing(AfterPull(j), job'[p], p, dirs[b]) \/ pc'[p] = "idle"
      BY <3>1, <3>2
         DEF AfterPull, Storing, SetTagSteps, DeletionSteps, InOrder
    <3>5. UNCHANGED <<dirs, records>>
      BY <1>6 DEF Pull
    <3> QED
      BY <1>1, <1>2, <1>4, <1>5, <3>1, <3>3, <3>4, <3>5, QuietFrame DEF Stores
  <2>2. CASE ~Pulled(b)
    <3>1. ~RecordOf(b).completed
      <4>1. SUFFICES ASSUME RecordOf(b).completed
                     PROVE  FALSE
        OBVIOUS
      <4>2. Completed(b)
        BY <4>1 DEF RecordOf, EmptyRecord, RecordExists, Completed, IsCompleted
      <4>3. StoragePulled(b)
        BY <1>2, <4>2 DEF CrashInv, CompletedIsWhole, Whole, StoragePulled, Exists
      <4> QED
        BY <2>2, <4>1, <4>3 DEF Pulled
    <3>2. pc'[p] = "submit" /\ job'[p] = [j EXCEPT !.record = RecordOf(b)]
      BY <1>2, <1>6, <2>2, ContinueValue DEF Pull
    <3>3. job'[p].item = 1 /\ job'[p].record = RecordOf(b)
      BY <1>2, <1>3, <3>2 DEF Job
    <3>4. Holding("submit", job'[p], dirs[b], records[b])
      BY <1>3, <1>5, <3>1, <3>2, <3>3 DEF Holding, DeletionSteps
    <3>5. Storing("submit", job'[p], p, dirs[b])
      BY <1>4 DEF Storing, SetTagSteps
    <3>6. Stores(p, b)' /\ UNCHANGED <<dirs, records>>
      BY <1>3, <1>5, <1>6, <3>2 DEF Stores, StoringJob, Tasks, PullSteps, Pull
    <3> QED
      BY <1>1, <1>2, <1>5, <3>2, <3>4, <3>5, <3>6, QuietFrame
  <2> QED
    BY <2>1, <2>2
<1>7. CASE Submit(p)
  <2> DEFINE record == [j.record EXCEPT !.note = j.note]
  <2>1. ~record.completed
    <3>1. ~j.record.completed
      BY <1>2, <1>7 DEF Submit, Holding
    <3>2. j.record \in Record
      BY <1>2, JobFields
    <3> QED
      BY <3>1, <3>2 DEF Record
  <2>2. pc'[p] = "download" /\ job'[p] = [j EXCEPT !.record = record]
    BY <1>2, <1>7, ContinueValue DEF Submit
  <2>3. job'[p].item = 1
    BY <1>2, <1>3, <2>2 DEF Job
  <2>4. /\ records'[b] = record /\ UNCHANGED dirs
        /\ \A other \in Builds \ {b} : records'[other] = records[other]
    BY <1>2, <1>7, SaveValue DEF Submit
  <2>5. ~IsCompleted(records'[b])
    BY <2>1, <2>4 DEF IsCompleted
  <2>6. Holding(pc'[p], job'[p], dirs'[b], records'[b])
    BY <1>3, <1>5, <2>2, <2>3 DEF Holding, DeletionSteps
  <2>7. Storing(pc'[p], job'[p], p, dirs'[b])
    BY <1>4, <2>2, <2>4 DEF Storing, SetTagSteps
  <2>8. Stores(p, b)'
    BY <1>3, <1>5, <2>2 DEF Stores, StoringJob, Tasks, PullSteps
  <2>9. \A c \in Content : dirs'[b][c] \notin Procs
    BY <1>1, <1>2, <1>4, <2>4, OwnCopies
  <2> HIDE DEF record
  <2> QED
    BY <1>2, <1>4, <1>5, <2>2, <2>4, <2>5, <2>6, <2>7, <2>8, <2>9, StoreFrame
<1>8. CASE Download(p)
  <2>1. CASE Raise(p)
    <3>1. UNCHANGED <<dirs, records>>
      BY <1>8 DEF Download
    <3> QED
      BY <1>1, <1>5, <2>1, <3>1, RaiseQuiet DEF DeletionSteps
  <2>2. CASE ~Raise(p)
    <3>1. pc'[p] = "extract" /\ job'[p] = [j EXCEPT !.link_dest = HasPrevious(b, j.record)]
      BY <1>2, <1>8, <2>2, ContinueValue DEF Download
    <3>2. job'[p].item = 1
      BY <1>2, <1>3, <3>1 DEF Job
    <3>3. Holding("extract", job'[p], dirs[b], records[b])
      BY <1>3, <1>5, <3>1, <3>2 DEF Holding, DeletionSteps
    <3>4. Storing("extract", job'[p], p, dirs[b])
      BY <1>4 DEF Storing, SetTagSteps
    <3>5. Stores(p, b)' /\ UNCHANGED <<dirs, records>>
      BY <1>3, <1>5, <1>8, <3>1 DEF Stores, StoringJob, Tasks, PullSteps, Download
    <3> QED
      BY <1>1, <1>2, <1>5, <3>1, <3>3, <3>4, <3>5, QuietFrame
  <2> QED
    BY <2>1, <2>2
<1>9. CASE Extract(p)
  <2>1. UNCHANGED <<dirs, records>>
    BY <1>9 DEF Extract
  <2>2. CASE Raise(p)
    BY <1>1, <1>5, <2>1, <2>2, RaiseQuiet DEF DeletionSteps
  <2>3. CASE ~Raise(p)
    <3>1. N \in Nat \ {0} /\ N \in Content /\ \A c \in Content : ~(c < 1)
      BY ContentBounds DEF Content
    <3>2. pc'[p] = (IF StoragePulled(b) THEN "tags" ELSE "copy_path") /\ job'[p].item = 1
      BY <1>1, <1>2, <1>3, <1>9, <2>3, ControlKeeps DEF Extract, SameJob
    <3>3. IF StoragePulled(b) THEN Whole(dirs[b]) ELSE dirs[b][N] = "absent"
      BY <1>4, <3>1 DEF InOrder, StoragePulled, Exists, Whole
    <3>4. Holding(pc'[p], job'[p], dirs[b], records[b])
      BY <1>3, <1>5, <3>2 DEF Holding, DeletionSteps
    <3>5. Storing(pc'[p], job'[p], p, dirs[b])
      BY <1>4, <3>1, <3>2, <3>3 DEF Storing, SetTagSteps
    <3>6. Stores(p, b)'
      BY <1>3, <1>5, <3>2 DEF Stores, StoringJob, Tasks, PullSteps
    <3> QED
      BY <1>1, <1>2, <1>5, <2>1, <3>2, <3>4, <3>5, <3>6, QuietFrame
  <2> QED
    BY <2>2, <2>3
<1> QED
  BY <1>6, <1>7, <1>8, <1>9

\* What SetTree() makes of the trees.
LEMMA SetTreeValue ==
    ASSUME StorageTypeOK, NEW b \in Builds, NEW c \in Content, NEW state,
           SetTree(b, c, state)
    PROVE  /\ dirs'[b][c] = state
           /\ \A d \in Content \ {c} : dirs'[b][d] = dirs[b][d]
           /\ \A other \in Builds \ {b} : dirs'[other] = dirs[other]
BY DEF SetTree, StorageTypeOK

\* A step of pull() that writes the trees.
LEMMA PullWritesTrees ==
    ASSUME CrashInv, OneStorer, SeenThrough, TypeOK', NEW p \in Procs,
           CopyPath(p) \/ RemoveTree(p) \/ Copy(p) \/ CopyTree(p)
    PROVE  CrashInv'
<1>1. SUFFICES ASSUME NEW j, j = job[p], NEW b, b = job[p].build,
                      NEW c, c = job[p].item
               PROVE  CrashInv'
  OBVIOUS
<1>2. pc[p] \in {"copy_path", "rmtree", "copy", "copytree"}
  BY DEF CopyPath, RemoveTree, Copy, CopyTree
<1>3. /\ TypeOK /\ StorageTypeOK /\ j \in Job /\ b \in Builds /\ c \in Content
      /\ Holding(pc[p], j, dirs[b], records[b])
      /\ Stores(p, b) <=> StoringJob(pc[p], j)
      /\ Stores(p, b) => Storing(pc[p], j, p, dirs[b])
  BY <1>1, <1>2, JobKnown
<1>4. j.op \in {"pull_build", "publish_build", "publish"} /\ j.build = b /\ j.item = c
  BY <1>1, <1>2, <1>3 DEF Holding, PullSteps
<1>5. Stores(p, b) /\ Storing(pc[p], j, p, dirs[b])
  BY <1>2, <1>3, <1>4 DEF StoringJob, Tasks, PullSteps
<1>6. /\ \A q \in Procs \ {p} : pc'[q] = pc[q] /\ job'[q] = job[q]
      /\ pc'[p] # "idle" => job'[p].op = j.op /\ job'[p].build = b
  <2>1. Step(p)
    BY DEF Step
  <2> QED
    BY <1>1, <1>3, <2>1, StepKeepsRequest
<1>7. /\ N \in Nat \ {0} /\ N \in Content /\ \A d \in Content : ~(d < 1) /\ d <= N
      /\ p \notin {"absent", "partial", "whole"}
  <2>1. N \in Nat \ {0}
    BY ContentBounds
  <2>2. p \notin {"absent", "partial", "whole"}
    BY StorageAssumption
  <2> QED
    BY <2>1, <2>2 DEF Content
<1>8. ~Whole(dirs[b]) /\ ~Completed(b)
  <2>1. ~Whole(dirs[b])
    <3>1. pc[p] = "copytree" => dirs[b][c] = p
      BY <1>4, <1>5 DEF Storing
    <3>2. pc[p] # "copytree" => dirs[b][N] = "absent"
      BY <1>2, <1>5 DEF Storing
    <3> QED
      BY <1>3, <1>7, <3>1, <3>2 DEF Whole
  <2> QED
    BY <1>3, <2>1 DEF CrashInv, CompletedIsWhole
<1>9. UNCHANGED records
  BY DEF CopyPath, RemoveTree, Copy, CopyTree
<1>10. \A d \in Content : dirs[b][d] \in Procs => d = c /\ pc[p] = "copytree"
  BY <1>4, <1>1, <1>5, <1>3, OwnCopies
<1>11. ASSUME NEW step, pc'[p] = step,
              step \in {"copy_path", "rmtree", "copy", "copytree", "tags", "delete"},
              step \in {"tags", "delete"} => job'[p].item = 1,
              \A other \in Builds \ {b} : dirs'[other] = dirs[other],
              Storing(step, job'[p], p, dirs'[b]),
              \A d \in Content : dirs'[b][d] \in Procs =>
                 dirs'[b][d] = p /\ step = "copytree" /\ job'[p].item = d,
              step = "delete" => j.op \in Tasks
       PROVE  CrashInv'
  <2>1. Holding(step, job'[p], dirs'[b], records'[b])
    BY <1>4, <1>6, <1>11 DEF Holding, LoopSteps, DeletionSteps
  <2>2. Stores(p, b)'
    BY <1>4, <1>6, <1>11 DEF Stores, StoringJob, Tasks, PullSteps
  <2>3. ~IsCompleted(records'[b])
    BY <1>8, <1>9 DEF Completed
  <2> QED
    BY <1>3, <1>5, <1>6, <1>8, <1>9, <1>11, <2>1, <2>2, <2>3, StoreFrame
<1>12. ASSUME SetTree(b, c, "whole"), NextItem(p, "copy_path", "tags"),
              pc[p] \in {"copy", "copytree"}
       PROVE  CrashInv'
  <2>1. /\ dirs'[b][c] = "whole"
        /\ \A d \in Content \ {c} : dirs'[b][d] = dirs[b][d]
        /\ \A other \in Builds \ {b} : dirs'[other] = dirs[other]
    BY <1>3, <1>12, SetTreeValue
  <2>2. \A d \in Content : dirs'[b][d] \notin Procs
    BY <1>10, <2>1, StorageAssumption
  <2>3. \A d \in Content : d < c => dirs[b][d] = "whole"
    BY <1>4, <1>5, <1>12 DEF Storing
  <2>4. CASE c < N
    <3>1. pc'[p] = "copy_path" /\ job'[p].item = c + 1
      BY <1>1, <1>2, <1>3, <1>12, <2>4, ControlKeeps DEF SameJob
    <3>2. \A d \in Content : d < c + 1 => d = c \/ d < c
      BY <1>3, <1>7 DEF Content
    <3>3. \A d \in Content : d < c + 1 => dirs'[b][d] = "whole"
      BY <2>1, <2>3, <3>2, <1>3, <1>7 DEF Content
    <3>4. dirs'[b][N] = "absent"
      <4>1. dirs[b][N] = "absent"
        BY <1>4, <1>5, <1>12, <2>4 DEF Storing
      <4> QED
        BY <1>7, <2>1, <2>4, <4>1
    <3>5. Storing("copy_path", job'[p], p, dirs'[b])
      BY <3>1, <3>3, <3>4 DEF Storing, SetTagSteps, InOrder
    <3> QED
      BY <1>11, <2>1, <2>2, <3>1, <3>5
  <2>5. CASE ~(c < N)
    <3>1. pc'[p] = "tags" /\ job'[p].item = 1
      BY <1>1, <1>2, <1>3, <1>12, <2>5, ControlKeeps DEF SameJob
    <3>2. \A d \in Content : d = c \/ d < c
      BY <1>3, <1>7, <2>5 DEF Content
    <3>3. Whole(dirs'[b])
      BY <2>1, <2>3, <3>2, <1>3, <1>7 DEF Whole, Content
    <3>4. Storing("tags", job'[p], p, dirs'[b])
      BY <3>3 DEF Storing, SetTagSteps, InOrder, DeletionSteps
    <3> QED
      BY <1>11, <2>1, <2>2, <3>1, <3>4
  <2> QED
    BY <2>4, <2>5
<1>13. CASE CopyPath(p)
  <2>1. dirs[b][N] = "absent" /\ \A d \in Content : d < c => dirs[b][d] = "whole"
    BY <1>4, <1>5, <1>13 DEF CopyPath, Storing
  <2>2. CASE Exists(b, c)
    <3>1. SetTree(b, c, "partial") /\ Goto(p, "rmtree")
      BY <1>1, <1>13, <2>2 DEF CopyPath
    <3>2. /\ dirs'[b][c] = "partial"
          /\ \A d \in Content \ {c} : dirs'[b][d] = dirs[b][d]
          /\ \A other \in Builds \ {b} : dirs'[other] = dirs[other]
      BY <1>3, <3>1, SetTreeValue
    <3>3. pc'[p] = "rmtree" /\ job'[p].item = c
      BY <1>1, <1>2, <1>3, <3>1, ControlKeeps DEF SameJob
    <3>4. dirs'[b][N] = "absent"
      BY <1>7, <2>1, <2>2, <3>2 DEF Exists
    <3>5. \A d \in Content : d < c => dirs'[b][d] = "whole"
      BY <1>3, <1>7, <2>1, <3>2 DEF Content
    <3>6. Storing("rmtree", job'[p], p, dirs'[b])
      BY <3>2, <3>3, <3>4, <3>5 DEF Storing, SetTagSteps, InOrder
    <3>7. \A d \in Content : dirs'[b][d] \notin Procs
      BY <1>10, <1>13, <3>2, StorageAssumption DEF CopyPath
    <3> QED
      BY <1>11, <3>2, <3>3, <3>6, <3>7
  <2>3. CASE ~Exists(b, c)
    <3>1. UNCHANGED dirs /\ pc'[p] = "copy" /\ job'[p].item = c
      BY <1>1, <1>2, <1>3, <1>13, <2>3, ControlKeeps DEF CopyPath, SameJob
    <3>2. Storing("copy", job'[p], p, dirs'[b])
      BY <2>1, <2>3, <3>1 DEF Storing, SetTagSteps, InOrder, Exists
    <3>3. \A d \in Content : dirs'[b][d] \notin Procs
      BY <1>10, <1>13, <3>1 DEF CopyPath
    <3> QED
      BY <1>11, <3>1, <3>2, <3>3
  <2> QED
    BY <2>2, <2>3
<1>14. CASE RemoveTree(p)
  <2>1. /\ dirs[b][N] = "absent" /\ \A d \in Content : d < c => dirs[b][d] = "whole"
        /\ dirs[b][c] = "partial"
    BY <1>4, <1>5, <1>14 DEF RemoveTree, Storing
  <2>2. SetTree(b, c, "absent") /\ Goto(p, "copy")
    BY <1>1, <1>14, <2>1 DEF RemoveTree
  <2>3. /\ dirs'[b][c] = "absent"
        /\ \A d \in Content \ {c} : dirs'[b][d] = dirs[b][d]
        /\ \A other \in Builds \ {b} : dirs'[other] = dirs[other]
    BY <1>3, <2>2, SetTreeValue
  <2>4. pc'[p] = "copy" /\ job'[p].item = c
    BY <1>1, <1>2, <1>3, <2>2, ControlKeeps DEF SameJob
  <2>5. dirs'[b][N] = "absent" /\ \A d \in Content : d < c => dirs'[b][d] = "whole"
    BY <1>3, <1>7, <2>1, <2>3 DEF Content
  <2>6. Storing("copy", job'[p], p, dirs'[b])
    BY <2>3, <2>4, <2>5 DEF Storing, SetTagSteps, InOrder
  <2>7. \A d \in Content : dirs'[b][d] \notin Procs
    BY <1>10, <1>14, <2>3, StorageAssumption DEF RemoveTree
  <2> QED
    BY <1>11, <2>3, <2>4, <2>6, <2>7
<1>15. CASE Copy(p)
  <2>1. /\ dirs[b][N] = "absent" /\ \A d \in Content : d < c => dirs[b][d] = "whole"
        /\ dirs[b][c] = "absent" /\ pc[p] = "copy"
    BY <1>4, <1>5, <1>15 DEF Copy, Storing
  <2>2. CASE SetTree(b, c, "whole") /\ NextItem(p, "copy_path", "tags")
    BY <1>12, <2>1, <2>2
  <2>3. CASE SetTree(b, c, p) /\ Goto(p, "copytree")
    <3>1. /\ dirs'[b][c] = p
          /\ \A d \in Content \ {c} : dirs'[b][d] = dirs[b][d]
          /\ \A other \in Builds \ {b} : dirs'[other] = dirs[other]
      BY <1>3, <2>3, SetTreeValue
    <3>2. pc'[p] = "copytree" /\ job'[p].item = c
      BY <1>1, <1>2, <1>3, <2>3, ControlKeeps DEF SameJob
    <3>3. /\ c < N => dirs'[b][N] = "absent"
          /\ \A d \in Content : d < c => dirs'[b][d] = "whole"
      BY <1>3, <1>7, <2>1, <3>1 DEF Content
    <3>4. Storing("copytree", job'[p], p, dirs'[b])
      BY <3>1, <3>2, <3>3 DEF Storing, SetTagSteps
    <3>5. \A d \in Content : dirs'[b][d] \in Procs => d = c
      BY <1>10, <2>1, <3>1
    <3> QED
      BY <1>11, <3>1, <3>2, <3>4, <3>5
  <2>4. CASE UNCHANGED dirs /\ Raise(p)
    BY <1>6, <1>9, <2>1, <2>4, RaiseQuiet DEF DeletionSteps
  <2> QED
    BY <1>1, <1>15, <2>2, <2>3, <2>4 DEF Copy
<1>16. CASE CopyTree(p)
  <2>1. pc[p] = "copytree" /\ dirs[b][c] = p
    BY <1>4, <1>5, <1>16 DEF CopyTree, Storing
  <2>2. CASE SetTree(b, c, "whole") /\ NextItem(p, "copy_path", "tags")
    BY <1>12, <2>1, <2>2
  <2>3. CASE SetTree(b, c, "partial") /\ Raise(p)
    <3>1. /\ dirs'[b][c] = "partial"
          /\ \A d \in Content \ {c} : dirs'[b][d] = dirs[b][d]
          /\ \A other \in Builds \ {b} : dirs'[other] = dirs[other]
      BY <1>3, <2>3, SetTreeValue
    <3>2. /\ pc'[p] = Handler(j) /\ pc'[p] # "idle"
          /\ Handler(j) # "idle" => job'[p].item = 1
      BY <1>1, <1>2, <1>3, <2>1, <2>3, ControlKeeps DEF SameJob, SeenThrough
    <3>3. pc'[p] = "delete" /\ job'[p].item = 1 /\ j.op \in Tasks
      BY <3>2 DEF Handler, Tasks
    <3>4. Storing("delete", job'[p], p, dirs'[b])
      BY DEF Storing, SetTagSteps, DeletionSteps
    <3>5. \A d \in Content : dirs'[b][d] \notin Procs
      BY <1>10, <3>1, StorageAssumption
    <3> QED
      BY <1>11, <3>1, <3>3, <3>4, <3>5
  <2> QED
    BY <1>1, <1>16, <2>1, <2>2, <2>3 DEF CopyTree
<1> QED
  BY <1>13, <1>14, <1>15, <1>16

\* A step of pull() after the trees are written.
LEMMA PullAfterTrees ==
    ASSUME CrashInv, OneStorer, TypeOK', NEW p \in Procs,
           NextTag(p) \/ Metadata(p) \/ Complete(p) \/ GbpJson(p)
    PROVE  CrashInv'
<1>1. SUFFICES ASSUME NEW j, j = job[p], NEW b, b = job[p].build
               PROVE  CrashInv'
  OBVIOUS
<1>2. pc[p] \in {"tags", "metadata", "complete", "gbp.json"}
  BY DEF NextTag, Metadata, Complete, GbpJson
<1>3. /\ TypeOK /\ JobsTypeOK /\ RecordsTypeOK /\ j \in Job /\ b \in Builds
      /\ Holding(pc[p], j, dirs[b], records[b])
      /\ Stores(p, b) <=> StoringJob(pc[p], j)
      /\ Stores(p, b) => Storing(pc[p], j, p, dirs[b])
  BY <1>1, <1>2, JobKnown
<1>4. /\ j.op \in {"pull_build", "publish_build", "publish"} /\ j.build = b
      /\ j.item = 1
  BY <1>1, <1>2, <1>3 DEF Holding, PullSteps, LoopSteps
<1>5. Stores(p, b) /\ Whole(dirs[b]) /\ InOrder(dirs[b])
  <2>1. Stores(p, b)
    BY <1>2, <1>3, <1>4 DEF StoringJob, Tasks, PullSteps
  <2>2. Whole(dirs[b])
    BY <1>2, <1>3, <2>1 DEF Storing
  <2> QED
    BY <2>1, <2>2 DEF InOrder
<1>6. /\ \A q \in Procs \ {p} : pc'[q] = pc[q] /\ job'[q] = job[q]
      /\ pc'[p] # "idle" => job'[p].op = j.op /\ job'[p].build = b
  <2>1. Step(p)
    BY DEF Step
  <2> QED
    BY <1>1, <1>3, <2>1, StepKeepsRequest
<1>7. ASSUME NEW step, pc'[p] = step,
             step \in {"tags", "tag", "metadata", "complete", "gbp.json",
                       "publish", "idle"},
             step # "idle" => job'[p].item = 1,
             step = "publish" => j.op = "publish_build",
             UNCHANGED <<dirs, records>>
      PROVE  CrashInv'
  <2>1. step # "idle" => Holding(step, job'[p], dirs[b], records[b])
    BY <1>4, <1>6, <1>7 DEF Holding, LoopSteps, DeletionSteps
  <2>2. step # "idle" => Storing(step, job'[p], p, dirs[b])
    BY <1>5, <1>7 DEF Storing, DeletionSteps
  <2> QED
    BY <1>1, <1>2, <1>3, <1>5, <1>6, <1>7, <2>1, <2>2, QuietFrame DEF Stores
<1>8. CASE Raise(p)
  <2>1. ~Complete(p)
    <3>1. SUFFICES ASSUME Complete(p)
                   PROVE  FALSE
      OBVIOUS
    <3>2. pc'[p] = "gbp.json" /\ pc'[p] = Handler(j)
      BY <1>1, <1>2, <1>3, <1>8, <3>1, ControlKeeps DEF Complete
    <3> QED
      BY <3>2 DEF Handler
  <2>2. UNCHANGED <<dirs, records>>
    BY <2>1 DEF NextTag, Metadata, GbpJson
  <2> QED
    BY <1>2, <1>6, <1>8, <2>2, RaiseQuiet DEF DeletionSteps
<1>9. CASE NextTag(p)
  <2>1. UNCHANGED <<dirs, records>>
    BY <1>9 DEF NextTag
  <2>2. CASE j.tags = {}
    <3>1. pc'[p] = "metadata" /\ job'[p].item = 1
      BY <1>1, <1>2, <1>3, <1>4, <1>9, <2>2, ControlKeeps DEF NextTag, SameJob
    <3> QED
      BY <1>7, <2>1, <3>1
  <2>3. CASE j.tags # {}
    <3>1. PICK tag \in j.tags :
             Continue(p, "tag", [j EXCEPT !.tag = tag, !.tags = @ \ {tag}])
      BY <1>1, <1>9, <2>3 DEF NextTag
    <3>2. pc'[p] = "tag" /\ job'[p] = [j EXCEPT !.tag = tag, !.tags = @ \ {tag}]
      BY <1>3, <3>1, ContinueValue
    <3>3. job'[p].item = 1
      BY <1>3, <1>4, <3>2 DEF Job
    <3> QED
      BY <1>7, <2>1, <3>2, <3>3
  <2> QED
    BY <2>2, <2>3
<1>10. CASE Metadata(p) /\ ~Raise(p)
  <2>1. pc'[p] = "complete" /\ job'[p].item = 1
    BY <1>1, <1>2, <1>3, <1>4, <1>10, ControlKeeps DEF Metadata, SameJob
  <2> QED
    BY <1>7, <1>10, <2>1 DEF Metadata
<1>11. CASE Complete(p)
  <2>1. pc'[p] = "gbp.json" /\ job'[p].item = 1
    BY <1>1, <1>2, <1>3, <1>4, <1>11, ControlKeeps DEF Complete, SameJob
  <2>2. UNCHANGED dirs /\ \A other \in Builds \ {b} : records'[other] = records[other]
    BY <1>1, <1>3, <1>11, SaveValue DEF Complete
  <2>3. Holding("gbp.json", job'[p], dirs'[b], records'[b])
    BY <1>4, <1>6, <2>1 DEF Holding, DeletionSteps
  <2>4. Storing("gbp.json", job'[p], p, dirs'[b])
    BY <1>5, <2>2 DEF Storing, SetTagSteps
  <2>5. Stores(p, b)'
    BY <1>4, <1>6, <2>1 DEF Stores, StoringJob, Tasks, PullSteps
  <2>6. \A c \in Content : dirs'[b][c] \notin Procs
    BY <1>1, <1>2, <1>3, <1>5, <2>2, OwnCopies
  <2> QED
    BY <1>3, <1>5, <1>6, <2>1, <2>2, <2>3, <2>4, <2>5, <2>6, StoreFrame
<1>12. CASE GbpJson(p) /\ ~Raise(p)
  <2>1. /\ pc'[p] = AfterPull(j)
        /\ AfterPull(j) # "idle" => job'[p].item = 1
    BY <1>1, <1>2, <1>3, <1>4, <1>12, ControlKeeps DEF GbpJson, SameJob
  <2>2. AfterPull(j) \in {"tag", "publish", "idle"}
    BY DEF AfterPull
  <2>3. AfterPull(j) = "publish" => j.op = "publish_build"
    BY DEF AfterPull
  <2> QED
    BY <1>7, <1>12, <2>1, <2>2, <2>3 DEF GbpJson
<1> QED
  BY <1>8, <1>9, <1>10, <1>11, <1>12

\* A step of BuildPublisher.publish().  The publish mutation begins to store
\* the build if it finds it gone; OneStorer says that nobody else does.
LEMMA PublishKeeps ==
    ASSUME CrashInv, OneStorer', TypeOK', NEW p \in Procs, Publish(p)
    PROVE  CrashInv'
<1>1. SUFFICES ASSUME NEW j, j = job[p], NEW b, b = job[p].build
               PROVE  CrashInv'
  OBVIOUS
<1>2. pc[p] = "publish" /\ UNCHANGED <<dirs, records>>
  BY DEF Publish
<1>3. /\ TypeOK /\ JobsTypeOK /\ j \in Job /\ b \in Builds
      /\ Holding(pc[p], j, dirs[b], records[b])
      /\ Stores(p, b) <=> StoringJob(pc[p], j)
      /\ Stores(p, b) => Storing(pc[p], j, p, dirs[b])
  BY <1>1, <1>2, JobKnown
<1>4. j.op \in {"publish_build", "publish"} /\ j.build = b /\ j.item = 1
  BY <1>1, <1>2, <1>3 DEF Holding, LoopSteps
<1>5. PICK step \in {"idle", "tag", "pull"} :
         Continue(p, step, [j EXCEPT !.publishing = TRUE])
  BY <1>1 DEF Publish
<1>6. /\ pc'[p] = step
      /\ step # "idle" => job'[p] = [j EXCEPT !.publishing = TRUE]
      /\ \A q \in Procs \ {p} : pc'[q] = pc[q] /\ job'[q] = job[q]
  BY <1>3, <1>5, ContinueValue
<1>7. step # "idle" => job'[p].op = j.op /\ job'[p].build = b /\ job'[p].item = 1
  BY <1>3, <1>4, <1>6 DEF Job
<1>8. step # "idle" => Holding(step, job'[p], dirs[b], records[b])
  BY <1>4, <1>6, <1>7 DEF Holding, DeletionSteps
<1>9. Stores(p, b) => InOrder(dirs[b])
  BY <1>2, <1>3 DEF Storing, DeletionSteps
<1>10. Stores(p, b)' => InOrder(dirs[b])
  <2>1. SUFFICES ASSUME Stores(p, b)', ~Stores(p, b)
                 PROVE  InOrder(dirs[b])
    BY <1>9
  <2>2. \A q \in Procs \ {p} : ~Stores(q, b)'
    BY <1>3, <2>1 DEF OneStorer
  <2>3. \A q \in Procs : ~Stores(q, b)
    BY <1>6, <2>1, <2>2 DEF Stores
  <2> QED
    BY <1>3, <2>3 DEF CrashInv
<1>11. Stores(p, b)' => Storing(step, job'[p], p, dirs[b])
  BY <1>4, <1>6, <1>7, <1>10 DEF Storing, Stores, DeletionSteps
<1> QED
  BY <1>1, <1>2, <1>3, <1>6, <1>7, <1>8, <1>9, <1>11, QuietFrame

\* A step that sets or removes the links of a tag, or reads the tags of a
\* build or its record.
LEMMA TagsAndEditKeep ==
    ASSUME CrashInv, TypeOK', NEW p \in Procs,
           \/ Tag(p) \/ IsLink(p) \/ Unlink(p) \/ Symlink(p) \/ CheckTags(p)
           \/ Untag(p) \/ IsSymlink(p) \/ RemoveLink(p) \/ Edit(p)
    PROVE  CrashInv'
<1>1. SUFFICES ASSUME NEW j, j = job[p], NEW b, b = job[p].build
               PROVE  CrashInv'
  OBVIOUS
<1>2. /\ pc[p] \in SetTagSteps \cup UntagSteps \cup {"edit"}
      /\ UNCHANGED <<dirs, records>>
  BY DEF Tag, IsLink, Unlink, Symlink, CheckTags, Untag, IsSymlink, RemoveLink,
         Edit, SetTagSteps, UntagSteps
<1>3. pc[p] \notin {"idle", "copytree"} /\ pc[p] \notin DeletionSteps \cup PullSteps
  BY <1>2 DEF SetTagSteps, UntagSteps, DeletionSteps, PullSteps
<1>4. /\ TypeOK /\ JobsTypeOK /\ RecordsTypeOK /\ j \in Job /\ b \in Builds
      /\ Holding(pc[p], j, dirs[b], records[b])
      /\ Stores(p, b) <=> StoringJob(pc[p], j)
      /\ Stores(p, b) => Storing(pc[p], j, p, dirs[b])
      /\ pc[p] \notin LoopSteps => j.item = 1
  BY <1>1, <1>3, JobKnown DEF Holding
<1>5. /\ \A q \in Procs \ {p} : pc'[q] = pc[q] /\ job'[q] = job[q]
      /\ pc'[p] # "idle" => job'[p].op = j.op /\ job'[p].build = b
  <2>1. Step(p)
    BY DEF Step
  <2> QED
    BY <1>1, <1>4, <2>1, StepKeepsRequest
<1>6. ASSUME NEW step, pc'[p] = step,
             \/ step \in UntagSteps \cup {"idle", "save"}
             \/ step \in SetTagSteps /\ pc[p] \in SetTagSteps
             \/ step = "tags" /\ j.op = "pull_build" /\ pc[p] \in SetTagSteps
             \/ step = "delete" /\ j.op \in Commands,
             step \notin LoopSteps \cup {"idle"} => job'[p].item = 1,
             step = "save" => /\ j.op \in RecordEdits
                              /\ job'[p].record.completed => Whole(dirs[b])
      PROVE  CrashInv'
  <2>1. step # "idle" => Holding(step, job'[p], dirs[b], records[b])
    BY <1>5, <1>6
       DEF Holding, SetTagSteps, UntagSteps, PullSteps, DeletionSteps
  <2>2. Stores(p, b) => InOrder(dirs[b])
    BY <1>3, <1>4 DEF Storing
  <2>3. Stores(p, b) /\ j.op = "pull_build" /\ pc[p] \in SetTagSteps =>
           Whole(dirs[b])
    BY <1>4 DEF Storing
  <2>4. Stores(p, b)' => Stores(p, b)
    BY <1>3, <1>4, <1>5, <1>6
       DEF Stores, StoringJob, Tasks, SetTagSteps, UntagSteps, PullSteps
  <2>5. Stores(p, b)' => Storing(step, job'[p], p, dirs[b])
    <3>1. CASE step \in UntagSteps \cup {"save"}
      BY <2>2, <2>4, <3>1
         DEF Storing, UntagSteps, SetTagSteps, DeletionSteps
    <3>2. CASE step \in SetTagSteps /\ pc[p] \in SetTagSteps
      <4>1. step # "idle"
        BY <3>2 DEF SetTagSteps
      <4> QED
        BY <1>5, <1>6, <2>2, <2>3, <2>4, <3>2, <4>1
           DEF Storing, SetTagSteps, DeletionSteps
    <3>3. CASE step = "tags" /\ j.op = "pull_build" /\ pc[p] \in SetTagSteps
      BY <2>2, <2>3, <2>4, <3>3 DEF Storing, SetTagSteps, DeletionSteps
    <3>4. CASE step = "delete"
      BY <3>4 DEF Storing, SetTagSteps, DeletionSteps
    <3>5. step = "idle" => ~Stores(p, b)'
      BY <1>6 DEF Stores
    <3> QED
      BY <1>6, <3>1, <3>2, <3>3, <3>4, <3>5
  <2> QED
    BY <1>1, <1>2, <1>3, <1>4, <1>5, <1>6, <2>1, <2>2, <2>5, QuietFrame
<1>7. CASE Raise(p)
  BY <1>2, <1>3, <1>5, <1>7, RaiseQuiet
<1>8. /\ \A next : Goto(p, next) =>
            pc'[p] = next /\ (next # "idle" => job'[p].item = j.item)
      /\ \A body, after : NextItem(p, body, after) =>
            \/ pc'[p] = body
            \/ pc'[p] = after /\ (after # "idle" => job'[p].item = 1)
  BY <1>1, <1>3, <1>4, ControlKeeps DEF SameJob
<1>9. CASE \/ (Tag(p) \/ IsLink(p) \/ Unlink(p)) /\ ~Raise(p)
  <2>1. PICK next \in {"islink", "unlink", "symlink"} : Goto(p, next)
    BY <1>9 DEF Tag, IsLink, Unlink
  <2>2. next \in LoopSteps /\ next \in SetTagSteps /\ pc[p] \in SetTagSteps
    BY <1>9 DEF LoopSteps, SetTagSteps, Tag, IsLink, Unlink
  <2> QED
    BY <1>6, <1>8, <2>1, <2>2 DEF SetTagSteps
<1>10. CASE Symlink(p) /\ ~Raise(p)
  <2>1. NextItem(p, "islink", AfterTag(j)) /\ pc[p] \in SetTagSteps
    BY <1>1, <1>10 DEF Symlink, SetTagSteps
  <2>2. CASE pc'[p] = "islink"
    BY <1>6, <2>1, <2>2 DEF SetTagSteps, LoopSteps
  <2>3. CASE pc'[p] = AfterTag(j) /\ (AfterTag(j) # "idle" => job'[p].item = 1)
    <3>1. CASE j.op = "pull_build"
      <4>1. AfterTag(j) = "tags"
        BY <3>1 DEF AfterTag
      <4> QED
        BY <1>6, <2>1, <2>3, <3>1, <4>1
    <3>2. CASE j.op # "pull_build"
      <4>1. AfterTag(j) = "idle"
        BY <3>2 DEF AfterTag
      <4> QED
        BY <1>6, <2>3, <4>1
    <3> QED
      BY <3>1, <3>2
  <2> QED
    BY <1>8, <2>1, <2>2, <2>3
<1>11. CASE CheckTags(p)
  <2>1. pc[p] = "check tags" /\ j.item = 1
    BY <1>4, <1>11 DEF CheckTags, LoopSteps
  <2>2. CASE Goto(p, "idle")
    BY <1>6, <1>8, <2>2
  <2>3. CASE Continue(p, "untag", [j EXCEPT !.tags = TagsOf(b)])
    <3>1. pc'[p] = "untag" /\ job'[p] = [j EXCEPT !.tags = TagsOf(b)]
      BY <1>4, <2>3, ContinueValue
    <3>2. job'[p].item = 1
      BY <1>4, <2>1, <3>1 DEF Job
    <3> QED
      BY <1>6, <3>1, <3>2 DEF UntagSteps
  <2> QED
    BY <1>1, <1>11, <2>2, <2>3 DEF CheckTags
<1>12. CASE Untag(p)
  <2>1. pc[p] = "untag" /\ j.item = 1
    BY <1>4, <1>12 DEF Untag, LoopSteps
  <2>2. CASE j.tags = {}
    <3>1. CASE j.op \in Commands
      <4>1. pc'[p] = "delete" /\ job'[p].item = 1
        BY <1>1, <1>8, <1>12, <2>1, <2>2, <3>1 DEF Untag
      <4> QED
        BY <1>6, <3>1, <4>1
    <3>2. CASE j.op \notin Commands
      <4>1. pc'[p] = "idle"
        BY <1>1, <1>8, <1>12, <2>2, <3>2 DEF Untag
      <4> QED
        BY <1>6, <4>1
    <3> QED
      BY <3>1, <3>2
  <2>3. CASE j.tags # {}
    <3>1. PICK tag \in j.tags :
             Continue(p, IF Resolves(tag) THEN "is_symlink" ELSE "untag",
                      [j EXCEPT !.tag = tag, !.tags = @ \ {tag}])
      BY <1>1, <1>12, <2>3 DEF Untag
    <3>2. /\ pc'[p] \in {"is_symlink", "untag"}
          /\ job'[p] = [j EXCEPT !.tag = tag, !.tags = @ \ {tag}]
      BY <1>4, <3>1, ContinueValue
    <3>3. job'[p].item = 1
      BY <1>4, <2>1, <3>2 DEF Job
    <3> QED
      BY <1>6, <3>2, <3>3 DEF UntagSteps
  <2> QED
    BY <2>2, <2>3
<1>13. CASE (IsSymlink(p) \/ RemoveLink(p)) /\ ~Raise(p)
  <2>1. Goto(p, "remove link") \/ NextItem(p, "is_symlink", "untag")
    BY <1>13 DEF IsSymlink, RemoveLink
  <2>2. \/ pc'[p] \in {"remove link", "is_symlink"}
        \/ pc'[p] = "untag" /\ job'[p].item = 1
    <3>1. CASE Goto(p, "remove link")
      BY <1>8, <3>1
    <3>2. CASE NextItem(p, "is_symlink", "untag")
      <4>1. \/ pc'[p] = "is_symlink"
            \/ pc'[p] = "untag" /\ ("untag" # "idle" => job'[p].item = 1)
        BY <1>8, <3>2
      <4> QED
        BY <4>1
    <3> QED
      BY <2>1, <3>1, <3>2
  <2> QED
    BY <1>6, <2>2 DEF UntagSteps, LoopSteps
<1>14. CASE Edit(p)
  <2>1. pc[p] = "edit" /\ j.item = 1 /\ j.op \in RecordEdits
    BY <1>4, <1>14 DEF Edit, LoopSteps, Holding
  <2>2. CASE RecordExists(b)
    <3>1. pc'[p] = "save" /\ job'[p] = [j EXCEPT !.record = records[b]]
      BY <1>1, <1>4, <1>14, <2>2, ContinueValue DEF Edit
    <3>2. job'[p].item = 1 /\ job'[p].record = records[b]
      BY <1>4, <2>1, <3>1 DEF Job
    <3>3. records[b].completed => Whole(dirs[b])
      BY <1>4, <2>2
         DEF CrashInv, CompletedIsWhole, Completed, IsCompleted, RecordExists
    <3> QED
      BY <1>6, <2>1, <3>1, <3>2, <3>3
  <2>3. CASE ~RecordExists(b)
    <3>1. pc'[p] = "idle"
      BY <1>1, <1>8, <1>14, <2>3 DEF Edit
    <3> QED
      BY <1>6, <3>1
  <2> QED
    BY <2>2, <2>3
<1> QED
  BY <1>7, <1>9, <1>10, <1>11, <1>12, <1>13, <1>14

\* An edited record is saved: it is completed only if the trees are whole.
LEMMA SaveKeeps ==
    ASSUME CrashInv, OneStorer, TypeOK', NEW p \in Procs, Save(p)
    PROVE  CrashInv'
<1>1. SUFFICES ASSUME NEW j, j = job[p], NEW b, b = job[p].build
               PROVE  CrashInv'
  OBVIOUS
<1>2. pc[p] = "save" /\ UNCHANGED dirs
  BY DEF Save
<1>3. /\ TypeOK /\ JobsTypeOK /\ RecordsTypeOK /\ j \in Job /\ b \in Builds
      /\ j.build = b /\ Holding(pc[p], j, dirs[b], records[b])
  BY <1>1, <1>2, JobKnown
<1>4. j.op \in RecordEdits /\ (j.record.completed => Whole(dirs[b]))
  BY <1>2, <1>3 DEF Holding
<1>5. /\ pc'[p] = "idle"
      /\ \A q \in Procs \ {p} : pc'[q] = pc[q] /\ job'[q] = job[q]
  BY <1>2, <1>3, ControlValue DEF Save
<1>6. /\ records'[b] = Edited(j)
      /\ \A other \in Builds \ {b} : records'[other] = records[other]
  BY <1>1, <1>3, SaveValue DEF Save
<1>7. Edited(j).completed = j.record.completed
  <2>1. j.record \in Record
    BY <1>3, JobFields
  <2> QED
    BY <2>1 DEF Edited, Record
<1>8. IsCompleted(records'[b]) => Whole(dirs'[b])
  BY <1>2, <1>4, <1>6, <1>7 DEF IsCompleted
<1>9. ~Stores(p, b) /\ ~Stores(p, b)'
  BY <1>1, <1>2, <1>4, <1>5
     DEF Stores, StoringJob, RecordEdits, Tasks, Commands
<1>10. (\A q \in Procs : ~Stores(q, b)') => InOrder(dirs'[b])
  <2>1. (\A q \in Procs : ~Stores(q, b)') => \A q \in Procs : ~Stores(q, b)
    BY <1>5, <1>9 DEF Stores
  <2> QED
    BY <1>2, <1>3, <2>1 DEF CrashInv
<1>11. ASSUME NEW q \in Procs \ {p}, pc[q] # "idle", job[q].build = b
       PROVE  Holding(pc[q], job[q], dirs'[b], records'[b])
  <2>1. Holding(pc[q], job[q], dirs[b], records[b])
    BY <1>11 DEF CrashInv
  <2>2. WorksOn(p, b)
    BY <1>1, <1>2, <1>4 DEF WorksOn, TagOps, RecordEdits
  <2>3. pc[q] \notin DeletionSteps
    <3>1. SUFFICES ASSUME pc[q] \in DeletionSteps
                   PROVE  FALSE
      OBVIOUS
    <3>2. Stores(q, b)
      BY <1>11, <2>1, <3>1 DEF Holding, Stores, StoringJob
    <3> QED
      BY <1>3, <2>2, <3>1, <3>2 DEF OneStorer
  <2> QED
    BY <1>2, <2>1, <2>3 DEF Holding, DeletionSteps
<1>12. \A q \in Procs \ {p} : Stores(q, b) => Storing(pc[q], job[q], q, dirs'[b])
  BY <1>2, <1>3 DEF CrashInv
<1>13. ASSUME NEW c \in Content, NEW q \in Procs, dirs'[b][c] = q
       PROVE  pc'[q] = "copytree" /\ job'[q].build = b /\ job'[q].item = c
  <2>1. pc[q] = "copytree" /\ job[q].build = b /\ job[q].item = c
    BY <1>2, <1>3, <1>13 DEF CrashInv
  <2> QED
    BY <1>2, <1>5, <2>1
<1> QED
  BY <1>1, <1>2, <1>3, <1>5, <1>6, <1>8, <1>9, <1>10, <1>11, <1>12, <1>13,
     CrashFrame

\* A step of BuildPublisher.delete().
LEMMA DeleteKeeps ==
    ASSUME CrashInv, OneStorer, TypeOK', NEW p \in Procs,
           Delete(p) \/ DeleteTree(p) \/ DeleteRmtree(p)
    PROVE  CrashInv'
<1>1. SUFFICES ASSUME NEW j, j = job[p], NEW b, b = job[p].build,
                      NEW c, c = job[p].item
               PROVE  CrashInv'
  OBVIOUS
<1>2. pc[p] \in DeletionSteps /\ pc[p] \notin {"idle", "copytree"}
  BY DEF Delete, DeleteTree, DeleteRmtree, DeletionSteps
<1>3. /\ TypeOK /\ JobsTypeOK /\ RecordsTypeOK /\ StorageTypeOK
      /\ j \in Job /\ b \in Builds /\ c \in Content
      /\ Holding(pc[p], j, dirs[b], records[b])
      /\ Stores(p, b) <=> StoringJob(pc[p], j)
      /\ Stores(p, b) => Storing(pc[p], j, p, dirs[b])
  BY <1>1, <1>2, JobKnown
<1>4. j.op \in Tasks \cup Commands /\ j.build = b /\ j.item = c
  BY <1>1, <1>2, <1>3 DEF Holding
<1>5. Stores(p, b) /\ Storing(pc[p], j, p, dirs[b])
  BY <1>3, <1>4 DEF StoringJob
<1>6. /\ \A q \in Procs \ {p} : pc'[q] = pc[q] /\ job'[q] = job[q]
      /\ pc'[p] # "idle" => job'[p].op = j.op /\ job'[p].build = b
  <2>1. Step(p)
    BY DEF Step
  <2> QED
    BY <1>1, <1>3, <2>1, StepKeepsRequest
<1>7. /\ N \in Nat \ {0} /\ N \in Content /\ \A d \in Content : ~(d < 1) /\ d <= N
      /\ p \notin {"absent", "partial", "whole"}
  <2>1. N \in Nat \ {0}
    BY ContentBounds
  <2>2. p \notin {"absent", "partial", "whole"}
    BY StorageAssumption
  <2> QED
    BY <2>1, <2>2 DEF Content
<1>8. \A d \in Content : dirs[b][d] \notin Procs
  BY <1>2, <1>3, <1>5, OwnCopies
<1>9. /\ Goto(p, "delete tree") => pc'[p] = "delete tree" /\ job'[p].item = c
      /\ Goto(p, "delete rmtree") => pc'[p] = "delete rmtree" /\ job'[p].item = c
      /\ NextItem(p, "delete tree", "idle") =>
            IF c < N THEN pc'[p] = "delete tree" /\ job'[p].item = c + 1
                     ELSE pc'[p] = "idle"
  <2>1. pc[p] # "idle"
    BY <1>2
  <2>2. /\ \A next : Goto(p, next) =>
              pc'[p] = next /\ (next # "idle" => SameJob(p, job[p].item))
        /\ \A body, after : NextItem(p, body, after) =>
              IF job[p].item < N
              THEN pc'[p] = body /\ (body # "idle" => SameJob(p, job[p].item + 1))
              ELSE pc'[p] = after /\ (after # "idle" => SameJob(p, 1))
    BY <1>3, <2>1, ControlKeeps
  <2>3. NextItem(p, "delete tree", "idle") =>
          IF job[p].item < N
          THEN /\ pc'[p] = "delete tree"
               /\ "delete tree" # "idle" => SameJob(p, job[p].item + 1)
          ELSE pc'[p] = "idle"
    BY <2>2
  <2>4. /\ Goto(p, "delete tree") =>
             /\ pc'[p] = "delete tree"
             /\ "delete tree" # "idle" => SameJob(p, job[p].item)
        /\ Goto(p, "delete rmtree") =>
             /\ pc'[p] = "delete rmtree"
             /\ "delete rmtree" # "idle" => SameJob(p, job[p].item)
    BY <2>2
  <2> QED
    BY <1>1, <2>3, <2>4 DEF SameJob
<1>10. ASSUME NEW step \in {"idle", "delete tree", "delete rmtree"}, pc'[p] = step,
              \A other \in Builds \ {b} :
                 dirs'[other] = dirs[other] /\ records'[other] = records[other],
              records'[b] = Nil,
              step # "idle" => Storing(step, job'[p], p, dirs'[b]),
              step = "idle" => InOrder(dirs'[b]),
              \A d \in Content : dirs'[b][d] \notin Procs
       PROVE  CrashInv'
  <2>1. step # "idle" => Holding(step, job'[p], dirs'[b], records'[b])
    BY <1>4, <1>6, <1>10 DEF Holding, LoopSteps, PullSteps
  <2>2. step # "idle" => Stores(p, b)'
    BY <1>4, <1>6, <1>10 DEF Stores, StoringJob
  <2>3. ~IsCompleted(records'[b])
    BY <1>10 DEF IsCompleted
  <2>4. Stores(p, b)' => step # "idle"
    BY <1>10 DEF Stores
  <2> QED
    BY <1>2, <1>3, <1>5, <1>6, <1>10, <2>1, <2>2, <2>3, <2>4, StoreFrame
<1>11. ASSUME pc[p] \in {"delete tree", "delete rmtree"},
              NextItem(p, "delete tree", "idle"), UNCHANGED records,
              dirs'[b][c] = "absent",
              \A d \in Content \ {c} : dirs'[b][d] = dirs[b][d],
              \A other \in Builds \ {b} : dirs'[other] = dirs[other]
       PROVE  CrashInv'
  <2>1. records'[b] = Nil /\ \A d \in Content : d < c => dirs[b][d] = "absent"
    BY <1>3, <1>4, <1>5, <1>11 DEF Holding, Storing
  <2>2. \A d \in Content : dirs'[b][d] \notin Procs
    BY <1>8, <1>11, StorageAssumption
  <2>3. CASE c < N
    <3>1. pc'[p] = "delete tree" /\ job'[p].item = c + 1
      BY <1>11, <1>9, <2>3
    <3>2. \A d \in Content : d < c + 1 => d = c \/ d < c
      BY <1>3, <1>7 DEF Content
    <3>3. \A d \in Content : d < c + 1 => dirs'[b][d] = "absent"
      BY <1>3, <1>7, <1>11, <2>1, <3>2 DEF Content
    <3>4. Storing("delete tree", job'[p], p, dirs'[b])
      BY <3>1, <3>3 DEF Storing, SetTagSteps, DeletionSteps
    <3> QED
      BY <1>10, <1>11, <2>1, <2>2, <3>1, <3>4
  <2>4. CASE ~(c < N)
    <3>1. pc'[p] = "idle" /\ c = N
      <4>1. pc'[p] = "idle"
        BY <1>9, <1>11, <2>4
      <4>2. c = N
        BY <1>3, <1>7, <2>4 DEF Content
      <4> QED
        BY <4>1, <4>2
    <3> QED
      BY <1>10, <1>11, <2>1, <2>2, <3>1 DEF InOrder
  <2> QED
    BY <2>3, <2>4
<1>12. CASE Delete(p)
  <2>1. UNCHANGED dirs /\ pc[p] = "delete" /\ c = 1
    BY <1>3, <1>4, <1>12 DEF Delete, Holding, LoopSteps
  <2>2. /\ records'[b] = Nil
        /\ \A other \in Builds \ {b} : records'[other] = records[other]
    BY <1>1, <1>3, <1>12, SaveValue DEF Delete
  <2>3. pc'[p] = "delete tree" /\ job'[p].item = 1
    BY <1>12, <1>9, <2>1 DEF Delete
  <2>4. Storing("delete tree", job'[p], p, dirs'[b])
    BY <1>7, <2>3 DEF Storing, SetTagSteps, DeletionSteps
  <2> QED
    BY <1>8, <1>10, <2>1, <2>2, <2>3, <2>4
<1>13. CASE DeleteTree(p)
  <2>1. /\ pc[p] = "delete tree" /\ UNCHANGED records /\ records[b] = Nil
        /\ \A d \in Content : d < c => dirs[b][d] = "absent"
    BY <1>3, <1>4, <1>5, <1>13 DEF DeleteTree, Holding, Storing
  <2>2. CASE Exists(b, c)
    <3>1. SetTree(b, c, "partial") /\ Goto(p, "delete rmtree")
      BY <1>1, <1>13, <2>2 DEF DeleteTree
    <3>2. /\ dirs'[b][c] = "partial"
          /\ \A d \in Content \ {c} : dirs'[b][d] = dirs[b][d]
          /\ \A other \in Builds \ {b} : dirs'[other] = dirs[other]
      BY <1>3, <3>1, SetTreeValue
    <3>3. pc'[p] = "delete rmtree" /\ job'[p].item = c
      BY <1>9, <3>1
    <3>4. \A d \in Content : d < c => dirs'[b][d] = "absent"
      <4>1. \A d \in Content : d < c => d # c
        BY <1>3, <1>7 DEF Content
      <4> QED
        BY <2>1, <3>2, <4>1
    <3>5. Storing("delete rmtree", job'[p], p, dirs'[b])
      BY <3>2, <3>3, <3>4 DEF Storing, SetTagSteps, DeletionSteps
    <3>6. \A d \in Content : dirs'[b][d] \notin Procs
      BY <1>8, <3>2, StorageAssumption
    <3> QED
      BY <1>10, <2>1, <3>2, <3>3, <3>5, <3>6
  <2>3. CASE ~Exists(b, c)
    <3>1. UNCHANGED dirs /\ NextItem(p, "delete tree", "idle")
      BY <1>1, <1>13, <2>3 DEF DeleteTree
    <3> QED
      BY <1>11, <2>1, <2>3, <3>1 DEF Exists
  <2> QED
    BY <2>2, <2>3
<1>14. CASE DeleteRmtree(p)
  <2>1. pc[p] = "delete rmtree" /\ UNCHANGED records /\ dirs[b][c] = "partial"
    BY <1>4, <1>5, <1>14 DEF DeleteRmtree, Storing
  <2>2. SetTree(b, c, "absent") /\ NextItem(p, "delete tree", "idle")
    BY <1>1, <1>14, <2>1 DEF DeleteRmtree
  <2>3. /\ dirs'[b][c] = "absent"
        /\ \A d \in Content \ {c} : dirs'[b][d] = dirs[b][d]
        /\ \A other \in Builds \ {b} : dirs'[other] = dirs[other]
    BY <1>3, <2>2, SetTreeValue
  <2> QED
    BY <1>11, <2>1, <2>2, <2>3
<1> QED
  BY <1>12, <1>13, <1>14

(***************************************************************************)
(* The invariant                                                           *)
(***************************************************************************)

\* A process dies, but not while it copies a tree or deletes a build.
LEMMA CrashKeeps ==
    ASSUME CrashInv, SeenThrough, TypeOK', NEW p \in Procs, Crash(p)
    PROVE  CrashInv'
<1>1. SUFFICES ASSUME NEW b, b = job[p].build
               PROVE  CrashInv'
  OBVIOUS
<1>2. /\ pc[p] # "idle" /\ UNCHANGED records
      /\ AbandonCopies(p) /\ Goto(p, "idle")
  BY DEF Crash
<1>3. /\ TypeOK /\ JobsTypeOK /\ StorageTypeOK /\ b \in Builds
      /\ Stores(p, b) => Storing(pc[p], job[p], p, dirs[b])
  BY <1>2, <1>1, JobKnown
<1>4. /\ pc'[p] = "idle"
      /\ \A q \in Procs \ {p} : pc'[q] = pc[q] /\ job'[q] = job[q]
  BY <1>2, <1>3, ControlValue
<1>5. pc[p] # "copytree" /\ pc[p] \notin DeletionSteps
  BY <1>4 DEF SeenThrough
<1>6. \A d \in Builds, c \in Content : dirs[d][c] # p
  BY <1>5 DEF CrashInv
<1>7. UNCHANGED dirs
  <2>1. \A d \in Builds : dirs'[d] = [c \in Content |-> dirs[d][c]]
    BY <1>2, <1>6 DEF AbandonCopies
  <2>2. \A d \in Builds : dirs'[d] = dirs[d]
    BY <1>3, <2>1 DEF StorageTypeOK
  <2>3. dirs' = [d \in Builds |-> dirs'[d]] /\ dirs = [d \in Builds |-> dirs[d]]
    BY <1>2, <1>3 DEF AbandonCopies, StorageTypeOK
  <2> QED
    BY <2>2, <2>3
<1>8. Stores(p, b) => InOrder(dirs[b])
  BY <1>3, <1>5 DEF Storing
<1>9. ~Stores(p, b)'
  BY <1>4 DEF Stores
<1> QED
  BY <1>1, <1>2, <1>3, <1>4, <1>5, <1>7, <1>8, <1>9, QuietFrame

\* When a process begins, the copies are where they were.
LEMMA CopiesKept ==
    ASSUME CrashInv, NEW p \in Procs, pc[p] = "idle", UNCHANGED dirs,
           \A q \in Procs \ {p} : pc'[q] = pc[q] /\ job'[q] = job[q]
    PROVE  \A d \in Builds, c \in Content, q \in Procs : dirs'[d][c] = q =>
              pc'[q] = "copytree" /\ job'[q].build = d /\ job'[q].item = c
<1>1. SUFFICES ASSUME NEW d \in Builds, NEW c \in Content, NEW q \in Procs,
                      dirs'[d][c] = q
               PROVE  pc'[q] = "copytree" /\ job'[q].build = d /\ job'[q].item = c
  OBVIOUS
<1>2. pc[q] = "copytree" /\ job[q].build = d /\ job[q].item = c
  BY <1>1 DEF CrashInv
<1> QED
  BY <1>2

\* A process begins an operation.  If it may store the build, nobody else does.
LEMMA BeginKeeps ==
    ASSUME CrashInv, OneStorer', TypeOK', NEW p \in Procs, NEW b \in Builds,
           NEW op, NEW step, NEW local, Begin(p, op, b, step, local),
           local.op = op, local.build = b, local.item = 1,
           \/ step = "pull" /\ op \in {"pull_build", "publish_build"}
           \/ step = "delete" /\ op \in Tasks
           \/ step = "publish" /\ op = "publish"
           \/ step \in {"tag", "untag", "check tags"} /\ op # "pull_build"
           \/ step = "edit" /\ op \in RecordEdits
    PROVE  CrashInv'
<1>1. /\ pc[p] = "idle" /\ UNCHANGED <<dirs, records>>
      /\ pc'[p] = step /\ (step # "idle" => job'[p] = local)
      /\ \A q \in Procs \ {p} : pc'[q] = pc[q] /\ job'[q] = job[q]
  <2>1. JobsTypeOK /\ Continue(p, step, local)
    BY DEF Begin, CrashInv, TypeOK
  <2>2. /\ pc'[p] = step /\ (step # "idle" => job'[p] = local)
        /\ \A q \in Procs \ {p} : pc'[q] = pc[q] /\ job'[q] = job[q]
    BY <2>1, ContinueValue
  <2> QED
    BY <2>2 DEF Begin
<1>2. step # "idle" /\ job'[p] = local
  BY <1>1
<1>3. Holding(step, local, dirs[b], records[b])
  BY DEF Holding, PullSteps, DeletionSteps
<1>4. \A q \in Procs \ {p}, d \in Builds : Stores(q, d)' <=> Stores(q, d)
  BY <1>1 DEF Stores
<1>5. \A d \in Builds : ~Stores(p, d) /\ (Stores(p, d)' => d = b)
  BY <1>1, <1>2 DEF Stores
<1>6. Stores(p, b)' => Storing(step, local, p, dirs[b])
  <2>1. SUFFICES ASSUME Stores(p, b)'
                 PROVE  Storing(step, local, p, dirs[b])
    OBVIOUS
  <2>2. \A q \in Procs : ~Stores(q, b)
    BY <1>4, <1>5, <2>1 DEF OneStorer
  <2>3. InOrder(dirs[b])
    BY <2>2 DEF CrashInv
  <2> QED
    BY <2>3 DEF Storing, SetTagSteps
<1>7. CompletedIsWhole'
  BY <1>1 DEF CrashInv, CompletedIsWhole, Completed
<1>8. ASSUME NEW d \in Builds, \A q \in Procs : ~Stores(q, d)'
      PROVE  InOrder(dirs'[d])
  <2>1. \A q \in Procs : ~Stores(q, d)
    BY <1>4, <1>5, <1>8
  <2> QED
    BY <1>1, <2>1 DEF CrashInv
<1>9. ASSUME NEW q \in Procs, NEW d \in Builds, Stores(q, d)'
      PROVE  Storing(pc'[q], job'[q], q, dirs'[d])
  <2>1. CASE q = p
    BY <1>1, <1>2, <1>5, <1>6, <1>9, <2>1
  <2>2. CASE q # p
    BY <1>1, <1>4, <1>9, <2>2 DEF CrashInv
  <2> QED
    BY <2>1, <2>2
<1>10. ASSUME NEW q \in Procs, pc'[q] # "idle"
       PROVE  Holding(pc'[q], job'[q], dirs'[job'[q].build], records'[job'[q].build])
  <2>1. CASE q = p
    BY <1>1, <1>2, <1>3, <2>1
  <2>2. CASE q # p
    BY <1>1, <1>10, <2>2 DEF CrashInv
  <2> QED
    BY <2>1, <2>2
<1>11. \A d \in Builds, c \in Content, q \in Procs : dirs'[d][c] = q =>
          pc'[q] = "copytree" /\ job'[q].build = d /\ job'[q].item = c
  BY <1>1, CopiesKept
<1> QED
  BY <1>7, <1>8, <1>9, <1>10, <1>11 DEF CrashInv

\* A process begins an operation.
LEMMA StartKeeps ==
    ASSUME CrashInv, OneStorer', TypeOK', NEW p \in Procs, Start(p)
    PROVE  CrashInv'
<1>1. PICK b \in BuildsUsed[p] :
         \/ PullBuild(p, b) \/ PublishBuild(p, b) \/ DeleteBuild(p, b)
         \/ PublishMutation(p, b) \/ CreateBuildTag(p, b)
         \/ RemoveBuildTag(p, b) \/ KeepBuild(p, b) \/ ReleaseBuild(p, b)
         \/ CreateNote(p, b) \/ DeleteCommand(p, b)
  BY DEF Start
<1>2. b \in Builds
  BY PublisherAssumption
<1> DEFINE Asks(local, op) == local.op = op /\ local.build = b /\ local.item = 1
<1>3. ASSUME NEW op
      PROVE  /\ Asks(NewJob(op, b), op)
             /\ \A note : Asks([NewJob(op, b) EXCEPT !.note = note], op)
             /\ \A tag : Asks([NewJob(op, b) EXCEPT !.tag = tag], op)
             /\ \A tags : Asks([NewJob(op, b) EXCEPT !.tags = tags], op)
             /\ \A note, tags :
                   Asks([NewJob(op, b) EXCEPT !.note = note, !.tags = tags], op)
  BY DEF NewJob
<1>4. ASSUME NEW op, NEW step, NEW local, Begin(p, op, b, step, local),
             Asks(local, op),
             \/ step = "pull" /\ op \in {"pull_build", "publish_build"}
             \/ step = "delete" /\ op \in Tasks
             \/ step = "publish" /\ op = "publish"
             \/ step \in {"tag", "untag", "check tags"} /\ op # "pull_build"
             \/ step = "edit" /\ op \in RecordEdits
      PROVE  CrashInv'
  BY <1>2, <1>4, BeginKeeps
<1> HIDE DEF Asks
<1>5. ASSUME PullBuild(p, b) PROVE CrashInv'
  BY <1>3, <1>4, <1>5 DEF PullBuild
<1>6. ASSUME PublishBuild(p, b) PROVE CrashInv'
  BY <1>3, <1>4, <1>6 DEF PublishBuild
<1>7. ASSUME DeleteBuild(p, b) PROVE CrashInv'
  BY <1>3, <1>4, <1>7 DEF DeleteBuild, Tasks
<1>8. ASSUME PublishMutation(p, b) PROVE CrashInv'
  BY <1>3, <1>4, <1>8 DEF PublishMutation
<1>9. ASSUME CreateBuildTag(p, b) PROVE CrashInv'
  BY <1>3, <1>4, <1>9 DEF CreateBuildTag
<1>10. ASSUME RemoveBuildTag(p, b) PROVE CrashInv'
  BY <1>3, <1>4, <1>10 DEF RemoveBuildTag
<1>11. ASSUME KeepBuild(p, b) \/ ReleaseBuild(p, b) PROVE CrashInv'
  BY <1>3, <1>4, <1>11 DEF KeepBuild, ReleaseBuild, RecordEdits
<1>12. ASSUME CreateNote(p, b) PROVE CrashInv'
  BY <1>3, <1>4, <1>12 DEF CreateNote, RecordEdits
<1>13. ASSUME DeleteCommand(p, b) PROVE CrashInv'
  BY <1>3, <1>4, <1>13 DEF DeleteCommand, Commands
<1> QED
  BY <1>1, <1>5, <1>6, <1>7, <1>8, <1>9, <1>10, <1>11, <1>12, <1>13

\* Every step preserves the invariant.
LEMMA CrashInvNext ==
    ASSUME CrashInv, OneStorer, OneStorer', [Next]_vars, [SeenThrough]_vars
    PROVE  CrashInv'
<1>1. TypeOK'
  BY NextType DEF CrashInv
<1>2. CASE UNCHANGED vars
  BY <1>2 DEF vars, CrashInv, TypeOK, StorageTypeOK, RecordsTypeOK, JobsTypeOK,
              CompletedIsWhole, Completed, Stores
<1>3. CASE Next /\ SeenThrough
  <2>1. PICK p \in Procs : Start(p) \/ Step(p) \/ Crash(p)
    BY <1>3 DEF Next
  <2>2. CASE Start(p)
    BY <1>1, <2>2, StartKeeps
  <2>3. CASE Crash(p)
    BY <1>1, <1>3, <2>3, CrashKeeps
  <2>4. CASE Step(p)
    <3>1. CASE Pull(p) \/ Submit(p) \/ Download(p) \/ Extract(p)
      BY <1>1, <3>1, PullBeforeTrees
    <3>2. CASE CopyPath(p) \/ RemoveTree(p) \/ Copy(p) \/ CopyTree(p)
      BY <1>1, <1>3, <3>2, PullWritesTrees
    <3>3. CASE NextTag(p) \/ Metadata(p) \/ Complete(p) \/ GbpJson(p)
      BY <1>1, <3>3, PullAfterTrees
    <3>4. CASE Publish(p)
      BY <1>1, <3>4, PublishKeeps
    <3>5. CASE \/ Tag(p) \/ IsLink(p) \/ Unlink(p) \/ Symlink(p) \/ CheckTags(p)
               \/ Untag(p) \/ IsSymlink(p) \/ RemoveLink(p) \/ Edit(p)
      BY <1>1, <3>5, TagsAndEditKeep
    <3>6. CASE Save(p)
      BY <1>1, <3>6, SaveKeeps
    <3>7. CASE Delete(p) \/ DeleteTree(p) \/ DeleteRmtree(p)
      BY <1>1, <3>7, DeleteKeeps
    <3> QED
      BY <2>4, <3>1, <3>2, <3>3, <3>4, <3>5, <3>6, <3>7 DEF Step
  <2> QED
    BY <2>1, <2>2, <2>3, <2>4
<1> QED
  BY <1>2, <1>3

\* Nothing is stored, and nobody works, in the beginning.
LEMMA CrashInvInit == Init => CrashInv
<1>1. SUFFICES ASSUME Init PROVE CrashInv
  OBVIOUS
<1>2. TypeOK
  BY <1>1, InitType
<1>3. /\ \A p \in Procs : pc[p] = "idle"
      /\ \A b \in Builds : ~Completed(b) /\ \A c \in Content : dirs[b][c] = "absent"
  BY <1>1 DEF Init, StorageInit, RecordsInit, Completed, IsCompleted
<1>4. N \in Content
  BY ContentBounds DEF Content
<1>5. \A b \in Builds, c \in Content, p \in Procs : dirs[b][c] # p
  BY <1>3, StorageAssumption
<1> QED
  BY <1>2, <1>3, <1>4, <1>5 DEF CrashInv, CompletedIsWhole, InOrder, Stores

\* Whatever number of processes dies, in a behaviour in which one process at a
\* time stores a build and no copy and no deletion is cut short, the trees of
\* a build fit the step of the process that stores it, and are in order when
\* nobody does.
THEOREM CrashInvariant == Spec /\ []OneStorer /\ NothingCutShort => []CrashInv
<1>1. CrashInv /\ OneStorer /\ OneStorer' /\ [Next]_vars /\ [SeenThrough]_vars
        => CrashInv'
  BY CrashInvNext
<1> QED
  BY <1>1, CrashInvInit, PTL DEF Spec, NothingCutShort

\* In such a behaviour a completed record means complete trees, no matter how
\* many processes die: pull() sets "completed" last, and does not take what a
\* crash has left of an earlier pull for a build that is there.
THEOREM CrashesLeaveCompletedWhole ==
    Spec /\ []OneStorer /\ NothingCutShort => []CompletedIsWhole
<1>1. CrashInv => CompletedIsWhole
  BY DEF CrashInv
<1> QED
  BY <1>1, CrashInvariant, PTL

\* Processes that are used for different builds store different builds.
LEMMA StoresApartOneStorer ==
    ASSUME StoresApart, AsUsed
    PROVE  OneStorer
<1>1. SUFFICES ASSUME NEW b \in Builds, NEW p \in Procs, NEW q \in Procs,
                      Stores(p, b), Stores(q, b) \/ WorksOn(q, b), p # q
               PROVE  FALSE
  BY DEF OneStorer
<1>2. /\ job[p].op \in Ops[p] /\ b \in BuildsUsed[p]
      /\ job[q].op \in Ops[q] /\ b \in BuildsUsed[q]
  BY <1>1 DEF AsUsed, Stores, WorksOn
<1>3. /\ job[p].op \notin {"createBuildTag", "removeBuildTag"}
      /\ job[q].op \notin {"createBuildTag", "removeBuildTag"}
  BY <1>1 DEF Stores, StoringJob, WorksOn, Tasks, Commands, TagOps
<1> QED
  BY <1>1, <1>2, <1>3 DEF StoresApart

\* With one task worker, and web processes that only set and remove tags, no
\* number of crashes leaves a completed record over incomplete trees, as long
\* as no copy of a tree and no deletion is cut short.
THEOREM StoresApartCompletedIsWhole ==
    StoresApart => (Spec /\ NothingCutShort => []CompletedIsWhole)
<1>1. StoresApart /\ AsUsed => OneStorer
  BY StoresApartOneStorer
<1>2. SUFFICES ASSUME StoresApart
               PROVE  Spec /\ NothingCutShort => []CompletedIsWhole
  OBVIOUS
<1>3. AsUsed => OneStorer
  BY <1>1, <1>2
<1> QED
  BY <1>3, AsUsedInvariant, CrashesLeaveCompletedWhole, PTL
=============================================================================
